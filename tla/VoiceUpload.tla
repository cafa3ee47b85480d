----------------------------- MODULE VoiceUpload -----------------------------
(***************************************************************************)
(* A voice message from webrtc.html to the camera's loudspeaker.  The page *)
(* (webrtc.js) announces a file on its data channel and sends it in        *)
(* slices; the channel keeps the order; the session's WebrtcItem (dcfile,  *)
(* gst-app.c) collects the bytes and hands itself to a pool of threads     *)
(* that play the file.  Sizes are in a unit of some bytes.                 *)
(***************************************************************************)
EXTENDS Naturals, Sequences

CONSTANTS Size,     \* sizes a recorded voice may have
          Json,     \* size of the "sendfile" announcement
          Chunk,    \* chunkSize
          MaxVoice  \* bound on the messages recorded

ASSUME SizesAssumption ==
    /\ Size \subseteq Nat /\ MaxVoice \in Nat
    /\ Json \in Nat \ {0} /\ Chunk \in Nat \ {0}

Voice == 1..MaxVoice
NoVoice == 0

VARIABLES
    voices,    \* messages recorded so far
    reading,   \* the blob a FileReader is reading, its size, bufferedAmount then
    buffered,  \* localdc.bufferedAmount
    channel,   \* messages on their way
    dcfile,    \* the session's file: name, fsize, pos, fd open
    disk,      \* bytes in each voice's file
    pool,      \* play requests no thread has taken
    played,    \* what threads played: the voice and how much of it
    whole      \* voices the page sent from first byte to last, and their sizes

vars == <<voices, reading, buffered, channel, dcfile, disk, pool, played, whole>>

NotReading == [voice |-> NoVoice, size |-> 0, mark |-> 0]

\* Files, marks and queues hold what the page and the session put there, and a
\* thread takes only requests that were made.
TypeOK ==
    /\ voices \in 0..MaxVoice
    /\ reading \in [voice : Voice \cup {NoVoice}, size : Nat, mark : Nat]
    /\ buffered \in Nat
    /\ channel \in Seq([what : {"file", "data"}, voice : Voice, size : Nat])
    /\ dcfile \in [name : Voice \cup {NoVoice}, fsize : Nat,
                   pos : Nat, open : BOOLEAN]
    /\ disk \in [Voice -> Nat]
    /\ pool \in Nat
    /\ played \in Seq([voice : Voice, size : Nat])
    /\ whole \subseteq [voice : Voice, size : Nat]

Init ==
    /\ voices = 0
    /\ reading = NotReading
    /\ buffered = 0
    /\ channel = <<>>
    /\ dcfile = [name |-> NoVoice, fsize |-> 0, pos |-> 0, open |-> FALSE]
    /\ disk = [k \in Voice |-> 0]
    /\ pool = 0
    /\ played = <<>>
    /\ whole = {}
-----------------------------------------------------------------------------
(* The page. *)

\* The end of the slice after mark b: two chunks on, or past the blob's end by
\* as much as one chunk more would be.
NextMark(b, size) ==
    LET one == b + Chunk
    IN  IF one > size THEN one + (one - size) ELSE one + Chunk

\* One turn of the loop: a slice goes out from localdc.bufferedAmount to the
\* mark, or to the blob's end, and bufferedAmount counts it.
Turn(t, size) ==
    LET to  == NextMark(t.mark, size)
        end == IF to < size THEN to ELSE size
    IN  [mark |-> to, buffered |-> IF end > t.buffered THEN end ELSE t.buffered]

\* The loop's variables after i turns, and the turns it takes.
Loop(size, mark, start) ==
    LET loop[i \in Nat] == IF i = 0 THEN [mark |-> mark, buffered |-> start]
                                    ELSE Turn(loop[i - 1], size)
    IN  loop

Turns(loop, size) ==
    CHOOSE n \in 0..size : /\ loop[n].mark >= size
                           /\ \A i \in 0..(n - 1) : loop[i].mark < size

\* mediaRecorder.onstop: the announcement goes out, the blob starts being read.
\* The last one has been read: sendVoice is disabled for two seconds at least.
onstop(size) ==
    /\ reading = NotReading
    /\ voices < MaxVoice
    /\ voices' = voices + 1
    /\ channel' = Append(channel, [what |-> "file", voice |-> voices', size |-> size])
    /\ buffered' = buffered + Json
    /\ reading' = [voice |-> voices', size |-> size, mark |-> buffered']
    /\ UNCHANGED <<dcfile, disk, pool, played, whole>>

\* The transport takes bytes from the channel's buffer.
Drain ==
    /\ buffered > 0
    /\ buffered' \in 0..(buffered - 1)
    /\ UNCHANGED <<voices, reading, channel, dcfile, disk, pool, played, whole>>

\* fileReader.onload sends every slice in one task.
onload ==
    LET size == reading.size
        loop == Loop(size, reading.mark, buffered)
        n    == Turns(loop, size)
    IN  /\ reading # NotReading
        /\ channel' = channel \o [i \in 1..n |->
               [what |-> "data", voice |-> reading.voice,
                size |-> loop[i].buffered - loop[i - 1].buffered]]
        /\ buffered' = loop[n].buffered
        /\ whole' = IF n > 0 /\ buffered' - buffered = size
                    THEN whole \cup {[voice |-> reading.voice, size |-> size]}
                    ELSE whole
        /\ reading' = NotReading
        /\ UNCHANGED <<voices, dcfile, disk, pool, played>>
-----------------------------------------------------------------------------
(* The session, in the thread of its webrtcbin. *)

Receive(what) ==
    /\ channel # <<>>
    /\ Head(channel).what = what
    /\ channel' = Tail(channel)
    /\ UNCHANGED <<voices, reading, buffered, played, whole>>

\* Mutants: pos is not reset for a new file; a chunk that fills the file is
\* neither closed nor played; every chunk is handed to the pool.
sendfile_keeps_pos ==
    /\ Receive("file")
    /\ disk' = [k \in Voice |-> IF k = dcfile.name THEN 0 ELSE disk[k]]
    /\ dcfile' = [dcfile EXCEPT !.name = Head(channel).voice,
                                !.fsize = Head(channel).size, !.open = TRUE]
    /\ UNCHANGED pool

data_never_done ==
    /\ Receive("data")
    /\ disk' = [disk EXCEPT ![dcfile.name] = @ + Head(channel).size]
    /\ dcfile' = [dcfile EXCEPT !.pos = @ + Head(channel).size]
    /\ UNCHANGED pool

data_played_at_once ==
    /\ Receive("data")
    /\ disk' = [disk EXCEPT ![dcfile.name] = @ + Head(channel).size]
    /\ dcfile' = [dcfile EXCEPT !.pos = @ + Head(channel).size]
    /\ pool' = pool + 1

\* "sendfile": the file of the last voice is removed, this one's is opened.
data_channel_on_message_string ==
    /\ Receive("file")
    /\ disk' = [k \in Voice |-> IF k = dcfile.name THEN 0 ELSE disk[k]]
    /\ dcfile' = [name |-> Head(channel).voice, fsize |-> Head(channel).size,
                  pos |-> 0, open |-> TRUE]
    /\ UNCHANGED pool

\* Bytes are written until the file is full; then it is closed (its number is
\* kept) and the item goes to the pool.
data_channel_on_message_data ==
    LET size == Head(channel).size
        pos  == dcfile.pos + size
    IN  /\ Receive("data")
        /\ IF dcfile.name # NoVoice /\ dcfile.pos # dcfile.fsize
           THEN /\ disk' = [disk EXCEPT ![dcfile.name] = @ + size]
                /\ dcfile' = [dcfile EXCEPT !.pos = pos, !.open = pos # dcfile.fsize]
                /\ pool' = pool + (IF pos = dcfile.fsize THEN 1 ELSE 0)
           ELSE UNCHANGED <<disk, dcfile, pool>>

\* Mutant: a thread that plays without a request.
play_unasked ==
    /\ dcfile.name # NoVoice
    /\ pool' = pool - 1
    /\ played' = Append(played, [voice |-> dcfile.name, size |-> disk[dcfile.name]])
    /\ UNCHANGED <<voices, reading, buffered, channel, dcfile, disk, whole>>

\* A pool thread plays the file the item names when the thread gets to it.
play_voice ==
    /\ pool > 0
    /\ pool' = pool - 1
    /\ played' = Append(played, [voice |-> dcfile.name, size |-> disk[dcfile.name]])
    /\ UNCHANGED <<voices, reading, buffered, channel, dcfile, disk, whole>>

Record == \E size \in Size : onstop(size)
SessionStep == data_channel_on_message_string \/ data_channel_on_message_data

Next == Record \/ onload \/ Drain \/ SessionStep \/ play_voice

Spec == Init /\ [][Next]_vars
-----------------------------------------------------------------------------
\* A patient user records again once the last message is through.  What still
\* races is the transport, which may or may not have taken the announcement
\* when onload sends the slices.
Through == channel = <<>> /\ pool = 0 /\ buffered = 0

PatientNext == (Through /\ Record) \/ onload \/ Drain \/ SessionStep \/ play_voice

\* The blob is read, the transport drains, the webrtcbin's thread and the
\* pool's (which has no limit) run.
PatientSpec ==
    /\ Init /\ [][PatientNext]_vars
    /\ WF_vars(onload) /\ WF_vars(Drain) /\ WF_vars(SessionStep) /\ WF_vars(play_voice)
-----------------------------------------------------------------------------
\* The slices never hold more than was announced: pos stops at fsize exactly,
\* the only value the session looks for (gst-app.c 1858 and 1862).
PosStopsAtSize == dcfile.pos <= dcfile.fsize

\* What is played is a whole recording, to its last byte, once, and in order of
\* recording.
HeardWholeOnceInOrder ==
    /\ \A i \in DOMAIN played : played[i] \in whole
    /\ \A i, j \in DOMAIN played : i < j => played[i].voice < played[j].voice

\* The file is open exactly while it is being filled; one announced with no
\* bytes is never full, as no slice of it comes.
OpenWhileFilling ==
    dcfile.open <=> dcfile.name # NoVoice
                    /\ (dcfile.pos # dcfile.fsize \/ dcfile.fsize = 0)

\* A voice the page sent whole is heard.  One whose announcement was still in
\* the channel's buffer when the blob had been read is sent without its first
\* bytes and never heard.
WholeVoiceIsHeard ==
    \A k \in Voice : (\E v \in whole : v.voice = k)
                    ~> \E i \in DOMAIN played : played[i].voice = k
=============================================================================
