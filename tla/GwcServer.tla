------------------------------ MODULE GwcServer ------------------------------
(***************************************************************************)
(* The session table of gwc: soup.c's web socket handlers and the pipeline *)
(* callbacks they call in gst-app.c.  Every action is one callback of the  *)
(* GLib main loop, run from start to end: libsoup's signals, the state     *)
(* timer and the appsink's sample all find the memory one callback left.   *)
(* The table maps a web socket connection to a WebrtcItem; an item owns a  *)
(* send pipeline for its whole life, a recording pipeline while its client *)
(* records and a receive pipeline while its client talks.                  *)
(*                                                                         *)
(* Addresses are reused: a released pipeline's address is given out again, *)
(* so a pointer the code forgets to reset may name somebody else's object. *)
(* A step that uses such a pointer sets `undefined` to the kind of misuse, *)
(* and nothing follows it.                                                 *)
(***************************************************************************)
EXTENDS Naturals, FiniteSets

CONSTANTS Conn,    \* addresses of web socket connections
          Pipe,    \* addresses of pipelines: bounds how many exist at once
          NoPipe   \* the NULL pointer

\* NULL is no address.
ASSUME NoPipeAssumption == NoPipe \notin Pipe \cup Conn

VARIABLES
    app_sink,       \* config_data.app_sink: appsrc or udpsrc callbacks
    entry,          \* webrtc_connected_table: connection -> WebrtcItem
    heap,           \* what each address holds
    avlist,         \* G_AppsrcList as a bag of AppSrcAVPair addresses
    cmd_recording,  \* the flag behind get_record_state
    timers,         \* sendbins a check_webrtcbin_state_by_timer source names
    undefined       \* the first misuse of a stale pointer, or "none"

vars == <<app_sink, entry, heap, avlist, cmd_recording, timers, undefined>>

Use    == {"free", "send", "record", "talk"}
Misuse == {"double_unref", "stale_ice", "stale_pair", "stale_timer"}
Ptr    == Pipe \cup {NoPipe}

\* The two AppSrcAVPairs inside a WebrtcItem: send_avpair and record.rec_avpair.
AVPair == Conn \X {"send", "rec"}

WebrtcItem == [alive : BOOLEAN, sendbin : Ptr, pipeline : Ptr, video_src : Ptr,
               recvpipe : Ptr, recvbin : Ptr, stop_recv : BOOLEAN]

\* No item: the connection is not in the table.
Gone == [alive |-> FALSE, sendbin |-> NoPipe, pipeline |-> NoPipe,
         video_src |-> NoPipe, recvpipe |-> NoPipe, recvbin |-> NoPipe,
         stop_recv |-> FALSE]

\* An item's pointers are NULL or pipelines, and the list never holds a pair a
\* negative number of times: record.stop removes pairs that are not listed.
TypeOK ==
    /\ app_sink \in BOOLEAN
    /\ entry \in [Conn -> WebrtcItem]
    /\ heap \in [Pipe -> Use]
    /\ avlist \in [AVPair -> Nat]
    /\ cmd_recording \in BOOLEAN
    /\ timers \subseteq Pipe
    /\ undefined \in Misuse \cup {"none"}

Init ==
    /\ app_sink \in BOOLEAN
    /\ entry = [c \in Conn |-> Gone]
    /\ heap = [p \in Pipe |-> "free"]
    /\ avlist = [pair \in AVPair |-> 0]
    /\ cmd_recording = FALSE
    /\ timers = {}
    /\ undefined = "none"
-----------------------------------------------------------------------------
Live      == {c \in Conn : entry[c].alive}
Recorders == {c \in Conn : entry[c].pipeline # NoPipe}
Free      == {p \in Pipe : heap[p] = "free"}
Owned(c)  == {entry[c].sendbin, entry[c].pipeline, entry[c].recvpipe} \ {NoPipe}

\* gst_object_unref of the last reference to every pipeline of P.
Release(P) == [p \in Pipe |-> IF p \in P THEN "free" ELSE heap[p]]

\* g_list_append, and g_list_remove of the first occurrence if there is one.
ListAppend(list, pair) == [list EXCEPT ![pair] = @ + 1]
ListRemove(list, pair) == [list EXCEPT ![pair] = IF @ = 0 THEN 0 ELSE @ - 1]

\* Dereferencing these pointers is defined: the pair's appsrc elements exist,
\* the receive bin an ICE candidate would go to has not been released.
Backed(pair) ==
    /\ entry[pair[1]].alive
    /\ pair[2] = "rec" => entry[pair[1]].pipeline # NoPipe
StaleRecvbin(c) == entry[c].recvbin # entry[c].recvpipe
-----------------------------------------------------------------------------
\* Mutant: the session starts its timer but is not listed.
start_unlisted(c, p) == timers' = timers \cup {p} /\ UNCHANGED avlist

(***************************************************************************)
(* A browser opens the web socket.  data->fn is start_appsrc_webrtcbin or  *)
(* start_udpsrc_webrtcbin; only the first lists an AV pair and starts the  *)
(* timer that keeps the sendbin's address and is never removed.            *)
(***************************************************************************)
start_appsrc_webrtcbin(c, p) ==
    /\ avlist' = ListAppend(avlist, <<c, "send">>)
    /\ timers' = timers \cup {p}

start_udpsrc_webrtcbin == UNCHANGED <<avlist, timers>>

soup_websocket_handler(c) ==
    /\ ~entry[c].alive
    /\ \E p \in Free :
        /\ entry' = [entry EXCEPT ![c] = [Gone EXCEPT !.alive = TRUE, !.sendbin = p]]
        /\ heap' = [heap EXCEPT ![p] = "send"]
        /\ IF app_sink THEN start_appsrc_webrtcbin(c, p)
                       ELSE start_udpsrc_webrtcbin
    /\ UNCHANGED <<app_sink, cmd_recording, undefined>>

\* record.start overwrites item->pipeline without looking at it.
appsrc_cmd_rec_start(c, p) ==
    /\ entry' = [entry EXCEPT ![c] = [@ EXCEPT !.pipeline = p, !.video_src = p]]
    /\ avlist' = ListAppend(avlist, <<c, "rec">>)

udpsrc_cmd_rec_start(c, p) ==
    /\ entry' = [entry EXCEPT ![c] = [@ EXCEPT !.pipeline = p]]
    /\ UNCHANGED avlist

\* Mutant: get_record_state is not asked.
record_start_unasked(c) ==
    /\ entry[c].alive
    /\ cmd_recording' = TRUE
    /\ \E p \in Free :
        /\ heap' = [heap EXCEPT ![p] = "record"]
        /\ IF app_sink THEN appsrc_cmd_rec_start(c, p) ELSE udpsrc_cmd_rec_start(c, p)
    /\ UNCHANGED <<app_sink, timers, undefined>>

\* cmd record start: refused, with no change here, while anybody records.
record_start(c) ==
    /\ entry[c].alive
    /\ ~cmd_recording
    /\ cmd_recording' = TRUE
    /\ \E p \in Free :
        /\ heap' = [heap EXCEPT ![p] = "record"]
        /\ IF app_sink THEN appsrc_cmd_rec_start(c, p) ELSE udpsrc_cmd_rec_start(c, p)
    /\ UNCHANGED <<app_sink, timers, undefined>>

\* Mutants of record.stop: item->pipeline is not reset; the pair stays listed.
record_stop_keeps_pipeline(c) ==
    /\ entry[c].alive
    /\ cmd_recording' = FALSE
    /\ heap' = Release({entry[c].pipeline})
    /\ avlist' = IF app_sink THEN ListRemove(avlist, <<c, "rec">>) ELSE avlist
    /\ UNCHANGED <<app_sink, entry, timers, undefined>>

record_stop_leaves_pair(c) ==
    /\ entry[c].alive
    /\ cmd_recording' = FALSE
    /\ heap' = Release({entry[c].pipeline})
    /\ entry' = [entry EXCEPT ![c].pipeline = NoPipe]
    /\ UNCHANGED <<app_sink, avlist, timers, undefined>>

\* Mutant: the pair is taken to be listed.
appsrc_rec_stop_unlooked(c) ==
    /\ avlist' = [avlist EXCEPT ![<<c, "rec">>] = @ - 1]
    /\ UNCHANGED undefined

\* record.stop of an appsrc recording also unlists the pair and drops its
\* reference to rec_avpair.video_src, which it leaves set.
appsrc_cmd_rec_stop(c) ==
    /\ avlist' = ListRemove(avlist, <<c, "rec">>)
    /\ undefined' = IF entry[c].pipeline = NoPipe /\ entry[c].video_src # NoPipe
                    THEN "double_unref" ELSE undefined

udpsrc_cmd_rec_stop == UNCHANGED <<avlist, undefined>>

\* cmd record with any other argument: record.stop runs whoever records.  It
\* clears the flag and releases item->pipeline (a no-op on NULL).
record_stop(c) ==
    /\ entry[c].alive
    /\ cmd_recording' = FALSE
    /\ heap' = Release({entry[c].pipeline})
    /\ entry' = [entry EXCEPT ![c] = [@ EXCEPT !.pipeline = NoPipe]]
    /\ IF app_sink THEN appsrc_cmd_rec_stop(c) ELSE udpsrc_cmd_rec_stop
    /\ UNCHANGED <<app_sink, timers>>

\* An SDP that is not an answer: recv.addremote builds a receive pipeline and
\* overwrites recvpipe, recvbin and stop_recv.
sdp_offer(c) ==
    /\ entry[c].alive
    /\ \E p \in Free :
        /\ entry' = [entry EXCEPT ![c] = [@ EXCEPT !.recvpipe = p, !.recvbin = p,
                                                  !.stop_recv = TRUE]]
        /\ heap' = [heap EXCEPT ![p] = "talk"]
    /\ UNCHANGED <<app_sink, avlist, cmd_recording, timers, undefined>>

\* Mutant: stop_recv_webrtc resets itself only.
talk_stop_keeps_recvpipe(c) ==
    /\ entry[c].alive
    /\ entry[c].stop_recv
    /\ heap' = Release({entry[c].recvpipe})
    /\ entry' = [entry EXCEPT ![c].stop_recv = FALSE]
    /\ UNCHANGED <<app_sink, avlist, cmd_recording, timers, undefined>>

\* cmd talk stop: stop_recv_webrtc resets itself and recvpipe, not recvbin.
talk_stop(c) ==
    /\ entry[c].alive
    /\ entry[c].stop_recv
    /\ heap' = Release({entry[c].recvpipe})
    /\ entry' = [entry EXCEPT ![c] = [@ EXCEPT !.recvpipe = NoPipe, !.stop_recv = FALSE]]
    /\ UNCHANGED <<app_sink, avlist, cmd_recording, timers, undefined>>

\* An ICE candidate of the browser goes to recvbin when it is set, else to
\* sendbin.
ice_candidate(c) ==
    /\ entry[c].alive
    /\ undefined' = IF StaleRecvbin(c) THEN "stale_ice" ELSE undefined
    /\ UNCHANGED <<app_sink, entry, heap, avlist, cmd_recording, timers>>

\* Mutant: destroy_webrtc_table forgets the recording.
close_forgets_record(c) ==
    /\ entry[c].alive
    /\ entry' = [entry EXCEPT ![c] = Gone]
    /\ heap' = Release({entry[c].sendbin, entry[c].recvpipe})
    /\ avlist' = IF app_sink THEN ListRemove(avlist, <<c, "send">>) ELSE avlist
    /\ UNCHANGED <<app_sink, cmd_recording, timers, undefined>>

\* The connection closes: its item leaves the table and destroy_webrtc_table
\* runs stop_webrtc, record.stop if it records, stop_recv if it talks.
soup_websocket_closed_cb(c) ==
    LET records == entry[c].pipeline # NoPipe
        unsent  == IF app_sink THEN ListRemove(avlist, <<c, "send">>) ELSE avlist
    IN  /\ entry[c].alive
        /\ entry' = [entry EXCEPT ![c] = Gone]
        /\ heap' = Release(Owned(c))
        /\ cmd_recording' = (cmd_recording /\ ~records)
        /\ avlist' = IF app_sink /\ records THEN ListRemove(unsent, <<c, "rec">>) ELSE unsent
        /\ UNCHANGED <<app_sink, timers, undefined>>

\* The appsink pushes a sample into every listed pair.
on_new_sample_from_sink ==
    /\ app_sink
    /\ undefined' = IF \A pair \in AVPair : avlist[pair] > 0 => Backed(pair)
                    THEN undefined ELSE "stale_pair"
    /\ UNCHANGED <<app_sink, entry, heap, avlist, cmd_recording, timers>>

\* The state timer fires on the sendbin it was given.  The function returns
\* nothing where GLib reads a gboolean, so the source stays or goes.
check_webrtcbin_state_by_timer(p) ==
    /\ p \in timers
    /\ timers' \in {timers, timers \ {p}}
    /\ undefined' = IF heap[p] = "send" THEN undefined ELSE "stale_timer"
    /\ UNCHANGED <<app_sink, entry, heap, avlist, cmd_recording>>

ClientMessage(c) ==
    \/ record_start(c)
    \/ record_stop(c)
    \/ sdp_offer(c)
    \/ talk_stop(c)
    \/ ice_candidate(c)

\* What the process does of itself or because a connection opens or closes.
Background ==
    \/ \E c \in Conn : soup_websocket_handler(c) \/ soup_websocket_closed_cb(c)
    \/ on_new_sample_from_sink
    \/ \E p \in Pipe : check_webrtcbin_state_by_timer(p)

\* Clients may send any message at any time.
Next == undefined = "none" /\ (Background \/ \E c \in Conn : ClientMessage(c))

Spec == Init /\ [][Next]_vars
-----------------------------------------------------------------------------
(***************************************************************************)
(* A polite client stops only a recording it started, offers a second talk *)
(* only after it stopped the first, and sends no candidate between the     *)
(* stop of one talk and the start of the next.  Nothing in the server asks *)
(* for this; webrtc.js does most of it.                                    *)
(***************************************************************************)
PoliteMessage(c) ==
    \/ record_start(c)
    \/ entry[c].pipeline # NoPipe /\ record_stop(c)
    \/ entry[c].recvpipe = NoPipe /\ sdp_offer(c)
    \/ talk_stop(c)
    \/ ~StaleRecvbin(c) /\ ice_candidate(c)

PoliteNext == undefined = "none" /\ (Background \/ \E c \in Conn : PoliteMessage(c))

PoliteSpec == Init /\ [][PoliteNext]_vars
-----------------------------------------------------------------------------
(* What every order of messages leaves true. *)

\* The recording flag is never stuck: while it refuses every client, some live
\* session has a recording pipeline and can end it, by a stop or by closing
\* (the flag is cleared in record.stop only, gst-app.c 1047 and 1371).
FlagHasRecorder ==
    cmd_recording => \E c \in Recorders : entry[c].alive /\ heap[entry[c].pipeline] = "record"

\* Each pointer a session will release is to a pipeline of the kind it was made
\* as, although addresses are reused and destroy_webrtc_table releases three
\* pointers without further checks.
OwnsItsPipes(c) ==
    /\ entry[c].alive <=> entry[c].sendbin # NoPipe
    /\ ~entry[c].alive => entry[c] = Gone
    /\ entry[c].sendbin # NoPipe => heap[entry[c].sendbin] = "send"
    /\ entry[c].pipeline # NoPipe => heap[entry[c].pipeline] = "record"
    /\ entry[c].recvpipe # NoPipe => heap[entry[c].recvpipe] = "talk"

\* Every session owns its pipes and no pipeline has two owners, so that
\* destroy_webrtc_table (soup.c 547-554) releases nothing of anybody else's.
SessionsOwnTheirPipes ==
    /\ \A c \in Conn : OwnsItsPipes(c)
    /\ \A c, d \in Conn : c # d => Owned(c) \cap Owned(d) = {}

\* destroy_webrtc_table calls recv.stop_recv, a function pointer, when recvpipe
\* is set: the two are set and reset together, and the bin candidates go to is
\* then the one of that pipeline.
TalkPaired ==
    \A c \in Conn :
        /\ entry[c].stop_recv <=> entry[c].recvpipe # NoPipe
        /\ entry[c].recvpipe # NoPipe => entry[c].recvbin = entry[c].recvpipe

\* With appsinks, every live session is fed once, and a recording at least once.
SessionsAreFed ==
    \A c \in Conn :
        /\ avlist[<<c, "send">>] = (IF app_sink /\ entry[c].alive THEN 1 ELSE 0)
        /\ app_sink /\ entry[c].pipeline # NoPipe => avlist[<<c, "rec">>] > 0

\* No step takes a pipeline away from a session that keeps pointing at it,
\* whichever session or source the step belongs to.
NoForeignRelease ==
    [][\A c \in Conn : \A p \in Owned(c) :
        p \in Owned(c)' => heap'[p] = heap[p]]_vars
-----------------------------------------------------------------------------
(* What polite clients add. *)

\* One recording at a time, and the flag says exactly whether there is one
\* ("have someone recording in process", soup.c 299).
ExclusiveRecording ==
    /\ \A c, d \in Recorders : c = d
    /\ cmd_recording <=> Recorders # {}

\* Nothing leaks: every pipeline that exists belongs to a live session.
NoOrphanPipes == \A p \in Pipe : heap[p] # "free" => \E c \in Live : p \in Owned(c)

\* A recording is in the appsrc list once, and nothing else is: the list never
\* names an item that has been freed.
ListIsExact ==
    \A c \in Conn : avlist[<<c, "rec">>] =
        (IF app_sink /\ entry[c].pipeline # NoPipe THEN 1 ELSE 0)

\* The only stale pointer ever used is the one in the state timer, and only
\* with appsinks.
OnlyTimersGoStale ==
    undefined # "none" => app_sink /\ undefined = "stale_timer"
-----------------------------------------------------------------------------
\* The recorder as a lock (RecorderLock): its holder is the recording session.
Nobody == NoPipe
holder ==
    IF Recorders = {} THEN Nobody ELSE CHOOSE c \in Recorders : TRUE

Lock == INSTANCE RecorderLock WITH Client <- Conn

\* Under polite clients the flag, the item's pointer and the three callbacks
\* that touch them are a lock: taken when free, given back by its holder.
ImplementsRecorderLock == Lock!Spec
=============================================================================
