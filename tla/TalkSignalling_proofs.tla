------------------------ MODULE TalkSignalling_proofs ------------------------
(***************************************************************************)
(* A patient user's talks arrive, for any numbers of talks and candidates. *)
(***************************************************************************)
EXTENDS TalkSignalling, TLAPS

(* What can be said of a queue. *)

\* A message of a kind is on its way.
Holds(q, what) == \E i \in 1..Len(q) : q[i].what = what

\* Nothing but stops is.
Stops(q) == \A i \in 1..Len(q) : q[i].what = "talk stop"

\* An offer has only stops before it, and neither a stop nor an offer behind it.
InLine(q) ==
    \A i, k \in 1..Len(q) : k < i =>
        /\ q[i].what = "offer" => q[k].what = "talk stop"
        /\ q[k].what = "offer" => q[i].what \notin {"talk stop", "offer"}

\* Every candidate is behind an offer.
IceBehind(q) ==
    \A i \in 1..Len(q) : q[i].what = "ice" => \E k \in 1..(i - 1) : q[k].what = "offer"

\* Offers and candidates, or all messages, are about connection n.
TalkIsAbout(q, n) == \A i \in 1..Len(q) : q[i].what \in {"offer", "ice"} => q[i].of = n
AllAbout(q, n) == \A i \in 1..Len(q) : q[i].of = n
-----------------------------------------------------------------------------
(* What holds with a patient user. *)

\* A connection on which nothing will happen of itself any more.
Done(n) ==
    /\ bin[n] # "asked" /\ pc[n] \notin {"creating", "offering"}
    /\ bin[n] = "described" => gathered["server"][n] = MaxIce
    /\ pc[n] = "stable" => gathered["page"][n] = MaxIce

\* The server's ends are done, and all they have sent is read.
ServerQuiet ==
    /\ toPage = <<>> /\ pc[0] = "stable"
    /\ \A n \in Peer : /\ bin[n] # "asked"
                       /\ bin[n] = "described" => gathered["server"][n] = MaxIce

\* The last talk's stop is on its way or read.
OnlyStops == Stops(toServer) /\ (toServer = <<>> => recvpipe = 0)

\* While a talk starts, until its offer is read, everything else is done but for
\* the stops the page sends of itself.
Starting ==
    /\ capturing \in {0, 1} /\ localpc + capturing <= MaxTalk
    /\ capturing = 1 => ServerQuiet /\ OnlyStops /\ \A n \in Peer : Done(n)
    /\ pc[localpc] = "creating" => ServerQuiet /\ OnlyStops
    /\ Holds(toServer, "offer") => ServerQuiet /\ pc[localpc] = "offering"

\* Earlier connections are done, later ones are not there.
OthersRest ==
    \A n \in Peer : /\ n # localpc => Done(n)
                    /\ n > localpc => bin[n] = "absent" /\ pc[n] = "absent"

\* The watch is negotiated before the first talk, and a talk's end at the page
\* exists as long as localpc names it.
Negotiated ==
    /\ pc[0] \in {"new", "stable"}
    /\ pc[0] = "stable" \/ Holds(toPage, "offer") => bin[0] = "described"
    /\ localpc # 0 => pc[0] = "stable" /\ pc[localpc] \in {"creating", "offering", "stable"}

\* The session's pointers name the talk of the page, or an earlier one until the
\* offer is read; only the talk of recvpipe has a pipeline.
Pointers ==
    /\ recvpipe \in {0, recvbin} /\ recvbin <= localpc
    /\ \A n \in Talk : bin[n] \in {"asked", "described"} => n = recvpipe
    /\ recvbin = localpc \/ pc[localpc] = "creating" \/ Holds(toServer, "offer")

\* What is on its way to the page is about the connection of localpc.
ToPageOrder ==
    /\ AllAbout(toPage, localpc)
    /\ Holds(toPage, "answer") => localpc # 0

\* So is what is on its way to the session; a stop is read before the offer
\* behind it, and an offer before its candidates.
ToServerOrder ==
    /\ InLine(toServer) /\ TalkIsAbout(toServer, localpc)
    /\ recvbin = localpc \/ IceBehind(toServer)
    /\ toServer # <<>> /\ Head(toServer).what = "offer" => recvpipe = 0

\* The offer of the page's talk is on its way, at the bin, or answered, and no
\* stop will be read before the page has the answer.
AnswerWay ==
    pc[localpc] = "offering" =>
        \/ Holds(toServer, "offer")
        \/ /\ ~ Holds(toServer, "talk stop")
           /\ bin[localpc] = "asked" \/ Holds(toPage, "answer")

PatientInv ==
    /\ TypeOK
    /\ strays = {}
    /\ Starting
    /\ OthersRest
    /\ Negotiated
    /\ Pointers
    /\ ToPageOrder
    /\ ToServerOrder
    /\ AnswerWay

(* And as long as no talk loses its connection. *)

\* A talk that is being ended, or has been, is done with, or the next one is
\* begun: no candidate will be read before that one's offer.
TalkIsOver ==
    /\ pc[0] = "stable"
    /\ IceBehind(toServer)
    /\ Holds(toServer, "offer") \/ pc[localpc] = "creating" \/ Done(localpc)

StopGuard == recvpipe # recvbin \/ Holds(toServer, "talk stop") => TalkIsOver
-----------------------------------------------------------------------------
\* Connections are numbered from the watch, 0.
LEMMA PeerFacts == /\ Peer \subseteq Nat /\ 0 \in Peer /\ Talk \subseteq Peer
                   /\ \A n \in Talk : n # 0
                   /\ \A n \in Peer : n \in Nat /\ n <= MaxTalk /\ (n # 0 => n \in Talk)
  BY MaxTalkAssumption DEF Peer, Talk

\* What sending and reading do to a queue.
LEMMA Sending ==
    ASSUME NEW q \in Seq(Message), NEW m \in Message
    PROVE  /\ Append(q, m) \in Seq(Message)
           /\ Len(q) \in Nat /\ Len(Append(q, m)) = Len(q) + 1
           /\ Append(q, m)[Len(q) + 1] = m
           /\ \A i \in 1..Len(q) : Append(q, m)[i] = q[i]
  OBVIOUS

\* Reading takes the first message; the others move up.
LEMMA Reading ==
    ASSUME NEW q \in Seq(Message), q # <<>>
    PROVE  /\ Tail(q) \in Seq(Message) /\ Head(q) \in Message
           /\ Len(q) \in Nat /\ Len(q) > 0 /\ Len(Tail(q)) = Len(q) - 1
           /\ Head(q) = q[1]
           /\ \A i \in 1..(Len(q) - 1) : Tail(q)[i] = q[i + 1]
  OBVIOUS

\* A queue of stops is in order whatever it is about, and so is an empty one.
LEMMA StopsOnly ==
    ASSUME NEW q \in Seq(Message), Stops(q), NEW n
    PROVE  /\ ~ Holds(q, "offer") /\ InLine(q) /\ IceBehind(q) /\ TalkIsAbout(q, n)
           /\ q # <<>> => Head(q).what = "talk stop"
<1>1. ~ Holds(q, "offer") /\ InLine(q) /\ IceBehind(q) /\ TalkIsAbout(q, n)
  BY DEF Stops, Holds, InLine, IceBehind, TalkIsAbout
<1>2. ASSUME q # <<>> PROVE Head(q).what = "talk stop"
  <2>1. Head(q) = q[1] /\ 1 \in 1..Len(q)
    BY <1>2, Reading
  <2> QED BY <2>1 DEF Stops
<1> QED BY <1>1, <1>2

LEMMA Nothing ==
    /\ <<>> \in Seq(Message) /\ Stops(<<>>)
    /\ \A what : ~ Holds(<<>>, what)
    /\ \A n : AllAbout(<<>>, n)
  BY DEF Stops, Holds, AllAbout

\* What a queue is after a send.
LEMMA AfterSend ==
    ASSUME NEW q \in Seq(Message), NEW m \in Message, NEW r, r = Append(q, m)
    PROVE  /\ r \in Seq(Message) /\ r # <<>>
           /\ Head(r) = IF q = <<>> THEN m ELSE Head(q)
           /\ \A what : Holds(r, what) <=> Holds(q, what) \/ what = m.what
           /\ Stops(q) /\ m.what = "talk stop" => Stops(r)
           /\ (/\ InLine(q)
               /\ m.what = "talk stop" => ~ Holds(q, "offer")
               /\ m.what = "offer" => Stops(q)) => InLine(r)
           /\ IceBehind(q) /\ (m.what = "ice" => Holds(q, "offer")) => IceBehind(r)
<1>1. /\ Len(q) \in Nat /\ Len(r) = Len(q) + 1 /\ r[Len(q) + 1] = m /\ r \in Seq(Message)
      /\ \A i \in 1..Len(q) : r[i] = q[i]
  BY Sending
<1> PICK l \in Nat : Len(q) = l /\ Len(r) = l + 1
  BY <1>1
<1>2. r[l + 1] = m /\ \A i \in 1..l : r[i] = q[i]
  BY <1>1
<1>3. \A i \in 1..(l + 1) : i = l + 1 \/ (i \in 1..l /\ i < l + 1)
  OBVIOUS
<1>4. l + 1 \in 1..(l + 1) /\ 1..l \subseteq 1..(l + 1)
  OBVIOUS
<1>5. r # <<>> /\ Head(r) = IF q = <<>> THEN m ELSE Head(q)
  OBVIOUS
<1>6. \A what : Holds(r, what) <=> Holds(q, what) \/ what = m.what
  <2>1. ASSUME NEW what, Holds(r, what) PROVE Holds(q, what) \/ what = m.what
    BY <1>2, <1>3, <2>1 DEF Holds
  <2>2. ASSUME NEW what, Holds(q, what) PROVE Holds(r, what)
    BY <1>2, <1>4, <2>2 DEF Holds
  <2>3. Holds(r, m.what)
    BY <1>2, <1>4 DEF Holds
  <2> QED BY <2>1, <2>2, <2>3
<1>7. Stops(q) /\ m.what = "talk stop" => Stops(r)
  BY <1>2, <1>3 DEF Stops
<1>8. ASSUME InLine(q), m.what = "talk stop" => ~ Holds(q, "offer"), m.what = "offer" => Stops(q)
      PROVE  InLine(r)
  <2> SUFFICES ASSUME NEW i \in 1..(l + 1), NEW k \in 1..(l + 1), k < i
               PROVE  /\ r[i].what = "offer" => r[k].what = "talk stop"
                      /\ r[k].what = "offer" => r[i].what \notin {"talk stop", "offer"}
    BY DEF InLine
  <2>1. k \in 1..l /\ r[k] = q[k]
    BY <1>2
  <2>2. CASE i \in 1..l
    BY <1>2, <1>8, <2>1, <2>2 DEF InLine
  <2>3. CASE i = l + 1
    <3>1. r[i] = m
      BY <1>2, <2>3
    <3>2. q[k].what = "offer" => Holds(q, "offer")
      BY <2>1 DEF Holds
    <3>3. Stops(q) => q[k].what = "talk stop"
      BY <2>1 DEF Stops
    <3> QED BY <1>8, <2>1, <3>1, <3>2, <3>3
  <2> QED BY <1>3, <2>2, <2>3
<1>9. ASSUME IceBehind(q), m.what = "ice" => Holds(q, "offer") PROVE IceBehind(r)
  <2> SUFFICES ASSUME NEW i \in 1..(l + 1), r[i].what = "ice"
               PROVE  \E k \in 1..(i - 1) : r[k].what = "offer"
    BY DEF IceBehind
  <2>1. CASE i = l + 1
    <3>1. PICK k \in 1..l : q[k].what = "offer"
      BY <1>2, <1>9, <2>1 DEF Holds
    <3>2. k \in 1..(i - 1)
      BY <2>1
    <3> QED BY <1>2, <3>1, <3>2
  <2>2. CASE i \in 1..l
    <3>1. PICK k \in 1..(i - 1) : q[k].what = "offer"
      BY <1>2, <1>9, <2>2 DEF IceBehind
    <3>2. k \in 1..l
      BY <2>2
    <3> QED BY <1>2, <3>1, <3>2
  <2> QED BY <1>3, <2>1, <2>2
<1> QED BY <1>1, <1>5, <1>6, <1>7, <1>8, <1>9

\* What it is about.
LEMMA AboutAfterSend ==
    ASSUME NEW q \in Seq(Message), NEW m \in Message, NEW n
    PROVE  /\ TalkIsAbout(q, n) /\ (m.what \in {"offer", "ice"} => m.of = n) =>
                 TalkIsAbout(Append(q, m), n)
           /\ AllAbout(q, n) /\ m.of = n => AllAbout(Append(q, m), n)
<1> DEFINE r == Append(q, m)
<1>1. /\ Len(q) \in Nat /\ Len(r) = Len(q) + 1 /\ r[Len(q) + 1] = m
      /\ \A i \in 1..Len(q) : r[i] = q[i]
  BY Sending
<1> HIDE DEF r
<1>2. \A i \in 1..Len(r) : i = Len(q) + 1 \/ i \in 1..Len(q)
  BY <1>1
<1>3. TalkIsAbout(q, n) /\ (m.what \in {"offer", "ice"} => m.of = n) => TalkIsAbout(r, n)
  BY <1>1, <1>2 DEF TalkIsAbout
<1>4. AllAbout(q, n) /\ m.of = n => AllAbout(r, n)
  BY <1>1, <1>2 DEF AllAbout
<1> QED BY <1>3, <1>4 DEF r

\* What a queue is after its first message has been read.
LEMMA AfterRead ==
    ASSUME NEW q \in Seq(Message), q # <<>>, NEW r, r = Tail(q)
    PROVE  /\ r \in Seq(Message) /\ Head(q) \in Message /\ Holds(q, Head(q).what)
           /\ \A what : Holds(r, what) => Holds(q, what)
           /\ \A what : what # Head(q).what /\ Holds(q, what) => Holds(r, what)
           /\ Stops(q) => Head(q).what = "talk stop" /\ Stops(r)
           /\ InLine(q) =>
                 /\ InLine(r)
                 /\ Head(q).what # "talk stop" => ~ Holds(r, "offer")
                 /\ Head(q).what = "offer" => ~ Holds(r, "talk stop")
           /\ IceBehind(q) => Head(q).what # "ice" /\ (Head(q).what # "offer" => IceBehind(r))
           /\ r # <<>> => Holds(r, Head(r).what)
<1>1. /\ Len(q) \in Nat /\ Len(q) > 0 /\ Len(r) = Len(q) - 1 /\ Head(q) = q[1]
      /\ r \in Seq(Message) /\ Head(q) \in Message
      /\ \A i \in 1..(Len(q) - 1) : r[i] = q[i + 1]
  BY Reading
<1> PICK l \in Nat : Len(q) = l /\ l > 0 /\ Len(r) = l - 1
  BY <1>1
<1>2. /\ q[1] = Head(q) /\ 1 \in 1..l
      /\ \A i \in 1..(l - 1) : r[i] = q[i + 1] /\ i + 1 \in 1..l /\ 1 < i + 1
  BY <1>1
<1>3. \A i \in 1..l : i = 1 \/ (i - 1 \in 1..(l - 1) /\ (i - 1) + 1 = i)
  OBVIOUS
<1>4. Holds(q, Head(q).what)
  BY <1>2 DEF Holds
<1>5. ASSUME NEW what, what # Head(q).what, Holds(q, what) PROVE Holds(r, what)
  <2>1. PICK i \in 1..l : q[i].what = what
    BY <1>5 DEF Holds
  <2>2. i - 1 \in 1..(l - 1) /\ (i - 1) + 1 = i
    BY <1>2, <1>3, <1>5, <2>1
  <2>3. r[i - 1] = q[i]
    BY <1>2, <2>2
  <2> QED BY <2>1, <2>2, <2>3 DEF Holds
<1>6. ASSUME NEW what, Holds(r, what) PROVE Holds(q, what)
  BY <1>2, <1>6 DEF Holds
<1>7. ASSUME InLine(q)
      PROVE  /\ InLine(r)
             /\ Head(q).what # "talk stop" => ~ Holds(r, "offer")
             /\ Head(q).what = "offer" => ~ Holds(r, "talk stop")
  <2>1. InLine(r)
    <3> SUFFICES ASSUME NEW i \in 1..(l - 1), NEW k \in 1..(l - 1), k < i
                 PROVE  /\ r[i].what = "offer" => r[k].what = "talk stop"
                        /\ r[k].what = "offer" => r[i].what \notin {"talk stop", "offer"}
      BY DEF InLine
    <3>1. i + 1 \in 1..l /\ k + 1 \in 1..l /\ k + 1 < i + 1 /\ r[i] = q[i + 1] /\ r[k] = q[k + 1]
      BY <1>2
    <3> QED BY <1>7, <3>1 DEF InLine
  <2>2. ASSUME NEW i \in 1..(l - 1)
        PROVE  /\ r[i].what = "offer" => Head(q).what = "talk stop"
               /\ Head(q).what = "offer" => r[i].what # "talk stop"
    BY <1>2, <1>7 DEF InLine
  <2> QED BY <2>1, <2>2 DEF Holds
<1>8. ASSUME IceBehind(q) PROVE Head(q).what # "ice"
  <2>1. q[1].what = "ice" => \E k \in 1..(1 - 1) : q[k].what = "offer"
    BY <1>2, <1>8 DEF IceBehind
  <2>2. 1..(1 - 1) = {}
    OBVIOUS
  <2> QED BY <1>2, <2>1, <2>2
<1>9. ASSUME Head(q).what # "offer", IceBehind(q) PROVE IceBehind(r)
  <2> SUFFICES ASSUME NEW i \in 1..(l - 1), r[i].what = "ice"
               PROVE  \E k \in 1..(i - 1) : r[k].what = "offer"
    BY DEF IceBehind
  <2>1. i + 1 \in 1..l /\ q[i + 1].what = "ice" /\ (i + 1) - 1 = i
    BY <1>2
  <2>2. PICK k \in 1..((i + 1) - 1) : q[k].what = "offer"
    BY <1>9, <2>1 DEF IceBehind
  <2>3. k \in 1..i
    BY <2>1, <2>2
  <2>4. k # 1
    BY <1>2, <1>9, <2>2
  <2>5. k - 1 \in 1..(i - 1) /\ k - 1 \in 1..(l - 1) /\ (k - 1) + 1 = k
    BY <2>3, <2>4
  <2>6. r[k - 1] = q[k]
    BY <1>2, <2>5
  <2> QED BY <2>2, <2>5, <2>6
<1>10. Stops(q) => Head(q).what = "talk stop" /\ Stops(r)
  BY <1>2 DEF Stops
<1>11. ASSUME r # <<>> PROVE Holds(r, Head(r).what)
  <2>1. Head(r) = r[1] /\ 1 \in 1..Len(r)
    BY <1>1, <1>11, Reading
  <2> QED BY <2>1 DEF Holds
<1> QED BY <1>1, <1>4, <1>5, <1>6, <1>7, <1>8, <1>9, <1>10, <1>11

LEMMA AboutAfterRead ==
    ASSUME NEW q \in Seq(Message), q # <<>>, NEW n
    PROVE  /\ TalkIsAbout(q, n) => TalkIsAbout(Tail(q), n)
           /\ TalkIsAbout(q, n) /\ Head(q).what \in {"offer", "ice"} => Head(q).of = n
           /\ AllAbout(q, n) => AllAbout(Tail(q), n) /\ Head(q).of = n
<1> DEFINE r == Tail(q)
<1>1. /\ Len(q) \in Nat /\ Len(q) > 0 /\ Len(r) = Len(q) - 1 /\ Head(q) = q[1]
      /\ \A i \in 1..(Len(q) - 1) : r[i] = q[i + 1]
  BY Reading
<1> HIDE DEF r
<1>2. 1 \in 1..Len(q) /\ \A i \in 1..Len(r) : r[i] = q[i + 1] /\ i + 1 \in 1..Len(q)
  BY <1>1
<1>3. TalkIsAbout(q, n) => TalkIsAbout(r, n)
  BY <1>1, <1>2 DEF TalkIsAbout
<1>4. TalkIsAbout(q, n) /\ Head(q).what \in {"offer", "ice"} => Head(q).of = n
  BY <1>1, <1>2 DEF TalkIsAbout
<1>5. AllAbout(q, n) => AllAbout(r, n) /\ Head(q).of = n
  BY <1>1, <1>2 DEF AllAbout
<1> QED BY <1>3, <1>4, <1>5 DEF r

\* One more candidate, of either end.
LEMMA Gathers ==
    ASSUME gathered \in [{"server", "page"} -> [Peer -> 0..MaxIce]],
           NEW side \in {"server", "page"}, NEW n \in Peer, gathered[side][n] < MaxIce,
           gathered' = [gathered EXCEPT ![side][n] = @ + 1]
    PROVE  gathered' \in [{"server", "page"} -> [Peer -> 0..MaxIce]]
<1>1. gathered[side][n] + 1 \in 0..MaxIce
  BY MaxIceAssumption
<1> QED BY <1>1
-----------------------------------------------------------------------------
(* A patient user's steps. *)

\* Who is not done is the page's talk, and no camera is asked for then.
LEMMA Busy ==
    ASSUME PatientInv, NEW n \in Peer, ~ Done(n)
    PROVE  n = localpc /\ capturing = 0
  BY DEF PatientInv, Starting, OthersRest

\* While the server's ends do something the session has the page's talk.
LEMMA ServerActs ==
    ASSUME PatientInv, ~ ServerQuiet
    PROVE  /\ capturing = 0 /\ pc[localpc] # "creating" /\ ~ Holds(toServer, "offer")
           /\ recvbin = localpc
  BY DEF PatientInv, Starting, Pointers

\* What a send does to either direction.
LEMMA ToPageSent ==
    ASSUME TypeOK, NEW what \in {"offer", "answer", "ice", "talk stop"}, NEW n \in Peer,
           toPage' = Append(toPage, Msg(what, n))
    PROVE  /\ toPage' \in Seq(Message)
           /\ \A k : Holds(toPage', k) <=> Holds(toPage, k) \/ k = what
           /\ AllAbout(toPage, n) => AllAbout(toPage', n)
<1>1. toPage \in Seq(Message)
  BY DEF TypeOK
<1>2. Msg(what, n) \in Message /\ Msg(what, n).what = what /\ Msg(what, n).of = n
  BY DEF Msg, Message
<1> DEFINE m == Msg(what, n)
<1>3. toPage' = Append(toPage, m) /\ m \in Message /\ m.what = what /\ m.of = n
  BY <1>2
<1> HIDE DEF m
<1>4. toPage' \in Seq(Message) /\ \A k : Holds(toPage', k) <=> Holds(toPage, k) \/ k = m.what
  BY ONLY <1>1, <1>3, AfterSend
<1>5. AllAbout(toPage, n) /\ m.of = n => AllAbout(toPage', n)
  BY ONLY <1>1, <1>3, AboutAfterSend
<1> QED BY ONLY <1>3, <1>4, <1>5

LEMMA ToServerSent ==
    ASSUME TypeOK, NEW what \in {"offer", "answer", "ice", "talk stop"}, NEW n \in Peer,
           toServer' = Append(toServer, Msg(what, n)), NEW o
    PROVE  /\ toServer' \in Seq(Message) /\ toServer' # <<>>
           /\ Head(toServer').what = IF toServer = <<>> THEN what ELSE Head(toServer).what
           /\ \A k : Holds(toServer', k) <=> Holds(toServer, k) \/ k = what
           /\ Stops(toServer) /\ what = "talk stop" => Stops(toServer')
           /\ (/\ InLine(toServer)
               /\ what = "talk stop" => ~ Holds(toServer, "offer")
               /\ what = "offer" => Stops(toServer)) => InLine(toServer')
           /\ IceBehind(toServer) /\ (what = "ice" => Holds(toServer, "offer")) =>
                 IceBehind(toServer')
           /\ TalkIsAbout(toServer, o) /\ (what \in {"offer", "ice"} => n = o) =>
                 TalkIsAbout(toServer', o)
<1>1. toServer \in Seq(Message)
  BY DEF TypeOK
<1>2. Msg(what, n) \in Message /\ Msg(what, n).what = what /\ Msg(what, n).of = n
  BY DEF Msg, Message
<1> DEFINE m == Msg(what, n)
<1>3. toServer' = Append(toServer, m) /\ m \in Message /\ m.what = what /\ m.of = n
  BY <1>2
<1> HIDE DEF m
<1>4. /\ toServer' \in Seq(Message) /\ toServer' # <<>>
      /\ Head(toServer') = IF toServer = <<>> THEN m ELSE Head(toServer)
  BY ONLY <1>1, <1>3, AfterSend
<1>5. /\ \A k : Holds(toServer', k) <=> Holds(toServer, k) \/ k = m.what
      /\ Stops(toServer) /\ m.what = "talk stop" => Stops(toServer')
      /\ (/\ InLine(toServer)
          /\ m.what = "talk stop" => ~ Holds(toServer, "offer")
          /\ m.what = "offer" => Stops(toServer)) => InLine(toServer')
  BY ONLY <1>1, <1>3, AfterSend
<1>6. IceBehind(toServer) /\ (m.what = "ice" => Holds(toServer, "offer")) => IceBehind(toServer')
  BY ONLY <1>1, <1>3, AfterSend
<1>7. TalkIsAbout(toServer, o) /\ (m.what \in {"offer", "ice"} => m.of = o) =>
         TalkIsAbout(toServer', o)
  BY ONLY <1>1, <1>3, AboutAfterSend
<1> QED BY ONLY <1>3, <1>4, <1>5, <1>6, <1>7

\* While no talk starts and no offer is on its way, Starting says little.
LEMMA NoneStarts ==
    ASSUME PatientInv, capturing = 0, UNCHANGED <<capturing, localpc>>,
           pc'[localpc] # "creating", ~ Holds(toServer', "offer")
    PROVE  Starting'
<1>1. Starting
  BY DEF PatientInv
<1>2. capturing' \in {0, 1} /\ localpc' + capturing' <= MaxTalk
  BY <1>1 DEF Starting
<1>3. capturing' # 1 /\ pc'[localpc'] # "creating"
  OBVIOUS
<1> QED BY ONLY <1>2, <1>3, ~ Holds(toServer', "offer") DEF Starting

\* The watch is offered before the page has a talk.
LEMMA OfferCreatedStep == ASSUME PatientInv, OfferCreated PROVE PatientInv' /\ (StopGuard => StopGuard')
<1> USE PeerFacts
<1>1. /\ bin[0] = "new" /\ bin' = [bin EXCEPT ![0] = "described"]
      /\ toPage' = Append(toPage, Msg("offer", 0))
      /\ UNCHANGED <<recvbin, recvpipe, pc, localpc, capturing, gathered, toServer, strays>>
  BY DEF OfferCreated, client
<1>2. localpc = 0 /\ pc[0] = "new"
  BY <1>1 DEF PatientInv, Negotiated
<1>3. capturing = 0 /\ ~ Holds(toServer, "offer")
  BY <1>2, ServerActs DEF ServerQuiet
<1>4. TypeOK /\ toPage \in Seq(Message)
  BY DEF PatientInv, TypeOK
<1>6. /\ toPage' \in Seq(Message)
      /\ Holds(toPage', "answer") <=> Holds(toPage, "answer")
      /\ AllAbout(toPage, 0) => AllAbout(toPage', 0)
  BY <1>1, <1>4, ToPageSent
<1>7. TypeOK' /\ strays' = {}
  BY <1>1, <1>4, <1>6 DEF TypeOK, PatientInv
<1>8. Starting'
  BY <1>1, <1>2, <1>3, NoneStarts
<1>9. OthersRest'
  BY <1>1, <1>2, <1>4 DEF OthersRest, Done, PatientInv, TypeOK
<1>10. Negotiated'
  BY <1>1, <1>2, <1>4 DEF Negotiated, TypeOK
<1>11. Pointers'
  BY <1>1, <1>4 DEF Pointers, PatientInv, TypeOK
<1>12. ToPageOrder'
  BY <1>1, <1>2, <1>6 DEF ToPageOrder, PatientInv
<1>13. ToServerOrder'
  BY <1>1 DEF ToServerOrder, PatientInv
<1>14. AnswerWay'
  BY <1>1, <1>2 DEF AnswerWay
<1>15. StopGuard => StopGuard'
  BY <1>1, <1>2 DEF StopGuard, TalkIsOver
<1> QED BY <1>15, <1>7, <1>8, <1>9, <1>10, <1>11, <1>12, <1>13, <1>14 DEF PatientInv

\* The bin that answers is recvbin's, and the page's talk.
LEMMA AnswerCreatedStep ==
    ASSUME PatientInv, NEW n \in Talk, on_answer_created(n) PROVE PatientInv' /\ (StopGuard => StopGuard')
<1> USE PeerFacts
<1>1. /\ bin[n] = "asked" /\ bin' = [bin EXCEPT ![n] = "described"]
      /\ Given("local", n, recvbin) /\ toPage' = Append(toPage, Msg("answer", n))
      /\ UNCHANGED <<recvbin, recvpipe, pc, localpc, capturing, gathered, toServer>>
  BY DEF on_answer_created, client
<1>2. n = localpc /\ n # 0
  BY <1>1, Busy DEF Done
<1>3. /\ capturing = 0 /\ pc[localpc] # "creating" /\ ~ Holds(toServer, "offer")
      /\ recvbin = localpc
  BY <1>1, ServerActs DEF ServerQuiet
<1>4. recvpipe = n
  BY <1>1 DEF PatientInv, Pointers
<1>5. TypeOK /\ toPage \in Seq(Message)
  BY DEF PatientInv, TypeOK
<1>7. /\ toPage' \in Seq(Message) /\ Holds(toPage', "answer")
      /\ Holds(toPage', "offer") <=> Holds(toPage, "offer")
      /\ AllAbout(toPage, n) => AllAbout(toPage', n)
  BY <1>1, <1>5, ToPageSent
<1>8. TypeOK' /\ strays' = {}
  BY <1>1, <1>2, <1>3, <1>5, <1>7 DEF TypeOK, PatientInv, Given
<1>9. Starting'
  BY <1>1, <1>3, NoneStarts
<1>10. OthersRest'
  BY <1>1, <1>2, <1>5 DEF OthersRest, Done, PatientInv, TypeOK
<1>11. Negotiated'
  BY <1>1, <1>2, <1>5, <1>7 DEF Negotiated, PatientInv, TypeOK
<1>12. Pointers'
  BY <1>1, <1>4, <1>5 DEF Pointers, PatientInv, TypeOK
<1>13. ToPageOrder'
  BY <1>1, <1>2, <1>7 DEF ToPageOrder, PatientInv
<1>14. ToServerOrder'
  BY <1>1 DEF ToServerOrder, PatientInv
<1>15. AnswerWay'
  BY <1>1, <1>3, <1>7 DEF AnswerWay, PatientInv
<1>16. StopGuard => StopGuard'
  BY <1>1, <1>2, <1>3 DEF StopGuard, TalkIsOver, Done
<1> QED BY <1>16, <1>8, <1>9, <1>10, <1>11, <1>12, <1>13, <1>14, <1>15 DEF PatientInv

\* Only the bin of the page's talk, or sendbin before a talk, gathers.
LEMMA ServerIceStep ==
    ASSUME PatientInv, NEW n \in Peer, on_ice_candidate_cb(n) PROVE PatientInv' /\ (StopGuard => StopGuard')
<1> USE PeerFacts
<1>1. /\ bin[n] = "described" /\ gathered["server"][n] < MaxIce
      /\ gathered' = [gathered EXCEPT !["server"][n] = @ + 1]
      /\ toPage' = Append(toPage, Msg("ice", n))
      /\ UNCHANGED <<bin, recvbin, recvpipe, pc, localpc, capturing, toServer, strays>>
  BY DEF on_ice_candidate_cb, client, server
<1>2. gathered \in [{"server", "page"} -> [Peer -> 0..MaxIce]] /\ toPage \in Seq(Message) /\ TypeOK
  BY DEF PatientInv, TypeOK
<1>3. gathered["server"][n] # MaxIce
  BY <1>1, <1>2, MaxIceAssumption
<1>4. n = localpc
  BY <1>1, <1>3, Busy DEF Done
<1>5. /\ capturing = 0 /\ pc[localpc] # "creating" /\ ~ Holds(toServer, "offer")
      /\ recvbin = localpc
  BY <1>1, <1>3, ServerActs DEF ServerQuiet
<1>7. /\ toPage' \in Seq(Message)
      /\ Holds(toPage', "answer") <=> Holds(toPage, "answer")
      /\ Holds(toPage', "offer") <=> Holds(toPage, "offer")
      /\ AllAbout(toPage, n) => AllAbout(toPage', n)
  BY <1>1, <1>2, ToPageSent
<1>8. gathered' \in [{"server", "page"} -> [Peer -> 0..MaxIce]]
  BY <1>1, <1>2, Gathers
<1>9. \A m \in Peer : /\ m # n => gathered'["server"][m] = gathered["server"][m]
                      /\ gathered'["page"][m] = gathered["page"][m]
  BY <1>1, <1>2
<1>10. TypeOK' /\ strays' = {}
  BY <1>1, <1>2, <1>7, <1>8 DEF TypeOK, PatientInv
<1>11. Starting'
  BY <1>1, <1>5, NoneStarts
<1>12. OthersRest'
  BY <1>1, <1>4, <1>9 DEF OthersRest, Done, PatientInv
<1>13. Negotiated'
  BY <1>1, <1>7 DEF Negotiated, PatientInv
<1>14. Pointers'
  BY <1>1 DEF Pointers, PatientInv
<1>15. ToPageOrder'
  BY <1>1, <1>4, <1>7 DEF ToPageOrder, PatientInv
<1>16. ToServerOrder'
  BY <1>1 DEF ToServerOrder, PatientInv
<1>17. AnswerWay'
  BY <1>1, <1>7 DEF AnswerWay, PatientInv
<1>18. StopGuard => StopGuard'
  BY <1>1, <1>3, <1>4, <1>5 DEF StopGuard, TalkIsOver, Done
<1> QED BY <1>18, <1>10, <1>11, <1>12, <1>13, <1>14, <1>15, <1>16, <1>17 DEF PatientInv

\* The session reads a message that is no stop: no talk is starting.
LEMMA NoStop ==
    ASSUME PatientInv, toServer # <<>>, Head(toServer).what # "talk stop"
    PROVE  capturing = 0 /\ pc[localpc] # "creating"
<1>1. ~ Stops(toServer)
  BY StopsOnly DEF PatientInv, TypeOK
<1> QED BY <1>1 DEF PatientInv, Starting, OnlyStops

\* What reading does to the direction to the session.
LEMMA ToServerRead ==
    ASSUME PatientInv, toServer # <<>>, toServer' = Tail(toServer)
    PROVE  /\ toServer' \in Seq(Message) /\ Head(toServer) \in Message
           /\ Holds(toServer, Head(toServer).what)
           /\ \A k : Holds(toServer', k) => Holds(toServer, k)
           /\ \A k : k # Head(toServer).what /\ Holds(toServer, k) => Holds(toServer', k)
           /\ Stops(toServer) => Stops(toServer')
           /\ InLine(toServer')
           /\ Head(toServer).what # "talk stop" => ~ Holds(toServer', "offer")
           /\ Head(toServer).what = "offer" => ~ Holds(toServer', "talk stop")
           /\ IceBehind(toServer) =>
                 /\ Head(toServer).what # "ice"
                 /\ Head(toServer).what # "offer" => IceBehind(toServer')
           /\ TalkIsAbout(toServer', localpc)
           /\ Head(toServer).what \in {"offer", "ice"} => Head(toServer).of = localpc
           /\ toServer' # <<>> => Holds(toServer', Head(toServer').what)
<1>1. toServer \in Seq(Message) /\ InLine(toServer) /\ TalkIsAbout(toServer, localpc)
  BY DEF PatientInv, TypeOK, ToServerOrder
<1>2. /\ toServer' \in Seq(Message) /\ Head(toServer) \in Message
      /\ Holds(toServer, Head(toServer).what)
      /\ \A k : Holds(toServer', k) => Holds(toServer, k)
      /\ \A k : k # Head(toServer).what /\ Holds(toServer, k) => Holds(toServer', k)
      /\ Stops(toServer) => Stops(toServer')
      /\ InLine(toServer')
      /\ Head(toServer).what # "talk stop" => ~ Holds(toServer', "offer")
      /\ Head(toServer).what = "offer" => ~ Holds(toServer', "talk stop")
  BY <1>1, AfterRead
<1>3. /\ IceBehind(toServer) =>
            /\ Head(toServer).what # "ice"
            /\ Head(toServer).what # "offer" => IceBehind(toServer')
      /\ toServer' # <<>> => Holds(toServer', Head(toServer').what)
  BY <1>1, AfterRead
<1>4. TalkIsAbout(toServer', localpc)
  BY <1>1, AboutAfterRead
<1>5. Head(toServer).what \in {"offer", "ice"} => Head(toServer).of = localpc
  BY <1>1, AboutAfterRead
<1> QED BY <1>2, <1>3, <1>4, <1>5

\* And to the direction to the page.
LEMMA ToPageRead ==
    ASSUME PatientInv, toPage # <<>>, toPage' = Tail(toPage)
    PROVE  /\ toPage' \in Seq(Message)
           /\ Holds(toPage, Head(toPage).what)
           /\ \A k : Holds(toPage', k) => Holds(toPage, k)
           /\ \A k : k # Head(toPage).what /\ Holds(toPage, k) => Holds(toPage', k)
           /\ AllAbout(toPage', localpc) /\ Head(toPage).of = localpc
<1>1. toPage \in Seq(Message) /\ AllAbout(toPage, localpc)
  BY DEF PatientInv, TypeOK, ToPageOrder
<1>2. /\ toPage' \in Seq(Message)
      /\ Holds(toPage, Head(toPage).what)
      /\ \A k : Holds(toPage', k) => Holds(toPage, k)
      /\ \A k : k # Head(toPage).what /\ Holds(toPage, k) => Holds(toPage', k)
  BY <1>1, AfterRead
<1>3. AllAbout(toPage', localpc) /\ Head(toPage).of = localpc
  BY <1>1, AboutAfterRead
<1> QED BY <1>2, <1>3

\* A message that is no stop and no offer moves no pointer.
LEMMA ReadKeeps ==
    ASSUME PatientInv, toServer # <<>>, toServer' = Tail(toServer),
           Head(toServer).what \in {"answer", "ice"},
           UNCHANGED <<server, client, gathered, toPage, strays>>
    PROVE  PatientInv' /\ (StopGuard => StopGuard')
<1>1. UNCHANGED <<bin, recvbin, recvpipe, pc, localpc, capturing, gathered, toPage, strays>>
  BY DEF server, client
<1>2. /\ toServer' \in Seq(Message) /\ InLine(toServer') /\ TalkIsAbout(toServer', localpc)
      /\ ~ Holds(toServer', "offer") /\ Holds(toServer, Head(toServer).what)
      /\ Holds(toServer', "talk stop") => Holds(toServer, "talk stop")
      /\ IceBehind(toServer) => IceBehind(toServer')
      /\ toServer' # <<>> => Holds(toServer', Head(toServer').what)
  BY ToServerRead
<1>3. capturing = 0 /\ pc[localpc] # "creating"
  BY NoStop
<1>4. ~ Holds(toServer, "offer")
  BY ToServerRead
<1>5. TypeOK' /\ strays' = {}
  BY <1>1, <1>2 DEF TypeOK, PatientInv
<1>6. Starting'
  BY <1>1, <1>2, <1>3, NoneStarts
<1>7. OthersRest'
  BY <1>1 DEF OthersRest, Done, PatientInv
<1>8. Negotiated'
  BY <1>1 DEF Negotiated, PatientInv
<1>9. Pointers'
  BY <1>1, <1>3, <1>4 DEF Pointers, PatientInv
<1>10. ToPageOrder'
  BY <1>1 DEF ToPageOrder, PatientInv
<1>11. ToServerOrder'
  BY <1>1, <1>2 DEF ToServerOrder, PatientInv
<1>12. AnswerWay'
  BY <1>1, <1>2, <1>4 DEF AnswerWay, PatientInv
<1>13. StopGuard => StopGuard'
  BY <1>1, <1>2, <1>3, <1>4 DEF StopGuard, TalkIsOver, Done
<1> QED BY <1>13, <1>5, <1>6, <1>7, <1>8, <1>9, <1>10, <1>11, <1>12 DEF PatientInv

LEMMA ReadAnswerStep == ASSUME PatientInv, ReadAnswer PROVE PatientInv' /\ (StopGuard => StopGuard')
  BY ReadKeeps DEF ReadAnswer, ServerReads, server

\* A candidate reaches its own connection.
LEMMA ReadIceStep == ASSUME PatientInv, ReadIce PROVE PatientInv' /\ (StopGuard => StopGuard')
<1>1. /\ toServer # <<>> /\ Head(toServer).what = "ice" /\ toServer' = Tail(toServer)
      /\ Given("server ice", Head(toServer).of, recvbin)
      /\ UNCHANGED <<server, client, gathered, toPage>>
  BY DEF ReadIce, ServerReads
<1>2. Head(toServer).of = localpc /\ ~ IceBehind(toServer)
  BY <1>1, ToServerRead
<1>3. recvbin = localpc
  BY <1>2 DEF PatientInv, ToServerOrder
<1>4. UNCHANGED strays
  BY <1>1, <1>2, <1>3 DEF Given
<1> QED BY <1>1, <1>4, ReadKeeps

\* The session takes the page's talk up when it has left the last one.
LEMMA ReadOfferStep == ASSUME PatientInv, ReadOffer PROVE PatientInv' /\ (StopGuard => StopGuard')
<1> USE PeerFacts
<1>1. /\ toServer # <<>> /\ Head(toServer).what = "offer" /\ toServer' = Tail(toServer)
      /\ recvbin' = Head(toServer).of /\ recvpipe' = Head(toServer).of
      /\ bin' = [bin EXCEPT ![Head(toServer).of] = "asked"]
      /\ UNCHANGED <<pc, localpc, capturing, gathered, toPage, strays>>
  BY DEF ReadOffer, ServerReads, client
<1>2. /\ toServer' \in Seq(Message) /\ InLine(toServer') /\ TalkIsAbout(toServer', localpc)
      /\ ~ Holds(toServer', "offer") /\ ~ Holds(toServer', "talk stop")
      /\ Holds(toServer, "offer") /\ Head(toServer).of = localpc
      /\ toServer' # <<>> => Holds(toServer', Head(toServer').what)
  BY <1>1, ToServerRead
<1>3. ServerQuiet /\ pc[localpc] = "offering"
  BY <1>2 DEF PatientInv, Starting
<1>4. TypeOK /\ localpc \in Peer
  BY DEF PatientInv, TypeOK
<1>5. localpc # 0 /\ localpc \in Talk
  BY <1>3, <1>4 DEF PatientInv, Negotiated
<1>6. capturing = 0
  BY <1>3, <1>4, Busy DEF Done
<1>7. /\ recvbin' = localpc /\ recvpipe' = localpc
      /\ \A n \in Peer : n # localpc => bin'[n] = bin[n]
      /\ bin'[localpc] = "asked"
  BY <1>1, <1>2, <1>4 DEF TypeOK
<1>8. recvpipe = 0
  BY <1>1 DEF PatientInv, ToServerOrder
<1>9. TypeOK' /\ strays' = {}
  BY <1>1, <1>2, <1>4 DEF TypeOK, PatientInv
<1>10. Starting'
  BY <1>1, <1>2, <1>3, <1>6, <1>7, NoneStarts
<1>11. OthersRest'
  BY <1>1, <1>4, <1>7 DEF OthersRest, Done, PatientInv
<1>12. Negotiated'
  BY <1>1, <1>5, <1>7 DEF Negotiated, PatientInv
<1>13. Pointers'
  <2>1. ASSUME NEW n \in Talk, bin'[n] \in {"asked", "described"} PROVE n = localpc
    BY <1>7, <1>8, <2>1 DEF PatientInv, Pointers
  <2> QED BY <1>1, <1>4, <1>7, <2>1 DEF Pointers
<1>14. ToPageOrder'
  BY <1>1 DEF ToPageOrder, PatientInv
<1>15. ToServerOrder'
  BY <1>1, <1>2, <1>7 DEF ToServerOrder
<1>16. AnswerWay'
  BY <1>1, <1>2, <1>7 DEF AnswerWay
<1>17. StopGuard => StopGuard'
  BY <1>2, <1>7 DEF StopGuard
<1> QED BY <1>17, <1>9, <1>10, <1>11, <1>12, <1>13, <1>14, <1>15, <1>16 DEF PatientInv

\* A stop ends the last talk; a second one finds nothing.
LEMMA ReadTalkStopStep == ASSUME PatientInv, ReadTalkStop PROVE PatientInv' /\ (StopGuard => StopGuard')
<1> USE PeerFacts
<1>1. /\ toServer # <<>> /\ Head(toServer).what = "talk stop" /\ toServer' = Tail(toServer)
      /\ recvpipe' = 0
      /\ bin' = IF recvpipe = 0 THEN bin ELSE [bin EXCEPT ![recvpipe] = "released"]
      /\ UNCHANGED <<recvbin, pc, localpc, capturing, gathered, toPage, strays>>
  BY DEF ReadTalkStop, ServerReads, client
<1>2. /\ toServer' \in Seq(Message) /\ InLine(toServer') /\ TalkIsAbout(toServer', localpc)
      /\ Holds(toServer', "offer") <=> Holds(toServer, "offer")
      /\ Holds(toServer, "talk stop")
      /\ IceBehind(toServer) => IceBehind(toServer')
      /\ Stops(toServer) => Stops(toServer')
  BY <1>1, ToServerRead
<1>3. TypeOK
  BY DEF PatientInv
<1>4. \A n \in Peer : /\ n # recvpipe \/ n = 0 => bin'[n] = bin[n]
                      /\ n = recvpipe /\ n # 0 => bin'[n] = "released"
  BY <1>1, <1>3 DEF TypeOK
<1>5. \A n \in Peer : Done(n) => Done(n)'
  BY <1>1, <1>4 DEF Done
<1>6. ServerQuiet => ServerQuiet'
  BY <1>1, <1>4 DEF ServerQuiet
<1>7. recvpipe <= localpc /\ recvpipe \in Nat /\ localpc \in Nat
  BY <1>3 DEF PatientInv, Pointers, TypeOK
<1>8. TypeOK' /\ strays' = {}
  BY <1>1, <1>2, <1>3 DEF TypeOK, PatientInv
<1>9. Starting'
  BY <1>1, <1>2, <1>5, <1>6 DEF Starting, OnlyStops, PatientInv
<1>10. OthersRest'
  <2>1. ASSUME NEW n \in Peer, n > localpc PROVE n # recvpipe
    BY <1>7, <2>1
  <2> QED BY <1>1, <1>4, <1>5, <2>1 DEF OthersRest, PatientInv
<1>11. Negotiated'
  BY <1>1, <1>4 DEF Negotiated, PatientInv
<1>12. Pointers'
  <2>1. ASSUME NEW n \in Talk, bin'[n] \in {"asked", "described"} PROVE FALSE
    BY <1>4, <2>1 DEF PatientInv, Pointers
  <2> QED BY <1>1, <1>2, <2>1 DEF Pointers, PatientInv
<1>13. ToPageOrder'
  BY <1>1 DEF ToPageOrder, PatientInv
<1>14. ToServerOrder'
  BY <1>1, <1>2 DEF ToServerOrder, PatientInv
<1>15. AnswerWay'
  BY <1>1, <1>2 DEF AnswerWay, PatientInv
<1>16. StopGuard => StopGuard'
  BY <1>1, <1>2, <1>3, <1>5 DEF StopGuard, TalkIsOver, TypeOK
<1> QED BY <1>16, <1>8, <1>9, <1>10, <1>11, <1>12, <1>13, <1>14, <1>15 DEF PatientInv

\* The offer of the camera is answered at once; a later one changes nothing.
LEMMA IncomingOfferStep == ASSUME PatientInv, IncomingOffer PROVE PatientInv' /\ (StopGuard => StopGuard')
<1> USE PeerFacts
<1>1. /\ toPage # <<>> /\ Head(toPage).what = "offer" /\ toPage' = Tail(toPage)
      /\ pc' = [pc EXCEPT ![0] = "stable"]
      /\ toServer' = Append(toServer, Msg("answer", 0))
      /\ UNCHANGED <<bin, recvbin, recvpipe, localpc, capturing, gathered, strays>>
  BY DEF IncomingOffer, onLocalDescription, PageReads, server
<1>2. TypeOK
  BY DEF PatientInv
<1>3. /\ toPage' \in Seq(Message) /\ Holds(toPage, "offer") /\ AllAbout(toPage', localpc)
      /\ Holds(toPage', "offer") => Holds(toPage, "offer")
      /\ Holds(toPage', "answer") <=> Holds(toPage, "answer")
  BY <1>1, ToPageRead
<1>4. /\ toServer' \in Seq(Message) /\ toServer' # <<>>
      /\ Head(toServer').what = "offer" => toServer # <<>> /\ Head(toServer).what = "offer"
      /\ Holds(toServer', "offer") <=> Holds(toServer, "offer")
      /\ Holds(toServer', "talk stop") <=> Holds(toServer, "talk stop")
      /\ InLine(toServer) => InLine(toServer')
      /\ IceBehind(toServer) => IceBehind(toServer')
      /\ TalkIsAbout(toServer, localpc) => TalkIsAbout(toServer', localpc)
  BY <1>1, <1>2, ToServerSent
<1>5. /\ capturing = 0 /\ pc[localpc] # "creating" /\ ~ Holds(toServer, "offer")
      /\ recvbin = localpc
  BY <1>1, ServerActs DEF ServerQuiet
<1>6. /\ \A n \in Peer : n # 0 => pc'[n] = pc[n]
      /\ pc'[0] = "stable"
      /\ localpc # 0 => pc[0] = "stable"
  BY <1>1, <1>2 DEF TypeOK, PatientInv, Negotiated
<1>7. localpc \in Peer /\ pc'[localpc] # "creating"
  BY <1>2, <1>5, <1>6 DEF TypeOK
<1>8. TypeOK' /\ strays' = {}
  BY <1>1, <1>2, <1>3, <1>4 DEF TypeOK, PatientInv
<1>9. Starting'
  BY <1>1, <1>4, <1>5, <1>7, NoneStarts
<1>10. OthersRest'
  <2>1. ASSUME NEW n \in Peer, n # localpc PROVE Done(n)'
    <3>1. Done(n)
      BY <2>1 DEF PatientInv, OthersRest
    <3>2. pc'[n] = pc[n]
      BY <1>6, <2>1
    <3> QED BY <1>1, <3>1, <3>2 DEF Done
  <2>2. ASSUME NEW n \in Peer, n > localpc PROVE bin'[n] = "absent" /\ pc'[n] = "absent"
    <3>1. bin[n] = "absent" /\ pc[n] = "absent"
      BY <2>2 DEF PatientInv, OthersRest
    <3>2. n # 0
      BY <1>7, <2>2
    <3> QED BY <1>1, <1>6, <3>1, <3>2
  <2> QED BY <1>1, <2>1, <2>2 DEF OthersRest
<1>11. Negotiated'
  BY <1>1, <1>3, <1>6, <1>7 DEF Negotiated, PatientInv
<1>12. Pointers'
  BY <1>1, <1>5 DEF Pointers, PatientInv
<1>13. ToPageOrder'
  BY <1>1, <1>3 DEF ToPageOrder, PatientInv
<1>14. ToServerOrder'
  BY <1>1, <1>4 DEF ToServerOrder, PatientInv
<1>15. AnswerWay'
  BY <1>1, <1>3, <1>4, <1>6, <1>7 DEF AnswerWay, PatientInv
<1>16. StopGuard => StopGuard'
  BY <1>1, <1>4, <1>6, <1>7 DEF StopGuard, TalkIsOver, Done
<1> QED BY <1>16, <1>8, <1>9, <1>10, <1>11, <1>12, <1>13, <1>14, <1>15 DEF PatientInv

\* An answer is the one localpc waits for.
LEMMA IncomingAnswerStep == ASSUME PatientInv, IncomingAnswer PROVE PatientInv' /\ (StopGuard => StopGuard')
<1> USE PeerFacts
<1>1. /\ toPage # <<>> /\ Head(toPage).what = "answer" /\ toPage' = Tail(toPage)
      /\ pc' = [pc EXCEPT ![localpc] = IF @ = "offering" THEN "stable" ELSE @]
      /\ Given("answer", Head(toPage).of, localpc)
      /\ UNCHANGED <<bin, recvbin, recvpipe, localpc, capturing, gathered, toServer>>
  BY DEF IncomingAnswer, PageReads, server
<1>2. TypeOK /\ localpc \in Peer
  BY DEF PatientInv, TypeOK
<1>3. /\ toPage' \in Seq(Message) /\ Holds(toPage, "answer") /\ AllAbout(toPage', localpc)
      /\ Head(toPage).of = localpc
      /\ Holds(toPage', "offer") => Holds(toPage, "offer")
  BY <1>1, ToPageRead
<1>4. localpc # 0
  BY <1>3 DEF PatientInv, ToPageOrder
<1>5. /\ capturing = 0 /\ pc[localpc] # "creating" /\ ~ Holds(toServer, "offer")
      /\ recvbin = localpc
  BY <1>1, ServerActs DEF ServerQuiet
<1>6. /\ \A n \in Peer : n # localpc => pc'[n] = pc[n]
      /\ pc'[localpc] = "stable"
  BY <1>1, <1>2, <1>4, <1>5 DEF TypeOK, PatientInv, Negotiated
<1>7. strays' = {}
  BY <1>1, <1>3 DEF PatientInv, Given
<1>8. TypeOK'
  BY <1>1, <1>2, <1>3, <1>7 DEF TypeOK
<1>9. Starting'
  BY <1>1, <1>5, <1>6, NoneStarts
<1>10. OthersRest'
  <2>1. ASSUME NEW n \in Peer, n > localpc PROVE n # localpc
    BY <1>2, <2>1
  <2> QED BY <1>1, <1>6, <2>1 DEF OthersRest, Done, PatientInv
<1>11. Negotiated'
  BY <1>1, <1>3, <1>4, <1>6 DEF Negotiated, PatientInv
<1>12. Pointers'
  BY <1>1, <1>5 DEF Pointers, PatientInv
<1>13. ToPageOrder'
  BY <1>1, <1>3, <1>4 DEF ToPageOrder
<1>14. ToServerOrder'
  BY <1>1 DEF ToServerOrder, PatientInv
<1>15. AnswerWay'
  BY <1>1, <1>6 DEF AnswerWay
<1>16. StopGuard => StopGuard'
  <2>1. pc[localpc] \in {"creating", "offering", "stable"}
    BY <1>4 DEF PatientInv, Negotiated
  <2> QED BY <1>1, <1>4, <1>5, <1>6, <2>1 DEF StopGuard, TalkIsOver, Done
<1> QED BY <1>16, <1>7, <1>8, <1>9, <1>10, <1>11, <1>12, <1>13, <1>14, <1>15 DEF PatientInv

\* A candidate from the session is localpc's.
LEMMA IncomingIceStep == ASSUME PatientInv, IncomingIce PROVE PatientInv' /\ (StopGuard => StopGuard')
<1>1. /\ toPage # <<>> /\ Head(toPage).what = "ice" /\ toPage' = Tail(toPage)
      /\ Given("page ice", Head(toPage).of, localpc)
      /\ UNCHANGED <<bin, recvbin, recvpipe, pc, localpc, capturing, gathered, toServer>>
  BY DEF IncomingIce, PageReads, server
<1>2. TypeOK
  BY DEF PatientInv
<1>3. /\ toPage' \in Seq(Message) /\ AllAbout(toPage', localpc)
      /\ Head(toPage).of = localpc
      /\ Holds(toPage', "offer") => Holds(toPage, "offer")
      /\ Holds(toPage', "answer") <=> Holds(toPage, "answer")
  BY <1>1, ToPageRead
<1>4. capturing = 0 /\ pc[localpc] # "creating" /\ ~ Holds(toServer, "offer")
  BY <1>1, ServerActs DEF ServerQuiet
<1>5. strays' = {}
  BY <1>1, <1>3 DEF PatientInv, Given
<1>6. TypeOK'
  BY <1>1, <1>2, <1>3, <1>5 DEF TypeOK
<1>7. Starting'
  BY <1>1, <1>4, NoneStarts
<1>8. OthersRest'
  BY <1>1 DEF OthersRest, Done, PatientInv
<1>9. Negotiated'
  BY <1>1, <1>3 DEF Negotiated, PatientInv
<1>10. Pointers'
  BY <1>1 DEF Pointers, PatientInv
<1>11. ToPageOrder'
  BY <1>1, <1>3 DEF ToPageOrder, PatientInv
<1>12. ToServerOrder'
  BY <1>1 DEF ToServerOrder, PatientInv
<1>13. AnswerWay'
  BY <1>1, <1>3 DEF AnswerWay, PatientInv
<1>14. StopGuard => StopGuard'
  BY <1>1 DEF StopGuard, TalkIsOver, Done
<1> QED BY <1>14, <1>5, <1>6, <1>7, <1>8, <1>9, <1>10, <1>11, <1>12, <1>13 DEF PatientInv

\* Only localpc, or the watch before a talk, gathers at the page, and behind its
\* own offer.
LEMMA PageIceStep ==
    ASSUME PatientInv, NEW n \in Peer, onIceCandidate(n) PROVE PatientInv' /\ (StopGuard => StopGuard')
<1> USE PeerFacts
<1>1. /\ pc[n] \in {"offering", "stable"} /\ gathered["page"][n] < MaxIce
      /\ gathered' = [gathered EXCEPT !["page"][n] = @ + 1]
      /\ toServer' = Append(toServer, Msg("ice", n))
      /\ UNCHANGED <<bin, recvbin, recvpipe, pc, localpc, capturing, toPage, strays>>
  BY DEF onIceCandidate, client, server
<1>2. gathered \in [{"server", "page"} -> [Peer -> 0..MaxIce]] /\ TypeOK
  BY DEF PatientInv, TypeOK
<1>3. gathered["page"][n] # MaxIce
  BY <1>1, <1>2, MaxIceAssumption
<1>4. n = localpc /\ capturing = 0
  BY <1>1, <1>3, Busy DEF Done
<1>5. /\ toServer' \in Seq(Message) /\ toServer' # <<>>
      /\ Head(toServer').what = "offer" => toServer # <<>> /\ Head(toServer).what = "offer"
      /\ Holds(toServer', "offer") <=> Holds(toServer, "offer")
      /\ Holds(toServer', "talk stop") <=> Holds(toServer, "talk stop")
      /\ InLine(toServer) => InLine(toServer')
      /\ IceBehind(toServer) /\ Holds(toServer, "offer") => IceBehind(toServer')
      /\ TalkIsAbout(toServer, n) => TalkIsAbout(toServer', n)
  BY <1>1, <1>2, ToServerSent
<1>6. gathered' \in [{"server", "page"} -> [Peer -> 0..MaxIce]]
  BY <1>1, <1>2, Gathers
<1>7. \A m \in Peer : /\ m # n => gathered'["page"][m] = gathered["page"][m]
                      /\ gathered'["server"][m] = gathered["server"][m]
  BY <1>1, <1>2
<1>8. pc[localpc] # "creating"
  BY <1>1, <1>4
<1>9. recvbin = localpc \/ Holds(toServer, "offer")
  BY <1>8 DEF PatientInv, Pointers
<1>10. TypeOK' /\ strays' = {}
  BY <1>1, <1>2, <1>5, <1>6 DEF TypeOK, PatientInv
<1>11. Starting'
  <2>1. Holds(toServer, "offer") => ServerQuiet' /\ pc'[localpc'] = "offering"
    BY <1>1, <1>7 DEF PatientInv, Starting, ServerQuiet
  <2>2. capturing' \in {0, 1} /\ localpc' + capturing' <= MaxTalk
    BY <1>1 DEF PatientInv, Starting
  <2>3. capturing' # 1 /\ pc'[localpc'] # "creating"
    BY <1>1, <1>4, <1>8
  <2> QED BY ONLY <1>5, <2>1, <2>2, <2>3 DEF Starting
<1>12. OthersRest'
  BY <1>1, <1>4, <1>7 DEF OthersRest, Done, PatientInv
<1>13. Negotiated'
  BY <1>1 DEF Negotiated, PatientInv
<1>14. Pointers'
  BY <1>1, <1>5 DEF Pointers, PatientInv
<1>15. ToPageOrder'
  BY <1>1 DEF ToPageOrder, PatientInv
<1>16. ToServerOrder'
  BY <1>1, <1>4, <1>5, <1>9 DEF ToServerOrder, PatientInv
<1>17. AnswerWay'
  BY <1>1, <1>5 DEF AnswerWay, PatientInv
<1>18. StopGuard => StopGuard'
  BY <1>1, <1>3, <1>4, <1>5, <1>8 DEF StopGuard, TalkIsOver, Done
<1> QED BY <1>18, <1>10, <1>11, <1>12, <1>13, <1>14, <1>15, <1>16, <1>17 DEF PatientInv

\* The camera resolves: a talk begins, and its createOffer is pending.
LEMMA CreateSenderStep == ASSUME PatientInv, createSender PROVE PatientInv' /\ (StopGuard => StopGuard')
<1> USE PeerFacts
<1>1. /\ capturing > 0 /\ capturing' = capturing - 1 /\ localpc' = localpc + 1
      /\ pc' = [pc EXCEPT ![localpc'] = "creating"]
      /\ UNCHANGED <<bin, recvbin, recvpipe, gathered, toServer, toPage, strays>>
  BY DEF createSender, server
<1>2. TypeOK /\ localpc \in Peer
  BY DEF PatientInv, TypeOK
<1>3. capturing = 1 /\ localpc + 1 <= MaxTalk
  BY <1>1 DEF PatientInv, Starting
<1>4. ServerQuiet /\ OnlyStops /\ \A n \in Peer : Done(n)
  BY <1>3 DEF PatientInv, Starting
<1>5. localpc' \in Talk /\ localpc' \in Peer /\ localpc' # 0 /\ capturing' = 0
  BY <1>1, <1>2, <1>3, MaxTalkAssumption DEF Talk, Peer
<1>6. pc'[localpc'] = "creating" /\ \A n \in Peer : n # localpc' => pc'[n] = pc[n]
  BY <1>1, <1>2, <1>5 DEF TypeOK
<1>7. toServer \in Seq(Message) /\ Stops(toServer)
  BY <1>2, <1>4 DEF TypeOK, OnlyStops
<1>8. /\ ~ Holds(toServer, "offer") /\ InLine(toServer) /\ IceBehind(toServer)
      /\ TalkIsAbout(toServer, localpc')
      /\ toServer # <<>> => Head(toServer).what = "talk stop"
  BY <1>7, StopsOnly
<1>9. toPage = <<>> /\ pc[0] = "stable"
  BY <1>4 DEF ServerQuiet
<1>10. pc' \in [Peer -> {"absent", "new", "creating", "offering", "stable"}]
  BY <1>1, <1>2 DEF TypeOK
<1>11. TypeOK' /\ strays' = {}
  <2>1. capturing' \in 0..MaxTalk
    BY <1>5, MaxTalkAssumption
  <2>2. strays' = {}
    BY <1>1 DEF PatientInv
  <2> QED BY <1>1, <1>2, <1>5, <1>10, <2>1, <2>2 DEF TypeOK
<1>12. Starting'
  <2>1. ServerQuiet' /\ OnlyStops'
    BY <1>1, <1>4, <1>5, <1>6 DEF ServerQuiet, OnlyStops
  <2>2. localpc' \in Nat /\ localpc' <= MaxTalk
    BY <1>5
  <2>3. localpc' + capturing' <= MaxTalk
    <3>1. localpc' + 0 <= MaxTalk
      BY <2>2
    <3> QED BY <1>5, <3>1, Zenon
  <2>4. ~ Holds(toServer', "offer")
    BY <1>1, <1>8
  <2> QED BY ONLY <1>5, <2>1, <2>3, <2>4 DEF Starting
<1>13. OthersRest'
  <2>1. ASSUME NEW n \in Peer, n # localpc' PROVE Done(n)'
    BY <1>1, <1>4, <1>6, <2>1 DEF Done
  <2>2. ASSUME NEW n \in Peer, n > localpc' PROVE bin'[n] = "absent" /\ pc'[n] = "absent"
    <3>1. n > localpc /\ n # localpc'
      BY <1>1, <1>2, <2>2
    <3> QED BY <1>1, <1>6, <3>1 DEF PatientInv, OthersRest
  <2> QED BY ONLY <2>1, <2>2 DEF OthersRest
<1>14. Negotiated'
  BY <1>1, <1>5, <1>6, <1>9 DEF Negotiated, PatientInv
<1>15. Pointers'
  <2>1. recvbin <= localpc /\ recvbin \in Peer
    BY <1>2 DEF PatientInv, Pointers, TypeOK
  <2>2. recvbin' <= localpc'
    BY <1>1, <1>2, <2>1
  <2> QED BY <1>1, <1>6, <2>2 DEF Pointers, PatientInv
<1>16. ToPageOrder'
  BY <1>1, <1>9, Nothing DEF ToPageOrder
<1>17. ToServerOrder'
  BY <1>1, <1>8 DEF ToServerOrder
<1>18. AnswerWay'
  BY <1>6 DEF AnswerWay
<1>19. StopGuard => StopGuard'
  BY <1>1, <1>5, <1>6, <1>8, <1>9 DEF StopGuard, TalkIsOver
<1> QED BY <1>19, <1>11, <1>12, <1>13, <1>14, <1>15, <1>16, <1>17, <1>18 DEF PatientInv

\* The camera is refused.
LEMMA CaptureErrorStep == ASSUME PatientInv, captureError PROVE PatientInv' /\ (StopGuard => StopGuard')
<1>1. /\ capturing > 0 /\ capturing' = capturing - 1
      /\ UNCHANGED <<bin, recvbin, recvpipe, pc, localpc, gathered, toServer, toPage, strays>>
  BY DEF captureError, server
<1>2. TypeOK /\ localpc \in Nat
  BY MaxTalkAssumption DEF PatientInv, TypeOK, Peer
<1>3. capturing = 1 /\ localpc + 1 <= MaxTalk
  BY <1>1 DEF PatientInv, Starting
<1>4. ServerQuiet /\ OnlyStops
  BY <1>3 DEF PatientInv, Starting
<1>5. capturing' = 0
  BY <1>1, <1>3
<1>6. TypeOK' /\ strays' = {}
  BY <1>1, <1>2, <1>5, MaxTalkAssumption DEF TypeOK, PatientInv
<1>7. Starting'
  <2>1. ServerQuiet' /\ OnlyStops'
    BY <1>1, <1>4 DEF ServerQuiet, OnlyStops
  <2>2. localpc' + capturing' <= MaxTalk
    BY <1>1, <1>2, <1>3, <1>5, MaxTalkAssumption
  <2>3. Holds(toServer', "offer") => pc'[localpc'] = "offering"
    BY <1>1 DEF PatientInv, Starting
  <2> QED BY ONLY <1>5, <2>1, <2>2, <2>3 DEF Starting
<1>8. OthersRest'
  BY <1>1 DEF OthersRest, Done, PatientInv
<1>9. Negotiated' /\ Pointers'
  BY <1>1 DEF Negotiated, Pointers, PatientInv
<1>10. ToPageOrder' /\ ToServerOrder'
  BY <1>1 DEF ToPageOrder, ToServerOrder, PatientInv
<1>11. AnswerWay'
  BY <1>1 DEF AnswerWay, PatientInv
<1>12. StopGuard => StopGuard'
  BY <1>1 DEF StopGuard, TalkIsOver, Done
<1> QED BY <1>12, <1>6, <1>7, <1>8, <1>9, <1>10, <1>11 DEF PatientInv

\* The talk's offer goes out behind the stops, and localpc is still its own.
LEMMA TalkOfferStep ==
    ASSUME PatientInv, NEW n \in Talk, offerCreated(n) PROVE PatientInv' /\ (StopGuard => StopGuard')
<1> USE PeerFacts
<1>1. /\ pc[n] = "creating"
      /\ pc' = [pc EXCEPT ![n] = IF n = localpc THEN "offering" ELSE "new"]
      /\ Given("offer", n, localpc) /\ toServer' = Append(toServer, Msg("offer", n))
      /\ UNCHANGED <<bin, recvbin, recvpipe, localpc, capturing, gathered, toPage>>
  BY DEF offerCreated, server
<1>2. TypeOK
  BY DEF PatientInv
<1>3. n = localpc /\ capturing = 0 /\ n # 0
  BY <1>1, Busy DEF Done
<1>4. ServerQuiet /\ OnlyStops
  BY <1>1, <1>3 DEF PatientInv, Starting
<1>5. toServer \in Seq(Message) /\ Stops(toServer)
  BY <1>2, <1>4 DEF TypeOK, OnlyStops
<1>6. /\ InLine(toServer) /\ IceBehind(toServer) /\ TalkIsAbout(toServer, n)
      /\ toServer # <<>> => Head(toServer).what = "talk stop"
  BY <1>5, StopsOnly
<1>7. /\ toServer' \in Seq(Message) /\ Holds(toServer', "offer")
      /\ Head(toServer').what = "offer" => toServer = <<>>
  BY <1>1, <1>2, <1>6, ToServerSent
<1>8. InLine(toServer') /\ IceBehind(toServer')
  BY <1>1, <1>2, <1>5, <1>6, ToServerSent
<1>9. TalkIsAbout(toServer', n)
  BY <1>1, <1>2, <1>6, ToServerSent
<1>10. pc'[n] = "offering" /\ \A m \in Peer : m # n => pc'[m] = pc[m]
  BY <1>1, <1>2, <1>3 DEF TypeOK
<1>11. strays' = {}
  BY <1>1, <1>3 DEF PatientInv, Given
<1>12. TypeOK'
  BY <1>1, <1>2, <1>7, <1>11 DEF TypeOK
<1>13. Starting'
  <2>1. ServerQuiet'
    BY <1>1, <1>3, <1>4, <1>10 DEF ServerQuiet
  <2>2. capturing' # 1 /\ pc'[localpc'] = "offering" /\ pc'[localpc'] # "creating"
    BY <1>1, <1>3, <1>10
  <2>3. capturing' \in {0, 1} /\ localpc' + capturing' <= MaxTalk
    BY <1>1 DEF PatientInv, Starting
  <2> QED BY ONLY <2>1, <2>2, <2>3 DEF Starting
<1>14. OthersRest'
  <2>1. ASSUME NEW m \in Peer, m > localpc PROVE m # localpc
    BY <1>3, <2>1
  <2> QED BY <1>1, <1>3, <1>10, <2>1 DEF OthersRest, Done, PatientInv
<1>15. Negotiated'
  BY <1>1, <1>3, <1>10 DEF Negotiated, PatientInv
<1>16. Pointers'
  BY <1>1, <1>7 DEF Pointers, PatientInv
<1>17. ToPageOrder'
  BY <1>1 DEF ToPageOrder, PatientInv
<1>18. ToServerOrder'
  BY <1>1, <1>3, <1>4, <1>7, <1>8, <1>9 DEF ToServerOrder, OnlyStops
<1>19. AnswerWay'
  BY <1>7 DEF AnswerWay
<1>20. StopGuard => StopGuard'
  BY <1>1, <1>3, <1>4, <1>7, <1>8, <1>10 DEF StopGuard, TalkIsOver, ServerQuiet
<1> QED BY <1>20, <1>11, <1>12, <1>13, <1>14, <1>15, <1>16, <1>17, <1>18, <1>19 DEF PatientInv

\* A stop of the user's or the page's own goes out behind no offer.
LEMMA StopSent ==
    ASSUME PatientInv, stopLocalMedia, ~ Holds(toServer, "offer")
    PROVE  /\ toServer' \in Seq(Message) /\ toServer' # <<>> /\ ~ Holds(toServer', "offer")
           /\ Stops(toServer) => Stops(toServer')
           /\ InLine(toServer') /\ TalkIsAbout(toServer', localpc)
           /\ IceBehind(toServer) => IceBehind(toServer')
           /\ Head(toServer').what = "offer" => toServer # <<>> /\ Head(toServer).what = "offer"
<1>1. TypeOK /\ toServer' = Append(toServer, Msg("talk stop", 0)) /\ 0 \in Peer
  BY PeerFacts DEF PatientInv, stopLocalMedia
<1>2. InLine(toServer) /\ TalkIsAbout(toServer, localpc)
  BY DEF PatientInv, ToServerOrder
<1>3. /\ toServer' \in Seq(Message) /\ toServer' # <<>> /\ ~ Holds(toServer', "offer")
      /\ Stops(toServer) => Stops(toServer')
      /\ IceBehind(toServer) => IceBehind(toServer')
      /\ Head(toServer').what = "offer" => toServer # <<>> /\ Head(toServer).what = "offer"
  BY <1>1, ToServerSent
<1>4. InLine(toServer')
  BY <1>1, <1>2, ToServerSent
<1>5. TalkIsAbout(toServer', localpc)
  BY <1>1, <1>2, ToServerSent
<1> QED BY <1>3, <1>4, <1>5

\* The user stops the last talk, and may ask for a camera for the next.
LEMMA ChooseStep ==
    ASSUME PatientInv, Settled, NEW start \in BOOLEAN, selectVideoSize(start)
    PROVE  PatientInv' /\ (StopGuard => StopGuard')
<1> USE PeerFacts
<1>1. /\ pc[0] = "stable" /\ stopLocalMedia
      /\ capturing' \in {capturing, capturing + 1}
      /\ capturing' # capturing => Chosen < MaxTalk
      /\ UNCHANGED <<bin, recvbin, recvpipe, pc, localpc, gathered, toPage, strays>>
  BY DEF selectVideoSize, server
<1>2. toServer = <<>> /\ toPage = <<>> /\ capturing = 0
  BY DEF Settled
<1>3. \A n \in Peer : Done(n)
  BY DEF Settled, Done
<1>4. TypeOK /\ localpc \in Peer
  BY DEF PatientInv, TypeOK
<1>5. /\ Stops(toServer) /\ ~ Holds(toServer, "offer")
  BY <1>2, Nothing
<1>6. /\ toServer' \in Seq(Message) /\ toServer' # <<>> /\ ~ Holds(toServer', "offer")
      /\ Stops(toServer') /\ InLine(toServer') /\ TalkIsAbout(toServer', localpc)
      /\ IceBehind(toServer) => IceBehind(toServer')
      /\ Head(toServer').what # "offer"
  BY <1>1, <1>2, <1>5, StopSent
<1>7. pc[localpc] \notin {"creating", "offering"}
  BY <1>3, <1>4 DEF Done
<1>8. capturing' \in {0, 1} /\ localpc' + capturing' <= MaxTalk
  <2>1. CASE capturing' = 0
    BY <1>1, <1>4, <2>1, MaxTalkAssumption
  <2>2. CASE capturing' = 1
    BY <1>1, <1>2, <1>4, <2>2, MaxTalkAssumption DEF Chosen
  <2> QED BY <1>1, <1>2, <2>1, <2>2
<1>9. TypeOK' /\ strays' = {}
  <2>1. localpc \in Nat /\ localpc + capturing' <= MaxTalk
    BY <1>1, <1>4, <1>8
  <2>2. capturing' = 0 => capturing' \in 0..MaxTalk
    BY MaxTalkAssumption
  <2>3. capturing' = 1 => capturing' \in 0..MaxTalk
    BY <2>1, MaxTalkAssumption
  <2> QED BY <1>1, <1>4, <1>6, <1>8, <2>2, <2>3 DEF TypeOK, PatientInv
<1>10. Starting'
  <2>1. ServerQuiet' /\ OnlyStops' /\ \A n \in Peer : Done(n)'
    BY <1>1, <1>2, <1>3, <1>6 DEF ServerQuiet, OnlyStops, Done
  <2> QED BY <1>6, <1>8, <2>1 DEF Starting
<1>11. OthersRest'
  BY <1>1 DEF OthersRest, Done, PatientInv
<1>12. Negotiated' /\ Pointers'
  BY <1>1, <1>5, <1>6 DEF Negotiated, Pointers, PatientInv
<1>13. ToPageOrder'
  BY <1>1 DEF ToPageOrder, PatientInv
<1>14. ToServerOrder'
  BY <1>1, <1>6 DEF ToServerOrder, PatientInv
<1>15. AnswerWay'
  BY <1>1, <1>7 DEF AnswerWay
<1>16. StopGuard => StopGuard'
  BY <1>1, <1>3, <1>4, <1>6, StopsOnly DEF StopGuard, TalkIsOver, Done
<1> QED BY <1>16, <1>9, <1>10, <1>11, <1>12, <1>13, <1>14, <1>15 DEF PatientInv

\* The page stops an answered talk of itself.
LEMMA DisconnectedStep ==
    ASSUME PatientInv, oniceconnectionstatechange PROVE PatientInv'
<1>1. /\ localpc # 0 /\ pc[localpc] = "stable" /\ stopLocalMedia
      /\ UNCHANGED <<bin, recvbin, recvpipe, pc, localpc, capturing, gathered, toPage, strays>>
  BY DEF oniceconnectionstatechange, server, client
<1>2. TypeOK /\ pc[localpc] # "creating" /\ pc[localpc] # "offering"
  BY <1>1 DEF PatientInv
<1>3. ~ Holds(toServer, "offer")
  BY <1>2 DEF PatientInv, Starting
<1>4. /\ toServer' \in Seq(Message) /\ toServer' # <<>> /\ ~ Holds(toServer', "offer")
      /\ Stops(toServer) => Stops(toServer')
      /\ InLine(toServer') /\ TalkIsAbout(toServer', localpc)
      /\ IceBehind(toServer) => IceBehind(toServer')
      /\ Head(toServer').what = "offer" => toServer # <<>> /\ Head(toServer).what = "offer"
  BY <1>1, <1>3, StopSent
<1>5. TypeOK' /\ strays' = {}
  BY <1>1, <1>2, <1>4 DEF TypeOK, PatientInv
<1>6. Starting'
  <2>1. capturing' = 1 => ServerQuiet' /\ OnlyStops' /\ \A n \in Peer : Done(n)'
    BY <1>1, <1>4 DEF PatientInv, Starting, ServerQuiet, OnlyStops, Done
  <2>2. capturing' \in {0, 1} /\ localpc' + capturing' <= MaxTalk
    BY <1>1 DEF PatientInv, Starting
  <2>3. pc'[localpc'] # "creating"
    BY <1>1, <1>2
  <2> QED BY ONLY <1>4, <2>1, <2>2, <2>3 DEF Starting
<1>7. OthersRest'
  BY <1>1 DEF OthersRest, Done, PatientInv
<1>8. Negotiated' /\ Pointers'
  BY <1>1, <1>3 DEF Negotiated, Pointers, PatientInv
<1>9. ToPageOrder'
  BY <1>1 DEF ToPageOrder, PatientInv
<1>10. ToServerOrder'
  BY <1>1, <1>4 DEF ToServerOrder, PatientInv
<1>11. AnswerWay'
  BY <1>1, <1>2 DEF AnswerWay
<1> QED BY <1>5, <1>6, <1>7, <1>8, <1>9, <1>10, <1>11 DEF PatientInv

LEMMA InitInv == Init => PatientInv
<1> USE PeerFacts
<1> SUFFICES ASSUME Init PROVE PatientInv
  OBVIOUS
<1>1. /\ \A n \in Peer : bin[n] = IF n = 0 THEN "new" ELSE "absent"
      /\ \A n \in Peer : pc[n] = IF n = 0 THEN "new" ELSE "absent"
      /\ recvbin = 0 /\ recvpipe = 0 /\ localpc = 0 /\ capturing = 0
      /\ toServer = <<>> /\ toPage = <<>> /\ strays = {}
  BY DEF Init
<1>2. TypeOK
  BY <1>1, MaxTalkAssumption, MaxIceAssumption DEF Init, TypeOK, Message
<1>3. /\ ~ Holds(toServer, "offer") /\ ~ Holds(toPage, "offer") /\ ~ Holds(toPage, "answer")
      /\ AllAbout(toPage, 0) /\ Stops(toServer) /\ toServer \in Seq(Message)
  BY <1>1, Nothing
<1>4. InLine(toServer) /\ TalkIsAbout(toServer, 0)
  BY <1>3, StopsOnly
<1>5. Starting
  BY <1>1, <1>3, MaxTalkAssumption DEF Starting
<1>6. OthersRest
  <2>1. ASSUME NEW n \in Peer, n # 0 PROVE bin[n] = "absent" /\ pc[n] = "absent"
    BY <1>1, <2>1
  <2>2. \A n \in Peer : n > 0 => n # 0
    OBVIOUS
  <2> QED BY <1>1, <2>1, <2>2 DEF OthersRest, Done
<1>7. Negotiated
  BY <1>1, <1>3 DEF Negotiated
<1>8. Pointers
  BY <1>1 DEF Pointers
<1>9. ToPageOrder /\ ToServerOrder
  BY <1>1, <1>3, <1>4 DEF ToPageOrder, ToServerOrder
<1>10. AnswerWay
  BY <1>1 DEF AnswerWay
<1> QED BY <1>1, <1>2, <1>5, <1>6, <1>7, <1>8, <1>9, <1>10 DEF PatientInv

\* No step of a patient user's, nor of a lost connection, breaks it.
LEMMA StepInv == PatientInv /\ [PatientNext]_vars => PatientInv'
<1> SUFFICES ASSUME PatientInv, [PatientNext]_vars PROVE PatientInv'
  OBVIOUS
<1>1. CASE BinStep
  BY <1>1, OfferCreatedStep, AnswerCreatedStep, ServerIceStep DEF BinStep
<1>2. CASE ServerStep
  BY <1>2, ReadAnswerStep, ReadOfferStep, ReadTalkStopStep, ReadIceStep DEF ServerStep
<1>3. CASE PageStep
  BY <1>3, IncomingOfferStep, IncomingAnswerStep, IncomingIceStep, PageIceStep,
     CreateSenderStep, CaptureErrorStep, TalkOfferStep DEF PageStep
<1>4. CASE Settled /\ Choose
  BY <1>4, ChooseStep DEF Choose
<1>5. CASE oniceconnectionstatechange
  BY <1>5, DisconnectedStep
<1>6. CASE UNCHANGED vars
  <2>1. UNCHANGED <<bin, recvbin, recvpipe, pc, localpc, capturing, gathered, toServer, toPage, strays>>
    BY <1>6 DEF vars, server, client
  <2>2. /\ TypeOK => TypeOK'
        /\ Starting => Starting'
        /\ OthersRest => OthersRest'
        /\ Negotiated => Negotiated'
    BY <2>1 DEF TypeOK, Starting, ServerQuiet, OnlyStops, OthersRest, Done, Negotiated
  <2>3. /\ Pointers => Pointers'
        /\ ToPageOrder => ToPageOrder'
        /\ ToServerOrder => ToServerOrder'
        /\ AnswerWay => AnswerWay'
    BY <2>1 DEF Pointers, ToPageOrder, ToServerOrder, AnswerWay
  <2> QED BY <2>1, <2>2, <2>3 DEF PatientInv
<1> QED BY <1>1, <1>2, <1>3, <1>4, <1>5, <1>6 DEF PatientNext, SteadyNext

LEMMA AlwaysPatientInv == PatientSpec => []PatientInv
  BY InitInv, StepInv, PTL DEF PatientSpec

\* Nor does a patient user end a talk whose candidates are still to come.
LEMMA SteadyStep == PatientInv /\ StopGuard /\ [SteadyNext]_vars => PatientInv' /\ StopGuard'
<1> SUFFICES ASSUME PatientInv, StopGuard, [SteadyNext]_vars PROVE PatientInv' /\ StopGuard'
  OBVIOUS
<1>1. CASE BinStep
  BY <1>1, OfferCreatedStep, AnswerCreatedStep, ServerIceStep DEF BinStep
<1>2. CASE ServerStep
  BY <1>2, ReadAnswerStep, ReadOfferStep, ReadTalkStopStep, ReadIceStep DEF ServerStep
<1>3. CASE PageStep
  BY <1>3, IncomingOfferStep, IncomingAnswerStep, IncomingIceStep, PageIceStep,
     CreateSenderStep, CaptureErrorStep, TalkOfferStep DEF PageStep
<1>4. CASE Settled /\ Choose
  BY <1>4, ChooseStep DEF Choose
<1>5. CASE UNCHANGED vars
  <2>1. PatientInv'
    BY <1>5, StepInv
  <2>2. StopGuard'
    BY <1>5 DEF vars, server, client, StopGuard, TalkIsOver, Done
  <2> QED BY <2>1, <2>2
<1> QED BY <1>1, <1>2, <1>3, <1>4, <1>5 DEF SteadyNext

LEMMA AlwaysSteady == SteadySpec => [](PatientInv /\ StopGuard)
<1>1. ASSUME Init PROVE StopGuard
  <2>1. recvpipe = recvbin /\ toServer = <<>>
    BY <1>1 DEF Init
  <2>2. ~ Holds(toServer, "talk stop")
    BY <2>1, Nothing
  <2> QED BY <2>1, <2>2 DEF StopGuard
<1> QED BY <1>1, InitInv, SteadyStep, PTL DEF SteadySpec
-----------------------------------------------------------------------------
\* Every pointer names a connection, every queue holds messages.
THEOREM TalkTypeCorrect == PatientSpec => []TypeOK
<1>1. PatientInv => TypeOK
  BY DEF PatientInv
<1> QED BY <1>1, AlwaysPatientInv, PTL

\* A patient user's descriptions and candidates all reach the connection they
\* were made for, although no message says which it is (onIncomingICE,
\* on_answer_created, the "ice" branch of soup_websocket_message_cb), and
\* although the page may stop a talk of itself at any time (webrtc.js 236).
THEOREM PatientTalksArrive == PatientSpec => []EverythingArrives
<1>1. PatientInv => EverythingArrives
  BY DEF PatientInv, EverythingArrives
<1> QED BY <1>1, AlwaysPatientInv, PTL

\* start_recv_webrtcbin never makes a receive pipeline while another talk has one.
THEOREM TalksOneAtATime == PatientSpec => []OneTalkAtATime
<1>1. PatientInv => OneTalkAtATime
  BY DEF PatientInv, Pointers, OneTalkAtATime
<1> QED BY <1>1, AlwaysPatientInv, PTL

\* When all is quiet localpc and recv.recvbin are the two ends of one talk.
THEOREM TalkEndsAgree == PatientSpec => []EndsAgree
<1>1. PatientInv => EndsAgree
  <2> SUFFICES ASSUME PatientInv, Settled, localpc # 0
               PROVE  recvbin = localpc /\ pc[localpc] = "stable"
    BY DEF EndsAgree
  <2>1. toServer = <<>> /\ localpc \in Peer /\ pc[localpc] \notin {"creating", "offering"}
    BY DEF Settled, PatientInv, TypeOK
  <2>2. recvbin = localpc
    BY <2>1, Nothing DEF PatientInv, Pointers
  <2>3. pc[localpc] \in {"creating", "offering", "stable"}
    BY DEF PatientInv, Negotiated
  <2> QED BY <2>1, <2>2, <2>3
<1> QED BY <1>1, AlwaysPatientInv, PTL

\* A talk that waits for its answer: the offer is on its way to the session, or
\* its bin makes the answer, or the answer is on its way to the page.
TalkIsUnderWay ==
    \A n \in Talk : pc[n] = "offering" =>
        \/ \E i \in 1..Len(toServer) : toServer[i] = Msg("offer", n)
        \/ bin[n] = "asked" /\ recvbin = n
        \/ \E i \in 1..Len(toPage) : toPage[i] = Msg("answer", n)

\* No talk of a patient user is lost: what TalksAreAnswered waits for is on its
\* way all the time (soup.c 200).
THEOREM NoTalkIsLost == PatientSpec => []TalkIsUnderWay
<1>1. PatientInv => TalkIsUnderWay
  <2> SUFFICES ASSUME PatientInv, NEW n \in Talk, pc[n] = "offering"
               PROVE  \/ \E i \in 1..Len(toServer) : toServer[i] = Msg("offer", n)
                      \/ bin[n] = "asked" /\ recvbin = n
                      \/ \E i \in 1..Len(toPage) : toPage[i] = Msg("answer", n)
    BY DEF TalkIsUnderWay
  <2>1. n = localpc /\ n # 0
    BY PeerFacts, Busy DEF Done
  <2>2. ASSUME NEW m \in Message, m.of = n PROVE m = Msg(m.what, n)
    BY <2>2 DEF Message, Msg
  <2>3. CASE Holds(toServer, "offer")
    <3>1. PICK i \in 1..Len(toServer) : toServer[i].what = "offer"
      BY <2>3 DEF Holds
    <3>2. toServer[i].of = n
      BY <2>1, <3>1 DEF PatientInv, ToServerOrder, TalkIsAbout
    <3>3. toServer \in Seq(Message)
      BY DEF PatientInv, TypeOK
    <3>4. toServer[i] = Msg("offer", n)
      BY <2>2, <3>1, <3>2, <3>3
    <3> QED BY <3>4
  <2>4. CASE bin[localpc] = "asked"
    BY <2>1, <2>4 DEF PatientInv, Pointers
  <2>5. CASE Holds(toPage, "answer")
    <3>1. PICK i \in 1..Len(toPage) : toPage[i].what = "answer"
      BY <2>5 DEF Holds
    <3>2. toPage[i].of = n
      BY <2>1, <3>1 DEF PatientInv, ToPageOrder, AllAbout
    <3>3. toPage \in Seq(Message)
      BY DEF PatientInv, TypeOK
    <3>4. toPage[i] = Msg("answer", n)
      BY <2>2, <3>1, <3>2, <3>3
    <3> QED BY <3>4
  <2> QED BY <2>1, <2>3, <2>4, <2>5 DEF PatientInv, AnswerWay
<1> QED BY <1>1, AlwaysPatientInv, PTL
-----------------------------------------------------------------------------
(***************************************************************************)
(* What the page's talk means for the session table: GwcServer is correct  *)
(* with polite clients, and as far as its talks go this page is one.  Only *)
(* a stop the page sends of itself, while its talk still gathers, lets a   *)
(* candidate of that talk come to a released recvbin.                      *)
(***************************************************************************)
\* The session reads an offer only while it has no receive pipeline: what
\* PoliteMessage of GwcServer asks of a client for sdp_offer.
PoliteOffer == ReadOffer => recvpipe = 0

\* A patient user's offers are polite whatever becomes of the connections: the
\* second offer of soup.c 355 finds no pipeline.
THEOREM PatientOffersArePolite == PatientSpec => [][PoliteOffer]_vars
<1>1. PatientInv => PoliteOffer
  BY DEF PatientInv, ToServerOrder, PoliteOffer, ReadOffer, ServerReads
<1> QED BY <1>1, AlwaysPatientInv, PTL

\* And a candidate only while recvbin is that of the pipeline, as it asks for
\* ice_candidate.
PoliteTalk == PoliteOffer /\ (ReadIce => recvbin = recvpipe)

\* While no talk loses its connection, the recvbin left at gst-app.c 1795 does
\* no harm either.
THEOREM SteadyTalksArePolite == SteadySpec => [][PoliteTalk]_vars
<1>1. PatientInv /\ StopGuard => PoliteTalk
  <2> SUFFICES ASSUME PatientInv, StopGuard PROVE PoliteTalk
    OBVIOUS
  <2>1. PoliteOffer
    BY DEF PatientInv, ToServerOrder, PoliteOffer, ReadOffer, ServerReads
  <2>2. ASSUME ReadIce PROVE recvbin = recvpipe
    <3>1. toServer # <<>> /\ Head(toServer).what = "ice" /\ toServer' = Tail(toServer)
      BY <2>2 DEF ReadIce, ServerReads
    <3>2. ~ IceBehind(toServer)
      BY <3>1, ToServerRead
    <3> QED BY <3>2 DEF StopGuard, TalkIsOver
  <2> QED BY <2>1, <2>2 DEF PoliteTalk
<1> QED BY <1>1, AlwaysSteady, PTL
-----------------------------------------------------------------------------
(***************************************************************************)
(* Any user, under Spec: sizes are chosen while talks are under way, and   *)
(* descriptions and candidates do go astray (AnswerIceIsOfATalk).          *)
(***************************************************************************)
\* Messages are about connections up to l, and the offers among them talks'.
MadeUpTo(q, l) == \A i \in 1..Len(q) : q[i].of <= l
OffersOfTalks(q) == \A i \in 1..Len(q) : q[i].what = "offer" => q[i].of # 0

\* Every candidate of a talk is behind an offer.
TalkIceBehind(q) ==
    \A i \in 1..Len(q) : q[i].what = "ice" /\ q[i].of # 0 =>
                            \E k \in 1..(i - 1) : q[k].what = "offer"

\* Connections exist up to localpc, the session's pointers name only these and
\* agree, and only of these are messages.
MadeSoFar ==
    /\ recvpipe \in {0, recvbin} /\ recvbin <= localpc /\ Chosen <= MaxTalk
    /\ \A n \in Peer : n > localpc => pc[n] = "absent" /\ bin[n] = "absent"
    /\ MadeUpTo(toServer, localpc) /\ MadeUpTo(toPage, localpc)

\* Until the session has read an offer it has no talk, and a talk at the page
\* that may gather has its offer on the way, before its candidates.
FirstOffer ==
    /\ OffersOfTalks(toServer)
    /\ recvbin = 0 =>
          /\ TalkIceBehind(toServer)
          /\ \A n \in Talk : /\ bin[n] = "absent"
                             /\ pc[n] \in {"offering", "stable"} => Holds(toServer, "offer")

\* What goes astray goes to a talk.
TheWatchGetsItsOwn == \A s \in strays : s.at # 0

AnyInv == TypeOK /\ MadeSoFar /\ FirstOffer /\ TheWatchGetsItsOwn

\* The page sends.
LEMMA TalkSends ==
    ASSUME NEW q \in Seq(Message), NEW m \in Message
    PROVE  /\ OffersOfTalks(q) /\ (m.what = "offer" => m.of # 0) => OffersOfTalks(Append(q, m))
           /\ TalkIceBehind(q) /\ (m.what = "ice" /\ m.of # 0 => Holds(q, "offer")) =>
                 TalkIceBehind(Append(q, m))
<1> DEFINE r == Append(q, m)
<1>1. /\ Len(q) \in Nat /\ Len(r) = Len(q) + 1 /\ r[Len(q) + 1] = m
      /\ \A i \in 1..Len(q) : r[i] = q[i]
  BY Sending
<1> HIDE DEF r
<1> PICK l \in Nat : Len(q) = l /\ Len(r) = l + 1
  BY <1>1
<1>2. r[l + 1] = m /\ \A i \in 1..l : r[i] = q[i]
  BY <1>1
<1>3. \A i \in 1..(l + 1) : i = l + 1 \/ (i \in 1..l /\ i < l + 1)
  OBVIOUS
<1>4. OffersOfTalks(q) /\ (m.what = "offer" => m.of # 0) => OffersOfTalks(r)
  BY <1>2, <1>3 DEF OffersOfTalks
<1>5. ASSUME TalkIceBehind(q), m.what = "ice" /\ m.of # 0 => Holds(q, "offer")
      PROVE  TalkIceBehind(r)
  <2> SUFFICES ASSUME NEW i \in 1..(l + 1), r[i].what = "ice", r[i].of # 0
               PROVE  \E k \in 1..(i - 1) : r[k].what = "offer"
    BY DEF TalkIceBehind
  <2>1. CASE i = l + 1
    <3>1. PICK k \in 1..l : q[k].what = "offer"
      BY <1>2, <1>5, <2>1 DEF Holds
    <3>2. k \in 1..(i - 1)
      BY <2>1
    <3> QED BY <1>2, <3>1, <3>2
  <2>2. CASE i \in 1..l
    <3>1. PICK k \in 1..(i - 1) : q[k].what = "offer"
      BY <1>2, <1>5, <2>2 DEF TalkIceBehind
    <3>2. k \in 1..l
      BY <2>2
    <3> QED BY <1>2, <3>1, <3>2
  <2> QED BY <1>3, <2>1, <2>2
<1> QED BY <1>4, <1>5 DEF r

\* The session reads.
LEMMA TalkReads ==
    ASSUME NEW q \in Seq(Message), q # <<>>
    PROVE  /\ OffersOfTalks(q) => OffersOfTalks(Tail(q))
           /\ OffersOfTalks(q) /\ Head(q).what = "offer" => Head(q).of # 0
           /\ TalkIceBehind(q) /\ Head(q).what = "ice" => Head(q).of = 0
           /\ TalkIceBehind(q) /\ Head(q).what # "offer" => TalkIceBehind(Tail(q))
<1> DEFINE r == Tail(q)
<1>1. /\ Len(q) \in Nat /\ Len(q) > 0 /\ Len(r) = Len(q) - 1 /\ Head(q) = q[1]
      /\ \A i \in 1..(Len(q) - 1) : r[i] = q[i + 1]
  BY Reading
<1> HIDE DEF r
<1> PICK l \in Nat : Len(q) = l /\ l > 0 /\ Len(r) = l - 1
  BY <1>1
<1>2. /\ q[1] = Head(q) /\ 1 \in 1..l
      /\ \A i \in 1..(l - 1) : r[i] = q[i + 1] /\ i + 1 \in 1..l
  BY <1>1
<1>3. /\ OffersOfTalks(q) => OffersOfTalks(r)
      /\ OffersOfTalks(q) /\ Head(q).what = "offer" => Head(q).of # 0
  BY <1>2 DEF OffersOfTalks
<1>4. ASSUME TalkIceBehind(q), Head(q).what = "ice" PROVE Head(q).of = 0
  <2>1. q[1].what = "ice" /\ q[1].of # 0 => \E k \in 1..(1 - 1) : q[k].what = "offer"
    BY <1>2, <1>4 DEF TalkIceBehind
  <2>2. 1..(1 - 1) = {}
    OBVIOUS
  <2> QED BY <1>2, <1>4, <2>1, <2>2
<1>5. ASSUME TalkIceBehind(q), Head(q).what # "offer" PROVE TalkIceBehind(r)
  <2> SUFFICES ASSUME NEW i \in 1..(l - 1), r[i].what = "ice", r[i].of # 0
               PROVE  \E k \in 1..(i - 1) : r[k].what = "offer"
    BY DEF TalkIceBehind
  <2>1. /\ i + 1 \in 1..l /\ q[i + 1].what = "ice" /\ q[i + 1].of # 0
        /\ (i + 1) - 1 = i
    BY <1>2
  <2>2. PICK k \in 1..((i + 1) - 1) : q[k].what = "offer"
    BY <1>5, <2>1 DEF TalkIceBehind
  <2>3. k \in 1..i
    BY <2>1, <2>2
  <2>4. k # 1
    BY <1>2, <1>5, <2>2
  <2>5. k - 1 \in 1..(i - 1) /\ k - 1 \in 1..(l - 1) /\ (k - 1) + 1 = k
    BY <2>3, <2>4
  <2>6. r[k - 1] = q[k]
    BY <1>2, <2>5
  <2> QED BY <2>2, <2>5, <2>6
<1> QED BY <1>3, <1>4, <1>5 DEF r

\* What is sent or read is about connections made so far.
LEMMA MadeSends ==
    ASSUME NEW q \in Seq(Message), NEW l \in Nat, MadeUpTo(q, l), NEW m \in Message, m.of <= l,
           NEW r, r = Append(q, m)
    PROVE  r \in Seq(Message) /\ MadeUpTo(r, l)
<1>1. /\ Len(q) \in Nat /\ Len(r) = Len(q) + 1 /\ r[Len(q) + 1] = m /\ r \in Seq(Message)
      /\ \A i \in 1..Len(q) : r[i] = q[i]
  BY Sending
<1>2. \A i \in 1..Len(r) : i = Len(q) + 1 \/ i \in 1..Len(q)
  BY <1>1
<1> QED BY <1>1, <1>2 DEF MadeUpTo

LEMMA MadeReads ==
    ASSUME NEW q \in Seq(Message), NEW l \in Nat, MadeUpTo(q, l), q # <<>>, NEW r, r = Tail(q)
    PROVE  r \in Seq(Message) /\ MadeUpTo(r, l) /\ Head(q) \in Message /\ Head(q).of <= l
<1>1. /\ Len(q) \in Nat /\ Len(q) > 0 /\ Len(r) = Len(q) - 1 /\ Head(q) = q[1]
      /\ r \in Seq(Message) /\ Head(q) \in Message
      /\ \A i \in 1..(Len(q) - 1) : r[i] = q[i + 1]
  BY Reading
<1>2. 1 \in 1..Len(q) /\ \A i \in 1..Len(r) : i + 1 \in 1..Len(q) /\ r[i] = q[i + 1]
  BY <1>1
<1> QED BY <1>1, <1>2 DEF MadeUpTo

\* What is given to another connection is given to a talk, if only talks' are
\* given to others.
LEMMA GivenToATalk ==
    ASSUME AnyInv, NEW n \in Peer, NEW at \in Peer, n # 0 => at # 0,
           NEW what \in {"local", "offer", "answer", "server ice", "page ice"},
           Given(what, n, at)
    PROVE  /\ TheWatchGetsItsOwn'
           /\ strays' \subseteq [what : {"local", "offer", "answer", "server ice", "page ice"},
                                 of : Peer, at : Peer]
<1> DEFINE Stray == [what : {"local", "offer", "answer", "server ice", "page ice"},
                     of : Peer, at : Peer]
<1> DEFINE new == [what |-> what, of |-> n, at |-> at]
<1>1. strays \subseteq Stray /\ \A s \in strays : s.at # 0
  BY DEF AnyInv, TypeOK, TheWatchGetsItsOwn
<1>2. CASE at = n
  BY <1>1, <1>2 DEF Given, TheWatchGetsItsOwn
<1>3. CASE at # n
  <2>1. new \in Stray /\ new.at = at /\ at # 0
    BY <1>3
  <2>2. strays' = strays \cup {new}
    BY <1>3 DEF Given
  <2> HIDE DEF Stray, new
  <2>3. strays' \subseteq Stray /\ \A s \in strays' : s.at # 0
    BY <1>1, <2>1, <2>2
  <2> QED BY <2>3 DEF TheWatchGetsItsOwn, Stray
<1> QED BY <1>2, <1>3

\* The bins' threads and the page send messages of what has been made.
LEMMA ToPageMade ==
    ASSUME AnyInv, NEW what \in {"offer", "answer", "ice", "talk stop"}, NEW n \in Peer,
           n <= localpc, toPage' = Append(toPage, Msg(what, n))
    PROVE  toPage' \in Seq(Message) /\ MadeUpTo(toPage', localpc)
<1>1. toPage \in Seq(Message) /\ localpc \in Nat /\ MadeUpTo(toPage, localpc)
  BY PeerFacts DEF AnyInv, TypeOK, MadeSoFar
<1>2. Msg(what, n) \in Message /\ Msg(what, n).of = n
  BY DEF Msg, Message
<1> DEFINE m == Msg(what, n)
<1>3. toPage' = Append(toPage, m) /\ m \in Message /\ m.of <= localpc
  BY <1>2
<1> HIDE DEF m
<1> QED BY ONLY <1>1, <1>3, MadeSends

LEMMA ToServerMade ==
    ASSUME AnyInv, NEW what \in {"offer", "answer", "ice", "talk stop"}, NEW n \in Peer,
           n <= localpc, toServer' = Append(toServer, Msg(what, n)),
           what = "offer" => n # 0,
           recvbin = 0 /\ what = "ice" /\ n # 0 => Holds(toServer, "offer")
    PROVE  /\ toServer' \in Seq(Message) /\ MadeUpTo(toServer', localpc)
           /\ OffersOfTalks(toServer') /\ (recvbin = 0 => TalkIceBehind(toServer'))
           /\ Holds(toServer, "offer") \/ what = "offer" => Holds(toServer', "offer")
<1>1. /\ toServer \in Seq(Message) /\ localpc \in Nat /\ MadeUpTo(toServer, localpc)
      /\ OffersOfTalks(toServer) /\ (recvbin = 0 => TalkIceBehind(toServer)) /\ TypeOK
  BY PeerFacts DEF AnyInv, TypeOK, MadeSoFar, FirstOffer
<1>2. Msg(what, n) \in Message /\ Msg(what, n).what = what /\ Msg(what, n).of = n
  BY DEF Msg, Message
<1> DEFINE m == Msg(what, n)
<1>3. toServer' = Append(toServer, m) /\ m \in Message /\ m.what = what /\ m.of = n
  BY <1>2
<1> HIDE DEF m
<1>4. toServer' \in Seq(Message) /\ MadeUpTo(toServer', localpc)
  <2>1. m.of <= localpc
    BY <1>3
  <2> QED BY ONLY <1>1, <1>3, <2>1, MadeSends
<1>5. OffersOfTalks(toServer')
  BY <1>1, <1>3, TalkSends
<1>6. recvbin = 0 => TalkIceBehind(toServer')
  BY <1>1, <1>3, TalkSends
<1>7. Holds(toServer, "offer") \/ what = "offer" => Holds(toServer', "offer")
  BY <1>1, ToServerSent
<1> QED BY <1>4, <1>5, <1>6, <1>7

\* Which connections there are.
LEMMA Made ==
    ASSUME AnyInv
    PROVE  /\ localpc \in Peer /\ recvbin \in Peer /\ recvpipe \in Peer
           /\ localpc \in Nat /\ recvbin \in Nat /\ recvpipe \in Nat /\ 0 <= localpc
           /\ \A n \in Peer : bin[n] # "absent" \/ pc[n] # "absent" => n <= localpc
           /\ \A n \in Peer : n > localpc => n # 0 /\ n # localpc /\ n # recvpipe /\ n # recvbin
<1>1. /\ localpc \in Peer /\ recvbin \in Peer /\ recvpipe \in Peer
      /\ localpc \in Nat /\ recvbin \in Nat /\ recvpipe \in Nat /\ 0 <= localpc
  <2>1. localpc \in Peer /\ recvbin \in Peer /\ recvpipe \in Peer
    BY DEF AnyInv, TypeOK
  <2>2. \A n \in Peer : n \in Nat /\ 0 <= n
    BY PeerFacts
  <2> QED BY <2>1, <2>2
<1>2. recvbin <= localpc /\ recvpipe <= localpc
  BY <1>1 DEF AnyInv, MadeSoFar
<1>3. ASSUME NEW n \in Peer, bin[n] # "absent" \/ pc[n] # "absent" PROVE n <= localpc
  <2>1. ~ (n > localpc)
    BY <1>3 DEF AnyInv, MadeSoFar
  <2> QED BY <1>1, <2>1, PeerFacts
<1>4. ASSUME NEW n \in Peer, n > localpc
      PROVE  n # 0 /\ n # localpc /\ n # recvpipe /\ n # recvbin
  BY <1>1, <1>2, <1>4, PeerFacts
<1> QED BY <1>1, <1>3, <1>4

LEMMA AnyBin == ASSUME AnyInv, BinStep PROVE AnyInv'
<1> USE PeerFacts, Made
<1>1. TypeOK
  BY DEF AnyInv
<1>2. CASE OfferCreated
  <2>1. /\ bin' = [bin EXCEPT ![0] = "described"] /\ toPage' = Append(toPage, Msg("offer", 0))
        /\ UNCHANGED <<recvbin, recvpipe, pc, localpc, capturing, gathered, toServer, strays>>
    BY <1>2 DEF OfferCreated, client
  <2>2. toPage' \in Seq(Message) /\ MadeUpTo(toPage', localpc)
    BY <2>1, ToPageMade
  <2>3. \A n \in Peer : n # 0 => bin'[n] = bin[n]
    BY <1>1, <2>1 DEF TypeOK
  <2>4. TypeOK'
    BY <1>1, <2>1, <2>2 DEF TypeOK
  <2>5. MadeSoFar'
    BY <2>1, <2>2, <2>3 DEF AnyInv, MadeSoFar, Chosen
  <2>6. FirstOffer' /\ TheWatchGetsItsOwn'
    BY <2>1, <2>3 DEF AnyInv, FirstOffer, TheWatchGetsItsOwn
  <2> QED BY <2>4, <2>5, <2>6 DEF AnyInv
<1>3. ASSUME NEW n \in Talk, on_answer_created(n) PROVE AnyInv'
  <2>1. /\ bin[n] = "asked" /\ bin' = [bin EXCEPT ![n] = "described"]
        /\ Given("local", n, recvbin) /\ toPage' = Append(toPage, Msg("answer", n))
        /\ UNCHANGED <<recvbin, recvpipe, pc, localpc, capturing, gathered, toServer>>
    BY <1>3 DEF on_answer_created, client
  <2>2. n \in Peer /\ n <= localpc /\ recvbin # 0
    BY <2>1 DEF AnyInv, FirstOffer
  <2>3. toPage' \in Seq(Message) /\ MadeUpTo(toPage', localpc)
    BY <2>1, <2>2, ToPageMade
  <2>4. /\ TheWatchGetsItsOwn'
        /\ strays' \subseteq [what : {"local", "offer", "answer", "server ice", "page ice"},
                              of : Peer, at : Peer]
    BY <2>1, <2>2, GivenToATalk
  <2>5. \A m \in Peer : m # n => bin'[m] = bin[m]
    BY <1>1, <2>1 DEF TypeOK
  <2>6. \A m \in Peer : m > localpc => m # n
    BY <2>2
  <2>7. TypeOK'
    BY <1>1, <2>1, <2>3, <2>4 DEF TypeOK
  <2>8. MadeSoFar'
    BY <2>1, <2>3, <2>5, <2>6 DEF AnyInv, MadeSoFar, Chosen
  <2>9. FirstOffer'
    BY <2>1, <2>2 DEF AnyInv, FirstOffer
  <2> QED BY <2>4, <2>7, <2>8, <2>9 DEF AnyInv
<1>4. ASSUME NEW n \in Peer, on_ice_candidate_cb(n) PROVE AnyInv'
  <2>1. /\ bin[n] = "described" /\ gathered["server"][n] < MaxIce
        /\ gathered' = [gathered EXCEPT !["server"][n] = @ + 1]
        /\ toPage' = Append(toPage, Msg("ice", n))
        /\ UNCHANGED <<bin, recvbin, recvpipe, pc, localpc, capturing, toServer, strays>>
    BY <1>4 DEF on_ice_candidate_cb, client, server
  <2>2. toPage' \in Seq(Message) /\ MadeUpTo(toPage', localpc)
    BY <2>1, ToPageMade
  <2>3. gathered' \in [{"server", "page"} -> [Peer -> 0..MaxIce]]
    BY <1>1, <2>1, Gathers DEF TypeOK
  <2>4. TypeOK'
    BY <1>1, <2>1, <2>2, <2>3 DEF TypeOK
  <2>5. MadeSoFar'
    BY <2>1, <2>2 DEF AnyInv, MadeSoFar, Chosen
  <2>6. FirstOffer' /\ TheWatchGetsItsOwn'
    BY <2>1 DEF AnyInv, FirstOffer, TheWatchGetsItsOwn
  <2> QED BY <2>4, <2>5, <2>6 DEF AnyInv
<1> QED BY <1>2, <1>3, <1>4 DEF BinStep

LEMMA AnyServer == ASSUME AnyInv, ServerStep PROVE AnyInv'
<1> USE PeerFacts, Made
<1>1. TypeOK /\ toServer \in Seq(Message) /\ MadeUpTo(toServer, localpc) /\ OffersOfTalks(toServer)
  BY DEF AnyInv, TypeOK, MadeSoFar, FirstOffer
<1>2. /\ toServer # <<>> /\ toServer' = Tail(toServer)
      /\ UNCHANGED <<pc, localpc, capturing, gathered, toPage>>
  BY DEF ServerStep, ReadAnswer, ReadOffer, ReadTalkStop, ReadIce, ServerReads, client
<1>3. /\ toServer' \in Seq(Message) /\ Head(toServer) \in Message
      /\ \A k : k # Head(toServer).what /\ Holds(toServer, k) => Holds(toServer', k)
  BY <1>1, <1>2, AfterRead
<1>4. MadeUpTo(toServer', localpc) /\ Head(toServer).of <= localpc
  BY <1>1, <1>2, MadeReads
<1>5. /\ OffersOfTalks(toServer')
      /\ Head(toServer).what = "offer" => Head(toServer).of # 0
      /\ TalkIceBehind(toServer) /\ Head(toServer).what = "ice" => Head(toServer).of = 0
      /\ TalkIceBehind(toServer) /\ Head(toServer).what # "offer" => TalkIceBehind(toServer')
  BY <1>1, <1>2, TalkReads
<1>6. Head(toServer).of \in Peer
  BY <1>3 DEF Message
<1>7. CASE ReadAnswer \/ ReadIce
  <2>1. /\ Head(toServer).what # "offer" /\ UNCHANGED <<bin, recvbin, recvpipe>>
    BY <1>7 DEF ReadAnswer, ReadIce, ServerReads, server
  <2>2. /\ TheWatchGetsItsOwn'
        /\ strays' \subseteq [what : {"local", "offer", "answer", "server ice", "page ice"},
                              of : Peer, at : Peer]
    <3>1. CASE ReadAnswer
      BY <3>1 DEF ReadAnswer, AnyInv, TypeOK, TheWatchGetsItsOwn
    <3>2. CASE ReadIce
      <4>1. Given("server ice", Head(toServer).of, recvbin) /\ Head(toServer).what = "ice"
        BY <3>2 DEF ReadIce, ServerReads
      <4>2. Head(toServer).of # 0 => recvbin # 0
        BY <1>5, <4>1 DEF AnyInv, FirstOffer
      <4> QED BY <1>6, <4>1, <4>2, GivenToATalk
    <3> QED BY <1>7, <3>1, <3>2
  <2>3. TypeOK'
    BY <1>1, <1>2, <1>3, <2>1, <2>2 DEF TypeOK
  <2>4. MadeSoFar'
    BY <1>2, <1>4, <2>1 DEF AnyInv, MadeSoFar, Chosen
  <2>5. FirstOffer'
    BY <1>2, <1>3, <1>5, <2>1 DEF AnyInv, FirstOffer
  <2> QED BY <2>2, <2>3, <2>4, <2>5 DEF AnyInv
<1>8. CASE ReadOffer
  <2>1. /\ Head(toServer).what = "offer" /\ UNCHANGED strays
        /\ recvbin' = Head(toServer).of /\ recvpipe' = Head(toServer).of
        /\ bin' = [bin EXCEPT ![Head(toServer).of] = "asked"]
    BY <1>8 DEF ReadOffer, ServerReads
  <2>2. \A n \in Peer : n # Head(toServer).of => bin'[n] = bin[n]
    BY <1>1, <1>6, <2>1 DEF TypeOK
  <2>3. \A n \in Peer : n > localpc => n # Head(toServer).of
    BY <1>4
  <2>4. TypeOK'
    BY <1>1, <1>2, <1>3, <1>6, <2>1 DEF TypeOK
  <2>5. MadeSoFar'
    BY <1>2, <1>4, <2>1, <2>2, <2>3 DEF AnyInv, MadeSoFar, Chosen
  <2>6. FirstOffer' /\ TheWatchGetsItsOwn'
    BY <1>5, <2>1 DEF AnyInv, FirstOffer, TheWatchGetsItsOwn
  <2> QED BY <2>4, <2>5, <2>6 DEF AnyInv
<1>9. CASE ReadTalkStop
  <2>1. /\ Head(toServer).what = "talk stop" /\ recvpipe' = 0 /\ UNCHANGED <<recvbin, strays>>
        /\ bin' = IF recvpipe = 0 THEN bin ELSE [bin EXCEPT ![recvpipe] = "released"]
    BY <1>9 DEF ReadTalkStop, ServerReads
  <2>2. \A n \in Peer : n # recvpipe \/ recvpipe = 0 => bin'[n] = bin[n]
    BY <1>1, <2>1 DEF TypeOK
  <2>3. recvbin = 0 => recvpipe = 0
    BY DEF AnyInv, MadeSoFar
  <2>4. TypeOK'
    BY <1>1, <1>2, <1>3, <2>1 DEF TypeOK
  <2>5. MadeSoFar'
    BY <1>2, <1>4, <2>1, <2>2 DEF AnyInv, MadeSoFar, Chosen
  <2>6. FirstOffer' /\ TheWatchGetsItsOwn'
    BY <1>2, <1>3, <1>5, <2>1, <2>2, <2>3 DEF AnyInv, FirstOffer, TheWatchGetsItsOwn
  <2> QED BY <2>4, <2>5, <2>6 DEF AnyInv
<1> QED BY <1>7, <1>8, <1>9 DEF ServerStep

\* The page reads: what is of a talk finds localpc naming one.
LEMMA AnyPageReads ==
    ASSUME AnyInv, IncomingOffer \/ IncomingAnswer \/ IncomingIce PROVE AnyInv'
<1> USE PeerFacts, Made
<1>1. TypeOK /\ toPage \in Seq(Message) /\ MadeUpTo(toPage, localpc)
  BY DEF AnyInv, TypeOK, MadeSoFar
<1>2. /\ toPage # <<>> /\ toPage' = Tail(toPage)
      /\ UNCHANGED <<bin, recvbin, recvpipe, localpc, capturing, gathered>>
  BY DEF IncomingOffer, IncomingAnswer, IncomingIce, PageReads, server
<1>3. /\ toPage' \in Seq(Message) /\ Head(toPage) \in Message
      /\ MadeUpTo(toPage', localpc) /\ Head(toPage).of <= localpc
  BY <1>1, <1>2, MadeReads
<1>4. Head(toPage).of \in Peer
  BY <1>3 DEF Message
<1>5. Head(toPage).of # 0 => localpc # 0
  <2>1. ASSUME NEW n \in Peer, n <= localpc, n # 0 PROVE localpc # 0
    BY <2>1
  <2> QED BY <1>3, <1>4, <2>1
<1>6. CASE IncomingOffer
  <2>1. /\ pc' = [pc EXCEPT ![0] = "stable"] /\ UNCHANGED strays
        /\ toServer' = Append(toServer, Msg("answer", 0))
    BY <1>6 DEF IncomingOffer, onLocalDescription
  <2>2. /\ toServer' \in Seq(Message) /\ MadeUpTo(toServer', localpc)
        /\ OffersOfTalks(toServer') /\ (recvbin = 0 => TalkIceBehind(toServer'))
        /\ Holds(toServer, "offer") => Holds(toServer', "offer")
    BY <2>1, ToServerMade
  <2>3. \A n \in Peer : n # 0 => pc'[n] = pc[n]
    BY <1>1, <2>1 DEF TypeOK
  <2>4. TypeOK'
    BY <1>1, <1>2, <1>3, <2>1, <2>2 DEF TypeOK
  <2>5. MadeSoFar'
    BY <1>2, <1>3, <2>2, <2>3 DEF AnyInv, MadeSoFar, Chosen
  <2>6. FirstOffer' /\ TheWatchGetsItsOwn'
    BY <1>2, <2>1, <2>2, <2>3 DEF AnyInv, FirstOffer, TheWatchGetsItsOwn
  <2> QED BY <2>4, <2>5, <2>6 DEF AnyInv
<1>7. CASE IncomingAnswer
  <2>1. /\ pc' = [pc EXCEPT ![localpc] = IF @ = "offering" THEN "stable" ELSE @]
        /\ Given("answer", Head(toPage).of, localpc) /\ UNCHANGED toServer
    BY <1>7 DEF IncomingAnswer
  <2>2. /\ TheWatchGetsItsOwn'
        /\ strays' \subseteq [what : {"local", "offer", "answer", "server ice", "page ice"},
                              of : Peer, at : Peer]
    BY <1>4, <1>5, <2>1, GivenToATalk
  <2>3. \A n \in Peer : /\ n # localpc => pc'[n] = pc[n]
                        /\ pc'[n] \in {"offering", "stable"} => pc[n] \in {"offering", "stable"}
    BY <1>1, <2>1 DEF TypeOK
  <2>4. TypeOK'
    BY <1>1, <1>2, <1>3, <2>1, <2>2 DEF TypeOK
  <2>5. MadeSoFar'
    BY <1>2, <1>3, <2>1, <2>3 DEF AnyInv, MadeSoFar, Chosen
  <2>6. FirstOffer'
    BY <1>2, <2>1, <2>3 DEF AnyInv, FirstOffer
  <2> QED BY <2>2, <2>4, <2>5, <2>6 DEF AnyInv
<1>8. CASE IncomingIce
  <2>1. Given("page ice", Head(toPage).of, localpc) /\ UNCHANGED <<pc, toServer>>
    BY <1>8 DEF IncomingIce
  <2>2. /\ TheWatchGetsItsOwn'
        /\ strays' \subseteq [what : {"local", "offer", "answer", "server ice", "page ice"},
                              of : Peer, at : Peer]
    BY <1>4, <1>5, <2>1, GivenToATalk
  <2>3. TypeOK'
    BY <1>1, <1>2, <1>3, <2>1, <2>2 DEF TypeOK
  <2>4. MadeSoFar' /\ FirstOffer'
    BY <1>2, <1>3, <2>1 DEF AnyInv, MadeSoFar, FirstOffer, Chosen
  <2> QED BY <2>2, <2>3, <2>4 DEF AnyInv
<1> QED BY <1>6, <1>7, <1>8

\* A connection gathers at the page; a talk's has sent its offer before.
LEMMA AnyPageIce == ASSUME AnyInv, NEW n \in Peer, onIceCandidate(n) PROVE AnyInv'
<1> USE PeerFacts, Made
<1>1. TypeOK
  BY DEF AnyInv
<1>2. /\ pc[n] \in {"offering", "stable"} /\ gathered["page"][n] < MaxIce
      /\ gathered' = [gathered EXCEPT !["page"][n] = @ + 1]
      /\ toServer' = Append(toServer, Msg("ice", n))
      /\ UNCHANGED <<bin, recvbin, recvpipe, pc, localpc, capturing, toPage, strays>>
  BY DEF onIceCandidate, client, server
<1>3. recvbin = 0 /\ n # 0 => Holds(toServer, "offer")
  BY <1>2 DEF AnyInv, FirstOffer
<1>4. /\ toServer' \in Seq(Message) /\ MadeUpTo(toServer', localpc)
      /\ OffersOfTalks(toServer') /\ (recvbin = 0 => TalkIceBehind(toServer'))
      /\ Holds(toServer, "offer") => Holds(toServer', "offer")
  BY <1>2, <1>3, ToServerMade
<1>5. gathered' \in [{"server", "page"} -> [Peer -> 0..MaxIce]]
  BY <1>1, <1>2, Gathers DEF TypeOK
<1>6. TypeOK'
  BY <1>1, <1>2, <1>4, <1>5 DEF TypeOK
<1>7. MadeSoFar'
  BY <1>2, <1>4 DEF AnyInv, MadeSoFar, Chosen
<1>8. FirstOffer' /\ TheWatchGetsItsOwn'
  BY <1>2, <1>4 DEF AnyInv, FirstOffer, TheWatchGetsItsOwn
<1> QED BY <1>6, <1>7, <1>8 DEF AnyInv

\* A camera resolves or is refused, and an offer is created, in any order.
LEMMA AnySender ==
    ASSUME AnyInv, createSender \/ captureError \/ \E n \in Talk : offerCreated(n)
    PROVE  AnyInv'
<1> USE PeerFacts, Made
<1>1. TypeOK /\ capturing \in Nat
  <2>1. TypeOK /\ capturing \in 0..MaxTalk
    BY DEF AnyInv, TypeOK
  <2> QED BY <2>1, MaxTalkAssumption
<1>2. CASE createSender
  <2>1. /\ capturing > 0 /\ capturing' = capturing - 1 /\ localpc' = localpc + 1
        /\ pc' = [pc EXCEPT ![localpc'] = "creating"]
        /\ UNCHANGED <<bin, recvbin, recvpipe, gathered, toServer, toPage, strays>>
    BY <1>2 DEF createSender, server
  <2>2. localpc + capturing <= MaxTalk
    BY DEF AnyInv, MadeSoFar, Chosen
  <2>3. /\ localpc' \in Peer /\ localpc' \in Nat /\ localpc <= localpc'
        /\ localpc' + capturing' <= MaxTalk /\ capturing' \in 0..MaxTalk
    BY <1>1, <2>1, <2>2, MaxTalkAssumption DEF Peer
  <2>4. \A n \in Peer : n # localpc' => pc'[n] = pc[n]
    BY <1>1, <2>1, <2>3 DEF TypeOK
  <2>5. pc' \in [Peer -> {"absent", "new", "creating", "offering", "stable"}]
    BY <1>1, <2>1 DEF TypeOK
  <2>6. TypeOK'
    BY <1>1, <2>1, <2>3, <2>5 DEF TypeOK
  <2>7. MadeUpTo(toServer', localpc') /\ MadeUpTo(toPage', localpc')
    <3>1. \A q \in Seq(Message) : MadeUpTo(q, localpc) => MadeUpTo(q, localpc')
      <4> SUFFICES ASSUME NEW q \in Seq(Message), MadeUpTo(q, localpc),
                          NEW i \in 1..Len(q)
                   PROVE  q[i].of <= localpc'
        BY DEF MadeUpTo
      <4>1. q[i] \in Message /\ q[i].of <= localpc
        BY DEF MadeUpTo
      <4>2. q[i].of \in Nat
        BY <4>1 DEF Message
      <4> QED BY <2>3, <4>1, <4>2
    <3> QED BY <1>1, <2>1, <3>1 DEF AnyInv, MadeSoFar, TypeOK
  <2>8. MadeSoFar'
    <3>1. ASSUME NEW n \in Peer, n > localpc' PROVE n > localpc /\ n # localpc'
      BY <2>3, <3>1
    <3>2. recvbin' <= localpc'
      BY <2>1, <2>3 DEF AnyInv, MadeSoFar
    <3> QED BY <2>1, <2>3, <2>4, <2>7, <3>1, <3>2 DEF AnyInv, MadeSoFar, Chosen
  <2>9. FirstOffer' /\ TheWatchGetsItsOwn'
    <3>1. \A n \in Talk : pc'[n] \in {"offering", "stable"} => pc'[n] = pc[n]
      BY <1>1, <2>1, <2>3 DEF TypeOK
    <3> QED BY <2>1, <3>1 DEF AnyInv, FirstOffer, TheWatchGetsItsOwn
  <2> QED BY <2>6, <2>8, <2>9 DEF AnyInv
<1>3. CASE captureError
  <2>1. /\ capturing > 0 /\ capturing' = capturing - 1
        /\ UNCHANGED <<bin, recvbin, recvpipe, pc, localpc, gathered, toServer, toPage, strays>>
    BY <1>3 DEF captureError, server
  <2>2. localpc + capturing <= MaxTalk
    BY DEF AnyInv, MadeSoFar, Chosen
  <2>3. localpc' + capturing' <= MaxTalk /\ capturing' \in 0..MaxTalk
    BY <1>1, <2>1, <2>2, MaxTalkAssumption
  <2>4. TypeOK'
    BY <1>1, <2>1, <2>3 DEF TypeOK
  <2>5. MadeSoFar'
    BY <2>1, <2>3 DEF AnyInv, MadeSoFar, Chosen
  <2>6. FirstOffer' /\ TheWatchGetsItsOwn'
    BY <2>1 DEF AnyInv, FirstOffer, TheWatchGetsItsOwn
  <2> QED BY <2>4, <2>5, <2>6 DEF AnyInv
<1>4. ASSUME NEW n \in Talk, offerCreated(n) PROVE AnyInv'
  <2>1. /\ pc[n] = "creating"
        /\ pc' = [pc EXCEPT ![n] = IF n = localpc THEN "offering" ELSE "new"]
        /\ Given("offer", n, localpc) /\ toServer' = Append(toServer, Msg("offer", n))
        /\ UNCHANGED <<bin, recvbin, recvpipe, localpc, capturing, gathered, toPage>>
    BY <1>4 DEF offerCreated, server
  <2>2. n \in Peer /\ n # 0 /\ n <= localpc /\ localpc # 0
    BY <2>1
  <2>3. /\ toServer' \in Seq(Message) /\ MadeUpTo(toServer', localpc)
        /\ OffersOfTalks(toServer') /\ (recvbin = 0 => TalkIceBehind(toServer'))
        /\ Holds(toServer', "offer")
    BY <2>1, <2>2, ToServerMade
  <2>4. /\ TheWatchGetsItsOwn'
        /\ strays' \subseteq [what : {"local", "offer", "answer", "server ice", "page ice"},
                              of : Peer, at : Peer]
    BY <2>1, <2>2, GivenToATalk
  <2>5. ASSUME NEW m \in Peer, m > localpc PROVE pc'[m] = pc[m]
    <3>1. m # n
      BY <2>2, <2>5
    <3> QED BY <1>1, <2>1, <3>1 DEF TypeOK
  <2>6. TypeOK'
    BY <1>1, <2>1, <2>3, <2>4 DEF TypeOK
  <2>7. MadeSoFar'
    BY <2>1, <2>3, <2>5 DEF AnyInv, MadeSoFar, Chosen
  <2>8. FirstOffer'
    BY <2>1, <2>3 DEF AnyInv, FirstOffer
  <2> QED BY <2>4, <2>6, <2>7, <2>8 DEF AnyInv
<1> QED BY <1>2, <1>3, <1>4

\* A stop goes out at any time.
LEMMA AnyStop == ASSUME AnyInv, Choose \/ oniceconnectionstatechange PROVE AnyInv'
<1> USE PeerFacts, Made
<1>1. TypeOK /\ capturing \in Nat
  <2>1. TypeOK /\ capturing \in 0..MaxTalk
    BY DEF AnyInv, TypeOK
  <2> QED BY <2>1, MaxTalkAssumption
<1>2. /\ toServer' = Append(toServer, Msg("talk stop", 0))
      /\ UNCHANGED <<bin, recvbin, recvpipe, pc, localpc, gathered, toPage, strays>>
  BY DEF Choose, selectVideoSize, oniceconnectionstatechange, stopLocalMedia, server, client
<1>3. capturing' = capturing \/ (localpc + capturing < MaxTalk /\ capturing' = capturing + 1)
  BY DEF Choose, selectVideoSize, oniceconnectionstatechange, client, Chosen
<1>4. localpc + capturing <= MaxTalk /\ capturing <= MaxTalk
  BY <1>1, MaxTalkAssumption DEF AnyInv, MadeSoFar, Chosen
<1>5. localpc' + capturing' <= MaxTalk /\ capturing' \in 0..MaxTalk
  <2>1. CASE capturing' = capturing
    <3>1. localpc + capturing <= MaxTalk /\ capturing \in 0..MaxTalk
      BY <1>1, <1>4, MaxTalkAssumption
    <3> QED BY <1>2, <2>1, <3>1
  <2>2. CASE localpc + capturing < MaxTalk /\ capturing' = capturing + 1
    <3>1. localpc + (capturing + 1) <= MaxTalk /\ capturing + 1 \in 0..MaxTalk
      BY <1>1, <2>2, MaxTalkAssumption
    <3> QED BY <1>2, <2>2, <3>1
  <2> QED BY <1>3, <2>1, <2>2
<1>6. /\ toServer' \in Seq(Message) /\ MadeUpTo(toServer', localpc)
      /\ OffersOfTalks(toServer') /\ (recvbin = 0 => TalkIceBehind(toServer'))
      /\ Holds(toServer, "offer") => Holds(toServer', "offer")
  BY <1>2, ToServerMade
<1>7. TypeOK'
  BY <1>1, <1>2, <1>5, <1>6 DEF TypeOK
<1>8. MadeSoFar'
  BY <1>2, <1>5, <1>6 DEF AnyInv, MadeSoFar, Chosen
<1>9. FirstOffer' /\ TheWatchGetsItsOwn'
  BY <1>2, <1>6 DEF AnyInv, FirstOffer, TheWatchGetsItsOwn
<1> QED BY <1>7, <1>8, <1>9 DEF AnyInv

LEMMA AnyInit == Init => AnyInv
<1> SUFFICES ASSUME Init PROVE AnyInv
  OBVIOUS
<1>1. TypeOK /\ TheWatchGetsItsOwn
  BY InitInv DEF PatientInv, TheWatchGetsItsOwn
<1>2. /\ MadeUpTo(<<>>, 0) /\ OffersOfTalks(<<>>) /\ TalkIceBehind(<<>>)
  BY DEF MadeUpTo, OffersOfTalks, TalkIceBehind
<1>3. /\ recvbin = 0 /\ recvpipe = 0 /\ localpc = 0 /\ capturing = 0
      /\ toServer = <<>> /\ toPage = <<>>
      /\ \A n \in Peer : n # 0 => bin[n] = "absent" /\ pc[n] = "absent"
  BY DEF Init
<1>4. MadeSoFar
  <2>1. \A n \in Peer : n > 0 => n # 0
    BY PeerFacts
  <2> QED BY <1>2, <1>3, <2>1, MaxTalkAssumption DEF MadeSoFar, Chosen
<1>5. FirstOffer
  BY <1>2, <1>3, PeerFacts DEF FirstOffer
<1> QED BY <1>1, <1>4, <1>5 DEF AnyInv

LEMMA AnyStep == AnyInv /\ [Next]_vars => AnyInv'
<1> SUFFICES ASSUME AnyInv, [Next]_vars PROVE AnyInv'
  OBVIOUS
<1>1. CASE BinStep \/ ServerStep
  BY <1>1, AnyBin, AnyServer
<1>2. CASE PageStep
  BY <1>2, AnyPageReads, AnyPageIce, AnySender DEF PageStep
<1>3. CASE Choose \/ oniceconnectionstatechange
  BY <1>3, AnyStop
<1>4. CASE UNCHANGED vars
  BY <1>4 DEF vars, server, client, AnyInv, TypeOK, MadeSoFar, FirstOffer, TheWatchGetsItsOwn, Chosen
<1> QED BY <1>1, <1>2, <1>3, <1>4 DEF Next

LEMMA AlwaysAny == Spec => []AnyInv
  BY AnyInit, AnyStep, PTL DEF Spec

\* However a user clicks, and in whatever order cameras and createOffers are
\* answered, pointers name connections made so far: recv.recvbin is never ahead
\* of localpc, nor is a message of a connection the page has not made (also when
\* a size is chosen while getUserMedia is pending, webrtc.js, selectVideoSize).
THEOREM PointersNameWhatWasMade == Spec => [](TypeOK /\ MadeSoFar)
<1>1. AnyInv => TypeOK /\ MadeSoFar
  BY DEF AnyInv
<1> QED BY <1>1, AlwaysAny, PTL

\* An impatient user's messages, and those behind an offer that resolves late,
\* may reach a talk they are not of (talk_any), but nothing of a talk ever
\* reaches the watch (on_answer_created, onIncomingSDP, onIncomingICE, and the
\* "ice" branch of soup_websocket_message_cb).
THEOREM TheWatchGetsNothingForeign == Spec => []TheWatchGetsItsOwn
<1>1. AnyInv => TheWatchGetsItsOwn
  BY DEF AnyInv
<1> QED BY <1>1, AlwaysAny, PTL
=============================================================================
