------------------------------ MODULE WatchPage ------------------------------
(***************************************************************************)
(* A page of webrtc-sendonly (main.js) and its sessions in the server      *)
(* (webrtc-sendonly.c).  playStream makes a peer connection and a web      *)
(* socket, numbered together here, and puts both in global variables;      *)
(* timers call it again when a socket fails or closes.  Handlers and       *)
(* promises of an older connection go on running and use the globals of    *)
(* the moment.  An ICE candidate or a description is the number of the     *)
(* connection it is of.                                                    *)
(***************************************************************************)
EXTENDS Naturals, Sequences, FiniteSets

CONSTANTS MaxConn, \* bound on the calls of playStream
          MaxLoss, \* bound on the sockets the network loses
          MaxIce   \* bound on the candidates one end of a connection gathers

ASSUME MaxConnAssumption == MaxConn \in Nat
ASSUME MaxLossAssumption == MaxLoss \in Nat
ASSUME MaxIceAssumption == MaxIce \in Nat

Conn == 1..MaxConn

VARIABLES
    made,      \* calls of playStream: the globals name connection made
    thens,     \* connections whose promise is unresolved and, when it is
               \* resolved, clears reconnectTimerId
    ws,        \* the page's end of each socket
    pc,        \* RTCPeerConnections: the offer set, and the offer answered
    neg,       \* the promise chain begun by each session's offer
    timers,    \* setTimeout calls of playStream that are due
    reconnectTimerId, \* {} or the one timer it names
    sess,      \* the server's ReceiverEntry of each socket
    broken,    \* sockets the network has lost
    losses,    \* how many
    gathered,  \* candidates gathered at each end of a connection
    toServer, toPage, \* the two directions of each socket
    strays     \* descriptions and candidates given to another connection

reconnect == <<thens, timers, reconnectTimerId>>
peer      == <<pc, neg>>
wire      == <<toServer, toPage>>
network   == <<broken, losses>>
vars == <<made, reconnect, ws, peer, sess, network, gathered, wire, strays>>

NoConn == 0..MaxConn
Message == [what : {"offer", "answer", "ice"}, of : NoConn]
Msg(what, n) == [what |-> what, of |-> n]
Timer == [of : Conn, by : {"catch", "close"}, waits : SUBSET Conn]
Idle == [stage |-> "idle", at |-> 0, to |-> 0]

\* The globals name the last connection made; a timer is named while it is due
\* or after it has fired.
TypeOK ==
    /\ made \in NoConn /\ thens \subseteq 1..made
    /\ ws \in [Conn -> {"none", "connecting", "open", "closed"}]
    /\ \A n \in Conn : ws[n] = "none" <=> n > made
    /\ pc \in [Conn -> [offer : NoConn, answered : NoConn]]
    /\ neg \in [Conn -> [stage : {"idle", "remote", "answer", "local"},
                         at : NoConn, to : NoConn]]
    /\ timers \subseteq Timer
    /\ reconnectTimerId \subseteq Timer /\ Cardinality(reconnectTimerId) <= 1
    /\ sess \in [Conn -> {"none", "new", "offered", "answered", "gone"}]
    /\ broken \subseteq 1..made /\ losses \in 0..MaxLoss
    /\ gathered \in [{"server", "page"} -> [Conn -> 0..MaxIce]]
    /\ toServer \in [Conn -> Seq(Message)] /\ toPage \in [Conn -> Seq(Message)]
    /\ strays \subseteq [what : {"offer", "answer", "server ice", "page ice"},
                         of : NoConn, at : NoConn]

Init ==
    /\ made = 0 /\ thens = {}
    /\ ws = [n \in Conn |-> "none"]
    /\ pc = [n \in Conn |-> [offer |-> 0, answered |-> 0]]
    /\ neg = [n \in Conn |-> Idle]
    /\ timers = {} /\ reconnectTimerId = {}
    /\ sess = [n \in Conn |-> "none"]
    /\ broken = {} /\ losses = 0
    /\ gathered = [side \in {"server", "page"} |-> [n \in Conn |-> 0]]
    /\ toServer = [n \in Conn |-> <<>>] /\ toPage = [n \in Conn |-> <<>>]
    /\ strays = {}

Stray(what, n, at) ==
    strays' = IF at = n THEN strays ELSE strays \cup {[what |-> what, of |-> n, at |-> at]}

Alive(n) == sess[n] \in {"new", "offered", "answered"}
-----------------------------------------------------------------------------
(* The page: connections and timers. *)

\* playStream: createWebrtcRecv, then a socket; `then` says whether its caller
\* gave it the continuation that clears reconnectTimerId.
playStream(then) ==
    /\ made < MaxConn
    /\ made' = made + 1
    /\ ws' = [ws EXCEPT ![made'] = "connecting"]
    /\ thens' = IF then THEN thens \cup {made'} ELSE thens
    /\ UNCHANGED <<peer, reconnectTimerId, sess, network, gathered, wire, strays>>

\* The button is disabled by its first click.
startWatch ==
    /\ made = 0
    /\ playStream(TRUE)
    /\ UNCHANGED timers

\* Mutant: the timer of the close listener is an interval.
ReconnectRepeats(t) ==
    /\ t \in timers
    /\ \A n \in t.waits : neg[n].stage = "idle"
    /\ playStream(t.by = "close")
    /\ UNCHANGED timers

\* Mutant: no delay before the reconnection.
ReconnectAtOnce(t) ==
    /\ t \in timers
    /\ timers' = timers \ {t}
    /\ playStream(t.by = "close")

\* A reconnect timer fires.  What was pending when it was set has settled in
\* its five seconds.  Only the close listener's playStream has a continuation.
Reconnect(t) ==
    /\ t \in timers
    /\ \A n \in t.waits : neg[n].stage = "idle"
    /\ timers' = timers \ {t}
    /\ playStream(t.by = "close")

\* onopen resolves the promise; its continuation runs before any other event.
onopen(n) ==
    /\ ws[n] = "connecting" /\ sess[n] # "none"
    /\ ws' = [ws EXCEPT ![n] = "open"]
    /\ thens' = thens \ {n}
    /\ timers' = IF n \in thens THEN timers \ reconnectTimerId ELSE timers
    /\ UNCHANGED <<made, reconnectTimerId, peer, sess, network, gathered, wire, strays>>

NewTimer(n, by) ==
    [of |-> n, by |-> by, waits |-> {m \in Conn : neg[m].stage # "idle"}]

\* Mutant: the ids of old timers are kept.
ClosedKeepsIds(n) ==
    /\ n \in broken /\ ws[n] \in {"connecting", "open"}
    /\ ws' = [ws EXCEPT ![n] = "closed"]
    /\ toPage' = [toPage EXCEPT ![n] = <<>>]
    /\ timers' = timers \cup {NewTimer(n, "close")}
    /\ reconnectTimerId' = reconnectTimerId \cup {NewTimer(n, "close")}
    /\ UNCHANGED <<made, thens, peer, sess, network, gathered, toServer, strays>>

\* The close listener; on a socket that never opened onerror comes first, and
\* the click's own socket then has a timer from its catch as well.
Closed(n) ==
    /\ n \in broken /\ ws[n] \in {"connecting", "open"}
    /\ ws' = [ws EXCEPT ![n] = "closed"]
    /\ toPage' = [toPage EXCEPT ![n] = <<>>]
    /\ timers' = timers \cup {NewTimer(n, "close")} \cup
                 (IF n = 1 /\ ws[n] = "connecting" THEN {NewTimer(n, "catch")} ELSE {})
    /\ reconnectTimerId' = {NewTimer(n, "close")}
    /\ UNCHANGED <<made, thens, peer, sess, network, gathered, toServer, strays>>
-----------------------------------------------------------------------------
(* The page: messages and promises, all through the globals. *)

\* send throws on a connecting socket and drops on a closed one.
Send(m) ==
    IF ws[made] = "open" /\ made \notin broken
    THEN toServer' = [toServer EXCEPT ![made] = Append(@, m)]
    ELSE UNCHANGED toServer

PageReads(n, what) ==
    /\ ws[n] = "open" /\ toPage[n] # <<>>
    /\ Head(toPage[n]).what = what
    /\ toPage' = [toPage EXCEPT ![n] = Tail(@)]
    /\ UNCHANGED <<made, reconnect, ws, pc, sess, network, gathered, toServer>>

\* Mutant: the first socket alone has a message listener.
OfferOnFirstSocket(n) ==
    /\ n = 1
    /\ PageReads(n, "offer")
    /\ neg' = [neg EXCEPT ![n] = [stage |-> "remote", at |-> made, to |-> 0]]
    /\ Stray("offer", n, made)

\* onIncomingSDP up to its await.
onIncomingSDP(n) ==
    /\ PageReads(n, "offer")
    /\ neg' = [neg EXCEPT ![n] = [stage |-> "remote", at |-> made, to |-> 0]]
    /\ Stray("offer", n, made)

\* onIncomingSDP after its await: createAnswer is asked of the connection of
\* the moment, and refused without an unanswered offer.
CreateAnswer(n) ==
    /\ neg[n].stage = "remote"
    /\ pc' = [pc EXCEPT ![neg[n].at].offer = n, ![neg[n].at].answered = 0]
    /\ neg' = [neg EXCEPT ![n] =
                 IF pc'[made].offer # 0 /\ pc'[made].answered = 0
                 THEN [stage |-> "answer", at |-> made, to |-> pc'[made].offer] ELSE Idle]
    /\ UNCHANGED <<made, reconnect, ws, sess, network, gathered, wire, strays>>

Takes(p, answer) ==
    p = answer.at /\ pc[p].offer = answer.to /\ pc[p].answered = 0

\* onLocalDescription up to its await: an answer is refused by a connection
\* that did not make it.
onLocalDescription(n) ==
    /\ neg[n].stage = "answer"
    /\ neg' = [neg EXCEPT ![n] = IF Takes(made, @) THEN [@ EXCEPT !.stage = "local"] ELSE Idle]
    /\ UNCHANGED <<made, reconnect, ws, pc, sess, network, gathered, wire, strays>>

\* onLocalDescription after its await: the description sent is that of the
\* connection of the moment, null (0) if it has none.
SendAnswer(n) ==
    /\ neg[n].stage = "local"
    /\ neg' = [neg EXCEPT ![n] = Idle]
    /\ IF Takes(neg[n].at, neg[n])
       THEN /\ pc' = [pc EXCEPT ![neg[n].at].answered = neg[n].to]
            /\ Send(Msg("answer", pc'[made].answered))
       ELSE UNCHANGED <<pc, toServer>>
    /\ UNCHANGED <<made, reconnect, ws, sess, network, gathered, toPage, strays>>

onIncomingICE(n) ==
    /\ PageReads(n, "ice")
    /\ Stray("server ice", n, made)
    /\ UNCHANGED neg

\* A connection gathers once its answer is set.
onIceCandidate(p) ==
    /\ pc[p].answered # 0 /\ gathered["page"][p] < MaxIce
    /\ gathered' = [gathered EXCEPT !["page"][p] = @ + 1]
    /\ Send(Msg("ice", p))
    /\ UNCHANGED <<made, reconnect, ws, peer, sess, network, toPage, strays>>
-----------------------------------------------------------------------------
(* The server: its main loop and the webrtcbins' threads. *)

\* soup_websocket_handler and create_receiver_entry.
soup_websocket_handler(n) ==
    /\ ws[n] = "connecting" /\ n \notin broken /\ sess[n] = "none"
    /\ sess' = [sess EXCEPT ![n] = "new"]
    /\ UNCHANGED <<made, reconnect, ws, peer, network, gathered, wire, strays>>

Tell(n, m) ==
    IF n \in broken THEN UNCHANGED toPage ELSE toPage' = [toPage EXCEPT ![n] = Append(@, m)]

on_offer_created_cb(n) ==
    /\ sess[n] = "new"
    /\ sess' = [sess EXCEPT ![n] = "offered"]
    /\ Tell(n, Msg("offer", n))
    /\ UNCHANGED <<made, reconnect, ws, peer, network, gathered, toServer, strays>>

on_ice_candidate_cb(n) ==
    /\ sess[n] \in {"offered", "answered"} /\ gathered["server"][n] < MaxIce
    /\ gathered' = [gathered EXCEPT !["server"][n] = @ + 1]
    /\ Tell(n, Msg("ice", n))
    /\ UNCHANGED <<made, reconnect, ws, peer, sess, network, toServer, strays>>

ServerReads(n, what) ==
    /\ Alive(n) /\ toServer[n] # <<>>
    /\ Head(toServer[n]).what = what
    /\ UNCHANGED <<made, reconnect, ws, peer, losses, gathered, toPage>>

\* soup_websocket_message_cb: null data is a g_error, which ends the process
\* and with it every session.  An answer to an answered session is a stray.
ReadAnswer(n) ==
    /\ ServerReads(n, "answer")
    /\ LET of == Head(toServer[n]).of
       IN  /\ Stray("answer", of, IF sess[n] = "offered" \/ of = 0 THEN n ELSE 0)
           /\ IF of = 0
              THEN /\ sess' = [m \in Conn |-> IF Alive(m) THEN "gone" ELSE sess[m]]
                   /\ broken' = broken \cup {m \in Conn : Alive(m)}
                   /\ toServer' = [m \in Conn |-> <<>>]
              ELSE /\ sess' = [sess EXCEPT ![n] = "answered"]
                   /\ toServer' = [toServer EXCEPT ![n] = Tail(@)]
                   /\ UNCHANGED broken

ReadIce(n) ==
    /\ ServerReads(n, "ice")
    /\ toServer' = [toServer EXCEPT ![n] = Tail(@)]
    /\ Stray("page ice", Head(toServer[n]).of, n)
    /\ UNCHANGED <<sess, broken>>

\* soup_websocket_closed_cb and destroy_receiver_entry.
soup_websocket_closed_cb(n) ==
    /\ n \in broken /\ Alive(n)
    /\ sess' = [sess EXCEPT ![n] = "gone"]
    /\ toServer' = [toServer EXCEPT ![n] = <<>>]
    /\ UNCHANGED <<made, reconnect, ws, peer, network, gathered, toPage, strays>>

\* The network, or a server that is down, loses a socket; each end learns of
\* it later and by itself.
Lose(n) ==
    /\ ws[n] \in {"connecting", "open"} /\ n \notin broken
    /\ losses < MaxLoss
    /\ losses' = losses + 1 /\ broken' = broken \cup {n}
    /\ UNCHANGED <<made, reconnect, ws, peer, sess, gathered, wire, strays>>
-----------------------------------------------------------------------------
PageStep ==
    \/ \E t \in timers : Reconnect(t)
    \/ \E n \in Conn : \/ onopen(n) \/ Closed(n) \/ onIncomingSDP(n) \/ CreateAnswer(n)
                       \/ onLocalDescription(n) \/ SendAnswer(n)
                       \/ onIncomingICE(n) \/ onIceCandidate(n)

ServerStep ==
    \E n \in Conn : \/ soup_websocket_handler(n) \/ on_offer_created_cb(n)
                    \/ on_ice_candidate_cb(n) \/ ReadAnswer(n) \/ ReadIce(n)
                    \/ soup_websocket_closed_cb(n)

Next == startWatch \/ PageStep \/ ServerStep \/ \E n \in Conn : Lose(n)

\* The event loop of a page that stays open and the server's threads run on;
\* nothing makes the user click or the network lose a socket.
Spec == Init /\ [][Next]_vars /\ WF_vars(PageStep) /\ WF_vars(ServerStep)
-----------------------------------------------------------------------------
\* The click's own socket never opened: both its catch and its close listener
\* have set a timer.
FirstTryFailed == 1 \in thens /\ ws[1] = "closed"

Due == Cardinality({n \in Conn : ws[n] \in {"connecting", "open"}}) + Cardinality(timers)

\* A page that has clicked is never stranded, and losses never multiply its
\* connections: there is one socket or one timer for the next, and two at most
\* after a first try that failed (main.js 245 and 552 each set a timer).
NeverStrandedNorMultiplied ==
    made > 0 => Due \in 1..(IF FirstTryFailed THEN 2 ELSE 1)

\* Through any losses only the page's candidates go astray (those an old
\* connection still gathers, main.js 88): every offer and candidate of the
\* server reaches the connection it is for, every answer the session that
\* offered, once, and none is null, which would end the server (g_error).
OnlyOldCandidatesGoAstray ==
    FirstTryFailed \/ \A s \in strays : s.what = "page ice" /\ s.of < s.at

Watching ==
    /\ ws[made] = "open" /\ sess[made] = "answered"
    /\ pc[made].offer = made /\ pc[made].answered = made

\* Once the network stops losing sockets the page watches again for good, the
\* first connection or a later one.
WatchIsRestored == <>[](made > 0 => FirstTryFailed \/ Watching)
=============================================================================
