-------------------------- MODULE WatchPage_proofs --------------------------
(***************************************************************************)
(* Theorems about WatchPage, for any numbers of connections, losses and    *)
(* candidates.  Two invariants: CountInv follows sockets and timers, and   *)
(* OrderInv, while the click's own connection did not fail, what is under  *)
(* way between the page's connection of the moment and its session.        *)
(***************************************************************************)
EXTENDS WatchPage, FiniteSetTheorems, TLAPS

Busy == {n \in Conn : ws[n] \in {"connecting", "open"}}

\* One socket, of the last connection, or one timer for the next.
Single ==
    \/ Busy = {made} /\ timers = {}
    \/ Busy = {} /\ \E t \in Timer : timers = {t}

CountInv ==
    /\ IsFiniteSet(timers)
    /\ made = 0 => timers = {}
    /\ made > 0 /\ ws[1] = "connecting" => 1 \in thens
    /\ made > 0 => IF FirstTryFailed THEN Due \in 1..2 ELSE Single

\* A socket that opens has a session, which ends with the socket.
Ends ==
    \A n \in Conn : /\ ws[n] = "open" => sess[n] # "none"
                    /\ sess[n] = "gone" => n \in broken

\* Nothing is negotiated before a connection is made.
MadeFirst == \A n \in Conn : neg[n].stage # "idle" => made > 0

\* A session is of a socket that was made.
SessMade == \A n \in Conn : sess[n] # "none" => ws[n] # "none"

BaseInv == TypeOK /\ Ends /\ MadeFirst /\ SessMade

\* A promise chain is that of the last connection; a timer waits for it.
Pending ==
    \A n \in Conn :
        neg[n].stage # "idle" =>
            /\ n = made /\ neg[n].at = n
            /\ neg[n].stage \in {"answer", "local"} => neg[n].to = n
            /\ \A t \in timers : n \in t.waits

\* Only connections that were made are answered.
AnsweredMade == \A n \in Conn : pc[n].answered # 0 => n <= made

\* A queue holds at most one message of a kind, or has one.
AtMostOne(q, what) == \A i, j \in DOMAIN q : q[i].what = what /\ q[j].what = what => i = j
Has(q, what) == \E i \in DOMAIN q : q[i].what = what

\* The page answers the session it speaks to; candidates may be of an older one.
Near(q, n) ==
    \A i \in DOMAIN q : /\ q[i].what = "answer" => q[i].of = n
                        /\ q[i].what = "ice" => q[i].of <= n

ToServerIsNear == \A n \in Conn : Near(toServer[n], n)

\* A session's offer is in one place: on its way, in the promise chain, or
\* answered, with the answer on its way or read.
OnceOf(n) ==
    /\ AtMostOne(toPage[n], "offer") /\ AtMostOne(toServer[n], "answer")
    /\ neg[n].stage # "idle" => ~Has(toPage[n], "offer")
    /\ Has(toServer[n], "answer") =>
          ~Has(toPage[n], "offer") /\ neg[n].stage = "idle" /\ sess[n] = "offered"
    /\ sess[n] \in {"none", "new", "answered"} =>
          ~Has(toPage[n], "offer") /\ neg[n].stage = "idle"

Once == \A n \in Conn : OnceOf(n)

OnlyOld == \A s \in strays : s.what = "page ice" /\ s.of < s.at

Ordered == Pending /\ AnsweredMade /\ ToServerIsNear /\ Once /\ OnlyOld

OrderInv == ~FirstTryFailed => Ordered

WatchInv == BaseInv /\ CountInv /\ OrderInv
-----------------------------------------------------------------------------
Neg  == [stage : {"idle", "remote", "answer", "local"}, at : NoConn, to : NoConn]
Peer == [offer : NoConn, answered : NoConn]

\* The numbers of connections.
LEMMA ConnFacts ==
    ASSUME TypeOK
    PROVE  /\ made \in Nat /\ MaxConn \in Nat /\ made \in NoConn
           /\ \A n \in Conn : n \in Nat /\ n >= 1 /\ n \in NoConn
           /\ \A n \in Conn : ws[n] # "none" => n <= made
           /\ \A n \in Conn : n <= made => made \in Conn
           /\ \A n \in NoConn : n # 0 => n \in Conn
           /\ 0 \in NoConn
<1>1. MaxConn \in Nat /\ made \in NoConn /\ made \in Nat /\ made <= MaxConn /\ 0 \in NoConn
  <2>1. made \in NoConn
    BY DEF TypeOK
  <2> QED BY <2>1, MaxConnAssumption DEF NoConn
<1>2. \A n \in Conn : n \in Nat /\ n >= 1 /\ n <= MaxConn /\ n \in NoConn
  BY MaxConnAssumption DEF Conn, NoConn
<1>3. \A n \in NoConn : n # 0 => n \in Conn
  BY MaxConnAssumption DEF Conn, NoConn
<1>4. ASSUME NEW n \in Conn
      PROVE  (ws[n] # "none" => n <= made) /\ (n <= made => made \in Conn)
  <2>1. ws[n] = "none" <=> n > made
    BY DEF TypeOK
  <2>2. n <= made => made # 0
    BY <1>1, <1>2
  <2>3. n \in Nat /\ (n > made \/ n <= made)
    BY <1>1, <1>2
  <2> QED BY <1>1, <1>3, <2>1, <2>2, <2>3
<1>5. (\A n \in Conn : ws[n] # "none" => n <= made) /\ (\A n \in Conn : n <= made => made \in Conn)
  BY <1>4
<1> QED BY <1>1, <1>2, <1>3, <1>5, Zenon

\* A message is taken from the front of a queue.
LEMMA QueueTail ==
    ASSUME NEW q \in Seq(Message), q # <<>>
    PROVE  /\ Head(q) = q[1] /\ Head(q) \in Message /\ Tail(q) \in Seq(Message)
           /\ 1 \in DOMAIN q
           /\ \A i \in DOMAIN Tail(q) : /\ i + 1 \in DOMAIN q /\ Tail(q)[i] = q[i + 1]
                                        /\ i \in Nat /\ i + 1 # 1
  OBVIOUS

\* One is put at its end.
LEMMA QueueAppend ==
    ASSUME NEW q \in Seq(Message), NEW m \in Message
    PROVE  /\ Append(q, m) \in Seq(Message)
           /\ Len(q) + 1 \in DOMAIN Append(q, m) /\ Append(q, m)[Len(q) + 1] = m
           /\ \A i \in DOMAIN q : i \in DOMAIN Append(q, m) /\ Append(q, m)[i] = q[i]
           /\ \A i \in DOMAIN Append(q, m) : i = Len(q) + 1 \/ (i \in DOMAIN q /\ i # Len(q) + 1)
  OBVIOUS

LEMMA NoMessage == <<>> \in Seq(Message) /\ DOMAIN <<>> = {}
  OBVIOUS

\* playStream makes the connection that the globals name from now on.
LEMMA Played ==
    ASSUME TypeOK, NEW then \in BOOLEAN, playStream(then), timers' \subseteq timers
    PROVE  /\ TypeOK' /\ made' = made + 1 /\ made' \in Conn
           /\ ws[made'] = "none" /\ ws'[made'] = "connecting"
           /\ \A n \in Conn : n # made' => ws'[n] = ws[n]
           /\ thens \subseteq thens' /\ (then => made' \in thens')
           /\ UNCHANGED <<peer, reconnectTimerId, sess, network, gathered, wire, strays>>
<1>1. /\ made' = made + 1 /\ made < MaxConn /\ ws' = [ws EXCEPT ![made'] = "connecting"]
      /\ thens' = IF then THEN thens \cup {made'} ELSE thens
      /\ UNCHANGED <<peer, reconnectTimerId, sess, network, gathered, wire, strays>>
  BY DEF playStream
<1>2. made' \in Conn /\ made' \in NoConn /\ made' \in 1..made' /\ 1..made \subseteq 1..made'
      /\ (\A n \in Conn : n > made' <=> n > made /\ n # made') /\ made' > made
  <2>1. made \in Nat /\ MaxConn \in Nat
    BY ConnFacts
  <2>2. made' \in Conn /\ made' \in NoConn /\ made' \in 1..made' /\ made' > made
    BY <1>1, <2>1 DEF Conn, NoConn
  <2>3. 1..made \subseteq 1..made'
    BY <1>1, <2>1
  <2>4. \A n \in Conn : n > made' <=> n > made /\ n # made'
    BY <1>1, <2>1 DEF Conn
  <2> QED BY <2>2, <2>3, <2>4
<1>3. /\ ws' \in [Conn -> {"none", "connecting", "open", "closed"}] /\ ws'[made'] = "connecting"
      /\ \A n \in Conn : n # made' => ws'[n] = ws[n]
  BY <1>1, <1>2 DEF TypeOK
<1>4. ws[made'] = "none"
  BY <1>2 DEF TypeOK
<1>5. \A n \in Conn : ws'[n] = "none" <=> n > made'
  BY <1>2, <1>3 DEF TypeOK
<1>6. thens' \subseteq 1..made' /\ broken' \subseteq 1..made' /\ thens \subseteq thens'
      /\ (then => made' \in thens')
  BY <1>1, <1>2 DEF TypeOK, network
<1>7. TypeOK'
  BY <1>1, <1>2, <1>3, <1>5, <1>6 DEF TypeOK, peer, network, wire
<1> QED BY <1>1, <1>2, <1>3, <1>4, <1>6, <1>7

LEMMA NewTimerType == \A n \in Conn : \A by \in {"catch", "close"} : NewTimer(n, by) \in Timer
  BY DEF NewTimer, Timer

LEMMA StrayType ==
    ASSUME TypeOK, NEW what \in {"offer", "answer", "server ice", "page ice"},
           NEW n \in NoConn, NEW at \in NoConn, Stray(what, n, at)
    PROVE  /\ strays' \subseteq [what : {"offer", "answer", "server ice", "page ice"},
                                 of : NoConn, at : NoConn]
           /\ \A s \in strays' : s \in strays \/ (at # n /\ s = [what |-> what, of |-> n, at |-> at])
<1> DEFINE s == [what |-> what, of |-> n, at |-> at]
<1>1. strays' = strays \/ (at # n /\ strays' = strays \cup {s})
  BY DEF Stray
<1>2. s \in [what : {"offer", "answer", "server ice", "page ice"}, of : NoConn, at : NoConn]
  OBVIOUS
<1> HIDE DEF s
<1>3. /\ strays' \subseteq [what : {"offer", "answer", "server ice", "page ice"},
                            of : NoConn, at : NoConn]
      /\ \A x \in strays' : x \in strays \/ (at # n /\ x = s)
  BY <1>1, <1>2 DEF TypeOK
<1> QED BY <1>3 DEF s

\* A message is sent through the socket of the moment, or dropped.
LEMMA Sent ==
    ASSUME TypeOK, NEW m \in Message, Send(m), made \in Conn
    PROVE  /\ toServer' \in [Conn -> Seq(Message)]
           /\ \A n \in Conn : n # made => toServer'[n] = toServer[n]
           /\ \/ toServer'[made] = toServer[made]
              \/ /\ toServer'[made] = Append(toServer[made], m)
                 /\ ws[made] = "open" /\ made \notin broken
<1>1. CASE toServer' = toServer
  BY <1>1 DEF TypeOK
<1>2. CASE toServer' = [toServer EXCEPT ![made] = Append(@, m)] /\ ws[made] = "open" /\ made \notin broken
  <2>1. toServer[made] \in Seq(Message)
    BY DEF TypeOK
  <2>2. PICK q \in Seq(Message) : q = Append(toServer[made], m)
    BY <2>1, QueueAppend
  <2>3. toServer' = [toServer EXCEPT ![made] = q]
    BY <1>2, <2>2
  <2>4. /\ toServer' \in [Conn -> Seq(Message)] /\ toServer'[made] = q
        /\ \A k \in Conn : k # made => toServer'[k] = toServer[k]
    BY <2>2, <2>3 DEF TypeOK
  <2> QED BY <1>2, <2>2, <2>4
<1> QED BY <1>1, <1>2 DEF Send

LEMMA Told ==
    ASSUME TypeOK, NEW n \in Conn, NEW m \in Message, Tell(n, m)
    PROVE  /\ toPage' \in [Conn -> Seq(Message)]
           /\ \A k \in Conn : k # n => toPage'[k] = toPage[k]
           /\ toPage'[n] = toPage[n] \/ toPage'[n] = Append(toPage[n], m)
<1>1. CASE toPage' = toPage
  BY <1>1 DEF TypeOK
<1>2. CASE toPage' = [toPage EXCEPT ![n] = Append(@, m)]
  <2>1. toPage[n] \in Seq(Message)
    BY DEF TypeOK
  <2>2. PICK q \in Seq(Message) : q = Append(toPage[n], m)
    BY <2>1, QueueAppend
  <2>3. toPage' = [toPage EXCEPT ![n] = q]
    BY <1>2, <2>2
  <2>4. /\ toPage' \in [Conn -> Seq(Message)] /\ toPage'[n] = q
        /\ \A k \in Conn : k # n => toPage'[k] = toPage[k]
    BY <2>2, <2>3 DEF TypeOK
  <2> QED BY <1>2, <2>2, <2>4
<1> QED BY <1>1, <1>2 DEF Tell

\* A message is read by the page.
LEMMA PageTakes ==
    ASSUME TypeOK, NEW n \in Conn, NEW what, PageReads(n, what)
    PROVE  /\ toPage' \in [Conn -> Seq(Message)] /\ toPage'[n] = Tail(toPage[n])
           /\ toPage[n] \in Seq(Message) /\ toPage[n] # <<>> /\ Head(toPage[n]).what = what
           /\ \A k \in Conn : k # n => toPage'[k] = toPage[k]
           /\ ws[n] = "open" /\ n <= made /\ made \in Conn
           /\ UNCHANGED <<made, reconnect, ws, pc, sess, network, gathered, toServer>>
<1>1. toPage[n] \in Seq(Message) /\ toPage[n] # <<>>
  BY DEF TypeOK, PageReads
<1>2. Tail(toPage[n]) \in Seq(Message)
  BY <1>1, QueueTail
<1>3. toPage' = [toPage EXCEPT ![n] = Tail(toPage[n])]
  BY DEF PageReads
<1>4. /\ toPage' \in [Conn -> Seq(Message)] /\ toPage'[n] = Tail(toPage[n])
      /\ \A k \in Conn : k # n => toPage'[k] = toPage[k]
  BY <1>2, <1>3 DEF TypeOK
<1> QED BY <1>1, <1>4, ConnFacts DEF PageReads

\* Or by the session.
LEMMA ServerTakes ==
    ASSUME TypeOK, NEW n \in Conn, NEW what, ServerReads(n, what)
    PROVE  /\ toServer[n] \in Seq(Message) /\ toServer[n] # <<>>
           /\ Head(toServer[n]) \in Message /\ Head(toServer[n]).what = what
           /\ Head(toServer[n]).of \in NoConn
           /\ Tail(toServer[n]) \in Seq(Message) /\ Alive(n)
           /\ UNCHANGED <<made, reconnect, ws, peer, losses, gathered, toPage>>
<1>1. toServer[n] \in Seq(Message) /\ toServer[n] # <<>>
  BY DEF TypeOK, ServerReads
<1>2. Head(toServer[n]) \in Message /\ Tail(toServer[n]) \in Seq(Message)
  BY <1>1, QueueTail
<1> QED BY <1>1, <1>2 DEF ServerReads, Message
-----------------------------------------------------------------------------
\* Types, and sessions of their sockets, are kept by each action.
LEMMA BasePlay ==
    ASSUME BaseInv, NEW then \in BOOLEAN, playStream(then), timers' \subseteq timers PROVE BaseInv'
<1>1. /\ TypeOK' /\ made' = made + 1 /\ made' \in Conn /\ ws'[made'] = "connecting"
      /\ \A n \in Conn : n # made' => ws'[n] = ws[n]
      /\ UNCHANGED <<peer, sess, network>>
  BY Played DEF BaseInv
<1>2. Ends'
  BY <1>1 DEF BaseInv, Ends, network
<1>3. made' > 0
  BY <1>1, ConnFacts DEF BaseInv
<1>4. MadeFirst'
  BY <1>1, <1>3 DEF MadeFirst
<1>5. SessMade'
  BY <1>1 DEF BaseInv, SessMade
<1> QED BY <1>1, <1>2, <1>4, <1>5 DEF BaseInv

LEMMA BaseOpen == ASSUME BaseInv, NEW n \in Conn, onopen(n) PROVE BaseInv'
<1>1. /\ ws[n] = "connecting" /\ sess[n] # "none" /\ ws' = [ws EXCEPT ![n] = "open"]
      /\ thens' \subseteq thens /\ timers' \subseteq timers
      /\ UNCHANGED <<made, reconnectTimerId, peer, sess, network, gathered, wire, strays>>
  BY DEF onopen
<1>2. /\ ws' \in [Conn -> {"none", "connecting", "open", "closed"}] /\ ws'[n] = "open"
      /\ \A k \in Conn : k # n => ws'[k] = ws[k]
  BY <1>1 DEF BaseInv, TypeOK
<1>3. \A k \in Conn : ws'[k] = "none" <=> k > made
  BY <1>1, <1>2 DEF BaseInv, TypeOK
<1>4. TypeOK'
  BY <1>1, <1>2, <1>3 DEF BaseInv, TypeOK, peer, network, wire
<1>5. Ends'
  BY <1>1, <1>2 DEF BaseInv, Ends, network
<1>6. MadeFirst' /\ SessMade'
  BY <1>1, <1>2 DEF BaseInv, MadeFirst, SessMade, peer
<1> QED BY <1>4, <1>5, <1>6 DEF BaseInv

LEMMA BaseClosed == ASSUME BaseInv, NEW n \in Conn, Closed(n) PROVE BaseInv'
<1>1. PICK tc \in Timer, ta \in Timer : tc = NewTimer(n, "close") /\ ta = NewTimer(n, "catch")
  BY NewTimerType
<1>2. /\ ws[n] \in {"connecting", "open"} /\ ws' = [ws EXCEPT ![n] = "closed"]
      /\ timers' \subseteq timers \cup {tc, ta} /\ reconnectTimerId' = {tc}
      /\ toPage' = [toPage EXCEPT ![n] = <<>>]
      /\ UNCHANGED <<made, thens, peer, sess, network, gathered, toServer, strays>>
  BY <1>1 DEF Closed
<1>3. /\ ws' \in [Conn -> {"none", "connecting", "open", "closed"}] /\ ws'[n] = "closed"
      /\ \A k \in Conn : k # n => ws'[k] = ws[k]
  BY <1>2 DEF BaseInv, TypeOK
<1>4. \A k \in Conn : ws'[k] = "none" <=> k > made
  BY <1>2, <1>3 DEF BaseInv, TypeOK
<1>5. toPage' \in [Conn -> Seq(Message)]
  BY <1>2, NoMessage DEF BaseInv, TypeOK
<1>6. timers' \subseteq Timer /\ reconnectTimerId' \subseteq Timer
  BY <1>1, <1>2 DEF BaseInv, TypeOK
<1>7. Cardinality(reconnectTimerId') <= 1
  <2>1. Cardinality({tc}) = 1
    BY FS_Singleton
  <2>2. Cardinality(reconnectTimerId') = 1
    BY <1>2, <2>1
  <2> QED BY <2>2
<1>8. TypeOK'
  BY <1>2, <1>3, <1>4, <1>5, <1>6, <1>7 DEF BaseInv, TypeOK, peer, network
<1>9. Ends'
  BY <1>2, <1>3 DEF BaseInv, Ends, network
<1>10. MadeFirst' /\ SessMade'
  BY <1>2, <1>3 DEF BaseInv, MadeFirst, SessMade, peer
<1> QED BY <1>8, <1>9, <1>10 DEF BaseInv

LEMMA BaseLose == ASSUME BaseInv, NEW n \in Conn, Lose(n) PROVE BaseInv'
<1>1. /\ ws[n] \in {"connecting", "open"} /\ losses < MaxLoss
      /\ losses' = losses + 1 /\ broken' = broken \cup {n}
      /\ UNCHANGED <<made, reconnect, ws, peer, sess, gathered, wire, strays>>
  BY DEF Lose
<1>2. n \in 1..made
  BY <1>1, ConnFacts DEF BaseInv
<1>3. broken' \subseteq 1..made
  BY <1>1, <1>2 DEF BaseInv, TypeOK
<1>4. losses' \in 0..MaxLoss
  <2>1. losses \in 0..MaxLoss
    BY DEF BaseInv, TypeOK
  <2> QED BY <1>1, <2>1, MaxLossAssumption
<1>5. TypeOK'
  BY <1>1, <1>3, <1>4 DEF BaseInv, TypeOK, peer, reconnect, wire
<1>6. Ends' /\ MadeFirst' /\ SessMade'
  BY <1>1 DEF BaseInv, Ends, MadeFirst, SessMade, peer
<1> QED BY <1>5, <1>6 DEF BaseInv

\* A session begins, offers, or ends with its socket.
LEMMA BaseSess ==
    ASSUME BaseInv, NEW n \in Conn, NEW s \in {"new", "offered", "answered", "gone"},
           sess' = [sess EXCEPT ![n] = s], s = "gone" => n \in broken, ws[n] # "none",
           toPage' \in [Conn -> Seq(Message)], toServer' \in [Conn -> Seq(Message)],
           strays' \subseteq [what : {"offer", "answer", "server ice", "page ice"},
                              of : NoConn, at : NoConn],
           UNCHANGED <<made, reconnect, ws, peer, network, gathered>>
    PROVE  BaseInv'
<1>1. /\ sess' \in [Conn -> {"none", "new", "offered", "answered", "gone"}] /\ sess'[n] = s
      /\ \A k \in Conn : k # n => sess'[k] = sess[k]
  BY DEF BaseInv, TypeOK
<1>2. TypeOK'
  BY <1>1 DEF BaseInv, TypeOK, peer, reconnect, network
<1>3. Ends'
  BY <1>1 DEF BaseInv, Ends, network
<1>4. MadeFirst' /\ SessMade'
  BY <1>1 DEF BaseInv, MadeFirst, SessMade, peer
<1> QED BY <1>2, <1>3, <1>4 DEF BaseInv

LEMMA BaseHandler ==
    ASSUME BaseInv, NEW n \in Conn,
           soup_websocket_handler(n) \/ on_offer_created_cb(n) \/ soup_websocket_closed_cb(n)
    PROVE  BaseInv'
<1>1. /\ toPage \in [Conn -> Seq(Message)] /\ toServer \in [Conn -> Seq(Message)]
      /\ strays \subseteq [what : {"offer", "answer", "server ice", "page ice"},
                           of : NoConn, at : NoConn]
  BY DEF BaseInv, TypeOK
<1>0. ws[n] # "none"
  BY DEF BaseInv, SessMade, Alive, soup_websocket_handler, on_offer_created_cb, soup_websocket_closed_cb
<1>2. CASE soup_websocket_handler(n)
  BY <1>0, <1>1, <1>2, BaseSess DEF soup_websocket_handler, wire
<1>3. CASE on_offer_created_cb(n)
  <2>1. Msg("offer", n) \in Message
    BY ConnFacts DEF BaseInv, Msg, Message
  <2>2. toPage' \in [Conn -> Seq(Message)]
    BY <1>3, <2>1, Told DEF BaseInv, on_offer_created_cb
  <2> QED BY <1>0, <1>1, <1>3, <2>2, BaseSess DEF on_offer_created_cb
<1>4. CASE soup_websocket_closed_cb(n)
  <2>1. toServer' \in [Conn -> Seq(Message)]
    BY <1>1, <1>4, NoMessage DEF soup_websocket_closed_cb
  <2> QED BY <1>0, <1>1, <1>4, <2>1, BaseSess DEF soup_websocket_closed_cb
<1> QED BY <1>2, <1>3, <1>4

\* A candidate is gathered and sent, a message is read.
LEMMA BaseMessages ==
    ASSUME BaseInv,
           gathered' \in [{"server", "page"} -> [Conn -> 0..MaxIce]],
           toPage' \in [Conn -> Seq(Message)], toServer' \in [Conn -> Seq(Message)],
           strays' \subseteq [what : {"offer", "answer", "server ice", "page ice"},
                              of : NoConn, at : NoConn],
           neg' \in [Conn -> Neg], pc' \in [Conn -> Peer],
           \A n \in Conn : neg'[n].stage # "idle" => made > 0,
           UNCHANGED <<made, reconnect, ws, sess, network>>
    PROVE  BaseInv'
<1>1. TypeOK'
  BY DEF BaseInv, TypeOK, reconnect, network, Neg, Peer
<1>2. Ends' /\ MadeFirst'
  BY DEF BaseInv, Ends, MadeFirst, network
<1>3. SessMade'
  BY DEF BaseInv, SessMade
<1> QED BY <1>1, <1>2, <1>3 DEF BaseInv

LEMMA Parts ==
    ASSUME BaseInv
    PROVE  /\ toPage \in [Conn -> Seq(Message)] /\ toServer \in [Conn -> Seq(Message)]
           /\ strays \subseteq [what : {"offer", "answer", "server ice", "page ice"},
                                of : NoConn, at : NoConn]
           /\ neg \in [Conn -> Neg] /\ pc \in [Conn -> Peer]
           /\ gathered \in [{"server", "page"} -> [Conn -> 0..MaxIce]]
           /\ \A n \in Conn : neg[n].stage # "idle" => made > 0
           /\ TypeOK
  BY DEF BaseInv, TypeOK, MadeFirst, Neg, Peer

LEMMA MadeOne == ASSUME TypeOK, made > 0 PROVE made \in Conn /\ made \in NoConn
<1>1. made \in NoConn /\ made # 0
  BY ConnFacts
<1> QED BY <1>1, ConnFacts

LEMMA IdleType == Idle \in Neg /\ Idle.stage = "idle"
  BY MaxConnAssumption DEF Idle, Neg, NoConn

\* One more candidate at one end.
LEMMA Gathers ==
    ASSUME BaseInv, NEW n \in Conn, NEW side \in {"server", "page"}, gathered[side][n] < MaxIce,
           gathered' = [gathered EXCEPT ![side][n] = @ + 1]
    PROVE  gathered' \in [{"server", "page"} -> [Conn -> 0..MaxIce]]
<1>1. gathered[side][n] \in 0..MaxIce /\ gathered[side] \in [Conn -> 0..MaxIce]
  BY Parts
<1>2. gathered[side][n] + 1 \in 0..MaxIce
  BY <1>1, MaxIceAssumption
<1>3. PICK g \in [Conn -> 0..MaxIce] : g = [gathered[side] EXCEPT ![n] = @ + 1]
  BY <1>1, <1>2
<1>4. gathered' = [gathered EXCEPT ![side] = g]
  BY <1>3, Parts
<1> QED BY <1>4, Parts

LEMMA BaseIce ==
    ASSUME BaseInv, NEW n \in Conn, onIceCandidate(n) \/ on_ice_candidate_cb(n) PROVE BaseInv'
<1>1. Msg("ice", n) \in Message
  BY ConnFacts, Parts DEF Msg, Message
<1>2. CASE on_ice_candidate_cb(n)
  <2>1. toPage' \in [Conn -> Seq(Message)]
    BY <1>1, <1>2, Told, Parts DEF on_ice_candidate_cb
  <2>2. gathered' \in [{"server", "page"} -> [Conn -> 0..MaxIce]]
    BY <1>2, Gathers DEF on_ice_candidate_cb
  <2> QED BY <1>2, <2>1, <2>2, Parts, BaseMessages DEF on_ice_candidate_cb, peer
<1>3. CASE onIceCandidate(n)
  <2>1. toServer' \in [Conn -> Seq(Message)]
    <3>1. CASE made \in Conn
      BY <1>1, <1>3, <3>1, Sent, Parts DEF onIceCandidate
    <3>2. CASE made \notin Conn
      BY <1>3, <3>2, Parts DEF onIceCandidate, Send
    <3> QED BY <3>1, <3>2
  <2>2. gathered' \in [{"server", "page"} -> [Conn -> 0..MaxIce]]
    BY <1>3, Gathers DEF onIceCandidate
  <2> QED BY <1>3, <2>1, <2>2, Parts, BaseMessages DEF onIceCandidate, peer
<1> QED BY <1>2, <1>3

\* The page's message handlers.
LEMMA BaseReads ==
    ASSUME BaseInv, NEW n \in Conn, onIncomingSDP(n) \/ onIncomingICE(n) PROVE BaseInv'
<1>1. made \in Conn /\ made \in NoConn /\ made > 0 /\ n \in NoConn /\ 0 \in NoConn
  <2>1. made \in Conn
    BY PageTakes, Parts DEF onIncomingSDP, onIncomingICE
  <2>2. made \in Nat /\ made >= 1
    BY <2>1, ConnFacts, Parts
  <2>3. made > 0
    BY <2>2
  <2>4. made \in NoConn /\ n \in NoConn /\ 0 \in NoConn
    BY ConnFacts, Parts
  <2> QED BY <2>1, <2>3, <2>4
<1>2. CASE onIncomingSDP(n)
  <2>1. [stage |-> "remote", at |-> made, to |-> 0] \in Neg
    BY <1>1 DEF Neg
  <2>2. neg' \in [Conn -> Neg]
    BY <1>2, <2>1, Parts DEF onIncomingSDP
  <2>3. strays' \subseteq [what : {"offer", "answer", "server ice", "page ice"},
                           of : NoConn, at : NoConn]
    BY <1>1, <1>2, StrayType, Parts DEF onIncomingSDP
  <2>4. \A k \in Conn : neg'[k].stage # "idle" => made > 0
    BY <1>1
  <2>5. /\ toPage' \in [Conn -> Seq(Message)]
        /\ UNCHANGED <<made, reconnect, ws, pc, sess, network, gathered, toServer>>
    BY <1>2, PageTakes, Parts DEF onIncomingSDP
  <2> QED BY <2>2, <2>3, <2>4, <2>5, Parts, BaseMessages
<1>3. CASE onIncomingICE(n)
  <2>1. strays' \subseteq [what : {"offer", "answer", "server ice", "page ice"},
                           of : NoConn, at : NoConn]
    BY <1>1, <1>3, StrayType, Parts DEF onIncomingICE
  <2>2. /\ toPage' \in [Conn -> Seq(Message)] /\ neg' = neg
        /\ UNCHANGED <<made, reconnect, ws, pc, sess, network, gathered, toServer>>
    BY <1>3, PageTakes, Parts DEF onIncomingICE
  <2> QED BY <2>1, <2>2, Parts, BaseMessages
<1> QED BY <1>2, <1>3

\* The steps of a promise chain.
LEMMA BaseChain ==
    ASSUME BaseInv, NEW n \in Conn, CreateAnswer(n) \/ onLocalDescription(n) \/ SendAnswer(n)
    PROVE  BaseInv'
<1>1. /\ neg[n] \in Neg /\ neg[n].stage # "idle" /\ made > 0 /\ made \in Conn /\ made \in NoConn
      /\ n \in NoConn /\ 0 \in NoConn
  BY Parts, MadeOne, ConnFacts, IdleType DEF CreateAnswer, onLocalDescription, SendAnswer
<1>2. CASE CreateAnswer(n)
  <2>1. pc' \in [Conn -> Peer]
    <3>1. CASE neg[n].at \in Conn
      <4>1. pc[neg[n].at] \in Peer
        BY <3>1, Parts
      <4>2. PICK r : r = [[pc[neg[n].at] EXCEPT !.offer = n] EXCEPT !.answered = 0]
        OBVIOUS
      <4>3. r \in Peer
        BY <1>1, <4>1, <4>2 DEF Peer
      <4>4. pc' = [pc EXCEPT ![neg[n].at] = r]
        BY <1>2, <4>2, <3>1, Parts DEF CreateAnswer
      <4> QED BY <4>3, <4>4, Parts
    <3>2. CASE neg[n].at \notin Conn
      BY <1>2, <3>2, Parts DEF CreateAnswer
    <3> QED BY <3>1, <3>2
  <2>2. pc'[made] \in Peer
    BY <1>1, <2>1
  <2>3. PICK r \in Neg : neg' = [neg EXCEPT ![n] = r]
    <3>1. [stage |-> "answer", at |-> made, to |-> pc'[made].offer] \in Neg
      BY <1>1, <2>2 DEF Neg, Peer
    <3> QED BY <1>2, <3>1, IdleType DEF CreateAnswer
  <2>4. neg' \in [Conn -> Neg]
    BY <2>3, Parts
  <2> QED BY <1>1, <1>2, <2>1, <2>4, Parts, BaseMessages DEF CreateAnswer, wire
<1>3. CASE onLocalDescription(n)
  <2>1. [neg[n] EXCEPT !.stage = "local"] \in Neg
    BY <1>1 DEF Neg
  <2>2. PICK r \in Neg : neg' = [neg EXCEPT ![n] = r]
    BY <1>3, <2>1, IdleType DEF onLocalDescription
  <2>3. neg' \in [Conn -> Neg]
    BY <2>2, Parts
  <2> QED BY <1>1, <1>3, <2>3, Parts, BaseMessages DEF onLocalDescription, wire
<1>4. CASE SendAnswer(n)
  <2>1. neg' \in [Conn -> Neg]
    BY <1>4, IdleType, Parts DEF SendAnswer
  <2>2. pc' \in [Conn -> Peer] /\ toServer' \in [Conn -> Seq(Message)]
    <3>1. CASE pc' = [pc EXCEPT ![neg[n].at].answered = neg[n].to] /\ Send(Msg("answer", pc'[made].answered))
      <4>1. pc' \in [Conn -> Peer]
        <5>1. CASE neg[n].at \in Conn
          <6>1. pc[neg[n].at] \in Peer /\ neg[n].to \in NoConn
            BY <1>1, <5>1, Parts DEF Neg
          <6>2. PICK r : r = [pc[neg[n].at] EXCEPT !.answered = neg[n].to]
            OBVIOUS
          <6>3. r \in Peer
            BY <6>1, <6>2 DEF Peer
          <6>4. pc' = [pc EXCEPT ![neg[n].at] = r]
            BY <3>1, <6>2, <5>1, Parts
          <6> QED BY <6>3, <6>4, Parts
        <5>2. CASE neg[n].at \notin Conn
          BY <3>1, <5>2, Parts
        <5> QED BY <5>1, <5>2
      <4>2. pc'[made] \in Peer
        BY <1>1, <4>1
      <4>3. Msg("answer", pc'[made].answered) \in Message
        BY <4>2 DEF Peer, Msg, Message
      <4>4. PICK m \in Message : Send(m)
        BY <3>1, <4>3
      <4> QED BY <1>1, <4>1, <4>4, Sent, Parts
    <3>2. CASE UNCHANGED <<pc, toServer>>
      BY <3>2, Parts
    <3> QED BY <1>4, <3>1, <3>2 DEF SendAnswer
  <2> QED BY <1>1, <1>4, <2>1, <2>2, Parts, BaseMessages DEF SendAnswer
<1> QED BY <1>2, <1>3, <1>4

\* What the session reads; null data ends every session.
LEMMA BaseReadAnswer == ASSUME BaseInv, NEW n \in Conn, ReadAnswer(n) PROVE BaseInv'
<1>1. ServerReads(n, "answer")
  BY DEF ReadAnswer
<1>2. PICK of \in NoConn : of = Head(toServer[n]).of
  BY <1>1, ServerTakes, Parts
<1>3. n \in NoConn /\ 0 \in NoConn
  BY ConnFacts, Parts
<1>4. strays' \subseteq [what : {"offer", "answer", "server ice", "page ice"},
                         of : NoConn, at : NoConn]
  <2>1. PICK at \in NoConn : Stray("answer", of, at)
    BY <1>2, <1>3 DEF ReadAnswer
  <2> QED BY <2>1, StrayType, Parts
<1>5. UNCHANGED <<made, reconnect, ws, peer, losses, gathered, toPage>>
  BY <1>1, ServerTakes, Parts
<1>6. CASE of = 0
  <2>1. /\ sess' = [m \in Conn |-> IF Alive(m) THEN "gone" ELSE sess[m]]
        /\ broken' = broken \cup {m \in Conn : Alive(m)}
        /\ toServer' = [m \in Conn |-> <<>>]
    BY <1>2, <1>6 DEF ReadAnswer
  <2>2. toServer' \in [Conn -> Seq(Message)]
    BY <2>1, NoMessage
  <2>3. sess' \in [Conn -> {"none", "new", "offered", "answered", "gone"}]
    BY <2>1, Parts DEF TypeOK
  <2>4. \A m \in Conn : Alive(m) => m \in 1..made
    <3>1. \A m \in Conn : Alive(m) => ws[m] # "none"
      BY Parts DEF BaseInv, SessMade, Alive
    <3>2. \A m \in Conn : m \in Nat /\ m >= 1 /\ (ws[m] # "none" => m <= made) /\ made \in Nat
      BY ConnFacts, Parts
    <3>3. \A m \in Conn : m <= made => m \in 1..made
      BY <3>2
    <3> QED BY <3>1, <3>2, <3>3
  <2>5. broken' \subseteq 1..made
    BY <2>1, <2>4, Parts DEF TypeOK
  <2>6. TypeOK'
    BY <1>4, <1>5, <2>2, <2>3, <2>5, Parts DEF TypeOK, peer, reconnect
  <2>7. MadeFirst'
    BY <1>5 DEF BaseInv, MadeFirst, peer
  <2>8. \A m \in Conn : /\ sess'[m] = IF Alive(m) THEN "gone" ELSE sess[m]
                        /\ m \in broken' <=> m \in broken \/ Alive(m)
    BY <2>1
  <2>9. Ends' /\ SessMade'
    BY <1>5, <2>8 DEF BaseInv, Ends, SessMade, Alive
  <2> QED BY <2>6, <2>7, <2>9 DEF BaseInv
<1>7. CASE of # 0
  <2>1. /\ sess' = [sess EXCEPT ![n] = "answered"] /\ broken' = broken
        /\ toServer' = [toServer EXCEPT ![n] = Tail(@)]
    BY <1>2, <1>7 DEF ReadAnswer
  <2>2. toServer' \in [Conn -> Seq(Message)]
    BY <1>1, <2>1, ServerTakes, Parts
  <2>3. toPage' \in [Conn -> Seq(Message)]
    BY <1>5, Parts
  <2>4. ws[n] # "none"
    BY <1>1 DEF BaseInv, SessMade, ServerReads, Alive
  <2> QED BY <1>4, <1>5, <2>1, <2>2, <2>3, <2>4, BaseSess DEF network
<1> QED BY <1>6, <1>7

LEMMA BaseReadIce == ASSUME BaseInv, NEW n \in Conn, ReadIce(n) PROVE BaseInv'
<1>1. /\ ServerReads(n, "ice") /\ toServer' = [toServer EXCEPT ![n] = Tail(@)]
      /\ Stray("page ice", Head(toServer[n]).of, n) /\ UNCHANGED <<sess, broken>>
  BY DEF ReadIce
<1>2. /\ Head(toServer[n]).of \in NoConn /\ n \in NoConn
      /\ UNCHANGED <<made, reconnect, ws, peer, losses, gathered, toPage>>
  BY <1>1, ServerTakes, ConnFacts, Parts
<1>3. toServer' \in [Conn -> Seq(Message)]
  BY <1>1, ServerTakes, Parts
<1>4. strays' \subseteq [what : {"offer", "answer", "server ice", "page ice"},
                         of : NoConn, at : NoConn]
  BY <1>1, <1>2, StrayType, Parts
<1> QED BY <1>1, <1>2, <1>3, <1>4, Parts, BaseMessages DEF peer, network

\* A step is one of these.
LEMMA NextCases ==
    ASSUME Next
    PROVE  \/ startWatch
           \/ \E t \in timers : Reconnect(t)
           \/ \E n \in Conn : \/ onopen(n) \/ Closed(n) \/ onIncomingSDP(n) \/ CreateAnswer(n)
                              \/ onLocalDescription(n) \/ SendAnswer(n)
                              \/ onIncomingICE(n) \/ onIceCandidate(n)
                              \/ soup_websocket_handler(n) \/ on_offer_created_cb(n)
                              \/ on_ice_candidate_cb(n) \/ ReadAnswer(n) \/ ReadIce(n)
                              \/ soup_websocket_closed_cb(n) \/ Lose(n)
  BY DEF Next, PageStep, ServerStep

LEMMA BaseStep == BaseInv /\ [Next]_vars => BaseInv'
<1> SUFFICES ASSUME BaseInv, [Next]_vars PROVE BaseInv'
  OBVIOUS
<1>1. CASE UNCHANGED vars
  BY <1>1 DEF BaseInv, TypeOK, Ends, MadeFirst, SessMade, vars, reconnect, peer, wire, network
<1>2. CASE startWatch
  <2>1. playStream(TRUE) /\ timers' \subseteq timers
    BY <1>2 DEF startWatch
  <2> QED BY <2>1, BasePlay
<1>3. ASSUME NEW t \in timers, Reconnect(t) PROVE BaseInv'
  <2>1. playStream(t.by = "close") /\ timers' \subseteq timers /\ (t.by = "close") \in BOOLEAN
    BY <1>3 DEF Reconnect
  <2> QED BY <2>1, BasePlay
<1>4. ASSUME NEW n \in Conn,
             \/ onopen(n) \/ Closed(n) \/ onIncomingSDP(n) \/ CreateAnswer(n)
             \/ onLocalDescription(n) \/ SendAnswer(n)
             \/ onIncomingICE(n) \/ onIceCandidate(n)
             \/ soup_websocket_handler(n) \/ on_offer_created_cb(n)
             \/ on_ice_candidate_cb(n) \/ ReadAnswer(n) \/ ReadIce(n)
             \/ soup_websocket_closed_cb(n) \/ Lose(n)
      PROVE  BaseInv'
  BY <1>4, BaseOpen, BaseClosed, BaseLose, BaseHandler, BaseIce, BaseReads, BaseChain,
     BaseReadAnswer, BaseReadIce
<1>5. CASE Next
  BY <1>2, <1>3, <1>4, <1>5, NextCases
<1> QED BY <1>1, <1>5

LEMMA BaseInit == Init => BaseInv
<1> SUFFICES ASSUME Init PROVE BaseInv
  OBVIOUS
<1>1. 0 \in NoConn /\ 0 \in 0..MaxLoss /\ 0 \in 0..MaxIce /\ \A n \in Conn : n > 0
  BY MaxConnAssumption, MaxLossAssumption, MaxIceAssumption DEF NoConn, Conn
<1>2. [offer |-> 0, answered |-> 0] \in Peer
  BY <1>1 DEF Peer
<1>3. Cardinality({}) <= 1
  BY FS_EmptySet
<1>4. TypeOK
  BY <1>1, <1>2, <1>3, IdleType, NoMessage DEF Init, TypeOK, Peer, Neg
<1>5. Ends /\ MadeFirst /\ SessMade
  BY IdleType DEF Init, Ends, MadeFirst, SessMade
<1> QED BY <1>4, <1>5 DEF BaseInv
-----------------------------------------------------------------------------
\* Sockets and timers.
LEMMA BusyFacts ==
    ASSUME TypeOK
    PROVE  /\ IsFiniteSet(Busy) /\ Cardinality(Busy) \in Nat
           /\ Due = Cardinality(Busy) + Cardinality(timers)
           /\ \A n \in Busy : n \in Conn /\ n <= made
<1>1. IsFiniteSet(Conn)
  BY MaxConnAssumption, FS_Interval DEF Conn
<1>2. Busy \subseteq Conn
  BY DEF Busy
<1>3. IsFiniteSet(Busy) /\ Cardinality(Busy) \in Nat
  BY <1>1, <1>2, FS_Subset, FS_CardinalityType
<1>4. \A n \in Busy : n \in Conn /\ n <= made
  BY ConnFacts DEF Busy
<1> QED BY <1>3, <1>4 DEF Due, Busy

\* What else happens changes none of them.
LEMMA CountSame ==
    ASSUME BaseInv, CountInv, UNCHANGED <<made, thens, ws, timers>> PROVE CountInv'
<1>1. Busy' = Busy /\ Due' = Due /\ FirstTryFailed' = FirstTryFailed
  BY DEF Busy, Due, FirstTryFailed
<1> QED BY <1>1 DEF CountInv, Single

\* A first try that failed stays failed.
LEMMA FailedStays ==
    ASSUME BaseInv, FirstTryFailed, [Next]_vars PROVE FirstTryFailed'
<1>1. 1 \in thens /\ ws[1] = "closed" /\ 1 \in Conn
  <2>1. 1 \in 1..made /\ made \in Nat /\ made <= MaxConn /\ MaxConn \in Nat
    <3>1. 1 \in thens /\ thens \subseteq 1..made
      BY DEF FirstTryFailed, BaseInv, TypeOK
    <3>2. made \in Nat /\ made \in NoConn /\ MaxConn \in Nat
      BY ConnFacts DEF BaseInv
    <3> QED BY <3>1, <3>2 DEF NoConn
  <2> QED BY <2>1 DEF FirstTryFailed, Conn
<1>2. ASSUME NEW then \in BOOLEAN, playStream(then), timers' \subseteq timers
      PROVE  FirstTryFailed'
  BY <1>1, <1>2, Played DEF BaseInv, FirstTryFailed
<1>3. ASSUME NEW t \in timers, Reconnect(t) PROVE FirstTryFailed'
  BY <1>2, <1>3 DEF Reconnect
<1>4. CASE startWatch
  BY <1>2, <1>4 DEF startWatch
<1>5. ASSUME NEW n \in Conn, onopen(n) PROVE FirstTryFailed'
  BY <1>1, <1>5 DEF onopen, FirstTryFailed
<1>6. ASSUME NEW n \in Conn, Closed(n) PROVE FirstTryFailed'
  BY <1>1, <1>6 DEF Closed, FirstTryFailed
<1>7. CASE UNCHANGED <<thens, ws>>
  BY <1>7 DEF FirstTryFailed
<1>8. ASSUME NEW n \in Conn,
             \/ onIncomingSDP(n) \/ CreateAnswer(n) \/ onLocalDescription(n) \/ SendAnswer(n)
             \/ onIncomingICE(n) \/ onIceCandidate(n)
             \/ soup_websocket_handler(n) \/ on_offer_created_cb(n)
             \/ on_ice_candidate_cb(n) \/ ReadAnswer(n) \/ ReadIce(n)
             \/ soup_websocket_closed_cb(n) \/ Lose(n)
      PROVE  UNCHANGED <<made, thens, ws, timers>>
  BY <1>8 DEF onIncomingSDP, CreateAnswer, onLocalDescription, SendAnswer, onIncomingICE, PageReads,
     onIceCandidate, soup_websocket_handler, on_offer_created_cb, on_ice_candidate_cb,
     ReadAnswer, ReadIce, ServerReads, soup_websocket_closed_cb, Lose, reconnect
<1>9. CASE UNCHANGED vars
  BY <1>7, <1>9 DEF vars, reconnect
<1> QED BY <1>3, <1>4, <1>5, <1>6, <1>7, <1>8, <1>9, NextCases

\* The next connection takes the place of the timer, or of nothing at first.
LEMMA CountPlay ==
    ASSUME BaseInv, CountInv, NEW then \in BOOLEAN, playStream(then),
           \/ made = 0 /\ then /\ timers' = timers
           \/ made > 0 /\ \E t \in timers : timers' = timers \ {t}
    PROVE  CountInv' /\ (FirstTryFailed' => FirstTryFailed)
<1>1. /\ made' = made + 1 /\ made' \in Conn /\ ws[made'] = "none" /\ ws'[made'] = "connecting"
      /\ \A n \in Conn : n # made' => ws'[n] = ws[n]
      /\ thens \subseteq thens' /\ (then => made' \in thens')
      /\ thens' \subseteq thens \cup {made'}
  BY Played DEF BaseInv, playStream
<1>2. Busy' = Busy \cup {made'} /\ made' \notin Busy
  BY <1>1 DEF Busy
<1>3. made' > 0 /\ made \in Nat
  BY <1>1, ConnFacts DEF BaseInv
<1>4. CASE made = 0
  <2>1. timers' = {} /\ made' = 1
    BY <1>1, <1>4 DEF CountInv
  <2>2. Busy = {}
    <3>1. \A n \in Conn : ws[n] = "none"
      BY <1>4, ConnFacts DEF BaseInv
    <3> QED BY <3>1 DEF Busy
  <2>3. 1 \in thens' /\ ws'[1] = "connecting"
    BY <1>1, <1>4, <2>1
  <2>4. Single' /\ ~FirstTryFailed'
    BY <1>2, <2>1, <2>2, <2>3 DEF Single, FirstTryFailed
  <2> QED BY <1>3, <2>1, <2>3, <2>4, FS_EmptySet DEF CountInv
<1>5. CASE made > 0
  <2>1. PICK t \in timers : timers' = timers \ {t}
    BY <1>4, <1>5
  <2>2. /\ IsFiniteSet(timers) /\ IsFiniteSet(timers') /\ Cardinality(timers) \in Nat
        /\ Cardinality(timers') = Cardinality(timers) - 1
    BY <2>1, FS_RemoveElement, FS_CardinalityType DEF CountInv
  <2>3. Cardinality(Busy') = Cardinality(Busy) + 1 /\ Cardinality(Busy) \in Nat
    BY <1>2, BusyFacts, FS_AddElement DEF BaseInv
  <2>4. Due' = Due
    <3>1. Due = Cardinality(Busy) + Cardinality(timers)
      BY BusyFacts DEF BaseInv
    <3>2. Due' = Cardinality(Busy') + Cardinality(timers')
      BY DEF Due, Busy
    <3> QED BY <2>2, <2>3, <3>1, <3>2
  <2>5. 1 \in Conn /\ 1 # made' /\ made # 0 /\ made' # 0
    BY <1>1, <1>3, <1>5, ConnFacts, MaxConnAssumption DEF BaseInv, Conn
  <2>6. ws'[1] = ws[1] /\ (1 \in thens' <=> 1 \in thens)
    BY <1>1, <2>5
  <2>7. FirstTryFailed' <=> FirstTryFailed
    BY <2>6 DEF FirstTryFailed
  <2>8. ASSUME Single PROVE Single'
    <3>1. Busy = {} /\ timers = {t}
      BY <2>1, <2>8 DEF Single
    <3> QED BY <1>2, <2>1, <3>1 DEF Single
  <2> QED BY <1>3, <1>5, <2>2, <2>4, <2>5, <2>6, <2>7, <2>8 DEF CountInv
<1> QED BY <1>4, <1>5

\* A socket that opens may clear a timer; it is there itself.
LEMMA CountOpen ==
    ASSUME BaseInv, CountInv, NEW n \in Conn, onopen(n) PROVE CountInv'
<1>1. /\ ws[n] = "connecting" /\ ws' = [ws EXCEPT ![n] = "open"] /\ made' = made
      /\ thens' = thens \ {n}
      /\ timers' = timers \/ timers' = timers \ reconnectTimerId
  BY DEF onopen
<1>2. ws'[n] = "open" /\ \A k \in Conn : k # n => ws'[k] = ws[k]
  BY <1>1 DEF BaseInv, TypeOK
<1>3. Busy' = Busy /\ n \in Busy
  BY <1>1, <1>2 DEF Busy
<1>4. timers' \in SUBSET timers /\ IsFiniteSet(timers)
  BY <1>1 DEF CountInv
<1>5. /\ IsFiniteSet(timers') /\ Cardinality(timers') <= Cardinality(timers)
      /\ Cardinality(timers) \in Nat /\ Cardinality(timers') \in Nat
  BY <1>4, FS_Subset, FS_CardinalityType
<1>6. Cardinality(Busy) # 0 /\ Cardinality(Busy) \in Nat
  BY <1>3, BusyFacts, FS_EmptySet DEF BaseInv
<1>7. Due = Cardinality(Busy) + Cardinality(timers) /\ Due' = Cardinality(Busy) + Cardinality(timers')
  <2>1. Due' = Cardinality(Busy') + Cardinality(timers')
    BY DEF Due, Busy
  <2> QED BY <1>3, <2>1, BusyFacts DEF BaseInv
<1>8. Due \in 1..2 => Due' \in 1..2
  BY <1>5, <1>6, <1>7
<1>9. Single => Single'
  BY <1>1, <1>3 DEF Single
<1>10. ASSUME made > 0 PROVE 1 \in Conn
  BY <1>10, MadeOne, MaxConnAssumption DEF BaseInv, Conn
<1>11. ASSUME made > 0, ws'[1] = "connecting" PROVE 1 \in thens'
  BY <1>1, <1>2, <1>10, <1>11 DEF CountInv
<1>12. made > 0 => (FirstTryFailed' <=> FirstTryFailed)
  <2>1. CASE n = 1
    BY <1>1, <1>2, <2>1 DEF FirstTryFailed
  <2>2. CASE n # 1
    BY <1>1, <1>2, <1>10, <2>2 DEF FirstTryFailed
  <2> QED BY <2>1, <2>2
<1>13. made' = 0 => timers' = {}
  BY <1>1 DEF CountInv
<1> QED BY <1>1, <1>5, <1>8, <1>9, <1>11, <1>12, <1>13 DEF CountInv

\* A timer takes the place of the socket, two of the click's own.
LEMMA CountClosed ==
    ASSUME BaseInv, CountInv, NEW n \in Conn, Closed(n) PROVE CountInv'
<1>1. PICK tc \in Timer, ta \in Timer : tc = NewTimer(n, "close") /\ ta = NewTimer(n, "catch")
  BY NewTimerType
<1>2. /\ ws[n] \in {"connecting", "open"} /\ ws' = [ws EXCEPT ![n] = "closed"]
      /\ timers' = timers \cup {tc} \cup (IF n = 1 /\ ws[n] = "connecting" THEN {ta} ELSE {})
      /\ made' = made /\ thens' = thens
  BY <1>1 DEF Closed
<1>3. ws'[n] = "closed" /\ \A k \in Conn : k # n => ws'[k] = ws[k]
  BY <1>2 DEF BaseInv, TypeOK
<1>4. Busy' = Busy \ {n} /\ n \in Busy
  BY <1>2, <1>3 DEF Busy
<1>5. made > 0 /\ made # 0 /\ 1 \in Conn
  <2>1. made \in Conn
    BY <1>2, ConnFacts DEF BaseInv
  <2>2. made \in Nat /\ made >= 1 /\ made <= MaxConn
    BY <2>1, MaxConnAssumption DEF Conn
  <2> QED BY <2>2, MaxConnAssumption DEF Conn
<1>6. Cardinality(Busy') = Cardinality(Busy) - 1 /\ Cardinality(Busy) \in Nat
  BY <1>4, BusyFacts, FS_RemoveElement DEF BaseInv
<1>7. IsFiniteSet(timers) /\ Cardinality(timers) \in Nat
  BY FS_CardinalityType DEF CountInv
<1>8. /\ IsFiniteSet(timers \cup {tc})
      /\ Cardinality(timers \cup {tc}) \in {Cardinality(timers), Cardinality(timers) + 1}
      /\ Cardinality(timers \cup {tc}) \in Nat /\ Cardinality(timers \cup {tc}) # 0
  <2>1. timers \cup {tc} # {}
    OBVIOUS
  <2>2. /\ IsFiniteSet(timers \cup {tc})
        /\ Cardinality(timers \cup {tc}) \in {Cardinality(timers), Cardinality(timers) + 1}
    BY <1>7, FS_AddElement
  <2>3. Cardinality(timers \cup {tc}) # 0 /\ Cardinality(timers \cup {tc}) \in Nat
    BY <2>1, <2>2, FS_EmptySet, FS_CardinalityType
  <2> QED BY <2>2, <2>3
<1>9. Due = Cardinality(Busy) + Cardinality(timers) /\ Due' = Cardinality(Busy') + Cardinality(timers')
  <2>1. Due' = Cardinality(Busy') + Cardinality(timers')
    BY DEF Due, Busy
  <2> QED BY <2>1, BusyFacts DEF BaseInv
<1>10. CASE n = 1 /\ ws[1] = "connecting"
  <2>1. 1 \in thens /\ ~FirstTryFailed
    BY <1>5, <1>10 DEF CountInv, FirstTryFailed
  <2>2. Busy = {made} /\ timers = {}
    BY <1>4, <1>5, <2>1 DEF CountInv, Single
  <2>3. Busy' = {} /\ timers' = {tc} \cup {ta}
    BY <1>2, <1>4, <1>10, <2>2
  <2>4. Cardinality(Busy') = 0
    BY <2>3, FS_EmptySet
  <2>5. IsFiniteSet(timers') /\ Cardinality(timers') \in 1..2
    <3>1. IsFiniteSet({tc}) /\ Cardinality({tc}) = 1
      BY FS_Singleton
    <3>2. /\ IsFiniteSet({tc} \cup {ta})
          /\ Cardinality({tc} \cup {ta}) = IF ta \in {tc} THEN Cardinality({tc}) ELSE Cardinality({tc}) + 1
      BY <3>1, FS_AddElement
    <3>3. Cardinality({tc} \cup {ta}) \in 1..2
      BY <3>1, <3>2
    <3> QED BY <2>3, <3>2, <3>3
  <2>6. Due' \in 1..2
    BY <1>9, <2>4, <2>5
  <2>7. FirstTryFailed'
    BY <1>2, <1>3, <1>10, <2>1 DEF FirstTryFailed
  <2>8. ws'[1] # "connecting"
    BY <1>3, <1>10
  <2> QED BY <1>2, <1>5, <2>5, <2>6, <2>7, <2>8 DEF CountInv
<1>11. CASE ~(n = 1 /\ ws[1] = "connecting")
  <2>1. timers' = timers \cup {tc}
    BY <1>2, <1>11
  <2>2. Due \in 1..2 => Due' \in 1..2
    <3>1. Due' = Cardinality(Busy) - 1 + Cardinality(timers \cup {tc})
      BY <1>6, <1>9, <2>1
    <3>2. PICK b \in Nat, t \in Nat, u \in Nat :
              b = Cardinality(Busy) /\ t = Cardinality(timers) /\ u = Cardinality(timers \cup {tc})
      BY <1>6, <1>7, <1>8
    <3>3. b # 0
      BY <1>4, <3>2, BusyFacts, FS_EmptySet DEF BaseInv
    <3>4. u # 0 /\ (u = t \/ u = t + 1)
      BY <1>8, <3>2
    <3>5. b + t \in 1..2 => b - 1 + u \in 1..2
      BY <3>3, <3>4
    <3> QED BY <1>9, <3>1, <3>2, <3>5
  <2>3. Single => Single'
    BY <1>4, <2>1 DEF Single
  <2>4. ws[1] = "connecting" => n # 1
    BY <1>11
  <2>5. ws'[1] = "connecting" => 1 \in thens'
    BY <1>2, <1>3, <1>5, <2>4 DEF CountInv
  <2>6. ~FirstTryFailed /\ Single' => (IF FirstTryFailed' THEN Due' \in 1..2 ELSE Single')
    <3>1. ASSUME Single' PROVE Due' = 1
      <4>1. Busy' = {} /\ \E t \in Timer : timers' = {t}
        BY <1>4, <3>1, <2>1 DEF Single
      <4>2. Cardinality(Busy') = 0 /\ Cardinality(timers') = 1
        BY <4>1, FS_EmptySet, FS_Singleton
      <4> QED BY <1>9, <4>2
    <3>2. 1 \in 1..2
      OBVIOUS
    <3> QED BY <3>1, <3>2
  <2>7. FirstTryFailed => FirstTryFailed'
    BY <1>2, <1>3, <1>4, <1>5 DEF FirstTryFailed
  <2> QED BY <1>2, <1>5, <1>8, <2>1, <2>2, <2>3, <2>5, <2>6, <2>7 DEF CountInv
<1> QED BY <1>10, <1>11

LEMMA CountStep == BaseInv /\ CountInv /\ [Next]_vars => CountInv'
<1> SUFFICES ASSUME BaseInv, CountInv, [Next]_vars PROVE CountInv'
  OBVIOUS
<1>1. CASE UNCHANGED vars
  BY <1>1, CountSame DEF vars, reconnect
<1>2. CASE startWatch
  BY <1>2, CountPlay DEF startWatch
<1>3. ASSUME NEW t \in timers, Reconnect(t) PROVE CountInv'
  <2>1. made > 0
    <3>1. made # 0
      BY DEF CountInv
    <3> QED BY <3>1, ConnFacts DEF BaseInv
  <2>2. playStream(t.by = "close") /\ timers' = timers \ {t} /\ (t.by = "close") \in BOOLEAN
    BY <1>3 DEF Reconnect
  <2> QED BY <2>1, <2>2, CountPlay
<1>4. ASSUME NEW n \in Conn, onopen(n) PROVE CountInv'
  BY <1>4, CountOpen
<1>5. ASSUME NEW n \in Conn, Closed(n) PROVE CountInv'
  BY <1>5, CountClosed
<1>6. ASSUME NEW n \in Conn,
             \/ onIncomingSDP(n) \/ CreateAnswer(n) \/ onLocalDescription(n) \/ SendAnswer(n)
             \/ onIncomingICE(n) \/ onIceCandidate(n)
             \/ soup_websocket_handler(n) \/ on_offer_created_cb(n)
             \/ on_ice_candidate_cb(n) \/ ReadAnswer(n) \/ ReadIce(n)
             \/ soup_websocket_closed_cb(n) \/ Lose(n)
      PROVE  CountInv'
  <2>1. UNCHANGED <<made, thens, ws, timers>>
    BY <1>6 DEF onIncomingSDP, CreateAnswer, onLocalDescription, SendAnswer, onIncomingICE, PageReads,
       onIceCandidate, soup_websocket_handler, on_offer_created_cb, on_ice_candidate_cb,
       ReadAnswer, ReadIce, ServerReads, soup_websocket_closed_cb, Lose, reconnect
  <2> QED BY <2>1, CountSame
<1> QED BY <1>1, <1>2, <1>3, <1>4, <1>5, <1>6, NextCases

LEMMA CountInit == Init => CountInv
  BY FS_EmptySet DEF Init, CountInv
-----------------------------------------------------------------------------
\* Queues.
LEMMA OneTail ==
    ASSUME NEW q \in Seq(Message), q # <<>>, NEW what
    PROVE  /\ AtMostOne(q, what) => AtMostOne(Tail(q), what)
           /\ Has(Tail(q), what) => Has(q, what)
           /\ AtMostOne(q, what) /\ Head(q).what = what => ~Has(Tail(q), what)
           /\ Head(q).what = what => Has(q, what)
<1>1. PICK t : t = Tail(q)
  OBVIOUS
<1>2. /\ Head(q) = q[1] /\ 1 \in DOMAIN q
      /\ \A i \in DOMAIN t : i + 1 \in DOMAIN q /\ t[i] = q[i + 1] /\ i \in Nat /\ i + 1 # 1
  BY <1>1, QueueTail
<1>3. AtMostOne(q, what) => AtMostOne(t, what)
  <2> SUFFICES ASSUME AtMostOne(q, what), NEW i \in DOMAIN t, NEW j \in DOMAIN t,
                      t[i].what = what, t[j].what = what
               PROVE  i = j
    BY DEF AtMostOne
  <2>1. i + 1 = j + 1
    BY <1>2 DEF AtMostOne
  <2> QED BY <1>2, <2>1
<1>4. Has(t, what) => Has(q, what)
  BY <1>2 DEF Has
<1>5. AtMostOne(q, what) /\ Head(q).what = what => ~Has(t, what)
  BY <1>2 DEF AtMostOne, Has
<1>6. Head(q).what = what => Has(q, what)
  BY <1>2 DEF Has
<1> QED BY <1>1, <1>3, <1>4, <1>5, <1>6

LEMMA TailKeeps ==
    ASSUME NEW q \in Seq(Message), q # <<>>, NEW what, Head(q).what # what
    PROVE  Has(Tail(q), what) <=> Has(q, what)
<1>1. ASSUME NEW i \in DOMAIN q, q[i].what = what PROVE Has(Tail(q), what)
  <2>1. i # 1
    BY <1>1, QueueTail
  <2>2. (i - 1) \in DOMAIN Tail(q) /\ Tail(q)[i - 1] = q[i]
    BY <2>1
  <2> QED BY <1>1, <2>2 DEF Has
<1>2. Has(q, what) => Has(Tail(q), what)
  BY <1>1 DEF Has
<1> QED BY <1>2, OneTail

LEMMA OneAppend ==
    ASSUME NEW q \in Seq(Message), NEW m \in Message, NEW what
    PROVE  /\ AtMostOne(q, what) /\ (m.what = what => ~Has(q, what)) => AtMostOne(Append(q, m), what)
           /\ Has(Append(q, m), what) <=> Has(q, what) \/ m.what = what
<1>1. PICK t : t = Append(q, m)
  OBVIOUS
<1>2. /\ Len(q) + 1 \in DOMAIN t /\ t[Len(q) + 1] = m
      /\ \A i \in DOMAIN q : i \in DOMAIN t /\ t[i] = q[i]
      /\ \A i \in DOMAIN t : i = Len(q) + 1 \/ (i \in DOMAIN q /\ i # Len(q) + 1)
  BY <1>1, QueueAppend
<1>3. Has(t, what) <=> Has(q, what) \/ m.what = what
  BY <1>2 DEF Has
<1>4. AtMostOne(q, what) /\ (m.what = what => ~Has(q, what)) => AtMostOne(t, what)
  BY <1>2 DEF AtMostOne, Has
<1> QED BY <1>1, <1>3, <1>4

LEMMA NearTail ==
    ASSUME NEW q \in Seq(Message), q # <<>>, NEW n, Near(q, n)
    PROVE  /\ Near(Tail(q), n)
           /\ Head(q).what = "answer" => Head(q).of = n
           /\ Head(q).what = "ice" => Head(q).of <= n
<1>1. PICK t : t = Tail(q)
  OBVIOUS
<1>2. /\ Head(q) = q[1] /\ 1 \in DOMAIN q
      /\ \A i \in DOMAIN t : i + 1 \in DOMAIN q /\ t[i] = q[i + 1]
  BY <1>1, QueueTail
<1>3. Near(t, n)
  BY <1>2 DEF Near
<1>4. (q[1].what = "answer" => q[1].of = n) /\ (q[1].what = "ice" => q[1].of <= n)
  BY <1>2 DEF Near
<1> QED BY <1>1, <1>2, <1>3, <1>4

LEMMA NearAppend ==
    ASSUME NEW q \in Seq(Message), NEW m \in Message, NEW n, Near(q, n),
           m.what = "answer" => m.of = n, m.what = "ice" => m.of <= n
    PROVE  Near(Append(q, m), n)
  BY QueueAppend DEF Near

LEMMA NothingIn == \A n, what : AtMostOne(<<>>, what) /\ ~Has(<<>>, what) /\ Near(<<>>, n)
  BY NoMessage DEF AtMostOne, Has, Near
-----------------------------------------------------------------------------
\* While the first try has not failed, what is under way is of the connection
\* of the moment.
LEMMA TheOne ==
    ASSUME BaseInv, CountInv, ~FirstTryFailed, NEW n \in Conn, ws[n] \in {"connecting", "open"}
    PROVE  n = made /\ timers = {}
<1>1. n \in Busy
  BY DEF Busy
<1>2. made > 0
  <2>1. n <= made /\ n \in Nat /\ n >= 1 /\ made \in Nat
    BY ConnFacts DEF BaseInv
  <2> QED BY <2>1
<1>3. Single
  BY <1>2 DEF CountInv
<1> QED BY <1>1, <1>3 DEF Single

\* The parts of the invariant about the messages of a connection.
LEMMA OrderedParts ==
    ASSUME Ordered, NEW n \in Conn PROVE OnceOf(n) /\ Near(toServer[n], n)
  BY DEF Ordered, Once, ToServerIsNear

LEMMA OrderPlay ==
    ASSUME BaseInv, CountInv, ~FirstTryFailed, Ordered, startWatch \/ \E t \in timers : Reconnect(t)
    PROVE  Ordered'
<1>1. PICK then \in BOOLEAN : playStream(then) /\ timers' \subseteq timers
  BY DEF startWatch, Reconnect
<1>2. /\ made' = made + 1 /\ made \in Nat
      /\ UNCHANGED <<pc, neg, sess, toServer, toPage, strays>>
  BY <1>1, Played, ConnFacts DEF BaseInv, peer, wire
<1>3. \A n \in Conn : neg[n].stage = "idle"
  <2>1. CASE startWatch
    BY <2>1, <1>2 DEF BaseInv, MadeFirst, startWatch
  <2>2. ASSUME NEW t \in timers, Reconnect(t) PROVE \A n \in Conn : neg[n].stage = "idle"
    BY <2>2 DEF Reconnect, Ordered, Pending
  <2> QED BY <2>1, <2>2
<1>4. Pending'
  BY <1>2, <1>3 DEF Pending
<1>5. AnsweredMade'
  BY <1>2, ConnFacts DEF BaseInv, Ordered, AnsweredMade
<1>6. ToServerIsNear' /\ OnlyOld'
  BY <1>2 DEF Ordered, ToServerIsNear, Near, OnlyOld
<1>7. Once'
  BY <1>2 DEF Ordered, Once, OnceOf, AtMostOne, Has
<1> QED BY <1>4, <1>5, <1>6, <1>7 DEF Ordered

\* What leaves the messages, the sessions and the negotiations alone.
LEMMA OrderSame ==
    ASSUME Ordered, timers' \subseteq timers,
           UNCHANGED <<made, pc, neg, sess, toServer, toPage, strays>>
    PROVE  Ordered'
<1>1. Pending'
  BY DEF Ordered, Pending
<1>2. AnsweredMade' /\ OnlyOld'
  BY DEF Ordered, AnsweredMade, OnlyOld
<1>3. ToServerIsNear'
  BY DEF Ordered, ToServerIsNear, Near
<1>4. Once'
  BY DEF Ordered, Once, OnceOf, AtMostOne, Has
<1> QED BY <1>1, <1>2, <1>3, <1>4 DEF Ordered

\* What changes only the messages and the session of connection n.
LEMMA OrderOne ==
    ASSUME Ordered, NEW n \in Conn,
           \A k \in Conn : k # n => /\ toPage'[k] = toPage[k] /\ toServer'[k] = toServer[k]
                                    /\ neg'[k] = neg[k] /\ sess'[k] = sess[k],
           OnceOf(n)', Near(toServer[n], n)', Pending', AnsweredMade', OnlyOld'
    PROVE  Ordered'
<1>1. Once'
  <2> SUFFICES ASSUME NEW k \in Conn PROVE OnceOf(k)'
    BY DEF Once
  <2>1. CASE k = n
    BY <2>1
  <2>2. CASE k # n
    BY <2>2, OrderedParts DEF OnceOf, AtMostOne, Has
  <2> QED BY <2>1, <2>2
<1>2. ToServerIsNear'
  <2> SUFFICES ASSUME NEW k \in Conn PROVE Near(toServer[k], k)'
    BY DEF ToServerIsNear
  <2>1. CASE k = n
    BY <2>1
  <2>2. CASE k # n
    BY <2>2, OrderedParts DEF Near
  <2> QED BY <2>1, <2>2
<1> QED BY <1>1, <1>2 DEF Ordered

\* The same with no negotiation begun or ended.
LEMMA OrderQuiet ==
    ASSUME Ordered, NEW n \in Conn, UNCHANGED <<made, timers, neg, pc>>,
           \A k \in Conn : k # n => /\ toPage'[k] = toPage[k] /\ toServer'[k] = toServer[k]
                                    /\ sess'[k] = sess[k],
           OnceOf(n)', Near(toServer[n], n)', OnlyOld'
    PROVE  Ordered'
<1>1. Pending' /\ AnsweredMade'
  BY DEF Ordered, Pending, AnsweredMade
<1> QED BY <1>1, OrderOne

LEMMA OrderClosed ==
    ASSUME BaseInv, CountInv, ~FirstTryFailed, Ordered, NEW n \in Conn, Closed(n) PROVE Ordered'
<1>1. PICK tc, ta : tc = NewTimer(n, "close") /\ ta = NewTimer(n, "catch")
  OBVIOUS
<1>2. /\ toPage' = [toPage EXCEPT ![n] = <<>>] /\ timers' \subseteq timers \cup {tc, ta}
      /\ UNCHANGED <<made, pc, neg, sess, toServer, strays>>
  BY <1>1 DEF Closed, peer
<1>3. toPage'[n] = <<>> /\ \A k \in Conn : k # n => toPage'[k] = toPage[k]
  BY <1>2 DEF BaseInv, TypeOK
<1>4. tc.waits = {m \in Conn : neg[m].stage # "idle"} /\ ta.waits = {m \in Conn : neg[m].stage # "idle"}
  BY <1>1 DEF NewTimer
<1>5. Pending'
  BY <1>2, <1>4 DEF Ordered, Pending
<1>6. AnsweredMade' /\ OnlyOld'
  BY <1>2 DEF Ordered, AnsweredMade, OnlyOld
<1>7. ~Has(toPage'[n], "offer") /\ AtMostOne(toPage'[n], "offer")
  BY <1>3, NothingIn
<1>8. OnceOf(n)' /\ Near(toServer[n], n)'
  BY <1>2, <1>7, OrderedParts DEF OnceOf, AtMostOne, Has, Near
<1> QED BY <1>2, <1>3, <1>5, <1>6, <1>8, OrderOne

\* Sessions: a new one is to offer, one that ended reads no more.
LEMMA OrderHandler ==
    ASSUME BaseInv, Ordered, NEW n \in Conn,
           soup_websocket_handler(n) \/ on_offer_created_cb(n) \/ soup_websocket_closed_cb(n)
    PROVE  Ordered'
<1>1. OnceOf(n) /\ Near(toServer[n], n) /\ OnlyOld /\ toPage[n] \in Seq(Message)
  BY OrderedParts, Parts DEF Ordered
<1>2. CASE soup_websocket_handler(n)
  <2>1. /\ sess[n] = "none" /\ sess'[n] = "new" /\ \A k \in Conn : k # n => sess'[k] = sess[k]
        /\ UNCHANGED <<made, timers, neg, pc, toPage, toServer, strays>>
    BY <1>2, Parts DEF soup_websocket_handler, TypeOK, reconnect, peer, wire
  <2>2. OnceOf(n)' /\ Near(toServer[n], n)' /\ OnlyOld'
    BY <1>1, <2>1 DEF OnceOf, AtMostOne, Has, Near, OnlyOld
  <2> QED BY <2>1, <2>2, OrderQuiet
<1>3. CASE on_offer_created_cb(n)
  <2>1. /\ sess[n] = "new" /\ sess'[n] = "offered" /\ \A k \in Conn : k # n => sess'[k] = sess[k]
        /\ UNCHANGED <<made, timers, neg, pc, toServer, strays>>
    BY <1>3, Parts DEF on_offer_created_cb, TypeOK, reconnect, peer
  <2>2. PICK m \in Message : m = Msg("offer", n) /\ m.what = "offer"
    <3>1. Msg("offer", n) \in Message /\ Msg("offer", n).what = "offer"
      BY ConnFacts, Parts DEF Msg, Message
    <3> QED BY <3>1
  <2>3. /\ \A k \in Conn : k # n => toPage'[k] = toPage[k]
        /\ toPage'[n] = toPage[n] \/ toPage'[n] = Append(toPage[n], m)
    BY <1>3, <2>2, Told, Parts DEF on_offer_created_cb
  <2>4. AtMostOne(toPage'[n], "offer")
    <3>1. AtMostOne(toPage[n], "offer") /\ ~Has(toPage[n], "offer")
      BY <1>1, <2>1 DEF OnceOf
    <3>2. AtMostOne(Append(toPage[n], m), "offer")
      BY <1>1, <3>1, OneAppend
    <3> QED BY <2>3, <3>1, <3>2, Zenon
  <2>5. neg[n].stage = "idle" /\ ~Has(toServer[n], "answer") /\ AtMostOne(toServer[n], "answer")
    BY <1>1, <2>1 DEF OnceOf
  <2>6. OnceOf(n)' /\ Near(toServer[n], n)' /\ OnlyOld'
    BY <1>1, <2>1, <2>4, <2>5 DEF OnceOf, AtMostOne, Has, Near, OnlyOld
  <2> QED BY <2>1, <2>3, <2>6, OrderQuiet
<1>4. CASE soup_websocket_closed_cb(n)
  <2>1. /\ sess'[n] = "gone" /\ \A k \in Conn : k # n => sess'[k] = sess[k]
        /\ toServer'[n] = <<>> /\ \A k \in Conn : k # n => toServer'[k] = toServer[k]
        /\ UNCHANGED <<made, timers, neg, pc, toPage, strays>>
    BY <1>4, Parts DEF soup_websocket_closed_cb, TypeOK, reconnect, peer
  <2>2. ~Has(toServer'[n], "answer") /\ AtMostOne(toServer'[n], "answer") /\ Near(toServer'[n], n)
    BY <2>1, NothingIn
  <2>3. OnceOf(n)' /\ Near(toServer[n], n)' /\ OnlyOld'
    BY <1>1, <2>1, <2>2 DEF OnceOf, AtMostOne, Has, Near, OnlyOld
  <2> QED BY <2>1, <2>3, OrderQuiet
<1> QED BY <1>2, <1>3, <1>4

\* Candidates of the page may be of an older connection than the socket's.
LEMMA OrderIce ==
    ASSUME BaseInv, Ordered, NEW n \in Conn, onIceCandidate(n) \/ on_ice_candidate_cb(n)
    PROVE  Ordered'
<1>1. PICK m \in Message : m = Msg("ice", n) /\ m.what = "ice" /\ m.of = n
  <2>1. Msg("ice", n) \in Message /\ Msg("ice", n).what = "ice" /\ Msg("ice", n).of = n
    BY ConnFacts, Parts DEF Msg, Message
  <2> QED BY <2>1
<1>2. CASE on_ice_candidate_cb(n)
  <2>1. OnceOf(n) /\ Near(toServer[n], n) /\ OnlyOld /\ toPage[n] \in Seq(Message)
    BY OrderedParts, Parts DEF Ordered
  <2>2. /\ UNCHANGED <<made, timers, neg, pc, sess, toServer, strays>>
        /\ \A k \in Conn : k # n => toPage'[k] = toPage[k]
        /\ toPage'[n] = toPage[n] \/ toPage'[n] = Append(toPage[n], m)
    BY <1>1, <1>2, Told, Parts DEF on_ice_candidate_cb, reconnect, peer
  <2>3. AtMostOne(toPage[n], "offer")
    BY <2>1 DEF OnceOf
  <2>4. AtMostOne(toPage'[n], "offer") /\ (Has(toPage'[n], "offer") <=> Has(toPage[n], "offer"))
    <3>1. /\ AtMostOne(Append(toPage[n], m), "offer")
          /\ Has(Append(toPage[n], m), "offer") <=> Has(toPage[n], "offer")
      BY <1>1, <2>1, <2>3, OneAppend
    <3> QED BY <2>2, <2>3, <3>1, Zenon
  <2>5. OnceOf(n)' /\ Near(toServer[n], n)' /\ OnlyOld'
    BY <2>1, <2>2, <2>4 DEF OnceOf, AtMostOne, Has, Near, OnlyOld
  <2> QED BY <2>2, <2>5, OrderQuiet
<1>3. CASE onIceCandidate(n)
  <2>1. n <= made
    BY <1>3 DEF onIceCandidate, Ordered, AnsweredMade
  <2>2. made \in Conn
    BY <2>1, ConnFacts, Parts
  <2>3. OnceOf(made) /\ Near(toServer[made], made) /\ OnlyOld /\ toServer[made] \in Seq(Message)
    BY <2>2, OrderedParts, Parts DEF Ordered
  <2>4. /\ UNCHANGED <<made, timers, neg, pc, sess, toPage, strays>>
        /\ \A k \in Conn : k # made => toServer'[k] = toServer[k]
        /\ toServer'[made] = toServer[made] \/ toServer'[made] = Append(toServer[made], m)
    BY <1>1, <1>3, <2>2, Sent, Parts DEF onIceCandidate, reconnect, peer
  <2>5. AtMostOne(toServer[made], "answer")
    BY <2>3 DEF OnceOf
  <2>6. /\ AtMostOne(toServer'[made], "answer") /\ Near(toServer'[made], made)
        /\ Has(toServer'[made], "answer") <=> Has(toServer[made], "answer")
    <3>1. /\ AtMostOne(Append(toServer[made], m), "answer")
          /\ Has(Append(toServer[made], m), "answer") <=> Has(toServer[made], "answer")
      BY <1>1, <2>3, <2>5, OneAppend
    <3>2. Near(Append(toServer[made], m), made)
      BY <1>1, <2>1, <2>3, NearAppend
    <3> QED BY <2>3, <2>4, <2>5, <3>1, <3>2, Zenon
  <2>7. PICK c \in Conn : c = made
    BY <2>2
  <2>8. OnlyOld' /\ Near(toServer[c], c)'
    BY <2>3, <2>4, <2>6, <2>7 DEF Near, OnlyOld
  <2>9. OnceOf(c)'
    BY <2>3, <2>4, <2>6, <2>7 DEF OnceOf, AtMostOne, Has
  <2> QED BY <2>4, <2>7, <2>8, <2>9, OrderQuiet
<1> QED BY <1>2, <1>3

\* Only the connection of the moment has a socket to read from.
LEMMA OrderReads ==
    ASSUME BaseInv, CountInv, ~FirstTryFailed, Ordered, NEW n \in Conn,
           onIncomingSDP(n) \/ onIncomingICE(n)
    PROVE  Ordered'
<1>1. PICK what \in {"offer", "ice"} : PageReads(n, what) /\ (onIncomingSDP(n) => what = "offer")
                                       /\ (~onIncomingSDP(n) => onIncomingICE(n) /\ what = "ice")
  BY DEF onIncomingSDP, onIncomingICE
<1>2. /\ toPage'[n] = Tail(toPage[n]) /\ toPage[n] \in Seq(Message) /\ toPage[n] # <<>>
      /\ Head(toPage[n]).what = what
      /\ \A k \in Conn : k # n => toPage'[k] = toPage[k]
      /\ UNCHANGED <<made, reconnect, ws, pc, sess, network, gathered, toServer>>
      /\ ws[n] = "open"
  BY <1>1, PageTakes, Parts
<1>3. n = made /\ timers = {}
  BY <1>2, TheOne
<1>4. strays' = strays
  BY <1>3 DEF onIncomingSDP, onIncomingICE, Stray
<1>5. OnceOf(n) /\ Near(toServer[n], n) /\ OnlyOld /\ Pending /\ AnsweredMade
  BY OrderedParts DEF Ordered
<1>6. /\ AtMostOne(toPage'[n], "offer") /\ (Has(toPage'[n], "offer") => Has(toPage[n], "offer"))
      /\ what = "offer" => ~Has(toPage'[n], "offer") /\ Has(toPage[n], "offer")
  <2>1. AtMostOne(toPage[n], "offer")
    BY <1>5 DEF OnceOf
  <2>2. /\ AtMostOne(Tail(toPage[n]), "offer") /\ (Has(Tail(toPage[n]), "offer") => Has(toPage[n], "offer"))
        /\ what = "offer" => ~Has(Tail(toPage[n]), "offer") /\ Has(toPage[n], "offer")
    BY <1>2, <2>1, OneTail
  <2> QED BY <1>2, <2>2, Zenon
<1>7. AnsweredMade' /\ OnlyOld'
  BY <1>2, <1>4, <1>5 DEF AnsweredMade, OnlyOld
<1>8. Near(toServer[n], n)'
  BY <1>2, <1>5 DEF Near
<1>9. CASE what = "offer"
  <2>1. neg' = [neg EXCEPT ![n] = [stage |-> "remote", at |-> made, to |-> 0]]
    BY <1>1, <1>9 DEF onIncomingSDP
  <2>2. /\ neg'[n].stage = "remote" /\ neg'[n].at = made
        /\ \A k \in Conn : k # n => neg'[k] = neg[k]
    BY <2>1, Parts
  <2>3. timers' = {}
    BY <1>2, <1>3 DEF reconnect
  <2>4. Pending'
    BY <1>2, <1>3, <1>5, <2>2, <2>3 DEF Pending
  <2>5. ~Has(toServer[n], "answer") /\ sess[n] \notin {"none", "new", "answered"}
    BY <1>5, <1>6, <1>9 DEF OnceOf
  <2>6. toServer' = toServer /\ sess' = sess
    BY <1>2
  <2>7. OnceOf(n)'
    BY <1>5, <1>6, <1>9, <2>5, <2>6 DEF OnceOf, AtMostOne, Has
  <2> QED BY <1>2, <1>7, <1>8, <2>2, <2>4, <2>7, OrderOne
<1>10. CASE what = "ice"
  <2>1. neg' = neg /\ timers' = timers
    BY <1>1, <1>2, <1>10 DEF onIncomingICE, reconnect
  <2>2. OnceOf(n)'
    BY <1>2, <1>5, <1>6, <2>1 DEF OnceOf, AtMostOne, Has
  <2> QED BY <1>2, <1>7, <1>8, <2>1, <2>2, OrderQuiet
<1> QED BY <1>9, <1>10

\* A promise chain answers its session's offer on its session's connection.
LEMMA OrderChain ==
    ASSUME BaseInv, Ordered, NEW n \in Conn,
           CreateAnswer(n) \/ onLocalDescription(n) \/ SendAnswer(n)
    PROVE  Ordered'
<1>1. /\ neg[n] \in Neg /\ neg[n].stage # "idle" /\ made = n /\ neg[n].at = n
      /\ neg[n].stage \in {"answer", "local"} => neg[n].to = n
      /\ \A t \in timers : n \in t.waits
  BY Parts DEF Ordered, Pending, CreateAnswer, onLocalDescription, SendAnswer
<1>2. OnceOf(n) /\ Near(toServer[n], n) /\ OnlyOld /\ Pending /\ AnsweredMade
      /\ toServer[n] \in Seq(Message) /\ n \in Nat /\ n >= 1
  BY OrderedParts, Parts, ConnFacts DEF Ordered
<1>3. ~Has(toPage[n], "offer") /\ ~Has(toServer[n], "answer")
      /\ sess[n] \notin {"none", "new", "answered"}
      /\ AtMostOne(toPage[n], "offer") /\ AtMostOne(toServer[n], "answer")
  BY <1>1, <1>2 DEF OnceOf
<1>4. UNCHANGED <<made, timers, sess, toPage, strays>>
  BY DEF CreateAnswer, onLocalDescription, SendAnswer, wire, reconnect
<1>5. OnlyOld'
  BY <1>2, <1>4 DEF OnlyOld
<1>6. CASE CreateAnswer(n)
  <2>1. /\ pc' = [pc EXCEPT ![n].offer = n, ![n].answered = 0] /\ toServer' = toServer
        /\ neg' = [neg EXCEPT ![n] =
                     IF pc'[n].offer # 0 /\ pc'[n].answered = 0
                     THEN [stage |-> "answer", at |-> n, to |-> pc'[n].offer] ELSE Idle]
    BY <1>1, <1>6 DEF CreateAnswer, wire
  <2>2. pc[n] \in Peer
    BY Parts
  <2>3. pc'[n].offer = n /\ pc'[n].answered = 0 /\ \A k \in Conn : k # n => pc'[k] = pc[k]
    BY <2>1, <2>2, Parts DEF Peer
  <2>4. neg'[n] = [stage |-> "answer", at |-> n, to |-> n] /\ \A k \in Conn : k # n => neg'[k] = neg[k]
    <3>1. n # 0
      BY <1>2
    <3>2. neg' = [neg EXCEPT ![n] = [stage |-> "answer", at |-> n, to |-> n]]
      BY <2>1, <2>3, <3>1
    <3> QED BY <3>2, Parts
  <2>5. AnsweredMade'
    BY <1>2, <1>4, <2>3 DEF AnsweredMade
  <2>6. Pending'
    BY <1>1, <1>2, <1>4, <2>4 DEF Pending
  <2>7. OnceOf(n)' /\ Near(toServer[n], n)'
    BY <1>2, <1>3, <1>4, <2>1 DEF OnceOf, AtMostOne, Has, Near
  <2> QED BY <1>4, <1>5, <2>1, <2>4, <2>5, <2>6, <2>7, OrderOne
<1>7. CASE onLocalDescription(n)
  <2>1. /\ pc' = pc /\ toServer' = toServer
        /\ neg[n].stage = "answer"
        /\ \/ neg' = [neg EXCEPT ![n] = [neg[n] EXCEPT !.stage = "local"]]
           \/ neg' = [neg EXCEPT ![n] = Idle]
    BY <1>7 DEF onLocalDescription, wire
  <2>2. /\ neg'[n].stage = "idle" \/ (neg'[n].stage = "local" /\ neg'[n].at = n /\ neg'[n].to = n)
        /\ \A k \in Conn : k # n => neg'[k] = neg[k]
    <3>1. PICK r \in Neg : /\ neg' = [neg EXCEPT ![n] = r]
                           /\ r.stage = "idle" \/ (r.stage = "local" /\ r.at = n /\ r.to = n)
      <4>1. PICK l : l = [neg[n] EXCEPT !.stage = "local"]
        OBVIOUS
      <4>2. l \in Neg /\ l.stage = "local" /\ l.at = n /\ l.to = n
        BY <1>1, <2>1, <4>1 DEF Neg
      <4> QED BY <2>1, <4>1, <4>2, IdleType
    <3> QED BY <3>1, Parts
  <2>3. AnsweredMade'
    BY <1>2, <1>4, <2>1 DEF AnsweredMade
  <2>4. Pending'
    BY <1>1, <1>2, <1>4, <2>2 DEF Pending
  <2>5. OnceOf(n)' /\ Near(toServer[n], n)'
    BY <1>2, <1>3, <1>4, <2>1 DEF OnceOf, AtMostOne, Has, Near
  <2> QED BY <1>4, <1>5, <2>1, <2>2, <2>3, <2>4, <2>5, OrderOne
<1>8. CASE SendAnswer(n)
  <2>1. neg[n].stage = "local" /\ neg' = [neg EXCEPT ![n] = Idle] /\ neg[n].to = n
    BY <1>1, <1>8 DEF SendAnswer
  <2>2. neg'[n].stage = "idle" /\ \A k \in Conn : k # n => neg'[k] = neg[k]
    BY <2>1, IdleType, Parts
  <2>3. Pending'
    BY <1>2, <1>4, <2>2 DEF Pending
  <2>4. CASE pc' = [pc EXCEPT ![n].answered = n] /\ Send(Msg("answer", pc'[n].answered))
    <3>1. pc'[n].answered = n /\ \A k \in Conn : k # n => pc'[k] = pc[k]
      BY <2>4, Parts DEF Peer
    <3>2. AnsweredMade'
      <4>1. n <= made
        BY <1>1, <1>2
      <4> QED BY <1>2, <1>4, <3>1, <4>1 DEF AnsweredMade
    <3>3. PICK m \in Message : m = Msg("answer", n) /\ m.what = "answer" /\ m.of = n
      <4>1. /\ Msg("answer", n) \in Message /\ Msg("answer", n).what = "answer"
            /\ Msg("answer", n).of = n
        BY ConnFacts, Parts DEF Msg, Message
      <4> QED BY <4>1
    <3>4. Send(m)
      BY <2>4, <3>1, <3>3
    <3>5. /\ \A k \in Conn : k # n => toServer'[k] = toServer[k]
          /\ \/ toServer'[n] = toServer[n]
             \/ toServer'[n] = Append(toServer[n], m) /\ ws[n] = "open" /\ n \notin broken
      BY <1>1, <3>4, Sent, Parts
    <3>6. CASE toServer'[n] = toServer[n]
      <4>1. OnceOf(n)' /\ Near(toServer[n], n)'
        BY <1>2, <1>3, <1>4, <3>6 DEF OnceOf, AtMostOne, Has, Near
      <4> QED BY <1>4, <1>5, <2>2, <2>3, <3>2, <3>5, <4>1, OrderOne
    <3>7. CASE toServer'[n] = Append(toServer[n], m) /\ ws[n] = "open" /\ n \notin broken
      <4>1. sess[n] = "offered"
        BY <1>3, <3>7, Parts DEF BaseInv, Ends, TypeOK
      <4>2. AtMostOne(Append(toServer[n], m), "answer") /\ Near(Append(toServer[n], m), n)
        BY <1>2, <1>3, <3>3, OneAppend, NearAppend
      <4>3. AtMostOne(toServer'[n], "answer") /\ Near(toServer'[n], n)
        BY <3>7, <4>2, Zenon
      <4>4. OnceOf(n)' /\ Near(toServer[n], n)'
        BY <1>3, <1>4, <2>2, <4>1, <4>3 DEF OnceOf, AtMostOne, Has, Near
      <4> QED BY <1>4, <1>5, <2>2, <2>3, <3>2, <3>5, <4>4, OrderOne
    <3> QED BY <3>5, <3>6, <3>7
  <2>5. CASE UNCHANGED <<pc, toServer>>
    <3>1. OnceOf(n)' /\ Near(toServer[n], n)' /\ AnsweredMade'
      BY <1>2, <1>3, <1>4, <2>5 DEF OnceOf, AtMostOne, Has, Near, AnsweredMade
    <3> QED BY <1>4, <1>5, <2>2, <2>3, <2>5, <3>1, OrderOne
  <2> QED BY <1>1, <1>8, <2>1, <2>4, <2>5 DEF SendAnswer
<1> QED BY <1>6, <1>7, <1>8

\* The answer that is read is the session's own and the first.
LEMMA OrderReadAnswer == ASSUME BaseInv, Ordered, NEW n \in Conn, ReadAnswer(n) PROVE Ordered'
<1>1. ServerReads(n, "answer")
  BY DEF ReadAnswer
<1>2. /\ toServer[n] \in Seq(Message) /\ toServer[n] # <<>> /\ Head(toServer[n]).what = "answer"
      /\ UNCHANGED <<made, reconnect, ws, peer, losses, gathered, toPage>>
  BY <1>1, ServerTakes, Parts
<1>3. OnceOf(n) /\ Near(toServer[n], n) /\ OnlyOld /\ n >= 1 /\ n \in Nat
  BY OrderedParts, ConnFacts, Parts DEF Ordered
<1>4. AtMostOne(toServer[n], "answer")
  BY <1>3 DEF OnceOf
<1>5. /\ Has(toServer[n], "answer") /\ ~Has(Tail(toServer[n]), "answer")
      /\ AtMostOne(Tail(toServer[n]), "answer")
  BY <1>2, <1>4, OneTail
<1>6. Head(toServer[n]).of = n /\ Near(Tail(toServer[n]), n)
  BY <1>2, <1>3, NearTail
<1>7. ~Has(toPage[n], "offer") /\ neg[n].stage = "idle" /\ sess[n] = "offered"
      /\ AtMostOne(toPage[n], "offer")
  BY <1>3, <1>5 DEF OnceOf
<1>8. Head(toServer[n]).of # 0
  BY <1>3, <1>6
<1>9. /\ strays' = strays /\ sess' = [sess EXCEPT ![n] = "answered"]
      /\ toServer' = [toServer EXCEPT ![n] = Tail(@)]
  BY <1>6, <1>7, <1>8 DEF ReadAnswer, Stray
<1>10. /\ toServer'[n] = Tail(toServer[n]) /\ \A k \in Conn : k # n => toServer'[k] = toServer[k]
       /\ sess'[n] = "answered" /\ \A k \in Conn : k # n => sess'[k] = sess[k]
  BY <1>9, Parts DEF TypeOK
<1>11. UNCHANGED <<made, timers, neg, pc, toPage>>
  BY <1>2 DEF reconnect, peer
<1>12. /\ ~Has(toServer'[n], "answer") /\ AtMostOne(toServer'[n], "answer") /\ Near(toServer'[n], n)
  BY <1>5, <1>6, <1>10, Zenon
<1>13. OnceOf(n)' /\ Near(toServer[n], n)' /\ OnlyOld'
  BY <1>3, <1>7, <1>9, <1>11, <1>12 DEF OnceOf, AtMostOne, Has, Near, OnlyOld
<1> QED BY <1>10, <1>11, <1>13, OrderQuiet

\* A candidate that goes astray is of an older connection.
LEMMA OrderReadIce == ASSUME BaseInv, Ordered, NEW n \in Conn, ReadIce(n) PROVE Ordered'
<1>1. ServerReads(n, "ice")
  BY DEF ReadIce
<1>2. /\ toServer[n] \in Seq(Message) /\ toServer[n] # <<>> /\ Head(toServer[n]).what = "ice"
      /\ Head(toServer[n]).of \in NoConn
      /\ UNCHANGED <<made, reconnect, ws, peer, losses, gathered, toPage>>
  BY <1>1, ServerTakes, Parts
<1>3. OnceOf(n) /\ Near(toServer[n], n) /\ OnlyOld /\ n \in NoConn
  BY OrderedParts, ConnFacts, Parts DEF Ordered
<1>4. AtMostOne(toServer[n], "answer")
  BY <1>3 DEF OnceOf
<1>5. /\ Has(Tail(toServer[n]), "answer") => Has(toServer[n], "answer")
      /\ AtMostOne(Tail(toServer[n]), "answer")
  BY <1>2, <1>4, OneTail
<1>6. Head(toServer[n]).of <= n /\ Near(Tail(toServer[n]), n)
  BY <1>2, <1>3, NearTail
<1>7. /\ Stray("page ice", Head(toServer[n]).of, n) /\ sess' = sess
      /\ toServer' = [toServer EXCEPT ![n] = Tail(@)]
  BY DEF ReadIce
<1>8. toServer'[n] = Tail(toServer[n]) /\ \A k \in Conn : k # n => toServer'[k] = toServer[k]
  BY <1>7, Parts
<1>9. UNCHANGED <<made, timers, neg, pc, toPage, sess>>
  BY <1>2, <1>7 DEF reconnect, peer
<1>10. /\ Has(toServer'[n], "answer") => Has(toServer[n], "answer")
       /\ AtMostOne(toServer'[n], "answer") /\ Near(toServer'[n], n)
  BY <1>5, <1>6, <1>8, Zenon
<1>11. OnlyOld'
  <2>1. PICK of \in NoConn : of = Head(toServer[n]).of
    BY <1>2
  <2>2. \A s \in strays' : s \in strays \/ (n # of /\ s = [what |-> "page ice", of |-> of, at |-> n])
    BY <1>3, <1>7, <2>1, StrayType, Parts
  <2>3. of <= n /\ of \in Nat /\ n \in Nat
    BY <1>3, <1>6, <2>1, MaxConnAssumption DEF NoConn
  <2>4. n # of => of < n
    BY <2>3
  <2> SUFFICES ASSUME NEW s \in strays' PROVE s.what = "page ice" /\ s.of < s.at
    BY DEF OnlyOld
  <2>5. CASE s \in strays
    BY <1>3, <2>5 DEF OnlyOld
  <2>6. CASE n # of /\ s = [what |-> "page ice", of |-> of, at |-> n]
    BY <2>4, <2>6
  <2> QED BY <2>2, <2>5, <2>6
<1>12. OnceOf(n)' /\ Near(toServer[n], n)'
  BY <1>3, <1>9, <1>10 DEF OnceOf, AtMostOne, Has, Near
<1> QED BY <1>8, <1>9, <1>11, <1>12, OrderQuiet

LEMMA OrderStep ==
    ASSUME BaseInv, CountInv, OrderInv, [Next]_vars PROVE OrderInv'
<1> SUFFICES ASSUME ~FirstTryFailed' PROVE Ordered'
  BY DEF OrderInv
<1>1. ~FirstTryFailed /\ Ordered
  BY FailedStays DEF OrderInv
<1>2. CASE UNCHANGED vars
  BY <1>1, <1>2, OrderSame DEF vars, reconnect, peer, wire
<1>3. CASE startWatch \/ \E t \in timers : Reconnect(t)
  BY <1>1, <1>3, OrderPlay
<1>4. ASSUME NEW n \in Conn, onopen(n) \/ Lose(n) PROVE Ordered'
  <2>1. timers' \subseteq timers /\ UNCHANGED <<made, pc, neg, sess, toServer, toPage, strays>>
    BY <1>4 DEF onopen, Lose, reconnect, peer, wire
  <2> QED BY <1>1, <2>1, OrderSame
<1>5. ASSUME NEW n \in Conn, Closed(n) PROVE Ordered'
  BY <1>1, <1>5, OrderClosed
<1>6. ASSUME NEW n \in Conn, onIncomingSDP(n) \/ onIncomingICE(n) PROVE Ordered'
  BY <1>1, <1>6, OrderReads
<1>7. ASSUME NEW n \in Conn, CreateAnswer(n) \/ onLocalDescription(n) \/ SendAnswer(n) PROVE Ordered'
  BY <1>1, <1>7, OrderChain
<1>8. ASSUME NEW n \in Conn, onIceCandidate(n) \/ on_ice_candidate_cb(n) PROVE Ordered'
  BY <1>1, <1>8, OrderIce
<1>9. ASSUME NEW n \in Conn,
             soup_websocket_handler(n) \/ on_offer_created_cb(n) \/ soup_websocket_closed_cb(n)
      PROVE  Ordered'
  BY <1>1, <1>9, OrderHandler
<1>10. ASSUME NEW n \in Conn, ReadAnswer(n) \/ ReadIce(n) PROVE Ordered'
  BY <1>1, <1>10, OrderReadAnswer, OrderReadIce
<1> QED BY <1>2, <1>3, <1>4, <1>5, <1>6, <1>7, <1>8, <1>9, <1>10, NextCases

LEMMA OrderInit == Init => OrderInv
<1> SUFFICES ASSUME Init PROVE Ordered
  BY DEF OrderInv
<1>1. Pending /\ OnlyOld
  BY IdleType DEF Init, Pending, OnlyOld
<1>2. AnsweredMade
  BY DEF Init, AnsweredMade
<1>3. \A n \in Conn : toPage[n] = <<>> /\ toServer[n] = <<>> /\ neg[n].stage = "idle"
  BY IdleType DEF Init
<1>4. Once /\ ToServerIsNear
  BY <1>3, NothingIn DEF Once, OnceOf, ToServerIsNear
<1> QED BY <1>1, <1>2, <1>4 DEF Ordered

\* So all three always hold.
LEMMA AlwaysWatch == Spec => []WatchInv
<1>1. Init => WatchInv
  BY BaseInit, CountInit, OrderInit DEF WatchInv
<1>2. WatchInv /\ [Next]_vars => WatchInv'
  BY BaseStep, CountStep, OrderStep DEF WatchInv
<1> QED BY <1>1, <1>2, PTL DEF Spec
-----------------------------------------------------------------------------
(* What the page waits for while it does not watch. *)

Lives == made > 0 /\ ws[made] \in {"connecting", "open"} /\ made \notin broken

\* The connection answers the offer its session sent: the offer is on its way,
\* in the chain or answered, and pc has come as far as that says.
AnswerOf(n) ==
    /\ neg[n].stage # "idle" => ws[n] # "connecting"
    /\ neg[n].stage \in {"answer", "local"} => pc[n] = [offer |-> n, answered |-> 0]
    /\ Has(toServer[n], "answer") \/ sess[n] = "answered" => pc[n] = [offer |-> n, answered |-> n]
    /\ sess[n] = "offered" =>
          Has(toPage[n], "offer") \/ neg[n].stage # "idle" \/ Has(toServer[n], "answer")

AnswerInv == ~FirstTryFailed /\ Lives => AnswerOf(made)

LEMMA AnswerKept ==
    ASSUME NEW n \in Conn, AnswerOf(n), ws'[n] = ws[n] \/ ws'[n] = "open",
           neg'[n] = neg[n], pc'[n] = pc[n], sess'[n] = sess[n],
           Has(toPage'[n], "offer") <=> Has(toPage[n], "offer"),
           Has(toServer'[n], "answer") <=> Has(toServer[n], "answer")
    PROVE  AnswerOf(n)'
  BY DEF AnswerOf, Has

\* The next connection has no session yet.
LEMMA AnswerPlay ==
    ASSUME WatchInv, ~FirstTryFailed, NEW then \in BOOLEAN, playStream(then),
           timers' \subseteq timers, \A n \in Conn : neg[n].stage = "idle"
    PROVE  AnswerOf(made)'
<1>1. /\ made' \in Conn /\ ws[made'] = "none"
      /\ UNCHANGED <<pc, neg, sess, toServer, toPage>>
  BY Played DEF WatchInv, BaseInv, peer, wire
<1>2. sess[made'] = "none"
  BY <1>1 DEF WatchInv, BaseInv, SessMade
<1>3. ~Has(toServer[made'], "answer")
  BY <1>1, <1>2, OrderedParts DEF WatchInv, OrderInv, OnceOf
<1> QED BY <1>1, <1>2, <1>3 DEF AnswerOf, Has

\* The page's handlers and its chain.
LEMMA AnswerPage ==
    ASSUME WatchInv, ~FirstTryFailed, Lives, AnswerOf(made), Lives',
           NEW k \in Conn, \/ onIncomingSDP(k) \/ onIncomingICE(k)
                           \/ CreateAnswer(k) \/ onLocalDescription(k) \/ SendAnswer(k)
    PROVE  AnswerOf(made)'
<1>1. BaseInv /\ CountInv /\ Ordered /\ made \in Conn
  BY MadeOne DEF WatchInv, OrderInv, BaseInv, Lives
<1>2. CASE onIncomingSDP(k)
  <2>1. ws[k] = "open" /\ UNCHANGED <<made, ws, pc, sess, toServer>>
    BY <1>1, <1>2, PageTakes, Parts DEF onIncomingSDP
  <2>2. k = made
    BY <1>1, <2>1, TheOne
  <2>3. neg'[k].stage = "remote" /\ ws'[k] = "open"
    BY <1>1, <1>2, <2>1, Parts DEF onIncomingSDP
  <2>4. Head(toPage[k]).what = "offer" /\ toPage[k] \in Seq(Message) /\ toPage[k] # <<>>
    BY <1>1, <1>2, PageTakes, Parts DEF onIncomingSDP
  <2>5. Has(toPage[k], "offer")
    BY <2>4, OneTail
  <2>6. ~Has(toServer[k], "answer") /\ sess[k] # "answered"
    BY <1>1, <2>5, OrderedParts DEF OnceOf
  <2> QED BY <2>1, <2>2, <2>3, <2>6 DEF AnswerOf, Has
<1>3. CASE onIncomingICE(k)
  <2>1. /\ toPage'[k] = Tail(toPage[k]) /\ Head(toPage[k]).what = "ice"
        /\ toPage[k] \in Seq(Message) /\ toPage[k] # <<>>
        /\ \A j \in Conn : j # k => toPage'[j] = toPage[j]
        /\ UNCHANGED <<made, ws, pc, sess, toServer, neg>>
    BY <1>1, <1>3, PageTakes, Parts DEF onIncomingICE
  <2>2. Has(Tail(toPage[k]), "offer") <=> Has(toPage[k], "offer")
    BY <2>1, TailKeeps
  <2>3. Has(toPage'[made], "offer") <=> Has(toPage[made], "offer")
    BY <1>1, <2>1, <2>2, Zenon
  <2> QED BY <1>1, <2>1, <2>3, AnswerKept
<1>4. CASE CreateAnswer(k) \/ onLocalDescription(k) \/ SendAnswer(k)
  <2>1. k = made /\ neg[k].at = k /\ neg[k] \in Neg /\ ws[k] = "open"
    <3>1. neg[k].stage # "idle"
      BY <1>4 DEF CreateAnswer, onLocalDescription, SendAnswer
    <3>2. k = made /\ neg[k].at = k /\ neg[k] \in Neg
      BY <1>1, <3>1, Parts DEF Ordered, Pending
    <3> QED BY <3>1, <3>2 DEF AnswerOf, Lives
  <2>2. neg[k].stage \in {"answer", "local"} =>
           neg[k].to = k /\ pc[k] = [offer |-> k, answered |-> 0]
    BY <1>1, <2>1 DEF Ordered, Pending, AnswerOf
  <2>3. /\ ~Has(toServer[k], "answer") /\ sess[k] # "answered"
        /\ UNCHANGED <<made, ws, sess, toPage>>
    <3>1. neg[k].stage # "idle"
      BY <1>4 DEF CreateAnswer, onLocalDescription, SendAnswer
    <3>2. ~Has(toServer[k], "answer") /\ sess[k] # "answered"
      BY <1>1, <3>1, OrderedParts DEF OnceOf
    <3> QED BY <1>4, <3>2 DEF CreateAnswer, onLocalDescription, SendAnswer, wire
  <2>4. k # 0 /\ k \in Nat
    <3>1. k \in Nat /\ k >= 1
      BY <1>1, ConnFacts, Parts
    <3> QED BY <3>1
  <2>5. CASE CreateAnswer(k)
    <3>1. /\ pc' = [pc EXCEPT ![k].offer = k, ![k].answered = 0] /\ toServer' = toServer
          /\ neg' = [neg EXCEPT ![k] =
                       IF pc'[k].offer # 0 /\ pc'[k].answered = 0
                       THEN [stage |-> "answer", at |-> k, to |-> pc'[k].offer] ELSE Idle]
      BY <2>1, <2>5 DEF CreateAnswer, wire
    <3>2. pc'[k] = [offer |-> k, answered |-> 0]
      <4>1. pc[k] \in Peer /\ pc \in [Conn -> Peer]
        BY <1>1, Parts
      <4>2. PICK r : r = [[pc[k] EXCEPT !.offer = k] EXCEPT !.answered = 0]
        OBVIOUS
      <4>3. r = [offer |-> k, answered |-> 0]
        BY <4>1, <4>2 DEF Peer
      <4>4. pc' = [pc EXCEPT ![k] = r]
        BY <3>1, <4>1, <4>2
      <4> QED BY <4>1, <4>3, <4>4
    <3>3. neg'[k].stage = "answer"
      BY <1>1, <2>4, <3>1, <3>2, Parts
    <3> QED BY <2>1, <2>3, <3>1, <3>2, <3>3 DEF AnswerOf, Has
  <2>6. CASE onLocalDescription(k)
    <3>1. neg[k].stage = "answer" /\ Takes(k, neg[k])
      BY <2>1, <2>2, <2>6 DEF onLocalDescription, Takes
    <3>2. neg' = [neg EXCEPT ![k] = [neg[k] EXCEPT !.stage = "local"]]
      BY <2>1, <2>6, <3>1 DEF onLocalDescription
    <3>3. neg'[k].stage = "local"
      BY <1>1, <2>1, <3>2, Parts DEF Neg
    <3>4. pc' = pc /\ toServer' = toServer
      BY <2>6 DEF onLocalDescription, wire
    <3> QED BY <2>1, <2>2, <2>3, <3>1, <3>3, <3>4 DEF AnswerOf, Has
  <2>7. CASE SendAnswer(k)
    <3>1. neg[k].stage = "local" /\ neg' = [neg EXCEPT ![k] = Idle]
      BY <2>7 DEF SendAnswer
    <3>2. neg'[k].stage = "idle"
      BY <1>1, <3>1, IdleType, Parts
    <3>3. Takes(neg[k].at, neg[k])
      BY <2>1, <2>2, <3>1 DEF Takes
    <3>4. pc' = [pc EXCEPT ![k].answered = k] /\ Send(Msg("answer", pc'[k].answered))
      BY <2>1, <2>2, <2>7, <3>1, <3>3 DEF SendAnswer
    <3>5. pc'[k] = [offer |-> k, answered |-> k]
      <4>1. pc[k] = [offer |-> k, answered |-> 0] /\ pc \in [Conn -> Peer]
        BY <1>1, <2>2, <3>1, Parts
      <4>2. PICK r : r = [pc[k] EXCEPT !.answered = k]
        OBVIOUS
      <4>3. r = [offer |-> k, answered |-> k]
        BY <4>1, <4>2
      <4>4. pc' = [pc EXCEPT ![k] = r]
        BY <3>4, <4>1, <4>2
      <4> QED BY <4>1, <4>3, <4>4
    <3>6. PICK m \in Message : m = Msg("answer", k) /\ m.what = "answer"
      <4>1. Msg("answer", k) \in Message /\ Msg("answer", k).what = "answer"
        BY <1>1, ConnFacts, Parts DEF Msg, Message
      <4> QED BY <4>1
    <3>7. Send(m)
      BY <3>4, <3>5, <3>6
    <3>8. toServer' = [toServer EXCEPT ![k] = Append(toServer[k], m)]
      BY <2>1, <3>7 DEF Send, Lives
    <3>9. toServer[k] \in Seq(Message) /\ toServer'[k] = Append(toServer[k], m)
      BY <1>1, <3>8, Parts
    <3>10. Has(Append(toServer[k], m), "answer")
      BY <3>6, <3>9, OneAppend
    <3>11. Has(toServer'[k], "answer")
      BY <3>9, <3>10, Zenon
    <3> QED BY <2>1, <2>3, <3>2, <3>5, <3>11 DEF AnswerOf, Has
  <2> QED BY <1>4, <2>5, <2>6, <2>7
<1> QED BY <1>2, <1>3, <1>4

\* Candidates take nobody's place.
LEMMA AnswerIce ==
    ASSUME WatchInv, ~FirstTryFailed, Lives, AnswerOf(made),
           NEW k \in Conn, onIceCandidate(k) \/ on_ice_candidate_cb(k) \/ ReadIce(k)
    PROVE  AnswerOf(made)'
<1>1. /\ BaseInv /\ Ordered /\ made \in Conn
      /\ toServer[made] \in Seq(Message) /\ toPage[k] \in Seq(Message)
  BY MadeOne, Parts DEF WatchInv, OrderInv, BaseInv, Lives
<1>2. PICK m \in Message : m = Msg("ice", k) /\ m.what = "ice"
  <2>1. Msg("ice", k) \in Message /\ Msg("ice", k).what = "ice"
    BY <1>1, ConnFacts, Parts DEF Msg, Message
  <2> QED BY <2>1
<1>3. CASE onIceCandidate(k)
  <2>1. UNCHANGED <<made, ws, neg, pc, sess, toPage>> /\ Send(m)
    BY <1>2, <1>3 DEF onIceCandidate, peer
  <2>2. toServer'[made] = toServer[made] \/ toServer'[made] = Append(toServer[made], m)
    BY <1>1, <2>1, Sent, Parts
  <2>3. Has(Append(toServer[made], m), "answer") <=> Has(toServer[made], "answer")
    BY <1>1, <1>2, OneAppend
  <2>4. Has(toServer'[made], "answer") <=> Has(toServer[made], "answer")
    BY <2>2, <2>3, Zenon
  <2> QED BY <1>1, <2>1, <2>4, AnswerKept
<1>4. CASE on_ice_candidate_cb(k)
  <2>1. UNCHANGED <<made, ws, neg, pc, sess, toServer>> /\ Tell(k, m)
    BY <1>2, <1>4 DEF on_ice_candidate_cb, peer
  <2>2. /\ \A j \in Conn : j # k => toPage'[j] = toPage[j]
        /\ toPage'[k] = toPage[k] \/ toPage'[k] = Append(toPage[k], m)
    BY <1>1, <2>1, Told, Parts
  <2>3. Has(Append(toPage[k], m), "offer") <=> Has(toPage[k], "offer")
    BY <1>1, <1>2, OneAppend
  <2>4. Has(toPage'[k], "offer") <=> Has(toPage[k], "offer")
    BY <2>2, <2>3, Zenon
  <2>5. Has(toPage'[made], "offer") <=> Has(toPage[made], "offer")
    BY <1>1, <2>2, <2>4, Zenon
  <2> QED BY <1>1, <2>1, <2>5, AnswerKept
<1>5. CASE ReadIce(k)
  <2>1. /\ toServer[k] \in Seq(Message) /\ toServer[k] # <<>> /\ Head(toServer[k]).what = "ice"
        /\ UNCHANGED <<made, ws, neg, pc, toPage>>
    BY <1>1, <1>5, ServerTakes, Parts DEF ReadIce, peer
  <2>2. /\ toServer'[k] = Tail(toServer[k]) /\ sess' = sess
        /\ \A j \in Conn : j # k => toServer'[j] = toServer[j]
    BY <1>1, <1>5, Parts DEF ReadIce
  <2>3. Has(Tail(toServer[k]), "answer") <=> Has(toServer[k], "answer")
    BY <2>1, TailKeeps
  <2>4. Has(toServer'[made], "answer") <=> Has(toServer[made], "answer")
    BY <1>1, <2>2, <2>3, Zenon
  <2> QED BY <1>1, <2>1, <2>2, <2>4, AnswerKept
<1> QED BY <1>3, <1>4, <1>5

\* Sessions and sockets.
LEMMA AnswerSession ==
    ASSUME WatchInv, ~FirstTryFailed, Lives, AnswerOf(made), Lives',
           NEW k \in Conn, \/ onopen(k) \/ Closed(k) \/ Lose(k)
                           \/ soup_websocket_handler(k) \/ on_offer_created_cb(k)
                           \/ soup_websocket_closed_cb(k) \/ ReadAnswer(k)
    PROVE  AnswerOf(made)'
<1>1. /\ BaseInv /\ CountInv /\ Ordered /\ TypeOK /\ made \in Conn
      /\ OnceOf(made) /\ OnceOf(k)
  <2>1. BaseInv /\ CountInv /\ Ordered /\ TypeOK /\ made > 0
    BY DEF WatchInv, OrderInv, BaseInv, Lives
  <2>2. made \in Conn
    BY <2>1, MadeOne
  <2> QED BY <2>1, <2>2, OrderedParts
<1>2. CASE onopen(k)
  <2>1. ws' = [ws EXCEPT ![k] = "open"] /\ UNCHANGED <<made, pc, neg, sess, toServer, toPage>>
    BY <1>2 DEF onopen, peer, wire
  <2>2. ws'[made] = ws[made] \/ ws'[made] = "open"
    BY <1>1, <2>1 DEF TypeOK
  <2> QED BY <1>1, <2>1, <2>2, AnswerKept
<1>3. CASE Closed(k)
  <2>1. k \in broken /\ ws[k] \in {"connecting", "open"}
    BY <1>3 DEF Closed
  <2>2. k = made
    BY <1>1, <2>1, TheOne
  <2> QED BY <2>1, <2>2 DEF Lives
<1>4. CASE Lose(k)
  <2>1. UNCHANGED <<made, ws, pc, neg, sess, toServer, toPage>>
    BY <1>4 DEF Lose, peer, wire
  <2> QED BY <1>1, <2>1, AnswerKept
<1>5. CASE soup_websocket_handler(k)
  <2>1. /\ sess[k] = "none" /\ sess' = [sess EXCEPT ![k] = "new"]
        /\ UNCHANGED <<made, ws, pc, neg, toServer, toPage>>
    BY <1>5 DEF soup_websocket_handler, peer, wire
  <2>2. CASE k = made
    <3>1. sess'[made] = "new" /\ ~Has(toServer[made], "answer")
      BY <1>1, <2>1, <2>2 DEF OnceOf, TypeOK
    <3> QED BY <2>1, <3>1 DEF AnswerOf, Has
  <2>3. CASE k # made
    <3>1. sess'[made] = sess[made]
      BY <1>1, <2>1, <2>3 DEF TypeOK
    <3> QED BY <1>1, <2>1, <3>1, AnswerKept
  <2> QED BY <2>2, <2>3
<1>6. CASE on_offer_created_cb(k)
  <2>1. /\ sess[k] = "new" /\ sess' = [sess EXCEPT ![k] = "offered"]
        /\ Tell(k, Msg("offer", k)) /\ UNCHANGED <<made, ws, pc, neg, toServer>>
    BY <1>6 DEF on_offer_created_cb, peer
  <2>2. PICK m \in Message : m = Msg("offer", k) /\ m.what = "offer"
    <3>1. Msg("offer", k) \in Message /\ Msg("offer", k).what = "offer"
      BY <1>1, ConnFacts DEF Msg, Message
    <3> QED BY <3>1
  <2>3. toPage[k] \in Seq(Message)
    BY <1>1, Parts
  <2>4. CASE k = made
    <3>1. toPage' = [toPage EXCEPT ![k] = Append(toPage[k], m)]
      BY <2>1, <2>2, <2>4 DEF Tell, Lives
    <3>2. toPage'[k] = Append(toPage[k], m)
      BY <1>1, <3>1, Parts
    <3>3. Has(Append(toPage[k], m), "offer")
      BY <2>2, <2>3, OneAppend
    <3>4. Has(toPage'[made], "offer")
      BY <2>4, <3>2, <3>3, Zenon
    <3>5. sess'[made] = "offered" /\ neg[made].stage = "idle" /\ ~Has(toServer[made], "answer")
      BY <1>1, <2>1, <2>4 DEF OnceOf, TypeOK
    <3> QED BY <2>1, <3>4, <3>5 DEF AnswerOf, Has
  <2>5. CASE k # made
    <3>1. toPage'[made] = toPage[made]
      BY <1>1, <2>1, <2>2, <2>5, Told
    <3>2. sess'[made] = sess[made]
      BY <1>1, <2>1, <2>5 DEF TypeOK
    <3> QED BY <1>1, <2>1, <3>1, <3>2, AnswerKept
  <2> QED BY <2>4, <2>5
<1>7. CASE soup_websocket_closed_cb(k)
  <2>1. /\ k \in broken /\ sess' = [sess EXCEPT ![k] = "gone"]
        /\ toServer' = [toServer EXCEPT ![k] = <<>>]
        /\ UNCHANGED <<made, ws, pc, neg, toPage>>
    BY <1>7 DEF soup_websocket_closed_cb, peer
  <2>2. k # made
    BY <2>1 DEF Lives
  <2>3. sess'[made] = sess[made] /\ toServer'[made] = toServer[made]
    BY <1>1, <2>1, <2>2 DEF TypeOK
  <2> QED BY <1>1, <2>1, <2>3, AnswerKept
<1>8. CASE ReadAnswer(k)
  <2>1. /\ toServer[k] \in Seq(Message) /\ toServer[k] # <<>>
        /\ Head(toServer[k]).what = "answer" /\ UNCHANGED <<made, ws, pc, neg, toPage>>
    BY <1>1, <1>8, ServerTakes DEF ReadAnswer, peer
  <2>2. Has(toServer[k], "answer")
    BY <2>1, OneTail
  <2>3. Head(toServer[k]).of # 0
    <3>1. Near(toServer[k], k)
      BY <1>1, OrderedParts
    <3>2. Head(toServer[k]).of = k /\ k >= 1 /\ k \in Nat
      BY <1>1, <2>1, <3>1, NearTail, ConnFacts
    <3> QED BY <3>2
  <2>4. /\ sess' = [sess EXCEPT ![k] = "answered"]
        /\ toServer' = [toServer EXCEPT ![k] = Tail(@)]
    BY <1>8, <2>3 DEF ReadAnswer
  <2>5. CASE k = made
    <3>1. /\ sess'[made] = "answered" /\ neg[made].stage = "idle"
          /\ pc[made] = [offer |-> made, answered |-> made]
      BY <1>1, <2>2, <2>4, <2>5 DEF OnceOf, AnswerOf, TypeOK
    <3> QED BY <2>1, <3>1 DEF AnswerOf, Has
  <2>6. CASE k # made
    <3>1. sess'[made] = sess[made] /\ toServer'[made] = toServer[made]
      BY <1>1, <2>4, <2>6 DEF TypeOK
    <3> QED BY <1>1, <2>1, <3>1, AnswerKept
  <2> QED BY <2>5, <2>6
<1> QED BY <1>2, <1>3, <1>4, <1>5, <1>6, <1>7, <1>8

LEMMA AnswerStep == WatchInv /\ AnswerInv /\ [Next]_vars => AnswerInv'
<1> SUFFICES ASSUME WatchInv, AnswerInv, [Next]_vars, ~FirstTryFailed', Lives'
             PROVE  AnswerOf(made)'
  BY DEF AnswerInv
<1>1. ~FirstTryFailed /\ Ordered /\ TypeOK
  BY FailedStays DEF WatchInv, OrderInv, BaseInv
<1>2. CASE startWatch
  <2>1. playStream(TRUE) /\ timers' \subseteq timers /\ made = 0
    BY <1>2 DEF startWatch
  <2>2. \A n \in Conn : neg[n].stage = "idle"
    BY <2>1 DEF WatchInv, BaseInv, MadeFirst
  <2> QED BY <1>1, <2>1, <2>2, AnswerPlay
<1>3. ASSUME NEW t \in timers, Reconnect(t) PROVE AnswerOf(made)'
  <2>1. /\ playStream(t.by = "close") /\ timers' \subseteq timers
        /\ (t.by = "close") \in BOOLEAN /\ \A n \in t.waits : neg[n].stage = "idle"
    BY <1>3 DEF Reconnect
  <2>2. \A n \in Conn : neg[n].stage = "idle"
    BY <1>1, <2>1 DEF Ordered, Pending
  <2> QED BY <1>1, <2>1, <2>2, AnswerPlay
<1>4. ASSUME NEW k \in Conn,
             \/ onopen(k) \/ Closed(k) \/ onIncomingSDP(k) \/ CreateAnswer(k)
             \/ onLocalDescription(k) \/ SendAnswer(k)
             \/ onIncomingICE(k) \/ onIceCandidate(k)
             \/ soup_websocket_handler(k) \/ on_offer_created_cb(k)
             \/ on_ice_candidate_cb(k) \/ ReadAnswer(k) \/ ReadIce(k)
             \/ soup_websocket_closed_cb(k) \/ Lose(k)
      PROVE  AnswerOf(made)'
  <2>1. made' = made /\ broken \subseteq broken'
    BY <1>4 DEF onopen, Closed, onIncomingSDP, CreateAnswer, onLocalDescription, SendAnswer,
       onIncomingICE, PageReads, onIceCandidate, soup_websocket_handler, on_offer_created_cb,
       on_ice_candidate_cb, ReadAnswer, ReadIce, ServerReads, soup_websocket_closed_cb, Lose, network
  <2>2. ws'[made] \in {"connecting", "open"} => ws[made] \in {"connecting", "open"}
    <3>1. made \in Conn
      BY <1>1, <2>1, MadeOne DEF Lives
    <3>2. CASE onopen(k)
      BY <1>1, <3>1, <3>2 DEF onopen, TypeOK
    <3>3. CASE Closed(k)
      BY <1>1, <3>1, <3>3 DEF Closed, TypeOK
    <3>4. CASE ~onopen(k) /\ ~Closed(k)
      <4>1. ws' = ws
        BY <1>4, <3>4 DEF onIncomingSDP, CreateAnswer, onLocalDescription, SendAnswer,
           onIncomingICE, PageReads, onIceCandidate, soup_websocket_handler, on_offer_created_cb,
           on_ice_candidate_cb, ReadAnswer, ReadIce, ServerReads, soup_websocket_closed_cb, Lose
      <4> QED BY <4>1
    <3> QED BY <3>2, <3>3, <3>4
  <2>3. Lives /\ AnswerOf(made)
    BY <1>1, <2>1, <2>2 DEF Lives, AnswerInv
  <2> QED BY <1>1, <1>4, <2>3, AnswerPage, AnswerIce, AnswerSession
<1>5. CASE UNCHANGED vars
  BY <1>1, <1>5 DEF vars, peer, wire, network, Lives, AnswerInv, AnswerOf, Has
<1> QED BY <1>2, <1>3, <1>4, <1>5, NextCases

LEMMA AlwaysAnswer == Spec => [](WatchInv /\ AnswerInv)
<1>1. Init => AnswerInv
  BY DEF Init, AnswerInv, Lives
<1> QED BY <1>1, AnswerStep, AlwaysWatch, PTL DEF Spec
-----------------------------------------------------------------------------
\* A connection the globals name was made, messages are of connections, one
\* timer is named at most (main.js's reconnectTimerId).
THEOREM WatchTypeCorrect == Spec => []TypeOK
<1>1. WatchInv => TypeOK
  BY DEF WatchInv, BaseInv
<1> QED BY <1>1, AlwaysWatch, PTL

\* However often the network loses sockets, playStream's reconnections are one
\* socket or one timer, two after a first try that failed, and never none.
THEOREM NeverStranded == Spec => []NeverStrandedNorMultiplied
<1>1. WatchInv => NeverStrandedNorMultiplied
  <2> SUFFICES ASSUME WatchInv, made > 0
               PROVE  Due \in 1..(IF FirstTryFailed THEN 2 ELSE 1)
    BY DEF NeverStrandedNorMultiplied
  <2>1. CASE FirstTryFailed
    BY <2>1 DEF WatchInv, CountInv
  <2>2. CASE ~FirstTryFailed
    <3>1. Single /\ TypeOK
      BY <2>2 DEF WatchInv, BaseInv, CountInv
    <3>2. Due = Cardinality(Busy) + Cardinality(timers)
      BY <3>1, BusyFacts
    <3>3. \/ Cardinality(Busy) = 1 /\ Cardinality(timers) = 0
          \/ Cardinality(Busy) = 0 /\ Cardinality(timers) = 1
      BY <3>1, FS_EmptySet, FS_Singleton DEF Single
    <3>4. Due = 1
      BY <3>2, <3>3
    <3> QED BY <2>2, <3>4
  <2> QED BY <2>1, <2>2
<1> QED BY <1>1, AlwaysWatch, PTL

\* While the click's own connection did not fail, handlers and promises that go
\* through main.js's globals give nothing of the server's to the wrong
\* connection; only old connections' candidates reach a newer session.
THEOREM OldCandidatesAlone == Spec => []OnlyOldCandidatesGoAstray
<1>1. WatchInv => OnlyOldCandidatesGoAstray
  BY DEF WatchInv, OrderInv, Ordered, OnlyOld, OnlyOldCandidatesGoAstray
<1> QED BY <1>1, AlwaysWatch, PTL

\* A page that does not watch has a timer, or a socket whose loss it will be told
\* of, or a connection of which something is under way: its socket opens, its
\* session makes an offer, the offer, its promise chain or the answer goes on.
WatchIsUnderWay ==
    made > 0 /\ ~FirstTryFailed =>
        \/ timers # {}
        \/ ws[made] \in {"connecting", "open"} /\ made \in broken
        \/ ws[made] = "connecting"
        \/ sess[made] = "new"
        \/ Has(toPage[made], "offer")
        \/ neg[made].stage # "idle"
        \/ Has(toServer[made], "answer")
        \/ Watching

\* So the page never waits for nothing, however often it lost its socket
\* (main.js 539-569): the safety half of WatchIsRestored.
THEOREM NoWatchIsLost == Spec => []WatchIsUnderWay
<1>1. WatchInv /\ AnswerInv => WatchIsUnderWay
  <2> SUFFICES ASSUME WatchInv, AnswerInv, made > 0, ~FirstTryFailed, timers = {},
                      ~ (ws[made] \in {"connecting", "open"} /\ made \in broken),
                      ws[made] # "connecting"
               PROVE  \/ sess[made] = "new" \/ Has(toPage[made], "offer")
                      \/ neg[made].stage # "idle" \/ Has(toServer[made], "answer") \/ Watching
    BY DEF WatchIsUnderWay
  <2>1. Single /\ TypeOK /\ Ends /\ made \in Conn
    BY MadeOne DEF WatchInv, BaseInv, CountInv
  <2>2. made \in Busy
    BY <2>1 DEF Single
  <2>3. Lives /\ ws[made] = "open"
    BY <2>2 DEF Busy, Lives
  <2>4. AnswerOf(made) /\ sess[made] \in {"new", "offered", "answered"}
    BY <2>1, <2>3 DEF AnswerInv, Ends, TypeOK
  <2> QED BY <2>3, <2>4 DEF AnswerOf, Watching
<1> QED BY <1>1, AlwaysAnswer, PTL
=============================================================================
