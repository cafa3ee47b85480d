-------------------------- MODULE GwcServer_proofs --------------------------
(***************************************************************************)
(* Proofs about GwcServer for any sets of connections and addresses.       *)
(***************************************************************************)
EXTENDS GwcServer, TLAPS

\* The updates the callbacks make to an item keep it an item.
LEMMA ItemUpdates ==
    ASSUME NEW w \in WebrtcItem, NEW p \in Ptr, NEW q \in Ptr, NEW b \in BOOLEAN
    PROVE  /\ [w EXCEPT !.pipeline = p] \in WebrtcItem
           /\ [w EXCEPT !.pipeline = p, !.video_src = q] \in WebrtcItem
           /\ [w EXCEPT !.recvpipe = p, !.recvbin = p, !.stop_recv = b] \in WebrtcItem
           /\ [w EXCEPT !.recvpipe = p, !.stop_recv = b] \in WebrtcItem
  BY DEF WebrtcItem

\* No item, and a new session's, are items.
LEMMA FreshItems ==
    /\ Gone \in WebrtcItem
    /\ \A p \in Pipe : [Gone EXCEPT !.alive = TRUE, !.sendbin = p] \in WebrtcItem
  BY DEF Gone, WebrtcItem, Ptr

\* Whichever callback record.start is, it takes a free address for the pipeline
\* and leaves every other pointer but video_src.
LEMMA RecordStarts ==
    ASSUME TypeOK, NEW c \in Conn, record_start(c)
    PROVE  \E p \in Free, q \in Ptr :
               /\ entry' = [entry EXCEPT ![c] = [@ EXCEPT !.pipeline = p, !.video_src = q]]
               /\ heap' = [heap EXCEPT ![p] = "record"]
<1> PICK p \in Free :
        /\ heap' = [heap EXCEPT ![p] = "record"]
        /\ IF app_sink THEN appsrc_cmd_rec_start(c, p) ELSE udpsrc_cmd_rec_start(c, p)
  BY DEF record_start
<1>1. CASE app_sink
  <2> p \in Ptr
    BY DEF Free, Ptr
  <2> QED BY <1>1 DEF appsrc_cmd_rec_start
<1>2. CASE ~app_sink
  <2>1. entry[c] \in WebrtcItem
    BY DEF TypeOK
  <2>2. /\ entry[c].video_src \in Ptr
        /\ [entry[c] EXCEPT !.pipeline = p]
             = [entry[c] EXCEPT !.pipeline = p, !.video_src = entry[c].video_src]
    BY <2>1 DEF WebrtcItem
  <2>3. entry' = [entry EXCEPT ![c] = [entry[c] EXCEPT !.pipeline = p,
                                                  !.video_src = entry[c].video_src]]
    BY <1>2, <2>2 DEF udpsrc_cmd_rec_start
  <2> QED BY <2>2, <2>3
<1> QED BY <1>1, <1>2

\* Type correctness is inductive as it stands.
LEMMA TypeStep == TypeOK /\ [Next]_vars => TypeOK'
<1> SUFFICES ASSUME TypeOK, [Next]_vars PROVE TypeOK'
  OBVIOUS
<1> USE DEF TypeOK
<1> /\ NoPipe \in Ptr
    /\ Pipe \subseteq Ptr
    /\ Free \subseteq Pipe
  BY DEF Ptr, Free
<1>1. ASSUME NEW c \in Conn, soup_websocket_handler(c) PROVE TypeOK'
  <2> PICK p \in Free :
          /\ entry' = [entry EXCEPT ![c] = [Gone EXCEPT !.alive = TRUE, !.sendbin = p]]
          /\ heap' = [heap EXCEPT ![p] = "send"]
          /\ IF app_sink THEN start_appsrc_webrtcbin(c, p)
                         ELSE start_udpsrc_webrtcbin
    BY <1>1 DEF soup_websocket_handler
  <2>1. entry' \in [Conn -> WebrtcItem] /\ heap' \in [Pipe -> Use]
    BY FreshItems DEF Use
  <2>2. avlist' \in [AVPair -> Nat] /\ timers' \subseteq Pipe
    BY DEF start_appsrc_webrtcbin, start_udpsrc_webrtcbin, ListAppend, AVPair
  <2> QED BY <1>1, <2>1, <2>2 DEF soup_websocket_handler
<1>2. ASSUME NEW c \in Conn, record_start(c) PROVE TypeOK'
  <2> PICK p \in Free, q \in Ptr :
          /\ entry' = [entry EXCEPT ![c] = [@ EXCEPT !.pipeline = p, !.video_src = q]]
          /\ heap' = [heap EXCEPT ![p] = "record"]
    BY <1>2, RecordStarts
  <2>1. entry' \in [Conn -> WebrtcItem]
    BY ItemUpdates
  <2>2. heap' \in [Pipe -> Use] /\ avlist' \in [AVPair -> Nat]
    BY <1>2 DEF record_start, appsrc_cmd_rec_start, udpsrc_cmd_rec_start,
                ListAppend, AVPair, Use
  <2> QED BY <1>2, <2>1, <2>2 DEF record_start
<1>3. ASSUME NEW c \in Conn, record_stop(c) PROVE TypeOK'
  <2>1. entry' \in [Conn -> WebrtcItem] /\ heap' \in [Pipe -> Use]
    BY <1>3, ItemUpdates DEF record_stop, Release, Use
  <2>2. avlist' \in [AVPair -> Nat]
    BY <1>3 DEF record_stop, appsrc_cmd_rec_stop, udpsrc_cmd_rec_stop,
                ListRemove, AVPair
  <2> QED BY <1>3, <2>1, <2>2
      DEF record_stop, appsrc_cmd_rec_stop, udpsrc_cmd_rec_stop, Misuse
<1>4. ASSUME NEW c \in Conn, sdp_offer(c) PROVE TypeOK'
  <2> PICK p \in Free :
          /\ entry' = [entry EXCEPT ![c] = [@ EXCEPT !.recvpipe = p, !.recvbin = p,
                                                    !.stop_recv = TRUE]]
          /\ heap' = [heap EXCEPT ![p] = "talk"]
    BY <1>4 DEF sdp_offer
  <2>1. [entry[c] EXCEPT !.recvpipe = p, !.recvbin = p, !.stop_recv = TRUE] \in WebrtcItem
    BY ItemUpdates
  <2> QED BY <1>4, <2>1 DEF sdp_offer, Use
<1>5. ASSUME NEW c \in Conn, talk_stop(c) PROVE TypeOK'
  <2>1. [entry[c] EXCEPT !.recvpipe = NoPipe, !.stop_recv = FALSE] \in WebrtcItem
    BY ItemUpdates
  <2> QED BY <1>5, <2>1 DEF talk_stop, Release, Use
<1>6. ASSUME NEW c \in Conn, ice_candidate(c) PROVE TypeOK'
  BY <1>6 DEF ice_candidate, Misuse
<1>7. ASSUME NEW c \in Conn, soup_websocket_closed_cb(c) PROVE TypeOK'
  <2>1. entry' \in [Conn -> WebrtcItem]
    BY <1>7, FreshItems DEF soup_websocket_closed_cb
  <2>2. heap' \in [Pipe -> Use]
    BY <1>7 DEF soup_websocket_closed_cb, Release, Use
  <2>3. avlist' \in [AVPair -> Nat]
    BY <1>7 DEF soup_websocket_closed_cb, ListRemove, AVPair
  <2> QED BY <1>7, <2>1, <2>2, <2>3 DEF soup_websocket_closed_cb
<1>8. ASSUME on_new_sample_from_sink PROVE TypeOK'
  BY <1>8 DEF on_new_sample_from_sink, Misuse
<1>9. ASSUME NEW p \in Pipe, check_webrtcbin_state_by_timer(p) PROVE TypeOK'
  BY <1>9 DEF check_webrtcbin_state_by_timer, Misuse
<1>10. CASE UNCHANGED vars
  BY <1>10 DEF vars
<1> QED
  BY <1>1, <1>2, <1>3, <1>4, <1>5, <1>6, <1>7, <1>8, <1>9, <1>10
     DEF Next, Background, ClientMessage

\* Every variable keeps its type (the shape of WebrtcItem, soup.h).
THEOREM TypeCorrect == Spec => []TypeOK
<1>1. Init => TypeOK
  <2> SUFFICES ASSUME Init PROVE TypeOK
    OBVIOUS
  <2>1. entry \in [Conn -> WebrtcItem]
    BY FreshItems DEF Init
  <2>2. avlist \in [AVPair -> Nat] /\ heap \in [Pipe -> Use]
    BY DEF Init, Use
  <2> QED BY <2>1, <2>2 DEF Init, TypeOK
<1> QED BY <1>1, TypeStep, PTL DEF Spec
-----------------------------------------------------------------------------
\* A step is one session's, or nobody's: every other session keeps its item
\* and its pipelines.
Bystander(d) ==
    /\ entry'[d] = entry[d]
    /\ \A p \in Owned(d) : heap'[p] = heap[p]

\* What an owned pipeline is not: free, NULL or another session's.
LEMMA OwnedFacts ==
    ASSUME TypeOK, SessionsOwnTheirPipes, NEW d \in Conn, NEW p \in Owned(d)
    PROVE  /\ p \in Pipe
           /\ p \notin Free
           /\ \A c \in Conn \ {d} : p \notin Owned(c)
<1> /\ entry[d].sendbin \in Ptr /\ entry[d].pipeline \in Ptr /\ entry[d].recvpipe \in Ptr
  BY DEF TypeOK, WebrtcItem
<1>1. p \in Pipe
  BY DEF Owned, Ptr
<1>2. p \notin Free
  BY DEF Owned, Free, SessionsOwnTheirPipes, OwnsItsPipes
<1>3. ASSUME NEW c \in Conn \ {d} PROVE p \notin Owned(c)
  BY DEF SessionsOwnTheirPipes
<1> QED BY <1>1, <1>2, <1>3

\* A message or a closing leaves the other sessions' items and pipelines alone.
LEMMA Bystanders ==
    ASSUME TypeOK, SessionsOwnTheirPipes, NEW c \in Conn,
           \/ soup_websocket_handler(c)
           \/ soup_websocket_closed_cb(c)
           \/ ClientMessage(c)
    PROVE  \A d \in Conn \ {c} : Bystander(d)
<1> TAKE d \in Conn \ {c}
<1>0. \A p \in Owned(d) : p \in Pipe /\ p \notin Free /\ p \notin Owned(c)
  BY OwnedFacts
<1> USE DEF Bystander
<1>1. CASE soup_websocket_handler(c)
  BY <1>0, <1>1 DEF soup_websocket_handler, TypeOK
<1>2. CASE record_start(c)
  BY <1>0, <1>2 DEF record_start, appsrc_cmd_rec_start, udpsrc_cmd_rec_start, TypeOK
<1>3. CASE record_stop(c)
  BY <1>0, <1>3 DEF record_stop, Release, TypeOK, Owned
<1>4. CASE sdp_offer(c)
  BY <1>0, <1>4 DEF sdp_offer, TypeOK
<1>5. CASE talk_stop(c)
  BY <1>0, <1>5 DEF talk_stop, Release, TypeOK, Owned
<1>6. CASE ice_candidate(c)
  BY <1>6 DEF ice_candidate
<1>7. CASE soup_websocket_closed_cb(c)
  BY <1>0, <1>7 DEF soup_websocket_closed_cb, Release, TypeOK
<1> QED BY <1>1, <1>2, <1>3, <1>4, <1>5, <1>6, <1>7 DEF ClientMessage

\* The steps that leave the table and the heap alone.
LEMMA QuietSteps ==
    ASSUME \/ on_new_sample_from_sink
           \/ \E p \in Pipe : check_webrtcbin_state_by_timer(p)
           \/ UNCHANGED vars
    PROVE  UNCHANGED <<app_sink, entry, heap, avlist, cmd_recording>>
  BY DEF on_new_sample_from_sink, check_webrtcbin_state_by_timer, vars

\* To keep the ownership invariant a session only has to take free addresses.
LEMMA OwnershipByOne ==
    ASSUME TypeOK, TypeOK', SessionsOwnTheirPipes, NEW c \in Conn,
           \A d \in Conn \ {c} : Bystander(d),
           OwnsItsPipes(c)',
           Owned(c)' \subseteq Owned(c) \cup Free
    PROVE  SessionsOwnTheirPipes'
<1>1. ASSUME NEW d \in Conn \ {c} PROVE Owned(d)' = Owned(d) /\ OwnsItsPipes(d)'
  <2>1. Owned(d)' = Owned(d) /\ entry'[d] = entry[d]
    BY DEF Bystander, Owned
  <2>2. \A p \in Owned(d) : heap'[p] = heap[p]
    BY DEF Bystander
  <2> QED BY <2>1, <2>2 DEF SessionsOwnTheirPipes, OwnsItsPipes, Owned
<1>2. ASSUME NEW d \in Conn \ {c} PROVE Owned(c)' \cap Owned(d)' = {}
  BY <1>1, OwnedFacts
<1>3. ASSUME NEW d \in Conn, NEW e \in Conn, d # e PROVE Owned(d)' \cap Owned(e)' = {}
  <2>1. CASE d = c
    BY <1>2, <1>3, <2>1
  <2>2. CASE e = c
    BY <1>2, <1>3, <2>2
  <2>3. CASE d # c /\ e # c
    BY <1>1, <1>3, <2>3 DEF SessionsOwnTheirPipes
  <2> QED BY <2>1, <2>2, <2>3
<1> QED BY <1>1, <1>3 DEF SessionsOwnTheirPipes

\* Ownership is inductive: one step per callback, each an instance of the lemma
\* above with the addresses it takes.
LEMMA OwnershipStep ==
    TypeOK /\ SessionsOwnTheirPipes /\ [Next]_vars => SessionsOwnTheirPipes'
<1> SUFFICES ASSUME TypeOK, SessionsOwnTheirPipes, [Next]_vars
             PROVE  SessionsOwnTheirPipes'
  OBVIOUS
<1>0. TypeOK'
  BY TypeStep
<1> USE DEF TypeOK
<1>a. \A d \in Conn : /\ OwnsItsPipes(d)
                      /\ \A p \in Owned(d) : p \in Pipe /\ p \notin Free
                      /\ entry[d].sendbin \in Ptr
                      /\ entry[d].pipeline \in Ptr
                      /\ entry[d].recvpipe \in Ptr
  BY OwnedFacts DEF SessionsOwnTheirPipes, WebrtcItem
<1>1. ASSUME NEW c \in Conn, soup_websocket_handler(c) PROVE SessionsOwnTheirPipes'
  <2> PICK p \in Free :
          /\ entry' = [entry EXCEPT ![c] = [Gone EXCEPT !.alive = TRUE, !.sendbin = p]]
          /\ heap' = [heap EXCEPT ![p] = "send"]
    BY <1>1 DEF soup_websocket_handler
  <2> p \in Pipe /\ p # NoPipe
    BY NoPipeAssumption DEF Free
  <2>1. OwnsItsPipes(c)' /\ Owned(c)' \subseteq Owned(c) \cup Free
    BY DEF OwnsItsPipes, Owned, Gone
  <2> QED BY <1>0, <1>1, <2>1, Bystanders, OwnershipByOne
<1>2. ASSUME NEW c \in Conn, record_start(c) PROVE SessionsOwnTheirPipes'
  <2> PICK p \in Free, q \in Ptr :
          /\ entry' = [entry EXCEPT ![c] = [@ EXCEPT !.pipeline = p, !.video_src = q]]
          /\ heap' = [heap EXCEPT ![p] = "record"]
    BY <1>2, RecordStarts
  <2> p \in Pipe /\ p # NoPipe /\ heap[p] = "free" /\ entry[c].alive
    BY <1>2, NoPipeAssumption DEF Free, record_start
  <2> entry[c] \in WebrtcItem
    OBVIOUS
  <2>1. /\ entry'[c].alive = entry[c].alive
        /\ entry'[c].sendbin = entry[c].sendbin
        /\ entry'[c].pipeline = p
        /\ entry'[c].recvpipe = entry[c].recvpipe
    BY DEF WebrtcItem
  <2>2. OwnsItsPipes(c)' /\ Owned(c)' \subseteq Owned(c) \cup Free
    BY <1>a, <2>1 DEF OwnsItsPipes, Owned, Ptr
  <2> QED BY <1>0, <1>2, <2>2, Bystanders, OwnershipByOne DEF ClientMessage
<1>3. ASSUME NEW c \in Conn, record_stop(c) PROVE SessionsOwnTheirPipes'
  <2>1. /\ entry'[c].alive = entry[c].alive
        /\ entry'[c].sendbin = entry[c].sendbin
        /\ entry'[c].pipeline = NoPipe
        /\ entry'[c].recvpipe = entry[c].recvpipe
        /\ heap' = Release({entry[c].pipeline})
        /\ entry[c].alive
    BY <1>3 DEF WebrtcItem, record_stop, appsrc_cmd_rec_stop, udpsrc_cmd_rec_stop
  <2>2. OwnsItsPipes(c)' /\ Owned(c)' \subseteq Owned(c) \cup Free
    BY <1>a, <2>1 DEF OwnsItsPipes, Owned, Ptr, Release
  <2> QED BY <1>0, <1>3, <2>2, Bystanders, OwnershipByOne DEF ClientMessage
<1>4. ASSUME NEW c \in Conn, sdp_offer(c) PROVE SessionsOwnTheirPipes'
  <2> PICK p \in Free :
          /\ entry' = [entry EXCEPT ![c] = [@ EXCEPT !.recvpipe = p, !.recvbin = p,
                                                    !.stop_recv = TRUE]]
          /\ heap' = [heap EXCEPT ![p] = "talk"]
    BY <1>4 DEF sdp_offer
  <2> p \in Pipe /\ p # NoPipe /\ heap[p] = "free" /\ entry[c].alive
    BY <1>4, NoPipeAssumption DEF Free, sdp_offer
  <2>1. /\ entry'[c].alive = entry[c].alive
        /\ entry'[c].sendbin = entry[c].sendbin
        /\ entry'[c].pipeline = entry[c].pipeline
        /\ entry'[c].recvpipe = p
    BY DEF WebrtcItem
  <2>2. OwnsItsPipes(c)' /\ Owned(c)' \subseteq Owned(c) \cup Free
    BY <1>a, <2>1 DEF OwnsItsPipes, Owned, Ptr
  <2> QED BY <1>0, <1>4, <2>2, Bystanders, OwnershipByOne DEF ClientMessage
<1>5. ASSUME NEW c \in Conn, talk_stop(c) PROVE SessionsOwnTheirPipes'
  <2>1. /\ entry'[c].alive = entry[c].alive
        /\ entry'[c].sendbin = entry[c].sendbin
        /\ entry'[c].pipeline = entry[c].pipeline
        /\ entry'[c].recvpipe = NoPipe
        /\ heap' = Release({entry[c].recvpipe})
        /\ entry[c].alive
    BY <1>5 DEF WebrtcItem, talk_stop
  <2>2. OwnsItsPipes(c)' /\ Owned(c)' \subseteq Owned(c) \cup Free
    BY <1>a, <2>1 DEF OwnsItsPipes, Owned, Ptr, Release
  <2> QED BY <1>0, <1>5, <2>2, Bystanders, OwnershipByOne DEF ClientMessage
<1>6. ASSUME NEW c \in Conn, ice_candidate(c) PROVE SessionsOwnTheirPipes'
  BY <1>6 DEF ice_candidate, SessionsOwnTheirPipes, OwnsItsPipes, Owned
<1>7. ASSUME NEW c \in Conn, soup_websocket_closed_cb(c) PROVE SessionsOwnTheirPipes'
  <2>1. entry'[c] = Gone
    BY <1>7 DEF soup_websocket_closed_cb
  <2>2. OwnsItsPipes(c)' /\ Owned(c)' \subseteq Owned(c) \cup Free
    BY <2>1 DEF OwnsItsPipes, Owned, Gone
  <2> QED BY <1>0, <1>7, <2>2, Bystanders, OwnershipByOne
<1>8. CASE UNCHANGED <<app_sink, entry, heap, avlist, cmd_recording>>
  BY <1>8 DEF SessionsOwnTheirPipes, OwnsItsPipes, Owned
<1> QED
  BY <1>1, <1>2, <1>3, <1>4, <1>5, <1>6, <1>7, <1>8, QuietSteps
     DEF Next, Background, ClientMessage

\* No address is released twice or while a live session points at it
\* (destroy_webrtc_table, soup.c 547-554), for any number of sessions and
\* whatever their clients send.
THEOREM SessionsAlwaysOwnTheirPipes == Spec => []SessionsOwnTheirPipes
<1>1. Init => SessionsOwnTheirPipes
  BY DEF Init, SessionsOwnTheirPipes, OwnsItsPipes, Owned, Gone
<1> QED BY <1>1, OwnershipStep, TypeCorrect, PTL DEF Spec

\* No step releases, or gives to another use, a pipeline some session keeps.
THEOREM NothingIsReleasedUnderASession == Spec => NoForeignRelease
<1> DEFINE Kept == \A c \in Conn : \A p \in Owned(c) : p \in Owned(c)' => heap'[p] = heap[p]
<1>1. ASSUME TypeOK, SessionsOwnTheirPipes, TypeOK', SessionsOwnTheirPipes', [Next]_vars
      PROVE  Kept
  <2>1. CASE UNCHANGED <<app_sink, entry, heap, avlist, cmd_recording>>
    BY <2>1
  <2>2. ASSUME NEW c \in Conn,
               \/ soup_websocket_handler(c)
               \/ soup_websocket_closed_cb(c)
               \/ ClientMessage(c)
        PROVE  Kept
    <3> SUFFICES ASSUME NEW d \in Conn, NEW p \in Owned(d), p \in Owned(d)'
                 PROVE  heap'[p] = heap[p]
      OBVIOUS
    <3>1. CASE d # c
      BY <1>1, <2>2, <3>1, Bystanders DEF Bystander
    <3>2. CASE d = c
      <4> p \in Pipe /\ p \notin Free
        BY <1>1, OwnedFacts
      <4>1. heap'[p] # "free"
        BY <1>1 DEF SessionsOwnTheirPipes, OwnsItsPipes, Owned
      <4> USE <1>1 DEF TypeOK
      <4>2. CASE soup_websocket_handler(c)
        BY <4>2 DEF soup_websocket_handler
      <4>3. CASE record_start(c)
        BY <4>3 DEF record_start, appsrc_cmd_rec_start, udpsrc_cmd_rec_start
      <4>4. CASE record_stop(c)
        BY <4>1, <4>4 DEF record_stop, Release
      <4>5. CASE sdp_offer(c)
        BY <4>5 DEF sdp_offer
      <4>6. CASE talk_stop(c)
        BY <4>1, <4>6 DEF talk_stop, Release
      <4>7. CASE ice_candidate(c)
        BY <4>7 DEF ice_candidate
      <4>8. CASE soup_websocket_closed_cb(c)
        BY <4>1, <4>8 DEF soup_websocket_closed_cb, Release
      <4> QED BY <2>2, <4>2, <4>3, <4>4, <4>5, <4>6, <4>7, <4>8 DEF ClientMessage
    <3> QED BY <3>1, <3>2
  <2> QED BY <1>1, <2>1, <2>2, QuietSteps DEF Next, Background
<1>2. TypeOK /\ SessionsOwnTheirPipes /\ TypeOK' /\ SessionsOwnTheirPipes' /\ [Next]_vars
        => [Kept]_vars
  BY <1>1
<1> QED BY <1>2, TypeCorrect, SessionsAlwaysOwnTheirPipes, PTL DEF Spec, NoForeignRelease
-----------------------------------------------------------------------------
\* The flag's witness survives every step, given ownership: a stop or a closing
\* that ends the recording clears the flag with it.
LEMMA FlagStep ==
    /\ TypeOK /\ SessionsOwnTheirPipes /\ FlagHasRecorder
    /\ TypeOK' /\ SessionsOwnTheirPipes' /\ [Next]_vars
    => FlagHasRecorder'
<1> SUFFICES ASSUME TypeOK, SessionsOwnTheirPipes, FlagHasRecorder,
                    TypeOK', SessionsOwnTheirPipes', [Next]_vars, cmd_recording'
             PROVE  \E c \in Conn : entry'[c].pipeline # NoPipe
  <2> ASSUME NEW c \in Conn, SessionsOwnTheirPipes', entry'[c].pipeline # NoPipe
      PROVE  entry'[c].alive /\ heap'[entry'[c].pipeline] = "record"
    BY DEF SessionsOwnTheirPipes, OwnsItsPipes, Gone
  <2> QED BY DEF FlagHasRecorder, Recorders
<1>s. ASSUME NEW c \in Conn, record_start(c)
      PROVE  \E p \in Free, q \in Ptr :
               /\ entry' = [entry EXCEPT ![c] = [@ EXCEPT !.pipeline = p, !.video_src = q]]
               /\ heap' = [heap EXCEPT ![p] = "record"]
  BY <1>s, RecordStarts
<1> USE DEF TypeOK
<1>1. CASE UNCHANGED <<app_sink, entry, heap, avlist, cmd_recording>>
  BY <1>1 DEF FlagHasRecorder, Recorders
<1>2. ASSUME NEW c \in Conn, record_start(c)
      PROVE  \E d \in Conn : entry'[d].pipeline # NoPipe
  <2> PICK p \in Free, q \in Ptr :
          /\ entry' = [entry EXCEPT ![c] = [@ EXCEPT !.pipeline = p, !.video_src = q]]
          /\ heap' = [heap EXCEPT ![p] = "record"]
    BY <1>2, <1>s
  <2> QED BY NoPipeAssumption DEF Free, WebrtcItem
<1>3. ASSUME NEW c \in Conn, record_stop(c) PROVE FALSE
  BY <1>3 DEF record_stop
<1>4. ASSUME NEW c \in Conn, cmd_recording,
             \/ soup_websocket_handler(c)
             \/ soup_websocket_closed_cb(c) /\ entry[c].pipeline = NoPipe
             \/ sdp_offer(c)
             \/ talk_stop(c)
             \/ ice_candidate(c)
      PROVE  \E d \in Conn : entry'[d].pipeline # NoPipe
  <2> PICK d \in Conn : entry[d].pipeline # NoPipe
    BY <1>4 DEF FlagHasRecorder, Recorders
  <2>1. CASE d # c
    BY <1>4, <2>1, Bystanders DEF Bystander, ClientMessage
  <2>2. CASE d = c
    <3> entry[d].alive
      BY DEF SessionsOwnTheirPipes, OwnsItsPipes, Gone
    <3>1. CASE soup_websocket_handler(c) \/ ice_candidate(c)
      BY <2>2, <3>1 DEF soup_websocket_handler, ice_candidate
    <3>2. CASE sdp_offer(c)
      BY <2>2, <3>2 DEF sdp_offer, WebrtcItem
    <3>3. CASE talk_stop(c)
      BY <2>2, <3>3 DEF talk_stop, WebrtcItem
    <3> QED BY <1>4, <2>2, <3>1, <3>2, <3>3
  <2> QED BY <2>1, <2>2
<1> QED
  BY <1>1, <1>2, <1>3, <1>4, QuietSteps
     DEF Next, Background, ClientMessage, soup_websocket_handler,
         soup_websocket_closed_cb, sdp_offer, talk_stop, ice_candidate

\* The flag that refuses every recording is set only while a live session can
\* clear it (record.start and record.stop in gst-app.c): nobody is locked out
\* for good by a client that left.
THEOREM RecordingIsNeverLockedOut == Spec => []FlagHasRecorder
<1>1. Init => FlagHasRecorder
  BY DEF Init, FlagHasRecorder
<1> QED BY <1>1, FlagStep, TypeCorrect, SessionsAlwaysOwnTheirPipes, PTL DEF Spec
-----------------------------------------------------------------------------
(***************************************************************************)
(* Polite clients.  The exclusion is inductive together with the ownership *)
(* invariant: a start finds the flag clear, so nobody records, and a stop  *)
(* comes from the one session that does.                                   *)
(***************************************************************************)
LEMMA PoliteIsNext == [PoliteNext]_vars => [Next]_vars
  BY DEF PoliteNext, Next, PoliteMessage, ClientMessage

LEMMA PoliteTypeAndOwnership ==
    PoliteSpec => [](TypeOK /\ SessionsOwnTheirPipes)
<1>1. PoliteSpec => Spec
  BY PoliteIsNext, PTL DEF PoliteSpec, Spec
<1> QED BY <1>1, TypeCorrect, SessionsAlwaysOwnTheirPipes, PTL

\* How a polite step moves the flag and the set of recorders.
LEMMA RecorderMoves ==
    ASSUME TypeOK, SessionsOwnTheirPipes, ExclusiveRecording, [PoliteNext]_vars
    PROVE  \/ UNCHANGED <<cmd_recording, Recorders>>
           \/ \E c \in Conn : /\ Recorders = {} /\ Recorders' = {c}
                              /\ ~cmd_recording /\ cmd_recording'
           \/ \E c \in Conn : /\ Recorders = {c} /\ Recorders' = {}
                              /\ cmd_recording /\ ~cmd_recording'
<1>s. ASSUME NEW c \in Conn, record_start(c)
      PROVE  \E p \in Free, q \in Ptr :
               /\ entry' = [entry EXCEPT ![c] = [@ EXCEPT !.pipeline = p, !.video_src = q]]
               /\ heap' = [heap EXCEPT ![p] = "record"]
  BY <1>s, RecordStarts
<1> USE DEF TypeOK
<1>0. \A c \in Conn : c \in Recorders =>
        /\ Recorders = {c}
        /\ cmd_recording
        /\ entry[c].alive
  BY DEF ExclusiveRecording, Recorders, SessionsOwnTheirPipes, OwnsItsPipes, Gone
<1>1. ASSUME NEW c \in Conn, record_start(c)
      PROVE  /\ Recorders = {} /\ Recorders' = {c}
             /\ ~cmd_recording /\ cmd_recording'
  <2> PICK p \in Free, q \in Ptr :
          /\ entry' = [entry EXCEPT ![c] = [@ EXCEPT !.pipeline = p, !.video_src = q]]
          /\ heap' = [heap EXCEPT ![p] = "record"]
    BY <1>1, <1>s
  <2>1. Recorders = {}
    BY <1>1 DEF record_start, ExclusiveRecording
  <2>2. entry'[c].pipeline # NoPipe
    BY NoPipeAssumption DEF Free, WebrtcItem
  <2> QED BY <1>1, <2>1, <2>2 DEF record_start, Recorders
<1>2. ASSUME NEW c \in Conn, entry[c].pipeline # NoPipe, record_stop(c)
      PROVE  /\ Recorders = {c} /\ Recorders' = {}
             /\ cmd_recording /\ ~cmd_recording'
  <2>1. entry'[c].pipeline = NoPipe
    BY <1>2 DEF record_stop, WebrtcItem
  <2> QED BY <1>0, <1>2, <2>1 DEF record_stop, Recorders
<1>3. ASSUME NEW c \in Conn, soup_websocket_closed_cb(c), entry[c].pipeline # NoPipe
      PROVE  /\ Recorders = {c} /\ Recorders' = {}
             /\ cmd_recording /\ ~cmd_recording'
  BY <1>0, <1>3 DEF soup_websocket_closed_cb, Recorders, Gone
<1>4. ASSUME NEW c \in Conn, soup_websocket_closed_cb(c), entry[c].pipeline = NoPipe
      PROVE  UNCHANGED <<cmd_recording, Recorders>>
  BY <1>4 DEF soup_websocket_closed_cb, Recorders, Gone
<1>5. ASSUME NEW c \in Conn, soup_websocket_handler(c)
      PROVE  UNCHANGED <<cmd_recording, Recorders>>
  <2>1. entry[c].pipeline = NoPipe
    BY <1>5 DEF SessionsOwnTheirPipes, OwnsItsPipes, Gone, soup_websocket_handler
  <2> PICK p \in Free :
        entry' = [entry EXCEPT ![c] = [Gone EXCEPT !.alive = TRUE, !.sendbin = p]]
    BY <1>5 DEF soup_websocket_handler
  <2> QED BY <1>5, <2>1 DEF soup_websocket_handler, Recorders, Gone
<1>6. ASSUME NEW c \in Conn, sdp_offer(c) \/ talk_stop(c)
      PROVE  UNCHANGED <<cmd_recording, Recorders>>
  <2>1. \A d \in Conn : entry'[d].pipeline = entry[d].pipeline
    <3>1. CASE sdp_offer(c)
      BY <3>1 DEF sdp_offer, WebrtcItem
    <3>2. CASE talk_stop(c)
      BY <3>2 DEF talk_stop, WebrtcItem
    <3> QED BY <1>6, <3>1, <3>2
  <2> QED BY <1>6, <2>1 DEF sdp_offer, talk_stop, Recorders
<1>7. ASSUME NEW c \in Conn, ice_candidate(c)
      PROVE  UNCHANGED <<cmd_recording, Recorders>>
  BY <1>7 DEF ice_candidate, Recorders
<1>8. CASE UNCHANGED <<app_sink, entry, heap, avlist, cmd_recording>>
  BY <1>8 DEF Recorders
<1> QED
  BY <1>1, <1>2, <1>3, <1>4, <1>5, <1>6, <1>7, <1>8, QuietSteps
     DEF PoliteNext, Background, PoliteMessage

\* With clients that stop only what they started, at most one session records
\* and cmd_recording says whether one does.
THEOREM RecordingIsExclusive == PoliteSpec => []ExclusiveRecording
<1>1. Init => ExclusiveRecording
  BY DEF Init, ExclusiveRecording, Recorders, Gone
<1>2. /\ TypeOK /\ SessionsOwnTheirPipes /\ ExclusiveRecording /\ [PoliteNext]_vars
      => ExclusiveRecording'
  BY RecorderMoves DEF ExclusiveRecording
<1> QED BY <1>1, <1>2, PoliteTypeAndOwnership, PTL DEF PoliteSpec

\* The flag, record.pipeline and the callbacks that change them implement a
\* lock that only its holder gives back.
THEOREM RecorderIsALock == PoliteSpec => ImplementsRecorderLock
<1>1. Init => Lock!Init
  BY DEF Init, Lock!Init, holder, Recorders, Gone
<1>2. ASSUME TypeOK, SessionsOwnTheirPipes, ExclusiveRecording, [PoliteNext]_vars
      PROVE  [Lock!Next]_holder
  <2>1. CASE UNCHANGED <<cmd_recording, Recorders>>
    BY <2>1 DEF holder
  <2>2. ASSUME NEW c \in Conn, Recorders = {}, Recorders' = {c}
        PROVE  Lock!Acquire(c)
    BY <2>2 DEF Lock!Acquire, holder
  <2>3. ASSUME NEW c \in Conn, Recorders = {c}, Recorders' = {}
        PROVE  Lock!Release(c)
    BY <2>3 DEF Lock!Release, holder
  <2> QED BY <1>2, <2>1, <2>2, <2>3, RecorderMoves DEF Lock!Next
<1> QED
  BY <1>1, <1>2, PoliteTypeAndOwnership, RecordingIsExclusive, PTL
     DEF PoliteSpec, ImplementsRecorderLock, Lock!Spec
-----------------------------------------------------------------------------
(***************************************************************************)
(* The talk pointers and the appsrc list, for any order of messages.       *)
(***************************************************************************)
\* What a step does to one session's talk pointers: nothing, a fresh pipeline
\* in all of them, or both of the pair reset.
LEMMA TalkMoves ==
    ASSUME TypeOK, [Next]_vars, NEW d \in Conn
    PROVE  \/ /\ entry'[d].stop_recv = entry[d].stop_recv
              /\ entry'[d].recvpipe = entry[d].recvpipe
              /\ entry'[d].recvbin = entry[d].recvbin
           \/ /\ entry'[d].stop_recv = TRUE
              /\ entry'[d].recvpipe # NoPipe
              /\ entry'[d].recvbin = entry'[d].recvpipe
           \/ /\ entry'[d].stop_recv = FALSE
              /\ entry'[d].recvpipe = NoPipe
<1>s. ASSUME NEW c \in Conn, record_start(c)
      PROVE  \E p \in Free, q \in Ptr :
               /\ entry' = [entry EXCEPT ![c] = [@ EXCEPT !.pipeline = p, !.video_src = q]]
               /\ heap' = [heap EXCEPT ![p] = "record"]
  BY <1>s, RecordStarts
<1> USE DEF TypeOK
<1>1. ASSUME NEW c \in Conn, soup_websocket_handler(c), d = c
      PROVE  entry'[d].stop_recv = FALSE /\ entry'[d].recvpipe = NoPipe
  BY <1>1 DEF soup_websocket_handler, Gone
<1>2. ASSUME NEW c \in Conn, soup_websocket_closed_cb(c), d = c
      PROVE  entry'[d].stop_recv = FALSE /\ entry'[d].recvpipe = NoPipe
  BY <1>2 DEF soup_websocket_closed_cb, Gone
<1>3. ASSUME NEW c \in Conn, record_start(c), d = c
      PROVE  /\ entry'[d].stop_recv = entry[d].stop_recv
             /\ entry'[d].recvpipe = entry[d].recvpipe
             /\ entry'[d].recvbin = entry[d].recvbin
  <2> PICK p \in Free, q \in Ptr :
          /\ entry' = [entry EXCEPT ![c] = [@ EXCEPT !.pipeline = p, !.video_src = q]]
          /\ heap' = [heap EXCEPT ![p] = "record"]
    BY <1>3, <1>s
  <2> QED BY <1>3 DEF WebrtcItem
<1>4. ASSUME NEW c \in Conn, record_stop(c), d = c
      PROVE  /\ entry'[d].stop_recv = entry[d].stop_recv
             /\ entry'[d].recvpipe = entry[d].recvpipe
             /\ entry'[d].recvbin = entry[d].recvbin
  BY <1>4 DEF record_stop, WebrtcItem
<1>5. ASSUME NEW c \in Conn, sdp_offer(c), d = c
      PROVE  /\ entry'[d].stop_recv = TRUE
             /\ entry'[d].recvpipe # NoPipe
             /\ entry'[d].recvbin = entry'[d].recvpipe
  <2> PICK p \in Free :
        entry' = [entry EXCEPT ![c] = [@ EXCEPT !.recvpipe = p, !.recvbin = p,
                                                !.stop_recv = TRUE]]
    BY <1>5 DEF sdp_offer
  <2> QED BY <1>5, NoPipeAssumption DEF WebrtcItem, Free
<1>6. ASSUME NEW c \in Conn, talk_stop(c), d = c
      PROVE  entry'[d].stop_recv = FALSE /\ entry'[d].recvpipe = NoPipe
  BY <1>6 DEF talk_stop, WebrtcItem
<1>7. ASSUME NEW c \in Conn, ice_candidate(c) PROVE entry' = entry
  BY <1>7 DEF ice_candidate
<1>8. ASSUME NEW c \in Conn, d # c,
             \/ soup_websocket_handler(c)
             \/ soup_websocket_closed_cb(c)
             \/ ClientMessage(c)
      PROVE  entry'[d] = entry[d]
  BY <1>8 DEF ClientMessage, soup_websocket_handler, soup_websocket_closed_cb,
              record_start, appsrc_cmd_rec_start, udpsrc_cmd_rec_start,
              record_stop, sdp_offer, talk_stop, ice_candidate
<1> QED
  BY <1>1, <1>2, <1>3, <1>4, <1>5, <1>6, <1>7, <1>8, QuietSteps
     DEF Next, Background, ClientMessage

\* stop_recv is never called through NULL and a running talk never lacks it
\* (soup.c 322 and 553), and candidates go to the talk that runs.
THEOREM TalkIsPaired == Spec => []TalkPaired
<1>1. Init => TalkPaired
  BY DEF Init, TalkPaired, Gone
<1>2. TypeOK /\ TalkPaired /\ [Next]_vars => TalkPaired'
  <2> SUFFICES ASSUME TypeOK, TalkPaired, [Next]_vars, NEW d \in Conn
               PROVE  /\ entry'[d].stop_recv <=> entry'[d].recvpipe # NoPipe
                      /\ entry'[d].recvpipe # NoPipe => entry'[d].recvbin = entry'[d].recvpipe
    BY DEF TalkPaired
  <2> QED BY TalkMoves DEF TalkPaired
<1> QED BY <1>1, <1>2, TypeCorrect, PTL DEF Spec
-----------------------------------------------------------------------------
(* What the session table, the heap and the appsrc list say of each other. *)


\* The two counts of a session in the appsrc list.
Sends(c) == avlist[<<c, "send">>]
Recs(c)  == avlist[<<c, "rec">>]

\* Adding or removing a pair moves that pair's count and no other.
LEMMA ListUpdates ==
    ASSUME NEW list \in [AVPair -> Nat], NEW pair \in AVPair
    PROVE  /\ ListAppend(list, pair) \in [AVPair -> Nat]
           /\ ListRemove(list, pair) \in [AVPair -> Nat]
           /\ ListAppend(list, pair)[pair] = list[pair] + 1
           /\ ListRemove(list, pair)[pair] = (IF list[pair] = 0 THEN 0 ELSE list[pair] - 1)
           /\ \A other \in AVPair \ {pair} : /\ ListAppend(list, pair)[other] = list[other]
                                             /\ ListRemove(list, pair)[other] = list[other]
  BY DEF ListAppend, ListRemove

\* What one session's step does to its own counts, and that it leaves the
\* others' items and counts alone.
Counted(c) ==
    \A d \in Conn \ {c} : /\ entry'[d] = entry[d]
                          /\ Sends(d)' = Sends(d) /\ Recs(d)' = Recs(d)

\* A session that opens is listed once more, with appsinks.
LEMMA OpenMoves ==
    ASSUME TypeOK, NEW c \in Conn, soup_websocket_handler(c)
    PROVE  /\ Counted(c) /\ app_sink' = app_sink
           /\ entry'[c].alive /\ entry'[c].pipeline = NoPipe
           /\ Sends(c)' = (IF app_sink THEN Sends(c) + 1 ELSE Sends(c))
           /\ Recs(c)' = Recs(c)
<1> <<c, "send">> \in AVPair /\ avlist \in [AVPair -> Nat]
  BY DEF AVPair, TypeOK
<1>1. /\ entry'[c].alive /\ entry'[c].pipeline = NoPipe
      /\ \A d \in Conn \ {c} : entry'[d] = entry[d]
  BY DEF soup_websocket_handler, Gone, TypeOK
<1>2. avlist' = IF app_sink THEN ListAppend(avlist, <<c, "send">>) ELSE avlist
  BY DEF soup_websocket_handler, start_appsrc_webrtcbin, start_udpsrc_webrtcbin
<1>3. app_sink' = app_sink
  BY DEF soup_websocket_handler
<1>4. /\ avlist'[<<c, "send">>] = (IF app_sink THEN Sends(c) + 1 ELSE Sends(c))
      /\ \A other \in AVPair \ {<<c, "send">>} : avlist'[other] = avlist[other]
  BY <1>2, ListUpdates DEF Sends
<1> QED BY <1>1, <1>3, <1>4 DEF Counted, Sends, Recs, AVPair

\* A recording that starts is listed once more, with appsinks.
LEMMA StartMoves ==
    ASSUME TypeOK, NEW c \in Conn, record_start(c)
    PROVE  /\ Counted(c) /\ app_sink' = app_sink
           /\ entry[c].alive /\ entry'[c].alive /\ entry'[c].pipeline # NoPipe
           /\ Sends(c)' = Sends(c)
           /\ Recs(c)' = (IF app_sink THEN Recs(c) + 1 ELSE Recs(c))
<1> <<c, "rec">> \in AVPair /\ avlist \in [AVPair -> Nat]
  BY DEF AVPair, TypeOK
<1> PICK p \in Free, q \in Ptr :
        /\ entry' = [entry EXCEPT ![c] = [@ EXCEPT !.pipeline = p, !.video_src = q]]
        /\ heap' = [heap EXCEPT ![p] = "record"]
  BY RecordStarts
<1> entry \in [Conn -> WebrtcItem] /\ entry[c] \in WebrtcItem /\ p # NoPipe /\ entry[c].alive
  BY NoPipeAssumption DEF TypeOK, Free, record_start
<1>1. /\ entry[c].alive /\ entry'[c].alive /\ entry'[c].pipeline # NoPipe
      /\ \A d \in Conn \ {c} : entry'[d] = entry[d]
  BY DEF WebrtcItem
<1>2. avlist' = IF app_sink THEN ListAppend(avlist, <<c, "rec">>) ELSE avlist
  BY DEF record_start, appsrc_cmd_rec_start, udpsrc_cmd_rec_start
<1>3. app_sink' = app_sink
  BY DEF record_start
<1>4. /\ avlist'[<<c, "rec">>] = (IF app_sink THEN Recs(c) + 1 ELSE Recs(c))
      /\ \A other \in AVPair \ {<<c, "rec">>} : avlist'[other] = avlist[other]
  BY <1>2, ListUpdates DEF Recs
<1> QED BY <1>1, <1>3, <1>4 DEF Counted, Sends, Recs, AVPair

\* A stop takes the recording's pair from the list if it is there.
LEMMA StopMoves ==
    ASSUME TypeOK, NEW c \in Conn, record_stop(c)
    PROVE  /\ Counted(c) /\ app_sink' = app_sink
           /\ entry[c].alive /\ entry'[c].alive /\ entry'[c].pipeline = NoPipe
           /\ Sends(c)' = Sends(c)
           /\ Recs(c)' = (IF app_sink /\ Recs(c) # 0 THEN Recs(c) - 1 ELSE Recs(c))
<1> <<c, "rec">> \in AVPair /\ avlist \in [AVPair -> Nat]
  BY DEF AVPair, TypeOK
<1>1. /\ entry[c].alive /\ entry'[c].alive /\ entry'[c].pipeline = NoPipe
      /\ \A d \in Conn \ {c} : entry'[d] = entry[d]
  BY DEF record_stop, WebrtcItem, TypeOK
<1>2. avlist' = IF app_sink THEN ListRemove(avlist, <<c, "rec">>) ELSE avlist
  BY DEF record_stop, appsrc_cmd_rec_stop, udpsrc_cmd_rec_stop
<1>3. app_sink' = app_sink
  BY DEF record_stop
<1>4. /\ avlist'[<<c, "rec">>] = (IF app_sink /\ Recs(c) # 0 THEN Recs(c) - 1 ELSE Recs(c))
      /\ \A other \in AVPair \ {<<c, "rec">>} : avlist'[other] = avlist[other]
  BY <1>2, ListUpdates DEF Recs
<1> QED BY <1>1, <1>3, <1>4 DEF Counted, Sends, Recs, AVPair

\* Closing takes the session's pair from the list, and the recording's if
\* the session records.
LEMMA CloseMoves ==
    ASSUME TypeOK, NEW c \in Conn, soup_websocket_closed_cb(c)
    PROVE  /\ Counted(c) /\ app_sink' = app_sink
           /\ entry[c].alive /\ entry'[c] = Gone
           /\ Sends(c)' = (IF app_sink /\ Sends(c) # 0 THEN Sends(c) - 1 ELSE Sends(c))
           /\ Recs(c)' = (IF app_sink /\ entry[c].pipeline # NoPipe /\ Recs(c) # 0
                          THEN Recs(c) - 1 ELSE Recs(c))
<1> /\ <<c, "send">> \in AVPair /\ <<c, "rec">> \in AVPair /\ avlist \in [AVPair -> Nat]
    /\ <<c, "send">> # <<c, "rec">>
  BY DEF AVPair, TypeOK
<1>1. /\ entry[c].alive /\ entry'[c] = Gone /\ app_sink' = app_sink
      /\ \A d \in Conn \ {c} : entry'[d] = entry[d]
  BY DEF soup_websocket_closed_cb, TypeOK
<1> DEFINE unsent == IF app_sink THEN ListRemove(avlist, <<c, "send">>) ELSE avlist
<1>2. avlist' = IF app_sink /\ entry[c].pipeline # NoPipe
                THEN ListRemove(unsent, <<c, "rec">>) ELSE unsent
  BY DEF soup_websocket_closed_cb
<1>3. /\ unsent \in [AVPair -> Nat]
      /\ unsent[<<c, "send">>] = (IF app_sink /\ Sends(c) # 0 THEN Sends(c) - 1 ELSE Sends(c))
      /\ \A pair \in AVPair \ {<<c, "send">>} : unsent[pair] = avlist[pair]
  BY ListUpdates DEF Sends
<1> HIDE DEF unsent
<1>4. /\ avlist'[<<c, "send">>] = unsent[<<c, "send">>]
      /\ avlist'[<<c, "rec">>] = (IF app_sink /\ entry[c].pipeline # NoPipe /\ Recs(c) # 0
                                 THEN Recs(c) - 1 ELSE Recs(c))
      /\ \A pair \in AVPair \ {<<c, "send">>, <<c, "rec">>} : avlist'[pair] = avlist[pair]
  <2>1. /\ ListRemove(unsent, <<c, "rec">>)[<<c, "rec">>]
             = (IF unsent[<<c, "rec">>] = 0 THEN 0 ELSE unsent[<<c, "rec">>] - 1)
        /\ \A pair \in AVPair \ {<<c, "rec">>} :
              ListRemove(unsent, <<c, "rec">>)[pair] = unsent[pair]
    BY <1>3, ListUpdates
  <2> QED BY <1>2, <1>3, <2>1 DEF Recs
<1> QED BY <1>1, <1>3, <1>4 DEF Counted, Sends, Recs, AVPair

\* Talking touches neither the list nor any recording.
LEMMA TalkSteps ==
    ASSUME TypeOK, NEW c \in Conn, sdp_offer(c) \/ talk_stop(c) \/ ice_candidate(c)
    PROVE  /\ app_sink' = app_sink /\ avlist' = avlist
           /\ \A d \in Conn : /\ entry'[d].alive = entry[d].alive
                              /\ entry'[d].pipeline = entry[d].pipeline
<1>1. CASE sdp_offer(c)
  <2> PICK p \in Free :
        entry' = [entry EXCEPT ![c] = [@ EXCEPT !.recvpipe = p, !.recvbin = p, !.stop_recv = TRUE]]
    BY <1>1 DEF sdp_offer
  <2> entry \in [Conn -> WebrtcItem] /\ entry[c] \in WebrtcItem
    BY DEF TypeOK
  <2> QED BY <1>1 DEF sdp_offer, WebrtcItem
<1>2. CASE talk_stop(c)
  BY <1>2 DEF talk_stop, WebrtcItem, TypeOK
<1>3. CASE ice_candidate(c)
  BY <1>3 DEF ice_candidate
<1> QED BY <1>1, <1>2, <1>3
-----------------------------------------------------------------------------
\* A session's share of SessionsAreFed and of ListIsExact.
Fed(c) ==
    /\ Sends(c) = (IF app_sink /\ entry[c].alive THEN 1 ELSE 0)
    /\ app_sink /\ entry[c].pipeline # NoPipe => Recs(c) > 0

Exact(c) == Recs(c) = (IF app_sink /\ entry[c].pipeline # NoPipe THEN 1 ELSE 0)

\* A session that is not in the table has no pipeline.
LEMMA GoneSessions ==
    ASSUME SessionsOwnTheirPipes, NEW c \in Conn
    PROVE  /\ ~entry[c].alive => entry[c] = Gone
           /\ entry[c].pipeline # NoPipe => entry[c].alive
<1>1. ~entry[c].alive => entry[c] = Gone
  BY DEF SessionsOwnTheirPipes, OwnsItsPipes
<1> QED BY <1>1 DEF Gone

\* Both shares are about counts and items that others leave alone.
LEMMA OthersKeepTheirShare ==
    ASSUME NEW c \in Conn, Counted(c), app_sink' = app_sink, NEW d \in Conn \ {c}
    PROVE  (Fed(d) => Fed(d)') /\ (Exact(d) => Exact(d)')
<1>1. /\ entry'[d] = entry[d] /\ app_sink' = app_sink
      /\ Sends(d)' = Sends(d) /\ Recs(d)' = Recs(d)
  BY DEF Counted
<1>2. (Fed(d) => Fed(d)')
  BY <1>1 DEF Fed
<1>3. (Exact(d) => Exact(d)')
  BY <1>1 DEF Exact
<1> QED BY <1>2, <1>3

\* Feeding is inductive given ownership: a pair is listed when its session or
\* its recording starts and unlisted when that ends.
LEMMA FedStep ==
    ASSUME TypeOK, SessionsOwnTheirPipes, \A c \in Conn : Fed(c), [Next]_vars
    PROVE  \A c \in Conn : Fed(c)'
<1>t. \A c \in Conn : Sends(c) \in Nat /\ Recs(c) \in Nat
  BY DEF TypeOK, Sends, Recs, AVPair
<1>1. ASSUME NEW c \in Conn, soup_websocket_handler(c) PROVE \A d \in Conn : Fed(d)'
  <2>1. ~entry[c].alive
    BY <1>1 DEF soup_websocket_handler
  <2>2. Fed(c)'
    BY <1>1, <2>1, <1>t, OpenMoves DEF Fed
  <2> QED BY <1>1, <2>2, OpenMoves, OthersKeepTheirShare
<1>2. ASSUME NEW c \in Conn, record_start(c) PROVE \A d \in Conn : Fed(d)'
  <2>1. Fed(c)'
    BY <1>2, <1>t, StartMoves DEF Fed
  <2> QED BY <1>2, <2>1, StartMoves, OthersKeepTheirShare
<1>3. ASSUME NEW c \in Conn, record_stop(c) PROVE \A d \in Conn : Fed(d)'
  <2>1. Fed(c)'
    BY <1>3, <1>t, StopMoves DEF Fed
  <2> QED BY <1>3, <2>1, StopMoves, OthersKeepTheirShare
<1>4. ASSUME NEW c \in Conn, soup_websocket_closed_cb(c) PROVE \A d \in Conn : Fed(d)'
  <2>1. Fed(c)'
    BY <1>4, <1>t, CloseMoves DEF Fed, Gone
  <2> QED BY <1>4, <2>1, CloseMoves, OthersKeepTheirShare
<1>5. ASSUME NEW c \in Conn, sdp_offer(c) \/ talk_stop(c) \/ ice_candidate(c)
      PROVE  \A d \in Conn : Fed(d)'
  <2>1. /\ app_sink' = app_sink /\ avlist' = avlist
        /\ \A d \in Conn : /\ entry'[d].alive = entry[d].alive
                           /\ entry'[d].pipeline = entry[d].pipeline
    BY <1>5, TalkSteps
  <2> QED BY <2>1 DEF Fed, Sends, Recs
<1>6. CASE UNCHANGED <<app_sink, entry, heap, avlist, cmd_recording>>
  BY <1>6 DEF Fed, Sends, Recs
<1> QED
  BY <1>1, <1>2, <1>3, <1>4, <1>5, <1>6, QuietSteps DEF Next, Background, ClientMessage

\* With appsinks every session of the table is in the list once and every
\* recording at least once, without them none is (start_appsrc_webrtcbin and
\* destroy_webrtc_table, record.start and record.stop), whatever clients send.
THEOREM EverySessionIsFed == Spec => []SessionsAreFed
<1>1. SessionsAreFed <=> \A c \in Conn : Fed(c)
  BY DEF SessionsAreFed, Fed, Sends, Recs
<1>2. Init => SessionsAreFed
  BY DEF Init, SessionsAreFed, AVPair, Gone
<1>3. TypeOK /\ SessionsOwnTheirPipes /\ SessionsAreFed /\ [Next]_vars => SessionsAreFed'
  <2>1. SessionsAreFed' <=> \A c \in Conn : Fed(c)'
    BY DEF SessionsAreFed, Fed, Sends, Recs
  <2> QED BY <1>1, <2>1, FedStep
<1> QED BY <1>2, <1>3, TypeCorrect, SessionsAlwaysOwnTheirPipes, PTL DEF Spec
-----------------------------------------------------------------------------
\* Exactness needs manners: a polite start finds nobody recording, and a polite
\* stop ends a recording that is listed.
LEMMA ExactStep ==
    ASSUME TypeOK, SessionsOwnTheirPipes, ExclusiveRecording,
           \A c \in Conn : Exact(c), [PoliteNext]_vars
    PROVE  \A c \in Conn : Exact(c)'
<1>t. \A c \in Conn : Recs(c) \in Nat
  BY DEF TypeOK, Recs, AVPair
<1>1. ASSUME NEW c \in Conn, soup_websocket_handler(c) PROVE \A d \in Conn : Exact(d)'
  <2>1. entry[c].pipeline = NoPipe
    BY <1>1, GoneSessions DEF soup_websocket_handler
  <2>2. Exact(c)'
    BY <1>1, <2>1, OpenMoves DEF Exact
  <2> QED BY <1>1, <2>2, OpenMoves, OthersKeepTheirShare
<1>2. ASSUME NEW c \in Conn, record_start(c) PROVE \A d \in Conn : Exact(d)'
  <2>1. entry[c].pipeline = NoPipe
    BY <1>2 DEF record_start, ExclusiveRecording, Recorders
  <2>2. Exact(c)'
    BY <1>2, <2>1, StartMoves DEF Exact
  <2> QED BY <1>2, <2>2, StartMoves, OthersKeepTheirShare
<1>3. ASSUME NEW c \in Conn, entry[c].pipeline # NoPipe, record_stop(c)
      PROVE  \A d \in Conn : Exact(d)'
  <2>1. Exact(c)'
    BY <1>3, StopMoves DEF Exact
  <2> QED BY <1>3, <2>1, StopMoves, OthersKeepTheirShare
<1>4. ASSUME NEW c \in Conn, soup_websocket_closed_cb(c) PROVE \A d \in Conn : Exact(d)'
  <2>1. Exact(c)'
    BY <1>4, CloseMoves DEF Exact, Gone
  <2> QED BY <1>4, <2>1, CloseMoves, OthersKeepTheirShare
<1>5. ASSUME NEW c \in Conn, sdp_offer(c) \/ talk_stop(c) \/ ice_candidate(c)
      PROVE  \A d \in Conn : Exact(d)'
  <2>1. /\ app_sink' = app_sink /\ avlist' = avlist
        /\ \A d \in Conn : /\ entry'[d].alive = entry[d].alive
                           /\ entry'[d].pipeline = entry[d].pipeline
    BY <1>5, TalkSteps
  <2> QED BY <2>1 DEF Exact, Recs
<1>6. CASE UNCHANGED <<app_sink, entry, heap, avlist, cmd_recording>>
  BY <1>6 DEF Exact, Recs
<1> QED
  BY <1>1, <1>2, <1>3, <1>4, <1>5, <1>6, QuietSteps DEF PoliteNext, Background, PoliteMessage

\* With polite clients a recording is in the appsrc list once and nothing else
\* of a record pair is, so closing leaves no pair of a freed item behind.
THEOREM RecordPairsAreExact == PoliteSpec => []ListIsExact
<1>1. ListIsExact <=> \A c \in Conn : Exact(c)
  BY DEF ListIsExact, Exact, Recs
<1>2. Init => ListIsExact
  BY DEF Init, ListIsExact, AVPair, Gone
<1>3. /\ TypeOK /\ SessionsOwnTheirPipes /\ ExclusiveRecording /\ ListIsExact /\ [PoliteNext]_vars
      => ListIsExact'
  <2>1. ListIsExact' <=> \A c \in Conn : Exact(c)'
    BY DEF ListIsExact, Exact, Recs
  <2> QED BY <1>1, <2>1, ExactStep
<1> QED BY <1>2, <1>3, PoliteTypeAndOwnership, RecordingIsExclusive, PTL DEF PoliteSpec
-----------------------------------------------------------------------------
\* Nothing leaks if what a session stops owning, and what was free before its
\* step, is its own or free afterwards.
LEMMA NoOrphansByOne ==
    ASSUME NoOrphanPipes, NEW c \in Conn, \A d \in Conn \ {c} : Bystander(d),
           \A p \in Pipe : p \in Owned(c) \cup Free =>
                heap'[p] = "free" \/ (entry'[c].alive /\ p \in Owned(c)')
    PROVE  NoOrphanPipes'
<1> SUFFICES ASSUME NEW p \in Pipe, heap'[p] # "free"
             PROVE  \E d \in Conn : entry'[d].alive /\ p \in Owned(d)'
  BY DEF NoOrphanPipes, Live
<1>1. CASE p \in Owned(c) \cup Free
  BY <1>1
<1>2. CASE p \notin Owned(c) \cup Free
  <2> PICK d \in Conn : entry[d].alive /\ p \in Owned(d)
    BY <1>2 DEF NoOrphanPipes, Live, Free
  <2>1. d # c /\ entry'[d] = entry[d]
    BY <1>2 DEF Bystander
  <2> QED BY <2>1 DEF Owned
<1> QED BY <1>1, <1>2

\* Polite messages overwrite no pointer to a pipeline; closing releases all.
LEMMA NoOrphansStep ==
    ASSUME TypeOK, SessionsOwnTheirPipes, ExclusiveRecording, NoOrphanPipes, [PoliteNext]_vars
    PROVE  NoOrphanPipes'
<1> entry \in [Conn -> WebrtcItem] /\ heap \in [Pipe -> Use]
  BY DEF TypeOK
<1>0. \A c \in Conn : entry[c] \in WebrtcItem
  OBVIOUS
<1>1. ASSUME NEW c \in Conn, soup_websocket_handler(c) PROVE NoOrphanPipes'
  <2> PICK p \in Free :
          /\ entry' = [entry EXCEPT ![c] = [Gone EXCEPT !.alive = TRUE, !.sendbin = p]]
          /\ heap' = [heap EXCEPT ![p] = "send"]
    BY <1>1 DEF soup_websocket_handler
  <2>1. entry[c] = Gone
    BY <1>1, GoneSessions DEF soup_websocket_handler
  <2>2. Owned(c) = {}
    BY <2>1 DEF Owned, Gone
  <2>3. entry'[c].alive /\ p \in Owned(c)'
    BY NoPipeAssumption DEF Owned, Gone, Free
  <2>4. \A q \in Free : heap'[q] = "free" \/ q = p
    BY DEF Free
  <2> QED BY <1>1, <2>2, <2>3, <2>4, Bystanders, NoOrphansByOne
<1>2. ASSUME NEW c \in Conn, record_start(c) PROVE NoOrphanPipes'
  <2> PICK p \in Free, q \in Ptr :
          /\ entry' = [entry EXCEPT ![c] = [@ EXCEPT !.pipeline = p, !.video_src = q]]
          /\ heap' = [heap EXCEPT ![p] = "record"]
    BY <1>2, RecordStarts
  <2>1. entry[c].pipeline = NoPipe /\ entry[c].alive
    BY <1>2 DEF record_start, ExclusiveRecording, Recorders
  <2>2. /\ entry'[c].alive /\ entry'[c].sendbin = entry[c].sendbin
        /\ entry'[c].pipeline = p /\ entry'[c].recvpipe = entry[c].recvpipe
    BY <1>0, <2>1 DEF WebrtcItem
  <2>3. Owned(c)' = Owned(c) \cup {p}
    BY <2>1, <2>2, NoPipeAssumption DEF Owned, Free
  <2>4. \A r \in Free : heap'[r] = "free" \/ r = p
    BY DEF Free
  <2> QED BY <1>2, <2>2, <2>3, <2>4, Bystanders, NoOrphansByOne DEF ClientMessage
<1>3. ASSUME NEW c \in Conn, record_stop(c) PROVE NoOrphanPipes'
  <2>1. /\ entry'[c].alive /\ entry'[c].sendbin = entry[c].sendbin
        /\ entry'[c].pipeline = NoPipe /\ entry'[c].recvpipe = entry[c].recvpipe
        /\ heap' = Release({entry[c].pipeline})
    BY <1>0, <1>3 DEF record_stop, WebrtcItem
  <2>2. \A p \in Owned(c) \cup Free : p \in Pipe =>
            heap'[p] = "free" \/ p \in Owned(c)'
    BY <2>1 DEF Owned, Release, Free
  <2> QED BY <1>3, <2>1, <2>2, Bystanders, NoOrphansByOne DEF ClientMessage
<1>4. ASSUME NEW c \in Conn, entry[c].recvpipe = NoPipe, sdp_offer(c) PROVE NoOrphanPipes'
  <2> PICK p \in Free :
          /\ entry' = [entry EXCEPT ![c] = [@ EXCEPT !.recvpipe = p, !.recvbin = p,
                                                    !.stop_recv = TRUE]]
          /\ heap' = [heap EXCEPT ![p] = "talk"]
    BY <1>4 DEF sdp_offer
  <2>2. /\ entry'[c].alive /\ entry'[c].sendbin = entry[c].sendbin
        /\ entry'[c].pipeline = entry[c].pipeline /\ entry'[c].recvpipe = p
    BY <1>0, <1>4 DEF WebrtcItem, sdp_offer
  <2>3. Owned(c)' = Owned(c) \cup {p}
    BY <1>4, <2>2, NoPipeAssumption DEF Owned, Free
  <2>4. \A r \in Free : heap'[r] = "free" \/ r = p
    BY DEF Free
  <2> QED BY <1>4, <2>2, <2>3, <2>4, Bystanders, NoOrphansByOne DEF ClientMessage
<1>5. ASSUME NEW c \in Conn, talk_stop(c) PROVE NoOrphanPipes'
  <2>1. /\ entry'[c].alive /\ entry'[c].sendbin = entry[c].sendbin
        /\ entry'[c].pipeline = entry[c].pipeline /\ entry'[c].recvpipe = NoPipe
        /\ heap' = Release({entry[c].recvpipe})
    BY <1>0, <1>5 DEF talk_stop, WebrtcItem
  <2>2. \A p \in Owned(c) \cup Free : p \in Pipe =>
            heap'[p] = "free" \/ p \in Owned(c)'
    BY <2>1 DEF Owned, Release, Free
  <2> QED BY <1>5, <2>1, <2>2, Bystanders, NoOrphansByOne DEF ClientMessage
<1>6. ASSUME NEW c \in Conn, ice_candidate(c) PROVE NoOrphanPipes'
  BY <1>6 DEF ice_candidate, NoOrphanPipes, Live, Owned
<1>7. ASSUME NEW c \in Conn, soup_websocket_closed_cb(c) PROVE NoOrphanPipes'
  <2>1. \A p \in Pipe : p \in Owned(c) \cup Free => heap'[p] = "free"
    BY <1>7 DEF soup_websocket_closed_cb, Release, Free
  <2> QED BY <1>7, <2>1, Bystanders, NoOrphansByOne
<1>8. CASE UNCHANGED <<app_sink, entry, heap, avlist, cmd_recording>>
  BY <1>8 DEF NoOrphanPipes, Live, Owned
<1> QED
  BY <1>1, <1>2, <1>3, <1>4, <1>5, <1>6, <1>7, <1>8, QuietSteps
     DEF PoliteNext, Background, PoliteMessage

\* With polite clients every pipeline belongs to a live session: record.start
\* and recv.addremote, which overwrite pointers unseen, never lose one.
THEOREM NothingLeaks == PoliteSpec => []NoOrphanPipes
<1>1. Init => NoOrphanPipes
  BY DEF Init, NoOrphanPipes
<1>2. /\ TypeOK /\ SessionsOwnTheirPipes /\ ExclusiveRecording /\ NoOrphanPipes /\ [PoliteNext]_vars
      => NoOrphanPipes'
  BY NoOrphansStep
<1> QED BY <1>1, <1>2, PoliteTypeAndOwnership, RecordingIsExclusive, PTL DEF PoliteSpec
-----------------------------------------------------------------------------
\* Timers are made with appsinks only, and so only then can one go stale.
StaleInv == OnlyTimersGoStale /\ (timers # {} => app_sink)

LEMMA StaleStep ==
    ASSUME TypeOK, SessionsAreFed, ListIsExact, SessionsOwnTheirPipes,
           StaleInv, [PoliteNext]_vars
    PROVE  StaleInv'
<1>1. ASSUME NEW c \in Conn, soup_websocket_handler(c) PROVE StaleInv'
  BY <1>1 DEF soup_websocket_handler, start_appsrc_webrtcbin, start_udpsrc_webrtcbin,
              StaleInv, OnlyTimersGoStale
<1>2. ASSUME NEW c \in Conn, entry[c].pipeline # NoPipe /\ record_stop(c) PROVE StaleInv'
  BY <1>2 DEF record_stop, appsrc_cmd_rec_stop, udpsrc_cmd_rec_stop, StaleInv, OnlyTimersGoStale
<1>3. ASSUME NEW c \in Conn, ~StaleRecvbin(c) /\ ice_candidate(c) PROVE StaleInv'
  BY <1>3 DEF ice_candidate, StaleInv, OnlyTimersGoStale
<1>4. ASSUME on_new_sample_from_sink PROVE StaleInv'
  <2>1. ASSUME NEW pair \in AVPair, avlist[pair] > 0 PROVE Backed(pair)
    <3> PICK c \in Conn, part \in {"send", "rec"} : pair = <<c, part>>
      BY DEF AVPair
    <3>1. CASE part = "send"
      <4>1. pair[1] = c /\ pair[2] = "send" /\ avlist[<<c, "send">>] > 0
        BY <2>1, <3>1
      <4>2. avlist[<<c, "send">>] = IF app_sink /\ entry[c].alive THEN 1 ELSE 0
        BY DEF SessionsAreFed
      <4>3. entry[c].alive
        <5> SUFFICES ASSUME ~entry[c].alive PROVE FALSE
          OBVIOUS
        <5>1. avlist[<<c, "send">>] = 0
          BY <4>2
        <5> QED BY <4>1, <5>1
      <4> QED BY <4>1, <4>3 DEF Backed
    <3>2. CASE part = "rec"
      BY <2>1, <3>2, GoneSessions DEF ListIsExact, Backed
    <3> QED BY <3>1, <3>2
  <2> QED BY <1>4, <2>1 DEF on_new_sample_from_sink, StaleInv, OnlyTimersGoStale
<1>5. ASSUME NEW p \in Pipe, check_webrtcbin_state_by_timer(p) PROVE StaleInv'
  BY <1>5 DEF check_webrtcbin_state_by_timer, StaleInv, OnlyTimersGoStale
<1>6. CASE UNCHANGED <<app_sink, timers, undefined>>
  BY <1>6 DEF StaleInv, OnlyTimersGoStale
<1> QED
  BY <1>1, <1>2, <1>3, <1>4, <1>5, <1>6
     DEF PoliteNext, Background, PoliteMessage, record_start, sdp_offer, talk_stop,
         soup_websocket_closed_cb, vars

\* With polite clients the only stale pointer ever used is the state timer's:
\* the pairs a sample is pushed to (on_new_sample_from_sink) and the bins
\* candidates go to are there.
THEOREM StalenessIsTheTimers == PoliteSpec => []OnlyTimersGoStale
<1>1. Init => StaleInv
  BY DEF Init, StaleInv, OnlyTimersGoStale
<1>2. /\ TypeOK /\ SessionsAreFed /\ ListIsExact /\ SessionsOwnTheirPipes /\ StaleInv
      /\ [PoliteNext]_vars
      => StaleInv'
  BY StaleStep
<1>3. PoliteSpec => Spec
  BY PoliteIsNext, PTL DEF PoliteSpec, Spec
<1>4. StaleInv => OnlyTimersGoStale
  BY DEF StaleInv
<1> QED
  BY <1>1, <1>2, <1>3, <1>4, EverySessionIsFed, RecordPairsAreExact, PoliteTypeAndOwnership,
     PTL DEF PoliteSpec
=============================================================================
