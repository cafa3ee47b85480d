------------------------- MODULE RecordButton_proofs -------------------------
(***************************************************************************)
(* Careful users make polite clients, for any number of pages.             *)
(***************************************************************************)
EXTENDS RecordButton, GwcServer_proofs

\* The four situations of a page that is connected: nothing in flight, a start
\* on its way, a stop on its way, a refusal on its way back.
Settled(c) ==
    up[c] = <<>> /\ down[c] = <<>> /\ (isRecord[c] <=> entry[c].pipeline # NoPipe)
Starting(c) ==
    up[c] = <<"start">> /\ down[c] = <<>> /\ isRecord[c] /\ entry[c].pipeline = NoPipe
Stopping(c) ==
    up[c] = <<"stop">> /\ down[c] = <<>> /\ ~isRecord[c] /\ entry[c].pipeline # NoPipe
Refused(c) ==
    up[c] = <<>> /\ down[c] = <<"started">> /\ isRecord[c] /\ entry[c].pipeline = NoPipe

\* A page that is not connected is as it was loaded, and no session records.
Loaded(c) ==
    up[c] = <<>> /\ down[c] = <<>> /\ ~isRecord[c] /\ entry[c].pipeline = NoPipe

Situation(c) ==
    /\ entry[c].alive => Settled(c) \/ Starting(c) \/ Stopping(c) \/ Refused(c)
    /\ ~entry[c].alive => Loaded(c) /\ c \notin enabled

ButtonInv ==
    /\ TypeOK
    /\ PageTypeOK
    /\ \A c \in Conn : Situation(c)

\* What a step of another page leaves alone.
SameSituation(c) ==
    /\ entry'[c] = entry[c] /\ up'[c] = up[c] /\ down'[c] = down[c]
    /\ isRecord'[c] = isRecord[c]
    /\ c \in enabled' => c \in enabled

\* One page's step keeps the others' situations.
LEMMA SituationByOne ==
    ASSUME ButtonInv, NEW c \in Conn, \A d \in Conn \ {c} : SameSituation(d), Situation(c)'
    PROVE  \A d \in Conn : Situation(d)'
<1> SUFFICES ASSUME NEW d \in Conn, d # c PROVE Situation(d)'
  OBVIOUS
<1> QED BY DEF ButtonInv, SameSituation, Situation, Settled, Starting, Stopping, Refused, Loaded

\* A page connects: it is as loaded, and its new session does not record.
LEMMA ConnectStep ==
    ASSUME ButtonInv, NEW c \in Conn, Connect(c)
    PROVE  PageTypeOK' /\ \A d \in Conn : Situation(d)'
<1>1. UNCHANGED pageVars /\ PageTypeOK'
  BY DEF Connect, pageVars, ButtonInv, PageTypeOK
<1>2. /\ ~entry[c].alive /\ entry'[c].alive /\ entry'[c].pipeline = NoPipe
      /\ \A d \in Conn \ {c} : entry'[d] = entry[d]
  BY OpenMoves DEF Connect, ButtonInv, Counted, soup_websocket_handler
<1>3. Loaded(c)
  BY <1>2 DEF ButtonInv, Situation
<1>4. Situation(c)'
  BY <1>1, <1>2, <1>3 DEF Situation, Settled, Loaded, pageVars
<1>5. \A d \in Conn \ {c} : SameSituation(d)
  BY <1>1, <1>2 DEF SameSituation, pageVars
<1> QED BY <1>1, <1>4, <1>5, SituationByOne

\* The stream enables the button of a connected page.
LEMMA EnableStep ==
    ASSUME ButtonInv, NEW c \in Conn, onAddRemoteStream(c)
    PROVE  PageTypeOK' /\ \A d \in Conn : Situation(d)'
<1>1. /\ entry[c].alive /\ entry' = entry /\ enabled' = enabled \cup {c}
      /\ UNCHANGED <<isRecord, up, down>>
  BY DEF onAddRemoteStream, vars
<1>2. PageTypeOK'
  BY <1>1 DEF ButtonInv, PageTypeOK
<1>3. Situation(c)'
  BY <1>1 DEF ButtonInv, Situation, Settled, Starting, Stopping, Refused
<1>4. \A d \in Conn \ {c} : SameSituation(d)
  BY <1>1 DEF SameSituation
<1> QED BY <1>2, <1>3, <1>4, SituationByOne

\* A careful click on a settled page sends the start or the stop it shows.
LEMMA ClickStep ==
    ASSUME ButtonInv, NEW c \in Conn, CarefulClick(c)
    PROVE  PageTypeOK' /\ \A d \in Conn : Situation(d)'
<1> DEFINE word == IF ~isRecord[c] THEN "start" ELSE "stop"
<1>1. /\ entry[c].alive /\ c \in enabled /\ entry' = entry /\ enabled' = enabled /\ down' = down
      /\ up[c] = <<>> /\ down[c] = <<>>
      /\ isRecord' = [isRecord EXCEPT ![c] = ~isRecord[c]]
      /\ up' = [up EXCEPT ![c] = @ \o <<IF isRecord'[c] THEN "start" ELSE "stop">>]
  BY DEF CarefulClick, Click, Quiet, vars
<1>2. isRecord[c] \in BOOLEAN /\ isRecord'[c] = ~isRecord[c]
  BY <1>1 DEF ButtonInv, PageTypeOK
<1>3. up' = [up EXCEPT ![c] = <<word>>]
  <2>1. word = IF isRecord'[c] THEN "start" ELSE "stop"
    BY <1>2
  <2>2. word \in {"start", "stop"}
    OBVIOUS
  <2>3. up[c] \o <<word>> = <<word>>
    BY <1>1, <2>2
  <2>4. up' = [up EXCEPT ![c] = up[c] \o <<word>>]
    BY <1>1, <2>1
  <2> QED BY <2>3, <2>4
<1>4. isRecord[c] <=> entry[c].pipeline # NoPipe
  BY <1>1 DEF ButtonInv, Situation, Settled, Starting, Stopping, Refused
<1>5. <<word>> \in Seq({"start", "stop"})
  OBVIOUS
<1>6. PageTypeOK' /\ up'[c] = <<word>> /\ \A d \in Conn \ {c} : SameSituation(d)
  <2>1. PageTypeOK
    BY DEF ButtonInv
  <2>2. up' \in [Conn -> Seq({"start", "stop"})] /\ up'[c] = <<word>>
        /\ \A d \in Conn \ {c} : up'[d] = up[d]
    BY <1>3, <1>5, <2>1 DEF PageTypeOK
  <2>3. isRecord' \in [Conn -> BOOLEAN] /\ \A d \in Conn \ {c} : isRecord'[d] = isRecord[d]
    BY <1>1, <1>2, <2>1 DEF PageTypeOK
  <2> QED BY <1>1, <2>1, <2>2, <2>3 DEF PageTypeOK, SameSituation
<1>7. Situation(c)'
  <2>1. CASE isRecord[c]
    BY <1>1, <1>2, <1>4, <1>6, <2>1 DEF Situation, Stopping
  <2>2. CASE ~isRecord[c]
    BY <1>1, <1>2, <1>4, <1>6, <2>2 DEF Situation, Starting
  <2> QED BY <2>1, <2>2
<1> QED BY <1>6, <1>7, SituationByOne

\* A refusal takes the button back on a page whose start was refused.
LEMMA RefusalStep ==
    ASSUME ButtonInv, NEW c \in Conn, recordCallBack(c)
    PROVE  PageTypeOK' /\ \A d \in Conn : Situation(d)'
<1>1. /\ down[c] # <<>> /\ down' = [down EXCEPT ![c] = Tail(@)]
      /\ isRecord' = [isRecord EXCEPT ![c] = FALSE]
      /\ UNCHANGED <<entry, up, enabled>>
  BY DEF recordCallBack, vars
<1>2. entry[c].alive /\ Refused(c)
  BY <1>1 DEF ButtonInv, Situation, Settled, Starting, Stopping, Loaded
<1>3. Tail(down[c]) = <<>>
  BY <1>2 DEF Refused
<1>4. /\ down' \in [Conn -> Seq({"started"})] /\ down'[c] = <<>>
      /\ isRecord' \in [Conn -> BOOLEAN] /\ isRecord'[c] = FALSE
      /\ \A d \in Conn \ {c} : down'[d] = down[d] /\ isRecord'[d] = isRecord[d]
  BY <1>1, <1>3 DEF ButtonInv, PageTypeOK
<1>5. PageTypeOK' /\ \A d \in Conn \ {c} : SameSituation(d)
  BY <1>1, <1>4 DEF ButtonInv, PageTypeOK, SameSituation
<1>6. Situation(c)'
  BY <1>1, <1>2, <1>4 DEF Situation, Settled, Refused
<1> QED BY <1>5, <1>6, SituationByOne

\* The server answers a start by a recording or a refusal, and a stop by ending
\* the recording of the same page.
LEMMA ServerReadsStep ==
    ASSUME ButtonInv, NEW c \in Conn, ServerReads(c)
    PROVE  /\ PageTypeOK' /\ \A d \in Conn : Situation(d)'
           /\ \/ UNCHANGED vars
              \/ record_start(c)
              \/ entry[c].pipeline # NoPipe /\ record_stop(c)
<1>1. /\ up[c] # <<>> /\ up' = [up EXCEPT ![c] = Tail(@)]
      /\ UNCHANGED <<enabled, isRecord>>
  BY DEF ServerReads
<1>2. entry[c].alive /\ (Starting(c) \/ Stopping(c))
  BY <1>1 DEF ButtonInv, Situation, Settled, Refused, Loaded
<1>3. Tail(up[c]) = <<>> /\ down[c] = <<>>
  <2>1. \E word \in {"start", "stop"} : up[c] = <<word>>
    BY <1>2 DEF Starting, Stopping
  <2>2. Tail(up[c]) = <<>>
    BY <2>1
  <2> QED BY <1>2, <2>2 DEF Starting, Stopping
<1>4. /\ up' \in [Conn -> Seq({"start", "stop"})] /\ up'[c] = <<>>
      /\ \A d \in Conn \ {c} : up'[d] = up[d]
  BY <1>1, <1>3 DEF ButtonInv, PageTypeOK
<1>5. CASE Head(up[c]) = "start" /\ cmd_recording
  <2>1. down' = [down EXCEPT ![c] = @ \o <<"started">>] /\ UNCHANGED vars
    BY <1>5 DEF ServerReads, record_start
  <2>2. down[c] \o <<"started">> = <<"started">>
    BY <1>3
  <2>3. /\ down' \in [Conn -> Seq({"started"})] /\ down'[c] = <<"started">>
        /\ \A d \in Conn \ {c} : down'[d] = down[d]
    BY <2>1, <2>2 DEF ButtonInv, PageTypeOK
  <2>4. PageTypeOK' /\ entry' = entry /\ \A d \in Conn \ {c} : SameSituation(d)
    BY <1>1, <1>4, <2>1, <2>3 DEF ButtonInv, PageTypeOK, SameSituation, vars
  <2>5. Starting(c)
    BY <1>2, <1>5 DEF Stopping
  <2>6. Situation(c)'
    BY <1>1, <1>2, <1>4, <2>3, <2>4, <2>5 DEF Situation, Refused, Starting
  <2> QED BY <2>1, <2>4, <2>6, SituationByOne
<1>6. CASE Head(up[c]) = "start" /\ record_start(c) /\ UNCHANGED down
  <2>1. /\ entry'[c].alive /\ entry'[c].pipeline # NoPipe
        /\ \A d \in Conn \ {c} : entry'[d] = entry[d]
    BY <1>6, StartMoves DEF ButtonInv, Counted
  <2>2. PageTypeOK' /\ \A d \in Conn \ {c} : SameSituation(d)
    BY <1>1, <1>4, <1>6, <2>1 DEF ButtonInv, PageTypeOK, SameSituation
  <2>3. Starting(c)
    BY <1>2, <1>6 DEF Stopping
  <2>4. Situation(c)'
    BY <1>1, <1>4, <1>6, <2>1, <2>3 DEF Situation, Settled, Starting
  <2> QED BY <1>6, <2>2, <2>4, SituationByOne
<1>7. CASE Head(up[c]) = "stop" /\ record_stop(c) /\ UNCHANGED down
  <2>1. /\ entry'[c].alive /\ entry'[c].pipeline = NoPipe
        /\ \A d \in Conn \ {c} : entry'[d] = entry[d]
    BY <1>7, StopMoves DEF ButtonInv, Counted
  <2>2. PageTypeOK' /\ \A d \in Conn \ {c} : SameSituation(d)
    BY <1>1, <1>4, <1>7, <2>1 DEF ButtonInv, PageTypeOK, SameSituation
  <2>3. Stopping(c)
    BY <1>2, <1>7 DEF Starting
  <2>4. Situation(c)'
    BY <1>1, <1>4, <1>7, <2>1, <2>3 DEF Situation, Settled, Stopping
  <2> QED BY <1>7, <2>2, <2>3, <2>4, SituationByOne DEF Stopping
<1> QED BY <1>5, <1>6, <1>7 DEF ServerReads

\* A reloaded page is as loaded, and its session has closed.
LEMMA ReloadStep ==
    ASSUME ButtonInv, NEW c \in Conn, Reload(c)
    PROVE  PageTypeOK' /\ \A d \in Conn : Situation(d)'
<1>1. /\ up' = [up EXCEPT ![c] = <<>>] /\ down' = [down EXCEPT ![c] = <<>>]
      /\ isRecord' = [isRecord EXCEPT ![c] = FALSE] /\ enabled' = enabled \ {c}
  BY DEF Reload
<1>2. /\ up' \in [Conn -> Seq({"start", "stop"})] /\ up'[c] = <<>>
      /\ down' \in [Conn -> Seq({"started"})] /\ down'[c] = <<>>
      /\ isRecord' \in [Conn -> BOOLEAN] /\ isRecord'[c] = FALSE
      /\ \A d \in Conn \ {c} : /\ up'[d] = up[d] /\ down'[d] = down[d]
                               /\ isRecord'[d] = isRecord[d]
  BY <1>1 DEF ButtonInv, PageTypeOK
<1>3. ~entry'[c].alive /\ entry'[c].pipeline = NoPipe /\ \A d \in Conn \ {c} : entry'[d] = entry[d]
  BY CloseMoves DEF Reload, ButtonInv, Counted, Gone
<1>4. PageTypeOK' /\ \A d \in Conn \ {c} : SameSituation(d)
  BY <1>1, <1>2, <1>3 DEF ButtonInv, PageTypeOK, SameSituation
<1>5. Situation(c)'
  BY <1>1, <1>2, <1>3 DEF Situation, Loaded
<1> QED BY <1>4, <1>5, SituationByOne

\* A careful step keeps the situations and is a polite step of the server.
LEMMA CarefulStep ==
    ASSUME ButtonInv, [CarefulNext]_allVars
    PROVE  ButtonInv' /\ [PoliteNext]_vars
<1>1. ASSUME NEW c \in Conn, Connect(c), undefined = "none"
      PROVE  PoliteNext
  BY <1>1 DEF Connect, PoliteNext, Background
<1>2. ASSUME NEW c \in Conn, Reload(c), undefined = "none"
      PROVE  PoliteNext
  BY <1>2 DEF Reload, PoliteNext, Background
<1>3. ASSUME NEW c \in Conn, ServerReads(c), undefined = "none"
      PROVE  [PoliteNext]_vars
  BY <1>3, ServerReadsStep DEF PoliteNext, PoliteMessage
<1>4. [PoliteNext]_vars
  BY <1>1, <1>2, <1>3
     DEF CarefulNext, PageStep, CarefulClick, Click, onAddRemoteStream, recordCallBack, allVars
<1>5. TypeOK'
  BY <1>4, PoliteIsNext, TypeStep DEF ButtonInv
<1>6. PageTypeOK' /\ \A d \in Conn : Situation(d)'
  <2>1. CASE UNCHANGED allVars
    BY <2>1 DEF allVars, vars, pageVars, ButtonInv, PageTypeOK, Situation, Settled, Starting,
                Stopping, Refused, Loaded
  <2> QED
    BY <2>1, ConnectStep, EnableStep, ClickStep, RefusalStep, ServerReadsStep, ReloadStep
       DEF CarefulNext, PageStep
<1> QED BY <1>4, <1>5, <1>6 DEF ButtonInv

\* The situations hold of every behaviour with careful users.
LEMMA CarefulInvariance == CarefulSpec => []ButtonInv
<1>1. PageInit => ButtonInv
  <2> SUFFICES ASSUME PageInit PROVE ButtonInv
    OBVIOUS
  <2>1. TypeOK
    BY DEF PageInit, Init, TypeOK, WebrtcItem, Gone, Ptr, Use
  <2>2. PageTypeOK /\ \A c \in Conn : Loaded(c) /\ ~entry[c].alive /\ c \notin enabled
    BY DEF PageInit, Init, PageTypeOK, Loaded, Gone
  <2> QED BY <2>1, <2>2 DEF ButtonInv, Situation
<1>2. ButtonInv /\ [CarefulNext]_allVars => ButtonInv'
  BY CarefulStep
<1> QED BY <1>1, <1>2, PTL DEF CarefulSpec
-----------------------------------------------------------------------------
\* The queues only ever carry starts, stops and refusals.
THEOREM PagesTypeCorrect == CarefulSpec => []PageTypeOK
<1>1. ButtonInv => PageTypeOK
  BY DEF ButtonInv
<1> QED BY <1>1, CarefulInvariance, PTL

\* Sending one word and reading one.
LEMMA Words ==
    ASSUME NEW W, NEW q \in Seq(W)
    PROVE  /\ \A w \in W : q \o <<w>> \in Seq(W)
           /\ q # <<>> => Tail(q) \in Seq(W) /\ Head(q) \in W
  OBVIOUS

\* Whatever the users do: clicks on broken sockets, several in flight, none
\* waited for.
THEOREM AnyPagesTypeCorrect == PageSpec => []PageTypeOK
<1>1. PageInit => PageTypeOK
  BY DEF PageInit, PageTypeOK
<1>2. PageTypeOK /\ [PageNext]_allVars => PageTypeOK'
  <2> SUFFICES ASSUME PageTypeOK, [PageNext]_allVars PROVE PageTypeOK'
    OBVIOUS
  <2>1. ASSUME NEW c \in Conn, Click(c) PROVE PageTypeOK'
    <3>1. up[c] \in Seq({"start", "stop"})
      BY DEF PageTypeOK
    <3>2. up[c] \o <<IF isRecord'[c] THEN "start" ELSE "stop">> \in Seq({"start", "stop"})
      <4>1. PICK w \in {"start", "stop"} : w = IF isRecord'[c] THEN "start" ELSE "stop"
        OBVIOUS
      <4>2. up[c] \o <<w>> \in Seq({"start", "stop"})
        BY <3>1, Words
      <4> QED BY <4>1, <4>2
    <3> QED BY <2>1, <3>2 DEF Click, PageTypeOK
  <2>2. ASSUME NEW c \in Conn, Break(c) PROVE PageTypeOK'
    <3>1. <<>> \in Seq({"start", "stop"}) /\ <<>> \in Seq({"started"})
      OBVIOUS
    <3> QED BY <2>2, <3>1 DEF Break, PageTypeOK
  <2>3. ASSUME NEW c \in Conn, ServerReads(c) PROVE PageTypeOK'
    <3>1. up[c] \in Seq({"start", "stop"}) /\ down[c] \in Seq({"started"})
      BY DEF PageTypeOK
    <3>2. Tail(up[c]) \in Seq({"start", "stop"})
      BY <2>3, <3>1, Words DEF ServerReads
    <3>3. down[c] \o <<"started">> \in Seq({"started"})
      BY <3>1, Words
    <3> QED BY <2>3, <3>2, <3>3 DEF ServerReads, PageTypeOK
  <2>4. ASSUME NEW c \in Conn, recordCallBack(c) PROVE PageTypeOK'
    <3>1. Tail(down[c]) \in Seq({"started"})
      BY <2>4, Words DEF recordCallBack, PageTypeOK
    <3> QED BY <2>4, <3>1 DEF recordCallBack, PageTypeOK
  <2>5. ASSUME NEW c \in Conn, Connect(c) \/ onAddRemoteStream(c) PROVE PageTypeOK'
    BY <2>5 DEF Connect, onAddRemoteStream, pageVars, PageTypeOK
  <2>6. CASE UNCHANGED allVars
    BY <2>6 DEF allVars, pageVars, PageTypeOK
  <2> QED BY <2>1, <2>2, <2>3, <2>4, <2>5, <2>6 DEF PageNext, PageStep
<1> QED BY <1>1, <1>2, PTL DEF PageSpec

\* The page's record button, used with care, is a polite client of the session
\* table: it sends record stop only while its own session records.
THEOREM CarefulUsersArePolite == CarefulSpec => PoliteSpec
<1>1. PageInit => Init
  BY DEF PageInit
<1>2. ButtonInv /\ [CarefulNext]_allVars => [PoliteNext]_vars
  BY CarefulStep
<1> QED BY <1>1, <1>2, CarefulInvariance, PTL DEF CarefulSpec, PoliteSpec

\* With careful users no start is accepted while another session records
\* (soup.c 297-316), for any number of pages.
THEOREM OneRecordingWithCare == CarefulSpec => []OneRecordingAtATime
<1>1. ExclusiveRecording => OneRecordingAtATime
  BY DEF ExclusiveRecording, OneRecordingAtATime
<1> QED BY <1>1, CarefulUsersArePolite, RecordingIsExclusive, PTL

\* With careful users a page that waits for nothing shows "Stop Record" exactly
\* while its own session records.
THEOREM ButtonTellsTheTruth == CarefulSpec => []ButtonIsTruthful
<1>1. ButtonInv => ButtonIsTruthful
  BY DEF ButtonInv, ButtonIsTruthful, Quiet, Situation, Settled, Starting, Stopping, Refused
<1> QED BY <1>1, CarefulInvariance, PTL

\* A page that shows "Stop Record" without a recording waits for exactly one
\* message: its start, not read yet, or the refusal of it.
StartIsUnderWay ==
    \A c \in Conn :
        isRecord[c] /\ entry[c].pipeline = NoPipe =>
            /\ entry[c].alive
            /\ \/ up[c] = <<"start">> /\ down[c] = <<>>
               \/ up[c] = <<>> /\ down[c] = <<"started">>

\* So no careful click is lost: what ClickIsAnswered waits for is on its way,
\* on a socket that lives (soup.c 297-316 and recordCallBack).
THEOREM NoStartIsLost == CarefulSpec => []StartIsUnderWay
<1>1. ButtonInv => StartIsUnderWay
  BY DEF ButtonInv, StartIsUnderWay, Situation, Settled, Starting, Stopping, Refused, Loaded
<1> QED BY <1>1, CarefulInvariance, PTL
=============================================================================
