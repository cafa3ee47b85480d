-------------------------- MODULE UserCtrls_proofs --------------------------
(***************************************************************************)
(* Theorems about UserCtrls.  A slider may be ahead of the device, so the  *)
(* inductive invariant says, for each page and control, on what the slider *)
(* was moved last: the last message on its way that concerns the control,  *)
(* or the reset the session is in the middle of, or what was done already. *)
(***************************************************************************)
EXTENDS UserCtrls, TLAPS

\* A message that will set control c.
Concerns(m, c) == m.what = "reset" \/ m.ctrl = c

Promised(p, c) == \E i \in DOMAIN toServer[p] : Concerns(toServer[p][i], c)

\* p's session is in a reset that has not come past c.
Resetting(p, c) == job[p].what = "reset" /\ job[p].at <= c

\* The slider stands where the message came from.
Matches(m, p, c) ==
    IF m.what = "reset" THEN shown[p][c] = ResetPosition(c)
    ELSE m.value = SentValue(c, shown[p][c])

\* Only the first control is where an idle session would begin.
JobsBegin == \A p \in Page : job[p].what = "idle" => job[p].at = 1

\* A page says nothing before it has the list, which it is sent once.
SilentFirst ==
    \A p \in Page :
        /\ shown[p] = <<>> => /\ toServer[p] = <<>>
                              /\ job[p].what # "reset"
                              /\ \A c \in Ctrl : \A b \in by[c] : b.page # p
        /\ toPage[p] # <<>> => shown[p] = <<>> /\ job[p].what = "idle"
        /\ job[p].what = "list" => shown[p] = <<>>

\* Values read are values of the control.
ReadsAreValues ==
    \A p \in Page : \A c \in Listed :
        /\ job[p].got[c] \in Min[c]..Max[c]
        /\ \A i \in DOMAIN toPage[p] : toPage[p][i][c] \in Min[c]..Max[c]

\* The last message that concerns c is of where the slider stands.
LastTells(p, c) ==
    \A i \in DOMAIN toServer[p] :
        /\ Concerns(toServer[p][i], c)
        /\ \A j \in DOMAIN toServer[p] : j > i => ~Concerns(toServer[p][j], c)
        => Matches(toServer[p][i], p, c)

\* If none does, a reset on its way to c is.
ResetTells(p, c) ==
    ~Promised(p, c) /\ Resetting(p, c) => shown[p][c] = ResetPosition(c)

\* If there is neither, the device has it, if p set it last.
DeviceTells(p, c) ==
    /\ ~Promised(p, c) /\ ~Resetting(p, c)
    /\ \E b \in by[c] : b.page = p /\ (converted(c) => b.what = "reset" /\ Min[c] = -Max[c])
    => shown[p][c] = Position(c, dev[c])

Told(p, c) == LastTells(p, c) /\ ResetTells(p, c) /\ DeviceTells(p, c)

\* Of every control that a reset comes to.
AllTold == \A p \in Page, c \in Listed : Reached(c) => Told(p, c)

BaseInv == TypeOK /\ ReadsAreValues /\ JobsBegin /\ SilentFirst

CtrlInv ==
    /\ BaseInv
    /\ program = "gwc" => AllTold
-----------------------------------------------------------------------------
\* A value has a position between the slider's ends; without the conversion it
\* is the value, which is also what a move sends.  A reset puts the slider
\* between its ends: where the default value is, if the range is symmetric.
LEMMA SliderFacts ==
    ASSUME NEW c \in Listed
    PROVE  /\ c \in Ctrl /\ Min[c] \in Int /\ Max[c] \in Int
           /\ Default[c] \in Min[c]..Max[c]
           /\ \A v \in Min[c]..Max[c] : Position(c, v) \in Bottom(c)..Top(c)
           /\ \A pos \in Bottom(c)..Top(c) : pos \in Int /\ SentValue(c, pos) \in Int
           /\ ResetPosition(c) \in Bottom(c)..Top(c)
           /\ ~converted(c) =>
                \A pos \in Bottom(c)..Top(c) :
                    pos \in Min[c]..Max[c] /\ SentValue(c, pos) = pos /\ Position(c, pos) = pos
           /\ (converted(c) => Min[c] = -Max[c]) =>
                ResetPosition(c) = Position(c, Default[c])
<1>1. /\ c \in Ctrl /\ Min[c] \in Int /\ Max[c] \in Int /\ Default[c] \in Int
      /\ Min[c] <= Default[c] /\ Default[c] <= Max[c]
  BY CtrlAssumption
<1>2. CASE converted(c)
  BY <1>1, <1>2 DEF converted, Position, Bottom, Top, Nearest, ResetPosition, SentValue
<1>3. CASE ~converted(c)
  BY <1>1, <1>3 DEF converted, Position, Bottom, Top, Nearest, ResetPosition, SentValue
<1> QED BY <1>2, <1>3

\* The device takes a value of the control, and makes one of any other.
LEMMA DeviceFacts ==
    ASSUME NEW c \in Ctrl, NEW value \in Int, dev[c] \in Min[c]..Max[c]
    PROVE  /\ Accepted(c, value) \subseteq Min[c]..Max[c]
           /\ value \in Min[c]..Max[c] => Accepted(c, value) = {value}
<1>1. Min[c] \in Int /\ Max[c] \in Int /\ Min[c] <= Max[c]
  BY CtrlAssumption
<1> QED BY <1>1 DEF Accepted

\* A message is taken from the front of a queue.
LEMMA QueueTail ==
    ASSUME NEW q \in Seq(Message), q # <<>>
    PROVE  /\ Head(q) = q[1] /\ Head(q) \in Message /\ Tail(q) \in Seq(Message)
           /\ 1 \in DOMAIN q
           /\ \A i \in DOMAIN Tail(q) : i + 1 \in DOMAIN q /\ Tail(q)[i] = q[i + 1] /\ i \in Nat
           /\ \A i \in DOMAIN q : i = 1 \/ (i - 1 \in DOMAIN Tail(q) /\ i \in Nat /\ i > 1)
  OBVIOUS

\* One is put at its end.
LEMMA QueueAppend ==
    ASSUME NEW q \in Seq(Message), NEW m \in Message
    PROVE  /\ Append(q, m) \in Seq(Message)
           /\ Len(q) + 1 \in DOMAIN Append(q, m) /\ Append(q, m)[Len(q) + 1] = m
           /\ \A i \in DOMAIN q : i \in DOMAIN Append(q, m) /\ Append(q, m)[i] = q[i]
                                    /\ i < Len(q) + 1
           /\ \A i \in DOMAIN Append(q, m) : i = Len(q) + 1 \/ i \in DOMAIN q
  OBVIOUS

\* Setting a control leaves the device's values values.
LEMMA SetTypes ==
    ASSUME TypeOK, NEW p \in Page, NEW what \in {"set", "reset"}, NEW c \in Ctrl,
           NEW value \in Int, SetCtrl(p, what, c, value)
    PROVE  /\ dev' \in [Ctrl -> Int] /\ \A d \in Ctrl : dev'[d] \in Min[d]..Max[d]
           /\ by' \in [Ctrl -> SUBSET Writer]
           /\ dev'[c] \in Accepted(c, value)
           /\ by'[c] = {[page |-> p, what |-> what]}
           /\ \A d \in Ctrl : d # c => dev'[d] = dev[d] /\ by'[d] = by[d]
<1>1. PICK v \in Accepted(c, value) : dev' = [dev EXCEPT ![c] = v]
  BY DEF SetCtrl
<1>2. v \in Min[c]..Max[c] /\ v \in Int
  BY <1>1, DeviceFacts, CtrlAssumption DEF TypeOK
<1>3. /\ dev' \in [Ctrl -> Int] /\ dev'[c] = v
      /\ \A d \in Ctrl : d # c => dev'[d] = dev[d]
  BY <1>1, <1>2 DEF TypeOK
<1>4. by' = [by EXCEPT ![c] = {[page |-> p, what |-> what]}]
  BY DEF SetCtrl
<1>5. {[page |-> p, what |-> what]} \in SUBSET Writer
  BY DEF Writer
<1>6. /\ by' \in [Ctrl -> SUBSET Writer] /\ by'[c] = {[page |-> p, what |-> what]}
      /\ \A d \in Ctrl : d # c => by'[d] = by[d]
  BY <1>4, <1>5 DEF TypeOK
<1>7. \A d \in Ctrl : dev'[d] \in Min[d]..Max[d]
  BY <1>2, <1>3 DEF TypeOK
<1> QED BY <1>1, <1>3, <1>6, <1>7
-----------------------------------------------------------------------------
\* The types of the parts of a state.
LEMMA Types ==
    ASSUME TypeOK, NEW p \in Page
    PROVE  /\ job[p] \in [what : {"idle", "list", "reset"}, at : Ctrl, got : Values]
           /\ shown[p] \in {<<>>} \cup Values
           /\ toServer[p] \in Seq(Message) /\ toPage[p] \in Seq(Values)
           /\ toPage[p] = <<>> \/ (Len(toPage[p]) = 1 /\ DOMAIN toPage[p] = {1} /\ Head(toPage[p]) = toPage[p][1] /\ toPage[p][1] \in Values)
<1>1. toPage[p] \in Seq(Values) /\ Len(toPage[p]) \in Nat /\ Len(toPage[p]) <= 1
  BY DEF TypeOK
<1>2. Len(toPage[p]) = 0 \/ Len(toPage[p]) = 1
  <2>1. \A n \in Nat : n <= 1 => n = 0 \/ n = 1
    OBVIOUS
  <2> QED BY <1>1, <2>1
<1>3. CASE Len(toPage[p]) = 0
  BY <1>1, <1>3 DEF TypeOK
<1>4. CASE Len(toPage[p]) = 1
  BY <1>1, <1>4 DEF TypeOK
<1> QED BY <1>2, <1>3, <1>4

LEMMA IdleType == 1 \in Ctrl /\ N \in Ctrl
                  /\ Idle \in [what : {"idle", "list", "reset"}, at : Ctrl, got : Values]
                  /\ \A c \in Listed : Idle.got[c] \in Min[c]..Max[c]
<1>1. PICK k \in Listed : k \in Ctrl
  BY CtrlAssumption
<1>2. 1 \in Ctrl /\ N \in Ctrl
  BY <1>1, CtrlAssumption DEF Ctrl
<1>3. [c \in Listed |-> Min[c]] \in Values
  BY CtrlAssumption DEF Values
<1>4. \A d \in Listed : Min[d] \in Min[d]..Max[d]
  BY CtrlAssumption
<1> QED BY <1>2, <1>3, <1>4 DEF Idle

\* A slider never is where there is no list yet.
LEMMA ListIsShown == \A v \in Values : v # <<>>
<1>1. \A v \in Values : DOMAIN v = Listed
  BY DEF Values
<1>2. DOMAIN <<>> = {}
  OBVIOUS
<1> QED BY <1>1, <1>2, CtrlAssumption

LEMMA BaseOpen == ASSUME BaseInv, NEW p \in Page, Open(p) PROVE BaseInv'
<1>1. job' = [job EXCEPT ![p].what = "list"]
  BY DEF Open
<1>2. job[p] \in [what : {"idle", "list", "reset"}, at : Ctrl, got : Values]
  BY Types DEF BaseInv
<1>3. job' \in [Page -> [what : {"idle", "list", "reset"}, at : Ctrl, got : Values]]
  BY <1>1, <1>2 DEF BaseInv, TypeOK
<1>4. TypeOK'
  BY <1>3 DEF BaseInv, TypeOK, Open, device
<1>5. /\ job'[p].what = "list" /\ job'[p].got = job[p].got
      /\ \A q \in Page : q # p => job'[q] = job[q]
  BY <1>1, <1>2 DEF BaseInv, TypeOK
<1>6. ReadsAreValues'
  BY <1>5 DEF BaseInv, ReadsAreValues, Open
<1>7. JobsBegin'
  BY <1>5 DEF BaseInv, JobsBegin
<1>8. SilentFirst'
  BY <1>5 DEF BaseInv, SilentFirst, Open
<1> QED BY <1>4, <1>6, <1>7, <1>8 DEF BaseInv

LEMMA BaseRead == ASSUME BaseInv, NEW p \in Page, get_device_json(p) PROVE BaseInv'
<1> DEFINE c == job[p].at
           got == IF c \in Listed THEN [job[p].got EXCEPT ![c] = dev[c]] ELSE job[p].got
<1>1. /\ job[p] \in [what : {"idle", "list", "reset"}, at : Ctrl, got : Values]
      /\ job[p].what = "list" /\ c \in Ctrl /\ job[p].got \in Values
      /\ toPage[p] = <<>> /\ shown[p] = <<>>
  BY Types DEF BaseInv, get_device_json, SilentFirst
<1>2. \A d \in Ctrl : dev[d] \in Int /\ dev[d] \in Min[d]..Max[d]
  BY DEF BaseInv, TypeOK
<1>3. PICK g \in Values : g = got /\ \A d \in Listed : g[d] \in Min[d]..Max[d]
  <2>1. got \in Values
    BY <1>1, <1>2 DEF Values
  <2>2. \A d \in Listed : got[d] \in Min[d]..Max[d]
    <3> SUFFICES ASSUME NEW d \in Listed PROVE got[d] \in Min[d]..Max[d]
      OBVIOUS
    <3>1. job[p].got[d] \in Min[d]..Max[d] /\ d \in Ctrl
      BY CtrlAssumption DEF BaseInv, ReadsAreValues
    <3>2. got[d] = job[p].got[d] \/ (d = c /\ got[d] = dev[d])
      BY <1>1 DEF Values
    <3> QED BY <1>2, <3>1, <3>2
  <2> QED BY <2>1, <2>2
<1>4. UNCHANGED <<device, dev, shown, toServer, moves, by>>
  BY DEF get_device_json
<1>5. CASE c = N
  <2>1. job' = [job EXCEPT ![p] = Idle] /\ toPage' = [toPage EXCEPT ![p] = Append(@, g)]
    BY <1>3, <1>5 DEF get_device_json
  <2>2. /\ job' \in [Page -> [what : {"idle", "list", "reset"}, at : Ctrl, got : Values]]
        /\ job'[p] = Idle /\ \A q \in Page : q # p => job'[q] = job[q]
    BY <2>1, IdleType DEF BaseInv, TypeOK
  <2>3. PICK l \in Seq(Values) : l = Append(toPage[p], g) /\ Len(l) = 1 /\ DOMAIN l = {1} /\ l[1] = g
    <3>1. <<>> \in Seq(Values)
      OBVIOUS
    <3>2. Append(<<>>, g) \in Seq(Values)
      BY <1>3, <3>1
    <3>3. Len(Append(<<>>, g)) = 1 /\ Append(<<>>, g)[1] = g
      BY <1>3, <3>1
    <3>4. DOMAIN Append(<<>>, g) = 1..1
      BY <3>2, <3>3
    <3>5. 1..1 = {1} /\ Append(toPage[p], g) = Append(<<>>, g)
      BY <1>1
    <3> QED BY <3>2, <3>3, <3>4, <3>5, Zenon
  <2>4. /\ toPage' \in [Page -> Seq(Values)] /\ toPage'[p] = l
        /\ \A q \in Page : q # p => toPage'[q] = toPage[q]
    BY <2>1, <2>3 DEF BaseInv, TypeOK
  <2>5. \A q \in Page : Len(toPage'[q]) <= 1
    BY <2>3, <2>4 DEF BaseInv, TypeOK
  <2>6. TypeOK'
    BY <1>4, <2>2, <2>4, <2>5 DEF BaseInv, TypeOK, device
  <2>7. ReadsAreValues'
    <3> SUFFICES ASSUME NEW q \in Page, NEW d \in Listed
                 PROVE  /\ job'[q].got[d] \in Min[d]..Max[d]
                        /\ \A i \in DOMAIN toPage'[q] : toPage'[q][i][d] \in Min[d]..Max[d]
      BY DEF ReadsAreValues
    <3>1. CASE q = p
      BY <1>3, <2>2, <2>3, <2>4, <3>1, IdleType
    <3>2. CASE q # p
      BY <2>2, <2>4, <3>2 DEF BaseInv, ReadsAreValues
    <3> QED BY <3>1, <3>2
  <2>8. Idle.what = "idle" /\ Idle.at = 1
    BY DEF Idle
  <2>9. JobsBegin'
    BY <2>2, <2>8 DEF BaseInv, JobsBegin
  <2>10. SilentFirst'
    <3>1. SilentFirst /\ UNCHANGED <<shown, toServer, by>>
      BY <1>4 DEF BaseInv
    <3>2. job'[p].what = "idle" /\ \A q \in Page : q # p => job'[q] = job[q] /\ toPage'[q] = toPage[q]
      BY <2>2, <2>4, <2>8
    <3> QED BY <1>1, <3>1, <3>2 DEF SilentFirst
  <2> QED BY <2>6, <2>7, <2>9, <2>10 DEF BaseInv
<1>6. CASE c # N
  <2>1. job' = [job EXCEPT ![p].at = c + 1, ![p].got = g] /\ toPage' = toPage
    BY <1>3, <1>6 DEF get_device_json
  <2>2. c + 1 \in Ctrl
    BY <1>1, <1>6, CtrlAssumption DEF Ctrl
  <2>3. job'[p] = [job[p] EXCEPT !.at = c + 1, !.got = g] /\ \A q \in Page : q # p => job'[q] = job[q]
    BY <2>1 DEF BaseInv, TypeOK
  <2>4. job'[p].what = "list" /\ job'[p].got = g
        /\ job'[p] \in [what : {"idle", "list", "reset"}, at : Ctrl, got : Values]
    BY <1>1, <2>2, <2>3
  <2>5. job' \in [Page -> [what : {"idle", "list", "reset"}, at : Ctrl, got : Values]]
    BY <2>1, <2>3, <2>4 DEF BaseInv, TypeOK
  <2>6. TypeOK'
    BY <1>4, <2>1, <2>5 DEF BaseInv, TypeOK, device
  <2>7. ReadsAreValues'
    BY <1>3, <2>1, <2>3, <2>4 DEF BaseInv, ReadsAreValues
  <2>8. JobsBegin'
    BY <2>3, <2>4 DEF BaseInv, JobsBegin
  <2>9. SilentFirst'
    <3>1. /\ job'[p].what = "list" /\ job[p].what = "list"
          /\ \A q \in Page : q # p => job'[q] = job[q]
      BY <1>1, <2>3, <2>4
    <3>2. UNCHANGED <<shown, toServer, toPage, by>>
      BY <1>4, <2>1
    <3>3. SilentFirst
      BY DEF BaseInv
    <3> QED BY <3>1, <3>2, <3>3 DEF SilentFirst
  <2> QED BY <2>6, <2>7, <2>8, <2>9 DEF BaseInv
<1> QED BY <1>5, <1>6

LEMMA BaseShow == ASSUME BaseInv, NEW p \in Page, add_user_ctrls(p) PROVE BaseInv'
<1>1. /\ toPage[p] # <<>> /\ toPage[p][1] \in Values /\ Head(toPage[p]) = toPage[p][1]
      /\ 1 \in DOMAIN toPage[p]
  BY Types DEF BaseInv, add_user_ctrls
<1>2. \A c \in Listed : toPage[p][1][c] \in Min[c]..Max[c]
  BY <1>1 DEF BaseInv, ReadsAreValues
<1>3. PICK s : s = [c \in Listed |-> Position(c, toPage[p][1][c])]
  OBVIOUS
<1>4. \A c \in Listed : s[c] \in Bottom(c)..Top(c) /\ s[c] \in Int
  BY <1>2, <1>3, SliderFacts
<1>5. s \in Values /\ s # <<>>
  BY <1>3, <1>4, ListIsShown DEF Values
<1>6. /\ shown' = [shown EXCEPT ![p] = s] /\ toPage' = [toPage EXCEPT ![p] = <<>>]
      /\ UNCHANGED <<device, dev, job, toServer, moves, by>>
  BY <1>1, <1>3 DEF add_user_ctrls
<1>7. /\ shown' \in [Page -> {<<>>} \cup Values] /\ shown'[p] = s
      /\ \A q \in Page : q # p => shown'[q] = shown[q]
  BY <1>5, <1>6 DEF BaseInv, TypeOK
<1>8. <<>> \in Seq(Values) /\ Len(<<>>) = 0 /\ DOMAIN <<>> = {}
  OBVIOUS
<1>9. /\ toPage' \in [Page -> Seq(Values)] /\ toPage'[p] = <<>>
      /\ \A q \in Page : q # p => toPage'[q] = toPage[q]
  BY <1>6, <1>8 DEF BaseInv, TypeOK
<1>10. \A q \in Page :
        /\ Len(toPage'[q]) <= 1
        /\ shown'[q] # <<>> => \A c \in Listed : shown'[q][c] \in Bottom(c)..Top(c)
  BY <1>4, <1>7, <1>8, <1>9 DEF BaseInv, TypeOK
<1>11. TypeOK'
  BY <1>6, <1>7, <1>9, <1>10 DEF BaseInv, TypeOK, device
<1>12. ReadsAreValues'
  BY <1>6, <1>8, <1>9 DEF BaseInv, ReadsAreValues
<1>13. JobsBegin'
  BY <1>6 DEF BaseInv, JobsBegin
<1>14. SilentFirst'
  BY <1>1, <1>5, <1>6, <1>7, <1>9 DEF BaseInv, SilentFirst
<1> QED BY <1>11, <1>12, <1>13, <1>14 DEF BaseInv

\* A page moves its sliders and says so.
LEMMA BaseSay ==
    ASSUME BaseInv, NEW p \in Page, UserMoves(p),
           NEW what \in {"set", "reset"}, NEW c \in Ctrl, NEW value \in Int, Say(p, what, c, value),
           NEW s \in Values, shown' = [shown EXCEPT ![p] = s],
           \A d \in Listed : s[d] \in Bottom(d)..Top(d)
    PROVE  BaseInv'
<1>1. [what |-> what, ctrl |-> c, value |-> value] \in Message
  BY DEF Message
<1>2. PICK q : q = Append(toServer[p], [what |-> what, ctrl |-> c, value |-> value])
  OBVIOUS
<1>3. q \in Seq(Message)
  BY <1>1, <1>2, Types, QueueAppend DEF BaseInv
<1>4. toServer' = [toServer EXCEPT ![p] = q]
  BY <1>2 DEF Say
<1>5. /\ toServer' \in [Page -> Seq(Message)]
      /\ \A r \in Page : r # p => toServer'[r] = toServer[r]
  BY <1>3, <1>4 DEF BaseInv, TypeOK
<1>6. /\ shown' \in [Page -> {<<>>} \cup Values] /\ shown'[p] = s
      /\ \A r \in Page : r # p => shown'[r] = shown[r]
  BY DEF BaseInv, TypeOK
<1>7. UNCHANGED <<device, dev, job, toPage, by>> /\ moves < MaxMoves /\ moves' = moves + 1
      /\ shown[p] # <<>> /\ s # <<>>
  BY ListIsShown DEF UserMoves
<1>8. moves' \in 0..MaxMoves
  BY <1>7, MaxMovesAssumption DEF BaseInv, TypeOK
<1>9. \A r \in Page : shown'[r] # <<>> => \A d \in Listed : shown'[r][d] \in Bottom(d)..Top(d)
  BY <1>6 DEF BaseInv, TypeOK
<1>10. TypeOK'
  BY <1>5, <1>6, <1>7, <1>8, <1>9 DEF BaseInv, TypeOK, device
<1>11. ReadsAreValues' /\ JobsBegin'
  BY <1>7 DEF BaseInv, ReadsAreValues, JobsBegin
<1>12. SilentFirst'
  BY <1>5, <1>6, <1>7 DEF BaseInv, SilentFirst
<1> QED BY <1>10, <1>11, <1>12 DEF BaseInv

\* A slider is moved to a place it has.
LEMMA Moved ==
    ASSUME BaseInv, NEW p \in Page, NEW c \in Listed, NEW pos \in Bottom(c)..Top(c),
           sendUserCtrl(p, c, pos)
    PROVE  /\ UserMoves(p) /\ Say(p, "set", c, SentValue(c, pos))
           /\ c \in Ctrl /\ SentValue(c, pos) \in Int
           /\ \E s \in Values : /\ shown' = [shown EXCEPT ![p] = s] /\ s[c] = pos
                                /\ \A d \in Listed : s[d] \in Bottom(d)..Top(d)
                                /\ \A d \in Listed \ {c} : s[d] = shown[p][d]
<1>1. /\ UserMoves(p) /\ Say(p, "set", c, SentValue(c, pos))
      /\ shown' = [shown EXCEPT ![p][c] = pos] /\ shown[p] \in Values
  BY Types DEF BaseInv, sendUserCtrl, UserMoves
<1>2. c \in Ctrl /\ SentValue(c, pos) \in Int /\ pos \in Int
  BY SliderFacts
<1>3. PICK s : s = [shown[p] EXCEPT ![c] = pos]
  OBVIOUS
<1>4. /\ s \in Values /\ s[c] = pos /\ \A d \in Listed \ {c} : s[d] = shown[p][d]
  BY <1>1, <1>2, <1>3 DEF Values
<1>5. \A d \in Listed : s[d] \in Bottom(d)..Top(d)
  BY <1>1, <1>4, ListIsShown DEF BaseInv, TypeOK
<1>6. shown' = [shown EXCEPT ![p] = s]
  BY <1>1, <1>3 DEF BaseInv, TypeOK
<1> QED BY <1>1, <1>2, <1>4, <1>5, <1>6

\* The reset button moves them all.
LEMMA AllReset ==
    ASSUME BaseInv, NEW p \in Page, resetCtrls(p)
    PROVE  /\ UserMoves(p) /\ Say(p, "reset", 1, 0) /\ 1 \in Ctrl
           /\ \E s \in Values : /\ shown' = [shown EXCEPT ![p] = s]
                                /\ \A d \in Listed : /\ s[d] \in Bottom(d)..Top(d)
                                                     /\ s[d] = ResetPosition(d)
<1>1. PICK s : s = [d \in Listed |-> ResetPosition(d)]
  OBVIOUS
<1>2. \A d \in Listed : s[d] \in Bottom(d)..Top(d) /\ s[d] = ResetPosition(d) /\ s[d] \in Int
  BY <1>1, SliderFacts
<1>3. s \in Values
  BY <1>1, <1>2 DEF Values
<1> QED BY <1>1, <1>2, <1>3, IdleType DEF resetCtrls

\* A message is taken.
LEMMA Taken ==
    ASSUME BaseInv, NEW p \in Page, NEW what \in {"set", "reset"}, Reads(p, what)
    PROVE  /\ toServer[p] # <<>> /\ toServer[p] \in Seq(Message) /\ toServer'[p] = Tail(toServer[p])
           /\ Head(toServer[p]) \in Message /\ Head(toServer[p]).what = what
           /\ \A q \in Page : q # p => toServer'[q] = toServer[q]
           /\ toServer' \in [Page -> Seq(Message)]
           /\ job[p].what = "idle" /\ job[p].at = 1 /\ shown[p] # <<>>
           /\ UNCHANGED <<device, shown, toPage, moves>>
<1>1. toServer[p] # <<>> /\ toServer[p] \in Seq(Message) /\ Head(toServer[p]).what = what
  BY Types DEF BaseInv, Reads
<1>2. Tail(toServer[p]) \in Seq(Message) /\ Head(toServer[p]) \in Message
  BY <1>1, QueueTail
<1>3. toServer' = [toServer EXCEPT ![p] = Tail(toServer[p])]
  BY DEF Reads
<1>4. /\ toServer' \in [Page -> Seq(Message)] /\ toServer'[p] = Tail(toServer[p])
      /\ \A q \in Page : q # p => toServer'[q] = toServer[q]
  BY <1>2, <1>3 DEF BaseInv, TypeOK
<1>5. job[p].what = "idle" /\ job[p].at = 1 /\ shown[p] # <<>>
  BY <1>1 DEF BaseInv, JobsBegin, SilentFirst, Reads
<1> QED BY <1>1, <1>2, <1>4, <1>5 DEF Reads

\* The control of a set is set, or nothing is.
LEMMA BaseReadSet == ASSUME BaseInv, NEW p \in Page, ReadSet(p) PROVE BaseInv'
<1>1. Reads(p, "set") /\ job' = job
  BY DEF ReadSet
<1>2. PICK m \in Message : m = Head(toServer[p])
  BY <1>1, Taken
<1>3. m.ctrl \in Ctrl /\ m.value \in Int
  BY DEF Message
<1>4. /\ dev' \in [Ctrl -> Int] /\ \A d \in Ctrl : dev'[d] \in Min[d]..Max[d]
      /\ by' \in [Ctrl -> SUBSET Writer]
      /\ \A d \in Ctrl : \A b \in by'[d] : b \in by[d] \/ b.page = p
  <2>1. CASE SetCtrl(p, "set", m.ctrl, m.value)
    BY <1>3, <2>1, SetTypes DEF BaseInv
  <2>2. CASE UNCHANGED <<dev, by>>
    BY <2>2 DEF BaseInv, TypeOK
  <2> QED BY <1>2, <2>1, <2>2 DEF ReadSet
<1>5. TypeOK'
  BY <1>1, <1>4, Taken DEF BaseInv, TypeOK, device
<1>6. ReadsAreValues' /\ JobsBegin'
  BY <1>1, Taken DEF BaseInv, ReadsAreValues, JobsBegin
<1>7. SilentFirst'
  BY <1>1, <1>4, Taken DEF BaseInv, SilentFirst
<1> QED BY <1>5, <1>6, <1>7 DEF BaseInv

LEMMA BaseReadReset ==
    ASSUME BaseInv, NEW p \in Page, ReadReset(p)
    PROVE  /\ BaseInv' /\ UNCHANGED <<dev, by>>
           /\ job'[p].what = "reset" /\ job'[p].at = 1
           /\ \A q \in Page : q # p => job'[q] = job[q]
<1>1. Reads(p, "reset") /\ job' = [job EXCEPT ![p].what = "reset"] /\ UNCHANGED <<dev, by>>
  BY DEF ReadReset
<1>2. job[p] \in [what : {"idle", "list", "reset"}, at : Ctrl, got : Values]
  BY Types DEF BaseInv
<1>3. job' \in [Page -> [what : {"idle", "list", "reset"}, at : Ctrl, got : Values]]
  BY <1>1, <1>2 DEF BaseInv, TypeOK
<1>4. /\ job'[p].what = "reset" /\ job'[p].got = job[p].got /\ job'[p].at = 1
      /\ \A q \in Page : q # p => job'[q] = job[q]
  BY <1>1, <1>2, Taken DEF BaseInv, TypeOK
<1>5. TypeOK'
  BY <1>1, <1>3, Taken DEF BaseInv, TypeOK, device
<1>6. ReadsAreValues' /\ JobsBegin'
  BY <1>1, <1>4, Taken DEF BaseInv, ReadsAreValues, JobsBegin
<1>7. toPage[p] = <<>>
  BY <1>1, Taken DEF BaseInv, SilentFirst
<1>8. SilentFirst'
  BY <1>1, <1>4, <1>7, Taken DEF BaseInv, SilentFirst
<1> QED BY <1>1, <1>4, <1>5, <1>6, <1>8 DEF BaseInv

LEMMA BaseReset ==
    ASSUME BaseInv, NEW p \in Page, reset_user_ctrls(p)
    PROVE  /\ BaseInv'
           /\ \A q \in Page : q # p => job'[q] = job[q]
           /\ kind[job[p].at] = "refused" \/ job[p].at = N =>
                job'[p].what = "idle"
           /\ ~(kind[job[p].at] = "refused" \/ job[p].at = N) =>
                job'[p].what = "reset" /\ job'[p].at = job[p].at + 1
<1>1. /\ job[p] \in [what : {"idle", "list", "reset"}, at : Ctrl, got : Values]
      /\ job[p].what = "reset" /\ job[p].at \in Ctrl /\ shown[p] # <<>>
      /\ UNCHANGED <<device, shown, toServer, toPage, moves>>
  BY Types DEF BaseInv, reset_user_ctrls, SilentFirst
<1>2. PICK c \in Ctrl : c = job[p].at
  BY <1>1
<1>3. /\ dev' \in [Ctrl -> Int] /\ \A d \in Ctrl : dev'[d] \in Min[d]..Max[d]
      /\ by' \in [Ctrl -> SUBSET Writer]
      /\ \A d \in Ctrl : \A b \in by'[d] : b \in by[d] \/ b.page = p
  <2>1. CASE SetCtrl(p, "reset", c, Default[c])
    BY <2>1, SetTypes, CtrlAssumption DEF BaseInv
  <2>2. CASE UNCHANGED <<dev, by>>
    BY <2>2 DEF BaseInv, TypeOK
  <2> QED BY <1>2, <2>1, <2>2 DEF reset_user_ctrls
<1>4. PICK j : /\ job' = [job EXCEPT ![p] = j]
               /\ j \in [what : {"idle", "list", "reset"}, at : Ctrl, got : Values]
               /\ j.what # "list" /\ (j.what = "idle" => j.at = 1)
               /\ \A d \in Listed : j.got[d] \in Min[d]..Max[d]
               /\ kind[c] = "refused" \/ c = N => j.what = "idle"
               /\ ~(kind[c] = "refused" \/ c = N) => j.what = "reset" /\ j.at = c + 1
  <2>1. CASE kind[c] = "refused" \/ c = N
    <3>1. job' = [job EXCEPT ![p] = Idle]
      BY <1>2, <2>1 DEF reset_user_ctrls
    <3>2. Idle.what = "idle" /\ Idle.at = 1
      BY DEF Idle
    <3> QED BY <2>1, <3>1, <3>2, IdleType
  <2>2. CASE ~(kind[c] = "refused" \/ c = N)
    <3>1. PICK j : j = [job[p] EXCEPT !.at = c + 1]
      OBVIOUS
    <3>2. job' = [job EXCEPT ![p] = j]
      BY <1>2, <2>2, <3>1 DEF reset_user_ctrls
    <3>3. c + 1 \in Ctrl
      BY <2>2, CtrlAssumption DEF Ctrl
    <3>4. /\ j \in [what : {"idle", "list", "reset"}, at : Ctrl, got : Values]
          /\ j.what = "reset" /\ j.at = c + 1 /\ j.got = job[p].got
      BY <1>1, <3>1, <3>3
    <3>5. \A d \in Listed : j.got[d] \in Min[d]..Max[d]
      BY <3>4 DEF BaseInv, ReadsAreValues
    <3> QED BY <2>2, <3>2, <3>4, <3>5
  <2> QED BY <2>1, <2>2
<1>5. /\ job' \in [Page -> [what : {"idle", "list", "reset"}, at : Ctrl, got : Values]]
      /\ job'[p] = j /\ \A q \in Page : q # p => job'[q] = job[q]
  BY <1>4 DEF BaseInv, TypeOK
<1>6. TypeOK'
  BY <1>1, <1>3, <1>5 DEF BaseInv, TypeOK, device
<1>7. ReadsAreValues' /\ JobsBegin'
  BY <1>1, <1>4, <1>5 DEF BaseInv, ReadsAreValues, JobsBegin
<1>8. toPage[p] = <<>>
  BY <1>1 DEF BaseInv, SilentFirst
<1>9. SilentFirst'
  BY <1>1, <1>3, <1>4, <1>5, <1>8 DEF BaseInv, SilentFirst
<1> QED BY <1>2, <1>4, <1>5, <1>6, <1>7, <1>9 DEF BaseInv
-----------------------------------------------------------------------------
\* What p has been told stays so when its messages, its slider and its session
\* do, and the control does or is set by somebody else.
LEMMA ToldKept ==
    ASSUME NEW p \in Page, NEW c \in Listed, Told(p, c),
           toServer'[p] = toServer[p], shown'[p][c] = shown[p][c],
           Resetting(p, c)' <=> Resetting(p, c),
           (dev'[c] = dev[c] /\ by'[c] = by[c]) \/ \A b \in by'[c] : b.page # p
    PROVE  Told(p, c)'
<1>1. LastTells(p, c)'
  BY DEF Told, LastTells, Matches, Concerns
<1>2. Promised(p, c)' <=> Promised(p, c)
  BY DEF Promised, Concerns
<1>3. ResetTells(p, c)'
  BY <1>2 DEF Told, ResetTells
<1>4. DeviceTells(p, c)'
  BY <1>2 DEF Told, DeviceTells
<1> QED BY <1>1, <1>3, <1>4 DEF Told

\* A page that has said nothing has been told nothing.
LEMMA ToldNothing ==
    ASSUME NEW p \in Page, NEW c \in Listed,
           toServer'[p] = <<>>, job'[p].what # "reset", \A b \in by'[c] : b.page # p
    PROVE  Told(p, c)'
<1>1. DOMAIN toServer'[p] = {}
  OBVIOUS
<1> QED BY <1>1 DEF Told, LastTells, ResetTells, DeviceTells, Resetting

\* A new message that concerns the control, from where the slider is now, is
\* the last.
LEMMA ToldByNew ==
    ASSUME BaseInv, NEW p \in Page, NEW c \in Listed, NEW m \in Message,
           toServer'[p] = Append(toServer[p], m), Concerns(m, c), Matches(m, p, c)'
    PROVE  Told(p, c)'
<1>1. PICK q \in Seq(Message) : q = toServer[p]
  BY Types DEF BaseInv
<1>2. PICK r : r = Append(q, m)
  OBVIOUS
<1>3. /\ Len(q) + 1 \in DOMAIN r /\ r[Len(q) + 1] = m
      /\ \A i \in DOMAIN r : i = Len(q) + 1 \/ (i \in DOMAIN q /\ i < Len(q) + 1)
  BY <1>2, QueueAppend
<1>4. Promised(p, c)'
  BY <1>1, <1>2, <1>3 DEF Promised, Concerns
<1>5. LastTells(p, c)'
  <2> SUFFICES ASSUME NEW i \in DOMAIN r,
                      \A j \in DOMAIN r : j > i => ~Concerns(r[j], c)
               PROVE  Matches(r[i], p, c)'
    BY <1>1, <1>2 DEF LastTells, Concerns, Matches
  <2>1. i = Len(q) + 1
    <3>1. CASE i < Len(q) + 1 /\ i \in DOMAIN q
      <4>1. Len(q) + 1 > i
        BY <3>1
      <4> QED BY <1>3, <4>1
    <3> QED BY <1>3, <3>1
  <2> QED BY <1>3, <2>1 DEF Matches
<1> QED BY <1>4, <1>5 DEF Told, ResetTells, DeviceTells

\* One that does not changes nothing for it.
LEMMA ToldByOther ==
    ASSUME BaseInv, NEW p \in Page, NEW c \in Listed, NEW m \in Message, Told(p, c),
           toServer'[p] = Append(toServer[p], m), ~Concerns(m, c), shown'[p][c] = shown[p][c],
           UNCHANGED <<dev, job, by>>
    PROVE  Told(p, c)'
<1>1. PICK q \in Seq(Message) : q = toServer[p]
  BY Types DEF BaseInv
<1>2. PICK r : r = Append(q, m)
  OBVIOUS
<1>3. /\ r[Len(q) + 1] = m
      /\ \A i \in DOMAIN r : i = Len(q) + 1 \/ i \in DOMAIN q
      /\ \A i \in DOMAIN q : i \in DOMAIN r /\ r[i] = q[i]
  BY <1>2, QueueAppend
<1>4. Promised(p, c)' <=> Promised(p, c)
  BY <1>1, <1>2, <1>3 DEF Promised, Concerns
<1>5. LastTells(p, c)'
  <2> SUFFICES ASSUME NEW i \in DOMAIN r, Concerns(r[i], c),
                      \A j \in DOMAIN r : j > i => ~Concerns(r[j], c)
               PROVE  Matches(r[i], p, c)'
    BY <1>1, <1>2 DEF LastTells, Concerns, Matches
  <2>1. i \in DOMAIN q /\ r[i] = q[i]
    BY <1>3
  <2>2. \A j \in DOMAIN q : j > i => ~Concerns(q[j], c)
    BY <1>3
  <2>3. Matches(q[i], p, c)
    BY <1>1, <2>1, <2>2 DEF Told, LastTells
  <2> QED BY <2>1, <2>3 DEF Matches
<1>6. ResetTells(p, c)'
  BY <1>4 DEF Told, ResetTells, Resetting
<1>7. DeviceTells(p, c)'
  BY <1>4 DEF Told, DeviceTells, Resetting
<1> QED BY <1>5, <1>6, <1>7 DEF Told

\* A message that is taken leaves the last the last, or was the last.
LEMMA LastTaken ==
    ASSUME BaseInv, NEW p \in Page, NEW c \in Listed, LastTells(p, c),
           toServer[p] # <<>>, toServer'[p] = Tail(toServer[p]), shown' = shown
    PROVE  /\ LastTells(p, c)'
           /\ Promised(p, c) <=> Concerns(Head(toServer[p]), c) \/ Promised(p, c)'
           /\ Concerns(Head(toServer[p]), c) /\ ~Promised(p, c)'
                => Matches(Head(toServer[p]), p, c)
<1>1. PICK q \in Seq(Message) : q = toServer[p] /\ q # <<>>
  BY Types DEF BaseInv
<1>2. PICK t : t = Tail(q)
  OBVIOUS
<1>3. /\ Head(q) = q[1] /\ 1 \in DOMAIN q
      /\ \A i \in DOMAIN t : i + 1 \in DOMAIN q /\ t[i] = q[i + 1] /\ i \in Nat
      /\ \A i \in DOMAIN q : i = 1 \/ (i - 1 \in DOMAIN t /\ i \in Nat /\ i > 1)
  BY <1>1, <1>2, QueueTail
<1>4. \A i \in DOMAIN q : i # 1 => i - 1 \in DOMAIN t /\ t[i - 1] = q[i]
  <2> SUFFICES ASSUME NEW i \in DOMAIN q, i # 1
               PROVE  i - 1 \in DOMAIN t /\ t[i - 1] = q[i]
    OBVIOUS
  <2>1. i - 1 \in DOMAIN t /\ i \in Nat /\ t[i - 1] = q[(i - 1) + 1]
    BY <1>3
  <2>2. (i - 1) + 1 = i
    BY <2>1
  <2> QED BY <2>1, <2>2
<1>5. LastTells(p, c)'
  <2> SUFFICES ASSUME NEW i \in DOMAIN t, Concerns(t[i], c),
                      \A j \in DOMAIN t : j > i => ~Concerns(t[j], c)
               PROVE  Matches(t[i], p, c)'
    BY <1>1, <1>2 DEF LastTells, Concerns, Matches
  <2>1. i + 1 \in DOMAIN q /\ t[i] = q[i + 1] /\ i \in Nat
    BY <1>3
  <2>2. ASSUME NEW j \in DOMAIN q, j > i + 1
        PROVE  ~Concerns(q[j], c)
    <3>1. j \in Nat /\ j # 1
      BY <1>3, <2>1, <2>2
    <3>2. j - 1 \in DOMAIN t /\ t[j - 1] = q[j] /\ j - 1 > i
      BY <1>4, <2>1, <2>2, <3>1
    <3> QED BY <3>2
  <2>3. Matches(q[i + 1], p, c)
    BY <1>1, <2>1, <2>2 DEF LastTells
  <2> QED BY <2>1, <2>3 DEF Matches
<1>6. Promised(p, c)' <=> \E i \in DOMAIN t : Concerns(t[i], c)
  BY <1>1, <1>2 DEF Promised, Concerns
<1>7. Promised(p, c) <=> \E i \in DOMAIN q : Concerns(q[i], c)
  BY <1>1 DEF Promised
<1>8. Promised(p, c) <=> Concerns(q[1], c) \/ Promised(p, c)'
  BY <1>3, <1>4, <1>6, <1>7
<1>9. ASSUME Concerns(q[1], c), ~Promised(p, c)'
      PROVE  Matches(q[1], p, c)
  <2>1. \A j \in DOMAIN q : j # 1 => ~Concerns(q[j], c)
    BY <1>4, <1>6, <1>9
  <2>2. \A j \in DOMAIN q : j > 1 => j # 1
    OBVIOUS
  <2> QED BY <1>1, <1>3, <1>9, <2>1, <2>2 DEF LastTells
<1> QED BY <1>1, <1>3, <1>5, <1>8, <1>9
-----------------------------------------------------------------------------
\* Each action keeps what every page has been told.

\* Reading the controls tells nobody anything.
LEMMA ToldRead ==
    ASSUME BaseInv, AllTold, NEW p \in Page, Open(p) \/ get_device_json(p) PROVE AllTold'
<1>1. UNCHANGED <<device, dev, shown, toServer, by>>
  BY DEF Open, get_device_json
<1>2. /\ job[p] \in [what : {"idle", "list", "reset"}, at : Ctrl, got : Values]
      /\ job[p].what # "reset"
  BY Types DEF BaseInv, Open, get_device_json
<1>3. job'[p].what # "reset" /\ \A q \in Page : q # p => job'[q] = job[q]
  <2>1. CASE job' = [job EXCEPT ![p].what = "list"]
    BY <1>2, <2>1 DEF BaseInv, TypeOK
  <2>2. CASE job' = [job EXCEPT ![p] = Idle]
    BY <2>2 DEF BaseInv, TypeOK, Idle
  <2>3. ASSUME NEW k, NEW g, job' = [job EXCEPT ![p].at = k, ![p].got = g]
        PROVE  job'[p].what # "reset" /\ \A q \in Page : q # p => job'[q] = job[q]
    BY <1>2, <2>3 DEF BaseInv, TypeOK
  <2> QED BY <2>1, <2>2, <2>3 DEF Open, get_device_json
<1> SUFFICES ASSUME NEW q \in Page, NEW c \in Listed, Reached(c)' PROVE Told(q, c)'
  BY DEF AllTold
<1>4. Told(q, c)
  BY <1>1 DEF AllTold, Reached, device
<1>5. Resetting(q, c)' <=> Resetting(q, c)
  BY <1>2, <1>3 DEF Resetting
<1> QED BY <1>1, <1>4, <1>5, ToldKept

\* The page that gets the list has said nothing yet.
LEMMA ToldShow ==
    ASSUME BaseInv, AllTold, NEW p \in Page, add_user_ctrls(p) PROVE AllTold'
<1>1. /\ UNCHANGED <<device, dev, job, toServer, by>>
      /\ \A q \in Page : q # p => shown'[q] = shown[q]
      /\ shown[p] = <<>>
  BY DEF BaseInv, SilentFirst, TypeOK, add_user_ctrls
<1> SUFFICES ASSUME NEW q \in Page, NEW c \in Listed, Reached(c)' PROVE Told(q, c)'
  BY DEF AllTold
<1>2. CASE q = p
  <2>1. /\ toServer'[p] = <<>> /\ job'[p].what # "reset" /\ c \in Ctrl
        /\ \A b \in by'[c] : b.page # p
    BY <1>1, CtrlAssumption DEF BaseInv, SilentFirst
  <2> QED BY <1>2, <2>1, ToldNothing
<1>3. CASE q # p
  <2>1. Told(q, c)
    BY <1>1 DEF AllTold, Reached, device
  <2>2. Resetting(q, c)' <=> Resetting(q, c)
    BY <1>1 DEF Resetting
  <2> QED BY <1>1, <1>3, <2>1, <2>2, ToldKept
<1> QED BY <1>2, <1>3

\* A move says where the slider is.
LEMMA ToldMove ==
    ASSUME BaseInv, AllTold, NEW p \in Page, NEW c \in Listed, NEW pos \in Bottom(c)..Top(c),
           sendUserCtrl(p, c, pos)
    PROVE  AllTold'
<1>1. PICK s \in Values : /\ shown' = [shown EXCEPT ![p] = s] /\ s[c] = pos
                          /\ \A d \in Listed \ {c} : s[d] = shown[p][d]
  BY Moved
<1>2. PICK m \in Message : m = [what |-> "set", ctrl |-> c, value |-> SentValue(c, pos)]
  BY Moved DEF Message
<1>3. toServer' = [toServer EXCEPT ![p] = Append(@, m)]
  BY <1>2, Moved DEF Say
<1>4. UNCHANGED <<device, dev, job, by>>
  BY Moved DEF UserMoves
<1>5. toServer'[p] = Append(toServer[p], m) /\ shown'[p] = s
      /\ \A q \in Page : q # p => toServer'[q] = toServer[q] /\ shown'[q] = shown[q]
  BY <1>1, <1>3 DEF BaseInv, TypeOK
<1> SUFFICES ASSUME NEW q \in Page, NEW d \in Listed, Reached(d)' PROVE Told(q, d)'
  BY DEF AllTold
<1>6. Told(q, d)
  BY <1>4 DEF AllTold, Reached, device
<1>7. CASE q # p
  <2>1. Resetting(q, d)' <=> Resetting(q, d)
    BY <1>4 DEF Resetting
  <2> QED BY <1>4, <1>5, <1>6, <1>7, <2>1, ToldKept
<1>8. CASE q = p /\ d = c
  <2>1. Concerns(m, d) /\ Matches(m, p, d)'
    BY <1>1, <1>2, <1>5, <1>8 DEF Concerns, Matches
  <2> QED BY <1>5, <1>8, <2>1, ToldByNew
<1>9. CASE q = p /\ d # c
  <2>1. ~Concerns(m, d) /\ shown'[p][d] = shown[p][d]
    BY <1>1, <1>2, <1>5, <1>9 DEF Concerns
  <2> QED BY <1>4, <1>5, <1>6, <1>9, <2>1, ToldByOther
<1> QED BY <1>7, <1>8, <1>9

\* So does the reset button, of all of them.
LEMMA ToldButton ==
    ASSUME BaseInv, AllTold, NEW p \in Page, resetCtrls(p) PROVE AllTold'
<1>1. PICK s \in Values : /\ shown' = [shown EXCEPT ![p] = s]
                          /\ \A d \in Listed : s[d] = ResetPosition(d)
  BY AllReset
<1>2. PICK m \in Message : m = [what |-> "reset", ctrl |-> 1, value |-> 0]
  <2>1. 1 \in Ctrl /\ 0 \in Int /\ "reset" \in {"set", "reset"}
    BY IdleType
  <2> QED BY <2>1, Zenon DEF Message
<1>3. toServer' = [toServer EXCEPT ![p] = Append(@, m)]
  BY <1>2, AllReset DEF Say
<1>4. UNCHANGED <<device, dev, job, by>>
  BY AllReset DEF UserMoves
<1>5. toServer'[p] = Append(toServer[p], m) /\ shown'[p] = s
      /\ \A q \in Page : q # p => toServer'[q] = toServer[q] /\ shown'[q] = shown[q]
  BY <1>1, <1>3 DEF BaseInv, TypeOK
<1> SUFFICES ASSUME NEW q \in Page, NEW d \in Listed, Reached(d)' PROVE Told(q, d)'
  BY DEF AllTold
<1>6. CASE q # p
  <2>1. Resetting(q, d)' <=> Resetting(q, d)
    BY <1>4 DEF Resetting
  <2>2. Told(q, d)
    BY <1>4 DEF AllTold, Reached, device
  <2> QED BY <1>4, <1>5, <1>6, <2>1, <2>2, ToldKept
<1>7. CASE q = p
  <2>1. Concerns(m, d) /\ Matches(m, p, d)'
    BY <1>1, <1>2, <1>5 DEF Concerns, Matches
  <2> QED BY <1>5, <1>7, <2>1, ToldByNew
<1> QED BY <1>6, <1>7

\* A set that was the last word of its page on the control leaves the value the
\* slider shows in the device; it makes the control nobody else's.
LEMMA ToldSet ==
    ASSUME BaseInv, AllTold, program = "gwc", NEW p \in Page, ReadSet(p) PROVE AllTold'
<1>1. Reads(p, "set") /\ job' = job
  BY DEF ReadSet
<1>2. PICK m \in Message : m = Head(toServer[p]) /\ m.what = "set"
  BY <1>1, Taken
<1>3. m.ctrl \in Ctrl /\ m.value \in Int
  BY DEF Message
<1>4. UNCHANGED <<device, shown>> /\ toServer'[p] = Tail(toServer[p]) /\ toServer[p] # <<>>
      /\ \A q \in Page : q # p => toServer'[q] = toServer[q]
  BY <1>1, Taken
<1>5. IF kind[m.ctrl] = "plain" THEN SetCtrl(p, "set", m.ctrl, m.value) ELSE UNCHANGED <<dev, by>>
  BY <1>2 DEF ReadSet
<1>6. \A d \in Ctrl : \/ dev'[d] = dev[d] /\ by'[d] = by[d]
                      \/ d = m.ctrl /\ by'[d] = {[page |-> p, what |-> "set"]}
  BY <1>3, <1>5, SetTypes DEF BaseInv
<1> SUFFICES ASSUME NEW q \in Page, NEW c \in Listed, Reached(c)' PROVE Told(q, c)'
  BY DEF AllTold
<1>7. Told(q, c) /\ kind[c] = "plain" /\ c \in Ctrl
  BY <1>4, CtrlAssumption DEF AllTold, Reached, device, Ctrl
<1>8. Resetting(q, c)' <=> Resetting(q, c)
  BY <1>1 DEF Resetting
<1>9. CASE q # p
  <2>1. (dev'[c] = dev[c] /\ by'[c] = by[c]) \/ \A b \in by'[c] : b.page # q
    BY <1>6, <1>7, <1>9
  <2> QED BY <1>4, <1>7, <1>8, <1>9, <2>1, ToldKept
<1>10. CASE q = p
  <2>1. /\ LastTells(p, c)'
        /\ Promised(p, c) <=> Concerns(m, c) \/ Promised(p, c)'
        /\ Concerns(m, c) /\ ~Promised(p, c)' => Matches(m, p, c)
    BY <1>2, <1>4, <1>7, <1>10, LastTaken DEF Told
  <2>2. ~Resetting(p, c)'
    BY <1>1, Taken DEF Resetting
  <2>3. DeviceTells(p, c)'
    <3>1. CASE m.ctrl # c
      <4>1. dev'[c] = dev[c] /\ by'[c] = by[c] /\ ~Concerns(m, c)
        BY <1>2, <1>6, <1>7, <3>1 DEF Concerns
      <4> QED BY <1>4, <1>7, <1>8, <1>10, <2>1, <4>1 DEF Told, DeviceTells
    <3>2. CASE m.ctrl = c
      <4> SUFFICES ASSUME ~Promised(p, c)', ~converted(c)
                   PROVE  shown'[p][c] = Position(c, dev'[c])
        <5>1. by'[c] = {[page |-> p, what |-> "set"]}
          BY <1>3, <1>5, <1>7, <3>2, SetTypes DEF BaseInv
        <5> QED BY <5>1 DEF DeviceTells
      <4>1. Matches(m, p, c)
        BY <1>2, <2>1, <3>2 DEF Concerns
      <4>2. m.value = SentValue(c, shown[p][c])
        BY <1>2, <4>1 DEF Matches
      <4>3. shown[p][c] \in Bottom(c)..Top(c)
        BY <1>1, Taken DEF BaseInv, TypeOK
      <4>4. /\ m.value = shown[p][c] /\ m.value \in Min[c]..Max[c]
            /\ Position(c, m.value) = m.value
        BY <4>2, <4>3, SliderFacts
      <4>5. dev'[c] \in Accepted(c, m.value)
        BY <1>3, <1>5, <1>7, <3>2, SetTypes DEF BaseInv
      <4>6. Accepted(c, m.value) = {m.value}
        BY <1>3, <1>7, <4>4, DeviceFacts DEF BaseInv, TypeOK
      <4> QED BY <1>4, <4>4, <4>5, <4>6
    <3> QED BY <3>1, <3>2
  <2> QED BY <1>10, <2>1, <2>2, <2>3 DEF Told, ResetTells
<1> QED BY <1>9, <1>10

\* A reset begins: it has all the controls before it.
LEMMA ToldBegin ==
    ASSUME BaseInv, AllTold, NEW p \in Page, ReadReset(p) PROVE AllTold'
<1>1. Reads(p, "reset") /\ UNCHANGED <<dev, by>> /\ job'[p].what = "reset" /\ job'[p].at = 1
      /\ \A q \in Page : q # p => job'[q] = job[q]
  BY BaseReadReset DEF ReadReset
<1>2. UNCHANGED <<device, shown>> /\ toServer'[p] = Tail(toServer[p]) /\ toServer[p] # <<>>
      /\ Head(toServer[p]).what = "reset"
      /\ \A q \in Page : q # p => toServer'[q] = toServer[q]
  BY <1>1, Taken
<1> SUFFICES ASSUME NEW q \in Page, NEW c \in Listed, Reached(c)' PROVE Told(q, c)'
  BY DEF AllTold
<1>3. Told(q, c)
  BY <1>2 DEF AllTold, Reached, device
<1>4. CASE q # p
  <2>1. Resetting(q, c)' <=> Resetting(q, c)
    BY <1>1, <1>4 DEF Resetting
  <2> QED BY <1>1, <1>2, <1>3, <1>4, <2>1, ToldKept
<1>5. CASE q = p
  <2>1. /\ LastTells(p, c)'
        /\ ~Promised(p, c)' => Matches(Head(toServer[p]), p, c)
    BY <1>2, <1>3, <1>5, LastTaken DEF Told, Concerns
  <2>2. ResetTells(p, c)'
    BY <1>2, <2>1 DEF ResetTells, Matches
  <2>3. 1 <= c
    BY CtrlAssumption DEF Ctrl
  <2>4. Resetting(p, c)'
    BY <1>1, <2>3 DEF Resetting
  <2> QED BY <1>5, <2>1, <2>2, <2>4 DEF Told, DeviceTells
<1> QED BY <1>4, <1>5

\* The reset comes to a control: a control before it is behind the loop, one
\* after it still before the loop, as all up to there are plain.
LEMMA ToldReset ==
    ASSUME BaseInv, AllTold, NEW p \in Page, reset_user_ctrls(p) PROVE AllTold'
<1>1. PICK k \in Ctrl : k = job[p].at /\ job[p].what = "reset"
  BY Types DEF BaseInv, reset_user_ctrls
<1>2. UNCHANGED <<device, shown, toServer>>
  BY DEF reset_user_ctrls
<1>3. /\ \A q \in Page : q # p => job'[q] = job[q]
      /\ kind[k] = "refused" \/ k = N => job'[p].what = "idle"
      /\ ~(kind[k] = "refused" \/ k = N) => job'[p].what = "reset" /\ job'[p].at = k + 1
  BY <1>1, BaseReset
<1>4. IF kind[k] = "plain" THEN SetCtrl(p, "reset", k, Default[k]) ELSE UNCHANGED <<dev, by>>
  BY <1>1 DEF reset_user_ctrls
<1>5. Default[k] \in Int /\ Default[k] \in Min[k]..Max[k]
  BY CtrlAssumption
<1>6. \A d \in Ctrl : \/ dev'[d] = dev[d] /\ by'[d] = by[d]
                      \/ d = k /\ by'[d] = {[page |-> p, what |-> "reset"]}
  BY <1>4, <1>5, SetTypes DEF BaseInv
<1> SUFFICES ASSUME NEW q \in Page, NEW c \in Listed, Reached(c)' PROVE Told(q, c)'
  BY DEF AllTold
<1>7. Told(q, c) /\ c \in Ctrl /\ \A d \in 1..c : kind[d] = "plain"
  BY <1>2, CtrlAssumption DEF AllTold, Reached, device
<1>8. k \in Nat /\ k >= 1 /\ k <= N /\ c \in Nat /\ c >= 1 /\ c <= N /\ N \in Nat
  BY <1>7, CtrlAssumption DEF Ctrl
<1>9. CASE q # p
  <2>1. Resetting(q, c)' <=> Resetting(q, c)
    BY <1>3, <1>9 DEF Resetting
  <2>2. (dev'[c] = dev[c] /\ by'[c] = by[c]) \/ \A b \in by'[c] : b.page # q
    BY <1>6, <1>7, <1>9
  <2> QED BY <1>2, <1>7, <1>9, <2>1, <2>2, ToldKept
<1>10. CASE q = p /\ k # c
  <2>1. dev'[c] = dev[c] /\ by'[c] = by[c]
    BY <1>6, <1>7, <1>10
  <2>2. CASE k < c
    <3>1. k \in 1..c /\ k # N /\ k + 1 <= c
      BY <1>8, <2>2
    <3>2. kind[k] = "plain"
      BY <1>7, <3>1
    <3>3. Resetting(p, c) /\ Resetting(p, c)'
      BY <1>1, <1>3, <1>8, <2>2, <3>1, <3>2 DEF Resetting
    <3> QED BY <1>2, <1>7, <1>10, <2>1, <3>3, ToldKept
  <2>3. CASE k > c
    <3>1. ~(k <= c) /\ ~(k + 1 <= c)
      BY <1>8, <2>3
    <3>2. ~Resetting(p, c) /\ ~Resetting(p, c)'
      BY <1>1, <1>3, <3>1 DEF Resetting
    <3> QED BY <1>2, <1>7, <1>10, <2>1, <3>2, ToldKept
  <2> QED BY <1>8, <1>10, <2>2, <2>3
<1>11. CASE q = p /\ k = c
  <2>1. kind[c] = "plain" /\ k <= c
    BY <1>7, <1>8, <1>11
  <2>2. ~Resetting(p, c)' /\ Resetting(p, c)
    <3>1. ~(k + 1 <= c)
      BY <1>8, <1>11
    <3> QED BY <1>1, <1>3, <2>1, <3>1 DEF Resetting
  <2>3. Promised(p, c)' <=> Promised(p, c)
    BY <1>2 DEF Promised, Concerns
  <2>4. LastTells(p, c)'
    BY <1>2, <1>7, <1>11 DEF Told, LastTells, Matches, Concerns
  <2>5. ~Promised(p, c) => shown[p][c] = ResetPosition(c)
    BY <1>7, <1>11, <2>2 DEF Told, ResetTells
  <2>6. dev'[c] = Default[c]
    <3>1. SetCtrl(p, "reset", c, Default[c])
      BY <1>4, <1>11, <2>1
    <3>2. dev'[c] \in Accepted(c, Default[c])
      BY <1>5, <1>7, <1>11, <3>1, SetTypes DEF BaseInv
    <3>3. Accepted(c, Default[c]) = {Default[c]}
      BY <1>5, <1>7, <1>11, DeviceFacts DEF BaseInv, TypeOK
    <3> QED BY <3>2, <3>3
  <2>7. (converted(c) => Min[c] = -Max[c]) => ResetPosition(c) = Position(c, Default[c])
    BY SliderFacts
  <2>8. DeviceTells(p, c)'
    BY <1>2, <2>3, <2>5, <2>6, <2>7 DEF DeviceTells
  <2> QED BY <1>11, <2>2, <2>4, <2>8 DEF Told, ResetTells
<1> QED BY <1>9, <1>10, <1>11
-----------------------------------------------------------------------------
\* No page has anything, and no control has been set by one.
LEMMA InitInv == Init => CtrlInv
<1> SUFFICES ASSUME Init PROVE CtrlInv
  OBVIOUS
<1>1. <<>> \in Seq(Message) /\ <<>> \in Seq(Values) /\ Len(<<>>) = 0 /\ DOMAIN <<>> = {}
  OBVIOUS
<1>2. Max \in [Ctrl -> Int] /\ \A c \in Ctrl : Max[c] \in Min[c]..Max[c]
  BY CtrlAssumption
<1>3. Idle.what = "idle" /\ Idle.at = 1
  BY DEF Idle
<1>4. TypeOK
  BY <1>1, <1>2, IdleType, MaxMovesAssumption DEF Init, TypeOK
<1>5. ReadsAreValues
  BY <1>1, IdleType DEF Init, ReadsAreValues
<1>6. JobsBegin /\ SilentFirst
  BY <1>3 DEF Init, JobsBegin, SilentFirst
<1>7. ASSUME NEW p \in Page, NEW c \in Listed PROVE Told(p, c)
  <2>1. c \in Ctrl
    BY CtrlAssumption
  <2> QED BY <1>1, <1>3, <2>1 DEF Init, Told, LastTells, ResetTells, DeviceTells, Resetting
<1> QED BY <1>4, <1>5, <1>6, <1>7 DEF CtrlInv, BaseInv, AllTold

\* Every step of a page or of its session keeps the invariant.
LEMMA StepInv == CtrlInv /\ [Next]_vars => CtrlInv'
<1> SUFFICES ASSUME CtrlInv, [Next]_vars PROVE CtrlInv'
  OBVIOUS
<1>1. BaseInv /\ (program = "gwc" => AllTold)
  BY DEF CtrlInv
<1>2. CASE UNCHANGED vars
  <2>1. BaseInv'
    BY <1>1, <1>2 DEF vars, device, BaseInv, TypeOK, ReadsAreValues, JobsBegin, SilentFirst
  <2>2. ASSUME program = "gwc" PROVE AllTold'
    <3> SUFFICES ASSUME NEW p \in Page, NEW c \in Listed, Reached(c)' PROVE Told(p, c)'
      BY DEF AllTold
    <3>1. Told(p, c)
      BY <1>1, <1>2, <2>2 DEF vars, device, AllTold, Reached
    <3>2. Resetting(p, c)' <=> Resetting(p, c)
      BY <1>2 DEF vars, Resetting
    <3> QED BY <1>2, <3>1, <3>2, ToldKept DEF vars
  <2> QED BY <1>2, <2>1, <2>2 DEF vars, device, CtrlInv
<1>3. CASE Next
  <2>1. PICK p \in Page : \/ ServerStep(p) \/ add_user_ctrls(p) \/ resetCtrls(p)
                          \/ \E c \in Listed : \E pos \in Bottom(c)..Top(c) : sendUserCtrl(p, c, pos)
    BY <1>3 DEF Next
  <2>2. CASE Open(p) \/ get_device_json(p)
    <3>1. BaseInv' /\ program' = program
      BY <1>1, <2>2, BaseOpen, BaseRead DEF Open, get_device_json, device
    <3> QED BY <1>1, <2>2, <3>1, ToldRead DEF CtrlInv
  <2>3. CASE ReadSet(p)
    <3>1. BaseInv' /\ program' = program
      BY <1>1, <2>3, BaseReadSet DEF ReadSet, Reads, device
    <3> QED BY <1>1, <2>3, <3>1, ToldSet DEF CtrlInv
  <2>4. CASE ReadReset(p)
    <3>1. BaseInv' /\ program' = program
      BY <1>1, <2>4, BaseReadReset DEF ReadReset, Reads, device
    <3> QED BY <1>1, <2>4, <3>1, ToldBegin DEF CtrlInv
  <2>5. CASE reset_user_ctrls(p)
    <3>1. BaseInv' /\ program' = program
      BY <1>1, <2>5, BaseReset DEF reset_user_ctrls, device
    <3> QED BY <1>1, <2>5, <3>1, ToldReset DEF CtrlInv
  <2>6. CASE add_user_ctrls(p)
    <3>1. BaseInv' /\ program' = program
      BY <1>1, <2>6, BaseShow DEF add_user_ctrls, device
    <3> QED BY <1>1, <2>6, <3>1, ToldShow DEF CtrlInv
  <2>7. CASE resetCtrls(p)
    <3>1. BaseInv'
      <4>1. PICK s \in Values : /\ shown' = [shown EXCEPT ![p] = s]
                                /\ \A d \in Listed : s[d] \in Bottom(d)..Top(d)
        BY <1>1, <2>7, AllReset
      <4>2. UserMoves(p) /\ Say(p, "reset", 1, 0) /\ 1 \in Ctrl /\ 0 \in Int
        BY <1>1, <2>7, AllReset
      <4> QED BY <1>1, <4>1, <4>2, BaseSay
    <3>2. program' = program
      BY <1>1, <2>7, AllReset DEF UserMoves, device
    <3> QED BY <1>1, <2>7, <3>1, <3>2, ToldButton DEF CtrlInv
  <2>8. ASSUME NEW c \in Listed, NEW pos \in Bottom(c)..Top(c), sendUserCtrl(p, c, pos)
        PROVE  CtrlInv'
    <3>1. BaseInv'
      BY <1>1, <2>8, Moved, BaseSay, Zenon
    <3>2. program' = program
      BY <1>1, <2>8, Moved DEF UserMoves, device
    <3> QED BY <1>1, <2>8, <3>1, <3>2, ToldMove DEF CtrlInv
  <2> QED BY <2>1, <2>2, <2>3, <2>4, <2>5, <2>6, <2>7, <2>8 DEF ServerStep
<1> QED BY <1>2, <1>3

\* So it always holds.
LEMMA AlwaysInv == Spec => []CtrlInv
  BY InitInv, StepInv, PTL DEF Spec
-----------------------------------------------------------------------------
\* Sliders stay between their ends and the device's values between theirs, in
\* both programs; at most one list is on its way to a page (data_channel_on_open).
THEOREM CtrlsTypeCorrect == Spec => []TypeOK
<1>1. CtrlInv => TypeOK
  BY DEF CtrlInv, BaseInv
<1> QED BY <1>1, AlwaysInv, PTL

\* When all of a page's messages are done (set_ctrl_value, reset_user_ctrls), its
\* sliders show what it was the last to set, however other sessions' threads ran.
THEOREM TheLastWriterSees == Spec => []LastWriterSees
<1>1. CtrlInv => LastWriterSees
  <2> SUFFICES ASSUME CtrlInv, program = "gwc", NEW p \in Page, NEW c \in Listed,
                      Quiet(p), Reached(c),
                      \E b \in by[c] : b.page = p /\ (converted(c) => b.what = "reset" /\ Min[c] = -Max[c])
               PROVE  shown[p][c] = Position(c, dev[c])
    BY DEF LastWriterSees
  <2>1. DeviceTells(p, c)
    BY DEF CtrlInv, AllTold, Told
  <2>2. ~Promised(p, c) /\ ~Resetting(p, c)
    <3>1. DOMAIN toServer[p] = {}
      BY DEF Quiet
    <3> QED BY <3>1 DEF Quiet, Promised, Resetting
  <2> QED BY <2>1, <2>2 DEF DeviceTells
<1> QED BY <1>1, AlwaysInv, PTL
-----------------------------------------------------------------------------
\* An unsigned slider sends what it shows; a signed one (converted) sends more than
\* the value at its place, and if its range is symmetric never less than the
\* maximum, wherever the user puts it (sendUserCtrl, main.js 114, webrtc.js 265).
THEOREM SignedSlidersOvershoot ==
    ASSUME NEW c \in Listed
    PROVE  /\ ~converted(c) => \A v \in Min[c]..Max[c] : SentValue(c, Position(c, v)) = v
           /\ converted(c) =>
                \A v \in Min[c]..Max[c] : SentValue(c, Position(c, v)) > v
           /\ converted(c) /\ Min[c] = -Max[c] =>
                \A pos \in Bottom(c)..Top(c) : SentValue(c, pos) >= Max[c]
<1>1. c \in Ctrl /\ Min[c] \in Int /\ Max[c] \in Int /\ Min[c] <= Max[c]
  BY CtrlAssumption
<1>2. CASE converted(c)
  BY <1>1, <1>2 DEF converted, Position, Bottom, Top, SentValue
<1>3. CASE ~converted(c)
  BY <1>1, <1>3 DEF converted, Position, Bottom, Top, SentValue
<1> QED BY <1>2, <1>3
=============================================================================
