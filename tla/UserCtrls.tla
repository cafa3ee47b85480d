------------------------------ MODULE UserCtrls ------------------------------
(***************************************************************************)
(* The camera's user controls (v4l2ctl.c) and the sliders of the pages     *)
(* that move them.  A page gets the controls once, when its channel opens. *)
(* In gst-webrtc-camera the channel is a data channel and each session     *)
(* serves it in a thread of its own webrtcbin; in webrtc-sendonly it is    *)
(* the web socket, served by the main loop.  A switch is a slider of two   *)
(* positions.                                                              *)
(***************************************************************************)
EXTENDS Integers, Sequences

CONSTANTS Page,
          N,            \* controls of the user class, in the order of their ids
          Listed,       \* those of them in ctrl_list
          Min, Max, Default, \* what VIDIOC_QUERYCTRL says of each control
          MaxMoves      \* bound on what the users do

Ctrl == 1..N

ASSUME CtrlAssumption ==
    /\ N \in Nat /\ Listed # {} /\ Listed \subseteq Ctrl
    /\ Min \in [Ctrl -> Int] /\ Max \in [Ctrl -> Int] /\ Default \in [Ctrl -> Int]
    /\ \A c \in Ctrl : Min[c] <= Default[c] /\ Default[c] <= Max[c]
ASSUME MaxMovesAssumption == MaxMoves \in Nat

VARIABLES
    program,  \* which server runs
    kind,     \* what the device does with each control: it may refuse to have
              \* it set (inactive, write-only) or flag it as disabled
    dev,      \* the device's values
    job,      \* the ioctl loop a session is in
    shown,    \* what each page's sliders show, <<>> before it has any
    toServer, toPage, \* the two directions of each page's channel
    moves,    \* how many moves so far
    by        \* for the properties: whose message of which kind last set a
              \* control

device == <<program, kind>>
vars == <<device, dev, job, shown, toServer, toPage, moves, by>>

Values == [Listed -> Int]
Idle   == [what |-> "idle", at |-> 1, got |-> [c \in Listed |-> Min[c]]]

-----------------------------------------------------------------------------
(* The page's sliders (webrtc.js and main.js have the same code). *)

\* "convert -10, 10 to 0 - 20 for input range": what a slider shows of a value
\* and between what it goes.
converted(c) == Min[c] < 0
Position(c, value) == IF converted(c) THEN value - Min[c] ELSE value
Bottom(c) == Position(c, Min[c])
Top(c)    == Position(c, Max[c])

\* An <input type="range"> takes the nearest position it has.
Nearest(c, pos) == IF pos < Bottom(c) THEN Bottom(c) ELSE IF pos > Top(c) THEN Top(c) ELSE pos

\* Where the reset button puts a slider: the offset is half the range, and of
\* two positions as near the range input takes the upper.
ResetPosition(c) ==
    IF converted(c) THEN Nearest(c, Default[c] + (Top(c) + 1) \div 2) ELSE Default[c]

\* What sendUserCtrl sends for a position, with the same offset, added.
SentValue(c, pos) == IF converted(c) THEN pos + Top(c) \div 2 ELSE pos

-----------------------------------------------------------------------------
\* What a page may say of a control.
Message == [what : {"set", "reset"}, ctrl : Ctrl, value : Int]
Writer  == [page : Page, what : {"set", "reset"}]

\* A loop stands at a control; sliders are those of the list and stay between
\* their ends; at most the list is on its way to a page.
TypeOK ==
    /\ program \in {"gwc", "sendonly"}
    /\ kind \in [Ctrl -> {"plain", "refused", "disabled"}]
    /\ dev \in [Ctrl -> Int] /\ \A c \in Ctrl : dev[c] \in Min[c]..Max[c]
    /\ job \in [Page -> [what : {"idle", "list", "reset"}, at : Ctrl, got : Values]]
    /\ shown \in [Page -> {<<>>} \cup Values]
    /\ toServer \in [Page -> Seq(Message)] /\ toPage \in [Page -> Seq(Values)]
    /\ \A p \in Page :
        /\ Len(toPage[p]) <= 1
        /\ shown[p] # <<>> => \A c \in Listed : shown[p][c] \in Bottom(c)..Top(c)
    /\ moves \in 0..MaxMoves
    /\ by \in [Ctrl -> SUBSET Writer]

\* An earlier run has turned every control up.  Those listed are not disabled.
Init ==
    /\ program \in {"gwc", "sendonly"}
    /\ kind \in [Ctrl -> {"plain", "refused", "disabled"}]
    /\ \A c \in Listed : kind[c] # "disabled"
    /\ dev = Max
    /\ job = [p \in Page |-> Idle]
    /\ shown = [p \in Page |-> <<>>]
    /\ toServer = [p \in Page |-> <<>>] /\ toPage = [p \in Page |-> <<>>]
    /\ moves = 0
    /\ by = [c \in Ctrl |-> {}]
-----------------------------------------------------------------------------
(* The page. *)

\* add_user_ctrls, or the data channel's onmessage.
add_user_ctrls(p) ==
    /\ toPage[p] # <<>>
    /\ shown' = [shown EXCEPT ![p] = [c \in Listed |-> Position(c, Head(toPage[p])[c])]]
    /\ toPage' = [toPage EXCEPT ![p] = <<>>]
    /\ UNCHANGED <<device, dev, job, toServer, moves, by>>

UserMoves(p) ==
    /\ shown[p] # <<>> /\ moves < MaxMoves
    /\ moves' = moves + 1
    /\ UNCHANGED <<device, dev, job, toPage, by>>

Say(p, what, c, value) ==
    toServer' = [toServer EXCEPT ![p] = Append(@, [what |-> what, ctrl |-> c, value |-> value])]

sendUserCtrl(p, c, pos) ==
    /\ UserMoves(p)
    /\ pos # shown[p][c]
    /\ shown' = [shown EXCEPT ![p][c] = pos]
    /\ Say(p, "set", c, SentValue(c, pos))

resetCtrls(p) ==
    /\ UserMoves(p)
    /\ shown' = [shown EXCEPT ![p] = [c \in Listed |-> ResetPosition(c)]]
    /\ Say(p, "reset", 1, 0)
-----------------------------------------------------------------------------
(* The server. *)

\* A session's handler runs to its end before its next; in webrtc-sendonly
\* before anyone's next.
MayRun(p) == program = "gwc" \/ \A q \in Page \ {p} : job[q].what = "idle"

\* Mutant: the channel's on-open is connected for every message.
OpenAgain(p) ==
    /\ job[p].what = "idle" /\ MayRun(p)
    /\ shown[p] = <<>>
    /\ job' = [job EXCEPT ![p].what = "list"]
    /\ UNCHANGED <<device, dev, shown, toServer, toPage, moves, by>>

\* data_channel_on_open or soup_websocket_handler calls get_device_json.
Open(p) ==
    /\ job[p].what = "idle" /\ MayRun(p)
    /\ shown[p] = <<>> /\ toPage[p] = <<>>
    /\ job' = [job EXCEPT ![p].what = "list"]
    /\ UNCHANGED <<device, dev, shown, toServer, toPage, moves, by>>

\* The loop of get_device_json reads one control; the last one sends the list.
get_device_json(p) ==
    /\ job[p].what = "list"
    /\ LET c    == job[p].at
           got  == IF c \in Listed THEN [job[p].got EXCEPT ![c] = dev[c]] ELSE job[p].got
       IN  IF c = N
           THEN /\ job' = [job EXCEPT ![p] = Idle]
                /\ toPage' = [toPage EXCEPT ![p] = Append(@, got)]
           ELSE /\ job' = [job EXCEPT ![p].at = c + 1, ![p].got = got]
                /\ UNCHANGED toPage
    /\ UNCHANGED <<device, dev, shown, toServer, moves, by>>

Reads(p, what) ==
    /\ job[p].what = "idle" /\ MayRun(p)
    /\ toServer[p] # <<>> /\ Head(toServer[p]).what = what
    /\ toServer' = [toServer EXCEPT ![p] = Tail(@)]
    /\ UNCHANGED <<device, shown, toPage, moves>>

\* "The driver may clamp the value or return ERANGE."
Accepted(c, value) ==
    IF value \in Min[c]..Max[c] THEN {value}
    ELSE {dev[c], IF value > Max[c] THEN Max[c] ELSE Min[c]}

\* VIDIOC_S_CTRL for a message of page p.
SetCtrl(p, what, c, value) ==
    /\ \E v \in Accepted(c, value) : dev' = [dev EXCEPT ![c] = v]
    /\ by' = [by EXCEPT ![c] = {[page |-> p, what |-> what]}]

\* set_ctrl_value.  webrtc-sendonly takes every message with data for a reset,
\* does not find one in it and does nothing.
ReadSet(p) ==
    /\ Reads(p, "set")
    /\ LET m == Head(toServer[p])
       IN  IF program = "gwc" /\ kind[m.ctrl] = "plain"
           THEN SetCtrl(p, "set", m.ctrl, m.value)
           ELSE UNCHANGED <<dev, by>>
    /\ UNCHANGED job

\* reset_user_ctrls begins.
ReadReset(p) ==
    /\ Reads(p, "reset")
    /\ job' = [job EXCEPT ![p].what = "reset"]
    /\ UNCHANGED <<dev, by>>

\* Mutant: the loop asks for the same control again when it was set.
ResetNeverAdvances(p) ==
    /\ job[p].what = "reset"
    /\ kind[job[p].at] = "plain"
    /\ SetCtrl(p, "reset", job[p].at, Default[job[p].at])
    /\ UNCHANGED <<device, job, shown, toServer, toPage, moves>>

\* Mutant: the loop leaves the last control out.
ResetAllButLast(p) ==
    /\ job[p].what = "reset"
    /\ LET c == job[p].at
       IN  IF c = N \/ kind[c] = "refused"
           THEN /\ job' = [job EXCEPT ![p] = Idle] /\ UNCHANGED <<dev, by>>
           ELSE /\ kind[c] = "plain" /\ SetCtrl(p, "reset", c, Default[c])
                /\ job' = [job EXCEPT ![p].at = c + 1]
    /\ UNCHANGED <<device, shown, toServer, toPage, moves>>

\* The loop of reset_user_ctrls: a control that refuses ends it; one that is
\* disabled is asked for again without the flag for the next, for ever.
reset_user_ctrls(p) ==
    /\ job[p].what = "reset"
    /\ LET c == job[p].at
       IN  /\ kind[c] # "disabled"
           /\ IF kind[c] = "plain" THEN SetCtrl(p, "reset", c, Default[c]) ELSE UNCHANGED <<dev, by>>
           /\ job' = [job EXCEPT ![p] = IF kind[c] = "refused" \/ c = N
                                        THEN Idle ELSE [@ EXCEPT !.at = c + 1]]
    /\ UNCHANGED <<device, shown, toServer, toPage, moves>>

ServerStep(p) ==
    Open(p) \/ get_device_json(p) \/ ReadSet(p) \/ ReadReset(p) \/ reset_user_ctrls(p)

Next ==
    \E p \in Page :
        \/ ServerStep(p) \/ add_user_ctrls(p) \/ resetCtrls(p)
        \/ \E c \in Listed : \E pos \in Bottom(c)..Top(c) : sendUserCtrl(p, c, pos)

\* A session's thread runs on, or gets its turn in the main loop; nothing makes
\* the users move or a page's channel deliver the list.
Spec == Init /\ [][Next]_vars /\ \A p \in Page : WF_vars(ServerStep(p))
-----------------------------------------------------------------------------
\* Every control before c can be set, so that a reset comes as far as c.
Reached(c) == \A d \in 1..c : kind[d] = "plain"

Quiet(p) == toServer[p] = <<>> /\ toPage[p] = <<>> /\ job[p].what = "idle"

\* The page whose message was the last to set a control shows what the device
\* has, whatever other pages' sets and resets ran in between.  Of signed
\* controls this is so after a reset, if their range is symmetric: the value a
\* signed slider sends is not the one it shows.  It is of gst-webrtc-camera:
\* webrtc-sendonly never gets to set_ctrl_value.
LastWriterSees ==
    program = "gwc" =>
    \A p \in Page, c \in Listed :
        /\ Quiet(p) /\ Reached(c)
        /\ \E b \in by[c] : b.page = p /\ (converted(c) => b.what = "reset" /\ Min[c] = -Max[c])
        => shown[p][c] = Position(c, dev[c])

Spinning(p) == job[p].what = "reset" /\ kind[job[p].at] = "disabled"

\* What a page has sent is served, unless a reset spins on a disabled control:
\* its own in gst-webrtc-camera, anybody's in webrtc-sendonly.
ServedUnlessSpinning ==
    \A p \in Page :
        toServer[p] # <<>> ~>
            Quiet(p) \/ \E q \in (IF program = "gwc" THEN {p} ELSE Page) : Spinning(q)
=============================================================================
