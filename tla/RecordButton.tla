---------------------------- MODULE RecordButton ----------------------------
(***************************************************************************)
(* The record button of webrtc.html (webrtc.js) against the server of      *)
(* GwcServer: one page per connection, and between the two a web socket    *)
(* that keeps the order of messages in each direction and may break.  A    *)
(* broken page connects again by itself and keeps its JavaScript state.    *)
(***************************************************************************)
EXTENDS GwcServer, Sequences

CONSTANT MaxInFlight  \* clicks one page gets in before the server reads them

ASSUME MaxInFlightAssumption == MaxInFlight \in Nat

VARIABLES
    enabled,   \* pages whose record button is enabled
    isRecord,  \* what each page believes and its button shows
    up,        \* commands on their way to the server
    down       \* "started" refusals on their way to the page

pageVars == <<enabled, isRecord, up, down>>
allVars  == <<vars, pageVars>>

\* Pages send starts and stops and are told only of refusals (soup.c 297-316).
PageTypeOK ==
    /\ enabled \subseteq Conn
    /\ isRecord \in [Conn -> BOOLEAN]
    /\ up \in [Conn -> Seq({"start", "stop"})]
    /\ down \in [Conn -> Seq({"started"})]

PageInit ==
    /\ Init
    /\ enabled = {}
    /\ isRecord = [c \in Conn |-> FALSE]
    /\ up = [c \in Conn |-> <<>>]
    /\ down = [c \in Conn |-> <<>>]

Quiet(c) == up[c] = <<>> /\ down[c] = <<>>

\* onAddRemoteStream: the camera's stream arrives and enables the button, for
\* as long as the page is loaded.
onAddRemoteStream(c) ==
    /\ entry[c].alive
    /\ c \notin enabled
    /\ enabled' = enabled \cup {c}
    /\ UNCHANGED <<vars, isRecord, up, down>>

\* The click handler of startRecord.  A send on a closed socket is dropped
\* silently; the page's belief changes all the same.
Click(c) ==
    /\ c \in enabled
    /\ Len(up[c]) < MaxInFlight
    /\ isRecord' = [isRecord EXCEPT ![c] = ~@]
    /\ up' = IF entry[c].alive
             THEN [up EXCEPT ![c] = @ \o <<IF isRecord'[c] THEN "start" ELSE "stop">>]
             ELSE up
    /\ UNCHANGED <<vars, enabled, down>>

\* Mutant: the alert alone.
recordCallBack_alerts(c) ==
    /\ down[c] # <<>>
    /\ down' = [down EXCEPT ![c] = Tail(@)]
    /\ UNCHANGED <<vars, enabled, isRecord, up>>

\* recordCallBack: an alert, and the button goes back to "Start Record".
recordCallBack(c) ==
    /\ down[c] # <<>>
    /\ down' = [down EXCEPT ![c] = Tail(@)]
    /\ isRecord' = [isRecord EXCEPT ![c] = FALSE]
    /\ UNCHANGED <<vars, enabled, up>>

\* Mutant: the refusal echoes the command.
ServerReads_echoes(c) ==
    /\ up[c] # <<>>
    /\ up' = [up EXCEPT ![c] = Tail(@)]
    /\ down' = [down EXCEPT ![c] = @ \o <<Head(up[c])>>]
    /\ UNCHANGED <<vars, enabled, isRecord>>

\* The record branch of soup_websocket_message_cb.
ServerReads(c) ==
    /\ up[c] # <<>>
    /\ up' = [up EXCEPT ![c] = Tail(@)]
    /\ UNCHANGED <<enabled, isRecord>>
    /\ \/ /\ Head(up[c]) = "start" /\ cmd_recording
          /\ down' = [down EXCEPT ![c] = @ \o <<"started">>]
          /\ UNCHANGED vars
       \/ /\ Head(up[c]) = "start" /\ record_start(c)
          /\ UNCHANGED down
       \/ /\ Head(up[c]) = "stop" /\ record_stop(c)
          /\ UNCHANGED down

Connect(c) == soup_websocket_handler(c) /\ UNCHANGED pageVars

\* The socket breaks with whatever it carried; the page keeps isRecord.
Break(c) ==
    /\ soup_websocket_closed_cb(c)
    /\ up' = [up EXCEPT ![c] = <<>>]
    /\ down' = [down EXCEPT ![c] = <<>>]
    /\ UNCHANGED <<enabled, isRecord>>

PageStep(c) ==
    Connect(c) \/ onAddRemoteStream(c) \/ ServerReads(c) \/ recordCallBack(c)

PageNext ==
    undefined = "none" /\ \E c \in Conn : Click(c) \/ Break(c) \/ PageStep(c)

PageSpec == PageInit /\ [][PageNext]_allVars
-----------------------------------------------------------------------------
(***************************************************************************)
(* A careful user clicks on a connected page, once everything the page and *)
(* the server had to say about the last click has arrived, and reloads a   *)
(* page whose socket broke.                                                *)
(***************************************************************************)
CarefulClick(c) == entry[c].alive /\ Quiet(c) /\ Click(c)

Reload(c) ==
    /\ soup_websocket_closed_cb(c)
    /\ up' = [up EXCEPT ![c] = <<>>]
    /\ down' = [down EXCEPT ![c] = <<>>]
    /\ isRecord' = [isRecord EXCEPT ![c] = FALSE]
    /\ enabled' = enabled \ {c}

CarefulNext ==
    undefined = "none" /\ \E c \in Conn : CarefulClick(c) \/ Reload(c) \/ PageStep(c)

\* The main loop reads what arrives, the page's event loop too; GLib serves its
\* sources in turn, so each is weakly fair.
CarefulSpec ==
    /\ PageInit /\ [][CarefulNext]_allVars
    /\ \A c \in Conn : WF_allVars(ServerReads(c)) /\ WF_allVars(recordCallBack(c))
-----------------------------------------------------------------------------
\* With careful users the button tells the truth: when nothing is in flight a
\* page shows "Stop Record" exactly while its own session records.
ButtonIsTruthful ==
    \A c \in Conn : entry[c].alive /\ Quiet(c) =>
        (isRecord[c] <=> entry[c].pipeline # NoPipe)

\* With careful users a click is settled: a page that shows "Stop Record" gets
\* its recording, or its button back.
ClickIsAnswered ==
    \A c \in Conn : isRecord[c] ~> (~isRecord[c] \/ entry[c].pipeline # NoPipe)

\* A start is accepted only while nobody records ("have someone recording in
\* process" is what the refusal at soup.c 299 is for).
OneRecordingAtATime == \A c, d \in Recorders : c = d
=============================================================================
