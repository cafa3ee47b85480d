--------------------------- MODULE TalkSignalling ---------------------------
(***************************************************************************)
(* Signalling between one page (webrtc.js) and its session (soup.c, the    *)
(* receive side of gst-app.c).  Connection 0 is the watch: sendbin offers, *)
(* the page's webrtcPeerConnection answers.  Connection n > 0 is the n-th  *)
(* talk: the page's localpc offers, a recvbin made for it answers.  Both   *)
(* sides trickle ICE candidates, and no message says which connection it   *)
(* is about: each receiver decides by its own pointers.                    *)
(*                                                                         *)
(* One web socket carries all of it; what a page does when the socket      *)
(* breaks is WatchPage's subject.                                          *)
(***************************************************************************)
EXTENDS Naturals, Sequences, FiniteSets

CONSTANTS MaxTalk,   \* bound on the talks a page starts
          MaxIce,    \* bound on the candidates one end of a connection gathers
          MaxUnread  \* bound on the messages unread when the page sends a stop

ASSUME MaxTalkAssumption == MaxTalk \in Nat
ASSUME MaxIceAssumption == MaxIce \in Nat
ASSUME MaxUnreadAssumption == MaxUnread \in Nat

Talk == 1..MaxTalk
Peer == 0..MaxTalk

VARIABLES
    bin,       \* webrtcbins: 0 is sendbin, n the recvbin of talk n
    recvbin,   \* recv.recvbin, 0 for NULL
    recvpipe,  \* recv.recvpipe, 0 for NULL
    pc,        \* RTCPeerConnections: 0 is webrtcPeerConnection; a talk is
               \* "creating" until createOffer resolves, and "new" after it if
               \* localpc was another connection by then
    localpc,   \* the page's localpc, 0 for null
    capturing, \* getUserMedia calls not yet settled
    gathered,  \* candidates gathered by the end at the server or the page
    toServer, toPage,  \* the two directions of the web socket
    strays     \* descriptions and candidates given to another connection

server == <<bin, recvbin, recvpipe>>
client == <<pc, localpc, capturing>>
vars   == <<server, client, gathered, toServer, toPage, strays>>

Message == [what : {"offer", "answer", "ice", "talk stop"}, of : Peer]
Msg(what, n) == [what |-> what, of |-> n]

\* Pointers name connections, queues hold messages, and neither cameras asked
\* for nor candidates are out of their bounds.
TypeOK ==
    /\ bin \in [Peer -> {"absent", "new", "asked", "described", "released"}]
    /\ recvbin \in Peer /\ recvpipe \in Peer /\ localpc \in Peer
    /\ pc \in [Peer -> {"absent", "new", "creating", "offering", "stable"}]
    /\ capturing \in 0..MaxTalk
    /\ gathered \in [{"server", "page"} -> [Peer -> 0..MaxIce]]
    /\ toServer \in Seq(Message) /\ toPage \in Seq(Message)
    /\ strays \subseteq [what : {"local", "offer", "answer", "server ice", "page ice"},
                          of : Peer, at : Peer]

\* soup_websocket_handler has set sendpipe to PLAYING and playStream has made
\* webrtcPeerConnection.
Init ==
    /\ bin = [n \in Peer |-> IF n = 0 THEN "new" ELSE "absent"]
    /\ recvbin = 0 /\ recvpipe = 0 /\ localpc = 0
    /\ pc = [n \in Peer |-> IF n = 0 THEN "new" ELSE "absent"]
    /\ capturing = 0
    /\ gathered = [side \in {"server", "page"} |-> [n \in Peer |-> 0]]
    /\ toServer = <<>> /\ toPage = <<>>
    /\ strays = {}

Given(what, n, at) ==
    strays' = IF at = n THEN strays ELSE strays \cup {[what |-> what, of |-> n, at |-> at]}
-----------------------------------------------------------------------------
(* The webrtcbins' own threads. *)

\* on_negotiation_needed_cb, then on_offer_created_cb.
OfferCreated ==
    /\ bin[0] = "new"
    /\ bin' = [bin EXCEPT ![0] = "described"]
    /\ toPage' = Append(toPage, Msg("offer", 0))
    /\ UNCHANGED <<recvbin, recvpipe, client, gathered, toServer, strays>>

\* Mutant: the answer is set but not sent.
answer_unsent(n) ==
    /\ bin[n] = "asked"
    /\ bin' = [bin EXCEPT ![n] = "described"]
    /\ Given("local", n, recvbin)
    /\ UNCHANGED <<recvbin, recvpipe, client, gathered, toServer, toPage>>

\* on_answer_created sets the answer on whatever recv.recvbin is by then.
on_answer_created(n) ==
    /\ bin[n] = "asked"
    /\ bin' = [bin EXCEPT ![n] = "described"]
    /\ Given("local", n, recvbin)
    /\ toPage' = Append(toPage, Msg("answer", n))
    /\ UNCHANGED <<recvbin, recvpipe, client, gathered, toServer>>

\* on_ice_candidate_cb of sendbin or a recvbin.
on_ice_candidate_cb(n) ==
    /\ bin[n] = "described"
    /\ gathered["server"][n] < MaxIce
    /\ gathered' = [gathered EXCEPT !["server"][n] = @ + 1]
    /\ toPage' = Append(toPage, Msg("ice", n))
    /\ UNCHANGED <<server, client, toServer, strays>>
-----------------------------------------------------------------------------
(* The server's main loop: soup_websocket_message_cb. *)

ServerReads(what) ==
    /\ toServer # <<>>
    /\ Head(toServer).what = what
    /\ toServer' = Tail(toServer)
    /\ UNCHANGED <<client, gathered, toPage>>

\* Only sendbin's offer is ever answered, and the answer is given to sendbin.
ReadAnswer == ServerReads("answer") /\ UNCHANGED <<server, strays>>

\* Mutant: recv.recvbin is set once and kept.
ReadOfferKeepsRecvbin ==
    /\ ServerReads("offer")
    /\ LET n == Head(toServer).of
       IN  /\ recvbin' = IF recvbin = 0 THEN n ELSE recvbin
           /\ recvpipe' = n
           /\ bin' = [bin EXCEPT ![n] = "asked"]
    /\ UNCHANGED strays

\* start_recv_webrtcbin, then handle_sdp_offer asks the new bin for an answer.
ReadOffer ==
    /\ ServerReads("offer")
    /\ LET n == Head(toServer).of
       IN  /\ recvbin' = n /\ recvpipe' = n
           /\ bin' = [bin EXCEPT ![n] = "asked"]
    /\ UNCHANGED strays

\* Mutant: the pipeline is forgotten, not released.
ReadTalkStopForgets ==
    /\ ServerReads("talk stop")
    /\ recvpipe' = 0
    /\ UNCHANGED <<bin, recvbin, strays>>

\* stop_recv_webrtc, if there is a talk; recvbin keeps its value.
ReadTalkStop ==
    /\ ServerReads("talk stop")
    /\ recvpipe' = 0
    /\ bin' = IF recvpipe = 0 THEN bin ELSE [bin EXCEPT ![recvpipe] = "released"]
    /\ UNCHANGED <<recvbin, strays>>

\* To recvbin if it is not NULL, else to sendbin, which is connection 0.
ReadIce ==
    /\ ServerReads("ice")
    /\ Given("server ice", Head(toServer).of, recvbin)
    /\ UNCHANGED server
-----------------------------------------------------------------------------
(* The page's event loop. *)

PageReads(what) ==
    /\ toPage # <<>>
    /\ Head(toPage).what = what
    /\ toPage' = Tail(toPage)
    /\ UNCHANGED <<server, localpc, capturing, gathered>>

\* The answer is set and goes out.
onLocalDescription ==
    /\ pc' = [pc EXCEPT ![0] = "stable"]
    /\ toServer' = Append(toServer, Msg("answer", 0))

\* onIncomingSDP: an offer is the camera's.
IncomingOffer ==
    /\ PageReads("offer")
    /\ onLocalDescription
    /\ UNCHANGED strays

\* onIncomingSDP: any answer goes to the localpc of the moment, which refuses
\* it (reportError) when it has no offer of its own outstanding.
IncomingAnswer ==
    /\ PageReads("answer")
    /\ pc' = [pc EXCEPT ![localpc] = IF @ = "offering" THEN "stable" ELSE @]
    /\ Given("answer", Head(toPage).of, localpc)
    /\ UNCHANGED toServer

\* onIncomingICE: to localpc once there is one and the record button is
\* enabled, which the watch stream did before a talk could be chosen.
IncomingIce ==
    /\ PageReads("ice")
    /\ Given("page ice", Head(toPage).of, localpc)
    /\ UNCHANGED <<pc, toServer>>

\* onIceCandidate of either kind of connection.
onIceCandidate(n) ==
    /\ pc[n] \in {"offering", "stable"}
    /\ gathered["page"][n] < MaxIce
    /\ gathered' = [gathered EXCEPT !["page"][n] = @ + 1]
    /\ toServer' = Append(toServer, Msg("ice", n))
    /\ UNCHANGED <<server, client, toPage, strays>>

Chosen == localpc + capturing

\* "talk stop" goes out whether there is a talk or not; the tracks it stops are
\* of no concern here.
stopLocalMedia ==
    /\ Len(toServer) < MaxUnread
    /\ toServer' = Append(toServer, Msg("talk stop", 0))

\* selectVideoSize: stopLocalMedia says "talk stop"; a size asks for the camera.
\* The controls are enabled by the watch stream.
selectVideoSize(start) ==
    /\ pc[0] = "stable"
    /\ IF start THEN Chosen < MaxTalk /\ capturing' = capturing + 1
                ELSE UNCHANGED capturing
    /\ stopLocalMedia
    /\ UNCHANGED <<server, pc, localpc, gathered, toPage, strays>>

\* Mutant: a connection is made although no camera was asked for.
createSenderUnasked ==
    /\ localpc < MaxTalk
    /\ capturing' = capturing - 1
    /\ localpc' = localpc + 1
    /\ pc' = [pc EXCEPT ![localpc'] = "creating"]
    /\ UNCHANGED <<server, gathered, toServer, toPage, strays>>

\* getUserMedia resolves: createSender makes a connection and asks it for an offer.
createSender ==
    /\ capturing > 0
    /\ capturing' = capturing - 1
    /\ localpc' = localpc + 1
    /\ pc' = [pc EXCEPT ![localpc'] = "creating"]
    /\ UNCHANGED <<server, gathered, toServer, toPage, strays>>

\* getUserMedia rejects: "Capture media error", and no talk comes of it.
captureError ==
    /\ capturing > 0
    /\ capturing' = capturing - 1
    /\ UNCHANGED <<server, pc, localpc, gathered, toServer, toPage, strays>>

\* createOffer's promise: the offer of n is set on the localpc of the moment,
\* which refuses one it has not made, and goes out whatever came of that.
offerCreated(n) ==
    /\ pc[n] = "creating"
    /\ pc' = [pc EXCEPT ![n] = IF n = localpc THEN "offering" ELSE "new"]
    /\ Given("offer", n, localpc)
    /\ toServer' = Append(toServer, Msg("offer", n))
    /\ UNCHANGED <<server, localpc, capturing, gathered, toPage>>

\* localpc, answered, says it is disconnected: the page stops the talk of
\* itself, also while localpc gathers or the next camera is asked for.
oniceconnectionstatechange ==
    /\ localpc # 0 /\ pc[localpc] = "stable"
    /\ stopLocalMedia
    /\ UNCHANGED <<server, client, gathered, toPage, strays>>

BinStep ==
    \/ OfferCreated
    \/ \E n \in Talk : on_answer_created(n)
    \/ \E n \in Peer : on_ice_candidate_cb(n)

ServerStep == ReadAnswer \/ ReadOffer \/ ReadTalkStop \/ ReadIce

PageStep ==
    \/ IncomingOffer \/ IncomingAnswer \/ IncomingIce
    \/ \E n \in Peer : onIceCandidate(n)
    \/ createSender \/ captureError
    \/ \E n \in Talk : offerCreated(n)

Choose == \E start \in BOOLEAN : selectVideoSize(start)

Next == BinStep \/ ServerStep \/ PageStep \/ oniceconnectionstatechange \/ Choose

Spec == Init /\ [][Next]_vars
-----------------------------------------------------------------------------
(***************************************************************************)
(* A patient user touches the controls once every connection made so far   *)
(* is negotiated and has gathered its candidates, and everything sent has  *)
(* arrived.                                                                *)
(***************************************************************************)
Settled ==
    /\ toServer = <<>> /\ toPage = <<>> /\ capturing = 0
    /\ \A n \in Peer : /\ bin[n] # "asked" /\ pc[n] \notin {"creating", "offering"}
                       /\ bin[n] = "described" => gathered["server"][n] = MaxIce
                       /\ pc[n] = "stable" => gathered["page"][n] = MaxIce

SteadyNext == BinStep \/ ServerStep \/ PageStep \/ (Settled /\ Choose)

\* A patient user whose talks keep their connections.
SteadySpec == Init /\ [][SteadyNext]_vars

PatientNext == SteadyNext \/ oniceconnectionstatechange

\* Bins' threads, the main loop and the page's event loop all run on; that a
\* connection is lost is nobody's duty.
PatientSpec ==
    /\ Init /\ [][PatientNext]_vars
    /\ WF_vars(BinStep) /\ WF_vars(ServerStep) /\ WF_vars(PageStep)
-----------------------------------------------------------------------------
\* Every description and every candidate is given to the connection it was made
\* for ("ICE candidate from client browser" reaches the camera, request.d2).
EverythingArrives == strays = {}

\* What the page logs as "answer Incoming ICE" (webrtc.js 825) before it hands
\* it to localpc belongs to an answer, so to a talk.
AnswerIceIsOfATalk ==
    \A s \in strays : ~(s.what = "page ice" /\ s.of = 0)

\* One talk at a time holds a receive pipeline; the others have been released.
OneTalkAtATime ==
    \A n \in Talk : bin[n] \in {"asked", "described"} => n = recvpipe

\* The page and the session agree on which talk is on, once all is quiet.
EndsAgree ==
    Settled /\ localpc # 0 => recvbin = localpc /\ pc[localpc] = "stable"

\* Every talk the page offers is answered.
TalksAreAnswered == \A n \in Talk : pc[n] = "offering" ~> pc[n] = "stable"
=============================================================================
