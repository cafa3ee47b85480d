# A TLA+ development of gst-webrtc-camera

`gwc` turns a V4L2 camera into a web page: GStreamer encodes once, libsoup
serves the page and a web socket, and every browser that connects gets a
pipeline of its own that it watches over WebRTC. From the page a user can also
start a recording on the camera's disk, talk to the camera, leave it a voice
message, and see who else is online. This directory models that behaviour in
TLA+, checks it with TLC and proves part of it with TLAPS.

## 1. Inventory

The repository builds three programs: `gwc` (main.c, soup.c, gst-app.c, sql.c,
media.c, v4l2ctl.c), `webrtc-sendonly` and `rtspsrc-webrtc`. `gwc` is the main
one; `webrtc-sendonly` is a smaller server of the same kind with a page of its
own (main.js). Both are modelled, the third is not.

| Part | State it keeps | Operations | What must hold |
|---|---|---|---|
| Session table (soup.c) | `webrtc_connected_table`: connection to `WebrtcItem` (send pipeline, recording pipeline, receive pipeline, function pointers) | open, message, close; state timer | each session owns its pipelines, nothing is released twice or used after release, nothing leaks |
| Recording on command (gst-app.c) | `cmd_recording`, `item->record` | `record.start`, `record.stop`, `get_rec_state` | one recording at a time; never locked out; the button tells the truth |
| Appsrc fan-out (gst-app.c) | `G_AppsrcList`, `G_appsrc_lock` | append, remove, push per sample | no push to what is gone; each receiver gets each sample once; no deadlock |
| Talk and ICE signalling (soup.c, webrtc.js) | `recv.recvbin`, `recv.recvpipe`; `localpc`, `webrtcPeerConnection` | offer, answer, candidate, talk stop | everything reaches the connection it was made for; every talk is answered; one at a time |
| Online users (sql.c, soup.c, webrtc.js) | table `webrtc_log` | announce, close, list | the list is true, and pages converge to it, across restarts |
| Voice messages (gst-app.c, webrtc.js) | `item->dcfile`, thread pool; `bufferedAmount` | announce, slice, write, play | a message sent whole is heard whole, once, in order |
| HTTP server (soup.c) | digest domain, `client_limit` | page, files, status, limit | limit kept; every path answered |
| Motion recording (gst-app.c) | `_recording`, inotify | start, stop by event and timer | one recording per burst of motion |
| Capture, HLS, splitting (gst-app.c, media.c) | one pipeline | built once | inside GStreamer |
| User controls (v4l2ctl.c; webrtc.js, main.js) | the device's values; the pages' sliders | list, set, reset | who moved a control last sees what the device has; everything sent is served |
| `webrtc-sendonly` and its page (webrtc-sendonly.c, main.js) | `receiver_entry_table`; the globals `webrtcPeerConnection`, `websocketConnection`, `reconnectTimerId` | connect, negotiate, lose, reconnect | one connection or one timer for the next; nothing reaches another connection; the watch comes back |
| `rtspsrc-webrtc` | a session table | open, message, close | as for the session table |

How the parts interact. Everything in soup.c, and the pipeline callbacks it
calls in gst-app.c, runs on the GLib main loop: one callback at a time, with no
lock between them, sharing the memory one callback leaves for the next. Around
it run threads that do share with it: the appsinks' streaming threads
(`on_new_sample_from_sink`, with `G_appsrc_lock`), the webrtcbins' threads
(`on_offer_created_cb`, `on_answer_created`, `on_ice_candidate_cb`, the data
channel's callbacks) and a GLib pool that plays voices. The page is one event
loop whose promises resolve later. Between page and server is a web socket:
ordered in each direction, and free to break.

What is hard here: messages in orders nobody tested, from several clients that
share one flag; pointers that some paths reset and others do not, over an
allocator that reuses addresses; threads that walk a list the main loop edits;
answers that are made after the state they are about has moved on; a list
computed from rows that outlive connections and processes. `PROJECT.json`
lists these hazards at their lines.

## 2. Modules

| Module | Models | Notes |
|---|---|---|
| `GwcServer` | the session table and every callback that changes it | the core; proved about |
| `RecorderLock` | what recording on command promises | abstract |
| `GwcServer_proofs` | the theorems about `GwcServer` | TLAPS |
| `RecordButton` | pages and web sockets around `GwcServer` | EXTENDS the server and adds the page |
| `RecordButton_proofs` | the theorems about the pages | TLAPS, on top of `GwcServer_proofs` |
| `AppsrcFanout` | main loop against streaming threads | detailed |
| `Multicast` | what a receiver of the stream is promised | abstract |
| `AppsrcFanout_proofs` | the theorems about the fan-out and the refinement | TLAPS |
| `OnlineUsers` | webrtc_log, the list and the pages that show it | crashes, reconnects, reused addresses |
| `OnlineUsers_proofs` | the theorems about the list and the pages that show it | TLAPS |
| `TalkSignalling` | one page and its session, three kinds of thread | messages in both directions |
| `TalkSignalling_proofs` | the theorems about a patient user's talks, and about any user's | TLAPS |
| `VoiceUpload` | a voice from recorder to loudspeaker | slices in units of bytes |
| `VoiceUpload_proofs` | the theorems about voices of any size | TLAPS, with induction and recursion over numbers |
| `WatchPage` | a page of webrtc-sendonly, its sockets, its timers and its sessions | lost sockets, reconnection |
| `WatchPage_proofs` | the theorems about the reconnecting page | TLAPS |
| `UserCtrls` | one device, its two kinds of server and the pages' sliders | ioctl by ioctl |
| `UserCtrls_proofs` | the theorems about the sliders | TLAPS |
| `MC...` | instances for TLC | |

Each module with a mutant section has, before some definitions, a definition
marked "Mutant": the same callback with one plausible mistake. They are used
only to confirm that each property fails when the code is wrong; no
specification mentions them.

### GwcServer

`entry` is the table, `heap` the pipelines at each address, `avlist` the appsrc
list as a bag, `cmd_recording` the flag, `timers` the sources that
`g_timeout_add` made and nobody removes. `app_sink` is chosen once in `Init`
(main.c passes `start_appsrc_webrtcbin` or `start_udpsrc_webrtcbin`).

* One action is one callback, whole: `soup_websocket_closed_cb(c)` is the
  removal from the table with everything `destroy_webrtc_table` calls.
* A WebrtcItem and its connection are freed together, so one value of `Conn`
  stands for both. A closed `Conn` may open again: the address is reused.
* A released pipeline's address returns to the free ones and may be given to
  any other session. A pointer the code leaves set (`recvbin` after a talk,
  `rec_avpair.video_src` after a recording, the timer's argument) is therefore
  kept in the model, and a step that uses one sets `undefined` and ends the
  behaviour: after undefined behaviour nothing is claimed. That is why the two
  GwcServer runs switch the deadlock check off.
* `gst_parse_launch` is taken to return a bin, since its command lines are
  fixed by the configuration.
* `heap` models whole pipelines; `gst_element_set_state(NULL)`, which joins a
  pipeline's threads, is part of the release.

`Spec` lets every client send anything at any time. `PoliteSpec` restricts
clients to what the page is meant to do: stop a recording it started, stop a
talk before it offers the next, send no candidate between two talks. The
properties are split accordingly, and that split is a result in itself: the
server alone guarantees ownership, pairing, feeding and that the flag is never
stuck; exclusive recording, absence of leaks and an exact list it only has by
its clients' manners.

### RecordButton

`up` and `down` are the two directions of a page's socket, `isRecord` the
page's belief. `PageSpec` has any user, `CarefulSpec` one who clicks on a
connected page when nothing is in flight and reloads a page whose socket broke.
The main loop and the page's event loop serve their queues, so `ServerReads`
and `recordCallBack` are weakly fair; nothing is assumed of the user.

### AppsrcFanout and Multicast

The main loop is a small state machine (`Launch`, `AppendPair`; `TakeDown`,
`RemovePair`, `UnrefPair`), each streaming thread another (`PullSample`,
`LockList`, `PushBuffer` per list element, `UnlockList`). `refs` counts the
references to a pair's appsrcs: the pipeline's and the one
`gst_bin_get_by_name` took. The refinement maps the loop under the lock to one
atomic `Publish`, placed at the unlock: receivers already served do not count
the sample until then.

### OnlineUsers

A row is a connection's address, a user and how often `outdate` was set.
`Restart` clears what is in memory and keeps the rows. `Spec` lets addresses
come back, `FreshSpec` does not; a reconnect by timer opens a session that is
never announced, as in webrtc.js. Server and page notice a close in one step.

### TalkSignalling

Connection 0 is the watch, connection n the n-th talk. `strays` collects every
description or candidate that was handed to another connection than its own, at
the five places where code picks the connection by a variable of the moment.

* A choice first sends a "talk stop", always, and then asks for the camera;
  `getUserMedia` may reject, and then no talk comes of it (`captureError`).
* `createSender` only asks for an offer: the promise resolves later, sets it on
  the `localpc` of that moment, which refuses an offer it has not made, and
  sends it all the same (`offerCreated`).
* A talk whose connection is lost is stopped by the page itself
  (`oniceconnectionstatechange`), at any time after its answer and as often as
  `MaxUnread` leaves room in the queue.

`PatientSpec` is a user who touches the controls when everything has settled;
bins' threads, main loop and page are weakly fair, the loss of a connection is
not. `SteadySpec` is the same user without such losses.

### VoiceUpload

Sizes are counted in a unit; `Chunk` is `chunkSize`, `Json` the size of the
announcement. The slice loop is modelled by its arithmetic, including the jump
past the end: `Turn` is one turn, `Loop` the loop's two variables after each
number of turns (a recursive function) and `Turns` how many it takes.
`bufferedAmount` drains at any rate, so
a slice may start late. `PatientSpec` is a user who records again when the last
voice is through: a later announcement would remove the file being played.
The channel, the reader and the pool's threads are weakly fair; the pool has no
limit (`g_thread_pool_new(..., -1, FALSE, ...)`).

### WatchPage

A call of `playStream` makes a peer connection and a socket, so one number names
both, and the session the server makes for the socket. `made` is the last
number: it is what the globals name. The state of each end of a socket (`ws`,
`sess`) changes at its own time; `broken` is the wire between them.

* A handler is one action up to its `await` and one after it. What it uses
  after the await is `made` of then: `neg` keeps which connection a promise was
  given to (`at`), so the two can differ. `strays` collects what reached another
  connection, as in `TalkSignalling`.
* `timers` are the `setTimeout` calls not yet run, `reconnectTimerId` the one
  the variable names, `thens` the promises whose resolution will clear it. A
  socket that never opens fires error and close in one task; the click's own
  promise also has a `catch`, so a failed first try sets two timers.
* A timer waits for the promises that were pending when it was set (`waits`):
  a description is applied in far less than the timer's five seconds. Nothing
  else is assumed about time.
* Null data makes the server abort (`g_error`); `ReadAnswer` then ends every
  session. It is reached only after a failed first try, see below.
* `Lose` is bounded by `MaxLoss` and not fair. The page's event loop and the
  server's threads are weakly fair.

### UserCtrls

`dev` are the device's values, in the order of the ids in which
`reset_user_ctrls` meets them; `Listed` are those in `ctrl_list`. `kind` is
chosen in `Init`: a control may be plain, refuse to be set (inactive while an
automatic mode is on, or write-only) or be flagged disabled. `program` chooses
the server: in `gwc` each session's data channel is served by a thread of its
own webrtcbin and the loops interleave ioctl by ioctl, in `webrtc-sendonly` by
the main loop, one handler at a time. `Position`, `ResetPosition` and
`SentValue` are the page's three conversions between a value and the place of a
slider, which goes from `Bottom` to `Top`; `Nearest` is what a range input does
with any other place. `by` is a history variable. A page's channel opens once: a reconnected
page is another page. Each session's server step is weakly fair.

## 3. Runs

| Run | Specification | Shows | Bounds |
|---|---|---|---|
| `gwc_any` | `GwcServer!Spec` | `TypeOK`, `FlagHasRecorder`, `SessionsOwnTheirPipes`, `TalkPaired`, `SessionsAreFed`, `NoForeignRelease` | 2 connections, 4 pipelines, symmetric |
| `gwc_polite` | `PoliteSpec` | `ExclusiveRecording`, `NoOrphanPipes`, `ListIsExact`, `OnlyTimersGoStale`, `ImplementsRecorderLock` | the same |
| `button_careful` | `CarefulSpec` | `OneRecordingAtATime`, `ButtonIsTruthful`, `ClickIsAnswered` | 2 pages |
| `button_any` | `PageSpec` | counterexample to `OneRecordingAtATime` | 2 pages, 2 clicks in flight |
| `fanout` | `AppsrcFanout!Spec` | `PushesAreLive`, `ListIsSound`, `ImplementsMulticast`, no deadlock | 3 pairs, 2 sinks, 2 samples each |
| `online_fresh` | `FreshSpec` | `ListIsTrue`, `PagesAreCurrent`, `ClosedRowsAreFinal` | 2 pages, 4 addresses, 3 rows |
| `online_reused` | `OnlineUsers!Spec` | counterexample to `ListedAreOnline` | 2 pages, 2 addresses |
| `talk_patient` | `PatientSpec` | `EverythingArrives`, `OneTalkAtATime`, `EndsAgree`, `TalksAreAnswered` | 3 talks, 3 candidates an end, a stop is sent behind 2 unread messages at most |
| `talk_any` | `TalkSignalling!Spec` | counterexample to `AnswerIceIsOfATalk` | 2 talks, 1 candidate, unread messages as above |
| `voice` | `VoiceUpload!PatientSpec` | `PosStopsAtSize`, `HeardWholeOnceInOrder`, `OpenWhileFilling`, `WholeVoiceIsHeard` | 2 voices of 5 sizes |
| `watch` | `WatchPage!Spec` | `NeverStrandedNorMultiplied`, `OnlyOldCandidatesGoAstray`, `WatchIsRestored` | 3 connections, 2 losses, 1 candidate an end |
| `ctrls` | `UserCtrls!Spec` | `LastWriterSees`, `ServedUnlessSpinning` | 2 pages, 3 controls, 3 moves |

Why the bounds are enough to be interesting. Two sessions suffice for every
hazard of the table: they involve the flag or an address shared by two. Four
pipelines let two sessions send while one records and one talks, and force
addresses to be reused at once (a fifth would only add idle addresses). Three
pairs and two sinks let a removal fall before, at and after the element a
thread is at. Three rows and four addresses let a user come, go and come back
with another one present. Two voices are a voice and its successor, which
removes the predecessor's file; the sizes cover an empty blob, one shorter than
the announcement, one equal to it, and ones that need several turns of the loop
with and without overshoot. Two losses and three connections are a failed first
try, which makes two chains of reconnection, and a further loss that lets one
chain's success cancel the other's timer; or a loss during opening or
negotiation followed by one of the next connection. Three controls are a
signed one, an unlisted one in the middle of the reset and an unsigned one
behind it; three moves let one page reset between two sets of another.

`CHECK_DEADLOCK FALSE` stands in every run but `fanout`: in the others the
system may stop because a behaviour ended in `undefined`, because the bounds on
rows, talks, voices, connections or moves are used up, or because the user does
nothing more.

### Findings

* **A stop is not checked for ownership** (`button_any`; soup.c:315). The
  refusal of a start (soup.c:299, "have someone recording in process") is lost
  when a user clicks again before it arrives: the second click is a stop, and a
  stop clears the flag whoever records. The next start is accepted and two
  sessions record.
* **A reused address revives an old row** (`online_reused`; sql.c:161). The
  list joins rows with live connection addresses and ignores `outdate`.
* **Candidates of the camera go to the talk** (`talk_any`; webrtc.js:824). If
  the user talks while the send connection still gathers, the page gives the
  camera's candidates to `localpc`.

The page's own habits (one click at a time, a pause before talking) make all
three rare, which is what the `careful`, `fresh` and `patient` runs show.

Further divergences met while modelling. No run states them as a violated
property; the properties say where they except them.

* **A failed first try starts two chains** (main.js:245, 552). Both timers call
  `playStream`; the page then has two sockets and two sessions, and handlers of
  both use the later connection. `NeverStrandedNorMultiplied` shows that there
  are never more than two and that one chain's success may cancel the other's
  timer, never the last; with two, descriptions cross
  (`OnlyOldCandidatesGoAstray` and `WatchIsRestored` except this case).
* **Moves of signed sliders** (main.js:114, webrtc.js:265). The comment at
  main.js:451 says "convert -10, 10 to 0 - 20"; the value sent back is the
  position plus half the range instead of minus |min|, so at -10 to 10 every
  position sends 10 or more.
* **webrtc-sendonly never sets a control** (webrtc-sendonly.c:413 and 418 test
  for the same member, so `set_ctrl_value` is not reached).
* **A reset stops at a control that refuses** (v4l2ctl.c:193), for instance the
  white balance temperature while automatic white balance is on; sharpness
  comes after it. The page shows defaults everywhere.
* **A disabled control makes the reset spin** (v4l2ctl.c:176);
  `ServedUnlessSpinning` shows whom that stops.
* **A candidate after the page's own stop** (webrtc.js:236). A talk that loses
  its connection while it still gathers is stopped, but `localpc` keeps its
  handlers and the session its `recvbin` (gst-app.c:1795): a candidate gathered
  later is added to a released bin. `EverythingArrives` only asks whose bin it
  is, `SteadyTalksArePolite` leaves such losses out.
* **Each offer starts another statistics poll** (main.js:388) and the earlier
  interval is never cleared. Display only, so not in the model.

## 4. Theorems

Theorems 1 to 48 state the properties of section 3's runs, which TLC also checks
there, and some that no run lists: the invariants of the any-user specifications
(12, 29), how often a sample was pushed (17), what is under way while a liveness
property waits (16, 28, 42, 48), steps (21, 26, 27, 46), and what holds of any
user or with reused addresses (30, 35, 38). The inductive invariants were
checked as invariants of the same instances before they were proved.

`GwcServer_proofs`, for any sets of connections and pipelines and from the
single assumption that NULL is no address (`NoPipeAssumption`):

1. `TypeCorrect`. Inductive as it stands.
2. `SessionsAlwaysOwnTheirPipes`. The central invariant: live sessions' pointers
   are to pipelines of the right kind, and no two sessions share one. It is
   inductive together with the type invariant. The argument is local: a step is
   one session's (`Bystanders`: the others keep item and pipelines), and that
   session only gives up pipelines it owns and takes free ones
   (`OwnershipByOne`), so disjointness is kept.
3. `NothingIsReleasedUnderASession`: the action property, from 2.
4. `RecordingIsNeverLockedOut`: the flag's witness is either untouched, or ends
   its recording in the same step that clears the flag. It needs 2, which says
   that a session with a recording pipeline is alive.
5. `TalkIsPaired`: by what a step can do to the three talk pointers
   (`TalkMoves`).
6. `RecordingIsExclusive` (under `PoliteSpec`): a polite step is a step, so 1
   and 2 carry over; a start finds the flag clear, hence no recorder, and a stop
   comes from the only one (`RecorderMoves`).
7. `RecorderIsALock` (under `PoliteSpec`): every step maps to an `Acquire`, a
   `Release` or a stutter of `RecorderLock`, with the recording session as the
   holder.

The last four are about the appsrc list and what is left behind. The list is a
bag, so the lemmas say what one session's step adds to it and takes from it
(`OpenMoves`, `StartMoves`, `StopMoves`, `CloseMoves`):

8. `EverySessionIsFed`: a live session's sending pair stays on the list while
   others come and go. Inductive with 1 and 2, because a step removes only pairs
   at addresses its own session owns.
9. `RecordPairsAreExact` (under `PoliteSpec`): a recording pair is on the list
   once per recording session and not otherwise. A stop removes a pair at an
   address kept in `rec_avpair`; that it is the right one needs 6.
10. `NothingLeaks` (under `PoliteSpec`): every pipeline is some session's. A
    step leaves no orphan if its session had none (`NoOrphansByOne`).
11. `StalenessIsTheTimers` (under `PoliteSpec`): only a state timer's argument
    can be stale. The invariant adds that there are timers only with appsinks;
    a sample's push is to live pairs by 2, 8 and 9.

`RecordButton_proofs`, from the same assumption:

12. `PagesTypeCorrect` for careful users, `AnyPagesTypeCorrect` for any.
13. `CarefulUsersArePolite`: `CarefulSpec` implies `PoliteSpec`. The invariant
    says that a connected page is in one of four situations (`Settled`,
    `Starting`, `Stopping`, `Refused`), each of which fixes what is on its socket,
    what it believes and whether its session records. A stop is only sent from
    `Settled` with a recording, and so is read by a session that records. By
    this theorem 6, 7, 9, 10 and 11 hold of such pages.
14. `OneRecordingWithCare`, from 13 and 6.
15. `ButtonTellsTheTruth`: the `Settled` situation.
16. `NoStartIsLost`, the safety half of `ClickIsAnswered`: a click waits either
    for its start to be read or for the answer to it, never for nothing.

`AppsrcFanout_proofs`, from `IdleAssumption` (the idle value is no pair and no
sink) and `MaxSamplesAssumption` (the bound is a number), for any pairs and
sinks:

17. `FanoutTypeCorrect`, 18. `ListIsAlwaysSound`, 19. `EveryPushIsLive`. The
    inductive invariant adds to the types that the list has no element twice;
    that a pair is nobody's, running and listed, or the one main starts or stops,
    with the references each phase has (`Lifecycle`); that a thread is in the
    loop exactly while it holds the lock (`LoopIsLocked`); and that no pair was
    pushed more samples than were pulled, and a listed pair a thread has not come
    to yet one less (`NoSampleTwice`, which 17 states too). A pipeline may be
    taken down while a thread is in its loop; the pair's own reference outlasts
    the pair's place on the list, and that is what makes 19 true.
20. `FanoutIsAMulticast`: `Spec` implements `Multicast`. All steps of a loop but
    the last are stutters; the unlock is `Publish` to what the list was when the
    loop took the lock, which is what it is now, as the list is locked.
21. `TheHolderGoesOn`: the action property behind the deadlock check. Whoever has
    the lock can only be moved by its own steps, and these lead it past one pair
    at a time of a list that stays as it is, to the unlock.

`TalkSignalling_proofs`, from `MaxTalkAssumption`, `MaxIceAssumption` and
`MaxUnreadAssumption` (the bounds are natural numbers), so for any numbers of
talks, candidates and unread messages. Under `PatientSpec`, in which the page
also stops a talk of itself whenever its connection is lost:

22. `TalkTypeCorrect`, 23. `PatientTalksArrive`, 24. `TalksOneAtATime`,
    25. `TalkEndsAgree`. The properties say nothing of the queues and cannot be
    inductive. `PatientInv` adds what a message on its way implies: only the
    page's connection of the moment has anything left to do (`OthersRest`), what
    is on its way to the page is about it (`ToPageOrder`), an offer has only
    stops before it and neither a stop nor an offer behind it, and candidates
    are behind the offer unless `recvbin` names their talk already
    (`ToServerOrder`). From the choice until the offer is read everything else
    is done but for such stops (`Starting`), and then the offer, the bin or the
    answer is under way with no stop to be read before the page has the answer
    (`AnswerWay`): a connection is lost only after it was there.
26. `PatientOffersArePolite`: an offer is read when there is no receive
    pipeline, so a patient page never overwrites one (soup.c:355).
27. `SteadyTalksArePolite`, under `SteadySpec`, in which no talk loses its
    connection: the talk half of what `PoliteSpec` of `GwcServer` assumes of its
    clients. Besides 26, candidates are read when `recvbin` and `recvpipe` name
    the same talk. A stop the page sends of itself while the talk gathers breaks
    this half (see the divergences in section 3), so it is not claimed of
    `PatientSpec`. `GwcServer` has one step for making and answering a talk and
    so no common state with this module; the theorem discharges the assumption,
    it is not a refinement. `StopGuard` adds that a talk whose stop has been
    sent or read is done with, or the next one is begun and its offer in front
    of every candidate.
28. `NoTalkIsLost`, of `PatientSpec`, the safety half of `TalksAreAnswered`: an
    offered talk has its offer, its bin or its answer under way.

and under `Spec`, for a user who chooses while anything is pending:

29. `PointersNameWhatWasMade`. Pointers and messages on their way are of
    connections the page has made (`MadeSoFar`, stated next to `TypeOK`).
30. `TheWatchGetsNothingForeign`. `talk_any` shows that such a user's messages
    go astray; this says that they go to talks, never to the watch. The
    descriptions that could are given to `localpc` or `recvbin`, which are not
    the watch once there is a talk; a candidate would have to be read while
    `recvbin` is NULL, and until the first offer is read every candidate of a
    talk is behind one (`FirstOffer`). Which talk they go to is not claimed: an
    offer that resolves late is sent behind a later one.

`OnlineUsers_proofs`, from `NoPageAssumption` (nobody is no page) and
`MaxRowsAssumption` (the bound is a number), for any pages and addresses:

31. `UsersTypeCorrect`, of `Spec`: with reused addresses too.
32. `TheListIsTrue`, 33. `ThePagesAreCurrent`, 34. `ClosedRowsStayFinal`, of
    `FreshSpec`, in which no address comes back (`online_reused` shows what
    happens when one does). `FreshInv` says that pages and sessions correspond
    one to one (`OneSession`); that the addresses in the log have been given
    out, so that a fresh one has no row and opening leaves the list as it was
    (`LiveRows`); and that the row of a session that lives is its page's only
    announcement and not outdated (`OneRow`). The live rows of a user are then
    one or none, which is what the query returns.
35. `NobodyIsLeftOut`, of `Spec`: what is left of 32 when addresses come back. A
    user who is announced is listed; only the converse fails in `online_reused`.
    An address is free before it is reused, so no step takes it from the row of
    a page that is announced (`AnnouncedHaveRows`).

`UserCtrls_proofs`, from `CtrlAssumption` (what VIDIOC_QUERYCTRL says of a
control is in order) and `MaxMovesAssumption` (the bound is a number), for any
pages and controls:

36. `CtrlsTypeCorrect`, 37. `TheLastWriterSees`. A slider is ahead of the device
    while its message is on the way, so `LastWriterSees` says nothing of most
    states. The invariant follows the last word a page had on a control: the
    last message in the queue that concerns it was sent from where the slider
    stands (`LastTells`); if there is none, a reset in progress that has not
    come past the control was (`ResetTells`); if there is neither, the device
    has it, if the page's was the last message to set it (`DeviceTells`). That a
    signed slider's move is excepted is where the proof needs it: what it sends
    is not what it shows.
38. `SignedSlidersOvershoot`: how far off that is, for every range. An unsigned
    slider sends its value, a signed one always more than it, and at a symmetric
    range the maximum or more from every position (the finding in section 3).

`WatchPage_proofs`, from the assumptions that the three bounds are natural
numbers; so the results hold for any numbers of connections, lost sockets and
candidates:

39. `WatchTypeCorrect`, 40. `NeverStranded`, 41. `OldCandidatesAlone`. A lost
    socket is replaced by a timer and a timer that fires by a socket
    (`CountInv`: exactly one of them and, if it is a socket, the last
    connection's, or at most two of both once the first try has failed). From
    this the handlers that go through the globals follow (`OrderInv`): a promise
    chain that is not idle is the last connection's and any timer waits for it
    (`Pending`, which is where the five seconds of the timer are needed), and a
    session's offer is in one place (`Once`): on its way, in the chain, or
    answered with the answer on its way or read.
42. `NoWatchIsLost`, the safety half of `WatchIsRestored`: a page that does not
    watch has a timer, a lost socket it will be told of, or a step of its
    connection under way. `AnswerInv` adds to 39-41 how far the last connection
    is with the offer of its own session.

`VoiceUpload_proofs`, from `SizesAssumption` (sizes are numbers, announcement
and chunk are not empty), for any of them. Under `Spec`, so for any user:

43. `UploadTypeCorrect`, 44. `ReceivedNeverExceedsSize`,
    45. `FileIsOpenWhileFilling`. What the session will have received of a file
    depends on all messages before the next announcement, so the invariant
    carries a running account along the channel (`AheadBy`: what the session
    will have of the file of the moment after each message on its way), which
    starts at what it has now and never goes beyond the size announced. That
    `onload` extends it correctly is what the loop must satisfy: its slices are
    what `bufferedAmount` grew by, and end at the blob's end or before.
46. `VoicesAreSentWholeIfDrained`, an action property of `onload`: the slices
    are the whole voice exactly when the channel's buffer is empty by then and
    the voice is larger than the buffer was after its announcement. Behind a
    buffer that is not empty a voice loses its first bytes, whatever its size,
    or all of them; one that is not larger is not sent at all.

and under `PatientSpec`:

47. `VoicesAreHeardInOrder`. One voice at a time is in the channel
    (`ChannelOrder`), so the name a pool thread reads when it runs is the one it
    was asked for, and what has been played is older (`PlayOrder`).
48. `WholeVoicesAreOnTheirWay`, the safety half of `WholeVoiceIsHeard`.

The loop is recursive, and the library's theorems about induction and recursive
functions take operators, which the provers here cannot instantiate. The module
therefore begins with the same facts for sets and functions (`LeastNumber`,
`Induction`, `IteratesExist` and what follows from them), from the one
well-foundedness theorem that needs no operator. Induction can so be used where
a property is given by a set, which sufficed for the loop.

Only model-checked: the five liveness properties (`ClickIsAnswered`,
`TalksAreAnswered`, `WholeVoiceIsHeard`, `WatchIsRestored`,
`ServedUnlessSpinning`). Fairness is beyond the prover. Of the first four the
safety half is proved (16, 28, 48, 42): while the property waits, a step that
brings it on is under way. That such steps are taken, and finitely many of them
suffice, is what TLC adds.

## 5. Environment assumptions

* Web sockets and data channels keep the order of what they carry; a broken
  socket loses what was on its way in both directions.
* The page and session of `TalkSignalling` keep their web socket; `createOffer`
  succeeds.
* A send on the web socket is atomic, also from a webrtcbin's thread.
* SQLite statements and file writes succeed.
* GStreamer elements are black boxes: an offer is created once, an answer after
  it was asked for, candidates after a local description.
* A description is applied, and its promise settled, within the five seconds of
  a reconnect timer set after it was asked for.
* A device's controls stay of their kind during a behaviour, and the device can
  be opened.
* Careful, polite, patient: as said for each specification. webrtc.js does most
  of it; the counterexamples are where it does not.

## 6. Plan

Modelled first: the session table, because all else hangs on it; then what
runs beside it; then the second server with its page. What is left, in order:

1. `HttpServer`: do_get, soup_http_handler and the client limit against the
   session table (hazard at soup.c:803).
2. `RtspBridge`: rtspsrc-webrtc's table, one pipeline per RTSP login, and the
   page's navigation.
3. The motion recorder as a user of `AppsrcFanout`'s list, with its two locks,
   marked as compiled but not started.

Proofs still worth having: for the liveness properties, measures that the fair
steps decrease and no other step increases, as action properties, which with 16,
28, 42 and 48 leaves only the use of fairness itself to TLC; and for the any-user
specification of `VoiceUpload` what of 47 remains when voices overlap.

Not planned: pipeline construction and configuration (run once, before the main
loop), display code in the pages, vendored scripts.
