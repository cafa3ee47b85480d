---------------------------- MODULE AppsrcFanout ----------------------------
(***************************************************************************)
(* How samples get from the camera's appsinks into the pipelines of the    *)
(* sessions and recordings of gwc, in app_sink mode (gst-app.c).  The main *)
(* loop adds and removes AppSrcAVPairs; each appsink's streaming thread    *)
(* pushes into every pair of G_AppsrcList.  All of them share              *)
(* G_appsrc_lock.                                                          *)
(***************************************************************************)
EXTENDS Naturals, Sequences, SequencesExt

CONSTANTS Pair,       \* AppSrcAVPairs: two in each item, send and record
          Sink,       \* the appsinks: one of video, one of audio
          Idle,       \* no pair
          MaxSamples  \* bound on the samples each sink pulls

ASSUME IdleAssumption == Idle \notin Pair \cup Sink
ASSUME MaxSamplesAssumption == MaxSamples \in Nat

VARIABLES
    list,    \* G_AppsrcList
    lock,    \* the streaming thread holding G_appsrc_lock, or Idle
    refs,    \* references to a pair's appsrcs: its pipeline's, the pair's own
    main,    \* the pair the main loop is busy with, and its next step
    sink,    \* each streaming thread: what it does, the list item it is at
    pulled,  \* samples each sink has pulled
    pushed   \* samples of each sink pushed to a pair since it was listed

vars == <<list, lock, refs, main, sink, pulled, pushed>>

\* A pair's appsrcs have at most the pipeline's reference and the pair's own,
\* and neither is dropped twice.
TypeOK ==
    /\ list \in Seq(Pair)
    /\ lock \in Sink \cup {Idle}
    /\ refs \in [Pair -> 0..2]
    /\ main \in [pair : Pair \cup {Idle}, step : {"any", "append", "remove", "unref"}]
    /\ sink \in [Sink -> [step : {"pull", "lock", "push"}, at : Nat]]
    /\ pulled \in [Sink -> 0..MaxSamples]
    /\ pushed \in [Pair -> [Sink -> 0..MaxSamples]]

Resting == [pair |-> Idle, step |-> "any"]

Init ==
    /\ list = <<>>
    /\ lock = Idle
    /\ refs = [p \in Pair |-> 0]
    /\ main = Resting
    /\ sink = [s \in Sink |-> [step |-> "pull", at |-> 1]]
    /\ pulled = [s \in Sink |-> 0]
    /\ pushed = [p \in Pair |-> [s \in Sink |-> 0]]
-----------------------------------------------------------------------------
\* g_list_remove: the first occurrence goes, if there is one.
g_list_remove(l, p) ==
    IF p \in ToSet(l)
    THEN RemoveAt(l, CHOOSE i \in DOMAIN l : l[i] = p /\ \A j \in 1..(i - 1) : l[j] # p)
    ELSE l

(* The main loop: one callback at a time. *)

\* gst_parse_launch makes the appsrcs, gst_bin_get_by_name takes the pair's
\* own reference to them.
Launch(p) ==
    /\ main = Resting
    /\ refs[p] = 0
    /\ refs' = [refs EXCEPT ![p] = 2]
    /\ main' = [pair |-> p, step |-> "append"]
    /\ UNCHANGED <<list, lock, sink, pulled, pushed>>

\* lock, g_list_append, unlock: the end of starting a session or a recording.
AppendPair ==
    /\ main.step = "append"
    /\ lock = Idle
    /\ list' = Append(list, main.pair)
    /\ pushed' = [pushed EXCEPT ![main.pair] = [s \in Sink |-> 0]]
    /\ main' = Resting
    /\ UNCHANGED <<lock, refs, sink, pulled>>

\* Mutant: the pair's own references go before it leaves the list.
TakeDownAndUnref(p) ==
    /\ main = Resting
    /\ refs[p] = 2
    /\ refs' = [refs EXCEPT ![p] = 0]
    /\ main' = [pair |-> p, step |-> "remove"]
    /\ UNCHANGED <<list, lock, sink, pulled, pushed>>

\* stop_appsrc_webrtc and appsrc_cmd_rec_stop begin by taking the pipeline
\* down, while the pair is still listed.
TakeDown(p) ==
    /\ main = Resting
    /\ refs[p] = 2
    /\ refs' = [refs EXCEPT ![p] = 1]
    /\ main' = [pair |-> p, step |-> "remove"]
    /\ UNCHANGED <<list, lock, sink, pulled, pushed>>

\* Mutant: the removal does not take the lock.
RemoveUnlocked ==
    /\ main.step = "remove"
    /\ list' = g_list_remove(list, main.pair)
    /\ main' = [main EXCEPT !.step = "unref"]
    /\ UNCHANGED <<lock, refs, sink, pulled, pushed>>

\* lock, g_list_remove, unlock.
RemovePair ==
    /\ main.step = "remove"
    /\ lock = Idle
    /\ list' = g_list_remove(list, main.pair)
    /\ main' = [main EXCEPT !.step = "unref"]
    /\ UNCHANGED <<lock, refs, sink, pulled, pushed>>

\* Mutant: the reference of the pipeline that is gone is dropped once more.
UnrefTwice ==
    /\ main.step = "unref"
    /\ refs' = [refs EXCEPT ![main.pair] = @ - 2]
    /\ main' = Resting
    /\ UNCHANGED <<list, lock, sink, pulled, pushed>>

\* gst_object_unref of the pair's appsrcs.
UnrefPair ==
    /\ main.step = "unref"
    /\ refs' = [refs EXCEPT ![main.pair] = @ - 1]
    /\ main' = Resting
    /\ UNCHANGED <<list, lock, sink, pulled, pushed>>
-----------------------------------------------------------------------------
(* on_new_sample_from_sink, in the streaming thread of one appsink. *)

PullSample(s) ==
    /\ sink[s].step = "pull"
    /\ pulled[s] < MaxSamples
    /\ pulled' = [pulled EXCEPT ![s] = @ + 1]
    /\ sink' = [sink EXCEPT ![s].step = "lock"]
    /\ UNCHANGED <<list, lock, refs, main, pushed>>

LockList(s) ==
    /\ sink[s].step = "lock"
    /\ lock = Idle
    /\ lock' = s
    /\ sink' = [sink EXCEPT ![s] = [step |-> "push", at |-> 1]]
    /\ UNCHANGED <<list, refs, main, pulled, pushed>>

\* One turn of the loop over the list: the push-buffer signal of one appsrc.
PushBuffer(s) ==
    /\ sink[s].step = "push"
    /\ sink[s].at <= Len(list)
    /\ pushed' = [pushed EXCEPT ![list[sink[s].at]][s] = @ + 1]
    /\ sink' = [sink EXCEPT ![s].at = @ + 1]
    /\ UNCHANGED <<list, lock, refs, main, pulled>>

UnlockList(s) ==
    /\ sink[s].step = "push"
    /\ sink[s].at > Len(list)
    /\ lock' = Idle
    /\ sink' = [sink EXCEPT ![s] = [step |-> "pull", at |-> 1]]
    /\ UNCHANGED <<list, refs, main, pulled, pushed>>

MainStep ==
    \/ \E p \in Pair : Launch(p) \/ TakeDown(p)
    \/ AppendPair
    \/ RemovePair
    \/ UnrefPair

SinkStep(s) == PullSample(s) \/ LockList(s) \/ PushBuffer(s) \/ UnlockList(s)

Next == MainStep \/ \E s \in Sink : SinkStep(s)

Spec == Init /\ [][Next]_vars
-----------------------------------------------------------------------------
\* A streaming thread pushes only into appsrcs somebody has a reference to,
\* although the main loop takes pipelines down without asking it
\* (gst-app.c 2464-2468 against 2076-2089).
PushesAreLive ==
    \A s \in Sink : sink[s].step = "push" /\ sink[s].at <= Len(list) =>
        refs[list[sink[s].at]] > 0

\* The list names a session at most once and never one that is gone.
ListIsSound ==
    /\ IsInjective(list)
    /\ \A i \in DOMAIN list : refs[list[i]] > 0

\* The loop under the lock is a multicast.  While a thread is in the loop the
\* receivers it has served already do not count the sample yet.
Served(p, s) ==
    sink[s].step = "push" /\ \E i \in 1..(sink[s].at - 1) : i <= Len(list) /\ list[i] = p

Atomic ==
    INSTANCE Multicast WITH
        Receiver <- Pair, Source <- Sink, member <- ToSet(list),
        got <- [p \in Pair |-> [s \in Sink |->
                  IF Served(p, s) THEN pushed[p][s] - 1 ELSE pushed[p][s]]]

\* Each listed pair gets each sample of each sink exactly once between its
\* append and its removal, whatever is added or removed meanwhile.
ImplementsMulticast == Atomic!Spec
=============================================================================
