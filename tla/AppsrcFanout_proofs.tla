------------------------- MODULE AppsrcFanout_proofs -------------------------
(***************************************************************************)
(* Proofs about AppsrcFanout for any numbers of pairs, sinks and samples:  *)
(* the lock protects the list, the list protects the references, and the   *)
(* loop under the lock is one multicast.                                   *)
(***************************************************************************)
EXTENDS AppsrcFanout, TLAPS

\* g_list_append adds a pair behind the others.
LEMMA AppendIsJoin ==
    ASSUME NEW l \in Seq(Pair), NEW p \in Pair, IsInjective(l), p \notin ToSet(l)
    PROVE  /\ Append(l, p) \in Seq(Pair)
           /\ IsInjective(Append(l, p))
           /\ ToSet(Append(l, p)) = ToSet(l) \cup {p}
<1>1. /\ Append(l, p) \in Seq(Pair)
      /\ DOMAIN Append(l, p) = 1..(Len(l) + 1)
      /\ Append(l, p)[Len(l) + 1] = p
      /\ \A i \in 1..Len(l) : Append(l, p)[i] = l[i]
      /\ DOMAIN l = 1..Len(l) /\ Len(l) \in Nat
  OBVIOUS
<1>2. 1..(Len(l) + 1) = 1..Len(l) \cup {Len(l) + 1}
  BY <1>1
<1>3. ToSet(Append(l, p)) = ToSet(l) \cup {p}
  BY <1>1, <1>2 DEF ToSet
<1>4. \A i \in 1..Len(l) : l[i] # p
  BY <1>1 DEF ToSet
<1>5. IsInjective(Append(l, p))
  BY <1>1, <1>2, <1>4 DEF IsInjective
<1> QED BY <1>1, <1>3, <1>5

\* g_list_remove takes a pair that is listed once out and keeps the others.
LEMMA RemoveIsLeave ==
    ASSUME NEW l \in Seq(Pair), NEW p \in Pair, IsInjective(l), p \in ToSet(l)
    PROVE  /\ g_list_remove(l, p) \in Seq(Pair)
           /\ IsInjective(g_list_remove(l, p))
           /\ ToSet(g_list_remove(l, p)) = ToSet(l) \ {p}
<1>1. DOMAIN l = 1..Len(l) /\ Len(l) \in Nat
  OBVIOUS
<1>2. PICK k \in 1..Len(l) : l[k] = p
  BY <1>1 DEF ToSet
<1>3. \A i \in 1..Len(l) : l[i] = p => i = k
  BY <1>1, <1>2 DEF IsInjective
<1>4. l[k] = p /\ \A j \in 1..(k - 1) : l[j] # p
  BY <1>1, <1>2, <1>3
<1>5. (CHOOSE i \in DOMAIN l : l[i] = p /\ \A j \in 1..(i - 1) : l[j] # p) = k
  BY <1>1, <1>3, <1>4
<1> DEFINE front == SubSeq(l, 1, k - 1)
           back  == SubSeq(l, k + 1, Len(l))
           r     == front \o back
<1>6. g_list_remove(l, p) = r
  BY <1>5 DEF g_list_remove, RemoveAt
<1>7. /\ front \in Seq(Pair) /\ Len(front) = k - 1
      /\ \A i \in 1..(k - 1) : front[i] = l[i]
  OBVIOUS
<1>8. /\ back \in Seq(Pair) /\ Len(back) = Len(l) - k
      /\ \A i \in 1..(Len(l) - k) : back[i] = l[k + i]
  OBVIOUS
<1> HIDE DEF front, back
<1>9. /\ r \in Seq(Pair) /\ Len(r) = Len(l) - 1 /\ DOMAIN r = 1..(Len(l) - 1)
      /\ \A i \in 1..(Len(l) - 1) : /\ i < k => r[i] = l[i]
                                    /\ i >= k => r[i] = l[i + 1]
  <2>1. r \in Seq(Pair) /\ Len(r) = Len(l) - 1
    <3>0. front \in Seq(Pair) /\ back \in Seq(Pair)
      BY <1>7, <1>8
    <3>1. r \in Seq(Pair) /\ Len(r) = Len(front) + Len(back)
      BY <3>0
    <3>2. (k - 1) + (Len(l) - k) = Len(l) - 1
      BY <1>1
    <3> QED BY <1>7, <1>8, <3>1, <3>2
  <2>2. ASSUME NEW i \in 1..(Len(l) - 1), i < k PROVE r[i] = l[i]
    <3>1. i \in 1..Len(front)
      BY <1>1, <1>7, <2>2
    <3>2. r[i] = front[i]
      BY <1>7, <1>8, <3>1
    <3> QED BY <1>1, <1>7, <2>2, <3>2
  <2>3. ASSUME NEW i \in 1..(Len(l) - 1), i >= k PROVE r[i] = l[i + 1]
    <3>1. i - (k - 1) \in 1..Len(back) /\ i \in (Len(front) + 1)..(Len(front) + Len(back))
      BY <1>1, <1>7, <1>8, <2>3
    <3>2. r[i] = back[i - (k - 1)]
      BY <1>7, <1>8, <3>1
    <3>3. k + (i - (k - 1)) = i + 1
      BY <1>1, <2>3
    <3> QED BY <1>8, <3>1, <3>2, <3>3
  <2> QED BY <2>1, <2>2, <2>3
<1> HIDE DEF r
<1>10. IsInjective(r)
  <2> SUFFICES ASSUME NEW i \in 1..(Len(l) - 1), NEW j \in 1..(Len(l) - 1), r[i] = r[j]
               PROVE  i = j
    BY <1>9 DEF IsInjective
  <2> DEFINE From(m) == IF m < k THEN m ELSE m + 1
  <2>1. /\ From(i) \in 1..Len(l) /\ r[i] = l[From(i)]
        /\ From(j) \in 1..Len(l) /\ r[j] = l[From(j)]
    BY <1>1, <1>9
  <2>2. From(i) = From(j)
    BY <1>1, <2>1 DEF IsInjective
  <2> QED BY <1>1, <2>2
<1>11. ToSet(r) = ToSet(l) \ {p}
  <2>1. ASSUME NEW i \in 1..(Len(l) - 1) PROVE r[i] \in ToSet(l) \ {p}
    <3>1. \E j \in 1..Len(l) : j # k /\ r[i] = l[j]
      BY <1>1, <1>9
    <3> QED BY <1>1, <1>3, <3>1 DEF ToSet
  <2>2. ASSUME NEW i \in 1..Len(l), l[i] # p
        PROVE  \E j \in 1..(Len(l) - 1) : r[j] = l[i]
    <3>1. CASE i < k
      BY <1>9, <3>1
    <3>2. CASE i > k
      <4>1. i - 1 \in 1..(Len(l) - 1) /\ r[i - 1] = l[i]
        BY <1>9, <3>2
      <4> QED BY <4>1
    <3> QED BY <1>4, <2>2, <3>1, <3>2
  <2>3. /\ \A x \in ToSet(r) : \E i \in 1..(Len(l) - 1) : x = r[i]
        /\ \A i \in 1..(Len(l) - 1) : r[i] \in ToSet(r)
        /\ \A x \in ToSet(l) : \E i \in 1..Len(l) : x = l[i]
    BY <1>1, <1>9 DEF ToSet
  <2>4. ToSet(r) \subseteq ToSet(l) \ {p}
    BY <2>1, <2>3
  <2>5. ToSet(l) \ {p} \subseteq ToSet(r)
    BY <2>2, <2>3
  <2> QED BY <2>4, <2>5
<1> QED BY <1>6, <1>9, <1>10, <1>11
-----------------------------------------------------------------------------
(***************************************************************************)
(* The inductive invariant.                                                *)
(***************************************************************************)
Steps == {"append", "remove", "unref"}

\* The main loop is at rest or busy with one pair.
MainIsBusy ==
    \/ main = Resting
    \/ main.pair \in Pair /\ main.step \in Steps

\* Where in its life a pair is: nobody's, running and listed, or the one the
\* main loop is starting or stopping.
Lifecycle ==
    \A p \in Pair :
        /\ main.pair # p => \/ refs[p] = 0 /\ p \notin ToSet(list)
                            \/ refs[p] = 2 /\ p \in ToSet(list)
        /\ main.pair = p => \/ main.step = "append" /\ refs[p] = 2 /\ p \notin ToSet(list)
                            \/ main.step = "remove" /\ refs[p] = 1 /\ p \in ToSet(list)
                            \/ main.step = "unref"  /\ refs[p] = 1 /\ p \notin ToSet(list)

\* A streaming thread is in the loop exactly while it holds the lock, and at a
\* place of the list or behind it.
LoopIsLocked ==
    \A s \in Sink : (sink[s].step = "push" <=> lock = s) /\ sink[s].at > 0

\* A sample that was pulled was pushed to no pair twice: a listed pair that a
\* thread has not come to yet has had one sample less than were pulled.
NoSampleTwice ==
    \A s \in Sink :
        /\ \A p \in Pair : pushed[p][s] <= pulled[s]
        /\ sink[s].step = "lock" => pulled[s] > 0 /\ \A p \in Pair : pushed[p][s] < pulled[s]
        /\ sink[s].step = "push" =>
              \A i \in DOMAIN list : i >= sink[s].at => pushed[list[i]][s] < pulled[s]

Inv ==
    /\ TypeOK
    /\ IsInjective(list)
    /\ MainIsBusy
    /\ Lifecycle
    /\ LoopIsLocked
    /\ NoSampleTwice
-----------------------------------------------------------------------------
\* The types of the parts of a state that satisfies TypeOK.
LEMMA Types ==
    ASSUME TypeOK
    PROVE  /\ list \in Seq(Pair) /\ DOMAIN list = 1..Len(list) /\ Len(list) \in Nat
           /\ \A i \in 1..Len(list) : list[i] \in Pair
           /\ \A p \in Pair : refs[p] \in 0..2
           /\ \A s \in Sink : /\ sink[s] \in [step : {"pull", "lock", "push"}, at : Nat]
                              /\ pulled[s] \in Nat /\ pulled[s] <= MaxSamples
           /\ \A p \in Pair, s \in Sink : pushed[p][s] \in Nat /\ pushed[p][s] <= MaxSamples
  BY MaxSamplesAssumption DEF TypeOK

\* At first nothing is listed and nobody holds the lock.
LEMMA InitInv == Init => Inv
  BY IdleAssumption, MaxSamplesAssumption
     DEF Init, Inv, TypeOK, IsInjective, MainIsBusy, Lifecycle, LoopIsLocked, NoSampleTwice,
         Resting, ToSet

(***************************************************************************)
(* One lemma for each step.                                                *)
(***************************************************************************)
\* Starting and stopping begin with the references; the list is not touched.
LEMMA LaunchInv ==
    ASSUME Inv, NEW p \in Pair, Launch(p) \/ TakeDown(p)
    PROVE  Inv'
<1> /\ p # Idle /\ p \in Pair /\ main = Resting
    /\ UNCHANGED <<list, lock, sink, pulled, pushed>>
  BY IdleAssumption DEF Launch, TakeDown
<1>1. TypeOK'
  <2>1. refs' \in [Pair -> 0..2]
    <3>1. \E n \in 0..2 : refs' = [refs EXCEPT ![p] = n]
      BY DEF Launch, TakeDown
    <3>2. refs \in [Pair -> 0..2]
      BY DEF TypeOK, Inv
    <3> QED BY <3>1, <3>2
  <2>2. \/ main' = [pair |-> p, step |-> "append"]
        \/ main' = [pair |-> p, step |-> "remove"]
    BY DEF Launch, TakeDown
  <2>3. main' \in [pair : Pair \cup {Idle}, step : {"any", "append", "remove", "unref"}]
    BY <2>2
  <2> QED BY <2>1, <2>3 DEF TypeOK, Inv
<1>2. MainIsBusy'
  BY DEF Launch, TakeDown, MainIsBusy, Steps
<1>3. Lifecycle'
  BY DEF Launch, TakeDown, Lifecycle, Resting, Inv, TypeOK
<1> QED BY <1>1, <1>2, <1>3 DEF Inv, LoopIsLocked, NoSampleTwice

\* The last references go when the pair is unlisted already.
LEMMA UnrefInv == ASSUME Inv, UnrefPair PROVE Inv'
<1> main.pair \in Pair /\ main.pair # Idle
  BY IdleAssumption DEF UnrefPair, Inv, MainIsBusy, Resting
<1>1. TypeOK'
  BY DEF UnrefPair, TypeOK, Inv, Resting, Lifecycle
<1>2. MainIsBusy'
  BY DEF UnrefPair, MainIsBusy
<1>3. Lifecycle'
  BY IdleAssumption DEF UnrefPair, Lifecycle, Resting, Inv, TypeOK
<1> QED BY <1>1, <1>2, <1>3 DEF Inv, LoopIsLocked, NoSampleTwice, UnrefPair

\* A pair is listed, with its counts reset, while no thread is in the loop.
LEMMA AppendInv == ASSUME Inv, AppendPair PROVE Inv'
<1> main.pair \in Pair /\ main.pair # Idle /\ main.pair \notin ToSet(list)
  BY IdleAssumption DEF AppendPair, Inv, MainIsBusy, Resting, Lifecycle
<1>0. /\ list' \in Seq(Pair) /\ IsInjective(list') /\ ToSet(list') = ToSet(list) \cup {main.pair}
  BY AppendIsJoin DEF AppendPair, Inv, TypeOK
<1>1. TypeOK'
  BY <1>0, MaxSamplesAssumption DEF AppendPair, TypeOK, Inv, Resting
<1>2. MainIsBusy'
  BY DEF AppendPair, MainIsBusy
<1>3. Lifecycle'
  BY <1>0, IdleAssumption DEF AppendPair, Lifecycle, Resting, Inv
<1>4. LoopIsLocked' /\ \A s \in Sink : sink'[s].step # "push"
  BY IdleAssumption DEF AppendPair, LoopIsLocked, Inv
<1>5. NoSampleTwice'
  <2>1. \A q \in Pair, s \in Sink : pushed'[q][s] = IF q = main.pair THEN 0 ELSE pushed[q][s]
    BY DEF AppendPair, Inv, TypeOK
  <2> QED BY <1>4, <2>1, Types DEF NoSampleTwice, AppendPair, Inv
<1> QED BY <1>0, <1>1, <1>2, <1>3, <1>4, <1>5 DEF Inv

\* A pair is unlisted while no thread is in the loop.
LEMMA RemoveInv == ASSUME Inv, RemovePair PROVE Inv'
<1> main.pair \in Pair /\ main.pair # Idle /\ main.pair \in ToSet(list)
  BY IdleAssumption DEF RemovePair, Inv, MainIsBusy, Resting, Lifecycle
<1>0. /\ list' \in Seq(Pair) /\ IsInjective(list') /\ ToSet(list') = ToSet(list) \ {main.pair}
  BY RemoveIsLeave DEF RemovePair, Inv, TypeOK
<1>1. TypeOK'
  BY <1>0 DEF RemovePair, TypeOK, Inv
<1>2. MainIsBusy' /\ main'.pair = main.pair /\ main'.step = "unref"
  BY DEF RemovePair, MainIsBusy, Steps, Inv, TypeOK
<1>3. Lifecycle'
  BY <1>0, <1>2 DEF RemovePair, Lifecycle, Inv
<1>4. LoopIsLocked' /\ \A s \in Sink : sink'[s].step # "push"
  BY IdleAssumption DEF RemovePair, LoopIsLocked, Inv
<1>5. NoSampleTwice'
  BY <1>4 DEF NoSampleTwice, RemovePair, Inv
<1> QED BY <1>0, <1>1, <1>2, <1>3, <1>4, <1>5 DEF Inv

\* A pulled sample is one more than any pair has had.
LEMMA PullInv == ASSUME Inv, NEW s \in Sink, PullSample(s) PROVE Inv'
<1>1. TypeOK'
  <2>1. pulled' \in [Sink -> 0..MaxSamples]
    BY MaxSamplesAssumption DEF PullSample, TypeOK, Inv
  <2>2. sink' \in [Sink -> [step : {"pull", "lock", "push"}, at : Nat]]
    <3>1. [sink[s] EXCEPT !.step = "lock"] \in [step : {"pull", "lock", "push"}, at : Nat]
      BY DEF TypeOK, Inv
    <3> QED BY <3>1 DEF PullSample, TypeOK, Inv
  <2> QED BY <2>1, <2>2 DEF PullSample, TypeOK, Inv
<1>2. /\ sink'[s].step = "lock" /\ pulled'[s] = pulled[s] + 1
      /\ \A t \in Sink \ {s} : sink'[t] = sink[t] /\ pulled'[t] = pulled[t]
  BY DEF PullSample, TypeOK, Inv
<1>3. LoopIsLocked'
  BY <1>2 DEF PullSample, LoopIsLocked, Inv
<1>4. NoSampleTwice'
  BY <1>2, Types DEF NoSampleTwice, PullSample, Inv
<1> QED BY <1>1, <1>3, <1>4 DEF Inv, PullSample, MainIsBusy, Lifecycle

\* A thread enters the loop at its start, when nobody else is in it.
LEMMA LockInv == ASSUME Inv, NEW s \in Sink, LockList(s) PROVE Inv'
<1>1. sink' \in [Sink -> [step : {"pull", "lock", "push"}, at : Nat]]
  BY DEF LockList, TypeOK, Inv
<1>2. /\ sink'[s].step = "push" /\ sink'[s].at = 1 /\ lock' = s /\ lock = Idle
      /\ \A t \in Sink \ {s} : sink'[t] = sink[t]
      /\ UNCHANGED <<list, refs, main, pulled, pushed>>
  BY DEF LockList, TypeOK, Inv
<1>3. TypeOK'
  BY <1>1, <1>2 DEF TypeOK, Inv
<1>4. LoopIsLocked'
  BY <1>2, IdleAssumption DEF LoopIsLocked, Inv
<1>5. NoSampleTwice'
  BY <1>2, Types DEF LockList, NoSampleTwice, Inv
<1> QED BY <1>2, <1>3, <1>4, <1>5 DEF Inv, MainIsBusy, Lifecycle

\* A push gives a listed pair the one sample it lacks.
LEMMA PushInv == ASSUME Inv, NEW s \in Sink, PushBuffer(s) PROVE Inv'
<1> DEFINE at == sink[s].at
           p  == list[at]
<1>1. /\ sink[s].step = "push" /\ at \in 1..Len(list) /\ p \in Pair
      /\ sink'[s].step = "push" /\ sink'[s].at = at + 1
      /\ \A t \in Sink \ {s} : sink'[t] = sink[t]
      /\ sink' \in [Sink -> [step : {"pull", "lock", "push"}, at : Nat]]
      /\ UNCHANGED <<list, lock, refs, main, pulled>>
  <2>1. [sink[s] EXCEPT !.at = @ + 1] \in [step : {"pull", "lock", "push"}, at : Nat]
    <3>1. sink[s] \in [step : {"pull", "lock", "push"}, at : Nat]
      BY DEF TypeOK, Inv
    <3>2. sink[s].at + 1 \in Nat
      BY <3>1
    <3> QED BY <3>1, <3>2
  <2>2. at \in 1..Len(list) /\ p \in Pair
    <3>1. at \in Nat /\ at > 0
      BY DEF Inv, TypeOK, LoopIsLocked
    <3>2. at <= Len(list)
      BY DEF PushBuffer
    <3>3. Len(list) \in Nat /\ \A i \in 1..Len(list) : list[i] \in Pair
      BY Types DEF Inv
    <3> QED BY <3>1, <3>2, <3>3
  <2> QED BY <2>1, <2>2 DEF PushBuffer, TypeOK, Inv
<1>2. pushed[p][s] < pulled[s] /\ pushed[p][s] + 1 \in 0..MaxSamples
  <2>1. /\ pushed[p][s] \in Nat /\ pulled[s] \in Nat /\ pulled[s] <= MaxSamples
        /\ DOMAIN list = 1..Len(list)
    BY <1>1, Types DEF Inv
  <2>2. at >= at
    BY <1>1
  <2>3. pushed[p][s] < pulled[s]
    BY <1>1, <2>1, <2>2 DEF Inv, NoSampleTwice
  <2> QED BY <2>1, <2>3, MaxSamplesAssumption
<1>3. /\ pushed' \in [Pair -> [Sink -> 0..MaxSamples]]
      /\ pushed'[p][s] = pushed[p][s] + 1
      /\ \A q \in Pair, t \in Sink : q # p \/ t # s => pushed'[q][t] = pushed[q][t]
  <2>1. pushed' = [pushed EXCEPT ![p][s] = @ + 1]
    BY DEF PushBuffer
  <2>2. [pushed[p] EXCEPT ![s] = @ + 1] \in [Sink -> 0..MaxSamples]
    BY <1>1, <1>2 DEF TypeOK, Inv
  <2> QED BY <1>1, <2>1, <2>2 DEF TypeOK, Inv
<1>4. TypeOK'
  BY <1>1, <1>3 DEF TypeOK, Inv
<1>5. LoopIsLocked'
  BY <1>1, Types DEF LoopIsLocked, Inv
<1>6. NoSampleTwice'
  <2>1. ASSUME NEW t \in Sink, t # s
        PROVE  /\ \A q \in Pair : pushed'[q][t] <= pulled'[t]
               /\ sink'[t].step = "lock" => pulled'[t] > 0 /\ \A q \in Pair : pushed'[q][t] < pulled'[t]
               /\ sink'[t].step # "push"
    BY <1>1, <1>3, <2>1 DEF NoSampleTwice, LoopIsLocked, Inv
  <2>2. ASSUME NEW q \in Pair PROVE pushed'[q][s] <= pulled'[s]
    <3>1. CASE q = p
      <4>1. pushed[p][s] \in Nat /\ pulled[s] \in Nat
        BY <1>1, Types DEF Inv
      <4> QED BY <1>1, <1>2, <1>3, <3>1, <4>1
    <3>2. CASE q # p
      BY <1>1, <1>3, <3>2 DEF NoSampleTwice, Inv
    <3> QED BY <3>1, <3>2
  <2>3. ASSUME NEW i \in DOMAIN list, i >= at + 1 PROVE pushed'[list[i]][s] < pulled'[s]
    <3>1. list[i] \in Pair /\ list[i] # p /\ i >= at
      BY <1>1, <2>3, Types DEF IsInjective, Inv
    <3> QED BY <1>1, <1>3, <3>1 DEF NoSampleTwice, Inv
  <2> QED BY <1>1, <2>1, <2>2, <2>3 DEF NoSampleTwice
<1> QED BY <1>1, <1>4, <1>5, <1>6 DEF Inv, MainIsBusy, Lifecycle

\* A thread leaves the loop when it is past the end of the list.
LEMMA UnlockInv == ASSUME Inv, NEW s \in Sink, UnlockList(s) PROVE Inv'
<1>1. /\ sink'[s].step = "pull" /\ sink'[s].at = 1 /\ lock' = Idle /\ sink[s].step = "push"
      /\ \A t \in Sink \ {s} : sink'[t] = sink[t]
      /\ sink' \in [Sink -> [step : {"pull", "lock", "push"}, at : Nat]]
      /\ UNCHANGED <<list, refs, main, pulled, pushed>>
  BY DEF UnlockList, TypeOK, Inv
<1>2. TypeOK'
  BY <1>1 DEF TypeOK, Inv
<1>3. LoopIsLocked'
  BY <1>1, IdleAssumption DEF LoopIsLocked, Inv
<1>4. NoSampleTwice'
  BY <1>1 DEF NoSampleTwice, Inv
<1> QED BY <1>1, <1>2, <1>3, <1>4 DEF Inv, MainIsBusy, Lifecycle

\* Every step keeps the invariant.
LEMMA InvStep == Inv /\ [Next]_vars => Inv'
<1> SUFFICES ASSUME Inv, [Next]_vars PROVE Inv'
  OBVIOUS
<1>1. CASE MainStep
  BY <1>1, LaunchInv, AppendInv, RemoveInv, UnrefInv DEF MainStep
<1>2. ASSUME NEW s \in Sink, SinkStep(s) PROVE Inv'
  BY <1>2, PullInv, LockInv, PushInv, UnlockInv DEF SinkStep
<1>3. CASE UNCHANGED vars
  BY <1>3 DEF vars, Inv, TypeOK, MainIsBusy, Lifecycle, LoopIsLocked, NoSampleTwice
<1> QED BY <1>1, <1>2, <1>3 DEF Next

\* The invariant holds of every behaviour.
LEMMA Invariance == Spec => []Inv
  BY InitInv, InvStep, PTL DEF Spec
-----------------------------------------------------------------------------
\* A pair's references are never dropped twice, and no pair is pushed more
\* samples of a sink than were pulled from it, whatever the main loop appends and
\* removes between on_new_sample_from_sink's turns.
THEOREM FanoutTypeCorrect == Spec => [](TypeOK /\ NoSampleTwice)
<1>1. Inv => TypeOK /\ NoSampleTwice
  BY DEF Inv
<1> QED BY <1>1, Invariance, PTL

\* The list never names a pair twice or one whose appsrcs are gone, since
\* stop_appsrc_webrtc and appsrc_cmd_rec_stop unlist it before the last unref.
THEOREM ListIsAlwaysSound == Spec => []ListIsSound
<1>1. Inv => ListIsSound
  <2> SUFFICES ASSUME Inv, NEW i \in DOMAIN list PROVE refs[list[i]] > 0
    BY DEF ListIsSound, Inv
  <2>1. list[i] \in Pair /\ list[i] \in ToSet(list)
    BY Types DEF Inv, ToSet
  <2> QED BY <2>1 DEF Inv, Lifecycle
<1> QED BY <1>1, Invariance, PTL

\* Every push-buffer signal of on_new_sample_from_sink reaches an appsrc that
\* somebody holds a reference to, whatever the main loop is stopping meanwhile.
THEOREM EveryPushIsLive == Spec => []PushesAreLive
<1>1. Inv => PushesAreLive
  <2> SUFFICES ASSUME Inv, NEW s \in Sink, sink[s].step = "push", sink[s].at <= Len(list)
               PROVE  refs[list[sink[s].at]] > 0
    BY DEF PushesAreLive
  <2> DEFINE i == sink[s].at
  <2>1. i \in DOMAIN list /\ list[i] \in Pair /\ list[i] \in ToSet(list)
    BY Types DEF Inv, LoopIsLocked, ToSet
  <2> QED BY <2>1 DEF Inv, Lifecycle
<1> QED BY <1>1, Invariance, PTL
-----------------------------------------------------------------------------
(***************************************************************************)
(* The loop under the lock is a multicast: each step maps to a step of     *)
(* Multicast or to none.                                                   *)
(***************************************************************************)
\* What Multicast counts for a pair and a sink.
Got(p, s) == IF Served(p, s) THEN pushed[p][s] - 1 ELSE pushed[p][s]
got       == [p \in Pair |-> [s \in Sink |-> Got(p, s)]]

\* Without a thread in the loop nobody is ahead of the others.
LEMMA NobodyServed ==
    ASSUME NEW s \in Sink, sink[s].step # "push"
    PROVE  \A p \in Pair : ~Served(p, s) /\ Got(p, s) = pushed[p][s]
  BY DEF Served, Got

\* What got counts changes only where Got does.
LEMMA GotUnchanged ==
    ASSUME \A p \in Pair, s \in Sink : Got(p, s)' = Got(p, s)
    PROVE  got' = got
  BY DEF got

\* Pulling and locking change nothing for the receivers.
LEMMA PullIsStutter ==
    ASSUME Inv, NEW s \in Sink, PullSample(s) \/ LockList(s)
    PROVE  list' = list /\ got' = got
<1>1. /\ UNCHANGED <<list, pushed>>
      /\ sink[s].step # "push"
      /\ sink'[s].step = "push" => sink'[s].at = 1
      /\ \A t \in Sink \ {s} : sink'[t] = sink[t]
  BY DEF PullSample, LockList, Inv, TypeOK
<1>2. \A p \in Pair, t \in Sink : Served(p, t)' = Served(p, t)
  BY <1>1 DEF Served
<1>3. \A p \in Pair, t \in Sink : Got(p, t)' = Got(p, t)
  BY <1>1, <1>2 DEF Got
<1> QED BY <1>1, <1>3, GotUnchanged

\* A pair that is pushed to is ahead by the sample, which does not count yet.
LEMMA PushIsStutter ==
    ASSUME Inv, NEW s \in Sink, PushBuffer(s)
    PROVE  list' = list /\ got' = got
<1>0. /\ sink[s].at \in 1..Len(list) /\ list[sink[s].at] \in Pair
      /\ sink[s].step = "push" /\ DOMAIN list = 1..Len(list) /\ list' = list
      /\ Len(list) \in Nat
  <2>1. sink[s].at \in Nat /\ sink[s].at > 0 /\ sink[s].at <= Len(list)
    BY Types DEF Inv, LoopIsLocked, PushBuffer
  <2> QED BY <2>1, Types DEF Inv, PushBuffer
<1>1. PICK at \in 1..Len(list), p \in Pair : at = sink[s].at /\ p = list[at]
  BY <1>0
<1>2. /\ sink'[s].step = "push" /\ sink'[s].at = at + 1
      /\ \A t \in Sink \ {s} : sink'[t] = sink[t]
  BY <1>0, <1>1 DEF PushBuffer, Inv, TypeOK
<1>3. /\ pushed'[p][s] = pushed[p][s] + 1 /\ pushed[p][s] \in Nat
      /\ \A q \in Pair, t \in Sink : q # p \/ t # s => pushed'[q][t] = pushed[q][t]
  <2>1. pushed \in [Pair -> [Sink -> 0..MaxSamples]]
    BY DEF Inv, TypeOK
  <2>2. pushed' = [pushed EXCEPT ![p][s] = @ + 1]
    BY <1>1 DEF PushBuffer
  <2> QED BY <2>1, <2>2, MaxSamplesAssumption
<1>4. ~Served(p, s) /\ Served(p, s)'
  <2>1. \A i \in 1..Len(list) : list[i] = p => i = at
    BY <1>0, <1>1 DEF Inv, IsInjective
  <2>2. ~Served(p, s)
    BY <1>0, <1>1, <2>1 DEF Served
  <2>3. Served(p, s)'
    BY <1>0, <1>1, <1>2 DEF Served
  <2> QED BY <2>2, <2>3
<1>5. ASSUME NEW q \in Pair, NEW t \in Sink, q # p \/ t # s
      PROVE  Served(q, t)' = Served(q, t)
  <2>1. CASE t # s
    BY <1>0, <1>1, <1>2, <2>1 DEF Served
  <2>2. CASE t = s
    <3>1. q # p
      BY <1>5, <2>2
    <3>2. \A i \in 1..at : list[i] = q => i \in 1..(at - 1)
      BY <1>0, <1>1, <3>1
    <3>3. Served(q, s) <=> \E i \in 1..(at - 1) : i <= Len(list) /\ list[i] = q
      BY <1>0, <1>1 DEF Served
    <3>4. Served(q, s)' <=> \E i \in 1..at : i <= Len(list) /\ list[i] = q
      BY <1>0, <1>1, <1>2 DEF Served
    <3>5. Served(q, s)' <=> Served(q, s)
      BY <1>0, <1>1, <3>2, <3>3, <3>4
    <3> QED BY <2>2, <3>5 DEF Served
  <2> QED BY <2>1, <2>2
<1>6. ASSUME NEW q \in Pair, NEW t \in Sink PROVE Got(q, t)' = Got(q, t)
  <2>1. CASE q = p /\ t = s
    <3>1. Got(p, s) = pushed[p][s] /\ Got(p, s)' = pushed'[p][s] - 1
      BY <1>4 DEF Got
    <3> QED BY <1>3, <2>1, <3>1
  <2>2. CASE q # p \/ t # s
    BY <1>3, <1>5, <2>2 DEF Got
  <2> QED BY <2>1, <2>2
<1> QED BY <1>0, <1>6, GotUnchanged

\* Between two loops what a pair got is what was pushed to it.
LEMMA UnlockedGot ==
    ASSUME \A s \in Sink : sink[s].step # "push"
    PROVE  got = [p \in Pair |-> [s \in Sink |-> pushed[p][s]]]
  BY NobodyServed DEF got

\* The end of the loop is the moment everybody listed has the sample.
LEMMA UnlockIsPublish ==
    ASSUME Inv, NEW s \in Sink, UnlockList(s)
    PROVE  Atomic!Publish(s)
<1>1. /\ sink[s].step = "push" /\ sink[s].at \in Nat /\ sink[s].at > Len(list)
      /\ DOMAIN list = 1..Len(list) /\ Len(list) \in Nat
      /\ list' = list /\ pushed' = pushed
      /\ \A p \in Pair, t \in Sink : pushed[p][t] \in Nat
  BY Types DEF UnlockList, Inv
<1>2. \A t \in Sink : sink'[t].step # "push"
  BY <1>1, IdleAssumption DEF UnlockList, Inv, TypeOK, LoopIsLocked
<1>3. ASSUME NEW p \in Pair, NEW t \in Sink
      PROVE  Served(p, t) <=> t = s /\ p \in ToSet(list)
  <2>1. CASE t = s
    BY <1>1, <2>1 DEF Served, ToSet
  <2>2. CASE t # s
    BY <1>1, <2>2 DEF Served, Inv, LoopIsLocked
  <2> QED BY <2>1, <2>2
<1>4. got' = [p \in Pair |-> [t \in Sink |-> pushed[p][t]]]
  BY <1>1, <1>2, NobodyServed DEF got, Got, Served
<1>5. ASSUME NEW p \in Pair
      PROVE  got'[p] = IF p \in ToSet(list) THEN [got[p] EXCEPT ![s] = @ + 1] ELSE got[p]
  <2>1. got[p] = [t \in Sink |-> Got(p, t)] /\ got'[p] = [t \in Sink |-> pushed[p][t]]
    BY <1>4 DEF got
  <2>2. CASE p \in ToSet(list)
    <3>1. \A t \in Sink : Got(p, t) = IF t = s THEN pushed[p][t] - 1 ELSE pushed[p][t]
      BY <1>3, <2>2 DEF Got
    <3>2. got[p][s] + 1 = pushed[p][s]
      BY <1>1, <2>1, <3>1
    <3> QED BY <2>1, <2>2, <3>1, <3>2
  <2>3. CASE p \notin ToSet(list)
    BY <1>3, <2>1, <2>3 DEF Got
  <2> QED BY <2>2, <2>3
<1>6. got' = [p \in Pair |->
                IF p \in ToSet(list) THEN [got[p] EXCEPT ![s] = @ + 1] ELSE got[p]]
  BY <1>4, <1>5
<1> QED BY <1>1, <1>6 DEF Atomic!Publish, got, Got

\* g_list_append under the lock is joining.
LEMMA AppendIsAJoin ==
    ASSUME Inv, AppendPair
    PROVE  \E p \in Pair : Atomic!Join(p)
<1>1. /\ main.pair \in Pair /\ main.pair \notin ToSet(list)
      /\ \A s \in Sink : sink[s].step # "push" /\ sink'[s].step # "push"
  BY IdleAssumption DEF AppendPair, Inv, MainIsBusy, Resting, Lifecycle, LoopIsLocked
<1>2. ToSet(list') = ToSet(list) \cup {main.pair}
  BY <1>1, AppendIsJoin DEF AppendPair, Inv, TypeOK
<1>3. \A p \in Pair, s \in Sink :
          pushed'[p][s] = IF p = main.pair THEN 0 ELSE pushed[p][s]
  BY DEF AppendPair, Inv, TypeOK
<1>4. /\ got = [p \in Pair |-> [s \in Sink |-> pushed[p][s]]]
      /\ got' = [p \in Pair |-> [s \in Sink |-> pushed'[p][s]]]
  BY <1>1, UnlockedGot DEF got, Got, Served
<1>5. got' = [got EXCEPT ![main.pair] = [s \in Sink |-> 0]]
  <2>1. \A p \in Pair : got'[p] = IF p = main.pair THEN [s \in Sink |-> 0] ELSE got[p]
    BY <1>3, <1>4
  <2> QED BY <1>1, <1>4, <2>1
<1>6. PICK p \in Pair : p = main.pair
  BY <1>1
<1>7. Atomic!Join(p)
  BY <1>1, <1>2, <1>5, <1>6 DEF Atomic!Join, got, Got
<1> QED BY <1>7

\* g_list_remove under the lock is leaving.
LEMMA RemoveIsALeave ==
    ASSUME Inv, RemovePair
    PROVE  \E p \in Pair : Atomic!Leave(p)
<1>1. /\ main.pair \in Pair /\ main.pair \in ToSet(list)
      /\ UNCHANGED <<sink, pushed>>
      /\ \A s \in Sink : sink[s].step # "push"
  BY IdleAssumption DEF RemovePair, Inv, MainIsBusy, Resting, Lifecycle, LoopIsLocked
<1>2. ToSet(list') = ToSet(list) \ {main.pair}
  BY <1>1, RemoveIsLeave DEF RemovePair, Inv, TypeOK
<1>3. got' = got
  BY <1>1 DEF got, Got, Served
<1>4. PICK p \in Pair : p = main.pair
  BY <1>1
<1>5. Atomic!Leave(p)
  BY <1>1, <1>2, <1>3, <1>4 DEF Atomic!Leave, got, Got
<1> QED BY <1>5

\* Each listed pair gets each sample of each appsink exactly once between its
\* append and its removal: on_new_sample_from_sink's loop under G_appsrc_lock
\* is indivisible for the receivers.
THEOREM FanoutIsAMulticast == Spec => ImplementsMulticast
<1>1. Init => Atomic!Init
  BY DEF Init, Atomic!Init, ToSet, Served
<1>2. Inv /\ [Next]_vars => [Atomic!Next]_(Atomic!vars)
  <2> SUFFICES ASSUME Inv, [Next]_vars PROVE [Atomic!Next]_(Atomic!vars)
    OBVIOUS
  <2>1. ASSUME list' = list, got' = got PROVE UNCHANGED Atomic!vars
    BY <2>1 DEF Atomic!vars, got, Got
  <2>2. ASSUME NEW p \in Pair, Launch(p) \/ TakeDown(p) PROVE UNCHANGED Atomic!vars
    BY <2>1, <2>2 DEF Launch, TakeDown, got, Got, Served
  <2>3. CASE UnrefPair \/ UNCHANGED vars
    BY <2>1, <2>3 DEF UnrefPair, vars, got, Got, Served
  <2>4. ASSUME NEW s \in Sink, SinkStep(s) PROVE [Atomic!Next]_(Atomic!vars)
    <3>1. CASE PullSample(s) \/ LockList(s)
      BY <2>1, <3>1, PullIsStutter
    <3>2. CASE PushBuffer(s)
      BY <2>1, <3>2, PushIsStutter
    <3>3. CASE UnlockList(s)
      BY <3>3, UnlockIsPublish DEF Atomic!Next
    <3> QED BY <2>4, <3>1, <3>2, <3>3 DEF SinkStep
  <2>5. CASE AppendPair
    BY <2>5, AppendIsAJoin DEF Atomic!Next
  <2>6. CASE RemovePair
    BY <2>6, RemoveIsALeave DEF Atomic!Next
  <2> QED BY <2>2, <2>3, <2>4, <2>5, <2>6 DEF Next, MainStep
<1> QED BY <1>1, <1>2, Invariance, PTL DEF Spec, ImplementsMulticast, Atomic!Spec
-----------------------------------------------------------------------------
\* The thread that holds the lock is in its loop, and nobody else moves it or the
\* list; what it does itself brings it to the next pair or, past the last one, to
\* the unlock.
HolderGoesOn ==
    \A s \in Sink : lock = s =>
        /\ sink[s].step = "push" /\ list' = list
        /\ \/ lock' = s /\ sink'[s] = sink[s]
           \/ lock' = s /\ sink[s].at <= Len(list) /\ sink'[s] = [step |-> "push", at |-> sink[s].at + 1]
           \/ lock' = Idle /\ sink[s].at > Len(list)

\* G_appsrc_lock is never held for longer than one loop over a list that does
\* not change meanwhile (on_new_sample_from_sink), however many threads want it:
\* nobody takes it from its holder and the main loop never keeps it.
THEOREM TheHolderGoesOn == Spec => [][HolderGoesOn]_vars
<1>1. Inv /\ [Next]_vars => [HolderGoesOn]_vars
  <2> SUFFICES ASSUME Inv, Next, NEW s \in Sink, lock = s
               PROVE  /\ sink[s].step = "push" /\ list' = list
                      /\ \/ lock' = s /\ sink'[s] = sink[s]
                         \/ /\ lock' = s /\ sink[s].at <= Len(list)
                            /\ sink'[s] = [step |-> "push", at |-> sink[s].at + 1]
                         \/ lock' = Idle /\ sink[s].at > Len(list)
    BY DEF HolderGoesOn
  <2>1. sink[s].step = "push" /\ lock # Idle
    BY IdleAssumption DEF Inv, LoopIsLocked
  <2>2. CASE MainStep
    BY <2>1, <2>2 DEF MainStep, Launch, TakeDown, AppendPair, RemovePair, UnrefPair
  <2>3. ASSUME NEW t \in Sink, PullSample(t)
        PROVE  UNCHANGED <<list, lock>> /\ sink'[s] = sink[s]
    BY <2>1, <2>3 DEF PullSample, Inv, TypeOK
  <2>4. ASSUME NEW t \in Sink, LockList(t) PROVE FALSE
    BY <2>1, <2>4 DEF LockList
  <2>5. ASSUME NEW t \in Sink, PushBuffer(t)
        PROVE  /\ UNCHANGED <<list, lock>> /\ sink[s].at <= Len(list)
               /\ sink'[s] = [step |-> "push", at |-> sink[s].at + 1]
    <3>1. t = s
      BY <2>5 DEF PushBuffer, Inv, LoopIsLocked
    <3>2. sink[s] \in [step : {"pull", "lock", "push"}, at : Nat] /\ sink \in [Sink -> [step : {"pull", "lock", "push"}, at : Nat]]
      BY DEF Inv, TypeOK
    <3> QED BY <2>1, <2>5, <3>1, <3>2 DEF PushBuffer
  <2>6. ASSUME NEW t \in Sink, UnlockList(t)
        PROVE  list' = list /\ lock' = Idle /\ sink[s].at > Len(list)
    <3>1. t = s
      BY <2>6 DEF UnlockList, Inv, LoopIsLocked
    <3> QED BY <2>6, <3>1 DEF UnlockList
  <2> QED BY <2>1, <2>2, <2>3, <2>4, <2>5, <2>6 DEF Next, SinkStep
<1> QED BY <1>1, Invariance, PTL DEF Spec
=============================================================================
