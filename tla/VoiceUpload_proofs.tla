--------------------------- MODULE VoiceUpload_proofs ---------------------------
(***************************************************************************)
(* Proofs about VoiceUpload, for any sizes of voices, announcements and    *)
(* chunks.  The loop that cuts a voice into slices is recursive, so there  *)
(* is first what induction and recursion need: the library's induction     *)
(* theorems take operators, which the provers cannot instantiate, and are  *)
(* stated here with sets and functions instead.                            *)
(***************************************************************************)
EXTENDS VoiceUpload, WellFoundedInduction, TLAPS

\* A set of numbers that is not empty has a least one.
LEMMA LeastNumber ==
    ASSUME NEW S \in SUBSET Nat, S # {}
    PROVE  \E n \in S : \A m \in S : n <= m
<1> DEFINE R == OpToRel(<, Nat)
<1>1. \A x, y \in Nat : x < y => <<x, y>> \in R
  BY DEF OpToRel
<1>2. IsWellFoundedOn(R, Nat)
  BY NatLessThanWellFounded
<1> HIDE DEF R
<1>3. PICK n \in S : \A m \in S : ~ (<<m, n>> \in R)
  BY <1>2, WFMin
<1>4. ASSUME NEW m \in S PROVE n <= m
  <2>1. ~ (m < n)
    BY <1>1, <1>3
  <2>2. QED
    BY <2>1
<1>5. QED
  BY <1>4

\* Induction over the numbers, for a property given as the set of numbers that
\* have it.
LEMMA Induction ==
    ASSUME NEW S, 0 \in S, \A n \in Nat : n \in S => n + 1 \in S
    PROVE  Nat \subseteq S
<1>1. SUFFICES ASSUME Nat \ S # {} PROVE FALSE
  OBVIOUS
<1>2. PICK n \in Nat \ S : \A m \in Nat \ S : n <= m
  BY <1>1, LeastNumber
<1>3. n - 1 \in Nat /\ n - 1 \notin Nat \ S
  BY <1>2
<1>4. QED
  BY <1>2, <1>3

\* h is the beginning of the iteration of f from a, n steps long.
Iterates(h, n, a, f, T) ==
    /\ h \in [0..n -> T]
    /\ h[0] = a
    /\ \A i \in 1..n : h[i] = f[h[i - 1]]

LEMMA IteratesExist ==
    ASSUME NEW T, NEW a \in T, NEW f \in [T -> T], NEW n \in Nat
    PROVE  \E h : Iterates(h, n, a, f, T)
<1> DEFINE S == {k \in Nat : \E h : Iterates(h, k, a, f, T)}
<1>1. 0 \in S
  <2>1. Iterates([i \in 0..0 |-> a], 0, a, f, T)
    BY DEF Iterates
  <2>2. QED
    BY <2>1
<1>2. ASSUME NEW k \in Nat, k \in S PROVE k + 1 \in S
  <2>1. PICK h : Iterates(h, k, a, f, T)
    BY <1>2
  <2> DEFINE g == [i \in 0..(k + 1) |-> IF i = k + 1 THEN f[h[k]] ELSE h[i]]
  <2>2. Iterates(g, k + 1, a, f, T)
    BY <2>1 DEF Iterates
  <2> HIDE DEF g
  <2>3. QED
    BY <2>2
<1>3. Nat \subseteq S
  <2> HIDE DEF S
  <2>1. QED
    BY <1>1, <1>2, Induction
<1>4. QED
  BY <1>3

LEMMA IteratesAgree ==
    ASSUME NEW T, NEW a \in T, NEW f \in [T -> T], NEW n \in Nat,
           NEW m \in Nat, n <= m,
           NEW h, NEW g, Iterates(h, n, a, f, T), Iterates(g, m, a, f, T)
    PROVE  h[n] = g[n]
<1> DEFINE S == {k \in Nat : k <= n => h[k] = g[k]}
<1>1. 0 \in S
  BY DEF Iterates
<1>2. ASSUME NEW k \in Nat, k \in S PROVE k + 1 \in S
  <2>1. SUFFICES ASSUME k + 1 <= n PROVE h[k + 1] = g[k + 1]
    OBVIOUS
  <2>2. h[k] = g[k] /\ k + 1 \in 1..n /\ k + 1 \in 1..m
    BY <1>2, <2>1
  <2>3. h[k + 1] = f[h[k + 1 - 1]] /\ g[k + 1] = f[g[k + 1 - 1]]
    BY <2>2 DEF Iterates
  <2>4. k + 1 - 1 = k
    OBVIOUS
  <2>5. QED
    BY <2>2, <2>3, <2>4
<1>3. Nat \subseteq S
  <2> HIDE DEF S
  <2>1. QED
    BY <1>1, <1>2, Induction
<1>4. QED
  BY <1>3

\* Iteration is well defined: a function that is recursive in this form exists.
LEMMA Iteration ==
    ASSUME NEW T, NEW a \in T, NEW f \in [T -> T]
    PROVE  \E g \in [Nat -> T] : g[0] = a /\ \A n \in Nat : g[n + 1] = f[g[n]]
<1> DEFINE H == [n \in Nat |-> CHOOSE h : Iterates(h, n, a, f, T)]
           g == [n \in Nat |-> H[n][n]]
<1>1. \A n \in Nat : Iterates(H[n], n, a, f, T)
  BY IteratesExist
<1> HIDE DEF H
<1>2. \A n \in Nat : g[n] \in T
  BY <1>1 DEF Iterates
<1>3. g[0] = a
  BY <1>1 DEF Iterates
<1>4. ASSUME NEW n \in Nat PROVE g[n + 1] = f[g[n]]
  <2>1. H[n + 1][n] = H[n][n]
    <3>1. n + 1 \in Nat /\ n <= n + 1 /\ Iterates(H[n + 1], n + 1, a, f, T)
      BY <1>1
    <3>2. QED
      BY <1>1, <3>1, IteratesAgree
  <2>2. H[n + 1][n + 1] = f[H[n + 1][n]]
    BY <1>1 DEF Iterates
  <2>3. QED
    BY <2>1, <2>2
<1>5. g \in [Nat -> T]
  BY <1>2
<1> HIDE DEF g
<1>6. QED
  BY <1>3, <1>4, <1>5
-----------------------------------------------------------------------------
(* The loop of fileReader.onload. *)

Loops == [mark : Nat, buffered : Nat]

\* A turn moves the mark on, and bufferedAmount to the mark or the blob's end
\* if it is not past them already.
LEMMA OneTurn ==
    ASSUME NEW t \in Loops, NEW size \in Nat
    PROVE  /\ Turn(t, size) \in Loops
           /\ Turn(t, size).mark > t.mark
           /\ t.buffered <= Turn(t, size).buffered
           /\ t.buffered <= size => Turn(t, size).buffered <= size
           /\ t.buffered > size => Turn(t, size).buffered = t.buffered
           /\ t.buffered <= size /\ Turn(t, size).mark >= size => Turn(t, size).buffered = size
<1>1. NextMark(t.mark, size) \in Nat /\ NextMark(t.mark, size) > t.mark
  BY SizesAssumption DEF NextMark, Loops
<1>2. QED
  BY <1>1 DEF Turn, Loops

\* The recursive definition of the loop defines what it says.
TurnByTurn(loop, size, mark, start) ==
    /\ loop \in [Nat -> Loops]
    /\ loop[0] = [mark |-> mark, buffered |-> start]
    /\ \A i \in Nat : loop[i + 1] = Turn(loop[i], size)

LEMMA LoopUnfolds ==
    ASSUME NEW size \in Nat, NEW mark \in Nat, NEW start \in Nat
    PROVE  TurnByTurn(Loop(size, mark, start), size, mark, start)
<1> DEFINE a == [mark |-> mark, buffered |-> start]
           f == [t \in Loops |-> Turn(t, size)]
           Is(g) == g = [i \in Nat |-> IF i = 0 THEN a ELSE Turn(g[i - 1], size)]
           loop == CHOOSE g : Is(g)
<1>1. a \in Loops /\ f \in [Loops -> Loops]
  BY OneTurn DEF Loops
<1> HIDE DEF a, loop
<1>2. PICK g \in [Nat -> Loops] : g[0] = a /\ \A i \in Nat : g[i + 1] = f[g[i]]
  <2> HIDE DEF f
  <2>1. QED
    BY <1>1, Iteration
<1>3. Is(g)
  <2>1. ASSUME NEW i \in Nat, i # 0 PROVE g[i] = Turn(g[i - 1], size)
    <3>1. i - 1 \in Nat /\ (i - 1) + 1 = i
      BY <2>1
    <3>2. g[i] = f[g[i - 1]] /\ g[i - 1] \in Loops
      BY <1>2, <3>1
    <3>3. QED
      BY <3>2
  <2>2. QED
    BY <1>2, <2>1
<1>4. Is(loop)
  <2> HIDE DEF Is
  <2>1. QED
    BY <1>3 DEF loop
<1>5. Loop(size, mark, start) = loop
  BY DEF Loop, loop, a
<1>6. loop[0] = a /\ \A i \in Nat : loop[i + 1] = Turn(loop[i], size)
  BY <1>4
<1>7. \A i \in Nat : loop[i] \in Loops
  <2> DEFINE S == {i \in Nat : loop[i] \in Loops}
  <2>1. 0 \in S
    BY <1>1, <1>6
  <2>2. ASSUME NEW i \in Nat, i \in S PROVE i + 1 \in S
    <3>1. loop[i + 1] = Turn(loop[i], size) /\ loop[i] \in Loops
      BY <1>6, <2>2
    <3>2. loop[i + 1] \in Loops
      BY <3>1, OneTurn
    <3>3. QED
      BY <3>2
  <2> HIDE DEF S
  <2>3. Nat \subseteq S
    BY <2>1, <2>2, Induction
  <2>4. QED
    BY <2>3 DEF S
<1>8. loop \in [Nat -> Loops]
  BY <1>4, <1>7
<1>9. QED
  BY <1>5, <1>6, <1>8 DEF a, TurnByTurn

\* What a loop of n turns sends: bufferedAmount only grows, by no more than the
\* blob's size, and if it takes a turn and started before the blob's end it ends
\* there.
Sends(loop, n, size, mark, start) ==
    /\ n \in Nat
    /\ n > 0 <=> mark < size
    /\ \A i \in 0..n : /\ loop[i].buffered \in Nat
                        /\ start <= loop[i].buffered
                        /\ loop[i].buffered - start <= size
                        /\ loop[i].buffered <= loop[n].buffered
    /\ \A i \in 1..n : loop[i - 1].buffered <= loop[i].buffered
    /\ loop[0].buffered = start
    /\ n > 0 /\ start <= size => loop[n].buffered = size
    /\ start > size => loop[n].buffered = start

LEMMA LoopSends ==
    ASSUME NEW size \in Nat, NEW mark \in Nat, NEW start \in Nat,
           NEW loop, TurnByTurn(loop, size, mark, start)
    PROVE  Sends(loop, Turns(loop, size), size, mark, start)
<1> DEFINE n == Turns(loop, size)
<1> HIDE DEF n
<1>1. /\ loop \in [Nat -> Loops]
      /\ loop[0] = [mark |-> mark, buffered |-> start]
      /\ \A i \in Nat : loop[i + 1] = Turn(loop[i], size)
  BY DEF TurnByTurn
<1>2. \A i \in Nat : loop[i].mark \in Nat /\ loop[i].buffered \in Nat
  BY <1>1 DEF Loops
<1>3. \A i \in Nat : /\ loop[i + 1].mark > loop[i].mark
                     /\ loop[i].buffered <= loop[i + 1].buffered
  <2>1. SUFFICES ASSUME NEW i \in Nat
                 PROVE  /\ loop[i + 1].mark > loop[i].mark
                        /\ loop[i].buffered <= loop[i + 1].buffered
    OBVIOUS
  <2>2. loop[i] \in Loops /\ loop[i + 1] = Turn(loop[i], size)
    BY <1>1
  <2>3. QED
    BY <2>2, OneTurn
<1>4. \A i \in Nat : loop[i].mark >= i
  <2> DEFINE S == {i \in Nat : loop[i].mark >= i}
  <2>1. 0 \in S
    BY <1>2
  <2>2. ASSUME NEW i \in Nat, i \in S PROVE i + 1 \in S
    <3>1. loop[i].mark >= i /\ loop[i + 1].mark > loop[i].mark
      BY <1>3, <2>2
    <3>2. loop[i].mark \in Nat /\ loop[i + 1].mark \in Nat
      BY <1>2
    <3>3. QED
      BY <3>1, <3>2
  <2> HIDE DEF S
  <2>3. Nat \subseteq S
    BY <2>1, <2>2, Induction
  <2>4. QED
    BY <2>3 DEF S
<1>5. /\ n \in 0..size
      /\ loop[n].mark >= size
      /\ \A i \in 0..(n - 1) : loop[i].mark < size
  <2> DEFINE S == {i \in Nat : loop[i].mark >= size}
  <2>1. size \in S
    BY <1>4
  <2>2. PICK least \in S : \A i \in S : least <= i
    BY <2>1, LeastNumber
  <2>3. least \in 0..size
    BY <2>1, <2>2
  <2>4. \A i \in 0..(least - 1) : loop[i].mark < size
    <3>1. SUFFICES ASSUME NEW i \in 0..(least - 1) PROVE loop[i].mark < size
      OBVIOUS
    <3>2. i \in Nat /\ i \notin S
      BY <2>2, <2>3
    <3>3. QED
      BY <1>2, <3>2
  <2>5. \E m \in 0..size : loop[m].mark >= size /\ \A i \in 0..(m - 1) : loop[i].mark < size
    BY <2>2, <2>3, <2>4
  <2>6. QED
    BY <2>5 DEF Turns, n
<1>6. n > 0 <=> mark < size
  BY <1>1, <1>5
<1>7. \A i \in Nat : /\ start <= loop[i].buffered
                     /\ start <= size => loop[i].buffered <= size
                     /\ start > size => loop[i].buffered = start
  <2> DEFINE P(i) == /\ start <= loop[i].buffered
                     /\ start <= size => loop[i].buffered <= size
                     /\ start > size => loop[i].buffered = start
             S == {i \in Nat : P(i)}
  <2>1. 0 \in S
    BY <1>1
  <2>2. ASSUME NEW i \in Nat, i \in S PROVE i + 1 \in S
    <3>1. P(i) /\ loop[i + 1] = Turn(loop[i], size) /\ loop[i] \in Loops
      BY <1>1, <2>2
    <3>2. loop[i].buffered \in Nat /\ loop[i + 1].buffered \in Nat
      BY <1>2
    <3>3. /\ loop[i].buffered <= loop[i + 1].buffered
          /\ loop[i].buffered <= size => loop[i + 1].buffered <= size
          /\ loop[i].buffered > size => loop[i + 1].buffered = loop[i].buffered
      BY <3>1, OneTurn
    <3>4. P(i + 1)
      BY <3>1, <3>2, <3>3
    <3> HIDE DEF P
    <3>5. QED
      BY <3>4
  <2>3. Nat \subseteq S
    <3> HIDE DEF S
    <3>1. QED
      BY <2>1, <2>2, Induction
  <2>4. QED
    BY <2>3
<1>8. \A i \in 1..n : loop[i - 1].buffered <= loop[i].buffered
  <2>1. SUFFICES ASSUME NEW i \in 1..n PROVE loop[i - 1].buffered <= loop[i].buffered
    OBVIOUS
  <2>2. i - 1 \in Nat /\ (i - 1) + 1 = i
    BY <1>5
  <2>3. QED
    BY <1>3, <2>2
<1>9. n > 0 /\ start <= size => loop[n].buffered = size
  <2>1. SUFFICES ASSUME n > 0, start <= size PROVE loop[n].buffered = size
    OBVIOUS
  <2>2. n - 1 \in Nat /\ (n - 1) + 1 = n
    BY <1>5, <2>1
  <2>3. loop[n] = Turn(loop[n - 1], size) /\ loop[n - 1] \in Loops
    BY <1>1, <2>2
  <2>4. loop[n - 1].buffered <= size
    BY <1>7, <2>1, <2>2
  <2>5. Turn(loop[n - 1], size).mark >= size
    BY <1>5, <2>3
  <2>6. Turn(loop[n - 1], size).buffered = size
    BY <2>3, <2>4, <2>5, OneTurn
  <2>7. QED
    BY <2>3, <2>6
<1>10. \A i \in 0..n : loop[i].buffered <= loop[n].buffered
  <2>1. ASSUME n > 0, start <= size PROVE \A i \in 0..n : loop[i].buffered <= loop[n].buffered
    BY <1>5, <1>7, <1>9, <2>1
  <2>2. ASSUME start > size PROVE \A i \in 0..n : loop[i].buffered <= loop[n].buffered
    BY <1>2, <1>5, <1>7, <2>2
  <2>3. ASSUME n = 0 PROVE \A i \in 0..n : loop[i].buffered <= loop[n].buffered
    BY <1>2, <2>3
  <2>4. QED
    BY <1>5, <2>1, <2>2, <2>3
<1>11. \A i \in 0..n : loop[i].buffered - start <= size
  <2>1. SUFFICES ASSUME NEW i \in 0..n PROVE loop[i].buffered - start <= size
    OBVIOUS
  <2>2. i \in Nat /\ loop[i].buffered \in Nat
    BY <1>2, <1>5
  <2>3. QED
    BY <1>7, <2>2
<1>12. QED
  <2>1. n \in Nat /\ loop[0].buffered = start
    BY <1>1, <1>5
  <2>2. \A i \in 0..n : loop[i].buffered \in Nat /\ start <= loop[i].buffered
    BY <1>2, <1>5, <1>7
  <2>3. start > size => loop[n].buffered = start
    BY <1>7, <2>1
  <2>4. QED
    BY <1>6, <1>8, <1>9, <1>10, <1>11, <2>1, <2>2, <2>3 DEF n, Sends
-----------------------------------------------------------------------------
(* The queues. *)

LEMMA AppendMany ==
    ASSUME NEW M, NEW s \in Seq(M), NEW n \in Nat, NEW t \in [1..n -> M]
    PROVE  /\ s \o t \in Seq(M)
           /\ Len(s \o t) = Len(s) + n
           /\ \A i \in 1..Len(s) : (s \o t)[i] = s[i]
           /\ \A i \in (Len(s) + 1)..(Len(s) + n) : (s \o t)[i] = t[i - Len(s)]
<1>1. t \in Seq(M) /\ Len(t) = n
  OBVIOUS
<1>2. QED
  BY <1>1

LEMMA AppendOne ==
    ASSUME NEW M, NEW s \in Seq(M), NEW m \in M
    PROVE  /\ Append(s, m) \in Seq(M)
           /\ Len(Append(s, m)) = Len(s) + 1
           /\ \A i \in 1..Len(s) : Append(s, m)[i] = s[i]
           /\ Append(s, m)[Len(s) + 1] = m
  OBVIOUS

LEMMA TakeOne ==
    ASSUME NEW M, NEW s \in Seq(M), s # <<>>
    PROVE  /\ Head(s) \in M /\ Head(s) = s[1]
           /\ Tail(s) \in Seq(M)
           /\ Len(s) \in Nat \ {0}
           /\ Len(Tail(s)) = Len(s) - 1
           /\ \A i \in 1..(Len(s) - 1) : Tail(s)[i] = s[i + 1]
  OBVIOUS
-----------------------------------------------------------------------------
(* Under any user. *)

Message == [what : {"file", "data"}, voice : Voice, size : Nat]

TypeInv ==
    /\ TypeOK
    /\ reading = NotReading \/ reading.voice \in Voice
    /\ pool > 0 => dcfile.name # NoVoice

\* What onload does, in terms of the loop's turns.
Slice(loop, i) == [what |-> "data", voice |-> reading.voice,
                   size |-> loop[i].buffered - loop[i - 1].buffered]

OnloadTurns(loop, n) ==
    /\ Sends(loop, n, reading.size, reading.mark, buffered)
    /\ channel' = channel \o [i \in 1..n |-> Slice(loop, i)]
    /\ [i \in 1..n |-> Slice(loop, i)] \in [1..n -> Message]
    /\ buffered' = loop[n].buffered
    /\ whole' = IF n > 0 /\ buffered' - buffered = reading.size
                THEN whole \cup {[voice |-> reading.voice, size |-> reading.size]}
                ELSE whole

LEMMA OnloadSends ==
    ASSUME TypeInv, onload
    PROVE  \E loop, n : OnloadTurns(loop, n)
<1> DEFINE loop == Loop(reading.size, reading.mark, buffered)
           n    == Turns(loop, reading.size)
<1>1. reading.size \in Nat /\ reading.mark \in Nat /\ buffered \in Nat /\ reading.voice \in Voice
  BY DEF TypeInv, TypeOK, onload
<1>2. TurnByTurn(loop, reading.size, reading.mark, buffered)
  BY <1>1, LoopUnfolds
<1>3. Sends(loop, n, reading.size, reading.mark, buffered)
  <2> HIDE DEF loop
  <2>1. QED
    BY <1>1, <1>2, LoopSends
<1>4. /\ channel' = channel \o [i \in 1..n |-> Slice(loop, i)]
      /\ buffered' = loop[n].buffered
      /\ whole' = IF n > 0 /\ buffered' - buffered = reading.size
                  THEN whole \cup {[voice |-> reading.voice, size |-> reading.size]}
                  ELSE whole
  BY DEF onload, Slice
<1> HIDE DEF loop, n
<1>5. ASSUME NEW i \in 1..n PROVE Slice(loop, i) \in Message
  <2>1. n \in Nat
    BY <1>3 DEF Sends
  <2>2. i \in 0..n /\ i - 1 \in 0..n
    BY <2>1
  <2>3. /\ loop[i].buffered \in Nat /\ loop[i - 1].buffered \in Nat
        /\ loop[i - 1].buffered <= loop[i].buffered
    BY <1>3, <2>1, <2>2 DEF Sends
  <2>4. loop[i].buffered - loop[i - 1].buffered \in Nat
    BY <2>3
  <2>5. QED
    BY <1>1, <2>4 DEF Slice, Message
<1>6. OnloadTurns(loop, n)
  BY <1>3, <1>4, <1>5 DEF OnloadTurns
<1>7. QED
  BY <1>6

LEMMA TypeStep == TypeInv /\ [Next]_vars => TypeInv'
<1> SUFFICES ASSUME TypeInv, [Next]_vars PROVE TypeInv'
  OBVIOUS
<1> USE SizesAssumption DEF Voice, NoVoice
<1>1. ASSUME NEW size \in Size, onstop(size) PROVE TypeInv'
  <2>1. /\ voices + 1 \in Voice /\ buffered + Json \in Nat /\ size \in Nat
        /\ channel \in Seq(Message)
    BY <1>1 DEF TypeInv, TypeOK, onstop, Message
  <2>2. [what |-> "file", voice |-> voices + 1, size |-> size] \in Message
    BY <2>1 DEF Message
  <2>3. channel' \in Seq(Message)
    BY <1>1, <2>1, <2>2, AppendOne DEF onstop
  <2>4. QED
    BY <1>1, <2>1, <2>3 DEF TypeInv, TypeOK, onstop, Message
<1>2. ASSUME onload PROVE TypeInv'
  <2>1. PICK loop, n : OnloadTurns(loop, n)
    BY <1>2, OnloadSends
  <2>2. channel \in Seq(Message) /\ reading.voice \in Voice /\ reading.size \in Nat
    BY <1>2 DEF TypeInv, TypeOK, onload, Message
  <2>3. channel' \in Seq(Message)
    <3>1. n \in Nat
      BY <2>1 DEF OnloadTurns, Sends
    <3>2. QED
      BY <2>1, <2>2, <3>1, AppendMany DEF OnloadTurns
  <2>4. buffered' \in Nat
    BY <2>1 DEF OnloadTurns, Sends
  <2>5. whole' \subseteq [voice : Voice, size : Nat]
    BY <2>1, <2>2 DEF TypeInv, TypeOK, OnloadTurns
  <2>6. UNCHANGED <<voices, dcfile, disk, pool, played>> /\ reading' = NotReading
    BY <1>2 DEF onload
  <2>7. reading' \in [voice : Voice \cup {NoVoice}, size : Nat, mark : Nat]
    BY <2>6 DEF NotReading
  <2>8. QED
    BY <2>3, <2>4, <2>5, <2>6, <2>7, SMTT(20) DEF TypeInv, TypeOK, Message
<1>3. ASSUME Drain PROVE TypeInv'
  <2>1. buffered' \in Nat
    BY <1>3 DEF TypeInv, TypeOK, Drain
  <2> HIDE DEF Voice, NoVoice
  <2>2. QED
    BY <1>3, <2>1 DEF TypeInv, TypeOK, Drain
<1>4. ASSUME SessionStep PROVE TypeInv'
  <2>1. /\ channel \in Seq(Message) /\ channel # <<>> /\ channel' = Tail(channel)
        /\ UNCHANGED <<voices, reading, buffered, played, whole>>
    BY <1>4 DEF TypeInv, TypeOK, Message, Receive, SessionStep,
                data_channel_on_message_string, data_channel_on_message_data
  <2>2. Head(channel) \in Message /\ channel' \in Seq(Message)
    BY <2>1, TakeOne
  <2>3. CASE data_channel_on_message_string
    <3>1. /\ dcfile' = [name |-> Head(channel).voice, fsize |-> Head(channel).size,
                        pos |-> 0, open |-> TRUE]
          /\ disk' = [k \in Voice |-> IF k = dcfile.name THEN 0 ELSE disk[k]]
          /\ pool' = pool
      BY <2>3 DEF data_channel_on_message_string
    <3>2. /\ dcfile' \in [name : Voice \cup {NoVoice}, fsize : Nat, pos : Nat, open : BOOLEAN]
          /\ dcfile'.name # NoVoice
      BY <2>2, <3>1 DEF Message
    <3>3. disk' \in [Voice -> Nat]
      BY <3>1 DEF TypeInv, TypeOK
    <3>4. QED
      BY <2>1, <2>2, <3>1, <3>2, <3>3 DEF TypeInv, TypeOK, Message
  <2>4. CASE data_channel_on_message_data
    <3>1. CASE UNCHANGED <<disk, dcfile, pool>>
      BY <2>1, <2>2, <3>1 DEF TypeInv, TypeOK, Message
    <3>2. CASE dcfile.name # NoVoice /\ dcfile.pos # dcfile.fsize
      <4> DEFINE pos == dcfile.pos + Head(channel).size
      <4>1. /\ disk' = [disk EXCEPT ![dcfile.name] = @ + Head(channel).size]
            /\ dcfile' = [dcfile EXCEPT !.pos = pos, !.open = pos # dcfile.fsize]
            /\ pool' = pool + (IF pos = dcfile.fsize THEN 1 ELSE 0)
        BY <2>4, <3>2 DEF data_channel_on_message_data
      <4>2. /\ Head(channel).size \in Nat /\ disk \in [Voice -> Nat]
            /\ dcfile \in [name : Voice \cup {NoVoice}, fsize : Nat, pos : Nat, open : BOOLEAN]
            /\ dcfile.name \in Voice /\ disk[dcfile.name] \in Nat
        BY <2>2, <3>2 DEF Message, TypeInv, TypeOK
      <4>3. disk' \in [Voice -> Nat]
        <5>1. disk[dcfile.name] + Head(channel).size \in Nat
          BY <4>2
        <5> HIDE DEF Voice
        <5>2. QED
          BY <4>1, <4>2, <5>1, SMTT(20)
      <4>4. /\ dcfile' \in [name : Voice \cup {NoVoice}, fsize : Nat, pos : Nat, open : BOOLEAN]
            /\ dcfile'.name = dcfile.name
        <5>1. pos \in Nat /\ (pos # dcfile.fsize) \in BOOLEAN
          BY <4>2
        <5> HIDE DEF pos, Voice, NoVoice
        <5>2. dcfile' = [name |-> dcfile.name, fsize |-> dcfile.fsize,
                         pos |-> pos, open |-> pos # dcfile.fsize]
          BY <4>1, <4>2
        <5>3. dcfile.name \in Voice \cup {NoVoice} /\ dcfile.fsize \in Nat
          BY <4>2
        <5>4. QED
          BY <5>1, <5>2, <5>3
      <4>5. pool' \in Nat
        <5>1. pool \in Nat
          BY DEF TypeInv, TypeOK
        <5> HIDE DEF pos
        <5>2. QED
          BY <4>1, <5>1
      <4>6. QED
        BY <2>1, <2>2, <3>2, <4>3, <4>4, <4>5 DEF TypeInv, TypeOK, Message
    <3>3. QED
      BY <2>4, <3>1, <3>2 DEF data_channel_on_message_data
  <2>5. QED
    BY <1>4, <2>3, <2>4 DEF SessionStep
<1>5. ASSUME play_voice PROVE TypeInv'
  <2>1. /\ dcfile.name \in Voice /\ disk[dcfile.name] \in Nat
        /\ pool - 1 \in Nat /\ pool - 1 < pool
    BY <1>5 DEF TypeInv, TypeOK, play_voice
  <2>2. played' \in Seq([voice : Voice, size : Nat])
    BY <1>5, <2>1 DEF TypeInv, TypeOK, play_voice
  <2>3. QED
    BY <1>5, <2>1, <2>2 DEF TypeInv, TypeOK, play_voice
<1>6. ASSUME UNCHANGED vars PROVE TypeInv'
  BY <1>6 DEF TypeInv, TypeOK, vars
<1>7. QED
  BY <1>1, <1>2, <1>3, <1>4, <1>5, <1>6 DEF Next, Record

\* What the session has once it has read the messages before the i-th.
After(s, m) ==
    IF m.what = "file" THEN [voice |-> m.voice, size |-> m.size, pos |-> 0]
                       ELSE [s EXCEPT !.pos = @ + m.size]

File == [voice : Voice \cup {NoVoice}, size : Nat, pos : Nat]

Reads(at) ==
    /\ at \in [0..Len(channel) -> File]
    /\ at[0] = [voice |-> dcfile.name, size |-> dcfile.fsize, pos |-> dcfile.pos]
    /\ \A i \in 1..Len(channel) : at[i] = After(at[i - 1], channel[i])

\* Data are of the file announced before them and never more than announced, and
\* as much only if the voice was sent whole.
Fits(at) ==
    /\ \A i \in 1..Len(channel) : channel[i].voice = at[i].voice
    /\ \A i \in 0..Len(channel) :
          /\ at[i].pos <= at[i].size
          /\ at[i].pos = at[i].size /\ at[i].size > 0
             => [voice |-> at[i].voice, size |-> at[i].size] \in whole

\* The last file announced is the last voice's; while it is read there are none
\* of its data.
Announced(at) ==
    /\ at[Len(channel)].voice = voices
    /\ reading # NotReading => /\ reading.voice = voices
                               /\ at[Len(channel)].size = reading.size
                               /\ at[Len(channel)].pos = 0

\* last is what the session will have when the channel is empty.
AheadBy(last) ==
    \E at : Reads(at) /\ Fits(at) /\ Announced(at) /\ at[Len(channel)] = last

AheadInv == \E last : AheadBy(last)

DiskInv ==
    /\ \A k \in Voice : disk[k] = IF k = dcfile.name THEN dcfile.pos ELSE 0
    /\ OpenWhileFilling

UploadInv == TypeInv /\ AheadInv /\ DiskInv

LEMMA AfterOne ==
    ASSUME NEW s \in File, NEW m \in Message
    PROVE  /\ After(s, m) \in File
           /\ m.what = "file" => After(s, m) = [voice |-> m.voice, size |-> m.size, pos |-> 0]
           /\ m.what = "data" => After(s, m) = [voice |-> s.voice, size |-> s.size,
                                                pos |-> s.pos + m.size]
           /\ m.what \in {"file", "data"} /\ m.voice \in Voice /\ m.size \in Nat
  BY DEF After, File, Message

LEMMA AheadRecord ==
    ASSUME UploadInv, NEW size \in Size, onstop(size)
    PROVE  AheadInv'
<1> DEFINE L == Len(channel)
<1>1. PICK at : Reads(at) /\ Fits(at) /\ Announced(at)
  BY DEF UploadInv, AheadInv, AheadBy
<1>2. /\ channel \in Seq(Message) /\ L \in Nat /\ size \in Nat
      /\ voices + 1 \in Voice
  BY SizesAssumption DEF UploadInv, TypeInv, TypeOK, Message, onstop, Voice
<1> DEFINE m == [what |-> "file", voice |-> voices + 1, size |-> size]
<1>3. m \in Message
  BY <1>2 DEF Message
<1>4. /\ channel' = Append(channel, m) /\ voices' = voices + 1
      /\ UNCHANGED <<dcfile, whole>>
      /\ reading'.voice = voices + 1 /\ reading'.size = size
  BY DEF onstop
<1>5. /\ Len(channel') = L + 1
      /\ \A i \in 1..L : channel'[i] = channel[i]
      /\ channel'[L + 1] = m
  BY <1>2, <1>3, <1>4, AppendOne
<1> DEFINE new == [voice |-> voices + 1, size |-> size, pos |-> 0]
<1>6. PICK b : b = [i \in 0..(L + 1) |-> IF i = L + 1 THEN new ELSE at[i]]
  OBVIOUS
<1>7. /\ \A i \in 0..L : b[i] = at[i]
      /\ b[L + 1] = new
  BY <1>2, <1>6
<1>8. new \in File /\ After(at[L], m) = new
  BY <1>2 DEF File, After
<1> HIDE DEF m, new, L
<1>9. Reads(b)'
  <2>1. b \in [0..Len(channel') -> File]
    BY <1>1, <1>2, <1>5, <1>6, <1>8 DEF Reads, L
  <2>2. b[0] = [voice |-> dcfile'.name, size |-> dcfile'.fsize, pos |-> dcfile'.pos]
    BY <1>1, <1>2, <1>4, <1>7 DEF Reads
  <2>3. ASSUME NEW i \in 1..Len(channel') PROVE b[i] = After(b[i - 1], channel'[i])
    <3>1. CASE i = L + 1
      <4>1. b[i] = new /\ b[i - 1] = at[L] /\ channel'[i] = m
        BY <1>2, <1>5, <1>7, <3>1
      <4>2. QED
        BY <1>8, <4>1
    <3>2. CASE i # L + 1
      <4>1. i \in 1..L /\ i \in 0..L /\ i - 1 \in 0..L
        BY <1>2, <1>5, <3>2
      <4>2. at[i] = After(at[i - 1], channel[i])
        BY <1>1, <4>1 DEF Reads, L
      <4>3. b[i] = at[i] /\ b[i - 1] = at[i - 1] /\ channel'[i] = channel[i]
        BY <1>5, <1>7, <4>1
      <4>4. QED
        BY <4>2, <4>3
    <3>3. QED
      BY <3>1, <3>2
  <2>4. QED
    BY <2>1, <2>2, <2>3 DEF Reads
<1>10. Fits(b)'
  <2>1. ASSUME NEW i \in 1..Len(channel') PROVE channel'[i].voice = b[i].voice
    <3>1. i = L + 1 \/ (i \in 1..L /\ i \in 0..L)
      BY <1>2, <1>5
    <3>2. QED
      BY <1>1, <1>5, <1>7, <3>1 DEF Fits, L, m, new
  <2>2. ASSUME NEW i \in 0..Len(channel')
        PROVE  /\ b[i].pos <= b[i].size
               /\ b[i].pos = b[i].size /\ b[i].size > 0
                  => [voice |-> b[i].voice, size |-> b[i].size] \in whole'
    <3>1. CASE i = L + 1
      BY <1>2, <1>7, <3>1 DEF new
    <3>2. CASE i # L + 1
      <4>1. i \in 0..L
        BY <1>2, <1>5, <3>2
      <4>2. QED
        BY <1>1, <1>4, <1>7, <4>1 DEF Fits, L
    <3>3. QED
      BY <3>1, <3>2
  <2>3. QED
    BY <2>1, <2>2 DEF Fits
<1>11. Announced(b)'
  BY <1>4, <1>5, <1>7 DEF Announced, new
<1>12. QED
  BY <1>9, <1>10, <1>11 DEF AheadInv, AheadBy

LEMMA AheadLoad ==
    ASSUME UploadInv, onload
    PROVE  \E last : /\ AheadBy(last)'
                     /\ last = [voice |-> reading.voice, size |-> reading.size,
                                pos |-> buffered' - buffered]
<1> DEFINE L == Len(channel)
<1>1. PICK at : Reads(at) /\ Fits(at) /\ Announced(at)
  BY DEF UploadInv, AheadInv, AheadBy
<1>2. /\ channel \in Seq(Message) /\ L \in Nat
      /\ reading # NotReading /\ reading.voice \in Voice /\ reading.size \in Nat
      /\ buffered \in Nat
      /\ UNCHANGED <<voices, dcfile>> /\ reading' = NotReading
  BY DEF UploadInv, TypeInv, TypeOK, Message, onload
<1>3. PICK loop, n : OnloadTurns(loop, n)
  BY OnloadSends DEF UploadInv
<1>4. /\ n \in Nat
      /\ \A i \in 0..n : /\ loop[i].buffered \in Nat
                          /\ buffered <= loop[i].buffered
                          /\ loop[i].buffered - buffered <= reading.size
                          /\ loop[i].buffered <= loop[n].buffered
      /\ loop[0].buffered = buffered
  BY <1>3 DEF OnloadTurns, Sends
<1>5. /\ Len(channel') = L + n
      /\ \A i \in 1..L : channel'[i] = channel[i]
      /\ \A i \in (L + 1)..(L + n) : channel'[i] = Slice(loop, i - L)
  <2>1. /\ channel' = channel \o [i \in 1..n |-> Slice(loop, i)]
        /\ [i \in 1..n |-> Slice(loop, i)] \in [1..n -> Message]
    BY <1>3 DEF OnloadTurns
  <2>2. PICK t : t = [i \in 1..n |-> Slice(loop, i)]
    OBVIOUS
  <2>3. /\ Len(channel') = L + n
        /\ \A i \in 1..L : channel'[i] = channel[i]
        /\ \A i \in (L + 1)..(L + n) : channel'[i] = t[i - L]
    BY <1>2, <1>4, <2>1, <2>2, AppendMany
  <2>4. \A i \in (L + 1)..(L + n) : t[i - L] = Slice(loop, i - L)
    BY <1>2, <1>4, <2>2
  <2>5. QED
    BY <2>3, <2>4
<1> DEFINE part(i) == [voice |-> reading.voice, size |-> reading.size,
                       pos |-> loop[i - L].buffered - buffered]
<1>6. PICK b : b = [i \in 0..(L + n) |-> IF i > L THEN part(i) ELSE at[i]]
  OBVIOUS
<1>7. at[L] = part(L)
  <2>1. at[L] \in File
    BY <1>1, <1>2 DEF Reads
  <2>2. at[L].voice = reading.voice /\ at[L].size = reading.size /\ at[L].pos = 0
    BY <1>1, <1>2 DEF Announced
  <2>3. loop[L - L].buffered - buffered = 0
    BY <1>2, <1>4
  <2>4. QED
    BY <2>1, <2>2, <2>3 DEF File
<1>8. /\ \A i \in 0..L : b[i] = at[i]
      /\ \A i \in L..(L + n) : b[i] = part(i)
  <2>1. /\ \A i \in 0..L : i \in 0..(L + n) /\ ~ (i > L)
        /\ \A i \in L..(L + n) : i \in 0..(L + n) /\ (i > L \/ i = L)
    BY <1>2, <1>4
  <2>2. \A i \in 0..L : b[i] = at[i]
    BY <1>6, <2>1
  <2>3. \A i \in L..(L + n) : b[i] = part(i)
    BY <1>6, <1>7, <2>1
  <2>4. QED
    BY <2>2, <2>3
<1>9. ASSUME NEW i \in L..(L + n)
      PROVE  /\ part(i) \in File
             /\ part(i).pos <= part(i).size
  <2>1. i - L \in 0..n
    BY <1>2, <1>4
  <2>2. loop[i - L].buffered - buffered \in Nat
    BY <1>2, <1>4, <2>1
  <2>3. loop[i - L].buffered - buffered <= reading.size
    BY <1>4, <2>1
  <2>4. QED
    BY <1>2, <2>2, <2>3 DEF File
<1>10. Reads(b)'
  <2>1. b \in [0..Len(channel') -> File]
    <3>1. \A i \in 0..(L + n) : b[i] \in File
      <4>1. SUFFICES ASSUME NEW i \in 0..(L + n) PROVE b[i] \in File
        OBVIOUS
      <4>2. i \in 0..L \/ i \in L..(L + n)
        BY <1>2, <1>4
      <4>3. i \in 0..L => at[i] \in File
        BY <1>1 DEF Reads
      <4> HIDE DEF part
      <4>4. QED
        BY <1>8, <1>9, <4>2, <4>3
    <3> HIDE DEF part
    <3>2. QED
      BY <1>5, <1>6, <3>1
  <2>2. b[0] = [voice |-> dcfile'.name, size |-> dcfile'.fsize, pos |-> dcfile'.pos]
    BY <1>1, <1>2, <1>8 DEF Reads
  <2>3. ASSUME NEW i \in 1..Len(channel') PROVE b[i] = After(b[i - 1], channel'[i])
    <3>1. CASE i > L
      <4>1. /\ i \in L..(L + n) /\ i - 1 \in L..(L + n) /\ i \in (L + 1)..(L + n)
            /\ i - L \in 0..n /\ (i - 1) - L \in 0..n /\ (i - L) - 1 = (i - 1) - L
        <5>1. i \in Nat /\ i > L /\ i <= L + n
          BY <1>5, <3>1
        <5>2. L \in Nat /\ n \in Nat
          BY <1>2, <1>4
        <5>3. QED
          BY <5>1, <5>2
      <4>2. b[i] = part(i) /\ b[i - 1] = part(i - 1) /\ channel'[i] = Slice(loop, i - L)
        BY <1>5, <1>8, <4>1
      <4>3. /\ loop[i - L].buffered \in Nat /\ loop[(i - 1) - L].buffered \in Nat
        BY <1>4, <4>1
      <4>4. loop[i - L].buffered - buffered
            = (loop[(i - 1) - L].buffered - buffered)
              + (loop[i - L].buffered - loop[(i - 1) - L].buffered)
        <5>1. \A x, y, z \in Nat : x - z = (y - z) + (x - y)
          OBVIOUS
        <5>2. QED
          BY <1>2, <4>3, <5>1
      <4>5. /\ channel'[i].what = "data"
            /\ channel'[i].size = loop[i - L].buffered - loop[(i - 1) - L].buffered
        BY <4>1, <4>2 DEF Slice
      <4>6. After(b[i - 1], channel'[i])
            = [voice |-> reading.voice, size |-> reading.size,
               pos |-> b[i - 1].pos + channel'[i].size]
        BY <4>2, <4>5 DEF After
      <4>7. b[i - 1].pos + channel'[i].size = loop[i - L].buffered - buffered
        BY <4>2, <4>4, <4>5
      <4>8. QED
        BY <4>2, <4>6, <4>7
    <3>2. CASE ~ (i > L)
      <4>1. i \in 1..L /\ i \in 0..L /\ i - 1 \in 0..L
        BY <1>2, <1>4, <1>5, <3>2
      <4>2. at[i] = After(at[i - 1], channel[i])
        BY <1>1, <4>1 DEF Reads
      <4>3. b[i] = at[i] /\ b[i - 1] = at[i - 1] /\ channel'[i] = channel[i]
        BY <1>5, <1>8, <4>1
      <4>4. QED
        BY <4>2, <4>3
    <3>3. QED
      BY <3>1, <3>2
  <2>4. QED
    BY <2>1, <2>2, <2>3 DEF Reads
<1>11. Fits(b)'
  <2>1. ASSUME NEW i \in 1..Len(channel') PROVE channel'[i].voice = b[i].voice
    <3>1. CASE i > L
      <4>1. i \in L..(L + n) /\ i \in (L + 1)..(L + n)
        BY <1>2, <1>4, <1>5, <3>1
      <4>2. b[i] = part(i) /\ channel'[i] = Slice(loop, i - L)
        BY <1>5, <1>8, <4>1
      <4>3. QED
        BY <4>2 DEF Slice
    <3>2. CASE ~ (i > L)
      <4>1. i \in 1..L /\ i \in 0..L
        BY <1>2, <1>4, <1>5, <3>2
      <4>2. QED
        BY <1>1, <1>5, <1>8, <4>1 DEF Fits
    <3>3. QED
      BY <3>1, <3>2
  <2>2. whole \subseteq whole'
    BY <1>3 DEF OnloadTurns
  <2>3. ASSUME NEW i \in 0..Len(channel')
        PROVE  /\ b[i].pos <= b[i].size
               /\ b[i].pos = b[i].size /\ b[i].size > 0
                  => [voice |-> b[i].voice, size |-> b[i].size] \in whole'
    <3>1. CASE i > L
      <4>1. i \in L..(L + n) /\ i - L \in 0..n /\ n > 0
        BY <1>2, <1>4, <1>5, <3>1
      <4>2. b[i] = part(i)
        BY <1>8, <4>1
      <4>3. b[i].pos <= b[i].size
        <5> HIDE DEF part
        <5>1. QED
          BY <1>9, <4>1, <4>2
      <4>4. ASSUME b[i].pos = b[i].size
            PROVE  [voice |-> b[i].voice, size |-> b[i].size] \in whole'
        <5>1. loop[i - L].buffered - buffered = reading.size
          BY <4>2, <4>4
        <5>2. n \in 0..n
          BY <1>4
        <5>3. loop[n].buffered - buffered = reading.size
          <6>1. /\ loop[i - L].buffered \in Nat /\ loop[n].buffered \in Nat
                /\ loop[i - L].buffered <= loop[n].buffered
                /\ loop[n].buffered - buffered <= reading.size
            BY <1>4, <4>1, <5>2
          <6>2. \A x, y, z, s \in Nat : x - z = s /\ x <= y /\ y - z <= s => y - z = s
            OBVIOUS
          <6>3. QED
            BY <1>2, <5>1, <6>1, <6>2
        <5>4. [voice |-> reading.voice, size |-> reading.size] \in whole'
          BY <1>3, <4>1, <5>3 DEF OnloadTurns
        <5>5. QED
          BY <4>2, <5>4
      <4>5. QED
        BY <4>3, <4>4
    <3>2. CASE ~ (i > L)
      <4>1. i \in 0..L
        BY <1>2, <1>4, <1>5, <3>2
      <4>2. QED
        BY <1>1, <1>8, <2>2, <4>1 DEF Fits
    <3>3. QED
      BY <3>1, <3>2
  <2>4. QED
    BY <2>1, <2>3 DEF Fits
<1>12. b[L + n] = [voice |-> reading.voice, size |-> reading.size,
                   pos |-> buffered' - buffered]
  <2>1. L + n \in L..(L + n) /\ (L + n) - L = n
    BY <1>2, <1>4
  <2>2. b[L + n] = part(L + n)
    BY <1>8, <2>1
  <2>3. buffered' = loop[n].buffered
    BY <1>3 DEF OnloadTurns
  <2>4. QED
    BY <2>1, <2>2, <2>3
<1>13. Announced(b)'
  <2>1. b[L + n].voice = voices
    BY <1>1, <1>2, <1>12 DEF Announced
  <2>2. QED
    BY <1>2, <1>5, <2>1 DEF Announced
<1>14. PICK last : last = b[L + n]
  OBVIOUS
<1>15. AheadBy(last)'
  BY <1>5, <1>10, <1>11, <1>13, <1>14 DEF AheadBy
<1>16. QED
  BY <1>12, <1>14, <1>15

LEMMA AheadRead ==
    ASSUME UploadInv, SessionStep, NEW last, AheadBy(last)
    PROVE  AheadBy(last)'
<1> DEFINE L == Len(channel)
<1>1. PICK at : Reads(at) /\ Fits(at) /\ Announced(at) /\ at[Len(channel)] = last
  BY DEF AheadBy
<1>2. /\ channel \in Seq(Message) /\ channel # <<>> /\ channel' = Tail(channel)
      /\ dcfile \in [name : Voice \cup {NoVoice}, fsize : Nat, pos : Nat, open : BOOLEAN]
      /\ UNCHANGED <<voices, reading, whole>>
  BY DEF UploadInv, TypeInv, TypeOK, Message, Receive, SessionStep,
         data_channel_on_message_string, data_channel_on_message_data
<1>3. /\ Head(channel) = channel[1] /\ channel[1] \in Message
      /\ L \in Nat \ {0} /\ Len(channel') = L - 1
      /\ \A i \in 1..(L - 1) : channel'[i] = channel[i + 1]
  BY <1>2, TakeOne
<1>4. /\ at[0] = [voice |-> dcfile.name, size |-> dcfile.fsize, pos |-> dcfile.pos]
      /\ at[1] = After(at[0], channel[1])
      /\ at[0] \in File /\ at[1] \in File
      /\ at[1].pos <= at[1].size /\ channel[1].voice = at[1].voice
  <2>1. 0 \in 0..L /\ 1 \in 0..L /\ 1 \in 1..L /\ 1 - 1 = 0
    BY <1>3
  <2>2. at[0] \in File /\ at[1] \in File
    BY <1>1, <2>1 DEF Reads
  <2>3. at[1] = After(at[1 - 1], channel[1])
    BY <1>1, <2>1 DEF Reads
  <2>4. at[1].pos <= at[1].size /\ channel[1].voice = at[1].voice
    BY <1>1, <2>1 DEF Fits
  <2>5. QED
    BY <1>1, <2>1, <2>2, <2>3, <2>4 DEF Reads
<1>5. at[1] = [voice |-> dcfile'.name, size |-> dcfile'.fsize, pos |-> dcfile'.pos]
  <2>1. CASE data_channel_on_message_string
    <3>1. /\ channel[1].what = "file"
          /\ dcfile' = [name |-> channel[1].voice, fsize |-> channel[1].size,
                        pos |-> 0, open |-> TRUE]
      BY <1>3, <2>1 DEF data_channel_on_message_string, Receive
    <3>2. QED
      BY <1>3, <1>4, <3>1, AfterOne
  <2>2. CASE data_channel_on_message_data
    <3>1. channel[1].what = "data"
      BY <1>3, <2>2 DEF data_channel_on_message_data, Receive
    <3>2. at[1] = [voice |-> dcfile.name, size |-> dcfile.fsize,
                   pos |-> dcfile.pos + channel[1].size]
      BY <1>3, <1>4, <3>1, AfterOne
    <3>3. channel[1].size \in Nat /\ channel[1].voice \in Voice
      BY <1>3 DEF Message
    <3>4. dcfile.name # NoVoice
      BY <1>4, <3>2, <3>3 DEF Voice, NoVoice
    <3>5. CASE dcfile.pos # dcfile.fsize
      BY <1>2, <1>3, <2>2, <3>2, <3>4, <3>5 DEF data_channel_on_message_data
    <3>6. CASE dcfile.pos = dcfile.fsize
      <4>1. dcfile' = dcfile
        BY <2>2, <3>6 DEF data_channel_on_message_data
      <4>2. channel[1].size = 0
        BY <1>2, <1>4, <3>2, <3>3, <3>6
      <4>3. QED
        BY <1>2, <3>2, <4>1, <4>2
    <3>7. QED
      BY <3>5, <3>6
  <2>3. QED
    BY <2>1, <2>2 DEF SessionStep
<1>6. PICK b : b = [i \in 0..(L - 1) |-> at[i + 1]]
  OBVIOUS
<1>7. \A i \in 0..(L - 1) : /\ i + 1 \in 0..L /\ i + 1 \in 1..L
                            /\ b[i] = at[i + 1]
  BY <1>3, <1>6
<1> HIDE DEF L
<1>8. Reads(b)'
  <2>1. b \in [0..Len(channel') -> File]
    BY <1>1, <1>3, <1>6, <1>7 DEF Reads, L
  <2>2. b[0] = [voice |-> dcfile'.name, size |-> dcfile'.fsize, pos |-> dcfile'.pos]
    BY <1>3, <1>5, <1>7
  <2>3. ASSUME NEW i \in 1..Len(channel') PROVE b[i] = After(b[i - 1], channel'[i])
    <3>1. /\ i \in 0..(L - 1) /\ i - 1 \in 0..(L - 1) /\ i \in 1..(L - 1)
          /\ (i - 1) + 1 = i /\ (i + 1) - 1 = i
      BY <1>3
    <3>2. b[i] = at[i + 1] /\ b[i - 1] = at[i] /\ channel'[i] = channel[i + 1]
      BY <1>3, <1>7, <3>1
    <3>3. at[i + 1] = After(at[(i + 1) - 1], channel[i + 1])
      BY <1>1, <1>7, <3>1 DEF Reads, L
    <3>4. QED
      BY <3>1, <3>2, <3>3
  <2>4. QED
    BY <2>1, <2>2, <2>3 DEF Reads
<1>9. Fits(b)'
  <2>1. ASSUME NEW i \in 1..Len(channel') PROVE channel'[i].voice = b[i].voice
    <3>1. i \in 0..(L - 1) /\ i \in 1..(L - 1)
      BY <1>3
    <3>2. channel[i + 1].voice = at[i + 1].voice
      BY <1>1, <1>7, <3>1 DEF Fits, L
    <3>3. QED
      BY <1>3, <1>7, <3>1, <3>2
  <2>2. ASSUME NEW i \in 0..Len(channel')
        PROVE  /\ b[i].pos <= b[i].size
               /\ b[i].pos = b[i].size /\ b[i].size > 0
                  => [voice |-> b[i].voice, size |-> b[i].size] \in whole'
    <3>1. i \in 0..(L - 1)
      BY <1>3
    <3>2. b[i] = at[i + 1] /\ i + 1 \in 0..L /\ whole' = whole
      BY <1>2, <1>7, <3>1
    <3>3. QED
      BY <1>1, <3>2 DEF Fits, L
  <2>3. QED
    BY <2>1, <2>2 DEF Fits
<1>10. b[Len(channel')] = last
  <2>1. L - 1 \in 0..(L - 1) /\ (L - 1) + 1 = L
    BY <1>3
  <2>2. QED
    BY <1>1, <1>3, <1>7, <2>1 DEF L
<1>11. Announced(b)'
  BY <1>1, <1>2, <1>10 DEF Announced, L
<1>12. QED
  BY <1>8, <1>9, <1>10, <1>11 DEF AheadBy

LEMMA AheadRest ==
    ASSUME UNCHANGED <<voices, reading, channel, dcfile, whole>>, NEW last, AheadBy(last)
    PROVE  AheadBy(last)'
  BY DEF AheadBy, Reads, Fits, Announced

LEMMA AheadStep == UploadInv /\ [Next]_vars => AheadInv'
<1> SUFFICES ASSUME UploadInv, [Next]_vars PROVE AheadInv'
  OBVIOUS
<1>1. PICK last : AheadBy(last)
  BY DEF UploadInv, AheadInv
<1>2. ASSUME AheadBy(last)' PROVE AheadInv'
  BY <1>2 DEF AheadInv
<1>3. CASE Drain
  BY <1>1, <1>2, <1>3, AheadRest DEF Drain
<1>4. CASE play_voice
  BY <1>1, <1>2, <1>4, AheadRest DEF play_voice
<1>5. CASE UNCHANGED vars
  BY <1>1, <1>2, <1>5, AheadRest DEF vars
<1>6. CASE SessionStep
  BY <1>1, <1>2, <1>6, AheadRead
<1>7. CASE onload
  <2>1. \E next : AheadBy(next)'
    BY <1>7, AheadLoad
  <2>2. QED
    BY <2>1 DEF AheadInv
<1>8. QED
  BY <1>3, <1>4, <1>5, <1>6, <1>7, AheadRecord DEF Next, Record

\* The session's file never holds more than was announced, and as much only if
\* the voice was sent whole.
LEMMA FileFits ==
    ASSUME UploadInv
    PROVE  /\ PosStopsAtSize
           /\ dcfile.pos = dcfile.fsize /\ dcfile.fsize > 0
              => [voice |-> dcfile.name, size |-> dcfile.fsize] \in whole
<1>1. PICK at : Reads(at) /\ Fits(at)
  BY DEF UploadInv, AheadInv, AheadBy
<1>2. 0 \in 0..Len(channel)
  BY DEF UploadInv, TypeInv, TypeOK
<1>3. /\ at[0].pos = dcfile.pos /\ at[0].size = dcfile.fsize /\ at[0].voice = dcfile.name
  BY <1>1 DEF Reads
<1>4. /\ at[0].pos <= at[0].size
      /\ at[0].pos = at[0].size /\ at[0].size > 0
         => [voice |-> at[0].voice, size |-> at[0].size] \in whole
  BY <1>1, <1>2 DEF Fits
<1>5. QED
  BY <1>3, <1>4 DEF PosStopsAtSize

LEMMA DiskStep == UploadInv /\ [Next]_vars => DiskInv'
<1> SUFFICES ASSUME UploadInv, [Next]_vars PROVE DiskInv'
  OBVIOUS
<1> USE DEF NoVoice
<1>1. ASSUME UNCHANGED <<dcfile, disk>> PROVE DiskInv'
  BY <1>1 DEF UploadInv, DiskInv, OpenWhileFilling
<1>2. /\ dcfile \in [name : Voice \cup {NoVoice}, fsize : Nat, pos : Nat, open : BOOLEAN]
      /\ disk \in [Voice -> Nat]
      /\ dcfile.pos <= dcfile.fsize
  BY FileFits DEF UploadInv, TypeInv, TypeOK, PosStopsAtSize
<1>3. CASE SessionStep
  <2>1. /\ channel \in Seq(Message) /\ channel # <<>>
    BY <1>3 DEF UploadInv, TypeInv, TypeOK, Message, Receive, SessionStep,
                data_channel_on_message_string, data_channel_on_message_data
  <2>2. Head(channel).voice \in Voice /\ Head(channel).size \in Nat
    <3>1. Head(channel) \in Message
      BY <2>1, TakeOne
    <3>2. QED
      BY <3>1 DEF Message
  <2>3. CASE data_channel_on_message_string
    <3>1. /\ dcfile' = [name |-> Head(channel).voice, fsize |-> Head(channel).size,
                        pos |-> 0, open |-> TRUE]
          /\ disk' = [k \in Voice |-> IF k = dcfile.name THEN 0 ELSE disk[k]]
      BY <2>3 DEF data_channel_on_message_string
    <3>2. \A k \in Voice : disk'[k] = 0
      BY <3>1 DEF UploadInv, DiskInv
    <3>3. Head(channel).voice # 0
      BY <2>2 DEF Voice
    <3>4. QED
      BY <2>2, <3>1, <3>2, <3>3 DEF DiskInv, OpenWhileFilling
  <2>4. CASE data_channel_on_message_data
    <3>1. CASE UNCHANGED <<disk, dcfile, pool>>
      BY <1>1, <3>1
    <3>2. CASE dcfile.name # NoVoice /\ dcfile.pos # dcfile.fsize
      <4> DEFINE pos == dcfile.pos + Head(channel).size
      <4>1. /\ disk' = [disk EXCEPT ![dcfile.name] = @ + Head(channel).size]
            /\ dcfile' = [dcfile EXCEPT !.pos = pos, !.open = pos # dcfile.fsize]
        BY <2>4, <3>2 DEF data_channel_on_message_data
      <4>2. /\ dcfile'.name = dcfile.name /\ dcfile'.pos = pos
            /\ dcfile'.fsize = dcfile.fsize
            /\ dcfile'.open <=> pos # dcfile.fsize
        BY <1>2, <4>1
      <4>3. dcfile.name \in Voice /\ dcfile.fsize # 0
        BY <1>2, <3>2
      <4>4. disk[dcfile.name] = dcfile.pos
        BY <4>3 DEF UploadInv, DiskInv
      <4>5. \A k \in Voice : disk'[k] = IF k = dcfile.name THEN pos ELSE 0
        BY <1>2, <4>1, <4>3, <4>4 DEF UploadInv, DiskInv
      <4>6. QED
        BY <3>2, <4>2, <4>3, <4>5 DEF DiskInv, OpenWhileFilling
    <3>3. QED
      BY <2>4, <3>1, <3>2 DEF data_channel_on_message_data
  <2>5. QED
    BY <1>3, <2>3, <2>4 DEF SessionStep
<1>4. CASE \E size \in Size : onstop(size)
  BY <1>1, <1>4 DEF onstop
<1>5. CASE onload
  BY <1>1, <1>5 DEF onload
<1>6. CASE Drain
  BY <1>1, <1>6 DEF Drain
<1>7. CASE play_voice
  BY <1>1, <1>7 DEF play_voice
<1>8. CASE UNCHANGED vars
  BY <1>1, <1>8 DEF vars
<1>9. QED
  BY <1>3, <1>4, <1>5, <1>6, <1>7, <1>8 DEF Next, Record

LEMMA UploadInit == Init => UploadInv
<1> SUFFICES ASSUME Init PROVE UploadInv
  OBVIOUS
<1> USE DEF Init, NoVoice
<1>1. TypeInv
  BY SizesAssumption DEF TypeInv, TypeOK, NotReading, Voice
<1>2. DiskInv
  BY DEF DiskInv, OpenWhileFilling, Voice
<1>3. AheadInv
  <2> DEFINE none == [voice |-> 0, size |-> 0, pos |-> 0]
  <2>1. PICK b : b = [i \in 0..0 |-> none]
    OBVIOUS
  <2>2. none \in File
    BY DEF File
  <2>3. Len(channel) = 0 /\ b[0] = none
    BY <2>1
  <2>4. Reads(b)
    BY <2>1, <2>2, <2>3 DEF Reads
  <2>5. Fits(b)
    BY <2>3 DEF Fits
  <2>6. Announced(b)
    BY <2>3 DEF Announced
  <2>7. QED
    BY <2>4, <2>5, <2>6 DEF AheadInv, AheadBy
<1>4. QED
  BY <1>1, <1>2, <1>3 DEF UploadInv

LEMMA UploadIsInvariant == Spec => []UploadInv
<1>1. UploadInv /\ [Next]_vars => UploadInv'
  BY TypeStep, AheadStep, DiskStep DEF UploadInv
<1>2. QED
  BY <1>1, UploadInit, PTL DEF Spec

\* Page, channel and session hold what they are meant to hold, and a thread is
\* only asked to play when there is a file: whatever the user does.
THEOREM UploadTypeCorrect == Spec => []TypeOK
<1>1. UploadInv => TypeOK
  BY DEF UploadInv, TypeInv
<1>2. QED
  BY <1>1, UploadIsInvariant, PTL

\* The bytes received for a file stop at its announced size exactly, however the
\* page's loop cuts it and whenever the transport takes the announcement (the
\* tests for equality at gst-app.c 1858 and 1862).
THEOREM ReceivedNeverExceedsSize == Spec => []PosStopsAtSize
<1>1. UploadInv => PosStopsAtSize
  BY FileFits
<1>2. QED
  BY <1>1, UploadIsInvariant, PTL

\* The session's file is open exactly while bytes of it are missing.
THEOREM FileIsOpenWhileFilling == Spec => []OpenWhileFilling
<1>1. UploadInv => OpenWhileFilling
  BY DEF UploadInv, DiskInv
<1>2. QED
  BY <1>1, UploadIsInvariant, PTL

\* What a voice has to be to be sent whole: larger than the channel's buffer was
\* after its announcement, and read only when that buffer is empty.
SentWholeIfDrained ==
    onload => whole' = IF buffered = 0 /\ reading.mark < reading.size
                       THEN whole \cup {[voice |-> reading.voice, size |-> reading.size]}
                       ELSE whole

\* The loop in fileReader.onload sends a whole voice exactly when nothing is left
\* in the channel's buffer (webrtc.js 638 starts the first slice at its
\* bufferedAmount) and the voice is larger than the buffer was when it was
\* recorded (the loop's own bufferedAmount starts there), for any sizes of voice,
\* announcement and chunks.
THEOREM VoicesAreSentWholeIfDrained == Spec => [][SentWholeIfDrained]_vars
<1>1. ASSUME UploadInv, onload PROVE SentWholeIfDrained
  <2>1. PICK loop, n : OnloadTurns(loop, n)
    BY <1>1, OnloadSends DEF UploadInv
  <2>2. buffered \in Nat /\ reading.size \in Nat /\ reading.mark \in Nat
    BY <1>1 DEF UploadInv, TypeInv, TypeOK
  <2>3. /\ n \in Nat /\ (n > 0 <=> reading.mark < reading.size)
        /\ n > 0 /\ buffered <= reading.size => buffered' = reading.size
        /\ buffered > reading.size => buffered' = buffered
    BY <2>1 DEF OnloadTurns, Sends
  <2>4. n > 0 /\ buffered' - buffered = reading.size
        <=> buffered = 0 /\ reading.mark < reading.size
    <3>1. CASE buffered <= reading.size
      BY <2>2, <2>3, <3>1
    <3>2. CASE buffered > reading.size
      BY <2>2, <2>3, <3>2
    <3>3. QED
      BY <2>2, <3>1, <3>2
  <2>5. QED
    BY <2>1, <2>4 DEF OnloadTurns, SentWholeIfDrained
<1>2. UploadInv => SentWholeIfDrained
  BY <1>1 DEF SentWholeIfDrained
<1>3. QED
  BY <1>2, UploadIsInvariant, PTL
-----------------------------------------------------------------------------
(* Under a patient user. *)

Full == dcfile.name # NoVoice /\ dcfile.pos = dcfile.fsize /\ dcfile.fsize > 0

\* An announcement is read before anything else of the voice is sent, and finds
\* no play request.
ChannelOrder ==
    /\ \A i \in DOMAIN channel :
          channel[i].what = "file" => i = 1 /\ pool = 0 /\ channel[i].voice > dcfile.name
    /\ reading # NotReading => \A i \in DOMAIN channel : channel[i].what = "file"

\* One request at most, for a full file; what has been played are whole voices
\* and none but a full file's is the session's.
PlayOrder ==
    /\ pool \in {0, 1}
    /\ pool = 1 => Full
    /\ \A i \in DOMAIN played :
          /\ played[i] \in whole
          /\ played[i].voice <= dcfile.name
          /\ played[i].voice = dcfile.name => Full /\ pool = 0
    /\ \A i, j \in DOMAIN played : i < j => played[i].voice < played[j].voice

\* A whole voice has been played, or waits for a thread, or is the one the
\* channel will have brought when it is empty, and is not there yet.
Coming(v, last) ==
    \/ \E i \in DOMAIN played : played[i].voice = v.voice
    \/ pool > 0 /\ dcfile.name = v.voice
    \/ /\ last = [voice |-> v.voice, size |-> v.size, pos |-> v.size]
       /\ v.size > 0
       /\ ~ (Full /\ dcfile.name = v.voice)

WayInv == \E last : AheadBy(last) /\ \A v \in whole : Coming(v, last)

PatientInv == UploadInv /\ ChannelOrder /\ PlayOrder /\ WayInv

\* A whole voice has been played, or waits for a thread, or has data on their
\* way: nothing of it is lost.
OnItsWay ==
    \A v \in whole :
        \/ \E i \in DOMAIN played : played[i].voice = v.voice
        \/ pool > 0 /\ dcfile.name = v.voice
        \/ \E i \in DOMAIN channel : channel[i].what = "data" /\ channel[i].voice = v.voice

LEMMA Types ==
    ASSUME PatientInv
    PROVE  /\ channel \in Seq(Message) /\ Len(channel) \in Nat
           /\ DOMAIN channel = 1..Len(channel)
           /\ played \in Seq([voice : Voice, size : Nat]) /\ Len(played) \in Nat
           /\ DOMAIN played = 1..Len(played)
           /\ dcfile.name \in Nat /\ dcfile.pos \in Nat /\ dcfile.fsize \in Nat
           /\ dcfile.pos <= dcfile.fsize
           /\ dcfile.name # NoVoice => dcfile.name \in Voice
           /\ buffered \in Nat /\ pool \in Nat
<1>1. PosStopsAtSize
  BY FileFits DEF PatientInv
<1>2. QED
  BY <1>1, SizesAssumption
  DEF PatientInv, UploadInv, TypeInv, TypeOK, Message, Voice, NoVoice, PosStopsAtSize

LEMMA ElementOfSequence ==
    ASSUME NEW M, NEW s \in Seq(M), NEW i \in DOMAIN s
    PROVE  s[i] \in M
OBVIOUS

LEMMA PlayedTypes ==
    ASSUME PatientInv, NEW i \in DOMAIN played
    PROVE  played[i].voice \in Nat
<1> DEFINE M == [voice : Voice, size : Nat]
<1>1. played \in Seq(M)
  BY Types
<1>2. ASSUME NEW r \in M PROVE r.voice \in Nat
  BY <1>2, SizesAssumption DEF Voice
<1> HIDE DEF M
<1>3. played[i] \in M
  BY <1>1, ElementOfSequence
<1>4. QED
  BY <1>2, <1>3

LEMMA WayIsOnItsWay == PatientInv => OnItsWay
<1>1. SUFFICES ASSUME PatientInv, NEW last, AheadBy(last),
                      NEW v \in whole, Coming(v, last),
                      ~ \E i \in DOMAIN played : played[i].voice = v.voice,
                      ~ (pool > 0 /\ dcfile.name = v.voice)
               PROVE  \E i \in DOMAIN channel : /\ channel[i].what = "data"
                                               /\ channel[i].voice = v.voice
  BY DEF PatientInv, WayInv, OnItsWay
<1> DEFINE L == Len(channel)
<1>2. PICK at : Reads(at) /\ Fits(at) /\ at[L] = last
  BY <1>1 DEF AheadBy
<1>3. /\ at[L] = [voice |-> v.voice, size |-> v.size, pos |-> v.size] /\ v.size > 0
      /\ ~ (Full /\ dcfile.name = v.voice)
  BY <1>1, <1>2 DEF Coming
<1>4. v.voice \in Voice
  BY <1>1 DEF PatientInv, UploadInv, TypeInv, TypeOK
<1>5. L # 0
  <2>1. ASSUME L = 0 PROVE FALSE
    <3>1. at[0] = [voice |-> dcfile.name, size |-> dcfile.fsize, pos |-> dcfile.pos]
      BY <1>2 DEF Reads
    <3>2. dcfile.name = v.voice /\ dcfile.fsize = v.size /\ dcfile.pos = v.size
      BY <1>3, <2>1, <3>1
    <3>3. QED
      BY <1>3, <1>4, <3>2 DEF Full, Voice, NoVoice
  <2>2. QED
    BY <2>1
<1>6. L \in 1..L /\ L \in DOMAIN channel /\ L - 1 \in 0..L
  BY <1>1, <1>5, Types
<1>7. channel[L] \in Message /\ at[L - 1] \in File
  <2>1. channel \in Seq(Message) /\ at \in [0..L -> File]
    BY <1>1, <1>2, Types DEF Reads
  <2>2. QED
    BY <1>6, <2>1
<1>8. at[L] = After(at[L - 1], channel[L]) /\ channel[L].voice = at[L].voice
  BY <1>2, <1>6 DEF Reads, Fits
<1>9. channel[L].what # "file"
  <2>1. ASSUME channel[L].what = "file" PROVE FALSE
    <3>1. at[L].pos = 0
      BY <1>7, <1>8, <2>1, AfterOne
    <3>2. QED
      BY <1>3, <3>1
  <2>2. QED
    BY <2>1
<1>10. channel[L].what = "data"
  BY <1>7, <1>9 DEF Message
<1>11. QED
  BY <1>3, <1>6, <1>8, <1>10

\* With nothing in the channel and nothing asked for, all whole voices have
\* been played.
LEMMA PatientRecord ==
    ASSUME PatientInv, Through, NEW size \in Size, onstop(size)
    PROVE  ChannelOrder' /\ PlayOrder' /\ WayInv'
<1> DEFINE m == [what |-> "file", voice |-> voices + 1, size |-> size]
<1>1. /\ channel = <<>> /\ pool = 0 /\ Len(channel) = 0
      /\ channel' = <<m>> /\ voices \in Nat
      /\ UNCHANGED <<dcfile, disk, pool, played, whole>>
  BY DEF Through, onstop, PatientInv, UploadInv, TypeInv, TypeOK
<1>2. dcfile.name = voices
  <2>1. PICK at : Reads(at) /\ Announced(at)
    BY DEF PatientInv, UploadInv, AheadInv, AheadBy
  <2>2. at[0].voice = voices /\ at[0].voice = dcfile.name
    BY <1>1, <2>1 DEF Reads, Announced
  <2>3. QED
    BY <2>2
<1>3. ChannelOrder'
  BY <1>1, <1>2 DEF ChannelOrder
<1>4. PlayOrder'
  BY <1>1 DEF PatientInv, PlayOrder, Full
<1>5. \A v \in whole : \E i \in DOMAIN played : played[i].voice = v.voice
  BY <1>1, WayIsOnItsWay DEF OnItsWay
<1>6. AheadInv'
  BY AheadRecord DEF PatientInv
<1>7. \A last : \A v \in whole' : Coming(v, last)'
  BY <1>1, <1>5 DEF Coming
<1>8. QED
  BY <1>3, <1>4, <1>6, <1>7 DEF AheadInv, WayInv

LEMMA PatientLoad ==
    ASSUME PatientInv, onload
    PROVE  ChannelOrder' /\ PlayOrder' /\ WayInv'
<1> DEFINE L == Len(channel)
<1>1. PICK loop, n : OnloadTurns(loop, n)
  BY OnloadSends DEF PatientInv, UploadInv
<1>2. /\ channel \in Seq(Message) /\ L \in Nat /\ n \in Nat
      /\ reading # NotReading /\ reading' = NotReading
      /\ reading.size \in Nat /\ reading.mark \in Nat /\ reading.voice \in Voice
      /\ UNCHANGED <<voices, dcfile, disk, pool, played>>
  BY <1>1 DEF PatientInv, UploadInv, TypeInv, TypeOK, Message, onload, OnloadTurns, Sends
<1>3. /\ Len(channel') = L + n
      /\ \A i \in 1..L : channel'[i] = channel[i]
      /\ \A i \in (L + 1)..(L + n) : channel'[i] = Slice(loop, i - L)
      /\ DOMAIN channel' = 1..(L + n)
  <2>1. /\ channel' = channel \o [i \in 1..n |-> Slice(loop, i)]
        /\ [i \in 1..n |-> Slice(loop, i)] \in [1..n -> Message]
    BY <1>1 DEF OnloadTurns
  <2>2. PICK t : t = [i \in 1..n |-> Slice(loop, i)]
    OBVIOUS
  <2>3. /\ Len(channel') = L + n
        /\ \A i \in 1..L : channel'[i] = channel[i]
        /\ \A i \in (L + 1)..(L + n) : channel'[i] = t[i - L]
        /\ channel' \in Seq(Message)
    BY <1>2, <2>1, <2>2, AppendMany
  <2>4. \A i \in (L + 1)..(L + n) : t[i - L] = Slice(loop, i - L)
    BY <1>2, <2>2
  <2>5. QED
    BY <2>3, <2>4
<1>4. ChannelOrder'
  <2>1. ASSUME NEW i \in DOMAIN channel', channel'[i].what = "file"
        PROVE  i = 1 /\ pool' = 0 /\ channel'[i].voice > dcfile'.name
    <3>1. i \in 1..L
      <4>1. ASSUME i \in (L + 1)..(L + n) PROVE channel'[i].what = "data"
        <5>1. channel'[i] = Slice(loop, i - L)
          BY <1>3, <4>1
        <5>2. QED
          BY <5>1 DEF Slice
      <4>2. QED
        BY <1>2, <1>3, <2>1, <4>1
    <3>2. channel'[i] = channel[i] /\ i \in DOMAIN channel
      BY <1>2, <1>3, <3>1
    <3>3. QED
      BY <1>2, <2>1, <3>2 DEF PatientInv, ChannelOrder
  <2>2. QED
    BY <1>2, <2>1 DEF ChannelOrder
<1>5. whole \subseteq whole'
  BY <1>1 DEF OnloadTurns
<1>6. PlayOrder'
  BY <1>2, <1>5 DEF PatientInv, PlayOrder, Full
<1>7. PICK at : Reads(at) /\ Fits(at) /\ Announced(at)
  BY DEF PatientInv, UploadInv, AheadInv, AheadBy
<1>8. reading.voice = voices /\ at[L].size = reading.size /\ at[L].pos = 0
  BY <1>2, <1>7 DEF Announced
\* The session has not got the file yet, or has nothing of it.
<1>9. ~ (Full /\ dcfile.name = reading.voice)
  <2>1. CASE L = 0
    BY <1>7, <1>8, <2>1 DEF Reads, Full
  <2>2. CASE L # 0
    <3>1. L \in DOMAIN channel /\ L \in 1..L
      BY <1>2, <2>2
    <3>2. channel[L].voice > dcfile.name /\ channel[L].voice = at[L].voice
      BY <1>2, <1>7, <3>1 DEF PatientInv, ChannelOrder, Fits
    <3>3. at[L].voice = voices
      BY <1>7 DEF Announced
    <3>4. dcfile.name \in Nat /\ channel[L].voice \in Nat
      <4>1. channel[L] \in Message
        BY <1>2, <3>1
      <4>2. channel[L].voice \in Nat
        BY <4>1, SizesAssumption DEF Message, Voice
      <4>3. QED
        BY <4>2, Types
    <3>5. QED
      BY <1>8, <3>2, <3>3, <3>4
  <2>3. QED
    BY <2>1, <2>2
<1>10. PICK last : /\ AheadBy(last)'
                  /\ last = [voice |-> reading.voice, size |-> reading.size,
                             pos |-> buffered' - buffered]
  BY AheadLoad DEF PatientInv
<1>11. ASSUME NEW v \in whole' PROVE Coming(v, last)'
  <2>1. CASE v \in whole
    \* While the blob is read, nothing is coming through the channel.
    <3>1. PICK before : AheadBy(before) /\ Coming(v, before)
      BY <2>1 DEF PatientInv, WayInv
    <3>2. PICK bt : Announced(bt) /\ bt[L] = before
      BY <3>1 DEF AheadBy
    <3>3. before.pos = 0
      BY <1>2, <3>2 DEF Announced
    <3>4. v.size \in Nat
      BY <2>1 DEF PatientInv, UploadInv, TypeInv, TypeOK
    <3>5. \/ \E i \in DOMAIN played : played[i].voice = v.voice
          \/ pool > 0 /\ dcfile.name = v.voice
      BY <3>1, <3>3, <3>4 DEF Coming
    <3>6. QED
      BY <1>2, <3>5 DEF Coming
  <2>2. CASE v \notin whole
    <3>1. /\ v = [voice |-> reading.voice, size |-> reading.size]
          /\ n > 0 /\ buffered' - buffered = reading.size
      BY <1>1, <1>11, <2>2 DEF OnloadTurns
    <3>2. reading.size > 0
      BY <1>1, <1>2, <3>1 DEF OnloadTurns, Sends
    <3>3. last = [voice |-> v.voice, size |-> v.size, pos |-> v.size] /\ v.size > 0
      BY <1>10, <3>1, <3>2
    <3>4. ~ (Full /\ dcfile.name = v.voice)'
      BY <1>2, <1>9, <3>1 DEF Full
    <3>5. QED
      BY <3>3, <3>4 DEF Coming
  <2>3. QED
    BY <2>1, <2>2
<1>12. QED
  BY <1>4, <1>6, <1>10, <1>11 DEF WayInv

LEMMA PatientRead ==
    ASSUME PatientInv, SessionStep
    PROVE  ChannelOrder' /\ PlayOrder' /\ WayInv'
<1> DEFINE L == Len(channel)
<1>1. /\ channel \in Seq(Message) /\ channel # <<>> /\ channel' = Tail(channel)
      /\ UNCHANGED <<voices, reading, buffered, played, whole>>
  BY DEF PatientInv, UploadInv, TypeInv, TypeOK, Message, Receive, SessionStep,
         data_channel_on_message_string, data_channel_on_message_data
<1>2. /\ Head(channel) = channel[1] /\ channel[1] \in Message
      /\ L \in Nat \ {0} /\ Len(channel') = L - 1
      /\ \A i \in 1..(L - 1) : channel'[i] = channel[i + 1]
      /\ DOMAIN channel' = 1..(L - 1)
  BY <1>1, TakeOne
\* Only the first message may be an announcement.
<1>3. \A i \in DOMAIN channel' : channel'[i].what # "file"
  <2>1. SUFFICES ASSUME NEW i \in 1..(L - 1) PROVE channel[i + 1].what # "file"
    BY <1>2
  <2>2. i + 1 \in DOMAIN channel /\ i + 1 # 1
    BY <1>1, <1>2, Types
  <2>3. QED
    BY <2>2 DEF PatientInv, ChannelOrder
<1>4. 1 \in DOMAIN channel
  BY <1>2, Types
<1>5. ChannelOrder'
  <2>1. ASSUME reading # NotReading PROVE DOMAIN channel' = {}
    <3>1. ASSUME L > 1 PROVE FALSE
      <4>1. 2 \in DOMAIN channel
        BY <1>2, <3>1, Types
      <4>2. QED
        BY <2>1, <4>1 DEF PatientInv, ChannelOrder
    <3>2. QED
      BY <1>2, <3>1
  <2>2. QED
    BY <1>1, <1>3, <2>1 DEF ChannelOrder
<1>6. PICK last : AheadBy(last) /\ \A v \in whole : Coming(v, last)
  BY DEF PatientInv, WayInv
<1>7. AheadBy(last)'
  BY <1>6, AheadRead DEF PatientInv
<1>8. CASE data_channel_on_message_string
  <2>1. /\ channel[1].what = "file"
        /\ dcfile' = [name |-> channel[1].voice, fsize |-> channel[1].size,
                      pos |-> 0, open |-> TRUE]
        /\ pool' = pool
    BY <1>2, <1>8 DEF data_channel_on_message_string, Receive
  <2>2. pool = 0 /\ channel[1].voice > dcfile.name
    BY <1>4, <2>1 DEF PatientInv, ChannelOrder
  <2>3. /\ dcfile'.name = channel[1].voice /\ dcfile'.name \in Nat
        /\ ~ Full'
    BY <1>2, <2>1, SizesAssumption DEF Full, Message, Voice
  <2>4. PlayOrder'
    <3>1. ASSUME NEW i \in DOMAIN played
          PROVE  played[i].voice < dcfile'.name
      <4>1. played[i].voice <= dcfile.name
        BY <3>1 DEF PatientInv, PlayOrder
      <4>2. played[i].voice \in Nat /\ dcfile.name \in Nat
        BY <3>1, Types, PlayedTypes
      <4>3. QED
        BY <2>2, <2>3, <4>1, <4>2
    <3>2. ASSUME NEW i \in DOMAIN played
          PROVE  played[i].voice <= dcfile'.name /\ played[i].voice # dcfile'.name
      <4>1. played[i].voice \in Nat
        BY <3>2, PlayedTypes
      <4>2. QED
        BY <2>3, <3>1, <4>1
    <3>3. QED
      BY <1>1, <2>1, <2>2, <3>2 DEF PatientInv, PlayOrder
  <2>5. ASSUME NEW v \in whole' PROVE Coming(v, last)'
    BY <1>1, <1>6, <2>1, <2>2, <2>3 DEF Coming
  <2>6. QED
    BY <1>5, <1>7, <2>4, <2>5 DEF WayInv
<1>9. CASE data_channel_on_message_data
  <2>1. CASE UNCHANGED <<disk, dcfile, pool>>
    <3>1. PlayOrder'
      BY <1>1, <2>1 DEF PatientInv, PlayOrder, Full
    <3>2. ASSUME NEW v \in whole' PROVE Coming(v, last)'
      BY <1>1, <1>6, <2>1 DEF Coming, Full
    <3>3. QED
      BY <1>5, <1>7, <3>1, <3>2 DEF WayInv
  <2>2. CASE dcfile.name # NoVoice /\ dcfile.pos # dcfile.fsize
    <3> DEFINE pos == dcfile.pos + Head(channel).size
    <3>1. /\ dcfile' = [dcfile EXCEPT !.pos = pos, !.open = pos # dcfile.fsize]
          /\ pool' = pool + (IF pos = dcfile.fsize THEN 1 ELSE 0)
      BY <1>9, <2>2 DEF data_channel_on_message_data
    <3>2. /\ dcfile'.name = dcfile.name /\ dcfile'.pos = pos
          /\ dcfile'.fsize = dcfile.fsize
      BY <3>1 DEF PatientInv, UploadInv, TypeInv, TypeOK
    <3>3. ~ Full /\ dcfile.fsize > 0
      BY <2>2, Types DEF Full
    <3>4. /\ pool = 0
          /\ \A i \in DOMAIN played : played[i].voice # dcfile.name
      BY <3>3 DEF PatientInv, PlayOrder
    <3>5. Full' <=> pos = dcfile.fsize
      BY <2>2, <3>2, <3>3 DEF Full
    <3>6. pool' = IF Full' THEN 1 ELSE 0
      BY <3>1, <3>4, <3>5
    <3>7. PlayOrder'
      BY <1>1, <3>2, <3>4, <3>6 DEF PatientInv, PlayOrder
    <3>8. ASSUME NEW v \in whole' PROVE Coming(v, last)'
      <4>1. CASE Full' /\ dcfile.name = v.voice
        BY <3>2, <3>6, <4>1 DEF Coming
      <4>2. CASE ~ (Full' /\ dcfile.name = v.voice)
        BY <1>1, <1>6, <3>2, <3>4, <4>2 DEF Coming
      <4>3. QED
        BY <4>1, <4>2
    <3>9. QED
      BY <1>5, <1>7, <3>7, <3>8 DEF WayInv
  <2>3. QED
    BY <1>9, <2>1, <2>2 DEF data_channel_on_message_data
<1>10. QED
  BY <1>8, <1>9 DEF SessionStep

LEMMA PatientPlay ==
    ASSUME PatientInv, play_voice
    PROVE  ChannelOrder' /\ PlayOrder' /\ WayInv'
<1> DEFINE heard == [voice |-> dcfile.name, size |-> disk[dcfile.name]]
<1>1. /\ pool = 1 /\ Full /\ pool' = 0
      /\ played' = Append(played, heard)
      /\ UNCHANGED <<voices, reading, buffered, channel, dcfile, disk, whole>>
  BY DEF play_voice, PatientInv, PlayOrder
<1>2. dcfile.name \in Voice /\ dcfile.name \in Nat
  BY <1>1, Types DEF Full
<1>3. heard = [voice |-> dcfile.name, size |-> dcfile.fsize] /\ heard \in whole
  <2>1. disk[dcfile.name] = dcfile.pos
    BY <1>2 DEF PatientInv, UploadInv, DiskInv
  <2>2. QED
    BY <1>1, <2>1, FileFits DEF PatientInv, Full
<1>4. heard \in [voice : Voice, size : Nat]
  BY <1>2, <1>3, Types
<1> DEFINE N == Len(played)
<1>5. /\ N \in Nat /\ DOMAIN played' = 1..(N + 1) /\ DOMAIN played = 1..N
      /\ \A i \in 1..N : played'[i] = played[i]
      /\ played'[N + 1] = heard
  <2>1. played \in Seq([voice : Voice, size : Nat])
    BY Types
  <2>2. QED
    BY <1>1, <1>4, <2>1, AppendOne
<1>6. \A i \in 1..N : played[i].voice < dcfile.name
  <2>1. SUFFICES ASSUME NEW i \in 1..N PROVE played[i].voice < dcfile.name
    OBVIOUS
  <2>2. i \in DOMAIN played
    BY <1>5, <2>1
  <2>3. played[i].voice <= dcfile.name /\ played[i].voice # dcfile.name
    BY <1>1, <2>2 DEF PatientInv, PlayOrder
  <2>4. played[i].voice \in Nat
    BY <2>2, PlayedTypes
  <2>5. QED
    BY <1>2, <2>3, <2>4
<1> HIDE DEF heard, N
<1>7. ChannelOrder'
  BY <1>1 DEF PatientInv, ChannelOrder
<1>8. PlayOrder'
  <2>1. ASSUME NEW i \in DOMAIN played'
        PROVE  /\ played'[i] \in whole'
               /\ played'[i].voice <= dcfile'.name
    <3>1. CASE i = N + 1
      BY <1>1, <1>2, <1>3, <1>5, <3>1
    <3>2. CASE i # N + 1
      <4>1. i \in 1..N /\ i \in DOMAIN played
        BY <1>5, <2>1, <3>2
      <4>2. QED
        BY <1>1, <1>5, <4>1 DEF PatientInv, PlayOrder
    <3>3. QED
      BY <3>1, <3>2
  <2>2. ASSUME NEW i \in DOMAIN played', NEW j \in DOMAIN played', i < j
        PROVE  played'[i].voice < played'[j].voice
    <3>1. i \in 1..N
      BY <1>5, <2>2
    <3>2. CASE j = N + 1
      BY <1>3, <1>5, <1>6, <3>1, <3>2
    <3>3. CASE j # N + 1
      <4>1. j \in 1..N
        BY <1>5, <2>2, <3>3
      <4>2. QED
        BY <1>5, <2>2, <3>1, <4>1 DEF PatientInv, PlayOrder
    <3>4. QED
      BY <3>2, <3>3
  <2>3. Full'
    BY <1>1 DEF Full
  <2>4. QED
    BY <1>1, <2>1, <2>2, <2>3 DEF PlayOrder
<1>9. PICK last : AheadBy(last) /\ \A v \in whole : Coming(v, last)
  BY DEF PatientInv, WayInv
<1>10. AheadBy(last)'
  BY <1>1, <1>9, AheadRest
<1>11. ASSUME NEW v \in whole' PROVE Coming(v, last)'
  <2>1. Coming(v, last)
    BY <1>1, <1>9
  <2>2. CASE \E i \in DOMAIN played : played[i].voice = v.voice
    <3>1. \E i \in DOMAIN played' : played'[i].voice = v.voice
      BY <1>5, <2>2
    <3>2. QED
      BY <3>1 DEF Coming
  <2>3. CASE dcfile.name = v.voice
    <3>1. N + 1 \in DOMAIN played' /\ played'[N + 1].voice = v.voice
      BY <1>3, <1>5, <2>3
    <3>2. QED
      BY <3>1 DEF Coming
  <2>4. CASE ~ \E i \in DOMAIN played : played[i].voice = v.voice /\ dcfile.name # v.voice
    BY <1>1, <2>1, <2>2, <2>3, <2>4 DEF Coming, Full
  <2>5. QED
    BY <2>2, <2>3, <2>4
<1>12. QED
  BY <1>7, <1>8, <1>10, <1>11 DEF WayInv

LEMMA PatientStep == PatientInv /\ [PatientNext]_vars => PatientInv'
<1> SUFFICES ASSUME PatientInv, [PatientNext]_vars PROVE PatientInv'
  OBVIOUS
<1>1. UploadInv'
  BY TypeStep, AheadStep, DiskStep DEF PatientInv, UploadInv, PatientNext, Next
<1>2. ASSUME UNCHANGED <<voices, reading, channel, dcfile, disk, pool, played, whole>>
      PROVE  ChannelOrder' /\ PlayOrder' /\ WayInv'
  <2>1. ChannelOrder' /\ PlayOrder'
    BY <1>2 DEF PatientInv, ChannelOrder, PlayOrder, Full
  <2>2. PICK last : AheadBy(last) /\ \A v \in whole : Coming(v, last)
    BY DEF PatientInv, WayInv
  <2>3. AheadBy(last)'
    BY <1>2, <2>2, AheadRest
  <2>4. \A v \in whole' : Coming(v, last)'
    BY <1>2, <2>2 DEF Coming, Full
  <2>5. QED
    BY <2>1, <2>3, <2>4 DEF WayInv
<1>3. ChannelOrder' /\ PlayOrder' /\ WayInv'
  <2>1. CASE Through /\ Record
    BY <2>1, PatientRecord DEF Record
  <2>2. CASE onload
    BY <2>2, PatientLoad
  <2>3. CASE Drain
    BY <1>2, <2>3 DEF Drain
  <2>4. CASE SessionStep
    BY <2>4, PatientRead
  <2>5. CASE play_voice
    BY <2>5, PatientPlay
  <2>6. CASE UNCHANGED vars
    BY <1>2, <2>6 DEF vars
  <2>7. QED
    BY <2>1, <2>2, <2>3, <2>4, <2>5, <2>6 DEF PatientNext
<1>4. QED
  BY <1>1, <1>3 DEF PatientInv

LEMMA PatientIsInvariant == PatientSpec => []PatientInv
<1>1. Init => PatientInv
  <2>1. SUFFICES ASSUME Init PROVE ChannelOrder /\ PlayOrder /\ WayInv
    BY UploadInit DEF PatientInv
  <2>2. UploadInv
    BY <2>1, UploadInit
  <2>3. PICK last : AheadBy(last)
    BY <2>2 DEF UploadInv, AheadInv
  <2>4. QED
    BY <2>1, <2>3 DEF Init, ChannelOrder, PlayOrder, WayInv
<1>2. QED
  BY <1>1, PatientStep, PTL DEF PatientSpec

\* A patient user's voices are played to the last byte, each once and in the
\* order of recording: the pool's threads read the item's file name when they
\* run, and it is still the one they were asked to play.
THEOREM VoicesAreHeardInOrder == PatientSpec => []HeardWholeOnceInOrder
<1>1. PatientInv => HeardWholeOnceInOrder
  BY DEF PatientInv, PlayOrder, HeardWholeOnceInOrder
<1>2. QED
  BY <1>1, PatientIsInvariant, PTL

\* No voice that was sent whole is lost: it has been played, or a thread is
\* asked to play it, or data of it are still to be read.  (That it is played in
\* the end is WholeVoiceIsHeard.)
THEOREM WholeVoicesAreOnTheirWay == PatientSpec => []OnItsWay
<1>1. QED
  BY WayIsOnItsWay, PatientIsInvariant, PTL
=============================================================================
