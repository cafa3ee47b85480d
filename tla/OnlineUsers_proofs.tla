-------------------------- MODULE OnlineUsers_proofs --------------------------
(***************************************************************************)
(* While no address comes back the list is true and the pages converge to  *)
(* it, for any pages, addresses and number of rows.                        *)
(***************************************************************************)
EXTENDS OnlineUsers, FiniteSetTheorems, SequenceTheorems, TLAPS

HasSession(p) == page[p] \in {"announcing", "announced", "anonymous"}

\* A page has a session exactly when it believes so, and only one.
OneSession ==
    /\ \A a \in Addr : table[a] # NoPage => HasSession(table[a]) /\ a \in usedAddr
    /\ \A a, b \in Addr : table[a] # NoPage /\ table[a] = table[b] => a = b
    /\ \A p \in Page : HasSession(p) => \E a \in Addr : table[a] = p

\* A row whose session lives is the announcement of that session's page, and
\* is not outdated.
Live(i) == table[log[i].hashid] # NoPage

LiveRows ==
    \A i \in 1..Len(log) :
        /\ log[i].hashid \in usedAddr
        /\ Live(i) => /\ table[log[i].hashid] = log[i].username
                      /\ page[log[i].username] = "announced"
                      /\ log[i].outdates = 0

\* A session is announced once, and an announced page has its row.
OneRow ==
    /\ \A i, j \in 1..Len(log) : Live(i) /\ log[i].hashid = log[j].hashid => i = j
    /\ \A p \in Page : page[p] = "announced" =>
          \E i \in 1..Len(log) : table[log[i].hashid] = p

FreshInv ==
    /\ TypeOK
    /\ OneSession
    /\ LiveRows
    /\ OneRow
    /\ PagesAreCurrent
-----------------------------------------------------------------------------
\* The types of the parts of a state.
LEMMA Types ==
    ASSUME TypeOK
    PROVE  /\ log \in Seq(Row) /\ Len(log) \in Nat /\ Len(log) <= MaxRows
           /\ DOMAIN log = 1..Len(log)
           /\ \A i \in 1..Len(log) : /\ log[i] \in Row /\ log[i].hashid \in Addr
                                     /\ log[i].username \in Page /\ log[i].outdates \in Nat
           /\ \A a \in Addr : table[a] \in Page \cup {NoPage}
           /\ \A p \in Page : inbox[p] \in Seq(List)
<1>1. log \in Seq(Row)
  BY DEF TypeOK
<1>2. Len(log) \in Nat /\ DOMAIN log = 1..Len(log) /\ \A i \in 1..Len(log) : log[i] \in Row
  BY <1>1
<1> QED BY <1>1, <1>2 DEF TypeOK, Row

\* The query returns a list: a user has at most as many rows as there are.
LEMMA QueryType ==
    ASSUME NEW tab, NEW rows \in Seq(Row), Len(rows) <= MaxRows
    PROVE  get_online_user_list(tab, rows) \in List
<1> DEFINE S(u) == {i \in DOMAIN rows : rows[i].username = u /\ tab[rows[i].hashid] # NoPage}
<1>1. Len(rows) \in Nat /\ DOMAIN rows = 1..Len(rows)
  OBVIOUS
<1>2. IsFiniteSet(1..Len(rows)) /\ Cardinality(1..Len(rows)) <= Len(rows)
  BY <1>1, FS_Interval
<1>3. ASSUME NEW u \in Page PROVE Cardinality(S(u)) \in 0..MaxRows
  <2>1. S(u) \subseteq 1..Len(rows)
    BY <1>1
  <2>2. /\ IsFiniteSet(S(u)) /\ Cardinality(S(u)) <= Cardinality(1..Len(rows))
        /\ Cardinality(S(u)) \in Nat /\ Cardinality(1..Len(rows)) \in Nat
    BY <1>2, <2>1, FS_Subset, FS_CardinalityType
  <2> HIDE DEF S
  <2> QED BY <1>1, <1>2, <2>2, MaxRowsAssumption
<1> QED BY <1>3 DEF get_online_user_list, List

\* What the query returns depends on which rows are of connected sessions.
LEMMA SameQuery ==
    ASSUME NEW tab, NEW tab2, NEW rows \in Seq(Row),
           \A i \in 1..Len(rows) : tab[rows[i].hashid] = tab2[rows[i].hashid]
    PROVE  get_online_user_list(tab, rows) = get_online_user_list(tab2, rows)
<1>1. DOMAIN rows = 1..Len(rows)
  OBVIOUS
<1>2. \A u \in Page :
        {i \in DOMAIN rows : rows[i].username = u /\ tab[rows[i].hashid] # NoPage}
          = {i \in DOMAIN rows : rows[i].username = u /\ tab2[rows[i].hashid] # NoPage}
  BY <1>1
<1> QED BY <1>2 DEF get_online_user_list

\* A message that is added to a queue is the last of it.
LEMMA LastIsNew ==
    ASSUME NEW q \in Seq(List), NEW l \in List
    PROVE  /\ Append(q, l) \in Seq(List) /\ Append(q, l) # <<>>
           /\ Append(q, l)[Len(Append(q, l))] = l
  OBVIOUS

\* Reading a message leaves the last one the last, or was reading it.
LEMMA LastStays ==
    ASSUME NEW q \in Seq(List), q # <<>>
    PROVE  /\ Tail(q) \in Seq(List) /\ Head(q) \in List
           /\ Tail(q) = <<>> => Head(q) = q[Len(q)]
           /\ Tail(q) # <<>> => Tail(q)[Len(Tail(q))] = q[Len(q)]
<1>1. /\ Len(q) \in Nat /\ Len(q) > 0 /\ Tail(q) \in Seq(List) /\ Head(q) \in List
      /\ Head(q) = q[1] /\ Len(Tail(q)) = Len(q) - 1
      /\ \A i \in 1..(Len(q) - 1) : Tail(q)[i] = q[i + 1]
  OBVIOUS
<1>2. Tail(q) = <<>> <=> Len(q) = 1
  <2>1. PICK t \in Seq(List) : t = Tail(q)
    BY <1>1
  <2>2. t = <<>> <=> Len(t) = 0
    BY EmptySeq
  <2>3. Len(t) = Len(q) - 1
    BY <1>1, <2>1
  <2>4. Len(t) = 0 <=> Len(q) = 1
    BY <1>1, <2>3
  <2> QED BY <2>1, <2>2, <2>4
<1>3. Tail(q) # <<>> => Len(q) - 1 \in 1..(Len(q) - 1) /\ (Len(q) - 1) + 1 = Len(q)
  BY <1>1, <1>2
<1> QED BY <1>1, <1>2, <1>3

\* update_online_users gives every connected page the list.
LEMMA EverybodyIsTold ==
    ASSUME NEW tab \in [Addr -> Page \cup {NoPage}], NEW rows \in Seq(Row),
           Len(rows) <= MaxRows, NEW box \in [Page -> Seq(List)]
    PROVE  LET b == update_online_users(tab, rows, box)
               l == get_online_user_list(tab, rows)
           IN  /\ b \in [Page -> Seq(List)]
               /\ \A p \in Page : (\E a \in Addr : tab[a] = p) =>
                     b[p] # <<>> /\ b[p][Len(b[p])] = l
<1>1. PICK l \in List : l = get_online_user_list(tab, rows)
  BY QueryType
<1>2. PICK b : b = update_online_users(tab, rows, box)
  OBVIOUS
<1>3. b = [p \in Page |-> IF \E a \in Addr : tab[a] = p THEN Append(box[p], l) ELSE box[p]]
  BY <1>1, <1>2 DEF update_online_users
<1>4. ASSUME NEW p \in Page
      PROVE  /\ b[p] \in Seq(List)
             /\ (\E a \in Addr : tab[a] = p) => b[p] # <<>> /\ b[p][Len(b[p])] = l
  <2>1. box[p] \in Seq(List)
    OBVIOUS
  <2>2. /\ Append(box[p], l) \in Seq(List) /\ Append(box[p], l) # <<>>
        /\ Append(box[p], l)[Len(Append(box[p], l))] = l
    BY <2>1, LastIsNew
  <2>3. b[p] = IF \E a \in Addr : tab[a] = p THEN Append(box[p], l) ELSE box[p]
    BY <1>3
  <2> QED BY <2>1, <2>2, <2>3
<1>5. b \in [Page -> Seq(List)]
  BY <1>3, <1>4
<1> QED BY <1>1, <1>2, <1>4, <1>5

\* The log after a connection's rows have been outdated.
LEMMA Outdated ==
    ASSUME TypeOK, NEW a \in Addr
    PROVE  /\ SetOutdate(a) \in Seq(Row) /\ Len(SetOutdate(a)) = Len(log)
           /\ \A i \in 1..Len(log) :
                 /\ SetOutdate(a)[i].hashid = log[i].hashid
                 /\ SetOutdate(a)[i].username = log[i].username
                 /\ log[i].hashid # a => SetOutdate(a)[i] = log[i]
<1> DEFINE row(i) == IF log[i].hashid = a THEN [log[i] EXCEPT !.outdates = @ + 1] ELSE log[i]
<1>1. SetOutdate(a) = [i \in 1..Len(log) |-> row(i)]
  BY Types DEF SetOutdate
<1>2. ASSUME NEW i \in 1..Len(log)
      PROVE  /\ row(i) \in Row /\ row(i).hashid = log[i].hashid
             /\ row(i).username = log[i].username
             /\ log[i].hashid # a => row(i) = log[i]
  <2>1. PICK r \in Row : r = log[i]
    BY Types
  <2>2. /\ [r EXCEPT !.outdates = @ + 1] \in Row
        /\ [r EXCEPT !.outdates = @ + 1].hashid = r.hashid
        /\ [r EXCEPT !.outdates = @ + 1].username = r.username
    BY DEF Row
  <2> QED BY <2>1, <2>2
<1>3. SetOutdate(a) \in [1..Len(log) -> Row] /\ Len(log) \in Nat
  BY <1>1, <1>2, Types
<1>4. SetOutdate(a) \in Seq(Row)
  BY <1>3, SeqDef
<1>5. Len(SetOutdate(a)) = Len(log)
  BY <1>3, <1>4
<1>6. \A i \in 1..Len(log) : SetOutdate(a)[i] = row(i)
  BY <1>1
<1> QED BY <1>2, <1>4, <1>5, <1>6
-----------------------------------------------------------------------------
\* Types are kept, whether addresses come back or not.
LEMMA TypeStep == TypeOK /\ [Next]_vars => TypeOK'
<1> SUFFICES ASSUME TypeOK, [Next]_vars PROVE TypeOK'
  OBVIOUS
<1>0. inbox \in [Page -> Seq(List)] /\ table \in [Addr -> Page \cup {NoPage}] /\ log \in Seq(Row)
  BY DEF TypeOK
<1>1. ASSUME NEW p \in Page, NEW a \in Addr, Open(p, a) PROVE TypeOK'
  BY <1>1 DEF Open, TypeOK
<1>2. ASSUME NEW p \in Page, NEW a \in Addr, Announce(p, a) PROVE TypeOK'
  <2>1. PICK r \in Row : r = [hashid |-> a, username |-> p, outdates |-> 0]
    BY DEF Row
  <2>2. log' = Append(log, r) /\ Len(log) < MaxRows
    BY <1>2, <2>1 DEF Announce
  <2>3. log' \in Seq(Row) /\ Len(log') <= MaxRows
    BY <1>0, <2>2, MaxRowsAssumption
  <2>4. inbox' \in [Page -> Seq(List)]
    BY <1>0, <1>2, <2>3, EverybodyIsTold DEF Announce
  <2> QED BY <1>2, <2>3, <2>4 DEF Announce, TypeOK
<1>3. ASSUME NEW p \in Page, NEW a \in Addr, Close(p, a) PROVE TypeOK'
  <2>1. log' \in Seq(Row) /\ Len(log') <= MaxRows
    BY <1>3, Outdated, Types DEF Close
  <2>2. table' \in [Addr -> Page \cup {NoPage}]
    BY <1>0, <1>3 DEF Close
  <2>3. update_online_users(table', log', inbox) \in [Page -> Seq(List)]
    BY <1>0, <2>1, <2>2, EverybodyIsTold
  <2>4. inbox' \in [Page -> Seq(List)]
    <3>1. PICK u \in [Page -> Seq(List)] : inbox' = [u EXCEPT ![p] = <<>>]
      BY <1>3, <2>3 DEF Close
    <3>2. <<>> \in Seq(List)
      OBVIOUS
    <3> QED BY <3>1, <3>2
  <2> QED BY <1>3, <2>1, <2>2, <2>4 DEF Close, TypeOK
<1>4. ASSUME NEW p \in Page, addOnlineUserList(p) PROVE TypeOK'
  <2>1. inbox[p] \in Seq(List) /\ inbox[p] # <<>>
    BY <1>0, <1>4 DEF addOnlineUserList
  <2>2. Tail(inbox[p]) \in Seq(List) /\ Head(inbox[p]) \in List
    BY <2>1, LastStays
  <2> QED BY <1>4, <2>2 DEF addOnlineUserList, TypeOK
<1>5. ASSUME NEW p \in Page, Reload(p) PROVE TypeOK'
  <2>1. Nothing \in List
    BY MaxRowsAssumption DEF Nothing, List
  <2> QED BY <1>5, <2>1 DEF Reload, TypeOK
<1>6. CASE Restart
  <2>1. inbox' \in [Page -> Seq(List)]
    BY <1>6 DEF Restart
  <2> QED BY <1>6, <2>1 DEF Restart, TypeOK
<1>7. CASE UNCHANGED vars
  BY <1>7 DEF vars, TypeOK
<1> QED BY <1>1, <1>2, <1>3, <1>4, <1>5, <1>6, <1>7 DEF Next, PageNext
-----------------------------------------------------------------------------
\* A session at a fresh address has no rows, so the list is what it was.
LEMMA OpenFresh ==
    ASSUME FreshInv, TypeOK', NEW p \in Page, NEW a \in Addr \ usedAddr, Open(p, a)
    PROVE  FreshInv'
<1>1. /\ page[p] \in {"loaded", "lost"} /\ table' = [table EXCEPT ![a] = p]
      /\ usedAddr' = usedAddr \cup {a} /\ log' = log /\ inbox' = inbox /\ shown' = shown
      /\ page' = [page EXCEPT ![p] = IF @ = "loaded" THEN "announcing" ELSE "anonymous"]
  BY DEF Open
<1>2. \A b \in Addr : table'[b] = IF b = a THEN p ELSE table[b]
  BY <1>1 DEF FreshInv, TypeOK
<1>3. /\ \A q \in Page : q # p => page'[q] = page[q]
      /\ page'[p] \in {"announcing", "anonymous"}
  BY <1>1 DEF FreshInv, TypeOK
<1>4. \A b \in Addr : table[b] # p
  BY <1>1, NoPageAssumption DEF FreshInv, OneSession, HasSession
<1>5. \A i \in 1..Len(log) : /\ log[i].hashid \in Addr /\ log[i].hashid # a
                             /\ log[i].username \in Page
                             /\ table'[log[i].hashid] = table[log[i].hashid]
  BY <1>2, Types DEF FreshInv, LiveRows
<1>6. OneSession'
  <2>1. \A b \in Addr : table'[b] # NoPage => 
            page'[table'[b]] \in {"announcing", "announced", "anonymous"} /\ b \in usedAddr'
    BY <1>1, <1>2, <1>3, <1>4 DEF FreshInv, OneSession, HasSession, TypeOK
  <2>2. \A b, c \in Addr : table'[b] # NoPage /\ table'[b] = table'[c] => b = c
    BY <1>2, <1>4 DEF FreshInv, OneSession
  <2>3. \A q \in Page : HasSession(q)' => \E b \in Addr : table'[b] = q
    <3>1. ASSUME NEW q \in Page, HasSession(q)', q # p PROVE \E b \in Addr : table'[b] = q
      <4>1. PICK b \in Addr : table[b] = q
        BY <1>3, <3>1 DEF FreshInv, OneSession, HasSession
      <4>2. b # a
        BY <1>1, <4>1, NoPageAssumption DEF FreshInv, OneSession
      <4> QED BY <1>2, <4>1, <4>2
    <3>2. a \in Addr /\ table'[a] = p
      BY <1>2
    <3> QED BY <3>1, <3>2
  <2> QED BY <2>1, <2>2, <2>3 DEF OneSession, HasSession
<1>7. LiveRows'
  <2>1. \A i \in 1..Len(log) : Live(i) => log[i].username # p
    BY <1>4, <1>5 DEF FreshInv, LiveRows
  <2> QED BY <1>1, <1>3, <1>5, <2>1 DEF FreshInv, LiveRows, Live
<1>8. OneRow'
  BY <1>1, <1>3, <1>5 DEF FreshInv, OneRow, Live
<1>9. Online' = Online
  BY <1>1, <1>5, SameQuery, Types DEF Online, FreshInv
<1>10. PagesAreCurrent'
  <2> SUFFICES ASSUME NEW q \in Page, page'[q] = "announced"
               PROVE  Online = (IF inbox[q] = <<>> THEN shown[q] ELSE inbox[q][Len(inbox[q])])
    BY <1>1, <1>9 DEF PagesAreCurrent
  <2> QED BY <1>3 DEF FreshInv, PagesAreCurrent
<1> QED BY <1>6, <1>7, <1>8, <1>10 DEF FreshInv

\* A row is added for the one session of its page, and everybody is told.
LEMMA AnnounceFresh ==
    ASSUME FreshInv, TypeOK', NEW p \in Page, NEW a \in Addr, Announce(p, a)
    PROVE  FreshInv'
<1>1. PICK r \in Row : r = [hashid |-> a, username |-> p, outdates |-> 0]
  BY DEF Row
<1>2. /\ page[p] = "announcing" /\ table[a] = p /\ page' = [page EXCEPT ![p] = "announced"]
      /\ log' = Append(log, r) /\ inbox' = update_online_users(table, log', inbox)
      /\ table' = table /\ usedAddr' = usedAddr
  BY <1>1 DEF Announce
<1> PICK n \in Nat : Len(log) = n /\ Len(log') = n + 1
  <2>1. Len(log) \in Nat /\ Len(log') = Len(log) + 1
    BY <1>2, Types DEF FreshInv
  <2> QED BY <2>1
<1>3. log'[n + 1] = r /\ \A i \in 1..n : log'[i] = log[i]
  BY <1>2, Types DEF FreshInv
<1>4. \A i \in 1..(n + 1) : i = n + 1 \/ i \in 1..n
  OBVIOUS
<1>5. \A q \in Page : page'[q] = IF q = p THEN "announced" ELSE page[q]
  BY <1>2 DEF FreshInv, TypeOK
<1>6. p # NoPage /\ a \in usedAddr
  BY <1>2, NoPageAssumption DEF FreshInv, OneSession
<1>7. OneSession'
  BY <1>2, <1>5 DEF FreshInv, OneSession, HasSession
<1>8. \A i \in 1..n : Live(i) => log[i].hashid # a /\ log[i].username # p
  BY <1>2 DEF FreshInv, LiveRows
<1>9. LiveRows'
  <2> SUFFICES ASSUME NEW i \in 1..(n + 1)
               PROVE  /\ log'[i].hashid \in usedAddr'
                      /\ table'[log'[i].hashid] # NoPage =>
                            /\ table'[log'[i].hashid] = log'[i].username
                            /\ page'[log'[i].username] = "announced"
                            /\ log'[i].outdates = 0
    BY DEF LiveRows, Live
  <2>1. CASE i = n + 1
    BY <1>1, <1>2, <1>3, <1>5, <1>6, <2>1
  <2>2. CASE i \in 1..n
    <3>1. log[i].username \in Page
      BY <2>2, Types DEF FreshInv
    <3> QED BY <1>2, <1>3, <1>5, <2>2, <3>1 DEF FreshInv, LiveRows, Live
  <2> QED BY <1>4, <2>1, <2>2
<1>10. OneRow'
  <2>1. ASSUME NEW i \in 1..(n + 1), NEW j \in 1..(n + 1),
               table[log'[i].hashid] # NoPage, log'[i].hashid = log'[j].hashid
        PROVE  i = j
    <3>1. CASE i \in 1..n /\ j \in 1..n
      BY <1>3, <2>1, <3>1 DEF FreshInv, OneRow, Live
    <3>2. CASE i \in 1..n /\ j = n + 1
      BY <1>1, <1>3, <1>8, <2>1, <3>2 DEF Live
    <3>3. CASE i = n + 1 /\ j \in 1..n
      BY <1>1, <1>3, <1>8, <2>1, <3>3 DEF Live
    <3> QED BY <1>4, <3>1, <3>2, <3>3
  <2>2. ASSUME NEW q \in Page, page'[q] = "announced"
        PROVE  \E i \in 1..(n + 1) : table[log'[i].hashid] = q
    <3>1. CASE q = p
      <4>1. n + 1 \in 1..(n + 1)
        OBVIOUS
      <4> QED BY <1>1, <1>2, <1>3, <3>1, <4>1
    <3>2. CASE q # p
      <4>1. PICK i \in 1..n : table[log[i].hashid] = q
        BY <1>5, <2>2, <3>2 DEF FreshInv, OneRow
      <4>2. i \in 1..(n + 1)
        OBVIOUS
      <4> QED BY <1>3, <4>1, <4>2
    <3> QED BY <3>1, <3>2
  <2> QED BY <1>2, <2>1, <2>2 DEF OneRow, Live
<1>11. PagesAreCurrent'
  <2> SUFFICES ASSUME NEW q \in Page, page'[q] = "announced"
               PROVE  inbox'[q] # <<>> /\ inbox'[q][Len(inbox'[q])] = Online'
    BY DEF PagesAreCurrent
  <2>1. \E b \in Addr : table'[b] = q
    BY <1>7 DEF OneSession, HasSession
  <2>2. /\ table' \in [Addr -> Page \cup {NoPage}] /\ log' \in Seq(Row)
        /\ Len(log') <= MaxRows /\ inbox \in [Page -> Seq(List)]
    BY DEF FreshInv, TypeOK
  <2>3. PICK b : b = update_online_users(table', log', inbox)
    OBVIOUS
  <2>4. b[q] # <<>> /\ b[q][Len(b[q])] = get_online_user_list(table', log')
    BY <2>1, <2>2, <2>3, EverybodyIsTold
  <2>5. inbox' = b
    BY <1>2, <2>3
  <2> QED BY <2>4, <2>5 DEF Online
<1> QED BY <1>7, <1>9, <1>10, <1>11 DEF FreshInv

\* The rows of the session that closes are no longer live; the others are told.
LEMMA CloseFresh ==
    ASSUME FreshInv, TypeOK', NEW p \in Page, NEW a \in Addr, Close(p, a)
    PROVE  FreshInv'
<1>1. /\ table[a] = p /\ table' = [table EXCEPT ![a] = NoPage] /\ log' = SetOutdate(a)
      /\ inbox' = [update_online_users(table', log', inbox) EXCEPT ![p] = <<>>]
      /\ page' = [page EXCEPT ![p] = "lost"] /\ usedAddr' = usedAddr
  BY DEF Close
<1>2. \A b \in Addr : table'[b] = IF b = a THEN NoPage ELSE table[b]
  BY <1>1 DEF FreshInv, TypeOK
<1>3. \A q \in Page : page'[q] = IF q = p THEN "lost" ELSE page[q]
  BY <1>1 DEF FreshInv, TypeOK
<1> PICK n \in Nat : Len(log) = n /\ Len(log') = n
  BY <1>1, Types, Outdated DEF FreshInv
<1>4. \A i \in 1..n : /\ log'[i].hashid = log[i].hashid /\ log'[i].username = log[i].username
                      /\ log[i].hashid # a => log'[i] = log[i]
                      /\ log[i].hashid \in Addr /\ log[i].username \in Page
  BY <1>1, Types, Outdated DEF FreshInv
<1>5. p # NoPage
  BY NoPageAssumption
<1>6. OneSession'
  <2>1. \A b \in Addr : table'[b] # NoPage =>
            page'[table'[b]] \in {"announcing", "announced", "anonymous"} /\ b \in usedAddr'
    BY <1>1, <1>2, <1>3 DEF FreshInv, OneSession, HasSession, TypeOK
  <2>2. \A b, c \in Addr : table'[b] # NoPage /\ table'[b] = table'[c] => b = c
    BY <1>2 DEF FreshInv, OneSession
  <2>3. \A q \in Page : HasSession(q)' => \E b \in Addr : table'[b] = q
    <3> SUFFICES ASSUME NEW q \in Page, HasSession(q)' PROVE \E b \in Addr : table'[b] = q
      OBVIOUS
    <3>1. q # p /\ page'[q] = page[q]
      BY <1>3 DEF HasSession
    <3>2. PICK b \in Addr : table[b] = q
      BY <3>1 DEF FreshInv, OneSession, HasSession
    <3> QED BY <1>1, <1>2, <3>1, <3>2
  <2> QED BY <2>1, <2>2, <2>3 DEF OneSession, HasSession
<1>7. ASSUME NEW i \in 1..n, table'[log[i].hashid] # NoPage
      PROVE  /\ log[i].hashid # a /\ table'[log[i].hashid] = table[log[i].hashid]
             /\ Live(i) /\ log[i].username # p
  <2>1. log[i].hashid # a /\ table'[log[i].hashid] = table[log[i].hashid]
    BY <1>2, <1>4, <1>7
  <2>2. Live(i) /\ table[log[i].hashid] = log[i].username
    BY <1>7, <2>1 DEF FreshInv, LiveRows, Live
  <2>3. log[i].username # p
    BY <1>1, <1>4, <1>5, <2>1, <2>2 DEF FreshInv, OneSession
  <2> QED BY <2>1, <2>2, <2>3
<1>8. LiveRows'
  <2> SUFFICES ASSUME NEW i \in 1..n
               PROVE  /\ log'[i].hashid \in usedAddr'
                      /\ table'[log'[i].hashid] # NoPage =>
                            /\ table'[log'[i].hashid] = log'[i].username
                            /\ page'[log'[i].username] = "announced"
                            /\ log'[i].outdates = 0
    BY DEF LiveRows, Live
  <2>1. log'[i].hashid \in usedAddr'
    BY <1>1, <1>4 DEF FreshInv, LiveRows
  <2>2. ASSUME table'[log[i].hashid] # NoPage
        PROVE  /\ table'[log[i].hashid] = log[i].username
               /\ page'[log[i].username] = "announced" /\ log'[i] = log[i]
               /\ log[i].outdates = 0
    BY <1>3, <1>4, <1>7, <2>2 DEF FreshInv, LiveRows
  <2> QED BY <1>4, <2>1, <2>2
<1>9. OneRow'
  <2>1. ASSUME NEW i \in 1..n, NEW j \in 1..n,
               table'[log'[i].hashid] # NoPage, log'[i].hashid = log'[j].hashid
        PROVE  i = j
    <3>1. Live(i) /\ log[i].hashid = log[j].hashid
      BY <1>4, <1>7, <2>1
    <3> QED BY <3>1 DEF FreshInv, OneRow
  <2>2. ASSUME NEW q \in Page, page'[q] = "announced"
        PROVE  \E i \in 1..n : table'[log'[i].hashid] = q
    <3>1. q # p /\ page[q] = "announced"
      BY <1>3, <2>2
    <3>2. PICK i \in 1..n : table[log[i].hashid] = q
      BY <3>1 DEF FreshInv, OneRow
    <3>3. log[i].hashid # a
      BY <1>1, <3>1, <3>2
    <3> QED BY <1>2, <1>4, <3>2, <3>3
  <2> QED BY <2>1, <2>2 DEF OneRow, Live
<1>10. PagesAreCurrent'
  <2> SUFFICES ASSUME NEW q \in Page, page'[q] = "announced"
               PROVE  inbox'[q] # <<>> /\ inbox'[q][Len(inbox'[q])] = Online'
    BY DEF PagesAreCurrent
  <2>1. q # p /\ \E b \in Addr : table'[b] = q
    BY <1>3, <1>6 DEF OneSession, HasSession
  <2>2. /\ table' \in [Addr -> Page \cup {NoPage}] /\ log' \in Seq(Row)
        /\ Len(log') <= MaxRows /\ inbox \in [Page -> Seq(List)]
    BY DEF FreshInv, TypeOK
  <2>3. PICK b : b = update_online_users(table', log', inbox)
    OBVIOUS
  <2>4. /\ b \in [Page -> Seq(List)]
        /\ b[q] # <<>> /\ b[q][Len(b[q])] = get_online_user_list(table', log')
    BY <2>1, <2>2, <2>3, EverybodyIsTold
  <2>5. inbox'[q] = b[q]
    BY <1>1, <2>1, <2>3, <2>4
  <2> QED BY <2>4, <2>5 DEF Online
<1> QED BY <1>6, <1>8, <1>9, <1>10 DEF FreshInv

\* A page shows the next list: the last one it will show is the same.
LEMMA ShowFresh ==
    ASSUME FreshInv, TypeOK', NEW p \in Page, addOnlineUserList(p)
    PROVE  FreshInv'
<1>1. /\ inbox[p] # <<>> /\ inbox[p] \in Seq(List)
      /\ shown' = [shown EXCEPT ![p] = Head(inbox[p])]
      /\ inbox' = [inbox EXCEPT ![p] = Tail(inbox[p])]
      /\ UNCHANGED <<table, log, page, usedAddr>>
  BY DEF addOnlineUserList, FreshInv, TypeOK
<1>2. OneSession' /\ LiveRows' /\ OneRow'
  BY <1>1 DEF FreshInv, OneSession, HasSession, LiveRows, Live, OneRow
<1>3. /\ shown'[p] = Head(inbox[p]) /\ inbox'[p] = Tail(inbox[p])
      /\ \A q \in Page : q # p => shown'[q] = shown[q] /\ inbox'[q] = inbox[q]
  BY <1>1 DEF FreshInv, TypeOK
<1>4. Online' = Online
  BY <1>1 DEF Online
<1>5. ASSUME NEW q \in Page, page[q] = "announced"
      PROVE  Online = (IF inbox'[q] = <<>> THEN shown'[q] ELSE inbox'[q][Len(inbox'[q])])
  <2>1. Online = (IF inbox[q] = <<>> THEN shown[q] ELSE inbox[q][Len(inbox[q])])
    BY <1>5 DEF FreshInv, PagesAreCurrent
  <2>2. CASE q = p
    <3>1. Online = inbox[p][Len(inbox[p])]
      BY <1>1, <2>1, <2>2
    <3>2. /\ Tail(inbox[p]) = <<>> => Head(inbox[p]) = inbox[p][Len(inbox[p])]
          /\ Tail(inbox[p]) # <<>> =>
                Tail(inbox[p])[Len(Tail(inbox[p]))] = inbox[p][Len(inbox[p])]
      BY <1>1, LastStays
    <3> QED BY <1>3, <2>2, <3>1, <3>2
  <2>3. CASE q # p
    BY <1>3, <2>1, <2>3
  <2> QED BY <2>2, <2>3
<1>6. PagesAreCurrent'
  BY <1>1, <1>4, <1>5 DEF PagesAreCurrent
<1> QED BY <1>2, <1>6 DEF FreshInv

\* A page that is reloaded has no session.
LEMMA ReloadFresh ==
    ASSUME FreshInv, TypeOK', NEW p \in Page, Reload(p)
    PROVE  FreshInv'
<1>1. /\ page[p] = "lost" /\ page' = [page EXCEPT ![p] = "loaded"]
      /\ shown' = [shown EXCEPT ![p] = Nothing]
      /\ UNCHANGED <<table, log, inbox, usedAddr>>
  BY DEF Reload
<1>2. \A q \in Page : /\ page'[q] = IF q = p THEN "loaded" ELSE page[q]
                      /\ q # p => shown'[q] = shown[q]
  BY <1>1 DEF FreshInv, TypeOK
<1>3. OneSession'
  <2>1. \A q \in Page : HasSession(q)' <=> HasSession(q)
    BY <1>1, <1>2 DEF HasSession
  <2>2. \A b \in Addr : table[b] # NoPage => table[b] \in Page
    BY DEF FreshInv, TypeOK
  <2> QED BY <1>1, <2>1, <2>2 DEF FreshInv, OneSession, HasSession
<1>4. LiveRows'
  BY <1>1, <1>2, Types DEF FreshInv, LiveRows, Live
<1>5. OneRow'
  BY <1>1, <1>2 DEF FreshInv, OneRow, Live
<1>6. PagesAreCurrent'
  BY <1>1, <1>2 DEF FreshInv, PagesAreCurrent, Online
<1> QED BY <1>3, <1>4, <1>5, <1>6 DEF FreshInv

\* After a restart nobody is connected and no row is live.
LEMMA RestartFresh ==
    ASSUME FreshInv, TypeOK', Restart
    PROVE  FreshInv'
<1>1. /\ log' = log /\ usedAddr' = usedAddr /\ \A a \in Addr : table'[a] = NoPage
      /\ \A p \in Page : page'[p] \in {"loaded", "lost"}
  BY DEF Restart
<1>2. OneSession' /\ PagesAreCurrent'
  BY <1>1 DEF OneSession, HasSession, PagesAreCurrent
<1>3. LiveRows' /\ OneRow'
  BY <1>1, Types DEF FreshInv, LiveRows, Live, OneRow
<1> QED BY <1>2, <1>3 DEF FreshInv
-----------------------------------------------------------------------------
\* An empty log and no session.
LEMMA InitFresh == Init => FreshInv
<1> SUFFICES ASSUME Init PROVE FreshInv
  OBVIOUS
<1>1. log = <<>> /\ Len(<<>>) = 0 /\ <<>> \in Seq(Row) /\ <<>> \in Seq(List)
  BY DEF Init
<1>2. TypeOK
  BY <1>1, MaxRowsAssumption DEF Init, TypeOK, Nothing, List
<1>3. OneSession /\ PagesAreCurrent
  BY DEF Init, OneSession, HasSession, PagesAreCurrent
<1>4. LiveRows /\ OneRow
  BY <1>1 DEF Init, LiveRows, OneRow
<1> QED BY <1>2, <1>3, <1>4 DEF FreshInv

\* Every step keeps the invariant while addresses do not come back.
LEMMA StepFresh == FreshInv /\ [FreshNext]_vars => FreshInv'
<1> SUFFICES ASSUME FreshInv, [FreshNext]_vars PROVE FreshInv'
  OBVIOUS
<1>1. TypeOK'
  BY TypeStep DEF FreshInv, FreshNext, Next
<1>2. CASE UNCHANGED vars
  BY <1>2 DEF vars, FreshInv, TypeOK, OneSession, HasSession, LiveRows, Live, OneRow,
              PagesAreCurrent, Online
<1>3. CASE FreshNext
  BY <1>1, <1>3, OpenFresh, AnnounceFresh, CloseFresh, ShowFresh, ReloadFresh, RestartFresh
     DEF FreshNext, PageNext
<1> QED BY <1>2, <1>3

\* So it always holds.
LEMMA AlwaysFresh == FreshSpec => []FreshInv
  BY InitFresh, StepFresh, PTL DEF FreshSpec
-----------------------------------------------------------------------------
\* Every row is of an address and a page, also when addresses are reused.
THEOREM UsersTypeCorrect == Spec => []TypeOK
<1>1. Init => TypeOK
  BY InitFresh DEF FreshInv
<1> QED BY <1>1, TypeStep, PTL DEF Spec

\* get_online_user_list returns each announced user once and nobody else, across
\* closes, reconnections and restarts, while no address comes back.
THEOREM TheListIsTrue == FreshSpec => []ListIsTrue
<1>1. FreshInv => ListIsTrue
  <2> SUFFICES ASSUME FreshInv, NEW u \in Page
               PROVE  Online[u] = (IF page[u] = "announced" THEN 1 ELSE 0)
    BY DEF ListIsTrue
  <2> PICK S : S = {i \in 1..Len(log) : log[i].username = u /\ table[log[i].hashid] # NoPage}
    OBVIOUS
  <2>1. Online[u] = Cardinality(S)
    BY Types DEF FreshInv, Online, get_online_user_list
  <2>2. CASE page[u] = "announced"
    <3>1. PICK i \in 1..Len(log) : table[log[i].hashid] = u
      BY <2>2 DEF FreshInv, OneRow
    <3>2. Live(i) /\ log[i].username = u
      BY <3>1, NoPageAssumption DEF FreshInv, LiveRows, Live
    <3>3. ASSUME NEW j \in S PROVE j = i
      <4>1. j \in 1..Len(log) /\ table[log[j].hashid] = u
        BY DEF FreshInv, LiveRows, Live
      <4>2. log[j].hashid = log[i].hashid
        BY <3>1, <4>1, Types, NoPageAssumption DEF FreshInv, OneSession
      <4> QED BY <3>2, <4>1, <4>2 DEF FreshInv, OneRow
    <3>4. S = {i}
      BY <3>2, <3>3 DEF Live
    <3> QED BY <2>1, <2>2, <3>4, FS_Singleton
  <2>3. CASE page[u] # "announced"
    <3>1. S = {}
      BY <2>3 DEF FreshInv, LiveRows, Live
    <3> QED BY <2>1, <2>3, <3>1, FS_EmptySet
  <2> QED BY <2>2, <2>3
<1> QED BY <1>1, AlwaysFresh, PTL

\* An announced page ends up showing the list of now although openings are told
\* to nobody and lists are sent in several messages.
THEOREM ThePagesAreCurrent == FreshSpec => []PagesAreCurrent
<1>1. FreshInv => PagesAreCurrent
  BY DEF FreshInv
<1> QED BY <1>1, AlwaysFresh, PTL

\* The update of outdate (destroy_webrtc_table) never touches the row of a session that has ended.
THEOREM ClosedRowsStayFinal == FreshSpec => ClosedRowsAreFinal
<1>1. FreshInv /\ [FreshNext]_vars =>
          [\A i \in DOMAIN log : log[i].outdates > 0 => log'[i] = log[i]]_vars
  <2> SUFFICES ASSUME FreshInv, FreshNext, NEW i \in 1..Len(log), log[i].outdates > 0
               PROVE  log'[i] = log[i]
    BY Types DEF FreshInv
  <2>1. ~Live(i) /\ log[i].hashid \in Addr
    BY Types DEF FreshInv, LiveRows
  <2>2. ASSUME NEW p \in Page, NEW a \in Addr, Close(p, a) PROVE log'[i] = log[i]
    <3>1. log[i].hashid # a
      BY <2>1, <2>2, NoPageAssumption DEF Close, Live
    <3> QED BY <2>2, <3>1, Outdated DEF Close, FreshInv
  <2>3. ASSUME NEW p \in Page, NEW a \in Addr, Announce(p, a) PROVE log'[i] = log[i]
    BY <2>3, Types DEF Announce, FreshInv
  <2>4. CASE UNCHANGED log
    BY <2>4
  <2> QED BY <2>2, <2>3, <2>4
          DEF FreshNext, PageNext, Open, addOnlineUserList, Reload, Restart
<1> QED BY <1>1, AlwaysFresh, PTL DEF FreshSpec, ClosedRowsAreFinal
-----------------------------------------------------------------------------
\* An announced page's row is in the log, and its address is still the page's.
HasRow(u) == \E i \in 1..Len(log) : log[i].username = u /\ table[log[i].hashid] = u

AnnouncedHaveRows == \A u \in Page : page[u] = "announced" => HasRow(u)

\* The list misses nobody who is announced.
AnnouncedAreListed == \A u \in Page : page[u] = "announced" => Online[u] >= 1

\* A row stays while no step removes it or takes its address away.
LEMMA RowKept ==
    ASSUME TypeOK, TypeOK', NEW u \in Page, HasRow(u),
           Len(log') >= Len(log),
           \A i \in 1..Len(log) : log'[i].username = log[i].username /\ log'[i].hashid = log[i].hashid,
           \A a \in Addr : table[a] = u => table'[a] = u
    PROVE  HasRow(u)'
<1>1. PICK i \in 1..Len(log) : log[i].username = u /\ table[log[i].hashid] = u
  BY DEF HasRow
<1>2. Len(log) \in Nat /\ Len(log') \in Nat /\ log[i].hashid \in Addr
  <2>1. log' \in Seq(Row)
    BY DEF TypeOK
  <2> QED BY <2>1, Types
<1>3. i \in 1..Len(log')
  BY <1>2
<1>4. log'[i].username = u /\ table'[log'[i].hashid] = u
  BY <1>1, <1>2
<1> QED BY <1>3, <1>4 DEF HasRow

\* Addresses that come back are free before they do, and a row is outdated, not
\* deleted; so no step takes an announced page's row.
LEMMA RowStep == TypeOK /\ AnnouncedHaveRows /\ [Next]_vars => AnnouncedHaveRows'
<1> SUFFICES ASSUME TypeOK, AnnouncedHaveRows, [Next]_vars, NEW u \in Page, page'[u] = "announced"
             PROVE  HasRow(u)'
  BY DEF AnnouncedHaveRows
<1>1. TypeOK'
  BY TypeStep
<1>2. u # NoPage /\ (page[u] = "announced" => HasRow(u))
  BY NoPageAssumption DEF AnnouncedHaveRows
<1>3. ASSUME NEW p \in Page, NEW a \in Addr, Open(p, a) PROVE HasRow(u)'
  <2>1. page[u] = "announced" /\ log' = log
    BY <1>3 DEF Open, TypeOK
  <2>2. \A b \in Addr : table[b] = u => table'[b] = u
    BY <1>2, <1>3 DEF Open, TypeOK
  <2> QED BY <1>1, <1>2, <2>1, <2>2, RowKept, Types
<1>4. ASSUME NEW p \in Page, NEW a \in Addr, Announce(p, a) PROVE HasRow(u)'
  <2> PICK row \in Row : row = [hashid |-> a, username |-> p, outdates |-> 0]
    <3>1. [hashid |-> a, username |-> p, outdates |-> 0] \in Row
      BY DEF Row
    <3> QED BY <3>1
  <2>1. log' = Append(log, row) /\ table' = table /\ table[a] = p /\ row.hashid = a /\ row.username = p
    BY <1>4 DEF Announce
  <2>2. /\ Len(log') = Len(log) + 1 /\ log'[Len(log) + 1] = row
        /\ \A i \in 1..Len(log) : log'[i] = log[i]
    BY <2>1, Types
  <2>3. CASE u = p
    <3>1. Len(log) + 1 \in 1..Len(log')
      BY <2>2, Types
    <3> QED BY <2>1, <2>2, <2>3, <3>1 DEF HasRow
  <2>4. CASE u # p
    <3>1. page[u] = "announced"
      BY <1>4, <2>4 DEF Announce, TypeOK
    <3>2. Len(log') >= Len(log)
      BY <2>2, Types
    <3> QED BY <1>1, <1>2, <2>1, <2>2, <3>1, <3>2, RowKept
  <2> QED BY <2>3, <2>4
<1>5. ASSUME NEW p \in Page, NEW a \in Addr, Close(p, a) PROVE HasRow(u)'
  <2>1. u # p /\ page[u] = "announced"
    BY <1>5 DEF Close, TypeOK
  <2>2. \A b \in Addr : table[b] = u => table'[b] = u
    BY <1>5, <2>1 DEF Close, TypeOK
  <2>3. /\ Len(log') >= Len(log)
        /\ \A i \in 1..Len(log) : log'[i].username = log[i].username /\ log'[i].hashid = log[i].hashid
    <3>1. log' = SetOutdate(a)
      BY <1>5 DEF Close
    <3>2. /\ Len(SetOutdate(a)) = Len(log) /\ Len(log) \in Nat
          /\ \A i \in 1..Len(log) : /\ SetOutdate(a)[i].hashid = log[i].hashid
                                    /\ SetOutdate(a)[i].username = log[i].username
      BY Outdated, Types
    <3> QED BY <3>1, <3>2
  <2> QED BY <1>1, <1>2, <2>1, <2>2, <2>3, RowKept
<1>6. ASSUME NEW p \in Page, addOnlineUserList(p) \/ Reload(p) PROVE HasRow(u)'
  <2>1. page[u] = "announced" /\ log' = log /\ table' = table
    BY <1>6 DEF addOnlineUserList, Reload, TypeOK
  <2> QED BY <1>2, <2>1 DEF HasRow
<1>7. CASE Restart
  BY <1>7 DEF Restart
<1>8. CASE UNCHANGED vars
  BY <1>2, <1>8 DEF vars, HasRow
<1> QED BY <1>3, <1>4, <1>5, <1>6, <1>7, <1>8 DEF Next, PageNext

\* Whatever get_online_user_list wrongly returns when an address is reused (see
\* ListedAreOnline), it leaves out nobody who announced himself and is connected.
THEOREM NobodyIsLeftOut == Spec => []AnnouncedAreListed
<1>1. Init => TypeOK /\ AnnouncedHaveRows
  <2>1. Init => AnnouncedHaveRows
    BY DEF Init, AnnouncedHaveRows
  <2> QED BY <2>1, InitFresh DEF FreshInv
<1>2. TypeOK /\ AnnouncedHaveRows => AnnouncedAreListed
  <2> SUFFICES ASSUME TypeOK, AnnouncedHaveRows, NEW u \in Page, page[u] = "announced"
               PROVE  Online[u] >= 1
    BY DEF AnnouncedAreListed
  <2> PICK S : S = {i \in 1..Len(log) : log[i].username = u /\ table[log[i].hashid] # NoPage}
    OBVIOUS
  <2>1. Online[u] = Cardinality(S)
    BY Types DEF Online, get_online_user_list
  <2>2. S # {}
    BY NoPageAssumption DEF AnnouncedHaveRows, HasRow
  <2>3. IsFiniteSet(S)
    <3>1. Len(log) \in Int /\ 1 \in Int
      BY Types
    <3>2. IsFiniteSet(1..Len(log))
      BY <3>1, FS_Interval
    <3>3. S \subseteq 1..Len(log)
      OBVIOUS
    <3> QED BY <3>2, <3>3, FS_Subset
  <2>4. Cardinality(S) \in Nat /\ Cardinality(S) # 0
    BY <2>2, <2>3, FS_CardinalityType, FS_EmptySet
  <2> QED BY <2>1, <2>4
<1> QED BY <1>1, <1>2, TypeStep, RowStep, PTL DEF Spec
=============================================================================
