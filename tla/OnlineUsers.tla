---------------------------- MODULE OnlineUsers ----------------------------
(***************************************************************************)
(* The "Online Users" list of webrtc.html: webrtc.js announces a user, the *)
(* server (soup.c) keeps the announcements in the webrtc_log table of its  *)
(* SQLite database (sql.c) and sends every page the rows of the sessions   *)
(* that are connected.  A row's hashid is the address of the session's     *)
(* web socket connection, which is reused once the connection is gone, and *)
(* the rows outlive the process.                                           *)
(***************************************************************************)
EXTENDS Naturals, Sequences, FiniteSets

CONSTANTS Page,     \* pages, each with a user of its own
          NoPage,
          Addr,     \* addresses of web socket connections
          MaxRows   \* bound on the rows of webrtc_log

ASSUME NoPageAssumption == NoPage \notin Page
ASSUME MaxRowsAssumption == MaxRows \in Nat

VARIABLES
    table,    \* webrtc_connected_table: whose session is at each address
    log,      \* webrtc_log: hashid, username and how often outdate was set
    page,     \* what each page is doing
    inbox,    \* "users" messages on their way to a page
    shown,    \* the list a page shows: rows per user
    usedAddr  \* addresses given out so far

vars == <<table, log, page, inbox, shown, usedAddr>>

List == [Page -> 0..MaxRows]
Row  == [hashid : Addr, username : Page, outdates : Nat]

\* Rows are of sessions and users; a page shows a number of rows per user.
TypeOK ==
    /\ table \in [Addr -> Page \cup {NoPage}]
    /\ log \in Seq(Row) /\ Len(log) <= MaxRows
    /\ page \in [Page -> {"loaded", "announcing", "announced", "anonymous", "lost"}]
    /\ inbox \in [Page -> Seq(List)]
    /\ shown \in [Page -> List]
    /\ usedAddr \subseteq Addr

Nothing == [u \in Page |-> 0]

Init ==
    /\ table = [a \in Addr |-> NoPage]
    /\ log = <<>>
    /\ page = [p \in Page |-> "loaded"]
    /\ inbox = [p \in Page |-> <<>>]
    /\ shown = [p \in Page |-> Nothing]
    /\ usedAddr = {}
-----------------------------------------------------------------------------
\* Mutants: a query without its WHERE clause; an update without it.
every_user(tab, rows) ==
    [u \in Page |-> Cardinality({i \in DOMAIN rows : rows[i].username = u})]

OutdateAll(a) == [i \in DOMAIN log |-> [log[i] EXCEPT !.outdates = @ + 1]]

\* get_online_user_list: the rows whose hashid is among the table's keys.
get_online_user_list(tab, rows) ==
    [u \in Page |-> Cardinality({i \in DOMAIN rows :
        rows[i].username = u /\ tab[rows[i].hashid] # NoPage})]

\* The list goes to every connection in the table.
update_online_users(tab, rows, box) ==
    [p \in Page |-> IF \E a \in Addr : tab[a] = p
                    THEN Append(box[p], get_online_user_list(tab, rows)) ELSE box[p]]

\* "UPDATE webrtc_log SET outdate ... WHERE hashid=..."
SetOutdate(a) ==
    [i \in DOMAIN log |-> IF log[i].hashid = a
                          THEN [log[i] EXCEPT !.outdates = @ + 1] ELSE log[i]]
-----------------------------------------------------------------------------
\* soup_websocket_handler puts the session in the table; nobody is told.  The
\* button starts a request for the page's own address whose answer is
\* announced; the timer that reconnects a lost page has no such request.
Open(p, a) ==
    /\ page[p] \in {"loaded", "lost"}
    /\ table[a] = NoPage
    /\ table' = [table EXCEPT ![a] = p]
    /\ page' = [page EXCEPT ![p] = IF @ = "loaded" THEN "announcing" ELSE "anonymous"]
    /\ usedAddr' = usedAddr \cup {a}
    /\ UNCHANGED <<log, inbox, shown>>

\* Mutant: the row is written before the username is known.
AnnounceNobody(p, a) ==
    /\ page[p] = "announcing"
    /\ table[a] = p
    /\ Len(log) < MaxRows
    /\ log' = Append(log, [hashid |-> a, username |-> NoPage, outdates |-> 0])
    /\ page' = [page EXCEPT ![p] = "announced"]
    /\ UNCHANGED <<table, inbox, shown, usedAddr>>

\* The "client" message: a row, and the list to everybody.
Announce(p, a) ==
    /\ page[p] = "announcing"
    /\ table[a] = p
    /\ Len(log) < MaxRows
    /\ log' = Append(log, [hashid |-> a, username |-> p, outdates |-> 0])
    /\ inbox' = update_online_users(table, log', inbox)
    /\ page' = [page EXCEPT ![p] = "announced"]
    /\ UNCHANGED <<table, shown, usedAddr>>

\* Mutant: the others are not told.
CloseQuietly(p, a) ==
    /\ table[a] = p
    /\ table' = [table EXCEPT ![a] = NoPage]
    /\ log' = SetOutdate(a)
    /\ inbox' = [inbox EXCEPT ![p] = <<>>]
    /\ page' = [page EXCEPT ![p] = "lost"]
    /\ UNCHANGED <<shown, usedAddr>>

\* The connection closes: its key leaves the table, then destroy_webrtc_table
\* updates the log and tells the others.  What was on its way is lost.
Close(p, a) ==
    /\ table[a] = p
    /\ table' = [table EXCEPT ![a] = NoPage]
    /\ log' = SetOutdate(a)
    /\ inbox' = [update_online_users(table', log', inbox) EXCEPT ![p] = <<>>]
    /\ page' = [page EXCEPT ![p] = "lost"]
    /\ UNCHANGED <<shown, usedAddr>>

\* The page shows the list it is sent.
addOnlineUserList(p) ==
    /\ inbox[p] # <<>>
    /\ shown' = [shown EXCEPT ![p] = Head(inbox[p])]
    /\ inbox' = [inbox EXCEPT ![p] = Tail(@)]
    /\ UNCHANGED <<table, log, page, usedAddr>>

\* The process dies and is started again: the log stays as it was.
Restart ==
    /\ \E a \in Addr : table[a] # NoPage
    /\ table' = [a \in Addr |-> NoPage]
    /\ page' = [p \in Page |-> IF page[p] = "loaded" THEN "loaded" ELSE "lost"]
    /\ inbox' = [p \in Page |-> <<>>]
    /\ UNCHANGED <<log, shown, usedAddr>>

Reload(p) ==
    /\ page[p] = "lost"
    /\ page' = [page EXCEPT ![p] = "loaded"]
    /\ shown' = [shown EXCEPT ![p] = Nothing]
    /\ UNCHANGED <<table, log, inbox, usedAddr>>

PageNext(p) ==
    \/ \E a \in Addr : Announce(p, a) \/ Close(p, a)
    \/ addOnlineUserList(p)
    \/ Reload(p)

Next ==
    \/ \E p \in Page : PageNext(p) \/ \E a \in Addr : Open(p, a)
    \/ Restart

Spec == Init /\ [][Next]_vars

\* Connections whose addresses never come back.
FreshNext ==
    \/ \E p \in Page : PageNext(p) \/ \E a \in Addr \ usedAddr : Open(p, a)
    \/ Restart

FreshSpec == Init /\ [][FreshNext]_vars
-----------------------------------------------------------------------------
Online == get_online_user_list(table, log)

\* The list has exactly the users with an announced session, once each.
ListIsTrue ==
    \A u \in Page : Online[u] = (IF page[u] = "announced" THEN 1 ELSE 0)

\* "Online Users" (webrtc.html 140) are online: a user on the list is connected.
ListedAreOnline ==
    \A u \in Page : Online[u] > 0 => \E a \in Addr : table[a] = u

\* A page that announced its user has been told of every later change: what it
\* shows once its messages have arrived is the list of now, although openings
\* are not announced to anybody.
PagesAreCurrent ==
    \A p \in Page : page[p] = "announced" =>
        Online = (IF inbox[p] = <<>> THEN shown[p] ELSE inbox[p][Len(inbox[p])])

\* The log of a session that has ended is final.
ClosedRowsAreFinal ==
    [][\A i \in DOMAIN log : log[i].outdates > 0 => log'[i] = log[i]]_vars
=============================================================================
