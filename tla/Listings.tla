------------------------------ MODULE Listings ------------------------------
(***************************************************************************)
(* The lists that are answered page by page, and a client that walks over  *)
(* the pages of one of them while rows come and go.  A request counts the  *)
(* rows with one statement and takes a page of them with another.          *)
(***************************************************************************)
EXTENDS Integers, FiniteSets

CONSTANTS
    Rows,           \* rows that match what is asked for, at one time or another
    TimeOf,         \* row -> the time that a sorted list has it by
    Usable,         \* users that are active and have a VPN address
    Lists,          \* the lists that may be walked over
    Firsts, Sizes,  \* page to begin with and page size, as a client may ask
    Default, Cap, Full,     \* 20 (30 for networks), 100, 10000
    MaxFaults,      \* how many statements fail, a bound
    MaxMoves        \* how many rows come or go, a bound

ASSUME ListingAssumption ==
  /\ IsFiniteSet(Rows) /\ TimeOf \in [Rows -> Nat] /\ Usable \subseteq Rows
  /\ Lists \subseteq {"users", "groups", "networks", "audit", "sessions", "traffic",
                      "entity", "actor", "usage", "vpn_users", "users_page",
                      "groups_page", "networks_page"}
  /\ Firsts \subseteq {0, 1} /\ Sizes \subseteq Int
  /\ Default \in Nat \ {0} /\ Cap \in Nat /\ Default <= Cap /\ Full \in Nat \ {0}

VARIABLES
    rows,           \* the rows that are there
    list, page, size,   \* the walk: which list, the page asked for, its size as asked
    pc, total,      \* the request: next step, what it has counted
    got, length,    \* rows the client has been told of, and how many with repetition
    faults, failed, moves,  \* failed: a statement of the walk has
    began,          \* observers: rows that are there since the walk began,
    gone,           \* rows that have left since,
    late            \* rows that have come since the last count

table == <<rows, moves, began, gone>>
walk == <<list, page, size, got, length, failed>>
vars == <<table, walk, pc, total, late, faults>>

Steps == {"ask", "find", "turn", "done"}

-----------------------------------------------------------------------------
\* What a service reads: whether in the order of a time or in none, whether an
\* error of the count is an error of the list, whether it bounds the size, and
\* whether rows can leave (deleted, pruned, ended, given to another manager).
\* A user's place in the order of usage moves with every session.
UserRows    == [sorted |-> FALSE, strict |-> FALSE, bounds |-> FALSE, shrinks |-> TRUE]
GroupRows   == [sorted |-> FALSE, strict |-> FALSE, bounds |-> FALSE, shrinks |-> TRUE]
NetworkRows == [sorted |-> FALSE, strict |-> FALSE, bounds |-> FALSE, shrinks |-> TRUE]
AuditRows   == [sorted |-> TRUE,  strict |-> TRUE,  bounds |-> TRUE,  shrinks |-> TRUE]
EntityRows  == [sorted |-> TRUE,  strict |-> TRUE,  bounds |-> TRUE,  shrinks |-> TRUE]
ActorRows   == [sorted |-> TRUE,  strict |-> TRUE,  bounds |-> TRUE,  shrinks |-> TRUE]
SessionRows == [sorted |-> TRUE,  strict |-> TRUE,  bounds |-> TRUE,  shrinks |-> TRUE]
UsageRows   == [sorted |-> FALSE, strict |-> TRUE,  bounds |-> TRUE,  shrinks |-> FALSE]
TrafficRows == [sorted |-> TRUE,  strict |-> TRUE,  bounds |-> TRUE,  shrinks |-> FALSE]

\* The sizes a handler goes by: what is out of range becomes the default, or the
\* nearest of the range, or is kept when too large; or nothing is taken from the
\* request at all.
OrDefault(n) == IF n < 1 \/ n > Cap THEN Default ELSE n
Positive(n) == IF n < 1 THEN Default ELSE n
Bounded(n) == IF Positive(n) > Cap THEN Cap ELSE Positive(n)

\* What a handler makes of the page and the size that are asked for.
PageAsSent(p) == p
FirstIfBelow(p) == IF p < 1 THEN 1 ELSE p
UserList(p, n)    == [page |-> FirstIfBelow(p), size |-> OrDefault(n), of |-> UserRows]
GroupList(p, n)   == [page |-> FirstIfBelow(p), size |-> OrDefault(n), of |-> GroupRows]
NetworkList(p, n) == [page |-> FirstIfBelow(p), size |-> OrDefault(n), of |-> NetworkRows]
AuditList(p, n)   == [page |-> FirstIfBelow(p), size |-> Positive(n), of |-> AuditRows]
SessionList(p, n) == [page |-> FirstIfBelow(p), size |-> Bounded(n), of |-> SessionRows]
TrafficList(p, n) == [page |-> FirstIfBelow(p), size |-> Positive(n), of |-> TrafficRows]
EntityList(p, n)  == [page |-> 1, size |-> Default, of |-> EntityRows]
ActorList(p, n)   == [page |-> 1, size |-> Default, of |-> ActorRows]
UsageList(p, n)   == [page |-> 1, size |-> Default, of |-> UsageRows]
VpnUserList(p, n) == [page |-> 1, size |-> Full, of |-> UserRows]

\* The pages that are rendered as HTML take their page, and have one size.
UsersPage(p, n)    == [page |-> FirstIfBelow(p), size |-> Default, of |-> UserRows]
GroupsPage(p, n)   == [page |-> FirstIfBelow(p), size |-> Default, of |-> GroupRows]
NetworksPage(p, n) == [page |-> FirstIfBelow(p), size |-> Default, of |-> NetworkRows]

Asked(p, n) ==
  CASE list = "users" -> UserList(p, n)
    [] list = "groups" -> GroupList(p, n)
    [] list = "networks" -> NetworkList(p, n)
    [] list = "audit" -> AuditList(p, n)
    [] list = "sessions" -> SessionList(p, n)
    [] list = "traffic" -> TrafficList(p, n)
    [] list = "entity" -> EntityList(p, n)
    [] list = "actor" -> ActorList(p, n)
    [] list = "usage" -> UsageList(p, n)
    [] list = "vpn_users" -> VpnUserList(p, n)
    [] list = "users_page" -> UsersPage(p, n)
    [] list = "groups_page" -> GroupsPage(p, n)
    [] list = "networks_page" -> NetworksPage(p, n)
Now == Asked(page, size)
Limit == IF Now.of.bounds THEN Bounded(Now.size) ELSE Now.size

\* CalculateTotalPages, and what the handlers of users, groups and networks
\* compute by remainder: the same number (ListingsProofs!PagesByRemainder).
TotalPagesRoundedDown(n, s) == n \div s
TotalPages(n, s) == (n + s - 1) \div s
TotalPagesByRemainder(n, s) == n \div s + (IF n % s > 0 THEN 1 ELSE 0)

\* What an HTML page shows as its number, and the page its link for the next one
\* leads to: beyond the last page it shows the last one's number, and no rows.
Html == {"users_page", "groups_page", "networks_page"}
Shown(p, pages) == IF pages > 0 /\ p > pages THEN pages ELSE p
NextPage(p, pages) == IF Shown(p, pages) < pages THEN Shown(p, pages) + 1 ELSE Shown(p, pages)

-----------------------------------------------------------------------------
\* OFFSET and LIMIT, newest first.  Without an order, and among rows of one time,
\* the database may choose anew for each statement.
Key(r) == IF Now.of.sorted THEN TimeOf[r] ELSE 0
Least(a, b) == IF a <= b THEN a ELSE b
PageAfter(skipped, P) ==
  /\ Cardinality(P) = Least(Limit, Cardinality(rows \ skipped))
  /\ \A x \in skipped, y \in rows \ skipped : Key(x) >= Key(y)
  /\ \A x \in P, y \in rows \ (skipped \cup P) : Key(x) >= Key(y)
OffsetByPage(skipped) == Cardinality(skipped) = Least(Now.page * Limit, Cardinality(rows))
Offset(skipped) == Cardinality(skipped) = Least((Now.page - 1) * Limit, Cardinality(rows))

Count ==
  /\ pc = "ask"
  /\ total' = Cardinality(rows)
  /\ late' = {}
  /\ pc' = "find"
  /\ UNCHANGED <<table, walk, faults>>

\* The list of VPN users is filtered after it has been read.
Find ==
  /\ pc = "find"
  /\ \E skipped \in SUBSET rows :
       /\ Offset(skipped)
       /\ \E P \in SUBSET (rows \ skipped) :
            /\ PageAfter(skipped, P)
            /\ got' = got \cup (IF list = "vpn_users" THEN P \cap Usable ELSE P)
            /\ length' = length + Cardinality(P)
  /\ pc' = "turn"
  /\ UNCHANGED <<table, list, page, size, failed, total, late, faults>>

\* The client goes on up to the last page of the answer it has, or by the link of
\* the HTML page it sees; the list of VPN users has no pages.
Following ==
  LET pages == TotalPages(total, Now.size) IN
  IF list \in Html THEN NextPage(Now.page, pages) ELSE page + 1
Turn ==
  /\ pc = "turn"
  /\ IF list = "vpn_users" \/ page >= TotalPages(total, Now.size)
     THEN pc' = "done" /\ UNCHANGED page
     ELSE pc' = "ask" /\ page' = Following
  /\ UNCHANGED <<table, list, size, got, length, failed, total, late, faults>>

\* An error of the count is the list's, or makes a total of 0; one of the page is
\* the list's.
CountError ==
  /\ faults < MaxFaults
  /\ pc = "ask"
  /\ faults' = faults + 1
  /\ total' = 0
  /\ late' = {}
  /\ pc' = IF Now.of.strict THEN "done" ELSE "find"
  /\ failed' = TRUE
  /\ UNCHANGED <<table, list, page, size, got, length>>

FindError ==
  /\ faults < MaxFaults
  /\ pc = "find"
  /\ faults' = faults + 1
  /\ pc' = "done"
  /\ failed' = TRUE
  /\ UNCHANGED <<table, list, page, size, got, length, total, late>>

-----------------------------------------------------------------------------
\* A row comes, at any place of the order: its time was read before it was stored.
\* A row of a sorted list does not come again.
Enter(r) ==
  /\ pc # "done"
  /\ r \notin rows
  /\ Now.of.sorted => r \notin gone
  /\ moves < MaxMoves /\ moves' = moves + 1
  /\ rows' = rows \cup {r}
  /\ late' = late \cup {r}
  /\ UNCHANGED <<began, gone, walk, pc, total, faults>>

Leave(r) ==
  /\ pc # "done"
  /\ Now.of.shrinks
  /\ r \in rows
  /\ moves < MaxMoves /\ moves' = moves + 1
  /\ rows' = rows \ {r}
  /\ began' = began \ {r}
  /\ gone' = gone \cup {r}
  /\ UNCHANGED <<walk, pc, total, late, faults>>

-----------------------------------------------------------------------------
Init ==
  /\ rows \in SUBSET Rows /\ began = rows /\ gone = {} /\ late = {}
  /\ list \in Lists /\ page \in Firsts /\ size \in Sizes
  /\ pc = "ask" /\ total = 0
  /\ got = {} /\ length = 0
  /\ faults = 0 /\ failed = FALSE /\ moves = 0

Next ==
  \/ Count \/ Find \/ Turn
  \/ CountError \/ FindError
  \/ \E r \in Rows : Enter(r) \/ Leave(r)

Spec == Init /\ [][Next]_vars

-----------------------------------------------------------------------------
\* Every variable has its type, and what a service gets is a page from the first
\* on, of a positive size.
TypeOK ==
  /\ rows \subseteq Rows /\ began \subseteq rows /\ gone \subseteq Rows /\ late \subseteq Rows
  /\ list \in Lists /\ page \in Nat /\ size \in Int
  /\ Now.page \in Nat \ {0} /\ Limit \in Nat \ {0}
  /\ pc \in Steps /\ total \in Nat
  /\ got \subseteq Rows /\ length \in Nat
  /\ faults \in Nat /\ failed \in BOOLEAN /\ moves \in Nat

Untied(x) == \A y \in Rows \ {x} : TimeOf[y] # TimeOf[x]
Newer(x) == {y \in rows : TimeOf[y] > TimeOf[x]}
Behind(x) == {y \in rows : TimeOf[y] <= TimeOf[x]}
PagesAsSent == list \in {"audit", "traffic"} => size <= Cap
FollowsPages == list \notin {"entity", "actor", "usage", "vpn_users"}

\* How many rows the pages that a client has been told of hold: those of a list that
\* takes no page from the request are its first one over and over, and a larger size
\* than a page of audit log or traffic can have makes their number too small.
Reach == IF FollowsPages THEN TotalPages(total, Now.size) * Limit ELSE Limit

\* A walk over a list that is sorted by time misses no row that was there all the
\* while, wherever others come in, but for a row of the same time as another, for
\* rows that shift because newer ones leave, and for rows beyond what the pages
\* hold.  Where pages are followed and as large as was asked, nothing is beyond
\* them but as many of the oldest as came between the last count and the page.
WalkComplete ==
  pc = "done" /\ ~failed /\ Now.of.sorted =>
    \A x \in began \ got :
      \/ ~Untied(x)
      \/ \E y \in gone : TimeOf[y] > TimeOf[x]
      \/ /\ Cardinality(Newer(x)) >= Reach
         /\ FollowsPages /\ PagesAsSent => Cardinality(Behind(x)) <= Cardinality(late)

\* Sorted or not, the pages of a table that does not change add up to it, or to what
\* they hold where that is less; and a list that fits on one page, as the VPN server's
\* list of users is meant to, is answered whole whatever happens to its count.
PagesAddUp ==
  /\ pc = "done" /\ ~failed /\ FollowsPages /\ gone = {} /\ began = rows =>
       /\ length >= Least(Reach, Cardinality(rows))
       /\ PagesAsSent => length >= Cardinality(rows)
  /\ pc = "turn" /\ Now.page = 1 /\ Cardinality(rows \cup gone) <= Limit =>
       (IF list = "vpn_users" THEN began \cap Usable ELSE began) \subseteq got
=============================================================================
