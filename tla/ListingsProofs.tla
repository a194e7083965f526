--------------------------- MODULE ListingsProofs ---------------------------
(***************************************************************************)
(* Proofs about Listings, for any number of rows, any page sizes, and      *)
(* whatever rows come and go during a walk.                                *)
(***************************************************************************)
EXTENDS Listings, FiniteSetTheorems, TLAPS

-----------------------------------------------------------------------------
(***************************************************************************)
(* Numbers of pages.                                                       *)
(***************************************************************************)
LEMMA Divided ==
  ASSUME NEW n \in Int, NEW s \in Nat \ {0}
  PROVE  /\ n \div s \in Int /\ n % s \in 0 .. s - 1
         /\ n = (n \div s) * s + (n % s)
BY SMT

LEMMA Scaled ==
  ASSUME NEW a \in Int, NEW b \in Int, NEW s \in Nat \ {0}
  PROVE  /\ a * s \in Int /\ b * s \in Int
         /\ a <= b <=> a * s <= b * s
         /\ (a + 1) * s = a * s + s /\ (a - 1) * s = a * s - s
BY SMT

\* The number of pages of n rows is the least with room for all of them: a page
\* is at or behind the last one exactly when nothing is left behind it.
THEOREM PagesHoldAll ==
  ASSUME NEW n \in Nat, NEW s \in Nat \ {0}, NEW p \in Nat
  PROVE  /\ TotalPages(n, s) \in Nat
         /\ p >= TotalPages(n, s) <=> n <= p * s
<1> DEFINE q == TotalPages(n, s)
           m == n + s - 1
           r == m % s
<1>1. /\ q \in Int /\ r \in 0 .. s - 1 /\ m = q * s + r /\ q * s \in Int /\ p * s \in Int
      /\ q * s >= n /\ q * s <= n + s - 1
  <2>1. m \in Int /\ q = m \div s
    BY DEF TotalPages
  <2>2. q \in Int /\ r \in 0 .. s - 1 /\ m = q * s + r
    <3> HIDE DEF m, q
    <3> QED BY <2>1, Divided
  <2>3. q * s \in Int /\ p * s \in Int
    <3> HIDE DEF q
    <3> QED BY <2>2, Scaled
  <2> DEFINE qs == q * s
  <2> HIDE DEF q, r, qs
  <2>4. qs \in Int /\ n + s - 1 = qs + r
    BY <2>2, <2>3 DEF qs
  <2> QED
    BY <2>2, <2>3, <2>4 DEF qs, m
<1> HIDE DEF q
<1>2. q \in Nat
  <2>1. q >= 0
    <3>1. (-1) * s = -s /\ (q <= -1 <=> q * s <= (-1) * s)
      BY <1>1, Scaled
    <3> QED BY <1>1, <3>1
  <2> QED BY <1>1, <2>1
<1>3. p >= q => n <= p * s
  <2>1. q <= p <=> q * s <= p * s
    BY <1>1, Scaled
  <2> QED BY <1>1, <2>1
<1>4. n <= p * s => p >= q
  <2>1. p + 1 <= q <=> (p + 1) * s <= q * s
    BY <1>1, Scaled
  <2>2. (p + 1) * s = p * s + s
    BY <1>1, Scaled
  <2> QED BY <1>1, <2>1, <2>2
<1> QED
  BY <1>2, <1>3, <1>4 DEF q

\* The handlers that divide and look at the remainder get the same number as
\* CalculateTotalPages.
THEOREM PagesByRemainder ==
  ASSUME NEW n \in Nat, NEW s \in Nat \ {0}
  PROVE  TotalPagesByRemainder(n, s) = TotalPages(n, s)
<1> DEFINE d == n \div s
           r == n % s
           m == n + s - 1
           q == m \div s
           e == m % s
<1>1. d \in Int /\ r \in 0 .. s - 1 /\ n = d * s + r
  BY Divided
<1>2. q \in Int /\ e \in 0 .. s - 1 /\ m = q * s + e
  <2>1. m \in Int
    OBVIOUS
  <2> HIDE DEF m
  <2> QED BY <2>1, Divided
<1> HIDE DEF d, q
<1>3. /\ d + 1 <= q <=> (d + 1) * s <= q * s
      /\ d + 2 <= q <=> (d + 2) * s <= q * s
      /\ q <= d <=> q * s <= d * s
      /\ q <= d - 1 <=> q * s <= (d - 1) * s
      /\ (d + 1) * s = d * s + s /\ (d + 2) * s = d * s + 2 * s /\ (d - 1) * s = d * s - s
  <2>1. (d + 2) * s = ((d + 1) + 1) * s
    BY <1>1
  <2> QED BY <1>1, <1>2, <2>1, Scaled
<1>4. d * s \in Int /\ q * s \in Int
  BY <1>1, <1>2, Scaled
<1>5. n + s - 1 = q * s + e
  BY <1>2 DEF m
<1> HIDE DEF r, e
<1>6. q = d + (IF r > 0 THEN 1 ELSE 0)
  <2>1. CASE r > 0
    BY <1>1, <1>2, <1>3, <1>4, <1>5, <2>1
  <2>2. CASE r = 0
    BY <1>1, <1>2, <1>3, <1>4, <1>5, <2>2
  <2> QED BY <1>1, <2>1, <2>2
<1> QED
  BY <1>6 DEF TotalPagesByRemainder, TotalPages, d, q, r, m

-----------------------------------------------------------------------------
(***************************************************************************)
(* What a request asks a service for.                                      *)
(***************************************************************************)
LEMMA SizesOk ==
  ASSUME NEW n \in Int
  PROVE  /\ OrDefault(n) \in Nat \ {0} /\ Positive(n) \in Nat \ {0} /\ Bounded(n) \in Nat \ {0}
         /\ Bounded(Bounded(n)) = Bounded(n)
         /\ n <= Cap => Bounded(Positive(n)) = Positive(n)
BY ListingAssumption DEF OrDefault, Positive, Bounded

LEMMA WhatIsAsked ==
  ASSUME list \in Lists, page \in Nat, size \in Int
  PROVE  /\ Now.page \in Nat \ {0} /\ Now.size \in Nat \ {0} /\ Limit \in Nat \ {0}
         /\ Now.page = IF FollowsPages THEN FirstIfBelow(page) ELSE 1
         /\ FollowsPages /\ PagesAsSent => Limit = Now.size
         /\ Now.of.sorted \in BOOLEAN /\ (Now.of.sorted \/ FollowsPages => list # "vpn_users")
<1> DEFINE S == Now.size
<1>1. /\ Now.page = IF FollowsPages THEN FirstIfBelow(page) ELSE 1
      /\ S \in {Default, Full, OrDefault(size), Positive(size), Bounded(size)}
      /\ Now.of.bounds \in BOOLEAN /\ Now.of.sorted \in BOOLEAN
      /\ Now.of.sorted \/ FollowsPages => list # "vpn_users"
      /\ FollowsPages /\ Now.of.bounds
           => \/ list = "sessions" /\ S = Bounded(size)
              \/ list \in {"audit", "traffic"} /\ S = Positive(size)
  <2> USE DEF Now, Asked, FollowsPages
  <2>1. CASE list \in {"users", "groups", "networks"}
    BY <2>1 DEF UserList, GroupList, NetworkList, UserRows, GroupRows, NetworkRows
  <2>2. CASE list \in {"audit", "sessions", "traffic"}
    BY <2>2 DEF AuditList, SessionList, TrafficList, AuditRows, SessionRows, TrafficRows
  <2>3. CASE list \in {"entity", "actor", "usage"}
    BY <2>3 DEF EntityList, ActorList, UsageList, EntityRows, ActorRows, UsageRows
  <2>4. CASE list \in {"users_page", "groups_page", "networks_page"}
    BY <2>4 DEF UsersPage, GroupsPage, NetworksPage, UserRows, GroupRows, NetworkRows
  <2>5. CASE list = "vpn_users"
    BY <2>5 DEF VpnUserList, UserRows
  <2> QED BY <2>1, <2>2, <2>3, <2>4, <2>5, ListingAssumption
<1>2. FirstIfBelow(page) \in Nat \ {0}
  BY DEF FirstIfBelow
<1>3. S \in Nat \ {0}
  <2> HIDE DEF S
  <2> QED BY <1>1, SizesOk, ListingAssumption
<1>4. Limit = IF Now.of.bounds THEN Bounded(S) ELSE S
  BY DEF Limit
<1>5. FollowsPages /\ PagesAsSent => Limit = S
  <2> HIDE DEF S
  <2>1. list = "sessions" /\ S = Bounded(size) => Bounded(S) = S
    BY SizesOk
  <2>2. PagesAsSent /\ list \in {"audit", "traffic"} /\ S = Positive(size) => Bounded(S) = S
    BY SizesOk DEF PagesAsSent
  <2> QED BY <1>1, <1>4, <2>1, <2>2
<1>6. Limit \in Nat \ {0}
  <2> HIDE DEF S
  <2> QED BY <1>3, <1>4, SizesOk
<1> QED
  BY <1>1, <1>2, <1>3, <1>5, <1>6 DEF S

\* The list and the size stay for the whole walk, and only the page changes.
LEMMA AskedTheSame ==
  ASSUME list \in Lists, UNCHANGED <<list, size>>
  PROVE  /\ Now'.size = Now.size /\ Now'.of = Now.of /\ Limit' = Limit
         /\ FollowsPages' = FollowsPages /\ PagesAsSent' = PagesAsSent
         /\ page' = page => Now' = Now
         /\ Now'.page = IF FollowsPages THEN FirstIfBelow(page') ELSE 1
<1>1. /\ Now'.size = Now.size /\ Now'.of = Now.of
      /\ Now'.page = IF FollowsPages THEN FirstIfBelow(page') ELSE 1
  <2> USE DEF Now, Asked, FollowsPages
  <2>1. CASE list \in {"users", "groups", "networks"}
    BY <2>1 DEF UserList, GroupList, NetworkList
  <2>2. CASE list \in {"audit", "sessions", "traffic"}
    BY <2>2 DEF AuditList, SessionList, TrafficList
  <2>3. CASE list \in {"entity", "actor", "usage"}
    BY <2>3 DEF EntityList, ActorList, UsageList
  <2>4. CASE list \in {"users_page", "groups_page", "networks_page"}
    BY <2>4 DEF UsersPage, GroupsPage, NetworksPage
  <2>5. CASE list = "vpn_users"
    BY <2>5 DEF VpnUserList
  <2> QED BY <2>1, <2>2, <2>3, <2>4, <2>5, ListingAssumption
<1>2. page' = page => Now' = Now
  BY DEF Now, Asked
<1>3. FollowsPages' = FollowsPages /\ PagesAsSent' = PagesAsSent
  BY DEF FollowsPages, PagesAsSent
<1>4. Limit' = Limit
  BY <1>1 DEF Limit
<1> QED
  BY <1>1, <1>2, <1>3, <1>4

\* The page that a client asks for next is not beyond the one after the page it
\* has, also when it follows the link of an HTML page.
LEMMA NextIsNotBeyond ==
  ASSUME TypeOK, page' = Following, page < TotalPages(total, Now.size), FollowsPages
  PROVE  page' \in Nat /\ FirstIfBelow(page') <= FirstIfBelow(page) + 1
<1> DEFINE pages == TotalPages(total, Now.size)
           at == FirstIfBelow(page)
<1>1. Now.page = at /\ at \in Nat /\ page \in Nat
  BY WhatIsAsked DEF TypeOK, FirstIfBelow
<1>2. pages \in Nat
  BY WhatIsAsked, PagesHoldAll DEF TypeOK
<1>3. page' = IF list \in Html THEN NextPage(at, pages) ELSE page + 1
  BY <1>1 DEF Following
<1>4. page < pages
  OBVIOUS
<1> HIDE DEF pages
<1>5. CASE list \in Html
  <2>1. page' = NextPage(at, pages)
    BY <1>3, <1>5
  <2>2. page' \in Nat /\ page' <= at + 1 /\ page' >= 1
    BY <1>1, <1>2, <1>4, <2>1 DEF NextPage, Shown, FirstIfBelow
  <2> QED BY <1>1, <2>2 DEF FirstIfBelow
<1>6. CASE list \notin Html
  BY <1>1, <1>3, <1>6 DEF FirstIfBelow
<1> QED BY <1>5, <1>6

-----------------------------------------------------------------------------
(***************************************************************************)
(* What a page is, wherever the database puts rows that it need not order. *)
(***************************************************************************)
LEMMA SetsFinite ==
  ASSUME TypeOK
  PROVE  \A S \in SUBSET Rows : IsFiniteSet(S) /\ Cardinality(S) \in Nat
BY ListingAssumption, FS_Subset, FS_CardinalityType

LEMMA PageTaken ==
  ASSUME TypeOK, NEW skipped \in SUBSET rows, Offset(skipped),
         NEW P \in SUBSET (rows \ skipped), PageAfter(skipped, P)
  PROVE  LET k == (Now.page - 1) * Limit IN
         /\ k \in Nat /\ Now.page * Limit = k + Limit
         /\ Cardinality(skipped) = Least(k, Cardinality(rows))
         /\ Cardinality(P) = Least(Limit, Cardinality(rows) - Cardinality(skipped))
         /\ Cardinality(skipped \cup P) = Least(k + Limit, Cardinality(rows))
         /\ Cardinality(P) \in Nat
<1> DEFINE k == (Now.page - 1) * Limit
<1>1. Now.page \in Nat \ {0} /\ Limit \in Nat \ {0}
  BY WhatIsAsked DEF TypeOK
<1>2. k \in Nat /\ Now.page * Limit = k + Limit
  <2> DEFINE p == Now.page
             s == Limit
  <2>1. p \in Nat \ {0} /\ s \in Nat \ {0}
    BY <1>1
  <2> HIDE DEF p, s
  <2>2. (p - 1) * s \in Nat /\ p * s = (p - 1) * s + s
    <3>1. (p - 1) * s = p * s - s /\ 0 * s = 0 /\ (0 <= p - 1 <=> 0 * s <= (p - 1) * s)
      BY <2>1, Scaled
    <3> QED BY <2>1, <3>1, Scaled
  <2> QED BY <2>2 DEF p, s
<1>3. Cardinality(skipped) = Least(k, Cardinality(rows))
  BY DEF Offset
<1>4. /\ IsFiniteSet(rows) /\ IsFiniteSet(skipped) /\ IsFiniteSet(P)
      /\ Cardinality(rows) \in Nat /\ Cardinality(skipped) \in Nat /\ Cardinality(P) \in Nat
      /\ skipped \cap P = {} /\ rows \cap skipped = skipped
  BY SetsFinite DEF TypeOK
<1>5. Cardinality(rows \ skipped) = Cardinality(rows) - Cardinality(skipped)
  BY <1>4, FS_Difference
<1>6. Cardinality(P) = Least(Limit, Cardinality(rows) - Cardinality(skipped))
  BY <1>5 DEF PageAfter
<1>7. Cardinality(skipped \cup P) = Cardinality(skipped) + Cardinality(P)
  <2>1. /\ skipped \cap P = {}
        /\ Cardinality(skipped \cup P)
             = Cardinality(skipped) + Cardinality(P) - Cardinality(skipped \cap P)
    BY <1>4, FS_Union
  <2>2. Cardinality(skipped \cap P) = 0
    BY <1>4, FS_EmptySet
  <2> QED BY <1>4, <2>1, <2>2
<1> HIDE DEF k
<1>8. Cardinality(skipped \cup P) = Least(k + Limit, Cardinality(rows))
  BY <1>1, <1>2, <1>3, <1>4, <1>6, <1>7 DEF Least
<1> QED
  BY <1>2, <1>3, <1>4, <1>6, <1>8 DEF k

\* Every variable keeps its type, and every page that a service is asked for is
\* from the first on and of a positive size.
LEMMA TypeInit == Init => TypeOK
<1> SUFFICES ASSUME Init PROVE TypeOK
  OBVIOUS
<1>1. list \in Lists /\ page \in Nat /\ size \in Int
  BY ListingAssumption DEF Init
<1>2. Now.page \in Nat \ {0} /\ Limit \in Nat \ {0}
  BY <1>1, WhatIsAsked
<1> QED
  BY <1>1, <1>2 DEF Init, TypeOK, Steps

LEMMA TypeStep == TypeOK /\ [Next]_vars => TypeOK'
<1> SUFFICES ASSUME TypeOK, [Next]_vars PROVE TypeOK'
  OBVIOUS
<1>1. Cardinality(rows) \in Nat
  BY SetsFinite DEF TypeOK
<1>2. ASSUME page' \in Nat, UNCHANGED <<list, size>>
      PROVE  Now'.page \in Nat \ {0} /\ Limit' \in Nat \ {0}
  <2>1. Now'.page \in {1, FirstIfBelow(page')} /\ Limit' = Limit
    <3>1. Now'.page = (IF FollowsPages THEN FirstIfBelow(page') ELSE 1) /\ Limit' = Limit
      BY <1>2, AskedTheSame DEF TypeOK
    <3> QED BY <3>1
  <2> QED BY <1>2, <2>1 DEF FirstIfBelow, TypeOK
<1>3. CASE UNCHANGED vars
  BY <1>2, <1>3 DEF vars, walk, table, TypeOK
<1>4. CASE Count
  BY <1>1, <1>2, <1>4 DEF Count, walk, table, TypeOK, Steps
<1>5. CASE Find
  <2> PICK skipped \in SUBSET rows, P \in SUBSET rows :
        /\ P \cap skipped = {} /\ Offset(skipped) /\ PageAfter(skipped, P)
        /\ got' = got \cup (IF list = "vpn_users" THEN P \cap Usable ELSE P)
        /\ length' = length + Cardinality(P)
    BY <1>5 DEF Find
  <2>1. Cardinality(P) \in Nat
    BY SetsFinite DEF TypeOK
  <2> QED BY <1>2, <1>5, <2>1 DEF Find, table, TypeOK, Steps
<1>6. CASE Turn
  <2>1. page' \in Nat
    <3>1. CASE list = "vpn_users" \/ page >= TotalPages(total, Now.size)
      BY <1>6, <3>1 DEF Turn, TypeOK
    <3>2. CASE ~(list = "vpn_users" \/ page >= TotalPages(total, Now.size))
      <4>1. page' = Following
        BY <1>6, <3>2 DEF Turn
      <4>2. TotalPages(total, Now.size) \in Nat /\ Now.page \in Nat /\ page \in Nat
        BY WhatIsAsked, PagesHoldAll DEF TypeOK
      <4> HIDE DEF TotalPages, Now
      <4> QED BY <4>1, <4>2 DEF Following, NextPage, Shown
    <3> QED BY <3>1, <3>2
  <2> QED BY <1>2, <1>6, <2>1 DEF Turn, table, TypeOK, Steps
<1>7. CASE CountError
  BY <1>2, <1>7 DEF CountError, table, TypeOK, Steps
<1>8. CASE FindError
  BY <1>2, <1>8 DEF FindError, table, TypeOK, Steps
<1>9. ASSUME NEW r \in Rows, Enter(r) PROVE TypeOK'
  BY <1>2, <1>9 DEF Enter, walk, TypeOK
<1>10. ASSUME NEW r \in Rows, Leave(r) PROVE TypeOK'
  BY <1>2, <1>10 DEF Leave, walk, TypeOK
<1> QED
  BY <1>3, <1>4, <1>5, <1>6, <1>7, <1>8, <1>9, <1>10 DEF Next

\* Every variable of a walk keeps its type, whatever comes and goes meanwhile.
THEOREM TypeCorrect == Spec => []TypeOK
BY TypeInit, TypeStep, PTL DEF Spec

-----------------------------------------------------------------------------
(***************************************************************************)
(* A walk over a sorted list.  As long as no newer row has left, a row     *)
(* that is missing has at least as many newer ones as the pages behind the *)
(* client hold: it is still to come.  At the end that is what all pages    *)
(* hold; where pages are followed and as large as was asked, they hold the *)
(* total that was counted last, and what came since is in late.            *)
(***************************************************************************)
Stays(x) == Untied(x) /\ \A y \in gone : ~(TimeOf[y] > TimeOf[x])
SortedWalk == ~failed /\ Now.of.sorted

StillToCome ==
  \A x \in began \ got : Stays(x) =>
    /\ pc \in {"ask", "find"} => Cardinality(Newer(x)) >= (Now.page - 1) * Limit
    /\ pc = "turn" => Cardinality(Newer(x)) >= Now.page * Limit
    /\ pc = "done" => Cardinality(Newer(x)) >= Reach
Counted == pc \in {"find", "turn", "done"} => Cardinality(rows \ late) <= total

WalkInv == SortedWalk => StillToCome /\ Counted

\* The pages that a client has been told of end where its walk does, and hold what
\* was counted when they are as large as was asked.
LEMMA ReachOfPages ==
  ASSUME TypeOK
  PROVE  /\ Reach \in Int
         /\ FollowsPages /\ page >= TotalPages(total, Now.size) => Reach <= Now.page * Limit
         /\ ~FollowsPages => Reach = Now.page * Limit
         /\ FollowsPages /\ PagesAsSent => total <= Reach
<1> DEFINE pages == TotalPages(total, Now.size)
<1>1. /\ Now.page \in Nat \ {0} /\ Now.size \in Nat \ {0} /\ Limit \in Nat \ {0}
      /\ Now.page = IF FollowsPages THEN FirstIfBelow(page) ELSE 1
      /\ FollowsPages /\ PagesAsSent => Limit = Now.size
      /\ page \in Nat /\ total \in Nat
  BY WhatIsAsked DEF TypeOK
<1>2. /\ pages \in Nat
      /\ pages >= TotalPages(total, Now.size) => total <= pages * Now.size
  BY <1>1, PagesHoldAll
<1>3. Reach = IF FollowsPages THEN pages * Limit ELSE Limit
  BY DEF Reach
<1>4. total <= pages * Now.size
  BY <1>2
<1> HIDE DEF pages
<1>5. pages * Limit \in Int
  BY <1>1, <1>2, Scaled
<1>6. ASSUME FollowsPages, page >= pages PROVE pages * Limit <= Now.page * Limit
  <2>1. pages <= Now.page
    BY <1>1, <1>2, <1>6 DEF FirstIfBelow
  <2> QED BY <1>1, <1>2, <2>1, Scaled
<1>7. ~FollowsPages => Now.page * Limit = Limit
  BY <1>1
<1> QED BY <1>1, <1>3, <1>4, <1>5, <1>6, <1>7 DEF pages

LEMMA NewerFinite ==
  ASSUME TypeOK, NEW x
  PROVE  Newer(x) \in SUBSET Rows /\ IsFiniteSet(Newer(x)) /\ Cardinality(Newer(x)) \in Nat
BY SetsFinite DEF Newer, TypeOK

\* A page of a sorted list that a row is missing from, and from the pages before
\* it, is full and so are those: what they hold is all newer than the row.
LEMMA MissedByPage ==
  ASSUME TypeOK, Now.of.sorted, NEW skipped \in SUBSET rows, Offset(skipped),
         NEW P \in SUBSET (rows \ skipped), PageAfter(skipped, P),
         NEW x \in rows \ P, Untied(x), Cardinality(Newer(x)) >= (Now.page - 1) * Limit
  PROVE  Cardinality(Newer(x)) >= Now.page * Limit
<1> DEFINE k == (Now.page - 1) * Limit
           n == Cardinality(rows)
<1>1. /\ k \in Nat /\ Limit \in Nat \ {0} /\ Now.page * Limit = k + Limit
      /\ Cardinality(skipped) = Least(k, n)
      /\ Cardinality(skipped \cup P) = Least(k + Limit, n)
  BY PageTaken DEF TypeOK
<1>2. \A r \in rows : Key(r) = TimeOf[r] /\ TimeOf[r] \in Nat /\ r \in Rows
  BY ListingAssumption DEF Key, TypeOK
<1>3. /\ Newer(x) \in SUBSET Rows /\ IsFiniteSet(Newer(x)) /\ Cardinality(Newer(x)) \in Nat
      /\ n \in Nat /\ IsFiniteSet(rows)
  BY NewerFinite, SetsFinite DEF TypeOK
\* Were the row skipped, all newer ones were as well: more than there are skipped.
<1>4. x \notin skipped
  <2> SUFFICES ASSUME x \in skipped PROVE FALSE
    OBVIOUS
  <2>1. Newer(x) \subseteq skipped
    BY <1>2 DEF Newer, PageAfter
  <2>2. x \notin Newer(x) /\ Newer(x) \cup {x} \in SUBSET skipped
    BY <1>2, <2>1 DEF Newer
  <2>3. IsFiniteSet(skipped) /\ Cardinality(skipped) \in Nat
    BY SetsFinite DEF TypeOK
  <2>4. Cardinality(Newer(x)) + 1 <= Cardinality(skipped)
    <3>1. Cardinality(Newer(x) \cup {x}) = Cardinality(Newer(x)) + 1
      BY <1>3, <2>2, FS_AddElement
    <3>2. Cardinality(Newer(x) \cup {x}) <= Cardinality(skipped)
      BY <2>2, <2>3, FS_Subset
    <3> QED BY <3>1, <3>2
  <2> HIDE DEF k
  <2>5. Cardinality(Newer(x)) >= k
    BY DEF k
  <2> QED
    BY <1>1, <1>3, <2>3, <2>4, <2>5 DEF Least
<1>5. skipped \cup P \in SUBSET Newer(x)
  <2>1. \A y \in skipped \cup P : TimeOf[y] >= TimeOf[x] /\ TimeOf[y] # TimeOf[x]
    BY <1>2, <1>4 DEF PageAfter, Untied
  <2> QED
    BY <1>2, <2>1 DEF Newer
<1>6. Cardinality(skipped \cup P) <= Cardinality(Newer(x)) /\ Cardinality(skipped \cup P) \in Nat
  BY <1>3, <1>5, SetsFinite, FS_Subset
<1>7. Cardinality(Newer(x)) < n
  <2>1. Newer(x) \in SUBSET rows /\ x \in rows /\ x \notin Newer(x)
    BY <1>2 DEF Newer
  <2> QED
    BY <1>3, <2>1, FS_Subset
<1> HIDE DEF k, n
<1> QED
  BY <1>1, <1>3, <1>6, <1>7 DEF Least

\* While rows come and go.
LEMMA MovesKeepWalk ==
  ASSUME TypeOK, TypeOK', WalkInv, NEW r \in Rows, Enter(r) \/ Leave(r)
  PROVE  WalkInv'
<1> SUFFICES ASSUME SortedWalk' PROVE StillToCome' /\ Counted'
  BY DEF WalkInv
<1>0. UNCHANGED <<walk, pc, total>> /\ began' \subseteq began /\ gone \subseteq gone'
  BY DEF Enter, Leave
<1>1. /\ Limit' = Limit /\ Now' = Now /\ SortedWalk /\ Reach' = Reach
  BY <1>0, AskedTheSame DEF walk, SortedWalk, Reach, TypeOK
<1>2. StillToCome /\ Counted
  BY <1>1 DEF WalkInv
<1>3. ASSUME NEW x \in began' \ got', Stays(x)'
      PROVE  /\ x \in began \ got /\ Stays(x)
             /\ Cardinality(Newer(x)) <= Cardinality(Newer(x)')
             /\ Cardinality(Newer(x)) \in Nat /\ Cardinality(Newer(x)') \in Nat
  <2>1. x \in began \ got /\ Stays(x)
    BY <1>0, <1>3 DEF walk, Stays, Untied
  <2>2. Newer(x) \in SUBSET Newer(x)'
    <3>1. CASE Enter(r)
      BY <3>1 DEF Enter, Newer
    <3>2. CASE Leave(r)
      BY <1>3, <3>2 DEF Leave, Newer, Stays
    <3> QED BY <3>1, <3>2
  <2>3. Newer(x)' \in SUBSET Rows
    BY DEF Newer, TypeOK
  <2> QED
    BY <2>1, <2>2, <2>3, NewerFinite, SetsFinite, FS_Subset
<1>4. StillToCome'
  <2> SUFFICES ASSUME NEW x \in began' \ got', Stays(x)'
               PROVE  /\ pc \in {"ask", "find"} => Cardinality(Newer(x)') >= (Now.page - 1) * Limit
                      /\ pc = "turn" => Cardinality(Newer(x)') >= Now.page * Limit
                      /\ pc = "done" => Cardinality(Newer(x)') >= Reach
    BY <1>0, <1>1 DEF StillToCome
  <2> DEFINE k == (Now.page - 1) * Limit
             m == Now.page * Limit
  <2>1. k \in Int /\ m \in Int /\ Reach \in Int
    BY WhatIsAsked, Scaled, ReachOfPages DEF TypeOK
  <2>2. /\ pc \in {"ask", "find"} => Cardinality(Newer(x)) >= k
        /\ pc = "turn" => Cardinality(Newer(x)) >= m
        /\ pc = "done" => Cardinality(Newer(x)) >= Reach
    BY <1>2, <1>3 DEF StillToCome
  <2> HIDE DEF k, m
  <2>3. /\ pc \in {"ask", "find"} => Cardinality(Newer(x)') >= k
        /\ pc = "turn" => Cardinality(Newer(x)') >= m
        /\ pc = "done" => Cardinality(Newer(x)') >= Reach
    BY <1>3, <2>1, <2>2
  <2> QED BY <2>3 DEF k, m
<1>5. Counted'
  <2>1. rows' \ late' \in SUBSET (rows \ late) /\ rows \ late \in SUBSET Rows
    BY DEF Enter, Leave, TypeOK
  <2>2. /\ Cardinality(rows' \ late') \in Nat /\ Cardinality(rows \ late) \in Nat
        /\ Cardinality(rows' \ late') <= Cardinality(rows \ late)
    BY <2>1, SetsFinite, FS_Subset
  <2> QED
    BY <1>0, <1>2, <2>2 DEF Counted, TypeOK
<1> QED BY <1>4, <1>5

LEMMA WalkStep == TypeOK /\ TypeOK' /\ WalkInv /\ [Next]_vars => WalkInv'
<1> SUFFICES ASSUME TypeOK, TypeOK', WalkInv, [Next]_vars PROVE WalkInv'
  OBVIOUS
<1> DEFINE k == (Now.page - 1) * Limit
           m == Now.page * Limit
<1>0. k \in Int /\ m \in Int
  BY WhatIsAsked, Scaled DEF TypeOK
\* The steps of the walk that read nothing, or fail.
<1>1. CASE UNCHANGED vars
  <2>1. Now' = Now /\ Limit' = Limit
    BY <1>1, AskedTheSame DEF vars, walk, TypeOK
  <2> QED
    BY <1>1, <2>1 DEF vars, walk, table, WalkInv, SortedWalk, StillToCome, Counted, Stays,
          Untied, Newer, Reach, FollowsPages
<1>2. CASE CountError \/ FindError
  BY <1>2 DEF CountError, FindError, WalkInv, SortedWalk
<1>3. CASE Count
  <2>1. Now' = Now /\ Limit' = Limit
    BY <1>3, AskedTheSame DEF Count, walk, TypeOK
  <2>2. Cardinality(rows' \ late') <= total'
    <3>1. rows' \ late' = rows /\ total' = Cardinality(rows) /\ Cardinality(rows) \in Nat
      BY <1>3, SetsFinite DEF Count, table, TypeOK
    <3> QED BY <3>1
  <2> QED
    BY <1>3, <2>1, <2>2 DEF Count, walk, table, WalkInv, SortedWalk, StillToCome, Counted,
          Stays, Untied, Newer
<1>4. CASE Find
  <2> PICK skipped \in SUBSET rows, P \in SUBSET rows :
        /\ P \cap skipped = {} /\ Offset(skipped) /\ PageAfter(skipped, P)
        /\ got' = got \cup (IF list = "vpn_users" THEN P \cap Usable ELSE P)
    BY <1>4 DEF Find
  <2>1. /\ pc = "find" /\ pc' = "turn" /\ UNCHANGED <<table, list, page, size, failed, total, late>>
    BY <1>4 DEF Find
  <2>2. Now' = Now /\ Limit' = Limit
    BY <2>1, AskedTheSame DEF TypeOK
  <2> SUFFICES ASSUME SortedWalk' PROVE StillToCome' /\ Counted'
    BY DEF WalkInv
  <2>3. SortedWalk /\ list # "vpn_users"
    BY <2>1, <2>2, WhatIsAsked DEF SortedWalk, TypeOK
  <2>4. Counted'
    BY <2>1, <2>3 DEF Counted, WalkInv, table
  <2>5. ASSUME NEW x \in began' \ got', Stays(x)'
        PROVE  Cardinality(Newer(x)') >= Now'.page * Limit'
    <3>1. x \in began \ got /\ Stays(x) /\ x \in rows \ P /\ Newer(x)' = Newer(x)
      BY <2>1, <2>3, <2>5 DEF table, Stays, Untied, TypeOK, Newer
    <3>2. Cardinality(Newer(x)) >= (Now.page - 1) * Limit
      BY <2>1, <2>3, <3>1 DEF WalkInv, StillToCome
    <3>3. Cardinality(Newer(x)) >= Now.page * Limit
      BY <2>3, <3>1, <3>2, MissedByPage DEF SortedWalk, Stays
    <3> QED BY <2>2, <3>1, <3>3
  <2> QED BY <2>1, <2>4, <2>5 DEF StillToCome
<1>5. CASE Turn
  <2>1. /\ pc = "turn" /\ UNCHANGED <<table, list, size, got, failed, total, late>>
    BY <1>5 DEF Turn
  <2>2. Limit' = Limit /\ Now'.of = Now.of /\ Now'.size = Now.size /\ FollowsPages' = FollowsPages
        /\ Now'.page = IF FollowsPages THEN FirstIfBelow(page') ELSE 1
    BY <2>1, AskedTheSame DEF TypeOK
  <2> SUFFICES ASSUME SortedWalk' PROVE StillToCome' /\ Counted'
    BY DEF WalkInv
  <2>3. SortedWalk /\ list # "vpn_users"
    BY <2>1, <2>2, WhatIsAsked DEF SortedWalk, TypeOK
  <2>4. Counted'
    <3>1. rows' = rows /\ late' = late /\ total' = total
      BY <2>1 DEF table
    <3> QED BY <2>1, <2>3, <3>1 DEF Counted, WalkInv
  <2>5. ASSUME NEW x \in began' \ got', Stays(x)'
        PROVE  /\ x \in began \ got /\ Stays(x) /\ Newer(x)' = Newer(x)
               /\ Cardinality(Newer(x)) >= m
               /\ Cardinality(Newer(x)) \in Nat
    <3>1. x \in began \ got /\ Stays(x) /\ Newer(x)' = Newer(x)
      BY <2>1, <2>5 DEF table, Stays, Untied, Newer
    <3> QED BY <2>1, <2>3, <3>1, NewerFinite DEF WalkInv, StillToCome
  <2>6. /\ Now.page = IF FollowsPages THEN FirstIfBelow(page) ELSE 1
        /\ Now.page \in Nat \ {0} /\ Limit \in Nat \ {0} /\ Now.size \in Nat \ {0}
        /\ page \in Nat /\ total \in Nat
    BY WhatIsAsked DEF TypeOK
  <2>7. CASE page >= TotalPages(total, Now.size)
    <3>1. pc' = "done"
      BY <1>5, <2>7 DEF Turn
    <3>2. Reach <= m /\ Reach \in Int /\ Reach' = Reach
      <4>1. Reach' = Reach
        BY <2>1, <2>2 DEF Reach
      <4>2. Reach \in Int /\ (FollowsPages \/ ~FollowsPages)
        BY ReachOfPages
      <4>3. FollowsPages => Reach <= m
        BY <2>7, ReachOfPages
      <4>4. ~FollowsPages => Reach = m
        BY ReachOfPages
      <4> QED BY <1>0, <4>1, <4>2, <4>3, <4>4
    <3>3. \A x \in began' \ got' : Stays(x)' => Cardinality(Newer(x)') >= Reach'
      <4> SUFFICES ASSUME NEW x \in began' \ got', Stays(x)' PROVE Cardinality(Newer(x)') >= Reach'
        OBVIOUS
      <4> HIDE DEF m
      <4> QED BY <1>0, <2>5, <3>2
    <3> QED BY <2>4, <3>1, <3>3 DEF StillToCome
  <2>8. CASE ~(page >= TotalPages(total, Now.size))
    <3>1. pc' = "ask" /\ page' = Following
      BY <1>5, <2>3, <2>8 DEF Turn
    <3>2. TotalPages(total, Now.size) \in Nat
      BY <2>6, PagesHoldAll
    <3>3. Now'.page \in Nat /\ Now'.page - 1 <= Now.page
      <4>1. CASE FollowsPages
        <5>0. page < TotalPages(total, Now.size) /\ page' = Following
          BY <2>6, <2>8, <3>1, <3>2
        <5>1. page' \in Nat /\ FirstIfBelow(page') <= FirstIfBelow(page) + 1
          BY <4>1, <5>0, NextIsNotBeyond
        <5>2. Now'.page = FirstIfBelow(page') /\ Now.page = FirstIfBelow(page)
          BY <2>2, <2>6, <4>1
        <5>3. FirstIfBelow(page') \in Nat /\ FirstIfBelow(page) \in Nat
          BY <2>6, <5>1 DEF FirstIfBelow
        <5> QED BY <5>1, <5>2, <5>3
      <4>2. CASE ~FollowsPages
        BY <2>2, <2>6, <4>2
      <4> QED BY <4>1, <4>2
    <3>5. (Now'.page - 1) * Limit' <= m /\ (Now'.page - 1) * Limit' \in Int
      BY <2>2, <2>6, <3>3, Scaled
    <3>6. \A x \in began' \ got' : Stays(x)' => Cardinality(Newer(x)') >= (Now'.page - 1) * Limit'
      <4> SUFFICES ASSUME NEW x \in began' \ got', Stays(x)'
                   PROVE  Cardinality(Newer(x)') >= (Now'.page - 1) * Limit'
        OBVIOUS
      <4> DEFINE a == (Now'.page - 1) * Limit'
      <4> HIDE DEF m, a
      <4>1. a <= m /\ a \in Int
        BY <3>5 DEF m, a
      <4>2. Cardinality(Newer(x)') >= a
        BY <1>0, <2>5, <4>1
      <4> QED BY <4>2 DEF a
    <3> QED BY <2>4, <3>1, <3>6 DEF StillToCome
  <2> QED BY <2>7, <2>8
<1>6. ASSUME NEW r \in Rows, Enter(r) \/ Leave(r) PROVE WalkInv'
  BY <1>6, MovesKeepWalk
<1> QED
  BY <1>1, <1>2, <1>3, <1>4, <1>5, <1>6 DEF Next

\* A walk to the last page of a list that is sorted by time misses no row that was
\* there all the while, but for ties, rows that shift because a newer one has left,
\* and rows behind as many newer ones as its pages hold.  When pages are followed and
\* as large as was asked, that leaves as many of the oldest as came after the last
\* count.  This is for any number of rows, any size that a client may ask, those
\* beyond the largest too, and any rows that come and go.
THEOREM WalksMissNothing == Spec => []WalkComplete
<1>1. Init => WalkInv
  <2> SUFFICES ASSUME Init, SortedWalk PROVE StillToCome /\ Counted
    BY DEF WalkInv
  <2>0. TypeOK
    BY TypeInit
  <2>1. Now.page = 1 /\ Limit \in Nat \ {0}
    BY <2>0, ListingAssumption, WhatIsAsked DEF Init, TypeOK, FirstIfBelow
  <2>2. (Now.page - 1) * Limit = 0
    BY <2>1
  <2>3. \A x : Cardinality(Newer(x)) >= 0
    BY <2>0, NewerFinite
  <2> QED
    BY <2>2, <2>3 DEF Init, StillToCome, Counted
<1>2. TypeOK /\ WalkInv => WalkComplete
  <2> SUFFICES ASSUME TypeOK, WalkInv, pc = "done", SortedWalk,
                      NEW x \in began \ got, Stays(x)
               PROVE  /\ Cardinality(Newer(x)) >= Reach
                      /\ FollowsPages /\ PagesAsSent => Cardinality(Behind(x)) <= Cardinality(late)
    BY DEF WalkComplete, SortedWalk, Stays
  <2>0. Cardinality(Newer(x)) >= Reach
    BY DEF WalkInv, StillToCome
  <2> SUFFICES ASSUME FollowsPages, PagesAsSent PROVE Cardinality(Behind(x)) <= Cardinality(late)
    BY <2>0
  <2>1. Cardinality(Newer(x)) >= total /\ Cardinality(rows \ late) <= total /\ total \in Nat
    <3>1. Reach \in Int /\ total <= Reach /\ total \in Nat /\ Cardinality(Newer(x)) \in Nat
      BY ReachOfPages, NewerFinite DEF TypeOK
    <3> QED BY <2>0, <3>1 DEF WalkInv, Counted
  <2>2. \A r \in rows : TimeOf[r] \in Nat
    BY ListingAssumption DEF TypeOK
  <2>3. /\ Behind(x) \cup Newer(x) = rows /\ Behind(x) \cap Newer(x) = {}
        /\ Behind(x) \in SUBSET Rows /\ Newer(x) \in SUBSET Rows
    <3>1. x \in rows
      BY DEF TypeOK
    <3>2. \A y \in rows : TimeOf[y] <= TimeOf[x] <=> ~(TimeOf[y] > TimeOf[x])
      BY <2>2, <3>1
    <3> QED BY <3>2 DEF Behind, Newer, TypeOK
  <2>4. Cardinality(rows) = Cardinality(Behind(x)) + Cardinality(Newer(x))
    <3>1. Cardinality(rows) = Cardinality(Behind(x)) + Cardinality(Newer(x))
                                 - Cardinality(Behind(x) \cap Newer(x))
      BY <2>3, SetsFinite, FS_Union
    <3>2. Cardinality(Behind(x) \cap Newer(x)) = 0
      BY <2>3, FS_EmptySet
    <3> QED BY <2>3, <3>1, <3>2, SetsFinite
  <2>5. Cardinality(rows) <= Cardinality(rows \ late) + Cardinality(late)
    <3>1. /\ rows \in SUBSET Rows /\ late \in SUBSET Rows /\ rows \cap late \in SUBSET late
          /\ rows \ late \in SUBSET Rows /\ rows \cap late \in SUBSET Rows
      BY DEF TypeOK
    <3>2. Cardinality(rows \ late) = Cardinality(rows) - Cardinality(rows \cap late)
      BY <3>1, SetsFinite, FS_Difference
    <3>3. Cardinality(rows \cap late) <= Cardinality(late)
      BY <3>1, SetsFinite, FS_Subset
    <3>4. /\ Cardinality(rows) \in Nat /\ Cardinality(late) \in Nat
          /\ Cardinality(rows \ late) \in Nat /\ Cardinality(rows \cap late) \in Nat
      BY <3>1, SetsFinite
    <3> QED BY <3>2, <3>3, <3>4
  <2>6. /\ Cardinality(late) \in Nat /\ Cardinality(rows \ late) \in Nat
        /\ Cardinality(rows) \in Nat /\ Cardinality(Behind(x)) \in Nat
        /\ Cardinality(Newer(x)) \in Nat
    <3>1. /\ late \in SUBSET Rows /\ rows \in SUBSET Rows /\ rows \ late \in SUBSET Rows
      BY DEF TypeOK
    <3> QED BY <2>3, <3>1, SetsFinite
  <2> QED
    BY <2>1, <2>4, <2>5, <2>6
<1> QED
  BY <1>1, <1>2, WalkStep, TypeCorrect, PTL DEF Spec

-----------------------------------------------------------------------------
(***************************************************************************)
(* Lists in whatever order.  Nothing can be said of which rows a page has, *)
(* but of how many: of a table that does not change the pages behind the   *)
(* client have shown as many rows as they hold, with repetition.           *)
(***************************************************************************)
Still == ~failed /\ FollowsPages /\ gone = {} /\ began = rows

ShownSoFar ==
  /\ pc \in {"find", "turn"} => total = Cardinality(rows)
  /\ pc \in {"ask", "find"} => length >= Least((Now.page - 1) * Limit, Cardinality(rows))
  /\ pc = "turn" => length >= Least(Now.page * Limit, Cardinality(rows))
  /\ pc = "done" => /\ length >= Least(Reach, Cardinality(rows))
                    /\ PagesAsSent => length >= Cardinality(rows)

WholeOnOnePage ==
  pc = "turn" /\ Now.page = 1 /\ Cardinality(rows \cup gone) <= Limit =>
    (IF list = "vpn_users" THEN began \cap Usable ELSE began) \subseteq got

SumInv == (Still => ShownSoFar) /\ WholeOnOnePage

LEMMA SumStep == TypeOK /\ TypeOK' /\ SumInv /\ [Next]_vars => SumInv'
<1> SUFFICES ASSUME TypeOK, TypeOK', SumInv, [Next]_vars PROVE SumInv'
  OBVIOUS
<1> DEFINE k == (Now.page - 1) * Limit
           m == Now.page * Limit
           n == Cardinality(rows)
<1>0. /\ k \in Int /\ m \in Int /\ Limit \in Nat \ {0} /\ Now.page \in Nat \ {0}
      /\ n \in Nat /\ length \in Nat /\ total \in Nat /\ page \in Nat
  BY WhatIsAsked, Scaled, SetsFinite DEF TypeOK
<1>1. CASE UNCHANGED vars
  <2>1. Now' = Now /\ Limit' = Limit
    BY <1>1, AskedTheSame DEF vars, walk, TypeOK
  <2> QED
    BY <1>1, <2>1 DEF vars, walk, table, SumInv, Still, ShownSoFar, WholeOnOnePage,
          Reach, FollowsPages, PagesAsSent
<1>2. CASE CountError \/ FindError
  BY <1>2 DEF CountError, FindError, SumInv, Still, WholeOnOnePage
<1>3. CASE Count
  <2>1. Now' = Now /\ Limit' = Limit /\ FollowsPages' = FollowsPages /\ PagesAsSent' = PagesAsSent
    BY <1>3, AskedTheSame DEF Count, walk, TypeOK
  <2> QED
    BY <1>3, <2>1 DEF Count, walk, table, SumInv, Still, ShownSoFar, WholeOnOnePage
<1>4. CASE Find
  <2> PICK skipped \in SUBSET rows, P \in SUBSET rows :
        /\ P \cap skipped = {} /\ Offset(skipped) /\ PageAfter(skipped, P)
        /\ got' = got \cup (IF list = "vpn_users" THEN P \cap Usable ELSE P)
        /\ length' = length + Cardinality(P)
    BY <1>4 DEF Find
  <2>1. /\ pc = "find" /\ pc' = "turn" /\ UNCHANGED <<table, list, page, size, failed, total, late>>
    BY <1>4 DEF Find
  <2>2. Now' = Now /\ Limit' = Limit /\ FollowsPages' = FollowsPages /\ PagesAsSent' = PagesAsSent
    BY <2>1, AskedTheSame DEF TypeOK
  <2>3. /\ k \in Nat /\ m = k + Limit /\ Cardinality(P) \in Nat
        /\ Cardinality(skipped) = Least(k, n)
        /\ Cardinality(P) = Least(Limit, n - Cardinality(skipped))
    <3>1. P \in SUBSET (rows \ skipped)
      OBVIOUS
    <3> QED BY <3>1, PageTaken
  <2>4. ASSUME Still' PROVE ShownSoFar'
    <3>1. Still /\ rows' = rows
      BY <2>1, <2>2, <2>4 DEF Still, table
    <3>2. length >= Least(k, n) /\ total = n
      BY <2>1, <3>1 DEF SumInv, ShownSoFar
    <3>3. length + Cardinality(P) >= Least(m, n)
      <4> HIDE DEF k, m, n
      <4> QED BY <1>0, <2>3, <3>2 DEF Least
    <3> QED BY <2>1, <2>2, <3>1, <3>2, <3>3 DEF ShownSoFar
  <2>5. WholeOnOnePage'
    <3> SUFFICES ASSUME Now.page = 1, Cardinality(rows \cup gone) <= Limit PROVE P = rows
      <4>1. rows' = rows /\ gone' = gone /\ began' = began /\ began \subseteq rows
        BY <2>1 DEF table, TypeOK
      <4> QED BY <2>1, <2>2, <4>1 DEF WholeOnOnePage
    <3>1. /\ rows \in SUBSET (rows \cup gone) /\ rows \cup gone \in SUBSET Rows
          /\ skipped \in SUBSET Rows /\ rows \in SUBSET Rows
      BY DEF TypeOK
    <3>2. n <= Limit
      <4>1. Cardinality(rows \cup gone) \in Nat /\ n <= Cardinality(rows \cup gone)
        BY <3>1, SetsFinite, FS_Subset
      <4> QED BY <1>0, <4>1
    <3>3. k = 0
      BY <1>0
    <3>4. Cardinality(P) = n
      <4> HIDE DEF k, n
      <4> QED BY <1>0, <2>3, <3>2, <3>3 DEF Least
    <3> QED BY <3>1, <3>4, SetsFinite, FS_Subset
  <2> QED BY <2>4, <2>5 DEF SumInv
<1>5. CASE Turn
  <2>1. /\ pc = "turn" /\ pc' # "turn" /\ UNCHANGED <<table, list, size, got, length, failed, total, late>>
    BY <1>5 DEF Turn
  <2>2. Limit' = Limit /\ FollowsPages' = FollowsPages /\ PagesAsSent' = PagesAsSent
        /\ Now'.size = Now.size /\ (FollowsPages => Now'.page = FirstIfBelow(page'))
    BY <2>1, AskedTheSame DEF TypeOK
  <2> SUFFICES ASSUME Still' PROVE ShownSoFar'
    BY <2>1 DEF SumInv, WholeOnOnePage
  <2>3. Still /\ rows' = rows /\ length' = length
    BY <2>1, <2>2 DEF Still, table
  <2>4. total = n /\ length >= Least(m, n)
    BY <2>1, <2>3 DEF SumInv, ShownSoFar
  <2>5. /\ Now.page = FirstIfBelow(page) /\ Now.size \in Nat \ {0} /\ list # "vpn_users"
    BY <2>3, WhatIsAsked DEF Still, TypeOK
  <2>6. CASE page >= TotalPages(total, Now.size)
    <3>1. pc' = "done"
      BY <1>5, <2>6 DEF Turn
    <3>2. Reach \in Int /\ Reach <= m /\ (PagesAsSent => n <= Reach)
      BY <2>3, <2>4, <2>6, ReachOfPages DEF Still
    <3>3. Reach' = Reach /\ PagesAsSent' = PagesAsSent
      BY <2>1, <2>2 DEF Reach
    <3>4. length >= Least(Reach, n) /\ (PagesAsSent => length >= n)
      <4> HIDE DEF m, n
      <4> QED BY <1>0, <2>4, <3>2 DEF Least
    <3> QED BY <2>3, <3>1, <3>3, <3>4 DEF ShownSoFar
  <2>7. CASE ~(page >= TotalPages(total, Now.size))
    <3>1. pc' = "ask" /\ page' = Following
      BY <1>5, <2>5, <2>7 DEF Turn
    <3>2. TotalPages(total, Now.size) \in Nat
      BY <1>0, <2>5, PagesHoldAll
    <3>3. page' \in Nat /\ FirstIfBelow(page') <= FirstIfBelow(page) + 1
      BY <1>0, <2>3, <2>7, <3>1, <3>2, NextIsNotBeyond DEF Still
    <3>4. Now'.page \in Nat /\ Now'.page - 1 <= Now.page
      BY <1>0, <2>2, <2>3, <2>5, <3>3 DEF FirstIfBelow, Still
    <3>5. (Now'.page - 1) * Limit' <= m /\ (Now'.page - 1) * Limit' \in Int
      BY <1>0, <2>2, <3>4, Scaled
    <3>6. length >= Least((Now'.page - 1) * Limit', n)
      <4> DEFINE a == (Now'.page - 1) * Limit'
      <4> HIDE DEF a, m, n
      <4>1. a <= m /\ a \in Int
        BY <3>5 DEF a, m
      <4>2. length >= Least(a, n)
        BY <1>0, <2>4, <4>1 DEF Least
      <4> QED BY <4>2 DEF a
    <3> QED BY <2>3, <3>1, <3>6 DEF ShownSoFar
  <2> QED BY <2>6, <2>7
<1>6. ASSUME NEW r \in Rows, Enter(r) \/ Leave(r) PROVE SumInv'
  <2>0. UNCHANGED <<walk, pc, total>> /\ began' \subseteq began
    BY <1>6 DEF Enter, Leave
  <2>1. Now' = Now /\ Limit' = Limit
    BY <2>0, AskedTheSame DEF walk, TypeOK
  \* A row that comes was not there when the walk began, one that leaves is gone.
  <2>2. ~Still'
    BY <1>6 DEF Enter, Leave, Still, TypeOK
  <2>3. WholeOnOnePage'
    <3> SUFFICES ASSUME pc = "turn", Now.page = 1, Cardinality(rows' \cup gone') <= Limit
                 PROVE  (IF list = "vpn_users" THEN began \cap Usable ELSE began) \subseteq got
      BY <2>0, <2>1 DEF walk, WholeOnOnePage
    <3>1. rows \cup gone \in SUBSET (rows' \cup gone') /\ rows' \cup gone' \in SUBSET Rows
          /\ rows \cup gone \in SUBSET Rows
      BY <1>6 DEF Enter, Leave, TypeOK
    <3>2. Cardinality(rows \cup gone) <= Limit
      <4>1. /\ Cardinality(rows \cup gone) <= Cardinality(rows' \cup gone')
            /\ Cardinality(rows \cup gone) \in Nat /\ Cardinality(rows' \cup gone') \in Nat
        BY <3>1, SetsFinite, FS_Subset
      <4> QED BY <1>0, <4>1
    <3> QED BY <3>2 DEF SumInv, WholeOnOnePage
  <2> QED BY <2>2, <2>3 DEF SumInv
<1> QED
  BY <1>1, <1>2, <1>3, <1>4, <1>5, <1>6 DEF Next

\* In whatever order the database gives the rows, the pages of a table that does
\* not change show at least as many as it has, or as they hold where a size beyond
\* the largest was asked for, and a list that fits on one page is answered whole,
\* also when its count has failed.
THEOREM PagesShowAll == Spec => []PagesAddUp
<1>1. Init => SumInv
  <2> SUFFICES ASSUME Init, FollowsPages PROVE ShownSoFar
    BY DEF SumInv, Still, WholeOnOnePage, Init
  <2>0. TypeOK
    BY TypeInit
  <2>1. Now.page = 1 /\ Limit \in Nat \ {0} /\ Cardinality(rows) \in Nat
    BY <2>0, ListingAssumption, WhatIsAsked, SetsFinite DEF Init, TypeOK, FirstIfBelow
  <2>2. (Now.page - 1) * Limit = 0
    BY <2>1
  <2> QED
    BY <2>1, <2>2 DEF Init, ShownSoFar, Least
<1>2. SumInv => PagesAddUp
  BY DEF SumInv, Still, ShownSoFar, WholeOnOnePage, PagesAddUp
<1> QED
  BY <1>1, <1>2, SumStep, TypeCorrect, PTL DEF Spec
=============================================================================
