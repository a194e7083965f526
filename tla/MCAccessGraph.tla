--------------------------- MODULE MCAccessGraph ---------------------------
(***************************************************************************)
(* Instances of AccessGraph for TLC: a user of two groups, each of which   *)
(* may reach a network of its own.  The requests are about the first pair; *)
(* what goes through the second must go on.  A second user is in no group. *)
(* There is a free key of groups for the one new row that the names allow. *)
(***************************************************************************)
EXTENDS AccessGraph, TLC

CONSTANTS u1, u2, mia, g1, g2, g3, n1, n2, a, b, c, c1, c2, s1, s2

MCUsers == {u1, u2}
MCManagers == {mia}
MCManagerOf == u1 :> mia @@ u2 :> None
MCGroups == {g1, g2, g3}
MCNetworks == {n1, n2}
MCNames == {a, b, c}
MCCidrs == {c1, c2}

Group(name) == [name |-> name, cidr |-> None, deleted |-> FALSE]
Network(name, cidr) == [name |-> name, cidr |-> cidr, deleted |-> FALSE]
MCItems0 == g1 :> Group(a) @@ g2 :> Group(b) @@ g3 :> None
              @@ n1 :> Network(a, c1) @@ n2 :> Network(b, c2)
MCMembers0 == {<<u1, g1>>, <<u1, g2>>}
MCGrants0 == {<<n1, g1>>, <<n2, g2>>}

Body(op, below) ==
  [op |-> op, below |-> below, role |-> "ADMIN", by |-> None, user |-> None,
   group |-> None, id |-> None, name |-> Keep, cidr |-> Keep]
Routes(u) == [Body("routes", "users") EXCEPT !.role = None, !.user = u]
Join(below, u, g) == [Body("join", below) EXCEPT !.user = u, !.group = g]
Leave(below, g) == [Body("leave", below) EXCEPT !.user = u1, !.group = g]
Grant(below, n, g) == [Body("grant", below) EXCEPT !.id = n, !.group = g]
Revoke(below, n, g) == [Body("revoke", below) EXCEPT !.id = n, !.group = g]
Create(id, name, cidr) ==
  [Body("create", "groups") EXCEPT !.id = id, !.name = name, !.cidr = cidr]
Update(id, name, cidr) ==
  [Body("update", "groups") EXCEPT !.id = id, !.name = name, !.cidr = cidr]
Delete(id) == [Body("delete", "groups") EXCEPT !.id = id]
By(m, i) == [i EXCEPT !.role = "MANAGER", !.by = m]
GroupsFor(u, role, v) == [Routes(v) EXCEPT !.role = role, !.by = u]

\* Requests that change what another may have read.
RacingInputs ==
  { Routes(u1), Join("users", u1, g1), Leave("users", g1), Grant("groups", n1, g1),
    Update(n1, Keep, c2), Delete(n1), Delete(g1) }

\* The rest of the handlers, and each side of their checks.
OtherInputs ==
  { Routes(u2), GroupsFor(mia, "MANAGER", u1), GroupsFor(u1, "USER", u2), Create(g3, a, None), Create(g3, c, None), Create(n2, b, c2), Create(n2, a, Malformed),
    Update(g1, b, Keep), Update(n1, Keep, Malformed), Grant("networks", n1, g1),
    Update(n1, a, Keep), Revoke("groups", n1, g1),
    By(mia, Join("groups", u1, g1)), By(mia, Join("groups", u2, g1)),
    By(mia, Leave("groups", g1)), By(mia, Delete(g1)), Revoke("networks", n1, g1) }

MCInputs == RacingInputs \cup OtherInputs

\* Routes are asked for one at a time, and the other requests come alone:
\* they race as one of RacingInputs does.  While the user is away a request
\* races with the user's return only.  The second user stays.
Pairs ==
  /\ u2 \in users
  /\ \A r, s \in Slots :
       r # s /\ req[r] # None /\ req[s] # None =>
         /\ {req[r], req[s]} \subseteq RacingInputs
         /\ {req[r], req[s]} # {Routes(u1)}
         /\ users = Users

Symmetry == Permutations({s1, s2})
=============================================================================
