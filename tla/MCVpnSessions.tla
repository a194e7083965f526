--------------------------- MODULE MCVpnSessions ---------------------------
(***************************************************************************)
(* An instance of VpnSessions: two tunnels, of one user who connects again *)
(* or of two users, with as many keys as there can be sessions.            *)
(***************************************************************************)
EXTENDS VpnSessions, TLC

MCTunnels == [u \in Users |-> 2]
TwoTunnels == \A u, v \in Users : u # v => begun[u] + begun[v] <= 2

\* Others meddle with one session, and give the largest counters; one request
\* at a time counts the sessions, and one user at a time asks to be let in.
OneMeddler ==
  Cardinality({s \in Sessions : given[s] # {}}) <= 1 /\ \A s \in Sessions : 0 \notin given[s]
OneWatcher ==
  Cardinality({r \in Slots : pc[r] # "idle" /\ req[r].op \in {"usage", "dashboard"}}) <= 1
OneAsking == Cardinality({u \in Users : stage[u] = "asking"}) <= 1
Bounds == TwoTunnels /\ OneMeddler /\ OneWatcher /\ OneAsking

\* No property names a user, a request or a session.
Symmetry == Permutations(Users) \cup Permutations(Slots) \cup Permutations(Sessions)
=============================================================================
