--------------------------- MODULE SessionLedger ---------------------------
(***************************************************************************)
(* What the table of VPN sessions promises its readers, without requests:  *)
(* a session begins once, for one user; it ends once and is never active   *)
(* again; after that only the counters that it ended with may be replaced. *)
(***************************************************************************)
CONSTANTS Sessions, Users, Counts, None

VARIABLE log            \* session -> [user, ended, bytes], None before it begins

Entry == [user: Users, ended: BOOLEAN, bytes: Counts]

Active(s) == log[s] # None /\ ~log[s].ended
Ended(s) == log[s] # None /\ log[s].ended

Begin(s, u) ==
  /\ log[s] = None
  /\ \E n \in Counts : log' = [log EXCEPT ![s] = [user |-> u, ended |-> FALSE, bytes |-> n]]

End(s, n) ==
  /\ Active(s)
  /\ log' = [log EXCEPT ![s] = [user |-> log[s].user, ended |-> TRUE, bytes |-> n]]

Amend(s, n) ==
  /\ Ended(s)
  /\ log' = [log EXCEPT ![s] = [user |-> log[s].user, ended |-> TRUE, bytes |-> n]]

Init == log = [s \in Sessions |-> None]

Next == \E s \in Sessions : \/ \E u \in Users : Begin(s, u)
                            \/ \E n \in Counts : End(s, n) \/ Amend(s, n)

Spec == Init /\ [][Next]_log
=============================================================================
