-------------------------- MODULE AccountRegistry --------------------------
(***************************************************************************)
(* What the user accounts promise, without requests: a table of rows that  *)
(* changes by one whole operation at a time, gives no username, email or   *)
(* VPN address twice, and never touches an account in use to make another. *)
(***************************************************************************)
CONSTANTS Ids, Row, Users0, None

VARIABLE accounts      \* id -> row, None where there never was one

Live(id) == accounts[id] # None /\ ~accounts[id].deleted

\* Only the row of id changes, to a live row whose username and email no
\* other row has, deleted ones included, and whose address no other user has.
Puts(id) ==
  LET row == accounts'[id] IN
    /\ row \in Row /\ ~row.deleted
    /\ \A o \in Ids \ {id} :
         /\ accounts'[o] = accounts[o]
         /\ accounts[o] # None => accounts[o].name # row.name /\ accounts[o].mail # row.mail
         /\ (Live(o) /\ row.ip # None) => accounts[o].ip # row.ip

Register(id) == accounts[id] = None /\ Puts(id)
Restore(id) == accounts[id] # None /\ ~Live(id) /\ Puts(id)

\* The username of an account in use never changes.
Modify(id) == Live(id) /\ Puts(id) /\ accounts'[id].name = accounts[id].name

Remove(id) == Live(id) /\ accounts' = [accounts EXCEPT ![id].deleted = TRUE]

Init == accounts = Users0
Next == \E id \in Ids : Register(id) \/ Restore(id) \/ Modify(id) \/ Remove(id)

Spec == Init /\ [][Next]_accounts
=============================================================================
