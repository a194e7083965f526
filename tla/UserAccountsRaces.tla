------------------------- MODULE UserAccountsRaces -------------------------
(***************************************************************************)
(* The promises of UserAccounts that a race between two requests breaks:   *)
(* one address for one user, and the registry of accounts.  The runs       *)
(* accounts_shared_ip and accounts_overwritten show such races.            *)
(*                                                                         *)
(* A handler checks something of the table, then writes on the strength of *)
(* it.  The conditions below name the steps that come between the two and  *)
(* change what was checked.  For any number of slots, the promises hold in *)
(* every behaviour without such a step: there is no other race.  Requests  *)
(* that are served one at a time have none, whatever they ask for.         *)
(***************************************************************************)
EXTENDS UserAccountsProofs

\* No other request gives a user the address that a request has found free.
AddressSteps == {"exists", "match", "restore", "insert", "fetch", "write"}
AddressesKept ==
  \A r \in Slots :
    (pc'[r] = pc[r] /\ pc[r] \in AddressSteps /\ req[r].ip # None) =>
      \A id \in Ids : (users'[id] # users[id] /\ Live(id)') => users'[id].ip # req[r].ip

\* No other request gives a user the name or the mail that a create has found
\* free, or touches the deleted row that it is about to restore.
NameSteps == {"match", "restore", "insert"}
NamesKept ==
  \A r \in Slots :
    (pc'[r] = pc[r] /\ pc[r] \in NameSteps) =>
      \A id \in Ids : users'[id] # users[id] =>
        /\ pc[r] = "restore" => id # found[r]
        /\ Live(id)' => users'[id].name # req[r].name /\ users'[id].mail # req[r].mail

-----------------------------------------------------------------------------
(***************************************************************************)
(* VPN addresses.  AddressAt is what ValidateIP or GetNextAvailableIP has  *)
(* established and the statement that stores the address needs.            *)
(***************************************************************************)
AddressClear(ip, self) ==
  ip \in {None, Keep} \/ \A id \in Ids \ {self} : Live(id) => users[id].ip # ip

AddressAt(r) ==
  /\ pc[r] \in CreateSteps \ {"reload"} => AddressClear(req[r].ip, None)
  /\ pc[r] \in {"fetch", "write"} => AddressClear(req[r].ip, Target(req[r]))
AddressInv == TypeOK /\ UniqueVpnIp /\ \A r \in Slots : AddressAt(r)

\* What the four statements put in the table.
LEMMA CreatePuts ==
  ASSUME TypeOK, NEW r \in Slots, AddressAt(r), pc[r] \in {"restore", "insert"}
  PROVE  /\ AddressClear(req[r].ip, None) /\ req[r].ip # Keep
         /\ \A a \in BOOLEAN : NewRow(req[r], a) \in Row
<1>1. PlacedAt(r) BY DEF TypeOK, Placed
<1>2. Keep \notin Addrs \cup {None} BY MarkAssumption, NetAssumption DEF Addrs
<1> QED BY <1>1, <1>2, NewRowType DEF PlacedAt, AddressAt, CreateSteps

LEMMA ChangePuts ==
  ASSUME TypeOK, UniqueVpnIp, NEW r \in Slots, AddressAt(r), Changed(r)
  PROVE  LET t == Target(req[r])
             row == Updated(req[r], boss[r], users[t])
         IN /\ t \in Ids /\ users[t] \in Row /\ row \in Row
            /\ row.ip = None \/ \A o \in Ids \ {t} : Live(o) => users[o].ip # row.ip
            /\ row.name = users[t].name /\ ~row.deleted
            /\ row.mail = Or(req[r].mail, users[t].mail)
<1> DEFINE i == req[r]
           t == Target(i)
           row == Updated(i, boss[r], users[t])
<1> USE DEF TypeOK, Typed
<1>1. Live(t) /\ t \in Ids /\ users[t] \in Row
  BY DEF Changed, Live, Stored
<1>2. /\ i \in ChangeInput /\ i.ip \in Addrs \cup {None, Keep}
      /\ boss[r] \in Ids \cup {None} /\ AddressClear(i.ip, t)
  BY DEF Changed, Placed, PlacedAt, AddressAt
<1>3. /\ row \in Row /\ row.name = users[t].name
      /\ row.deleted = users[t].deleted
      /\ row.mail = Or(i.mail, users[t].mail) /\ row.ip = Or(i.ip, users[t].ip)
  BY <1>1, <1>2, UpdatedType
<1>4. CASE i.ip = Keep
  <2>1. row.ip = users[t].ip BY <1>3, <1>4 DEF Or
  <2>2. users[t].ip = None \/ \A o \in Ids \ {t} : Live(o) => users[o].ip # users[t].ip
    BY <1>1 DEF UniqueVpnIp
  <2> QED BY <1>1, <1>3, <2>1, <2>2 DEF Live
<1>5. CASE i.ip # Keep
  <2>1. row.ip = i.ip BY <1>3, <1>5 DEF Or
  <2> QED BY <1>1, <1>2, <1>3, <1>5, <2>1 DEF Live, AddressClear
<1> QED BY <1>4, <1>5

LEMMA PutKeepsAddresses ==
  ASSUME Typed, UniqueVpnIp, NEW id \in Ids, NEW row, Stores(id, row),
         \/ row.deleted \/ row.ip = None
         \/ \A o \in Ids \ {id} : Live(o) => users[o].ip # row.ip
  PROVE  UniqueVpnIp'
<1>1. \A o \in Ids : users'[o] = IF o = id THEN row ELSE users[o]
  BY DEF Stores, Typed
<1>2. \A o \in Ids \ {id} : Live(o)' = Live(o)
  BY <1>1 DEF Live, Stored
<1>3. Live(id)' => ~row.deleted
  BY <1>1 DEF Live
<1> QED BY <1>1, <1>2, <1>3 DEF UniqueVpnIp

LEMMA NewRowIp ==
  ASSUME NEW i, NEW a
  PROVE  /\ NewRow(i, a).ip = i.ip /\ NewRow(i, a).name = i.name
         /\ NewRow(i, a).mail = i.mail /\ NewRow(i, a).deleted = FALSE
BY DEF NewRow

LEMMA AddressesUniqueNext ==
  ASSUME AddressInv, [Next]_vars PROVE UniqueVpnIp'
<1> USE DEF AddressInv, TypeOK
<1>1. CASE users' = users BY <1>1 DEF UniqueVpnIp, Live, Stored
<1>2. CASE users' # users
  <2>1. PICK s \in Slots : TableStep(s) BY <1>2, TableSteps
  <2>2. ASSUME NEW id \in Ids, NEW a \in BOOLEAN, Stores(id, NewRow(req[s], a)),
               pc[s] \in {"restore", "insert"}
        PROVE  UniqueVpnIp'
    <3> DEFINE row == NewRow(req[s], a)
    <3>1. AddressClear(req[s].ip, None) /\ req[s].ip # Keep
      BY <2>2, CreatePuts
    <3>2. row.ip = req[s].ip BY NewRowIp
    <3>3. row.ip = None \/ \A o \in Ids \ {id} : Live(o) => users[o].ip # row.ip
      BY <3>1, <3>2, MarkAssumption DEF AddressClear
    <3>4. Stores(id, row) BY <2>2
    <3> HIDE DEF row
    <3> QED BY <3>3, <3>4, PutKeepsAddresses
  <2>3. CASE Restored(s)
    <3>1. found[s] \in Ids /\ pc[s] = "restore"
      BY <2>3 DEF Restored, Placed, PlacedAt, Stored
    <3> QED BY <2>2, <2>3, <3>1 DEF Restored
  <2>4. ASSUME NEW id \in Ids, Inserted(s, id) PROVE UniqueVpnIp'
    <3>1. Stores(id, NewRow(req[s], TRUE)) /\ pc[s] = "insert"
      BY <2>4 DEF Inserted
    <3> QED BY <2>2, <3>1
  <2>5. CASE Changed(s)
    BY <2>5, ChangePuts, PutKeepsAddresses DEF Changed
  <2>6. CASE Erased(s)
    <3>1. req[s].id \in Ids /\ users[req[s].id] \in Row
      BY <2>6 DEF Erased, Live, Stored, Typed
    <3>2. [users[req[s].id] EXCEPT !.deleted = TRUE].deleted
      BY <3>1 DEF Row
    <3> QED BY <2>6, <3>1, <3>2, PutKeepsAddresses DEF Erased
  <2> QED BY <2>1, <2>3, <2>4, <2>5, <2>6 DEF TableStep
<1> QED BY <1>1, <1>2

\* The step of the request itself.
LEMMA AddressStep ==
  ASSUME TypeOK, NEW s \in Slots, AddressAt(s), Arrive(s) \/ Serve(s)
  PROVE  AddressAt(s)'
<1> USE DEF TypeOK, Typed
<1>1. PlacedAt(s) BY DEF Placed
<1>2. ASSUME pc'[s] \in {"idle", "addr", "load", "reload", "refetch", "erase", "audit", "reply"}
      PROVE  AddressAt(s)'
  BY <1>2 DEF AddressAt, CreateSteps
<1>3. CASE Arrive(s)
  <2>1. PICK i \in Inputs : /\ req' = [req EXCEPT ![s] = AsHandled(i)]
                            /\ \/ Refused(i) /\ Reply(s, 403)
                               \/ ~Refused(i) /\ Goto(s, FirstStep(i))
    BY <1>3 DEF Arrive
  <2>2. CASE pc'[s] = "fetch"
    <3>1. i.op \notin {"create", "update", "delete"}
      BY <2>1, <2>2, Moves DEF FirstStep
    <3>2. i.ip = Keep
      BY <3>1, InputAssumption
      DEF CreateInput, UpdateInput, DeleteInput, ProfileInput, PasswordInput, ResetInput
    <3>3. req'[s] = i BY <2>1, <3>1 DEF AsHandled
    <3> QED BY <2>2, <3>2, <3>3 DEF AddressAt, AddressClear, CreateSteps
  <2> QED BY <1>2, <2>1, <2>2, Moves DEF FirstStep
<1>4. CASE AssignIP(s)
  <2>1. CASE Reply(s, 500) BY <1>2, <2>1, Moves
  <2>2. CASE Goto(s, "exists") /\ UNCHANGED req
    BY <1>4, <2>2, Moves DEF AssignIP, AddressAt, AddressClear
  <2>3. ASSUME NEW ip \in FreeIPs, req' = [req EXCEPT ![s].ip = ip], Goto(s, "exists")
        PROVE  AddressAt(s)'
    <3>1. \A id \in Ids : Live(id) => users[id].ip # ip
      BY <2>3, MarkAssumption, NetAssumption DEF FreeIPs, UsedIPs
    <3>2. req'[s] = [req[s] EXCEPT !.ip = ip] /\ req[s] \in CreateInput
      BY <1>1, <1>4, <2>3, MarkAssumption DEF AssignIP, PlacedAt
    <3>3. req'[s].ip = ip BY <3>2 DEF CreateInput
    <3>4. pc'[s] = "exists" /\ users' = users BY <1>4, <2>3, Moves DEF AssignIP
    <3> QED BY <3>1, <3>3, <3>4 DEF AddressAt, AddressClear, Live, Stored
  <2> QED BY <1>4, <2>1, <2>2, <2>3 DEF AssignIP
<1>5. CASE CheckIP(s)
  <2>1. CASE pc'[s] = "reply" BY <1>2, <2>1
  <2>2. CASE ValidIP(req[s].ip, req[s].id) /\ pc'[s] \in {"exists", "fetch"}
    <3>1. pc'[s] = "exists" => req[s].id = None
      BY <1>1, <1>5, <2>2, Moves DEF CheckIP, PlacedAt, CreateInput, UpdateInput
    <3>2. pc'[s] = "fetch" => Target(req[s]) = req[s].id
      BY <1>1, <1>5, <2>2, Moves DEF CheckIP, PlacedAt, CreateInput, UpdateInput, Target
    <3>3. UNCHANGED <<users, req>> BY <1>5 DEF CheckIP
    <3> QED
      BY <2>2, <3>1, <3>2, <3>3 DEF ValidIP, AddressAt, AddressClear, Live, Stored, CreateSteps
  <2> QED BY <1>5, <2>1, <2>2, Moves DEF CheckIP
<1>6. CASE CheckExisting(s) \/ MatchDeleted(s)
  <2>1. /\ pc[s] \in {"exists", "match"} /\ UNCHANGED <<users, req>>
        /\ pc'[s] \in {"match", "restore", "insert", "reply"}
    BY <1>6, Moves DEF CheckExisting, MatchDeleted
  <2> QED BY <2>1 DEF AddressAt, AddressClear, Live, Stored, CreateSteps
<1>7. CASE Load(s)
  <2>1. /\ UNCHANGED req /\ pc'[s] \in {"reply", "erase", "fetch", "addr"}
        /\ pc'[s] = "fetch" => req[s].ip \in {None, Keep}
    BY <1>7, Moves DEF Load
  <2> QED BY <2>1 DEF AddressAt, AddressClear, CreateSteps
<1>8. CASE Fetch(s)
  <2>1. pc[s] = "fetch" /\ UNCHANGED <<users, req>> /\ pc'[s] \in {"write", "reply"}
    BY <1>8, Moves DEF Fetch
  <2> QED BY <2>1 DEF AddressAt, AddressClear, Live, Stored, CreateSteps
<1>9. CASE Restore(s) \/ Reload(s) \/ Insert(s)
  <2>1. Goto(s, "reload") \/ Goto(s, "audit") \/ Reply(s, 500)
    BY <1>9 DEF Restore, Reload, Insert
  <2> QED BY <1>2, <2>1, Moves
<1>10. CASE Write(s) BY <1>2, <1>10, Moves DEF Write, AfterWrite
<1>11. CASE Refetch(s) \/ Erase(s) \/ Audit(s) \/ DbError(s)
  BY <1>2, <1>11, Moves DEF Refetch, Erase, Audit, DbError
<1>12. CASE Finish(s) BY <1>2, <1>12 DEF Finish
<1> QED BY <1>3, <1>4, <1>5, <1>6, <1>7, <1>8, <1>9, <1>10, <1>11, <1>12 DEF Serve, Work

LEMMA AddressesNext ==
  ASSUME AddressInv, [Next]_vars, [AddressesKept]_vars PROVE AddressInv'
<1> USE DEF AddressInv
<1>1. CASE UNCHANGED vars
  <2>1. \A r \in Slots : AddressAt(r)'
    BY <1>1 DEF vars, AddressAt, AddressClear, Live, Stored
  <2> QED BY <2>1, TypeNext, AddressesUniqueNext
<1>2. ASSUME NEW r \in Slots, Arrive(r) \/ Serve(r), AddressesKept PROVE AddressInv'
  <2>1. ASSUME NEW q \in Slots, q # r PROVE AddressAt(q)'
    <3>1. pc'[q] = pc[q] /\ req'[q] = req[q]
      BY <1>2, <2>1, OtherAnswers, OtherRequests
    <3>2. \A id \in Ids : (users'[id] # users[id] /\ Live(id)' /\ req[q].ip # None
                             /\ pc[q] \in AddressSteps) => users'[id].ip # req[q].ip
      BY <1>2, <3>1 DEF AddressesKept
    <3>3. \A id \in Ids : users'[id] = users[id] => Live(id)' = Live(id)
      BY DEF Live, Stored
    <3> QED BY <3>1, <3>2, <3>3
            DEF AddressAt, AddressClear, AddressSteps, CreateSteps
  <2>2. AddressAt(r)' BY <1>2, AddressStep
  <2> QED BY <2>1, <2>2, TypeNext, AddressesUniqueNext
<1> QED BY <1>1, <1>2 DEF Next

LEMMA AddressesInit == Init => AddressInv
<1>1. Init => UniqueVpnIp
  BY TableAssumption DEF Init, UniqueVpnIp, Live, Stored
<1>2. Init => \A r \in Slots : AddressAt(r)
  BY DEF Init, AddressAt, CreateSteps
<1> QED BY <1>1, <1>2, TypeInit DEF AddressInv

LEMMA AddressesInvariant == Spec /\ [][AddressesKept]_vars => []AddressInv
<1>1. AddressInv /\ [Next]_vars /\ [AddressesKept]_vars => AddressInv'
  BY AddressesNext
<1> QED BY <1>1, AddressesInit, PTL DEF Spec

\* An address is given to two users only by way of a request that gives it
\* away between another's ValidateIP or GetNextAvailableIP and its write.
THEOREM AddressesUnique == Spec /\ [][AddressesKept]_vars => []UniqueVpnIp
<1>1. AddressInv => UniqueVpnIp BY DEF AddressInv
<1> QED BY <1>1, AddressesInvariant, PTL

-----------------------------------------------------------------------------
(***************************************************************************)
(* Usernames, emails and the restored row.  NamesAt is what the two        *)
(* SELECTs of UserService.Create have established when it writes.          *)
(***************************************************************************)
NamesAt(r) ==
  /\ pc[r] \in NameSteps => \A id \in Ids : Live(id) => ~NameOrMailTaken(id, req[r])
  /\ pc[r] = "restore" => NameOrMailTaken(found[r], req[r])
NamesInv == TypeOK /\ \A r \in Slots : NamesAt(r)

LEMMA NamesStep ==
  ASSUME TypeOK, NEW s \in Slots, NamesAt(s), Arrive(s) \/ Serve(s)
  PROVE  NamesAt(s)'
<1> USE DEF TypeOK, Typed
<1>1. ASSUME pc'[s] \notin NameSteps PROVE NamesAt(s)'
  BY <1>1 DEF NamesAt, NameSteps
<1>2. CASE Arrive(s) BY <1>1, <1>2, Moves DEF Arrive, FirstStep, NameSteps
<1>3. CASE AssignIP(s) \/ CheckIP(s)
  BY <1>1, <1>3, Moves DEF AssignIP, CheckIP, NameSteps
<1>4. CASE CheckExisting(s)
  BY <1>1, <1>4, Moves
  DEF CheckExisting, NamesAt, NameSteps, NameOrMailTaken, Live, Stored
<1>5. CASE MatchDeleted(s)
  <2>1. /\ UNCHANGED <<users, req>> /\ pc[s] = "match"
        /\ pc'[s] \in {"insert", "restore", "reply"}
        /\ pc'[s] = "restore" => NameOrMailTaken(found'[s], req[s])
    BY <1>5, Moves DEF MatchDeleted, NameOrMailTaken
  <2> QED BY <2>1 DEF NamesAt, NameSteps, NameOrMailTaken, Live, Stored
<1>6. CASE Restore(s) \/ Reload(s) \/ Insert(s)
  <2>1. Goto(s, "reload") \/ Goto(s, "audit") \/ Reply(s, 500)
    BY <1>6 DEF Restore, Reload, Insert
  <2> QED BY <1>1, <2>1, Moves DEF NameSteps
<1>7. CASE Load(s) BY <1>1, <1>7, Moves DEF Load, NameSteps
<1>8. CASE Fetch(s)
  <2>1. pc'[s] \in {"write", "reply"} BY <1>8, Moves DEF Fetch
  <2> QED BY <1>1, <2>1 DEF NameSteps
<1>9. CASE Write(s) BY <1>1, <1>9, Moves DEF Write, AfterWrite, NameSteps
<1>10. CASE Refetch(s) \/ Erase(s) \/ Audit(s) \/ DbError(s)
  BY <1>1, <1>10, Moves DEF Refetch, Erase, Audit, DbError, NameSteps
<1>11. CASE Finish(s) BY <1>1, <1>11 DEF Finish, NameSteps
<1> QED BY <1>2, <1>3, <1>4, <1>5, <1>6, <1>7, <1>8, <1>9, <1>10, <1>11 DEF Serve, Work

LEMMA NamesNext ==
  ASSUME NamesInv, [Next]_vars, [NamesKept]_vars PROVE NamesInv'
<1> USE DEF NamesInv
<1>1. CASE UNCHANGED vars
  <2>1. \A r \in Slots : NamesAt(r)'
    BY <1>1 DEF vars, NamesAt, NameOrMailTaken, Live, Stored
  <2> QED BY <2>1, TypeNext
<1>2. ASSUME NEW r \in Slots, Arrive(r) \/ Serve(r), NamesKept PROVE NamesInv'
  <2>1. ASSUME NEW q \in Slots, q # r PROVE NamesAt(q)'
    <3>1. pc'[q] = pc[q] /\ req'[q] = req[q] /\ found'[q] = found[q]
      BY <1>2, <2>1, OtherAnswers, OtherRequests
    <3>2. ASSUME pc[q] \in NameSteps, NEW id \in Ids, Live(id)'
          PROVE  ~NameOrMailTaken(id, req[q])'
      <4>1. CASE users'[id] = users[id]
        BY <3>1, <3>2, <4>1 DEF NamesAt, NameOrMailTaken, Live, Stored
      <4>2. CASE users'[id] # users[id]
        BY <1>2, <3>1, <3>2, <4>2 DEF NamesKept, NameOrMailTaken
      <4> QED BY <4>1, <4>2
    <3>3. ASSUME pc[q] = "restore" PROVE NameOrMailTaken(found[q], req[q])'
      <4>1. found[q] \in Ids BY <3>3 DEF TypeOK, Placed, PlacedAt, Stored
      <4>2. users'[found[q]] = users[found[q]]
        BY <1>2, <3>1, <3>3, <4>1 DEF NamesKept, NameSteps
      <4> QED BY <3>1, <3>3, <4>2 DEF NamesAt, NameOrMailTaken
    <3> QED BY <3>1, <3>2, <3>3 DEF NamesAt
  <2>2. NamesAt(r)' BY <1>2, NamesStep
  <2> QED BY <2>1, <2>2, TypeNext
<1> QED BY <1>1, <1>2 DEF Next

LEMMA NamesInvariant == Spec /\ [][NamesKept]_vars => []NamesInv
<1>1. NamesInv /\ [Next]_vars /\ [NamesKept]_vars => NamesInv'
  BY NamesNext
<1>2. Init => NamesInv BY TypeInit DEF Init, NamesInv, NamesAt, NameSteps
<1> QED BY <1>1, <1>2, PTL DEF Spec

\* The row that a create is about to restore is a deleted one.
LEMMA FoundIsDeleted ==
  ASSUME NamesInv, NEW r \in Slots, pc[r] = "restore"
  PROVE  ~Live(found[r])
BY DEF NamesInv, NamesAt, NameSteps, Live, Stored

\* A create rewrites an account in use only by way of a request that takes
\* the name or the mail, or revives the row, between its SELECTs and its UPDATE.
THEOREM InUseNotOverwritten == Spec /\ [][NamesKept]_vars => LiveNotOverwritten
<1>1. NamesInv => \A r \in Slots :
        (pc[r] = "restore" /\ pc'[r] = "reload") => ~Live(found[r])
  BY FoundIsDeleted
<1> QED BY <1>1, NamesInvariant, PTL DEF LiveNotOverwritten

-----------------------------------------------------------------------------
(***************************************************************************)
(* The registry of accounts: without those two races every change of the   *)
(* table is one of its operations.                                         *)
(***************************************************************************)
LEMMA RegistryStep ==
  ASSUME AddressInv, NamesInv, NamesAndMailsUnique, [Next]_vars
  PROVE  [Registry!Next]_users
<1> USE DEF AddressInv, TypeOK
<1> SUFFICES ASSUME users' # users PROVE Registry!Next
  OBVIOUS
<1>1. PICK s \in Slots : TableStep(s) BY TableSteps
<1>2. users \in [Ids -> Row \cup {None}] BY DEF Typed
<1>3. \A id \in Ids : Live(id) <=> Registry!Live(id)
  BY DEF Live, Stored, Registry!Live
<1>4. ASSUME NEW id \in Ids, NEW row \in Row, Stores(id, row), ~row.deleted,
             Unique(id, row.name, row.mail),
             row.ip = None \/ \A o \in Ids \ {id} : Live(o) => users[o].ip # row.ip
      PROVE  Registry!Puts(id) /\ users'[id] = row
  <2>1. users'[id] = row /\ \A o \in Ids \ {id} : users'[o] = users[o]
    BY <1>2, <1>4 DEF Stores
  <2> QED BY <1>3, <1>4, <2>1 DEF Registry!Puts, Unique, Stored
<1>5. ASSUME NEW id \in Ids, NEW a \in BOOLEAN, Stores(id, NewRow(req[s], a)),
             pc[s] \in {"restore", "insert"}, Unique(id, req[s].name, req[s].mail)
      PROVE  Registry!Puts(id)
  <2> DEFINE row == NewRow(req[s], a)
  <2>1. row \in Row /\ AddressClear(req[s].ip, None) /\ req[s].ip # Keep
    BY <1>5, CreatePuts
  <2>2. Unique(id, row.name, row.mail) /\ ~row.deleted
    BY <1>5, NewRowIp
  <2>3. row.ip = None \/ \A o \in Ids \ {id} : Live(o) => users[o].ip # row.ip
    BY <2>1, NewRowIp, MarkAssumption DEF AddressClear
  <2>4. Stores(id, row) BY <1>5
  <2> HIDE DEF row
  <2> QED BY <1>4, <2>1, <2>2, <2>3, <2>4
<1>6. CASE Restored(s)
  <2>1. /\ found[s] \in Ids /\ users[found[s]] # None /\ ~Live(found[s])
        /\ pc[s] = "restore"
    BY <1>6, FoundIsDeleted DEF Restored, Stored
  <2>2. Registry!Puts(found[s]) BY <1>5, <1>6, <2>1 DEF Restored
  <2> QED BY <1>3, <2>1, <2>2 DEF Registry!Next, Registry!Restore
<1>7. ASSUME NEW id \in Ids, Inserted(s, id) PROVE Registry!Next
  <2>1. users[id] = None /\ pc[s] = "insert" BY <1>7 DEF Inserted, Stored
  <2>2. Unique(id, req[s].name, req[s].mail)
    BY <1>7, MarkAssumption DEF Inserted, Unique, Stored
  <2>3. Registry!Puts(id) BY <1>5, <1>7, <2>1, <2>2 DEF Inserted
  <2> QED BY <2>1, <2>3 DEF Registry!Next, Registry!Register
<1>8. CASE Changed(s)
  <2> DEFINE t == Target(req[s])
             row == Updated(req[s], boss[s], users[t])
  <2>1. /\ t \in Ids /\ Live(t) /\ users[t] \in Row /\ row \in Row
        /\ row.ip = None \/ \A o \in Ids \ {t} : Live(o) => users[o].ip # row.ip
        /\ row.name = users[t].name /\ ~row.deleted
        /\ row.mail = Or(req[s].mail, users[t].mail)
    BY <1>8, ChangePuts DEF Changed
  <2>2. Unique(t, row.name, row.mail) /\ Stores(t, row)
    BY <1>8, <2>1 DEF Changed
  <2> HIDE DEF row, t
  <2>3. Registry!Puts(t) /\ users'[t] = row BY <1>4, <2>1, <2>2
  <2> QED BY <1>3, <2>1, <2>3 DEF Registry!Next, Registry!Modify
<1>9. CASE Erased(s)
  <2>1. req[s].id \in Ids /\ Live(req[s].id)
    BY <1>9 DEF Erased, Live, Stored
  <2>2. users' = [users EXCEPT ![req[s].id].deleted = TRUE]
    BY <1>2, <1>9 DEF Erased, Stores
  <2> QED BY <1>3, <2>1, <2>2 DEF Registry!Next, Registry!Remove
<1> QED BY <1>1, <1>6, <1>7, <1>8, <1>9 DEF TableStep

\* Without a race for an address, a name, a mail or a deleted row, the requests
\* change the table as the registry of accounts allows.
THEOREM ImplementsRegistryUnraced ==
  Spec /\ [][AddressesKept /\ NamesKept]_vars => ImplementsRegistry
<1>1. Init => Registry!Init BY DEF Init, Registry!Init
<1>2. AddressInv /\ NamesInv /\ NamesAndMailsUnique /\ [Next]_vars => [Registry!Next]_users
  BY RegistryStep
<1>3. [AddressesKept /\ NamesKept]_vars => [AddressesKept]_vars /\ [NamesKept]_vars
  OBVIOUS
<1> QED BY <1>1, <1>2, <1>3, AddressesInvariant, NamesInvariant, RowsUnique, PTL
        DEF Spec, ImplementsRegistry, Registry!Spec

-----------------------------------------------------------------------------
(***************************************************************************)
(* One request at a time: no step is another's, so the conditions hold.    *)
(***************************************************************************)
LEMMA SerialUnraced ==
  ASSUME NEW CONSTANT s, Slots = {s}
  PROVE  Spec => [][AddressesKept /\ NamesKept]_vars
<1>1. TypeOK /\ [Next]_vars => [AddressesKept /\ NamesKept]_vars
  <2> SUFFICES ASSUME TypeOK, Next PROVE AddressesKept /\ NamesKept
    OBVIOUS
  <2>1. Ahead(pc[s]) \in 0 .. 8 BY AheadNatural DEF TypeOK, Typed
  <2>2. Arrive(s) \/ Serve(s) BY DEF Next
  <2>3. /\ pc[s] = "idle" => pc'[s] \in {"addr", "load", "fetch", "reply"}
        /\ pc[s] # "idle" => Ahead(pc'[s]) < Ahead(pc[s])
    BY <2>2, AheadDecreases
  <2>4. pc'[s] # pc[s] BY <2>1, <2>3
  <2> QED BY <2>4 DEF AddressesKept, NamesKept
<1> QED BY <1>1, TypeCorrect, PTL DEF Spec

\* While requests are served one at a time, no VPN address is ever given to
\* two users, by ValidateIP or by GetNextAvailableIP.
THEOREM SerialAddressesUnique ==
  ASSUME NEW CONSTANT s, Slots = {s} PROVE Spec => []UniqueVpnIp
<1>1. [AddressesKept /\ NamesKept]_vars => [AddressesKept]_vars
  OBVIOUS
<1> QED BY <1>1, SerialUnraced, AddressesUnique, PTL

\* While requests are served one at a time, every change of the table is an
\* operation of the registry of accounts: no account in use is rewritten, and
\* no username, email or address is given twice.
THEOREM SerialImplementsRegistry ==
  ASSUME NEW CONSTANT s, Slots = {s} PROVE Spec => ImplementsRegistry
BY SerialUnraced, ImplementsRegistryUnraced, PTL
=============================================================================
