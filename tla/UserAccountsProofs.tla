------------------------- MODULE UserAccountsProofs -------------------------
(***************************************************************************)
(* Proofs about UserAccounts, for every table, every set of requests and   *)
(* every number of slots, unless a theorem says otherwise.                 *)
(***************************************************************************)
EXTENDS UserAccounts, TLAPS

-----------------------------------------------------------------------------
(***************************************************************************)
(* Type correctness.  Typed alone is not inductive: that a step stores a   *)
(* row of the right type depends on which kind of request has come to it   *)
(* and on what has been checked before.  Placed says that.                 *)
(***************************************************************************)
\* What the fields of a request may hold, by its operation.
LEMMA CreateFields ==
  ASSUME NEW i \in CreateInput
  PROVE  /\ i.op = "create" /\ i.by \in Ids /\ i.role \in Roles /\ i.id = None
         /\ i.name \in Names /\ i.mail \in Mails /\ i.pwd \in Pwds
         /\ i.rank \in Roles /\ i.manager \in Ids \cup {None}
         /\ i.active \in BOOLEAN \cup {Keep} /\ i.ip \in Nat \cup {None}
         /\ [i EXCEPT !.manager = i.by] \in CreateInput
         /\ \A ip \in Nat : [i EXCEPT !.ip = ip] \in CreateInput
BY DEF CreateInput

LEMMA ChangeFields ==
  ASSUME NEW i \in ChangeInput
  PROVE  /\ i.op \in {"update", "profile", "password", "reset"}
         /\ i.by \in Ids /\ i.role \in Roles /\ Target(i) \in Ids
         /\ i.mail \in Mails \cup {Keep}
         /\ i.op \in {"password", "reset"} => i.pwd \in Pwds
         /\ i.rank \in Roles \cup {Keep} /\ i.manager \in Ids \cup {Keep}
         /\ i.active \in BOOLEAN \cup {Keep}
         /\ i.ip \in Nat \cup {None, Keep}
         /\ i.op # "update" => i.ip = Keep /\ i.rank = Keep
BY DEF ChangeInput, UpdateInput, ProfileInput, PasswordInput, ResetInput, Target

\* The rows that Create and Updates store are rows.
LEMMA NewRowType ==
  ASSUME NEW i \in CreateInput, i.ip \in Addrs \cup {None}, NEW a \in BOOLEAN
  PROVE  NewRow(i, a) \in Row
BY CreateFields DEF NewRow, Row

LEMMA UpdatedType ==
  ASSUME NEW i \in ChangeInput, i.ip \in Addrs \cup {None, Keep},
         NEW b \in Ids \cup {None}, NEW row \in Row
  PROVE  /\ Updated(i, b, row) \in Row
         /\ Updated(i, b, row).name = row.name
         /\ Updated(i, b, row).deleted = row.deleted
         /\ Updated(i, b, row).mail = Or(i.mail, row.mail)
         /\ Updated(i, b, row).role = Or(i.rank, row.role)
         /\ Updated(i, b, row).ip = Or(i.ip, row.ip)
<1>1. /\ Or(i.mail, row.mail) \in Mails /\ Or(i.rank, row.role) \in Roles
      /\ SavedManager(i, b, row.manager) \in Ids \cup {None}
      /\ Or(i.active, row.active) \in BOOLEAN
      /\ Or(i.ip, row.ip) \in Addrs \cup {None}
  BY ChangeFields DEF Or, SavedManager, Row
<1>2. (IF i.op \in {"password", "reset"} THEN i.pwd ELSE row.pwd) \in Pwds
  BY ChangeFields DEF Row
<1>3. Updated(i, b, row) \in Row
  BY <1>1, <1>2 DEF Updated, Row
<1> QED BY <1>3 DEF Updated, Row

\* The state a slot's step leaves the other slots in: as they were, with no
\* row gone from the table.
LEMMA OthersPlaced ==
  ASSUME Placed, NEW r \in Slots, NEW q \in Slots, q # r,
         pc'[q] = pc[q], req'[q] = req[q], found'[q] = found[q],
         \A id \in Ids : id \in Stored => id \in Stored'
  PROVE  PlacedAt(q)'
BY DEF Placed, PlacedAt, Stored

LEMMA TypeInit == Init => TypeOK
BY TableAssumption DEF Init, TypeOK, Typed, Placed, PlacedAt, Steps, Codes, CreateSteps

LEMMA ArriveType == ASSUME TypeOK, NEW r \in Slots, Arrive(r) PROVE TypeOK'
<1>1. PICK i \in Inputs : /\ req' = [req EXCEPT ![r] = AsHandled(i)]
                          /\ \/ Refused(i) /\ Reply(r, 403)
                             \/ ~Refused(i) /\ Goto(r, FirstStep(i))
  BY DEF Arrive
<1>2. /\ i \in AccountInput /\ AsHandled(i) \in AccountInput
      /\ AsHandled(i) # None
      /\ i \in CreateInput => AsHandled(i) \in CreateInput
      /\ i \notin CreateInput => AsHandled(i) = i
  <2>1. CASE i \in CreateInput
    BY <2>1, CreateFields, MarkAssumption DEF AsHandled, AccountInput
  <2>2. CASE i \notin CreateInput
    <3>1. i.op # "create"
      BY <2>2, InputAssumption
      DEF UpdateInput, ProfileInput, PasswordInput, ResetInput, DeleteInput
    <3> QED BY <2>2, <3>1, InputAssumption, MarkAssumption DEF AsHandled, AccountInput
  <2> QED BY <2>1, <2>2
<1>3. FirstStep(i) \in {"addr", "load", "fetch"}
      /\ (FirstStep(i) = "addr" => i \in CreateInput)
      /\ (FirstStep(i) = "load" => i \in UpdateInput \cup DeleteInput)
      /\ (FirstStep(i) = "fetch" =>
            i \in ProfileInput \cup PasswordInput \cup ResetInput /\ i.ip = Keep)
      /\ (FirstStep(i) # "addr" => i \notin CreateInput)
  BY InputAssumption
  DEF FirstStep, CreateInput, UpdateInput, ProfileInput, PasswordInput,
      ResetInput, DeleteInput
<1>4. Typed'
  BY <1>1, <1>2, <1>3 DEF TypeOK, Typed, Arrive, Reply, Goto, Steps, Codes
<1>5. PlacedAt(r)'
  <2>1. req'[r] = AsHandled(i) BY <1>1 DEF TypeOK, Typed
  <2>2. CASE Refused(i) /\ Reply(r, 403)
    BY <1>2, <2>1, <2>2 DEF Reply, TypeOK, Typed, PlacedAt, CreateSteps
  <2>3. CASE Goto(r, FirstStep(i))
    <3>1. pc'[r] = FirstStep(i) BY <2>3 DEF Goto, TypeOK, Typed
    <3> QED BY <1>2, <1>3, <2>1, <3>1 DEF PlacedAt, CreateSteps, ChangeInput
  <2> QED BY <1>1, <2>2, <2>3
<1>6. \A q \in Slots \ {r} : PlacedAt(q)'
  BY <1>1, OthersPlaced DEF TypeOK, Typed, Arrive, Reply, Goto, Stored
<1> QED BY <1>4, <1>5, <1>6 DEF TypeOK, Placed

LEMMA AddressType ==
  ASSUME TypeOK, NEW r \in Slots, AssignIP(r) \/ CheckIP(r) PROVE TypeOK'
<1>1. pc[r] = "addr" /\ PlacedAt(r)
  BY DEF AssignIP, CheckIP, TypeOK, Placed
<1>2. /\ pc'[r] \in {"exists", "fetch", "reply"}
      /\ \/ req' = req
         \/ \E ip \in FreeIPs : req' = [req EXCEPT ![r].ip = ip]
      /\ pc' = [pc EXCEPT ![r] = pc'[r]]
      /\ code' \in [Slots -> Codes]
      /\ UNCHANGED <<users, found, boss, wrote, logged>>
  BY DEF AssignIP, CheckIP, Goto, Reply, TypeOK, Typed, Codes
<1>3. FreeIPs \subseteq Addrs /\ Addrs \subseteq Nat
  <2>1. ASSUME NEW a \in 1 .. NetSize - 2
        PROVE  a \in Nat /\ AddressOf(a) = a /\ a < NetSize
    BY NetAssumption, SpellingAssumption
  <2>2. ASSUME NEW a \in FreeIPs PROVE a \in Addrs
    BY <2>1, <2>2 DEF FreeIPs, Addrs
  <2> QED BY <2>2 DEF Addrs
<1>4. AssignIP(r) => req[r] \in CreateInput
  BY <1>1, MarkAssumption DEF AssignIP, PlacedAt
<1>5. req'[r] \in AccountInput /\ req' = [req EXCEPT ![r] = req'[r]]
      /\ (pc'[r] = "exists" => req'[r] \in CreateInput /\ req'[r].ip \in Addrs \cup {None})
      /\ (pc'[r] = "fetch" => req'[r] \in UpdateInput /\ req'[r].ip \in Addrs)
  <2>1. CASE AssignIP(r)
    <3>1. req'[r] = req[r] \/ \E ip \in FreeIPs : req'[r] = [req[r] EXCEPT !.ip = ip]
      BY <1>2 DEF TypeOK, Typed
    <3>2. req'[r] \in CreateInput /\ req'[r].ip \in Addrs \cup {None}
      <4>1. CASE req'[r] = req[r]
        BY <4>1, <1>4, <2>1 DEF AssignIP
      <4>2. CASE \E ip \in FreeIPs : req'[r] = [req[r] EXCEPT !.ip = ip]
        <5>1. PICK ip \in Addrs : req'[r] = [req[r] EXCEPT !.ip = ip]
          BY <4>2, <1>3
        <5>2. [req[r] EXCEPT !.ip = ip] \in CreateInput
          BY <1>3, <1>4, <2>1, CreateFields
        <5>3. [req[r] EXCEPT !.ip = ip].ip = ip
          BY <1>4, <2>1 DEF CreateInput
        <5> QED BY <5>1, <5>2, <5>3
      <4> QED BY <3>1, <4>1, <4>2
    <3>4. pc'[r] # "fetch"
      BY <2>1, <1>1 DEF AssignIP, Goto, Reply, TypeOK, Typed
    <3> QED BY <1>2, <2>1, <3>2, <3>4 DEF AccountInput, TypeOK, Typed
  <2>2. CASE CheckIP(r)
    <3>1. req' = req /\ (pc'[r] # "reply" => req[r].ip \in Addrs)
      BY <2>2 DEF CheckIP, ValidIP, Reply, TypeOK, Typed
    <3>2. req[r] \in CreateInput \cup UpdateInput
      BY <1>1 DEF PlacedAt
    <3>3. req[r].op = "create" => req[r] \in CreateInput
      BY <3>2 DEF UpdateInput
    <3>4. req[r].op # "create" => req[r] \in UpdateInput
      BY <3>2 DEF CreateInput
    <3>5. /\ pc'[r] = "exists" => req[r].op = "create"
          /\ pc'[r] = "fetch" => req[r].op # "create"
      BY <2>2, <1>1 DEF CheckIP, Goto, Reply, TypeOK, Typed
    <3> QED BY <3>1, <3>2, <3>3, <3>4, <3>5 DEF AccountInput, TypeOK, Typed
  <2> QED BY <2>1, <2>2
<1>6. Typed'
  BY <1>2, <1>5 DEF TypeOK, Typed, Steps
<1>7. PlacedAt(r)'
  BY <1>2, <1>5, MarkAssumption DEF PlacedAt, CreateSteps, ChangeInput, AccountInput
<1>8. \A q \in Slots \ {r} : PlacedAt(q)'
  BY <1>2, <1>5, OthersPlaced DEF TypeOK, Typed, Stored
<1> QED BY <1>6, <1>7, <1>8 DEF TypeOK, Placed

LEMMA MatchType ==
  ASSUME TypeOK, NEW r \in Slots,
         CheckExisting(r) \/ MatchDeleted(r) \/ Reload(r)
  PROVE  TypeOK'
<1>1. /\ pc[r] \in CreateSteps /\ PlacedAt(r)
      /\ UNCHANGED <<users, req, boss, wrote, logged>>
  BY DEF CheckExisting, MatchDeleted, Reload, TypeOK, Placed, CreateSteps
<1>2. /\ pc' = [pc EXCEPT ![r] = pc'[r]]
      /\ pc'[r] \in {"match", "insert", "restore", "audit", "reply"}
      /\ code' \in [Slots -> Codes]
  BY DEF CheckExisting, MatchDeleted, Reload, Goto, Reply, TypeOK, Typed, Codes
<1>3. /\ found' = [found EXCEPT ![r] = found'[r]]
      /\ found'[r] \in Ids \cup {None}
      /\ pc'[r] = "restore" => found'[r] \in Stored
  BY DEF CheckExisting, MatchDeleted, Reload, Goto, Reply, TypeOK, Typed, Stored
<1>4. Typed'
  BY <1>1, <1>2, <1>3 DEF TypeOK, Typed, Steps
<1>5. PlacedAt(r)'
  BY <1>1, <1>2, <1>3, MarkAssumption
  DEF PlacedAt, CreateSteps, AccountInput, Stored, TypeOK, Typed
<1>6. \A q \in Slots \ {r} : PlacedAt(q)'
  BY <1>1, <1>2, <1>3, OthersPlaced DEF TypeOK, Typed, Stored
<1> QED BY <1>4, <1>5, <1>6 DEF TypeOK, Placed

\* What a step does to the table: nothing, or one row put in a place.
Stores(id, row) == users' = [users EXCEPT ![id] = row]

LEMMA StoreType ==
  ASSUME TypeOK, NEW r \in Slots, NEW id \in Ids, NEW row \in Row,
         Stores(id, row),
         pc' = [pc EXCEPT ![r] = pc'[r]],
         pc'[r] \in {"reload", "audit", "refetch"},
         pc'[r] = "reload" => pc[r] = "restore",
         pc'[r] = "refetch" => pc[r] = "write",
         pc[r] \in {"restore", "insert", "write", "erase"},
         wrote' = [wrote EXCEPT ![r] = TRUE],
         UNCHANGED <<req, found, boss, code, logged>>
  PROVE  TypeOK'
<1>1. PlacedAt(r) BY DEF TypeOK, Placed
<1>2. /\ users' \in [Ids -> Row \cup {None}]
      /\ \A o \in Ids : o \in Stored => o \in Stored'
  BY MarkAssumption DEF Stores, TypeOK, Typed, Stored
<1>3. Typed'
  BY <1>2 DEF TypeOK, Typed, Steps
<1>4. PlacedAt(r)'
  BY <1>1 DEF PlacedAt, CreateSteps, TypeOK, Typed
<1>5. \A q \in Slots \ {r} : PlacedAt(q)'
  BY <1>2, OthersPlaced DEF TypeOK, Typed
<1> QED BY <1>3, <1>4, <1>5 DEF TypeOK, Placed

\* A step that leaves table and request alone and does not lead into a step
\* that wants more than the one before keeps the type invariant.
LEMMA ControlType ==
  ASSUME TypeOK, NEW r \in Slots,
         pc' = [pc EXCEPT ![r] = pc'[r]],
         \/ pc'[r] \in {"reply", "audit"} /\ pc[r] # "idle"
         \/ pc'[r] = "refetch" /\ pc[r] = "write"
         \/ pc'[r] = "write" /\ pc[r] = "fetch",
         code' \in [Slots -> Codes], boss' \in [Slots -> Ids \cup {None}],
         wrote' \in [Slots -> BOOLEAN], logged' \in [Slots -> BOOLEAN],
         pc'[r] = "audit" => pc[r] # "reply",
         UNCHANGED <<users, req, found>>
  PROVE  TypeOK'
<1>1. PlacedAt(r) BY DEF TypeOK, Placed
<1>2. Typed'
  <2>1. pc'[r] \in Steps BY DEF Steps
  <2>2. pc' \in [Slots -> Steps] BY <2>1 DEF TypeOK, Typed
  <2> QED BY <2>2 DEF TypeOK, Typed
<1>3. PlacedAt(r)'
  <2>1. /\ pc'[r] \in {"reply", "audit", "refetch", "write"} /\ pc[r] # "idle"
        /\ pc'[r] = "refetch" => pc[r] = "write"
        /\ pc'[r] = "write" => pc[r] = "fetch"
    OBVIOUS
  <2> QED BY <1>1, <2>1 DEF PlacedAt, CreateSteps, TypeOK, Typed
<1>4. \A q \in Slots \ {r} : PlacedAt(q)'
  BY OthersPlaced DEF TypeOK, Typed, Stored
<1> QED BY <1>2, <1>3, <1>4 DEF TypeOK, Placed

LEMMA StoringType ==
  ASSUME TypeOK, NEW r \in Slots, Restore(r) \/ Insert(r) PROVE TypeOK'
<1>1. PlacedAt(r) /\ pc[r] \in {"restore", "insert"}
  BY DEF TypeOK, Placed, Restore, Insert
<1>2. req[r] \in CreateInput /\ req[r].ip \in Addrs \cup {None}
  BY <1>1 DEF PlacedAt, CreateSteps
<1>3. CASE Reply(r, 500) /\ UNCHANGED <<users, wrote, req, found, boss, logged>>
  <2>1. /\ pc' = [pc EXCEPT ![r] = pc'[r]] /\ pc'[r] = "reply"
        /\ code' \in [Slots -> Codes]
    BY <1>3 DEF Reply, TypeOK, Typed, Codes
  <2>2. /\ boss' \in [Slots -> Ids \cup {None}]
        /\ wrote' \in [Slots -> BOOLEAN] /\ logged' \in [Slots -> BOOLEAN]
        /\ UNCHANGED <<users, req, found>>
    BY <1>3 DEF TypeOK, Typed
  <2> QED BY <1>1, <2>1, <2>2, ControlType
<1>4. ASSUME NEW id \in Ids, NEW a \in BOOLEAN, Stores(id, NewRow(req[r], a)),
             NEW step \in {"reload", "audit"}, Goto(r, step),
             step = "reload" => pc[r] = "restore",
             wrote' = [wrote EXCEPT ![r] = TRUE],
             UNCHANGED <<req, found, boss, logged>>
      PROVE  TypeOK'
  <2>1. NewRow(req[r], a) \in Row BY <1>2, NewRowType
  <2>2. pc'[r] = step /\ pc' = [pc EXCEPT ![r] = pc'[r]]
    BY <1>4 DEF Goto, TypeOK, Typed
  <2> QED BY <1>1, <1>4, <2>1, <2>2, StoreType DEF Goto
<1>5. CASE Restore(r)
  <2>1. found[r] \in Ids BY <1>1, <1>5 DEF PlacedAt, Restore, Stored
  <2>2. Or(req[r].active, TRUE) \in BOOLEAN BY <1>2, CreateFields DEF Or
  <2> QED BY <1>3, <1>4, <1>5, <2>1, <2>2 DEF Restore, Stores
<1>6. CASE Insert(r)
  <2>1. CASE Reply(r, 500) /\ UNCHANGED <<users, wrote>>
    BY <1>3, <1>6, <2>1 DEF Insert
  <2>2. CASE /\ \E id \in Ids \ Stored : users' = [users EXCEPT ![id] = NewRow(req[r], TRUE)]
             /\ wrote' = [wrote EXCEPT ![r] = TRUE]
             /\ Goto(r, "audit")
    <3>1. PICK id \in Ids : Stores(id, NewRow(req[r], TRUE))
      BY <2>2 DEF Stores
    <3>2. UNCHANGED <<req, found, boss, logged>>
      BY <1>6 DEF Insert
    <3> QED BY <1>4, <2>2, <3>1, <3>2
  <2> QED BY <1>6, <2>1, <2>2 DEF Insert
<1> QED BY <1>5, <1>6

LEMMA LoadType == ASSUME TypeOK, NEW r \in Slots, Load(r) PROVE TypeOK'
<1>1. PlacedAt(r) /\ pc[r] = "load" /\ req[r] \in UpdateInput \cup DeleteInput
  BY DEF TypeOK, Placed, PlacedAt, Load
<1>2. /\ pc' = [pc EXCEPT ![r] = pc'[r]]
      /\ pc'[r] \in {"reply", "erase", "fetch", "addr"}
      /\ code' \in [Slots -> Codes]
      /\ UNCHANGED <<users, req, found, boss, wrote, logged>>
  BY DEF Load, Goto, Reply, TypeOK, Typed, Codes
<1>3. /\ pc'[r] = "erase" => req[r].op = "delete"
      /\ pc'[r] = "fetch" => req[r].op = "update" /\ req[r].ip \in {None, Keep}
      /\ pc'[r] = "addr" => req[r].op = "update" /\ req[r].ip \notin {None, Keep}
  BY <1>1 DEF Load, Goto, Reply, TypeOK, Typed
<1>4. /\ req[r].op = "update" => req[r] \in UpdateInput /\ req[r].ip \in Nat \cup {None, Keep}
      /\ req[r].op = "delete" => req[r] \in DeleteInput
  BY <1>1 DEF UpdateInput, DeleteInput
<1>5. Typed'
  BY <1>2 DEF TypeOK, Typed, Steps
<1>6. PlacedAt(r)'
  BY <1>1, <1>2, <1>3, <1>4 DEF PlacedAt, CreateSteps, ChangeInput
<1>7. \A q \in Slots \ {r} : PlacedAt(q)'
  BY <1>2, OthersPlaced DEF TypeOK, Typed, Stored
<1> QED BY <1>5, <1>6, <1>7 DEF TypeOK, Placed

LEMMA ReadType ==
  ASSUME TypeOK, NEW r \in Slots,
         Fetch(r) \/ Refetch(r) \/ Audit(r) \/ DbError(r)
  PROVE  TypeOK'
<1>1. /\ pc' = [pc EXCEPT ![r] = pc'[r]]
      /\ \/ pc'[r] \in {"reply", "audit"} /\ pc[r] # "idle"
         \/ pc'[r] = "write" /\ pc[r] = "fetch"
      /\ pc'[r] = "audit" => pc[r] # "reply"
      /\ UNCHANGED <<users, req, found>>
  BY DEF Fetch, Refetch, Audit, DbError, Goto, Reply, TypeOK, Typed
<1>2. code' \in [Slots -> Codes]
  <2>1. \A i, step : Done(i) \in Codes /\ FailCode(i, step) \in Codes
    BY DEF Done, FailCode, Codes
  <2> QED
    BY <2>1 DEF Fetch, Refetch, Audit, DbError, Goto, Reply, TypeOK, Typed, Codes
<1>3. boss' \in [Slots -> Ids \cup {None}]
  <2>1. CASE Fetch(r)
    <3>1. Preloaded(users[Target(req[r])]) \in Ids \cup {None}
      BY DEF Preloaded, Live, Stored
    <3> QED BY <2>1, <3>1 DEF Fetch, TypeOK, Typed
  <2> QED BY <2>1 DEF Refetch, Audit, DbError, TypeOK, Typed
<1>4. wrote' \in [Slots -> BOOLEAN] /\ logged' \in [Slots -> BOOLEAN]
  BY DEF Fetch, Refetch, Audit, DbError, TypeOK, Typed
<1> QED BY <1>1, <1>2, <1>3, <1>4, ControlType

LEMMA WriteType == ASSUME TypeOK, NEW r \in Slots, Write(r) PROVE TypeOK'
<1> DEFINE i == req[r]
           t == Target(i)
<1>1. /\ pc[r] = "write" /\ i \in ChangeInput /\ i.ip \in Addrs \cup {None, Keep}
      /\ UNCHANGED <<req, found, boss, logged>>
  BY DEF TypeOK, Placed, PlacedAt, Write
<1>2. AfterWrite(i) \in {"refetch", "audit"} BY DEF AfterWrite
<1>3. CASE UNCHANGED <<users, wrote>>
  <2>1. /\ pc' = [pc EXCEPT ![r] = pc'[r]]
        /\ pc'[r] \in {"reply", "audit", "refetch"}
        /\ code' \in [Slots -> Codes]
    BY <1>2 DEF Write, Goto, Reply, TypeOK, Typed, Codes
  <2>2. /\ boss' \in [Slots -> Ids \cup {None}]
        /\ wrote' \in [Slots -> BOOLEAN] /\ logged' \in [Slots -> BOOLEAN]
    BY <1>1, <1>3 DEF TypeOK, Typed
  <2> QED BY <1>1, <1>3, <2>1, <2>2, ControlType
<1>4. CASE /\ WhereLive(t)
           /\ users' = [users EXCEPT ![t] = Updated(i, boss[r], @)]
           /\ wrote' = [wrote EXCEPT ![r] = TRUE]
           /\ Goto(r, AfterWrite(i))
  <2>1. t \in Ids /\ users[t] \in Row /\ boss[r] \in Ids \cup {None}
    BY <1>1, <1>4, ChangeFields DEF WhereLive, Live, Stored, TypeOK, Typed
  <2>2. Updated(i, boss[r], users[t]) \in Row /\ Stores(t, Updated(i, boss[r], users[t]))
    BY <1>1, <1>4, <2>1, UpdatedType DEF Stores
  <2>3. /\ pc' = [pc EXCEPT ![r] = pc'[r]]
        /\ pc'[r] \in {"refetch", "audit"} /\ UNCHANGED code
    BY <1>2, <1>4 DEF Goto, TypeOK, Typed
  <2> QED BY <1>1, <1>4, <2>1, <2>2, <2>3, StoreType
<1> QED BY <1>3, <1>4 DEF Write

LEMMA EraseType == ASSUME TypeOK, NEW r \in Slots, Erase(r) PROVE TypeOK'
<1> DEFINE t == req[r].id
<1>1. /\ pc[r] = "erase" /\ UNCHANGED <<req, found, boss, logged, code>>
      /\ pc' = [pc EXCEPT ![r] = pc'[r]] /\ pc'[r] = "audit"
  BY DEF Erase, Goto, TypeOK, Typed
<1>2. CASE UNCHANGED <<users, wrote>>
  BY <1>1, <1>2, ControlType DEF TypeOK, Typed
<1>3. CASE /\ WhereLive(t)
           /\ users' = [users EXCEPT ![t].deleted = TRUE]
           /\ wrote' = [wrote EXCEPT ![r] = TRUE]
  <2>1. t \in Ids /\ users[t] \in Row
    BY <1>3 DEF WhereLive, Live, Stored, TypeOK, Typed
  <2>2. /\ [users[t] EXCEPT !.deleted = TRUE] \in Row
        /\ Stores(t, [users[t] EXCEPT !.deleted = TRUE])
    BY <1>3, <2>1 DEF Row, Stores
  <2> QED BY <1>1, <1>3, <2>1, <2>2, StoreType
<1> QED BY <1>2, <1>3 DEF Erase

LEMMA FinishType == ASSUME TypeOK, NEW r \in Slots, Finish(r) PROVE TypeOK'
<1>1. Typed'
  BY DEF Finish, TypeOK, Typed, Steps, Codes
<1>2. PlacedAt(r)'
  BY DEF Finish, TypeOK, Typed, PlacedAt, CreateSteps
<1>3. \A q \in Slots \ {r} : PlacedAt(q)'
  BY OthersPlaced DEF Finish, TypeOK, Typed, Stored
<1> QED BY <1>1, <1>2, <1>3 DEF TypeOK, Placed

LEMMA TypeNext == TypeOK /\ [Next]_vars => TypeOK'
<1> SUFFICES ASSUME TypeOK, [Next]_vars PROVE TypeOK'
  OBVIOUS
<1>1. CASE UNCHANGED vars
  BY <1>1 DEF vars, TypeOK, Typed, Placed, PlacedAt, Stored
<1>2. ASSUME NEW r \in Slots, Arrive(r) \/ Serve(r) PROVE TypeOK'
  <2>1. CASE Arrive(r) BY <2>1, ArriveType
  <2>2. CASE AssignIP(r) \/ CheckIP(r) BY <2>2, AddressType
  <2>3. CASE CheckExisting(r) \/ MatchDeleted(r) \/ Reload(r) BY <2>3, MatchType
  <2>4. CASE Restore(r) \/ Insert(r) BY <2>4, StoringType
  <2>5. CASE Load(r) BY <2>5, LoadType
  <2>6. CASE Fetch(r) \/ Refetch(r) \/ Audit(r) \/ DbError(r) BY <2>6, ReadType
  <2>7. CASE Write(r) BY <2>7, WriteType
  <2>8. CASE Erase(r) BY <2>8, EraseType
  <2>9. CASE Finish(r) BY <2>9, FinishType
  <2> QED BY <1>2, <2>1, <2>2, <2>3, <2>4, <2>5, <2>6, <2>7, <2>8, <2>9 DEF Serve, Work
<1> QED BY <1>1, <1>2 DEF Next

\* Every variable keeps its type whatever is requested, however it interleaves
\* and whatever fails, and a request only comes to the steps of its kind; in
\* particular a row that is stored has every column.
THEOREM TypeCorrect == Spec => []TypeOK
BY TypeInit, TypeNext, PTL DEF Spec

-----------------------------------------------------------------------------
(***************************************************************************)
(* The four statements that change the table, and what each stores.        *)
(***************************************************************************)
Restored(r) ==
  /\ pc[r] = "restore" /\ pc'[r] = "reload"
  /\ found[r] \in Stored
  /\ Unique(found[r], req[r].name, req[r].mail)
  /\ \E a \in BOOLEAN : Stores(found[r], NewRow(req[r], a))

Inserted(r, id) ==
  /\ pc[r] = "insert" /\ pc'[r] = "audit"
  /\ id \in Ids \ Stored
  /\ Unique(None, req[r].name, req[r].mail)
  /\ Stores(id, NewRow(req[r], TRUE))

Changed(r) ==
  LET i == req[r]
      t == Target(req[r])
  IN /\ pc[r] = "write" /\ pc'[r] \in {"refetch", "audit"}
     /\ Live(t)
     /\ Unique(t, users[t].name, Or(i.mail, users[t].mail))
     /\ Stores(t, Updated(i, boss[r], users[t]))

Erased(r) ==
  /\ pc[r] = "erase" /\ pc'[r] = "audit"
  /\ Live(req[r].id)
  /\ Stores(req[r].id, [users[req[r].id] EXCEPT !.deleted = TRUE])

TableStep(r) ==
  \/ Restored(r) \/ (\E id \in Ids : Inserted(r, id)) \/ Changed(r) \/ Erased(r)

LEMMA TableSteps ==
  ASSUME TypeOK, [Next]_vars, users' # users
  PROVE  \E r \in Slots : TableStep(r)
<1>1. PICK r \in Slots : Arrive(r) \/ Serve(r)
  BY DEF Next, vars
<1>2. Restore(r) \/ Insert(r) \/ Write(r) \/ Erase(r)
  BY <1>1
  DEF Serve, Work, Arrive, AssignIP, CheckIP, CheckExisting, MatchDeleted, Reload,
      Load, Fetch, Refetch, Audit, DbError, Finish
<1>3. PlacedAt(r) /\ pc \in [Slots -> Steps] /\ users \in [Ids -> Row \cup {None}]
  BY DEF TypeOK, Typed, Placed
<1>4. CASE Restore(r)
  <2>1. Or(req[r].active, TRUE) \in BOOLEAN
    BY <1>3, <1>4, CreateFields DEF Or, PlacedAt, CreateSteps, Restore
  <2>2. pc'[r] = "reload" BY <1>3, <1>4 DEF Restore, Goto
  <2> QED BY <1>3, <1>4, <2>1, <2>2 DEF Restore, Restored, TableStep, PlacedAt, Stores
<1>5. CASE Insert(r)
  <2>1. pc'[r] = "audit" BY <1>3, <1>5 DEF Insert, Goto
  <2>2. PICK id \in Ids \ Stored : users' = [users EXCEPT ![id] = NewRow(req[r], TRUE)]
    BY <1>5 DEF Insert
  <2>3. Inserted(r, id) BY <1>5, <2>1, <2>2 DEF Insert, Inserted, Stores
  <2> QED BY <2>2, <2>3 DEF TableStep
<1>6. CASE Write(r)
  <2> DEFINE t == Target(req[r])
  <2>1. /\ WhereLive(t)
        /\ Unique(t, users[t].name, Or(req[r].mail, users[t].mail))
        /\ users' = [users EXCEPT ![t] = Updated(req[r], boss[r], @)]
        /\ Goto(r, AfterWrite(req[r]))
    BY <1>6 DEF Write
  <2>2. pc'[r] \in {"refetch", "audit"}
    BY <1>3, <2>1 DEF Goto, AfterWrite
  <2>3. Changed(r) BY <1>6, <2>1, <2>2 DEF Changed, Write, WhereLive, Stores
  <2> QED BY <2>3 DEF TableStep
<1>7. CASE Erase(r)
  <2>1. WhereLive(req[r].id) /\ users' = [users EXCEPT ![req[r].id].deleted = TRUE]
    BY <1>7 DEF Erase
  <2>2. pc'[r] = "audit" BY <1>3, <1>7 DEF Erase, Goto
  <2>3. Erased(r) BY <1>7, <2>1, <2>2 DEF Erase, Erased, WhereLive, Stores
  <2> QED BY <2>3 DEF TableStep
<1> QED BY <1>2, <1>4, <1>5, <1>6, <1>7

-----------------------------------------------------------------------------
(***************************************************************************)
(* Unique usernames and emails.                                            *)
(***************************************************************************)
LEMMA PutKeepsUnique ==
  ASSUME Typed, NamesAndMailsUnique, NEW id \in Ids, NEW row,
         Stores(id, row), Unique(id, row.name, row.mail)
  PROVE  NamesAndMailsUnique'
<1>1. \A o \in Ids : users'[o] = IF o = id THEN row ELSE users[o]
  BY DEF Stores, Typed
<1> QED BY <1>1 DEF NamesAndMailsUnique, Unique, Stored

LEMMA UniqueNext ==
  TypeOK /\ NamesAndMailsUnique /\ [Next]_vars => NamesAndMailsUnique'
<1> SUFFICES ASSUME TypeOK, NamesAndMailsUnique, [Next]_vars
             PROVE  NamesAndMailsUnique'
  OBVIOUS
<1> USE DEF TypeOK
<1>1. CASE users' = users
  BY <1>1 DEF NamesAndMailsUnique, Stored
<1>2. ASSUME NEW r \in Slots, TableStep(r) PROVE NamesAndMailsUnique'
  <2>1. CASE Restored(r)
    <3>1. PICK a \in BOOLEAN : Stores(found[r], NewRow(req[r], a))
      BY <2>1 DEF Restored
    <3>2. NewRow(req[r], a).name = req[r].name /\ NewRow(req[r], a).mail = req[r].mail
      BY DEF NewRow
    <3> QED BY <2>1, <3>1, <3>2, PutKeepsUnique DEF Restored, Stored
  <2>2. ASSUME NEW id \in Ids, Inserted(r, id) PROVE NamesAndMailsUnique'
    <3>1. /\ NewRow(req[r], TRUE).name = req[r].name
          /\ NewRow(req[r], TRUE).mail = req[r].mail
      BY DEF NewRow
    <3>2. Unique(id, req[r].name, req[r].mail)
      BY <2>2, MarkAssumption DEF Inserted, Unique, Stored
    <3> QED BY <2>2, <3>1, <3>2, PutKeepsUnique DEF Inserted
  <2>3. CASE Changed(r)
    <3> DEFINE i == req[r]
               t == Target(i)
    <3>1. t \in Ids /\ users[t] \in Row
      BY <2>3 DEF Changed, Live, Stored, Typed
    <3>2. /\ i \in ChangeInput /\ i.ip \in Addrs \cup {None, Keep}
          /\ boss[r] \in Ids \cup {None}
      BY <2>3 DEF Changed, Placed, PlacedAt, Typed
    <3>3. /\ Updated(i, boss[r], users[t]).name = users[t].name
          /\ Updated(i, boss[r], users[t]).mail = Or(i.mail, users[t].mail)
      BY <3>1, <3>2, UpdatedType
    <3> QED BY <2>3, <3>1, <3>3, PutKeepsUnique DEF Changed
  <2>4. CASE Erased(r)
    <3> DEFINE row == users[req[r].id]
    <3>1. req[r].id \in Ids /\ row \in Row
      BY <2>4 DEF Erased, Live, Stored, Typed
    <3>2. /\ [row EXCEPT !.deleted = TRUE].name = row.name
          /\ [row EXCEPT !.deleted = TRUE].mail = row.mail
      BY <3>1 DEF Row
    <3>3. Unique(req[r].id, row.name, row.mail)
      BY <2>4 DEF NamesAndMailsUnique, Unique, Erased, Live
    <3> QED BY <2>4, <3>1, <3>2, <3>3, PutKeepsUnique DEF Erased
  <2> QED BY <1>2, <2>1, <2>2, <2>3, <2>4 DEF TableStep
<1> QED BY <1>1, <1>2, TableSteps

\* The unique indexes hold however many requests restore, insert and change
\* emails at the same time, over live and deleted rows alike.
THEOREM RowsUnique == Spec => []NamesAndMailsUnique
<1>1. Init => NamesAndMailsUnique
  BY TableAssumption DEF Init, NamesAndMailsUnique, Stored
<1> QED BY <1>1, UniqueNext, TypeCorrect, PTL DEF Spec

\* A deleted account changes only by the restore of a create that matched it,
\* whatever else was under way when it was deleted.
THEOREM DeletedStaysDeleted == Spec => OnlyRestoreRevives
<1>1. ASSUME TypeOK, [Next]_vars, NEW id \in Ids,
             id \in Stored /\ ~Live(id) /\ users'[id] # users[id]
      PROVE  \E r \in Slots : pc[r] = "restore" /\ found[r] = id /\ pc'[r] = "reload"
  <2>1. PICK r \in Slots : TableStep(r) BY <1>1, TableSteps
  <2>2. \A o, row : Stores(o, row) => o = id
    BY <1>1 DEF Stores, TypeOK, Typed
  <2>3. ~Changed(r) /\ ~Erased(r)
    BY <1>1, <2>2 DEF Changed, Erased
  <2>4. \A o \in Ids : ~Inserted(r, o)
    BY <1>1, <2>2 DEF Inserted
  <2>5. Restored(r) BY <2>1, <2>3, <2>4 DEF TableStep
  <2> QED BY <2>2, <2>5 DEF Restored
<1>2. TypeOK /\ [Next]_vars =>
        [\A id \in Ids :
           (id \in Stored /\ ~Live(id) /\ users'[id] # users[id]) =>
             \E r \in Slots : pc[r] = "restore" /\ found[r] = id /\ pc'[r] = "reload"]_vars
  BY <1>1
<1> QED BY <1>2, TypeCorrect, PTL DEF Spec, OnlyRestoreRevives

-----------------------------------------------------------------------------
(***************************************************************************)
(* Only administrators make administrators.  The checks on the role are    *)
(* made when the request arrives or when the row is first read, the row is *)
(* written steps later: what the checks established must last till then.   *)
(***************************************************************************)
RankSteps == {"addr", "fetch", "write", "exists", "match", "restore", "insert"}
RankAt(r) == (pc[r] \in RankSteps /\ req[r].rank = "ADMIN") => req[r].role = "ADMIN"
RankInv == \A r \in Slots : RankAt(r)

LEMMA RankKept ==
  ASSUME NEW r \in Slots, TypeOK, RankAt(r),
         pc'[r] \in RankSteps => pc[r] \in RankSteps,
         req' = req \/ \E ip \in Nat : req' = [req EXCEPT ![r].ip = ip]
  PROVE  RankAt(r)'
<1> SUFFICES ASSUME pc'[r] \in RankSteps
             PROVE  req'[r].rank = req[r].rank /\ req'[r].role = req[r].role
  BY DEF RankAt
<1>1. req[r] \in AccountInput
  BY MarkAssumption DEF TypeOK, Typed, Placed, PlacedAt, RankSteps
<1>2. CASE req' = req BY <1>2
<1>3. ASSUME NEW ip \in Nat, req' = [req EXCEPT ![r].ip = ip]
      PROVE  req'[r].rank = req[r].rank /\ req'[r].role = req[r].role
  <2>1. req'[r] = [req[r] EXCEPT !.ip = ip] BY <1>3 DEF TypeOK, Typed
  <2> QED
    BY <1>1, <2>1
    DEF AccountInput, CreateInput, UpdateInput, ProfileInput, PasswordInput,
        ResetInput, DeleteInput
<1> QED BY <1>2, <1>3

LEMMA RankNext == TypeOK /\ RankInv /\ [Next]_vars => RankInv'
<1> SUFFICES ASSUME TypeOK, RankInv, [Next]_vars, NEW q \in Slots PROVE RankAt(q)'
  BY DEF RankInv
<1> USE DEF TypeOK
<1>1. CASE UNCHANGED <<pc[q], req[q]>> BY <1>1 DEF RankInv, RankAt
<1>2. CASE Arrive(q)
  <2>1. PICK i \in Inputs : /\ req' = [req EXCEPT ![q] = AsHandled(i)]
                            /\ \/ Refused(i) /\ Reply(q, 403)
                               \/ ~Refused(i) /\ Goto(q, FirstStep(i))
    BY <1>2 DEF Arrive
  <2>2. req'[q] = AsHandled(i) BY <2>1 DEF Typed
  <2>3. CASE Reply(q, 403)
    BY <2>3 DEF Reply, Typed, RankAt, RankSteps
  <2>4. CASE ~Refused(i) /\ Goto(q, FirstStep(i))
    <3>1. pc'[q] = FirstStep(i) BY <2>4 DEF Goto, Typed
    <3>2. CASE i \in CreateInput
      BY <2>2, <2>4, <3>2, CreateFields
      DEF RankAt, Refused, AsHandled, Roles, CreateInput
    <3>3. CASE i \in UpdateInput \cup DeleteInput
      BY <3>1, <3>3 DEF RankAt, RankSteps, FirstStep, UpdateInput, DeleteInput
    <3>4. CASE i \in ProfileInput \cup PasswordInput \cup ResetInput
      <4>1. i.rank = Keep /\ AsHandled(i) = i
        BY <3>4 DEF ProfileInput, PasswordInput, ResetInput, AsHandled
      <4> QED BY <2>2, <4>1, MarkAssumption DEF RankAt, Roles
    <3> QED BY <3>2, <3>3, <3>4, InputAssumption
  <2> QED BY <2>1, <2>3, <2>4
<1>3. CASE Load(q)
  <2>1. req' = req /\ req[q] \in UpdateInput \cup DeleteInput
    BY <1>3 DEF Load, Placed, PlacedAt
  <2>2. CASE pc'[q] \in RankSteps
    <3>1. req[q].op = "update" /\ ~Forbidden(req[q], users[req[q].id])
      BY <1>3, <2>2 DEF Load, Goto, Reply, Typed, RankSteps
    <3>2. req[q].role \in Roles
      BY <2>1 DEF UpdateInput, DeleteInput
    <3> QED BY <2>1, <3>1, <3>2 DEF RankAt, Forbidden, Roles
  <2> QED BY <2>2 DEF RankAt
<1>4. CASE Serve(q) /\ ~Load(q)
  <2>1. pc'[q] \in RankSteps => pc[q] \in RankSteps
    <3>1. CASE AssignIP(q) \/ CheckIP(q) \/ CheckExisting(q) \/ MatchDeleted(q)
               \/ Restore(q) \/ Insert(q) \/ Fetch(q)
      BY <3>1
      DEF AssignIP, CheckIP, CheckExisting, MatchDeleted, Restore, Insert, Fetch,
          RankSteps
    <3>2. CASE Reload(q) \/ Refetch(q) \/ Erase(q) \/ Audit(q) \/ DbError(q) \/ Finish(q)
      BY <3>2
      DEF Reload, Refetch, Erase, Audit, DbError, Finish, Goto, Reply, Typed, RankSteps
    <3>3. CASE Write(q)
      BY <3>3 DEF Write, RankSteps
    <3> QED BY <1>4, <3>1, <3>2, <3>3 DEF Serve, Work
  <2>2. CASE Finish(q)
    BY <2>2 DEF Finish, Typed, RankAt, RankSteps
  <2>3. CASE ~Finish(q)
    <3>1. req' = req \/ \E ip \in FreeIPs : req' = [req EXCEPT ![q].ip = ip]
      <4>1. CASE AssignIP(q) BY <4>1 DEF AssignIP
      <4>2. CASE CheckIP(q) \/ CheckExisting(q) \/ MatchDeleted(q) \/ Restore(q) \/ Reload(q)
        BY <4>2 DEF CheckIP, CheckExisting, MatchDeleted, Restore, Reload
      <4>3. CASE Insert(q) \/ Fetch(q) \/ Write(q) \/ Refetch(q)
        BY <4>3 DEF Insert, Fetch, Write, Refetch
      <4>4. CASE Erase(q) \/ Audit(q) \/ DbError(q)
        BY <4>4 DEF Erase, Audit, DbError
      <4> QED BY <1>4, <2>3, <4>1, <4>2, <4>3, <4>4 DEF Serve, Work
    <3>2. FreeIPs \subseteq Nat BY NetAssumption DEF FreeIPs
    <3> QED BY <2>1, <3>1, <3>2, RankKept DEF RankInv
  <2> QED BY <2>2, <2>3
<1>5. ASSUME NEW r \in Slots, r # q, Arrive(r) \/ Serve(r)
      PROVE  UNCHANGED <<pc[q], req[q]>>
  <2>1. \A step : Goto(r, step) => pc'[q] = pc[q] BY <1>5 DEF Goto, Typed
  <2>2. \A c : Reply(r, c) => pc'[q] = pc[q] BY <1>5 DEF Reply, Typed
  <2>3. CASE Arrive(r) BY <1>5, <2>1, <2>2, <2>3 DEF Arrive, Typed
  <2>9. CASE AssignIP(r) BY <1>5, <2>1, <2>2, <2>9 DEF AssignIP, Typed
  <2>4. CASE CheckIP(r) \/ CheckExisting(r) \/ MatchDeleted(r)
    BY <2>1, <2>2, <2>4 DEF CheckIP, CheckExisting, MatchDeleted
  <2>5. CASE Restore(r) \/ Reload(r) \/ Insert(r)
    BY <2>1, <2>2, <2>5 DEF Restore, Reload, Insert
  <2>6. CASE Load(r) \/ Fetch(r) \/ Write(r)
    BY <2>1, <2>2, <2>6 DEF Load, Fetch, Write
  <2>7. CASE Refetch(r) \/ Erase(r) \/ Audit(r) \/ DbError(r)
    BY <2>1, <2>2, <2>7 DEF Refetch, Erase, Audit, DbError
  <2>8. CASE Finish(r) BY <1>5, <2>8 DEF Finish, Typed
  <2> QED BY <1>5, <2>3, <2>4, <2>5, <2>6, <2>7, <2>8, <2>9 DEF Serve, Work
<1> QED BY <1>1, <1>2, <1>3, <1>4, <1>5 DEF Next, vars

\* An account becomes a live administrator only by a request of one.
THEOREM AdminsByAdmins == Spec => AdminOnlyByAdmin
<1>1. ASSUME TypeOK, RankInv, [Next]_vars, NEW id \in Ids,
             ~IsAdmin(users, id), IsAdmin(users', id)
      PROVE  \E r \in Slots : pc'[r] # pc[r] /\ req[r] # None /\ req[r].role = "ADMIN"
  <2>1. PICK r \in Slots : TableStep(r) BY <1>1, TableSteps
  <2> DEFINE i == req[r]
             t == Target(i)
  <2>2. PlacedAt(r) /\ RankAt(r) BY <1>1 DEF TypeOK, Placed, RankInv
  <2>3. users \in [Ids -> Row \cup {None}] BY <1>1 DEF TypeOK, Typed
  <2>4. CASE Restored(r) \/ \E o \in Ids : Inserted(r, o)
    <3>1. \E o \in Ids, a \in BOOLEAN : Stores(o, NewRow(i, a))
      BY <2>4 DEF Restored, Inserted, Stored
    <3>2. i.rank = "ADMIN" BY <1>1, <2>3, <3>1 DEF Stores, NewRow, IsAdmin
    <3> QED BY <2>2, <2>4, <3>2 DEF Restored, Inserted, RankAt, RankSteps, PlacedAt
  <2>5. CASE Changed(r)
    <3>1. Stores(t, Updated(i, boss[r], users[t])) /\ pc[r] = "write" /\ Live(t)
      BY <2>5 DEF Changed
    <3>2. /\ Updated(i, boss[r], users[t]).role = Or(i.rank, users[t].role)
          /\ users[t].role = "ADMIN" => IsAdmin(users, t)
      <4>1. /\ i \in ChangeInput /\ i.ip \in Addrs \cup {None, Keep}
            /\ boss[r] \in Ids \cup {None}
        BY <1>1, <2>2, <3>1 DEF PlacedAt, TypeOK, Typed
      <4>2. users[t] \in Row /\ (users[t].role = "ADMIN" => IsAdmin(users, t))
        BY <2>3, <3>1 DEF Live, Stored, IsAdmin
      <4> QED BY <4>1, <4>2, UpdatedType
    <3>3. id = t BY <1>1, <2>3, <3>1 DEF Stores, IsAdmin
    <3>4. i.rank = "ADMIN"
      BY <1>1, <2>3, <3>1, <3>2, <3>3 DEF Stores, IsAdmin, Or
    <3> QED BY <2>2, <2>5, <3>4 DEF Changed, RankAt, RankSteps, PlacedAt
  <2>6. ~Erased(r)
    <3>1. ASSUME Erased(r) PROVE FALSE
      <4>1. Live(i.id) /\ Stores(i.id, [users[i.id] EXCEPT !.deleted = TRUE])
        BY <3>1 DEF Erased
      <4>2. [users[i.id] EXCEPT !.deleted = TRUE].deleted
        BY <2>3, <4>1 DEF Live, Stored, Row
      <4> QED BY <1>1, <2>3, <4>1, <4>2 DEF Stores, IsAdmin
    <3> QED BY <3>1
  <2> QED BY <2>1, <2>4, <2>5, <2>6 DEF TableStep
<1>2. TypeOK /\ RankInv /\ [Next]_vars =>
        [\A id \in Ids :
           (~IsAdmin(users, id) /\ IsAdmin(users', id)) =>
             \E r \in Slots : pc'[r] # pc[r] /\ req[r] # None /\ req[r].role = "ADMIN"]_vars
  BY <1>1
<1>3. Init => RankInv BY DEF Init, RankInv, RankAt, RankSteps
<1>4. Spec => []RankInv BY <1>3, RankNext, TypeCorrect, PTL DEF Spec
<1> QED BY <1>2, <1>4, TypeCorrect, PTL DEF Spec, AdminOnlyByAdmin

-----------------------------------------------------------------------------
(***************************************************************************)
(* What the answers say.  For any number of slots: a request that is       *)
(* refused has changed nothing, since the only statements that follow a    *)
(* change fail with 500.                                                   *)
(***************************************************************************)
QuietAt(r) ==
  /\ pc[r] # "reply" => code[r] = 0
  /\ pc[r] \notin {"reload", "refetch", "audit", "reply"} => ~wrote[r]
  /\ code[r] \in 400 .. 499 => ~wrote[r]
Quiet == \A r \in Slots : QuietAt(r)

LEMMA QuietStep ==
  ASSUME TypeOK, Quiet, NEW r \in Slots, Arrive(r) \/ Serve(r)
  PROVE  QuietAt(r)'
<1> USE DEF TypeOK, Typed
<1>1. QuietAt(r) /\ PlacedAt(r) BY DEF Quiet, Placed
<1>2. /\ \A step : Goto(r, step) => pc'[r] = step /\ code'[r] = code[r]
      /\ \A c : Reply(r, c) => pc'[r] = "reply" /\ code'[r] = c
  <2>1. \A step : Goto(r, step) => pc'[r] = step /\ code'[r] = code[r]
    BY DEF Goto
  <2>2. \A c : Reply(r, c) => pc'[r] = "reply" /\ code'[r] = c
    BY DEF Reply
  <2> QED BY <2>1, <2>2
<1>3. ASSUME pc[r] \notin {"reload", "refetch", "audit", "reply"}, wrote' = wrote,
             (\E step : Goto(r, step)) \/ (\E c : Reply(r, c))
      PROVE  QuietAt(r)'
  <2>1. ~wrote'[r] /\ code[r] = 0 BY <1>1, <1>3 DEF QuietAt
  <2>2. pc'[r] # "reply" => code'[r] = 0 BY <1>2, <1>3, <2>1
  <2> QED BY <2>1, <2>2 DEF QuietAt
<1>4. ASSUME pc[r] # "reply", NEW step \in {"reload", "refetch", "audit"}, Goto(r, step)
      PROVE  QuietAt(r)'
  <2>1. code'[r] = 0 /\ pc'[r] \in {"reload", "refetch", "audit"}
    BY <1>1, <1>2, <1>4 DEF QuietAt
  <2> QED BY <2>1 DEF QuietAt
<1>5. ASSUME NEW c \in {200, 201, 500}, Reply(r, c) PROVE QuietAt(r)'
  <2>1. code'[r] = c /\ pc'[r] = "reply" BY <1>2, <1>5
  <2> QED BY <2>1 DEF QuietAt
<1>6. CASE Arrive(r) BY <1>3, <1>6 DEF Arrive
<1>7. CASE AssignIP(r) \/ CheckIP(r) BY <1>3, <1>7 DEF AssignIP, CheckIP
<1>8. CASE CheckExisting(r) \/ MatchDeleted(r)
  BY <1>3, <1>8 DEF CheckExisting, MatchDeleted
<1>9. CASE Load(r) \/ Fetch(r)
  <2>1. pc[r] \in {"load", "fetch"} /\ wrote' = wrote
    BY <1>9 DEF Load, Fetch
  <2>2. (\E step : Goto(r, step)) \/ (\E c : Reply(r, c))
    BY <1>9 DEF Load, Fetch
  <2> QED BY <1>3, <2>1, <2>2
<1>10. CASE Restore(r) \/ Insert(r)
  <2>1. pc[r] # "reply" BY <1>10 DEF Restore, Insert
  <2>2. Goto(r, "reload") \/ Goto(r, "audit") \/ Reply(r, 500)
    BY <1>10 DEF Restore, Insert
  <2> QED BY <1>4, <1>5, <2>1, <2>2
<1>11. CASE Write(r) BY <1>4, <1>5, <1>11 DEF Write, AfterWrite
<1>12. CASE Erase(r) BY <1>4, <1>12 DEF Erase
<1>13. CASE Reload(r) \/ Refetch(r) BY <1>4, <1>5, <1>13 DEF Reload, Refetch
<1>14. CASE Audit(r) BY <1>5, <1>14 DEF Audit, Done
<1>15. CASE DbError(r)
  <2>1. CASE pc[r] \in {"reload", "refetch", "audit"}
    <3>1. FailCode(req[r], pc[r]) \in {200, 201, 500} BY <2>1 DEF FailCode, Done
    <3> QED BY <1>5, <1>15, <3>1 DEF DbError
  <2>2. CASE pc[r] \notin {"reload", "refetch", "audit"}
    BY <1>3, <1>15, <2>2 DEF DbError
  <2> QED BY <2>1, <2>2
<1>16. CASE Finish(r) BY <1>16 DEF Finish, QuietAt
<1> QED BY <1>6, <1>7, <1>8, <1>9, <1>10, <1>11, <1>12, <1>13, <1>14, <1>15, <1>16
        DEF Serve, Work

\* A step of one slot leaves the answers of the others alone.
LEMMA OtherAnswers ==
  ASSUME TypeOK, NEW r \in Slots, NEW q \in Slots, q # r, Arrive(r) \/ Serve(r)
  PROVE  /\ pc'[q] = pc[q] /\ code'[q] = code[q]
         /\ wrote'[q] = wrote[q]
<1> USE DEF TypeOK, Typed
<1>1. ASSUME (\E step : Goto(r, step)) \/ (\E c : Reply(r, c)),
             wrote' = wrote \/ wrote' = [wrote EXCEPT ![r] = TRUE]
      PROVE  pc'[q] = pc[q] /\ code'[q] = code[q] /\ wrote'[q] = wrote[q]
  BY <1>1 DEF Goto, Reply
<1>2. CASE Arrive(r) \/ AssignIP(r) \/ CheckIP(r) \/ CheckExisting(r) \/ MatchDeleted(r)
  BY <1>1, <1>2 DEF Arrive, AssignIP, CheckIP, CheckExisting, MatchDeleted
<1>3. CASE Restore(r) \/ Insert(r)
  <2>1. Goto(r, "reload") \/ Goto(r, "audit") \/ Reply(r, 500)
    BY <1>3 DEF Restore, Insert
  <2>2. wrote' = wrote \/ wrote' = [wrote EXCEPT ![r] = TRUE]
    BY <1>3 DEF Restore, Insert
  <2> QED BY <1>1, <2>1, <2>2
<1>4. CASE Reload(r) \/ Refetch(r) BY <1>1, <1>4 DEF Reload, Refetch
<1>5. CASE Load(r) \/ Fetch(r) BY <1>1, <1>5 DEF Load, Fetch
<1>6. CASE Write(r) \/ Erase(r) BY <1>1, <1>6 DEF Write, Erase
<1>7. CASE Audit(r) \/ DbError(r) BY <1>1, <1>7 DEF Audit, DbError
<1>8. CASE Finish(r) BY <1>8 DEF Finish
<1> QED BY <1>2, <1>3, <1>4, <1>5, <1>6, <1>7, <1>8 DEF Serve, Work

\* A step of one slot leaves the requests of the others alone.
LEMMA OtherRequests ==
  ASSUME TypeOK, NEW r \in Slots, NEW q \in Slots, q # r, Arrive(r) \/ Serve(r)
  PROVE  req'[q] = req[q] /\ found'[q] = found[q] /\ logged'[q] = logged[q]
<1> USE DEF TypeOK, Typed
<1>1. CASE Arrive(r) \/ CheckIP(r) \/ CheckExisting(r) \/ Restore(r) \/ Reload(r) \/ Insert(r)
  BY <1>1 DEF Arrive, CheckIP, CheckExisting, Restore, Reload, Insert
<1>2. CASE Load(r) \/ Fetch(r) \/ Refetch(r) \/ Audit(r) \/ DbError(r)
  BY <1>2 DEF Load, Fetch, Refetch, Audit, DbError
<1>3. CASE Write(r) \/ Erase(r) BY <1>3 DEF Write, Erase
<1>4. CASE AssignIP(r) BY <1>4 DEF AssignIP
<1>5. CASE MatchDeleted(r) BY <1>5 DEF MatchDeleted
<1>6. CASE Finish(r) BY <1>6 DEF Finish
<1> QED BY <1>1, <1>2, <1>3, <1>4, <1>5, <1>6 DEF Serve, Work

\* A request answered with a refusal (4xx) has changed no row, for any number
\* of requests and whatever statements fail.
THEOREM RefusalsWriteNothing == Spec => []RefusalWritesNothing
<1>1. Init => Quiet BY DEF Init, Quiet, QuietAt
<1>2. TypeOK /\ Quiet /\ [Next]_vars => Quiet'
  <2> SUFFICES ASSUME TypeOK, Quiet, [Next]_vars PROVE Quiet'
    OBVIOUS
  <2>1. CASE UNCHANGED vars BY <2>1 DEF vars, Quiet, QuietAt
  <2>2. ASSUME NEW r \in Slots, Arrive(r) \/ Serve(r) PROVE Quiet'
    <3>1. \A q \in Slots \ {r} : QuietAt(q)'
      BY <2>2, OtherAnswers DEF Quiet, QuietAt
    <3> QED BY <2>2, <3>1, QuietStep DEF Quiet
  <2> QED BY <2>1, <2>2 DEF Next
<1>3. Quiet => RefusalWritesNothing BY DEF Quiet, QuietAt, RefusalWritesNothing
<1> QED BY <1>1, <1>2, <1>3, TypeCorrect, PTL DEF Spec

-----------------------------------------------------------------------------
(***************************************************************************)
(* Where the requests go.  A request never comes back to a statement that  *)
(* it has sent: Ahead is the most steps it may still take until its slot   *)
(* is free, and each of its steps leaves fewer.                            *)
(***************************************************************************)
Ahead(step) ==
  CASE step = "load" -> 8
    [] step = "addr" -> 7
    [] step = "exists" -> 6
    [] step \in {"match", "fetch"} -> 5
    [] step \in {"restore", "insert", "write"} -> 4
    [] step \in {"reload", "refetch", "erase"} -> 3
    [] step = "audit" -> 2
    [] step = "reply" -> 1
    [] step = "idle" -> 0

LEMMA AheadNatural == \A step \in Steps : Ahead(step) \in 0 .. 8
BY DEF Ahead, Steps

LEMMA Moves ==
  ASSUME TypeOK, NEW r \in Slots
  PROVE  /\ \A step : Goto(r, step) => pc'[r] = step
         /\ \A c : Reply(r, c) => pc'[r] = "reply"
BY DEF TypeOK, Typed, Goto, Reply

LEMMA AheadDecreases ==
  ASSUME TypeOK, NEW r \in Slots, Arrive(r) \/ Serve(r)
  PROVE  /\ pc[r] = "idle" => pc'[r] \in {"addr", "load", "fetch", "reply"}
         /\ pc[r] # "idle" => Ahead(pc'[r]) < Ahead(pc[r])
<1>1. CASE Arrive(r) BY <1>1, Moves DEF Arrive, FirstStep
<1>2. ASSUME pc[r] = "addr", pc'[r] \in {"exists", "fetch", "reply"} PROVE Ahead(pc'[r]) < Ahead(pc[r])
  BY <1>2 DEF Ahead
<1>3. CASE AssignIP(r) \/ CheckIP(r)
  BY <1>2, <1>3, Moves DEF AssignIP, CheckIP
<1>4. CASE CheckExisting(r) \/ MatchDeleted(r)
  <2>1. \/ pc[r] = "exists" /\ pc'[r] \in {"match", "reply"}
        \/ pc[r] = "match" /\ pc'[r] \in {"restore", "insert", "reply"}
    BY <1>4, Moves DEF CheckExisting, MatchDeleted
  <2> QED BY <2>1 DEF Ahead
<1>5. CASE Restore(r) \/ Reload(r) \/ Insert(r)
  <2>1. \/ pc[r] = "restore" /\ (Goto(r, "reload") \/ Reply(r, 500))
        \/ pc[r] \in {"reload", "insert"} /\ (Goto(r, "audit") \/ Reply(r, 500))
    BY <1>5 DEF Restore, Reload, Insert
  <2>2. \/ pc[r] = "restore" /\ pc'[r] \in {"reload", "reply"}
        \/ pc[r] \in {"reload", "insert"} /\ pc'[r] \in {"audit", "reply"}
    BY <2>1, Moves
  <2> QED BY <2>2 DEF Ahead
<1>6. CASE Load(r)
  <2>1. pc[r] = "load" /\ pc'[r] \in {"erase", "fetch", "addr", "reply"}
    BY <1>6, Moves DEF Load
  <2> QED BY <2>1 DEF Ahead
<1>7. CASE Fetch(r)
  <2>1. pc[r] = "fetch" /\ pc'[r] \in {"write", "reply"} BY <1>7, Moves DEF Fetch
  <2> QED BY <2>1 DEF Ahead
<1>8. CASE Write(r)
  <2>1. pc[r] = "write" /\ pc'[r] \in {"refetch", "audit", "reply"}
    BY <1>8, Moves DEF Write, AfterWrite
  <2> QED BY <2>1 DEF Ahead
<1>9. CASE Refetch(r) \/ Erase(r) \/ Audit(r)
  <2>1. \/ pc[r] \in {"refetch", "erase"} /\ pc'[r] \in {"audit", "reply"}
        \/ pc[r] = "audit" /\ pc'[r] = "reply"
    BY <1>9, Moves DEF Refetch, Erase, Audit
  <2> QED BY <2>1 DEF Ahead
<1>10. CASE DbError(r)
  <2>1. pc[r] \in Steps \ {"idle", "reply"} /\ pc'[r] = "reply"
    BY <1>10, Moves DEF DbError, TypeOK, Typed
  <2> QED BY <2>1 DEF Ahead, Steps
<1>11. CASE Finish(r)
  <2>1. pc[r] = "reply" /\ pc'[r] = "idle" BY <1>11 DEF Finish, TypeOK, Typed
  <2> QED BY <2>1 DEF Ahead
<1> QED BY <1>1, <1>3, <1>4, <1>5, <1>6, <1>7, <1>8, <1>9, <1>10, <1>11 DEF Serve, Work

\* However requests interleave and whatever fails, a request sends no statement
\* twice and is answered after at most seven.
RequestAdvances ==
  [][\A r \in Slots :
       pc'[r] = pc[r] \/ pc[r] = "idle" \/ Ahead(pc'[r]) < Ahead(pc[r])]_vars
THEOREM RequestsAdvance == Spec => RequestAdvances
<1>1. TypeOK /\ [Next]_vars =>
        [\A r \in Slots : pc'[r] = pc[r] \/ pc[r] = "idle"
                          \/ Ahead(pc'[r]) < Ahead(pc[r])]_vars
  <2> SUFFICES ASSUME TypeOK, NEW r \in Slots, Arrive(r) \/ Serve(r), NEW q \in Slots
               PROVE  pc'[q] = pc[q] \/ pc[q] = "idle" \/ Ahead(pc'[q]) < Ahead(pc[q])
    BY DEF Next
  <2>1. CASE q = r BY <2>1, AheadDecreases
  <2>2. CASE q # r BY <2>2, OtherAnswers
  <2> QED BY <2>1, <2>2
<1> QED BY <1>1, TypeCorrect, PTL DEF Spec, RequestAdvances
=============================================================================
