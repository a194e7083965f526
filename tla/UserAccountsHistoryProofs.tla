---------------------- MODULE UserAccountsHistoryProofs ----------------------
(***************************************************************************)
(* Proofs about UserAccountsHistory, for every table, every set of         *)
(* requests, every number of slots, and whatever statements fail.          *)
(***************************************************************************)
EXTENDS UserAccountsHistory, UserAccountsProofs

\* The memory changes nothing: every step is one of UserAccounts.
LEMMA ObsStep == [ObsNext]_obsvars => [Next]_vars
BY DEF ObsNext, obsvars, Next, Serve

LEMMA ObsImplements == ObsSpec => Spec
<1>1. ObsInit => Init BY DEF ObsInit
<1> QED BY <1>1, ObsStep, PTL DEF ObsSpec, Spec

\* What a slot's memory holds after a step: what it held, and what is true of
\* the account now.
LEMMA Observed ==
  ASSUME NEW r \in Slots, NEW f \in BOOLEAN, Observe(r, f),
         NEW q \in Slots, req'[q] # None
  PROVE  /\ seen[q] \subseteq seen'[q]
         /\ req'[q].op # "create" =>
              Facts(req'[q], users'[Target(req'[q])]) \subseteq seen'[q]
         /\ (req'[q].op = "create" /\ wrote'[q] /\ found'[q] # None) =>
              Facts(req'[q], users'[found'[q]]) \subseteq seen'[q]
<1>1. seen'[q] = seen[q] \cup UNION {Facts(req'[q], users'[a]) : a \in Account(q)'}
  BY DEF Observe
<1>2. req'[q].op # "create" => Account(q)' = {Target(req'[q])}
  BY DEF Account
<1>3. (req'[q].op = "create" /\ wrote'[q]) => Account(q)' = {found'[q]} \ {None}
  BY DEF Account
<1> QED BY <1>1, <1>2, <1>3

LEMMA FactsOfRow ==
  ASSUME NEW i, NEW row, row # None
  PROVE  /\ row.deleted => "deleted" \in Facts(i, row)
         /\ row.manager = i.by => "subordinate" \in Facts(i, row)
         /\ row.pwd = i.cur => "password" \in Facts(i, row)
BY DEF Facts

\* No step takes a row out of the table.
LEMMA StoredGrows == ASSUME TypeOK, [Next]_vars PROVE Stored \subseteq Stored'
<1> USE DEF TypeOK, Typed
<1>1. CASE users' = users BY <1>1 DEF Stored
<1>2. ASSUME NEW id \in Ids, NEW row \in Row, Stores(id, row) PROVE Stored \subseteq Stored'
  BY <1>2, MarkAssumption DEF Stores, Stored
<1>3. ASSUME NEW r \in Slots, TableStep(r) PROVE Stored \subseteq Stored'
  <2>1. PlacedAt(r) BY DEF Placed
  <2>2. CASE Restored(r)
    <3>1. found[r] \in Ids /\ req[r] \in CreateInput /\ req[r].ip \in Addrs \cup {None}
      BY <2>1, <2>2 DEF Restored, PlacedAt, CreateSteps, Stored
    <3> QED BY <1>2, <2>2, <3>1, NewRowType DEF Restored
  <2>3. ASSUME NEW id \in Ids, Inserted(r, id) PROVE Stored \subseteq Stored'
    <3>1. req[r] \in CreateInput /\ req[r].ip \in Addrs \cup {None}
      BY <2>1, <2>3 DEF Inserted, PlacedAt, CreateSteps
    <3>2. NewRow(req[r], TRUE) \in Row BY <3>1, NewRowType
    <3> QED BY <1>2, <2>3, <3>2 DEF Inserted
  <2>4. CASE Changed(r)
    <3> DEFINE t == Target(req[r])
    <3>1. t \in Ids /\ users[t] \in Row BY <2>4 DEF Changed, Live, Stored
    <3>2. /\ req[r] \in ChangeInput /\ req[r].ip \in Addrs \cup {None, Keep}
          /\ boss[r] \in Ids \cup {None}
      BY <2>1, <2>4 DEF Changed, PlacedAt
    <3>3. Updated(req[r], boss[r], users[t]) \in Row BY <3>1, <3>2, UpdatedType
    <3> QED BY <1>2, <2>4, <3>1, <3>3 DEF Changed
  <2>5. CASE Erased(r)
    <3>1. req[r].id \in Ids /\ users[req[r].id] \in Row
      BY <2>5 DEF Erased, Live, Stored
    <3>2. [users[req[r].id] EXCEPT !.deleted = TRUE] \in Row BY <3>1 DEF Row
    <3> QED BY <1>2, <2>5, <3>1, <3>2 DEF Erased
  <2> QED BY <1>3, <2>2, <2>3, <2>4, <2>5 DEF TableStep
<1> QED BY <1>1, <1>3, TableSteps

-----------------------------------------------------------------------------
(***************************************************************************)
(* What a request remembers.  RecallsAt is what the checks leave behind    *)
(* that the later steps rely on: not that it is still true of the account, *)
(* which another request may have changed, but that it has been.           *)
(***************************************************************************)
RecallsAt(s) ==
  /\ (pc[s] \in {"addr", "fetch", "write"} /\ req[s].op = "update" /\ req[s].role = "MANAGER")
       => "subordinate" \in seen[s]
  /\ (pc[s] = "write" /\ req[s].op = "password") => "password" \in seen[s]
  /\ pc[s] \in {"write", "refetch", "erase"} => Target(req[s]) \in Stored
  /\ pc[s] = "reload" => wrote[s] /\ found[s] \in Stored

LEMMA Arrival ==
  ASSUME TypeOK, NEW s \in Slots, Arrive(s)
  PROVE  /\ pc'[s] \in {"addr", "load", "fetch", "reply"}
         /\ pc'[s] \in {"addr", "fetch"} => req'[s].op # "update"
<1> USE DEF TypeOK, Typed
<1>1. PICK i \in Inputs : /\ req' = [req EXCEPT ![s] = AsHandled(i)]
                          /\ \/ Refused(i) /\ Reply(s, 403)
                             \/ ~Refused(i) /\ Goto(s, FirstStep(i))
  BY DEF Arrive
<1>2. pc'[s] = "reply" \/ pc'[s] = FirstStep(i) BY <1>1, Moves
<1>3. AsHandled(i).op = i.op
  <2>1. i.op = "create" => i \in CreateInput
    BY InputAssumption
    DEF UpdateInput, ProfileInput, PasswordInput, ResetInput, DeleteInput
  <2> QED BY <2>1 DEF AsHandled, CreateInput
<1>4. req'[s].op = i.op BY <1>1, <1>3
<1> QED BY <1>2, <1>4 DEF FirstStep

LEMMA RecallsStep ==
  ASSUME TypeOK, TypeOK', NEW s \in Slots, RecallsAt(s), Arrive(s) \/ Serve(s),
         NEW f \in BOOLEAN, Observe(s, f), Stored \subseteq Stored'
  PROVE  RecallsAt(s)'
<1> USE DEF TypeOK, Typed
<1>1. PlacedAt(s) /\ PlacedAt(s)' BY DEF Placed
<1>2. ASSUME pc'[s] \in {"idle", "exists", "match", "restore", "insert", "load",
                         "audit", "reply"}
      PROVE  RecallsAt(s)'
  BY <1>2 DEF RecallsAt
<1>3. pc'[s] # "idle" => seen[s] \subseteq seen'[s]
  BY <1>1, Observed DEF PlacedAt
<1>4. CASE Arrive(s)
  <2>1. pc'[s] \in {"addr", "fetch"} => RecallsAt(s)'
    BY <1>4, Arrival DEF RecallsAt
  <2> QED BY <1>2, <1>4, <2>1, Arrival
<1>5. CASE AssignIP(s) \/ CheckExisting(s) \/ MatchDeleted(s) \/ Insert(s)
  <2>1. CASE AssignIP(s) \/ CheckExisting(s)
    BY <1>2, <2>1, Moves DEF AssignIP, CheckExisting
  <2>2. CASE MatchDeleted(s)
    <3>1. pc'[s] \in {"restore", "insert", "reply"} BY <2>2, Moves DEF MatchDeleted
    <3> QED BY <1>2, <3>1
  <2>3. CASE Insert(s)
    <3>1. Goto(s, "audit") \/ Reply(s, 500) BY <2>3 DEF Insert
    <3> QED BY <1>2, <3>1, Moves
  <2> QED BY <1>5, <2>1, <2>2, <2>3
<1>6. CASE CheckIP(s)
  <2>1. pc[s] = "addr" /\ pc'[s] \in {"exists", "fetch", "reply"} /\ req' = req
    BY <1>6, Moves DEF CheckIP
  <2> QED BY <1>3, <2>1 DEF RecallsAt
<1>7. CASE Load(s)
  <2> DEFINE i == req[s]
  <2>1. UNCHANGED <<users, req>> /\ pc'[s] \in {"reply", "erase", "fetch", "addr"}
    BY <1>7, Moves DEF Load
  <2>2. CASE pc'[s] \in {"addr", "fetch"}
    <3>1. i.op = "update" /\ Live(i.id) /\ ~Forbidden(i, users[i.id])
      BY <1>7, <2>2, Moves DEF Load
    <3>2. i.role = "MANAGER" => "subordinate" \in Facts(i, users[i.id])
      BY <3>1, FactsOfRow DEF Forbidden, Live, Stored
    <3>3. Facts(i, users[i.id]) \subseteq seen'[s]
      BY <1>1, <2>1, <2>2, <3>1, Observed DEF PlacedAt, Target
    <3> QED BY <2>1, <2>2, <3>2, <3>3 DEF RecallsAt
  <2>3. CASE pc'[s] = "erase"
    <3>1. i.op = "delete" /\ i.id \in Stored
      BY <1>7, <2>3, Moves DEF Load, Live
    <3>2. Target(i) \in Stored' BY <2>1, <3>1 DEF Target, Stored
    <3> QED BY <2>1, <2>3, <3>2 DEF RecallsAt
  <2> QED BY <1>2, <2>1, <2>2, <2>3
<1>8. CASE Fetch(s)
  <2> DEFINE i == req[s]
             t == Target(i)
  <2>1. pc[s] = "fetch" /\ UNCHANGED <<users, req>> /\ pc'[s] \in {"write", "reply"}
    BY <1>8, Moves DEF Fetch
  <2>2. CASE pc'[s] = "write"
    <3>1. Live(t) /\ ~WrongPassword(i, users[t]) BY <1>8, <2>2, Moves DEF Fetch
    <3>2. i.op = "password" => "password" \in Facts(i, users[t])
      BY <3>1, FactsOfRow DEF WrongPassword, Live, Stored
    <3>3. i.op # "create"
      BY <1>1, <2>1, ChangeFields DEF PlacedAt
    <3>4. Facts(i, users[t]) \subseteq seen'[s]
      BY <1>1, <2>1, <2>2, <3>3, Observed DEF PlacedAt
    <3>5. t \in Stored' BY <2>1, <3>1 DEF Live, Stored
    <3> QED BY <1>3, <2>1, <2>2, <3>2, <3>4, <3>5 DEF RecallsAt
  <2> QED BY <1>2, <2>1, <2>2
<1>9. CASE Write(s)
  <2>1. pc[s] = "write" /\ req' = req /\ pc'[s] \in {"refetch", "audit", "reply"}
    BY <1>9, Moves DEF Write, AfterWrite
  <2> QED BY <2>1 DEF RecallsAt
<1>10. CASE Restore(s)
  <2>1. CASE Reply(s, 500) BY <1>2, <2>1, Moves
  <2>2. CASE wrote' = [wrote EXCEPT ![s] = TRUE] /\ Goto(s, "reload")
    <3>1. wrote'[s] /\ found'[s] = found[s] /\ found[s] \in Stored /\ pc'[s] = "reload"
      BY <1>1, <1>10, <2>2, Moves DEF Restore, PlacedAt
    <3> QED BY <3>1 DEF RecallsAt
  <2> QED BY <1>10, <2>1, <2>2 DEF Restore
<1>11. CASE Reload(s) \/ Refetch(s) \/ Erase(s) \/ Audit(s) \/ DbError(s)
  <2>1. pc'[s] \in {"audit", "reply"}
    BY <1>11, Moves DEF Reload, Refetch, Erase, Audit, DbError
  <2> QED BY <1>2, <2>1
<1>12. CASE Finish(s) BY <1>2, <1>12 DEF Finish
<1> QED BY <1>4, <1>5, <1>6, <1>7, <1>8, <1>9, <1>10, <1>11, <1>12 DEF Serve, Work
-----------------------------------------------------------------------------
(***************************************************************************)
(* What the answer will say.  TruthAt is AnswerTrue on the way to the      *)
(* answer: past the change, either it was made or the account was gone.    *)
(***************************************************************************)
Late == {"refetch", "audit"}
TruthAt(s) ==
  /\ pc[s] # "reply" => ~logged[s] /\ ~failed[s]
  /\ pc[s] \in Late => wrote[s] \/ DeletedMeanwhile(s)
  /\ pc[s] \notin Late \cup {"reload", "reply"} => ~wrote[s]
  /\ pc[s] = "reply" => AnswerTrue(s)

\* An account that is not found any more has been seen deleted.
LEMMA NotFound ==
  ASSUME NEW s \in Slots, NEW f \in BOOLEAN, Observe(s, f), req'[s] # None,
         UNCHANGED <<users, req>>
  PROVE  /\ (req[s].op # "create" /\ Target(req[s]) \in Stored /\ ~Live(Target(req[s])))
              => DeletedMeanwhile(s)'
         /\ (req[s].op = "create" /\ wrote'[s] /\ found'[s] \in Stored
              /\ found'[s] # None /\ ~Live(found'[s])) => DeletedMeanwhile(s)'
<1>1. \A t \in Stored : ~Live(t) => "deleted" \in Facts(req[s], users[t])
  BY FactsOfRow DEF Live, Stored
<1>2. CASE req[s].op # "create"
  BY <1>1, <1>2, Observed DEF DeletedMeanwhile
<1>3. CASE req[s].op = "create"
  BY <1>1, <1>3, Observed DEF DeletedMeanwhile
<1> QED BY <1>2, <1>3

\* A statement that does not fail.
LEMMA TruthWork ==
  ASSUME TypeOK, TypeOK', NEW s \in Slots, RecallsAt(s), TruthAt(s),
         failed \in [Slots -> BOOLEAN], Arrive(s) \/ Work(s), Observe(s, FALSE)
  PROVE  TruthAt(s)'
<1> USE DEF TypeOK, Typed
<1>1. PlacedAt(s) /\ PlacedAt(s)' BY DEF Placed
<1>2. /\ \A step : Goto(s, step) => pc'[s] = step
      /\ \A c : Reply(s, c) => pc'[s] = "reply" /\ code'[s] = c
  <2>1. \A step : Goto(s, step) => pc'[s] = step BY DEF Goto
  <2>2. \A c : Reply(s, c) => pc'[s] = "reply" /\ code'[s] = c BY DEF Reply
  <2> QED BY <2>1, <2>2
<1>3. pc'[s] # "idle" => seen[s] \subseteq seen'[s] /\ req'[s] # None
  BY <1>1, Observed DEF PlacedAt
<1>4. pc[s] # "reply" => ~failed'[s]
  BY DEF Observe, TruthAt
\* A step before any change: on to the next, or a refusal.
<1>5. ASSUME pc[s] \notin Late \cup {"reload", "reply"}, UNCHANGED <<wrote, logged>>,
             \/ \E c \in {400, 403, 404, 409, 500} : Reply(s, c)
             \/ \E step \in Steps \ {"reload", "refetch", "audit", "reply"} : Goto(s, step)
      PROVE  TruthAt(s)'
  <2>1. ~wrote'[s] /\ ~logged'[s] /\ ~failed'[s] BY <1>4, <1>5 DEF TruthAt
  <2>2. \/ pc'[s] = "reply" /\ code'[s] \notin {200, 201}
        \/ pc'[s] \notin {"reload", "refetch", "audit", "reply"}
    BY <1>2, <1>5
  <2> QED BY <2>1, <2>2 DEF TruthAt, AnswerTrue, Success, Late
\* The change itself, or a step after it.
<1>6. ASSUME pc[s] # "reply", NEW step \in {"reload", "refetch", "audit"}, Goto(s, step),
             UNCHANGED logged,
             wrote'[s] \/ (step # "reload" /\ DeletedMeanwhile(s)')
      PROVE  TruthAt(s)'
  <2>1. ~logged'[s] /\ ~failed'[s] /\ pc'[s] = step BY <1>2, <1>4, <1>6 DEF TruthAt
  <2> QED BY <1>6, <2>1 DEF TruthAt, Late
\* An account that is gone when it is read back.
<1>7. ASSUME pc[s] # "reply", UNCHANGED <<wrote, logged>>, Reply(s, 500),
             DeletedMeanwhile(s)'
      PROVE  TruthAt(s)'
  <2>1. ~logged'[s] /\ pc'[s] = "reply" /\ code'[s] = 500
    BY <1>2, <1>7 DEF TruthAt
  <2> QED BY <1>7, <2>1 DEF TruthAt, AnswerTrue, Success, Late
<1>8. CASE Arrive(s)
  <2>1. PICK i \in Inputs : \/ Refused(i) /\ Reply(s, 403)
                            \/ ~Refused(i) /\ Goto(s, FirstStep(i))
    BY <1>8 DEF Arrive
  <2>2. FirstStep(i) \in {"addr", "load", "fetch"} BY DEF FirstStep
  <2> QED BY <1>5, <1>8, <2>1, <2>2 DEF Arrive, Steps, Late
<1>9. CASE AssignIP(s) \/ CheckIP(s)
  BY <1>5, <1>9 DEF AssignIP, CheckIP, Steps, Late
<1>10. CASE CheckExisting(s) \/ MatchDeleted(s)
  BY <1>5, <1>10 DEF CheckExisting, MatchDeleted, Steps, Late
<1>11. CASE Load(s)
  <2>1. pc[s] = "load" /\ UNCHANGED <<wrote, logged>> BY <1>11 DEF Load
  <2>2. \/ \E c \in {403, 404} : Reply(s, c)
        \/ \E step \in {"erase", "fetch", "addr"} : Goto(s, step)
    BY <1>11 DEF Load
  <2> QED BY <1>5, <2>1, <2>2 DEF Steps, Late
<1>12. CASE Fetch(s)
  <2>1. pc[s] = "fetch" /\ UNCHANGED <<wrote, logged>> BY <1>12 DEF Fetch
  <2>2. (\E c \in {400, 404, 500} : Reply(s, c)) \/ Goto(s, "write")
    BY <1>12 DEF Fetch
  <2> QED BY <1>5, <2>1, <2>2 DEF Steps, Late
<1>13. CASE Restore(s) \/ Insert(s)
  <2>1. pc[s] \in {"restore", "insert"} /\ UNCHANGED logged
    BY <1>13 DEF Restore, Insert
  <2>2. \/ wrote' = wrote /\ Reply(s, 500)
        \/ wrote' = [wrote EXCEPT ![s] = TRUE] /\ (Goto(s, "reload") \/ Goto(s, "audit"))
    BY <1>13 DEF Restore, Insert
  <2>3. CASE wrote' = wrote /\ Reply(s, 500) BY <1>5, <2>1, <2>3 DEF Late
  <2>4. CASE wrote' = [wrote EXCEPT ![s] = TRUE] /\ (Goto(s, "reload") \/ Goto(s, "audit"))
    <3>1. wrote'[s] BY <2>4
    <3> QED BY <1>6, <2>1, <2>4, <3>1
  <2> QED BY <2>2, <2>3, <2>4
<1>14. CASE Write(s)
  <2> DEFINE t == Target(req[s])
  <2>1. /\ pc[s] = "write" /\ UNCHANGED <<req, logged>> /\ req[s].op # "create"
        /\ t \in Stored /\ AfterWrite(req[s]) \in {"refetch", "audit"}
    BY <1>1, <1>14, ChangeFields DEF Write, RecallsAt, PlacedAt, AfterWrite
  <2>2. CASE ~WhereLive(t)
    <3>1. UNCHANGED <<users, wrote>> /\ Goto(s, AfterWrite(req[s]))
      BY <1>14, <2>2 DEF Write
    <3>2. req'[s] # None BY <1>2, <1>3, <2>1, <3>1
    <3>3. DeletedMeanwhile(s)'
      BY <2>1, <2>2, <3>1, <3>2, NotFound DEF WhereLive
    <3>4. ASSUME NEW step \in {"refetch", "audit"}, Goto(s, step) PROVE TruthAt(s)'
      BY <1>6, <2>1, <3>3, <3>4
    <3> QED BY <2>1, <3>1, <3>4
  <2>3. CASE wrote' = wrote /\ Reply(s, 500) BY <1>5, <2>1, <2>3 DEF Late
  <2>4. CASE wrote' = [wrote EXCEPT ![s] = TRUE] /\ Goto(s, AfterWrite(req[s]))
    <3>1. wrote'[s] BY <2>4
    <3>2. ASSUME NEW step \in {"refetch", "audit"}, Goto(s, step) PROVE TruthAt(s)'
      BY <1>6, <2>1, <3>1, <3>2
    <3> QED BY <2>1, <2>4, <3>2
  <2> QED BY <1>14, <2>2, <2>3, <2>4 DEF Write
<1>15. CASE Erase(s)
  <2> DEFINE t == req[s].id
  <2>1. /\ pc[s] = "erase" /\ UNCHANGED <<req, logged>> /\ Goto(s, "audit")
        /\ req[s].op = "delete" /\ Target(req[s]) = t /\ t \in Stored
    BY <1>1, <1>15 DEF Erase, RecallsAt, PlacedAt, DeleteInput, Target
  <2>2. CASE ~WhereLive(t)
    <3>1. UNCHANGED <<users, wrote>> BY <1>15, <2>2 DEF Erase
    <3>2. req'[s] # None BY <1>2, <1>3, <2>1
    <3>3. DeletedMeanwhile(s)'
      BY <2>1, <2>2, <3>1, <3>2, NotFound DEF WhereLive
    <3> QED BY <1>6, <2>1, <3>3
  <2>3. CASE wrote' = [wrote EXCEPT ![s] = TRUE]
    <3>1. wrote'[s] BY <2>3
    <3> QED BY <1>6, <2>1, <3>1
  <2> QED BY <1>15, <2>2, <2>3 DEF Erase
<1>16. CASE Reload(s)
  <2>1. /\ pc[s] = "reload" /\ UNCHANGED <<users, req, found, wrote, logged>>
        /\ wrote[s] /\ found[s] \in Stored /\ found[s] # None /\ req[s].op = "create"
    BY <1>1, <1>16, MarkAssumption, CreateFields
    DEF Reload, RecallsAt, PlacedAt, CreateSteps, Stored
  <2>2. CASE Goto(s, "audit") BY <1>6, <2>1, <2>2
  <2>3. CASE ~Live(found[s]) /\ Reply(s, 500)
    <3>1. req'[s] # None BY <1>2, <1>3, <2>3
    <3>2. DeletedMeanwhile(s)' BY <2>1, <2>3, <3>1, NotFound
    <3> QED BY <1>7, <2>1, <2>3, <3>2
  <2> QED BY <1>16, <2>2, <2>3 DEF Reload
<1>17. CASE Refetch(s)
  <2>1. /\ pc[s] = "refetch" /\ UNCHANGED <<users, req, wrote, logged>>
        /\ Target(req[s]) \in Stored /\ req[s].op # "create"
    BY <1>1, <1>17, ChangeFields DEF Refetch, RecallsAt, PlacedAt
  <2>2. CASE Goto(s, "audit")
    <3>1. seen[s] \subseteq seen'[s] BY <1>2, <1>3, <2>2
    <3>2. wrote'[s] \/ DeletedMeanwhile(s)'
      BY <2>1, <3>1 DEF TruthAt, DeletedMeanwhile, Late
    <3> QED BY <1>6, <2>1, <2>2, <3>2
  <2>3. CASE ~Live(Target(req[s])) /\ Reply(s, 500)
    <3>1. req'[s] # None BY <1>2, <1>3, <2>3
    <3>2. DeletedMeanwhile(s)' BY <2>1, <2>3, <3>1, NotFound
    <3> QED BY <1>7, <2>1, <2>3, <3>2
  <2> QED BY <1>17, <2>2, <2>3 DEF Refetch
<1>18. CASE Audit(s)
  <2>1. /\ pc[s] = "audit" /\ wrote' = wrote
        /\ logged' = [logged EXCEPT ![s] = TRUE] /\ Reply(s, Done(req[s]))
    BY <1>18 DEF Audit
  <2>2. pc'[s] = "reply" /\ code'[s] \in {200, 201} BY <1>2, <2>1 DEF Done
  <2>3. wrote'[s] \/ DeletedMeanwhile(s)'
    BY <1>3, <2>1, <2>2 DEF TruthAt, DeletedMeanwhile, Late
  <2> QED BY <2>1, <2>2, <2>3 DEF TruthAt, AnswerTrue, Success, Late
<1>19. CASE Finish(s) BY <1>19 DEF Finish, Observe, TruthAt, Late
<1> QED BY <1>8, <1>9, <1>10, <1>11, <1>12, <1>13, <1>14, <1>15, <1>16, <1>17, <1>18, <1>19
        DEF Work

\* A statement that fails.
LEMMA TruthFailing ==
  ASSUME TypeOK, TypeOK', NEW s \in Slots, TruthAt(s),
         failed \in [Slots -> BOOLEAN], DbError(s), Observe(s, TRUE)
  PROVE  TruthAt(s)'
<1> USE DEF TypeOK, Typed
<1>1. /\ pc[s] \notin {"idle", "reply"} /\ UNCHANGED <<wrote, logged>>
      /\ pc'[s] = "reply" /\ code'[s] = FailCode(req[s], pc[s])
  BY DEF DbError, Reply
<1>2. failed'[s] /\ ~logged'[s]
  BY <1>1 DEF Observe, TruthAt
<1>3. Success(s)' => pc[s] = "audit"
  BY <1>1 DEF Success, FailCode
<1>4. seen[s] \subseteq seen'[s]
  <2>1. PlacedAt(s)' BY DEF Placed
  <2>2. req'[s] # None BY <1>1, <2>1 DEF PlacedAt
  <2> QED BY <2>2, Observed
<1>5. pc[s] = "audit" => wrote'[s] \/ DeletedMeanwhile(s)'
  BY <1>1, <1>4 DEF TruthAt, DeletedMeanwhile, Late
<1> QED BY <1>1, <1>2, <1>3, <1>5 DEF TruthAt, AnswerTrue, Late

-----------------------------------------------------------------------------
HistoryInv ==
  /\ failed \in [Slots -> BOOLEAN]
  /\ \A s \in Slots : RecallsAt(s) /\ TruthAt(s)

\* A step of one slot adds to what the others remember.
LEMMA OthersHistory ==
  ASSUME TypeOK, TypeOK', HistoryInv, NEW r \in Slots, Arrive(r) \/ Serve(r),
         NEW f \in BOOLEAN, Observe(r, f), Stored \subseteq Stored',
         NEW q \in Slots, q # r
  PROVE  RecallsAt(q)' /\ TruthAt(q)'
<1>1. /\ pc'[q] = pc[q] /\ code'[q] = code[q] /\ wrote'[q] = wrote[q]
      /\ req'[q] = req[q] /\ found'[q] = found[q] /\ logged'[q] = logged[q]
  BY OtherAnswers, OtherRequests
<1>2. failed'[q] = failed[q] BY DEF Observe, HistoryInv
<1>3. RecallsAt(q) /\ TruthAt(q) BY DEF HistoryInv
<1>4. CASE pc[q] = "idle" BY <1>1, <1>2, <1>3, <1>4 DEF RecallsAt, TruthAt, Late
<1>5. CASE pc[q] # "idle"
  <2>1. req'[q] # None BY <1>1, <1>5 DEF TypeOK, Placed, PlacedAt
  <2>2. seen[q] \subseteq seen'[q] BY <2>1, Observed
  <2>3. RecallsAt(q)' BY <1>1, <1>3, <2>2 DEF RecallsAt
  <2>4. TruthAt(q)'
    BY <1>1, <1>2, <1>3, <2>2
    DEF TruthAt, AnswerTrue, Success, DeletedMeanwhile, Late
  <2> QED BY <2>3, <2>4
<1> QED BY <1>4, <1>5

LEMMA HistoryNext ==
  ASSUME TypeOK, HistoryInv, [ObsNext]_obsvars PROVE HistoryInv'
<1>1. [Next]_vars BY ObsStep
<1>2. TypeOK' /\ Stored \subseteq Stored' BY <1>1, TypeNext, StoredGrows
<1>3. CASE UNCHANGED obsvars
  BY <1>3
  DEF obsvars, vars, HistoryInv, RecallsAt, TruthAt, AnswerTrue, Success,
      DeletedMeanwhile, Late, Stored
<1>4. ASSUME NEW r \in Slots, NEW f \in BOOLEAN, Observe(r, f),
             \/ (Arrive(r) \/ Work(r)) /\ f = FALSE
             \/ DbError(r) /\ f = TRUE
      PROVE  HistoryInv'
  <2>1. Arrive(r) \/ Serve(r) BY <1>4 DEF Serve
  <2>2. failed' \in [Slots -> BOOLEAN] BY <1>4 DEF Observe, HistoryInv
  <2>3. RecallsAt(r) /\ TruthAt(r) /\ failed \in [Slots -> BOOLEAN]
    BY DEF HistoryInv
  <2>4. RecallsAt(r)' BY <1>2, <1>4, <2>1, <2>3, RecallsStep
  <2>5. TruthAt(r)' BY <1>2, <1>4, <2>3, TruthWork, TruthFailing
  <2>6. \A q \in Slots \ {r} : RecallsAt(q)' /\ TruthAt(q)'
    BY <1>2, <1>4, <2>1, OthersHistory
  <2> QED BY <2>2, <2>4, <2>5, <2>6 DEF HistoryInv
<1> QED BY <1>3, <1>4 DEF ObsNext

LEMMA HistoryInvariant == ObsSpec => [](TypeOK /\ HistoryInv)
<1>1. ObsInit => HistoryInv
  BY DEF ObsInit, Init, HistoryInv, RecallsAt, TruthAt, Late
<1>2. TypeOK /\ HistoryInv /\ [ObsNext]_obsvars => HistoryInv'
  BY HistoryNext
<1> QED BY <1>1, <1>2, ObsImplements, TypeCorrect, PTL DEF ObsSpec

\* However requests interleave and whatever statements fail, an answer is wrong
\* about the table only when the account was deleted while the request was
\* under way or its row could not be read back, and about the audit log only
\* when the audit row could not be stored.
THEOREM AnswersTrue == ObsSpec => []ReplyTellsTruth
<1>1. HistoryInv => ReplyTellsTruth
  BY DEF HistoryInv, TruthAt, ReplyTellsTruth
<1> QED BY <1>1, HistoryInvariant, PTL

\* A manager changes only users who have been the manager's since the request
\* arrived, however many requests move users at the same time.
THEOREM ManagersKeepScope == ObsSpec => ManagerScope
<1>1. HistoryInv =>
        [\A r \in Slots :
           (/\ pc[r] = "write" /\ wrote'[r]
            /\ req[r].op = "update" /\ req[r].role = "MANAGER")
              => "subordinate" \in seen[r]]_obsvars
  BY DEF HistoryInv, RecallsAt
<1> QED BY <1>1, HistoryInvariant, PTL DEF ManagerScope

\* A password is changed only by one who has sent a password that the account
\* has had since the request arrived.
THEOREM PasswordsAsCompared == ObsSpec => ReplacesCurrentPassword
<1>1. HistoryInv =>
        [\A r \in Slots :
           (pc[r] = "write" /\ wrote'[r] /\ req[r].op = "password")
              => "password" \in seen[r]]_obsvars
  BY DEF HistoryInv, RecallsAt
<1> QED BY <1>1, HistoryInvariant, PTL DEF ReplacesCurrentPassword
=============================================================================
