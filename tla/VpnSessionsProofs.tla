-------------------------- MODULE VpnSessionsProofs --------------------------
(***************************************************************************)
(* Proofs about VpnSessions, for any number of users, tunnels, sessions    *)
(* and requests, with lost and late calls, failing statements and restarts *)
(* of either side.                                                         *)
(***************************************************************************)
EXTENDS VpnSessions, FiniteSetTheorems, TLAPS

-----------------------------------------------------------------------------
(***************************************************************************)
(* TypeOK is not inductive: that a row is stored with a user, and the      *)
(* request's counters, rests on which request can be at which statement.   *)
(***************************************************************************)
Placed ==
  \A r \in Slots :
    /\ pc[r] # "idle" => req[r] \in Request
    /\ pc[r] \in {"insert", "reload"} => req[r].op = "connect" /\ req[r].user \in Users
    /\ pc[r] \in {"find", "save"} => req[r].op = "disconnect"
    /\ pc[r] \in {"reload", "find", "save"} => req[r].id \in Sessions
    /\ pc[r] = "save" => row[r] \in Session
    /\ pc[r] \in {"count", "active"} => req[r].op \in {"usage", "dashboard"}

TypeInv == TypeOK /\ Placed

\* What a request that arrives is about to do.
LEMMA ArriveStep ==
  ASSUME TypeInv, NEW r \in Slots, NEW i \in Request, Arrive(r, i),
         i.op = "connect" => i.user \in Users,
         i.op = "disconnect" => i.id \in Sessions
  PROVE  /\ pc[r] = "idle"
         /\ pc' \in [Slots -> Steps] /\ req' \in [Slots -> Request \cup {None}]
         /\ code' \in [Slots -> Codes] /\ row' \in [Slots -> Session \cup {None}]
         /\ total' \in [Slots -> Nat] /\ current' \in [Slots -> Nat] /\ born' \in [Slots -> Nat]
         /\ Placed'
         /\ req'[r] = i /\ pc'[r] = FirstStep(i) /\ pc'[r] \notin {"idle", "reload", "save", "reply"}
         /\ \A q \in Slots \ {r} : pc'[q] = pc[q] /\ req'[q] = req[q] /\ born'[q] = born[q]
         /\ UNCHANGED <<code, row, total, current>>
<1> USE DEF TypeInv, TypeOK
<1>1. /\ i.op = "connect" => FirstStep(i) = "insert"
      /\ i.op = "disconnect" => FirstStep(i) = "find"
      /\ i.op \in {"usage", "dashboard"} => FirstStep(i) \in {"count", "active"}
      /\ i.op \in {"connect", "disconnect", "usage", "dashboard"}
  BY DEF FirstStep, Order, Request
<1>2. /\ pc[r] = "idle"
      /\ pc' = [pc EXCEPT ![r] = FirstStep(i)] /\ req' = [req EXCEPT ![r] = i]
      /\ born' = [born EXCEPT ![r] = 0] /\ UNCHANGED <<code, row, total, current>>
  BY DEF Arrive
<1>3. FirstStep(i) \in Steps \ {"idle", "reload", "save", "reply"}
  BY <1>1 DEF Steps
<1>4. pc'[r] = FirstStep(i) /\ req'[r] = i
  BY <1>2
<1>5. \A q \in Slots \ {r} : pc'[q] = pc[q] /\ req'[q] = req[q] /\ row'[q] = row[q] /\ born'[q] = born[q]
  BY <1>2
<1>6. pc' \in [Slots -> Steps] /\ req' \in [Slots -> Request \cup {None}] /\ born' \in [Slots -> Nat]
  BY <1>2, <1>3
<1>7. Placed'
  <2> SUFFICES ASSUME NEW q \in Slots
               PROVE  /\ pc'[q] # "idle" => req'[q] \in Request
                      /\ pc'[q] \in {"insert", "reload"} => req'[q].op = "connect" /\ req'[q].user \in Users
                      /\ pc'[q] \in {"find", "save"} => req'[q].op = "disconnect"
                      /\ pc'[q] \in {"reload", "find", "save"} => req'[q].id \in Sessions
                      /\ pc'[q] = "save" => row'[q] \in Session
                      /\ pc'[q] \in {"count", "active"} => req'[q].op \in {"usage", "dashboard"}
    BY DEF Placed
  <2>1. CASE q = r
    BY <1>1, <1>3, <1>4, <2>1
  <2>2. CASE q # r
    BY <1>5, <2>2 DEF Placed
  <2> QED
    BY <2>1, <2>2
<1> QED
  BY <1>2, <1>3, <1>4, <1>5, <1>6, <1>7

\* A script's call is a request of its user, or is lost.
LEMMA CallStep ==
  ASSUME TypeInv, NEW u \in Users, NEW i \in Request, Call(u, i),
         i.op = "connect" => i.user \in Users,
         i.op = "disconnect" => i.id \in Sessions
  PROVE  \/ \E r \in Slots : Arrive(r, i) /\ waits' = [waits EXCEPT ![u] = r] /\ UNCHANGED disturbed
         \/ waits' = [waits EXCEPT ![u] = None] /\ disturbed' = TRUE /\ UNCHANGED server
BY DEF Call

\* The calls of the scripts, and of others, are requests.
LEMMA AskedIsRequest ==
  ASSUME NEW op \in {"connect", "disconnect", "usage", "dashboard"}, NEW u \in Users \cup {None},
         NEW s \in Sessions \cup {None}, NEW n \in Counts
  PROVE  /\ Asked(op, u, s, n) \in Request
         /\ Asked(op, u, s, n).op = op /\ Asked(op, u, s, n).user = u
         /\ Asked(op, u, s, n).id = s /\ Asked(op, u, s, n).bytes = n
BY DEF Asked, Request

LEMMA ZeroCounts == 0 \in Counts /\ Counts \subseteq Nat
BY BoundsAssumption DEF Counts

LEMMA TypeInit == Init => TypeInv
<1> SUFFICES ASSUME Init PROVE TypeInv
  OBVIOUS
<1>1. TypeOK
  BY ZeroCounts DEF Init, TypeOK, Steps, Codes, Stages
<1>2. Placed
  BY DEF Init, Placed
<1> QED
  BY <1>1, <1>2 DEF TypeInv

LEMMA TypeStep == TypeInv /\ [Next]_vars => TypeInv'
<1> SUFFICES ASSUME TypeInv, [Next]_vars PROVE TypeOK' /\ Placed'
  BY DEF TypeInv
<1> USE DEF TypeInv
<1>1. CASE UNCHANGED vars
  BY <1>1 DEF vars, server, scripts, TypeOK, Placed
<1>2. ASSUME NEW r \in Slots, Insert(r) PROVE TypeOK' /\ Placed'
  <2>1. PICK s \in Sessions : /\ rows' = [rows EXCEPT ![s] = Fresh(req[r].user)]
                              /\ req' = [req EXCEPT ![r].id = s]
    BY <1>2 DEF Insert
  <2>2. req[r] \in Request /\ req[r].op = "connect" /\ req[r].user \in Users /\ pc[r] = "insert"
    BY <1>2 DEF Insert, Placed
  <2>3. Fresh(req[r].user) \in Session
    BY <2>2, ZeroCounts DEF Fresh, Session
  <2>4. /\ [req[r] EXCEPT !.id = s] \in Request
        /\ [req[r] EXCEPT !.id = s].op = "connect" /\ [req[r] EXCEPT !.id = s].id = s
        /\ [req[r] EXCEPT !.id = s].user \in Users
    BY <2>2 DEF Request
  <2>5. req' = [req EXCEPT ![r] = [req[r] EXCEPT !.id = s]]
    BY <2>1
  <2>6. /\ pc' = [pc EXCEPT ![r] = "reload"]
        /\ born' = [q \in Slots |-> IF Between(q) THEN born[q] + 1 ELSE born[q]]
        /\ UNCHANGED <<code, row, total, current, scripts, given, disturbed>>
    BY <1>2 DEF Insert, Goto
  <2>7. TypeOK'
    BY <2>1, <2>3, <2>4, <2>5, <2>6 DEF TypeOK, Steps, scripts
  <2>8. Placed'
    BY <2>4, <2>5, <2>6 DEF Placed, TypeOK
  <2> QED
    BY <2>7, <2>8
<1>3. ASSUME NEW r \in Slots, Reload(r) PROVE TypeOK' /\ Placed'
  BY <1>3 DEF Reload, Reply, TypeOK, Placed, Steps, Codes, scripts
<1>4. ASSUME NEW r \in Slots, Find(r) PROVE TypeOK' /\ Placed'
  <2>1. CASE rows[req[r].id] = None /\ Reply(r, 404) /\ UNCHANGED row
    BY <1>4, <2>1 DEF Find, Reply, TypeOK, Placed, Steps, Codes, scripts
  <2>2. CASE /\ rows[req[r].id] # None /\ row' = [row EXCEPT ![r] = rows[req[r].id]]
             /\ Goto(r, "save")
    <3>1. pc[r] = "find" /\ req[r].id \in Sessions /\ req[r].op = "disconnect"
      BY <1>4 DEF Find, Placed
    <3>2. rows[req[r].id] \in Session
      BY <2>2, <3>1 DEF TypeOK
    <3> QED
      BY <1>4, <2>2, <3>1, <3>2 DEF Find, Goto, TypeOK, Placed, Steps, scripts
  <2> QED
    BY <1>4, <2>1, <2>2 DEF Find
<1>5. ASSUME NEW r \in Slots, Save(r) PROVE TypeOK' /\ Placed'
  <2>1. pc[r] = "save" /\ req[r] \in Request /\ req[r].id \in Sessions /\ row[r] \in Session
    BY <1>5 DEF Save, Placed
  <2>2. Disconnected(row[r], req[r]) \in Session
    BY <2>1 DEF Disconnected, Session, Request
  <2> QED
    BY <1>5, <2>1, <2>2 DEF Save, Reply, TypeOK, Placed, Steps, Codes, scripts
<1>6. ASSUME NEW r \in Slots, CountTotal(r) \/ CountActive(r) PROVE TypeOK' /\ Placed'
  <2>1. Cardinality(Rows) \in Nat /\ Cardinality(ActiveRows) \in Nat
    BY BoundsAssumption, FS_Subset, FS_CardinalityType DEF Rows, ActiveRows
  <2>2. req[r].op \in {"usage", "dashboard"}
    BY <1>6 DEF CountTotal, CountActive, Placed
  <2>3. \E step \in {"count", "active", "reply"} :
          pc' = [pc EXCEPT ![r] = step] /\ code' \in [Slots -> Codes]
    <3>1. CountNext(r)
      BY <1>6 DEF CountTotal, CountActive
    <3>2. Order(req[r].op)[2] \in {"count", "active"}
      BY DEF Order
    <3> QED
      BY <3>1, <3>2 DEF CountNext, Goto, Reply, TypeOK, Codes
  <2>4. /\ total' \in [Slots -> Nat] /\ current' \in [Slots -> Nat]
        /\ UNCHANGED <<rows, req, row, born, scripts, given, disturbed>>
    BY <1>6, <2>1 DEF CountTotal, CountActive, TypeOK
  <2>5. TypeOK'
    BY <2>3, <2>4 DEF TypeOK, Steps, scripts
  <2>6. Placed'
    <3>1. PICK step \in {"count", "active", "reply"} : pc' = [pc EXCEPT ![r] = step]
      BY <2>3
    <3>2. \A q \in Slots : pc'[q] = IF q = r THEN step ELSE pc[q]
      BY <3>1 DEF TypeOK
    <3>3. req' = req /\ row' = row
      BY <2>4
    <3>4. req[r] \in Request
      BY <1>6 DEF CountTotal, CountActive, Placed
    <3> QED
      BY <2>2, <3>2, <3>3, <3>4 DEF Placed
  <2> QED
    BY <2>5, <2>6
<1>7. ASSUME NEW r \in Slots, DbError(r) PROVE TypeOK' /\ Placed'
  BY <1>7 DEF DbError, Reply, FailCode, TypeOK, Placed, Steps, Codes, scripts
<1>8. ASSUME NEW r \in Slots, Cleared(r), UNCHANGED rows
      PROVE  /\ Placed' /\ pc' \in [Slots -> Steps] /\ req' \in [Slots -> Request \cup {None}]
             /\ code' \in [Slots -> Codes] /\ row' \in [Slots -> Session \cup {None}]
             /\ total' \in [Slots -> Nat] /\ current' \in [Slots -> Nat] /\ born' \in [Slots -> Nat]
  BY <1>8 DEF Cleared, TypeOK, Placed, Steps, Codes
<1>9. ASSUME NEW r \in Slots, Finish(r) PROVE TypeOK' /\ Placed'
  BY <1>8, <1>9 DEF Finish, TypeOK, scripts
<1>10. ASSUME NEW r \in Slots, NEW op \in {"usage", "dashboard"}, Watch(r, op)
       PROVE  TypeOK' /\ Placed'
  <2>1. /\ Asked(op, None, None, 0) \in Request
        /\ Asked(op, None, None, 0).op = op
    BY AskedIsRequest, ZeroCounts
  <2>2. Asked(op, None, None, 0).op \notin {"connect", "disconnect"}
    BY <2>1
  <2> QED
    BY <1>10, <2>1, <2>2, ArriveStep DEF Watch, TypeOK, scripts
<1>11. ASSUME NEW r \in Slots, NEW s \in Sessions, NEW n \in Counts, EndByOther(r, s, n)
       PROVE  TypeOK' /\ Placed'
  <2>1. /\ Asked("disconnect", None, s, n) \in Request
        /\ Asked("disconnect", None, s, n).op = "disconnect"
        /\ Asked("disconnect", None, s, n).id = s
    BY AskedIsRequest
  <2>2. given' \in [Sessions -> SUBSET Counts]
    BY <1>11 DEF EndByOther, TypeOK
  <2> QED
    BY <1>11, <2>1, <2>2, ArriveStep DEF EndByOther, TypeOK, scripts
<1>12. ASSUME NEW u \in Users, NEW i \in Request, Call(u, i),
              i.op = "connect" => i.user \in Users, i.op = "disconnect" => i.id \in Sessions
       PROVE  /\ Placed' \/ ~UNCHANGED rows
              /\ pc' \in [Slots -> Steps] /\ req' \in [Slots -> Request \cup {None}]
              /\ code' \in [Slots -> Codes] /\ row' \in [Slots -> Session \cup {None}]
              /\ total' \in [Slots -> Nat] /\ current' \in [Slots -> Nat] /\ born' \in [Slots -> Nat]
              /\ waits' \in [Users -> Slots \cup {None}] /\ disturbed' \in BOOLEAN
  <2>1. CASE \E r \in Slots : Arrive(r, i) /\ waits' = [waits EXCEPT ![u] = r] /\ UNCHANGED disturbed
    BY <1>12, <2>1, ArriveStep DEF TypeOK
  <2>2. CASE waits' = [waits EXCEPT ![u] = None] /\ disturbed' = TRUE /\ UNCHANGED server
    BY <2>2 DEF server, TypeOK, Placed
  <2> QED
    BY <1>12, <2>1, <2>2, CallStep
<1>13. ASSUME NEW u \in Users, CreateSession(u) PROVE TypeOK' /\ Placed'
  <2>1. /\ Asked("connect", u, None, 0) \in Request
        /\ Asked("connect", u, None, 0).op = "connect"
        /\ Asked("connect", u, None, 0).user = u
    BY AskedIsRequest, ZeroCounts
  <2> QED
    BY <1>12, <1>13, <2>1 DEF CreateSession, TypeOK, Stages
<1>14. ASSUME NEW u \in Users, Transfer(u) PROVE TypeOK' /\ Placed'
  <2>1. counted[u] + 1 \in Counts
    BY <1>14, BoundsAssumption DEF Transfer, Counts, TypeOK
  <2> QED
    BY <1>14, <2>1 DEF Transfer, server, TypeOK, Placed
<1>15. ASSUME NEW u \in Users, Disconnect(u) PROVE TypeOK' /\ Placed'
  <2>1. /\ stage' \in [Users -> Stages] /\ counted' \in [Users -> Counts]
        /\ counters' \in [Users -> SUBSET Counts] /\ UNCHANGED <<rows, file, begun, given>>
    BY <1>15, ZeroCounts DEF Disconnect, TypeOK, Stages
  <2>2. CASE file[u] = None /\ UNCHANGED <<server, waits, disturbed>>
    BY <2>1, <2>2 DEF server, TypeOK, Placed
  <2>3. CASE file[u] # None /\ Call(u, Asked("disconnect", u, file[u], counted[u]))
    <3>1. file[u] \in Sessions /\ counted[u] \in Counts
      BY <2>3 DEF TypeOK
    <3>2. /\ Asked("disconnect", u, file[u], counted[u]) \in Request
          /\ Asked("disconnect", u, file[u], counted[u]).op = "disconnect"
          /\ Asked("disconnect", u, file[u], counted[u]).id \in Sessions
      BY <3>1, AskedIsRequest
    <3> QED
      BY <1>12, <2>1, <2>3, <3>2 DEF TypeOK
  <2> QED
    BY <1>15, <2>2, <2>3 DEF Disconnect
<1>16. ASSUME NEW u \in Users, Connected(u) PROVE TypeOK' /\ Placed'
  <2>1. waits[u] \in Slots /\ pc[waits[u]] = "reply" /\ req[waits[u]] \in Request
    BY <1>16 DEF Connected, TypeOK, Placed
  <2>2. req[waits[u]].id \in Sessions \cup {None}
    BY <2>1 DEF Request
  <2>3. file' \in [Users -> Sessions \cup {None}]
    BY <1>16, <2>2 DEF Connected, TypeOK
  <2> QED
    BY <1>8, <1>16, <2>1, <2>3 DEF Connected, TypeOK, Stages
<1>17. ASSUME NEW u \in Users, Closed(u) PROVE TypeOK' /\ Placed'
  BY <1>8, <1>17 DEF Closed, TypeOK, Stages
<1>18. ASSUME NEW u \in Users, GiveUp(u) PROVE TypeOK' /\ Placed'
  BY <1>18 DEF GiveUp, server, TypeOK, Placed, Stages
<1>19. CASE ProcessRestart \/ HostRestart
  BY <1>19, ZeroCounts DEF ProcessRestart, HostRestart, TunnelsEnd, server, TypeOK, Placed, Stages
<1>20. CASE Crash
  BY <1>20 DEF Crash, TypeOK, Placed, Steps, Codes
<1>21. ASSUME NEW u \in Users, Connect(u) \/ TurnedAway(u) PROVE TypeOK' /\ Placed'
  BY <1>21 DEF Connect, TurnedAway, server, TypeOK, Placed, Stages
<1> QED
  BY <1>1, <1>2, <1>3, <1>4, <1>5, <1>6, <1>7, <1>9, <1>10, <1>11, <1>13, <1>14, <1>15, <1>16,
     <1>17, <1>18, <1>19, <1>20, <1>21 DEF Next, Serve, Script

LEMMA TypeAlways == Spec => []TypeInv
BY TypeInit, TypeStep, PTL DEF Spec

\* Every variable of the sessions keeps its type: a row is stored with a user of
\* its own and with counters whatever request is served late or twice.
THEOREM TypeCorrect == Spec => []TypeOK
BY TypeAlways, PTL DEF TypeInv

-----------------------------------------------------------------------------
(***************************************************************************)
(* What a step does to the table, and to one request.                      *)
(***************************************************************************)
Same(r) == /\ pc'[r] = pc[r] /\ req'[r] = req[r] /\ code'[r] = code[r] /\ row'[r] = row[r]
           /\ total'[r] = total[r] /\ current'[r] = current[r]

FromScript(i) ==
  \E u \in Users : /\ file[u] # None /\ i.id = file[u] /\ i.bytes = counted[u]
                   /\ counters' = [counters EXCEPT ![u] = @ \cup {counted[u]}]
FromOther(i) == i.bytes \in given'[i.id]

Arrived(r) ==
  /\ pc[r] = "idle" /\ pc'[r] \in {"insert", "find", "count", "active"}
  /\ pc'[r] \in {"count", "active"} => pc'[r] = Order(req'[r].op)[1]
  /\ pc'[r] = "insert" => \E u \in Users : CreateSession(u)
  /\ pc'[r] = "find" => FromScript(req'[r]) \/ FromOther(req'[r])

LEMMA ServeElsewhere ==
  ASSUME TypeInv, NEW q \in Slots, Serve(q)
  PROVE  \A r \in Slots \ {q} : Same(r)
<1> USE DEF TypeInv, TypeOK, Same
<1>1. CASE Insert(q)
  BY <1>1 DEF Insert, Goto
<1>2. CASE Reload(q)
  BY <1>2 DEF Reload, Reply
<1>3. CASE Find(q)
  BY <1>3 DEF Find, Goto, Reply
<1>4. CASE Save(q)
  BY <1>4 DEF Save, Reply
<1>5. CASE CountTotal(q)
  BY <1>5 DEF CountTotal, CountNext, Goto, Reply
<1>6. CASE CountActive(q)
  BY <1>6 DEF CountActive, CountNext, Goto, Reply
<1>7. CASE DbError(q)
  BY <1>7 DEF DbError, Reply
<1>8. CASE Finish(q)
  BY <1>8 DEF Finish, Cleared
<1> QED
  BY <1>1, <1>2, <1>3, <1>4, <1>5, <1>6, <1>7, <1>8 DEF Serve

LEMMA RequestSteps ==
  ASSUME TypeInv, [Next]_vars, NEW r \in Slots
  PROVE  Same(r) \/ pc'[r] = "idle" \/ Arrived(r) \/ Serve(r)
<1> USE DEF TypeInv
<1>1. CASE UNCHANGED vars
  BY <1>1 DEF vars, server, Same
<1>2. ASSUME NEW q \in Slots, Serve(q) PROVE Same(r) \/ Serve(r)
  BY <1>2, ServeElsewhere
<1>3. ASSUME NEW q \in Slots, NEW op \in {"usage", "dashboard"}, Watch(q, op)
      PROVE  Same(r) \/ Arrived(r)
  <2>6. /\ Asked(op, None, None, 0) \in Request
        /\ Asked(op, None, None, 0).op = op
    BY AskedIsRequest, ZeroCounts
  <2>7. Arrive(q, Asked(op, None, None, 0))
    BY <1>3 DEF Watch
  <2>1. /\ Asked(op, None, None, 0) \in Request
        /\ Asked(op, None, None, 0).op = op
        /\ Arrive(q, Asked(op, None, None, 0))
    BY <2>6, <2>7
  <2>2. FirstStep(Asked(op, None, None, 0)) = Order(op)[1]
    BY <2>1 DEF FirstStep
  <2>3. Order(op)[1] \in {"count", "active"}
    BY DEF Order
  <2>4. CASE r = q
    BY <2>1, <2>2, <2>3, <2>4, ArriveStep DEF Arrived
  <2>5. CASE r # q
    BY <2>1, <2>5, ArriveStep DEF Same
  <2> QED
    BY <2>4, <2>5
<1>4. ASSUME NEW q \in Slots, NEW s \in Sessions, NEW n \in Counts, EndByOther(q, s, n)
      PROVE  Same(r) \/ Arrived(r)
  <2> DEFINE i == Asked("disconnect", None, s, n)
  <2>1. i \in Request /\ i.op = "disconnect" /\ i.id = s /\ i.bytes = n
    BY AskedIsRequest
  <2>2. Arrive(q, i) /\ n \in given'[s]
    BY <1>4 DEF EndByOther, TypeOK
  <2>3. FirstStep(i) = "find" /\ FromOther(i)
    BY <2>1, <2>2 DEF FirstStep, FromOther
  <2> HIDE DEF i
  <2> QED
    BY <2>1, <2>2, <2>3, ArriveStep DEF Same, Arrived
<1>5. ASSUME NEW u \in Users, CreateSession(u) PROVE Same(r) \/ Arrived(r)
  <2>1. /\ Asked("connect", u, None, 0) \in Request
        /\ Asked("connect", u, None, 0).op = "connect"
        /\ Asked("connect", u, None, 0).user = u
        /\ Call(u, Asked("connect", u, None, 0))
    BY <1>5, AskedIsRequest, ZeroCounts DEF CreateSession
  <2>2. FirstStep(Asked("connect", u, None, 0)) = "insert"
    BY <2>1 DEF FirstStep
  <2>3. CASE UNCHANGED server
    BY <2>3 DEF server, Same
  <2> DEFINE i == Asked("connect", u, None, 0)
  <2>4. i.op # "disconnect" /\ i.op = "connect" /\ i.user \in Users /\ i \in Request
        /\ FirstStep(i) = "insert" /\ Call(u, i)
    BY <2>1, <2>2
  <2> HIDE DEF i
  <2>5. ASSUME NEW q \in Slots, Arrive(q, i) PROVE Same(r) \/ Arrived(r)
    BY <1>5, <2>4, <2>5, ArriveStep DEF Same, Arrived
  <2> QED
    BY <2>3, <2>4, <2>5, CallStep
<1>6. ASSUME NEW u \in Users, Disconnect(u) PROVE Same(r) \/ Arrived(r)
  <2>1. CASE UNCHANGED server
    BY <2>1 DEF server, Same
  <2>2. CASE file[u] # None /\ Call(u, Asked("disconnect", u, file[u], counted[u]))
    <3>1. file[u] \in Sessions /\ counted[u] \in Counts
      BY <2>2 DEF TypeOK
    <3> DEFINE i == Asked("disconnect", u, file[u], counted[u])
    <3>2. /\ i \in Request /\ i.op = "disconnect" /\ i.id = file[u] /\ i.bytes = counted[u]
      BY <3>1, AskedIsRequest
    <3>3. FirstStep(i) = "find"
      BY <3>2 DEF FirstStep
    <3>4. FromScript(i)
      BY <1>6, <2>2, <3>2 DEF Disconnect, FromScript
    <3> HIDE DEF i
    <3>5. ASSUME NEW q \in Slots, Arrive(q, i) PROVE Same(r) \/ Arrived(r)
      BY <3>1, <3>2, <3>3, <3>4, <3>5, ArriveStep DEF Same, Arrived
    <3> QED
      BY <2>1, <2>2, <3>1, <3>2, <3>5, CallStep DEF i
  <2> QED
    BY <1>6, <2>1, <2>2 DEF Disconnect
<1>7. ASSUME NEW u \in Users, Connected(u) \/ Closed(u) PROVE Same(r) \/ pc'[r] = "idle"
  BY <1>7 DEF Connected, Closed, Cleared, Same, TypeOK
<1>8. ASSUME NEW u \in Users, Connect(u) \/ TurnedAway(u) \/ Transfer(u) \/ GiveUp(u) PROVE Same(r)
  BY <1>8 DEF Connect, TurnedAway, Transfer, GiveUp, server, Same
<1>9. CASE ProcessRestart \/ HostRestart
  BY <1>9 DEF ProcessRestart, HostRestart, TunnelsEnd, server, Same
<1>10. CASE Crash
  BY <1>10 DEF Crash
<1> QED
  BY <1>1, <1>2, <1>3, <1>4, <1>5, <1>6, <1>7, <1>8, <1>9, <1>10 DEF Next, Script

\* The table changes by the INSERT of a connect and by the UPDATE of a disconnect.
LEMMA RowSteps ==
  ASSUME TypeInv, [Next]_vars
  PROVE  \/ UNCHANGED rows
         \/ \E q \in Slots : Insert(q) \/ Save(q)
<1>1. ASSUME NEW q \in Slots, Serve(q)
      PROVE  UNCHANGED rows \/ Insert(q) \/ Save(q)
  BY <1>1 DEF Serve, Reload, Find, CountTotal, CountActive, DbError, Finish
<1>2. ASSUME NEW q \in Slots, NEW op \in {"usage", "dashboard"}, Watch(q, op) PROVE UNCHANGED rows
  BY <1>2 DEF Watch
<1>3. ASSUME NEW q \in Slots, NEW s \in Sessions, NEW n \in Counts, EndByOther(q, s, n)
      PROVE  UNCHANGED rows
  BY <1>3 DEF EndByOther
<1>4. ASSUME NEW u \in Users, Connect(u) \/ Transfer(u) \/ Disconnect(u) \/ Script(u)
      PROVE  UNCHANGED rows
  BY <1>4 DEF Connect, Transfer, Disconnect, Script, TurnedAway, CreateSession, Connected, Closed, GiveUp
<1>5. CASE ProcessRestart \/ HostRestart \/ Crash \/ UNCHANGED vars
  BY <1>5 DEF ProcessRestart, HostRestart, TunnelsEnd, Crash, vars
<1> QED
  BY <1>1, <1>2, <1>3, <1>4, <1>5 DEF Next

-----------------------------------------------------------------------------
(***************************************************************************)
(* A row stays with its user, and once ended stays ended: what is not      *)
(* inductive in AnswersHold is that the row which a disconnect writes back *)
(* still belongs to the user that it read.                                 *)
(***************************************************************************)
Stored(r) == /\ req[r].op = "connect" /\ req[r].id \in Sessions
             /\ rows[req[r].id] # None /\ rows[req[r].id].user = req[r].user
EndedFor(r) == req[r].id \in Sessions /\ rows[req[r].id] # None /\ ~rows[req[r].id].active
Held(r) == rows[req[r].id] # None /\ row[r].user = rows[req[r].id].user

Kept ==
  \A r \in Slots :
    /\ pc[r] = "reload" => Stored(r)
    /\ pc[r] = "save" => Held(r)
    /\ pc[r] = "reply" /\ code[r] = 201 => Stored(r)
    /\ pc[r] = "reply" /\ code[r] = 200 /\ req[r].op = "disconnect" => EndedFor(r)

Persists(s) ==
  rows[s] # None => /\ rows'[s] # None /\ rows'[s].user = rows[s].user
                    /\ ~rows[s].active => ~rows'[s].active

\* A row is a record, and None is none.
LEMMA RowFields ==
  ASSUME TypeOK, NEW s \in Sessions, rows[s] # None
  PROVE  rows[s] \in Session
BY DEF TypeOK

\* What the UPDATE of a disconnect leaves in the row.
LEMMA SaveStep ==
  ASSUME TypeInv, Kept, NEW r \in Slots, Save(r)
  PROVE  /\ pc[r] = "save" /\ pc'[r] = "reply" /\ code'[r] = 200 /\ req' = req
         /\ req[r] \in Request /\ req[r].id \in Sessions /\ rows[req[r].id] \in Session
         /\ rows'[req[r].id] \in Session /\ rows'[req[r].id] # None
         /\ rows'[req[r].id].user = rows[req[r].id].user /\ ~rows'[req[r].id].active
         /\ rows'[req[r].id].bytes = req[r].bytes
         /\ \A s \in Sessions \ {req[r].id} : rows'[s] = rows[s]
<1> DEFINE s == req[r].id
<1>1. /\ pc[r] = "save" /\ req' = req /\ pc'[r] = "reply" /\ code'[r] = 200
      /\ rows' = [rows EXCEPT ![s] = Disconnected(row[r], req[r])]
  BY DEF Save, Reply, TypeInv, TypeOK
<1>2. req[r] \in Request /\ s \in Sessions /\ row[r] \in Session /\ rows[s] # None
      /\ row[r].user = rows[s].user
  BY <1>1 DEF TypeInv, Placed, Kept, Held
<1>3. rows[s] \in Session
  BY <1>2, RowFields DEF TypeInv
<1> DEFINE d == Disconnected(row[r], req[r])
<1>4. d = [row[r] EXCEPT !.active = FALSE, !.bytes = req[r].bytes]
  BY DEF Disconnected
<1>5. d \in Session /\ d.user = row[r].user /\ ~d.active /\ d.bytes = req[r].bytes
  <2>1. req[r].bytes \in Counts
    BY <1>2 DEF Request
  <2> HIDE DEF d
  <2> QED
    BY <1>2, <1>4, <2>1 DEF Session
<1>6. d # None
  BY <1>5, MarkAssumption
<1>7. /\ rows'[s] = d
      /\ \A t \in Sessions \ {s} : rows'[t] = rows[t]
  BY <1>1, <1>2 DEF TypeInv, TypeOK
<1> HIDE DEF d
<1> QED
  BY <1>1, <1>2, <1>3, <1>5, <1>6, <1>7

\* What the INSERT of a connect adds.
LEMMA InsertStep ==
  ASSUME TypeInv, NEW r \in Slots, Insert(r)
  PROVE  /\ pc[r] = "insert" /\ pc'[r] = "reload" /\ req[r].user \in Users
         /\ req'[r].op = "connect" /\ req'[r].user = req[r].user
         /\ \E s \in Sessions :
              /\ rows[s] = None /\ req'[r].id = s
              /\ rows'[s] = Fresh(req[r].user) /\ rows'[s] \in Session /\ rows'[s] # None
              /\ rows'[s].user = req[r].user /\ rows'[s].active
              /\ rows'[s].bytes = 0
              /\ \A t \in Sessions \ {s} : rows'[t] = rows[t]
<1>1. PICK s \in Sessions : /\ rows[s] = None
                            /\ rows' = [rows EXCEPT ![s] = Fresh(req[r].user)]
                            /\ req' = [req EXCEPT ![r].id = s]
  BY DEF Insert
<1>2. /\ pc[r] = "insert" /\ pc'[r] = "reload" /\ req[r].user \in Users
      /\ req[r].op = "connect" /\ req[r] \in Request
  BY DEF Insert, Goto, TypeInv, TypeOK, Placed
<1>3. req'[r] = [req[r] EXCEPT !.id = s]
  BY <1>1 DEF TypeInv, TypeOK
<1>4. req'[r].id = s /\ req'[r].op = "connect" /\ req'[r].user = req[r].user
  BY <1>2, <1>3 DEF Request
<1>5. Fresh(req[r].user) \in Session
  BY <1>2, ZeroCounts DEF Fresh, Session
<1>6. Fresh(req[r].user) # None
  BY <1>5, MarkAssumption
<1>7. /\ Fresh(req[r].user).user = req[r].user /\ Fresh(req[r].user).active
      /\ Fresh(req[r].user).bytes = 0
  BY DEF Fresh
<1> QED
  BY <1>1, <1>2, <1>4, <1>5, <1>6, <1>7 DEF TypeInv, TypeOK

LEMMA RowsPersist ==
  ASSUME TypeInv, Kept, [Next]_vars
  PROVE  \A s \in Sessions : Persists(s)
<1>1. CASE UNCHANGED rows
  BY <1>1 DEF Persists
<1>2. ASSUME NEW q \in Slots, Insert(q) PROVE \A s \in Sessions : Persists(s)
  <2>1. PICK s \in Sessions : /\ rows[s] = None
                              /\ \A t \in Sessions \ {s} : rows'[t] = rows[t]
    BY <1>2, InsertStep
  <2> QED
    BY <2>1 DEF Persists
<1>3. ASSUME NEW q \in Slots, Save(q) PROVE \A s \in Sessions : Persists(s)
  <2>1. /\ \A t \in Sessions \ {req[q].id} : rows'[t] = rows[t]
        /\ rows'[req[q].id] # None /\ rows'[req[q].id].user = rows[req[q].id].user
        /\ ~rows'[req[q].id].active
    BY <1>3, SaveStep
  <2> QED
    BY <2>1 DEF Persists
<1> QED
  BY <1>1, <1>2, <1>3, RowSteps

LEMMA KeptStep == TypeInv /\ TypeInv' /\ Kept /\ [Next]_vars => Kept'
<1> SUFFICES ASSUME TypeInv, TypeInv', Kept, [Next]_vars, NEW r \in Slots
             PROVE  /\ pc'[r] = "reload" => Stored(r)'
                    /\ pc'[r] = "save" => Held(r)'
                    /\ pc'[r] = "reply" /\ code'[r] = 201 => Stored(r)'
                    /\ pc'[r] = "reply" /\ code'[r] = 200 /\ req'[r].op = "disconnect" => EndedFor(r)'
  BY DEF Kept
<1>1. \A s \in Sessions : Persists(s)
  BY RowsPersist
<1>2. CASE Same(r)
  <2>1. pc[r] = "save" => req[r].id \in Sessions
    BY DEF TypeInv, Placed
  <2> QED
    BY <1>1, <1>2, <2>1 DEF Same, Kept, Stored, Held, EndedFor, Persists
<1>3. CASE pc'[r] = "idle" \/ Arrived(r)
  BY <1>3 DEF Arrived
<1>4. CASE Insert(r)
  <2>1. /\ pc'[r] = "reload" /\ req'[r].op = "connect" /\ req'[r].user = req[r].user
        /\ \E s \in Sessions : /\ req'[r].id = s /\ rows'[s] # None
                               /\ rows'[s].user = req[r].user
    BY <1>4, InsertStep
  <2>2. Stored(r)'
    BY <2>1 DEF Stored
  <2> QED
    BY <2>1, <2>2
<1>5. CASE Reload(r)
  BY <1>5 DEF Reload, Reply, Kept, Stored, TypeInv, TypeOK, Placed
<1>6. CASE Find(r)
  BY <1>6 DEF Find, Goto, Reply, Held, TypeInv, TypeOK, Placed
<1>7. CASE Save(r)
  <2>1. /\ pc'[r] = "reply" /\ code'[r] = 200 /\ req' = req /\ req[r].id \in Sessions
        /\ rows'[req[r].id] # None /\ ~rows'[req[r].id].active
    BY <1>7, SaveStep
  <2>2. EndedFor(r)'
    BY <2>1 DEF EndedFor
  <2> QED
    BY <2>1, <2>2
<1>8. CASE CountTotal(r) \/ CountActive(r)
  <2>1. req[r].op \in {"usage", "dashboard"} /\ req' = req
    BY <1>8 DEF CountTotal, CountActive, TypeInv, Placed
  <2>2. pc'[r] \in {"count", "active"} \/ (pc'[r] = "reply" /\ code'[r] = 200)
    BY <1>8 DEF CountTotal, CountActive, CountNext, Goto, Reply, Order, TypeInv, TypeOK
  <2> QED
    BY <2>1, <2>2
<1>9. CASE DbError(r)
  BY <1>9 DEF DbError, Reply, FailCode, TypeInv, TypeOK
<1>10. CASE Finish(r)
  BY <1>10 DEF Finish, Cleared, TypeInv, TypeOK
<1> QED
  BY <1>2, <1>3, <1>4, <1>5, <1>6, <1>7, <1>8, <1>9, <1>10, RequestSteps DEF Serve

LEMMA KeptAlways == Spec => [](TypeInv /\ Kept)
<1>1. Init => Kept
  BY DEF Init, Kept
<1> QED
  BY <1>1, TypeInit, TypeStep, KeptStep, PTL DEF Spec

\* The answers of the manager hold, for any number of requests served late, twice
\* or not at all.
THEOREM AnswersTrue == Spec => []AnswersHold
<1>1. TypeInv /\ Kept => AnswersHold
  BY DEF Kept, Stored, EndedFor, AnswersHold
<1> QED
  BY <1>1, KeptAlways, PTL

-----------------------------------------------------------------------------
(***************************************************************************)
(* The refinement: the INSERT begins a session, the UPDATE ends it or      *)
(* amends one that has ended, every other step is a stutter.               *)
(***************************************************************************)
LEMMA LoggedAfter ==
  ASSUME NEW s \in Sessions, \A t \in Sessions \ {s} : rows'[t] = rows[t], rows'[s] # None
  PROVE  Logged' = [Logged EXCEPT ![s] = [user |-> rows'[s].user, ended |-> ~rows'[s].active,
                                          bytes |-> rows'[s].bytes]]
BY DEF Logged

LEMMA LedgerStep == TypeInv /\ Kept /\ [Next]_vars => [Ledger!Next]_Logged
<1> SUFFICES ASSUME TypeInv, Kept, [Next]_vars PROVE Ledger!Next \/ UNCHANGED Logged
  OBVIOUS
<1>1. CASE UNCHANGED rows
  BY <1>1 DEF Logged
<1>2. ASSUME NEW q \in Slots, Insert(q) PROVE Ledger!Next
  <2>1. PICK s \in Sessions :
          /\ rows[s] = None /\ rows'[s] # None /\ rows'[s].user \in Users
          /\ rows'[s].active /\ rows'[s].bytes = 0
          /\ \A t \in Sessions \ {s} : rows'[t] = rows[t]
    BY <1>2, InsertStep
  <2>2. Logged' = [Logged EXCEPT ![s] = [user |-> rows'[s].user, ended |-> ~rows'[s].active,
                                         bytes |-> rows'[s].bytes]]
    BY <2>1, LoggedAfter
  <2>3. (~rows'[s].active) = FALSE
    BY <2>1
  <2>4. Logged' = [Logged EXCEPT ![s] = [user |-> rows'[s].user, ended |-> FALSE, bytes |-> 0]]
    BY <2>1, <2>2, <2>3
  <2>5. Logged[s] = None
    BY <2>1 DEF Logged
  <2>6. Ledger!Begin(s, rows'[s].user)
    BY <2>4, <2>5, ZeroCounts DEF Ledger!Begin
  <2> QED
    BY <2>1, <2>6 DEF Ledger!Next
<1>3. ASSUME NEW q \in Slots, Save(q) PROVE Ledger!Next
  <2> DEFINE s == req[q].id
             u == rows[s].user
             n == req[q].bytes
  <2>1. /\ req[q] \in Request /\ s \in Sessions /\ rows[s] \in Session /\ rows'[s] # None
        /\ rows'[s].user = u /\ ~rows'[s].active /\ rows'[s].bytes = n
        /\ \A t \in Sessions \ {s} : rows'[t] = rows[t]
    BY <1>3, SaveStep
  <2>2. n \in Counts /\ rows[s] # None
    BY <2>1, MarkAssumption DEF Request
  <2>3. Logged' = [Logged EXCEPT ![s] = [user |-> rows'[s].user, ended |-> ~rows'[s].active,
                                         bytes |-> rows'[s].bytes]]
    BY <2>1, LoggedAfter
  <2>4. (~rows'[s].active) = TRUE
    BY <2>1
  <2>5. Logged' = [Logged EXCEPT ![s] = [user |-> u, ended |-> TRUE, bytes |-> n]]
    BY <2>1, <2>3, <2>4
  <2>6. Logged[s] = [user |-> u, ended |-> ~rows[s].active, bytes |-> rows[s].bytes]
    BY <2>1, <2>2 DEF Logged
  <2>7. Logged[s].user = u /\ Logged[s].ended = ~rows[s].active
    BY <2>6
  <2>8. Logged[s] # None
    <3>1. Logged[s] \in Ledger!Entry
      BY <2>1, <2>6 DEF Session, Ledger!Entry
    <3> QED
      BY <3>1, EntryAssumption
  <2>9. Ledger!End(s, n) \/ Ledger!Amend(s, n)
    BY <2>5, <2>7, <2>8 DEF Ledger!End, Ledger!Amend, Ledger!Active, Ledger!Ended
  <2> QED
    BY <2>1, <2>2, <2>9 DEF Ledger!Next
<1> QED
  BY <1>1, <1>2, <1>3, RowSteps

\* The sessions implement the ledger, for any number of tunnels, users and requests:
\* a session never becomes active again and never changes its user.
THEOREM SessionsImplementLedger == Spec => ImplementsLedger
<1>1. Init => Ledger!Init
  BY DEF Init, Ledger!Init, Logged
<1> QED
  BY <1>1, LedgerStep, KeptAlways, PTL DEF Spec, ImplementsLedger, Ledger!Spec

-----------------------------------------------------------------------------
(***************************************************************************)
(* Counts read by two statements: rows only come, so that what was counted *)
(* first is no more than the table holds afterwards.                       *)
(***************************************************************************)
Counted ==
  \A r \in Slots :
    /\ req[r].op = "dashboard" /\ pc[r] = "count" => current[r] <= Cardinality(Rows)
    /\ req[r].op = "usage" /\ pc[r] = "active" => Cardinality(Rows) <= total[r] + born[r]
    /\ req[r].op = "dashboard" /\ pc[r] = "reply" /\ code[r] = 200 => current[r] <= total[r]
    /\ req[r].op = "usage" /\ pc[r] = "reply" /\ code[r] = 200 => current[r] <= total[r] + born[r]

LEMMA RowsFinite ==
  /\ IsFiniteSet(Rows) /\ IsFiniteSet(ActiveRows)
  /\ Cardinality(Rows) \in Nat /\ Cardinality(ActiveRows) \in Nat
  /\ Cardinality(ActiveRows) <= Cardinality(Rows)
<1>1. Rows \in SUBSET Sessions /\ ActiveRows \in SUBSET Rows
  BY DEF Rows, ActiveRows
<1> QED
  BY <1>1, BoundsAssumption, FS_Subset, FS_CardinalityType

\* The table never shrinks, and grows by one with an INSERT.
LEMMA RowsGrow ==
  ASSUME TypeInv, Kept, [Next]_vars
  PROVE  /\ Cardinality(Rows) <= Cardinality(Rows')
         /\ Cardinality(Rows') \in Nat
         /\ \/ Cardinality(Rows') = Cardinality(Rows)
            \/ /\ \E q \in Slots : Insert(q)
               /\ Cardinality(Rows') = Cardinality(Rows) + 1
<1>1. CASE UNCHANGED rows
  <2>1. Rows' = Rows
    BY <1>1 DEF Rows
  <2> QED
    BY <2>1, RowsFinite
<1>2. ASSUME NEW q \in Slots, Insert(q)
      PROVE  Cardinality(Rows') = Cardinality(Rows) + 1
  <2>1. PICK s \in Sessions : /\ rows[s] = None /\ rows'[s] # None
                              /\ \A t \in Sessions \ {s} : rows'[t] = rows[t]
    BY <1>2, InsertStep
  <2>2. Rows' = Rows \cup {s} /\ s \notin Rows
    BY <2>1 DEF Rows
  <2> QED
    BY <2>2, RowsFinite, FS_AddElement
<1>3. ASSUME NEW q \in Slots, Save(q) PROVE Cardinality(Rows') = Cardinality(Rows)
  <2>1. /\ \A t \in Sessions \ {req[q].id} : rows'[t] = rows[t]
        /\ rows'[req[q].id] # None /\ rows[req[q].id] # None
    BY <1>3, SaveStep, MarkAssumption
  <2>2. Rows' = Rows
    BY <2>1 DEF Rows
  <2> QED
    BY <2>2
<1> QED
  BY <1>1, <1>2, <1>3, RowSteps, RowsFinite

\* The observer of a request at work changes only with an INSERT.
LEMMA BornStep ==
  ASSUME TypeInv, [Next]_vars, NEW r \in Slots, Same(r), pc[r] # "idle"
  PROVE  /\ born'[r] = born[r] \/ born'[r] = born[r] + 1
         /\ (\E q \in Slots : Insert(q)) /\ Between(r) => born'[r] = born[r] + 1
<1> USE DEF TypeInv, TypeOK, Same
<1>1. CASE UNCHANGED vars
  BY <1>1 DEF vars, server, Insert, Goto
<1>2. ASSUME NEW q \in Slots, Insert(q)
      PROVE  born'[r] = born[r] \/ born'[r] = born[r] + 1
  BY <1>2 DEF Insert
<1>3. ASSUME NEW q \in Slots, Serve(q)
      PROVE  born'[r] = born[r] \/ born'[r] = born[r] + 1
  <2>1. CASE Finish(q)
    BY <2>1 DEF Finish, Cleared
  <2> QED
    BY <1>2, <1>3, <2>1 DEF Serve, Reload, Find, Save, CountTotal, CountActive, DbError
<1>4. ASSUME NEW q \in Slots, NEW i, Arrive(q, i) PROVE born'[r] = born[r]
  BY <1>4 DEF Arrive
<1>5. ASSUME NEW u \in Users, NEW i, Call(u, i) PROVE born'[r] = born[r]
  BY <1>4, <1>5 DEF Call, server
<1>6. ASSUME NEW u \in Users, Connect(u) \/ Transfer(u) \/ Disconnect(u) \/ CreateSession(u)
      PROVE  born'[r] = born[r]
  <2>1. CASE UNCHANGED server
    BY <2>1 DEF server
  <2> QED
    BY <1>5, <1>6, <2>1 DEF Connect, Transfer, Disconnect, CreateSession
<1>7. ASSUME NEW u \in Users, Script(u) PROVE born'[r] = born[r]
  BY <1>6, <1>7 DEF Script, TurnedAway, Connected, Closed, GiveUp, Cleared, server
<1>8. ASSUME NEW q \in Slots, Watch(q, "usage") \/ Watch(q, "dashboard")
                              \/ \E s \in Sessions, n \in Counts : EndByOther(q, s, n)
      PROVE  born'[r] = born[r]
  BY <1>4, <1>8 DEF Watch, EndByOther
<1>9. ProcessRestart \/ HostRestart => born'[r] = born[r]
  BY DEF ProcessRestart, HostRestart, TunnelsEnd, server
<1>10. ~Crash
  BY DEF Crash
<1>11. born'[r] = born[r] \/ born'[r] = born[r] + 1
  BY <1>1, <1>3, <1>6, <1>7, <1>8, <1>9, <1>10 DEF Next
<1>12. ASSUME NEW q \in Slots, Insert(q), Between(r) PROVE born'[r] = born[r] + 1
  BY <1>12 DEF Insert
<1> QED
  BY <1>11, <1>12

LEMMA CountedStep == TypeInv /\ TypeInv' /\ Kept /\ Counted /\ [Next]_vars => Counted'
<1> SUFFICES ASSUME TypeInv, TypeInv', Kept, Counted, [Next]_vars, NEW r \in Slots
             PROVE  /\ req'[r].op = "dashboard" /\ pc'[r] = "count" => current'[r] <= Cardinality(Rows')
                    /\ req'[r].op = "usage" /\ pc'[r] = "active" => Cardinality(Rows') <= total'[r] + born'[r]
                    /\ req'[r].op = "dashboard" /\ pc'[r] = "reply" /\ code'[r] = 200 => current'[r] <= total'[r]
                    /\ req'[r].op = "usage" /\ pc'[r] = "reply" /\ code'[r] = 200 =>
                         current'[r] <= total'[r] + born'[r]
  BY DEF Counted
<1>a. /\ total[r] \in Nat /\ current[r] \in Nat /\ born[r] \in Nat
      /\ total'[r] \in Nat /\ current'[r] \in Nat /\ born'[r] \in Nat
      /\ Cardinality(Rows) \in Nat /\ Cardinality(Rows') \in Nat
      /\ Cardinality(Rows) <= Cardinality(Rows')
  BY RowsFinite, RowsGrow DEF TypeInv, TypeOK
<1>1. CASE Same(r) /\ pc[r] = "idle"
  BY <1>1 DEF Same
<1>2. CASE Same(r) /\ pc[r] # "idle"
  <2>1. born'[r] >= born[r]
    BY <1>a, <1>2, BornStep
  <2>2. req'[r].op = "usage" /\ pc'[r] = "active" => Cardinality(Rows') <= total'[r] + born'[r]
    <3> SUFFICES ASSUME req[r].op = "usage", pc[r] = "active"
                 PROVE  Cardinality(Rows') <= total[r] + born'[r]
      BY <1>2 DEF Same
    <3>1. Between(r) /\ Cardinality(Rows) <= total[r] + born[r]
      BY DEF Between, Counted
    <3>2. CASE Cardinality(Rows') = Cardinality(Rows)
      BY <1>a, <2>1, <3>1, <3>2
    <3>3. CASE /\ \E q \in Slots : Insert(q)
               /\ Cardinality(Rows') = Cardinality(Rows) + 1
      <4>1. born'[r] = born[r] + 1
        BY <1>2, <3>1, <3>3, BornStep
      <4> QED
        BY <1>a, <3>1, <3>3, <4>1
    <3> QED
      BY <3>2, <3>3, RowsGrow
  <2> QED
    BY <1>a, <1>2, <2>1, <2>2 DEF Same, Counted
<1>3. CASE pc'[r] = "idle"
  BY <1>3
<1>4. CASE Arrived(r)
  BY <1>4 DEF Arrived, Order
<1>5. CASE Insert(r) \/ Reload(r) \/ Find(r) \/ Save(r)
  <2>1. req[r].op \in {"connect", "disconnect"} /\ req[r] \in Request
    BY <1>5 DEF Insert, Reload, Find, Save, TypeInv, Placed
  <2>2. req'[r].op = req[r].op
    BY <1>5, <2>1, InsertStep DEF Reload, Find, Save, Insert, TypeInv, Placed
  <2> QED
    BY <2>1, <2>2
<1>6. CASE CountTotal(r)
  <2>1. /\ pc[r] = "count" /\ total'[r] = Cardinality(Rows) /\ req' = req /\ current' = current
        /\ born' = born /\ rows' = rows /\ CountNext(r)
    BY <1>6 DEF CountTotal, TypeInv, TypeOK
  <2>2. Rows' = Rows
    BY <2>1 DEF Rows
  <2>3. CASE req[r].op = "usage"
    <3>1. pc'[r] = "active"
      BY <2>1, <2>3 DEF CountNext, Goto, Order, TypeInv, TypeOK
    <3> QED
      BY <1>a, <2>1, <2>2, <2>3, <3>1
  <2>4. CASE req[r].op # "usage"
    <3>1. pc'[r] = "reply"
      BY <2>1, <2>4 DEF CountNext, Reply, Order, TypeInv, TypeOK
    <3> QED
      BY <1>a, <2>1, <2>4, <3>1 DEF Counted
  <2> QED
    BY <2>3, <2>4
<1>7. CASE CountActive(r)
  <2>1. /\ pc[r] = "active" /\ current'[r] = Cardinality(ActiveRows) /\ req' = req /\ total' = total
        /\ born' = born /\ rows' = rows /\ CountNext(r)
    BY <1>7 DEF CountActive, TypeInv, TypeOK
  <2>2. Rows' = Rows /\ Cardinality(ActiveRows) <= Cardinality(Rows) /\ Cardinality(ActiveRows) \in Nat
    BY <2>1, RowsFinite DEF Rows
  <2>3. CASE req[r].op = "usage"
    <3>1. pc'[r] = "reply"
      BY <2>1, <2>3 DEF CountNext, Reply, Order, TypeInv, TypeOK
    <3> QED
      BY <1>a, <2>1, <2>2, <2>3, <3>1 DEF Counted
  <2>4. CASE req[r].op # "usage"
    <3>1. pc'[r] = "count"
      BY <2>1, <2>4 DEF CountNext, Goto, Order, TypeInv, TypeOK
    <3> QED
      BY <1>a, <2>1, <2>2, <2>4, <3>1
  <2> QED
    BY <2>3, <2>4
<1>8. CASE DbError(r)
  BY <1>8 DEF DbError, Reply, FailCode, TypeInv, TypeOK
<1>9. CASE Finish(r)
  BY <1>9 DEF Finish, Cleared, TypeInv, TypeOK
<1> QED
  BY <1>1, <1>2, <1>3, <1>4, <1>5, <1>6, <1>7, <1>8, <1>9, RequestSteps DEF Serve

\* The two counts of an answer agree as far as their order allows, for any number of
\* sessions that come and go between the statements.
THEOREM AnswersCount == Spec => []CountsAgree
<1>1. Init => Counted
  BY DEF Init, Counted
<1>2. Counted => CountsAgree
  BY DEF Counted, CountsAgree
<1> QED
  BY <1>1, <1>2, CountedStep, TypeStep, KeptAlways, PTL DEF Spec

-----------------------------------------------------------------------------
(***************************************************************************)
(* The counters of an ended session are those of a tunnel of its user, or  *)
(* given for it by another caller.  That rests on whose answer a script    *)
(* takes: a request that a script waits for is its own, so that the file   *)
(* names a session of its user.                                            *)
(***************************************************************************)
Waits ==
  /\ \A u \in Users :
       waits[u] # None =>
         /\ pc[waits[u]] # "idle"
         /\ stage[u] = "connecting" => req[waits[u]].op = "connect" /\ req[waits[u]].user = u
  /\ \A u, v \in Users : waits[u] # None /\ waits[u] = waits[v] => u = v

Files == \A u \in Users : file[u] # None => rows[file[u]] # None /\ rows[file[u]].user = u

Reported ==
  \A r \in Slots :
    pc[r] \in {"find", "save"} =>
      \/ rows[req[r].id] # None /\ req[r].bytes \in counters[rows[req[r].id].user]
      \/ req[r].bytes \in given[req[r].id]

\* A request that is served keeps whom it is for.
LEMMA ServedAlike ==
  ASSUME TypeInv, NEW r \in Slots, Serve(r), ~Finish(r)
  PROVE  /\ pc'[r] # "idle"
         /\ req[r].op = "connect" => req'[r].op = "connect" /\ req'[r].user = req[r].user
<1> USE DEF TypeInv, TypeOK
<1>1. CASE Insert(r)
  BY <1>1, InsertStep
<1>2. CASE Reload(r)
  BY <1>2 DEF Reload, Reply
<1>3. CASE Find(r)
  BY <1>3 DEF Find, Goto, Reply
<1>4. CASE Save(r)
  BY <1>4 DEF Save, Reply
<1>5. CASE CountTotal(r)
  BY <1>5 DEF CountTotal, CountNext, Goto, Reply, Order
<1>6. CASE CountActive(r)
  BY <1>6 DEF CountActive, CountNext, Goto, Reply, Order
<1>7. CASE DbError(r)
  BY <1>7 DEF DbError, Reply
<1> QED
  BY <1>1, <1>2, <1>3, <1>4, <1>5, <1>6, <1>7 DEF Serve

\* A step that leaves stages and scripts' waits alone, and every request that is
\* waited for at work for whom it was.
LEMMA WaitsKept ==
  ASSUME Waits, UNCHANGED <<stage, waits>>,
         \A u \in Users : waits[u] # None =>
           LET r == waits[u] IN
             /\ pc'[r] # "idle"
             /\ req[r].op = "connect" => req'[r].op = "connect" /\ req'[r].user = req[r].user
  PROVE  Waits'
BY DEF Waits

LEMMA WaitsStep == TypeInv /\ Waits /\ [Next]_vars => Waits'
<1> SUFFICES ASSUME TypeInv, Waits, [Next]_vars PROVE Waits'
  OBVIOUS
<1>0. /\ waits \in [Users -> Slots \cup {None}] /\ stage \in [Users -> Stages]
      /\ pc \in [Slots -> Steps] /\ req \in [Slots -> Request \cup {None}]
      /\ None \notin Slots
  BY MarkAssumption DEF TypeInv, TypeOK
<1>1. CASE UNCHANGED vars
  BY <1>1 DEF vars, server, scripts, Waits
<1>2. ASSUME NEW q \in Slots, Serve(q) PROVE Waits'
  <2>1. UNCHANGED <<stage, waits>>
    BY <1>2 DEF Serve, Insert, Reload, Find, Save, CountTotal, CountActive, DbError, Finish, scripts
  <2>2. ASSUME NEW u \in Users, waits[u] # None
        PROVE  LET r == waits[u] IN
                 /\ pc'[r] # "idle"
                 /\ req[r].op = "connect" => req'[r].op = "connect" /\ req'[r].user = req[r].user
    <3>1. waits[u] \in Slots /\ pc[waits[u]] # "idle"
      BY <1>0, <2>2 DEF Waits
    <3>2. CASE waits[u] = q
      <4>1. ~Finish(q)
        BY <3>2 DEF Finish
      <4> QED
        BY <1>2, <3>2, <4>1, ServedAlike
    <3>3. CASE waits[u] # q
      BY <1>2, <3>1, <3>3, ServeElsewhere DEF Same
    <3> QED
      BY <3>2, <3>3
  <2> QED
    BY <2>1, <2>2, WaitsKept
<1>3. ASSUME NEW q \in Slots, NEW i, Arrive(q, i), NEW u \in Users, waits[u] # None
      PROVE  /\ pc[q] = "idle" /\ waits[u] # q /\ pc'[waits[u]] # "idle" /\ req'[waits[u]] = req[waits[u]]
             /\ pc'[waits[u]] = pc[waits[u]]
  <2>1. /\ pc[q] = "idle" /\ pc' = [pc EXCEPT ![q] = FirstStep(i)] /\ req' = [req EXCEPT ![q] = i]
    BY <1>3 DEF Arrive
  <2>2. waits[u] \in Slots /\ pc[waits[u]] # "idle"
    BY <1>0, <1>3 DEF Waits
  <2> QED
    BY <1>0, <2>1, <2>2
<1>4. ASSUME NEW q \in Slots, NEW i, Arrive(q, i), UNCHANGED <<stage, waits>> PROVE Waits'
  BY <1>3, <1>4, WaitsKept
<1>5. ASSUME NEW q \in Slots, \/ \E op \in {"usage", "dashboard"} : Watch(q, op)
                              \/ \E s \in Sessions, n \in Counts : EndByOther(q, s, n)
      PROVE  Waits'
  BY <1>4, <1>5 DEF Watch, EndByOther, scripts
<1>6. ASSUME NEW u \in Users, NEW i, Call(u, i), NEW t,
             (i.op = "connect" /\ i.user = u) \/ t # "connecting",
             stage' = [stage EXCEPT ![u] = t], FirstStep(i) # "idle"
      PROVE  Waits'
  <2>1. CASE waits' = [waits EXCEPT ![u] = None] /\ UNCHANGED server
    BY <1>0, <1>6, <2>1 DEF server, Waits
  <2>2. ASSUME NEW q \in Slots, Arrive(q, i), waits' = [waits EXCEPT ![u] = q]
        PROVE  Waits'
    <3>1. /\ \A v \in Users \ {u} : waits'[v] = waits[v] /\ stage'[v] = stage[v]
          /\ waits'[u] = q /\ stage'[u] = t
      BY <1>0, <1>6, <2>2
    <3>2. pc'[q] # "idle" /\ req'[q] = i
      BY <1>0, <1>6, <2>2 DEF Arrive
    <3>3. \A v \in Users : waits[v] # None =>
            waits[v] # q /\ pc'[waits[v]] # "idle" /\ req'[waits[v]] = req[waits[v]]
      BY <1>3, <2>2
    <3> QED
      BY <1>6, <3>1, <3>2, <3>3 DEF Waits
  <2> QED
    BY <1>6, <2>1, <2>2 DEF Call
<1>7. ASSUME NEW u \in Users, CreateSession(u) PROVE Waits'
  <2> DEFINE i == Asked("connect", u, None, 0)
  <2>1. i.op = "connect" /\ i.user = u
    BY AskedIsRequest, ZeroCounts
  <2>2. FirstStep(i) # "idle"
    BY <2>1 DEF FirstStep
  <2>3. Call(u, i) /\ stage' = [stage EXCEPT ![u] = "connecting"]
    BY <1>7 DEF CreateSession
  <2> HIDE DEF i
  <2> QED
    BY <1>6, <2>1, <2>2, <2>3
<1>8. ASSUME NEW u \in Users, Disconnect(u) PROVE Waits'
  <2>1. CASE UNCHANGED <<server, waits>> /\ stage' = [stage EXCEPT ![u] = "down"]
    BY <1>0, <2>1 DEF server, Waits
  <2>2. CASE /\ file[u] # None /\ stage' = [stage EXCEPT ![u] = "closing"]
             /\ Call(u, Asked("disconnect", u, file[u], counted[u]))
    <3> DEFINE i == Asked("disconnect", u, file[u], counted[u])
    <3>1. file[u] \in Sessions /\ counted[u] \in Counts
      BY <2>2 DEF TypeInv, TypeOK
    <3>2. i.op = "disconnect"
      BY <3>1, AskedIsRequest
    <3>3. FirstStep(i) # "idle"
      BY <3>2 DEF FirstStep
    <3> HIDE DEF i
    <3>4. Call(u, i) /\ stage' = [stage EXCEPT ![u] = "closing"]
      BY <2>2 DEF i
    <3> QED
      BY <1>6, <3>3, <3>4
  <2> QED
    BY <1>8, <2>1, <2>2 DEF Disconnect
<1>9. ASSUME NEW u \in Users, Connected(u) \/ Closed(u) PROVE Waits'
  <2>1. /\ waits[u] \in Slots /\ waits' = [waits EXCEPT ![u] = None]
        /\ Cleared(waits[u]) /\ \E t \in {"up", "down"} : stage' = [stage EXCEPT ![u] = t]
    BY <1>0, <1>9 DEF Connected, Closed
  <2>2. /\ \A v \in Users \ {u} : waits'[v] = waits[v] /\ stage'[v] = stage[v]
        /\ waits'[u] = None
    BY <1>0, <2>1
  <2>3. \A v \in Users \ {u} : waits[v] # None =>
          pc'[waits[v]] = pc[waits[v]] /\ req'[waits[v]] = req[waits[v]]
    BY <1>0, <2>1 DEF Cleared, Waits
  <2> QED
    BY <2>2, <2>3 DEF Waits
<1>10. ASSUME NEW u \in Users, GiveUp(u) PROVE Waits'
  BY <1>0, <1>10 DEF GiveUp, server, Waits
<1>11. ASSUME NEW u \in Users, Transfer(u) PROVE Waits'
  BY <1>11 DEF Transfer, server, Waits
<1>12. CASE ProcessRestart \/ HostRestart \/ Crash
  BY <1>12 DEF ProcessRestart, HostRestart, TunnelsEnd, Crash, Waits
<1>13. ASSUME NEW u \in Users, Connect(u) \/ TurnedAway(u) PROVE Waits'
  <2>1. /\ UNCHANGED <<server, waits>>
        /\ \E t \in {"asking", "down"} : stage' = [stage EXCEPT ![u] = t]
    BY <1>13 DEF Connect, TurnedAway
  <2>2. \A v \in Users : stage'[v] = "connecting" => stage[v] = "connecting"
    BY <1>0, <2>1
  <2> QED
    BY <2>1, <2>2 DEF server, Waits
<1> QED
  BY <1>1, <1>2, <1>5, <1>7, <1>8, <1>9, <1>10, <1>11, <1>12, <1>13 DEF Next, Script

\* Counters that somebody has reported are never forgotten, and every step that
\* changes the users' tunnels begun posts a session.
LEMMA ScriptsGrow ==
  ASSUME TypeInv, [Next]_vars
  PROVE  /\ \A u \in Users : counters[u] \subseteq counters'[u]
         /\ \A s \in Sessions : given[s] \subseteq given'[s]
         /\ UNCHANGED begun \/ \E u \in Users : CreateSession(u)
<1> USE DEF TypeInv, TypeOK
<1>1. ASSUME NEW q \in Slots, Serve(q) PROVE UNCHANGED <<counters, begun, given>>
  BY <1>1 DEF Serve, Insert, Reload, Find, Save, CountTotal, CountActive, DbError, Finish, scripts
<1>2. ASSUME NEW q \in Slots, NEW op \in {"usage", "dashboard"}, Watch(q, op)
      PROVE  UNCHANGED <<counters, begun, given>>
  BY <1>2 DEF Watch, scripts
<1>3. ASSUME NEW q \in Slots, NEW s \in Sessions, NEW n \in Counts, EndByOther(q, s, n)
      PROVE  UNCHANGED <<counters, begun>> /\ \A t \in Sessions : given[t] \subseteq given'[t]
  BY <1>3 DEF EndByOther, scripts
<1>4. ASSUME NEW u \in Users, Connect(u) \/ Transfer(u) \/ Script(u)
      PROVE  UNCHANGED <<counters, given>> /\ (CreateSession(u) \/ UNCHANGED begun)
  BY <1>4 DEF Connect, Transfer, Script, TurnedAway, CreateSession, Connected, Closed, GiveUp
<1>5. ASSUME NEW u \in Users, Disconnect(u)
      PROVE  UNCHANGED <<begun, given>> /\ \A v \in Users : counters[v] \subseteq counters'[v]
  BY <1>5 DEF Disconnect
<1>6. CASE ProcessRestart \/ HostRestart \/ Crash \/ UNCHANGED vars
  BY <1>6 DEF ProcessRestart, HostRestart, TunnelsEnd, Crash, vars, scripts
<1> QED
  BY <1>1, <1>2, <1>3, <1>4, <1>5, <1>6 DEF Next

LEMMA FilesStep ==
  ASSUME TypeInv, Kept, Waits, Files, [Next]_vars
  PROVE  Files'
<1>0. \A s \in Sessions : Persists(s)
  BY RowsPersist
<1>1. CASE \A u \in Users : file'[u] \in {file[u], None}
  <2>1. \A u \in Users : file[u] # None => file[u] \in Sessions
    BY DEF TypeInv, TypeOK
  <2> QED
    BY <1>0, <1>1, <2>1 DEF Files, Persists
<1>2. ASSUME NEW u \in Users, Connected(u) PROVE Files'
  <2> DEFINE r == waits[u]
  <2>1. /\ r \in Slots /\ pc[r] = "reply" /\ req[r].user = u
        /\ file' = [file EXCEPT ![u] = IF code[r] = 201 THEN req[r].id ELSE @]
    BY <1>2 DEF Connected, Waits, TypeInv, TypeOK
  <2>2. code[r] = 201 => req[r].id \in Sessions /\ rows[req[r].id] # None /\ rows[req[r].id].user = u
    BY <2>1 DEF Kept, Stored
  <2>3. rows' = rows
    BY <1>2 DEF Connected
  <2> QED
    BY <2>1, <2>2, <2>3 DEF Files, TypeInv, TypeOK
<1>3. ASSUME NEW q \in Slots, Serve(q) PROVE UNCHANGED file
  BY <1>3 DEF Serve, Insert, Reload, Find, Save, CountTotal, CountActive, DbError, Finish, scripts
<1>4. ASSUME NEW q \in Slots, \/ \E op \in {"usage", "dashboard"} : Watch(q, op)
                              \/ \E s \in Sessions, n \in Counts : EndByOther(q, s, n)
      PROVE  UNCHANGED file
  BY <1>4 DEF Watch, EndByOther, scripts
<1>5. ASSUME NEW u \in Users,
             Connect(u) \/ TurnedAway(u) \/ CreateSession(u) \/ Transfer(u) \/ Disconnect(u)
      PROVE  UNCHANGED file
  BY <1>5 DEF Connect, TurnedAway, CreateSession, Transfer, Disconnect
<1>6. ASSUME NEW u \in Users, Closed(u) \/ GiveUp(u)
      PROVE  \A v \in Users : file'[v] \in {file[v], None}
  BY <1>6 DEF Closed, GiveUp, TypeInv, TypeOK
<1>7. ProcessRestart \/ HostRestart \/ Crash \/ UNCHANGED vars
        => \A v \in Users : file'[v] \in {file[v], None}
  BY DEF ProcessRestart, HostRestart, Crash, vars, scripts
<1> QED
  BY <1>1, <1>2, <1>3, <1>4, <1>5, <1>6, <1>7 DEF Next, Script

LEMMA ReportedStep ==
  ASSUME TypeInv, TypeInv', Kept, Files, Reported, [Next]_vars
  PROVE  Reported'
<1> SUFFICES ASSUME NEW r \in Slots, pc'[r] \in {"find", "save"}
             PROVE  \/ /\ rows'[req'[r].id] # None
                       /\ req'[r].bytes \in counters'[rows'[req'[r].id].user]
                    \/ req'[r].bytes \in given'[req'[r].id]
  BY DEF Reported
<1>0. /\ \A s \in Sessions : Persists(s)
      /\ \A u \in Users : counters[u] \subseteq counters'[u]
      /\ \A s \in Sessions : given[s] \subseteq given'[s]
      /\ \A s \in Sessions : rows[s] # None => rows[s].user \in Users
  BY RowsPersist, ScriptsGrow, RowFields DEF TypeInv, Session
<1>1. CASE pc[r] \in {"find", "save"} /\ req'[r] = req[r]
  <2>1. req[r].id \in Sessions
    BY <1>1 DEF TypeInv, Placed
  <2> QED
    BY <1>0, <1>1, <2>1 DEF Reported, Persists
<1>2. CASE Same(r)
  BY <1>1, <1>2 DEF Same
<1>3. CASE Arrived(r)
  <2>1. FromScript(req'[r]) \/ FromOther(req'[r])
    BY <1>3 DEF Arrived
  <2>2. ASSUME FromScript(req'[r])
        PROVE  rows'[req'[r].id] # None /\ req'[r].bytes \in counters'[rows'[req'[r].id].user]
    <3>1. PICK u \in Users : /\ file[u] # None /\ req'[r].id = file[u] /\ req'[r].bytes = counted[u]
                             /\ counters' = [counters EXCEPT ![u] = @ \cup {counted[u]}]
      BY <2>2 DEF FromScript
    <3>2. file[u] \in Sessions /\ rows[file[u]] # None /\ rows[file[u]].user = u
      BY <3>1 DEF Files, TypeInv, TypeOK
    <3>3. counted[u] \in counters'[u]
      BY <3>1 DEF TypeInv, TypeOK
    <3> QED
      BY <1>0, <3>1, <3>2, <3>3 DEF Persists
  <2> QED
    BY <2>1, <2>2 DEF FromOther
<1>4. CASE Find(r)
  <2>1. pc[r] = "find" /\ req' = req
    BY <1>4 DEF Find
  <2> QED
    BY <1>1, <2>1
<1>5. CASE Insert(r) \/ Reload(r) \/ Save(r) \/ DbError(r) \/ Finish(r)
  BY <1>5 DEF Insert, Reload, Save, DbError, Finish, Goto, Reply, Cleared, TypeInv, TypeOK
<1>6. CASE CountTotal(r) \/ CountActive(r)
  BY <1>6 DEF CountTotal, CountActive, CountNext, Goto, Reply, Order, TypeInv, TypeOK
<1> QED
  BY <1>2, <1>3, <1>4, <1>5, <1>6, RequestSteps DEF Serve

LEMMA EndedStep ==
  ASSUME TypeInv, Kept, Reported, EndedAsCounted, [Next]_vars
  PROVE  EndedAsCounted'
<1> SUFFICES ASSUME NEW s \in Sessions, rows'[s] # None, ~rows'[s].active
             PROVE  rows'[s].bytes \in counters'[rows'[s].user] \cup given'[s]
  BY DEF EndedAsCounted, Rows
<1>1. CASE rows'[s] = rows[s]
  <2>1. s \in Rows /\ rows[s].user \in Users
    BY <1>1, RowFields DEF Rows, TypeInv, Session
  <2> QED
    BY <1>1, <2>1, ScriptsGrow DEF EndedAsCounted
<1>2. ASSUME NEW q \in Slots, Insert(q) PROVE rows'[s] = rows[s]
  BY <1>2, InsertStep
<1>3. ASSUME NEW q \in Slots, Save(q), rows'[s] # rows[s]
      PROVE  rows'[s].bytes \in counters'[rows'[s].user] \cup given'[s]
  <2>1. /\ pc[q] = "save" /\ s = req[q].id /\ rows[s] \in Session
        /\ rows'[s].user = rows[s].user /\ rows'[s].bytes = req[q].bytes
    BY <1>3, SaveStep
  <2>2. rows[s].user \in Users
    BY <2>1 DEF Session
  <2> QED
    BY <2>1, <2>2, ScriptsGrow DEF Reported
<1> QED
  BY <1>1, <1>2, <1>3, RowSteps

\* A session that has ended has the counters of a closed tunnel of its own user, or what
\* another caller has given for that session, for any number of users, sessions and
\* requests and whatever calls were lost, late or overwritten.
THEOREM EndedAreCounted == Spec => []EndedAsCounted
<1>1. Init => Waits /\ Files /\ Reported /\ EndedAsCounted
  BY DEF Init, Waits, Files, Reported, EndedAsCounted, Rows
<1>2. /\ TypeInv /\ TypeInv' /\ Kept /\ Kept' /\ Waits /\ Files /\ Reported /\ EndedAsCounted
      /\ [Next]_vars
      => Waits' /\ Files' /\ Reported' /\ EndedAsCounted'
  BY WaitsStep, FilesStep, ReportedStep, EndedStep
<1> QED
  BY <1>1, <1>2, KeptAlways, PTL DEF Spec

-----------------------------------------------------------------------------
(***************************************************************************)
(* One row for each tunnel: the rows of a user and the INSERTs that are    *)
(* still to be sent are together no more than the tunnels that have begun. *)
(***************************************************************************)
RowsOf(u) == {s \in Rows : rows[s].user = u}
PendingOf(u) == {r \in Slots : pc[r] = "insert" /\ req[r].user = u}
Bounded(u) == Cardinality(RowsOf(u)) + Cardinality(PendingOf(u)) <= begun[u]

LEMMA UsersFinite ==
  ASSUME NEW u \in Users
  PROVE  /\ IsFiniteSet(RowsOf(u)) /\ IsFiniteSet(PendingOf(u))
         /\ Cardinality(RowsOf(u)) \in Nat /\ Cardinality(PendingOf(u)) \in Nat
<1>1. RowsOf(u) \in SUBSET Sessions /\ PendingOf(u) \in SUBSET Slots
  BY DEF RowsOf, Rows, PendingOf
<1> QED
  BY <1>1, BoundsAssumption, FS_Subset, FS_CardinalityType

LEMMA BoundedStep ==
  ASSUME TypeInv, TypeInv', Kept, \A u \in Users : Bounded(u), [Next]_vars, NEW u \in Users
  PROVE  Bounded(u)'
<1>0. /\ Bounded(u) /\ begun[u] \in Nat /\ begun'[u] \in Nat
      /\ IsFiniteSet(RowsOf(u)) /\ IsFiniteSet(PendingOf(u))
      /\ Cardinality(RowsOf(u)) \in Nat /\ Cardinality(PendingOf(u)) \in Nat
  BY UsersFinite DEF TypeInv, TypeOK
<1>1. ASSUME NEW v \in Users, CreateSession(v) PROVE Bounded(u)'
  <2> DEFINE i == Asked("connect", v, None, 0)
  <2>1. i \in Request /\ i.op = "connect" /\ i.user = v
    BY AskedIsRequest, ZeroCounts
  <2>2. /\ rows' = rows /\ begun' = [begun EXCEPT ![v] = @ + 1] /\ Call(v, i)
    BY <1>1 DEF CreateSession
  <2> HIDE DEF i
  <2>3. RowsOf(u)' = RowsOf(u)
    BY <2>2 DEF RowsOf, Rows
  <2>4. CASE UNCHANGED server
    <3>1. PendingOf(u)' = PendingOf(u)
      BY <2>4 DEF server, PendingOf
    <3>2. begun'[u] >= begun[u]
      BY <1>0, <2>2 DEF TypeInv, TypeOK
    <3> QED
      BY <1>0, <2>3, <3>1, <3>2 DEF Bounded
  <2>5. ASSUME NEW q \in Slots, Arrive(q, i) PROVE Bounded(u)'
    <3>1. /\ pc[q] = "idle" /\ req'[q] = i
          /\ \A r \in Slots \ {q} : pc'[r] = pc[r] /\ req'[r] = req[r]
      BY <2>1, <2>5, ArriveStep
    <3>2. CASE u = v
      <4>1. PendingOf(u)' \in SUBSET (PendingOf(u) \cup {q}) /\ q \notin PendingOf(u)
        BY <3>1 DEF PendingOf
      <4>2. /\ IsFiniteSet(PendingOf(u) \cup {q})
            /\ Cardinality(PendingOf(u) \cup {q}) = Cardinality(PendingOf(u)) + 1
        BY <1>0, <4>1, FS_AddElement
      <4>3. /\ Cardinality(PendingOf(u)') \in Nat
            /\ Cardinality(PendingOf(u)') <= Cardinality(PendingOf(u)) + 1
        BY <4>1, <4>2, FS_Subset, FS_CardinalityType
      <4>4. begun'[u] = begun[u] + 1
        BY <2>2, <3>2 DEF TypeInv, TypeOK
      <4> QED
        BY <1>0, <2>3, <4>3, <4>4 DEF Bounded
    <3>3. CASE u # v
      <4>1. PendingOf(u)' = PendingOf(u)
        BY <2>1, <3>1, <3>3 DEF PendingOf
      <4>2. begun'[u] = begun[u]
        BY <2>2, <3>3 DEF TypeInv, TypeOK
      <4> QED
        BY <1>0, <2>3, <4>1, <4>2 DEF Bounded
    <3> QED
      BY <3>2, <3>3
  <2> QED
    BY <2>1, <2>2, <2>4, <2>5, CallStep
<1>2. CASE UNCHANGED begun
  <2>1. PendingOf(u)' \in SUBSET PendingOf(u)
    <3> SUFFICES ASSUME NEW r \in Slots, pc'[r] = "insert", req'[r].user = u
                 PROVE  pc[r] = "insert" /\ req[r].user = u
      BY DEF PendingOf
    <3>1. ~Arrived(r)
      <4>1. \A v \in Users : CreateSession(v) => begun'[v] = begun[v] + 1 /\ begun[v] \in Nat
        BY DEF CreateSession, TypeInv, TypeOK
      <4> QED
        BY <1>2, <4>1 DEF Arrived
    <3>2. CASE Same(r)
      BY <3>2 DEF Same
    <3>3. CASE Insert(r) \/ Reload(r) \/ Find(r) \/ Save(r) \/ DbError(r) \/ Finish(r)
      BY <3>3 DEF Insert, Reload, Find, Save, DbError, Finish, Goto, Reply, Cleared, TypeInv, TypeOK
    <3>4. CASE CountTotal(r) \/ CountActive(r)
      BY <3>4 DEF CountTotal, CountActive, CountNext, Goto, Reply, Order, TypeInv, TypeOK
    <3> QED
      BY <3>1, <3>2, <3>3, <3>4, RequestSteps DEF Serve
  <2>2. /\ IsFiniteSet(PendingOf(u)') /\ Cardinality(PendingOf(u)') \in Nat
        /\ Cardinality(PendingOf(u)') <= Cardinality(PendingOf(u))
    BY <1>0, <2>1, FS_Subset, FS_CardinalityType
  <2>3. CASE RowsOf(u)' = RowsOf(u)
    BY <1>0, <1>2, <2>2, <2>3 DEF Bounded
  <2>4. ASSUME NEW q \in Slots, Insert(q) PROVE Bounded(u)'
    <3>1. PICK s \in Sessions :
            /\ pc[q] = "insert" /\ pc'[q] = "reload" /\ rows[s] = None /\ rows'[s] # None
            /\ rows'[s].user = req[q].user /\ \A t \in Sessions \ {s} : rows'[t] = rows[t]
      BY <2>4, InsertStep
    <3>2. CASE req[q].user # u
      <4>1. RowsOf(u)' = RowsOf(u)
        BY <3>1, <3>2 DEF RowsOf, Rows
      <4> QED
        BY <2>3, <4>1
    <3>3. CASE req[q].user = u
      <4>1. RowsOf(u)' = RowsOf(u) \cup {s} /\ s \notin RowsOf(u)
        BY <3>1, <3>3 DEF RowsOf, Rows
      <4>2. Cardinality(RowsOf(u)') = Cardinality(RowsOf(u)) + 1
        BY <1>0, <4>1, FS_AddElement
      <4>3. q \in PendingOf(u) /\ PendingOf(u)' \in SUBSET (PendingOf(u) \ {q})
        BY <2>1, <3>1, <3>3 DEF PendingOf
      <4>4. /\ IsFiniteSet(PendingOf(u) \ {q})
            /\ Cardinality(PendingOf(u) \ {q}) = Cardinality(PendingOf(u)) - 1
        BY <1>0, <4>3, FS_RemoveElement
      <4>5. Cardinality(PendingOf(u)') <= Cardinality(PendingOf(u)) - 1
        BY <4>3, <4>4, FS_Subset
      <4> QED
        BY <1>0, <1>2, <2>2, <4>2, <4>5 DEF Bounded
    <3> QED
      BY <3>2, <3>3
  <2>5. ASSUME NEW q \in Slots, Save(q) PROVE RowsOf(u)' = RowsOf(u)
    <3>1. /\ rows[req[q].id] # None /\ rows'[req[q].id] # None
          /\ rows'[req[q].id].user = rows[req[q].id].user
          /\ \A t \in Sessions \ {req[q].id} : rows'[t] = rows[t]
      BY <2>5, SaveStep, MarkAssumption
    <3> QED
      BY <3>1 DEF RowsOf, Rows
  <2>6. UNCHANGED rows => RowsOf(u)' = RowsOf(u)
    BY DEF RowsOf, Rows
  <2> QED
    BY <2>3, <2>4, <2>5, <2>6, RowSteps
<1> QED
  BY <1>1, <1>2, ScriptsGrow

\* No user ever has more sessions than tunnels have begun, for any number of requests,
\* lost or late calls, and restarts of either side.
THEOREM SessionsBounded == Spec => []OneRowPerTunnel
<1>1. Init => \A u \in Users : Bounded(u)
  <2> SUFFICES ASSUME Init, NEW u \in Users PROVE Bounded(u)
    OBVIOUS
  <2>1. RowsOf(u) = {} /\ PendingOf(u) = {} /\ begun[u] = 0
    BY DEF Init, RowsOf, Rows, PendingOf
  <2> QED
    BY <2>1, FS_EmptySet DEF Bounded
<1>2. TypeInv /\ TypeInv' /\ Kept /\ (\A u \in Users : Bounded(u)) /\ [Next]_vars
      => (\A u \in Users : Bounded(u))'
  BY BoundedStep
<1>3. TypeInv /\ (\A u \in Users : Bounded(u)) => OneRowPerTunnel
  <2> SUFFICES ASSUME TypeInv, NEW u \in Users, Bounded(u)
               PROVE  Cardinality({s \in Rows : rows[s].user = u}) <= begun[u]
    BY DEF OneRowPerTunnel
  <2>1. {s \in Rows : rows[s].user = u} = RowsOf(u) /\ begun[u] \in Nat
    BY DEF RowsOf, TypeInv, TypeOK
  <2>2. Cardinality(RowsOf(u)) <= begun[u]
    BY <2>1, UsersFinite DEF Bounded
  <2> QED
    BY <2>1, <2>2
<1> QED
  BY <1>1, <1>2, <1>3, KeptAlways, PTL DEF Spec

-----------------------------------------------------------------------------
(***************************************************************************)
(* As long as nothing fails a user has an active session exactly between   *)
(* the INSERT of the connect and the UPDATE of the disconnect.  Calm says  *)
(* where each user's script and request are then, OwnCalls that nobody     *)
(* else is about to insert or to end a session.                            *)
(***************************************************************************)
Mine(u) == {s \in ActiveRows : rows[s].user = u}

CalmAt(u) ==
  /\ stage[u] \in {"down", "asking"} => waits[u] = None /\ file[u] = None /\ Mine(u) = {}
  /\ stage[u] = "connecting" =>
       /\ waits[u] # None /\ file[u] = None
       /\ req[waits[u]].op = "connect" /\ req[waits[u]].user = u
       /\ pc[waits[u]] \in {"insert", "reload", "reply"}
       /\ pc[waits[u]] = "insert" => Mine(u) = {}
       /\ pc[waits[u]] # "insert" => Mine(u) = {req[waits[u]].id}
       /\ pc[waits[u]] = "reply" => code[waits[u]] = 201
  /\ stage[u] = "up" => waits[u] = None /\ file[u] # None /\ Mine(u) = {file[u]}
  /\ stage[u] = "closing" =>
       /\ waits[u] # None /\ file[u] # None
       /\ req[waits[u]].op = "disconnect" /\ req[waits[u]].id = file[u]
       /\ pc[waits[u]] \in {"find", "save", "reply"}
       /\ pc[waits[u]] # "reply" => Mine(u) = {file[u]}
       /\ pc[waits[u]] = "reply" => Mine(u) = {}

OwnCalls ==
  \A r \in Slots :
    pc[r] \in {"insert", "reload", "find", "save"} => \E u \in Users : waits[u] = r

Calm == (\A u \in Users : CalmAt(u)) /\ OwnCalls

\* A user whose script, request and sessions a step leaves alone.
LEMMA CalmElsewhere ==
  ASSUME NEW u \in Users, CalmAt(u),
         stage'[u] = stage[u], waits'[u] = waits[u], file'[u] = file[u],
         Mine(u)' = Mine(u),
         waits[u] # None => /\ pc'[waits[u]] = pc[waits[u]]
                            /\ req'[waits[u]] = req[waits[u]]
                            /\ code'[waits[u]] = code[waits[u]]
  PROVE  CalmAt(u)'
<1>1. CASE waits[u] = None BY <1>1 DEF CalmAt
<1>2. CASE waits[u] # None BY <1>2 DEF CalmAt
<1> QED BY <1>1, <1>2

LEMMA SameRows == UNCHANGED rows => \A u \in Users : Mine(u)' = Mine(u)
BY DEF Mine, ActiveRows, Rows

\* Whose stage it is tells which statement a request that is waited for is at.
LEMMA CalmStages ==
  ASSUME TypeInv, NEW u \in Users, CalmAt(u), waits[u] # None
  PROVE  /\ waits[u] \in Slots
         /\ stage[u] = "connecting" \/ stage[u] = "closing"
         /\ pc[waits[u]] \in {"insert", "reload"} => stage[u] = "connecting"
         /\ pc[waits[u]] \in {"find", "save"} => stage[u] = "closing"
         /\ pc[waits[u]] \notin {"idle", "count", "active"}
<1>1. stage[u] \in Stages /\ waits[u] \in Slots BY DEF TypeInv, TypeOK
<1> QED BY <1>1 DEF CalmAt, Stages

LEMMA CalmServe ==
  ASSUME TypeInv, TypeInv', Kept, Waits, Calm, NEW q \in Slots, Serve(q), ~disturbed'
  PROVE  Calm'
<1> USE DEF TypeInv
<1>0. /\ UNCHANGED scripts /\ stage' = stage /\ waits' = waits /\ file' = file
      /\ pc \in [Slots -> Steps] /\ code \in [Slots -> Codes]
  <2>1. UNCHANGED scripts
    BY DEF Serve, Insert, Reload, Find, Save, CountTotal, CountActive, DbError, Finish
  <2> QED BY <2>1 DEF scripts, TypeOK
<1>1. \A r \in Slots \ {q} : pc'[r] = pc[r] /\ req'[r] = req[r] /\ code'[r] = code[r]
  BY ServeElsewhere DEF Same
<1>2. \A u \in Users : CalmAt(u) /\ (waits[u] # None => waits[u] \in Slots)
  BY CalmStages DEF Calm
<1>3. ASSUME NEW u \in Users, waits[u] # q, Mine(u)' = Mine(u) PROVE CalmAt(u)'
  BY <1>0, <1>1, <1>2, <1>3, CalmElsewhere
<1>4. ASSUME pc[q] \in {"insert", "reload", "find", "save"}
      PROVE  \E u \in Users : /\ waits[u] = q /\ waits[u] # None
                              /\ \A v \in Users \ {u} : waits[v] # q
  BY <1>4, MarkAssumption DEF Calm, OwnCalls, Waits
<1>5. ASSUME pc'[q] \in {"insert", "reload", "find", "save"}
                => pc[q] \in {"insert", "reload", "find", "save"}
      PROVE  OwnCalls'
  BY <1>0, <1>1, <1>5 DEF Calm, OwnCalls
<1>6. CASE Insert(q)
  <2>1. PICK s \in Sessions :
          /\ rows[s] = None /\ req'[q].id = s /\ rows'[s] # None
          /\ rows'[s].user = req[q].user /\ rows'[s].active
          /\ \A t \in Sessions \ {s} : rows'[t] = rows[t]
    BY <1>6, InsertStep
  <2>2. /\ pc[q] = "insert" /\ pc'[q] = "reload"
        /\ req'[q].op = "connect" /\ req'[q].user = req[q].user
    BY <1>6, InsertStep
  <2>3. PICK u \in Users : /\ waits[u] = q /\ waits[u] # None
                           /\ \A v \in Users \ {u} : waits[v] # q
    BY <1>4, <2>2
  <2>4. /\ stage[u] = "connecting" /\ file[u] = None /\ req[q].user = u /\ Mine(u) = {}
    BY <1>2, <2>2, <2>3, CalmStages DEF CalmAt
  <2>5. \A v \in Users : Mine(v)' = IF v = u THEN Mine(v) \cup {s} ELSE Mine(v)
    BY <2>1, <2>4 DEF Mine, ActiveRows, Rows
  <2>6. CalmAt(u)'
    <3>1. Mine(u)' = {s} BY <2>4, <2>5
    <3> QED BY <1>0, <2>1, <2>2, <2>3, <2>4, <3>1 DEF CalmAt
  <2>7. \A v \in Users \ {u} : CalmAt(v)' BY <1>3, <2>3, <2>5
  <2> QED BY <1>5, <2>2, <2>6, <2>7 DEF Calm
<1>7. CASE Save(q)
  <2>1. /\ pc[q] = "save" /\ pc'[q] = "reply" /\ req' = req /\ req[q].id \in Sessions
        /\ rows[req[q].id] \in Session /\ rows'[req[q].id] # None
        /\ rows'[req[q].id].user = rows[req[q].id].user /\ ~rows'[req[q].id].active
        /\ \A s \in Sessions \ {req[q].id} : rows'[s] = rows[s]
    BY <1>7, SaveStep
  <2>3. PICK u \in Users : /\ waits[u] = q /\ waits[u] # None
                           /\ \A v \in Users \ {u} : waits[v] # q
    BY <1>4, <2>1
  <2>4. /\ stage[u] = "closing" /\ file[u] # None /\ req[q].op = "disconnect"
        /\ req[q].id = file[u] /\ Mine(u) = {file[u]}
    BY <1>2, <2>1, <2>3, CalmStages DEF CalmAt
  <2>5. rows[req[q].id].user = u BY <2>4 DEF Mine
  <2>6. \A v \in Users : Mine(v)' = IF v = u THEN Mine(v) \ {req[q].id} ELSE Mine(v)
    BY <2>1, <2>5 DEF Mine, ActiveRows, Rows
  <2>7. CalmAt(u)'
    <3>1. Mine(u)' = {} BY <2>4, <2>6
    <3> QED BY <1>0, <2>1, <2>3, <2>4, <3>1 DEF CalmAt
  <2>8. \A v \in Users \ {u} : CalmAt(v)' BY <1>3, <2>3, <2>6
  <2> QED BY <1>5, <2>1, <2>7, <2>8 DEF Calm
<1>8. CASE Reload(q) \/ Find(q)
  <2>1. /\ pc[q] \in {"reload", "find"} /\ req' = req /\ rows' = rows
        /\ req[q].id \in Sessions
    BY <1>8 DEF Reload, Find, Placed
  <2>2. PICK u \in Users : /\ waits[u] = q /\ waits[u] # None
                           /\ \A v \in Users \ {u} : waits[v] # q
    BY <1>4, <2>1
  <2>3. \A v \in Users : Mine(v)' = Mine(v) BY <2>1, SameRows
  <2>4. CASE Reload(q)
    <3>1. stage[u] = "connecting" /\ rows[req[q].id] # None
      BY <1>2, <2>2, <2>4, CalmStages DEF Reload, Kept, Stored
    <3>2. pc[q] = "reload" /\ pc'[q] = "reply" /\ code'[q] = 201
      BY <1>0, <2>4, <3>1 DEF Reload, Reply
    <3>3. CalmAt(u)'
      BY <1>0, <1>2, <2>1, <2>2, <2>3, <3>1, <3>2 DEF CalmAt
    <3> QED BY <1>3, <1>5, <2>2, <2>3, <3>2, <3>3 DEF Calm
  <2>5. CASE Find(q)
    <3>1. stage[u] = "closing" /\ Mine(u) = {req[q].id}
      BY <1>2, <2>2, <2>5, CalmStages DEF Find, CalmAt
    <3>2. rows[req[q].id] # None BY <3>1 DEF Mine, ActiveRows, Rows
    <3>3. pc[q] = "find" /\ pc'[q] = "save"
      BY <1>0, <2>5, <3>2 DEF Find, Goto
    <3>4. CalmAt(u)'
      BY <1>0, <1>2, <2>1, <2>2, <2>3, <3>1, <3>3 DEF CalmAt
    <3> QED BY <1>3, <1>5, <2>2, <2>3, <3>3, <3>4 DEF Calm
  <2> QED BY <1>8, <2>4, <2>5
<1>9. CASE CountTotal(q) \/ CountActive(q) \/ Finish(q)
  <2>1. /\ rows' = rows /\ pc'[q] \in {"count", "active", "reply", "idle"}
    BY <1>0, <1>9 DEF CountTotal, CountActive, CountNext, Goto, Reply, Order, Finish, Cleared
  <2>2. \A u \in Users : waits[u] # q
    <3>1. CASE pc[q] \in {"count", "active"}
      BY <1>2, <3>1, CalmStages, MarkAssumption
    <3>2. CASE Finish(q) BY <3>2 DEF Finish
    <3> QED BY <1>9, <3>1, <3>2 DEF CountTotal, CountActive
  <2> QED BY <1>3, <1>5, <2>1, <2>2, SameRows DEF Calm
<1>10. ~DbError(q) BY DEF DbError
<1> QED BY <1>6, <1>7, <1>8, <1>9, <1>10 DEF Serve

\* A script's call, when it is not lost.
LEMMA CalmCall ==
  ASSUME TypeInv, Calm, Waits, NEW u \in Users, NEW i \in Request, Call(u, i), ~disturbed',
         i.op = "connect" => i.user \in Users,
         i.op = "disconnect" => i.id \in Sessions,
         waits[u] = None, UNCHANGED <<rows, file>>,
         NEW t \in Stages, stage' = [stage EXCEPT ![u] = t],
         \/ /\ t = "connecting" /\ i.op = "connect" /\ i.user = u
            /\ file[u] = None /\ Mine(u) = {}
         \/ /\ t = "closing" /\ i.op = "disconnect" /\ i.id = file[u]
            /\ file[u] # None /\ Mine(u) = {file[u]}
  PROVE  Calm'
<1>1. PICK q \in Slots : Arrive(q, i) /\ waits' = [waits EXCEPT ![u] = q]
  BY CallStep
<1>2. /\ pc[q] = "idle" /\ req'[q] = i /\ pc'[q] = FirstStep(i)
      /\ \A r \in Slots \ {q} : pc'[r] = pc[r] /\ req'[r] = req[r]
      /\ code' = code
  BY <1>1, ArriveStep
<1>3. /\ i.op = "connect" => FirstStep(i) = "insert"
      /\ i.op = "disconnect" => FirstStep(i) = "find"
  BY DEF FirstStep
<1>4. /\ waits'[u] = q /\ stage'[u] = t
      /\ \A v \in Users \ {u} : waits'[v] = waits[v] /\ stage'[v] = stage[v]
  BY <1>1 DEF TypeInv, TypeOK
<1>5. \A v \in Users : Mine(v)' = Mine(v) BY SameRows
<1>6. ASSUME NEW v \in Users, v # u PROVE CalmAt(v)'
  <2>1. CalmAt(v) BY DEF Calm
  <2>2. waits[v] # None => waits[v] \in Slots \ {q}
    BY <1>2, <2>1, CalmStages
  <2> QED BY <1>2, <1>4, <1>5, <1>6, <2>1, <2>2, CalmElsewhere
<1>7. CalmAt(u)'
  <2>1. q # None BY MarkAssumption
  <2> QED BY <1>2, <1>3, <1>4, <1>5, <2>1 DEF CalmAt
<1>8. OwnCalls'
  <2> SUFFICES ASSUME NEW r \in Slots, pc'[r] \in {"insert", "reload", "find", "save"}
               PROVE  \E v \in Users : waits'[v] = r
    BY DEF OwnCalls
  <2>1. CASE r = q BY <1>4, <2>1
  <2>2. CASE r # q
    <3>1. PICK v \in Users : waits[v] = r
      BY <1>2, <2>2 DEF Calm, OwnCalls
    <3>2. v # u BY <3>1, MarkAssumption
    <3> QED BY <1>4, <3>1, <3>2
  <2> QED BY <2>1, <2>2
<1> QED BY <1>6, <1>7, <1>8 DEF Calm

\* A script that has its answer.
LEMMA CalmAnswer ==
  ASSUME TypeInv, Kept, Waits, Calm, NEW u \in Users, Connected(u) \/ Closed(u)
  PROVE  Calm'
<1> USE DEF TypeInv
<1> DEFINE q == waits[u]
<1>1. /\ q \in Slots /\ q # None /\ pc[q] = "reply" /\ rows' = rows /\ Cleared(q)
      /\ waits' = [waits EXCEPT ![u] = None]
  BY DEF Connected, Closed, TypeOK
<1>2. /\ pc'[q] = "idle"
      /\ \A r \in Slots \ {q} : pc'[r] = pc[r] /\ req'[r] = req[r] /\ code'[r] = code[r]
  BY <1>1 DEF Cleared, TypeOK
<1>3. /\ waits'[u] = None
      /\ \A v \in Users \ {u} : waits'[v] = waits[v] /\ stage'[v] = stage[v] /\ file'[v] = file[v]
  BY <1>1 DEF Connected, Closed, TypeOK
<1>4. \A v \in Users : Mine(v)' = Mine(v) BY <1>1, SameRows
<1>5. ASSUME NEW v \in Users, v # u PROVE CalmAt(v)'
  <2>1. CalmAt(v) BY DEF Calm
  <2>2. waits[v] # None => waits[v] \in Slots \ {q}
    BY <1>1, <1>5, <2>1, CalmStages DEF Waits
  <2> QED BY <1>2, <1>3, <1>4, <1>5, <2>1, <2>2, CalmElsewhere
<1>6. CalmAt(u)'
  <2>1. CalmAt(u) BY DEF Calm
  <2>2. CASE Connected(u)
    <3>1. /\ stage[u] = "connecting" /\ stage'[u] = "up"
          /\ file'[u] = IF code[q] = 201 THEN req[q].id ELSE file[u]
      BY <2>2 DEF Connected, TypeOK
    <3>2. code[q] = 201 /\ Mine(u) = {req[q].id} BY <1>1, <2>1, <3>1 DEF CalmAt
    <3>3. req[q].id # None
      BY <1>1, <3>2, MarkAssumption DEF Kept, Stored
    <3> QED BY <1>3, <1>4, <3>1, <3>2, <3>3 DEF CalmAt
  <2>3. CASE Closed(u)
    <3>1. stage[u] = "closing" /\ stage'[u] = "down" /\ file'[u] = None
      BY <2>3 DEF Closed, TypeOK
    <3>2. Mine(u) = {} BY <1>1, <2>1, <3>1 DEF CalmAt
    <3> QED BY <1>3, <1>4, <3>1, <3>2 DEF CalmAt
  <2> QED BY <2>2, <2>3
<1>7. OwnCalls'
  <2> SUFFICES ASSUME NEW r \in Slots, pc'[r] \in {"insert", "reload", "find", "save"}
               PROVE  \E v \in Users : waits'[v] = r
    BY DEF OwnCalls
  <2>1. r # q BY <1>2
  <2>2. PICK v \in Users : waits[v] = r BY <1>2, <2>1 DEF Calm, OwnCalls
  <2> QED BY <1>3, <2>1, <2>2
<1> QED BY <1>5, <1>6, <1>7 DEF Calm

LEMMA CalmStep ==
  ASSUME TypeInv, TypeInv', Kept, Waits, ~disturbed => Calm, [Next]_vars, ~disturbed'
  PROVE  Calm'
<1> USE DEF TypeInv
<1>0. ~disturbed => \A u \in Users : CalmAt(u) /\ OwnCalls BY DEF Calm
<1>1. CASE UNCHANGED vars
  <2>1. UNCHANGED <<rows, pc, req, code, stage, waits, file>> /\ ~disturbed
    BY <1>1 DEF vars, server, scripts
  <2> QED BY <1>0, <2>1, SameRows, CalmElsewhere DEF Calm, OwnCalls
<1>2. ASSUME NEW q \in Slots, Serve(q) PROVE Calm'
  <2>1. ~disturbed
    BY <1>2 DEF Serve, Insert, Reload, Find, Save, CountTotal, CountActive, DbError, Finish
  <2> QED BY <1>2, <2>1, CalmServe
<1>3. ASSUME NEW q \in Slots, NEW op \in {"usage", "dashboard"}, Watch(q, op) PROVE Calm'
  <2> DEFINE i == Asked(op, None, None, 0)
  <2>1. i \in Request /\ i.op = op BY AskedIsRequest, ZeroCounts
  <2>2. FirstStep(i) \in {"count", "active"} BY <2>1 DEF FirstStep, Order
  <2>3. /\ Arrive(q, i) /\ ~disturbed /\ UNCHANGED <<rows, stage, waits, file>>
    BY <1>3 DEF Watch, scripts
  <2> HIDE DEF i
  <2>4. /\ pc[q] = "idle" /\ pc'[q] \in {"count", "active"} /\ code' = code
        /\ \A r \in Slots \ {q} : pc'[r] = pc[r] /\ req'[r] = req[r]
    BY <2>1, <2>2, <2>3, ArriveStep
  <2>5. ASSUME NEW v \in Users PROVE CalmAt(v)'
    <3>1. CalmAt(v) BY <1>0, <2>3
    <3>2. waits[v] # None => waits[v] \in Slots \ {q}
      BY <2>4, <3>1, CalmStages
    <3> QED BY <2>3, <2>4, <3>1, <3>2, SameRows, CalmElsewhere
  <2>6. OwnCalls' BY <1>0, <2>3, <2>4 DEF OwnCalls, Calm
  <2> QED BY <2>5, <2>6 DEF Calm
<1>4. ASSUME NEW u \in Users, CreateSession(u) PROVE Calm'
  <2> DEFINE i == Asked("connect", u, None, 0)
  <2>1. i \in Request /\ i.op = "connect" /\ i.user = u BY AskedIsRequest, ZeroCounts
  <2>2. /\ Call(u, i) /\ stage[u] = "asking" /\ UNCHANGED <<rows, file>>
        /\ stage' = [stage EXCEPT ![u] = "connecting"]
    BY <1>4 DEF CreateSession
  <2> HIDE DEF i
  <2>3. ~disturbed BY <2>2 DEF Call
  <2>4. waits[u] = None /\ file[u] = None /\ Mine(u) = {}
    BY <1>0, <2>2, <2>3 DEF CalmAt
  <2>5. "connecting" \in Stages BY DEF Stages
  <2> QED BY <2>1, <2>2, <2>3, <2>4, <2>5, CalmCall
<1>5. ASSUME NEW u \in Users, Disconnect(u) PROVE Calm'
  <2>1. stage[u] = "up" /\ UNCHANGED <<rows, file>> BY <1>5 DEF Disconnect
  <2>2. ~disturbed BY <1>5 DEF Disconnect, Call
  <2>3. waits[u] = None /\ file[u] # None /\ Mine(u) = {file[u]}
    BY <1>0, <2>1, <2>2 DEF CalmAt
  <2>4. file[u] \in Sessions /\ counted[u] \in Counts BY <2>3 DEF TypeOK
  <2> DEFINE i == Asked("disconnect", u, file[u], counted[u])
  <2>5. i \in Request /\ i.op = "disconnect" /\ i.id = file[u]
    BY <2>4, AskedIsRequest
  <2>6. Call(u, i) /\ stage' = [stage EXCEPT ![u] = "closing"]
    BY <1>5, <2>3 DEF Disconnect
  <2> HIDE DEF i
  <2>7. "closing" \in Stages BY DEF Stages
  <2> QED BY <2>1, <2>2, <2>3, <2>4, <2>5, <2>6, <2>7, CalmCall
<1>6. ASSUME NEW u \in Users, Connected(u) \/ Closed(u) PROVE Calm'
  <2>1. ~disturbed BY <1>6 DEF Connected, Closed
  <2> QED BY <1>6, <2>1, CalmAnswer
<1>7. ASSUME NEW u \in Users, Transfer(u) PROVE Calm'
  <2>1. UNCHANGED <<rows, pc, req, code, stage, waits, file>> /\ ~disturbed
    BY <1>7 DEF Transfer, server
  <2> QED BY <1>0, <2>1, SameRows, CalmElsewhere DEF Calm, OwnCalls
<1>8. /\ \A q \in Slots, s \in Sessions, n \in Counts : ~EndByOther(q, s, n)
      /\ \A u \in Users : ~GiveUp(u)
      /\ ~ProcessRestart /\ ~HostRestart /\ ~Crash
  BY DEF EndByOther, GiveUp, ProcessRestart, HostRestart, TunnelsEnd, Crash
<1>9. ASSUME NEW u \in Users, Connect(u) \/ TurnedAway(u) PROVE Calm'
  <2>1. /\ UNCHANGED <<rows, pc, req, code, waits, file>> /\ ~disturbed
        /\ stage[u] \in {"down", "asking"}
        /\ \E t \in {"down", "asking"} : stage' = [stage EXCEPT ![u] = t]
    BY <1>9 DEF Connect, TurnedAway, server
  <2>2. /\ stage'[u] \in {"down", "asking"}
        /\ \A v \in Users \ {u} : stage'[v] = stage[v]
    BY <2>1 DEF TypeOK
  <2>3. ASSUME NEW v \in Users PROVE CalmAt(v)'
    <3>1. CalmAt(v) /\ Mine(v)' = Mine(v) BY <1>0, <2>1, SameRows
    <3>2. CASE v = u BY <2>1, <2>2, <3>1, <3>2 DEF CalmAt
    <3>3. CASE v # u BY <2>1, <2>2, <3>1, <3>3, CalmElsewhere
    <3> QED BY <3>2, <3>3
  <2>4. OwnCalls' BY <1>0, <2>1 DEF OwnCalls
  <2> QED BY <2>3, <2>4 DEF Calm
<1> QED BY <1>1, <1>2, <1>3, <1>4, <1>5, <1>6, <1>7, <1>8, <1>9 DEF Next, Script

\* As long as no call, statement or process has failed and nobody else has
\* ended a session, the active sessions are exactly the tunnels that are
\* up, for any number of users, tunnels and requests.
THEOREM TunnelsAreActive == Spec => []ActiveAreTunnels
<1>1. Init => Waits /\ Calm
  BY DEF Init, Waits, Calm, CalmAt, OwnCalls, Mine, ActiveRows, Rows
<1>2. TypeInv /\ TypeInv' /\ Kept /\ Waits /\ (~disturbed => Calm) /\ [Next]_vars
      => Waits' /\ (~disturbed => Calm)'
  BY WaitsStep, CalmStep
<1>3. (~disturbed => Calm) => ActiveAreTunnels
  BY DEF Calm, CalmAt, Mine, ActiveAreTunnels
<1> QED
  BY <1>1, <1>2, <1>3, KeptAlways, PTL DEF Spec
=============================================================================
