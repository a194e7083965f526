------------------------- MODULE AccessGraphProofs -------------------------
(***************************************************************************)
(* Proofs about AccessGraph, for every graph at the start, every set of    *)
(* requests and every number of slots, unless a theorem says otherwise.    *)
(***************************************************************************)
EXTENDS AccessGraph, TLAPS

-----------------------------------------------------------------------------
(***************************************************************************)
(* Type correctness.  What an INSERT or an UPDATE stores has its type      *)
(* because only some kinds of request come to that statement.              *)
(***************************************************************************)
OpsAt(step) ==
  CASE step = "subordinate" -> {"join", "leave"}
    [] step \in {"group", "insert"} -> {"join", "grant"}
    [] step = "user" -> {"join", "routes"}
    [] step \in {"network", "exists"} -> {"grant"}
    [] step = "remove" -> {"leave", "revoke"}
    [] step \in {"named", "store"} -> {"create"}
    [] step = "load" -> {"update", "delete"}
    [] step \in {"fetch", "write", "refetch"} -> {"update"}
    [] step \in {"unlink", "erase"} -> {"delete"}
    [] step \in {"members", "preload", "grants", "networks"} -> {"routes"}
    [] OTHER -> Ops

PlacedAt(r) ==
  /\ pc[r] # "idle" => req[r] \in Inputs /\ req[r].op \in OpsAt(pc[r])
  /\ pc[r] \in {"named", "store", "write"} => req[r].cidr # Malformed
  /\ pc[r] = "unlink" => req[r].id \in Networks
Placed == \A r \in Slots : PlacedAt(r)

TypeInv == TypeOK /\ Placed

LEMMA InputFields ==
  ASSUME NEW i \in Inputs
  PROVE  /\ i \in Input /\ i.op \in Ops /\ i # None
         /\ i.op \in {"join", "leave"} => i.user \in Users /\ i.group \in Groups
         /\ i.op \in {"grant", "revoke"} => i.id \in Networks /\ i.group \in Groups
         /\ i.op \in {"update", "delete"} => i.id \in Ids
         /\ i.op = "create" => /\ i.id \in Ids /\ i.name \in Names
                               /\ i.cidr \in Cidrs \cup {None, Malformed}
         /\ i.op = "update" => /\ i.name \in Names \cup {Keep}
                               /\ i.cidr \in Cidrs \cup {Keep, Malformed}
         /\ i.op = "routes" => i.user \in Users
BY InputAssumption, MarkAssumption DEF Input

LEMMA TypeInit == Init => TypeInv
BY TableAssumption
DEF Init, TypeInv, TypeOK, Placed, PlacedAt, Steps, Codes, Nothing

\* What every step of a slot does to the control of the slots, and that it
\* keeps them in their places.
Moves(r) ==
  /\ pc' = [pc EXCEPT ![r] = pc'[r]] /\ pc'[r] \in Steps
  /\ req' = [req EXCEPT ![r] = req'[r]] /\ req'[r] \in Inputs \cup {None}
  /\ code' = [code EXCEPT ![r] = code'[r]] /\ code'[r] \in Codes
  /\ PlacedAt(r)'

LEMMA ReplyMoves ==
  ASSUME TypeInv, NEW r \in Slots, pc[r] # "idle",
         NEW c \in Codes, Reply(r, c), req' = req
  PROVE  Moves(r)
<1>1. req[r] \in Inputs /\ req[r].op \in Ops
  BY InputFields DEF TypeInv, Placed, PlacedAt
<1> QED BY <1>1 DEF Moves, Reply, TypeInv, TypeOK, PlacedAt, OpsAt, Steps, Codes

LEMMA GotoMoves ==
  ASSUME TypeInv, NEW r \in Slots, pc[r] # "idle",
         NEW step \in Steps, Goto(r, step), req' = req,
         step # "idle", req[r].op \in OpsAt(step),
         step \in {"named", "store", "write"} => req[r].cidr # Malformed,
         step = "unlink" => req[r].id \in Networks
  PROVE  Moves(r)
<1>1. req[r] \in Inputs
  BY DEF TypeInv, Placed, PlacedAt
<1> QED BY <1>1 DEF Moves, Goto, TypeInv, TypeOK, PlacedAt, Codes

\* What the handlers do first, and how they answer an error.
LEMMA HandlerSteps ==
  \A i \in Inputs :
    /\ i.op = "join" => FirstStep(i) \in {"subordinate", "group"}
    /\ i.op = "leave" => FirstStep(i) \in {"subordinate", "remove"}
    /\ i.op = "grant" => FirstStep(i) = (IF i.below = "groups" THEN "group" ELSE "network")
    /\ i.op = "revoke" => FirstStep(i) = "remove"
    /\ i.op = "create" => FirstStep(i) = "named"
    /\ i.op \in {"update", "delete"} => FirstStep(i) = "load"
    /\ i.op = "routes" => FirstStep(i) = "user"
    /\ NotFound(i) \in {404, 500} /\ Rejected(i) \in {400, 500}
<1> SUFFICES ASSUME NEW i \in Inputs
             PROVE  /\ i.op = "join" => FirstStep(i) \in {"subordinate", "group"}
                    /\ i.op = "leave" => FirstStep(i) \in {"subordinate", "remove"}
                    /\ i.op = "grant" => FirstStep(i) = (IF i.below = "groups" THEN "group" ELSE "network")
                    /\ i.op = "revoke" => FirstStep(i) = "remove"
                    /\ i.op = "create" => FirstStep(i) = "named"
                    /\ i.op \in {"update", "delete"} => FirstStep(i) = "load"
                    /\ i.op = "routes" => FirstStep(i) = "user"
                    /\ NotFound(i) \in {404, 500} /\ Rejected(i) \in {400, 500}
  OBVIOUS
<1> USE DEF FirstStep, NotFound, Rejected
<1>1. i.op \in Ops BY InputFields
<1>2. CASE i.op = "join"
  <2>1. Handler(i) = IF i.below = "groups" THEN GroupAddUser(i) ELSE UserAddGroup
    BY <1>2 DEF Handler
  <2> QED BY <1>2, <2>1 DEF GroupAddUser, UserAddGroup, Checked
<1>3. CASE i.op = "leave"
  <2>1. Handler(i) = IF i.below = "groups" THEN GroupRemoveUser(i) ELSE UserRemoveGroup
    BY <1>3 DEF Handler
  <2> QED BY <1>3, <2>1 DEF GroupRemoveUser, UserRemoveGroup, Checked
<1>4. CASE i.op = "grant"
  <2>1. Handler(i) = IF i.below = "groups" THEN GroupAddNetwork ELSE NetworkAddGroup
    BY <1>4 DEF Handler
  <2> QED BY <1>4, <2>1 DEF GroupAddNetwork, NetworkAddGroup
<1>5. CASE i.op = "revoke"
  <2>1. Handler(i) = IF i.below = "groups" THEN GroupRemoveNetwork ELSE NetworkRemoveGroup
    BY <1>5 DEF Handler
  <2> QED BY <1>5, <2>1 DEF GroupRemoveNetwork, NetworkRemoveGroup
<1>6. CASE i.op = "create"
  <2>1. Handler(i) = IF i.id \in Groups THEN GroupCreate ELSE NetworkCreate
    BY <1>6 DEF Handler
  <2> QED BY <1>6, <2>1 DEF GroupCreate, NetworkCreate
<1>7. CASE i.op = "update"
  <2>1. Handler(i) = IF i.id \in Groups THEN GroupUpdate ELSE NetworkUpdate
    BY <1>7 DEF Handler
  <2> QED BY <1>7, <2>1 DEF GroupUpdate, NetworkUpdate
<1>8. CASE i.op = "delete"
  <2>1. Handler(i) = IF i.id \in Groups THEN GroupDelete ELSE NetworkDelete
    BY <1>8 DEF Handler
  <2> QED BY <1>8, <2>1 DEF GroupDelete, NetworkDelete
<1>9. CASE i.op = "routes"
  <2>1. Handler(i) = IF i.role = None THEN GetUserRoutes ELSE UserGetGroups
    BY <1>9 DEF Handler
  <2> QED BY <1>9, <2>1 DEF GetUserRoutes, UserGetGroups
<1> QED BY <1>1, <1>2, <1>3, <1>4, <1>5, <1>6, <1>7, <1>8, <1>9 DEF Ops

LEMMA ArriveMoves == ASSUME TypeInv, NEW r \in Slots, Arrive(r) PROVE Moves(r)
<1>1. PICK i \in Inputs :
        /\ req' = [req EXCEPT ![r] = i]
        /\ \/ Refused(i) /\ Reply(r, 403)
           \/ ~Refused(i) /\ i.op = "create" /\ i.cidr = Malformed /\ Reply(r, 400)
           \/ /\ ~Refused(i) /\ ~(i.op = "create" /\ i.cidr = Malformed)
              /\ Goto(r, FirstStep(i))
  BY DEF Arrive
<1>2. i.op \in Ops BY InputFields
<1>3. CASE \E c \in {400, 403} : Reply(r, c)
  BY <1>1, <1>2, <1>3 DEF Reply, Moves, TypeInv, TypeOK, PlacedAt, OpsAt, Steps, Codes
<1>4. CASE Goto(r, FirstStep(i)) /\ ~(i.op = "create" /\ i.cidr = Malformed)
  <2>1. /\ FirstStep(i) \in Steps \ {"idle", "store", "write", "unlink"}
        /\ i.op \in OpsAt(FirstStep(i))
        /\ FirstStep(i) = "named" => i.op = "create"
    BY <1>2, HandlerSteps DEF OpsAt, Steps, Ops
  <2>2. pc' = [pc EXCEPT ![r] = FirstStep(i)] /\ code' = code
    BY <1>4 DEF Goto
  <2>3. pc'[r] = FirstStep(i) /\ req'[r] = i
    BY <2>2, <1>1 DEF TypeInv, TypeOK
  <2>4. PlacedAt(r)' BY <2>1, <2>3, <1>4 DEF PlacedAt
  <2> QED BY <1>1, <2>1, <2>2, <2>3, <2>4 DEF Moves, TypeInv, TypeOK
<1> QED BY <1>1, <1>3, <1>4

LEMMA ServeMoves ==
  ASSUME TypeInv, NEW r \in Slots, Serve(r), ~Finish(r) PROVE Moves(r)
<1> USE DEF OpsAt, Steps, Codes
<1>0. PlacedAt(r) BY DEF TypeInv, Placed
<1>1. pc[r] \notin {"idle", "reply"} => req[r] \in Inputs /\ NotFound(req[r]) \in Codes
                                        /\ Rejected(req[r]) \in Codes /\ FailCode(r) \in Codes
  BY <1>0, HandlerSteps DEF PlacedAt, FailCode
<1>2. CASE Subordinate(r)
  BY <1>0, <1>1, <1>2, ReplyMoves, GotoMoves DEF Subordinate, PlacedAt
<1>3. CASE FindGroup(r)
  BY <1>0, <1>1, <1>3, ReplyMoves, GotoMoves DEF FindGroup, PlacedAt
<1>4. CASE FindUser(r)
  BY <1>0, <1>1, <1>4, ReplyMoves, GotoMoves DEF FindUser, PlacedAt
<1>5. CASE FindNetwork(r)
  BY <1>0, <1>1, <1>5, ReplyMoves, GotoMoves DEF FindNetwork, PlacedAt
<1>6. CASE CheckGrant(r)
  BY <1>0, <1>1, <1>6, ReplyMoves, GotoMoves DEF CheckGrant, PlacedAt
<1>7. CASE InsertMember(r)
  BY <1>0, <1>1, <1>7, ReplyMoves, GotoMoves DEF InsertMember, PlacedAt
<1>8. CASE InsertGrant(r)
  BY <1>0, <1>1, <1>8, ReplyMoves, GotoMoves DEF InsertGrant, PlacedAt
<1>9. CASE Remove(r)
  BY <1>0, <1>1, <1>9, ReplyMoves, GotoMoves DEF Remove, PlacedAt
<1>10. CASE CheckName(r)
  BY <1>0, <1>1, <1>10, ReplyMoves, GotoMoves DEF CheckName, PlacedAt
<1>11. CASE Store(r)
  BY <1>0, <1>1, <1>11, ReplyMoves, GotoMoves DEF Store, PlacedAt
<1>12. CASE Load(r)
  BY <1>0, <1>1, <1>12, ReplyMoves, GotoMoves, InputFields DEF Load, PlacedAt, DeleteFrom
<1>13. CASE Fetch(r)
  BY <1>0, <1>1, <1>13, ReplyMoves, GotoMoves DEF Fetch, PlacedAt
<1>14. CASE Write(r)
  BY <1>0, <1>1, <1>14, ReplyMoves, GotoMoves DEF Write, PlacedAt
<1>15. CASE Refetch(r)
  BY <1>0, <1>1, <1>15, ReplyMoves, GotoMoves DEF Refetch, PlacedAt
<1>16. CASE Unlink(r)
  BY <1>0, <1>1, <1>16, ReplyMoves, GotoMoves DEF Unlink, PlacedAt
<1>17. CASE Erase(r)
  BY <1>0, <1>1, <1>17, ReplyMoves, GotoMoves DEF Erase, PlacedAt
<1>18. CASE ReadMembers(r)
  BY <1>0, <1>1, <1>18, ReplyMoves, GotoMoves DEF ReadMembers, PlacedAt
<1>19. CASE PreloadGroups(r)
  BY <1>0, <1>1, <1>19, ReplyMoves, GotoMoves DEF PreloadGroups, PlacedAt
<1>20. CASE ReadGrants(r)
  BY <1>0, <1>1, <1>20, ReplyMoves, GotoMoves DEF ReadGrants, PlacedAt, NextGroup
<1>21. CASE ReadNetworks(r)
  BY <1>0, <1>1, <1>21, ReplyMoves, GotoMoves DEF ReadNetworks, PlacedAt, NextGroup
<1>22. CASE DbError(r)
  BY <1>0, <1>1, <1>22, ReplyMoves, GotoMoves DEF DbError, PlacedAt
<1> QED BY <1>2, <1>3, <1>4, <1>5, <1>6, <1>7, <1>8, <1>9, <1>10, <1>11, <1>12, <1>13, <1>14, <1>15, <1>16, <1>17, <1>18, <1>19, <1>20, <1>21, <1>22 DEF Serve

\* A request that is served keeps its input, and its slot is free only when it
\* is finished.
LEMMA StillServed ==
  ASSUME TypeInv, NEW r \in Slots, Serve(r), ~Finish(r)
  PROVE  req' = req /\ pc'[r] # "idle"
<1>0. pc \in [Slots -> Steps] BY DEF TypeInv, TypeOK
<1>1. \A step : Goto(r, step) /\ step # "idle" => pc'[r] # "idle"
  BY <1>0 DEF Goto
<1>2. \A c : Reply(r, c) => pc'[r] # "idle"
  BY <1>0 DEF Reply
<1>3. CASE Subordinate(r) BY <1>1, <1>2, <1>3 DEF Subordinate
<1>4. CASE FindGroup(r) BY <1>1, <1>2, <1>4 DEF FindGroup
<1>5. CASE FindUser(r) BY <1>1, <1>2, <1>5 DEF FindUser
<1>6. CASE FindNetwork(r) BY <1>1, <1>2, <1>6 DEF FindNetwork
<1>7. CASE CheckGrant(r) BY <1>1, <1>2, <1>7 DEF CheckGrant
<1>8. CASE InsertMember(r) BY <1>1, <1>2, <1>8 DEF InsertMember
<1>9. CASE InsertGrant(r) BY <1>1, <1>2, <1>9 DEF InsertGrant
<1>10. CASE Remove(r) BY <1>1, <1>2, <1>10 DEF Remove
<1>11. CASE CheckName(r) BY <1>1, <1>2, <1>11 DEF CheckName
<1>12. CASE Store(r) BY <1>1, <1>2, <1>12 DEF Store
<1>13. CASE Load(r) BY <1>1, <1>2, <1>13 DEF Load, DeleteFrom
<1>14. CASE Fetch(r) BY <1>1, <1>2, <1>14 DEF Fetch
<1>15. CASE Write(r) BY <1>1, <1>2, <1>15 DEF Write
<1>16. CASE Refetch(r) BY <1>1, <1>2, <1>16 DEF Refetch
<1>17. CASE Unlink(r) BY <1>1, <1>2, <1>17 DEF Unlink
<1>18. CASE Erase(r) BY <1>1, <1>2, <1>18 DEF Erase
<1>19. CASE ReadMembers(r) BY <1>1, <1>2, <1>19 DEF ReadMembers
<1>20. CASE PreloadGroups(r) BY <1>1, <1>2, <1>20 DEF PreloadGroups
<1>21. CASE ReadGrants(r) BY <1>1, <1>2, <1>21 DEF ReadGrants, NextGroup
<1>22. CASE ReadNetworks(r) BY <1>1, <1>2, <1>22 DEF ReadNetworks, NextGroup
<1>23. CASE DbError(r) BY <1>1, <1>2, <1>23 DEF DbError
<1> QED BY <1>3, <1>4, <1>5, <1>6, <1>7, <1>8, <1>9, <1>10, <1>11, <1>12, <1>13, <1>14, <1>15, <1>16, <1>17, <1>18, <1>19, <1>20, <1>21, <1>22, <1>23 DEF Serve

LEMMA FinishMoves == ASSUME TypeInv, NEW r \in Slots, Finish(r) PROVE Moves(r)
BY DEF Finish, Moves, TypeInv, TypeOK, PlacedAt, Steps, Codes

\* A slot that moves leaves the others in their places.
LEMMA MovesPlaced == ASSUME TypeInv, NEW r \in Slots, Moves(r) PROVE Placed'
BY DEF Moves, TypeInv, TypeOK, Placed, PlacedAt

\* The rows of groups and networks.
ItemStep(r) ==
  \/ items' = items
  \/ /\ pc[r] = "store" /\ req[r].op = "create"
     /\ \E o \in SameTable(req[r].id) : /\ items[o] = None
                                        /\ items' = [items EXCEPT ![o] = NewItem(req[r])]
  \/ /\ pc[r] = "write" /\ req[r].op = "update" /\ Live(req[r].id)
     /\ items' = [items EXCEPT ![req[r].id] = Updated(req[r], items[req[r].id])]
  \/ /\ pc[r] = "erase" /\ req[r].op = "delete" /\ Live(req[r].id)
     /\ items' = [items EXCEPT ![req[r].id].deleted = TRUE]

LEMMA ItemSteps ==
  ASSUME TypeInv, NEW r \in Slots, Arrive(r) \/ Serve(r) PROVE ItemStep(r)
<1>1. PlacedAt(r) BY DEF TypeInv, Placed
<1>2. CASE Store(r) BY <1>1, <1>2 DEF Store, ItemStep, PlacedAt, OpsAt
<1>3. CASE Write(r)
  BY <1>1, <1>3, InputFields DEF Write, WhereLive, ItemStep, PlacedAt, OpsAt, TypeInv, TypeOK
<1>4. CASE Erase(r) BY <1>1, <1>4 DEF Erase, WhereLive, ItemStep, PlacedAt, OpsAt
<1>5. CASE ~Store(r) /\ ~Write(r) /\ ~Erase(r)
  BY <1>5 DEF ItemStep, Serve, Arrive, Subordinate, FindGroup, FindUser, FindNetwork,
              CheckGrant, InsertMember, InsertGrant, Remove, CheckName, Load, Fetch,
              Refetch, Unlink, ReadMembers, PreloadGroups, ReadGrants, ReadNetworks,
              DbError, Finish, tables
<1> QED BY <1>2, <1>3, <1>4, <1>5

\* What is stored is a row, none goes, and a deleted one is left alone.
LEMMA ItemsType ==
  ASSUME TypeInv, NEW r \in Slots, ItemStep(r)
  PROVE  /\ items' \in [Ids -> Item \cup {None}]
         /\ \A id \in Ids : items[id] # None => items'[id] # None
         /\ \A id \in Ids : items[id] # None /\ items[id].deleted => items'[id] = items[id]
<1>0. /\ PlacedAt(r) /\ items \in [Ids -> Item \cup {None}]
      /\ None \notin Item
  BY MarkAssumption DEF TypeInv, TypeOK, Placed
<1>1. CASE items' = items BY <1>0, <1>1
<1>2. CASE pc[r] = "store" /\ req[r].op = "create"
           /\ \E o \in SameTable(req[r].id) : /\ items[o] = None
                                              /\ items' = [items EXCEPT ![o] = NewItem(req[r])]
  <2>1. PICK o \in SameTable(req[r].id) : /\ items[o] = None
                                         /\ items' = [items EXCEPT ![o] = NewItem(req[r])]
    BY <1>2
  <2>2. o \in Ids BY DEF SameTable, Ids
  <2>3. NewItem(req[r]) \in Item
    BY <1>0, <1>2, InputFields DEF PlacedAt, NewItem, Item
  <2> QED BY <1>0, <2>1, <2>2, <2>3
<1>3. CASE pc[r] = "write" /\ req[r].op = "update" /\ Live(req[r].id)
           /\ items' = [items EXCEPT ![req[r].id] = Updated(req[r], items[req[r].id])]
  <2>1. /\ req[r].id \in Ids /\ req[r].name \in Names \cup {Keep}
        /\ req[r].cidr \in Cidrs \cup {Keep}
    BY <1>0, <1>3, InputFields DEF PlacedAt
  <2>2. items[req[r].id] \in Item /\ ~items[req[r].id].deleted
    BY <1>0, <1>3, <2>1 DEF Live
  <2>3. Updated(req[r], items[req[r].id]) \in Item
    BY <2>1, <2>2 DEF Updated, Or, Item
  <2> QED BY <1>0, <1>3, <2>1, <2>2, <2>3
<1>4. CASE pc[r] = "erase" /\ req[r].op = "delete" /\ Live(req[r].id)
           /\ items' = [items EXCEPT ![req[r].id].deleted = TRUE]
  <2>1. req[r].id \in Ids
    BY <1>0, <1>4, InputFields DEF PlacedAt
  <2>2. items[req[r].id] \in Item /\ ~items[req[r].id].deleted
    BY <1>0, <1>4, <2>1 DEF Live
  <2>3. [items[req[r].id] EXCEPT !.deleted = TRUE] \in Item
    BY <2>2 DEF Item
  <2> QED BY <1>0, <1>4, <2>1, <2>2, <2>3
<1> QED BY <1>1, <1>2, <1>3, <1>4 DEF ItemStep

\* The associations: what a step adds, and that deleting takes only.
LEMMA PairsType ==
  ASSUME TypeInv, NEW r \in Slots, Arrive(r) \/ Serve(r)
  PROVE  /\ members' \subseteq Users \X Groups
         /\ grants' \subseteq Networks \X Groups
         /\ raced' \subseteq Networks \X Groups
         /\ users' = users
         /\ wrote' \in [Slots -> BOOLEAN]
<1>0. /\ PlacedAt(r)
      /\ members \subseteq Users \X Groups /\ grants \subseteq Networks \X Groups
      /\ raced \subseteq Networks \X Groups /\ wrote \in [Slots -> BOOLEAN]
  BY DEF TypeInv, TypeOK, Placed
<1>1. CASE InsertMember(r)
  <2>1. req[r].user \in Users /\ req[r].group \in Groups
    BY <1>0, <1>1, InputFields DEF InsertMember, PlacedAt
  <2>2. members' \subseteq members \cup {<<req[r].user, req[r].group>>}
    BY <1>1 DEF InsertMember
  <2>3. members' \subseteq Users \X Groups BY <1>0, <2>1, <2>2
  <2>4. wrote' \in [Slots -> BOOLEAN] /\ users' = users /\ grants' = grants /\ raced' = raced
    BY <1>0, <1>1 DEF InsertMember
  <2> QED BY <1>0, <2>3, <2>4
<1>2. CASE InsertGrant(r)
  <2>1. req[r].id \in Networks /\ req[r].group \in Groups
    BY <1>0, <1>2, InputFields DEF InsertGrant, PlacedAt
  <2>2. /\ grants' \subseteq grants \cup {<<req[r].id, req[r].group>>}
        /\ raced' \subseteq raced \cup {<<req[r].id, req[r].group>>}
    BY <1>2 DEF InsertGrant
  <2>3. grants' \subseteq Networks \X Groups /\ raced' \subseteq Networks \X Groups
    BY <1>0, <2>1, <2>2
  <2>4. wrote' \in [Slots -> BOOLEAN] /\ users' = users /\ members' = members
    BY <1>0, <1>2 DEF InsertGrant
  <2> QED BY <1>0, <2>3, <2>4
<1>3. CASE Remove(r) BY <1>0, <1>3 DEF Remove
<1>4. CASE Unlink(r) BY <1>0, <1>4 DEF Unlink
<1>5. CASE Store(r) \/ Write(r) \/ Erase(r) \/ Finish(r)
  BY <1>0, <1>5 DEF Store, Write, Erase, Finish, tables
<1>6. CASE Arrive(r) \/ Subordinate(r) \/ FindGroup(r) \/ FindUser(r) \/ FindNetwork(r)
           \/ CheckGrant(r) \/ CheckName(r) \/ Load(r) \/ Fetch(r) \/ Refetch(r)
           \/ ReadMembers(r) \/ PreloadGroups(r) \/ ReadGrants(r) \/ ReadNetworks(r)
           \/ DbError(r)
  BY <1>0, <1>6 DEF Arrive, Subordinate, FindGroup, FindUser, FindNetwork, CheckGrant,
                    CheckName, Load, Fetch, Refetch, ReadMembers, PreloadGroups,
                    ReadGrants, ReadNetworks, DbError, tables
<1> QED BY <1>1, <1>2, <1>3, <1>4, <1>5, <1>6 DEF Serve

LEMMA CidrsType ==
  ASSUME TypeInv, NEW nets \in SUBSET Networks
  PROVE  CidrsOf(nets) \subseteq Cidrs \cup {None}
BY DEF CidrsOf, Preloaded, Live, Ids, Item, TypeInv, TypeOK

LEMMA ReadingType ==
  ASSUME TypeInv, NEW r \in Slots, Arrive(r) \/ Serve(r)
  PROVE  /\ todo' \in [Slots -> SUBSET (Groups \cup {None})]
         /\ asked' \in [Slots -> SUBSET Networks]
         /\ routes' \in [Slots -> SUBSET (Cidrs \cup {None})]
<1>0. /\ todo \in [Slots -> SUBSET (Groups \cup {None})]
      /\ asked \in [Slots -> SUBSET Networks]
      /\ routes \in [Slots -> SUBSET (Cidrs \cup {None})]
  BY DEF TypeInv, TypeOK
<1>1. CASE ReadMembers(r) BY <1>0, <1>1 DEF ReadMembers
<1>2. CASE PreloadGroups(r)
  <2>1. {IF Preloaded(g) THEN g ELSE None : g \in todo[r]} \subseteq Groups \cup {None}
    BY <1>0
  <2> QED BY <1>0, <1>2, <2>1 DEF PreloadGroups
<1>3. CASE ReadGrants(r) BY <1>0, <1>3 DEF ReadGrants
<1>4. CASE ReadNetworks(r)
  <2>1. CidrsOf(asked[r]) \subseteq Cidrs \cup {None} BY <1>0, CidrsType
  <2> QED BY <1>0, <1>4, <2>1 DEF ReadNetworks
<1>5. CASE Finish(r) BY <1>0, <1>5 DEF Finish
<1>6. CASE Arrive(r) \/ Subordinate(r) \/ FindGroup(r) \/ FindUser(r) \/ FindNetwork(r)
           \/ CheckGrant(r) \/ InsertMember(r) \/ InsertGrant(r) \/ Remove(r)
           \/ CheckName(r) \/ Store(r) \/ Load(r) \/ Fetch(r) \/ Write(r)
           \/ Refetch(r) \/ Unlink(r) \/ Erase(r) \/ DbError(r)
  BY <1>0, <1>6 DEF Arrive, Subordinate, FindGroup, FindUser, FindNetwork, CheckGrant,
                    InsertMember, InsertGrant, Remove, CheckName, Store, Load, Fetch,
                    Write, Refetch, Unlink, Erase, DbError, reading
<1> QED BY <1>1, <1>2, <1>3, <1>4, <1>5, <1>6 DEF Serve

\* The observers follow from the tables.
LEMMA ObserveType ==
  ASSUME TypeInv, Observe, items' \in [Ids -> Item \cup {None}],
         grants' \subseteq Networks \X Groups
  PROVE  /\ seen' \in [Slots -> [groups : SUBSET Groups, grants : SUBSET (Networks \X Groups),
                                  cidrs : SUBSET (Networks \X (Cidrs \cup {None}))]]
         /\ held' \in [Slots -> SUBSET (Groups \X Networks \X (Cidrs \cup {None}))]
<1> DEFINE Seen == [groups : SUBSET Groups, grants : SUBSET (Networks \X Groups),
                    cidrs : SUBSET (Networks \X (Cidrs \cup {None}))]
           Held == SUBSET (Groups \X Networks \X (Cidrs \cup {None}))
<1>0. seen \in [Slots -> Seen] /\ held \in [Slots -> Held]
  BY DEF TypeInv, TypeOK
<1>1. \A n \in Networks : Live(n)' => items'[n].cidr \in Cidrs \cup {None}
  BY DEF Live, Ids, Item
<1>2. \A u : InEffect(u)' \in Seen
  BY <1>1 DEF InEffect
<1>3. \A u : Paths(u)' \in Held
  <2>1. ASSUME NEW u, NEW path \in Paths(u)'
        PROVE  path \in Groups \X Networks \X (Cidrs \cup {None})
    <3>1. PICK p \in grants' : Live(p[1])' /\ path = <<p[2], p[1], items'[p[1]].cidr>>
      BY <2>1 DEF Paths
    <3>2. p[1] \in Networks /\ p[2] \in Groups OBVIOUS
    <3> QED BY <1>1, <3>1, <3>2
  <2> QED BY <2>1
<1>4. Nothing \in Seen BY DEF Nothing
<1>5. \A a, b \in Seen : Joined(a, b) \in Seen BY DEF Joined
<1>6. \A r \in Slots : seen'[r] \in Seen
  BY <1>0, <1>2, <1>4, <1>5 DEF Observe
<1>7. \A r \in Slots : held'[r] \in Held
  BY <1>0, <1>3 DEF Observe
<1> QED BY <1>6, <1>7 DEF Observe

LEMMA ServeObserves ==
  ASSUME NEW r \in Slots, Arrive(r) \/ Serve(r) PROVE Observe
BY DEF Arrive, Serve, Subordinate, FindGroup, FindUser, FindNetwork, CheckGrant,
       InsertMember, InsertGrant, Remove, CheckName, Store, Load, Fetch, Write,
       Refetch, Unlink, Erase, ReadMembers, PreloadGroups, ReadGrants, ReadNetworks,
       DbError, Finish

LEMMA SlotMoves ==
  ASSUME TypeInv, NEW r \in Slots, Arrive(r) \/ Serve(r) PROVE Moves(r)
BY ArriveMoves, ServeMoves, FinishMoves

LEMMA TypeNext == TypeInv /\ [Next]_vars => TypeInv'
<1> SUFFICES ASSUME TypeInv, [Next]_vars PROVE TypeInv'
  OBVIOUS
<1>1. ASSUME NEW r \in Slots, Arrive(r) \/ Serve(r) PROVE TypeInv'
  <2>1. Moves(r) /\ Placed' BY <1>1, SlotMoves, MovesPlaced
  <2>2. items' \in [Ids -> Item \cup {None}] BY <1>1, ItemSteps, ItemsType
  <2>3. /\ pc' \in [Slots -> Steps] /\ code' \in [Slots -> Codes]
        /\ req' \in [Slots -> Input \cup {None}]
    BY <2>1, InputFields DEF Moves, TypeInv, TypeOK
  <2>4. users' \subseteq Users BY <1>1, PairsType DEF TypeInv, TypeOK
  <2> QED
    BY <1>1, <2>1, <2>2, <2>3, <2>4, PairsType, ReadingType, ServeObserves, ObserveType
    DEF TypeInv, TypeOK
<1>2. ASSUME NEW u \in Users, Account(u) PROVE TypeInv'
  BY <1>2, ObserveType DEF Account, TypeInv, TypeOK, Placed, PlacedAt, reading
<1>3. CASE UNCHANGED vars
  BY <1>3 DEF vars, tables, reading, TypeInv, TypeOK, Placed, PlacedAt
<1> QED BY <1>1, <1>2, <1>3 DEF Next

\* Every variable keeps its type, whatever is asked for at one time.
THEOREM TypeCorrect == Spec => []TypeOK
<1>1. TypeInv => TypeOK BY DEF TypeInv
<1> QED BY <1>1, TypeInit, TypeNext, PTL DEF Spec

-----------------------------------------------------------------------------
(***************************************************************************)
(* Deletion.  A deleted row is matched by no statement; and an association *)
(* with a deleted network was made between the two statements of its       *)
(* deletion or later, never left behind by it.                             *)
(***************************************************************************)
LEMMA Requests ==
  ASSUME Next
  PROVE  \/ \E r \in Slots : Arrive(r) \/ Serve(r)
         \/ \E u \in Users : Account(u)
BY DEF Next

\* No row that is deleted changes any more.
THEOREM DeletedStayDeleted == Spec => DeletedItemsStay
<1> DEFINE Stays == \A id \in Ids : items[id] # None /\ items[id].deleted => items'[id] = items[id]
<1>1. TypeInv /\ [Next]_vars => [Stays]_vars
  <2> SUFFICES ASSUME TypeInv, [Next]_vars PROVE [Stays]_vars
    OBVIOUS
  <2>1. ASSUME NEW r \in Slots, Arrive(r) \/ Serve(r) PROVE Stays
    BY <2>1, ItemSteps, ItemsType
  <2>2. ASSUME NEW u \in Users, Account(u) PROVE Stays
    BY <2>2 DEF Account
  <2> QED BY <2>1, <2>2, Requests
<1> QED BY <1>1, TypeInit, TypeNext, PTL DEF Spec, DeletedItemsStay

Erasing(id) == \E s \in Slots : pc[s] = "erase" /\ req[s].id = id
OrphanInv == \A p \in grants \ raced : Live(p[1]) /\ ~Erasing(p[1])

LEMMA BeingDeletedDef == \A id : BeingDeleted(id) <=> ~Live(id) \/ Erasing(id)
BY DEF BeingDeleted, Erasing

\* A live row stays live unless it is erased.
LEMMA LiveStays ==
  ASSUME TypeInv, NEW r \in Slots, ItemStep(r), NEW id \in Ids, Live(id),
         ~(pc[r] = "erase" /\ req[r].id = id)
  PROVE  Live(id)'
<1>0. /\ PlacedAt(r) /\ items \in [Ids -> Item \cup {None}] /\ None \notin Item
      /\ items'[id] # None
  BY ItemsType, MarkAssumption DEF TypeInv, TypeOK, Placed, Live
<1>1. CASE items' = items BY <1>1 DEF Live
<1>2. CASE \E o \in SameTable(req[r].id) : /\ items[o] = None
                                          /\ items' = [items EXCEPT ![o] = NewItem(req[r])]
  BY <1>0, <1>2 DEF Live
<1>3. CASE pc[r] = "write" /\ items' = [items EXCEPT ![req[r].id] = Updated(req[r], items[req[r].id])]
  <2>1. CASE req[r].id = id
    <3>1. items[id] \in Item BY <1>0 DEF Live
    <3>2. Updated(req[r], items[id]).deleted = items[id].deleted
      BY <3>1 DEF Updated, Item
    <3> QED BY <1>0, <1>3, <2>1, <3>2 DEF Live
  <2>2. CASE req[r].id # id BY <1>0, <1>3, <2>2 DEF Live
  <2> QED BY <2>1, <2>2
<1>4. CASE pc[r] = "erase" /\ items' = [items EXCEPT ![req[r].id].deleted = TRUE]
  BY <1>0, <1>4 DEF Live
<1> QED BY <1>1, <1>2, <1>3, <1>4 DEF ItemStep

\* What a step may do to the associations of networks and to the slots that
\* are about to erase one.
LEMMA FirstStepIsNotErase == \A i \in Inputs : FirstStep(i) # "erase"
BY InputFields, HandlerSteps DEF Ops

LEMMA OrphanStep ==
  ASSUME TypeInv, OrphanInv, NEW r \in Slots, Arrive(r) \/ Serve(r)
  PROVE  OrphanInv'
<1>0. /\ PlacedAt(r) /\ Moves(r) /\ ItemStep(r)
      /\ grants \subseteq Networks \X Groups
      /\ \A p \in grants : p[1] \in Networks /\ p[1] \in Ids
  BY SlotMoves, ItemSteps DEF TypeInv, TypeOK, Placed, Ids
<1>1. \A s \in Slots \ {r} : pc'[s] = pc[s] /\ req'[s] = req[s]
  BY <1>0 DEF Moves, TypeInv, TypeOK
<1>2. SUFFICES ASSUME NEW p \in grants', p \notin raced'
               PROVE  Live(p[1])' /\ ~Erasing(p[1])'
  BY DEF OrphanInv
<1>3. ASSUME p \in grants, p \notin raced, pc'[r] = "erase" => req'[r].id # p[1]
      PROVE  Live(p[1])' /\ ~Erasing(p[1])'
  <2>1. Live(p[1]) /\ ~Erasing(p[1]) BY <1>3 DEF OrphanInv
  <2>2. Live(p[1])' BY <1>0, <1>3, <2>1, LiveStays DEF Erasing
  <2> QED BY <1>1, <1>3, <2>1, <2>2 DEF Erasing
<1>4. CASE Unlink(r)
  <2>1. pc'[r] = "erase" /\ req'[r] = req[r] /\ p \in grants /\ p[1] # req[r].id
    BY <1>4 DEF Unlink, Goto, TypeInv, TypeOK
  <2>2. p \notin raced BY <1>2, <1>4 DEF Unlink
  <2> QED BY <1>3, <2>1, <2>2
<1>5. CASE InsertGrant(r)
  <2>1. pc'[r] = "reply" BY <1>5 DEF InsertGrant, Reply, TypeInv, TypeOK
  <2>2. CASE p \in grants
    BY <1>2, <1>3, <1>5, <2>1, <2>2 DEF InsertGrant
  <2>3. CASE p \notin grants
    <3>1. p = <<req[r].id, req[r].group>> /\ ~BeingDeleted(p[1]) /\ items' = items
      BY <1>2, <1>5, <2>3 DEF InsertGrant
    <3> QED BY <1>1, <2>1, <3>1, BeingDeletedDef DEF Erasing, Live
  <2> QED BY <2>2, <2>3
<1>6. CASE Remove(r)
  <2>1. pc'[r] = "reply" BY <1>6 DEF Remove, Reply, TypeInv, TypeOK
  <2>2. p \in grants /\ raced' = raced \cap grants'
    BY <1>6 DEF Remove
  <2> QED BY <1>2, <1>3, <2>1, <2>2
<1>7. CASE ~Unlink(r) /\ ~InsertGrant(r) /\ ~Remove(r)
  <2>1. grants' = grants /\ raced' = raced
    BY <1>7 DEF Arrive, Serve, Subordinate, FindGroup, FindUser, FindNetwork, CheckGrant,
                InsertMember, CheckName, Store, Load, Fetch, Write, Refetch, Erase,
                ReadMembers, PreloadGroups, ReadGrants, ReadNetworks, DbError, Finish, tables
  <2>2. pc'[r] = "erase" => Load(r) /\ req'[r].id \notin Networks
    <3>1. CASE Load(r)
      BY <3>1 DEF Load, Goto, Reply, DeleteFrom, TypeInv, TypeOK
    <3>2. CASE Arrive(r)
      BY <3>2, FirstStepIsNotErase DEF Arrive, Goto, Reply, TypeInv, TypeOK
    <3>3. CASE Subordinate(r) \/ FindGroup(r) \/ FindUser(r) \/ FindNetwork(r) \/ CheckGrant(r)
      BY <3>3 DEF Subordinate, FindGroup, FindUser, FindNetwork, CheckGrant, Goto, Reply,
                  TypeInv, TypeOK
    <3>4. CASE InsertMember(r) \/ Store(r) \/ Refetch(r) \/ Erase(r) \/ Finish(r)
      BY <3>4 DEF InsertMember, Store, Refetch, Erase, Finish, Reply, TypeInv, TypeOK
    <3>5. CASE CheckName(r) \/ Fetch(r) \/ Write(r) \/ DbError(r)
      BY <3>5 DEF CheckName, Fetch, Write, DbError, Goto, Reply, TypeInv, TypeOK
    <3>6. CASE ReadMembers(r) \/ PreloadGroups(r) \/ ReadGrants(r) \/ ReadNetworks(r)
      BY <3>6 DEF ReadMembers, PreloadGroups, ReadGrants, ReadNetworks, NextGroup, Goto,
                  Reply, TypeInv, TypeOK
    <3> QED BY <1>7, <3>1, <3>2, <3>3, <3>4, <3>5, <3>6 DEF Serve
  <2> QED BY <1>0, <1>2, <1>3, <2>1, <2>2
<1> QED BY <1>4, <1>5, <1>6, <1>7

LEMMA OrphanNext == TypeInv /\ OrphanInv /\ [Next]_vars => OrphanInv'
<1> SUFFICES ASSUME TypeInv, OrphanInv, [Next]_vars PROVE OrphanInv'
  OBVIOUS
<1>1. ASSUME NEW u \in Users, Account(u) PROVE OrphanInv'
  BY <1>1 DEF Account, OrphanInv, Live, Erasing
<1>2. CASE UNCHANGED vars
  BY <1>2 DEF vars, tables, OrphanInv, Live, Erasing
<1> QED BY <1>1, <1>2, OrphanStep, Requests

LEMMA OrphanInit == Init => OrphanInv
BY TableAssumption DEF Init, OrphanInv, Live, Erasing

\* The associations that are left of a deleted network are those that were
\* made while it was being deleted.
THEOREM OrphansAreRaced == Spec => []OrphansOnlyByRace
<1>1. OrphanInv => OrphansOnlyByRace BY DEF OrphanInv, OrphansOnlyByRace
<1> QED BY <1>1, TypeInit, TypeNext, OrphanInit, OrphanNext, PTL DEF Spec

\* One request at a time: the network that a grant has found is still there
\* when it is stored.
SerialInv ==
  /\ raced = {}
  /\ \A r \in Slots :
       /\ pc[r] \in {"exists", "insert"} /\ req[r].op = "grant" => Live(req[r].id)
       /\ pc[r] = "group" /\ req[r].op = "grant" /\ req[r].below # "groups" =>
            Live(req[r].id)

LEMMA SerialStep ==
  ASSUME TypeInv, SerialInv, NEW r \in Slots, Slots = {r}, Arrive(r) \/ Serve(r)
  PROVE  SerialInv'
<1>0. /\ PlacedAt(r) /\ Moves(r) /\ req' = [req EXCEPT ![r] = req'[r]]
  BY SlotMoves DEF TypeInv, TypeOK, Placed, Moves
<1>1. CASE Arrive(r)
  BY <1>0, <1>1, InputFields, HandlerSteps
  DEF SerialInv, Arrive, Reply, Goto, Ops, TypeInv, TypeOK
<1>2. CASE FindGroup(r) \/ FindNetwork(r) \/ CheckGrant(r)
  BY <1>0, <1>2
  DEF SerialInv, FindGroup, FindNetwork, CheckGrant, Reply, Goto, Live, tables,
      TypeInv, TypeOK, PlacedAt, OpsAt
<1>3. CASE InsertGrant(r)
  <2>1. ~BeingDeleted(req[r].id)
    BY <1>3, BeingDeletedDef DEF InsertGrant, SerialInv, Erasing
  <2> QED BY <1>3, <2>1 DEF InsertGrant, SerialInv, Reply, TypeInv, TypeOK
<1>4. CASE DbError(r)
  BY <1>0, <1>4 DEF DbError, SerialInv, Reply, Goto, Live, tables, TypeInv, TypeOK
<1>5. CASE FindUser(r)
  BY <1>0, <1>5 DEF FindUser, SerialInv, Reply, Goto, tables, TypeInv, TypeOK
<1>6. CASE Subordinate(r)
  BY <1>0, <1>6
  DEF Subordinate, SerialInv, Reply, Goto, tables, TypeInv, TypeOK, PlacedAt, OpsAt
<1>7. CASE Remove(r) \/ Unlink(r)
  BY <1>0, <1>7 DEF Remove, Unlink, SerialInv, Reply, Goto, TypeInv, TypeOK
<1>8. CASE InsertMember(r) \/ CheckName(r) \/ Store(r) \/ Load(r) \/ Fetch(r) \/ Write(r)
           \/ Refetch(r) \/ Erase(r) \/ ReadMembers(r) \/ PreloadGroups(r)
           \/ ReadGrants(r) \/ ReadNetworks(r) \/ Finish(r)
  <2>1. raced' = raced /\ pc'[r] \notin {"exists", "insert", "group"}
    <3>1. CASE InsertMember(r) \/ Store(r) \/ Refetch(r) \/ Erase(r) \/ Finish(r)
      BY <3>1 DEF InsertMember, Store, Refetch, Erase, Finish, Reply, TypeInv, TypeOK
    <3>2. CASE CheckName(r) \/ Load(r) \/ Fetch(r) \/ Write(r)
      BY <3>2 DEF CheckName, Load, DeleteFrom, Fetch, Write, Reply, Goto, TypeInv, TypeOK
    <3>3. CASE ReadMembers(r) \/ PreloadGroups(r) \/ ReadGrants(r) \/ ReadNetworks(r)
      BY <3>3 DEF ReadMembers, PreloadGroups, ReadGrants, ReadNetworks, NextGroup, Reply,
                  Goto, TypeInv, TypeOK
    <3> QED BY <1>8, <3>1, <3>2, <3>3
  <2> QED BY <2>1 DEF SerialInv
<1> QED BY <1>1, <1>2, <1>3, <1>4, <1>5, <1>6, <1>7, <1>8 DEF Serve

\* Served one request at a time, no association is left of a deleted network:
\* it takes a race to break what AddNetworkToGroup is to guarantee.
THEOREM SerialLeavesNoOrphan ==
  ASSUME NEW r, Slots = {r} PROVE Spec => []NoOrphan
<1>1. Init => SerialInv BY DEF Init, SerialInv
<1>2. TypeInv /\ SerialInv /\ [Next]_vars => SerialInv'
  <2>1. ASSUME NEW u \in Users, Account(u), SerialInv PROVE SerialInv'
    BY <2>1 DEF Account, SerialInv, Live
  <2>2. ASSUME UNCHANGED vars, SerialInv PROVE SerialInv'
    BY <2>2 DEF vars, tables, SerialInv, Live
  <2> QED BY <2>1, <2>2, SerialStep, Requests
<1>3. OrphanInv /\ SerialInv => NoOrphan
  BY DEF OrphanInv, SerialInv, NoOrphan
<1> QED
  BY <1>1, <1>2, <1>3, TypeInit, TypeNext, OrphanInit, OrphanNext, PTL DEF Spec

-----------------------------------------------------------------------------
(***************************************************************************)
(* The routes of a user are collected over several statements, between     *)
(* which everything may change.  Why the result is still right:            *)
(*   - a row that is deleted does not come back, so that a group which is  *)
(*     there when the groups are read was there when the memberships were; *)
(*   - each further statement finds what is in effect at that time;        *)
(*   - a path that is never broken is found by each of them.               *)
(***************************************************************************)
\* Memberships are of groups that have a row, deleted or not.
RowsInv ==
  /\ \A p \in members : items[p[2]] # None
  /\ \A r \in Slots :
       pc[r] \in {"user", "insert"} /\ req[r].op = "join" => items[req[r].group] # None

GrantedBy(s, c) ==
  \E g \in s.groups, n \in Networks : <<n, g>> \in s.grants /\ <<n, c>> \in s.cidrs

GrantedAt(r) ==
  /\ pc[r] = "idle" => routes[r] = {}
  /\ Routing(r) =>
       /\ InEffect(req[r].user).groups \subseteq seen[r].groups
       /\ InEffect(req[r].user).grants \subseteq seen[r].grants
       /\ InEffect(req[r].user).cidrs \subseteq seen[r].cidrs
  /\ Routing(r) /\ pc[r] \in {"user", "members", "preload"} => routes[r] = {}
  /\ pc[r] = "preload" =>
       \A g \in todo[r] : g \in Groups /\ items[g] # None /\ (Live(g) => g \in seen[r].groups)
  /\ pc[r] \in {"grants", "networks"} => todo[r] \subseteq seen[r].groups \cup {None}
  /\ pc[r] = "networks" => \E g \in seen[r].groups : \A n \in asked[r] : <<n, g>> \in seen[r].grants
  /\ Routing(r) \/ Routed(r) => \A c \in routes[r] \ {None} : GrantedBy(seen[r], c)

HeldAt(r) ==
  /\ Routing(r) => held[r] \subseteq Paths(req[r].user)
  /\ pc[r] = "preload" => \A path \in held[r] : path[1] \in todo[r]
  /\ pc[r] = "grants" => \A path \in held[r] : path[1] \in todo[r] \/ path[3] \in routes[r]
  /\ pc[r] = "networks" => \A path \in held[r] :
       path[1] \in todo[r] \/ path[2] \in asked[r] \/ path[3] \in routes[r]
  /\ Routed(r) => \A path \in held[r] : path[3] \in routes[r]

RouteInv == RowsInv /\ \A r \in Slots : GrantedAt(r) /\ HeldAt(r)

\* What the observers of a slot take down in any step.
LEMMA Observed ==
  ASSUME TypeInv, TypeInv', Observe, NEW r \in Slots
  PROVE  /\ Routing(r)' => /\ InEffect(req[r].user).groups' \subseteq seen'[r].groups
                           /\ InEffect(req[r].user).grants' \subseteq seen'[r].grants
                           /\ InEffect(req[r].user).cidrs' \subseteq seen'[r].cidrs
                           /\ held'[r] \subseteq Paths(req[r].user)'
         /\ Routing(r) /\ Routing(r)' => /\ seen[r].groups \subseteq seen'[r].groups
                                         /\ seen[r].grants \subseteq seen'[r].grants
                                         /\ seen[r].cidrs \subseteq seen'[r].cidrs
                                         /\ held'[r] \subseteq held[r]
         /\ Routed(r)' => seen'[r] = seen[r] /\ held'[r] = held[r] /\ ~Routing(r)'
<1>1. Routed(r)' => ~Routing(r)' BY DEF Routed, Routing, RouteSteps
<1>2. /\ seen'[r] = IF Routing(r)' THEN Joined(seen[r], InEffect(req[r].user)')
                     ELSE IF Routed(r)' THEN seen[r] ELSE Nothing
      /\ held'[r] = IF Routing(r)' /\ ~Routing(r) THEN Paths(req[r].user)'
                     ELSE IF Routing(r)' THEN held[r] \cap Paths(req[r].user)'
                     ELSE IF Routed(r)' THEN held[r] ELSE {}
  BY DEF Observe
<1>3. Routing(r)' =>
        /\ seen'[r].groups = seen[r].groups \cup InEffect(req[r].user).groups'
        /\ seen'[r].grants = seen[r].grants \cup InEffect(req[r].user).grants'
        /\ seen'[r].cidrs = seen[r].cidrs \cup InEffect(req[r].user).cidrs'
  BY <1>2 DEF Joined
<1> QED BY <1>1, <1>2, <1>3

LEMMA GrantedByMore ==
  ASSUME NEW s, NEW t, NEW c, s.groups \subseteq t.groups, s.grants \subseteq t.grants,
         s.cidrs \subseteq t.cidrs, GrantedBy(s, c)
  PROVE  GrantedBy(t, c)
BY DEF GrantedBy

\* A slot that does not move keeps what it has read, and what it has read
\* stays justified: no row goes and none that is deleted comes back.
LEMMA OthersRoute ==
  ASSUME TypeInv, TypeInv', RouteInv, Observe, NEW r \in Slots,
         pc'[r] = pc[r], req'[r] = req[r], code'[r] = code[r],
         todo'[r] = todo[r], asked'[r] = asked[r], routes'[r] = routes[r],
         \A id \in Ids : items[id] # None => items'[id] # None,
         \A id \in Ids : items[id] # None /\ items[id].deleted => items'[id] = items[id]
  PROVE  GrantedAt(r)' /\ HeldAt(r)'
<1>0. /\ GrantedAt(r) /\ HeldAt(r) /\ PlacedAt(r)
      /\ Routing(r)' = Routing(r) /\ Routed(r)' = Routed(r)
      /\ pc[r] \in {"preload", "grants", "networks"} => Routing(r)
  BY DEF RouteInv, Routing, Routed, RouteSteps, TypeInv, Placed, PlacedAt, OpsAt
<1>1. \A g \in Groups : items[g] # None => items'[g] # None /\ (Live(g)' => Live(g))
  BY DEF Live, Ids
<1>2. GrantedAt(r)'
  <2>1. pc'[r] = "idle" => routes'[r] = {} BY <1>0 DEF GrantedAt
  <2>2. Routing(r)' /\ pc'[r] \in {"user", "members", "preload"} => routes'[r] = {}
    BY <1>0 DEF GrantedAt
  <2>3. pc'[r] = "preload" =>
          \A g \in todo'[r] : g \in Groups /\ items'[g] # None /\ (Live(g)' => g \in seen'[r].groups)
    BY <1>0, <1>1, Observed DEF GrantedAt
  <2>4. pc'[r] \in {"grants", "networks"} => todo'[r] \subseteq seen'[r].groups \cup {None}
    BY <1>0, Observed DEF GrantedAt
  <2>5. pc'[r] = "networks" =>
          \E g \in seen'[r].groups : \A n \in asked'[r] : <<n, g>> \in seen'[r].grants
    BY <1>0, Observed DEF GrantedAt
  <2>6. Routing(r)' \/ Routed(r)' => \A c \in routes'[r] \ {None} : GrantedBy(seen'[r], c)
    BY <1>0, Observed, GrantedByMore DEF GrantedAt
  <2> QED BY <2>1, <2>2, <2>3, <2>4, <2>5, <2>6, Observed DEF GrantedAt, GrantedBy
<1>3. HeldAt(r)'
  BY <1>0, Observed DEF HeldAt
<1> QED BY <1>2, <1>3

\* Only Finish and the steps of a routes request change what a slot reads.
LEMMA ReadsKept ==
  ASSUME TypeInv, NEW r \in Slots, Arrive(r) \/ Serve(r), NEW q \in Slots,
         q # r \/ (~ReadMembers(r) /\ ~PreloadGroups(r) /\ ~ReadGrants(r)
                    /\ ~ReadNetworks(r) /\ ~Finish(r))
  PROVE  todo'[q] = todo[q] /\ asked'[q] = asked[q] /\ routes'[q] = routes[q]
<1>1. CASE ReadMembers(r) \/ PreloadGroups(r) \/ ReadGrants(r) \/ ReadNetworks(r) \/ Finish(r)
  BY <1>1 DEF ReadMembers, PreloadGroups, ReadGrants, ReadNetworks, Finish, TypeInv, TypeOK
<1>2. CASE ~ReadMembers(r) /\ ~PreloadGroups(r) /\ ~ReadGrants(r) /\ ~ReadNetworks(r) /\ ~Finish(r)
  BY <1>2 DEF Arrive, Serve, Subordinate, FindGroup, FindUser, FindNetwork, CheckGrant,
              InsertMember, InsertGrant, Remove, CheckName, Store, Load, Fetch, Write,
              Refetch, Unlink, Erase, DbError, reading
<1> QED BY <1>1, <1>2

\* The memberships' groups.
LEMMA RowsStep ==
  ASSUME TypeInv, RowsInv, NEW r \in Slots, Arrive(r) \/ Serve(r)
  PROVE  RowsInv'
<1>0. /\ PlacedAt(r) /\ Moves(r) /\ ItemStep(r)
      /\ members \subseteq Users \X Groups
      /\ \A p \in members : p[2] \in Ids
  BY SlotMoves, ItemSteps DEF TypeInv, TypeOK, Placed, Ids
<1>1. \A id \in Ids : items[id] # None => items'[id] # None
  BY <1>0, ItemsType
<1>2. \A q \in Slots \ {r} : pc'[q] = pc[q] /\ req'[q] = req[q]
  BY <1>0 DEF Moves, TypeInv, TypeOK
<1>3. \A q \in Slots : pc[q] # "idle" /\ req[q].op = "join" => req[q].group \in Ids
  BY InputFields DEF TypeInv, Placed, PlacedAt, Ids
<1>4. \A p \in members' : items'[p[2]] # None
  <2>1. CASE InsertMember(r)
    <3>1. members' \subseteq members \cup {<<req[r].user, req[r].group>>}
      BY <2>1 DEF InsertMember
    <3>2. items[req[r].group] # None /\ req[r].group \in Ids
      BY <1>3, <2>1 DEF InsertMember, RowsInv
    <3> QED BY <1>0, <1>1, <3>1, <3>2 DEF RowsInv
  <2>2. CASE ~InsertMember(r)
    <3>1. members' \subseteq members
      BY <2>2 DEF Arrive, Serve, Subordinate, FindGroup, FindUser, FindNetwork, CheckGrant,
                  InsertGrant, Remove, CheckName, Store, Load, Fetch, Write, Refetch,
                  Unlink, Erase, ReadMembers, PreloadGroups, ReadGrants, ReadNetworks,
                  DbError, Finish, tables
    <3> QED BY <1>0, <1>1, <3>1 DEF RowsInv
  <2> QED BY <2>1, <2>2
<1>5. pc'[r] \in {"user", "insert"} /\ req'[r].op = "join" => items'[req'[r].group] # None
  <2>1. CASE FindGroup(r)
    BY <1>0, <2>1 DEF FindGroup, Goto, Reply, Live, tables, TypeInv, TypeOK
  <2>2. CASE FindUser(r)
    BY <1>0, <2>2 DEF FindUser, Goto, Reply, RowsInv, tables, TypeInv, TypeOK
  <2>3. CASE Arrive(r)
    BY <2>3, InputFields, HandlerSteps DEF Arrive, Goto, Reply, Ops, TypeInv, TypeOK
  <2>4. CASE CheckGrant(r) \/ DbError(r)
    BY <1>0, <2>4 DEF CheckGrant, DbError, Goto, Reply, PlacedAt, OpsAt, TypeInv, TypeOK
  <2>5. CASE InsertMember(r) \/ InsertGrant(r) \/ Remove(r) \/ Store(r) \/ Refetch(r)
             \/ Erase(r) \/ Finish(r)
    BY <2>5 DEF InsertMember, InsertGrant, Remove, Store, Refetch, Erase, Finish, Reply,
                TypeInv, TypeOK
  <2>6. CASE Subordinate(r) \/ FindNetwork(r) \/ CheckName(r) \/ Load(r) \/ Fetch(r)
             \/ Write(r) \/ Unlink(r)
    BY <1>0, <2>6 DEF Subordinate, FindNetwork, CheckName, Load, DeleteFrom, Fetch, Write,
                      Unlink, Goto, Reply, PlacedAt, OpsAt, TypeInv, TypeOK
  <2>7. CASE ReadMembers(r) \/ PreloadGroups(r) \/ ReadGrants(r) \/ ReadNetworks(r)
    BY <2>7 DEF ReadMembers, PreloadGroups, ReadGrants, ReadNetworks, NextGroup, Goto,
                Reply, TypeInv, TypeOK
  <2> QED BY <2>1, <2>2, <2>3, <2>4, <2>5, <2>6, <2>7 DEF Serve
<1>6. \A q \in Slots \ {r} :
        pc'[q] \in {"user", "insert"} /\ req'[q].op = "join" => items'[req'[q].group] # None
  BY <1>1, <1>2, <1>3 DEF RowsInv
<1> QED BY <1>4, <1>5, <1>6 DEF RowsInv

\* The steps of a routes request itself.  None of them changes a table.
RoutesStep(r) == FindUser(r) \/ ReadMembers(r) \/ PreloadGroups(r) \/ ReadGrants(r)
                   \/ ReadNetworks(r) \/ DbError(r)

LEMMA RoutesSteps ==
  ASSUME TypeInv, NEW r \in Slots, Serve(r), ~Finish(r), req[r].op = "routes"
  PROVE  RoutesStep(r)
BY DEF Serve, RoutesStep, Subordinate, FindGroup, FindNetwork, CheckGrant, InsertMember,
       InsertGrant, Remove, CheckName, Store, Load, Fetch, Write, Refetch, Unlink, Erase,
       TypeInv, Placed, PlacedAt, OpsAt

LEMMA RoutesReads ==
  ASSUME TypeInv, RouteInv, NEW r \in Slots, RoutesStep(r), req[r].op = "routes"
  PROVE  /\ UNCHANGED <<items, users, members, grants>> /\ req'[r] = req[r]
         /\ Routing(r) /\ GrantedAt(r) /\ HeldAt(r)
         /\ Live(req[r].group)' = Live(req[r].group)
         /\ Paths(req[r].user)' = Paths(req[r].user)
         /\ InEffect(req[r].user)' = InEffect(req[r].user)
<1>1. UNCHANGED <<items, users, members, grants, req>>
  BY DEF RoutesStep, FindUser, ReadMembers, PreloadGroups, ReadGrants, ReadNetworks,
         DbError, tables
<1>2. Routing(r)
  BY DEF RoutesStep, FindUser, ReadMembers, PreloadGroups, ReadGrants, ReadNetworks,
         DbError, Routing, RouteSteps, TypeInv, Placed, PlacedAt, OpsAt, TypeOK, Steps
<1> QED BY <1>1, <1>2 DEF RouteInv, Live, Paths, InEffect

LEMMA RoutesGranted ==
  ASSUME TypeInv, TypeInv', RouteInv, NEW r \in Slots, RoutesStep(r), req[r].op = "routes",
         Observe
  PROVE  GrantedAt(r)'
<1>0. /\ UNCHANGED <<items, users, members, grants>> /\ req'[r] = req[r]
      /\ Routing(r) /\ GrantedAt(r) /\ InEffect(req[r].user)' = InEffect(req[r].user)
      /\ req[r].user \in Users /\ None \notin Groups
  BY RoutesReads, InputFields, MarkAssumption
  DEF Routing, RouteSteps, TypeInv, Placed, PlacedAt, Ids
<1> DEFINE s == seen[r]
           t == seen'[r]
<1>1. Routing(r)' \/ Routed(r)' =>
        s.groups \subseteq t.groups /\ s.grants \subseteq t.grants /\ s.cidrs \subseteq t.cidrs
  BY <1>0, Observed
<1>2. /\ \A g \in Groups : Live(g) /\ <<req[r].user, g>> \in members => g \in s.groups
      /\ grants \subseteq s.grants
      /\ \A n \in Networks : Live(n) => <<n, items[n].cidr>> \in s.cidrs
      /\ \A c \in routes[r] \ {None} : GrantedBy(s, c)
  BY <1>0 DEF GrantedAt, InEffect
<1>3. SUFFICES
        /\ pc'[r] # "idle"
        /\ Routing(r)' /\ pc'[r] \in {"user", "members", "preload"} => routes'[r] = {}
        /\ pc'[r] = "preload" =>
             \A g \in todo'[r] : g \in Groups /\ items[g] # None /\ (Live(g) => g \in s.groups)
        /\ pc'[r] \in {"grants", "networks"} => todo'[r] \subseteq s.groups \cup {None}
        /\ pc'[r] = "networks" => \E g \in s.groups : \A n \in asked'[r] : <<n, g>> \in s.grants
        /\ \A c \in routes'[r] \ {None} : GrantedBy(s, c)
  <2>1. /\ pc'[r] \in {"preload", "grants", "networks"} => Routing(r)'
        /\ \A g \in Groups : Live(g)' <=> Live(g)
    BY <1>0 DEF Routing, RouteSteps, Live
  <2> QED BY <1>0, <1>1, <1>3, <2>1, Observed, GrantedByMore DEF GrantedAt
<1>4. CASE FindUser(r) \/ DbError(r)
  BY <1>0, <1>2, <1>4
  DEF FindUser, DbError, Goto, Reply, reading, Routing, RouteSteps, GrantedAt, TypeInv, TypeOK
<1>5. CASE ReadMembers(r)
  <2>1. /\ todo'[r] = {g \in Groups : <<req[r].user, g>> \in members}
        /\ pc'[r] \in {"reply", "preload"} /\ routes'[r] = routes[r]
        /\ pc[r] = "members"
    BY <1>5 DEF ReadMembers, Goto, Reply, TypeInv, TypeOK
  <2>2. \A g \in todo'[r] : g \in Groups /\ items[g] # None
    BY <2>1 DEF RouteInv, RowsInv
  <2> QED BY <1>0, <1>2, <2>1, <2>2 DEF GrantedAt
<1>6. CASE PreloadGroups(r)
  <2>1. /\ pc[r] = "preload" /\ pc'[r] = "grants" /\ routes'[r] = routes[r]
        /\ todo'[r] = {IF Preloaded(g) THEN g ELSE None : g \in todo[r]}
    BY <1>6 DEF PreloadGroups, Goto, TypeInv, TypeOK
  <2>2. \A g \in todo[r] : Preloaded(g) => g \in s.groups
    BY <1>0, <2>1 DEF GrantedAt, Preloaded
  <2> QED BY <1>2, <2>1, <2>2
<1>7. CASE ReadGrants(r)
  <2>0. PICK g \in todo[r] :
          /\ todo' = [todo EXCEPT ![r] = @ \ {g}]
          /\ asked' = [asked EXCEPT ![r] = {n \in Networks : <<n, g>> \in grants}]
          /\ IF {n \in Networks : <<n, g>> \in grants} = {}
               THEN NextGroup(r, todo[r] \ {g}) ELSE Goto(r, "networks")
    BY <1>7 DEF ReadGrants
  <2>1. /\ todo'[r] = todo[r] \ {g}
        /\ asked'[r] = {n \in Networks : <<n, g>> \in grants}
        /\ pc'[r] \in {"reply", "grants", "networks"}
        /\ pc'[r] = "networks" => {n \in Networks : <<n, g>> \in grants} # {}
    BY <2>0 DEF NextGroup, Goto, Reply, TypeInv, TypeOK
  <2>2. pc[r] = "grants" /\ routes'[r] = routes[r]
    BY <1>7 DEF ReadGrants
  <2>3. pc'[r] = "networks" => g \in s.groups
    <3>1. \A n : <<n, None>> \notin grants BY <1>0 DEF TypeInv, TypeOK
    <3> QED BY <1>0, <2>1, <2>2, <3>1 DEF GrantedAt
  <2> QED BY <1>0, <1>2, <2>1, <2>2, <2>3 DEF GrantedAt
<1>8. CASE ReadNetworks(r)
  <2>1. /\ pc[r] = "networks" /\ pc'[r] \in {"reply", "grants"}
        /\ todo'[r] = todo[r] /\ routes'[r] = routes[r] \cup CidrsOf(asked[r])
    BY <1>8 DEF ReadNetworks, NextGroup, Goto, Reply, TypeInv, TypeOK
  <2>2. \A c \in CidrsOf(asked[r]) \ {None} : GrantedBy(s, c)
    <3>1. SUFFICES ASSUME NEW n \in asked[r], Live(n) PROVE GrantedBy(s, items[n].cidr)
      BY DEF CidrsOf, Preloaded
    <3>2. n \in Networks BY DEF TypeInv, TypeOK
    <3> QED BY <1>0, <1>2, <2>1, <3>1, <3>2 DEF GrantedAt, GrantedBy
  <2> QED BY <1>0, <1>2, <2>1, <2>2 DEF GrantedAt
<1> QED BY <1>4, <1>5, <1>6, <1>7, <1>8 DEF RoutesStep

\* A path that lasts is met by every statement that looks for a part of it.
LEMMA RoutesHeld ==
  ASSUME TypeInv, TypeInv', RouteInv, NEW r \in Slots, RoutesStep(r), req[r].op = "routes",
         Observe
  PROVE  HeldAt(r)'
<1>0. /\ UNCHANGED <<items, users, members, grants>> /\ req'[r] = req[r]
      /\ Routing(r) /\ HeldAt(r) /\ Paths(req[r].user)' = Paths(req[r].user)
      /\ None \notin Groups
  BY RoutesReads, MarkAssumption DEF Ids
<1>1. \A path \in held[r] :
        /\ path[1] \in Groups /\ path[2] \in Networks
        /\ <<path[2], path[1]>> \in grants /\ <<req[r].user, path[1]>> \in members
        /\ Live(path[1]) /\ Live(path[2]) /\ path[3] = items[path[2]].cidr
  <2>1. SUFFICES ASSUME NEW path \in Paths(req[r].user)
                 PROVE  /\ path[1] \in Groups /\ path[2] \in Networks
                        /\ <<path[2], path[1]>> \in grants /\ <<req[r].user, path[1]>> \in members
                        /\ Live(path[1]) /\ Live(path[2]) /\ path[3] = items[path[2]].cidr
    BY <1>0 DEF HeldAt
  <2>2. PICK p \in grants : /\ Live(p[1]) /\ Live(p[2]) /\ <<req[r].user, p[2]>> \in members
                           /\ path = <<p[2], p[1], items[p[1]].cidr>>
    BY DEF Paths
  <2>3. p \in Networks \X Groups BY DEF TypeInv, TypeOK
  <2> QED BY <2>2, <2>3
<1>2. Routing(r)' \/ Routed(r)' => held'[r] \subseteq held[r]
  BY <1>0, Observed
<1>3. SUFFICES
        /\ pc'[r] = "preload" => \A path \in held[r] : path[1] \in todo'[r]
        /\ pc'[r] = "grants" => \A path \in held[r] : path[1] \in todo'[r] \/ path[3] \in routes'[r]
        /\ pc'[r] = "networks" => \A path \in held[r] :
             path[1] \in todo'[r] \/ path[2] \in asked'[r] \/ path[3] \in routes'[r]
        /\ Routed(r)' => \A path \in held[r] : path[3] \in routes'[r]
  <2>1. pc'[r] \in {"preload", "grants", "networks"} => Routing(r)'
    BY <1>0 DEF Routing, RouteSteps
  <2> QED BY <1>0, <1>2, <1>3, <2>1, Observed DEF HeldAt
<1>4. CASE FindUser(r)
  <2>1. req[r] \in Inputs BY <1>4 DEF FindUser, TypeInv, Placed, PlacedAt
  <2>2. NotFound(req[r]) # 200 BY <2>1, HandlerSteps
  <2>3. (\E c \in {NotFound(req[r]), 403} : Reply(r, c)) \/ Goto(r, "members")
    BY <1>4 DEF FindUser
  <2>4. \/ pc'[r] = "reply" /\ code'[r] # 200
        \/ pc'[r] = "members"
    BY <2>2, <2>3 DEF Goto, Reply, TypeInv, TypeOK
  <2> QED BY <2>4 DEF Routed
<1>5. CASE DbError(r)
  <2>1. req[r] \in Inputs BY <1>5 DEF DbError, TypeInv, Placed, PlacedAt
  <2>2. FailCode(r) # 200 BY <2>1, HandlerSteps DEF FailCode
  <2>3. pc'[r] = "reply" /\ code'[r] # 200
    BY <1>0, <1>5, <2>2 DEF DbError, Reply, Routing, RouteSteps, TypeInv, TypeOK
  <2> QED BY <2>3 DEF Routed
<1>6. CASE ReadMembers(r)
  <2>1. /\ todo'[r] = {g \in Groups : <<req[r].user, g>> \in members}
        /\ pc'[r] \in {"reply", "preload"}
        /\ pc'[r] = "reply" => {g \in Groups : <<req[r].user, g>> \in members} = {}
    BY <1>6 DEF ReadMembers, Goto, Reply, TypeInv, TypeOK
  <2> QED BY <1>1, <2>1 DEF Routed
<1>7. CASE PreloadGroups(r)
  <2>1. /\ pc[r] = "preload" /\ pc'[r] = "grants"
        /\ todo'[r] = {IF Preloaded(g) THEN g ELSE None : g \in todo[r]}
    BY <1>7 DEF PreloadGroups, Goto, TypeInv, TypeOK
  <2>2. \A g \in todo[r] : Live(g) => g \in todo'[r] BY <2>1 DEF Preloaded
  <2> QED BY <1>0, <1>1, <2>1, <2>2 DEF HeldAt, Routed
<1>8. CASE ReadGrants(r)
  <2>1. PICK g \in todo[r] :
          /\ todo' = [todo EXCEPT ![r] = @ \ {g}]
          /\ asked' = [asked EXCEPT ![r] = {n \in Networks : <<n, g>> \in grants}]
          /\ IF {n \in Networks : <<n, g>> \in grants} = {}
               THEN NextGroup(r, todo[r] \ {g}) ELSE Goto(r, "networks")
    BY <1>8 DEF ReadGrants
  <2>2. pc[r] = "grants" /\ routes'[r] = routes[r]
    BY <1>8 DEF ReadGrants
  <2>3. /\ todo'[r] = todo[r] \ {g}
        /\ asked'[r] = {n \in Networks : <<n, g>> \in grants}
        /\ pc'[r] \in {"reply", "grants", "networks"}
        /\ pc'[r] # "networks" => {n \in Networks : <<n, g>> \in grants} = {}
        /\ pc'[r] = "reply" => todo[r] \ {g} = {}
    BY <2>1 DEF NextGroup, Goto, Reply, TypeInv, TypeOK
  <2>4. \A path \in held[r] : path[1] \in todo[r] \/ path[3] \in routes[r]
    BY <1>0, <2>2 DEF HeldAt
  <2>5. \A path \in held[r] : path[1] = g => path[2] \in {n \in Networks : <<n, g>> \in grants}
    BY <1>1
  <2>6. \A path \in held[r] :
          path[1] \in todo'[r] \/ path[2] \in asked'[r] \/ path[3] \in routes'[r]
    BY <2>2, <2>3, <2>4, <2>5
  <2>7. pc'[r] # "networks" => \A path \in held[r] : path[1] \in todo'[r] \/ path[3] \in routes'[r]
    BY <2>3, <2>6
  <2>8. Routed(r)' => \A path \in held[r] : path[3] \in routes'[r]
    BY <2>3, <2>7 DEF Routed
  <2> QED BY <2>3, <2>6, <2>7, <2>8
<1>9. CASE ReadNetworks(r)
  <2>1. /\ pc[r] = "networks" /\ pc'[r] \in {"reply", "grants"}
        /\ todo'[r] = todo[r] /\ routes'[r] = routes[r] \cup CidrsOf(asked[r])
        /\ pc'[r] = "reply" => todo[r] = {}
    BY <1>9 DEF ReadNetworks, NextGroup, Goto, Reply, TypeInv, TypeOK
  <2>2. \A path \in held[r] :
          path[1] \in todo[r] \/ path[2] \in asked[r] \/ path[3] \in routes[r]
    BY <1>0, <2>1 DEF HeldAt
  <2>3. \A path \in held[r] : path[2] \in asked[r] => path[3] \in CidrsOf(asked[r])
    BY <1>1 DEF CidrsOf, Preloaded
  <2> QED BY <2>1, <2>2, <2>3 DEF Routed
<1> QED BY <1>4, <1>5, <1>6, <1>7, <1>8, <1>9 DEF RoutesStep

LEMMA RouteInit == Init => RouteInv
BY TableAssumption DEF Init, RouteInv, RowsInv, GrantedAt, HeldAt, Routing, Routed, RouteSteps

LEMMA RouteStep ==
  ASSUME TypeInv, TypeInv', RouteInv, NEW r \in Slots, Arrive(r) \/ Serve(r)
  PROVE  RouteInv'
<1>0. /\ PlacedAt(r) /\ Moves(r) /\ Observe /\ RowsInv'
      /\ \A id \in Ids : items[id] # None => items'[id] # None
      /\ \A id \in Ids : items[id] # None /\ items[id].deleted => items'[id] = items[id]
  BY SlotMoves, ServeObserves, RowsStep, ItemSteps, ItemsType DEF TypeInv, Placed, RouteInv
<1>1. ASSUME NEW q \in Slots, q # r PROVE GrantedAt(q)' /\ HeldAt(q)'
  <2>1. pc'[q] = pc[q] /\ req'[q] = req[q] /\ code'[q] = code[q]
    BY <1>0, <1>1 DEF Moves, TypeInv, TypeOK
  <2> QED BY <1>0, <1>1, <2>1, ReadsKept, OthersRoute
<1>2. GrantedAt(r)' /\ HeldAt(r)'
  <2>1. CASE Arrive(r)
    <3>1. /\ pc[r] = "idle" /\ routes'[r] = routes[r] /\ req'[r] \in Inputs
          /\ pc'[r] \notin {"idle", "preload", "grants", "networks"}
          /\ pc'[r] = "reply" => code'[r] # 200
      <4>1. \A i \in Inputs : FirstStep(i) \notin {"idle", "reply", "preload", "grants", "networks"}
        BY InputFields, HandlerSteps DEF Ops
      <4> QED BY <2>1, <4>1 DEF Arrive, Goto, Reply, reading, TypeInv, TypeOK
    <3>2. routes[r] = {} BY <3>1 DEF RouteInv, GrantedAt
    <3> QED BY <1>0, <3>1, <3>2, Observed DEF GrantedAt, HeldAt, Routed
  <2>2. CASE Finish(r)
    <3>1. pc'[r] = "idle" /\ routes'[r] = {}
      BY <2>2 DEF Finish, TypeInv, TypeOK
    <3> QED BY <3>1 DEF GrantedAt, HeldAt, Routing, Routed, RouteSteps
  <2>3. CASE Serve(r) /\ ~Finish(r) /\ req[r].op = "routes"
    BY <1>0, <2>3, RoutesSteps, RoutesGranted, RoutesHeld
  <2>4. CASE Serve(r) /\ ~Finish(r) /\ req[r].op # "routes"
    <3>1. req'[r] = req[r] /\ pc'[r] # "idle"
      BY <2>4, StillServed
    <3>3. pc'[r] \notin {"preload", "grants", "networks"}
      BY <1>0, <2>4, <3>1 DEF Moves, PlacedAt, OpsAt
    <3> QED BY <2>4, <3>1, <3>3 DEF GrantedAt, HeldAt, Routing, Routed
  <2> QED BY <2>1, <2>2, <2>3, <2>4
<1> QED BY <1>0, <1>1, <1>2 DEF RouteInv

LEMMA RouteNext == TypeInv /\ RouteInv /\ [Next]_vars => RouteInv'
<1> SUFFICES ASSUME TypeInv, RouteInv, [Next]_vars PROVE RouteInv'
  OBVIOUS
<1>0. TypeInv' BY TypeNext
<1>1. ASSUME NEW u \in Users, Account(u) PROVE RouteInv'
  <2>1. RowsInv' BY <1>1 DEF Account, RouteInv, RowsInv
  <2>2. ASSUME NEW r \in Slots PROVE GrantedAt(r)' /\ HeldAt(r)'
    BY <1>0, <1>1, <2>2, OthersRoute DEF Account, reading
  <2> QED BY <2>1, <2>2 DEF RouteInv
<1>2. CASE UNCHANGED vars
  BY <1>2 DEF vars, tables, reading, RouteInv, RowsInv, GrantedAt, HeldAt, Routing, Routed,
              GrantedBy, InEffect, Paths, Live
<1> QED BY <1>0, <1>1, <1>2, RouteStep, Requests

\* A client is given no CIDR but those that a group of the user's gave access
\* to while the routes were read, however many requests interleave with that.
THEOREM OnlyGrantedRoutes == Spec => []RoutesWereGranted
<1>1. RouteInv => RoutesWereGranted
  BY DEF RouteInv, GrantedAt, GrantedBy, RoutesWereGranted
<1> QED BY <1>1, TypeInit, TypeNext, RouteInit, RouteNext, PTL DEF Spec

\* It is given all those that the user could reach the whole time.
THEOREM AllHeldRoutes == Spec => []RoutesComplete
<1>1. RouteInv => RoutesComplete
  BY DEF RouteInv, HeldAt, RoutesComplete
<1> QED BY <1>1, TypeInit, TypeNext, RouteInit, RouteNext, PTL DEF Spec

\* What has been in effect while the routes were read, taken together, gave no
\* path that was not there all the time.
Steady(r) ==
  \A g \in seen[r].groups, n \in Networks, c \in Cidrs :
    (<<n, g>> \in seen[r].grants /\ <<n, c>> \in seen[r].cidrs) => <<g, n, c>> \in held[r]

\* While nothing that concerns a user changes, the routes of the user are
\* exactly the CIDRs that the user reaches, whatever else is changed meanwhile.
RoutesExact ==
  \A r \in Slots :
    Routed(r) /\ Steady(r) => routes[r] \ {None} = {path[3] : path \in held[r]} \ {None}
THEOREM SteadyRoutesExact == Spec => []RoutesExact
<1>1. TypeOK /\ RoutesWereGranted /\ RoutesComplete => RoutesExact
  <2> SUFFICES ASSUME TypeOK, RoutesWereGranted, RoutesComplete,
                      NEW r \in Slots, Routed(r), Steady(r),
                      NEW c \in routes[r] \ {None}
               PROVE  \E path \in held[r] : path[3] = c
    BY DEF RoutesExact, RoutesComplete
  <2>1. PICK g \in seen[r].groups, n \in Networks :
          <<n, g>> \in seen[r].grants /\ <<n, c>> \in seen[r].cidrs
    BY DEF RoutesWereGranted
  <2>2. c \in Cidrs BY DEF TypeOK
  <2>3. <<g, n, c>> \in held[r] BY <2>1, <2>2 DEF Steady
  <2>4. <<g, n, c>>[3] = c OBVIOUS
  <2> QED BY <2>3, <2>4
<1> QED BY <1>1, TypeCorrect, OnlyGrantedRoutes, AllHeldRoutes, PTL

-----------------------------------------------------------------------------
(***************************************************************************)
(* What the answers say.  A request that makes an association or a row has *)
(* written nothing until the statement that does, and is answered by it.   *)
(***************************************************************************)
Makes(i) == i.op \in {"join", "grant", "create"}

ToldAt(r) ==
  /\ pc[r] = "idle" => ~wrote[r]
  /\ pc[r] \notin {"idle", "reply"} /\ Makes(req[r]) => ~wrote[r]
  /\ pc[r] = "reply" /\ Makes(req[r]) => (code[r] \in {200, 201} <=> wrote[r])
Told == \A r \in Slots : ToldAt(r)

LEMMA ToldStep ==
  ASSUME TypeInv, NEW r \in Slots, ToldAt(r), Arrive(r) \/ Serve(r)
  PROVE  ToldAt(r)'
<1> USE DEF TypeInv, TypeOK
<1>1. PlacedAt(r) BY DEF Placed
<1>2. /\ \A step : Goto(r, step) => pc'[r] = step
      /\ \A c : Reply(r, c) => pc'[r] = "reply" /\ code'[r] = c
  <2>1. \A step : Goto(r, step) => pc'[r] = step BY DEF Goto
  <2>2. \A c : Reply(r, c) => pc'[r] = "reply" /\ code'[r] = c BY DEF Reply
  <2> QED BY <2>1, <2>2
\* A step on the way, or a refusal, of a request that has written nothing.
<1>3. ASSUME ~wrote[r], wrote' = wrote,
             \/ \E c \in {400, 403, 404, 409, 500} : Reply(r, c)
             \/ \E step \in Steps \ {"reply"} : Goto(r, step)
      PROVE  ToldAt(r)'
  <2>1. ~wrote'[r] BY <1>3
  <2>2. \/ pc'[r] = "reply" /\ code'[r] \notin {200, 201}
        \/ pc'[r] # "reply"
    BY <1>2, <1>3
  <2> QED BY <2>1, <2>2 DEF ToldAt
\* The statement that makes what was asked for.
<1>4. ASSUME wrote' = [wrote EXCEPT ![r] = TRUE], NEW c \in {200, 201}, Reply(r, c)
      PROVE  ToldAt(r)'
  <2>1. wrote'[r] /\ pc'[r] = "reply" /\ code'[r] = c BY <1>2, <1>4
  <2> QED BY <2>1 DEF ToldAt
<1>5. CASE Arrive(r)
  <2>1. pc[r] = "idle" /\ wrote' = wrote BY <1>5 DEF Arrive
  <2>2. PICK i \in Inputs : \/ \E c \in {400, 403} : Reply(r, c)
                            \/ Goto(r, FirstStep(i))
    BY <1>5 DEF Arrive
  <2>3. FirstStep(i) \in Steps \ {"reply"}
    BY InputFields, HandlerSteps DEF Ops, Steps
  <2> QED BY <1>3, <2>1, <2>2, <2>3 DEF ToldAt
<1>6. CASE Finish(r) BY <1>6 DEF Finish, ToldAt
<1>7. CASE Serve(r) /\ ~Finish(r) /\ ~Makes(req[r])
  <2>1. req' = req /\ pc'[r] # "idle" BY <1>7, StillServed
  <2> QED BY <1>7, <2>1 DEF ToldAt, Makes
<1>8. CASE Serve(r) /\ ~Finish(r) /\ Makes(req[r])
  <2>1. pc[r] \in {"subordinate", "group", "user", "network", "exists", "insert",
                   "named", "store", "reply", "idle"}
    BY <1>1, <1>8 DEF Makes, PlacedAt, OpsAt, Steps
  <2>2. pc[r] \notin {"idle", "reply"}
        => /\ ~wrote[r] /\ req[r] \in Inputs
           /\ NotFound(req[r]) \in {404, 500} /\ Rejected(req[r]) \in {400, 500}
    BY <1>1, <1>8, HandlerSteps DEF ToldAt, PlacedAt
  <2>3. CASE Subordinate(r) BY <1>3, <2>2, <2>3 DEF Subordinate, Steps
  <2>4. CASE FindGroup(r) BY <1>3, <2>2, <2>4 DEF FindGroup, Steps
  <2>5. CASE FindUser(r) BY <1>3, <2>2, <2>5 DEF FindUser, Steps
  <2>6. CASE FindNetwork(r) BY <1>3, <2>2, <2>6 DEF FindNetwork, Steps
  <2>7. CASE CheckGrant(r) BY <1>3, <2>2, <2>7 DEF CheckGrant, Steps
  <2>8. CASE InsertMember(r) BY <1>3, <1>4, <2>2, <2>8 DEF InsertMember
  <2>9. CASE InsertGrant(r) BY <1>3, <1>4, <2>2, <2>9 DEF InsertGrant
  <2>10. CASE CheckName(r) BY <1>3, <2>2, <2>10 DEF CheckName, Steps
  <2>11. CASE Store(r)
    <3>1. pc[r] = "store" /\ \/ wrote' = wrote /\ Reply(r, 500)
                             \/ wrote' = [wrote EXCEPT ![r] = TRUE] /\ Reply(r, 201)
      BY <2>11 DEF Store
    <3> QED BY <1>3, <1>4, <2>2, <3>1
  <2>12. CASE DbError(r)
    <3>1. pc[r] \notin {"idle", "reply"} /\ wrote' = wrote BY <2>12 DEF DbError
    <3>2. FailCode(r) \in {400, 404, 500} BY <2>2, <3>1 DEF FailCode
    <3>3. Reply(r, FailCode(r)) \/ (\E step \in {"store", "insert"} : Goto(r, step))
      BY <2>12 DEF DbError
    <3> QED BY <1>3, <2>2, <3>1, <3>2, <3>3 DEF Steps
  <2> QED
    BY <1>8, <2>1, <2>3, <2>4, <2>5, <2>6, <2>7, <2>8, <2>9, <2>10, <2>11, <2>12
    DEF Serve, Remove, Load, Fetch, Write, Refetch, Unlink, Erase, ReadMembers,
        PreloadGroups, ReadGrants, ReadNetworks
<1> QED BY <1>5, <1>6, <1>7, <1>8

\* A step of one slot leaves the answers of the others alone.
LEMMA OthersTold ==
  ASSUME TypeInv, NEW r \in Slots, NEW q \in Slots, q # r, ToldAt(q),
         Arrive(r) \/ Serve(r)
  PROVE  ToldAt(q)'
<1> USE DEF TypeInv, TypeOK
<1>1. Moves(r) BY SlotMoves
<1>2. wrote' = wrote \/ \E b : wrote' = [wrote EXCEPT ![r] = b]
  <2>1. CASE Arrive(r) BY <2>1 DEF Arrive
  <2>2. CASE Subordinate(r) \/ FindGroup(r) \/ FindUser(r) \/ FindNetwork(r)
             \/ CheckGrant(r) \/ CheckName(r) \/ Load(r) \/ Fetch(r) \/ Refetch(r)
    BY <2>2 DEF Subordinate, FindGroup, FindUser, FindNetwork, CheckGrant, CheckName,
                Load, Fetch, Refetch
  <2>3. CASE ReadMembers(r) \/ PreloadGroups(r) \/ ReadGrants(r) \/ ReadNetworks(r)
    BY <2>3 DEF ReadMembers, PreloadGroups, ReadGrants, ReadNetworks
  <2>4. CASE InsertMember(r) BY <2>4 DEF InsertMember
  <2>5. CASE InsertGrant(r) BY <2>5 DEF InsertGrant
  <2>6. CASE Remove(r) BY <2>6 DEF Remove
  <2>7. CASE Store(r) BY <2>7 DEF Store
  <2>8. CASE Write(r) BY <2>8 DEF Write
  <2>9. CASE Unlink(r) BY <2>9 DEF Unlink
  <2>10. CASE Erase(r) BY <2>10 DEF Erase
  <2>11. CASE DbError(r) \/ Finish(r) BY <2>11 DEF DbError, Finish
  <2> QED BY <2>1, <2>2, <2>3, <2>4, <2>5, <2>6, <2>7, <2>8, <2>9, <2>10, <2>11 DEF Serve
<1>3. wrote'[q] = wrote[q] BY <1>2
<1> QED BY <1>1, <1>3 DEF Moves, ToldAt

\* Who asks for a membership, an access or a new row is told that it was made
\* exactly when this request made it, whatever others make or remove.
THEOREM AnswersTellWhatWasStored == Spec => []AnswerTellsWhatWasStored
<1>1. Init => Told BY DEF Init, Told, ToldAt
<1>2. TypeInv /\ Told /\ [Next]_vars => Told'
  <2> SUFFICES ASSUME TypeInv, Told, [Next]_vars PROVE Told'
    OBVIOUS
  <2>1. CASE UNCHANGED <<pc, req, code, wrote>>
    BY <2>1 DEF Told, ToldAt
  <2>2. ASSUME NEW r \in Slots, Arrive(r) \/ Serve(r) PROVE Told'
    <3>1. \A q \in Slots \ {r} : ToldAt(q)' BY <2>2, OthersTold DEF Told
    <3>2. ToldAt(r)' BY <2>2, ToldStep DEF Told
    <3> QED BY <3>1, <3>2 DEF Told
  <2>3. (\E u \in Users : Account(u)) => UNCHANGED <<pc, req, code, wrote>>
    BY DEF Account
  <2> QED BY <2>1, <2>2, <2>3 DEF Next, vars
<1>3. Told => AnswerTellsWhatWasStored BY DEF Told, ToldAt, Makes, AnswerTellsWhatWasStored
<1> QED BY <1>1, <1>2, <1>3, TypeInit, TypeNext, PTL DEF Spec

-----------------------------------------------------------------------------
(***************************************************************************)
(* What opens access.  A new row opens none because nothing refers to a    *)
(* row that is not there yet: neither a membership (RowsInv) nor an        *)
(* association of a network.                                               *)
(***************************************************************************)
GrantRowsAt(r) ==
  /\ pc[r] \in {"exists", "insert"} /\ req[r].op = "grant" => items[req[r].id] # None
  /\ pc[r] = "group" /\ req[r].op = "grant" /\ req[r].below # "groups"
       => items[req[r].id] # None
GrantRowsInv ==
  /\ \A p \in grants : items[p[1]] # None
  /\ \A r \in Slots : GrantRowsAt(r)

LEMMA GrantsAdded ==
  ASSUME NEW r \in Slots, Arrive(r) \/ Serve(r)
  PROVE  \/ grants' \subseteq grants
         \/ /\ pc[r] = "insert" /\ req[r].op = "grant"
            /\ wrote' = [wrote EXCEPT ![r] = TRUE]
            /\ grants' = grants \cup {<<req[r].id, req[r].group>>}
<1>1. CASE InsertGrant(r) BY <1>1 DEF InsertGrant
<1>2. CASE Remove(r) BY <1>2 DEF Remove
<1>3. CASE Unlink(r) BY <1>3 DEF Unlink
<1>4. CASE ~InsertGrant(r) /\ ~Remove(r) /\ ~Unlink(r)
  BY <1>4 DEF Arrive, Serve, Subordinate, FindGroup, FindUser, FindNetwork, CheckGrant,
              InsertMember, CheckName, Store, Load, Fetch, Write, Refetch, Erase,
              ReadMembers, PreloadGroups, ReadGrants, ReadNetworks, DbError, Finish, tables
<1> QED BY <1>1, <1>2, <1>3, <1>4

LEMMA MembersAdded ==
  ASSUME NEW r \in Slots, Arrive(r) \/ Serve(r)
  PROVE  \/ members' \subseteq members
         \/ /\ pc[r] = "insert" /\ req[r].op = "join"
            /\ wrote' = [wrote EXCEPT ![r] = TRUE]
            /\ members' = members \cup {<<req[r].user, req[r].group>>}
<1>1. CASE InsertMember(r) BY <1>1 DEF InsertMember
<1>2. CASE Remove(r) BY <1>2 DEF Remove
<1>3. CASE ~InsertMember(r) /\ ~Remove(r)
  BY <1>3 DEF Arrive, Serve, Subordinate, FindGroup, FindUser, FindNetwork, CheckGrant,
              InsertGrant, CheckName, Store, Load, Fetch, Write, Refetch, Unlink, Erase,
              ReadMembers, PreloadGroups, ReadGrants, ReadNetworks, DbError, Finish, tables
<1> QED BY <1>1, <1>2, <1>3

LEMMA GrantRowsStep ==
  ASSUME TypeInv, GrantRowsInv, NEW r \in Slots, Arrive(r) \/ Serve(r)
  PROVE  GrantRowsInv'
<1>0. /\ PlacedAt(r) /\ Moves(r)
      /\ \A p \in grants : p[1] \in Ids
      /\ \A id \in Ids : items[id] # None => items'[id] # None
  BY SlotMoves, ItemSteps, ItemsType DEF TypeInv, TypeOK, Placed, Ids
<1>1. \A q \in Slots \ {r} : pc'[q] = pc[q] /\ req'[q] = req[q]
  BY <1>0 DEF Moves, TypeInv, TypeOK
<1>2. \A q \in Slots : pc[q] # "idle" /\ req[q].op = "grant" => req[q].id \in Ids
  BY InputFields DEF TypeInv, Placed, PlacedAt, Ids
<1>3. \A p \in grants' : items'[p[1]] # None
  <2>1. CASE grants' \subseteq grants BY <1>0, <2>1 DEF GrantRowsInv
  <2>2. CASE /\ pc[r] = "insert" /\ req[r].op = "grant"
             /\ grants' = grants \cup {<<req[r].id, req[r].group>>}
    <3>1. items[req[r].id] # None /\ req[r].id \in Ids
      BY <1>2, <2>2 DEF GrantRowsInv, GrantRowsAt
    <3> QED BY <1>0, <2>2, <3>1 DEF GrantRowsInv
  <2> QED BY <2>1, <2>2, GrantsAdded
<1>4. GrantRowsAt(r)'
  <2>1. CASE Arrive(r)
    <3>1. PICK i \in Inputs :
            /\ req' = [req EXCEPT ![r] = i]
            /\ \/ Refused(i) /\ Reply(r, 403)
               \/ ~Refused(i) /\ i.op = "create" /\ i.cidr = Malformed /\ Reply(r, 400)
               \/ /\ ~Refused(i) /\ ~(i.op = "create" /\ i.cidr = Malformed)
                  /\ Goto(r, FirstStep(i))
      BY <2>1 DEF Arrive
    <3>2. /\ FirstStep(i) \notin {"exists", "insert"}
          /\ i.op = "grant" /\ i.below # "groups" => FirstStep(i) # "group"
      BY InputFields, HandlerSteps DEF Ops
    <3>3. req'[r] = i /\ pc'[r] \in {"reply", FirstStep(i)}
      BY <3>1 DEF Goto, Reply, TypeInv, TypeOK
    <3> QED BY <3>2, <3>3 DEF GrantRowsAt
  <2>2. CASE Finish(r)
    <3>1. pc'[r] = "idle" BY <2>2 DEF Finish, TypeInv, TypeOK
    <3> QED BY <3>1 DEF GrantRowsAt
  <2>3. CASE Serve(r) /\ ~Finish(r) /\ req[r].op # "grant"
    BY <2>3, StillServed DEF GrantRowsAt
  <2>4. CASE Serve(r) /\ ~Finish(r) /\ req[r].op = "grant"
    <3>0. /\ req' = req
          /\ pc[r] \in {"group", "network", "exists", "insert", "reply", "idle"}
          /\ GrantRowsAt(r) /\ pc \in [Slots -> Steps]
      BY <1>0, <2>4, StillServed DEF PlacedAt, OpsAt, Steps, GrantRowsInv, TypeInv, TypeOK
    <3>1. pc[r] # "idle" => req[r].id \in Ids BY <1>2, <2>4
    <3>2. CASE FindGroup(r)
      BY <1>0, <3>0, <3>1, <3>2, <2>4 DEF FindGroup, Goto, Reply, GrantRowsAt
    <3>3. CASE FindNetwork(r)
      BY <1>0, <3>0, <3>1, <3>3, <2>4 DEF FindNetwork, Goto, Reply, GrantRowsAt, Live
    <3>4. CASE CheckGrant(r)
      BY <1>0, <3>0, <3>1, <3>4, <2>4 DEF CheckGrant, Goto, Reply, GrantRowsAt
    <3>5. CASE InsertGrant(r)
      BY <3>0, <3>5 DEF InsertGrant, Reply, GrantRowsAt
    <3>6. CASE DbError(r)
      BY <1>0, <3>0, <3>1, <3>6, <2>4 DEF DbError, Goto, Reply, GrantRowsAt
    <3> QED
      BY <2>4, <3>0, <3>2, <3>3, <3>4, <3>5, <3>6
      DEF Serve, Subordinate, FindUser, InsertMember, Remove, CheckName, Store, Load, Fetch,
          Write, Refetch, Unlink, Erase, ReadMembers, PreloadGroups, ReadGrants, ReadNetworks
  <2> QED BY <2>1, <2>2, <2>3, <2>4
<1>5. ASSUME NEW q \in Slots \ {r} PROVE GrantRowsAt(q)'
  <2>1. GrantRowsAt(q) /\ pc'[q] = pc[q] /\ req'[q] = req[q]
    BY <1>1 DEF GrantRowsInv
  <2>2. pc[q] # "idle" /\ req[q].op = "grant" /\ items[req[q].id] # None
          => items'[req[q].id] # None
    BY <1>0, <1>2
  <2> QED BY <2>1, <2>2 DEF GrantRowsAt
<1> QED BY <1>3, <1>4, <1>5 DEF GrantRowsInv

LEMMA GrantRowsNext == TypeInv /\ GrantRowsInv /\ [Next]_vars => GrantRowsInv'
<1> SUFFICES ASSUME TypeInv, GrantRowsInv, [Next]_vars PROVE GrantRowsInv'
  OBVIOUS
<1>1. ASSUME NEW u \in Users, Account(u) PROVE GrantRowsInv'
  BY <1>1 DEF Account, GrantRowsInv, GrantRowsAt
<1>2. CASE UNCHANGED vars
  BY <1>2 DEF vars, tables, GrantRowsInv, GrantRowsAt
<1> QED BY <1>1, <1>2, GrantRowsStep, Requests

\* Nothing opens where there is no new association and the rows that are
\* there are at most deleted.
LEMMA ReachShrinks ==
  ASSUME TypeInv, RowsInv, GrantRowsInv, NEW u \in Users,
         users' = users, grants' \subseteq grants,
         \A g : <<u, g>> \in members' => <<u, g>> \in members,
         \A id \in Ids : items[id] # None /\ Live(id)'
                           => Live(id) /\ items'[id].cidr = items[id].cidr
  PROVE  Reach(u)' \subseteq Reach(u)
<1>1. ASSUME NEW q \in grants', u \in users', Live(q[1])', Live(q[2])',
             <<u, q[2]>> \in members'
      PROVE  <<q[2], q[1], items'[q[1]].cidr>> \in Paths(u)
  <2>1. q \in grants /\ <<u, q[2]>> \in members /\ u \in users BY <1>1
  <2>2. q[1] \in Ids /\ q[2] \in Ids BY <2>1 DEF TypeInv, TypeOK, Ids
  <2>3. items[q[1]] # None BY <2>1 DEF GrantRowsInv
  <2>4. items[q[2]] # None
    <3> DEFINE p == <<u, q[2]>>
    <3>1. p \in members /\ p[2] = q[2] BY <2>1
    <3> QED BY <3>1 DEF RowsInv
  <2>5. Live(q[1]) /\ Live(q[2]) /\ items'[q[1]].cidr = items[q[1]].cidr
    BY <1>1, <2>2, <2>3, <2>4
  <2> QED BY <2>1, <2>5 DEF Paths
<1>2. Paths(u)' \subseteq Paths(u)
  <2>1. ASSUME NEW path \in Paths(u)' PROVE path \in Paths(u)
    <3>1. PICK q \in grants' : /\ u \in users' /\ Live(q[1])' /\ Live(q[2])'
                               /\ <<u, q[2]>> \in members'
                               /\ path = <<q[2], q[1], items'[q[1]].cidr>>
      BY <2>1 DEF Paths
    <3> QED BY <1>1, <3>1
  <2> QED BY <2>1
<1> QED BY <1>2 DEF Reach

\* What a request's step may open, by the reasons that AccessGrows allows.
Opens(r, u) ==
  /\ req[r] # None
  /\ \/ pc[r] = "insert" /\ (req[r].op = "join" => req[r].user = u)
     \/ pc[r] = "write" /\ req[r].cidr # Keep
  /\ wrote'[r]

LEMMA RequestOpens ==
  ASSUME TypeInv, RowsInv, GrantRowsInv, NEW r \in Slots, Arrive(r) \/ Serve(r),
         NEW u \in Users
  PROVE  Reach(u)' \subseteq Reach(u) \/ Opens(r, u)
<1>0. /\ PlacedAt(r) /\ ItemStep(r) /\ users' = users
      /\ items \in [Ids -> Item \cup {None}] /\ wrote \in [Slots -> BOOLEAN]
  BY ItemSteps, PairsType DEF TypeInv, TypeOK, Placed
<1>1. pc[r] \in {"insert", "write"} => req[r] # None
  BY <1>0, InputFields DEF PlacedAt
<1>2. CASE ~(grants' \subseteq grants)
  <2>1. /\ pc[r] = "insert" /\ req[r].op = "grant" /\ wrote' = [wrote EXCEPT ![r] = TRUE]
    BY <1>2, GrantsAdded
  <2>2. wrote'[r] BY <1>0, <2>1
  <2> QED BY <1>1, <2>1, <2>2 DEF Opens
<1>3. CASE ~(\A g : <<u, g>> \in members' => <<u, g>> \in members)
  <2>1. /\ pc[r] = "insert" /\ req[r].op = "join" /\ wrote' = [wrote EXCEPT ![r] = TRUE]
        /\ members' = members \cup {<<req[r].user, req[r].group>>}
    BY <1>3, MembersAdded
  <2>2. req[r].user = u BY <1>3, <2>1
  <2>3. wrote'[r] BY <1>0, <2>1
  <2> QED BY <1>1, <2>1, <2>2, <2>3 DEF Opens
<1>4. CASE Write(r) /\ req[r].cidr # Keep /\ items' # items
  <2>1. pc[r] = "write" /\ wrote' = [wrote EXCEPT ![r] = TRUE]
    BY <1>4 DEF Write
  <2>2. wrote'[r] BY <1>0, <2>1
  <2> QED BY <1>1, <1>4, <2>1, <2>2 DEF Opens
<1>5. CASE /\ grants' \subseteq grants
           /\ \A g : <<u, g>> \in members' => <<u, g>> \in members
           /\ ~(Write(r) /\ req[r].cidr # Keep /\ items' # items)
  <2>1. ASSUME NEW id \in Ids, items[id] # None, Live(id)'
        PROVE  Live(id) /\ items'[id].cidr = items[id].cidr
    <3>0. items[id] \in Item /\ items[id].deleted \in BOOLEAN
      BY <1>0, <2>1 DEF Item
    <3>1. CASE items' = items BY <2>1, <3>1 DEF Live
    <3>2. CASE \E o \in SameTable(req[r].id) : /\ items[o] = None
                                              /\ items' = [items EXCEPT ![o] = NewItem(req[r])]
      <4>1. items'[id] = items[id] BY <1>0, <2>1, <3>2
      <4> QED BY <2>1, <4>1 DEF Live
    <3>3. CASE /\ pc[r] = "write" /\ Live(req[r].id) /\ items' # items
               /\ items' = [items EXCEPT ![req[r].id] = Updated(req[r], items[req[r].id])]
      <4>1. req[r].cidr = Keep
        <5>1. Write(r) \/ Arrive(r) \/ DbError(r)
          BY <3>3 DEF Serve, Subordinate, FindGroup, FindUser, FindNetwork, CheckGrant,
                      InsertMember, InsertGrant, Remove, CheckName, Store, Load, Fetch,
                      Refetch, Unlink, Erase, ReadMembers, PreloadGroups, ReadGrants,
                      ReadNetworks, Finish
        <5> QED BY <1>5, <3>3, <5>1 DEF Arrive, DbError, tables
      <4>2. CASE id = req[r].id
        <5>1. items'[id] = Updated(req[r], items[id]) BY <1>0, <3>3, <4>2
        <5>2. items'[id].cidr = items[id].cidr BY <3>0, <4>1, <5>1 DEF Updated, Or, Item
        <5> QED BY <3>3, <4>2, <5>2
      <4>3. CASE id # req[r].id
        <5>1. items'[id] = items[id] BY <1>0, <3>3, <4>3
        <5> QED BY <2>1, <5>1 DEF Live
      <4> QED BY <4>2, <4>3
    <3>4. CASE items' = [items EXCEPT ![req[r].id].deleted = TRUE]
      <4>1. CASE id = req[r].id
        <5>1. items'[id] = [items[id] EXCEPT !.deleted = TRUE] BY <1>0, <3>4, <4>1
        <5>2. items'[id].deleted BY <3>0, <5>1 DEF Item
        <5> QED BY <2>1, <5>2 DEF Live
      <4>2. CASE id # req[r].id
        <5>1. items'[id] = items[id] BY <1>0, <3>4, <4>2
        <5> QED BY <2>1, <5>1 DEF Live
      <4> QED BY <4>1, <4>2
    <3> QED BY <1>0, <3>1, <3>2, <3>3, <3>4 DEF ItemStep
  <2> QED BY <1>0, <1>5, <2>1, ReachShrinks
<1> QED BY <1>2, <1>3, <1>4, <1>5

\* Nobody reaches more than before except by a membership that is given to
\* them, an access given to a group, a new CIDR, or the return of their
\* account, for any number of requests at work.
THEOREM AccessOpenedByGrants == Spec => AccessGrows
<1> DEFINE Grows ==
      \A u \in Users : Reach(u)' \subseteq Reach(u) \/ u \notin users
                       \/ \E r \in Slots : Opens(r, u)
<1>1. TypeInv /\ RouteInv /\ GrantRowsInv /\ [Next]_vars => [Grows]_vars
  <2> SUFFICES ASSUME TypeInv, RouteInv, GrantRowsInv, Next PROVE Grows
    OBVIOUS
  <2>0. RowsInv BY DEF RouteInv
  <2>1. ASSUME NEW r \in Slots, Arrive(r) \/ Serve(r) PROVE Grows
    BY <2>0, <2>1, RequestOpens
  <2>2. ASSUME NEW v \in Users, Account(v) PROVE Grows
    <3>1. ASSUME NEW u \in Users, u \in users PROVE Reach(u)' \subseteq Reach(u)
      <4>1. UNCHANGED <<items, members, grants>> /\ (u \in users' => u \in users)
        BY <2>2, <3>1 DEF Account
      <4>2. Paths(u)' \subseteq Paths(u) BY <3>1, <4>1 DEF Paths, Live
      <4> QED BY <4>2 DEF Reach
    <3> QED BY <3>1
  <2> QED BY <2>1, <2>2, Requests
<1>2. Init => GrantRowsInv
  BY TableAssumption DEF Init, GrantRowsInv, GrantRowsAt
<1>3. Grows => \A u \in Users :
        Reach(u)' \subseteq Reach(u)
        \/ u \notin users
        \/ \E r \in Slots : /\ req[r] # None
                           /\ \/ pc[r] = "insert" /\ (req[r].op = "join" => req[r].user = u)
                              \/ pc[r] = "write" /\ req[r].cidr # Keep
                           /\ wrote'[r]
  BY DEF Opens
<1> QED
  BY <1>1, <1>2, <1>3, TypeInit, TypeNext, RouteInit, RouteNext, GrantRowsNext, PTL
  DEF Spec, AccessGrows

-----------------------------------------------------------------------------
(***************************************************************************)
(* Where the requests go.  Ahead falls with each step but in the loop of   *)
(* GetUserRoutes, which takes a group off the list at each round.          *)
(***************************************************************************)
Ahead(i, step) ==
  CASE step = "subordinate" -> 9
    [] step = "group" -> IF i.op = "grant" /\ i.below # "groups" THEN 6 ELSE 8
    [] step = "load" -> 8
    [] step \in {"user", "network", "fetch"} -> 7
    [] step \in {"members", "write", "unlink"} -> 6
    [] step \in {"preload", "exists", "named", "refetch", "erase"} -> 5
    [] step \in {"networks", "insert", "store", "remove"} -> 4
    [] step = "grants" -> 3
    [] step = "reply" -> 1
    [] step = "idle" -> 0

Onward(r) ==
  \/ /\ Ahead(req[r], pc'[r]) < Ahead(req[r], pc[r])
     /\ pc[r] = "networks" => todo'[r] = todo[r]
  \/ /\ pc[r] = "grants" /\ pc'[r] \in {"grants", "networks"}
     /\ todo'[r] \subseteq todo[r] /\ todo'[r] # todo[r]

LEMMA Onwards ==
  ASSUME TypeInv, NEW r \in Slots, Serve(r) PROVE Onward(r)
<1> USE DEF TypeInv, TypeOK
<1>1. PlacedAt(r) BY DEF Placed
<1>2. /\ \A step : Goto(r, step) => pc'[r] = step
      /\ \A c : Reply(r, c) => pc'[r] = "reply"
  BY DEF Goto, Reply
<1>3. ASSUME pc[r] \in Steps \ {"idle", "reply"}, pc'[r] = "reply", todo' = todo
      PROVE  Onward(r)
  BY <1>3 DEF Onward, Ahead, Steps
<1>4. CASE Subordinate(r)
  <2>1. pc[r] = "subordinate" /\ pc'[r] \in {"group", "remove", "reply"}
    BY <1>2, <1>4 DEF Subordinate
  <2> QED BY <2>1 DEF Onward, Ahead
<1>5. CASE FindGroup(r)
  <2>1. /\ pc[r] = "group" /\ req[r].op \in {"join", "grant"}
        /\ \/ pc'[r] = "reply"
           \/ pc'[r] = "user" /\ req[r].op = "join"
           \/ pc'[r] = "network" /\ req[r].below = "groups"
           \/ pc'[r] = "exists"
    BY <1>1, <1>2, <1>5 DEF FindGroup, PlacedAt, OpsAt
  <2> QED BY <2>1 DEF Onward, Ahead
<1>6. CASE FindUser(r)
  <2>1. pc[r] = "user" /\ pc'[r] \in {"insert", "members", "reply"}
    BY <1>2, <1>6 DEF FindUser
  <2> QED BY <2>1 DEF Onward, Ahead
<1>7. CASE FindNetwork(r)
  <2>1. /\ pc[r] = "network" /\ req[r].op = "grant"
        /\ \/ pc'[r] \in {"exists", "reply"}
           \/ pc'[r] = "group" /\ req[r].below # "groups"
    BY <1>1, <1>2, <1>7 DEF FindNetwork, PlacedAt, OpsAt
  <2> QED BY <2>1 DEF Onward, Ahead
<1>8. CASE CheckGrant(r)
  <2>1. pc[r] = "exists" /\ pc'[r] \in {"insert", "reply"} BY <1>2, <1>8 DEF CheckGrant
  <2> QED BY <2>1 DEF Onward, Ahead
<1>9. CASE InsertMember(r) \/ InsertGrant(r)
  <2>1. pc[r] = "insert" /\ pc'[r] = "reply" BY <1>2, <1>9 DEF InsertMember, InsertGrant
  <2> QED BY <2>1 DEF Onward, Ahead
<1>10. CASE Remove(r) \/ Store(r)
  <2>1. pc[r] \in {"remove", "store"} /\ pc'[r] = "reply" BY <1>2, <1>10 DEF Remove, Store
  <2> QED BY <2>1 DEF Onward, Ahead
<1>11. CASE CheckName(r)
  <2>1. pc[r] = "named" /\ pc'[r] \in {"store", "reply"} BY <1>2, <1>11 DEF CheckName
  <2> QED BY <2>1 DEF Onward, Ahead
<1>12. CASE Load(r)
  <2>1. pc[r] = "load" /\ pc'[r] \in {"fetch", "unlink", "erase", "reply"}
    BY <1>2, <1>12 DEF Load, DeleteFrom
  <2> QED BY <2>1 DEF Onward, Ahead
<1>13. CASE Fetch(r)
  <2>1. pc[r] = "fetch" /\ pc'[r] \in {"write", "reply"} BY <1>2, <1>13 DEF Fetch
  <2> QED BY <2>1 DEF Onward, Ahead
<1>14. CASE Write(r) \/ Refetch(r)
  <2>1. \/ pc[r] = "write" /\ pc'[r] \in {"refetch", "reply"}
        \/ pc[r] = "refetch" /\ pc'[r] = "reply"
    BY <1>2, <1>14 DEF Write, Refetch
  <2> QED BY <2>1 DEF Onward, Ahead
<1>15. CASE Unlink(r) \/ Erase(r)
  <2>1. \/ pc[r] = "unlink" /\ pc'[r] = "erase"
        \/ pc[r] = "erase" /\ pc'[r] = "reply"
    BY <1>2, <1>15 DEF Unlink, Erase
  <2> QED BY <2>1 DEF Onward, Ahead
<1>16. CASE ReadMembers(r) \/ PreloadGroups(r)
  <2>1. \/ pc[r] = "members" /\ pc'[r] \in {"preload", "reply"}
        \/ pc[r] = "preload" /\ pc'[r] = "grants"
    BY <1>2, <1>16 DEF ReadMembers, PreloadGroups
  <2> QED BY <2>1 DEF Onward, Ahead
<1>17. CASE ReadGrants(r)
  <2>1. PICK g \in todo[r] :
          todo' = [todo EXCEPT ![r] = @ \ {g}] /\ pc'[r] \in {"grants", "networks", "reply"}
    BY <1>2, <1>17 DEF ReadGrants, NextGroup
  <2>2. pc[r] = "grants" /\ todo'[r] = todo[r] \ {g} BY <1>17, <2>1 DEF ReadGrants
  <2>3. todo'[r] \subseteq todo[r] /\ todo'[r] # todo[r] BY <2>2
  <2>4. CASE pc'[r] = "reply" BY <2>2, <2>4 DEF Onward, Ahead
  <2>5. CASE pc'[r] \in {"grants", "networks"} BY <2>2, <2>3, <2>5 DEF Onward
  <2> QED BY <2>1, <2>4, <2>5
<1>18. CASE ReadNetworks(r)
  <2>1. pc[r] = "networks" /\ pc'[r] \in {"grants", "reply"} /\ todo' = todo
    BY <1>2, <1>18 DEF ReadNetworks, NextGroup
  <2> QED BY <2>1 DEF Onward, Ahead
<1>19. CASE DbError(r)
  <2>1. todo' = todo BY <1>19 DEF DbError, reading
  <2>2. \/ pc[r] = "named" /\ pc'[r] = "store"
        \/ pc[r] = "exists" /\ pc'[r] = "insert"
        \/ pc[r] \in Steps \ {"idle", "reply"} /\ pc'[r] = "reply"
    BY <1>2, <1>19 DEF DbError
  <2>3. CASE \/ pc[r] = "named" /\ pc'[r] = "store"
             \/ pc[r] = "exists" /\ pc'[r] = "insert"
    BY <2>3 DEF Onward, Ahead
  <2> QED BY <1>3, <2>1, <2>2, <2>3
<1>20. CASE Finish(r)
  <2>1. pc[r] = "reply" /\ pc'[r] = "idle" BY <1>20 DEF Finish
  <2> QED BY <2>1 DEF Onward, Ahead
<1> QED BY <1>4, <1>5, <1>6, <1>7, <1>8, <1>9, <1>10, <1>11, <1>12, <1>13, <1>14, <1>15,
           <1>16, <1>17, <1>18, <1>19, <1>20 DEF Serve

\* However requests interleave, whatever fails and however many groups a user
\* is in, no request goes round for ever: it sends each statement once, those
\* of the loop in GetUserRoutes once for each group it has read.
RequestAdvances ==
  [][\A r \in Slots :
       (pc'[r] = pc[r] /\ todo'[r] = todo[r]) \/ pc[r] = "idle" \/ Onward(r)]_vars
THEOREM RequestsAdvance == Spec => RequestAdvances
<1>1. TypeInv /\ [Next]_vars =>
        [\A r \in Slots :
           (pc'[r] = pc[r] /\ todo'[r] = todo[r]) \/ pc[r] = "idle" \/ Onward(r)]_vars
  <2>1. ASSUME TypeInv, NEW r \in Slots, Arrive(r) \/ Serve(r), NEW q \in Slots
        PROVE  (pc'[q] = pc[q] /\ todo'[q] = todo[q]) \/ pc[q] = "idle" \/ Onward(q)
    <3>1. CASE q = r BY <2>1, <3>1, Onwards DEF Arrive
    <3>2. CASE q # r
      BY <2>1, <3>2, SlotMoves, ReadsKept DEF Moves, TypeInv, TypeOK
    <3> QED BY <3>1, <3>2
  <2>2. ASSUME NEW u \in Users, Account(u) PROVE pc' = pc /\ todo' = todo
    BY <2>2 DEF Account, reading
  <2> QED BY <2>1, <2>2, Requests
<1> QED BY <1>1, TypeInit, TypeNext, PTL DEF Spec, RequestAdvances
=============================================================================
