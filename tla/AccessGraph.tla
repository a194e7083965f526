---------------------------- MODULE AccessGraph ----------------------------
(***************************************************************************)
(* Groups, networks, who is in which group, which network which group may  *)
(* reach, and the routes that a VPN client is given from them.             *)
(*                                                                         *)
(* Requests are served as in UserAccounts: one action is one statement and *)
(* what the code does with its result.  The two tables of rows have one    *)
(* form and nearly one code, so they are one function here; an item is a   *)
(* group or a network.  Users are UserAccounts': here they are only there  *)
(* or not, and have a manager that does not change.                        *)
(***************************************************************************)
EXTENDS Integers, FiniteSets

CONSTANTS
    Users, Groups, Networks,    \* primary keys
    Managers,                   \* keys of the users that manage those of Users
    Names,                      \* of groups and of networks
    Cidrs,                      \* of networks
    ManagerOf,                  \* users.manager_id of each user
    Slots, Inputs,              \* requests in flight, requests clients send
    Items0, Members0, Grants0,  \* the tables at the start
    Failures,                   \* TRUE when statements may fail
    None, Keep,                 \* no value; a field that is not sent
    Malformed                   \* a CIDR that validateCIDR refuses

Ids == Groups \cup Networks
Item == [name: Names, cidr: Cidrs \cup {None}, deleted: BOOLEAN]

\* join and leave are of a user and a group, by POST and DELETE below /groups
\* or below /users; grant and revoke of a network and a group, below /groups or
\* below /networks; routes is what the OpenVPN server asks for a client, and
\* with a role the list of the user's groups with their networks, which is made by
\* the same reads.
Ops == {"join", "leave", "grant", "revoke", "create", "update", "delete", "routes"}
Roles == {"USER", "MANAGER", "ADMIN"}
Input == [op: Ops, below: {"groups", "users", "networks"}, role: Roles \cup {None},
          by: Managers \cup Users \cup {None}, user: Users \cup {None}, group: Groups \cup {None},
          id: Ids \cup {None}, name: Names \cup {Keep}, cidr: Cidrs \cup {Keep, None, Malformed}]

Steps == {"idle", "subordinate", "group", "user", "network", "exists", "insert",
          "remove", "named", "store", "load", "fetch", "write", "refetch", "unlink",
          "erase", "members", "preload", "grants", "networks", "reply"}
RouteSteps == {"user", "members", "preload", "grants", "networks"}
Codes == {0, 200, 201, 400, 403, 404, 409, 500}

ASSUME KeysAssumption == Groups \cap Networks = {}
ASSUME MarkAssumption ==
  /\ None \notin Item \cup Cidrs \cup Ids \cup Users \cup Managers \cup Input
  /\ Keep \notin Names \cup Cidrs \cup {None, Malformed}
  /\ Malformed \notin Cidrs \cup {None}
ASSUME ManagerAssumption == ManagerOf \in [Users -> Managers \cup {None}]
ASSUME InputAssumption ==
  \A i \in Inputs :
    /\ i \in Input
    /\ i.op \in {"join", "leave"} => i.user \in Users /\ i.group \in Groups
    /\ i.op \in {"grant", "revoke"} => i.id \in Networks /\ i.group \in Groups
    /\ i.op \in {"update", "delete"} => i.id \in Ids
    /\ i.op = "create" => i.id \in Ids /\ i.name \in Names /\ i.cidr # Keep
    /\ i.op = "update" => i.cidr # None
    /\ i.id \in Groups => i.cidr # Malformed
    /\ i.op = "routes" => i.user \in Users
ASSUME TableAssumption ==
  /\ Items0 \in [Ids -> Item \cup {None}]
  /\ Members0 \subseteq Users \X Groups
  /\ Grants0 \subseteq Networks \X Groups
  /\ \A p \in Members0 \cup Grants0 : Items0[p[2]] # None
  /\ \A p \in Grants0 : Items0[p[1]] # None /\ ~Items0[p[1]].deleted
ASSUME FailuresAssumption == Failures \in BOOLEAN

VARIABLES
    items,      \* groups and networks: id -> row, None where there is none
    users,      \* the users whose row is there and not deleted
    members,    \* user_groups
    grants,     \* network_groups
    pc, req, code,
    wrote,      \* observer: a statement of this request changed a table
    todo,       \* the groups whose networks a routes request has still to read
    asked,      \* the network ids it has read and preloads next
    routes,     \* the CIDRs it has collected; None is the empty one
    seen,       \* observer: what was in effect at some time since it began
    held,       \* observer: what was in effect all the time since it began
    raced       \* observer: grants made while their network was being deleted

tables == <<items, users, members, grants>>
reading == <<todo, asked, routes>>
vars == <<tables, pc, req, code, wrote, reading, seen, held, raced>>

-----------------------------------------------------------------------------
Live(id) == items[id] # None /\ ~items[id].deleted
SameTable(id) == IF id \in Groups THEN Groups ELSE Networks

\* The WHERE of a statement on one model, and what Preload finds of an id.
WhereIdOnly(id) == items[id] # None
WhereLive(id) == Live(id)
PreloadedUnscoped(id) == items[id] # None
Preloaded(id) == Live(id)

\* uniqueIndex on name, deleted rows included.
Unique(id, name) ==
  \A o \in SameTable(id) \ {id} : items[o] # None => items[o].name # name

Or(sent, old) == IF sent = Keep THEN old ELSE sent
UpdatedAsSent(i, row) == [row EXCEPT !.name = Or(i.name, @), !.cidr = i.cidr]
Updated(i, row) == [row EXCEPT !.name = Or(i.name, @), !.cidr = Or(i.cidr, @)]

\* What gives user u a route: <<group, network, CIDR>>.
Paths(u) ==
  {<<p[2], p[1], items[p[1]].cidr>> :
     p \in {q \in grants : u \in users /\ Live(q[1]) /\ Live(q[2]) /\ <<u, q[2]>> \in members}}
Reach(u) == {path[3] : path \in Paths(u)}

-----------------------------------------------------------------------------
\* The observers of a routes request, from its arrival to its answer.
Nothing == [groups |-> {}, grants |-> {}, cidrs |-> {}]
InEffect(u) ==
  [groups |-> {g \in Groups : Live(g) /\ <<u, g>> \in members},
   grants |-> grants,
   cidrs |-> {<<n, items[n].cidr>> : n \in {m \in Networks : Live(m)}}]
Joined(a, b) == [groups |-> a.groups \cup b.groups, grants |-> a.grants \cup b.grants,
                 cidrs |-> a.cidrs \cup b.cidrs]

Routing(r) == pc[r] \in RouteSteps /\ req[r].op = "routes"
Routed(r) == pc[r] = "reply" /\ req[r].op = "routes" /\ code[r] = 200

Observe ==
  /\ seen' = [r \in Slots |-> IF Routing(r)' THEN Joined(seen[r], InEffect(req[r].user)')
                             ELSE IF Routed(r)' THEN seen[r] ELSE Nothing]
  /\ held' = [r \in Slots |-> IF Routing(r)' /\ ~Routing(r) THEN Paths(req[r].user)'
                             ELSE IF Routing(r)' THEN held[r] \cap Paths(req[r].user)'
                             ELSE IF Routed(r)' THEN held[r] ELSE {}]

-----------------------------------------------------------------------------
Goto(r, step) == pc' = [pc EXCEPT ![r] = step] /\ UNCHANGED code
Reply(r, c) ==
  /\ pc' = [pc EXCEPT ![r] = "reply"]
  /\ code' = [code EXCEPT ![r] = c]

\* What the handlers do: the first statement of each, what it answers when a
\* row is not found, and what when the service refuses or a statement fails.
Checked(i, step) == IF i.role = "MANAGER" THEN "subordinate" ELSE step
GroupAddUser(i) == [first |-> Checked(i, "group"), missing |-> 500, refused |-> 500]
GroupRemoveUser(i) == [first |-> Checked(i, "remove"), missing |-> 404, refused |-> 500]
UserAddGroup == [first |-> "group", missing |-> 500, refused |-> 500]
UserRemoveGroup == [first |-> "remove", missing |-> 404, refused |-> 500]
GroupAddNetwork == [first |-> "group", missing |-> 500, refused |-> 500]
GroupRemoveNetwork == [first |-> "remove", missing |-> 404, refused |-> 500]
NetworkAddGroup == [first |-> "network", missing |-> 404, refused |-> 400]
NetworkRemoveGroup == [first |-> "remove", missing |-> 404, refused |-> 500]
GroupCreate == [first |-> "named", missing |-> 404, refused |-> 500]
NetworkCreate == [first |-> "named", missing |-> 404, refused |-> 500]
GroupUpdate == [first |-> "load", missing |-> 404, refused |-> 500]
NetworkUpdate == [first |-> "load", missing |-> 404, refused |-> 500]
GroupDelete == [first |-> "load", missing |-> 404, refused |-> 500]
NetworkDelete == [first |-> "load", missing |-> 404, refused |-> 500]
GetUserRoutes == [first |-> "user", missing |-> 404, refused |-> 500]
UserGetGroups == [first |-> "user", missing |-> 404, refused |-> 500]

Handler(i) ==
  CASE i.op = "join" -> IF i.below = "groups" THEN GroupAddUser(i) ELSE UserAddGroup
    [] i.op = "leave" -> IF i.below = "groups" THEN GroupRemoveUser(i) ELSE UserRemoveGroup
    [] i.op = "grant" -> IF i.below = "groups" THEN GroupAddNetwork ELSE NetworkAddGroup
    [] i.op = "revoke" -> IF i.below = "groups" THEN GroupRemoveNetwork ELSE NetworkRemoveGroup
    [] i.op = "create" -> IF i.id \in Groups THEN GroupCreate ELSE NetworkCreate
    [] i.op = "update" -> IF i.id \in Groups THEN GroupUpdate ELSE NetworkUpdate
    [] i.op = "delete" -> IF i.id \in Groups THEN GroupDelete ELSE NetworkDelete
    [] i.op = "routes" -> IF i.role = None THEN GetUserRoutes ELSE UserGetGroups
FirstStep(i) == Handler(i).first
NotFound(i) == Handler(i).missing
Rejected(i) == Handler(i).refused

-----------------------------------------------------------------------------
\* RequireRole: managers may change memberships only, and everybody may ask for
\* somebody's groups.  The VPN server's own token has no role.
Refused(i) ==
  \/ i.role = "USER" /\ i.op # "routes"
  \/ i.role = "MANAGER" /\ i.op \notin {"join", "leave", "routes"}

\* UserHandler.GetGroups: of one's own groups, or of a subordinate's.
Denied(i) ==
  /\ i.op = "routes" /\ i.by # i.user
  /\ \/ i.role = "USER"
     \/ i.role = "MANAGER" /\ ManagerOf[i.user] # i.by

Arrive(r) ==
  /\ pc[r] = "idle"
  /\ \E i \in Inputs :
       /\ req' = [req EXCEPT ![r] = i]
       /\ \/ Refused(i) /\ Reply(r, 403)
          \/ ~Refused(i) /\ i.op = "create" /\ i.cidr = Malformed /\ Reply(r, 400)
          \/ /\ ~Refused(i) /\ ~(i.op = "create" /\ i.cidr = Malformed)
             /\ Goto(r, FirstStep(i))
  /\ UNCHANGED <<tables, wrote, reading, raced>>
  /\ Observe

\* GroupHandler's check that the user is the manager's.
Subordinate(r) ==
  /\ pc[r] = "subordinate"
  /\ LET i == req[r] IN
       \/ i.user \notin users /\ Reply(r, 404)
       \/ i.user \in users /\ ManagerOf[i.user] # i.by /\ Reply(r, 403)
       \/ /\ i.user \in users /\ ManagerOf[i.user] = i.by
          /\ Goto(r, IF i.op = "join" THEN "group" ELSE "remove")
  /\ UNCHANGED <<tables, req, wrote, reading, raced>>
  /\ Observe

\* The reads by which AddUserToGroup, AddNetworkToGroup and AddGroupToNetwork
\* make sure of both rows.
FindGroup(r) ==
  /\ pc[r] = "group"
  /\ LET i == req[r] IN
       \/ ~Live(i.group) /\ Reply(r, NotFound(i))
       \/ /\ Live(i.group)
          /\ Goto(r, IF i.op = "join" THEN "user"
                     ELSE IF i.below = "groups" THEN "network" ELSE "exists")
  /\ UNCHANGED <<tables, req, wrote, reading, raced>>
  /\ Observe

FindUser(r) ==
  /\ pc[r] = "user"
  /\ LET i == req[r] IN
       \/ i.user \notin users /\ Reply(r, NotFound(i))
       \/ i.user \in users /\ Denied(i) /\ Reply(r, 403)
       \/ /\ i.user \in users /\ ~Denied(i)
          /\ Goto(r, IF i.op = "join" THEN "insert" ELSE "members")
  /\ UNCHANGED <<tables, req, wrote, reading, raced>>
  /\ Observe

FindNetwork(r) ==
  /\ pc[r] = "network"
  /\ LET i == req[r] IN
       \/ ~Live(i.id) /\ Reply(r, NotFound(i))
       \/ Live(i.id) /\ Goto(r, IF i.below = "groups" THEN "exists" ELSE "group")
  /\ UNCHANGED <<tables, req, wrote, reading, raced>>
  /\ Observe

\* A grant that is there already is answered as made.
CheckGrantIdempotent(r) ==
  /\ pc[r] = "exists"
  /\ \/ <<req[r].id, req[r].group>> \in grants /\ Reply(r, 200)
     \/ <<req[r].id, req[r].group>> \notin grants /\ Goto(r, "insert")
  /\ UNCHANGED <<tables, req, wrote, reading, raced>>
  /\ Observe
CheckGrant(r) ==
  /\ pc[r] = "exists"
  /\ \/ <<req[r].id, req[r].group>> \in grants /\ Reply(r, Rejected(req[r]))
     \/ <<req[r].id, req[r].group>> \notin grants /\ Goto(r, "insert")
  /\ UNCHANGED <<tables, req, wrote, reading, raced>>
  /\ Observe

\* The INSERTs; the primary key of the table refuses what is there already.
InsertMember(r) ==
  /\ pc[r] = "insert" /\ req[r].op = "join"
  /\ LET pair == <<req[r].user, req[r].group>> IN
       \/ pair \in members /\ Reply(r, Rejected(req[r])) /\ UNCHANGED <<members, wrote>>
       \/ /\ pair \notin members
          /\ members' = members \cup {pair}
          /\ wrote' = [wrote EXCEPT ![r] = TRUE]
          /\ Reply(r, 200)
  /\ UNCHANGED <<items, users, grants, req, reading, raced>>
  /\ Observe

BeingDeleted(id) == ~Live(id) \/ \E s \in Slots : pc[s] = "erase" /\ req[s].id = id

InsertGrant(r) ==
  /\ pc[r] = "insert" /\ req[r].op = "grant"
  /\ LET pair == <<req[r].id, req[r].group>> IN
       \/ pair \in grants /\ Reply(r, Rejected(req[r])) /\ UNCHANGED <<grants, wrote, raced>>
       \/ /\ pair \notin grants
          /\ grants' = grants \cup {pair}
          /\ raced' = IF BeingDeleted(pair[1]) THEN raced \cup {pair} ELSE raced
          /\ wrote' = [wrote EXCEPT ![r] = TRUE]
          /\ Reply(r, 200)
  /\ UNCHANGED <<items, users, members, req, reading>>
  /\ Observe

\* The DELETEs of an association, whether it is there or not.
Remove(r) ==
  /\ pc[r] = "remove"
  /\ LET i == req[r] IN
       /\ members' = IF i.op = "leave" THEN members \ {<<i.user, i.group>>} ELSE members
       /\ grants' = IF i.op = "revoke" THEN grants \ {<<i.id, i.group>>} ELSE grants
       /\ wrote' = [wrote EXCEPT ![r] = members' # members \/ grants' # grants]
  /\ raced' = raced \cap grants'
  /\ Reply(r, 200)
  /\ UNCHANGED <<items, users, req, reading>>
  /\ Observe

-----------------------------------------------------------------------------
\* POST, PUT and DELETE of a group or a network.

CheckName(r) ==
  /\ pc[r] = "named"
  /\ LET taken == \E o \in SameTable(req[r].id) : Live(o) /\ items[o].name = req[r].name
     IN \/ taken /\ Reply(r, 409)
        \/ ~taken /\ Goto(r, "store")
  /\ UNCHANGED <<tables, req, wrote, reading, raced>>
  /\ Observe

NewItem(i) == [name |-> i.name, cidr |-> i.cidr, deleted |-> FALSE]

\* A deleted row of the name is taken back, as UserService.Create does.
StoreOrRestore(r) ==
  /\ pc[r] = "store"
  /\ LET i == req[r]
         old == {o \in SameTable(i.id) : items[o] # None /\ items[o].name = i.name}
         free == {o \in SameTable(i.id) : items[o] = None}
     IN \/ \E o \in IF old = {} THEN free ELSE old :
             /\ items' = [items EXCEPT ![o] = NewItem(i)]
             /\ wrote' = [wrote EXCEPT ![r] = TRUE]
             /\ Reply(r, 201)
  /\ UNCHANGED <<users, members, grants, req, reading, raced>>
  /\ Observe
Store(r) ==
  /\ pc[r] = "store"
  /\ LET i == req[r] IN
       \/ /\ \E o \in SameTable(i.id) : /\ items[o] = None /\ Unique(o, i.name)
                                        /\ items' = [items EXCEPT ![o] = NewItem(i)]
          /\ wrote' = [wrote EXCEPT ![r] = TRUE]
          /\ Reply(r, 201)
       \/ /\ \E o \in SameTable(i.id) : items[o] # None /\ items[o].name = i.name
          /\ Reply(r, 500)
          /\ UNCHANGED <<items, wrote>>
  /\ UNCHANGED <<users, members, grants, req, reading, raced>>
  /\ Observe

\* A network's associations go first.
EraseOnly(i) == "erase"
DeleteFrom(i) == IF i.id \in Networks THEN "unlink" ELSE "erase"

\* The handler's read, then the service's.
Load(r) ==
  /\ pc[r] = "load"
  /\ LET i == req[r] IN
       \/ ~Live(i.id) /\ Reply(r, 404)
       \/ Live(i.id) /\ Goto(r, IF i.op = "update" THEN "fetch" ELSE DeleteFrom(i))
  /\ UNCHANGED <<tables, req, wrote, reading, raced>>
  /\ Observe

Fetch(r) ==
  /\ pc[r] = "fetch"
  /\ \/ ~Live(req[r].id) /\ Reply(r, 500)
     \/ Live(req[r].id) /\ req[r].cidr = Malformed /\ Reply(r, 400)
     \/ Live(req[r].id) /\ req[r].cidr # Malformed /\ Goto(r, "write")
  /\ UNCHANGED <<tables, req, wrote, reading, raced>>
  /\ Observe

Write(r) ==
  /\ pc[r] = "write"
  /\ LET i == req[r] IN
       \/ ~WhereLive(i.id) /\ Goto(r, "refetch") /\ UNCHANGED <<items, wrote>>
       \/ /\ WhereLive(i.id) /\ ~Unique(i.id, Or(i.name, items[i.id].name))
          /\ Reply(r, 500)
          /\ UNCHANGED <<items, wrote>>
       \/ /\ WhereLive(i.id) /\ Unique(i.id, Or(i.name, items[i.id].name))
          /\ items' = [items EXCEPT ![i.id] = Updated(i, @)]
          /\ wrote' = [wrote EXCEPT ![r] = TRUE]
          /\ Goto(r, "refetch")
  /\ UNCHANGED <<users, members, grants, req, reading, raced>>
  /\ Observe

Refetch(r) ==
  /\ pc[r] = "refetch"
  /\ Reply(r, IF Live(req[r].id) THEN 200 ELSE 500)
  /\ UNCHANGED <<tables, req, wrote, reading, raced>>
  /\ Observe

\* NetworkService.Delete: the network's associations, then the row.
Unlink(r) ==
  /\ pc[r] = "unlink"
  /\ grants' = {p \in grants : p[1] # req[r].id}
  /\ raced' = raced \cap grants'
  /\ wrote' = [wrote EXCEPT ![r] = @ \/ grants' # grants]
  /\ Goto(r, "erase")
  /\ UNCHANGED <<items, users, members, req, reading>>
  /\ Observe

\* The soft delete.  A group keeps its associations.
Erase(r) ==
  /\ pc[r] = "erase"
  /\ LET id == req[r].id IN
       \/ ~WhereLive(id) /\ UNCHANGED <<items, wrote>>
       \/ /\ WhereLive(id)
          /\ items' = [items EXCEPT ![id].deleted = TRUE]
          /\ wrote' = [wrote EXCEPT ![r] = TRUE]
  /\ Reply(r, 200)
  /\ UNCHANGED <<users, members, grants, req, reading, raced>>
  /\ Observe

-----------------------------------------------------------------------------
\* GET /vpn-auth/users/:id/routes.  GetUserGroups reads the memberships and
\* then the groups; for each group that is there GetGroupNetworks reads the
\* associations and then the networks.

NextGroup(r, groups) ==
  IF groups = {} THEN Reply(r, 200) ELSE Goto(r, "grants")

ReadMembers(r) ==
  /\ pc[r] = "members"
  /\ LET mine == {g \in Groups : <<req[r].user, g>> \in members} IN
       /\ todo' = [todo EXCEPT ![r] = mine]
       /\ IF mine = {} THEN Reply(r, 200) ELSE Goto(r, "preload")
  /\ UNCHANGED <<tables, req, wrote, asked, routes, raced>>
  /\ Observe

\* A deleted group comes out as a group with no id, which is asked for its
\* networks like the others and has none.
PreloadGroups(r) ==
  /\ pc[r] = "preload"
  /\ todo' = [todo EXCEPT ![r] = {IF Preloaded(g) THEN g ELSE None : g \in @}]
  /\ Goto(r, "grants")
  /\ UNCHANGED <<tables, req, wrote, asked, routes, raced>>
  /\ Observe

ReadGrants(r) ==
  /\ pc[r] = "grants"
  /\ \E g \in todo[r] :
       LET nets == {n \in Networks : <<n, g>> \in grants} IN
         /\ todo' = [todo EXCEPT ![r] = @ \ {g}]
         /\ asked' = [asked EXCEPT ![r] = nets]
         /\ IF nets = {} THEN NextGroup(r, todo[r] \ {g}) ELSE Goto(r, "networks")
  /\ UNCHANGED <<tables, req, wrote, routes, raced>>
  /\ Observe

\* A network that is not there comes out as one with an empty CIDR.
CidrsOf(nets) == {IF Preloaded(n) THEN items[n].cidr ELSE None : n \in nets}

ReadNetworksOfLast(r) ==
  /\ pc[r] = "networks"
  /\ routes' = [routes EXCEPT ![r] = CidrsOf(asked[r])]
  /\ asked' = [asked EXCEPT ![r] = {}]
  /\ NextGroup(r, todo[r])
  /\ UNCHANGED <<tables, req, wrote, todo, raced>>
  /\ Observe
ReadNetworks(r) ==
  /\ pc[r] = "networks"
  /\ routes' = [routes EXCEPT ![r] = @ \cup CidrsOf(asked[r])]
  /\ asked' = [asked EXCEPT ![r] = {}]
  /\ NextGroup(r, todo[r])
  /\ UNCHANGED <<tables, req, wrote, todo, raced>>
  /\ Observe

-----------------------------------------------------------------------------
FailCode(r) ==
  CASE pc[r] = "load" /\ req[r].id \in Groups -> 404
    [] pc[r] = "subordinate" -> 404
    [] pc[r] = "user" /\ req[r].op = "routes" -> 404
    [] OTHER -> Rejected(req[r])

\* A statement fails and changes nothing.  The reads that look for a row that
\* must not be there take an error for its absence.
DbError(r) ==
  /\ Failures
  /\ pc[r] \notin {"idle", "reply"}
  /\ \/ pc[r] = "named" /\ Goto(r, "store")
     \/ pc[r] = "exists" /\ Goto(r, "insert")
     \/ pc[r] \notin {"named", "exists"} /\ Reply(r, FailCode(r))
  /\ UNCHANGED <<tables, req, wrote, reading, raced>>
  /\ Observe

Finish(r) ==
  /\ pc[r] = "reply"
  /\ pc' = [pc EXCEPT ![r] = "idle"]
  /\ req' = [req EXCEPT ![r] = None]
  /\ code' = [code EXCEPT ![r] = 0]
  /\ wrote' = [wrote EXCEPT ![r] = FALSE]
  /\ todo' = [todo EXCEPT ![r] = {}]
  /\ asked' = [asked EXCEPT ![r] = {}]
  /\ routes' = [routes EXCEPT ![r] = {}]
  /\ UNCHANGED <<tables, raced>>
  /\ Observe

\* What UserAccounts does to a user: the soft delete, and the restore that
\* gives the row its id back.  Memberships stay through both.
Account(u) ==
  /\ users' = IF u \in users THEN users \ {u} ELSE users \cup {u}
  /\ UNCHANGED <<items, members, grants, pc, req, code, wrote, reading, raced>>
  /\ Observe

Serve(r) ==
  \/ Subordinate(r) \/ FindGroup(r) \/ FindUser(r) \/ FindNetwork(r)
  \/ CheckGrant(r) \/ InsertMember(r) \/ InsertGrant(r) \/ Remove(r)
  \/ CheckName(r) \/ Store(r) \/ Load(r) \/ Fetch(r) \/ Write(r) \/ Refetch(r)
  \/ Unlink(r) \/ Erase(r)
  \/ ReadMembers(r) \/ PreloadGroups(r) \/ ReadGrants(r) \/ ReadNetworks(r)
  \/ DbError(r) \/ Finish(r)

-----------------------------------------------------------------------------
Init ==
  /\ items = Items0
  /\ users = Users
  /\ members = Members0
  /\ grants = Grants0
  /\ pc = [r \in Slots |-> "idle"]
  /\ req = [r \in Slots |-> None]
  /\ code = [r \in Slots |-> 0]
  /\ wrote = [r \in Slots |-> FALSE]
  /\ todo = [r \in Slots |-> {}]
  /\ asked = [r \in Slots |-> {}]
  /\ routes = [r \in Slots |-> {}]
  /\ seen = [r \in Slots |-> Nothing]
  /\ held = [r \in Slots |-> {}]
  /\ raced = {}

Next == \/ \E r \in Slots : Arrive(r) \/ Serve(r)
        \/ \E u \in Users : Account(u)

Spec == Init /\ [][Next]_vars

-----------------------------------------------------------------------------
\* Every variable has its type: an update, for one, stores no marker of a
\* field that was not sent.
TypeOK ==
  /\ items \in [Ids -> Item \cup {None}]
  /\ users \subseteq Users
  /\ members \subseteq Users \X Groups
  /\ grants \subseteq Networks \X Groups
  /\ raced \subseteq Networks \X Groups
  /\ pc \in [Slots -> Steps]
  /\ req \in [Slots -> Input \cup {None}]
  /\ code \in [Slots -> Codes]
  /\ wrote \in [Slots -> BOOLEAN]
  /\ todo \in [Slots -> SUBSET (Groups \cup {None})]
  /\ asked \in [Slots -> SUBSET Networks]
  /\ routes \in [Slots -> SUBSET (Cidrs \cup {None})]
  /\ seen \in [Slots -> [groups : SUBSET Groups, grants : SUBSET (Networks \X Groups),
                        cidrs : SUBSET (Networks \X (Cidrs \cup {None}))]]
  /\ held \in [Slots -> SUBSET (Groups \X Networks \X (Cidrs \cup {None}))]

\* Though GetUserRoutes reads memberships, groups, associations and networks
\* one after the other, a client is given no CIDR but that of a network to
\* which a group of the user gave access while the request was served: no
\* deleted group, deleted network or CIDR from before it.
RoutesWereGranted ==
  \A r \in Slots :
    Routed(r) =>
      \A c \in routes[r] \ {None} :
        \E g \in seen[r].groups, n \in Networks :
          <<n, g>> \in seen[r].grants /\ <<n, c>> \in seen[r].cidrs

\* It is given the CIDR of every network that the user could reach all that
\* time, whatever requests changed of the others meanwhile.
RoutesComplete ==
  \A r \in Slots :
    Routed(r) => {path[3] : path \in held[r]} \subseteq routes[r]

\* NetworkService.Delete takes the associations of the network with it, so one
\* that is left over was made while the network was being deleted.
OrphansOnlyByRace == \A p \in grants : Live(p[1]) \/ p \in raced

\* Who asks for a membership, an access or a new row is told that it was made
\* exactly when this request made it.
AnswerTellsWhatWasStored ==
  \A r \in Slots :
    pc[r] = "reply" /\ req[r].op \in {"join", "grant", "create"} =>
      (code[r] \in {200, 201} <=> wrote[r])

\* A group or a network that is deleted is never changed again, neither by an
\* update that read it before nor by a new one of its name.
DeletedItemsStay ==
  [][\A id \in Ids : items[id] # None /\ items[id].deleted => items'[id] = items[id]]_vars

\* Nobody reaches more than before except by a membership that is given to
\* them, an access given to a group, a new CIDR of a network, or their own
\* account's return: no deletion, new row or removal opens anything.
AccessGrows ==
  [][\A u \in Users :
       Reach(u)' \subseteq Reach(u)
       \/ u \notin users
       \/ \E r \in Slots : /\ req[r] # None
                          /\ \/ pc[r] = "insert" /\ (req[r].op = "join" => req[r].user = u)
                             \/ pc[r] = "write" /\ req[r].cidr # Keep
                          /\ wrote'[r]]_vars

\* group_service.go: AddNetworkToGroup is to "reject stale IDs ... instead of
\* creating an orphaned association".
NoOrphan == \A p \in grants : Live(p[1])
=============================================================================
