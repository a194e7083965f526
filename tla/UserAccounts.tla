---------------------------- MODULE UserAccounts ----------------------------
(***************************************************************************)
(* The users table and the HTTP requests that change it.                   *)
(*                                                                         *)
(* gin serves every request in a goroutine of its own.  A handler issues   *)
(* several SQL statements, each committed by itself: nothing spans two of  *)
(* them.  One action of this module is one statement together with the     *)
(* code that runs on its result up to the next one, so requests interleave *)
(* exactly where the database lets them.  A slot is a goroutine; a slot    *)
(* that has answered serves another request.                               *)
(*                                                                         *)
(* Rows keep the columns that decide anything: first_name, telephone, the  *)
(* dates and the like are copied or left alone and are not modelled.  A    *)
(* VPN address is kept as the text that was sent or made, and a text is a  *)
(* number: what net.IP prints for an address of the configured network is  *)
(* the address's offset in it, any other spelling is another number.       *)
(***************************************************************************)
EXTENDS Integers, FiniteSets

CONSTANTS
    Ids,        \* primary keys a row may get (uuid.New)
    Names,      \* usernames
    Mails,      \* email addresses
    Pwds,       \* passwords; a hash is equal to the password it was made of
    Slots,      \* requests in flight at one time
    Inputs,     \* the requests clients send
    Users0,     \* the table at the start
    Configured, \* TRUE when vpn.network is set
    NetSize,    \* addresses in vpn.network, 0 when there is none or it is no CIDR
    ServerIP,   \* the text of vpn.server_ip, None when it is empty
    AddressOf(_),   \* net.ParseIP: the address that a text spells
    Failures,   \* TRUE when statements may fail (lost connection, timeout)
    None,       \* SQL NULL, the empty string, no row
    Keep        \* a field the request's JSON leaves out

Roles == {"USER", "MANAGER", "ADMIN"}
\* The texts of addresses of the network.
Addrs == {t \in Nat : AddressOf(t) < NetSize}

\* A row of models.User; `deleted` is deleted_at IS NOT NULL.
Row == [name: Names, mail: Mails, pwd: Pwds, role: Roles,
        manager: Ids \cup {None}, active: BOOLEAN,
        ip: Addrs \cup {None}, deleted: BOOLEAN]

\* A request: who the token says is calling (by, role), the id in the path,
\* and the body.  POST /users takes CreateUserRequest.
CreateInput ==
  [op: {"create"}, by: Ids, role: Roles, id: {None}, name: Names, mail: Mails,
   pwd: Pwds, cur: {Keep}, rank: Roles, manager: Ids \cup {None},
   active: BOOLEAN \cup {Keep}, ip: Nat \cup {None}]

\* PUT /users/:id takes UpdateUserRequest, PUT /users/profile a part of it.
UpdateInput ==
  [op: {"update"}, by: Ids, role: Roles, id: Ids, name: Names \cup {Keep},
   mail: Mails \cup {Keep}, pwd: Pwds \cup {Keep}, cur: {Keep},
   rank: Roles \cup {Keep}, manager: Ids \cup {Keep},
   active: BOOLEAN \cup {Keep}, ip: Nat \cup {None, Keep}]

ProfileInput ==
  [op: {"profile"}, by: Ids, role: Roles, id: {None}, name: {Keep},
   mail: Mails \cup {Keep}, pwd: {Keep}, cur: {Keep}, rank: {Keep},
   manager: {Keep}, active: {Keep}, ip: {Keep}]

\* PUT /users/password, PUT /users/:id/password and DELETE /users/:id.
PasswordInput ==
  [op: {"password"}, by: Ids, role: Roles, id: {None}, name: {Keep},
   mail: {Keep}, pwd: Pwds, cur: Pwds, rank: {Keep}, manager: {Keep},
   active: {Keep}, ip: {Keep}]

ResetInput ==
  [op: {"reset"}, by: Ids, role: Roles, id: Ids, name: {Keep}, mail: {Keep},
   pwd: Pwds, cur: {Keep}, rank: {Keep}, manager: {Keep}, active: {Keep},
   ip: {Keep}]

DeleteInput ==
  [op: {"delete"}, by: Ids, role: Roles, id: Ids, name: {Keep}, mail: {Keep},
   pwd: {Keep}, cur: {Keep}, rank: {Keep}, manager: {Keep}, active: {Keep},
   ip: {Keep}]

AccountInput == CreateInput \cup UpdateInput \cup ProfileInput
                  \cup PasswordInput \cup ResetInput \cup DeleteInput

\* Where a request stands: the next statement it will send.
Steps == {"idle", "addr", "exists", "match", "restore", "reload", "insert",
          "load", "fetch", "write", "refetch", "erase", "audit", "reply"}
Codes == {0, 200, 201, 400, 403, 404, 409, 500}

ASSUME NetAssumption ==
  /\ Configured \in BOOLEAN /\ NetSize \in Nat /\ ServerIP \in Nat \cup {None}
  /\ ~Configured => NetSize = 0
ASSUME SpellingAssumption == \A a \in 0 .. NetSize - 1 : AddressOf(a) = a
ASSUME MarkAssumption ==
  /\ None \notin Ids \cup Nat \cup Row \cup AccountInput
  /\ Keep \notin Ids \cup Nat \cup Roles \cup BOOLEAN \cup Names
                   \cup Mails \cup Pwds \cup {None}
ASSUME InputAssumption ==
  \A i \in Inputs : \/ i \in CreateInput \/ i \in UpdateInput
                    \/ i \in ProfileInput \/ i \in PasswordInput
                    \/ i \in ResetInput \/ i \in DeleteInput
\* The table the server starts with satisfies the unique indexes, and has
\* given no VPN address twice.
ASSUME TableAssumption ==
  /\ Users0 \in [Ids -> Row \cup {None}]
  /\ \A a, b \in Ids :
       (a # b /\ Users0[a] # None /\ Users0[b] # None) =>
         /\ Users0[a].name # Users0[b].name /\ Users0[a].mail # Users0[b].mail
         /\ Users0[a].ip # None => Users0[a].ip # Users0[b].ip
ASSUME FailuresAssumption == Failures \in BOOLEAN

VARIABLES
    users,      \* the table: id -> row, None where no row has the id
    pc,         \* the next step of each slot
    req,        \* the request as its handler holds it, None when idle
    found,      \* the row that Create matched, by id
    boss,       \* the manager row preloaded with the user, by id
    code,       \* the HTTP status answered, 0 before the answer
    wrote,      \* observer: a statement of this request changed the table
    logged      \* an audit row was stored for this request

vars == <<users, pc, req, found, boss, code, wrote, logged>>

-----------------------------------------------------------------------------
\* The table as the statements see it.

Stored == {id \in Ids : users[id] # None}
Live(id) == id \in Stored /\ ~users[id].deleted

\* The WHERE of a GORM statement on one model: its id AND deleted_at IS NULL.
WhereIdOnly(id) == id \in Stored
WhereLive(id) == Live(id)

\* The unique indexes on username and email, which cover deleted rows too.
UniqueAmongLive(id, name, mail) ==
  \A o \in Stored \ {id} :
    Live(o) => users[o].name # name /\ users[o].mail # mail
Unique(id, name, mail) ==
  \A o \in Stored \ {id} : users[o].name # name /\ users[o].mail # mail

NameTaken(id, i) == users[id].name = i.name
NameOrMailTaken(id, i) == users[id].name = i.name \/ users[id].mail = i.mail

Or(sent, old) == IF sent = Keep THEN old ELSE sent
Target(i) == IF i.op \in {"profile", "password"} THEN i.by ELSE i.id

\* The row Create stores.
NewRowAsSent(i, active) ==
  [name |-> i.name, mail |-> i.mail, pwd |-> i.pwd, role |-> i.rank,
   manager |-> i.manager, active |-> i.active, ip |-> i.ip, deleted |-> FALSE]
NewRow(i, active) ==
  [name |-> i.name, mail |-> i.mail, pwd |-> i.pwd, role |-> i.rank,
   manager |-> i.manager, active |-> active, ip |-> i.ip, deleted |-> FALSE]

\* What Updates(map) makes of a row: the fields sent replace the old ones;
\* neither the username nor the password of an update is among them.  GORM
\* first saves the preloaded Manager, when there is one, and puts its id in
\* the map under manager_id, whatever the map said.
SavedManager(i, b, old) == IF b # None THEN b ELSE Or(i.manager, old)
Updated(i, b, row) ==
  [row EXCEPT !.mail = Or(i.mail, @),
              !.role = Or(i.rank, @),
              !.manager = SavedManager(i, b, @),
              !.active = Or(i.active, @),
              !.ip = Or(i.ip, @),
              !.pwd = IF i.op \in {"password", "reset"} THEN i.pwd ELSE @]

-----------------------------------------------------------------------------
\* The VPN address allocator over the table.  It compares texts: only whether an
\* address is in the network is asked of the address itself.

UsedIPs == {users[id].ip : id \in {u \in Ids : Live(u)}} \ {None}
FreeIPs == (1 .. NetSize - 2) \ (UsedIPs \cup {ServerIP})
NextAvailableIP(ip) == ip \in FreeIPs /\ \A j \in FreeIPs : ip <= j

ValidIPInNetwork(ip, self) == ip \in Addrs /\ ip # ServerIP
ValidIP(ip, self) ==
  /\ ip \in Addrs
  /\ ip # ServerIP
  /\ \A id \in Ids \ {self} : Live(id) => users[id].ip # ip

-----------------------------------------------------------------------------
\* Control.

Goto(r, step) == pc' = [pc EXCEPT ![r] = step] /\ UNCHANGED code
Reply(r, c) ==
  /\ pc' = [pc EXCEPT ![r] = "reply"]
  /\ code' = [code EXCEPT ![r] = c]

\* The route's RequireRole, and Create's check of what a manager asks for.
Refused(i) ==
  \/ i.op \in {"reset", "delete"} /\ i.role # "ADMIN"
  \/ i.op = "create" /\ (i.role = "USER" \/ (i.role = "MANAGER" /\ i.rank = "ADMIN"))

\* Update's checks on the row it has read.
ForbiddenAnyRank(i, row) ==
  \/ i.role = "USER"
  \/ i.role = "MANAGER" /\ (row.manager # i.by \/ i.manager \notin {Keep, i.by})
ForbiddenAnyUser(i, row) ==
  \/ i.role = "USER"
  \/ i.role = "MANAGER" /\ (i.rank = "ADMIN" \/ i.manager \notin {Keep, i.by})
Forbidden(i, row) ==
  \/ i.role = "USER"
  \/ /\ i.role = "MANAGER"
     /\ \/ row.manager # i.by
        \/ i.rank = "ADMIN"
        \/ i.manager \notin {Keep, i.by}

\* A manager's new user is the manager's own.
AsHandled(i) == IF i.op = "create" /\ i.role = "MANAGER"
                THEN [i EXCEPT !.manager = i.by] ELSE i

FirstStep(i) == CASE i.op = "create" -> "addr"
                  [] i.op \in {"update", "delete"} -> "load"
                  [] OTHER -> "fetch"

Arrive(r) ==
  /\ pc[r] = "idle"
  /\ \E i \in Inputs :
       /\ req' = [req EXCEPT ![r] = AsHandled(i)]
       /\ \/ Refused(i) /\ Reply(r, 403)
          \/ ~Refused(i) /\ Goto(r, FirstStep(i))
  /\ UNCHANGED <<users, found, boss, wrote, logged>>

-----------------------------------------------------------------------------
\* POST /users.

\* No address sent: GetNextAvailableIP.  A network that is not configured leaves
\* the address empty, one that is full or cannot be parsed is an error.
AssignIP(r) ==
  /\ pc[r] = "addr" /\ req[r].ip = None
  /\ \/ ~Configured /\ Goto(r, "exists") /\ UNCHANGED req
     \/ Configured /\ FreeIPs = {} /\ Reply(r, 500) /\ UNCHANGED req
     \/ \E ip \in FreeIPs : /\ NextAvailableIP(ip)
                            /\ req' = [req EXCEPT ![r].ip = ip]
                            /\ Goto(r, "exists")
  /\ UNCHANGED <<users, found, boss, wrote, logged>>

\* An address sent, by Create or by Update: ValidateIP.
CheckIP(r) ==
  /\ pc[r] = "addr" /\ req[r].ip # None
  /\ \/ ValidIP(req[r].ip, req[r].id)
        /\ Goto(r, IF req[r].op = "create" THEN "exists" ELSE "fetch")
     \/ ~ValidIP(req[r].ip, req[r].id) /\ Reply(r, 400)
  /\ UNCHANGED <<users, req, found, boss, wrote, logged>>

\* The first SELECT of UserService.Create: live rows only; bcrypt follows.
CheckExisting(r) ==
  /\ pc[r] = "exists"
  /\ \/ /\ \E id \in Ids : Live(id) /\ NameOrMailTaken(id, req[r])
        /\ Reply(r, 409)
     \/ /\ \A id \in Ids : Live(id) => ~NameOrMailTaken(id, req[r])
        /\ Goto(r, "match")
  /\ UNCHANGED <<users, req, found, boss, wrote, logged>>

\* The second SELECT, Unscoped: whatever has the name or the mail by now.
MatchDeleted(r) ==
  LET matches == {id \in Stored : users[id].name = req[r].name
                                   \/ users[id].mail = req[r].mail}
  IN /\ pc[r] = "match"
     /\ \/ matches = {} /\ Goto(r, "insert") /\ UNCHANGED found
        \/ \E id \in matches : /\ matches = {id}
                               /\ found' = [found EXCEPT ![r] = id]
                               /\ Goto(r, "restore")
        \/ (\E a, b \in matches : a # b) /\ Reply(r, 409) /\ UNCHANGED found
     /\ UNCHANGED <<users, req, boss, wrote, logged>>

\* The Unscoped UPDATE of the one match, then its reload.
Restore(r) ==
  /\ pc[r] = "restore"
  /\ \/ /\ Unique(found[r], req[r].name, req[r].mail)
        /\ users' = [users EXCEPT ![found[r]] = NewRow(req[r], Or(req[r].active, TRUE))]
        /\ wrote' = [wrote EXCEPT ![r] = TRUE]
        /\ Goto(r, "reload")
     \/ /\ ~Unique(found[r], req[r].name, req[r].mail)
        /\ Reply(r, 500)
        /\ UNCHANGED <<users, wrote>>
  /\ UNCHANGED <<req, found, boss, logged>>

Reload(r) ==
  /\ pc[r] = "reload"
  /\ \/ Live(found[r]) /\ Goto(r, "audit")
     \/ ~Live(found[r]) /\ Reply(r, 500)
  /\ UNCHANGED <<users, req, found, boss, wrote, logged>>

\* The INSERT.  GORM replaces a FALSE is_active, being the zero value, by the
\* column's default TRUE.
Insert(r) ==
  /\ pc[r] = "insert"
  /\ \/ /\ Unique(None, req[r].name, req[r].mail)
        /\ \E id \in Ids \ Stored : users' = [users EXCEPT ![id] = NewRow(req[r], TRUE)]
        /\ wrote' = [wrote EXCEPT ![r] = TRUE]
        /\ Goto(r, "audit")
     \/ /\ ~Unique(None, req[r].name, req[r].mail)
        /\ Reply(r, 500)
        /\ UNCHANGED <<users, wrote>>
  /\ UNCHANGED <<req, found, boss, logged>>

-----------------------------------------------------------------------------
\* PUT /users/:id, /users/profile, /users/password, /users/:id/password.

\* The handler's own read of the row, and what it decides from it.
Load(r) ==
  /\ pc[r] = "load"
  /\ LET i == req[r] IN
       \/ ~Live(i.id) /\ Reply(r, 404)
       \/ Live(i.id) /\ i.op = "delete" /\ Goto(r, "erase")
       \/ Live(i.id) /\ i.op = "update" /\ Forbidden(i, users[i.id]) /\ Reply(r, 403)
       \/ /\ Live(i.id) /\ i.op = "update" /\ ~Forbidden(i, users[i.id])
          /\ Goto(r, IF i.ip \in {None, Keep} THEN "fetch" ELSE "addr")
  /\ UNCHANGED <<users, req, found, boss, wrote, logged>>

\* The service's GetByID, with the manager preloaded when it is live, and the
\* comparison of the current password.
NeverWrong(i, row) == FALSE
WrongPassword(i, row) == i.op = "password" /\ i.cur # row.pwd
Preloaded(row) == IF row.manager # None /\ Live(row.manager) THEN row.manager ELSE None

Fetch(r) ==
  /\ pc[r] = "fetch"
  /\ LET i == req[r]
         t == Target(i)
     IN \/ /\ ~Live(t)
           /\ Reply(r, IF i.op = "reset" THEN 404 ELSE 500)
           /\ UNCHANGED boss
        \/ /\ Live(t) /\ WrongPassword(i, users[t])
           /\ Reply(r, 400)
           /\ UNCHANGED boss
        \/ /\ Live(t) /\ ~WrongPassword(i, users[t])
           /\ boss' = [boss EXCEPT ![r] = Preloaded(users[t])]
           /\ Goto(r, "write")
  /\ UNCHANGED <<users, req, found, wrote, logged>>

\* The UPDATE.  A row deleted since the read matches no row, which GORM does
\* not report: the request goes on as if it had been written.
AfterWrite(i) == IF i.op \in {"update", "profile"} THEN "refetch" ELSE "audit"

\* A conflict with an index is tried again.
WriteRetries(r) ==
  /\ pc[r] = "write"
  /\ LET i == req[r]
         t == Target(i)
         conflict == ~Unique(t, users[t].name, Or(i.mail, users[t].mail))
     IN \/ /\ ~WhereLive(t)
           /\ Goto(r, AfterWrite(i))
           /\ UNCHANGED <<users, wrote>>
        \/ /\ WhereLive(t) /\ conflict
           /\ Goto(r, "fetch")
           /\ UNCHANGED <<users, wrote>>
        \/ /\ WhereLive(t) /\ ~conflict
           /\ users' = [users EXCEPT ![t] = Updated(i, boss[r], @)]
           /\ wrote' = [wrote EXCEPT ![r] = TRUE]
           /\ Goto(r, AfterWrite(i))
  /\ UNCHANGED <<req, found, boss, logged>>
Write(r) ==
  /\ pc[r] = "write"
  /\ LET i == req[r]
         t == Target(i)
     IN \/ /\ ~WhereLive(t)
           /\ Goto(r, AfterWrite(i))
           /\ UNCHANGED <<users, wrote>>
        \/ /\ WhereLive(t)
           /\ ~Unique(t, users[t].name, Or(i.mail, users[t].mail))
           /\ Reply(r, 500)
           /\ UNCHANGED <<users, wrote>>
        \/ /\ WhereLive(t)
           /\ Unique(t, users[t].name, Or(i.mail, users[t].mail))
           /\ users' = [users EXCEPT ![t] = Updated(i, boss[r], @)]
           /\ wrote' = [wrote EXCEPT ![r] = TRUE]
           /\ Goto(r, AfterWrite(i))
  /\ UNCHANGED <<req, found, boss, logged>>

Refetch(r) ==
  /\ pc[r] = "refetch"
  /\ \/ Live(Target(req[r])) /\ Goto(r, "audit")
     \/ ~Live(Target(req[r])) /\ Reply(r, 500)
  /\ UNCHANGED <<users, req, found, boss, wrote, logged>>

\* DELETE /users/:id: the soft delete, which may find the row gone already.
Erase(r) ==
  /\ pc[r] = "erase"
  /\ LET t == req[r].id IN
       \/ ~WhereLive(t) /\ UNCHANGED <<users, wrote>>
       \/ /\ WhereLive(t)
          /\ users' = [users EXCEPT ![t].deleted = TRUE]
          /\ wrote' = [wrote EXCEPT ![r] = TRUE]
  /\ Goto(r, "audit")
  /\ UNCHANGED <<req, found, boss, logged>>

-----------------------------------------------------------------------------
\* The audit row, and the answer.
Done(i) == IF i.op = "create" THEN 201 ELSE 200

Audit(r) ==
  /\ pc[r] = "audit"
  /\ logged' = [logged EXCEPT ![r] = TRUE]
  /\ Reply(r, Done(req[r]))
  /\ UNCHANGED <<users, req, found, boss, wrote>>

\* A statement fails and changes nothing.  Every handler drops the error of the
\* audit row.
FailCodeConflict(i, step) ==
  CASE step = "load" -> 404
    [] step = "addr" /\ i.ip # None -> 400
    [] step = "refetch" -> 409
    [] step = "audit" -> Done(i)
    [] OTHER -> 500
FailCodeDropped(i, step) ==
  CASE step = "load" -> 404
    [] step = "addr" /\ i.ip # None -> 400
    [] step \in {"write", "audit"} -> Done(i)
    [] OTHER -> 500
FailCode(i, step) ==
  CASE step = "load" -> 404
    [] step = "addr" /\ i.ip # None -> 400
    [] step = "audit" -> Done(i)
    [] OTHER -> 500

DbError(r) ==
  /\ Failures
  /\ pc[r] \notin {"idle", "reply"}
  /\ Reply(r, FailCode(req[r], pc[r]))
  /\ UNCHANGED <<users, req, found, boss, wrote, logged>>

\* The response is sent; the slot takes another request.
Finish(r) ==
  /\ pc[r] = "reply"
  /\ pc' = [pc EXCEPT ![r] = "idle"]
  /\ req' = [req EXCEPT ![r] = None]
  /\ found' = [found EXCEPT ![r] = None]
  /\ boss' = [boss EXCEPT ![r] = None]
  /\ code' = [code EXCEPT ![r] = 0]
  /\ wrote' = [wrote EXCEPT ![r] = FALSE]
  /\ logged' = [logged EXCEPT ![r] = FALSE]
  /\ UNCHANGED users

Init ==
  /\ users = Users0
  /\ pc = [r \in Slots |-> "idle"]
  /\ req = [r \in Slots |-> None]
  /\ found = [r \in Slots |-> None]
  /\ boss = [r \in Slots |-> None]
  /\ code = [r \in Slots |-> 0]
  /\ wrote = [r \in Slots |-> FALSE]
  /\ logged = [r \in Slots |-> FALSE]

\* The steps of a request that has arrived; the server runs them on its own.
Work(r) ==
  \/ AssignIP(r) \/ CheckIP(r) \/ CheckExisting(r) \/ MatchDeleted(r)
  \/ Restore(r) \/ Reload(r) \/ Insert(r)
  \/ Load(r) \/ Fetch(r) \/ Write(r) \/ Refetch(r) \/ Erase(r)
  \/ Audit(r) \/ Finish(r)
Serve(r) == Work(r) \/ DbError(r)

Next == \E r \in Slots : Arrive(r) \/ Serve(r)

Spec == Init /\ [][Next]_vars

\* The Go scheduler runs every goroutine and the database answers or fails
\* every statement; nobody has to send a request.
FairSpec == Spec /\ \A r \in Slots : WF_vars(Serve(r))

-----------------------------------------------------------------------------
\* Properties.

Typed ==
  /\ users \in [Ids -> Row \cup {None}]
  /\ pc \in [Slots -> Steps]
  /\ req \in [Slots -> AccountInput \cup {None}]
  /\ found \in [Slots -> Ids \cup {None}]
  /\ boss \in [Slots -> Ids \cup {None}]
  /\ code \in [Slots -> Codes]
  /\ wrote \in [Slots -> BOOLEAN]
  /\ logged \in [Slots -> BOOLEAN]

\* The requests that come to each step, and what has been checked of them: an
\* address is stored only after it was found in the network.
CreateSteps == {"exists", "match", "restore", "reload", "insert"}
ChangeInput == UpdateInput \cup ProfileInput \cup PasswordInput \cup ResetInput

PlacedAt(r) ==
  /\ pc[r] = "idle" <=> req[r] = None
  /\ pc[r] = "addr" =>
       \/ req[r] \in CreateInput
       \/ req[r] \in UpdateInput /\ req[r].ip \in Nat
  /\ pc[r] \in CreateSteps =>
       req[r] \in CreateInput /\ req[r].ip \in Addrs \cup {None}
  /\ pc[r] = "restore" => found[r] \in Stored
  /\ pc[r] = "load" => req[r] \in UpdateInput \cup DeleteInput
  /\ pc[r] = "erase" => req[r] \in DeleteInput
  /\ pc[r] \in {"fetch", "write", "refetch"} =>
       req[r] \in ChangeInput /\ req[r].ip \in Addrs \cup {None, Keep}
Placed == \A r \in Slots : PlacedAt(r)

\* Every variable has its type, and a request is only where its kind goes.
TypeOK == Typed /\ Placed

\* No two rows, deleted ones included, ever share a username or an email: the
\* restore in UserService.Create and the email change of Update keep to the
\* indexes however requests interleave.
NamesAndMailsUnique ==
  \A a, b \in Stored : a # b => /\ users[a].name # users[b].name
                                /\ users[a].mail # users[b].mail

\* Two live users never hold the same VPN address in the same spelling, which is
\* what ValidateIP and GetNextAvailableIP see to.
UniqueVpnIp ==
  \A a, b \in Ids :
    (a # b /\ Live(a) /\ Live(b) /\ users[a].ip # None) => users[a].ip # users[b].ip

\* A deleted account stays exactly as it was deleted until a create brings it
\* back: an update, a password change or a delete that was under way when the
\* row was deleted has no effect on it.
OnlyRestoreRevives ==
  [][\A id \in Ids :
       (id \in Stored /\ ~Live(id) /\ users'[id] # users[id]) =>
         \E r \in Slots : pc[r] = "restore" /\ found[r] = id /\ pc'[r] = "reload"]_vars

\* An account becomes a live administrator only by a step of a request whose
\* token has the role ADMIN, whatever happened to the account while the
\* request was in flight (Create's and Update's checks on the manager).
IsAdmin(table, id) ==
  table[id] # None /\ table[id].role = "ADMIN" /\ ~table[id].deleted
AdminOnlyByAdmin ==
  [][\A id \in Ids :
       (~IsAdmin(users, id) /\ IsAdmin(users', id)) =>
         \E r \in Slots : pc'[r] # pc[r] /\ req[r] # None /\ req[r].role = "ADMIN"]_vars

\* Create never rewrites an account that is in use: "Active users must keep
\* unique usernames and email addresses" (user_service.go).
LiveNotOverwritten ==
  [][\A r \in Slots :
       (pc[r] = "restore" /\ pc'[r] = "reload") => ~Live(found[r])]_vars

\* A request answered with a refusal (4xx) has changed no row, also when
\* statements fail.
RefusalWritesNothing ==
  \A r \in Slots : code[r] \in 400 .. 499 => ~wrote[r]

\* Served one at a time, the requests change the table as the registry of
\* accounts allows, each by one of its operations.
Registry == INSTANCE AccountRegistry WITH accounts <- users
ImplementsRegistry == Registry!Spec

\* Every request is answered.
EveryRequestAnswered ==
  \A r \in Slots : pc[r] # "idle" ~> pc[r] = "reply"
=============================================================================
