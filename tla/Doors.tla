------------------------------- MODULE Doors -------------------------------
(***************************************************************************)
(* The two doors that an account opens: the login to the web application,  *)
(* which gives a token for the requests after it, and the VPN server's     *)
(* question whether a user may connect.  Accounts change and expire, and   *)
(* the process restarts with another configuration, while requests are     *)
(* under way and tokens are about.                                         *)
(***************************************************************************)
EXTENDS Bootstrap

CONSTANTS
    Passwords, Roles,
    Tokens,         \* tokens at a time, a bound
    Slots,          \* requests in flight
    DayLength,      \* a day in ticks of the clock
    Horizon,        \* the last tick that is told from those after it, a bound
    Days, Periods,  \* what valid_from and valid_to may be, and both together
    MaxChanges      \* how often accounts change, a bound

ASSUME ClockAssumption ==
  DayLength \in Nat \ {0} /\ Horizon \in Nat /\ Days \subseteq Nat
  /\ Periods \subseteq (Days \cup {None}) \X (Days \cup {None})

\* The clock of any place on earth is less than a day from UTC's.
Zones == (1 - DayLength) .. (DayLength - 1)
ASSUME ZoneAssumption == \A e \in Environments : e.zone \in Zones

VARIABLES
    now,
    tokens,         \* tokens that are about and have not expired
    pc, req, row, code,     \* the requests: next step, what is asked, the account read, the answer
    seen,           \* observer: the account's rows since the request arrived,
                    \* None for a read that has failed
    since,          \* observer: when that was
    changes

requests == <<pc, req, row, code>>
vars == <<bootVars, now, tokens, requests, seen, since, changes>>

Steps == {"idle", "read", "check", "explain", "issue", "me", "reply"}
Ops == {"login", "authenticate", "lookup", "me", "admin", "page", "logout"}
Codes == {0, 200, 401, 403, 404}
Moments == 0 .. Horizon

Account == [reserves: SUBSET {"name", "mail"}, pass: Passwords, role: Roles, active: BOOLEAN,
            from: Days \cup {None}, to: Days \cup {None}, deleted: BOOLEAN]
Token == [user: Users, role: Roles, life: Nat \ {0}, secret: Strings]
Request == [op: Ops, user: Users, pass: Passwords \cup {None}, role: Roles \cup {None}]

\* Before the first start, too, the indexes keep names and mails apart.
ASSUME AccountsAssumption ==
  /\ Seed \in Account /\ Seed.reserves = {"name", "mail"} /\ ~Seed.deleted
  /\ \A a \in Accounts :
       /\ a \in [Users -> Account \cup {None}]
       /\ \A j, k \in Users :
            j # k /\ a[j] # None /\ a[k] # None => a[j].reserves \cap a[k].reserves = {}
ASSUME MarkAssumption == None \notin Account \cup Token \cup Request \cup Days

-----------------------------------------------------------------------------
\* A date of PostgreSQL is read as its midnight in UTC, one of MySQL, whose DSN says
\* loc=Local, as the server's own; Ahead is how far the server's clock is ahead of
\* that of the dates.
Ahead == IF config.type = "mysql" THEN 0 ELSE zone
Midnight(d) == d * DayLength - (zone - Ahead)
Today(t) == (t + zone) \div DayLength
LocalMidnight(t) == Today(t) * DayLength - zone

\* User.IsValidForLogin: the server's day, from its midnight, within whole days.
NotYetInclusive(a, t) == a.from # None /\ LocalMidnight(t) <= Midnight(a.from)
NotYet(a, t) == a.from # None /\ LocalMidnight(t) < Midnight(a.from)
Over(a, t) == a.to # None /\ LocalMidnight(t) > Midnight(a.to) + DayLength - 1
IsValidForLogin(a, t) == a.active /\ ~NotYet(a, t) /\ ~Over(a, t)

\* VpnAuthHandler.Authenticate: the instant between two midnights.
VpnAllows(a, t) ==
  /\ a.active
  /\ a.from # None => t >= Midnight(a.from)
  /\ a.to # None => t <= Midnight(a.to)

-----------------------------------------------------------------------------
Goto(r, step) == pc' = [pc EXCEPT ![r] = step] /\ UNCHANGED code
Reply(r, c) == pc' = [pc EXCEPT ![r] = "reply"] /\ code' = [code EXCEPT ![r] = c]
Ask(r, o, k, p, ro) ==
  /\ pc[r] = "idle"
  /\ phase = "up"
  /\ config.api \/ o = "page"
  /\ req' = [req EXCEPT ![r] = [op |-> o, user |-> k, pass |-> p, role |-> ro]]
  /\ UNCHANGED row
Still == UNCHANGED <<bootVars, now, tokens, changes>>

\* The routes that ask for a name and a password; those of the VPN server are
\* there only when it has a token.
Enter(r, o, k, p) ==
  /\ o = "authenticate" => config.vpn_token # ""
  /\ Ask(r, o, k, p, None)
  /\ Goto(r, "read")
  /\ Still

\* The VPN server's scripts ask for an account by its name or its key.
Lookup(r, k) ==
  /\ config.vpn_token # ""
  /\ Ask(r, "lookup", k, None, None)
  /\ Goto(r, "me")
  /\ Still

\* AuthMiddleware takes one token, of the header or else of the cookie, and the
\* claims as they are in it.
Valid(t) == t # None /\ tokens[t] # None /\ tokens[t].secret = config.secret

Unauthorized(r, o, t) ==
  /\ ~Valid(t)
  /\ \E k \in Users : Ask(r, o, k, None, None)
  /\ Reply(r, 401)
  /\ Still

\* What a role opens: the routes of the API behind RequireAdmin, and the pages
\* of the web handler behind its own requireAdmin, which are there without the
\* API, too, and need no account to be rendered.
RequireAdmin(role) == IF role = "ADMIN" THEN 200 ELSE 403
AdminPage(role) == IF role = "ADMIN" THEN 200 ELSE 403

\* The handlers behind the routes are those of the other modules, but for Me.
\* Logout clears the cookie of one browser and is like any other request.
Guarded(r, o, t) ==
  /\ Valid(t)
  /\ Ask(r, o, tokens[t].user, None, tokens[t].role)
  /\ CASE o = "me" -> Goto(r, "me")
       [] o = "logout" -> Reply(r, 200)
       [] o = "admin" -> Reply(r, RequireAdmin(tokens[t].role))
       [] o = "page" -> Reply(r, AdminPage(tokens[t].role))
  /\ Still

-----------------------------------------------------------------------------
\* Authenticate and AuthenticateUser: the account of that name, and bcrypt.
ReadUnscoped(r) ==
  /\ pc[r] = "read"
  /\ IF Row(req[r].user) /\ accounts[req[r].user].pass = req[r].pass
     THEN row' = [row EXCEPT ![r] = accounts[req[r].user]] /\ Goto(r, "check")
     ELSE UNCHANGED row /\ Reply(r, 401)
  /\ UNCHANGED req /\ Still
Read(r) ==
  /\ pc[r] = "read"
  /\ IF Live(req[r].user) /\ accounts[req[r].user].pass = req[r].pass
     THEN row' = [row EXCEPT ![r] = accounts[req[r].user]] /\ Goto(r, "check")
     ELSE UNCHANGED row /\ Reply(r, 401)
  /\ UNCHANGED req /\ Still

\* validateUserAccess, or the checks of the VPN's handler.
Check(r) ==
  /\ pc[r] = "check"
  /\ CASE req[r].op = "authenticate" -> Reply(r, IF VpnAllows(row[r], now) THEN 200 ELSE 401)
       [] req[r].op = "login" /\ ~row[r].active -> Reply(r, 401)
       [] OTHER -> Goto(r, IF IsValidForLogin(row[r], now) THEN "issue" ELSE "explain")
  /\ UNCHANGED <<req, row>> /\ Still

\* The reason of a refusal is looked for with a later clock, and when there is
\* none by then the login goes on.
Explain(r) ==
  /\ pc[r] = "explain"
  /\ IF NotYet(row[r], now) \/ Over(row[r], now) THEN Reply(r, 401) ELSE Goto(r, "issue")
  /\ UNCHANGED <<req, row>> /\ Still

\* generateToken.  A token that is not to live is made as well.
Issue(r) ==
  /\ pc[r] = "issue"
  /\ \E t \in Tokens :
       /\ tokens[t] = None
       /\ tokens' = IF config.token_expiry <= 0 THEN tokens ELSE
            [tokens EXCEPT ![t] =
               [user |-> req[r].user, role |-> row[r].role, life |-> config.token_expiry,
                secret |-> config.secret]]
  /\ Reply(r, 200)
  /\ UNCHANGED <<req, row, bootVars, now, changes>>

\* AuthHandler.Me reads the account of the token, a lookup the one asked for.
Me(r) ==
  /\ pc[r] = "me"
  /\ Reply(r, IF Live(req[r].user) THEN 200 ELSE 404)
  /\ UNCHANGED <<req, row>> /\ Still

\* Any error of a read is taken for an account that is not there.
ReadError(r) ==
  /\ faults < MaxFaults
  /\ pc[r] \in {"read", "me"}
  /\ faults' = faults + 1
  /\ Reply(r, IF pc[r] = "me" THEN 404 ELSE 401)
  /\ UNCHANGED <<process, tables, accounts, missed, now, tokens, req, row, changes>>

Cleared(R) ==
  /\ pc' = [r \in Slots |-> IF r \in R THEN "idle" ELSE pc[r]]
  /\ req' = [r \in Slots |-> IF r \in R THEN None ELSE req[r]]
  /\ row' = [r \in Slots |-> IF r \in R THEN None ELSE row[r]]
  /\ code' = [r \in Slots |-> IF r \in R THEN 0 ELSE code[r]]

Finish(r) == pc[r] = "reply" /\ Cleared({r}) /\ Still

Serve(r) == Read(r) \/ Check(r) \/ Explain(r) \/ Issue(r) \/ Me(r) \/ Finish(r)

-----------------------------------------------------------------------------
\* What UserAccounts does to an account: update, delete, and the create that
\* brings a deleted one back under its old key.
Changed(k, a) ==
  /\ phase = "up" /\ changes < MaxChanges
  /\ changes' = changes + 1
  /\ accounts' = [accounts EXCEPT ![k] = a]
  /\ UNCHANGED <<process, tables, faults, missed, now, tokens, requests>>

\* The administrator's name and mail stay with one row; a restored row keeps
\* the one that it was found by.
Written(k, names) ==
  /\ \A j \in Users \ {k} : Row(j) => accounts[j].reserves \cap names = {}
  /\ \E p \in Passwords, ro \in Roles, b \in BOOLEAN, w \in Periods :
       Changed(k, [reserves |-> names, pass |-> p, role |-> ro, active |-> b,
                   from |-> w[1], to |-> w[2], deleted |-> FALSE])

Update(k) ==
  /\ Live(k)
  /\ \E mail \in SUBSET {"mail"} : Written(k, (accounts[k].reserves \cap {"name"}) \cup mail)
Delete(k) == Live(k) /\ Changed(k, [accounts[k] EXCEPT !.deleted = TRUE])
RestoreAccount(k) ==
  /\ Row(k) /\ ~Live(k)
  /\ \E names \in SUBSET {"name", "mail"} :
       /\ accounts[k].reserves = {"name", "mail"} => names # {}
       /\ Written(k, names)

\* Time passes, and tokens expire.
TickForever ==
  /\ now' = IF now < Horizon THEN now + 1 ELSE now
  /\ UNCHANGED <<bootVars, tokens, requests, changes>>
TickLate ==
  /\ now' = IF now < Horizon THEN now + 1 ELSE now
  /\ tokens' = [t \in Tokens |->
       IF tokens[t] = None THEN None
       ELSE IF tokens[t].life = 0 THEN None ELSE [tokens[t] EXCEPT !.life = @ - 1]]
  /\ UNCHANGED <<bootVars, requests, changes>>
Tick ==
  /\ now' = IF now < Horizon THEN now + 1 ELSE now
  /\ tokens' = [t \in Tokens |->
       IF tokens[t] = None THEN None
       ELSE IF tokens[t].life = 1 THEN None ELSE [tokens[t] EXCEPT !.life = @ - 1]]
  /\ UNCHANGED <<bootVars, requests, changes>>

\* The process ends with its requests; tokens are nowhere in it.
Crash ==
  /\ phase # "failed" /\ faults < MaxFaults
  /\ phase' = "failed"
  /\ faults' = faults + 1
  /\ Cleared(Slots)
  /\ UNCHANGED <<config, zone, limit, kept, tables, accounts, missed, now, tokens, changes>>

Observe ==
  /\ seen' = [r \in Slots |->
       IF pc'[r] = "idle" \/ req'[r].op \notin {"login", "authenticate"} THEN {}
       ELSE (IF pc[r] = "idle" THEN {} ELSE seen[r]) \cup {accounts'[req'[r].user]}
            \cup (IF faults' > faults THEN {None} ELSE {})]
  /\ since' = [r \in Slots |-> IF pc'[r] = "idle" THEN 0
                               ELSE IF pc[r] = "idle" THEN now' ELSE since[r]]

-----------------------------------------------------------------------------
Init ==
  /\ BootInit
  /\ now = 0
  /\ tokens = [t \in Tokens |-> None]
  /\ pc = [r \in Slots |-> "idle"]
  /\ req = [r \in Slots |-> None]
  /\ row = [r \in Slots |-> None]
  /\ code = [r \in Slots |-> 0]
  /\ seen = [r \in Slots |-> {}]
  /\ since = [r \in Slots |-> 0]
  /\ changes = 0

Booting == BootNext /\ UNCHANGED <<now, tokens, requests, changes>>

Arrive(r) ==
  \/ \E o \in {"login", "authenticate"}, k \in Users, p \in Passwords \cup {None} : Enter(r, o, k, p)
  \/ \E k \in Users : Lookup(r, k)
  \/ \E o \in {"me", "admin", "page", "logout"}, h \in Tokens \cup {None} :
       Unauthorized(r, o, h) \/ Guarded(r, o, h)

Step ==
  \/ Booting
  \/ \E r \in Slots : Arrive(r) \/ Serve(r) \/ ReadError(r)
  \/ \E k \in Users : Update(k) \/ Delete(k) \/ RestoreAccount(k)
  \/ Tick \/ Crash

Next == Step /\ Observe

Spec == Init /\ [][Next]_vars

Starting == (Start \/ Restart) /\ UNCHANGED <<now, tokens, requests, changes>> /\ Observe

\* Time passes, the process starts and is started again, and a request goes on.
FairSpec ==
  /\ Spec
  /\ WF_vars(Tick /\ Observe) /\ WF_vars(Starting)
  /\ \A r \in Slots : WF_vars(Serve(r) /\ Observe)

-----------------------------------------------------------------------------
\* Every variable has its type; no token that is about has expired.
TypeOK ==
  /\ DOMAIN config = Settings /\ \A s \in Settings : config[s] \in ValuesOf(s)
  /\ zone \in Zones
  /\ phase \in Phases /\ tables \subseteq Tables /\ faults \in Nat /\ missed \in BOOLEAN
  /\ accounts \in [Users -> Account \cup {None}]
  /\ now \in Moments /\ changes \in Nat
  /\ tokens \in [Tokens -> Token \cup {None}]
  /\ pc \in [Slots -> Steps]
  /\ req \in [Slots -> Request \cup {None}]
  /\ row \in [Slots -> Account \cup {None}]
  /\ code \in [Slots -> Codes]
  /\ seen \in [Slots -> SUBSET (Account \cup {None})]
  /\ since \in [Slots -> Moments]

\* The account may be used with this password on the server's day.
Usable(a, p) == a # None /\ ~a.deleted /\ a.pass = p /\ a.active
Begun(a, t) == a.from # None => Today(t) >= a.from
Ended(a, t) == a.to # None /\ Today(t) > a.to
Entitled(a, p, t) == Usable(a, p) /\ Begun(a, t) /\ ~Ended(a, t)

\* With PostgreSQL and a server east of Greenwich the code refuses the day of
\* valid_from and admits the day after valid_to, against the API's description.
FirstDay(a, t) == Ahead > 0 /\ a.from # None /\ Today(t) = a.from
DayAfter(a, t) == Ahead > 0 /\ a.to # None /\ Today(t) = a.to + 1
Admissible(a, p, t) == Usable(a, p) /\ Begun(a, t) /\ (Ended(a, t) => DayAfter(a, t))
Refusable(a, p, t) == ~Entitled(a, p, t) \/ FirstDay(a, t)

WasValid(r) == \E a \in seen[r], t \in since[r] .. now : Admissible(a, req[r].pass, t)
WasNot(r) == \E a \in seen[r], t \in since[r] .. now : Refusable(a, req[r].pass, t)

\* A login succeeds only for an account that was valid at some time since it was
\* asked for, and fails only if it was not at some time or a read failed:
\* whatever changes, expires or begins meanwhile.  The two days that
\* LoginFollowsCalendar is about are left open.
LoginTellsValidity ==
  \A r \in Slots :
    pc[r] = "reply" /\ req[r].op = "login" =>
      /\ code[r] = 200 => WasValid(r)
      /\ code[r] = 401 => WasNot(r)

\* What help/api.md says of a login: refused if the current date is before
\* valid_from, or after valid_to.
LoginFollowsCalendar ==
  \A r \in Slots :
    pc[r] = "reply" /\ req[r].op = "login" /\ code[r] = 200 =>
      \E a \in seen[r], t \in since[r] .. now : Entitled(a, req[r].pass, t)

\* Login and VPN allow an active account on the same days, but for those where
\* the calendar begins and ends: with MySQL, or the server in UTC, only valid_to
\* itself, which login allows and the VPN does not; with PostgreSQL elsewhere the
\* day next to it too, and one at valid_from.
DoorsAgree ==
  phase = "up" =>
    \A k \in Users :
      Live(k) /\ IsValidForLogin(accounts[k], now) # VpnAllows(accounts[k], now) =>
        LET from == accounts[k].from
            to == accounts[k].to IN
          \/ to # None /\ Today(now) = to
          \/ to # None /\ Ahead > 0 /\ Today(now) = to + 1
          \/ to # None /\ Ahead < 0 /\ Today(now) = to - 1
          \/ from # None /\ Ahead > 0 /\ Today(now) = from
          \/ from # None /\ Ahead < 0 /\ Today(now) = from - 1

\* What a role of an account opens is open only for so long after the account has
\* lost it, by update, deletion or a restore under another role.
Holds(k, ro) == Live(k) /\ accounts[k].active /\ accounts[k].role = ro
ServedAs(k, ro) ==
  \E r \in Slots : pc[r] = "reply" /\ code[r] = 200 /\ req[r].user = k /\ req[r].role = ro
RightsEnd == \A k \in Users, ro \in Roles : <>[]~Holds(k, ro) => <>[]~ServedAs(k, ro)
=============================================================================
