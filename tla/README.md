# A TLA+ model of openvpn-mng

openvpn-mng is a web application (Go, gin, GORM over PostgreSQL or MySQL) that
administers the users of an OpenVPN server: accounts with roles and VPN
addresses, groups of users and the networks they may reach, sessions that the
OpenVPN server reports, and an audit log. This directory models the parts of it
that keep state, checks them with TLC and proves the main results with TLAPS.

Contents: [1 the system](#1-the-system), [2 modules](#2-the-modules),
[3 runs](#3-what-is-checked), [4 proofs](#4-what-is-proved),
[5 what is only checked, or not modelled](#5-what-is-only-checked-or-not-modelled),
[6 what is left](#6-what-is-left).

## 1 The system

All state is in the database; the process holds configuration only. gin serves
each request in a goroutine of its own, and nothing in the code locks or opens a
transaction of its own, so a request is a sequence of SQL statements that commit
one by one and interleave with those of all other requests. What the database
itself guarantees is little: primary keys, unique indexes on `users.username`,
`users.email`, `groups.name` and `networks.name` (which cover soft-deleted rows
too), and the keys of the two association tables. `users.vpn_ip` has no unique
index.

| component | state | operations | interacts with | hard |
|---|---|---|---|---|
| User accounts (`user_handler.go`, `user_service.go`) | table `users` | create (or restore of a deleted account), update, profile, password, reset, delete | asks the address allocator, writes the audit log, is read by login and the VPN API | read, decide, write in separate statements; soft delete; restore |
| Address allocation (`vpn_ip_service.go`) | none of its own: column `users.vpn_ip` | next free address, validation, network information | called by account create and update | address chosen by one statement and stored by another |
| Login, tokens, roles (`auth_service.go`, `middleware/auth.go`) | none: signed tokens | login, logout, role check of a route | reads accounts, writes the audit log | the token is trusted until it expires; accounts change while a login is under way |
| Account validity (`models/user.go`, `vpn_auth_handler.go`) | `is_active`, `valid_from`, `valid_to` | the check of login, its repetition for the reason, that of the VPN | login and VPN | whole days against instants, time zones |
| Groups, networks, routes (`group_*.go`, `network_*.go`) | `groups`, `networks`, `user_groups`, `network_groups` | create, update, delete, add and remove an association, routes of a user | the VPN API turns them into routes | associations with rows that are gone |
| VPN sessions and statistics (`vpn_session_*.go`) | `vpn_sessions`, `vpn_traffic_stats` | connect, disconnect, samples, counts | reported by the client's scripts, and by anybody with a token | lost, late and repeated reports, restarts on both sides |
| Audit log (`middleware/audit.go`) | table `audit_logs` | save: insert, then prune to `audit.max_entries` | called by every handler that changes something | pruning is three statements, run by many requests at once |
| Lists and pages (`List` of each service, `web_handler.go`, audit queries) | none: reads | count, then a page | follow from one page to the next | rows come and go between count, page and next page; no order |
| Configuration, start-up (`config.go`, `database.go`, `main.go`) | configuration; tables; the default administrator | load, migrate, seed, serve | everything else reads it | restarts with another configuration, a database that is away, a deleted administrator |
| VPN server API (`vpn_auth_handler.go`) | none of its own | authenticate, lookups, routes, sessions | called by the OpenVPN server's scripts, with a shared token | see the parts it calls |
| Dashboard | none: reads | counts, sums by day | | counts by separate statements |

What makes each correct:

* accounts: names, mails and addresses are nobody else's; a deleted account is
  only changed by the create that restores it; nobody but an administrator makes
  an administrator; a manager changes only who has been their user since the request
  came; a password is changed by who knew it; the answer says what happened;
* audit log: the newest entries are never lost, and the rest goes;
* groups and networks: a user is routed to networks that exist and that a group
  of theirs grants, and to all of those;
* sessions: at most one for each tunnel; what has ended stays ended, with counters that
  somebody reported of it, the last report counting; readers see a ledger in which
  nothing begins twice;
* tokens and validity: a login tells what was true of the account, both doors agree
  but for the days at the edges, and what a role opens closes some time after it is lost;
* lists: who follows the pages of a list sorted by time misses no row that stays;
* start-up: who is served is served over all tables with a positive retention
  limit, no start touches an account, and the service comes up.

`PROJECT.json` lists under `hazards` each place where one of these can go wrong,
with the line and the properties that watch it.

## 2 The modules

| module | what it is |
|---|---|
| `UserAccounts` | the users table and every request that changes it, one action per statement |
| `AccountRegistry` | what the accounts promise: a table changed by one whole operation at a time |
| `UserAccountsHistory` | `UserAccounts` with a memory of what was true of an account while a request was under way |
| `MCUserAccounts`, `MCUserAccountsHistory` | the instances of both for TLC |
| `UserAccountsProofs` | theorems about `UserAccounts` that hold however requests interleave |
| `UserAccountsHistoryProofs` | theorems about answers, managers and passwords, which also hold however requests interleave |
| `UserAccountsRaces` | theorems about the two races that break a promise: which steps of other requests do, and that nothing else does |
| `AuditLog` | `AuditLogger.save` as many requests run it, with failures and restarts |
| `MCAuditLog` | its instance for TLC |
| `AuditLogProofs` | theorems about `AuditLog` |
| `AccessGraph` | groups, networks, memberships and grants, every request that changes them, and the reads from which a client's routes are made |
| `MCAccessGraph` | its instances for TLC |
| `AccessGraphProofs` | theorems about `AccessGraph` |
| `VpnSessions` | sessions as the OpenVPN server's scripts report them, over a network that loses and delays calls |
| `SessionLedger` | what the table of sessions promises its readers |
| `MCVpnSessions` | the instance of `VpnSessions` for TLC |
| `VpnSessionsProofs` | theorems about `VpnSessions` |
| `Bootstrap` | configuration, migration, default administrator; extended by `Doors` |
| `Doors` | login, tokens and the VPN's question, composed with `Bootstrap` and accounts that change |
| `MCDoors` | the instance of `Doors` (and so of `Bootstrap`) for TLC |
| `DoorsProofs` | theorems about `Doors` and `Bootstrap` |
| `Listings` | the lists, and a client that walks over the pages of one |
| `MCListings` | its instances for TLC |
| `ListingsProofs` | theorems about `Listings` |

### UserAccounts

`users` maps each id to its row or `None`. A row keeps the columns that some
decision reads: name, mail, password, role, manager, active, address, deleted.
Names, telephone numbers and dates are copied through and left out. A password
hash is equal to its password, which is what bcrypt's comparison tells. An address
is a *text*, a number here, and `AddressOf` is `net.ParseIP`: the offset in
`vpn.network` that the text stands for, so that 0 is the network address, `NetSize - 1`
the broadcast address, and everything from `NetSize` on is out of range. Several texts
may stand for one address (`10.8.0.5` and `::ffff:10.8.0.5`). The code parses a text to
see whether it is in the network (`Addrs`), and compares texts to see whether it is the
server's or in use; so does the model, and `UniqueVpnIp` is about texts. `Configured` says
whether `vpn.network` is set: without it an account is created with no address, while a
network that is used up or is no CIDR (`NetSize` = 0) refuses the create.

A *slot* is a goroutine serving one request: `pc` is the statement it will send
next, `req` the request as the handler holds it (with the token's identity and
role), `found` the deleted row a create has matched, `boss` the manager preloaded
with a user, `code` the answer. `wrote` and `logged` only record what the request
has done.

| action | code |
|---|---|
| `Arrive` | route's `RequireRole`, JSON binding, a manager's restrictions in `Create` |
| `AssignIP`, `CheckIP` | `GetNextAvailableIP`, `ValidateIP` |
| `CheckExisting`, `MatchDeleted`, `Restore`, `Reload`, `Insert` | the five statements of `UserService.Create` |
| `Load` | the read and the permission checks of the handlers `Update` and `Delete` |
| `Fetch`, `Write`, `Refetch` | `GetByID`, `Updates`, `GetByID` of the service |
| `Erase` | the soft delete |
| `Audit` | the audit row, and the answer |
| `DbError` | any statement fails; `FailCode` is what the handler makes of it: nothing, for the audit row |
| `Finish` | the response is sent |

Two facts of GORM are modelled from how the code calls it: an update matches
`id = ? AND deleted_at IS NULL` and does not report that nothing matched
(`WhereLive`); `Updates(map)` on a user that was read with `Preload("Manager")`
stores that manager's id under `manager_id`, whatever the map says
(`SavedManager`). An insert with `is_active` false stores the column's default,
true, which the repository's own test notes (`test/services/user_service_test.go`).

`UserAccountsHistory` adds two variables that no step of the code looks at: `seen[r]`, which
of three facts (it was deleted, its manager was the caller, the current password that was
sent was its own) have been true of the request's account since the request arrived, and
`failed[r]`, whether one of its statements failed. A handler cannot promise that a row is
still as it has read it: what it can promise under interleaving is about these, and that is
how `ReplyTellsTruth`, `ManagerScope` and `ReplacesCurrentPassword` are stated.

### AuditLog

`save` inserts a row, asks for the ids beyond the newest `Max`, and deletes those.
The order is `created_at DESC, id DESC`. `created_at` is the server's clock before
the INSERT and ids are random, so a new row may come anywhere in the order; an
entry is therefore a number, its place, and `Insert` stores any that no row has and no
request is about to delete. A place may be taken again when its row has gone, so that
`Entries` bounds the rows that are there at one time and requests store rows for ever.
`NewestOf(S, n, K)` says that K is what OFFSET n passes over. `kind` tells login and
logout, which return at once when save fails, from the handlers that drop the error.
`Crash` is the end of the process: the table is all that is left. `ever` records
the places of all rows that were stored, `disturbed` whether anything has failed yet.

### AccessGraph

`GroupService` and `NetworkService` are nearly the same code over two tables of the
same form, so the rows of both are one function `items`, whose keys are `Groups` and
`Networks`; a group's `cidr` is `None`. `members` is `user_groups`, `grants` is
`network_groups`. Neither has a foreign key: `database.go:34` turns them off. `users`
is the set of users that are there; `Account` is what `UserAccounts` does to it, the
soft delete and the restore. A CIDR is a value, or `Malformed`, which `validateCIDR`
refuses. Slots serve requests as in `UserAccounts`; a request is named by what it
does (`join`, `leave`, `grant`, `revoke`, `create`, `update`, `delete`, `routes`) and by
the collection that its path starts with (`below`), since each association can be
reached from either end with other checks, in another order, with other answers: what
these are for each handler is a record of the handler's name (`GroupAddUser`,
`NetworkAddGroup`, ...). `routes` with a role is `GET /users/:id/groups`, which is made
from the same reads.

| action | code |
|---|---|
| `Arrive` | `RequireRole` of the route, `validateCIDR` of a new network |
| `Subordinate` | the check of a manager's user in `GroupHandler.AddUser`, `RemoveUser` |
| `FindGroup`, `FindUser`, `FindNetwork`, `CheckGrant` | the reads of `AddUserToGroup`, `AddNetworkToGroup`, `AddGroupToNetwork` |
| `InsertMember`, `InsertGrant`, `Remove` | their INSERTs, and the DELETEs of an association |
| `CheckName`, `Store` | `Create` of either service |
| `Load`, `Fetch`, `Write`, `Refetch` | `Update`: the handler's read, then the service's three statements |
| `Load`, `Unlink`, `Erase` | `Delete`: a network's associations go first, a group's stay |
| `FindUser`, `ReadMembers`, `PreloadGroups`, `ReadGrants`, `ReadNetworks` | `GetUserRoutes`: `GetUserGroups` is two statements, `GetGroupNetworks` two more for each group |
| `DbError` | any statement fails; a read that looks for a row that must not be there takes the error for its absence, as the code does |

A group or network that Preload does not find comes out as the empty struct: a group
without an id, which has no networks, and a network with an empty CIDR. Both are
`None` here.

Three variables only observe. `seen[r]` is all that was in effect at some time since
the routes request `r` began (its user's live groups, the grants, the CIDRs of live
networks), `held[r]` the paths from the user to a CIDR that were there all that time,
`raced` the grants that were made while their network was being deleted or was gone.
The audit row at the end of these handlers changes none of this state and is left to
`AuditLog`.

### VpnSessions

`rows` is `vpn_sessions`; `bytes` stands for both counters. On the manager's side slots
serve requests as above. On the other side are the two scripts of the OpenVPN server, whose
code the repository gives in `help/client.md`: `stage` is where a user's tunnel is, `file` the
session file that client-connect writes and client-disconnect reads and removes, `waits` the
request whose answer the script waits for. client-connect first asks for the account and its
routes, and turns the user away when it is given neither; only then it posts a session, and lets the
user in whatever the answer. A call may be lost on the way (`Call`), a script gives up
after its ten seconds and its request is served all the same (`GiveUp`), and neither ever
tries again, which is what keeps `OneRowPerTunnel` true.

| action | code |
|---|---|
| `Arrive` | `CreateSession`, `DisconnectSession`, `VpnSessionHandler.Create`, `Disconnect`, `GetStats` |
| `Insert`, `Reload` | `VpnSessionService.Create`: the INSERT, and `GetByID` for the answer |
| `Find`, `Save` | `Disconnect`: the read, and the UPDATE of all columns from it, of an active session or not |
| `CountTotal`, `CountActive` | `GetUsageStats`, and in the other order `GetAdminStats` |
| `DbError`, `Finish`, `Crash` | a statement fails, the answer, the manager ends |
| `Connect`, `TurnedAway`, `CreateSession`, `Connected` | client-connect: the two lookups, their failure, the post, the session file |
| `Disconnect`, `Closed` | client-disconnect: the session file and the put, the file's removal whatever the answer |
| `GiveUp` | the timeout and any other error of a call |
| `Transfer`, `ProcessRestart`, `HostRestart` | the tunnel; OpenVPN ends, which leaves the session files; its host restarts, which does not |
| `Watch` | an administrator asks for counts |
| `EndByOther` | anybody with a token ends a session, of whatever id and with whatever counters |

`begun`, `counters`, `given`, `born` and `disturbed` only observe: tunnels begun, the final
counts of those that closed, the counters that other callers gave for a session, sessions
inserted between the two counts of a request, and whether anything has failed or somebody
else has ended a session.

### Bootstrap and Doors

`Bootstrap` is `main` from `config.Load` to the listening server, one action per thing that
can fail: `Load` (file, environment, defaults, in that order), `Connect`, `MigrateNext` for
each table, `SetAuditLogMaxEntries`, `FindAdmin` and `InsertAdmin` of `createDefaultAdmin`,
`Run`. `Exit` ends the process where the code does, `SeedError` is passed over as the code
does, and systemd starts a failed process again (`Restart`). Settings that are read in the
same way are represented by one. `phase` says how far the process has come, `limit` is
`auditLogMaxEntries`, `kept` the limit that the handlers' loggers captured when they were
made. A variable of the environment that is empty counts as not set, a number that cannot be
read is passed over, and a switch that cannot be read is off. `zone` is the process's TZ, no
setting of the configuration. Of a user's name and mail only those of the default
administrator matter, so a row says which of the two it `reserves`.

`Doors` extends `Bootstrap`: while it is up, slots serve requests.

| action | code |
|---|---|
| `Enter`, `Lookup` | the routes that take a name: login, and those of the VPN server, which exist only with a token configured |
| `Unauthorized`, `Guarded` | `AuthMiddleware`, then `RequireAdmin` of the API or `requireAdmin` of the pages |
| `Read`, `Check`, `Explain`, `Issue` | `AuthService.Login`: the account and bcrypt, `IsValidForLogin`, the second reading of the clock for the reason, `generateToken`; or `VpnAuthHandler.Authenticate` |
| `Me`, `ReadError`, `Finish` | `AuthHandler.Me` and the lookups, a failing read, the answer |
| `Update`, `Delete`, `RestoreAccount` | what `UserAccounts` does to an account, in one step |
| `Tick`, `Crash` | time, with the expiry of tokens; the end of the process |

The clock counts ticks, `DayLength` of them a day, and stops being told apart at
`Horizon`. `zone` is how many ticks the server's clock is ahead of UTC, less than
a day. A `DATE` of PostgreSQL is read as midnight in UTC (what pgx does; external), one of
MySQL as midnight in the server's zone, since `GetDSN` says `loc=Local`: `Ahead` is the
difference. `IsValidForLogin` takes today's midnight in the server's zone and compares it
with these. `Entitled` and its parts are the calendar, with no instant and no zone of a
date in them; `FirstDay` and `DayAfter` are the two days on which the code departs from it,
one at either edge and only where PostgreSQL's dates are read east of UTC.
`LoginTellsValidity` leaves these days open and holds the code to the calendar on all
others; `LoginFollowsCalendar`, which does not, is violated. Where dates are *stored* is not
modelled: a day is what the database has. A token is what is signed: user,
role, remaining life and the secret it was signed with. Logout clears a cookie and
leaves the token good. `seen[r]` and `since[r]` observe the account's rows and the time
since request `r` arrived; `None` in `seen` stands for a failed read.

### Listings

A walk: a client asks for one of thirteen lists, page after page, as far as the answers say
that there are more. `Count` and `Find` are the two statements of a request, `Turn` the
client, `Enter` and `Leave` rows that other requests store and delete in between. What
each service does (`UserRows`, ...) is a record of its differences: whether it sorts by
time, whether an error of the count is its own, whether it caps the size, whether its rows
can leave; what each handler makes of page and size is `UserList`, `AuditList`,
`UsersPage`, ... Without an ORDER BY `Find` takes any rows of the right number. A
walk over HTML pages follows their links (`NextPage`); beyond the last page they show
the last one's number and no rows (`Shown`).

Two kinds of list give a client less than it asks for, and the properties say how much
instead of leaving them out. `Reach` is how many rows the pages that the client was told of
hold. Above the cap of 100 the audit log's and the traffic's are fewer than the rows, since the
handler divides by the size as it was asked for and the service by the capped one. The lists of
one entity's entries, one user's entries and the usage of users answer their first page
whatever page is asked for: `audit_handler.go:131` says "Simple parsing, default to 1 on error",
and what follows parses nothing. There `Reach` is one page.

## 3 What is checked

| run | module, bounds | shows |
|---|---|---|
| `accounts_racing` | `MCUserAccountsHistory`, 2 slots, 4 ids, 8 requests, 4 addresses, statements may fail | holds: types and places, unique names and mails, deleted accounts stay deleted, only administrators make administrators, a refusal has written nothing, an answer tells the truth but for an account deleted meanwhile or a statement that failed, managers keep to users who were theirs, a password is changed by who knew it, every request is answered |
| `accounts_serial` | `MCUserAccounts`, 1 slot, 20 requests in any order, 4 addresses, one of them in two spellings, statements may fail | holds: the code implements `AccountRegistry`, addresses are unique |
| `accounts_shared_ip` | 2 slots | **violated**: two creates store one address |
| `accounts_overwritten` | 2 slots | **violated**: a create rewrites the live account that another has just made |
| `audit_retention` | `MCAuditLog`, 2 writers, `Max` = 2, 6 places, 2 bind parameters, failures and restarts | holds: the newest rows are kept, the excess is bounded by the requests at work, a row beyond the limit goes however many others come, only a failure costs a login its answer |
| `audit_empty_answer` | the same | **violated**: login answers an empty 200 when its audit row fails |
| `access_racing` | `MCAccessGraph`, 2 slots, 2 users, 2 groups and a free key, 2 networks, 3 names, 2 CIDRs, 24 requests, statements may fail | holds: a client's routes were granted while they were read and none is missed that was there all the time, only a race leaves a grant without a network, answers tell what was stored, what is deleted stays so, access grows only by what gives it |
| `access_orphan` | the same | **violated**: a grant outlives the network that was deleted after it was found |
| `sessions_reported` | `MCVpnSessions`, 2 slots, 2 tunnels of one or two users, 2 keys, 2 counts, every fault | holds: one row for a tunnel, ended rows have the counters of a tunnel of their user or those that somebody else gave, active rows are the tunnels while nothing fails, answers are true, counts agree, the table implements `SessionLedger` |
| `doors` | `MCDoors`, 1 slot, 2 accounts, 1 token, 2 passwords (one of them none), 4 environments and an unreadable file, 1 failure, 1 change, 2 ticks a day, 6 ticks | holds: who is served is served over a complete start, no start touches an account, a login tells what was true, the doors agree but at the edges; the service comes up, and rights end |
| `doors_calendar` | the same | **violated**: east of UTC, over PostgreSQL, a login succeeds on the day after `valid_to` |
| `listing_walks` | `MCListings`, 4 rows, pages of 1 and 2, 13 lists, 2 rows that come or go, 1 failure | holds: a walk over a sorted list misses no row that stayed, pages add up, a list on one page does not depend on its count |

The `DoorsAgree` of `doors` excepts five days: `valid_to` itself, which login allows and
the VPN ends at its first instant; and, over PostgreSQL where the server is not in UTC, the day of
each period's edge that the zone moves.

*Bounds.* Every race in `UserAccounts` is between one request that has read and one that
writes, so two slots show each; a third adds only queues of the same. Four ids are an
administrator, a manager, the manager's user, and a free one, and the names and mails of
each; `RacingInputs` has for every handler the request that meets another's read: an
administrator moves the manager's user away, resets the password or deletes the account
between the statements of another. `SerialInputs` has for each check of each handler a
request on either side of it. The size of the network (4) leaves two addresses to give, so
it is used up in the runs. In `AuditLog` six places let the table outgrow `Max` by two rows
and what two requests are about to delete, with rows coming in before, between and after
those that are there; requests do not end, since a place is free again when its row has
gone. `MaxParams` equals the number of writers, the smallest value with which undisturbed
saves never outgrow a statement; a restart leaves enough rows to outgrow it. In
`AccessGraph` the user is in two groups with a network each, so that a routes request makes
two rounds and what goes through the second group must survive what happens to the first;
the second user has no manager and no group, for the checks that refuse. `RacingInputs` has
one request for each statement that changes what another request has read; the constraint
`Pairs` lets these race in twos and the rest (`OtherInputs`) run alone, but for the account
that comes and goes between their statements, and excludes two routes requests at once,
which only read. The two slots are interchangeable, and no property names one: `Symmetry`.
In `VpnSessions` two tunnels are enough for a late request of the first to meet the second,
of the same user or of another (`TwoTunnels`), and each inserts one row, so that two keys
are never too few; two slots let another caller's end, a count or a late call fall between
the two statements of another. Others meddle with one of the two sessions, as often as they
like (`OneMeddler`), one request counts at a time (`OneWatcher`), and one script at a time
asks for what changes nothing (`OneAsking`). In `Doors` what a request reads is one account,
so one change of it and one slot show every order; the other account takes the
administrator's name or mail away from a start, and requests are about the first alone
(`Asked`). Two ticks make a day with an instant that is not midnight, `zone` 1 and -1 are
the furthest a clock can be from UTC in ticks, and six ticks are the days before, of and
after an edge in each zone. The environments are PostgreSQL in UTC, in the east and in the
west, and MySQL in the east, each with other numbers and switches that cannot be read; one
failure is a failed statement, start or process at any place. Two passwords and two roles
let a change matter. In `Listings` four rows in pages of one make a walk of four pages, and
in pages of two one of two; two of the rows have one time; the cap of 2 lets a client ask
for more than a page can have.

The bounds are the sets in the MC modules and the cfgs; besides `Tunnels` and `MaxCount`,
`MaxFaults`, `MaxChanges`, `Horizon`, `Tokens` and `MaxMoves`, which are named where they are
declared, no action has a bound of its own.

*Fairness.* `FairSpec` of `UserAccounts` and `AuditLog` has weak fairness of what a
request does once it has arrived: the Go scheduler runs every goroutine, and a statement
returns or fails. Nothing says that requests arrive, that statements succeed, or that one
request overtakes another. `FairSpec` of `Doors` adds that time passes (`Tick`), and that the
process goes on with its start and is started again (`Starting`: the unit of the packages
says `Restart=on-failure`). Nothing retries for ever in this code, so no stronger fairness is
needed; `RightsEnd` needs none of the tokens' holders.

*Deadlock* is checked in every run but that of `Listings`, where a walk that is done is
the end of the behaviour: elsewhere a slot can always take another request, a process
can die, or time passes.

`UniqueVpnIp` and `ImplementsRegistry` hold served serially and not with two slots:
`accounts_shared_ip` and `accounts_overwritten` are the two races. Which interleavings it
takes is the subject of `UserAccountsRaces`. Everything else about accounts is checked with
two slots.

## 4 What is proved

For every value of the constants, by TLAPS:

* `UserAccountsProofs!TypeCorrect`: `Spec => []TypeOK`. Types alone (`Typed`) are not
  inductive: whether a statement stores a row of the right type depends on what kind of request
  can be at that statement and on what was validated before, which `Placed` says; `TypeOK` is both.
* `RowsUnique`: `Spec => []NamesAndMailsUnique`. From the type invariant and
  `TableSteps`: each statement that writes re-establishes the indexes.
* `DeletedStaysDeleted`, `AdminsByAdmins`: the action properties, for any number of
  slots. The second rests on an invariant about requests that have passed their
  checks: those of a manager do not carry the rank ADMIN.
* `RefusalsWriteNothing`: for any number of slots, failures included. `Quiet` adds at
  which statements a request can have written: none of those after them refuses, they
  fail with 500.
* `UserAccountsProofs!RequestsAdvance`, `AccessGraphProofs!RequestsAdvance`: for any number
  of slots, each step of a request leaves it fewer statements to send (`Ahead`), or is a
  round of the loop in `GetUserRoutes`, which takes a group off the list. With the fairness
  of section 3 this is why every request is answered; that last step is TLC's.
* `UserAccountsHistoryProofs`, for any number of slots and whatever fails, with no condition
  on the interleaving: `AnswersTrue`, `ManagersKeepScope` and `PasswordsAsCompared` are
  `[]ReplyTellsTruth`, `ManagerScope` and `ReplacesCurrentPassword`. `HistoryInv` says at
  each step what a request remembers: not that what it has checked is still true of the
  account (`RecallsAt`), nor that its write was one (`TruthAt`), but that it has been, or
  that the account has been deleted or a statement has failed since. The memory changes
  nothing (`ObsImplements`), so that everything above holds with it.
* `UserAccountsRaces`, for any number of slots: the two promises that two requests can break
  hold in every behaviour without certain steps. `AddressesKept`: no other request
  gives away the address that a request has found free, until it has stored it.
  `NamesKept`: none takes the name or mail that a create has found free, or touches the
  deleted row it is to restore. These are the windows between check and write,
  and the theorems say that there are no others:
  * `AddressesUnique`: `Spec /\ [][AddressesKept]_vars => []UniqueVpnIp`. The invariant
    (`AddressAt`) says at which statements an address is known to be free. A request's own
    steps establish and keep it (`AddressStep`), the condition keeps it through those of others;
  * `InUseNotOverwritten`: `LiveNotOverwritten` from `NamesKept`, by `NamesAt`: the account that
    a create has matched has its name or mail, and no live one has;
  * `ImplementsRegistryUnraced`: `ImplementsRegistry` from both. The refinement maps each of
    the four statements that write to an operation of the registry and every other step to a
    stutter. Neither condition is enough by itself: each leaves the race of one of the runs
    `accounts_shared_ip` and `accounts_overwritten`.

  A step of one's own always goes on to another statement (`AheadDecreases`), and the
  conditions speak of the others' steps only. With one slot they therefore hold
  (`SerialUnraced`), and the `Serial...` theorems follow with no condition: what
  `accounts_serial` checks, for every value of the constants.
* `AuditLogProofs!TypeCorrect`, and `NewestRetained`: `Spec => []NewestKept`, for any
  number of requests, any order of rows, failures and restarts. `NewestKept` is not
  inductive, since a request may be about to delete rows that were old when it looked.
  `KeptInv` says that these rows (`Doomed`) still have `Max` newer ones even when all
  that anybody has plucked is gone; a pluck re-establishes it because no row among the
  newest `Max` of the table can be doomed.
* `Overshoot` and `LoginsAnswered`, when the table starts within the limit and a
  statement takes as many parameters as there are writers: by `BoundInv`, which bounds
  the table for *every set* of requests about to delete as if they had deleted.
* `AccessGraphProofs!TypeCorrect`, `DeletedStayDeleted`: as above, from what kind of
  request can be at which statement.
* `OrphansAreRaced`: `Spec => []OrphansOnlyByRace`. Not inductive: when `Erase` deletes a
  network, no grant of it may be left that is not in `raced`. `OrphanInv` says so of
  every network that some request has come to erase: its grants were removed before,
  and one that is inserted from then on is in `raced`. `SerialLeavesNoOrphan` then gives `NoOrphan`
  for one slot, where a request that is to insert still has its network alive.
* `OnlyGrantedRoutes`, `AllHeldRoutes`: for any number of requests, groups and
  networks. `RouteInv` carries both through the loop of `GetUserRoutes`: at each
  statement, what the request has noted to read next was in effect when it was noted
  (`GrantedAt`), and each path that has held so far goes through a group that is still to do,
  a network that is about to be read, or a CIDR that is already collected (`HeldAt`).
  It needs that the group of every membership has a row, deleted or not, so that no
  new group is born with members (`RowsInv`). `SteadyRoutesExact` puts the two together:
  when all that was in effect while the routes were read gave no path but those that were
  there all the time, the routes are exactly what the user reaches.
* `AccessOpenedByGrants`: `Spec => AccessGrows`. A row that is inserted opens nothing
  because nothing refers to it yet: `RowsInv` says so of memberships, `GrantRowsInv` of
  the networks of associations and of the requests that are about to make one.
* `AnswersTellWhatWasStored`: for any number of requests, from `Told`, that they have written
  nothing before the statement that does and are answered by that one.
* `VpnSessionsProofs`: every safety property of `sessions_reported`, for any number of
  users, tunnels, sessions and requests and
  whatever is lost, late or restarted. `AnswersTrue` and `SessionsImplementLedger` rest
  on `TypeInv`, which says for each statement what rows its request has found: a session
  that a disconnect has read is there, of the same user, until it saves. `AnswersCount`
  compares the two counts through what is inserted between them. `EndedAreCounted` and
  `SessionsBounded` are not inductive: the first needs of every end in flight that its counters
  are of a closed tunnel of the session's own user or were given for this very session
  (`Reported`), and of every session file that it names a session of its user (`Files`); the second
  counts rows and connects still in flight together against the tunnels begun.
  `TunnelsAreActive` rests on `Calm`, which holds until something fails: it says for each
  stage of a tunnel at which statement its request is and which sessions the user has then,
  and that no request is about to insert or end a session but one that a script waits for.
* `DoorsProofs`: every safety property of `doors`. `ReadyWhenUp` and `StartsKeepAccounts`
  from `BootInv`, what holds at each phase of a start. `DoorsAgreeAlways`, for every length
  of a day and every zone, is arithmetic with a quotient: lemmas say where an instant lies
  between the midnights of its day, and where the server's midnight lies between those of
  the dates. `ValidMeansEntitled` compares the code's instants with the calendar, which
  `LoginTellsValidity` speaks of. `LoginsTellValidity` rests on `ToldInv`: at each step of a
  login what it has found out so far was true at some time since it arrived; what has been
  seen stays seen (`StaysSeen`), and the step that decides adds its own instant.
* `ListingsProofs`: every property of `listing_walks`, for any number of rows, any size of
  pages, any rows that come and go and any failures. `PagesHoldAll` says what
  `CalculateTotalPages` computes, the least number of pages with room for all rows, and
  `PagesByRemainder` that the handlers which divide and look at the remainder compute the
  same. `WalksMissNothing` is about every sorted list and every size that is asked for,
  those above the cap too, and the lists that cannot be walked over. It rests on `WalkInv`:
  a row that was there from the start, stays, and has not been shown has at least as many
  newer rows as the pages behind the client hold (`StillToCome`); and what the last count
  did not count has come since (`Counted`). `MissedByPage` is the step: a page that passes
  over such a row is full of newer ones. `PagesShowAll` rests on `SumInv`, what the pages so
  far have shown of a table that does not change. Both count rows, with the library's
  theorems on finite sets.

Assumptions are those named in the modules: the table at the start satisfies the indexes and
gives no address twice, associations at the start have their rows, `None` and `Keep` are not
values, `Max` is positive, the rows of a list are finitely many; the times of a day and the
zone are within a day (`ClockAssumption`, `ZoneAssumption`); before the first start the
indexes keep names and mails apart (`AccountsAssumption`). TLC evaluates them in each run.

## 5 What is only checked, or not modelled

Liveness (`EveryRequestAnswered`, `EventuallyTrimmed`, `ComesUp`, `RightsEnd`) stays with
TLC, being out of the prover's reach. So do the violations: that a race which a theorem names
really happens is what a run shows.

Not modelled:

* `GetNetworkInfo` and `GetUsedIPs`, which display what the allocator sees, and the
  arithmetic of network and broadcast addresses: an offset stands for an address;
* sessions that others than the scripts begin with `POST /vpn/sessions`, of whatever user;
  the reason of an end, which a caller may leave out and which decides nothing;
* how dates get into the database: MySQL's driver writes an instant in the server's zone, so
  that west of UTC a date that was parsed as UTC midnight is stored as the day before;
  `Doors` begins with the day that is stored;
* samples of traffic (`CreateTrafficStats`): rows that are inserted one by one, that
  nothing updates, and that only their list reads;
* the dashboard's sums by day and the manager's count, audit statistics, filters of
  lists: they only choose or add up what is displayed;
* templates, scripts of the browser, generated swagger, logger, packaging; the filter of
  client addresses, which looks at each request alone;
* which role each route asks for, beyond the routes that change state and the
  administrator's: wiring, with nothing to interleave.

In MySQL's dialect OFFSET without LIMIT is not a statement; whether GORM's driver adds
one is outside of the repository, and the model takes the statement as PostgreSQL does.
What pgx and GORM do is taken from how the code calls them and marked external in
`PROJECT.json`.

## 6 What is left

1. `AccessGraph` with a manager that changes: a membership given by a manager whose
   right to the user has ended since it was read.
2. The arithmetic of `GetNetworkInfo` and of the dashboard's days.
