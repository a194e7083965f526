---------------------------- MODULE VpnSessions ----------------------------
(***************************************************************************)
(* VPN sessions as the OpenVPN server's scripts report them, and the       *)
(* counts that are read from them.                                         *)
(*                                                                         *)
(* client-connect looks the user up, posts a session and keeps its id in a *)
(* file named after the user; client-disconnect reads the file, puts the   *)
(* counters and removes the file, whatever the answer.  Both give up after *)
(* a timeout and never try again.  A request of theirs may not reach the   *)
(* manager, and one that they gave up on is served all the same.           *)
(***************************************************************************)
EXTENDS Integers, FiniteSets

CONSTANTS
    Sessions,       \* primary keys of vpn_sessions
    Users,
    Tunnels,        \* user -> how many tunnels the user opens, a bound
    MaxCount,       \* what a tunnel counts at most, a bound
    Slots,          \* requests in flight
    Failures,       \* TRUE when statements may fail
    None

Counts == 0 .. MaxCount

ASSUME BoundsAssumption ==
  /\ Tunnels \in [Users -> Nat] /\ MaxCount \in Nat
  /\ IsFiniteSet(Sessions) /\ IsFiniteSet(Slots)
ASSUME FailuresAssumption == Failures \in BOOLEAN

\* A row of vpn_sessions.  disconnected_at is NULL as long as active is TRUE;
\* bytes stands for both counters.  The reason of an end, which a caller may
\* leave out, decides nothing and is left out here.
Session == [user: Users, active: BOOLEAN, bytes: Counts]

Request == [op: {"connect", "disconnect", "usage", "dashboard"},
            user: Users \cup {None}, id: Sessions \cup {None}, bytes: Counts]

ASSUME MarkAssumption ==
  None \notin Sessions \cup Users \cup Slots \cup Session \cup Request

Steps == {"idle", "insert", "reload", "find", "save", "count", "active", "reply"}
Codes == {0, 200, 201, 404, 500}
Stages == {"down", "asking", "connecting", "up", "closing"}

VARIABLES
    rows,           \* vpn_sessions: id -> row, None where there is none
    pc, req, code,  \* the manager's requests
    row,            \* the session that a disconnect has read
    total, current, \* the counts that a request has read so far
    stage,          \* the user's tunnel, and the script at work on it
    waits,          \* the request whose answer that script waits for
    file,           \* the session file of the user
    counted,        \* what the tunnel has counted
    begun, counters,\* observers: tunnels begun, final counts of those closed
    born,           \* observer: rows inserted since a request began to count
    given,          \* observer: session -> counters that other callers have given
    disturbed       \* observer: a call, a statement or a process has failed,
                    \* or somebody else has ended a session

server == <<pc, req, code, row, total, current, born>>
scripts == <<stage, waits, file, counted, begun, counters>>
vars == <<rows, server, scripts, given, disturbed>>

-----------------------------------------------------------------------------
Goto(r, step) == pc' = [pc EXCEPT ![r] = step] /\ UNCHANGED code
Reply(r, c) ==
  /\ pc' = [pc EXCEPT ![r] = "reply"]
  /\ code' = [code EXCEPT ![r] = c]

Asked(op, u, s, n) == [op |-> op, user |-> u, id |-> s, bytes |-> n]

\* GetUsageStats counts all sessions and then the active ones, GetAdminStats
\* the active ones and then all.
OrderTotalFirst(op) == <<"count", "active">>
Order(op) == IF op = "usage" THEN <<"count", "active">> ELSE <<"active", "count">>

FirstStep(i) ==
  CASE i.op = "connect" -> "insert"
    [] i.op = "disconnect" -> "find"
    [] OTHER -> Order(i.op)[1]

\* A request reaches the manager, which starts to serve it.
Arrive(r, i) ==
  /\ pc[r] = "idle"
  /\ pc' = [pc EXCEPT ![r] = FirstStep(i)]
  /\ req' = [req EXCEPT ![r] = i]
  /\ born' = [born EXCEPT ![r] = 0]
  /\ UNCHANGED <<code, row, total, current>>

\* A script's call, which may be lost on the way.
Call(u, i) ==
  \/ \E r \in Slots : /\ Arrive(r, i)
                      /\ waits' = [waits EXCEPT ![u] = r]
                      /\ UNCHANGED disturbed
  \/ /\ waits' = [waits EXCEPT ![u] = None]
     /\ disturbed' = TRUE
     /\ UNCHANGED server

-----------------------------------------------------------------------------
\* VpnSessionService.Create: the INSERT, which looks at no other session, and
\* the reload of what it has inserted.
FreshUnbound(u) == [user |-> None, active |-> TRUE, bytes |-> 0]
Fresh(u) == [user |-> u, active |-> TRUE, bytes |-> 0]

Between(q) == pc[q] = "active" /\ req[q].op = "usage"

InsertReusing(r) ==
  /\ pc[r] = "insert"
  /\ \E s \in Sessions :
       /\ IF rows[s] = None THEN TRUE ELSE rows[s].user = req[r].user
       /\ rows' = [rows EXCEPT ![s] = Fresh(req[r].user)]
       /\ req' = [req EXCEPT ![r].id = s]
  /\ born' = [q \in Slots |-> IF Between(q) THEN born[q] + 1 ELSE born[q]]
  /\ Goto(r, "reload")
  /\ UNCHANGED <<row, total, current, scripts, given, disturbed>>
Insert(r) ==
  /\ pc[r] = "insert"
  /\ \E s \in Sessions :
       /\ rows[s] = None
       /\ rows' = [rows EXCEPT ![s] = Fresh(req[r].user)]
       /\ req' = [req EXCEPT ![r].id = s]
  /\ born' = [q \in Slots |-> IF Between(q) THEN born[q] + 1 ELSE born[q]]
  /\ Goto(r, "reload")
  /\ UNCHANGED <<row, total, current, scripts, given, disturbed>>

Reload(r) ==
  /\ pc[r] = "reload"
  /\ Reply(r, IF rows[req[r].id] # None THEN 201 ELSE 500)
  /\ UNCHANGED <<rows, req, row, total, current, born, scripts, given, disturbed>>

\* VpnSessionService.Disconnect: the read, and the UPDATE of every column from
\* what was read, whether the session has ended by then or not.
FindOfUser(r) ==
  /\ pc[r] = "find"
  /\ \E s \in Sessions :
       /\ rows[s] # None /\ rows[s].active
       /\ row' = [row EXCEPT ![r] = rows[s]]
       /\ req' = [req EXCEPT ![r].id = s]
  /\ Goto(r, "save")
  /\ UNCHANGED <<rows, total, current, born, scripts, given, disturbed>>
Find(r) ==
  /\ pc[r] = "find"
  /\ \/ /\ rows[req[r].id] = None
        /\ Reply(r, 404)
        /\ UNCHANGED row
     \/ /\ rows[req[r].id] # None
        /\ row' = [row EXCEPT ![r] = rows[req[r].id]]
        /\ Goto(r, "save")
  /\ UNCHANGED <<rows, req, total, current, born, scripts, given, disturbed>>

DisconnectedNonZero(s, i) ==
  [s EXCEPT !.active = (i.bytes = 0), !.bytes = i.bytes]
Disconnected(s, i) == [s EXCEPT !.active = FALSE, !.bytes = i.bytes]

Save(r) ==
  /\ pc[r] = "save"
  /\ rows' = [rows EXCEPT ![req[r].id] = Disconnected(row[r], req[r])]
  /\ row' = [row EXCEPT ![r] = None]
  /\ Reply(r, 200)
  /\ UNCHANGED <<req, total, current, born, scripts, given, disturbed>>

-----------------------------------------------------------------------------
Rows == {s \in Sessions : rows[s] # None}
ActiveRows == {s \in Rows : rows[s].active}

CountNext(r) ==
  IF pc[r] = Order(req[r].op)[1] THEN Goto(r, Order(req[r].op)[2]) ELSE Reply(r, 200)

CountTotal(r) ==
  /\ pc[r] = "count"
  /\ total' = [total EXCEPT ![r] = Cardinality(Rows)]
  /\ CountNext(r)
  /\ UNCHANGED <<rows, req, row, current, born, scripts, given, disturbed>>

CountActive(r) ==
  /\ pc[r] = "active"
  /\ current' = [current EXCEPT ![r] = Cardinality(ActiveRows)]
  /\ CountNext(r)
  /\ UNCHANGED <<rows, req, row, total, born, scripts, given, disturbed>>

-----------------------------------------------------------------------------
\* A statement fails and changes nothing.  GetByID takes any error for a
\* session that is not there; Create passes that on as a failure.
FailCode(r) == IF pc[r] = "find" THEN 404 ELSE 500

DbErrorRetries(r) ==
  /\ Failures
  /\ pc[r] \notin {"idle", "reply"}
  /\ disturbed' = TRUE
  /\ IF pc[r] = "reload" THEN Goto(r, "insert") ELSE Reply(r, FailCode(r))
  /\ UNCHANGED <<rows, req, row, total, current, born, scripts, given>>
DbError(r) ==
  /\ Failures
  /\ pc[r] \notin {"idle", "reply"}
  /\ disturbed' = TRUE
  /\ Reply(r, FailCode(r))
  /\ UNCHANGED <<rows, req, row, total, current, born, scripts, given>>

Cleared(r) ==
  /\ pc' = [pc EXCEPT ![r] = "idle"]
  /\ req' = [req EXCEPT ![r] = None]
  /\ code' = [code EXCEPT ![r] = 0]
  /\ row' = [row EXCEPT ![r] = None]
  /\ total' = [total EXCEPT ![r] = 0]
  /\ current' = [current EXCEPT ![r] = 0]
  /\ born' = [born EXCEPT ![r] = 0]

\* The answer of a request that no script waits for.
Finish(r) ==
  /\ pc[r] = "reply"
  /\ \A u \in Users : waits[u] # r
  /\ Cleared(r)
  /\ UNCHANGED <<rows, scripts, given, disturbed>>

Serve(r) == \/ Insert(r) \/ Reload(r) \/ Find(r) \/ Save(r)
            \/ CountTotal(r) \/ CountActive(r) \/ DbError(r) \/ Finish(r)

-----------------------------------------------------------------------------
\* client-connect: the user and the routes are asked for first, and without
\* either the script's exit turns the user away.
Connect(u) ==
  /\ stage[u] = "down" /\ begun[u] < Tunnels[u]
  /\ stage' = [stage EXCEPT ![u] = "asking"]
  /\ UNCHANGED <<rows, server, waits, file, counted, begun, counters, given, disturbed>>

TurnedAway(u) ==
  /\ stage[u] = "asking"
  /\ stage' = [stage EXCEPT ![u] = "down"]
  /\ UNCHANGED <<rows, server, waits, file, counted, begun, counters, given, disturbed>>

CreateSession(u) ==
  /\ stage[u] = "asking"
  /\ stage' = [stage EXCEPT ![u] = "connecting"]
  /\ begun' = [begun EXCEPT ![u] = @ + 1]
  /\ Call(u, Asked("connect", u, None, 0))
  /\ UNCHANGED <<rows, file, counted, counters, given>>

\* The script has its answer; the tunnel is there whatever that is.
Connected(u) ==
  /\ stage[u] = "connecting" /\ waits[u] # None /\ pc[waits[u]] = "reply"
  /\ stage' = [stage EXCEPT ![u] = "up"]
  /\ file' = [file EXCEPT ![u] = IF code[waits[u]] = 201 THEN req[waits[u]].id ELSE @]
  /\ waits' = [waits EXCEPT ![u] = None]
  /\ Cleared(waits[u])
  /\ UNCHANGED <<rows, counted, begun, counters, given, disturbed>>

Transfer(u) ==
  /\ stage[u] = "up" /\ counted[u] < MaxCount
  /\ counted' = [counted EXCEPT ![u] = @ + 1]
  /\ UNCHANGED <<rows, server, stage, waits, file, begun, counters, given, disturbed>>

\* client-disconnect, which does nothing without its file.
Disconnect(u) ==
  /\ stage[u] = "up"
  /\ counters' = [counters EXCEPT ![u] = @ \cup {counted[u]}]
  /\ counted' = [counted EXCEPT ![u] = 0]
  /\ \/ /\ file[u] = None
        /\ stage' = [stage EXCEPT ![u] = "down"]
        /\ UNCHANGED <<server, waits, disturbed>>
     \/ /\ file[u] # None
        /\ stage' = [stage EXCEPT ![u] = "closing"]
        /\ Call(u, Asked("disconnect", u, file[u], counted[u]))
  /\ UNCHANGED <<rows, file, begun, given>>

Closed(u) ==
  /\ stage[u] = "closing" /\ waits[u] # None /\ pc[waits[u]] = "reply"
  /\ stage' = [stage EXCEPT ![u] = "down"]
  /\ file' = [file EXCEPT ![u] = None]
  /\ waits' = [waits EXCEPT ![u] = None]
  /\ Cleared(waits[u])
  /\ UNCHANGED <<rows, counted, begun, counters, given, disturbed>>

\* The call's ten seconds are over, or it fails otherwise.
GiveUp(u) ==
  /\ stage[u] \in {"connecting", "closing"}
  /\ stage' = [stage EXCEPT ![u] = IF @ = "connecting" THEN "up" ELSE "down"]
  /\ file' = [file EXCEPT ![u] = IF stage[u] = "closing" THEN None ELSE @]
  /\ waits' = [waits EXCEPT ![u] = None]
  /\ disturbed' = TRUE
  /\ UNCHANGED <<rows, server, counted, begun, counters, given>>

\* The OpenVPN process ends: no script runs for the tunnels that go.
TunnelsEnd ==
  /\ stage' = [u \in Users |-> "down"]
  /\ waits' = [u \in Users |-> None]
  /\ counted' = [u \in Users |-> 0]
  /\ disturbed' = TRUE
  /\ UNCHANGED <<rows, server, begun, counters, given>>

ProcessRestart == TunnelsEnd /\ UNCHANGED file

\* With the host the session files, in /var/run, go too.
HostRestart == TunnelsEnd /\ file' = [u \in Users |-> None]

\* The manager's process ends, and with it the requests that it serves.
Crash ==
  /\ pc' = [r \in Slots |-> "idle"]
  /\ req' = [r \in Slots |-> None]
  /\ code' = [r \in Slots |-> 0]
  /\ row' = [r \in Slots |-> None]
  /\ total' = [r \in Slots |-> 0]
  /\ current' = [r \in Slots |-> 0]
  /\ born' = [r \in Slots |-> 0]
  /\ waits' = [u \in Users |-> None]
  /\ disturbed' = TRUE
  /\ UNCHANGED <<rows, stage, file, counted, begun, counters, given>>

\* The requests of others: the counts, and an end put to a session, of whatever
\* id and with whatever counters, by anyone with a token.
Watch(r, op) ==
  /\ Arrive(r, Asked(op, None, None, 0))
  /\ UNCHANGED <<rows, scripts, given, disturbed>>

EndByOther(r, s, n) ==
  /\ Arrive(r, Asked("disconnect", None, s, n))
  /\ given' = [given EXCEPT ![s] = @ \cup {n}]
  /\ disturbed' = TRUE
  /\ UNCHANGED <<rows, scripts>>

Script(u) == TurnedAway(u) \/ CreateSession(u) \/ Connected(u) \/ Closed(u) \/ GiveUp(u)

-----------------------------------------------------------------------------
Init ==
  /\ rows = [s \in Sessions |-> None]
  /\ pc = [r \in Slots |-> "idle"]
  /\ req = [r \in Slots |-> None]
  /\ code = [r \in Slots |-> 0]
  /\ row = [r \in Slots |-> None]
  /\ total = [r \in Slots |-> 0]
  /\ current = [r \in Slots |-> 0]
  /\ born = [r \in Slots |-> 0]
  /\ stage = [u \in Users |-> "down"]
  /\ waits = [u \in Users |-> None]
  /\ file = [u \in Users |-> None]
  /\ counted = [u \in Users |-> 0]
  /\ begun = [u \in Users |-> 0]
  /\ counters = [u \in Users |-> {}]
  /\ given = [s \in Sessions |-> {}]
  /\ disturbed = FALSE

Next ==
  \/ \E r \in Slots : Serve(r)
  \/ \E r \in Slots, op \in {"usage", "dashboard"} : Watch(r, op)
  \/ \E r \in Slots, s \in Sessions, n \in Counts : EndByOther(r, s, n)
  \/ \E u \in Users : Connect(u) \/ Transfer(u) \/ Disconnect(u) \/ Script(u)
  \/ ProcessRestart \/ HostRestart \/ Crash

Spec == Init /\ [][Next]_vars

-----------------------------------------------------------------------------
\* Every variable has its type; a row, for one, has a user and counters
\* whatever the request that wrote it carried.
TypeOK ==
  /\ rows \in [Sessions -> Session \cup {None}]
  /\ pc \in [Slots -> Steps]
  /\ req \in [Slots -> Request \cup {None}]
  /\ code \in [Slots -> Codes]
  /\ row \in [Slots -> Session \cup {None}]
  /\ total \in [Slots -> Nat] /\ current \in [Slots -> Nat] /\ born \in [Slots -> Nat]
  /\ stage \in [Users -> Stages]
  /\ waits \in [Users -> Slots \cup {None}]
  /\ file \in [Users -> Sessions \cup {None}]
  /\ counted \in [Users -> Counts]
  /\ begun \in [Users -> Nat]
  /\ counters \in [Users -> SUBSET Counts]
  /\ given \in [Sessions -> SUBSET Counts]
  /\ disturbed \in BOOLEAN

\* Calls get lost, time out and are served after that, statements fail and
\* both processes restart: still no user has more sessions than tunnels, since
\* neither side tries again what may have been done.
OneRowPerTunnel ==
  \A u \in Users : Cardinality({s \in Rows : rows[s].user = u}) <= begun[u]

\* A session that has ended has counters that somebody has reported of it: those of
\* a tunnel of its own user that has closed, or what another caller has given for
\* this very session, whatever was lost, served late or twice, or overwritten.
EndedAsCounted ==
  \A s \in Rows : ~rows[s].active => rows[s].bytes \in counters[rows[s].user] \cup given[s]

\* As long as nothing fails, the active sessions are exactly the tunnels that
\* are up, each the one in its user's session file.
ActiveAreTunnels ==
  ~disturbed =>
    \A u \in Users :
      LET mine == {s \in ActiveRows : rows[s].user = u} IN
        /\ stage[u] = "up" => file[u] # None /\ mine = {file[u]}
        /\ stage[u] \in {"down", "asking"} => mine = {}

\* Who is answered 201 has a session of their own in the table, who is answered
\* 200 to a disconnect has ended it, and no late request undoes either.
AnswersHold ==
  \A r \in Slots :
    pc[r] = "reply" =>
      /\ code[r] = 201 => rows[req[r].id] # None /\ rows[req[r].id].user = req[r].user
      /\ code[r] = 200 /\ req[r].op = "disconnect" => ~rows[req[r].id].active

\* The dashboard never shows more active sessions than sessions, though it
\* counts them by two statements; the usage statistics, which count in the
\* other order, do by no more than the sessions that begin in between.
CountsAgree ==
  \A r \in Slots :
    pc[r] = "reply" /\ code[r] = 200 =>
      /\ req[r].op = "dashboard" => current[r] <= total[r]
      /\ req[r].op = "usage" => current[r] <= total[r] + born[r]

\* The table as a ledger of sessions.
Logged == [s \in Sessions |->
  IF rows[s] = None THEN None
  ELSE [user |-> rows[s].user, ended |-> ~rows[s].active, bytes |-> rows[s].bytes]]
Ledger == INSTANCE SessionLedger WITH log <- Logged
ASSUME EntryAssumption == None \notin Ledger!Entry

\* The table changes as the ledger of sessions allows: no session is active
\* again once it has ended, changes its user, or starts in the middle.
ImplementsLedger == Ledger!Spec
=============================================================================
