------------------------------ MODULE AuditLog ------------------------------
(***************************************************************************)
(* The audit log and its retention limit (internal/middleware/audit.go).   *)
(*                                                                         *)
(* Every request that is audited ends in AuditLogger.save: insert the row, *)
(* ask for the ids beyond the newest Max, delete those.  These are three   *)
(* statements of a goroutine of its own, and any number of requests run    *)
(* them at the same time.  login and logout give up on an error of save;   *)
(* the other handlers drop it.                                             *)
(*                                                                         *)
(* "Newest" is the order created_at DESC, id DESC.  created_at is taken by *)
(* the server before the INSERT, so rows are stored in any order of it, and*)
(* rows with one created_at are ordered by their random ids.  An entry is  *)
(* therefore just its place in that order: a number no other entry has.    *)
(***************************************************************************)
EXTENDS Integers, FiniteSets

CONSTANTS
    Writers,    \* requests that save at one time
    Entries,    \* places in the order created_at, id, which is a bound on
                \* the rows that are there at one time
    Max,        \* audit.max_entries
    Table0,     \* the table at the start, as an earlier run left it
    MaxParams,  \* bind parameters that the database takes in one statement
    Faults      \* TRUE when statements may fail and the process may die

\* What is audited: a session is a login or a logout.
Kinds == {"session", "other"}
Steps == {"idle", "insert", "pluck", "remove", "full", "empty"}

ASSUME EntriesAssumption == Entries \subseteq Int
ASSUME MaxAssumption == Max \in Nat \ {0}
ASSUME TableAssumption == Table0 \subseteq Entries /\ IsFiniteSet(Table0)
ASSUME ParamsAssumption == MaxParams \in Nat
ASSUME FaultsAssumption == Faults \in BOOLEAN

VARIABLES
    table,      \* the rows of audit_logs
    ever,       \* observer: the places of all rows that were ever stored
    pc,         \* the next step of each request; full and empty are answers
    kind,       \* what each request audits
    expired,    \* the ids it has plucked and will delete
    disturbed   \* observer: a statement has failed or the process has died

vars == <<table, ever, pc, kind, expired, disturbed>>

Busy == {w \in Writers : pc[w] \in {"insert", "pluck", "remove"}}
Doomed == UNION {expired[w] : w \in Writers}
Newer(S, e) == {f \in S : f > e}

\* K is what Offset(n) of S in descending order passes over: its n newest.
OldestOf(S, n, K) ==
  K \subseteq S /\ Cardinality(K) = n /\ \A k \in K, e \in S \ K : k < e
NewestOf(S, n, K) ==
  K \subseteq S /\ Cardinality(K) = n /\ \A k \in K, e \in S \ K : e < k

\* How the handler answers when save has returned: in full, or, when it gave
\* up on the error, with an empty 200.
Outcome(w, ok) == IF ok \/ kind[w] = "other" THEN "full" ELSE "empty"

Goto(w, step) == pc' = [pc EXCEPT ![w] = step]

Begin(w) ==
  /\ pc[w] = "idle"
  /\ \E k \in Kinds : kind' = [kind EXCEPT ![w] = k]
  /\ Goto(w, "insert")
  /\ UNCHANGED <<table, ever, expired, disturbed>>

\* The new row is anywhere in the order: the clock was read before the INSERT
\* reached the database, or goes back.  A row that has long gone can have had
\* the same place, so that requests may store rows for ever.
Insert(w) ==
  /\ pc[w] = "insert"
  /\ \E e \in Entries \ (table \cup Doomed) : table' = table \cup {e} /\ ever' = ever \cup {e}
  /\ Goto(w, "pluck")
  /\ UNCHANGED <<kind, expired, disturbed>>

\* One row is expired at a time.
PluckFirst(w) ==
  /\ pc[w] = "pluck"
  /\ \/ Cardinality(table) <= Max /\ Goto(w, Outcome(w, TRUE)) /\ UNCHANGED expired
     \/ /\ Cardinality(table) > Max
        /\ \E e \in table : NewestOf(table, Cardinality(table) - 1, table \ {e})
                            /\ expired' = [expired EXCEPT ![w] = {e}]
        /\ Goto(w, "remove")
  /\ UNCHANGED <<table, ever, kind, disturbed>>

\* Order("created_at DESC, id DESC").Offset(Max).Pluck("id").
Pluck(w) ==
  /\ pc[w] = "pluck"
  /\ \/ Cardinality(table) <= Max /\ Goto(w, Outcome(w, TRUE)) /\ UNCHANGED expired
     \/ /\ Cardinality(table) > Max
        /\ \E K \in SUBSET table :
             NewestOf(table, Max, K) /\ expired' = [expired EXCEPT ![w] = table \ K]
        /\ Goto(w, "remove")
  /\ UNCHANGED <<table, ever, kind, disturbed>>

\* The rows deleted are an error when another request deleted them first.
RemoveStrict(w) ==
  /\ pc[w] = "remove"
  /\ table' = table \ expired[w]
  /\ Goto(w, Outcome(w, expired[w] \subseteq table))
  /\ expired' = [expired EXCEPT ![w] = {}]
  /\ UNCHANGED <<ever, kind, disturbed>>

\* A DELETE that is refused is tried again.
RemoveRetries(w) ==
  /\ pc[w] = "remove"
  /\ \/ /\ Cardinality(expired[w]) <= MaxParams
        /\ table' = table \ expired[w]
        /\ Goto(w, Outcome(w, TRUE))
        /\ expired' = [expired EXCEPT ![w] = {}]
     \/ /\ Cardinality(expired[w]) > MaxParams
        /\ Goto(w, "pluck")
        /\ UNCHANGED <<table, expired>>
  /\ UNCHANGED <<ever, kind, disturbed>>

\* DELETE ... WHERE id IN (...), with one bind parameter for each id.  Rows
\* that another request has deleted by now are no error.
Remove(w) ==
  /\ pc[w] = "remove"
  /\ \/ /\ Cardinality(expired[w]) <= MaxParams
        /\ table' = table \ expired[w]
        /\ Goto(w, Outcome(w, TRUE))
     \/ /\ Cardinality(expired[w]) > MaxParams
        /\ UNCHANGED table
        /\ Goto(w, Outcome(w, FALSE))
  /\ expired' = [expired EXCEPT ![w] = {}]
  /\ UNCHANGED <<ever, kind, disturbed>>

\* A statement fails: save returns the error at once.
Fail(w) ==
  /\ Faults /\ w \in Busy
  /\ Goto(w, Outcome(w, FALSE))
  /\ expired' = [expired EXCEPT ![w] = {}]
  /\ disturbed' = TRUE
  /\ UNCHANGED <<table, ever, kind>>

Finish(w) ==
  /\ pc[w] \in {"full", "empty"}
  /\ Goto(w, "idle")
  /\ kind' = [kind EXCEPT ![w] = "other"]
  /\ UNCHANGED <<table, ever, expired, disturbed>>

\* The process dies; the table is what is left when it is started again.
Crash ==
  /\ Faults
  /\ pc' = [w \in Writers |-> "idle"]
  /\ kind' = [w \in Writers |-> "other"]
  /\ expired' = [w \in Writers |-> {}]
  /\ disturbed' = TRUE
  /\ UNCHANGED <<table, ever>>

Init ==
  /\ table = Table0
  /\ ever = Table0
  /\ pc = [w \in Writers |-> "idle"]
  /\ kind = [w \in Writers |-> "other"]
  /\ expired = [w \in Writers |-> {}]
  /\ disturbed = FALSE

Serve(w) == Insert(w) \/ Pluck(w) \/ Remove(w) \/ Fail(w) \/ Finish(w)

Next == Crash \/ \E w \in Writers : Begin(w) \/ Serve(w)

Spec == Init /\ [][Next]_vars

\* A request that has begun goes on; none has to come, and nothing has to fail.
FairSpec == Spec /\ \A w \in Writers : WF_vars(Serve(w))

-----------------------------------------------------------------------------
\* Every variable has its type; only rows that were stored are plucked, and
\* only a request about to delete holds any.
TypeOK ==
  /\ table \subseteq ever /\ ever \subseteq Entries /\ IsFiniteSet(ever)
  /\ pc \in [Writers -> Steps]
  /\ kind \in [Writers -> Kinds]
  /\ expired \in [Writers -> SUBSET ever]
  /\ \A w \in Writers : expired[w] # {} => pc[w] = "remove"
  /\ disturbed \in BOOLEAN

\* "The newest audit entries retained" (audit.go): a row that is gone has Max
\* newer ones that are there.  So the newest Max rows of all that were ever
\* stored are always in the table, whatever plucks and deletes overlap, in
\* whatever order rows were stored, and wherever a request broke off.
NewestKept == \A e \in ever \ table : Cardinality(Newer(table, e)) >= Max

\* Until something fails, the table exceeds the limit by no more rows than
\* there are requests that have stored theirs and not yet pruned.
OvershootBounded ==
  ~disturbed =>
    Cardinality(table) <= Max + Cardinality({w \in Writers : pc[w] \in {"pluck", "remove"}})

\* Only a login or a logout is ever cut short, answered 200 with no token and no
\* message, and only when a statement has failed.
LoginGetsToken == \A w \in Writers : pc[w] = "empty" => kind[w] # "other" /\ disturbed

\* "@Success 200 {object} dto.LoginResponse" (auth_handler.go): no request is
\* answered 200 with nothing in it.
NoEmptyAnswer == \A w \in Writers : pc[w] # "empty"

\* A row beyond the limit does not stay: it is deleted however many rows other
\* requests go on to store, unless something fails.
EventuallyTrimmed ==
  \A e \in Entries :
    (e \in table /\ Cardinality(Newer(table, e)) >= Max) ~> (e \notin table \/ disturbed)
=============================================================================
