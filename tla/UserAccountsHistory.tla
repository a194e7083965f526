------------------------ MODULE UserAccountsHistory ------------------------
(***************************************************************************)
(* UserAccounts with a memory of what happened while a request was under   *)
(* way: what has been true of its account, and whether one of its          *)
(* statements failed.  A handler works on what it has read, and others change the     *)
(* table between its statements; what it may still promise then is that    *)
(* the table was once as it took it to be, and that an answer which does   *)
(* not tell the truth has one of two reasons.  The memory is not in the    *)
(* code and no step of the code looks at it.                               *)
(***************************************************************************)
EXTENDS UserAccounts

VARIABLES
    seen,       \* observer: what was true of the account since the request came
    failed      \* observer: a statement of the request failed

obsvars == <<vars, seen, failed>>

\* The account a request is about: the one it names or is sent by, for a create
\* the one that it has restored.
Account(r) ==
  CASE req[r] = None -> {}
    [] req[r] # None /\ req[r].op = "create" ->
         IF wrote[r] THEN {found[r]} \ {None} ELSE {}
    [] OTHER -> {Target(req[r])}

\* What is true of a row: it is deleted, its manager is the caller, the current
\* password that was sent is its password.
Facts(i, row) ==
  {fact \in {"deleted", "subordinate", "password"} :
     /\ row # None
     /\ \/ fact = "deleted" /\ row.deleted
        \/ fact = "subordinate" /\ row.manager = i.by
        \/ fact = "password" /\ row.pwd = i.cur}

\* Every step of a request may change what is true of the others' accounts.
Observe(r, failure) ==
  /\ seen' = [q \in Slots |->
       IF req'[q] = None THEN {}
       ELSE seen[q] \cup UNION {Facts(req'[q], users'[a]) : a \in Account(q)'}]
  /\ failed' = [failed EXCEPT ![r] = pc'[r] # "idle" /\ (@ \/ failure)]

ObsInit ==
  /\ Init
  /\ seen = [r \in Slots |-> {}]
  /\ failed = [r \in Slots |-> FALSE]

ObsNext ==
  \E r \in Slots : \/ (Arrive(r) \/ Work(r)) /\ Observe(r, FALSE)
                   \/ DbError(r) /\ Observe(r, TRUE)

ObsSpec == ObsInit /\ [][ObsNext]_obsvars
FairObsSpec == ObsSpec /\ \A r \in Slots : WF_vars(Serve(r))

-----------------------------------------------------------------------------
\* Properties.

\* The account has been a deleted one while the request was under way.
DeletedMeanwhile(r) == "deleted" \in seen[r]

Success(r) == code[r] \in {200, 201}
AnswerTrue(r) ==
  /\ Success(r) => (wrote[r] \/ DeletedMeanwhile(r)) /\ (logged[r] \/ failed[r])
  /\ ~Success(r) => (wrote[r] => DeletedMeanwhile(r) \/ failed[r]) /\ ~logged[r]

\* The answer tells what happened to the table and to the audit log: a request
\* that is answered with success has made its change and its audit row, one
\* that is answered with an error has made neither.  It is wrong about the
\* change only when the account was deleted meanwhile (the UPDATE then matches
\* no row, or what it changed cannot be read back) or the reading back failed,
\* and about the audit row only when storing that failed.
ReplyTellsTruth == \A r \in Slots : pc[r] = "reply" => AnswerTrue(r)

\* "MANAGER can only update their subordinates": whom a manager's request
\* changes has been the manager's at some time since the request arrived, however
\* administrators move users between managers at the same time.
ManagerScope ==
  [][\A r \in Slots :
       (/\ pc[r] = "write" /\ wrote'[r]
        /\ req[r].op = "update" /\ req[r].role = "MANAGER")
          => "subordinate" \in seen[r]]_obsvars

\* Nobody changes a password without one that was right: the current password
\* that was sent was the account's at some time since the request arrived,
\* however others change and reset it at the same time.
ReplacesCurrentPassword ==
  [][\A r \in Slots :
       (pc[r] = "write" /\ wrote'[r] /\ req[r].op = "password")
          => "password" \in seen[r]]_obsvars
=============================================================================
