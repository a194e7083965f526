------------------------------ MODULE MCDoors ------------------------------
(***************************************************************************)
(* An instance of Doors: the process comes up, may fail and come up with   *)
(* another configuration, while one request is served, a token is about    *)
(* and an account changes.                                                 *)
(***************************************************************************)
EXTENDS Doors

CONSTANT Other     \* the account that no request is about

\* The file has no database type, a negative limit and no lifetime for tokens.
MCFiles == {Unreadable,
  [type |-> "", secret |-> "key", vpn_token |-> "shared", db_port |-> 0, token_expiry |-> 0,
   max_entries |-> -1, api |-> TRUE]}

\* PostgreSQL in the east, with another key and numbers that are not taken; PostgreSQL
\* in the west, with a switch for the API that cannot be read; MySQL in the east.
Plain == [s \in Settings \cup {"zone"} |-> IF s = "zone" THEN 0 ELSE Unset]
MCEnvironments == {Plain,
  [Plain EXCEPT !.secret = "other", !.vpn_token = "", !.max_entries = 0,
                !.token_expiry = Unparsable, !.zone = 1],
  [Plain EXCEPT !.api = Unparsable, !.zone = -1],
  [Plain EXCEPT !.type = "mysql", !.zone = 1]}

Someone == [reserves |-> {}, pass |-> "p", role |-> "USER", active |-> TRUE,
            from |-> None, to |-> None, deleted |-> FALSE]
MCSeed == [Someone EXCEPT !.reserves = {"name", "mail"}, !.role = "ADMIN"]

\* From a day on, or up to one; the seed has neither.
MCPeriods == {<<1, None>>, <<None, 1>>}

\* Nobody yet, an administrator that was deleted, or another account that has the
\* administrator's mail.
MCAccounts ==
  {[k \in Users |-> None],
   [k \in Users |-> IF k = Other THEN None ELSE [MCSeed EXCEPT !.deleted = TRUE]],
   [k \in Users |-> IF k = Other THEN [Someone EXCEPT !.reserves = {"mail"}] ELSE None]}

\* Requests are about one of the two accounts, a bound.
Asked == \A r \in Slots : req'[r] # None => req'[r].user # Other
=============================================================================
