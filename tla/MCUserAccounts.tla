--------------------------- MODULE MCUserAccounts ---------------------------
(***************************************************************************)
(* Instances of UserAccounts for TLC: an administrator root, a manager mia *)
(* with the user uma, and an id that is free, with the requests of each    *)
(* run.  There are as many ids as usernames, so an insert that keeps the   *)
(* indexes always finds a free id.                                         *)
(***************************************************************************)
EXTENDS UserAccounts

CONSTANTS root, mia, uma, new,                  \* ids
          nRoot, nMia, nUma, nNew,              \* usernames
          eRoot, eMia, eUma, eNew,              \* emails
          p1, p2                                \* passwords

MCIds == {root, mia, uma, new}
MCNames == {nRoot, nMia, nUma, nNew}
MCMails == {eRoot, eMia, eUma, eNew}
MCPwds == {p1, p2}

\* An address has a second spelling, ten higher.
MCAddressOf(t) == t % 10

User(name, mail, role, manager, ip) ==
  [name |-> name, mail |-> mail, pwd |-> p1, role |-> role, manager |-> manager,
   active |-> TRUE, ip |-> ip, deleted |-> FALSE]
MCUsers0 ==
  [id \in MCIds |->
     CASE id = root -> User(nRoot, eRoot, "ADMIN", None, None)
       [] id = mia -> User(nMia, eMia, "MANAGER", None, None)
       [] id = uma -> User(nUma, eUma, "USER", mia, 1)
       [] OTHER -> None]

\* A request with an empty body; the runs fill in the fields that are sent.
Body(op, by, role, id) ==
  [op |-> op, by |-> by, role |-> role, id |-> id, name |-> Keep, mail |-> Keep,
   pwd |-> Keep, cur |-> Keep, rank |-> Keep, manager |-> Keep,
   active |-> Keep, ip |-> Keep]
Create(by, role, name, mail, rank, ip) ==
  [Body("create", by, role, None) EXCEPT
     !.name = name, !.mail = mail, !.pwd = p2, !.rank = rank, !.manager = None,
     !.ip = ip]
Update(by, role, id) == Body("update", by, role, id)
Password(by) == [Body("password", by, "USER", None) EXCEPT !.cur = p1, !.pwd = p2]
Reset(by, id) == [Body("reset", by, "ADMIN", id) EXCEPT !.pwd = p2]
Delete(by, id) == Body("delete", by, "ADMIN", id)

\* Two requests at a time: enough for every step of one to fall between any
\* two steps of the other.
RacingInputs ==
  { Create(mia, "MANAGER", nNew, eNew, "USER", None),
    Create(root, "ADMIN", nUma, eUma, "ADMIN", 3),
    [Update(mia, "MANAGER", uma) EXCEPT !.rank = "ADMIN"],
    [Update(mia, "MANAGER", uma) EXCEPT !.mail = eNew],
    [Update(root, "ADMIN", uma) EXCEPT !.manager = root],
    Delete(root, uma),
    Password(uma),
    Reset(root, uma) }

\* One request at a time, in every order: all the handlers with the fields
\* that meet each of their checks.
SerialInputs ==
  { Create(mia, "MANAGER", nNew, eNew, "USER", None),
    Create(mia, "MANAGER", nNew, eUma, "USER", 2),
    Create(mia, "MANAGER", nUma, eUma, "ADMIN", None),
    Create(root, "ADMIN", nUma, eNew, "USER", 1),
    [Create(root, "ADMIN", nUma, eUma, "ADMIN", 0) EXCEPT !.active = FALSE],
    Create(root, "ADMIN", nNew, eNew, "USER", 7),
    [Update(mia, "MANAGER", uma) EXCEPT !.ip = 12],
    [Update(mia, "MANAGER", new) EXCEPT !.mail = eUma],
    [Update(root, "ADMIN", new) EXCEPT !.ip = 1, !.manager = mia],
    [Update(root, "ADMIN", uma) EXCEPT !.rank = "MANAGER", !.active = FALSE],
    [Update(root, "ADMIN", uma) EXCEPT !.manager = root, !.ip = None],
    Update(uma, "USER", new),
    [Body("profile", uma, "USER", None) EXCEPT !.mail = eNew],
    Password(uma),
    [Password(uma) EXCEPT !.cur = p2],
    Reset(root, uma),
    Reset(mia, new),
    Delete(root, uma),
    Delete(root, new),
    Delete(root, mia) }

\* Two creates: of accounts with nothing in common, and of the same account.
CreatingInputs ==
  { Create(mia, "MANAGER", nNew, eNew, "USER", None),
    Create(root, "ADMIN", nUma, eUma, "USER", None),
    Delete(root, uma) }
=============================================================================
