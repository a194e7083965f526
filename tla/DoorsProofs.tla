----------------------------- MODULE DoorsProofs -----------------------------
(***************************************************************************)
(* Proofs about Doors and Bootstrap: for any configuration, any number of  *)
(* accounts, tokens and requests, any length of a day and any time zone,   *)
(* with failing statements, crashes and restarts.                          *)
(***************************************************************************)
EXTENDS Doors, TLAPS

-----------------------------------------------------------------------------
(***************************************************************************)
(* Start-up.                                                               *)
(***************************************************************************)
Typed(c) == DOMAIN c = Settings /\ \A s \in Settings : c[s] \in ValuesOf(s)

LEMMA SettingsValues ==
  /\ Settings = {"type", "secret", "vpn_token", "db_port", "token_expiry", "max_entries", "api"}
  /\ ValuesOf("type") = Strings /\ ValuesOf("secret") = Strings /\ ValuesOf("vpn_token") = Strings
  /\ ValuesOf("db_port") = Int /\ ValuesOf("token_expiry") = Int
  /\ ValuesOf("max_entries") = Int /\ ValuesOf("api") = BOOLEAN
BY DEF Settings, Texts, Numbers, ValuesOf

\* The configuration of a file that is not there has its types.
LEMMA ZeroTyped == \A s \in Settings : Zero[s] \in ValuesOf(s)
<1>1. /\ Zero["type"] = "" /\ Zero["secret"] = "" /\ Zero["vpn_token"] = ""
      /\ Zero["db_port"] = 0 /\ Zero["token_expiry"] = 0 /\ Zero["max_entries"] = 0
      /\ Zero["api"] = FALSE
  BY SettingsValues DEF Zero, Texts
<1>2. "" \in Strings
  BY StringsAssumption
<1>3. Zero["api"] \in ValuesOf("api")
  <2>1. FALSE \in BOOLEAN
    OBVIOUS
  <2> QED
    BY <1>1, <2>1, SettingsValues
<1>4. 0 \in Int
  OBVIOUS
<1>5. ASSUME NEW s \in Settings, s # "api" PROVE Zero[s] \in ValuesOf(s)
  <2>1. CASE s \in {"type", "secret", "vpn_token"}
    BY <1>1, <1>2, <2>1, SettingsValues
  <2>2. CASE s \in {"db_port", "token_expiry", "max_entries"}
    BY <1>1, <1>4, <2>2, SettingsValues, Zenon
  <2> QED
    BY <1>5, <2>1, <2>2, SettingsValues
<1>6. \A s \in Settings : Zero[s] \in ValuesOf(s)
  BY <1>3, <1>5
<1> QED
  BY <1>1, <1>6

\* Whatever file and environment hold, the configuration has its types and a positive
\* limit of the audit log.
LEMMA LoadedConfig ==
  ASSUME NEW f \in Files \ {Unreadable}, NEW e \in Environments
  PROVE  LET c == WithDefaults(LoadEnvOverrides(FromFile(f), e)) IN
           Typed(c) /\ c.max_entries > 0
<1> DEFINE b == LoadEnvOverrides(FromFile(f), e)
           c == WithDefaults(b)
<1>1. \A s \in Settings : FromFile(f)[s] \in ValuesOf(s)
  <2>1. CASE f = Absent
    BY <2>1, ZeroTyped DEF FromFile
  <2>2. CASE f # Absent
    BY <2>2, InputAssumption DEF FromFile
  <2> QED
    BY <2>1, <2>2
<1>3. DOMAIN b = Settings /\ \A s \in Settings : b[s] \in ValuesOf(s)
  <2>1. \A s \in Settings : b[s] = IF ~Overrides(s, e[s]) THEN FromFile(f)[s]
                                  ELSE IF e[s] = Unparsable THEN FALSE ELSE e[s]
    BY DEF LoadEnvOverrides
  <2>2. ASSUME NEW s \in Settings, Overrides(s, e[s])
        PROVE  IF e[s] = Unparsable THEN FALSE \in ValuesOf(s) ELSE e[s] \in ValuesOf(s)
    <3>1. CASE e[s] = Unparsable
      <4>1. ValuesOf(s) = BOOLEAN
        BY <2>2, <3>1, SettingsValues DEF Overrides
      <4> QED
        BY <3>1, <4>1
    <3>2. CASE e[s] # Unparsable
      BY <2>2, <3>2, InputAssumption DEF Overrides
    <3> QED
      BY <3>1, <3>2
  <2>3. DOMAIN b = Settings
    BY DEF LoadEnvOverrides
  <2> HIDE DEF b
  <2> QED
    BY <1>1, <2>1, <2>2, <2>3
<1> HIDE DEF b
<1>4. /\ b.type \in Strings /\ b.db_port \in Int /\ b.token_expiry \in Int /\ b.max_entries \in Int
  BY <1>3, SettingsValues
<1>5. DatabaseType(b) \in Strings
  BY <1>4, StringsAssumption DEF DatabaseType
<1>6. /\ DOMAIN c = Settings
      /\ \A s \in Settings : s \in {"type", "db_port", "token_expiry", "max_entries"} \/ c[s] = b[s]
      /\ c.type = DatabaseType(b)
      /\ c.db_port \in {b.db_port, 3306, 5432}
      /\ c.token_expiry = IF b.token_expiry = 0 THEN DefaultExpiry ELSE b.token_expiry
      /\ c.max_entries = IF b.max_entries <= 0 THEN DefaultLimit ELSE b.max_entries
  BY <1>3, SettingsValues DEF WithDefaults
<1> HIDE DEF c
<1>7. /\ c.type \in Strings /\ c.db_port \in Int /\ c.token_expiry \in Int
      /\ c.max_entries \in Int /\ c.max_entries > 0
  <2>1. DefaultExpiry \in Int /\ DefaultLimit \in Int /\ DefaultLimit > 0
    BY DefaultsAssumption
  <2> QED
    BY <1>4, <1>5, <1>6, <2>1
<1>8. \A s \in Settings : c[s] \in ValuesOf(s)
  BY <1>3, <1>6, <1>7, SettingsValues
<1> QED
  BY <1>3, <1>6, <1>7, <1>8 DEF Typed, b, c

\* What start-up has done when it has come so far: UpMeansReady is about the ends,
\* this about every phase on the way.
Ready ==
  /\ phase \in Phases /\ tables \subseteq Tables /\ faults \in Nat /\ missed \in BOOLEAN
  /\ Typed(config) /\ zone \in Zones
  /\ phase \in {"configured", "connected", "migrated", "limited", "seeding", "seeded", "up"} =>
       config.max_entries > 0
  /\ phase \in {"migrated", "limited", "seeding", "seeded", "up"} => tables = Tables
  /\ phase \in {"limited", "seeding", "seeded", "up"} => limit = config.max_entries
  /\ phase = "up" => kept = config.max_entries
  /\ phase = "seeded" /\ ~missed => Reserved # {}

Apart == \A j, k \in Users :
           j # k /\ Row(j) /\ Row(k) => accounts[j].reserves \cap accounts[k].reserves = {}

BootInv == Ready /\ Apart /\ accounts \in [Users -> Account \cup {None}]

LEMMA BootInitial == BootInit => BootInv
<1> SUFFICES ASSUME BootInit PROVE BootInv
  OBVIOUS
<1>1. Typed(config)
  <2>1. config = Zero
    BY DEF BootInit
  <2>2. DOMAIN Zero = Settings
    BY DEF Zero
  <2> QED
    BY <2>1, <2>2, ZeroTyped DEF Typed
<1>2. zone \in Zones
  BY ClockAssumption DEF BootInit, Zones
<1>3. accounts \in [Users -> Account \cup {None}] /\ Apart
  BY AccountsAssumption DEF BootInit, Apart, Row
<1> QED
  BY <1>1, <1>2, <1>3 DEF BootInit, BootInv, Ready, Phases

\* The seed is stored only where no row is, and only when its name and mail are free.
LEMMA InsertAdminStep ==
  ASSUME BootInv, InsertAdmin
  PROVE  /\ Reserved' # {} /\ Apart' /\ accounts' \in [Users -> Account \cup {None}]
         /\ \A k \in Users : Row(k) => accounts'[k] = accounts[k]
<1>1. CASE Reserved # {} /\ UNCHANGED accounts
  BY <1>1 DEF Reserved, Row, Apart, BootInv
<1>2. CASE /\ Reserved = {}
           /\ \E k \in Users : ~Row(k) /\ accounts' = [accounts EXCEPT ![k] = Seed]
  <2>1. PICK k \in Users : ~Row(k) /\ accounts' = [accounts EXCEPT ![k] = Seed]
    BY <1>2
  <2>2. /\ accounts'[k] = Seed /\ \A j \in Users \ {k} : accounts'[j] = accounts[j]
        /\ accounts' \in [Users -> Account \cup {None}]
    BY <2>1, AccountsAssumption DEF BootInv
  <2>3. Seed.reserves = {"name", "mail"} /\ Seed # None
    BY AccountsAssumption, MarkAssumption
  <2>4. "name" \in Reserved'
    BY <2>2, <2>3 DEF Reserved, Row
  <2>5. \A j \in Users : Row(j) => accounts[j].reserves = {}
    BY <1>2 DEF Reserved
  <2>6. Apart'
    BY <2>2, <2>5 DEF Apart, Row
  <2>7. \A j \in Users : Row(j) => accounts'[j] = accounts[j]
    BY <2>1, <2>2
  <2> QED
    BY <2>2, <2>4, <2>6, <2>7
<1> QED
  BY <1>1, <1>2 DEF InsertAdmin

LEMMA BootSteps ==
  ASSUME BootInv, BootNext
  PROVE  /\ BootInv' /\ phase # "up"
         /\ \A k \in Users : Row(k) => accounts'[k] = accounts[k]
<1> USE DEF BootInv
<1>1. CASE Load
  <2>1. PICK f \in Files, e \in Environments :
          /\ zone' = e.zone
          /\ IF f = Unreadable THEN phase' = "misconfigured" /\ UNCHANGED config
             ELSE phase' = "configured" /\ config' = WithDefaults(LoadEnvOverrides(FromFile(f), e))
    BY <1>1 DEF Load
  <2>0. zone' \in Zones
    BY <2>1, ZoneAssumption
  <2>2. CASE f = Unreadable
    BY <1>1, <2>0, <2>1, <2>2 DEF Load, Ready, Phases, Apart, Row, Typed
  <2>3. CASE f # Unreadable
    <3>1. Typed(config)' /\ config'.max_entries > 0
      BY <2>1, <2>3, LoadedConfig DEF Typed
    <3> QED
      BY <1>1, <2>0, <2>1, <2>3, <3>1 DEF Load, Ready, Phases, Apart, Row
  <2> QED
    BY <2>2, <2>3
<1>2. CASE Connect \/ MigrateNext \/ SetAuditLogMaxEntries \/ Run \/ Exit \/ Restart
  <2>1. UNCHANGED <<config, zone, accounts, missed>> /\ phase # "up" /\ phase' # "seeded"
        /\ phase' \in Phases /\ tables' \subseteq Tables /\ faults' \in Nat
    BY <1>2 DEF Connect, MigrateNext, SetAuditLogMaxEntries, Run, Exit, Restart, Ready, Phases
  <2>2. /\ phase' \in {"configured", "connected", "migrated", "limited", "seeding", "seeded", "up"} =>
             config.max_entries > 0
        /\ phase' \in {"migrated", "limited", "seeding", "seeded", "up"} => tables' = Tables
        /\ phase' \in {"limited", "seeding", "seeded", "up"} => limit' = config.max_entries
        /\ phase' = "up" => kept' = config.max_entries
    BY <1>2 DEF Connect, MigrateNext, SetAuditLogMaxEntries, Run, Exit, Restart, Ready
  <2> QED
    BY <2>1, <2>2 DEF Ready, Typed, Apart, Row
<1>3. CASE FindAdmin \/ SeedError
  <2>1. /\ UNCHANGED <<config, zone, limit, kept, tables, accounts>> /\ missed' \in BOOLEAN
        /\ phase \in {"limited", "seeding"} /\ phase' \in {"seeding", "seeded"} /\ faults' \in Nat
    <3>1. CASE FindAdmin
      BY <3>1 DEF FindAdmin, Ready
    <3>2. CASE SeedError
      BY <3>2 DEF SeedError, Ready
    <3> QED
      BY <1>3, <3>1, <3>2
  <2>2. phase' = "seeded" /\ ~missed' => Reserved # {}
    <3>1. CASE FindAdmin
      BY <3>1 DEF FindAdmin, Reserved, Live
    <3>2. CASE SeedError
      BY <3>2 DEF SeedError
    <3> QED
      BY <1>3, <3>1, <3>2
  <2>3. Reserved' = Reserved
    BY <2>1 DEF Reserved, Row
  <2> QED
    BY <2>1, <2>2, <2>3 DEF Ready, Phases, Typed, Apart, Row
<1>4. CASE InsertAdmin
  <2>1. UNCHANGED <<config, zone, limit, kept, tables, faults, missed>> /\ phase = "seeding" /\ phase' = "seeded"
    BY <1>4 DEF InsertAdmin
  <2> QED
    BY <1>4, <2>1, InsertAdminStep DEF Ready, Phases, Typed
<1> QED
  BY <1>1, <1>2, <1>3, <1>4 DEF BootNext, Start

-----------------------------------------------------------------------------
(***************************************************************************)
(* Accounts change while the application is up: the indexes hold.          *)
(***************************************************************************)
LEMMA ChangedStep ==
  ASSUME BootInv, NEW k \in Users, NEW a \in Account, Changed(k, a), Row(k),
         \A j \in Users \ {k} : Row(j) => accounts[j].reserves \cap a.reserves = {}
  PROVE  BootInv' /\ phase = "up"
<1> USE DEF BootInv
<1>1. /\ phase = "up" /\ accounts' = [accounts EXCEPT ![k] = a]
      /\ UNCHANGED <<process, tables, faults, missed>>
  BY DEF Changed
<1>2. /\ accounts'[k] = a /\ \A j \in Users \ {k} : accounts'[j] = accounts[j]
      /\ accounts' \in [Users -> Account \cup {None}]
  BY <1>1
<1>3. Apart'
  BY <1>2 DEF Apart, Row
<1> QED
  BY <1>1, <1>2, <1>3 DEF Ready, process, Typed

LEMMA WrittenStep ==
  ASSUME BootInv, NEW k \in Users, NEW names \in SUBSET {"name", "mail"}, Written(k, names), Row(k)
  PROVE  BootInv' /\ phase = "up"
<1>1. PICK p \in Passwords, ro \in Roles, b \in BOOLEAN, w \in Periods :
        Changed(k, [reserves |-> names, pass |-> p, role |-> ro, active |-> b,
                    from |-> w[1], to |-> w[2], deleted |-> FALSE])
  BY DEF Written
<1> DEFINE a == [reserves |-> names, pass |-> p, role |-> ro, active |-> b,
                 from |-> w[1], to |-> w[2], deleted |-> FALSE]
<1>2. w \in (Days \cup {None}) \X (Days \cup {None})
  BY ClockAssumption
<1>3. a \in Account /\ a.reserves = names
  BY <1>2 DEF Account
<1>4. \A j \in Users \ {k} : Row(j) => accounts[j].reserves \cap names = {}
  BY DEF Written
<1> HIDE DEF a
<1>5. Changed(k, a)
  BY <1>1 DEF a
<1> QED
  BY <1>3, <1>4, <1>5, ChangedStep

LEMMA AccountSteps ==
  ASSUME BootInv, NEW k \in Users, Update(k) \/ Delete(k) \/ RestoreAccount(k)
  PROVE  BootInv' /\ phase = "up"
<1>0. ASSUME Row(k) PROVE accounts[k] \in Account
  BY <1>0 DEF Row, BootInv
<1>1. CASE Update(k)
  <2>1. Row(k) /\ accounts[k] \in Account
    BY <1>0, <1>1 DEF Update, Live
  <2>2. PICK mail \in SUBSET {"mail"} : Written(k, (accounts[k].reserves \cap {"name"}) \cup mail)
    BY <1>1 DEF Update
  <2>3. (accounts[k].reserves \cap {"name"}) \cup mail \in SUBSET {"name", "mail"}
    BY <2>1 DEF Account
  <2> QED
    BY <2>1, <2>2, <2>3, WrittenStep
<1>2. CASE Delete(k)
  <2>1. Row(k) /\ accounts[k] \in Account /\ Changed(k, [accounts[k] EXCEPT !.deleted = TRUE])
    BY <1>0, <1>2 DEF Delete, Live
  <2>2. /\ [accounts[k] EXCEPT !.deleted = TRUE] \in Account
        /\ [accounts[k] EXCEPT !.deleted = TRUE].reserves = accounts[k].reserves
    BY <2>1 DEF Account
  <2>3. \A j \in Users \ {k} : Row(j) => accounts[j].reserves \cap accounts[k].reserves = {}
    BY <2>1 DEF BootInv, Apart
  <2> QED
    BY <2>1, <2>2, <2>3, ChangedStep
<1>3. CASE RestoreAccount(k)
  BY <1>3, WrittenStep DEF RestoreAccount
<1> QED
  BY <1>1, <1>2, <1>3

-----------------------------------------------------------------------------
(***************************************************************************)
(* Requests.  TypeOK is not inductive: what Issue puts into a token and    *)
(* what the observers note rests on which request can be at which step,    *)
(* and on requests being served only while the application is up.          *)
(***************************************************************************)
Typing ==
  /\ now \in Moments /\ changes \in Nat
  /\ tokens \in [Tokens -> Token \cup {None}]
  /\ pc \in [Slots -> Steps]
  /\ req \in [Slots -> Request \cup {None}]
  /\ row \in [Slots -> Account \cup {None}]
  /\ code \in [Slots -> Codes]

Placed ==
  \A r \in Slots :
    /\ pc[r] # "idle" => req[r] \in Request /\ phase = "up"
    /\ pc[r] \in {"read", "check"} => req[r].op \in {"login", "authenticate"}
    /\ pc[r] \in {"explain", "issue"} => req[r].op = "login"
    /\ pc[r] \in {"check", "explain", "issue"} => row[r] \in Account

Observed ==
  /\ seen \in [Slots -> SUBSET (Account \cup {None})]
  /\ since \in [Slots -> Moments]
  /\ \A r \in Slots : since[r] <= now

StepInv == BootInv /\ Typing /\ Placed
TypeInv == StepInv /\ Observed

\* A step of one request, which leaves the others as they are.
LEMMA OneRequest ==
  ASSUME StepInv, NEW r \in Slots, NEW step \in Steps, NEW c \in Codes,
         NEW i \in Request \cup {None}, NEW a \in Account \cup {None},
         pc' = [pc EXCEPT ![r] = step], code' = [code EXCEPT ![r] = c],
         req' = [req EXCEPT ![r] = i], row' = [row EXCEPT ![r] = a],
         UNCHANGED <<now, changes>>, tokens' \in [Tokens -> Token \cup {None}],
         phase' = phase,
         step # "idle" => i \in Request /\ phase = "up",
         step \in {"read", "check"} => i.op \in {"login", "authenticate"},
         step \in {"explain", "issue"} => i.op = "login",
         step \in {"check", "explain", "issue"} => a \in Account
  PROVE  Typing' /\ Placed'
<1>1. Typing'
  BY DEF StepInv, Typing
<1>2. Placed'
  <2> SUFFICES ASSUME NEW q \in Slots
               PROVE  /\ pc'[q] # "idle" => req'[q] \in Request /\ phase' = "up"
                      /\ pc'[q] \in {"read", "check"} => req'[q].op \in {"login", "authenticate"}
                      /\ pc'[q] \in {"explain", "issue"} => req'[q].op = "login"
                      /\ pc'[q] \in {"check", "explain", "issue"} => row'[q] \in Account
    BY DEF Placed
  <2>1. CASE q = r
    BY <2>1 DEF StepInv, Typing
  <2>2. CASE q # r
    BY <2>2 DEF StepInv, Typing, Placed
  <2> QED
    BY <2>1, <2>2
<1> QED
  BY <1>1, <1>2

LEMMA StillBoot ==
  ASSUME BootInv, UNCHANGED <<process, tables, accounts, missed>>, faults' \in Nat
  PROVE  BootInv'
BY DEF BootInv, Ready, Apart, process, Typed, Row, Reserved

LEMMA AskStep ==
  ASSUME StepInv, NEW r \in Slots, NEW o \in Ops, NEW k \in Users, NEW p \in Passwords \cup {None},
         NEW ro \in Roles \cup {None}, Ask(r, o, k, p, ro), Still,
         NEW step \in {"read", "me", "reply"}, NEW c \in Codes,
         pc' = [pc EXCEPT ![r] = step], code' = [code EXCEPT ![r] = c],
         step = "read" => o \in {"login", "authenticate"}
  PROVE  StepInv'
<1> DEFINE i == [op |-> o, user |-> k, pass |-> p, role |-> ro]
<1>1. i \in Request /\ i.op = o
  BY DEF Request
<1>2. req' = [req EXCEPT ![r] = i] /\ phase = "up" /\ row' = row
  BY DEF Ask
<1>3. row' = [row EXCEPT ![r] = row[r]] /\ row[r] \in Account \cup {None}
  BY <1>2 DEF StepInv, Typing
<1>4. UNCHANGED <<bootVars, now, tokens, changes>>
  BY DEF Still
<1>5. tokens' \in [Tokens -> Token \cup {None}] /\ phase' = phase
  BY <1>4 DEF StepInv, Typing, bootVars, process
<1> HIDE DEF i
<1>6. Typing' /\ Placed'
  BY <1>1, <1>2, <1>3, <1>4, <1>5, OneRequest DEF Steps
<1>7. BootInv'
  BY <1>4, StillBoot DEF StepInv, BootInv, Ready, bootVars
<1> QED
  BY <1>6, <1>7 DEF StepInv

\* A request that is answered as it arrives.
LEMMA AnswerStep ==
  ASSUME StepInv, NEW r \in Slots, NEW o \in Ops, NEW k \in Users, NEW ro \in Roles \cup {None},
         Ask(r, o, k, None, ro), Still, NEW c \in Codes, Reply(r, c)
  PROVE  StepInv'
<1>1. pc' = [pc EXCEPT ![r] = "reply"] /\ code' = [code EXCEPT ![r] = c]
  BY DEF Reply
<1>2. None \in Passwords \cup {None}
  OBVIOUS
<1> QED
  BY <1>1, <1>2, AskStep, Zenon

\* A request that goes on to a statement.
LEMMA GoStep ==
  ASSUME StepInv, NEW r \in Slots, NEW o \in Ops, NEW k \in Users, NEW p \in Passwords \cup {None},
         NEW ro \in Roles \cup {None}, Ask(r, o, k, p, ro), Still,
         NEW step \in {"read", "me"}, Goto(r, step),
         step = "read" => o \in {"login", "authenticate"}
  PROVE  StepInv'
<1>1. code[r] \in Codes /\ code' = [code EXCEPT ![r] = code[r]]
  BY DEF StepInv, Typing, Goto
<1>2. pc' = [pc EXCEPT ![r] = step] /\ step \in {"read", "me", "reply"}
  BY DEF Goto
<1> QED
  BY <1>1, <1>2, AskStep, Zenon

LEMMA ArriveStep ==
  ASSUME StepInv, NEW r \in Slots, Arrive(r)
  PROVE  StepInv'
<1>0. None \in Roles \cup {None} /\ Roles \subseteq Roles \cup {None}
      /\ None \in Passwords \cup {None} /\ {200, 401, 403} \subseteq Codes
  BY DEF Codes
<1>1. ASSUME NEW o \in {"login", "authenticate"}, NEW k \in Users, NEW p \in Passwords \cup {None},
             Enter(r, o, k, p)
      PROVE  StepInv'
  <2>1. Ask(r, o, k, p, None) /\ Still /\ o \in Ops /\ Goto(r, "read")
    BY <1>1 DEF Enter, Ops
  <2>2. "read" \in {"read", "me"}
    OBVIOUS
  <2> QED
    BY <1>0, <2>1, <2>2, GoStep, Zenon
<1>2. ASSUME NEW o \in {"me", "admin", "page", "logout"}, NEW h \in Tokens \cup {None}, Unauthorized(r, o, h)
      PROVE  StepInv'
  <2>1. PICK k \in Users : Ask(r, o, k, None, None)
    BY <1>2 DEF Unauthorized
  <2>2. Still /\ o \in Ops
    BY <1>2 DEF Unauthorized, Ops
  <2>3. PICK c \in Codes : Reply(r, c)
    BY <1>0, <1>2 DEF Unauthorized
  <2> QED
    BY <1>0, <2>1, <2>2, <2>3, AnswerStep, Zenon
<1>3. ASSUME NEW o \in {"me", "admin", "page", "logout"}, NEW h \in Tokens \cup {None}, Guarded(r, o, h)
      PROVE  StepInv'
  <2>1. h \in Tokens /\ tokens[h] \in Token /\ Ask(r, o, tokens[h].user, None, tokens[h].role)
        /\ Still /\ o \in Ops
    BY <1>3 DEF Guarded, Valid, StepInv, Typing, Ops
  <2>2. tokens[h].user \in Users /\ tokens[h].role \in Roles \cup {None}
    BY <2>1 DEF Token
  <2>3. \/ Goto(r, "me") \/ Reply(r, 200) \/ Reply(r, 403)
    BY <1>3 DEF Guarded, RequireAdmin, AdminPage
  <2>4. CASE Goto(r, "me")
    <3>1. "me" \in {"read", "me"} /\ "me" # "read"
      OBVIOUS
    <3>2. PICK k \in Users, ro \in Roles \cup {None} : Ask(r, o, k, None, ro)
      BY <2>1, <2>2
    <3>3. o \in Ops /\ Still
      BY <2>1
    <3> QED
      BY <1>0, <2>4, <3>1, <3>2, <3>3, GoStep, Zenon
  <2>5. CASE Reply(r, 200) \/ Reply(r, 403)
    <3>1. PICK c \in Codes : Reply(r, c)
      BY <1>0, <2>5
    <3> QED
      BY <2>1, <2>2, <3>1, AnswerStep, Zenon
  <2> QED
    BY <2>3, <2>4, <2>5
<1>4. ASSUME NEW k \in Users, Lookup(r, k) PROVE StepInv'
  <2>1. Ask(r, "lookup", k, None, None) /\ Still /\ "lookup" \in Ops /\ Goto(r, "me")
    BY <1>4 DEF Lookup, Ops
  <2>2. "me" \in {"read", "me"} /\ "me" # "read"
    OBVIOUS
  <2> QED
    BY <1>0, <2>1, <2>2, GoStep, Zenon
<1> QED
  BY <1>1, <1>2, <1>3, <1>4 DEF Arrive

\* A step that keeps what is asked and the account.
LEMMA SameRequest ==
  ASSUME StepInv, NEW r \in Slots, NEW step \in Steps \ {"idle", "read", "check"}, NEW c \in Codes,
         pc' = [pc EXCEPT ![r] = step], code' = [code EXCEPT ![r] = c], UNCHANGED <<req, row>>,
         UNCHANGED <<now, changes>>, tokens' \in [Tokens -> Token \cup {None}],
         phase' = phase, phase = "up", req[r] \in Request,
         step \in {"explain", "issue"} => req[r].op = "login" /\ row[r] \in Account
  PROVE  Typing' /\ Placed'
<1> DEFINE i == req[r]
           a == row[r]
<1>1. /\ i \in Request /\ i \in Request \cup {None} /\ a \in Account \cup {None}
      /\ req' = [req EXCEPT ![r] = i] /\ row' = [row EXCEPT ![r] = a]
  BY DEF StepInv, Typing
<1>2. /\ step \in Steps /\ step \notin {"read", "check"}
      /\ step \in {"explain", "issue"} => i.op = "login"
      /\ step \in {"check", "explain", "issue"} => a \in Account
  OBVIOUS
<1> HIDE DEF i, a
<1> QED
  BY <1>1, <1>2, OneRequest

LEMMA ServeStep ==
  ASSUME StepInv, NEW r \in Slots, Serve(r) \/ ReadError(r)
  PROVE  StepInv'
<1>0. /\ pc[r] \in Steps /\ code[r] \in Codes /\ req[r] \in Request \cup {None}
      /\ row[r] \in Account \cup {None}
      /\ req' = req => req' = [req EXCEPT ![r] = req[r]]
      /\ row' = row => row' = [row EXCEPT ![r] = row[r]]
      /\ code' = code => code' = [code EXCEPT ![r] = code[r]]
  BY DEF StepInv, Typing
<1>1. ASSUME pc[r] # "idle" PROVE req[r] \in Request /\ phase = "up" /\ req[r].user \in Users
  BY <1>1 DEF StepInv, Placed, Request
<1>2. ASSUME UNCHANGED <<bootVars, now, changes>>, tokens' \in [Tokens -> Token \cup {None}],
             Typing' /\ Placed'
      PROVE  StepInv'
  BY <1>2, StillBoot DEF StepInv, BootInv, Ready, bootVars
<1>3. CASE Read(r)
  <2>1. req[r] \in Request /\ phase = "up" /\ req[r].op \in {"login", "authenticate"}
        /\ req' = [req EXCEPT ![r] = req[r]] /\ Still
    BY <1>0, <1>1, <1>3 DEF Read, StepInv, Placed
  <2>2. /\ UNCHANGED <<bootVars, now, changes>> /\ tokens' \in [Tokens -> Token \cup {None}]
        /\ phase' = phase
    BY <2>1 DEF Still, StepInv, Typing, bootVars, process
  <2>3. PICK step \in {"check", "reply"}, c \in Codes, a \in Account \cup {None} :
          /\ pc' = [pc EXCEPT ![r] = step] /\ code' = [code EXCEPT ![r] = c]
          /\ row' = [row EXCEPT ![r] = a] /\ (step = "check" => a \in Account)
    <3>1. CASE Live(req[r].user) /\ accounts[req[r].user].pass = req[r].pass
      <4>1. accounts[req[r].user] \in Account
        BY <1>1, <1>3, <3>1 DEF Read, Live, Row, StepInv, BootInv
      <4> QED
        BY <1>0, <1>3, <3>1, <4>1 DEF Read, Goto
    <3>2. CASE ~(Live(req[r].user) /\ accounts[req[r].user].pass = req[r].pass)
      BY <1>0, <1>3, <3>2 DEF Read, Reply, Codes
    <3> QED
      BY <3>1, <3>2
  <2>4. step \in Steps
    BY DEF Steps
  <2>5. Typing' /\ Placed'
    BY <2>1, <2>2, <2>3, <2>4, OneRequest
  <2> QED
    BY <1>2, <2>2, <2>5
<1>4. ASSUME pc[r] # "idle", UNCHANGED <<req, row>>,
             UNCHANGED <<bootVars, now, changes>>, tokens' \in [Tokens -> Token \cup {None}],
             NEW step \in Steps \ {"idle", "read", "check"}, NEW c \in Codes,
             pc' = [pc EXCEPT ![r] = step], code' = [code EXCEPT ![r] = c],
             step \in {"explain", "issue"} => req[r].op = "login" /\ row[r] \in Account
      PROVE  StepInv'
  <2>1. phase' = phase /\ phase = "up" /\ req[r] \in Request
    BY <1>1, <1>4 DEF bootVars, process
  <2>2. now' = now /\ changes' = changes /\ req' = req /\ row' = row
    BY <1>4
  <2>3. Typing' /\ Placed'
    BY <1>4, <2>1, <2>2, SameRequest
  <2> QED
    BY <1>2, <1>4, <2>3
<1>5. ASSUME Still
      PROVE  UNCHANGED <<bootVars, now, changes>> /\ tokens' \in [Tokens -> Token \cup {None}]
  BY <1>5 DEF Still, StepInv, Typing
<1>6. ASSUME pc[r] # "idle", UNCHANGED <<req, row>>,
             UNCHANGED <<bootVars, now, changes>>, tokens' \in [Tokens -> Token \cup {None}],
             NEW c \in Codes, Reply(r, c)
      PROVE  StepInv'
  BY <1>4, <1>6 DEF Reply, Steps
<1>7. {200, 401, 404} \subseteq Codes
  BY DEF Codes
<1>8. ASSUME pc[r] # "idle", UNCHANGED <<req, row>>, Still, NEW step \in {"explain", "issue"},
             Goto(r, step), req[r].op = "login", row[r] \in Account
      PROVE  StepInv'
  BY <1>0, <1>4, <1>5, <1>8 DEF Goto, Steps
<1>9. CASE Check(r)
  <2>1. pc[r] # "idle" /\ UNCHANGED <<req, row>> /\ Still /\ row[r] \in Account
        /\ req[r].op \in {"login", "authenticate"}
    BY <1>9 DEF Check, StepInv, Placed
  <2>2. CASE \E c \in {200, 401} : Reply(r, c)
    BY <1>5, <1>6, <1>7, <2>1, <2>2
  <2>3. CASE req[r].op = "login" /\ \E step \in {"explain", "issue"} : Goto(r, step)
    BY <1>8, <2>1, <2>3
  <2> QED
    BY <1>9, <2>1, <2>2, <2>3 DEF Check
<1>10. CASE Explain(r)
  <2>1. pc[r] # "idle" /\ UNCHANGED <<req, row>> /\ Still /\ row[r] \in Account
        /\ req[r].op = "login"
    BY <1>10 DEF Explain, StepInv, Placed
  <2>2. Reply(r, 401) \/ Goto(r, "issue")
    BY <1>10 DEF Explain
  <2> QED
    BY <1>5, <1>6, <1>7, <1>8, <2>1, <2>2
<1>11. CASE Issue(r)
  <2>1. /\ pc[r] # "idle" /\ UNCHANGED <<req, row>> /\ UNCHANGED <<bootVars, now, changes>>
        /\ Reply(r, 200) /\ row[r] \in Account
    BY <1>11 DEF Issue, StepInv, Placed
  <2>2. tokens' \in [Tokens -> Token \cup {None}]
    <3>1. PICK t \in Tokens : tokens' = IF config.token_expiry <= 0 THEN tokens ELSE
            [tokens EXCEPT ![t] =
               [user |-> req[r].user, role |-> row[r].role, life |-> config.token_expiry,
                secret |-> config.secret]]
      BY <1>11 DEF Issue
    <3>2. tokens \in [Tokens -> Token \cup {None}]
      BY DEF StepInv, Typing
    <3>3. CASE config.token_expiry <= 0
      BY <3>1, <3>2, <3>3
    <3>4. CASE ~(config.token_expiry <= 0)
      <4>1. config.token_expiry \in Int /\ config.secret \in Strings
        BY SettingsValues DEF StepInv, BootInv, Ready, Typed
      <4>2. config.token_expiry \in Nat \ {0} /\ req[r].user \in Users /\ row[r].role \in Roles
        BY <1>1, <2>1, <3>4, <4>1 DEF Account
      <4>3. [user |-> req[r].user, role |-> row[r].role, life |-> config.token_expiry,
             secret |-> config.secret] \in Token
        BY <4>1, <4>2 DEF Token
      <4> QED
        BY <3>1, <3>2, <3>4, <4>3
    <3> QED
      BY <3>3, <3>4
  <2> QED
    BY <1>6, <1>7, <2>1, <2>2
<1>12. CASE Me(r)
  <2>1. \E c \in {200, 404} : Reply(r, c)
    BY <1>12 DEF Me
  <2> QED
    BY <1>5, <1>6, <1>7, <1>12, <2>1 DEF Me
<1>13. CASE Finish(r)
  <2>1. /\ pc' = [pc EXCEPT ![r] = "idle"] /\ code' = [code EXCEPT ![r] = 0]
        /\ req' = [req EXCEPT ![r] = None] /\ row' = [row EXCEPT ![r] = None]
    BY <1>13 DEF Finish, Cleared, StepInv, Typing
  <2>2. Still /\ phase' = phase
    BY <1>13 DEF Finish, Still, bootVars, process
  <2>3. "idle" \in Steps /\ 0 \in Codes
    BY DEF Steps, Codes
  <2>4. Typing' /\ Placed'
    BY <1>5, <2>1, <2>2, <2>3, OneRequest
  <2> QED
    BY <1>2, <1>5, <2>2, <2>4
<1>14. CASE ReadError(r)
  <2>1. PICK c \in Codes : Reply(r, c)
    BY <1>7, <1>14 DEF ReadError
  <2>2. /\ pc[r] # "idle" /\ UNCHANGED <<process, tables, accounts, missed>>
        /\ UNCHANGED <<now, changes>> /\ UNCHANGED <<req, row>>
        /\ faults' \in Nat /\ tokens' \in [Tokens -> Token \cup {None}]
    BY <1>14 DEF ReadError, StepInv, Typing, BootInv, Ready
  <2>3. BootInv'
    BY <2>2, StillBoot DEF StepInv
  <2>4. phase = "up" /\ phase' = phase /\ req[r] \in Request
    BY <1>1, <2>2 DEF process
  <2>5. /\ pc' = [pc EXCEPT ![r] = "reply"] /\ code' = [code EXCEPT ![r] = c]
        /\ "reply" \in Steps \ {"idle", "read", "check"} /\ "reply" \notin {"explain", "issue"}
    BY <2>1 DEF Reply, Steps
  <2>6. Typing' /\ Placed'
    BY <2>2, <2>4, <2>5, SameRequest
  <2> QED
    BY <2>3, <2>6 DEF StepInv
<1> QED
  BY <1>3, <1>9, <1>10, <1>11, <1>12, <1>13, <1>14 DEF Serve

\* While the process starts there are no requests.
LEMMA BootingStep ==
  ASSUME StepInv, Booting
  PROVE  StepInv'
<1>1. BootInv' /\ phase # "up"
  BY BootSteps DEF Booting, StepInv
<1>2. \A r \in Slots : pc[r] = "idle"
  BY <1>1 DEF StepInv, Placed
<1>3. Typing' /\ Placed'
  BY <1>2 DEF Booting, requests, StepInv, Typing, Placed
<1> QED
  BY <1>1, <1>3 DEF StepInv

LEMMA AccountStep ==
  ASSUME StepInv, NEW k \in Users, Update(k) \/ Delete(k) \/ RestoreAccount(k)
  PROVE  StepInv'
<1>1. BootInv' /\ phase = "up"
  BY AccountSteps DEF StepInv
<1>2. changes' = changes + 1 /\ UNCHANGED <<process, now, tokens, requests>>
  BY DEF Update, Delete, RestoreAccount, Written, Changed
<1>3. Typing' /\ Placed'
  BY <1>2 DEF process, requests, StepInv, Typing, Placed
<1> QED
  BY <1>1, <1>3 DEF StepInv

LEMMA TickStep ==
  ASSUME StepInv, Tick
  PROVE  StepInv'
<1>1. now' \in Moments
  BY ClockAssumption DEF Tick, StepInv, Typing, Moments
<1>2. tokens' \in [Tokens -> Token \cup {None}]
  <2> SUFFICES ASSUME NEW t \in Tokens
               PROVE  (IF tokens[t] = None THEN None
                       ELSE IF tokens[t].life = 1 THEN None ELSE [tokens[t] EXCEPT !.life = @ - 1])
                        \in Token \cup {None}
    BY DEF Tick
  <2>1. tokens[t] \in Token \cup {None}
    BY DEF StepInv, Typing
  <2>2. ASSUME tokens[t] \in Token, tokens[t].life # 1
        PROVE  [tokens[t] EXCEPT !.life = @ - 1] \in Token
    BY <2>2 DEF Token
  <2> QED
    BY <2>1, <2>2
<1>3. UNCHANGED <<bootVars, changes>> /\ UNCHANGED <<pc, req, row, code>>
  BY DEF Tick, requests
<1>4. UNCHANGED <<process, tables, accounts, faults, missed>>
  BY <1>3 DEF bootVars
<1>5. BootInv'
  BY <1>4, StillBoot DEF StepInv, BootInv, Ready
<1>6. Typing' /\ Placed'
  BY <1>1, <1>2, <1>3, <1>4 DEF process, StepInv, Typing, Placed
<1> QED
  BY <1>5, <1>6 DEF StepInv

LEMMA CrashStep ==
  ASSUME StepInv, Crash
  PROVE  StepInv'
<1>1. BootInv'
  BY DEF Crash, StepInv, BootInv, Ready, Apart, Typed, Row, Phases
<1>2. /\ \A r \in Slots : pc'[r] = "idle" /\ req'[r] = None /\ row'[r] = None /\ code'[r] = 0
      /\ pc' = [r \in Slots |-> "idle"] /\ req' = [r \in Slots |-> None]
      /\ row' = [r \in Slots |-> None] /\ code' = [r \in Slots |-> 0]
  BY DEF Crash, Cleared
<1>3. "idle" \in Steps /\ 0 \in Codes
  BY DEF Steps, Codes
<1>4. Typing'
  <2>1. now' \in Moments /\ changes' \in Nat /\ tokens' \in [Tokens -> Token \cup {None}]
    BY DEF Crash, StepInv, Typing
  <2> QED
    BY <1>2, <1>3, <2>1 DEF Typing
<1>5. Placed'
  BY <1>2 DEF Placed
<1> QED
  BY <1>1, <1>4, <1>5 DEF StepInv

\* The clock never goes back.
LEMMA Onward == StepInv /\ Step => now' \in Moments /\ now <= now'
<1> SUFFICES ASSUME StepInv, Step PROVE now' \in Moments /\ now <= now'
  OBVIOUS
<1>1. now \in Moments /\ Moments \subseteq Nat
  BY DEF StepInv, Typing, Moments
<1>2. ASSUME now' = now PROVE now' \in Moments /\ now <= now'
  BY <1>1, <1>2
<1>3. CASE Tick
  BY <1>1, <1>3, ClockAssumption DEF Tick, Moments
<1>4. ASSUME NEW r \in Slots, Arrive(r) \/ Serve(r) \/ ReadError(r) PROVE now' = now
  BY <1>4 DEF Arrive, Enter, Lookup, Unauthorized, Guarded, Serve, Read, Check, Explain, Issue, Me, Finish,
              ReadError, Still
<1>5. ASSUME NEW k \in Users, Update(k) \/ Delete(k) \/ RestoreAccount(k) PROVE now' = now
  BY <1>5 DEF Update, Delete, RestoreAccount, Written, Changed
<1>6. Booting \/ Crash => now' = now
  BY DEF Booting, Crash
<1> QED
  BY <1>2, <1>3, <1>4, <1>5, <1>6 DEF Step

\* Every step of the program preserves what the program keeps.
LEMMA EveryStep ==
  ASSUME StepInv, Step
  PROVE  StepInv'
BY BootingStep, ArriveStep, ServeStep, AccountStep, TickStep, CrashStep DEF Step

LEMMA ObserveStep ==
  ASSUME TypeInv, Step, Observe
  PROVE  Observed'
<1>1. StepInv /\ StepInv' /\ now' \in Moments /\ now <= now' /\ now \in Moments
      /\ Moments \subseteq Nat
  BY EveryStep, Onward DEF TypeInv, StepInv, Typing, Moments
<1>2. seen' \in [Slots -> SUBSET (Account \cup {None})]
  <2> SUFFICES ASSUME NEW r \in Slots
               PROVE  (IF pc'[r] = "idle" \/ req'[r].op \notin {"login", "authenticate"} THEN {}
                       ELSE (IF pc[r] = "idle" THEN {} ELSE seen[r]) \cup {accounts'[req'[r].user]}
                            \cup (IF faults' > faults THEN {None} ELSE {}))
                        \subseteq Account \cup {None}
    BY DEF Observe
  <2>1. seen[r] \subseteq Account \cup {None}
    BY DEF TypeInv, Observed
  <2>2. ASSUME pc'[r] # "idle" PROVE accounts'[req'[r].user] \in Account \cup {None}
    <3>1. req'[r].user \in Users
      BY <1>1, <2>2 DEF StepInv, Placed, Request
    <3> QED
      BY <1>1, <3>1 DEF StepInv, BootInv
  <2> QED
    BY <2>1, <2>2
<1>3. /\ since' = [r \in Slots |-> IF pc'[r] = "idle" THEN 0
                                  ELSE IF pc[r] = "idle" THEN now' ELSE since[r]]
      /\ 0 \in Moments
  BY <1>1, ClockAssumption DEF Observe, Moments
<1>4. \A r \in Slots : since[r] \in Moments /\ since[r] <= now
  BY DEF TypeInv, Observed
<1>5. ASSUME NEW r \in Slots PROVE since'[r] \in Moments /\ since'[r] <= now'
  <2>1. since[r] \in Nat /\ now \in Nat /\ now' \in Nat
    BY <1>1, <1>4
  <2>2. since'[r] \in {0, now', since[r]}
    BY <1>3
  <2>3. since[r] <= now' /\ 0 <= now'
    BY <1>1, <1>4, <2>1
  <2> QED
    BY <1>1, <1>3, <1>4, <2>2, <2>3
<1> QED
  BY <1>2, <1>3, <1>5 DEF Observed

LEMMA TypeInitial == Init => TypeInv
<1> SUFFICES ASSUME Init PROVE TypeInv
  OBVIOUS
<1>1. BootInv
  BY BootInitial DEF Init
<1>2. 0 \in Moments /\ 0 \in Codes /\ "idle" \in Steps
  BY ClockAssumption DEF Moments, Codes, Steps
<1>3. Typing /\ Placed
  BY <1>2 DEF Init, Typing, Placed
<1>4. Observed
  BY <1>2 DEF Init, Observed
<1> QED
  BY <1>1, <1>3, <1>4 DEF TypeInv, StepInv

LEMMA TypeStep == TypeInv /\ [Next]_vars => TypeInv'
<1>1. ASSUME TypeInv, Next PROVE TypeInv'
  BY <1>1, EveryStep, ObserveStep DEF Next, TypeInv
<1>2. ASSUME TypeInv, UNCHANGED vars PROVE TypeInv'
  <2>1. UNCHANGED <<bootVars, requests>> /\ UNCHANGED <<now, tokens, seen, since, changes>>
    BY <1>2 DEF vars
  <2>2. UNCHANGED <<process, tables, accounts, faults, missed>> /\ UNCHANGED <<pc, req, row, code>>
    BY <2>1 DEF bootVars, requests
  <2>3. BootInv'
    BY <1>2, <2>2, StillBoot DEF TypeInv, StepInv, BootInv, Ready
  <2> QED
    BY <1>2, <2>1, <2>2, <2>3 DEF TypeInv, StepInv, Typing, Placed, Observed, process
<1> QED
  BY <1>1, <1>2 DEF Next

LEMMA TypeInvariant == Spec => []TypeInv
BY TypeInitial, TypeStep, PTL DEF Spec

\* Every variable has its type, for every configuration and any number of accounts,
\* tokens and requests: no token that is about has expired.
THEOREM TypeCorrect == Spec => []TypeOK
<1>1. TypeInv => TypeOK
  BY DEF TypeInv, StepInv, BootInv, Ready, Typed, Typing, Observed, TypeOK
<1> QED
  BY <1>1, TypeInvariant, PTL

\* The application serves over all tables, with the retention that is configured,
\* a positive one whatever the file and the environment say, and every start that
\* no failing statement disturbed has found or made an administrator.
THEOREM ReadyWhenUp == Spec => []UpMeansReady
<1>1. TypeInv => UpMeansReady
  BY DEF TypeInv, StepInv, BootInv, Ready, UpMeansReady
<1> QED
  BY <1>1, TypeInvariant, PTL

\* No start touches an account, and no two rows claim the administrator's name or mail.
THEOREM StartsKeepAccounts == Spec => StartKeepsAccounts
<1> DEFINE Kept == phase # "up" => \A k \in Users : Row(k) => accounts'[k] = accounts[k]
<1>1. TypeInv /\ [Next]_vars => [Kept]_bootVars
  <2>1. ASSUME TypeInv, Step PROVE Kept
    <3>1. CASE Booting
      BY <2>1, <3>1, BootSteps DEF Booting, TypeInv, StepInv
    <3>2. ASSUME NEW k \in Users, Update(k) \/ Delete(k) \/ RestoreAccount(k) PROVE phase = "up"
      BY <3>2 DEF Update, Delete, RestoreAccount, Written, Changed
    <3>3. ASSUME NEW r \in Slots, Arrive(r) \/ Serve(r) \/ ReadError(r) PROVE accounts' = accounts
      BY <3>3 DEF Arrive, Enter, Lookup, Unauthorized, Guarded, Serve, Read, Check, Explain, Issue, Me, Finish,
                  ReadError, Still, bootVars
    <3>4. Tick \/ Crash => accounts' = accounts
      BY DEF Tick, Crash, bootVars
    <3> QED
      BY <2>1, <3>1, <3>2, <3>3, <3>4 DEF Step
  <2>2. UNCHANGED vars => UNCHANGED bootVars
    BY DEF vars
  <2> QED
    BY <2>1, <2>2 DEF Next
<1>2. TypeInv => \A j, k \in Users :
        j # k /\ Row(j) /\ Row(k) => accounts[j].reserves \cap accounts[k].reserves = {}
  BY DEF TypeInv, StepInv, BootInv, Apart
<1> QED
  BY <1>1, <1>2, TypeInvariant, PTL DEF Spec, StartKeepsAccounts

-----------------------------------------------------------------------------
(***************************************************************************)
(* The calendar.  A day is DayLength ticks, which no prover multiplies by  *)
(* itself: the products are bounded first and then left closed.            *)
(***************************************************************************)
LEMMA Scaled ==
  ASSUME NEW D \in Nat \ {0}, NEW a \in Int, NEW b \in Int
  PROVE  /\ a <= b => a * D <= b * D
         /\ a + 1 <= b => a * D + D <= b * D
         /\ a + 2 <= b => a * D + 2 * D <= b * D
<1>1. a <= b => a * D <= b * D
  BY SMT
<1>2. a + 1 <= b => a * D + D <= b * D
  BY SMT
<1>3. a + 2 <= b => a * D + 2 * D <= b * D
  BY SMT
<1> QED
  BY <1>1, <1>2, <1>3

LEMMA Divided ==
  ASSUME NEW D \in Nat \ {0}, NEW u \in Int
  PROVE  u \div D \in Int /\ (u \div D) * D <= u /\ u < (u \div D) * D + D
BY SMT

\* A day d of the calendar against the server's day T with the instant t in it.
LEMMA Calendar ==
  ASSUME NEW D \in Nat \ {0}, NEW T \in Int, NEW d \in Int, NEW z \in Int, NEW t \in Int,
         1 - D <= z, z <= D - 1, T * D <= t + z, t + z < T * D + D
  PROVE  /\ T * D - z < d * D <=> T < d + (IF z > 0 THEN 1 ELSE 0)
         /\ T * D - z > d * D + D - 1 <=> T > d + (IF z > 0 THEN 1 ELSE 0)
         /\ T >= d + 1 => t > d * D
         /\ T <= d - 2 => t < d * D
         /\ z <= 0 /\ T >= d => t >= d * D
         /\ z >= 0 /\ T <= d - 1 => t < d * D
<1> DEFINE p == T * D
           q == d * D
<1>1. p \in Int /\ q \in Int /\ p <= t + z /\ t + z < p + D
  OBVIOUS
<1>2. /\ T <= d => p <= q
      /\ T + 1 <= d => p + D <= q
      /\ T + 2 <= d => p + 2 * D <= q
      /\ d <= T => q <= p
      /\ d + 1 <= T => q + D <= p
      /\ d + 2 <= T => q + 2 * D <= p
  BY Scaled
<1> HIDE DEF p, q
<1>3. p - z < q <=> T < d + (IF z > 0 THEN 1 ELSE 0)
  BY <1>1, <1>2
<1>4. p - z > q + D - 1 <=> T > d + (IF z > 0 THEN 1 ELSE 0)
  <2>1. CASE z > 0
    <3>1. d + 2 <= T => p - z > q + D - 1
      BY <1>1, <1>2, <2>1
    <3>2. T <= d + 1 => p <= q + D
      BY <1>1, <1>2, Scaled DEF p, q
    <3> QED
      BY <1>1, <2>1, <3>1, <3>2
  <2>2. CASE z <= 0
    <3>1. d + 1 <= T => p - z > q + D - 1
      BY <1>1, <1>2, <2>2
    <3>2. T <= d => p - z <= q + D - 1
      BY <1>1, <1>2, <2>2
    <3> QED
      BY <1>1, <2>2, <3>1, <3>2
  <2> QED
    BY <2>1, <2>2
<1>5. T >= d + 1 => t > q
  BY <1>1, <1>2
<1>6. T <= d - 2 => t < q
  BY <1>1, <1>2
<1>7. z <= 0 /\ T >= d => t >= q
  BY <1>1, <1>2
<1>8. z >= 0 /\ T <= d - 1 => t < q
  BY <1>1, <1>2
<1> QED
  BY <1>3, <1>4, <1>5, <1>6, <1>7, <1>8 DEF p, q

\* East of the clock that the database's dates go by, each day of an account begins
\* and ends a day later.
Shift == IF Ahead > 0 THEN 1 ELSE 0

\* A day of an account against the clock: both are looked at from the clock of the
\* dates, which the server's is Ahead of.
LEMMA DayOfAccount ==
  ASSUME StepInv, NEW t \in Moments, NEW d \in Days
  PROVE  /\ d \in Int /\ Today(t) \in Int /\ Ahead \in Int /\ Midnight(d) \in Int
         /\ LocalMidnight(t) < Midnight(d) <=> Today(t) < d + Shift
         /\ LocalMidnight(t) > Midnight(d) + DayLength - 1 <=> Today(t) > d + Shift
         /\ Today(t) >= d + 1 => t > Midnight(d)
         /\ Today(t) <= d - 2 => t < Midnight(d)
         /\ Ahead <= 0 /\ Today(t) >= d => t >= Midnight(d)
         /\ Ahead >= 0 /\ Today(t) <= d - 1 => t < Midnight(d)
<1> DEFINE z == Ahead
           T == Today(t)
           u == t + (zone - z)
<1>1. DayLength \in Nat \ {0} /\ d \in Int /\ t \in Int
  BY ClockAssumption DEF Moments
<1>2. /\ zone \in Int /\ 1 - DayLength <= zone /\ zone <= DayLength - 1
      /\ z \in Int /\ 1 - DayLength <= z /\ z <= DayLength - 1
  BY <1>1 DEF StepInv, BootInv, Ready, Zones, Ahead
<1>3. T \in Int /\ T * DayLength <= t + zone /\ t + zone < T * DayLength + DayLength
  <2>1. t + zone \in Int /\ T = (t + zone) \div DayLength
    BY <1>1, <1>2 DEF Today
  <2> HIDE DEF T
  <2> QED
    BY <1>1, <2>1, Divided
<1>4. LocalMidnight(t) = T * DayLength - zone /\ Midnight(d) = d * DayLength - (zone - z)
      /\ Shift = IF z > 0 THEN 1 ELSE 0
  BY DEF LocalMidnight, Midnight, Shift
<1> HIDE DEF z, T
<1>5. u \in Int /\ u + z = t + zone
  BY <1>1, <1>2
<1> DEFINE p == T * DayLength
           q == d * DayLength
<1>6. p \in Int /\ q \in Int
  BY <1>1, <1>3
<1>7. /\ p - z < q <=> T < d + (IF z > 0 THEN 1 ELSE 0)
      /\ p - z > q + DayLength - 1 <=> T > d + (IF z > 0 THEN 1 ELSE 0)
      /\ T >= d + 1 => u > q
      /\ T <= d - 2 => u < q
      /\ z <= 0 /\ T >= d => u >= q
      /\ z >= 0 /\ T <= d - 1 => u < q
  <2> HIDE DEF u
  <2> QED
    BY <1>1, <1>2, <1>3, <1>5, Calendar
<1>8. LocalMidnight(t) = p - zone /\ Midnight(d) = q - (zone - z)
  BY <1>4
<1> HIDE DEF p, q
<1>9. /\ LocalMidnight(t) < Midnight(d) <=> p - z < q
      /\ LocalMidnight(t) > Midnight(d) + DayLength - 1 <=> p - z > q + DayLength - 1
      /\ t > Midnight(d) <=> u > q
      /\ t < Midnight(d) <=> u < q
      /\ t >= Midnight(d) <=> u >= q
      /\ Midnight(d) \in Int
  BY <1>1, <1>2, <1>6, <1>8
<1> HIDE DEF u
<1> QED
  BY <1>1, <1>2, <1>3, <1>4, <1>7, <1>9 DEF z, T

\* IsValidForLogin in days: from the first to the last of them, and east of
\* Greenwich each a day later if the dates are PostgreSQL's.
LEMMA LoginDays ==
  ASSUME StepInv, NEW t \in Moments, NEW a \in Account
  PROVE  /\ NotYet(a, t) <=> a.from # None /\ Today(t) < a.from + Shift
         /\ Over(a, t) <=> a.to # None /\ Today(t) > a.to + Shift
         /\ a.from \in Days \cup {None} /\ a.to \in Days \cup {None}
<1>1. a.from \in Days \cup {None} /\ a.to \in Days \cup {None}
  BY DEF Account
<1>2. NotYet(a, t) <=> a.from # None /\ Today(t) < a.from + Shift
  <2>1. CASE a.from = None
    BY <2>1 DEF NotYet
  <2>2. CASE a.from \in Days
    <3>1. LocalMidnight(t) < Midnight(a.from) <=> Today(t) < a.from + Shift
      BY <2>2, DayOfAccount
    <3> QED
      BY <3>1 DEF NotYet
  <2> QED
    BY <1>1, <2>1, <2>2
<1>3. Over(a, t) <=> a.to # None /\ Today(t) > a.to + Shift
  <2>1. CASE a.to = None
    BY <2>1 DEF Over
  <2>2. CASE a.to \in Days
    <3>1. LocalMidnight(t) > Midnight(a.to) + DayLength - 1 <=> Today(t) > a.to + Shift
      BY <2>2, DayOfAccount
    <3> QED
      BY <3>1 DEF Over
  <2> QED
    BY <1>1, <2>1, <2>2
<1> QED
  BY <1>1, <1>2, <1>3

\* At valid_from the two doors differ only on the days that DoorsAgree names.
LEMMA DoorsFrom ==
  ASSUME StepInv, NEW a \in Account, a.from # None,
         ~(Ahead > 0 /\ Today(now) = a.from), ~(Ahead < 0 /\ Today(now) = a.from - 1)
  PROVE  NotYet(a, now) <=> ~(now >= Midnight(a.from))
<1> DEFINE T == Today(now)
           d == a.from
           z == Ahead
<1>1. now \in Moments /\ now \in Int
  BY ClockAssumption DEF StepInv, Typing, Moments
<1>2. d \in Days /\ (NotYet(a, now) <=> T < d + Shift)
  BY <1>1, LoginDays
<1>3. /\ d \in Int /\ T \in Int /\ z \in Int /\ Midnight(d) \in Int
      /\ T >= d + 1 => now > Midnight(d)
      /\ T <= d - 2 => now < Midnight(d)
      /\ z <= 0 /\ T >= d => now >= Midnight(d)
      /\ z >= 0 /\ T <= d - 1 => now < Midnight(d)
  BY <1>1, <1>2, DayOfAccount
<1>4. Shift = IF z > 0 THEN 1 ELSE 0
  BY DEF Shift
<1>5. ~(z > 0 /\ T = d) /\ ~(z < 0 /\ T = d - 1)
  OBVIOUS
<1> HIDE DEF T, d, z
<1>6. T < d + Shift <=> ~(now >= Midnight(d))
  <2>1. CASE z > 0
    BY <1>1, <1>3, <1>4, <1>5, <2>1
  <2>2. CASE z = 0
    BY <1>1, <1>3, <1>4, <2>2
  <2>3. CASE z < 0
    BY <1>1, <1>3, <1>4, <1>5, <2>3
  <2> QED
    BY <1>3, <2>1, <2>2, <2>3
<1> QED
  BY <1>2, <1>6 DEF d

\* And at valid_to.
LEMMA DoorsTo ==
  ASSUME StepInv, NEW a \in Account, a.to # None, Today(now) # a.to,
         ~(Ahead > 0 /\ Today(now) = a.to + 1), ~(Ahead < 0 /\ Today(now) = a.to - 1)
  PROVE  Over(a, now) <=> ~(now <= Midnight(a.to))
<1> DEFINE T == Today(now)
           d == a.to
           z == Ahead
<1>1. now \in Moments /\ now \in Int
  BY ClockAssumption DEF StepInv, Typing, Moments
<1>2. d \in Days /\ (Over(a, now) <=> T > d + Shift)
  BY <1>1, LoginDays
<1>3. /\ d \in Int /\ T \in Int /\ z \in Int /\ Midnight(d) \in Int
      /\ T >= d + 1 => now > Midnight(d)
      /\ T <= d - 2 => now < Midnight(d)
      /\ z >= 0 /\ T <= d - 1 => now < Midnight(d)
  BY <1>1, <1>2, DayOfAccount
<1>4. Shift = IF z > 0 THEN 1 ELSE 0
  BY DEF Shift
<1>5. T # d /\ ~(z > 0 /\ T = d + 1) /\ ~(z < 0 /\ T = d - 1)
  OBVIOUS
<1> HIDE DEF T, d, z
<1>6. T > d + Shift <=> ~(now <= Midnight(d))
  <2>1. CASE z > 0
    BY <1>1, <1>3, <1>4, <1>5, <2>1
  <2>2. CASE z = 0
    BY <1>1, <1>3, <1>4, <1>5, <2>2
  <2>3. CASE z < 0
    BY <1>1, <1>3, <1>4, <1>5, <2>3
  <2> QED
    BY <1>3, <2>1, <2>2, <2>3
<1> QED
  BY <1>2, <1>6 DEF d

\* Whatever the zone, the length of a day and the days of an account, login and
\* VPN answer alike on every other day than those that DoorsAgree names.
THEOREM DoorsAgreeAlways == Spec => []DoorsAgree
<1>1. StepInv => DoorsAgree
  <2> SUFFICES ASSUME StepInv, NEW k \in Users, Live(k),
                      LET from == accounts[k].from
                          to == accounts[k].to IN
                        /\ ~(to # None /\ Today(now) = to)
                        /\ ~(to # None /\ Ahead > 0 /\ Today(now) = to + 1)
                        /\ ~(to # None /\ Ahead < 0 /\ Today(now) = to - 1)
                        /\ ~(from # None /\ Ahead > 0 /\ Today(now) = from)
                        /\ ~(from # None /\ Ahead < 0 /\ Today(now) = from - 1)
               PROVE  IsValidForLogin(accounts[k], now) = VpnAllows(accounts[k], now)
    BY DEF DoorsAgree
  <2>1. accounts[k] \in Account
    BY DEF Live, Row, StepInv, BootInv
  <2>2. accounts[k].from # None => (NotYet(accounts[k], now) <=> ~(now >= Midnight(accounts[k].from)))
    BY <2>1, DoorsFrom
  <2>3. accounts[k].to # None => (Over(accounts[k], now) <=> ~(now <= Midnight(accounts[k].to)))
    BY <2>1, DoorsTo
  <2>4. /\ accounts[k].from = None => ~NotYet(accounts[k], now)
        /\ accounts[k].to = None => ~Over(accounts[k], now)
    BY DEF NotYet, Over
  <2>5. accounts[k].active \in BOOLEAN
    BY <2>1 DEF Account
  <2>6. /\ ~NotYet(accounts[k], now) <=>
             (accounts[k].from # None => now >= Midnight(accounts[k].from))
        /\ ~Over(accounts[k], now) <=>
             (accounts[k].to # None => now <= Midnight(accounts[k].to))
    BY <2>2, <2>3, <2>4
  <2> QED
    BY <2>5, <2>6, Zenon DEF IsValidForLogin, VpnAllows
<1>2. TypeInv => DoorsAgree
  BY <1>1 DEF TypeInv
<1> QED
  BY <1>2, TypeInvariant, PTL

-----------------------------------------------------------------------------
(***************************************************************************)
(* A login between two changes of the account.  What is known of a login   *)
(* at each step is known of some row that the account has had since and of *)
(* some time since, and both only grow while the login is under way.       *)
(***************************************************************************)
Told(r) ==
  pc[r] # "idle" /\ req[r].op = "login" =>
    /\ pc[r] # "me"
    /\ pc[r] \in {"check", "explain", "issue"} =>
         row[r] \in seen[r] /\ row[r].pass = req[r].pass /\ ~row[r].deleted
    /\ pc[r] = "explain" => row[r].active /\ WasNot(r)
    /\ pc[r] = "issue" => WasValid(r)
    /\ pc[r] = "reply" /\ code[r] = 200 => WasValid(r)
    /\ pc[r] = "reply" /\ code[r] = 401 => WasNot(r)

ToldInv == TypeInv /\ \A r \in Slots : Told(r)

\* What a request has seen stays seen, for as long as it is under way.
LEMMA StaysSeen ==
  ASSUME TypeInv, Step, Observe, NEW r \in Slots, pc[r] # "idle", pc'[r] # "idle",
         req'[r] = req[r], req[r].op = "login", UNCHANGED <<config, zone>>
  PROVE  /\ seen[r] \subseteq seen'[r] /\ since'[r] = since[r]
         /\ accounts'[req[r].user] \in seen'[r]
         /\ faults' > faults => None \in seen'[r]
         /\ since[r] \in Nat /\ now \in Nat /\ now' \in Nat /\ since[r] <= now /\ now <= now'
         /\ WasValid(r) => WasValid(r)'
         /\ WasNot(r) => WasNot(r)'
<1>1. /\ seen'[r] = seen[r] \cup {accounts'[req[r].user]}
                     \cup (IF faults' > faults THEN {None} ELSE {})
      /\ since'[r] = since[r]
  BY DEF Observe
<1>2. since[r] \in Nat /\ now \in Nat /\ now' \in Nat /\ since[r] <= now /\ now <= now'
  BY Onward, ClockAssumption DEF TypeInv, StepInv, Typing, Observed, Moments
<1>3. ASSUME NEW t \in since[r] .. now PROVE t \in since'[r] .. now'
  BY <1>1, <1>2, <1>3
<1>4. WasValid(r) => WasValid(r)'
  BY <1>1, <1>3 DEF WasValid, Admissible, Usable, Begun, Ended, DayAfter, Today, Ahead
<1>5. WasNot(r) => WasNot(r)'
  BY <1>1, <1>3 DEF WasNot, Refusable, Entitled, Usable, Begun, Ended, FirstDay, Today, Ahead
<1> QED
  BY <1>1, <1>2, <1>4, <1>5

\* A step of something else.
LEMMA OthersTold ==
  ASSUME ToldInv, Step, Observe, NEW r \in Slots, UNCHANGED <<config, zone>>,
         pc'[r] = pc[r], req'[r] = req[r], row'[r] = row[r], code'[r] = code[r]
  PROVE  Told(r)'
<1> SUFFICES ASSUME pc[r] # "idle", req[r].op = "login" PROVE Told(r)'
  BY DEF Told
<1>1. /\ seen[r] \subseteq seen'[r]
      /\ WasValid(r) => WasValid(r)'
      /\ WasNot(r) => WasNot(r)'
  BY StaysSeen DEF ToldInv
<1>2. Told(r)
  BY DEF ToldInv
<1> QED
  BY <1>1, <1>2 DEF Told

\* IsValidForLogin against what LoginTellsValidity says of an account.
LEMMA ValidMeansEntitled ==
  ASSUME StepInv, NEW t \in Moments, NEW a \in Account, ~a.deleted
  PROVE  /\ IsValidForLogin(a, t) => Admissible(a, a.pass, t)
         /\ ~IsValidForLogin(a, t) => Refusable(a, a.pass, t)
         /\ NotYet(a, t) \/ Over(a, t) => ~IsValidForLogin(a, t)
         /\ a.active /\ ~IsValidForLogin(a, t) => NotYet(a, t) \/ Over(a, t)
<1>1. a # None
  BY MarkAssumption
<1>2. /\ NotYet(a, t) <=> a.from # None /\ Today(t) < a.from + Shift
      /\ Over(a, t) <=> a.to # None /\ Today(t) > a.to + Shift
      /\ a.from \in Days \cup {None} /\ a.to \in Days \cup {None}
  BY LoginDays
<1>3. ASSUME NEW d \in Days PROVE d \in Int /\ Today(t) \in Int /\ Ahead \in Int
  BY <1>3, DayOfAccount
<1>4. /\ ~NotYet(a, t) => Begun(a, t)
      /\ NotYet(a, t) => ~Begun(a, t) \/ FirstDay(a, t)
  BY <1>2, <1>3 DEF Begun, FirstDay, Shift
<1>5. /\ ~Over(a, t) => (Ended(a, t) => DayAfter(a, t))
      /\ Over(a, t) => Ended(a, t)
  BY <1>2, <1>3 DEF Ended, DayAfter, Shift
<1>6. a.active \in BOOLEAN
  BY DEF Account
<1>7. IsValidForLogin(a, t) <=> a.active /\ ~NotYet(a, t) /\ ~Over(a, t)
  BY <1>6 DEF IsValidForLogin
<1>8. Usable(a, a.pass) <=> a.active
  BY <1>1, <1>6 DEF Usable
<1> QED
  BY <1>4, <1>5, <1>7, <1>8, Zenon DEF Admissible, Refusable, Entitled

\* A statement or a check of a login: it looks at the account and at the clock as
\* they are.
LEMMA LoginTold ==
  ASSUME ToldInv, Step, Observe, NEW r \in Slots, Read(r) \/ Check(r) \/ Explain(r) \/ Issue(r),
         req[r].op = "login"
  PROVE  Told(r)'
<1>1. /\ pc[r] # "idle" /\ req' = req /\ now' = now /\ UNCHANGED bootVars
      /\ StepInv /\ pc \in [Slots -> Steps] /\ code \in [Slots -> Codes]
      /\ row \in [Slots -> Account \cup {None}]
  BY DEF Read, Check, Explain, Issue, Still, ToldInv, TypeInv, StepInv, Typing
<1>2. /\ pc'[r] \in {"check", "explain", "issue", "reply"} /\ UNCHANGED <<config, zone>> /\ accounts' = accounts
      /\ req[r] \in Request
  BY <1>1 DEF Read, Check, Explain, Issue, Goto, Reply, bootVars, process, StepInv, Placed
<1>3. /\ seen[r] \subseteq seen'[r] /\ accounts[req[r].user] \in seen'[r]
      /\ WasValid(r) => WasValid(r)'
      /\ WasNot(r) => WasNot(r)'
      /\ now \in since'[r] .. now'
  BY <1>1, <1>2, StaysSeen DEF ToldInv
<1>4. ASSUME NEW a \in seen'[r], Admissible(a, req[r].pass, now)
      PROVE  WasValid(r)'
  BY <1>1, <1>2, <1>3, <1>4 DEF WasValid, Admissible, Usable, Begun, Ended, DayAfter, Today, Ahead
<1>5. ASSUME NEW a \in seen'[r], Refusable(a, req[r].pass, now)
      PROVE  WasNot(r)'
  BY <1>1, <1>2, <1>3, <1>5 DEF WasNot, Refusable, Entitled, Usable, Begun, Ended, FirstDay, Today, Ahead
<1>6. now \in Moments
  BY <1>1 DEF StepInv, Typing
<1>7. Told(r)
  BY DEF ToldInv
<1>8. CASE Read(r)
  <2> DEFINE a == accounts[req[r].user]
  <2>1. CASE Live(req[r].user) /\ a.pass = req[r].pass
    <3>1. pc'[r] = "check" /\ row'[r] = a /\ ~a.deleted
      BY <1>1, <1>8, <2>1 DEF Read, Goto, Live
    <3> QED
      BY <1>1, <1>3, <2>1, <3>1 DEF Told
  <2>2. CASE ~(Live(req[r].user) /\ a.pass = req[r].pass)
    <3>1. pc'[r] = "reply" /\ code'[r] = 401
      BY <1>1, <1>8, <2>2 DEF Read, Reply
    <3>2. Refusable(a, req[r].pass, now)
      BY <2>2 DEF Refusable, Entitled, Usable, Live, Row
    <3>3. WasNot(r)'
      BY <1>3, <1>5, <3>2
    <3> QED
      BY <3>1, <3>3 DEF Told
  <2> QED
    BY <2>1, <2>2
<1>9. CASE Check(r) \/ Explain(r)
  <2> DEFINE a == row[r]
  <2>1. a \in Account /\ a \in seen'[r] /\ a.pass = req[r].pass /\ ~a.deleted /\ row'[r] = a
    BY <1>1, <1>3, <1>7, <1>9 DEF Check, Explain, Told, StepInv, Placed
  <2> HIDE DEF a
  <2>2. /\ IsValidForLogin(a, now) => Admissible(a, req[r].pass, now)
        /\ ~IsValidForLogin(a, now) => Refusable(a, req[r].pass, now)
        /\ NotYet(a, now) \/ Over(a, now) => ~IsValidForLogin(a, now)
        /\ a.active /\ ~IsValidForLogin(a, now) => NotYet(a, now) \/ Over(a, now)
    BY <1>1, <1>6, <2>1, ValidMeansEntitled
  <2>3. \/ pc'[r] = "reply" /\ code'[r] = 401 /\ Refusable(a, req[r].pass, now)
        \/ pc'[r] = "issue" /\ Admissible(a, req[r].pass, now)
        \/ pc'[r] = "explain" /\ Refusable(a, req[r].pass, now) /\ a.active
    <3>1. CASE Check(r)
      <4>1. CASE ~a.active
        <5>1. ~IsValidForLogin(a, now)
          BY <4>1 DEF IsValidForLogin
        <5> QED
          BY <1>1, <2>2, <3>1, <4>1, <5>1 DEF Check, Reply, a
      <4>2. CASE a.active
        <5>1. pc'[r] = IF IsValidForLogin(a, now) THEN "issue" ELSE "explain"
          BY <1>1, <3>1, <4>2 DEF Check, Goto, a
        <5> QED
          BY <2>2, <4>2, <5>1
      <4> QED
        BY <4>1, <4>2
    <3>2. CASE Explain(r)
      <4>1. a.active
        BY <1>7, <3>2 DEF Told, Explain, a
      <4> QED
        BY <1>1, <2>2, <3>2, <4>1 DEF Explain, Reply, Goto, a
    <3> QED
      BY <1>9, <3>1, <3>2
  <2>4. CASE pc'[r] = "reply" /\ code'[r] = 401 /\ Refusable(a, req[r].pass, now)
    BY <1>5, <2>1, <2>4 DEF Told
  <2>5. CASE pc'[r] = "issue" /\ Admissible(a, req[r].pass, now)
    BY <1>1, <1>4, <2>1, <2>5 DEF Told
  <2>6. CASE pc'[r] = "explain" /\ Refusable(a, req[r].pass, now) /\ a.active
    BY <1>1, <1>5, <2>1, <2>6 DEF Told
  <2> QED
    BY <2>3, <2>4, <2>5, <2>6
<1>10. CASE Issue(r)
  <2>1. pc'[r] = "reply" /\ code'[r] = 200
    BY <1>1, <1>10 DEF Issue, Reply
  <2>2. WasValid(r)'
    BY <1>3, <1>7, <1>10 DEF Told, Issue
  <2> QED
    BY <2>1, <2>2 DEF Told
<1> QED
  BY <1>8, <1>9, <1>10

LEMMA ErrorTold ==
  ASSUME ToldInv, Step, Observe, NEW r \in Slots, ReadError(r), req[r].op = "login"
  PROVE  Told(r)'
<1>1. /\ pc[r] = "read" /\ req' = req /\ now' = now /\ UNCHANGED <<config, zone>> /\ faults' > faults
      /\ pc'[r] = "reply" /\ code'[r] = 401
  BY DEF ReadError, Reply, process, ToldInv, Told, TypeInv, StepInv, Typing, BootInv, Ready
<1>2. None \in seen'[r] /\ now \in since'[r] .. now'
  BY <1>1, StaysSeen DEF ToldInv
<1>3. Refusable(None, req[r].pass, now)'
  BY DEF Refusable, Entitled, Usable
<1>4. WasNot(r)'
  BY <1>1, <1>2, <1>3 DEF WasNot
<1> QED
  BY <1>1, <1>4 DEF Told

LEMMA ArriveTold ==
  ASSUME ToldInv, NEW r \in Slots, Arrive(r)
  PROVE  Told(r)'
<1>1. pc \in [Slots -> Steps] /\ req \in [Slots -> Request \cup {None}]
  BY DEF ToldInv, TypeInv, StepInv, Typing
<1>2. ASSUME NEW o \in {"login", "authenticate"}, NEW k \in Users, NEW p \in Passwords \cup {None},
             Enter(r, o, k, p)
      PROVE  pc'[r] = "read"
  BY <1>1, <1>2 DEF Enter, Goto
<1>3. ASSUME NEW o \in {"me", "admin", "page", "logout"}, NEW h \in Tokens \cup {None},
             Unauthorized(r, o, h) \/ Guarded(r, o, h)
      PROVE  req'[r].op # "login"
  <2>1. \E k, ro : Ask(r, o, k, None, ro)
    BY <1>3 DEF Unauthorized, Guarded
  <2> QED
    BY <1>1, <2>1 DEF Ask
<1>4. ASSUME NEW k \in Users, Lookup(r, k) PROVE req'[r].op # "login"
  BY <1>1, <1>4 DEF Lookup, Ask
<1> QED
  BY <1>2, <1>3, <1>4 DEF Arrive, Told

\* A step of one request changes what is kept of that one.
LEMMA OneRow ==
  ASSUME ToldInv, NEW r \in Slots, Arrive(r) \/ Serve(r) \/ ReadError(r)
  PROVE  /\ row' = row \/ \E a : row' = [row EXCEPT ![r] = a]
         /\ req' = req \/ \E i : req' = [req EXCEPT ![r] = i]
         /\ pc' = pc \/ \E step : pc' = [pc EXCEPT ![r] = step]
         /\ code' = code \/ \E c : code' = [code EXCEPT ![r] = c]
<1> DEFINE Went == /\ pc' = pc \/ \E step : pc' = [pc EXCEPT ![r] = step]
                   /\ code' = code \/ \E c : code' = [code EXCEPT ![r] = c]
<1>1. ASSUME NEW step, Goto(r, step) PROVE Went
  BY <1>1 DEF Goto
<1>2. ASSUME NEW c, Reply(r, c) PROVE Went
  BY <1>2 DEF Reply
<1> HIDE DEF Went
<1>3. CASE Arrive(r)
  <2>1. ASSUME NEW o, NEW k, NEW p, Enter(r, o, k, p)
        PROVE  Went /\ row' = row /\ \E i : req' = [req EXCEPT ![r] = i]
    BY <1>1, <2>1 DEF Enter, Ask
  <2>2. ASSUME NEW o \in {"me", "admin", "page", "logout"}, NEW h, Unauthorized(r, o, h)
        PROVE  Went /\ row' = row /\ \E i : req' = [req EXCEPT ![r] = i]
    BY <1>2, <2>2 DEF Unauthorized, Ask
  <2>3. ASSUME NEW o \in {"me", "admin", "page", "logout"}, NEW h, Guarded(r, o, h)
        PROVE  Went /\ row' = row /\ \E i : req' = [req EXCEPT ![r] = i]
    <3>1. Goto(r, "me") \/ Reply(r, 200) \/ Reply(r, 403)
      BY <2>3 DEF Guarded, RequireAdmin, AdminPage
    <3>2. \E k, ro : Ask(r, o, k, None, ro)
      BY <2>3 DEF Guarded
    <3> QED
      BY <1>1, <1>2, <3>1, <3>2 DEF Ask
  <2>4. ASSUME NEW k, Lookup(r, k)
        PROVE  Went /\ row' = row /\ \E i : req' = [req EXCEPT ![r] = i]
    BY <1>1, <2>4 DEF Lookup, Ask
  <2> QED
    BY <1>3, <2>1, <2>2, <2>3, <2>4 DEF Arrive, Went
<1>4. CASE Read(r)
  BY <1>1, <1>2, <1>4 DEF Read, Went
<1>5. CASE Check(r)
  <2>1. \/ \E c : Reply(r, c)
        \/ \E step : Goto(r, step)
    BY <1>5 DEF Check
  <2> QED
    BY <1>1, <1>2, <1>5, <2>1 DEF Check, Went
<1>6. CASE Explain(r) \/ Issue(r) \/ Me(r) \/ ReadError(r)
  <2>1. \/ \E c : Reply(r, c)
        \/ \E step : Goto(r, step)
    BY <1>6 DEF Explain, Issue, Me, ReadError
  <2>2. UNCHANGED <<req, row>>
    BY <1>6 DEF Explain, Issue, Me, ReadError
  <2> QED
    BY <1>1, <1>2, <2>1, <2>2 DEF Went
<1>7. CASE Finish(r)
  <2>1. /\ pc' = [pc EXCEPT ![r] = "idle"] /\ code' = [code EXCEPT ![r] = 0]
        /\ req' = [req EXCEPT ![r] = None] /\ row' = [row EXCEPT ![r] = None]
    BY <1>7 DEF Finish, Cleared, ToldInv, TypeInv, StepInv, Typing
  <2> QED
    BY <2>1
<1> QED
  BY <1>3, <1>4, <1>5, <1>6, <1>7 DEF Serve

LEMMA ToldStep == ToldInv /\ [Next]_vars => ToldInv'
<1>1. ASSUME ToldInv, Step, Observe, NEW q \in Slots PROVE Told(q)'
  <2>1. CASE Booting
    <3>1. phase # "up"
      BY <1>1, <2>1, BootSteps DEF Booting, ToldInv, TypeInv, StepInv
    <3>2. pc'[q] = "idle"
      BY <1>1, <2>1, <3>1 DEF Booting, requests, ToldInv, TypeInv, StepInv, Placed
    <3> QED
      BY <3>2 DEF Told
  <2>2. CASE Crash
    BY <2>2 DEF Crash, Cleared, Told
  <2>3. CASE Tick
    BY <1>1, <2>3, OthersTold DEF Tick, requests, bootVars, process
  <2>4. ASSUME NEW k \in Users, Update(k) \/ Delete(k) \/ RestoreAccount(k) PROVE Told(q)'
    <3>1. UNCHANGED <<process, requests>>
      BY <2>4 DEF Update, Delete, RestoreAccount, Written, Changed
    <3> QED
      BY <1>1, <3>1, OthersTold DEF requests, process
  <2>5. ASSUME NEW r \in Slots, Arrive(r) \/ Serve(r) \/ ReadError(r) PROVE Told(q)'
    <3>1. UNCHANGED <<config, zone>>
      BY <2>5 DEF Arrive, Enter, Lookup, Unauthorized, Guarded, Serve, Read, Check, Explain, Issue, Me, Finish,
                  ReadError, Still, bootVars, process
    <3>2. CASE q # r
      <4>1. pc \in [Slots -> Steps] /\ code \in [Slots -> Codes]
            /\ req \in [Slots -> Request \cup {None}] /\ row \in [Slots -> Account \cup {None}]
        BY <1>1 DEF ToldInv, TypeInv, StepInv, Typing
      <4>2. /\ row' = row \/ \E a : row' = [row EXCEPT ![r] = a]
            /\ req' = req \/ \E i : req' = [req EXCEPT ![r] = i]
            /\ pc' = pc \/ \E step : pc' = [pc EXCEPT ![r] = step]
            /\ code' = code \/ \E c : code' = [code EXCEPT ![r] = c]
        BY <1>1, <2>5, OneRow
      <4>3. pc'[q] = pc[q] /\ req'[q] = req[q] /\ row'[q] = row[q] /\ code'[q] = code[q]
        BY <3>2, <4>1, <4>2
      <4> QED
        BY <1>1, <3>1, <4>3, OthersTold
    <3>3. CASE q = r
      <4>1. CASE Arrive(r)
        BY <1>1, <3>3, <4>1, ArriveTold
      <4>2. CASE Finish(r)
        BY <3>3, <4>2 DEF Finish, Cleared, Told
      <4>3. CASE Read(r) \/ Check(r) \/ Explain(r) \/ Issue(r) \/ Me(r) \/ ReadError(r)
        <5>1. req' = req /\ pc[r] # "idle"
          BY <4>3 DEF Read, Check, Explain, Issue, Me, ReadError
        <5>2. CASE req[r].op # "login"
          BY <3>3, <5>1, <5>2 DEF Told
        <5>3. CASE req[r].op = "login"
          <6>1. ~Me(r)
            BY <1>1, <5>3 DEF Me, ToldInv, Told
          <6> QED
            BY <1>1, <3>3, <4>3, <5>3, <6>1, LoginTold, ErrorTold
        <5> QED
          BY <5>2, <5>3
      <4> QED
        BY <2>5, <4>1, <4>2, <4>3 DEF Serve
    <3> QED
      BY <3>2, <3>3
  <2> QED
    BY <1>1, <2>1, <2>2, <2>3, <2>4, <2>5 DEF Step
<1>2. ASSUME ToldInv, UNCHANGED vars, NEW q \in Slots PROVE Told(q)'
  <2>1. UNCHANGED <<bootVars, requests>> /\ UNCHANGED <<now, seen, since>>
    BY <1>2 DEF vars
  <2>2. UNCHANGED <<config, zone>> /\ pc' = pc /\ req' = req /\ row' = row /\ code' = code
    BY <2>1 DEF bootVars, process, requests
  <2>3. Told(q)
    BY <1>2 DEF ToldInv
  <2> QED
    BY <2>1, <2>2, <2>3 DEF Told, WasValid, WasNot, Admissible, Refusable, Entitled, Usable, Begun, Ended, FirstDay,
                            DayAfter, Today, Ahead
<1>3. ASSUME ToldInv, [Next]_vars PROVE TypeInv'
  BY <1>3, TypeStep DEF ToldInv
<1> QED
  BY <1>1, <1>2, <1>3 DEF ToldInv, Next

\* A login succeeds only for an account that was valid at some time since it was
\* asked for, and is refused only if it was not at some time or a read failed,
\* with any number of logins, changes of the account and readings of the clock.
THEOREM LoginsTellValidity == Spec => []LoginTellsValidity
<1>1. Init => ToldInv
  BY TypeInitial DEF ToldInv, Told, Init
<1>2. ToldInv => LoginTellsValidity
  BY DEF ToldInv, Told, LoginTellsValidity
<1> QED
  BY <1>1, <1>2, ToldStep, PTL DEF Spec
=============================================================================
