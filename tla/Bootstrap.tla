----------------------------- MODULE Bootstrap -----------------------------
(***************************************************************************)
(* Start-up: the configuration from file, environment and defaults, the    *)
(* connection, the tables, the limit of the audit log, the default         *)
(* administrator, the routes.  What fails on the way ends the process or   *)
(* is passed over; the service manager starts a failed process again.      *)
(***************************************************************************)
EXTENDS Integers, FiniteSets

CONSTANTS
    Users,          \* primary keys of users
    Tables,         \* what Migrate makes
    Files,          \* what the configuration file may hold, Absent and Unreadable included
    Environments,   \* what the environment may hold
    Absent, Unreadable, Unset, Unparsable,
    Strings,        \* what a setting of text may be
    DefaultExpiry, DefaultLimit,    \* 24 hours, 10000 entries
    Seed,           \* the row of the default administrator
    Accounts,       \* what the users table may hold before the first start
    MaxFaults,      \* how often something fails, a bound
    None

\* Settings of each kind; one stands for all that are read in the same way.
Texts == {"type", "secret", "vpn_token"}
Numbers == {"db_port", "token_expiry"}
Settings == Texts \cup Numbers \cup {"max_entries", "api"}
ValuesOf(s) == CASE s \in Texts -> Strings [] s = "api" -> BOOLEAN [] OTHER -> Int

ASSUME InputAssumption ==
  /\ \A f \in Files \ {Absent, Unreadable} :
       DOMAIN f = Settings /\ \A s \in Settings : f[s] \in ValuesOf(s)
  /\ \A e \in Environments :
       \A s \in Settings : e[s] \in ValuesOf(s) \/ e[s] \in {Unset, Unparsable}
ASSUME StringsAssumption == {"", "postgres", "mysql"} \subseteq Strings
ASSUME DefaultsAssumption == DefaultExpiry \in Nat \ {0} /\ DefaultLimit \in Nat \ {0}

VARIABLES
    phase,          \* how far the process has come
    config,
    zone,           \* how far the process's clock is ahead of UTC (TZ), in ticks
    limit,          \* auditLogMaxEntries
    kept,           \* the limit that the handlers' audit loggers have taken
    tables,         \* tables that are there
    accounts,       \* users: key -> row, None where there is none
    faults,
    missed          \* observer: a statement of this start's seeding has failed

process == <<phase, config, zone, limit, kept>>
bootVars == <<process, tables, accounts, faults, missed>>

Phases == {"down", "configured", "connected", "migrated", "limited", "seeding", "seeded",
           "up", "failed", "misconfigured"}

-----------------------------------------------------------------------------
\* A file that is not there leaves every setting at its zero.
Zero == [s \in Settings |-> CASE s \in Texts -> "" [] s = "api" -> FALSE [] OTHER -> 0]
FromFile(f) == IF f = Absent THEN Zero ELSE f

\* A variable that is empty is one that is not set; a number that cannot be read is
\* passed over, while a switch that cannot be read is off.
Overrides(s, v) ==
  /\ v # Unset
  /\ v = Unparsable => s = "api"
  /\ s \in Texts => v # ""
  /\ s = "max_entries" => v > 0
LoadEnvOverrides(c, e) ==
  [s \in Settings |-> IF ~Overrides(s, e[s]) THEN c[s]
                      ELSE IF e[s] = Unparsable THEN FALSE ELSE e[s]]

DatabaseType(c) == IF c.type = "" THEN "postgres" ELSE c.type
WithDefaultsForZero(c) ==
  [c EXCEPT !.type = DatabaseType(c),
            !.db_port = IF @ # 0 THEN @ ELSE IF DatabaseType(c) = "mysql" THEN 3306 ELSE 5432,
            !.token_expiry = IF @ = 0 THEN DefaultExpiry ELSE @,
            !.max_entries = IF @ = 0 THEN DefaultLimit ELSE @]
WithDefaults(c) ==
  [c EXCEPT !.type = DatabaseType(c),
            !.db_port = IF @ # 0 THEN @ ELSE IF DatabaseType(c) = "mysql" THEN 3306 ELSE 5432,
            !.token_expiry = IF @ = 0 THEN DefaultExpiry ELSE @,
            !.max_entries = IF @ <= 0 THEN DefaultLimit ELSE @]

Load ==
  /\ phase = "down"
  /\ \E f \in Files, e \in Environments :
       /\ zone' = e.zone
       /\ IF f = Unreadable
          THEN phase' = "misconfigured" /\ UNCHANGED config
          ELSE phase' = "configured" /\ config' = WithDefaults(LoadEnvOverrides(FromFile(f), e))
  /\ missed' = FALSE
  /\ UNCHANGED <<limit, kept, tables, accounts, faults>>

\* Initialize knows two kinds of database.
Connect ==
  /\ phase = "configured"
  /\ phase' = IF config.type \in {"postgres", "mysql"} THEN "connected" ELSE "misconfigured"
  /\ UNCHANGED <<config, zone, limit, kept, tables, accounts, faults, missed>>

\* AutoMigrate of one table, which leaves a table that is there as it is.
MigrateNext ==
  /\ phase = "connected"
  /\ \/ /\ tables # Tables
        /\ \E t \in Tables \ tables : tables' = tables \cup {t}
        /\ UNCHANGED phase
     \/ /\ tables = Tables
        /\ phase' = "migrated"
        /\ UNCHANGED tables
  /\ UNCHANGED <<config, zone, limit, kept, accounts, faults, missed>>

SetAuditLogMaxEntries ==
  /\ phase = "migrated"
  /\ limit' = IF config.max_entries > 0 THEN config.max_entries ELSE limit
  /\ phase' = "limited"
  /\ UNCHANGED <<config, zone, kept, tables, accounts, faults, missed>>

-----------------------------------------------------------------------------
Row(k) == accounts[k] # None
Live(k) == Row(k) /\ ~accounts[k].deleted
\* The unique indexes hold the default administrator's name and mail for a
\* deleted row, too.
Reserved == UNION {accounts[k].reserves : k \in {j \in Users : Row(j)}}

FindAdmin ==
  /\ phase = "limited"
  /\ phase' = IF \E k \in Users : Live(k) /\ "name" \in accounts[k].reserves
              THEN "seeded" ELSE "seeding"
  /\ UNCHANGED <<config, zone, limit, kept, tables, accounts, faults, missed>>

\* An insert that the indexes refuse is logged, and the start goes on.
InsertAdminAnyway ==
  /\ phase = "seeding"
  /\ \E k \in Users :
       /\ Row(k) => accounts[k].reserves # {}
       /\ accounts' = [accounts EXCEPT ![k] = Seed]
  /\ phase' = "seeded"
  /\ UNCHANGED <<config, zone, limit, kept, tables, faults, missed>>
InsertAdminOrExit ==
  /\ phase = "seeding"
  /\ IF Reserved # {} THEN UNCHANGED accounts
     ELSE \E k \in Users : ~Row(k) /\ accounts' = [accounts EXCEPT ![k] = Seed]
  /\ phase' = IF Reserved # {} THEN "failed" ELSE "seeded"
  /\ UNCHANGED <<config, zone, limit, kept, tables, faults, missed>>
InsertAdmin ==
  /\ phase = "seeding"
  /\ IF Reserved # {} THEN UNCHANGED accounts
     ELSE \E k \in Users : ~Row(k) /\ accounts' = [accounts EXCEPT ![k] = Seed]
  /\ phase' = "seeded"
  /\ UNCHANGED <<config, zone, limit, kept, tables, faults, missed>>

\* SetupRoutes makes the handlers, each with the limit as it is now.
Run ==
  /\ phase = "seeded"
  /\ phase' = "up"
  /\ kept' = limit
  /\ UNCHANGED <<config, zone, limit, tables, accounts, faults, missed>>

-----------------------------------------------------------------------------
\* The connection, a migration or the port cannot be had: the process exits.
Exit ==
  /\ faults < MaxFaults
  /\ phase \in {"configured", "connected", "seeded"}
  /\ phase' = "failed"
  /\ faults' = faults + 1
  /\ UNCHANGED <<config, zone, limit, kept, tables, accounts, missed>>

\* An error of the read is taken for the administrator's absence, one of the
\* insert is logged.
SeedError ==
  /\ faults < MaxFaults
  /\ phase \in {"limited", "seeding"}
  /\ phase' = IF phase = "limited" THEN "seeding" ELSE "seeded"
  /\ faults' = faults + 1
  /\ missed' = TRUE
  /\ UNCHANGED <<config, zone, limit, kept, tables, accounts>>

\* systemd's Restart=on-failure: a new process, with the package's own limit.
Restart ==
  /\ phase \in {"failed", "misconfigured"}
  /\ phase' = "down"
  /\ limit' = DefaultLimit
  /\ kept' = 0
  /\ UNCHANGED <<config, zone, tables, accounts, faults, missed>>

Start == \/ Load \/ Connect \/ MigrateNext \/ SetAuditLogMaxEntries
         \/ FindAdmin \/ InsertAdmin \/ Run

BootInit ==
  /\ phase = "down"
  /\ config = Zero /\ zone = 0
  /\ limit = DefaultLimit /\ kept = 0
  /\ tables = {}
  /\ accounts \in Accounts
  /\ faults = 0
  /\ missed = FALSE

BootNext == Start \/ Exit \/ SeedError \/ Restart

-----------------------------------------------------------------------------
\* Requests are served over all tables and with the retention that is
\* configured, which is positive whatever file and environment say; and a start
\* finds or makes an administrator unless another row has the name or the mail
\* or a statement fails.
UpMeansReady ==
  /\ phase = "up" => tables = Tables /\ kept = config.max_entries /\ kept > 0
  /\ phase = "seeded" /\ ~missed => Reserved # {}

\* A start never touches an account that is there: after any sequence of
\* restarts the administrator's password is the one last set, and two rows
\* never claim the administrator's name or mail.
StartKeepsAccounts ==
  /\ [][phase # "up" => \A k \in Users : Row(k) => accounts'[k] = accounts[k]]_bootVars
  /\ [](\A j, k \in Users :
          j # k /\ Row(j) /\ Row(k) => accounts[j].reserves \cap accounts[k].reserves = {})

\* The service comes up again and again, unless the configuration is at fault.
ComesUp == []<>(phase \in {"up", "misconfigured"})
=============================================================================
