-------------------------------- MODULE Startup --------------------------------
(***************************************************************************)
(* From the start of a process to its first poll: main, NewWriter and      *)
(* RunMigrations, for processes that share a database, may die anywhere,   *)
(* and are started again.                                                  *)
(*                                                                         *)
(* golang-migrate and PostgreSQL are modelled from that use.  The ledger   *)
(* (schema_migrations) holds the version and whether its migration is      *)
(* unfinished; WithInstance, Force and Up take an advisory lock, Version   *)
(* does not.  A migration file runs as one transaction, between the two    *)
(* steps that enter its version as dirty and as clean.  When the process   *)
(* dies meanwhile, its backend may live on, with the lock, until the       *)
(* transaction has ended.                                                  *)
(***************************************************************************)
EXTENDS Configuration, FiniteSets

CONSTANTS Procs,
          Deployments,  \* the deployments that are tried
          MaxRows,      \* bound on measurements
          MaxFaults,    \* bound on deaths and failing statements
          Nobody, Orphan

LastVersion == 2   \* the migrations are 1 and 2
Versions == 0..LastVersion   \* 0: the ledger is empty

ASSUME StartupBounds == MaxRows \in Nat /\ MaxFaults \in Nat
ASSUME StartupNames == {Nobody, Orphan} \cap Procs = {} /\ Nobody # Orphan

VARIABLES deployment,
          pc,            \* per process: what it does next
          seen,          \* per process: the version and dirty flag it read
          lock,          \* who holds the advisory lock
          ledger,        \* schema_migrations
          measurements,  \* the measurements table: "none", "wide", "narrow"
          catalog,       \* whether the tables sites and devices exist
          rows,          \* the number of measurements
          left,          \* the migration an orphan is running, or 0
          faults

schema == <<measurements, catalog, rows>>
vars == <<deployment, pc, seen, lock, ledger, schema, left, faults>>

PCs == {"down", "connect", "table", "version", "force", "up", "next", "run",
        "clean", "verify", "hint", "ticker", "running"}
Entry(v, d) == [version |-> v, dirty |-> d]

\* A fresh database, or the one an old release has left.
Init == /\ deployment \in Deployments
        /\ pc = [p \in Procs |-> "down"]
        /\ seen = [p \in Procs |-> Entry(0, FALSE)]
        /\ lock = Nobody
        /\ \/ ledger = Entry(0, FALSE) /\ measurements = "none" /\ rows = 0
           \/ ledger = Entry(1, FALSE) /\ measurements = "wide"
              /\ rows \in 0..MaxRows
        /\ catalog = FALSE
        /\ left = 0
        /\ faults = 0

Goto(p, label) == pc' = [pc EXCEPT ![p] = label]
At(p, label) == pc[p] = label
Ended(p) == pc[p] \in {"down", "hint"}
Unlocked(p) == lock' = IF lock = p THEN Nobody ELSE lock
Forget(p) == seen' = [seen EXCEPT ![p] = Entry(0, FALSE)]
Fault == faults < MaxFaults /\ faults' = faults + 1
------------------------------------------------------------------------------
(* main and NewWriter *)

\* main panics on a configuration that LoadConfig does not accept.
Start(p) == /\ Ended(p)
            /\ Goto(p, IF LoadConfig(deployment) THEN "connect" ELSE "down")
            /\ UNCHANGED <<deployment, seen, lock, ledger, schema, left, faults>>

\* The database lets in who comes with the settings that were configured.
Connect(p) ==
    /\ At(p, "connect")
    /\ Goto(p, IF ConnectsAsConfigured(Config(deployment)) THEN "table"
               ELSE "down")
    /\ UNCHANGED <<deployment, seen, lock, ledger, schema, left, faults>>
------------------------------------------------------------------------------
(* RunMigrations *)

\* WithInstance creates the ledger under the lock, for which it waits.
EnsureVersionTable(p) ==
    /\ At(p, "table") /\ lock = Nobody
    /\ Goto(p, "version")
    /\ UNCHANGED <<deployment, seen, lock, ledger, schema, left, faults>>

\* As Version, if a dirty version were left to Up.
VersionUnforced(p) ==
    /\ At(p, "version")
    /\ seen' = [seen EXCEPT ![p] = ledger]
    /\ Goto(p, "up")
    /\ UNCHANGED <<deployment, lock, ledger, schema, left, faults>>

Version(p) ==
    /\ At(p, "version")
    /\ seen' = [seen EXCEPT ![p] = ledger]
    /\ Goto(p, IF ledger.dirty THEN "force" ELSE "up")
    /\ UNCHANGED <<deployment, lock, ledger, schema, left, faults>>

\* A dirty version is entered as clean, under the lock.
ForceVersion(p) ==
    /\ At(p, "force") /\ lock = Nobody
    /\ ledger' = Entry(seen[p].version, FALSE)
    /\ Goto(p, "up")
    /\ UNCHANGED <<deployment, seen, lock, schema, left, faults>>

\* As Up, if it only looked at the lock.
UpUnlocked(p) ==
    /\ At(p, "up") /\ lock = Nobody
    /\ IF ledger.dirty
       THEN Goto(p, "down") /\ Forget(p)
       ELSE Goto(p, "next") /\ seen' = [seen EXCEPT ![p] = ledger]
    /\ UNCHANGED <<deployment, lock, ledger, schema, left, faults>>

\* Up reads the version again, and gives up if it is dirty.
Up(p) == /\ At(p, "up") /\ lock = Nobody
         /\ IF ledger.dirty
            THEN Goto(p, "down") /\ Forget(p) /\ UNCHANGED lock
            ELSE /\ Goto(p, "next")
                 /\ seen' = [seen EXCEPT ![p] = ledger]
                 /\ lock' = p
         /\ UNCHANGED <<deployment, ledger, schema, left, faults>>

\* Force and Up wait for the lock for some seconds only.
LockTimeout(p) == /\ pc[p] \in {"force", "up"} /\ lock # Nobody
                  /\ Goto(p, "down") /\ Forget(p)
                  /\ UNCHANGED <<deployment, lock, ledger, schema, left, faults>>

\* As NextMigration, if it did not know the last one.
NextMigrationPast(p) ==
    /\ At(p, "next")
    /\ ledger' = Entry(seen[p].version + 1, TRUE)
    /\ seen' = [seen EXCEPT ![p] = ledger']
    /\ Goto(p, "run")
    /\ UNCHANGED <<deployment, lock, schema, left, faults>>

\* The next migration is entered as dirty, or there is none.
NextMigration(p) ==
    /\ At(p, "next")
    /\ IF seen[p].version = LastVersion
       THEN Goto(p, "verify") /\ Forget(p) /\ Unlocked(p) /\ UNCHANGED ledger
       ELSE /\ ledger' = Entry(seen[p].version + 1, TRUE)
            /\ seen' = [seen EXCEPT ![p] = ledger']
            /\ Goto(p, "run")
            /\ UNCHANGED lock
    /\ UNCHANGED <<deployment, schema, left, faults>>

\* As Applies, if the files dropped the table they are about to create.
AppliesAlways(v) == TRUE

\* Migration 1 creates the table unless it exists; its index needs the
\* column site_id.  Migration 2 fills the catalog and the narrow table from
\* the site and device columns of the wide one, which it replaces.
Applies(v) == measurements \in IF v = 1 THEN {"none", "wide"} ELSE {"wide"}

\* As Apply, if the statements of migration 2 stopped after the catalog.
ApplyHalf(v) == /\ measurements' = "wide"
                /\ catalog' = (catalog \/ v = 2)
                /\ UNCHANGED rows

Apply(v) == /\ measurements' = IF v = 1 THEN "wide" ELSE "narrow"
            /\ catalog' = (catalog \/ v = 2)
            /\ UNCHANGED rows

Run(p) == /\ At(p, "run") /\ Applies(seen[p].version)
          /\ Apply(seen[p].version)
          /\ Goto(p, "clean")
          /\ UNCHANGED <<deployment, seen, lock, ledger, left, faults>>

\* The transaction is rolled back; the ledger keeps the version as dirty.
RunFails(p) == /\ At(p, "run")
               /\ (~Applies(seen[p].version) /\ UNCHANGED faults) \/ Fault
               /\ Goto(p, "down") /\ Forget(p) /\ Unlocked(p)
               /\ UNCHANGED <<deployment, ledger, schema, left>>

MarkClean(p) == /\ At(p, "clean")
                /\ ledger' = Entry(seen[p].version, FALSE)
                /\ Goto(p, "next")
                /\ UNCHANGED <<deployment, seen, lock, schema, left, faults>>

\* As TablesExist, if the measurements were all that is looked for.
MeasurementsExist == measurements # "none"

\* The tables that must exist whatever the ledger says.
TablesExist == measurements # "none" /\ catalog

Verify(p) == /\ At(p, "verify")
             /\ Goto(p, IF TablesExist THEN "ticker" ELSE "hint")
             /\ UNCHANGED <<deployment, seen, lock, ledger, schema, left, faults>>

\* "DELETE FROM schema_migrations; then restart": the operator does what the
\* message of the failed verification says.
FollowHint(p) == /\ At(p, "hint")
                 /\ ledger' = Entry(0, FALSE)
                 /\ Goto(p, "down")
                 /\ UNCHANGED <<deployment, seen, lock, schema, left, faults>>
------------------------------------------------------------------------------
(* Run, and the end of a process *)

\* time.NewTicker panics unless the interval is positive.
NewTicker(p) ==
    /\ At(p, "ticker")
    /\ Goto(p, IF Config(deployment).pollInterval > 0 THEN "running" ELSE "down")
    /\ UNCHANGED <<deployment, seen, lock, ledger, schema, left, faults>>

Import(p) == /\ At(p, "running") /\ rows < MaxRows
             /\ rows' = rows + 1
             /\ UNCHANGED <<deployment, pc, seen, lock, ledger, measurements,
                            catalog, left, faults>>

\* The process is killed or a statement of its own fails.
Dies(p) == /\ ~Ended(p) /\ Fault
           /\ Goto(p, "down") /\ Forget(p)
           /\ \/ Unlocked(p) /\ UNCHANGED left
              \/ At(p, "run") /\ lock' = Orphan /\ left' = seen[p].version
           /\ UNCHANGED <<deployment, ledger, schema>>

\* The backend that was left behind ends its transaction.
OrphanCommits == /\ lock = Orphan /\ Applies(left)
                 /\ Apply(left)
                 /\ lock' = Nobody /\ left' = 0
                 /\ UNCHANGED <<deployment, pc, seen, ledger, faults>>

OrphanAborts == /\ lock = Orphan
                /\ lock' = Nobody /\ left' = 0
                /\ UNCHANGED <<deployment, pc, seen, ledger, schema, faults>>
------------------------------------------------------------------------------
Proceed(p) == \/ Start(p) \/ Connect(p) \/ EnsureVersionTable(p) \/ Version(p)
              \/ ForceVersion(p) \/ Up(p) \/ LockTimeout(p) \/ NextMigration(p)
              \/ Run(p) \/ RunFails(p) \/ MarkClean(p) \/ Verify(p)
              \/ NewTicker(p)

Next == \/ \E p \in Procs : Proceed(p) \/ FollowHint(p) \/ Import(p) \/ Dies(p)
        \/ OrphanCommits \/ OrphanAborts

Spec == Init /\ [][Next]_vars

\* Processes run and are started again, transactions end, and the operator
\* sees to a hint that comes up again and again.
FairSpec == /\ Spec
            /\ \A p \in Procs : WF_vars(Proceed(p)) /\ SF_vars(FollowHint(p))
            /\ WF_vars(OrphanCommits \/ OrphanAborts)
------------------------------------------------------------------------------
(* Properties *)

\* Type invariant of processes, ledger and schema.
TypeOk == /\ deployment \in Deployments
          /\ pc \in [Procs -> PCs]
          /\ seen \in [Procs -> [version : Versions, dirty : BOOLEAN]]
          /\ lock \in Procs \cup {Nobody, Orphan}
          /\ ledger \in [version : Versions, dirty : BOOLEAN]
          /\ measurements \in {"none", "wide", "narrow"}
          /\ catalog \in BOOLEAN
          /\ rows \in 0..MaxRows
          /\ left \in Versions
          /\ faults \in 0..MaxFaults

\* A process that polls has the tables its writer needs, however the ledger
\* came to say so: a dirty version is forced without having been applied, and
\* only the tables are looked at after that (migrations.go:50, 77).
RunsOnSchema == \A p \in Procs : pc[p] \in {"ticker", "running"} =>
                                    measurements = "narrow" /\ catalog

\* Why: the catalog and the narrow table come and go together, also when an
\* orphan brings them about, and a migration that runs is one of the two.
SchemaAccounted ==
    /\ catalog <=> measurements = "narrow"
    /\ \A p \in Procs : pc[p] = "run" => seen[p].version \in 1..LastVersion
    /\ lock = Orphan => left \in 1..LastVersion
    /\ RunsOnSchema

\* Starts that overlap do not need the operator: the version one of them reads
\* without the lock may be stale when it forces it, but it takes a failure for
\* the ledger to be ahead of the tables (migrations.go:45, 52).
HintNeedsFault == (\E p \in Procs : pc[p] = "hint") => faults > 0

\* No start takes measurements away or falls back to an older schema, also
\* when the hint is followed on a database that is up to date and every
\* migration is tried again (000001 and 000002 up.sql, migrations.go:106).
NothingLost == [][/\ rows' >= rows
                  /\ catalog => catalog'
                  /\ measurements = "narrow" => measurements' = "narrow"]_vars

\* Of the configurations that are accepted, the driver reads as they were meant
\* exactly those without a special value and with a value in every field that
\* is always written, wherever the settings come from: leaving the optional
\* fields out when they are empty is what keeps the others readable, and nothing
\* that is special makes up for another (config.go:279, 288).
Written(c) == {c[k] : k \in {"host", "user", "database", "sslmode"}}
ReadBack ==
    LET c == Config(deployment)
    IN LoadConfig(deployment) =>
          (ConnectsAsConfigured(c) <=>
              /\ Blank \notin Written(c)
              /\ \A k \in ConnectionKeys : c[k] \notin Special)

\* A start that fails is not the last word: whatever deaths and failures left
\* in the ledger, the process polls in the end, if the operator follows the hint
\* where it keeps coming up, and if the configuration has a positive interval
\* and reads back as it was meant (migrations.go:50, 106, main.go:145).
Sound(dep) == /\ LoadConfig(dep) /\ ConnectsAsConfigured(Config(dep))
              /\ Config(dep).pollInterval > 0
StartsInTheEnd ==
    \A p \in Procs : Sound(deployment) /\ pc[p] # "running" ~> pc[p] = "running"
==============================================================================
