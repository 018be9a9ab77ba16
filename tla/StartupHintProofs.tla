--------------------------- MODULE StartupHintProofs ---------------------------
(***************************************************************************)
(* Starts that overlap do not need the operator: the theorem HintNeedsFault *)
(* of Startup, for any number of processes.                                *)
(***************************************************************************)
EXTENDS StartupProofs

\* The version the tables are at.
Level == IF measurements = "none" THEN 0
         ELSE IF measurements = "wide" THEN 1 ELSE 2

\* The tables are at version v, or will be when the migration that is running
\* has ended.
Promised(v) == \/ v <= Level
               \/ \E q \in Procs : pc[q] = "run" /\ v <= seen[q].version

\* The advisory lock is held by the process that migrates.
Migrating(p) == pc[p] \in {"next", "run", "clean"}
LockHeld == \A p \in Procs : lock = p <=> Migrating(p)

\* While nothing fails: the ledger, and what was read of it to be forced, are
\* at most one migration ahead of the tables, the one the holder of the lock
\* is running; no process has left its transaction behind.
Behind(p) == /\ pc[p] = "force" => Promised(seen[p].version)
             /\ pc[p] \in {"next", "clean"} => seen[p].version <= Level
             /\ pc[p] = "run" => seen[p].version <= Level + 1
             /\ pc[p] = "verify" => Level = LastVersion
             /\ pc[p] # "hint"
Smooth == /\ lock # Orphan
          /\ Promised(ledger.version)
          /\ \A p \in Procs : Behind(p)

Orderly == TypeOk /\ SchemaAccounted /\ LockHeld /\ (faults = 0 => Smooth)
------------------------------------------------------------------------------
(* The advisory lock *)

\* A step of a process leaves the others where they are.
LEMMA ProcessStep ==
    ASSUME TypeOk, NEW p \in Procs,
           Proceed(p) \/ FollowHint(p) \/ Import(p) \/ Dies(p)
    PROVE  \A q \in Procs \ {p} : pc'[q] = pc[q] /\ seen'[q] = seen[q]
<1>1. pc' = pc \/ \E label : Goto(p, label)
  BY Zenon DEF Proceed, Start, Connect, EnsureVersionTable, Version, ForceVersion,
     Up, LockTimeout, NextMigration, Run, RunFails, MarkClean, Verify, NewTicker,
     FollowHint, Import, Dies
<1>2. seen' = seen \/ \E e : seen' = [seen EXCEPT ![p] = e]
  BY Zenon DEF Proceed, Start, Connect, EnsureVersionTable, Version, ForceVersion,
     Up, LockTimeout, NextMigration, Run, RunFails, MarkClean, Verify, NewTicker,
     FollowHint, Import, Dies, Forget
<1> QED BY <1>1, <1>2 DEF TypeOk, Goto

\* Where a step takes its process.
LEMMA Arrives ==
    ASSUME TypeOk, NEW p \in Procs, NEW label, Goto(p, label)
    PROVE  pc'[p] = label
  BY DEF TypeOk, Goto

\* A migration runs under the lock, and under the lock only.
LEMMA LockStep ==
    ASSUME TypeOk, LockHeld, [Next]_vars
    PROVE  LockHeld'
<1> DEFINE Alone(p) == \A q \in Procs \ {p} : pc'[q] = pc[q]
<1>1. Nobody \notin Procs /\ Orphan \notin Procs
  BY StartupNames
<1>2. ASSUME NEW p \in Procs, Alone(p), lock' = lock,
             Migrating(p)' <=> Migrating(p)
      PROVE  LockHeld'
  BY <1>2, Zenon DEF LockHeld, Migrating
<1>3. ASSUME NEW p \in Procs, Alone(p), Unlocked(p) \/ (lock' = Orphan /\ lock = p),
             ~Migrating(p)'
      PROVE  LockHeld'
  <2>1. \A q \in Procs \ {p} : lock' = q <=> lock = q
    BY <1>1, <1>3 DEF Unlocked
  <2>2. lock' # p
    BY <1>1, <1>3 DEF Unlocked
  <2> QED BY <1>3, <2>1, <2>2 DEF LockHeld, Migrating
<1>4. ASSUME NEW p \in Procs, Proceed(p) \/ FollowHint(p) \/ Import(p) \/ Dies(p)
      PROVE  LockHeld'
  <2>1. Alone(p)
    BY <1>4, ProcessStep
  <2>2. CASE \/ Start(p) \/ Connect(p) \/ EnsureVersionTable(p) \/ Version(p)
             \/ ForceVersion(p) \/ LockTimeout(p) \/ Verify(p) \/ NewTicker(p)
             \/ FollowHint(p)
    <3> DEFINE Idle == {"connect", "down", "table", "version", "force", "up",
                        "ticker", "hint", "running"}
    <3>1. lock' = lock /\ ~Migrating(p) /\ \E label \in Idle : Goto(p, label)
      BY <2>2 DEF Start, Connect, EnsureVersionTable, Version, ForceVersion,
         LockTimeout, Verify, NewTicker, FollowHint, Migrating, At, Ended
    <3>2. ~Migrating(p)'
      BY <3>1, Arrives DEF Migrating
    <3> QED BY <1>2, <2>1, <3>1, <3>2
  <2>3. CASE Run(p) \/ MarkClean(p)
    <3>1. lock' = lock /\ Migrating(p) /\ (Goto(p, "clean") \/ Goto(p, "next"))
      BY <2>3 DEF Run, MarkClean, Migrating, At
    <3>2. Migrating(p)'
      BY <3>1, Arrives DEF Migrating
    <3> QED BY <1>2, <2>1, <3>1, <3>2
  <2>4. CASE Up(p)
    <3>1. lock = Nobody /\ ~Migrating(p)
      BY <2>4 DEF Up, At, Migrating
    <3>2. CASE ledger.dirty
      <4>1. lock' = lock /\ Goto(p, "down")
        BY <2>4, <3>2 DEF Up
      <4>2. ~Migrating(p)'
        BY <4>1, Arrives DEF Migrating
      <4> QED BY <1>2, <2>1, <3>1, <4>1, <4>2
    <3>3. CASE ~ledger.dirty
      <4>1. lock' = p /\ Goto(p, "next")
        BY <2>4, <3>3 DEF Up
      <4>2. pc'[p] = "next"
        BY <4>1, Arrives
      <4>3. \A q \in Procs : ~Migrating(q)
        BY <1>1, <3>1 DEF LockHeld
      <4>4. Migrating(p)'
        BY <4>2 DEF Migrating
      <4>5. \A q \in Procs \ {p} : lock' # q /\ ~Migrating(q)'
        BY <2>1, <4>1, <4>3 DEF Migrating
      <4> QED BY <4>1, <4>4, <4>5, Zenon DEF LockHeld
    <3> QED BY <3>2, <3>3
  <2>5. CASE NextMigration(p)
    <3>1. Migrating(p)
      BY <2>5 DEF NextMigration, At, Migrating
    <3>2. \/ Goto(p, "verify") /\ Unlocked(p)
          \/ Goto(p, "run") /\ lock' = lock
      BY <2>5, Zenon DEF NextMigration
    <3>3. CASE Goto(p, "verify") /\ Unlocked(p)
      <4>1. ~Migrating(p)'
        BY <3>3, Arrives DEF Migrating
      <4> QED BY <1>3, <2>1, <3>3, <4>1
    <3>4. CASE Goto(p, "run") /\ lock' = lock
      <4>1. Migrating(p)'
        BY <3>4, Arrives DEF Migrating
      <4> QED BY <1>2, <2>1, <3>1, <3>4, <4>1
    <3> QED BY <3>2, <3>3, <3>4
  <2>6. CASE RunFails(p) \/ Dies(p)
    <3>1. /\ Goto(p, "down")
          /\ Unlocked(p) \/ (lock' = Orphan /\ pc[p] = "run")
      BY <2>6 DEF RunFails, Dies, At
    <3>2. ~Migrating(p)'
      BY <3>1, Arrives DEF Migrating
    <3>3. pc[p] = "run" => lock = p
      BY DEF LockHeld, Migrating
    <3> QED BY <1>3, <2>1, <3>1, <3>2, <3>3
  <2>7. CASE Import(p)
    BY <2>7 DEF Import, LockHeld, Migrating
  <2> QED BY <1>4, <2>2, <2>3, <2>4, <2>5, <2>6, <2>7 DEF Proceed
<1>5. CASE OrphanCommits \/ OrphanAborts
  <2>1. lock = Orphan /\ lock' = Nobody /\ pc' = pc
    BY <1>5 DEF OrphanCommits, OrphanAborts
  <2> QED BY <1>1, <2>1 DEF LockHeld, Migrating
<1>6. CASE UNCHANGED vars
  BY <1>6 DEF vars, LockHeld, Migrating
<1> QED BY <1>4, <1>5, <1>6 DEF Next
------------------------------------------------------------------------------
(* The ledger and the tables *)

LEMMA LevelType ==
    ASSUME TypeOk
    PROVE  /\ Level \in 0..LastVersion /\ ledger.version \in Int
           /\ \A p \in Procs : seen[p].version \in 0..LastVersion
  BY DEF TypeOk, Level, LastVersion, Versions

LEMMA LevelTypeNext ==
    ASSUME TypeOk'
    PROVE  /\ Level' \in 0..LastVersion /\ ledger'.version \in Int
           /\ \A p \in Procs : seen'[p].version \in 0..LastVersion
  BY DEF TypeOk, Level, LastVersion, Versions

\* What p may do: the tables do not fall back, and a migration of p that is
\* over is in them.
Advances(p) == /\ Level <= Level'
               /\ pc[p] = "run" => seen[p].version <= Level'
               /\ \A q \in Procs \ {p} : pc'[q] = pc[q] /\ seen'[q] = seen[q]

LEMMA PromiseKept ==
    ASSUME TypeOk, TypeOk', NEW p \in Procs, Advances(p),
           NEW v \in Int, Promised(v)
    PROVE  Promised(v)'
<1>1. CASE v <= Level
  BY <1>1, LevelType, LevelTypeNext DEF Advances, Promised, LastVersion
<1>2. ASSUME NEW q \in Procs, pc[q] = "run" /\ v <= seen[q].version
      PROVE  Promised(v)'
  <2>1. CASE q = p
    <3>1. v <= Level'
      BY <1>2, <2>1, LevelType, LevelTypeNext DEF Advances, LastVersion
    <3> QED BY <3>1 DEF Promised
  <2>2. CASE q # p
    <3>1. pc'[q] = "run" /\ v <= seen'[q].version
      BY <1>2, <2>2 DEF Advances
    <3> QED BY <3>1 DEF Promised
  <2> QED BY <2>1, <2>2
<1> QED BY <1>1, <1>2 DEF Promised

\* Such a step keeps the ledger and the tables in order, if it does for its
\* own process and for what it enters in the ledger.
LEMMA Kept ==
    ASSUME TypeOk, TypeOk', Smooth, NEW p \in Procs, Advances(p),
           lock' # Orphan, ledger' = ledger \/ Promised(ledger.version)',
           Behind(p)'
    PROVE  Smooth'
<1>1. Promised(ledger.version)'
  BY PromiseKept, LevelType DEF Smooth
<1>2. ASSUME NEW q \in Procs \ {p} PROVE Behind(q)'
  <2>1. /\ pc'[q] = pc[q] /\ seen'[q] = seen[q] /\ Behind(q)
        /\ Level \in 0..LastVersion /\ Level' \in 0..LastVersion
        /\ Level <= Level' /\ seen[q].version \in 0..LastVersion
    BY LevelType, LevelTypeNext DEF Advances, Smooth
  <2> PICK v \in Int : v = seen[q].version
    BY <2>1 DEF LastVersion
  <2>2. ASSUME pc[q] = "force"
        PROVE  \/ v <= Level'
               \/ \E o \in Procs : pc'[o] = "run" /\ v <= seen'[o].version
    <3>1. Promised(v)
      BY <2>1, <2>2 DEF Behind
    <3>2. Promised(v)'
      BY <3>1, PromiseKept
    <3> QED BY <3>2 DEF Promised
  <2>3. /\ pc[q] \in {"next", "clean"} => seen[q].version <= Level'
        /\ pc[q] = "run" => seen[q].version <= Level' + 1
        /\ pc[q] = "verify" => Level' = LastVersion
        /\ pc[q] # "hint"
    BY <2>1 DEF Behind, LastVersion
  <2> QED BY <2>1, <2>2, <2>3 DEF Behind, Promised
<1> QED BY <1>1, <1>2 DEF Smooth

\* With the lock free no migration is running.
LEMMA NoneRuns ==
    ASSUME LockHeld, lock = Nobody, NEW v, Promised(v)
    PROVE  v <= Level
  BY StartupNames DEF LockHeld, Migrating, Promised

\* A step outside a migration, to a place that promises nothing.
LEMMA Elsewhere ==
    ASSUME TypeOk, TypeOk', Smooth, NEW p \in Procs,
           Proceed(p), pc[p] # "run", UNCHANGED <<measurements, ledger>>,
           lock' # Orphan, Behind(p)'
    PROVE  Smooth'
<1>1. Level' = Level
  BY DEF Level
<1>2. Advances(p)
  BY <1>1, LevelType, ProcessStep DEF Advances, LastVersion
<1> QED BY <1>2, Kept

LEMMA Plain ==
    ASSUME NEW p, pc[p] \notin {"force", "next", "clean", "run", "verify", "hint"}
    PROVE  Behind(p)
  BY DEF Behind

LEMMA ElsewhereKeeps ==
    ASSUME TypeOk, TypeOk', Smooth, LockHeld, NEW p \in Procs,
           \/ Start(p) \/ Connect(p) \/ EnsureVersionTable(p) \/ Version(p)
           \/ Up(p) \/ LockTimeout(p) \/ Verify(p) \/ NewTicker(p),
           SchemaAccounted
    PROVE  Smooth'
<1>1. Proceed(p) /\ pc[p] # "run" /\ UNCHANGED <<measurements, ledger>>
      /\ lock' \in {lock, p}
  BY DEF Proceed, Start, Connect, EnsureVersionTable, Version, Up, LockTimeout,
     Verify, NewTicker, At, Ended, schema
<1>2. lock' # Orphan
  BY <1>1, StartupNames DEF Smooth
<1>3. CASE \/ Start(p) \/ Connect(p) \/ EnsureVersionTable(p) \/ LockTimeout(p)
           \/ NewTicker(p)
  <2>1. \E label \in {"connect", "down", "table", "version", "running"} :
           Goto(p, label)
    BY <1>3 DEF Start, Connect, EnsureVersionTable, LockTimeout, NewTicker
  <2>2. Behind(p)'
    BY <2>1, Arrives DEF Behind
  <2> QED BY <1>1, <1>2, <2>2, Elsewhere
<1>4. CASE Version(p)
  <2>1. /\ seen' = [seen EXCEPT ![p] = ledger] /\ ledger' = ledger
        /\ Goto(p, "force") \/ Goto(p, "up")
    BY <1>4 DEF Version
  <2>2. seen'[p] = ledger
    BY <2>1 DEF TypeOk
  <2>3. pc'[p] \in {"force", "up"}
    BY <2>1, Arrives
  <2>4. Advances(p)
    BY <1>1, LevelType, ProcessStep DEF Advances, LastVersion, Level
  <2>5. PICK v \in Int : v = ledger.version
    BY LevelType
  <2>6. Promised(v)'
    BY <2>4, <2>5, PromiseKept DEF Smooth
  <2>7. Behind(p)'
    BY <2>2, <2>3, <2>5, <2>6 DEF Behind, Promised
  <2> QED BY <1>1, <1>2, <2>7, Elsewhere
<1>5. CASE Up(p)
  <2>1. CASE ledger.dirty
    <3>1. Goto(p, "down")
      BY <1>5, <2>1 DEF Up
    <3>2. Behind(p)'
      BY <3>1, Arrives DEF Behind
    <3> QED BY <1>1, <1>2, <3>2, Elsewhere
  <2>2. CASE ~ledger.dirty
    <3>1. /\ lock = Nobody /\ Goto(p, "next")
          /\ seen' = [seen EXCEPT ![p] = ledger]
      BY <1>5, <2>2 DEF Up
    <3>2. ledger.version <= Level
      BY <3>1, NoneRuns DEF Smooth
    <3>3. pc'[p] = "next" /\ seen'[p] = ledger /\ Level' = Level
      BY <1>1, <3>1, Arrives DEF TypeOk, Level
    <3>4. Behind(p)'
      BY <3>2, <3>3 DEF Behind
    <3> QED BY <1>1, <1>2, <3>4, Elsewhere
  <2> QED BY <2>1, <2>2
<1>6. CASE Verify(p)
  <2>1. Level = LastVersion
    BY <1>6 DEF Verify, At, Smooth, Behind
  <2>2. TablesExist
    BY <2>1 DEF Level, LastVersion, TablesExist, SchemaAccounted, TypeOk
  <2>3. Goto(p, "ticker")
    BY <1>6, <2>2 DEF Verify
  <2>4. Behind(p)'
    BY <2>3, Arrives DEF Behind
  <2> QED BY <1>1, <1>2, <2>4, Elsewhere
<1> QED BY <1>3, <1>4, <1>5, <1>6

\* What is forced waited for the lock, so the migration it was dirty for is
\* over.
LEMMA ForceKeeps ==
    ASSUME TypeOk, TypeOk', Smooth, LockHeld, NEW p \in Procs, ForceVersion(p)
    PROVE  Smooth'
<1>1. /\ pc[p] = "force" /\ lock = Nobody /\ lock' = lock
      /\ ledger' = Entry(seen[p].version, FALSE)
      /\ Goto(p, "up") /\ measurements' = measurements
  BY DEF ForceVersion, At, schema
<1>2. seen[p].version <= Level
  BY <1>1, NoneRuns DEF Smooth, Behind
<1>3. Level' = Level /\ ledger'.version = seen[p].version
  BY <1>1 DEF Level, Entry
<1>4. Promised(ledger.version)'
  BY <1>2, <1>3 DEF Promised
<1>5. Advances(p)
  BY <1>1, <1>3, LevelType, ProcessStep DEF Advances, LastVersion, Proceed
<1>6. Behind(p)'
  BY <1>1, Arrives DEF Behind
<1> QED BY <1>1, <1>4, <1>5, <1>6, Kept DEF Smooth

LEMMA NextMigrationSmooth ==
    ASSUME TypeOk, TypeOk', Smooth, NEW p \in Procs, NextMigration(p)
    PROVE  Smooth'
<1>1. /\ pc[p] = "next" /\ measurements' = measurements
      /\ seen[p].version <= Level
  BY DEF NextMigration, At, schema, Smooth, Behind
<1>2. Level' = Level
  BY <1>1 DEF Level
<1>3. Advances(p)
  BY <1>1, <1>2, LevelType, ProcessStep DEF Advances, LastVersion, Proceed
<1>4. CASE seen[p].version = LastVersion
  <2>1. Goto(p, "verify") /\ Unlocked(p) /\ ledger' = ledger
    BY <1>4, Zenon DEF NextMigration
  <2>2. Behind(p)'
    <3>1. Level' = LastVersion
      BY <1>1, <1>2, <1>4, LevelType DEF LastVersion
    <3>2. pc'[p] = "verify"
      BY <2>1, Arrives
    <3> QED BY <3>1, <3>2 DEF Behind
  <2>3. lock' # Orphan
    BY <2>1, StartupNames DEF Unlocked, Smooth
  <2> QED BY <1>3, <2>1, <2>2, <2>3, Kept
<1>5. CASE seen[p].version # LastVersion
  <2>1. /\ ledger' = Entry(seen[p].version + 1, TRUE)
        /\ seen' = [seen EXCEPT ![p] = ledger']
        /\ Goto(p, "run") /\ lock' = lock
    BY <1>5, Zenon DEF NextMigration
  <2>2. seen'[p] = ledger' /\ pc'[p] = "run"
    BY <2>1, Arrives DEF TypeOk
  <2>3. ledger'.version = seen[p].version + 1
    BY <2>1 DEF Entry
  <2>4. Promised(ledger.version)'
    <3>1. ledger'.version <= seen'[p].version
      BY <2>2, LevelTypeNext
    <3> QED BY <2>2, <3>1 DEF Promised
  <2>5. Behind(p)'
    BY <1>1, <1>2, <2>2, <2>3, LevelType DEF Behind, LastVersion
  <2> QED BY <1>3, <2>1, <2>4, <2>5, Kept DEF Smooth
<1> QED BY <1>4, <1>5

LEMMA RunSmooth ==
    ASSUME TypeOk, TypeOk', SchemaAccounted, Smooth, NEW p \in Procs, Run(p)
    PROVE  Smooth'
<1>1. /\ pc[p] = "run" /\ lock' = lock /\ ledger' = ledger /\ seen' = seen
      /\ Applies(seen[p].version) /\ Apply(seen[p].version) /\ Goto(p, "clean")
  BY DEF Run, At
<1>2. seen[p].version \in {1, 2}
  BY <1>1 DEF SchemaAccounted, LastVersion
<1>3. Level' = seen[p].version /\ Level <= Level'
  <2>1. CASE seen[p].version = 1
    BY <1>1, <2>1 DEF Applies, Apply, Level
  <2>2. CASE seen[p].version = 2
    BY <1>1, <2>2 DEF Applies, Apply, Level
  <2> QED BY <1>2, <2>1, <2>2
<1>4. Advances(p)
  BY <1>2, <1>3, ProcessStep DEF Advances, Proceed
<1>5. pc'[p] = "clean" /\ seen'[p].version <= Level'
  BY <1>1, <1>2, <1>3, Arrives
<1>6. Behind(p)'
  BY <1>5 DEF Behind
<1> QED BY <1>1, <1>4, <1>6, Kept DEF Smooth

\* A migration that cannot be applied is in the tables already.
LEMMA RunFailsSmooth ==
    ASSUME TypeOk, TypeOk', SchemaAccounted, Smooth, NEW p \in Procs,
           RunFails(p), ~Fault
    PROVE  Smooth'
<1>1. /\ pc[p] = "run" /\ ~Applies(seen[p].version) /\ ledger' = ledger
      /\ Goto(p, "down") /\ Unlocked(p) /\ measurements' = measurements
  BY DEF RunFails, At, schema
<1>2. seen[p].version \in {1, 2} /\ seen[p].version <= Level + 1
  BY <1>1 DEF SchemaAccounted, LastVersion, Smooth, Behind
<1>3. seen[p].version <= Level
  BY <1>1, <1>2 DEF Applies, Level, TypeOk
<1>4. Level' = Level
  BY <1>1 DEF Level
<1>5. Advances(p)
  BY <1>3, <1>4, LevelType, ProcessStep DEF Advances, LastVersion, Proceed
<1>6. Behind(p)'
  BY <1>1, Arrives DEF Behind
<1>7. lock' # Orphan
  BY <1>1, StartupNames DEF Unlocked, Smooth
<1> QED BY <1>1, <1>5, <1>6, <1>7, Kept

LEMMA MarkCleanSmooth ==
    ASSUME TypeOk, TypeOk', Smooth, NEW p \in Procs, MarkClean(p)
    PROVE  Smooth'
<1>1. /\ pc[p] = "clean" /\ lock' = lock /\ seen' = seen
      /\ ledger' = Entry(seen[p].version, FALSE)
      /\ Goto(p, "next") /\ measurements' = measurements
  BY DEF MarkClean, At, schema
<1>2. seen[p].version <= Level
  BY <1>1 DEF Smooth, Behind
<1>3. Level' = Level /\ ledger'.version = seen[p].version
  BY <1>1 DEF Level, Entry
<1>4. Promised(ledger.version)'
  BY <1>2, <1>3 DEF Promised
<1>5. Advances(p)
  BY <1>1, <1>3, LevelType, ProcessStep DEF Advances, LastVersion, Proceed
<1>6. pc'[p] = "next" /\ seen'[p].version <= Level'
  BY <1>1, <1>2, <1>3, Arrives
<1>7. Behind(p)'
  BY <1>6 DEF Behind
<1> QED BY <1>1, <1>4, <1>5, <1>7, Kept DEF Smooth

LEMMA SmoothStep ==
    ASSUME Orderly, Smooth, TypeOk', [Next]_vars, ~Fault
    PROVE  Smooth'
<1>1. ASSUME NEW p \in Procs, Proceed(p)
      PROVE  Smooth'
  BY <1>1, ElsewhereKeeps, ForceKeeps, NextMigrationSmooth, RunSmooth,
     RunFailsSmooth, MarkCleanSmooth DEF Proceed, Orderly
<1>2. ASSUME NEW p \in Procs PROVE ~FollowHint(p) /\ ~Dies(p)
  BY DEF FollowHint, Dies, At, Smooth, Behind
<1>3. ASSUME UNCHANGED <<pc, seen, lock, ledger, measurements>>
      PROVE  Smooth'
  BY <1>3 DEF Smooth, Behind, Promised, Level
<1>4. ASSUME NEW p \in Procs, Import(p) PROVE Smooth'
  BY <1>3, <1>4 DEF Import
<1>5. ~OrphanCommits /\ ~OrphanAborts
  BY DEF OrphanCommits, OrphanAborts, Smooth
<1>6. ASSUME UNCHANGED vars PROVE Smooth'
  BY <1>3, <1>6 DEF vars, schema
<1> QED BY <1>1, <1>2, <1>4, <1>5, <1>6 DEF Next

\* Without a failure in this step and before, faults stays zero.
LEMMA NoFaultYet ==
    ASSUME TypeOk, [Next]_vars, faults' = 0
    PROVE  faults = 0 /\ ~Fault
<1>1. faults \in Nat
  BY StartupBounds DEF TypeOk
<1>2. faults' = faults \/ faults' = faults + 1
  BY Zenon DEF Next, vars, Proceed, Start, Connect, EnsureVersionTable, Version,
     ForceVersion, Up, LockTimeout, NextMigration, Run, RunFails, MarkClean,
     Verify, NewTicker, FollowHint, Import, Dies, OrphanCommits, OrphanAborts,
     Fault
<1> QED BY <1>1, <1>2 DEF Fault

LEMMA OrderlyInit == Init => Orderly
<1> SUFFICES ASSUME Init PROVE Orderly
  OBVIOUS
<1>1. /\ \A p \in Procs : pc[p] = "down"
      /\ lock = Nobody
      /\ ledger.version <= Level
  <2>1. ledger.version <= Level
    <3>1. CASE ledger = Entry(0, FALSE) /\ measurements = "none"
      <4>1. ledger.version = 0 /\ Level = 0
        BY <3>1 DEF Entry, Level
      <4> QED BY <4>1
    <3>2. CASE ledger = Entry(1, FALSE) /\ measurements = "wide"
      <4>1. ledger.version = 1 /\ Level = 1
        BY <3>2 DEF Entry, Level
      <4> QED BY <4>1
    <3> QED BY <3>1, <3>2, Zenon DEF Init
  <2>2. \A p \in Procs : pc[p] = "down"
    BY DEF Init
  <2>3. lock = Nobody
    BY DEF Init
  <2> QED BY <2>1, <2>2, <2>3
<1>2. LockHeld
  BY <1>1, StartupNames DEF LockHeld, Migrating
<1>3. Smooth
  BY <1>1, StartupNames, Plain DEF Smooth, Promised
<1> QED BY <1>2, <1>3, InitCorrect DEF Orderly

\* No start needs the operator's hint unless something has failed, for any
\* number of processes that start at once (migrations.go:45, 52).
THEOREM HintsNeedFaults == Spec => []HintNeedsFault
<1>1. Orderly /\ [Next]_vars => Orderly'
  <2> SUFFICES ASSUME Orderly, [Next]_vars PROVE Orderly'
    OBVIOUS
  <2>1. TypeOk' /\ SchemaAccounted'
    BY NextKeeps DEF Orderly
  <2>2. LockHeld'
    BY LockStep DEF Orderly
  <2>3. ASSUME faults' = 0 PROVE Smooth'
    <3>1. faults = 0 /\ ~Fault
      BY <2>3, NoFaultYet DEF Orderly
    <3> QED BY <2>1, <3>1, SmoothStep DEF Orderly
  <2> QED BY <2>1, <2>2, <2>3 DEF Orderly
<1>2. Orderly => HintNeedsFault
  <2> SUFFICES ASSUME Orderly, NEW p \in Procs, pc[p] = "hint" PROVE faults > 0
    BY DEF HintNeedsFault
  <2>1. faults # 0
    BY DEF Orderly, Smooth, Behind
  <2>2. faults \in Nat
    BY StartupBounds DEF Orderly, TypeOk
  <2> QED BY <2>1, <2>2
<1> QED BY <1>1, <1>2, OrderlyInit, PTL DEF Spec
================================================================================
