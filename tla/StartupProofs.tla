----------------------------- MODULE StartupProofs -----------------------------
(***************************************************************************)
(* Theorems about Startup, for any processes, deployments and bounds.      *)
(***************************************************************************)
EXTENDS Startup, TLAPS

\* What a migration does keeps the types of the schema, the catalog and the
\* narrow table together, and what is there already.
LEMMA Migrated ==
    ASSUME TypeOk, catalog <=> measurements = "narrow",
           NEW v \in 1..LastVersion, Applies(v), Apply(v)
    PROVE  /\ measurements' \in {"none", "wide", "narrow"}
           /\ catalog' \in BOOLEAN /\ rows' = rows
           /\ catalog' <=> measurements' = "narrow"
           /\ measurements # "narrow"
<1>1. rows' = rows /\ catalog \in BOOLEAN
  BY DEF Apply, TypeOk
<1>2. CASE v = 1
  <2>1. measurements # "narrow" /\ measurements' = "wide"
    BY <1>2 DEF Applies, Apply
  <2>2. v # 2
    BY <1>2
  <2>3. catalog' = (catalog \/ FALSE)
    BY <2>2, Zenon DEF Apply
  <2>4. catalog' = FALSE
    BY <2>1, <2>3
  <2> QED BY <1>1, <2>1, <2>4
<1>3. CASE v = 2
  <2>1. v # 1
    BY <1>3
  <2>2. measurements # "narrow" /\ measurements' = "narrow"
    BY <2>1 DEF Applies, Apply
  <2>3. catalog' = (catalog \/ v = 2)
    BY Zenon DEF Apply
  <2>4. catalog' = TRUE
    BY <1>3, <2>3, Zenon
  <2> QED BY <1>1, <2>2, <2>4
<1> QED BY <1>2, <1>3 DEF LastVersion

Live == {"ticker", "running"}
Reads == [version : Versions, dirty : BOOLEAN]

LEMMA InitCorrect == Init => TypeOk /\ SchemaAccounted
<1> SUFFICES ASSUME Init PROVE TypeOk /\ SchemaAccounted
  OBVIOUS
<1>1. Entry(0, FALSE) \in Reads /\ Entry(1, FALSE) \in Reads
  BY DEF Entry, Versions, LastVersion, Reads
<1>2. pc \in [Procs -> PCs] /\ seen \in [Procs -> Reads]
  BY <1>1 DEF Init, PCs
<1>3. ledger \in Reads /\ measurements \in {"none", "wide", "narrow"}
  BY <1>1 DEF Init
<1>4. rows \in 0..MaxRows /\ faults \in 0..MaxFaults /\ left \in Versions
  <2>1. 0 \in 0..MaxRows /\ 0 \in 0..MaxFaults /\ 0 \in Versions
    BY StartupBounds DEF Versions, LastVersion
  <2>2. (rows = 0 \/ rows \in 0..MaxRows) /\ faults = 0 /\ left = 0
    BY Zenon DEF Init
  <2> QED BY <2>1, <2>2, Zenon
<1>5. deployment \in Deployments /\ lock \in Procs \cup {Nobody, Orphan}
      /\ catalog \in BOOLEAN
  BY DEF Init
<1>6. TypeOk
  BY <1>2, <1>3, <1>4, <1>5 DEF TypeOk, Reads
<1>7. measurements # "narrow" /\ ~catalog /\ lock # Orphan
  BY StartupNames DEF Init
<1>8. \A p \in Procs : pc[p] = "down"
  BY DEF Init
<1>9. SchemaAccounted
  BY <1>7, <1>8, Zenon DEF SchemaAccounted, RunsOnSchema
<1> QED BY <1>6, <1>9

(* Steps *)

LEMMA GotoType ==
    ASSUME TypeOk, NEW p \in Procs, NEW label \in PCs, Goto(p, label)
    PROVE  /\ pc' \in [Procs -> PCs]
           /\ pc'[p] = label
           /\ \A q \in Procs \ {p} : pc'[q] = pc[q]
  BY DEF TypeOk, Goto

LEMMA SeenType ==
    ASSUME TypeOk, NEW p \in Procs, NEW e \in Reads,
           seen' = [seen EXCEPT ![p] = e]
    PROVE  /\ seen' \in [Procs -> Reads]
           /\ seen'[p] = e
           /\ \A q \in Procs \ {p} : seen'[q] = seen[q]
  BY DEF TypeOk, Reads

LEMMA ForgetType ==
    ASSUME TypeOk, NEW p \in Procs, Forget(p)
    PROVE  /\ seen' \in [Procs -> Reads]
           /\ \A q \in Procs \ {p} : seen'[q] = seen[q]
<1>1. Entry(0, FALSE) \in Reads
  BY DEF Entry, Versions, LastVersion, Reads
<1> QED BY <1>1, SeenType DEF Forget

LEMMA UnlockedType ==
    ASSUME TypeOk, NEW p \in Procs, Unlocked(p)
    PROVE  /\ lock' \in Procs \cup {Nobody, Orphan}
           /\ lock' = Orphan => lock = Orphan
  BY StartupNames DEF TypeOk, Unlocked

LEMMA FaultType ==
    ASSUME TypeOk, Fault
    PROVE  faults' \in 0..MaxFaults
  BY StartupBounds DEF TypeOk, Fault

\* A step of p that leaves the schema alone, takes p nowhere near a migration
\* or the loop, and leaves no orphan, keeps the account.
LEMMA Quiet ==
    ASSUME TypeOk, SchemaAccounted, NEW p \in Procs,
           UNCHANGED <<measurements, catalog, left>>,
           lock' = Orphan => lock = Orphan,
           pc'[p] \notin Live \cup {"run"},
           \A q \in Procs \ {p} : pc'[q] = pc[q] /\ seen'[q] = seen[q]
    PROVE  SchemaAccounted'
<1>1. measurements' = measurements /\ catalog' = catalog /\ left' = left
  OBVIOUS
<1>2. ASSUME NEW q \in Procs, pc'[q] = "run"
      PROVE  seen'[q].version \in 1..LastVersion
  BY <1>2 DEF SchemaAccounted
<1>3. ASSUME NEW q \in Procs, pc'[q] \in Live
      PROVE  measurements = "narrow" /\ catalog
  BY <1>3, Zenon DEF SchemaAccounted, RunsOnSchema, Live
<1>4. lock' = Orphan => left \in 1..LastVersion
  BY DEF SchemaAccounted
<1>5. catalog <=> measurements = "narrow"
  BY DEF SchemaAccounted
<1> QED BY <1>1, <1>2, <1>3, <1>4, <1>5, Zenon
        DEF SchemaAccounted, RunsOnSchema, Live

\* The same for a step that says where p goes, with the types it keeps.
LEMMA QuietGoto ==
    ASSUME TypeOk, SchemaAccounted, NEW p \in Procs,
           NEW label \in PCs \ (Live \cup {"run"}), Goto(p, label),
           UNCHANGED <<deployment, schema, left>>,
           seen' \in [Procs -> Reads],
           \A q \in Procs \ {p} : seen'[q] = seen[q],
           lock' \in Procs \cup {Nobody, Orphan},
           lock' = Orphan => lock = Orphan,
           ledger' \in Reads, faults' \in 0..MaxFaults
    PROVE  TypeOk' /\ SchemaAccounted'
<1>1. /\ pc' \in [Procs -> PCs] /\ pc'[p] = label
      /\ \A q \in Procs \ {p} : pc'[q] = pc[q]
  BY GotoType
<1>2. UNCHANGED <<deployment, measurements, catalog, rows, left>>
  BY DEF schema
<1>3. TypeOk'
  BY <1>1, <1>2 DEF TypeOk, Reads
<1>4. SchemaAccounted'
  BY <1>1, <1>2, Quiet
<1> QED BY <1>3, <1>4

\* Most of them leave the ledger, the lock and what was read alone.
LEMMA QuietMove ==
    ASSUME TypeOk, SchemaAccounted, NEW p \in Procs,
           NEW label \in PCs \ (Live \cup {"run"}), Goto(p, label),
           UNCHANGED <<deployment, seen, lock, ledger, schema, left, faults>>
    PROVE  TypeOk' /\ SchemaAccounted'
<1>1. /\ seen' = seen /\ lock' = lock /\ ledger' = ledger /\ faults' = faults
      /\ UNCHANGED <<deployment, schema, left>>
  OBVIOUS
<1>2. /\ seen' \in [Procs -> Reads] /\ lock' \in Procs \cup {Nobody, Orphan}
      /\ ledger' \in Reads /\ faults' \in 0..MaxFaults
  BY <1>1 DEF TypeOk, Reads
<1> QED BY <1>1, <1>2, QuietGoto

LEMMA MovesKeep ==
    ASSUME TypeOk, SchemaAccounted, NEW p \in Procs,
           Start(p) \/ Connect(p) \/ EnsureVersionTable(p)
    PROVE  TypeOk' /\ SchemaAccounted'
<1>1. {"connect", "down", "table", "version"} \subseteq PCs \ (Live \cup {"run"})
  BY DEF PCs, Live
<1>2. /\ \E label \in {"connect", "down", "table", "version"} : Goto(p, label)
      /\ UNCHANGED <<deployment, seen, lock, ledger, schema, left, faults>>
  BY Zenon DEF Start, Connect, EnsureVersionTable
<1> QED BY <1>1, <1>2, QuietMove

LEMMA VersionKeeps ==
    ASSUME TypeOk, SchemaAccounted, NEW p \in Procs, Version(p)
    PROVE  TypeOk' /\ SchemaAccounted'
<1>1. {"force", "up"} \subseteq PCs \ (Live \cup {"run"})
  BY DEF PCs, Live
<1>2. /\ \E label \in {"force", "up"} : Goto(p, label)
      /\ seen' = [seen EXCEPT ![p] = ledger]
      /\ UNCHANGED <<deployment, schema, left>>
      /\ lock' = lock /\ ledger' = ledger /\ faults' = faults
  BY Zenon DEF Version
<1>3. ledger \in Reads /\ lock' \in Procs \cup {Nobody, Orphan}
      /\ faults' \in 0..MaxFaults
  BY <1>2 DEF TypeOk, Reads
<1>4. seen' \in [Procs -> Reads] /\ \A q \in Procs \ {p} : seen'[q] = seen[q]
  BY <1>2, <1>3, SeenType
<1> QED BY <1>1, <1>2, <1>3, <1>4, QuietGoto

\* What is forced, marked clean or reset is an entry of a known version.
LEMMA LedgerKeeps ==
    ASSUME TypeOk, SchemaAccounted, NEW p \in Procs,
           ForceVersion(p) \/ MarkClean(p) \/ FollowHint(p)
    PROVE  TypeOk' /\ SchemaAccounted'
<1>1. {"up", "next", "down"} \subseteq PCs \ (Live \cup {"run"})
  BY DEF PCs, Live
<1>2. /\ \E label \in {"up", "next", "down"} : Goto(p, label)
      /\ ledger' \in {Entry(seen[p].version, FALSE), Entry(0, FALSE)}
      /\ UNCHANGED <<deployment, schema, left>>
      /\ seen' = seen /\ lock' = lock /\ faults' = faults
  BY Zenon DEF ForceVersion, MarkClean, FollowHint
<1>3. seen[p].version \in Versions /\ 0 \in Versions
  BY DEF TypeOk, Versions, LastVersion
<1>4. ledger' \in Reads
  <2>1. \A v \in Versions : Entry(v, FALSE) \in Reads
    BY DEF Entry, Reads
  <2> QED BY <1>2, <1>3, <2>1
<1>5. /\ seen' \in [Procs -> Reads] /\ lock' \in Procs \cup {Nobody, Orphan}
      /\ faults' \in 0..MaxFaults /\ \A q \in Procs \ {p} : seen'[q] = seen[q]
      /\ lock' = Orphan => lock = Orphan
  BY <1>2 DEF TypeOk, Reads
<1> QED BY <1>1, <1>2, <1>4, <1>5, QuietGoto

LEMMA UpKeeps ==
    ASSUME TypeOk, SchemaAccounted, NEW p \in Procs, Up(p)
    PROVE  TypeOk' /\ SchemaAccounted'
<1>1. {"next", "down"} \subseteq PCs \ (Live \cup {"run"})
  BY DEF PCs, Live
<1>2. /\ \E label \in {"next", "down"} : Goto(p, label)
      /\ Forget(p) \/ seen' = [seen EXCEPT ![p] = ledger]
      /\ lock' \in {lock, p}
      /\ UNCHANGED <<deployment, schema, left>>
      /\ ledger' = ledger /\ faults' = faults
  BY Zenon DEF Up
<1>3. ledger \in Reads /\ ledger' \in Reads /\ faults' \in 0..MaxFaults
  BY <1>2 DEF TypeOk, Reads
<1>4. seen' \in [Procs -> Reads] /\ \A q \in Procs \ {p} : seen'[q] = seen[q]
  BY <1>2, <1>3, SeenType, ForgetType
<1>5. lock' \in Procs \cup {Nobody, Orphan} /\ (lock' = Orphan => lock = Orphan)
  BY <1>2, StartupNames DEF TypeOk
<1> QED BY <1>1, <1>2, <1>3, <1>4, <1>5, QuietGoto

\* The ends of a start that leave no migration behind.
LEMMA EndKeeps ==
    ASSUME TypeOk, SchemaAccounted, NEW p \in Procs,
           \/ LockTimeout(p) \/ RunFails(p)
           \/ Dies(p) /\ Unlocked(p) /\ UNCHANGED left
    PROVE  TypeOk' /\ SchemaAccounted'
<1>1. "down" \in PCs \ (Live \cup {"run"})
  BY DEF PCs, Live
<1>2. /\ Goto(p, "down") /\ Forget(p)
      /\ lock' = lock \/ Unlocked(p)
      /\ UNCHANGED <<deployment, schema, left>>
      /\ ledger' = ledger /\ (faults' = faults \/ Fault)
  BY Zenon DEF LockTimeout, RunFails, Dies
<1>3. ledger' \in Reads
  BY <1>2 DEF TypeOk, Reads
<1>4. faults' \in 0..MaxFaults
  BY <1>2, FaultType DEF TypeOk
<1>5. seen' \in [Procs -> Reads] /\ \A q \in Procs \ {p} : seen'[q] = seen[q]
  BY <1>2, ForgetType
<1>6. lock' \in Procs \cup {Nobody, Orphan} /\ (lock' = Orphan => lock = Orphan)
  BY <1>2, UnlockedType DEF TypeOk
<1> QED BY <1>1, <1>2, <1>3, <1>4, <1>5, <1>6, QuietGoto
LEMMA NextMigrationKeeps ==
    ASSUME TypeOk, SchemaAccounted, NEW p \in Procs, NextMigration(p)
    PROVE  TypeOk' /\ SchemaAccounted'
<1>1. CASE seen[p].version = LastVersion
  <2>1. "verify" \in PCs \ (Live \cup {"run"})
    BY DEF PCs, Live
  <2>2. /\ Goto(p, "verify") /\ Forget(p) /\ Unlocked(p)
        /\ UNCHANGED <<deployment, schema, left>>
        /\ ledger' = ledger /\ faults' = faults
    BY <1>1, Zenon DEF NextMigration
  <2>3. ledger' \in Reads /\ faults' \in 0..MaxFaults
    BY <2>2 DEF TypeOk, Reads
  <2> QED BY <2>1, <2>2, <2>3, ForgetType, UnlockedType, QuietGoto
<1>2. CASE seen[p].version # LastVersion
  <2> DEFINE e == Entry(seen[p].version + 1, TRUE)
  <2>1. /\ ledger' = e /\ seen' = [seen EXCEPT ![p] = e] /\ Goto(p, "run")
        /\ UNCHANGED <<deployment, lock, schema, left, faults>>
    BY <1>2, Zenon DEF NextMigration
  <2>2. seen[p].version \in Versions
    BY DEF TypeOk
  <2>3. seen[p].version + 1 \in 1..LastVersion
    BY <1>2, <2>2 DEF Versions, LastVersion
  <2>4. e \in Reads /\ e.version \in 1..LastVersion
    BY <2>3 DEF Entry, Reads, Versions, LastVersion
  <2>5. /\ seen' \in [Procs -> Reads] /\ seen'[p] = e
        /\ \A q \in Procs \ {p} : seen'[q] = seen[q]
    BY <2>1, <2>4, SeenType
  <2>6. /\ pc' \in [Procs -> PCs] /\ pc'[p] = "run"
        /\ \A q \in Procs \ {p} : pc'[q] = pc[q]
    BY <2>1, GotoType DEF PCs
  <2> HIDE DEF e
  <2>7. TypeOk'
    BY <2>1, <2>4, <2>5, <2>6 DEF TypeOk, Reads, schema
  <2>8. UNCHANGED <<measurements, catalog, lock, left>>
    BY <2>1 DEF schema
  <2>9. ASSUME NEW q \in Procs, pc'[q] = "run"
        PROVE  seen'[q].version \in 1..LastVersion
    BY <2>9, <2>4, <2>5, <2>6 DEF SchemaAccounted
  <2>10. RunsOnSchema'
    BY <2>6, <2>8, Zenon DEF SchemaAccounted, RunsOnSchema
  <2> QED BY <2>7, <2>8, <2>9, <2>10 DEF SchemaAccounted
<1> QED BY <1>1, <1>2

\* A migration that is committed, by its process or by an orphan.
LEMMA ApplyKeeps ==
    ASSUME TypeOk, SchemaAccounted, NEW v \in 1..LastVersion,
           Applies(v), Apply(v), UNCHANGED <<deployment, seen, ledger, faults>>,
           pc' \in [Procs -> PCs],
           \A q \in Procs : pc'[q] \in Live \cup {"run"} => pc'[q] = pc[q],
           lock' \in Procs \cup {Nobody, Orphan}, left' \in Versions,
           lock' = Orphan => lock = Orphan /\ left' = left
    PROVE  TypeOk' /\ SchemaAccounted'
<1>1. catalog <=> measurements = "narrow"
  BY DEF SchemaAccounted
<1>2. /\ measurements' \in {"none", "wide", "narrow"}
      /\ catalog' \in BOOLEAN /\ rows' = rows
      /\ catalog' <=> measurements' = "narrow"
      /\ measurements # "narrow"
  BY <1>1, Migrated
<1>3. TypeOk'
  BY <1>2 DEF TypeOk
<1>4. \A q \in Procs : pc'[q] \notin Live
  BY <1>2, Zenon DEF SchemaAccounted, RunsOnSchema, Live
<1>5. ASSUME NEW q \in Procs, pc'[q] = "run"
      PROVE  seen'[q].version \in 1..LastVersion
  <2>1. pc[q] = "run" /\ seen' = seen
    BY <1>5
  <2> QED BY <2>1 DEF SchemaAccounted
<1>6. lock' = Orphan => left' \in 1..LastVersion
  BY DEF SchemaAccounted
<1> QED BY <1>2, <1>3, <1>4, <1>5, <1>6, Zenon
        DEF SchemaAccounted, RunsOnSchema, Live

LEMMA RunKeeps ==
    ASSUME TypeOk, SchemaAccounted, NEW p \in Procs, Run(p)
    PROVE  TypeOk' /\ SchemaAccounted'
<1>1. /\ Applies(seen[p].version) /\ Apply(seen[p].version)
      /\ Goto(p, "clean")
      /\ UNCHANGED <<deployment, seen, ledger, faults>>
      /\ lock' = lock /\ left' = left
  BY DEF Run
<1>2. seen[p].version \in 1..LastVersion
  BY DEF SchemaAccounted, Run, At
<1>3. /\ pc' \in [Procs -> PCs] /\ pc'[p] = "clean"
      /\ \A q \in Procs \ {p} : pc'[q] = pc[q]
  BY <1>1, GotoType DEF PCs
<1>4. \A q \in Procs : pc'[q] \in Live \cup {"run"} => pc'[q] = pc[q]
  BY <1>3 DEF Live
<1>5. lock' \in Procs \cup {Nobody, Orphan} /\ left' \in Versions
  BY <1>1 DEF TypeOk
<1> QED BY <1>1, <1>2, <1>3, <1>4, <1>5, ApplyKeeps

LEMMA OrphanCommitsKeeps ==
    ASSUME TypeOk, SchemaAccounted, OrphanCommits
    PROVE  TypeOk' /\ SchemaAccounted'
<1>1. /\ lock = Orphan /\ Applies(left) /\ Apply(left)
      /\ lock' = Nobody /\ left' = 0
      /\ UNCHANGED <<deployment, pc, seen, ledger, faults>>
  BY DEF OrphanCommits
<1>2. left \in 1..LastVersion
  BY <1>1 DEF SchemaAccounted
<1>3. pc' \in [Procs -> PCs] /\ \A q \in Procs : pc'[q] = pc[q]
  BY <1>1 DEF TypeOk
<1>4. /\ lock' \in Procs \cup {Nobody, Orphan} /\ lock' # Orphan
      /\ left' \in Versions
  BY <1>1, StartupNames DEF Versions, LastVersion
<1> QED BY <1>1, <1>2, <1>3, <1>4, ApplyKeeps

LEMMA OrphanAbortsKeeps ==
    ASSUME TypeOk, SchemaAccounted, OrphanAborts
    PROVE  TypeOk' /\ SchemaAccounted'
<1>1. /\ lock' = Nobody /\ left' = 0
      /\ UNCHANGED <<deployment, pc, seen, ledger, measurements, catalog,
                     rows, faults>>
  BY DEF OrphanAborts, schema
<1>2. 0 \in Versions /\ Nobody # Orphan
  BY StartupNames DEF Versions, LastVersion
<1>3. TypeOk'
  BY <1>1, <1>2 DEF TypeOk
<1> QED BY <1>1, <1>2, <1>3 DEF SchemaAccounted, RunsOnSchema

\* A process that dies while its migration runs may leave it to an orphan.
LEMMA OrphanedKeeps ==
    ASSUME TypeOk, SchemaAccounted, NEW p \in Procs, Dies(p),
           At(p, "run"), lock' = Orphan, left' = seen[p].version
    PROVE  TypeOk' /\ SchemaAccounted'
<1>1. /\ Goto(p, "down") /\ Forget(p) /\ Fault
      /\ UNCHANGED <<deployment, ledger, measurements, catalog, rows>>
  BY DEF Dies, schema
<1>2. left' \in 1..LastVersion
  BY DEF SchemaAccounted, At
<1>3. left' \in Versions
  BY <1>2 DEF Versions, LastVersion
<1>4. /\ pc' \in [Procs -> PCs] /\ pc'[p] = "down"
      /\ \A q \in Procs \ {p} : pc'[q] = pc[q]
  BY <1>1, GotoType DEF PCs
<1>5. seen' \in [Procs -> Reads] /\ \A q \in Procs \ {p} : seen'[q] = seen[q]
  BY <1>1, ForgetType
<1>6. faults' \in 0..MaxFaults
  BY <1>1, FaultType
<1>7. TypeOk'
  BY <1>1, <1>3, <1>4, <1>5, <1>6 DEF TypeOk, Reads
<1>8. ASSUME NEW q \in Procs, pc'[q] = "run"
      PROVE  seen'[q].version \in 1..LastVersion
  BY <1>8, <1>4, <1>5 DEF SchemaAccounted
<1>9. RunsOnSchema'
  BY <1>1, <1>4, Zenon DEF SchemaAccounted, RunsOnSchema
<1>10. catalog' <=> measurements' = "narrow"
  BY <1>1 DEF SchemaAccounted
<1> QED BY <1>2, <1>7, <1>8, <1>9, <1>10 DEF SchemaAccounted

\* A process gets to its loop by way of the tables only.
LEMMA LiveKeeps ==
    ASSUME TypeOk, SchemaAccounted, NEW p \in Procs, Verify(p) \/ NewTicker(p)
    PROVE  TypeOk' /\ SchemaAccounted'
<1> DEFINE Ways == {"ticker", "hint", "running", "down"}
<1>1. PICK label \in Ways : Goto(p, label)
  BY Zenon DEF Verify, NewTicker
<1>2. UNCHANGED <<deployment, seen, lock, ledger, measurements, catalog, rows,
                  left, faults>>
  BY DEF Verify, NewTicker, schema
<1>3. /\ pc' \in [Procs -> PCs] /\ pc'[p] = label
      /\ \A q \in Procs \ {p} : pc'[q] = pc[q]
  BY <1>1, GotoType DEF PCs
<1>4. TypeOk'
  BY <1>2, <1>3 DEF TypeOk
<1>5. catalog <=> measurements = "narrow"
  BY DEF SchemaAccounted
<1>6. pc'[p] \in Live => measurements = "narrow" /\ catalog
  <2>1. CASE Verify(p)
    <3>1. Goto(p, IF TablesExist THEN "ticker" ELSE "hint")
      BY <2>1 DEF Verify
    <3>2. ~TablesExist => pc'[p] = "hint"
      BY <3>1, GotoType DEF PCs
    <3> QED BY <1>5, <3>2 DEF Live, TablesExist
  <2>2. CASE NewTicker(p)
    BY <2>2, Zenon DEF NewTicker, At, SchemaAccounted, RunsOnSchema
  <2> QED BY <2>1, <2>2
<1>7. RunsOnSchema'
  BY <1>2, <1>3, <1>6, Zenon DEF SchemaAccounted, RunsOnSchema, Live
<1>8. ASSUME NEW q \in Procs, pc'[q] = "run"
      PROVE  seen'[q].version \in 1..LastVersion
  <2>1. q # p
    BY <1>8, <1>3
  <2> QED BY <1>8, <1>2, <1>3, <2>1 DEF SchemaAccounted
<1> QED BY <1>2, <1>4, <1>5, <1>7, <1>8 DEF SchemaAccounted

LEMMA ImportKeeps ==
    ASSUME TypeOk, SchemaAccounted, NEW p \in Procs, Import(p)
    PROVE  TypeOk' /\ SchemaAccounted'
<1>1. /\ rows < MaxRows /\ rows' = rows + 1
      /\ UNCHANGED <<deployment, pc, seen, lock, ledger, measurements,
                     catalog, left, faults>>
  BY DEF Import
<1>2. rows' \in 0..MaxRows
  BY <1>1, StartupBounds DEF TypeOk
<1>3. TypeOk'
  BY <1>1, <1>2 DEF TypeOk
<1> QED BY <1>1, <1>3 DEF SchemaAccounted, RunsOnSchema

LEMMA NextKeeps == TypeOk /\ SchemaAccounted /\ [Next]_vars
                      => TypeOk' /\ SchemaAccounted'
<1> SUFFICES ASSUME TypeOk, SchemaAccounted, [Next]_vars
             PROVE  TypeOk' /\ SchemaAccounted'
  OBVIOUS
<1>1. ASSUME NEW p \in Procs, Proceed(p)
      PROVE  TypeOk' /\ SchemaAccounted'
  BY <1>1, MovesKeep, VersionKeeps, LedgerKeeps, UpKeeps, EndKeeps,
     NextMigrationKeeps, RunKeeps, LiveKeeps DEF Proceed
<1>2. ASSUME NEW p \in Procs, FollowHint(p) \/ Import(p)
      PROVE  TypeOk' /\ SchemaAccounted'
  BY <1>2, LedgerKeeps, ImportKeeps
<1>3. ASSUME NEW p \in Procs, Dies(p)
      PROVE  TypeOk' /\ SchemaAccounted'
  <2>1. \/ Unlocked(p) /\ UNCHANGED left
        \/ At(p, "run") /\ lock' = Orphan /\ left' = seen[p].version
    BY <1>3 DEF Dies
  <2> QED BY <1>3, <2>1, EndKeeps, OrphanedKeeps
<1>4. CASE OrphanCommits \/ OrphanAborts
  BY <1>4, OrphanCommitsKeeps, OrphanAbortsKeeps
<1>5. CASE UNCHANGED vars
  BY <1>5 DEF vars, schema, TypeOk, SchemaAccounted, RunsOnSchema
<1> QED BY <1>1, <1>2, <1>3, <1>4, <1>5 DEF Next
------------------------------------------------------------------------------
(* Theorems *)

\* The types of processes, ledger and schema, for any number of processes.
THEOREM TypeCorrect == Spec => []TypeOk
<1> QED BY InitCorrect, NextKeeps, PTL DEF Spec

\* The catalog and the narrow table come and go together, whoever runs, loses
\* or repeats a migration (migrations.go:45-82).
THEOREM SchemaSound == Spec => []SchemaAccounted
<1> QED BY InitCorrect, NextKeeps, PTL DEF Spec

\* No process polls without the tables (migrations.go:77), for any number of
\* processes, deaths and failures.
THEOREM RunsWithTables == Spec => []RunsOnSchema
<1>1. SchemaAccounted => RunsOnSchema
  BY DEF SchemaAccounted
<1> QED BY <1>1, SchemaSound, PTL

\* What a step does to the tables and the rows.
LEMMA SchemaStep ==
    ASSUME TypeOk, SchemaAccounted, [Next]_vars
    PROVE  \/ UNCHANGED schema
           \/ \E v \in 1..LastVersion : Applies(v) /\ Apply(v)
           \/ UNCHANGED <<measurements, catalog>> /\ rows' = rows + 1
<1>1. ASSUME NEW p \in Procs, Run(p)
      PROVE  \E v \in 1..LastVersion : Applies(v) /\ Apply(v)
  BY <1>1 DEF Run, At, SchemaAccounted
<1>2. ASSUME OrphanCommits
      PROVE  \E v \in 1..LastVersion : Applies(v) /\ Apply(v)
  BY <1>2 DEF OrphanCommits, SchemaAccounted
<1>3. ASSUME NEW p \in Procs, Proceed(p), ~Run(p)
      PROVE  UNCHANGED schema
  BY <1>3, Zenon DEF Proceed, Start, Connect, EnsureVersionTable, Version,
     ForceVersion, Up, LockTimeout, NextMigration, RunFails, MarkClean, Verify,
     NewTicker
<1>4. ASSUME NEW p \in Procs, FollowHint(p) \/ Dies(p)
      PROVE  UNCHANGED schema
  BY <1>4, Zenon DEF FollowHint, Dies
<1>5. ASSUME NEW p \in Procs, Import(p)
      PROVE  UNCHANGED <<measurements, catalog>> /\ rows' = rows + 1
  BY <1>5 DEF Import
<1>6. ASSUME OrphanAborts \/ UNCHANGED vars
      PROVE  UNCHANGED schema
  BY <1>6 DEF OrphanAborts, vars
<1> QED BY <1>1, <1>2, <1>3, <1>4, <1>5, <1>6 DEF Next

\* No start takes rows or tables away (000001 and 000002 up.sql,
\* migrations.go:106), for any number of them.
THEOREM StartsLoseNothing == Spec => NothingLost
<1>1. ASSUME TypeOk, SchemaAccounted, [Next]_vars
      PROVE  /\ rows' >= rows
             /\ catalog => catalog'
             /\ measurements = "narrow" => measurements' = "narrow"
  <2>1. rows \in Nat
    BY <1>1, StartupBounds DEF TypeOk
  <2>2. CASE UNCHANGED schema
    BY <2>1, <2>2 DEF schema
  <2>3. CASE UNCHANGED <<measurements, catalog>> /\ rows' = rows + 1
    BY <2>1, <2>3
  <2>4. ASSUME NEW v \in 1..LastVersion, Applies(v), Apply(v)
        PROVE  rows' = rows /\ measurements # "narrow" /\ ~catalog
    BY <1>1, <2>4, Migrated DEF SchemaAccounted
  <2> QED BY <1>1, <2>1, <2>2, <2>3, <2>4, SchemaStep
<1> QED BY <1>1, TypeCorrect, SchemaSound, PTL DEF Spec, NothingLost
==============================================================================
