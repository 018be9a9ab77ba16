------------------------- MODULE ExporterSafetyProofs -------------------------
(***************************************************************************)
(* More theorems about Exporter, from what ExporterProofs proves: resume   *)
(* progress is backed by rows, jumps over no day, and does not go back;    *)
(* exports are spaced; and the exporter uses its resume state as           *)
(* ResumeState allows.                                                     *)
(***************************************************************************)
EXTENDS ExporterProofs

(* What a step can do to rows, resume state and program counter *)

\* Rows change only by the insertion of a batch: of the one in hand, or of one
\* whose COMMIT was adrift.
LEMMA RowsStep ==
    ASSUME [Next]_vars
    PROVE  \/ UNCHANGED rows
           \/ WriteOk
           \/ CommitLands
BY Zenon DEF Next, Main, Environment, vars, dbVars, Start, SelectTick, SelectDone,
   LoginOk, LoginFails, GetSitesOk, GetSitesFails, NextSite, SitesDone,
   SiteDone, SkipDevice, BeginDevice, FetchOk, FetchFails, SendCommit,
   WriteFails, CommitAbandoned, Update, SaveStep, SaveOk, SaveFails,
   FinalSaveOk, FinalSaveFails, Exit, Cancel, Crash, PowerFails, Flush, Advance,
   TokenExpires, Move, CommitDropped

\* The resume state changes only by its own operations.
LEMMA StateStep ==
    ASSUME [Next]_vars
    PROVE  \/ UNCHANGED stateVars
           \/ Update
           \/ pc' = pc /\ RS!Flush
           \/ /\ pc' \notin {"fetch", "write", "commit", "update"}
              /\ \/ RS!NewState \/ RS!NewStateUnreadable \/ RS!BeginSave
                 \/ RS!WriteTmp \/ RS!Rename \/ RS!SaveFails \/ RS!Stop
                 \/ RS!LosePower
<1>1. ASSUME Main PROVE \/ UNCHANGED stateVars \/ Update
                        \/ /\ pc' \notin {"fetch", "write", "commit", "update"}
                           /\ \/ RS!NewState \/ RS!NewStateUnreadable
                              \/ RS!BeginSave \/ RS!WriteTmp \/ RS!Rename
                              \/ RS!SaveFails \/ RS!Stop
  BY <1>1 DEF Main, Start, SelectTick, SelectDone,
     LoginOk, LoginFails, GetSitesOk, GetSitesFails, NextSite, SitesDone,
     SiteDone, SkipDevice, BeginDevice, FetchOk, FetchFails, SendCommit,
     WriteOk, WriteFails, CommitAbandoned, SaveStep, SaveOk, SaveFails,
     FinalSaveOk, FinalSaveFails, Exit, Down
<1>2. ASSUME Environment
      PROVE  \/ UNCHANGED stateVars
             \/ pc' = pc /\ RS!Flush
             \/ /\ pc' \notin {"fetch", "write", "commit", "update"}
                /\ RS!Stop \/ RS!LosePower
  BY <1>2 DEF Environment, Cancel, Crash, PowerFails, Flush, Advance,
     TokenExpires, Move, CommitLands, CommitDropped, Down
<1>3. ASSUME UNCHANGED vars PROVE UNCHANGED stateVars
  BY <1>3 DEF vars
<1> QED BY <1>1, <1>2, <1>3 DEF Next

\* How processDevice gets from one stage to the next.
LEMMA DeviceStep ==
    ASSUME [Next]_vars
    PROVE  /\ pc' = "fetch" => \/ \E k \in Keys : BeginDevice(k)
                               \/ pc = "fetch" /\ UNCHANGED deviceVars
           /\ pc' = "write" => \/ FetchOk
                               \/ pc = "write" /\ UNCHANGED deviceVars
           /\ pc' = "commit" => \/ SendCommit
                                \/ pc = "commit" /\ UNCHANGED deviceVars
           /\ pc' = "update" => \/ WriteOk
                                \/ pc = "update" /\ UNCHANGED deviceVars
<1>1. ASSUME Main PROVE \/ pc' \notin {"fetch", "write", "commit", "update"}
                        \/ pc' = "fetch" /\ \E k \in Keys : BeginDevice(k)
                        \/ pc' = "write" /\ FetchOk
                        \/ pc' = "commit" /\ SendCommit
                        \/ pc' = "update" /\ WriteOk
  BY <1>1 DEF Main, Start, SelectTick, SelectDone, BeginPoll,
     LoginOk, LoginFails, GetSitesOk, GetSitesFails, NextSite, SitesDone,
     SiteDone, SkipDevice, BeginDevice, FetchOk, FetchFails, SendCommit,
     WriteOk, WriteFails, CommitAbandoned, Update, SaveStep, SaveOk, SaveFails,
     FinalSaveOk, FinalSaveFails, Exit, Down
<1>2. ASSUME Environment PROVE \/ pc' = "down"
                               \/ UNCHANGED <<pc, deviceVars>>
  BY <1>2 DEF Environment, Cancel, Crash, PowerFails, Flush, Advance,
     TokenExpires, Move, CommitLands, CommitDropped, Down
<1>3. ASSUME UNCHANGED vars PROVE UNCHANGED <<pc, deviceVars>>
  BY <1>3 DEF vars
<1> QED BY <1>1, <1>2, <1>3 DEF Next

\* Counts of rows never go down, and an insertion stores the days of a batch.
LEMMA RowsGrow ==
    ASSUME TypeOk, Device, [Next]_vars, NEW k \in Keys, NEW d \in Days
    PROVE  /\ rows[k][d] \in Nat /\ rows'[k][d] >= rows[k][d]
           /\ WriteOk /\ k = key /\ d \in batch => rows'[k][d] > 0
<1>1. rows \in [Keys -> [Days -> Nat]]
  BY DEF TypeOk, RowsType
<1>2. CASE UNCHANGED rows /\ ~WriteOk
  BY <1>1, <1>2
<1>3. CASE WriteOk
  <2>1. rows'[k][d] = IF k = key /\ d \in batch THEN rows[k][d] + 1
                                                 ELSE rows[k][d]
    BY <1>1, <1>3 DEF WriteOk, Insert, Sent, Device
  <2> QED BY <1>1, <2>1
<1>4. CASE CommitLands
  <2>1. PICK c \in adrift : Insert(c)
    BY <1>4 DEF CommitLands
  <2>2. c.key \in Keys
    BY DEF TypeOk, RowsType, Commits
  <2>3. rows'[k][d] = IF k = c.key /\ d \in c.days THEN rows[k][d] + 1
                                                   ELSE rows[k][d]
    BY <1>1, <2>1, <2>2 DEF Insert
  <2>4. ~WriteOk
    BY <1>4, <2>1 DEF CommitLands, WriteOk
  <2> QED BY <1>1, <2>3, <2>4
<1> QED BY <1>2, <1>3, <1>4, RowsStep

\* Apart from updates, maps and files only take each other's contents, or
\* become empty, absent or torn.
LEMMA ContentsMove ==
    ASSUME TypeOk, Phases, [Next]_vars, ~Update
    PROVE  /\ {devices', file', disk'} \subseteq
                 {devices, file, disk, RS!Fresh, NoFile, Torn}
           /\ tmp' \in {devices, tmp, NoFile, Torn}
<1>1. RS!Loaded(file) \in {file, RS!Fresh}
  BY DEF RS!Loaded
<1>2. RS!Rename => tmp = devices
  BY DEF RS!Rename, Phases
<1>3. CASE UNCHANGED stateVars
  BY <1>3 DEF stateVars
<1>4. CASE RS!Flush \/ RS!LosePower
  BY <1>4 DEF RS!Flush, RS!LosePower
<1>5. CASE \/ RS!NewState \/ RS!NewStateUnreadable \/ RS!BeginSave
           \/ RS!WriteTmp \/ RS!Rename \/ RS!SaveFails \/ RS!Stop
  BY <1>1, <1>2, <1>5 DEF RS!NewState, RS!NewStateUnreadable, RS!BeginSave,
     RS!WriteTmp, RS!Rename, RS!SaveFails, RS!Stop
<1> QED BY <1>3, <1>4, <1>5, StateStep

\* A batch that the watermark is about to point to is stored.
BatchStored == pc = "update" => \A d \in batch : rows[key][d] > 0

LEMMA BatchStoredStep ==
    ASSUME TypeOk, Device, BatchStored, [Next]_vars
    PROVE  BatchStored'
<1> SUFFICES ASSUME pc' = "update", NEW d \in batch' PROVE rows'[key'][d] > 0
  BY DEF BatchStored
<1>1. batch \subseteq Days
  BY DEF TypeOk, DeviceType
<1>2. CASE WriteOk
  <2>1. key' = key /\ batch' = batch /\ key \in Keys
    BY <1>2 DEF WriteOk, deviceVars, Device
  <2> QED BY <1>1, <1>2, <2>1, RowsGrow
<1>3. CASE pc = "update" /\ UNCHANGED deviceVars
  <2>1. key' = key /\ batch' = batch /\ key \in Keys
    BY <1>3 DEF deviceVars, Device
  <2>2. rows[key][d] > 0
    BY <1>3, <2>1 DEF BatchStored
  <2>3. rows[key][d] \in Nat /\ rows'[key][d] >= rows[key][d] /\ rows'[key][d] \in Int
    <3>1. rows[key][d] \in Nat /\ rows'[key][d] >= rows[key][d]
      BY <1>1, <2>1, RowsGrow
    <3>2. rows' \in [Keys -> [Days -> Nat]]
      BY TypeStep DEF TypeOk, RowsType
    <3> QED BY <1>1, <2>1, <3>1, <3>2
  <2> QED BY <2>1, <2>2, <2>3
<1> QED BY <1>2, <1>3, DeviceStep
------------------------------------------------------------------------------
(* Watermarks are backed by rows *)

\* What WatermarkBacked asks of one map.
Backed(content) ==
    content \in RS!Snapshots =>
       \A k \in Keys, d \in Days :
          content[k] # NoState /\ content[k].lastDataTime = Ts(d)
             => rows[k][d] > 0

LEMMA EmptyReachesNothing ==
    ASSUME NEW content \in {RS!Fresh, NoFile, Torn}, content \in RS!Snapshots
    PROVE  \A k \in Keys : content[k] = NoState
BY SentinelsAssumption DEF RS!Fresh

\* Two days have two timestamps.
LEMMA TsInjective ==
    ASSUME NEW d \in Days, NEW e \in Days, Ts(d) = Ts(e)
    PROVE  d = e
<1>1. d \in Int /\ e \in Int
  BY DEF Days
<1>2. ASSUME NEW a \in Int, NEW b \in Int, a < b PROVE Ts(a) < Ts(b)
  <2>1. Ts(a + 1) <= Ts(b) /\ Ts(a) \in Int /\ Ts(b) \in Int /\ Ts(a + 1) \in Int
    BY <1>2, TsOrder
  <2>2. Ts(a + 1) = Ts(a) + DayLen
    BY <1>2, ClockAssumption DEF Ts
  <2> QED BY <2>1, <2>2, ClockAssumption
<1>3. ~(d < e) /\ ~(e < d)
  <2>1. Ts(d) \in Int
    BY <1>1, TsOrder
  <2> QED BY <1>1, <1>2, <2>1
<1> QED BY <1>1, <1>3

LEMMA BackedStep ==
    ASSUME TypeOk, ImportsAccounted, BatchStored, WatermarkBacked, [Next]_vars
    PROVE  WatermarkBacked'
<1>0. \A content \in {devices, file, tmp, disk} : Backed(content)
  BY DEF WatermarkBacked, Backed
<1>1. Phases /\ Device
  BY DEF ImportsAccounted
<1>2. SUFFICES ASSUME NEW content \in {devices', file', tmp', disk'},
                      content \in RS!Snapshots, NEW k \in Keys, NEW d \in Days,
                      content[k] # NoState, content[k].lastDataTime = Ts(d)
               PROVE  rows'[k][d] > 0
  <2>1. RS!Snapshots' = RS!Snapshots /\ Ts(0)' = Ts(0)
    BY DEF RS!Snapshots, RS!DeviceState, Ts
  <2> QED BY <1>2, <2>1 DEF WatermarkBacked
<1>3. rows[k][d] \in Nat /\ rows'[k][d] >= rows[k][d] /\ rows' \in [Keys -> [Days -> Nat]]
  <2>1. TypeOk'
    BY <1>1, TypeStep
  <2> QED BY <1>1, <2>1, RowsGrow DEF TypeOk, RowsType
<1>4. ASSUME content \in {devices, file, tmp, disk} PROVE rows'[k][d] > 0
  <2>1. rows[k][d] > 0
    BY <1>0, <1>2, <1>4 DEF Backed
  <2> QED BY <1>3, <2>1
<1>5. CASE ~Update
  <2>1. content \in {devices, file, disk, tmp, RS!Fresh, NoFile, Torn}
    BY <1>1, <1>2, <1>5, ContentsMove
  <2>2. content \notin {RS!Fresh, NoFile, Torn}
    BY <1>2, EmptyReachesNothing
  <2> QED BY <1>4, <2>1, <2>2
<1>6. CASE Update
  <2>1. UNCHANGED <<file, tmp, disk>>
    BY <1>6 DEF Update, RS!UpdateDeviceState
  <2>2. CASE content = devices' /\ k = key
    <3>1. batch # {} /\ batch \in SUBSET Days /\ devices'[key].lastDataTime = Latest
      BY <1>6, UpdatedState
    <3>2. PICK e \in batch : Latest = Ts(e)
      BY <3>1, LatestDay
    <3>3. e = d
      BY <1>2, <2>2, <3>1, <3>2, TsInjective
    <3>4. rows[k][d] > 0
      BY <1>6, <2>2, <3>2, <3>3 DEF BatchStored, Update
    <3> QED BY <1>3, <3>4
  <2>3. CASE content = devices' /\ k # key
    <3>1. devices'[k] = devices[k]
      BY <1>6, <2>3, UpdatedState
    <3>2. devices \in RS!Snapshots
      BY DEF TypeOk, RS!TypeOk
    <3>3. rows[k][d] > 0
      BY <1>0, <1>2, <2>3, <3>1, <3>2 DEF Backed
    <3> QED BY <1>3, <3>3
  <2>4. CASE content # devices'
    BY <1>2, <1>4, <2>1, <2>4
  <2> QED BY <2>2, <2>3, <2>4
<1> QED BY <1>5, <1>6

\* A watermark never points to a day that has no row, for any faults
\* (main.go:533-555).
THEOREM ProgressBacked == Spec => []WatermarkBacked
<1>1. Init => BatchStored /\ WatermarkBacked
  <2> SUFFICES ASSUME Init PROVE BatchStored /\ WatermarkBacked
    OBVIOUS
  <2>1. BatchStored
    BY DEF Init, BatchStored
  <2>2. \A content \in {devices, file, tmp, disk} : content \in {RS!Fresh, NoFile}
    BY DEF Init, RS!Init
  <2> QED BY <2>1, <2>2, EmptyReachesNothing DEF WatermarkBacked
<1>2. /\ TypeOk /\ ImportsAccounted /\ BatchStored /\ WatermarkBacked
      /\ [Next]_vars
      => BatchStored' /\ WatermarkBacked'
  BY BatchStoredStep, BackedStep DEF ImportsAccounted
<1> QED BY <1>1, <1>2, Inductive, PTL DEF Spec
------------------------------------------------------------------------------
(* No day is skipped *)

\* A day that begins after t is not before the day of t.
LEMMA LaterDay ==
    ASSUME NEW t \in Int, NEW d \in Int, t < Ts(d)
    PROVE  DayOf(t) <= d
<1>1. DayLen \in Nat /\ DayLen > 0
  BY ClockAssumption
<1>2. DayOf(t) \in Int /\ Ts(DayOf(t)) <= t
  BY <1>1 DEF DayOf, Ts
<1>3. ASSUME DayOf(t) >= d + 1 PROVE FALSE
  <2>1. Ts(d) <= Ts(DayOf(t)) /\ Ts(d) \in Int /\ Ts(DayOf(t)) \in Int
    BY <1>2, <1>3, TsOrder
  <2> QED BY <1>2, <2>1
<1> QED BY <1>2, <1>3

\* The lookback reaches behind the first day at any time.
LookbackCovers == Horizon < Lookback + DayLen

\* What NoDaySkipped asks of one map.
Covered(content) ==
    content \in RS!Snapshots =>
       \A k \in Keys, d \in Days : Reaches(content, k, d) => rows[k][d] > 0

\* The days up to startTime are stored, and so are those before a day in the
\* batch, or they are in the batch themselves.
Contiguous ==
    /\ pc = "fetch" => \A d \in Days : Ts(d) <= start => rows[key][d] > 0
    /\ pc \in {"write", "commit", "update"} =>
          \A e \in batch, d \in Days :
             d <= e => rows[key][d] > 0 \/ (d \in batch /\ pc # "update")

LEMMA CoveredNow ==
    ASSUME NoDaySkipped, TypeOk
    PROVE  \A content \in {devices, file, disk} : Covered(content)
BY DEF NoDaySkipped, Covered

LEMMA BeginContiguous ==
    ASSUME TypeOk, NoDaySkipped, LookbackCovers,
           NEW k \in Keys, BeginDevice(k), NEW d \in Days, Ts(d) <= start'
    PROVE  rows[k][d] > 0
<1>1. devices \in RS!Snapshots /\ now \in Int /\ now <= Horizon
  BY ClockAssumption
     DEF TypeOk, RS!TypeOk, ClockType, Times, Horizon, MaxTime, Ts
<1>2. Ts(d) \in Int /\ Ts(d) >= DayLen
  <2>1. 1 \in Int /\ d \in Int /\ 1 <= d
    BY DEF Days
  <2>2. Ts(1) <= Ts(d) /\ Ts(d) \in Int
    BY <2>1, TsOrder
  <2> QED BY <2>2, ClockAssumption DEF Ts
<1>3. start' # now - Lookback
  BY <1>1, <1>2, ClockAssumption DEF LookbackCovers, Horizon, MaxTime, Ts
<1>4. devices[k] # NoState /\ start' = devices[k].lastDataTime
  BY <1>3 DEF BeginDevice, RS!GetResumeTime, RS!Has
<1>5. devices[k].lastDataTime \in Int
  <2>1. devices[k] \in RS!DeviceState
    BY <1>1, <1>4 DEF RS!Snapshots
  <2> QED BY <2>1 DEF RS!DeviceState, Times
<1>6. Reaches(devices, k, d)
  BY <1>2, <1>4, <1>5 DEF Reaches
<1> QED BY <1>1, <1>6, CoveredNow DEF Covered

\* The filter leaves out only what is stored, and the cloud nothing.
LEMMA FetchContiguous ==
    ASSUME TypeOk, Contiguous, FetchOk, "partial" \notin Faults, pc' = "write",
           NEW e \in batch', NEW d \in Days, d <= e
    PROVE  rows[key][d] > 0 \/ d \in batch'
<1>1. batch' = {x \in Published : IsNew(x)} /\ pc = "fetch"
  BY DEF FetchOk, Replies
<1>2. start \in Int /\ end \in Int /\ Ts(d) \in Int
  BY TsInTimes DEF TypeOk, DeviceType, Times
<1>3. CASE Ts(d) <= start
  BY <1>1, <1>3 DEF Contiguous
<1>4. CASE Ts(d) > start
  <2>1. d \in Int /\ e \in Int /\ e <= DayOf(end) /\ DayOf(end) \in Int
    BY <1>1, <1>2, ClockAssumption DEF Published, Days, DayOf
  <2>2. DayOf(start) <= d /\ d <= DayOf(end)
    BY <1>2, <1>4, <2>1, LaterDay
  <2> QED BY <1>1, <1>4, <2>2 DEF Published, IsNew
<1> QED BY <1>2, <1>3, <1>4

LEMMA ContiguousStep ==
    ASSUME TypeOk, ImportsAccounted, Contiguous, NoDaySkipped, LookbackCovers,
           "partial" \notin Faults, [Next]_vars
    PROVE  Contiguous'
<1>0. Device /\ TypeOk'
  BY TypeStep DEF ImportsAccounted
<1>1. ASSUME NEW k \in Keys, NEW d \in Days, rows[k][d] > 0
      PROVE  rows'[k][d] > 0
  <2>1. rows[k][d] \in Nat /\ rows'[k][d] >= rows[k][d]
    BY <1>0, RowsGrow
  <2>2. rows'[k][d] \in Nat
    BY <1>0 DEF TypeOk, RowsType
  <2> QED BY <1>1, <2>1, <2>2
<1>2. ASSUME pc' = "fetch", NEW d \in Days, Ts(d) <= start'
      PROVE  rows'[key'][d] > 0
  <2>1. CASE \E k \in Keys : BeginDevice(k)
    BY <1>1, <1>2, <2>1, BeginContiguous DEF BeginDevice
  <2>2. CASE pc = "fetch" /\ UNCHANGED deviceVars
    BY <1>0, <1>1, <1>2, <2>2 DEF Contiguous, Device, deviceVars
  <2> QED BY <1>2, <2>1, <2>2, DeviceStep
<1>3. ASSUME pc' = "write", NEW e \in batch', NEW d \in Days, d <= e
      PROVE  rows'[key'][d] > 0 \/ d \in batch'
  <2>1. CASE FetchOk
    <3>1. key' = key /\ key \in Keys
      BY <1>0, <1>3, <2>1 DEF FetchOk, Device
    <3> QED BY <1>1, <1>3, <2>1, <3>1, FetchContiguous
  <2>2. CASE pc = "write" /\ UNCHANGED deviceVars
    BY <1>0, <1>1, <1>3, <2>2 DEF Contiguous, Device, deviceVars
  <2> QED BY <1>3, <2>1, <2>2, DeviceStep
<1>4. ASSUME pc' = "update", NEW e \in batch', NEW d \in Days, d <= e
      PROVE  rows'[key'][d] > 0
  <2>1. CASE WriteOk
    <3>1. key' = key /\ batch' = batch /\ key \in Keys /\ pc = "commit"
      BY <1>0, <2>1 DEF WriteOk, deviceVars, Device
    <3>2. CASE d \in batch
      BY <1>0, <2>1, <3>1, <3>2, RowsGrow
    <3>3. CASE d \notin batch
      BY <1>1, <1>4, <3>1, <3>3 DEF Contiguous
    <3> QED BY <3>2, <3>3
  <2>2. CASE pc = "update" /\ UNCHANGED deviceVars
    BY <1>0, <1>1, <1>4, <2>2 DEF Contiguous, Device, deviceVars
  <2> QED BY <1>4, <2>1, <2>2, DeviceStep
<1>5. ASSUME pc' = "commit", NEW e \in batch', NEW d \in Days, d <= e
      PROVE  rows'[key'][d] > 0 \/ d \in batch'
  <2>1. key' = key /\ batch' = batch /\ key \in Keys /\ pc \in {"write", "commit"}
    BY <1>0, <1>5, DeviceStep DEF SendCommit, deviceVars, Device
  <2> QED BY <1>1, <1>5, <2>1 DEF Contiguous
<1> QED BY <1>2, <1>3, <1>4, <1>5 DEF Contiguous, Ts, Days

LEMMA CoveredStep ==
    ASSUME TypeOk, ImportsAccounted, Contiguous, NoDaySkipped, [Next]_vars
    PROVE  NoDaySkipped'
<1>1. Phases /\ Device /\ TypeOk'
  BY TypeStep DEF ImportsAccounted
<1>2. SUFFICES ASSUME NEW content \in {devices', file', disk'},
                      content \in RS!Snapshots, NEW k \in Keys, NEW d \in Days,
                      Reaches(content, k, d)
               PROVE  rows'[k][d] > 0
  BY DEF NoDaySkipped, Reaches, Ts, RS!Snapshots, RS!DeviceState
<1>3. ASSUME rows[k][d] > 0 PROVE rows'[k][d] > 0
  <2>1. rows[k][d] \in Nat /\ rows'[k][d] >= rows[k][d]
    BY <1>1, RowsGrow
  <2>2. rows'[k][d] \in Nat
    BY <1>1 DEF TypeOk, RowsType
  <2> QED BY <1>3, <2>1, <2>2
<1>4. ASSUME content \in {devices, file, disk} PROVE rows'[k][d] > 0
  BY <1>2, <1>3, <1>4, CoveredNow DEF Covered
<1>5. CASE ~Update
  <2>1. content \in {devices, file, disk, RS!Fresh, NoFile, Torn}
    BY <1>1, <1>2, <1>5, ContentsMove
  <2>2. content \notin {RS!Fresh, NoFile, Torn}
    BY <1>2, EmptyReachesNothing DEF Reaches
  <2> QED BY <1>4, <2>1, <2>2
<1>6. CASE Update
  <2>1. UNCHANGED <<file, disk>> /\ pc = "update"
    BY <1>6 DEF Update, RS!UpdateDeviceState
  <2>2. CASE content = devices' /\ k = key
    <3>1. batch # {} /\ batch \in SUBSET Days /\ devices'[key].lastDataTime = Latest
      BY <1>6, UpdatedState
    <3>2. PICK e \in batch : Latest = Ts(e)
      BY <3>1, LatestDay
    <3>3. Ts(d) <= Ts(e) /\ Ts(d) \in Int /\ Ts(e) \in Int
      BY <1>2, <2>2, <3>1, <3>2, TsInTimes DEF Reaches, Times
    <3>4. d <= e
      <4>1. d \in Int /\ e \in Int
        BY <3>1 DEF Days
      <4>2. ASSUME e < d PROVE FALSE
        <5>1. Ts(e) <= Ts(d)
          BY <4>1, <4>2, TsOrder
        <5>2. Ts(e) = Ts(d)
          BY <3>3, <5>1
        <5> QED BY <3>1, <4>1, <4>2, <5>2, TsInjective
      <4> QED BY <4>1, <4>2
    <3> QED BY <1>3, <2>1, <2>2, <3>2, <3>4 DEF Contiguous
  <2>3. CASE content = devices' /\ k # key
    <3>1. devices'[k] = devices[k]
      BY <1>6, <2>3, UpdatedState
    <3>2. Reaches(devices, k, d) /\ devices \in RS!Snapshots
      BY <1>2, <2>3, <3>1 DEF Reaches, TypeOk, RS!TypeOk
    <3> QED BY <1>3, <3>2, CoveredNow DEF Covered
  <2>4. CASE content # devices'
    BY <1>2, <1>4, <2>1, <2>4
  <2> QED BY <2>2, <2>3, <2>4
<1> QED BY <1>5, <1>6

\* With a lookback that reaches behind the first day and a cloud that leaves
\* no day out, no day up to a watermark is missing, whatever is lost on the
\* way (main.go:442-494).
THEOREM NoGaps ==
    ASSUME LookbackCovers, "partial" \notin Faults
    PROVE  Spec => []NoDaySkipped
<1>1. Init => Contiguous /\ NoDaySkipped
  <2> SUFFICES ASSUME Init PROVE Contiguous /\ NoDaySkipped
    OBVIOUS
  <2>1. Contiguous
    BY DEF Init, Contiguous
  <2>2. \A content \in {devices, file, disk} : content \in {RS!Fresh, NoFile}
    BY DEF Init, RS!Init
  <2> QED BY <2>1, <2>2, EmptyReachesNothing DEF NoDaySkipped, Reaches
<1>2. /\ TypeOk /\ ImportsAccounted /\ Contiguous /\ NoDaySkipped
      /\ [Next]_vars
      => Contiguous' /\ NoDaySkipped'
  BY ContiguousStep, CoveredStep
<1> QED BY <1>1, <1>2, Inductive, PTL DEF Spec
------------------------------------------------------------------------------
(* Progress does not go back *)

\* Unless progress is lost or updated, what is known stays as it is: a Save
\* and a restart hand it on.
LEMMA KnownStep ==
    ASSUME TypeOk, ImportsAccounted, [Next]_vars, UNCHANGED losses, ~Update
    PROVE  Known' = Known
<1>1. Phases /\ losses \in Int
  BY DEF ImportsAccounted, TypeOk, LoopType
<1>2. ~Lose("crash") /\ ~Lose("power") /\ ~Lose("save") /\ ~Lose("unreadable")
  BY <1>1 DEF Lose
<1>3. CASE Start
  BY <1>2, <1>3 DEF Start, RS!NewState, Known
<1>4. CASE FinalSaveOk
  <2>1. file' = devices /\ devices \in RS!Snapshots
    BY <1>1, <1>4 DEF FinalSaveOk, RS!Rename, Phases, TypeOk, RS!TypeOk
  <2>2. RS!Loaded(file)' = devices
    BY <2>1, LoadedIsSnapshot DEF RS!Loaded
  <2> QED BY <2>2, <1>4 DEF FinalSaveOk, Known
<1>5. CASE SaveStep \/ SaveOk \/ SaveFails
  BY <1>5 DEF SaveStep, SaveOk, SaveFails, Known, RS!BeginSave, RS!WriteTmp,
     RS!Rename, RS!SaveFails
<1>6. CASE Exit \/ Flush
  BY <1>6 DEF Exit, Flush, Down, Known, RS!Stop, RS!Flush, RS!Loaded, RS!Fresh
<1>7. CASE UNCHANGED <<stateVars, pc>>
  BY <1>7 DEF Known, stateVars, RS!Loaded, RS!Fresh
<1>8. CASE /\ UNCHANGED stateVars
           /\ pc \notin {"ended", "down"} /\ pc' \notin {"ended", "down"}
  BY <1>8 DEF Known, stateVars
<1>9. \/ Start \/ FinalSaveOk \/ SaveStep \/ SaveOk \/ SaveFails \/ Exit \/ Flush
      \/ UNCHANGED <<stateVars, pc>>
      \/ /\ UNCHANGED stateVars
         /\ pc \notin {"ended", "down"} /\ pc' \notin {"ended", "down"}
  <2>1. CASE Main
    BY <1>2, <2>1 DEF Main, SelectTick, SelectDone, BeginPoll,
       LoginOk, LoginFails, GetSitesOk, GetSitesFails, NextSite, SitesDone,
       SiteDone, SkipDevice, BeginDevice, FetchOk, FetchFails, SendCommit,
       WriteOk, WriteFails, CommitAbandoned, FinalSaveFails
  <2>2. CASE Environment
    BY <1>2, <2>2 DEF Environment, Cancel, Crash, PowerFails, Advance,
       TokenExpires, Move, CommitLands, CommitDropped
  <2>3. CASE UNCHANGED vars
    BY <2>3 DEF vars
  <2> QED BY <2>1, <2>2, <2>3 DEF Next
<1> QED BY <1>3, <1>4, <1>5, <1>6, <1>7, <1>8, <1>9

\* Resume progress goes back only when a loss is counted (main.go:165-176,
\* state.go:27-46), for any faults.
THEOREM ProgressOnlyLost == Spec => ProgressKept
<1>1. ASSUME TypeOk, ImportsAccounted, [Next]_vars,
             NEW k \in Keys, NEW d \in Days,
             Reaches(Known, k, d) /\ losses' = losses
      PROVE  Reaches(Known, k, d)'
  <2>1. CASE Update
    <3>1. Reached(k, d)
      BY <1>1 DEF Reached
    <3>2. Reached(k, d)'
      BY <1>1, <2>1, <3>1, UpdateReaches
    <3> QED BY <2>1, <3>2 DEF Reached, Update
  <2>2. CASE ~Update
    BY <1>1, <2>2, KnownStep DEF Reaches, Ts
  <2> QED BY <2>1, <2>2
<1>2. ASSUME TypeOk, ImportsAccounted, [Next]_vars
      PROVE  \A k \in Keys, d \in Days :
                Reaches(Known, k, d) /\ losses' = losses => Reaches(Known, k, d)'
  BY <1>1, <1>2
<1> QED BY <1>2, Inductive, PTL DEF Spec, ProgressKept
------------------------------------------------------------------------------
(* Spacing *)

\* A process that is down holds no map, and the device in hand was not taken
\* up too soon.
Spaced == /\ stage = "down" => devices = RS!Fresh
          /\ pc \in {"fetch", "write", "commit", "update"} /\ RS!Has(key) =>
                now - devices[key].lastExportTime >= PollInterval

LEMMA ClockStep ==
    ASSUME TypeOk, [Next]_vars
    PROVE  now \in Int /\ now' \in Int /\ now' >= now
<1>1. now \in Int /\ Horizon \in Int
  BY ClockAssumption DEF TypeOk, ClockType, Times, Horizon, MaxTime, Ts
<1>2. now' = now \/ now' = now + 1
  BY Zenon DEF Next, Main, Environment, vars, clockVars, Start, SelectTick,
     SelectDone, LoginOk, LoginFails, GetSitesOk, GetSitesFails, NextSite,
     SitesDone, SiteDone, SkipDevice, BeginDevice, FetchOk, FetchFails,
     SendCommit, WriteOk, WriteFails, CommitAbandoned, Update, SaveStep, SaveOk, SaveFails,
     FinalSaveOk, FinalSaveFails, Exit, Cancel, Crash, PowerFails, Flush,
     Advance, TokenExpires, Move, CommitLands, CommitDropped
<1> QED BY <1>1, <1>2

LEMMA SpacedStep ==
    ASSUME TypeOk, ImportsAccounted, Spaced, [Next]_vars
    PROVE  Spaced'
<1>1. ASSUME stage' = "down" PROVE devices' = RS!Fresh
  <2>1. CASE UNCHANGED <<devices, stage>>
    BY <1>1, <2>1 DEF Spaced
  <2>2. CASE ~UNCHANGED <<devices, stage>>
    BY <1>1, <2>2, StateStep DEF stateVars, Update, RS!UpdateDeviceState,
       RS!Flush, RS!NewState, RS!NewStateUnreadable, RS!BeginSave, RS!WriteTmp,
       RS!Rename, RS!SaveFails, RS!Stop, RS!LosePower
  <2> QED BY <2>1, <2>2
<1>2. ASSUME pc' \in {"fetch", "write", "commit", "update"}, RS!Has(key)'
      PROVE  now' - devices'[key'].lastExportTime >= PollInterval
  <2>1. devices' = devices
    <3>1. ~Update
      BY <1>2 DEF Update
    <3> QED BY <1>2, <3>1, StateStep DEF stateVars, RS!Flush
  <2>2. CASE \E k \in Keys : BeginDevice(k)
    <3>1. PICK k \in Keys : BeginDevice(k)
      BY <2>2
    <3>2. key' = k /\ ~TooSoon(k) /\ now' = now
      BY <3>1 DEF BeginDevice, clockVars
    <3>3. devices[k] # NoState
      BY <1>2, <2>1, <3>2 DEF RS!Has
    <3>4. devices[k] \in RS!DeviceState
      BY <3>3 DEF TypeOk, RS!TypeOk, RS!Snapshots
    <3>5. devices[k].lastExportTime \in Int
      BY <3>4 DEF RS!DeviceState, Times
    <3>6. ~(now - devices[k].lastExportTime < PollInterval)
      BY <3>2, <3>3 DEF TooSoon, RS!Has
    <3> QED BY <2>1, <3>2, <3>5, <3>6, ClockStep, ClockAssumption
  <2>3. CASE pc \in {"fetch", "write", "commit", "update"} /\ key' = key
    <3>1. key \in Keys /\ devices[key] # NoState
      BY <1>2, <2>1, <2>3 DEF ImportsAccounted, Device, RS!Has
    <3>2. devices[key] \in RS!DeviceState
      BY <3>1 DEF TypeOk, RS!TypeOk, RS!Snapshots
    <3>3. devices[key].lastExportTime \in Int
      BY <3>2 DEF RS!DeviceState, Times
    <3>4. now - devices[key].lastExportTime >= PollInterval
      BY <2>3, <3>1 DEF Spaced, RS!Has
    <3> QED BY <2>1, <2>3, <3>3, <3>4, ClockStep, ClockAssumption
  <2>4. FetchOk /\ pc' = "write" => pc = "fetch" /\ key' = key
    BY DEF FetchOk
  <2>5. /\ WriteOk => pc = "commit" /\ key' = key
        /\ SendCommit => pc = "write" /\ key' = key
    BY DEF WriteOk, SendCommit, deviceVars
  <2> QED BY <1>2, <2>2, <2>3, <2>4, <2>5, DeviceStep DEF deviceVars
<1> QED BY <1>1, <1>2 DEF Spaced, RS!Fresh

\* A device is exported again only after a poll interval, for any interval,
\* any delays and any ticks (main.go:368-388).
THEOREM ExportsKeepDistance == Spec => ExportsSpaced
<1>1. Init => Spaced
  BY DEF Init, RS!Init, Spaced
<1>2. ASSUME TypeOk, ImportsAccounted, Spaced, [Next]_vars, NEW k \in Keys,
             RS!Has(k) /\ RS!Has(k)' /\ devices'[k] # devices[k]
      PROVE  devices'[k].lastExportTime - devices[k].lastExportTime
                >= PollInterval
  <2>1. CASE Update
    BY <1>2, <2>1, UpdatedState DEF Spaced, Update
  <2>2. CASE ~Update
    <3>1. RS!NewState \/ RS!NewStateUnreadable => devices = RS!Fresh
      BY <1>2 DEF Spaced, RS!NewState, RS!NewStateUnreadable
    <3>2. devices' = devices \/ devices' = RS!Fresh \/ devices = RS!Fresh
      BY <1>2, <2>2, <3>1, StateStep DEF stateVars, RS!Flush, RS!BeginSave,
         RS!WriteTmp, RS!Rename, RS!SaveFails, RS!Stop, RS!LosePower
    <3> QED BY <1>2, <3>2 DEF RS!Has, RS!Fresh
  <2> QED BY <2>1, <2>2
<1>3. ASSUME TypeOk, ImportsAccounted, Spaced, [Next]_vars
      PROVE  \A k \in Keys :
                RS!Has(k) /\ RS!Has(k)' /\ devices'[k] # devices[k]
                   => devices'[k].lastExportTime - devices[k].lastExportTime
                         >= PollInterval
  BY <1>2, <1>3
<1>4. TypeOk /\ ImportsAccounted /\ Spaced /\ [Next]_vars => Spaced'
  BY SpacedStep
<1> QED BY <1>1, <1>3, <1>4, Inductive, PTL DEF Spec, ExportsSpaced
------------------------------------------------------------------------------
(* The exporter and its resume state *)

\* The loop uses the resume state as ResumeState allows: it updates a map it
\* has loaded, with instants the map can hold, and never during a Save.  So
\* what is proved of ResumeState holds of the exporter's files
\* (main.go:176, 336, 555, state.go).
THEOREM UsesResumeState == Spec => RS!Spec
<1>1. Init => RS!Init
  BY DEF Init
<1>2. ASSUME TypeOk, ImportsAccounted, [Next]_vars
      PROVE  [RS!Next]_(RS!vars)
  <2>1. ASSUME Update PROVE RS!Next
    <3>1. Latest \in Times /\ now \in Times /\ key \in Keys
      BY <1>2, <2>1, LatestDay
         DEF Update, ImportsAccounted, Device, TypeOk, DeviceType, ClockType
    <3> QED BY <2>1, <3>1 DEF Update, RS!Next
  <2> QED BY <1>2, <2>1, StateStep DEF stateVars, RS!Next, RS!vars
<1> QED BY <1>1, <1>2, Inductive, PTL DEF Spec, RS!Spec
==============================================================================
