---------------------------- MODULE ExporterProofs ----------------------------
(***************************************************************************)
(* Theorems about Exporter, for every value of its constants.              *)
(***************************************************************************)
EXTENDS Exporter, FiniteSetTheorems, WellFoundedInduction, TLAPS

(* Arithmetic of days *)

\* A set of days that is not empty has a latest one: what latestDataTime in
\* processDevice (main.go:489-491) computes exists.
LEMMA LatestDayExists ==
    ASSUME NEW B \in SUBSET Days, B # {}
    PROVE  \E d \in B : \A e \in B : e <= d
<1> DEFINE Left == {MaxDay - d : d \in B}
<1>1. Left \subseteq Nat /\ Left # {}
  <2>1. ASSUME NEW d \in B PROVE MaxDay - d \in Nat
    <3>1. MaxDay \in Nat /\ d \in Int /\ d <= MaxDay
      BY ClockAssumption DEF Days
    <3> QED BY <3>1
  <2>2. PICK d \in B : TRUE
    OBVIOUS
  <2>3. MaxDay - d \in Left
    OBVIOUS
  <2> QED BY <2>1, <2>3
<1>2. PICK x \in Left : \A y \in Left : ~(<<y, x>> \in OpToRel(<, Nat))
  BY <1>1, NatLessThanWellFounded, WFMin
<1>3. \A y \in Left : x <= y
  <2>1. ASSUME NEW y \in Left PROVE x <= y
    <3>1. x \in Nat /\ y \in Nat
      BY <1>1
    <3>2. <<y, x>> \in Nat \X Nat /\ <<y, x>>[1] = y /\ <<y, x>>[2] = x
      BY <3>1
    <3>3. ~(y < x)
      BY <1>2, <3>2 DEF OpToRel
    <3> QED BY <3>1, <3>3
  <2> QED BY <2>1
<1>4. PICK d \in B : x = MaxDay - d
  OBVIOUS
<1>5. ASSUME NEW e \in B PROVE e <= d
  <2>1. MaxDay - d <= MaxDay - e
    BY <1>3, <1>4
  <2>2. d \in Int /\ e \in Int /\ MaxDay \in Int
    BY ClockAssumption DEF Days
  <2> QED BY <2>1, <2>2
<1> QED BY <1>5

\* The timestamps of days are integers in the order of the days.
LEMMA TsOrder ==
    ASSUME NEW d \in Int, NEW e \in Int
    PROVE  /\ Ts(d) \in Int
           /\ d <= e => Ts(d) <= Ts(e)
<1>1. DayLen \in Int /\ DayLen > 0
  BY ClockAssumption
<1>2. Ts(d) \in Int /\ Ts(e) \in Int
  BY <1>1 DEF Ts
<1>3. ASSUME d <= e PROVE Ts(d) <= Ts(e)
  <2>1. (e - d) * DayLen >= 0
    BY <1>1, <1>3
  <2>2. (e - d) * DayLen = e * DayLen - d * DayLen
    BY <1>1
  <2> QED BY <2>1, <2>2, <1>1 DEF Ts
<1> QED BY <1>2, <1>3

\* The timestamp of a day is an instant the resume state can hold, and is
\* after the zero time.
LEMMA TsInTimes ==
    ASSUME NEW d \in Days
    PROVE  Ts(d) \in Times /\ Ts(d) > 0
<1>1. d \in Int /\ 1 <= d /\ d <= MaxDay /\ MaxDay \in Int
  BY ClockAssumption DEF Days
<1>2. /\ Ts(1) <= Ts(d) /\ Ts(d) <= Ts(MaxDay)
      /\ Ts(1) \in Int /\ Ts(d) \in Int /\ Ts(MaxDay) \in Int
  BY <1>1, TsOrder
<1>3. Ts(1) > 0
  BY ClockAssumption DEF Ts
<1>4. Ts(MaxDay) <= Horizon /\ Horizon \in Int
  BY <1>2, ClockAssumption DEF Horizon, MaxTime
<1> QED BY <1>2, <1>3, <1>4 DEF Times
------------------------------------------------------------------------------
(* Type correctness *)

\* The empty map and what NewState loads are maps from keys to states.
LEMMA LoadedIsSnapshot ==
    ASSUME NEW content
    PROVE  /\ RS!Fresh \in RS!Snapshots
           /\ RS!Loaded(content) \in RS!Snapshots
           /\ content \in RS!Snapshots => RS!Loaded(content) = content
BY DEF RS!Fresh, RS!Snapshots, RS!Loaded

\* Latest is one of the days in the batch, and none is later.
LEMMA LatestDay ==
    ASSUME batch \in SUBSET Days, batch # {}
    PROVE  /\ Latest \in Times
           /\ \E d \in batch : Latest = Ts(d)
           /\ \A d \in batch : Ts(d) <= Latest
<1> DEFINE last == CHOOSE d \in batch : \A e \in batch : e <= d
<1>1. last \in batch /\ \A e \in batch : e <= last
  BY LatestDayExists
<1>2. Latest = Ts(last)
  BY DEF Latest
<1> HIDE DEF last
<1>3. last \in Int /\ \A d \in batch : d \in Int
  BY <1>1, ClockAssumption DEF Days
<1>4. \A d \in batch : Ts(d) <= Ts(last)
  BY <1>1, <1>3, TsOrder
<1>5. Ts(last) \in Times
  BY <1>1, TsInTimes
<1> QED BY <1>1, <1>2, <1>4, <1>5

LEMMA TimesHoldZero == 0 \in Times /\ DayLen \in Times
<1>1. DayLen = Ts(1) /\ 1 \in Days
  BY ClockAssumption DEF Ts, Days
<1>2. Horizon \in Int /\ Horizon >= 0
  BY ClockAssumption DEF Horizon, MaxTime, Ts
<1> QED BY <1>1, <1>2, TsInTimes DEF Times

LEMMA TypeInit == Init => TypeOk
<1> SUFFICES ASSUME Init PROVE TypeOk
  OBVIOUS
<1>1. RS!TypeOk
  BY LoadedIsSnapshot DEF Init, RS!Init, RS!TypeOk, RS!Contents
<1>2. LoopType
  <2>1. cancelled \in BOOLEAN
    BY Zenon DEF Init
  <2> QED BY <2>1, BoundsAssumption DEF Init, LoopType, PCs
<1>3. ClockType
  <2>1. fire \in BOOLEAN
    BY Zenon DEF Init
  <2> QED BY <2>1, TimesHoldZero, ClockAssumption DEF Init, ClockType
<1>4. PollType /\ DeviceType
  BY TimesHoldZero DEF Init, NoPoll, NoDevice, PollType, DeviceType
<1>5. RowsType
  BY FS_EmptySet DEF Init, RowsType
<1>6. CloudType
  BY BoundsAssumption DEF Init, CloudType
<1> QED BY <1>1, <1>2, <1>3, <1>4, <1>5, <1>6 DEF TypeOk

\* What a step leaves alone keeps its type.
LEMMA FramesKeepTypes ==
    ASSUME TypeOk
    PROVE  /\ UNCHANGED stateVars => RS!TypeOk'
           /\ UNCHANGED <<pc, cancelled, token, losses>> => LoopType'
           /\ UNCHANGED clockVars => ClockType'
           /\ UNCHANGED pollVars => PollType'
           /\ UNCHANGED deviceVars => DeviceType'
           /\ UNCHANGED dbVars => RowsType'
           /\ UNCHANGED cloudVars => CloudType'
<1>1. UNCHANGED stateVars => RS!TypeOk'
  BY DEF TypeOk, RS!TypeOk, stateVars
<1>2. UNCHANGED <<pc, cancelled, token, losses>> => LoopType'
  BY DEF TypeOk, LoopType
<1>3. UNCHANGED clockVars => ClockType'
  BY DEF TypeOk, ClockType, clockVars
<1>4. UNCHANGED pollVars => PollType'
  BY DEF TypeOk, PollType, pollVars
<1>5. UNCHANGED deviceVars => DeviceType'
  BY DEF TypeOk, DeviceType, deviceVars
<1>6. UNCHANGED dbVars => RowsType'
  BY DEF TypeOk, RowsType, dbVars
<1>7. UNCHANGED cloudVars => CloudType'
  BY DEF TypeOk, CloudType, cloudVars
<1> QED BY <1>1, <1>2, <1>3, <1>4, <1>5, <1>6, <1>7

\* The locals of poll and processDevice when they have gone out of scope.
LEMMA ScopesKeepTypes ==
    /\ EndPoll => PollType'
    /\ EndDevice => DeviceType'
BY TimesHoldZero DEF EndPoll, EndDevice, PollType, DeviceType

\* Every operation of the resume state keeps its type.
LEMMA StateKeepsType == RS!TypeOk /\ RS!Next => RS!TypeOk'
<1> SUFFICES ASSUME RS!TypeOk, RS!Next PROVE RS!TypeOk'
  OBVIOUS
<1> USE LoadedIsSnapshot DEF RS!TypeOk, RS!Contents
<1>1. CASE RS!NewState
  BY <1>1 DEF RS!NewState
<1>2. CASE RS!NewStateUnreadable
  BY <1>2 DEF RS!NewStateUnreadable
<1>3. CASE \E k \in Keys, t \in Times, d \in Times : RS!UpdateDeviceState(k, t, d)
  <2>1. PICK k \in Keys, t \in Times, d \in Times : RS!UpdateDeviceState(k, t, d)
    BY <1>3
  <2>2. [lastExportTime |-> t, lastDataTime |-> d] \in RS!DeviceState
    BY DEF RS!DeviceState
  <2>3. devices' \in RS!Snapshots
    BY <2>1, <2>2 DEF RS!UpdateDeviceState, RS!Snapshots
  <2> QED BY <2>1, <2>3 DEF RS!UpdateDeviceState
<1>4. CASE RS!BeginSave
  BY <1>4 DEF RS!BeginSave
<1>5. CASE RS!WriteTmp
  BY <1>5 DEF RS!WriteTmp
<1>6. CASE RS!Rename
  BY <1>6 DEF RS!Rename
<1>7. CASE RS!SaveFails
  BY <1>7 DEF RS!SaveFails
<1>8. CASE RS!Stop
  BY <1>8 DEF RS!Stop
<1>9. CASE RS!Flush
  BY <1>9 DEF RS!Flush
<1>10. CASE RS!LosePower
  BY <1>10 DEF RS!LosePower
<1> QED BY <1>1, <1>2, <1>3, <1>4, <1>5, <1>6, <1>7, <1>8, <1>9, <1>10 DEF RS!Next

\* The COMMIT of the device in hand is one that can become adrift.
LEMMA SentIsCommit ==
    ASSUME TypeOk, Device, pc = "commit"
    PROVE  /\ Sent.key \in Keys /\ Sent.days \subseteq Days
           /\ Sent.complete \subseteq Days
           /\ losses < MaxLosses => Sent \in Commits
<1>1. key \in Keys /\ batch \subseteq Days /\ losses \in 0..MaxLosses
  BY DEF TypeOk, DeviceType, Device, LoopType
<1>2. Complete \subseteq Days
  BY <1>1 DEF Complete
<1>3. losses < MaxLosses => losses + 1 \in 1..MaxLosses
  BY <1>1, BoundsAssumption
<1> QED BY <1>1, <1>2, <1>3 DEF Sent, Commits

\* The insertion of a batch keeps the type of the tables.
LEMMA InsertKeepsType ==
    ASSUME TypeOk, NEW c, c.key \in Keys, c.days \subseteq Days,
           c.complete \subseteq Days, Insert(c)
    PROVE  rows' \in [Keys -> [Days -> Nat]] /\ totals' \subseteq Keys \X Days
<1>1. rows \in [Keys -> [Days -> Nat]] /\ totals \subseteq Keys \X Days
  BY DEF TypeOk, RowsType
<1>2. \A d \in Days : rows[c.key][d] + (IF d \in c.days THEN 1 ELSE 0) \in Nat
  BY <1>1
<1>3. rows' \in [Keys -> [Days -> Nat]]
  BY <1>1, <1>2 DEF Insert
<1>4. totals' \subseteq Keys \X Days
  BY <1>1 DEF Insert
<1> QED BY <1>3, <1>4

\* A client that is gone leaves at most one COMMIT more adrift, and the server
\* takes up one at a time.
LEMMA AdriftKeepsType ==
    ASSUME TypeOk, Device
    PROVE  /\ /\ adrift' = adrift \cup InFlight
              /\ losses < MaxLosses
              /\ UNCHANGED <<rows, totals>>
              => RowsType'
           /\ \A c \in adrift : IsFiniteSet(adrift \ {c})
<1>1. adrift \subseteq Commits /\ IsFiniteSet(adrift)
  BY DEF TypeOk, RowsType
<1>2. CASE pc = "commit"
  <2>1. InFlight = {Sent}
    BY <1>2 DEF InFlight
  <2>2. IsFiniteSet(adrift \cup {Sent})
    BY <1>1, FS_AddElement
  <2>3. losses < MaxLosses => Sent \in Commits
    BY <1>2, SentIsCommit
  <2> QED BY <1>1, <2>1, <2>2, <2>3, FS_RemoveElement
          DEF TypeOk, RowsType, Commits
<1>3. CASE pc # "commit"
  <2>1. adrift \cup InFlight = adrift
    BY <1>3 DEF InFlight
  <2> QED BY <1>1, <2>1, FS_RemoveElement DEF TypeOk, RowsType, Commits
<1> QED BY <1>2, <1>3

\* A process that is down has values of the right types.
LEMMA DownKeepsTypes ==
    ASSUME TypeOk, Down, losses' \in 0..MaxLosses, UNCHANGED now
    PROVE  LoopType' /\ ClockType' /\ PollType' /\ DeviceType'
<1>1. cancelled' \in BOOLEAN /\ fire' \in BOOLEAN
  BY Zenon DEF Down
<1>2. LoopType'
  BY <1>1 DEF Down, LoopType, PCs
<1>3. ClockType'
  BY <1>1, ClockAssumption DEF Down, ClockType, TypeOk
<1>4. PollType' /\ DeviceType'
  BY ScopesKeepTypes DEF Down
<1> QED BY <1>2, <1>3, <1>4

\* Every step keeps the types.  Device is what processDevice's locals need.
LEMMA TypeStep == TypeOk /\ Device /\ [Next]_vars => TypeOk'
<1> SUFFICES ASSUME TypeOk, Device, [Next]_vars PROVE TypeOk'
  OBVIOUS
<1>0. /\ RS!TypeOk /\ LoopType /\ ClockType /\ PollType
      /\ DeviceType /\ RowsType /\ CloudType
  BY DEF TypeOk
<1>a. ASSUME NEW p \in PCs, pc' = p, UNCHANGED <<cancelled, token, losses>>
      PROVE  LoopType'
  BY <1>0, <1>a DEF LoopType
<1> USE FramesKeepTypes, ScopesKeepTypes
<1>1. CASE Start
  <2>1. RS!TypeOk'
    BY <1>0, <1>1, StateKeepsType DEF Start, RS!Next
  <2>2. LoopType'
    BY <1>0, <1>1, BoundsAssumption DEF Start, LoopType, PCs, Lose
  <2>3. ClockType'
    <3>1. fire' \in BOOLEAN
      BY Zenon, <1>1 DEF Start
    <3> QED BY <1>0, <3>1, <1>1, ClockAssumption DEF Start, ClockType
  <2> QED BY <2>1, <2>2, <2>3, <1>1 DEF Start, TypeOk
<1>2. CASE SelectTick
  <2>1. LoopType'
    BY <1>0, <1>a, <1>2 DEF SelectTick, BeginPoll, PCs
  <2>2. ClockType'
    <3>1. fire' \in BOOLEAN
      BY Zenon, <1>2 DEF SelectTick
    <3> QED BY <1>0, <3>1, <1>2 DEF SelectTick, ClockType
  <2> QED BY <2>1, <2>2, <1>2 DEF SelectTick, TypeOk
<1>3. CASE SelectDone
  BY <1>0, <1>a, <1>3 DEF SelectDone, PCs, TypeOk
<1>4. CASE LoginOk
  <2>1. LoopType'
    BY <1>0, <1>4 DEF LoginOk, LoopType, PCs
  <2> QED BY <2>1, <1>4 DEF LoginOk, TypeOk
<1>5. CASE LoginFails
  BY <1>0, <1>a, <1>5 DEF LoginFails, PCs, TypeOk
<1>6. CASE GetSitesOk
  <2>1. PollType'
    BY <1>6 DEF GetSitesOk, PollType
  <2>2. LoopType'
    BY <1>a, <1>6 DEF GetSitesOk, PCs
  <2> QED BY <2>1, <2>2, <1>6 DEF GetSitesOk, TypeOk
<1>7. CASE GetSitesFails
  BY <1>0, <1>a, <1>7 DEF GetSitesFails, PCs, TypeOk
<1>8. CASE NextSite
  <2>1. PollType'
    BY <1>0, <1>8 DEF NextSite, PollType
  <2>2. LoopType'
    BY <1>a, <1>8 DEF NextSite, PCs
  <2> QED BY <2>1, <2>2, <1>8 DEF NextSite, TypeOk
<1>9. CASE SitesDone
  BY <1>0, <1>a, <1>9 DEF SitesDone, PCs, TypeOk
<1>10. CASE SiteDone
  BY <1>0, <1>a, <1>10 DEF SiteDone, PCs, TypeOk
<1>11. CASE \E k \in Keys : SkipDevice(k)
  <2>1. PollType'
    BY <1>0, <1>11 DEF SkipDevice, PollType
  <2>2. LoopType'
    BY <1>0, <1>11 DEF SkipDevice, LoopType
  <2> QED BY <2>1, <2>2, <1>11 DEF SkipDevice, TypeOk
<1>12. CASE \E k \in Keys : BeginDevice(k)
  <2>1. PICK k \in Keys : BeginDevice(k)
    BY <1>12
  <2>2. PollType'
    BY <1>0, <2>1 DEF BeginDevice, PollType
  <2>3. LoopType'
    BY <1>a, <2>1 DEF BeginDevice, PCs
  <2>4. start' \in Int
    <3>1. devices[k] \in RS!DeviceState \cup {NoState} /\ now \in Int
      BY <1>0 DEF RS!TypeOk, RS!Snapshots, ClockType, Times
    <3>2. devices[k] # NoState => devices[k].lastDataTime \in Int
      BY <3>1 DEF RS!DeviceState, Times
    <3> QED BY <2>1, <3>1, <3>2, ClockAssumption
            DEF BeginDevice, RS!GetResumeTime, RS!Has
  <2>5. DeviceType'
    BY <1>0, <2>1, <2>4 DEF BeginDevice, DeviceType, ClockType
  <2> QED BY <2>1, <2>2, <2>3, <2>5 DEF BeginDevice, TypeOk
<1>13. CASE FetchOk
  <2>1. LoopType'
    BY <1>a, <1>13 DEF FetchOk, PCs
  <2>2. DeviceType'
    <3>1. PICK reply \in Replies :
             LET new == {d \in reply : IsNew(d)} IN
             IF new = {}
             THEN pc' = "device" /\ EndDevice
             ELSE /\ pc' = "write"
                  /\ batch' = new
                  /\ asked' = now
                  /\ UNCHANGED <<key, start, end>>
      BY <1>13 DEF FetchOk
    <3>2. {d \in reply : IsNew(d)} \subseteq Days
      BY DEF Replies, Published
    <3> QED BY <1>0, <3>1, <3>2 DEF DeviceType, ClockType
  <2> QED BY <2>1, <2>2, <1>13 DEF FetchOk, TypeOk
<1>14. CASE FetchFails
  BY <1>0, <1>a, <1>14 DEF FetchFails, PCs, TypeOk
<1>15. CASE WriteOk
  <2>1. LoopType'
    BY <1>a, <1>15 DEF WriteOk, PCs
  <2>2. rows' \in [Keys -> [Days -> Nat]] /\ totals' \subseteq Keys \X Days
    BY <1>15, SentIsCommit, InsertKeepsType DEF WriteOk
  <2>3. RowsType'
    BY <1>0, <1>15, <2>2 DEF WriteOk, RowsType, Commits
  <2> QED BY <2>1, <2>3, <1>15 DEF WriteOk, TypeOk
<1>16. CASE WriteFails
  BY <1>0, <1>a, <1>16 DEF WriteFails, PCs, TypeOk
<1>17. CASE CommitAbandoned
  <2>1. LoopType'
    BY <1>0, <1>17, BoundsAssumption DEF CommitAbandoned, Lose, LoopType, PCs
  <2>2. RowsType'
    BY <1>17, AdriftKeepsType DEF CommitAbandoned, Lose
  <2> QED BY <2>1, <2>2, <1>17 DEF CommitAbandoned, TypeOk
<1>18. CASE Update
  <2>1. Latest \in Times /\ now \in Times /\ key \in Keys
    BY <1>0, <1>18, LatestDay DEF Update, Device, DeviceType, ClockType
  <2>2. RS!TypeOk'
    BY <1>0, <2>1, <1>18, StateKeepsType DEF Update, RS!Next
  <2>3. LoopType'
    BY <1>a, <1>18 DEF Update, PCs
  <2> QED BY <2>2, <2>3, <1>18 DEF Update, TypeOk
<1>19. CASE SaveStep
  <2>1. RS!TypeOk'
    BY <1>0, <1>19, StateKeepsType DEF SaveStep, RS!Next
  <2>2. LoopType'
    BY <1>0, <1>19 DEF SaveStep, LoopType
  <2> QED BY <2>1, <2>2, <1>19 DEF SaveStep, TypeOk
<1>20. CASE SaveOk
  <2>1. RS!TypeOk'
    BY <1>0, <1>20, StateKeepsType DEF SaveOk, RS!Next
  <2>2. LoopType'
    BY <1>a, <1>20 DEF SaveOk, PCs
  <2> QED BY <2>1, <2>2, <1>20 DEF SaveOk, TypeOk
<1>21. CASE SaveFails
  <2>1. RS!TypeOk'
    BY <1>0, <1>21, StateKeepsType DEF SaveFails, RS!Next
  <2>2. LoopType'
    BY <1>a, <1>21 DEF SaveFails, PCs
  <2> QED BY <2>1, <2>2, <1>21 DEF SaveFails, TypeOk
<1>22. CASE FinalSaveOk
  <2>1. RS!TypeOk'
    BY <1>0, <1>22, StateKeepsType DEF FinalSaveOk, RS!Next
  <2>2. LoopType'
    BY <1>a, <1>22 DEF FinalSaveOk, PCs
  <2> QED BY <2>1, <2>2, <1>22 DEF FinalSaveOk, TypeOk
<1>23. CASE FinalSaveFails
  <2>1. RS!TypeOk'
    BY <1>0, <1>23, StateKeepsType DEF FinalSaveFails, RS!Next
  <2>2. LoopType'
    BY <1>0, <1>23, BoundsAssumption DEF FinalSaveFails, Lose, LoopType, PCs
  <2> QED BY <2>1, <2>2, <1>23 DEF FinalSaveFails, TypeOk
<1>24. CASE Exit
  <2>1. RS!TypeOk'
    BY <1>0, <1>24, StateKeepsType DEF Exit, RS!Next
  <2>2. UNCHANGED losses
    BY <1>24 DEF Exit
  <2>3. LoopType' /\ ClockType' /\ PollType' /\ DeviceType'
    BY <1>0, <2>2, <1>24, DownKeepsTypes DEF Exit, LoopType
  <2> QED BY <2>1, <2>3, <1>24 DEF Exit, TypeOk
<1>25. CASE Cancel
  <2>1. cancelled' \in BOOLEAN
    BY Zenon, <1>25 DEF Cancel
  <2>2. LoopType'
    BY <1>0, <2>1, <1>25 DEF Cancel, LoopType
  <2> QED BY <2>2, <1>25 DEF Cancel, TypeOk
<1>26. CASE Crash
  <2>1. RS!TypeOk'
    BY <1>0, <1>26, StateKeepsType DEF Crash, RS!Next
  <2>2. losses' \in 0..MaxLosses
    BY <1>0, <1>26, BoundsAssumption DEF Crash, Lose, LoopType
  <2>3. LoopType' /\ ClockType' /\ PollType' /\ DeviceType'
    BY <1>0, <2>2, <1>26, DownKeepsTypes DEF Crash
  <2>4. RowsType'
    BY <1>26, AdriftKeepsType DEF Crash, Lose
  <2> QED BY <2>1, <2>3, <2>4, <1>26 DEF Crash, TypeOk
<1>27. CASE PowerFails
  <2>1. RS!TypeOk'
    BY <1>0, <1>27, StateKeepsType DEF PowerFails, RS!Next
  <2>2. losses' \in 0..MaxLosses
    BY <1>0, <1>27, BoundsAssumption DEF PowerFails, Lose, LoopType
  <2>3. LoopType' /\ ClockType' /\ PollType' /\ DeviceType'
    BY <1>0, <2>2, <1>27, DownKeepsTypes DEF PowerFails
  <2>4. RowsType'
    BY <1>27, AdriftKeepsType DEF PowerFails, Lose
  <2> QED BY <2>1, <2>3, <2>4, <1>27 DEF PowerFails, TypeOk
<1>28. CASE Flush
  <2>1. RS!TypeOk'
    BY <1>0, <1>28, StateKeepsType DEF Flush, RS!Next
  <2> QED BY <2>1, <1>28 DEF Flush, TypeOk
<1>29. CASE Advance
  <2>1. now' \in Times
    BY <1>0, <1>29, ClockAssumption DEF Advance, ClockType, Times, Horizon, MaxTime, Ts
  <2>2. wait' \in 1..PollInterval
    BY <1>0, <1>29, ClockAssumption DEF Advance, Ticker, ClockType
  <2>3. fire' \in BOOLEAN
    BY Zenon, <1>0, <1>29 DEF Advance, Ticker, ClockType
  <2>4. ClockType'
    BY <2>1, <2>2, <2>3 DEF ClockType
  <2>5. LoopType'
    BY <1>0, <1>29 DEF Advance, LoopType
  <2> QED BY <2>4, <2>5, <1>29 DEF Advance, TypeOk
<1>30. CASE TokenExpires
  <2>1. LoopType'
    BY <1>0, <1>30 DEF TokenExpires, LoopType
  <2> QED BY <2>1, <1>30 DEF TokenExpires, TypeOk
<1>31. CASE \E v \in Devices : Move(v)
  <2>1. CloudType'
    BY <1>0, <1>31, BoundsAssumption DEF Move, CloudType
  <2>2. LoopType'
    BY <1>0, <1>31 DEF Move, LoopType
  <2> QED BY <2>1, <2>2, <1>31 DEF Move, TypeOk
<1>32. CASE SendCommit
  BY <1>0, <1>a, <1>32 DEF SendCommit, PCs, TypeOk
<1>33. CASE CommitLands
  <2>1. PICK c \in adrift : Insert(c) /\ adrift' = adrift \ {c}
    BY <1>33 DEF CommitLands
  <2>2. c \in Commits /\ adrift' \subseteq Commits
    BY <1>0, <2>1 DEF RowsType
  <2>3. rows' \in [Keys -> [Days -> Nat]] /\ totals' \subseteq Keys \X Days
    BY <2>1, <2>2, InsertKeepsType DEF Commits
  <2>4. RowsType'
    BY <2>1, <2>2, <2>3, AdriftKeepsType DEF RowsType, Commits
  <2>5. LoopType'
    BY <1>0, <1>33 DEF CommitLands, LoopType
  <2> QED BY <2>4, <2>5, <1>33 DEF CommitLands, TypeOk
<1>34. CASE CommitDropped
  <2>1. RowsType'
    BY <1>0, <1>34, AdriftKeepsType DEF CommitDropped, RowsType, Commits
  <2>2. LoopType'
    BY <1>0, <1>34 DEF CommitDropped, LoopType
  <2> QED BY <2>1, <2>2, <1>34 DEF CommitDropped, TypeOk
<1>35. CASE UNCHANGED vars
  BY <1>0, <1>35 DEF vars, stateVars, clockVars, pollVars, deviceVars, dbVars,
     cloudVars, TypeOk, LoopType
<1> QED
  BY <1>1, <1>2, <1>3, <1>4, <1>5, <1>6, <1>7, <1>8, <1>9, <1>10, <1>11,
     <1>12, <1>13, <1>14, <1>15, <1>16, <1>17, <1>18, <1>19, <1>20, <1>21, <1>22,
     <1>23, <1>24, <1>25, <1>26, <1>27, <1>28, <1>29, <1>30, <1>31, <1>32, <1>33,
     <1>34, <1>35
     DEF Next, Main, Environment
------------------------------------------------------------------------------
(* Imports are accounted for *)

\* A watermark that does not go back reaches what it reached.
LEMMA ReachedKept ==
    ASSUME NEW k \in Keys, NEW d \in Days, Reached(k, d),
           Known' = Known, UNCHANGED <<pc, key, batch>> \/ pc # "update"
    PROVE  Reached(k, d)'
BY DEF Reached, Reaches

\* Copies are counted in natural numbers.
LEMMA CopiesType ==
    ASSUME TypeOk, NEW k \in Keys, NEW d \in Days
    PROVE  /\ IsFiniteSet(Pending(k, d)) /\ Cardinality(Pending(k, d)) \in Nat
           /\ rows[k][d] \in Nat /\ Copies(k, d) \in Nat
           /\ rows[k][d] <= Copies(k, d)
<1>1. rows[k][d] \in Nat /\ IsFiniteSet(adrift)
  BY DEF TypeOk, RowsType
<1>2. IsFiniteSet(Pending(k, d))
  BY <1>1, FS_Subset DEF Pending
<1>3. Cardinality(Pending(k, d)) \in Nat
  BY <1>2, FS_CardinalityType
<1> QED BY <1>1, <1>2, <1>3 DEF Copies

LEMMA NextCopiesType ==
    ASSUME TypeOk', NEW k \in Keys, NEW d \in Days
    PROVE  Copies(k, d)' \in Nat
<1>1. rows'[k][d] \in Nat /\ IsFiniteSet(adrift')
  BY DEF TypeOk, RowsType
<1>2. IsFiniteSet({c \in adrift' : c.key = k /\ d \in c.days})
  BY <1>1, FS_Subset
<1>3. Cardinality({c \in adrift' : c.key = k /\ d \in c.days}) \in Nat
  BY <1>2, FS_CardinalityType
<1> QED BY <1>1, <1>3 DEF Copies, Pending

\* A COMMIT that was adrift and is applied turns from one kind of copy into
\* the other; one that is dropped is a copy less.
LEMMA CopiesKept ==
    ASSUME TypeOk, UNCHANGED <<rows, adrift>> \/ CommitLands \/ CommitDropped,
           NEW k \in Keys, NEW d \in Days
    PROVE  Copies(k, d)' <= Copies(k, d)
<1>1. CASE UNCHANGED <<rows, adrift>>
  <2>1. Copies(k, d)' = Copies(k, d)
    BY <1>1 DEF Copies, Pending
  <2> QED BY <2>1, CopiesType
<1>2. CASE CommitLands \/ CommitDropped
  <2>1. PICK c \in adrift : /\ adrift' = adrift \ {c}
                            /\ Insert(c) \/ UNCHANGED rows
    BY <1>2 DEF CommitLands, CommitDropped
  <2>2. c.key \in Keys
    BY DEF TypeOk, RowsType, Commits
  <2>3. rows'[k][d] = rows[k][d]
           + IF Insert(c) /\ ~UNCHANGED rows /\ c.key = k /\ d \in c.days
             THEN 1 ELSE 0
    <3>1. rows \in [Keys -> [Days -> Nat]]
      BY DEF TypeOk, RowsType
    <3>2. CASE UNCHANGED rows
      BY <3>1, <3>2
    <3>3. CASE Insert(c) /\ ~UNCHANGED rows
      <4>1. rows'[k][d] = IF c.key = k /\ d \in c.days THEN rows[k][d] + 1
                                                      ELSE rows[k][d]
        BY <2>2, <3>1, <3>3 DEF Insert
      <4> QED BY <3>1, <3>3, <4>1
    <3> QED BY <2>1, <3>2, <3>3
  <2>4. Pending(k, d)' = Pending(k, d) \ {c}
    BY <2>1 DEF Pending
  <2>5. CASE c.key = k /\ d \in c.days
    <3>1. c \in Pending(k, d)
      BY <2>5 DEF Pending
    <3>2. Cardinality(Pending(k, d)') = Cardinality(Pending(k, d)) - 1
      BY <2>4, <3>1, CopiesType, FS_RemoveElement
    <3> QED BY <2>3, <3>2, CopiesType DEF Copies
  <2>6. CASE ~(c.key = k /\ d \in c.days)
    <3>1. Pending(k, d)' = Pending(k, d)
      BY <2>4, <2>6 DEF Pending
    <3>2. rows'[k][d] = rows[k][d]
      BY <2>3, <2>6, CopiesType
    <3> QED BY <3>1, <3>2, CopiesType DEF Copies
  <2> QED BY <2>5, <2>6
<1> QED BY <1>1, <1>2

\* The accounts hold when there is no new copy and no watermark goes back.
LEMMA CreditKept ==
    ASSUME Credit, TypeOk, TypeOk', UNCHANGED losses,
           UNCHANGED <<rows, adrift>> \/ CommitLands \/ CommitDropped,
           \A k \in Keys, d \in Days : Reached(k, d) => Reached(k, d)'
    PROVE  Credit'
<1> SUFFICES ASSUME NEW k \in Keys, NEW d \in Days
             PROVE  Copies(k, d)' <= losses' + (IF Reached(k, d)' THEN 1 ELSE 0)
  BY DEF Credit
<1>1. Copies(k, d) <= losses + (IF Reached(k, d) THEN 1 ELSE 0)
  BY DEF Credit
<1>2. Copies(k, d) \in Int /\ Copies(k, d)' \in Int /\ losses \in Int
  <2>1. Copies(k, d) \in Nat
    BY CopiesType
  <2>2. Copies(k, d)' \in Nat
    BY NextCopiesType
  <2> QED BY <2>1, <2>2 DEF TypeOk, LoopType
<1>3. Copies(k, d)' <= Copies(k, d)
  BY CopiesKept
<1>4. Reached(k, d) => Reached(k, d)'
  OBVIOUS
<1> QED BY <1>1, <1>2, <1>3, <1>4

\* A loss leaves at most one copy more: of a day in hand, which no watermark
\* reaches yet, or of a day whose watermark goes.
LEMMA CopiesAfterLoss ==
    ASSUME TypeOk, ImportsAccounted, UNCHANGED rows,
           adrift' \in {adrift, adrift \cup InFlight},
           NEW k \in Keys, NEW d \in Days
    PROVE  Copies(k, d)' <= losses + 1
<1>1. Copies(k, d) <= losses + (IF Reached(k, d) THEN 1 ELSE 0)
  BY DEF ImportsAccounted, Credit
<1>2. losses \in Int
  BY DEF TypeOk, LoopType
<1>3. CASE Pending(k, d)' = Pending(k, d)
  BY <1>1, <1>2, <1>3, CopiesType DEF Copies
<1>4. CASE Pending(k, d)' # Pending(k, d)
  <2>1. pc = "commit" /\ adrift' = adrift \cup {Sent}
    BY <1>4 DEF Pending, InFlight
  <2>2. Sent.key = k /\ d \in Sent.days /\ Pending(k, d)' = Pending(k, d) \cup {Sent}
    BY <1>4, <2>1 DEF Pending
  <2>3. ~Reached(k, d)
    BY <2>1, <2>2 DEF Sent, ImportsAccounted, Device, Reached, Known
  <2>4. /\ Cardinality(Pending(k, d)) \in Nat /\ IsFiniteSet(Pending(k, d))
        /\ Cardinality(Pending(k, d) \cup {Sent}) =
              IF Sent \in Pending(k, d) THEN Cardinality(Pending(k, d))
                                        ELSE Cardinality(Pending(k, d)) + 1
    BY CopiesType, FS_AddElement
  <2>5. Copies(k, d)' = rows[k][d] + Cardinality(Pending(k, d) \cup {Sent})
    BY <2>2 DEF Copies
  <2> QED BY <1>1, <1>2, <2>3, <2>4, <2>5, CopiesType DEF Copies
<1> QED BY <1>3, <1>4

\* A step that touches nothing the accounts are about, or that settles a
\* COMMIT that was adrift.
LEMMA IdleStep ==
    ASSUME TypeOk, TypeOk', ImportsAccounted,
           UNCHANGED <<devices, file, tmp, stage, pc, key, start, batch, losses>>,
           UNCHANGED <<rows, adrift>> \/ CommitLands \/ CommitDropped
    PROVE  ImportsAccounted'
<1>1. Phases'
  BY DEF ImportsAccounted, Phases
<1>2. Device'
  BY DEF ImportsAccounted, Device, Reaches
<1>3. Known' = Known
  BY DEF Known, RS!Loaded, RS!Fresh
<1>4. Credit'
  BY <1>3, ReachedKept, CreditKept DEF ImportsAccounted
<1> QED BY <1>1, <1>2, <1>4 DEF ImportsAccounted

\* Polling is the part of the loop in which nothing is stored or saved and no
\* device is in hand.
Polling == {"login", "sites", "relogin", "retry", "site", "device", "select"}

\* A step of the loop that leads there or to a Save, and stores nothing.
LEMMA PollingStep ==
    ASSUME TypeOk, TypeOk', ImportsAccounted,
           UNCHANGED <<stateVars, rows, adrift, losses>>,
           pc \in Polling \cup {"fetch", "write", "commit"},
           pc' \in Polling \cup {"save", "exit"}
    PROVE  ImportsAccounted'
<1>1. Phases'
  BY DEF ImportsAccounted, Phases, Polling, stateVars
<1>2. Device'
  BY DEF Device, Polling
<1>3. Known' = Known /\ pc # "update"
  BY DEF Known, Polling, stateVars
<1>4. Credit'
  BY <1>3, ReachedKept, CreditKept DEF ImportsAccounted
<1> QED BY <1>1, <1>2, <1>4 DEF ImportsAccounted

\* A step after which no device is in hand, and which is counted as a loss.
LEMMA LossStep ==
    ASSUME TypeOk, TypeOk', ImportsAccounted, UNCHANGED rows,
           adrift' \in {adrift, adrift \cup InFlight}, losses' = losses + 1,
           Phases', pc' \notin {"fetch", "write", "commit", "update"}
    PROVE  ImportsAccounted'
<1>1. Device'
  BY DEF Device
<1>2. Credit'
  <2>1. ASSUME NEW k \in Keys, NEW d \in Days
        PROVE  Copies(k, d)' <= losses' + (IF Reached(k, d)' THEN 1 ELSE 0)
    <3>1. Copies(k, d)' <= losses + 1 /\ losses \in Int
      BY CopiesAfterLoss DEF TypeOk, LoopType
    <3>2. Copies(k, d)' \in Nat
      BY NextCopiesType
    <3> QED BY <3>1, <3>2
  <2> QED BY <2>1 DEF Credit
<1> QED BY <1>1, <1>2 DEF ImportsAccounted

\* WriteMeasurements stores each day of the batch once more; none of them is
\* reached by the watermark yet.
LEMMA InsertedRows ==
    ASSUME TypeOk, TypeOk', ImportsAccounted, WriteOk,
           NEW k \in Keys, NEW d \in Days
    PROVE  /\ k = key /\ d \in batch => Copies(k, d)' <= losses + 1
           /\ ~(k = key /\ d \in batch) => Copies(k, d)' = Copies(k, d)
<1>1. rows \in [Keys -> [Days -> Nat]] /\ losses \in Int
  BY DEF TypeOk, RowsType, LoopType
<1>2. Copies(k, d) <= losses + (IF Reached(k, d) THEN 1 ELSE 0)
  BY DEF ImportsAccounted, Credit
<1>3. key \in Keys
  BY DEF ImportsAccounted, Device, WriteOk
<1>4. rows'[k][d] = IF k = key /\ d \in batch THEN rows[k][d] + 1 ELSE rows[k][d]
  BY <1>1, <1>3 DEF WriteOk, Insert, Sent
<1>5. Pending(k, d)' = Pending(k, d)
  BY DEF WriteOk, Pending
<1>6. k = key /\ d \in batch => ~Reached(k, d)
  BY DEF ImportsAccounted, Device, Reached, Known, WriteOk
<1> QED BY <1>1, <1>2, <1>4, <1>5, <1>6, CopiesType DEF Copies

\* What an update leaves: the state of its key is new, the others are as
\* they were.
LEMMA UpdatedState ==
    ASSUME TypeOk, ImportsAccounted, Update
    PROVE  /\ key \in Keys /\ batch # {} /\ batch \in SUBSET Days
           /\ devices'[key] # NoState
           /\ devices'[key].lastExportTime = now
           /\ devices'[key].lastDataTime = Latest
           /\ \A k \in Keys \ {key} : devices'[k] = devices[k]
<1>1. key \in Keys /\ batch # {} /\ batch \in SUBSET Days
  BY DEF ImportsAccounted, Update, Device, TypeOk, DeviceType
<1>2. /\ devices \in RS!Snapshots
      /\ devices' = [devices EXCEPT ![key] = [lastExportTime |-> now,
                                              lastDataTime |-> Latest]]
  BY DEF Update, RS!UpdateDeviceState, TypeOk, RS!TypeOk
<1>3. [lastExportTime |-> now, lastDataTime |-> Latest] \in RS!DeviceState
  BY <1>1, LatestDay DEF RS!DeviceState, TypeOk, ClockType
<1> QED BY <1>1, <1>2, <1>3, SentinelsAssumption DEF RS!Snapshots

\* An update moves the watermark of its key to the latest day of the batch,
\* which it had not reached, and so reaches all it did before.
LEMMA UpdateReaches ==
    ASSUME TypeOk, ImportsAccounted, Update,
           NEW k \in Keys, NEW d \in Days, Reached(k, d)
    PROVE  Reached(k, d)'
<1>1. /\ key \in Keys /\ batch # {} /\ batch \in SUBSET Days
      /\ \A e \in batch : ~Reaches(devices, key, e)
  BY UpdatedState DEF ImportsAccounted, Update, Device
<1>2. Known = devices /\ Known' = devices'
  BY DEF Update, Known
<1>3. CASE k # key
  <2>1. devices'[k] = devices[k]
    BY <1>3, UpdatedState
  <2> QED BY <1>2, <1>3, <2>1 DEF Reached, Reaches
<1>4. CASE k = key
  <2>1. PICK e \in batch : Latest = Ts(e)
    BY <1>1, LatestDay
  <2>2. Ts(d) \in Int /\ Ts(e) \in Int
    BY <1>1, <2>1, TsInTimes DEF Times
  <2>3. CASE d \in batch
    <3>1. Ts(d) <= Latest
      BY <1>1, <2>3, LatestDay
    <3> QED BY <1>2, <1>4, <2>1, <2>2, <3>1, UpdatedState DEF Reached, Reaches
  <2>4. CASE Reaches(devices, key, d)
    <3>1. devices[key] \in RS!DeviceState
      BY <1>1, <2>4 DEF Reaches, TypeOk, RS!TypeOk, RS!Snapshots
    <3>2. devices[key].lastDataTime \in Int
      BY <3>1 DEF RS!DeviceState, Times
    <3>3. Ts(d) <= Latest
      BY <1>1, <2>1, <2>2, <2>4, <3>2 DEF Reaches
    <3> QED BY <1>2, <1>4, <2>1, <2>2, <3>3, UpdatedState DEF Reached, Reaches
  <2> QED BY <1>2, <1>4, <2>3, <2>4 DEF Reached
<1> QED BY <1>3, <1>4

\* Every step keeps the accounts and the two facts they rest on.
LEMMA ImportsStep ==
    TypeOk /\ TypeOk' /\ ImportsAccounted /\ [Next]_vars => ImportsAccounted'
<1> SUFFICES ASSUME TypeOk, TypeOk', ImportsAccounted, [Next]_vars
             PROVE  ImportsAccounted'
  OBVIOUS
<1>0. Phases /\ Device /\ Credit
  BY DEF ImportsAccounted
<1>1. CASE Start
  <2>1. Phases'
    BY <1>0, <1>1 DEF Start, Phases, RS!NewState, RS!NewStateUnreadable
  <2>2. Device'
    BY <1>1 DEF Start, Device
  <2>3. CASE RS!NewState /\ UNCHANGED losses
    <3>1. Known' = Known /\ pc # "update"
      BY <1>1, <2>3 DEF Start, RS!NewState, Known
    <3> QED BY <1>0, <2>1, <2>2, <3>1, <1>1, <2>3, ReachedKept, CreditKept
            DEF Start, dbVars, ImportsAccounted
  <2>4. CASE RS!NewStateUnreadable /\ Lose("unreadable")
    BY <2>1, <1>1, <2>4, LossStep DEF Start, Lose, dbVars
  <2> QED BY <1>1, <2>3, <2>4 DEF Start
<1>2. CASE SelectTick
  BY <1>2, PollingStep DEF SelectTick, Polling, dbVars, BeginPoll
<1>3. CASE SelectDone
  BY <1>3, PollingStep DEF SelectDone, Polling, dbVars
<1>4. CASE LoginOk
  BY <1>4, PollingStep DEF LoginOk, Polling, dbVars
<1>5. CASE LoginFails
  BY <1>5, PollingStep DEF LoginFails, Polling, dbVars
<1>6. CASE GetSitesOk
  BY <1>6, PollingStep DEF GetSitesOk, Polling, dbVars
<1>7. CASE GetSitesFails
  BY <1>7, PollingStep DEF GetSitesFails, Polling, dbVars
<1>8. CASE NextSite
  BY <1>8, PollingStep DEF NextSite, Polling, dbVars
<1>9. CASE SitesDone
  BY <1>9, PollingStep DEF SitesDone, Polling, dbVars
<1>10. CASE SiteDone
  BY <1>10, PollingStep DEF SiteDone, Polling, dbVars
<1>11. CASE \E k \in Keys : SkipDevice(k)
  BY <1>11, PollingStep DEF SkipDevice, Polling, dbVars
<1>12. CASE \E k \in Keys : BeginDevice(k)
  <2>1. PICK k \in Keys : BeginDevice(k)
    BY <1>12
  <2>2. Phases'
    BY <1>0, <2>1 DEF BeginDevice, Phases, stateVars
  <2>3. ASSUME NEW d \in Days, Reaches(devices, k, d) PROVE Ts(d) <= start'
    <3>1. devices[k] # NoState /\ devices[k].lastDataTime >= Ts(d) /\ Ts(d) > 0
      BY <2>3, TsInTimes DEF Reaches
    <3>2. devices[k] \in RS!DeviceState
      BY <3>1 DEF TypeOk, RS!TypeOk, RS!Snapshots
    <3>3. devices[k].lastDataTime \in Int /\ Ts(d) \in Int
      BY <3>2, TsInTimes DEF RS!DeviceState, Times
    <3>4. start' = devices[k].lastDataTime
      BY <2>1, <3>1, <3>3 DEF BeginDevice, RS!GetResumeTime, RS!Has, ZeroTime
    <3> QED BY <3>1, <3>3, <3>4
  <2>4. Device'
    BY <2>1, <2>3 DEF BeginDevice, Device, Reaches, stateVars
  <2>5. Known' = Known /\ pc # "update"
    BY <2>1 DEF BeginDevice, Known, stateVars
  <2>6. Credit'
    BY <1>0, <2>1, <2>5, ReachedKept, CreditKept DEF BeginDevice, dbVars
  <2> QED BY <2>2, <2>4, <2>6 DEF ImportsAccounted
<1>13. CASE FetchOk
  <2>1. PICK reply \in Replies :
           LET new == {d \in reply : IsNew(d)} IN
           IF new = {}
           THEN pc' = "device" /\ EndDevice
           ELSE /\ pc' = "write"
                /\ batch' = new
                /\ asked' = now
                /\ UNCHANGED <<key, start, end>>
    BY <1>13 DEF FetchOk
  <2>2. CASE {d \in reply : IsNew(d)} = {}
    BY <2>1, <2>2, <1>13, PollingStep DEF FetchOk, Polling, dbVars
  <2>3. CASE {d \in reply : IsNew(d)} # {}
    <3>1. Phases'
      BY <1>0, <2>1, <2>3, <1>13 DEF FetchOk, Phases, stateVars
    <3>2. ASSUME NEW d \in batch' PROVE ~Reaches(devices, key, d)
      <4>1. d \in Days /\ Ts(d) > start
        BY <2>1, <2>3, <3>2 DEF IsNew, Replies, Published
      <4>2. start \in Int /\ Ts(d) \in Int
        BY <4>1, TsInTimes DEF TypeOk, DeviceType, Times
      <4>3. Reaches(devices, key, d) => Ts(d) <= start
        BY <1>0, <4>1, <1>13 DEF FetchOk, Device
      <4> QED BY <4>1, <4>2, <4>3
    <3>3. Device'
      BY <1>0, <2>1, <2>3, <3>2, <1>13 DEF FetchOk, Device, Reaches, stateVars
    <3>4. Known' = Known /\ pc # "update"
      BY <2>1, <2>3, <1>13 DEF FetchOk, Known, stateVars
    <3>5. Credit'
      BY <1>0, <3>4, <1>13, ReachedKept, CreditKept DEF FetchOk, dbVars
    <3> QED BY <3>1, <3>3, <3>5 DEF ImportsAccounted
  <2> QED BY <2>2, <2>3
<1>14. CASE FetchFails
  BY <1>14, PollingStep DEF FetchFails, Polling, dbVars
<1>15. CASE WriteOk
  <2>1. Phases'
    BY <1>0, <1>15 DEF WriteOk, Phases, stateVars
  <2>2. Device'
    BY <1>0, <1>15 DEF WriteOk, Device, Reaches, stateVars, deviceVars
  <2>3. ASSUME NEW k \in Keys, NEW d \in Days
        PROVE  Copies(k, d)' <= losses' + (IF Reached(k, d)' THEN 1 ELSE 0)
    <3>1. Reached(k, d)' <=> Reached(k, d) \/ (k = key /\ d \in batch)
      BY <1>15 DEF WriteOk, Reached, Reaches, Known, stateVars, deviceVars
    <3>2. Copies(k, d) <= losses + (IF Reached(k, d) THEN 1 ELSE 0)
      BY <1>0 DEF Credit
    <3>3. /\ k = key /\ d \in batch => Copies(k, d)' <= losses + 1
          /\ ~(k = key /\ d \in batch) => Copies(k, d)' = Copies(k, d)
      BY <1>15, InsertedRows
    <3>4. losses' = losses
      BY <1>15 DEF WriteOk
    <3> QED BY <3>1, <3>2, <3>3, <3>4
  <2>4. Credit'
    BY <2>3 DEF Credit
  <2> QED BY <2>1, <2>2, <2>4 DEF ImportsAccounted
<1>16. CASE WriteFails
  BY <1>16, PollingStep DEF WriteFails, Polling, dbVars
<1>17. CASE CommitAbandoned
  <2>1. Phases'
    BY <1>0, <1>17 DEF CommitAbandoned, Phases, stateVars
  <2> QED BY <2>1, <1>17, LossStep DEF CommitAbandoned, Lose
<1>18. CASE Update
  <2>1. Phases'
    BY <1>0, <1>18 DEF Update, Phases, RS!UpdateDeviceState
  <2>2. Device'
    BY <1>18 DEF Update, Device
  <2>3. \A k \in Keys, d \in Days : Reached(k, d) => Reached(k, d)'
    BY <1>18, UpdateReaches
  <2>4. Credit'
    BY <1>0, <2>3, <1>18, CreditKept DEF Update, dbVars
  <2> QED BY <2>1, <2>2, <2>4 DEF ImportsAccounted
<1>19. CASE SaveStep
  <2>1. Phases'
    BY <1>0, <1>19 DEF SaveStep, Phases, RS!BeginSave, RS!WriteTmp
  <2>2. Device'
    BY <1>19 DEF SaveStep, Device
  <2>3. Known' = Known /\ pc # "update"
    BY <1>19 DEF SaveStep, Known, RS!BeginSave, RS!WriteTmp
  <2>4. Credit'
    BY <1>0, <2>3, <1>19, ReachedKept, CreditKept DEF SaveStep, dbVars
  <2> QED BY <2>1, <2>2, <2>4 DEF ImportsAccounted
<1>20. CASE SaveOk
  <2>1. Phases'
    BY <1>0, <1>20 DEF SaveOk, Phases, RS!Rename
  <2>2. Device'
    BY <1>20 DEF SaveOk, Device
  <2>3. Known' = Known /\ pc # "update"
    BY <1>20 DEF SaveOk, Known, RS!Rename
  <2>4. Credit'
    BY <1>0, <2>3, <1>20, ReachedKept, CreditKept DEF SaveOk, dbVars
  <2> QED BY <2>1, <2>2, <2>4 DEF ImportsAccounted
<1>21. CASE SaveFails
  <2>1. Phases'
    BY <1>0, <1>21 DEF SaveFails, Phases, RS!SaveFails
  <2>2. Device'
    BY <1>21 DEF SaveFails, Device
  <2>3. Known' = Known /\ pc # "update"
    BY <1>21 DEF SaveFails, Known, RS!SaveFails
  <2>4. Credit'
    BY <1>0, <2>3, <1>21, ReachedKept, CreditKept DEF SaveFails, dbVars
  <2> QED BY <2>1, <2>2, <2>4 DEF ImportsAccounted
<1>22. CASE FinalSaveOk
  <2>1. Phases'
    BY <1>0, <1>22 DEF FinalSaveOk, Phases, RS!Rename
  <2>2. Device'
    BY <1>22 DEF FinalSaveOk, Device
  <2>3. Known' = Known /\ pc # "update"
    <3>1. file' = devices /\ devices \in RS!Snapshots
      BY <1>0, <1>22 DEF FinalSaveOk, RS!Rename, Phases, TypeOk, RS!TypeOk
    <3>2. RS!Loaded(file)' = devices
      BY <3>1, LoadedIsSnapshot DEF RS!Loaded
    <3> QED BY <3>2, <1>22 DEF FinalSaveOk, Known
  <2>4. Credit'
    BY <1>0, <2>3, <1>22, ReachedKept, CreditKept DEF FinalSaveOk, dbVars
  <2> QED BY <2>1, <2>2, <2>4 DEF ImportsAccounted
<1>23. CASE FinalSaveFails
  <2>1. Phases'
    BY <1>0, <1>23 DEF FinalSaveFails, Phases, RS!SaveFails
  <2> QED BY <2>1, <1>23, LossStep DEF FinalSaveFails, Lose, dbVars
<1>24. CASE Exit
  <2>1. Phases'
    BY <1>0, <1>24 DEF Exit, Down, Phases, RS!Stop
  <2>2. Device'
    BY <1>24 DEF Exit, Down, Device
  <2>3. Known' = Known /\ pc # "update"
    BY <1>24 DEF Exit, Down, Known, RS!Stop, RS!Loaded, RS!Fresh
  <2>4. Credit'
    BY <1>0, <2>3, <1>24, ReachedKept, CreditKept DEF Exit, dbVars
  <2> QED BY <2>1, <2>2, <2>4 DEF ImportsAccounted
<1>25. CASE Cancel
  BY <1>25, IdleStep DEF Cancel, stateVars, deviceVars, dbVars
<1>26. CASE Crash
  <2>1. Phases'
    BY <1>26 DEF Crash, Down, Phases, RS!Stop
  <2> QED BY <2>1, <1>26, LossStep DEF Crash, Down, Lose, dbVars
<1>27. CASE PowerFails
  <2>1. Phases'
    BY <1>27 DEF PowerFails, Down, Phases, RS!LosePower
  <2> QED BY <2>1, <1>27, LossStep DEF PowerFails, Down, Lose, dbVars
<1>28. CASE Flush
  BY <1>28, IdleStep DEF Flush, RS!Flush, deviceVars, dbVars
<1>29. CASE Advance
  BY <1>29, IdleStep DEF Advance, stateVars, deviceVars, dbVars
<1>30. CASE TokenExpires
  BY <1>30, IdleStep DEF TokenExpires, stateVars, deviceVars, dbVars
<1>31. CASE \E v \in Devices : Move(v)
  BY <1>31, IdleStep DEF Move, stateVars, deviceVars, dbVars
<1>32. CASE SendCommit
  <2>1. Phases'
    BY <1>0, <1>32 DEF SendCommit, Phases, stateVars
  <2>2. Device'
    BY <1>0, <1>32 DEF SendCommit, Device, Reaches, stateVars, deviceVars
  <2>3. Known' = Known /\ pc # "update"
    BY <1>32 DEF SendCommit, Known, stateVars
  <2>4. Credit'
    BY <1>0, <2>3, <1>32, ReachedKept, CreditKept DEF SendCommit, dbVars
  <2> QED BY <2>1, <2>2, <2>4 DEF ImportsAccounted
<1>33. CASE CommitLands
  BY <1>33, IdleStep DEF CommitLands, stateVars, deviceVars
<1>34. CASE CommitDropped
  BY <1>34, IdleStep DEF CommitDropped, stateVars, deviceVars
<1>35. CASE UNCHANGED vars
  BY <1>35, IdleStep DEF vars, stateVars, deviceVars, dbVars
<1> QED
  BY <1>1, <1>2, <1>3, <1>4, <1>5, <1>6, <1>7, <1>8, <1>9, <1>10, <1>11,
     <1>12, <1>13, <1>14, <1>15, <1>16, <1>17, <1>18, <1>19, <1>20, <1>21, <1>22,
     <1>23, <1>24, <1>25, <1>26, <1>27, <1>28, <1>29, <1>30, <1>31, <1>32, <1>33,
     <1>34, <1>35
     DEF Next, Main, Environment

LEMMA ImportsInit == Init => ImportsAccounted
<1> SUFFICES ASSUME Init PROVE ImportsAccounted
  OBVIOUS
<1>1. Phases
  BY DEF Init, RS!Init, Phases
<1>2. Device
  BY DEF Init, Device
<1>3. Credit
  <2>1. \A k \in Keys, d \in Days : Pending(k, d) = {} /\ rows[k][d] = 0
    BY DEF Init, Pending
  <2>2. \A k \in Keys, d \in Days : Copies(k, d) = 0
    BY <2>1, FS_EmptySet DEF Copies
  <2> QED BY <2>2 DEF Init, Credit
<1> QED BY <1>1, <1>2, <1>3 DEF ImportsAccounted
------------------------------------------------------------------------------
(* Theorems *)

\* Types and accounts are kept by each other: types need processDevice's
\* locals, accounts need the types.
THEOREM Inductive == Spec => [](TypeOk /\ ImportsAccounted)
<1>1. Init => TypeOk /\ ImportsAccounted
  BY TypeInit, ImportsInit
<1>2. TypeOk /\ ImportsAccounted /\ [Next]_vars => (TypeOk /\ ImportsAccounted)'
  BY TypeStep, ImportsStep DEF ImportsAccounted
<1> QED BY <1>1, <1>2, PTL DEF Spec

\* The variables of the exporter, its resume state, cloud and database keep
\* their types in every behaviour (main.go, resume/state.go).
THEOREM TypeCorrect == Spec => []TypeOk
BY Inductive, PTL

\* For any number of sites, devices, days and losses, any lookback and poll
\* interval, and any faults: a day is stored for a device key at most once
\* more than there were losses of progress (main.go:357, 455, 533-555).
THEOREM ImportsBounded == Spec => []DuplicatesBounded
<1>1. TypeOk /\ ImportsAccounted => DuplicatesBounded
  <2> SUFFICES ASSUME TypeOk, ImportsAccounted, NEW k \in Keys, NEW d \in Days
               PROVE  rows[k][d] <= 1 + losses
    BY DEF DuplicatesBounded
  <2>1. Copies(k, d) <= losses + (IF Reached(k, d) THEN 1 ELSE 0)
    BY DEF ImportsAccounted, Credit
  <2>2. losses \in Int
    BY DEF TypeOk, LoopType
  <2> QED BY <2>1, <2>2, CopiesType
<1> QED BY <1>1, Inductive, PTL

\* For any constants and faults: a process that ends by itself has saved every
\* day that is stored more often than there were losses, also a day whose
\* COMMIT was in flight when the shutdown came (main.go:165-176, 533-555).
THEOREM ShutdownKeepsAccounts == Spec => []ShutdownRemembers
<1>1. TypeOk /\ ImportsAccounted => ShutdownRemembers
  <2> SUFFICES ASSUME TypeOk, ImportsAccounted, pc = "ended",
                      NEW k \in Keys, NEW d \in Days, rows[k][d] > losses
               PROVE  Reaches(RS!Loaded(file), k, d)
    BY DEF ShutdownRemembers
  <2>1. Copies(k, d) <= losses + (IF Reached(k, d) THEN 1 ELSE 0)
    BY DEF ImportsAccounted, Credit
  <2>2. losses \in Int
    BY DEF TypeOk, LoopType
  <2>3. Reached(k, d)
    BY <2>1, <2>2, CopiesType
  <2> QED BY <2>3 DEF Reached, Known
<1> QED BY <1>1, Inductive, PTL
==============================================================================
