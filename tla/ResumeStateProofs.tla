--------------------------- MODULE ResumeStateProofs ---------------------------
(***************************************************************************)
(* Theorems about ResumeState, for any keys and times, with power losses   *)
(* or without.                                                             *)
(***************************************************************************)
EXTENDS ResumeState, TLAPS

\* The empty map and what NewState starts with are maps from keys to states,
\* and a complete snapshot is loaded as it is.
LEMMA LoadedIsSnapshot ==
    ASSUME NEW content
    PROVE  /\ Fresh \in Snapshots
           /\ Loaded(content) \in Snapshots
           /\ content \in Snapshots => Loaded(content) = content
           /\ content \notin Snapshots => Loaded(content) = Fresh
BY DEF Fresh, Snapshots, Loaded

\* An update keeps the map a map.
LEMMA UpdatedMap ==
    ASSUME devices \in Snapshots, NEW k \in Keys, NEW t \in Times, NEW d \in Times,
           UpdateDeviceState(k, t, d)
    PROVE  /\ [lastExportTime |-> t, lastDataTime |-> d] \in DeviceState
           /\ devices' \in Snapshots
<1>1. [lastExportTime |-> t, lastDataTime |-> d] \in DeviceState
  BY DEF DeviceState
<1> QED BY <1>1 DEF UpdateDeviceState, Snapshots

\* What is about to be renamed over the state file is the map in memory.
Staged == stage = "written" => tmp = devices

LEMMA InitCorrect == Init => TypeOk /\ Staged
BY LoadedIsSnapshot DEF Init, TypeOk, Staged, Contents

LEMMA NextKeeps == TypeOk /\ Staged /\ [Next]_vars => TypeOk' /\ Staged'
<1> SUFFICES ASSUME TypeOk, Staged, [Next]_vars PROVE TypeOk' /\ Staged'
  OBVIOUS
<1> USE LoadedIsSnapshot DEF TypeOk, Staged, Contents
<1>1. CASE NewState
  BY <1>1 DEF NewState
<1>2. CASE NewStateUnreadable
  BY <1>2 DEF NewStateUnreadable
<1>3. ASSUME NEW k \in Keys, NEW t \in Times, NEW d \in Times,
             UpdateDeviceState(k, t, d)
      PROVE  TypeOk' /\ Staged'
  BY <1>3, UpdatedMap DEF UpdateDeviceState
<1>4. CASE BeginSave
  BY <1>4 DEF BeginSave
<1>5. CASE WriteTmp
  BY <1>5 DEF WriteTmp
<1>6. CASE Rename
  BY <1>6 DEF Rename
<1>7. CASE SaveFails
  BY <1>7 DEF SaveFails
<1>8. CASE Stop
  BY <1>8 DEF Stop
<1>9. CASE Flush
  BY <1>9 DEF Flush
<1>10. CASE LosePower
  BY <1>10 DEF LosePower
<1>11. CASE UNCHANGED vars
  BY <1>11 DEF vars
<1> QED BY <1>1, <1>2, <1>3, <1>4, <1>5, <1>6, <1>7, <1>8, <1>9, <1>10, <1>11
        DEF Next
------------------------------------------------------------------------------
(* Theorems *)

\* Memory, file, temp file and disk keep their types, and the temp file that
\* is renamed is complete (state.go:77-108).
THEOREM TypeCorrect == Spec => [](TypeOk /\ Staged)
BY InitCorrect, NextKeeps, PTL DEF Spec

\* No failed save and no death of the process tears the state file
\* (state.go:92-101), for any map and any order of operations.
THEOREM SavesNeverTear == Spec => TornOnlyByPowerLoss
<1>1. ASSUME TypeOk, Staged, [Next]_vars, file # Torn, file' = Torn
      PROVE  PowerLoss /\ disk # file /\ disk' = Torn /\ stage' = "down"
  <2>1. CASE Rename
    BY <1>1, <2>1, StateSentinels DEF Rename, TypeOk, Staged
  <2>2. CASE LosePower
    BY <1>1, <2>2 DEF LosePower
  <2>3. CASE ~Rename /\ ~LosePower
    BY <1>1, <2>3 DEF Next, vars, NewState, NewStateUnreadable,
       UpdateDeviceState, BeginSave, WriteTmp, SaveFails, Stop, Flush
  <2> QED BY <2>1, <2>2, <2>3
<1> QED BY <1>1, TypeCorrect, PTL DEF Spec, TornOnlyByPowerLoss

\* A state file the host has written back is replaced by a complete save and
\* by nothing else (state.go:77-108).
THEOREM FlushedSurvives == Spec => FlushedStateSurvives
<1>1. ASSUME TypeOk, Staged, [Next]_vars, disk = file
      PROVE  file' \in {file, devices}
  <2>1. CASE Rename
    BY <2>1, <1>1 DEF Rename, Staged
  <2>2. CASE LosePower
    BY <2>2, <1>1 DEF LosePower
  <2>3. CASE ~Rename /\ ~LosePower
    BY <1>1, <2>3 DEF Next, vars, NewState, NewStateUnreadable,
       UpdateDeviceState, BeginSave, WriteTmp, SaveFails, Stop, Flush
  <2> QED BY <2>1, <2>2, <2>3
<1> QED BY <1>1, TypeCorrect, PTL DEF Spec, FlushedStateSurvives

\* Each step on files and memory is a step of a map with atomic checkpoints,
\* or changes nothing of it (state.go:27-108).
LEMMA DurableStep ==
    ASSUME TypeOk, Staged, [Next]_vars
    PROVE  [Durable!Next]_(Durable!vars)
<1> USE LoadedIsSnapshot
<1>0. Durable!Nothing = Fresh
  BY DEF Durable!Nothing, Fresh
<1>1. ASSUME NewState \/ NewStateUnreadable PROVE Durable!Start
  BY <1>0, <1>1 DEF NewState, NewStateUnreadable, Durable!Start
<1>2. ASSUME NEW k \in Keys, NEW t \in Times, NEW d \in Times,
             UpdateDeviceState(k, t, d)
      PROVE  \E value \in DeviceState : Durable!Set(k, value)
  BY <1>2, UpdatedMap DEF TypeOk, UpdateDeviceState, Durable!Set
<1>3. ASSUME BeginSave \/ WriteTmp \/ SaveFails PROVE UNCHANGED Durable!vars
  BY <1>3 DEF BeginSave, WriteTmp, SaveFails, Durable!vars
<1>4. ASSUME Rename PROVE Durable!Checkpoint
  BY <1>4 DEF Rename, Durable!Checkpoint, TypeOk, Staged
<1>5. ASSUME Stop PROVE Durable!Stop
  BY <1>0, <1>5 DEF Stop, Durable!Stop
<1>6. ASSUME Flush PROVE Durable!Keep
  BY <1>6 DEF Flush, Durable!Keep
<1>7. ASSUME LosePower PROVE Durable!LosePower
  <2>1. PICK content \in {disk, file, Torn} : file' = content /\ disk' = content
    BY <1>7 DEF LosePower
  <2>2. Loaded(content) \in {Loaded(file), Loaded(disk), Fresh}
    BY <2>1, StateSentinels
  <2> QED BY <1>0, <1>7, <2>1, <2>2 DEF LosePower, Durable!LosePower
<1>8. ASSUME UNCHANGED vars PROVE UNCHANGED Durable!vars
  BY <1>8 DEF vars, Durable!vars
<1> QED BY <1>1, <1>2, <1>3, <1>4, <1>5, <1>6, <1>7, <1>8 DEF Next, Durable!Next

\* The resume state keeps what it promises: checkpoints are atomic.
THEOREM Implementation == Spec => ImplementsDurableState
<1>1. Init => Durable!Init
  BY LoadedIsSnapshot, StateSentinels
     DEF Init, Durable!Init, Durable!Nothing, Fresh
<1> QED BY <1>1, DurableStep, TypeCorrect, PTL
        DEF Spec, ImplementsDurableState, Durable!Spec
==============================================================================
