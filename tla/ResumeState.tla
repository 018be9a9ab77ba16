----------------------------- MODULE ResumeState -----------------------------
(***************************************************************************)
(* The resume state of the exporter (internal/resume/state.go): the map    *)
(* from device key to DeviceState that the process holds in memory, and    *)
(* the JSON file it is saved to by writing `<file>.tmp` and renaming it.   *)
(*                                                                         *)
(* LastPollTime is left out: the program only logs it.  The mutex is left  *)
(* out: one goroutine uses the State.  Exporter.tla conjoins the actions   *)
(* of this module with the steps of the poll loop that call them.          *)
(***************************************************************************)
EXTENDS Integers

CONSTANTS Keys,        \* device keys, "<site id>:<device sn>"
          Times,       \* the instants a state can hold
          ZeroTime,    \* Go's zero time.Time
          NoState,     \* no entry for a key in the map
          NoFile,      \* the file does not exist
          Torn,        \* the file holds something json.Unmarshal rejects
          PowerLoss    \* TRUE: the host may lose what it has not flushed

DeviceState == [lastExportTime : Times, lastDataTime : Times]
Snapshots   == [Keys -> DeviceState \cup {NoState}]
Contents    == Snapshots \cup {NoFile, Torn}

ASSUME StateSentinels == /\ NoState \notin DeviceState
                         /\ NoFile \notin Snapshots
                         /\ Torn \notin Snapshots
                         /\ NoFile # Torn
ASSUME TimesAreIntegers == Times \subseteq Int /\ ZeroTime \in Int
ASSUME PowerLossFlag == PowerLoss \in BOOLEAN

VARIABLES devices,     \* State.Devices, in the memory of the process
          file,        \* what a reader of the state file sees
          tmp,         \* what a reader of <file>.tmp sees
          disk,        \* the state file as a power loss would leave it
          stage        \* "down", "idle", or how far Save has got

vars == <<devices, file, tmp, disk, stage>>

Fresh == [k \in Keys |-> NoState]

\* Mutant of Loaded: the error of Unmarshal is ignored.
LoadedUnchecked(content) == content

\* What NewState starts with, given the content of the state file: anything
\* that is not a complete snapshot is answered with an empty map.
Loaded(content) == IF content \in Snapshots THEN content ELSE Fresh

Has(k) == devices[k] # NoState

\* Mutant of GetResumeTime: the map is not consulted.
GetResumeTimeStateless(k, t, lookback) == t - lookback

\* Where collection of a device resumes, at time t.
GetResumeTime(k, t, lookback) ==
    IF ~Has(k) \/ devices[k].lastDataTime = ZeroTime
    THEN t - lookback
    ELSE devices[k].lastDataTime

Init == /\ devices = Fresh
        /\ file = NoFile
        /\ tmp = NoFile
        /\ disk = NoFile
        /\ stage = "down"
------------------------------------------------------------------------------
\* Mutant of NewState: it prefers the temp file.
NewStateFromTmp == /\ stage = "down"
                   /\ devices' = Loaded(tmp)
                   /\ stage' = "idle"
                   /\ UNCHANGED <<file, tmp, disk>>

NewState == /\ stage = "down"
            /\ devices' = Loaded(file)
            /\ stage' = "idle"
            /\ UNCHANGED <<file, tmp, disk>>

\* The file is there but cannot be read: NewState warns and starts fresh.
NewStateUnreadable == /\ stage = "down"
                      /\ file # NoFile
                      /\ devices' = Fresh
                      /\ stage' = "idle"
                      /\ UNCHANGED <<file, tmp, disk>>

UpdateDeviceState(k, t, lastDataTime) ==
    /\ stage = "idle"
    /\ devices' = [devices EXCEPT ![k] = [lastExportTime |-> t,
                                          lastDataTime |-> lastDataTime]]
    /\ UNCHANGED <<file, tmp, disk, stage>>

\* Mutant of BeginSave: it writes the state file itself.
BeginSaveInPlace == /\ stage = "idle"
                    /\ file' = Torn
                    /\ stage' = "writing"
                    /\ UNCHANGED <<devices, tmp, disk>>

\* Save, up to the opening of the temp file: WriteFile truncates it.
BeginSave == /\ stage = "idle"
             /\ tmp' = Torn
             /\ stage' = "writing"
             /\ UNCHANGED <<devices, file, disk>>

WriteTmp == /\ stage = "writing"
            /\ tmp' = devices
            /\ stage' = "written"
            /\ UNCHANGED <<devices, file, disk>>

Rename == /\ stage = "written"
          /\ file' = tmp
          /\ tmp' = NoFile
          /\ stage' = "idle"
          /\ UNCHANGED <<devices, disk>>

\* Mutant of SaveFails: the cleanup removes the state file.
SaveFailsAndRemoves == /\ stage \in {"idle", "writing", "written"}
                       /\ stage' = "idle"
                       /\ file' = NoFile
                       /\ UNCHANGED <<devices, tmp, disk>>

\* MkdirAll, WriteFile or Rename fails and Save returns the error.
SaveFails == /\ stage \in {"idle", "writing", "written"}
             /\ stage' = "idle"
             /\ UNCHANGED <<devices, file, tmp, disk>>

\* The process ends: what it held in memory is gone.
Stop == /\ stage # "down"
        /\ stage' = "down"
        /\ devices' = Fresh
        /\ UNCHANGED <<file, tmp, disk>>

\* The kernel writes the file and its directory entry back.
Flush == /\ PowerLoss
         /\ disk # file
         /\ disk' = file
         /\ UNCHANGED <<devices, file, tmp, stage>>

\* Nothing calls fsync: after a power loss the file is the old one, the new
\* one, or a new directory entry whose data never reached the disk.
LosePower == /\ PowerLoss
             /\ \E content \in {disk, file} \cup
                               (IF disk # file THEN {Torn} ELSE {}) :
                    /\ file' = content
                    /\ disk' = content
             /\ stage' = "down"
             /\ devices' = Fresh
             /\ tmp' = NoFile

\* Any number of updates and saves, in any order, by one caller at a time.
Next == \/ NewState
        \/ NewStateUnreadable
        \/ \E k \in Keys, t, d \in Times : UpdateDeviceState(k, t, d)
        \/ BeginSave
        \/ WriteTmp
        \/ Rename
        \/ SaveFails
        \/ Stop
        \/ Flush
        \/ LosePower

Spec == Init /\ [][Next]_vars
------------------------------------------------------------------------------
TypeOk == /\ devices \in Snapshots
          /\ file \in Contents
          /\ tmp \in Contents
          /\ disk \in Contents
          /\ stage \in {"down", "idle", "writing", "written"}

\* A process that fails or dies anywhere in Save leaves the state file
\* readable: only a power loss can tear it, before the host has written it
\* back (state.go:92-101).
TornOnlyByPowerLoss ==
    [][file # Torn /\ file' = Torn =>
          PowerLoss /\ disk # file /\ disk' = Torn /\ stage' = "down"]_vars

\* Once the host has written the state file back, no failed save, crash or
\* power loss takes it away: it changes only by a Save that goes through,
\* and then to what memory holds (state.go:77-108).
FlushedStateSurvives == [][disk = file => file' \in {file, devices}]_vars

\* The temp file and the rename implement a checkpoint that replaces the
\* saved map as a whole; what a save that fails half-way or a process that
\* dies in it leaves behind is never picked up (state.go:27-108).
Durable == INSTANCE DurableState
              WITH Values <- DeviceState, NoValue <- NoState,
                   live <- devices, saved <- Loaded(file),
                   kept <- Loaded(disk), up <- stage # "down"

ImplementsDurableState == Durable!Spec
==============================================================================
