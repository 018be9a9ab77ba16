------------------------------- MODULE Exporter -------------------------------
(***************************************************************************)
(* The poll loop of the exporter (cmd/exporter/main.go) with its resume    *)
(* state (ResumeState.tla), as one process that starts, polls, is told to  *)
(* stop, and may crash; around it the Anker cloud, which answers, fails or *)
(* lets the token expire, and the database, which keeps what it commits,   *)
(* also when the client has given up waiting for the answer.               *)
(*                                                                         *)
(* Time is an integer clock; a day is DayLen units and a daily value of    *)
(* day d carries the timestamp d * DayLen, the midnight that begins it.    *)
(* A value that the cloud gives out while the day goes on is a part of the *)
(* day's total.  Rows written by WriteMeasurements are counted per device  *)
(* key and day; the site in that key is history only, the table has no     *)
(* site column.  Live measurements (GetCurrentMeasurements), whose         *)
(* outcome the loop only logs, and the sites and devices tables are left   *)
(* out.                                                                    *)
(***************************************************************************)
EXTENDS Integers, FiniteSets

CONSTANTS Sites, Devices,
          DayLen,        \* clock units in a day
          MaxDay,        \* the clock stops in the first unit of this day
          PollInterval,  \* config poll_interval
          Lookback,      \* 7 * 24h in processDevice
          Faults,        \* the faults this instance can have
          MaxLosses,     \* bound on the events that lose progress
          MaxMoves,      \* bound on moves of a device to another site
          NoKey, NoState, NoFile, Torn

ZeroTime == 0
FaultKinds == {"crash", "power", "lostack", "save", "unreadable", "partial"}
Keys == Sites \X Devices
Days == 1..MaxDay
Ts(d) == d * DayLen
DayOf(t) == t \div DayLen
MaxTime == Ts(MaxDay)
Horizon == MaxTime + PollInterval
Times == 0..Horizon

ASSUME ClockAssumption == /\ DayLen \in Nat \ {0}
                          /\ MaxDay \in Nat \ {0}
                          /\ PollInterval \in Nat \ {0}
                          /\ Lookback \in Nat
ASSUME BoundsAssumption == MaxLosses \in Nat /\ MaxMoves \in Nat
ASSUME FaultsAssumption == Faults \subseteq FaultKinds
ASSUME KeysAssumption == NoKey \notin Keys

VARIABLES devices, file, tmp, disk, stage,   \* resume state
          pc,         \* where the main goroutine is
          cancelled,  \* ctx.Done() is closed
          token,      \* what the client holds: "none", "live" or "stale"
          now,        \* the clock
          wait,       \* units until the ticker fires
          fire,       \* ticker.C holds a tick (its buffer is one)
          visit,      \* sites of this poll still to be processed
          todo,       \* devices of this poll still to be processed, by key
          key,        \* the device in processDevice
          start, end, \* startTime and endTime in processDevice
          batch,      \* days of the measurements to write
          asked,      \* when the cloud answered for them
          rows,       \* daily rows committed, per key and day
          totals,     \* <<key, day>> of rows that hold the day's total
          adrift,     \* COMMITs the client has given up, still to be
                      \* applied or dropped by the server
          home,       \* the site each device is registered to in the cloud
          moves,      \* history: moves of devices
          losses      \* history: events that can lose progress

RS == INSTANCE ResumeState WITH PowerLoss <- "power" \in Faults

ASSUME SentinelsAssumption == /\ NoState \notin RS!DeviceState
                              /\ NoFile \notin RS!Snapshots
                              /\ Torn \notin RS!Snapshots

stateVars == <<devices, file, tmp, disk, stage>>
clockVars == <<now, wait, fire>>
pollVars == <<visit, todo>>
deviceVars == <<key, start, end, batch, asked>>
dbVars == <<rows, totals, adrift>>
cloudVars == <<home, moves>>
vars == <<stateVars, pc, cancelled, token, clockVars, pollVars, deviceVars,
          dbVars, cloudVars, losses>>

PCs == {"down", "login", "sites", "relogin", "retry", "site", "device",
        "fetch", "write", "commit", "update", "save", "select", "exit",
        "ended"}

\* The local variables of poll and processDevice before they have a value.
NoPoll == visit = {} /\ todo = {}
NoDevice == key = NoKey /\ start = 0 /\ end = 0 /\ batch = {} /\ asked = 0
EndPoll == visit' = {} /\ todo' = {}
EndDevice == /\ key' = NoKey /\ start' = 0 /\ end' = 0
             /\ batch' = {} /\ asked' = 0

Init == /\ RS!Init
        /\ pc = "down"
        /\ cancelled = FALSE
        /\ token = "none"
        /\ now = DayLen /\ wait = PollInterval /\ fire = FALSE
        /\ NoPoll /\ NoDevice
        /\ rows = [k \in Keys |-> [d \in Days |-> 0]]
        /\ totals = {} /\ adrift = {}
        /\ home \in [Devices -> Sites]
        /\ moves = 0
        /\ losses = 0

\* An event that can lose progress, one of at most MaxLosses.
Lose(fault) == fault \in Faults /\ losses < MaxLosses /\ losses' = losses + 1
------------------------------------------------------------------------------
(* main and Run *)

\* main loads the resume state and starts Run, whose first poll is at once.
\* A start that ends before the loop (configuration, database, migrations)
\* touches none of this state.
Start == /\ pc = "down"
         /\ \/ RS!NewState /\ UNCHANGED losses
            \/ RS!NewStateUnreadable /\ Lose("unreadable")
         /\ pc' = "login"
         /\ wait' = PollInterval /\ fire' = FALSE
         /\ UNCHANGED <<cancelled, token, now, pollVars, deviceVars, dbVars,
                        cloudVars>>

\* A poll logs in only if the client holds no token.
BeginPoll == IF token = "none" THEN "login" ELSE "sites"

SelectTick == /\ pc = "select" /\ fire
              /\ fire' = FALSE
              /\ pc' = BeginPoll
              /\ UNCHANGED <<stateVars, cancelled, token, now, wait, pollVars,
                             deviceVars, dbVars, cloudVars, losses>>

\* Mutants of SelectDone: a waiting tick goes first; no Save on the way out.
SelectDoneAfterTick == /\ pc = "select" /\ cancelled /\ ~fire
                       /\ pc' = "exit"
                       /\ UNCHANGED <<stateVars, cancelled, token, clockVars,
                                      pollVars, deviceVars, dbVars, cloudVars,
                                      losses>>
SelectDoneUnsaved == /\ pc = "select" /\ cancelled
                     /\ pc' = "ended"
                     /\ UNCHANGED <<stateVars, cancelled, token, clockVars,
                                    pollVars, deviceVars, dbVars, cloudVars,
                                    losses>>

SelectDone == /\ pc = "select" /\ cancelled
              /\ pc' = "exit"
              /\ UNCHANGED <<stateVars, cancelled, token, clockVars, pollVars,
                             deviceVars, dbVars, cloudVars, losses>>
------------------------------------------------------------------------------
(* poll *)

LoginOk == /\ pc \in {"login", "relogin"}
           /\ token' = "live"
           /\ pc' = IF pc = "login" THEN "sites" ELSE "retry"
           /\ UNCHANGED <<stateVars, cancelled, clockVars, pollVars, deviceVars,
                          dbVars, cloudVars, losses>>

LoginFails == /\ pc \in {"login", "relogin"}
              /\ pc' = "select"
              /\ UNCHANGED <<stateVars, cancelled, token, clockVars, pollVars,
                             deviceVars, dbVars, cloudVars, losses>>

\* GetSites: a site whose scene info could not be fetched has no devices.
GetSitesOk == /\ pc \in {"sites", "retry"}
              /\ token = "live"
              /\ visit' = Sites
              /\ \E known \in SUBSET Sites :
                    todo' = {k \in Keys : k[1] \in known /\ home[k[2]] = k[1]}
              /\ pc' = "site"
              /\ UNCHANGED <<stateVars, cancelled, token, clockVars, deviceVars,
                             dbVars, cloudVars, losses>>

\* Mutant of GetSitesFails: it does not log in again.
GetSitesGivesUp == /\ pc \in {"sites", "retry"}
                   /\ pc' = "select"
                   /\ UNCHANGED <<stateVars, cancelled, token, clockVars,
                                  pollVars, deviceVars, dbVars, cloudVars,
                                  losses>>

GetSitesFails == /\ pc \in {"sites", "retry"}
                 /\ pc' = IF pc = "sites" THEN "relogin" ELSE "select"
                 /\ UNCHANGED <<stateVars, cancelled, token, clockVars,
                                pollVars, deviceVars, dbVars, cloudVars, losses>>

\* The next site, in the order of the answer, and its live measurements.
NextSite == /\ pc = "site" /\ visit # {}
            /\ \E s \in visit : visit' = visit \ {s}
            /\ pc' = "device"
            /\ UNCHANGED <<stateVars, cancelled, token, clockVars, todo,
                           deviceVars, dbVars, cloudVars, losses>>

\* The loop over the sites is over; the poll ends with a Save.
SitesDone == /\ pc = "site" /\ visit = {}
             /\ pc' = "save"
             /\ UNCHANGED <<stateVars, cancelled, token, clockVars, pollVars,
                            deviceVars, dbVars, cloudVars, losses>>

\* The devices left of the site being processed.
AtSite == {k \in todo : k[1] \notin visit}

SiteDone == /\ pc = "device" /\ AtSite = {}
            /\ pc' = "site"
            /\ UNCHANGED <<stateVars, cancelled, token, clockVars, pollVars,
                           deviceVars, dbVars, cloudVars, losses>>
------------------------------------------------------------------------------
(* processDevice *)

\* Mutant of TooSoon: every tick exports.
NeverTooSoon(k) == FALSE

TooSoon(k) == /\ RS!Has(k)
              /\ now - devices[k].lastExportTime < PollInterval

SkipDevice(k) == /\ pc = "device" /\ k \in AtSite
                 /\ TooSoon(k)
                 /\ todo' = todo \ {k}
                 /\ UNCHANGED <<stateVars, pc, cancelled, token, clockVars,
                                visit, deviceVars, dbVars, cloudVars, losses>>

BeginDevice(k) == /\ pc = "device" /\ k \in AtSite
                  /\ ~TooSoon(k)
                  /\ todo' = todo \ {k}
                  /\ key' = k
                  /\ start' = RS!GetResumeTime(k, now, Lookback)
                  /\ end' = now
                  /\ pc' = "fetch"
                  /\ UNCHANGED <<stateVars, cancelled, token, clockVars, visit,
                                 batch, asked, dbVars, cloudVars, losses>>

\* The days whose values the cloud holds when asked for startTime..endTime.
Published == {d \in Days : DayOf(start) <= d /\ d <= DayOf(end)}

\* The cloud's answer: all of them, or, when values are published late or
\* their dates do not parse, some of them.
Replies == IF "partial" \in Faults THEN SUBSET Published ELSE {Published}

\* Mutant of IsNew: the day at startTime counts as new.
IsNewOrLast(d) == Ts(d) >= start

\* The filter of data already exported.  startTime is never the zero time.
IsNew(d) == Ts(d) > start

\* The measurements that are new; with none, processDevice returns.
FetchOk == /\ pc = "fetch"
           /\ token = "live"
           /\ \E reply \in Replies :
                 LET new == {d \in reply : IsNew(d)} IN
                 IF new = {}
                 THEN pc' = "device" /\ EndDevice
                 ELSE /\ pc' = "write"
                      /\ batch' = new
                      /\ asked' = now
                      /\ UNCHANGED <<key, start, end>>
           /\ UNCHANGED <<stateVars, cancelled, token, clockVars, pollVars,
                          dbVars, cloudVars, losses>>

\* Mutant of FetchFails: the poll ends with the error.
FetchFailsPoll == /\ pc = "fetch"
                  /\ pc' = "select" /\ EndPoll /\ EndDevice
                  /\ UNCHANGED <<stateVars, cancelled, token, clockVars, dbVars,
                                 cloudVars, losses>>

FetchFails == /\ pc = "fetch"
              /\ pc' = "device" /\ EndDevice
              /\ UNCHANGED <<stateVars, cancelled, token, clockVars, pollVars,
                             dbVars, cloudVars, losses>>

\* The days of the batch that were over when the cloud answered.
Complete == {d \in batch : d < DayOf(asked)}

\* The COMMIT of the batch, told apart by the loss it may become.
Sent == [loss |-> losses + 1, key |-> key, days |-> batch,
         complete |-> Complete]
InFlight == {c \in {Sent} : pc = "commit"}

\* WriteMeasurements inserts the whole batch in one transaction, one row
\* per measurement, whatever the table holds already.
Insert(c) ==
    /\ rows' = [rows EXCEPT ![c.key] =
                   [d \in Days |-> @[d] + IF d \in c.days THEN 1 ELSE 0]]
    /\ totals' = totals \cup {<<c.key, d>> : d \in c.complete}

\* The statements went through and Commit sends the COMMIT; nothing is sent
\* any more under a cancelled context.
SendCommit == /\ pc = "write" /\ ~cancelled
              /\ pc' = "commit"
              /\ UNCHANGED <<stateVars, cancelled, token, clockVars, pollVars,
                             deviceVars, dbVars, cloudVars, losses>>

\* Mutant of WriteOk: after a cancellation processDevice returns at once.
WriteOkUnlessCancelled ==
    /\ pc = "commit"
    /\ Insert(Sent) /\ UNCHANGED adrift
    /\ IF cancelled THEN pc' = "device" /\ EndDevice
                    ELSE pc' = "update" /\ UNCHANGED deviceVars
    /\ UNCHANGED <<stateVars, cancelled, token, clockVars, pollVars,
                   cloudVars, losses>>

\* The server's answer arrives, also when the context is cancelled meanwhile.
WriteOk == /\ pc = "commit"
           /\ Insert(Sent) /\ UNCHANGED adrift
           /\ pc' = "update"
           /\ UNCHANGED <<stateVars, cancelled, token, clockVars, pollVars,
                          deviceVars, cloudVars, losses>>

\* Mutant of WriteFails: the error is logged and the state updated.
WriteFailsUnseen == /\ pc \in {"write", "commit"}
                    /\ pc' = "update"
                    /\ UNCHANGED <<stateVars, cancelled, token, clockVars,
                                   pollVars, deviceVars, dbVars, cloudVars,
                                   losses>>

\* A statement or the COMMIT fails, and the server keeps nothing.
WriteFails == /\ pc \in {"write", "commit"}
              /\ pc' = "device" /\ EndDevice
              /\ UNCHANGED <<stateVars, cancelled, token, clockVars, pollVars,
                             dbVars, cloudVars, losses>>

\* The connection breaks or the context is cancelled while the COMMIT is in
\* flight: WriteMeasurements returns an error, whatever the server does.
CommitAbandoned == /\ pc = "commit"
                   /\ Lose("lostack")
                   /\ adrift' = adrift \cup InFlight
                   /\ pc' = "device" /\ EndDevice
                   /\ UNCHANGED <<stateVars, cancelled, token, clockVars,
                                  pollVars, rows, totals, cloudVars>>

\* Mutants of Latest: the time of the export; the last day asked for.
LatestIsNow == now
LatestIsEnd == Ts(DayOf(end))

\* latestDataTime, the latest timestamp in the batch.
Latest == Ts(CHOOSE d \in batch : \A e \in batch : e <= d)

Update == /\ pc = "update"
          /\ RS!UpdateDeviceState(key, now, Latest)
          /\ pc' = "device" /\ EndDevice
          /\ UNCHANGED <<cancelled, token, clockVars, pollVars, dbVars,
                         cloudVars, losses>>
------------------------------------------------------------------------------
(* Save, at the end of a poll and on the way out *)

SaveStep == /\ pc \in {"save", "exit"}
            /\ RS!BeginSave \/ RS!WriteTmp
            /\ UNCHANGED <<pc, cancelled, token, clockVars, pollVars,
                           deviceVars, dbVars, cloudVars, losses>>

SaveOk == /\ pc = "save"
          /\ RS!Rename
          /\ pc' = "select"
          /\ UNCHANGED <<cancelled, token, clockVars, pollVars, deviceVars,
                         dbVars, cloudVars, losses>>

\* The error is logged and the loop goes on.
SaveFails == /\ pc = "save"
             /\ RS!SaveFails
             /\ pc' = "select"
             /\ UNCHANGED <<cancelled, token, clockVars, pollVars, deviceVars,
                            dbVars, cloudVars, losses>>

\* The last Save goes through, or fails and its error is logged.
FinalSaveOk == /\ pc = "exit"
               /\ RS!Rename
               /\ pc' = "ended"
               /\ UNCHANGED <<cancelled, token, clockVars, pollVars,
                              deviceVars, dbVars, cloudVars, losses>>

FinalSaveFails == /\ pc = "exit"
                  /\ RS!SaveFails
                  /\ Lose("save")
                  /\ pc' = "ended"
                  /\ UNCHANGED <<cancelled, token, clockVars, pollVars,
                                 deviceVars, dbVars, cloudVars>>

\* What a process loses with its memory.
Down == /\ pc' = "down"
        /\ cancelled' = FALSE
        /\ token' = "none"
        /\ wait' = PollInterval /\ fire' = FALSE
        /\ EndPoll /\ EndDevice

\* Run and main return.
Exit == /\ pc = "ended"
        /\ RS!Stop
        /\ Down
        /\ UNCHANGED <<now, dbVars, cloudVars, losses>>
------------------------------------------------------------------------------
(* The environment *)

\* SIGINT or SIGTERM, once: the signal goroutine cancels the context.
Cancel == /\ pc \notin {"down", "ended"} /\ ~cancelled
          /\ cancelled' = TRUE
          /\ UNCHANGED <<stateVars, pc, token, clockVars, pollVars, deviceVars,
                         dbVars, cloudVars, losses>>

Crash == /\ RS!Stop
         /\ Lose("crash")
         /\ adrift' = adrift \cup InFlight
         /\ Down
         /\ UNCHANGED <<now, rows, totals, cloudVars>>

PowerFails == /\ RS!LosePower
              /\ Lose("power")
              /\ adrift' = adrift \cup InFlight
              /\ Down
              /\ UNCHANGED <<now, rows, totals, cloudVars>>

\* The server gets to a COMMIT whose client is gone, or never sees it.
CommitLands == /\ \E c \in adrift : Insert(c) /\ adrift' = adrift \ {c}
               /\ UNCHANGED <<stateVars, pc, cancelled, token, clockVars,
                              pollVars, deviceVars, cloudVars, losses>>

CommitDropped == /\ \E c \in adrift : adrift' = adrift \ {c}
                 /\ UNCHANGED <<stateVars, pc, cancelled, token, clockVars,
                                pollVars, deviceVars, rows, totals, cloudVars,
                                losses>>

Flush == /\ RS!Flush
         /\ UNCHANGED <<pc, cancelled, token, clockVars, pollVars, deviceVars,
                        dbVars, cloudVars, losses>>

\* Mutant of Ticker: it is not set again.
TickerOnce == IF pc = "down" THEN UNCHANGED <<wait, fire>>
              ELSE wait' = wait - 1 /\ fire' = (wait = 1)

\* The ticker drops a tick that finds one waiting.
Ticker == IF pc = "down" THEN UNCHANGED <<wait, fire>>
          ELSE IF wait = 1 THEN wait' = PollInterval /\ fire' = TRUE
          ELSE wait' = wait - 1 /\ UNCHANGED fire

\* The clock stops at Horizon and the ticker goes on.  A device taken up
\* before the last day is done with before the clock leaves MaxTime, so that
\* the horizon cannot make a device too recent for ever.
Advance == /\ IF now < Horizon
              THEN /\ now = MaxTime /\ key # NoKey => end = MaxTime
                   /\ now' = now + 1
              ELSE pc # "down" /\ UNCHANGED now
           /\ Ticker
           /\ UNCHANGED <<stateVars, pc, cancelled, token, pollVars, deviceVars,
                          dbVars, cloudVars, losses>>

TokenExpires == /\ token = "live"
                /\ token' = "stale"
                /\ UNCHANGED <<stateVars, pc, cancelled, clockVars, pollVars,
                               deviceVars, dbVars, cloudVars, losses>>

\* The owner registers a device to another site.
Move(v) == /\ moves < MaxMoves
           /\ moves' = moves + 1
           /\ \E s \in Sites \ {home[v]} : home' = [home EXCEPT ![v] = s]
           /\ UNCHANGED <<stateVars, pc, cancelled, token, clockVars, pollVars,
                          deviceVars, dbVars, losses>>
------------------------------------------------------------------------------
\* A step of the main goroutine.
Main == \/ Start \/ SelectTick \/ SelectDone
        \/ LoginOk \/ LoginFails \/ GetSitesOk \/ GetSitesFails
        \/ NextSite \/ SitesDone \/ SiteDone
        \/ \E k \in Keys : SkipDevice(k) \/ BeginDevice(k)
        \/ FetchOk \/ FetchFails
        \/ SendCommit \/ WriteOk \/ WriteFails \/ CommitAbandoned \/ Update
        \/ SaveStep \/ SaveOk \/ SaveFails
        \/ FinalSaveOk \/ FinalSaveFails \/ Exit

Environment == \/ Cancel \/ Crash \/ PowerFails \/ Flush
               \/ Advance \/ TokenExpires \/ CommitLands \/ CommitDropped
               \/ \E v \in Devices : Move(v)

Next == Main \/ Environment

Spec == Init /\ [][Next]_vars

\* Every call the goroutine makes returns (HTTP calls after 10 seconds), and
\* select picks one of two ready cases at random, so not always the ticker.
Scheduling == WF_vars(Main) /\ SF_vars(SelectDone)

\* The calls for the devices in healthy, when they are made again and again,
\* succeed in the end.
Services(healthy) ==
    /\ SF_vars(LoginOk)
    /\ \A k \in Sites \X healthy : /\ SF_vars(GetSitesOk /\ k \in todo')
                                   /\ SF_vars(FetchOk /\ key = k)
                                   /\ SF_vars(SendCommit /\ key = k)
                                   /\ SF_vars(WriteOk /\ key = k)

FairSpec == Spec /\ Scheduling /\ WF_vars(Advance)
------------------------------------------------------------------------------
(* Properties *)

LoopType == /\ pc \in PCs
            /\ cancelled \in BOOLEAN
            /\ token \in {"none", "live", "stale"}
            /\ losses \in 0..MaxLosses
ClockType == now \in Times /\ wait \in 1..PollInterval /\ fire \in BOOLEAN
PollType == visit \subseteq Sites /\ todo \subseteq Keys
DeviceType == /\ key \in Keys \cup {NoKey}
              /\ start \in Int /\ end \in Times
              /\ batch \subseteq Days /\ asked \in Times
Commits == [loss : 1..MaxLosses, key : Keys, days : SUBSET Days,
            complete : SUBSET Days]
RowsType == /\ rows \in [Keys -> [Days -> Nat]]
            /\ totals \subseteq Keys \X Days
            /\ adrift \subseteq Commits /\ IsFiniteSet(adrift)
CloudType == home \in [Devices -> Sites] /\ moves \in 0..MaxMoves

TypeOk == /\ RS!TypeOk /\ LoopType /\ ClockType /\ PollType
          /\ DeviceType /\ RowsType /\ CloudType

\* A watermark content holds for key k reaches day d.
Reaches(content, k, d) == /\ content[k] # NoState
                          /\ content[k].lastDataTime >= Ts(d)

\* The map the exporter goes by, or will start from.
Known == IF pc \in {"ended", "down"} THEN RS!Loaded(file) ELSE devices

\* A day's value is stored again only after an event that loses progress: a
\* crash or power failure before a Save, a COMMIT whose answer is lost, a
\* final Save that fails, a state file that cannot be read.  However late a
\* COMMIT that was given up is applied after all, and however failed
\* calls, restarts, slow polls and waiting ticks interleave, polls alone
\* never import a day twice (main.go:357, 455, 533-555; state.go:77-149).
DuplicatesBounded == \A k \in Keys, d \in Days : rows[k][d] <= 1 + losses

\* Why DuplicatesBounded is preserved.  Phases: the stage of the resume state
\* follows pc, and a temp file that is about to be renamed holds the map in
\* memory.  Device: startTime is no earlier than the watermark, so the days to
\* write are beyond it.  Credit: a day beyond the watermark has been stored, or
\* is adrift, at most once per loss; a day the watermark reaches, or is about
\* to, once more.
Phases == /\ pc = "down" <=> stage = "down"
          /\ pc \notin {"down", "save", "exit"} => stage = "idle"
          /\ stage = "written" => tmp = devices
Device == /\ pc \in {"fetch", "write", "commit", "update"} => key \in Keys
          /\ pc = "fetch" =>
                \A d \in Days : Reaches(devices, key, d) => Ts(d) <= start
          /\ pc \in {"write", "commit", "update"} =>
                batch # {} /\ \A d \in batch : ~Reaches(devices, key, d)
Reached(k, d) == \/ Reaches(Known, k, d)
                 \/ pc = "update" /\ k = key /\ d \in batch
Pending(k, d) == {c \in adrift : c.key = k /\ d \in c.days}
Copies(k, d) == rows[k][d] + Cardinality(Pending(k, d))
Credit == \A k \in Keys, d \in Days :
             Copies(k, d) <= losses + (IF Reached(k, d) THEN 1 ELSE 0)
ImportsAccounted == Phases /\ Device /\ Credit

\* Resume progress is never ahead of the database: a day that a watermark
\* points to, in memory, in the state file, in the temp file or in what a
\* power loss would leave, has a row (main.go:533-555).
WatermarkBacked ==
    \A content \in {devices, file, tmp, disk} \cap RS!Snapshots :
       \A k \in Keys, d \in Days :
          content[k] # NoState /\ content[k].lastDataTime = Ts(d)
             => rows[k][d] > 0

\* No day is jumped over: with a lookback that reaches back to the first day
\* and a cloud that leaves no day out of its answers, every day a watermark
\* has reached has a row (main.go:442-494).
NoDaySkipped ==
    \A content \in {devices, file, disk} \cap RS!Snapshots :
       \A k \in Keys, d \in Days : Reaches(content, k, d) => rows[k][d] > 0

\* Resume progress, what memory holds or the next start will load, goes back
\* only when progress is lost: not by a late or partial answer, a failed
\* Save, a shutdown or a restart (main.go:165-176, state.go:27-46).
ProgressKept ==
    [][\A k \in Keys, d \in Days :
          Reaches(Known, k, d) /\ losses' = losses => Reaches(Known, k, d)']_vars

\* Two exports of a device by one process are at least a poll interval
\* apart, even when a tick is waiting after a slow poll (main.go:368-388).
ExportsSpaced ==
    [][\A k \in Keys :
          RS!Has(k) /\ RS!Has(k)' /\ devices'[k] # devices[k]
             => devices'[k].lastExportTime - devices[k].lastExportTime
                   >= PollInterval]_vars

\* A process that ends by itself leaves no stored day out of the state file:
\* what the database holds beyond one copy per loss is saved, also when the
\* shutdown comes between a COMMIT and its answer, or between the answer and
\* the next Save (main.go:165-176, 533-555).
ShutdownRemembers ==
    pc = "ended" =>
       \A k \in Keys, d \in Days :
          rows[k][d] > losses => Reaches(RS!Loaded(file), k, d)

\* A shutdown request ends the process, also when polls take so long that a
\* tick is always waiting (main.go:163-177).
ShutdownCompletes == cancelled ~> pc = "down"

\* Every day of a device whose calls succeed in the end is stored, whatever
\* fails on the way and however the calls for other devices fail, once
\* shutdowns stop and the token is found expired no more: what failed is asked
\* for again from the watermark, and a token that has expired is replaced
\* (main.go:203-224, 299-310, 357, 455).  The days are those the lookback
\* reaches back to.
TokenFoundExpired == token = "live" /\ token' = "stale"
EveryDayStored(healthy) ==
    (<>[]~cancelled /\ <>[][~TokenFoundExpired]_token)
       => \A v \in healthy, d \in Days : <>(\E s \in Sites : rows[<<s, v>>][d] > 0)
==============================================================================
