-------------------------------- MODULE Writer --------------------------------
(***************************************************************************)
(* WriteMeasurements (internal/database/writer.go) statement by statement, *)
(* for callers that share the database.  A call first brings the sites and *)
(* devices tables up to date, one FirstOrCreate per key, and then inserts  *)
(* the measurements in chunks within one transaction.                      *)
(*                                                                         *)
(* GORM and PostgreSQL are modelled from that use.  FirstOrCreate is a     *)
(* SELECT and then an INSERT or an UPDATE, each a transaction of its own.  *)
(* A condition or an assignment given as a struct leaves its blank fields  *)
(* out: a blank key matches every row, of which the oldest is taken (which *)
(* one that is, is not kept here), and a blank name overwrites nothing.    *)
(* Keys are unique, a device refers to a site and a measurement to a       *)
(* device.  Nothing deletes a site or a device.                            *)
(***************************************************************************)
EXTENDS Measurements, FiniteSets

CONSTANTS Callers,
          Batches,     \* the batches that are written
          BatchSize,   \* measurements in a chunk, 100 in the code
          MaxCalls,    \* bound on the calls that are not retries
          MaxFaults,   \* bound on failing statements and lost answers
          NoRow

ASSUME BatchesAssumption == Batches \subseteq Seq(Measurement)
ASSUME BoundsAssumption == /\ BatchSize \in Nat \ {0}
                           /\ MaxCalls \in Nat /\ MaxFaults \in Nat
ASSUME NoRowAssumption ==
    NoRow \notin SiteIDs \cup DeviceSNs \cup Names
                 \cup [site : SiteIDs, name : Names, type : DeviceTypes]

VARIABLES pc,        \* per caller: where its call is
          batch,     \* per caller: the argument
          todo,      \* per caller: keys of the loop that are still to come
          key,       \* per caller: the key of the loop at hand
          found,     \* per caller: the row its SELECT found, or NoRow
          inserted,  \* per caller: measurements inserted, not committed
          sites,     \* table: the name of each site
          devices,   \* table: site, name and type of each device
          rows,      \* table: the number of measurements of each device
          calls, faults

callVars == <<pc, batch, todo, key, found, inserted>>
tables == <<sites, devices, rows>>
vars == <<callVars, tables, calls, faults>>

InSites == {"sites", "site"}
InDevices == {"devices", "device"}
Running == InSites \cup InDevices \cup {"insert", "commit"}

Init == /\ pc = [c \in Callers |-> "idle"]
        /\ batch = [c \in Callers |-> << >>]
        /\ todo = [c \in Callers |-> {}]
        /\ key = [c \in Callers |-> NoRow]
        /\ found = [c \in Callers |-> NoRow]
        /\ inserted = [c \in Callers |-> 0]
        /\ sites = [s \in SiteIDs |-> NoRow]
        /\ devices = [d \in DeviceSNs |-> NoRow]
        /\ rows = [d \in DeviceSNs |-> 0]
        /\ calls = 0 /\ faults = 0

\* sitesMap and devicesMap: the last measurement with a key decides.
SiteKeys(b) == {b[i].site : i \in DOMAIN b}
\* As DeviceKeys, if a batch were taken to be of one device.
FirstDeviceKey(b) == {b[i].sn : i \in DOMAIN b \cap {1}}
DeviceKeys(b) == {b[i].sn : i \in DOMAIN b}
Last(b, I) == b[CHOOSE i \in I : \A j \in I : j <= i]
LastOfSite(b, s) == Last(b, {i \in DOMAIN b : b[i].site = s})
LastOfDevice(b, d) == Last(b, {i \in DOMAIN b : b[i].sn = d})

\* As Matches, if the condition were dropped.
MatchesAny(k, row) == TRUE
Matches(k, row) == k = Blank \/ k = row
\* As Assigned, if an assignment filled in only what is blank.
AssignedOnce(old, new) == IF old = Blank THEN new ELSE old
\* As Assigned, if the assignments were a map and kept their blank fields.
AssignedBlanks(old, new) == new
Assigned(old, new) == IF new = Blank THEN old ELSE new

\* As Selected, if rows were created without looking for them.
SelectedNone(table, k) == {NoRow}

\* What the SELECT of FirstOrCreate can return.
Selected(table, k) ==
    LET matching == {r \in DOMAIN table : table[r] # NoRow /\ Matches(k, r)}
    IN IF matching = {} THEN {NoRow} ELSE matching

Target(c) == IF found[c] = NoRow THEN key[c] ELSE found[c]

Goto(c, label) == pc' = [pc EXCEPT ![c] = label]

\* As Return, if a call went on from the chunk an earlier one had reached.
ReturnMidway(c, answer) == /\ Goto(c, answer)
                           /\ todo' = [todo EXCEPT ![c] = {}]
                           /\ key' = [key EXCEPT ![c] = NoRow]
                           /\ found' = [found EXCEPT ![c] = NoRow]
                           /\ UNCHANGED <<batch, inserted>>

\* The call ends and forgets its local variables.
Return(c, answer) == /\ Goto(c, answer)
                     /\ todo' = [todo EXCEPT ![c] = {}]
                     /\ key' = [key EXCEPT ![c] = NoRow]
                     /\ found' = [found EXCEPT ![c] = NoRow]
                     /\ inserted' = [inserted EXCEPT ![c] = 0]
                     /\ UNCHANGED batch

Fault == faults < MaxFaults /\ faults' = faults + 1
------------------------------------------------------------------------------
Begin(c, b) == /\ Goto(c, IF b = << >> THEN "ok" ELSE "sites")
               /\ batch' = [batch EXCEPT ![c] = b]
               /\ todo' = [todo EXCEPT ![c] = SiteKeys(b)]
               /\ UNCHANGED <<key, found, inserted, tables, faults>>

Call(c, b) == /\ pc[c] \in {"idle", "ok"}
              /\ calls < MaxCalls /\ calls' = calls + 1
              /\ Begin(c, b)

\* The caller has the same to write at its next try.
Retry(c) == /\ pc[c] = "failed"
            /\ Begin(c, batch[c])
            /\ UNCHANGED calls

\* The SELECT of FirstOrCreate, for the keys of a map in any order.
Select(c, loop, table, statement) ==
    /\ pc[c] = loop
    /\ \E k \in todo[c] :
          /\ key' = [key EXCEPT ![c] = k]
          /\ \E r \in Selected(table, k) : found' = [found EXCEPT ![c] = r]
    /\ Goto(c, statement)
    /\ UNCHANGED <<batch, todo, inserted, tables, calls, faults>>

SelectSite(c) == Select(c, "sites", sites, "site")
SelectDevice(c) == Select(c, "devices", devices, "device")

\* Back to the head of a loop, or past it.
NextKey(c, loop, next, keys) ==
    LET rest == todo[c] \ {key[c]}
    IN /\ Goto(c, IF rest # {} THEN loop ELSE next)
       /\ todo' = [todo EXCEPT ![c] = IF rest # {} THEN rest ELSE keys]
       /\ key' = [key EXCEPT ![c] = NoRow]
       /\ found' = [found EXCEPT ![c] = NoRow]
       /\ UNCHANGED <<batch, inserted, faults>>

\* A committed statement whose answer is lost fails the call.
AnswerLost(c) == Fault /\ Return(c, "failed")

SiteRow(c) ==
    LET name == LastOfSite(batch[c], key[c]).siteName
    IN IF found[c] = NoRow THEN name ELSE Assigned(sites[found[c]], name)

\* An INSERT violates the unique key if the row has come to exist meanwhile.
SiteAdmitted(c) == found[c] = NoRow => sites[key[c]] = NoRow

WriteSite(c) ==
    /\ pc[c] = "site" /\ SiteAdmitted(c)
    /\ sites' = [sites EXCEPT ![Target(c)] = SiteRow(c)]
    /\ \/ NextKey(c, "sites", "devices", DeviceKeys(batch[c]))
       \/ AnswerLost(c)
    /\ UNCHANGED <<devices, rows, calls>>

DeviceRow(c) ==
    LET m == LastOfDevice(batch[c], key[c])
        old == devices[found[c]]
    IN IF found[c] = NoRow
       THEN [site |-> m.site, name |-> m.name, type |-> m.type]
       ELSE [site |-> Assigned(old.site, m.site),
             name |-> Assigned(old.name, m.name),
             type |-> Assigned(old.type, m.type)]

DeviceAdmitted(c) == /\ found[c] = NoRow => devices[key[c]] = NoRow
                     /\ sites[DeviceRow(c).site] # NoRow

WriteDevice(c) ==
    /\ pc[c] = "device" /\ DeviceAdmitted(c)
    /\ devices' = [devices EXCEPT ![Target(c)] = DeviceRow(c)]
    /\ NextKey(c, "devices", "insert", {}) \/ AnswerLost(c)
    /\ UNCHANGED <<sites, rows, calls>>

\* CreateInBatches: the next chunk goes into the open transaction if every
\* measurement in it has a device.
ChunkEnd(c) == LET n == Len(batch[c]) next == inserted[c] + BatchSize
               IN IF next < n THEN next ELSE n

ChunkAdmitted(c) == \A i \in (inserted[c] + 1)..ChunkEnd(c) :
                       devices[batch[c][i].sn] # NoRow

InsertChunk(c) ==
    /\ pc[c] = "insert" /\ ChunkAdmitted(c)
    /\ inserted' = [inserted EXCEPT ![c] = ChunkEnd(c)]
    /\ Goto(c, IF ChunkEnd(c) = Len(batch[c]) THEN "commit" ELSE "insert")
    /\ UNCHANGED <<batch, todo, key, found, tables, calls, faults>>

Count(b, d) == Cardinality({i \in DOMAIN b : b[i].sn = d})

Commit(c) ==
    /\ pc[c] = "commit"
    /\ rows' = [d \in DeviceSNs |-> rows[d] + Count(batch[c], d)]
    /\ (Return(c, "ok") /\ UNCHANGED faults) \/ AnswerLost(c)
    /\ UNCHANGED <<sites, devices, calls>>

\* The database rejects a statement: the call fails, and what its open
\* transaction holds is rolled back.
Rejected(c) == /\ \/ pc[c] = "site" /\ ~SiteAdmitted(c)
                  \/ pc[c] = "device" /\ ~DeviceAdmitted(c)
                  \/ pc[c] = "insert" /\ ~ChunkAdmitted(c)
               /\ Return(c, "failed")
               /\ UNCHANGED <<tables, calls, faults>>

\* As StatementFails, if every chunk were a transaction of its own.
StatementFailsMidway(c) ==
    /\ pc[c] \in Running
    /\ Fault /\ Return(c, "failed")
    /\ rows' = [d \in DeviceSNs |->
                   rows[d] + Count(SubSeq(batch[c], 1, inserted[c]), d)]
    /\ UNCHANGED <<sites, devices, calls>>

\* A statement does not get through, or the context has been cancelled.
StatementFails(c) == /\ pc[c] \in Running
                     /\ Fault /\ Return(c, "failed")
                     /\ UNCHANGED <<tables, calls>>

WriteMeasurements(c) == \/ SelectSite(c) \/ WriteSite(c)
                        \/ SelectDevice(c) \/ WriteDevice(c)
                        \/ InsertChunk(c) \/ Commit(c) \/ Rejected(c)

Next == \E c \in Callers :
           \/ \E b \in Batches : Call(c, b)
           \/ Retry(c)
           \/ WriteMeasurements(c)
           \/ StatementFails(c)

Spec == Init /\ [][Next]_vars

\* Statements are answered, and what failed is tried again.
FairSpec == Spec /\ \A c \in Callers : WF_vars(WriteMeasurements(c) \/ Retry(c))
------------------------------------------------------------------------------
(* Properties *)

\* Type invariant of the callers and the tables (writer.go:62, models.go).
TypeOk ==
    /\ pc \in [Callers -> Running \cup {"idle", "ok", "failed"}]
    /\ batch \in [Callers -> Batches \cup {<< >>}]
    /\ todo \in [Callers -> SUBSET (SiteIDs \cup DeviceSNs)]
    /\ key \in [Callers -> SiteIDs \cup DeviceSNs \cup {NoRow}]
    /\ found \in [Callers -> SiteIDs \cup DeviceSNs \cup {NoRow}]
    /\ inserted \in [Callers -> Nat]
    /\ \A c \in Callers : inserted[c] <= Len(batch[c])
    /\ sites \in [SiteIDs -> Names \cup {NoRow}]
    /\ devices \in [DeviceSNs ->
          [site : SiteIDs, name : Names, type : DeviceTypes] \cup {NoRow}]
    /\ rows \in [DeviceSNs -> Nat]
    /\ calls \in 0..MaxCalls /\ faults \in 0..MaxFaults

WellFormed(b) == \A i \in DOMAIN b : b[i].site # Blank /\ b[i].sn # Blank

\* A batch without blank keys finds its foreign keys: the sites of all its
\* measurements exist when its devices are written, and their devices when
\* they are inserted, whatever other callers do (writer.go:68-88).
ParentsExist ==
    \A c \in Callers : \A i \in DOMAIN batch[c] : WellFormed(batch[c]) =>
       /\ pc[c] \in InDevices => sites[batch[c][i].site] # NoRow
       /\ pc[c] \in {"insert", "commit"} => devices[batch[c][i].sn] # NoRow

\* A call that no other call comes between leaves the row of each device with
\* the labels of its last measurement in the batch, as far as they are not
\* blank, whatever the row held before and in whatever order the keys of the
\* batch are taken: a device that was moved is listed at its new site.  Of a
\* batch with a blank serial number this cannot be said (writer.go:108-153).
Alone(c) == \A o \in Callers \ {c} : pc[o] = "idle"
Shows(row, m) == /\ row # NoRow
                 /\ row.site = m.site
                 /\ m.name # Blank => row.name = m.name
                 /\ m.type # Blank => row.type = m.type
LabelsAsReported ==
    \A c \in Callers :
       pc[c] \in {"insert", "commit", "ok"} /\ WellFormed(batch[c]) /\ Alone(c)
          => \A d \in DeviceKeys(batch[c]) :
                Shows(devices[d], LastOfDevice(batch[c], d))

\* An answer that leaves names or types out takes none away that is known, and
\* no call removes a row, named or not: the cloud sends the site's name in one
\* place and may leave it out in the other (writer.go:131, 148,
\* measurements.go:31).
KnownNamesKept ==
    [][/\ \A s \in SiteIDs : sites[s] # NoRow =>
             /\ sites'[s] # NoRow
             /\ sites[s] # Blank => sites'[s] # Blank
       /\ \A d \in DeviceSNs : devices[d] # NoRow =>
             /\ devices'[d] # NoRow
             /\ devices[d].name # Blank => devices'[d].name # Blank
             /\ devices[d].type # Blank => devices'[d].type # Blank]_vars

\* The rows of a call are stored as one, in whatever chunks they are sent and
\* wherever it fails (writer.go:88): WriteMeasurements is an atomic write.
Status == [c \in Callers |-> IF pc[c] \in Running THEN "called" ELSE pc[c]]

AW == INSTANCE AtomicWrites WITH status <- Status

ImplementsAtomicWrites == AW!Spec

\* A failed call that is repeated succeeds in the end, whatever it or others
\* have left behind in the tables (writer.go:69, 129).
RetrySucceeds ==
    \A c \in Callers :
       pc[c] = "failed" /\ WellFormed(batch[c]) ~> pc[c] = "ok"
==============================================================================
