----------------------------- MODULE WriterProofs -----------------------------
(***************************************************************************)
(* Theorems about Writer, for any callers, batches, chunk size and faults. *)
(***************************************************************************)
EXTENDS Writer, FiniteSetTheorems, SequenceTheorems,
        WellFoundedInduction, TLAPS

(* Batches *)

\* Of some positions of a batch one is the last: the measurement a map of
\* writer.go:114-126 keeps for a key exists.
LEMMA LastPosition ==
    ASSUME NEW n \in Nat, NEW I \in SUBSET (1..n), I # {}
    PROVE  \E i \in I : \A j \in I : j <= i
<1> DEFINE Left == {n - i : i \in I}
<1>1. Left \subseteq Nat /\ Left # {}
  <2>1. ASSUME NEW i \in I PROVE n - i \in Nat
    <3>1. i \in Int /\ i <= n
      OBVIOUS
    <3> QED BY <3>1
  <2>2. PICK i \in I : TRUE
    OBVIOUS
  <2>3. n - i \in Left
    OBVIOUS
  <2> QED BY <2>1, <2>3
<1>2. PICK x \in Left : \A y \in Left : ~(<<y, x>> \in OpToRel(<, Nat))
  BY <1>1, NatLessThanWellFounded, WFMin
<1>3. \A y \in Left : x <= y
  <2>1. ASSUME NEW y \in Left PROVE x <= y
    <3>1. x \in Nat /\ y \in Nat
      BY <1>1
    <3>2. <<y, x>> \in Nat \X Nat /\ <<y, x>>[1] = y /\ <<y, x>>[2] = x
      BY <3>1
    <3>3. ~(y < x)
      BY <1>2, <3>2 DEF OpToRel
    <3> QED BY <3>1, <3>3
  <2> QED BY <2>1
<1>4. PICK i \in I : x = n - i
  OBVIOUS
<1>5. ASSUME NEW j \in I PROVE j <= i
  <2>1. n - i <= n - j
    BY <1>3, <1>4
  <2>2. i \in 1..n /\ j \in 1..n
    OBVIOUS
  <2>3. i \in Int /\ j \in Int
    BY <2>2
  <2> QED BY <2>1, <2>3
<1> QED BY <1>5

\* What a caller holds is a sequence of measurements.
LEMMA BatchIsSequence ==
    ASSUME NEW b \in Batches \cup {<< >>}
    PROVE  /\ b \in Seq(Measurement) /\ Len(b) \in Nat /\ DOMAIN b = 1..Len(b)
           /\ \A i \in DOMAIN b : b[i] \in Measurement
           /\ SiteKeys(b) \subseteq SiteIDs /\ DeviceKeys(b) \subseteq DeviceSNs
           /\ b # << >> => SiteKeys(b) # {} /\ DeviceKeys(b) # {}
           /\ b = << >> => Len(b) = 0
<1>1. b \in Seq(Measurement)
  <2>1. CASE b = << >>
    <3>1. << >> \in Seq(Measurement)
      BY EmptySeq
    <3> QED BY <2>1, <3>1
  <2> QED BY <2>1, BatchesAssumption
<1>2. Len(b) \in Nat /\ DOMAIN b = 1..Len(b) /\ \A i \in DOMAIN b : b[i] \in Measurement
  BY <1>1
<1>3. b # << >> => 1 \in DOMAIN b
  BY <1>1
<1> QED BY <1>1, <1>2, <1>3 DEF SiteKeys, DeviceKeys, Measurement

\* The last measurement of a site or a device is one of the batch, and of it.
LEMMA LastIsOfTheKey ==
    ASSUME NEW b \in Batches \cup {<< >>}
    PROVE  /\ \A s \in SiteKeys(b) : \E i \in DOMAIN b :
                 LastOfSite(b, s) = b[i] /\ b[i].site = s
           /\ \A d \in DeviceKeys(b) : \E i \in DOMAIN b :
                 LastOfDevice(b, d) = b[i] /\ b[i].sn = d
<1>1. ASSUME NEW I \in SUBSET DOMAIN b, I # {}
      PROVE  \E i \in I : Last(b, I) = b[i]
  <2>1. \E i \in I : \A j \in I : j <= i
    BY <1>1, BatchIsSequence, LastPosition
  <2> QED BY <2>1 DEF Last
<1>2. ASSUME NEW s \in SiteKeys(b)
      PROVE  \E i \in DOMAIN b : LastOfSite(b, s) = b[i] /\ b[i].site = s
  <2> DEFINE I == {i \in DOMAIN b : b[i].site = s}
  <2>1. I \in SUBSET DOMAIN b /\ I # {}
    BY DEF SiteKeys
  <2>2. \E i \in I : Last(b, I) = b[i]
    BY <1>1, <2>1
  <2> QED BY <2>2 DEF LastOfSite
<1>3. ASSUME NEW d \in DeviceKeys(b)
      PROVE  \E i \in DOMAIN b : LastOfDevice(b, d) = b[i] /\ b[i].sn = d
  <2> DEFINE I == {i \in DOMAIN b : b[i].sn = d}
  <2>1. I \in SUBSET DOMAIN b /\ I # {}
    BY DEF DeviceKeys
  <2>2. \E i \in I : Last(b, I) = b[i]
    BY <1>1, <2>1
  <2> QED BY <2>2 DEF LastOfDevice
<1> QED BY <1>2, <1>3

\* The measurements a device has in a batch are counted by a number.
LEMMA CountIsNat ==
    ASSUME NEW b \in Batches \cup {<< >>}, NEW d
    PROVE  Count(b, d) \in Nat
<1>1. IsFiniteSet(DOMAIN b)
  BY BatchIsSequence, FS_Interval
<1>2. IsFiniteSet({i \in DOMAIN b : b[i].sn = d})
  BY <1>1, FS_Subset
<1> QED BY <1>2, FS_CardinalityType DEF Count
------------------------------------------------------------------------------
(* The invariant the theorems rest on *)

\* A running call has something to write, and so has one that can be
\* repeated; a transaction is open only while chunks are inserted.
Busy(c) == /\ pc[c] \in Running \cup {"failed"} => batch[c] # << >>
           /\ pc[c] \notin {"insert", "commit"} => inserted[c] = 0

\* The key at hand is one that is to come, and the row found for it is in the
\* table and matches.
Looking(c, table, keys) ==
    /\ key[c] \in todo[c]
    /\ found[c] # NoRow => /\ found[c] \in keys
                           /\ table[found[c]] # NoRow
                           /\ Matches(key[c], found[c])

\* The keys to come are keys of the batch.
Loops(c) == /\ pc[c] \in InSites => todo[c] \subseteq SiteKeys(batch[c])
            /\ pc[c] = "site" => Looking(c, sites, SiteIDs)
            /\ pc[c] \in InDevices => todo[c] \subseteq DeviceKeys(batch[c])
            /\ pc[c] = "device" => Looking(c, devices, DeviceSNs)

\* The keys a loop is done with have rows.
DoneWith(table, keys) == \A k \in keys : table[k] # NoRow
Parents(c) == WellFormed(batch[c]) =>
              /\ pc[c] \in InSites =>
                    DoneWith(sites, SiteKeys(batch[c]) \ todo[c])
              /\ pc[c] \in InDevices =>
                    /\ DoneWith(sites, SiteKeys(batch[c]))
                    /\ DoneWith(devices, DeviceKeys(batch[c]) \ todo[c])
              /\ pc[c] \in {"insert", "commit"} =>
                    DoneWith(devices, DeviceKeys(batch[c]))

Consistent == TypeOk /\ \A c \in Callers : Busy(c) /\ Loops(c)

CallsTyped == /\ pc \in [Callers -> Running \cup {"idle", "ok", "failed"}]
              /\ batch \in [Callers -> Batches \cup {<< >>}]
              /\ todo \in [Callers -> SUBSET (SiteIDs \cup DeviceSNs)]
              /\ key \in [Callers -> SiteIDs \cup DeviceSNs \cup {NoRow}]
              /\ found \in [Callers -> SiteIDs \cup DeviceSNs \cup {NoRow}]
              /\ inserted \in [Callers -> Nat]
              /\ \A c \in Callers : inserted[c] <= Len(batch[c])
DeviceRows == [site : SiteIDs, name : Names, type : DeviceTypes]
TablesTyped == /\ sites \in [SiteIDs -> Names \cup {NoRow}]
               /\ devices \in [DeviceSNs -> DeviceRows \cup {NoRow}]
               /\ rows \in [DeviceSNs -> Nat]

\* The other callers' calls are as they were.
Others(c) == \A o \in Callers \ {c} :
                /\ pc'[o] = pc[o] /\ batch'[o] = batch[o] /\ todo'[o] = todo[o]
                /\ key'[o] = key[o] /\ found'[o] = found[o]
                /\ inserted'[o] = inserted[o]
------------------------------------------------------------------------------
(* Tables *)

\* What FirstOrCreate writes into the sites table: a site that is new, or a
\* name that does not replace a known one by a blank.
LEMMA WrittenSite ==
    ASSUME Consistent, NEW c \in Callers, pc[c] = "site", SiteAdmitted(c)
    PROVE  /\ Target(c) \in SiteIDs /\ SiteRow(c) \in Names
           /\ Target(c) = key[c] \/ key[c] = Blank
           /\ sites[Target(c)] \notin {NoRow, Blank} => SiteRow(c) # Blank
<1>1. batch[c] \in Batches \cup {<< >>} /\ key[c] \in SiteKeys(batch[c])
  BY DEF Consistent, TypeOk, Loops, Looking, InSites
<1>2. key[c] \in SiteIDs /\ LastOfSite(batch[c], key[c]) \in Measurement
  BY <1>1, BatchIsSequence, LastIsOfTheKey
<1>3. LastOfSite(batch[c], key[c]).siteName \in Names
  BY <1>2 DEF Measurement
<1>4. CASE found[c] = NoRow
  BY <1>2, <1>3, <1>4 DEF SiteAdmitted, Target, SiteRow
<1>5. CASE found[c] # NoRow
  <2>1. found[c] \in SiteIDs /\ sites[found[c]] # NoRow
        /\ Matches(key[c], found[c])
    BY <1>5 DEF Consistent, Loops, Looking
  <2>2. sites[found[c]] \in Names
    BY <2>1 DEF Consistent, TypeOk
  <2> QED BY <1>3, <1>5, <2>1, <2>2 DEF Target, SiteRow, Assigned, Matches
<1> QED BY <1>4, <1>5

\* The same for the devices table; a key that is not blank finds its own row,
\* and the row then shows what the measurement reports.
LEMMA WrittenDevice ==
    ASSUME Consistent, NEW c \in Callers, pc[c] = "device", DeviceAdmitted(c)
    PROVE  /\ Target(c) \in DeviceSNs /\ DeviceRow(c) \in DeviceRows
           /\ Target(c) = key[c] \/ key[c] = Blank
           /\ devices[Target(c)] # NoRow =>
                 /\ devices[Target(c)].name # Blank => DeviceRow(c).name # Blank
                 /\ devices[Target(c)].type # Blank => DeviceRow(c).type # Blank
           /\ LastOfDevice(batch[c], key[c]).site # Blank =>
                 Shows(DeviceRow(c), LastOfDevice(batch[c], key[c]))
<1>1. batch[c] \in Batches \cup {<< >>} /\ key[c] \in DeviceKeys(batch[c])
  BY DEF Consistent, TypeOk, Loops, Looking, InDevices
<1> DEFINE m == LastOfDevice(batch[c], key[c])
<1>2. PICK i \in DOMAIN batch[c] : m = batch[c][i] /\ batch[c][i].sn = key[c]
  BY <1>1, LastIsOfTheKey
<1>3. key[c] \in DeviceSNs /\ m \in Measurement
  BY <1>1, <1>2, BatchIsSequence
<1>4. m.site \in SiteIDs /\ m.name \in Names /\ m.type \in DeviceTypes
  BY <1>3 DEF Measurement
<1>5. CASE found[c] = NoRow
  <2>1. Target(c) = key[c] /\ devices[key[c]] = NoRow
    BY <1>5 DEF Target, DeviceAdmitted
  <2>2. DeviceRow(c) = [site |-> m.site, name |-> m.name, type |-> m.type]
    BY <1>5 DEF DeviceRow
  <2>3. DeviceRow(c) \in DeviceRows
    BY <1>4, <2>2 DEF DeviceRows
  <2>4. Shows(DeviceRow(c), m)
    BY <2>2, <2>3, NoRowAssumption DEF Shows, DeviceRows
  <2> QED BY <1>3, <2>1, <2>3, <2>4
<1>6. CASE found[c] # NoRow
  <2> DEFINE old == devices[found[c]]
  <2>1. found[c] \in DeviceSNs /\ old # NoRow /\ Matches(key[c], found[c])
    BY <1>6 DEF Consistent, Loops, Looking
  <2>2. old \in DeviceRows
    BY <2>1 DEF Consistent, TypeOk, DeviceRows
  <2>3. old.site \in SiteIDs /\ old.name \in Names /\ old.type \in DeviceTypes
    BY <2>2 DEF DeviceRows
  <2>4. DeviceRow(c) = [site |-> Assigned(old.site, m.site),
                        name |-> Assigned(old.name, m.name),
                        type |-> Assigned(old.type, m.type)]
    BY <1>6 DEF DeviceRow
  <2>5. Target(c) = found[c]
    BY <1>6 DEF Target
  <2> HIDE DEF m, old
  <2>6. DeviceRow(c) \in DeviceRows
    BY <1>4, <2>3, <2>4 DEF DeviceRows, Assigned
  <2>7. /\ old.name # Blank => DeviceRow(c).name # Blank
        /\ old.type # Blank => DeviceRow(c).type # Blank
    BY <2>4 DEF Assigned
  <2>8. m.site # Blank => Shows(DeviceRow(c), m)
    BY <2>4, <2>6, NoRowAssumption DEF Assigned, Shows, DeviceRows
  <2> QED BY <2>1, <2>5, <2>6, <2>7, <2>8 DEF Matches, old, m
<1> QED BY <1>5, <1>6

\* Rows are written by the statements that write them; none is removed.
LEMMA TablesStep ==
    ASSUME Consistent, [Next]_vars
    PROVE  /\ TablesTyped'
           /\ \A k \in SiteIDs : sites[k] # NoRow => sites'[k] # NoRow
           /\ \A k \in DeviceSNs : devices[k] # NoRow => devices'[k] # NoRow
           /\ \/ UNCHANGED tables
              \/ \E c \in Callers : WriteSite(c) \/ WriteDevice(c) \/ Commit(c)
<1>1. sites \in [SiteIDs -> Names \cup {NoRow}]
      /\ devices \in [DeviceSNs -> DeviceRows \cup {NoRow}]
      /\ rows \in [DeviceSNs -> Nat]
  BY DEF Consistent, TypeOk, DeviceRows
<1>2. NoRow \notin Names /\ NoRow \notin DeviceRows
  BY NoRowAssumption DEF DeviceRows
<1>3. CASE UNCHANGED tables
  BY <1>1, <1>3 DEF tables, TablesTyped
<1>4. ASSUME NEW c \in Callers, WriteSite(c)
      PROVE  TablesTyped' /\ \A k \in SiteIDs : sites[k] # NoRow => sites'[k] # NoRow
  <2>1. Target(c) \in SiteIDs /\ SiteRow(c) \in Names
    BY <1>4, WrittenSite DEF WriteSite
  <2>2. sites' = [sites EXCEPT ![Target(c)] = SiteRow(c)]
        /\ UNCHANGED <<devices, rows>>
    BY <1>4 DEF WriteSite
  <2> QED BY <1>1, <1>2, <2>1, <2>2 DEF TablesTyped
<1>5. ASSUME NEW c \in Callers, WriteDevice(c)
      PROVE  TablesTyped'
             /\ \A k \in DeviceSNs : devices[k] # NoRow => devices'[k] # NoRow
  <2>1. Target(c) \in DeviceSNs /\ DeviceRow(c) \in DeviceRows
    BY <1>5, WrittenDevice DEF WriteDevice
  <2>2. devices' = [devices EXCEPT ![Target(c)] = DeviceRow(c)]
        /\ UNCHANGED <<sites, rows>>
    BY <1>5 DEF WriteDevice
  <2> QED BY <1>1, <1>2, <2>1, <2>2 DEF TablesTyped
<1>6. ASSUME NEW c \in Callers, Commit(c) PROVE TablesTyped'
  <2>1. batch[c] \in Batches \cup {<< >>}
    BY DEF Consistent, TypeOk
  <2>2. \A d \in DeviceSNs : rows[d] + Count(batch[c], d) \in Nat
    <3>1. \A d \in DeviceSNs : rows[d] \in Nat /\ Count(batch[c], d) \in Nat
      BY <1>1, <2>1, CountIsNat
    <3> QED BY <3>1
  <2>3. rows' = [d \in DeviceSNs |-> rows[d] + Count(batch[c], d)]
        /\ UNCHANGED <<sites, devices>>
    BY <1>6 DEF Commit
  <2> QED BY <1>1, <2>2, <2>3 DEF TablesTyped
<1>7. \/ UNCHANGED tables
      \/ \E c \in Callers : WriteSite(c) \/ WriteDevice(c) \/ Commit(c)
  BY DEF Next, vars, Call, Retry, Begin, WriteMeasurements, SelectSite,
     SelectDevice, Select, InsertChunk, Rejected, StatementFails
<1>8. \A c \in Callers : /\ WriteSite(c) => devices' = devices
                         /\ WriteDevice(c) => sites' = sites
                         /\ Commit(c) => sites' = sites /\ devices' = devices
  BY DEF WriteSite, WriteDevice, Commit
<1> QED BY <1>3, <1>4, <1>5, <1>6, <1>7, <1>8 DEF tables
------------------------------------------------------------------------------
(* Calls *)

\* A chunk ends within the batch.
LEMMA ChunkIsWithin ==
    ASSUME TypeOk, NEW c \in Callers
    PROVE  ChunkEnd(c) \in Nat /\ ChunkEnd(c) <= Len(batch[c])
<1>1. inserted[c] \in Nat /\ BatchSize \in Nat /\ Len(batch[c]) \in Nat
  BY BatchIsSequence, BoundsAssumption DEF TypeOk
<1> QED BY <1>1 DEF ChunkEnd

\* Every step of a call leaves the others alone and keeps the caller's own
\* variables in order.
LEMMA BeginStep ==
    ASSUME Consistent, NEW c \in Callers, NEW b \in Batches \cup {<< >>},
           pc[c] \in {"idle", "ok", "failed"}, Begin(c, b)
    PROVE  CallsTyped' /\ Others(c) /\ Busy(c)' /\ Loops(c)' /\ Parents(c)'
<1>1. inserted[c] = 0
  BY DEF Consistent, Busy
<1>2. SiteKeys(b) \subseteq SiteIDs /\ Len(b) \in Nat
  BY BatchIsSequence
<1>3. CallsTyped' /\ Others(c)
  BY <1>1, <1>2 DEF Consistent, TypeOk, CallsTyped, Begin, Goto, Others, Running,
     InSites, InDevices
<1>4. /\ pc'[c] = IF b = << >> THEN "ok" ELSE "sites"
      /\ batch'[c] = b /\ todo'[c] = SiteKeys(b) /\ inserted'[c] = 0
  BY <1>1 DEF Consistent, TypeOk, Begin, Goto
<1> QED BY <1>3, <1>4 DEF Busy, Loops, Parents, DoneWith, Running, InSites,
           InDevices

LEMMA ReturnStep ==
    ASSUME Consistent, NEW c \in Callers, pc[c] \in Running,
           NEW answer \in {"ok", "failed"}, Return(c, answer)
    PROVE  CallsTyped' /\ Others(c) /\ Busy(c)' /\ Loops(c)' /\ Parents(c)'
<1>1. Len(batch[c]) \in Nat
  BY BatchIsSequence DEF Consistent, TypeOk
<1>2. CallsTyped' /\ Others(c)
  BY <1>1 DEF Consistent, TypeOk, CallsTyped, Return, Goto, Others
<1>3. pc'[c] = answer /\ batch'[c] = batch[c] /\ inserted'[c] = 0
  BY DEF Consistent, TypeOk, Return, Goto
<1>4. batch[c] # << >>
  BY DEF Consistent, Busy
<1> QED BY <1>2, <1>3, <1>4 DEF Busy, Loops, Parents, Running, InSites, InDevices

LEMMA SelectStep ==
    ASSUME Consistent, NEW c \in Callers, SelectSite(c) \/ SelectDevice(c)
    PROVE  CallsTyped' /\ Others(c) /\ Busy(c)' /\ Loops(c)'
           /\ (Parents(c) => Parents(c)') /\ UNCHANGED tables
<1>1. ASSUME NEW table, NEW k, NEW r \in Selected(table, k)
      PROVE  r # NoRow => r \in DOMAIN table /\ table[r] # NoRow /\ Matches(k, r)
  BY DEF Selected
<1>2. CASE SelectSite(c)
  <2>1. pc[c] = "sites" /\ UNCHANGED <<batch, todo, inserted, tables>>
        /\ pc' = [pc EXCEPT ![c] = "site"]
    BY <1>2 DEF SelectSite, Select, Goto
  <2> PICK k \in todo[c] :
         /\ key' = [key EXCEPT ![c] = k]
         /\ \E r \in Selected(sites, k) : found' = [found EXCEPT ![c] = r]
    BY <1>2 DEF SelectSite, Select
  <2> PICK r \in Selected(sites, k) : found' = [found EXCEPT ![c] = r]
    OBVIOUS
  <2>2. key' = [key EXCEPT ![c] = k] /\ found' = [found EXCEPT ![c] = r]
    OBVIOUS
  <2>3. k \in SiteIDs \cup DeviceSNs
    BY DEF Consistent, TypeOk
  <2>4. r # NoRow => r \in SiteIDs /\ sites[r] # NoRow /\ Matches(k, r)
    BY <1>1 DEF Consistent, TypeOk
  <2>5. CallsTyped' /\ Others(c)
    BY <2>1, <2>2, <2>3, <2>4 DEF Consistent, TypeOk, CallsTyped, Others, Running,
       InSites
  <2>6. pc'[c] = "site" /\ key'[c] = k /\ found'[c] = r
    BY <2>1, <2>2 DEF Consistent, TypeOk
  <2>7. batch[c] # << >> /\ inserted[c] = 0 /\ todo[c] \subseteq SiteKeys(batch[c])
    BY <2>1 DEF Consistent, Busy, Loops, Running, InSites
  <2>8. Loops(c)'
    BY <2>1, <2>4, <2>6, <2>7 DEF Loops, Looking, InSites, InDevices, tables
  <2> QED BY <2>1, <2>5, <2>6, <2>7, <2>8 DEF Busy, Parents, InSites, InDevices,
             tables
<1>3. CASE SelectDevice(c)
  <2>1. pc[c] = "devices" /\ UNCHANGED <<batch, todo, inserted, tables>>
        /\ pc' = [pc EXCEPT ![c] = "device"]
    BY <1>3 DEF SelectDevice, Select, Goto
  <2> PICK k \in todo[c] :
         /\ key' = [key EXCEPT ![c] = k]
         /\ \E r \in Selected(devices, k) : found' = [found EXCEPT ![c] = r]
    BY <1>3 DEF SelectDevice, Select
  <2> PICK r \in Selected(devices, k) : found' = [found EXCEPT ![c] = r]
    OBVIOUS
  <2>2. key' = [key EXCEPT ![c] = k] /\ found' = [found EXCEPT ![c] = r]
    OBVIOUS
  <2>3. k \in SiteIDs \cup DeviceSNs
    BY DEF Consistent, TypeOk
  <2>4. r # NoRow => r \in DeviceSNs /\ devices[r] # NoRow /\ Matches(k, r)
    BY <1>1 DEF Consistent, TypeOk
  <2>5. CallsTyped' /\ Others(c)
    BY <2>1, <2>2, <2>3, <2>4 DEF Consistent, TypeOk, CallsTyped, Others, Running,
       InDevices
  <2>6. pc'[c] = "device" /\ key'[c] = k /\ found'[c] = r
    BY <2>1, <2>2 DEF Consistent, TypeOk
  <2>7. batch[c] # << >> /\ inserted[c] = 0
        /\ todo[c] \subseteq DeviceKeys(batch[c])
    BY <2>1 DEF Consistent, Busy, Loops, Running, InDevices
  <2>8. Loops(c)'
    BY <2>1, <2>4, <2>6, <2>7 DEF Loops, Looking, InSites, InDevices, tables
  <2> QED BY <2>1, <2>5, <2>6, <2>7, <2>8 DEF Busy, Parents, InSites, InDevices,
             tables
<1> QED BY <1>2, <1>3

\* A statement of the loops that gets its answer is one key less to come, and
\* the key has its row now.
LEMMA WriteSiteStep ==
    ASSUME Consistent, [Next]_vars, NEW c \in Callers, WriteSite(c),
           NextKey(c, "sites", "devices", DeviceKeys(batch[c]))
    PROVE  CallsTyped' /\ Others(c) /\ Busy(c)' /\ Loops(c)'
           /\ (Parents(c) => Parents(c)')
<1> DEFINE rest == todo[c] \ {key[c]}
           more == rest # {}
<1>1. /\ pc[c] = "site" /\ UNCHANGED <<batch, inserted, devices>>
      /\ pc' = [pc EXCEPT ![c] = IF more THEN "sites" ELSE "devices"]
      /\ todo' = [todo EXCEPT ![c] = IF more THEN rest ELSE DeviceKeys(batch[c])]
      /\ key' = [key EXCEPT ![c] = NoRow] /\ found' = [found EXCEPT ![c] = NoRow]
  BY DEF WriteSite, NextKey, Goto
<1>2. /\ todo[c] \subseteq SiteKeys(batch[c]) /\ batch[c] # << >>
      /\ inserted[c] = 0 /\ batch[c] \in Batches \cup {<< >>}
  BY <1>1 DEF Consistent, TypeOk, Loops, Busy, Running, InSites
<1>3. DeviceKeys(batch[c]) \subseteq DeviceSNs
  BY <1>2, BatchIsSequence
<1>4. CallsTyped' /\ Others(c)
  BY <1>1, <1>3 DEF Consistent, TypeOk, CallsTyped, Others, Running, InSites,
     InDevices
<1>5. /\ pc'[c] = IF more THEN "sites" ELSE "devices"
      /\ todo'[c] = IF more THEN rest ELSE DeviceKeys(batch[c])
      /\ batch'[c] = batch[c] /\ inserted'[c] = 0
  BY <1>1, <1>2 DEF Consistent, TypeOk
<1>6. Busy(c)' /\ Loops(c)'
  BY <1>2, <1>5 DEF Busy, Loops, InSites, InDevices
<1>7. ASSUME Parents(c), WellFormed(batch[c]) PROVE Parents(c)'
  <2>1. key[c] \in SiteKeys(batch[c])
    BY <1>1, <1>2 DEF Consistent, Loops, Looking
  <2>2. key[c] # Blank
    BY <1>7, <2>1 DEF SiteKeys, WellFormed
  <2>3. Target(c) = key[c] /\ key[c] \in SiteIDs /\ SiteRow(c) # NoRow
    BY <2>2, WrittenSite, NoRowAssumption DEF WriteSite
  <2>4. sites'[key[c]] # NoRow
    BY <2>3 DEF WriteSite, Consistent, TypeOk
  <2>5. \A k \in SiteKeys(batch[c]) \ rest : sites'[k] # NoRow
    <3>1. \A k \in SiteKeys(batch[c]) \ todo[c] : sites[k] # NoRow
      BY <1>1, <1>7 DEF Parents, DoneWith, InSites
    <3> QED BY <1>2, <2>4, <3>1, TablesStep, BatchIsSequence
  <2> QED BY <1>5, <2>5 DEF Parents, DoneWith, InSites, InDevices
<1> QED BY <1>4, <1>5, <1>6, <1>7 DEF Parents

LEMMA WriteDeviceStep ==
    ASSUME Consistent, [Next]_vars, NEW c \in Callers, WriteDevice(c),
           NextKey(c, "devices", "insert", {})
    PROVE  CallsTyped' /\ Others(c) /\ Busy(c)' /\ Loops(c)'
           /\ (Parents(c) => Parents(c)')
<1> DEFINE rest == todo[c] \ {key[c]}
           more == rest # {}
<1>1. /\ pc[c] = "device" /\ UNCHANGED <<batch, inserted, sites>>
      /\ pc' = [pc EXCEPT ![c] = IF more THEN "devices" ELSE "insert"]
      /\ todo' = [todo EXCEPT ![c] = IF more THEN rest ELSE {}]
      /\ key' = [key EXCEPT ![c] = NoRow] /\ found' = [found EXCEPT ![c] = NoRow]
  BY DEF WriteDevice, NextKey, Goto
<1>2. /\ todo[c] \subseteq DeviceKeys(batch[c]) /\ batch[c] # << >>
      /\ inserted[c] = 0 /\ batch[c] \in Batches \cup {<< >>}
  BY <1>1 DEF Consistent, TypeOk, Loops, Busy, Running, InDevices
<1>4. CallsTyped' /\ Others(c)
  BY <1>1 DEF Consistent, TypeOk, CallsTyped, Others, Running, InDevices
<1>5. /\ pc'[c] = IF more THEN "devices" ELSE "insert"
      /\ todo'[c] = IF more THEN rest ELSE {}
      /\ batch'[c] = batch[c] /\ inserted'[c] = 0
  BY <1>1, <1>2 DEF Consistent, TypeOk
<1>6. Busy(c)' /\ Loops(c)'
  BY <1>2, <1>5 DEF Busy, Loops, InSites, InDevices
<1>7. ASSUME Parents(c), WellFormed(batch[c]) PROVE Parents(c)'
  <2>1. key[c] \in DeviceKeys(batch[c])
    BY <1>1, <1>2 DEF Consistent, Loops, Looking
  <2>2. key[c] # Blank
    BY <1>7, <2>1 DEF DeviceKeys, WellFormed
  <2>3. Target(c) = key[c] /\ key[c] \in DeviceSNs /\ DeviceRow(c) # NoRow
    BY <2>2, WrittenDevice, NoRowAssumption DEF WriteDevice, DeviceRows
  <2>4. devices'[key[c]] # NoRow
    BY <2>3 DEF WriteDevice, Consistent, TypeOk
  <2>5. \A k \in DeviceKeys(batch[c]) \ rest : devices'[k] # NoRow
    <3>1. \A k \in DeviceKeys(batch[c]) \ todo[c] : devices[k] # NoRow
      BY <1>1, <1>7 DEF Parents, DoneWith, InDevices
    <3> QED BY <1>2, <2>4, <3>1, TablesStep, BatchIsSequence
  <2>6. \A k \in SiteKeys(batch[c]) : sites'[k] # NoRow
    BY <1>1, <1>7 DEF Parents, DoneWith, InDevices
  <2> QED BY <1>5, <2>5, <2>6 DEF Parents, DoneWith, InSites, InDevices
<1> QED BY <1>4, <1>5, <1>6, <1>7 DEF Parents

LEMMA InsertStep ==
    ASSUME Consistent, NEW c \in Callers, InsertChunk(c)
    PROVE  CallsTyped' /\ Others(c) /\ Busy(c)' /\ Loops(c)'
           /\ (Parents(c) => Parents(c)') /\ UNCHANGED tables
<1> DEFINE next == IF ChunkEnd(c) = Len(batch[c]) THEN "commit" ELSE "insert"
<1>1. /\ pc[c] = "insert" /\ UNCHANGED <<batch, todo, key, found, tables>>
      /\ inserted' = [inserted EXCEPT ![c] = ChunkEnd(c)]
      /\ pc' = [pc EXCEPT ![c] = next]
  BY DEF InsertChunk, Goto
<1>2. ChunkEnd(c) \in Nat /\ ChunkEnd(c) <= Len(batch[c])
  BY ChunkIsWithin DEF Consistent
<1>3. next \in {"insert", "commit"}
  OBVIOUS
<1> HIDE DEF next
<1>4. CallsTyped' /\ Others(c)
  BY <1>1, <1>2, <1>3 DEF Consistent, TypeOk, CallsTyped, Others, Running
<1>5. pc'[c] = next /\ batch'[c] = batch[c]
  BY <1>1 DEF Consistent, TypeOk
<1>6. batch[c] # << >>
  BY <1>1 DEF Consistent, Busy, Running
<1> QED BY <1>1, <1>3, <1>4, <1>5, <1>6 DEF Busy, Loops, Parents, InSites,
           InDevices, tables

LEMMA CallerStep ==
    ASSUME Consistent, Next
    PROVE  \E c \in Callers : /\ CallsTyped' /\ Others(c)
                              /\ Busy(c)' /\ Loops(c)'
                              /\ Parents(c) => Parents(c)'
<1>1. ASSUME NEW c \in Callers, NEW b \in Batches, Call(c, b)
      PROVE  CallsTyped' /\ Others(c) /\ Busy(c)' /\ Loops(c)' /\ Parents(c)'
  BY <1>1, BeginStep DEF Call
<1>2. ASSUME NEW c \in Callers, Retry(c)
      PROVE  CallsTyped' /\ Others(c) /\ Busy(c)' /\ Loops(c)' /\ Parents(c)'
  <2>1. batch[c] \in Batches \cup {<< >>}
    BY DEF Consistent, TypeOk
  <2> QED BY <1>2, <2>1, BeginStep DEF Retry
<1>3. ASSUME NEW c \in Callers, pc[c] \in Running,
             Return(c, "ok") \/ Return(c, "failed")
      PROVE  CallsTyped' /\ Others(c) /\ Busy(c)' /\ Loops(c)' /\ Parents(c)'
  BY <1>3, ReturnStep
<1>4. ASSUME NEW c \in Callers, Commit(c) \/ Rejected(c) \/ StatementFails(c)
      PROVE  CallsTyped' /\ Others(c) /\ Busy(c)' /\ Loops(c)' /\ Parents(c)'
  <2>1. pc[c] \in Running /\ (Return(c, "ok") \/ Return(c, "failed"))
    BY <1>4 DEF Commit, Rejected, StatementFails, AnswerLost, Running, InSites,
       InDevices
  <2> QED BY <1>3, <2>1
<1>5. ASSUME NEW c \in Callers, WriteSite(c)
      PROVE  CallsTyped' /\ Others(c) /\ Busy(c)' /\ Loops(c)'
             /\ (Parents(c) => Parents(c)')
  <2>1. CASE NextKey(c, "sites", "devices", DeviceKeys(batch[c]))
    BY <1>5, <2>1, WriteSiteStep
  <2>2. CASE AnswerLost(c)
    BY <1>3, <1>5, <2>2 DEF AnswerLost, WriteSite, Running, InSites
  <2> QED BY <1>5, <2>1, <2>2 DEF WriteSite
<1>6. ASSUME NEW c \in Callers, WriteDevice(c)
      PROVE  CallsTyped' /\ Others(c) /\ Busy(c)' /\ Loops(c)'
             /\ (Parents(c) => Parents(c)')
  <2>1. CASE NextKey(c, "devices", "insert", {})
    BY <1>6, <2>1, WriteDeviceStep
  <2>2. CASE AnswerLost(c)
    BY <1>3, <1>6, <2>2 DEF AnswerLost, WriteDevice, Running, InDevices
  <2> QED BY <1>6, <2>1, <2>2 DEF WriteDevice
<1>7. ASSUME NEW c \in Callers, WriteMeasurements(c) \/ StatementFails(c)
      PROVE  CallsTyped' /\ Others(c) /\ Busy(c)' /\ Loops(c)'
             /\ (Parents(c) => Parents(c)')
  BY <1>4, <1>5, <1>6, <1>7, SelectStep, InsertStep DEF WriteMeasurements
<1> QED BY <1>1, <1>2, <1>7 DEF Next

\* What holds of a caller is not disturbed by another.
LEMMA OthersKeep ==
    ASSUME Consistent, [Next]_vars, NEW o \in Callers,
           /\ pc'[o] = pc[o] /\ batch'[o] = batch[o] /\ todo'[o] = todo[o]
           /\ key'[o] = key[o] /\ found'[o] = found[o]
           /\ inserted'[o] = inserted[o]
    PROVE  Busy(o)' /\ Loops(o)' /\ (Parents(o) => Parents(o)')
<1>1. batch[o] \in Batches \cup {<< >>} /\ Busy(o) /\ Loops(o)
  BY DEF Consistent, TypeOk
<1>2. SiteKeys(batch[o]) \subseteq SiteIDs /\ DeviceKeys(batch[o]) \subseteq DeviceSNs
  BY <1>1, BatchIsSequence
<1>3. Busy(o)'
  BY <1>1 DEF Busy
<1>4. Loops(o)'
  BY <1>1, TablesStep DEF Loops, Looking
<1>5. Parents(o) => Parents(o)'
  BY <1>2, TablesStep DEF Parents, DoneWith
<1> QED BY <1>3, <1>4, <1>5

LEMMA BoundsStep ==
    ASSUME Consistent, [Next]_vars
    PROVE  calls' \in 0..MaxCalls /\ faults' \in 0..MaxFaults
<1>1. calls \in 0..MaxCalls /\ faults \in 0..MaxFaults
      /\ MaxCalls \in Nat /\ MaxFaults \in Nat
  BY BoundsAssumption DEF Consistent, TypeOk
<1>2. calls' = calls \/ (calls < MaxCalls /\ calls' = calls + 1)
  BY Zenon DEF Next, vars, Call, Retry, WriteMeasurements, SelectSite,
     SelectDevice, Select, WriteSite, WriteDevice, InsertChunk, Commit, Rejected,
     StatementFails
<1>3. faults' = faults \/ (faults < MaxFaults /\ faults' = faults + 1)
  BY Zenon DEF Next, vars, Call, Retry, Begin, WriteMeasurements, SelectSite,
     SelectDevice, Select, WriteSite, WriteDevice, InsertChunk, Commit, Rejected,
     StatementFails, NextKey, AnswerLost, Fault
<1> QED BY <1>1, <1>2, <1>3

LEMMA ConsistentStep ==
    ASSUME Consistent, [Next]_vars
    PROVE  /\ Consistent'
           /\ (\A c \in Callers : Parents(c)) => \A c \in Callers : Parents(c)'
<1>1. CASE UNCHANGED vars
  <2>1. CallsTyped'
    BY <1>1 DEF Consistent, TypeOk, CallsTyped, vars, callVars
  <2>2. ASSUME NEW c \in Callers
        PROVE  Busy(c)' /\ Loops(c)' /\ (Parents(c) => Parents(c)')
    BY <1>1, OthersKeep DEF vars, callVars
  <2> QED BY <2>1, <2>2, TablesStep, BoundsStep DEF Consistent, TypeOk, CallsTyped,
             TablesTyped, DeviceRows
<1>2. CASE Next
  <2>1. PICK c \in Callers : /\ CallsTyped' /\ Others(c)
                             /\ Busy(c)' /\ Loops(c)'
                             /\ Parents(c) => Parents(c)'
    BY <1>2, CallerStep
  <2>2. ASSUME NEW o \in Callers
        PROVE  Busy(o)' /\ Loops(o)' /\ (Parents(o) => Parents(o)')
    <3>1. CASE o = c
      BY <2>1, <3>1
    <3>2. CASE o # c
      BY <2>1, <3>2, OthersKeep DEF Others
    <3> QED BY <3>1, <3>2
  <2> QED BY <2>1, <2>2, TablesStep, BoundsStep DEF Consistent, TypeOk, CallsTyped,
             TablesTyped, DeviceRows
<1> QED BY <1>1, <1>2

LEMMA ConsistentInit ==
    ASSUME Init
    PROVE  Consistent /\ \A c \in Callers : Parents(c)
<1>1. TypeOk
  <2>1. Len(<< >>) = 0
    OBVIOUS
  <2> QED BY <2>1, BoundsAssumption DEF Init, TypeOk
<1>2. \A c \in Callers : Busy(c) /\ Loops(c) /\ Parents(c)
  BY DEF Init, Busy, Loops, Parents, Running, InSites, InDevices
<1> QED BY <1>1, <1>2 DEF Consistent
------------------------------------------------------------------------------
(* Theorems *)

LEMMA AlwaysConsistent == Spec => []Consistent
<1>1. Consistent /\ [Next]_vars => Consistent'
  BY ConsistentStep
<1> QED BY ConsistentInit, <1>1, PTL DEF Spec

\* The callers' variables and the tables have their types in every reachable
\* state, and at most the batch is inserted (writer.go:62-97).
THEOREM TypeCorrect == Spec => []TypeOk
<1>1. Consistent => TypeOk
  BY DEF Consistent
<1> QED BY <1>1, AlwaysConsistent, PTL

\* No foreign key of a batch without blank keys is missing when it is needed,
\* for any number of callers that write at the same time (writer.go:68-88).
THEOREM ForeignKeysHold == Spec => []ParentsExist
<1> DEFINE AllParents == \A c \in Callers : Parents(c)
<1>1. Init => AllParents
  BY ConsistentInit
<1>2. Consistent /\ AllParents /\ [Next]_vars => AllParents'
  BY ConsistentStep
<1>3. Consistent /\ AllParents => ParentsExist
  <2> SUFFICES ASSUME Consistent, AllParents, NEW c \in Callers,
                      NEW i \in DOMAIN batch[c], WellFormed(batch[c])
               PROVE  /\ pc[c] \in InDevices => sites[batch[c][i].site] # NoRow
                      /\ pc[c] \in {"insert", "commit"} =>
                            devices[batch[c][i].sn] # NoRow
    BY DEF ParentsExist
  <2>1. batch[c][i].site \in SiteKeys(batch[c])
        /\ batch[c][i].sn \in DeviceKeys(batch[c])
    BY DEF SiteKeys, DeviceKeys
  <2> QED BY <2>1 DEF Parents, DoneWith
<1> QED BY <1>1, <1>2, <1>3, AlwaysConsistent, PTL DEF Spec

\* The devices a call is done with show what it reports of them, as long as
\* no other call has begun.
Showing(c, keys) == \A d \in keys : Shows(devices[d], LastOfDevice(batch[c], d))
Reported(c) == WellFormed(batch[c]) /\ Alone(c) =>
               /\ pc[c] \in InDevices => Showing(c, DeviceKeys(batch[c]) \ todo[c])
               /\ pc[c] \in {"insert", "commit", "ok"} =>
                     Showing(c, DeviceKeys(batch[c]))

\* Whoever takes a step has begun; the other callers are where they were.
LEMMA StepTaken ==
    ASSUME Consistent, Next
    PROVE  \E c \in Callers :
              /\ \/ \E b \in Batches : Call(c, b)
                 \/ Retry(c) \/ WriteMeasurements(c) \/ StatementFails(c)
              /\ pc'[c] # "idle"
              /\ \A o \in Callers \ {c} : pc'[o] = pc[o]
<1>1. PICK c \in Callers : \/ \E b \in Batches : Call(c, b)
                          \/ Retry(c) \/ WriteMeasurements(c)
                          \/ StatementFails(c)
  BY DEF Next
<1>2. \E label \in Running \cup {"ok", "failed"} : pc' = [pc EXCEPT ![c] = label]
  BY <1>1 DEF Call, Retry, Begin, WriteMeasurements, SelectSite, SelectDevice,
     Select, WriteSite, WriteDevice, NextKey, AnswerLost, InsertChunk, Commit,
     Rejected, StatementFails, Return, Goto, Running, InSites, InDevices
<1>3. pc'[c] # "idle" /\ \A o \in Callers \ {c} : pc'[o] = pc[o]
  BY <1>2 DEF Consistent, TypeOk, Running, InSites, InDevices
<1> QED BY <1>1, <1>3

LEMMA ReportedWrite ==
    ASSUME Consistent, NEW c \in Callers, WriteDevice(c), Reported(c),
           NextKey(c, "devices", "insert", {}), WellFormed(batch[c]), Alone(c)
    PROVE  Reported(c)'
<1> DEFINE rest == todo[c] \ {key[c]}
           more == rest # {}
<1>1. /\ pc[c] = "device" /\ DeviceAdmitted(c) /\ UNCHANGED batch
      /\ pc' = [pc EXCEPT ![c] = IF more THEN "devices" ELSE "insert"]
      /\ todo' = [todo EXCEPT ![c] = IF more THEN rest ELSE {}]
      /\ devices' = [devices EXCEPT ![Target(c)] = DeviceRow(c)]
  BY DEF WriteDevice, NextKey, Goto
<1>2. /\ pc'[c] = IF more THEN "devices" ELSE "insert"
      /\ todo'[c] = rest /\ batch'[c] = batch[c]
  BY <1>1 DEF Consistent, TypeOk
<1>3. key[c] \in DeviceKeys(batch[c])
  BY <1>1 DEF Consistent, Loops, Looking, InDevices
<1>4. PICK i \in DOMAIN batch[c] :
         LastOfDevice(batch[c], key[c]) = batch[c][i] /\ batch[c][i].sn = key[c]
  BY <1>3, LastIsOfTheKey DEF Consistent, TypeOk
<1>5. key[c] # Blank /\ LastOfDevice(batch[c], key[c]).site # Blank
  BY <1>4 DEF WellFormed
<1>6. /\ Target(c) = key[c] /\ key[c] \in DeviceSNs
      /\ Shows(DeviceRow(c), LastOfDevice(batch[c], key[c]))
  BY <1>1, <1>5, WrittenDevice
<1>7. \A d \in DeviceKeys(batch[c]) \ rest :
         Shows(devices'[d], LastOfDevice(batch[c], d))
  <2>1. \A d \in DeviceKeys(batch[c]) \ todo[c] :
           Shows(devices[d], LastOfDevice(batch[c], d))
    BY <1>1 DEF Reported, Showing, InDevices
  <2>2. \A d \in DeviceKeys(batch[c]) : d \in DeviceSNs
    BY BatchIsSequence DEF Consistent, TypeOk
  <2>3. \A d \in DeviceSNs :
           devices'[d] = IF d = key[c] THEN DeviceRow(c) ELSE devices[d]
    BY <1>1, <1>6 DEF Consistent, TypeOk
  <2> QED BY <1>6, <2>1, <2>2, <2>3
<1>8. ~more => rest = {}
  OBVIOUS
<1> HIDE DEF more, rest
<1> QED BY <1>2, <1>7, <1>8 DEF Reported, Showing, InDevices

LEMMA ReportedStep ==
    ASSUME Consistent, [Next]_vars, NEW c \in Callers, Reported(c)
    PROVE  Reported(c)'
<1>1. CASE UNCHANGED vars
  BY <1>1 DEF Reported, Showing, Alone, vars, callVars, tables
<1>2. CASE Next
  <2>1. PICK a \in Callers :
           /\ \/ \E b \in Batches : Call(a, b)
              \/ Retry(a) \/ WriteMeasurements(a) \/ StatementFails(a)
           /\ pc'[a] # "idle"
           /\ \A o \in Callers \ {a} : pc'[o] = pc[o]
    BY <1>2, StepTaken
  <2>2. CASE a # c
    BY <2>1, <2>2 DEF Reported, Alone
  <2>3. CASE a = c
    <3>1. Alone(c)' => Alone(c)
      BY <2>1, <2>3 DEF Alone
    <3>2. CASE (\E b \in Batches : Call(c, b)) \/ Retry(c)
      <4>1. PICK b : Begin(c, b)
        BY <3>2 DEF Call, Retry
      <4>2. pc'[c] = (IF b = << >> THEN "ok" ELSE "sites") /\ batch'[c] = b
        BY <4>1 DEF Begin, Goto, Consistent, TypeOk
      <4>3. DeviceKeys(<< >>) = {}
        BY DEF DeviceKeys
      <4> QED BY <4>2, <4>3 DEF Reported, Showing, InDevices
    <3>3. CASE SelectSite(c) \/ SelectDevice(c)
      <4>1. /\ UNCHANGED <<batch, todo, devices>>
            /\ \/ pc'[c] = "site"
               \/ pc[c] = "devices" /\ pc'[c] = "device"
        BY <3>3 DEF SelectSite, SelectDevice, Select, Goto, tables, Consistent,
           TypeOk
      <4> QED BY <3>1, <4>1 DEF Reported, Showing, InDevices
    <3>4. CASE WriteSite(c) /\ NextKey(c, "sites", "devices", DeviceKeys(batch[c]))
      <4>1. /\ batch' = batch
            /\ \/ pc'[c] = "sites"
               \/ pc'[c] = "devices" /\ todo'[c] = DeviceKeys(batch[c])
        BY <3>4 DEF NextKey, Goto, Consistent, TypeOk
      <4> QED BY <4>1 DEF Reported, Showing, InDevices
    <3>5. CASE WriteDevice(c) /\ NextKey(c, "devices", "insert", {})
      <4>1. batch' = batch
        BY <3>5 DEF NextKey
      <4>2. WellFormed(batch[c]) /\ Alone(c) => Reported(c)'
        BY <3>5, ReportedWrite
      <4> QED BY <3>1, <4>1, <4>2 DEF Reported
    <3>6. CASE InsertChunk(c)
      <4>1. /\ UNCHANGED <<batch, devices>> /\ pc[c] = "insert"
            /\ pc'[c] \in {"insert", "commit"}
        BY <3>6 DEF InsertChunk, Goto, tables, Consistent, TypeOk
      <4> QED BY <3>1, <4>1 DEF Reported, Showing, InDevices
    <3>7. CASE Commit(c) /\ Return(c, "ok")
      <4>1. UNCHANGED <<batch, devices>> /\ pc[c] = "commit" /\ pc'[c] = "ok"
        BY <3>7 DEF Commit, Return, Goto, Consistent, TypeOk
      <4> QED BY <3>1, <4>1 DEF Reported, Showing, InDevices
    <3>8. CASE Return(c, "failed")
      <4>1. pc'[c] = "failed"
        BY <3>8 DEF Return, Goto, Consistent, TypeOk
      <4> QED BY <4>1 DEF Reported, InDevices
    <3> QED BY <2>1, <2>3, <3>2, <3>3, <3>4, <3>5, <3>6, <3>7, <3>8
            DEF WriteMeasurements, WriteSite, WriteDevice, Commit, AnswerLost,
                Rejected, StatementFails
  <2> QED BY <2>2, <2>3
<1> QED BY <1>1, <1>2

\* After a call that no other comes between, each device of a batch without
\* blank keys is listed as its last measurement reports it, for any batches,
\* failures and repetitions (writer.go:108-153).
THEOREM DevicesAreReported == Spec => []LabelsAsReported
<1> DEFINE AllReported == \A c \in Callers : Reported(c)
<1>1. Init => AllReported
  BY DEF Init, Reported, InDevices
<1>2. Consistent /\ AllReported /\ [Next]_vars => AllReported'
  BY ReportedStep
<1>3. AllReported => LabelsAsReported
  BY DEF Reported, Showing, LabelsAsReported
<1> QED BY <1>1, <1>2, <1>3, AlwaysConsistent, PTL DEF Spec

\* No name or type that is known goes away, and no row of a site or a device,
\* for any answers, callers and failures (writer.go:131, 148).
THEOREM NamesStay == Spec => KnownNamesKept
<1> DEFINE SiteKept(s) == sites[s] # NoRow =>
              /\ sites'[s] # NoRow
              /\ sites[s] # Blank => sites'[s] # Blank
           DeviceKept(d) == devices[d] # NoRow =>
              /\ devices'[d] # NoRow
              /\ devices[d].name # Blank => devices'[d].name # Blank
              /\ devices[d].type # Blank => devices'[d].type # Blank
<1>1. ASSUME Consistent, [Next]_vars
      PROVE  (\A s \in SiteIDs : SiteKept(s)) /\ (\A d \in DeviceSNs : DeviceKept(d))
  <2>1. ASSUME NEW s \in SiteIDs PROVE SiteKept(s)
    <3>1. ASSUME NEW c \in Callers, WriteSite(c), sites[s] \notin {NoRow, Blank}
          PROVE  sites'[s] # Blank
      <4>1. pc[c] = "site" /\ SiteAdmitted(c)
            /\ sites' = [sites EXCEPT ![Target(c)] = SiteRow(c)]
        BY <3>1 DEF WriteSite
      <4>2. sites[Target(c)] \notin {NoRow, Blank} => SiteRow(c) # Blank
        BY <1>1, <4>1, WrittenSite
      <4> QED BY <1>1, <3>1, <4>1, <4>2 DEF Consistent, TypeOk
    <3>2. sites' = sites \/ \E c \in Callers : WriteSite(c)
      BY <1>1, TablesStep DEF tables, WriteDevice, Commit
    <3> QED BY <1>1, <3>1, <3>2, TablesStep
  <2>2. ASSUME NEW d \in DeviceSNs PROVE DeviceKept(d)
    <3>1. ASSUME NEW c \in Callers, WriteDevice(c), devices[d] # NoRow
          PROVE  /\ devices[d].name # Blank => devices'[d].name # Blank
                 /\ devices[d].type # Blank => devices'[d].type # Blank
      <4>1. pc[c] = "device" /\ DeviceAdmitted(c)
            /\ devices' = [devices EXCEPT ![Target(c)] = DeviceRow(c)]
        BY <3>1 DEF WriteDevice
      <4>2. \A k \in DeviceSNs :
               devices'[k] = IF k = Target(c) THEN DeviceRow(c) ELSE devices[k]
        BY <1>1, <4>1 DEF Consistent, TypeOk
      <4>3. devices[Target(c)] # NoRow =>
               /\ devices[Target(c)].name # Blank => DeviceRow(c).name # Blank
               /\ devices[Target(c)].type # Blank => DeviceRow(c).type # Blank
        BY <1>1, <4>1, WrittenDevice
      <4> QED BY <3>1, <4>2, <4>3
    <3>2. devices' = devices \/ \E c \in Callers : WriteDevice(c)
      BY <1>1, TablesStep DEF tables, WriteSite, Commit
    <3> QED BY <1>1, <3>1, <3>2, TablesStep
  <2> QED BY <2>1, <2>2
<1> QED BY <1>1, AlwaysConsistent, PTL DEF Spec, KnownNamesKept
------------------------------------------------------------------------------
(* WriteMeasurements is an atomic write *)

\* The status a caller has in AtomicWrites changes with its pc alone.
LEMMA StatusStep ==
    ASSUME TypeOk, NEW c \in Callers, NEW label, pc' = [pc EXCEPT ![c] = label]
    PROVE  Status' = [Status EXCEPT ![c] =
                         IF label \in Running THEN "called" ELSE label]
<1>1. \A o \in Callers : pc'[o] = IF o = c THEN label ELSE pc[o]
  BY DEF TypeOk
<1> QED BY <1>1 DEF Status

\* A call ends with its status; what the tables hold decides which end it is.
LEMMA ReturnIsReturn ==
    ASSUME Consistent, NEW c \in Callers, pc[c] \in Running,
           NEW answer \in {"ok", "failed"}, Return(c, answer)
    PROVE  AW!Return(c, answer)
<1>1. Status' = [Status EXCEPT ![c] = answer]
  BY StatusStep DEF Consistent, Return, Goto, Running, InSites, InDevices
<1>2. Status[c] = "called"
  BY DEF Status
<1> QED BY <1>1, <1>2 DEF AW!Return, Return

\* A step within a call is not seen.
LEMMA WithinCall ==
    ASSUME Consistent, NEW c \in Callers, pc[c] \in Running,
           NEW label \in Running, pc' = [pc EXCEPT ![c] = label]
    PROVE  Status' = Status
<1>1. Status' = [Status EXCEPT ![c] = "called"]
  BY StatusStep DEF Consistent
<1> QED BY <1>1 DEF Status

\* The detailed model implements AtomicWrites: the rows of a call appear at
\* its COMMIT, all of them, and no other step stores any (writer.go:88-97).
THEOREM Implementation == Spec => ImplementsAtomicWrites
<1>1. Init => AW!Init
  BY DEF Init, AW!Init, Status, Running, InSites, InDevices
<1>2. ASSUME Consistent, [Next]_vars PROVE [AW!Next]_AW!vars
  <2>1. ASSUME NEW c \in Callers, NEW b \in Batches, Call(c, b)
        PROVE  AW!Call(c, b)
    <3> DEFINE label == IF b = << >> THEN "ok" ELSE "sites"
    <3>1. pc' = [pc EXCEPT ![c] = label] /\ pc[c] \in {"idle", "ok"}
          /\ batch' = [batch EXCEPT ![c] = b] /\ UNCHANGED rows
      BY <2>1 DEF Call, Begin, Goto, tables
    <3>2. (IF label \in Running THEN "called" ELSE label)
             = IF b = << >> THEN "ok" ELSE "called"
      BY DEF Running, InSites, InDevices
    <3>3. Status' = [Status EXCEPT ![c] = IF b = << >> THEN "ok" ELSE "called"]
      BY <1>2, <3>1, <3>2, StatusStep DEF Consistent
    <3>4. Status[c] = pc[c]
      BY <3>1 DEF Status, Running, InSites, InDevices
    <3> QED BY <3>1, <3>3, <3>4 DEF AW!Call
  <2>2. ASSUME NEW c \in Callers, Retry(c) PROVE AW!Retry(c)
    <3>1. batch[c] # << >> /\ pc[c] = "failed"
      BY <1>2, <2>2 DEF Retry, Consistent, Busy
    <3>2. pc' = [pc EXCEPT ![c] = "sites"] /\ UNCHANGED <<batch, rows>>
      BY <1>2, <2>2, <3>1 DEF Retry, Begin, Goto, tables, Consistent, TypeOk
    <3>3. Status' = [Status EXCEPT ![c] = "called"]
      BY <1>2, <3>2, StatusStep DEF Consistent, Running, InSites
    <3>4. Status[c] = "failed"
      BY <3>1 DEF Status, Running, InSites, InDevices
    <3> QED BY <3>2, <3>3, <3>4 DEF AW!Retry
  <2>3. ASSUME NEW c \in Callers, pc[c] \in Running, Return(c, "failed"),
               UNCHANGED rows
        PROVE  AW!Refuse(c)
    BY <1>2, <2>3, ReturnIsReturn DEF AW!Refuse
  <2>4. ASSUME NEW c \in Callers, Commit(c)
        PROVE  AW!Commit(c) \/ AW!CommitUnseen(c)
    <3>1. pc[c] \in Running /\ AW!Stored(batch[c])
      <4>1. pc[c] \in Running
        BY <2>4 DEF Commit, Running
      <4>2. \A d \in DeviceSNs : AW!Count(batch[c], d) = Count(batch[c], d)
        BY DEF AW!Count, Count, AW!Cardinality, Cardinality
      <4>3. AW!Stored(batch[c])
        BY <2>4, <4>2 DEF Commit, AW!Stored
      <4> QED BY <4>1, <4>3
    <3>2. Return(c, "ok") \/ Return(c, "failed")
      BY <2>4 DEF Commit, AnswerLost
    <3> QED BY <1>2, <3>1, <3>2, ReturnIsReturn DEF AW!Commit, AW!CommitUnseen
  <2>5. ASSUME NEW c \in Callers,
               WriteSite(c) \/ WriteDevice(c) \/ Rejected(c) \/ StatementFails(c)
        PROVE  AW!Refuse(c) \/ UNCHANGED AW!vars
    <3>1. pc[c] \in Running /\ UNCHANGED rows
      BY <2>5 DEF WriteSite, WriteDevice, Rejected, StatementFails, Running,
         InSites, InDevices, tables
    <3>2. CASE Return(c, "failed")
      BY <2>3, <3>1, <3>2
    <3>3. CASE \/ NextKey(c, "sites", "devices", DeviceKeys(batch[c]))
               \/ NextKey(c, "devices", "insert", {})
      <4>1. \E label \in Running : pc' = [pc EXCEPT ![c] = label]
        BY <3>3 DEF NextKey, Goto, Running, InSites, InDevices
      <4>2. Status' = Status
        BY <1>2, <3>1, <4>1, WithinCall
      <4>3. UNCHANGED batch
        BY <3>3 DEF NextKey
      <4> QED BY <3>1, <4>2, <4>3 DEF AW!vars
    <3> QED BY <2>5, <3>2, <3>3 DEF WriteSite, WriteDevice, Rejected,
               StatementFails, AnswerLost
  <2>6. ASSUME NEW c \in Callers,
               SelectSite(c) \/ SelectDevice(c) \/ InsertChunk(c)
        PROVE  UNCHANGED AW!vars
    <3>1. pc[c] \in Running /\ UNCHANGED <<batch, rows>>
      BY <2>6 DEF SelectSite, SelectDevice, Select, InsertChunk, Running,
         InSites, InDevices, tables
    <3>2. \E label \in Running : pc' = [pc EXCEPT ![c] = label]
      BY <2>6 DEF SelectSite, SelectDevice, Select, InsertChunk, Goto, Running,
         InSites, InDevices
    <3> QED BY <1>2, <3>1, <3>2, WithinCall DEF AW!vars
  <2>7. CASE UNCHANGED vars
    BY <2>7 DEF vars, callVars, tables, AW!vars, Status
  <2>8. CASE Next
    BY <2>1, <2>2, <2>4, <2>5, <2>6, <2>8 DEF Next, WriteMeasurements, AW!Next
  <2> QED BY <1>2, <2>7, <2>8
<1> QED BY <1>1, <1>2, AlwaysConsistent, PTL DEF Spec, ImplementsAtomicWrites, AW!Spec
==============================================================================
