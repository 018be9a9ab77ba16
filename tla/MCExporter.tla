------------------------------ MODULE MCExporter ------------------------------
(***************************************************************************)
(* Instances of Exporter for TLC.  The cfg files choose the instances; the *)
(* last three properties are what the repository says of the exporter and  *)
(* the code does not keep to.                                              *)
(***************************************************************************)
EXTENDS Exporter

CONSTANT Healthy   \* the devices whose calls succeed in the end

LiveSpec == FairSpec /\ Services(Healthy)

\* A device whose calls succeed in the end gets every day stored, also next
\* to a device whose calls always fail (main.go:299-310).
EveryDayExported == EveryDayStored(Healthy)

\* README: the resume-state file tracks how far each device has been
\* exported "so restarts do not re-import data".  The file is written at the
\* end of a poll, after the rows of all devices are committed (main.go:336).
NeverReimported == \A k \in Keys, d \in Days : rows[k][d] <= 1

\* README: "Tracks per-device resume state to avoid duplicate imports."  The
\* state is per site and device (main.go:346), the rows are per device.
OneRowPerDeviceAndDay ==
    \A v \in Devices, d \in Days :
       Cardinality({s \in Sites : rows[<<s, v>>][d] > 0}) <= 1

\* main.go:481: "The value represents energy for the day".  A day is first
\* exported while it goes on and is then skipped as exported (main.go:455),
\* so the row of a day the exporter has gone past holds a part of its total.
PastDaysHaveTotals ==
    \A k \in Keys, d \in Days :
       rows[k][d] > 0 /\ Reaches(Known, k, d + 1) => <<k, d>> \in totals
==============================================================================
