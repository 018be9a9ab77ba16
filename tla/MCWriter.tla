------------------------------- MODULE MCWriter -------------------------------
(***************************************************************************)
(* Instances of Writer for TLC: what a poll writes for two sites, with a   *)
(* device that is moved from one to the other, and answers that leave      *)
(* names or keys out.                                                      *)
(***************************************************************************)
EXTENDS Writer

CONSTANTS s1, s2, v1, v2, n1, c1, c2, c3

TwoSites == {s1, s2, Blank}
TwoDevices == {v1, v2, Blank}
OneName == {n1, Blank}

Listed(sn, name, pn) == [sn |-> sn, name |-> name, type |-> Blank, pn |-> pn]

Scene == [siteName |-> n1,
          bank |-> <<Listed(v1, n1, "A17")>>,
          solar |-> <<Listed(v2, n1, Blank)>>]
Unnamed == [siteName |-> Blank, bank |-> <<Listed(v1, Blank, Blank)>>,
            solar |-> << >>]
Anonymous == [siteName |-> n1, bank |-> << >>,
              solar |-> <<Listed(Blank, n1, "other")>>]

PollBatches ==
    {<< >>,
     LiveBatch(s1, Scene),
     LiveBatch(s1, Unnamed),
     LiveBatch(s2, Anonymous),
     LiveBatch(Blank, Scene),
     EnergyBatch(s2, n1, DeviceList(Scene)[2], 3)}

\* What the writers of TestConcurrentWrites have in common.
SameDevice == {EnergyBatch(s1, n1, Listed(v1, n1, "A17"), 2)}

\* examples_integration_test.go:207: no writer that shares the database with
\* others may fail.  FirstOrCreate looks a key up and then inserts it, so of
\* two writers that find it missing one fails on the unique key.
NoWriterFails == \A c \in Callers : pc[c] # "failed"
==============================================================================
