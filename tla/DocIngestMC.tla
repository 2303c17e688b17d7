--------------------------- MODULE DocIngestMC ---------------------------
(* Constants for the runs of DocIngest.                                    *)
EXTENDS DocIngest

CONSTANTS doc, w1, w2

\* Two batches of points each.
BatchesMC == [d \in Documents |-> 2]

Faults(kinds) == [k \in FaultKinds |-> IF k \in kinds THEN 1 ELSE 0]

EveryFault == [Faults(FaultKinds) EXCEPT !["caught"] = 2]
UncaughtTwice == [Faults({}) EXCEPT !["uncaught"] = 2]
UncaughtOnce == Faults({"uncaught"})
=============================================================================
