--------------------------- MODULE AuditBufferMC ---------------------------
(* Constants for the runs of AuditBuffer.                                  *)
EXTENDS AuditBuffer

CONSTANTS plain, other, orphan, poison, f1, f2

Faults(r, o, i, c) ==
    [k \in FaultKinds |-> CASE k = "redis" -> r [] k = "operational" -> o
                            [] k = "interface" -> i [] k = "crash" -> c]

NoFaults == Faults(0, 0, 0, 0)
EveryFault == Faults(1, 1, 1, 1)
RedisErrors == Faults(1, 0, 0, 0)
=============================================================================
