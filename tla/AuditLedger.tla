---------------------------- MODULE AuditLedger ----------------------------
(***************************************************************************)
(* What the audit component promises its callers, without Redis, Celery or *)
(* PostgreSQL: every event has one status, a batch of pending events is    *)
(* stored all at once or not at all, and a stored event stays stored       *)
(* (audit_logs is write-once).  An event may be lost, but only from the    *)
(* hands of the caller ("new") or of a flusher ("pending").                *)
(*                                                                         *)
(* AuditBuffer implements this module under the mapping given there.       *)
(***************************************************************************)

CONSTANT Events

VARIABLE status

Status == {"new", "pending", "stored", "dead", "lost"}

WithStatus(S) == {e \in Events : status[e] \in S}

LedgerInit == status = [e \in Events |-> "new"]

\* The caller's event is taken over for asynchronous storage.
Accept(e) ==
    /\ status[e] = "new"
    /\ status' = [status EXCEPT ![e] = "pending"]

\* The caller's event is stored in the call itself, or not at all.
WriteThrough(e) ==
    /\ status[e] = "new"
    /\ \E s \in {"stored", "lost"} : status' = [status EXCEPT ![e] = s]

\* A batch becomes durable in one transaction.  An event already dead-lettered
\* or stored may be in it: a duplicate of a push whose reply was lost.
Store(batch) ==
    /\ batch # {}
    /\ batch \subseteq WithStatus({"pending", "dead", "stored"})
    /\ status' = [e \in Events |-> IF e \in batch THEN "stored" ELSE status[e]]

\* An event the database refuses is set aside, and the rest of its batch is
\* lost if the flusher can go no further.
SetAside(e, dropped) ==
    /\ {e} \cup dropped \subseteq WithStatus({"pending"})
    /\ status' = [d \in Events |-> CASE d = e -> "dead"
                                     [] d \in dropped \ {e} -> "lost"
                                     [] OTHER -> status[d]]

\* What a flusher holds disappears with it.
Lose(batch) ==
    /\ batch # {}
    /\ batch \subseteq WithStatus({"pending"})
    /\ status' = [e \in Events |-> IF e \in batch THEN "lost" ELSE status[e]]

LedgerNext ==
    \/ \E e \in Events : Accept(e) \/ WriteThrough(e)
    \/ \E batch \in SUBSET Events :
          Store(batch) \/ Lose(batch) \/ \E e \in Events : SetAside(e, batch)

LedgerSpec == LedgerInit /\ [][LedgerNext]_status
=============================================================================
