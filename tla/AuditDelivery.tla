---------------------------- MODULE AuditDelivery ----------------------------
(***************************************************************************)
(* What the audit export promises (docs/audit-export.md, "Delivery and     *)
(* retention"), without the worker, the checkpoint or the failures that    *)
(* AuditExport models: an event recorded while the export is on is owed to *)
(* the receiver until it has been sent and its outcome settled.  It stops  *)
(* being owed in two other ways only, switching the export off and local   *)
(* retention.  It may be sent several times, but never once settled.       *)
(***************************************************************************)
EXTENDS Naturals

CONSTANT Events

VARIABLES
  stored,   \* events in the local audit table
  owed,     \* events the receiver must still be given
  expired,  \* events local retention removed while they were owed
  offered,  \* events sent to the receiver at least once
  settled,  \* events whose delivery outcome is final
  on        \* whether the export is enabled

deliveryVars == <<stored, owed, expired, offered, settled, on>>

Init ==
  /\ stored = {} /\ owed = {} /\ expired = {} /\ offered = {} /\ settled = {}
  /\ on = FALSE

\* A new event; it is owed exactly when the export is on.
Record(e) ==
  /\ e \notin stored \union offered
  /\ stored' = stored \union {e}
  /\ owed' = IF on THEN owed \union {e} ELSE owed
  /\ UNCHANGED <<expired, offered, settled, on>>

\* A batch is read before it is sent: retention may remove its events in between.
Offer(batch) ==
  /\ batch \subseteq owed \union expired
  /\ batch \intersect settled = {}
  /\ offered' = offered \union batch
  /\ UNCHANGED <<stored, owed, expired, settled, on>>

Settle(batch) ==
  /\ batch \subseteq offered \ settled
  /\ settled' = settled \union batch
  /\ owed' = owed \ batch
  /\ UNCHANGED <<stored, expired, offered, on>>

\* Local retention removes events whether or not they were sent.
Expire(e) ==
  /\ stored' = stored \ {e}
  /\ owed' = owed \ {e}
  /\ expired' = IF e \in owed THEN expired \union {e} ELSE expired
  /\ UNCHANGED <<offered, settled, on>>

SwitchOff ==
  /\ on' = FALSE
  /\ owed' = {}
  /\ UNCHANGED <<stored, expired, offered, settled>>

\* The export starts at a tail read shortly before it is on: it owes the events
\* recorded since, none of which was ever sent.
SwitchOn(recent) ==
  /\ ~on
  /\ recent \subseteq stored \ offered
  /\ on' = TRUE
  /\ owed' = recent
  /\ UNCHANGED <<stored, expired, offered, settled>>

Next ==
  \/ \E e \in Events : Record(e) \/ Expire(e)
  \/ \E batch \in SUBSET Events : Offer(batch) \/ Settle(batch)
  \/ SwitchOff
  \/ \E recent \in SUBSET Events : SwitchOn(recent)

Spec == Init /\ [][Next]_deliveryVars
=============================================================================
