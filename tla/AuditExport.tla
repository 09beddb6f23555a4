---------------------------- MODULE AuditExport ----------------------------
(***************************************************************************)
(* The audit table and its OTLP export: Store.audit and cleanup of         *)
(* internal/store, Manager and its worker of internal/auditexport.         *)
(*                                                                         *)
(* The worker copies the manager's state, reads a batch and sends it       *)
(* without Manager.mu, then takes the lock again to decide what the        *)
(* outcome means; Update replaces the state under the lock meanwhile.  The *)
(* process may stop at any point: what is left is the checkpoint, and a    *)
(* write to it may take effect although it reports an error.               *)
(*                                                                         *)
(* Backoff times, retry hints and the status texts are left out: a cycle   *)
(* may start at any time.                                                  *)
(***************************************************************************)
EXTENDS Integers, FiniteSets, FiniteSetsExt

CONSTANTS
  MaxEvents,   \* bound: audit ids allocated
  BatchLimit,  \* events per batch, 64 in the code
  MaxUpdates,  \* bound: settings updates started
  MaxCrashes,  \* bound: times the process stops
  Nothing      \* no insert, no update in progress

ASSUME BatchLimitPositive == BatchLimit \in Nat \ {0}
ASSUME BoundsAreNaturals == {MaxEvents, MaxUpdates, MaxCrashes} \subseteq Nat
ASSUME NothingIsNoEvent == Nothing \notin 1..MaxEvents

VARIABLES
  stored,    \* rows of the audit table, as their ids
  nextId,    \* the id sequence
  inserting, \* ids inserted by transactions that have not ended
  mem,       \* Manager.state
  disk,      \* the checkpoint in the kv table
  up,        \* "up", "closed" once Close has begun, "down"
  update,    \* the checkpoint Update is writing (it holds Manager.mu), or Nothing
  worker,    \* the cycle in progress
  updates, crashes,  \* counted for the bounds only
  offered,   \* history: events sent to a receiver
  expired,   \* history: events retention removed while they were owed
  quiet      \* history: events recorded while the export was off

tableVars == <<stored, nextId, inserting>>
vars == <<tableVars, mem, disk, up, update, worker, updates, crashes, offered, expired, quiet>>

Events == 1..MaxEvents

\* settled is a history component: the events the counters count.
Checkpoints ==
  [enabled: BOOLEAN, revision: 0..MaxUpdates, cursor: 0..MaxEvents, blocked: BOOLEAN,
   accepted: Nat, rejected: Nat, settled: SUBSET Events]

NoCheckpoint ==
  [enabled |-> FALSE, revision |-> 0, cursor |-> 0, blocked |-> FALSE,
   accepted |-> 0, rejected |-> 0, settled |-> {}]

\* live: the cycle's context is not cancelled.  audits is the page read, sent the
\* prefix of it that fits a request.
Cycles ==
  [stage: {"idle", "reading", "read", "sent", "answered"}, live: BOOLEAN,
   revision: 0..MaxUpdates, cursor: 0..MaxEvents, audits: SUBSET Events,
   sent: SUBSET Events, answer: {"none", "ok", "retry", "permanent"},
   refused: 0..BatchLimit]

NoCycle ==
  [stage |-> "idle", live |-> FALSE, revision |-> 0, cursor |-> 0, audits |-> {},
   sent |-> {}, answer |-> "none", refused |-> 0]

TypeOK ==
  /\ stored \subseteq Events
  /\ nextId \in 1..(MaxEvents + 1)
  /\ inserting \subseteq Events /\ Cardinality(inserting) <= 1
  /\ mem \in Checkpoints
  /\ disk \in Checkpoints
  /\ up \in {"up", "closed", "down"}
  /\ update = Nothing \/ (update.next \in Checkpoints /\ update.written \in BOOLEAN)
  /\ worker \in Cycles
  /\ updates \in 0..MaxUpdates /\ crashes \in 0..MaxCrashes
  /\ offered \subseteq Events
  /\ expired \subseteq Events
  /\ quiet \subseteq Events

Init ==
  /\ stored = {} /\ nextId = 1 /\ inserting = {}
  /\ mem = NoCheckpoint /\ disk = NoCheckpoint
  /\ up = "up"
  /\ update = Nothing
  /\ worker = NoCycle
  /\ updates = 0 /\ crashes = 0
  /\ offered = {} /\ expired = {} /\ quiet = {}

Tail == Max(stored \union {0})

(***************************************************************************)
(* The audit table                                                         *)
(***************************************************************************)
\* LOCK TABLE admits one writer at a time, of this process or of a command-line
\* tool; it then takes the next id.
Insert ==
  /\ nextId <= MaxEvents
  /\ inserting = {}
  /\ inserting' = {nextId}
  /\ nextId' = nextId + 1
  /\ UNCHANGED <<stored, mem, disk, up, update, worker, updates, crashes, offered, expired, quiet>>

\* The state the manager goes by, or will start from.
Effective == IF up = "down" THEN disk ELSE mem

\* Events above the cursor of an enabled export.
Owed ==
  IF Effective.enabled THEN {e \in stored : e > Effective.cursor} ELSE {}

\* Off for the manager and on disk, and no update has read the tail to switch it on.
Off ==
  /\ ~Effective.enabled /\ ~disk.enabled
  /\ update = Nothing \/ ~update.next.enabled

Commit(e) ==
  /\ e \in inserting
  /\ inserting' = inserting \ {e}
  /\ stored' = stored \union {e}
  /\ quiet' = IF Off THEN quiet \union {e} ELSE quiet
  /\ UNCHANGED <<nextId, mem, disk, up, update, worker, updates, crashes, offered, expired>>

\* The insert fails or its ten seconds pass: the id is never used.
Abort(e) ==
  /\ e \in inserting
  /\ inserting' = inserting \ {e}
  /\ UNCHANGED <<stored, nextId, mem, disk, up, update, worker, updates, crashes,
                 offered, expired, quiet>>

\* cleanup deletes by time of the call, not by id, in batches it commits one by one.
Cleanup(e) ==
  /\ up # "down"
  /\ e \in stored
  /\ stored' = stored \ {e}
  /\ expired' = IF e \in Owed THEN expired \union {e} ELSE expired
  /\ UNCHANGED <<nextId, inserting, mem, disk, up, update, worker, updates, crashes,
                 offered, quiet>>

(***************************************************************************)
(* The worker: Manager.cycle                                               *)
(***************************************************************************)
StartCycle ==
  /\ up = "up" /\ update = Nothing
  /\ worker.stage = "idle"
  /\ mem.enabled /\ ~mem.blocked
  /\ worker' = [NoCycle EXCEPT !.stage = "reading", !.live = TRUE,
                               !.revision = mem.revision, !.cursor = mem.cursor]
  /\ UNCHANGED <<tableVars, mem, disk, up, update, updates, crashes, offered, expired, quiet>>

\* Sensitivity variant: the row next to the cursor is passed over.
PageSkippingFirst(cursor) ==
  LET rows == {e \in stored : e > cursor + 1}
  IN  {e \in rows : Cardinality({d \in rows : d < e}) < BatchLimit}

\* The BatchLimit rows of least id above the cursor.
Page(cursor) ==
  LET rows == {e \in stored : e > cursor}
  IN  {e \in rows : Cardinality({d \in rows : d < e}) < BatchLimit}

\* AuditBatch and auditRequest: a page, of which a nonempty prefix fits a request.
ReadBatch ==
  /\ up # "down"
  /\ worker.stage = "reading" /\ worker.live
  /\ LET page == Page(worker.cursor) IN
       \/ /\ page = {}
          /\ worker' = NoCycle
       \/ \E last \in page :
            worker' = [worker EXCEPT !.stage = "read", !.audits = page,
                                     !.sent = {e \in page : e <= last}]
  /\ UNCHANGED <<tableVars, mem, disk, up, update, updates, crashes, offered, expired, quiet>>

\* The rows cannot be read, in particular once the context is cancelled.
ReadFails ==
  /\ up # "down"
  /\ worker.stage = "reading"
  /\ worker' = [worker EXCEPT !.stage = "answered", !.answer = "retry"]
  /\ UNCHANGED <<tableVars, mem, disk, up, update, updates, crashes, offered, expired, quiet>>

\* The request leaves; from here on the receiver may have it whatever happens.
Send ==
  /\ up # "down"
  /\ worker.stage = "read" /\ worker.live
  /\ worker' = [worker EXCEPT !.stage = "sent"]
  /\ offered' = offered \union worker.sent
  /\ UNCHANGED <<tableVars, mem, disk, up, update, updates, crashes, expired, quiet>>

\* Acknowledged, with some records possibly refused.
Acknowledged ==
  /\ up # "down"
  /\ worker.stage = "sent"
  /\ \E n \in 0..Cardinality(worker.sent) :
       worker' = [worker EXCEPT !.stage = "answered", !.answer = "ok", !.refused = n]
  /\ UNCHANGED <<tableVars, mem, disk, up, update, updates, crashes, offered, expired, quiet>>

\* A cancelled context or no connection (nothing was sent), a timeout, a lost or
\* failed answer, a refusal for good.
NotAcknowledged ==
  /\ up # "down"
  /\ \/ /\ worker.stage \in {"read", "sent"}
        /\ worker' = [worker EXCEPT !.stage = "answered", !.answer = "retry"]
     \/ /\ worker.stage = "sent"
        /\ worker' = [worker EXCEPT !.stage = "answered", !.answer = "permanent"]
  /\ UNCHANGED <<tableVars, mem, disk, up, update, updates, crashes, offered, expired, quiet>>

\* Sensitivity variant: the outcome counts even if the settings changed meanwhile.
StillCurrentAlways == up = "up"

StillCurrent == up = "up" /\ worker.live /\ mem.revision = worker.revision

\* The checkpoint after n records had their outcome, up to the one at cursor.
OutcomeOf(cursor, n) ==
  LET refused == IF worker.answer = "permanent" THEN n ELSE worker.refused
  IN  IF worker.answer = "retry" THEN mem
      ELSE [mem EXCEPT !.cursor = cursor,
                       !.blocked = worker.answer = "permanent",
                       !.accepted = @ + n - refused,
                       !.rejected = @ + refused,
                       !.settled = @ \union worker.sent]

\* Sensitivity variant: the cursor passes the rows that did not fit the request.
OutcomeSkipping == OutcomeOf(Max(worker.audits), Cardinality(worker.sent))

\* Sensitivity variant: the whole page is counted.
OutcomeCountingPage == OutcomeOf(Max(worker.sent), Cardinality(worker.audits))

Outcome == OutcomeOf(Max(worker.sent), Cardinality(worker.sent))

Answered == up # "down" /\ update = Nothing /\ worker.stage = "answered"

\* Closed, cancelled or reconfigured: the outcome is dropped.
Drop ==
  /\ Answered
  /\ ~StillCurrent
  /\ worker' = NoCycle
  /\ UNCHANGED <<tableVars, mem, disk, up, update, updates, crashes, offered, expired, quiet>>

\* The checkpoint is written, then adopted.
Settle ==
  /\ Answered
  /\ StillCurrent
  /\ disk' = Outcome
  /\ mem' = Outcome
  /\ worker' = NoCycle
  /\ UNCHANGED <<tableVars, up, update, updates, crashes, offered, expired, quiet>>

\* persist reports an error: the write may have taken effect; the batch will be
\* sent again.
SettleUnsaved ==
  /\ Answered
  /\ StillCurrent
  /\ disk' \in {disk, Outcome}
  /\ worker' = NoCycle
  /\ UNCHANGED <<tableVars, mem, up, update, updates, crashes, offered, expired, quiet>>

(***************************************************************************)
(* Settings: Manager.Update                                                *)
(***************************************************************************)
\* Switching on, off, or saving while off starts at the tail.
NewSettings(enabled) ==
  [mem EXCEPT !.enabled = enabled, !.revision = @ + 1, !.blocked = FALSE,
              !.cursor = IF mem.enabled /\ enabled THEN @ ELSE Tail]

BeginUpdate(enabled) ==
  /\ up = "up" /\ update = Nothing
  /\ updates < MaxUpdates
  /\ updates' = updates + 1
  /\ update' = [next |-> NewSettings(enabled), written |-> FALSE]
  /\ UNCHANGED <<tableVars, mem, disk, up, worker, crashes, offered, expired, quiet>>

\* The transaction fails; its commit may still have taken effect.
UpdateFails ==
  /\ update # Nothing /\ ~update.written
  /\ disk' \in {disk, update.next}
  /\ update' = Nothing
  /\ UNCHANGED <<tableVars, mem, up, worker, updates, crashes, offered, expired, quiet>>

UpdateCommits ==
  /\ update # Nothing /\ ~update.written
  /\ disk' = update.next
  /\ update' = [update EXCEPT !.written = TRUE]
  /\ UNCHANGED <<tableVars, mem, up, worker, updates, crashes, offered, expired, quiet>>

\* Cancel the cycle in progress and adopt the settings.
AdoptUpdate ==
  /\ update # Nothing /\ update.written
  /\ mem' = update.next
  /\ worker' = [worker EXCEPT !.live = FALSE]
  /\ update' = Nothing
  /\ UNCHANGED <<tableVars, disk, up, updates, crashes, offered, expired, quiet>>

(***************************************************************************)
(* The process                                                             *)
(***************************************************************************)
Close ==
  /\ up = "up" /\ update = Nothing
  /\ crashes < MaxCrashes
  /\ up' = "closed"
  /\ worker' = [worker EXCEPT !.live = FALSE]
  /\ UNCHANGED <<tableVars, mem, disk, update, updates, crashes, offered, expired, quiet>>

\* The process ends, after Close or by a crash; open transactions end on their own.
Stop ==
  /\ up # "down"
  /\ crashes < MaxCrashes
  /\ up' = "down"
  /\ crashes' = crashes + 1
  /\ update' = Nothing /\ worker' = NoCycle
  /\ UNCHANGED <<tableVars, mem, disk, updates, offered, expired, quiet>>

\* New: the manager starts from the checkpoint.
Restart ==
  /\ up = "down"
  /\ up' = "up"
  /\ mem' = disk
  /\ UNCHANGED <<tableVars, disk, update, worker, updates, crashes, offered, expired, quiet>>

Next ==
  \/ Insert
  \/ \E e \in Events : Commit(e) \/ Abort(e) \/ Cleanup(e)
  \/ StartCycle \/ ReadBatch \/ ReadFails \/ Send \/ Acknowledged \/ NotAcknowledged
  \/ Drop \/ Settle \/ SettleUnsaved
  \/ \E enabled \in BOOLEAN : BeginUpdate(enabled)
  \/ UpdateFails \/ UpdateCommits \/ AdoptUpdate
  \/ Close \/ Stop \/ Restart

\* The worker runs, a stopped process is started again and Update ends.  The
\* audit table is readable, the receiver answers and the checkpoint is saved
\* again and again, though never for certain at a given attempt.
Fairness ==
  /\ WF_vars(StartCycle) /\ WF_vars(ReadBatch \/ ReadFails)
  /\ WF_vars(Send \/ NotAcknowledged) /\ WF_vars(Drop \/ Settle \/ SettleUnsaved)
  /\ SF_vars(ReadBatch) /\ SF_vars(Send) /\ SF_vars(Acknowledged)
  /\ SF_vars(Settle /\ worker.answer = "ok")
  /\ WF_vars(UpdateFails \/ UpdateCommits) /\ WF_vars(AdoptUpdate)
  /\ WF_vars(Stop /\ up = "closed") /\ WF_vars(Restart)

Spec == Init /\ [][Next]_vars
FairSpec == Spec /\ Fairness

(***************************************************************************)
(* Properties                                                              *)
(***************************************************************************)
\* The export keeps the promise of AuditDelivery through crashes, lost answers,
\* unsaved checkpoints and settings changed in mid-flight: nothing recorded while
\* it is on is passed over, whatever order concurrent writers commit in, and
\* nothing is sent again once its outcome is in the checkpoint.
Delivery ==
  INSTANCE AuditDelivery WITH
    owed <- Owed, settled <- Effective.settled, on <- Effective.enabled

ImplementsDelivery == Delivery!Spec

\* "historical and disabled-period events are not exported"
\* (docs/audit-export.md:74), whichever update, crash or late answer follows.
DisabledPeriodsStayPrivate == quiet \intersect offered = {}

\* The values are of their types, and Accepted and Rejected of the status count
\* every settled event once, in memory and in any checkpoint a restart may find.
CountersMatchSettled ==
  TypeOK /\ \A c \in {mem, disk} : c.accepted + c.rejected = Cardinality(c.settled)

\* Every owed event is dealt with in the end (sent and settled, or dropped by
\* switching off or retention), unless a permanent refusal pauses the export.
BacklogDrains ==
  \A e \in Events : e \in Owed ~> (e \notin Owed \/ mem.blocked)
=============================================================================
