-------------------------- MODULE AuditExportProofs --------------------------
(***************************************************************************)
(* Proofs about the audit export, for any number of events and updates,    *)
(* any batch size and any number of stops of the process: what was         *)
(* recorded while the export was off stays private, the counters of every  *)
(* checkpoint are exact, and every step is one that AuditDelivery allows.  *)
(***************************************************************************)
EXTENDS AuditExport, FiniteSetTheorems, TLAPS

(***************************************************************************)
(* The inductive invariant                                                 *)
(***************************************************************************)
\* Ids below this one belong to inserts that have ended.
Low == IF inserting = {} THEN nextId ELSE nextId - 1

\* At most the latest id is being inserted; what was read from the table, or
\* counted, is older.
Ids ==
  /\ stored \subseteq Events /\ nextId \in 1..(MaxEvents + 1)
  /\ inserting \subseteq Events /\ inserting \in {{}, {nextId - 1}}
  /\ offered \subseteq Events /\ expired \subseteq Events /\ quiet \subseteq Events
  /\ \A e \in stored \union offered \union quiet : e < Low
  /\ updates \in 0..MaxUpdates /\ crashes \in 0..MaxCrashes
  /\ up \in {"up", "closed", "down"}

\* Of any checkpoint: what it counts as settled has left the table or is behind its
\* cursor.
SoundCheckpoint(c) ==
  /\ c \in Checkpoints
  /\ c.revision <= updates
  /\ c.cursor < Low
  /\ \A e \in c.settled : e < Low
  /\ c.accepted + c.rejected = Cardinality(c.settled)
  /\ \A e \in c.settled \intersect stored : e <= c.cursor

\* An enabled checkpoint is past what was recorded while the export was off.
PastQuiet(c) == c.enabled => \A e \in quiet \intersect stored : e <= c.cursor

\* The settings c succeed those in memory: switched on, off, or kept.
Succeeds(c) ==
  /\ c.settled = mem.settled
  /\ c.enabled =>
       IF mem.enabled THEN c.cursor = mem.cursor
                      ELSE \A e \in stored \intersect offered : e <= c.cursor

\* The checkpoint c settled one more batch than the one in memory.
AheadByABatch(c) ==
  /\ mem.enabled /\ c.enabled
  /\ mem.settled \subseteq c.settled
  /\ c.settled \ mem.settled \subseteq offered
  /\ \A e \in stored : e > c.cursor <=> (e > mem.cursor /\ e \notin c.settled \ mem.settled)

\* A cycle that is still live goes by the manager's state: its batch lies next to the
\* cursor, none of it is settled, and nothing between is left out.
LiveCycle ==
  /\ up = "up"
  /\ mem.enabled
  /\ worker.cursor = mem.cursor
  /\ worker.sent \intersect mem.settled = {}
  /\ \A e \in worker.sent : e > mem.cursor /\ e \in stored \union expired
  /\ \A e \in stored, x \in worker.sent : e > mem.cursor /\ e <= x => e \in worker.sent

HasOutcome == worker.stage = "answered" /\ worker.answer # "retry"

Worker ==
  /\ worker \in Cycles
  /\ \A e \in worker.audits : e < Low
  /\ worker.sent \subseteq worker.audits
  /\ worker.sent \intersect quiet = {}
  /\ worker.stage \in {"idle", "reading"} => worker.sent = {}
  /\ worker.stage \in {"read", "sent"} \/ HasOutcome => worker.sent # {}
  /\ worker.sent # {} => \E last \in worker.sent : \A e \in worker.sent : e <= last
  /\ Cardinality(worker.sent) <= BatchLimit
  /\ worker.stage = "answered" => worker.answer # "none"
  /\ worker.answer = "ok" => worker.refused <= Cardinality(worker.sent)
  /\ worker.stage = "sent" \/ HasOutcome => worker.sent \subseteq offered
  /\ worker.live => LiveCycle

Update ==
  update # Nothing =>
    /\ up = "up"
    /\ update \in [next : Checkpoints, written : BOOLEAN]
    /\ SoundCheckpoint(update.next) /\ PastQuiet(update.next) /\ Succeeds(update.next)
    /\ update.written => disk = update.next

ExportInv ==
  /\ Ids
  /\ SoundCheckpoint(mem) /\ SoundCheckpoint(disk)
  /\ PastQuiet(disk)
  /\ up # "down" => PastQuiet(mem) /\ (Succeeds(disk) \/ AheadByABatch(disk))
  /\ up = "down" => update = Nothing
  /\ Worker
  /\ Update
  /\ quiet \intersect offered = {}

(***************************************************************************)
(* Facts about the operators                                               *)
(***************************************************************************)
\* A greatest element, when there is one, is what Max picks.
LEMMA MaxIs ==
  ASSUME NEW S, NEW last \in S, \A e \in S : last >= e
  PROVE  Max(S) \in S /\ \A e \in S : Max(S) >= e
PROOF
  BY DEF Max

\* A nonempty set of numbers with an upper bound has a greatest element.
LEMMA GreatestExists ==
  ASSUME NEW n \in Nat, NEW S, S \subseteq 0..n, S # {}
  PROVE  \E last \in S : \A e \in S : last >= e
PROOF
  <1> DEFINE T == {n - e : e \in S}
  <1>1. T \subseteq Nat /\ T # {}
    <2>1. ASSUME NEW e \in S  PROVE n - e \in Nat
      <3>1. e \in Nat /\ e <= n  OBVIOUS
      <3> QED  BY <3>1
    <2>2. \A y \in T : \E e \in S : y = n - e  OBVIOUS
    <2>3. PICK e \in S : TRUE  OBVIOUS
    <2>4. n - e \in T  BY <2>3
    <2> QED  BY <2>1, <2>2, <2>4
  <1>2. PICK x \in T : \A y \in T : ~(<<y, x>> \in OpToRel(<, Nat))
    <2> HIDE DEF T
    <2> QED  BY <1>1, NatLessThanWellFounded, WFMin
  <1>3. \A y \in T : ~(y < x)
    BY <1>1, <1>2 DEF OpToRel
  <1>4. PICK last \in S : x = n - last  OBVIOUS
  <1>5. \A e \in S : n - e \in T  OBVIOUS
  <1>6. ASSUME NEW e \in S  PROVE last >= e
    <2>1. ~(n - e < n - last)  BY <1>3, <1>4, <1>5, <1>6
    <2> QED  BY <2>1, <1>6
  <1> QED  BY <1>6

LEMMA TailIsLast ==
  ASSUME stored \subseteq Events
  PROVE  /\ Tail \in stored \union {0}
         /\ \A e \in stored : e <= Tail
PROOF
  <1>1. MaxEvents \in Nat  BY BoundsAreNaturals
  <1>2. stored \union {0} \subseteq 0..MaxEvents  BY <1>1 DEF Events
  <1>3. PICK last \in stored \union {0} : \A e \in stored \union {0} : last >= e
    BY <1>1, <1>2, GreatestExists
  <1>4. /\ Tail \in stored \union {0}
        /\ \A e \in stored \union {0} : Tail >= e
    BY <1>3, MaxIs DEF Tail
  <1> QED  BY <1>2, <1>4

LEMMA EventsAreFinite ==
  ASSUME NEW S, S \subseteq Events
  PROVE  IsFiniteSet(S) /\ Cardinality(S) \in Nat
PROOF
  <1>1. 1 \in Int /\ MaxEvents \in Int  BY BoundsAreNaturals
  <1>2. IsFiniteSet(Events)  BY <1>1, FS_Interval DEF Events
  <1>3. IsFiniteSet(S)  BY <1>2, FS_Subset
  <1> QED  BY <1>3, FS_CardinalityType

LEMMA SmallerRank ==
  ASSUME NEW rows, rows \subseteq Events, NEW d \in rows, NEW e \in rows, d < e
  PROVE  Cardinality({c \in rows : c < d}) < Cardinality({c \in rows : c < e})
PROOF
  <1> DEFINE D == {c \in rows : c < d}
             E == {c \in rows : c < e}
  <1>1. D \subseteq E /\ D # E /\ D \subseteq Events /\ E \subseteq Events
    <2>1. rows \subseteq Int  BY BoundsAreNaturals DEF Events
    <2>2. d \in E /\ d \notin D  BY <2>1
    <2>3. \A c \in rows : c < d => c < e  BY <2>1
    <2> QED  BY <2>2, <2>3
  <1> HIDE DEF D, E
  <1>2. IsFiniteSet(E) /\ Cardinality(D) \in Nat /\ Cardinality(E) \in Nat
    BY <1>1, EventsAreFinite
  <1>3. Cardinality(D) <= Cardinality(E) /\ Cardinality(D) # Cardinality(E)
    BY <1>1, <1>2, FS_Subset
  <1>4. Cardinality(D) < Cardinality(E)  BY <1>2, <1>3
  <1> QED  BY <1>4 DEF D, E

\* A page lies above the cursor, leaves out no row before its last and holds at
\* most a batch.
LEMMA PageIsNext ==
  ASSUME stored \subseteq Events, NEW cursor \in 0..MaxEvents
  PROVE  /\ Page(cursor) \subseteq {e \in stored : e > cursor}
         /\ \A e \in stored, x \in Page(cursor) :
               e > cursor /\ e <= x => e \in Page(cursor)
         /\ Cardinality(Page(cursor)) <= BatchLimit
PROOF
  <1> DEFINE rows == {e \in stored : e > cursor}
             rank(e) == Cardinality({d \in rows : d < e})
  <1>1. rows \subseteq Events  OBVIOUS
  <1>2. Page(cursor) = {e \in rows : rank(e) < BatchLimit}  BY DEF Page
  <1>3. \A e \in rows : rank(e) \in Nat
    <2> TAKE e \in rows
    <2>1. {d \in rows : d < e} \subseteq Events  BY <1>1
    <2> QED  BY <2>1, EventsAreFinite
  <1>4. \A d, e \in rows : d < e => rank(d) < rank(e)
    <2> HIDE DEF rows
    <2> TAKE d, e \in rows
    <2> HAVE d < e
    <2> QED  BY <1>1, SmallerRank
  <1>a. \A d, e \in rows : d < e \/ d = e \/ e < d
    BY <1>1, BoundsAreNaturals DEF Events
  <1>b. \A d, e \in rows : d <= e => d < e \/ d = e
    BY <1>1, BoundsAreNaturals DEF Events
  <1>c. BatchLimit \in Nat  BY BatchLimitPositive
  <1>d. \A e \in stored : e > cursor => e \in rows  OBVIOUS
  <1>e. rows \subseteq {e \in stored : e > cursor}  OBVIOUS
  <1> HIDE DEF rows, rank
  <1>5. ASSUME NEW e \in rows, NEW x \in Page(cursor), e <= x
        PROVE  e \in Page(cursor)
    BY <1>2, <1>3, <1>4, <1>5, <1>b, <1>c
  <1>6. Cardinality(Page(cursor)) <= BatchLimit
    <2> DEFINE f == [e \in Page(cursor) |-> rank(e)]
    <2>1. f \in [Page(cursor) -> 0..(BatchLimit - 1)]
      BY <1>2, <1>3, <1>c
    <2>2. \A d, e \in Page(cursor) : f[d] = f[e] => d = e
      BY <1>2, <1>3, <1>4, <1>a
    <2> HIDE DEF f
    <2>3. f \in Injection(Page(cursor), 0..(BatchLimit - 1))
      BY <2>1, <2>2 DEF Injection, IsInjective
    <2>4. IsFiniteSet(0..(BatchLimit - 1)) /\ Cardinality(0..(BatchLimit - 1)) = BatchLimit
      BY <1>c, FS_Interval, BatchLimitPositive
    <2> QED  BY <2>3, <2>4, FS_Injection
  <1> QED  BY <1>2, <1>5, <1>6, <1>d, <1>e

\* Counting the events of a batch none of which was counted before.
LEMMA CountsAdd ==
  ASSUME NEW S, NEW T, S \subseteq Events, T \subseteq Events, S \intersect T = {}
  PROVE  Cardinality(S \union T) = Cardinality(S) + Cardinality(T)
PROOF
  <1>1. /\ IsFiniteSet(S) /\ Cardinality(S) \in Nat
        /\ IsFiniteSet(T) /\ Cardinality(T) \in Nat
    BY EventsAreFinite
  <1> QED  BY <1>1, FS_Union, FS_EmptySet

LEMMA LowIsPositive ==
  ASSUME Ids
  PROVE  Low \in Nat /\ Low > 0
PROOF
  BY BoundsAreNaturals DEF Ids, Low, Events

(***************************************************************************)
(* Steps of the audit table                                                *)
(***************************************************************************)
LEMMA InsertKeeps ==
  ASSUME ExportInv, Insert
  PROVE  ExportInv'
PROOF
  <1>1. Ids'
    BY BoundsAreNaturals DEF Insert, ExportInv, Ids, Low, Events
  <1>2. /\ \A e : e < Low => e < Low'
        /\ UNCHANGED <<stored, mem, disk, up, update, worker, updates, offered, expired, quiet>>
    BY DEF Insert, ExportInv, Ids, Low
  <1>3. SoundCheckpoint(mem)' /\ SoundCheckpoint(disk)'
    BY <1>2 DEF ExportInv, SoundCheckpoint
  <1>4. Worker'
    BY <1>2 DEF ExportInv, Worker, HasOutcome, LiveCycle
  <1>5. Update'
    BY <1>2 DEF ExportInv, Update, SoundCheckpoint, PastQuiet, Succeeds
  <1> QED
    BY <1>1, <1>2, <1>3, <1>4, <1>5 DEF ExportInv, PastQuiet, Succeeds, AheadByABatch

LEMMA AbortKeeps ==
  ASSUME ExportInv, NEW e \in Events, Abort(e)
  PROVE  ExportInv'
PROOF
  <1>1. Ids'
    BY BoundsAreNaturals DEF Abort, ExportInv, Ids, Low, Events
  <1>2. /\ Low' = nextId /\ Low < Low'
        /\ UNCHANGED <<stored, mem, disk, up, update, worker, updates, offered, expired, quiet>>
    BY BoundsAreNaturals DEF Abort, ExportInv, Ids, Low, Events
  <1>3. \A d \in Int : d < Low => d < Low'
    BY <1>2, LowIsPositive, BoundsAreNaturals DEF ExportInv, Ids
  <1>4. SoundCheckpoint(mem)' /\ SoundCheckpoint(disk)'
    BY <1>2, <1>3, BoundsAreNaturals DEF ExportInv, SoundCheckpoint, Checkpoints, Events
  <1>5. Worker'
    BY <1>2, <1>3, BoundsAreNaturals
       DEF ExportInv, Worker, HasOutcome, LiveCycle, Cycles, Events
  <1>6. Update'
    BY <1>2, <1>3, BoundsAreNaturals
       DEF ExportInv, Update, SoundCheckpoint, PastQuiet, Succeeds, Checkpoints, Events
  <1> QED
    BY <1>1, <1>2, <1>4, <1>5, <1>6 DEF ExportInv, PastQuiet, Succeeds, AheadByABatch

LEMMA CommitKeeps ==
  ASSUME ExportInv, NEW e \in Events, Commit(e)
  PROVE  ExportInv'
PROOF
  <1>1. /\ e = Low /\ Low' = Low + 1 /\ Low \in Nat
        /\ stored' = stored \union {e} /\ quiet' \subseteq quiet \union {e}
        /\ UNCHANGED <<mem, disk, up, update, worker, updates, offered, expired>>
    BY BoundsAreNaturals DEF Commit, ExportInv, Ids, Low, Events
  <1>2. \A d \in Int : d < Low => d < Low'  BY <1>1
  <1>3. Ids'
    BY <1>1, BoundsAreNaturals DEF Commit, ExportInv, Ids, Low, Events
  \* what is counted or has been read is older
  <1>4. ASSUME NEW c, SoundCheckpoint(c)
        PROVE  SoundCheckpoint(c)'
    <2>1. c.cursor \in Nat /\ c.settled \subseteq Int
      BY <1>4, BoundsAreNaturals DEF SoundCheckpoint, Checkpoints, Events
    <2>2. e \notin c.settled  BY <1>1, <1>4 DEF SoundCheckpoint
    <2> QED  BY <1>1, <1>2, <1>4, <2>1, <2>2 DEF SoundCheckpoint
  <1>5. SoundCheckpoint(mem)' /\ SoundCheckpoint(disk)'
    BY <1>1, <1>4 DEF ExportInv, SoundCheckpoint
  <1>6. e \notin offered /\ e \notin worker.sent
    BY <1>1 DEF ExportInv, Ids, Worker
  <1>7. /\ PastQuiet(disk)' /\ (up # "down" => PastQuiet(mem)')
        /\ update # Nothing => PastQuiet(update.next)'
    <2>1. CASE Off
      <3>1. ~disk.enabled /\ (up # "down" => ~mem.enabled)
            /\ (update # Nothing => ~update.next.enabled)
        BY <2>1 DEF Off, Effective
      <3> QED  BY <1>1, <3>1 DEF PastQuiet
    <2>2. CASE ~Off
      <3>1. quiet' = quiet  BY <2>2 DEF Commit
      <3>2. e \notin quiet  BY <1>1 DEF ExportInv, Ids
      <3> QED  BY <1>1, <3>1, <3>2 DEF ExportInv, PastQuiet, Update
    <2> QED  BY <2>1, <2>2
  <1>8. ASSUME NEW c, Succeeds(c)  PROVE Succeeds(c)'
    BY <1>1, <1>6, <1>8 DEF Succeeds
  <1>9. ASSUME NEW c, AheadByABatch(c), SoundCheckpoint(c)  PROVE AheadByABatch(c)'
    <2>1. c.cursor < e /\ mem.cursor < e /\ e \notin c.settled
      BY <1>1, <1>9 DEF ExportInv, SoundCheckpoint
    <2>2. c.cursor \in Nat /\ mem.cursor \in Nat /\ e \in Nat
      BY <1>1, <1>9, BoundsAreNaturals DEF ExportInv, SoundCheckpoint, Checkpoints
    <2> QED  BY <1>1, <1>9, <2>1, <2>2 DEF AheadByABatch
  <1>10. up # "down" => Succeeds(disk)' \/ AheadByABatch(disk)'
    BY <1>1, <1>8, <1>9 DEF ExportInv, Succeeds, AheadByABatch
  <1>11. Worker'
    <2>1. worker.audits \subseteq Int /\ worker \in Cycles
      BY BoundsAreNaturals DEF ExportInv, Worker, Cycles, Events
    <2>2. worker.live => LiveCycle'
      <3> SUFFICES ASSUME worker.live  PROVE LiveCycle'
        OBVIOUS
      <3>1. LiveCycle  BY DEF ExportInv, Worker
      <3>2. \A x \in worker.sent : x < e /\ x \in Int
        BY <1>1, <2>1 DEF ExportInv, Worker
      <3>3. \A x \in worker.sent : ~(e <= x)  BY <1>1, <3>2
      <3> QED  BY <1>1, <3>1, <3>3 DEF LiveCycle
    <2> QED  BY <1>1, <1>2, <1>6, <2>1, <2>2 DEF ExportInv, Worker, HasOutcome
  <1>12. Update'
    BY <1>1, <1>4, <1>7, <1>8 DEF ExportInv, Update, SoundCheckpoint, PastQuiet, Succeeds
  <1>13. (quiet \intersect offered = {})'
    BY <1>1, <1>6 DEF ExportInv
  <1> QED
    BY <1>1, <1>3, <1>5, <1>7, <1>10, <1>11, <1>12, <1>13 DEF ExportInv

LEMMA CleanupKeeps ==
  ASSUME ExportInv, NEW e \in Events, Cleanup(e)
  PROVE  ExportInv'
PROOF
  <1>1. /\ stored' = stored \ {e} /\ expired \subseteq expired'
        /\ UNCHANGED <<nextId, inserting, mem, disk, up, update, worker, updates, crashes,
                       offered, quiet>>
    BY DEF Cleanup
  <1>2. Ids'
    BY <1>1 DEF Cleanup, ExportInv, Ids, Low, Events
  <1>3. /\ SoundCheckpoint(mem)' /\ SoundCheckpoint(disk)'
        /\ PastQuiet(disk)' /\ (up # "down" => PastQuiet(mem)')
        /\ up # "down" => Succeeds(disk)' \/ AheadByABatch(disk)'
    BY <1>1 DEF ExportInv, SoundCheckpoint, PastQuiet, Succeeds, AheadByABatch, Low
  <1>4. Update'
    BY <1>1 DEF ExportInv, Update, SoundCheckpoint, PastQuiet, Succeeds, Low
  \* an event of the batch that is removed was owed
  <1>5. worker.live => LiveCycle'
    <2> SUFFICES ASSUME worker.live  PROVE LiveCycle'
      OBVIOUS
    <2>1. LiveCycle  BY DEF ExportInv, Worker
    <2>2. e \in worker.sent => e \in expired'
      BY <2>1 DEF Cleanup, LiveCycle, Owed, Effective
    <2>3. worker.sent \subseteq stored' \union expired'
      BY <1>1, <2>1, <2>2 DEF LiveCycle
    <2> QED  BY <1>1, <2>1, <2>3 DEF LiveCycle
  <1>6. Worker'
    BY <1>1, <1>5 DEF ExportInv, Worker, HasOutcome, Low
  <1> QED  BY <1>1, <1>2, <1>3, <1>4, <1>6 DEF ExportInv

(***************************************************************************)
(* Steps of the worker                                                     *)
(***************************************************************************)
LEMMA NoCycleIsFine ==
  ASSUME worker' = NoCycle
  PROVE  Worker'
PROOF
  BY BoundsAreNaturals, BatchLimitPositive, FS_EmptySet
     DEF NoCycle, Cycles, HasOutcome, Worker

\* A step that changes only the cycle.
LEMMA OnlyTheWorker ==
  ASSUME ExportInv, Worker', UNCHANGED <<stored, nextId, inserting, mem, disk, up, update,
                                         updates, crashes, offered, expired, quiet>>
  PROVE  ExportInv'
PROOF
  <1>1. Low' = Low  BY DEF Low
  <1> QED
    BY <1>1 DEF ExportInv, Ids, SoundCheckpoint, PastQuiet, Succeeds, AheadByABatch, Update

LEMMA StartCycleKeeps ==
  ASSUME ExportInv, StartCycle
  PROVE  ExportInv'
PROOF
  <1>1. mem.revision \in 0..MaxUpdates /\ mem.cursor \in 0..MaxEvents /\ 0 \in 0..BatchLimit
    BY BatchLimitPositive DEF ExportInv, SoundCheckpoint, Checkpoints
  <1>2. worker' \in Cycles
    BY <1>1 DEF StartCycle, NoCycle, Cycles
  <1>3. /\ worker'.live /\ worker'.stage = "reading" /\ worker'.audits = {}
        /\ worker'.sent = {} /\ worker'.answer = "none" /\ worker'.cursor = mem.cursor
        /\ UNCHANGED <<stored, nextId, inserting, mem, disk, up, update, updates, crashes,
                       offered, expired, quiet>>
        /\ up = "up" /\ mem.enabled
    BY DEF StartCycle, NoCycle, tableVars
  <1>4. LiveCycle'
    BY <1>3 DEF LiveCycle
  <1>5. Worker'
    BY <1>2, <1>3, <1>4, FS_EmptySet, BatchLimitPositive DEF Worker, HasOutcome
  <1> QED  BY <1>3, <1>5, OnlyTheWorker

\* The page read is the next one of a cycle that is live.
LEMMA ReadBatchWorker ==
  ASSUME ExportInv, ReadBatch
  PROVE  Worker'
PROOF
  <1> DEFINE page == Page(worker.cursor)
  <1>1. CASE worker' = NoCycle
    BY <1>1, NoCycleIsFine
  <1>2. CASE page # {} /\ \E last \in page :
               worker' = [worker EXCEPT !.stage = "read", !.audits = page,
                                        !.sent = {e \in page : e <= last}]
    <2>1. PICK last \in page :
            worker' = [worker EXCEPT !.stage = "read", !.audits = page,
                                     !.sent = {e \in page : e <= last}]
      BY <1>2
    <2>2. worker \in Cycles /\ stored \subseteq Events /\ worker.cursor \in 0..MaxEvents
      BY DEF ExportInv, Worker, Ids, Cycles
    <2>3. /\ page \subseteq {e \in stored : e > worker.cursor}
          /\ \A e \in stored, x \in page : e > worker.cursor /\ e <= x => e \in page
          /\ Cardinality(page) <= BatchLimit
      BY <2>2, PageIsNext
    <2>4. worker.live /\ worker.stage = "reading"  BY DEF ReadBatch
    <2>5. UNCHANGED <<stored, inserting, nextId, mem, up, expired, offered, quiet>>
      BY DEF ReadBatch, tableVars
    <2>6. /\ worker'.audits = page /\ worker'.sent = {e \in page : e <= last}
          /\ worker'.stage = "read" /\ worker'.cursor = worker.cursor
          /\ worker'.answer = worker.answer /\ worker'.live = worker.live
          /\ worker'.refused = worker.refused
      BY <2>1, <2>2 DEF Cycles
    <2>7. worker.sent = {}  BY <2>4 DEF ExportInv, Worker
    <2> DEFINE sent == {e \in page : e <= last}
    <2>8. sent \subseteq page /\ last \in sent /\ page \subseteq Events /\ last \in Nat
      <3>1. page \subseteq Events  BY <2>2, <2>3
      <3>2. last \in Nat /\ last <= last  BY <3>1, BoundsAreNaturals DEF Events
      <3> QED  BY <3>1, <3>2
    <2>9. worker' \in Cycles
      BY <2>1, <2>2, <2>8 DEF Cycles
    <2>10. \A e \in page : e < Low'
      BY <2>3, <2>5 DEF ExportInv, Ids, Low
    <2>11. Cardinality(sent) <= BatchLimit
      <3>1. IsFiniteSet(page) /\ Cardinality(page) \in Nat /\ Cardinality(sent) \in Nat
        BY <2>8, EventsAreFinite
      <3>2. Cardinality(sent) <= Cardinality(page)
        BY <2>8, <3>1, FS_Subset
      <3> QED  BY <2>3, <3>1, <3>2, BatchLimitPositive
    <2>12. worker.answer = "ok" => worker.refused <= Cardinality(sent)
      <3>1. worker.answer = "ok" => worker.refused <= Cardinality({})
        BY <2>7 DEF ExportInv, Worker
      <3>2. worker.refused \in Nat /\ Cardinality(sent) \in Nat
        BY <2>2, <2>8, EventsAreFinite, BatchLimitPositive DEF Cycles
      <3> QED  BY <3>1, <3>2, FS_EmptySet
    <2>13. LiveCycle /\ \A e \in stored \intersect quiet : e <= mem.cursor
      BY <2>4 DEF ExportInv, Worker, LiveCycle, PastQuiet
    <2>14. sent \intersect quiet = {} /\ sent \intersect mem.settled = {}
      <3>1. \A e \in sent : e \in stored /\ e > mem.cursor /\ e \in Nat
        BY <2>3, <2>8, <2>13, BoundsAreNaturals DEF LiveCycle, Events
      <3>2. mem.cursor \in Nat /\ \A e \in stored \intersect mem.settled : e <= mem.cursor
        BY DEF ExportInv, SoundCheckpoint, Checkpoints
      <3> QED  BY <2>13, <3>1, <3>2
    <2>15. LiveCycle'
      <3>1. \A e \in sent : e > mem.cursor /\ e \in stored
        BY <2>3, <2>8, <2>13 DEF LiveCycle
      <3>2. \A e \in stored, x \in sent : e > mem.cursor /\ e <= x => e \in sent
        <4>1. stored \subseteq Nat /\ page \subseteq Nat
          BY <2>2, <2>8, BoundsAreNaturals DEF Events
        <4>2. \A e \in stored, x \in page : e > mem.cursor /\ e <= x => e \in page
          BY <2>3, <2>13 DEF LiveCycle
        <4> QED  BY <4>1, <4>2, <2>8
      <3> QED  BY <2>5, <2>6, <2>13, <2>14, <3>1, <3>2 DEF LiveCycle
    <2> QED
      BY <2>5, <2>6, <2>8, <2>9, <2>10, <2>11, <2>12, <2>14, <2>15 DEF Worker, HasOutcome
  <1> QED  BY <1>1, <1>2 DEF ReadBatch

LEMMA ReadBatchKeeps ==
  ASSUME ExportInv, ReadBatch
  PROVE  ExportInv'
PROOF
  BY ReadBatchWorker, OnlyTheWorker DEF ReadBatch, tableVars

\* The batch has its outcome, or has none and will be sent again.
LEMMA AnswerKeeps ==
  ASSUME ExportInv, ReadFails \/ Acknowledged \/ NotAcknowledged
  PROVE  ExportInv'
PROOF
  <1>1. /\ UNCHANGED <<stored, nextId, inserting, mem, disk, up, update, updates, crashes,
                       offered, expired, quiet>>
        /\ worker.stage \in {"reading", "read", "sent"}
    BY DEF ReadFails, Acknowledged, NotAcknowledged, tableVars
  <1>2. worker \in Cycles /\ Cardinality(worker.sent) \in Nat
    BY EventsAreFinite DEF ExportInv, Worker, Cycles
  <1>3. PICK answer \in {"ok", "retry", "permanent"}, n \in 0..BatchLimit :
          /\ worker' = [worker EXCEPT !.stage = "answered", !.answer = answer, !.refused = n]
          /\ answer = "ok" => n <= Cardinality(worker.sent)
          /\ answer # "retry" => worker.stage = "sent"
    <2>1. CASE Acknowledged
      <3>1. PICK n \in 0..Cardinality(worker.sent) :
              worker' = [worker EXCEPT !.stage = "answered", !.answer = "ok", !.refused = n]
        BY <2>1 DEF Acknowledged
      <3>2. n \in 0..BatchLimit /\ n <= Cardinality(worker.sent)
        BY <1>2, BatchLimitPositive DEF ExportInv, Worker
      <3> QED  BY <2>1, <3>1, <3>2 DEF Acknowledged
    <2>2. CASE ReadFails \/ NotAcknowledged
      <3>1. worker.refused \in 0..BatchLimit  BY <1>2 DEF Cycles
      <3>2. \A answer : [worker EXCEPT !.stage = "answered", !.answer = answer]
                        = [worker EXCEPT !.stage = "answered", !.answer = answer,
                                         !.refused = worker.refused]
        BY <1>2 DEF Cycles
      <3>3. \E answer \in {"retry", "permanent"} :
              /\ worker' = [worker EXCEPT !.stage = "answered", !.answer = answer]
              /\ answer # "retry" => worker.stage = "sent"
        BY <2>2 DEF ReadFails, NotAcknowledged
      <3> QED  BY <3>1, <3>2, <3>3
    <2> QED  BY <2>1, <2>2
  <1>4. /\ worker'.stage = "answered" /\ worker'.answer = answer /\ worker'.refused = n
        /\ worker'.live = worker.live /\ worker'.cursor = worker.cursor
        /\ worker'.sent = worker.sent /\ worker'.audits = worker.audits
    BY <1>2, <1>3 DEF Cycles
  <1>5. worker' \in Cycles
    BY <1>2, <1>3 DEF Cycles
  <1>6. worker'.live => LiveCycle'
    BY <1>1, <1>4 DEF ExportInv, Worker, LiveCycle
  <1>7. Worker'
    BY <1>1, <1>3, <1>4, <1>5, <1>6 DEF ExportInv, Worker, HasOutcome, Low
  <1> QED  BY <1>1, <1>7, OnlyTheWorker

\* What is sent was not recorded while the export was off.
LEMMA SendKeeps ==
  ASSUME ExportInv, Send
  PROVE  ExportInv'
PROOF
  <1>1. /\ UNCHANGED <<stored, nextId, inserting, mem, disk, up, update, updates, crashes,
                       expired, quiet>>
        /\ offered' = offered \union worker.sent
        /\ worker' = [worker EXCEPT !.stage = "sent"]
        /\ worker.stage = "read"
    BY DEF Send, tableVars
  <1>2. LiveCycle /\ worker \in Cycles
    BY DEF ExportInv, Worker, Send
  <1>3. /\ worker'.stage = "sent" /\ worker'.answer = worker.answer
        /\ worker'.refused = worker.refused
        /\ worker'.live = worker.live /\ worker'.cursor = worker.cursor
        /\ worker'.sent = worker.sent /\ worker'.audits = worker.audits
        /\ worker' \in Cycles
    BY <1>1, <1>2 DEF Cycles
  <1>4. Low' = Low  BY <1>1 DEF Low
  <1>5. Ids'
    BY <1>1, <1>2, <1>4 DEF ExportInv, Ids, Worker, Cycles
  <1>6. LiveCycle'
    BY <1>1, <1>2, <1>3 DEF LiveCycle
  <1>7. Worker'
    BY <1>1, <1>3, <1>4, <1>6 DEF ExportInv, Worker, HasOutcome
  <1>8. (quiet \intersect offered = {})'
    BY <1>1 DEF ExportInv, Worker
  <1>9. mem.enabled  BY <1>2 DEF LiveCycle
  <1>10. /\ SoundCheckpoint(mem)' /\ SoundCheckpoint(disk)'
         /\ PastQuiet(disk)' /\ PastQuiet(mem)'
         /\ Succeeds(disk)' \/ AheadByABatch(disk)'
    BY <1>1, <1>2, <1>4, <1>9
       DEF ExportInv, SoundCheckpoint, PastQuiet, Succeeds, AheadByABatch, LiveCycle
  <1>11. Update'
    BY <1>1, <1>4, <1>9 DEF ExportInv, Update, SoundCheckpoint, PastQuiet, Succeeds
  <1> QED  BY <1>1, <1>5, <1>7, <1>8, <1>10, <1>11 DEF ExportInv

LEMMA DropKeeps ==
  ASSUME ExportInv, Drop
  PROVE  ExportInv'
PROOF
  BY NoCycleIsFine, OnlyTheWorker DEF Drop, tableVars

\* What a settled batch leaves as the checkpoint: the cursor is at its last event,
\* which was the next event not settled.
LEMMA OutcomeIsSound ==
  ASSUME ExportInv, Answered, StillCurrent
  PROVE  /\ SoundCheckpoint(Outcome)
         /\ PastQuiet(Outcome)
         /\ Succeeds(Outcome) \/ AheadByABatch(Outcome)
PROOF
  <1>1. CASE worker.answer = "retry"
    <2>1. Outcome = mem  BY <1>1 DEF Outcome, OutcomeOf
    <2> QED  BY <2>1 DEF ExportInv, Answered, Succeeds
  <1>2. CASE worker.answer # "retry"
    <2>1. HasOutcome /\ worker.live /\ up = "up"
      BY <1>2 DEF Answered, StillCurrent, HasOutcome
    <2>2. LiveCycle /\ worker.sent # {} /\ worker.sent \subseteq offered
      BY <2>1 DEF ExportInv, Worker
    <2>3. worker \in Cycles /\ mem \in Checkpoints /\ stored \subseteq Events
      BY DEF ExportInv, Worker, SoundCheckpoint, Ids
    <2> DEFINE last == Max(worker.sent)
               n == Cardinality(worker.sent)
               refused == IF worker.answer = "permanent" THEN n ELSE worker.refused
    <2>4. last \in worker.sent /\ \A e \in worker.sent : last >= e
      <3>1. \E x \in worker.sent : \A e \in worker.sent : e <= x
        BY <2>2 DEF ExportInv, Worker
      <3>2. worker.sent \subseteq Int
        BY <2>3, BoundsAreNaturals DEF Cycles, Events
      <3> QED  BY <3>1, <3>2, MaxIs
    <2>5. n \in Nat  BY <2>3, EventsAreFinite DEF Cycles
    <2>6. refused \in 0..n
      <3>1. worker.answer = "ok" => worker.refused \in Nat /\ worker.refused <= n
        BY <2>3, BatchLimitPositive DEF ExportInv, Worker, Cycles
      <3>2. worker.answer \in {"none", "ok", "retry", "permanent"}  BY <2>3 DEF Cycles
      <3>3. worker.answer # "none"  BY <2>1 DEF ExportInv, Worker, HasOutcome, Answered
      <3> QED  BY <1>2, <2>5, <3>1, <3>2, <3>3
    <2> HIDE DEF last, n, refused
    <2>7. Outcome = [mem EXCEPT !.cursor = last, !.blocked = worker.answer = "permanent",
                                !.accepted = mem.accepted + n - refused,
                                !.rejected = mem.rejected + refused,
                                !.settled = mem.settled \union worker.sent]
      BY <1>2 DEF Outcome, OutcomeOf, last, n, refused
    <2>8. /\ Outcome.enabled = mem.enabled /\ Outcome.revision = mem.revision
          /\ Outcome.cursor = last
          /\ Outcome.accepted = mem.accepted + n - refused
          /\ Outcome.rejected = mem.rejected + refused
          /\ Outcome.settled = mem.settled \union worker.sent
      BY <2>3, <2>7 DEF Checkpoints
    <2>9. /\ mem.cursor \in Nat /\ mem.accepted \in Nat /\ mem.rejected \in Nat
          /\ mem.settled \subseteq Events /\ worker.sent \subseteq Events
          /\ last \in Events /\ stored \subseteq Nat /\ last \in Nat
      BY <2>3, <2>4, BoundsAreNaturals DEF Checkpoints, Cycles, Events
    <2>10. Outcome \in Checkpoints
      <3>1. mem.accepted + n - refused \in Nat /\ mem.rejected + refused \in Nat
        BY <2>5, <2>6, <2>9
      <3>2. last \in 0..MaxEvents  BY <2>9, BoundsAreNaturals DEF Events
      <3> QED  BY <2>3, <2>7, <2>9, <3>1, <3>2 DEF Checkpoints
    <2>11. mem.cursor < last /\ mem.settled \intersect worker.sent = {}
      BY <2>2, <2>4, <2>9 DEF LiveCycle
    <2>12. Outcome.accepted + Outcome.rejected = Cardinality(Outcome.settled)
      <3>1. Cardinality(mem.settled \union worker.sent) = Cardinality(mem.settled) + n
        BY <2>9, <2>11, CountsAdd DEF n
      <3>2. Cardinality(mem.settled) = mem.accepted + mem.rejected
        BY DEF ExportInv, SoundCheckpoint
      <3> QED  BY <2>5, <2>6, <2>8, <2>9, <3>1, <3>2
    <2>13. /\ last < Low /\ \A e \in Outcome.settled : e < Low
      <3>1. \A e \in worker.sent : e < Low  BY DEF ExportInv, Worker
      <3>2. \A e \in mem.settled : e < Low  BY DEF ExportInv, SoundCheckpoint
      <3> QED  BY <2>4, <2>8, <3>1, <3>2
    <2>14. \A e \in Outcome.settled \intersect stored : e <= last
      <3>1. \A e \in mem.settled \intersect stored : e <= mem.cursor
        BY DEF ExportInv, SoundCheckpoint
      <3>2. ASSUME NEW e \in mem.settled \intersect stored  PROVE e <= last
        <4>1. e \in Nat /\ e <= mem.cursor  BY <2>9, <3>1
        <4> QED  BY <2>9, <2>11, <4>1
      <3> QED  BY <2>4, <2>8, <2>9, <3>2
    <2>15. SoundCheckpoint(Outcome)
      <3>1. mem.revision <= updates  BY DEF ExportInv, SoundCheckpoint
      <3> QED  BY <2>8, <2>10, <2>12, <2>13, <2>14, <3>1 DEF SoundCheckpoint
    <2>16. PastQuiet(Outcome)
      <3>1. \A e \in quiet \intersect stored : e <= mem.cursor
        BY <2>1, <2>2 DEF ExportInv, PastQuiet, LiveCycle
      <3>2. ASSUME NEW e \in quiet \intersect stored  PROVE e <= last
        <4>1. e \in Nat /\ e <= mem.cursor  BY <2>9, <3>1
        <4> QED  BY <2>9, <2>11, <4>1
      <3> QED  BY <2>8, <3>2 DEF PastQuiet
    <2>17. AheadByABatch(Outcome)
      <3>1. Outcome.settled \ mem.settled = worker.sent
        BY <2>8, <2>11
      <3>2. ASSUME NEW e \in stored
            PROVE  e > last <=> e > mem.cursor /\ e \notin worker.sent
        <4>1. e \in Nat  BY <2>9
        <4>2. e > mem.cursor /\ e <= last => e \in worker.sent
          BY <2>2, <2>4 DEF LiveCycle
        <4> QED  BY <2>4, <2>9, <2>11, <4>1, <4>2
      <3> QED  BY <2>2, <2>8, <3>1, <3>2 DEF AheadByABatch, LiveCycle
    <2> QED  BY <2>15, <2>16, <2>17
  <1> QED  BY <1>1, <1>2

LEMMA SettleKeeps ==
  ASSUME ExportInv, Settle \/ SettleUnsaved
  PROVE  ExportInv'
PROOF
  <1> DEFINE out == Outcome
  <1>1. /\ SoundCheckpoint(out) /\ PastQuiet(out)
        /\ Succeeds(out) \/ AheadByABatch(out)
    BY OutcomeIsSound DEF Settle, SettleUnsaved
  <1>2. /\ UNCHANGED <<stored, nextId, inserting, up, update, updates, crashes, offered,
                       expired, quiet>>
        /\ worker' = NoCycle
        /\ mem' \in {mem, out} /\ disk' \in {disk, out}
        /\ mem' = mem \/ disk' = mem'
        /\ up # "down" /\ update = Nothing
    BY DEF Settle, SettleUnsaved, Answered, tableVars
  <1>3. PICK o : o = out  OBVIOUS
  <1>4. /\ SoundCheckpoint(o) /\ PastQuiet(o)
        /\ Succeeds(o) \/ AheadByABatch(o)
    BY <1>1, <1>3
  <1>5. /\ mem' = mem \/ mem' = o
        /\ disk' = disk \/ disk' = o
        /\ mem' = mem \/ disk' = mem'
    BY <1>2, <1>3
  <1> HIDE DEF out
  <1>6. Ids'  BY <1>2 DEF ExportInv, Ids, Low
  <1>7. SoundCheckpoint(o)' /\ SoundCheckpoint(mem)' /\ SoundCheckpoint(disk)'
    BY <1>2, <1>4, <1>5 DEF ExportInv, SoundCheckpoint, Low
  <1>8. PastQuiet(mem)' /\ PastQuiet(disk)'
    BY <1>2, <1>4, <1>5 DEF ExportInv, PastQuiet
  <1>9. Succeeds(disk)' \/ AheadByABatch(disk)'
    <2>1. CASE mem' = mem
      BY <1>2, <1>4, <1>5, <2>1 DEF ExportInv, Succeeds, AheadByABatch
    <2>2. CASE disk' = mem'
      BY <2>2, <1>2, <1>8 DEF Succeeds
    <2> QED  BY <1>5, <2>1, <2>2
  <1>10. Worker'  BY <1>2, NoCycleIsFine
  <1> QED  BY <1>2, <1>6, <1>7, <1>8, <1>9, <1>10 DEF ExportInv, Update

(***************************************************************************)
(* Steps of the settings                                                   *)
(***************************************************************************)
\* The settings begun start where those in memory stand, or at the tail.
LEMMA BeginUpdateKeeps ==
  ASSUME ExportInv, NEW enabled \in BOOLEAN, BeginUpdate(enabled)
  PROVE  ExportInv'
PROOF
  <1>1. PICK next : next = NewSettings(enabled)  OBVIOUS
  <1>2. PICK tail : tail = Tail  OBVIOUS
  <1>3. tail \in stored \union {0} /\ \A e \in stored : e <= tail
    BY <1>2, TailIsLast DEF ExportInv, Ids
  <1>4. next = [mem EXCEPT !.enabled = enabled, !.revision = mem.revision + 1,
                           !.blocked = FALSE,
                           !.cursor = IF mem.enabled /\ enabled THEN mem.cursor ELSE tail]
    BY <1>1, <1>2 DEF NewSettings
  <1>5. mem \in Checkpoints /\ mem.revision \in Nat /\ mem.cursor \in Nat
    BY BoundsAreNaturals DEF ExportInv, SoundCheckpoint, Checkpoints
  <1>6. /\ next.enabled = enabled /\ next.revision = mem.revision + 1
        /\ next.cursor = IF mem.enabled /\ enabled THEN mem.cursor ELSE tail
        /\ next.accepted = mem.accepted /\ next.rejected = mem.rejected
        /\ next.settled = mem.settled
    BY <1>4, <1>5 DEF Checkpoints
  <1>7. /\ UNCHANGED <<stored, nextId, inserting, mem, disk, up, worker, crashes, offered,
                       expired, quiet>>
        /\ updates < MaxUpdates /\ updates' = updates + 1
        /\ up = "up" /\ update' = [next |-> next, written |-> FALSE]
    BY <1>1 DEF BeginUpdate, tableVars
  <1>8. updates \in Nat /\ MaxUpdates \in Nat /\ MaxEvents \in Nat /\ stored \subseteq Events
    BY BoundsAreNaturals DEF ExportInv, Ids
  <1>9. next \in Checkpoints
    <2>1. mem.revision + 1 \in 0..MaxUpdates
      BY <1>5, <1>7, <1>8 DEF ExportInv, SoundCheckpoint
    <2>2. mem.cursor \in 0..MaxEvents /\ tail \in 0..MaxEvents
      BY <1>3, <1>5, <1>8 DEF Checkpoints, Events
    <2> QED  BY <1>4, <1>5, <2>1, <2>2 DEF Checkpoints
  <1>10. SoundCheckpoint(next)'
    <2>1. mem.revision + 1 <= updates'
      BY <1>5, <1>7, <1>8 DEF ExportInv, SoundCheckpoint
    <2>2. tail < Low /\ mem.cursor < Low
      BY <1>3, LowIsPositive DEF ExportInv, SoundCheckpoint, Ids
    <2>3. \A e \in next.settled \intersect stored : e <= next.cursor
      BY <1>3, <1>6 DEF ExportInv, SoundCheckpoint
    <2> QED
      BY <1>6, <1>7, <1>9, <2>1, <2>2, <2>3 DEF ExportInv, SoundCheckpoint, Low
  <1>11. PastQuiet(next)'
    BY <1>3, <1>6, <1>7 DEF ExportInv, PastQuiet
  <1>12. Succeeds(next)'
    BY <1>3, <1>6, <1>7 DEF Succeeds
  <1>13. Ids'
    BY <1>7, <1>8 DEF ExportInv, Ids, Low
  <1>14. SoundCheckpoint(mem)' /\ SoundCheckpoint(disk)'
    BY <1>7, <1>8, BoundsAreNaturals DEF ExportInv, SoundCheckpoint, Low, Checkpoints
  <1>15. Worker'
    BY <1>7 DEF ExportInv, Worker, LiveCycle, HasOutcome, Low
  <1>16. Update'
    BY <1>7, <1>9, <1>10, <1>11, <1>12 DEF Update
  <1> QED
    BY <1>7, <1>13, <1>14, <1>15, <1>16
       DEF ExportInv, PastQuiet, Succeeds, AheadByABatch

\* The transaction of the settings ends, written or not.
LEMMA UpdateEndsKeeps ==
  ASSUME ExportInv, UpdateFails \/ UpdateCommits
  PROVE  ExportInv'
PROOF
  <1>1. /\ UNCHANGED <<stored, nextId, inserting, mem, up, worker, updates, crashes, offered,
                       expired, quiet>>
        /\ update # Nothing /\ disk' \in {disk, update.next}
        /\ \/ update' = Nothing
           \/ disk' = update.next /\ update' = [update EXCEPT !.written = TRUE]
    <2>1. CASE UpdateFails  BY <2>1 DEF UpdateFails, tableVars
    <2>2. CASE UpdateCommits  BY <2>2 DEF UpdateCommits, tableVars
    <2> QED  BY <2>1, <2>2
  <1>2. PICK next : next = update.next  OBVIOUS
  <1>3. /\ SoundCheckpoint(next) /\ PastQuiet(next) /\ Succeeds(next) /\ up = "up"
        /\ update \in [next : Checkpoints, written : BOOLEAN]
    BY <1>1, <1>2 DEF ExportInv, Update
  <1>4. Low' = Low  BY <1>1 DEF Low
  <1>5. Ids'  BY <1>1, <1>4 DEF ExportInv, Ids
  <1>6. SoundCheckpoint(next)' /\ PastQuiet(next)' /\ Succeeds(next)'
    BY <1>1, <1>3, <1>4 DEF SoundCheckpoint, PastQuiet, Succeeds
  <1>7. /\ SoundCheckpoint(mem)' /\ SoundCheckpoint(disk)'
        /\ PastQuiet(disk)' /\ PastQuiet(mem)'
        /\ Succeeds(disk)' \/ AheadByABatch(disk)'
    BY <1>1, <1>2, <1>3, <1>4
       DEF ExportInv, SoundCheckpoint, PastQuiet, Succeeds, AheadByABatch
  <1>8. Worker'
    BY <1>1, <1>4 DEF ExportInv, Worker, HasOutcome, LiveCycle
  <1>9. Update'
    <2>1. CASE update' = Nothing  BY <2>1 DEF Update
    <2>2. CASE disk' = next /\ update' = [update EXCEPT !.written = TRUE]
      <3>1. /\ update'.next = next
            /\ update' \in [next : Checkpoints, written : BOOLEAN]
        BY <1>2, <1>3, <2>2
      <3> QED
        BY <1>1, <1>3, <1>6, <2>2, <3>1 DEF Update, SoundCheckpoint, PastQuiet, Succeeds
    <2> QED  BY <1>1, <1>2, <2>1, <2>2
  <1> QED  BY <1>1, <1>3, <1>5, <1>7, <1>8, <1>9 DEF ExportInv

\* Of a cycle that is cancelled nothing is said of the manager's state.
LEMMA CancelledIsFine ==
  ASSUME ExportInv, UNCHANGED <<nextId, inserting, offered, quiet>>,
         worker' = [worker EXCEPT !.live = FALSE]
  PROVE  Worker'
PROOF
  <1>1. worker \in Cycles  BY DEF ExportInv, Worker
  <1>2. /\ worker'.stage = worker.stage /\ worker'.answer = worker.answer
        /\ worker'.refused = worker.refused /\ ~worker'.live
        /\ worker'.sent = worker.sent /\ worker'.audits = worker.audits
        /\ worker' \in Cycles
    BY <1>1 DEF Cycles
  <1>3. Low' = Low  BY DEF Low
  <1> QED  BY <1>2, <1>3 DEF ExportInv, Worker, HasOutcome

LEMMA AdoptUpdateKeeps ==
  ASSUME ExportInv, AdoptUpdate
  PROVE  ExportInv'
PROOF
  <1>1. /\ UNCHANGED <<stored, nextId, inserting, disk, up, updates, crashes, offered,
                       expired, quiet>>
        /\ update # Nothing /\ update.written /\ update' = Nothing
        /\ mem' = update.next /\ worker' = [worker EXCEPT !.live = FALSE]
    BY DEF AdoptUpdate, tableVars
  <1>2. /\ SoundCheckpoint(update.next) /\ PastQuiet(update.next) /\ disk = update.next
        /\ up = "up"
    BY <1>1 DEF ExportInv, Update
  <1>3. mem' = disk /\ disk' = disk /\ Low' = Low  BY <1>1, <1>2 DEF Low
  <1>4. Ids'  BY <1>1, <1>3 DEF ExportInv, Ids
  <1>5. /\ SoundCheckpoint(mem)' /\ SoundCheckpoint(disk)'
        /\ PastQuiet(mem)' /\ PastQuiet(disk)' /\ Succeeds(disk)'
    BY <1>1, <1>3 DEF ExportInv, SoundCheckpoint, PastQuiet, Succeeds
  <1>6. Worker'  BY <1>1, CancelledIsFine
  <1> QED  BY <1>1, <1>2, <1>4, <1>5, <1>6 DEF ExportInv, Update

(***************************************************************************)
(* Steps of the process                                                    *)
(***************************************************************************)
LEMMA ProcessKeeps ==
  ASSUME ExportInv, Close \/ Stop \/ Restart
  PROVE  ExportInv'
PROOF
  <1>1. /\ UNCHANGED <<stored, nextId, inserting, disk, updates, offered, expired, quiet>>
        /\ mem' \in {mem, disk} /\ (up' # "down" /\ mem' = mem => up # "down" \/ mem' = disk)
        /\ update' = Nothing
    BY DEF Close, Stop, Restart, ExportInv, tableVars
  <1>2. Low' = Low  BY <1>1 DEF Low
  <1>3. Ids'
    BY <1>1, <1>2, BoundsAreNaturals DEF ExportInv, Ids, Close, Stop, Restart
  <1>4. SoundCheckpoint(mem)' /\ SoundCheckpoint(disk)' /\ PastQuiet(disk)'
    BY <1>1, <1>2 DEF ExportInv, SoundCheckpoint, PastQuiet
  <1>5. up' # "down" => PastQuiet(mem)' /\ (Succeeds(disk)' \/ AheadByABatch(disk)')
    BY <1>1 DEF ExportInv, PastQuiet, Succeeds, AheadByABatch, Close, Stop, Restart
  <1>6. Worker'
    <2>1. CASE Close  BY <1>1, <2>1, CancelledIsFine DEF Close
    <2>2. CASE Stop  BY <2>2, NoCycleIsFine DEF Stop
    <2>3. CASE Restart
      <3>1. UNCHANGED worker /\ up = "down"  BY <2>3 DEF Restart
      <3>2. ~worker.live  BY <3>1 DEF ExportInv, Worker, LiveCycle
      <3> QED  BY <1>1, <1>2, <3>1, <3>2 DEF ExportInv, Worker, HasOutcome
    <2> QED  BY <2>1, <2>2, <2>3
  <1> QED  BY <1>1, <1>3, <1>4, <1>5, <1>6 DEF ExportInv, Update

(***************************************************************************)
(* The theorems                                                            *)
(***************************************************************************)
LEMMA ExportInit ==
  ASSUME Init
  PROVE  ExportInv
PROOF
  <1>1. mem \in Checkpoints /\ disk \in Checkpoints
    BY BoundsAreNaturals DEF Init, NoCheckpoint, Checkpoints
  <1>2. worker \in Cycles /\ Cardinality(worker.sent) <= BatchLimit
    BY BoundsAreNaturals, BatchLimitPositive, FS_EmptySet DEF Init, NoCycle, Cycles
  <1>3. Ids
    BY BoundsAreNaturals DEF Init, Ids, Low, Events
  <1>4. SoundCheckpoint(mem) /\ SoundCheckpoint(disk)
    BY <1>1, FS_EmptySet DEF Init, NoCheckpoint, SoundCheckpoint, Low
  <1>5. Worker
    BY <1>2 DEF Init, NoCycle, Worker, HasOutcome
  <1> QED
    BY <1>3, <1>4, <1>5
       DEF Init, ExportInv, NoCheckpoint, PastQuiet, Succeeds, Update

LEMMA ExportStep ==
  ASSUME ExportInv, [Next]_vars
  PROVE  ExportInv'
PROOF
  <1>1. CASE Next
    BY <1>1, InsertKeeps, CommitKeeps, AbortKeeps, CleanupKeeps, StartCycleKeeps,
       ReadBatchKeeps, AnswerKeeps, SendKeeps, DropKeeps, SettleKeeps, BeginUpdateKeeps,
       UpdateEndsKeeps, AdoptUpdateKeeps, ProcessKeeps DEF Next
  <1>2. CASE UNCHANGED vars
    BY <1>2 DEF vars, tableVars, ExportInv, Ids, SoundCheckpoint, PastQuiet, Succeeds,
                AheadByABatch, Worker, LiveCycle, HasOutcome, Update, Low
  <1> QED  BY <1>1, <1>2

THEOREM ExportInvariant == Spec => []ExportInv
PROOF
  BY ExportInit, ExportStep, PTL DEF Spec

\* What was recorded while the export was off is never sent, whichever update, crash
\* or late answer follows: the checkpoint a restart may find is past it whenever it is
\* enabled, and so is any batch.
THEOREM DisabledPeriodsKept == Spec => []DisabledPeriodsStayPrivate
PROOF
  <1>1. ExportInv => DisabledPeriodsStayPrivate
    BY DEF ExportInv, DisabledPeriodsStayPrivate
  <1> QED  BY <1>1, ExportInvariant, PTL

\* Values stay of their types, and Accepted and Rejected count every settled event
\* once, in memory and in the checkpoint.
THEOREM SettledCountsExact == Spec => []CountersMatchSettled
PROOF
  <1>1. ASSUME ExportInv  PROVE TypeOK
    <2>1. Cardinality(inserting) <= 1
      <3>1. inserting = {} \/ inserting = {nextId - 1}  BY <1>1 DEF ExportInv, Ids
      <3>2. Cardinality({}) = 0 /\ Cardinality({nextId - 1}) = 1
        BY FS_EmptySet, FS_Singleton
      <3> QED  BY <3>1, <3>2
    <2>2. update = Nothing \/ (update.next \in Checkpoints /\ update.written \in BOOLEAN)
      BY <1>1 DEF ExportInv, Update
    <2> QED
      BY <1>1, <2>1, <2>2 DEF ExportInv, Ids, SoundCheckpoint, Worker, TypeOK
  <1>2. ExportInv => CountersMatchSettled
    BY <1>1 DEF ExportInv, SoundCheckpoint, CountersMatchSettled
  <1> QED  BY <1>2, ExportInvariant, PTL

(***************************************************************************)
(* The steps of the export as steps of AuditDelivery                       *)
(***************************************************************************)
\* Nothing that AuditDelivery is about changes.
LEMMA DeliveryStutters ==
  ASSUME UNCHANGED <<stored, offered, expired>>, Effective' = Effective
  PROVE  UNCHANGED Delivery!deliveryVars
PROOF
  BY DEF Delivery!deliveryVars, Owed

\* The manager comes to go by a checkpoint that succeeds the state in memory, or
\* that settled one more batch.
LEMMA DeliveryGoesBy ==
  ASSUME ExportInv, NEW c, SoundCheckpoint(c), Succeeds(c) \/ AheadByABatch(c),
         UNCHANGED <<stored, offered, expired>>, Effective = mem, Effective' = c
  PROVE  [Delivery!Next]_(Delivery!deliveryVars)
PROOF
  <1>1. /\ c.settled \subseteq Events /\ c.cursor \in Nat /\ c.enabled \in BOOLEAN
        /\ mem.enabled \in BOOLEAN /\ mem.cursor \in Nat
        /\ stored \subseteq Events
    BY BoundsAreNaturals DEF SoundCheckpoint, Checkpoints, ExportInv, Ids
  <1>2. /\ Owed = IF mem.enabled THEN {e \in stored : e > mem.cursor} ELSE {}
        /\ Owed' = IF c.enabled THEN {e \in stored : e > c.cursor} ELSE {}
    BY DEF Owed
  <1>3. CASE AheadByABatch(c)
    <2> DEFINE batch == c.settled \ mem.settled
    <2>1. batch \in SUBSET Events /\ batch \subseteq offered \ mem.settled
      BY <1>1, <1>3 DEF AheadByABatch
    <2>2. c.settled = mem.settled \union batch /\ c.enabled = mem.enabled
      BY <1>3 DEF AheadByABatch
    <2>3. Owed' = Owed \ batch
      BY <1>2, <1>3 DEF AheadByABatch
    <2> HIDE DEF batch
    <2>4. Delivery!Settle(batch)
      BY <2>1, <2>2, <2>3 DEF Delivery!Settle
    <2> QED  BY <2>1, <2>4 DEF Delivery!Next
  <1>4. CASE Succeeds(c) /\ ~c.enabled
    <2>1. Delivery!SwitchOff
      BY <1>1, <1>2, <1>4 DEF Delivery!SwitchOff, Succeeds
    <2> QED  BY <2>1 DEF Delivery!Next
  <1>5. CASE Succeeds(c) /\ c.enabled /\ mem.enabled
    <2>1. Owed' = Owed /\ c.settled = mem.settled /\ c.enabled = mem.enabled
      BY <1>1, <1>2, <1>5 DEF Succeeds
    <2> QED  BY <2>1 DEF Delivery!deliveryVars
  <1>6. CASE Succeeds(c) /\ c.enabled /\ ~mem.enabled
    <2> DEFINE recent == {e \in stored : e > c.cursor}
    <2>1. recent \in SUBSET Events /\ recent \subseteq stored \ offered
      <3>1. \A e \in stored : e \in Nat  BY <1>1, BoundsAreNaturals DEF Events
      <3>2. \A e \in stored \intersect offered : e <= c.cursor
        BY <1>6 DEF Succeeds
      <3> QED  BY <1>1, <3>1, <3>2
    <2>2. Owed' = recent  BY <1>2, <1>6
    <2> HIDE DEF recent
    <2>3. Delivery!SwitchOn(recent)
      BY <1>1, <1>6, <2>1, <2>2 DEF Delivery!SwitchOn, Succeeds
    <2> QED  BY <2>1, <2>3 DEF Delivery!Next
  <1> QED  BY <1>3, <1>4, <1>5, <1>6

LEMMA CommitRecords ==
  ASSUME ExportInv, NEW e \in Events, Commit(e)
  PROVE  Delivery!Record(e)
PROOF
  <1>1. e = Low /\ e \in Nat
    BY BoundsAreNaturals DEF ExportInv, Ids, Commit, Low, Events
  <1>2. e \notin stored \union offered
    BY <1>1 DEF ExportInv, Ids
  <1>3. /\ stored' = stored \union {e}
        /\ UNCHANGED <<expired, offered>> /\ Effective' = Effective
    BY DEF Commit, Effective
  <1>4. Effective.cursor < e /\ Effective.cursor \in Nat
    BY <1>1, BoundsAreNaturals DEF ExportInv, Effective, SoundCheckpoint, Checkpoints
  <1>5. Owed' = IF Effective.enabled THEN Owed \union {e} ELSE Owed
    BY <1>1, <1>3, <1>4 DEF Owed
  <1> QED  BY <1>2, <1>3, <1>5 DEF Delivery!Record

LEMMA CleanupExpires ==
  ASSUME NEW e \in Events, Cleanup(e)
  PROVE  Delivery!Expire(e)
PROOF
  <1>1. /\ stored' = stored \ {e} /\ UNCHANGED offered /\ Effective' = Effective
        /\ expired' = IF e \in Owed THEN expired \union {e} ELSE expired
    BY DEF Cleanup, Effective
  <1>2. Owed' = Owed \ {e}
    BY <1>1 DEF Owed
  <1> QED  BY <1>1, <1>2 DEF Delivery!Expire

LEMMA SendOffers ==
  ASSUME ExportInv, Send
  PROVE  [Delivery!Next]_(Delivery!deliveryVars)
PROOF
  <1>1. LiveCycle /\ worker \in Cycles
    BY DEF ExportInv, Worker, Send
  <1>2. Effective = mem /\ Effective' = Effective /\ UNCHANGED stored
    BY <1>1 DEF Effective, LiveCycle, Send, tableVars
  <1>3. worker.sent \subseteq Owed \union expired
    BY <1>1, <1>2 DEF LiveCycle, Owed
  <1>4. worker.sent \intersect Effective.settled = {}
    BY <1>1, <1>2 DEF LiveCycle
  <1>5. Owed' = Owed  BY <1>2 DEF Owed
  <1>6. Delivery!Offer(worker.sent)
    BY <1>2, <1>3, <1>4, <1>5 DEF Delivery!Offer, Send
  <1>7. worker.sent \in SUBSET Events  BY <1>1 DEF Cycles
  <1> QED  BY <1>6, <1>7 DEF Delivery!Next

LEMMA NextDelivers ==
  ASSUME ExportInv, Next
  PROVE  [Delivery!Next]_(Delivery!deliveryVars)
PROOF
  <1>1. ASSUME NEW e \in Events, Commit(e)
        PROVE  [Delivery!Next]_(Delivery!deliveryVars)
    BY <1>1, CommitRecords DEF Delivery!Next
  <1>2. ASSUME NEW e \in Events, Cleanup(e)
        PROVE  [Delivery!Next]_(Delivery!deliveryVars)
    BY <1>2, CleanupExpires DEF Delivery!Next
  <1>3. CASE Send
    BY <1>3, SendOffers
  <1>4. CASE Settle
    <2>1. /\ SoundCheckpoint(Outcome) /\ (Succeeds(Outcome) \/ AheadByABatch(Outcome))
      BY <1>4, OutcomeIsSound DEF Settle
    <2>2. /\ UNCHANGED <<stored, offered, expired>>
          /\ Effective = mem /\ Effective' = Outcome
      BY <1>4 DEF Settle, Answered, Effective, tableVars
    <2>3. PICK out : out = Outcome  OBVIOUS
    <2> QED  BY <2>1, <2>2, <2>3, DeliveryGoesBy
  <1>5. CASE AdoptUpdate
    <2>1. /\ SoundCheckpoint(update.next) /\ Succeeds(update.next) /\ up = "up"
      BY <1>5 DEF AdoptUpdate, ExportInv, Update
    <2>2. /\ UNCHANGED <<stored, offered, expired>>
          /\ Effective = mem /\ Effective' = update.next
      BY <1>5, <2>1 DEF AdoptUpdate, Effective, tableVars
    <2>3. PICK next : next = update.next  OBVIOUS
    <2> QED  BY <2>1, <2>2, <2>3, DeliveryGoesBy
  <1>6. CASE Stop
    <2>1. /\ SoundCheckpoint(disk) /\ (Succeeds(disk) \/ AheadByABatch(disk))
      BY <1>6 DEF Stop, ExportInv
    <2>2. /\ UNCHANGED <<stored, offered, expired>>
          /\ Effective = mem /\ Effective' = disk
      BY <1>6 DEF Stop, Effective, tableVars
    <2>3. PICK c : c = disk  OBVIOUS
    <2> QED  BY <2>1, <2>2, <2>3, DeliveryGoesBy
  <1>7. CASE Restart
    <2>1. UNCHANGED <<stored, offered, expired>> /\ Effective' = Effective
      BY <1>7 DEF Restart, Effective, tableVars
    <2> QED  BY <2>1, DeliveryStutters
  <1>8. CASE SettleUnsaved \/ UpdateFails \/ UpdateCommits \/ Close
    <2>1. up # "down" /\ up' # "down"
      BY <1>8 DEF SettleUnsaved, Answered, UpdateFails, UpdateCommits, Close, ExportInv, Update
    <2>2. UNCHANGED <<stored, offered, expired, mem>>
      BY <1>8 DEF SettleUnsaved, UpdateFails, UpdateCommits, Close, tableVars
    <2>3. Effective' = Effective  BY <2>1, <2>2 DEF Effective
    <2> QED  BY <2>2, <2>3, DeliveryStutters
  <1>9. ASSUME UNCHANGED <<stored, offered, expired, mem, disk, up>>
        PROVE  [Delivery!Next]_(Delivery!deliveryVars)
    BY <1>9, DeliveryStutters DEF Effective
  <1>10. CASE \/ Insert \/ \E e \in Events : Abort(e)
              \/ StartCycle \/ ReadBatch \/ ReadFails \/ Acknowledged \/ NotAcknowledged
              \/ Drop \/ \E enabled \in BOOLEAN : BeginUpdate(enabled)
    <2>1. UNCHANGED <<stored, offered, expired, mem, disk, up>>
      BY <1>10 DEF Insert, Abort, StartCycle, ReadBatch, ReadFails, Acknowledged,
                   NotAcknowledged, Drop, BeginUpdate, tableVars
    <2> QED  BY <1>9, <2>1
  <1> QED
    BY <1>1, <1>2, <1>3, <1>4, <1>5, <1>6, <1>7, <1>8, <1>10 DEF Next

LEMMA InitDelivers ==
  ASSUME Init
  PROVE  Delivery!Init
PROOF
  BY DEF Init, NoCheckpoint, Delivery!Init, Owed, Effective

\* The export implements AuditDelivery: nothing recorded while it is on is passed
\* over, whatever order writers commit in and wherever the process stops, and nothing
\* is sent again once its outcome is in the checkpoint.
THEOREM ExportImplementsDelivery == Spec => ImplementsDelivery
PROOF
  <1>1. ExportInv /\ [Next]_vars => [Delivery!Next]_(Delivery!deliveryVars)
    <2>1. ASSUME UNCHANGED vars  PROVE UNCHANGED Delivery!deliveryVars
      <3>1. UNCHANGED <<stored, offered, expired>> /\ Effective' = Effective
        BY <2>1 DEF vars, tableVars, Effective
      <3> QED  BY <3>1, DeliveryStutters
    <2> QED  BY <2>1, NextDelivers
  <1> QED
    BY <1>1, InitDelivers, ExportInvariant, PTL DEF Spec, ImplementsDelivery, Delivery!Spec
=============================================================================
