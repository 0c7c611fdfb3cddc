--------------------------- MODULE CloudTableSync ---------------------------
(***************************************************************************)
(* Checkpointed synchronisation of ONE local b_class table to its cloud    *)
(* mirror: CloudBClassSyncService.sync_table, the reader, the writer and   *)
(* the checkpoint service it calls, the ingester that fills the local      *)
(* table, the deletion of a file's rows and the admin checkpoint repair.   *)
(*                                                                         *)
(* A row is its sort key [at |-> ingest_timestamp, id |-> id]: an upsert   *)
(* restamps the row and keeps its id, a row deleted and inserted again     *)
(* gets a new one.  at = 0 stands for "no row" and, in a checkpoint, for   *)
(* NULL.  The clock never runs backwards but may hand out one timestamp    *)
(* several times.                                                          *)
(*                                                                         *)
(* Keys is the importer's unique key (platform, shop, domain, granularity, *)
(* data_hash).  The mirror's key for services tables has the sub-domain in *)
(* place of platform and shop, but data_hash is a digest over all five     *)
(* (_build_scope_hash_data), so the two keys tell the same rows apart.     *)
(***************************************************************************)
EXTENDS Naturals, FiniteSets

CONSTANTS
  Keys,        \* values of the table's unique key
  Workers,     \* executions of sync_table that may run on this table
  Ingesters,   \* ingestion processes that write this table
  BatchSize,   \* LIMIT of one batch
  MaxStamps,   \* bound: records built
  MaxRepairs   \* bound: checkpoint repairs

ASSUME BatchSizeAssumption == BatchSize \in Nat \ {0}
ASSUME KeysAssumption == IsFiniteSet(Keys)
ASSUME BoundsAssumption == MaxStamps \in Nat /\ MaxRepairs \in Nat

VARIABLES
  local,       \* local[k]: k's committed row
  cloud,       \* cloud[k]: the version of k's row the mirror holds
  ckpt,        \* the checkpoint row: last_ingest_timestamp, last_source_id
  clock,       \* last timestamp handed out
  lastId,      \* last id handed out
  stamps,      \* number of records built so far
  stamped,     \* stamped[i][k]: timestamp of k's record in ingester i, or 0
  repairs,     \* number of repairs so far
  pc,          \* pc[w]: next step of execution w
  mem,         \* mem[w]: checkpoint object in w's session
  batch,       \* batch[w][k]: k's row in the batch of w
  upto,        \* upto[w]: the last row of that batch
  wrote,       \* wrote[w]: total_written_rows > 0
  outcome,     \* outcome[w]: what the last execution of w returned
  dirty,       \* ghost: mirror rows committed since the last refresh enqueue
  goal,        \* ghost: goal[w], the keys visible when w's execution began
  lastAt,      \* ghost: newest timestamp committed
  tied,        \* ghost: a row was updated at a timestamp committed before
  torn         \* ghost: a checkpoint was stored that nobody had reached

tableVars == <<local, clock, lastId, stamps, stamped, lastAt, tied>>
workVars == <<pc, mem, batch, upto, wrote, outcome>>
vars == <<local, cloud, ckpt, clock, lastId, stamps, stamped, repairs, pc, mem,
          batch, upto, wrote, outcome, dirty, goal, lastAt, tied, torn>>

Rows == [at : Nat, id : Nat]
NoRow == [at |-> 0, id |-> 0]
Empty == [k \in Keys |-> NoRow]

\* ORDER BY ingest_timestamp, id.
Before(p, q) == p.at < q.at \/ (p.at = q.at /\ p.id < q.id)

Steps == {"idle", "read", "write", "advance", "refresh", "project"}
Outcomes == {"none", "queued", "not_required", "projection_failed", "failed"}

TypeOK ==
  /\ local \in [Keys -> Rows]
  /\ cloud \in [Keys -> Rows]
  /\ ckpt \in Rows
  /\ {clock, lastId, lastAt, stamps, repairs} \subseteq Nat
  /\ stamped \in [Ingesters -> [Keys -> Nat]]
  /\ pc \in [Workers -> Steps]
  /\ mem \in [Workers -> Rows]
  /\ batch \in [Workers -> [Keys -> Rows]]
  /\ upto \in [Workers -> Rows]
  /\ wrote \in [Workers -> BOOLEAN]
  /\ outcome \in [Workers -> Outcomes]
  /\ goal \in [Workers -> SUBSET Keys]
  /\ {dirty, tied, torn} \subseteq BOOLEAN

Init ==
  /\ local = Empty
  /\ cloud = Empty
  /\ ckpt = NoRow
  /\ clock = 0
  /\ lastId = 0
  /\ stamps = 0
  /\ stamped = [i \in Ingesters |-> [k \in Keys |-> 0]]
  /\ repairs = 0
  /\ pc = [w \in Workers |-> "idle"]
  /\ mem = [w \in Workers |-> NoRow]
  /\ batch = [w \in Workers |-> Empty]
  /\ upto = [w \in Workers |-> NoRow]
  /\ wrote = [w \in Workers |-> FALSE]
  /\ outcome = [w \in Workers |-> "none"]
  /\ dirty = FALSE
  /\ goal = [w \in Workers |-> {}]
  /\ lastAt = 0
  /\ tied = FALSE
  /\ torn = FALSE

Visible == {k \in Keys : local[k].at # 0}
Present == {k \in Keys : cloud[k].at # 0}
Running == {w \in Workers : pc[w] # "idle"}

-----------------------------------------------------------------------------
(* The local table: RawDataImporter and the deletion services.             *)

\* A record gets its ingest_timestamp, datetime.now(), while it is built, long
\* before the transaction that stores it: the clock may have gone on or not.
Stamp(i, k) ==
  /\ stamps < MaxStamps
  /\ stamped[i][k] = 0
  /\ stamps' = stamps + 1
  /\ \E t \in {clock, clock + 1} \ {0} :
       /\ clock' = t
       /\ stamped' = [stamped EXCEPT ![i][k] = t]
  /\ UNCHANGED <<local, cloud, ckpt, lastId, repairs, workVars, dirty, goal,
                 lastAt, tied, torn>>

Records(i) == {k \in Keys : stamped[i][k] # 0}

\* What one transaction of i stores: a prefix of its records.  Records of one
\* timestamp may have been built in any order.
Chunks(i) ==
  {C \in SUBSET Records(i) \ {{}} :
     \A j \in C, k \in Records(i) \ C : stamped[i][j] <= stamped[i][k]}

\* The ids the sequence hands to the rows of C the table does not hold yet.
NewIds(i, C) ==
  LET N == C \ Visible
  IN  {f \in [N -> (lastId + 1)..(lastId + Cardinality(N))] :
         \A j, k \in N : /\ j # k => f[j] # f[k]
                         /\ stamped[i][j] < stamped[i][k] => f[j] < f[k]}

Drop(i, C) == [stamped EXCEPT ![i] = [k \in Keys |-> IF k \in C THEN 0 ELSE @[k]]]

\* One chunk is upserted and committed: a row that exists is restamped and
\* keeps its id.
CommitChunk(i) ==
  \E C \in Chunks(i) :
    /\ lastId' = lastId + Cardinality(C \ Visible)
    /\ \E f \in NewIds(i, C) :
         local' = [k \in Keys |->
           IF k \notin C THEN local[k]
           ELSE [at |-> stamped[i][k],
                 id |-> IF k \in Visible THEN local[k].id ELSE f[k]]]
    /\ stamped' = Drop(i, C)
    /\ \E t \in {lastAt} \cup {stamped[i][k] : k \in C} :
         /\ lastAt <= t /\ \A k \in C : stamped[i][k] <= t
         /\ lastAt' = t
    /\ tied' = (tied \/ \E k \in C \cap Visible : stamped[i][k] <= lastAt)
    /\ UNCHANGED <<cloud, ckpt, clock, stamps, repairs, workVars, dirty, goal,
                   torn>>

\* One chunk fails, is rolled back and skipped; the next ones go on.
SkipChunk(i) ==
  \E C \in Chunks(i) :
    /\ stamped' = Drop(i, C)
    /\ UNCHANGED <<local, cloud, ckpt, clock, lastId, stamps, repairs, workVars,
                   dirty, goal, lastAt, tied, torn>>

\* The rows of one file are deleted.  The mirror is not told.
DeleteRow(k) ==
  /\ k \in Visible
  /\ local' = [local EXCEPT ![k] = NoRow]
  /\ goal' = [w \in Workers |-> goal[w] \ {k}]
  /\ UNCHANGED <<cloud, ckpt, clock, lastId, stamps, stamped, repairs, workVars,
                 dirty, lastAt, tied, torn>>

-----------------------------------------------------------------------------
(* sync_table, one step per database transaction.                          *)

\* create_or_get_checkpoint: the execution loads the checkpoint row.
StartSync(w) ==
  /\ pc[w] = "idle"
  /\ pc' = [pc EXCEPT ![w] = "read"]
  /\ mem' = [mem EXCEPT ![w] = ckpt]
  /\ wrote' = [wrote EXCEPT ![w] = FALSE]
  /\ outcome' = [outcome EXCEPT ![w] = "none"]
  /\ goal' = [goal EXCEPT ![w] = Visible]
  /\ UNCHANGED <<tableVars, cloud, ckpt, repairs, batch, upto, dirty,
                 torn>>

\* The rows the checkpoint's where clause selects.
Newer(m) == {k \in Visible : Before(m, local[k])}

\* Those of them an ordered query returns up to the row p.
Prefix(m, p) == {k \in Newer(m) : ~Before(p, local[k])}

IsBatch(B, m) == Cardinality(B) = BatchSize
                 \/ (Cardinality(B) < BatchSize /\ B = Newer(m))

\* Faulty variant: LIMIT without ORDER BY.
ReadBatchUnordered(w) ==
  /\ pc[w] = "read"
  /\ \E B \in SUBSET Newer(mem[w]) : \E p \in {local[k] : k \in B} :
       /\ IsBatch(B, mem[w])
       /\ \A k \in B : ~Before(p, local[k])
       /\ upto' = [upto EXCEPT ![w] = p]
       /\ batch' = [batch EXCEPT ![w] =
                      [k \in Keys |-> IF k \in B THEN local[k] ELSE NoRow]]
  /\ pc' = [pc EXCEPT ![w] = "write"]
  /\ UNCHANGED <<tableVars, cloud, ckpt, repairs, mem, wrote, outcome,
                 dirty, goal, torn>>

\* The reader: ORDER BY ingest_timestamp, id LIMIT batch_size.
ReadBatch(w) ==
  /\ pc[w] = "read"
  /\ \E p \in {local[k] : k \in Newer(mem[w])} :
       /\ IsBatch(Prefix(mem[w], p), mem[w])
       /\ upto' = [upto EXCEPT ![w] = p]
       /\ batch' = [batch EXCEPT ![w] =
         [k \in Keys |-> IF k \in Prefix(mem[w], p) THEN local[k] ELSE NoRow]]
  /\ pc' = [pc EXCEPT ![w] = "write"]
  /\ UNCHANGED <<tableVars, cloud, ckpt, repairs, mem, wrote, outcome,
                 dirty, goal, torn>>

\* No row is left: the loop returns "completed" with the projection's result.
ReadNothing(w) ==
  /\ pc[w] = "read"
  /\ Newer(mem[w]) = {}
  /\ pc' = [pc EXCEPT ![w] = "project"]
  /\ UNCHANGED <<tableVars, cloud, ckpt, repairs, mem, batch, upto, wrote,
                 outcome, dirty, goal, torn>>

InBatch(w) == {k \in Keys : batch[w][k].at # 0}

\* Faulty variant: ON CONFLICT DO NOTHING.
UpsertedIgnoringConflicts(w) ==
  [k \in Keys |-> IF k \in InBatch(w) \ Present THEN batch[w][k]
                                             ELSE cloud[k]]

\* ON CONFLICT ... DO UPDATE, unconditional, with the receive log in the same
\* transaction of the cloud database.
Upserted(w) == [k \in Keys |-> IF k \in InBatch(w) THEN batch[w][k]
                                                   ELSE cloud[k]]

\* Faulty variant: the result of the write is not looked at.
WriteCloudUnchecked(w) ==
  /\ pc[w] = "write"
  /\ cloud' \in {cloud, Upserted(w)}
  /\ dirty' = TRUE
  /\ wrote' = [wrote EXCEPT ![w] = TRUE]
  /\ pc' = [pc EXCEPT ![w] = "advance"]
  /\ UNCHANGED <<tableVars, ckpt, repairs, mem, batch, upto, outcome, goal,
                 torn>>

WriteCloud(w) ==
  /\ pc[w] = "write"
  /\ cloud' = Upserted(w)
  /\ dirty' = TRUE
  /\ wrote' = [wrote EXCEPT ![w] = TRUE]
  /\ pc' = [pc EXCEPT ![w] = "advance"]
  /\ UNCHANGED <<tableVars, ckpt, repairs, mem, batch, upto, outcome, goal,
                 torn>>

\* Faulty variant: the checkpoint takes the table's newest position.
AdvanceToNewest(w) ==
  /\ pc[w] = "advance"
  /\ ckpt' \in {local[k] : k \in Keys}
  /\ \A k \in Keys : ~Before(ckpt', local[k])
  /\ pc' = [pc EXCEPT ![w] = "refresh"]
  /\ UNCHANGED <<tableVars, cloud, repairs, mem, batch, upto, wrote, outcome,
                 dirty, goal, torn>>

\* What the two columns hold after w's UPDATE.  The ORM writes the columns that
\* differ from the session's copy; a timestamp read from a column without time
\* zone always differs, one with a time zone only if it has changed.
Stored(w) ==
  {[at |-> t, id |-> IF mem[w].id # upto[w].id THEN upto[w].id ELSE ckpt.id] :
     t \in IF mem[w].at # upto[w].at THEN {upto[w].at}
                                     ELSE {upto[w].at, ckpt.at}}

\* advance_checkpoint commits, whatever the checkpoint table holds by now ...
Advance(w) ==
  /\ pc[w] = "advance"
  /\ ckpt' \in Stored(w)
  /\ torn' = (torn \/ (Before(upto[w], ckpt') /\ Before(ckpt, ckpt')))
  /\ pc' = [pc EXCEPT ![w] = "refresh"]
  /\ UNCHANGED <<tableVars, cloud, repairs, mem, batch, upto, wrote, outcome,
                 dirty, goal>>

\* Faulty variant: a full batch counts as the last one.
IsShortOrFull(w) == Cardinality(InBatch(w)) <= BatchSize

IsShort(w) == Cardinality(InBatch(w)) < BatchSize

\* The rows of a batch are looked at no more.
NextRound(w) ==
  /\ batch' = [batch EXCEPT ![w] = Empty]
  /\ upto' = [upto EXCEPT ![w] = NoRow]

\* Faulty variant: the object of the session is not refreshed.
RefreshCheckpointSkipped(w) ==
  /\ pc[w] = "refresh"
  /\ pc' = [pc EXCEPT ![w] = IF IsShort(w) THEN "project" ELSE "read"]
  /\ NextRound(w)
  /\ UNCHANGED <<tableVars, cloud, ckpt, repairs, mem, wrote, outcome, dirty,
                 goal, torn>>

\* ... and refreshes the session's object from it; a short batch is the last.
RefreshCheckpoint(w) ==
  /\ pc[w] = "refresh"
  /\ mem' = [mem EXCEPT ![w] = ckpt]
  /\ pc' = [pc EXCEPT ![w] = IF IsShort(w) THEN "project" ELSE "read"]
  /\ NextRound(w)
  /\ UNCHANGED <<tableVars, cloud, ckpt, repairs, wrote, outcome, dirty, goal,
                 torn>>

\* What an execution remembers goes with it.
Return(w) ==
  /\ pc' = [pc EXCEPT ![w] = "idle"]
  /\ mem' = [mem EXCEPT ![w] = NoRow]
  /\ wrote' = [wrote EXCEPT ![w] = FALSE]
  /\ goal' = [goal EXCEPT ![w] = {}]
  /\ NextRound(w)

\* _projection_result: a refresh is enqueued iff this execution wrote rows.
Project(w) ==
  /\ pc[w] = "project"
  /\ \/ /\ wrote[w]
        /\ outcome' = [outcome EXCEPT ![w] = "queued"]
        /\ dirty' = FALSE
     \/ /\ wrote[w]
        /\ outcome' = [outcome EXCEPT ![w] = "projection_failed"]
        /\ UNCHANGED dirty
     \/ /\ ~wrote[w]
        /\ outcome' = [outcome EXCEPT ![w] = "not_required"]
        /\ UNCHANGED dirty
  /\ Return(w)
  /\ UNCHANGED <<tableVars, cloud, ckpt, repairs, torn>>

\* Faulty variants: the handler of the exception clears the checkpoint, or does
\* not return.
FailClearing(w) ==
  /\ pc[w] # "idle"
  /\ ckpt' = NoRow
  /\ outcome' = [outcome EXCEPT ![w] = "failed"]
  /\ Return(w)
  /\ UNCHANGED <<tableVars, cloud, repairs, dirty, torn>>

FailLingering(w) ==
  /\ pc[w] # "idle"
  /\ pc' = [pc EXCEPT ![w] = "failed"]
  /\ outcome' = [outcome EXCEPT ![w] = "failed"]
  /\ UNCHANGED <<tableVars, cloud, ckpt, repairs, mem, batch, upto, wrote,
                 dirty, goal, torn>>

\* A call raises, or the process dies: what is committed stays, and
\* mark_failure leaves the checkpoint's position alone.
Fail(w) ==
  /\ pc[w] # "idle"
  /\ outcome' = [outcome EXCEPT ![w] = "failed"]
  /\ Return(w)
  /\ UNCHANGED <<tableVars, cloud, ckpt, repairs, dirty, torn>>

-----------------------------------------------------------------------------
(* CloudSyncAdminCommandService.                                           *)

\* repair_checkpoint does not look whether an execution is running.
RepairCheckpoint ==
  /\ repairs < MaxRepairs
  /\ repairs' = repairs + 1
  /\ ckpt' = NoRow
  /\ UNCHANGED <<tableVars, cloud, workVars, dirty, goal, torn>>

\* _table_needs_catch_up: sync_now skips the table when this is false.
NeedsCatchUp == \/ ckpt.at = 0
                \/ \E k \in Visible : Before(ckpt, local[k])

-----------------------------------------------------------------------------
Ingest(i) == \/ \E k \in Keys : Stamp(i, k)
             \/ CommitChunk(i)
             \/ SkipChunk(i)

SyncStep(w) == \/ ReadBatch(w)
               \/ ReadNothing(w)
               \/ WriteCloud(w)
               \/ Advance(w)
               \/ RefreshCheckpoint(w)
               \/ Project(w)

Next == \/ \E i \in Ingesters : Ingest(i)
        \/ \E k \in Keys : DeleteRow(k)
        \/ \E w \in Workers : StartSync(w) \/ SyncStep(w) \/ Fail(w)
        \/ RepairCheckpoint

Spec == Init /\ [][Next]_vars

\* An execution that runs keeps running: it is one coroutine that awaits only
\* its own database calls.  Nothing obliges anyone to start one.
Fairness == \A w \in Workers : WF_vars(SyncStep(w))

FairSpec == Spec /\ Fairness

-----------------------------------------------------------------------------
(* Correctness.                                                            *)

\* The checkpoint never passes a row the mirror has not got.  sync_now and
\* every later batch look only beyond the checkpoint, so such a row would be
\* lost for good.  It holds for any number of executions that crash, run at
\* once or are overtaken by a repair, provided one ingester stamps the table
\* and no two of them have stored one half of a checkpoint each.
NoSkippedRow ==
  ~torn => \A k \in Visible : ~Before(ckpt, local[k]) => k \in Present

\* With one execution at a time the mirror is also current up to the
\* checkpoint: a row updated while its older version travels is sent again.
\* The exception is real: an update at a timestamp that an earlier chunk has
\* committed keeps its low id, may lie below the checkpoint and is never sent.
CheckpointFresh ==
  ~tied => \A k \in Visible : ~Before(ckpt, local[k]) => cloud[k] = local[k]

\* When the console reports that a table needs no catch-up, its mirror holds
\* the current version of every local row, ties excepted as above.
CaughtUpIsCurrent ==
  ~tied /\ ~NeedsCatchUp => \A k \in Visible : cloud[k] = local[k]

\* The same once nothing runs any more: a difference that is left now will not
\* be repaired, since no catch-up is due.
QuietIsCurrent == Running = {} => CaughtUpIsCurrent

\* An execution that reaches the end of its loop has delivered every row that
\* was visible when it began and has not been deleted since.
CompletedDelivers ==
  ~torn => \A w \in Workers : pc[w] = "project" => goal[w] \subseteq Present

\* With one execution at a time the checkpoint moves backwards only by a repair:
\* neither a failure nor a batch read from an old copy loses progress.
OnlyRepairRegresses ==
  [][Before(ckpt', ckpt) => repairs' = repairs + 1]_vars

\* Once neither the ingester nor a repair touches the table any more, every
\* execution returns: the loop makes progress over a table that stands still.
\* Nothing is claimed while full batches keep arriving.
SyncTerminates ==
  <>[][UNCHANGED <<tableVars, repairs>>]_vars
    => \A w \in Workers : pc[w] # "idle" ~> pc[w] = "idle"

\* The contract of the mirror, for any number of executions: every step of
\* this module is a step of CloudMirror or leaves its variables alone.
Claimed == {k \in Visible : ~Before(ckpt, local[k])}

Report(w) == IF outcome[w] \in {"none", "failed"} THEN outcome[w]
                                                 ELSE "completed"

Mirror == INSTANCE CloudMirror WITH
            visible <- Visible,
            present <- Present,
            claimed <- Claimed,
            active <- Running,
            goal <- goal,
            report <- [w \in Workers |-> Report(w)],
            torn <- torn

ImplementsMirror == Mirror!Spec

\* The projections follow the mirror: when an execution reports that all went
\* well, a refresh has been enqueued for every row the mirror has received.
SuccessIsProjected ==
  \A w \in Workers :
    pc[w] = "idle" /\ outcome[w] \in {"queued", "not_required"} => ~dirty

-----------------------------------------------------------------------------
(* The inductive invariant behind NoSkippedRow and CompletedDelivers.      *)

OneIngester == \A i, j \in Ingesters : i = j

PresentUpTo(p) == \A k \in Visible : ~Before(p, local[k]) => k \in Present

\* No position in use has a timestamp or an id that was never committed ...
InUse(p) == p.at <= lastAt /\ p.id <= lastId

Bounds ==
  /\ lastAt <= clock
  /\ InUse(ckpt)
  /\ \A k \in Keys : InUse(local[k])
  /\ \A w \in Workers : InUse(mem[w]) /\ InUse(upto[w])
  /\ \A i \in Ingesters, k \in Keys : stamped[i][k] <= clock

\* ... and a record still to be committed is not older than all that was: a new
\* row will lie beyond every position in use, a restamped one beyond its own.
StampsAhead ==
  \A i \in Ingesters, k \in Keys : stamped[i][k] # 0 => lastAt <= stamped[i][k]

\* What the checkpoint, the sessions' copies of it and the batches account for.
Accounted ==
  /\ PresentUpTo(ckpt)
  /\ \A w \in Workers :
       /\ PresentUpTo(mem[w])
       /\ pc[w] = "write" =>
            \A k \in Visible : ~Before(upto[w], local[k]) =>
              k \in Present \cup InBatch(w)
       /\ pc[w] = "advance" => PresentUpTo(upto[w])

\* What an execution has still to deliver is ahead of it, or in its last batch.
GoalAhead ==
  \A w \in Workers : \A k \in goal[w] :
    /\ k \in Visible
    /\ pc[w] = "write" /\ IsShort(w) => k \in Present \cup InBatch(w)
    /\ pc[w] \in {"advance", "refresh"} /\ IsShort(w) => k \in Present
    /\ pc[w] = "project" => k \in Present

DeliveryInv == Bounds /\ StampsAhead /\ (~torn => Accounted /\ GoalAhead)

\* The inductive invariants behind CheckpointFresh and OnlyRepairRegresses: one
\* execution at a time.
OneWorker == \A v, w \in Workers : v = w

\* Until the execution stores its progress, the checkpoint is what it loaded
\* or what a repair has made of it; a batch ends beyond the copy it was read with.
Held ==
  \A w \in Workers :
    /\ pc[w] \in {"read", "write", "advance"} => ckpt \in {mem[w], NoRow}
    /\ pc[w] \in {"write", "advance"} => Before(mem[w], upto[w])

FreshUpTo(p) == \A k \in Visible : ~Before(p, local[k]) => cloud[k] = local[k]

\* A batch replaces no row by an older version of it.
FreshInv ==
  ~tied =>
    /\ FreshUpTo(ckpt)
    /\ \A w \in Workers :
         /\ FreshUpTo(mem[w])
         /\ pc[w] = "write" =>
              \A k \in Visible : ~Before(upto[w], local[k]) =>
                \/ batch[w][k] = local[k]
                \/ k \notin InBatch(w) /\ cloud[k] = local[k]
         /\ pc[w] = "advance" => FreshUpTo(upto[w])
=============================================================================
