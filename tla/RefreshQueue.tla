---------------------------- MODULE RefreshQueue ----------------------------
(***************************************************************************)
(* The queue of projection refreshes (table refresh_queue_tasks): the      *)
(* DATA_INGESTED listener and the safety net enqueue, Celery workers run   *)
(* process_refresh_queue_task, operators retry failed rows.                *)
(*                                                                         *)
(* No row is ever locked: every operation reads in one statement and       *)
(* writes in a later one, so each takes two steps.  The age of a running   *)
(* row is abstracted to whether started_at is beyond                       *)
(* REFRESH_QUEUE_RUNNING_TIMEOUT_SECONDS.  A key stands for a dedupe key   *)
(* (pipeline and targets); the data of its targets is abstracted to how    *)
(* many ingestions they show.  Two keys may name common targets in the     *)
(* code; here each has targets of its own.                                 *)
(***************************************************************************)
EXTENDS Naturals, FiniteSets

CONSTANTS
  Keys, Runners, Enqueuers, Operators,
  MaxTasks,     \* bound: rows of the queue table
  MaxIngests,   \* bound: ingestions per key
  MaxTriggers,  \* bound: calls of enqueue_refresh
  MaxCrashes,   \* bound: processes that die
  MaxSlow,      \* bound: refreshes that outlive the running timeout
  MaxRetries    \* bound: retries asked for by operators

ASSUME RefreshBounds ==
  /\ MaxTasks \in Nat /\ MaxIngests \in Nat /\ MaxTriggers \in Nat
  /\ MaxCrashes \in Nat /\ MaxSlow \in Nat /\ MaxRetries \in Nat
ASSUME RunnersFinite == IsFiniteSet(Runners)

VARIABLES
  row,       \* row[t]: the queue row with id t
  asked,     \* asked[t]: ghost, ingestions the triggers merged into t reported
  rows,      \* rows[k]: committed ingestions into the sources of k
  fresh,     \* fresh[k]: ingestions the committed projection of k shows
  enq,       \* enq[e]: enqueuer e between its SELECT and its write
  retry,     \* retry[o]: the failed row operator o has read, 0 for none
  pc,        \* pc[r]: where process_refresh_queue_task is in worker r
  cur,       \* cur[r]: the row r claims or runs, 0 for none
  stale,     \* stale[r]: the stale rows r has read and not yet failed
  seen,      \* seen[r]: ingestions the refresh r executes has read
  overtaken, \* ghost: a row went back to pending while a worker still ran it
  used       \* how much of each bound is spent

vars == <<row, asked, rows, fresh, enq, retry, pc, cur, stale, seen,
          overtaken, used>>

TaskIds == 1..MaxTasks
\* Faulty variant: the CHECK constraint of the table forgets a status.
StatusesWithoutFailed == {"pending", "running", "completed"}

Statuses == {"pending", "running", "completed", "failed"}
Task == [key : Keys, status : Statuses, old : BOOLEAN]
Absent == [status |-> "absent"]
Idle == [at |-> "idle"]
\* Before the claim is written, the worker holds nothing.
PassPoints == {"idle", "recover", "check", "pick", "claim"}
RunPoints == {"read", "commit", "validate", "recommit", "complete", "fail"}

Rows == {t \in TaskIds : row[t] # Absent}
WithStatus(s) == {t \in Rows : row[t].status = s}
Holds(r, t) == pc[r] \in RunPoints /\ cur[r] = t
Held(t) == \E r \in Runners : Holds(r, t)
AtLeast(a, b) == IF a > b THEN a ELSE b

TypeOK ==
  /\ row \in [TaskIds -> Task \cup {Absent}]
  /\ asked \in [TaskIds -> Nat]
  /\ rows \in [Keys -> Nat]
  /\ fresh \in [Keys -> Nat]
  /\ enq \in [Enqueuers ->
       {Idle} \cup [at : {"found"}, key : Keys, id : TaskIds \cup {0}, want : Nat]]
  /\ retry \in [Operators -> TaskIds \cup {0}]
  /\ pc \in [Runners -> PassPoints \cup RunPoints]
  /\ cur \in [Runners -> TaskIds \cup {0}]
  /\ stale \in [Runners -> SUBSET TaskIds]
  /\ seen \in [Runners -> Nat]
  /\ overtaken \in BOOLEAN
  /\ used \in [triggers : Nat, crashes : Nat, slow : Nat, retries : Nat]

Init ==
  /\ row = [t \in TaskIds |-> Absent]
  /\ asked = [t \in TaskIds |-> 0]
  /\ rows = [k \in Keys |-> 0]
  /\ fresh = [k \in Keys |-> 0]
  /\ enq = [e \in Enqueuers |-> Idle]
  /\ retry = [o \in Operators |-> 0]
  /\ pc = [r \in Runners |-> "idle"]
  /\ cur = [r \in Runners |-> 0]
  /\ stale = [r \in Runners |-> {}]
  /\ seen = [r \in Runners |-> 0]
  /\ overtaken = FALSE
  /\ used = [triggers |-> 0, crashes |-> 0, slow |-> 0, retries |-> 0]

-----------------------------------------------------------------------------
(* Ingestion and enqueue_refresh.                                          *)

\* Rows are committed; the triggers that report them come later, if at all.
Ingest(k) ==
  /\ rows[k] < MaxIngests
  /\ rows' = [rows EXCEPT ![k] = @ + 1]
  /\ UNCHANGED <<row, asked, fresh, enq, retry, pc, cur, stale, seen, overtaken, used>>

\* Faulty variant: a running row is taken for a pending one.
PendingOrRunningOf(k) ==
  {t \in WithStatus("pending") \cup WithStatus("running") : row[t].key = k}

\* _get_pending_by_dedupe_key: the pending row of k with the lowest id.
PendingOf(k) == {t \in WithStatus("pending") : row[t].key = k}
FindPending(k) ==
  {t \in TaskIds \cup {0} :
     IF PendingOf(k) = {} THEN t = 0
     ELSE t \in PendingOf(k) /\ \A u \in PendingOf(k) : t <= u}

\* The SELECT of enqueue_refresh, called for a DATA_INGESTED event, after a
\* cloud sync, or by the safety net.
StartEnqueue(e, k) ==
  /\ enq[e] = Idle
  /\ used.triggers < MaxTriggers
  /\ used' = [used EXCEPT !.triggers = @ + 1]
  /\ \E t \in FindPending(k) :
       enq' = [enq EXCEPT ![e] =
                 [at |-> "found", key |-> k, id |-> t, want |-> rows[k]]]
  /\ UNCHANGED <<row, asked, rows, fresh, retry, pc, cur, stale, seen, overtaken>>

NextId(t) == /\ row[t] = Absent
             /\ \A u \in TaskIds : u < t => row[u] # Absent

\* Its write: the context is merged into the row found, whatever the row has
\* become since, or a new pending row is inserted.
CommitEnqueue(e) ==
  /\ enq[e].at = "found"
  /\ IF enq[e].id # 0
     THEN /\ asked' = [asked EXCEPT ![enq[e].id] = AtLeast(@, enq[e].want)]
          /\ UNCHANGED row
     ELSE \E t \in TaskIds :
            /\ NextId(t)
            /\ row' = [row EXCEPT ![t] = [key |-> enq[e].key, status |-> "pending",
                                          old |-> FALSE]]
            /\ asked' = [asked EXCEPT ![t] = enq[e].want]
  /\ enq' = [enq EXCEPT ![e] = Idle]
  /\ UNCHANGED <<rows, fresh, retry, pc, cur, stale, seen, overtaken, used>>

-----------------------------------------------------------------------------
(* process_refresh_queue_task.                                             *)

SetStatus(S, s) ==
  [t \in TaskIds |-> IF t \in S /\ row[t] # Absent
                     THEN [row[t] EXCEPT !.status = s, !.old = FALSE]
                     ELSE row[t]]

Step(r, from, to) == pc[r] = from /\ pc' = [pc EXCEPT ![r] = to]
Stop(r) ==
  /\ pc' = [pc EXCEPT ![r] = "idle"]
  /\ cur' = [cur EXCEPT ![r] = 0]
  /\ stale' = [stale EXCEPT ![r] = {}]
  /\ seen' = [seen EXCEPT ![r] = 0]

\* Faulty variant: a row without finished_at is never stale.
StaleRowsNone == {}

\* The SELECT of recover_stale_running_tasks.
StaleRows == {t \in WithStatus("running") : row[t].old}
BeginPass(r) ==
  /\ Step(r, "idle", IF StaleRows = {} THEN "check" ELSE "recover")
  /\ stale' = [stale EXCEPT ![r] = StaleRows]
  /\ UNCHANGED <<row, asked, rows, fresh, enq, retry, cur, seen,
                 overtaken, used>>

\* Its commit fails the rows it read, whatever they have become since.
FailStale(r) ==
  /\ Step(r, "recover", "check")
  /\ row' = SetStatus(stale[r], "failed")
  /\ stale' = [stale EXCEPT ![r] = {}]
  /\ UNCHANGED <<asked, rows, fresh, enq, retry, cur, seen, overtaken, used>>

\* claim_next_refresh_task, first SELECT: nothing is claimed while a row runs.
CheckRunning(r) ==
  /\ Step(r, "check", IF WithStatus("running") = {} THEN "pick" ELSE "idle")
  /\ UNCHANGED <<row, asked, rows, fresh, enq, retry, cur, stale, seen,
                 overtaken, used>>

\* Second SELECT: the oldest pending row.
Pick(r) ==
  /\ \/ /\ WithStatus("pending") = {}
        /\ Step(r, "pick", "idle")
        /\ UNCHANGED cur
     \/ /\ Step(r, "pick", "claim")
        /\ \E t \in WithStatus("pending") :
             /\ \A u \in WithStatus("pending") : t <= u
             /\ cur' = [cur EXCEPT ![r] = t]
  /\ UNCHANGED <<row, asked, rows, fresh, enq, retry, stale, seen,
                 overtaken, used>>

\* Its UPDATE, unconditional.
Claim(r) ==
  /\ Step(r, "claim", "read")
  /\ row' = [row EXCEPT ![cur[r]] = [@ EXCEPT !.status = "running", !.old = FALSE]]
  /\ UNCHANGED <<asked, rows, fresh, enq, retry, cur, stale, seen,
                 overtaken, used>>

KeyOf(r) == row[cur[r]].key
\* Faulty variant: each statement commits by itself and gives up its lock.
TargetsFreeAlways(r) == TRUE

\* Rebuilding a target locks it until the transaction ends.
TargetsFree(r) ==
  \A q \in Runners \ {r} : pc[q] \in {"commit", "recommit"} => KeyOf(q) # KeyOf(r)

\* execute_refresh_plan rebuilds the targets from the rows committed by now.
Execute(r, from, to) ==
  /\ Step(r, from, to)
  /\ TargetsFree(r)
  /\ seen' = [seen EXCEPT ![r] = rows[KeyOf(r)]]
  /\ UNCHANGED <<row, asked, rows, fresh, enq, retry, cur, stale,
                 overtaken, used>>
Read(r) == Execute(r, "read", "commit")

\* The commit; a plan that failed in part publishes nothing of the key.
CommitRefresh(r) ==
  /\ \/ /\ Step(r, "commit", "validate")
        /\ fresh' = [fresh EXCEPT ![KeyOf(r)] = seen[r]]
     \/ /\ Step(r, "commit", "fail")
        /\ UNCHANGED fresh
  /\ UNCHANGED <<row, asked, rows, enq, retry, cur, stale, seen,
                 overtaken, used>>

\* _validate_refresh_with_repair: the report is good, or the plan is run again.
Validate(r) ==
  /\ Step(r, "validate", "complete")
  /\ UNCHANGED <<row, asked, rows, fresh, enq, retry, cur, stale, seen,
                 overtaken, used>>
Repair(r) == Execute(r, "validate", "recommit")
CommitRepair(r) ==
  /\ \/ /\ \E to \in {"complete", "fail"} : Step(r, "recommit", to)
        /\ fresh' = [fresh EXCEPT ![KeyOf(r)] = seen[r]]
     \/ /\ Step(r, "recommit", "fail")
        /\ UNCHANGED fresh
  /\ UNCHANGED <<row, asked, rows, enq, retry, cur, stale, seen,
                 overtaken, used>>

\* mark_completed and mark_failed, unconditional.
Mark(r) ==
  /\ pc[r] \in {"complete", "fail"}
  /\ row' = SetStatus({cur[r]}, IF pc[r] = "complete" THEN "completed" ELSE "failed")
  /\ Stop(r)
  /\ UNCHANGED <<asked, rows, fresh, enq, retry, overtaken, used>>

\* An exception: after the rollback the row's attributes are expired, reading
\* task.id raises again, and mark_failed is never reached.
Raise(r) ==
  /\ pc[r] \in {"read", "commit", "validate", "recommit"}
  /\ Stop(r)
  /\ UNCHANGED <<row, asked, rows, fresh, enq, retry, overtaken, used>>

-----------------------------------------------------------------------------
(* Operators, time and crashes.                                            *)

\* retry_failed_task reads the row and checks that it is failed ...
AskRetry(o, t) ==
  /\ retry[o] = 0
  /\ used.retries < MaxRetries
  /\ t \in WithStatus("failed")
  /\ retry' = [retry EXCEPT ![o] = t]
  /\ used' = [used EXCEPT !.retries = @ + 1]
  /\ UNCHANGED <<row, asked, rows, fresh, enq, pc, cur, stale, seen, overtaken>>

\* ... and makes it pending.
RetryFailed(o) ==
  /\ retry[o] # 0
  /\ row' = [row EXCEPT ![retry[o]] = [@ EXCEPT !.status = "pending", !.old = FALSE]]
  /\ overtaken' = (overtaken \/ Held(retry[o]))
  /\ retry' = [retry EXCEPT ![o] = 0]
  /\ UNCHANGED <<asked, rows, fresh, enq, pc, cur, stale, seen, used>>

\* A running row passes the timeout; a live refresh does so MaxSlow times.
Age(t) ==
  /\ t \in WithStatus("running")
  /\ ~row[t].old
  /\ row' = [row EXCEPT ![t].old = TRUE]
  /\ \/ ~Held(t) /\ UNCHANGED used
     \/ /\ Held(t)
        /\ used.slow < MaxSlow
        /\ used' = [used EXCEPT !.slow = @ + 1]
  /\ UNCHANGED <<asked, rows, fresh, enq, retry, pc, cur, stale, seen, overtaken>>

CrashRunner(r) ==
  /\ pc[r] # "idle"
  /\ used.crashes < MaxCrashes
  /\ used' = [used EXCEPT !.crashes = @ + 1]
  /\ Stop(r)
  /\ UNCHANGED <<row, asked, rows, fresh, enq, retry, overtaken>>

\* The enqueue raises or its process dies: the event is gone.
CrashEnqueuer(e) ==
  /\ enq[e] # Idle
  /\ used.crashes < MaxCrashes
  /\ used' = [used EXCEPT !.crashes = @ + 1]
  /\ enq' = [enq EXCEPT ![e] = Idle]
  /\ UNCHANGED <<row, asked, rows, fresh, retry, pc, cur, stale, seen, overtaken>>

RunnerStep(r) ==
  \/ BeginPass(r) \/ FailStale(r) \/ CheckRunning(r) \/ Pick(r) \/ Claim(r)
  \/ Read(r) \/ CommitRefresh(r) \/ Validate(r) \/ Repair(r) \/ CommitRepair(r)
  \/ Mark(r)

Next ==
  \/ \E k \in Keys : Ingest(k)
  \/ \E e \in Enqueuers, k \in Keys : StartEnqueue(e, k)
  \/ \E e \in Enqueuers : CommitEnqueue(e) \/ CrashEnqueuer(e)
  \/ \E r \in Runners : RunnerStep(r) \/ Raise(r) \/ CrashRunner(r)
  \/ \E o \in Operators, t \in TaskIds : AskRetry(o, t)
  \/ \E o \in Operators : RetryFailed(o)
  \/ \E t \in TaskIds : Age(t)

\* Beat starts a worker every minute, a worker runs on or is stopped by its
\* time limit, and a row nobody runs grows old.
Fairness ==
  /\ \A r \in Runners : WF_vars(RunnerStep(r))
  /\ \A t \in TaskIds : WF_vars(Age(t))

Spec == Init /\ [][Next]_vars
FairSpec == Spec /\ Fairness

-----------------------------------------------------------------------------
(* Properties.                                                             *)

\* A completed row has served every trigger merged into it: the committed
\* projection shows all the ingestions they reported, even when the merge hit
\* a row a worker had claimed since enqueue_refresh read it as pending, and
\* whatever timeouts and stale writes did to its status.  The exception is a
\* row an operator put back to pending under a worker that still ran it.
CompletedIsFresh ==
  ~overtaken =>
    \A t \in WithStatus("completed") : asked[t] <= fresh[row[t].key]

\* The queue is serial: its design document promises that one item executes at a
\* time.  claim_next_refresh_task has no lock between its check that nothing runs
\* and its update, so two workers break the promise; with one worker it is kept.
OneRefreshRunning == Cardinality(WithStatus("running")) <= 1

\* A refresh never replaces a projection by one that shows less, although two
\* workers may refresh the same key at once.
FreshNeverRegresses == [][\A k \in Keys : fresh'[k] >= fresh[k]]_vars

\* No row stays open: not when its worker dies, raises, or is overtaken.
OpenRowsEnd ==
  \A t \in TaskIds :
    t \in WithStatus("pending") \cup WithStatus("running")
      ~> t \in WithStatus("completed") \cup WithStatus("failed")
=============================================================================
