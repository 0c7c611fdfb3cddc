--------------------------- MODULE CloudSyncQueue ---------------------------
(***************************************************************************)
(* The queue of automatic cloud-sync tasks (table cloud_b_class_sync_tasks)*)
(* and everyone who writes it: the dispatcher called for each DATA_INGESTED*)
(* event, the workers of CloudBClassAutoSyncRuntime, the lease heartbeats, *)
(* the recovery of stale tasks, the auto-recovery job and the admin        *)
(* commands.                                                               *)
(*                                                                         *)
(* Claims, dispatches, recoveries and commands read rows in one statement  *)
(* and write them in a later one, so each takes two steps.  SQLAlchemy     *)
(* writes only the columns that differ from the values read: a claim of a  *)
(* task read as "running" does not write the status column.  Times are     *)
(* abstracted: a lease is absent, live or expired, the time of a retry is  *)
(* absent, to come or past.  The sync itself is CloudTableSync; here an    *)
(* execution notes how many ingestions its last read saw and ends in one   *)
(* of the ways run_one distinguishes.                                      *)
(***************************************************************************)
EXTENDS Naturals, FiniteSets

CONSTANTS
  Tables, Workers, Dispatchers,
  Clerks,         \* sessions of admin commands and of the auto-recovery job
  NoWorker,       \* claimed_by is NULL
  MaxTasks,       \* bound: rows of the task table
  MaxRetries,     \* MAX_RETRY_ATTEMPTS
  RecoverLimit,   \* LIMIT of one auto-recovery pass
  MaxIngests,     \* bound: ingestions per table
  MaxCrashes,     \* bound: crashes of processes, loops and heartbeat threads
  MaxCommands,    \* bound: admin commands and deployments
  MaxRecoveries   \* bound: passes of the auto-recovery job that reset a task

ASSUME NoWorkerAssumption == NoWorker \notin Workers
ASSUME QueueBounds ==
  /\ MaxTasks \in Nat /\ MaxRetries \in Nat /\ RecoverLimit \in Nat
  /\ MaxIngests \in Nat /\ MaxCrashes \in Nat /\ MaxCommands \in Nat
  /\ MaxRecoveries \in Nat

VARIABLES
  task,      \* task[t]: the row with id t
  events,    \* events[tb]: DATA_INGESTED events not yet handled
  rows,      \* rows[tb]: committed ingestions into tb
  synced,    \* synced[tb]: ghost, ingestions a successful sync has covered
  asked,     \* asked[t]: ghost, ingestions committed when t was inserted
  find,      \* find[d]: dispatcher d between its SELECT and its write
  pc,        \* pc[w]: where the loop of worker w is
  cur,       \* cur[w]: id of the task w claims or runs, 0 for none
  snap,      \* snap[w]: rows as the SELECT of w's claim or recovery loaded them
  beating,   \* beating[w]: the heartbeat thread of w is alive
  seen,      \* seen[w]: ingestions the last read of the execution saw
  desk,      \* desk[c]: what c has read and will write, and how
  enabled,   \* the auto-sync switch
  crashes, commands, recoveries

taskVars == <<task, asked>>
ingestVars == <<events, rows, find>>
workerVars == <<pc, cur, snap, beating, seen>>
serviceVars == <<desk, enabled>>
budgets == <<crashes, commands, recoveries>>
vars == <<task, events, rows, synced, asked, find, pc, cur, snap, beating,
          seen, desk, enabled, crashes, commands, recoveries>>

TaskIds == 1..MaxTasks
Statuses == {"pending", "running", "retry_waiting",
             "completed", "partial_success", "failed", "cancelled"}
Steps == {"starting", "idle", "recover", "claim", "commit", "run", "finish",
          "error", "down"}
RunnableStatuses == {"pending", "running", "retry_waiting"}
Leases == {"none", "live", "expired"}
RetryTimes == {"none", "waiting", "due"}
Resets == {"cancel", "retry", "recover", "requeue"}
\* Error codes: none, one the worker retries, one the auto-recovery job resets,
\* any other.
Codes == {"none", "retryable", "recoverable", "permanent"}

Task == [table : Tables, status : Statuses, claimedBy : Workers \cup {NoWorker},
         lease : Leases, retryAt : RetryTimes, attempts : Nat, code : Codes,
         legacy : BOOLEAN]
Absent == [status |-> "absent"]
Idle == [at |-> "idle"]

Exists(t) == t \in TaskIds /\ task[t] # Absent
Rows == {t \in TaskIds : Exists(t)}
HasStatus(t, S) == Exists(t) /\ task[t].status \in S
Behind(tb) == synced[tb] < rows[tb]

\* Rows as a SELECT has loaded them.
Readings == [TaskIds -> Task \cup {Absent}]
Reading(S) == [t \in TaskIds |-> IF t \in S THEN task[t] ELSE Absent]
Nothing == Reading({})

TypeOK ==
  /\ task \in [TaskIds -> Task \cup {Absent}]
  /\ events \in [Tables -> Nat]
  /\ rows \in [Tables -> Nat]
  /\ synced \in [Tables -> Nat]
  /\ asked \in [TaskIds -> Nat]
  /\ find \in [Dispatchers ->
       {Idle} \cup [at : {"found"}, table : Tables, id : TaskIds \cup {0}]]
  /\ pc \in [Workers -> Steps]
  /\ cur \in [Workers -> TaskIds \cup {0}]
  /\ snap \in [Workers -> Readings]
  /\ beating \in [Workers -> BOOLEAN]
  /\ seen \in [Workers -> Nat]
  /\ desk \in [Clerks -> {Idle} \cup [op : Resets, read : Readings]]
  /\ enabled \in BOOLEAN
  /\ crashes \in Nat
  /\ commands \in Nat
  /\ recoveries \in Nat

Init ==
  /\ task = [t \in TaskIds |-> Absent]
  /\ events = [tb \in Tables |-> 0]
  /\ rows = [tb \in Tables |-> 0]
  /\ synced = [tb \in Tables |-> 0]
  /\ asked = [t \in TaskIds |-> 0]
  /\ find = [d \in Dispatchers |-> Idle]
  /\ pc = [w \in Workers |-> "idle"]
  /\ cur = [w \in Workers |-> 0]
  /\ snap = [w \in Workers |-> Nothing]
  /\ beating = [w \in Workers |-> FALSE]
  /\ seen = [w \in Workers |-> 0]
  /\ desk = [c \in Clerks |-> Idle]
  /\ enabled = TRUE
  /\ crashes = 0
  /\ commands = 0
  /\ recoveries = 0

-----------------------------------------------------------------------------
(* Ingestion and dispatch.                                                 *)

\* Rows are committed to tb, then DATA_INGESTED is emitted.
Ingest(tb) ==
  /\ rows[tb] < MaxIngests
  /\ rows' = [rows EXCEPT ![tb] = @ + 1]
  /\ events' = [events EXCEPT ![tb] = @ + 1]
  /\ UNCHANGED <<taskVars, synced, find, workerVars, serviceVars, budgets>>

RunnableOf(tb) == {t \in Rows : /\ task[t].table = tb
                                /\ task[t].status \in RunnableStatuses}

\* _find_existing_task: the newest runnable task of the table, 0 for none.
FindTask(d, tb) ==
  /\ find[d] = Idle
  /\ events[tb] > 0
  /\ events' = [events EXCEPT ![tb] = @ - 1]
  /\ \E n \in RunnableOf(tb) \cup {0} :
       /\ \A t \in RunnableOf(tb) : t <= n
       /\ find' = [find EXCEPT ![d] = [at |-> "found", table |-> tb, id |-> n]]
  /\ UNCHANGED <<taskVars, rows, synced, workerVars, serviceVars, budgets>>

\* Faulty variant: a status of the parent run's vocabulary.
NewTaskSubmitted(tb) ==
  [table |-> tb, status |-> "submitted", claimedBy |-> NoWorker,
   lease |-> "none", retryAt |-> "none", attempts |-> 0, code |-> "none",
   legacy |-> FALSE]

NewTask(tb) == [table |-> tb, status |-> "pending", claimedBy |-> NoWorker,
                lease |-> "none", retryAt |-> "none", attempts |-> 0,
                code |-> "none", legacy |-> FALSE]

\* Coalescing counts the trigger in the metadata of the row and leaves its
\* status alone; otherwise a row is inserted with the next id.
CommitDispatch(d) ==
  /\ find[d] # Idle
  /\ find' = [find EXCEPT ![d] = Idle]
  /\ \/ /\ find[d].id # 0
        /\ UNCHANGED taskVars
     \/ /\ find[d].id = 0
        /\ \E t \in TaskIds \ Rows :
             /\ \A u \in TaskIds : u < t => u \in Rows
             /\ task' = [task EXCEPT ![t] = NewTask(find[d].table)]
             /\ asked' = [asked EXCEPT ![t] = rows[find[d].table]]
  /\ UNCHANGED <<events, rows, synced, workerVars, serviceVars, budgets>>

-----------------------------------------------------------------------------
(* Rows that are read, reset and written back.                             *)

Stale(t) == HasStatus(t, {"running"}) /\ task[t].lease = "expired"
StaleTasks == {t \in TaskIds : Stale(t)}

Reset(r) == [r EXCEPT !.status = "pending", !.retryAt = "none",
                      !.code = "none", !.claimedBy = NoWorker, !.lease = "none"]

\* Faulty variant: the lease is taken away, the status forgotten.
RecoveredUnqueued(r) ==
  [r EXCEPT !.claimedBy = NoWorker, !.lease = "none", !.retryAt = "none"]

\* A stale task goes back to the queue, unless it belongs to another scope.
Recovered(r) ==
  IF r.legacy THEN [Reset(r) EXCEPT !.status = "failed", !.code = "recoverable"]
              ELSE Reset(r)

\* The auto-recovery job sets the time of the retry to now.
Requeued(r) == [Reset(r) EXCEPT !.retryAt = "due"]

\* cancel_task, whatever the status is; claimed_by stays.
Cancelled(r) == [r EXCEPT !.status = "cancelled", !.retryAt = "none",
                          !.lease = "none"]

After(op, r) == CASE op = "cancel" -> Cancelled(r)
                  [] op = "retry" -> Reset(r)
                  [] op = "recover" -> Recovered(r)
                  [] op = "requeue" -> Requeued(r)

\* The row after an UPDATE of the columns in which new differs from what was
\* read; now is the row as it is by then.
Merge(old, new, now) ==
  LET Column(o, n, c) == IF n # o THEN n ELSE c
  IN [now EXCEPT
        !.status = Column(old.status, new.status, @),
        !.claimedBy = Column(old.claimedBy, new.claimedBy, @),
        !.lease = Column(old.lease, new.lease, @),
        !.retryAt = Column(old.retryAt, new.retryAt, @),
        !.code = Column(old.code, new.code, @)]

WriteBack(op, read) ==
  task' = [t \in TaskIds |-> IF read[t] = Absent THEN task[t]
                              ELSE Merge(read[t], After(op, read[t]), task[t])]

-----------------------------------------------------------------------------
(* The worker: one loop of recover, claim, run, finish.                    *)

\* The process starts: start() recovers stale tasks before the loop begins ...
Restart(w) ==
  /\ pc[w] = "down"
  /\ snap' = [snap EXCEPT ![w] = Reading(StaleTasks)]
  /\ pc' = [pc EXCEPT ![w] = IF StaleTasks = {} THEN "idle" ELSE "starting"]
  /\ UNCHANGED <<taskVars, ingestVars, synced, cur, beating, seen, serviceVars,
                 budgets>>

\* ... and the loop does so again before it asks a worker for a task.
BeginLoop(w) ==
  /\ pc[w] = "idle"
  /\ snap' = [snap EXCEPT ![w] = Reading(StaleTasks)]
  /\ pc' = [pc EXCEPT ![w] = IF StaleTasks = {} THEN "claim" ELSE "recover"]
  /\ UNCHANGED <<taskVars, ingestVars, synced, cur, beating, seen, serviceVars,
                 budgets>>

CommitRecovery(w) ==
  /\ pc[w] \in {"starting", "recover"}
  /\ WriteBack("recover", snap[w])
  /\ snap' = [snap EXCEPT ![w] = Nothing]
  /\ pc' = [pc EXCEPT ![w] = IF pc[w] = "starting" THEN "idle" ELSE "claim"]
  /\ UNCHANGED <<ingestVars, synced, asked, cur, beating, seen, serviceVars,
                 budgets>>

\* Faulty variant: whatever has no outcome yet, a cancelled task included.
ClaimableOpen(t) == \/ HasStatus(t, {"pending", "retry_waiting", "cancelled"})
                    \/ Stale(t)

Claimable(t) == \/ HasStatus(t, {"pending"})
                \/ /\ HasStatus(t, {"retry_waiting"})
                   /\ task[t].retryAt # "waiting"
                \/ Stale(t)

\* claim_next_task loads the claimable row with the lowest id.
ClaimRead(w) ==
  /\ pc[w] = "claim"
  /\ enabled
  /\ \E t \in TaskIds :
       /\ Claimable(t)
       /\ \A u \in TaskIds : Claimable(u) => t <= u
       /\ cur' = [cur EXCEPT ![w] = t]
       /\ snap' = [snap EXCEPT ![w] = Reading({t})]
  /\ pc' = [pc EXCEPT ![w] = "commit"]
  /\ UNCHANGED <<taskVars, ingestVars, synced, beating, seen, serviceVars, budgets>>

ClaimNothing(w) ==
  /\ pc[w] = "claim"
  /\ ~enabled \/ ~\E t \in TaskIds : Claimable(t)
  /\ pc' = [pc EXCEPT ![w] = "idle"]
  /\ UNCHANGED <<taskVars, ingestVars, synced, cur, snap, beating, seen,
                 serviceVars, budgets>>

\* attempt_count is only ever compared with the limit: beyond it, one value.
Counted(n) == IF n <= MaxRetries THEN n + 1 ELSE n

\* The columns the claim's UPDATE sets, given the row its SELECT loaded.
Claimed(w, read, now) ==
  [now EXCEPT !.status = IF read.status = "running" THEN @ ELSE "running",
              !.claimedBy = IF read.claimedBy = w THEN @ ELSE w,
              !.lease = "live",
              !.attempts = Counted(read.attempts)]

ClaimCommit(w) ==
  /\ pc[w] = "commit"
  /\ task' = [task EXCEPT ![cur[w]] = Claimed(w, snap[w][cur[w]], @)]
  /\ snap' = [snap EXCEPT ![w] = Nothing]
  /\ pc' = [pc EXCEPT ![w] = "run"]
  /\ beating' = [beating EXCEPT ![w] = TRUE]
  /\ UNCHANGED <<ingestVars, synced, asked, cur, seen, serviceVars, budgets>>

Executing(w) == pc[w] \in {"run", "finish"}

\* The heartbeat thread renews the lease of the task while w is its owner.
Heartbeat(w) ==
  /\ Executing(w) /\ beating[w]
  /\ task[cur[w]].claimedBy = w
  /\ task' = [task EXCEPT ![cur[w]].lease = "live"]
  /\ UNCHANGED <<asked, ingestVars, synced, workerVars, serviceVars, budgets>>

\* The thread ends at its first exception; a host that sleeps stops it too.
HeartbeatStops(w) ==
  /\ Executing(w) /\ beating[w]
  /\ crashes < MaxCrashes
  /\ crashes' = crashes + 1
  /\ beating' = [beating EXCEPT ![w] = FALSE]
  /\ UNCHANGED <<taskVars, ingestVars, synced, pc, cur, snap, seen, serviceVars,
                 commands, recoveries>>

\* The last read of sync_table: what is committed later is not in this sync.
SyncReads(w) ==
  /\ pc[w] = "run"
  /\ seen' = [seen EXCEPT ![w] = rows[task[cur[w]].table]]
  /\ pc' = [pc EXCEPT ![w] = "finish"]
  /\ UNCHANGED <<taskVars, ingestVars, synced, cur, snap, beating, serviceVars,
                 budgets>>

\* run_one commits the outcome on a freshly loaded row, whoever owns it by now.
Finished(r, status, code) ==
  [r EXCEPT !.status = status, !.code = code, !.lease = "none",
            !.retryAt = IF status = "retry_waiting" THEN "waiting" ELSE "none"]

\* Faulty variants: an off-by-one, and no limit at all.
MayRetryOnceMore(r, code) == code = "retryable" /\ r.attempts <= MaxRetries + 1
MayRetryAlways(r, code) == code = "retryable"

MayRetry(r, code) == code = "retryable" /\ r.attempts <= MaxRetries

\* Faulty variant: an execution that has not read to the end counts as synced.
FinishSyncedEarly(w) ==
  /\ Executing(w)
  /\ LET tb == task[cur[w]].table
     IN synced' = [synced EXCEPT ![tb] = IF @ < seen[w] THEN seen[w] ELSE @]
  /\ task' = [task EXCEPT ![cur[w]] = Finished(@, "completed", "none")]
  /\ pc' = [pc EXCEPT ![w] = "idle"]
  /\ cur' = [cur EXCEPT ![w] = 0]
  /\ beating' = [beating EXCEPT ![w] = FALSE]
  /\ seen' = [seen EXCEPT ![w] = 0]
  /\ UNCHANGED <<asked, ingestVars, snap, serviceVars, budgets>>

\* The table is synced; the projection was enqueued, or failed.
FinishSynced(w) ==
  /\ pc[w] = "finish"
  /\ LET tb == task[cur[w]].table
     IN synced' = [synced EXCEPT ![tb] = IF @ < seen[w] THEN seen[w] ELSE @]
  /\ \/ task' = [task EXCEPT ![cur[w]] = Finished(@, "completed", "none")]
     \/ task' = [task EXCEPT ![cur[w]] =
                   Finished(@, "partial_success", "retryable")]
  /\ pc' = [pc EXCEPT ![w] = "idle"]
  /\ cur' = [cur EXCEPT ![w] = 0]
  /\ beating' = [beating EXCEPT ![w] = FALSE]
  /\ seen' = [seen EXCEPT ![w] = 0]
  /\ UNCHANGED <<asked, ingestVars, snap, serviceVars, budgets>>

\* Faulty variant: an exception leaves the loop before the row is written.
FinishFailedSilently(w) ==
  /\ Executing(w)
  /\ pc' = [pc EXCEPT ![w] = "idle"]
  /\ cur' = [cur EXCEPT ![w] = 0]
  /\ beating' = [beating EXCEPT ![w] = FALSE]
  /\ seen' = [seen EXCEPT ![w] = 0]
  /\ UNCHANGED <<taskVars, ingestVars, synced, snap, serviceVars, budgets>>

\* The sync failed, at any point of the execution.
FinishFailed(w) ==
  /\ Executing(w)
  /\ \E code \in Codes \ {"none"} :
       task' = [task EXCEPT ![cur[w]] =
                  Finished(@, IF MayRetry(@, code) THEN "retry_waiting"
                                                   ELSE "failed", code)]
  /\ pc' = [pc EXCEPT ![w] = "idle"]
  /\ cur' = [cur EXCEPT ![w] = 0]
  /\ beating' = [beating EXCEPT ![w] = FALSE]
  /\ seen' = [seen EXCEPT ![w] = 0]
  /\ UNCHANGED <<asked, ingestVars, synced, snap, serviceVars, budgets>>

\* What a loop has in memory goes with it.
Lose(w) ==
  /\ crashes < MaxCrashes
  /\ crashes' = crashes + 1
  /\ cur' = [cur EXCEPT ![w] = 0]
  /\ snap' = [snap EXCEPT ![w] = Nothing]
  /\ beating' = [beating EXCEPT ![w] = FALSE]
  /\ seen' = [seen EXCEPT ![w] = 0]
  /\ UNCHANGED <<taskVars, ingestVars, synced, serviceVars, commands,
                 recoveries>>

\* The process dies; its supervisor starts it again.
Crash(w) ==
  /\ pc[w] # "down"
  /\ pc' = [pc EXCEPT ![w] = "down"]
  /\ Lose(w)

\* A statement outside run_one's try block raises: the loop ends with status
\* "error", and nothing in the process that lives on starts it again.
LoopEnds(w) ==
  /\ pc[w] \notin {"down", "error"}
  /\ pc' = [pc EXCEPT ![w] = "error"]
  /\ Lose(w)

-----------------------------------------------------------------------------
(* Time.                                                                   *)

Renewed(t) == \E w \in Workers : /\ Executing(w) /\ cur[w] = t
                                 /\ beating[w] /\ task[t].claimedBy = w

LeaseExpires(t) ==
  /\ Exists(t) /\ task[t].lease = "live"
  /\ ~Renewed(t)
  /\ task' = [task EXCEPT ![t].lease = "expired"]
  /\ UNCHANGED <<asked, ingestVars, synced, workerVars, serviceVars, budgets>>

RetryDue(t) ==
  /\ HasStatus(t, {"retry_waiting"}) /\ task[t].retryAt = "waiting"
  /\ task' = [task EXCEPT ![t].retryAt = "due"]
  /\ UNCHANGED <<asked, ingestVars, synced, workerVars, serviceVars, budgets>>

-----------------------------------------------------------------------------
(* The auto-recovery job and the admin commands.                           *)

Command == commands < MaxCommands /\ commands' = commands + 1

\* c selects the rows S and is going to write them back reset by op.
Select(c, op, S) ==
  /\ desk[c] = Idle
  /\ S # {}
  /\ desk' = [desk EXCEPT ![c] = [op |-> op, read |-> Reading(S)]]
  /\ UNCHANGED <<taskVars, ingestVars, synced, workerVars, enabled, crashes>>

AutoRecoverable(t) == Stale(t) \/ (HasStatus(t, {"failed"})
                                   /\ task[t].code = "recoverable")

\* One pass looks at a limited number of failed and running rows, oldest
\* update first, and resets those it recognises.
AutoRecover(c) ==
  /\ recoveries < MaxRecoveries
  /\ recoveries' = recoveries + 1
  /\ \E S \in SUBSET {t \in Rows : task[t].status \in {"failed", "running"}} :
       /\ Cardinality(S) <= RecoverLimit
       /\ Select(c, "requeue", {t \in S : AutoRecoverable(t)})
  /\ UNCHANGED commands

CancelTask(c, t) ==
  /\ Command
  /\ Exists(t)
  /\ Select(c, "cancel", {t})
  /\ UNCHANGED recoveries

\* retry_task, whatever the status is; the attempts made so far stay counted.
RetryTask(c, t) ==
  /\ Command
  /\ Exists(t)
  /\ Select(c, "retry", {t})
  /\ UNCHANGED recoveries

RetryFailed(c) ==
  /\ Command
  /\ Select(c, "retry", {t \in TaskIds :
                           HasStatus(t, {"failed", "partial_success"})})
  /\ UNCHANGED recoveries

RecoverStaleTasks(c) ==
  /\ Command
  /\ Select(c, "recover", StaleTasks)
  /\ UNCHANGED recoveries

\* The session commits what it has changed.
Commit(c) ==
  /\ desk[c] # Idle
  /\ WriteBack(desk[c].op, desk[c].read)
  /\ desk' = [desk EXCEPT ![c] = Idle]
  /\ UNCHANGED <<asked, ingestVars, synced, workerVars, enabled, budgets>>

\* trigger_sync, and sync_now for each table that needs a catch-up.
TriggerSync(tb) ==
  /\ Command
  /\ events' = [events EXCEPT ![tb] = @ + 1]
  /\ UNCHANGED <<taskVars, rows, find, synced, workerVars, serviceVars, crashes,
                 recoveries>>

UpdateSettings ==
  /\ Command
  /\ enabled' = ~enabled
  /\ UNCHANGED <<taskVars, ingestVars, synced, workerVars, desk, crashes,
                 recoveries>>

\* The deployment is stopped, to start again with another checkpoint scope.
ChangeScope ==
  /\ Command
  /\ \A w \in Workers : pc[w] = "down"
  /\ task' = [t \in TaskIds |-> IF Exists(t) THEN [task[t] EXCEPT !.legacy = TRUE]
                                             ELSE task[t]]
  /\ UNCHANGED <<asked, ingestVars, synced, workerVars, serviceVars, crashes,
                 recoveries>>

-----------------------------------------------------------------------------
WorkerStep(w) == \/ BeginLoop(w)
                 \/ CommitRecovery(w)
                 \/ ClaimRead(w)
                 \/ ClaimNothing(w)
                 \/ ClaimCommit(w)
                 \/ SyncReads(w)
                 \/ FinishSynced(w)
                 \/ FinishFailed(w)

Admin == \/ \E c \in Clerks : \/ \E t \in TaskIds : CancelTask(c, t) \/ RetryTask(c, t)
                             \/ RetryFailed(c)
                             \/ RecoverStaleTasks(c)
         \/ \E tb \in Tables : TriggerSync(tb)
         \/ UpdateSettings
         \/ ChangeScope

Next == \/ \E tb \in Tables : Ingest(tb)
        \/ \E d \in Dispatchers :
             CommitDispatch(d) \/ \E tb \in Tables : FindTask(d, tb)
        \/ \E w \in Workers : \/ WorkerStep(w)
                              \/ Heartbeat(w)
                              \/ HeartbeatStops(w)
                              \/ Crash(w)
                              \/ LoopEnds(w)
                              \/ Restart(w)
        \/ \E t \in TaskIds : LeaseExpires(t) \/ RetryDue(t)
        \/ \E c \in Clerks : AutoRecover(c) \/ Commit(c)
        \/ Admin

Spec == Init /\ [][Next]_vars

\* The loop polls for ever, a process that died is started again by its
\* supervisor, time passes.  Nothing brings back a loop that ended in an error,
\* and nothing is assumed of ingestion, the admin or the auto-recovery job.
Fairness ==
  /\ \A w \in Workers : WF_vars(WorkerStep(w)) /\ WF_vars(Restart(w))
  /\ \A t \in TaskIds : WF_vars(LeaseExpires(t)) /\ WF_vars(RetryDue(t))

FairSpec == Spec /\ Fairness

-----------------------------------------------------------------------------
(* Correctness.                                                            *)

\* A row that says "running" and carries no lease: every way to take a task back
\* from a dead worker asks for an expired lease, so it may be lost for good.
Stranded(t) == HasStatus(t, {"running"}) /\ task[t].lease = "none"

\* A command is committed to t, which has been claimed since the command read it.
OverClaim(t) == \E c \in Clerks : /\ Commit(c)
                                  /\ desk[c].read[t] # Absent
                                  /\ desk[c].read[t].status # "running"

\* A row is stranded in one way only: by a command that read it before it was
\* claimed, and takes away the lease without writing the status.  No other
\* interleaving of claims, finishes, heartbeats, recoveries and crashes does it.
RunningIsReclaimable ==
  [][\A t \in TaskIds : Stranded(t)' => Stranded(t) \/ OverClaim(t)]_vars

\* While nothing has crashed, a row that says "running" is being run.
RunningIsExecuted ==
  crashes = 0 => \A t \in TaskIds : HasStatus(t, {"running"}) =>
                   \E w \in Workers : Executing(w) /\ cur[w] = t

\* A task that says "completed" has synced at least what had been ingested when
\* it was created, however often it was claimed, lost, reset or run twice.
CompletedCoversCreation ==
  \A t \in TaskIds : HasStatus(t, {"completed"}) =>
                       asked[t] <= synced[task[t].table]

\* A worker takes up a task whose attempts are used up only when somebody put it
\* back: an admin, the auto-recovery job, or the recovery after a crash.
BudgetRespected ==
  commands = 0 /\ recoveries = 0 /\ crashes = 0 =>
    \A w \in Workers :
      pc[w] = "commit" => snap[w][cur[w]].attempts <= MaxRetries

\* Unless auto-sync is switched off for good, or no loop is left that has not
\* ended in an error, no task stays in the queue for ever: crashes, lost leases
\* and retryable errors end in an outcome.  A stranded row is given up.
TasksSettle ==
  <>[](enabled /\ \E w \in Workers : pc[w] # "error") =>
    \A t \in TaskIds : HasStatus(t, RunnableStatuses)
                        ~> ~HasStatus(t, RunnableStatuses) \/ Stranded(t)

\* t was read, as anything but cancelled, and is about to be written back.
ReadEarlier(read, t) == read[t] # Absent /\ read[t].status # "cancelled"

\* t is written by an execution, by a claim, a recovery or a reset that read it
\* before it was cancelled, or by an admin's retry.
TakenBack(t) ==
  \/ \E w \in Workers : (Executing(w) /\ cur[w] = t) \/ ReadEarlier(snap[w], t)
  \/ \E c \in Clerks : /\ Commit(c) /\ desk[c].read[t] # Absent
                       /\ desk[c].op = "retry" \/ ReadEarlier(desk[c].read, t)

\* A cancellation is overwritten by those who had the task in their hands before
\* it.  Whoever reads the task as cancelled leaves it, except an admin's retry.
CancelledIsKept ==
  [][\A t \in TaskIds : HasStatus(t, {"cancelled"}) =>
                           HasStatus(t, {"cancelled"})' \/ TakenBack(t)]_vars

\* Once every event of a table is handled, a table that lags behind has a task
\* that has not completed: somebody will catch up.
BacklogHasTask ==
  \A tb \in Tables :
    /\ Behind(tb)
    /\ events[tb] = 0
    /\ \A d \in Dispatchers : find[d] # Idle => find[d].table # tb
    => \E t \in Rows : task[t].table = tb /\ task[t].status # "completed"

-----------------------------------------------------------------------------
(* Strengthenings used by the proofs.                                      *)

\* A worker between claim and outcome works on a row that exists, and its
\* SELECT loaded a row.
WorksOnRow ==
  \A w \in Workers :
    /\ pc[w] \in {"commit", "run", "finish"} => cur[w] \in Rows
    /\ pc[w] = "commit" => snap[w][cur[w]] # Absent

\* What a worker or a clerk has read exists, and was read in a status that a
\* claim, a recovery or the command looks for.
ReadsFit ==
  \A t \in TaskIds :
    /\ \A w \in Workers : snap[w][t] # Absent =>
         /\ t \in Rows
         /\ snap[w][t].status \in RunnableStatuses
         /\ pc[w] \in {"starting", "recover"} => snap[w][t].status = "running"
    /\ \A c \in Clerks : desk[c] # Idle /\ desk[c].read[t] # Absent =>
         /\ t \in Rows
         /\ desk[c].op \in {"recover", "requeue"} =>
              desk[c].read[t].status \in {"running", "failed"}

\* A worker that has read to the end has seen what its row was created for.
SeenCoversCreation ==
  /\ \A t \in Rows : asked[t] <= rows[task[t].table]
  /\ \A w \in Workers : pc[w] = "finish" => asked[cur[w]] <= seen[w]
=============================================================================
