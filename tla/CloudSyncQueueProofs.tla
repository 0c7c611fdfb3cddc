------------------------ MODULE CloudSyncQueueProofs ------------------------
(***************************************************************************)
(* Theorems about CloudSyncQueue, for any number of workers, dispatchers,  *)
(* tables and tasks and any limit of retries.                              *)
(***************************************************************************)
EXTENDS CloudSyncQueue, TLAPS

-----------------------------------------------------------------------------
(* What the writes of a row do.                                            *)

LEMMA RowIsTask ==
  ASSUME TypeOK, NEW t \in TaskIds
  PROVE  t \in Rows <=> task[t] \in Task
<1>1. Absent \notin Task
  BY DEF Absent, Task, Statuses
<1>2. QED
  BY <1>1 DEF TypeOK, Rows, Exists

LEMMA NewTaskType == ASSUME NEW tb \in Tables PROVE NewTask(tb) \in Task
  BY DEF NewTask, Task, Statuses, Leases, RetryTimes, Codes

LEMMA ClaimedType ==
  ASSUME NEW r \in Task, NEW read \in Task, NEW w \in Workers
  PROVE  /\ Claimed(w, read, r) \in Task
         /\ Claimed(w, read, r).table = r.table
         /\ Claimed(w, read, r).lease = "live"
         /\ Claimed(w, read, r).status \in {r.status, "running"}
<1>1. Counted(read.attempts) \in Nat
  BY QueueBounds DEF Counted, Task
<1>2. QED
  BY <1>1 DEF Claimed, Task, Statuses, Leases

LEMMA FinishedType ==
  ASSUME NEW r \in Task, NEW code \in Codes,
         NEW status \in {"completed", "partial_success", "failed", "retry_waiting"}
  PROVE  /\ Finished(r, status, code) \in Task
         /\ Finished(r, status, code).table = r.table
         /\ Finished(r, status, code).status = status
  BY DEF Finished, Task, Statuses, Leases, RetryTimes

LEMMA AfterType ==
  ASSUME NEW r \in Task, NEW op \in Resets
  PROVE  /\ After(op, r) \in Task
         /\ After(op, r).status \in {"cancelled", "pending", "failed"}
         /\ op = "cancel" => After(op, r).status = "cancelled"
<1>1. /\ Reset(r) \in Task /\ Reset(r).status = "pending"
      /\ Requeued(r) \in Task /\ Requeued(r).status = "pending"
  BY DEF Reset, Requeued, Task, Statuses, Leases, RetryTimes, Codes
<1>2. Recovered(r) \in Task /\ Recovered(r).status \in {"pending", "failed"}
  BY <1>1 DEF Recovered, Task, Statuses, Codes
<1>3. Cancelled(r) \in Task /\ Cancelled(r).status = "cancelled"
  BY DEF Cancelled, Task, Statuses, Leases, RetryTimes
<1>4. QED
  BY <1>1, <1>2, <1>3 DEF After, Resets

\* A reset that is written over a row as it has become: the status is the new
\* one or the row's own, and a row read as running does not stay running.
LEMMA MergeType ==
  ASSUME NEW op \in Resets, NEW old \in Task, NEW now \in Task
  PROVE  LET n == Merge(old, After(op, old), now)
         IN /\ n \in Task /\ n.table = now.table
            /\ n.status \in {now.status, "cancelled", "pending", "failed"}
            /\ old.status = "running" => n.status # "running"
            /\ op = "cancel" /\ now.status = "cancelled" => n.status = "cancelled"
<1> DEFINE new == After(op, old)
           n == Merge(old, new, now)
<1>1. /\ new \in Task /\ new.status \in {"cancelled", "pending", "failed"}
      /\ op = "cancel" => new.status = "cancelled"
  BY AfterType
<1> HIDE DEF new
<1>2. n \in Task /\ n.table = now.table
  BY <1>1 DEF Merge, Task
<1>3. n.status = IF new.status # old.status THEN new.status ELSE now.status
  BY <1>1 DEF Merge, Task
<1>4. QED
  BY <1>1, <1>2, <1>3 DEF new

-----------------------------------------------------------------------------
(* Every step writes rows well: it keeps a row's table, keeps running rows *)
(* leased but for an OverClaim, keeps cancelled rows but for a TakenBack,  *)
(* sets a row running only in a claim and completed only at the end of a   *)
(* sync, and creates rows that are pending.                                *)

Leased(r) == r.status = "running" => r.lease # "none"

Claiming(t) == \E w \in Workers : ClaimCommit(w) /\ cur[w] = t
Completing(t) == \E w \in Workers : FinishSynced(w) /\ cur[w] = t

\* n is written to row t.
WellWritten(t, n) ==
  /\ task[t] \in Task /\ n \in Task
  /\ n.table = task[t].table
  /\ Leased(task[t]) => Leased(n) \/ OverClaim(t)
  /\ task[t].status = "cancelled" => n.status = "cancelled" \/ TakenBack(t)
  /\ n.status = "running" => task[t].status = "running" \/ Claiming(t)
  /\ n.status = "completed" => task[t].status = "completed" \/ Completing(t)

RowsWellWritten ==
  /\ task' \in [TaskIds -> Task \cup {Absent}]
  /\ \A t \in TaskIds :
       \/ task'[t] = task[t]
       \/ WellWritten(t, task'[t])
       \/ /\ task[t] = Absent
          /\ \E tb \in Tables : task'[t] = NewTask(tb) /\ asked'[t] = rows[tb]

LEMMA OneRowWritten ==
  ASSUME TypeOK, NEW t \in TaskIds, NEW n, WellWritten(t, n),
         task' = [task EXCEPT ![t] = n]
  PROVE  RowsWellWritten
  BY DEF TypeOK, WellWritten, RowsWellWritten

LEMMA OneReading ==
  ASSUME NEW read \in Readings, NEW t \in TaskIds, read[t] # Absent
  PROVE  read[t] \in Task
  BY DEF Readings

\* A reset of rows that were read earlier, by a worker or by a clerk.
LEMMA ResetWritten ==
  ASSUME TypeOK, NEW op \in Resets, NEW read \in Readings, WriteBack(op, read),
         \A t \in TaskIds : read[t] # Absent =>
           /\ t \in Rows
           /\ read[t].status = "running" \/ OverClaim(t)
           /\ op = "cancel" \/ TakenBack(t)
  PROVE  RowsWellWritten
<1>1. ASSUME NEW t \in TaskIds, read[t] # Absent
      PROVE  WellWritten(t, Merge(read[t], After(op, read[t]), task[t]))
  <2> DEFINE n == Merge(read[t], After(op, read[t]), task[t])
  <2>1. task[t] \in Task /\ read[t] \in Task
    BY <1>1, RowIsTask, OneReading
  <2>2. /\ n \in Task /\ n.table = task[t].table
        /\ n.status \in {task[t].status, "cancelled", "pending", "failed"}
        /\ read[t].status = "running" => n.status # "running"
        /\ op = "cancel" /\ task[t].status = "cancelled" => n.status = "cancelled"
    BY <2>1, MergeType
  <2> HIDE DEF n
  <2>3. Leased(task[t]) => Leased(n) \/ OverClaim(t)
    BY <1>1, <2>2 DEF Leased
  <2>4. task[t].status = "cancelled" => n.status = "cancelled" \/ TakenBack(t)
    BY <1>1, <2>2
  <2>5. WellWritten(t, n)
    BY <2>1, <2>2, <2>3, <2>4 DEF WellWritten
  <2>6. QED
    BY <2>5 DEF n
<1>2. \A t \in TaskIds : task'[t] = IF read[t] = Absent THEN task[t]
        ELSE Merge(read[t], After(op, read[t]), task[t])
  BY DEF WriteBack
<1>3. task' \in [TaskIds -> Task \cup {Absent}]
  BY <1>1 DEF WriteBack, WellWritten, TypeOK
<1>4. QED
  BY <1>1, <1>2, <1>3 DEF RowsWellWritten

LEMMA RecoveryWritten ==
  ASSUME TypeOK, ReadsFit, NEW w \in Workers, CommitRecovery(w)
  PROVE  RowsWellWritten
<1>1. snap[w] \in Readings /\ WriteBack("recover", snap[w]) /\ "recover" \in Resets
  BY DEF TypeOK, CommitRecovery, Resets
<1>2. ASSUME NEW t \in TaskIds, snap[w][t] # Absent
      PROVE  t \in Rows /\ snap[w][t].status = "running" /\ TakenBack(t)
  BY <1>2 DEF ReadsFit, CommitRecovery, TakenBack, ReadEarlier
<1>3. QED
  BY <1>1, <1>2, ResetWritten

LEMMA CommitWritten ==
  ASSUME TypeOK, ReadsFit, NEW c \in Clerks, Commit(c)
  PROVE  RowsWellWritten
<1>1. /\ desk[c].read \in Readings /\ desk[c].op \in Resets /\ desk[c] # Idle
      /\ WriteBack(desk[c].op, desk[c].read)
  BY DEF TypeOK, Commit
<1>2. ASSUME NEW t \in TaskIds, desk[c].read[t] # Absent
      PROVE  /\ t \in Rows
             /\ desk[c].read[t].status = "running" \/ OverClaim(t)
             /\ desk[c].op = "cancel" \/ TakenBack(t)
  <2>1. t \in Rows
    BY <1>1, <1>2 DEF ReadsFit
  <2>2. desk[c].read[t].status = "running" \/ OverClaim(t)
    BY <1>2 DEF OverClaim
  <2>3. CASE desk[c].op = "retry"
    BY <1>2, <2>1, <2>2, <2>3 DEF TakenBack
  <2>4. CASE desk[c].op \in {"recover", "requeue"}
    <3>1. ReadEarlier(desk[c].read, t)
      BY <1>1, <1>2, <2>4 DEF ReadsFit, ReadEarlier
    <3>2. QED
      BY <1>2, <2>1, <2>2, <3>1 DEF TakenBack
  <2>5. QED
    BY <1>1, <2>1, <2>2, <2>3, <2>4 DEF Resets
<1>3. QED
  BY <1>1, <1>2, ResetWritten

LEMMA DispatchWritten ==
  ASSUME TypeOK, NEW d \in Dispatchers, CommitDispatch(d)
  PROVE  RowsWellWritten
<1>1. CASE UNCHANGED taskVars
  BY <1>1 DEF taskVars, TypeOK, RowsWellWritten
<1>2. CASE \E t \in TaskIds \ Rows :
             /\ task' = [task EXCEPT ![t] = NewTask(find[d].table)]
             /\ asked' = [asked EXCEPT ![t] = rows[find[d].table]]
  <2>1. find[d].table \in Tables
    BY DEF CommitDispatch, TypeOK
  <2>2. PICK t \in TaskIds \ Rows :
          /\ task' = [task EXCEPT ![t] = NewTask(find[d].table)]
          /\ asked' = [asked EXCEPT ![t] = rows[find[d].table]]
    BY <1>2
  <2>3. task[t] = Absent
    BY DEF Rows, Exists
  <2>4. NewTask(find[d].table) \in Task
    BY <2>1, NewTaskType
  <2>5. QED
    BY <2>1, <2>2, <2>3, <2>4 DEF TypeOK, RowsWellWritten
<1>3. QED
  BY <1>1, <1>2 DEF CommitDispatch

LEMMA ClaimWritten ==
  ASSUME TypeOK, WorksOnRow, ReadsFit, NEW w \in Workers, ClaimCommit(w)
  PROVE  RowsWellWritten
<1> DEFINE t == cur[w]
           n == Claimed(w, snap[w][t], task[t])
<1>1. pc[w] = "commit" /\ t \in Rows /\ snap[w][t] # Absent /\ t \in TaskIds
  BY DEF ClaimCommit, WorksOnRow, Rows
<1>2. task[t] \in Task /\ snap[w][t] \in Task
  BY <1>1, RowIsTask, OneReading DEF TypeOK
<1>3. /\ n \in Task /\ n.table = task[t].table
      /\ n.status \in {task[t].status, "running"} /\ n.lease = "live"
  BY <1>2, ClaimedType
<1>4. Claiming(t)
  BY DEF Claiming
<1>5. TakenBack(t)
  <2>1. snap[w][t].status # "cancelled"
    BY <1>1 DEF ReadsFit, RunnableStatuses
  <2>2. QED
    BY <1>1, <2>1 DEF TakenBack, ReadEarlier
<1>6. task' = [task EXCEPT ![t] = n]
  BY DEF ClaimCommit
<1> HIDE DEF t, n
<1>7. WellWritten(t, n)
  BY <1>2, <1>3, <1>4, <1>5 DEF WellWritten, Leased
<1>8. QED
  BY <1>1, <1>6, <1>7, OneRowWritten

LEMMA LeaseWritten ==
  ASSUME TypeOK, NEW t \in Rows, NEW l \in {"live", "expired"},
         task' = [task EXCEPT ![t].lease = l]
  PROVE  RowsWellWritten
<1>1. t \in TaskIds /\ task[t] \in Task
  BY RowIsTask DEF Rows
<1>2. task' = [task EXCEPT ![t] = [task[t] EXCEPT !.lease = l]]
  BY <1>1 DEF TypeOK
<1>3. WellWritten(t, [task[t] EXCEPT !.lease = l])
  BY <1>1 DEF WellWritten, Leased, Task, Leases
<1>4. QED
  BY <1>1, <1>2, <1>3, OneRowWritten

LEMMA FinishWrites ==
  ASSUME NEW w \in Workers, FinishSynced(w) \/ FinishFailed(w)
  PROVE  \E status \in {"completed", "partial_success", "failed", "retry_waiting"},
            code \in Codes :
           /\ task' = [task EXCEPT ![cur[w]] =
                         Finished(task[cur[w]], status, code)]
           /\ status = "completed" => FinishSynced(w)
<1>1. CASE FinishSynced(w)
  BY <1>1 DEF FinishSynced, Codes
<1>2. CASE FinishFailed(w)
  <2>1. PICK code \in Codes :
          task' = [task EXCEPT ![cur[w]] =
            Finished(task[cur[w]], IF MayRetry(task[cur[w]], code)
                                   THEN "retry_waiting" ELSE "failed", code)]
    BY <1>2 DEF FinishFailed
  <2>2. QED
    BY <2>1
<1>3. QED
  BY <1>1, <1>2

LEMMA FinishWritten ==
  ASSUME TypeOK, WorksOnRow, NEW w \in Workers,
         FinishSynced(w) \/ FinishFailed(w)
  PROVE  RowsWellWritten /\ task'[cur[w]].status # "running"
<1>1. cur[w] \in TaskIds /\ task[cur[w]] \in Task
  BY RowIsTask DEF FinishSynced, FinishFailed, Executing, WorksOnRow, Rows
<1>2. PICK status \in {"completed", "partial_success", "failed", "retry_waiting"},
           code \in Codes :
        /\ task' = [task EXCEPT ![cur[w]] = Finished(task[cur[w]], status, code)]
        /\ status = "completed" => FinishSynced(w)
  BY FinishWrites
<1>3. WellWritten(cur[w], Finished(task[cur[w]], status, code))
  <2>1. TakenBack(cur[w])
    BY DEF FinishSynced, FinishFailed, Executing, TakenBack
  <2>2. QED
    BY <1>1, <1>2, <2>1, FinishedType DEF WellWritten, Leased, Completing
<1>4. RowsWellWritten
  BY <1>1, <1>2, <1>3, OneRowWritten
<1>5. task'[cur[w]].status # "running"
  BY <1>1, <1>2, FinishedType DEF TypeOK
<1>6. QED
  BY <1>4, <1>5

LEMMA RetryDueWritten ==
  ASSUME TypeOK, NEW t \in TaskIds, RetryDue(t)
  PROVE  RowsWellWritten
<1>1. task[t] \in Task
  BY RowIsTask DEF RetryDue, HasStatus, Rows
<1>2. task' = [task EXCEPT ![t] = [task[t] EXCEPT !.retryAt = "due"]]
  BY DEF RetryDue, TypeOK
<1>3. WellWritten(t, [task[t] EXCEPT !.retryAt = "due"])
  BY <1>1 DEF WellWritten, Leased, Task, RetryTimes
<1>4. QED
  BY <1>2, <1>3, OneRowWritten

LEMMA ScopeWritten ==
  ASSUME TypeOK, ChangeScope
  PROVE  RowsWellWritten
<1>1. ASSUME NEW t \in TaskIds, Exists(t)
      PROVE  WellWritten(t, [task[t] EXCEPT !.legacy = TRUE])
  <2>1. task[t] \in Task
    BY <1>1, RowIsTask DEF Rows
  <2>2. QED
    BY <2>1 DEF WellWritten, Leased, Task
<1>2. QED
  BY <1>1 DEF ChangeScope, RowsWellWritten, WellWritten, TypeOK

\* The first half of the auto-recovery job and of the admin commands reads rows
\* that exist, and writes none.
Selecting == \E c \in Clerks, op \in Resets, S \in SUBSET Rows :
               /\ Select(c, op, S)
               /\ op \in {"recover", "requeue"} =>
                    \A t \in S : task[t].status \in {"running", "failed"}

LEMMA CommandsSelect ==
  ASSUME NEW c \in Clerks,
         \/ AutoRecover(c) \/ RetryFailed(c) \/ RecoverStaleTasks(c)
         \/ \E t \in TaskIds : CancelTask(c, t) \/ RetryTask(c, t)
  PROVE  /\ Selecting
         /\ crashes' = crashes
         /\ \/ commands' = commands + 1 /\ recoveries' = recoveries
            \/ commands' = commands /\ recoveries' = recoveries + 1
<1>1. CASE AutoRecover(c)
  <2>1. PICK S \in SUBSET Rows : Select(c, "requeue", {t \in S : AutoRecoverable(t)})
    BY <1>1 DEF AutoRecover
  <2>2. \A t \in S : AutoRecoverable(t) => task[t].status \in {"running", "failed"}
    BY DEF AutoRecoverable, Stale, HasStatus
  <2>3. Selecting
    BY <2>1, <2>2 DEF Selecting, Resets
  <2>4. QED
    BY <1>1, <2>1, <2>3 DEF AutoRecover, Select
<1>2. CASE RetryFailed(c)
  BY <1>2 DEF RetryFailed, Selecting, Resets, Select, HasStatus, Rows, Command
<1>3. CASE RecoverStaleTasks(c)
  BY <1>3 DEF RecoverStaleTasks, StaleTasks, Stale, Selecting, Resets, Select,
              HasStatus, Rows, Command
<1>4. ASSUME NEW t \in TaskIds, CancelTask(c, t) \/ RetryTask(c, t)
      PROVE  /\ Selecting
             /\ crashes' = crashes
             /\ commands' = commands + 1 /\ recoveries' = recoveries
  BY <1>4 DEF CancelTask, RetryTask, Selecting, Resets, Select, Rows, Command
<1>5. QED
  BY <1>1, <1>2, <1>3, <1>4

\* The steps, with the commands and the auto-recovery job in halves.
LEMMA NextCases ==
  ASSUME [Next]_vars
  PROVE  \/ \E tb \in Tables : Ingest(tb) \/ TriggerSync(tb)
         \/ \E d \in Dispatchers :
              CommitDispatch(d) \/ \E tb \in Tables : FindTask(d, tb)
         \/ \E w \in Workers : \/ WorkerStep(w) \/ Heartbeat(w) \/ HeartbeatStops(w)
                               \/ Crash(w) \/ LoopEnds(w) \/ Restart(w)
         \/ \E t \in TaskIds : LeaseExpires(t) \/ RetryDue(t)
         \/ \E c \in Clerks : Commit(c)
         \/ Selecting /\ crashes' = crashes
              /\ \/ commands' = commands + 1 /\ recoveries' = recoveries
                 \/ commands' = commands /\ recoveries' = recoveries + 1
         \/ UpdateSettings \/ ChangeScope \/ UNCHANGED vars
  BY CommandsSelect DEF Next, Admin

LEMMA NextWritten ==
  ASSUME TypeOK, WorksOnRow, ReadsFit, [Next]_vars
  PROVE  RowsWellWritten
<1>1. ASSUME task' = task
      PROVE  RowsWellWritten
  BY <1>1 DEF RowsWellWritten, TypeOK
<1>2. ASSUME NEW w \in Workers, WorkerStep(w)
      PROVE  RowsWellWritten
  BY <1>1, <1>2, RecoveryWritten, ClaimWritten, FinishWritten
  DEF WorkerStep, BeginLoop, ClaimRead, ClaimNothing, SyncReads, taskVars
<1>3. ASSUME NEW w \in Workers, Heartbeat(w)
      PROVE  RowsWellWritten
  <2>1. cur[w] \in Rows /\ task' = [task EXCEPT ![cur[w]].lease = "live"]
    BY <1>3 DEF Heartbeat, Executing, WorksOnRow
  <2>2. QED
    BY <2>1, LeaseWritten
<1>4. ASSUME NEW w \in Workers,
             HeartbeatStops(w) \/ Crash(w) \/ LoopEnds(w) \/ Restart(w)
      PROVE  RowsWellWritten
  BY <1>1, <1>4 DEF HeartbeatStops, Crash, LoopEnds, Lose, Restart, taskVars
<1>5. ASSUME NEW t \in TaskIds, LeaseExpires(t)
      PROVE  RowsWellWritten
  BY <1>5, LeaseWritten DEF LeaseExpires, Rows
<1>6. ASSUME \/ \E d \in Dispatchers, tb \in Tables : FindTask(d, tb)
             \/ \E tb \in Tables : Ingest(tb) \/ TriggerSync(tb)
             \/ Selecting \/ UpdateSettings \/ UNCHANGED vars
      PROVE  RowsWellWritten
  BY <1>1, <1>6 DEF FindTask, Ingest, TriggerSync, Selecting, Select,
                    UpdateSettings, taskVars, vars
<1>7. QED
  BY <1>2, <1>3, <1>4, <1>5, <1>6, NextCases, DispatchWritten, CommitWritten,
     RetryDueWritten, ScopeWritten
-----------------------------------------------------------------------------
(* Types, and what a worker works on.                                      *)

LEMMA RowsStay ==
  ASSUME TypeOK, RowsWellWritten, NEW t \in Rows
  PROVE  t \in Rows' /\ task'[t].table = task[t].table
<1>1. t \in TaskIds /\ task[t] \in Task /\ task[t] # Absent
  BY RowIsTask DEF Rows, Exists
<1>2. task'[t] \in Task /\ task'[t].table = task[t].table
  BY <1>1 DEF RowsWellWritten, WellWritten
<1>3. Absent \notin Task
  BY DEF Absent, Task, Statuses
<1>4. QED
  BY <1>1, <1>2, <1>3 DEF Rows, Exists

LEMMA ReadingType ==
  ASSUME TypeOK, NEW S \in SUBSET TaskIds
  PROVE  /\ Reading(S) \in Readings /\ Nothing \in Readings
         /\ \A t \in TaskIds :
              /\ Reading(S)[t] = IF t \in S THEN task[t] ELSE Absent
              /\ Nothing[t] = Absent
  BY DEF Reading, Nothing, Readings, TypeOK

LEMMA WorkerTypes ==
  ASSUME TypeOK, WorksOnRow, RowsWellWritten, NEW w \in Workers, WorkerStep(w)
  PROVE  TypeOK'
<1>1. task' \in [TaskIds -> Task \cup {Absent}]
  BY DEF RowsWellWritten
<1>2. ASSUME Executing(w)
      PROVE  task[cur[w]].table \in Tables
  BY <1>2, RowIsTask DEF Executing, WorksOnRow, Rows, Task
<1>3. /\ Reading(StaleTasks) \in Readings /\ Nothing \in Readings
      /\ \A t \in TaskIds : Reading({t}) \in Readings
  BY ReadingType DEF StaleTasks
<1> HIDE DEF Readings
<1>4. ASSUME \/ BeginLoop(w) \/ CommitRecovery(w) \/ ClaimRead(w)
             \/ ClaimNothing(w) \/ ClaimCommit(w)
      PROVE  /\ UNCHANGED <<events, rows, find, synced, asked, seen, desk, enabled,
                            crashes, commands, recoveries>>
             /\ pc' \in [Workers -> Steps]
             /\ cur' \in [Workers -> TaskIds \cup {0}]
             /\ snap' \in [Workers -> Readings]
             /\ beating' \in [Workers -> BOOLEAN]
  <2>1. CASE BeginLoop(w)
    BY <1>3, <2>1 DEF BeginLoop, TypeOK, Steps, taskVars, ingestVars, serviceVars, budgets
  <2>2. CASE CommitRecovery(w)
    BY <1>3, <2>2 DEF CommitRecovery, TypeOK, Steps, ingestVars, serviceVars, budgets
  <2>3. CASE ClaimRead(w)
    BY <1>3, <2>3 DEF ClaimRead, TypeOK, Steps, taskVars, ingestVars, serviceVars, budgets
  <2>4. CASE ClaimNothing(w)
    BY <2>4 DEF ClaimNothing, TypeOK, Steps, taskVars, ingestVars, serviceVars, budgets
  <2>5. CASE ClaimCommit(w)
    BY <1>3, <2>5 DEF ClaimCommit, TypeOK, Steps, ingestVars, serviceVars, budgets
  <2>6. QED
    BY <1>4, <2>1, <2>2, <2>3, <2>4, <2>5
<1>5. CASE SyncReads(w)
  BY <1>1, <1>2, <1>5 DEF SyncReads, Executing, TypeOK, Steps, taskVars, ingestVars,
                          serviceVars, budgets
<1>6. CASE FinishSynced(w)
  <2>1. synced' \in [Tables -> Nat]
    BY <1>2, <1>6 DEF FinishSynced, Executing, TypeOK
  <2>2. /\ UNCHANGED <<asked, ingestVars, snap, serviceVars, budgets>>
        /\ pc' = [pc EXCEPT ![w] = "idle"]
        /\ cur' = [cur EXCEPT ![w] = 0]
        /\ beating' = [beating EXCEPT ![w] = FALSE]
        /\ seen' = [seen EXCEPT ![w] = 0]
    BY <1>6 DEF FinishSynced
  <2>3. QED
    BY <1>1, <2>1, <2>2 DEF TypeOK, Steps, ingestVars, serviceVars, budgets
<1>7. CASE FinishFailed(w)
  BY <1>1, <1>7 DEF FinishFailed, TypeOK, Steps, ingestVars, serviceVars, budgets
<1>8. CASE \/ BeginLoop(w) \/ CommitRecovery(w) \/ ClaimRead(w)
           \/ ClaimNothing(w) \/ ClaimCommit(w)
  BY <1>1, <1>4, <1>8 DEF TypeOK
<1>9. QED
  BY <1>5, <1>6, <1>7, <1>8 DEF WorkerStep

LEMMA NextTypes ==
  ASSUME TypeOK, WorksOnRow, ReadsFit, [Next]_vars
  PROVE  TypeOK'
<1>1. RowsWellWritten
  BY NextWritten
<1>2. task' \in [TaskIds -> Task \cup {Absent}]
  BY <1>1 DEF RowsWellWritten
<1>r. /\ Reading(StaleTasks) \in Readings /\ Nothing \in Readings
      /\ \A S \in SUBSET Rows : Reading(S) \in Readings
  BY ReadingType DEF StaleTasks, Rows
<1>3. ASSUME NEW tb \in Tables, Ingest(tb) \/ TriggerSync(tb)
      PROVE  TypeOK'
  BY <1>2, <1>3 DEF Ingest, TriggerSync, Command, TypeOK, taskVars, workerVars,
                    serviceVars, budgets
<1>4. ASSUME NEW d \in Dispatchers, NEW tb \in Tables, FindTask(d, tb)
      PROVE  TypeOK'
  <2>1. PICK n \in RunnableOf(tb) \cup {0} :
          find' = [find EXCEPT ![d] = [at |-> "found", table |-> tb, id |-> n]]
    BY <1>4 DEF FindTask
  <2>2. n \in TaskIds \cup {0}
    BY DEF RunnableOf, Rows
  <2>3. events' \in [Tables -> Nat]
    BY <1>4 DEF FindTask, TypeOK
  <2>4. QED
    BY <1>4, <2>1, <2>2, <2>3
    DEF FindTask, TypeOK, taskVars, workerVars, serviceVars, budgets
<1>5. ASSUME NEW d \in Dispatchers, CommitDispatch(d)
      PROVE  TypeOK'
  <2>1. find[d].table \in Tables
    BY <1>5 DEF CommitDispatch, TypeOK
  <2>2. asked' \in [TaskIds -> Nat]
    BY <1>5, <2>1 DEF CommitDispatch, TypeOK, taskVars
  <2>3. QED
    BY <1>2, <1>5, <2>2 DEF CommitDispatch, TypeOK, workerVars, serviceVars, budgets
<1>6. ASSUME NEW w \in Workers,
             Heartbeat(w) \/ HeartbeatStops(w) \/ Restart(w) \/ Crash(w) \/ LoopEnds(w)
      PROVE  TypeOK'
  <2>1. CASE Heartbeat(w)
    BY <1>2, <2>1 DEF Heartbeat, TypeOK, ingestVars, workerVars, serviceVars, budgets
  <2>2. CASE HeartbeatStops(w)
    BY <1>2, <2>2 DEF HeartbeatStops, TypeOK, taskVars, ingestVars, serviceVars
  <2>3. CASE Restart(w)
    BY <1>r, <2>3 DEF Restart, TypeOK, Steps, taskVars, ingestVars, serviceVars, budgets
  <2>4. ASSUME Lose(w), NEW p \in Steps, pc' = [pc EXCEPT ![w] = p]
        PROVE  TypeOK'
    BY <1>r, <2>4 DEF Lose, TypeOK, taskVars, ingestVars, serviceVars
  <2>5. QED
    BY <1>6, <2>1, <2>2, <2>3, <2>4 DEF Crash, LoopEnds, Steps
<1>7. ASSUME NEW t \in TaskIds, LeaseExpires(t) \/ RetryDue(t)
      PROVE  TypeOK'
  BY <1>2, <1>7 DEF LeaseExpires, RetryDue, TypeOK, ingestVars, workerVars,
                    serviceVars, budgets
<1>8. ASSUME NEW c \in Clerks, Commit(c)
      PROVE  TypeOK'
  BY <1>2, <1>8 DEF Commit, TypeOK, ingestVars, workerVars, budgets
<1>9. ASSUME Selecting, crashes' = crashes,
             \/ commands' = commands + 1 /\ recoveries' = recoveries
             \/ commands' = commands /\ recoveries' = recoveries + 1
      PROVE  TypeOK'
  <2>1. commands' \in Nat /\ recoveries' \in Nat
    BY <1>9 DEF TypeOK
  <2>2. PICK c \in Clerks, op \in Resets, S \in SUBSET Rows : Select(c, op, S)
    BY <1>9 DEF Selecting
  <2>3. desk' = [desk EXCEPT ![c] = [op |-> op, read |-> Reading(S)]]
    BY <2>2 DEF Select
  <2>4. [op |-> op, read |-> Reading(S)] \in [op : Resets, read : Readings]
    BY <1>r
  <2>5. UNCHANGED <<taskVars, ingestVars, synced, workerVars, enabled, crashes>>
    BY <2>2 DEF Select
  <2>6. QED
    BY <2>1, <2>3, <2>4, <2>5 DEF TypeOK, taskVars, ingestVars, workerVars
<1>10. CASE UpdateSettings
  <2>1. enabled' \in BOOLEAN
    BY <1>10 DEF UpdateSettings
  <2>2. QED
    BY <1>10, <2>1 DEF UpdateSettings, Command, TypeOK, taskVars, ingestVars,
                       workerVars
<1>11. CASE ChangeScope
  BY <1>2, <1>11 DEF ChangeScope, Command, TypeOK, ingestVars, workerVars, serviceVars
<1>12. CASE UNCHANGED vars
  BY <1>12 DEF vars, TypeOK
<1>13. QED
  BY <1>1, <1>3, <1>4, <1>5, <1>6, <1>7, <1>8, <1>9, <1>10, <1>11, <1>12,
     WorkerTypes, NextCases

\* Only a worker's own steps and its crash move it.
LEMMA OthersKeepWorkers ==
  ASSUME \/ \E tb \in Tables : Ingest(tb) \/ TriggerSync(tb)
         \/ \E d \in Dispatchers :
              CommitDispatch(d) \/ \E tb \in Tables : FindTask(d, tb)
         \/ \E w \in Workers : Heartbeat(w)
         \/ \E t \in TaskIds : LeaseExpires(t) \/ RetryDue(t)
         \/ \E c \in Clerks : Commit(c)
         \/ Selecting \/ UpdateSettings \/ ChangeScope \/ UNCHANGED vars
  PROVE  UNCHANGED workerVars
  BY DEF Ingest, TriggerSync, CommitDispatch, FindTask, Heartbeat, LeaseExpires,
         RetryDue, Commit, Selecting, Select, UpdateSettings, ChangeScope,
         workerVars, vars

LEMMA NextWorksOnRow ==
  ASSUME TypeOK, WorksOnRow, ReadsFit, [Next]_vars
  PROVE  WorksOnRow'
<1>1. ASSUME NEW t \in Rows
      PROVE  t \in Rows'
  BY <1>1, NextWritten, RowsStay
<1>2. ASSUME UNCHANGED <<pc, cur, snap>>
      PROVE  WorksOnRow'
  BY <1>1, <1>2 DEF WorksOnRow
<1>3. ASSUME NEW w \in Workers, WorkerStep(w)
      PROVE  WorksOnRow'
  <2>1. CASE ClaimRead(w)
    <3>1. PICK t \in TaskIds : /\ Claimable(t)
                               /\ cur' = [cur EXCEPT ![w] = t]
                               /\ snap' = [snap EXCEPT ![w] = Reading({t})]
      BY <2>1 DEF ClaimRead
    <3>2. t \in Rows
      BY <3>1 DEF Claimable, Stale, HasStatus, Rows
    <3>3. Reading({t})[t] # Absent
      BY <3>2, ReadingType DEF Rows, Exists
    <3>4. pc' = [pc EXCEPT ![w] = "commit"]
      BY <2>1 DEF ClaimRead
    <3>5. QED
      BY <1>1, <3>1, <3>2, <3>3, <3>4 DEF WorksOnRow, TypeOK
  <2>2. CASE ClaimCommit(w)
    BY <1>1, <2>2 DEF ClaimCommit, WorksOnRow, TypeOK
  <2>3. CASE BeginLoop(w) \/ CommitRecovery(w) \/ ClaimNothing(w) \/ SyncReads(w)
    BY <1>1, <2>3
    DEF BeginLoop, CommitRecovery, ClaimNothing, SyncReads, WorksOnRow, TypeOK
  <2>4. CASE FinishSynced(w) \/ FinishFailed(w)
    BY <1>1, <2>4 DEF FinishSynced, FinishFailed, WorksOnRow, TypeOK
  <2>5. QED
    BY <1>3, <2>1, <2>2, <2>3, <2>4 DEF WorkerStep
<1>4. ASSUME NEW w \in Workers, Crash(w) \/ LoopEnds(w) \/ Restart(w)
      PROVE  WorksOnRow'
  BY <1>1, <1>4 DEF Crash, LoopEnds, Lose, Restart, WorksOnRow, TypeOK
<1>5. ASSUME NEW w \in Workers, HeartbeatStops(w)
      PROVE  WorksOnRow'
  BY <1>2, <1>5 DEF HeartbeatStops
<1>6. ASSUME UNCHANGED workerVars
      PROVE  WorksOnRow'
  BY <1>2, <1>6 DEF workerVars
<1>7. QED
  BY <1>3, <1>4, <1>5, <1>6, NextCases, OthersKeepWorkers

LEMMA NextReadsFit ==
  ASSUME TypeOK, WorksOnRow, ReadsFit, [Next]_vars
  PROVE  ReadsFit'
<1>1. ASSUME NEW t \in Rows
      PROVE  t \in Rows'
  BY <1>1, NextWritten, RowsStay
<1>r. /\ \A t \in TaskIds : Nothing[t] = Absent
      /\ \A S \in SUBSET TaskIds, t \in TaskIds :
           Reading(S)[t] = IF t \in S THEN task[t] ELSE Absent
  BY ReadingType
<1> HIDE DEF Reading, Nothing
<1> DEFINE WorkerFits(w, p, read) ==
             \A t \in TaskIds : read[t] # Absent =>
               /\ t \in Rows
               /\ read[t].status \in RunnableStatuses
               /\ p \in {"starting", "recover"} => read[t].status = "running"
           ClerkFits(d) ==
             \A t \in TaskIds : d # Idle /\ d.read[t] # Absent =>
               /\ t \in Rows
               /\ d.op \in {"recover", "requeue"} =>
                    d.read[t].status \in {"running", "failed"}
<1>w. /\ \A w \in Workers : WorkerFits(w, pc[w], snap[w])
      /\ \A c \in Clerks : ClerkFits(desk[c])
  BY DEF ReadsFit
<1>f. ASSUME \A w \in Workers : WorkerFits(w, pc'[w], snap'[w]),
             \A c \in Clerks : ClerkFits(desk'[c])
      PROVE  ReadsFit'
  BY <1>1, <1>f DEF ReadsFit
<1>n. ASSUME NEW w \in Workers, NEW p PROVE WorkerFits(w, p, Nothing)
  BY <1>r
<1>d. \A w \in Workers : WorkerFits(w, "recover", Reading(StaleTasks))
  BY <1>r DEF StaleTasks, Stale, HasStatus, Rows, RunnableStatuses
<1> HIDE DEF ClerkFits
<1>2. ASSUME NEW w \in Workers, NEW p, NEW S,
             pc' = [pc EXCEPT ![w] = p], snap' = [snap EXCEPT ![w] = S],
             WorkerFits(w, p, S), desk' = desk
      PROVE  ReadsFit'
  <2> HIDE DEF WorkerFits
  <2>1. ASSUME NEW v \in Workers PROVE WorkerFits(v, pc'[v], snap'[v])
    <3>1. CASE v = w
      BY <1>2, <3>1 DEF TypeOK
    <3>2. CASE v # w
      BY <1>2, <1>w, <3>2 DEF TypeOK
    <3>3. QED
      BY <3>1, <3>2
  <2>2. QED
    BY <1>2, <1>w, <1>f, <2>1
<1>3. ASSUME NEW w \in Workers, NEW p, p \notin {"starting", "recover"},
             pc' = [pc EXCEPT ![w] = p], snap' = snap, desk' = desk
      PROVE  ReadsFit'
  <2>1. WorkerFits(w, p, snap[w])
    BY <1>3, <1>w
  <2> HIDE DEF WorkerFits
  <2>2. snap' = [snap EXCEPT ![w] = snap[w]]
    BY <1>3 DEF TypeOK
  <2>3. QED
    BY <1>2, <1>3, <2>1, <2>2
<1>4. ASSUME NEW w \in Workers, BeginLoop(w) \/ Restart(w)
      PROVE  ReadsFit'
  <2>1. PICK p \in Steps : pc' = [pc EXCEPT ![w] = p]
    BY <1>4 DEF BeginLoop, Restart, Steps
  <2>2. WorkerFits(w, p, Reading(StaleTasks))
    BY <1>d
  <2>3. snap' = [snap EXCEPT ![w] = Reading(StaleTasks)] /\ desk' = desk
    BY <1>4 DEF BeginLoop, Restart, serviceVars
  <2> HIDE DEF WorkerFits
  <2>4. QED
    BY <1>2, <2>1, <2>2, <2>3
<1>5. ASSUME NEW w \in Workers,
             CommitRecovery(w) \/ ClaimCommit(w) \/ Crash(w) \/ LoopEnds(w)
      PROVE  ReadsFit'
  <2>1. PICK p \in Steps : pc' = [pc EXCEPT ![w] = p]
    BY <1>5 DEF CommitRecovery, ClaimCommit, Crash, LoopEnds, Steps
  <2>2. snap' = [snap EXCEPT ![w] = Nothing] /\ desk' = desk
    BY <1>5 DEF CommitRecovery, ClaimCommit, Crash, LoopEnds, Lose, serviceVars
  <2>3. QED
    BY <1>2, <1>n, <2>1, <2>2
<1>6. ASSUME NEW w \in Workers, ClaimRead(w)
      PROVE  ReadsFit'
  <2>1. PICK t \in TaskIds : /\ Claimable(t)
                             /\ snap' = [snap EXCEPT ![w] = Reading({t})]
    BY <1>6 DEF ClaimRead
  <2>2. t \in Rows /\ task[t].status \in RunnableStatuses
    BY <2>1 DEF Claimable, Stale, HasStatus, Rows, RunnableStatuses
  <2>3. WorkerFits(w, "commit", Reading({t}))
    BY <1>r, <2>2
  <2>4. QED
    BY <1>2, <1>6, <2>1, <2>3 DEF ClaimRead, serviceVars
<1>7. ASSUME NEW w \in Workers,
             ClaimNothing(w) \/ SyncReads(w) \/ FinishSynced(w) \/ FinishFailed(w)
      PROVE  ReadsFit'
  <2>1. PICK p \in {"idle", "finish"} : pc' = [pc EXCEPT ![w] = p]
    BY <1>7 DEF ClaimNothing, SyncReads, FinishSynced, FinishFailed
  <2>2. UNCHANGED <<snap, desk>>
    BY <1>7 DEF ClaimNothing, SyncReads, FinishSynced, FinishFailed, serviceVars
  <2>3. QED
    BY <1>3, <2>1, <2>2
<1>8. ASSUME UNCHANGED <<pc, snap, desk>>
      PROVE  ReadsFit'
  BY <1>8, <1>w, <1>f
<1>9. ASSUME \/ \E tb \in Tables : Ingest(tb) \/ TriggerSync(tb)
             \/ \E d \in Dispatchers :
                  CommitDispatch(d) \/ \E tb \in Tables : FindTask(d, tb)
             \/ \E w \in Workers : Heartbeat(w) \/ HeartbeatStops(w)
             \/ \E t \in TaskIds : LeaseExpires(t) \/ RetryDue(t)
             \/ UpdateSettings \/ ChangeScope \/ UNCHANGED vars
      PROVE  ReadsFit'
  BY <1>8, <1>9
  DEF Ingest, TriggerSync, CommitDispatch, FindTask, Heartbeat, HeartbeatStops,
      LeaseExpires, RetryDue, UpdateSettings, ChangeScope, workerVars, serviceVars,
      vars
<1>10. ASSUME NEW c \in Clerks, NEW d, ClerkFits(d),
              desk' = [desk EXCEPT ![c] = d], UNCHANGED <<pc, snap>>
       PROVE  ReadsFit'
  BY <1>10, <1>w, <1>f DEF TypeOK
<1>11. ASSUME NEW c \in Clerks, Commit(c)
       PROVE  ReadsFit'
  <2>1. ClerkFits(Idle)
    BY DEF ClerkFits
  <2>2. QED
    BY <1>10, <1>11, <2>1 DEF Commit, workerVars
<1>12. CASE Selecting
  <2>1. PICK c \in Clerks, op \in Resets, S \in SUBSET Rows :
          /\ Select(c, op, S)
          /\ op \in {"recover", "requeue"} =>
               \A t \in S : task[t].status \in {"running", "failed"}
    BY <1>12 DEF Selecting
  <2>2. S \in SUBSET TaskIds
    BY DEF Rows
  <2>3. ClerkFits([op |-> op, read |-> Reading(S)])
    BY <1>r, <2>1, <2>2 DEF ClerkFits
  <2>4. QED
    BY <1>10, <2>1, <2>3 DEF Select, workerVars
<1>13. QED
  BY <1>4, <1>5, <1>6, <1>7, <1>9, <1>11, <1>12, NextCases DEF WorkerStep

LEMMA InitTyped == Init => TypeOK /\ WorksOnRow /\ ReadsFit
<1>1. Nothing \in Readings /\ \A t \in TaskIds : Nothing[t] = Absent
  BY DEF Nothing, Reading, Readings
<1>2. QED
  BY <1>1 DEF Init, TypeOK, WorksOnRow, ReadsFit, Idle, Steps

\* Every reachable state has the types declared for it, whatever the number of
\* workers, dispatchers, clerks and tasks: no handler writes a status, a lease or
\* an error code outside its vocabulary, no worker runs a row that is absent, and
\* what was read for a claim or a reset exists.
THEOREM QueueTypeCorrect == Spec => [](TypeOK /\ WorksOnRow /\ ReadsFit)
<1>1. TypeOK /\ WorksOnRow /\ ReadsFit /\ [Next]_vars
      => (TypeOK /\ WorksOnRow /\ ReadsFit)'
  BY NextTypes, NextWorksOnRow, NextReadsFit
<1>2. QED
  BY <1>1, InitTyped, PTL DEF Spec

-----------------------------------------------------------------------------
(* A running row can be taken back, a cancelled one is not.                *)

\* Any numbers of workers, clerks and tasks: no interleaving of claims, finishes,
\* heartbeats, recoveries, commands and crashes leaves a running row without a
\* lease, except a command committed over a claim made since it read the row.
THEOREM RunningReclaimable == Spec => RunningIsReclaimable
<1>1. TypeOK /\ WorksOnRow /\ ReadsFit /\ [Next]_vars
      => [\A t \in TaskIds : Stranded(t)' => Stranded(t) \/ OverClaim(t)]_vars
  <2> SUFFICES ASSUME TypeOK, WorksOnRow, ReadsFit, [Next]_vars,
                      NEW t \in TaskIds, Stranded(t)', ~OverClaim(t)
               PROVE  Stranded(t)
    OBVIOUS
  <2>1. RowsWellWritten
    BY NextWritten
  <2>2. CASE task'[t] = task[t]
    BY <2>2 DEF Stranded, HasStatus, Exists
  <2>3. CASE WellWritten(t, task'[t])
    <3>1. ~Leased(task'[t])
      BY DEF Stranded, HasStatus, Leased
    <3>2. ~Leased(task[t])
      BY <2>3, <3>1 DEF WellWritten
    <3>3. t \in Rows
      BY <2>3, RowIsTask DEF WellWritten
    <3>4. QED
      BY <3>2, <3>3 DEF Leased, Stranded, HasStatus, Rows
  <2>4. CASE \E tb \in Tables : task'[t] = NewTask(tb)
    BY <2>4 DEF NewTask, Stranded, HasStatus
  <2>5. QED
    BY <2>1, <2>2, <2>3, <2>4 DEF RowsWellWritten
<1>2. QED
  BY <1>1, QueueTypeCorrect, PTL DEF Spec, RunningIsReclaimable

\* Any numbers of workers, clerks and tasks: a cancelled task leaves that status
\* only by those who had it in their hands before, or by an admin's retry.
THEOREM CancelledKept == Spec => CancelledIsKept
<1>1. TypeOK /\ WorksOnRow /\ ReadsFit /\ [Next]_vars
      => [\A t \in TaskIds : HasStatus(t, {"cancelled"}) =>
            HasStatus(t, {"cancelled"})' \/ TakenBack(t)]_vars
  <2> SUFFICES ASSUME TypeOK, WorksOnRow, ReadsFit, [Next]_vars,
                      NEW t \in TaskIds, HasStatus(t, {"cancelled"}), ~TakenBack(t)
               PROVE  HasStatus(t, {"cancelled"})'
    OBVIOUS
  <2>1. RowsWellWritten /\ t \in Rows
    BY NextWritten DEF HasStatus, Rows
  <2>2. CASE task'[t] = task[t]
    BY <2>2 DEF HasStatus, Exists
  <2>3. CASE WellWritten(t, task'[t])
    <3>1. task'[t].status = "cancelled"
      BY <2>3 DEF WellWritten, HasStatus
    <3>2. t \in Rows'
      BY <2>1, RowsStay
    <3>3. QED
      BY <3>1, <3>2 DEF HasStatus, Rows
  <2>4. QED
    BY <2>1, <2>2, <2>3 DEF RowsWellWritten, HasStatus, Exists
<1>2. QED
  BY <1>1, QueueTypeCorrect, PTL DEF Spec, CancelledIsKept

-----------------------------------------------------------------------------
(* A running row is being run.                                             *)

\* A worker leaves an execution by writing its outcome or by a crash.
LEMMA ExecutionEnds ==
  ASSUME TypeOK, [Next]_vars, crashes' = crashes, NEW w \in Workers, Executing(w)
  PROVE  \/ Executing(w)' /\ cur'[w] = cur[w]
         \/ FinishSynced(w) \/ FinishFailed(w)
<1>1. ASSUME UNCHANGED <<pc, cur>>
      PROVE  Executing(w)' /\ cur'[w] = cur[w]
  BY <1>1 DEF Executing
<1>2. ASSUME NEW v \in Workers, WorkerStep(v)
      PROVE  \/ Executing(w)' /\ cur'[w] = cur[w]
             \/ FinishSynced(w) \/ FinishFailed(w)
  <2>1. CASE BeginLoop(v) \/ CommitRecovery(v) \/ ClaimNothing(v) \/ ClaimRead(v)
    BY <2>1 DEF BeginLoop, CommitRecovery, ClaimNothing, ClaimRead, Executing, TypeOK
  <2>2. CASE ClaimCommit(v) \/ SyncReads(v)
    BY <2>2 DEF ClaimCommit, SyncReads, Executing, TypeOK
  <2>3. CASE v # w /\ (FinishSynced(v) \/ FinishFailed(v))
    BY <2>3 DEF FinishSynced, FinishFailed, Executing, TypeOK
  <2>4. QED
    BY <1>2, <2>1, <2>2, <2>3 DEF WorkerStep
<1>3. ASSUME NEW v \in Workers, Restart(v)
      PROVE  Executing(w)' /\ cur'[w] = cur[w]
  BY <1>3 DEF Restart, Executing, TypeOK
<1>4. ASSUME NEW v \in Workers, Crash(v) \/ LoopEnds(v) \/ HeartbeatStops(v)
      PROVE  FALSE
  BY <1>4 DEF Crash, LoopEnds, Lose, HeartbeatStops, TypeOK
<1>5. ASSUME UNCHANGED workerVars
      PROVE  Executing(w)' /\ cur'[w] = cur[w]
  BY <1>1, <1>5 DEF workerVars
<1>6. QED
  BY <1>2, <1>3, <1>4, <1>5, NextCases, OthersKeepWorkers

\* A step spends at most one of the bounds, and each counter only grows.
LEMMA BudgetsCount ==
  ASSUME [Next]_vars
  PROVE  /\ crashes' = crashes \/ crashes' = crashes + 1
         /\ commands' = commands \/ commands' = commands + 1
         /\ recoveries' = recoveries \/ recoveries' = recoveries + 1
<1>1. CASE UNCHANGED budgets
  BY <1>1 DEF budgets
<1>2. CASE \E w \in Workers : WorkerStep(w)
  BY <1>1, <1>2 DEF WorkerStep, BeginLoop, CommitRecovery, ClaimRead,
     ClaimNothing, ClaimCommit, SyncReads, FinishSynced, FinishFailed
<1>3. CASE \E w \in Workers : Heartbeat(w) \/ Restart(w)
  BY <1>1, <1>3 DEF Heartbeat, Restart
<1>4. CASE \E w \in Workers : HeartbeatStops(w) \/ Crash(w) \/ LoopEnds(w)
  BY <1>4 DEF HeartbeatStops, Crash, LoopEnds, Lose
<1>5. CASE \/ \E tb \in Tables : Ingest(tb)
           \/ \E d \in Dispatchers :
                CommitDispatch(d) \/ \E tb \in Tables : FindTask(d, tb)
           \/ \E t \in TaskIds : LeaseExpires(t) \/ RetryDue(t)
           \/ \E c \in Clerks : Commit(c)
  BY <1>1, <1>5 DEF Ingest, CommitDispatch, FindTask, LeaseExpires, RetryDue, Commit
<1>6. CASE UpdateSettings \/ ChangeScope \/ \E tb \in Tables : TriggerSync(tb)
  BY <1>6 DEF TriggerSync, UpdateSettings, ChangeScope, Command
<1>7. CASE UNCHANGED vars
  BY <1>1, <1>7 DEF vars, budgets
<1>8. QED
  BY <1>2, <1>3, <1>4, <1>5, <1>6, <1>7, NextCases

\* While nothing has crashed, some worker runs every row that says "running",
\* however many workers claimed it and whoever reset it meanwhile.
THEOREM RunningExecuted == Spec => []RunningIsExecuted
<1>1. Init => RunningIsExecuted
  BY DEF Init, RunningIsExecuted, HasStatus, Exists
<1>2. TypeOK /\ WorksOnRow /\ ReadsFit /\ RunningIsExecuted /\ [Next]_vars
      => RunningIsExecuted'
  <2> SUFFICES ASSUME TypeOK, WorksOnRow, ReadsFit, RunningIsExecuted, [Next]_vars,
                      crashes' = 0, NEW t \in TaskIds, HasStatus(t, {"running"})'
               PROVE  (\E w \in Workers : Executing(w) /\ cur[w] = t)'
    BY DEF RunningIsExecuted
  <2>1. RowsWellWritten
    BY NextWritten
  <2>2. crashes = 0
    <3>1. crashes' = crashes \/ crashes' = crashes + 1
      BY BudgetsCount
    <3>2. QED
      BY <3>1 DEF TypeOK
  <2>3. CASE HasStatus(t, {"running"})
    <3>1. PICK w \in Workers : Executing(w) /\ cur[w] = t
      BY <2>2, <2>3 DEF RunningIsExecuted
    <3>2. ~(FinishSynced(w) \/ FinishFailed(w))
      BY <3>1, FinishWritten DEF HasStatus
    <3>3. QED
      BY <2>2, <3>1, <3>2, ExecutionEnds DEF Executing
  <2>4. CASE ~HasStatus(t, {"running"})
    <3>1. Claiming(t)
      <4>1. CASE task'[t] = task[t]
        BY <2>4, <4>1 DEF HasStatus, Exists
      <4>2. CASE WellWritten(t, task'[t])
        BY <2>4, <4>2, RowIsTask DEF WellWritten, HasStatus, Rows
      <4>3. CASE \E tb \in Tables : task'[t] = NewTask(tb)
        BY <4>3 DEF NewTask, HasStatus
      <4>4. QED
        BY <2>1, <4>1, <4>2, <4>3 DEF RowsWellWritten
    <3>2. QED
      BY <3>1 DEF Claiming, ClaimCommit, Executing, TypeOK
  <2>5. QED
    BY <2>3, <2>4
<1>3. QED
  BY <1>1, <1>2, QueueTypeCorrect, PTL DEF Spec
-----------------------------------------------------------------------------
(* A completed task has synced what it was created for.                    *)

\* Ingestions and syncs only add up, and a row keeps the mark set when it was
\* inserted.
LEMMA MarksKept ==
  ASSUME TypeOK, WorksOnRow, ReadsFit, [Next]_vars
  PROVE  /\ \A tb \in Tables : rows[tb] <= rows'[tb] /\ synced[tb] <= synced'[tb]
         /\ \A t \in Rows : asked'[t] = asked[t]
<1>1. ASSUME UNCHANGED <<rows, synced, asked>>
      PROVE  /\ \A tb \in Tables : rows[tb] <= rows'[tb] /\ synced[tb] <= synced'[tb]
             /\ \A t \in Rows : asked'[t] = asked[t]
  BY <1>1 DEF TypeOK
<1>2. ASSUME NEW tb \in Tables, Ingest(tb)
      PROVE  /\ UNCHANGED <<synced, asked>>
             /\ \A b \in Tables : rows[b] <= rows'[b]
  BY <1>2 DEF Ingest, TypeOK, taskVars
<1>3. ASSUME NEW w \in Workers, FinishSynced(w)
      PROVE  /\ UNCHANGED <<rows, asked>>
             /\ \A b \in Tables : synced[b] <= synced'[b]
  <2>1. task[cur[w]].table \in Tables
    BY <1>3, RowIsTask DEF FinishSynced, WorksOnRow, Rows, Task
  <2>2. QED
    BY <1>3, <2>1 DEF FinishSynced, TypeOK, ingestVars
<1>4. ASSUME NEW d \in Dispatchers, CommitDispatch(d)
      PROVE  UNCHANGED <<rows, synced>> /\ \A t \in Rows : asked'[t] = asked[t]
  BY <1>4 DEF CommitDispatch, TypeOK, taskVars, Rows
<1>5. CASE UNCHANGED vars
  BY <1>1, <1>5 DEF vars
<1>6. ASSUME NEW w \in Workers, WorkerStep(w), ~FinishSynced(w)
      PROVE  UNCHANGED <<rows, synced, asked>>
  BY <1>6 DEF WorkerStep, BeginLoop, CommitRecovery, ClaimRead, ClaimNothing,
              ClaimCommit, SyncReads, FinishFailed, taskVars, ingestVars
<1>7. ASSUME NEW w \in Workers,
             Heartbeat(w) \/ HeartbeatStops(w) \/ Crash(w) \/ LoopEnds(w) \/ Restart(w)
      PROVE  UNCHANGED <<rows, synced, asked>>
  BY <1>7 DEF Heartbeat, HeartbeatStops, Crash, LoopEnds, Lose, Restart,
              taskVars, ingestVars
<1>8. ASSUME \/ \E t \in TaskIds : LeaseExpires(t) \/ RetryDue(t)
             \/ \E c \in Clerks : Commit(c)
             \/ Selecting \/ UpdateSettings \/ ChangeScope
             \/ \E tb \in Tables : TriggerSync(tb)
             \/ \E d \in Dispatchers, tb \in Tables : FindTask(d, tb)
      PROVE  UNCHANGED <<rows, synced, asked>>
  BY <1>8 DEF LeaseExpires, RetryDue, Commit, Selecting, Select, UpdateSettings,
              ChangeScope, TriggerSync, FindTask, taskVars, ingestVars
<1>9. CASE \E tb \in Tables : Ingest(tb)
  BY <1>2, <1>9 DEF TypeOK
<1>10. CASE \E w \in Workers : FinishSynced(w)
  BY <1>3, <1>10 DEF TypeOK
<1>11. CASE \E d \in Dispatchers : CommitDispatch(d)
  BY <1>4, <1>11 DEF TypeOK
<1>12. QED
  BY <1>1, <1>5, <1>6, <1>7, <1>8, <1>9, <1>10, <1>11, NextCases

\* An execution comes to its last state by the last read.
LEMMA ReadsToFinish ==
  ASSUME TypeOK, [Next]_vars, NEW w \in Workers, pc'[w] = "finish", ~SyncReads(w)
  PROVE  pc[w] = "finish" /\ cur'[w] = cur[w] /\ seen'[w] = seen[w]
<1>1. ASSUME UNCHANGED <<pc, cur, seen>>
      PROVE  pc[w] = "finish" /\ cur'[w] = cur[w] /\ seen'[w] = seen[w]
  BY <1>1
<1>2. ASSUME NEW v \in Workers, WorkerStep(v)
      PROVE  pc[w] = "finish" /\ cur'[w] = cur[w] /\ seen'[w] = seen[w]
  <2>1. CASE BeginLoop(v) \/ CommitRecovery(v) \/ ClaimNothing(v) \/ ClaimRead(v)
    BY <2>1 DEF BeginLoop, CommitRecovery, ClaimNothing, ClaimRead, TypeOK
  <2>2. CASE ClaimCommit(v) \/ SyncReads(v)
    BY <2>2 DEF ClaimCommit, SyncReads, TypeOK
  <2>3. CASE FinishSynced(v) \/ FinishFailed(v)
    BY <2>3 DEF FinishSynced, FinishFailed, TypeOK
  <2>4. QED
    BY <1>2, <2>1, <2>2, <2>3 DEF WorkerStep
<1>3. ASSUME NEW v \in Workers, HeartbeatStops(v)
      PROVE  UNCHANGED <<pc, cur, seen>>
  BY <1>3 DEF HeartbeatStops
<1>4. ASSUME NEW v \in Workers, Restart(v) \/ Crash(v) \/ LoopEnds(v)
      PROVE  pc[w] = "finish" /\ cur'[w] = cur[w] /\ seen'[w] = seen[w]
  BY <1>4 DEF Restart, Crash, LoopEnds, Lose, TypeOK
<1>5. ASSUME UNCHANGED workerVars
      PROVE  UNCHANGED <<pc, cur, seen>>
  BY <1>5 DEF workerVars
<1>6. QED
  BY <1>1, <1>2, <1>3, <1>4, <1>5, NextCases, OthersKeepWorkers

\* What every row was created for has been ingested, and an execution that has
\* read to the end has seen what its row was created for.
LEMMA NextSeen ==
  ASSUME TypeOK, WorksOnRow, ReadsFit, SeenCoversCreation, [Next]_vars
  PROVE  SeenCoversCreation'
<1>1. RowsWellWritten
  BY NextWritten
<1>2. ASSUME NEW t \in Rows'
      PROVE  asked'[t] <= rows'[task'[t].table]
  <2>1. t \in TaskIds
    BY <1>2 DEF Rows
  <2>2. CASE t \in Rows
    <3>1. task'[t].table = task[t].table /\ task[t].table \in Tables
      BY <1>1, <2>1, <2>2, RowsStay, RowIsTask DEF Task
    <3>2. asked[t] <= rows[task[t].table]
      BY <2>2 DEF SeenCoversCreation
    <3>3. /\ rows[task[t].table] <= rows'[task[t].table]
          /\ asked'[t] = asked[t]
      BY <2>2, <3>1, MarksKept
    <3>4. /\ asked[t] \in Nat /\ rows[task[t].table] \in Nat
          /\ rows'[task[t].table] \in Nat
      BY <2>1, <3>1, NextTypes DEF TypeOK
    <3>5. QED
      BY <3>1, <3>2, <3>3, <3>4
  <2>3. CASE t \notin Rows
    <3>1. task[t] = Absent /\ task'[t] # Absent
      BY <1>2, <2>1, <2>3 DEF Rows, Exists
    <3>2. task[t] \notin Task
      BY <3>1 DEF Absent, Task, Statuses
    <3>3. PICK tb \in Tables : task'[t] = NewTask(tb) /\ asked'[t] = rows[tb]
      BY <1>1, <2>1, <3>1, <3>2 DEF RowsWellWritten, WellWritten
    <3>4. task'[t].table = tb /\ rows[tb] <= rows'[tb]
      BY <3>3, MarksKept DEF NewTask
    <3>5. QED
      BY <3>3, <3>4
  <2>4. QED
    BY <2>2, <2>3
<1>3. ASSUME NEW w \in Workers, pc'[w] = "finish"
      PROVE  asked'[cur'[w]] <= seen'[w]
  <2>1. CASE SyncReads(w)
    <3>1. /\ cur[w] \in Rows /\ cur'[w] = cur[w]
          /\ seen'[w] = rows[task[cur[w]].table]
      BY <2>1 DEF SyncReads, WorksOnRow, TypeOK
    <3>2. asked'[cur[w]] = asked[cur[w]]
      BY <3>1, MarksKept
    <3>3. QED
      BY <3>1, <3>2 DEF SeenCoversCreation
  <2>2. CASE ~SyncReads(w)
    <3>1. pc[w] = "finish" /\ cur'[w] = cur[w] /\ seen'[w] = seen[w]
      BY <1>3, <2>2, ReadsToFinish
    <3>2. asked[cur[w]] <= seen[w] /\ cur[w] \in Rows
      BY <3>1 DEF SeenCoversCreation, WorksOnRow
    <3>3. QED
      BY <3>1, <3>2, MarksKept
  <2>3. QED
    BY <2>1, <2>2
<1>4. QED
  BY <1>2, <1>3 DEF SeenCoversCreation

\* A task that says "completed" has synced what had been ingested when it was
\* created, whoever claimed, lost, reset or ran it in between.
THEOREM CompletedCovers == Spec => []CompletedCoversCreation
<1>1. Init => SeenCoversCreation /\ CompletedCoversCreation
  BY DEF Init, SeenCoversCreation, CompletedCoversCreation, HasStatus, Rows, Exists
<1>2. TypeOK /\ WorksOnRow /\ ReadsFit /\ SeenCoversCreation /\ [Next]_vars
      => SeenCoversCreation'
  BY NextSeen
<1>3. TypeOK /\ WorksOnRow /\ ReadsFit /\ SeenCoversCreation /\ CompletedCoversCreation
      /\ [Next]_vars => CompletedCoversCreation'
  <2> SUFFICES ASSUME TypeOK, WorksOnRow, ReadsFit, SeenCoversCreation,
                      CompletedCoversCreation, [Next]_vars,
                      NEW t \in TaskIds, HasStatus(t, {"completed"})'
               PROVE  asked'[t] <= synced'[task'[t].table]
    BY DEF CompletedCoversCreation
  <2>1. RowsWellWritten
    BY NextWritten
  <2>3. t \in Rows
    <3>1. task'[t] # Absent /\ task'[t].status = "completed"
      BY DEF HasStatus, Exists
    <3>2. QED
      BY <2>1, <3>1, RowIsTask
      DEF RowsWellWritten, WellWritten, NewTask, Rows, Exists
  <2>4. /\ task[t] \in Task /\ task'[t].table = task[t].table
        /\ task[t].table \in Tables /\ asked'[t] = asked[t]
    BY <2>1, <2>3, RowsStay, RowIsTask, MarksKept DEF Task
  <2>5. /\ asked[t] \in Nat /\ synced[task[t].table] \in Nat
        /\ synced'[task[t].table] \in Nat
        /\ synced[task[t].table] <= synced'[task[t].table]
    BY <2>4, NextTypes, MarksKept DEF TypeOK
  <2>6. CASE task[t].status = "completed"
    <3>1. asked[t] <= synced[task[t].table]
      BY <2>3, <2>6 DEF CompletedCoversCreation, HasStatus, Rows
    <3>2. QED
      BY <2>4, <2>5, <3>1
  <2>7. CASE task[t].status # "completed"
    <3>1. Completing(t)
      BY <2>1, <2>4, <2>7 DEF RowsWellWritten, WellWritten, HasStatus, Absent, NewTask
    <3>2. PICK w \in Workers : FinishSynced(w) /\ cur[w] = t
      BY <3>1 DEF Completing
    <3>3. asked[t] <= seen[w] /\ seen[w] \in Nat
      BY <3>2 DEF FinishSynced, SeenCoversCreation, TypeOK
    <3>4. seen[w] <= synced'[task[t].table]
      BY <2>4, <2>5, <3>2, <3>3 DEF FinishSynced, TypeOK
    <3>5. QED
      BY <2>4, <2>5, <3>3, <3>4
  <2>8. QED
    BY <2>6, <2>7
<1>4. QED
  BY <1>1, <1>2, <1>3, QueueTypeCorrect, PTL DEF Spec

-----------------------------------------------------------------------------
(* One worker keeps to the budget of attempts.                             *)

Quiet == commands = 0 /\ recoveries = 0 /\ crashes = 0

\* While nothing is put back from outside, only the row that is being run has a
\* lease, and a row that waits has attempts left.
RowWithinBudget(w, t) ==
  /\ task[t].lease # "expired"
  /\ task[t].lease = "live" \/ task[t].status = "running" =>
       Executing(w) /\ cur[w] = t /\ beating[w] /\ task[t].claimedBy = w
  /\ task[t].status \in {"pending", "retry_waiting"} =>
       task[t].attempts <= MaxRetries

\* Nobody else writes the row between the two statements of a claim.
ClaimWithinBudget(w) ==
  pc[w] = "commit" =>
    /\ task[cur[w]].status \in {"pending", "retry_waiting"}
    /\ snap[w][cur[w]].status = task[cur[w]].status
    /\ snap[w][cur[w]].claimedBy = task[cur[w]].claimedBy
    /\ snap[w][cur[w]].attempts = task[cur[w]].attempts

\* No reset is under way.
NoReset(w) == /\ pc[w] \notin {"starting", "recover"}
              /\ \A c \in Clerks : desk[c] = Idle

WithinBudget(w) ==
  NoReset(w) /\ ClaimWithinBudget(w) /\ \A t \in Rows : RowWithinBudget(w, t)

LEMMA QuietBefore ==
  ASSUME TypeOK, [Next]_vars, Quiet'
  PROVE  Quiet /\ UNCHANGED budgets
<1>1. /\ crashes' = crashes \/ crashes' = crashes + 1
      /\ commands' = commands \/ commands' = commands + 1
      /\ recoveries' = recoveries \/ recoveries' = recoveries + 1
  BY BudgetsCount
<1>2. QED
  BY <1>1 DEF Quiet, TypeOK, budgets

\* The steps that spend nothing.
LEMMA QuietCases ==
  ASSUME TypeOK, [Next]_vars, UNCHANGED budgets
  PROVE  \/ \E tb \in Tables : Ingest(tb)
         \/ \E d \in Dispatchers :
              CommitDispatch(d) \/ \E tb \in Tables : FindTask(d, tb)
         \/ \E w \in Workers : WorkerStep(w) \/ Heartbeat(w) \/ Restart(w)
         \/ \E t \in TaskIds : LeaseExpires(t) \/ RetryDue(t)
         \/ \E c \in Clerks : Commit(c)
         \/ UNCHANGED vars
<1>1. /\ crashes' # crashes + 1 /\ commands' # commands + 1
      /\ recoveries' # recoveries + 1
  BY DEF TypeOK, budgets
<1>2. \A w \in Workers : ~HeartbeatStops(w) /\ ~Crash(w) /\ ~LoopEnds(w)
  BY <1>1 DEF HeartbeatStops, Crash, LoopEnds, Lose
<1>3. ~Command
  BY <1>1 DEF Command
<1>4. ~UpdateSettings /\ ~ChangeScope /\ \A tb \in Tables : ~TriggerSync(tb)
  BY <1>3 DEF UpdateSettings, ChangeScope, TriggerSync
<1>5. QED
  BY <1>1, <1>2, <1>4, NextCases

\* A step that writes one row, whose new value and claim are within budget.
LEMMA OneRowWithinBudget ==
  ASSUME TypeOK, NEW w \in Workers, WithinBudget(w), NEW t \in TaskIds, NEW n,
         task' = [task EXCEPT ![t] = n], n # Absent,
         RowWithinBudget(w, t)', ClaimWithinBudget(w)', NoReset(w)',
         \A u \in Rows \ {t} : RowWithinBudget(w, u) => RowWithinBudget(w, u)'
  PROVE  WithinBudget(w)'
<1>1. ASSUME NEW u \in Rows', u # t PROVE u \in Rows
  BY <1>1 DEF TypeOK, Rows, Exists
<1>2. QED
  BY <1>1 DEF WithinBudget

\* What waits for a retry after an execution has attempts left.
LEMMA FinishRetries ==
  ASSUME NEW w \in Workers, FinishSynced(w) \/ FinishFailed(w)
  PROVE  \E status \in {"completed", "partial_success", "failed", "retry_waiting"},
            code \in Codes :
           /\ task' = [task EXCEPT ![cur[w]] =
                         Finished(task[cur[w]], status, code)]
           /\ status = "retry_waiting" => task[cur[w]].attempts <= MaxRetries
<1>1. CASE FinishSynced(w)
  BY <1>1 DEF FinishSynced, Codes
<1>2. CASE FinishFailed(w)
  <2>1. PICK code \in Codes :
          task' = [task EXCEPT ![cur[w]] =
            Finished(task[cur[w]], IF MayRetry(task[cur[w]], code)
                                   THEN "retry_waiting" ELSE "failed", code)]
    BY <1>2 DEF FinishFailed
  <2>2. CASE MayRetry(task[cur[w]], code)
    BY <2>1, <2>2 DEF MayRetry
  <2>3. CASE ~MayRetry(task[cur[w]], code)
    BY <2>1, <2>3
  <2>4. QED
    BY <2>2, <2>3
<1>3. QED
  BY <1>1, <1>2

LEMMA BudgetStep ==
  ASSUME TypeOK, WorksOnRow, ReadsFit, [Next]_vars, Quiet',
         NEW w \in Workers, \A v \in Workers : v = w, WithinBudget(w)
  PROVE  WithinBudget(w)'
<1>q. UNCHANGED budgets
  BY QuietBefore
<1>y. TypeOK' /\ WorksOnRow'
  BY NextTypes, NextWorksOnRow
<1>s. StaleTasks = {}
  BY DEF WithinBudget, RowWithinBudget, StaleTasks, Stale, HasStatus, Rows
<1>d. ASSUME desk' = desk, pc'[w] \notin {"starting", "recover"} PROVE NoReset(w)'
  BY <1>d DEF WithinBudget, NoReset
<1>e. ASSUME UNCHANGED <<desk, pc>> PROVE NoReset(w)'
  BY <1>e DEF WithinBudget, NoReset
<1>u. ASSUME task' = task, UNCHANGED <<pc, cur, snap, beating, desk>>
      PROVE  WithinBudget(w)'
  BY <1>u DEF WithinBudget, NoReset, ClaimWithinBudget, RowWithinBudget, Rows,
              Exists, Executing
<1>1. ASSUME NEW d \in Dispatchers,
             CommitDispatch(d) \/ \E tb \in Tables : FindTask(d, tb)
      PROVE  WithinBudget(w)'
  <2>1. CASE task' = task
    BY <1>1, <1>u, <2>1 DEF FindTask, CommitDispatch, workerVars, serviceVars
  <2>2. CASE task' # task
    <3>1. PICK t \in TaskIds \ Rows :
            task' = [task EXCEPT ![t] = NewTask(find[d].table)]
      BY <1>1, <2>2 DEF FindTask, CommitDispatch, taskVars
    <3>2. UNCHANGED <<pc, cur, snap, beating, desk>>
      BY <1>1 DEF FindTask, CommitDispatch, workerVars, serviceVars
    <3>3. task'[t] = NewTask(find[d].table) /\ NewTask(find[d].table) # Absent
      BY <3>1 DEF TypeOK, NewTask, Absent
    <3>4. RowWithinBudget(w, t)'
      BY <3>3, QueueBounds DEF RowWithinBudget, NewTask
    <3>5. \A u \in TaskIds \ {t} : task'[u] = task[u]
      BY <3>1 DEF TypeOK
    <3>6. pc[w] = "commit" => cur[w] \in Rows /\ cur[w] # t /\ cur[w] \in TaskIds
      BY <3>1 DEF WorksOnRow, Rows
    <3>7. ClaimWithinBudget(w)'
      BY <3>2, <3>5, <3>6 DEF WithinBudget, ClaimWithinBudget
    <3>8. \A u \in Rows \ {t} : RowWithinBudget(w, u) => RowWithinBudget(w, u)'
      BY <3>2, <3>5 DEF RowWithinBudget, Executing, Rows
    <3>9. QED
      BY <1>e, <3>1, <3>2, <3>3, <3>4, <3>7, <3>8, OneRowWithinBudget
  <2>3. QED
    BY <2>1, <2>2
<1>2. CASE BeginLoop(w) \/ Restart(w)
  <2>1. task' = task /\ desk' = desk
    BY <1>2 DEF BeginLoop, Restart, taskVars, serviceVars
  <2>2. ~Executing(w) /\ pc'[w] \in {"claim", "idle"}
    BY <1>2, <1>s DEF BeginLoop, Restart, Executing, TypeOK
  <2>3. NoReset(w)' /\ ~Executing(w)' /\ pc'[w] # "commit"
    BY <1>d, <2>1, <2>2 DEF Executing
  <2>4. QED
    BY <2>1, <2>2, <2>3 DEF WithinBudget, ClaimWithinBudget, RowWithinBudget, Rows, Exists
<1>c. CASE CommitRecovery(w) \/ \E c \in Clerks : Commit(c)
  BY <1>c DEF CommitRecovery, Commit, WithinBudget, NoReset
<1>3. CASE ClaimRead(w)
  <2>1. task' = task /\ ~Executing(w) /\ ~Executing(w)'
    BY <1>3 DEF ClaimRead, Executing, TypeOK, taskVars
  <2>2. PICK t \in TaskIds : Claimable(t) /\ cur'[w] = t /\ snap'[w][t] = task[t]
    BY <1>3, ReadingType DEF ClaimRead, TypeOK
  <2>3. HasStatus(t, {"pending", "retry_waiting"})
    BY <2>2 DEF Claimable, Stale, HasStatus, WithinBudget, RowWithinBudget, Rows
  <2>4. ClaimWithinBudget(w)'
    BY <2>1, <2>2, <2>3 DEF ClaimWithinBudget, HasStatus
  <2>5. NoReset(w)'
    BY <1>3, <1>d DEF ClaimRead, TypeOK, serviceVars
  <2>6. QED
    BY <2>1, <2>4, <2>5 DEF WithinBudget, RowWithinBudget, Rows, Exists
<1>4. CASE ClaimNothing(w)
  <2>1. task' = task /\ ~Executing(w) /\ ~Executing(w)' /\ pc'[w] # "commit"
    BY <1>4 DEF ClaimNothing, Executing, TypeOK, taskVars
  <2>2. NoReset(w)'
    BY <1>4, <1>d DEF ClaimNothing, TypeOK, serviceVars
  <2>3. QED
    BY <2>1, <2>2 DEF WithinBudget, ClaimWithinBudget, RowWithinBudget, Rows, Exists
<1>5. CASE ClaimCommit(w)
  <2>1. PICK t \in TaskIds : t = cur[w] /\ t \in Rows
    BY <1>5 DEF ClaimCommit, WorksOnRow, Rows
  <2>2. task[t] \in Task /\ pc[w] = "commit"
    BY <1>5, <2>1, RowIsTask DEF ClaimCommit
  <2>3. /\ task[t].status \in {"pending", "retry_waiting"}
        /\ snap[w][t].status = task[t].status
        /\ snap[w][t].claimedBy = task[t].claimedBy
    BY <2>1, <2>2 DEF WithinBudget, ClaimWithinBudget
  <2>4. snap[w][t] \in Task
    BY <2>1, <2>2, OneReading DEF WorksOnRow, TypeOK
  <2>5. PICK n : n = Claimed(w, snap[w][t], task[t])
    OBVIOUS
  <2>6. n \in Task /\ n.lease = "live"
    BY <2>2, <2>4, <2>5, ClaimedType
  <2>7. n.status = "running" /\ n.claimedBy = w
    BY <2>2, <2>3, <2>5 DEF Claimed, Task
  <2>8. task' = [task EXCEPT ![t] = n] /\ task'[t] = n
    BY <1>5, <2>1, <2>5 DEF ClaimCommit, TypeOK
  <2>9. Executing(w)' /\ cur'[w] = t /\ beating'[w] /\ pc'[w] # "commit"
    BY <1>5, <2>1 DEF ClaimCommit, Executing, TypeOK
  <2>10. RowWithinBudget(w, t)' /\ ClaimWithinBudget(w)'
    BY <2>6, <2>7, <2>8, <2>9 DEF RowWithinBudget, ClaimWithinBudget
  <2>11. ASSUME NEW u \in Rows \ {t}, RowWithinBudget(w, u) PROVE RowWithinBudget(w, u)'
    <3>1. task'[u] = task[u] /\ ~Executing(w)
      BY <2>2, <2>8, <2>11 DEF TypeOK, Rows, Executing
    <3>2. QED
      BY <2>11, <3>1 DEF RowWithinBudget
  <2>12. n # Absent
    BY <2>6 DEF Absent, Task, Statuses
  <2>13. NoReset(w)'
    BY <1>5, <1>d DEF ClaimCommit, TypeOK, serviceVars
  <2>14. QED
    BY <2>1, <2>8, <2>10, <2>11, <2>12, <2>13, OneRowWithinBudget
<1>6. CASE Heartbeat(w)
  <2> DEFINE t == cur[w]
             n == [task[t] EXCEPT !.lease = "live"]
  <2>1. /\ Executing(w) /\ beating[w] /\ task[t].claimedBy = w
        /\ t \in Rows /\ t \in TaskIds /\ task[t] \in Task
    BY <1>6, RowIsTask DEF Heartbeat, WorksOnRow, Executing, Rows
  <2>2. task' = [task EXCEPT ![t] = n] /\ task'[t] = n /\ UNCHANGED <<pc, cur, snap, beating>>
    BY <1>6, <2>1 DEF Heartbeat, TypeOK, workerVars
  <2>3. /\ n.lease = "live" /\ n.status = task[t].status /\ n.claimedBy = w
        /\ n.attempts = task[t].attempts /\ n # Absent
    BY <2>1 DEF Task, Absent, Statuses
  <2>4. RowWithinBudget(w, t)' /\ ClaimWithinBudget(w)'
    BY <2>1, <2>2, <2>3
    DEF RowWithinBudget, ClaimWithinBudget, WithinBudget, Executing
  <2>5. ASSUME NEW u \in Rows \ {t}, RowWithinBudget(w, u) PROVE RowWithinBudget(w, u)'
    BY <2>2, <2>5 DEF RowWithinBudget, TypeOK, Rows, Executing
  <2>6. NoReset(w)'
    BY <1>6, <1>e, <2>2 DEF Heartbeat, serviceVars
  <2>7. QED
    BY <2>1, <2>2, <2>3, <2>4, <2>5, <2>6, OneRowWithinBudget
<1>7. CASE SyncReads(w)
  <2>1. /\ task' = task /\ UNCHANGED <<cur, snap, beating>>
        /\ Executing(w)' /\ pc'[w] # "commit" /\ NoReset(w)'
    BY <1>7, <1>d DEF SyncReads, taskVars, serviceVars, Executing, TypeOK
  <2>2. QED
    BY <2>1 DEF WithinBudget, ClaimWithinBudget, RowWithinBudget, Rows, Exists
<1>8. CASE FinishSynced(w) \/ FinishFailed(w)
  <2>1. PICK t \in TaskIds : t = cur[w] /\ t \in Rows /\ Executing(w)
    BY <1>8 DEF FinishSynced, FinishFailed, WorksOnRow, Executing, Rows
  <2>2. task[t] \in Task
    BY <2>1, RowIsTask
  <2>3. PICK status \in {"completed", "partial_success", "failed", "retry_waiting"},
             code \in Codes :
          /\ task' = [task EXCEPT ![t] = Finished(task[t], status, code)]
          /\ status = "retry_waiting" => task[t].attempts <= MaxRetries
    BY <1>8, <2>1, FinishRetries
  <2>4. PICK n : n = Finished(task[t], status, code)
    OBVIOUS
  <2>5. n \in Task /\ n.status = status
    BY <2>2, <2>4, FinishedType
  <2>6. n.lease = "none" /\ n.attempts = task[t].attempts
    BY <2>2, <2>4 DEF Finished, Task
  <2>7. task' = [task EXCEPT ![t] = n] /\ task'[t] = n
    BY <2>3, <2>4 DEF TypeOK
  <2>8. pc'[w] = "idle"
    BY <1>8 DEF FinishSynced, FinishFailed, TypeOK
  <2>9. RowWithinBudget(w, t)'
    BY <2>3, <2>5, <2>6, <2>7 DEF RowWithinBudget
  <2>10. ClaimWithinBudget(w)'
    BY <2>8 DEF ClaimWithinBudget
  <2>11. ASSUME NEW u \in Rows \ {t}, RowWithinBudget(w, u) PROVE RowWithinBudget(w, u)'
    <3>1. task'[u] = task[u] /\ cur[w] # u
      BY <2>1, <2>7, <2>11 DEF TypeOK, Rows
    <3>2. QED
      BY <2>11, <3>1 DEF RowWithinBudget
  <2>12. n # Absent
    BY <2>5 DEF Absent, Task, Statuses
  <2>13. NoReset(w)'
    BY <1>8, <1>d, <2>8 DEF FinishSynced, FinishFailed, serviceVars
  <2>14. QED
    BY <2>1, <2>7, <2>9, <2>10, <2>11, <2>12, <2>13, OneRowWithinBudget
<1>9. ASSUME NEW t \in TaskIds, LeaseExpires(t)
      PROVE  FALSE
  BY <1>9 DEF LeaseExpires, Renewed, WithinBudget, RowWithinBudget, Rows
<1>10. ASSUME NEW t \in TaskIds, RetryDue(t)
       PROVE  WithinBudget(w)'
  <2> DEFINE n == [task[t] EXCEPT !.retryAt = "due"]
  <2>1. t \in Rows /\ task[t] \in Task
    BY <1>10, RowIsTask DEF RetryDue, HasStatus, Rows
  <2>2. task' = [task EXCEPT ![t] = n] /\ task'[t] = n /\ UNCHANGED <<pc, cur, snap, beating>>
    BY <1>10 DEF RetryDue, TypeOK, workerVars
  <2>3. /\ n.lease = task[t].lease /\ n.status = task[t].status
        /\ n.claimedBy = task[t].claimedBy /\ n.attempts = task[t].attempts
        /\ n # Absent
    BY <2>1 DEF Task, Absent, Statuses
  <2>4. \A u \in TaskIds \ {t} : task'[u] = task[u]
    BY <2>2 DEF TypeOK
  <2>5. \A u \in Rows : RowWithinBudget(w, u) => RowWithinBudget(w, u)'
    BY <2>2, <2>3, <2>4 DEF RowWithinBudget, Executing, Rows
  <2>6. ClaimWithinBudget(w)'
    <3>1. ASSUME pc[w] = "commit" PROVE cur[w] \in TaskIds
      BY <3>1 DEF WorksOnRow, Rows
    <3>2. QED
      BY <2>2, <2>3, <2>4, <3>1 DEF WithinBudget, ClaimWithinBudget
  <2>7. NoReset(w)'
    BY <1>10, <1>e, <2>2 DEF RetryDue, serviceVars
  <2>8. QED
    BY <2>1, <2>2, <2>3, <2>5, <2>6, <2>7, OneRowWithinBudget DEF WithinBudget
<1>11. CASE UNCHANGED vars \/ \E tb \in Tables : Ingest(tb)
  BY <1>11, <1>u DEF vars, Ingest, taskVars, workerVars, serviceVars
<1>12. QED
  BY <1>q, <1>1, <1>2, <1>c, <1>3, <1>4, <1>5, <1>6, <1>7, <1>8, <1>9, <1>10, <1>11,
     QuietCases DEF WorkerStep

\* A single worker never takes up a task beyond its budget of attempts on its
\* own account, whatever the limit, the tables and the number of dispatchers.
\* Two workers do: a claim from an old reading leaves a lease nobody renews.
THEOREM BudgetHolds ==
  ASSUME NEW w \in Workers, \A v \in Workers : v = w
  PROVE  Spec => []BudgetRespected
<1>1. Init => (Quiet => WithinBudget(w))
  BY DEF Init, WithinBudget, NoReset, ClaimWithinBudget, Rows, Exists
<1>2. TypeOK /\ WorksOnRow /\ ReadsFit /\ (Quiet => WithinBudget(w)) /\ [Next]_vars
      => (Quiet => WithinBudget(w))'
  BY BudgetStep, QuietBefore
<1>3. TypeOK /\ WorksOnRow /\ ReadsFit /\ (Quiet => WithinBudget(w)) => BudgetRespected
  <2> SUFFICES ASSUME WorksOnRow, WithinBudget(w), pc[w] = "commit"
               PROVE  snap[w][cur[w]].attempts <= MaxRetries
    BY DEF BudgetRespected, Quiet
  <2>1. cur[w] \in Rows
    BY DEF WorksOnRow
  <2>2. QED
    BY <2>1 DEF WithinBudget, ClaimWithinBudget, RowWithinBudget
<1>4. QED
  BY <1>1, <1>2, <1>3, QueueTypeCorrect, PTL DEF Spec
=============================================================================
