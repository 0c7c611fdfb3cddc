---------------------------- MODULE CollectionRun ----------------------------
(***************************************************************************)
(* Collection runs: CollectionConfigRunService and CollectionQueueRunner.  *)
(* One process (the leader) runs the queue: it claims a queued run, expands*)
(* it into one task per shop, executes the tasks one after the other and   *)
(* gives the run its verdict.  Operators enqueue and cancel runs, cancel or*)
(* delete tasks and answer verifications meanwhile.                        *)
(*                                                                         *)
(* Every session reads in one statement and writes in a later one, through *)
(* an ORM that writes a column only when its value differs from what it    *)
(* read; the writes below take the same two steps.  The three statuses of  *)
(* PAUSE_STATUSES are one, "waiting".  The browser executor is the choice  *)
(* of its result; tasks outside any run only make the expansion skip their *)
(* shop, which it may do for other reasons as well.  Other processes of the *)
(* application matter in one thing: each marks the running tasks, whoever  *)
(* runs them, when it starts.                                              *)
(***************************************************************************)
EXTENDS Naturals, FiniteSets

CONSTANTS
  Configs, Shops, Operators,
  ScopeOf,    \* ScopeOf[c]: the shops of configuration c
  MaxRuns,    \* bound: runs ever enqueued
  MaxRunsOf,  \* MaxRunsOf[c], bound: requests for c while it has so many runs
  MaxEvents   \* bound: requests on runs and tasks, crashes, starts of other
              \* processes, and what fails at startup or behind the runner's try

ASSUME RunBounds == MaxRuns \in Nat /\ MaxEvents \in Nat
ASSUME Scopes ==
  ScopeOf \in [Configs -> SUBSET Shops] /\ MaxRunsOf \in [Configs -> Nat]
ASSUME SomeShop == Shops # {} /\ Configs # {}

VARIABLES
  run,    \* run[r]: status of the run with id r, in the order of created_at
  config, \* config[r]: the configuration it runs
  task,   \* task[r][s]: the task of run r for shop s
  codes,  \* tasks whose verification code is in Redis
  op,     \* op[o]: the request of operator o between its read and its write
  pc,     \* where CollectionQueueRunner is
  cur,    \* the run it processes, 0 for none
  todo,   \* shops whose task it has not dispatched yet
  shop,   \* the shop of the task it executes
  seen,   \* the status its open session has read
  result, \* the status it is about to write
  found,  \* the running runs and open tasks read at startup
  raced,  \* ghost: an operator overwrote a task that had ended meanwhile
  left,   \* ghost: the runner lost or gave up a run and left it running
  used    \* how much of MaxEvents is spent

vars == <<run, config, task, codes, op, pc, cur, todo, shop, seen, result, found,
          raced, left, used>>
session == <<cur, todo, shop, seen, result, found>>
store == <<run, config, task, codes>>
ghosts == <<raced, left, used>>

RunIds == 1..MaxRuns
ActiveRun == {"queued", "running"}
TerminalRun == {"completed", "partial_success", "failed", "cancelled"}
RunStatus == ActiveRun \cup TerminalRun
TerminalTask == {"completed", "partial_success", "failed", "cancelled"}
\* A task that nobody executes any more: the service of the runs counts the
\* interrupted ones too, the task routes know them neither as ended nor as open.
Ended == TerminalTask \cup {"interrupted"}
\* Faulty variant: the list forgets the newest status.
OpenTaskWithoutSubmitted == {"pending", "running", "waiting"}

OpenTask == {"pending", "running", "waiting", "submitted"}
TaskStatus == Ended \cup OpenTask \cup {"none"}
Tasks == RunIds \X Shops
FirstShop == CHOOSE s \in Shops : TRUE
FirstConfig == CHOOSE c \in Configs : TRUE
Idle == [at |-> "idle"]
Op == {Idle} \cup
      [at : {"enqueue"}, config : Configs, free : BOOLEAN] \cup
      [at : {"cancelRun"}, run : RunIds] \cup
      [at : {"commitCancel"}, run : RunIds, tasks : SUBSET Tasks] \cup
      [at : {"cancelTask", "deleteTask", "resume", "submit"}, task : Tasks]
\* The points at which the runner owns a claimed run.
TaskPoints == {"begin", "mark", "work", "wait", "continue", "save", "saving",
               "failTask"}
RunPoints == TaskPoints \cup {"expand", "dispatch", "next", "finalize",
                              "verdict", "conclude", "failRun"}
Points == RunPoints \cup {"down", "start", "recover", "idle", "claim", "dead"}

TypeOK ==
  /\ run \in [RunIds -> RunStatus \cup {"absent"}]
  /\ config \in [RunIds -> Configs]
  /\ task \in [RunIds -> [Shops -> TaskStatus]]
  /\ codes \in SUBSET Tasks
  /\ op \in [Operators -> Op]
  /\ pc \in Points
  /\ cur \in RunIds \cup {0}
  /\ todo \in SUBSET Shops
  /\ shop \in Shops
  /\ seen \in TaskStatus
  /\ result \in TaskStatus
  /\ found \in [runs : SUBSET RunIds, tasks : SUBSET Tasks]
  /\ raced \in BOOLEAN /\ left \in BOOLEAN
  /\ used \in Nat

Status(t) == task[t[1]][t[2]]
\* An UPDATE of the row of task t; it fails when the row was deleted.
Written(t, v) ==
  IF Status(t) = "none" THEN task ELSE [task EXCEPT ![t[1]][t[2]] = v]
NextRun(r) == run[r] = "absent" /\ \A q \in RunIds : run[q] = "absent" => r <= q
SetRun(r, v) == run' = [run EXCEPT ![r] = v]
\* cancel_run_by_run_id flushes its UPDATE before it reads the tasks: the row
\* of the run stays locked until it commits.
Locked(r) == \E o \in Operators : op[o].at = "commitCancel" /\ op[o].run = r
Current == <<cur, shop>>
Goto(p) == pc' = p
Spend == used < MaxEvents /\ used' = used + 1
\* A session ends: what it read is read again before it is used.
Forget == seen' = "none" /\ result' = "none"
\* The runner is back in its loop, its sessions are closed.
Leave(p) ==
  /\ Goto(p)
  /\ cur' = 0 /\ todo' = {} /\ shop' = FirstShop
  /\ Forget
  /\ found' = [runs |-> {}, tasks |-> {}]

Init ==
  /\ run = [r \in RunIds |-> "absent"]
  /\ config = [r \in RunIds |-> FirstConfig]
  /\ task = [r \in RunIds |-> [s \in Shops |-> "none"]]
  /\ codes = {}
  /\ op = [o \in Operators |-> Idle]
  /\ pc = "down"
  /\ cur = 0
  /\ todo = {}
  /\ shop = FirstShop
  /\ seen = "none"
  /\ result = "none"
  /\ found = [runs |-> {}, tasks |-> {}]
  /\ raced = FALSE /\ left = FALSE
  /\ used = 0

-----------------------------------------------------------------------------
(* The leader process: startup, claim and expansion of a run.              *)

\* Faulty variant: the startup leaves the runs as they are.
InterruptedNone == {}

\* Faulty variant: every run that is not a success is taken for interrupted.
InterruptedOrNotDone ==
  {r \in RunIds : run[r] \notin {"absent", "queued", "completed", "cancelled"}}

\* The runs a stopped process left running.
Interrupted == {r \in RunIds : run[r] = "running"}

\* mark_interrupted_tasks: one UPDATE, whichever process starts.
InterruptTasks ==
  task' = [r \in RunIds |-> [s \in Shops |->
             IF task[r][s] = "running" THEN "interrupted" ELSE task[r][s]]]

\* The leader's process starts; a failure here is only logged.
StartProcess ==
  /\ pc = "down" /\ Goto("start")
  /\ \/ InterruptTasks /\ UNCHANGED used
     \/ Spend /\ UNCHANGED task
  /\ UNCHANGED <<run, config, codes, op, session, raced, left>>

\* Another process of the application starts while the leader is at work.
OtherStarts ==
  /\ Spend
  /\ InterruptTasks
  /\ UNCHANGED <<run, config, codes, op, pc, session, raced, left>>

\* mark_running_runs_failed reads the running runs and their open tasks.
Restart ==
  /\ pc = "start" /\ Goto("recover")
  /\ found' = [runs |-> Interrupted,
               tasks |-> {t \in Interrupted \X Shops : Status(t) \in OpenTask}]
  /\ UNCHANGED <<store, op, cur, todo, shop, seen, result, ghosts>>

\* It fails them all, whatever became of them since.  When a refresh after the
\* commit raises, the startup goes on without a runner ...
Recover ==
  /\ pc = "recover"
  /\ \/ Goto("idle") /\ UNCHANGED used
     \/ Goto("dead") /\ Spend
  /\ \A r \in found.runs : ~Locked(r)
  /\ run' = [r \in RunIds |->
        IF r \in found.runs THEN "failed" ELSE run[r]]
  /\ task' = [r \in RunIds |-> [s \in Shops |->
        IF <<r, s>> \in found.tasks /\ task[r][s] # "none"
        THEN "failed" ELSE task[r][s]]]
  /\ found' = [runs |-> {}, tasks |-> {}]
  /\ left' = FALSE
  /\ UNCHANGED <<config, codes, op, cur, todo, shop, seen, result, raced>>

\* ... and so it does when nothing could be written; nobody starts one later.
RecoverFails ==
  /\ pc = "recover" /\ Leave("dead")
  /\ Spend
  /\ UNCHANGED <<store, op, raced, left>>

\* Faulty variant: a new run is picked while another one is running.
NobodyRunningUnchecked == TRUE

\* get_running_run finds nothing.
NobodyRunning == \A r \in RunIds : run[r] # "running"

\* claim_next_queued_run: no run is running, take the oldest queued one.
PickRun ==
  /\ pc = "idle" /\ Goto("claim")
  /\ NobodyRunning
  /\ \E r \in RunIds :
       /\ run[r] = "queued"
       /\ \A q \in RunIds : run[q] = "queued" => r <= q
       /\ cur' = r
  /\ UNCHANGED <<store, op, todo, shop, seen, result, found, ghosts>>

\* The claim is written whatever the status has become.  The refresh after the
\* commit may raise, outside of the try that would mark the run failed.
ClaimRun ==
  /\ pc = "claim"
  /\ ~Locked(cur)
  /\ SetRun(cur, "running")
  /\ \/ Goto("expand") /\ UNCHANGED <<session, left, used>>
     \/ Leave("idle") /\ Spend /\ left' = TRUE
  /\ UNCHANGED <<config, task, codes, op, raced>>

\* Faulty variant: only the run's own tasks are looked at.
NoOpenTaskOfRun(s) == task[cur][s] \notin OpenTask

\* existing_task: the shop has no active task, of whatever run.
NoOpenTask(s) == \A r \in RunIds : task[r][s] \notin OpenTask

\* create_tasks_for_config, one transaction: a pending task per shop without an
\* active task, unless the shop is disabled or its components do not resolve.
\* Nobody looks at the run; no task at all raises.
Expand ==
  /\ pc = "expand"
  /\ \E new \in SUBSET ScopeOf[config[cur]] :
       /\ \A s \in new : NoOpenTask(s)
       /\ task' = [task EXCEPT ![cur] =
            [s \in Shops |-> IF s \in new THEN "pending" ELSE @[s]]]
       /\ todo' = new
       /\ Goto(IF new = {} THEN "failRun" ELSE "dispatch")
  /\ UNCHANGED <<run, config, codes, op, cur, shop, seen, result, found, ghosts>>

-----------------------------------------------------------------------------
(* _process_run: one task after the other, in the order of the scopes.     *)

\* _is_run_cancelled before each task.
CheckRun ==
  /\ pc = "dispatch"
  /\ Goto(IF todo = {} \/ run[cur] = "cancelled" THEN "finalize" ELSE "next")
  /\ shop' = FirstShop /\ Forget
  /\ UNCHANGED <<store, op, cur, todo, found, ghosts>>

\* _is_task_cancelled before it is executed.
NextTask ==
  /\ pc = "next"
  /\ \E s \in todo :
       /\ shop' = s
       /\ todo' = todo \ {s}
       /\ Goto(IF task[cur][s] = "cancelled" THEN "dispatch" ELSE "begin")
  /\ UNCHANGED <<store, op, cur, seen, result, found, ghosts>>

\* _mark_collection_task_running reads the task: gone or cancelled, it is done.
BeginTask ==
  /\ pc = "begin"
  /\ seen' = Status(Current)
  /\ Goto(IF seen' \in {"none", "cancelled"} THEN "dispatch" ELSE "mark")
  /\ UNCHANGED <<store, op, cur, todo, shop, result, found, ghosts>>

MarkRunning ==
  /\ pc = "mark"
  /\ task' = Written(Current, "running")
  /\ Goto(IF Status(Current) = "none" THEN "failTask" ELSE "work")
  /\ Forget
  /\ UNCHANGED <<run, config, codes, op, cur, todo, shop, found, ghosts>>

\* _on_verification_required: the waiting status is written unconditionally.
AskVerification ==
  /\ pc = "work" /\ Goto("wait")
  /\ task' = Written(Current, "waiting")
  /\ UNCHANGED <<run, config, codes, op, session, ghosts>>

\* The code is taken out of Redis and the task read ...
TakeCode ==
  /\ pc = "wait" /\ Goto("continue")
  /\ Current \in codes
  /\ codes' = codes \ {Current}
  /\ seen' = Status(Current)
  /\ UNCHANGED <<run, config, task, op, cur, todo, shop, result, found, ghosts>>

\* ... which is running again unless it was cancelled when read.
Continue ==
  /\ pc = "continue" /\ Goto("work")
  /\ task' = IF seen \in {"none", "cancelled", "running"}
             THEN task ELSE Written(Current, "running")
  /\ Forget
  /\ UNCHANGED <<run, config, codes, op, cur, todo, shop, found, ghosts>>

\* The wait ends without a code (timeout, cancelled task, no Redis): the
\* executor returns a paused result or fails the export.
GiveUpWaiting ==
  /\ pc = "wait" /\ Goto("save")
  /\ result' \in {"waiting", "failed"}
  /\ UNCHANGED <<store, op, cur, todo, shop, seen, found, ghosts>>

\* The executor returns; it reports "cancelled" only when it saw it.
Report ==
  /\ pc = "work" /\ Goto("save")
  /\ result' \in {"completed", "partial_success", "failed"} \cup
       (IF Status(Current) = "cancelled" THEN {"cancelled"} ELSE {})
  /\ UNCHANGED <<store, op, cur, todo, shop, seen, found, ghosts>>

\* _persist_collection_task_result keeps a cancellation it reads ...
ReadForSave ==
  /\ pc = "save"
  /\ seen' = Status(Current)
  /\ Goto(IF seen' \in {"none", "cancelled"} THEN "dispatch" ELSE "saving")
  /\ UNCHANGED <<store, op, cur, todo, shop, result, found, ghosts>>

\* ... and overwrites one that comes after.  What follows the commit (the ingest
\* of the files, the message to the clients) may raise as well.
SaveTask ==
  /\ pc = "saving"
  /\ task' = IF seen = result THEN task ELSE Written(Current, result)
  /\ \/ Status(Current) # "none" /\ Goto("dispatch")
     \/ Goto("failTask")
  /\ Forget
  /\ UNCHANGED <<run, config, codes, op, cur, todo, shop, found, ghosts>>

\* Anything in the execution of the task raises.
RaiseInTask ==
  /\ pc \in {"begin", "mark", "work", "save", "saving"} /\ Goto("failTask")
  /\ Forget
  /\ UNCHANGED <<store, op, cur, todo, shop, found, ghosts>>

\* _mark_collection_task_failed; when that fails too it is only logged.
FailTask ==
  /\ pc = "failTask" /\ Goto("dispatch")
  /\ \/ task' = Written(Current, "failed") /\ UNCHANGED used
     \/ Spend /\ UNCHANGED task
  /\ UNCHANGED <<run, config, codes, op, session, raced, left>>

-----------------------------------------------------------------------------
(* The verdict of the run: finalize_run_from_tasks.                        *)

\* A cancelled run keeps its status.
FinalizeRun ==
  /\ pc = "finalize"
  /\ IF run[cur] = "cancelled" THEN Leave("idle")
     ELSE Goto("verdict") /\ UNCHANGED session
  /\ UNCHANGED <<store, op, ghosts>>

StatusesOf(r) == {task[r][s] : s \in Shops} \ {"none"}

\* Faulty variant: a run is completed as soon as some task is.
VerdictOfAny(statuses) ==
  CASE statuses = {} -> "failed"
    [] "completed" \in statuses -> "completed"
    [] statuses \subseteq {"cancelled"} -> "cancelled"
    [] statuses \subseteq {"failed", "cancelled", "interrupted"} -> "failed"
    [] OTHER -> "partial_success"

Verdict(statuses) ==
  CASE statuses = {} -> "failed"
    [] statuses \subseteq {"completed"} -> "completed"
    [] statuses \subseteq {"cancelled"} -> "cancelled"
    [] statuses \subseteq {"failed", "cancelled", "interrupted"} -> "failed"
    [] OTHER -> "partial_success"

\* The tasks are read; one that has not ended leaves the run running.
ReadVerdict ==
  /\ pc = "verdict"
  /\ IF StatusesOf(cur) \cap OpenTask # {}
     THEN Leave("idle") /\ left' = TRUE
     ELSE /\ Goto("conclude") /\ result' = Verdict(StatusesOf(cur))
          /\ UNCHANGED <<cur, todo, shop, seen, found, left>>
  /\ UNCHANGED <<store, op, raced, used>>

\* The verdict is written on top of a cancellation that comes in between.  The
\* refresh after the commit may raise.
Conclude ==
  /\ pc = "conclude"
  /\ ~Locked(cur)
  /\ SetRun(cur, result)
  /\ \/ Leave("idle")
     \/ Goto("failRun") /\ UNCHANGED session
  /\ UNCHANGED <<config, task, codes, op, ghosts>>

\* Anything in _process_run raises outside of a task.
RaiseInRun ==
  /\ pc \in {"expand", "dispatch", "next", "finalize", "verdict", "conclude"}
  /\ Goto("failRun")
  /\ UNCHANGED <<store, op, session, ghosts>>

\* mark_run_failed runs in the session that claimed the run: its SELECT does not
\* refresh the object it holds, the test for "cancelled" sees "running" whatever
\* the row says.  When it raises, the loop logs and goes on.
FailRun ==
  /\ pc = "failRun" /\ Leave("idle")
  /\ \/ ~Locked(cur) /\ SetRun(cur, "failed") /\ UNCHANGED <<left, used>>
     \/ /\ Spend
        /\ left' = TRUE
        /\ UNCHANGED run
  /\ UNCHANGED <<config, task, codes, op, raced>>

\* The process stops (kill, or shutdown: CancelledError passes every handler).
Crash ==
  /\ pc # "down" /\ Leave("down")
  /\ Spend
  /\ UNCHANGED <<store, op, raced, left>>

-----------------------------------------------------------------------------
(* Requests of operators and of the scheduler.                             *)

Ask(o, request) ==
  /\ op[o] = Idle
  /\ op' = [op EXCEPT ![o] = request]
  /\ UNCHANGED <<run, config, task, codes, pc, session, raced, left>>
AskOp(o, request) ==
  /\ Spend
  /\ Ask(o, request)
Done(o) == op' = [op EXCEPT ![o] = Idle]

\* enqueue_config_run reads the active runs of the configuration ...
AskEnqueue(o) ==
  /\ \E r \in RunIds : NextRun(r)
  /\ \E c \in Configs :
       /\ Cardinality({r \in RunIds : run[r] # "absent" /\ config[r] = c})
            < MaxRunsOf[c]
       /\ Ask(o, [at |-> "enqueue", config |-> c,
            free |-> \A r \in RunIds : config[r] = c => run[r] \notin ActiveRun])
  /\ UNCHANGED used

\* ... and inserts one when it found none.
Enqueue(o) ==
  /\ op[o].at = "enqueue"
  /\ IF op[o].free /\ \E r \in RunIds : NextRun(r)
     THEN \E r \in RunIds :
            /\ NextRun(r)
            /\ SetRun(r, "queued")
            /\ config' = [config EXCEPT ![r] = op[o].config]
     ELSE UNCHANGED <<run, config>>
  /\ Done(o)
  /\ UNCHANGED <<task, codes, pc, session, ghosts>>

\* cancel_run_by_run_id reads the run, which must be active ...
AskCancelRun(o) ==
  \E r \in RunIds :
    /\ run[r] \in ActiveRun
    /\ AskOp(o, [at |-> "cancelRun", run |-> r])

\* ... flushes its status, which locks the row, reads its open tasks ...
ReadForCancel(o) ==
  /\ op[o].at = "cancelRun"
  /\ ~Locked(op[o].run)
  /\ LET r == op[o].run
     IN op' = [op EXCEPT ![o] = [at |-> "commitCancel", run |-> r,
          tasks |-> {t \in {r} \X Shops : Status(t) \in OpenTask}]]
  /\ UNCHANGED <<store, pc, session, ghosts>>

\* ... and commits both; a task deleted meanwhile fails the request.
CommitCancel(o) ==
  /\ op[o].at = "commitCancel"
  /\ LET r == op[o].run
         ts == op[o].tasks
     IN IF \E t \in ts : Status(t) = "none"
        THEN UNCHANGED <<run, config, task, raced>>
        ELSE /\ SetRun(r, "cancelled")
             /\ task' = [task EXCEPT ![r] = [s \in Shops |->
                  IF <<r, s>> \in ts THEN "cancelled" ELSE @[s]]]
             /\ raced' = (raced \/ \E t \in ts : Status(t) \in Ended)
  /\ Done(o)
  /\ UNCHANGED <<config, codes, pc, session, left, used>>

\* cancel_or_delete_task reads the task (it refuses an interrupted one) ...
AskEndTask(o) ==
  \E t \in Tasks :
    \/ Status(t) \in OpenTask /\ AskOp(o, [at |-> "cancelTask", task |-> t])
    \/ Status(t) \in TerminalTask /\ AskOp(o, [at |-> "deleteTask", task |-> t])

Overwrite(o, v) ==
  /\ task' = Written(op[o].task, v)
  /\ raced' = (raced \/ Status(op[o].task) \in Ended)
  /\ Done(o)
  /\ UNCHANGED <<run, config, pc, session, left, used>>

\* ... and cancels one that was open ...
CancelTask(o) ==
  /\ op[o].at = "cancelTask"
  /\ Overwrite(o, "cancelled")
  /\ UNCHANGED codes

\* ... or deletes one that had ended.
DeleteTask(o) ==
  /\ op[o].at = "deleteTask"
  /\ task' = Written(op[o].task, "none")
  /\ Done(o)
  /\ UNCHANGED <<run, config, codes, pc, session, ghosts>>

\* resume_task reads a waiting task ...
AskResume(o) ==
  \E t \in Tasks :
    /\ Status(t) = "waiting"
    /\ AskOp(o, [at |-> "resume", task |-> t])

\* ... puts the code into Redis ...
PutCode(o) ==
  /\ op[o].at = "resume"
  /\ codes' = codes \cup {op[o].task}
  /\ op' = [op EXCEPT ![o] = [at |-> "submit", task |-> op[o].task]]
  /\ UNCHANGED <<run, config, task, pc, session, ghosts>>

\* ... and then writes the new status over what the executor made of it.
Submit(o) ==
  /\ op[o].at = "submit"
  /\ Overwrite(o, "submitted")
  /\ UNCHANGED codes

-----------------------------------------------------------------------------
RunnerStep ==
  \/ StartProcess \/ Restart \/ Recover \/ PickRun \/ ClaimRun \/ Expand
  \/ CheckRun \/ NextTask \/ BeginTask \/ MarkRunning
  \/ AskVerification \/ TakeCode \/ Continue \/ GiveUpWaiting
  \/ Report \/ ReadForSave \/ SaveTask \/ RaiseInTask \/ FailTask
  \/ FinalizeRun \/ ReadVerdict \/ Conclude \/ RaiseInRun \/ FailRun
Request(o) == AskEnqueue(o) \/ AskCancelRun(o) \/ AskEndTask(o) \/ AskResume(o)
Reply(o) ==
  \/ Enqueue(o) \/ ReadForCancel(o) \/ CommitCancel(o)
  \/ CancelTask(o) \/ DeleteTask(o) \/ PutCode(o) \/ Submit(o)

Next ==
  \/ RunnerStep
  \/ Crash \/ RecoverFails \/ OtherStarts
  \/ \E o \in Operators : Request(o) \/ Reply(o)

Spec == Init /\ [][Next]_vars

\* The event loop goes on with the runner and with every request it has begun;
\* the verification wait and the page timeouts end what they wait for; a process
\* that stopped is started again (restart: always in docker-compose.prod.yml).
\* Nothing starts a runner in a process that lives without one.
FairSpec ==
  /\ Spec
  /\ WF_vars(RunnerStep)
  /\ \A o \in Operators : WF_vars(Reply(o))

-----------------------------------------------------------------------------
\* At most one run is running, through cancellations, restarts and runs that
\* their verdict left running: claim_next_queued_run relies on it.
OneRunRunning ==
  \A r, q \in RunIds : run[r] = "running" /\ run[q] = "running" => r = q

\* A completed run is whole: every task it has left is completed, whatever was
\* cancelled, deleted or failed on the way -- unless an operator's request
\* overwrote a task that had ended since the request read it.
CompletedRunIsWhole ==
  \A r \in RunIds :
    run[r] = "completed" /\ ~raced => StatusesOf(r) \subseteq {"completed"}

\* A verdict stands: no startup, no later run and no command takes it back.  Two
\* things still replace it: a cancellation that read the run before the verdict
\* and commits after it, and the failure of the very step that wrote it, which
\* the runner takes for a failure of the run before it leaves the run.
VerdictStands ==
  [][\A r \in RunIds :
       run[r] \in TerminalRun \ {"cancelled"} =>
         \/ run'[r] = run[r]
         \/ /\ run'[r] = "cancelled"
            /\ \E o \in Operators : op[o].at = "commitCancel" /\ op[o].run = r
         \/ run'[r] = "failed" /\ pc = "failRun" /\ cur = r]_vars

\* Two runs never have open tasks for one shop: a run that was cancelled or
\* failed between two steps may leave open tasks behind, and whatever the runner
\* goes on writing to its own tasks, no later run has one beside them -- unless
\* an operator's request reopened a task that had ended since it read it.
ShopHasOneOpenTask ==
  ~raced =>
    \A s \in Shops : \A r, q \in RunIds :
      task[r][s] \in OpenTask /\ task[q][s] \in OpenTask => r = q

\* The queue drains: every queued run is taken (or cancelled), unless the runner
\* is idle behind a run it left running itself -- one with a task that had not
\* ended when it looked, one whose failure it could not write, one whose claim
\* raised after its commit -- or the process lives without a runner, because the
\* recovery at its start failed.
QueueDrains ==
  \A r \in RunIds :
    run[r] = "queued" ~>
      \/ run[r] # "queued"
      \/ pc = "idle" /\ left /\ ~NobodyRunning
      \/ pc = "dead"
=============================================================================
