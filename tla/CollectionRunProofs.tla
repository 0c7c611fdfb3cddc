------------------------ MODULE CollectionRunProofs ------------------------
(***************************************************************************)
(* Theorems about CollectionRun, for any configurations, shops, operators  *)
(* and bounds.                                                             *)
(***************************************************************************)
EXTENDS CollectionRun, TLAPS

USE DEF RunIds

LEMMA FirstShopIsShop == FirstShop \in Shops
BY SomeShop DEF FirstShop

LEMMA FirstConfigIsConfig == FirstConfig \in Configs
BY SomeShop DEF FirstConfig

\* An UPDATE of one task leaves every other task alone.
LEMMA WrittenTask ==
  ASSUME TypeOK, NEW t \in Tasks, NEW v \in TaskStatus
  PROVE  /\ Written(t, v) \in [RunIds -> [Shops -> TaskStatus]]
         /\ \A r \in RunIds, s \in Shops :
              Written(t, v)[r][s] =
                IF <<r, s>> = t /\ task[r][s] # "none" THEN v ELSE task[r][s]
<1>1. t[1] \in RunIds /\ t[2] \in Shops /\ t = <<t[1], t[2]>>
  BY DEF Tasks
<1>2. QED
  BY <1>1 DEF TypeOK, Written, Status

LEMMA VerdictIsTerminal ==
  ASSUME NEW S \in SUBSET TaskStatus
  PROVE  /\ Verdict(S) \in TerminalRun /\ Verdict(S) \in TaskStatus
         /\ Verdict(S) = "completed" => S \subseteq {"completed"}
BY DEF Verdict, TerminalRun, TaskStatus, TerminalTask, Ended

LEMMA StatusesTyped ==
  ASSUME TypeOK, NEW r \in RunIds
  PROVE  StatusesOf(r) \in SUBSET TaskStatus
BY DEF StatusesOf, TypeOK

\* What the request of an operator holds.
LEMMA RequestTyped ==
  ASSUME TypeOK, NEW o \in Operators
  PROVE  /\ op[o].at = "enqueue" => op[o].config \in Configs
         /\ op[o].at = "cancelRun" => op[o].run \in RunIds
         /\ op[o].at = "commitCancel" =>
              op[o].run \in RunIds /\ op[o].tasks \in SUBSET Tasks
         /\ op[o].at \in {"cancelTask", "deleteTask", "resume", "submit"} =>
              op[o].task \in Tasks
<1>1. op[o] \in Op
  BY DEF TypeOK
<1>2. QED
  BY <1>1 DEF Op, Idle

-----------------------------------------------------------------------------
(* The inductive invariant.                                                *)

\* How far the runner is tells what the runs can be: the run it is about to
\* claim can only be cancelled under its hands, and so can the one it holds,
\* which has its verdict only if writing it raised; nothing else is running
\* while it holds one.
Phase ==
  /\ pc = "claim" =>
       cur \in RunIds /\ run[cur] \in {"queued", "cancelled"} /\ NobodyRunning
  /\ pc \in RunPoints =>
       /\ cur \in RunIds
       /\ \/ run[cur] \in {"running", "cancelled"}
          \/ pc = "failRun" /\ run[cur] \in TerminalRun
       /\ \A r \in RunIds : run[r] = "running" => r = cur
  /\ pc = "conclude" => result \in TerminalRun
  /\ pc # "recover" => found.runs = {} /\ found.tasks = {}
  /\ found.tasks \subseteq found.runs \X Shops
  /\ \A r \in found.runs : run[r] \in {"running", "cancelled"}

\* A run that is completed, or is about to be, is whole.
Whole ==
  \A r \in RunIds :
    /\ ~raced
    /\ run[r] = "completed" \/ (pc = "conclude" /\ result = "completed" /\ r = cur)
    => StatusesOf(r) \subseteq {"completed"}

\* The shops of the run in hand whose task is still to be executed, or is being
\* executed, are its own: no other run has an open task for them.
ShopsAhead == todo \cup (IF pc \in TaskPoints THEN {shop} ELSE {})
Alone ==
  pc \in TaskPoints \cup {"dispatch", "next"} /\ ~raced =>
    \A s \in ShopsAhead, r \in RunIds \ {cur} : task[r][s] \notin OpenTask

IInv == TypeOK /\ Phase /\ OneRunRunning /\ Whole /\ Alone /\ ShopHasOneOpenTask

\* Initially there is no run at all.
THEOREM InitRunInv == Init => IInv
<1>1. ASSUME Init PROVE TypeOK
  BY <1>1, FirstShopIsShop, FirstConfigIsConfig, RunBounds
  DEF Init, TypeOK, TaskStatus, RunStatus, Points, Op
<1>2. ASSUME Init PROVE Phase /\ OneRunRunning /\ Whole
  BY <1>2 DEF Init, Phase, OneRunRunning, Whole, RunPoints, TaskPoints
<1>3. ASSUME Init PROVE Alone /\ ShopHasOneOpenTask
  BY <1>3 DEF Init, Alone, ShopHasOneOpenTask, OpenTask, TaskPoints
<1>4. QED
  BY <1>1, <1>2, <1>3 DEF IInv

-----------------------------------------------------------------------------
(* Type correctness.                                                       *)

LEMMA CurrentIsTask ==
  ASSUME TypeOK, Phase, pc \in RunPoints
  PROVE  Current \in Tasks
BY DEF TypeOK, Phase, Current, Tasks

LEMMA LeaveTyped ==
  ASSUME NEW p \in Points, Leave(p)
  PROVE  /\ pc' \in Points /\ cur' \in RunIds \cup {0} /\ todo' \in SUBSET Shops
         /\ shop' \in Shops /\ seen' \in TaskStatus /\ result' \in TaskStatus
         /\ found' \in [runs : SUBSET RunIds, tasks : SUBSET Tasks]
BY FirstShopIsShop DEF Leave, Goto, Forget, TaskStatus

\* The steps of the runner before and after the tasks of a run.
RunStep ==
  \/ StartProcess \/ OtherStarts \/ Restart \/ Recover \/ RecoverFails
  \/ PickRun \/ ClaimRun \/ Expand \/ FinalizeRun
  \/ ReadVerdict \/ Conclude \/ RaiseInRun \/ FailRun \/ Crash
TaskStep ==
  \/ CheckRun \/ NextTask \/ BeginTask \/ MarkRunning
  \/ AskVerification \/ TakeCode \/ Continue \/ GiveUpWaiting
  \/ Report \/ ReadForSave \/ SaveTask \/ RaiseInTask \/ FailTask

LEMMA SpendTyped ==
  ASSUME TypeOK, Spend
  PROVE  used' \in Nat
BY DEF Spend, TypeOK

\* Marking the interrupted tasks ends some and touches nothing else.
LEMMA InterruptTyped ==
  ASSUME TypeOK, InterruptTasks
  PROVE  /\ task' \in [RunIds -> [Shops -> TaskStatus]]
         /\ \A r \in RunIds, s \in Shops :
              \/ task'[r][s] = task[r][s]
              \/ task[r][s] = "running" /\ task'[r][s] = "interrupted"
<1>1. \A r \in RunIds, s \in Shops :
        task'[r][s] = IF task[r][s] = "running" THEN "interrupted" ELSE task[r][s]
  BY DEF InterruptTasks
<1>2. \A r \in RunIds, s \in Shops :
        (IF task[r][s] = "running" THEN "interrupted" ELSE task[r][s]) \in TaskStatus
  BY DEF TypeOK, TaskStatus, Ended
<1>3. task' \in [RunIds -> [Shops -> TaskStatus]]
  BY <1>2 DEF InterruptTasks
<1>4. QED
  BY <1>1, <1>3

LEMMA TaskStepTyped ==
  ASSUME TypeOK, Phase, TaskStep
  PROVE  TypeOK'
<1> USE DEF store, session, ghosts, Goto, Forget
<1>p. TaskPoints \cup {"dispatch", "next", "finalize"} \subseteq Points
  BY DEF Points, RunPoints
<1>r. pc \in RunPoints => /\ Status(Current) \in TaskStatus
                          /\ \A v \in TaskStatus :
                               Written(Current, v) \in [RunIds -> [Shops -> TaskStatus]]
  <2>1. ASSUME pc \in RunPoints PROVE Status(Current) \in TaskStatus
    BY <2>1 DEF TypeOK, Phase, Current, Status
  <2>2. QED
    BY <2>1, CurrentIsTask, WrittenTask
<1>s. {"none", "running", "waiting", "failed", "completed", "partial_success",
       "cancelled"} \subseteq TaskStatus
  BY DEF TaskStatus, OpenTask, TerminalTask, Ended
<1> USE <1>p
<1>1. CASE CheckRun
  BY <1>1, <1>s, FirstShopIsShop DEF TypeOK, CheckRun
<1>2. CASE NextTask
  BY <1>2 DEF TypeOK, NextTask, TaskPoints
<1>3. CASE BeginTask
  <2>1. pc \in RunPoints
    BY <1>3 DEF BeginTask, RunPoints, TaskPoints
  <2>2. QED
    BY <1>3, <2>1, <1>r DEF TypeOK, BeginTask, TaskPoints
<1>4. CASE MarkRunning
  <2>1. pc \in RunPoints
    BY <1>4 DEF MarkRunning, RunPoints, TaskPoints
  <2>2. QED
    BY <1>4, <2>1, <1>r, <1>s DEF TypeOK, MarkRunning, TaskPoints
<1>5. CASE AskVerification
  <2>1. pc \in RunPoints
    BY <1>5 DEF AskVerification, RunPoints, TaskPoints
  <2>2. QED
    BY <1>5, <2>1, <1>r, <1>s DEF TypeOK, AskVerification, TaskPoints
<1>6. CASE TakeCode
  <2>1. pc \in RunPoints
    BY <1>6 DEF TakeCode, RunPoints, TaskPoints
  <2>2. QED
    BY <1>6, <2>1, <1>r DEF TypeOK, TakeCode, TaskPoints
<1>7. CASE Continue
  <2>1. pc \in RunPoints
    BY <1>7 DEF Continue, RunPoints, TaskPoints
  <2>2. QED
    BY <1>7, <2>1, <1>r, <1>s DEF TypeOK, Continue, TaskPoints
<1>8. CASE GiveUpWaiting
  BY <1>8, <1>s DEF TypeOK, GiveUpWaiting, TaskPoints
<1>9. CASE Report
  BY <1>9, <1>s DEF TypeOK, Report, TaskPoints
<1>10. CASE ReadForSave
  <2>1. pc \in RunPoints
    BY <1>10 DEF ReadForSave, RunPoints, TaskPoints
  <2>2. QED
    BY <1>10, <2>1, <1>r DEF TypeOK, ReadForSave, TaskPoints
<1>11. CASE SaveTask
  <2>1. pc \in RunPoints
    BY <1>11 DEF SaveTask, RunPoints, TaskPoints
  <2>2. QED
    BY <1>11, <2>1, <1>r, <1>s DEF TypeOK, SaveTask, TaskPoints
<1>12. CASE RaiseInTask
  BY <1>12, <1>s DEF TypeOK, RaiseInTask, TaskPoints
<1>13. CASE FailTask
  <2>1. pc \in RunPoints
    BY <1>13 DEF FailTask, RunPoints, TaskPoints
  <2>2. used' \in Nat
    BY <1>13, SpendTyped DEF FailTask, TypeOK
  <2>3. QED
    BY <1>13, <2>1, <2>2, <1>r, <1>s DEF TypeOK, FailTask
<1>14. QED
  BY <1>1, <1>2, <1>3, <1>4, <1>5, <1>6, <1>7, <1>8, <1>9, <1>10, <1>11,
     <1>12, <1>13 DEF TaskStep

LEMMA RunStepTyped ==
  ASSUME TypeOK, Phase, RunStep
  PROVE  TypeOK'
<1> USE DEF store, session, ghosts, Goto
<1>p. {"down", "start", "recover", "idle", "claim", "dead", "expand", "dispatch",
       "failRun", "verdict", "conclude"} \subseteq Points
  BY DEF Points, RunPoints
<1>s. TerminalRun \subseteq RunStatus /\ "running" \in RunStatus
  BY DEF RunStatus, ActiveRun, TerminalRun
<1>t. "pending" \in TaskStatus /\ "failed" \in TaskStatus
  BY DEF TaskStatus, OpenTask, TerminalTask, Ended
<1> USE <1>p
<1>1. CASE Restart
  BY <1>1 DEF TypeOK, Restart, Interrupted, Tasks
<1>2. CASE Recover
  <2>1. run' \in [RunIds -> RunStatus \cup {"absent"}]
    BY <1>2, <1>s DEF TypeOK, Recover, TerminalRun
  <2>2. task' \in [RunIds -> [Shops -> TaskStatus]]
    BY <1>2, <1>t DEF TypeOK, Recover
  <2>3. used' \in Nat
    BY <1>2, SpendTyped DEF TypeOK, Recover
  <2>4. QED
    BY <1>2, <2>1, <2>2, <2>3 DEF TypeOK, Recover
<1>3. CASE PickRun
  BY <1>3 DEF TypeOK, PickRun
<1>4. CASE ClaimRun
  <2>1. run' \in [RunIds -> RunStatus \cup {"absent"}]
    BY <1>4, <1>s DEF TypeOK, ClaimRun, SetRun
  <2>2. CASE Leave("idle") /\ Spend
    BY <1>4, <2>1, <2>2, LeaveTyped, SpendTyped DEF TypeOK, ClaimRun
  <2>3. CASE pc' = "expand" /\ UNCHANGED <<session, left, used>>
    BY <1>4, <2>1, <2>3 DEF TypeOK, ClaimRun
  <2>4. QED
    BY <1>4, <2>2, <2>3 DEF ClaimRun
<1>5. CASE Expand
  <2>0. cur \in RunIds /\ config[cur] \in Configs
    BY <1>5 DEF TypeOK, Phase, Expand, RunPoints
  <2>1. PICK new \in SUBSET ScopeOf[config[cur]] :
          /\ task' = [task EXCEPT ![cur] =
               [s \in Shops |-> IF s \in new THEN "pending" ELSE @[s]]]
          /\ todo' = new
          /\ pc' = IF new = {} THEN "failRun" ELSE "dispatch"
    BY <1>5 DEF Expand
  <2>2. new \in SUBSET Shops
    BY <2>0, <2>1, Scopes
  <2>3. task' \in [RunIds -> [Shops -> TaskStatus]]
    BY <2>0, <2>1, <1>t DEF TypeOK
  <2>4. QED
    BY <1>5, <2>1, <2>2, <2>3 DEF TypeOK, Expand
<1>6. CASE FinalizeRun
  <2>1. CASE run[cur] = "cancelled"
    BY <1>6, <2>1, LeaveTyped DEF TypeOK, FinalizeRun
  <2>2. CASE run[cur] # "cancelled"
    BY <1>6, <2>2 DEF TypeOK, FinalizeRun
  <2>3. QED
    BY <2>1, <2>2
<1>7. CASE ReadVerdict
  <2>0. cur \in RunIds
    BY <1>7 DEF Phase, ReadVerdict, RunPoints
  <2>1. CASE StatusesOf(cur) \cap OpenTask # {}
    BY <1>7, <2>1, LeaveTyped DEF TypeOK, ReadVerdict
  <2>2. CASE StatusesOf(cur) \cap OpenTask = {}
    <3>1. Verdict(StatusesOf(cur)) \in TaskStatus
      BY <2>0, StatusesTyped, VerdictIsTerminal
    <3>2. QED
      BY <1>7, <2>2, <3>1 DEF TypeOK, ReadVerdict
  <2>3. QED
    BY <2>1, <2>2
<1>8. CASE Conclude
  <2>1. result \in TerminalRun
    BY <1>8 DEF Conclude, Phase
  <2>2. run' \in [RunIds -> RunStatus \cup {"absent"}]
    BY <1>8, <2>1, <1>s DEF TypeOK, Conclude, SetRun
  <2>3. CASE Leave("idle")
    BY <1>8, <2>2, <2>3, LeaveTyped DEF TypeOK, Conclude
  <2>4. CASE pc' = "failRun" /\ UNCHANGED session
    BY <1>8, <2>2, <2>4 DEF TypeOK, Conclude
  <2>5. QED
    BY <1>8, <2>3, <2>4 DEF Conclude
<1>9. CASE RaiseInRun
  BY <1>9 DEF TypeOK, RaiseInRun
<1>10. CASE FailRun
  <2>1. run' \in [RunIds -> RunStatus \cup {"absent"}]
    BY <1>10, <1>s DEF TypeOK, FailRun, SetRun, TerminalRun
  <2>2. used' \in Nat /\ left' \in BOOLEAN
    BY <1>10, SpendTyped DEF FailRun, TypeOK
  <2>3. Leave("idle")
    BY <1>10 DEF FailRun
  <2>4. QED
    BY <1>10, <2>1, <2>2, <2>3, LeaveTyped DEF TypeOK, FailRun
<1>11. CASE Crash
  BY <1>11, LeaveTyped, SpendTyped DEF TypeOK, Crash
<1>12. CASE RecoverFails
  BY <1>12, LeaveTyped, SpendTyped DEF TypeOK, RecoverFails
<1>13. CASE StartProcess \/ OtherStarts
  <2>1. task' \in [RunIds -> [Shops -> TaskStatus]]
    BY <1>13, InterruptTyped DEF StartProcess, OtherStarts, TypeOK
  <2>2. used' \in Nat
    BY <1>13, SpendTyped DEF StartProcess, OtherStarts, TypeOK
  <2>3. QED
    BY <1>13, <2>1, <2>2 DEF StartProcess, OtherStarts, TypeOK
<1>14. QED
  BY <1>1, <1>2, <1>3, <1>4, <1>5, <1>6, <1>7, <1>8, <1>9, <1>10, <1>11,
     <1>12, <1>13
  DEF RunStep

LEMMA RequestStored ==
  ASSUME TypeOK, NEW o \in Operators, NEW q \in Op, Ask(o, q), used' \in Nat
  PROVE  TypeOK'
BY DEF TypeOK, Ask, session

LEMMA AskTyped ==
  ASSUME TypeOK, NEW o \in Operators, Request(o)
  PROVE  TypeOK'
<1>1. CASE AskEnqueue(o)
  <2>1. PICK c \in Configs : Ask(o, [at |-> "enqueue", config |-> c,
          free |-> \A r \in RunIds : config[r] = c => run[r] \notin ActiveRun])
    BY <1>1 DEF AskEnqueue
  <2>2. [at |-> "enqueue", config |-> c,
          free |-> \A r \in RunIds : config[r] = c => run[r] \notin ActiveRun] \in Op
    BY DEF Op
  <2>3. used' \in Nat
    BY <1>1 DEF AskEnqueue, TypeOK
  <2>4. QED
    BY <2>1, <2>2, <2>3, RequestStored
<1>2. CASE AskCancelRun(o)
  <2>1. PICK r \in RunIds : AskOp(o, [at |-> "cancelRun", run |-> r])
    BY <1>2 DEF AskCancelRun
  <2>2. [at |-> "cancelRun", run |-> r] \in Op
    BY DEF Op
  <2>3. QED
    BY <2>1, <2>2, SpendTyped, RequestStored DEF AskOp
<1>3. CASE AskEndTask(o) \/ AskResume(o)
  <2>1. PICK t \in Tasks, a \in {"cancelTask", "deleteTask", "resume"} :
          AskOp(o, [at |-> a, task |-> t])
    BY <1>3 DEF AskEndTask, AskResume
  <2>2. [at |-> a, task |-> t] \in Op
    BY DEF Op
  <2>3. QED
    BY <2>1, <2>2, SpendTyped, RequestStored DEF AskOp
<1>4. QED
  BY <1>1, <1>2, <1>3 DEF Request

LEMMA ReplyTyped ==
  ASSUME TypeOK, NEW o \in Operators, Reply(o)
  PROVE  TypeOK'
<1> USE DEF store, session, ghosts
<1>s. {"queued", "cancelled"} \subseteq RunStatus
      /\ {"none", "cancelled", "submitted"} \subseteq TaskStatus
  BY DEF RunStatus, ActiveRun, TerminalRun, TaskStatus, OpenTask, TerminalTask, Ended
<1>d. Done(o) => op' \in [Operators -> Op]
  BY DEF Done, TypeOK, Op
<1>1. CASE Enqueue(o)
  <2>1. op[o].config \in Configs
    BY <1>1, RequestTyped DEF Enqueue
  <2>2. /\ run' \in [RunIds -> RunStatus \cup {"absent"}]
        /\ config' \in [RunIds -> Configs]
    BY <1>1, <2>1, <1>s DEF Enqueue, TypeOK, SetRun
  <2>3. QED
    BY <1>1, <2>2, <1>d DEF Enqueue, TypeOK
<1>2. CASE ReadForCancel(o)
  <2>1. op[o].run \in RunIds
    BY <1>2, RequestTyped DEF ReadForCancel
  <2>2. [at |-> "commitCancel", run |-> op[o].run,
          tasks |-> {t \in {op[o].run} \X Shops : Status(t) \in OpenTask}] \in Op
    BY <2>1 DEF Op, Tasks
  <2>3. op' \in [Operators -> Op]
    BY <1>2, <2>2 DEF ReadForCancel, TypeOK
  <2>4. QED
    BY <1>2, <2>3 DEF ReadForCancel, TypeOK
<1>3. CASE CommitCancel(o)
  <2>1. op[o].run \in RunIds
    BY <1>3, RequestTyped DEF CommitCancel
  <2>2. /\ run' \in [RunIds -> RunStatus \cup {"absent"}]
        /\ task' \in [RunIds -> [Shops -> TaskStatus]]
        /\ raced' \in BOOLEAN
    <3>1. CASE \E t \in op[o].tasks : Status(t) = "none"
      BY <1>3, <3>1 DEF CommitCancel, TypeOK
    <3>2. CASE ~\E t \in op[o].tasks : Status(t) = "none"
      <4>1. run' = [run EXCEPT ![op[o].run] = "cancelled"]
        BY <1>3, <3>2, Zenon DEF CommitCancel, SetRun
      <4>2. task' = [task EXCEPT ![op[o].run] = [s \in Shops |->
              IF <<op[o].run, s>> \in op[o].tasks THEN "cancelled" ELSE @[s]]]
        BY <1>3, <3>2, Zenon DEF CommitCancel
      <4>3. raced' = (raced \/ \E t \in op[o].tasks : Status(t) \in Ended)
        BY <1>3, <3>2, Zenon DEF CommitCancel
      <4>4. run' \in [RunIds -> RunStatus \cup {"absent"}]
        BY <2>1, <4>1, <1>s DEF TypeOK
      <4>5. task' \in [RunIds -> [Shops -> TaskStatus]]
        BY <2>1, <4>2, <1>s DEF TypeOK
      <4>6. raced' \in BOOLEAN
        BY <4>3, Zenon
      <4>7. QED
        BY <4>4, <4>5, <4>6
    <3>3. QED
      BY <3>1, <3>2
  <2>3. QED
    BY <1>3, <2>2, <1>d DEF CommitCancel, TypeOK
<1>4. CASE CancelTask(o) \/ DeleteTask(o) \/ Submit(o)
  <2>1. op[o].task \in Tasks
    BY <1>4, RequestTyped DEF CancelTask, DeleteTask, Submit
  <2>2. task' \in [RunIds -> [Shops -> TaskStatus]]
    BY <1>4, <2>1, <1>s, WrittenTask DEF CancelTask, DeleteTask, Submit, Overwrite
  <2>3. QED
    BY <1>4, <2>2, <1>d DEF CancelTask, DeleteTask, Submit, Overwrite, TypeOK
<1>5. CASE PutCode(o)
  <2>1. op[o].task \in Tasks
    BY <1>5, RequestTyped DEF PutCode
  <2>2. [at |-> "submit", task |-> op[o].task] \in Op
    BY <2>1 DEF Op
  <2>3. QED
    BY <1>5, <2>1, <2>2 DEF PutCode, TypeOK
<1>6. QED
  BY <1>1, <1>2, <1>3, <1>4, <1>5 DEF Reply

LEMMA StepIsOneOf ==
  ASSUME [Next]_vars
  PROVE  \/ RunStep \/ TaskStep \/ UNCHANGED vars
         \/ \E o \in Operators : Request(o) \/ Reply(o)
BY DEF Next, RunnerStep, RunStep, TaskStep

LEMMA NextTyped ==
  ASSUME TypeOK, Phase, [Next]_vars
  PROVE  TypeOK'
<1>1. CASE UNCHANGED vars
  BY <1>1 DEF TypeOK, vars
<1>2. QED
  BY <1>1, StepIsOneOf, RunStepTyped, TaskStepTyped, AskTyped, ReplyTyped

-----------------------------------------------------------------------------
(* The phases.                                                             *)

LEMMA TaskStepPhase ==
  ASSUME TypeOK, Phase, TaskStep
  PROVE  /\ pc \in RunPoints \ {"conclude", "failRun"}
         /\ pc' \in RunPoints \ {"conclude", "failRun"}
         /\ UNCHANGED <<run, cur, found, raced>>
BY DEF TaskStep, CheckRun, NextTask, BeginTask, MarkRunning, AskVerification,
   TakeCode, Continue, GiveUpWaiting, Report, ReadForSave, SaveTask,
   RaiseInTask, FailTask, Goto, store, session, ghosts, RunPoints, TaskPoints

\* What a request does to the runs: it cancels one or adds a queued one.
LEMMA RequestPhase ==
  ASSUME TypeOK, NEW o \in Operators, Request(o) \/ Reply(o)
  PROVE  /\ UNCHANGED <<pc, cur, todo, shop, seen, result, found>>
         /\ \A r \in RunIds : \/ run'[r] = run[r]
                              \/ /\ run'[r] = "cancelled"
                                 /\ op[o].at = "commitCancel" /\ op[o].run = r
                              \/ run[r] = "absent" /\ run'[r] = "queued"
<1>1. CASE CommitCancel(o)
  <2>1. op[o].run \in RunIds /\ op[o].at = "commitCancel"
    BY <1>1, RequestTyped DEF CommitCancel
  <2>2. \/ run' = run
        \/ run' = [run EXCEPT ![op[o].run] = "cancelled"]
    BY <1>1, Zenon DEF CommitCancel, SetRun
  <2>3. QED
    BY <1>1, <2>1, <2>2 DEF CommitCancel, session, TypeOK
<1>2. CASE Enqueue(o)
  BY <1>2 DEF Enqueue, NextRun, SetRun, session, TypeOK
<1>3. CASE Request(o)
  BY <1>3 DEF Request, AskEnqueue, AskCancelRun, AskEndTask, AskResume, AskOp,
     Ask, session, TypeOK
<1>4. CASE ReadForCancel(o) \/ CancelTask(o) \/ DeleteTask(o) \/ PutCode(o)
             \/ Submit(o)
  BY <1>4 DEF ReadForCancel, CancelTask, DeleteTask, PutCode, Submit, Overwrite,
     session, store, TypeOK
<1>5. QED
  BY <1>1, <1>2, <1>3, <1>4 DEF Reply

LEMMA RequestKeepsPhase ==
  ASSUME TypeOK, Phase, OneRunRunning, NEW o \in Operators, Request(o) \/ Reply(o)
  PROVE  Phase' /\ OneRunRunning'
<1>1. /\ UNCHANGED <<pc, cur, todo, shop, seen, result, found>>
      /\ \A r \in RunIds : \/ run'[r] = run[r]
                           \/ run'[r] = "cancelled"
                           \/ run[r] = "absent" /\ run'[r] = "queued"
  BY RequestPhase
<1>2. found.runs \subseteq RunIds
  BY DEF TypeOK
<1>3. Phase'
  BY <1>1, <1>2 DEF Phase, NobodyRunning, TerminalRun
<1>4. OneRunRunning'
  BY <1>1 DEF OneRunRunning
<1>5. QED
  BY <1>3, <1>4

LEMMA LeavePhase ==
  ASSUME NEW p \in {"idle", "down", "dead"}, Leave(p)
  PROVE  Phase'
BY DEF Leave, Goto, Phase, RunPoints, TaskPoints

LEMMA RunStepKeepsPhase ==
  ASSUME TypeOK, Phase, OneRunRunning, RunStep
  PROVE  Phase' /\ OneRunRunning'
<1> USE DEF store, session, Goto
<1>f. found.runs \subseteq RunIds
  BY DEF TypeOK
<1>1. CASE Restart
  BY <1>1 DEF Restart, Interrupted, Phase, OneRunRunning, RunPoints, TaskPoints
<1>2. CASE Recover
  <2>1. \A r \in RunIds : run'[r] = "running" => run[r] = "running"
    BY <1>2 DEF Recover
  <2>2. Phase'
    BY <1>2 DEF Recover, Phase, RunPoints, TaskPoints
  <2>3. QED
    BY <2>1, <2>2 DEF OneRunRunning
<1>3. CASE PickRun
  BY <1>3 DEF PickRun, Phase, OneRunRunning, NobodyRunning, RunPoints, TaskPoints
<1>4. CASE ClaimRun
  <2>1. cur \in RunIds /\ NobodyRunning /\ run' = [run EXCEPT ![cur] = "running"]
    BY <1>4 DEF ClaimRun, Phase, SetRun
  <2>2. \A r \in RunIds : run'[r] = "running" => r = cur
    BY <2>1 DEF NobodyRunning, TypeOK
  <2>3. run'[cur] = "running"
    BY <2>1 DEF TypeOK
  <2>4. ASSUME pc' = "expand", UNCHANGED session PROVE Phase'
    <3>1. cur' = cur /\ found' = found /\ found.runs = {} /\ found.tasks = {}
      BY <1>4, <2>4 DEF ClaimRun, Phase
    <3>2. QED
      BY <2>1, <2>2, <2>3, <2>4, <3>1 DEF Phase, TerminalRun
  <2>5. ASSUME Leave("idle") PROVE Phase'
    BY <2>5, LeavePhase
  <2>6. Phase'
    BY <1>4, <2>4, <2>5 DEF ClaimRun
  <2>7. QED
    BY <2>2, <2>6 DEF OneRunRunning
<1>5. CASE Expand
  BY <1>5 DEF Expand, Phase, OneRunRunning, RunPoints, TaskPoints
<1>6. CASE FinalizeRun
  <2>1. run' = run
    BY <1>6 DEF FinalizeRun
  <2>2. CASE run[cur] = "cancelled"
    BY <1>6, <2>1, <2>2, LeavePhase DEF FinalizeRun, OneRunRunning
  <2>3. CASE run[cur] # "cancelled"
    BY <1>6, <2>1, <2>3 DEF FinalizeRun, Phase, OneRunRunning, RunPoints
  <2>4. QED
    BY <2>2, <2>3
<1>7. CASE ReadVerdict
  <2>0. run' = run /\ cur \in RunIds
    BY <1>7 DEF ReadVerdict, Phase, RunPoints
  <2>1. CASE StatusesOf(cur) \cap OpenTask # {}
    BY <1>7, <2>0, <2>1, LeavePhase DEF ReadVerdict, OneRunRunning
  <2>2. CASE StatusesOf(cur) \cap OpenTask = {}
    <3>1. Verdict(StatusesOf(cur)) \in TerminalRun
      BY <2>0, StatusesTyped, VerdictIsTerminal
    <3>2. QED
      BY <1>7, <2>0, <2>2, <3>1 DEF ReadVerdict, Phase, OneRunRunning, RunPoints
  <2>3. QED
    BY <2>1, <2>2
<1>8. CASE Conclude \/ FailRun
  <2>1. cur \in RunIds /\ (pc = "conclude" => result \in TerminalRun)
    BY <1>8 DEF Conclude, FailRun, Phase, RunPoints
  <2>2. PICK v \in TerminalRun : run' = run \/ run' = [run EXCEPT ![cur] = v]
    BY <1>8, <2>1 DEF Conclude, FailRun, SetRun, TerminalRun
  <2>3. \A r \in RunIds : run'[r] = "running" => run[r] = "running"
    BY <2>1, <2>2 DEF TerminalRun, TypeOK
  <2>4. ASSUME Leave("idle") PROVE Phase'
    BY <2>4, LeavePhase
  <2>5. ASSUME Conclude, pc' = "failRun", UNCHANGED session PROVE Phase'
    <3>1. run'[cur] \in TerminalRun
      BY <2>1, <2>5 DEF Conclude, SetRun, TypeOK
    <3>2. \A r \in RunIds : run'[r] = "running" => r = cur
      BY <2>3, <2>5 DEF Conclude, Phase, RunPoints
    <3>3. found.runs = {} /\ found.tasks = {}
      BY <2>5 DEF Conclude, Phase
    <3>4. QED
      BY <2>1, <2>5, <3>1, <3>2, <3>3 DEF Phase
  <2>6. Phase'
    BY <1>8, <2>4, <2>5 DEF Conclude, FailRun
  <2>7. QED
    BY <2>3, <2>6 DEF OneRunRunning
<1>9. CASE RaiseInRun
  BY <1>9 DEF RaiseInRun, Phase, OneRunRunning, RunPoints
<1>10. CASE Crash
  BY <1>10, LeavePhase DEF Crash, OneRunRunning
<1>11. CASE RecoverFails
  BY <1>11, LeavePhase DEF RecoverFails, OneRunRunning
<1>12. CASE StartProcess
  BY <1>12 DEF StartProcess, Phase, OneRunRunning, RunPoints, TaskPoints
<1>13. CASE OtherStarts
  BY <1>13 DEF OtherStarts, Phase, OneRunRunning, NobodyRunning
<1>14. QED
  BY <1>1, <1>2, <1>3, <1>4, <1>5, <1>6, <1>7, <1>8, <1>9, <1>10, <1>11,
     <1>12, <1>13 DEF RunStep

LEMMA NextPhase ==
  ASSUME TypeOK, Phase, OneRunRunning, [Next]_vars
  PROVE  Phase' /\ OneRunRunning'
<1>1. CASE UNCHANGED vars
  BY <1>1 DEF Phase, OneRunRunning, NobodyRunning, vars
<1>2. CASE TaskStep
  BY <1>2, TaskStepPhase DEF Phase, OneRunRunning, RunPoints, TaskPoints
<1>3. QED
  BY <1>1, <1>2, StepIsOneOf, RunStepKeepsPhase, RequestKeepsPhase

-----------------------------------------------------------------------------
(* A completed run stays whole.                                            *)

LEMMA EachStatus ==
  ASSUME NEW r \in RunIds
  PROVE  StatusesOf(r) \subseteq {"completed"}
           <=> \A s \in Shops : task[r][s] \in {"completed", "none"}
BY DEF StatusesOf

LEMMA EachStatusNext ==
  ASSUME NEW r \in RunIds
  PROVE  StatusesOf(r)' \subseteq {"completed"}
           <=> \A s \in Shops : task'[r][s] \in {"completed", "none"}
BY DEF StatusesOf

\* Whoever keeps the ended tasks of the completed runs keeps those runs whole.
LEMMA WholeKept ==
  ASSUME Whole,
         \A r \in RunIds :
           /\ ~raced'
           /\ run'[r] = "completed"
              \/ (pc' = "conclude" /\ result' = "completed" /\ r = cur')
           => /\ ~raced
              /\ run[r] = "completed"
                 \/ (pc = "conclude" /\ result = "completed" /\ r = cur)
              /\ \A s \in Shops : task[r][s] \in {"completed", "none"} =>
                   task'[r][s] \in {"completed", "none"}
  PROVE  Whole'
BY EachStatus, EachStatusNext DEF Whole

LEMMA TaskStepKeepsWhole ==
  ASSUME TypeOK, Phase, Whole, TaskStep
  PROVE  Whole'
<1>1. /\ pc \in RunPoints \ {"failRun"} /\ pc' \in RunPoints \ {"conclude"}
      /\ UNCHANGED <<run, cur, found, raced>>
  BY TaskStepPhase
<1>2. cur \in RunIds /\ run[cur] \in {"running", "cancelled"} /\ Current \in Tasks
  BY <1>1, CurrentIsTask DEF Phase
<1>3. \A r \in RunIds, s \in Shops : r # cur => task'[r][s] = task[r][s]
  <2>1. \/ task' = task
        \/ \E v \in TaskStatus : task' = Written(Current, v)
    <3>1. {"running", "waiting", "failed"} \subseteq TaskStatus /\ result \in TaskStatus
      BY DEF TypeOK, TaskStatus, OpenTask, TerminalTask, Ended
    <3>2. QED
      BY <3>1 DEF TaskStep, CheckRun, NextTask, BeginTask, MarkRunning,
         AskVerification, TakeCode, Continue, GiveUpWaiting, Report, ReadForSave,
         SaveTask, RaiseInTask, FailTask, store
  <2>2. \A r \in RunIds, s \in Shops : r # cur => <<r, s>> # Current
    BY DEF Current
  <2>3. QED
    BY <1>2, <2>1, <2>2, WrittenTask
<1>4. QED
  BY <1>1, <1>2, <1>3, WholeKept

\* What a request does to the tasks, unless it overwrites one that has ended:
\* it reopens none and spoils none that is completed.
LEMMA RequestOnTasks ==
  ASSUME TypeOK, NEW o \in Operators, Request(o) \/ Reply(o), ~raced'
  PROVE  /\ ~raced
         /\ \A r \in RunIds, s \in Shops :
              /\ task[r][s] \in {"completed", "none"} =>
                   task'[r][s] \in {"completed", "none"}
              /\ task'[r][s] \in OpenTask => task[r][s] \in OpenTask
<1>1. CASE CommitCancel(o)
  <2>1. op[o].run \in RunIds /\ op[o].tasks \in SUBSET Tasks
    BY <1>1, RequestTyped DEF CommitCancel
  <2>2. CASE \E t \in op[o].tasks : Status(t) = "none"
    BY <1>1, <2>2 DEF CommitCancel
  <2>3. CASE ~\E t \in op[o].tasks : Status(t) = "none"
    <3>1. task' = [task EXCEPT ![op[o].run] = [s \in Shops |->
            IF <<op[o].run, s>> \in op[o].tasks THEN "cancelled" ELSE @[s]]]
      BY <1>1, <2>3, Zenon DEF CommitCancel
    <3>2. raced' = (raced \/ \E t \in op[o].tasks : Status(t) \in Ended)
      BY <1>1, <2>3, Zenon DEF CommitCancel
    <3>3. ~raced' => ~raced /\ \A t \in op[o].tasks : Status(t) \notin Ended
      BY <3>2, Zenon
    <3>4. ASSUME ~raced', NEW s \in Shops,
                 task[op[o].run][s] \in {"completed", "none"}
          PROVE  <<op[o].run, s>> \notin op[o].tasks
      BY <2>3, <3>3, <3>4 DEF Status, TerminalTask, Ended
    <3>5. QED
      BY <2>1, <3>1, <3>3, <3>4 DEF TypeOK, OpenTask
  <2>4. QED
    BY <2>2, <2>3
<1>2. CASE CancelTask(o) \/ Submit(o)
  <2>1. op[o].task \in Tasks
    BY <1>2, RequestTyped DEF CancelTask, Submit
  <2>2. PICK v \in TaskStatus :
          /\ task' = Written(op[o].task, v)
          /\ raced' = (raced \/ Status(op[o].task) \in Ended)
    BY <1>2 DEF CancelTask, Submit, Overwrite, TaskStatus, OpenTask, TerminalTask, Ended
  <2>3. ~raced' => ~raced /\ Status(op[o].task) \notin Ended
    BY <2>2, Zenon
  <2>4. \A r \in RunIds, s \in Shops : <<r, s>> = op[o].task =>
          Status(op[o].task) = task[r][s]
    BY DEF Status
  <2>5. \A r \in RunIds, s \in Shops :
          \/ task'[r][s] = task[r][s]
          \/ task[r][s] \notin Ended /\ task[r][s] # "none"
    BY <2>1, <2>2, <2>3, <2>4, WrittenTask
  <2>6. \A r \in RunIds, s \in Shops : task[r][s] \in TaskStatus
    BY DEF TypeOK
  <2>7. QED
    BY <2>3, <2>5, <2>6 DEF TerminalTask, TaskStatus, Ended
<1>3. CASE DeleteTask(o)
  <2>1. op[o].task \in Tasks
    BY <1>3, RequestTyped DEF DeleteTask
  <2>2. raced' = raced /\ task' = Written(op[o].task, "none")
    BY <1>3 DEF DeleteTask, ghosts
  <2>3. QED
    BY <2>1, <2>2, WrittenTask DEF TaskStatus, OpenTask
<1>4. CASE Request(o) \/ Enqueue(o) \/ ReadForCancel(o) \/ PutCode(o)
  <2>1. \A q : Ask(o, q) => task' = task /\ raced' = raced
    BY DEF Ask
  <2>2. Request(o) => \E q : Ask(o, q)
    BY Zenon DEF Request, AskEnqueue, AskCancelRun, AskEndTask, AskResume, AskOp
  <2>3. task' = task /\ raced' = raced
    BY <1>4, <2>1, <2>2 DEF Enqueue, ReadForCancel, PutCode, store, ghosts
  <2>4. QED
    BY <2>3
<1>5. QED
  BY <1>1, <1>2, <1>3, <1>4 DEF Reply

LEMMA RequestKeepsWhole ==
  ASSUME TypeOK, Whole, NEW o \in Operators, Request(o) \/ Reply(o)
  PROVE  Whole'
<1>1. /\ UNCHANGED <<pc, cur, result>>
      /\ \A r \in RunIds : run'[r] = "completed" => run[r] = "completed"
  BY RequestPhase
<1>2. QED
  BY <1>1, RequestOnTasks, WholeKept

LEMMA RunStepKeepsWhole ==
  ASSUME TypeOK, Phase, Whole, RunStep
  PROVE  Whole'
<1> USE DEF store, session, ghosts, Goto
<1>0. CASE StartProcess \/ OtherStarts
  <2>1. UNCHANGED <<run, raced, cur, result>> /\ (pc' = "conclude" => pc = "conclude")
    BY <1>0 DEF StartProcess, OtherStarts
  <2>2. \A r \in RunIds, s \in Shops :
          task[r][s] \in {"completed", "none"} => task'[r][s] = task[r][s]
    BY <1>0, InterruptTyped DEF StartProcess, OtherStarts
  <2>3. QED
    BY <2>1, <2>2, WholeKept
<1>1. CASE Restart \/ RecoverFails \/ PickRun \/ RaiseInRun \/ FinalizeRun
             \/ Crash
  <2>1. task' = task /\ run' = run /\ raced' = raced /\ pc' # "conclude"
    BY <1>1 DEF Restart, RecoverFails, PickRun, RaiseInRun, FinalizeRun, Crash, Leave
  <2>2. QED
    BY <2>1, WholeKept
<1>2. CASE ClaimRun
  <2>1. /\ task' = task /\ raced' = raced /\ pc' # "conclude"
        /\ \A r \in RunIds : run'[r] = "completed" => run[r] = "completed"
    BY <1>2 DEF ClaimRun, SetRun, TypeOK, Leave
  <2>2. QED
    BY <2>1, WholeKept
<1>3. CASE Recover
  <2>1. /\ raced' = raced /\ pc' # "conclude"
        /\ \A r \in RunIds : run'[r] = "completed" =>
             /\ run[r] = "completed"
             /\ \A s \in Shops : task'[r][s] = task[r][s]
    BY <1>3 DEF Recover, Phase
  <2>2. QED
    BY <2>1, WholeKept
<1>4. CASE Expand
  <2>1. cur \in RunIds /\ run[cur] # "completed"
    BY <1>4 DEF Expand, Phase, RunPoints
  <2>2. /\ raced' = raced /\ pc' # "conclude" /\ run' = run
        /\ \A r \in RunIds, s \in Shops : r # cur => task'[r][s] = task[r][s]
    BY <1>4, <2>1 DEF Expand, TypeOK
  <2>3. QED
    BY <2>1, <2>2, WholeKept
<1>5. CASE ReadVerdict
  <2>0. /\ cur \in RunIds /\ run' = run /\ task' = task /\ raced' = raced
        /\ \A r \in RunIds : StatusesOf(r)' = StatusesOf(r)
    BY <1>5 DEF ReadVerdict, Phase, RunPoints, StatusesOf
  <2>1. CASE StatusesOf(cur) \cap OpenTask # {}
    BY <1>5, <2>0, <2>1, WholeKept DEF ReadVerdict, Leave
  <2>2. CASE StatusesOf(cur) \cap OpenTask = {}
    <3>1. cur' = cur /\ result' = Verdict(StatusesOf(cur))
      BY <1>5, <2>2 DEF ReadVerdict
    <3>2. result' = "completed" => StatusesOf(cur) \subseteq {"completed"}
      BY <2>0, <3>1, StatusesTyped, VerdictIsTerminal
    <3>3. QED
      BY <2>0, <3>1, <3>2 DEF Whole
  <2>3. QED
    BY <2>1, <2>2
<1>6. CASE Conclude
  <2>1. /\ cur \in RunIds /\ task' = task /\ raced' = raced /\ pc = "conclude"
        /\ pc' # "conclude" /\ run' = [run EXCEPT ![cur] = result]
    BY <1>6 DEF Conclude, Leave, SetRun, Phase, RunPoints
  <2>2. QED
    BY <2>1, WholeKept DEF TypeOK
<1>7. CASE FailRun
  <2>1. /\ cur \in RunIds /\ task' = task /\ raced' = raced /\ pc' = "idle"
        /\ run' = run \/ run' = [run EXCEPT ![cur] = "failed"]
    BY <1>7 DEF FailRun, Leave, SetRun, Phase, RunPoints
  <2>2. QED
    BY <2>1, WholeKept DEF TypeOK
<1>8. QED
  BY <1>0, <1>1, <1>2, <1>3, <1>4, <1>5, <1>6, <1>7 DEF RunStep

LEMMA NextWhole ==
  ASSUME TypeOK, Phase, Whole, [Next]_vars
  PROVE  Whole'
<1>1. CASE UNCHANGED vars
  BY <1>1, WholeKept DEF vars
<1>2. QED
  BY <1>1, StepIsOneOf, TaskStepKeepsWhole, RequestKeepsWhole, RunStepKeepsWhole

-----------------------------------------------------------------------------
(* A shop keeps one open task.                                             *)

\* Whoever opens no task keeps the shops as they are.
LEMMA ShopsKept ==
  ASSUME ShopHasOneOpenTask, ~raced' => ~raced,
         ~raced' => \A r \in RunIds, s \in Shops :
                      task'[r][s] \in OpenTask => task[r][s] \in OpenTask
  PROVE  ShopHasOneOpenTask'
BY DEF ShopHasOneOpenTask

LEMMA TaskStepKeepsShops ==
  ASSUME TypeOK, Phase, Alone, ShopHasOneOpenTask, TaskStep
  PROVE  Alone' /\ ShopHasOneOpenTask'
<1>1. /\ pc \in RunPoints /\ UNCHANGED <<cur, raced>>
      /\ cur \in RunIds /\ Current \in Tasks
  BY TaskStepPhase, CurrentIsTask DEF Phase
<1>2. \/ UNCHANGED task
      \/ pc \in TaskPoints /\ \E v \in TaskStatus : task' = Written(Current, v)
  <2>1. {"running", "waiting", "failed"} \subseteq TaskStatus /\ result \in TaskStatus
    BY DEF TypeOK, TaskStatus, OpenTask, TerminalTask, Ended
  <2>2. QED
    BY <2>1 DEF TaskStep, CheckRun, NextTask, BeginTask, MarkRunning,
       AskVerification, TakeCode, Continue, GiveUpWaiting, Report, ReadForSave,
       SaveTask, RaiseInTask, FailTask, store, TaskPoints
<1>3. \A r \in RunIds, s \in Shops :
        task'[r][s] # task[r][s] => r = cur /\ s = shop /\ pc \in TaskPoints
  <2>1. \A r \in RunIds, s \in Shops :
          task'[r][s] # task[r][s] => <<r, s>> = Current /\ pc \in TaskPoints
    BY <1>1, <1>2, WrittenTask
  <2>2. QED
    BY <2>1 DEF Current
<1>4. pc \in TaskPoints \cup {"dispatch", "next"}
  BY DEF TaskStep, CheckRun, NextTask, BeginTask, MarkRunning, AskVerification,
     TakeCode, Continue, GiveUpWaiting, Report, ReadForSave, SaveTask,
     RaiseInTask, FailTask, TaskPoints
<1>5. shop \in Shops /\ todo \in SUBSET Shops
  BY DEF TypeOK
<1>6. ShopHasOneOpenTask'
  BY <1>1, <1>3, <1>4, <1>5 DEF ShopHasOneOpenTask, Alone, ShopsAhead
<1>7. pc' \in TaskPoints \cup {"dispatch", "next"} => ShopsAhead' \subseteq ShopsAhead
  BY DEF TaskStep, CheckRun, NextTask, BeginTask, MarkRunning, AskVerification,
     TakeCode, Continue, GiveUpWaiting, Report, ReadForSave, SaveTask,
     RaiseInTask, FailTask, session, Goto, TaskPoints, ShopsAhead
<1>8. Alone'
  BY <1>1, <1>3, <1>4, <1>5, <1>7 DEF Alone, ShopsAhead
<1>9. QED
  BY <1>6, <1>8

LEMMA RequestKeepsShops ==
  ASSUME TypeOK, Alone, ShopHasOneOpenTask, NEW o \in Operators,
         Request(o) \/ Reply(o)
  PROVE  Alone' /\ ShopHasOneOpenTask'
<1>1. UNCHANGED <<pc, cur, todo, shop>> /\ ShopsAhead \subseteq Shops
  BY RequestPhase DEF TypeOK, ShopsAhead
<1>2. ~raced' => /\ ~raced
                 /\ \A r \in RunIds, s \in Shops :
                      task'[r][s] \in OpenTask => task[r][s] \in OpenTask
  BY RequestOnTasks
<1>3. Alone'
  BY <1>1, <1>2 DEF Alone, ShopsAhead
<1>4. QED
  BY <1>2, <1>3, ShopsKept

LEMMA RunStepKeepsShops ==
  ASSUME TypeOK, Phase, Alone, ShopHasOneOpenTask, RunStep
  PROVE  Alone' /\ ShopHasOneOpenTask'
<1> USE DEF store, session, ghosts, Goto
<1>0. CASE StartProcess \/ OtherStarts
  <2>1. \A r \in RunIds, s \in Shops :
          task'[r][s] \in OpenTask => task[r][s] \in OpenTask
    BY <1>0, InterruptTyped DEF StartProcess, OtherStarts, OpenTask
  <2>2. UNCHANGED <<raced, cur, todo, shop>>
        /\ (pc' \in TaskPoints \cup {"dispatch", "next"} => pc' = pc)
    BY <1>0 DEF StartProcess, OtherStarts, TaskPoints
  <2>3. ShopsAhead \subseteq Shops
    BY DEF TypeOK, ShopsAhead
  <2>4. Alone'
    BY <2>1, <2>2, <2>3 DEF Alone, ShopsAhead
  <2>5. QED
    BY <2>1, <2>2, <2>4, ShopsKept
<1>1. CASE Expand
  <2>1. cur \in RunIds /\ cur' = cur /\ raced' = raced
        /\ ScopeOf[config[cur]] \subseteq Shops
    BY <1>1, Scopes DEF Expand, Phase, RunPoints, TypeOK
  <2>2. PICK new \in SUBSET ScopeOf[config[cur]] :
          /\ \A s \in new : NoOpenTask(s)
          /\ task' = [task EXCEPT ![cur] =
               [s \in Shops |-> IF s \in new THEN "pending" ELSE @[s]]]
          /\ todo' = new
          /\ pc' = IF new = {} THEN "failRun" ELSE "dispatch"
    BY <1>1 DEF Expand
  <2>3. \A r \in RunIds, s \in Shops :
          /\ r # cur \/ s \notin new => task'[r][s] = task[r][s]
          /\ s \in new => task[r][s] \notin OpenTask
    BY <2>1, <2>2 DEF NoOpenTask, TypeOK
  <2>4. ShopHasOneOpenTask'
    BY <2>1, <2>3 DEF ShopHasOneOpenTask
  <2>5. ShopsAhead' = new
    BY <2>2 DEF ShopsAhead, TaskPoints
  <2>6. Alone'
    BY <2>1, <2>3, <2>5 DEF Alone
  <2>7. QED
    BY <2>4, <2>6
<1>2. CASE Recover
  <2>1. \A r \in RunIds, s \in Shops :
          task'[r][s] \in OpenTask => task[r][s] \in OpenTask
    BY <1>2 DEF Recover, OpenTask
  <2>2. raced' = raced /\ pc' \in {"idle", "dead"}
    BY <1>2 DEF Recover
  <2>3. QED
    BY <2>1, <2>2, ShopsKept DEF Alone, TaskPoints
<1>3. CASE Restart \/ RecoverFails \/ PickRun \/ ClaimRun \/ FinalizeRun
             \/ ReadVerdict \/ Conclude \/ RaiseInRun \/ FailRun \/ Crash
  <2>1. UNCHANGED <<task, raced>>
        /\ pc' \notin TaskPoints \cup {"dispatch", "next"}
    BY <1>3 DEF Restart, RecoverFails, PickRun, ClaimRun, FinalizeRun,
       ReadVerdict, Conclude, RaiseInRun, FailRun, Crash, Leave, TaskPoints
  <2>2. QED
    BY <2>1, ShopsKept DEF Alone
<1>4. QED
  BY <1>0, <1>1, <1>2, <1>3 DEF RunStep

LEMMA NextShops ==
  ASSUME TypeOK, Phase, Alone, ShopHasOneOpenTask, [Next]_vars
  PROVE  Alone' /\ ShopHasOneOpenTask'
<1>1. CASE UNCHANGED vars
  BY <1>1, ShopsKept DEF vars, Alone, ShopsAhead
<1>2. QED
  BY <1>1, StepIsOneOf, TaskStepKeepsShops, RequestKeepsShops, RunStepKeepsShops

-----------------------------------------------------------------------------
(* The theorems.                                                           *)

LEMMA RunInvariant == Spec => []IInv
<1>1. IInv /\ [Next]_vars => IInv'
  BY NextTyped, NextPhase, NextWhole, NextShops DEF IInv
<1>2. QED
  BY InitRunInv, <1>1, PTL DEF Spec

\* Every variable keeps its type.
THEOREM RunTypeCorrect == Spec => []TypeOK
<1>1. IInv => TypeOK
  BY DEF IInv
<1>2. QED
  BY <1>1, RunInvariant, PTL

\* At most one run is running, whatever the operators do, however often the
\* leader is restarted and whatever run it left running.
THEOREM OneRunRunningHolds == Spec => []OneRunRunning
<1>1. IInv => OneRunRunning
  BY DEF IInv
<1>2. QED
  BY <1>1, RunInvariant, PTL

\* A completed run has no task that is not completed, unless an operator
\* overwrote one that had ended.
THEOREM CompletedRunIsWholeHolds == Spec => []CompletedRunIsWhole
<1>1. IInv => CompletedRunIsWhole
  BY DEF IInv, Whole, CompletedRunIsWhole
<1>2. QED
  BY <1>1, RunInvariant, PTL

\* No shop has open tasks of two runs, unless an operator reopened one that had
\* ended.
THEOREM ShopHasOneOpenTaskHolds == Spec => []ShopHasOneOpenTask
<1>1. IInv => ShopHasOneOpenTask
  BY DEF IInv
<1>2. QED
  BY <1>1, RunInvariant, PTL

\* A verdict is replaced by a cancellation under way, or by the failure of the
\* step that wrote it, and by nothing else.
THEOREM VerdictStandsHolds == Spec => VerdictStands
<1> DEFINE Kept(r) ==
      \/ run'[r] = run[r]
      \/ /\ run'[r] = "cancelled"
         /\ \E o \in Operators : op[o].at = "commitCancel" /\ op[o].run = r
      \/ run'[r] = "failed" /\ pc = "failRun" /\ cur = r
<1>1. ASSUME IInv, [Next]_vars, NEW r \in RunIds,
             run[r] \in TerminalRun \ {"cancelled"}
      PROVE  Kept(r)
  <2>0. TypeOK /\ Phase
    BY <1>1 DEF IInv
  <2>1. run[r] \notin {"absent", "queued", "running", "cancelled"}
    BY <1>1 DEF TerminalRun
  <2>2. CASE UNCHANGED vars
    BY <2>2 DEF vars
  <2>3. CASE TaskStep
    BY <2>0, <2>3, TaskStepPhase
  <2>4. ASSUME NEW o \in Operators, Request(o) \/ Reply(o)
        PROVE  Kept(r)
    BY <2>0, <2>1, <2>4, RequestPhase
  <2>5. CASE RunStep
    <3>1. CASE ClaimRun \/ Conclude
      <4>1. cur \in RunIds /\ run[cur] \in {"queued", "running", "cancelled"}
        BY <2>0, <3>1 DEF ClaimRun, Conclude, Phase, RunPoints
      <4>2. \A q \in RunIds : q # cur => run'[q] = run[q]
        BY <2>0, <3>1, <4>1 DEF ClaimRun, Conclude, SetRun, TypeOK
      <4>3. QED
        BY <2>1, <4>1, <4>2
    <3>2. CASE FailRun
      <4>1. cur \in RunIds /\ pc = "failRun"
        BY <2>0, <3>2 DEF FailRun, Phase, RunPoints
      <4>2. run' = run \/ run' = [run EXCEPT ![cur] = "failed"]
        BY <3>2 DEF FailRun, SetRun
      <4>3. QED
        BY <2>0, <4>1, <4>2 DEF TypeOK
    <3>3. CASE Recover
      BY <2>0, <2>1, <3>3 DEF Recover, Phase
    <3>4. CASE StartProcess \/ OtherStarts \/ Restart \/ RecoverFails \/ PickRun
                 \/ Expand \/ FinalizeRun \/ ReadVerdict \/ RaiseInRun \/ Crash
      BY <3>4 DEF StartProcess, OtherStarts, Restart, RecoverFails, PickRun,
         Expand, FinalizeRun, ReadVerdict, RaiseInRun, Crash, store
    <3>5. QED
      BY <2>5, <3>1, <3>2, <3>3, <3>4 DEF RunStep
  <2>6. QED
    BY <1>1, <2>2, <2>3, <2>4, <2>5, StepIsOneOf
<1>2. IInv /\ [Next]_vars =>
        [\A r \in RunIds : run[r] \in TerminalRun \ {"cancelled"} => Kept(r)]_vars
  BY <1>1
<1>3. QED
  BY RunInvariant, <1>2, PTL DEF Spec, VerdictStands
=============================================================================
