------------------------- MODULE RefreshQueueProofs -------------------------
(***************************************************************************)
(* Theorems about RefreshQueue, for any number of workers, enqueuers,      *)
(* operators, keys and rows.                                               *)
(***************************************************************************)
EXTENDS RefreshQueue, FiniteSetTheorems, TLAPS

-----------------------------------------------------------------------------
(* What the writes of a row do.                                            *)

LEMMA RowIsTask ==
  ASSUME TypeOK, NEW t \in TaskIds
  PROVE  t \in Rows <=> row[t] \in Task
<1>1. Absent \notin Task
  BY DEF Absent, Task, Statuses
<1>2. QED
  BY <1>1 DEF TypeOK, Rows

\* Whoever reads a row remembers one that exists.
RefsOK ==
  /\ \A e \in Enqueuers : enq[e] # Idle =>
       /\ enq[e].want <= rows[enq[e].key]
       /\ enq[e].id # 0 => enq[e].id \in Rows /\ row[enq[e].id].key = enq[e].key
  /\ \A o \in Operators : retry[o] # 0 => retry[o] \in Rows
  /\ \A r \in Runners : stale[r] \subseteq Rows
  /\ \A r \in Runners : pc[r] \in RunPoints \cup {"claim"} => cur[r] \in Rows
  /\ \A t \in Rows : asked[t] <= rows[row[t].key]

NewRow(k) == [key |-> k, status |-> "pending", old |-> FALSE]
Inserting(t) ==
  \E e \in Enqueuers :
    /\ enq[e] # Idle /\ enq[e].id = 0 /\ CommitEnqueue(e)
    /\ row' = [row EXCEPT ![t] = NewRow(enq[e].key)]
    /\ asked' = [asked EXCEPT ![t] = enq[e].want]

\* A step keeps every row and its key; only an enqueue inserts one.
RowsKept ==
  /\ row' \in [TaskIds -> Task \cup {Absent}]
  /\ \A t \in Rows : row'[t] \in Task /\ row'[t].key = row[t].key
  /\ \A t \in TaskIds \ Rows : row'[t] = Absent \/ Inserting(t)

LEMMA StatusWritten ==
  ASSUME TypeOK, NEW S \in SUBSET TaskIds, NEW s \in Statuses, row' = SetStatus(S, s)
  PROVE  /\ RowsKept
         /\ \A t \in S : t \in Rows => row'[t].status = s
         /\ \A t \in TaskIds : t \notin S => row'[t] = row[t]
<1>1. \A t \in Rows : row[t] \in Task
  BY RowIsTask DEF Rows
<1>2. \A t \in Rows : [row[t] EXCEPT !.status = s, !.old = FALSE] \in Task
  BY <1>1 DEF Task
<1>3. QED
  BY <1>1, <1>2 DEF RowsKept, SetStatus, TypeOK, Rows, Task

LEMMA OneRowWritten ==
  ASSUME TypeOK, NEW t \in Rows, NEW n \in Task, n.key = row[t].key,
         row' = [row EXCEPT ![t] = n]
  PROVE  RowsKept
<1>1. \A u \in Rows : row[u] \in Task
  BY RowIsTask DEF Rows
<1>2. QED
  BY <1>1 DEF RowsKept, TypeOK, Rows

LEMMA NothingWritten ==
  ASSUME TypeOK, row' = row
  PROVE  RowsKept
<1>1. \A u \in Rows : row[u] \in Task
  BY RowIsTask DEF Rows
<1>2. QED
  BY <1>1 DEF RowsKept, TypeOK, Rows

LEMMA EnqueueWritten ==
  ASSUME TypeOK, RefsOK, NEW e \in Enqueuers, CommitEnqueue(e)
  PROVE  RowsKept
<1>1. enq[e] # Idle /\ enq[e].key \in Keys
  BY DEF CommitEnqueue, TypeOK, Idle
<1>2. CASE enq[e].id # 0
  BY <1>2, NothingWritten DEF CommitEnqueue
<1>3. CASE enq[e].id = 0
  <2>1. PICK t \in TaskIds :
          /\ row[t] = Absent
          /\ row' = [row EXCEPT ![t] = NewRow(enq[e].key)]
          /\ asked' = [asked EXCEPT ![t] = enq[e].want]
    BY <1>3 DEF CommitEnqueue, NextId, NewRow
  <2>2. NewRow(enq[e].key) \in Task
    BY <1>1 DEF Task, Statuses, NewRow
  <2>3. \A u \in Rows : row[u] \in Task
    BY RowIsTask DEF Rows
  <2>4. Inserting(t)
    BY <1>1, <1>3, <2>1 DEF Inserting
  <2>5. QED
    BY <2>1, <2>2, <2>3, <2>4 DEF RowsKept, TypeOK, Rows
<1>4. QED
  BY <1>2, <1>3

LEMMA StepKeepsRows ==
  ASSUME TypeOK, RefsOK, [Next]_vars
  PROVE  RowsKept
<1>1. ASSUME NEW r \in Runners, Claim(r) PROVE RowsKept
  <2>1. cur[r] \in Rows /\ row[cur[r]] \in Task
    BY <1>1, RowIsTask DEF Claim, Step, RefsOK, Rows
  <2>2. [row[cur[r]] EXCEPT !.status = "running", !.old = FALSE] \in Task
    BY <2>1 DEF Task, Statuses
  <2>3. QED
    BY <1>1, <2>1, <2>2, OneRowWritten DEF Claim, Task
<1>2. ASSUME NEW r \in Runners, FailStale(r) PROVE RowsKept
  <2>1. stale[r] \in SUBSET TaskIds
    BY DEF TypeOK
  <2>2. QED
    BY <1>2, <2>1, StatusWritten DEF FailStale, Statuses
<1>3. ASSUME NEW r \in Runners, Mark(r) PROVE RowsKept
  <2>1. {cur[r]} \in SUBSET TaskIds
    BY <1>3 DEF Mark, RefsOK, Rows, RunPoints
  <2>2. PICK s \in Statuses : row' = SetStatus({cur[r]}, s)
    BY <1>3 DEF Mark, Statuses
  <2>3. QED
    BY <2>1, <2>2, StatusWritten
<1>4. ASSUME NEW o \in Operators, RetryFailed(o) PROVE RowsKept
  <2>1. retry[o] \in Rows /\ row[retry[o]] \in Task
    BY <1>4, RowIsTask DEF RetryFailed, RefsOK, Rows
  <2>2. [row[retry[o]] EXCEPT !.status = "pending", !.old = FALSE] \in Task
    BY <2>1 DEF Task, Statuses
  <2>3. QED
    BY <1>4, <2>1, <2>2, OneRowWritten DEF RetryFailed, Task
<1>5. ASSUME NEW t \in TaskIds, Age(t) PROVE RowsKept
  <2>1. t \in Rows /\ row[t] \in Task
    BY <1>5, RowIsTask DEF Age, WithStatus
  <2>2. [row[t] EXCEPT !.old = TRUE] \in Task
    BY <2>1 DEF Task
  <2>3. row' = [row EXCEPT ![t] = [row[t] EXCEPT !.old = TRUE]]
    BY <1>5 DEF Age
  <2>4. QED
    BY <2>1, <2>2, <2>3, OneRowWritten DEF Task
<1>6. CASE UNCHANGED row
  BY <1>6, NothingWritten
<1>7. ASSUME NEW e \in Enqueuers, CommitEnqueue(e) PROVE RowsKept
  BY <1>7, EnqueueWritten
<1>8. QED
  BY <1>1, <1>2, <1>3, <1>4, <1>5, <1>6, <1>7
  DEF Next, RunnerStep, vars, Ingest, StartEnqueue, CrashEnqueuer, BeginPass,
      CheckRunning, Pick, Read, Execute, CommitRefresh, Validate, Repair,
      CommitRepair, Raise, CrashRunner, AskRetry

-----------------------------------------------------------------------------
(* Types, and references to rows that exist.                               *)

LEMMA InitSound == Init => TypeOK /\ RefsOK
<1>1. ASSUME Init PROVE TypeOK
  BY <1>1 DEF Init, TypeOK, PassPoints, Task
<1>2. ASSUME Init PROVE RefsOK
  BY <1>2 DEF Init, RefsOK, Rows, RunPoints, Idle
<1>3. QED
  BY <1>1, <1>2

\* The worker's own variables.
LocalsOK ==
  /\ pc \in [Runners -> PassPoints \cup RunPoints]
  /\ cur \in [Runners -> TaskIds \cup {0}]
  /\ stale \in [Runners -> SUBSET TaskIds]
  /\ seen \in [Runners -> Nat]

Used == [triggers : Nat, crashes : Nat, slow : Nat, retries : Nat]

LEMMA KeyOfRow ==
  ASSUME TypeOK, RefsOK, NEW r \in Runners, pc[r] \in RunPoints
  PROVE  /\ cur[r] \in Rows /\ cur[r] \in TaskIds /\ KeyOf(r) \in Keys
         /\ KeyOf(r) = row[cur[r]].key
<1>1. cur[r] \in Rows
  BY DEF RefsOK
<1>2. row[cur[r]] \in Task
  BY <1>1, RowIsTask DEF Rows
<1>3. QED
  BY <1>1, <1>2 DEF KeyOf, Task, Rows

LEMMA StepTypesLocals ==
  ASSUME TypeOK, RefsOK, NEW r \in Runners, RunnerStep(r) \/ Raise(r) \/ CrashRunner(r)
  PROVE  LocalsOK'
<1> USE DEF TypeOK, LocalsOK, PassPoints, RunPoints
<1>1. ASSUME \E from, to \in PassPoints \cup RunPoints : Step(r, from, to)
      PROVE  pc' \in [Runners -> PassPoints \cup RunPoints]
  BY <1>1 DEF Step
<1>2. CASE BeginPass(r)
  BY <1>2 DEF BeginPass, Step, StaleRows, WithStatus, Rows
<1>3. CASE FailStale(r)
  BY <1>3 DEF FailStale, Step
<1>4. CASE CheckRunning(r)
  BY <1>4 DEF CheckRunning, Step
<1>5. CASE Pick(r)
  BY <1>5 DEF Pick, Step, WithStatus, Rows
<1>6. CASE Claim(r)
  BY <1>6 DEF Claim, Step
<1>7. CASE Read(r) \/ Repair(r)
  <2>1. KeyOf(r) \in Keys
    BY <1>7, KeyOfRow DEF Read, Repair, Execute, Step
  <2>2. rows[KeyOf(r)] \in Nat
    BY <2>1
  <2>3. QED
    BY <1>7, <2>2 DEF Read, Repair, Execute, Step
<1>8. CASE CommitRefresh(r) \/ CommitRepair(r)
  BY <1>8 DEF CommitRefresh, CommitRepair, Step
<1>9. CASE Validate(r)
  BY <1>9 DEF Validate, Step
<1>10. CASE Mark(r) \/ Raise(r) \/ CrashRunner(r)
  BY <1>10 DEF Mark, Raise, CrashRunner, Stop
<1>11. QED
  BY <1>2, <1>3, <1>4, <1>5, <1>6, <1>7, <1>8, <1>9, <1>10 DEF RunnerStep

LEMMA TypeStep ==
  ASSUME TypeOK, RefsOK, [Next]_vars
  PROVE  TypeOK'
<1> USE DEF TypeOK
<1>1. row' \in [TaskIds -> Task \cup {Absent}]
  BY StepKeepsRows DEF RowsKept
<1>2. used' = used \/ \E f \in {"triggers", "crashes", "slow", "retries"} :
                         used' = [used EXCEPT ![f] = used[f] + 1]
  BY DEF Next, RunnerStep, vars, Ingest, StartEnqueue, CommitEnqueue, CrashEnqueuer,
     BeginPass, FailStale, CheckRunning, Pick, Claim, Read, Execute, CommitRefresh,
     Validate, Repair, CommitRepair, Mark, Raise, CrashRunner, AskRetry, RetryFailed, Age
<1>3. used' \in Used
  BY <1>2 DEF Used
<1>4. ASSUME NEW k \in Keys, Ingest(k) PROVE TypeOK'
  BY <1>1, <1>3, <1>4 DEF Ingest, Used
<1>5. ASSUME NEW e \in Enqueuers, NEW k \in Keys, StartEnqueue(e, k) PROVE TypeOK'
  <2>1. PICK t \in FindPending(k) :
          enq' = [enq EXCEPT ![e] =
                    [at |-> "found", key |-> k, id |-> t, want |-> rows[k]]]
    BY <1>5 DEF StartEnqueue
  <2>2. t \in TaskIds \cup {0}
    BY DEF FindPending
  <2>3. QED
    BY <1>1, <1>3, <1>5, <2>1, <2>2 DEF StartEnqueue, Used
<1>6. ASSUME NEW e \in Enqueuers, CommitEnqueue(e) PROVE TypeOK'
  <2>1. enq[e].want \in Nat
    BY <1>6 DEF CommitEnqueue, Idle
  <2>2. asked' \in [TaskIds -> Nat]
    BY <1>6, <2>1 DEF CommitEnqueue, AtLeast
  <2>3. enq' = [enq EXCEPT ![e] = Idle] 
    BY <1>6 DEF CommitEnqueue
  <2>4. QED
    BY <1>1, <1>3, <1>6, <2>2, <2>3 DEF CommitEnqueue, Used
<1>7. ASSUME NEW e \in Enqueuers, CrashEnqueuer(e) PROVE TypeOK'
  BY <1>1, <1>3, <1>7 DEF CrashEnqueuer, Used
<1>8. ASSUME NEW r \in Runners, RunnerStep(r) \/ Raise(r) \/ CrashRunner(r)
      PROVE  TypeOK'
  <2>1. LocalsOK'
    BY <1>8, StepTypesLocals
  <2>2. /\ UNCHANGED <<rows, enq, retry, overtaken, asked>>
        /\ fresh' = fresh \/ \E q \in Runners : fresh' = [fresh EXCEPT ![KeyOf(q)] = seen[q]]
    BY <1>8 DEF RunnerStep, BeginPass, FailStale, CheckRunning, Pick, Claim, Read,
      Execute, CommitRefresh, Validate, Repair, CommitRepair, Mark, Raise, CrashRunner
  <2>3. fresh' \in [Keys -> Nat]
    BY <2>2
  <2>4. QED
    BY <1>1, <1>3, <2>1, <2>2, <2>3 DEF LocalsOK, Used
<1>9. ASSUME NEW o \in Operators, NEW t \in TaskIds, AskRetry(o, t) PROVE TypeOK'
  BY <1>1, <1>3, <1>9 DEF AskRetry, Used
<1>10. ASSUME NEW o \in Operators, RetryFailed(o) PROVE TypeOK'
  BY <1>1, <1>3, <1>10 DEF RetryFailed, Used, Held
<1>11. ASSUME NEW t \in TaskIds, Age(t) PROVE TypeOK'
  BY <1>1, <1>3, <1>11 DEF Age, Used
<1>12. CASE UNCHANGED vars
  BY <1>12 DEF vars
<1>13. QED
  BY <1>4, <1>5, <1>6, <1>7, <1>8, <1>9, <1>10, <1>11, <1>12 DEF Next

\* Rows, their keys and the committed ingestions stay.
LEMMA StepGrows ==
  ASSUME TypeOK, RefsOK, [Next]_vars
  PROVE  /\ \A t \in Rows : t \in Rows' /\ row'[t].key = row[t].key
         /\ \A k \in Keys : rows'[k] >= rows[k]
         /\ \A t \in Rows' \ Rows : Inserting(t)
<1>1. RowsKept
  BY StepKeepsRows
<1>2. Absent \notin Task
  BY DEF Absent, Task, Statuses
<1>3. \A k \in Keys : rows'[k] >= rows[k]
  <2>1. rows' = rows \/ \E k \in Keys : rows' = [rows EXCEPT ![k] = @ + 1]
    BY DEF Next, RunnerStep, vars, Ingest, StartEnqueue, CommitEnqueue, CrashEnqueuer,
     BeginPass, FailStale, CheckRunning, Pick, Claim, Read, Execute, CommitRefresh,
     Validate, Repair, CommitRepair, Mark, Raise, CrashRunner, AskRetry, RetryFailed, Age
  <2>2. QED
    BY <2>1 DEF TypeOK
<1>4. QED
  BY <1>1, <1>2, <1>3 DEF RowsKept, Rows

LEMMA RefsStep ==
  ASSUME TypeOK, RefsOK, [Next]_vars
  PROVE  RefsOK'
<1> USE DEF TypeOK
<1> DEFINE EnqOK(e) == enq[e] # Idle =>
             /\ enq[e].want <= rows[enq[e].key]
             /\ enq[e].id # 0 => enq[e].id \in Rows /\ row[enq[e].id].key = enq[e].key
           HoldsRow(r) == pc[r] \in RunPoints \cup {"claim"} => cur[r] \in Rows
<1>0. TypeOK'
  BY TypeStep
<1>1. ASSUME NEW e \in Enqueuers PROVE EnqOK(e)'
  <2>1. \/ enq'[e] = enq[e] \/ enq'[e] = Idle
        \/ \E k \in Keys : StartEnqueue(e, k)
    BY DEF Next, RunnerStep, vars, Ingest, StartEnqueue, CommitEnqueue, CrashEnqueuer,
      BeginPass, FailStale, CheckRunning, Pick, Claim, Read, Execute, CommitRefresh,
      Validate, Repair, CommitRepair, Mark, Raise, CrashRunner, AskRetry, RetryFailed, Age
  <2>2. CASE enq'[e] = enq[e]
    <3>1. CASE enq[e] # Idle
      <4>1. enq[e].key \in Keys /\ enq[e].want \in Nat
        BY <3>1
      <4>2. rows[enq[e].key] \in Nat /\ rows'[enq[e].key] \in Nat
        BY <4>1, <1>0
      <4>3. enq[e].want <= rows[enq[e].key] /\ rows'[enq[e].key] >= rows[enq[e].key]
        BY <3>1, <4>1, StepGrows DEF RefsOK
      <4>4. enq[e].want <= rows'[enq[e].key]
        BY <4>1, <4>2, <4>3
      <4>5. enq[e].id # 0 => enq[e].id \in Rows' /\ row'[enq[e].id].key = enq[e].key
        BY <3>1, StepGrows DEF RefsOK
      <4>6. QED
        BY <2>2, <4>4, <4>5
    <3>2. QED
      BY <2>2, <3>1
  <2>3. CASE enq'[e] = Idle
    BY <2>3
  <2>4. ASSUME NEW k \in Keys, StartEnqueue(e, k) PROVE EnqOK(e)'
    <3>1. PICK t \in FindPending(k) :
            enq' = [enq EXCEPT ![e] =
                      [at |-> "found", key |-> k, id |-> t, want |-> rows[k]]]
      BY <2>4 DEF StartEnqueue
    <3>2. t = 0 \/ (t \in Rows /\ row[t].key = k)
      BY DEF FindPending, PendingOf, WithStatus
    <3>3. rows'[k] = rows[k] /\ row' = row
      BY <2>4 DEF StartEnqueue
    <3>4. enq'[e].want = rows[k] /\ enq'[e].key = k /\ enq'[e].id = t
      BY <3>1
    <3>5. Rows' = Rows /\ rows[k] \in Nat
      BY <3>3 DEF Rows
    <3>6. QED
      BY <3>2, <3>3, <3>4, <3>5
  <2>5. QED
    BY <2>1, <2>2, <2>3, <2>4
<1>2. ASSUME NEW o \in Operators, retry'[o] # 0 PROVE retry'[o] \in Rows'
  <2>1. retry'[o] = retry[o] \/ retry'[o] = 0 \/ retry'[o] \in Rows
    BY DEF WithStatus, Next, RunnerStep, vars, Ingest, StartEnqueue, CommitEnqueue, CrashEnqueuer,
      BeginPass, FailStale, CheckRunning, Pick, Claim, Read, Execute, CommitRefresh,
      Validate, Repair, CommitRepair, Mark, Raise, CrashRunner, AskRetry, RetryFailed, Age
  <2>2. QED
    BY <1>2, <2>1, StepGrows DEF RefsOK
<1>3. ASSUME NEW r \in Runners PROVE stale'[r] \subseteq Rows' /\ HoldsRow(r)'
  <2>1. stale'[r] \subseteq Rows
    <3>1. StaleRows \subseteq Rows
      BY DEF StaleRows, WithStatus
    <3>2. stale'[r] = stale[r] \/ stale'[r] = {} \/ stale'[r] = StaleRows
      BY DEF Stop, Next, RunnerStep, vars, Ingest, StartEnqueue, CommitEnqueue, CrashEnqueuer,
      BeginPass, FailStale, CheckRunning, Pick, Claim, Read, Execute, CommitRefresh,
      Validate, Repair, CommitRepair, Mark, Raise, CrashRunner, AskRetry, RetryFailed, Age
    <3>3. QED
      BY <3>1, <3>2 DEF RefsOK
  <2>2. pc'[r] \in RunPoints \cup {"claim"} => cur'[r] \in Rows
    <3>1. CASE pc' = pc /\ cur' = cur
      BY <3>1 DEF RefsOK
    <3>2. ASSUME NEW q \in Runners, RunnerStep(q) \/ Raise(q) \/ CrashRunner(q)
          PROVE  pc'[r] \in RunPoints \cup {"claim"} => cur'[r] \in Rows
      <4>1. CASE q # r
        <5>1. pc'[r] = pc[r] /\ cur'[r] = cur[r]
          BY <3>2, <4>1 DEF RunnerStep, BeginPass, FailStale, CheckRunning, Pick, Claim,
             Read, Execute, CommitRefresh, Validate, Repair, CommitRepair, Mark, Raise,
             CrashRunner, Step, Stop
        <5>2. QED
          BY <5>1 DEF RefsOK
      <4>2. CASE q = r
        BY <3>2, <4>2 DEF RefsOK, RunPoints, PassPoints, RunnerStep, BeginPass, FailStale,
           CheckRunning, Pick, Claim, Read, Execute, CommitRefresh, Validate, Repair,
           CommitRepair, Mark, Raise, CrashRunner, Step, Stop, WithStatus
      <4>3. QED
        BY <4>1, <4>2
    <3>3. QED
      BY <3>1, <3>2 DEF Next, vars, Ingest, StartEnqueue, CommitEnqueue, CrashEnqueuer,
         AskRetry, RetryFailed, Age
  <2>3. QED
    BY <2>1, <2>2, StepGrows
<1>4. ASSUME NEW t \in Rows' PROVE asked'[t] <= rows'[row'[t].key]
  <2>1. CASE t \in Rows /\ asked'[t] = asked[t]
    <3>1. row[t].key \in Keys
      BY <2>1, RowIsTask DEF Task, Rows
    <3>2. asked[t] <= rows[row[t].key]
      BY <2>1 DEF RefsOK
    <3>3. t \in TaskIds
      BY <2>1 DEF Rows
    <3>4. QED
      BY <2>1, <3>1, <3>2, <3>3, StepGrows, <1>0
  <2>2. ASSUME NEW e \in Enqueuers, t \in Rows, CommitEnqueue(e), enq[e].id = t
        PROVE  asked'[t] <= rows'[row'[t].key]
    <3>1. enq[e] # Idle /\ t # 0 /\ t \in TaskIds
      <4>1. t \in TaskIds
        BY DEF Rows
      <4>2. QED
        BY <2>2, <4>1 DEF CommitEnqueue, Idle, TaskIds
    <3>2. row[t].key = enq[e].key /\ enq[e].want <= rows[enq[e].key]
      BY <2>2, <3>1 DEF RefsOK
    <3>3. asked'[t] = AtLeast(asked[t], enq[e].want) /\ rows' = rows /\ row' = row
      BY <2>2, <3>1 DEF CommitEnqueue
    <3>4. QED
      BY <2>2, <3>2, <3>3 DEF RefsOK, AtLeast
  <2>3. CASE t \notin Rows
    <3>1. PICK e \in Enqueuers :
            /\ enq[e] # Idle /\ CommitEnqueue(e)
            /\ row' = [row EXCEPT ![t] = NewRow(enq[e].key)]
            /\ asked' = [asked EXCEPT ![t] = enq[e].want]
      BY <2>3, StepGrows DEF Inserting
    <3>2. t \in TaskIds
      BY DEF Rows
    <3>3. row'[t].key = enq[e].key /\ asked'[t] = enq[e].want /\ rows' = rows
      BY <3>1, <3>2 DEF NewRow, CommitEnqueue
    <3>4. QED
      BY <3>1, <3>3 DEF RefsOK
  <2>4. asked'[t] = asked[t] \/ t \notin Rows
          \/ \E e \in Enqueuers : CommitEnqueue(e) /\ enq[e].id = t
    <3>1. t \in TaskIds
      BY DEF Rows
    <3>2. ASSUME NEW e \in Enqueuers, CommitEnqueue(e), t \in Rows, enq[e].id # t
          PROVE  asked'[t] = asked[t]
      BY <3>1, <3>2 DEF CommitEnqueue, NextId, Rows
    <3>3. UNCHANGED asked \/ \E e \in Enqueuers : CommitEnqueue(e)
      BY DEF Next, RunnerStep, vars, Ingest, StartEnqueue, CrashEnqueuer,
         BeginPass, FailStale, CheckRunning, Pick, Claim, Read, Execute, CommitRefresh,
         Validate, Repair, CommitRepair, Mark, Raise, CrashRunner, AskRetry, RetryFailed,
         Age
    <3>4. QED
      BY <3>2, <3>3
  <2>5. QED
    BY <2>1, <2>2, <2>3, <2>4
<1>5. QED
  BY <1>1, <1>2, <1>3, <1>4 DEF RefsOK

-----------------------------------------------------------------------------
(* What a refresh has read, against what is committed and published.       *)

Committing(r) == pc[r] \in {"commit", "recommit"}
Published(r) == pc[r] \in {"validate", "complete"}

SeenOK ==
  /\ \A k \in Keys : fresh[k] <= rows[k]
  /\ \A r \in Runners : Committing(r) =>
       fresh[KeyOf(r)] <= seen[r] /\ seen[r] <= rows[KeyOf(r)]
  /\ \A r \in Runners : Published(r) => seen[r] <= fresh[KeyOf(r)]
  /\ \A r, q \in Runners :
       r # q /\ Committing(r) /\ Committing(q) => KeyOf(r) # KeyOf(q)

Publishes(r) ==
  /\ Committing(r)
  /\ fresh' = [fresh EXCEPT ![KeyOf(r)] = seen[r]]
  /\ pc'[r] \in {"validate", "complete", "fail"}
  /\ cur' = cur /\ seen' = seen /\ row' = row /\ rows' = rows
  /\ \A q \in Runners \ {r} : pc'[q] = pc[q]

Executes(r) ==
  /\ TargetsFree(r) /\ pc[r] \in RunPoints
  /\ pc'[r] \in {"commit", "recommit"}
  /\ seen' = [seen EXCEPT ![r] = rows[KeyOf(r)]]
  /\ fresh' = fresh /\ cur' = cur /\ row' = row /\ rows' = rows
  /\ \A q \in Runners \ {r} : pc'[q] = pc[q]

\* Neither reads nor publishes: whoever holds a refresh held it before.
GoesOn ==
  /\ fresh' = fresh
  /\ \A r \in Runners :
       /\ Committing(r)' => Committing(r)
       /\ Published(r)' => Published(r)
       /\ Committing(r)' \/ Published(r)' => cur'[r] = cur[r] /\ seen'[r] = seen[r]

LEMMA StepKinds ==
  ASSUME TypeOK, RefsOK, [Next]_vars
  PROVE  GoesOn \/ \E r \in Runners : Publishes(r) \/ Executes(r)
<1> USE DEF TypeOK
<1>1. CASE UNCHANGED <<pc, cur, seen, fresh>>
  BY <1>1 DEF GoesOn, Committing, Published
<1>2. ASSUME NEW r \in Runners, Read(r) \/ Repair(r) PROVE Executes(r)
  BY <1>2 DEF Read, Repair, Execute, Step, Executes, RunPoints
<1>3. ASSUME NEW r \in Runners, CommitRefresh(r) \/ CommitRepair(r)
      PROVE  GoesOn \/ Publishes(r)
  BY <1>3 DEF CommitRefresh, CommitRepair, Step, Publishes, GoesOn, Committing, Published
<1>4. ASSUME NEW r \in Runners,
             \/ BeginPass(r) \/ FailStale(r) \/ CheckRunning(r) \/ Pick(r) \/ Claim(r)
             \/ Validate(r) \/ Mark(r) \/ Raise(r) \/ CrashRunner(r)
      PROVE  GoesOn
  <2>1. /\ fresh' = fresh /\ \A q \in Runners \ {r} :
                                pc'[q] = pc[q] /\ cur'[q] = cur[q] /\ seen'[q] = seen[q]
    BY <1>4 DEF BeginPass, FailStale, CheckRunning, Pick, Claim, Validate, Mark, Raise,
       CrashRunner, Step, Stop
  <2>2. \/ pc'[r] \in PassPoints \cup {"read"}
        \/ /\ pc[r] = "validate" /\ pc'[r] = "complete"
           /\ cur'[r] = cur[r] /\ seen'[r] = seen[r]
    BY <1>4 DEF BeginPass, FailStale, CheckRunning, Pick, Claim, Validate, Mark, Raise,
       CrashRunner, Step, Stop, PassPoints
  <2>3. QED
    BY <2>1, <2>2 DEF GoesOn, Committing, Published, PassPoints
<1>5. QED
  BY <1>1, <1>2, <1>3, <1>4
  DEF Next, RunnerStep, vars, Ingest, StartEnqueue, CommitEnqueue, CrashEnqueuer,
      AskRetry, RetryFailed, Age

LEMMA KeyStays ==
  ASSUME TypeOK, RefsOK, [Next]_vars, NEW r \in Runners, pc[r] \in RunPoints,
         cur'[r] = cur[r]
  PROVE  KeyOf(r)' = KeyOf(r) /\ KeyOf(r) \in Keys
BY KeyOfRow, StepGrows DEF KeyOf

LEMMA SeenStep ==
  ASSUME TypeOK, RefsOK, SeenOK, [Next]_vars
  PROVE  SeenOK'
<1>0. TypeOK' /\ RefsOK'
  BY TypeStep, RefsStep
<1>1. \A k \in Keys : /\ rows[k] \in Nat /\ rows'[k] \in Nat
                      /\ fresh[k] \in Nat /\ fresh'[k] \in Nat
                      /\ rows'[k] >= rows[k]
  BY <1>0, StepGrows DEF TypeOK
<1>2. \A r \in Runners : seen[r] \in Nat /\ seen'[r] \in Nat
  BY <1>0 DEF TypeOK
<1>3. \A r \in Runners : Committing(r) \/ Published(r) => pc[r] \in RunPoints
  BY DEF Committing, Published, RunPoints
<1>4. CASE GoesOn
  <2>1. \A r \in Runners : Committing(r)' \/ Published(r)' =>
          /\ KeyOf(r)' = KeyOf(r) /\ KeyOf(r) \in Keys /\ seen'[r] = seen[r]
          /\ Committing(r)' => Committing(r)
          /\ Published(r)' => Published(r)
    BY <1>3, <1>4, KeyStays DEF GoesOn
  <2>2. QED
    BY <1>1, <1>2, <1>4, <2>1 DEF SeenOK, GoesOn
<1>5. ASSUME NEW q \in Runners, Publishes(q) PROVE SeenOK'
  <2>1. KeyOf(q) \in Keys /\ fresh[KeyOf(q)] <= seen[q] /\ seen[q] <= rows[KeyOf(q)]
    BY <1>3, <1>5, KeyOfRow DEF Publishes, SeenOK
  <2>2. /\ fresh'[KeyOf(q)] = seen[q]
        /\ \A k \in Keys : k # KeyOf(q) => fresh'[k] = fresh[k]
    BY <1>5, <2>1 DEF Publishes, TypeOK
  <2>3. \A r \in Runners : KeyOf(r)' = KeyOf(r)
    BY <1>5 DEF Publishes, KeyOf
  <2>4. \A r \in Runners : Committing(r)' => r # q /\ Committing(r)
    BY <1>5 DEF Publishes, Committing
  <2>5. \A r \in Runners : Published(r)' => r = q \/ Published(r)
    BY <1>5 DEF Publishes, Published
  <2>6. \A r \in Runners : Committing(r) \/ Published(r) => KeyOf(r) \in Keys
    BY <1>3, KeyOfRow
  <2>7. rows' = rows /\ seen' = seen
    BY <1>5 DEF Publishes
  <2>8. \A r \in Runners : Committing(r)' => KeyOf(r) # KeyOf(q)
    BY <1>5, <2>4 DEF SeenOK, Publishes
  <2>9. QED
    BY <1>1, <1>2, <2>1, <2>2, <2>3, <2>4, <2>5, <2>6, <2>7, <2>8 DEF SeenOK
<1>6. ASSUME NEW q \in Runners, Executes(q) PROVE SeenOK'
  <2>1. KeyOf(q) \in Keys
    BY <1>6, KeyOfRow DEF Executes
  <2>2. \A r \in Runners : KeyOf(r)' = KeyOf(r)
    BY <1>6 DEF Executes, KeyOf
  <2>3. \A r \in Runners : r # q => /\ Committing(r)' <=> Committing(r)
                                    /\ Published(r)' <=> Published(r)
                                    /\ seen'[r] = seen[r]
    BY <1>6 DEF Executes, Committing, Published, TypeOK
  <2>4. ~Published(q)' /\ seen'[q] = rows[KeyOf(q)]
    BY <1>6 DEF Executes, Published, TypeOK
  <2>5. \A r \in Runners : r # q /\ Committing(r) => KeyOf(r) # KeyOf(q)
    BY <1>6 DEF Executes, TargetsFree, Committing
  <2>6. rows' = rows /\ fresh' = fresh
    BY <1>6 DEF Executes
  <2>7. \A r \in Runners : Committing(r) \/ Published(r) => KeyOf(r) \in Keys
    BY <1>3, KeyOfRow
  <2>8. QED
    BY <1>1, <1>2, <2>1, <2>2, <2>3, <2>4, <2>5, <2>6, <2>7 DEF SeenOK
<1>7. QED
  BY <1>4, <1>5, <1>6, StepKinds

LEMMA FreshStep ==
  ASSUME TypeOK, RefsOK, SeenOK, [Next]_vars
  PROVE  \A k \in Keys : fresh'[k] >= fresh[k]
<1>1. ASSUME NEW q \in Runners, Publishes(q) PROVE \A k \in Keys : fresh'[k] >= fresh[k]
  <2>1. KeyOf(q) \in Keys /\ fresh[KeyOf(q)] <= seen[q]
    BY <1>1, KeyOfRow DEF Publishes, SeenOK, Committing, RunPoints
  <2>2. QED
    BY <1>1, <2>1 DEF Publishes, TypeOK
<1>2. QED
  BY <1>1, StepKinds DEF GoesOn, Executes, TypeOK

-----------------------------------------------------------------------------
(* What a row's triggers reported, against what its refresh shows.         *)

HasRead(r) == Committing(r) \/ Published(r)

\* n ingestions cover the triggers merged into t and those about to be.
Covers(n, t) ==
  /\ asked[t] <= n
  /\ \A e \in Enqueuers : enq[e] # Idle /\ enq[e].id = t => enq[e].want <= n

Served ==
  ~overtaken =>
    /\ \A t \in Rows : Held(t) => row[t].status # "pending"
    /\ \A r \in Runners : HasRead(r) => Covers(seen[r], cur[r])
    /\ \A t \in Rows : row[t].status = "completed" => Covers(fresh[row[t].key], t)

Completes(r, t) == Mark(r) /\ pc[r] = "complete" /\ cur[r] = t
Reopens(o, t) == RetryFailed(o) /\ retry[o] = t

LEMMA StatusSteps ==
  ASSUME TypeOK, RefsOK, [Next]_vars, NEW t \in Rows'
  PROVE  \/ t \in Rows /\ row'[t].status = row[t].status
         \/ row'[t].status \in {"running", "failed"}
         \/ t \notin Rows /\ row'[t].status = "pending"
         \/ \E o \in Operators : Reopens(o, t)
         \/ \E r \in Runners : Completes(r, t)
<1>0. t \in TaskIds
  BY DEF Rows
<1>1. CASE t \notin Rows
  BY <1>0, <1>1, StepGrows DEF Inserting, NewRow, TypeOK
<1>2. CASE t \in Rows
  <2>0. row[t] \in Task
    BY <1>2, RowIsTask DEF Rows
  <2>1. ASSUME NEW r \in Runners, Claim(r)
        PROVE  row'[t].status = row[t].status \/ row'[t].status = "running"
    BY <2>0, <2>1, <1>0 DEF Claim, Task, TypeOK
  <2>2. ASSUME NEW r \in Runners, FailStale(r)
        PROVE  row'[t].status = row[t].status \/ row'[t].status = "failed"
    <3>1. stale[r] \in SUBSET TaskIds /\ "failed" \in Statuses
      BY DEF Statuses, TypeOK
    <3>2. row' = SetStatus(stale[r], "failed")
      BY <2>2 DEF FailStale
    <3>3. QED
      BY <1>0, <1>2, <3>1, <3>2, StatusWritten
  <2>3. ASSUME NEW r \in Runners, Mark(r)
        PROVE  \/ row'[t].status = row[t].status \/ row'[t].status = "failed"
               \/ Completes(r, t)
    <3>1. {cur[r]} \in SUBSET TaskIds
      BY <2>3 DEF Mark, RefsOK, Rows, RunPoints
    <3>2. CASE cur[r] # t
      <4>1. PICK s \in Statuses : row' = SetStatus({cur[r]}, s)
        BY <2>3 DEF Mark, Statuses
      <4>2. QED
        BY <3>1, <3>2, <4>1, <1>0, StatusWritten
    <3>3. CASE pc[r] = "fail" /\ cur[r] = t
      <4>1. row' = SetStatus({cur[r]}, "failed") /\ "failed" \in Statuses
        BY <2>3, <3>3 DEF Mark, Statuses
      <4>2. QED
        BY <3>1, <3>3, <4>1, <1>2, StatusWritten
    <3>4. QED
      BY <2>3, <3>2, <3>3 DEF Mark, Completes
  <2>4. ASSUME NEW o \in Operators, RetryFailed(o)
        PROVE  row'[t].status = row[t].status \/ Reopens(o, t)
    BY <2>0, <2>4, <1>0 DEF RetryFailed, Task, Reopens, TypeOK
  <2>5. ASSUME NEW u \in TaskIds, Age(u) PROVE row'[t].status = row[t].status
    BY <2>0, <2>5, <1>0 DEF Age, Task, TypeOK
  <2>6. ASSUME NEW e \in Enqueuers, CommitEnqueue(e) PROVE row'[t].status = row[t].status
    BY <2>6, <1>0, <1>2 DEF CommitEnqueue, NextId, Rows, TypeOK
  <2>7. QED
    BY <1>2, <2>1, <2>2, <2>3, <2>4, <2>5, <2>6
    DEF Next, RunnerStep, vars, Ingest, StartEnqueue, CrashEnqueuer, BeginPass,
      CheckRunning, Pick, Read, Execute, CommitRefresh, Validate, Repair, CommitRepair,
      Raise, CrashRunner, AskRetry
<1>3. QED
  BY <1>1, <1>2

\* Nothing new is merged into a row that is not pending, except what its
\* enqueuer has read before.
LEMMA CoverStays ==
  ASSUME TypeOK, RefsOK, [Next]_vars, NEW t \in Rows, row[t].status # "pending",
         NEW n \in Nat, Covers(n, t)
  PROVE  Covers(n, t)'
<1> USE DEF TypeOK
<1>0. t \in TaskIds /\ t # 0
  BY DEF Rows, TaskIds
<1>1. ASSUME NEW e \in Enqueuers, enq'[e] # Idle, enq'[e].id = t
      PROVE  enq'[e].want <= n
  <2>1. ASSUME NEW k \in Keys, StartEnqueue(e, k) PROVE FALSE
    <3>1. PICK u \in FindPending(k) :
            enq' = [enq EXCEPT ![e] =
                      [at |-> "found", key |-> k, id |-> u, want |-> rows[k]]]
      BY <2>1 DEF StartEnqueue
    <3>2. u = 0 \/ row[u].status = "pending"
      BY DEF FindPending, PendingOf, WithStatus
    <3>3. u = t
      BY <1>1, <3>1
    <3>4. QED
      BY <1>0, <3>2, <3>3
  <2>2. enq'[e] = enq[e]
    BY <1>1, <2>1 DEF Next, RunnerStep, vars, Ingest, StartEnqueue, CommitEnqueue,
      CrashEnqueuer, BeginPass, FailStale, CheckRunning, Pick, Claim, Read, Execute,
      CommitRefresh, Validate, Repair, CommitRepair, Mark, Raise, CrashRunner, AskRetry,
      RetryFailed, Age
  <2>3. QED
    BY <1>1, <2>2 DEF Covers
<1>2. asked'[t] <= n
  <2>1. ASSUME NEW e \in Enqueuers, CommitEnqueue(e) PROVE asked'[t] <= n
    <3>1. CASE enq[e].id = t
      <4>1. asked'[t] = AtLeast(asked[t], enq[e].want) /\ enq[e] # Idle
        BY <1>0, <2>1, <3>1 DEF CommitEnqueue, Idle
      <4>2. QED
        BY <3>1, <4>1 DEF Covers, AtLeast
    <3>2. CASE enq[e].id # t
      <4>1. asked'[t] = asked[t]
        BY <1>0, <2>1, <3>2 DEF CommitEnqueue, NextId, Rows
      <4>2. QED
        BY <4>1 DEF Covers
    <3>3. QED
      BY <3>1, <3>2
  <2>2. UNCHANGED asked \/ \E e \in Enqueuers : CommitEnqueue(e)
    BY DEF Next, RunnerStep, vars, Ingest, StartEnqueue, CrashEnqueuer,
      BeginPass, FailStale, CheckRunning, Pick, Claim, Read, Execute, CommitRefresh,
      Validate, Repair, CommitRepair, Mark, Raise, CrashRunner, AskRetry, RetryFailed, Age
  <2>3. QED
    BY <2>1, <2>2 DEF Covers
<1>3. QED
  BY <1>1, <1>2 DEF Covers

\* Only a claim makes a worker hold a row.
LEMMA HoldSteps ==
  ASSUME TypeOK, RefsOK, [Next]_vars, NEW r \in Runners, NEW t, Holds(r, t)'
  PROVE  Holds(r, t) \/ (Claim(r) /\ cur[r] = t)
<1>1. CASE pc'[r] = pc[r] /\ cur'[r] = cur[r]
  BY <1>1 DEF Holds
<1>2. ASSUME NEW q \in Runners, q # r, RunnerStep(q) \/ Raise(q) \/ CrashRunner(q)
      PROVE  pc'[r] = pc[r] /\ cur'[r] = cur[r]
  BY <1>2 DEF TypeOK, RunnerStep, BeginPass, FailStale, CheckRunning, Pick, Claim, Read,
    Execute, CommitRefresh, Validate, Repair, CommitRepair, Mark, Raise, CrashRunner,
    Step, Stop
<1>3. ASSUME RunnerStep(r) \/ Raise(r) \/ CrashRunner(r)
      PROVE  Holds(r, t) \/ (Claim(r) /\ cur[r] = t)
  BY <1>3 DEF TypeOK, RunnerStep, BeginPass, FailStale, CheckRunning, Pick, Claim, Read,
    Execute, CommitRefresh, Validate, Repair, CommitRepair, Mark, Raise, CrashRunner,
    Step, Stop, Holds, RunPoints
<1>4. QED
  BY <1>1, <1>2, <1>3 DEF Next, vars, Ingest, StartEnqueue, CommitEnqueue, CrashEnqueuer,
    AskRetry, RetryFailed, Age

LEMMA ServedStep ==
  ASSUME TypeOK, RefsOK, SeenOK, Served, [Next]_vars
  PROVE  Served'
<1> SUFFICES ASSUME ~overtaken' PROVE
      /\ \A t \in Rows' : Held(t)' => row'[t].status # "pending"
      /\ \A r \in Runners : HasRead(r)' => Covers(seen[r], cur[r])'
      /\ \A t \in Rows' : row'[t].status = "completed" => Covers(fresh[row[t].key], t)'
  BY DEF Served
<1>0. TypeOK' /\ RefsOK' /\ SeenOK'
  BY TypeStep, RefsStep, SeenStep
<1>1. ~overtaken
  BY DEF Next, RunnerStep, vars, Ingest, StartEnqueue, CommitEnqueue, CrashEnqueuer,
     BeginPass, FailStale, CheckRunning, Pick, Claim, Read, Execute, CommitRefresh,
     Validate, Repair, CommitRepair, Mark, Raise, CrashRunner, AskRetry, RetryFailed, Age
<1>2. ASSUME NEW r \in Runners, pc[r] \in RunPoints
      PROVE  cur[r] \in Rows /\ row[cur[r]].status # "pending"
  BY <1>1, <1>2, KeyOfRow DEF Served, Held, Holds
<1>3. ASSUME NEW t \in Rows', Held(t)' PROVE row'[t].status # "pending"
  <2>1. PICK r \in Runners : Holds(r, t)'
    BY <1>3 DEF Held
  <2>2. CASE Claim(r) /\ cur[r] = t
    <3>1. cur[r] \in TaskIds
      BY <2>2 DEF Rows
    <3>2. row[cur[r]] \in Task
      BY <2>2, <3>1, RowIsTask DEF RefsOK, Claim, Step, Rows
    <3>3. QED
      BY <2>2, <3>1, <3>2 DEF Claim, TypeOK, Task
  <2>3. CASE Holds(r, t)
    <3>1. t \in Rows /\ row[t].status # "pending"
      BY <1>2, <2>3 DEF Holds
    <3>2. ~\E o \in Operators : Reopens(o, t)
      BY <2>3 DEF Reopens, RetryFailed, Held
    <3>3. ASSUME NEW q \in Runners, Completes(q, t) PROVE row'[t].status # "pending"
      <4>1. {t} \in SUBSET TaskIds /\ "completed" \in Statuses
        BY <3>1 DEF Rows, Statuses
      <4>2. row' = SetStatus({t}, "completed")
        BY <3>3 DEF Completes, Mark
      <4>3. QED
        BY <3>1, <4>1, <4>2, StatusWritten
    <3>4. QED
      BY <3>1, <3>2, <3>3, StatusSteps
  <2>4. QED
    BY <2>1, <2>2, <2>3, HoldSteps
<1>4. ASSUME NEW r \in Runners, HasRead(r)' PROVE Covers(seen[r], cur[r])'
  <2>1. CASE HasRead(r) /\ cur'[r] = cur[r] /\ seen'[r] = seen[r]
    <3>1. cur[r] \in Rows /\ row[cur[r]].status # "pending"
      BY <1>2, <2>1 DEF HasRead, Committing, Published, RunPoints
    <3>2. Covers(seen[r], cur[r]) /\ seen[r] \in Nat
      BY <1>1, <2>1 DEF Served, TypeOK
    <3>3. QED
      BY <2>1, <3>1, <3>2, CoverStays DEF Covers
  <2>2. CASE Executes(r)
    <3>1. cur[r] \in Rows /\ row[cur[r]].status # "pending" /\ KeyOf(r) = row[cur[r]].key
          /\ KeyOf(r) \in Keys
      BY <1>2, <2>2, KeyOfRow DEF Executes
    <3>2. Covers(rows[KeyOf(r)], cur[r])
      <4>1. cur[r] # 0
        BY <3>1 DEF Rows, TaskIds
      <4>2. QED
        BY <3>1, <4>1 DEF RefsOK, Covers
    <3>3. rows[KeyOf(r)] \in Nat
      BY <3>1 DEF TypeOK
    <3>4. cur'[r] = cur[r] /\ seen'[r] = rows[KeyOf(r)]
      BY <2>2 DEF Executes, TypeOK
    <3>5. QED
      BY <3>1, <3>2, <3>3, <3>4, CoverStays DEF Covers
  <2>3. CASE GoesOn
    BY <1>4, <2>1, <2>3 DEF GoesOn, HasRead
  <2>4. ASSUME NEW q \in Runners, Publishes(q)
        PROVE  HasRead(r) /\ cur'[r] = cur[r] /\ seen'[r] = seen[r]
    BY <1>4, <2>4 DEF Publishes, HasRead, Committing, Published
  <2>5. ASSUME NEW q \in Runners, Executes(q), q # r
        PROVE  HasRead(r) /\ cur'[r] = cur[r] /\ seen'[r] = seen[r]
    BY <1>4, <2>5 DEF Executes, HasRead, Committing, Published, TypeOK
  <2>6. QED
    BY <2>1, <2>2, <2>3, <2>4, <2>5, StepKinds
<1>5. ASSUME NEW t \in Rows', row'[t].status = "completed"
      PROVE  Covers(fresh[row[t].key], t)'
  <2>1. CASE t \in Rows /\ row[t].status = "completed"
    <3>1. row[t].key \in Keys /\ row'[t].key = row[t].key
      BY <2>1, RowIsTask, StepGrows DEF Task, Rows
    <3>2. Covers(fresh[row[t].key], t) /\ fresh[row[t].key] \in Nat
      BY <1>1, <2>1, <3>1 DEF Served, TypeOK
    <3>3. \A e \in Enqueuers : enq'[e] # Idle => enq'[e].want \in Nat
      BY <1>0 DEF TypeOK
    <3>4. asked'[t] \in Nat /\ fresh'[row[t].key] \in Nat
      BY <1>0, <3>1 DEF TypeOK, Rows
    <3>5. fresh'[row[t].key] >= fresh[row[t].key]
      BY <3>1, FreshStep
    <3>6. asked'[t] <= fresh[row[t].key] /\ \A e \in Enqueuers :
             enq'[e] # Idle /\ enq'[e].id = t => enq'[e].want <= fresh[row[t].key]
      BY <2>1, <3>2, CoverStays DEF Covers
    <3>7. QED
      BY <3>1, <3>2, <3>3, <3>4, <3>5, <3>6 DEF Covers
  <2>2. ASSUME NEW r \in Runners, Completes(r, t) PROVE Covers(fresh[row[t].key], t)'
    <3>1. /\ t \in Rows /\ KeyOf(r) = row[t].key /\ KeyOf(r) \in Keys
          /\ HasRead(r) /\ Published(r)
      BY <2>2, KeyOfRow DEF Completes, RunPoints, HasRead, Published
    <3>2. Covers(seen[r], t) /\ seen[r] <= fresh[row[t].key]
      BY <1>1, <2>2, <3>1 DEF Served, SeenOK, Completes
    <3>3. fresh' = fresh /\ asked' = asked /\ enq' = enq
      BY <2>2 DEF Completes, Mark
    <3>4. row'[t].key = row[t].key
      BY <3>1, StepGrows
    <3>5. /\ seen[r] \in Nat /\ fresh[row[t].key] \in Nat /\ asked[t] \in Nat
          /\ \A e \in Enqueuers : enq[e] # Idle => enq[e].want \in Nat
      BY <3>1 DEF TypeOK, Rows
    <3>6. QED
      BY <3>2, <3>3, <3>4, <3>5 DEF Covers
  <2>3. ASSUME NEW o \in Operators, Reopens(o, t) PROVE FALSE
    <3>1. t \in Rows
      BY <2>3 DEF RefsOK, Reopens, RetryFailed
    <3>2. row[t] \in Task /\ t \in TaskIds
      BY <3>1, RowIsTask DEF Rows
    <3>3. row'[t].status = "pending"
      BY <2>3, <3>2 DEF Reopens, RetryFailed, TypeOK, Task
    <3>4. QED
      BY <1>5, <3>3
  <2>4. QED
    BY <1>5, <2>1, <2>2, <2>3, StatusSteps
<1>6. QED
  BY <1>3, <1>4, <1>5

-----------------------------------------------------------------------------
(* How many rows run at once.                                              *)

Running == WithStatus("running")
PastCheck == {r \in Runners : pc[r] \in {"pick", "claim"}}

\* A claim moves a worker from one set to the other; the check starts from
\* nothing running; every other step only takes away.
CountKinds ==
  \/ Running' \subseteq Running /\ PastCheck' \subseteq PastCheck
  \/ Running' = {} /\ PastCheck' \subseteq Runners
  \/ \E r \in PastCheck, t \in TaskIds :
       Running' \subseteq Running \cup {t} /\ PastCheck' \subseteq PastCheck \ {r}

LEMMA CountSteps ==
  ASSUME TypeOK, RefsOK, [Next]_vars
  PROVE  CountKinds
<1>1. ASSUME NEW r \in Runners, Claim(r) PROVE CountKinds
  <2>1. /\ r \in PastCheck
        /\ pc' = [pc EXCEPT ![r] = "read"]
        /\ row' = [row EXCEPT ![cur[r]] = [@ EXCEPT !.status = "running", !.old = FALSE]]
    BY <1>1 DEF Claim, Step, PastCheck
  <2>2. cur[r] \in TaskIds
    BY <1>1 DEF Claim, Step, RefsOK, Rows
  <2>3. Running' \subseteq Running \cup {cur[r]}
    BY <2>1, <2>2 DEF Running, WithStatus, Rows, TypeOK
  <2>4. PastCheck' \subseteq PastCheck \ {r}
    BY <2>1 DEF PastCheck, TypeOK
  <2>5. QED
    BY <2>1, <2>2, <2>3, <2>4 DEF CountKinds
<1>2. ASSUME NEW r \in Runners, CheckRunning(r) PROVE CountKinds
  <2>1. CASE Running = {}
    <3>1. Running' = {} /\ PastCheck' \subseteq Runners
      BY <1>2, <2>1 DEF CheckRunning, Running, WithStatus, Rows, PastCheck
    <3>2. QED
      BY <3>1 DEF CountKinds
  <2>2. CASE Running # {}
    <3>1. Running' = Running
      BY <1>2 DEF CheckRunning, Running, WithStatus, Rows
    <3>2. PastCheck' \subseteq PastCheck
      BY <1>2, <2>2 DEF CheckRunning, Step, Running, PastCheck, TypeOK
    <3>3. QED
      BY <3>1, <3>2 DEF CountKinds
  <2>3. QED
    BY <2>1, <2>2
<1>3. ASSUME \A r \in Runners : ~CheckRunning(r) /\ ~Claim(r)
      PROVE  Running' \subseteq Running /\ PastCheck' \subseteq PastCheck
  <2>1. ASSUME NEW t \in Running' PROVE t \in Running
    <3>1. t \in Rows' /\ row'[t].status = "running" /\ t \in TaskIds
      BY <2>1 DEF Running, WithStatus, Rows
    <3>2. ASSUME NEW r \in Runners, Completes(r, t) PROVE FALSE
      <4>1. {t} \in SUBSET TaskIds /\ "completed" \in Statuses
        BY <3>1 DEF Statuses
      <4>2. row' = SetStatus({t}, "completed") /\ t \in Rows
        BY <3>2, KeyOfRow DEF Completes, Mark, RunPoints
      <4>3. QED
        BY <3>1, <4>1, <4>2, StatusWritten
    <3>3. ASSUME NEW o \in Operators, Reopens(o, t) PROVE FALSE
      <4>1. row[t] \in Task
        BY <3>1, <3>3, RowIsTask DEF RefsOK, Reopens, RetryFailed
      <4>2. QED
        BY <3>1, <3>3, <4>1 DEF Reopens, RetryFailed, TypeOK, Task
    <3>4. CASE t \in Rows /\ row'[t].status = row[t].status
      BY <3>1, <3>4 DEF Running, WithStatus
    <3>5. CASE t \in Rows /\ row'[t].status # row[t].status
      <4>1. row[t] \in Task
        BY <3>5, RowIsTask DEF Rows
      <4>2. \E r \in Runners : FailStale(r) \/ Mark(r)
        <5>1. ASSUME NEW o \in Operators, RetryFailed(o) PROVE FALSE
          BY <3>1, <3>3, <3>5, <4>1, <5>1 DEF RetryFailed, Reopens, TypeOK, Task
        <5>2. ASSUME NEW u \in TaskIds, Age(u) PROVE FALSE
          BY <3>1, <3>5, <4>1, <5>2 DEF Age, TypeOK, Task
        <5>3. ASSUME NEW e \in Enqueuers, CommitEnqueue(e) PROVE FALSE
          BY <3>1, <3>5, <5>3 DEF CommitEnqueue, NextId, TypeOK, Rows
        <5>4. QED
          BY <1>3, <3>5, <5>1, <5>2, <5>3
          DEF Next, RunnerStep, vars, Ingest, StartEnqueue, CrashEnqueuer, BeginPass,
            Pick, Read, Execute, CommitRefresh, Validate, Repair, CommitRepair, Raise,
            CrashRunner, AskRetry
      <4>3. PICK S \in SUBSET TaskIds, s \in Statuses \ {"running"} : row' = SetStatus(S, s)
        <5>1. ASSUME NEW r \in Runners, Mark(r)
              PROVE \E S \in SUBSET TaskIds, s \in Statuses \ {"running"} : row' = SetStatus(S, s)
          <6>1. {cur[r]} \in SUBSET TaskIds
            BY <5>1, KeyOfRow DEF Mark, RunPoints
          <6>2. \E s \in Statuses \ {"running"} : row' = SetStatus({cur[r]}, s)
            BY <5>1 DEF Mark, Statuses
          <6>3. QED
            BY <6>1, <6>2
        <5>2. ASSUME NEW r \in Runners, FailStale(r)
              PROVE \E S \in SUBSET TaskIds, s \in Statuses \ {"running"} : row' = SetStatus(S, s)
          BY <5>2 DEF FailStale, TypeOK, Statuses
        <5>3. QED
          BY <4>2, <5>1, <5>2
      <4>4. QED
        BY <3>1, <3>5, <4>3, StatusWritten
    <3>6. CASE t \notin Rows
      BY <3>1, <3>6, StepGrows DEF Inserting, NewRow, TypeOK
    <3>7. QED
      BY <3>4, <3>5, <3>6
  <2>2. PastCheck' \subseteq PastCheck
    <3>1. ASSUME NEW r \in Runners, RunnerStep(r) \/ Raise(r) \/ CrashRunner(r)
          PROVE  PastCheck' \subseteq PastCheck
      BY <1>3, <3>1 DEF RunnerStep, BeginPass, FailStale, Pick, Read, Execute,
        CommitRefresh, Validate, Repair, CommitRepair, Mark, Raise, CrashRunner, Step,
        Stop, PastCheck, TypeOK
    <3>2. QED
      BY <3>1 DEF Next, vars, Ingest, StartEnqueue, CommitEnqueue, CrashEnqueuer,
        AskRetry, RetryFailed, Age, PastCheck
  <2>3. QED
    BY <2>1, <2>2
<1>4. QED
  BY <1>1, <1>2, <1>3 DEF CountKinds

\* Rows running and workers that found none running never exceed the number of
\* workers, however many crash, time out or finish in between.
RunningBounded ==
  Cardinality(WithStatus("running")) + Cardinality(PastCheck) <= Cardinality(Runners)

LEMMA BoundStep ==
  ASSUME TypeOK, RefsOK, RunningBounded, [Next]_vars
  PROVE  RunningBounded'
<1>1. IsFiniteSet(TaskIds)
  BY FS_Interval, RefreshBounds DEF TaskIds
<1>2. /\ IsFiniteSet(Running) /\ IsFiniteSet(Running')
      /\ IsFiniteSet(PastCheck) /\ IsFiniteSet(PastCheck')
  BY <1>1, RunnersFinite, FS_Subset DEF Running, WithStatus, Rows, PastCheck
<1>3. /\ Cardinality(Running) \in Nat /\ Cardinality(Running') \in Nat
      /\ Cardinality(PastCheck) \in Nat /\ Cardinality(PastCheck') \in Nat
      /\ Cardinality(Runners) \in Nat
  BY <1>2, RunnersFinite, FS_CardinalityType
<1>4. Cardinality(Running) + Cardinality(PastCheck) <= Cardinality(Runners)
  BY DEF RunningBounded, Running
<1>5. CASE Running' \subseteq Running /\ PastCheck' \subseteq PastCheck
  <2>1. /\ Cardinality(Running') <= Cardinality(Running)
        /\ Cardinality(PastCheck') <= Cardinality(PastCheck)
    BY <1>2, <1>5, FS_Subset
  <2>2. QED
    BY <1>3, <1>4, <2>1 DEF RunningBounded, Running
<1>6. CASE Running' = {} /\ PastCheck' \subseteq Runners
  <2>1. Cardinality(Running') = 0 /\ Cardinality(PastCheck') <= Cardinality(Runners)
    BY <1>6, RunnersFinite, FS_Subset, FS_EmptySet
  <2>2. QED
    BY <1>3, <2>1 DEF RunningBounded, Running
<1>7. ASSUME NEW r \in PastCheck, NEW t \in TaskIds,
             Running' \subseteq Running \cup {t}, PastCheck' \subseteq PastCheck \ {r}
      PROVE  RunningBounded'
  <2>1. /\ IsFiniteSet(Running \cup {t})
        /\ Cardinality(Running \cup {t}) <= Cardinality(Running) + 1
    <3>1. /\ IsFiniteSet(Running \cup {t})
          /\ \/ Cardinality(Running \cup {t}) = Cardinality(Running)
             \/ Cardinality(Running \cup {t}) = Cardinality(Running) + 1
      BY <1>2, FS_AddElement, Zenon
    <3>2. QED
      BY <1>3, <3>1
  <2>2. /\ IsFiniteSet(PastCheck \ {r})
        /\ Cardinality(PastCheck \ {r}) = Cardinality(PastCheck) - 1
    BY <1>2, <1>7, FS_RemoveElement
  <2>3. /\ Cardinality(Running') <= Cardinality(Running \cup {t})
        /\ Cardinality(PastCheck') <= Cardinality(PastCheck \ {r})
    BY <1>7, <2>1, <2>2, FS_Subset
  <2>4. Cardinality(Running \cup {t}) \in Nat /\ Cardinality(PastCheck \ {r}) \in Nat
    BY <2>1, <2>2, FS_CardinalityType
  <2>5. QED
    BY <1>3, <1>4, <2>1, <2>2, <2>3, <2>4 DEF RunningBounded, Running
<1>8. QED
  BY <1>5, <1>6, <1>7, CountSteps DEF CountKinds

-----------------------------------------------------------------------------
(* The theorems.                                                           *)

IInv == TypeOK /\ RefsOK /\ SeenOK /\ Served /\ RunningBounded

THEOREM InitIInv == Init => IInv
<1> SUFFICES ASSUME Init PROVE IInv
  OBVIOUS
<1>1. TypeOK /\ RefsOK
  BY InitSound
<1>2. SeenOK
  BY DEF Init, SeenOK, Committing, Published
<1>3. Served
  BY DEF Init, Served, Rows, HasRead, Committing, Published
<1>4. WithStatus("running") = {} /\ PastCheck = {}
  BY DEF Init, WithStatus, Rows, PastCheck
<1>5. RunningBounded
  BY <1>4, FS_EmptySet, FS_CardinalityType, RunnersFinite DEF RunningBounded
<1>6. QED
  BY <1>1, <1>2, <1>3, <1>5 DEF IInv

LEMMA IInvStep == IInv /\ [Next]_vars => IInv'
BY TypeStep, RefsStep, SeenStep, ServedStep, BoundStep DEF IInv

LEMMA Invariance == Spec => []IInv
BY InitIInv, IInvStep, PTL DEF Spec

\* Every variable of the queue keeps its type.
THEOREM RefreshTypeCorrect == Spec => []TypeOK
<1>1. IInv => TypeOK
  BY DEF IInv
<1>2. QED
  BY <1>1, Invariance, PTL

\* A completed refresh task has served every trigger merged into it.
THEOREM CompletedIsFreshHolds == Spec => []CompletedIsFresh
<1>1. IInv => CompletedIsFresh
  BY DEF IInv, Served, CompletedIsFresh, WithStatus, Covers
<1>2. QED
  BY <1>1, Invariance, PTL

\* With one worker the queue is serial, whatever crashes, timeouts, merges and
\* retries do: the promise of the design holds for a deployment with one.
THEOREM SerialWithOneWorker ==
  ASSUME Cardinality(Runners) = 1
  PROVE  Spec => []OneRefreshRunning
<1>1. IInv => OneRefreshRunning
  <2> SUFFICES ASSUME IInv PROVE Cardinality(Running) <= 1
    BY DEF OneRefreshRunning, Running
  <2>1. Cardinality(Running) + Cardinality(PastCheck) <= 1
    BY DEF IInv, RunningBounded, Running
  <2>2. IsFiniteSet(Running) /\ IsFiniteSet(PastCheck)
    <3>1. IsFiniteSet(TaskIds)
      BY FS_Interval, RefreshBounds DEF TaskIds
    <3>2. QED
      BY <3>1, RunnersFinite, FS_Subset DEF Running, WithStatus, Rows, PastCheck
  <2>3. Cardinality(Running) \in Nat /\ Cardinality(PastCheck) \in Nat
    BY <2>2, FS_CardinalityType
  <2>4. QED
    BY <2>1, <2>3
<1>2. QED
  BY <1>1, Invariance, PTL

\* No refresh replaces a projection by an older one.
THEOREM FreshNeverRegressesHolds == Spec => FreshNeverRegresses
<1>1. IInv /\ [Next]_vars => [\A k \in Keys : fresh'[k] >= fresh[k]]_vars
  BY FreshStep DEF IInv
<1>2. QED
  BY <1>1, Invariance, PTL DEF Spec, FreshNeverRegresses
=============================================================================
