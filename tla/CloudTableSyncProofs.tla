------------------------ MODULE CloudTableSyncProofs ------------------------
(***************************************************************************)
(* Theorems about CloudTableSync, for every finite set of keys, every set  *)
(* of executions, every batch size and every bound.                        *)
(***************************************************************************)
EXTENDS CloudTableSync, FiniteSetTheorems, TLAPS

-----------------------------------------------------------------------------
(* The order of rows, and types.                                           *)

\* Before is a strict weak order; a row no later than one that is not beyond p
\* is not beyond p.
LEMMA Order ==
  ASSUME NEW p \in Rows, NEW q \in Rows, NEW r \in Rows
  PROVE  /\ ~Before(p, p)
         /\ Before(p, q) => ~Before(q, p)
         /\ Before(p, q) /\ Before(q, r) => Before(p, r)
         /\ ~Before(p, q) /\ ~Before(q, r) => ~Before(p, r)
  BY DEF Rows, Before

LEMMA EmptyType == Empty \in [Keys -> Rows] /\ NoRow \in Rows
  BY DEF Empty, NoRow, Rows

LEMMA InitTypeOK == Init => TypeOK
<1> SUFFICES ASSUME Init
             PROVE  TypeOK
  OBVIOUS
<1>1. /\ stamped \in [Ingesters -> [Keys -> Nat]]
      /\ batch \in [Workers -> [Keys -> Rows]]
      /\ mem \in [Workers -> Rows] /\ upto \in [Workers -> Rows]
  BY EmptyType DEF Init
<1>2. goal \in [Workers -> SUBSET Keys]
  BY DEF Init
<1>3. {dirty, tied, torn} \subseteq BOOLEAN
  BY DEF Init
<1>4. pc \in [Workers -> Steps] /\ outcome \in [Workers -> Outcomes]
  BY DEF Init, Steps, Outcomes
<1>5. QED
  BY <1>1, <1>2, <1>3, <1>4, EmptyType DEF Init, TypeOK

\* What a committed chunk does to the table: a row that is there is restamped,
\* one that is not gets an id beyond all handed out before.
LEMMA CommitFacts ==
  ASSUME TypeOK, NEW i \in Ingesters, CommitChunk(i)
  PROVE  /\ lastId' \in Nat /\ lastId <= lastId'
         /\ lastAt' \in Nat /\ lastAt <= lastAt'
         /\ local' \in [Keys -> Rows]
         /\ \A k \in Keys : local'[k] # local[k] =>
              /\ stamped[i][k] # 0
              /\ local'[k].at = stamped[i][k]
              /\ stamped[i][k] <= lastAt'
              /\ k \in Visible => /\ local'[k].id = local[k].id
                                  /\ stamped[i][k] <= lastAt => tied'
              /\ k \notin Visible => /\ lastId < local'[k].id
                                     /\ local'[k].id <= lastId'
         /\ stamped' \in [Ingesters -> [Keys -> Nat]]
         /\ lastAt' = lastAt \/ \E l \in Keys : lastAt' = stamped[i][l]
         /\ \A j \in Ingesters, k \in Keys : stamped'[j][k] # 0 =>
              /\ stamped'[j][k] = stamped[j][k]
              /\ j = i => lastAt' = lastAt \/ lastAt' <= stamped[j][k]
         /\ tied => tied'
         /\ tied' \in BOOLEAN
<1> USE DEF TypeOK
<1>1. PICK C \in Chunks(i) :
        /\ lastId' = lastId + Cardinality(C \ Visible)
        /\ \E f \in NewIds(i, C) :
             local' = [k \in Keys |->
               IF k \notin C THEN local[k]
               ELSE [at |-> stamped[i][k],
                     id |-> IF k \in Visible THEN local[k].id ELSE f[k]]]
        /\ stamped' = Drop(i, C)
        /\ \E t \in {lastAt} \cup {stamped[i][k] : k \in C} :
             /\ lastAt <= t /\ \A k \in C : stamped[i][k] <= t
             /\ lastAt' = t
        /\ tied' = (tied \/ \E k \in C \cap Visible : stamped[i][k] <= lastAt)
  BY DEF CommitChunk
<1>2. PICK f \in NewIds(i, C) :
        local' = [k \in Keys |->
          IF k \notin C THEN local[k]
          ELSE [at |-> stamped[i][k],
                id |-> IF k \in Visible THEN local[k].id ELSE f[k]]]
  BY <1>1
<1>3. /\ C \subseteq Keys
      /\ \A k \in C : stamped[i][k] # 0
      /\ \A j \in C, k \in Keys \ C : stamped[i][k] # 0
                                       => stamped[i][j] <= stamped[i][k]
  BY DEF Chunks, Records
<1>4. Cardinality(C \ Visible) \in Nat
  BY <1>3, KeysAssumption, FS_Subset, FS_CardinalityType
<1>5. lastId' \in Nat /\ lastId <= lastId'
  BY <1>1, <1>4
<1>6. \A k \in C \ Visible : f[k] \in Nat /\ lastId < f[k] /\ f[k] <= lastId'
  <2>1. f \in [C \ Visible -> (lastId + 1)..(lastId + Cardinality(C \ Visible))]
    BY DEF NewIds
  <2>2. lastId \in Nat /\ lastId' = lastId + Cardinality(C \ Visible)
    BY <1>1
  <2>3. \A k \in C \ Visible : f[k] \in (lastId + 1)..lastId'
    BY <2>1, <2>2
  <2>4. ASSUME NEW n \in Nat, NEW m \in Nat, NEW x \in (n + 1)..m
        PROVE  x \in Nat /\ n < x /\ x <= m
    OBVIOUS
  <2> HIDE DEF TypeOK
  <2>5. QED
    BY <1>5, <2>2, <2>3, <2>4
<1>7. \A k \in C : stamped[i][k] \in Nat
  BY <1>3
<1>8. /\ lastAt' \in Nat /\ lastAt <= lastAt'
      /\ \A k \in C : stamped[i][k] <= lastAt'
      /\ lastAt' = lastAt \/ \E l \in C : lastAt' = stamped[i][l]
  BY <1>1, <1>7
<1>9. \A k \in C : [at |-> stamped[i][k],
                    id |-> IF k \in Visible THEN local[k].id ELSE f[k]] \in Rows
  BY <1>3, <1>6, <1>7 DEF Rows
<1>10. local' \in [Keys -> Rows]
  BY <1>2, <1>9
<1>11. \A k \in Keys : local'[k] # local[k] =>
         /\ k \in C
         /\ local'[k].at = stamped[i][k]
         /\ k \in Visible => local'[k].id = local[k].id
         /\ k \notin Visible => local'[k].id = f[k]
  BY <1>2
<1>12. \A k \in C \cap Visible : stamped[i][k] <= lastAt => tied'
  BY <1>1
<1>13. \A j \in Ingesters, k \in Keys :
         stamped'[j][k] = IF j = i /\ k \in C THEN 0 ELSE stamped[j][k]
  BY <1>1 DEF Drop
<1>14. stamped' \in [Ingesters -> [Keys -> Nat]]
  BY <1>1 DEF Drop
<1>15. \A j \in Ingesters, k \in Keys : stamped'[j][k] # 0 =>
         /\ stamped'[j][k] = stamped[j][k]
         /\ j = i => lastAt' = lastAt \/ lastAt' <= stamped[j][k]
  BY <1>3, <1>8, <1>13
<1>16. (tied => tied') /\ tied' \in BOOLEAN
  BY <1>1
<1>17. ASSUME NEW k \in Keys, local'[k] # local[k]
       PROVE  /\ stamped[i][k] # 0
              /\ local'[k].at = stamped[i][k]
              /\ stamped[i][k] <= lastAt'
              /\ k \in Visible => /\ local'[k].id = local[k].id
                                  /\ stamped[i][k] <= lastAt => tied'
              /\ k \notin Visible => /\ lastId < local'[k].id
                                     /\ local'[k].id <= lastId'
  BY <1>3, <1>6, <1>8, <1>11, <1>12, <1>17
<1>18. lastAt' = lastAt \/ \E l \in Keys : lastAt' = stamped[i][l]
  BY <1>3, <1>8
<1>19. QED
  BY <1>5, <1>8, <1>10, <1>14, <1>15, <1>16, <1>17, <1>18

LEMMA IngestTypeOK ==
  ASSUME TypeOK, NEW i \in Ingesters, Ingest(i)
  PROVE  TypeOK'
<1>1. CASE \E k \in Keys : Stamp(i, k)
  <2>1. PICK k \in Keys : Stamp(i, k)
    BY <1>1
  <2>2. PICK t \in {clock, clock + 1} \ {0} :
          clock' = t /\ stamped' = [stamped EXCEPT ![i][k] = t]
    BY <2>1 DEF Stamp
  <2>3. t \in Nat
    BY DEF TypeOK
  <2>4. QED
    BY <2>1, <2>2, <2>3 DEF Stamp, TypeOK, workVars
<1>2. CASE CommitChunk(i)
  <2>1. UNCHANGED <<cloud, ckpt, clock, stamps, repairs, workVars, dirty, goal,
                    torn>>
    BY <1>2 DEF CommitChunk
  <2>2. QED
    BY <1>2, <2>1, CommitFacts DEF TypeOK, workVars
<1>3. CASE SkipChunk(i)
  BY <1>3 DEF SkipChunk, Drop, TypeOK, workVars
<1>4. QED
  BY <1>1, <1>2, <1>3 DEF Ingest

\* Whichever columns are written, the checkpoint is a pair of numbers.
LEMMA StoredType ==
  ASSUME TypeOK, NEW w \in Workers
  PROVE  Stored(w) \subseteq Rows
  BY DEF Stored, TypeOK, Rows

LEMMA SyncTypeOK ==
  ASSUME TypeOK, NEW w \in Workers, StartSync(w) \/ SyncStep(w) \/ Fail(w)
  PROVE  TypeOK'
<1>1. CASE StartSync(w)
  BY <1>1 DEF StartSync, Visible, TypeOK, Steps, Outcomes, tableVars
<1>2. CASE ReadBatch(w)
  <2>1. PICK p \in {local[k] : k \in Newer(mem[w])} :
          /\ upto' = [upto EXCEPT ![w] = p]
          /\ batch' = [batch EXCEPT ![w] =
            [k \in Keys |-> IF k \in Prefix(mem[w], p) THEN local[k] ELSE NoRow]]
    BY <1>2 DEF ReadBatch
  <2>2. p \in Rows
    BY DEF TypeOK, Newer, Visible
  <2>3. [k \in Keys |-> IF k \in Prefix(mem[w], p) THEN local[k] ELSE NoRow]
          \in [Keys -> Rows]
    BY EmptyType DEF TypeOK
  <2>4. batch' \in [Workers -> [Keys -> Rows]] /\ upto' \in [Workers -> Rows]
    BY <2>1, <2>2, <2>3 DEF TypeOK
  <2>5. QED
    BY <1>2, <2>4 DEF ReadBatch, TypeOK, Steps, tableVars
<1>3. CASE ReadNothing(w)
  BY <1>3 DEF ReadNothing, TypeOK, Steps, tableVars
<1>4. CASE WriteCloud(w)
  BY <1>4 DEF WriteCloud, Upserted, TypeOK, Steps, tableVars
<1>5. CASE Advance(w)
  <2>1. ckpt' \in Rows
    BY <1>5, StoredType DEF Advance
  <2>2. QED
    BY <1>5, <2>1 DEF Advance, TypeOK, Steps, tableVars
<1>6. CASE RefreshCheckpoint(w)
  BY <1>6, EmptyType DEF RefreshCheckpoint, NextRound, TypeOK, Steps, tableVars
<1>7. CASE Project(w) \/ Fail(w)
  <2>1. Return(w) /\ UNCHANGED <<tableVars, cloud, ckpt, repairs, torn>>
    BY <1>7 DEF Project, Fail
  <2>2. /\ pc' \in [Workers -> Steps]
        /\ mem' \in [Workers -> Rows] /\ upto' \in [Workers -> Rows]
        /\ batch' \in [Workers -> [Keys -> Rows]]
        /\ wrote' \in [Workers -> BOOLEAN]
        /\ goal' \in [Workers -> SUBSET Keys]
    BY <2>1, EmptyType DEF Return, NextRound, TypeOK, Steps
  <2>3. outcome' \in [Workers -> Outcomes] /\ dirty' \in BOOLEAN
    BY <1>7 DEF Project, Fail, TypeOK, Outcomes
  <2>4. QED
    BY <2>1, <2>2, <2>3 DEF TypeOK, tableVars
<1>8. QED
  BY <1>1, <1>2, <1>3, <1>4, <1>5, <1>6, <1>7 DEF SyncStep

LEMMA NextTypeOK == TypeOK /\ [Next]_vars => TypeOK'
<1> SUFFICES ASSUME TypeOK, [Next]_vars
             PROVE  TypeOK'
  OBVIOUS
<1>1. ASSUME NEW k \in Keys, DeleteRow(k)
      PROVE  TypeOK'
  BY <1>1, EmptyType DEF DeleteRow, TypeOK, workVars
<1>2. CASE RepairCheckpoint
  BY <1>2, EmptyType DEF RepairCheckpoint, TypeOK, tableVars, workVars
<1>3. CASE UNCHANGED vars
  BY <1>3 DEF vars, TypeOK
<1>4. QED
  BY <1>1, <1>2, <1>3, IngestTypeOK, SyncTypeOK DEF Next

\* Type correctness of the checkpointed sync of one table.
THEOREM TypeCorrect == Spec => []TypeOK
  BY InitTypeOK, NextTypeOK, PTL DEF Spec

-----------------------------------------------------------------------------
(* The inductive invariant: positions in use and records to come.          *)

LEMMA NoRowInUse == TypeOK => InUse(NoRow)
  BY DEF TypeOK, InUse, NoRow

LEMMA InitBounds == Init => Bounds /\ StampsAhead
  BY DEF Init, Empty, NoRow, Bounds, StampsAhead, InUse

LEMMA StampBounds ==
  ASSUME TypeOK, Bounds, StampsAhead, NEW i \in Ingesters, NEW k \in Keys,
         Stamp(i, k)
  PROVE  Bounds' /\ StampsAhead'
<1> USE DEF TypeOK
<1>1. PICK t \in {clock, clock + 1} \ {0} :
        clock' = t /\ stamped' = [stamped EXCEPT ![i][k] = t]
  BY DEF Stamp
<1>2. t \in Nat /\ clock <= t /\ t # 0
  OBVIOUS
<1>3. UNCHANGED <<local, ckpt, mem, upto, lastId, lastAt>>
  BY DEF Stamp, workVars
<1>4. \A j \in Ingesters, l \in Keys :
        stamped'[j][l] = IF j = i /\ l = k THEN t ELSE stamped[j][l]
  BY <1>1
<1>5. lastAt <= clock /\ \A j \in Ingesters, l \in Keys : stamped[j][l] <= clock
  BY DEF Bounds
<1>6. Bounds'
  <2>1. lastAt' <= clock' /\ \A j \in Ingesters, l \in Keys :
                                stamped'[j][l] <= clock'
    BY <1>1, <1>2, <1>3, <1>4, <1>5
  <2>2. QED
    BY <1>3, <2>1 DEF Bounds, InUse
<1>7. StampsAhead'
  BY <1>1, <1>2, <1>3, <1>4, <1>5 DEF StampsAhead
<1>8. QED
  BY <1>6, <1>7

LEMMA CommitBounds ==
  ASSUME OneIngester, TypeOK, Bounds, StampsAhead, NEW i \in Ingesters,
         CommitChunk(i)
  PROVE  Bounds' /\ StampsAhead'
<1> USE DEF TypeOK
<1>1. UNCHANGED <<ckpt, mem, upto, clock>>
  BY DEF CommitChunk, workVars
<1>2. /\ lastId' \in Nat /\ lastId <= lastId'
      /\ lastAt' \in Nat /\ lastAt <= lastAt'
      /\ lastAt' = lastAt \/ \E l \in Keys : lastAt' = stamped[i][l]
      /\ local' \in [Keys -> Rows]
      /\ stamped' \in [Ingesters -> [Keys -> Nat]]
  BY CommitFacts
<1>3. \A j \in Ingesters, l \in Keys : stamped[j][l] <= clock
  BY DEF Bounds
<1>4. lastAt' <= clock'
  BY <1>1, <1>2, <1>3 DEF Bounds
<1>5. ASSUME NEW p \in Rows, InUse(p)
      PROVE  p.at <= lastAt' /\ p.id <= lastId'
  BY <1>2, <1>5 DEF InUse, Rows
<1>6. ASSUME NEW k \in Keys
      PROVE  local'[k].at <= lastAt' /\ local'[k].id <= lastId'
  <2>1. CASE local'[k] = local[k]
    BY <1>5, <2>1 DEF Bounds
  <2>2. CASE local'[k] # local[k]
    <3>1. /\ local'[k].at = stamped[i][k]
          /\ stamped[i][k] <= lastAt'
          /\ k \in Visible => local'[k].id = local[k].id
          /\ k \notin Visible => local'[k].id <= lastId'
      BY <2>2, CommitFacts
    <3>2. local[k].id <= lastId'
      BY <1>5 DEF Bounds
    <3>3. QED
      BY <3>1, <3>2
  <2>3. QED
    BY <2>1, <2>2
<1>7. ASSUME NEW w \in Workers
      PROVE  /\ mem[w].at <= lastAt' /\ mem[w].id <= lastId'
             /\ upto[w].at <= lastAt' /\ upto[w].id <= lastId'
  BY <1>5 DEF Bounds
<1>8. ckpt.at <= lastAt' /\ ckpt.id <= lastId'
  BY <1>5 DEF Bounds
<1>9. ASSUME NEW j \in Ingesters, NEW k \in Keys
      PROVE  stamped'[j][k] <= clock' /\ (stamped'[j][k] # 0
                                            => lastAt' <= stamped'[j][k])
  <2>1. CASE stamped'[j][k] = 0
    BY <1>1, <2>1
  <2>2. CASE stamped'[j][k] # 0
    <3>1. j = i
      BY DEF OneIngester
    <3>2. stamped'[j][k] = stamped[j][k]
      BY <2>2, CommitFacts
    <3>3. lastAt' = lastAt \/ lastAt' <= stamped[j][k]
      BY <2>2, <3>1, CommitFacts
    <3>4. lastAt <= stamped[j][k]
      BY <2>2, <3>2 DEF StampsAhead
    <3>5. QED
      BY <1>1, <1>3, <3>2, <3>3, <3>4
  <2>3. QED
    BY <2>1, <2>2
<1>10. Bounds'
  BY <1>1, <1>4, <1>6, <1>7, <1>8, <1>9 DEF Bounds, InUse
<1>11. StampsAhead'
  BY <1>9 DEF StampsAhead
<1>12. QED
  BY <1>10, <1>11

LEMMA SkipBounds ==
  ASSUME TypeOK, Bounds, StampsAhead, NEW i \in Ingesters, SkipChunk(i)
  PROVE  Bounds' /\ StampsAhead'
<1> USE DEF TypeOK
<1>1. \A j \in Ingesters, k \in Keys : stamped'[j][k] \in {stamped[j][k], 0}
  BY DEF SkipChunk, Drop
<1>2. UNCHANGED <<local, ckpt, mem, upto, lastId, lastAt, clock>>
  BY DEF SkipChunk, workVars
<1>3. Bounds'
  <2>1. \A j \in Ingesters, k \in Keys : stamped'[j][k] <= clock'
    BY <1>1, <1>2 DEF Bounds
  <2>2. QED
    BY <1>2, <2>1 DEF Bounds, InUse
<1>4. StampsAhead'
  BY <1>1, <1>2 DEF StampsAhead
<1>5. QED
  BY <1>3, <1>4

\* Steps that leave the table alone and only copy positions in use.
LEMMA CopyBounds ==
  ASSUME TypeOK, Bounds, StampsAhead, UNCHANGED tableVars, InUse(ckpt'),
         \A w \in Workers : InUse(mem'[w]) /\ InUse(upto'[w])
  PROVE  Bounds' /\ StampsAhead'
<1>1. UNCHANGED <<local, clock, lastId, stamped, lastAt>>
  BY DEF tableVars
<1>2. Bounds'
  BY <1>1 DEF Bounds, InUse
<1>3. StampsAhead'
  BY <1>1 DEF StampsAhead
<1>4. QED
  BY <1>2, <1>3

LEMMA SyncBounds ==
  ASSUME TypeOK, Bounds, StampsAhead, NEW w \in Workers,
         StartSync(w) \/ SyncStep(w) \/ Fail(w)
  PROVE  Bounds' /\ StampsAhead'
<1> USE DEF TypeOK
<1>1. /\ InUse(ckpt)
      /\ \A x \in Workers : InUse(mem[x]) /\ InUse(upto[x])
      /\ \A k \in Keys : InUse(local[k])
      /\ InUse(NoRow)
  BY NoRowInUse DEF Bounds
<1>2. CASE StartSync(w)
  BY <1>1, <1>2, CopyBounds DEF StartSync
<1>3. CASE ReadBatch(w)
  <2>1. PICK p \in {local[k] : k \in Newer(mem[w])} :
          upto' = [upto EXCEPT ![w] = p]
    BY <1>3 DEF ReadBatch
  <2>2. InUse(p)
    BY <1>1 DEF Newer, Visible
  <2>3. QED
    BY <1>1, <1>3, <2>1, <2>2, CopyBounds DEF ReadBatch
<1>4. CASE ReadNothing(w) \/ WriteCloud(w)
  BY <1>1, <1>4, CopyBounds DEF ReadNothing, WriteCloud
<1>5. CASE Advance(w)
  <2>1. InUse(ckpt')
    BY <1>1, <1>5 DEF Advance, Stored, InUse
  <2>2. QED
    BY <1>1, <1>5, <2>1, CopyBounds DEF Advance
<1>6. CASE RefreshCheckpoint(w)
  BY <1>1, <1>6, CopyBounds DEF RefreshCheckpoint, NextRound
<1>7. CASE Project(w) \/ Fail(w)
  <2>1. UNCHANGED <<tableVars, ckpt>> /\ Return(w)
    BY <1>7 DEF Project, Fail
  <2>2. QED
    BY <1>1, <2>1, CopyBounds DEF Return, NextRound
<1>8. QED
  BY <1>2, <1>3, <1>4, <1>5, <1>6, <1>7 DEF SyncStep

LEMMA NextBounds ==
  ASSUME OneIngester, TypeOK, Bounds, StampsAhead, [Next]_vars
  PROVE  Bounds' /\ StampsAhead'
<1>1. ASSUME NEW i \in Ingesters, Ingest(i)
      PROVE  Bounds' /\ StampsAhead'
  BY <1>1, StampBounds, CommitBounds, SkipBounds DEF Ingest
<1>2. ASSUME NEW k \in Keys, DeleteRow(k)
      PROVE  Bounds' /\ StampsAhead'
  <2>1. \A l \in Keys : local'[l] \in {local[l], NoRow}
    BY <1>2 DEF DeleteRow, TypeOK
  <2>2. \A l \in Keys : InUse(local'[l])
    BY <2>1, NoRowInUse DEF Bounds
  <2>3. UNCHANGED <<ckpt, mem, upto, lastId, lastAt, clock, stamped>>
    BY <1>2 DEF DeleteRow, workVars
  <2>4. Bounds'
    BY <2>2, <2>3 DEF Bounds, InUse
  <2>5. QED
    BY <2>3, <2>4 DEF StampsAhead
<1>3. CASE RepairCheckpoint
  BY <1>3, CopyBounds, NoRowInUse DEF RepairCheckpoint, workVars, Bounds
<1>4. CASE UNCHANGED vars
  BY <1>4 DEF vars, Bounds, StampsAhead, InUse
<1>5. QED
  BY <1>1, <1>2, <1>3, <1>4, SyncBounds DEF Next

-----------------------------------------------------------------------------
(* What the checkpoint, its copies and the batches account for.            *)

\* With one ingester, a row a commit puts up to a position in use was there up
\* to it before; it is the same row, unless it tied.
LEMMA CommitAhead ==
  ASSUME TypeOK, Bounds, StampsAhead, NEW i \in Ingesters, CommitChunk(i),
         NEW p \in Rows, InUse(p), NEW k \in Visible', ~Before(p, local'[k])
  PROVE  /\ k \in Visible
         /\ ~Before(p, local[k])
         /\ ~tied' => local'[k] = local[k]
<1> USE DEF TypeOK
<1>1. k \in Keys /\ local'[k].at # 0
  BY DEF Visible
<1>2. CASE local'[k] = local[k]
  BY <1>1, <1>2 DEF Visible
<1>3. CASE local'[k] # local[k]
  <2>1. /\ stamped[i][k] # 0
        /\ local'[k].at = stamped[i][k]
        /\ k \in Visible => /\ local'[k].id = local[k].id
                            /\ stamped[i][k] <= lastAt => tied'
        /\ k \notin Visible => lastId < local'[k].id
    BY <1>1, <1>3, CommitFacts
  <2>2. lastAt <= stamped[i][k]
    BY <1>1, <2>1 DEF StampsAhead
  <2>3. /\ p.at \in Nat /\ p.id \in Nat /\ lastAt \in Nat /\ lastId \in Nat
        /\ stamped[i][k] \in Nat
        /\ local[k].at \in Nat /\ local[k].id \in Nat
        /\ local'[k].at \in Nat /\ local'[k].id \in Nat
    BY <1>1, CommitFacts DEF Rows
  <2>4. p.at <= lastAt /\ p.id <= lastId /\ local[k].at <= lastAt
    BY <1>1 DEF Bounds, InUse
  <2> HIDE DEF TypeOK
  <2>5. p.at <= local'[k].at
    BY <2>1, <2>2, <2>3, <2>4
  <2>6. ~(p.at < local'[k].at) /\ ~(p.at = local'[k].at /\ p.id < local'[k].id)
    BY DEF Before
  <2>7. p.at = local'[k].at /\ ~(p.id < local'[k].id)
    BY <2>3, <2>5, <2>6
  <2>8. k \in Visible
    BY <2>1, <2>3, <2>4, <2>7
  <2>9. local'[k].id = local[k].id /\ stamped[i][k] <= lastAt
    BY <2>1, <2>2, <2>3, <2>4, <2>7, <2>8
  <2>10. ~Before(p, local[k])
    BY <2>3, <2>4, <2>1, <2>7, <2>9, <2>2 DEF Before
  <2>11. QED
    BY <2>1, <2>8, <2>9, <2>10
<1>4. QED
  BY <1>2, <1>3

\* What an ingester does moves no row up to a position in use.
LEMMA IngestAhead ==
  ASSUME TypeOK, Bounds, StampsAhead, NEW i \in Ingesters, Ingest(i)
  PROVE  /\ UNCHANGED <<cloud, ckpt, pc, mem, batch, upto, goal, torn>>
         /\ Visible \subseteq Visible'
         /\ tied => tied'
         /\ \A p \in Rows, k \in Visible' :
              InUse(p) /\ ~Before(p, local'[k]) =>
                /\ k \in Visible
                /\ ~Before(p, local[k])
                /\ ~tied' => local'[k] = local[k]
<1>1. UNCHANGED <<cloud, ckpt, pc, mem, batch, upto, goal, torn>>
  BY DEF Ingest, Stamp, CommitChunk, SkipChunk, workVars
<1>2. CASE UNCHANGED <<local, tied>>
  BY <1>1, <1>2 DEF Visible
<1>3. CASE CommitChunk(i)
  <2>1. \A k \in Keys : local'[k] # local[k] => local'[k].at # 0
    BY <1>3, CommitFacts
  <2>2. Visible \subseteq Visible'
    BY <2>1 DEF Visible
  <2>3. tied => tied'
    BY <1>3, CommitFacts
  <2>4. QED
    BY <1>1, <1>3, <2>2, <2>3, CommitAhead
<1>4. QED
  BY <1>1, <1>2, <1>3 DEF Ingest, Stamp, SkipChunk

LEMMA InitDelivery == Init => Accounted /\ GoalAhead
  BY DEF Init, Empty, NoRow, Visible, Accounted, PresentUpTo, GoalAhead

LEMMA SameBatch ==
  ASSUME batch' = batch
  PROVE  \A w \in Workers : InBatch(w)' = InBatch(w) /\ IsShort(w)' = IsShort(w)
  BY DEF InBatch, IsShort

LEMMA IngestDelivery ==
  ASSUME TypeOK, Bounds, StampsAhead, Accounted, GoalAhead,
         NEW i \in Ingesters, Ingest(i)
  PROVE  Accounted' /\ GoalAhead'
<1>1. UNCHANGED <<cloud, ckpt, pc, mem, batch, upto, goal>>
  BY IngestAhead
<1>2. Present' = Present
  BY <1>1 DEF Present
<1>3. \A p \in Rows, k \in Visible' :
        InUse(p) /\ ~Before(p, local'[k]) => k \in Visible /\ ~Before(p, local[k])
  BY IngestAhead
<1>4. /\ ckpt \in Rows /\ InUse(ckpt)
      /\ \A w \in Workers : /\ mem[w] \in Rows /\ InUse(mem[w])
                            /\ upto[w] \in Rows /\ InUse(upto[w])
  BY DEF TypeOK, Bounds
<1>5. PresentUpTo(ckpt)'
  BY <1>1, <1>2, <1>3, <1>4 DEF Accounted, PresentUpTo
<1>6. ASSUME NEW w \in Workers
      PROVE  /\ PresentUpTo(mem[w])'
             /\ pc'[w] = "advance" => PresentUpTo(upto[w])'
  BY <1>1, <1>2, <1>3, <1>4 DEF Accounted, PresentUpTo
<1>7. ASSUME NEW w \in Workers, pc'[w] = "write", NEW k \in Visible',
             ~Before(upto'[w], local'[k])
      PROVE  k \in Present' \cup InBatch(w)'
  <2>1. k \in Visible /\ ~Before(upto[w], local[k])
    BY <1>1, <1>3, <1>4, <1>7
  <2>2. QED
    BY <1>1, <1>2, <1>7, <2>1, SameBatch DEF Accounted
<1>8. Accounted'
  BY <1>5, <1>6, <1>7 DEF Accounted
<1>9. GoalAhead'
  <2>1. Visible \subseteq Visible'
    BY IngestAhead
  <2>2. QED
    BY <1>1, <1>2, <2>1, SameBatch DEF GoalAhead
<1>10. QED
  BY <1>8, <1>9

\* A deleted row has to be accounted for no more.
LEMMA DeleteDelivery ==
  ASSUME TypeOK, Accounted, GoalAhead, NEW k \in Keys, DeleteRow(k)
  PROVE  Accounted' /\ GoalAhead'
<1>1. UNCHANGED <<cloud, ckpt, pc, mem, batch, upto>>
  BY DEF DeleteRow, workVars
<1>2. Present' = Present
  BY <1>1 DEF Present
<1>3. \A l \in Keys : local'[l] = IF l = k THEN NoRow ELSE local[l]
  BY DEF DeleteRow, TypeOK
<1>4. Visible' = Visible \ {k} /\ \A l \in Visible' : local'[l] = local[l]
  BY <1>3 DEF Visible, NoRow
<1>5. \A p : PresentUpTo(p) => \A l \in Visible' : ~Before(p, local'[l])
                                                     => l \in Present'
  BY <1>2, <1>4 DEF PresentUpTo
<1>6. PresentUpTo(ckpt)'
  BY <1>1, <1>5 DEF Accounted, PresentUpTo
<1>7. ASSUME NEW w \in Workers
      PROVE  /\ PresentUpTo(mem[w])'
             /\ pc'[w] = "advance" => PresentUpTo(upto[w])'
  BY <1>1, <1>5 DEF Accounted, PresentUpTo
<1>8. ASSUME NEW w \in Workers, pc'[w] = "write", NEW l \in Visible',
             ~Before(upto'[w], local'[l])
      PROVE  l \in Present' \cup InBatch(w)'
  BY <1>1, <1>2, <1>4, <1>8, SameBatch DEF Accounted
<1>9. Accounted'
  BY <1>6, <1>7, <1>8 DEF Accounted
<1>10. GoalAhead'
  <2>1. \A w \in Workers : goal'[w] = goal[w] \ {k}
    BY DEF DeleteRow, TypeOK
  <2>2. QED
    BY <1>1, <1>2, <1>4, <2>1, SameBatch DEF GoalAhead
<1>11. QED
  BY <1>9, <1>10

\* Steps of an execution that touch neither side nor the checkpoint.
LEMMA StartDelivery ==
  ASSUME TypeOK, Accounted, GoalAhead, NEW w \in Workers, StartSync(w)
  PROVE  Accounted' /\ GoalAhead'
<1>1. /\ UNCHANGED <<local, cloud, ckpt, batch, upto>>
      /\ pc' = [pc EXCEPT ![w] = "read"]
      /\ mem' = [mem EXCEPT ![w] = ckpt]
      /\ goal' = [goal EXCEPT ![w] = Visible]
  BY DEF StartSync, tableVars
<1>2. Visible' = Visible /\ Present' = Present
  BY <1>1 DEF Visible, Present
<1>3. /\ \A x \in Workers : pc'[x] = IF x = w THEN "read" ELSE pc[x]
      /\ \A x \in Workers : mem'[x] = IF x = w THEN ckpt ELSE mem[x]
      /\ \A x \in Workers : goal'[x] = IF x = w THEN Visible ELSE goal[x]
  BY <1>1 DEF TypeOK
<1>4. Accounted'
  BY <1>1, <1>2, <1>3, SameBatch DEF Accounted, PresentUpTo
<1>5. GoalAhead'
  BY <1>1, <1>2, <1>3, SameBatch DEF GoalAhead
<1>6. QED
  BY <1>4, <1>5

\* A batch shorter than the limit holds every newer row: a goal row that is
\* neither delivered nor in it cannot exist.
LEMMA ReadBatchDelivery ==
  ASSUME TypeOK, Accounted, GoalAhead, NEW w \in Workers, ReadBatch(w)
  PROVE  Accounted' /\ GoalAhead'
<1>1. PICK p \in {local[k] : k \in Newer(mem[w])} :
        /\ IsBatch(Prefix(mem[w], p), mem[w])
        /\ upto' = [upto EXCEPT ![w] = p]
        /\ batch' = [batch EXCEPT ![w] =
          [k \in Keys |-> IF k \in Prefix(mem[w], p) THEN local[k] ELSE NoRow]]
  BY DEF ReadBatch
<1>2. /\ UNCHANGED <<local, cloud, ckpt, mem, goal>>
      /\ pc' = [pc EXCEPT ![w] = "write"]
  BY DEF ReadBatch, tableVars
<1>3. Visible' = Visible /\ Present' = Present
  BY <1>2 DEF Visible, Present
<1>4. \A x \in Workers \ {w} :
        /\ pc'[x] = pc[x] /\ upto'[x] = upto[x]
        /\ InBatch(x)' = InBatch(x) /\ IsShort(x)' = IsShort(x)
  BY <1>1, <1>2 DEF TypeOK, InBatch, IsShort
<1>5. pc'[w] = "write" /\ upto'[w] = p
  BY <1>1, <1>2 DEF TypeOK
<1>6. InBatch(w)' = Prefix(mem[w], p)
  <2>1. \A k \in Keys : batch'[w][k] = IF k \in Prefix(mem[w], p) THEN local[k]
                                                                 ELSE NoRow
    BY <1>1 DEF TypeOK
  <2>2. QED
    BY <2>1 DEF InBatch, Prefix, Newer, Visible, NoRow
<1>7. IsShort(w)' => Prefix(mem[w], p) = Newer(mem[w])
  BY <1>1, <1>6, BatchSizeAssumption DEF IsShort, IsBatch
<1>8. \A k \in Visible \ Newer(mem[w]) : k \in Present
  BY DEF Newer, Accounted, PresentUpTo
<1>9. Accounted'
  <2>1. \A k \in Visible : ~Before(p, local[k]) =>
          k \in Present \cup Prefix(mem[w], p)
    BY <1>8 DEF Prefix
  <2>2. PresentUpTo(ckpt)' /\ \A x \in Workers : PresentUpTo(mem[x])'
    BY <1>2, <1>3 DEF Accounted, PresentUpTo
  <2>3. \A x \in Workers : pc'[x] = "advance" => PresentUpTo(upto[x])'
    BY <1>2, <1>3, <1>4, <1>5 DEF Accounted, PresentUpTo
  <2>4. ASSUME NEW x \in Workers, pc'[x] = "write", NEW k \in Visible',
               ~Before(upto'[x], local'[k])
        PROVE  k \in Present' \cup InBatch(x)'
    BY <1>2, <1>3, <1>4, <1>5, <1>6, <2>1, <2>4 DEF Accounted
  <2>5. QED
    BY <2>2, <2>3, <2>4 DEF Accounted
<1>10. GoalAhead'
  <2>1. \A k \in goal[w] : k \in Visible
    BY DEF GoalAhead
  <2>2. \A k \in goal[w] : IsShort(w)' => k \in Present \cup InBatch(w)'
    BY <1>6, <1>7, <1>8, <2>1
  <2>3. QED
    BY <1>2, <1>3, <1>4, <1>5, <2>1, <2>2 DEF GoalAhead
<1>11. QED
  BY <1>9, <1>10

LEMMA ReadNothingDelivery ==
  ASSUME TypeOK, Accounted, GoalAhead, NEW w \in Workers, ReadNothing(w)
  PROVE  Accounted' /\ GoalAhead'
<1>1. /\ UNCHANGED <<local, cloud, ckpt, mem, batch, upto, goal>>
      /\ Newer(mem[w]) = {}
      /\ \A x \in Workers : pc'[x] = IF x = w THEN "project" ELSE pc[x]
  BY DEF ReadNothing, tableVars, TypeOK
<1>2. Visible' = Visible /\ Present' = Present
  BY <1>1 DEF Visible, Present
<1>3. Visible \subseteq Present
  BY <1>1 DEF Newer, Accounted, PresentUpTo
<1>4. Accounted'
  BY <1>1, <1>2, SameBatch DEF Accounted, PresentUpTo
<1>5. GoalAhead'
  BY <1>1, <1>2, <1>3, SameBatch DEF GoalAhead
<1>6. QED
  BY <1>4, <1>5

\* The mirror only gains rows.
LEMMA WriteDelivery ==
  ASSUME TypeOK, Accounted, GoalAhead, NEW w \in Workers, WriteCloud(w)
  PROVE  Accounted' /\ GoalAhead'
<1>1. /\ UNCHANGED <<local, ckpt, mem, batch, upto, goal>>
      /\ pc[w] = "write"
      /\ \A x \in Workers : pc'[x] = IF x = w THEN "advance" ELSE pc[x]
  BY DEF WriteCloud, tableVars, TypeOK
<1>2. Visible' = Visible /\ Present' = Present \cup InBatch(w)
  BY <1>1 DEF Visible, Present, WriteCloud, Upserted, InBatch
<1>3. \A k \in Visible : ~Before(upto[w], local[k]) => k \in Present'
  BY <1>1, <1>2 DEF Accounted
<1>4. Accounted'
  <2>1. PresentUpTo(ckpt)' /\ \A x \in Workers : PresentUpTo(mem[x])'
    BY <1>1, <1>2 DEF Accounted, PresentUpTo
  <2>2. \A x \in Workers : pc'[x] = "advance" => PresentUpTo(upto[x])'
    BY <1>1, <1>2, <1>3 DEF Accounted, PresentUpTo
  <2>3. ASSUME NEW x \in Workers, pc'[x] = "write", NEW k \in Visible',
               ~Before(upto'[x], local'[k])
        PROVE  k \in Present' \cup InBatch(x)'
    BY <1>1, <1>2, <2>3, SameBatch DEF Accounted
  <2>4. QED
    BY <2>1, <2>2, <2>3 DEF Accounted
<1>5. GoalAhead'
  BY <1>1, <1>2, SameBatch DEF GoalAhead
<1>6. QED
  BY <1>4, <1>5

\* The stored position is not beyond the batch, nor beyond what the checkpoint
\* was before, unless it is torn.
LEMMA AdvanceDelivery ==
  ASSUME TypeOK, Accounted, GoalAhead, NEW w \in Workers, Advance(w), ~torn'
  PROVE  Accounted' /\ GoalAhead'
<1>1. /\ UNCHANGED <<local, cloud, mem, batch, upto, goal>>
      /\ pc[w] = "advance"
      /\ \A x \in Workers : pc'[x] = IF x = w THEN "refresh" ELSE pc[x]
      /\ ckpt' \in Rows
      /\ ~Before(upto[w], ckpt') \/ ~Before(ckpt, ckpt')
  BY StoredType DEF Advance, tableVars, TypeOK
<1>2. Visible' = Visible /\ Present' = Present
  BY <1>1 DEF Visible, Present
<1>3. PresentUpTo(upto[w]) /\ PresentUpTo(ckpt)
  BY <1>1 DEF Accounted
<1>4. PresentUpTo(ckpt)'
  <2>1. ASSUME NEW k \in Visible, ~Before(ckpt', local[k])
        PROVE  ~Before(upto[w], local[k]) \/ ~Before(ckpt, local[k])
    <3>1. /\ upto[w] \in Rows /\ ckpt \in Rows /\ local[k] \in Rows
      BY DEF TypeOK, Visible
    <3>2. QED
      BY <1>1, <2>1, <3>1, Order
  <2>2. QED
    BY <1>1, <1>2, <1>3, <2>1 DEF PresentUpTo
<1>5. Accounted'
  <2>1. \A x \in Workers : /\ PresentUpTo(mem[x])'
                           /\ pc'[x] = "advance" => PresentUpTo(upto[x])'
    BY <1>1, <1>2 DEF Accounted, PresentUpTo
  <2>2. QED
    BY <1>1, <1>2, <1>4, <2>1, SameBatch DEF Accounted
<1>6. GoalAhead'
  BY <1>1, <1>2, SameBatch DEF GoalAhead
<1>7. QED
  BY <1>5, <1>6

\* A short batch was the last one: the rows it leaves out are delivered.
LEMMA RefreshDelivery ==
  ASSUME TypeOK, Accounted, GoalAhead, NEW w \in Workers, RefreshCheckpoint(w)
  PROVE  Accounted' /\ GoalAhead'
<1>1. /\ UNCHANGED <<local, cloud, ckpt, goal>>
      /\ pc[w] = "refresh"
      /\ \A x \in Workers : mem'[x] = IF x = w THEN ckpt ELSE mem[x]
      /\ \A x \in Workers : pc'[x] = IF x # w THEN pc[x] ELSE
                                       IF IsShort(w) THEN "project" ELSE "read"
  BY DEF RefreshCheckpoint, tableVars, TypeOK
<1>2. \A x \in Workers \ {w} :
        upto'[x] = upto[x] /\ InBatch(x)' = InBatch(x) /\ IsShort(x)' = IsShort(x)
  BY DEF RefreshCheckpoint, NextRound, TypeOK, InBatch, IsShort
<1>3. Visible' = Visible /\ Present' = Present
  BY <1>1 DEF Visible, Present
<1>4. Accounted'
  BY <1>1, <1>2, <1>3 DEF Accounted, PresentUpTo
<1>5. GoalAhead'
  BY <1>1, <1>2, <1>3 DEF GoalAhead
<1>6. QED
  BY <1>4, <1>5

LEMMA EndDelivery ==
  ASSUME TypeOK, Accounted, GoalAhead, NEW w \in Workers,
         Project(w) \/ Fail(w)
  PROVE  Accounted' /\ GoalAhead'
<1>1. UNCHANGED <<local, cloud, ckpt>> /\ Return(w)
  BY DEF Project, Fail, tableVars
<1>2. /\ pc'[w] = "idle" /\ mem'[w] = NoRow /\ goal'[w] = {}
      /\ \A x \in Workers \ {w} :
           /\ pc'[x] = pc[x] /\ mem'[x] = mem[x] /\ goal'[x] = goal[x]
           /\ upto'[x] = upto[x]
           /\ InBatch(x)' = InBatch(x) /\ IsShort(x)' = IsShort(x)
  BY <1>1 DEF Return, NextRound, TypeOK, InBatch, IsShort
<1>3. Visible' = Visible /\ Present' = Present
  BY <1>1 DEF Visible, Present
<1>4. \A k \in Visible : Before(NoRow, local[k])
  BY DEF Visible, NoRow, Before, TypeOK, Rows
<1>5. Accounted'
  BY <1>1, <1>2, <1>3, <1>4 DEF Accounted, PresentUpTo
<1>6. GoalAhead'
  BY <1>2, <1>3 DEF GoalAhead
<1>7. QED
  BY <1>5, <1>6

LEMMA RepairDelivery ==
  ASSUME TypeOK, Accounted, GoalAhead, RepairCheckpoint
  PROVE  Accounted' /\ GoalAhead'
<1>1. UNCHANGED <<local, cloud, pc, mem, batch, upto, goal>> /\ ckpt' = NoRow
  BY DEF RepairCheckpoint, tableVars, workVars
<1>2. Visible' = Visible /\ Present' = Present
  BY <1>1 DEF Visible, Present
<1>3. \A k \in Visible : Before(NoRow, local[k])
  BY DEF Visible, NoRow, Before, TypeOK, Rows
<1>4. Accounted'
  BY <1>1, <1>2, <1>3, SameBatch DEF Accounted, PresentUpTo
<1>5. GoalAhead'
  BY <1>1, <1>2, SameBatch DEF GoalAhead
<1>6. QED
  BY <1>4, <1>5

LEMMA NextDelivery ==
  ASSUME OneIngester, TypeOK, DeliveryInv, [Next]_vars
  PROVE  DeliveryInv'
<1>1. Bounds' /\ StampsAhead'
  BY NextBounds DEF DeliveryInv
<1>2. torn => torn'
  BY DEF Next, Ingest, Stamp, CommitChunk, SkipChunk, DeleteRow, StartSync,
         SyncStep, ReadBatch, ReadNothing, WriteCloud, Advance,
         RefreshCheckpoint, Project, Fail, RepairCheckpoint, vars
<1>3. ASSUME ~torn'
      PROVE  Accounted' /\ GoalAhead'
  <2>1. Bounds /\ StampsAhead /\ Accounted /\ GoalAhead
    BY <1>2, <1>3 DEF DeliveryInv
  <2>2. ASSUME NEW w \in Workers, StartSync(w) \/ SyncStep(w) \/ Fail(w)
        PROVE  Accounted' /\ GoalAhead'
    BY <1>3, <2>1, <2>2, StartDelivery, ReadBatchDelivery, ReadNothingDelivery,
       WriteDelivery, AdvanceDelivery, RefreshDelivery, EndDelivery
    DEF SyncStep
  <2>3. CASE UNCHANGED vars
    BY <2>1, <2>3 DEF vars, Accounted, PresentUpTo, GoalAhead, Visible, Present,
                      InBatch, IsShort
  <2>4. QED
    BY <2>1, <2>2, <2>3, IngestDelivery, DeleteDelivery, RepairDelivery DEF Next
<1>4. QED
  BY <1>1, <1>3 DEF DeliveryInv

\* With one ingester the delivery invariant holds throughout, whatever the
\* executions, crashes, deletions and repairs.
THEOREM DeliveryInvariant ==
  ASSUME OneIngester
  PROVE  Spec => []DeliveryInv
<1>1. Init => DeliveryInv
  BY InitBounds, InitDelivery DEF DeliveryInv
<1>2. TypeOK /\ DeliveryInv /\ [Next]_vars => DeliveryInv'
  BY NextDelivery
<1>3. QED
  BY <1>1, <1>2, TypeCorrect, PTL DEF Spec

\* No row is ever passed over by the checkpoint before the mirror has it, as
\* long as the two columns of the checkpoint come from one batch.
THEOREM NothingSkipped ==
  ASSUME OneIngester
  PROVE  Spec => []NoSkippedRow
<1>1. DeliveryInv => NoSkippedRow
  BY DEF DeliveryInv, Accounted, PresentUpTo, NoSkippedRow
<1>2. QED
  BY <1>1, DeliveryInvariant, PTL

\* An execution that reaches its end has delivered all it set out to deliver.
THEOREM CompletionDelivers ==
  ASSUME OneIngester
  PROVE  Spec => []CompletedDelivers
<1>1. DeliveryInv => CompletedDelivers
  BY DEF DeliveryInv, GoalAhead, CompletedDelivers
<1>2. QED
  BY <1>1, DeliveryInvariant, PTL

-----------------------------------------------------------------------------
(* The sync of a table implements the contract of its mirror.              *)

Reports == [w \in Workers |-> Report(w)]

LEMMA MirrorInit == Init => Mirror!Init
  BY DEF Init, Empty, NoRow, Mirror!Init, Visible, Present, Claimed, Running,
         Report

LEMMA SameReports ==
  ASSUME outcome' = outcome
  PROVE  Reports' = Reports
  BY DEF Reports, Report

LEMMA IngestMirror ==
  ASSUME TypeOK, Bounds, StampsAhead, NEW i \in Ingesters, Ingest(i)
  PROVE  [Mirror!Next]_Mirror!vars
<1>1. /\ UNCHANGED <<cloud, ckpt, pc, goal, torn>>
      /\ Visible \subseteq Visible'
  BY IngestAhead
<1>2. outcome' = outcome
  BY DEF Ingest, Stamp, CommitChunk, SkipChunk, workVars
<1>3. Present' = Present /\ Running' = Running /\ Reports' = Reports
  BY <1>1, <1>2, SameReports DEF Present, Running
<1>4. Claimed' \subseteq Claimed
  <2>1. ckpt \in Rows /\ InUse(ckpt)
    BY DEF TypeOK, Bounds
  <2>2. QED
    BY <1>1, <2>1, IngestAhead DEF Claimed
<1>5. PICK S \in SUBSET Keys, R \in SUBSET Keys :
        /\ S = (Visible' \ Visible) \cup (Claimed \ Claimed')
        /\ R = Claimed \ Claimed'
  BY DEF Visible, Claimed
<1>6. Claimed \subseteq Visible
  BY DEF Claimed
<1>7. R \subseteq S /\ Visible' = Visible \cup S /\ Claimed' = Claimed \ R
  BY <1>1, <1>4, <1>5, <1>6
<1>8. Mirror!Arrive(S, R)
  BY <1>1, <1>3, <1>7 DEF Mirror!Arrive, Reports
<1>9. QED
  BY <1>8 DEF Mirror!Next

LEMMA DeleteMirror ==
  ASSUME TypeOK, NEW k \in Keys, DeleteRow(k)
  PROVE  [Mirror!Next]_Mirror!vars
<1>1. /\ UNCHANGED <<cloud, ckpt, pc, outcome, torn>>
      /\ k \in Visible
      /\ goal' = [w \in Workers |-> goal[w] \ {k}]
  BY DEF DeleteRow, workVars
<1>2. \A l \in Keys : local'[l] = IF l = k THEN NoRow ELSE local[l]
  BY DEF DeleteRow, TypeOK
<1>3. Visible' = Visible \ {k} /\ \A l \in Visible' : local'[l] = local[l]
  BY <1>2 DEF Visible, NoRow
<1>4. Claimed' = Claimed \ {k}
  BY <1>1, <1>3 DEF Claimed
<1>5. Present' = Present /\ Running' = Running /\ Reports' = Reports
  BY <1>1, SameReports DEF Present, Running
<1>6. Mirror!Withdraw(k)
  BY <1>1, <1>3, <1>4, <1>5 DEF Mirror!Withdraw, Reports
<1>7. QED
  BY <1>6 DEF Mirror!Next

LEMMA SyncMirror ==
  ASSUME TypeOK, DeliveryInv, DeliveryInv', NEW w \in Workers,
         StartSync(w) \/ SyncStep(w) \/ Fail(w)
  PROVE  [Mirror!Next]_Mirror!vars
<1> USE DEF TypeOK
<1>1. UNCHANGED local /\ Visible' = Visible
  BY DEF StartSync, SyncStep, ReadBatch, ReadNothing, WriteCloud, Advance,
         RefreshCheckpoint, Project, Fail, tableVars, Visible
<1>2. CASE StartSync(w)
  <2>1. UNCHANGED <<cloud, ckpt, torn>> /\ goal' = [goal EXCEPT ![w] = Visible]
    BY <1>2 DEF StartSync
  <2>2. Present' = Present /\ Claimed' = Claimed
    BY <1>1, <2>1 DEF Present, Claimed
  <2>3. w \notin Running /\ Running' = Running \cup {w}
    BY <1>2 DEF StartSync, Running
  <2>4. Reports' = [Reports EXCEPT ![w] = "none"]
    BY <1>2 DEF StartSync, Reports, Report
  <2>5. Mirror!Begin(w)
    BY <1>1, <2>1, <2>2, <2>3, <2>4 DEF Mirror!Begin, Reports
  <2>6. QED
    BY <2>5 DEF Mirror!Next
<1>3. CASE ReadBatch(w) \/ ReadNothing(w) \/ RefreshCheckpoint(w)
  <2>1. UNCHANGED <<cloud, ckpt, outcome, goal, torn>> /\ Running' = Running
    BY <1>3 DEF ReadBatch, ReadNothing, RefreshCheckpoint, Running
  <2>2. Present' = Present /\ Claimed' = Claimed /\ Reports' = Reports
    BY <1>1, <2>1, SameReports DEF Present, Claimed
  <2>3. QED
    BY <1>1, <2>1, <2>2 DEF Mirror!vars, Reports
<1>4. CASE WriteCloud(w)
  <2>1. UNCHANGED <<ckpt, outcome, goal, torn>> /\ Running' = Running
    BY <1>4 DEF WriteCloud, Running
  <2>2. Claimed' = Claimed /\ Reports' = Reports
    BY <1>1, <2>1, SameReports DEF Claimed
  <2>3. Present' = Present \cup InBatch(w)
    BY <1>4 DEF WriteCloud, Upserted, InBatch, Present
  <2>4. PICK S \in SUBSET Keys : S = InBatch(w)
    BY DEF InBatch
  <2>5. Mirror!Deliver(S)
    BY <1>1, <2>1, <2>2, <2>3, <2>4 DEF Mirror!Deliver, Reports
  <2>6. QED
    BY <2>5 DEF Mirror!Next
<1>5. CASE Advance(w)
  <2>1. UNCHANGED <<cloud, outcome, goal>> /\ Running' = Running
    BY <1>5 DEF Advance, Running
  <2>2. Present' = Present /\ Reports' = Reports
    BY <2>1, SameReports DEF Present
  <2>3. torn' \in {torn, TRUE}
    BY <1>5 DEF Advance
  <2>4. torn' \/ Claimed' \subseteq Present
    BY <1>1, <2>2 DEF DeliveryInv, Accounted, PresentUpTo, Claimed
  <2>5. Claimed' \subseteq Visible /\ Claimed' \in SUBSET Keys
    BY <1>1 DEF Claimed, Visible
  <2>6. Mirror!Claim(Claimed')
    BY <1>1, <2>1, <2>2, <2>3, <2>4, <2>5 DEF Mirror!Claim, Reports
  <2>7. QED
    BY <2>5, <2>6 DEF Mirror!Next
<1>6. CASE Project(w) \/ Fail(w)
  <2>1. UNCHANGED <<cloud, ckpt, torn>> /\ pc[w] # "idle" /\ Return(w)
    BY <1>6 DEF Project, Fail
  <2>2. w \in Running /\ Running' = Running \ {w}
    BY <2>1 DEF Return, Running
  <2>3. goal' = [goal EXCEPT ![w] = {}]
    BY <2>1 DEF Return
  <2>4. Present' = Present /\ Claimed' = Claimed
    BY <1>1, <2>1 DEF Present, Claimed
  <2>5. CASE Project(w)
    <3>1. torn \/ goal[w] \subseteq Present
      BY <2>5 DEF Project, DeliveryInv, GoalAhead
    <3>2. Reports' = [Reports EXCEPT ![w] = "completed"]
      BY <2>5 DEF Project, Reports, Report
    <3>3. Mirror!Complete(w)
      BY <1>1, <2>1, <2>2, <2>3, <2>4, <3>1, <3>2 DEF Mirror!Complete, Reports
    <3>4. QED
      BY <3>3 DEF Mirror!Next
  <2>6. CASE Fail(w)
    <3>1. Reports' = [Reports EXCEPT ![w] = "failed"]
      BY <2>6 DEF Fail, Reports, Report
    <3>2. Mirror!GiveUp(w)
      BY <1>1, <2>1, <2>2, <2>3, <2>4, <3>1 DEF Mirror!GiveUp, Reports
    <3>3. QED
      BY <3>2 DEF Mirror!Next
  <2>7. QED
    BY <1>6, <2>5, <2>6
<1>7. QED
  BY <1>2, <1>3, <1>4, <1>5, <1>6 DEF SyncStep

LEMMA RepairMirror ==
  ASSUME RepairCheckpoint, TypeOK
  PROVE  [Mirror!Next]_Mirror!vars
<1>1. UNCHANGED <<local, cloud, pc, outcome, goal, torn>> /\ ckpt' = NoRow
  BY DEF RepairCheckpoint, tableVars, workVars
<1>2. /\ Visible' = Visible
      /\ Present' = Present
      /\ Running' = Running
      /\ Reports' = Reports
  BY <1>1, SameReports DEF Visible, Present, Running
<1>3. \A k \in Visible : Before(NoRow, local[k])
  BY DEF Visible, NoRow, Before, TypeOK, Rows
<1>4. Claimed' = {}
  BY <1>1, <1>2, <1>3 DEF Claimed
<1>5. Mirror!Claim({})
  BY <1>1, <1>2, <1>4 DEF Mirror!Claim, Reports
<1>6. QED
  BY <1>5 DEF Mirror!Next

\* Every step of the sync is a step of the contract CloudMirror states, or a
\* stutter: rows are claimed only when present, success means delivery.
THEOREM MirrorContract ==
  ASSUME OneIngester
  PROVE  Spec => ImplementsMirror
<1>1. TypeOK /\ DeliveryInv /\ [Next]_vars => [Mirror!Next]_Mirror!vars
  <2> SUFFICES ASSUME TypeOK, DeliveryInv, [Next]_vars
               PROVE  [Mirror!Next]_Mirror!vars
    OBVIOUS
  <2>1. CASE UNCHANGED vars
    BY <2>1 DEF vars, Mirror!vars, Visible, Present, Claimed, Running, Report
  <2>2. DeliveryInv'
    BY NextDelivery
  <2>3. Bounds /\ StampsAhead
    BY DEF DeliveryInv
  <2>4. QED
    BY <2>1, <2>2, <2>3, IngestMirror, DeleteMirror, SyncMirror, RepairMirror
    DEF Next
<1>2. QED
  BY <1>1, MirrorInit, TypeCorrect, DeliveryInvariant, PTL
  DEF Spec, ImplementsMirror, Mirror!Spec

-----------------------------------------------------------------------------
(* One execution at a time: what a checkpoint may become.                  *)

LEMMA InitHeld == Init => Held /\ ~torn
  BY DEF Init, Held

\* With the checkpoint the execution loaded, both columns come to hold the
\* batch's end; after a repair they may come to hold less, never more.
LEMMA HeldAdvance ==
  ASSUME TypeOK, Held, NEW w \in Workers, Advance(w)
  PROVE  /\ ~Before(upto[w], ckpt')
         /\ ~Before(ckpt', ckpt)
<1>1. /\ pc[w] = "advance" /\ ckpt' \in Stored(w)
  BY DEF Advance
<1>2. ckpt \in {mem[w], NoRow} /\ Before(mem[w], upto[w])
  BY <1>1 DEF Held
<1>3. mem[w] \in Rows /\ upto[w] \in Rows /\ ckpt \in Rows /\ ckpt' \in Rows
  BY <1>1, StoredType DEF TypeOK
<1>4. PICK t \in {upto[w].at, ckpt.at} :
        /\ mem[w].at # upto[w].at => t = upto[w].at
        /\ ckpt' = [at |-> t,
                    id |-> IF mem[w].id # upto[w].id THEN upto[w].id ELSE ckpt.id]
  BY <1>1 DEF Stored
<1>5. ckpt'.at = t /\ ckpt'.id = IF mem[w].id # upto[w].id THEN upto[w].id
                                                           ELSE ckpt.id
  BY <1>4
<1>6. CASE ckpt = mem[w]
  <2>1. ckpt'.at = upto[w].at /\ ckpt'.id = upto[w].id
    BY <1>4, <1>5, <1>6
  <2>2. QED
    BY <1>2, <1>3, <1>6, <2>1 DEF Before, Rows
<1>7. CASE ckpt = NoRow
  <2>1. ckpt.at = 0 /\ ckpt.id = 0
    BY <1>7 DEF NoRow
  <2>2. ckpt'.at \in {upto[w].at, 0} /\ ckpt'.id \in {upto[w].id, 0}
    BY <1>4, <1>5, <2>1
  <2>3. QED
    BY <1>3, <2>1, <2>2 DEF Before, Rows
<1>8. QED
  BY <1>2, <1>6, <1>7

LEMMA SyncHeld ==
  ASSUME OneWorker, TypeOK, Held, NEW w \in Workers,
         StartSync(w) \/ SyncStep(w) \/ Fail(w)
  PROVE  Held' /\ ~Before(ckpt', ckpt) /\ (~torn => ~torn')
<1> USE DEF TypeOK
<1>1. \A x \in Workers : x = w
  BY DEF OneWorker
<1>2. ~Before(ckpt, ckpt)
  BY Order
<1>3. CASE StartSync(w)
  BY <1>1, <1>2, <1>3 DEF StartSync, Held
<1>4. CASE ReadBatch(w)
  <2>1. PICK p \in {local[k] : k \in Newer(mem[w])} :
          upto' = [upto EXCEPT ![w] = p]
    BY <1>4 DEF ReadBatch
  <2>2. UNCHANGED <<ckpt, mem, torn>> /\ pc[w] = "read" /\ pc'[w] = "write"
    BY <1>4 DEF ReadBatch
  <2>3. Before(mem[w], p) /\ upto'[w] = p
    BY <2>1 DEF Newer
  <2>4. QED
    BY <1>1, <1>2, <2>2, <2>3 DEF Held
<1>5. CASE WriteCloud(w)
  BY <1>1, <1>2, <1>5 DEF WriteCloud, Held
<1>6. CASE Advance(w)
  <2>1. ~Before(ckpt', ckpt) /\ ~Before(upto[w], ckpt')
    BY <1>6, HeldAdvance
  <2>2. pc'[w] = "refresh" /\ (~torn => ~torn')
    BY <1>6, <2>1 DEF Advance
  <2>3. QED
    BY <1>1, <2>1, <2>2 DEF Held
<1>7. CASE RefreshCheckpoint(w)
  BY <1>1, <1>2, <1>7 DEF RefreshCheckpoint, Held
<1>8. CASE ReadNothing(w) \/ Project(w) \/ Fail(w)
  <2>1. UNCHANGED <<ckpt, torn>> /\ pc'[w] \in {"project", "idle"}
    BY <1>8 DEF ReadNothing, Project, Fail, Return
  <2>2. QED
    BY <1>1, <1>2, <2>1 DEF Held
<1>9. QED
  BY <1>3, <1>4, <1>5, <1>6, <1>7, <1>8 DEF SyncStep

LEMMA NextHeld ==
  ASSUME OneWorker, TypeOK, Held, [Next]_vars
  PROVE  /\ Held'
         /\ ~Before(ckpt', ckpt) \/ repairs' = repairs + 1
         /\ ~torn => ~torn'
<1>1. CASE UNCHANGED <<ckpt, pc, mem, upto, torn>>
  BY <1>1, Order DEF Held, TypeOK
<1>2. CASE \E i \in Ingesters : Ingest(i)
  BY <1>1, <1>2 DEF Ingest, Stamp, CommitChunk, SkipChunk, workVars
<1>3. CASE \E k \in Keys : DeleteRow(k)
  BY <1>1, <1>3 DEF DeleteRow, workVars
<1>4. CASE RepairCheckpoint
  BY <1>4 DEF RepairCheckpoint, workVars, Held
<1>5. CASE UNCHANGED vars
  BY <1>1, <1>5 DEF vars
<1>6. QED
  BY <1>2, <1>3, <1>4, <1>5, SyncHeld DEF Next

\* With one execution at a time, and any number of ingesters, progress is lost
\* to a repair only: no failure, restart or old reading moves the checkpoint
\* back.
THEOREM OnlyRepairMovesBack ==
  ASSUME OneWorker
  PROVE  Spec => OnlyRepairRegresses
<1>1. TypeOK /\ Held /\ [Next]_vars => Held'
  BY NextHeld
<1>2. TypeOK /\ Held /\ [Next]_vars
        => [Before(ckpt', ckpt) => repairs' = repairs + 1]_vars
  BY NextHeld
<1>3. Init => Held
  BY InitHeld
<1>4. QED
  BY <1>1, <1>2, <1>3, TypeCorrect, PTL DEF Spec, OnlyRepairRegresses

\* One execution at a time never stores a position it has not reached, repairs
\* under its feet included: the exception of NoSkippedRow is one of two.
THEOREM NeverTorn ==
  ASSUME OneWorker
  PROVE  Spec => []~torn
<1>1. TypeOK /\ (Held /\ ~torn) /\ [Next]_vars => (Held /\ ~torn)'
  BY NextHeld
<1>2. QED
  BY <1>1, InitHeld, TypeCorrect, PTL DEF Spec

-----------------------------------------------------------------------------
(* One execution at a time: the mirror is current up to the checkpoint.    *)

LEMMA InitFresh == Init => FreshInv
  BY DEF Init, Empty, NoRow, Visible, FreshInv, FreshUpTo

LEMMA IngestFresh ==
  ASSUME TypeOK, Bounds, StampsAhead, FreshInv, NEW i \in Ingesters, Ingest(i)
  PROVE  FreshInv'
<1> SUFFICES ASSUME ~tied'
             PROVE  FreshInv'
  BY DEF FreshInv
<1>1. ~tied /\ UNCHANGED <<cloud, ckpt, pc, mem, batch, upto>>
  BY IngestAhead
<1>2. /\ ckpt \in Rows /\ InUse(ckpt)
      /\ \A w \in Workers : /\ mem[w] \in Rows /\ InUse(mem[w])
                            /\ upto[w] \in Rows /\ InUse(upto[w])
  BY DEF TypeOK, Bounds
<1>3. \A p \in Rows, k \in Visible' : InUse(p) /\ ~Before(p, local'[k]) =>
        k \in Visible /\ ~Before(p, local[k]) /\ local'[k] = local[k]
  BY IngestAhead
<1>4. \A p \in Rows : InUse(p) /\ FreshUpTo(p) =>
        \A k \in Visible' : ~Before(p, local'[k]) => cloud[k] = local'[k]
  BY <1>3 DEF FreshUpTo
<1>5. FreshUpTo(ckpt)'
  BY <1>1, <1>2, <1>4 DEF FreshInv, FreshUpTo
<1>6. ASSUME NEW w \in Workers
      PROVE  /\ FreshUpTo(mem[w])'
             /\ pc'[w] = "advance" => FreshUpTo(upto[w])'
  BY <1>1, <1>2, <1>4 DEF FreshInv, FreshUpTo
<1>7. ASSUME NEW w \in Workers, pc'[w] = "write", NEW k \in Visible',
             ~Before(upto'[w], local'[k])
      PROVE  \/ batch'[w][k] = local'[k]
             \/ k \notin InBatch(w)' /\ cloud'[k] = local'[k]
  <2>1. k \in Visible /\ ~Before(upto[w], local[k]) /\ local'[k] = local[k]
    BY <1>1, <1>2, <1>3, <1>7
  <2>2. QED
    BY <1>1, <1>7, <2>1, SameBatch DEF FreshInv
<1>8. QED
  BY <1>5, <1>6, <1>7 DEF FreshInv

LEMMA DeleteFresh ==
  ASSUME TypeOK, FreshInv, NEW k \in Keys, DeleteRow(k)
  PROVE  FreshInv'
<1>1. \A l \in Keys : local'[l] = IF l = k THEN NoRow ELSE local[l]
  BY DEF DeleteRow, TypeOK
<1>2. UNCHANGED <<cloud, ckpt, pc, mem, batch, upto, tied>>
  BY DEF DeleteRow, workVars
<1>3. Visible' \subseteq Visible /\ \A l \in Visible' : local'[l] = local[l]
  BY <1>1 DEF Visible, NoRow
<1>4. QED
  BY <1>2, <1>3, SameBatch DEF FreshInv, FreshUpTo

LEMMA SyncFresh ==
  ASSUME OneWorker, TypeOK, Held, FreshInv, NEW w \in Workers,
         StartSync(w) \/ SyncStep(w) \/ Fail(w)
  PROVE  FreshInv'
<1> SUFFICES ASSUME ~tied'
             PROVE  FreshInv'
  BY DEF FreshInv
<1> USE DEF TypeOK
<1>1. \A x \in Workers : x = w
  BY DEF OneWorker
<1>2. UNCHANGED <<local, tied>> /\ Visible' = Visible
  BY DEF StartSync, SyncStep, ReadBatch, ReadNothing, WriteCloud, Advance,
         RefreshCheckpoint, Project, Fail, tableVars, Visible
<1>3. FreshUpTo(ckpt) /\ FreshUpTo(mem[w])
  BY <1>2 DEF FreshInv
<1>4. FreshUpTo(NoRow)
  BY DEF FreshUpTo, Visible, NoRow, Before, Rows
<1>5. CASE StartSync(w)
  BY <1>1, <1>2, <1>3, <1>5 DEF StartSync, FreshInv, FreshUpTo
<1>6. CASE ReadBatch(w)
  <2>1. PICK p \in {local[k] : k \in Newer(mem[w])} :
          /\ upto' = [upto EXCEPT ![w] = p]
          /\ batch' = [batch EXCEPT ![w] =
            [k \in Keys |-> IF k \in Prefix(mem[w], p) THEN local[k] ELSE NoRow]]
    BY <1>6 DEF ReadBatch
  <2>2. UNCHANGED <<cloud, ckpt, mem>> /\ pc'[w] = "write" /\ upto'[w] = p
    BY <1>6, <2>1 DEF ReadBatch
  <2>3. \A k \in Keys : batch'[w][k] = IF k \in Prefix(mem[w], p) THEN local[k]
                                                                 ELSE NoRow
    BY <2>1
  <2>4. ASSUME NEW k \in Visible, ~Before(p, local[k])
        PROVE  \/ batch'[w][k] = local[k]
               \/ k \notin InBatch(w)' /\ cloud[k] = local[k]
    <3>1. CASE Before(mem[w], local[k])
      BY <2>3, <2>4, <3>1 DEF Prefix, Newer, Visible
    <3>2. CASE ~Before(mem[w], local[k])
      BY <1>3, <2>3, <3>2 DEF FreshUpTo, InBatch, NoRow, Prefix, Newer, Visible
    <3>3. QED
      BY <3>1, <3>2
  <2>5. QED
    BY <1>1, <1>2, <1>3, <2>2, <2>4 DEF FreshInv, FreshUpTo
<1>7. CASE WriteCloud(w)
  <2>1. /\ UNCHANGED <<ckpt, mem, batch, upto>>
        /\ pc[w] = "write" /\ pc'[w] = "advance"
    BY <1>7 DEF WriteCloud
  <2>2. \A k \in Keys : cloud'[k] = IF k \in InBatch(w) THEN batch[w][k]
                                                        ELSE cloud[k]
    BY <1>7 DEF WriteCloud, Upserted
  <2>3. \A k \in Visible : batch[w][k] = local[k] => k \in InBatch(w)
    BY DEF Visible, InBatch
  <2>4. ASSUME NEW k \in Visible, ~Before(upto[w], local[k])
        PROVE  cloud'[k] = local[k]
    BY <1>2, <2>1, <2>2, <2>3, <2>4 DEF FreshInv, Visible
  <2>5. ckpt \in {mem[w], NoRow} /\ Before(mem[w], upto[w])
    BY <2>1 DEF Held
  <2>6. ASSUME NEW p \in {mem[w], NoRow}, NEW k \in Visible, ~Before(p, local[k])
        PROVE  cloud'[k] = local[k]
    <3>1. ~Before(mem[w], local[k])
      BY <2>6 DEF Visible, NoRow, Before, Rows
    <3>2. ~Before(upto[w], local[k])
      <4>1. mem[w] \in Rows /\ upto[w] \in Rows /\ local[k] \in Rows
        BY DEF Visible
      <4>2. QED
        BY <2>5, <3>1, <4>1, Order
    <3>3. QED
      BY <2>4, <3>2
  <2>7. QED
    BY <1>1, <1>2, <2>1, <2>4, <2>5, <2>6 DEF FreshInv, FreshUpTo
<1>8. CASE Advance(w)
  <2>1. /\ UNCHANGED <<cloud, mem, upto>>
        /\ pc[w] = "advance" /\ pc'[w] = "refresh"
        /\ ~Before(upto[w], ckpt') /\ ckpt' \in Rows
    BY <1>8, HeldAdvance, StoredType DEF Advance
  <2>2. FreshUpTo(upto[w])
    BY <1>2, <2>1 DEF FreshInv
  <2>3. ASSUME NEW k \in Visible, ~Before(ckpt', local[k])
        PROVE  cloud[k] = local[k]
    <3>1. upto[w] \in Rows /\ local[k] \in Rows
      BY DEF Visible
    <3>2. ~Before(upto[w], local[k])
      BY <2>1, <2>3, <3>1, Order
    <3>3. QED
      BY <2>2, <3>2 DEF FreshUpTo
  <2>4. QED
    BY <1>1, <1>2, <1>3, <2>1, <2>3 DEF FreshInv, FreshUpTo
<1>9. CASE RefreshCheckpoint(w)
  <2>1. UNCHANGED <<cloud, ckpt>> /\ mem'[w] = ckpt /\ pc'[w] \in {"project", "read"}
    BY <1>9 DEF RefreshCheckpoint
  <2>2. QED
    BY <1>1, <1>2, <1>3, <2>1 DEF FreshInv, FreshUpTo
<1>10. CASE ReadNothing(w) \/ Project(w) \/ Fail(w)
  <2>1. /\ UNCHANGED <<cloud, ckpt>>
        /\ mem'[w] \in {mem[w], NoRow}
        /\ pc'[w] \in {"project", "idle"}
    BY <1>10 DEF ReadNothing, Project, Fail, Return
  <2>2. QED
    BY <1>1, <1>2, <1>3, <1>4, <2>1 DEF FreshInv, FreshUpTo
<1>11. QED
  BY <1>5, <1>6, <1>7, <1>8, <1>9, <1>10 DEF SyncStep

LEMMA NextFresh ==
  ASSUME OneWorker, TypeOK, DeliveryInv, Held, FreshInv, [Next]_vars
  PROVE  FreshInv'
<1>1. CASE RepairCheckpoint
  <2>1. /\ UNCHANGED <<local, cloud, pc, mem, batch, upto, tied>>
        /\ ckpt' = NoRow
    BY <1>1 DEF RepairCheckpoint, tableVars, workVars
  <2>2. \A k \in Visible : Before(NoRow, local[k])
    BY DEF Visible, NoRow, Before, TypeOK, Rows
  <2>3. Visible' = Visible
    BY <2>1 DEF Visible
  <2>4. QED
    BY <2>1, <2>2, <2>3, SameBatch DEF FreshInv, FreshUpTo
<1>2. CASE UNCHANGED vars
  BY <1>2 DEF vars, FreshInv, FreshUpTo, Visible, InBatch
<1>3. Bounds /\ StampsAhead
  BY DEF DeliveryInv
<1>4. QED
  BY <1>1, <1>2, <1>3, IngestFresh, DeleteFresh, SyncFresh DEF Next

\* With one ingester and one execution at a time, the mirror carries the
\* current version of every row up to the checkpoint, as long as no row has
\* been updated at a timestamp that was committed before.
THEOREM MirrorFresh ==
  ASSUME OneIngester, OneWorker
  PROVE  Spec => []CheckpointFresh
<1>1. TypeOK /\ DeliveryInv /\ (Held /\ FreshInv) /\ [Next]_vars
        => (Held /\ FreshInv)'
  BY NextHeld, NextFresh
<1>2. FreshInv => CheckpointFresh
  BY DEF FreshInv, FreshUpTo, CheckpointFresh
<1>3. Init => Held /\ FreshInv
  BY InitHeld, InitFresh
<1>4. QED
  BY <1>1, <1>2, <1>3, TypeCorrect, DeliveryInvariant, PTL DEF Spec

\* A table the console calls caught up is current in the mirror, ties excepted.
THEOREM CaughtUpMeansCurrent ==
  ASSUME OneIngester, OneWorker
  PROVE  Spec => []CaughtUpIsCurrent
<1>1. CheckpointFresh => CaughtUpIsCurrent
  BY DEF NeedsCatchUp, CheckpointFresh, CaughtUpIsCurrent
<1>2. QED
  BY <1>1, MirrorFresh, PTL
=============================================================================
