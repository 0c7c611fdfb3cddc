------------------------ MODULE InventorySumsProofs -------------------------
(***************************************************************************)
(* Theorems about what the columns of InventoryLayers add up to: the       *)
(* consumption rows and the ledger, the layers and the balance page.       *)
(***************************************************************************)
EXTENDS InventoryLayersProofs, SumsProofs

USE DEF LayerIds, Docs

-----------------------------------------------------------------------------
(* The inductive invariant, on top of IInv.                                *)

\* An order is in one place of a batch: still to come, in hand or posted; an
\* opening balance is one a caller may state.
InHandOf(p) ==
  /\ pc[p] = "opening" => need[p] \in Quantities
  /\ pc[p] = "receive" => doc[p] \notin Outbound
  /\ todo[p] \cap wrote[p] = {}
  /\ pc[p] \in {"read", "take"} => doc[p] \notin todo[p] \cup wrote[p]

\* What is planned and what is still needed make up the document.
PlannedOf(p) ==
  pc[p] = "take" => SumOf(plan[p], LayerIds) + need[p] = OutQty(doc[p])

\* What a batch has taken is what its posted orders sold.
Uncommitted(p) == [d \in Outbound |-> IF d \in wrote[p] THEN OutQty(d) ELSE 0]
HeldOf(p) == SumOf(held[p], LayerIds) = SumOf(Uncommitted(p), Outbound)

Hands == \A p \in Posters : InHandOf(p) /\ PlannedOf(p) /\ HeldOf(p)

\* Each opening balance has a layer of its own, of its quantity.
Openings ==
  /\ \A t \in Periods : t \notin Opened => opening[t] = 0
  /\ \A t, u \in Opened : layerOf[t] = layerOf[u] => t = u
  /\ reset = {} => \A t \in Opened : orig[layerOf[t]] = opening[t]

\* What the layers started with came from opening balances and the ledger.
Origins ==
  reset = {} =>
    SumOf(orig, LayerIds) = SumOf(opening, Periods) + SumOf(BroughtIn, Inbound)

SumInv == Hands /\ ConsumptionMatchesLedger /\ Openings /\ Origins

-----------------------------------------------------------------------------
(* Facts about the columns.                                                *)

LEMMA RowsFinite ==
  /\ IsFiniteSet(LayerIds) /\ IsFiniteSet(Outbound) /\ IsFiniteSet(Inbound)
  /\ IsFiniteSet(Periods)
<1>1. IsFiniteSet(LayerIds)
  BY StockConstants, FS_Interval
<1>2. Outbound \in SUBSET Docs /\ Inbound \in SUBSET Docs
  BY DEF Outbound, Inbound
<1>3. QED
  BY <1>1, <1>2, StockFinite, FS_Subset

LEMMA LedgerColumns ==
  ASSUME TypeOK
  PROVE  /\ \A d \in Outbound : SentOut[d] \in Int
         /\ \A d \in Inbound : BroughtIn[d] \in Int
<1>1. \A d \in Docs : posted[d] \in Int /\ QtyOf[d] \in Int /\ OutQty(d) \in Int
  BY StockConstants, OutQtyPositive DEF TypeOK
<1>2. \A d \in Docs : posted[d] * QtyOf[d] \in Int /\ posted[d] * OutQty(d) \in Int
  BY <1>1
<1>3. Outbound \subseteq Docs /\ Inbound \subseteq Docs
  BY DEF Outbound, Inbound
<1>4. QED
  BY <1>2, <1>3 DEF SentOut, BroughtIn

LEMMA LayerColumns ==
  ASSUME TypeOK, NEW p \in Posters
  PROVE  /\ \A l \in LayerIds : rem[l] \in Int /\ orig[l] \in Int /\ consumed[l] \in Int
         /\ \A l \in LayerIds : held[p][l] \in Int /\ plan[p][l] \in Int
BY Cells

LEMMA OnceMore == \A n \in Nat, q \in Int : (n + 1) * q = n * q + q /\ n * q \in Int
OBVIOUS

LEMMA NothingTaken == SumOf(Nothing, LayerIds) = 0
<1>1. \A l \in LayerIds : Nothing[l] = 0
  BY DEF Nothing
<1>2. QED
  BY <1>1, RowsFinite, SumZero

\* One more ledger row for a document.
LEMMA PostOne ==
  ASSUME TypeOK, NEW d \in Docs, posted' = [posted EXCEPT ![d] = @ + 1]
  PROVE  /\ SumOf(SentOut', Outbound)
              = SumOf(SentOut, Outbound) + IF d \in Outbound THEN OutQty(d) ELSE 0
         /\ SumOf(BroughtIn', Inbound)
              = SumOf(BroughtIn, Inbound) + IF d \in Inbound THEN QtyOf[d] ELSE 0
<1>1. /\ posted' \in [Docs -> Nat] /\ posted[d] \in Nat
      /\ \A e \in Docs : posted'[e] = IF e = d THEN posted[e] + 1 ELSE posted[e]
  BY DEF TypeOK
<1>2. OutQty(d) \in Int /\ QtyOf[d] \in Int
  BY StockConstants, OutQtyPositive
<1>3. Outbound \subseteq Docs /\ Inbound \subseteq Docs
  BY DEF Outbound, Inbound
<1>4. /\ (posted[d] + 1) * OutQty(d) = posted[d] * OutQty(d) + OutQty(d)
      /\ (posted[d] + 1) * QtyOf[d] = posted[d] * QtyOf[d] + QtyOf[d]
      /\ posted[d] * OutQty(d) \in Int /\ posted[d] * QtyOf[d] \in Int
  <2>1. \A q \in Int : (posted[d] + 1) * q = posted[d] * q + q /\ posted[d] * q \in Int
    BY <1>1, OnceMore, Zenon
  <2>2. QED
    BY <1>2, <2>1, Zenon
<1>5. /\ \A e \in Outbound \ {d} : SentOut'[e] = SentOut[e]
      /\ \A e \in Inbound \ {d} : BroughtIn'[e] = BroughtIn[e]
  BY <1>1, <1>3 DEF SentOut, BroughtIn
<1>6. /\ d \in Outbound => SentOut'[d] = SentOut[d] + OutQty(d)
      /\ d \in Inbound => BroughtIn'[d] = BroughtIn[d] + QtyOf[d]
  BY <1>1, <1>4 DEF SentOut, BroughtIn
<1>7. /\ \A e \in Outbound : SentOut[e] \in Int
      /\ \A e \in Inbound : BroughtIn[e] \in Int
  BY LedgerColumns
<1>8. /\ \A e \in Outbound : SentOut'[e] \in Int
      /\ \A e \in Inbound : BroughtIn'[e] \in Int
  BY <1>2, <1>5, <1>6, <1>7
<1>9. SumOf(SentOut, Outbound) \in Int /\ SumOf(BroughtIn, Inbound) \in Int
  BY <1>7, RowsFinite, SumInt
<1>10. CASE d \in Outbound
  <2>1. SumOf(SentOut', Outbound)
          = SumOf(SentOut, Outbound) - SentOut[d] + SentOut'[d]
    BY <1>5, <1>7, <1>8, <1>10, RowsFinite, SumChange
  <2>2. d \notin Inbound
    BY <1>10, KindsDisjoint, StockConstants DEF Inbound, Outbound
  <2>3. SumOf(BroughtIn', Inbound) = SumOf(BroughtIn, Inbound)
    BY <1>5, <2>2, RowsFinite, SumSame
  <2>4. QED
    BY <1>2, <1>6, <1>7, <1>9, <1>10, <2>1, <2>2, <2>3
<1>11. CASE d \notin Outbound
  <2>1. SumOf(SentOut', Outbound) = SumOf(SentOut, Outbound)
    BY <1>5, <1>11, RowsFinite, SumSame
  <2>2. CASE d \in Inbound
    <3>1. SumOf(BroughtIn', Inbound)
            = SumOf(BroughtIn, Inbound) - BroughtIn[d] + BroughtIn'[d]
      BY <1>5, <1>7, <1>8, <2>2, RowsFinite, SumChange
    <3>2. QED
      BY <1>2, <1>6, <1>7, <1>9, <1>11, <2>1, <2>2, <3>1
  <2>3. CASE d \notin Inbound
    <3>1. SumOf(BroughtIn', Inbound) = SumOf(BroughtIn, Inbound)
      BY <1>5, <2>3, RowsFinite, SumSame
    <3>2. QED
      BY <1>9, <1>11, <2>1, <2>3, <3>1
  <2>4. QED
    BY <2>2, <2>3
<1>12. QED
  BY <1>10, <1>11

-----------------------------------------------------------------------------
(* Where an order is.                                                      *)

LEMMA OtherBatches ==
  ASSUME TypeOK, NEW p \in Posters, NEW q \in Posters \ {p}, Step(p)
  PROVE  todo'[q] = todo[q]
<1>l. Leave(p) => todo'[q] = todo[q]
  BY LeaveEffect
<1>1. ASSUME NEW s \in SUBSET Orders, BeginBatch(p, s) PROVE todo'[q] = todo[q]
  BY <1>1 DEF BeginBatch, TypeOK
<1>2. ASSUME NEW d \in Orders, CheckOrder(p, d) PROVE todo'[q] = todo[q]
  BY <1>2 DEF CheckOrder, TypeOK
<1>3. QED
  BY <1>l, <1>1, <1>2
  DEF Step, PostGrn, PostAdjustment, Receive, ReadLayers, TakeLayer, NotEnough,
      WriteAdjustment, WriteSale, CommitBatch, LoadOpening, CreateOpening,
      LoseOpening, CorrectOpening, Abort

LEMMA InHandStep ==
  ASSUME IInv, SumInv, NEW p \in Posters, Step(p)
  PROVE  InHandOf(p)'
<1>t. TypeOK /\ PhaseOf(p) /\ InHandOf(p)
  BY DEF IInv, Phase, SumInv, Hands
<1>l. Leave(p) => InHandOf(p)'
  BY <1>t, LeaveEffect DEF InHandOf
<1>s. ASSUME NEW l \in LayerIds, TakeLayer(p, l) PROVE InHandOf(p)'
  <2>1. /\ pc' = pc /\ doc' = doc /\ todo' = todo /\ wrote' = wrote
        /\ pc[p] # "opening"
    BY <1>s DEF TakeLayer
  <2>2. QED
    BY <1>t, <2>1 DEF InHandOf
<1>1. ASSUME NEW d \in Grns, PostGrn(p, d) PROVE InHandOf(p)'
  <2>1. d \notin Outbound
    BY KindsDisjoint DEF Outbound
  <2>2. pc'[p] = "receive" /\ doc'[p] = d /\ todo' = todo /\ wrote' = wrote
    BY <1>t, <1>1 DEF PostGrn, Take, TypeOK
  <2>3. QED
    BY <1>t, <2>1, <2>2 DEF InHandOf
<1>2. ASSUME NEW d \in Adjustments, PostAdjustment(p, d) PROVE InHandOf(p)'
  <2>1. /\ pc'[p] = IF QtyOf[d] < 0 THEN "read" ELSE "receive"
        /\ doc'[p] = d /\ todo' = todo /\ wrote' = wrote
    BY <1>t, <1>2 DEF PostAdjustment, Take, TypeOK
  <2>2. d \notin Orders /\ (~(QtyOf[d] < 0) => d \notin Outbound)
    BY KindsDisjoint DEF Outbound
  <2>3. todo[p] \subseteq Orders /\ wrote[p] \subseteq Orders
    BY <1>t DEF TypeOK
  <2>4. QED
    BY <1>t, <2>1, <2>2, <2>3 DEF InHandOf
<1>3. CASE ReadLayers(p)
  BY <1>t, <1>3 DEF ReadLayers, InHandOf, TypeOK
<1>4. ASSUME NEW s \in SUBSET Orders, BeginBatch(p, s) PROVE InHandOf(p)'
  <2>1. wrote[p] = {}
    BY <1>t, <1>4 DEF BeginBatch, PhaseOf
  <2>2. pc'[p] = "batch" /\ wrote' = wrote
    BY <1>t, <1>4 DEF BeginBatch, TypeOK
  <2>3. QED
    BY <2>1, <2>2 DEF InHandOf
<1>5. ASSUME NEW d \in Orders, CheckOrder(p, d) PROVE InHandOf(p)'
  <2>1. /\ todo'[p] = todo[p] \ {d} /\ wrote' = wrote /\ d \in todo[p]
        /\ d \notin wrote[p] /\ pc[p] = "batch"
    BY <1>t, <1>5 DEF CheckOrder, InHandOf, TypeOK
  <2>2. CASE Unposted(d)
    <3>1. pc'[p] = "read" /\ doc'[p] = d
      BY <1>t, <1>5, <2>2 DEF CheckOrder, Take, TypeOK
    <3>2. QED
      BY <1>t, <2>1, <3>1 DEF InHandOf
  <2>3. CASE ~Unposted(d)
    <3>1. pc' = pc
      BY <1>5, <2>3 DEF CheckOrder
    <3>2. QED
      BY <1>t, <2>1, <3>1 DEF InHandOf
  <2>4. QED
    BY <2>2, <2>3
<1>6. CASE WriteSale(p)
  <2>1. /\ pc'[p] = "batch" /\ todo' = todo
        /\ wrote'[p] = wrote[p] \cup {doc[p]} /\ pc[p] = "take"
    BY <1>t, <1>6 DEF WriteSale, CanWrite, TypeOK
  <2>2. QED
    BY <1>t, <2>1 DEF InHandOf
<1>7. ASSUME NEW t \in Periods, NEW n \in Quantities, LoadOpening(p, t, n)
      PROVE  InHandOf(p)'
  <2>1. /\ pc'[p] = "opening" /\ todo' = todo /\ wrote' = wrote
        /\ need'[p] \in Quantities
    BY <1>t, <1>7 DEF LoadOpening, TypeOK
  <2>2. QED
    BY <1>t, <2>1 DEF InHandOf
<1>8. QED
  BY <1>l, <1>s, <1>1, <1>2, <1>3, <1>4, <1>5, <1>6, <1>7
  DEF Step, Receive, NotEnough, WriteAdjustment, CommitBatch,
      CreateOpening, LoseOpening, CorrectOpening, Abort

-----------------------------------------------------------------------------
(* What is planned and what is held.                                       *)

LEMMA PlannedStep ==
  ASSUME IInv, SumInv, NEW p \in Posters, Step(p)
  PROVE  PlannedOf(p)'
<1>t. TypeOK /\ PhaseOf(p) /\ PlannedOf(p)
  BY DEF IInv, Phase, SumInv, Hands
<1>1. CASE ReadLayers(p)
  <2>1. /\ plan'[p] = Nothing /\ need'[p] = OutQty(doc[p]) /\ doc' = doc
        /\ doc[p] \in Outbound
    BY <1>t, <1>1 DEF ReadLayers, PhaseOf, TypeOK
  <2>2. SumOf(Nothing, LayerIds) = 0
    BY NothingTaken
  <2>3. OutQty(doc[p]) \in Int
    BY <2>1, OutQtyPositive DEF Outbound
  <2>4. QED
    BY <2>1, <2>2, <2>3 DEF PlannedOf, OutQty
<1>2. ASSUME NEW l \in LayerIds, TakeLayer(p, l) PROVE PlannedOf(p)'
  <2> DEFINE n == Less(snap[p][l], need[p])
  <2>1. n \in Nat /\ need[p] \in Int /\ snap[p][l] \in Nat
    BY <1>t, <1>2, Cells DEF TakeLayer, Less
  <2>2. /\ plan[p][l] = 0 /\ pc[p] = "take" /\ pc' = pc /\ doc' = doc
        /\ need'[p] = need[p] - n
    BY <1>t, <1>2 DEF TakeLayer, Left, TypeOK
  <2>3. \A m \in LayerIds : plan'[p][m] = IF m = l THEN n ELSE plan[p][m]
    BY <1>t, <1>2 DEF TakeLayer, TypeOK
  <2> HIDE DEF n
  <2>4. \A m \in LayerIds : plan[p][m] \in Int /\ plan'[p][m] \in Int
    BY <1>t, <2>1, <2>3, LayerColumns
  <2>5. SumOf(plan'[p], LayerIds) = SumOf(plan[p], LayerIds) - plan[p][l] + plan'[p][l]
    <3>1. \A m \in LayerIds \ {l} : plan'[p][m] = plan[p][m]
      BY <2>3
    <3> HIDE DEF LayerIds
    <3>2. QED
      BY <2>4, <3>1, RowsFinite, SumChange
  <2>6. SumOf(plan[p], LayerIds) \in Int
    BY <2>4, RowsFinite, SumInt
  <2>7. SumOf(plan[p], LayerIds) + need[p] = OutQty(doc[p])
    BY <1>t, <2>2 DEF PlannedOf
  <2>8. SumOf(plan'[p], LayerIds) + need'[p] = OutQty(doc'[p])
    BY <2>1, <2>2, <2>3, <2>5, <2>6, <2>7
  <2>9. QED
    BY <2>8 DEF PlannedOf, OutQty
<1>3. ASSUME pc'[p] # "take" PROVE PlannedOf(p)'
  BY <1>3 DEF PlannedOf
<1>l. Leave(p) => pc'[p] # "take"
  BY <1>t, LeaveEffect
<1>4. \A d \in Grns : PostGrn(p, d) => pc'[p] # "take"
  BY <1>t DEF PostGrn, Take, TypeOK
<1>5. \A d \in Adjustments : PostAdjustment(p, d) => pc'[p] # "take"
  BY <1>t DEF PostAdjustment, Take, TypeOK
<1>6. \A s \in SUBSET Orders : BeginBatch(p, s) => pc'[p] # "take"
  BY <1>t DEF BeginBatch, TypeOK
<1>7. \A d \in Orders : CheckOrder(p, d) => pc'[p] # "take"
  BY <1>t DEF CheckOrder, Take, TypeOK
<1>8. WriteSale(p) => pc'[p] # "take"
  BY <1>t DEF WriteSale, TypeOK
<1>9. \A t \in Periods, n \in Quantities : LoadOpening(p, t, n) => pc'[p] # "take"
  BY <1>t DEF LoadOpening, TypeOK
<1>10. QED
  BY <1>l, <1>1, <1>2, <1>3, <1>4, <1>5, <1>6, <1>7, <1>8, <1>9
  DEF Step, Receive, NotEnough, WriteAdjustment, CommitBatch,
      CreateOpening, LoseOpening, CorrectOpening, Abort

LEMMA UncommittedColumn == \A p \in Posters, d \in Outbound : Uncommitted(p)[d] \in Int
BY OutQtyPositive DEF Uncommitted, Outbound

LEMMA HeldStep ==
  ASSUME IInv, SumInv, NEW p \in Posters, Step(p)
  PROVE  HeldOf(p)'
<1>t. TypeOK /\ PhaseOf(p) /\ HeldOf(p) /\ InHandOf(p) /\ PlannedOf(p)
  BY DEF IInv, Phase, SumInv, Hands
<1>s. ASSUME held'[p] = held[p], wrote'[p] = wrote[p] PROVE HeldOf(p)'
  <2>1. Uncommitted(p)' = Uncommitted(p)
    BY <1>s DEF Uncommitted, OutQty
  <2>2. QED
    BY <1>t, <1>s, <2>1 DEF HeldOf
<1>l. ASSUME Leave(p) PROVE HeldOf(p)'
  <2>1. held'[p] = Nothing /\ wrote'[p] = {}
    BY <1>t, <1>l, LeaveEffect
  <2>2. SumOf(Nothing, LayerIds) = 0
    BY NothingTaken
  <2>3. \A d \in Outbound : Uncommitted(p)'[d] = 0
    BY <2>1 DEF Uncommitted
  <2>4. SumOf(Uncommitted(p)', Outbound) = 0
    BY <2>3, RowsFinite, SumZero
  <2>5. QED
    BY <2>1, <2>2, <2>4 DEF HeldOf
<1>1. CASE WriteSale(p)
  <2> DEFINE d == doc[p]
  <2>1. d \in Outbound /\ d \notin wrote[p] /\ pc[p] = "take" /\ need[p] = 0
    BY <1>t, <1>1 DEF WriteSale, CanWrite, PhaseOf, InHandOf
  <2>2. /\ wrote'[p] = wrote[p] \cup {d}
        /\ \A l \in LayerIds : held'[p][l] = held[p][l] + plan[p][l]
    BY <1>t, <1>1 DEF WriteSale, TypeOK
  <2> HIDE DEF d
  <2>3. SumOf(held'[p], LayerIds) = SumOf(held[p], LayerIds) + SumOf(plan[p], LayerIds)
    <3>1. \A l \in LayerIds : /\ held[p][l] \in Int /\ plan[p][l] \in Int
                              /\ held'[p][l] = held[p][l] + plan[p][l]
      BY <1>t, <2>2, LayerColumns
    <3> HIDE DEF LayerIds
    <3>2. QED
      BY <3>1, RowsFinite, SumPlus
  <2>4. SumOf(plan[p], LayerIds) + 0 = OutQty(d)
    BY <1>t, <2>1 DEF PlannedOf, d
  <2>5. /\ \A e \in Outbound \ {d} : Uncommitted(p)'[e] = Uncommitted(p)[e]
        /\ Uncommitted(p)'[d] = OutQty(d) /\ Uncommitted(p)[d] = 0
    BY <2>1, <2>2 DEF Uncommitted, OutQty
  <2>6. OutQty(d) \in Int /\ \A e \in Outbound : Uncommitted(p)[e] \in Int
    BY <2>1, OutQtyPositive, UncommittedColumn DEF Outbound
  <2>7. \A e \in Outbound : Uncommitted(p)'[e] \in Int
    BY <2>5, <2>6
  <2>8. SumOf(Uncommitted(p)', Outbound)
          = SumOf(Uncommitted(p), Outbound) - Uncommitted(p)[d] + Uncommitted(p)'[d]
    BY <2>1, <2>5, <2>6, <2>7, RowsFinite, SumChange
  <2>9. /\ SumOf(Uncommitted(p), Outbound) \in Int /\ SumOf(held[p], LayerIds) \in Int
        /\ SumOf(plan[p], LayerIds) \in Int
    BY <1>t, <2>6, LayerColumns, RowsFinite, SumInt
  <2>10. SumOf(held'[p], LayerIds) = SumOf(Uncommitted(p)', Outbound)
    BY <1>t, <2>3, <2>4, <2>5, <2>6, <2>8, <2>9 DEF HeldOf
  <2>11. QED
    BY <2>10 DEF HeldOf
<1>2. QED
  BY <1>s, <1>l, <1>1
  DEF Step, PostGrn, PostAdjustment, Receive, ReadLayers, TakeLayer, NotEnough,
      WriteAdjustment, BeginBatch, CheckOrder, CommitBatch, LoadOpening,
      CreateOpening, LoseOpening, CorrectOpening, Abort

LEMMA HandsStep ==
  ASSUME IInv, SumInv, NEW p \in Posters, Step(p)
  PROVE  Hands'
<1> SUFFICES ASSUME NEW q \in Posters
             PROVE  InHandOf(q)' /\ PlannedOf(q)' /\ HeldOf(q)'
  BY DEF Hands
<1>t. TypeOK /\ InHandOf(q) /\ PlannedOf(q) /\ HeldOf(q)
  BY DEF IInv, SumInv, Hands
<1>1. CASE q = p
  BY <1>1, InHandStep, PlannedStep, HeldStep
<1>2. CASE q # p
  <2>1. /\ pc'[q] = pc[q] /\ doc'[q] = doc[q] /\ todo'[q] = todo[q]
        /\ wrote'[q] = wrote[q] /\ held'[q] = held[q] /\ plan'[q] = plan[q]
        /\ need'[q] = need[q]
    BY <1>t, <1>2, Others, OtherBatches
  <2>2. Uncommitted(q)' = Uncommitted(q)
    BY <2>1 DEF Uncommitted, OutQty
  <2>3. QED
    BY <1>t, <2>1, <2>2 DEF InHandOf, PlannedOf, HeldOf, OutQty
<1>3. QED
  BY <1>1, <1>2

-----------------------------------------------------------------------------
(* The ledger and the consumption rows.                                    *)

LEMMA ConsumptionStep ==
  ASSUME IInv, SumInv, NEW p \in Posters, Step(p)
  PROVE  ConsumptionMatchesLedger'
<1>t. TypeOK /\ PhaseOf(p) /\ InHandOf(p) /\ PlannedOf(p) /\ HeldOf(p)
      /\ ConsumptionMatchesLedger
  BY DEF IInv, Phase, SumInv, Hands
<1>c. /\ \A l \in LayerIds : consumed[l] \in Int /\ plan[p][l] \in Int /\ held[p][l] \in Int
      /\ \A d \in Outbound : SentOut[d] \in Int /\ Uncommitted(p)[d] \in Int
  BY <1>t, LayerColumns, LedgerColumns, UncommittedColumn
<1>s. ASSUME consumed' = consumed, posted' = posted PROVE ConsumptionMatchesLedger'
  <2>1. SentOut' = SentOut
    BY <1>s DEF SentOut, OutQty
  <2>2. QED
    BY <1>t, <1>s, <2>1 DEF ConsumptionMatchesLedger
<1>1. CASE Receive(p)
  <2>1. doc[p] \in Docs \ Outbound /\ consumed' = consumed
        /\ posted' = [posted EXCEPT ![doc[p]] = @ + 1]
    BY <1>t, <1>1 DEF Receive, PhaseOf, InHandOf
  <2>2. SumOf(SentOut', Outbound) = SumOf(SentOut, Outbound) + 0
    BY <1>t, <2>1, PostOne
  <2>3. SumOf(SentOut, Outbound) \in Int
    BY <1>c, RowsFinite, SumInt
  <2>4. QED
    BY <1>t, <2>1, <2>2, <2>3 DEF ConsumptionMatchesLedger
<1>2. CASE WriteAdjustment(p)
  <2>1. /\ doc[p] \in Outbound /\ doc[p] \in Docs /\ pc[p] = "take" /\ need[p] = 0
        /\ posted' = [posted EXCEPT ![doc[p]] = @ + 1]
    BY <1>t, <1>2 DEF WriteAdjustment, CanWrite, PhaseOf
  <2>2. SumOf(SentOut', Outbound) = SumOf(SentOut, Outbound) + OutQty(doc[p])
    BY <1>t, <2>1, PostOne
  <2>3. SumOf(consumed', LayerIds) = SumOf(consumed, LayerIds) + SumOf(plan[p], LayerIds)
    <3>1. \A l \in LayerIds : /\ consumed[l] \in Int /\ plan[p][l] \in Int
                              /\ consumed'[l] = consumed[l] + plan[p][l]
      BY <1>c, <1>2 DEF WriteAdjustment, Consume
    <3> HIDE DEF LayerIds
    <3>2. QED
      BY <3>1, RowsFinite, SumPlus
  <2>4. SumOf(plan[p], LayerIds) \in Int
    BY <1>c, RowsFinite, SumInt
  <2>5. SumOf(plan[p], LayerIds) = OutQty(doc[p])
    BY <1>t, <2>1, <2>4 DEF PlannedOf
  <2>6. QED
    BY <1>t, <2>2, <2>3, <2>5 DEF ConsumptionMatchesLedger
<1>3. CASE CommitBatch(p)
  <2>1. SumOf(consumed', LayerIds) = SumOf(consumed, LayerIds) + SumOf(held[p], LayerIds)
    <3>1. \A l \in LayerIds : /\ consumed[l] \in Int /\ held[p][l] \in Int
                              /\ consumed'[l] = consumed[l] + held[p][l]
      BY <1>c, <1>3 DEF CommitBatch
    <3> HIDE DEF LayerIds
    <3>2. QED
      BY <3>1, RowsFinite, SumPlus
  <2>2. SumOf(SentOut', Outbound) = SumOf(SentOut, Outbound) + SumOf(Uncommitted(p), Outbound)
    <3>1. ASSUME NEW d \in Outbound PROVE SentOut'[d] = SentOut[d] + Uncommitted(p)[d]
      <4>1. d \in Docs /\ posted[d] \in Nat /\ OutQty(d) \in Int
        BY <1>t, OutQtyPositive DEF Outbound, TypeOK
      <4>2. posted'[d] = IF d \in wrote[p] THEN posted[d] + 1 ELSE posted[d]
        BY <1>3, <4>1 DEF CommitBatch
      <4>3. (posted[d] + 1) * OutQty(d) = posted[d] * OutQty(d) + OutQty(d)
        BY <4>1, OnceMore, Zenon
      <4>4. posted[d] * OutQty(d) \in Int
        BY <4>1, OnceMore, Zenon
      <4>5. QED
        BY <4>1, <4>2, <4>3, <4>4 DEF SentOut, Uncommitted
    <3>2. QED
      BY <1>c, <3>1, RowsFinite, SumPlus
  <2>3. QED
    BY <1>t, <2>1, <2>2 DEF ConsumptionMatchesLedger, HeldOf
<1>4. QED
  BY <1>s, <1>1, <1>2, <1>3
  DEF Step, PostGrn, PostAdjustment, ReadLayers, TakeLayer, NotEnough,
      BeginBatch, CheckOrder, WriteSale, LoadOpening, CreateOpening,
      LoseOpening, CorrectOpening, Abort, rows

-----------------------------------------------------------------------------
(* The layers and where they came from.                                    *)

LEMMA OpeningsStep ==
  ASSUME IInv, SumInv, NEW p \in Posters, Step(p)
  PROVE  Openings'
<1>t. TypeOK /\ PhaseOf(p) /\ Openings
  BY DEF IInv, Phase, SumInv
<1>o. \A t \in Periods : layerOf[t] \in 0..made /\ made \in Nat /\ opening[t] \in Int
  BY <1>t, StockConstants DEF TypeOK
<1>s. ASSUME opening' = opening, layerOf' = layerOf, orig' = orig, reset' = reset
      PROVE  Openings'
  BY <1>t, <1>s DEF Openings, Opened
<1>1. CASE Receive(p)
  <2>1. opening' = opening /\ layerOf' = layerOf /\ reset' = reset
    BY <1>1 DEF Receive, ghosts
  <2>2. \A t \in Opened : orig'[layerOf[t]] = orig[layerOf[t]]
    <3>1. CASE doc[p] \in Inbound
      <4>1. DateOf[doc[p]] \in Int /\ QtyOf[doc[p]] \in Int
        BY <1>t, <1>1, StockConstants DEF Receive, PhaseOf
      <4>2. AddLayer(DateOf[doc[p]], QtyOf[doc[p]])
        BY <1>1, <3>1 DEF Receive
      <4>3. /\ made' = made + 1 /\ made' \in 0..MaxLayers
            /\ \A l \in LayerIds \ {made'} : orig'[l] = orig[l]
        BY <1>t, <4>1, <4>2, AddLayerEffect
      <4>4. \A t \in Opened : layerOf[t] \in LayerIds \ {made'}
        BY <1>o, <4>3, StockConstants DEF Opened
      <4>5. QED
        BY <4>3, <4>4
    <3>2. CASE doc[p] \notin Inbound
      BY <1>1, <3>2 DEF Receive
    <3>3. QED
      BY <3>1, <3>2
  <2>3. QED
    BY <1>t, <2>1, <2>2 DEF Openings, Opened
<1>2. CASE CreateOpening(p)
  <2> DEFINE t == doc[p]
  <2>1. PICK when \in Int :
          /\ AddLayer(when, need[p]) /\ need[p] \in Int
          /\ t \in Periods /\ layerOf[t] = 0
    BY <1>t, <1>2, OpeningAdds DEF CreateOpening, Opened
  <2>2. /\ made' = made + 1 /\ made' \in 0..MaxLayers /\ orig'[made'] = need[p]
        /\ \A l \in LayerIds \ {made'} : orig'[l] = orig[l]
    BY <1>t, <2>1, AddLayerEffect
  <2>3. /\ reset' = reset
        /\ \A u \in Periods :
             /\ layerOf'[u] = IF u = t THEN made' ELSE layerOf[u]
             /\ opening'[u] = IF u = t THEN need[p] ELSE opening[u]
    BY <1>t, <1>2, <2>1, <2>2 DEF CreateOpening, ghosts, TypeOK
  <2> HIDE DEF t
  <2>4. \A u \in Periods : layerOf[u] # made' /\ (u \in Opened => layerOf[u] \in LayerIds)
    BY <1>o, <2>2, StockConstants DEF Opened
  <2>5. /\ \A u \in Periods \ {t} : u \in Opened' <=> u \in Opened
        /\ t \in Opened'
    BY <1>o, <2>1, <2>2, <2>3 DEF Opened
  <2>6. \A u \in Periods : u \notin Opened' => opening'[u] = 0
    BY <1>t, <2>3, <2>5 DEF Openings
  <2>7. \A u, v \in Opened' : layerOf'[u] = layerOf'[v] => u = v
    <3>1. Opened' \subseteq Periods
      BY DEF Opened
    <3>2. QED
      BY <1>t, <2>3, <2>4, <2>5, <3>1 DEF Openings
  <2>8. reset' = {} => \A u \in Opened' : orig'[layerOf'[u]] = opening'[u]
    <3> SUFFICES ASSUME reset = {}, NEW u \in Opened'
                 PROVE  orig'[layerOf'[u]] = opening'[u]
      BY <2>3
    <3>1. u \in Periods
      BY DEF Opened
    <3>2. CASE u = t
      BY <2>2, <2>3, <3>1, <3>2
    <3>3. CASE u # t
      <4>1. u \in Opened /\ layerOf'[u] = layerOf[u] /\ opening'[u] = opening[u]
        BY <2>3, <2>5, <3>1, <3>3
      <4>2. orig'[layerOf[u]] = orig[layerOf[u]]
        BY <2>2, <2>4, <3>1, <4>1
      <4>3. QED
        BY <1>t, <4>1, <4>2 DEF Openings
    <3>4. QED
      BY <3>2, <3>3
  <2>9. QED
    BY <2>6, <2>7, <2>8 DEF Openings
<1>3. CASE CorrectOpening(p)
  <2> DEFINE t == doc[p]
  <2>1. /\ t \in Periods /\ layerOf[t] # 0 /\ need[p] \in Int
        /\ layerOf' = layerOf
    BY <1>t, <1>3 DEF CorrectOpening, PhaseOf, TypeOK
  <2>2. t \in Opened /\ Opened' = Opened
    BY <2>1 DEF Opened
  <2>3. \A u \in Periods \ {t} : opening'[u] = opening[u]
    BY <1>t, <1>3, <2>1 DEF CorrectOpening, TypeOK
  <2>4. \A l \in LayerIds : orig'[l] = IF l = layerOf[t] THEN need[p] ELSE orig[l]
    BY <1>t, <1>3 DEF CorrectOpening, TypeOK
  <2>5. reset' = {} => reset = {} /\ opening'[t] = need[p]
    <3>1. opening'[t] = IF saw[p].qty = need[p] THEN opening[t] ELSE need[p]
      BY <1>t, <1>3, <2>1 DEF CorrectOpening, TypeOK
    <3>2. reset' = {} => reset = {} /\ opening[t] = saw[p].qty
      BY <1>3 DEF CorrectOpening
    <3>3. QED
      BY <3>1, <3>2
  <2> HIDE DEF t
  <2>6. \A u \in Opened : u \in Periods /\ layerOf[u] \in LayerIds
    BY <1>t, <1>o, StockConstants DEF Opened, TypeOK
  <2>7. \A u \in Opened : layerOf[u] = layerOf[t] => u = t
    BY <1>t, <2>2 DEF Openings
  <2>8. reset' = {} => \A u \in Opened : orig'[layerOf[u]] = opening'[u]
    <3> SUFFICES ASSUME reset' = {}, NEW u \in Opened
                 PROVE  orig'[layerOf[u]] = opening'[u]
      OBVIOUS
    <3>1. CASE u = t
      BY <2>4, <2>5, <2>6, <3>1
    <3>2. CASE u # t
      <4>1. orig'[layerOf[u]] = orig[layerOf[u]] /\ opening'[u] = opening[u]
        BY <2>3, <2>4, <2>6, <2>7, <3>2
      <4>2. QED
        BY <1>t, <2>5, <4>1 DEF Openings
    <3>3. QED
      BY <3>1, <3>2
  <2>9. \A u \in Periods : u \notin Opened => opening'[u] = 0
    BY <1>t, <2>2, <2>3 DEF Openings
  <2>10. QED
    BY <1>t, <2>1, <2>2, <2>8, <2>9 DEF Openings
<1>4. QED
  BY <1>s, <1>1, <1>2, <1>3
  DEF Step, PostGrn, PostAdjustment, ReadLayers, TakeLayer, NotEnough,
      WriteAdjustment, BeginBatch, CheckOrder, WriteSale, CommitBatch,
      LoadOpening, LoseOpening, Abort, rows, ghosts

LEMMA OriginsStep ==
  ASSUME IInv, SumInv, NEW p \in Posters, Step(p)
  PROVE  Origins'
<1>t. TypeOK /\ PhaseOf(p) /\ InHandOf(p) /\ Fresh /\ Openings /\ Origins
  BY DEF IInv, Phase, SumInv, Hands
<1>c. /\ \A l \in LayerIds : orig[l] \in Int
      /\ \A t \in Periods : opening[t] \in Int
      /\ \A d \in Inbound : BroughtIn[d] \in Int
  BY <1>t, LedgerColumns DEF TypeOK
<1>i. /\ SumOf(orig, LayerIds) \in Int /\ SumOf(opening, Periods) \in Int
      /\ SumOf(BroughtIn, Inbound) \in Int
  BY <1>c, RowsFinite, SumInt
<1>s. ASSUME orig' = orig, opening' = opening, reset' = reset,
             SumOf(BroughtIn', Inbound) = SumOf(BroughtIn, Inbound)
      PROVE  Origins'
  BY <1>t, <1>s DEF Origins
<1>p. posted' = posted => SumOf(BroughtIn', Inbound) = SumOf(BroughtIn, Inbound)
  BY DEF BroughtIn
<1>a. ASSUME NEW when \in Int, NEW qty \in Int, AddLayer(when, qty)
      PROVE  SumOf(orig', LayerIds) = SumOf(orig, LayerIds) + qty
  <2>1. /\ made' = made + 1 /\ made' \in LayerIds /\ orig'[made'] = qty
        /\ \A l \in LayerIds \ {made'} : orig'[l] = orig[l]
    BY <1>t, <1>a, AddLayerEffect
  <2>2. orig[made'] = 0
    BY <1>t, <2>1 DEF Fresh, TypeOK
  <2> HIDE DEF LayerIds
  <2>3. \A l \in LayerIds : orig[l] \in Int /\ orig'[l] \in Int
    BY <1>c, <2>1
  <2>4. SumOf(orig', LayerIds) = SumOf(orig, LayerIds) - orig[made'] + orig'[made']
    <3>1. made' \in LayerIds /\ \A l \in LayerIds \ {made'} : orig'[l] = orig[l]
      BY <2>1
    <3>2. QED
      BY <2>3, <3>1, RowsFinite, SumChange
  <2>5. QED
    BY <1>i, <2>1, <2>2, <2>4
<1>1. CASE Receive(p)
  <2>1. /\ doc[p] \in Docs /\ DateOf[doc[p]] \in Int /\ QtyOf[doc[p]] \in Int
        /\ posted' = [posted EXCEPT ![doc[p]] = @ + 1]
        /\ opening' = opening /\ reset' = reset
    BY <1>t, <1>1, StockConstants DEF Receive, PhaseOf, ghosts
  <2>2. SumOf(BroughtIn', Inbound) = SumOf(BroughtIn, Inbound)
          + IF doc[p] \in Inbound THEN QtyOf[doc[p]] ELSE 0
    BY <1>t, <2>1, PostOne
  <2>3. CASE doc[p] \in Inbound
    <3>1. SumOf(orig', LayerIds) = SumOf(orig, LayerIds) + QtyOf[doc[p]]
      BY <1>a, <1>1, <2>1, <2>3 DEF Receive
    <3>2. QED
      BY <1>t, <1>i, <2>1, <2>2, <2>3, <3>1 DEF Origins
  <2>4. CASE doc[p] \notin Inbound
    BY <1>s, <1>i, <1>1, <2>1, <2>2, <2>4 DEF Receive
  <2>5. QED
    BY <2>3, <2>4
<1>2. CASE WriteAdjustment(p)
  <2>1. /\ doc[p] \in Outbound /\ doc[p] \in Docs
        /\ posted' = [posted EXCEPT ![doc[p]] = @ + 1]
        /\ opening' = opening /\ reset' = reset /\ orig' = orig
    BY <1>t, <1>2 DEF WriteAdjustment, CanWrite, PhaseOf
  <2>2. doc[p] \notin Inbound
    BY <2>1, KindsDisjoint, StockConstants DEF Inbound, Outbound
  <2>3. SumOf(BroughtIn', Inbound) = SumOf(BroughtIn, Inbound) + 0
    BY <1>t, <2>1, <2>2, PostOne
  <2>4. QED
    BY <1>s, <1>i, <2>1, <2>3
<1>3. CASE CommitBatch(p)
  <2>1. \A d \in Inbound : BroughtIn'[d] = BroughtIn[d]
    <3>1. wrote[p] \subseteq Orders
      BY <1>t DEF TypeOK
    <3>2. \A d \in Inbound : d \in Docs /\ d \notin wrote[p]
      BY <3>1, KindsDisjoint DEF Inbound
    <3>3. \A d \in Inbound : posted'[d] = posted[d]
      BY <1>3, <3>2 DEF CommitBatch
    <3>4. QED
      BY <3>3 DEF BroughtIn
  <2>2. SumOf(BroughtIn', Inbound) = SumOf(BroughtIn, Inbound)
    BY <2>1, RowsFinite, SumSame
  <2>3. QED
    BY <1>s, <1>3, <2>2 DEF CommitBatch, ghosts
<1>4. CASE CreateOpening(p)
  <2> DEFINE t == doc[p]
  <2>1. /\ t \in Periods /\ need[p] \in Int
        /\ opening[t] = 0 /\ opening' = [opening EXCEPT ![t] = need[p]]
        /\ posted' = posted /\ reset' = reset
    <3>1. t \in Periods /\ t \notin Opened
      BY <1>t, <1>4 DEF CreateOpening, PhaseOf
    <3>2. QED
      BY <1>t, <1>4, <3>1, StockConstants DEF CreateOpening, Openings, ghosts, TypeOK
  <2>2. SumOf(orig', LayerIds) = SumOf(orig, LayerIds) + need[p]
    <3>1. PICK when \in Int : AddLayer(when, need[p])
      BY <1>t, <1>4, OpeningAdds
    <3>2. QED
      BY <1>a, <1>4, <2>1, <3>1 DEF CreateOpening
  <2> HIDE DEF t
  <2>3. SumOf(opening', Periods) = SumOf(opening, Periods) - opening[t] + opening'[t]
    <3>1. \A u \in Periods : opening'[u] = IF u = t THEN need[p] ELSE opening[u]
      BY <1>t, <2>1 DEF TypeOK
    <3>2. \A u \in Periods : opening[u] \in Int /\ opening'[u] \in Int
      BY <1>c, <2>1, <3>1
    <3>3. \A u \in Periods \ {t} : opening'[u] = opening[u]
      BY <3>1
    <3>4. t \in Periods
      BY <2>1
    <3>5. QED
      BY <3>2, <3>3, <3>4, RowsFinite, SumChange
  <2>4. opening'[t] = need[p]
    BY <1>t, <2>1 DEF TypeOK
  <2>5. QED
    BY <1>t, <1>i, <1>p, <2>1, <2>2, <2>3, <2>4 DEF Origins
<1>5. CASE CorrectOpening(p)
  <2> SUFFICES ASSUME reset' = {}
               PROVE  SumOf(orig', LayerIds)
                        = SumOf(opening', Periods) + SumOf(BroughtIn', Inbound)
    BY DEF Origins
  <2> DEFINE t == doc[p]
             l == layerOf[t]
  <2>1. /\ t \in Periods /\ l # 0 /\ need[p] \in Int
        /\ t \in Opened /\ reset = {} /\ opening[t] = saw[p].qty
    BY <1>t, <1>5 DEF CorrectOpening, PhaseOf, TypeOK, Opened
  <2>2. l \in LayerIds /\ orig[l] = opening[t]
    <3>1. l \in 0..made /\ made \in 0..MaxLayers
      BY <1>t, <2>1 DEF TypeOK
    <3>2. l \in LayerIds
      BY <2>1, <3>1, StockConstants
    <3>3. orig[l] = opening[t]
      BY <1>t, <2>1 DEF Openings
    <3>4. QED
      BY <3>2, <3>3
  <2>3. /\ orig' = [orig EXCEPT ![l] = need[p]]
        /\ opening' = [opening EXCEPT ![t] =
                         IF saw[p].qty = need[p] THEN @ ELSE need[p]]
        /\ posted' = posted
    BY <1>5 DEF CorrectOpening
  <2> HIDE DEF t, l
  <2>4. \A m \in LayerIds : orig'[m] = IF m = l THEN need[p] ELSE orig[m]
    BY <1>t, <2>3 DEF TypeOK
  <2>5. \A u \in Periods : opening'[u] = IF u = t THEN need[p] ELSE opening[u]
    BY <1>t, <2>1, <2>3 DEF TypeOK
  <2>6. SumOf(orig', LayerIds) = SumOf(orig, LayerIds) - orig[l] + need[p]
    <3> HIDE DEF LayerIds
    <3>1. \A m \in LayerIds : orig'[m] \in Int
      BY <1>c, <2>1, <2>4
    <3>2. \A m \in LayerIds \ {l} : orig'[m] = orig[m]
      BY <2>4
    <3>3. SumOf(orig', LayerIds) = SumOf(orig, LayerIds) - orig[l] + orig'[l]
      BY <1>c, <2>2, <3>1, <3>2, RowsFinite, SumChange
    <3>4. QED
      BY <2>2, <2>4, <3>3
  <2>7. SumOf(opening', Periods) = SumOf(opening, Periods) - opening[t] + need[p]
    <3>1. \A u \in Periods : opening'[u] \in Int
      BY <1>c, <2>1, <2>5
    <3>2. \A u \in Periods \ {t} : opening'[u] = opening[u]
      BY <2>5
    <3>3. SumOf(opening', Periods) = SumOf(opening, Periods) - opening[t] + opening'[t]
      BY <1>c, <2>1, <3>1, <3>2, RowsFinite, SumChange
    <3>4. QED
      BY <2>1, <2>5, <3>3
  <2>8. SumOf(orig, LayerIds) = SumOf(opening, Periods) + SumOf(BroughtIn, Inbound)
    BY <1>t, <2>1 DEF Origins
  <2>9. opening[t] \in Int /\ SumOf(BroughtIn', Inbound) = SumOf(BroughtIn, Inbound)
    BY <1>c, <1>p, <2>1, <2>3
  <2>10. QED
    BY <1>i, <2>1, <2>2, <2>6, <2>7, <2>8, <2>9
<1>6. QED
  BY <1>s, <1>p, <1>1, <1>2, <1>3, <1>4, <1>5
  DEF Step, PostGrn, PostAdjustment, ReadLayers, TakeLayer, NotEnough,
      BeginBatch, CheckOrder, WriteSale, LoadOpening, LoseOpening, Abort,
      rows, ghosts

-----------------------------------------------------------------------------
(* The theorems.                                                           *)

LEMMA InitSums == Init => SumInv
<1> SUFFICES ASSUME Init PROVE SumInv
  OBVIOUS
<1>1. Hands
  <2> SUFFICES ASSUME NEW p \in Posters
               PROVE  InHandOf(p) /\ PlannedOf(p) /\ HeldOf(p)
    BY DEF Hands
  <2>1. \A d \in Outbound : Uncommitted(p)[d] = 0
    BY DEF Init, Uncommitted
  <2>2. SumOf(Uncommitted(p), Outbound) = 0
    BY <2>1, RowsFinite, SumZero
  <2>3. HeldOf(p)
    BY <2>2, NothingTaken DEF Init, HeldOf
  <2>4. QED
    BY <2>3 DEF Init, InHandOf, PlannedOf
<1>2. SumOf(SentOut, Outbound) = 0 /\ SumOf(BroughtIn, Inbound) = 0
  <2>1. \A d \in Docs : OutQty(d) \in Int /\ QtyOf[d] \in Int /\ posted[d] = 0
    BY OutQtyPositive, StockConstants DEF Init
  <2>2. \A d \in Docs : posted[d] * OutQty(d) = 0 /\ posted[d] * QtyOf[d] = 0
    BY <2>1
  <2>3. Outbound \subseteq Docs /\ Inbound \subseteq Docs
    BY DEF Outbound, Inbound
  <2>4. /\ \A d \in Outbound : SentOut[d] = 0
        /\ \A d \in Inbound : BroughtIn[d] = 0
    BY <2>2, <2>3 DEF SentOut, BroughtIn
  <2>5. QED
    BY <2>4, RowsFinite, SumZero
<1>3. SumOf(opening, Periods) = 0
  BY RowsFinite, SumZero DEF Init
<1>4. ConsumptionMatchesLedger /\ Origins
  BY <1>2, <1>3, NothingTaken DEF Init, ConsumptionMatchesLedger, Origins
<1>5. Openings
  BY DEF Init, Openings, Opened
<1>6. QED
  BY <1>1, <1>4, <1>5 DEF SumInv

LEMMA SumsStep == IInv /\ SumInv /\ [Next]_vars => SumInv'
<1> SUFFICES ASSUME IInv, SumInv, [Next]_vars PROVE SumInv'
  OBVIOUS
<1>1. ASSUME NEW p \in Posters, Step(p) PROVE SumInv'
  BY <1>1, HandsStep, ConsumptionStep, OpeningsStep, OriginsStep DEF SumInv
<1>2. CASE UNCHANGED vars
  BY <1>2 DEF SumInv, vars, rows, local, ghosts, Hands, InHandOf, PlannedOf,
     HeldOf, Uncommitted, OutQty, ConsumptionMatchesLedger, SentOut, BroughtIn,
     Openings, Opened, Origins
<1>3. QED
  BY <1>1, <1>2 DEF Next

LEMMA Sums == Spec => []SumInv
BY InitSums, SumsStep, StockInv, PTL DEF Spec

\* For any posters, documents and batches, the quantities the ledger sent out
\* are, to the unit, the quantities the consumption rows drew from the layers:
\* no abort, shortage or interleaving leaves one without the other.
THEOREM ConsumptionMatchesLedgerHolds == Spec => []ConsumptionMatchesLedger
<1>1. SumInv => ConsumptionMatchesLedger
  BY DEF SumInv
<1>2. QED
  BY <1>1, Sums, PTL

LEMMA LatestIsAll ==
  ASSUME TypeOK, Openings, Cardinality(Opened) <= 1
  PROVE  LatestOpening = SumOf(opening, Periods)
<1>1. Opened \in SUBSET Periods /\ IsFiniteSet(Opened)
  BY RowsFinite, FS_Subset DEF Opened
<1>2. CASE Opened = {}
  <2>1. \A t \in Periods : opening[t] = 0
    BY <1>2 DEF Openings
  <2>2. QED
    BY <1>2, <2>1, RowsFinite, SumZero DEF LatestOpening
<1>3. CASE Opened # {}
  <2>1. Cardinality(Opened) = 1
    <3>1. Cardinality(Opened) \in Nat /\ Cardinality(Opened) # 0
      BY <1>1, <1>3, FS_CardinalityType, FS_EmptySet
    <3>2. QED
      BY <3>1
  <2>2. PICK t : Opened = {t}
    BY <1>1, <2>1, FS_Singleton
  <2>3. t \in Periods /\ t <= t
    BY <1>1, <2>2, StockConstants
  <2>4. LatestOpening = opening[t]
    BY <1>3, <2>2, <2>3 DEF LatestOpening
  <2>5. \A u \in Periods \ {t} : opening[u] = 0
    BY <2>2 DEF Openings
  <2>6. \A u \in Periods : opening[u] \in Int
    BY DEF TypeOK
  <2>7. SumOf(opening, Periods) = opening[t] + SumOf(opening, Periods \ {t})
    BY <2>3, <2>6, RowsFinite, SumRemove
  <2>8. SumOf(opening, Periods \ {t}) = 0
    <3>1. IsFiniteSet(Periods \ {t})
      BY RowsFinite, FS_RemoveElement
    <3>2. QED
      BY <2>5, <3>1, SumZero
  <2>9. QED
    BY <2>3, <2>4, <2>6, <2>7, <2>8
<1>4. QED
  BY <1>2, <1>3

\* For any posters, documents and layers, the balance page and the ageing page
\* agree until a second period is opened, an adjustment writes from an old
\* reading, or an opening balance is corrected after use.
THEOREM BalanceMatchesLayersHolds == Spec => []BalanceMatchesLayers
<1>1. ASSUME IInv, SumInv PROVE BalanceMatchesLayers
  <2> SUFFICES ASSUME Cardinality(Opened) <= 1, overwritten = {}, reset = {}
               PROVE  CurrentQty = SumOf(rem, LayerIds)
    BY DEF BalanceMatchesLayers
  <2>1. TypeOK /\ LayerAccounting /\ Openings
    BY <1>1 DEF IInv, SumInv
  <2>2. \A l \in LayerIds : /\ rem[l] \in Int /\ consumed[l] \in Int
                            /\ orig[l] = rem[l] + consumed[l]
    <3>1. \A l \in LayerIds : /\ rem[l] \in Int /\ consumed[l] \in Nat
                              /\ rem[l] + consumed[l] = orig[l]
      BY <2>1 DEF LayerAccounting, TypeOK
    <3>2. QED
      BY <3>1
  <2>3. SumOf(orig, LayerIds) = SumOf(rem, LayerIds) + SumOf(consumed, LayerIds)
    BY <2>2, RowsFinite, SumPlus
  <2>4. SumOf(orig, LayerIds) = LatestOpening + SumOf(BroughtIn, Inbound)
    BY <1>1, <2>1, LatestIsAll DEF SumInv, Origins
  <2>5. SumOf(consumed, LayerIds) = SumOf(SentOut, Outbound)
    BY <1>1 DEF SumInv, ConsumptionMatchesLedger
  <2>6. SumOf(rem, LayerIds) \in Int /\ SumOf(consumed, LayerIds) \in Int
    BY <2>2, RowsFinite, SumInt
  <2>7. LatestOpening \in Int /\ SumOf(BroughtIn, Inbound) \in Int
    <3>1. \A t \in Periods : opening[t] \in Int
      BY <2>1 DEF TypeOK
    <3>2. \A d \in Inbound : BroughtIn[d] \in Int
      BY <2>1, LedgerColumns
    <3>3. SumOf(opening, Periods) \in Int /\ SumOf(BroughtIn, Inbound) \in Int
      BY <3>1, <3>2, RowsFinite, SumInt
    <3>4. QED
      BY <2>1, <3>3, LatestIsAll
  <2>8. QED
    BY <2>3, <2>4, <2>5, <2>6, <2>7 DEF CurrentQty
<1>2. QED
  BY <1>1, Sums, StockInv, PTL
=============================================================================
