----------------------- MODULE InventoryLayersProofs -----------------------
(***************************************************************************)
(* Theorems about InventoryLayers, for any posters, documents, periods and *)
(* quantities.                                                             *)
(***************************************************************************)
EXTENDS InventoryLayers, TLAPS

USE DEF LayerIds, Docs

LEMMA NothingTyped == Nothing \in [LayerIds -> Nat] /\ Nothing \in [LayerIds -> Int]
BY DEF Nothing

LEMMA OutQtyPositive ==
  /\ \A d \in Docs : OutQty(d) \in Int
  /\ \A d \in Outbound : OutQty(d) \in Nat \ {0}
BY StockConstants, KindsDisjoint DEF OutQty, Outbound

\* What the readings and plans of a poster are made of.
LEMMA Cells ==
  ASSUME TypeOK, NEW p \in Posters, NEW l \in LayerIds
  PROVE  /\ rem[l] \in Int /\ orig[l] \in Int /\ date[l] \in Int
         /\ consumed[l] \in Nat /\ held[p][l] \in Nat
         /\ snap[p][l] \in Nat /\ plan[p][l] \in Nat /\ need[p] \in Int
         /\ dated[p][l] \in Int
<1>1. /\ held[p] \in [LayerIds -> Nat] /\ snap[p] \in [LayerIds -> Nat]
      /\ plan[p] \in [LayerIds -> Nat] /\ dated[p] \in [LayerIds -> Int]
  BY DEF TypeOK
<1>2. QED
  BY <1>1 DEF TypeOK

\* What the end of a transaction leaves.
LEMMA LeaveEffect ==
  ASSUME TypeOK, NEW p \in Posters, Leave(p)
  PROVE  /\ \A q \in Posters :
              /\ pc'[q] = IF q = p THEN "idle" ELSE pc[q]
              /\ doc'[q] = IF q = p THEN NoDoc ELSE doc[q]
              /\ todo'[q] = IF q = p THEN {} ELSE todo[q]
              /\ wrote'[q] = IF q = p THEN {} ELSE wrote[q]
              /\ held'[q] = IF q = p THEN Nothing ELSE held[q]
              /\ snap'[q] = IF q = p THEN Nothing ELSE snap[q]
              /\ dated'[q] = IF q = p THEN Nothing ELSE dated[q]
              /\ plan'[q] = IF q = p THEN Nothing ELSE plan[q]
              /\ need'[q] = IF q = p THEN 0 ELSE need[q]
              /\ saw'[q] = IF q = p THEN NoRow ELSE saw[q]
         /\ pc' \in [Posters -> Points]
         /\ doc' \in [Posters -> Docs \cup Periods \cup {NoDoc}]
         /\ todo' \in [Posters -> SUBSET Orders]
         /\ wrote' \in [Posters -> SUBSET Orders]
         /\ held' \in [Posters -> [LayerIds -> Nat]]
         /\ snap' \in [Posters -> [LayerIds -> Nat]]
         /\ dated' \in [Posters -> [LayerIds -> Int]]
         /\ plan' \in [Posters -> [LayerIds -> Nat]]
         /\ need' \in [Posters -> Int]
         /\ saw' \in [Posters -> [exists : BOOLEAN, qty : Int]]
<1>1. /\ pc' \in [Posters -> Points]
      /\ doc' \in [Posters -> Docs \cup Periods \cup {NoDoc}]
      /\ todo' \in [Posters -> SUBSET Orders]
      /\ wrote' \in [Posters -> SUBSET Orders]
  BY DEF TypeOK, Leave, Points
<1>2. /\ held' \in [Posters -> [LayerIds -> Nat]]
      /\ snap' \in [Posters -> [LayerIds -> Nat]]
      /\ dated' \in [Posters -> [LayerIds -> Int]]
      /\ plan' \in [Posters -> [LayerIds -> Nat]]
  BY NothingTyped DEF TypeOK, Leave
<1>3. need' \in [Posters -> Int] /\ saw' \in [Posters -> [exists : BOOLEAN, qty : Int]]
  BY DEF TypeOK, Leave, NoRow
<1>4. QED
  BY <1>1, <1>2, <1>3 DEF TypeOK, Leave

\* A new layer is the next one; the others stay as they are.
LEMMA AddLayerEffect ==
  ASSUME TypeOK, NEW when \in Int, NEW qty \in Int, AddLayer(when, qty)
  PROVE  /\ made' = made + 1 /\ made' \in 0..MaxLayers /\ made' \in LayerIds
         /\ date' \in [LayerIds -> Int] /\ orig' \in [LayerIds -> Int]
         /\ rem' \in [LayerIds -> Int]
         /\ orig'[made'] = qty /\ rem'[made'] = qty
         /\ \A l \in LayerIds \ {made'} :
              date'[l] = date[l] /\ orig'[l] = orig[l] /\ rem'[l] = rem[l]
<1>1. /\ made' = made + 1 /\ made' \in 0..MaxLayers /\ made' \in LayerIds
  BY StockConstants DEF TypeOK, AddLayer
<1>2. /\ date \in [LayerIds -> Int] /\ orig \in [LayerIds -> Int]
      /\ rem \in [LayerIds -> Int]
  BY DEF TypeOK
<1>3. /\ date' = [date EXCEPT ![made'] = when]
      /\ orig' = [orig EXCEPT ![made'] = qty]
      /\ rem' = [rem EXCEPT ![made'] = qty]
  BY <1>1 DEF AddLayer
<1>4. QED
  BY <1>1, <1>2, <1>3

-----------------------------------------------------------------------------
(* The inductive invariant.                                                *)

\* What a poster holds goes with where it is: only a batch of orders has
\* uncommitted postings, only the loop of consume_layers_fifo has a plan.
PhaseOf(p) ==
  /\ pc[p] = "receive" => doc[p] \in Grns \cup Adjustments
  /\ pc[p] \in {"read", "take"} => doc[p] \in Outbound
  /\ pc[p] = "opening" =>
       /\ doc[p] \in Periods /\ need[p] \in Quantities
       /\ saw[p].exists => layerOf[doc[p]] # 0
  /\ pc[p] = "batch" \/ (pc[p] \in {"read", "take"} /\ doc[p] \in Orders)
     \/ (wrote[p] = {} /\ held[p] = Nothing)
  /\ pc[p] = "take" \/ plan[p] = Nothing
Phase == \A p \in Posters : PhaseOf(p)

\* Layers that do not exist yet are in no row, reading or plan.
Fresh ==
  \A l \in LayerIds : l > made =>
    /\ rem[l] = 0 /\ orig[l] = 0 /\ consumed[l] = 0
    /\ \A p \in Posters : held[p][l] = 0 /\ snap[p][l] = 0

\* The loop: while something is needed, a layer is untouched or used up.
PlanOf(p) ==
  /\ \A l \in LayerIds : plan[p][l] <= snap[p][l]
  /\ pc[p] = "take" => need[p] >= 0
  /\ pc[p] = "take" /\ need[p] > 0 =>
       \A l \in LayerIds : plan[p][l] \in {0, snap[p][l]}
  /\ \A l, m \in LayerIds :
       /\ plan[p][l] > 0 /\ snap[p][m] > 0 /\ Before(p, m, l)
       => plan[p][m] = snap[p][m]
Plans == \A p \in Posters : PlanOf(p)

\* A layer is updated by one transaction at a time.
Locked ==
  \A p, q \in Posters, l \in LayerIds :
    p # q => held[p][l] = 0 \/ held[q][l] = 0

\* What a layer has left covers what is taken from it and not committed.
Funds ==
  \A l \in LayerIds :
    \/ l \in oversold \/ orig[l] < 0
    \/ rem[l] >= 0 /\ \A p \in Posters : rem[l] >= held[p][l]

\* A document nobody checked while another held it is in one hand at most,
\* and in none once it is in the ledger.
Single ==
  \A d \in Docs \ overlapped :
    /\ posted[d] <= 1
    /\ \A p \in Posters : Checked(p, d) => posted[d] = 0
    /\ \A p, q \in Posters : p # q => ~(Checked(p, d) /\ Checked(q, d))

IInv ==
  /\ TypeOK /\ Phase /\ Fresh /\ Plans /\ Locked /\ Funds
  /\ LayerAccounting /\ Single

\* Initially there is no layer, no ledger row and no transaction.
THEOREM InitStockInv == Init => IInv
<1> SUFFICES ASSUME Init PROVE IInv
  OBVIOUS
<1>1. TypeOK
  BY NothingTyped, StockConstants DEF Init, TypeOK, Points, NoRow
<1>2. Phase /\ Fresh /\ Plans /\ Locked
  BY DEF Init, Phase, PhaseOf, Fresh, Plans, PlanOf, Locked, Nothing
<1>3. Funds /\ LayerAccounting /\ Single
  BY DEF Init, Funds, LayerAccounting, Single, Checked, Nothing
<1>4. QED
  BY <1>1, <1>2, <1>3 DEF IInv

\* An opening balance is a layer with a date of its own.
LEMMA OpeningAdds ==
  ASSUME TypeOK, NEW p \in Posters, PhaseOf(p), CreateOpening(p)
  PROVE  /\ doc[p] \in Periods /\ need[p] \in Int
         /\ \E when \in Int : AddLayer(when, need[p])
<1>1. doc[p] \in Periods /\ need[p] \in Quantities /\ need[p] \in Int
  BY StockConstants DEF CreateOpening, PhaseOf
<1>2. PICK when \in OpenDates[need[p]] : AddLayer(when, need[p])
  BY DEF CreateOpening
<1>3. OpenDates[need[p]] \subseteq Int
  BY <1>1, StockConstants
<1>4. QED
  BY <1>1, <1>2, <1>3

-----------------------------------------------------------------------------
(* Type correctness.                                                       *)

LEMMA TypeStep ==
  ASSUME IInv, NEW p \in Posters, Step(p)
  PROVE  TypeOK'
<1> USE DEF rows, ghosts
<1>t. TypeOK /\ PhaseOf(p)
  BY DEF IInv, Phase
<1>l. ASSUME Leave(p), rows' = rows, asked' = asked, ghosts' = ghosts PROVE TypeOK'
  BY <1>t, <1>l, LeaveEffect DEF TypeOK
<1>1. ASSUME NEW d \in Grns, PostGrn(p, d) PROVE TypeOK'
  BY <1>t, <1>1 DEF PostGrn, Take, TypeOK, Points
<1>2. ASSUME NEW d \in Adjustments, PostAdjustment(p, d) PROVE TypeOK'
  BY <1>t, <1>2 DEF PostAdjustment, Take, TypeOK, Points
<1>3. CASE Receive(p)
  <2>1. doc[p] \in Grns \cup Adjustments /\ DateOf[doc[p]] \in Int /\ QtyOf[doc[p]] \in Int
    BY <1>t, <1>3, StockConstants DEF Receive, PhaseOf
  <2>2. /\ made' \in 0..MaxLayers /\ made <= made'
        /\ date' \in [LayerIds -> Int] /\ orig' \in [LayerIds -> Int]
        /\ rem' \in [LayerIds -> Int]
    <3>1. CASE doc[p] \in Inbound
      <4>1. AddLayer(DateOf[doc[p]], QtyOf[doc[p]])
        BY <1>3, <3>1 DEF Receive
      <4>2. made' = made + 1 /\ made \in 0..MaxLayers
        BY <1>t, <2>1, <4>1, AddLayerEffect DEF TypeOK
      <4>3. QED
        BY <1>t, <2>1, <4>1, <4>2, AddLayerEffect, StockConstants
    <3>2. CASE doc[p] \notin Inbound
      BY <1>t, <1>3, <3>2 DEF Receive, TypeOK
    <3>3. QED
      BY <3>1, <3>2
  <2>3. posted' \in [Docs -> Nat]
    BY <1>t, <1>3, <2>1 DEF Receive, TypeOK
  <2>4. layerOf' \in [Periods -> 0..made']
    BY <1>t, <1>3, <2>2 DEF Receive, TypeOK
  <2>5. QED
    BY <1>t, <1>3, <2>2, <2>3, <2>4, LeaveEffect DEF Receive, TypeOK
<1>4. CASE ReadLayers(p)
  <2>1. \A l \in LayerIds : Positive(rem[l] - held[p][l]) \in Nat
    BY <1>t, Cells DEF Positive
  <2>2. OutQty(doc[p]) \in Int
    BY <1>t, <1>4, OutQtyPositive DEF ReadLayers, PhaseOf, Outbound
  <2>3. snap' \in [Posters -> [LayerIds -> Nat]] /\ plan' \in [Posters -> [LayerIds -> Nat]]
    BY <1>t, <1>4, <2>1, NothingTyped DEF ReadLayers, TypeOK
  <2>4. dated' \in [Posters -> [LayerIds -> Int]]
    <3> DEFINE read == [l \in LayerIds |-> IF snap'[p][l] > 0 THEN date[l] ELSE 0]
    <3>1. read \in [LayerIds -> Int]
      BY <1>t, Cells
    <3>2. dated' = [dated EXCEPT ![p] = read]
      BY <1>4 DEF ReadLayers
    <3>3. QED
      BY <1>t, <3>1, <3>2 DEF TypeOK
  <2>5. QED
    BY <1>t, <1>4, <2>2, <2>3, <2>4 DEF ReadLayers, TypeOK, Points
<1>5. ASSUME NEW l \in LayerIds, TakeLayer(p, l) PROVE TypeOK'
  <2>1. Less(snap[p][l], need[p]) \in Nat
    BY <1>t, <1>5, Cells DEF TakeLayer, Less
  <2>2. plan' \in [Posters -> [LayerIds -> Nat]] /\ need' \in [Posters -> Int]
    BY <1>t, <1>5, <2>1 DEF TakeLayer, TypeOK
  <2>3. QED
    BY <1>t, <1>5, <2>2 DEF TakeLayer, TypeOK
<1>6. CASE NotEnough(p)
  BY <1>l, <1>6 DEF NotEnough
<1>7. CASE WriteAdjustment(p)
  <2>1. /\ rem' \in [LayerIds -> Int] /\ consumed' \in [LayerIds -> Nat]
        /\ overwritten' \subseteq LayerIds
    <3>1. \A l \in LayerIds : /\ snap[p][l] - plan[p][l] \in Int /\ rem[l] \in Int
                              /\ consumed[l] + plan[p][l] \in Nat
      BY <1>t, Cells
    <3>2. /\ rem' = [l \in LayerIds |->
               IF l \in Taken(p) THEN snap[p][l] - plan[p][l] ELSE rem[l]]
          /\ consumed' = [l \in LayerIds |-> consumed[l] + plan[p][l]]
          /\ overwritten' \subseteq overwritten \cup Taken(p)
      BY <1>7 DEF WriteAdjustment, Consume
    <3>3. QED
      BY <1>t, <3>1, <3>2 DEF Taken, TypeOK
  <2>2. posted' \in [Docs -> Nat]
    BY <1>t, <1>7 DEF WriteAdjustment, TypeOK
  <2>3. /\ UNCHANGED <<made, date, orig, opening, layerOf, asked,
                       overlapped, oversold, reset>>
        /\ Leave(p)
    BY <1>7 DEF WriteAdjustment
  <2>4. QED
    BY <1>t, <2>1, <2>2, <2>3, LeaveEffect DEF TypeOK
<1>8. ASSUME NEW s \in SUBSET Orders, BeginBatch(p, s) PROVE TypeOK'
  BY <1>t, <1>8 DEF BeginBatch, TypeOK, Points
<1>9. ASSUME NEW d \in Orders, CheckOrder(p, d) PROVE TypeOK'
  <2>1. pc' \in [Posters -> Points] /\ doc' \in [Posters -> Docs \cup Periods \cup {NoDoc}]
    <3>1. /\ pc' = [pc EXCEPT ![p] = "read"] \/ pc' = pc
          /\ doc' = [doc EXCEPT ![p] = d] \/ doc' = doc
      BY <1>9 DEF CheckOrder, Take
    <3>2. d \in Docs \cup Periods \cup {NoDoc} /\ "read" \in Points
      BY DEF Points
    <3>3. QED
      BY <1>t, <3>1, <3>2 DEF TypeOK
  <2>2. todo' \in [Posters -> SUBSET Orders] /\ overlapped' \subseteq Docs
    BY <1>t, <1>9 DEF CheckOrder, Take, TypeOK
  <2>3. UNCHANGED <<rows, wrote, held, snap, dated, plan, need, saw,
                    oversold, overwritten, reset, asked>>
    BY <1>9 DEF CheckOrder
  <2>4. QED
    BY <1>t, <2>1, <2>2, <2>3 DEF TypeOK
<1>10. CASE WriteSale(p)
  <2>1. held' \in [Posters -> [LayerIds -> Nat]] /\ oversold' \subseteq LayerIds
    <3>1. [l \in LayerIds |-> held[p][l] + plan[p][l]] \in [LayerIds -> Nat]
      BY <1>t, Cells
    <3>2. /\ held' = [held EXCEPT ![p] =
                         [l \in LayerIds |-> held[p][l] + plan[p][l]]]
          /\ oversold' \subseteq oversold \cup Taken(p)
      BY <1>10 DEF WriteSale
    <3>3. QED
      BY <1>t, <3>1, <3>2 DEF Taken, TypeOK
  <2>2. /\ snap' \in [Posters -> [LayerIds -> Nat]]
        /\ dated' \in [Posters -> [LayerIds -> Int]]
        /\ plan' \in [Posters -> [LayerIds -> Nat]]
    BY <1>t, <1>10, NothingTyped DEF WriteSale, TypeOK
  <2>3. QED
    BY <1>t, <1>10, <2>1, <2>2 DEF WriteSale, TypeOK, Points
<1>11. CASE CommitBatch(p)
  <2>1. rem' \in [LayerIds -> Int] /\ consumed' \in [LayerIds -> Nat]
    BY <1>t, <1>11, Cells DEF CommitBatch
  <2>2. posted' \in [Docs -> Nat]
    BY <1>t, <1>11 DEF CommitBatch, TypeOK
  <2>3. Leave(p) /\ UNCHANGED <<made, date, orig, opening, layerOf, ghosts, asked>>
    BY <1>11 DEF CommitBatch
  <2>4. QED
    BY <1>t, <2>1, <2>2, <2>3, LeaveEffect DEF TypeOK
<1>12. ASSUME NEW t \in Periods, NEW q \in Quantities, LoadOpening(p, t, q) PROVE TypeOK'
  <2>1. q \in Int /\ opening[t] \in Int
    BY <1>t, StockConstants DEF TypeOK
  <2>2. saw' \in [Posters -> [exists : BOOLEAN, qty : Int]]
    BY <1>t, <1>12, <2>1 DEF LoadOpening, TypeOK
  <2>3. /\ pc' \in [Posters -> Points] /\ need' \in [Posters -> Int] /\ asked' \in Nat
        /\ doc' \in [Posters -> Docs \cup Periods \cup {NoDoc}]
    BY <1>t, <1>12, <2>1 DEF LoadOpening, TypeOK, Points
  <2>4. UNCHANGED <<rows, todo, wrote, held, snap, dated, plan, ghosts>>
    BY <1>12 DEF LoadOpening
  <2>5. QED
    BY <1>t, <2>2, <2>3, <2>4 DEF TypeOK
<1>13. CASE CreateOpening(p)
  <2>1. PICK when \in Int :
          AddLayer(when, need[p]) /\ doc[p] \in Periods /\ need[p] \in Int
    BY <1>t, <1>13, OpeningAdds
  <2>2. /\ made' \in 0..MaxLayers /\ made' = made + 1
        /\ date' \in [LayerIds -> Int] /\ orig' \in [LayerIds -> Int]
        /\ rem' \in [LayerIds -> Int]
    BY <1>t, <2>1, AddLayerEffect
  <2>3. opening' \in [Periods -> Int] /\ layerOf' \in [Periods -> 0..made']
    BY <1>t, <1>13, <2>1, <2>2 DEF CreateOpening, TypeOK
  <2>4. QED
    BY <1>t, <1>13, <2>2, <2>3, LeaveEffect DEF CreateOpening, TypeOK
<1>14. CASE LoseOpening(p)
  BY <1>l, <1>14 DEF LoseOpening
<1>15. CASE CorrectOpening(p)
  <2>1. doc[p] \in Periods /\ layerOf[doc[p]] \in LayerIds /\ need[p] \in Int
    <3>1. /\ doc[p] \in Periods /\ layerOf[doc[p]] # 0 /\ need[p] \in Int
          /\ layerOf[doc[p]] \in 0..made /\ made \in 0..MaxLayers
      BY <1>t, <1>15 DEF CorrectOpening, PhaseOf, TypeOK
    <3>2. QED
      BY <3>1, StockConstants
  <2>2. /\ opening' \in [Periods -> Int] /\ orig' \in [LayerIds -> Int]
        /\ rem' \in [LayerIds -> Int] /\ reset' \subseteq LayerIds
    BY <1>t, <1>15, <2>1 DEF CorrectOpening, Restart, TypeOK
  <2>3. date' \in [LayerIds -> Int]
    <3>1. PICK when \in OpenDates[need[p]] :
            date' = [date EXCEPT ![layerOf[doc[p]]] = when]
      BY <1>15 DEF CorrectOpening
    <3>2. when \in Int
      BY <1>t, <1>15, StockConstants DEF CorrectOpening, PhaseOf
    <3>3. QED
      BY <1>t, <3>1, <3>2 DEF TypeOK
  <2>4. QED
    BY <1>t, <1>15, <2>2, <2>3, LeaveEffect DEF CorrectOpening, TypeOK
<1>16. CASE Abort(p)
  BY <1>l, <1>16 DEF Abort
<1>17. QED
  BY <1>1, <1>2, <1>3, <1>4, <1>5, <1>6, <1>7, <1>8, <1>9, <1>10, <1>11,
     <1>12, <1>13, <1>14, <1>15, <1>16 DEF Step

-----------------------------------------------------------------------------
(* What a step leaves alone.                                               *)

LEMMA Others ==
  ASSUME TypeOK, NEW p \in Posters, NEW q \in Posters \ {p}, Step(p)
  PROVE  /\ pc'[q] = pc[q] /\ doc'[q] = doc[q] /\ wrote'[q] = wrote[q]
         /\ held'[q] = held[q] /\ snap'[q] = snap[q] /\ plan'[q] = plan[q]
         /\ dated'[q] = dated[q] /\ need'[q] = need[q] /\ saw'[q] = saw[q]
<1> DEFINE Same == /\ pc'[q] = pc[q] /\ doc'[q] = doc[q] /\ wrote'[q] = wrote[q]
                   /\ held'[q] = held[q] /\ snap'[q] = snap[q]
                   /\ plan'[q] = plan[q] /\ dated'[q] = dated[q]
                   /\ need'[q] = need[q] /\ saw'[q] = saw[q]
<1>l. Leave(p) => Same
  BY LeaveEffect
<1>1. ASSUME NEW d \in Grns, PostGrn(p, d) PROVE Same
  BY <1>1 DEF PostGrn, Take, TypeOK
<1>2. ASSUME NEW d \in Adjustments, PostAdjustment(p, d) PROVE Same
  BY <1>2 DEF PostAdjustment, Take, TypeOK
<1>3. CASE ReadLayers(p)
  BY <1>3 DEF ReadLayers, TypeOK
<1>4. ASSUME NEW l \in LayerIds, TakeLayer(p, l) PROVE Same
  BY <1>4 DEF TakeLayer, TypeOK
<1>5. ASSUME NEW s \in SUBSET Orders, BeginBatch(p, s) PROVE Same
  BY <1>5 DEF BeginBatch, TypeOK
<1>6. ASSUME NEW d \in Orders, CheckOrder(p, d) PROVE Same
  BY <1>6 DEF CheckOrder, Take, TypeOK
<1>7. CASE WriteSale(p)
  BY <1>7 DEF WriteSale, TypeOK
<1>8. ASSUME NEW t \in Periods, NEW n \in Quantities, LoadOpening(p, t, n) PROVE Same
  BY <1>8 DEF LoadOpening, TypeOK
<1>9. QED
  BY <1>l, <1>1, <1>2, <1>3, <1>4, <1>5, <1>6, <1>7, <1>8
  DEF Step, Receive, NotEnough, WriteAdjustment, CommitBatch, CreateOpening,
      LoseOpening, CorrectOpening, Abort

LEMMA OpenedStays ==
  ASSUME IInv, NEW p \in Posters, Step(p), NEW t \in Periods, layerOf[t] # 0
  PROVE  layerOf'[t] # 0
<1>1. CASE CreateOpening(p)
  <2>1. made \in Nat /\ doc[p] \in Periods
    BY <1>1 DEF IInv, TypeOK, Phase, PhaseOf, CreateOpening
  <2>2. QED
    BY <1>1, <2>1 DEF IInv, TypeOK, CreateOpening
<1>2. CASE ~CreateOpening(p)
  BY <1>2 DEF Step, PostGrn, PostAdjustment, Receive, ReadLayers, TakeLayer,
       NotEnough, WriteAdjustment, BeginBatch, CheckOrder, WriteSale,
       CommitBatch, LoadOpening, LoseOpening, CorrectOpening, Abort, rows
<1>3. QED
  BY <1>1, <1>2

LEMMA PhaseStep ==
  ASSUME IInv, NEW p \in Posters, Step(p)
  PROVE  Phase'
<1>t. TypeOK /\ PhaseOf(p) /\ Phase
  BY DEF IInv, Phase
<1>l. Leave(p) => PhaseOf(p)'
  BY <1>t, LeaveEffect DEF PhaseOf
<1>p. PhaseOf(p)'
  <2>1. ASSUME NEW d \in Grns, PostGrn(p, d) PROVE PhaseOf(p)'
    BY <1>t, <2>1 DEF PostGrn, Take, PhaseOf, TypeOK
  <2>2. ASSUME NEW d \in Adjustments, PostAdjustment(p, d) PROVE PhaseOf(p)'
    BY <1>t, <2>2 DEF PostAdjustment, Take, PhaseOf, TypeOK, Outbound
  <2>3. CASE ReadLayers(p)
    BY <1>t, <2>3 DEF ReadLayers, PhaseOf, TypeOK
  <2>4. ASSUME NEW l \in LayerIds, TakeLayer(p, l) PROVE PhaseOf(p)'
    BY <1>t, <2>4 DEF TakeLayer, PhaseOf, TypeOK
  <2>5. ASSUME NEW s \in SUBSET Orders, BeginBatch(p, s) PROVE PhaseOf(p)'
    BY <1>t, <2>5 DEF BeginBatch, PhaseOf, TypeOK
  <2>6. ASSUME NEW d \in Orders, CheckOrder(p, d) PROVE PhaseOf(p)'
    BY <1>t, <2>6 DEF CheckOrder, Take, PhaseOf, TypeOK, Outbound
  <2>7. CASE WriteSale(p)
    BY <1>t, <2>7 DEF WriteSale, PhaseOf, TypeOK
  <2>8. ASSUME NEW t \in Periods, NEW n \in Quantities, LoadOpening(p, t, n)
        PROVE  PhaseOf(p)'
    BY <1>t, <2>8 DEF LoadOpening, PhaseOf, TypeOK, Opened, rows
  <2>9. QED
    BY <1>l, <2>1, <2>2, <2>3, <2>4, <2>5, <2>6, <2>7, <2>8
    DEF Step, Receive, NotEnough, WriteAdjustment, CommitBatch, CreateOpening,
        LoseOpening, CorrectOpening, Abort
<1>q. ASSUME NEW q \in Posters \ {p} PROVE PhaseOf(q)'
  BY <1>t, <1>q, Others, OpenedStays DEF Phase, PhaseOf
<1>1. QED
  BY <1>p, <1>q DEF Phase

LEMMA AddLayerGrows ==
  ASSUME TypeOK, NEW when \in Int, NEW qty \in Int, AddLayer(when, qty)
  PROVE  made \in 0..MaxLayers /\ made' \in 0..MaxLayers /\ made <= made'
<1>1. made' = made + 1 /\ made' \in 0..MaxLayers
  BY AddLayerEffect
<1>2. made \in 0..MaxLayers
  BY DEF TypeOK
<1>3. QED
  BY <1>1, <1>2

\* Rows are appended.
LEMMA RowsGrow ==
  ASSUME IInv, NEW p \in Posters, Step(p)
  PROVE  made \in 0..MaxLayers /\ made' \in 0..MaxLayers /\ made <= made'
<1>t. TypeOK /\ PhaseOf(p)
  BY DEF IInv, Phase
<1>1. CASE Receive(p)
  <2>1. CASE doc[p] \in Inbound
    <3>1. AddLayer(DateOf[doc[p]], QtyOf[doc[p]])
      BY <1>1, <2>1 DEF Receive
    <3>2. DateOf[doc[p]] \in Int /\ QtyOf[doc[p]] \in Int
      BY <1>t, <1>1, StockConstants DEF Receive, PhaseOf
    <3>3. QED
      BY <1>t, <3>1, <3>2, AddLayerGrows
  <2>2. CASE doc[p] \notin Inbound
    BY <1>t, <1>1, <2>2 DEF Receive, TypeOK
  <2>3. QED
    BY <2>1, <2>2
<1>2. CASE CreateOpening(p)
  <2>1. PICK when \in Int : AddLayer(when, need[p]) /\ need[p] \in Int
    BY <1>t, <1>2, OpeningAdds
  <2>2. QED
    BY <1>t, <2>1, AddLayerGrows
<1>3. CASE ~Receive(p) /\ ~CreateOpening(p)
  <2>1. made' = made
    BY <1>3 DEF Step, PostGrn, PostAdjustment, ReadLayers, TakeLayer, NotEnough,
       WriteAdjustment, BeginBatch, CheckOrder, WriteSale, CommitBatch,
       LoadOpening, LoseOpening, CorrectOpening, Abort, rows
  <2>2. made \in 0..MaxLayers /\ MaxLayers \in Nat
    BY <1>t, StockConstants DEF TypeOK
  <2>3. QED
    BY <2>1, <2>2
<1>4. QED
  BY <1>1, <1>2, <1>3

LEMMA PlansStep ==
  ASSUME IInv, NEW p \in Posters, Step(p)
  PROVE  Plans'
<1>t. TypeOK /\ PhaseOf(p) /\ PlanOf(p) /\ Phase /\ Plans /\ Fresh
  BY DEF IInv, Phase, Plans
<1>s. ASSUME NEW q \in Posters, plan'[q] = plan[q], snap'[q] = snap[q],
             dated'[q] = dated[q], need'[q] = need[q], pc'[q] = pc[q]
      PROVE  PlanOf(q)'
  <2>1. PlanOf(q)
    BY <1>t DEF Plans
  <2>2. QED
    BY <1>s, <2>1 DEF PlanOf, Before
<1>n. plan'[p] = Nothing /\ snap' \in [Posters -> [LayerIds -> Nat]] /\ pc'[p] # "take"
        => PlanOf(p)'
  <2>1. ASSUME snap' \in [Posters -> [LayerIds -> Nat]], NEW l \in LayerIds
        PROVE  snap'[p][l] \in Nat
    BY <2>1
  <2>2. QED
    BY <2>1 DEF PlanOf, Nothing
<1>i. pc[p] # "take" => plan[p] = Nothing
  BY <1>t DEF PhaseOf
<1>y. TypeOK'
  BY TypeStep
<1>p. PlanOf(p)'
  <2>l. Leave(p) => PlanOf(p)'
    BY <1>n, <1>t, LeaveEffect
  <2>1. ASSUME NEW d \in Grns, PostGrn(p, d) PROVE PlanOf(p)'
    BY <1>t, <1>i, <1>n, <2>1 DEF PostGrn, Take, TypeOK
  <2>2. ASSUME NEW d \in Adjustments, PostAdjustment(p, d) PROVE PlanOf(p)'
    BY <1>t, <1>i, <1>n, <2>2 DEF PostAdjustment, Take, TypeOK
  <2>3. CASE ReadLayers(p)
    <3>1. need'[p] \in Nat /\ plan'[p] = Nothing
      BY <1>t, <2>3, OutQtyPositive DEF ReadLayers, PhaseOf, TypeOK
    <3>2. \A l \in LayerIds : snap'[p][l] \in Nat
      BY <1>y, Cells DEF TypeOK
    <3>3. QED
      BY <3>1, <3>2 DEF PlanOf, Nothing
  <2>4. ASSUME NEW k \in LayerIds, TakeLayer(p, k) PROVE PlanOf(p)'
    <3> DEFINE take == Less(snap[p][k], need[p])
    <3>1. /\ pc[p] = "take" /\ need[p] > 0 /\ need[p] \in Int
          /\ snap[p][k] > 0 /\ plan[p][k] = 0 /\ snap'[p] = snap[p]
          /\ \A l \in LayerIds : plan[p][l] \in {0, snap[p][l]}
      BY <1>t, <2>4 DEF TakeLayer, Left, PlanOf, TypeOK
    <3>2. take \in Nat /\ 0 < take /\ take <= snap[p][k] /\ take <= need[p]
          /\ (take = need[p] \/ take = snap[p][k])
      BY <1>t, <3>1, Cells DEF Less
    <3>3. /\ need'[p] = need[p] - take
          /\ \A l \in LayerIds : plan'[p][l] = IF l = k THEN take ELSE plan[p][l]
      BY <1>t, <2>4 DEF TakeLayer, TypeOK
    <3>4. dated'[p] = dated[p]
      BY <2>4 DEF TakeLayer
    <3>5. ASSUME NEW l \in LayerIds, NEW m \in LayerIds,
                 plan'[p][l] > 0, snap[p][m] > 0, Before(p, m, l)
          PROVE  plan'[p][m] = snap[p][m]
      <4>1. CASE l = k
        <5>1. m # k /\ ~Before(p, k, m)
          BY <1>t, <3>5, <4>1, Cells DEF Before
        <5>2. m \notin Left(p)
          BY <2>4, <5>1 DEF TakeLayer
        <5>3. QED
          BY <3>1, <3>3, <3>5, <5>1, <5>2 DEF Left
      <4>2. CASE l # k
        BY <1>t, <3>1, <3>3, <3>5, <4>2 DEF PlanOf
      <4>3. QED
        BY <4>1, <4>2
    <3>6. ASSUME NEW l \in LayerIds, NEW m \in LayerIds,
                 plan'[p][l] > 0, snap'[p][m] > 0, Before(p, m, l)'
          PROVE  plan'[p][m] = snap'[p][m]
      BY <3>1, <3>4, <3>5, <3>6 DEF Before
    <3>7. \A l \in LayerIds : plan'[p][l] <= snap'[p][l]
      BY <1>t, <3>1, <3>2, <3>3 DEF PlanOf
    <3>8. need'[p] >= 0 /\ (need'[p] > 0 => take = snap[p][k])
      BY <3>1, <3>2, <3>3
    <3>9. QED
      BY <3>1, <3>3, <3>6, <3>7, <3>8 DEF PlanOf
  <2>5. ASSUME NEW s \in SUBSET Orders, BeginBatch(p, s) PROVE PlanOf(p)'
    BY <1>t, <1>i, <1>n, <2>5 DEF BeginBatch, TypeOK
  <2>6. ASSUME NEW d \in Orders, CheckOrder(p, d) PROVE PlanOf(p)'
    BY <1>t, <1>i, <1>n, <2>6 DEF CheckOrder, Take, TypeOK
  <2>7. CASE WriteSale(p)
    BY <1>t, <1>y, <1>n, <2>7 DEF WriteSale, TypeOK
  <2>8. ASSUME NEW t \in Periods, NEW n \in Quantities, LoadOpening(p, t, n)
        PROVE  PlanOf(p)'
    BY <1>t, <1>i, <1>n, <2>8 DEF LoadOpening, TypeOK
  <2>9. QED
    BY <2>l, <2>1, <2>2, <2>3, <2>4, <2>5, <2>6, <2>7, <2>8
    DEF Step, Receive, NotEnough, WriteAdjustment, CommitBatch, CreateOpening,
        LoseOpening, CorrectOpening, Abort
<1>1. QED
  BY <1>t, <1>p, <1>s, Others DEF Plans

LEMMA FreshStep ==
  ASSUME IInv, NEW p \in Posters, Step(p)
  PROVE  Fresh'
<1>t. TypeOK /\ PhaseOf(p) /\ PlanOf(p) /\ Fresh
  BY DEF IInv, Phase, Plans
<1>g. made \in Nat /\ made' \in Nat /\ made <= made'
  BY RowsGrow, StockConstants
<1> SUFFICES ASSUME NEW l \in LayerIds, l > made'
             PROVE  /\ rem'[l] = 0 /\ orig'[l] = 0 /\ consumed'[l] = 0
                    /\ held'[p][l] = 0 /\ snap'[p][l] = 0
  <2>1. ASSUME NEW l \in LayerIds, l > made', NEW q \in Posters \ {p}
        PROVE  held'[q][l] = 0 /\ snap'[q][l] = 0
    BY <1>t, <1>g, <2>1, Others DEF Fresh
  <2>2. QED
    BY <2>1 DEF Fresh
<1>z. /\ rem[l] = 0 /\ orig[l] = 0 /\ consumed[l] = 0
      /\ held[p][l] = 0 /\ snap[p][l] = 0 /\ plan[p][l] = 0 /\ l > made
  BY <1>t, <1>g, Cells DEF Fresh, PlanOf
<1>m. /\ held'[p][l] = 0 /\ snap'[p][l] = 0
  <2>l. Leave(p) => held'[p][l] = 0 /\ snap'[p][l] = 0
    <3>1. Leave(p) => held'[p] = Nothing /\ snap'[p] = Nothing
      BY <1>t, LeaveEffect
    <3>2. QED
      BY <3>1 DEF Nothing
  <2>1. CASE ReadLayers(p)
    BY <1>t, <1>z, <2>1 DEF ReadLayers, Positive, TypeOK
  <2>2. CASE WriteSale(p)
    BY <1>t, <1>z, <2>2 DEF WriteSale, Nothing, TypeOK
  <2>3. QED
    BY <1>z, <2>l, <2>1, <2>2
    DEF Step, PostGrn, PostAdjustment, Receive, TakeLayer, NotEnough,
        WriteAdjustment, BeginBatch, CheckOrder, CommitBatch, LoadOpening,
        CreateOpening, LoseOpening, CorrectOpening, Abort
<1>r. rem'[l] = 0 /\ orig'[l] = 0 /\ consumed'[l] = 0
  <2>1. CASE Receive(p)
    <3>1. doc[p] \in Inbound =>
            DateOf[doc[p]] \in Int /\ QtyOf[doc[p]] \in Int
            /\ AddLayer(DateOf[doc[p]], QtyOf[doc[p]])
      BY <1>t, <2>1, StockConstants DEF Receive, PhaseOf
    <3>2. QED
      BY <1>t, <1>z, <2>1, <3>1, AddLayerEffect DEF Receive
  <2>2. CASE WriteAdjustment(p)
    BY <1>z, <2>2 DEF WriteAdjustment, Taken, Consume
  <2>3. CASE CommitBatch(p)
    BY <1>z, <2>3 DEF CommitBatch
  <2>4. CASE CreateOpening(p)
    <3>1. PICK when \in Int : AddLayer(when, need[p]) /\ need[p] \in Int
      BY <1>t, <2>4, OpeningAdds
    <3>2. QED
      BY <1>t, <1>z, <2>4, <3>1, AddLayerEffect DEF CreateOpening
  <2>5. CASE CorrectOpening(p)
    <3>1. layerOf[doc[p]] # l
      BY <1>t, <1>g, <1>z, <2>5 DEF CorrectOpening, PhaseOf, TypeOK
    <3>2. QED
      BY <1>t, <1>z, <2>5, <3>1 DEF CorrectOpening, TypeOK
  <2>6. QED
    BY <1>z, <2>1, <2>2, <2>3, <2>4, <2>5
    DEF Step, PostGrn, PostAdjustment, ReadLayers, TakeLayer, NotEnough,
        BeginBatch, CheckOrder, WriteSale, LoadOpening, LoseOpening, Abort, rows
<1>1. QED
  BY <1>m, <1>r

-----------------------------------------------------------------------------
(* Locks and quantities.                                                   *)

LEMMA LockedStep ==
  ASSUME IInv, NEW p \in Posters, Step(p)
  PROVE  Locked'
<1>t. TypeOK /\ Locked
  BY DEF IInv
<1>1. ASSUME NEW q \in Posters \ {p}, NEW l \in LayerIds
      PROVE  held'[p][l] = 0 \/ held[q][l] = 0
  <2>l. Leave(p) => held'[p][l] = 0
    <3>1. Leave(p) => held'[p] = Nothing
      BY <1>t, LeaveEffect
    <3>2. QED
      BY <3>1 DEF Nothing
  <2>1. CASE WriteSale(p)
    <3>1. held'[p][l] = held[p][l] + plan[p][l]
      BY <1>t, <2>1 DEF WriteSale, TypeOK
    <3>2. plan[p][l] > 0 => held[q][l] = 0
      BY <1>1, <2>1 DEF WriteSale, CanWrite, Taken, Unlocked
    <3>3. QED
      BY <1>t, <1>1, <3>1, <3>2, Cells DEF Locked
  <2>2. held'[p] = held[p] => held'[p][l] = 0 \/ held[q][l] = 0
    BY <1>t, <1>1 DEF Locked
  <2>3. QED
    BY <2>l, <2>1, <2>2
    DEF Step, PostGrn, PostAdjustment, Receive, ReadLayers, TakeLayer,
        NotEnough, WriteAdjustment, BeginBatch, CheckOrder, CommitBatch,
        LoadOpening, CreateOpening, LoseOpening, CorrectOpening, Abort
<1>2. QED
  BY <1>t, <1>1, Others DEF Locked

\* The layers a step of the rows concerns: the units in rem, orig, consumed.
LEMMA AccountsStep ==
  ASSUME IInv, NEW p \in Posters, Step(p)
  PROVE  LayerAccounting'
<1>t. TypeOK /\ PhaseOf(p) /\ Fresh /\ LayerAccounting
  BY DEF IInv, Phase
<1> SUFFICES ASSUME NEW l \in LayerIds, l \notin overwritten', l \notin reset'
             PROVE  rem'[l] + consumed'[l] = orig'[l]
  BY DEF LayerAccounting
<1>c. /\ rem[l] \in Int /\ orig[l] \in Int /\ consumed[l] \in Nat
      /\ held[p][l] \in Nat /\ plan[p][l] \in Nat /\ snap[p][l] \in Nat
  BY <1>t, Cells
<1>o. l \notin overwritten /\ l \notin reset
        => rem[l] + consumed[l] = orig[l]
  BY <1>t DEF LayerAccounting
<1>n. ASSUME NEW when \in Int, NEW qty \in Int, AddLayer(when, qty),
             consumed' = consumed, ghosts' = ghosts
      PROVE  rem'[l] + consumed'[l] = orig'[l]
  <2>1. l = made' => consumed[l] = 0
    BY <1>t, <1>n, AddLayerEffect DEF Fresh, TypeOK
  <2>2. /\ orig'[made'] = qty /\ rem'[made'] = qty
        /\ l # made' => orig'[l] = orig[l] /\ rem'[l] = rem[l]
    BY <1>t, <1>n, AddLayerEffect
  <2>3. consumed'[l] = consumed[l] /\ overwritten' = overwritten /\ reset' = reset
    BY <1>n DEF ghosts
  <2>4. QED
    BY <1>o, <1>n, <2>1, <2>2, <2>3
<1>1. CASE Receive(p)
  <2>1. DateOf[doc[p]] \in Int /\ QtyOf[doc[p]] \in Int
    BY <1>t, <1>1, StockConstants DEF Receive, PhaseOf
  <2>2. QED
    BY <1>o, <1>n, <1>1, <2>1 DEF Receive, ghosts
<1>2. CASE WriteAdjustment(p)
  <2>1. l \in Taken(p) => rem[l] = snap[p][l]
    BY <1>2 DEF WriteAdjustment
  <2>2. rem'[l] = rem[l] - plan[p][l]
    BY <1>c, <1>2, <2>1 DEF WriteAdjustment, Taken
  <2>3. consumed'[l] = consumed[l] + plan[p][l] /\ orig'[l] = orig[l]
    BY <1>2 DEF WriteAdjustment, Consume
  <2>4. l \notin overwritten /\ l \notin reset
    BY <1>2 DEF WriteAdjustment
  <2>5. QED
    BY <1>c, <1>o, <2>2, <2>3, <2>4
<1>3. CASE CommitBatch(p)
  BY <1>c, <1>o, <1>3 DEF CommitBatch, ghosts
<1>4. CASE CreateOpening(p)
  <2>1. PICK when \in Int : AddLayer(when, need[p]) /\ need[p] \in Int
    BY <1>t, <1>4, OpeningAdds
  <2>2. QED
    BY <1>n, <1>4, <2>1 DEF CreateOpening
<1>5. CASE CorrectOpening(p)
  <2>1. l \notin overwritten /\ l \notin reset /\ consumed'[l] = consumed[l]
    BY <1>5 DEF CorrectOpening
  <2>2. CASE l = layerOf[doc[p]]
    <3>1. ~(consumed[l] > 0)
      BY <1>5, <2>2 DEF CorrectOpening
    <3>2. rem'[l] = need[p] /\ orig'[l] = need[p] /\ need[p] \in Int
      BY <1>t, <1>5, <2>2 DEF CorrectOpening, Restart, TypeOK
    <3>3. QED
      BY <1>c, <2>1, <3>1, <3>2
  <2>3. CASE l # layerOf[doc[p]]
    BY <1>t, <1>o, <1>5, <2>1, <2>3 DEF CorrectOpening, TypeOK
  <2>4. QED
    BY <2>2, <2>3
<1>6. QED
  BY <1>o, <1>1, <1>2, <1>3, <1>4, <1>5
  DEF Step, PostGrn, PostAdjustment, ReadLayers, TakeLayer, NotEnough,
      BeginBatch, CheckOrder, WriteSale, LoadOpening, LoseOpening, Abort,
      rows, ghosts

LEMMA FundsStep ==
  ASSUME IInv, NEW p \in Posters, Step(p)
  PROVE  Funds'
<1>t. TypeOK /\ PhaseOf(p) /\ PlanOf(p) /\ Fresh /\ Funds /\ Locked /\ Phase
  BY DEF IInv, Phase, Plans
<1>c. ASSUME NEW l \in LayerIds, NEW q \in Posters
      PROVE  /\ rem[l] \in Int /\ held[q][l] \in Nat
             /\ plan[q][l] \in Nat /\ snap[q][l] \in Nat
  BY <1>t, Cells
<1>l. Leave(p) => \A l \in LayerIds :
        /\ held'[p][l] = 0
        /\ \A q \in Posters \ {p} : held'[q][l] = held[q][l]
  <2>1. Leave(p) => /\ held'[p] = Nothing
                    /\ \A q \in Posters \ {p} : held'[q] = held[q]
    BY <1>t, LeaveEffect
  <2>2. QED
    BY <2>1 DEF Nothing
<1>a. ASSUME Leave(p), NEW when \in Int, NEW qty \in Int, AddLayer(when, qty),
             ghosts' = ghosts
      PROVE  Funds'
  <2> SUFFICES ASSUME NEW l \in LayerIds, l \notin oversold', ~(orig'[l] < 0)
               PROVE  rem'[l] >= 0 /\ \A q \in Posters : rem'[l] >= held'[q][l]
    BY DEF Funds
  <2>1. CASE l = made'
    <3>1. \A q \in Posters : held[q][l] = 0
      <4>1. l = made + 1 /\ made \in Nat
        BY <1>t, <1>a, <2>1, AddLayerEffect DEF TypeOK
      <4>2. QED
        BY <1>t, <4>1 DEF Fresh
    <3>2. rem'[l] = qty /\ orig'[l] = qty
      BY <1>t, <1>a, <2>1, AddLayerEffect
    <3>3. QED
      BY <1>a, <1>l, <3>1, <3>2
  <2>2. CASE l # made'
    <3>1. rem'[l] = rem[l] /\ orig'[l] = orig[l]
      BY <1>t, <1>a, <2>2, AddLayerEffect
    <3>2. rem[l] >= 0 /\ \A q \in Posters : rem[l] >= held[q][l]
      BY <1>t, <1>a, <3>1 DEF Funds, ghosts
    <3>3. QED
      BY <1>a, <1>l, <3>1, <3>2
  <2>3. QED
    BY <2>1, <2>2
<1>s. ASSUME rem' = rem, orig' = orig, oversold' = oversold, held' = held \/ Leave(p)
      PROVE  Funds'
  BY <1>t, <1>l, <1>s DEF Funds
<1>1. CASE Receive(p)
  <2>1. DateOf[doc[p]] \in Int /\ QtyOf[doc[p]] \in Int
    BY <1>t, <1>1, StockConstants DEF Receive, PhaseOf
  <2>2. QED
    BY <1>a, <1>s, <1>1, <2>1 DEF Receive, ghosts
<1>2. CASE WriteAdjustment(p)
  <2> SUFFICES ASSUME NEW l \in LayerIds, l \notin oversold', ~(orig'[l] < 0)
               PROVE  rem'[l] >= 0 /\ \A q \in Posters : rem'[l] >= held'[q][l]
    BY DEF Funds
  <2>1. rem[l] >= 0 /\ \A q \in Posters : rem[l] >= held[q][l]
    BY <1>t, <1>2 DEF Funds, WriteAdjustment
  <2>2. CASE l \in Taken(p)
    <3>1. \A q \in Posters \ {p} : held[q][l] = 0
      BY <1>2, <2>2 DEF WriteAdjustment, CanWrite, Unlocked
    <3>2. rem'[l] = snap[p][l] - plan[p][l] /\ plan[p][l] <= snap[p][l]
      BY <1>t, <1>2, <2>2 DEF WriteAdjustment, PlanOf
    <3>3. QED
      BY <1>c, <1>l, <1>2, <3>1, <3>2 DEF WriteAdjustment
  <2>3. CASE l \notin Taken(p)
    BY <1>l, <1>2, <2>1, <2>3 DEF WriteAdjustment
  <2>4. QED
    BY <2>2, <2>3
<1>3. CASE WriteSale(p)
  <2> SUFFICES ASSUME NEW l \in LayerIds, l \notin oversold', ~(orig'[l] < 0)
               PROVE  rem'[l] >= 0 /\ \A q \in Posters : rem'[l] >= held'[q][l]
    BY DEF Funds
  <2>1. rem[l] >= 0 /\ \A q \in Posters : rem[l] >= held[q][l]
    BY <1>t, <1>3 DEF Funds, WriteSale, rows
  <2>2. rem'[l] = rem[l] /\ \A q \in Posters \ {p} : held'[q] = held[q]
    BY <1>t, <1>3, Others DEF WriteSale, rows
  <2>3. held'[p][l] = held[p][l] + plan[p][l]
    BY <1>t, <1>3 DEF WriteSale, TypeOK
  <2>4. plan[p][l] > 0 => rem[l] - held[p][l] = snap[p][l]
    BY <1>3 DEF WriteSale, Taken
  <2>5. plan[p][l] <= snap[p][l]
    BY <1>t DEF PlanOf
  <2>6. rem[l] >= held'[p][l]
    BY <1>c, <2>1, <2>3, <2>4, <2>5
  <2>7. QED
    BY <2>1, <2>2, <2>6
<1>4. CASE CommitBatch(p)
  <2> SUFFICES ASSUME NEW l \in LayerIds, l \notin oversold', ~(orig'[l] < 0)
               PROVE  rem'[l] >= 0 /\ \A q \in Posters : rem'[l] >= held'[q][l]
    BY DEF Funds
  <2>1. rem[l] >= 0 /\ \A q \in Posters : rem[l] >= held[q][l]
    BY <1>t, <1>4 DEF Funds, CommitBatch, ghosts
  <2>2. rem'[l] = rem[l] - held[p][l]
    BY <1>4 DEF CommitBatch
  <2>3. \A q \in Posters \ {p} : held[p][l] = 0 \/ held[q][l] = 0
    BY <1>t DEF Locked
  <2>4. QED
    BY <1>c, <1>l, <1>4, <2>1, <2>2, <2>3 DEF CommitBatch
<1>5. CASE CreateOpening(p)
  <2>1. PICK when \in Int : AddLayer(when, need[p]) /\ need[p] \in Int
    BY <1>t, <1>5, OpeningAdds
  <2>2. QED
    BY <1>a, <1>5, <2>1 DEF CreateOpening
<1>6. CASE CorrectOpening(p)
  <2> SUFFICES ASSUME NEW l \in LayerIds, l \notin oversold', ~(orig'[l] < 0)
               PROVE  rem'[l] >= 0 /\ \A q \in Posters : rem'[l] >= held'[q][l]
    BY DEF Funds
  <2>1. CASE l = layerOf[doc[p]]
    <3>1. rem'[l] = need[p] /\ orig'[l] = need[p] /\ need[p] \in Int
      BY <1>t, <1>6, <2>1 DEF CorrectOpening, Restart, TypeOK
    <3>2. \A q \in Posters \ {p} : held[q][l] = 0
      BY <1>6, <2>1 DEF CorrectOpening, Unlocked
    <3>3. QED
      BY <1>l, <1>6, <3>1, <3>2 DEF CorrectOpening
  <2>2. CASE l # layerOf[doc[p]]
    <3>1. rem'[l] = rem[l] /\ orig'[l] = orig[l]
      BY <1>t, <1>6, <2>2 DEF CorrectOpening, TypeOK
    <3>2. rem[l] >= 0 /\ \A q \in Posters : rem[l] >= held[q][l]
      BY <1>t, <1>6, <3>1 DEF Funds, CorrectOpening
    <3>3. QED
      BY <1>l, <1>6, <3>1, <3>2 DEF CorrectOpening
  <2>3. QED
    BY <2>1, <2>2
<1>7. QED
  BY <1>s, <1>1, <1>2, <1>3, <1>4, <1>5, <1>6
  DEF Step, PostGrn, PostAdjustment, ReadLayers, TakeLayer, NotEnough,
      BeginBatch, CheckOrder, LoadOpening, LoseOpening, Abort, rows, ghosts

-----------------------------------------------------------------------------
(* One document, one hand.                                                 *)

\* Passing the check of d is what makes a poster hold it; a poster that
\* passes while another holds d marks d.
LEMMA TakeKeepsSingle ==
  ASSUME IInv, NEW p \in Posters, Step(p), NEW e \in Docs, NEW at \in Points,
         Take(p, e, at), posted[e] = 0, posted' = posted, wrote' = wrote
  PROVE  Single'
<1>t. TypeOK /\ Single
  BY DEF IInv
<1>1. \A d \in Docs : Checked(p, d)' => Checked(p, d) \/ d = e
  BY <1>t DEF Take, Checked, TypeOK
<1>2. \A d \in Docs, q \in Posters \ {p} : Checked(q, d)' = Checked(q, d)
  BY <1>t, Others DEF Checked
<1>3. \A d \in Docs : d \notin overlapped' =>
        /\ d \notin overlapped
        /\ d = e => \A q \in Posters \ {p} : ~Checked(q, d)
  BY DEF Take
<1> SUFFICES ASSUME NEW d \in Docs, d \notin overlapped'
             PROVE  /\ posted'[d] <= 1
                    /\ \A q \in Posters : Checked(q, d)' => posted'[d] = 0
                    /\ \A q, r \in Posters :
                         q # r => ~(Checked(q, d)' /\ Checked(r, d)')
  BY DEF Single
<1>4. /\ posted[d] <= 1
      /\ \A q \in Posters : Checked(q, d) => posted[d] = 0
      /\ \A q, r \in Posters : q # r => ~(Checked(q, d) /\ Checked(r, d))
  BY <1>t, <1>3 DEF Single
<1>5. QED
  BY <1>1, <1>2, <1>3, <1>4

LEMMA SingleStep ==
  ASSUME IInv, NEW p \in Posters, Step(p)
  PROVE  Single'
<1>t. TypeOK /\ PhaseOf(p) /\ Single
  BY DEF IInv, Phase
<1>q. \A d \in Docs, q \in Posters \ {p} : Checked(q, d)' = Checked(q, d)
  BY <1>t, Others DEF Checked
<1>l. Leave(p) => \A d \in Docs : ~Checked(p, d)'
  BY <1>t, LeaveEffect DEF Checked
<1>s. ASSUME posted' = posted, overlapped' = overlapped,
             \A d \in Docs : Checked(p, d)' => Checked(p, d)
      PROVE  Single'
  BY <1>t, <1>q, <1>s DEF Single
<1>c. ASSUME Leave(p), overlapped' = overlapped, posted' \in [Docs -> Nat],
             \A d \in Docs : posted'[d] = posted[d]
                           \/ (Checked(p, d) /\ posted'[d] = posted[d] + 1)
      PROVE  Single'
  <2> SUFFICES ASSUME NEW d \in Docs, d \notin overlapped
               PROVE  /\ posted'[d] <= 1
                      /\ \A q \in Posters : Checked(q, d)' => posted'[d] = 0
                      /\ \A q, r \in Posters :
                           q # r => ~(Checked(q, d)' /\ Checked(r, d)')
    BY <1>c DEF Single
  <2>1. /\ posted[d] <= 1
        /\ \A q \in Posters : Checked(q, d) => posted[d] = 0
        /\ \A q, r \in Posters : q # r => ~(Checked(q, d) /\ Checked(r, d))
    BY <1>t DEF Single
  <2>2. QED
    BY <1>c, <1>l, <1>q, <2>1
<1>1. ASSUME NEW d \in Grns, PostGrn(p, d) PROVE Single'
  BY <1>1, TakeKeepsSingle DEF PostGrn, Unposted, Points, rows
<1>2. ASSUME NEW d \in Adjustments, PostAdjustment(p, d) PROVE Single'
  <2>1. PICK at \in Points : Take(p, d, at)
    BY <1>2 DEF PostAdjustment, Points
  <2>2. QED
    BY <1>2, <2>1, TakeKeepsSingle DEF PostAdjustment, Unposted, rows
<1>3. CASE Receive(p)
  <2>1. doc[p] \in Docs /\ Checked(p, doc[p])
    BY <1>t, <1>3 DEF Receive, PhaseOf, Checked
  <2>2. posted' \in [Docs -> Nat] /\ \A d \in Docs :
          posted'[d] = IF d = doc[p] THEN posted[d] + 1 ELSE posted[d]
    BY <1>t, <1>3, <2>1 DEF Receive, TypeOK
  <2>3. QED
    BY <1>c, <1>3, <2>1, <2>2 DEF Receive, ghosts
<1>4. CASE ReadLayers(p)
  BY <1>t, <1>s, <1>4 DEF ReadLayers, Checked, TypeOK, rows, ghosts
<1>5. ASSUME NEW l \in LayerIds, TakeLayer(p, l) PROVE Single'
  BY <1>s, <1>5 DEF TakeLayer, Checked, rows, ghosts
<1>6. CASE NotEnough(p) \/ LoseOpening(p) \/ Abort(p)
  BY <1>l, <1>s, <1>6 DEF NotEnough, LoseOpening, Abort, rows, ghosts
<1>7. CASE WriteAdjustment(p)
  <2>1. doc[p] \in Docs /\ Checked(p, doc[p])
    BY <1>7 DEF WriteAdjustment, CanWrite, Checked
  <2>2. posted' \in [Docs -> Nat] /\ \A d \in Docs :
          posted'[d] = IF d = doc[p] THEN posted[d] + 1 ELSE posted[d]
    BY <1>t, <1>7, <2>1 DEF WriteAdjustment, TypeOK
  <2>3. QED
    BY <1>c, <1>7, <2>1, <2>2 DEF WriteAdjustment
<1>8. ASSUME NEW s \in SUBSET Orders, BeginBatch(p, s) PROVE Single'
  BY <1>t, <1>s, <1>8 DEF BeginBatch, Checked, TypeOK, rows, ghosts
<1>9. ASSUME NEW d \in Orders, CheckOrder(p, d) PROVE Single'
  <2>1. CASE Unposted(d)
    BY <1>9, <2>1, TakeKeepsSingle DEF CheckOrder, Unposted, Points, rows
  <2>2. CASE ~Unposted(d)
    BY <1>s, <1>9, <2>2 DEF CheckOrder, Checked, rows
  <2>3. QED
    BY <2>1, <2>2
<1>10. CASE WriteSale(p)
  <2>1. \A d \in Docs : Checked(p, d)' => Checked(p, d)
    BY <1>t, <1>10 DEF WriteSale, CanWrite, Checked, TypeOK
  <2>2. QED
    BY <1>s, <1>10, <2>1 DEF WriteSale, rows
<1>11. CASE CommitBatch(p)
  <2>1. posted' \in [Docs -> Nat] /\ \A d \in Docs :
          posted'[d] = IF d \in wrote[p] THEN posted[d] + 1 ELSE posted[d]
    BY <1>t, <1>11 DEF CommitBatch, TypeOK
  <2>2. QED
    BY <1>c, <1>11, <2>1 DEF CommitBatch, Checked, ghosts
<1>12. ASSUME NEW t \in Periods, NEW n \in Quantities, LoadOpening(p, t, n)
       PROVE  Single'
  BY <1>t, <1>s, <1>12 DEF LoadOpening, Checked, TypeOK, rows, ghosts
<1>13. CASE CreateOpening(p) \/ CorrectOpening(p)
  BY <1>l, <1>s, <1>13 DEF CreateOpening, CorrectOpening, ghosts
<1>14. QED
  BY <1>1, <1>2, <1>3, <1>4, <1>5, <1>6, <1>7, <1>8, <1>9, <1>10, <1>11,
     <1>12, <1>13 DEF Step

-----------------------------------------------------------------------------
(* The theorems.                                                           *)

LEMMA StockInvStep == IInv /\ [Next]_vars => IInv'
<1> SUFFICES ASSUME IInv, [Next]_vars PROVE IInv'
  OBVIOUS
<1>1. ASSUME NEW p \in Posters, Step(p) PROVE IInv'
  BY <1>1, TypeStep, PhaseStep, FreshStep, PlansStep, LockedStep, FundsStep,
     AccountsStep, SingleStep DEF IInv
<1>2. CASE UNCHANGED vars
  BY <1>2 DEF IInv, vars, rows, local, ghosts, TypeOK, Phase, PhaseOf, Fresh,
     Plans, PlanOf, Before, Locked, Funds, LayerAccounting, Single, Checked
<1>3. QED
  BY <1>1, <1>2 DEF Next

LEMMA StockInv == Spec => []IInv
BY InitStockInv, StockInvStep, PTL DEF Spec

\* Every step of posting, correcting and rolling back keeps the types: no
\* layer counts a negative quantity as read, planned, held or consumed.
THEOREM StockTypeCorrect == Spec => []TypeOK
<1>1. IInv => TypeOK
  BY DEF IInv
<1>2. QED
  BY <1>1, StockInv, PTL

\* For any posters and documents, what was taken from a layer and what is
\* left make up its original quantity, but for the two lost updates named.
THEOREM LayerAccountingHolds == Spec => []LayerAccounting
<1>1. IInv => LayerAccounting
  BY DEF IInv
<1>2. QED
  BY <1>1, StockInv, PTL

\* For any posters and documents, a layer is overdrawn only by a sale that
\* computed its plan from a reading another posting had made untrue.
THEOREM NeverOversoldHolds == Spec => []NeverOversold
<1>1. IInv => NeverOversold
  <2>1. ASSUME IInv, NEW l \in LayerIds, rem[l] < 0
        PROVE  l \in oversold \/ orig[l] < 0
    <3>1. rem[l] \in Int /\ Funds
      BY <2>1 DEF IInv, TypeOK
    <3>2. QED
      BY <2>1, <3>1 DEF Funds
  <2>2. QED
    BY <2>1 DEF NeverOversold
<1>2. QED
  BY <1>1, StockInv, PTL

\* For any layers, dates and quantities, consume_layers_fifo draws first in,
\* first out by the dates it has read, also while other posters add layers
\* dated earlier or give an opening balance another date.
THEOREM OldestFirstHolds == Spec => []OldestFirst
<1>1. IInv => OldestFirst
  BY DEF IInv, Plans, PlanOf, OldestFirst, Before
<1>2. QED
  BY <1>1, StockInv, PTL

\* For any number of posters and batches, a second ledger row for a document
\* needs two posters past its check at the same time.
THEOREM PostedOnceHolds == Spec => []PostedOnce
<1>1. IInv => PostedOnce
  BY DEF IInv, Single, PostedOnce
<1>2. QED
  BY <1>1, StockInv, PTL
=============================================================================
