------------------------ MODULE InventoryBookProofs --------------------------
(***************************************************************************)
(* InventoryLayers implements StockBook, for any posters, documents,       *)
(* periods and quantities: each step of a poster books a document or a     *)
(* batch, states an opening balance, or does nothing that shows.           *)
(***************************************************************************)
EXTENDS InventorySumsProofs

USE DEF LayerIds, Docs

\* The sum the book speaks of is the sum of the layers.
LEMMA BookSum == \A f, S : Book!SumOf(f, S) = SumOf(f, S)
BY DEF Book!SumOf, SumOf, Book!MapThenSumSet, MapThenSumSet,
       Book!MapThenFoldSet, MapThenFoldSet

LEMMA MovesOf ==
  /\ Moves \in [Docs -> Int]
  /\ \A d \in Orders : d \in Docs /\ d \in Outbound /\ Moves[d] = -OutQty(d)
  /\ \A d \in Docs \ Orders : Moves[d] = QtyOf[d]
<1>1. \A d \in Docs : QtyOf[d] \in Int
  BY StockConstants
<1>2. /\ Moves \in [Docs -> Int]
      /\ \A d \in Docs : Moves[d] = IF d \in Orders THEN -QtyOf[d] ELSE QtyOf[d]
  BY <1>1 DEF Moves
<1>3. \A d \in Orders : d \in Docs /\ d \in Outbound
  BY DEF Outbound
<1>4. QED
  BY <1>2, <1>3 DEF OutQty

LEMMA BookInit == Init => Book!Init
<1> SUFFICES ASSUME Init PROVE Book!Init
  OBVIOUS
<1>1. SumOf(rem, LayerIds) = 0
  BY NothingTaken DEF Init
<1>2. Opened = {}
  BY DEF Init, Opened
<1>3. QED
  BY <1>1, <1>2 DEF Init, Book!Init

-----------------------------------------------------------------------------
(* What a step does to the layers as one number.                           *)

LEMMA LayersTotal == TypeOK => SumOf(rem, LayerIds) \in Int
BY RowsFinite, SumInt DEF TypeOK

\* A new layer adds its quantity.
LEMMA AddedLayer ==
  ASSUME TypeOK, Fresh, NEW when \in Int, NEW qty \in Int, AddLayer(when, qty)
  PROVE  SumOf(rem', LayerIds) = SumOf(rem, LayerIds) + qty
<1>1. /\ made' = made + 1 /\ made' \in LayerIds /\ rem'[made'] = qty
      /\ \A l \in LayerIds \ {made'} : rem'[l] = rem[l]
  BY AddLayerEffect
<1>2. rem[made'] = 0
  BY <1>1 DEF Fresh, TypeOK
<1> HIDE DEF LayerIds
<1>3. \A l \in LayerIds : rem[l] \in Int /\ rem'[l] \in Int
  BY <1>1 DEF TypeOK
<1>4. SumOf(rem', LayerIds) = SumOf(rem, LayerIds) - rem[made'] + rem'[made']
  <2>1. made' \in LayerIds /\ \A l \in LayerIds \ {made'} : rem'[l] = rem[l]
    BY <1>1
  <2>2. QED
    BY <1>3, <2>1, RowsFinite, SumChange
<1>5. QED
  BY <1>1, <1>2, <1>4, LayersTotal

\* What a posting takes is gone from the layers.
LEMMA TakenOut ==
  ASSUME NEW cut, \A l \in LayerIds : /\ rem[l] \in Int /\ cut[l] \in Int
                                      /\ rem'[l] = rem[l] - cut[l]
  PROVE  SumOf(rem', LayerIds) = SumOf(rem, LayerIds) - SumOf(cut, LayerIds)
<1>1. \A l \in LayerIds : /\ rem'[l] \in Int /\ cut[l] \in Int
                          /\ rem[l] = rem'[l] + cut[l]
  OBVIOUS
<1>2. SumOf(rem, LayerIds) = SumOf(rem', LayerIds) + SumOf(cut, LayerIds)
  <2> HIDE DEF LayerIds
  <2>1. QED
    BY <1>1, RowsFinite, SumPlus
<1>3. SumOf(rem', LayerIds) \in Int /\ SumOf(cut, LayerIds) \in Int
  BY <1>1, RowsFinite, SumInt
<1>4. QED
  BY <1>2, <1>3

\* A batch has taken what its orders say.
LEMMA HeldByBatch ==
  ASSUME TypeOK, NEW p \in Posters, HeldOf(p)
  PROVE  SumOf(Moves, wrote[p]) = -SumOf(held[p], LayerIds)
<1>1. wrote[p] \in SUBSET Outbound /\ \A d \in wrote[p] : d \in Orders
  BY DEF TypeOK, Outbound
<1>2. IsFiniteSet(wrote[p])
  BY <1>1, RowsFinite, FS_Subset
<1>3. SumOf(Uncommitted(p), Outbound) = SumOf(Uncommitted(p), wrote[p])
  <2>1. /\ \A d \in Outbound : Uncommitted(p)[d] \in Int
        /\ \A d \in Outbound \ wrote[p] : Uncommitted(p)[d] = 0
    BY UncommittedColumn DEF Uncommitted
  <2>2. QED
    BY <1>1, <2>1, RowsFinite, SumSubset
<1>4. SumOf(Moves, wrote[p]) = -SumOf(Uncommitted(p), wrote[p])
  <2>1. \A d \in wrote[p] : /\ Uncommitted(p)[d] \in Int
                            /\ Moves[d] = -Uncommitted(p)[d]
    BY <1>1, MovesOf, UncommittedColumn DEF Uncommitted
  <2>2. QED
    BY <1>2, <2>1, SumNegated
<1>5. QED
  BY <1>3, <1>4 DEF HeldOf

-----------------------------------------------------------------------------
(* The steps of the book.                                                  *)

\* A document a poster is about to commit is not in the ledger, unless two
\* posters had it in hand at once.
LEMMA Enterable ==
  ASSUME Single, NEW p \in Posters, NEW d \in Docs, Checked(p, d)
  PROVE  posted[d] = 0 \/ d \in overlapped
BY DEF Single

\* One more row of one document is an entry of the book.
LEMMA EnterOne ==
  ASSUME TypeOK, Single, NEW p \in Posters, NEW d \in Docs, Checked(p, d),
         posted' = [posted EXCEPT ![d] = @ + 1],
         UNCHANGED <<layerOf, opening, overlapped>>
  PROVE  Book!Enter({d})
<1>1. posted' = [e \in Docs |-> IF e \in {d} THEN posted[e] + 1 ELSE posted[e]]
  BY DEF TypeOK
<1>2. Opened' = Opened
  BY DEF Opened
<1>3. \A e \in {d} : posted[e] = 0 \/ e \in overlapped
  BY Enterable
<1>4. QED
  BY <1>1, <1>2, <1>3 DEF Book!Enter

LEMMA ReceiveBooks ==
  ASSUME IInv, SumInv, NEW p \in Posters, Receive(p)
  PROVE  Book!Next
<1> DEFINE d == doc[p]
<1>t. TypeOK /\ Single /\ Fresh /\ PhaseOf(p) /\ InHandOf(p)
  BY DEF IInv, Phase, SumInv, Hands
<1>1. /\ d \in Docs \ Orders /\ d \notin Outbound /\ Checked(p, d)
      /\ DateOf[d] \in Int /\ QtyOf[d] \in Int
  <2>1. /\ pc[p] = "receive" /\ d \in Grns \cup Adjustments /\ d \notin Outbound
        /\ Checked(p, d)
    BY <1>t DEF Receive, PhaseOf, InHandOf, Checked
  <2>2. d \in Docs \ Orders
    BY <2>1, KindsDisjoint
  <2>3. QED
    BY <2>1, <2>2, StockConstants
<1>2. /\ posted' = [posted EXCEPT ![d] = @ + 1]
      /\ UNCHANGED <<layerOf, opening, overlapped, overwritten, reset>>
  BY DEF Receive, ghosts
<1>3. Book!Enter({d})
  BY <1>t, <1>1, <1>2, EnterOne
<1>4. SumOf(rem', LayerIds) = SumOf(rem, LayerIds) + QtyOf[d]
  <2>1. CASE d \in Inbound
    <3>1. AddLayer(DateOf[d], QtyOf[d])
      BY <2>1 DEF Receive
    <3>2. QED
      BY <1>t, <1>1, <3>1, AddedLayer
  <2>2. CASE d \notin Inbound
    <3>1. QtyOf[d] = 0
      BY <1>t, <1>1, <2>2, StockConstants DEF Receive, PhaseOf, Inbound, Outbound
    <3>2. rem' = rem
      BY <2>2 DEF Receive
    <3>3. QED
      BY <1>t, <3>1, <3>2, LayersTotal
  <2>3. QED
    BY <2>1, <2>2
<1> HIDE DEF d
<1>5. SumOf(Moves, {d}) = QtyOf[d]
  BY <1>1, MovesOf, SumSingle
<1>6. Book!Book({d})
  BY <1>2, <1>3, <1>4, <1>5, BookSum DEF Book!Book
<1>7. QED
  BY <1>1, <1>6 DEF Book!Next

LEMMA AdjustmentBooks ==
  ASSUME IInv, SumInv, NEW p \in Posters, WriteAdjustment(p)
  PROVE  Book!Next
<1> DEFINE d == doc[p]
           stale == {l \in Taken(p) : rem[l] # snap[p][l]}
<1>t. TypeOK /\ Single /\ PhaseOf(p) /\ PlannedOf(p)
  BY DEF IInv, Phase, SumInv, Hands
<1>1. /\ d \in Docs \ Orders /\ d \in Outbound /\ Checked(p, d)
      /\ pc[p] = "take" /\ need[p] = 0
  <2>1. /\ pc[p] = "take" /\ need[p] = 0 /\ d \in Adjustments /\ d \in Outbound
        /\ Checked(p, d)
    BY <1>t DEF WriteAdjustment, CanWrite, PhaseOf, Checked
  <2>2. d \in Docs \ Orders
    BY <2>1, KindsDisjoint
  <2>3. QED
    BY <2>1, <2>2
<1>2. QtyOf[d] \in Int /\ QtyOf[d] < 0 /\ OutQty(d) = -QtyOf[d]
  BY <1>1, StockConstants DEF Outbound, OutQty
<1>3. /\ posted' = [posted EXCEPT ![d] = @ + 1]
      /\ overwritten' = overwritten \cup stale
      /\ UNCHANGED <<layerOf, opening, overlapped, reset>>
  BY DEF WriteAdjustment
<1>4. Book!Enter({d})
  BY <1>t, <1>1, <1>3, EnterOne
<1>5. Moves[d] = QtyOf[d]
  BY <1>1, MovesOf
<1>6. CASE stale = {}
  <2>1. \A l \in LayerIds : /\ rem[l] \in Int /\ plan[p][l] \in Int
                            /\ rem'[l] = rem[l] - plan[p][l]
    <3> SUFFICES ASSUME NEW l \in LayerIds
                 PROVE  /\ rem[l] \in Int /\ plan[p][l] \in Int
                        /\ rem'[l] = rem[l] - plan[p][l]
      OBVIOUS
    <3>1. rem[l] \in Int /\ plan[p][l] \in Nat /\ snap[p][l] \in Nat
      BY <1>t, Cells
    <3>2. rem'[l] = IF l \in Taken(p) THEN snap[p][l] - plan[p][l] ELSE rem[l]
      BY DEF WriteAdjustment
    <3>3. QED
      BY <1>6, <3>1, <3>2 DEF Taken
  <2>2. SumOf(rem', LayerIds) = SumOf(rem, LayerIds) - SumOf(plan[p], LayerIds)
    BY <2>1, TakenOut
  <2>3. SumOf(plan[p], LayerIds) \in Int
    BY <2>1, RowsFinite, SumInt
  <2>4. SumOf(plan[p], LayerIds) = OutQty(d)
    BY <1>t, <1>1, <2>3 DEF PlannedOf
  <2> HIDE DEF d, stale
  <2>5. SumOf(Moves, {d}) = QtyOf[d]
    BY <1>2, <1>5, SumSingle
  <2>6. SumOf(rem', LayerIds) = SumOf(rem, LayerIds) + SumOf(Moves, {d})
    BY <1>t, <1>2, <2>2, <2>4, <2>5, LayersTotal
  <2>7. Book!Book({d})
    BY <1>3, <1>4, <1>6, <2>6, BookSum DEF Book!Book
  <2>8. QED
    BY <1>1, <2>7 DEF Book!Next
<1>7. CASE stale # {}
  <2>1. SumOf(rem', LayerIds) \in Int
    <3>1. \A l \in LayerIds : rem[l] \in Int /\ snap[p][l] \in Int /\ plan[p][l] \in Int
      BY <1>t, Cells
    <3>2. \A l \in LayerIds : rem'[l] \in Int
      BY <3>1 DEF WriteAdjustment
    <3>3. QED
      BY <3>2, RowsFinite, SumInt
  <2> HIDE DEF d, stale
  <2>2. Book!Misbook(d)
    BY <1>1, <1>2, <1>3, <1>4, <1>5, <1>7, <2>1 DEF Book!Misbook
  <2>3. QED
    BY <1>1, <2>2 DEF Book!Next
<1>8. QED
  BY <1>6, <1>7

LEMMA BatchBooks ==
  ASSUME IInv, SumInv, NEW p \in Posters, CommitBatch(p)
  PROVE  Book!Next
<1> DEFINE S == wrote[p]
<1>t. TypeOK /\ Single /\ HeldOf(p)
  BY DEF IInv, SumInv, Hands
<1>1. S \in SUBSET Orders /\ \A d \in S : d \in Docs /\ Checked(p, d)
  <2>1. S \in SUBSET Orders
    BY <1>t DEF TypeOK
  <2>2. \A d \in S : Checked(p, d)
    BY DEF Checked
  <2>3. QED
    BY <2>1, <2>2
<1>2. /\ posted' = [d \in Docs |-> IF d \in S THEN posted[d] + 1 ELSE posted[d]]
      /\ UNCHANGED <<layerOf, opening, overlapped, overwritten, reset>>
  BY DEF CommitBatch, ghosts
<1>3. Book!Enter(S)
  <2>1. Opened' = Opened
    BY <1>2 DEF Opened
  <2>2. \A d \in S : posted[d] = 0 \/ d \in overlapped
    BY <1>t, <1>1, Enterable
  <2>3. QED
    BY <1>2, <2>1, <2>2 DEF Book!Enter
<1>4. SumOf(rem', LayerIds) = SumOf(rem, LayerIds) - SumOf(held[p], LayerIds)
  <2>1. \A l \in LayerIds : /\ rem[l] \in Int /\ held[p][l] \in Int
                            /\ rem'[l] = rem[l] - held[p][l]
    BY <1>t, LayerColumns DEF CommitBatch
  <2>2. QED
    BY <2>1, TakenOut
<1>5. SumOf(Moves, S) = -SumOf(held[p], LayerIds)
  BY <1>t, HeldByBatch
<1>6. SumOf(held[p], LayerIds) \in Int
  BY <1>t, LayerColumns, RowsFinite, SumInt
<1> HIDE DEF S
<1>7. SumOf(rem', LayerIds) = SumOf(rem, LayerIds) + SumOf(Moves, S)
  BY <1>t, <1>4, <1>5, <1>6, LayersTotal
<1>8. Book!Book(S)
  BY <1>2, <1>3, <1>7, BookSum DEF Book!Book
<1>9. QED
  BY <1>1, <1>8 DEF Book!Next

LEMMA CreateOpens ==
  ASSUME IInv, SumInv, NEW p \in Posters, CreateOpening(p)
  PROVE  Book!Next
<1> DEFINE t == doc[p]
           n == need[p]
<1>t. TypeOK /\ Fresh /\ PhaseOf(p) /\ InHandOf(p)
  BY DEF IInv, Phase, SumInv, Hands
<1>1. /\ t \in Periods /\ t \notin Opened /\ n \in Quantities /\ n \in Int
  BY <1>t, StockConstants DEF CreateOpening, PhaseOf, InHandOf, TypeOK
<1>2. SumOf(rem', LayerIds) = SumOf(rem, LayerIds) + n
  <2>1. PICK when \in Int : AddLayer(when, n)
    BY <1>t, OpeningAdds
  <2>2. QED
    BY <1>t, <1>1, <2>1, AddedLayer
<1>3. /\ opening' = [opening EXCEPT ![t] = n]
      /\ layerOf' = [layerOf EXCEPT ![t] = made + 1]
      /\ UNCHANGED <<posted, overlapped, overwritten, reset>>
  BY DEF CreateOpening, ghosts
<1>4. Opened' = Opened \cup {t}
  <2>1. \A u \in Periods : layerOf'[u] = IF u = t THEN made + 1 ELSE layerOf[u]
    BY <1>t, <1>3 DEF TypeOK
  <2>2. made + 1 # 0
    BY <1>t DEF TypeOK
  <2> HIDE DEF t
  <2>3. QED
    BY <1>1, <2>1, <2>2 DEF Opened
<1> HIDE DEF t, n
<1>5. Book!Open(t, n)
  BY <1>1, <1>2, <1>3, <1>4 DEF Book!Open
<1>6. QED
  BY <1>1, <1>5 DEF Book!Next

LEMMA CorrectionRestates ==
  ASSUME IInv, SumInv, NEW p \in Posters, CorrectOpening(p)
  PROVE  Book!Next
<1> DEFINE t == doc[p]
           l == layerOf[t]
           n == need[p]
<1>t. TypeOK /\ LayerAccounting /\ PhaseOf(p) /\ InHandOf(p) /\ Openings
  BY DEF IInv, Phase, SumInv, Hands
<1>1. /\ t \in Periods /\ t \in Opened /\ n \in Quantities /\ n \in Int
  BY <1>t, StockConstants DEF CorrectOpening, PhaseOf, InHandOf, TypeOK, Opened
<1>2. l \in LayerIds
  <2>1. l \in 0..made /\ made \in 0..MaxLayers /\ l # 0
    BY <1>t, <1>1 DEF TypeOK, Opened
  <2>2. QED
    BY <2>1, StockConstants
<1>3. /\ opening' = [opening EXCEPT ![t] = IF saw[p].qty = n THEN @ ELSE n]
      /\ rem' = [rem EXCEPT ![l] = n]
      /\ reset' = IF consumed[l] > 0 \/ opening[t] # saw[p].qty
                    THEN reset \cup {l} ELSE reset
      /\ UNCHANGED <<posted, layerOf, overlapped, overwritten>>
  BY DEF CorrectOpening, Restart
<1>4. Opened' = Opened
  BY <1>3 DEF Opened
<1>5. \A m \in LayerIds : rem[m] \in Int /\ rem'[m] = IF m = l THEN n ELSE rem[m]
  BY <1>t, <1>3 DEF TypeOK
<1> HIDE DEF l, t, n
<1>6. \A m \in LayerIds : rem'[m] \in Int
  BY <1>1, <1>5
<1>7. SumOf(rem', LayerIds) = SumOf(rem, LayerIds) - rem[l] + n
  <2> HIDE DEF LayerIds
  <2>1. /\ \A m \in LayerIds : rem[m] \in Int /\ rem'[m] \in Int
        /\ \A m \in LayerIds \ {l} : rem'[m] = rem[m]
    BY <1>5, <1>6
  <2>2. SumOf(rem', LayerIds) = SumOf(rem, LayerIds) - rem[l] + rem'[l]
    BY <1>2, <2>1, RowsFinite, SumChange
  <2>3. QED
    BY <1>2, <1>5, <2>2
<1>8. CASE overwritten' = {} /\ reset' = {}
  <2>1. /\ overwritten = {} /\ reset = {} /\ ~(consumed[l] > 0)
        /\ opening[t] = saw[p].qty
    BY <1>3, <1>8
  <2>2. opening' = [opening EXCEPT ![t] = n]
    BY <1>t, <1>3, <2>1 DEF TypeOK
  <2>3. rem[l] = opening[t]
    <3>1. rem[l] + consumed[l] = orig[l]
      BY <1>t, <1>2, <2>1 DEF LayerAccounting
    <3>2. consumed[l] = 0
      BY <1>t, <1>2, <2>1, Cells DEF TypeOK
    <3>3. orig[l] = opening[t]
      BY <1>t, <1>1, <2>1 DEF Openings, l
    <3>4. rem[l] \in Int
      BY <1>2, <1>5
    <3>5. QED
      BY <3>1, <3>2, <3>3, <3>4
  <2>4. SumOf(rem', LayerIds) = SumOf(rem, LayerIds) + n - opening[t]
    BY <1>t, <1>1, <1>2, <1>5, <1>7, <2>3, LayersTotal
  <2>5. Book!Restate(t, n)
    BY <1>1, <1>3, <1>4, <1>8, <2>1, <2>2, <2>4 DEF Book!Restate
  <2>6. QED
    BY <1>1, <2>5 DEF Book!Next
<1>9. CASE ~(overwritten' = {} /\ reset' = {})
  <2>1. \E m \in Quantities \cup {opening[t]} : opening' = [opening EXCEPT ![t] = m]
    <3>1. CASE saw[p].qty = n
      BY <1>3, <3>1
    <3>2. CASE saw[p].qty # n
      BY <1>1, <1>3, <3>2
    <3>3. QED
      BY <3>1, <3>2
  <2>2. SumOf(rem', LayerIds) \in Int
    BY <1>6, RowsFinite, SumInt
  <2>3. Book!Misstate(t)
    BY <1>1, <1>3, <1>4, <1>9, <2>1, <2>2 DEF Book!Misstate
  <2>4. QED
    BY <1>1, <2>3 DEF Book!Next
<1>10. QED
  BY <1>8, <1>9

\* The other steps show at most that a document is in two hands at once.
LEMMA TakingDisputes ==
  ASSUME NEW p \in Posters, NEW d \in Docs, NEW at, Take(p, d, at),
         UNCHANGED <<rows, oversold, overwritten, reset>>
  PROVE  [Book!Next]_Book!vars
<1>1. UNCHANGED <<posted, Opened, opening, SumOf(rem, LayerIds), overwritten, reset>>
  BY DEF rows, Opened
<1>2. CASE overlapped' = overlapped
  BY <1>1, <1>2 DEF Book!vars
<1>3. CASE overlapped' # overlapped
  <2>1. overlapped' = overlapped \cup {d}
    BY <1>3 DEF Take
  <2>2. Book!Dispute(d)
    BY <1>1, <2>1 DEF Book!Dispute
  <2>3. QED
    BY <2>2 DEF Book!Next
<1>4. QED
  BY <1>2, <1>3

LEMMA BookStep ==
  ASSUME IInv, SumInv, NEW p \in Posters, Step(p)
  PROVE  [Book!Next]_Book!vars
<1>s. ASSUME UNCHANGED <<rows, ghosts>> PROVE [Book!Next]_Book!vars
  BY <1>s DEF rows, ghosts, Opened, Book!vars
<1>1. ASSUME NEW d \in Grns, PostGrn(p, d) PROVE [Book!Next]_Book!vars
  BY <1>1, TakingDisputes DEF PostGrn
<1>2. ASSUME NEW d \in Adjustments, PostAdjustment(p, d)
      PROVE  [Book!Next]_Book!vars
  BY <1>2, TakingDisputes DEF PostAdjustment
<1>3. ASSUME NEW d \in Orders, CheckOrder(p, d) PROVE [Book!Next]_Book!vars
  <2>1. CASE Unposted(d)
    BY <1>3, <2>1, TakingDisputes DEF CheckOrder
  <2>2. CASE ~Unposted(d)
    BY <1>s, <1>3, <2>2 DEF CheckOrder, ghosts
  <2>3. QED
    BY <2>1, <2>2
<1>4. ASSUME \/ ReadLayers(p) \/ \E l \in LayerIds : TakeLayer(p, l)
             \/ NotEnough(p) \/ \E s \in SUBSET Orders : BeginBatch(p, s)
             \/ \E t \in Periods, q \in Quantities : LoadOpening(p, t, q)
             \/ LoseOpening(p) \/ Abort(p)
      PROVE  [Book!Next]_Book!vars
  BY <1>s, <1>4
  DEF ReadLayers, TakeLayer, NotEnough, BeginBatch, LoadOpening, LoseOpening, Abort
<1>5. ASSUME WriteSale(p) PROVE [Book!Next]_Book!vars
  BY <1>5 DEF WriteSale, rows, Opened, Book!vars
<1>6. QED
  BY <1>1, <1>2, <1>3, <1>4, <1>5, ReceiveBooks, AdjustmentBooks, BatchBooks,
     CreateOpens, CorrectionRestates
  DEF Step

\* For any posters, documents, batches and layers, what the ledger, the opening
\* balances and the layers show together is a history of the book: postings
\* are all or nothing, once, and the stock moves by what they say.
THEOREM StockBookRefined == Spec => ImplementsBook
<1>1. IInv /\ SumInv /\ [Next]_vars => [Book!Next]_Book!vars
  <2> SUFFICES ASSUME IInv, SumInv, [Next]_vars PROVE [Book!Next]_Book!vars
    OBVIOUS
  <2>1. CASE UNCHANGED vars
    BY <2>1 DEF vars, rows, ghosts, Opened, Book!vars
  <2>2. QED
    BY <2>1, BookStep DEF Next
<1>2. QED
  BY <1>1, BookInit, StockInv, Sums, PTL DEF Spec, ImplementsBook, Book!Spec
=============================================================================
