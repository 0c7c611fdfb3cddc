--------------------------- MODULE InventoryLayers ---------------------------
(***************************************************************************)
(* The stock of one SKU of one shop: the ledger (inventory_ledger), the    *)
(* dated layers it is made of (inventory_layers), and what each outbound   *)
(* posting took from which layer (inventory_layer_consumptions).  Posters  *)
(* are request handlers and order imports, each with a transaction of its  *)
(* own under READ COMMITTED: goods receipts, adjustments, batches of       *)
(* pending orders and opening balances.                                    *)
(*                                                                         *)
(* A document has one line for the SKU.  Costs and the running columns of  *)
(* the ledger (qty_before, avg_cost_after) are left out: a ledger row is   *)
(* its quantity, so posted[d] counts the rows of document d, and the       *)
(* status of the document ("completed", "posted", inventory_deducted),     *)
(* written by the same transaction, is posted[d] > 0.  A write and the     *)
(* commit that follows it are one step, except in a batch of orders, whose *)
(* earlier orders keep their rows locked (held) until the last is posted.  *)
(***************************************************************************)
EXTENDS Integers, FiniteSets, Sums

CONSTANTS
  Posters, Grns, Adjustments,
  Orders,     \* orders should_post_pending_order accepts, by order_ts and id
  Periods,    \* accounting periods, in order
  Quantities, \* opening quantities a caller may state
  QtyOf,      \* quantity of each document: qty_received, qty_delta, qty
  DateOf,     \* receipt_date, adjustment_date of an inbound document
  OpenDates,  \* OpenDates[q]: dates a caller may state with the quantity q
  MaxLayers,  \* bound: rows of inventory_layers
  MaxOpenings,\* bound: requests to state an opening balance
  NoDoc       \* no document in hand

Docs == Grns \cup Adjustments \cup Orders
Inbound == Grns \cup {a \in Adjustments : QtyOf[a] > 0}
Outbound == Orders \cup {a \in Adjustments : QtyOf[a] < 0}

ASSUME StockConstants ==
  /\ MaxLayers \in Nat /\ MaxOpenings \in Nat
  /\ Orders \subseteq Nat /\ Periods \subseteq Nat /\ Quantities \subseteq Int
  /\ QtyOf \in [Docs -> Int] /\ \A d \in Grns : QtyOf[d] >= 0
  /\ \A d \in Orders : QtyOf[d] > 0
  /\ DateOf \in [Grns \cup Adjustments -> Int]
  /\ OpenDates \in [Quantities -> SUBSET Int]
ASSUME KindsDisjoint ==
  /\ Grns \cap Adjustments = {} /\ Grns \cap Orders = {}
  /\ Adjustments \cap Orders = {} /\ NoDoc \notin Docs \cup Periods
\* A table has finitely many rows.
ASSUME StockFinite == IsFiniteSet(Docs) /\ IsFiniteSet(Periods)

LayerIds == 1..MaxLayers
OutQty(d) == IF d \in Orders THEN QtyOf[d] ELSE - QtyOf[d]

VARIABLES
  made,       \* layers 1..made exist
  date,       \* date[l]: received_date
  orig,       \* orig[l]: original_qty
  rem,        \* rem[l]: committed remaining_qty
  consumed,   \* consumed[l]: sum of the consumption rows of l
  posted,     \* posted[d]: ledger rows of document d
  opening,    \* opening[t]: opening_qty of period t
  layerOf,    \* layerOf[t]: the layer of the opening balance of t, 0 for none
  pc, doc,    \* where poster p is, and with which document
  todo,       \* todo[p]: orders of the batch p has not come to
  wrote,      \* wrote[p]: orders p posted and has not committed
  held,       \* held[p][l]: what p took from l and has not committed
  snap,       \* snap[p][l]: remaining_qty p has read, 0 when not above 0
  dated,      \* dated[p][l]: received_date p has read with it
  plan,       \* plan[p][l]: what p decided to take from l
  need,       \* need[p]: what is left to take; the quantity of an opening
  saw,        \* saw[p]: the opening row p has loaded
  asked,      \* how much of MaxOpenings is spent
  overlapped, \* ghost: documents a poster checked while another held them
  oversold,   \* ghost: layers a sale took from on a reading no longer true
  overwritten,\* ghost: layers an adjustment set on a reading no longer true
  reset       \* ghost: opening layers corrected after use or on an old row

rows == <<made, date, orig, rem, consumed, posted, opening, layerOf>>
ghosts == <<overlapped, oversold, overwritten, reset>>
local == <<pc, doc, todo, wrote, held, snap, dated, plan, need, saw>>
vars == <<rows, local, asked, ghosts>>

Nothing == [l \in LayerIds |-> 0]
NoRow == [exists |-> FALSE, qty |-> 0]
Points == {"idle", "receive", "batch", "read", "take", "opening"}

TypeOK ==
  /\ made \in 0..MaxLayers
  /\ date \in [LayerIds -> Int] /\ orig \in [LayerIds -> Int]
  /\ rem \in [LayerIds -> Int] /\ consumed \in [LayerIds -> Nat]
  /\ posted \in [Docs -> Nat]
  /\ opening \in [Periods -> Int] /\ layerOf \in [Periods -> 0..made]
  /\ pc \in [Posters -> Points]
  /\ doc \in [Posters -> Docs \cup Periods \cup {NoDoc}]
  /\ todo \in [Posters -> SUBSET Orders] /\ wrote \in [Posters -> SUBSET Orders]
  /\ held \in [Posters -> [LayerIds -> Nat]]
  /\ snap \in [Posters -> [LayerIds -> Nat]]
  /\ dated \in [Posters -> [LayerIds -> Int]]
  /\ plan \in [Posters -> [LayerIds -> Nat]]
  /\ need \in [Posters -> Int]
  /\ saw \in [Posters -> [exists : BOOLEAN, qty : Int]]
  /\ asked \in Nat
  /\ overlapped \subseteq Docs
  /\ oversold \subseteq LayerIds /\ overwritten \subseteq LayerIds
  /\ reset \subseteq LayerIds

Init ==
  /\ made = 0 /\ date = Nothing /\ orig = Nothing /\ rem = Nothing
  /\ consumed = Nothing
  /\ posted = [d \in Docs |-> 0]
  /\ opening = [t \in Periods |-> 0] /\ layerOf = [t \in Periods |-> 0]
  /\ pc = [p \in Posters |-> "idle"] /\ doc = [p \in Posters |-> NoDoc]
  /\ todo = [p \in Posters |-> {}] /\ wrote = [p \in Posters |-> {}]
  /\ held = [p \in Posters |-> Nothing] /\ snap = [p \in Posters |-> Nothing]
  /\ dated = [p \in Posters |-> Nothing]
  /\ plan = [p \in Posters |-> Nothing] /\ need = [p \in Posters |-> 0]
  /\ saw = [p \in Posters |-> NoRow]
  /\ asked = 0
  /\ overlapped = {} /\ oversold = {} /\ overwritten = {} /\ reset = {}

\* The poster has passed the check of document d and not committed it.
Checked(p, d) ==
  d \in wrote[p] \/ (doc[p] = d /\ pc[p] \in {"receive", "read", "take"})

\* No other transaction has an uncommitted update of layer l.
Unlocked(p, l) == \A q \in Posters \ {p} : held[q][l] = 0

\* Faulty variant: a failed posting does not roll the session back.
LeaveOpen(p) ==
  /\ pc' = [pc EXCEPT ![p] = "idle"] /\ doc' = [doc EXCEPT ![p] = NoDoc]
  /\ todo' = [todo EXCEPT ![p] = {}] /\ wrote' = [wrote EXCEPT ![p] = {}]
  /\ snap' = [snap EXCEPT ![p] = Nothing]
  /\ dated' = [dated EXCEPT ![p] = Nothing]
  /\ plan' = [plan EXCEPT ![p] = Nothing]
  /\ need' = [need EXCEPT ![p] = 0] /\ saw' = [saw EXCEPT ![p] = NoRow]
  /\ UNCHANGED held

\* The transaction is over, committed or rolled back; its session is closed.
Leave(p) ==
  /\ pc' = [pc EXCEPT ![p] = "idle"] /\ doc' = [doc EXCEPT ![p] = NoDoc]
  /\ todo' = [todo EXCEPT ![p] = {}] /\ wrote' = [wrote EXCEPT ![p] = {}]
  /\ held' = [held EXCEPT ![p] = Nothing]
  /\ snap' = [snap EXCEPT ![p] = Nothing]
  /\ dated' = [dated EXCEPT ![p] = Nothing]
  /\ plan' = [plan EXCEPT ![p] = Nothing]
  /\ need' = [need EXCEPT ![p] = 0] /\ saw' = [saw EXCEPT ![p] = NoRow]

\* A new layer with all of its quantity left.
AddLayer(when, qty) ==
  /\ made < MaxLayers
  /\ made' = made + 1
  /\ date' = [date EXCEPT ![made + 1] = when]
  /\ orig' = [orig EXCEPT ![made + 1] = qty]
  /\ rem' = [rem EXCEPT ![made + 1] = qty]

\* The header is read and its status checked; nothing is locked.
Take(p, d, at) ==
  /\ doc' = [doc EXCEPT ![p] = d]
  /\ pc' = [pc EXCEPT ![p] = at]
  /\ overlapped' = IF \E q \in Posters \ {p} : Checked(q, d)
                     THEN overlapped \cup {d} ELSE overlapped

(***************************************************************************)
(* Receipts and adjustments.                                               *)
(***************************************************************************)

\* Faulty variant: the guard on the document's status is gone.
UnpostedUnchecked(d) == d \in Docs

Unposted(d) == posted[d] = 0

PostGrn(p, d) ==
  /\ pc[p] = "idle" /\ Unposted(d)
  /\ Take(p, d, "receive")
  /\ UNCHANGED <<rows, todo, wrote, held, snap, dated, plan, need, saw,
                 oversold, overwritten, reset, asked>>

PostAdjustment(p, d) ==
  /\ pc[p] = "idle" /\ Unposted(d)
  /\ Take(p, d, IF QtyOf[d] < 0 THEN "read" ELSE "receive")
  /\ UNCHANGED <<rows, todo, wrote, held, snap, dated, plan, need, saw,
                 oversold, overwritten, reset, asked>>

\* Ledger row, inbound layer and status of the document, committed together.
\* An adjustment of zero writes a ledger row only.
Receive(p) ==
  /\ pc[p] = "receive"
  /\ IF doc[p] \in Inbound
       THEN AddLayer(DateOf[doc[p]], QtyOf[doc[p]])
       ELSE UNCHANGED <<made, date, orig, rem>>
  /\ posted' = [posted EXCEPT ![doc[p]] = @ + 1]
  /\ Leave(p)
  /\ UNCHANGED <<consumed, opening, layerOf, ghosts, asked>>

(***************************************************************************)
(* First in, first out.                                                    *)
(***************************************************************************)

\* Faulty variant: the rows are not filtered by remaining_qty > 0.
Unfiltered(n) == n

\* Only rows with remaining_qty > 0 are read.
Positive(n) == IF n > 0 THEN n ELSE 0

\* Faulty variant: everything still needed is taken from one layer.
AllOf(a, b) == b

Less(a, b) == IF a < b THEN a ELSE b

\* The outbound ledger row is inserted, then the layers with something left
\* are read: the committed rows and this transaction's own updates.  The order
\* of the SELECT is the order in which they are drawn later.
ReadLayers(p) ==
  /\ pc[p] = "read"
  /\ snap' = [snap EXCEPT ![p] =
       [l \in LayerIds |-> Positive(rem[l] - held[p][l])]]
  /\ dated' = [dated EXCEPT ![p] =
       [l \in LayerIds |-> IF snap'[p][l] > 0 THEN date[l] ELSE 0]]
  /\ plan' = [plan EXCEPT ![p] = Nothing]
  /\ need' = [need EXCEPT ![p] = OutQty(doc[p])]
  /\ pc' = [pc EXCEPT ![p] = "take"]
  /\ UNCHANGED <<rows, doc, todo, wrote, held, saw, ghosts, asked>>

\* Faulty variant: layers ordered by layer_id alone.
BeforeById(p, l, m) == l < m

\* ORDER BY received_date, layer_id.
Before(p, l, m) ==
  dated[p][l] < dated[p][m] \/ (dated[p][l] = dated[p][m] /\ l < m)

\* The layers the loop of consume_layers_fifo has not come to.
Left(p) == {l \in LayerIds : snap[p][l] > 0 /\ plan[p][l] = 0}

TakeLayer(p, l) ==
  /\ pc[p] = "take" /\ need[p] > 0
  /\ l \in Left(p) /\ \A m \in Left(p) \ {l} : Before(p, l, m)
  /\ plan' = [plan EXCEPT ![p][l] = Less(snap[p][l], need[p])]
  /\ need' = [need EXCEPT ![p] = @ - Less(snap[p][l], need[p])]
  /\ UNCHANGED <<rows, pc, doc, todo, wrote, held, snap, dated, saw, ghosts, asked>>

\* "Not enough remaining layer quantity": everything is rolled back, the
\* orders of a batch and the import they came with too.
NotEnough(p) ==
  /\ pc[p] = "take" /\ need[p] > 0 /\ Left(p) = {}
  /\ Leave(p)
  /\ UNCHANGED <<rows, ghosts, asked>>

Taken(p) == {l \in LayerIds : plan[p][l] > 0}
CanWrite(p) ==
  pc[p] = "take" /\ need[p] = 0 /\ \A l \in Taken(p) : Unlocked(p, l)

\* Faulty variant: the consumption row is written for the whole layer.
ConsumeWhole(p) ==
  [l \in LayerIds |-> consumed[l] + IF l \in Taken(p) THEN snap[p][l] ELSE 0]

\* One consumption row for each layer taken from.
Consume(p) == [l \in LayerIds |-> consumed[l] + plan[p][l]]

\* The ORM writes the difference it computed: a quantity, not a change.
WriteAdjustment(p) ==
  /\ CanWrite(p) /\ doc[p] \in Adjustments
  /\ rem' = [l \in LayerIds |->
       IF l \in Taken(p) THEN snap[p][l] - plan[p][l] ELSE rem[l]]
  /\ consumed' = Consume(p)
  /\ posted' = [posted EXCEPT ![doc[p]] = @ + 1]
  /\ overwritten' = overwritten \cup {l \in Taken(p) : rem[l] # snap[p][l]}
  /\ Leave(p)
  /\ UNCHANGED <<made, date, orig, opening, layerOf, asked,
                 overlapped, oversold, reset>>

(***************************************************************************)
(* Orders: a batch in one transaction.                                     *)
(***************************************************************************)

\* Which orders have been imported, and the LIMIT, are left open: a batch is
\* any set of orders not yet deducted.
BeginBatch(p, s) ==
  /\ pc[p] = "idle" /\ s # {} /\ \A d \in s : posted[d] = 0
  /\ todo' = [todo EXCEPT ![p] = s]
  /\ pc' = [pc EXCEPT ![p] = "batch"]
  /\ UNCHANGED <<rows, doc, wrote, held, snap, dated, plan, need, saw, ghosts, asked>>

\* The oldest order left in the batch; one the ledger has is only marked as
\* deducted.
CheckOrder(p, d) ==
  /\ pc[p] = "batch" /\ d \in todo[p] /\ \A e \in todo[p] : d <= e
  /\ todo' = [todo EXCEPT ![p] = @ \ {d}]
  /\ IF Unposted(d) THEN Take(p, d, "read")
                    ELSE UNCHANGED <<pc, doc, overlapped>>
  /\ UNCHANGED <<rows, wrote, held, snap, dated, plan, need, saw,
                 oversold, overwritten, reset, asked>>

\* UPDATE ... SET remaining_qty = remaining_qty - consumed_qty, a change.
WriteSale(p) ==
  /\ CanWrite(p) /\ doc[p] \in Orders
  /\ held' = [held EXCEPT ![p] = [l \in LayerIds |-> held[p][l] + plan[p][l]]]
  /\ wrote' = [wrote EXCEPT ![p] = @ \cup {doc[p]}]
  /\ oversold' = oversold \cup
       {l \in Taken(p) : rem[l] - held[p][l] # snap[p][l]}
  /\ pc' = [pc EXCEPT ![p] = "batch"] /\ doc' = [doc EXCEPT ![p] = NoDoc]
  /\ snap' = [snap EXCEPT ![p] = Nothing]
  /\ dated' = [dated EXCEPT ![p] = Nothing]
  /\ plan' = [plan EXCEPT ![p] = Nothing]
  /\ UNCHANGED <<rows, todo, need, saw, overlapped, overwritten, reset, asked>>

CommitBatch(p) ==
  /\ pc[p] = "batch" /\ todo[p] = {}
  /\ rem' = [l \in LayerIds |-> rem[l] - held[p][l]]
  /\ consumed' = [l \in LayerIds |-> consumed[l] + held[p][l]]
  /\ posted' = [d \in Docs |->
       IF d \in wrote[p] THEN posted[d] + 1 ELSE posted[d]]
  /\ Leave(p)
  /\ UNCHANGED <<made, date, orig, opening, layerOf, ghosts, asked>>

(***************************************************************************)
(* Opening balances.                                                       *)
(***************************************************************************)
Opened == {t \in Periods : layerOf[t] # 0}

LoadOpening(p, t, q) ==
  /\ pc[p] = "idle" /\ asked < MaxOpenings
  /\ asked' = asked + 1
  /\ doc' = [doc EXCEPT ![p] = t] /\ need' = [need EXCEPT ![p] = q]
  /\ saw' = [saw EXCEPT ![p] = [exists |-> t \in Opened, qty |-> opening[t]]]
  /\ pc' = [pc EXCEPT ![p] = "opening"]
  /\ UNCHANGED <<rows, todo, wrote, held, snap, dated, plan, ghosts>>

CreateOpening(p) ==
  LET t == doc[p] IN
  /\ pc[p] = "opening" /\ ~saw[p].exists /\ t \notin Opened
  /\ \E when \in OpenDates[need[p]] : AddLayer(when, need[p])
  /\ opening' = [opening EXCEPT ![t] = need[p]]
  /\ layerOf' = [layerOf EXCEPT ![t] = made + 1]
  /\ Leave(p)
  /\ UNCHANGED <<consumed, posted, ghosts, asked>>

\* uq_opening_balance: another request created the row first.
LoseOpening(p) ==
  /\ pc[p] = "opening" /\ ~saw[p].exists /\ doc[p] \in Opened
  /\ Leave(p)
  /\ UNCHANGED <<rows, ghosts, asked>>

\* Faulty variant: the upsert sets original_qty and leaves remaining_qty.
RestartKeepsLeft(l, q) == rem[l]

\* setattr of every column: remaining_qty starts again, whatever was consumed,
\* and so does received_date, whoever has read it.
Restart(l, q) == q

\* The ORM writes a column only when it differs from the row as loaded.
CorrectOpening(p) ==
  LET t == doc[p]
      l == layerOf[t]
      q == need[p]
  IN
  /\ pc[p] = "opening" /\ saw[p].exists /\ Unlocked(p, l)
  /\ opening' = [opening EXCEPT ![t] = IF saw[p].qty = q THEN @ ELSE q]
  /\ orig' = [orig EXCEPT ![l] = q]
  /\ rem' = [rem EXCEPT ![l] = Restart(l, q)]
  /\ \E when \in OpenDates[q] : date' = [date EXCEPT ![l] = when]
  /\ reset' = IF consumed[l] > 0 \/ opening[t] # saw[p].qty
                THEN reset \cup {l} ELSE reset
  /\ Leave(p)
  /\ UNCHANGED <<made, consumed, posted, layerOf,
                 overlapped, oversold, overwritten, asked>>

\* Any exception, a lost connection or a deadlock the database breaks.
Abort(p) ==
  /\ pc[p] # "idle"
  /\ Leave(p)
  /\ UNCHANGED <<rows, ghosts, asked>>

Step(p) ==
  \/ \E d \in Grns : PostGrn(p, d)
  \/ \E d \in Adjustments : PostAdjustment(p, d)
  \/ Receive(p)
  \/ ReadLayers(p)
  \/ \E l \in LayerIds : TakeLayer(p, l)
  \/ NotEnough(p)
  \/ WriteAdjustment(p)
  \/ \E s \in SUBSET Orders : BeginBatch(p, s)
  \/ \E d \in Orders : CheckOrder(p, d)
  \/ WriteSale(p)
  \/ CommitBatch(p)
  \/ \E t \in Periods, q \in Quantities : LoadOpening(p, t, q)
  \/ CreateOpening(p)
  \/ LoseOpening(p)
  \/ CorrectOpening(p)
  \/ Abort(p)

Next == \E p \in Posters : Step(p)

Spec == Init /\ [][Next]_vars

(***************************************************************************)
(* Correctness.                                                            *)
(***************************************************************************)

\* What is left in a layer and what was taken from it make up what it
\* started with, whatever transactions abort or interleave: only an
\* adjustment that wrote from an old reading, or an opening balance
\* corrected after use, breaks the sum.
LayerAccounting ==
  \A l \in LayerIds \ (overwritten \cup reset) : rem[l] + consumed[l] = orig[l]

\* A layer goes below zero only through a sale computed from a reading that
\* another posting made untrue, or an opening balance stated below zero.
NeverOversold ==
  \A l \in LayerIds : rem[l] < 0 => l \in oversold \/ orig[l] < 0

\* No posting takes from a layer while an older one it has read keeps
\* something, whatever is received meanwhile: age and cost are drawn first in,
\* first out, unless the opening balance one of them stands for was given
\* another date since the posting read it.
OldestFirst ==
  \A p \in Posters : \A l, m \in LayerIds :
    /\ plan[p][l] > 0 /\ snap[p][m] > 0 /\ date[m] < date[l]
    /\ date[l] = dated[p][l] /\ date[m] = dated[p][m]
    => plan[p][m] = snap[p][m]

\* A document reaches the ledger twice only if two posters were past the
\* check of its status at the same time; overlapping batches are no excuse.
PostedOnce == \A d \in Docs \ overlapped : posted[d] <= 1

SentOut == [d \in Outbound |-> posted[d] * OutQty(d)]
BroughtIn == [d \in Inbound |-> posted[d] * QtyOf[d]]

\* The consumption rows add up to what the ledger sent out: no posting, batch,
\* abort or shortage leaves a ledger row without its consumption rows or
\* consumption rows without their ledger row.  Whether the layers had those
\* units is another matter: two postings that read one unit both write a row
\* for it, see overwritten and oversold.
ConsumptionMatchesLedger ==
  SumOf(consumed, LayerIds) = SumOf(SentOut, Outbound)

LatestOpening ==
  IF Opened = {} THEN 0
  ELSE opening[CHOOSE t \in Opened : \A u \in Opened : u <= t]

\* current_qty of compute_balance_summary.
CurrentQty ==
  LatestOpening + SumOf(BroughtIn, Inbound) - SumOf(SentOut, Outbound)

\* The balance page (compute_balance_summary: the latest opening balance and
\* the ledger) shows what the layers hold, as long as one period only was
\* opened and none of the lost updates happened: current stock is the sum of
\* the layers' remaining quantities only under these conditions.
BalanceMatchesLayers ==
  Cardinality(Opened) <= 1 /\ overwritten = {} /\ reset = {} =>
    CurrentQty = SumOf(rem, LayerIds)

\* What a document adds to the stock.
Moves == [d \in Docs |-> IF d \in Orders THEN - QtyOf[d] ELSE QtyOf[d]]

Book == INSTANCE StockBook WITH
  Batched <- Orders, entries <- posted, stated <- Opened, balance <- opening,
  stock <- SumOf(rem, LayerIds), disputed <- overlapped,
  exact <- overwritten = {} /\ reset = {}

\* Seen from outside the layers are one number: every posting, of a document
\* or of a whole batch, books the ledger rows and moves the stock by what they
\* say in one step, a corrected opening balance moves it by the correction,
\* and nothing else moves it: no abort, shortage, plan or half-done batch.
ImplementsBook == Book!Spec
=============================================================================
