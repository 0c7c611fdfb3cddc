------------------------------ MODULE StockBook ------------------------------
(***************************************************************************)
(* What the stock of one SKU promises, without layers, plans, row locks or *)
(* transactions: documents are booked all together or not at all, each     *)
(* once, and the stock moves by what they say and by nothing else.         *)
(* InventoryLayers implements it.                                          *)
(***************************************************************************)
EXTENDS Integers, Sums

CONSTANTS
  Docs, Batched, \* documents, and those that may be booked in one batch
  Moves,         \* Moves[d]: what document d adds to the stock
  Periods, Quantities \* an opening balance is stated for a period

VARIABLES
  entries,  \* entries[d]: how often d is booked
  stated,   \* periods with an opening balance
  balance,  \* balance[t]: the opening balance stated for period t
  stock,    \* what can be sold
  disputed, \* documents two clerks had in hand at once
  exact     \* nothing has been booked from an outdated reading

vars == <<entries, stated, balance, stock, disputed, exact>>

Init ==
  /\ entries = [d \in Docs |-> 0]
  /\ stated = {} /\ balance = [t \in Periods |-> 0]
  /\ stock = 0
  /\ disputed = {} /\ exact = TRUE

Dispute(d) ==
  /\ disputed' = disputed \cup {d}
  /\ UNCHANGED <<entries, stated, balance, stock, exact>>

\* A booked document is not booked again, unless two had it in hand at once.
Enter(S) ==
  /\ entries' = [d \in Docs |-> IF d \in S THEN entries[d] + 1 ELSE entries[d]]
  /\ \A d \in S : entries[d] = 0 \/ d \in disputed
  /\ UNCHANGED <<stated, balance, disputed>>

\* A batch, or one document: the stock moves with the ledger.
Book(S) ==
  /\ Enter(S)
  /\ stock' = stock + SumOf(Moves, S)
  /\ UNCHANGED exact

\* A downward correction computed from what another entry has changed.
Misbook(d) ==
  /\ d \notin Batched /\ Moves[d] < 0
  /\ Enter({d})
  /\ stock' \in Int /\ exact' = FALSE

Open(t, n) ==
  /\ t \notin stated
  /\ stated' = stated \cup {t}
  /\ balance' = [balance EXCEPT ![t] = n]
  /\ stock' = stock + n
  /\ UNCHANGED <<entries, disputed, exact>>

\* A corrected opening balance moves the stock by the correction.
Restate(t, n) ==
  /\ t \in stated
  /\ balance' = [balance EXCEPT ![t] = n]
  /\ stock' = stock + n - balance[t]
  /\ UNCHANGED <<entries, stated, disputed, exact>>

\* One corrected after use, or twice at once, leaves a stock that says nothing.
Misstate(t) ==
  /\ t \in stated
  /\ \E n \in Quantities \cup {balance[t]} : balance' = [balance EXCEPT ![t] = n]
  /\ stock' \in Int /\ exact' = FALSE
  /\ UNCHANGED <<entries, stated, disputed>>

Next ==
  \/ \E d \in Docs : Dispute(d) \/ Book({d}) \/ Misbook(d)
  \/ \E S \in SUBSET Batched : Book(S)
  \/ \E t \in Periods :
       Misstate(t) \/ \E n \in Quantities : Open(t, n) \/ Restate(t, n)

Spec == Init /\ [][Next]_vars
=============================================================================
