----------------------------- MODULE CloudMirror -----------------------------
(***************************************************************************)
(* What the synchronisation of one table promises, without batches,        *)
(* positions or clocks: rows become visible, rows become present in the    *)
(* mirror, the checkpoint claims only rows that are present, and an        *)
(* execution reports success only when everything that was visible when it *)
(* began is present.  CloudTableSync implements it.                        *)
(***************************************************************************)
CONSTANTS Keys, Workers

VARIABLES
  visible,   \* rows committed in the source table
  present,   \* rows the mirror holds, in some version
  claimed,   \* rows the checkpoint counts as delivered
  active,    \* executions that run
  goal,      \* goal[w]: rows w has to deliver
  report,    \* report[w]: what w last reported
  torn       \* the checkpoint has once been a position nobody reached

vars == <<visible, present, claimed, active, goal, report, torn>>

Init ==
  /\ visible = {}
  /\ present = {}
  /\ claimed = {}
  /\ active = {}
  /\ goal = [w \in Workers |-> {}]
  /\ report = [w \in Workers |-> "none"]
  /\ torn = FALSE

\* Rows arrive or change.  A new row is not claimed; a changed one ceases to be,
\* or stays so in its older version.
Arrive(S, R) ==
  /\ R \subseteq S
  /\ visible' = visible \cup S
  /\ claimed' = claimed \ R
  /\ UNCHANGED <<present, active, goal, report, torn>>

Withdraw(k) ==
  /\ k \in visible
  /\ visible' = visible \ {k}
  /\ claimed' = claimed \ {k}
  /\ goal' = [w \in Workers |-> goal[w] \ {k}]
  /\ UNCHANGED <<present, active, report, torn>>

Begin(w) ==
  /\ w \notin active
  /\ active' = active \cup {w}
  /\ goal' = [goal EXCEPT ![w] = visible]
  /\ report' = [report EXCEPT ![w] = "none"]
  /\ UNCHANGED <<visible, present, claimed, torn>>

\* Delivery only ever adds rows.
Deliver(S) ==
  /\ present' = present \cup S
  /\ UNCHANGED <<visible, claimed, active, goal, report, torn>>

\* The checkpoint may claim any delivered rows, also fewer than before.  Once
\* two executions have stored half a checkpoint each, it may claim any.
Claim(C) ==
  /\ C \subseteq visible
  /\ torn' \in {torn, TRUE}
  /\ torn' \/ C \subseteq present
  /\ claimed' = C
  /\ UNCHANGED <<visible, present, active, goal, report>>

Complete(w) ==
  /\ w \in active
  /\ torn \/ goal[w] \subseteq present
  /\ active' = active \ {w}
  /\ goal' = [goal EXCEPT ![w] = {}]
  /\ report' = [report EXCEPT ![w] = "completed"]
  /\ UNCHANGED <<visible, present, claimed, torn>>

GiveUp(w) ==
  /\ w \in active
  /\ active' = active \ {w}
  /\ goal' = [goal EXCEPT ![w] = {}]
  /\ report' = [report EXCEPT ![w] = "failed"]
  /\ UNCHANGED <<visible, present, claimed, torn>>

Next == \/ \E S, R \in SUBSET Keys : Arrive(S, R)
        \/ \E S \in SUBSET Keys : Deliver(S) \/ Claim(S)
        \/ \E k \in Keys : Withdraw(k)
        \/ \E w \in Workers : Begin(w) \/ Complete(w) \/ GiveUp(w)

Spec == Init /\ [][Next]_vars
=============================================================================
