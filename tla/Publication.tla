----------------------------- MODULE Publication -----------------------------
(***************************************************************************)
(* What reconciliation promises the readers of fact_market_data_1min: the  *)
(* provider whose values a bar gets is decided once, a bar is published    *)
(* only with the values of the provider that was decided on, and neither   *)
(* is ever taken back.  Module Reconcile is shown to implement this.       *)
(***************************************************************************)
CONSTANTS
  Bar,        \* minutes of one (ticker, date)
  Candidate,  \* the providers whose values can be published
  NoWinner    \* nobody yet

VARIABLES
  decided,    \* decided[b]: the provider that won bar b
  published   \* published[b]: the provider whose values readers see

vars == <<decided, published>>

Init ==
  /\ decided = [b \in Bar |-> NoWinner]
  /\ published = [b \in Bar |-> NoWinner]

Decide(b, p) ==
  /\ decided[b] = NoWinner
  /\ decided' = [decided EXCEPT ![b] = p]
  /\ UNCHANGED published

Publish(b) ==
  /\ decided[b] # NoWinner
  /\ published' = [published EXCEPT ![b] = decided[b]]
  /\ UNCHANGED decided

Next == \E b \in Bar : Publish(b) \/ \E p \in Candidate : Decide(b, p)

Spec == Init /\ [][Next]_vars
=============================================================================
