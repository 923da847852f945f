------------------------------ MODULE Handover ------------------------------
(***************************************************************************)
(* What the staging tables promise quant-reconcile and everybody else who   *)
(* reads ingestion_coverage: what is confirmed has landed completely, what *)
(* has landed is not lost again, and a confirmation is withdrawn only from *)
(* a key that is contended, on which two writers of the coverage have      *)
(* committed over each other.                                              *)
(*                                                                         *)
(* Module Pipeline is shown to implement this for the sessions it stages,  *)
(* whatever runs by hand commit.  Module Reconcile, which has one writer   *)
(* of each key's coverage, is shown to keep it beside its own purges,      *)
(* which move rows to the archive; nothing is contended there.             *)
(***************************************************************************)
CONSTANT Key   \* what is staged and confirmed as one

VARIABLES
  landed,      \* the keys every row of which was committed
  confirmed,   \* the keys that are covered
  contended    \* the keys that may have lost their confirmation

vars == <<landed, confirmed, contended>>

\* A key without a row has landed from the start.
Init ==
  /\ landed \in SUBSET Key
  /\ confirmed = {}
  /\ contended = {}

\* One commit may complete several keys.
Land ==
  /\ landed' \in SUBSET Key
  /\ landed \subseteq landed'
  /\ UNCHANGED <<confirmed, contended>>

\* One commit of the coverage: of contended keys, it may lose confirmations and
\* bring back others.
Confirm ==
  /\ confirmed' \in SUBSET Key
  /\ contended' \in SUBSET Key
  /\ confirmed' \ confirmed \subseteq landed
  /\ confirmed \ confirmed' \subseteq contended'
  /\ contended \subseteq contended'
  /\ UNCHANGED landed

Next == Land \/ Confirm

Spec == Init /\ [][Next]_vars
=============================================================================
