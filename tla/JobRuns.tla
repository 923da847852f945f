------------------------------ MODULE JobRuns ------------------------------
(***************************************************************************)
(* What the scheduled part of quant-data promises the tools it runs: work  *)
(* items share no job, a job has one process at a time and none once one   *)
(* of them has succeeded, and it is started only when every job of the     *)
(* stages before its own has succeeded.                                    *)
(*                                                                         *)
(* Module Dispatch is shown to implement this for invocations that do not  *)
(* overlap, whatever dies.                                                 *)
(***************************************************************************)
EXTENDS Integers

CONSTANTS
  WorkItem,   \* the work items that may be accepted
  Stages      \* Stages[w]: the sets of jobs of w, in the order they are run

VARIABLES
  accepted,   \* the work items whose jobs exist
  running,    \* the jobs with a process
  finished    \* the jobs a process of which succeeded

vars == <<accepted, running, finished>>

Jobs(w) == UNION {Stages[w][i] : i \in DOMAIN Stages[w]}

Before(w, i) == UNION {Stages[w][k] : k \in {n \in DOMAIN Stages[w] : n < i}}

\* Some work items may be there from the start.
Init ==
  /\ accepted \in SUBSET WorkItem
  /\ running = {}
  /\ finished = {}

Accept(w) ==
  /\ \A v \in accepted : Jobs(v) \cap Jobs(w) = {}
  /\ accepted' = accepted \cup {w}
  /\ UNCHANGED <<running, finished>>

Start(w, i) ==
  /\ w \in accepted
  /\ Before(w, i) \subseteq finished
  /\ \E j \in Stages[w][i] \ (running \cup finished) : running' = running \cup {j}
  /\ UNCHANGED <<accepted, finished>>

\* A process ends, with success or without.
End(j) ==
  /\ j \in running
  /\ running' = running \ {j}
  /\ finished' \in {finished, finished \cup {j}}
  /\ UNCHANGED accepted

Next ==
  \/ \E w \in WorkItem : Accept(w) \/ \E i \in DOMAIN Stages[w] : Start(w, i)
  \/ \E j \in running : End(j)

Spec == Init /\ [][Next]_vars
=============================================================================
