---------------------------- MODULE CoveredDates ----------------------------
(***************************************************************************)
(* What a coverage table promises its readers, whatever its rows look      *)
(* like: for every key the set of days whose fetch was recorded.  A day is *)
(* covered exactly when somebody recorded it, and never uncovered again.   *)
(* The gaps-and-islands tables archive_coverage and ingestion_coverage are *)
(* shown to implement this in module Coverage.                             *)
(***************************************************************************)
CONSTANTS
  Key,   \* one (ticker, provider, method, fetch_version) combination each
  Day    \* the calendar days that are ever recorded

VARIABLE covered   \* covered[k]: the days covered for key k

TypeOK == covered \in [Key -> SUBSET Day]

Init == covered = [k \in Key |-> {}]

\* One recorded fetch (or one day marked covered without data).
Record(k, d) == covered' = [covered EXCEPT ![k] = @ \cup {d}]

Next == \E k \in Key, d \in Day : Record(k, d)

Spec == Init /\ [][Next]_covered
=============================================================================
