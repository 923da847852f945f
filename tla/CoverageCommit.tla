--------------------------- MODULE CoverageCommit ---------------------------
(***************************************************************************)
(* What one commit of _record_coverage may leave of the days of its key,   *)
(* whatever rows they are stored as.  The rows the transaction selected    *)
(* are written over by id, without a lock: if none of them has changed     *)
(* since, its day is added and nothing else happens.  Otherwise days may   *)
(* be lost, the day of the commit among them, and days the transaction had *)
(* selected may come back.                                                 *)
(*                                                                         *)
(* Module Coverage, which has the rows, is shown to commit like this;      *)
(* module Pipeline takes it for granted of both coverage tables.           *)
(***************************************************************************)

\* before: the days of the key when the transaction commits; selected: the days
\* its SELECT saw; fresh: what it selected is still what the table has.
LeftBy(before, selected, day, fresh) ==
  IF fresh THEN {before \cup {day}} ELSE SUBSET (before \cup selected \cup {day})
=============================================================================
