------------------------------- MODULE Tiers -------------------------------
(***************************************************************************)
(* resolve_automatic and resolve_finalize: which provider's values a bar    *)
(* may get, and on what ground.                                            *)
(*                                                                         *)
(* Prices, tolerances and the running statistics behind them are left out: *)
(* a comparison may come out either way.  What is kept is everything that  *)
(* does not depend on prices: which rows are there, which of them are      *)
(* usable, which comparisons are made at all, and in which order.          *)
(***************************************************************************)
EXTENDS Integers, FiniteSets

CONSTANTS
  Bar,            \* minutes of one (ticker, date); b + 1 is the next minute
  Candidate,      \* providers with role 'candidate'
  Whistleblower,  \* the provider with role 'whistleblower'
  Preferred       \* settings.reconcile.preferredProvider

ASSUME BarAssumption == Bar \subseteq Int
ASSUME ProviderAssumption ==
  Whistleblower \notin Candidate /\ Preferred \in Candidate

Provider == Candidate \cup {Whistleblower}

\* data_quality of a staging row: the tiers treat "incomplete" and "rejected"
\* alike.  Only whistleblower rows are ever either.
Quality == {"none", "accepted", "incomplete", "rejected"}

Rows == [Provider -> [Bar -> Quality]]

NoRows == [p \in Provider |-> [b \in Bar |-> "none"]]

CandidatesAt(rows, b) == {p \in Candidate : rows[p][b] # "none"}

\* A whistleblower without a row is given a synthetic incomplete one.
Adjudicated(rows, b) == rows[Whistleblower][b] = "accepted"

Resolution(winner, path) == [winner |-> winner, path |-> path]

\* No provider at all: not a row of fact_reconciliation yet.
NoWinner == "nobody"
Unresolved == Resolution(NoWinner, "none")

ASSUME NoWinnerAssumption == NoWinner \notin Candidate

\* resolution_path of a row of fact_reconciliation, but for corrections by hand.
Path == {"completeness", "agreement", "boundary_fix", "historical_mad_agreement",
         "unadjudicated", "unadjudicated_disputed", "finalized"}

-----------------------------------------------------------------------------
(* The tiers.  Each gives the set of the resolutions it may come to.       *)

\* Tier 1: with the whistleblower unusable, the one candidate there is.
Completeness(rows, b) ==
  {Resolution(p, "completeness") :
     p \in {q \in Candidate : CandidatesAt(rows, b) = {q} /\ ~ Adjudicated(rows, b)}}

\* Tier 2: a candidate with a tolerance that agrees with the whistleblower.
Agreement(rows, b, graduated) ==
  {Resolution(p, "agreement") : p \in CandidatesAt(rows, b) \cap graduated}

HasWindow(rows, p, b) ==
  \A n \in {b - 1, b, b + 1} : n \in Bar /\ rows[p][n] # "none"

\* Tier 3: as Tier 2, for the averages over the minute before, the minute
\* itself and the one after; all three rows of both providers are needed.
BoundaryFix(rows, b, graduated) ==
  {Resolution(p, "boundary_fix") :
     p \in {q \in CandidatesAt(rows, b) \cap graduated :
              HasWindow(rows, q, b) /\ HasWindow(rows, Whistleblower, b)}}

\* Without a whistleblower to ask: the preferred provider, once the two
\* candidates agree within the historical band if the ticker has one.
HistoricalMad(rows, b) ==
  IF Preferred \in CandidatesAt(rows, b) /\ Cardinality(CandidatesAt(rows, b)) = 2
    THEN {Resolution(Preferred, "historical_mad_agreement")} ELSE {}

Unadjudicated(rows, b) ==
  IF Preferred \in CandidatesAt(rows, b)
    THEN {Resolution(Preferred, "unadjudicated")} ELSE {}

\* What resolve_automatic may return for bar b, apart from None ...
Automatic(rows, b, graduated, band) ==
  IF Adjudicated(rows, b)
    THEN Agreement(rows, b, graduated) \cup BoundaryFix(rows, b, graduated)
  ELSE IF Completeness(rows, b) # {} THEN Completeness(rows, b)
  ELSE IF band THEN HistoricalMad(rows, b)
  ELSE Unadjudicated(rows, b)

\* ... and when it may return None: some comparison fails, or nobody may win.
MayStayUnresolved(rows, b, band) ==
  \/ Adjudicated(rows, b)
  \/ Completeness(rows, b) = {} /\ (band \/ Preferred \notin CandidatesAt(rows, b))

\* resolve_finalize: the preferred provider's values, if it has any.
Finalizable(rows, b) == Preferred \in CandidatesAt(rows, b)
=============================================================================
