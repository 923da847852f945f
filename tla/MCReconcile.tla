---------------------------- MODULE MCReconcile ----------------------------
(***************************************************************************)
(* Reconcile for three consecutive minutes and the three configured        *)
(* providers, on days that differ in what each provider has.               *)
(***************************************************************************)
EXTENDS Reconcile, TLC

CONSTANTS yfinance, ibkr, massive

MCBar == 1..3
MCOneBar == {1}
MCCandidate == {ibkr, massive}
MCIbkr == {ibkr}
MCNone == {}
MCSuspect == {2}

\* A day given by the bars each candidate has and the usable whistleblower
\* rows; the whistleblower's other rows are incomplete, but for absent ones.
Day(ofIbkr, ofMassive, usable, absent) ==
  [p \in Provider |-> [b \in Bar |->
     CASE p = ibkr /\ b \in ofIbkr -> "accepted"
       [] p = massive /\ b \in ofMassive -> "accepted"
       [] p = yfinance /\ b \in usable -> "accepted"
       [] p = yfinance /\ b \notin usable \cup absent -> "incomplete"
       [] OTHER -> "none"]]

FullDay == Day(Bar, Bar, Bar, {})
\* Bars 1 and 2 matched, massive has no bar 3.
MassiveGap == Day(Bar, Bar \ {3}, Bar, {})
\* The preferred provider has no bar 1, the whistleblower no usable bar 2.
Ragged == Day(Bar \ {1}, Bar, Bar \ {2}, {})
\* No whistleblower at all: a day older than its history.
Historical == Day(Bar, Bar, {}, Bar)

MCSources == {MassiveGap, Ragged, Historical}
MCLiveSources == {FullDay, MassiveGap, Ragged, Historical}
\* massive has nothing between two minutes it has.
MCHole == {Day(Bar, Bar \ {2}, Bar, {})}
=============================================================================
