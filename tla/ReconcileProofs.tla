--------------------------- MODULE ReconcileProofs ---------------------------
(***************************************************************************)
(* Reconcile keeps its safety properties for any bars, candidates and      *)
(* days, wherever its runs are stopped and whatever quant-stage does       *)
(* meanwhile, and implements Publication.                                  *)
(***************************************************************************)
EXTENDS Reconcile, FiniteSetTheorems, TLAPS

(* The constants' assumptions, as every proof below uses them.             *)
LEMMA Constants ==
  /\ Bar \subseteq Int
  /\ Whistleblower \notin Candidate
  /\ Preferred \in Candidate
  /\ NoWinner \notin Candidate
  /\ Sources \subseteq Rows
  /\ Suspect \subseteq Bar
  /\ Graduated0 \subseteq Candidate
  /\ MaxMishaps \in Nat
BY BarAssumption, ProviderAssumption, NoWinnerAssumption, SourcesAssumption,
   SuspectAssumption, Graduated0Assumption, MaxMishapsAssumption

(* resolve_automatic names a candidate whose row it was shown.             *)
LEMMA AutomaticResolves ==
  ASSUME NEW rows, NEW b, NEW g, NEW bd, NEW r \in Automatic(rows, b, g, bd)
  PROVE  /\ r \in [winner : Candidate, path : Path]
         /\ r.winner \in CandidatesAt(rows, b)
<1>1. \A p \in CandidatesAt(rows, b) : p \in Candidate
  BY DEF CandidatesAt
<1>2. PICK p \in CandidatesAt(rows, b), path \in Path : r = Resolution(p, path)
  <2> DEFINE G == Resolution(Preferred, "historical_mad_agreement")
  <2>1. CASE Adjudicated(rows, b)
    BY <2>1 DEF Automatic, Agreement, BoundaryFix, Path
  <2>2. CASE ~ Adjudicated(rows, b) /\ Completeness(rows, b) # {}
    BY <2>2 DEF Automatic, Completeness, Path
  <2>3. CASE ~ Adjudicated(rows, b) /\ Completeness(rows, b) = {} /\ bd
    BY <2>3 DEF Automatic, HistoricalMad, Path
  <2>4. CASE ~ Adjudicated(rows, b) /\ Completeness(rows, b) = {} /\ ~ bd
    BY <2>4 DEF Automatic, Unadjudicated, Path
  <2> QED BY <2>1, <2>2, <2>3, <2>4
<1> QED BY <1>1, <1>2 DEF Resolution

(* A bar is resolved exactly when a candidate has won it.                  *)
LEMMA ResolvedHasWinner ==
  ASSUME TypeOK, NEW b \in Bar
  PROVE  /\ b \in Resolved => /\ resolution[b] \in [winner : Candidate, path : Path]
                              /\ resolution[b].winner # NoWinner
         /\ b \notin Resolved => resolution[b].winner = NoWinner
<1>1. resolution[b] \in {Unresolved} \cup [winner : Candidate, path : Path]
  BY DEF TypeOK
<1>2. Unresolved.winner = NoWinner
  BY DEF Unresolved, Resolution
<1> QED BY <1>1, <1>2, Constants DEF Resolved

-----------------------------------------------------------------------------
(* Types.                                                                  *)

LEMMA NoRowsType == NoRows \in Rows
BY DEF NoRows, Rows, Quality

LEMMA IdleType == Idle \in Run
BY NoRowsType DEF Idle, Run, Mode, Phase

LEMMA FetchedType ==
  ASSUME staging \in Rows, NEW bars
  PROVE  Fetched(bars) \in Rows
BY DEF Fetched, Rows, Quality

LEMMA InitType == Init => TypeOK
<1> SUFFICES ASSUME Init PROVE TypeOK
  OBVIOUS
<1>1. resolution \in [Bar -> {Unresolved} \cup [winner : Candidate, path : Path]]
  BY DEF Init
<1>2. graduated \in SUBSET Candidate
  BY Constants DEF Init
<1>3. mishaps \in 0 .. MaxMishaps
  BY Constants DEF Init
<1>4. fact \in [Bar -> Candidate \cup {NoWinner}]
  BY DEF Init
<1> QED BY <1>1, <1>2, <1>3, <1>4, NoRowsType, IdleType DEF Init, TypeOK

LEMMA StageType ==
  ASSUME TypeOK, Stage
  PROVE  TypeOK'
<1>1. ASSUME NEW p \in Provider, StageProvider(p)
      PROVE  TypeOK'
  <2>1. source[p] \in [Bar -> Quality]
    BY Constants DEF TypeOK, Rows
  <2>2. staging' \in Rows
    BY <1>1, <2>1 DEF StageProvider, TypeOK, Rows
  <2>3. mishaps' \in 0 .. MaxMishaps
    BY <1>1, Constants DEF StageProvider, Mishap, TypeOK
  <2> QED BY <1>1, <2>2, <2>3 DEF StageProvider, TypeOK, tables
<1>2. CASE RecordCoverage
  BY <1>2 DEF RecordCoverage, TypeOK, tables
<1>3. CASE CoverageFails
  <2>1. mishaps' \in 0 .. MaxMishaps
    BY <1>3, Constants DEF CoverageFails, Mishap, TypeOK
  <2> QED BY <1>3, <2>1 DEF CoverageFails, TypeOK, tables
<1> QED BY <1>1, <1>2, <1>3 DEF Stage

(* One step of a run: its phase, its snapshots and one table.              *)
LEMMA PrologueType ==
  ASSUME TypeOK, RejectOutliers \/ ReadCoverage \/ ReadRows \/ Graduate \/ ReadPending
  PROVE  TypeOK'
<1> USE DEF TypeOK, tables
<1>1. CASE RejectOutliers
  <2>1. PICK rejected : staging' = [staging EXCEPT ![Whistleblower] =
               [b \in Bar |-> IF b \in rejected THEN "rejected" ELSE @[b]]]
    BY <1>1 DEF RejectOutliers, MarkRejected
  <2>2. staging' \in Rows
    BY <2>1 DEF Rows, Quality
  <2>3. run' \in Run
    BY <1>1 DEF RejectOutliers, Run, Phase
  <2> QED BY <1>1, <2>2, <2>3 DEF RejectOutliers
<1>2. CASE ReadCoverage
  BY <1>2 DEF ReadCoverage, Run, Phase
<1>3. CASE ReadRows
  <2> DEFINE rows == Fetched(Staged(staging) \ pending)
  <2>1. rows \in Rows
    BY FetchedType
  <2>2. Ready(rows, run.coverage) \subseteq Bar
    BY DEF Ready, Staged
  <2>3. run' = [run EXCEPT !.phase = "graduate", !.rows = rows, !.coverage = {},
                           !.eligible = Ready(rows, run.coverage)]
    BY <1>3 DEF ReadRows
  <2>4. run' \in Run
    BY <2>1, <2>2, <2>3 DEF Run, Phase
  <2> QED BY <1>3, <2>4 DEF ReadRows
<1>4. CASE Graduate
  <2>1. graduated' \in SUBSET Candidate
    BY <1>4 DEF Graduate, SaveDisagreement, MissingGraduation
  <2>2. Resolved \subseteq Bar
    BY DEF Resolved
  <2>3. run' \in Run
    BY <1>4, <2>2, IdleType DEF Graduate, Run, Phase
  <2> QED BY <1>4, <2>1, <2>3 DEF Graduate
<1>5. CASE ReadPending
  <2> DEFINE rows == Fetched(pending)
  <2>1. rows \in Rows
    BY FetchedType
  <2>2. run' = [run EXCEPT !.phase = "finalize", !.rows = rows, !.eligible = pending,
                           !.todo = {b \in pending : Finalizable(rows, b)}]
    BY <1>5 DEF ReadPending
  <2>3. run' \in Run
    BY <2>1, <2>2 DEF Run, Phase
  <2> QED BY <1>5, <2>3 DEF ReadPending
<1> QED BY <1>1, <1>2, <1>3, <1>4, <1>5

LEMMA LoopType ==
  ASSUME TypeOK,
         \/ \E b \in Bar : Resolve(b) \/ MarkPending(b) \/ ForceResolve(b)
         \/ StopResolving
         \/ ClearPending
  PROVE  TypeOK'
<1> USE DEF TypeOK, tables
<1>1. ASSUME NEW b \in Bar, Resolve(b)
      PROVE  TypeOK'
  <2>1. PICK r \in Automatic(run.rows, b, graduated, band) :
          resolution' = [resolution EXCEPT ![b] = r]
    BY <1>1 DEF Resolve
  <2>2. r \in [winner : Candidate, path : Path]
    BY <2>1, AutomaticResolves
  <2>3. run' \in Run
    BY <1>1 DEF Resolve, Run
  <2> QED BY <1>1, <2>1, <2>2, <2>3 DEF Resolve
<1>2. ASSUME NEW b \in Bar, MarkPending(b)
      PROVE  TypeOK'
  <2>1. run' \in Run
    BY <1>2 DEF MarkPending, Run
  <2> QED BY <1>2, <2>1 DEF MarkPending
<1>3. ASSUME NEW b \in Bar, ForceResolve(b)
      PROVE  TypeOK'
  <2>1. Resolution(Preferred, "finalized") \in [winner : Candidate, path : Path]
    BY Constants DEF Resolution, Path
  <2>2. resolution' \in [Bar -> {Unresolved} \cup [winner : Candidate, path : Path]]
    BY <1>3, <2>1 DEF ForceResolve
  <2>3. run' = Idle \/ run' = [run EXCEPT !.phase = "clear", !.at = {b},
                                           !.todo = run.todo \ {b}]
    BY <1>3 DEF ForceResolve
  <2>4. [run EXCEPT !.phase = "clear", !.at = {b}, !.todo = run.todo \ {b}] \in Run
    BY DEF Run, Phase
  <2>5. run' \in Run
    BY <2>3, <2>4, IdleType
  <2> QED BY <1>3, <2>2, <2>5 DEF ForceResolve
<1>4. CASE StopResolving
  <2>1. run' \in Run
    BY <1>4 DEF StopResolving, Run, Phase
  <2> QED BY <1>4, <2>1 DEF StopResolving
<1>5. CASE ClearPending
  <2>1. run' \in Run
    BY <1>5 DEF ClearPending, Run, Phase
  <2> QED BY <1>5, <2>1 DEF ClearPending
<1> QED BY <1>1, <1>2, <1>3, <1>4, <1>5

LEMMA PromotionType ==
  ASSUME TypeOK, DecisionInv,
         \/ BeginPromoting \/ SelectForArchive \/ ArchiveAndDelete \/ Finish
         \/ \E b \in Bar : Promote(b)
  PROVE  TypeOK'
<1> USE DEF TypeOK, tables
<1>1. CASE BeginPromoting
  <2>1. Promotable \subseteq Bar
    BY DEF Promotable, Run
  <2>2. run' \in Run
    BY <1>1, <2>1 DEF BeginPromoting, Run, Phase
  <2> QED BY <1>1, <2>2 DEF BeginPromoting
<1>2. ASSUME NEW b \in Bar, Promote(b)
      PROVE  TypeOK'
  <2>1. b \in Resolved
    BY <1>2 DEF Promote, DecisionInv, In
  <2>2. resolution[b].winner \in Candidate
    BY <2>1, ResolvedHasWinner
  <2>3. run' \in Run
    BY <1>2 DEF Promote, Run, Phase
  <2> QED BY <1>2, <2>2, <2>3 DEF Promote
<1>3. CASE SelectForArchive
  <2>1. UNION {CandidatesAt(staging, b) : b \in run.at} \subseteq Candidate
    BY DEF CandidatesAt
  <2>2. run' \in Run
    BY <1>3, <2>1 DEF SelectForArchive, Run, Phase
  <2> QED BY <1>3, <2>2 DEF SelectForArchive
<1>4. CASE ArchiveAndDelete
  <2>1. staging' \in Rows
    BY <1>4 DEF ArchiveAndDelete, Rows, Quality
  <2>2. run' \in Run
    BY <1>4 DEF ArchiveAndDelete, Run, Phase
  <2>3. archive' \in SUBSET (Bar \X Candidate)
    BY <1>4 DEF ArchiveAndDelete, Run
  <2> QED BY <1>4, <2>1, <2>2, <2>3 DEF ArchiveAndDelete
<1>5. CASE Finish
  BY <1>5, IdleType DEF Finish
<1> QED BY <1>1, <1>2, <1>3, <1>4, <1>5

(* --reevaluate-unadjudicated changes labels and never winners.            *)
LEMMA ReevaluateKeepsWinners ==
  ASSUME TypeOK, Reevaluate
  PROVE  /\ resolution' \in [Bar -> {Unresolved} \cup [winner : Candidate, path : Path]]
         /\ \A b \in Bar : resolution'[b].winner = resolution[b].winner
         /\ Resolved' = Resolved
<1>1. PICK agreed \in SUBSET Reevaluable :
        resolution' = [b \in Bar |->
          IF b \in Reevaluable THEN [resolution[b] EXCEPT !.path = NewPath(b \in agreed)]
                               ELSE resolution[b]]
  BY DEF Reevaluate, Relabeled
<1>2. ASSUME NEW b \in Bar
      PROVE  /\ resolution'[b] \in {Unresolved} \cup [winner : Candidate, path : Path]
             /\ resolution'[b].winner = resolution[b].winner
             /\ b \in Reevaluable => b \in Resolved
  <2>1. resolution[b] \in {Unresolved} \cup [winner : Candidate, path : Path]
    BY DEF TypeOK
  <2>2. b \in Reevaluable => b \in Resolved /\ resolution[b] \in [winner : Candidate, path : Path]
    <3>1. Unresolved.path = "none"
      BY DEF Unresolved, Resolution
    <3> QED BY <2>1, <3>1 DEF Reevaluable, Resolved
  <2>3. CASE b \in Reevaluable
    <3>1. resolution'[b] = [resolution[b] EXCEPT !.path = NewPath(b \in agreed)]
      BY <1>1, <2>3
    <3>2. NewPath(b \in agreed) \in Path
      BY DEF NewPath, Path
    <3> QED BY <2>2, <2>3, <3>1, <3>2
  <2>4. CASE b \notin Reevaluable
    BY <1>1, <2>1, <2>4
  <2> QED BY <2>2, <2>3, <2>4
<1>3. resolution' \in [Bar -> {Unresolved} \cup [winner : Candidate, path : Path]]
  BY <1>1, <1>2
<1>4. \A b \in Bar : resolution'[b] # Unresolved <=> resolution[b] # Unresolved
  <2> SUFFICES ASSUME NEW b \in Bar
               PROVE  resolution'[b] # Unresolved <=> resolution[b] # Unresolved
    OBVIOUS
  <2>1. /\ resolution[b] \in {Unresolved} \cup [winner : Candidate, path : Path]
        /\ resolution'[b] \in {Unresolved} \cup [winner : Candidate, path : Path]
    BY <1>2 DEF TypeOK
  <2>2. Unresolved.winner = NoWinner
    BY DEF Unresolved, Resolution
  <2> QED BY <1>2, <2>1, <2>2, Constants
<1> QED BY <1>2, <1>3, <1>4 DEF Resolved

LEMMA OtherType ==
  ASSUME TypeOK, (\E mode \in Mode : Start(mode)) \/ Reevaluate \/ SeedBand \/ Crash
  PROVE  TypeOK'
<1> USE DEF TypeOK, tables
<1>1. ASSUME NEW mode \in Mode, Start(mode)
      PROVE  TypeOK'
  <2>1. StartPhase(mode) \in Phase
    BY DEF StartPhase, Phase, Mode
  <2>2. run' \in Run
    BY <1>1, <2>1, IdleType DEF Start, Run
  <2> QED BY <1>1, <2>2 DEF Start
<1>2. CASE Reevaluate
  BY <1>2, ReevaluateKeepsWinners, IdleType DEF Reevaluate
<1>3. CASE SeedBand
  BY <1>3 DEF SeedBand
<1>4. CASE Crash
  <2>1. mishaps' \in 0 .. MaxMishaps
    BY <1>4, Constants DEF Crash, Mishap
  <2> QED BY <1>4, <2>1, IdleType DEF Crash
<1> QED BY <1>1, <1>2, <1>3, <1>4

LEMMA NextType == TypeOK /\ DecisionInv /\ [Next]_vars => TypeOK'
<1> SUFFICES ASSUME TypeOK, DecisionInv, [Next]_vars PROVE TypeOK'
  OBVIOUS
<1>1. CASE Next
  BY <1>1, StageType, PrologueType, LoopType, PromotionType, OtherType DEF Next, Step
<1>2. CASE UNCHANGED vars
  BY <1>2 DEF TypeOK, vars, tables
<1> QED BY <1>1, <1>2

-----------------------------------------------------------------------------
(* Decisions.                                                              *)

(* What a run that has just begun or just ended may conclude: nothing.     *)
LEMMA IdleFields ==
  /\ Idle.mode = "plain" /\ Idle.phase = "idle"
  /\ Idle.coverage = {} /\ Idle.rows = NoRows
  /\ Idle.eligible = {} /\ Idle.known = {} /\ Idle.todo = {}
  /\ Idle.at = {} /\ Idle.selected = {}
BY DEF Idle

LEMMA InitDecision == Init => DecisionInv
BY IdleFields DEF Init, DecisionInv, In

(* A step that changes neither decisions nor what is published.            *)
LEMMA SameDecisions ==
  ASSUME TypeOK, DecisionInv, UNCHANGED <<resolution, fact, archive>>,
         \/ UNCHANGED run
         \/ /\ run'.known = {} \/ run'.known = run.known
            /\ run'.at = {}
            /\ run'.phase \notin {"resolve", "clear", "promote", "purge", "delete"}
  PROVE  DecisionInv'
BY DEF DecisionInv, Resolved, In

LEMMA NextDecision == TypeOK /\ DecisionInv /\ [Next]_vars => DecisionInv'
<1> SUFFICES ASSUME TypeOK, DecisionInv, [Next]_vars PROVE DecisionInv'
  OBVIOUS
<1> USE DEF tables
<1> run \in Run
  BY DEF TypeOK
<1>1. CASE Stage
  BY <1>1, SameDecisions DEF Stage, StageProvider, RecordCoverage, CoverageFails
<1>2. ASSUME NEW mode \in Mode, Start(mode)
      PROVE  DecisionInv'
  <2>1. run'.known = {} /\ run'.at = {} /\ run'.phase = StartPhase(mode)
    BY <1>2, IdleFields, IdleType DEF Start, Run
  <2>2. StartPhase(mode) \in {"outliers", "rows", "reevaluate"}
    BY DEF StartPhase, Mode
  <2> QED BY <1>2, <2>1, <2>2, SameDecisions DEF Start
<1>3. CASE RejectOutliers \/ ReadCoverage \/ ReadRows \/ ReadPending
  <2>1. /\ run'.known = run.known /\ run'.at = run.at
        /\ run'.phase \in {"coverage", "rows", "graduate", "finalize"}
        /\ run.phase \in {"outliers", "coverage", "rows"}
    BY <1>3 DEF RejectOutliers, ReadCoverage, ReadRows, ReadPending, Run, In
  <2>2. run.at = {}
    BY <2>1 DEF DecisionInv
  <2> QED BY <1>3, <2>1, <2>2, SameDecisions DEF RejectOutliers, ReadCoverage, ReadRows, ReadPending
<1>4. CASE Graduate
  <2>1. CASE run' = Idle
    BY <1>4, <2>1, IdleFields, SameDecisions DEF Graduate
  <2>2. CASE run' = [run EXCEPT !.phase = "resolve", !.known = Resolved]
    <3>1. run'.phase = "resolve" /\ run'.known = Resolved /\ run'.at = {}
      BY <1>4, <2>2 DEF Run, Graduate, DecisionInv, In
    <3>2. Resolved' = Resolved /\ UNCHANGED <<fact, archive>>
      BY <1>4 DEF Graduate, Resolved
    <3> QED BY <3>1, <3>2 DEF DecisionInv, In
  <2> QED BY <1>4, <2>1, <2>2 DEF Graduate
<1>5. ASSUME NEW b \in Bar, Resolve(b)
      PROVE  DecisionInv'
  <2>1. PICK r \in Automatic(run.rows, b, graduated, band) :
          resolution' = [resolution EXCEPT ![b] = r]
    BY <1>5 DEF Resolve
  <2>2. r # Unresolved
    <3>1. r.winner \in Candidate
      BY AutomaticResolves
    <3> QED BY <3>1, Constants DEF Unresolved, Resolution
  <2>3. Resolved' = Resolved \cup {b}
    BY <2>1, <2>2 DEF Resolved, TypeOK
  <2>4. run'.phase = "resolve" /\ run'.known = run.known \cup {b} /\ run'.at = run.at
    BY <1>5 DEF Resolve, Run, In
  <2>5. UNCHANGED <<fact, archive>> /\ In("resolve")
    BY <1>5 DEF Resolve
  <2> QED BY <2>3, <2>4, <2>5 DEF DecisionInv, In
<1>6. CASE StopResolving \/ \E b \in Bar : MarkPending(b)
  <2>1. /\ run'.known = run.known /\ run'.phase = "pend"
        /\ run'.at = run.at /\ run.phase \in {"resolve", "pend"}
    BY <1>6 DEF StopResolving, MarkPending, Run, In
  <2>2. run.at = {}
    BY <2>1 DEF DecisionInv
  <2> QED BY <1>6, <2>1, <2>2, SameDecisions DEF StopResolving, MarkPending
<1>7. ASSUME NEW b \in Bar, ForceResolve(b)
      PROVE  DecisionInv'
  <2>1. CASE b \in Resolved
    BY <1>7, <2>1, IdleFields, SameDecisions DEF ForceResolve
  <2>2. CASE b \notin Resolved
    <3>1. resolution' = [resolution EXCEPT ![b] = Resolution(Preferred, "finalized")]
      BY <1>7, <2>2 DEF ForceResolve
    <3>2. Resolution(Preferred, "finalized") # Unresolved
      BY Constants DEF Resolution, Unresolved
    <3>3. Resolved' = Resolved \cup {b}
      BY <3>1, <3>2 DEF Resolved, TypeOK
    <3>4. run'.phase = "clear" /\ run'.known = run.known /\ run'.at = {b}
      BY <1>7, <2>2 DEF ForceResolve, Run
    <3>5. UNCHANGED <<fact, archive>>
      BY <1>7 DEF ForceResolve
    <3> QED BY <3>3, <3>4, <3>5 DEF DecisionInv, In
  <2> QED BY <2>1, <2>2
<1>8. CASE ClearPending
  <2>1. run'.phase = "finalize" /\ run'.at = {} /\ run'.known = run.known \cup run.at /\ In("clear")
    BY <1>8 DEF ClearPending, Run
  <2>2. Resolved' = Resolved /\ UNCHANGED <<fact, archive>>
    BY <1>8 DEF ClearPending, Resolved
  <2> QED BY <2>1, <2>2 DEF DecisionInv, In
<1>9. CASE BeginPromoting
  <2>1. /\ run'.phase = "promote" /\ run'.known = run.known /\ run'.eligible = run.eligible
        /\ run'.todo = Promotable /\ run'.at = run.at
    BY <1>9 DEF BeginPromoting, Run
  <2>2. Resolved' = Resolved /\ UNCHANGED <<fact, archive>>
    BY <1>9 DEF BeginPromoting, Resolved
  <2>3. run.at = {}
    BY <1>9 DEF BeginPromoting, DecisionInv, In
  <2> QED BY <2>1, <2>2, <2>3 DEF DecisionInv, In, Promotable
<1>10. ASSUME NEW b \in Bar, Promote(b)
       PROVE  DecisionInv'
  <2>1. /\ run'.known = run.known /\ run'.eligible = run.eligible /\ run'.todo = run.todo \ {b}
        /\ \/ run'.phase = "promote" /\ run'.at = {}
           \/ run'.phase = "purge" /\ run'.at = {b}
    BY <1>10 DEF Promote, Run
  <2>2. b \in run.known /\ b \in run.eligible /\ b \in Resolved
    BY <1>10 DEF Promote, DecisionInv, In
  <2>3. fact' = [fact EXCEPT ![b] = resolution[b].winner] /\ resolution[b].winner # NoWinner
    BY <1>10, <2>2, ResolvedHasWinner DEF Promote
  <2>4. \A c \in Bar : fact[c] # NoWinner => fact'[c] # NoWinner
    BY <2>3 DEF TypeOK
  <2>5. fact'[b] # NoWinner
    BY <2>3 DEF TypeOK
  <2>6. Resolved' = Resolved /\ UNCHANGED archive /\ In("promote")
    BY <1>10 DEF Promote, Resolved
  <2>7. \A bp \in archive : bp[1] \in Bar
    BY DEF TypeOK
  <2> QED BY <2>1, <2>2, <2>4, <2>5, <2>6, <2>7 DEF DecisionInv, In
<1>11. CASE SelectForArchive
  <2>1. /\ run'.phase = "delete" /\ run'.known = run.known /\ run'.eligible = run.eligible
        /\ run'.todo = run.todo /\ run'.at = run.at /\ In("purge")
    BY <1>11 DEF SelectForArchive, Run
  <2>2. Resolved' = Resolved /\ UNCHANGED <<fact, archive>>
    BY <1>11 DEF SelectForArchive, Resolved
  <2> QED BY <2>1, <2>2 DEF DecisionInv, In
<1>12. CASE ArchiveAndDelete
  <2>1. /\ run'.phase = "promote" /\ run'.known = run.known /\ run'.eligible = run.eligible
        /\ run'.todo = run.todo /\ run'.at = {} /\ In("delete")
    BY <1>12 DEF ArchiveAndDelete, Run
  <2>2. Resolved' = Resolved /\ UNCHANGED fact
    BY <1>12 DEF ArchiveAndDelete, Resolved
  <2>3. \A bp \in archive' : bp \in archive \/ bp[1] \in run.at
    BY <1>12 DEF ArchiveAndDelete
  <2> QED BY <2>1, <2>2, <2>3 DEF DecisionInv, In
<1>13. CASE Finish \/ Crash
  BY <1>13, IdleFields, SameDecisions DEF Finish, Crash
<1>14. CASE Reevaluate
  <2>1. Resolved' = Resolved
    BY <1>14, ReevaluateKeepsWinners
  <2>2. run' = Idle /\ UNCHANGED <<fact, archive>>
    BY <1>14 DEF Reevaluate
  <2> QED BY <2>1, <2>2, IdleFields DEF DecisionInv, In
<1>15. CASE SeedBand \/ UNCHANGED vars
  BY <1>15, SameDecisions DEF SeedBand, vars
<1> QED BY <1>1, <1>2, <1>3, <1>4, <1>5, <1>6, <1>7, <1>8, <1>9, <1>10, <1>11,
           <1>12, <1>13, <1>14, <1>15 DEF Next, Step

-----------------------------------------------------------------------------
(* Rows.                                                                   *)

(* Staging is written by quant-stage, by the outlier check, which drops no *)
(* row, and by the DELETE of a purge.                                      *)
LEMMA StagingWriters ==
  ASSUME [Next]_vars
  PROVE  \/ UNCHANGED <<staging, archive>>
         \/ \E p \in Provider : StageProvider(p)
         \/ RejectOutliers
         \/ ArchiveAndDelete
<1>1. CASE UNCHANGED vars
  BY <1>1 DEF vars, tables
<1>2. CASE Next
  <2>1. CASE Stage
    BY <2>1 DEF Stage, RecordCoverage, CoverageFails, tables
  <2>2. CASE Step
    BY <2>2 DEF Step, ReadCoverage, ReadRows, Graduate, Resolve, StopResolving,
                MarkPending, ReadPending, ForceResolve, ClearPending, BeginPromoting,
                Promote, SelectForArchive, Finish, Reevaluate, tables
  <2>3. CASE (\E mode \in Mode : Start(mode)) \/ SeedBand \/ Crash
    BY <2>3 DEF Start, SeedBand, Crash, tables
  <2> QED BY <1>2, <2>1, <2>2, <2>3 DEF Next
<1> QED BY <1>1, <1>2

LEMMA SourceFixed ==
  ASSUME [Next]_vars
  PROVE  source' = source
<1>1. CASE UNCHANGED vars
  BY <1>1 DEF vars
<1>2. CASE Next
  <2>1. CASE Stage
    BY <2>1 DEF Stage, StageProvider, RecordCoverage, CoverageFails
  <2>2. CASE Step
    BY <2>2 DEF Step, RejectOutliers, ReadCoverage, ReadRows, Graduate, Resolve,
                StopResolving, MarkPending, ReadPending, ForceResolve, ClearPending,
                BeginPromoting, Promote, SelectForArchive, ArchiveAndDelete, Finish,
                Reevaluate
  <2>3. CASE (\E mode \in Mode : Start(mode)) \/ SeedBand \/ Crash
    BY <2>3 DEF Start, SeedBand, Crash
  <2> QED BY <1>2, <2>1, <2>2, <2>3 DEF Next
<1> QED BY <1>1, <1>2

(* What quant-stage and the two writers of a run do to one row.            *)
LEMMA StagedRow ==
  ASSUME TypeOK, NEW p \in Provider, StageProvider(p), NEW q \in Provider, NEW b \in Bar
  PROVE  staging'[q][b] = IF q = p /\ source[p][b] # "none" THEN source[p][b]
                          ELSE staging[q][b]
BY DEF StageProvider, TypeOK, Rows

LEMMA RejectedRow ==
  ASSUME TypeOK, RejectOutliers, NEW q \in Provider, NEW b \in Bar
  PROVE  staging'[q][b] # "none" <=> staging[q][b] # "none"
<1>1. PICK rejected \in SUBSET {c \in Bar : Adjudicated(staging, c)} :
        staging' = [staging EXCEPT ![Whistleblower] = [c \in Bar |->
                      IF c \in rejected THEN "rejected" ELSE @[c]]]
  BY DEF RejectOutliers, MarkRejected, AcceptedOfWhistleblower
<1>2. b \in rejected => staging[Whistleblower][b] = "accepted"
  BY DEF Adjudicated
<1> QED BY <1>1, <1>2 DEF TypeOK, Rows

LEMMA DeletedRow ==
  ASSUME TypeOK, ArchiveAndDelete, NEW q \in Provider, NEW b \in Bar
  PROVE  /\ staging'[q][b] = IF q \in Candidate /\ b \in run.at THEN "none"
                             ELSE staging[q][b]
         /\ b \in run.at /\ q \in run.selected => <<b, q>> \in archive'
         /\ archive \subseteq archive'
BY DEF ArchiveAndDelete

(* How any step changes the rows: none is lost unarchived, and none appears *)
(* that the day does not have.                                             *)
LEMMA RowStep ==
  ASSUME ReconcileInv, [Next]_vars, NEW p \in Provider, NEW b \in Bar
  PROVE  /\ <<b, p>> \in archive => <<b, p>> \in archive'
         /\ staging[p][b] # "none" => staging'[p][b] # "none" \/ <<b, p>> \in archive'
         /\ staging'[p][b] # "none" =>
              staging[p][b] # "none" \/ (StageProvider(p) /\ source[p][b] # "none")
<1> TypeOK /\ DecisionInv /\ RowsInv /\ SnapshotInv
  BY DEF ReconcileInv
<1>1. CASE UNCHANGED <<staging, archive>>
  BY <1>1
<1>2. ASSUME NEW q \in Provider, StageProvider(q)
      PROVE  /\ archive' = archive
             /\ staging[p][b] # "none" => staging'[p][b] # "none"
             /\ staging'[p][b] # "none" =>
                  staging[p][b] # "none" \/ (StageProvider(p) /\ source[p][b] # "none")
  <2>1. archive' = archive
    BY <1>2 DEF StageProvider, tables
  <2> QED BY <1>2, <2>1, StagedRow
<1>3. CASE RejectOutliers
  <2>1. archive' = archive
    BY <1>3 DEF RejectOutliers, tables
  <2> QED BY <1>3, <2>1, RejectedRow
<1>4. CASE ArchiveAndDelete
  <2>1. b \in run.at /\ p \in Candidate /\ staging[p][b] # "none" =>
          p \in run.selected \/ <<b, p>> \in archive
    BY <1>4 DEF SnapshotInv, PurgeInv, ArchiveAndDelete
  <2> QED BY <1>4, <2>1, DeletedRow
<1> QED BY <1>1, <1>2, <1>3, <1>4, StagingWriters

LEMMA KeptStable ==
  ASSUME ReconcileInv, [Next]_vars, NEW p \in Provider, NEW b \in Bar, Kept(p, b)
  PROVE  Kept(p, b)'
BY RowStep, SourceFixed DEF Kept

LEMMA InitRows == Init => RowsInv /\ SnapshotInv
<1> SUFFICES ASSUME Init PROVE RowsInv /\ SnapshotInv
  OBVIOUS
<1>1. \A p \in Provider, b \in Bar : staging[p][b] = "none"
  BY DEF Init, NoRows
<1>2. Resolved = {}
  BY DEF Init, Resolved
<1>3. RowsInv
  BY <1>1, <1>2 DEF Init, RowsInv
<1>4. SnapshotInv
  BY IdleFields DEF Init, SnapshotInv, ModeInv, WholeDaySeen, AbsenceSeen, AbsenceIsReal,
                    PurgeInv, In
<1> QED BY <1>3, <1>4

LEMMA ResolvedGrows ==
  ASSUME TypeOK, [Next]_vars
  PROVE  Resolved \subseteq Resolved'
<1>1. ASSUME NEW b \in Bar, Resolve(b)
      PROVE  Resolved \subseteq Resolved'
  <2>1. PICK r \in Automatic(run.rows, b, graduated, band) :
          resolution' = [resolution EXCEPT ![b] = r]
    BY <1>1 DEF Resolve
  <2>2. r # Unresolved
    BY AutomaticResolves, Constants DEF Unresolved, Resolution
  <2> QED BY <2>1, <2>2 DEF Resolved, TypeOK
<1>2. ASSUME NEW b \in Bar, ForceResolve(b)
      PROVE  Resolved \subseteq Resolved'
  <2>1. Resolution(Preferred, "finalized") # Unresolved
    BY Constants DEF Resolution, Unresolved
  <2> QED BY <1>2, <2>1 DEF ForceResolve, Resolved, TypeOK
<1>3. CASE Reevaluate
  BY <1>3, ReevaluateKeepsWinners
<1>4. CASE UNCHANGED resolution
  BY <1>4 DEF Resolved
<1>5. \/ UNCHANGED resolution
      \/ \E b \in Bar : Resolve(b) \/ ForceResolve(b)
      \/ Reevaluate
  <2>1. CASE UNCHANGED vars
    BY <2>1 DEF vars, tables
  <2>2. CASE Stage
    BY <2>2 DEF Stage, StageProvider, RecordCoverage, CoverageFails, tables
  <2>3. CASE Step
    BY <2>3 DEF Step, RejectOutliers, ReadCoverage, ReadRows, Graduate, StopResolving,
                MarkPending, ReadPending, ClearPending, BeginPromoting, Promote,
                SelectForArchive, ArchiveAndDelete, Finish, tables
  <2>4. CASE (\E mode \in Mode : Start(mode)) \/ SeedBand \/ Crash
    BY <2>4 DEF Start, SeedBand, Crash, tables
  <2> QED BY <2>1, <2>2, <2>3, <2>4 DEF Next
<1> QED BY <1>1, <1>2, <1>3, <1>4, <1>5

(* A bar leaves the undecided ones only with all its rows kept: it was     *)
(* eligible in a run that had seen the whole day, or pending already.      *)
LEMMA SettledBars ==
  ASSUME ReconcileInv, [Next]_vars, NEW b \in Bar, b \in pending' \cup Resolved'
  PROVE  \A p \in Provider : Kept(p, b)
<1> TypeOK /\ DecisionInv /\ RowsInv /\ SnapshotInv
  BY DEF ReconcileInv
<1> SUFFICES ASSUME b \notin pending \cup Resolved
             PROVE  \A p \in Provider : Kept(p, b)
  BY DEF RowsInv
<1>1. CASE Resolve(b) \/ MarkPending(b)
  <2>1. run.mode = "plain" /\ b \in run.eligible
    BY <1>1 DEF Resolve, MarkPending, In, SnapshotInv, ModeInv
  <2> QED BY <2>1 DEF SnapshotInv, WholeDaySeen
<1>2. ~ ForceResolve(b)
  BY DEF ForceResolve, SnapshotInv, ModeInv, In
<1>3. CASE Reevaluate
  BY <1>3, ReevaluateKeepsWinners DEF Reevaluate
<1>4. CASE \E c \in Bar \ {b} : Resolve(c) \/ MarkPending(c) \/ ForceResolve(c)
  BY <1>4 DEF Resolve, MarkPending, ForceResolve, Resolved, TypeOK
<1>5. \/ pending' \subseteq pending /\ UNCHANGED resolution
      \/ \E c \in Bar : Resolve(c) \/ MarkPending(c) \/ ForceResolve(c)
      \/ Reevaluate
  <2>1. CASE UNCHANGED vars
    BY <2>1 DEF vars, tables
  <2>2. CASE Stage
    BY <2>2 DEF Stage, StageProvider, RecordCoverage, CoverageFails, tables
  <2>3. CASE Step
    BY <2>3 DEF Step, RejectOutliers, ReadCoverage, ReadRows, Graduate, StopResolving,
                ReadPending, ClearPending, BeginPromoting, Promote,
                SelectForArchive, ArchiveAndDelete, Finish, tables
  <2>4. CASE (\E mode \in Mode : Start(mode)) \/ SeedBand \/ Crash
    BY <2>4 DEF Start, SeedBand, Crash, tables
  <2> QED BY <2>1, <2>2, <2>3, <2>4 DEF Next
<1>6. CASE pending' \subseteq pending /\ UNCHANGED resolution
  BY <1>6 DEF Resolved
<1> QED BY <1>1, <1>2, <1>3, <1>4, <1>5, <1>6

(* Who is covered, or staged and not yet covered.                          *)
LEMMA CoverageStep ==
  ASSUME TypeOK, [Next]_vars
  PROVE  /\ covered \subseteq covered'
         /\ \A p \in covered' \cup stager' :
              p \in covered \cup stager \/ (p \in Provider /\ StageProvider(p))
<1>1. CASE UNCHANGED vars
  BY <1>1 DEF vars
<1>2. CASE Stage
  BY <1>2 DEF Stage, StageProvider, RecordCoverage, CoverageFails
<1>3. CASE Step
  BY <1>3 DEF Step, RejectOutliers, ReadCoverage, ReadRows, Graduate, Resolve,
              StopResolving, MarkPending, ReadPending, ForceResolve, ClearPending,
              BeginPromoting, Promote, SelectForArchive, ArchiveAndDelete, Finish,
              Reevaluate
<1>4. CASE (\E mode \in Mode : Start(mode)) \/ SeedBand \/ Crash
  BY <1>4 DEF Start, SeedBand, Crash
<1> QED BY <1>1, <1>2, <1>3, <1>4 DEF Next

LEMMA NextRows == ReconcileInv /\ [Next]_vars => RowsInv'
<1> SUFFICES ASSUME ReconcileInv, [Next]_vars PROVE RowsInv'
  OBVIOUS
<1> TypeOK /\ DecisionInv /\ RowsInv /\ SnapshotInv
  BY DEF ReconcileInv
<1>1. ASSUME NEW p \in Provider, NEW b \in Bar
      PROVE  staging'[p][b] # "none" => source'[p][b] # "none"
  BY RowStep, SourceFixed DEF RowsInv
<1>2. ASSUME NEW p \in Provider,
             p \in covered' \cup stager' \/ (\E b \in Bar : staging'[p][b] # "none"),
             NEW b \in Bar
      PROVE  Kept(p, b)'
  <2>1. CASE StageProvider(p)
    BY <2>1, StagedRow, SourceFixed DEF Kept
  <2>2. CASE ~ StageProvider(p)
    <3>1. p \in covered \cup stager \/ (\E c \in Bar : staging[p][c] # "none")
      BY <1>2, <2>2, CoverageStep, RowStep
    <3>2. Kept(p, b)
      BY <3>1 DEF RowsInv
    <3> QED BY <3>2, KeptStable
  <2> QED BY <2>1, <2>2
<1>3. ASSUME NEW b \in pending' \cup Resolved', NEW p \in Provider
      PROVE  Kept(p, b)'
  <2>1. b \in Bar
    BY NextType DEF TypeOK, Resolved
  <2> QED BY <2>1, SettledBars, KeptStable
<1> QED BY <1>1, <1>2, <1>3 DEF RowsInv

-----------------------------------------------------------------------------
(* Snapshots.                                                              *)

(* How a step changes the run: not at all, to nothing, or by one of the    *)
(* actions of its mode.                                                    *)
LEMMA RunStep ==
  ASSUME [Next]_vars
  PROVE  \/ run' = run /\ UNCHANGED <<resolution, pending>>
         \/ run' = Idle
         \/ \E mode \in Mode : Start(mode)
         \/ RejectOutliers \/ ReadCoverage \/ ReadRows \/ ReadPending
         \/ (Graduate /\ run' # Idle)
         \/ StopResolving
         \/ \E b \in Bar : Resolve(b) \/ MarkPending(b) \/ Promote(b)
         \/ \E b \in Bar : ForceResolve(b) /\ b \notin Resolved
         \/ ClearPending \/ BeginPromoting \/ SelectForArchive \/ ArchiveAndDelete
<1>1. CASE UNCHANGED vars
  BY <1>1 DEF vars, tables
<1>2. CASE Stage
  BY <1>2 DEF Stage, StageProvider, RecordCoverage, CoverageFails, tables
<1>3. CASE Step
  BY <1>3 DEF Step, Finish, Reevaluate, ForceResolve
<1>4. CASE SeedBand \/ Crash
  BY <1>4 DEF SeedBand, Crash, tables
<1> QED BY <1>1, <1>2, <1>3, <1>4 DEF Next

LEMMA NextMode == ReconcileInv /\ [Next]_vars => ModeInv'
<1> SUFFICES ASSUME ReconcileInv, [Next]_vars PROVE ModeInv'
  OBVIOUS
<1> TypeOK /\ DecisionInv /\ RowsInv /\ SnapshotInv /\ ModeInv /\ run \in Run
  BY DEF ReconcileInv, SnapshotInv, TypeOK
<1> USE DEF ModeInv, In
<1>1. CASE run' = run /\ UNCHANGED <<resolution, pending>>
  BY <1>1 DEF Resolved
<1>2. CASE run' = Idle
  BY <1>2, IdleFields
<1>3. ASSUME NEW mode \in Mode, Start(mode)
      PROVE  ModeInv'
  <2>1. run'.mode = mode /\ run'.phase = StartPhase(mode)
    BY <1>3, IdleType DEF Start, Run
  <2> QED BY <2>1 DEF StartPhase, Mode
<1>4. CASE RejectOutliers
  BY <1>4 DEF RejectOutliers, Run
<1>5. CASE ReadCoverage
  BY <1>5 DEF ReadCoverage, Run
<1>6. CASE ReadRows
  <2>1. run'.phase = "graduate" /\ run'.mode = run.mode /\ run.mode = "plain"
    BY <1>6 DEF ReadRows, Run
  <2> QED BY <2>1
<1>7. CASE ReadPending
  <2>1. /\ run'.phase = "finalize" /\ run'.mode = run.mode /\ run.mode = "finalize"
        /\ run'.todo \subseteq pending /\ pending' = pending
    BY <1>7 DEF ReadPending, Run, tables
  <2> QED BY <2>1
<1>8. CASE Graduate /\ run' # Idle
  BY <1>8 DEF Graduate, Run
<1>9. CASE StopResolving
  BY <1>9 DEF StopResolving, Run
<1>10. ASSUME NEW b \in Bar, Resolve(b) \/ MarkPending(b) \/ Promote(b)
       PROVE  ModeInv'
  BY <1>10 DEF Resolve, MarkPending, Promote, Run
<1>11. ASSUME NEW b \in Bar, ForceResolve(b), b \notin Resolved
       PROVE  ModeInv'
  <2>1. /\ run'.phase = "clear" /\ run'.mode = run.mode /\ run.phase = "finalize"
        /\ run'.todo = run.todo \ {b} /\ pending' = pending
    BY <1>11 DEF ForceResolve, Run
  <2> QED BY <2>1, ResolvedGrows
<1>12. CASE ClearPending
  <2>1. /\ run'.phase = "finalize" /\ run'.mode = run.mode /\ run.phase = "clear"
        /\ run'.todo = run.todo /\ pending' = pending \ run.at
    BY <1>12 DEF ClearPending, Run
  <2>2. run.at \subseteq Resolved
    BY <2>1 DEF DecisionInv
  <2> QED BY <2>1, <2>2, ResolvedGrows
<1>13. CASE BeginPromoting
  BY <1>13 DEF BeginPromoting, Run
<1>14. CASE SelectForArchive
  BY <1>14 DEF SelectForArchive, Run
<1>15. CASE ArchiveAndDelete
  BY <1>15 DEF ArchiveAndDelete, Run
<1> QED BY <1>1, <1>2, <1>3, <1>4, <1>5, <1>6, <1>7, <1>8, <1>9, <1>10, <1>11,
           <1>12, <1>13, <1>14, <1>15, RunStep

(* A plain run goes on with what it has seen: bars only become resolved or *)
(* pending, and kept rows stay kept.                                       *)
LEMMA WholeDayFrame ==
  ASSUME ReconcileInv, [Next]_vars,
         run'.mode = run.mode, run'.rows = run.rows, run'.eligible = run.eligible,
         run.mode = "plain" => pending \subseteq pending'
  PROVE  WholeDaySeen'
<1> SUFFICES ASSUME run.mode = "plain", run.eligible # {}
             PROVE  /\ \A p \in Provider, b \in Bar : Kept(p, b)'
                    /\ \A b \in Bar : \/ b \in Staged(run.rows) \cup pending' \cup Resolved'
                                      \/ \A p \in Candidate : source'[p][b] = "none"
  BY DEF WholeDaySeen, Staged, CandidatesAt
<1>1. WholeDaySeen /\ TypeOK
  BY DEF ReconcileInv, SnapshotInv
<1> QED BY <1>1, KeptStable, ResolvedGrows, SourceFixed DEF WholeDaySeen

(* A bar is ready only when every provider's day has been staged.          *)
LEMMA ReadySeesWholeDay ==
  ASSUME ReconcileInv, ReadRows, run'.eligible # {},
         NEW p \in Provider, NEW b \in Bar
  PROVE  Kept(p, b)
<1> DEFINE rows == Fetched(Staged(staging) \ pending)
<1>1. run'.eligible = Ready(rows, run.coverage)
  BY DEF ReadRows, ReconcileInv, TypeOK, Run
<1>2. PICK c \in Bar : c \in Ready(rows, run.coverage)
  BY <1>1 DEF Ready, Staged
<1>3. rows[p][c] # "none" \/ p \in covered
  BY <1>2 DEF Ready, ReconcileInv, SnapshotInv, AbsenceSeen
<1>4. rows[p][c] # "none" => staging[p][c] # "none"
  BY DEF Fetched
<1> QED BY <1>3, <1>4 DEF ReconcileInv, RowsInv

LEMMA NextWholeDay == ReconcileInv /\ [Next]_vars => WholeDaySeen'
<1> SUFFICES ASSUME ReconcileInv, [Next]_vars PROVE WholeDaySeen'
  OBVIOUS
<1> TypeOK /\ DecisionInv /\ RowsInv /\ SnapshotInv /\ ModeInv /\ run \in Run
  BY DEF ReconcileInv, SnapshotInv, TypeOK
<1> USE DEF In
<1>1. CASE run' = run /\ UNCHANGED <<resolution, pending>>
  BY <1>1, WholeDayFrame
<1>2. CASE run' = Idle \/ \E mode \in Mode : Start(mode)
  <2>1. run'.eligible = {}
    BY <1>2, IdleFields, IdleType DEF Start, Run
  <2> QED BY <2>1 DEF WholeDaySeen
<1>3. CASE ReadRows
  <2> SUFFICES ASSUME run'.eligible # {}
               PROVE  WholeDaySeen'
    BY DEF WholeDaySeen
  <2> DEFINE rows == Fetched(Staged(staging) \ pending)
  <2>1. \A p \in Provider, b \in Bar : Kept(p, b)
    BY <1>3, ReadySeesWholeDay
  <2>2. run'.rows = rows /\ UNCHANGED <<pending, resolution>>
    BY <1>3 DEF ReadRows, Run, tables
  <2>3. ASSUME NEW b \in Bar, b \notin Staged(rows) \cup pending \cup Resolved,
               NEW p \in Candidate
        PROVE  source[p][b] = "none"
    <3>1. b \notin Staged(staging)
      BY <2>3 DEF Staged, CandidatesAt, Fetched, Provider
    <3>2. staging[p][b] = "none"
      BY <3>1 DEF Staged, CandidatesAt
    <3>3. <<b, p>> \notin archive
      BY <2>3 DEF DecisionInv
    <3> QED BY <2>1, <3>2, <3>3 DEF Kept, Provider
  <2>4. \A p \in Provider, b \in Bar : Kept(p, b)'
    BY <2>1, KeptStable
  <2>5. \A b \in Bar : \/ b \in Staged(rows) \cup pending' \cup Resolved'
                      \/ \A p \in Candidate : source'[p][b] = "none"
    BY <2>2, <2>3, ResolvedGrows, SourceFixed
  <2>6. Staged(run.rows)' = Staged(rows)
    BY <2>2 DEF Staged, CandidatesAt
  <2> QED BY <2>4, <2>5, <2>6 DEF WholeDaySeen
<1>4. CASE ReadPending
  <2>1. run'.mode = "finalize"
    BY <1>4 DEF ReadPending, Run
  <2> QED BY <2>1 DEF WholeDaySeen
<1>5. CASE RejectOutliers \/ ReadCoverage \/ (Graduate /\ run' # Idle)
  <2>1. /\ run'.mode = run.mode /\ run'.rows = run.rows /\ run'.eligible = run.eligible
        /\ pending' = pending
    BY <1>5 DEF RejectOutliers, ReadCoverage, Graduate, Run, tables
  <2> QED BY <2>1, WholeDayFrame
<1>6. CASE StopResolving \/ \E b \in Bar : Resolve(b) \/ MarkPending(b) \/ Promote(b)
  <2>1. /\ run'.mode = run.mode /\ run'.rows = run.rows /\ run'.eligible = run.eligible
        /\ pending \subseteq pending'
    BY <1>6 DEF StopResolving, Resolve, MarkPending, Promote, Run, tables
  <2> QED BY <2>1, WholeDayFrame
<1>7. CASE ClearPending \/ \E b \in Bar : ForceResolve(b) /\ b \notin Resolved
  <2>1. run'.mode = run.mode
    BY <1>7 DEF ClearPending, ForceResolve, Run
  <2>2. run.mode = "finalize"
    BY <1>7 DEF ClearPending, ForceResolve, ModeInv
  <2> QED BY <2>1, <2>2 DEF WholeDaySeen
<1>8. CASE BeginPromoting \/ SelectForArchive \/ ArchiveAndDelete
  <2>1. /\ run'.mode = run.mode /\ run'.rows = run.rows /\ run'.eligible = run.eligible
        /\ pending' = pending
    BY <1>8 DEF BeginPromoting, SelectForArchive, ArchiveAndDelete, Run, tables
  <2> QED BY <2>1, WholeDayFrame
<1> QED BY <1>1, <1>2, <1>3, <1>4, <1>5, <1>6, <1>7, <1>8, RunStep

(* The argument of AbsenceIsReal: a provider in the snapshot of coverage   *)
(* had been staged before the rows were read, so that a row it does not    *)
(* have there was never there, or is of a bar resolved long ago.           *)
LEMMA ReadyAbsence ==
  ASSUME ReconcileInv, ReadRows,
         NEW b \in run'.eligible \ Resolved, NEW p \in Provider,
         run'.rows[p][b] = "none"
  PROVE  source[p][b] = "none"
<1> DEFINE rows == Fetched(Staged(staging) \ pending)
<1> run \in Run
  BY DEF ReconcileInv, TypeOK
<1>1. run'.eligible = Ready(rows, run.coverage) /\ run'.rows = rows
  BY DEF ReadRows, Run
<1>2. b \in Bar /\ b \in Staged(rows) /\ p \in run.coverage
  BY <1>1 DEF Ready, Staged
<1>3. b \in Staged(staging) \ pending
  BY <1>2 DEF Staged, CandidatesAt, Fetched, Provider
<1>4. staging[p][b] = "none"
  BY <1>1, <1>2, <1>3 DEF Fetched
<1>5. Kept(p, b)
  BY <1>2 DEF ReconcileInv, SnapshotInv, AbsenceSeen, RowsInv
<1>6. <<b, p>> \notin archive
  BY <1>2 DEF ReconcileInv, DecisionInv
<1> QED BY <1>4, <1>5, <1>6 DEF Kept

LEMMA NextAbsence == ReconcileInv /\ [Next]_vars => AbsenceSeen'
<1> SUFFICES ASSUME ReconcileInv, [Next]_vars PROVE AbsenceSeen'
  OBVIOUS
<1> TypeOK /\ DecisionInv /\ SnapshotInv /\ AbsenceSeen /\ run \in Run
  BY DEF ReconcileInv, SnapshotInv, TypeOK
<1> source' = source /\ covered \subseteq covered' /\ Resolved \subseteq Resolved'
  BY SourceFixed, CoverageStep, ResolvedGrows
<1> USE DEF AbsenceSeen, AbsenceIsReal, In
<1>1. CASE run' = run /\ UNCHANGED <<resolution, pending>>
  BY <1>1
<1>2. CASE run' = Idle
  BY <1>2, IdleFields
<1>3. ASSUME NEW mode \in Mode, Start(mode)
      PROVE  AbsenceSeen'
  <2>1. run'.coverage = {} /\ run'.phase \in {"outliers", "rows", "reevaluate"}
    BY <1>3, IdleFields, IdleType DEF Start, StartPhase, Mode, Run
  <2> QED BY <2>1
<1>4. CASE RejectOutliers
  BY <1>4 DEF RejectOutliers, Run
<1>5. CASE ReadCoverage
  <2>1. run'.coverage = covered /\ run'.phase = "rows"
    BY <1>5 DEF ReadCoverage, Run
  <2> QED BY <2>1
<1>6. CASE ReadRows
  <2>1. run'.coverage = {} /\ run'.phase = "graduate"
    BY <1>6 DEF ReadRows, Run
  <2> QED BY <1>6, <2>1, ReadyAbsence
<1>7. CASE Graduate /\ run' # Idle
  <2>1. /\ run'.coverage = run.coverage /\ run'.phase = "resolve" /\ run'.rows = run.rows
        /\ run'.eligible = run.eligible /\ run'.known = Resolved /\ run.phase = "graduate"
    BY <1>7 DEF Graduate, Run
  <2> QED BY <2>1
<1>8. ASSUME NEW b \in Bar, Resolve(b)
      PROVE  AbsenceSeen'
  <2>1. /\ run'.coverage = run.coverage /\ run'.phase = run.phase /\ run'.rows = run.rows
        /\ run'.eligible = run.eligible /\ run.known \subseteq run'.known
        /\ run.phase = "resolve"
    BY <1>8 DEF Resolve, Run
  <2> QED BY <2>1
<1>9. CASE \/ StopResolving \/ ReadPending \/ ClearPending \/ BeginPromoting
           \/ SelectForArchive \/ ArchiveAndDelete
           \/ \E b \in Bar : MarkPending(b) \/ Promote(b)
           \/ \E b \in Bar : ForceResolve(b) /\ b \notin Resolved
  <2>1. run'.coverage = run.coverage /\ run'.phase \notin {"graduate", "resolve"}
    BY <1>9 DEF StopResolving, ReadPending, ClearPending, BeginPromoting,
                SelectForArchive, ArchiveAndDelete, MarkPending, Promote, ForceResolve, Run
  <2> QED BY <2>1
<1> QED BY <1>1, <1>2, <1>3, <1>4, <1>5, <1>6, <1>7, <1>8, <1>9, RunStep

(* Between the SELECT and the DELETE of a purge quant-stage may upsert: all *)
(* rows of a resolved bar are kept, so what it brings back is archived.    *)
LEMMA NextPurge == ReconcileInv /\ [Next]_vars => PurgeInv'
<1> SUFFICES ASSUME ReconcileInv, [Next]_vars PROVE PurgeInv'
  OBVIOUS
<1> TypeOK /\ DecisionInv /\ RowsInv /\ PurgeInv /\ run \in Run
  BY DEF ReconcileInv, SnapshotInv, TypeOK
<1> USE DEF PurgeInv, In
<1>1. CASE run' = run
  <2>1. ASSUME run.phase = "delete", NEW b \in run.at, NEW p \in Candidate,
               staging'[p][b] # "none"
        PROVE  p \in run.selected \/ <<b, p>> \in archive'
    <3>1. b \in Bar /\ b \in Resolved /\ p \in Provider
      BY <2>1 DEF DecisionInv, Run, Provider
    <3>2. Kept(p, b)
      BY <3>1 DEF RowsInv
    <3>3. source[p][b] # "none"
      BY <2>1, <3>1, RowStep DEF RowsInv
    <3>4. staging[p][b] # "none" \/ <<b, p>> \in archive
      BY <3>2, <3>3 DEF Kept
    <3> QED BY <2>1, <3>1, <3>4, RowStep
  <2>2. \A b \in run.at : NeededAsNeighbor(b)' = NeededAsNeighbor(b)
    BY <1>1 DEF NeededAsNeighbor, Staged, CandidatesAt
  <2> QED BY <1>1, <2>1, <2>2
<1>2. CASE run' = Idle
  BY <1>2, IdleFields
<1>3. ASSUME NEW mode \in Mode, Start(mode)
      PROVE  PurgeInv'
  <2>1. run'.phase \in {"outliers", "rows", "reevaluate"}
    BY <1>3, IdleFields, IdleType DEF Start, StartPhase, Mode, Run
  <2> QED BY <2>1
<1>4. ASSUME NEW b \in Bar, Promote(b)
      PROVE  PurgeInv'
  <2>1. run'.rows = run.rows /\ run'.known = run.known
    BY <1>4 DEF Promote, Run
  <2>2. \A c \in Bar : NeededAsNeighbor(c)' = NeededAsNeighbor(c)
    BY <2>1 DEF NeededAsNeighbor, Staged, CandidatesAt
  <2>3. \/ run'.phase = "promote"
        \/ run'.phase = "purge" /\ run'.at = {b} /\ ~ NeededAsNeighbor(b)
    BY <1>4 DEF Promote, Run
  <2> QED BY <2>2, <2>3
<1>5. CASE SelectForArchive
  <2>1. /\ run'.rows = run.rows /\ run'.known = run.known /\ run'.at = run.at
        /\ run.phase = "purge" /\ run'.phase = "delete"
        /\ run'.selected = UNION {CandidatesAt(staging, b) : b \in run.at}
        /\ staging' = staging
    BY <1>5 DEF SelectForArchive, Run
  <2>2. \A b \in run.at : NeededAsNeighbor(b)' = NeededAsNeighbor(b)
    BY <2>1 DEF NeededAsNeighbor, Staged, CandidatesAt
  <2>3. \A b \in run.at, p \in Candidate : staging[p][b] # "none" => p \in run'.selected
    BY <2>1 DEF CandidatesAt
  <2> QED BY <2>1, <2>2, <2>3
<1>6. CASE \/ RejectOutliers \/ ReadCoverage \/ ReadRows \/ ReadPending
           \/ (Graduate /\ run' # Idle)
           \/ StopResolving \/ ClearPending \/ BeginPromoting \/ ArchiveAndDelete
           \/ \E b \in Bar : Resolve(b) \/ MarkPending(b)
           \/ \E b \in Bar : ForceResolve(b) /\ b \notin Resolved
  <2>1. run'.phase \notin {"purge", "delete"}
    BY <1>6 DEF RejectOutliers, ReadCoverage, ReadRows, ReadPending, Graduate, StopResolving,
                ClearPending, BeginPromoting, ArchiveAndDelete, Resolve, MarkPending,
                ForceResolve, Run
  <2> QED BY <2>1
<1> QED BY <1>1, <1>2, <1>3, <1>4, <1>5, <1>6, RunStep

-----------------------------------------------------------------------------
(* The theorems.                                                           *)

LEMMA NextInv == ReconcileInv /\ [Next]_vars => ReconcileInv'
BY NextType, NextDecision, NextRows, NextMode, NextWholeDay, NextAbsence, NextPurge
   DEF ReconcileInv, SnapshotInv

(* The invariant of runs and tables behind everything below.               *)
THEOREM ReconcileInvariant == Spec => []ReconcileInv
<1>1. Init => ReconcileInv
  BY InitType, InitDecision, InitRows DEF ReconcileInv
<1> QED BY <1>1, NextInv, PTL DEF Spec

(* The tables and snapshots keep their types: no step writes a value its   *)
(* column does not have.                                                   *)
THEOREM TypesKept == Spec => []TypeOK
<1>1. ReconcileInv => TypeOK
  BY DEF ReconcileInv
<1> QED BY <1>1, ReconcileInvariant, PTL

(* A bar is judged without a provider only if that provider has no such    *)
(* minute, however quant-stage and quant-reconcile interleave.             *)
THEOREM ConfirmedAbsence == Spec => []AbsenceIsReal
<1>1. ReconcileInv => AbsenceIsReal
  BY DEF ReconcileInv, SnapshotInv, AbsenceSeen
<1> QED BY <1>1, ReconcileInvariant, PTL

(* No minute leaves staging before it is published, wherever runs stop.    *)
THEOREM PublishedBeforeArchived == Spec => []ArchivedIsPublished
<1>1. ReconcileInv => ArchivedIsPublished
  BY DEF ReconcileInv, DecisionInv, ArchivedIsPublished
<1> QED BY <1>1, ReconcileInvariant, PTL

(* purge_staging_bar loses no row, also none that is staged meanwhile.     *)
THEOREM NoRowLost == Spec => RowsLeaveOnlyToArchive
<1>1. ReconcileInv /\ [Next]_vars =>
        [\A p \in Candidate, b \in Bar :
           staging[p][b] # "none" /\ staging'[p][b] = "none" => <<b, p>> \in archive']_vars
  BY RowStep DEF Provider
<1> QED BY <1>1, ReconcileInvariant, PTL DEF Spec, RowsLeaveOnlyToArchive

(* A plain run takes no row an adjacent bar may still be judged by.        *)
THEOREM WindowsKept == Spec => PlainPurgeKeepsWindows
<1>1. ASSUME ReconcileInv, [Next]_vars, NEW p \in Candidate, NEW b \in Bar,
             run.mode = "plain", staging[p][b] # "none", staging'[p][b] = "none",
             NEW n \in {b - 1, b + 1} \cap Staged(staging)
      PROVE  n \in Resolved \cup pending
  <2> TypeOK /\ DecisionInv /\ RowsInv /\ SnapshotInv /\ p \in Provider /\ n \in Bar
    BY <1>1 DEF ReconcileInv, Provider, Staged
  <2>1. ArchiveAndDelete /\ b \in run.at
    <3>1. ~ UNCHANGED <<staging, archive>>
      BY <1>1
    <3>2. ASSUME NEW q \in Provider, StageProvider(q)
          PROVE  FALSE
      <4>1. staging'[p][b] = IF p = q /\ source[q][b] # "none" THEN source[q][b]
                             ELSE staging[p][b]
        BY <3>2, StagedRow
      <4>2. staging'[p][b] # "none"
        BY <1>1, <4>1
      <4> QED BY <1>1, <4>2
    <3>3. ~ RejectOutliers
      BY <1>1, RejectedRow
    <3> QED BY <1>1, <3>1, <3>2, <3>3, StagingWriters, DeletedRow
  <2>2. run.phase = "delete"
    BY <2>1 DEF ArchiveAndDelete, In
  <2>3. n \notin Staged(run.rows) \ run.known
    BY <2>1, <2>2 DEF SnapshotInv, PurgeInv, NeededAsNeighbor
  <2>4. run.eligible # {}
    BY <2>1, <2>2 DEF DecisionInv
  <2>5. PICK q \in Candidate : staging[q][n] # "none"
    BY DEF Staged, CandidatesAt
  <2>6. source[q][n] # "none"
    BY <2>5 DEF RowsInv, Provider
  <2>7. n \in Staged(run.rows) \cup pending \cup Resolved
    BY <1>1, <2>4, <2>6 DEF SnapshotInv, WholeDaySeen
  <2> QED BY <2>3, <2>7 DEF DecisionInv
<1>2. ReconcileInv /\ [Next]_vars =>
        [\A p \in Candidate, b \in Bar :
           run.mode = "plain" /\ staging[p][b] # "none" /\ staging'[p][b] = "none" =>
             {b - 1, b + 1} \cap Staged(staging) \subseteq Resolved \cup pending]_vars
  BY <1>1
<1> QED BY <1>2, ReconcileInvariant, PTL DEF Spec, PlainPurgeKeepsWindows

(* Every bar is decided once, and only its winner's values are published:  *)
(* runs, wherever they are stopped and retried, implement Publication.     *)
THEOREM PublicationRefinement == Spec => ImplementsPublication
<1> DEFINE winners == [b \in Bar |-> resolution[b].winner]
<1>1. Init => Published!Init
  BY DEF Init, Published!Init, Unresolved, Resolution
<1>2. ASSUME ReconcileInv, [Next]_vars
      PROVE  [Published!Next]_<<winners, fact>>
  <2> TypeOK /\ DecisionInv /\ SnapshotInv
    BY <1>2 DEF ReconcileInv
  <2>1. ASSUME NEW b \in Bar, NEW r \in [winner : Candidate, path : Path], b \notin Resolved,
               resolution' = [resolution EXCEPT ![b] = r], fact' = fact
        PROVE  Published!Next
    <3>1. winners[b] = NoWinner
      BY <2>1, ResolvedHasWinner
    <3>2. winners' = [winners EXCEPT ![b] = r.winner]
      BY <2>1 DEF TypeOK
    <3>3. r.winner \in Candidate
      BY <2>1
    <3> QED BY <2>1, <3>1, <3>2, <3>3 DEF Published!Next, Published!Decide
  <2>2. ASSUME NEW b \in Bar, Resolve(b)
        PROVE  Published!Next
    <3>1. PICK r \in Automatic(run.rows, b, graduated, band) :
            resolution' = [resolution EXCEPT ![b] = r]
      BY <2>2 DEF Resolve
    <3>2. b \notin Resolved /\ fact' = fact
      BY <2>2 DEF Resolve, DecisionInv
    <3> QED BY <2>1, <3>1, <3>2, AutomaticResolves
  <2>3. ASSUME NEW b \in Bar, ForceResolve(b)
        PROVE  [Published!Next]_<<winners, fact>>
    <3>1. Resolution(Preferred, "finalized") \in [winner : Candidate, path : Path]
      BY Constants DEF Resolution, Path
    <3>2. CASE b \notin Resolved
      BY <2>1, <2>3, <3>1, <3>2 DEF ForceResolve
    <3>3. CASE b \in Resolved
      BY <2>3, <3>3 DEF ForceResolve
    <3> QED BY <3>2, <3>3
  <2>4. ASSUME NEW b \in Bar, Promote(b)
        PROVE  Published!Next
    <3>1. b \in Resolved
      BY <2>4 DEF Promote, DecisionInv, In
    <3>2. winners[b] # NoWinner /\ fact' = [fact EXCEPT ![b] = winners[b]]
      BY <2>4, <3>1, ResolvedHasWinner DEF Promote
    <3>3. winners' = winners
      BY <2>4 DEF Promote
    <3> QED BY <3>2, <3>3 DEF Published!Next, Published!Publish
  <2>5. CASE Reevaluate
    <3>1. winners' = winners
      BY <2>5, ReevaluateKeepsWinners
    <3> QED BY <2>5, <3>1 DEF Reevaluate
  <2>6. CASE UNCHANGED <<resolution, fact>>
    BY <2>6
  <2>7. \/ UNCHANGED <<resolution, fact>>
        \/ \E b \in Bar : Resolve(b) \/ ForceResolve(b) \/ Promote(b)
        \/ Reevaluate
    <3>1. CASE UNCHANGED vars
      BY <3>1 DEF vars, tables
    <3>2. CASE Stage
      BY <3>2 DEF Stage, StageProvider, RecordCoverage, CoverageFails, tables
    <3>3. CASE Step
      BY <3>3 DEF Step, RejectOutliers, ReadCoverage, ReadRows, Graduate, StopResolving,
                  MarkPending, ReadPending, ClearPending, BeginPromoting,
                  SelectForArchive, ArchiveAndDelete, Finish, tables
    <3>4. CASE (\E mode \in Mode : Start(mode)) \/ SeedBand \/ Crash
      BY <3>4 DEF Start, SeedBand, Crash, tables
    <3> QED BY <1>2, <3>1, <3>2, <3>3, <3>4 DEF Next
  <2> QED BY <2>2, <2>3, <2>4, <2>5, <2>6, <2>7
<1> QED BY <1>1, <1>2, ReconcileInvariant, PTL DEF Spec, ImplementsPublication, Published!Spec,
        Published!vars

-----------------------------------------------------------------------------
(* What a client reads.                                                    *)

LEMMA InitPending == Init => PendingInv
BY IdleFields DEF Init, PendingInv, PublishedIsSettled, FetchBars, In

(* A step of a run that neither publishes nor touches the list.            *)
LEMMA SamePending ==
  ASSUME PendingInv, UNCHANGED <<pending, fact>>, Resolved \subseteq Resolved',
         run'.eligible \cap run'.known \subseteq run.eligible \cap run.known,
         run'.phase \notin {"graduate", "resolve", "pend"},
         run'.phase \in {"outliers", "coverage", "rows"} => run'.known = {}
  PROVE  PendingInv'
BY DEF PendingInv, PublishedIsSettled, FetchBars, In

LEMMA NextPending == ReconcileInv /\ PendingInv /\ [Next]_vars => PendingInv'
<1> SUFFICES ASSUME ReconcileInv, PendingInv, [Next]_vars PROVE PendingInv'
  OBVIOUS
<1> TypeOK /\ DecisionInv
  BY DEF ReconcileInv
<1> run \in Run
  BY DEF TypeOK
<1> USE DEF tables
<1>0. Resolved \subseteq Resolved'
  BY ResolvedGrows
<1>1. CASE Stage \/ SeedBand \/ UNCHANGED vars
  <2>1. UNCHANGED <<pending, fact, resolution, run>>
    BY <1>1 DEF Stage, StageProvider, RecordCoverage, CoverageFails, SeedBand, vars
  <2> QED BY <2>1 DEF PendingInv, PublishedIsSettled, FetchBars, Resolved, In
<1>2. CASE run' = Idle /\ UNCHANGED <<pending, fact>>
  BY <1>0, <1>2, IdleFields, SamePending
<1>3. ASSUME NEW mode \in Mode, Start(mode)
      PROVE  PendingInv'
  <2>1. run'.known = {} /\ run'.phase = StartPhase(mode)
    BY <1>3, IdleFields, IdleType DEF Start, Run
  <2>2. StartPhase(mode) \in {"outliers", "rows", "reevaluate"}
    BY DEF StartPhase, Mode
  <2> QED BY <1>0, <1>3, <2>1, <2>2, SamePending DEF Start
<1>4. CASE RejectOutliers \/ ReadCoverage
  <2>1. /\ run'.known = run.known /\ run'.eligible = run.eligible
        /\ run'.phase \in {"coverage", "rows"} /\ run.phase \in {"outliers", "coverage"}
        /\ UNCHANGED <<pending, fact>>
    BY <1>4 DEF RejectOutliers, ReadCoverage, Run, In
  <2> QED BY <1>0, <2>1, SamePending DEF PendingInv
<1>5. CASE ReadRows
  <2> DEFINE rows == Fetched(Staged(staging) \ pending)
  <2>1. /\ run'.eligible = Ready(rows, run.coverage) /\ run'.phase = "graduate"
        /\ UNCHANGED <<pending, fact, resolution>>
    BY <1>5 DEF ReadRows, Run
  <2>2. Staged(rows) \cap pending = {}
    BY DEF Staged, CandidatesAt, Fetched, Provider
  <2>3. run'.eligible \cap pending = {}
    BY <2>1, <2>2 DEF Ready
  <2> QED BY <2>1, <2>3 DEF PendingInv, PublishedIsSettled, FetchBars, Resolved, In
<1>6. CASE Graduate /\ run' # Idle
  <2>1. /\ run'.eligible = run.eligible /\ run'.phase = "resolve" /\ In("graduate")
        /\ UNCHANGED <<pending, fact, resolution>>
    BY <1>6 DEF Graduate, Run
  <2> QED BY <2>1 DEF PendingInv, PublishedIsSettled, FetchBars, Resolved, In
<1>7. ASSUME NEW b \in Bar, Resolve(b)
      PROVE  PendingInv'
  <2>1. /\ run'.eligible = run.eligible /\ run'.phase = "resolve" /\ In("resolve")
        /\ UNCHANGED <<pending, fact>>
    BY <1>7 DEF Resolve, Run, In
  <2> QED BY <1>0, <2>1 DEF PendingInv, PublishedIsSettled, FetchBars, In
<1>8. CASE StopResolving
  <2>1. /\ run'.eligible = run.eligible /\ run'.known = run.known /\ run'.phase = "pend"
        /\ run'.todo = run.eligible \ run.known /\ In("resolve")
        /\ UNCHANGED <<pending, fact, resolution>>
    BY <1>8 DEF StopResolving, Run
  <2>2. Resolved \subseteq run.known
    BY <2>1 DEF DecisionInv
  <2> QED BY <2>1, <2>2 DEF PendingInv, PublishedIsSettled, FetchBars, Resolved, In
<1>9. ASSUME NEW b \in Bar, MarkPending(b)
      PROVE  PendingInv'
  <2>1. /\ run'.eligible = run.eligible /\ run'.known = run.known /\ run'.phase = "pend"
        /\ run'.todo = run.todo \ {b} /\ In("pend") /\ b \in run.todo
        /\ pending' = pending \cup {b} /\ UNCHANGED <<fact, resolution>>
    BY <1>9 DEF MarkPending, Run, In
  <2>2. b \notin run.known \cup Resolved
    BY <2>1 DEF PendingInv
  <2> QED BY <2>1, <2>2 DEF PendingInv, PublishedIsSettled, FetchBars, Resolved, In
<1>10. CASE ReadPending
  <2>1. /\ run'.known = run.known /\ run'.phase = "finalize" /\ In("rows")
        /\ UNCHANGED <<pending, fact, resolution>>
    BY <1>10 DEF ReadPending, Run
  <2> QED BY <2>1 DEF PendingInv, PublishedIsSettled, FetchBars, Resolved, In
<1>11. ASSUME NEW b \in Bar, ForceResolve(b), run' # Idle
       PROVE  PendingInv'
  <2>1. /\ run'.known = run.known /\ run'.eligible = run.eligible /\ run'.phase = "clear"
        /\ UNCHANGED <<pending, fact>>
    BY <1>11 DEF ForceResolve, Run
  <2> QED BY <1>0, <2>1, SamePending
<1>12. CASE ClearPending
  <2>1. /\ run'.eligible = run.eligible /\ run'.known = run.known \cup run.at
        /\ run'.phase = "finalize" /\ pending' = pending \ run.at
        /\ UNCHANGED <<fact, resolution>>
    BY <1>12 DEF ClearPending, Run
  <2> QED BY <2>1 DEF PendingInv, PublishedIsSettled, FetchBars, Resolved, In
<1>13. CASE BeginPromoting \/ SelectForArchive \/ ArchiveAndDelete
  <2>1. /\ run'.known = run.known /\ run'.eligible = run.eligible
        /\ run'.phase \in {"promote", "delete"} /\ UNCHANGED <<pending, fact>>
    BY <1>13 DEF BeginPromoting, SelectForArchive, ArchiveAndDelete, Run
  <2> QED BY <1>0, <2>1, SamePending
<1>14. ASSUME NEW b \in Bar, Promote(b)
       PROVE  PendingInv'
  <2>1. /\ run'.known = run.known /\ run'.eligible = run.eligible
        /\ run'.phase \in {"promote", "purge"} /\ UNCHANGED <<pending, resolution>>
        /\ fact' = [fact EXCEPT ![b] = resolution[b].winner]
    BY <1>14 DEF Promote, Run
  <2>2. b \in run.known /\ b \in run.eligible /\ b \in Resolved
    BY <1>14 DEF Promote, DecisionInv, In
  <2>3. b \notin pending
    BY <2>2 DEF PendingInv
  <2>4. FetchBars' \subseteq FetchBars \cup {b}
    BY <2>1 DEF FetchBars, TypeOK
  <2> QED BY <2>1, <2>2, <2>3, <2>4 DEF PendingInv, PublishedIsSettled, Resolved, In
<1>15. CASE Crash \/ Finish \/ Reevaluate
  BY <1>2, <1>15 DEF Crash, Finish, Reevaluate
<1>16. CASE Graduate /\ run' = Idle
  BY <1>2, <1>16 DEF Graduate
<1>17. CASE run' = Idle /\ \E b \in Bar : ForceResolve(b)
  BY <1>2, <1>17 DEF ForceResolve
<1> QED BY <1>1, <1>3, <1>4, <1>5, <1>6, <1>7, <1>8, <1>9, <1>10, <1>11, <1>12,
           <1>13, <1>14, <1>15, <1>16, <1>17 DEF Next, Step

LEMMA PendingInvariant == Spec => [](ReconcileInv /\ PendingInv)
<1>1. Init => PendingInv
  BY InitPending
<1>2. ReconcileInv /\ PendingInv /\ [Next]_vars => PendingInv'
  BY NextPending
<1> QED BY <1>1, <1>2, ReconcileInvariant, PTL DEF Spec

(* No client gets a bar both as published and as awaiting a decision.      *)
THEOREM NothingPublishedIsPending == Spec => []PublishedIsSettled
<1>1. PendingInv => PublishedIsSettled
  BY DEF PendingInv
<1> QED BY <1>1, PendingInvariant, PTL

(* fetch_pending_resolution_bars shows every value that is in dispute: the *)
(* rows of a pending bar were all there (RowsInv), and what left for the   *)
(* archive left after it was published, which no pending bar is.           *)
THEOREM DisputesStayVisible == Spec => []DisputeIsVisible
<1>1. ReconcileInv /\ PendingInv => DisputeIsVisible
  <2> SUFFICES ASSUME ReconcileInv, PendingInv, NEW b \in pending, NEW p \in Provider,
                      source[p][b] # "none"
               PROVE  <<b, p>> \in FetchPendingResolutionBars
    BY DEF DisputeIsVisible
  <2>1. b \in Bar /\ Kept(p, b)
    BY DEF ReconcileInv, TypeOK, RowsInv
  <2>2. fact[b] = NoWinner
    BY <2>1 DEF PendingInv, PublishedIsSettled, FetchBars
  <2>3. <<b, p>> \notin archive
    BY <2>2 DEF ReconcileInv, DecisionInv
  <2>4. staging[p][b] # "none"
    BY <2>1, <2>3 DEF Kept
  <2> QED BY <2>4 DEF FetchPendingResolutionBars
<1> QED BY <1>1, PendingInvariant, PTL

-----------------------------------------------------------------------------
(* The rejections a client reads.                                          *)

(* How any step changes the whistleblower's row of a bar: quant-stage puts *)
(* the archived value there, the outlier check rejects it, nothing else.   *)
LEMMA WhistleblowerRow ==
  ASSUME TypeOK, [Next]_vars, NEW b \in Bar
  PROVE  \/ staging'[Whistleblower][b] = staging[Whistleblower][b]
         \/ staging'[Whistleblower][b] = "rejected" /\ RejectOutliers
         \/ /\ StageProvider(Whistleblower)
            /\ staging'[Whistleblower][b] = source[Whistleblower][b]
<1> Whistleblower \in Provider /\ Whistleblower \notin Candidate
  BY Constants DEF Provider
<1>1. CASE UNCHANGED <<staging, archive>>
  BY <1>1
<1>2. ASSUME NEW q \in Provider, StageProvider(q)
      PROVE  \/ staging'[Whistleblower][b] = staging[Whistleblower][b]
             \/ /\ q = Whistleblower
                /\ staging'[Whistleblower][b] = source[Whistleblower][b]
  BY <1>2, StagedRow
<1>3. CASE RejectOutliers
  <2>1. PICK rejected : staging' = MarkRejected(rejected)
    BY <1>3 DEF RejectOutliers
  <2> QED BY <1>3, <2>1 DEF MarkRejected, TypeOK, Rows
<1>4. CASE ArchiveAndDelete
  BY <1>4, DeletedRow
<1> QED BY <1>1, <1>2, <1>3, <1>4, StagingWriters

(* How any step changes any provider's row.                                *)
LEMMA StagingRow ==
  ASSUME TypeOK, [Next]_vars, NEW p \in Provider, NEW b \in Bar
  PROVE  \/ staging'[p][b] \in {"none", staging[p][b], source[p][b]}
         \/ staging'[p][b] = "rejected" /\ staging[p][b] # "none"
<1>1. CASE UNCHANGED <<staging, archive>>
  BY <1>1
<1>2. CASE \E q \in Provider : StageProvider(q)
  BY <1>2, StagedRow
<1>3. CASE RejectOutliers
  <2>1. PICK rejected : staging' = MarkRejected(rejected)
    BY <1>3 DEF RejectOutliers
  <2>2. staging'[p][b] = staging[p][b] \/ staging'[p][b] = "rejected"
    BY <2>1 DEF MarkRejected, TypeOK, Rows
  <2> QED BY <1>3, <2>2, RejectedRow
<1>4. CASE ArchiveAndDelete
  BY <1>4, DeletedRow
<1> QED BY <1>1, <1>2, <1>3, <1>4, StagingWriters

(* What a run holds as read is what it held, or nothing, or what is staged. *)
LEMMA SnapshotRow ==
  ASSUME TypeOK, [Next]_vars, NEW p \in Provider, NEW b \in Bar
  PROVE  \/ run'.rows[p][b] = run.rows[p][b]
         \/ run'.rows[p][b] = "none"
         \/ /\ run'.rows[p][b] = staging[p][b]
            /\ staging' = staging
<1> run \in Run
  BY DEF TypeOK
<1>1. CASE run' = Idle
  BY <1>1 DEF Idle, NoRows
<1>2. CASE \E mode \in Mode : Start(mode)
  <2>1. run'.rows = NoRows
    BY <1>2, IdleType DEF Start, Idle, Run
  <2> QED BY <2>1 DEF NoRows
<1>3. ASSUME NEW bars, run'.rows = Fetched(bars)
      PROVE  run'.rows[p][b] \in {"none", staging[p][b]}
  BY <1>3 DEF Fetched
<1>4. CASE ReadRows
  <2>1. run'.rows = Fetched(Staged(staging) \ pending) /\ staging' = staging
    BY <1>4 DEF ReadRows, Run
  <2> QED BY <1>3, <2>1
<1>5. CASE ReadPending
  <2>1. run'.rows = Fetched(pending) /\ staging' = staging
    BY <1>5 DEF ReadPending, Run
  <2> QED BY <1>3, <2>1
<1>6. CASE \/ RejectOutliers \/ ReadCoverage \/ (Graduate /\ run' # Idle) \/ StopResolving
           \/ ClearPending \/ BeginPromoting \/ SelectForArchive \/ ArchiveAndDelete
  <2>1. run'.rows = run.rows
    BY <1>6 DEF RejectOutliers, ReadCoverage, Graduate, StopResolving, ClearPending,
                BeginPromoting, SelectForArchive, ArchiveAndDelete, Run
  <2> QED BY <2>1
<1>7. CASE \E c \in Bar : \/ Resolve(c) \/ MarkPending(c) \/ Promote(c)
                          \/ ForceResolve(c) /\ c \notin Resolved
  <2>1. run'.rows = run.rows
    BY <1>7 DEF Resolve, MarkPending, Promote, ForceResolve, Run
  <2> QED BY <2>1
<1> QED BY <1>1, <1>2, <1>4, <1>5, <1>6, <1>7, RunStep

(* With a usable whistleblower, only the tiers that ask it decide.         *)
LEMMA AdjudicatedPath ==
  ASSUME NEW rows, NEW b, NEW g, NEW bd, NEW r \in Automatic(rows, b, g, bd),
         Adjudicated(rows, b)
  PROVE  r.path \in {"agreement", "boundary_fix"}
BY DEF Automatic, Agreement, BoundaryFix, Resolution

(* The four ways in which a bar's resolution comes about or changes.       *)
LEMMA ResolutionStep ==
  ASSUME TypeOK, [Next]_vars, NEW b \in Bar
  PROVE  \/ resolution'[b] = resolution[b]
         \/ Resolve(b) /\ resolution'[b] \in Automatic(run.rows, b, graduated, band)
         \/ ForceResolve(b) /\ resolution'[b] = Resolution(Preferred, "finalized")
         \/ /\ Reevaluate /\ b \in Reevaluable
            /\ resolution'[b].winner = resolution[b].winner
            /\ resolution'[b].path \in {"historical_mad_agreement", "unadjudicated_disputed"}
<1>1. ASSUME NEW c \in Bar, Resolve(c)
      PROVE  \/ resolution'[b] = resolution[b]
             \/ c = b /\ resolution'[b] \in Automatic(run.rows, b, graduated, band)
  <2>1. PICK r \in Automatic(run.rows, c, graduated, band) :
          resolution' = [resolution EXCEPT ![c] = r]
    BY <1>1 DEF Resolve
  <2> QED BY <2>1 DEF TypeOK
<1>2. ASSUME NEW c \in Bar, ForceResolve(c)
      PROVE  \/ resolution'[b] = resolution[b]
             \/ c = b /\ resolution'[b] = Resolution(Preferred, "finalized")
  BY <1>2 DEF ForceResolve, TypeOK
<1>3. ASSUME Reevaluate
      PROVE  \/ resolution'[b] = resolution[b]
             \/ /\ b \in Reevaluable
                /\ resolution'[b].winner = resolution[b].winner
                /\ resolution'[b].path \in {"historical_mad_agreement", "unadjudicated_disputed"}
  <2>1. PICK agreed : resolution' = Relabeled(agreed)
    BY <1>3 DEF Reevaluate
  <2>2. CASE b \in Reevaluable
    <3>1. resolution'[b] = [resolution[b] EXCEPT !.path = NewPath(b \in agreed)]
      BY <2>1, <2>2 DEF Relabeled
    <3>2. resolution[b] \in [winner : Candidate, path : Path]
      <4>1. Unresolved.path = "none"
        BY DEF Unresolved, Resolution
      <4> QED BY <2>2, <4>1 DEF Reevaluable, TypeOK
    <3>3. NewPath(b \in agreed) \in {"historical_mad_agreement", "unadjudicated_disputed"}
      BY DEF NewPath
    <3> QED BY <2>2, <3>1, <3>2, <3>3
  <2>3. CASE b \notin Reevaluable
    BY <2>1, <2>3 DEF Relabeled
  <2> QED BY <2>2, <2>3
<1>4. CASE Stage \/ SeedBand \/ Crash \/ (\E mode \in Mode : Start(mode)) \/ UNCHANGED vars
  <2>1. resolution' = resolution
    BY <1>4 DEF Stage, StageProvider, RecordCoverage, CoverageFails, SeedBand, Crash,
                Start, vars, tables
  <2> QED BY <2>1
<1>5. CASE Step /\ ~ Reevaluate /\ ~ \E c \in Bar : Resolve(c) \/ ForceResolve(c)
  <2>1. resolution' = resolution
    BY <1>5 DEF Step, RejectOutliers, ReadCoverage, ReadRows, Graduate, StopResolving,
                MarkPending, ReadPending, ClearPending, BeginPromoting, Promote,
                SelectForArchive, ArchiveAndDelete, Finish, tables
  <2> QED BY <2>1
<1> QED BY <1>1, <1>2, <1>3, <1>4, <1>5 DEF Next

(* The resolution paths RejectionIsVisible is about.                       *)
WithoutWhistleblower ==
  {"completeness", "historical_mad_agreement", "unadjudicated", "unadjudicated_disputed"}

(* A bar comes to count as decided without the whistleblower only in the   *)
(* loop, which was not shown a usable value of it.                         *)
LEMMA PathStep ==
  ASSUME TypeOK, [Next]_vars, NEW b \in Bar,
         resolution'[b].path \in WithoutWhistleblower
  PROVE  \/ resolution[b].path \in WithoutWhistleblower
         \/ Resolve(b) /\ ~ Adjudicated(run.rows, b)
<1> USE DEF WithoutWhistleblower
<1>1. CASE Resolve(b) /\ resolution'[b] \in Automatic(run.rows, b, graduated, band)
  BY <1>1, AdjudicatedPath
<1>2. resolution'[b] # Resolution(Preferred, "finalized")
  BY DEF Resolution
<1>3. CASE b \in Reevaluable
  BY <1>3 DEF Reevaluable
<1> QED BY <1>1, <1>2, <1>3, ResolutionStep

(* Mishaps are counted, and until one is, a covered provider stays covered *)
(* and is not staged again.                                                *)
LEMMA NoMishap ==
  ASSUME TypeOK, [Next]_vars, mishaps' = 0
  PROVE  /\ mishaps = 0
         /\ covered \cup stager \subseteq covered' \cup stager'
         /\ StageProvider(Whistleblower) => Whistleblower \notin covered \cup stager
         /\ StageProvider(Whistleblower) => Whistleblower \in stager'
<1>1. ~ Mishap
  BY Constants DEF Mishap, TypeOK
<1>2. ASSUME NEW p \in Provider, StageProvider(p)
      PROVE  p \notin covered /\ mishaps' = mishaps /\ covered' = covered /\ stager = {}
  BY <1>1, <1>2 DEF StageProvider
<1>3. ASSUME Stage
      PROVE  mishaps' = mishaps /\ covered \cup stager \subseteq covered' \cup stager'
  BY <1>1, <1>2, <1>3 DEF Stage, RecordCoverage, CoverageFails
<1>4. ASSUME Step
      PROVE  UNCHANGED <<mishaps, covered, stager>>
  BY <1>4 DEF Step, RejectOutliers, ReadCoverage, ReadRows, Graduate, Resolve,
              StopResolving, MarkPending, ReadPending, ForceResolve, ClearPending,
              BeginPromoting, Promote, SelectForArchive, ArchiveAndDelete, Finish,
              Reevaluate, tables
<1>5. ASSUME SeedBand \/ Crash \/ (\E mode \in Mode : Start(mode)) \/ UNCHANGED vars
      PROVE  UNCHANGED <<mishaps, covered, stager>>
  BY <1>1, <1>5 DEF SeedBand, Crash, Start, vars, tables
<1>6. mishaps = 0 /\ covered \cup stager \subseteq covered' \cup stager'
  BY <1>3, <1>4, <1>5 DEF Next
<1>7. StageProvider(Whistleblower) =>
        /\ Whistleblower \notin covered \cup stager
        /\ Whistleblower \in stager'
  BY <1>2 DEF StageProvider, Provider
<1> QED BY <1>6, <1>7

LEMMA InitRejection == Init => RejectionInv
BY DEF Init, RejectionInv, RejectionIsVisible, NoRows, Idle, Unresolved, Resolution, Provider

LEMMA NextRejection == ReconcileInv /\ RejectionInv /\ [Next]_vars => RejectionInv'
<1> SUFFICES ASSUME ReconcileInv, RejectionInv, [Next]_vars, mishaps' = 0
             PROVE  RejectionInv'
  BY DEF RejectionInv
<1> DEFINE W == Whistleblower
<1> W \in Provider
  BY DEF Provider
<1> TypeOK
  BY DEF ReconcileInv
<1>1. mishaps = 0 /\ source' = source
  BY NoMishap, SourceFixed
<1>2. \A b \in Bar : staging[W][b] # "none" => W \in covered \cup stager
  BY <1>1 DEF RejectionInv
<1>3. \A b \in Bar : source[W][b] = "accepted" =>
        /\ staging[W][b] \in {"none", "accepted", "rejected"}
        /\ staging[W][b] = "rejected" \/ run.rows[W][b] \in {"none", "accepted"}
  BY <1>1 DEF RejectionInv
<1>4. ASSUME NEW b \in Bar, staging[W][b] = "rejected"
      PROVE  staging'[W][b] = "rejected"
  <2>1. W \in covered \cup stager
    BY <1>2, <1>4
  <2>2. ~ StageProvider(W)
    BY <2>1, NoMishap
  <2> QED BY <1>4, <2>2, WhistleblowerRow
<1>5. ASSUME NEW b \in Bar, staging'[W][b] # "none"
      PROVE  W \in covered' \cup stager'
  <2>1. CASE staging[W][b] # "none"
    BY <1>2, <2>1, NoMishap
  <2>2. CASE staging[W][b] = "none"
    <3>1. ~ RejectOutliers \/ staging'[W][b] = "none"
      BY <2>2, RejectedRow
    <3>2. StageProvider(W)
      BY <1>5, <2>2, <3>1, WhistleblowerRow
    <3> QED BY <3>2, NoMishap
  <2> QED BY <2>1, <2>2
<1>6. ASSUME NEW b \in Bar, source'[W][b] = "accepted"
      PROVE  /\ staging'[W][b] \in {"none", "accepted", "rejected"}
             /\ staging'[W][b] = "rejected" \/ run'.rows[W][b] \in {"none", "accepted"}
  <2>1. source[W][b] = "accepted"
    BY <1>1, <1>6
  <2>2. staging'[W][b] \in {"none", "accepted", "rejected"}
    BY <1>3, <2>1, WhistleblowerRow
  <2>3. staging'[W][b] = "rejected" \/ run'.rows[W][b] \in {"none", "accepted"}
    BY <1>3, <1>4, <2>1, SnapshotRow
  <2> QED BY <2>2, <2>3
<1>7. ASSUME NEW b \in Bar, resolution'[b].path \in WithoutWhistleblower,
             source'[W][b] = "accepted"
      PROVE  staging'[W][b] = "rejected"
  <2>1. source[W][b] = "accepted"
    BY <1>1, <1>7
  <2>2. CASE resolution[b].path \in WithoutWhistleblower
    <3>1. staging[W][b] = "rejected"
      BY <1>1, <2>1, <2>2
      DEF RejectionInv, RejectionIsVisible, FetchRejectedWhistleblowerBars, WithoutWhistleblower
    <3> QED BY <1>4, <3>1
  <2>3. CASE Resolve(b) /\ ~ Adjudicated(run.rows, b)
    <3>1. run.rows[W][b] # "none"
      BY <2>1, <2>3 DEF ReconcileInv, SnapshotInv, AbsenceSeen, AbsenceIsReal, Resolve
    <3>2. run.rows[W][b] # "accepted"
      BY <2>3 DEF Adjudicated
    <3> QED BY <1>3, <1>4, <2>1, <3>1, <3>2
  <2> QED BY <1>7, <2>2, <2>3, PathStep
<1>8. RejectionIsVisible'
  BY <1>7 DEF RejectionIsVisible, FetchRejectedWhistleblowerBars, WithoutWhistleblower
<1> QED BY <1>5, <1>6, <1>8 DEF RejectionInv

(* fetch_rejected_whistleblower_bars shows every value that was set aside: *)
(* a run that decided without the whistleblower had read its row           *)
(* (ConfirmedAbsence), so as rejected, and no purge or staging takes the   *)
(* row away again.                                                         *)
THEOREM RejectionsStayVisible == Spec => []RejectionIsVisible
<1>1. Init => RejectionInv
  BY InitRejection
<1>2. ReconcileInv /\ RejectionInv /\ [Next]_vars => RejectionInv'
  BY NextRejection
<1>3. RejectionInv => RejectionIsVisible
  BY DEF RejectionInv, RejectionIsVisible
<1> QED BY <1>1, <1>2, <1>3, ReconcileInvariant, PTL DEF Spec

-----------------------------------------------------------------------------
(* The grounds a resolution gives.                                         *)

LEMMA TwoMembers ==
  ASSUME NEW S, Cardinality(S) = 2, NEW x
  PROVE  \E y \in S : y # x
<1> SUFFICES ASSUME \A y \in S : y = x
             PROVE  FALSE
  OBVIOUS
<1>1. S = {} \/ S = {x}
  OBVIOUS
<1>2. Cardinality({}) = 0 /\ Cardinality({x}) = 1
  BY FS_EmptySet, FS_Singleton
<1> QED BY <1>1, <1>2

(* What the tiers decide on rows that were reported, and that lack no row  *)
(* of the bar itself, is true of the whole report.                         *)
LEMMA AutomaticEarned ==
  ASSUME NEW rows, NEW b \in Bar, NEW g, NEW bd, NEW r \in Automatic(rows, b, g, bd),
         Reported(rows), \A p \in Provider : rows[p][b] = "none" => source[p][b] = "none"
  PROVE  Earned(b, r)
<1> DEFINE others == {p \in Candidate \ {r.winner} : source[p][b] # "none"}
<1> /\ Candidate \subseteq Provider
    /\ Whistleblower \in Provider
  BY DEF Provider
<1> USE DEF Resolution
<1>1. r.winner \in CandidatesAt(rows, b)
  BY AutomaticResolves
<1>2. source[r.winner][b] # "none"
  BY <1>1 DEF CandidatesAt, Reported
<1>3. ASSUME Adjudicated(rows, b)
      PROVE  /\ r.path \in {"agreement", "boundary_fix"}
             /\ source[Whistleblower][b] = "accepted"
  BY <1>3, AdjudicatedPath DEF Adjudicated, Reported
<1>4. ASSUME NEW q \in Provider, HasWindow(rows, q, b)
      PROVE  HasWindow(source, q, b)
  BY <1>4 DEF HasWindow, Reported
<1>5. ASSUME Adjudicated(rows, b), r.path = "boundary_fix"
      PROVE  HasWindow(source, r.winner, b) /\ HasWindow(source, Whistleblower, b)
  <2>1. r \in BoundaryFix(rows, b, g)
    BY <1>5 DEF Automatic, Agreement
  <2>2. HasWindow(rows, r.winner, b) /\ HasWindow(rows, Whistleblower, b)
    BY <2>1 DEF BoundaryFix
  <2> QED BY <1>1, <1>4, <2>2 DEF CandidatesAt
<1>6. CASE Adjudicated(rows, b)
  BY <1>2, <1>3, <1>5, <1>6 DEF Earned
<1>7. CASE ~ Adjudicated(rows, b) /\ Completeness(rows, b) # {}
  <2>1. r \in Completeness(rows, b)
    BY <1>7 DEF Automatic
  <2>2. r.path = "completeness" /\ CandidatesAt(rows, b) = {r.winner}
    BY <2>1 DEF Completeness
  <2>3. others = {}
    BY <2>2 DEF CandidatesAt
  <2> QED BY <1>2, <2>2, <2>3 DEF Earned
<1>8. CASE ~ Adjudicated(rows, b) /\ Completeness(rows, b) = {} /\ bd
  <2>1. r \in HistoricalMad(rows, b)
    BY <1>8 DEF Automatic
  <2>2. r.path = "historical_mad_agreement" /\ r.winner = Preferred
    BY <2>1 DEF HistoricalMad
  <2>3. PICK q \in CandidatesAt(rows, b) : q # r.winner
    BY <2>1, TwoMembers DEF HistoricalMad
  <2>4. q \in others
    BY <2>3 DEF CandidatesAt, Reported
  <2> QED BY <1>2, <2>2, <2>4 DEF Earned
<1>9. CASE ~ Adjudicated(rows, b) /\ Completeness(rows, b) = {} /\ ~ bd
  <2>1. r \in Unadjudicated(rows, b)
    BY <1>9 DEF Automatic
  <2>2. r.path = "unadjudicated" /\ r.winner = Preferred
    BY <2>1 DEF Unadjudicated
  <2> QED BY <1>2, <2>2 DEF Earned
<1> QED BY <1>6, <1>7, <1>8, <1>9

LEMMA InitEarned == Init => EarnedInv
BY IdleFields DEF Init, EarnedInv, Reported, NoRows, PathsAreEarned, Resolved, In

(* Rows that were reported, staged and then read.                          *)
LEMMA NextReported ==
  ASSUME ReconcileInv, EarnedInv, [Next]_vars
  PROVE  Reported(staging)' /\ Reported(run.rows)'
<1> TypeOK /\ Reported(staging) /\ Reported(run.rows)
  BY DEF ReconcileInv, EarnedInv
<1>1. ASSUME NEW p \in Provider, NEW b \in Bar
      PROVE  /\ staging'[p][b] # "none" => source'[p][b] # "none"
             /\ staging'[p][b] = "accepted" => source'[p][b] = "accepted"
  BY StagingRow, SourceFixed DEF Reported
<1>2. ASSUME NEW p \in Provider, NEW b \in Bar
      PROVE  /\ run'.rows[p][b] # "none" => source'[p][b] # "none"
             /\ run'.rows[p][b] = "accepted" => source'[p][b] = "accepted"
  BY SnapshotRow, SourceFixed DEF Reported
<1> QED BY <1>1, <1>2 DEF Reported

(* The bar a run is at, what a purge selected, what the archive got.       *)
LEMMA NextPurged ==
  ASSUME ReconcileInv, EarnedInv, [Next]_vars
  PROVE  /\ \A b, c \in run'.at : b = c
         /\ run'.phase = "delete" =>
              \A b \in run'.at, p \in run'.selected : source[p][b] # "none"
         /\ \A bp \in archive' : source[bp[2]][bp[1]] # "none"
<1> /\ TypeOK /\ run \in Run /\ Reported(staging)
    /\ \A b, c \in run.at : b = c
    /\ run.phase = "delete" => \A b \in run.at, p \in run.selected : source[p][b] # "none"
    /\ \A bp \in archive : source[bp[2]][bp[1]] # "none"
  BY DEF ReconcileInv, EarnedInv, TypeOK, In
<1>1. CASE ArchiveAndDelete
  <2>1. /\ run'.at = {} /\ run'.phase = "promote" /\ run.phase = "delete"
        /\ archive' = archive \cup (run.at \X run.selected)
    BY <1>1 DEF ArchiveAndDelete, Run, In
  <2> QED BY <2>1
<1>2. CASE ~ ArchiveAndDelete
  <2>1. archive' = archive
    BY <1>2, StagingWriters DEF StageProvider, RejectOutliers, tables
  <2>2. CASE SelectForArchive
    <3>1. /\ run'.at = run.at
          /\ run'.selected = UNION {CandidatesAt(staging, b) : b \in run.at}
      BY <2>2 DEF SelectForArchive, Run
    <3>2. \A b \in run.at, p \in run'.selected : p \in CandidatesAt(staging, b)
      BY <3>1
    <3>3. \A b \in run.at, p \in run'.selected : source[p][b] # "none"
      BY <3>2 DEF CandidatesAt, Reported, Provider, Run
    <3> QED BY <2>1, <3>1, <3>3
  <2>3. CASE run' = run
    BY <2>1, <2>3
  <2>4. CASE run' = Idle \/ \E mode \in Mode : Start(mode)
    <3>1. run'.at = {}
      BY <2>4, IdleFields, IdleType DEF Start, Run
    <3> QED BY <2>1, <3>1
  <2>5. CASE \/ RejectOutliers \/ ReadCoverage \/ ReadRows \/ ReadPending
             \/ (Graduate /\ run' # Idle)
             \/ StopResolving \/ ClearPending \/ BeginPromoting
             \/ \E b \in Bar : Resolve(b) \/ MarkPending(b)
    <3>1. run'.at \in {{}, run.at} /\ run'.phase # "delete"
      BY <2>5 DEF RejectOutliers, ReadCoverage, ReadRows, ReadPending, Graduate, StopResolving,
                  ClearPending, BeginPromoting, Resolve, MarkPending, Run, In
    <3> QED BY <2>1, <3>1
  <2>6. ASSUME NEW b \in Bar, Promote(b) \/ (ForceResolve(b) /\ b \notin Resolved)
        PROVE  run'.at \in {{}, {b}} /\ run'.phase # "delete"
    BY <2>6 DEF Promote, ForceResolve, Run
  <2>7. CASE \/ \E b \in Bar : Promote(b)
             \/ \E b \in Bar : ForceResolve(b) /\ b \notin Resolved
    BY <2>1, <2>6, <2>7
  <2> QED BY <1>2, <2>2, <2>3, <2>4, <2>5, <2>7, RunStep
<1> QED BY <1>1, <1>2

(* --finalize goes through bars the preferred provider has a row of.       *)
LEMMA NextFinalizable ==
  ASSUME ReconcileInv, EarnedInv, [Next]_vars, run'.phase \in {"finalize", "clear"},
         NEW b \in run'.todo
  PROVE  Finalizable(run'.rows, b)
<1> /\ TypeOK /\ run \in Run
    /\ run.phase \in {"finalize", "clear"} => \A c \in run.todo : Finalizable(run.rows, c)
  BY DEF ReconcileInv, EarnedInv, TypeOK
<1>1. CASE run' = run
  BY <1>1
<1>2. run' # Idle /\ ~ \E mode \in Mode : Start(mode)
  BY IdleFields, IdleType DEF Start, StartPhase, Mode, Run
<1>3. CASE ReadPending
  <2>1. /\ run'.rows = Fetched(pending)
        /\ run'.todo = {c \in pending : Finalizable(Fetched(pending), c)}
    BY <1>3 DEF ReadPending, Run
  <2> QED BY <2>1
<1>4. ASSUME NEW c \in Bar, ForceResolve(c), c \notin Resolved
      PROVE  run'.rows = run.rows /\ run'.todo \subseteq run.todo /\ run.phase = "finalize"
  BY <1>4 DEF ForceResolve, Run, In
<1>5. CASE ClearPending
  <2>1. run'.rows = run.rows /\ run'.todo = run.todo /\ run.phase = "clear"
    BY <1>5 DEF ClearPending, Run, In
  <2> QED BY <2>1
<1>6. ~ \/ RejectOutliers \/ ReadCoverage \/ ReadRows \/ (Graduate /\ run' # Idle)
        \/ StopResolving \/ BeginPromoting \/ SelectForArchive \/ ArchiveAndDelete
        \/ \E c \in Bar : Resolve(c) \/ MarkPending(c) \/ Promote(c)
  BY DEF RejectOutliers, ReadCoverage, ReadRows, Graduate, StopResolving, BeginPromoting,
         SelectForArchive, ArchiveAndDelete, Resolve, MarkPending, Promote, Run, In
<1> QED BY <1>1, <1>2, <1>3, <1>4, <1>5, <1>6, RunStep

(* Every new resolution has earned its path, and a new label too.          *)
LEMMA NextPaths ==
  ASSUME ReconcileInv, EarnedInv, [Next]_vars
  PROVE  PathsAreEarned'
<1> TypeOK /\ SnapshotInv /\ source' = source
  BY SourceFixed DEF ReconcileInv
<1> SUFFICES ASSUME NEW b \in Bar, resolution'[b] # Unresolved
             PROVE  Earned(b, resolution'[b])
  BY DEF PathsAreEarned, Resolved, Earned, HasWindow
<1>0. b \in Resolved => Earned(b, resolution[b])
  BY DEF EarnedInv, PathsAreEarned
<1>1. CASE resolution'[b] = resolution[b]
  BY <1>0, <1>1 DEF Resolved
<1>2. CASE Resolve(b) /\ resolution'[b] \in Automatic(run.rows, b, graduated, band)
  <2>1. \A p \in Provider : run.rows[p][b] = "none" => source[p][b] = "none"
    BY <1>2 DEF Resolve, SnapshotInv, AbsenceSeen, AbsenceIsReal
  <2> QED BY <1>2, <2>1, AutomaticEarned DEF EarnedInv
<1>3. CASE ForceResolve(b) /\ resolution'[b] = Resolution(Preferred, "finalized")
  <2>1. Preferred \in CandidatesAt(run.rows, b)
    BY <1>3 DEF ForceResolve, In, EarnedInv, Finalizable
  <2>2. source[Preferred][b] # "none"
    BY <2>1 DEF CandidatesAt, EarnedInv, Reported, Provider
  <2> QED BY <1>3, <2>2 DEF Earned, Resolution
<1>4. CASE /\ Reevaluate /\ b \in Reevaluable
           /\ resolution'[b].winner = resolution[b].winner
           /\ resolution'[b].path \in {"historical_mad_agreement", "unadjudicated_disputed"}
  <2> DEFINE r == resolution[b]
             archived == {p \in Candidate : <<b, p>> \in archive}
  <2>1. r.path = "unadjudicated" /\ Cardinality(archived) = 2
    BY <1>4 DEF Reevaluable
  <2>2. b \in Resolved
    BY <2>1 DEF Resolved, Unresolved, Resolution
  <2>3. source[r.winner][b] # "none" /\ r.winner = Preferred
    BY <1>0, <2>1, <2>2 DEF Earned
  <2>4. PICK q \in archived : q # r.winner
    BY <2>1, TwoMembers
  <2>5. source[q][b] # "none"
    BY <2>4 DEF EarnedInv
  <2> QED BY <1>4, <2>3, <2>4, <2>5 DEF Earned
<1> QED BY <1>1, <1>2, <1>3, <1>4, ResolutionStep

LEMMA NextEarned == ReconcileInv /\ EarnedInv /\ [Next]_vars => EarnedInv'
<1> SUFFICES ASSUME ReconcileInv, EarnedInv, [Next]_vars PROVE EarnedInv'
  OBVIOUS
<1>1. Reported(staging)' /\ Reported(run.rows)'
  BY NextReported
<1>2. \A b, c \in run'.at : b = c
  BY NextPurged
<1>3. /\ run'.phase = "delete" =>
           \A b \in run'.at, p \in run'.selected : source'[p][b] # "none"
      /\ \A bp \in archive' : source'[bp[2]][bp[1]] # "none"
  BY NextPurged, SourceFixed
<1>4. run'.phase \in {"finalize", "clear"} => \A b \in run'.todo : Finalizable(run'.rows, b)
  BY NextFinalizable
<1>5. PathsAreEarned'
  BY NextPaths
<1> QED BY <1>1, <1>2, <1>3, <1>4, <1>5 DEF EarnedInv, In, Finalizable, CandidatesAt

(* resolution_path is true of everything the providers reported: absence   *)
(* was confirmed before a bar was judged without a provider                *)
(* (ConfirmedAbsence), --finalize and --reevaluate-unadjudicated see rows  *)
(* that were reported, and the archive has nothing else.                   *)
THEOREM PathsStayEarned == Spec => []PathsAreEarned
<1>1. Init => EarnedInv
  BY InitEarned
<1>2. ReconcileInv /\ EarnedInv /\ [Next]_vars => EarnedInv'
  BY NextEarned
<1>3. EarnedInv => PathsAreEarned
  BY DEF EarnedInv
<1> QED BY <1>1, <1>2, <1>3, ReconcileInvariant, PTL DEF Spec

-----------------------------------------------------------------------------
(* The plain INSERT of a resolution.                                       *)

LEMMA InitCollision == Init => CollisionInv
BY IdleFields DEF Init, CollisionInv, In

(* A step that neither resolves a bar nor changes the list.                *)
LEMMA SameCollision ==
  ASSUME CollisionInv, mishaps' = 0 => mishaps = 0, ~ In("clear"),
         Resolved' = Resolved, pending' = pending,
         run'.phase \notin {"finalize", "clear"}
  PROVE  CollisionInv'
BY DEF CollisionInv, In

LEMMA NextCollision ==
  ReconcileInv /\ PendingInv /\ CollisionInv /\ [Next]_vars => CollisionInv'
<1> SUFFICES ASSUME ReconcileInv, PendingInv, CollisionInv, [Next]_vars, mishaps' = 0
             PROVE  CollisionInv'
  BY DEF CollisionInv
<1> TypeOK /\ DecisionInv /\ run \in Run
  BY DEF ReconcileInv, TypeOK
<1>0. mishaps = 0 /\ ~ Crash
  <2>1. mishaps = 0
    BY NoMishap
  <2>2. ~ Crash
    BY Constants, <2>1 DEF Crash, Mishap
  <2> QED BY <2>1, <2>2
<1>a. /\ \A b \in pending \cap Resolved : In("clear") /\ b \in run.at
      /\ run.phase \in {"finalize", "clear"} =>
           run.todo \cap run.at = {} /\ run.todo \subseteq pending
  BY <1>0 DEF CollisionInv
<1> USE DEF tables
<1>1. CASE Stage \/ SeedBand \/ UNCHANGED vars
  <2>1. UNCHANGED <<pending, resolution, run>>
    BY <1>1 DEF Stage, StageProvider, RecordCoverage, CoverageFails, SeedBand, vars
  <2> QED BY <1>a, <2>1 DEF CollisionInv, Resolved, In
<1>2. CASE Reevaluate
  <2>1. Resolved' = Resolved /\ pending' = pending /\ run'.phase = "idle" /\ ~ In("clear")
    BY <1>2, ReevaluateKeepsWinners, IdleFields DEF Reevaluate, In
  <2> QED BY <1>0, <2>1, SameCollision
<1>3. CASE \/ RejectOutliers \/ ReadCoverage \/ ReadRows \/ Graduate \/ StopResolving
           \/ BeginPromoting \/ SelectForArchive \/ ArchiveAndDelete \/ Finish
           \/ \E b \in Bar : Promote(b)
           \/ \E mode \in Mode : Start(mode)
  <2>1. resolution' = resolution /\ pending' = pending /\ ~ In("clear")
    BY <1>3 DEF RejectOutliers, ReadCoverage, ReadRows, Graduate, StopResolving, BeginPromoting,
                SelectForArchive, ArchiveAndDelete, Finish, Promote, Start, In
  <2>2. ASSUME NEW mode \in Mode, Start(mode)
        PROVE  run'.phase \notin {"finalize", "clear"}
    BY <2>2, IdleType DEF Start, StartPhase, Mode, Run
  <2>3. run'.phase \notin {"finalize", "clear"}
    BY <1>3, <2>2, IdleFields
    DEF RejectOutliers, ReadCoverage, ReadRows, Graduate, StopResolving, BeginPromoting,
        SelectForArchive, ArchiveAndDelete, Finish, Promote, Run, In
  <2> QED BY <1>0, <2>1, <2>3, SameCollision DEF Resolved
<1>4. ASSUME NEW b \in Bar, Resolve(b)
      PROVE  CollisionInv'
  <2>1. /\ run'.phase = "resolve" /\ In("resolve") /\ pending' = pending
        /\ b \in run.eligible /\ Resolved' \subseteq Resolved \cup {b}
    BY <1>4 DEF Resolve, Resolved, Run, In, TypeOK
  <2>2. b \notin pending
    BY <2>1 DEF PendingInv, In
  <2> QED BY <1>a, <2>1, <2>2 DEF CollisionInv, In
<1>5. ASSUME NEW b \in Bar, MarkPending(b)
      PROVE  CollisionInv'
  <2>1. /\ run'.phase = "pend" /\ In("pend") /\ pending' = pending \cup {b}
        /\ b \in run.todo /\ Resolved' = Resolved
    BY <1>5 DEF MarkPending, Resolved, Run, In
  <2>2. b \notin Resolved
    BY <2>1 DEF PendingInv
  <2> QED BY <1>a, <2>1, <2>2 DEF CollisionInv, In
<1>6. CASE ReadPending
  <2>1. /\ run'.phase = "finalize" /\ In("rows") /\ run'.at = run.at
        /\ run'.todo \subseteq pending /\ pending' = pending /\ Resolved' = Resolved
    BY <1>6 DEF ReadPending, Resolved, Run
  <2>2. run.at = {}
    BY <2>1 DEF DecisionInv, In
  <2> QED BY <1>a, <2>1, <2>2 DEF CollisionInv, In
<1>7. ASSUME NEW b \in Bar, ForceResolve(b)
      PROVE  CollisionInv'
  <2>1. b \notin Resolved
    BY <1>a, <1>7 DEF ForceResolve, In
  <2>2. /\ run'.phase = "clear" /\ In("finalize") /\ run'.at = {b}
        /\ run'.todo = run.todo \ {b} /\ pending' = pending
        /\ Resolved' \subseteq Resolved \cup {b}
    BY <1>7, <2>1 DEF ForceResolve, Resolved, Run, TypeOK
  <2> QED BY <1>a, <2>2 DEF CollisionInv, In
<1>8. CASE ClearPending
  <2>1. /\ run'.phase = "finalize" /\ In("clear") /\ run'.at = {} /\ run'.todo = run.todo
        /\ pending' = pending \ run.at /\ Resolved' = Resolved
    BY <1>8 DEF ClearPending, Resolved, Run
  <2> QED BY <1>a, <2>1 DEF CollisionInv, In
<1> QED BY <1>0, <1>1, <1>2, <1>3, <1>4, <1>5, <1>6, <1>7, <1>8 DEF Next, Step

(* record_reconciliation never meets its primary key, but for --finalize   *)
(* after a run that was stopped between a resolution and the list.         *)
THEOREM NoSecondInsert == Spec => []InsertsNeverCollide
<1>1. Init => CollisionInv
  BY InitCollision
<1>2. ReconcileInv /\ PendingInv /\ CollisionInv /\ [Next]_vars => CollisionInv'
  BY NextCollision
<1>3. ReconcileInv /\ CollisionInv => InsertsNeverCollide
  BY DEF ReconcileInv, DecisionInv, CollisionInv, InsertsNeverCollide, In
<1> QED BY <1>1, <1>2, <1>3, PendingInvariant, PTL DEF Spec

-----------------------------------------------------------------------------
(* What quant-stage hands over.                                            *)

(* quant-stage covers one provider at a time.                              *)
OneStaged == \A p, q \in stager : p = q

LEMMA StagerStep ==
  ASSUME [Next]_vars
  PROVE  \/ UNCHANGED <<covered, stager>>
         \/ stager' = {} /\ covered' = covered
         \/ RecordCoverage
         \/ \E p \in Provider : stager' = {p} /\ covered' = covered
<1>1. CASE Stage
  BY <1>1 DEF Stage, StageProvider, CoverageFails
<1>2. CASE Step
  BY <1>2 DEF Step, RejectOutliers, ReadCoverage, ReadRows, Graduate, Resolve,
              StopResolving, MarkPending, ReadPending, ForceResolve, ClearPending,
              BeginPromoting, Promote, SelectForArchive, ArchiveAndDelete, Finish,
              Reevaluate
<1>3. CASE SeedBand \/ Crash \/ (\E mode \in Mode : Start(mode)) \/ UNCHANGED vars
  BY <1>3 DEF SeedBand, Crash, Start, vars
<1> QED BY <1>1, <1>2, <1>3 DEF Next

LEMMA OneAtATimeStaged == Spec => []OneStaged
<1>1. Init => OneStaged
  BY DEF Init, OneStaged
<1>2. OneStaged /\ [Next]_vars => OneStaged'
  BY StagerStep DEF OneStaged, RecordCoverage
<1> QED BY <1>1, <1>2, PTL DEF Spec

(* A covered provider's rows are in staging or in the archive, and stay in *)
(* one of them beside any run: reconciliation keeps what Handover says of  *)
(* quant-stage.                                                            *)
THEOREM HandoverKept == Spec => ImplementsHandover
<1> DEFINE landed == {p \in Provider : \A b \in Bar : Kept(p, b)}
<1>1. Init => Staging!Init
  BY DEF Init, Staging!Init
<1>2. ASSUME ReconcileInv, OneStaged, [Next]_vars
      PROVE  [Staging!Next]_<<landed, covered, {}>>
  <2> TypeOK /\ RowsInv
    BY <1>2 DEF ReconcileInv
  <2>1. /\ landed \subseteq landed' /\ landed' \in SUBSET Provider
        /\ covered \in SUBSET Provider
    BY <1>2, KeptStable DEF TypeOK
  <2>2. CASE RecordCoverage
    <3>1. PICK k \in Provider : stager = {k}
      BY <1>2, <2>2 DEF RecordCoverage, OneStaged, TypeOK
    <3>2. k \in landed
      BY <3>1 DEF RowsInv
    <3>3. landed' = landed
      BY <2>2 DEF RecordCoverage, tables, Kept
    <3>4. covered' = covered \cup {k}
      BY <2>2, <3>1 DEF RecordCoverage
    <3> HIDE DEF landed
    <3>5. /\ covered' \in SUBSET Provider /\ covered' \ covered \subseteq landed
          /\ covered \ covered' \subseteq {}
      BY <2>1, <3>2, <3>4
    <3>6. Staging!Confirm
      BY <3>3, <3>5 DEF Staging!Confirm, landed
    <3> QED BY <3>6 DEF Staging!Next
  <2>3. CASE covered' = covered
    BY <2>1, <2>3 DEF Staging!Next, Staging!Land
  <2> QED BY <1>2, <2>2, <2>3, StagerStep
<1> QED BY <1>1, <1>2, ReconcileInvariant, OneAtATimeStaged, PTL
        DEF Spec, ImplementsHandover, Staging!Spec, Staging!vars
=============================================================================
