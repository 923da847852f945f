----------------------------- MODULE Reconcile -----------------------------
(***************************************************************************)
(* quant-reconcile over the staging tables of one (ticker, date), while    *)
(* quant-stage keeps writing them.                                         *)
(*                                                                         *)
(* quant-stage commits a provider's rows and that provider's coverage in    *)
(* two transactions.  quant-reconcile reads coverage, rows and earlier     *)
(* resolutions once, works on these snapshots, and commits every write on  *)
(* its own; it can stop between any two of them, and the next invocation   *)
(* starts from what was committed.  At most one quant-reconcile runs at a  *)
(* time.  'ohlc' is the only field group, so a bar has one resolution.     *)
(***************************************************************************)
EXTENDS Tiers

CONSTANTS
  Sources,     \* the days there may be: what the archive holds, per provider
  Suspect,     \* bars whose whistleblower row the outlier check may reject
  Graduated0,  \* candidates that may have statistics from other days already
  Threshold,   \* GRADUATION_THRESHOLD_MATCHED_BARS
  MaxMishaps   \* bound: runs that stop half-way, coverage writes that fail and
               \* re-stagings of a covered provider, counted together

ASSUME SourcesAssumption == Sources \subseteq Rows
ASSUME SuspectAssumption == Suspect \subseteq Bar
ASSUME Graduated0Assumption == Graduated0 \subseteq Candidate
ASSUME ThresholdAssumption == Threshold \in Nat \ {0}
ASSUME MaxMishapsAssumption == MaxMishaps \in Nat

VARIABLES
  source,      \* what quant-stage parses from the archive; never changes
  staging,     \* staging_market_data_1min: data_quality per provider and bar
  covered,     \* providers whose ingestion_coverage contains the date
  stager,      \* the provider quant-stage has written but not yet covered
  resolution,  \* fact_reconciliation
  pending,     \* fact_pending_manual_resolution
  fact,        \* fact_market_data_1min: the provider a bar's values are from
  archive,     \* market_data_archive, as (bar, provider) pairs
  graduated,   \* candidates with rows in provider_pair_disagreement
  band,        \* the ticker has a full row set in candidate_pair_mad_band
  run,         \* the running quant-reconcile and its snapshots
  mishaps      \* how much of MaxMishaps is used up

tables == <<resolution, pending, fact, archive, graduated>>
vars == <<source, staging, covered, stager, tables, band, run, mishaps>>

Mode == {"plain", "finalize", "reevaluate"}
Phase == {"idle", "outliers", "coverage", "rows", "graduate", "resolve", "pend",
          "finalize", "clear", "promote", "purge", "delete", "reevaluate"}

Run == [mode : Mode, phase : Phase, coverage : SUBSET Provider, rows : Rows,
        eligible : SUBSET Bar, known : SUBSET Bar, todo : SUBSET Bar,
        at : SUBSET Bar, selected : SUBSET Candidate]

\* known is resolved_by_bar: the bars this run counts as resolved.  todo is
\* what the current loop still has to visit, bar the one it is at.
Idle == [mode |-> "plain", phase |-> "idle", coverage |-> {},
         rows |-> NoRows, eligible |-> {}, known |-> {}, todo |-> {},
         at |-> {}, selected |-> {}]

In(phase) == run.phase = phase

\* Bars with at least one candidate's row.
Staged(rows) == {b \in Bar : CandidatesAt(rows, b) # {}}
Resolved == {b \in Bar : resolution[b] # Unresolved}

Mishap == mishaps < MaxMishaps /\ mishaps' = mishaps + 1

-----------------------------------------------------------------------------
(* quant-stage.                                                            *)

\* write_staging_bars: every row the payload has, upserted in one transaction.
StageProvider(p) ==
  /\ stager = {}
  /\ IF p \in covered THEN Mishap ELSE UNCHANGED mishaps
  /\ staging' = [staging EXCEPT ![p] = [b \in Bar |->
                   IF source[p][b] = "none" THEN @[b] ELSE source[p][b]]]
  /\ stager' = {p}
  /\ UNCHANGED <<source, covered, tables, band, run>>

\* record_ingestion_coverage for the date just staged.
RecordCoverage ==
  /\ stager # {}
  /\ covered' = covered \cup stager
  /\ stager' = {}
  /\ UNCHANGED <<source, staging, tables, band, run, mishaps>>

\* It fails, which is only logged, or quant-stage stops in between.
CoverageFails ==
  /\ stager # {}
  /\ Mishap
  /\ stager' = {}
  /\ UNCHANGED <<source, staging, covered, tables, band, run>>

-----------------------------------------------------------------------------
(* quant-reconcile, up to the point where it knows what to work on.        *)

StartPhase(mode) ==
  CASE mode = "plain" -> "outliers"
    [] mode = "finalize" -> "rows"
    [] mode = "reevaluate" -> "reevaluate"

Start(mode) ==
  /\ In("idle")
  /\ run' = [Idle EXCEPT !.mode = mode, !.phase = StartPhase(mode)]
  /\ UNCHANGED <<source, staging, covered, stager, tables, band, mishaps>>

\* fetch_whistleblower_accepted_staging_rows.
AcceptedOfWhistleblower == {b \in Bar : Adjudicated(staging, b)}

\* mark_staging_bars_rejected, in one commit.
MarkRejected(bars) ==
  [staging EXCEPT ![Whistleblower] = [b \in Bar |->
     IF b \in bars THEN "rejected" ELSE @[b]]]

\* _run_outlier_detection_pass; which rows are implausible is left open.
RejectOutliers ==
  /\ In("outliers")
  /\ \E rejected \in SUBSET (Suspect \cap AcceptedOfWhistleblower) :
       staging' = MarkRejected(rejected)
  /\ run' = [run EXCEPT !.phase = "coverage"]
  /\ UNCHANGED <<source, covered, stager, tables, band, mishaps>>

ReadCoverage ==
  /\ In("coverage")
  /\ run' = [run EXCEPT !.phase = "rows", !.coverage = covered]
  /\ UNCHANGED <<source, staging, covered, stager, tables, band, mishaps>>

Fetched(bars) ==
  [p \in Provider |-> [b \in Bar |-> IF b \in bars THEN staging[p][b] ELSE "none"]]

MutReady(rows, coverage) == Staged(rows)

\* The bars every missing provider of which is known to have no such minute.
Ready(rows, coverage) ==
  {b \in Staged(rows) : \A p \in Provider : rows[p][b] = "none" => p \in coverage}

MutReadRows ==
  /\ In("rows")
  /\ run.mode = "plain"
  /\ LET rows == Fetched(Staged(staging) \ (pending \cup Resolved))
     IN  run' = [run EXCEPT !.phase = "graduate", !.rows = rows, !.coverage = {},
                            !.eligible = Ready(rows, run.coverage)]
  /\ UNCHANGED <<source, staging, covered, stager, tables, band, mishaps>>

\* fetch_staging_rows_for_reconciliation, and the filter on what it returns.
ReadRows ==
  /\ In("rows")
  /\ run.mode = "plain"
  /\ LET rows == Fetched(Staged(staging) \ pending)
     IN  run' = [run EXCEPT !.phase = "graduate", !.rows = rows, !.coverage = {},
                            !.eligible = Ready(rows, run.coverage)]
  /\ UNCHANGED <<source, staging, covered, stager, tables, band, mishaps>>

Matched ==
  {b \in run.eligible : Adjudicated(run.rows, b) /\ CandidatesAt(run.rows, b) = Candidate}

\* _missing_graduation_keys: a candidate graduates with all its fields at once.
MissingGraduation == Candidate \ graduated

\* save_provider_pair_disagreement_batch: an upsert of what is missing, in one
\* commit, so that what a candidate had already learned is not overwritten.
SaveDisagreement(candidates) == graduated' = graduated \cup candidates

MutGraduate ==
  /\ In("graduate")
  /\ SaveDisagreement(IF Cardinality(Matched) >= Threshold THEN MissingGraduation ELSE {})
  /\ run' = IF graduated' = {} THEN Idle ELSE [run EXCEPT !.phase = "resolve"]
  /\ UNCHANGED <<source, staging, covered, stager, resolution, pending, fact,
                 archive, band, mishaps>>

\* Graduation, then fetch_resolved_field_groups: a ticker none of whose
\* candidates has statistics is not looked at at all.
Graduate ==
  /\ In("graduate")
  /\ SaveDisagreement(IF Cardinality(Matched) >= Threshold THEN MissingGraduation ELSE {})
  /\ run' = IF graduated' = {} THEN Idle
            ELSE [run EXCEPT !.phase = "resolve", !.known = Resolved]
  /\ UNCHANGED <<source, staging, covered, stager, resolution, pending, fact,
                 archive, band, mishaps>>

-----------------------------------------------------------------------------
(* The fixed-point loop, and what it leaves to a person.                   *)

Resolve(b) ==
  /\ In("resolve")
  /\ b \in run.eligible \ run.known
  /\ \E r \in Automatic(run.rows, b, graduated, band) :
       resolution' = [resolution EXCEPT ![b] = r]
  /\ run' = [run EXCEPT !.known = @ \cup {b}]
  /\ UNCHANGED <<source, staging, covered, stager, pending, fact, archive,
                 graduated, band, mishaps>>

\* A pass over the unresolved bars resolves none of them.
StopResolving ==
  /\ In("resolve")
  /\ \A b \in run.eligible \ run.known : MayStayUnresolved(run.rows, b, band)
  /\ run' = [run EXCEPT !.phase = "pend", !.todo = run.eligible \ run.known]
  /\ UNCHANGED <<source, staging, covered, stager, tables, band, mishaps>>

MarkPending(b) ==
  /\ In("pend")
  /\ b \in run.todo
  /\ pending' = pending \cup {b}
  /\ run' = [run EXCEPT !.todo = @ \ {b}]
  /\ UNCHANGED <<source, staging, covered, stager, resolution, fact, archive,
                 graduated, band, mishaps>>

-----------------------------------------------------------------------------
(* --finalize.                                                             *)

\* The pending bars and the rows they have; resolved_by_bar starts empty.
ReadPending ==
  /\ In("rows")
  /\ run.mode = "finalize"
  /\ LET rows == Fetched(pending)
     IN  run' = [run EXCEPT !.phase = "finalize", !.rows = rows, !.eligible = pending,
                            !.todo = {b \in pending : Finalizable(rows, b)}]
  /\ UNCHANGED <<source, staging, covered, stager, tables, band, mishaps>>

MutForceResolve(b) ==
  /\ In("finalize")
  /\ b \in run.todo
  /\ resolution' = [resolution EXCEPT ![b] = Resolution(Preferred, "finalized")]
  /\ run' = [run EXCEPT !.known = @ \cup {b}, !.todo = @ \ {b}]
  /\ UNCHANGED <<source, staging, covered, stager, pending, fact, archive,
                 graduated, band, mishaps>>

\* record_reconciliation is a plain INSERT: a bar that has a resolution
\* already violates its primary key, which ends the run.
ForceResolve(b) ==
  /\ In("finalize")
  /\ b \in run.todo
  /\ \/ /\ b \notin Resolved
        /\ resolution' = [resolution EXCEPT ![b] = Resolution(Preferred, "finalized")]
        /\ run' = [run EXCEPT !.phase = "clear", !.at = {b}, !.todo = @ \ {b}]
     \/ /\ b \in Resolved
        /\ run' = Idle
        /\ UNCHANGED resolution
  /\ UNCHANGED <<source, staging, covered, stager, pending, fact, archive,
                 graduated, band, mishaps>>

\* clear_pending_manual_resolution.
ClearPending ==
  /\ In("clear")
  /\ pending' = pending \ run.at
  /\ run' = [run EXCEPT !.phase = "finalize", !.known = @ \cup run.at, !.at = {}]
  /\ UNCHANGED <<source, staging, covered, stager, resolution, fact, archive,
                 graduated, band, mishaps>>

-----------------------------------------------------------------------------
(* _promote_and_lazily_purge, shared by both.                              *)

\* Bars that are resolved and whose winner's row was read.
Promotable ==
  {b \in run.eligible \cap run.known :
     resolution[b].winner \in CandidatesAt(run.rows, b)}

BeginPromoting ==
  /\ In("pend") \/ In("finalize")
  /\ run.todo = {}
  /\ run' = [run EXCEPT !.phase = "promote", !.todo = Promotable]
  /\ UNCHANGED <<source, staging, covered, stager, tables, band, mishaps>>

MutNeededAsNeighbor(b) == b - 1 \in Staged(run.rows) \ run.known

\* _bar_still_needed_as_neighbor, from the snapshots of this run.
NeededAsNeighbor(b) == \E n \in {b - 1, b + 1} : n \in Staged(run.rows) \ run.known

MutPromote(b) ==
  /\ In("promote")
  /\ b \in run.todo
  /\ fact' = [fact EXCEPT ![b] = IF Preferred \in CandidatesAt(run.rows, b)
                                   THEN Preferred ELSE resolution[b].winner]
  /\ run' = [run EXCEPT !.todo = @ \ {b},
                        !.phase = IF NeededAsNeighbor(b) THEN "promote" ELSE "purge",
                        !.at = IF NeededAsNeighbor(b) THEN {} ELSE {b}]
  /\ UNCHANGED <<source, staging, covered, stager, resolution, pending, archive,
                 graduated, band, mishaps>>

\* promote_bar_to_fact: an upsert.
Promote(b) ==
  /\ In("promote")
  /\ b \in run.todo
  /\ fact' = [fact EXCEPT ![b] = resolution[b].winner]
  /\ run' = [run EXCEPT !.todo = @ \ {b},
                        !.phase = IF NeededAsNeighbor(b) THEN "promote" ELSE "purge",
                        !.at = IF NeededAsNeighbor(b) THEN {} ELSE {b}]
  /\ UNCHANGED <<source, staging, covered, stager, resolution, pending, archive,
                 graduated, band, mishaps>>

MutSelectForArchive ==
  /\ In("purge")
  /\ run' = [run EXCEPT !.phase = "delete",
                        !.selected = UNION {{resolution[b].winner} \cap CandidatesAt(staging, b)
                                              : b \in run.at}]
  /\ UNCHANGED <<source, staging, covered, stager, tables, band, mishaps>>

\* purge_staging_bar, the SELECT: the whistleblower's row is left alone.
SelectForArchive ==
  /\ In("purge")
  /\ run' = [run EXCEPT !.phase = "delete",
                        !.selected = UNION {CandidatesAt(staging, b) : b \in run.at}]
  /\ UNCHANGED <<source, staging, covered, stager, tables, band, mishaps>>

MutArchiveWholeDate ==
  /\ In("delete")
  /\ archive' = archive \cup (Staged(staging) \X run.selected)
  /\ staging' = [p \in Provider |-> [b \in Bar |->
                   IF p \in run.selected THEN "none" ELSE staging[p][b]]]
  /\ run' = [run EXCEPT !.phase = "promote", !.at = {}, !.selected = {}]
  /\ UNCHANGED <<source, covered, stager, resolution, pending, fact, graduated,
                 band, mishaps>>

MutArchiveEveryProvider ==
  /\ In("delete")
  /\ archive' = archive \cup (run.at \X run.selected)
  /\ staging' = [p \in Provider |-> [b \in Bar |->
                   IF b \in run.at THEN "none" ELSE staging[p][b]]]
  /\ run' = [run EXCEPT !.phase = "promote", !.at = {}, !.selected = {}]
  /\ UNCHANGED <<source, covered, stager, resolution, pending, fact, graduated,
                 band, mishaps>>

\* Its INSERTs, its DELETE, which looks again, and the commit.
ArchiveAndDelete ==
  /\ In("delete")
  /\ archive' = archive \cup (run.at \X run.selected)
  /\ staging' = [p \in Provider |-> [b \in Bar |->
                   IF p \in Candidate /\ b \in run.at THEN "none" ELSE staging[p][b]]]
  /\ run' = [run EXCEPT !.phase = "promote", !.at = {}, !.selected = {}]
  /\ UNCHANGED <<source, covered, stager, resolution, pending, fact, graduated,
                 band, mishaps>>

Finish ==
  /\ In("promote")
  /\ run.todo = {}
  /\ run' = Idle
  /\ UNCHANGED <<source, staging, covered, stager, tables, band, mishaps>>

-----------------------------------------------------------------------------
(* --reevaluate-unadjudicated, and what comes from outside.                *)

Reevaluable ==
  {b \in Bar : /\ band
               /\ resolution[b].path = "unadjudicated"
               /\ Cardinality({p \in Candidate : <<b, p>> \in archive}) = 2}

\* reevaluate_unadjudicated: the label the archived values earn.
NewPath(agree) == IF agree THEN "historical_mad_agreement" ELSE "unadjudicated_disputed"

\* update_unadjudicated_resolution_paths_batch: the winner stays.
Relabeled(agreed) ==
  [b \in Bar |->
     IF b \in Reevaluable THEN [resolution[b] EXCEPT !.path = NewPath(b \in agreed)]
                          ELSE resolution[b]]

\* One batch of new labels; the archived values may agree or not.
Reevaluate ==
  /\ In("reevaluate")
  /\ \E agreed \in SUBSET Reevaluable : resolution' = Relabeled(agreed)
  /\ run' = Idle
  /\ UNCHANGED <<source, staging, covered, stager, pending, fact, archive,
                 graduated, band, mishaps>>

\* A migration seeds candidate_pair_mad_band.  A run reads the table once,
\* before its rows, so that a seeding during a run is one before or after it.
SeedBand ==
  /\ In("idle")
  /\ ~ band
  /\ band' = TRUE
  /\ UNCHANGED <<source, staging, covered, stager, tables, run, mishaps>>

\* quant-reconcile stops, or a database error ends it: what it has not
\* committed is rolled back, what it has stays.
Crash ==
  /\ ~ In("idle")
  /\ Mishap
  /\ run' = Idle
  /\ UNCHANGED <<source, staging, covered, stager, tables, band>>

-----------------------------------------------------------------------------
(* The public client: one statement per method, over what is committed.    *)

FetchBars == {b \in Bar : fact[b] # NoWinner}

FetchPendingResolutionBars ==
  {bp \in pending \X Provider : staging[bp[2]][bp[1]] # "none"}

FetchRejectedWhistleblowerBars == {b \in Bar : staging[Whistleblower][b] = "rejected"}

-----------------------------------------------------------------------------
Init ==
  /\ source \in Sources
  /\ staging = NoRows
  /\ covered = {}
  /\ stager = {}
  /\ resolution = [b \in Bar |-> Unresolved]
  /\ pending = {}
  /\ fact = [b \in Bar |-> NoWinner]
  /\ archive = {}
  /\ graduated \in SUBSET Graduated0
  /\ band = FALSE
  /\ run = Idle
  /\ mishaps = 0

Stage ==
  \/ \E p \in Provider : StageProvider(p)
  \/ RecordCoverage
  \/ CoverageFails

Step ==
  \/ RejectOutliers
  \/ ReadCoverage
  \/ ReadRows
  \/ Graduate
  \/ \E b \in Bar : Resolve(b)
  \/ StopResolving
  \/ \E b \in Bar : MarkPending(b)
  \/ ReadPending
  \/ \E b \in Bar : ForceResolve(b)
  \/ ClearPending
  \/ BeginPromoting
  \/ \E b \in Bar : Promote(b)
  \/ SelectForArchive
  \/ ArchiveAndDelete
  \/ Finish
  \/ Reevaluate

Next ==
  \/ Stage
  \/ \E mode \in Mode : Start(mode)
  \/ Step
  \/ SeedBand
  \/ Crash

Spec == Init /\ [][Next]_vars

-----------------------------------------------------------------------------
(* Both programs are invoked again and again, plainly and with --finalize, *)
(* and an invocation that is not stopped goes on.                          *)
Fairness ==
  /\ \A p \in Provider : WF_vars(p \notin covered /\ StageProvider(p))
  /\ WF_vars(RecordCoverage)
  /\ SF_vars(Start("plain"))
  /\ SF_vars(Start("finalize"))
  /\ WF_vars(Step)

FairSpec == Spec /\ Fairness

-----------------------------------------------------------------------------
(* Properties.                                                             *)

\* Every table and snapshot has the shape its columns give it.
TypeOK ==
  /\ source \in Sources
  /\ staging \in Rows
  /\ covered \in SUBSET Provider
  /\ stager \in SUBSET Provider
  /\ resolution \in [Bar -> {Unresolved} \cup [winner : Candidate, path : Path]]
  /\ pending \in SUBSET Bar
  /\ fact \in [Bar -> Candidate \cup {NoWinner}]
  /\ archive \in SUBSET (Bar \X Candidate)
  /\ graduated \in SUBSET Candidate
  /\ band \in BOOLEAN
  /\ run \in Run
  /\ mishaps \in 0 .. MaxMishaps

\* A bar is judged without a provider only if that provider really has no such
\* minute, although quant-stage may be writing between the two reads:
\* ingestion_coverage means "confirmed absent", never "not staged yet".
AbsenceIsReal ==
  In("resolve") =>
    \A b \in run.eligible \ run.known, p \in Provider :
      run.rows[p][b] = "none" => source[p][b] = "none"

\* purge_staging_bar: "a row is never deleted without first landing in
\* market_data_archive", also a row that is staged while the purge runs.
RowsLeaveOnlyToArchive ==
  [][\A p \in Candidate, b \in Bar :
       staging[p][b] # "none" /\ staging'[p][b] = "none" => <<b, p>> \in archive']_vars

\* No minute is gone from staging before readers can see it, wherever the run
\* that resolved it was stopped.
ArchivedIsPublished == \A bp \in archive : fact[bp[1]] # NoWinner

\* fetch_pending_resolution_bars: one entry per provider that reported, "so a
\* caller can see the actual disagreement instead of just that a bar is stuck".
\* No purge, whichever run it belongs to, takes a row of a bar that waits for
\* a person, and no bar waits before every provider's row of it is there.
DisputeIsVisible ==
  \A b \in pending, p \in Provider :
    source[p][b] # "none" => <<b, p>> \in FetchPendingResolutionBars

\* A client never gets a bar both as published and as awaiting a decision:
\* --finalize publishes only what it has taken off the list, and no run puts
\* a published bar on it, wherever runs were stopped.
PublishedIsSettled == FetchBars \cap pending = {}

\* fetch_rejected_whistleblower_bars finds a rejected value "regardless of
\* resolution outcome": a bar that was decided without the whistleblower,
\* although it had reported a usable value, is among them, whatever has been
\* published and purged since.  Until a failure has the day staged again, which
\* restores the rejected row to "accepted".
RejectionIsVisible ==
  mishaps = 0 =>
    \A b \in Bar :
      /\ resolution[b].path \in {"completeness", "historical_mad_agreement",
                                "unadjudicated", "unadjudicated_disputed"}
      /\ source[Whistleblower][b] = "accepted"
      => b \in FetchRejectedWhistleblowerBars

\* What a resolution says of the bar, against everything the providers reported.
Earned(b, r) ==
  LET others == {p \in Candidate \ {r.winner} : source[p][b] # "none"}
  IN  /\ source[r.winner][b] # "none"
      /\ r.path = "completeness" => others = {}
      /\ r.path = "agreement" => source[Whistleblower][b] = "accepted"
      /\ r.path = "boundary_fix" =>
           HasWindow(source, r.winner, b) /\ HasWindow(source, Whistleblower, b)
      /\ r.path \in {"historical_mad_agreement", "unadjudicated_disputed"} => others # {}
      /\ r.path \in {"historical_mad_agreement", "unadjudicated", "unadjudicated_disputed",
                     "finalized"} => r.winner = Preferred

\* resolution_path tells an auditor on what ground a bar got its values.  It is
\* true of everything the providers reported, not only of what the run had read
\* when it decided: "completeness" means that nobody else has the minute, however
\* late the others were staged, and a relabeled bar did have two values to compare.
PathsAreEarned == \A b \in Resolved : Earned(b, resolution[b])

\* record_reconciliation is a plain INSERT into a table with a primary key.  A plain
\* run never inserts a second resolution of a bar; --finalize does so only after
\* a run was stopped between its two commits for a bar.
InsertsNeverCollide ==
  /\ In("resolve") => (run.eligible \ run.known) \cap Resolved = {}
  /\ In("finalize") /\ mishaps = 0 => run.todo \cap Resolved = {}

\* A plain run never takes a row that an adjacent bar may still be judged by:
\* one that is staged, neither resolved nor handed to --finalize, according to
\* the tables now and not to what the run once read.  A --finalize run may: it
\* sees the pending neighbors only.
PlainPurgeKeepsWindows ==
  [][\A p \in Candidate, b \in Bar :
       run.mode = "plain" /\ staging[p][b] # "none" /\ staging'[p][b] = "none" =>
         {b - 1, b + 1} \cap Staged(staging) \subseteq Resolved \cup pending]_vars

\* The winner of a bar is decided once, whichever runs, stops and retries
\* there are, and only its values are ever published for the bar.
Published == INSTANCE Publication
               WITH decided <- [b \in Bar |-> resolution[b].winner], published <- fact

ImplementsPublication == Published!Spec

\* A provider's row of a bar, if it has one, is in staging or in the archive.
Kept(p, b) ==
  source[p][b] # "none" => staging[p][b] # "none" \/ <<b, p>> \in archive

\* What quant-stage hands over stays handed over: a provider all of whose rows
\* are in staging or in the archive does not lose one of them to a run of
\* quant-reconcile, whatever stages and purges at the same time, is covered only
\* then, and, staged by one process at a time, stays covered.
Staging == INSTANCE Handover
             WITH Key <- Provider,
                  landed <- {p \in Provider : \A b \in Bar : Kept(p, b)},
                  confirmed <- covered,
                  contended <- {}

ImplementsHandover == Staging!Spec

\* ARCHITECTURE.md on --finalize: it "deletes the fact_pending_manual_resolution
\* row once resolved".  A pending bar the preferred provider has a row for does
\* not stay pending.
PendingIsFinalized ==
  \A b \in Bar : b \in pending /\ Finalizable(staging, b) ~> b \notin pending

\* ARCHITECTURE.md on lazy purge: a bar whose purge was blocked by a neighbor
\* "self-heals on the next plain run".  A resolved bar of a day that is staged
\* completely is published and leaves staging.
ResolvedBarsLeaveStaging ==
  \A b \in Bar :
    b \in Resolved /\ covered = Provider
      ~> fact[b] # NoWinner /\ CandidatesAt(staging, b) = {}

-----------------------------------------------------------------------------
(* The inductive invariant behind the safety properties.                   *)

\* What a run counts as resolved is resolved, and the loop knows of every bar
\* that is: so nothing is decided twice and nothing undecided is published.
DecisionInv ==
  /\ run.known \subseteq Resolved
  /\ In("resolve") => Resolved \subseteq run.known
  /\ In("clear") => run.at \subseteq Resolved
  /\ run.phase \notin {"clear", "purge", "delete"} => run.at = {}
  /\ run.phase \in {"promote", "purge", "delete"} =>
       run.todo \cup run.at \subseteq run.known \cap run.eligible
  /\ run.phase \in {"purge", "delete"} => \A b \in run.at : fact[b] # NoWinner
  /\ \A bp \in archive : bp[1] \in Resolved /\ fact[bp[1]] # NoWinner

\* A provider whose day was staged has lost nothing of it, whether or not its
\* coverage was recorded, and a bar that left the undecided ones had all its rows.
RowsInv ==
  /\ \A p \in Provider, b \in Bar : staging[p][b] # "none" => source[p][b] # "none"
  /\ \A p \in Provider :
       p \in covered \cup stager \/ (\E b \in Bar : staging[p][b] # "none")
         => \A b \in Bar : Kept(p, b)
  /\ \A b \in pending \cup Resolved, p \in Provider : Kept(p, b)

\* Which bars the two kinds of run work on.
ModeInv ==
  /\ run.phase \in {"outliers", "coverage", "graduate", "resolve", "pend"} =>
       run.mode = "plain"
  /\ In("pend") => run.todo \subseteq run.eligible
  /\ run.phase \in {"finalize", "clear"} =>
       run.mode = "finalize" /\ run.todo \subseteq pending \cup Resolved

\* A plain run that found a bar ready has seen the whole day: every provider
\* had been staged.
WholeDaySeen ==
  run.mode = "plain" /\ run.eligible # {} =>
    /\ \A p \in Provider, b \in Bar : Kept(p, b)
    /\ \A b \in Bar : \/ b \in Staged(run.rows) \cup pending \cup Resolved
                      \/ \A p \in Candidate : source[p][b] = "none"

\* Why a row that was not read does not exist.
AbsenceSeen ==
  /\ run.coverage \subseteq covered
  /\ In("graduate") =>
       \A b \in run.eligible \ Resolved, p \in Provider :
         run.rows[p][b] = "none" => source[p][b] = "none"
  /\ AbsenceIsReal

\* What a purge may delete: rows that are archived or about to be, of bars no
\* neighbor waits for.
PurgeInv ==
  /\ In("delete") =>
       \A b \in run.at, p \in Candidate :
         staging[p][b] # "none" => p \in run.selected \/ <<b, p>> \in archive
  /\ run.phase \in {"purge", "delete"} => \A b \in run.at : ~ NeededAsNeighbor(b)

SnapshotInv == ModeInv /\ WholeDaySeen /\ AbsenceSeen /\ PurgeInv

ReconcileInv == TypeOK /\ DecisionInv /\ RowsInv /\ SnapshotInv

\* Beside it: what is published was resolved, and what a run counts as resolved
\* and may publish is not pending, in the table or in what it is about to add.
PendingInv ==
  /\ PublishedIsSettled
  /\ FetchBars \subseteq Resolved
  /\ run.phase \in {"outliers", "coverage", "rows"} => run.known = {}
  /\ run.phase \in {"graduate", "resolve"} => run.eligible \cap pending = {}
  /\ run.eligible \cap run.known \cap pending = {}
  /\ In("pend") => run.todo \cap (run.known \cup Resolved) = {}

\* Beside both: a usable value of the whistleblower is in staging as it was
\* reported or as rejected, and a run that read it as rejected read what is
\* there still.  Nothing stages it a second time before a mishap.
RejectionInv ==
  mishaps = 0 =>
    /\ (\E b \in Bar : staging[Whistleblower][b] # "none") =>
         Whistleblower \in covered \cup stager
    /\ \A b \in Bar : source[Whistleblower][b] = "accepted" =>
         /\ staging[Whistleblower][b] \in {"none", "accepted", "rejected"}
         /\ \/ staging[Whistleblower][b] = "rejected"
            \/ run.rows[Whistleblower][b] \in {"none", "accepted"}
    /\ RejectionIsVisible

\* Beside ReconcileInv: rows come from what the providers reported, and so do
\* the archive and the grounds of every decision.
Reported(rows) ==
  \A p \in Provider, b \in Bar :
    /\ rows[p][b] # "none" => source[p][b] # "none"
    /\ rows[p][b] = "accepted" => source[p][b] = "accepted"

EarnedInv ==
  /\ Reported(staging) /\ Reported(run.rows)
  /\ \A b, c \in run.at : b = c
  /\ In("delete") => \A b \in run.at, p \in run.selected : source[p][b] # "none"
  /\ \A bp \in archive : source[bp[2]][bp[1]] # "none"
  /\ run.phase \in {"finalize", "clear"} => \A b \in run.todo : Finalizable(run.rows, b)
  /\ PathsAreEarned

\* Beside PendingInv: unless it was stopped, a run leaves no bar both pending and
\* resolved, but for the one it is at.
CollisionInv ==
  mishaps = 0 =>
    /\ \A b \in pending \cap Resolved : In("clear") /\ b \in run.at
    /\ run.phase \in {"finalize", "clear"} =>
         run.todo \cap run.at = {} /\ run.todo \subseteq pending
=============================================================================
