------------------------------ MODULE Pipeline ------------------------------
(***************************************************************************)
(* quant-ingest and quant-stage for one ticker, from the providers to the  *)
(* staging table: the jobs of one work item, which quant-dispatch runs one *)
(* at a time, and next to them the same tools invoked by hand or by        *)
(* another schedule (--catch-up).                                          *)
(*                                                                         *)
(* A bar is the minute of a session a provider reported; its values are    *)
(* left out, except which supplementary methods were merged into it.       *)
(*                                                                         *)
(* The coverage tables are sets of days per key here; module Coverage is   *)
(* about the ranges they are stored as.  A transaction on one of them is   *)
(* its SELECT and its commit, and a commit of the other process on the     *)
(* same key in between makes the selection stale: see CoverageCommit.      *)
(*                                                                         *)
(* Every AppError that stands for something out of order (a provider or a  *)
(* database that does not answer, a payload that does not parse) and every *)
(* crash takes one of MaxFaults faults.                                    *)
(***************************************************************************)
EXTENDS JobPlan, FiniteSets, CoverageCommit

CONSTANTS
  Item,            \* the work item, as in JobPlan
  Day,             \* calendar days, as integers
  Weekend,
  Source,          \* Source[p][m][d]: the minutes p has for session d by method m
  Unfinished,      \* the <<p, d>> whose session may still run when it is fetched
  DefaultMethods,  \* DEFAULT_METHODS_BY_PROVIDER
  ByHand,          \* the runs that may be started by hand, each once
  MaxByHand,       \* bound: runs by hand
  MaxFaults        \* bound

\* The providers with several methods are ibkr and no other; its methods are
\* planned by their names.
ASSUME ItemAssumption ==
  /\ Item.first \in Int /\ Item.last \in Int
  /\ Item.first .. Item.last \subseteq Day
  /\ NoMethod \notin Range(Item.ibkrMethods)
  /\ Ibkr \in Range(Item.providers) =>
       Range(Item.ibkrMethods) \subseteq Range(DefaultMethods[Ibkr])
ASSUME DayAssumption == Day \subseteq Int /\ Weekend \subseteq Day
ASSUME MethodAssumption ==
  \A p \in Range(Item.providers) :
    /\ DefaultMethods[p][1] \in Range(DefaultMethods[p])
    /\ p # Ibkr => Range(DefaultMethods[p]) = {DefaultMethods[p][1]}
ASSUME SourceAssumption ==
  \A p, q \in Range(Item.providers), d \in Day : \A m \in Range(DefaultMethods[q]) :
    Source[p][m][d] \subseteq {"day", "late"}
ASSUME ByHandAssumption ==
  \A r \in ByHand :
    /\ r.tool \in {"ingest", "stage"} /\ r.days \subseteq Day
    /\ \A c \in r.combos :
         /\ c \in Range(Item.providers) \X Range(DefaultMethods[c[1]])
         /\ r.tool = "stage" => c[2] = DefaultMethods[c[1]][1]
ASSUME BoundAssumption == MaxByHand \in Nat /\ MaxFaults \in Nat

VARIABLES
  archive,   \* archive[c]: the bars of the latest row of provider_source_archive
  marked,    \* archive_coverage: marked[k] are the days of key k
  staged,    \* staging_market_data_1min
  covered,   \* ingestion_coverage: covered[p] are the days of provider p
  done,      \* the jobs of the item that ran successfully and are disabled
  byHand,    \* the runs that were started by hand
  proc,      \* proc[s]: the process of slot s
  txn,       \* txn[s]: what the coverage transaction of slot s has selected
  raced,     \* history: the keys of coverage on which a stale selection was committed
  faults

vars == <<archive, marked, staged, covered, done, byHand, proc, txn, raced, faults>>

tables == <<archive, marked, staged, covered, raced>>

Provider == Range(Item.providers)
Method == UNION {Range(DefaultMethods[p]) : p \in Provider}
Minute == {"day", "late"}
Slot == {"dispatch", "hand"}

\* PRIMARY_METHOD_BY_PROVIDER and the rest of the default methods.
Primary(p) == DefaultMethods[p][1]
Supplementary(p) == Range(DefaultMethods[p]) \ {Primary(p)}

\* Keys of the archive.
Combo == Provider \X Method \X Day

\* Keys of archive_coverage and of ingestion_coverage, for the one ticker and
\* the one fetch_version of each provider.
ArchiveKey(c) == <<c[1], c[2]>>
StagingKey(c) == <<c[1]>>
CoverageKey == (Provider \X Method) \cup {<<p>> : p \in Provider}

Bar == [day : Day, minute : Minute, quotes : SUBSET Method]
StagedBar == [provider : Provider, day : Day, minute : Minute, quotes : SUBSET Method]

\* The minutes between 19:00 and 20:00 in New York are past midnight in UTC in
\* winter, and a bar is filed under the date of its UTC timestamp.
FiledUnder(d, m) == IF m = "late" THEN d + 1 ELSE d

-----------------------------------------------------------------------------
(* fetch_bars: what a provider answers.                                    *)

\* ibkr answers with the last session that ends up to the day it is asked for.
LastSession(p, m, d) ==
  {e \in Day : /\ e <= d /\ Source[p][m][e] # {}
              /\ \A f \in Day : f <= d /\ Source[p][m][f] # {} => f <= e}

\* The others only with the session of that day.
OwnSession(p, m, d) == {e \in Day : e = d /\ Source[p][m][e] # {}}

\* provider.fetch_bars: at most one session.
Session(p, m, d) == IF p = Ibkr THEN LastSession(p, m, d) ELSE OwnSession(p, m, d)

\* raw_bars_payload of a session that is over.  The methods of a provider may
\* differ in their minutes.
WholeSession(p, m, e) == {[day |-> e, minute |-> x, quotes |-> {}] : x \in Source[p][m][e]}

\* What a request may bring of session e: of one that still runs, any part.
Answers(p, m, e) ==
  IF <<p, e>> \in Unfinished THEN (SUBSET WholeSession(p, m, e)) \ {{}} ELSE {WholeSession(p, m, e)}

\* The payloads of one fetch; none is "No data available".
Payloads(p, m, d) == UNION {Answers(p, m, e) : e \in Session(p, m, d)}

-----------------------------------------------------------------------------
(* Runs.                                                                   *)

NoJob == Name("none", [ticker |-> Item.ticker], 0, 0, "any", NoMethod)

\* The methods a run of quant-ingest fetches of p, if asked for method m.
MethodsToFetch(p, m) ==
  IF p = Ibkr /\ m # NoMethod THEN {m} ELSE Range(DefaultMethods[p])

\* The commands of the plan's jobs.
RunOf(n) ==
  IF n.kind = "ingest"
    THEN [tool |-> "ingest", days |-> {n.first},
          combos |-> {n.provider} \X MethodsToFetch(n.provider, n.method)]
    ELSE [tool |-> "stage", days |-> n.first .. n.last,
          combos |-> {<<p, Primary(p)>> : p \in Provider}]

\* The work of a run: its days, and on each of them its providers.
Work(combos, days) == {<<c[1], c[2], d>> : c \in combos, d \in days}

\* No transaction on a coverage table.
NoTxn == [key |-> <<>>, seen |-> {}, fresh |-> TRUE]

Idle == [tool |-> "none", job |-> NoJob, days |-> {}, todo |-> {}, handled |-> {},
         at |-> "next", key |-> <<>>, held |-> {}, left |-> {}]

Started(job, run, combos) ==
  [Idle EXCEPT !.tool = run.tool, !.job = job, !.days = run.days,
               !.todo = Work(combos, run.days)]

Works == UNCHANGED faults
Fails == faults < MaxFaults /\ faults' = faults + 1

\* connect() does nothing but for ibkr: what is left when that does not connect.
WithoutGateway(combos) == {c \in combos : c[1] # Ibkr}

\* main up to its loop.  A provider that does not connect is dropped, and
\* without any provider the process exits 1.
Begin(s, job, run) ==
  \/ /\ proc' = [proc EXCEPT ![s] = Started(job, run, run.combos)]
     /\ Works
  \/ /\ run.tool = "ingest"
     /\ LET connected == WithoutGateway(run.combos) IN
          /\ connected # run.combos
          /\ proc' = [proc EXCEPT ![s] = IF connected = {} THEN Idle
                                         ELSE Started(job, run, connected)]
     /\ Fails

\* quant-dispatch, one job at a time: see module Dispatch.
Dispatch ==
  /\ proc["dispatch"].tool = "none"
  /\ \E n \in (IngestNames(Item) \cup {StageName(Item)}) \ done :
       /\ DependsOn(Item, n) \subseteq done
       /\ Begin("dispatch", n, RunOf(n))
  /\ UNCHANGED <<tables, done, byHand, txn>>

StartByHand ==
  /\ proc["hand"].tool = "none"
  /\ Cardinality(byHand) < MaxByHand
  /\ \E r \in ByHand \ byHand :
       /\ Begin("hand", NoJob, r)
       /\ byHand' = byHand \cup {r}
  /\ UNCHANGED <<tables, done, txn>>

\* The days in order; the order of the providers and methods of a day is the
\* order they are configured in, which may be any.
IsNext(s, c) ==
  /\ proc[s].at = "next"
  /\ c \in proc[s].todo
  /\ \A x \in proc[s].todo : c[3] <= x[3]

Done(s, c) == proc[s].todo \ {c}

-----------------------------------------------------------------------------
(* Transactions on a coverage table.                                       *)

\* The SELECT of the rows that touch the day; days are those of the key.
Select(s, key, days) == txn' = [txn EXCEPT ![s] = [key |-> key, seen |-> days, fresh |-> TRUE]]

\* What the other process has selected of the same key is stale from now on.
Commit(s) ==
  /\ txn' = [t \in Slot |-> IF t = s THEN NoTxn
                            ELSE [txn[t] EXCEPT !.fresh = @ /\ txn[t].key # txn[s].key]]
  /\ raced' = IF txn[s].fresh THEN raced ELSE raced \cup {txn[s].key}

\* A failing statement or a dead process: the server undoes what was not committed.
Rollback(s) ==
  /\ txn' = [txn EXCEPT ![s] = NoTxn]
  /\ UNCHANGED tables

\* Back to the loop when c is over; "handled" takes its day.
MutAfter(s, c, handled) ==
  [proc[s] EXCEPT !.at = "next", !.todo = Done(s, c), !.key = <<>>, !.held = {},
                  !.left = {}, !.handled = @ \cup {c[3]}]

After(s, c, handled) ==
  [proc[s] EXCEPT !.at = "next", !.todo = Done(s, c), !.key = <<>>, !.held = {},
                  !.left = {}, !.handled = @ \cup handled]

-----------------------------------------------------------------------------
(* quant-ingest.                                                           *)

\* _is_weekend and _provider_never_has_weekend_data: ibkr answers for a weekend,
\* with the session before it.
NeverHasData(p, d) == d \in Weekend /\ p # Ibkr

\* Such a day is covered, not fetched: mark_covered_without_data up to its SELECT.
MarkWeekend(s, c) ==
  /\ proc[s].tool = "ingest" /\ IsNext(s, c)
  /\ NeverHasData(c[1], c[3])
  /\ proc' = [proc EXCEPT ![s].at = "mark", ![s].key = c]
  /\ Select(s, ArchiveKey(c), marked[ArchiveKey(c)])
  /\ UNCHANGED <<tables, done, byHand, faults>>

Fetch(s, c) ==
  /\ proc[s].tool = "ingest" /\ IsNext(s, c)
  /\ ~ NeverHasData(c[1], c[3])
  /\ \/ /\ \E bars \in Payloads(c[1], c[2], c[3]) :
             proc' = [proc EXCEPT ![s].at = "record", ![s].key = c, ![s].held = bars]
        /\ Works
     \/ /\ Payloads(c[1], c[2], c[3]) = {}
        /\ proc' = [proc EXCEPT ![s].todo = Done(s, c)]
        /\ Works
     \/ /\ proc' = [proc EXCEPT ![s].todo = Done(s, c)]
        /\ Fails
  /\ UNCHANGED <<tables, done, byHand, txn>>

\* record_fetch up to its SELECT; the archive row is inserted before it, which
\* nobody sees until the commit.
RecordFetch(s) ==
  /\ proc[s].at = "record"
  /\ proc' = [proc EXCEPT ![s].at = "mark"]
  /\ LET k == ArchiveKey(proc[s].key) IN Select(s, k, marked[k])
  /\ UNCHANGED <<tables, done, byHand, faults>>

\* One row of provider_source_archive if something was fetched.
Archived(c, bars) == IF bars = {} THEN archive ELSE [archive EXCEPT ![c] = bars]

\* any_provider_handled taken for archived_count.
MutCommitFetch(s) ==
  /\ proc[s].at = "mark"
  /\ LET c == proc[s].key
         k == ArchiveKey(c) IN
       \/ /\ \E days \in LeftBy(marked[k], txn[s].seen, c[3], txn[s].fresh) :
               marked' = [marked EXCEPT ![k] = days]
          /\ archive' = Archived(c, proc[s].held)
          /\ proc' = [proc EXCEPT ![s] = After(s, c, IF proc[s].held = {} THEN {} ELSE {c[3]})]
          /\ Commit(s)
          /\ Works
          /\ UNCHANGED <<staged, covered>>
       \/ /\ proc' = [proc EXCEPT ![s] = After(s, c, {})]
          /\ Rollback(s)
          /\ Fails
  /\ UNCHANGED <<done, byHand>>

\* The archive row and its coverage, or the coverage alone, in one commit.
CommitFetch(s) ==
  /\ proc[s].at = "mark"
  /\ LET c == proc[s].key
         k == ArchiveKey(c) IN
       \/ /\ \E days \in LeftBy(marked[k], txn[s].seen, c[3], txn[s].fresh) :
               marked' = [marked EXCEPT ![k] = days]
          /\ archive' = Archived(c, proc[s].held)
          /\ proc' = [proc EXCEPT ![s] = After(s, c, {c[3]})]
          /\ Commit(s)
          /\ Works
          /\ UNCHANGED <<staged, covered>>
       \/ /\ proc' = [proc EXCEPT ![s] = After(s, c, {})]
          /\ Rollback(s)
          /\ Fails
  /\ UNCHANGED <<done, byHand>>

-----------------------------------------------------------------------------
(* quant-stage.                                                            *)

\* Without a bar of the ticker there is no dim_ticker row to cover: an
\* AppError of its own, which like any other is only logged.
CoverWeekend(s, c) ==
  /\ proc[s].tool = "stage" /\ IsNext(s, c)
  /\ c[3] \in Weekend
  /\ \/ /\ staged = {}
        /\ proc' = [proc EXCEPT ![s].todo = Done(s, c)]
        /\ UNCHANGED txn
     \/ /\ staged # {}
        /\ proc' = [proc EXCEPT ![s].at = "confirm", ![s].key = c]
        /\ Select(s, StagingKey(c), covered[c[1]])
  /\ UNCHANGED <<tables, done, byHand, faults>>

\* fetch_latest_bars and parse_payload of the primary method.
ReadArchive(s, c) ==
  /\ proc[s].tool = "stage" /\ IsNext(s, c)
  /\ c[3] \notin Weekend
  /\ \/ /\ archive[c] # {}
        /\ proc' = [proc EXCEPT ![s].at = "merge", ![s].key = c, ![s].held = archive[c],
                                ![s].left = Supplementary(c[1])]
        /\ Works
     \/ /\ archive[c] = {}
        /\ proc' = [proc EXCEPT ![s].todo = Done(s, c)]
        /\ Works
     \/ /\ proc' = [proc EXCEPT ![s].todo = Done(s, c)]
        /\ Fails
  /\ UNCHANGED <<tables, done, byHand, txn>>

\* The bars of one session have one bar per minute; the timestamps of a
\* supplementary payload that match one of them are merged into it.
Matches(b, bars) == \E q \in bars : q.day = b.day /\ q.minute = b.minute

MutMerge(bars, m, quotes) ==
  {[b EXCEPT !.quotes = @ \cup {m}] : b \in {x \in bars : Matches(x, quotes)}}

Merge(bars, m, quotes) ==
  {IF Matches(b, quotes) THEN [b EXCEPT !.quotes = @ \cup {m}] ELSE b : b \in bars}

\* fetch_latest_bars and apply_supplementary_payload of one more method; what
\* was not archived, or does not read, leaves the bars as they are.
MergeSupplementary(s, m) ==
  /\ proc[s].at = "merge"
  /\ m \in proc[s].left
  /\ LET c == <<proc[s].key[1], m, proc[s].key[3]>> IN
       \/ /\ proc' = [proc EXCEPT ![s].left = @ \ {m},
                                  ![s].held = Merge(@, m, archive[c])]
          /\ Works
       \/ /\ proc' = [proc EXCEPT ![s].left = @ \ {m}]
          /\ Fails
  /\ UNCHANGED <<tables, done, byHand, txn>>

\* The upsert of every bar in one commit: the row of the same minute is
\* written over, quotes included.
Upsert(p, bars) ==
  {b \in staged : ~ (b.provider = p /\ Matches(b, bars))}
    \cup {[provider |-> p, day |-> b.day, minute |-> b.minute, quotes |-> b.quotes]
            : b \in bars}

MutWriteStaging(s) ==
  /\ proc[s].at = "merge" /\ proc[s].left = {}
  /\ LET c == proc[s].key IN
       \/ /\ staged' = Upsert(c[1], proc[s].held)
          /\ proc' = [proc EXCEPT ![s].at = "cover"]
          /\ Works
       \/ /\ proc' = [proc EXCEPT ![s].at = "cover"]
          /\ UNCHANGED staged
          /\ Fails
  /\ UNCHANGED <<archive, marked, covered, raced, done, byHand, txn>>

WriteStaging(s) ==
  /\ proc[s].at = "merge" /\ proc[s].left = {}
  /\ LET c == proc[s].key IN
       \/ /\ staged' = Upsert(c[1], proc[s].held)
          /\ proc' = [proc EXCEPT ![s].at = "cover"]
          /\ Works
       \/ /\ proc' = [proc EXCEPT ![s] = After(s, c, {})]
          /\ UNCHANGED staged
          /\ Fails
  /\ UNCHANGED <<archive, marked, covered, raced, done, byHand, txn>>

\* record_ingestion_coverage up to its SELECT.
RecordIngestionCoverage(s) ==
  /\ proc[s].at = "cover"
  /\ proc' = [proc EXCEPT ![s].at = "confirm"]
  /\ LET c == proc[s].key IN Select(s, StagingKey(c), covered[c[1]])
  /\ UNCHANGED <<tables, done, byHand, faults>>

\* A commit of its own: a weekday counts as staged whether it is covered or not,
\* a weekend does not count at all.
CommitIngestionCoverage(s) ==
  /\ proc[s].at = "confirm"
  /\ LET c == proc[s].key IN
       /\ proc' = [proc EXCEPT ![s] = After(s, c, {c[3]} \ Weekend)]
       /\ \/ /\ \E days \in LeftBy(covered[c[1]], txn[s].seen, c[3], txn[s].fresh) :
                  covered' = [covered EXCEPT ![c[1]] = days]
             /\ Commit(s)
             /\ Works
             /\ UNCHANGED <<archive, marked, staged>>
          \/ /\ Rollback(s)
             /\ Fails
  /\ UNCHANGED <<done, byHand>>

-----------------------------------------------------------------------------
(* The end of a process.                                                   *)

\* Exit code 0: no day failed.  quant-stage does not count weekends.
Succeeded(q) ==
  \A d \in q.days : d \in q.handled \/ (q.tool = "stage" /\ d \in Weekend)

\* A run_once job that succeeds is disabled.
End(s) ==
  /\ proc[s].tool # "none" /\ proc[s].at = "next" /\ proc[s].todo = {}
  /\ done' = IF s = "dispatch" /\ Succeeded(proc[s]) THEN done \cup {proc[s].job} ELSE done
  /\ proc' = [proc EXCEPT ![s] = Idle]
  /\ UNCHANGED <<tables, byHand, txn, faults>>

\* At any point between two commits: the database keeps what was committed, and the
\* dispatcher sees an exit code that is not 0.
Crash(s) ==
  /\ proc[s].tool # "none"
  /\ proc' = [proc EXCEPT ![s] = Idle]
  /\ Rollback(s)
  /\ Fails
  /\ UNCHANGED <<done, byHand>>

Init ==
  /\ archive = [c \in Combo |-> {}]
  /\ marked = [k \in Provider \X Method |-> {}]
  /\ staged = {}
  /\ covered = [p \in Provider |-> {}]
  /\ done = {}
  /\ byHand = {}
  /\ proc = [s \in Slot |-> Idle]
  /\ txn = [s \in Slot |-> NoTxn]
  /\ raced = {}
  /\ faults = 0

Step(s) ==
  \/ \E c \in proc[s].todo :
       \/ MarkWeekend(s, c)
       \/ Fetch(s, c)
       \/ CoverWeekend(s, c)
       \/ ReadArchive(s, c)
  \/ RecordFetch(s)
  \/ CommitFetch(s)
  \/ \E m \in proc[s].left : MergeSupplementary(s, m)
  \/ WriteStaging(s)
  \/ RecordIngestionCoverage(s)
  \/ CommitIngestionCoverage(s)
  \/ End(s)

Next ==
  \/ Dispatch
  \/ StartByHand
  \/ \E s \in Slot : Step(s) \/ Crash(s)

Spec == Init /\ [][Next]_vars

\* The dispatcher runs on a timer, and a child process it started goes on.
FairSpec == Spec /\ WF_vars(Dispatch \/ Step("dispatch"))

-----------------------------------------------------------------------------
(* Properties.                                                             *)

Process ==
  [tool : {"none", "ingest", "stage"}, job : PlanNames(Item) \cup {NoJob},
   days : SUBSET Day, todo : SUBSET Combo, handled : SUBSET Day,
   at : {"next", "record", "mark", "merge", "cover", "confirm"}, key : Combo \cup {<<>>},
   held : SUBSET Bar, left : SUBSET Method]

Transaction == [key : CoverageKey \cup {<<>>}, seen : SUBSET Day, fresh : BOOLEAN]

TypeOK ==
  /\ archive \in [Combo -> SUBSET Bar]
  /\ marked \in [Provider \X Method -> SUBSET Day]
  /\ staged \subseteq StagedBar
  /\ covered \in [Provider -> SUBSET Day]
  /\ done \subseteq PlanNames(Item)
  /\ byHand \subseteq ByHand
  /\ proc \in [Slot -> Process]
  /\ txn \in [Slot -> Transaction]
  /\ raced \subseteq CoverageKey
  /\ faults \in Nat

StagedMinutes(p, e) == {b.minute : b \in {x \in staged : x.provider = p /\ x.day = e}}

\* The session provider p answers with for day d is in staging: all of it, or
\* some of it when the session was not over.
SessionStaged(p, d) ==
  \E e \in Session(p, Primary(p), d) :
    IF <<p, e>> \in Unfinished THEN StagedMinutes(p, e) # {}
                               ELSE Source[p][Primary(p)][e] \subseteq StagedMinutes(p, e)

\* record_ingestion_coverage: "Callers should only invoke this after both the
\* fetch and the write for this (ticker, provider, date) already succeeded",
\* through every failure and crash between the commits of the two databases, and
\* whatever a commit from a stale selection loses or brings back.
CoveredIsStaged ==
  \A p \in Provider : \A d \in covered[p] \ Weekend : SessionStaged(p, d)

\* A key of archive_coverage has the day, unless commits on it overlapped.
MarkedUnlessRaced(c) == c[3] \in marked[ArchiveKey(c)] \/ ArchiveKey(c) \in raced

PlannedMethods(p) ==
  IF p = Ibkr THEN Range(Item.ibkrMethods) ELSE Range(DefaultMethods[p])

\* schedule/algorithm.py: the plan has weekends so that archive_coverage has
\* no gap.  When the staging job has run, every day of the range is covered
\* for every provider and method, although the jobs failed and were retried,
\* except for a key on which a run by hand and a job committed over each other.
NoGaps ==
  StageName(Item) \in done =>
    \A p \in Provider, d \in Item.first .. Item.last : \A m \in PlannedMethods(p) :
      MarkedUnlessRaced(<<p, m, d>>)

\* quant-stage exits 0 only when every weekday was staged by some provider,
\* so the reconcile job, which depends on it, has rows of every session.
EverySessionStaged ==
  StageName(Item) \in done =>
    \A d \in (Item.first .. Item.last) \ Weekend : \E p \in Provider : SessionStaged(p, d)

\* Method m has the minute of bar b of provider p, and answers with its session
\* whenever the primary method does.
MethodHas(p, m, b) ==
  /\ b.minute \in Source[p][m][b.day]
  /\ \A d \in Day : b.day \in Session(p, Primary(p), d) => b.day \in Session(p, m, d)

\* The methods of the plan whose quotes belong into bar b of provider p.
QuotesOf(p, b) == {m \in Supplementary(p) \cap PlannedMethods(p) : MethodHas(p, m, b)}

\* The staging job waits for the jobs of every method, so that the quotes are
\* merged with the bars, as far as a method has the minute: they never need a
\* second pass.
QuotesAreMerged ==
  /\ StageName(Item) \in done
  /\ faults = 0
  /\ \A r \in byHand : r.tool # "stage"
  => \A b \in staged :
       <<b.provider, b.day>> \notin Unfinished => QuotesOf(b.provider, b) \subseteq b.quotes

\* Staging and its coverage, for the sessions of weekdays: what quant-reconcile
\* may take for granted of them, through every failure and crash.
Sessions == Provider \X (Day \ Weekend)

Staging == INSTANCE Handover
             WITH Key <- Sessions,
                  landed <- {x \in Sessions : SessionStaged(x[1], x[2])},
                  confirmed <- {x \in Sessions : x[2] \in covered[x[1]]},
                  contended <- {x \in Sessions : <<x[1]>> \in raced}

\* quant-stage in the dispatcher's slot, beside quant-stage by hand, is a Handover:
\* a session is confirmed only once it has landed, and a confirmation is lost only
\* where two of them committed over each other.
ImplementsHandover == Staging!Spec

\* Whatever faults the budget allows, the staging job of the item runs and
\* succeeds in the end.
StagedEventually == <>(StageName(Item) \in done)

\* reconcile/cli.py on a minute a provider has no row of: coverage of the date
\* it is filed under confirms that the provider has nothing there.
CoverageConfirmsAbsence ==
  \A p \in Provider, e \in Day : \A x \in Source[p][Primary(p)][e] :
    FiledUnder(e, x) \in covered[p] /\ <<p, e>> \notin Unfinished =>
      x \in StagedMinutes(p, e)

-----------------------------------------------------------------------------
(* The inductive invariant.                                                *)

Keys(bars) == {<<b.day, b.minute>> : b \in bars}

StagedKeys(p) == Keys({b \in staged : b.provider = p})

\* The minutes of one payload p can answer with for day d.
ArePayload(bars, p, d) == \E x \in Payloads(p, Primary(p), d) : Keys(bars) = Keys(x)

\* Nothing more is needed of an archive key: it has a row or never will, and its
\* day was recorded.
Ingested(c) == (archive[c] # {} \/ NeverHasData(c[1], c[3])) /\ MarkedUnlessRaced(c)

ArchiveInv ==
  \A c \in Combo : archive[c] # {} => archive[c] \in Payloads(c[1], c[2], c[3])

\* What a process holds is a payload of the day it works on, from the fetch to
\* its commits: in the archive, in staging, and then in the coverage.
HeldInv(q) ==
  /\ IF q.at = "next" THEN q.held = {} ELSE q.key \in q.todo
  /\ q.at = "record" =>
       /\ q.tool = "ingest" /\ ~ NeverHasData(q.key[1], q.key[3])
       /\ q.held \in Payloads(q.key[1], q.key[2], q.key[3])
  /\ q.at = "mark" =>
       /\ q.tool = "ingest"
       /\ IF NeverHasData(q.key[1], q.key[3])
            THEN q.held = {}
            ELSE q.held \in Payloads(q.key[1], q.key[2], q.key[3])
  /\ q.at \in {"merge", "cover", "confirm"} =>
       /\ q.tool = "stage" /\ q.key[2] = Primary(q.key[1])
       /\ IF q.key[3] \in Weekend THEN q.at = "confirm"
                                    ELSE ArePayload(q.held, q.key[1], q.key[3])
  /\ q.at \in {"cover", "confirm"} /\ q.key[3] \notin Weekend =>
       Keys(q.held) \subseteq StagedKeys(q.key[1])

\* The transaction x of process q is on the key it works for, and what it has
\* selected of ingestion_coverage is staged, even when it is stale by now.
TxnInv(q, x) ==
  /\ q.at = "mark" => x.key = ArchiveKey(q.key)
  /\ q.at = "confirm" =>
       /\ x.key = StagingKey(q.key)
       /\ \A d \in x.seen \ Weekend : SessionStaged(q.key[1], d)

\* Why a day counts as handled.
HandledInv(q) ==
  /\ q.tool = "ingest" /\ q.job # NoJob =>
       \A d \in q.handled : \A c \in Work(RunOf(q.job).combos, {d}) : Ingested(c)
  /\ q.tool = "stage" =>
       /\ \A d \in q.handled : d \notin Weekend /\ \E p \in Provider : SessionStaged(p, d)
       /\ \A c \in q.todo : c[2] = Primary(c[1])

\* The dispatcher's process works for a job whose dependencies are done.
JobInv ==
  LET q == proc["dispatch"] IN
  /\ q.tool # "none" =>
       /\ q.job \in IngestNames(Item) \cup {StageName(Item)}
       /\ DependsOn(Item, q.job) \subseteq done
       /\ q.tool = RunOf(q.job).tool /\ q.days = RunOf(q.job).days
       /\ q.todo \subseteq Work(RunOf(q.job).combos, q.days)
  /\ proc["hand"].job = NoJob

DoneInv ==
  /\ \A n \in done \cap IngestNames(Item) : \A c \in Work(RunOf(n).combos, {n.first}) :
       Ingested(c)
  /\ StageName(Item) \in done =>
       IngestNames(Item) \subseteq done /\ EverySessionStaged

PipelineInv ==
  /\ TypeOK
  /\ ArchiveInv
  /\ \A s \in Slot : HeldInv(proc[s]) /\ HandledInv(proc[s]) /\ TxnInv(proc[s], txn[s])
  /\ JobInv
  /\ CoveredIsStaged
  /\ DoneInv

\* Beside it, for the quotes: as long as the dispatcher's staging job is the only
\* one and nothing fails, no method it has dealt with is missing.
QuotesMerged(p, bars, left) ==
  \A b \in bars : <<p, b.day>> \notin Unfinished => QuotesOf(p, b) \ left \subseteq b.quotes

QuotesInv ==
  faults = 0 /\ (\A r \in byHand : r.tool # "stage") =>
    /\ proc["hand"].tool # "stage"
    /\ LET q == proc["dispatch"] IN
         q.at \in {"merge", "cover"} => QuotesMerged(q.key[1], q.held, q.left)
    /\ \A p \in Provider : QuotesMerged(p, {b \in staged : b.provider = p}, {})
=============================================================================
