------------------------------ MODULE JobPlan ------------------------------
(***************************************************************************)
(* build_job_plan: the job graph of one work item (a ticker and a range of *)
(* calendar days).  One ingest job per day and provider, per day and       *)
(* method for ibkr; one staging job that depends on every ingest job; one  *)
(* reconcile job that depends on the staging job.                          *)
(*                                                                         *)
(* A job is known by its name.  The formatted string is kept as the record *)
(* of the parts it is formatted from: two jobs have one name exactly when  *)
(* all these parts agree.                                                  *)
(***************************************************************************)
EXTENDS Integers, Functions

\* A work item is [ticker, first, last, providers, ibkrMethods]; the last two
\* are sequences, as the comma-separated options are.

Ibkr == "ibkr"

NoMethod == "none"

Name(kind, w, first, last, provider, method) ==
  [kind |-> kind, ticker |-> w.ticker, first |-> first, last |-> last,
   provider |-> provider, method |-> method]

MethodsOf(w, p) == IF p = Ibkr THEN Range(w.ibkrMethods) ELSE {NoMethod}

MutIngestNames(w) ==
  UNION {{Name("ingest", w, d, d, p, m) : d \in w.first .. w.last - 1, m \in MethodsOf(w, p)}
           : p \in Range(w.providers)}

\* Every calendar day of the range, weekends included.
IngestNames(w) ==
  UNION {{Name("ingest", w, d, d, p, m) : d \in w.first .. w.last, m \in MethodsOf(w, p)}
           : p \in Range(w.providers)}

StageName(w) == Name("stage", w, w.first, w.last, "any", NoMethod)
ReconcileName(w) == Name("reconcile", w, w.first, w.last, "any", NoMethod)

PlanNames(w) == IngestNames(w) \cup {StageName(w), ReconcileName(w)}

\* The three kinds of job, in the order they are run.
StagesOf(w) == <<IngestNames(w), {StageName(w)}, {ReconcileName(w)}>>

MutDependsOn(w, n) ==
  CASE n = StageName(w)     -> IngestNames(w)
    [] n = ReconcileName(w) -> {}
    [] OTHER                -> {}

MutDependsOnPrimary(w, n) ==
  CASE n = StageName(w)     -> {x \in IngestNames(w) : x.method \in {NoMethod, w.ibkrMethods[1]}}
    [] n = ReconcileName(w) -> {StageName(w)}
    [] OTHER                -> {}

\* depends_on_names of the job with name n in the plan of w.
DependsOn(w, n) ==
  CASE n = StageName(w)     -> IngestNames(w)
    [] n = ReconcileName(w) -> {StageName(w)}
    [] OTHER                -> {}

\* An option that repeats a provider, or an ibkr method, plans one name twice.
RepeatsAName(w) ==
  \/ ~ IsInjective(w.providers)
  \/ Ibkr \in Range(w.providers) /\ ~ IsInjective(w.ibkrMethods)
=============================================================================
