------------------------------ MODULE Dispatch ------------------------------
(***************************************************************************)
(* The quant_schedule database and the processes that use it: quant-       *)
(* schedule, which inserts whole work items, and quant-dispatch, which     *)
(* runs whatever is due as subprocesses, one after another.                *)
(*                                                                         *)
(* Each quant-dispatch process is one element of Dispatcher: idle between  *)
(* two invocations, then one database round trip or one subprocess event   *)
(* at a time.  With a single element the trigger never starts a second     *)
(* invocation while one runs; with two, it may.                            *)
(*                                                                         *)
(* Time is counted down: dueIn is next_run_at minus now, never below zero  *)
(* because fetch_due_jobs cannot tell one past moment from another.  The   *)
(* jobs of one fetch are run in any order, where the code orders them by   *)
(* next_run_at.                                                            *)
(***************************************************************************)
EXTENDS JobPlan, FiniteSets

CONSTANTS
  Dispatcher,   \* quant-dispatch processes that may run at the same time
  WorkItem,     \* the work items quant-schedule may be asked to create
  Recurring,    \* names of the jobs inserted by hand (run_once = false)
  Interval,     \* interval_seconds, in ticks
  Faults,       \* dispatchers may die, or fail on a jobs update
  MaxOrphans    \* bound: subprocesses of one job left behind at one time

ASSUME IntervalAssumption == Interval \in Nat \ {0}
ASSUME FaultsAssumption == Faults \in BOOLEAN
ASSUME MaxOrphansAssumption == MaxOrphans \in Nat
ASSUME RecurringAssumption ==
  \A w \in WorkItem : Recurring \cap PlanNames(w) = {}

VARIABLES
  created,    \* names of the rows of table jobs
  jobs,       \* jobs[j]: the columns dispatch reads and writes
  deps,       \* job_dependencies: deps[j] are the jobs j depends on
  disp,       \* disp[d]: where dispatcher d is in main and _run_job
  orphans,    \* orphans[j]: subprocesses of j whose dispatcher has died
  accepted,   \* history: the work items create_jobs committed
  done        \* history: jobs some subprocess of which exited with zero

vars == <<created, jobs, deps, disp, orphans, accepted, done>>

Job == Recurring \cup UNION {PlanNames(w) : w \in WorkItem}
Exit == {"zero", "nonzero"}

\* last_exit_code is NULL until the first result.
JobRow == [enabled : BOOLEAN, status : {"idle", "running"},
           exit : Exit \cup {"null"}, dueIn : 0 .. Interval]

\* What the INSERT leaves in a row: its column defaults, and next_run_at = now.
NewRow == [enabled |-> TRUE, status |-> "idle", exit |-> "null", dueIn |-> 0]

RunOnce(j) == j \notin Recurring

\* A dispatcher with no job in hand; between two invocations it remembers
\* nothing.
NoJob == [kind |-> "none", ticker |-> "none", first |-> 0, last |-> 0,
          provider |-> "any", method |-> NoMethod]
Holding(pc, queue) ==
  [pc |-> pc, queue |-> queue, job |-> NoJob, exit |-> "nonzero", age |-> 0]
Idle == Holding("idle", {})

DispatcherState ==
  [pc : {"idle", "mark", "launch", "wait", "record"}, queue : SUBSET Job,
   job : Job \cup {NoJob}, exit : Exit, age : 0 .. Interval]

At(d, pc) == disp[d].pc = pc

\* The live subprocesses of job j.
Waiting(j) == {d \in Dispatcher : At(d, "wait") /\ disp[d].job = j}
Processes(j) == Cardinality(Waiting(j)) + orphans[j]
Executing(j) == Waiting(j) # {} \/ orphans[j] > 0

-----------------------------------------------------------------------------
Init ==
  /\ created = Recurring
  /\ jobs = [j \in Job |-> NewRow]
  /\ deps = [j \in Job |-> {}]
  /\ disp = [d \in Dispatcher |-> Idle]
  /\ orphans = [j \in Job |-> 0]
  /\ accepted = {}
  /\ done = {}

\* create_jobs: one transaction, so a name that exists already (names are
\* UNIQUE, and finished work items stay in the table) or that the plan repeats
\* rolls the whole work item back.
CreateJobs(w) ==
  /\ PlanNames(w) \cap created = {}
  /\ ~ RepeatsAName(w)
  /\ created' = created \cup PlanNames(w)
  /\ deps' = [j \in Job |-> IF j \in PlanNames(w) THEN DependsOn(w, j) ELSE deps[j]]
  /\ accepted' = accepted \cup {w}
  /\ UNCHANGED <<jobs, disp, orphans, done>>

-----------------------------------------------------------------------------
(* One invocation of quant-dispatch.                                       *)

MutDueNoGate ==
  {j \in created : jobs[j].enabled /\ jobs[j].status = "idle" /\ jobs[j].dueIn = 0}

MutDueNoStatus ==
  {j \in created : /\ jobs[j].enabled
                   /\ jobs[j].dueIn = 0
                   /\ \A p \in deps[j] : jobs[p].exit = "zero"}

MutDueNoEnabled ==
  {j \in created : /\ jobs[j].status = "idle"
                   /\ jobs[j].dueIn = 0
                   /\ \A p \in deps[j] : jobs[p].exit = "zero"}

Due == {j \in created : /\ jobs[j].enabled
                        /\ jobs[j].status = "idle"
                        /\ jobs[j].dueIn = 0
                        /\ \A p \in deps[j] : jobs[p].exit = "zero"}

\* main up to the loop: one current_time and one fetch for all the jobs.  With
\* nothing due the invocation ends at once.
FetchDueJobs(d) ==
  /\ At(d, "idle")
  /\ Due # {}
  /\ disp' = [disp EXCEPT ![d] = Holding("mark", Due)]
  /\ UNCHANGED <<created, jobs, deps, orphans, accepted, done>>

\* mark_job_running: an UPDATE by job_id alone, whatever the row says by now.
MarkJobRunning(d) ==
  /\ At(d, "mark")
  /\ \E j \in disp[d].queue :
       /\ jobs' = [jobs EXCEPT ![j].status = "running"]
       /\ disp' = [disp EXCEPT ![d].pc = "launch", ![d].job = j,
                               ![d].queue = @ \ {j}]
  /\ UNCHANGED <<created, deps, orphans, accepted, done>>

Launch(d) ==
  /\ At(d, "launch")
  /\ disp' = [disp EXCEPT ![d].pc = "wait"]
  /\ UNCHANGED <<created, jobs, deps, orphans, accepted, done>>

\* OSError: the executable is not there.  Recorded as exit code -1.
LaunchFails(d) ==
  /\ At(d, "launch")
  /\ disp' = [disp EXCEPT ![d].pc = "record", ![d].exit = "nonzero"]
  /\ UNCHANGED <<created, jobs, deps, orphans, accepted, done>>

ProcessEnds(d, exit) ==
  /\ At(d, "wait")
  /\ disp' = [disp EXCEPT ![d].pc = "record", ![d].exit = exit]
  /\ done' = IF exit = "zero" THEN done \cup {disp[d].job} ELSE done
  /\ UNCHANGED <<created, jobs, deps, orphans, accepted>>

\* compute_next_run_at(current_time, interval), as a countdown from now; age is
\* how long ago current_time was, and counts no further than Interval.
NextDueIn(d) == Interval - disp[d].age

MutRecordJobResult(d) ==
  LET j == disp[d].job
      x == disp[d].exit
  IN  /\ At(d, "record")
      /\ jobs' = [jobs EXCEPT ![j] = [enabled |-> @.enabled /\ ~ RunOnce(j),
                                      status |-> "idle", exit |-> x,
                                      dueIn |-> NextDueIn(d)]]
      /\ disp' = [disp EXCEPT ![d] =
                    IF @.queue = {} THEN Idle
                    ELSE [@ EXCEPT !.pc = "mark", !.job = NoJob, !.exit = "nonzero"]]
      /\ UNCHANGED <<created, deps, orphans, accepted, done>>

MutRecordKeepsRunning(d) ==
  LET j == disp[d].job
      x == disp[d].exit
  IN  /\ At(d, "record")
      /\ jobs' = [jobs EXCEPT ![j] =
                    [enabled |-> @.enabled /\ ~ (x = "zero" /\ RunOnce(j)),
                     status |-> IF x = "zero" THEN "idle" ELSE "running",
                     exit |-> x, dueIn |-> NextDueIn(d)]]
      /\ disp' = [disp EXCEPT ![d] =
                    IF @.queue = {} THEN Idle
                    ELSE [@ EXCEPT !.pc = "mark", !.job = NoJob, !.exit = "nonzero"]]
      /\ UNCHANGED <<created, deps, orphans, accepted, done>>

\* record_job_result, and back to the loop.
RecordJobResult(d) ==
  LET j == disp[d].job
      x == disp[d].exit
  IN  /\ At(d, "record")
      /\ jobs' = [jobs EXCEPT ![j] =
                    [enabled |-> @.enabled /\ ~ (x = "zero" /\ RunOnce(j)),
                     status |-> "idle", exit |-> x, dueIn |-> NextDueIn(d)]]
      /\ disp' = [disp EXCEPT ![d] =
                    IF @.queue = {} THEN Idle
                    ELSE [@ EXCEPT !.pc = "mark", !.job = NoJob, !.exit = "nonzero"]]
      /\ UNCHANGED <<created, deps, orphans, accepted, done>>

\* The dispatcher dies, or mark_job_running or record_job_result raises
\* AppError, which leaves main and drops the jobs not yet run.  Nothing is
\* rolled back that was committed, and a running subprocess runs on.
Abort(d) ==
  /\ Faults
  /\ ~ At(d, "idle")
  /\ At(d, "wait") => orphans[disp[d].job] < MaxOrphans
  /\ disp' = [disp EXCEPT ![d] = Idle]
  /\ orphans' = IF At(d, "wait") THEN [orphans EXCEPT ![disp[d].job] = @ + 1]
                ELSE orphans
  /\ UNCHANGED <<created, jobs, deps, accepted, done>>

OrphanEnds(j, exit) ==
  /\ orphans[j] > 0
  /\ orphans' = [orphans EXCEPT ![j] = @ - 1]
  /\ done' = IF exit = "zero" THEN done \cup {j} ELSE done
  /\ UNCHANGED <<created, jobs, deps, disp, accepted>>

\* One tick of the clock, while anything can still tell the time.
Tick ==
  /\ \/ \E j \in created : jobs[j].dueIn > 0
     \/ \E d \in Dispatcher : ~ At(d, "idle") /\ disp[d].age < Interval
  /\ jobs' = [j \in Job |-> [jobs[j] EXCEPT !.dueIn = IF @ = 0 THEN 0 ELSE @ - 1]]
  /\ disp' = [d \in Dispatcher |->
                IF At(d, "idle") THEN disp[d]
                ELSE [disp[d] EXCEPT !.age = IF @ = Interval THEN @ ELSE @ + 1]]
  /\ UNCHANGED <<created, deps, orphans, accepted, done>>

Next ==
  \/ \E w \in WorkItem : CreateJobs(w)
  \/ \E d \in Dispatcher :
       \/ FetchDueJobs(d)
       \/ MarkJobRunning(d)
       \/ Launch(d)
       \/ LaunchFails(d)
       \/ \E exit \in Exit : ProcessEnds(d, exit)
       \/ RecordJobResult(d)
       \/ Abort(d)
  \/ \E j \in Job, exit \in Exit : OrphanEnds(j, exit)
  \/ Tick

Spec == Init /\ [][Next]_vars

-----------------------------------------------------------------------------
(* The external trigger keeps invoking quant-dispatch, an invocation keeps *)
(* going, and no job fails, or fails to launch, every time it is tried.    *)
Fairness ==
  /\ WF_vars(Tick)
  /\ \A d \in Dispatcher :
       /\ WF_vars(FetchDueJobs(d))
       /\ WF_vars(MarkJobRunning(d))
       /\ WF_vars(Launch(d) \/ LaunchFails(d))
       /\ WF_vars(\E exit \in Exit : ProcessEnds(d, exit))
       /\ WF_vars(RecordJobResult(d))
  /\ \A j \in Job :
       /\ SF_vars(\E d \in Dispatcher : disp[d].job = j /\ Launch(d))
       /\ SF_vars(\E d \in Dispatcher : disp[d].job = j /\ ProcessEnds(d, "zero"))

FairSpec == Spec /\ Fairness
-----------------------------------------------------------------------------
(* Properties.                                                             *)

\* Every variable has the shape its table or process gives it.
TypeOK ==
  /\ created \in SUBSET Job
  /\ jobs \in [Job -> JobRow]
  /\ deps \in [Job -> SUBSET Job]
  /\ disp \in [Dispatcher -> DispatcherState]
  /\ orphans \in [Job -> Nat]
  /\ accepted \in SUBSET WorkItem
  /\ done \in SUBSET Job

\* A staging or reconcile subprocess runs only after everything before it in
\* its work item has succeeded: the gate is looked at when a job is fetched,
\* long before it runs, and a dependency may have failed again since.
StagesInOrder ==
  \A w \in accepted :
    /\ Executing(StageName(w)) => IngestNames(w) \subseteq done
    /\ Executing(ReconcileName(w)) => IngestNames(w) \cup {StageName(w)} \subseteq done

\* fetch_due_jobs: "a dispatcher run overlapping a still-running prior one
\* skips it instead of double-dispatching".
NeverTwiceAtOnce == \A j \in Job : Processes(j) <= 1

\* Migration 002, run_once: "a failure still reschedules/retries normally".
\* A job whose last result is a failure must still be enabled.
FailureIsRetried ==
  \A j \in created :
    jobs[j].status = "idle" /\ jobs[j].exit = "nonzero" => jobs[j].enabled

\* A job is disabled only once it has really succeeded, whoever overlaps or dies.
DisabledOnlyAfterSuccess == \A j \in created : ~ jobs[j].enabled => j \in done

\* No subprocess of a run_once job is started once one has succeeded, even
\* when its dispatcher died before it recorded the success.
NoRerunAfterSuccess ==
  [][\A j \in Job : RunOnce(j) /\ j \in done => Processes(j)' <= Processes(j)]_vars

\* All of the above about the processes of run_once jobs at once, from the first
\* process of a work item to the last: what quant-ingest, quant-stage and
\* quant-reconcile may take for granted.  It needs invocations that do not overlap.
Runs == INSTANCE JobRuns
          WITH Stages <- [w \in WorkItem |-> StagesOf(w)],
               running <- {j \in Job \ Recurring : Executing(j)},
               finished <- done \ Recurring

ImplementsJobRuns == Runs!Spec

\* A work item that was accepted is finished: its reconcile job succeeds, and
\* by then every other job of it has.
WorkItemsFinish ==
  \A w \in WorkItem : w \in accepted ~> PlanNames(w) \subseteq done

\* ARCHITECTURE.md on dispatch: a failed job is "retried on schedule rather
\* than stuck 'running' forever".  A process that is waited for ends, and its
\* result makes the row idle; a dispatcher that dies leaves it 'running'.
NeverStuckRunning ==
  \A j \in Job : jobs[j].status = "running" ~> jobs[j].status = "idle"

-----------------------------------------------------------------------------
(* The inductive invariants behind the safety properties.                  *)

InHand(d) == IF disp[d].pc \in {"launch", "wait", "record"} THEN {disp[d].job} ELSE {}

\* The rows are those of whole work items: what create_jobs commits at once stays.
WholeWorkItems ==
  /\ created = Recurring \cup UNION {PlanNames(w) : w \in accepted}
  /\ \A v, w \in accepted : v # w => PlanNames(v) \cap PlanNames(w) = {}
  /\ \A w \in accepted : \A j \in PlanNames(w) : deps[j] = DependsOn(w, j)

\* What is recorded as a success was one, and every job that was fetched, runs
\* or has succeeded had its dependencies succeed first.  True however many
\* dispatchers overlap and whenever they die.
GateInv ==
  /\ TypeOK
  /\ WholeWorkItems
  /\ \A j \in Job : jobs[j].exit = "zero" => j \in done
  /\ \A d \in Dispatcher :
       /\ At(d, "record") /\ disp[d].exit = "zero" => disp[d].job \in done
       /\ \A j \in disp[d].queue \cup InHand(d) : j \in created /\ deps[j] \subseteq done
  /\ \A j \in Job : orphans[j] > 0 => j \in created /\ deps[j] \subseteq done
  /\ \A j \in done : j \in created /\ deps[j] \subseteq done

\* What one dispatcher at a time maintains: the status column tells the truth
\* about every job, but for the ones left 'running' by a dispatcher that died.
SerialInv ==
  /\ \A d \in Dispatcher :
       /\ \A j \in disp[d].queue : jobs[j].status = "idle" /\ jobs[j].enabled
       /\ \A j \in InHand(d) :
            /\ jobs[j].status = "running" /\ jobs[j].enabled
            /\ orphans[j] = 0
            /\ RunOnce(j) /\ j \in done => At(d, "record") /\ disp[d].exit = "zero"
  /\ \A j \in Job :
       /\ orphans[j] \in {0, 1}
       /\ orphans[j] = 1 => jobs[j].status = "running"
       /\ RunOnce(j) /\ j \in done => jobs[j].status = "running" \/ ~ jobs[j].enabled
       /\ ~ jobs[j].enabled => jobs[j].exit = "zero"
=============================================================================
