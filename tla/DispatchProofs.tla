--------------------------- MODULE DispatchProofs ---------------------------
(***************************************************************************)
(* Proofs about Dispatch, for every set of dispatchers, work items and     *)
(* recurring jobs, and any interval.                                       *)
(***************************************************************************)
EXTENDS Dispatch, TLAPS, FiniteSetTheorems

-----------------------------------------------------------------------------
(* The plan of a work item.                                                *)

\* Names of different kinds differ, so each job of a plan has one place in it.
LEMMA PlanShape ==
  ASSUME NEW w
  PROVE  /\ StageName(w) # ReconcileName(w)
         /\ StageName(w) \notin IngestNames(w)
         /\ ReconcileName(w) \notin IngestNames(w)
         /\ IngestNames(w) \subseteq PlanNames(w)
         /\ StageName(w) \in PlanNames(w) /\ ReconcileName(w) \in PlanNames(w)
  <1>1. StageName(w).kind = "stage" /\ ReconcileName(w).kind = "reconcile"
    BY DEF StageName, ReconcileName, Name
  <1>2. \A n \in IngestNames(w) : n.kind = "ingest"
    BY DEF IngestNames, Name
  <1> QED BY <1>1, <1>2 DEF PlanNames

LEMMA PlanDependencies ==
  ASSUME NEW w
  PROVE  /\ DependsOn(w, StageName(w)) = IngestNames(w)
         /\ DependsOn(w, ReconcileName(w)) = {StageName(w)}
         /\ \A n : DependsOn(w, n) \subseteq PlanNames(w)
  <1>1. DependsOn(w, StageName(w)) = IngestNames(w)
    BY PlanShape DEF DependsOn
  <1>2. DependsOn(w, ReconcileName(w)) = {StageName(w)}
    BY PlanShape DEF DependsOn
  <1>3. ASSUME NEW n PROVE DependsOn(w, n) \subseteq PlanNames(w)
    <2>1. CASE n = StageName(w)
      BY <1>1, <2>1, PlanShape
    <2>2. CASE n = ReconcileName(w)
      BY <1>2, <2>2, PlanShape
    <2>3. CASE n # StageName(w) /\ n # ReconcileName(w)
      BY <2>3 DEF DependsOn
    <2> QED BY <2>1, <2>2, <2>3
  <1> QED BY <1>1, <1>2, <1>3

-----------------------------------------------------------------------------
(* The gate invariant: no assumption on how many dispatchers overlap.      *)

LEMMA GateInit == Init => GateInv
  <1> SUFFICES ASSUME Init PROVE GateInv
    OBVIOUS
  <1>1. NewRow \in JobRow
    BY IntervalAssumption DEF NewRow, JobRow
  <1>2. Idle \in DispatcherState
    BY IntervalAssumption DEF Idle, Holding, DispatcherState, Exit
  <1>3. TypeOK
    BY <1>1, <1>2 DEF Init, TypeOK, Job
  <1>4. WholeWorkItems
    BY DEF Init, WholeWorkItems
  <1>5. \A d \in Dispatcher : disp[d].queue = {} /\ InHand(d) = {} /\ ~ At(d, "record")
    BY DEF Init, Idle, Holding, InHand, At
  <1>6. \A j \in Job : jobs[j].exit = "null" /\ ~ (orphans[j] > 0)
    BY DEF Init, NewRow
  <1> QED BY <1>3, <1>4, <1>5, <1>6 DEF Init, GateInv

LEMMA CreateJobsGate ==
  ASSUME GateInv, NEW w \in WorkItem, CreateJobs(w)
  PROVE  GateInv'
  <1> USE DEF GateInv
  <1>1. /\ PlanNames(w) \cap created = {}
        /\ created' = created \cup PlanNames(w)
        /\ deps' = [j \in Job |-> IF j \in PlanNames(w) THEN DependsOn(w, j) ELSE deps[j]]
        /\ accepted' = accepted \cup {w}
        /\ UNCHANGED <<jobs, disp, orphans, done>>
    BY DEF CreateJobs
  <1>2. PlanNames(w) \subseteq Job
    BY DEF Job
  <1>3. created \subseteq Job /\ deps \in [Job -> SUBSET Job]
    BY DEF TypeOK
  <1>4. \A j \in created : deps'[j] = deps[j] /\ j \in created'
    BY <1>1, <1>3
  <1>5. TypeOK'
    <2>1. deps' \in [Job -> SUBSET Job]
      BY <1>1, <1>2, <1>3, PlanDependencies
    <2> QED BY <1>1, <1>2, <2>1 DEF TypeOK
  <1>6. WholeWorkItems'
    <2>1. created = Recurring \cup UNION {PlanNames(v) : v \in accepted}
      BY DEF WholeWorkItems
    <2>2. created' = Recurring \cup UNION {PlanNames(v) : v \in accepted'}
      BY <1>1, <2>1
    <2>3. \A v \in accepted : PlanNames(v) \subseteq created
      BY <2>1
    <2>4. \A u, v \in accepted' : u # v => PlanNames(u) \cap PlanNames(v) = {}
      BY <1>1, <2>3 DEF WholeWorkItems
    <2>5. \A v \in accepted' : \A j \in PlanNames(v) : deps'[j] = DependsOn(v, j)
      BY <1>1, <1>2, <1>4, <2>3 DEF WholeWorkItems
    <2> QED BY <2>2, <2>4, <2>5 DEF WholeWorkItems
  <1>7. \A d \in Dispatcher :
          /\ At(d, "record")' <=> At(d, "record")
          /\ InHand(d)' = InHand(d)
    BY <1>1 DEF At, InHand
  <1> QED BY <1>1, <1>4, <1>5, <1>6, <1>7

\* The steps of one dispatcher that change nothing but the dispatcher and the
\* row of a job, and hand it no job it had not fetched.
LEMMA DispatcherStepGate ==
  ASSUME GateInv, NEW d \in Dispatcher, NEW s \in DispatcherState,
         disp' = [disp EXCEPT ![d] = s],
         s.queue \cup (IF s.pc \in {"launch", "wait", "record"} THEN {s.job} ELSE {})
           \subseteq {j \in created : deps[j] \subseteq done},
         s.pc = "record" /\ s.exit = "zero" => s.job \in done',
         jobs' \in [Job -> JobRow],
         \A j \in Job : jobs'[j].exit = "zero" => j \in done,
         done' \in {done, done \cup {disp[d].job}},
         done' # done => disp[d].job \in InHand(d),
         UNCHANGED <<created, deps, orphans, accepted>>
  PROVE  GateInv'
  <1> USE DEF GateInv
  <1>1. disp \in [Dispatcher -> DispatcherState] /\ created \subseteq Job /\ done \subseteq Job
    BY DEF TypeOK
  <1>2. disp'[d] = s /\ \A e \in Dispatcher \ {d} : disp'[e] = disp[e]
    BY <1>1
  <1>3. \A j \in done' : j \in created /\ deps[j] \subseteq done
    OBVIOUS
  <1>4. TypeOK'
    BY <1>1, <1>3 DEF TypeOK
  <1>5. WholeWorkItems'
    BY DEF WholeWorkItems
  <1>6. ASSUME NEW e \in Dispatcher
        PROVE  /\ (At(e, "record") /\ disp[e].exit = "zero" => disp[e].job \in done)'
               /\ \A j \in (disp[e].queue \cup InHand(e))' : j \in created /\ deps[j] \subseteq done
    <2>1. CASE e = d
      BY <1>2, <2>1 DEF At, InHand
    <2>2. CASE e # d
      BY <1>2, <2>2 DEF At, InHand
    <2> QED BY <2>1, <2>2
  <1> QED BY <1>3, <1>4, <1>5, <1>6

\* Each step of one dispatcher is such a step.
LEMMA DispatcherGate ==
  ASSUME GateInv, NEW d \in Dispatcher,
         \/ FetchDueJobs(d) \/ MarkJobRunning(d) \/ Launch(d) \/ LaunchFails(d)
         \/ \E exit \in Exit : ProcessEnds(d, exit)
         \/ RecordJobResult(d)
  PROVE  GateInv'
  <1> DEFINE t == disp[d]
             Ready == {j \in created : deps[j] \subseteq done}
  <1>1. /\ t \in DispatcherState
        /\ jobs \in [Job -> JobRow] /\ deps \in [Job -> SUBSET Job]
        /\ created \subseteq Job
        /\ t.queue \cup InHand(d) \subseteq Ready
        /\ \A j \in Job : jobs[j].exit = "zero" => j \in done
    BY DEF GateInv, TypeOK
  <1>2. CASE FetchDueJobs(d)
    <2> DEFINE s == Holding("mark", Due)
    <2>1. Due \subseteq Ready
      BY <1>1 DEF Due
    <2>2. Due \subseteq Job
      BY <1>1 DEF Due
    <2>3. s \in DispatcherState /\ s.queue = Due /\ s.pc = "mark"
      BY <2>2, IntervalAssumption DEF Holding, DispatcherState, Exit
    <2>4. /\ disp' = [disp EXCEPT ![d] = s]
          /\ UNCHANGED <<created, jobs, deps, orphans, accepted, done>>
      BY <1>2 DEF FetchDueJobs
    <2> HIDE DEF s
    <2> QED BY <1>1, <2>1, <2>3, <2>4, DispatcherStepGate
  <1>3. CASE MarkJobRunning(d)
    <2>1. PICK j \in t.queue :
            /\ jobs' = [jobs EXCEPT ![j].status = "running"]
            /\ disp' = [disp EXCEPT ![d].pc = "launch", ![d].job = j, ![d].queue = @ \ {j}]
      BY <1>3 DEF MarkJobRunning
    <2> DEFINE s == [t EXCEPT !.pc = "launch", !.job = j, !.queue = @ \ {j}]
    <2>2. j \in Job
      BY <1>1
    <2>3. /\ s \in DispatcherState /\ s.queue = t.queue \ {j}
          /\ s.pc = "launch" /\ s.job = j
      BY <1>1, <2>2 DEF DispatcherState
    <2>4. disp' = [disp EXCEPT ![d] = s]
      BY <2>1
    <2>5. jobs' \in [Job -> JobRow] /\ \A i \in Job : jobs'[i].exit = jobs[i].exit
      BY <1>1, <2>1 DEF JobRow
    <2>6. UNCHANGED <<created, deps, orphans, accepted, done>>
      BY <1>3 DEF MarkJobRunning
    <2> HIDE DEF s
    <2> QED BY <1>1, <2>3, <2>4, <2>5, <2>6, DispatcherStepGate
  <1>4. CASE Launch(d)
    <2> DEFINE s == [t EXCEPT !.pc = "wait"]
    <2>1. /\ s \in DispatcherState /\ s.queue = t.queue /\ s.pc = "wait"
          /\ {s.job} = InHand(d)
      BY <1>1, <1>4 DEF DispatcherState, Launch, At, InHand
    <2>2. /\ disp' = [disp EXCEPT ![d] = s]
          /\ UNCHANGED <<created, jobs, deps, orphans, accepted, done>>
      BY <1>4 DEF Launch
    <2> HIDE DEF s
    <2> QED BY <1>1, <2>1, <2>2, DispatcherStepGate
  <1>5. CASE LaunchFails(d)
    <2> DEFINE s == [t EXCEPT !.pc = "record", !.exit = "nonzero"]
    <2>1. /\ s \in DispatcherState /\ s.queue = t.queue /\ s.pc = "record"
          /\ s.exit = "nonzero" /\ {s.job} = InHand(d)
      BY <1>1, <1>5 DEF DispatcherState, Exit, LaunchFails, At, InHand
    <2>2. /\ disp' = [disp EXCEPT ![d] = s]
          /\ UNCHANGED <<created, jobs, deps, orphans, accepted, done>>
      BY <1>5 DEF LaunchFails
    <2> HIDE DEF s
    <2> QED BY <1>1, <2>1, <2>2, DispatcherStepGate
  <1>6. ASSUME NEW exit \in Exit, ProcessEnds(d, exit)
        PROVE  GateInv'
    <2> DEFINE s == [t EXCEPT !.pc = "record", !.exit = exit]
    <2>1. /\ s \in DispatcherState /\ s.queue = t.queue /\ s.pc = "record"
          /\ s.exit = exit /\ s.job = t.job /\ {t.job} = InHand(d)
      BY <1>1, <1>6 DEF DispatcherState, ProcessEnds, At, InHand
    <2>2. /\ disp' = [disp EXCEPT ![d] = s]
          /\ done' = IF exit = "zero" THEN done \cup {t.job} ELSE done
          /\ UNCHANGED <<created, jobs, deps, orphans, accepted>>
      BY <1>6 DEF ProcessEnds
    <2> HIDE DEF s
    <2> QED BY <1>1, <2>1, <2>2, DispatcherStepGate
  <1>7. CASE RecordJobResult(d)
    <2> DEFINE s == IF t.queue = {} THEN Idle
                    ELSE [t EXCEPT !.pc = "mark", !.job = NoJob, !.exit = "nonzero"]
               row == [enabled |-> jobs[t.job].enabled /\ ~ (t.exit = "zero" /\ RunOnce(t.job)),
                       status |-> "idle", exit |-> t.exit, dueIn |-> NextDueIn(d)]
    <2>1. /\ s \in DispatcherState /\ s.queue = t.queue
          /\ s.pc \in {"idle", "mark"}
      <3>1. CASE t.queue = {}
        BY <3>1, IntervalAssumption DEF DispatcherState, Idle, Holding, Exit
      <3>2. CASE t.queue # {}
        BY <1>1, <3>2 DEF DispatcherState, Exit
      <3> QED BY <3>1, <3>2
    <2>2. t.job \in Job
      BY <1>1, <1>7 DEF RecordJobResult, At, InHand
    <2>3. NextDueIn(d) \in 0 .. Interval
      BY <1>1, IntervalAssumption DEF NextDueIn, DispatcherState
    <2>4. /\ disp' = [disp EXCEPT ![d] = s]
          /\ jobs' = [jobs EXCEPT ![t.job] = row]
          /\ UNCHANGED <<created, deps, orphans, accepted, done>>
      BY <1>7 DEF RecordJobResult
    <2>5. row \in JobRow /\ row.exit = t.exit
      BY <1>1, <2>2, <2>3 DEF JobRow, DispatcherState
    <2>6. t.exit = "zero" => t.job \in done
      BY <1>7 DEF GateInv, RecordJobResult
    <2> HIDE DEF row
    <2>7. /\ jobs' \in [Job -> JobRow]
          /\ \A j \in Job : jobs'[j].exit = "zero" => j \in done
      BY <1>1, <2>4, <2>5, <2>6
    <2> HIDE DEF s
    <2> QED BY <1>1, <2>1, <2>4, <2>7, DispatcherStepGate
  <1> QED BY <1>2, <1>3, <1>4, <1>5, <1>6, <1>7

LEMMA AbortGate ==
  ASSUME GateInv, NEW d \in Dispatcher, Abort(d)
  PROVE  GateInv'
  <1> USE DEF GateInv
  <1>1. /\ disp \in [Dispatcher -> DispatcherState] /\ orphans \in [Job -> Nat]
        /\ created \subseteq Job
        /\ disp' = [disp EXCEPT ![d] = Idle]
        /\ orphans' = IF At(d, "wait") THEN [orphans EXCEPT ![disp[d].job] = @ + 1]
                      ELSE orphans
        /\ UNCHANGED <<created, jobs, deps, accepted, done>>
    BY DEF TypeOK, Abort
  <1>2. Idle \in DispatcherState /\ Idle.queue = {} /\ Idle.pc = "idle"
    BY IntervalAssumption DEF Idle, Holding, DispatcherState, Exit
  <1>3. disp'[d] = Idle /\ \A e \in Dispatcher \ {d} : disp'[e] = disp[e]
    BY <1>1
  <1>4. /\ orphans' \in [Job -> Nat]
        /\ \A j \in Job : orphans'[j] > 0 => orphans[j] > 0 \/ j \in InHand(d)
    BY <1>1 DEF At, InHand
  <1>5. TypeOK'
    BY <1>1, <1>2, <1>4 DEF TypeOK
  <1>6. WholeWorkItems'
    BY <1>1 DEF WholeWorkItems
  <1>7. ASSUME NEW e \in Dispatcher
        PROVE  /\ (At(e, "record") /\ disp[e].exit = "zero" => disp[e].job \in done)'
               /\ \A j \in (disp[e].queue \cup InHand(e))' : j \in created /\ deps[j] \subseteq done
    <2>1. CASE e = d
      BY <1>2, <1>3, <2>1 DEF At, InHand
    <2>2. CASE e # d
      BY <1>1, <1>3, <2>2 DEF At, InHand
    <2> QED BY <2>1, <2>2
  <1> QED BY <1>1, <1>4, <1>5, <1>6, <1>7

LEMMA OrphanEndsGate ==
  ASSUME GateInv, NEW j \in Job, NEW exit \in Exit, OrphanEnds(j, exit)
  PROVE  GateInv'
  <1> USE DEF GateInv
  <1>1. /\ orphans[j] > 0 /\ orphans \in [Job -> Nat] /\ done \subseteq Job
        /\ orphans' = [orphans EXCEPT ![j] = @ - 1]
        /\ done' = IF exit = "zero" THEN done \cup {j} ELSE done
        /\ UNCHANGED <<created, jobs, deps, disp, accepted>>
    BY DEF TypeOK, OrphanEnds
  <1>2. orphans' \in [Job -> Nat] /\ \A i \in Job : orphans'[i] > 0 => orphans[i] > 0
    BY <1>1
  <1>3. TypeOK'
    BY <1>1, <1>2 DEF TypeOK
  <1>4. WholeWorkItems'
    BY <1>1 DEF WholeWorkItems
  <1>5. \A d \in Dispatcher : (At(d, "record")' <=> At(d, "record")) /\ InHand(d)' = InHand(d)
    BY <1>1 DEF At, InHand
  <1> QED BY <1>1, <1>2, <1>3, <1>4, <1>5

\* A tick moves dueIn and age only.
LEMMA TickGate ==
  ASSUME GateInv, Tick \/ UNCHANGED vars
  PROVE  GateInv'
  <1> USE DEF GateInv
  <1>1. /\ disp \in [Dispatcher -> DispatcherState] /\ jobs \in [Job -> JobRow]
        /\ Interval \in Nat \ {0}
    BY IntervalAssumption DEF TypeOK
  <1>2. UNCHANGED <<created, deps, orphans, accepted, done>>
    BY DEF Tick, vars
  <1>3. /\ jobs' \in [Job -> JobRow]
        /\ \A j \in Job : jobs'[j].exit = jobs[j].exit
    <2>1. CASE Tick
      <3>1. jobs' = [j \in Job |-> [jobs[j] EXCEPT !.dueIn = IF @ = 0 THEN 0 ELSE @ - 1]]
        BY <2>1 DEF Tick
      <3>2. ASSUME NEW j \in Job
            PROVE  jobs'[j] \in JobRow /\ jobs'[j].exit = jobs[j].exit
        BY <1>1, <3>1 DEF JobRow
      <3> QED BY <3>1, <3>2
    <2>2. CASE UNCHANGED vars
      BY <1>1, <2>2 DEF vars
    <2> QED BY <2>1, <2>2
  <1>4. /\ disp' \in [Dispatcher -> DispatcherState]
        /\ \A d \in Dispatcher :
             /\ disp'[d].pc = disp[d].pc /\ disp'[d].queue = disp[d].queue
             /\ disp'[d].job = disp[d].job /\ disp'[d].exit = disp[d].exit
    <2>1. CASE Tick
      <3>1. disp' = [d \in Dispatcher |->
                      IF At(d, "idle") THEN disp[d]
                      ELSE [disp[d] EXCEPT !.age = IF @ = Interval THEN @ ELSE @ + 1]]
        BY <2>1 DEF Tick
      <3>2. ASSUME NEW d \in Dispatcher
            PROVE  /\ disp'[d] \in DispatcherState
                   /\ disp'[d].pc = disp[d].pc /\ disp'[d].queue = disp[d].queue
                   /\ disp'[d].job = disp[d].job /\ disp'[d].exit = disp[d].exit
        <4>1. disp[d] \in DispatcherState
          BY <1>1
        <4>2. CASE At(d, "idle")
          BY <3>1, <4>1, <4>2
        <4>3. CASE ~ At(d, "idle")
          BY <1>1, <3>1, <4>1, <4>3 DEF DispatcherState
        <4> QED BY <4>2, <4>3
      <3> QED BY <3>1, <3>2
    <2>2. CASE UNCHANGED vars
      BY <1>1, <2>2 DEF vars
    <2> QED BY <2>1, <2>2
  <1>5. TypeOK'
    BY <1>2, <1>3, <1>4 DEF TypeOK
  <1>6. WholeWorkItems'
    BY <1>2 DEF WholeWorkItems
  <1>7. \A d \in Dispatcher : (At(d, "record")' <=> At(d, "record")) /\ InHand(d)' = InHand(d)
    BY <1>4 DEF At, InHand
  <1> QED BY <1>2, <1>3, <1>4, <1>5, <1>6, <1>7

LEMMA NextGate == GateInv /\ [Next]_vars => GateInv'
  BY CreateJobsGate, DispatcherGate, AbortGate, OrphanEndsGate, TickGate DEF Next

(* However many dispatchers overlap and whenever they die, no staging or   *)
(* reconcile subprocess runs before everything ahead of it in its work     *)
(* item has succeeded, and work items are created whole.                   *)
THEOREM GateInvariant == Spec => []GateInv
  BY GateInit, NextGate, PTL DEF Spec

THEOREM StagesRunInOrder == Spec => []StagesInOrder
  <1>1. GateInv => StagesInOrder
    <2> SUFFICES ASSUME GateInv, NEW w \in accepted
                 PROVE  /\ Executing(StageName(w)) => IngestNames(w) \subseteq done
                        /\ Executing(ReconcileName(w)) =>
                             IngestNames(w) \cup {StageName(w)} \subseteq done
      BY DEF StagesInOrder
    <2>1. w \in WorkItem /\ PlanNames(w) \subseteq Job
      BY DEF GateInv, TypeOK, Job
    <2>2. ASSUME NEW j \in Job, Executing(j)
          PROVE  deps[j] \subseteq done
      <3>1. CASE Waiting(j) # {}
        BY <3>1 DEF GateInv, Waiting, At, InHand
      <3>2. CASE orphans[j] > 0
        BY <3>2 DEF GateInv
      <3> QED BY <2>2, <3>1, <3>2 DEF Executing
    <2>3. /\ deps[StageName(w)] = IngestNames(w)
          /\ deps[ReconcileName(w)] = {StageName(w)}
      BY PlanDependencies, PlanShape DEF GateInv, WholeWorkItems
    <2>4. StageName(w) \in done => IngestNames(w) \subseteq done
      BY <2>3 DEF GateInv
    <2> QED BY <2>1, <2>2, <2>3, <2>4, PlanShape
  <1> QED BY GateInvariant, <1>1, PTL

\* The same for every row there may ever be.
DisabledHaveSucceeded == \A j \in Job : ~ jobs[j].enabled => j \in done

LEMMA DisabledStep ==
  GateInv /\ DisabledHaveSucceeded /\ [Next]_vars => DisabledHaveSucceeded'
  <1> SUFFICES ASSUME GateInv, DisabledHaveSucceeded, [Next]_vars,
                      NEW j \in Job, ~ jobs'[j].enabled
               PROVE  j \in done'
    BY DEF DisabledHaveSucceeded
  <1>1. /\ jobs \in [Job -> JobRow]
        /\ ~ jobs[j].enabled => j \in done
        /\ \A d \in Dispatcher : At(d, "record") /\ disp[d].exit = "zero" => disp[d].job \in done
    BY DEF GateInv, TypeOK, DisabledHaveSucceeded
  <1>2. done \subseteq done'
    BY DEF Next, CreateJobs, FetchDueJobs, MarkJobRunning, Launch, LaunchFails, ProcessEnds,
           RecordJobResult, Abort, OrphanEnds, Tick, vars
  <1>3. CASE \E d \in Dispatcher : RecordJobResult(d)
    <2>1. PICK d \in Dispatcher : RecordJobResult(d)
      BY <1>3
    <2> DEFINE i == disp[d].job
               row == [enabled |-> jobs[i].enabled /\ ~ (disp[d].exit = "zero" /\ RunOnce(i)),
                       status |-> "idle", exit |-> disp[d].exit, dueIn |-> NextDueIn(d)]
    <2>2. jobs' = [jobs EXCEPT ![i] = row] /\ At(d, "record")
      BY <2>1 DEF RecordJobResult
    <2>3. CASE j = i
      <3>1. jobs'[j] = row
        BY <1>1, <2>2, <2>3
      <3>2. ~ jobs[j].enabled \/ disp[d].exit = "zero"
        <4>1. row.enabled <=> (jobs[i].enabled /\ ~ (disp[d].exit = "zero" /\ RunOnce(i)))
          BY Zenon
        <4> HIDE DEF row
        <4> QED BY <2>3, <3>1, <4>1, Zenon
      <3> HIDE DEF row
      <3> QED BY <1>1, <1>2, <2>2, <2>3, <3>2
    <2>4. CASE j # i
      <3>1. jobs'[j] = jobs[j]
        BY <1>1, <2>2, <2>4
      <3> QED BY <1>1, <1>2, <3>1
    <2> QED BY <2>3, <2>4
  <1>4. CASE \E d \in Dispatcher : MarkJobRunning(d)
    <2>1. jobs'[j].enabled = jobs[j].enabled
      BY <1>1, <1>4 DEF MarkJobRunning, JobRow
    <2> QED BY <1>1, <1>2, <2>1
  <1>5. CASE Tick
    <2>1. jobs'[j] = [jobs[j] EXCEPT !.dueIn = IF @ = 0 THEN 0 ELSE @ - 1]
      BY <1>5 DEF Tick
    <2>2. jobs'[j].enabled = jobs[j].enabled
      BY <1>1, <2>1 DEF JobRow
    <2> QED BY <1>1, <1>2, <2>2
  <1>6. CASE UNCHANGED jobs
    BY <1>1, <1>2, <1>6
  <1> QED BY <1>3, <1>4, <1>5, <1>6
          DEF Next, CreateJobs, FetchDueJobs, Launch, LaunchFails, ProcessEnds, Abort,
              OrphanEnds, vars

\* However many dispatchers overlap and whenever they die, a job is disabled
\* only once one of its subprocesses has succeeded.
THEOREM DisabledHadSucceeded == Spec => []DisabledOnlyAfterSuccess
  <1>1. Init => DisabledHaveSucceeded
    BY DEF Init, NewRow, DisabledHaveSucceeded
  <1>2. GateInv /\ DisabledHaveSucceeded => DisabledOnlyAfterSuccess
    BY DEF GateInv, TypeOK, DisabledHaveSucceeded, DisabledOnlyAfterSuccess
  <1> QED BY GateInvariant, DisabledStep, <1>1, <1>2, PTL DEF Spec

-----------------------------------------------------------------------------
(* One dispatcher at a time: a trigger that never starts a second          *)
(* invocation while one runs.  It may still die at any step.               *)
OneAtATime == \A d, e \in Dispatcher : d = e

LEMMA SerialInit == Init => SerialInv
  BY DEF Init, SerialInv, Idle, Holding, InHand, NewRow

\* Every step of the one dispatcher.
LEMMA SerialDispatcher ==
  ASSUME OneAtATime, GateInv, SerialInv, NEW d \in Dispatcher,
         \/ FetchDueJobs(d) \/ MarkJobRunning(d) \/ Launch(d) \/ LaunchFails(d)
         \/ \E exit \in Exit : ProcessEnds(d, exit)
         \/ RecordJobResult(d) \/ Abort(d)
  PROVE  SerialInv'
  <1> DEFINE t == disp[d]
             j == t.job
  <1>1. /\ disp \in [Dispatcher -> DispatcherState] /\ t \in DispatcherState
        /\ jobs \in [Job -> JobRow] /\ created \subseteq Job
        /\ orphans \in [Job -> Nat] /\ done \subseteq Job
        /\ t.queue \subseteq Job /\ InHand(d) \subseteq Job
    BY DEF GateInv, TypeOK
  <1>2. \A e \in Dispatcher : e = d
    BY DEF OneAtATime
  <1>3. /\ \A i \in t.queue : jobs[i].status = "idle" /\ jobs[i].enabled
        /\ \A i \in InHand(d) :
             /\ jobs[i].status = "running" /\ jobs[i].enabled
             /\ orphans[i] = 0
             /\ RunOnce(i) /\ i \in done => t.pc = "record" /\ t.exit = "zero"
    BY DEF SerialInv, At
  <1>4. \A i \in Job :
          /\ orphans[i] \in {0, 1}
          /\ orphans[i] = 1 => jobs[i].status = "running"
          /\ RunOnce(i) /\ i \in done => jobs[i].status = "running" \/ ~ jobs[i].enabled
          /\ ~ jobs[i].enabled => jobs[i].exit = "zero"
    BY DEF SerialInv
  <1>5. CASE FetchDueJobs(d)
    <2>1. /\ disp'[d] = Holding("mark", Due)
          /\ UNCHANGED <<created, jobs, deps, orphans, accepted, done>>
      BY <1>1, <1>5 DEF FetchDueJobs
    <2>2. \A i \in Due : jobs[i].status = "idle" /\ jobs[i].enabled
      BY DEF Due
    <2>3. disp'[d].queue = Due /\ InHand(d)' = {}
      BY <2>1 DEF InHand, Holding
    <2> QED BY <1>2, <1>4, <2>1, <2>2, <2>3 DEF SerialInv
  <1>6. CASE MarkJobRunning(d)
    <2>1. PICK m \in t.queue :
            /\ jobs' = [jobs EXCEPT ![m].status = "running"]
            /\ disp' = [disp EXCEPT ![d].pc = "launch", ![d].job = m, ![d].queue = @ \ {m}]
      BY <1>6 DEF MarkJobRunning
    <2>2. UNCHANGED <<orphans, done>>
      BY <1>6 DEF MarkJobRunning
    <2>3. InHand(d)' = {m} /\ disp'[d].queue = t.queue \ {m}
      BY <1>1, <2>1 DEF InHand, DispatcherState
    <2>4. /\ m \in Job /\ jobs[m].status = "idle" /\ jobs[m].enabled
          /\ orphans[m] = 0 /\ ~ (RunOnce(m) /\ m \in done)
      BY <1>1, <1>3, <1>4
    <2>5. /\ jobs'[m].status = "running" /\ jobs'[m].enabled
          /\ \A i \in Job \ {m} : jobs'[i] = jobs[i]
      BY <1>1, <2>1, <2>4 DEF JobRow
    <2>6. ASSUME NEW i \in Job
          PROVE  /\ orphans[i] = 1 => jobs'[i].status = "running"
                 /\ RunOnce(i) /\ i \in done => jobs'[i].status = "running" \/ ~ jobs'[i].enabled
                 /\ ~ jobs'[i].enabled => jobs'[i].exit = "zero"
      BY <1>4, <2>5
    <2>7. \A i \in t.queue \ {m} : jobs'[i].status = "idle" /\ jobs'[i].enabled
      BY <1>1, <1>3, <2>5
    <2> QED BY <1>2, <1>4, <2>2, <2>3, <2>4, <2>5, <2>6, <2>7 DEF SerialInv
  <1>7. CASE Launch(d)
    <2>1. /\ t.pc = "launch" /\ disp'[d].pc = "wait" /\ disp'[d].queue = t.queue
          /\ InHand(d)' = InHand(d) /\ UNCHANGED <<jobs, orphans, done>>
      BY <1>1, <1>7 DEF Launch, At, InHand, DispatcherState
    <2>2. \A i \in InHand(d) : ~ (RunOnce(i) /\ i \in done)
      BY <1>3, <2>1
    <2> QED BY <1>2, <1>3, <1>4, <2>1, <2>2 DEF SerialInv
  <1>8. CASE LaunchFails(d)
    <2>1. /\ t.pc = "launch" /\ disp'[d].pc = "record" /\ disp'[d].queue = t.queue
          /\ InHand(d)' = InHand(d) /\ UNCHANGED <<jobs, orphans, done>>
      BY <1>1, <1>8 DEF LaunchFails, At, InHand, DispatcherState
    <2>2. \A i \in InHand(d) : ~ (RunOnce(i) /\ i \in done)
      BY <1>3, <2>1
    <2> QED BY <1>2, <1>3, <1>4, <2>1, <2>2 DEF SerialInv
  <1>9. ASSUME NEW exit \in Exit, ProcessEnds(d, exit)
        PROVE  SerialInv'
    <2>1. /\ t.pc = "wait" /\ InHand(d) = {j}
          /\ disp'[d].pc = "record" /\ disp'[d].exit = exit /\ disp'[d].queue = t.queue
          /\ InHand(d)' = {j}
          /\ done' = IF exit = "zero" THEN done \cup {j} ELSE done
          /\ UNCHANGED <<jobs, orphans>>
      BY <1>1, <1>9 DEF ProcessEnds, At, InHand, DispatcherState
    <2>2. ~ (RunOnce(j) /\ j \in done) /\ jobs[j].status = "running"
      BY <1>3, <2>1
    <2>3. RunOnce(j) /\ j \in done' => exit = "zero"
      BY <2>1, <2>2
    <2>4. ASSUME NEW i \in Job, RunOnce(i), i \in done'
          PROVE  jobs[i].status = "running" \/ ~ jobs[i].enabled
      BY <1>4, <2>1, <2>2, <2>4
    <2> HIDE DEF j
    <2> QED BY <1>2, <1>3, <1>4, <2>1, <2>2, <2>3, <2>4 DEF SerialInv, At
  <1>10. CASE RecordJobResult(d)
    <2> DEFINE row == [enabled |-> jobs[j].enabled /\ ~ (t.exit = "zero" /\ RunOnce(j)),
                       status |-> "idle", exit |-> t.exit, dueIn |-> NextDueIn(d)]
    <2>1. /\ t.pc = "record" /\ InHand(d) = {j} /\ j \in Job
          /\ jobs' = [jobs EXCEPT ![j] = row]
          /\ UNCHANGED <<orphans, done>>
      BY <1>1, <1>10 DEF RecordJobResult, At, InHand
    <2>2. disp'[d].queue = t.queue /\ InHand(d)' = {}
      <3>1. disp'[d] = IF t.queue = {} THEN Idle
                       ELSE [t EXCEPT !.pc = "mark", !.job = NoJob, !.exit = "nonzero"]
        BY <1>1, <1>10 DEF RecordJobResult
      <3>2. CASE t.queue = {}
        BY <3>1, <3>2 DEF InHand, Idle, Holding
      <3>3. CASE t.queue # {}
        BY <1>1, <3>1, <3>3 DEF InHand, DispatcherState
      <3> QED BY <3>2, <3>3
    <2>3. /\ jobs'[j] = row /\ \A i \in Job \ {j} : jobs'[i] = jobs[i]
      BY <1>1, <2>1
    <2>4. /\ row.status = "idle" /\ row.exit = t.exit
          /\ row.enabled <=> jobs[j].enabled /\ ~ (t.exit = "zero" /\ RunOnce(j))
      OBVIOUS
    <2>5. /\ jobs[j].status = "running" /\ jobs[j].enabled /\ orphans[j] = 0
          /\ RunOnce(j) /\ j \in done => t.exit = "zero"
      BY <1>3, <2>1
    <2>6. j \notin t.queue
      BY <1>3, <2>5
    <2> HIDE DEF row, j
    <2>7. ASSUME NEW i \in Job
          PROVE  /\ orphans[i] = 1 => jobs'[i].status = "running"
                 /\ RunOnce(i) /\ i \in done => jobs'[i].status = "running" \/ ~ jobs'[i].enabled
                 /\ ~ jobs'[i].enabled => jobs'[i].exit = "zero"
      <3>1. CASE i = j
        BY <2>3, <2>4, <2>5, <3>1
      <3>2. CASE i # j
        BY <1>4, <2>3, <3>2
      <3> QED BY <3>1, <3>2
    <2>8. \A i \in t.queue : jobs'[i].status = "idle" /\ jobs'[i].enabled
      BY <1>1, <1>3, <2>3, <2>6
    <2> QED BY <1>2, <1>4, <2>1, <2>2, <2>7, <2>8 DEF SerialInv
  <1>11. CASE Abort(d)
    <2>1. disp'[d] = Idle /\ UNCHANGED <<jobs, done>>
      BY <1>1, <1>11 DEF Abort
    <2>2. disp'[d].queue = {} /\ InHand(d)' = {}
      BY <2>1 DEF InHand, Idle, Holding
    <2>3. ASSUME NEW i \in Job
          PROVE  orphans'[i] \in {0, 1} /\ (orphans'[i] = 1 => jobs[i].status = "running")
      <3>1. CASE At(d, "wait")
        <4>1. orphans' = [orphans EXCEPT ![j] = @ + 1] /\ InHand(d) = {j} /\ j \in Job
          BY <1>1, <1>11, <3>1 DEF Abort, At, InHand
        <4>2. orphans[j] = 0 /\ jobs[j].status = "running"
          BY <1>3, <4>1
        <4> QED BY <1>1, <1>4, <4>1, <4>2
      <3>2. CASE ~ At(d, "wait")
        BY <1>4, <1>11, <3>2 DEF Abort
      <3> QED BY <3>1, <3>2
    <2> QED BY <1>2, <1>4, <2>1, <2>2, <2>3 DEF SerialInv
  <1> QED BY <1>5, <1>6, <1>7, <1>8, <1>9, <1>10, <1>11

LEMMA SerialOther ==
  ASSUME OneAtATime, GateInv, SerialInv,
         \/ \E w \in WorkItem : CreateJobs(w)
         \/ \E j \in Job, exit \in Exit : OrphanEnds(j, exit)
         \/ Tick
         \/ UNCHANGED vars
  PROVE  SerialInv'
  <1>1. /\ disp \in [Dispatcher -> DispatcherState] /\ jobs \in [Job -> JobRow]
        /\ orphans \in [Job -> Nat]
    BY DEF GateInv, TypeOK
  <1>2. CASE UNCHANGED <<jobs, disp, orphans, done>>
    BY <1>2 DEF SerialInv, InHand, At
  <1>3. ASSUME NEW j \in Job, NEW exit \in Exit, OrphanEnds(j, exit)
        PROVE  SerialInv'
    <2>1. /\ orphans[j] > 0
          /\ orphans' = [orphans EXCEPT ![j] = @ - 1]
          /\ done' = IF exit = "zero" THEN done \cup {j} ELSE done
          /\ UNCHANGED <<jobs, disp>>
      BY <1>3 DEF OrphanEnds
    <2>2. orphans[j] = 1 /\ jobs[j].status = "running" /\ \A d \in Dispatcher : j \notin InHand(d)
      BY <2>1 DEF SerialInv
    <2>3. orphans'[j] = 0 /\ \A i \in Job \ {j} : orphans'[i] = orphans[i]
      BY <1>1, <2>1, <2>2
    <2>4. \A d \in Dispatcher : InHand(d)' = InHand(d) /\ InHand(d) \subseteq Job
      BY <2>1 DEF InHand, GateInv, TypeOK
    <2>5. ASSUME NEW d \in Dispatcher, NEW i \in InHand(d)
          PROVE  /\ orphans'[i] = 0
                 /\ RunOnce(i) /\ i \in done' => At(d, "record")' /\ disp'[d].exit = "zero"
      BY <2>1, <2>2, <2>3, <2>4 DEF SerialInv, At
    <2>6. ASSUME NEW i \in Job
          PROVE  /\ orphans'[i] \in {0, 1} /\ (orphans'[i] = 1 => jobs[i].status = "running")
                 /\ RunOnce(i) /\ i \in done' => jobs[i].status = "running" \/ ~ jobs[i].enabled
      BY <2>1, <2>2, <2>3 DEF SerialInv
    <2> QED BY <2>1, <2>4, <2>5, <2>6 DEF SerialInv
  <1>4. CASE Tick
    <2>1. UNCHANGED <<orphans, done>>
      BY <1>4 DEF Tick
    <2>2. \A j \in Job : /\ jobs'[j].status = jobs[j].status
                         /\ jobs'[j].enabled = jobs[j].enabled
                         /\ jobs'[j].exit = jobs[j].exit
      <3>1. jobs' = [j \in Job |-> [jobs[j] EXCEPT !.dueIn = IF @ = 0 THEN 0 ELSE @ - 1]]
        BY <1>4 DEF Tick
      <3> QED BY <1>1, <3>1 DEF JobRow
    <2>3. \A d \in Dispatcher : /\ disp'[d].pc = disp[d].pc /\ disp'[d].queue = disp[d].queue
                                /\ disp'[d].job = disp[d].job /\ disp'[d].exit = disp[d].exit
      <3>1. disp' = [d \in Dispatcher |->
                      IF At(d, "idle") THEN disp[d]
                      ELSE [disp[d] EXCEPT !.age = IF @ = Interval THEN @ ELSE @ + 1]]
        BY <1>4 DEF Tick
      <3>2. ASSUME NEW d \in Dispatcher
            PROVE  /\ disp'[d].pc = disp[d].pc /\ disp'[d].queue = disp[d].queue
                   /\ disp'[d].job = disp[d].job /\ disp'[d].exit = disp[d].exit
        <4>1. CASE At(d, "idle")
          BY <3>1, <4>1
        <4>2. CASE ~ At(d, "idle")
          BY <1>1, <3>1, <4>2 DEF DispatcherState
        <4> QED BY <4>1, <4>2
      <3> QED BY <3>2
    <2>4. \A d \in Dispatcher : /\ InHand(d)' = InHand(d)
                                /\ At(d, "record")' <=> At(d, "record")
                                /\ InHand(d) \subseteq Job /\ disp[d].queue \subseteq Job
      BY <2>3 DEF InHand, At, GateInv, TypeOK
    <2> QED BY <2>1, <2>2, <2>3, <2>4 DEF SerialInv
  <1> QED BY <1>2, <1>3, <1>4 DEF CreateJobs, vars

LEMMA SerialNext ==
  ASSUME OneAtATime, GateInv, SerialInv, [Next]_vars
  PROVE  SerialInv'
  BY SerialDispatcher, SerialOther DEF Next

\* While invocations do not overlap the status column tells the truth about
\* every job, but for the jobs a dispatcher that died left 'running'.
THEOREM SerialInvariant == OneAtATime => (Spec => []SerialInv)
  <1> SUFFICES ASSUME OneAtATime PROVE Spec => []SerialInv
    OBVIOUS
  <1>1. GateInv /\ SerialInv /\ [Next]_vars => SerialInv'
    BY SerialNext
  <1> QED BY SerialInit, GateInvariant, <1>1, PTL DEF Spec

LEMMA AtMostOneWaits ==
  ASSUME OneAtATime, NEW S, S \subseteq Dispatcher
  PROVE  \/ S = {} /\ Cardinality(S) = 0
         \/ (\E d \in Dispatcher : S = {d}) /\ Cardinality(S) = 1
  <1>1. CASE S = {}
    BY <1>1, FS_EmptySet
  <1>2. CASE S # {}
    <2>1. PICK d \in S : S = {d}
      BY <1>2 DEF OneAtATime
    <2> QED BY <2>1, FS_Singleton
  <1> QED BY <1>1, <1>2

(* A job is never dispatched while a subprocess of it still runs, even one *)
(* whose dispatcher has died, as long as invocations do not overlap.       *)
THEOREM NoDoubleDispatch == OneAtATime => (Spec => []NeverTwiceAtOnce)
  <1> SUFFICES ASSUME OneAtATime PROVE Spec => []NeverTwiceAtOnce
    OBVIOUS
  <1>1. GateInv /\ SerialInv => NeverTwiceAtOnce
    <2> SUFFICES ASSUME GateInv, SerialInv, NEW j \in Job
                 PROVE  Processes(j) <= 1
      BY DEF NeverTwiceAtOnce
    <2>1. Waiting(j) \subseteq Dispatcher /\ orphans[j] \in {0, 1}
      BY DEF Waiting, SerialInv
    <2>2. Waiting(j) # {} => orphans[j] = 0
      BY DEF Waiting, At, InHand, SerialInv
    <2>3. CASE Waiting(j) = {}
      <3>1. Cardinality(Waiting(j)) = 0
        BY <2>3, FS_EmptySet
      <3> QED BY <2>1, <3>1 DEF Processes
    <2>4. CASE Waiting(j) # {}
      <3>1. Cardinality(Waiting(j)) = 1
        BY <2>1, <2>4, AtMostOneWaits
      <3> QED BY <2>2, <2>4, <3>1 DEF Processes
    <2> QED BY <2>3, <2>4
  <1> QED BY GateInvariant, SerialInvariant, <1>1, PTL

(* A job whose last result is a failure is still enabled, so that it is    *)
(* retried.                                                                *)
THEOREM FailuresAreRetried == OneAtATime => (Spec => []FailureIsRetried)
  <1>1. GateInv /\ SerialInv => FailureIsRetried
    BY DEF GateInv, TypeOK, SerialInv, FailureIsRetried
  <1> QED BY GateInvariant, SerialInvariant, <1>1, PTL

(* No subprocess of a run_once job starts after one has succeeded.         *)
THEOREM NoRerun == OneAtATime => (Spec => NoRerunAfterSuccess)
  <1> SUFFICES ASSUME OneAtATime PROVE Spec => NoRerunAfterSuccess
    OBVIOUS
  <1>1. GateInv /\ SerialInv /\ [Next]_vars =>
          [\A j \in Job : RunOnce(j) /\ j \in done => Processes(j)' <= Processes(j)]_vars
    <2> SUFFICES ASSUME GateInv, SerialInv, Next,
                        NEW j \in Job, RunOnce(j), j \in done
                 PROVE  Processes(j)' <= Processes(j)
      OBVIOUS
    <2>1. /\ disp \in [Dispatcher -> DispatcherState] /\ orphans \in [Job -> Nat]
          /\ \A d \in Dispatcher : j \in InHand(d) => At(d, "record")
      BY DEF GateInv, TypeOK, SerialInv
    <2>2. Waiting(j) = {}
      BY <2>1 DEF Waiting, At, InHand
    <2>3. Waiting(j)' = {}
      <3> SUFFICES ASSUME NEW d \in Dispatcher, disp'[d].pc = "wait", disp'[d].job = j
                   PROVE  FALSE
        BY DEF Waiting, At
      <3>1. CASE \E e \in Dispatcher : FetchDueJobs(e)
        BY <2>1, <3>1, <2>2 DEF FetchDueJobs, Waiting, At, Holding
      <3>2. CASE \E e \in Dispatcher : MarkJobRunning(e)
        BY <2>1, <3>2, <2>2 DEF MarkJobRunning, Waiting, At, DispatcherState
      <3>3. CASE \E e \in Dispatcher : Launch(e)
        BY <2>1, <3>3, <2>2 DEF Launch, Waiting, At, InHand, DispatcherState
      <3>4. CASE \E e \in Dispatcher : LaunchFails(e)
        BY <2>1, <3>4, <2>2 DEF LaunchFails, Waiting, At, DispatcherState
      <3>5. CASE \E e \in Dispatcher, exit \in Exit : ProcessEnds(e, exit)
        BY <2>1, <3>5, <2>2 DEF ProcessEnds, Waiting, At, DispatcherState
      <3>6. CASE \E e \in Dispatcher : RecordJobResult(e)
        <4>1. PICK e \in Dispatcher : RecordJobResult(e)
          BY <3>6
        <4>2. disp'[e].pc # "wait"
          <5>1. disp'[e] = IF disp[e].queue = {} THEN Idle
                           ELSE [disp[e] EXCEPT !.pc = "mark", !.job = NoJob, !.exit = "nonzero"]
            BY <2>1, <4>1 DEF RecordJobResult
          <5>2. CASE disp[e].queue = {}
            BY <5>1, <5>2 DEF Idle, Holding
          <5>3. CASE disp[e].queue # {}
            BY <2>1, <5>1, <5>3 DEF DispatcherState
          <5> QED BY <5>2, <5>3
        <4>3. d # e => disp'[d] = disp[d]
          BY <2>1, <4>1 DEF RecordJobResult
        <4> QED BY <2>2, <4>2, <4>3 DEF Waiting, At
      <3>7. CASE \E e \in Dispatcher : Abort(e)
        BY <2>1, <3>7, <2>2 DEF Abort, Waiting, At, Idle, Holding
      <3>8. CASE Tick
        <4>1. disp' = [e \in Dispatcher |->
                        IF At(e, "idle") THEN disp[e]
                        ELSE [disp[e] EXCEPT !.age = IF @ = Interval THEN @ ELSE @ + 1]]
          BY <3>8 DEF Tick
        <4>2. disp'[d].pc = disp[d].pc /\ disp'[d].job = disp[d].job
          <5>1. CASE At(d, "idle")
            BY <4>1, <5>1
          <5>2. CASE ~ At(d, "idle")
            BY <2>1, <4>1, <5>2 DEF DispatcherState
          <5> QED BY <5>1, <5>2
        <4> QED BY <2>2, <4>2 DEF Waiting, At
      <3>9. CASE UNCHANGED disp
        BY <2>2, <3>9 DEF Waiting, At
      <3> QED BY <3>1, <3>2, <3>3, <3>4, <3>5, <3>6, <3>7, <3>8, <3>9
              DEF Next, CreateJobs, OrphanEnds
    <2>4. orphans'[j] <= orphans[j] /\ orphans'[j] \in Nat
      <3>1. CASE \E d \in Dispatcher : Abort(d)
        <4>1. PICK d \in Dispatcher : Abort(d)
          BY <3>1
        <4>2. At(d, "wait") => disp[d].job # j
          BY <2>2 DEF Waiting, At
        <4> QED BY <2>1, <4>1, <4>2 DEF Abort
      <3>2. CASE \E i \in Job, exit \in Exit : OrphanEnds(i, exit)
        BY <2>1, <3>2 DEF OrphanEnds
      <3>3. CASE UNCHANGED orphans
        BY <2>1, <3>3
      <3> QED BY <3>1, <3>2, <3>3
              DEF Next, CreateJobs, FetchDueJobs, MarkJobRunning, Launch, LaunchFails,
                  ProcessEnds, RecordJobResult, Tick
    <2>5. Processes(j) = orphans[j] /\ Processes(j)' = orphans'[j]
      BY <2>1, <2>2, <2>3, <2>4, FS_EmptySet DEF Processes
    <2> QED BY <2>4, <2>5
  <1> QED BY GateInvariant, SerialInvariant, <1>1, PTL DEF Spec, NoRerunAfterSuccess

-----------------------------------------------------------------------------
(* Dispatch implements JobRuns as long as invocations do not overlap.      *)

\* The jobs with a subprocess, its dispatcher dead or alive.
Live == {j \in Job : Executing(j)}

LEMMA LiveJobs ==
  ASSUME OneAtATime, NEW d \in Dispatcher
  PROVE  /\ Live = {j \in Job : (At(d, "wait") /\ disp[d].job = j) \/ orphans[j] > 0}
         /\ Live' = {j \in Job : (disp'[d].pc = "wait" /\ disp'[d].job = j) \/ orphans'[j] > 0}
  BY DEF OneAtATime, Live, Executing, Waiting, At

\* Fetching, marking, a launch that fails and recording a result neither start
\* nor end a subprocess, nor does a dispatcher that dies: it leaves its own behind.
LEMMA LiveKept ==
  ASSUME OneAtATime, GateInv, NEW d \in Dispatcher,
         \/ FetchDueJobs(d) \/ MarkJobRunning(d) \/ LaunchFails(d)
         \/ RecordJobResult(d) \/ Abort(d)
  PROVE  Live' = Live /\ UNCHANGED <<accepted, done>>
  <1>1. /\ disp \in [Dispatcher -> DispatcherState] /\ orphans \in [Job -> Nat]
        /\ InHand(d) \subseteq Job
    BY DEF GateInv, TypeOK
  <1>2. UNCHANGED <<accepted, done>>
    BY DEF FetchDueJobs, MarkJobRunning, LaunchFails, RecordJobResult, Abort
  <1>3. CASE ~ At(d, "wait") /\ disp'[d].pc # "wait" /\ UNCHANGED orphans
    BY <1>2, <1>3, LiveJobs
  <1>4. CASE FetchDueJobs(d)
    BY <1>1, <1>3, <1>4 DEF FetchDueJobs, At, Holding
  <1>5. CASE MarkJobRunning(d)
    <2>1. PICK m \in disp[d].queue :
            disp' = [disp EXCEPT ![d].pc = "launch", ![d].job = m, ![d].queue = @ \ {m}]
      BY <1>5 DEF MarkJobRunning
    <2>2. disp[d] \in DispatcherState
      BY <1>1
    <2>3. disp'[d].pc = "launch"
      BY <1>1, <2>1, <2>2 DEF DispatcherState
    <2> QED BY <1>3, <1>5, <2>3 DEF MarkJobRunning, At
  <1>6. CASE LaunchFails(d)
    BY <1>1, <1>3, <1>6 DEF LaunchFails, At, DispatcherState
  <1>7. CASE RecordJobResult(d)
    <2>1. disp'[d] = IF disp[d].queue = {} THEN Idle
                     ELSE [disp[d] EXCEPT !.pc = "mark", !.job = NoJob, !.exit = "nonzero"]
      BY <1>1, <1>7 DEF RecordJobResult
    <2>2. disp'[d].pc # "wait"
      <3>1. CASE disp[d].queue = {}
        BY <2>1, <3>1 DEF Idle, Holding
      <3>2. CASE disp[d].queue # {}
        BY <1>1, <2>1, <3>2 DEF DispatcherState
      <3> QED BY <3>1, <3>2
    <2> QED BY <1>3, <1>7, <2>2 DEF RecordJobResult, At
  <1>8. CASE Abort(d)
    <2>1. disp'[d].pc = "idle"
      BY <1>1, <1>8 DEF Abort, Idle, Holding
    <2>2. CASE At(d, "wait")
      <3>1. disp[d].job \in Job /\ orphans' = [orphans EXCEPT ![disp[d].job] = @ + 1]
        BY <1>1, <1>8, <2>2 DEF Abort, At, InHand
      <3>2. \A j \in Job : orphans'[j] > 0 <=> disp[d].job = j \/ orphans[j] > 0
        BY <1>1, <3>1
      <3> QED BY <1>2, <2>1, <2>2, <3>2, LiveJobs
    <2>3. CASE ~ At(d, "wait")
      BY <1>3, <1>8, <2>1, <2>3 DEF Abort
    <2> QED BY <2>2, <2>3
  <1> QED BY <1>4, <1>5, <1>6, <1>7, <1>8

\* Only Launch starts a subprocess: of a job that waits for nothing, has none and,
\* unless it is recurring, never succeeded.
LEMMA LiveStarts ==
  ASSUME OneAtATime, GateInv, SerialInv, NEW d \in Dispatcher, Launch(d)
  PROVE  /\ \E j \in created \ Live :
              /\ Live' = Live \cup {j}
              /\ deps[j] \subseteq done
              /\ RunOnce(j) => j \notin done
         /\ UNCHANGED <<accepted, done>>
  <1> DEFINE j == disp[d].job
  <1>1. /\ At(d, "launch") /\ disp' = [disp EXCEPT ![d].pc = "wait"]
        /\ UNCHANGED <<orphans, accepted, done>>
    BY DEF Launch
  <1>2. disp'[d].pc = "wait" /\ disp'[d].job = j
    BY <1>1 DEF GateInv, TypeOK, DispatcherState
  <1>3. InHand(d) = {j}
    BY <1>1 DEF At, InHand
  <1>4. /\ j \in created /\ j \in Job /\ deps[j] \subseteq done
        /\ orphans[j] = 0 /\ (RunOnce(j) => j \notin done)
    BY <1>1, <1>3 DEF GateInv, TypeOK, SerialInv, At
  <1>5. ~ At(d, "wait")
    BY <1>1 DEF At
  <1> HIDE DEF j
  <1>6. j \notin Live
    BY <1>4, <1>5, LiveJobs
  <1>7. Live' = Live \cup {j}
    BY <1>1, <1>2, <1>4, <1>5, LiveJobs
  <1> QED BY <1>1, <1>4, <1>6, <1>7

\* A subprocess ends, waited for or not.
LEMMA LiveEnds ==
  ASSUME OneAtATime, GateInv, SerialInv,
         \/ \E d \in Dispatcher, exit \in Exit : ProcessEnds(d, exit)
         \/ \E j \in Job, exit \in Exit : OrphanEnds(j, exit)
  PROVE  /\ \E j \in Live : Live' = Live \ {j} /\ done' \in {done, done \cup {j}}
         /\ UNCHANGED accepted
  <1>1. /\ disp \in [Dispatcher -> DispatcherState] /\ orphans \in [Job -> Nat]
        /\ \A d \in Dispatcher : InHand(d) \subseteq Job
    BY DEF GateInv, TypeOK
  <1>2. ASSUME NEW d \in Dispatcher, NEW exit \in Exit, ProcessEnds(d, exit)
        PROVE  /\ \E j \in Live : Live' = Live \ {j} /\ done' \in {done, done \cup {j}}
               /\ UNCHANGED accepted
    <2> DEFINE j == disp[d].job
    <2>1. /\ At(d, "wait") /\ disp'[d].pc = "record"
          /\ done' \in {done, done \cup {j}}
          /\ UNCHANGED <<orphans, accepted>>
      BY <1>1, <1>2 DEF ProcessEnds, DispatcherState
    <2>2. j \in Job /\ orphans[j] = 0
      BY <1>1, <2>1 DEF At, InHand, SerialInv
    <2> HIDE DEF j
    <2>3. disp[d].job = j
      BY DEF j
    <2>4. j \in Live
      BY <2>1, <2>2, <2>3, LiveJobs
    <2>5. Live' = Live \ {j}
      BY <2>1, <2>2, <2>3, LiveJobs
    <2> QED BY <2>1, <2>4, <2>5
  <1>3. ASSUME NEW j \in Job, NEW exit \in Exit, OrphanEnds(j, exit)
        PROVE  /\ \E i \in Live : Live' = Live \ {i} /\ done' \in {done, done \cup {i}}
               /\ UNCHANGED accepted
    <2>1. /\ orphans[j] > 0 /\ orphans' = [orphans EXCEPT ![j] = @ - 1]
          /\ done' \in {done, done \cup {j}}
          /\ UNCHANGED <<disp, accepted>>
      BY <1>3 DEF OrphanEnds
    <2>2. orphans[j] = 1 /\ \A d \in Dispatcher : j \notin InHand(d)
      BY <2>1 DEF SerialInv
    <2>3. orphans'[j] = 0 /\ \A i \in Job \ {j} : orphans'[i] = orphans[i]
      BY <1>1, <2>1, <2>2
    <2>4. Waiting(j) = {} /\ \A i : Waiting(i)' = Waiting(i)
      BY <2>1, <2>2 DEF Waiting, At, InHand
    <2>5. j \in Live /\ Live' = Live \ {j}
      BY <2>1, <2>3, <2>4 DEF Live, Executing
    <2> QED BY <2>1, <2>5
  <1> QED BY <1>2, <1>3

\* A tick of the clock and a new work item leave the subprocesses alone.
LEMMA LiveAside ==
  ASSUME GateInv, Tick \/ (\E w \in WorkItem : CreateJobs(w)) \/ UNCHANGED vars
  PROVE  Live' = Live /\ UNCHANGED done
  <1>1. disp \in [Dispatcher -> DispatcherState]
    BY DEF GateInv, TypeOK
  <1>2. UNCHANGED <<orphans, done>>
    BY DEF Tick, CreateJobs, vars
  <1>3. ASSUME NEW d \in Dispatcher
        PROVE  disp'[d].pc = disp[d].pc /\ disp'[d].job = disp[d].job
    <2>1. CASE UNCHANGED disp
      BY <2>1
    <2>2. CASE Tick
      <3>1. disp'[d] = IF At(d, "idle") THEN disp[d]
                       ELSE [disp[d] EXCEPT !.age = IF @ = Interval THEN @ ELSE @ + 1]
        BY <2>2 DEF Tick
      <3>2. CASE At(d, "idle")
        BY <3>1, <3>2
      <3>3. CASE ~ At(d, "idle")
        BY <1>1, <3>1, <3>3 DEF DispatcherState
      <3> QED BY <3>2, <3>3
    <2> QED BY <2>1, <2>2 DEF CreateJobs, vars
  <1> QED BY <1>2, <1>3 DEF Live, Executing, Waiting, At

\* The stages of a work item as JobRuns sees them.
LEMMA PlanStages ==
  ASSUME NEW w \in WorkItem
  PROVE  /\ Runs!Jobs(w) = PlanNames(w)
         /\ Runs!Before(w, 1) = {}
         /\ Runs!Before(w, 2) = IngestNames(w)
         /\ Runs!Before(w, 3) = IngestNames(w) \cup {StageName(w)}
  <1>1. /\ DOMAIN StagesOf(w) = {1, 2, 3}
        /\ StagesOf(w)[1] = IngestNames(w)
        /\ StagesOf(w)[2] = {StageName(w)} /\ StagesOf(w)[3] = {ReconcileName(w)}
    BY DEF StagesOf
  <1>2. [v \in WorkItem |-> StagesOf(v)][w] = StagesOf(w)
    OBVIOUS
  <1>3. Runs!Jobs(w) = PlanNames(w)
    BY <1>1, <1>2 DEF Runs!Jobs, PlanNames
  <1>4. \A i : Runs!Before(w, i) = UNION {StagesOf(w)[k] : k \in {n \in {1, 2, 3} : n < i}}
    BY <1>1, <1>2 DEF Runs!Before
  <1>5. /\ {n \in {1, 2, 3} : n < 1} = {} /\ {n \in {1, 2, 3} : n < 2} = {1}
        /\ {n \in {1, 2, 3} : n < 3} = {1, 2}
    OBVIOUS
  <1> QED BY <1>1, <1>3, <1>4, <1>5

\* A job whose own dependencies have succeeded waits for nothing earlier in its
\* work item either.
LEMMA NothingBefore ==
  ASSUME GateInv, NEW w \in accepted, NEW j \in PlanNames(w), deps[j] \subseteq done
  PROVE  \E i \in DOMAIN StagesOf(w) :
           j \in StagesOf(w)[i] /\ Runs!Before(w, i) \subseteq done \ Recurring
  <1>1. /\ w \in WorkItem /\ DOMAIN StagesOf(w) = {1, 2, 3}
        /\ StagesOf(w)[1] = IngestNames(w)
        /\ StagesOf(w)[2] = {StageName(w)} /\ StagesOf(w)[3] = {ReconcileName(w)}
    BY DEF StagesOf, GateInv, TypeOK
  <1>2. deps[j] = DependsOn(w, j) /\ deps[StageName(w)] = IngestNames(w)
    BY PlanShape, PlanDependencies DEF GateInv, WholeWorkItems
  <1>3. StageName(w) \in done => IngestNames(w) \subseteq done
    BY <1>2 DEF GateInv
  <1>4. Recurring \cap PlanNames(w) = {}
    BY <1>1, RecurringAssumption
  <1>5. CASE j \in IngestNames(w)
    BY <1>1, <1>5, PlanStages
  <1>6. CASE j = StageName(w)
    BY <1>1, <1>2, <1>4, <1>6, PlanStages, PlanShape
  <1>7. CASE j = ReconcileName(w)
    BY <1>1, <1>2, <1>3, <1>4, <1>7, PlanStages, PlanShape, PlanDependencies
  <1> QED BY <1>5, <1>6, <1>7 DEF PlanNames

LEMMA RunsStep ==
  ASSUME OneAtATime, GateInv, SerialInv, [Next]_vars
  PROVE  [Runs!Next]_<<accepted, {j \in Job \ Recurring : Executing(j)}, done \ Recurring>>
  <1> DEFINE running == {j \in Job \ Recurring : Executing(j)}
             finished == done \ Recurring
  <1>1. running = Live \ Recurring /\ running' = Live' \ Recurring
    BY DEF Live
  <1>2. SUFFICES Runs!Next \/ UNCHANGED <<accepted, running, finished>>
    OBVIOUS
  <1>3. ASSUME NEW w \in WorkItem, CreateJobs(w)
        PROVE  Runs!Accept(w)
    <2>1. Live' = Live /\ UNCHANGED done
      BY <1>3, LiveAside
    <2>2. ASSUME NEW v \in accepted PROVE Runs!Jobs(v) \cap Runs!Jobs(w) = {}
      <3>1. v \in WorkItem /\ PlanNames(v) \subseteq created
        BY DEF GateInv, TypeOK, WholeWorkItems
      <3> QED BY <1>3, <3>1, PlanStages DEF CreateJobs
    <2> QED BY <1>1, <1>3, <2>1, <2>2 DEF Runs!Accept, CreateJobs
  <1>4. ASSUME NEW d \in Dispatcher, Launch(d)
        PROVE  Runs!Next \/ UNCHANGED <<accepted, running, finished>>
    <2>1. PICK j \in created \ Live :
            /\ Live' = Live \cup {j}
            /\ deps[j] \subseteq done
            /\ RunOnce(j) => j \notin done
      BY <1>4, LiveStarts
    <2>2. UNCHANGED <<accepted, done>>
      BY <1>4, LiveStarts
    <2>3. CASE j \in Recurring
      BY <1>1, <2>1, <2>2, <2>3
    <2>4. CASE j \notin Recurring
      <3>1. PICK w \in accepted : j \in PlanNames(w)
        BY <2>4 DEF GateInv, WholeWorkItems
      <3>2. w \in WorkItem
        BY DEF GateInv, TypeOK
      <3>3. PICK i \in DOMAIN StagesOf(w) :
              j \in StagesOf(w)[i] /\ Runs!Before(w, i) \subseteq finished
        BY <2>1, <3>1, NothingBefore
      <3>4. j \notin running /\ j \notin finished /\ running' = running \cup {j}
        BY <1>1, <2>1, <2>4 DEF RunOnce
      <3> HIDE DEF running, finished
      <3>5. [v \in WorkItem |-> StagesOf(v)][w] = StagesOf(w)
        BY <3>2
      <3>6. UNCHANGED finished
        BY <2>2 DEF finished
      <3>7. Runs!Start(w, i)
        BY <2>2, <3>3, <3>4, <3>5, <3>6 DEF Runs!Start, running, finished
      <3> QED BY <3>2, <3>3, <3>5, <3>7 DEF Runs!Next
    <2> QED BY <2>3, <2>4
  <1>5. ASSUME \/ \E d \in Dispatcher, exit \in Exit : ProcessEnds(d, exit)
               \/ \E j \in Job, exit \in Exit : OrphanEnds(j, exit)
        PROVE  Runs!Next \/ UNCHANGED <<accepted, running, finished>>
    <2>1. PICK j \in Live : Live' = Live \ {j} /\ done' \in {done, done \cup {j}}
      BY <1>5, LiveEnds
    <2>2. UNCHANGED accepted
      BY <1>5, LiveEnds
    <2>3. CASE j \in Recurring
      BY <1>1, <2>1, <2>2, <2>3
    <2>4. CASE j \notin Recurring
      <3>1. j \in running /\ running' = running \ {j}
        BY <1>1, <2>1, <2>4
      <3>2. finished' \in {finished, finished \cup {j}}
        BY <2>1, <2>4
      <3> QED BY <2>2, <3>1, <3>2 DEF Runs!Next, Runs!End
    <2> QED BY <2>3, <2>4
  <1>6. ASSUME NEW d \in Dispatcher,
               \/ FetchDueJobs(d) \/ MarkJobRunning(d) \/ LaunchFails(d)
               \/ RecordJobResult(d) \/ Abort(d)
        PROVE  UNCHANGED <<accepted, running, finished>>
    BY <1>1, <1>6, LiveKept
  <1>7. ASSUME Tick \/ UNCHANGED vars
        PROVE  UNCHANGED <<accepted, running, finished>>
    BY <1>1, <1>7, LiveAside DEF Tick, vars
  <1> HIDE DEF running, finished
  <1> QED BY <1>3, <1>4, <1>5, <1>6, <1>7 DEF Next, Runs!Next

\* What the tools may take for granted of quant-dispatch, at whatever step it or
\* they may die: work items share no job, no job runs twice at once or after it
\* has succeeded, none before everything ahead of it in its work item has.
THEOREM DispatchRuns == OneAtATime => (Spec => ImplementsJobRuns)
  <1> SUFFICES ASSUME OneAtATime PROVE Spec => ImplementsJobRuns
    OBVIOUS
  <1>1. Init => Runs!Init
    BY DEF Init, Runs!Init, Executing, Waiting, At, Idle, Holding
  <1>2. GateInv /\ SerialInv /\ [Next]_vars =>
          [Runs!Next]_<<accepted, {j \in Job \ Recurring : Executing(j)}, done \ Recurring>>
    BY RunsStep
  <1> QED BY GateInvariant, SerialInvariant, <1>1, <1>2, PTL
          DEF Spec, ImplementsJobRuns, Runs!Spec, Runs!vars
=============================================================================
