--------------------------- MODULE PipelineProofs ---------------------------
(***************************************************************************)
(* Proofs about Pipeline, for every work item, every set of days and       *)
(* weekends, every source, any runs by hand and any number of faults.      *)
(***************************************************************************)
EXTENDS Pipeline, TLAPS

-----------------------------------------------------------------------------
(* The plan.                                                               *)

\* An ingest job works for one provider, one method and one day.
LEMMA IngestJob ==
  ASSUME NEW n \in IngestNames(Item)
  PROVE  /\ RunOf(n).tool = "ingest" /\ n.kind = "ingest"
         /\ RunOf(n).days = {n.first} /\ n.first \in Item.first .. Item.last
         /\ \E p \in Provider, m \in Method : RunOf(n).combos = {<<p, m>>}
  <1> PICK p \in Provider :
        n \in {Name("ingest", Item, d, d, p, m) : d \in Item.first .. Item.last, m \in MethodsOf(Item, p)}
    BY DEF IngestNames, Provider
  <1>1. PICK d \in Item.first .. Item.last, m \in MethodsOf(Item, p) :
          n = Name("ingest", Item, d, d, p, m)
    OBVIOUS
  <1>2. /\ n.kind = "ingest" /\ n.first = d /\ n.provider = p /\ n.method = m
    BY <1>1 DEF Name
  <1>3. RunOf(n).tool = "ingest" /\ RunOf(n).days = {d}
        /\ RunOf(n).combos = {p} \X MethodsToFetch(p, m)
    BY <1>2 DEF RunOf
  <1>4. \E x \in Method : MethodsToFetch(p, m) = {x}
    <2>1. CASE p = Ibkr
      <3>1. m \in Range(Item.ibkrMethods) /\ m # NoMethod
        BY <2>1, ItemAssumption DEF MethodsOf
      <3>2. m \in Range(DefaultMethods[Ibkr])
        BY <2>1, <3>1, ItemAssumption DEF Provider
      <3> QED BY <2>1, <3>1, <3>2 DEF MethodsToFetch, Method
    <2>2. CASE p # Ibkr
      BY <2>2, MethodAssumption DEF MethodsToFetch, Method, Provider
    <2> QED BY <2>1, <2>2
  <1> QED BY <1>1, <1>2, <1>3, <1>4

LEMMA StageJob ==
  /\ RunOf(StageName(Item)).tool = "stage"
  /\ RunOf(StageName(Item)).days = Item.first .. Item.last
  /\ RunOf(StageName(Item)).combos = {<<p, Primary(p)>> : p \in Provider}
  /\ StageName(Item) \notin IngestNames(Item)
  /\ DependsOn(Item, StageName(Item)) = IngestNames(Item)
  /\ StageName(Item) # NoJob /\ NoJob \notin IngestNames(Item)
  <1>1. StageName(Item).kind = "stage" /\ StageName(Item).first = Item.first
        /\ StageName(Item).last = Item.last
    BY DEF StageName, Name
  <1>2. NoJob.kind = "none"
    BY DEF NoJob, Name
  <1>3. \A n \in IngestNames(Item) : n.kind = "ingest"
    BY IngestJob
  <1>4. ReconcileName(Item).kind = "reconcile"
    BY DEF ReconcileName, Name
  <1>5. DependsOn(Item, StageName(Item)) = IngestNames(Item)
    BY <1>1, <1>4 DEF DependsOn
  <1> QED BY <1>1, <1>2, <1>3, <1>5 DEF RunOf

\* The combinations of the plan's jobs are keys of the archive, those of the
\* staging job of the primary methods.
LEMMA JobRun ==
  ASSUME NEW n \in IngestNames(Item) \cup {StageName(Item)}
  PROVE  /\ RunOf(n).tool \in {"ingest", "stage"}
         /\ RunOf(n).days \in SUBSET Day
         /\ RunOf(n).combos \in SUBSET (Provider \X Method)
         /\ RunOf(n).tool = "stage" => \A c \in RunOf(n).combos : c[2] = Primary(c[1])
  <1>1. CASE n \in IngestNames(Item)
    BY <1>1, IngestJob, ItemAssumption
  <1>2. CASE n = StageName(Item)
    <2>1. \A p \in Provider : Primary(p) \in Method
      BY MethodAssumption DEF Primary, Method, Provider
    <2> QED BY <1>2, <2>1, StageJob, ItemAssumption
  <1> QED BY <1>1, <1>2

LEMMA HandRun ==
  ASSUME NEW r \in ByHand
  PROVE  /\ r.tool \in {"ingest", "stage"} /\ r.days \in SUBSET Day
         /\ r.combos \in SUBSET (Provider \X Method)
         /\ r.tool = "stage" => \A c \in r.combos : c[2] = Primary(c[1])
  <1>1. ASSUME NEW c \in r.combos PROVE c \in Provider \X Method
    <2>1. c \in Range(Item.providers) \X Range(DefaultMethods[c[1]])
      BY ByHandAssumption
    <2>2. c[1] \in Provider /\ c[2] \in Range(DefaultMethods[c[1]]) /\ c = <<c[1], c[2]>>
      BY <2>1 DEF Provider
    <2> QED BY <2>2 DEF Method
  <1> QED BY <1>1, ByHandAssumption DEF Primary

LEMMA WorkType ==
  ASSUME NEW combos \in SUBSET (Provider \X Method), NEW days \in SUBSET Day
  PROVE  Work(combos, days) \in SUBSET Combo
  BY DEF Work, Combo

-----------------------------------------------------------------------------
(* Payloads and the staging table.                                         *)

LEMMA PrimaryType == \A p \in Provider : Primary(p) \in Method
  BY MethodAssumption DEF Primary, Method, Provider

LEMMA SessionType ==
  ASSUME NEW p, NEW m, NEW d, NEW e \in Session(p, m, d)
  PROVE  e \in Day /\ Source[p][m][e] # {} /\ \A f \in Session(p, m, d) : f = e
  <1>1. CASE p = Ibkr
    <2>1. Session(p, m, d) = LastSession(p, m, d)
      BY <1>1 DEF Session
    <2>2. \A f \in LastSession(p, m, d) : f <= e /\ e <= f
      BY <2>1 DEF LastSession
    <2>3. \A f \in LastSession(p, m, d) : f \in Int
      BY DayAssumption DEF LastSession
    <2> QED BY <2>1, <2>2, <2>3 DEF LastSession
  <1>2. CASE p # Ibkr
    BY <1>2 DEF Session, OwnSession
  <1> QED BY <1>1, <1>2

LEMMA WholeSessionType ==
  ASSUME NEW p \in Provider, NEW m \in Method, NEW e \in Day
  PROVE  Source[p][m][e] \subseteq Minute /\ WholeSession(p, m, e) \subseteq Bar
  <1>1. Source[p][m][e] \subseteq Minute
    BY SourceAssumption DEF Provider, Method, Minute
  <1> QED BY <1>1 DEF WholeSession, Bar

LEMMA PayloadType ==
  ASSUME NEW p \in Provider, NEW m \in Method, NEW d \in Day, NEW x \in Payloads(p, m, d)
  PROVE  x \in SUBSET Bar /\ x # {}
  <1>1. PICK e \in Session(p, m, d) : x \in Answers(p, m, e)
    BY DEF Payloads
  <1>2. e \in Day /\ Source[p][m][e] # {}
    BY <1>1, SessionType
  <1>3. WholeSession(p, m, e) \subseteq Bar /\ WholeSession(p, m, e) # {}
    BY <1>2, WholeSessionType DEF WholeSession
  <1> QED BY <1>1, <1>3 DEF Answers

LEMMA MinutesAreKeys ==
  ASSUME NEW p, NEW e, staged \subseteq StagedBar
  PROVE  StagedMinutes(p, e) = {m \in Minute : <<e, m>> \in StagedKeys(p)}
  BY DEF StagedMinutes, StagedKeys, Keys, StagedBar

\* A payload whose minutes are all in staging is a staged session.
LEMMA PayloadStaged ==
  ASSUME staged \subseteq StagedBar, NEW p \in Provider, NEW d \in Day, NEW bars,
         ArePayload(bars, p, d), Keys(bars) \subseteq StagedKeys(p)
  PROVE  SessionStaged(p, d)
  <1> PICK m : m = Primary(p)
    OBVIOUS
  <1>1. PICK x \in Payloads(p, m, d) : Keys(x) \subseteq StagedKeys(p)
    BY DEF ArePayload
  <1>2. PICK e \in Session(p, m, d) : x \in Answers(p, m, e)
    BY <1>1 DEF Payloads
  <1>3. e \in Day /\ m \in Method
    BY <1>2, SessionType, PrimaryType
  <1>4. Source[p][m][e] \subseteq Minute
    BY <1>3, WholeSessionType
  <1>5. \A b \in WholeSession(p, m, e) : b.day = e /\ b.minute \in Minute
    BY <1>4 DEF WholeSession
  <1>6. CASE <<p, e>> \in Unfinished
    <2>1. PICK b \in x : b \in WholeSession(p, m, e)
      BY <1>2, <1>6 DEF Answers
    <2>2. <<e, b.minute>> \in StagedKeys(p) /\ b.minute \in Minute
      BY <1>1, <1>5, <2>1 DEF Keys
    <2> QED BY <1>2, <1>6, <2>2, MinutesAreKeys DEF SessionStaged
  <1>7. CASE <<p, e>> \notin Unfinished
    <2>1. x = WholeSession(p, m, e)
      BY <1>2, <1>7 DEF Answers
    <2>2. ASSUME NEW k \in Source[p][m][e] PROVE <<e, k>> \in StagedKeys(p)
      <3> DEFINE b == [day |-> e, minute |-> k, quotes |-> {}]
      <3>1. b \in x /\ b.day = e /\ b.minute = k
        BY <2>1 DEF WholeSession
      <3> HIDE DEF b
      <3> QED BY <1>1, <3>1 DEF Keys
    <2> QED BY <1>2, <1>4, <1>7, <2>2, MinutesAreKeys DEF SessionStaged
  <1> QED BY <1>6, <1>7

\* A row of the archive stays, a day that is recorded stays or its key is raced,
\* and a minute that is staged stays staged.
Grows ==
  /\ \A c \in Combo : Ingested(c) => Ingested(c)'
  /\ \A p \in Provider : StagedKeys(p) \subseteq StagedKeys(p)'

LEMMA TablesGrow == UNCHANGED tables => Grows
  BY DEF tables, Grows, Ingested, MarkedUnlessRaced, StagedKeys

LEMMA SessionsStayStaged ==
  ASSUME TypeOK, TypeOK', Grows, NEW p \in Provider, NEW d, SessionStaged(p, d)
  PROVE  SessionStaged(p, d)'
  <1>1. \A e : StagedMinutes(p, e) \subseteq StagedMinutes(p, e)'
    <2> TAKE e
    <2>1. StagedMinutes(p, e) = {m \in Minute : <<e, m>> \in StagedKeys(p)}
      BY MinutesAreKeys DEF TypeOK
    <2>2. StagedMinutes(p, e)' = {m \in Minute : <<e, m>> \in StagedKeys(p)'}
      BY DEF TypeOK, StagedMinutes, StagedKeys, Keys, StagedBar
    <2> QED BY <2>1, <2>2 DEF Grows
  <1> QED BY <1>1 DEF SessionStaged

LEMMA MergeKeys ==
  ASSUME NEW bars \in SUBSET Bar, NEW m \in Method, NEW quotes
  PROVE  Merge(bars, m, quotes) \in SUBSET Bar /\ Keys(Merge(bars, m, quotes)) = Keys(bars)
  <1> DEFINE new(b) == IF Matches(b, quotes) THEN [b EXCEPT !.quotes = @ \cup {m}] ELSE b
  <1>1. \A b \in bars : new(b) \in Bar /\ new(b).day = b.day /\ new(b).minute = b.minute
    BY DEF Bar
  <1>2. Merge(bars, m, quotes) = {new(b) : b \in bars}
    BY DEF Merge
  <1> HIDE DEF new
  <1> QED BY <1>1, <1>2 DEF Keys

LEMMA UpsertKeys ==
  ASSUME staged \subseteq StagedBar, NEW p \in Provider, NEW bars \in SUBSET Bar,
         staged' = Upsert(p, bars)
  PROVE  /\ staged' \subseteq StagedBar
         /\ \A q \in Provider : StagedKeys(q) \subseteq StagedKeys(q)'
         /\ Keys(bars) \subseteq StagedKeys(p)'
  <1> DEFINE new(b) == [provider |-> p, day |-> b.day, minute |-> b.minute, quotes |-> b.quotes]
  <1>1. \A b \in bars : /\ new(b) \in StagedBar /\ new(b) \in staged'
                        /\ new(b).provider = p /\ new(b).day = b.day /\ new(b).minute = b.minute
    BY DEF Upsert, Bar, StagedBar
  <1>2. staged' \subseteq StagedBar
    BY <1>1 DEF Upsert
  <1>3. Keys(bars) \subseteq StagedKeys(p)'
    <2> HIDE DEF new
    <2> QED BY <1>1 DEF Keys, StagedKeys
  <1>4. ASSUME NEW q \in Provider, NEW b \in staged, b.provider = q
        PROVE  <<b.day, b.minute>> \in StagedKeys(q)'
    <2>1. CASE q = p /\ Matches(b, bars)
      <3>1. PICK x \in bars : x.day = b.day /\ x.minute = b.minute
        BY <2>1 DEF Matches
      <3>2. <<b.day, b.minute>> \in Keys(bars)
        BY <3>1 DEF Keys
      <3> QED BY <1>3, <2>1, <3>2
    <2>2. CASE ~ (q = p /\ Matches(b, bars))
      <3>1. b \in staged'
        BY <1>4, <2>2 DEF Upsert
      <3> QED BY <1>4, <3>1 DEF StagedKeys, Keys
    <2> QED BY <2>1, <2>2
  <1>5. \A q \in Provider : StagedKeys(q) \subseteq StagedKeys(q)'
    BY <1>4 DEF StagedKeys, Keys
  <1> QED BY <1>2, <1>3, <1>5

-----------------------------------------------------------------------------
(* Transactions on the coverage tables.                                    *)

\* A step of slot s leaves the other process' transaction with what it selected.
TxnsKept(s) == \A t \in Slot \ {s} : txn'[t].key = txn[t].key /\ txn'[t].seen = txn[t].seen

LEMMA TxnStays ==
  ASSUME TypeOK, UNCHANGED txn, NEW s \in Slot
  PROVE  txn' \in [Slot -> Transaction] /\ TxnsKept(s) /\ txn'[s] = txn[s]
  BY DEF TypeOK, TxnsKept

LEMMA SelectTxn ==
  ASSUME TypeOK, NEW s \in Slot, NEW key \in CoverageKey, NEW days \in SUBSET Day,
         Select(s, key, days)
  PROVE  /\ txn' \in [Slot -> Transaction] /\ TxnsKept(s)
         /\ txn'[s].key = key /\ txn'[s].seen = days
  BY DEF TypeOK, Select, TxnsKept, Transaction

LEMMA RollbackTxn ==
  ASSUME TypeOK, NEW s \in Slot, txn' = [txn EXCEPT ![s] = NoTxn]
  PROVE  txn' \in [Slot -> Transaction] /\ TxnsKept(s)
  BY DEF TypeOK, NoTxn, TxnsKept, Transaction

LEMMA CommitTxn ==
  ASSUME TypeOK, NEW s \in Slot, txn[s].key \in CoverageKey, Commit(s)
  PROVE  /\ txn' \in [Slot -> Transaction] /\ TxnsKept(s)
         /\ raced \subseteq raced' /\ raced' \subseteq CoverageKey
         /\ ~ txn[s].fresh => txn[s].key \in raced'
  <1>1. \A t \in Slot \ {s} : txn'[t] = [txn[t] EXCEPT !.fresh = txn[t].fresh /\ txn[t].key # txn[s].key]
    BY DEF Commit
  <1>2. ASSUME NEW t \in Slot \ {s}
        PROVE  txn'[t] \in Transaction /\ txn'[t].key = txn[t].key /\ txn'[t].seen = txn[t].seen
    <2>1. PICK f \in BOOLEAN : txn'[t] = [txn[t] EXCEPT !.fresh = f]
      BY <1>1
    <2>2. txn[t] \in Transaction
      BY DEF TypeOK
    <2> QED BY <2>1, <2>2 DEF Transaction
  <1>3. txn'[s] \in Transaction
    BY DEF Commit, NoTxn, Transaction
  <1>4. txn' \in [Slot -> Transaction]
    BY <1>2, <1>3 DEF Commit
  <1> QED BY <1>2, <1>4 DEF Commit, TxnsKept, TypeOK

\* The days a commit leaves: some day is lost only if the selection was stale.
LEMMA CommittedDays ==
  ASSUME NEW before \in SUBSET Day, NEW selected \in SUBSET Day, NEW day \in Day, NEW fresh,
         NEW days \in LeftBy(before, selected, day, fresh)
  PROVE  /\ days \in SUBSET Day
         /\ \A d \in days \ before : d = day \/ d \in selected
         /\ (before \ days # {} \/ day \notin days) => ~ fresh
  BY DEF LeftBy

-----------------------------------------------------------------------------
(* What a step leaves true.                                                *)

\* A step of slot s within its run; the other process does not move.
Proceeds(s) ==
  /\ proc'[s].tool = proc[s].tool /\ proc'[s].job = proc[s].job
  /\ proc'[s].days = proc[s].days
  /\ proc'[s].todo \subseteq proc[s].todo
  /\ \A t \in Slot \ {s} : proc'[t] = proc[t]
  /\ TxnsKept(s)

\* Slot s starts or ends a run.
Resets(s) ==
  /\ proc'[s].at = "next" /\ proc'[s].held = {} /\ proc'[s].handled = {}
  /\ proc'[s].tool = "stage" => \A c \in proc'[s].todo : c[2] = Primary(c[1])
  /\ \A t \in Slot \ {s} : proc'[t] = proc[t]

LEMMA HeldKept ==
  ASSUME TypeOK, Grows, NEW t \in Slot, proc'[t] = proc[t], HeldInv(proc[t])
  PROVE  HeldInv(proc[t])'
  <1>1. proc[t].at \in {"cover", "confirm"} => proc[t].key[1] \in Provider
    <2>1. proc[t].at # "next" => proc[t].key \in Combo
      BY DEF HeldInv, TypeOK, Process
    <2> QED BY <2>1 DEF Combo
  <1>2. proc[t].at \in {"cover", "confirm"} /\ proc[t].key[3] \notin Weekend =>
          Keys(proc[t].held) \subseteq StagedKeys(proc[t].key[1])'
    BY <1>1 DEF HeldInv, Grows
  <1> QED BY <1>2 DEF HeldInv, ArePayload

LEMMA TxnKept ==
  ASSUME TypeOK, TypeOK', Grows, NEW t \in Slot, proc'[t] = proc[t], HeldInv(proc[t]),
         txn'[t].key = txn[t].key, txn'[t].seen = txn[t].seen, TxnInv(proc[t], txn[t])
  PROVE  TxnInv(proc[t], txn[t])'
  <1>1. proc[t].at = "confirm" => proc[t].key[1] \in Provider
    <2>1. proc[t].at # "next" => proc[t].key \in Combo
      BY DEF HeldInv, TypeOK, Process
    <2> QED BY <2>1 DEF Combo
  <1>2. ASSUME proc[t].at = "confirm", NEW d \in txn[t].seen \ Weekend
        PROVE  SessionStaged(proc[t].key[1], d)'
    <2>1. SessionStaged(proc[t].key[1], d)
      BY <1>2 DEF TxnInv
    <2> HIDE DEF TxnInv
    <2> QED BY <1>1, <1>2, <2>1, SessionsStayStaged
  <1> QED BY <1>2 DEF TxnInv

\* New handled days need their reason, old ones keep it.
LEMMA HandledKept ==
  ASSUME TypeOK, TypeOK', JobInv, Grows, NEW t \in Slot, HandledInv(proc[t]),
         proc'[t].tool = proc[t].tool, proc'[t].job = proc[t].job,
         proc'[t].todo \subseteq proc[t].todo,
         \A d \in proc'[t].handled \ proc[t].handled :
           /\ proc[t].tool = "ingest" /\ proc[t].job # NoJob =>
                \A c \in Work(RunOf(proc[t].job).combos, {d}) : Ingested(c)'
           /\ proc[t].tool = "stage" =>
                d \notin Weekend /\ \E p \in Provider : SessionStaged(p, d)'
  PROVE  HandledInv(proc[t])'
  <1>1. ASSUME proc[t].tool = "ingest", proc[t].job # NoJob, NEW d \in proc'[t].handled,
               NEW c \in Work(RunOf(proc[t].job).combos, {d})
        PROVE  Ingested(c)'
    <2>1. CASE d \in proc[t].handled
      <3>1. Ingested(c)
        BY <1>1, <2>1 DEF HandledInv
      <3>2. proc[t].job \in IngestNames(Item) \cup {StageName(Item)} /\ d \in Day
        BY <1>1 DEF JobInv, Slot, TypeOK, Process
      <3>3. c \in Combo
        BY <1>1, <3>2, JobRun, WorkType
      <3> QED BY <3>1, <3>3 DEF Grows
    <2> QED BY <1>1, <2>1
  <1>2. ASSUME proc[t].tool = "stage", NEW d \in proc'[t].handled
        PROVE  d \notin Weekend /\ \E p \in Provider : SessionStaged(p, d)'
    <2>1. CASE d \in proc[t].handled
      <3>1. d \notin Weekend /\ \E p \in Provider : SessionStaged(p, d)
        BY <1>2, <2>1 DEF HandledInv
      <3> QED BY <3>1, SessionsStayStaged
    <2> QED BY <1>2, <2>1
  <1>3. proc[t].tool = "stage" => \A c \in proc'[t].todo : c[2] = Primary(c[1])
    BY DEF HandledInv
  <1> QED BY <1>1, <1>2, <1>3 DEF HandledInv

LEMMA CoveredKept ==
  ASSUME TypeOK, TypeOK', Grows, CoveredIsStaged,
         \A p \in Provider : \A d \in covered'[p] \ covered[p] :
           d \notin Weekend => SessionStaged(p, d)'
  PROVE  CoveredIsStaged'
  <1>1. ASSUME NEW p \in Provider, NEW d \in covered'[p], d \notin Weekend
        PROVE  SessionStaged(p, d)'
    <2>1. CASE d \in covered[p]
      <3>1. SessionStaged(p, d)
        BY <1>1, <2>1 DEF CoveredIsStaged
      <3> QED BY <3>1, SessionsStayStaged
    <2> QED BY <1>1, <2>1
  <1> QED BY <1>1 DEF CoveredIsStaged

LEMMA EveryKept ==
  ASSUME TypeOK, TypeOK', Grows, EverySessionStaged, StageName(Item) \in done
  PROVE  \A d \in (Item.first .. Item.last) \ Weekend : \E p \in Provider : SessionStaged(p, d)'
  BY SessionsStayStaged DEF EverySessionStaged

\* What the done jobs ingested stays.
LEMMA IngestedKept ==
  ASSUME TypeOK, Grows, DoneInv
  PROVE  \A n \in done \cap IngestNames(Item) :
           \A c \in Work(RunOf(n).combos, {n.first}) : Ingested(c)'
  <1> SUFFICES ASSUME NEW n \in done \cap IngestNames(Item),
                      NEW c \in Work(RunOf(n).combos, {n.first})
               PROVE  Ingested(c)'
    OBVIOUS
  <1>1. Ingested(c)
    BY DEF DoneInv
  <1>2. {n.first} \in SUBSET Day /\ RunOf(n).combos \in SUBSET (Provider \X Method)
    BY IngestJob, JobRun, ItemAssumption
  <1>3. c \in Combo
    BY <1>2, WorkType
  <1> QED BY <1>1, <1>3 DEF Grows

LEMMA DoneKept ==
  ASSUME TypeOK, TypeOK', Grows, DoneInv, done' = done
  PROVE  DoneInv'
  <1>1. \A n \in done \cap IngestNames(Item) :
          \A c \in Work(RunOf(n).combos, {n.first}) : Ingested(c)'
    BY IngestedKept
  <1>2. StageName(Item) \in done => IngestNames(Item) \subseteq done
    BY DEF DoneInv
  <1>3. StageName(Item) \in done => EverySessionStaged'
    BY EveryKept DEF DoneInv, EverySessionStaged
  <1> QED BY <1>1, <1>2, <1>3 DEF DoneInv

LEMMA JobKept ==
  ASSUME JobInv, done \subseteq done', NEW s \in Slot, Proceeds(s)
  PROVE  JobInv'
  <1>1. /\ proc'["dispatch"].tool = proc["dispatch"].tool
        /\ proc'["dispatch"].job = proc["dispatch"].job
        /\ proc'["dispatch"].days = proc["dispatch"].days
        /\ proc'["dispatch"].todo \subseteq proc["dispatch"].todo
        /\ proc'["hand"].job = proc["hand"].job
    BY DEF Proceeds, Slot
  <1> QED BY <1>1 DEF JobInv

\* A step within a run keeps the invariant, if it does so for what it writes.
LEMMA WorkStep ==
  ASSUME PipelineInv, TypeOK', Grows, NEW s \in Slot, Proceeds(s), done' = done,
         ArchiveInv', HeldInv(proc[s])', TxnInv(proc[s], txn[s])',
         \A p \in Provider : \A d \in covered'[p] \ covered[p] :
           d \notin Weekend => SessionStaged(p, d)',
         \A d \in proc'[s].handled \ proc[s].handled :
           /\ proc[s].tool = "ingest" /\ proc[s].job # NoJob =>
                \A c \in Work(RunOf(proc[s].job).combos, {d}) : Ingested(c)'
           /\ proc[s].tool = "stage" =>
                d \notin Weekend /\ \E p \in Provider : SessionStaged(p, d)'
  PROVE  PipelineInv'
  <1>1. TypeOK /\ CoveredIsStaged /\ DoneInv /\ JobInv
    BY DEF PipelineInv
  <1>2. ASSUME NEW t \in Slot
        PROVE  HeldInv(proc[t])' /\ HandledInv(proc[t])' /\ TxnInv(proc[t], txn[t])'
    <2>1. HeldInv(proc[t]) /\ HandledInv(proc[t]) /\ TxnInv(proc[t], txn[t])
      BY DEF PipelineInv
    <2>2. CASE t = s
      BY <1>1, <2>1, <2>2, HandledKept DEF Proceeds
    <2>3. CASE t # s
      <3>1. proc'[t] = proc[t] /\ txn'[t].key = txn[t].key /\ txn'[t].seen = txn[t].seen
        BY <2>3 DEF Proceeds, TxnsKept
      <3>2. HeldInv(proc[t])' /\ TxnInv(proc[t], txn[t])'
        BY <1>1, <2>1, <3>1, HeldKept, TxnKept
      <3>3. HandledInv(proc[t])'
        BY <1>1, <2>1, <3>1, HandledKept
      <3> QED BY <3>2, <3>3
    <2> QED BY <2>2, <2>3
  <1>3. CoveredIsStaged'
    BY <1>1, CoveredKept
  <1>4. DoneInv' /\ JobInv'
    BY <1>1, DoneKept, JobKept
  <1> QED BY <1>2, <1>3, <1>4 DEF PipelineInv

\* So does the start or the end of a run.
LEMMA ResetStep ==
  ASSUME PipelineInv, TypeOK', NEW s \in Slot, Resets(s), TxnsKept(s), JobInv', DoneInv',
         UNCHANGED tables
  PROVE  PipelineInv'
  <1>1. TypeOK /\ CoveredIsStaged /\ ArchiveInv /\ JobInv
    BY DEF PipelineInv
  <1>2. Grows /\ UNCHANGED <<archive, covered>>
    BY TablesGrow DEF tables
  <1>3. ASSUME NEW t \in Slot
        PROVE  HeldInv(proc[t])' /\ HandledInv(proc[t])' /\ TxnInv(proc[t], txn[t])'
    <2>1. HeldInv(proc[t]) /\ HandledInv(proc[t]) /\ TxnInv(proc[t], txn[t])
      BY DEF PipelineInv
    <2>2. CASE t = s
      BY <2>2 DEF Resets, HeldInv, HandledInv, TxnInv
    <2>3. CASE t # s
      <3>1. proc'[t] = proc[t] /\ txn'[t].key = txn[t].key /\ txn'[t].seen = txn[t].seen
        BY <2>3 DEF Resets, TxnsKept
      <3>2. HeldInv(proc[t])' /\ TxnInv(proc[t], txn[t])'
        BY <1>1, <1>2, <2>1, <3>1, HeldKept, TxnKept
      <3>3. HandledInv(proc[t])'
        BY <1>1, <1>2, <2>1, <3>1, HandledKept
      <3> QED BY <3>2, <3>3
    <2> QED BY <2>2, <2>3
  <1>4. CoveredIsStaged'
    BY <1>1, <1>2, CoveredKept
  <1>5. ArchiveInv'
    BY <1>1, <1>2 DEF ArchiveInv
  <1> QED BY <1>3, <1>4, <1>5 DEF PipelineInv

-----------------------------------------------------------------------------
(* The steps.                                                              *)

LEMMA InitInv == Init => PipelineInv
  <1> SUFFICES ASSUME Init PROVE PipelineInv
    OBVIOUS
  <1>1. NoJob # StageName(Item) /\ NoJob \notin IngestNames(Item)
    BY StageJob
  <1>2. TypeOK
    BY DEF Init, TypeOK, Process, Idle, NoTxn, Transaction
  <1>3. ArchiveInv /\ CoveredIsStaged /\ DoneInv
    BY DEF Init, ArchiveInv, CoveredIsStaged, DoneInv
  <1>4. \A s \in Slot : HeldInv(proc[s]) /\ HandledInv(proc[s]) /\ TxnInv(proc[s], txn[s])
    BY DEF Init, Idle, HeldInv, HandledInv, TxnInv
  <1>5. JobInv
    BY DEF Init, Idle, JobInv, Slot
  <1> QED BY <1>2, <1>3, <1>4, <1>5 DEF PipelineInv

LEMMA FaultType ==
  ASSUME faults \in Nat, Works \/ Fails
  PROVE  faults' \in Nat
  BY DEF Works, Fails

\* How a run starts: with the work of its combinations, or of those of the
\* providers that connected.
LEMMA BeginStep ==
  ASSUME TypeOK, NEW s \in Slot, NEW job \in PlanNames(Item) \cup {NoJob}, NEW run,
         run.tool \in {"ingest", "stage"}, run.days \in SUBSET Day,
         run.combos \in SUBSET (Provider \X Method),
         run.tool = "stage" => \A c \in run.combos : c[2] = Primary(c[1]),
         Begin(s, job, run)
  PROVE  /\ proc' \in [Slot -> Process] /\ faults' \in Nat /\ Resets(s)
         /\ \/ proc'[s] = Idle
            \/ /\ proc'[s].tool = run.tool /\ proc'[s].job = job /\ proc'[s].days = run.days
               /\ proc'[s].todo \subseteq Work(run.combos, run.days)
  <1>0. \A c \in Work(run.combos, run.days) : run.tool = "stage" => c[2] = Primary(c[1])
    BY DEF Work
  <1>1. /\ Idle \in Process /\ Idle.at = "next" /\ Idle.handled = {} /\ Idle.held = {}
        /\ Idle.todo = {}
    BY DEF Idle, Process
  <1>2. ASSUME NEW combos \in SUBSET run.combos
        PROVE  /\ Started(job, run, combos) \in Process
               /\ Started(job, run, combos).at = "next" /\ Started(job, run, combos).handled = {}
               /\ Started(job, run, combos).held = {}
               /\ Started(job, run, combos).tool = run.tool
               /\ Started(job, run, combos).job = job
               /\ Started(job, run, combos).days = run.days
               /\ Started(job, run, combos).todo \subseteq Work(run.combos, run.days)
    <2>1. Work(combos, run.days) \in SUBSET Combo
      BY WorkType
    <2>2. Work(combos, run.days) \subseteq Work(run.combos, run.days)
      BY DEF Work
    <2> QED BY <1>1, <2>1, <2>2 DEF Started, Idle, Process
  <1>3. \E q : /\ proc' = [proc EXCEPT ![s] = q]
               /\ q = Idle \/ \E combos \in SUBSET run.combos : q = Started(job, run, combos)
    <2>1. CASE proc' = [proc EXCEPT ![s] = Started(job, run, run.combos)]
      BY <2>1
    <2>2. CASE ~ proc' = [proc EXCEPT ![s] = Started(job, run, run.combos)]
      <3> DEFINE connected == WithoutGateway(run.combos)
      <3>1. proc' = [proc EXCEPT ![s] = IF connected = {} THEN Idle
                                        ELSE Started(job, run, connected)]
        BY <2>2 DEF Begin
      <3>2. connected \in SUBSET run.combos
        BY DEF WithoutGateway
      <3> HIDE DEF connected
      <3> QED BY <3>1, <3>2
    <2> QED BY <2>1, <2>2
  <1>4. PICK q : /\ proc' = [proc EXCEPT ![s] = q]
                 /\ q = Idle \/ \E combos \in SUBSET run.combos : q = Started(job, run, combos)
    BY <1>3
  <1>5. /\ q \in Process /\ q.at = "next" /\ q.handled = {} /\ q.held = {}
        /\ q.tool = "stage" => \A c \in q.todo : c[2] = Primary(c[1])
    BY <1>0, <1>1, <1>2, <1>4
  <1>6. /\ proc' \in [Slot -> Process] /\ proc'[s] = q
        /\ \A t \in Slot \ {s} : proc'[t] = proc[t]
    BY <1>4, <1>5 DEF TypeOK
  <1>7. faults' \in Nat
    BY FaultType DEF TypeOK, Begin
  <1> QED BY <1>2, <1>4, <1>5, <1>6, <1>7 DEF Resets

LEMMA DispatchStep == PipelineInv /\ Dispatch => PipelineInv'
  <1> SUFFICES ASSUME PipelineInv, Dispatch PROVE PipelineInv'
    OBVIOUS
  <1> DEFINE s == "dispatch"
  <1>1. TypeOK /\ DoneInv /\ JobInv /\ s \in Slot
    BY DEF PipelineInv, Slot
  <1>2. UNCHANGED tables /\ UNCHANGED <<done, byHand, txn>> /\ Grows
    BY TablesGrow DEF Dispatch
  <1>3. PICK n \in (IngestNames(Item) \cup {StageName(Item)}) \ done :
          DependsOn(Item, n) \subseteq done /\ Begin(s, n, RunOf(n))
    BY DEF Dispatch
  <1>4. n \in PlanNames(Item) \cup {NoJob}
    BY DEF PlanNames
  <1>5. /\ RunOf(n).tool \in {"ingest", "stage"} /\ RunOf(n).days \in SUBSET Day
        /\ RunOf(n).combos \in SUBSET (Provider \X Method)
        /\ RunOf(n).tool = "stage" => \A c \in RunOf(n).combos : c[2] = Primary(c[1])
    BY JobRun
  <1>6. /\ proc' \in [Slot -> Process] /\ faults' \in Nat /\ Resets(s)
        /\ \/ proc'[s] = Idle
           \/ /\ proc'[s].tool = RunOf(n).tool /\ proc'[s].job = n
              /\ proc'[s].days = RunOf(n).days
              /\ proc'[s].todo \subseteq Work(RunOf(n).combos, RunOf(n).days)
    BY <1>1, <1>3, <1>4, <1>5, BeginStep
  <1>7. TypeOK'
    BY <1>1, <1>2, <1>6 DEF TypeOK, tables
  <1>8. DoneInv'
    BY <1>1, <1>2, <1>7, DoneKept
  <1>9. JobInv'
    <2>1. proc'["hand"].job = NoJob
      BY <1>1, <1>6 DEF Resets, Slot, JobInv
    <2>2. Idle.tool = "none"
      BY DEF Idle
    <2> QED BY <1>2, <1>3, <1>6, <2>1, <2>2 DEF JobInv
  <1> HIDE DEF s
  <1>10. TxnsKept(s)
    BY <1>1, <1>2, TxnStays
  <1> QED BY <1>1, <1>2, <1>6, <1>7, <1>8, <1>9, <1>10, ResetStep

LEMMA HandStep == PipelineInv /\ StartByHand => PipelineInv'
  <1> SUFFICES ASSUME PipelineInv, StartByHand PROVE PipelineInv'
    OBVIOUS
  <1> DEFINE s == "hand"
  <1>1. TypeOK /\ DoneInv /\ JobInv /\ s \in Slot
    BY DEF PipelineInv, Slot
  <1>2. UNCHANGED tables /\ UNCHANGED <<done, txn>> /\ Grows
    BY TablesGrow DEF StartByHand
  <1>3. PICK r \in ByHand \ byHand : Begin(s, NoJob, r) /\ byHand' = byHand \cup {r}
    BY DEF StartByHand
  <1>4. /\ r.tool \in {"ingest", "stage"} /\ r.days \in SUBSET Day
        /\ r.combos \in SUBSET (Provider \X Method)
        /\ r.tool = "stage" => \A c \in r.combos : c[2] = Primary(c[1])
    BY HandRun
  <1>5. /\ proc' \in [Slot -> Process] /\ faults' \in Nat /\ Resets(s)
        /\ proc'[s] = Idle \/ proc'[s].job = NoJob
    BY <1>1, <1>3, <1>4, BeginStep
  <1>6. TypeOK'
    BY <1>1, <1>2, <1>3, <1>5 DEF TypeOK, tables
  <1>7. DoneInv'
    BY <1>1, <1>2, <1>6, DoneKept
  <1>8. JobInv'
    <2>1. proc'["dispatch"] = proc["dispatch"]
      BY <1>5 DEF Resets, Slot
    <2>2. Idle.job = NoJob
      BY DEF Idle
    <2> QED BY <1>1, <1>2, <1>5, <2>1, <2>2 DEF JobInv
  <1> HIDE DEF s
  <1>9. TxnsKept(s)
    BY <1>1, <1>2, TxnStays
  <1> QED BY <1>1, <1>2, <1>5, <1>6, <1>7, <1>8, <1>9, ResetStep

LEMMA IdleProcess ==
  /\ Idle \in Process /\ Idle.at = "next" /\ Idle.handled = {} /\ Idle.held = {}
  /\ Idle.tool = "none" /\ Idle.job = NoJob /\ Idle.todo = {}
  BY DEF Idle, Process

\* The end of a process, in whatever way.
LEMMA Stops ==
  ASSUME TypeOK, NEW s \in Slot, proc' = [proc EXCEPT ![s] = Idle]
  PROVE  /\ proc' \in [Slot -> Process] /\ Resets(s) /\ proc'[s] = Idle
         /\ JobInv /\ done \subseteq done' => JobInv'
  <1>1. proc' \in [Slot -> Process] /\ proc'[s] = Idle /\ \A t \in Slot \ {s} : proc'[t] = proc[t]
    BY IdleProcess DEF TypeOK
  <1>2. Resets(s)
    BY <1>1, IdleProcess DEF Resets
  <1>3. ASSUME JobInv, done \subseteq done' PROVE JobInv'
    BY <1>1, <1>3, IdleProcess DEF JobInv, Slot
  <1> QED BY <1>1, <1>2, <1>3

LEMMA CrashStep == ASSUME NEW s \in Slot PROVE PipelineInv /\ Crash(s) => PipelineInv'
  <1> SUFFICES ASSUME PipelineInv, Crash(s) PROVE PipelineInv'
    OBVIOUS
  <1>1. TypeOK /\ DoneInv /\ JobInv
    BY DEF PipelineInv
  <1>2. /\ UNCHANGED tables /\ UNCHANGED <<done, byHand>> /\ Grows
        /\ proc' = [proc EXCEPT ![s] = Idle] /\ txn' = [txn EXCEPT ![s] = NoTxn]
    BY TablesGrow DEF Crash, Rollback
  <1>3. txn' \in [Slot -> Transaction] /\ TxnsKept(s)
    BY <1>1, <1>2, RollbackTxn
  <1>4. proc' \in [Slot -> Process] /\ Resets(s) /\ JobInv'
    BY <1>1, <1>2, Stops
  <1>5. TypeOK'
    BY <1>1, <1>2, <1>3, <1>4, FaultType DEF TypeOK, Crash, tables
  <1>6. DoneInv'
    BY <1>1, <1>2, <1>5, DoneKept
  <1> QED BY <1>2, <1>3, <1>4, <1>5, <1>6, ResetStep

LEMMA EndStep == ASSUME NEW s \in Slot PROVE PipelineInv /\ End(s) => PipelineInv'
  <1> SUFFICES ASSUME PipelineInv, End(s) PROVE PipelineInv'
    OBVIOUS
  <1>1. TypeOK /\ DoneInv /\ JobInv /\ HandledInv(proc[s])
    BY DEF PipelineInv
  <1>2. /\ UNCHANGED tables /\ UNCHANGED <<byHand, txn, faults>> /\ Grows
        /\ proc' = [proc EXCEPT ![s] = Idle]
    BY TablesGrow DEF End
  <1>3. proc' \in [Slot -> Process] /\ Resets(s) /\ (done \subseteq done' => JobInv')
    BY <1>1, <1>2, Stops
  <1>4. txn' \in [Slot -> Transaction] /\ TxnsKept(s)
    BY <1>1, <1>2, TxnStays
  <1>7. CASE done' = done
    <2>1. TypeOK'
      BY <1>1, <1>2, <1>3, <1>4, <1>7 DEF TypeOK, tables
    <2>2. DoneInv'
      BY <1>1, <1>2, <1>7, <2>1, DoneKept
    <2> QED BY <1>2, <1>3, <1>4, <1>7, <2>1, <2>2, ResetStep
  <1>8. CASE done' # done
    <2> DEFINE n == proc[s].job
    <2>1. s = "dispatch" /\ Succeeded(proc[s]) /\ done' = done \cup {n} /\ proc[s].tool # "none"
      BY <1>8 DEF End
    <2>2. /\ n \in IngestNames(Item) \cup {StageName(Item)}
          /\ DependsOn(Item, n) \subseteq done
          /\ proc[s].tool = RunOf(n).tool /\ proc[s].days = RunOf(n).days
      BY <1>1, <2>1 DEF JobInv
    <2>3. TypeOK'
      BY <1>1, <1>2, <1>3, <1>4, <2>1, <2>2 DEF TypeOK, PlanNames, tables
    <2>4. JobInv'
      BY <1>3, <2>1
    <2>5. \A k \in done \cap IngestNames(Item) :
            \A c \in Work(RunOf(k).combos, {k.first}) : Ingested(c)'
      BY <1>1, <1>2, IngestedKept
    <2>6. CASE n \in IngestNames(Item)
      <3>1. RunOf(n).tool = "ingest" /\ RunOf(n).days = {n.first} /\ n # NoJob
            /\ n # StageName(Item) /\ n.first \in Day
        BY <2>6, IngestJob, StageJob, ItemAssumption
      <3>2. n.first \in proc[s].handled
        BY <2>1, <2>2, <3>1 DEF Succeeded
      <3>3. ASSUME NEW c \in Work(RunOf(n).combos, {n.first})
            PROVE  Ingested(c)'
        <4>1. Ingested(c)
          BY <1>1, <2>2, <3>1, <3>2 DEF HandledInv
        <4>2. c \in Combo
          BY <2>6, <3>1, JobRun, WorkType
        <4> QED BY <1>2, <4>1, <4>2 DEF Grows
      <3>4. StageName(Item) \in done' => StageName(Item) \in done
        BY <2>1, <3>1
      <3>5. StageName(Item) \in done => IngestNames(Item) \subseteq done'
        BY <1>1, <2>1 DEF DoneInv
      <3>6. StageName(Item) \in done => EverySessionStaged'
        BY <1>1, <1>2, <2>3, EveryKept DEF DoneInv, EverySessionStaged
      <3>7. DoneInv'
        BY <2>1, <2>5, <3>3, <3>4, <3>5, <3>6 DEF DoneInv
      <3> QED BY <1>2, <1>3, <1>4, <2>3, <2>4, <3>7, ResetStep
    <2>7. CASE n = StageName(Item)
      <3>1. RunOf(n).tool = "stage" /\ RunOf(n).days = Item.first .. Item.last
            /\ n \notin IngestNames(Item) /\ IngestNames(Item) \subseteq done
        BY <2>2, <2>7, StageJob
      <3>2. ASSUME NEW d \in (Item.first .. Item.last) \ Weekend
            PROVE  \E p \in Provider : SessionStaged(p, d)'
        <4>1. d \in proc[s].handled
          BY <2>1, <2>2, <3>1, <3>2 DEF Succeeded
        <4>2. \E p \in Provider : SessionStaged(p, d)
          BY <1>1, <2>2, <3>1, <4>1 DEF HandledInv
        <4> QED BY <1>1, <1>2, <2>3, <4>2, SessionsStayStaged
      <3>3. EverySessionStaged'
        BY <3>2 DEF EverySessionStaged
      <3>4. DoneInv'
        BY <2>1, <2>5, <3>1, <3>3 DEF DoneInv
      <3> QED BY <1>2, <1>3, <1>4, <2>3, <2>4, <3>4, ResetStep
    <2> QED BY <2>2, <2>6, <2>7
  <1> QED BY <1>7, <1>8

\* Assigning a process to one slot.
LEMMA OneSlot ==
  ASSUME TypeOK, NEW s \in Slot, NEW q \in Process, proc' = [proc EXCEPT ![s] = q]
  PROVE  /\ proc' \in [Slot -> Process] /\ proc'[s] = q
         /\ \A t \in Slot \ {s} : proc'[t] = proc[t]
  BY DEF TypeOK

\* A step within a run that writes to no table.
LEMMA Moves ==
  ASSUME PipelineInv, NEW s \in Slot, NEW q \in Process, proc' = [proc EXCEPT ![s] = q],
         q.tool = proc[s].tool, q.job = proc[s].job, q.days = proc[s].days,
         q.todo \subseteq proc[s].todo, q.handled = proc[s].handled,
         faults' \in Nat, UNCHANGED tables, UNCHANGED <<done, byHand>>,
         txn' \in [Slot -> Transaction], TxnsKept(s), HeldInv(q), TxnInv(q, txn'[s])
  PROVE  PipelineInv'
  <1>1. TypeOK /\ ArchiveInv
    BY DEF PipelineInv
  <1>2. /\ proc' \in [Slot -> Process] /\ proc'[s] = q
        /\ \A t \in Slot \ {s} : proc'[t] = proc[t]
    BY <1>1, OneSlot
  <1>3. UNCHANGED <<archive, marked, staged, covered, raced>>
    BY DEF tables
  <1>4. TypeOK'
    BY <1>1, <1>2, <1>3 DEF TypeOK
  <1>5. Grows /\ Proceeds(s)
    BY <1>2, TablesGrow DEF Proceeds
  <1>6. ArchiveInv'
    BY <1>1, <1>3 DEF ArchiveInv
  <1>7. HeldInv(proc[s])'
    BY <1>2, <1>3 DEF HeldInv, ArePayload, StagedKeys
  <1>8. \A p, d : SessionStaged(p, d)' <=> SessionStaged(p, d)
    BY <1>3 DEF SessionStaged, StagedMinutes
  <1>9. TxnInv(proc[s], txn[s])'
    BY <1>2, <1>8 DEF TxnInv
  <1> QED BY <1>2, <1>3, <1>4, <1>5, <1>6, <1>7, <1>9, WorkStep

\* Leaving out a combination: the loop goes on with nothing written.
LEMMA Skip ==
  ASSUME PipelineInv, NEW s \in Slot, NEW c, proc[s].at = "next",
         proc' = [proc EXCEPT ![s].todo = Done(s, c)], faults' \in Nat,
         UNCHANGED tables, UNCHANGED <<done, byHand, txn>>
  PROVE  PipelineInv'
  <1>1. TypeOK /\ HeldInv(proc[s])
    BY DEF PipelineInv
  <1> DEFINE q == [proc[s] EXCEPT !.todo = Done(s, c)]
  <1>2. /\ q \in Process /\ q.tool = proc[s].tool /\ q.job = proc[s].job /\ q.days = proc[s].days
        /\ q.todo \subseteq proc[s].todo /\ q.at = "next" /\ q.handled = proc[s].handled
        /\ q.held = proc[s].held
    <2>1. proc[s] \in Process
      BY <1>1 DEF TypeOK
    <2> QED BY <2>1 DEF Process, Done
  <1>3. proc' = [proc EXCEPT ![s] = q]
    OBVIOUS
  <1> HIDE DEF q
  <1>4. HeldInv(q) /\ TxnInv(q, txn'[s])
    BY <1>1, <1>2 DEF HeldInv, TxnInv
  <1>5. txn' \in [Slot -> Transaction] /\ TxnsKept(s)
    BY <1>1, TxnStays
  <1> QED BY <1>2, <1>3, <1>4, <1>5, Moves

\* The combination a process works on is one of the archive.
LEMMA TodoType ==
  ASSUME TypeOK, NEW s \in Slot, NEW c \in proc[s].todo
  PROVE  /\ c \in Combo /\ c[1] \in Provider /\ c[2] \in Method /\ c[3] \in Day
         /\ c = <<c[1], c[2], c[3]>>
         /\ ArchiveKey(c) \in CoverageKey /\ StagingKey(c) \in CoverageKey
         /\ ArchiveKey(c) \in Provider \X Method
  <1>1. c \in Combo
    BY DEF TypeOK, Process
  <1> QED BY <1>1 DEF Combo, ArchiveKey, StagingKey, CoverageKey

\* A job of quant-ingest has one combination for a day.
LEMMA OneCombo ==
  ASSUME TypeOK, JobInv, NEW s \in Slot, proc[s].tool = "ingest", proc[s].job # NoJob,
         NEW c \in proc[s].todo
  PROVE  Work(RunOf(proc[s].job).combos, {c[3]}) \subseteq {c}
  <1> DEFINE n == proc[s].job
  <1>1. s = "dispatch"
    BY DEF JobInv, Slot
  <1>2. /\ n \in IngestNames(Item) \cup {StageName(Item)} /\ RunOf(n).tool = "ingest"
        /\ c \in Work(RunOf(n).combos, proc[s].days)
    BY <1>1 DEF JobInv
  <1>3. n \in IngestNames(Item)
    BY <1>2, StageJob
  <1>4. PICK p \in Provider, m \in Method : RunOf(n).combos = {<<p, m>>}
    BY <1>3, IngestJob
  <1>5. c[1] = p /\ c[2] = m
    BY <1>2, <1>4 DEF Work
  <1>6. c = <<p, m, c[3]>>
    BY <1>5, TodoType
  <1> QED BY <1>4, <1>6 DEF Work

LEMMA MarkWeekendStep ==
  ASSUME NEW s \in Slot, NEW c PROVE PipelineInv /\ MarkWeekend(s, c) => PipelineInv'
  <1> SUFFICES ASSUME PipelineInv, MarkWeekend(s, c) PROVE PipelineInv'
    OBVIOUS
  <1>1. TypeOK /\ HeldInv(proc[s])
    BY DEF PipelineInv
  <1>2. /\ proc[s].tool = "ingest" /\ c \in proc[s].todo /\ proc[s].at = "next"
        /\ NeverHasData(c[1], c[3])
        /\ UNCHANGED tables /\ UNCHANGED <<done, byHand, faults>>
        /\ proc' = [proc EXCEPT ![s].at = "mark", ![s].key = c]
    BY DEF MarkWeekend, IsNext
  <1> DEFINE q == [proc[s] EXCEPT !.at = "mark", !.key = c]
  <1>3. c \in Combo /\ ArchiveKey(c) \in CoverageKey /\ ArchiveKey(c) \in Provider \X Method
    BY <1>1, <1>2, TodoType
  <1>4. /\ q \in Process /\ q.tool = proc[s].tool /\ q.job = proc[s].job /\ q.days = proc[s].days
        /\ q.todo = proc[s].todo /\ q.at = "mark" /\ q.key = c /\ q.held = proc[s].held
        /\ q.handled = proc[s].handled
    <2>1. proc[s] \in Process
      BY <1>1 DEF TypeOK
    <2> QED BY <1>3, <2>1 DEF Process
  <1>5. proc' = [proc EXCEPT ![s] = q]
    BY <1>1, <1>2 DEF TypeOK, Process
  <1> HIDE DEF q
  <1>6. marked[ArchiveKey(c)] \in SUBSET Day
    BY <1>1, <1>3 DEF TypeOK
  <1>7. txn' \in [Slot -> Transaction] /\ TxnsKept(s) /\ txn'[s].key = ArchiveKey(c)
    BY <1>1, <1>3, <1>6, SelectTxn DEF MarkWeekend
  <1>8. HeldInv(q) /\ TxnInv(q, txn'[s])
    BY <1>1, <1>2, <1>4, <1>7 DEF HeldInv, TxnInv
  <1>9. faults' \in Nat
    BY <1>1, <1>2 DEF TypeOK
  <1> QED BY <1>2, <1>4, <1>5, <1>7, <1>8, <1>9, Moves

LEMMA CoverWeekendStep ==
  ASSUME NEW s \in Slot, NEW c PROVE PipelineInv /\ CoverWeekend(s, c) => PipelineInv'
  <1> SUFFICES ASSUME PipelineInv, CoverWeekend(s, c) PROVE PipelineInv'
    OBVIOUS
  <1>1. TypeOK /\ HeldInv(proc[s]) /\ HandledInv(proc[s]) /\ CoveredIsStaged
    BY DEF PipelineInv
  <1>2. /\ proc[s].tool = "stage" /\ c \in proc[s].todo /\ proc[s].at = "next"
        /\ c[3] \in Weekend
        /\ UNCHANGED tables /\ UNCHANGED <<done, byHand, faults>>
    BY DEF CoverWeekend, IsNext
  <1>3. faults' \in Nat
    BY <1>1, <1>2 DEF TypeOK
  <1>4. CASE proc' = [proc EXCEPT ![s].todo = Done(s, c)] /\ UNCHANGED txn
    BY <1>2, <1>3, <1>4, Skip
  <1>5. CASE /\ proc' = [proc EXCEPT ![s].at = "confirm", ![s].key = c]
             /\ Select(s, StagingKey(c), covered[c[1]])
    <2> DEFINE q == [proc[s] EXCEPT !.at = "confirm", !.key = c]
    <2>1. c \in Combo /\ c[1] \in Provider /\ StagingKey(c) \in CoverageKey
      BY <1>1, <1>2, TodoType
    <2>2. /\ q \in Process /\ q.tool = proc[s].tool /\ q.job = proc[s].job
          /\ q.days = proc[s].days /\ q.todo = proc[s].todo /\ q.at = "confirm" /\ q.key = c
          /\ q.held = proc[s].held /\ q.handled = proc[s].handled
      <3>1. proc[s] \in Process
        BY <1>1 DEF TypeOK
      <3> QED BY <2>1, <3>1 DEF Process
    <2>3. proc' = [proc EXCEPT ![s] = q]
      BY <1>1, <1>5 DEF TypeOK, Process
    <2> HIDE DEF q
    <2>4. covered[c[1]] \in SUBSET Day
      BY <1>1, <2>1 DEF TypeOK
    <2>5. /\ txn' \in [Slot -> Transaction] /\ TxnsKept(s)
          /\ txn'[s].key = StagingKey(c) /\ txn'[s].seen = covered[c[1]]
      BY <1>1, <1>5, <2>1, <2>4, SelectTxn
    <2>6. HeldInv(q)
      BY <1>1, <1>2, <2>2 DEF HeldInv, HandledInv
    <2>7. TxnInv(q, txn'[s])
      BY <1>1, <2>1, <2>2, <2>5 DEF TxnInv, CoveredIsStaged
    <2> QED BY <1>2, <1>3, <2>2, <2>3, <2>5, <2>6, <2>7, Moves
  <1> QED BY <1>4, <1>5 DEF CoverWeekend

LEMMA FetchStep ==
  ASSUME NEW s \in Slot, NEW c PROVE PipelineInv /\ Fetch(s, c) => PipelineInv'
  <1> SUFFICES ASSUME PipelineInv, Fetch(s, c) PROVE PipelineInv'
    OBVIOUS
  <1>1. TypeOK /\ faults' \in Nat
    BY FaultType DEF PipelineInv, TypeOK, Fetch
  <1>2. /\ proc[s].tool = "ingest" /\ c \in proc[s].todo /\ proc[s].at = "next"
        /\ ~ NeverHasData(c[1], c[3])
        /\ UNCHANGED tables /\ UNCHANGED <<done, byHand, txn>>
    BY DEF Fetch, IsNext
  <1>3. CASE proc' = [proc EXCEPT ![s].todo = Done(s, c)]
    BY <1>1, <1>2, <1>3, Skip
  <1>4. CASE \E bars \in Payloads(c[1], c[2], c[3]) :
               proc' = [proc EXCEPT ![s].at = "record", ![s].key = c, ![s].held = bars]
    <2>1. PICK bars \in Payloads(c[1], c[2], c[3]) :
            proc' = [proc EXCEPT ![s].at = "record", ![s].key = c, ![s].held = bars]
      BY <1>4
    <2> DEFINE q == [proc[s] EXCEPT !.at = "record", !.key = c, !.held = bars]
    <2>2. c \in Combo /\ bars \in SUBSET Bar
      BY <1>1, <1>2, TodoType, PayloadType
    <2>3. /\ q \in Process /\ q.tool = proc[s].tool /\ q.job = proc[s].job /\ q.days = proc[s].days
          /\ q.todo = proc[s].todo /\ q.at = "record" /\ q.key = c /\ q.held = bars
          /\ q.handled = proc[s].handled
      <3>1. proc[s] \in Process
        BY <1>1 DEF TypeOK
      <3> QED BY <1>2, <2>2, <3>1 DEF Process
    <2>4. proc' = [proc EXCEPT ![s] = q]
      BY <1>1, <2>1 DEF TypeOK, Process
    <2> HIDE DEF q
    <2>5. HeldInv(q) /\ TxnInv(q, txn'[s])
      BY <1>2, <2>3 DEF HeldInv, TxnInv
    <2>6. txn' \in [Slot -> Transaction] /\ TxnsKept(s)
      BY <1>1, <1>2, TxnStays
    <2> QED BY <1>1, <1>2, <2>3, <2>4, <2>5, <2>6, Moves
  <1> QED BY <1>3, <1>4 DEF Fetch

LEMMA ReadStep ==
  ASSUME NEW s \in Slot, NEW c PROVE PipelineInv /\ ReadArchive(s, c) => PipelineInv'
  <1> SUFFICES ASSUME PipelineInv, ReadArchive(s, c) PROVE PipelineInv'
    OBVIOUS
  <1>1. TypeOK /\ ArchiveInv /\ HandledInv(proc[s]) /\ faults' \in Nat
    BY FaultType DEF PipelineInv, TypeOK, ReadArchive
  <1>2. /\ proc[s].tool = "stage" /\ c \in proc[s].todo /\ proc[s].at = "next"
        /\ c[3] \notin Weekend
        /\ UNCHANGED tables /\ UNCHANGED <<done, byHand, txn>>
    BY DEF ReadArchive, IsNext
  <1>3. CASE proc' = [proc EXCEPT ![s].todo = Done(s, c)]
    BY <1>1, <1>2, <1>3, Skip
  <1>4. CASE /\ archive[c] # {}
             /\ proc' = [proc EXCEPT ![s].at = "merge", ![s].key = c, ![s].held = archive[c],
                                     ![s].left = Supplementary(c[1])]
    <2> DEFINE q == [proc[s] EXCEPT !.at = "merge", !.key = c, !.held = archive[c],
                                    !.left = Supplementary(c[1])]
    <2>1. c \in Combo /\ c[1] \in Provider /\ c[2] = Primary(c[1])
      BY <1>1, <1>2, TodoType DEF HandledInv
    <2>2. archive[c] \in SUBSET Bar /\ Supplementary(c[1]) \in SUBSET Method
      BY <1>1, <2>1 DEF TypeOK, Supplementary, Method
    <2>3. /\ q \in Process /\ q.tool = proc[s].tool /\ q.job = proc[s].job /\ q.days = proc[s].days
          /\ q.todo = proc[s].todo /\ q.at = "merge" /\ q.key = c /\ q.held = archive[c]
          /\ q.handled = proc[s].handled
      <3>1. proc[s] \in Process
        BY <1>1 DEF TypeOK
      <3> QED BY <1>2, <2>1, <2>2, <3>1 DEF Process
    <2>4. proc' = [proc EXCEPT ![s] = q]
      BY <1>1, <1>4 DEF TypeOK, Process
    <2>5. archive[c] \in Payloads(c[1], Primary(c[1]), c[3])
      BY <1>1, <1>4, <2>1 DEF ArchiveInv
    <2> HIDE DEF q
    <2>6. ArePayload(archive[c], c[1], c[3])
      BY <2>5 DEF ArePayload
    <2>7. HeldInv(q) /\ TxnInv(q, txn'[s])
      BY <1>2, <2>1, <2>3, <2>6 DEF HeldInv, TxnInv
    <2>8. txn' \in [Slot -> Transaction] /\ TxnsKept(s)
      BY <1>1, <1>2, TxnStays
    <2> QED BY <1>1, <1>2, <2>3, <2>4, <2>7, <2>8, Moves
  <1> QED BY <1>3, <1>4 DEF ReadArchive

LEMMA MergeStep ==
  ASSUME NEW s \in Slot, NEW m PROVE PipelineInv /\ MergeSupplementary(s, m) => PipelineInv'
  <1> SUFFICES ASSUME PipelineInv, MergeSupplementary(s, m) PROVE PipelineInv'
    OBVIOUS
  <1> DEFINE c == <<proc[s].key[1], m, proc[s].key[3]>>
  <1>1. TypeOK /\ HeldInv(proc[s]) /\ faults' \in Nat
    BY FaultType DEF PipelineInv, TypeOK, MergeSupplementary
  <1>2. /\ proc[s].at = "merge" /\ m \in proc[s].left
        /\ UNCHANGED tables /\ UNCHANGED <<done, byHand, txn>>
    BY DEF MergeSupplementary
  <1>3. proc[s] \in Process /\ m \in Method
    BY <1>1, <1>2 DEF TypeOK, Process
  <1>4. PICK bars \in SUBSET Bar :
          /\ Keys(bars) = Keys(proc[s].held)
          /\ proc' = [proc EXCEPT ![s].left = @ \ {m}, ![s].held = bars]
    <2>1. CASE proc' = [proc EXCEPT ![s].left = @ \ {m}, ![s].held = Merge(@, m, archive[c])]
      <3> DEFINE bars == Merge(proc[s].held, m, archive[c])
      <3>1. proc[s].held \in SUBSET Bar
        BY <1>3 DEF Process
      <3>2. bars \in SUBSET Bar /\ Keys(bars) = Keys(proc[s].held)
        BY <1>3, <3>1, MergeKeys
      <3>3. proc' = [proc EXCEPT ![s].left = @ \ {m}, ![s].held = bars]
        BY <1>1, <2>1 DEF TypeOK, Process
      <3> HIDE DEF bars
      <3> QED BY <3>2, <3>3
    <2>2. CASE proc' = [proc EXCEPT ![s].left = @ \ {m}]
      <3>1. proc' = [proc EXCEPT ![s].left = @ \ {m}, ![s].held = proc[s].held]
        BY <1>1, <2>2 DEF TypeOK, Process
      <3> QED BY <1>3, <3>1 DEF Process
    <2> QED BY <2>1, <2>2 DEF MergeSupplementary
  <1> DEFINE q == [proc[s] EXCEPT !.left = @ \ {m}, !.held = bars]
  <1>5. /\ q \in Process /\ q.tool = proc[s].tool /\ q.job = proc[s].job /\ q.days = proc[s].days
        /\ q.todo = proc[s].todo /\ q.at = "merge" /\ q.key = proc[s].key /\ q.held = bars
        /\ q.handled = proc[s].handled
    BY <1>2, <1>3 DEF Process
  <1>6. proc' = [proc EXCEPT ![s] = q]
    BY <1>1, <1>4 DEF TypeOK, Process
  <1> HIDE DEF q
  <1>7. HeldInv(q) /\ TxnInv(q, txn'[s])
    BY <1>1, <1>2, <1>4, <1>5 DEF HeldInv, TxnInv, ArePayload
  <1>8. txn' \in [Slot -> Transaction] /\ TxnsKept(s)
    BY <1>1, <1>2, TxnStays
  <1> QED BY <1>1, <1>2, <1>5, <1>6, <1>7, <1>8, Moves

LEMMA RecordFetchStep ==
  ASSUME NEW s \in Slot PROVE PipelineInv /\ RecordFetch(s) => PipelineInv'
  <1> SUFFICES ASSUME PipelineInv, RecordFetch(s) PROVE PipelineInv'
    OBVIOUS
  <1> PICK c : c = proc[s].key
    OBVIOUS
  <1> DEFINE q == [proc[s] EXCEPT !.at = "mark"]
  <1>1. TypeOK /\ HeldInv(proc[s]) /\ proc[s].at = "record"
    BY DEF PipelineInv, RecordFetch
  <1>2. /\ c \in proc[s].todo
        /\ UNCHANGED tables /\ UNCHANGED <<done, byHand>> /\ faults' \in Nat
    BY <1>1 DEF RecordFetch, HeldInv, TypeOK
  <1>3. c \in Combo /\ ArchiveKey(c) \in CoverageKey /\ ArchiveKey(c) \in Provider \X Method
    BY <1>1, <1>2, TodoType
  <1>4. /\ q \in Process /\ q.tool = proc[s].tool /\ q.job = proc[s].job /\ q.days = proc[s].days
        /\ q.todo = proc[s].todo /\ q.at = "mark" /\ q.key = c /\ q.held = proc[s].held
        /\ q.handled = proc[s].handled
    <2>1. proc[s] \in Process
      BY <1>1 DEF TypeOK
    <2> QED BY <2>1 DEF Process
  <1>5. proc' = [proc EXCEPT ![s] = q]
    BY DEF RecordFetch
  <1> HIDE DEF q
  <1>6. marked[ArchiveKey(c)] \in SUBSET Day
    BY <1>1, <1>3 DEF TypeOK
  <1>7. txn' \in [Slot -> Transaction] /\ TxnsKept(s) /\ txn'[s].key = ArchiveKey(c)
    BY <1>1, <1>3, <1>6, SelectTxn DEF RecordFetch
  <1>8. HeldInv(q) /\ TxnInv(q, txn'[s])
    BY <1>1, <1>2, <1>4, <1>7 DEF HeldInv, TxnInv
  <1> QED BY <1>2, <1>4, <1>5, <1>7, <1>8, Moves

LEMMA RecordCoverageStep ==
  ASSUME NEW s \in Slot PROVE PipelineInv /\ RecordIngestionCoverage(s) => PipelineInv'
  <1> SUFFICES ASSUME PipelineInv, RecordIngestionCoverage(s) PROVE PipelineInv'
    OBVIOUS
  <1> PICK c : c = proc[s].key
    OBVIOUS
  <1> DEFINE q == [proc[s] EXCEPT !.at = "confirm"]
  <1>1. TypeOK /\ HeldInv(proc[s]) /\ CoveredIsStaged /\ proc[s].at = "cover"
    BY DEF PipelineInv, RecordIngestionCoverage
  <1>2. /\ c \in proc[s].todo
        /\ UNCHANGED tables /\ UNCHANGED <<done, byHand>> /\ faults' \in Nat
    BY <1>1 DEF RecordIngestionCoverage, HeldInv, TypeOK
  <1>3. c \in Combo /\ c[1] \in Provider /\ StagingKey(c) \in CoverageKey
    BY <1>1, <1>2, TodoType
  <1>4. /\ q \in Process /\ q.tool = proc[s].tool /\ q.job = proc[s].job /\ q.days = proc[s].days
        /\ q.todo = proc[s].todo /\ q.at = "confirm" /\ q.key = c /\ q.held = proc[s].held
        /\ q.handled = proc[s].handled
    <2>1. proc[s] \in Process
      BY <1>1 DEF TypeOK
    <2> QED BY <2>1 DEF Process
  <1>5. proc' = [proc EXCEPT ![s] = q]
    BY DEF RecordIngestionCoverage
  <1> HIDE DEF q
  <1>6. covered[c[1]] \in SUBSET Day
    BY <1>1, <1>3 DEF TypeOK
  <1>7. /\ txn' \in [Slot -> Transaction] /\ TxnsKept(s)
        /\ txn'[s].key = StagingKey(c) /\ txn'[s].seen = covered[c[1]]
    BY <1>1, <1>3, <1>6, SelectTxn DEF RecordIngestionCoverage
  <1>8. HeldInv(q)
    BY <1>1, <1>2, <1>4 DEF HeldInv
  <1>9. TxnInv(q, txn'[s])
    BY <1>1, <1>3, <1>4, <1>7 DEF TxnInv, CoveredIsStaged
  <1> QED BY <1>2, <1>4, <1>5, <1>7, <1>8, <1>9, Moves

LEMMA AfterProcess ==
  ASSUME TypeOK, NEW s \in Slot, NEW c, NEW handled \in SUBSET Day
  PROVE  /\ After(s, c, handled) \in Process
         /\ After(s, c, handled).at = "next"
         /\ After(s, c, handled).key = <<>> /\ After(s, c, handled).held = {}
         /\ After(s, c, handled).tool = proc[s].tool
         /\ After(s, c, handled).job = proc[s].job
         /\ After(s, c, handled).days = proc[s].days
         /\ After(s, c, handled).todo = proc[s].todo \ {c}
         /\ After(s, c, handled).handled = proc[s].handled \cup handled
  <1>1. proc[s] \in Process
    BY DEF TypeOK
  <1> QED BY <1>1 DEF After, Done, Process

\* Back to the loop with the day handled or not.
LEMMA BackToLoop ==
  ASSUME PipelineInv, NEW s \in Slot, NEW c \in proc[s].todo, NEW handled \in SUBSET Day,
         proc' = [proc EXCEPT ![s] = After(s, c, handled)], faults' \in Nat,
         archive' \in [Combo -> SUBSET Bar], marked' \in [Provider \X Method -> SUBSET Day],
         covered' \in [Provider -> SUBSET Day], raced' \subseteq CoverageKey,
         txn' \in [Slot -> Transaction], TxnsKept(s), UNCHANGED <<staged, done, byHand>>,
         Grows, ArchiveInv',
         \A p \in Provider : \A d \in covered'[p] \ covered[p] :
           d \notin Weekend => SessionStaged(p, d),
         \A d \in handled :
           /\ proc[s].tool = "ingest" /\ proc[s].job # NoJob =>
                \A x \in Work(RunOf(proc[s].job).combos, {d}) : Ingested(x)'
           /\ proc[s].tool = "stage" =>
                d \notin Weekend /\ \E p \in Provider : SessionStaged(p, d)
  PROVE  PipelineInv'
  <1>1. TypeOK
    BY DEF PipelineInv
  <1> DEFINE q == After(s, c, handled)
  <1>2. /\ q \in Process /\ q.tool = proc[s].tool /\ q.job = proc[s].job /\ q.days = proc[s].days
        /\ q.todo \subseteq proc[s].todo /\ q.at = "next" /\ q.held = {}
        /\ q.handled = proc[s].handled \cup handled
    BY <1>1, AfterProcess
  <1>3. /\ proc' \in [Slot -> Process] /\ proc'[s] = q
        /\ \A t \in Slot \ {s} : proc'[t] = proc[t]
    BY <1>1, <1>2, OneSlot
  <1> HIDE DEF q
  <1>4. TypeOK'
    BY <1>1, <1>3 DEF TypeOK
  <1>5. Proceeds(s)
    BY <1>2, <1>3 DEF Proceeds
  <1>6. \A p, d : SessionStaged(p, d)' <=> SessionStaged(p, d)
    BY DEF SessionStaged, StagedMinutes
  <1>7. HeldInv(proc[s])' /\ TxnInv(proc[s], txn[s])'
    BY <1>2, <1>3 DEF HeldInv, TxnInv
  <1>8. \A d \in proc'[s].handled \ proc[s].handled : d \in handled
    BY <1>2, <1>3
  <1> QED BY <1>4, <1>5, <1>6, <1>7, <1>8, WorkStep

\* The day is not handled: nothing was written.
LEMMA GivesUp ==
  ASSUME PipelineInv, NEW s \in Slot, NEW c \in proc[s].todo, NEW handled \in SUBSET Day,
         proc' = [proc EXCEPT ![s] = After(s, c, handled)], faults' \in Nat,
         UNCHANGED tables, UNCHANGED <<done, byHand>>,
         txn' \in [Slot -> Transaction], TxnsKept(s),
         \A d \in handled :
           /\ proc[s].tool = "stage" /\ d \notin Weekend
           /\ \E p \in Provider : SessionStaged(p, d)
  PROVE  PipelineInv'
  <1>1. TypeOK /\ ArchiveInv
    BY DEF PipelineInv
  <1>2. UNCHANGED <<archive, marked, staged, covered, raced>> /\ Grows
    BY TablesGrow DEF tables
  <1>3. /\ archive' \in [Combo -> SUBSET Bar] /\ marked' \in [Provider \X Method -> SUBSET Day]
        /\ covered' \in [Provider -> SUBSET Day] /\ raced' \subseteq CoverageKey
    BY <1>1, <1>2 DEF TypeOK
  <1>4. ArchiveInv'
    BY <1>1, <1>2 DEF ArchiveInv
  <1>5. \A p \in Provider : covered'[p] \ covered[p] = {}
    BY <1>2
  <1>6. \A d \in handled :
          /\ proc[s].tool = "ingest" /\ proc[s].job # NoJob =>
               \A x \in Work(RunOf(proc[s].job).combos, {d}) : Ingested(x)'
          /\ proc[s].tool = "stage" =>
               d \notin Weekend /\ \E p \in Provider : SessionStaged(p, d)
    OBVIOUS
  <1> QED BY <1>2, <1>3, <1>4, <1>5, <1>6, BackToLoop

\* A commit of archive_coverage, with the archive row it belongs to.
LEMMA FetchCommitted ==
  ASSUME PipelineInv, NEW s \in Slot, proc[s].at = "mark", NEW c, c = proc[s].key,
         NEW days \in LeftBy(marked[ArchiveKey(c)], txn[s].seen, c[3], txn[s].fresh),
         marked' = [marked EXCEPT ![ArchiveKey(c)] = days],
         archive' = Archived(c, proc[s].held), Commit(s), UNCHANGED staged
  PROVE  /\ archive' \in [Combo -> SUBSET Bar] /\ marked' \in [Provider \X Method -> SUBSET Day]
         /\ txn' \in [Slot -> Transaction] /\ TxnsKept(s) /\ raced' \subseteq CoverageKey
         /\ raced \subseteq raced' /\ Grows /\ ArchiveInv' /\ Ingested(c)'
  <1> PICK k : k = ArchiveKey(c)
    OBVIOUS
  <1>1. TypeOK /\ ArchiveInv /\ HeldInv(proc[s]) /\ TxnInv(proc[s], txn[s])
    BY DEF PipelineInv
  <1>2. c \in proc[s].todo /\ txn[s].key = k
    BY <1>1 DEF HeldInv, TxnInv
  <1>3. c \in Combo /\ c[1] \in Provider /\ c[2] \in Method /\ c[3] \in Day
        /\ k \in CoverageKey /\ k \in Provider \X Method
    BY <1>1, <1>2, TodoType
  <1>4. proc[s].held # {} =>
          ~ NeverHasData(c[1], c[3]) /\ proc[s].held \in Payloads(c[1], c[2], c[3])
    BY <1>1 DEF HeldInv
  <1>5. ~ NeverHasData(c[1], c[3]) => proc[s].held # {}
    BY <1>1, <1>3, PayloadType DEF HeldInv
  <1>6. proc[s].held \in SUBSET Bar
    BY <1>1 DEF TypeOK, Process
  <1>7. /\ archive' \in [Combo -> SUBSET Bar]
        /\ proc[s].held # {} => archive'[c] = proc[s].held
        /\ \A x \in Combo : x # c \/ proc[s].held = {} => archive'[x] = archive[x]
    BY <1>1, <1>3, <1>6 DEF TypeOK, Archived
  <1>8. ArchiveInv'
    BY <1>1, <1>4, <1>7 DEF ArchiveInv
  <1>9. /\ txn' \in [Slot -> Transaction] /\ TxnsKept(s)
        /\ raced \subseteq raced' /\ raced' \subseteq CoverageKey
        /\ ~ txn[s].fresh => k \in raced'
    BY <1>1, <1>2, <1>3, CommitTxn
  <1>10. /\ days \in SUBSET Day
         /\ (marked[k] \ days # {} \/ c[3] \notin days) => ~ txn[s].fresh
    <2>1. marked[k] \in SUBSET Day /\ txn[s].seen \in SUBSET Day
      BY <1>1, <1>3 DEF TypeOK, Transaction
    <2> QED BY <1>3, <2>1, CommittedDays
  <1>11. /\ marked' \in [Provider \X Method -> SUBSET Day] /\ marked'[k] = days
         /\ \A x \in Provider \X Method : x # k => marked'[x] = marked[x]
    BY <1>1, <1>3, <1>10 DEF TypeOK
  <1>12. ASSUME NEW x \in Combo, MarkedUnlessRaced(x) PROVE MarkedUnlessRaced(x)'
    <2>1. ArchiveKey(x) \in Provider \X Method
      BY DEF Combo, ArchiveKey
    <2> QED BY <1>9, <1>10, <1>11, <1>12, <2>1 DEF MarkedUnlessRaced
  <1>13. MarkedUnlessRaced(c)'
    BY <1>9, <1>10, <1>11 DEF MarkedUnlessRaced
  <1>14. Ingested(c)'
    BY <1>5, <1>7, <1>13 DEF Ingested
  <1>15. ASSUME NEW x \in Combo, Ingested(x) PROVE Ingested(x)'
    BY <1>7, <1>12, <1>15 DEF Ingested
  <1>16. Grows
    BY <1>15 DEF Grows, StagedKeys
  <1> QED BY <1>7, <1>8, <1>9, <1>11, <1>14, <1>16

LEMMA CommitFetchStep ==
  ASSUME NEW s \in Slot PROVE PipelineInv /\ CommitFetch(s) => PipelineInv'
  <1> SUFFICES ASSUME PipelineInv, CommitFetch(s) PROVE PipelineInv'
    OBVIOUS
  <1> PICK c : c = proc[s].key
    OBVIOUS
  <1>1. TypeOK /\ JobInv /\ HeldInv(proc[s]) /\ proc[s].at = "mark"
    BY DEF PipelineInv, CommitFetch
  <1>2. c \in proc[s].todo /\ proc[s].tool = "ingest" /\ UNCHANGED <<done, byHand>>
    BY <1>1 DEF HeldInv, CommitFetch
  <1>3. c \in Combo /\ c[3] \in Day
    BY <1>1, <1>2, TodoType
  <1>4. CASE /\ \E days \in LeftBy(marked[ArchiveKey(c)], txn[s].seen, c[3], txn[s].fresh) :
                  marked' = [marked EXCEPT ![ArchiveKey(c)] = days]
             /\ archive' = Archived(c, proc[s].held) /\ Commit(s)
             /\ proc' = [proc EXCEPT ![s] = After(s, c, {c[3]})]
             /\ Works /\ UNCHANGED <<staged, covered>>
    <2>1. /\ archive' \in [Combo -> SUBSET Bar] /\ marked' \in [Provider \X Method -> SUBSET Day]
          /\ txn' \in [Slot -> Transaction] /\ TxnsKept(s) /\ raced' \subseteq CoverageKey
          /\ Grows /\ ArchiveInv' /\ Ingested(c)'
      BY <1>1, <1>4, FetchCommitted
    <2>2. covered' \in [Provider -> SUBSET Day] /\ faults' \in Nat
      BY <1>1, <1>4, FaultType DEF TypeOK
    <2>3. \A p \in Provider : covered'[p] \ covered[p] = {}
      BY <1>4
    <2> PICK handled : handled = {c[3]}
      OBVIOUS
    <2>4. \A d \in handled :
            /\ proc[s].tool = "ingest" /\ proc[s].job # NoJob =>
                 \A x \in Work(RunOf(proc[s].job).combos, {d}) : Ingested(x)'
            /\ proc[s].tool = "stage" =>
                 d \notin Weekend /\ \E p \in Provider : SessionStaged(p, d)
      <3>1. proc[s].job # NoJob => Work(RunOf(proc[s].job).combos, {c[3]}) \subseteq {c}
        BY <1>1, <1>2, OneCombo
      <3>2. proc[s].job # NoJob =>
              \A x \in Work(RunOf(proc[s].job).combos, {c[3]}) : Ingested(x)'
        BY <2>1, <3>1
      <3> QED BY <1>2, <3>2
    <2>5. handled \in SUBSET Day /\ proc' = [proc EXCEPT ![s] = After(s, c, handled)]
      BY <1>3, <1>4
    <2>6. UNCHANGED <<staged, done, byHand>>
      BY <1>2, <1>4
    <2> QED BY <1>2, <2>1, <2>2, <2>3, <2>4, <2>5, <2>6, BackToLoop
  <1>5. CASE proc' = [proc EXCEPT ![s] = After(s, c, {})] /\ Rollback(s) /\ Fails
    <2>1. txn' \in [Slot -> Transaction] /\ TxnsKept(s)
      BY <1>1, <1>5, RollbackTxn DEF Rollback
    <2>2. UNCHANGED tables /\ faults' \in Nat
      BY <1>1, <1>5, FaultType DEF Rollback, TypeOK
    <2> PICK handled : handled = {}
      OBVIOUS
    <2>3. handled \in SUBSET Day /\ proc' = [proc EXCEPT ![s] = After(s, c, handled)]
      BY <1>5
    <2> QED BY <1>2, <2>1, <2>2, <2>3, GivesUp
  <1> QED BY <1>4, <1>5 DEF CommitFetch

\* A commit of ingestion_coverage: what is new in it is staged, and what it loses
\* was raced for.
LEMMA CoverageCommitted ==
  ASSUME PipelineInv, NEW s \in Slot, proc[s].at = "confirm", NEW c, c = proc[s].key,
         NEW days \in LeftBy(covered[c[1]], txn[s].seen, c[3], txn[s].fresh),
         covered' = [covered EXCEPT ![c[1]] = days], Commit(s),
         UNCHANGED <<archive, marked, staged>>
  PROVE  /\ covered' \in [Provider -> SUBSET Day]
         /\ txn' \in [Slot -> Transaction] /\ TxnsKept(s) /\ raced' \subseteq CoverageKey
         /\ raced \subseteq raced' /\ Grows
         /\ \A p \in Provider : \A d \in covered'[p] \ covered[p] :
              d \notin Weekend => SessionStaged(p, d)
         /\ \A p \in Provider : covered[p] \ covered'[p] # {} => <<p>> \in raced'
  <1>1. TypeOK /\ HeldInv(proc[s]) /\ TxnInv(proc[s], txn[s])
    BY DEF PipelineInv
  <1>2. c \in proc[s].todo /\ txn[s].key = StagingKey(c)
        /\ \A d \in txn[s].seen \ Weekend : SessionStaged(c[1], d)
    BY <1>1 DEF HeldInv, TxnInv
  <1>3. c[1] \in Provider /\ c[3] \in Day /\ StagingKey(c) \in CoverageKey
    BY <1>1, <1>2, TodoType
  <1>4. c[3] \notin Weekend => SessionStaged(c[1], c[3])
    <2>1. c[3] \notin Weekend => /\ ArePayload(proc[s].held, c[1], c[3])
                                 /\ Keys(proc[s].held) \subseteq StagedKeys(c[1])
      BY <1>1 DEF HeldInv
    <2> QED BY <1>1, <1>3, <2>1, PayloadStaged DEF TypeOK
  <1>5. /\ txn' \in [Slot -> Transaction] /\ TxnsKept(s)
        /\ raced \subseteq raced' /\ raced' \subseteq CoverageKey
        /\ ~ txn[s].fresh => <<c[1]>> \in raced'
    BY <1>1, <1>2, <1>3, CommitTxn DEF StagingKey
  <1>6. /\ days \in SUBSET Day
        /\ \A d \in days \ covered[c[1]] : d = c[3] \/ d \in txn[s].seen
        /\ covered[c[1]] \ days # {} => ~ txn[s].fresh
    <2>1. covered[c[1]] \in SUBSET Day /\ txn[s].seen \in SUBSET Day
      BY <1>1, <1>3 DEF TypeOK, Transaction
    <2> QED BY <1>3, <2>1, CommittedDays
  <1>7. /\ covered' \in [Provider -> SUBSET Day] /\ covered'[c[1]] = days
        /\ \A p \in Provider : p # c[1] => covered'[p] = covered[p]
    BY <1>1, <1>3, <1>6 DEF TypeOK
  <1>8. ASSUME NEW p \in Provider, NEW d \in covered'[p] \ covered[p], d \notin Weekend
        PROVE  SessionStaged(p, d)
    <2>1. p = c[1] /\ d \in days \ covered[c[1]]
      BY <1>7, <1>8
    <2>2. d = c[3] \/ d \in txn[s].seen \ Weekend
      BY <1>6, <1>8, <2>1
    <2> QED BY <1>2, <1>4, <1>8, <2>1, <2>2
  <1>9. \A p \in Provider : covered[p] \ covered'[p] # {} => <<p>> \in raced'
    BY <1>5, <1>6, <1>7
  <1>10. Grows
    BY <1>5 DEF Grows, Ingested, MarkedUnlessRaced, StagedKeys
  <1> QED BY <1>5, <1>7, <1>8, <1>9, <1>10

LEMMA CommitCoverageStep ==
  ASSUME NEW s \in Slot PROVE PipelineInv /\ CommitIngestionCoverage(s) => PipelineInv'
  <1> SUFFICES ASSUME PipelineInv, CommitIngestionCoverage(s) PROVE PipelineInv'
    OBVIOUS
  <1> PICK c : c = proc[s].key
    OBVIOUS
  <1>1. TypeOK /\ ArchiveInv /\ HeldInv(proc[s]) /\ proc[s].at = "confirm" /\ faults' \in Nat
    BY FaultType DEF PipelineInv, TypeOK, CommitIngestionCoverage
  <1>2. /\ c \in proc[s].todo /\ proc[s].tool = "stage" /\ UNCHANGED <<done, byHand>>
        /\ proc' = [proc EXCEPT ![s] = After(s, c, {c[3]} \ Weekend)]
    BY <1>1 DEF HeldInv, CommitIngestionCoverage
  <1>3. c[1] \in Provider /\ {c[3]} \ Weekend \in SUBSET Day /\ c[3] \in Day
    BY <1>1, <1>2, TodoType
  <1>4. \A d \in {c[3]} \ Weekend :
          /\ proc[s].tool = "stage" /\ d \notin Weekend
          /\ \E p \in Provider : SessionStaged(p, d)
    <2>1. c[3] \notin Weekend => /\ ArePayload(proc[s].held, c[1], c[3])
                                 /\ Keys(proc[s].held) \subseteq StagedKeys(c[1])
      BY <1>1 DEF HeldInv
    <2>2. c[3] \notin Weekend => SessionStaged(c[1], c[3])
      BY <1>1, <1>3, <2>1, PayloadStaged DEF TypeOK
    <2> QED BY <1>2, <1>3, <2>2
  <1>5. CASE /\ \E days \in LeftBy(covered[c[1]], txn[s].seen, c[3], txn[s].fresh) :
                  covered' = [covered EXCEPT ![c[1]] = days]
             /\ Commit(s) /\ UNCHANGED <<archive, marked, staged>>
    <2>1. /\ covered' \in [Provider -> SUBSET Day]
          /\ txn' \in [Slot -> Transaction] /\ TxnsKept(s) /\ raced' \subseteq CoverageKey
          /\ Grows
          /\ \A p \in Provider : \A d \in covered'[p] \ covered[p] :
               d \notin Weekend => SessionStaged(p, d)
      BY <1>1, <1>5, CoverageCommitted
    <2>2. /\ archive' \in [Combo -> SUBSET Bar] /\ marked' \in [Provider \X Method -> SUBSET Day]
          /\ ArchiveInv'
      BY <1>1, <1>5 DEF TypeOK, ArchiveInv
    <2>3. \A d \in {c[3]} \ Weekend :
            /\ proc[s].tool = "ingest" /\ proc[s].job # NoJob =>
                 \A x \in Work(RunOf(proc[s].job).combos, {d}) : Ingested(x)'
            /\ proc[s].tool = "stage" =>
                 d \notin Weekend /\ \E p \in Provider : SessionStaged(p, d)
      BY <1>4
    <2>4. UNCHANGED <<staged, done, byHand>>
      BY <1>2, <1>5
    <2> QED BY <1>1, <1>2, <1>3, <2>1, <2>2, <2>3, <2>4, BackToLoop
  <1>6. CASE Rollback(s)
    <2>1. txn' \in [Slot -> Transaction] /\ TxnsKept(s) /\ UNCHANGED tables
      BY <1>1, <1>6, RollbackTxn DEF Rollback
    <2> QED BY <1>1, <1>2, <1>3, <1>4, <2>1, GivesUp
  <1> QED BY <1>5, <1>6 DEF CommitIngestionCoverage

LEMMA WriteStep ==
  ASSUME NEW s \in Slot PROVE PipelineInv /\ WriteStaging(s) => PipelineInv'
  <1> SUFFICES ASSUME PipelineInv, WriteStaging(s) PROVE PipelineInv'
    OBVIOUS
  <1> DEFINE c == proc[s].key
  <1>1. TypeOK /\ ArchiveInv /\ HeldInv(proc[s]) /\ faults' \in Nat
    BY FaultType DEF PipelineInv, TypeOK, WriteStaging
  <1>2. /\ proc[s].at = "merge" /\ c \in proc[s].todo /\ proc[s].tool = "stage"
        /\ c[2] = Primary(c[1])
        /\ c[3] \notin Weekend /\ ArePayload(proc[s].held, c[1], c[3])
        /\ UNCHANGED <<archive, marked, covered, raced, done, byHand, txn>>
    BY <1>1 DEF WriteStaging, HeldInv
  <1>3. c \in Combo /\ c[1] \in Provider /\ c[3] \in Day
    BY <1>1, <1>2, TodoType
  <1>4. ArchiveInv' /\ txn' \in [Slot -> Transaction] /\ TxnsKept(s)
    BY <1>1, <1>2, TxnStays DEF ArchiveInv
  <1>5. CASE staged' = Upsert(c[1], proc[s].held) /\ proc' = [proc EXCEPT ![s].at = "cover"]
    <2> DEFINE q == [proc[s] EXCEPT !.at = "cover"]
    <2>1. proc[s] \in Process
      BY <1>1 DEF TypeOK
    <2>2. /\ q \in Process /\ q.tool = proc[s].tool /\ q.job = proc[s].job
          /\ q.days = proc[s].days /\ q.todo = proc[s].todo /\ q.at = "cover"
          /\ q.key = c /\ q.held = proc[s].held /\ q.handled = proc[s].handled
      BY <2>1 DEF Process
    <2>3. proc' = [proc EXCEPT ![s] = q]
      BY <1>5
    <2> HIDE DEF q
    <2>4. /\ proc' \in [Slot -> Process] /\ proc'[s] = q
          /\ \A t \in Slot \ {s} : proc'[t] = proc[t]
      BY <1>1, <2>2, <2>3, OneSlot
    <2>5. proc[s].held \in SUBSET Bar
      BY <2>1 DEF Process
    <2>6. /\ staged' \subseteq StagedBar
          /\ \A p \in Provider : StagedKeys(p) \subseteq StagedKeys(p)'
          /\ \A p \in Provider : p = c[1] => Keys(proc[s].held) \subseteq StagedKeys(p)'
      <3>1. staged \subseteq StagedBar
        BY <1>1 DEF TypeOK
      <3> HIDE DEF c
      <3> QED BY <1>3, <1>5, <2>5, <3>1, UpsertKeys
    <2>7. TypeOK'
      BY <1>1, <1>2, <1>4, <2>4, <2>6 DEF TypeOK
    <2>8. Grows /\ Proceeds(s)
      BY <1>2, <1>4, <2>2, <2>4, <2>6 DEF Grows, Proceeds, Ingested, MarkedUnlessRaced
    <2>9. HeldInv(proc[s])' /\ TxnInv(proc[s], txn[s])'
      BY <1>2, <1>3, <2>2, <2>4, <2>6 DEF HeldInv, TxnInv, ArePayload
    <2> QED BY <1>2, <1>4, <2>2, <2>4, <2>7, <2>8, <2>9, WorkStep
  <1>6. CASE proc' = [proc EXCEPT ![s] = After(s, c, {})] /\ UNCHANGED staged
    <2>1. UNCHANGED tables
      BY <1>2, <1>6 DEF tables
    <2> PICK handled : handled = {}
      OBVIOUS
    <2>2. handled \in SUBSET Day /\ proc' = [proc EXCEPT ![s] = After(s, c, handled)]
      BY <1>6
    <2> HIDE DEF c
    <2> QED BY <1>1, <1>2, <1>4, <2>1, <2>2, GivesUp
  <1> QED BY <1>5, <1>6 DEF WriteStaging

LEMMA StepInv == ASSUME NEW s \in Slot PROVE PipelineInv /\ Step(s) => PipelineInv'
  BY MarkWeekendStep, FetchStep, CoverWeekendStep, ReadStep, RecordFetchStep, CommitFetchStep,
     MergeStep, WriteStep, RecordCoverageStep, CommitCoverageStep, EndStep DEF Step

LEMMA StutterInv == PipelineInv /\ UNCHANGED vars => PipelineInv'
  <1> SUFFICES ASSUME PipelineInv, UNCHANGED vars PROVE PipelineInv'
    OBVIOUS
  <1>1. TypeOK /\ TypeOK' /\ UNCHANGED <<archive, covered, done, proc, txn>>
    BY DEF PipelineInv, TypeOK, vars
  <1>2. Grows
    BY TablesGrow DEF vars, tables
  <1>3. ArchiveInv' /\ JobInv'
    BY <1>1 DEF PipelineInv, ArchiveInv, JobInv
  <1>4. DoneInv'
    BY <1>1, <1>2, DoneKept DEF PipelineInv
  <1>5. CoveredIsStaged'
    BY <1>1, <1>2, CoveredKept DEF PipelineInv
  <1>6. \A s \in Slot : HeldInv(proc[s])' /\ HandledInv(proc[s])' /\ TxnInv(proc[s], txn[s])'
    BY <1>1, <1>2, HeldKept, HandledKept, TxnKept DEF PipelineInv
  <1> QED BY <1>1, <1>3, <1>4, <1>5, <1>6 DEF PipelineInv

LEMMA PipelineKept == PipelineInv /\ [Next]_vars => PipelineInv'
  BY DispatchStep, HandStep, StepInv, CrashStep, StutterInv DEF Next

\* The invariant that makes the others inductive: what a process holds and has
\* selected, what it handled and which jobs are done all have their reason in the
\* tables, whatever commits from stale selections did to the coverage.
THEOREM PipelineInvariant == Spec => []PipelineInv
  BY InitInv, PipelineKept, PTL DEF Spec

-----------------------------------------------------------------------------
(* What the pipeline promises.                                             *)

\* A weekday that ingestion_coverage has is in staging with the session the
\* provider answered with, through every failure and crash, and whatever a commit
\* from a stale selection loses or brings back.
THEOREM CoveredStaysStaged == Spec => []CoveredIsStaged
  <1>1. PipelineInv => CoveredIsStaged
    BY DEF PipelineInv
  <1> QED BY <1>1, PipelineInvariant, PTL

\* Every planned method of every day has a job, and a job that is done has
\* ingested its day.
LEMMA PlanIngested ==
  ASSUME PipelineInv, IngestNames(Item) \subseteq done, NEW p \in Provider,
         NEW d \in Item.first .. Item.last, NEW m \in PlannedMethods(p)
  PROVE  Ingested(<<p, m, d>>)
  <1> DEFINE method == IF p = Ibkr THEN m ELSE NoMethod
             n == Name("ingest", Item, d, d, p, method)
  <1>1. method \in MethodsOf(Item, p)
    BY DEF MethodsOf, PlannedMethods
  <1>2. n \in IngestNames(Item)
    BY <1>1 DEF IngestNames, Provider
  <1>3. \A c \in Work(RunOf(n).combos, {d}) : Ingested(c)
    <2>1. n.first = d
      BY DEF Name
    <2> QED BY <1>2, <2>1 DEF PipelineInv, DoneInv
  <1>4. RunOf(n).combos = {p} \X MethodsToFetch(p, method)
    BY DEF RunOf, Name
  <1>5. m \in MethodsToFetch(p, method)
    <2>1. p = Ibkr => m # NoMethod
      BY ItemAssumption DEF PlannedMethods
    <2> QED BY <2>1 DEF MethodsToFetch, PlannedMethods
  <1>6. <<p, m, d>> \in Work(RunOf(n).combos, {d})
    <2> DEFINE c == <<p, m>>
    <2>1. c \in RunOf(n).combos /\ c[1] = p /\ c[2] = m /\ d \in {d}
      BY <1>4, <1>5
    <2> HIDE DEF c, n
    <2> QED BY <2>1 DEF Work
  <1> QED BY <1>3, <1>6

\* When the staging job has run, archive_coverage has no gap in the range of
\* the work item, weekends included, but for the keys on which a run by hand and a
\* job committed over each other.
THEOREM CoverageHasNoGaps == Spec => []NoGaps
  <1>1. PipelineInv => NoGaps
    BY PlanIngested DEF NoGaps, PipelineInv, DoneInv, Ingested
  <1> QED BY <1>1, PipelineInvariant, PTL

\* When the staging job has run, every weekday of the range has the rows of a
\* session: quant-reconcile, which waits for it, never runs on nothing.
THEOREM SessionsAreStaged == Spec => []EverySessionStaged
  <1>1. PipelineInv => EverySessionStaged
    BY DEF PipelineInv, DoneInv, EverySessionStaged
  <1> QED BY <1>1, PipelineInvariant, PTL

-----------------------------------------------------------------------------
(* Merged quotes.                                                          *)

\* What a method answered with for a day has the minute of a bar that the primary
\* method answered with, if the method has it at all and the session is over.
LEMMA PayloadsMatch ==
  ASSUME NEW p \in Provider, NEW m \in Method, NEW d \in Day, NEW bars, ArePayload(bars, p, d),
         NEW quotes \in Payloads(p, m, d), NEW b \in bars,
         <<p, b.day>> \notin Unfinished, MethodHas(p, m, b)
  PROVE  Matches(b, quotes)
  <1>1. PICK x \in Payloads(p, Primary(p), d) : Keys(bars) = Keys(x)
    BY DEF ArePayload
  <1>2. PICK e \in Session(p, Primary(p), d) : x \in Answers(p, Primary(p), e)
    BY DEF Payloads
  <1>3. PICK f \in Session(p, m, d) : quotes \in Answers(p, m, f)
    BY DEF Payloads
  <1>4. <<b.day, b.minute>> \in Keys(x)
    BY <1>1 DEF Keys
  <1>5. PICK y \in x : y.day = b.day /\ y.minute = b.minute
    BY <1>4 DEF Keys
  <1>6. y \in WholeSession(p, Primary(p), e)
    BY <1>2 DEF Answers
  <1>7. b.day = e
    BY <1>5, <1>6 DEF WholeSession
  <1>8. b.day = f
    <2>1. b.day \in Session(p, m, d)
      BY <1>2, <1>7 DEF MethodHas
    <2> QED BY <1>3, <2>1, SessionType
  <1>9. quotes = WholeSession(p, m, f)
    BY <1>3, <1>8 DEF Answers
  <1>10. b.minute \in Source[p][m][f]
    BY <1>8 DEF MethodHas
  <1> DEFINE z == [day |-> f, minute |-> b.minute, quotes |-> {}]
  <1>11. z \in quotes /\ z.day = b.day /\ z.minute = b.minute
    BY <1>8, <1>9, <1>10 DEF WholeSession
  <1> HIDE DEF z
  <1> QED BY <1>11 DEF Matches

\* Which steps write what: the staging table, the other tables, the faults.
LEMMA Writers ==
  ASSUME [Next]_vars
  PROVE  /\ UNCHANGED faults \/ Fails
         /\ byHand \subseteq byHand'
         /\ UNCHANGED staged \/ \E s \in Slot : WriteStaging(s)
         /\ \/ UNCHANGED <<archive, marked, covered, raced>>
            \/ \E s \in Slot : CommitFetch(s) \/ CommitIngestionCoverage(s)
  <1> USE DEF Works, tables
  <1>1. CASE UNCHANGED vars
    BY <1>1 DEF vars
  <1>2. CASE Dispatch \/ StartByHand
    BY <1>2 DEF Dispatch, StartByHand, Begin
  <1>3. ASSUME NEW s \in Slot, CommitFetch(s)
        PROVE  (UNCHANGED faults \/ Fails) /\ UNCHANGED <<staged, byHand>>
    BY <1>3 DEF CommitFetch, Rollback
  <1>4. ASSUME NEW s \in Slot, CommitIngestionCoverage(s)
        PROVE  (UNCHANGED faults \/ Fails) /\ UNCHANGED <<staged, byHand>>
    BY <1>4 DEF CommitIngestionCoverage, Rollback
  <1>5. ASSUME NEW s \in Slot, WriteStaging(s)
        PROVE  (UNCHANGED faults \/ Fails) /\ UNCHANGED <<archive, marked, covered, raced, byHand>>
    BY <1>5 DEF WriteStaging
  <1>6. ASSUME NEW s \in Slot, NEW c,
               MarkWeekend(s, c) \/ Fetch(s, c) \/ CoverWeekend(s, c) \/ ReadArchive(s, c)
        PROVE  (UNCHANGED faults \/ Fails) /\ UNCHANGED tables /\ UNCHANGED byHand
    BY <1>6 DEF MarkWeekend, Fetch, CoverWeekend, ReadArchive
  <1>7. ASSUME NEW s \in Slot, NEW m, MergeSupplementary(s, m)
        PROVE  (UNCHANGED faults \/ Fails) /\ UNCHANGED tables /\ UNCHANGED byHand
    BY <1>7 DEF MergeSupplementary
  <1>8. ASSUME NEW s \in Slot,
               RecordFetch(s) \/ RecordIngestionCoverage(s) \/ End(s) \/ Crash(s)
        PROVE  (UNCHANGED faults \/ Fails) /\ UNCHANGED tables /\ UNCHANGED byHand
    BY <1>8 DEF RecordFetch, RecordIngestionCoverage, End, Crash, Rollback
  <1> QED BY <1>1, <1>2, <1>3, <1>4, <1>5, <1>6, <1>7, <1>8 DEF Next, Step

LEMMA FaultsGrow ==
  ASSUME TypeOK, [Next]_vars, faults' = 0
  PROVE  faults = 0 /\ ~ Fails
  <1>1. faults \in Nat
    BY DEF TypeOK
  <1> QED BY <1>1, Writers DEF Fails

LEMMA BeginProcess ==
  ASSUME TypeOK, NEW s \in Slot, NEW job, NEW run, Begin(s, job, run)
  PROVE  proc'[s].at = "next" /\ proc'[s].tool \in {run.tool, "none"}
  <1>1. Idle.at = "next" /\ Idle.tool = "none"
    BY DEF Idle
  <1>2. \A combos : /\ Started(job, run, combos).at = "next"
                    /\ Started(job, run, combos).tool = run.tool
    BY DEF Started, Idle
  <1>3. proc'[s] = Idle \/ \E combos : proc'[s] = Started(job, run, combos)
    BY DEF Begin, TypeOK
  <1> QED BY <1>1, <1>2, <1>3

\* A process holds rows of the archive only after it read them, and keeps its
\* tool until it ends.
LEMMA ProcessStep ==
  ASSUME TypeOK, [Next]_vars, NEW s \in Slot
  PROVE  \/ proc'[s] = proc[s]
         \/ /\ proc'[s].at \notin {"merge", "cover"}
            /\ \/ proc'[s].tool \in {proc[s].tool, "none"}
               \/ s = "dispatch"
               \/ \E r \in byHand' : proc'[s].tool = r.tool
         \/ \E c \in proc[s].todo : ReadArchive(s, c) /\ proc'[s].tool = proc[s].tool
         \/ \E m \in proc[s].left : MergeSupplementary(s, m) /\ proc'[s].tool = proc[s].tool
         \/ WriteStaging(s) /\ proc'[s].tool = proc[s].tool
  <1> DEFINE P == \/ proc'[s] = proc[s]
                  \/ /\ proc'[s].at \notin {"merge", "cover"}
                     /\ \/ proc'[s].tool \in {proc[s].tool, "none"}
                        \/ s = "dispatch"
                        \/ \E r \in byHand' : proc'[s].tool = r.tool
  <1>0. proc[s] \in Process /\ proc \in [Slot -> Process]
    BY DEF TypeOK
  <1>1. CASE UNCHANGED vars
    BY <1>1 DEF vars
  <1>2. ASSUME Dispatch PROVE P
    <2>1. PICK n : Begin("dispatch", n, RunOf(n))
      BY <1>2 DEF Dispatch
    <2>2. CASE s = "dispatch"
      <3>1. proc'[s].at = "next"
        BY <1>0, <2>1, <2>2, BeginProcess
      <3> QED BY <2>2, <3>1
    <2>3. CASE s # "dispatch"
      BY <1>0, <2>1, <2>3 DEF Begin
    <2> QED BY <2>2, <2>3
  <1>3. ASSUME StartByHand PROVE P
    <2>1. PICK r \in ByHand : Begin("hand", NoJob, r) /\ byHand' = byHand \cup {r}
      BY <1>3 DEF StartByHand
    <2>2. CASE s = "hand"
      <3>1. proc'[s].at = "next" /\ proc'[s].tool \in {r.tool, "none"}
        BY <1>0, <2>1, <2>2, BeginProcess
      <3> QED BY <2>1, <3>1
    <2>3. CASE s # "hand"
      BY <1>0, <2>1, <2>3 DEF Begin
    <2> QED BY <2>2, <2>3
  <1>4. ASSUME NEW t \in Slot, Step(t) \/ Crash(t), t # s
        PROVE  proc'[s] = proc[s]
    BY <1>0, <1>4 DEF Step, Crash, MarkWeekend, Fetch, CoverWeekend, ReadArchive, RecordFetch,
           CommitFetch, MergeSupplementary, WriteStaging, RecordIngestionCoverage,
           CommitIngestionCoverage, End
  <1>5. ASSUME NEW c \in proc[s].todo, MarkWeekend(s, c) \/ CoverWeekend(s, c) PROVE P
    BY <1>0, <1>5 DEF MarkWeekend, CoverWeekend, IsNext, Process
  <1>6. ASSUME NEW c \in proc[s].todo, Fetch(s, c) PROVE P
    BY <1>0, <1>6 DEF Fetch, IsNext, Process
  <1>7. ASSUME CommitFetch(s) \/ CommitIngestionCoverage(s) PROVE P
    <2>1. \E handled : proc' = [proc EXCEPT ![s] = After(s, proc[s].key, handled)]
      BY <1>7 DEF CommitFetch, CommitIngestionCoverage
    <2>2. \A handled : /\ After(s, proc[s].key, handled).at = "next"
                       /\ After(s, proc[s].key, handled).tool = proc[s].tool
      BY <1>0 DEF After, Process
    <2> QED BY <1>0, <2>1, <2>2
  <1>8. ASSUME RecordFetch(s) \/ RecordIngestionCoverage(s) PROVE P
    BY <1>0, <1>8 DEF RecordFetch, RecordIngestionCoverage, Process
  <1>9. ASSUME End(s) \/ Crash(s) PROVE P
    BY <1>0, <1>9 DEF End, Crash, Idle
  <1>10. ASSUME NEW c, ReadArchive(s, c) PROVE proc'[s].tool = proc[s].tool
    BY <1>0, <1>10 DEF ReadArchive, Process
  <1>11. ASSUME NEW m, MergeSupplementary(s, m) PROVE proc'[s].tool = proc[s].tool
    BY <1>0, <1>11 DEF MergeSupplementary, Process
  <1>12. ASSUME WriteStaging(s) PROVE proc'[s].tool = proc[s].tool
    <2>1. CASE proc' = [proc EXCEPT ![s].at = "cover"]
      BY <1>0, <2>1 DEF Process
    <2>2. CASE proc' = [proc EXCEPT ![s] = After(s, proc[s].key, {})]
      <3>1. After(s, proc[s].key, {}).tool = proc[s].tool
        BY AfterProcess
      <3> QED BY <1>0, <2>2, <3>1
    <2> QED BY <1>12, <2>1, <2>2 DEF WriteStaging
  <1> QED BY <1>1, <1>2, <1>3, <1>4, <1>5, <1>6, <1>7, <1>8, <1>9, <1>10, <1>11, <1>12
          DEF Next, Step

\* The dispatcher's staging process, before it writes: the jobs of every
\* method are done, so what they archived matches the bars it holds.
LEMMA MergeQuotes ==
  ASSUME PipelineInv, QuotesInv, NEW m \in proc["dispatch"].left,
         MergeSupplementary("dispatch", m), ~ Fails,
         QuotesMerged(proc["dispatch"].key[1], proc["dispatch"].held, proc["dispatch"].left)
  PROVE  /\ proc'["dispatch"].key = proc["dispatch"].key
         /\ QuotesMerged(proc["dispatch"].key[1], proc'["dispatch"].held,
                         proc'["dispatch"].left)
  <1> DEFINE q == proc["dispatch"]
             p == q.key[1]
             d == q.key[3]
             c == <<p, m, d>>
  <1>1. TypeOK /\ HeldInv(q) /\ JobInv /\ q \in Process /\ q.at = "merge"
    BY DEF PipelineInv, TypeOK, Slot, MergeSupplementary
  <1>2. /\ q.tool = "stage" /\ q.key \in q.todo /\ d \notin Weekend
        /\ ArePayload(q.held, p, d) /\ q.key \in Combo
    BY <1>1 DEF HeldInv, Process
  <1>3. p \in Provider /\ d \in Day
    BY <1>2 DEF Combo
  <1>4. q.job = StageName(Item)
    <2>1. /\ q.job \in IngestNames(Item) \cup {StageName(Item)}
          /\ RunOf(q.job).tool = "stage"
      BY <1>1, <1>2 DEF JobInv
    <2> QED BY <2>1, IngestJob
  <1>5. IngestNames(Item) \subseteq done /\ d \in Item.first .. Item.last
    <2>1. DependsOn(Item, q.job) \subseteq done /\ q.todo \subseteq Work(RunOf(q.job).combos, q.days)
          /\ q.days = RunOf(q.job).days
      BY <1>1, <1>2 DEF JobInv
    <2>2. q.key \in Work(RunOf(q.job).combos, Item.first .. Item.last)
      BY <1>2, <1>4, <2>1, StageJob
    <2>3. q.key[3] \in Item.first .. Item.last
      BY <2>2 DEF Work
    <2> QED BY <1>4, <2>1, <2>3, StageJob
  <1>6. /\ q.left \in SUBSET Method /\ m \in Method /\ q.held \in SUBSET Bar
    BY <1>1 DEF Process
  <1>7. /\ proc'["dispatch"].key = q.key
        /\ proc'["dispatch"].left = q.left \ {m}
        /\ proc'["dispatch"].held = Merge(q.held, m, archive[c])
    BY <1>1 DEF MergeSupplementary, TypeOK, Process, Slot
  <1>8. ASSUME NEW b \in q.held, <<p, b.day>> \notin Unfinished,
               m \in QuotesOf(p, b)
        PROVE  Matches(b, archive[c])
    <2>1. m \in PlannedMethods(p) /\ MethodHas(p, m, b)
      BY <1>8 DEF QuotesOf
    <2>2. Ingested(c)
      BY <1>3, <1>5, <2>1, PlanIngested
    <2>3. archive[c] # {}
      BY <1>2, <2>2 DEF Ingested, NeverHasData
    <2>4. c \in Combo
      BY <1>3, <1>6 DEF Combo
    <2>5. archive[c] \in Payloads(p, m, d)
      BY <2>3, <2>4 DEF PipelineInv, ArchiveInv
    <2> HIDE DEF c, p, d, q
    <2> QED BY <1>2, <1>3, <1>6, <1>8, <2>1, <2>5, PayloadsMatch
  <1>9. ASSUME NEW b \in Merge(q.held, m, archive[c]), <<p, b.day>> \notin Unfinished
        PROVE  QuotesOf(p, b) \ (q.left \ {m}) \subseteq b.quotes
    <2>1. PICK a \in q.held : b = IF Matches(a, archive[c]) THEN [a EXCEPT !.quotes = @ \cup {m}]
                                  ELSE a
      BY <1>9 DEF Merge
    <2>2. a \in Bar
      BY <1>6
    <2>3. /\ b.day = a.day /\ b.minute = a.minute /\ a.quotes \subseteq b.quotes
          /\ Matches(a, archive[c]) => m \in b.quotes
      BY <2>1, <2>2 DEF Bar
    <2>4. QuotesOf(p, b) = QuotesOf(p, a)
      BY <2>3 DEF QuotesOf, MethodHas
    <2>5. QuotesOf(p, a) \ q.left \subseteq a.quotes
      BY <1>9, <2>3 DEF QuotesMerged
    <2>6. m \in QuotesOf(p, a) => m \in b.quotes
      BY <1>8, <1>9, <2>3
    <2> HIDE DEF c, p, d, q
    <2> QED BY <2>3, <2>4, <2>5, <2>6
  <1> HIDE DEF c, p, d
  <1> QED BY <1>7, <1>9 DEF QuotesMerged, p

LEMMA UpsertQuotes ==
  ASSUME staged \subseteq StagedBar, NEW p \in Provider, NEW bars, QuotesMerged(p, bars, {}),
         staged' = Upsert(p, bars), NEW q \in Provider,
         QuotesMerged(q, {b \in staged : b.provider = q}, {})
  PROVE  QuotesMerged(q, {b \in staged' : b.provider = q}, {})
  <1> SUFFICES ASSUME NEW b \in staged', b.provider = q, <<q, b.day>> \notin Unfinished
               PROVE  QuotesOf(q, b) \ {} \subseteq b.quotes
    BY DEF QuotesMerged
  <1>1. CASE b \in staged
    BY <1>1 DEF QuotesMerged
  <1>2. CASE b \notin staged
    <2>1. PICK x \in bars : b = [provider |-> p, day |-> x.day, minute |-> x.minute,
                                 quotes |-> x.quotes]
      BY <1>2 DEF Upsert
    <2>2. q = p /\ b.day = x.day /\ b.minute = x.minute /\ b.quotes = x.quotes
      BY <2>1
    <2>3. QuotesOf(q, b) = QuotesOf(p, x)
      BY <2>2 DEF QuotesOf, MethodHas
    <2> QED BY <2>2, <2>3 DEF QuotesMerged
  <1> QED BY <1>1, <1>2

LEMMA InitQuotes == Init => QuotesInv
  BY DEF Init, QuotesInv, QuotesMerged, Idle, Slot

LEMMA NextQuotes == PipelineInv /\ QuotesInv /\ [Next]_vars => QuotesInv'
  <1> SUFFICES ASSUME PipelineInv, QuotesInv, [Next]_vars,
                      faults' = 0, \A r \in byHand' : r.tool # "stage"
               PROVE  /\ proc'["hand"].tool # "stage"
                      /\ proc'["dispatch"].at \in {"merge", "cover"} =>
                           QuotesMerged(proc'["dispatch"].key[1], proc'["dispatch"].held,
                                        proc'["dispatch"].left)
                      /\ \A p \in Provider :
                           QuotesMerged(p, {b \in staged' : b.provider = p}, {})
    BY DEF QuotesInv, QuotesMerged
  <1> DEFINE q == proc["dispatch"]
  <1>1. TypeOK /\ "hand" \in Slot /\ "dispatch" \in Slot
    BY DEF PipelineInv, Slot
  <1>2. faults = 0 /\ ~ Fails /\ \A r \in byHand : r.tool # "stage"
    BY <1>1, FaultsGrow, Writers
  <1>3. /\ proc["hand"].tool # "stage"
        /\ q.at \in {"merge", "cover"} => QuotesMerged(q.key[1], q.held, q.left)
        /\ \A p \in Provider : QuotesMerged(p, {b \in staged : b.provider = p}, {})
    BY <1>2 DEF QuotesInv
  <1>4. proc'["hand"].tool # "stage"
    <2>1. proc["hand"].at \notin {"merge", "cover"}
      BY <1>1, <1>3 DEF PipelineInv, HeldInv
    <2> QED BY <1>1, <1>3, ProcessStep
  <1>5. ASSUME WriteStaging("dispatch")
        PROVE  /\ q.at = "merge" /\ q.left = {} /\ q.key[1] \in Provider
               /\ staged' = Upsert(q.key[1], q.held)
               /\ proc'["dispatch"].key = q.key /\ proc'["dispatch"].held = q.held
               /\ proc'["dispatch"].left = q.left
    <2>1. q \in Process /\ q.at = "merge" /\ q.key \in q.todo
      BY <1>1, <1>5 DEF PipelineInv, HeldInv, WriteStaging, TypeOK
    <2>2. q.key[1] \in Provider
      BY <1>1, <2>1, TodoType
    <2>3. staged' = Upsert(q.key[1], q.held) /\ proc' = [proc EXCEPT !["dispatch"].at = "cover"]
      BY <1>2, <1>5 DEF WriteStaging
    <2> QED BY <1>1, <1>5, <2>1, <2>2, <2>3 DEF WriteStaging, TypeOK, Process
  <1>6. ASSUME proc'["dispatch"].at \in {"merge", "cover"}
        PROVE  QuotesMerged(proc'["dispatch"].key[1], proc'["dispatch"].held,
                            proc'["dispatch"].left)
    <2>1. CASE proc'["dispatch"] = q
      BY <1>3, <1>6, <2>1
    <2>2. ASSUME NEW c \in q.todo, ReadArchive("dispatch", c)
          PROVE  QuotesMerged(proc'["dispatch"].key[1], proc'["dispatch"].held,
                              proc'["dispatch"].left)
      <3>1. q.at = "next" /\ q \in Process
        BY <1>1, <2>2 DEF ReadArchive, IsNext, TypeOK
      <3>2. proc' = [proc EXCEPT !["dispatch"].at = "merge", !["dispatch"].key = c,
                                 !["dispatch"].held = archive[c],
                                 !["dispatch"].left = Supplementary(c[1])]
        <4>1. CASE proc' = [proc EXCEPT !["dispatch"].todo = Done("dispatch", c)]
          BY <1>1, <1>6, <3>1, <4>1 DEF TypeOK, Process
        <4> QED BY <2>2, <4>1 DEF ReadArchive
      <3>3. proc'["dispatch"].key = c /\ proc'["dispatch"].left = Supplementary(c[1])
        BY <1>1, <3>1, <3>2 DEF TypeOK, Process
      <3> QED BY <3>3 DEF QuotesMerged, QuotesOf
    <2>3. ASSUME NEW m \in q.left, MergeSupplementary("dispatch", m)
          PROVE  QuotesMerged(proc'["dispatch"].key[1], proc'["dispatch"].held,
                              proc'["dispatch"].left)
      <3>1. q.at = "merge"
        BY <2>3 DEF MergeSupplementary
      <3> QED BY <1>2, <1>3, <2>3, <3>1, MergeQuotes
    <2>4. CASE WriteStaging("dispatch")
      BY <1>3, <1>5, <2>4
    <2> QED BY <1>1, <1>6, <2>1, <2>2, <2>3, <2>4, ProcessStep
  <1>7. ASSUME NEW p \in Provider
        PROVE  QuotesMerged(p, {b \in staged' : b.provider = p}, {})
    <2>1. CASE UNCHANGED staged
      BY <1>3, <2>1
    <2>2. ASSUME NEW s \in Slot, WriteStaging(s)
          PROVE  s = "dispatch"
      <3>1. proc[s].tool = "stage"
        BY <2>2 DEF PipelineInv, HeldInv, WriteStaging
      <3> QED BY <1>3, <3>1 DEF Slot
    <2>3. CASE WriteStaging("dispatch")
      <3>1. QuotesMerged(q.key[1], q.held, {})
        BY <1>3, <1>5, <2>3
      <3>2. staged \subseteq StagedBar
        BY <1>1 DEF TypeOK
      <3> HIDE DEF q
      <3> QED BY <1>3, <1>5, <2>3, <3>1, <3>2, UpsertQuotes
    <2> QED BY <2>1, <2>2, <2>3, Writers
  <1> QED BY <1>4, <1>6, <1>7

\* Without a fault and without another staging run, the quotes of every method of
\* the plan that has the minute are in the row of every bar of a session that was
\* over: the staging job starts when all of them are archived.
THEOREM NoSecondPass == Spec => []QuotesAreMerged
  <1>1. Init => QuotesInv
    BY InitQuotes
  <1>2. PipelineInv /\ QuotesInv /\ [Next]_vars => QuotesInv'
    BY NextQuotes
  <1>3. PipelineInv /\ QuotesInv => QuotesAreMerged
    <2> SUFFICES ASSUME PipelineInv, QuotesInv, faults = 0, \A r \in byHand : r.tool # "stage",
                        NEW b \in staged, <<b.provider, b.day>> \notin Unfinished
                 PROVE  QuotesOf(b.provider, b) \subseteq b.quotes
      BY DEF QuotesAreMerged
    <2>1. b.provider \in Provider
      BY DEF PipelineInv, TypeOK, StagedBar
    <2> QED BY <2>1 DEF QuotesInv, QuotesMerged
  <1> QED BY <1>1, <1>2, <1>3, PipelineInvariant, PTL DEF Spec

-----------------------------------------------------------------------------
(* Pipeline implements Handover.                                           *)

\* An archive row stays, and so do rows of other minutes when a session is staged,
\* or staged again; a day that is unmarked was raced for.
LEMMA AlwaysGrows ==
  ASSUME PipelineInv, [Next]_vars
  PROVE  Grows
  <1>0. TypeOK
    BY DEF PipelineInv
  <1>1. ASSUME NEW s \in Slot, WriteStaging(s)
        PROVE  Grows
    <2> DEFINE p == proc[s].key[1]
               bars == proc[s].held
    <2>0. UNCHANGED <<archive, marked, raced>>
      BY <1>1 DEF WriteStaging
    <2>1. CASE UNCHANGED staged
      BY <2>0, <2>1 DEF Grows, Ingested, MarkedUnlessRaced, StagedKeys
    <2>2. CASE staged' = Upsert(p, bars)
      <3>1. HeldInv(proc[s]) /\ proc[s].at = "merge"
        BY <1>1 DEF PipelineInv, WriteStaging
      <3>2. bars \in SUBSET Bar /\ proc[s].key \in proc[s].todo
        BY <1>0, <3>1 DEF TypeOK, Process, HeldInv
      <3>3. p \in Provider /\ staged \subseteq StagedBar
        BY <1>0, <3>2, TodoType DEF TypeOK
      <3> HIDE DEF p, bars
      <3>4. \A q \in Provider : StagedKeys(q) \subseteq StagedKeys(q)'
        BY <2>2, <3>2, <3>3, UpsertKeys
      <3> QED BY <2>0, <3>4 DEF Grows, Ingested, MarkedUnlessRaced
    <2> QED BY <1>1, <2>1, <2>2 DEF WriteStaging
  <1>2. ASSUME NEW s \in Slot, CommitFetch(s)
        PROVE  Grows
    <2>1. CASE Rollback(s)
      BY <2>1, TablesGrow DEF Rollback
    <2>2. CASE ~ Rollback(s)
      BY <1>2, <2>2, FetchCommitted DEF CommitFetch
    <2> QED BY <2>1, <2>2
  <1>3. ASSUME NEW s \in Slot, CommitIngestionCoverage(s)
        PROVE  Grows
    <2>1. CASE Rollback(s)
      BY <2>1, TablesGrow DEF Rollback
    <2>2. CASE ~ Rollback(s)
      BY <1>3, <2>2, CoverageCommitted DEF CommitIngestionCoverage
    <2> QED BY <2>1, <2>2
  <1>4. CASE UNCHANGED <<archive, marked, staged, covered, raced>>
    BY <1>4, TablesGrow DEF tables
  <1> QED BY <1>1, <1>2, <1>3, <1>4, Writers

\* The state of the abstract specification.
Landed == {x \in Sessions : SessionStaged(x[1], x[2])}
Confirmed == {x \in Sessions : x[2] \in covered[x[1]]}
Contended == {x \in Sessions : <<x[1]>> \in raced}

LEMMA LandedStays ==
  UNCHANGED staged => UNCHANGED Landed
  BY DEF Landed, Sessions, SessionStaged, StagedMinutes

LEMMA HandoverStep ==
  ASSUME PipelineInv, [Next]_vars
  PROVE  [Staging!Next]_<<Landed, Confirmed, Contended>>
  <1>1. PipelineInv' /\ TypeOK /\ TypeOK'
    BY PipelineKept DEF PipelineInv
  <1>2. ASSUME UNCHANGED <<archive, marked, covered, raced>> PROVE Staging!Land
    <2>1. ASSUME NEW x \in Landed PROVE x \in Landed'
      <3>1. x[1] \in Provider /\ SessionStaged(x[1], x[2])
        BY DEF Landed, Sessions
      <3>2. SessionStaged(x[1], x[2])'
        BY <1>1, <3>1, AlwaysGrows, SessionsStayStaged
      <3> QED BY <3>2 DEF Landed, Sessions
    <2>2. UNCHANGED <<Confirmed, Contended>>
      BY <1>2 DEF Confirmed, Contended
    <2> QED BY <2>1, <2>2 DEF Staging!Land, Landed, Confirmed, Contended, Sessions
  <1>3. ASSUME NEW s \in Slot, CommitFetch(s)
        PROVE  Staging!Next \/ UNCHANGED <<Landed, Confirmed, Contended>>
    <2>1. CASE Rollback(s)
      BY <2>1, LandedStays DEF Rollback, tables, Confirmed, Contended
    <2>2. CASE ~ Rollback(s)
      <3>1. UNCHANGED <<staged, covered>> /\ raced \subseteq raced'
        BY <1>3, <2>2, FetchCommitted DEF CommitFetch
      <3>2. UNCHANGED <<Landed, Confirmed>>
        BY <3>1, LandedStays DEF Confirmed
      <3>3. Contended \subseteq Contended'
        BY <3>1 DEF Contended
      <3> QED BY <3>2, <3>3 DEF Staging!Next, Staging!Confirm, Landed, Confirmed, Contended
    <2> QED BY <2>1, <2>2
  <1>4. ASSUME NEW s \in Slot, CommitIngestionCoverage(s)
        PROVE  Staging!Next \/ UNCHANGED <<Landed, Confirmed, Contended>>
    <2>1. CASE Rollback(s)
      BY <2>1, LandedStays DEF Rollback, tables, Confirmed, Contended
    <2>2. CASE ~ Rollback(s)
      <3>1. /\ raced \subseteq raced' /\ UNCHANGED staged
            /\ \A p \in Provider : \A d \in covered'[p] \ covered[p] :
                 d \notin Weekend => SessionStaged(p, d)
            /\ \A p \in Provider : covered[p] \ covered'[p] # {} => <<p>> \in raced'
        BY <1>4, <2>2, CoverageCommitted DEF CommitIngestionCoverage
      <3>2. UNCHANGED Landed /\ Contended \subseteq Contended'
        BY <3>1, LandedStays DEF Contended
      <3>3. Confirmed' \ Confirmed \subseteq Landed
        <4> SUFFICES ASSUME NEW x \in Confirmed' \ Confirmed PROVE x \in Landed
          OBVIOUS
        <4>1. /\ x \in Sessions /\ x[1] \in Provider /\ x[2] \notin Weekend
              /\ x[2] \in covered'[x[1]] \ covered[x[1]]
          BY DEF Confirmed, Sessions
        <4> QED BY <3>1, <4>1 DEF Landed
      <3>4. Confirmed \ Confirmed' \subseteq Contended'
        BY <3>1 DEF Confirmed, Contended, Sessions
      <3> QED BY <3>2, <3>3, <3>4 DEF Staging!Next, Staging!Confirm, Landed, Confirmed, Contended
    <2> QED BY <2>1, <2>2
  <1> QED BY <1>2, <1>3, <1>4, Writers DEF Staging!Next

\* What quant-reconcile may take for granted of quant-stage, whatever fails and
\* crashes, and however runs by hand and of the schedule interleave: a session is
\* confirmed only once it has landed, what has landed stays, and a confirmation is
\* withdrawn only where two runs committed over each other.
THEOREM HandoverHolds == Spec => ImplementsHandover
  <1>1. Init => Staging!Init
    BY DEF Init, Staging!Init, Sessions
  <1>2. PipelineInv /\ [Next]_vars =>
          [Staging!Next]_<<{x \in Sessions : SessionStaged(x[1], x[2])},
                           {x \in Sessions : x[2] \in covered[x[1]]},
                           {x \in Sessions : <<x[1]>> \in raced}>>
    BY HandoverStep DEF Landed, Confirmed, Contended
  <1> QED BY PipelineInvariant, <1>1, <1>2, PTL
          DEF Spec, ImplementsHandover, Staging!Spec, Staging!vars
=============================================================================
