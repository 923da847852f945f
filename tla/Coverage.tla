------------------------------ MODULE Coverage ------------------------------
(***************************************************************************)
(* The coverage table of the archive database and its only writer,         *)
(* ProviderSourceArchiveWriter.  A key stands for one                      *)
(* (ticker, provider, method, fetch_version); its covered days are stored  *)
(* as closed ranges that are extended and merged instead of one row a day. *)
(*                                                                         *)
(* One transaction is two steps, the SELECT of the touching rows and the   *)
(* writes that commit with it: Postgres runs it READ COMMITTED, so what    *)
(* was selected may be stale when the writes apply.  Two transactions on   *)
(* one key do not overlap as long as only one dispatcher fetches it, since *)
(* it runs its ingest jobs one after another; a catch-up or a run by hand  *)
(* beside it makes them.  Both kinds of key are in one table.              *)
(*                                                                         *)
(* PostgresDatabase.record_ingestion_coverage is the same algorithm over   *)
(* date ids, which grow by one a calendar day.                             *)
(***************************************************************************)
EXTENDS Integers, FiniteSetsExt, CoverageCommit

CONSTANTS
  Key,        \* (ticker, provider, method, fetch_version)
  Day,        \* trading dates, as integers: d + 1 is the next calendar day
  Writer,     \* the processes that hold a connection to the archive database
  Exclusive   \* the keys on which no two transactions overlap

ASSUME DayAssumption == Day \subseteq Int
ASSUME ExclusiveAssumption == Exclusive \subseteq Key

VARIABLES
  rows,      \* archive_coverage: a set of [id, key, start, end]
  nextId,    \* the sequence behind coverage_id
  archive,   \* provider_source_archive, as the (key, day) pairs that have a row
  recorded,  \* history: the (key, day) pairs whose transaction committed
  txn        \* txn[w]: the open transaction of writer w, or NoTxn

vars == <<rows, nextId, archive, recorded, txn>>

Row == [id : Nat, key : Key, start : Int, end : Int]

\* The two callers of _record_coverage: record_fetch also inserts an archive
\* row, mark_covered_without_data does not.
Kind == {"fetch", "no_data"}

NoTxn == [state |-> "none"]
OpenTxn == [state : {"selected"}, kind : Kind, key : Key, day : Day,
            touching : SUBSET Row]

DaysOf(r) == r.start .. r.end

\* The days the table says are covered for key k.
Covered(k) == UNION {DaysOf(r) : r \in {x \in rows : x.key = k}}

-----------------------------------------------------------------------------
(* The SELECT: rows of the key that contain the day or are adjacent to it. *)

Touches(r, d) == r.start <= d + 1 /\ r.end >= d - 1

Touching(k, d) == {r \in rows : r.key = k /\ Touches(r, d)}

MutAlreadyCovered(touching, d) == touching # {}
AlreadyCovered(touching, d) == \E r \in touching : d \in DaysOf(r)

-----------------------------------------------------------------------------
(* The writes, computed from what was selected.                            *)

MutNewStart(touching, d) == Max({d} \cup {r.start : r \in touching})
NewStart(touching, d) == Min({d} \cup {r.start : r \in touching})
MutNewEnd(touching, d) == Max({d + 1} \cup {r.end : r \in touching})
MutNewEndOfDay(touching, d) == d
NewEnd(touching, d) == Max({d} \cup {r.end : r \in touching})

\* DELETE ... WHERE coverage_id = ... for every touching row but the kept
\* one, then UPDATE of the kept row: both by id, so a row another transaction
\* deleted meanwhile is not written.
MutMerged(touching, keep, d) ==
  {IF r.id = keep.id
     THEN [r EXCEPT !.start = NewStart(touching, d), !.end = NewEnd(touching, d)]
     ELSE r : r \in rows}

Merged(touching, keep, d) ==
  LET deleted == {r.id : r \in touching \ {keep}}
      kept    == {r \in rows : r.id \notin deleted}
  IN  {IF r.id = keep.id
         THEN [r EXCEPT !.start = NewStart(touching, d), !.end = NewEnd(touching, d)]
         ELSE r : r \in kept}

InsertRange(k, d) ==
  /\ rows' = rows \cup {[id |-> nextId, key |-> k, start |-> d, end |-> d]}
  /\ nextId' = nextId + 1

\* _record_coverage after its SELECT.
RecordCoverage(k, d, touching) ==
  \/ /\ AlreadyCovered(touching, d)
     /\ UNCHANGED <<rows, nextId>>
  \/ /\ touching = {}
     /\ InsertRange(k, d)
  \/ /\ touching # {}
     /\ ~ AlreadyCovered(touching, d)
     /\ \E keep \in touching :
          /\ \A r \in touching : keep.start <= r.start
          /\ rows' = Merged(touching, keep, d)
     /\ UNCHANGED nextId

-----------------------------------------------------------------------------
Init ==
  /\ rows = {}
  /\ nextId = 1
  /\ archive = {}
  /\ recorded = {}
  /\ txn = [w \in Writer |-> NoTxn]

\* record_fetch or mark_covered_without_data up to and including the SELECT.
Select(w, kind, k, d) ==
  /\ txn[w] = NoTxn
  /\ k \in Exclusive => \A v \in Writer : txn[v] # NoTxn => txn[v].key # k
  /\ txn' = [txn EXCEPT ![w] = [state |-> "selected", kind |-> kind, key |-> k,
                                day |-> d, touching |-> Touching(k, d)]]
  /\ UNCHANGED <<rows, nextId, archive, recorded>>

\* The archive INSERT, the coverage writes and the commit.
Commit(w) ==
  LET t == txn[w] IN
  /\ t # NoTxn
  /\ RecordCoverage(t.key, t.day, t.touching)
  /\ archive' = IF t.kind = "fetch" THEN archive \cup {<<t.key, t.day>>} ELSE archive
  /\ recorded' = recorded \cup {<<t.key, t.day>>}
  /\ txn' = [txn EXCEPT ![w] = NoTxn]

\* A psycopg error, or the process dying: the server rolls everything back.
Rollback(w) ==
  /\ txn[w] # NoTxn
  /\ txn' = [txn EXCEPT ![w] = NoTxn]
  /\ UNCHANGED <<rows, nextId, archive, recorded>>

Next ==
  \E w \in Writer :
    \/ \E kind \in Kind, k \in Key, d \in Day : Select(w, kind, k, d)
    \/ Commit(w)
    \/ Rollback(w)

Spec == Init /\ [][Next]_vars

-----------------------------------------------------------------------------
(* Properties of every key, whether or not its transactions overlap.       *)

\* Every variable has the shape its table gives it; row ids are never reused.
TypeOK ==
  /\ rows \in SUBSET Row
  /\ nextId \in Nat
  /\ \A r \in rows : r.id < nextId
  /\ archive \in SUBSET (Key \X Day)
  /\ recorded \in SUBSET (Key \X Day)
  /\ txn \in [Writer -> OpenTxn \cup {NoTxn}]

\* The table never claims a day whose transaction did not commit.  An overlap
\* may drop a day, which is then fetched once more; an invented day would be
\* skipped by quant-ingest for ever.
NothingInvented ==
  \A r \in rows, d \in Day : d \in DaysOf(r) => <<r.key, d>> \in recorded

\* Of an overlap that is all that is lost: a commit keeps the days of its key if
\* what it selected is what it finds, and leaves every other key alone even if not.
CommitsAsPromised ==
  [][\A w \in Writer : \A t \in {txn[w]} \ {NoTxn} :
       Commit(w) =>
         /\ Covered(t.key)' \in LeftBy(Covered(t.key), UNION {DaysOf(r) : r \in t.touching},
                                      t.day, t.touching = Touching(t.key, t.day))
         /\ \A k \in Key \ {t.key} : Covered(k)' = Covered(k)]_vars

\* coverage_id is a primary key, and the sequence behind it never goes back.
IdsUnique == \A r, s \in rows : r.id = s.id => r = s

\* A selection may be stale, but what it saw had been recorded, and its ids
\* still belong to the key or to nobody.
SelectedRow(r, t) ==
  /\ r.key = t.key /\ r.id < nextId /\ r.start <= r.end /\ Touches(r, t.day)
  /\ \A d \in Day : d \in DaysOf(r) => <<t.key, d>> \in recorded
  /\ \A q \in rows : q.id = r.id => q.key = r.key

\* The inductive invariant of the table whose writers may overlap.
RaceInv ==
  /\ TypeOK
  /\ IsFiniteSet(rows)
  /\ IdsUnique
  /\ \A r \in rows : r.start <= r.end
  /\ NothingInvented
  /\ \A w \in Writer :
       txn[w] # NoTxn =>
         /\ IsFiniteSet(txn[w].touching)
         /\ \A r \in txn[w].touching : SelectedRow(r, txn[w])

-----------------------------------------------------------------------------
(* Properties of the exclusive keys, whatever happens to the others in the *)
(* same table.                                                             *)

\* Two ranges of one key neither overlap nor touch: a run of consecutive
\* covered days is one row, which is what makes a gap between two rows a real
\* gap (the reason _record_coverage merges instead of adding a row per day).
RangesSeparated ==
  \A r, s \in rows :
    r.key = s.key /\ r.key \in Exclusive /\ r # s =>
      r.end + 1 < s.start \/ s.end + 1 < r.start

\* The table covers exactly the days whose transaction committed: extending
\* or merging ranges never claims a day nobody recorded, and never drops one.
CoverageIsExact ==
  \A k \in Exclusive : Covered(k) = {d \in Day : <<k, d>> \in recorded}

\* record_fetch: "one transaction, so a fetch is never recorded without its
\* coverage range also reflecting it".
ArchivedIsCovered ==
  \A kd \in archive : kd[1] \in Exclusive => kd[2] \in Covered(kd[1])

\* The range table implements a plain set of covered days per key.
Dates == INSTANCE CoveredDates
           WITH Key <- Exclusive, covered <- [k \in Exclusive |-> Covered(k)]

\* Every commit on an exclusive key is one abstract Record, every other step a
\* stutter, commits from stale selections of other keys included.
ImplementsCoveredDates == Dates!Spec

\* What a transaction selected is still what its commit finds: the fact that
\* exclusivity buys, and without which none of the above survives a commit.
SnapshotsFresh ==
  \A w \in Writer :
    txn[w] # NoTxn /\ txn[w].key \in Exclusive =>
      txn[w].touching = Touching(txn[w].key, txn[w].day)

\* No two open transactions on one key.
OneTxnPerKey ==
  \A v, w \in Writer :
    v # w /\ txn[v] # NoTxn /\ txn[w] # NoTxn /\ txn[v].key \in Exclusive =>
      txn[v].key # txn[w].key

\* The inductive invariant of the table.
CoverageInv ==
  /\ RaceInv
  /\ RangesSeparated
  /\ CoverageIsExact
  /\ ArchivedIsCovered
  /\ SnapshotsFresh
  /\ OneTxnPerKey
=============================================================================
