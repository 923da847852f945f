--------------------------- MODULE CoverageProofs ---------------------------
(***************************************************************************)
(* Proofs about Coverage, for every set of keys, days and writers.         *)
(***************************************************************************)
EXTENDS Coverage, FiniteSetTheorems, WellFoundedInduction, TLAPS

-----------------------------------------------------------------------------
(* The least and greatest element, once known, are what Min and Max pick.  *)

LEMMA MinIs ==
  ASSUME NEW S, NEW m \in S, S \subseteq Int, \A x \in S : m <= x
  PROVE  Min(S) = m
  <1>1. \A y \in S : m <= y
    OBVIOUS
  <1>2. \A x \in S : (\A y \in S : x <= y) => x = m
    OBVIOUS
  <1> QED BY <1>1, <1>2, Zenon DEF Min

LEMMA MaxIs ==
  ASSUME NEW S, NEW m \in S, S \subseteq Int, \A x \in S : x <= m
  PROVE  Max(S) = m
  <1>1. \A y \in S : m >= y
    OBVIOUS
  <1>2. \A x \in S : (\A y \in S : x >= y) => x = m
    OBVIOUS
  <1> QED BY <1>1, <1>2, Zenon DEF Max

-----------------------------------------------------------------------------
(* A row that touches an uncovered day ends the day before it or starts    *)
(* the day after it.                                                       *)
LEMMA TouchingSides ==
  ASSUME RaceInv, RangesSeparated, NEW k \in Exclusive, NEW d \in Day,
         ~ AlreadyCovered(Touching(k, d), d),
         NEW r \in Touching(k, d)
  PROVE  /\ r \in Row /\ r \in rows /\ r.key = k
         /\ r.start <= r.end
         /\ r.end = d - 1 \/ r.start = d + 1
  <1>1. r \in Row /\ r \in rows /\ r.key = k /\ Touches(r, d)
    BY DEF Touching, RaceInv, TypeOK
  <1>2. r.start \in Int /\ r.end \in Int /\ d \in Int /\ r.start <= r.end
    BY <1>1, DayAssumption DEF Row, RaceInv
  <1>3. d \notin r.start .. r.end
    BY DEF AlreadyCovered, DaysOf
  <1> QED BY <1>1, <1>2, <1>3 DEF Touches

(* The merged range starts at the new day or where the row that ends the   *)
(* day before starts, and ends symmetrically.                              *)
LEMMA MergedSpan ==
  ASSUME RaceInv, RangesSeparated, NEW k \in Exclusive, NEW d \in Day,
         ~ AlreadyCovered(Touching(k, d), d)
  PROVE  LET T == Touching(k, d) IN
         /\ NewStart(T, d) \in Int /\ NewEnd(T, d) \in Int
         /\ \/ NewStart(T, d) = d /\ \A r \in T : r.end # d - 1
            \/ \E r \in T : r.end = d - 1 /\ NewStart(T, d) = r.start
         /\ \/ NewEnd(T, d) = d /\ \A r \in T : r.start # d + 1
            \/ \E r \in T : r.start = d + 1 /\ NewEnd(T, d) = r.end
  <1> DEFINE T == Touching(k, d)
             starts == {d} \cup {r.start : r \in T}
             ends == {d} \cup {r.end : r \in T}
  <1>1. d \in Int
    BY DayAssumption
  <1>2. \A r \in T : /\ r \in Row /\ r \in rows /\ r.key = k
                     /\ r.start \in Int /\ r.end \in Int
                     /\ r.start <= r.end
                     /\ r.end = d - 1 \/ r.start = d + 1
    BY TouchingSides DEF Row
  <1>3. \A r, s \in T : r # s => r.end + 1 < s.start \/ s.end + 1 < r.start
    BY <1>2 DEF RangesSeparated
  <1>4. starts \subseteq Int /\ ends \subseteq Int
    BY <1>1, <1>2
  <1>5. /\ NewStart(T, d) \in Int
        /\ \/ NewStart(T, d) = d /\ \A r \in T : r.end # d - 1
           \/ \E r \in T : r.end = d - 1 /\ NewStart(T, d) = r.start
    <2>1. CASE \A r \in T : r.end # d - 1
      <3>1. \A x \in starts : d <= x
        BY <1>1, <1>2, <2>1
      <3>2. Min(starts) = d
        BY <1>4, <3>1, MinIs
      <3> QED BY <1>1, <2>1, <3>2 DEF NewStart
    <2>2. CASE \E r \in T : r.end = d - 1
      <3>1. PICK l \in T : l.end = d - 1
        BY <2>2
      <3>2. \A x \in starts : l.start <= x
        BY <1>1, <1>2, <1>3, <3>1
      <3>3. l.start \in starts
        BY <3>1
      <3>4. Min(starts) = l.start
        BY <1>4, <3>2, <3>3, MinIs
      <3> QED BY <1>2, <3>1, <3>4 DEF NewStart
    <2> QED BY <2>1, <2>2
  <1>6. /\ NewEnd(T, d) \in Int
        /\ \/ NewEnd(T, d) = d /\ \A r \in T : r.start # d + 1
           \/ \E r \in T : r.start = d + 1 /\ NewEnd(T, d) = r.end
    <2>1. CASE \A r \in T : r.start # d + 1
      <3>1. \A x \in ends : x <= d
        BY <1>1, <1>2, <2>1
      <3>2. Max(ends) = d
        BY <1>4, <3>1, MaxIs
      <3> QED BY <1>1, <2>1, <3>2 DEF NewEnd
    <2>2. CASE \E r \in T : r.start = d + 1
      <3>1. PICK h \in T : h.start = d + 1
        BY <2>2
      <3>2. \A x \in ends : x <= h.end
        BY <1>1, <1>2, <1>3, <3>1
      <3>3. h.end \in ends
        BY <3>1
      <3>4. Max(ends) = h.end
        BY <1>4, <3>2, <3>3, MaxIs
      <3> QED BY <1>2, <3>1, <3>4 DEF NewEnd
    <2> QED BY <2>1, <2>2
  <1> QED BY <1>5, <1>6

(* The merged range holds the new day and the days of the rows it replaces,*)
(* and keeps its distance from the other rows of the key.                  *)
LEMMA NewRange ==
  ASSUME RaceInv, RangesSeparated, NEW k \in Exclusive, NEW d \in Day,
         ~ AlreadyCovered(Touching(k, d), d)
  PROVE  LET T == Touching(k, d)
             s == NewStart(T, d)
             e == NewEnd(T, d)
         IN  /\ s \in Int /\ e \in Int /\ s <= e
             /\ \A x : x \in s .. e <=> x = d \/ \E r \in T : x \in DaysOf(r)
             /\ \A r \in rows \ T : r.key = k => r.end + 1 < s \/ e + 1 < r.start
  <1> DEFINE T == Touching(k, d)
             s == NewStart(T, d)
             e == NewEnd(T, d)
  <1>1. d \in Int
    BY DayAssumption
  <1>2. \A r \in T : /\ r \in rows /\ r.key = k
                     /\ r.start \in Int /\ r.end \in Int
                     /\ r.start <= r.end
                     /\ r.end = d - 1 \/ r.start = d + 1
    BY TouchingSides DEF Row
  <1>3. \A r \in T, q \in rows :
          q.key = k /\ r # q => r.end + 1 < q.start \/ q.end + 1 < r.start
    BY <1>2 DEF RangesSeparated
  <1>4. /\ s \in Int /\ e \in Int
        /\ \/ s = d /\ \A r \in T : r.end # d - 1
           \/ \E r \in T : r.end = d - 1 /\ s = r.start
        /\ \/ e = d /\ \A r \in T : r.start # d + 1
           \/ \E r \in T : r.start = d + 1 /\ e = r.end
    BY MergedSpan
  <1>5. \A r \in rows \ T : r.key = k => r.end < d - 1 \/ d + 1 < r.start
    <2> SUFFICES ASSUME NEW r \in rows \ T, r.key = k
                 PROVE  r.end < d - 1 \/ d + 1 < r.start
      OBVIOUS
    <2>1. r.start \in Int /\ r.end \in Int
      BY DEF RaceInv, TypeOK, Row
    <2> QED BY <1>1, <2>1 DEF Touching, Touches
  <1>6. \A r \in rows : r.start \in Int /\ r.end \in Int /\ r.start <= r.end
    BY DEF RaceInv, TypeOK, Row
  <1> HIDE DEF T, s, e
  <1>7. s <= e
    BY <1>1, <1>2, <1>4
  <1>8. \A r \in T : s <= r.start /\ r.end <= e
    BY <1>1, <1>2, <1>3, <1>4
  <1>9. s <= d /\ d <= e
    BY <1>1, <1>2, <1>4
  <1>10. \A x : x \in s .. e <=> x = d \/ \E r \in T : x \in r.start .. r.end
    <2>1. ASSUME NEW x, x = d \/ \E r \in T : x \in r.start .. r.end
          PROVE  x \in s .. e
      BY <1>1, <1>2, <1>4, <1>8, <1>9, <2>1
    <2>2. ASSUME NEW x \in s .. e, x # d
          PROVE  \E r \in T : x \in r.start .. r.end
      BY <1>1, <1>2, <1>4, <2>2
    <2> QED BY <2>1, <2>2
  <1>11. \A r \in rows \ T : r.key = k => r.end + 1 < s \/ e + 1 < r.start
    <2> SUFFICES ASSUME NEW r \in rows \ T, r.key = k
                 PROVE  r.end + 1 < s \/ e + 1 < r.start
      OBVIOUS
    <2>1. r.end < d - 1 \/ d + 1 < r.start
      BY <1>5
    <2>2. \A q \in T : q.end + 1 < r.start \/ r.end + 1 < q.start
      BY <1>3
    <2>3. r.start \in Int /\ r.end \in Int /\ r.start <= r.end
      BY <1>6
    <2>4. CASE r.end < d - 1
      <3>1. \A q \in T : r.end + 1 < q.start
        BY <1>1, <1>2, <2>2, <2>3, <2>4
      <3> QED BY <1>1, <1>4, <2>4, <2>3, <3>1
    <2>5. CASE d + 1 < r.start
      <3>1. \A q \in T : q.end + 1 < r.start
        BY <1>1, <1>2, <2>2, <2>3, <2>5
      <3> QED BY <1>1, <1>4, <2>5, <2>3, <3>1
    <2> QED BY <2>1, <2>4, <2>5
  <1> QED BY <1>4, <1>7, <1>10, <1>11 DEF T, s, e, DaysOf
-----------------------------------------------------------------------------
(* Both ways a commit changes the table replace the touching rows (none of  *)
(* them, for an insert) by one row that spans the day and all of them.     *)
Spans(n, k, d) ==
  /\ n \in Row /\ n.key = k
  /\ n.start = NewStart(Touching(k, d), d)
  /\ n.end = NewEnd(Touching(k, d), d)

(* Inserting a single-day row is the case of no touching row.              *)
LEMMA InsertSpans ==
  ASSUME RaceInv, RangesSeparated, NEW k \in Exclusive, NEW d \in Day,
         Touching(k, d) = {}, InsertRange(k, d)
  PROVE  \E n : /\ Spans(n, k, d)
                /\ rows' = (rows \ Touching(k, d)) \cup {n}
  <1> DEFINE n == [id |-> nextId, key |-> k, start |-> d, end |-> d]
  <1>1. ~ AlreadyCovered(Touching(k, d), d)
    BY DEF AlreadyCovered
  <1>2. NewStart(Touching(k, d), d) = d /\ NewEnd(Touching(k, d), d) = d
    BY <1>1, MergedSpan
  <1>3. n \in Row
    BY DayAssumption, ExclusiveAssumption DEF RaceInv, TypeOK, Row
  <1>4. Spans(n, k, d)
    BY <1>2, <1>3 DEF Spans
  <1>5. rows' = (rows \ Touching(k, d)) \cup {n}
    BY DEF InsertRange
  <1> QED BY <1>4, <1>5

(* Deleting every touching row but the kept one and widening that one.     *)
LEMMA MergedSpans ==
  ASSUME RaceInv, RangesSeparated, NEW k \in Exclusive, NEW d \in Day,
         ~ AlreadyCovered(Touching(k, d), d),
         NEW keep \in Touching(k, d)
  PROVE  \E n : /\ Spans(n, k, d)
                /\ Merged(Touching(k, d), keep, d) = (rows \ Touching(k, d)) \cup {n}
  <1> DEFINE T == Touching(k, d)
             s == NewStart(T, d)
             e == NewEnd(T, d)
             n == [keep EXCEPT !.start = s, !.end = e]
             deleted == {r.id : r \in T \ {keep}}
             kept == {r \in rows : r.id \notin deleted}
             widen(r) == IF r.id = keep.id
                           THEN [r EXCEPT !.start = s, !.end = e]
                           ELSE r
  <1>1. keep \in rows /\ keep \in Row /\ keep.key = k /\ IdsUnique
    BY DEF Touching, RaceInv, TypeOK
  <1>2. T \subseteq rows
    BY DEF Touching
  <1>3. s \in Int /\ e \in Int
    BY NewRange
  <1> HIDE DEF T, s, e
  <1>4. n \in Row /\ n.key = k /\ n.start = s /\ n.end = e
    BY <1>1, <1>3 DEF Row
  <1>5. kept = (rows \ T) \cup {keep}
    BY <1>1, <1>2 DEF IdsUnique, T
  <1>6. \A r \in rows \ T : r.id # keep.id
    BY <1>1, <1>2 DEF IdsUnique, T
  <1>7. {widen(r) : r \in kept} = (rows \ T) \cup {n}
    <2>1. \A r \in rows \ T : widen(r) = r
      BY <1>6
    <2>2. widen(keep) = n
      OBVIOUS
    <2> HIDE DEF kept, widen, n
    <2> QED BY <1>5, <2>1, <2>2
  <1>8. Merged(T, keep, d) = {widen(r) : r \in kept}
    BY DEF Merged, s, e
  <1> QED BY <1>4, <1>7, <1>8 DEF Spans, T, s, e
-----------------------------------------------------------------------------
(* What replacing the touching rows by such a row does.                    *)
LEMMA ReplacedRows ==
  ASSUME RaceInv, RangesSeparated, NEW k \in Exclusive, NEW d \in Day,
         ~ AlreadyCovered(Touching(k, d), d),
         NEW n, Spans(n, k, d), rows' = (rows \ Touching(k, d)) \cup {n}
  PROVE  /\ RangesSeparated'
         /\ \A c \in Key : Covered(c)' = IF c = k THEN Covered(c) \cup {d} ELSE Covered(c)
         /\ \A c \in Key \ {k}, x \in Day : Touching(c, x)' = Touching(c, x)
  <1> DEFINE T == Touching(k, d)
  <1>1. /\ T \subseteq rows /\ \A r \in T : r.key = k
        /\ n \in Row /\ n.key = k
    BY DEF Touching, Spans
  <1>2. /\ n.start \in Int /\ n.end \in Int /\ n.start <= n.end
        /\ \A x : x \in DaysOf(n) <=> x = d \/ \E r \in T : x \in DaysOf(r)
        /\ \A r \in rows \ T : r.key = k => r.end + 1 < n.start \/ n.end + 1 < r.start
    BY NewRange DEF Spans, DaysOf
  <1>6. RangesSeparated'
    BY <1>1, <1>2 DEF RangesSeparated
  <1>7. ASSUME NEW c \in Key
        PROVE  Covered(c)' = IF c = k THEN Covered(c) \cup {d} ELSE Covered(c)
    <2>1. \A x : x \in Covered(c) <=> \E r \in rows : r.key = c /\ x \in DaysOf(r)
      BY DEF Covered
    <2>2. \A x : x \in Covered(c)' <=> \E r \in rows' : r.key = c /\ x \in DaysOf(r)
      BY DEF Covered, DaysOf
    <2> HIDE DEF T
    <2>3. CASE c = k
      <3>1. \A x : x \in Covered(c)' <=> x = d \/ x \in Covered(c)
        BY <1>1, <1>2, <2>1, <2>2, <2>3 DEF T
      <3> QED BY <2>3, <3>1
    <2>4. CASE c # k
      <3>1. \A x : x \in Covered(c)' <=> x \in Covered(c)
        BY <1>1, <2>1, <2>2, <2>4 DEF T
      <3> QED BY <2>4, <3>1
    <2> QED BY <2>3, <2>4
  <1>8. \A c \in Key \ {k}, x \in Day : Touching(c, x)' = Touching(c, x)
    BY <1>1 DEF Touching, Touches
  <1> QED BY <1>6, <1>7, <1>8

(* _record_coverage on a fresh selection, whichever branch it takes, adds   *)
(* exactly the day to the key's covered days and keeps the ranges apart.   *)
LEMMA RecordCoverageCorrect ==
  ASSUME RaceInv, RangesSeparated, NEW k \in Exclusive, NEW d \in Day,
         RecordCoverage(k, d, Touching(k, d))
  PROVE  /\ RangesSeparated'
         /\ \A c \in Key : Covered(c)' = IF c = k THEN Covered(c) \cup {d} ELSE Covered(c)
         /\ \A c \in Key \ {k}, x \in Day : Touching(c, x)' = Touching(c, x)
  <1> DEFINE T == Touching(k, d)
  <1>1. CASE AlreadyCovered(T, d) /\ UNCHANGED rows
    <2>1. d \in Covered(k)
      BY <1>1 DEF AlreadyCovered, Touching, Covered
    <2>2. \A c \in Key : Covered(c)' = Covered(c)
      BY <1>1 DEF Covered, DaysOf
    <2>3. \A c, x : Touching(c, x)' = Touching(c, x)
      BY <1>1 DEF Touching, Touches
    <2>4. RangesSeparated'
      BY <1>1 DEF RangesSeparated
    <2>5. \A c \in Key : Covered(c)' = IF c = k THEN Covered(c) \cup {d} ELSE Covered(c)
      BY <2>1, <2>2
    <2> QED BY <2>3, <2>4, <2>5
  <1>2. CASE T = {} /\ InsertRange(k, d)
    <2>1. PICK n : Spans(n, k, d) /\ rows' = (rows \ T) \cup {n}
      BY <1>2, InsertSpans
    <2>2. ~ AlreadyCovered(T, d)
      BY <1>2 DEF AlreadyCovered
    <2> HIDE DEF T
    <2> QED BY <2>1, <2>2, ReplacedRows DEF T
  <1>3. CASE ~ AlreadyCovered(T, d) /\ \E keep \in T : rows' = Merged(T, keep, d)
    <2>1. PICK keep \in T : rows' = Merged(T, keep, d)
      BY <1>3
    <2>2. PICK n : Spans(n, k, d) /\ rows' = (rows \ T) \cup {n}
      BY <1>3, <2>1, MergedSpans
    <2> HIDE DEF T
    <2> QED BY <1>3, <2>2, ReplacedRows DEF T
  <1> QED BY <1>1, <1>2, <1>3 DEF RecordCoverage

-----------------------------------------------------------------------------
(* Writers that overlap.  A stale selection is any finite set of rows, so   *)
(* that its greatest end exists has to be shown first.                     *)

LEMMA LeastNat ==
  ASSUME NEW S \in SUBSET Nat, S # {}
  PROVE  \E m \in S : \A x \in S : m <= x
  <1> DEFINE R == OpToRel(<, Nat)
  <1>1. IsWellFoundedOn(R, Nat)
    BY NatLessThanWellFounded
  <1>2. ASSUME NEW x \in Nat, NEW y \in Nat, y < x
        PROVE  <<y, x>> \in R
    BY <1>2 DEF OpToRel
  <1> HIDE DEF R
  <1>3. PICK m \in S : \A y \in S : ~ (<<y, m>> \in R)
    BY <1>1, WFMin
  <1>4. \A x \in S : ~ (x < m)
    BY <1>2, <1>3
  <1> QED BY <1>4

(* A smallest finite set without a greatest element would leave one, by the *)
(* loss of any element, that has one.                                      *)
LEMMA FiniteHasGreatest ==
  ASSUME NEW S \in SUBSET Int, S # {}, IsFiniteSet(S)
  PROVE  \E m \in S : \A x \in S : x <= m
  <1> DEFINE Greatest(T) == \E m \in T : \A x \in T : x <= m
             Bad == {T \in SUBSET S : T # {} /\ ~ Greatest(T)}
             Sizes == {Cardinality(T) : T \in Bad}
  <1>1. \A T \in SUBSET S : IsFiniteSet(T) /\ Cardinality(T) \in Nat
    BY FS_Subset, FS_CardinalityType
  <1>2. SUFFICES ASSUME ~ Greatest(S) PROVE FALSE
    OBVIOUS
  <1>3. Sizes \in SUBSET Nat /\ Sizes # {}
    BY <1>1, <1>2
  <1>4. PICK n \in Sizes : \A k \in Sizes : n <= k
    BY <1>3, LeastNat
  <1>5. PICK T \in Bad : Cardinality(T) = n
    OBVIOUS
  <1>6. PICK x \in T : TRUE
    OBVIOUS
  <1>7. Cardinality(T \ {x}) = n - 1 /\ n \in Nat
    BY <1>1, <1>5, FS_RemoveElement
  <1>8. T \ {x} \notin Bad
    <2>1. ~ (n <= n - 1)
      BY <1>7
    <2>2. ASSUME T \ {x} \in Bad PROVE FALSE
      BY <1>4, <1>7, <2>1, <2>2
    <2> QED BY <2>2
  <1>9. CASE T \ {x} = {}
    BY <1>9
  <1>10. CASE T \ {x} # {}
    <2>1. PICK m \in T \ {x} : \A y \in T \ {x} : y <= m
      BY <1>8, <1>10
    <2>2. m \in Int /\ x \in Int /\ T \subseteq Int
      OBVIOUS
    <2>3. CASE x <= m
      BY <2>1, <2>2, <2>3
    <2>4. CASE m <= x
      <3>1. \A y \in T : y <= x
        BY <2>1, <2>2, <2>4
      <3> QED BY <3>1
    <2> QED BY <2>2, <2>3, <2>4
  <1> QED BY <1>9, <1>10

(* The range a commit writes is the day and the days that were selected,    *)
(* fresh or stale.                                                         *)
LEMMA StaleRange ==
  ASSUME NEW T \in SUBSET Row, IsFiniteSet(T), NEW d \in Int,
         ~ AlreadyCovered(T, d),
         \A r \in T : r.start <= r.end /\ Touches(r, d),
         NEW keep \in T, \A r \in T : keep.start <= r.start
  PROVE  LET s == NewStart(T, d)
             e == NewEnd(T, d)
         IN  /\ s \in Int /\ e \in Int /\ s <= e
             /\ \A x : x \in s .. e <=> x = d \/ \E r \in T : x \in DaysOf(r)
  <1> DEFINE s == NewStart(T, d)
             e == NewEnd(T, d)
             starts == {d} \cup {r.start : r \in T}
             ends == {d} \cup {r.end : r \in T}
  <1>1. \A r \in T : /\ r.start \in Int /\ r.end \in Int /\ r.start <= r.end
                     /\ r.end = d - 1 \/ r.start = d + 1
    <2> SUFFICES ASSUME NEW r \in T
                 PROVE  /\ r.start \in Int /\ r.end \in Int /\ r.start <= r.end
                        /\ r.end = d - 1 \/ r.start = d + 1
      OBVIOUS
    <2>1. r.start \in Int /\ r.end \in Int /\ d \notin r.start .. r.end
      BY DEF Row, AlreadyCovered, DaysOf
    <2> QED BY <2>1 DEF Touches
  <1>2. starts \subseteq Int /\ ends \subseteq Int
    BY <1>1
  <1>3. /\ s = d \/ s = keep.start
        /\ s <= d /\ \A r \in T : s <= r.start
    <2>1. CASE d <= keep.start
      <3>1. \A x \in starts : d <= x
        BY <1>1, <2>1
      <3>2. s = d
        BY <1>2, <3>1, MinIs DEF NewStart
      <3> QED BY <1>1, <2>1, <3>2
    <2>2. CASE keep.start <= d
      <3>1. \A x \in starts : keep.start <= x
        BY <1>1, <2>2
      <3>2. keep.start \in starts
        OBVIOUS
      <3>3. s = keep.start
        BY <1>2, <3>1, <3>2, MinIs DEF NewStart
      <3> QED BY <1>1, <2>2, <3>3
    <2> QED BY <1>1, <2>1, <2>2
  <1>4. e \in ends /\ \A x \in ends : x <= e
    <2>1. IsFiniteSet(ends)
      <3> DEFINE f == [r \in T |-> r.end]
                 E == {r.end : r \in T}
      <3>0. f \in Surjection(T, E)
        BY DEF Surjection
      <3>1. IsFiniteSet(E)
        BY <3>0, FS_Surjection
      <3> HIDE DEF E
      <3>2. IsFiniteSet(E \cup {d})
        BY <3>1, FS_AddElement
      <3>3. ends = E \cup {d}
        BY DEF E
      <3> QED BY <3>2, <3>3
    <2>2. PICK m \in ends : \A x \in ends : x <= m
      BY <1>2, <2>1, FiniteHasGreatest
    <2>3. e = m
      BY <1>2, <2>2, MaxIs DEF NewEnd
    <2> QED BY <2>2, <2>3
  <1> HIDE DEF s, e
  <1>5. s \in Int /\ e \in Int /\ d <= e /\ s <= d
    BY <1>1, <1>2, <1>3, <1>4
  <1>6. ASSUME NEW x \in s .. e, x # d
        PROVE  \E r \in T : x \in r.start .. r.end
    <2>1. CASE x < d
      <3>1. s = keep.start /\ keep.end = d - 1
        BY <1>1, <1>3, <1>5, <1>6, <2>1
      <3> QED BY <1>1, <1>5, <2>1, <3>1
    <2>2. CASE d < x
      <3>1. e # d
        BY <1>5, <1>6, <2>2
      <3>2. PICK r \in T : e = r.end
        BY <1>4, <3>1
      <3>3. r.start = d + 1
        BY <1>1, <1>5, <1>6, <2>2, <3>2
      <3> QED BY <1>1, <1>5, <2>2, <3>2, <3>3
    <2> QED BY <1>5, <1>6, <2>1, <2>2
  <1>7. \A r \in T : s <= r.start /\ r.end <= e
    BY <1>3, <1>4
  <1>8. ASSUME NEW x, x = d \/ \E r \in T : x \in r.start .. r.end
        PROVE  x \in s .. e
    BY <1>1, <1>5, <1>7, <1>8
  <1> QED BY <1>5, <1>6, <1>8 DEF s, e, DaysOf

(* A commit leaves at most one row that was not there before: its range is  *)
(* recorded, and its id is new or was this key's already.                  *)
Written(n, k, d) ==
  /\ n \in Row /\ n.key = k /\ n.start <= n.end
  /\ \A x \in Day : x \in DaysOf(n) => x = d \/ <<k, x>> \in recorded
  /\ \/ n.id = nextId /\ nextId' = nextId + 1
     \/ /\ nextId' = nextId
        /\ \E q \in rows : q.id = n.id /\ q.key = k /\ (q \in rows' => q = n)

LEMMA StaleMerge ==
  ASSUME RaceInv, NEW t \in OpenTxn, IsFiniteSet(t.touching),
         \A r \in t.touching : SelectedRow(r, t),
         ~ AlreadyCovered(t.touching, t.day),
         NEW keep \in t.touching, \A r \in t.touching : keep.start <= r.start,
         rows' = Merged(t.touching, keep, t.day), nextId' = nextId
  PROVE  \/ rows' \subseteq rows
         \/ \E n : Written(n, t.key, t.day) /\ rows' \subseteq rows \cup {n}
  <1> DEFINE T == t.touching
             d == t.day
             s == NewStart(T, d)
             e == NewEnd(T, d)
             kept == {r \in rows : r.id \notin {q.id : q \in T \ {keep}}}
             widen(r) == [r EXCEPT !.start = s, !.end = e]
  <1>1. /\ T \in SUBSET Row /\ d \in Int /\ d \in Day /\ t.key \in Key
        /\ \A r \in T : r.start <= r.end /\ Touches(r, d) /\ r.key = t.key
        /\ rows \subseteq Row
    BY DayAssumption DEF OpenTxn, SelectedRow, RaceInv, TypeOK
  <1>2. /\ s \in Int /\ e \in Int /\ s <= e
        /\ \A x \in s .. e : x = d \/ \E r \in T : x \in DaysOf(r)
    BY <1>1, StaleRange
  <1>3. Merged(T, keep, d) = {IF r.id = keep.id THEN widen(r) ELSE r : r \in kept}
    BY DEF Merged
  <1>4. \A r \in T, x \in Day : x \in DaysOf(r) => <<t.key, x>> \in recorded
    BY DEF SelectedRow
  <1>5. \A r \in T, q \in rows : q.id = r.id => q.key = t.key
    BY DEF SelectedRow
  <1> HIDE DEF s, e, kept
  <1>6. CASE \A r \in kept : r.id # keep.id
    <2>1. rows' \subseteq kept
      BY <1>3, <1>6
    <2> QED BY <2>1 DEF kept
  <1>7. ASSUME NEW q \in kept, q.id = keep.id
        PROVE  \E n : Written(n, t.key, d) /\ rows' \subseteq rows \cup {n}
    <2> DEFINE n == widen(q)
    <2>1. q \in rows /\ q \in Row /\ q.key = t.key
      BY <1>1, <1>5, <1>7 DEF kept
    <2>2. /\ n \in Row /\ n.key = t.key /\ n.start = s /\ n.end = e
          /\ n.id = q.id
      BY <1>2, <2>1 DEF Row
    <2>3. \A r \in kept : r.id = keep.id => r = q
      BY <1>7, <2>1 DEF RaceInv, IdsUnique, kept
    <2>4. rows' \subseteq (kept \ {q}) \cup {n}
      BY <1>3, <1>7, <2>3
    <2>5. \A x \in Day : x \in DaysOf(n) => x = d \/ <<t.key, x>> \in recorded
      BY <1>2, <1>4, <2>2 DEF DaysOf
    <2> HIDE DEF n
    <2>6. Written(n, t.key, d)
      BY <1>2, <2>1, <2>2, <2>4, <2>5 DEF Written
    <2> QED BY <2>4, <2>6 DEF kept
  <1> QED BY <1>6, <1>7

LEMMA StaleRecord ==
  ASSUME RaceInv, NEW t \in OpenTxn, IsFiniteSet(t.touching),
         \A r \in t.touching : SelectedRow(r, t),
         RecordCoverage(t.key, t.day, t.touching)
  PROVE  \/ rows' \subseteq rows /\ nextId' = nextId
         \/ \E n : Written(n, t.key, t.day) /\ rows' \subseteq rows \cup {n}
  <1>1. CASE UNCHANGED <<rows, nextId>>
    BY <1>1
  <1>2. CASE InsertRange(t.key, t.day)
    <2> DEFINE n == [id |-> nextId, key |-> t.key, start |-> t.day, end |-> t.day]
    <2>1. t.key \in Key /\ t.day \in Int /\ nextId \in Nat
      BY DayAssumption DEF OpenTxn, RaceInv, TypeOK
    <2>2. n \in Row
      BY <2>1 DEF Row
    <2>3. \A x \in Day : x \in DaysOf(n) => x = t.day
      BY <2>1, DayAssumption DEF DaysOf
    <2>4. Written(n, t.key, t.day)
      BY <1>2, <2>1, <2>2, <2>3 DEF Written, InsertRange
    <2> QED BY <1>2, <2>4 DEF InsertRange
  <1>3. ASSUME ~ AlreadyCovered(t.touching, t.day), nextId' = nextId,
               NEW keep \in t.touching, \A r \in t.touching : keep.start <= r.start,
               rows' = Merged(t.touching, keep, t.day)
        PROVE  \/ rows' \subseteq rows /\ nextId' = nextId
               \/ \E n : Written(n, t.key, t.day) /\ rows' \subseteq rows \cup {n}
    BY <1>3, StaleMerge
  <1> QED BY <1>1, <1>2, <1>3 DEF RecordCoverage

(* Such a write keeps the table well formed, and every open selection true  *)
(* of what has been recorded.                                              *)
LEMMA RaceWrite ==
  ASSUME RaceInv, NEW k \in Key, NEW d \in Day,
         recorded' = recorded \cup {<<k, d>>},
         \/ rows' \subseteq rows /\ nextId' = nextId
         \/ \E n : Written(n, k, d) /\ rows' \subseteq rows \cup {n}
  PROVE  /\ rows' \subseteq Row /\ nextId' \in Nat
         /\ \A r \in rows' : r.id < nextId' /\ r.start <= r.end
         /\ IsFiniteSet(rows')
         /\ IdsUnique'
         /\ NothingInvented'
         /\ \A r \in Row, u \in OpenTxn : SelectedRow(r, u) => SelectedRow(r, u)'
  <1>0. /\ rows \subseteq Row /\ nextId \in Nat /\ IsFiniteSet(rows)
        /\ \A r \in rows : r.id < nextId /\ r.id \in Nat /\ r.start <= r.end
        /\ IdsUnique /\ NothingInvented
    BY DEF RaceInv, TypeOK, Row
  <1>1. CASE rows' \subseteq rows /\ nextId' = nextId
    <2>1. IsFiniteSet(rows')
      BY <1>0, <1>1, FS_Subset
    <2>2. IdsUnique' /\ NothingInvented'
      BY <1>0, <1>1 DEF IdsUnique, NothingInvented, DaysOf
    <2>3. \A r \in Row, u \in OpenTxn : SelectedRow(r, u) => SelectedRow(r, u)'
      BY <1>1 DEF SelectedRow, Touches, DaysOf
    <2> QED BY <1>0, <1>1, <2>1, <2>2, <2>3
  <1>2. ASSUME NEW n, Written(n, k, d), rows' \subseteq rows \cup {n}
        PROVE  /\ rows' \subseteq Row /\ nextId' \in Nat
               /\ \A r \in rows' : r.id < nextId' /\ r.start <= r.end
               /\ IsFiniteSet(rows')
               /\ IdsUnique'
               /\ NothingInvented'
               /\ \A r \in Row, u \in OpenTxn : SelectedRow(r, u) => SelectedRow(r, u)'
    <2>1. /\ n \in Row /\ n.id \in Nat /\ n.key = k /\ n.start <= n.end
          /\ \A x \in Day : x \in DaysOf(n) => x = d \/ <<k, x>> \in recorded
          /\ \/ n.id = nextId /\ nextId' = nextId + 1
             \/ /\ nextId' = nextId
                /\ \E q \in rows : q.id = n.id /\ q.key = k /\ (q \in rows' => q = n)
      BY <1>2 DEF Written, Row
    <2>2. rows' \subseteq Row /\ nextId' \in Nat /\ n.id < nextId' /\ nextId <= nextId'
      BY <1>0, <1>2, <2>1
    <2>3. \A r \in rows' : r.id < nextId' /\ r.start <= r.end
      BY <1>0, <1>2, <2>1, <2>2
    <2>4. IsFiniteSet(rows')
      BY <1>0, <1>2, FS_AddElement, FS_Subset
    <2>5. IdsUnique'
      <3>1. \A r \in rows' : r.id = n.id => r = n
        BY <1>0, <1>2, <2>1 DEF IdsUnique
      <3> QED BY <1>0, <1>2, <3>1 DEF IdsUnique
    <2>6. NothingInvented'
      BY <1>0, <1>2, <2>1 DEF NothingInvented, DaysOf
    <2>7. ASSUME NEW r \in Row, NEW u \in OpenTxn, SelectedRow(r, u)
          PROVE  SelectedRow(r, u)'
      <3>1. r.id \in Nat /\ r.id < nextId /\ r.key = u.key
        BY <2>7 DEF SelectedRow, Row
      <3>2. n.id = r.id => n.key = r.key
        BY <1>0, <2>1, <2>7, <3>1 DEF SelectedRow
      <3>3. \A q \in rows' : q.id = r.id => q.key = r.key
        BY <1>2, <2>7, <3>2 DEF SelectedRow
      <3>4. r.id < nextId'
        BY <1>0, <2>2, <3>1
      <3> QED BY <2>7, <3>3, <3>4 DEF SelectedRow, Touches, DaysOf
    <2> QED BY <2>2, <2>3, <2>4, <2>5, <2>6, <2>7
  <1> QED BY <1>1, <1>2

LEMMA RaceInit == Init => RaceInv
  BY FS_EmptySet DEF Init, RaceInv, TypeOK, IdsUnique, NothingInvented

LEMMA RaceSelect ==
  ASSUME RaceInv, NEW w \in Writer, NEW kind \in Kind, NEW k \in Key, NEW d \in Day,
         Select(w, kind, k, d)
  PROVE  RaceInv'
  <1> DEFINE t == [state |-> "selected", kind |-> kind, key |-> k, day |-> d,
                   touching |-> Touching(k, d)]
  <1>1. txn' = [txn EXCEPT ![w] = t] /\ UNCHANGED <<rows, nextId, archive, recorded>>
    BY DEF Select
  <1>2. txn \in [Writer -> OpenTxn \cup {NoTxn}] /\ t \in OpenTxn
    BY DEF RaceInv, TypeOK, OpenTxn, Touching
  <1>3. IsFiniteSet(Touching(k, d))
    BY FS_Subset DEF Touching, RaceInv
  <1>4. \A r \in Touching(k, d) : SelectedRow(r, t)
    BY DEF Touching, SelectedRow, RaceInv, TypeOK, IdsUnique, NothingInvented
  <1>5. TypeOK'
    BY <1>1, <1>2 DEF RaceInv, TypeOK
  <1>6. /\ IsFiniteSet(rows') /\ IdsUnique' /\ NothingInvented'
        /\ \A r \in rows' : r.start <= r.end
    BY <1>1 DEF RaceInv, IdsUnique, NothingInvented, DaysOf
  <1>7. t.touching = Touching(k, d)
    OBVIOUS
  <1> HIDE DEF t
  <1>9. ASSUME NEW v \in Writer, txn'[v] # NoTxn
        PROVE  /\ IsFiniteSet(txn'[v].touching)
               /\ \A r \in txn'[v].touching : SelectedRow(r, txn[v])'
    <2>0. ASSUME NEW u, txn'[v] = u, \A r \in u.touching : SelectedRow(r, u)
          PROVE  \A r \in txn'[v].touching : SelectedRow(r, txn[v])'
      BY <1>1, <2>0 DEF SelectedRow, Touches, DaysOf
    <2>1. CASE v = w
      BY <1>1, <1>2, <1>3, <1>4, <1>7, <2>0, <2>1
    <2>2. CASE v # w
      <3>1. txn'[v] = txn[v]
        BY <1>1, <1>2, <2>2
      <3>2. IsFiniteSet(txn[v].touching) /\ \A r \in txn[v].touching : SelectedRow(r, txn[v])
        BY <1>9, <3>1 DEF RaceInv
      <3> QED BY <2>0, <3>1, <3>2
    <2> QED BY <2>1, <2>2
  <1> QED BY <1>5, <1>6, <1>9 DEF RaceInv

LEMMA RaceCommit ==
  ASSUME RaceInv, NEW w \in Writer, Commit(w)
  PROVE  RaceInv'
  <1> DEFINE t == txn[w]
  <1>1. /\ t # NoTxn
        /\ RecordCoverage(t.key, t.day, t.touching)
        /\ archive' = IF t.kind = "fetch" THEN archive \cup {<<t.key, t.day>>} ELSE archive
        /\ recorded' = recorded \cup {<<t.key, t.day>>}
        /\ txn' = [txn EXCEPT ![w] = NoTxn]
    BY DEF Commit
  <1>2. /\ t \in OpenTxn /\ t.key \in Key /\ t.day \in Day
        /\ txn \in [Writer -> OpenTxn \cup {NoTxn}]
        /\ archive \in SUBSET (Key \X Day) /\ recorded \in SUBSET (Key \X Day)
    BY <1>1 DEF RaceInv, TypeOK, OpenTxn
  <1>3. IsFiniteSet(t.touching) /\ \A r \in t.touching : SelectedRow(r, t)
    BY <1>1 DEF RaceInv
  <1> HIDE DEF t
  <1>4. \/ rows' \subseteq rows /\ nextId' = nextId
        \/ \E n : Written(n, t.key, t.day) /\ rows' \subseteq rows \cup {n}
    BY <1>1, <1>2, <1>3, StaleRecord
  <1>5. /\ rows' \subseteq Row /\ nextId' \in Nat
        /\ \A r \in rows' : r.id < nextId' /\ r.start <= r.end
        /\ IsFiniteSet(rows')
        /\ IdsUnique'
        /\ NothingInvented'
        /\ \A r \in Row, u \in OpenTxn : SelectedRow(r, u) => SelectedRow(r, u)'
    BY <1>1, <1>2, <1>4, RaceWrite
  <1>6. TypeOK'
    <2>1. archive' \in SUBSET (Key \X Day) /\ recorded' \in SUBSET (Key \X Day)
      BY <1>1, <1>2
    <2>2. txn' \in [Writer -> OpenTxn \cup {NoTxn}]
      BY <1>1, <1>2
    <2> QED BY <1>5, <2>1, <2>2 DEF TypeOK
  <1>7. ASSUME NEW v \in Writer, txn'[v] # NoTxn
        PROVE  /\ IsFiniteSet(txn'[v].touching)
               /\ \A r \in txn'[v].touching : SelectedRow(r, txn[v])'
    <2>1. txn'[v] = txn[v] /\ txn[v] \in OpenTxn
      BY <1>1, <1>2, <1>7
    <2>2. /\ IsFiniteSet(txn[v].touching) /\ txn[v].touching \subseteq Row
          /\ \A r \in txn[v].touching : SelectedRow(r, txn[v])
      BY <1>7, <2>1 DEF RaceInv, OpenTxn
    <2>3. ASSUME NEW r \in Row, NEW u \in OpenTxn, txn'[v] = u, SelectedRow(r, u)
          PROVE  SelectedRow(r, txn[v])'
      <3>1. SelectedRow(r, u)'
        BY <1>5, <2>3
      <3> QED BY <2>3, <3>1 DEF SelectedRow
    <2> QED BY <2>1, <2>2, <2>3
  <1> QED BY <1>5, <1>6, <1>7 DEF RaceInv

LEMMA RaceRollback ==
  ASSUME RaceInv, UNCHANGED <<rows, nextId, archive, recorded>>,
         \/ UNCHANGED txn
         \/ \E w \in Writer : txn' = [txn EXCEPT ![w] = NoTxn]
  PROVE  RaceInv'
  <1>1. txn \in [Writer -> OpenTxn \cup {NoTxn}]
    BY DEF RaceInv, TypeOK
  <1>2. /\ txn' \in [Writer -> OpenTxn \cup {NoTxn}]
        /\ \A v \in Writer : txn'[v] = txn[v] \/ txn'[v] = NoTxn
    BY <1>1
  <1>3. TypeOK'
    BY <1>2 DEF RaceInv, TypeOK
  <1>4. /\ IsFiniteSet(rows') /\ IdsUnique' /\ NothingInvented'
        /\ \A r \in rows' : r.start <= r.end
    BY DEF RaceInv, IdsUnique, NothingInvented, DaysOf
  <1>5. ASSUME NEW v \in Writer, txn'[v] # NoTxn
        PROVE  /\ IsFiniteSet(txn'[v].touching)
               /\ \A r \in txn'[v].touching : SelectedRow(r, txn[v])'
    <2>1. txn'[v] = txn[v]
      BY <1>2, <1>5
    <2>2. IsFiniteSet(txn[v].touching) /\ \A r \in txn[v].touching : SelectedRow(r, txn[v])
      BY <1>5, <2>1 DEF RaceInv
    <2>3. \A r \in txn'[v].touching : SelectedRow(r, txn[v])'
      BY <2>1, <2>2 DEF SelectedRow, Touches, DaysOf
    <2> QED BY <2>1, <2>2, <2>3
  <1> QED BY <1>3, <1>4, <1>5 DEF RaceInv

(* Whether or not writers overlap on a key, every row in the table is made  *)
(* of days whose transaction committed.                                    *)
THEOREM RaceInvariant == Spec => []RaceInv
  <1>1. RaceInv /\ [Next]_vars => RaceInv'
    <2> SUFFICES ASSUME RaceInv, [Next]_vars PROVE RaceInv'
      OBVIOUS
    <2>1. ASSUME NEW w \in Writer, NEW kind \in Kind, NEW k \in Key, NEW d \in Day,
                 Select(w, kind, k, d)
          PROVE  RaceInv'
      BY <2>1, RaceSelect
    <2>2. ASSUME NEW w \in Writer, Commit(w)
          PROVE  RaceInv'
      BY <2>2, RaceCommit
    <2>3. ASSUME NEW w \in Writer, Rollback(w)
          PROVE  RaceInv'
      BY <2>3, RaceRollback DEF Rollback
    <2>4. CASE UNCHANGED vars
      BY <2>4, RaceRollback DEF vars
    <2> QED BY <2>1, <2>2, <2>3, <2>4 DEF Next
  <1> QED BY RaceInit, <1>1, PTL DEF Spec

(* So the worst an overlap costs is a second fetch, never a missing day.    *)
THEOREM NothingIsInvented == Spec => []NothingInvented
  <1>1. RaceInv => NothingInvented
    BY DEF RaceInv
  <1> QED BY RaceInvariant, <1>1, PTL
-----------------------------------------------------------------------------
(* The exclusive keys.  A commit from a stale selection writes to rows of   *)
(* its own key only: the ids it selected have not passed to another one.   *)
LEMMA OtherKeysKept ==
  ASSUME RaceInv, NEW t \in OpenTxn, IsFiniteSet(t.touching),
         \A r \in t.touching : SelectedRow(r, t),
         RecordCoverage(t.key, t.day, t.touching)
  PROVE  \A r : r.key # t.key => (r \in rows' <=> r \in rows)
  <1>1. ASSUME NEW r \in rows', r.key # t.key
        PROVE  r \in rows
    BY <1>1, StaleRecord DEF Written
  <1>2. ASSUME NEW r \in rows, r.key # t.key
        PROVE  r \in rows'
    <2>1. \A q \in t.touching : r.id # q.id
      BY <1>2 DEF SelectedRow
    <2>2. ASSUME NEW keep \in t.touching
          PROVE  r \in Merged(t.touching, keep, t.day)
      BY <2>1 DEF Merged
    <2> QED BY <2>2 DEF RecordCoverage, InsertRange
  <1> QED BY <1>1, <1>2

LEMMA OtherKeysUntouched ==
  ASSUME NEW k \in Key, \A r : r.key # k => (r \in rows' <=> r \in rows)
  PROVE  \A c \in Key \ {k} : /\ Covered(c)' = Covered(c)
                              /\ \A x \in Day : Touching(c, x)' = Touching(c, x)
  BY DEF Covered, DaysOf, Touching, Touches

(* A merge covers the day, what was selected, and what no deleted or        *)
(* overwritten row covered.                                                *)
LEMMA MergeCovers ==
  ASSUME RaceInv, NEW t \in OpenTxn, IsFiniteSet(t.touching),
         \A r \in t.touching : SelectedRow(r, t),
         ~ AlreadyCovered(t.touching, t.day),
         NEW keep \in t.touching, \A r \in t.touching : keep.start <= r.start,
         rows' = Merged(t.touching, keep, t.day)
  PROVE  /\ \A x \in Covered(t.key)' :
              x = t.day \/ x \in Covered(t.key) \/ \E r \in t.touching : x \in DaysOf(r)
         /\ t.touching = Touching(t.key, t.day) =>
              Covered(t.key) \cup {t.day} \subseteq Covered(t.key)'
  <1> DEFINE T == t.touching
             d == t.day
             s == NewStart(T, d)
             e == NewEnd(T, d)
             kept == {r \in rows : r.id \notin {q.id : q \in T \ {keep}}}
             widen(r) == [r EXCEPT !.start = s, !.end = e]
  <1>1. /\ T \in SUBSET Row /\ d \in Int
        /\ \A r \in T : r.start <= r.end /\ Touches(r, d) /\ r.key = t.key
        /\ rows \subseteq Row /\ IdsUnique
    BY DayAssumption DEF OpenTxn, SelectedRow, RaceInv, TypeOK
  <1>2. /\ s \in Int /\ e \in Int
        /\ \A x : x \in s .. e <=> x = d \/ \E r \in T : x \in DaysOf(r)
    BY <1>1, StaleRange
  <1>3. rows' = {IF r.id = keep.id THEN widen(r) ELSE r : r \in kept}
    BY DEF Merged
  <1>4. \A x : /\ x \in Covered(t.key) <=> \E r \in rows : r.key = t.key /\ x \in DaysOf(r)
               /\ x \in Covered(t.key)' <=> \E r \in rows' : r.key = t.key /\ x \in DaysOf(r)
    BY DEF Covered, DaysOf
  <1>5. \A r \in rows : /\ widen(r).key = r.key
                        /\ \A x : x \in DaysOf(widen(r)) <=> x \in s .. e
    <2> SUFFICES ASSUME NEW r \in rows
                 PROVE  widen(r).key = r.key /\ widen(r).start = s /\ widen(r).end = e
      BY DEF DaysOf
    <2> QED BY <1>1 DEF Row
  <1> HIDE DEF s, e, kept, widen
  <1>6. ASSUME NEW x \in Covered(t.key)'
        PROVE  x = d \/ x \in Covered(t.key) \/ \E r \in T : x \in DaysOf(r)
    <2>1. PICK q \in rows' : q.key = t.key /\ x \in DaysOf(q)
      BY <1>4
    <2>2. PICK r \in kept : q = IF r.id = keep.id THEN widen(r) ELSE r
      BY <1>3
    <2>3. r \in rows
      BY DEF kept
    <2>4. CASE q = widen(r)
      <3>1. x \in s .. e
        BY <1>5, <2>1, <2>3, <2>4
      <3> QED BY <1>2, <3>1
    <2>5. CASE q = r
      BY <1>4, <2>1, <2>3, <2>5
    <2> QED BY <2>2, <2>4, <2>5
  <1>7. ASSUME T = Touching(t.key, d), NEW x, x \in Covered(t.key) \/ x = d
        PROVE  x \in Covered(t.key)'
    <2>1. T \subseteq rows /\ keep \in kept
      BY <1>1, <1>7 DEF Touching, kept, IdsUnique
    <2>2. CASE x \in s .. e
      <3>1. widen(keep) \in rows'
        BY <1>3, <2>1
      <3> QED BY <1>1, <1>4, <1>5, <2>1, <2>2, <3>1
    <2>3. CASE x \notin s .. e
      <3>0. x # d
        BY <1>2, <2>3
      <3>1. PICK r \in rows : r.key = t.key /\ x \in DaysOf(r)
        BY <1>4, <1>7, <3>0
      <3>2. r \notin T
        BY <1>2, <2>3, <3>1
      <3>3. \A q \in T : q.id # r.id
        BY <1>1, <2>1, <3>1, <3>2 DEF IdsUnique
      <3>4. r \in kept /\ r.id # keep.id
        BY <3>1, <3>3 DEF kept
      <3>5. r \in rows'
        BY <1>3, <3>4
      <3> QED BY <1>4, <3>1, <3>5
    <2> QED BY <2>2, <2>3
  <1> QED BY <1>6, <1>7

(* An overlap never costs more than days of its own key: a commit that      *)
(* finds what it selected adds its day and drops none, and one that does   *)
(* not leaves no day that neither it nor the table had.  Module Pipeline   *)
(* takes this for granted of both coverage tables.                         *)
THEOREM CommitsKeepTheirPromise == Spec => CommitsAsPromised
  <1>1. ASSUME RaceInv, NEW w \in Writer, NEW t \in {txn[w]} \ {NoTxn}, Commit(w)
        PROVE  /\ Covered(t.key)' \in LeftBy(Covered(t.key), UNION {DaysOf(r) : r \in t.touching},
                                            t.day, t.touching = Touching(t.key, t.day))
               /\ \A k \in Key \ {t.key} : Covered(k)' = Covered(k)
    <2> DEFINE selected == UNION {DaysOf(r) : r \in t.touching}
               T == Touching(t.key, t.day)
    <2>1. t = txn[w] /\ t # NoTxn /\ RecordCoverage(t.key, t.day, t.touching)
      BY <1>1 DEF Commit
    <2>2. t \in OpenTxn /\ t.key \in Key /\ t.day \in Int
      BY <1>1, <2>1, DayAssumption DEF RaceInv, TypeOK, OpenTxn
    <2>3. IsFiniteSet(t.touching) /\ \A r \in t.touching : SelectedRow(r, t)
      BY <1>1, <2>1 DEF RaceInv
    <2>4. \A k \in Key \ {t.key} : Covered(k)' = Covered(k)
      <3>1. \A r : r.key # t.key => (r \in rows' <=> r \in rows)
        BY <1>1, <2>1, <2>2, <2>3, OtherKeysKept
      <3> QED BY <2>2, <3>1, OtherKeysUntouched
    <2>5. /\ \A x \in Covered(t.key)' : x = t.day \/ x \in Covered(t.key) \/ x \in selected
          /\ t.touching = T => Covered(t.key) \cup {t.day} \subseteq Covered(t.key)'
      <3>1. CASE AlreadyCovered(t.touching, t.day) /\ UNCHANGED rows
        <4>1. Covered(t.key)' = Covered(t.key)
          BY <3>1 DEF Covered, DaysOf
        <4>2. t.touching = T => t.day \in Covered(t.key)
          BY <3>1 DEF AlreadyCovered, Touching, Covered
        <4> QED BY <4>1, <4>2
      <3>2. CASE InsertRange(t.key, t.day)
        <4> DEFINE n == [id |-> nextId, key |-> t.key, start |-> t.day, end |-> t.day]
        <4>1. rows' = rows \cup {n} /\ n.key = t.key /\ DaysOf(n) = {t.day}
          BY <2>2, <3>2 DEF InsertRange, DaysOf
        <4> HIDE DEF n
        <4>2. Covered(t.key)' = Covered(t.key) \cup {t.day}
          BY <4>1 DEF Covered, DaysOf
        <4> QED BY <4>2
      <3>3. ASSUME ~ AlreadyCovered(t.touching, t.day), NEW keep \in t.touching,
                   \A r \in t.touching : keep.start <= r.start,
                   rows' = Merged(t.touching, keep, t.day)
            PROVE  /\ \A x \in Covered(t.key)' :
                        x = t.day \/ x \in Covered(t.key) \/ x \in selected
                   /\ t.touching = T => Covered(t.key) \cup {t.day} \subseteq Covered(t.key)'
        BY <1>1, <2>2, <2>3, <3>3, MergeCovers
      <3> QED BY <2>1, <3>1, <3>2, <3>3 DEF RecordCoverage
    <2>6. t.touching = T => Covered(t.key)' = Covered(t.key) \cup {t.day}
      <3> SUFFICES ASSUME t.touching = T
                   PROVE  Covered(t.key)' = Covered(t.key) \cup {t.day}
        OBVIOUS
      <3>1. \A x \in selected : x \in Covered(t.key)
        BY DEF Touching, Covered
      <3> HIDE DEF T, selected
      <3> QED BY <2>5, <3>1
    <2> HIDE DEF T, selected
    <2>7. Covered(t.key)' \in LeftBy(Covered(t.key), selected, t.day, t.touching = T)
      BY <2>5, <2>6 DEF LeftBy
    <2> QED BY <2>4, <2>7 DEF T, selected
  <1>2. RaceInv =>
          [\A w \in Writer : \A t \in {txn[w]} \ {NoTxn} :
             Commit(w) =>
               /\ Covered(t.key)' \in LeftBy(Covered(t.key), UNION {DaysOf(r) : r \in t.touching},
                                            t.day, t.touching = Touching(t.key, t.day))
               /\ \A k \in Key \ {t.key} : Covered(k)' = Covered(k)]_vars
    BY <1>1
  <1> QED BY RaceInvariant, <1>2, PTL DEF CommitsAsPromised

(* The inductive invariant.                                                *)

LEMMA InitInv == Init => CoverageInv
  BY RaceInit DEF Init, CoverageInv, RangesSeparated, CoverageIsExact,
         ArchivedIsCovered, SnapshotsFresh, OneTxnPerKey, Covered

LEMMA SelectInv ==
  ASSUME CoverageInv, NEW w \in Writer, NEW kind \in Kind,
         NEW k \in Key, NEW d \in Day, Select(w, kind, k, d)
  PROVE  CoverageInv'
  <1> DEFINE t == [state |-> "selected", kind |-> kind, key |-> k, day |-> d,
                   touching |-> Touching(k, d)]
  <1>1. txn' = [txn EXCEPT ![w] = t] /\ UNCHANGED <<rows, nextId, archive, recorded>>
    BY DEF Select
  <1>2. RaceInv'
    BY RaceSelect DEF CoverageInv
  <1>3. t # NoTxn /\ t.key = k /\ t.day = d /\ t.touching = Touching(k, d)
    BY DEF NoTxn
  <1>4. txn \in [Writer -> OpenTxn \cup {NoTxn}]
    BY DEF CoverageInv, RaceInv, TypeOK
  <1>5. txn'[w] = t /\ \A v \in Writer \ {w} : txn'[v] = txn[v]
    BY <1>1, <1>4
  <1>7. RangesSeparated'
    BY <1>1 DEF CoverageInv, RangesSeparated
  <1>8. CoverageIsExact' /\ ArchivedIsCovered'
    BY <1>1 DEF CoverageInv, CoverageIsExact, ArchivedIsCovered, Covered, DaysOf
  <1> HIDE DEF t
  <1>9. SnapshotsFresh'
    <2> SUFFICES ASSUME NEW v \in Writer, (txn[v] # NoTxn /\ txn[v].key \in Exclusive)'
                 PROVE  (txn[v].touching = Touching(txn[v].key, txn[v].day))'
      BY DEF SnapshotsFresh
    <2>1. CASE v = w
      BY <1>1, <1>3, <1>5, <2>1 DEF Touching, Touches
    <2>2. CASE v # w
      BY <1>1, <1>5, <2>2 DEF CoverageInv, SnapshotsFresh, Touching, Touches
    <2> QED BY <2>1, <2>2
  <1>10. OneTxnPerKey'
    <2>1. k \in Exclusive => \A v \in Writer : txn[v] # NoTxn => txn[v].key # k
      BY DEF Select
    <2> QED BY <1>3, <1>5, <2>1 DEF CoverageInv, OneTxnPerKey
  <1> QED BY <1>2, <1>7, <1>8, <1>9, <1>10 DEF CoverageInv

(* What a commit does to the exclusive keys: it adds its day to its own if  *)
(* that is one of them, and leaves all others alone.                       *)
LEMMA CommitCovers ==
  ASSUME CoverageInv, NEW w \in Writer, Commit(w)
  PROVE  LET k == txn[w].key
             d == txn[w].day
         IN  /\ k \in Key /\ d \in Day
             /\ RangesSeparated'
             /\ \A c \in Exclusive :
                  Covered(c)' = IF c = k THEN Covered(c) \cup {d} ELSE Covered(c)
             /\ \A c \in Exclusive \ {k}, x \in Day : Touching(c, x)' = Touching(c, x)
  <1> DEFINE t == txn[w]
             k == t.key
             d == t.day
  <1>1. RaceInv /\ RangesSeparated /\ SnapshotsFresh
    BY DEF CoverageInv
  <1>2. t # NoTxn /\ RecordCoverage(k, d, t.touching)
    BY DEF Commit
  <1>3. t \in OpenTxn /\ k \in Key /\ d \in Day
    BY <1>1, <1>2 DEF RaceInv, TypeOK, OpenTxn
  <1>4. IsFiniteSet(t.touching) /\ \A r \in t.touching : SelectedRow(r, t)
    BY <1>1, <1>2 DEF RaceInv
  <1>5. CASE k \in Exclusive
    <2>1. t.touching = Touching(k, d)
      BY <1>1, <1>2, <1>5 DEF SnapshotsFresh
    <2> HIDE DEF t, k, d
    <2>2. /\ RangesSeparated'
          /\ \A c \in Key : Covered(c)' = IF c = k THEN Covered(c) \cup {d} ELSE Covered(c)
          /\ \A c \in Key \ {k}, x \in Day : Touching(c, x)' = Touching(c, x)
      BY <1>1, <1>2, <1>3, <1>5, <2>1, RecordCoverageCorrect
    <2> QED BY <1>3, <2>2, ExclusiveAssumption DEF t, k, d
  <1>6. CASE k \notin Exclusive
    <2>1. \A r : r.key # k => (r \in rows' <=> r \in rows)
      BY <1>1, <1>2, <1>3, <1>4, OtherKeysKept
    <2> HIDE DEF t, k, d
    <2>2. \A c \in Key \ {k} : /\ Covered(c)' = Covered(c)
                               /\ \A x \in Day : Touching(c, x)' = Touching(c, x)
      BY <1>3, <2>1, OtherKeysUntouched
    <2>3. RangesSeparated'
      BY <1>1, <1>6, <2>1 DEF RangesSeparated
    <2> QED BY <1>3, <1>6, <2>2, <2>3, ExclusiveAssumption DEF t, k, d
  <1> QED BY <1>5, <1>6

LEMMA CommitInv ==
  ASSUME CoverageInv, NEW w \in Writer, Commit(w)
  PROVE  CoverageInv'
  <1> DEFINE t == txn[w]
             k == t.key
             d == t.day
  <1>1. /\ RaceInv /\ RangesSeparated /\ CoverageIsExact
        /\ ArchivedIsCovered /\ SnapshotsFresh /\ OneTxnPerKey
    BY DEF CoverageInv
  <1>2. /\ t # NoTxn
        /\ archive' = IF t.kind = "fetch" THEN archive \cup {<<k, d>>} ELSE archive
        /\ recorded' = recorded \cup {<<k, d>>}
        /\ txn' = [txn EXCEPT ![w] = NoTxn]
    BY DEF Commit
  <1>3. txn \in [Writer -> OpenTxn \cup {NoTxn}] /\ archive \in SUBSET (Key \X Day)
    BY <1>1 DEF RaceInv, TypeOK
  <1>4. RaceInv'
    BY <1>1, RaceCommit
  <1>5. txn'[w] = NoTxn /\ \A v \in Writer \ {w} : txn'[v] = txn[v]
    BY <1>2, <1>3
  <1>6. \A v \in Writer \ {w} :
          txn[v] # NoTxn /\ txn[v].key \in Exclusive =>
            txn[v].key \in Exclusive \ {k} /\ txn[v].day \in Day
    BY <1>1, <1>2, <1>3 DEF OneTxnPerKey, OpenTxn
  <1>7. /\ k \in Key /\ d \in Day
        /\ RangesSeparated'
        /\ \A c \in Exclusive : Covered(c)' = IF c = k THEN Covered(c) \cup {d} ELSE Covered(c)
        /\ \A c \in Exclusive \ {k}, x \in Day : Touching(c, x)' = Touching(c, x)
    BY CommitCovers
  <1> HIDE DEF t, k, d
  <1>8. CoverageIsExact'
    <2> SUFFICES ASSUME NEW c \in Exclusive
                 PROVE  Covered(c)' = {x \in Day : <<c, x>> \in recorded'}
      BY DEF CoverageIsExact
    <2>1. Covered(c) = {x \in Day : <<c, x>> \in recorded}
      BY <1>1 DEF CoverageIsExact
    <2> QED BY <1>2, <1>7, <2>1
  <1>9. ArchivedIsCovered'
    <2> SUFFICES ASSUME NEW kd \in archive', kd[1] \in Exclusive
                 PROVE  kd[2] \in Covered(kd[1])'
      BY DEF ArchivedIsCovered
    <2>1. CASE kd = <<k, d>>
      BY <1>7, <2>1
    <2>2. CASE kd \in archive
      <3>1. kd[2] \in Covered(kd[1])
        BY <1>1, <2>2 DEF ArchivedIsCovered
      <3> QED BY <1>7, <3>1
    <2> QED BY <1>2, <2>1, <2>2
  <1>10. SnapshotsFresh'
    BY <1>1, <1>5, <1>6, <1>7 DEF SnapshotsFresh
  <1>11. OneTxnPerKey'
    BY <1>1, <1>5 DEF OneTxnPerKey
  <1> QED BY <1>4, <1>7, <1>8, <1>9, <1>10, <1>11 DEF CoverageInv

\* The steps that leave the tables alone and open no transaction.
LEMMA RollbackInv ==
  ASSUME CoverageInv, UNCHANGED <<rows, nextId, archive, recorded>>,
         \/ UNCHANGED txn
         \/ \E w \in Writer : txn' = [txn EXCEPT ![w] = NoTxn]
  PROVE  CoverageInv'
  <1>1. txn \in [Writer -> OpenTxn \cup {NoTxn}]
    BY DEF CoverageInv, RaceInv, TypeOK
  <1>2. \A v \in Writer : txn'[v] = txn[v] \/ txn'[v] = NoTxn
    BY <1>1
  <1>3. RaceInv'
    BY RaceRollback DEF CoverageInv
  <1>4. RangesSeparated'
    BY DEF CoverageInv, RangesSeparated
  <1>5. CoverageIsExact' /\ ArchivedIsCovered'
    BY DEF CoverageInv, CoverageIsExact, ArchivedIsCovered, Covered, DaysOf
  <1>6. \A c, x : Touching(c, x)' = Touching(c, x)
    BY DEF Touching, Touches
  <1>7. SnapshotsFresh'
    BY <1>2, <1>6 DEF CoverageInv, SnapshotsFresh
  <1>8. OneTxnPerKey'
    BY <1>2 DEF CoverageInv, OneTxnPerKey
  <1> QED BY <1>3, <1>4, <1>5, <1>7, <1>8 DEF CoverageInv

LEMMA NextInv ==
  ASSUME CoverageInv, [Next]_vars
  PROVE  CoverageInv'
  <1>1. ASSUME NEW w \in Writer, NEW kind \in Kind, NEW k \in Key, NEW d \in Day,
               Select(w, kind, k, d)
        PROVE  CoverageInv'
    BY <1>1, SelectInv
  <1>2. ASSUME NEW w \in Writer, Commit(w)
        PROVE  CoverageInv'
    BY <1>2, CommitInv
  <1>3. ASSUME NEW w \in Writer, Rollback(w)
        PROVE  CoverageInv'
    BY <1>3, RollbackInv DEF Rollback
  <1>4. CASE UNCHANGED vars
    BY <1>4, RollbackInv DEF vars
  <1> QED BY <1>1, <1>2, <1>3, <1>4 DEF Next

-----------------------------------------------------------------------------
(* A key no two transactions of which overlap always has separated ranges   *)
(* and exactly its recorded days, although transactions that overlap on     *)
(* other keys write to the same table from stale selections, for every set  *)
(* of keys, days and writers.                                              *)
THEOREM CoverageInvariant == Spec => []CoverageInv
  <1>1. CoverageInv /\ [Next]_vars => CoverageInv'
    BY NextInv
  <1> QED BY InitInv, <1>1, PTL DEF Spec

(* _record_coverage keeps the ranges of an exclusive key maximal and apart. *)
THEOREM RangesStaySeparated == Spec => []RangesSeparated
  <1>1. CoverageInv => RangesSeparated
    BY DEF CoverageInv
  <1> QED BY CoverageInvariant, <1>1, PTL

(* It never claims a day that was not recorded for one, nor loses one.      *)
THEOREM CoverageStaysExact == Spec => []CoverageIsExact
  <1>1. CoverageInv => CoverageIsExact
    BY DEF CoverageInv
  <1> QED BY CoverageInvariant, <1>1, PTL

(* No archived fetch of one is left without its day being covered.          *)
THEOREM ArchivedStaysCovered == Spec => []ArchivedIsCovered
  <1>1. CoverageInv => ArchivedIsCovered
    BY DEF CoverageInv
  <1> QED BY CoverageInvariant, <1>1, PTL

(* The range table implements a plain set of covered days per exclusive key.*)
THEOREM CoverageRefinement == Spec => ImplementsCoveredDates
  <1> DEFINE covered == [k \in Exclusive |-> Covered(k)]
  <1>1. Init => Dates!Init
    BY DEF Init, Dates!Init, Covered
  <1>2. CoverageInv /\ [Next]_vars => [Dates!Next]_covered
    <2> SUFFICES ASSUME CoverageInv, [Next]_vars
                 PROVE  [Dates!Next]_covered
      OBVIOUS
    <2>1. ASSUME UNCHANGED rows
          PROVE  [Dates!Next]_covered
      BY <2>1 DEF Covered, DaysOf
    <2>2. ASSUME NEW w \in Writer, Commit(w)
          PROVE  [Dates!Next]_covered
      <3> DEFINE k == txn[w].key
                 d == txn[w].day
      <3>1. /\ k \in Key /\ d \in Day
            /\ \A c \in Exclusive :
                 Covered(c)' = IF c = k THEN Covered(c) \cup {d} ELSE Covered(c)
        BY <2>2, CommitCovers
      <3> HIDE DEF k, d
      <3>2. CASE k \in Exclusive
        <4>1. Dates!Record(k, d)
          BY <3>1, <3>2 DEF Dates!Record
        <4> QED BY <3>1, <3>2, <4>1 DEF Dates!Next
      <3>3. CASE k \notin Exclusive
        BY <3>1, <3>3
      <3> QED BY <3>2, <3>3
    <2> QED BY <2>1, <2>2 DEF Next, Select, Rollback, vars
  <1> QED BY CoverageInvariant, <1>1, <1>2, PTL DEF Spec, ImplementsCoveredDates, Dates!Spec
=============================
