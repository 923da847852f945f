------------------------- MODULE RateLimiterProofs -------------------------
(***************************************************************************)
(* Proofs about RateLimiter, for every window, limit, number of attempts   *)
(* and retry delay.                                                        *)
(***************************************************************************)
EXTENDS RateLimiter, TLAPS, FiniteSetTheorems, WellFoundedInduction

LEMMA LimiterInit == Init => LimiterInv
  <1> USE LimitAssumption, RetryAssumption DEF Init
  <1>1. Init => TypeOK
    BY DEF TypeOK
  <1>2. Init => DequeInv /\ CallsInWindow
    BY DEF DequeInv, Popped, CallsInWindow, At
  <1>3. Init => SentInv /\ PacedRequests
    BY DEF SentInv, PacedRequests
  <1> QED BY <1>1, <1>2, <1>3 DEF LimiterInv

-----------------------------------------------------------------------------
(* Admitting a call.                                                       *)

\* The calls the window still holds after the expired ones were popped.
LEMMA AfterPopsShape ==
  ASSUME TypeOK, NEW n \in 0 .. Len(callTimes)
  PROVE  /\ AfterPops(n) \in Seq(Nat)
         /\ Len(AfterPops(n)) = Len(callTimes) - n
         /\ \A i \in 1 .. Len(AfterPops(n)) : AfterPops(n)[i] = callTimes[n + i]
  BY DEF TypeOK, AfterPops

\* With room in the window, the call that is RequestsPerWindow before the new
\* one has been popped, so it is as old as the window.
LEMMA AdmitDeque ==
  ASSUME TypeOK, DequeInv, CallsInWindow,
         NEW n \in 0 .. Len(callTimes), Pops(n), Admit(n),
         Len(AfterPops(n)) < RequestsPerWindow
  PROVE  DequeInv' /\ CallsInWindow'
  <1> USE LimitAssumption
  <1> DEFINE c == Len(calls)
             m == Len(callTimes)
  <1>1. /\ callTimes \in Seq(Nat) /\ calls \in Seq(Nat) /\ clock \in Nat
        /\ c \in Nat /\ m \in Nat /\ n \in 0 .. m
    BY DEF TypeOK
  <1>2. /\ calls' = Append(calls, clock) /\ callTimes' = Append(AfterPops(n), clock)
        /\ clock' = clock /\ pc' = "send"
    BY DEF Admit
  <1>3. /\ Len(calls') = c + 1
        /\ \A i \in 1 .. c : calls'[i] = calls[i]
        /\ calls'[c + 1] = clock
    BY <1>1, <1>2
  <1>4. /\ Len(callTimes') = m - n + 1
        /\ \A i \in 1 .. m - n : callTimes'[i] = callTimes[n + i]
        /\ callTimes'[m - n + 1] = clock
    BY <1>1, <1>2, AfterPopsShape
  <1>5. Popped' = Popped + n /\ Popped = c - m /\ Popped >= 0
    BY <1>1, <1>3, <1>4 DEF Popped, DequeInv
  <1>6. \A i \in 1 .. Popped' : Expired(calls[i])
    <2> SUFFICES ASSUME NEW i \in 1 .. Popped + n PROVE Expired(calls[i])
      BY <1>5
    <2>1. CASE i <= Popped
      BY <1>1, <1>5, <2>1 DEF DequeInv
    <2>2. CASE i > Popped
      <3>1. i - Popped \in 1 .. n /\ i - Popped \in 1 .. m
        BY <1>1, <1>5, <2>2
      <3>2. Expired(callTimes[i - Popped])
        BY <3>1 DEF Pops
      <3>3. callTimes[i - Popped] = calls[Popped + (i - Popped)]
        BY <3>1 DEF DequeInv
      <3>4. Popped + (i - Popped) = i
        BY <1>1, <1>5
      <3> QED BY <3>2, <3>3, <3>4
    <2> QED BY <1>1, <1>5, <2>1, <2>2
  <1>7. \A i \in 1 .. Popped' : calls'[i] = calls[i] /\ Expired(calls[i])'
    <2> TAKE i \in 1 .. Popped'
    <2>1. i \in 1 .. c
      BY <1>1, <1>5
    <2> QED BY <1>2, <1>3, <1>6, <2>1 DEF Expired
  <1>8. \A i \in 1 .. Len(callTimes') : callTimes'[i] = calls'[Popped' + i]
    <2> TAKE i \in 1 .. Len(callTimes')
    <2>1. CASE i <= m - n
      <3>1. n + i \in 1 .. m /\ Popped + (n + i) \in 1 .. c /\ i \in 1 .. m - n
        BY <1>1, <1>4, <1>5, <2>1
      <3>2. callTimes[n + i] = calls[Popped + (n + i)]
        BY <3>1 DEF DequeInv
      <3>3. Popped + (n + i) = Popped' + i
        BY <1>1, <1>5, <3>1
      <3> QED BY <1>3, <1>4, <3>1, <3>2, <3>3
    <2>2. CASE i = m - n + 1
      <3>1. Popped' + i = c + 1
        BY <1>1, <1>5, <2>2
      <3> QED BY <1>3, <1>4, <2>2, <3>1
    <2>3. i \in 1 .. m - n + 1
      BY <1>4
    <2>4. m - n \in Nat
      BY <1>1
    <2>5. i <= m - n \/ i = m - n + 1
      <3> HIDE DEF m
      <3> QED BY <2>3, <2>4
    <2> QED BY <2>1, <2>2, <2>5
  <1>9. \A i \in 1 .. c + 1 : calls'[i] <= clock
    <2>1. \A i \in 1 .. c : calls[i] <= clock
      BY DEF DequeInv
    <2>2. \A i \in 1 .. c + 1 : i \in 1 .. c \/ i = c + 1
      BY <1>1
    <2>3. clock <= clock
      BY <1>1
    <2> QED BY <1>3, <2>1, <2>2, <2>3
  <1>10. \A i, j \in 1 .. c + 1 : i <= j => calls'[i] <= calls'[j]
    <2> SUFFICES ASSUME NEW i \in 1 .. c + 1, NEW j \in 1 .. c + 1, i <= j
                 PROVE  calls'[i] <= calls'[j]
      OBVIOUS
    <2>1. CASE j = c + 1
      BY <1>3, <1>9, <2>1
    <2>2. CASE j # c + 1
      <3>1. i \in 1 .. c /\ j \in 1 .. c
        BY <1>1, <2>2
      <3> QED BY <1>3, <3>1 DEF DequeInv
    <2> QED BY <2>1, <2>2
  <1>11. DequeInv'
    <2>1. Popped' >= 0 /\ Len(callTimes') <= RequestsPerWindow
      BY <1>1, <1>4, <1>5, AfterPopsShape
    <2>2. \A i \in 1 .. Popped' : Expired(calls[i])'
      BY <1>7
    <2> QED BY <1>2, <1>3, <1>8, <1>9, <1>10, <2>1, <2>2 DEF DequeInv, At
  <1>12. CallsInWindow'
    <2> SUFFICES ASSUME NEW i \in 1 .. c + 1, NEW j \in 1 .. c + 1,
                        j - i >= RequestsPerWindow
                 PROVE  calls'[j] - calls'[i] >= WindowSeconds
      BY <1>3 DEF CallsInWindow
    <2>1. i \in 1 .. c
      BY <1>1
    <2>2. CASE j = c + 1
      <3>1. m - n < RequestsPerWindow
        BY AfterPopsShape
      <3>2. i \in 1 .. Popped'
        BY <1>1, <1>5, <2>1, <2>2, <3>1
      <3> QED BY <1>3, <1>6, <2>1, <2>2, <3>2 DEF Expired
    <2>3. CASE j # c + 1
      <3>1. c \in Nat /\ j \in 1 .. c + 1 /\ j # c + 1
        BY <1>1, <2>3
      <3>2. j \in 1 .. c
        BY <3>1
      <3> QED BY <1>3, <2>1, <3>2 DEF CallsInWindow
    <2> QED BY <2>2, <2>3
  <1> QED BY <1>11, <1>12

\* The requests that were sent lie before the new call.
LEMMA AdmitSent ==
  ASSUME TypeOK, SentInv, PacedRequests, NEW n, Admit(n), pc # "off"
  PROVE  SentInv' /\ PacedRequests'
  <1> USE RetryAssumption
  <1>1. /\ calls \in Seq(Nat) /\ clock \in Nat /\ sent \in SUBSET Request
    BY DEF TypeOK
  <1>2. /\ calls' = Append(calls, clock) /\ attempt' = 0 /\ pc' = "send"
        /\ UNCHANGED <<clock, process, sent>>
    BY DEF Admit
  <1>3. /\ Len(calls') = Len(calls) + 1 /\ calls' # <<>>
        /\ \A i \in 1 .. Len(calls) : calls'[i] = calls[i]
        /\ calls'[Len(calls) + 1] = clock
    BY <1>1, <1>2
  <1>4. ASSUME NEW r \in sent, r.process = process
        PROVE  /\ r.call \in 1 .. Len(calls')
               /\ calls'[r.call] <= r.at
               /\ r.call < Len(calls') /\ r.at <= calls'[r.call + 1]
    <2>1. /\ r.call \in 1 .. Len(calls) /\ calls[r.call] <= r.at /\ r.at <= clock
          /\ r.call < Len(calls) => r.at <= calls[r.call + 1]
      BY <1>4 DEF SentInv
    <2>2. CASE r.call = Len(calls)
      BY <1>1, <1>3, <2>1, <2>2
    <2>3. CASE r.call # Len(calls)
      <3>1. r.call + 1 \in 1 .. Len(calls)
        BY <1>1, <2>1, <2>3
      <3> QED BY <1>1, <1>3, <2>1, <3>1
    <2> QED BY <2>2, <2>3
  <1>5. SentInv'
    <2>1. \A r \in sent : r.process = process => r.call # Len(calls')
      BY <1>1, <1>3, <1>4
    <2>2. process' >= 1
      BY <1>2 DEF SentInv
    <2> QED BY <1>2, <1>3, <1>4, <2>1, <2>2 DEF SentInv
  <1>6. PacedRequests'
    BY <1>2 DEF PacedRequests
  <1> QED BY <1>5, <1>6

LEMMA AdmitType ==
  ASSUME TypeOK, NEW n \in 0 .. Len(callTimes), Admit(n)
  PROVE  TypeOK'
  BY AfterPopsShape, RetryAssumption DEF TypeOK, Admit

-----------------------------------------------------------------------------
(* The steps.                                                              *)

LEMMA AcquireAtOnceStep ==
  ASSUME LimiterInv, AcquireAtOnce
  PROVE  LimiterInv'
  <1> USE DEF LimiterInv
  <1>1. PICK n \in 0 .. Len(callTimes) :
          Pops(n) /\ Len(AfterPops(n)) < RequestsPerWindow /\ Admit(n)
    BY DEF AcquireAtOnce
  <1>2. pc # "off"
    BY DEF AcquireAtOnce, At
  <1> QED BY <1>1, <1>2, AdmitType, AdmitDeque, AdmitSent

\* The oldest call has left the window by now, so at least it is popped.
LEMMA WakeStep ==
  ASSUME LimiterInv, Wake
  PROVE  LimiterInv'
  <1> USE LimitAssumption DEF LimiterInv
  <1>1. PICK n \in 0 .. Len(callTimes) : Pops(n) /\ Admit(n)
    BY DEF Wake
  <1>2. Len(callTimes) = RequestsPerWindow /\ until = callTimes[1] + WindowSeconds
    BY DEF Wake, DequeInv
  <1>3. callTimes[1] \in Nat /\ clock \in Nat
    BY <1>2 DEF TypeOK
  <1>4. Expired(callTimes[1])
    BY <1>2, <1>3 DEF Wake, Expired
  <1>5. n # 0
    BY <1>1, <1>2, <1>4 DEF Pops
  <1>6. Len(AfterPops(n)) < RequestsPerWindow
    BY <1>2, <1>5, AfterPopsShape
  <1>7. pc # "off"
    BY DEF Wake, At
  <1> QED BY <1>1, <1>6, <1>7, AdmitType, AdmitDeque, AdmitSent

\* A full deque none of which is popped stays as it is.
LEMMA AcquireWaitsStep ==
  ASSUME LimiterInv, AcquireWaits
  PROVE  LimiterInv'
  <1> USE LimitAssumption DEF LimiterInv
  <1>1. PICK n \in 0 .. Len(callTimes) :
          /\ Pops(n) /\ Len(AfterPops(n)) >= RequestsPerWindow
          /\ callTimes' = AfterPops(n)
          /\ until' = Head(AfterPops(n)) + WindowSeconds
    BY DEF AcquireWaits
  <1>2. pc' = "sleep" /\ UNCHANGED <<clock, process, attempt, calls, sent>>
    BY DEF AcquireWaits
  <1>3. n = 0 /\ Len(callTimes) = RequestsPerWindow
    BY <1>1, AfterPopsShape DEF DequeInv
  <1>4. callTimes' = callTimes
    BY <1>1, <1>3 DEF AfterPops, TypeOK
  <1>5. until' = callTimes[1] + WindowSeconds /\ callTimes[1] \in Nat
    BY <1>1, <1>3, <1>4 DEF TypeOK
  <1>6. TypeOK'
    BY <1>2, <1>4, <1>5 DEF TypeOK
  <1>7. DequeInv'
    BY <1>2, <1>3, <1>4, <1>5 DEF DequeInv, Popped, Expired, At
  <1>8. CallsInWindow'
    BY <1>2 DEF CallsInWindow
  <1>9. SentInv' /\ PacedRequests'
    BY <1>2 DEF SentInv, PacedRequests, AcquireWaits, At
  <1> QED BY <1>6, <1>7, <1>8, <1>9

LEMMA SendStep ==
  ASSUME LimiterInv, Send
  PROVE  LimiterInv'
  <1> USE LimitAssumption, RetryAssumption DEF LimiterInv
  <1> DEFINE new == [process |-> process, call |-> Len(calls),
                     attempt |-> attempt + 1, at |-> clock]
  <1>1. /\ sent' = sent \cup {new} /\ attempt' = attempt + 1
        /\ UNCHANGED <<clock, process, callTimes, calls>> /\ pc = "send"
    BY DEF Send, At
  <1>2. /\ calls # <<>> /\ attempt < MaxAttempts /\ attempt \in Nat
        /\ calls \in Seq(Nat) /\ clock \in Nat /\ process \in Nat
        /\ sent \in SUBSET Request
    BY <1>1 DEF SentInv, TypeOK
  <1>3. Len(calls) \in Nat /\ Len(calls) >= 1 /\ calls[Len(calls)] \in Nat
    BY <1>2
  <1>4. new \in Request
    BY <1>2, <1>3 DEF Request
  <1>5. \/ pc' = "backoff" /\ attempt' < MaxAttempts
        \/ pc' = "loop"
    BY <1>1 DEF Send
  <1>6. TypeOK'
    <2>1. until' \in Nat
      BY <1>2 DEF Send, TypeOK
    <2> QED BY <1>1, <1>2, <1>4, <1>5, <2>1 DEF TypeOK
  <1>7. DequeInv' /\ CallsInWindow'
    <2>1. pc' # "sleep"
      BY <1>5
    <2> QED BY <1>1, <2>1 DEF DequeInv, Popped, Expired, At, CallsInWindow
  <1>9. SentInv'
    <2>1. \A r \in sent' : r.process \in 1 .. process /\ r.at <= clock
      <3>1. process >= 1 /\ process \in Nat /\ clock <= clock
        BY <1>1, <1>2 DEF SentInv
      <3>2. new.process \in 1 .. process /\ new.at <= clock
        BY <3>1
      <3> QED BY <1>1, <3>2 DEF SentInv
    <2>2. \A r, s \in sent' :
            r.process = s.process /\ r.call = s.call /\ r.attempt = s.attempt => r = s
      <3>1. \A r \in sent :
              r.process = process /\ r.call = Len(calls) => r.attempt < attempt + 1
        BY <1>2 DEF SentInv, Request
      <3>2. \A r \in sent : r.attempt \in Int
        BY <1>2 DEF Request
      <3> QED BY <1>1, <1>2, <3>1, <3>2 DEF SentInv
    <2>3. \A r \in sent' : r.process = process =>
            /\ r.call \in 1 .. Len(calls)
            /\ calls[r.call] <= r.at
            /\ r.call < Len(calls) => r.at <= calls[r.call + 1]
            /\ r.call = Len(calls) => r.attempt <= attempt'
      <3>1. calls[Len(calls)] <= clock
        BY <1>3 DEF DequeInv
      <3>2. \A r \in sent : r.attempt \in Int
        BY <1>2 DEF Request
      <3> QED BY <1>1, <1>2, <1>3, <3>1, <3>2 DEF SentInv
    <2>4. process' >= 1
      BY <1>1 DEF SentInv
    <2> QED BY <1>1, <1>2, <1>5, <2>1, <2>2, <2>3, <2>4 DEF SentInv
  <1>10. ASSUME NEW r \in sent, r.process = process,
                Len(calls) - r.call > RequestsPerWindow
         PROVE  clock - r.at >= WindowSeconds
    <2>1. /\ r.call \in 1 .. Len(calls) /\ r.call < Len(calls)
          /\ r.at <= calls[r.call + 1] /\ r.at \in Nat
      BY <1>2, <1>3, <1>10 DEF SentInv, Request
    <2>2. /\ r.call + 1 \in 1 .. Len(calls)
          /\ Len(calls) - (r.call + 1) >= RequestsPerWindow
      BY <1>3, <1>10, <2>1
    <2>3. calls[Len(calls)] - calls[r.call + 1] >= WindowSeconds
      BY <1>3, <2>2 DEF CallsInWindow
    <2>4. calls[Len(calls)] <= clock /\ calls[r.call + 1] \in Nat
      BY <1>2, <1>3, <2>2 DEF DequeInv
    <2> QED BY <1>2, <1>3, <2>1, <2>3, <2>4
  <1>11. PacedRequests'
    <2> SUFFICES ASSUME NEW r \in sent', NEW s \in sent', r.process = s.process,
                        s.call - r.call > RequestsPerWindow
                 PROVE  s.at - r.at >= WindowSeconds
      BY DEF PacedRequests
    <2>1. CASE s \in sent /\ r \in sent
      BY <2>1 DEF PacedRequests
    <2>2. CASE s = new /\ r \in sent
      BY <1>10, <2>2
    <2>3. CASE r = new
      <3>1. s.call <= Len(calls)
        BY <1>1, <1>2, <1>3, <2>3 DEF SentInv
      <3>2. s.call \in Int
        BY <1>1, <1>2, <1>4 DEF Request
      <3> QED BY <1>3, <2>3, <3>1, <3>2
    <2> QED BY <1>1, <2>1, <2>2, <2>3
  <1> QED BY <1>6, <1>7, <1>9, <1>11

LEMMA RetryStep ==
  ASSUME LimiterInv, Retry
  PROVE  LimiterInv'
  BY DEF LimiterInv, Retry, TypeOK, DequeInv, Popped, Expired, At, CallsInWindow,
         SentInv, PacedRequests

LEMMA StartStep ==
  ASSUME LimiterInv, Start
  PROVE  LimiterInv'
  <1> USE LimitAssumption, RetryAssumption DEF LimiterInv
  <1>1. /\ process' = process + 1 /\ pc' = "loop" /\ callTimes' = <<>> /\ calls' = <<>>
        /\ until' = 0 /\ attempt' = 0 /\ UNCHANGED <<clock, sent>>
    BY DEF Start
  <1>2. process \in Nat
    BY DEF TypeOK
  <1>3. TypeOK'
    BY <1>1 DEF TypeOK
  <1>4. DequeInv' /\ CallsInWindow'
    BY <1>1 DEF DequeInv, Popped, CallsInWindow, At
  <1>5. \A r \in sent : r.process \in 1 .. process' /\ r.process # process'
    BY <1>1, <1>2 DEF SentInv
  <1>6. process' >= 1
    BY <1>1, <1>2
  <1>7. SentInv' /\ PacedRequests'
    BY <1>1, <1>5, <1>6 DEF SentInv, PacedRequests
  <1> QED BY <1>3, <1>4, <1>7

LEMMA TickStep ==
  ASSUME LimiterInv, Tick
  PROVE  LimiterInv'
  <1> USE LimitAssumption DEF LimiterInv
  <1>1. clock' = clock + 1
        /\ UNCHANGED <<process, pc, callTimes, until, attempt, calls, sent>>
    BY DEF Tick
  <1>2. TypeOK'
    BY <1>1 DEF TypeOK
  <1>3. clock \in Nat /\ calls \in Seq(Nat) /\ callTimes \in Seq(Nat) /\ sent \in SUBSET Request
    BY DEF TypeOK
  <1>4. Popped >= 0 /\ Popped <= Len(calls)
    BY <1>3 DEF DequeInv, Popped
  <1>5. \A i \in 1 .. Popped : Expired(calls[i])'
    <2> TAKE i \in 1 .. Popped
    <2>1. i \in 1 .. Len(calls) /\ calls[i] \in Nat
      BY <1>3, <1>4 DEF Popped
    <2> QED BY <1>1, <1>3, <2>1 DEF Expired, DequeInv
  <1>6. \A i \in 1 .. Len(calls) : calls[i] <= clock'
    BY <1>1, <1>3 DEF DequeInv
  <1>7. DequeInv'
    BY <1>1, <1>5, <1>6 DEF DequeInv, Popped, At
  <1>8. CallsInWindow' /\ PacedRequests'
    BY <1>1 DEF CallsInWindow, PacedRequests
  <1>9. SentInv'
    <2>1. \A r \in sent : r.at <= clock'
      BY <1>1, <1>3 DEF SentInv, Request
    <2> QED BY <1>1, <2>1 DEF SentInv
  <1> QED BY <1>2, <1>7, <1>8, <1>9

LEMMA LimiterStep == LimiterInv /\ [Next]_vars => LimiterInv'
  <1> SUFFICES ASSUME LimiterInv, [Next]_vars PROVE LimiterInv'
    OBVIOUS
  <1>1. CASE AcquireAtOnce
    BY <1>1, AcquireAtOnceStep
  <1>2. CASE AcquireWaits
    BY <1>2, AcquireWaitsStep
  <1>3. CASE Wake
    BY <1>3, WakeStep
  <1>4. CASE Send
    BY <1>4, SendStep
  <1>5. CASE Retry
    BY <1>5, RetryStep
  <1>6. CASE Start
    BY <1>6, StartStep
  <1>7. CASE Tick
    BY <1>7, TickStep
  <1>8. CASE UNCHANGED vars
    BY <1>8 DEF vars, LimiterInv, TypeOK, DequeInv, Popped, Expired, At,
                CallsInWindow, SentInv, PacedRequests
  <1> QED BY <1>1, <1>2, <1>3, <1>4, <1>5, <1>6, <1>7, <1>8 DEF Next

\* The inductive invariant of the limiter, its deque and the requests it paces.
THEOREM LimiterInvariant == Spec => []LimiterInv
  BY LimiterInit, LimiterStep, PTL DEF Spec

-----------------------------------------------------------------------------
(* What follows.                                                           *)

\* RateLimiter's docstring: at most requests_per_window calls within any
\* rolling window_seconds, for each process.
THEOREM CallsStayInWindow == Spec => []CallsInWindow
  <1>1. LimiterInv => CallsInWindow
    BY DEF LimiterInv
  <1> QED BY <1>1, LimiterInvariant, PTL

\* acquire sleeps only while one more call would be one too many.
THEOREM WaitsAreNeeded == Spec => []NeverWaitsInVain
  <1>1. ASSUME LimiterInv, At("sleep"), clock < until
        PROVE  /\ Len(calls) >= RequestsPerWindow
               /\ \A i \in 1 .. Len(calls) :
                    i > Len(calls) - RequestsPerWindow => clock - calls[i] < WindowSeconds
    <2> USE LimitAssumption DEF LimiterInv
    <2>1. /\ calls \in Seq(Nat) /\ callTimes \in Seq(Nat) /\ clock \in Nat
          /\ Len(callTimes) = RequestsPerWindow
          /\ until = callTimes[1] + WindowSeconds
          /\ Popped = Len(calls) - RequestsPerWindow /\ Popped >= 0
      <3>1. calls \in Seq(Nat) /\ callTimes \in Seq(Nat) /\ clock \in Nat
        BY <1>1 DEF TypeOK
      <3> QED BY <1>1, <3>1 DEF DequeInv, Popped
    <2>2. /\ Popped + 1 \in 1 .. Len(calls) /\ callTimes[1] = calls[Popped + 1]
          /\ calls[Popped + 1] \in Nat
      <3>1. Len(calls) \in Nat /\ Popped \in Nat
        BY <2>1
      <3>2. 1 \in 1 .. Len(callTimes)
        BY <2>1
      <3>3. Popped + 1 \in 1 .. Len(calls)
        BY <2>1, <3>1
      <3> QED BY <1>1, <2>1, <3>2, <3>3 DEF DequeInv
    <2>3. ASSUME NEW i \in 1 .. Len(calls), i > Len(calls) - RequestsPerWindow
          PROVE  clock - calls[i] < WindowSeconds
      <3>1. Len(calls) \in Nat /\ calls[i] \in Nat
        BY <2>1, <2>3
      <3>2. Popped + 1 <= i
        BY <2>1, <2>3, <3>1
      <3>3. calls[Popped + 1] <= calls[i]
        BY <1>1, <2>2, <2>3, <3>2 DEF DequeInv
      <3>4. clock < calls[Popped + 1] + WindowSeconds
        BY <1>1, <2>1, <2>2
      <3>5. clock \in Nat /\ calls[Popped + 1] \in Nat /\ WindowSeconds \in Nat
        BY <2>1, <2>2
      <3> HIDE DEF LimiterInv
      <3> QED BY <3>1, <3>3, <3>4, <3>5
    <2> QED BY <2>1, <2>3
  <1>2. LimiterInv => NeverWaitsInVain
    BY <1>1 DEF NeverWaitsInVain
  <1> QED BY <1>2, LimiterInvariant, PTL

\* Nat is well ordered.
LEMMA LeastElement ==
  ASSUME NEW S \in SUBSET Nat, S # {}
  PROVE  \E x \in S : \A y \in S : x <= y
  <1> DEFINE R == OpToRel(<, Nat)
  <1>1. IsWellFoundedOn(R, Nat)
    BY NatLessThanWellFounded
  <1>2. \A a, b \in Nat : a < b => <<a, b>> \in R
    BY DEF OpToRel
  <1> HIDE DEF R
  <1>3. PICK x \in S : \A y \in S : ~ (<<y, x>> \in R)
    BY <1>1, WFMin
  <1>4. ASSUME NEW y \in S PROVE x <= y
    <2>1. x \in Nat /\ y \in Nat
      OBVIOUS
    <2>2. ~ (y < x)
      BY <1>2, <1>3, <2>1
    <2> QED BY <2>1, <2>2
  <1> QED BY <1>4

\* Requests with distinct (fetch, attempt) of at most N + 1 fetches in a row
\* are at most (N + 1) * MaxAttempts.
LEMMA FewFetches ==
  ASSUME NEW R \in SUBSET Request, NEW k \in Nat,
         \A r \in R : r.call \in k .. k + RequestsPerWindow,
         \A r, s \in R : r.call = s.call /\ r.attempt = s.attempt => r = s
  PROVE  Cardinality(R) <= Ceiling
  <1> USE LimitAssumption, RetryAssumption
  <1> DEFINE Fetches == k .. k + RequestsPerWindow
             Attempts == 1 .. MaxAttempts
             f == [r \in R |-> <<r.call, r.attempt>>]
  <1>1. IsFiniteSet(Fetches) /\ Cardinality(Fetches) = RequestsPerWindow + 1
    BY FS_Interval
  <1>2. IsFiniteSet(Attempts) /\ Cardinality(Attempts) = MaxAttempts
    BY FS_Interval
  <1>3. IsFiniteSet(Fetches \X Attempts) /\ Cardinality(Fetches \X Attempts) = Ceiling
    BY <1>1, <1>2, FS_Product DEF Ceiling
  <1>4. f \in Injection(R, Fetches \X Attempts)
    <2>1. \A r \in R : r.attempt \in Attempts
      BY DEF Request
    <2>2. f \in [R -> Fetches \X Attempts]
      BY <2>1
    <2>3. \A r, s \in R : f[r] = f[s] => r = s
      OBVIOUS
    <2> QED BY <2>2, <2>3 DEF Injection, IsInjective
  <1> HIDE DEF f, Fetches, Attempts
  <1>5. Cardinality(R) <= Cardinality(Fetches \X Attempts)
    BY <1>3, <1>4, FS_Injection
  <1> QED BY <1>3, <1>5

\* The requests of one process: a span of WindowSeconds has requests of at
\* most RequestsPerWindow + 1 fetches, whatever their retries.
THEOREM RequestsStayInWindow == Spec => []RequestsInWindow
  <1>1. ASSUME LimiterInv, NEW p \in 1 .. process, NEW t \in 0 .. clock
        PROVE  Cardinality(InWindow({r \in sent : r.process = p}, t)) <= Ceiling
    <2> USE LimitAssumption, RetryAssumption
    <2> DEFINE R == InWindow({r \in sent : r.process = p}, t)
    <2>1. /\ R \in SUBSET Request /\ R \subseteq sent /\ t \in Nat
          /\ \A r \in R : r.process = p /\ t <= r.at /\ r.at < t + WindowSeconds
      BY <1>1 DEF LimiterInv, TypeOK, InWindow
    <2>2. \A r, s \in R : r.call = s.call /\ r.attempt = s.attempt => r = s
      BY <1>1, <2>1 DEF LimiterInv, SentInv
    <2> SUFFICES Cardinality(R) <= Ceiling
      OBVIOUS
    <2> HIDE DEF R
    <2>3. ASSUME NEW r \in R, NEW s \in R PROVE s.call - r.call <= RequestsPerWindow
      <3>1. /\ r.at \in Nat /\ s.at \in Nat /\ r.call \in Nat /\ s.call \in Nat
        BY <2>1 DEF Request
      <3>2. ~ (s.at - r.at >= WindowSeconds)
        BY <2>1, <3>1
      <3>3. ~ (s.call - r.call > RequestsPerWindow)
        BY <1>1, <2>1, <3>2 DEF LimiterInv, PacedRequests
      <3> QED BY <3>1, <3>3
    <2>4. CASE R = {}
      BY <2>1, <2>2, <2>4, FewFetches
    <2>5. CASE R # {}
      <3> DEFINE S == {r.call : r \in R}
      <3>1. S \in SUBSET Nat /\ S # {}
        BY <2>1, <2>5 DEF Request
      <3>2. PICK k \in S : \A y \in S : k <= y
        BY <3>1, LeastElement
      <3>3. PICK r0 \in R : r0.call = k
        OBVIOUS
      <3>4. \A r \in R : r.call \in k .. k + RequestsPerWindow
        <4> TAKE r \in R
        <4>1. k <= r.call /\ r.call - k <= RequestsPerWindow
          BY <2>3, <3>2, <3>3
        <4>2. k \in Nat /\ r.call \in Nat
          BY <2>1, <3>1 DEF Request
        <4> QED BY <4>1, <4>2
      <3>5. k \in Nat
        BY <3>1
      <3> QED BY <2>1, <2>2, <3>4, <3>5, FewFetches
    <2> QED BY <2>4, <2>5
  <1>2. LimiterInv => RequestsInWindow
    BY <1>1 DEF RequestsInWindow
  <1> QED BY <1>2, LimiterInvariant, PTL
=============================================================================
