---------------------------- MODULE RateLimiter ----------------------------
(***************************************************************************)
(* The sliding-window limiter of quant-ingest, with what it is meant to    *)
(* pace: the fetches of one provider, which quant-ingest makes one after   *)
(* another, and the requests of a fetch, which the Massive client sends    *)
(* again after an HTTP 429 without asking the limiter.                     *)
(*                                                                         *)
(* The limiter is an object in memory: it begins empty in every process,   *)
(* and quant-dispatch starts one process per planned job.                  *)
(*                                                                         *)
(* Time is the reading of a clock in whole ticks.  It may advance at any   *)
(* point, so that a sleep lasts as long as it must or longer, and a request *)
(* is sent some time after it was admitted.                                *)
(***************************************************************************)
EXTENDS Integers, Sequences, FiniteSets

CONSTANTS
  RequestsPerWindow,  \* settings.<provider>.rateLimit
  WindowSeconds,
  MaxAttempts,        \* 3 for Massive, 1 for the others
  RetryDelay,         \* the pause of the Massive client after a 429
  MaxClock,           \* bound: ticks
  MaxProcess          \* bound: processes of quant-ingest, one after another

\* _parse_rate_limit_payload refuses smaller values.
ASSUME LimitAssumption ==
  RequestsPerWindow \in Nat \ {0} /\ WindowSeconds \in Nat \ {0}
ASSUME RetryAssumption == MaxAttempts \in Nat \ {0} /\ RetryDelay \in Nat
ASSUME BoundAssumption == MaxClock \in Nat /\ MaxProcess \in Nat

VARIABLES
  clock,
  process,    \* the number of the running process; 0 before the first
  pc,         \* where the loop of that process is
  callTimes,  \* the limiter's deque
  until,      \* when the sleep that was asked for is over
  attempt,    \* requests sent so far for the current fetch
  calls,      \* history: when this process acquired
  sent        \* history: the requests the provider got, from any process

vars == <<clock, process, pc, callTimes, until, attempt, calls, sent>>

Request == [process : Nat, call : Nat, attempt : 1 .. MaxAttempts, at : Nat]

At(where) == pc = where

-----------------------------------------------------------------------------
(* acquire.                                                                *)

MutExpired(t) == clock - t >= WindowSeconds - 1
Expired(t) == clock - t >= WindowSeconds

\* The popleft loop takes the first n times: all expired, and not the next.
Pops(n) ==
  /\ \A i \in 1 .. n : Expired(callTimes[i])
  /\ n < Len(callTimes) => ~ Expired(callTimes[n + 1])

AfterPops(n) == SubSeq(callTimes, n + 1, Len(callTimes))

\* append(now), and the call may go ahead.
Admit(n) ==
  /\ callTimes' = Append(AfterPops(n), clock)
  /\ calls' = Append(calls, clock)
  /\ pc' = "send"
  /\ attempt' = 0
  /\ UNCHANGED <<clock, process, until, sent>>

AcquireAtOnce ==
  /\ At("loop")
  /\ \E n \in 0 .. Len(callTimes) :
       /\ Pops(n)
       /\ Len(AfterPops(n)) < RequestsPerWindow
       /\ Admit(n)

MutAcquireWaits ==
  /\ At("loop")
  /\ \E n \in 0 .. Len(callTimes) :
       /\ Pops(n)
       /\ Len(AfterPops(n)) >= RequestsPerWindow
       /\ callTimes' = AfterPops(n)
       /\ until' = callTimes[Len(callTimes)] + WindowSeconds
  /\ pc' = "sleep"
  /\ UNCHANGED <<clock, process, attempt, calls, sent>>

\* The window is full: sleep until its oldest call leaves it.
AcquireWaits ==
  /\ At("loop")
  /\ \E n \in 0 .. Len(callTimes) :
       /\ Pops(n)
       /\ Len(AfterPops(n)) >= RequestsPerWindow
       /\ callTimes' = AfterPops(n)
       /\ until' = Head(AfterPops(n)) + WindowSeconds
  /\ pc' = "sleep"
  /\ UNCHANGED <<clock, process, attempt, calls, sent>>

MutWake ==
  /\ At("sleep")
  /\ clock >= until
  /\ Admit(0)

\* After the sleep: pop again and append, without looking at the length.
Wake ==
  /\ At("sleep")
  /\ clock >= until
  /\ \E n \in 0 .. Len(callTimes) : Pops(n) /\ Admit(n)

-----------------------------------------------------------------------------
(* fetch_bars.                                                             *)

\* One request and its answer: a 429, or anything that ends the fetch (bars,
\* no bars, another error).  The loop goes on to the next fetch either way.
MutSend ==
  /\ At("send")
  /\ sent' = sent \cup {[process |-> process, call |-> Len(calls),
                         attempt |-> attempt + 1, at |-> clock]}
  /\ attempt' = attempt + 1
  /\ \/ /\ until' = clock + RetryDelay
        /\ pc' = "backoff"
     \/ /\ pc' = "loop"
        /\ UNCHANGED until
  /\ UNCHANGED <<clock, process, callTimes, calls>>

Send ==
  /\ At("send")
  /\ sent' = sent \cup {[process |-> process, call |-> Len(calls),
                         attempt |-> attempt + 1, at |-> clock]}
  /\ attempt' = attempt + 1
  /\ \/ /\ attempt + 1 < MaxAttempts
        /\ until' = clock + RetryDelay
        /\ pc' = "backoff"
     \/ /\ pc' = "loop"
        /\ UNCHANGED until
  /\ UNCHANGED <<clock, process, callTimes, calls>>

Retry ==
  /\ At("backoff")
  /\ clock >= until
  /\ pc' = "send"
  /\ UNCHANGED <<clock, process, callTimes, until, attempt, calls, sent>>

-----------------------------------------------------------------------------
(* The process around it.                                                  *)

\* The next quant-ingest, whether the last one ended or was killed:
\* _default_rate_limiters makes a new limiter.
Start ==
  /\ process < MaxProcess
  /\ process' = process + 1
  /\ pc' = "loop"
  /\ callTimes' = <<>>
  /\ calls' = <<>>
  /\ until' = 0
  /\ attempt' = 0
  /\ UNCHANGED <<clock, sent>>

Tick ==
  /\ clock < MaxClock
  /\ clock' = clock + 1
  /\ UNCHANGED <<process, pc, callTimes, until, attempt, calls, sent>>

Init ==
  /\ clock = 0
  /\ process = 0
  /\ pc = "off"
  /\ callTimes = <<>>
  /\ until = 0
  /\ attempt = 0
  /\ calls = <<>>
  /\ sent = {}

Next ==
  \/ AcquireAtOnce
  \/ AcquireWaits
  \/ Wake
  \/ Send
  \/ Retry
  \/ Start
  \/ Tick

Spec == Init /\ [][Next]_vars

-----------------------------------------------------------------------------
(* Properties.                                                             *)

TypeOK ==
  /\ clock \in Nat
  /\ process \in Nat
  /\ pc \in {"off", "loop", "sleep", "send", "backoff"}
  /\ callTimes \in Seq(Nat)
  /\ until \in Nat
  /\ attempt \in 0 .. MaxAttempts
  /\ calls \in Seq(Nat)
  /\ sent \in SUBSET Request

\* RateLimiter's docstring: "at most requests_per_window calls within any
\* rolling window_seconds span", also after a sleep, when the deque is
\* appended to without another look at its length.
CallsInWindow ==
  \A i, j \in 1 .. Len(calls) :
    j - i >= RequestsPerWindow => calls[j] - calls[i] >= WindowSeconds

\* The limiter never costs more time than the ceiling does: whenever acquire
\* sleeps, one more call now would be one too many for the window.
NeverWaitsInVain ==
  At("sleep") /\ clock < until =>
    /\ Len(calls) >= RequestsPerWindow
    /\ \A i \in 1 .. Len(calls) :
         i > Len(calls) - RequestsPerWindow => clock - calls[i] < WindowSeconds

InWindow(requests, t) == {r \in requests : t <= r.at /\ r.at < t + WindowSeconds}

Ceiling == (RequestsPerWindow + 1) * MaxAttempts

\* What the provider gets from one process, retries and late sending included:
\* one fetch more than the window admits, each with its attempts.
RequestsInWindow ==
  \A p \in 1 .. process, t \in 0 .. clock :
    Cardinality(InWindow({r \in sent : r.process = p}, t)) <= Ceiling

\* settings.py on the default limit: the provider "has a known real ceiling
\* that should always apply".  The same bound for the provider as a whole.
CeilingAlwaysApplies ==
  \A t \in 0 .. clock : Cardinality(InWindow(sent, t)) <= Ceiling

-----------------------------------------------------------------------------
(* The inductive invariant.                                                *)

\* The deque is the end of the history, and what was popped from it is older
\* than the window.
Popped == Len(calls) - Len(callTimes)

DequeInv ==
  /\ Popped >= 0
  /\ Len(callTimes) <= RequestsPerWindow
  /\ \A i \in 1 .. Len(callTimes) : callTimes[i] = calls[Popped + i]
  /\ \A i \in 1 .. Popped : Expired(calls[i])
  /\ \A i, j \in 1 .. Len(calls) : i <= j => calls[i] <= calls[j]
  /\ \A i \in 1 .. Len(calls) : calls[i] <= clock
  /\ At("sleep") => /\ Len(callTimes) = RequestsPerWindow
                    /\ until = callTimes[1] + WindowSeconds

\* A request lies between its own admission and the next one, and is known by
\* its place in the process.
SentInv ==
  /\ \A r \in sent : r.process \in 1 .. process /\ r.at <= clock
  /\ \A r, s \in sent :
       r.process = s.process /\ r.call = s.call /\ r.attempt = s.attempt => r = s
  /\ \A r \in sent : r.process = process =>
       /\ r.call \in 1 .. Len(calls)
       /\ calls[r.call] <= r.at
       /\ r.call < Len(calls) => r.at <= calls[r.call + 1]
       /\ r.call = Len(calls) => r.attempt <= attempt
  /\ pc \in {"send", "backoff"} => calls # <<>> /\ attempt < MaxAttempts
  /\ pc # "off" => process >= 1

\* Two requests of fetches that are more than a window of calls apart.
PacedRequests ==
  \A r, s \in sent :
    r.process = s.process /\ s.call - r.call > RequestsPerWindow =>
      s.at - r.at >= WindowSeconds

LimiterInv == TypeOK /\ DequeInv /\ CallsInWindow /\ SentInv /\ PacedRequests
=============================================================================
