------------------------------- MODULE Status -------------------------------
(***************************************************************************)
(* WebserverStatus: counters that every worker writes in ServedRequest and *)
(* the thread of Status reads, resets and averages once a second.  The     *)
(* atomics take one step per operation; http_served_[code]++ is a load and *)
(* a store.  A window of 60, 300 or 900 seconds is a constant here.        *)
(***************************************************************************)
EXTENDS Integers, Sequences, FiniteSets, SequencesExt

CONSTANTS Workers, Codes,
          Latencies,     \* what the timer of a message may show
          Windows,       \* the three sizes, each a divisor of the next
          MaxServed,     \* bound: messages in all
          MaxTicks       \* bound: rounds of Run()

ASSUME StatusAssumption ==
  /\ IsFiniteSet(Workers) /\ IsFiniteSet(Codes)
  /\ Latencies \subseteq Nat \ {0}
  /\ Windows \in [1 .. 3 -> Nat \ {0}]
  /\ Windows[2] % Windows[1] = 0 /\ Windows[3] % Windows[2] = 0
  /\ MaxServed \in Nat /\ MaxTicks \in Nat

VARIABLES
  http_served_, outgoing_rate_,
  fast_latency_sum_, fast_latency_count_, max_latency_,
  max_attained_rate_, total_served_requests_,
  sustained, attained,   \* histories, position and averages
  worker,    \* per worker: where it is in ServedRequest, with which message
  thread,    \* where Run() is, with its locals
  served,    \* per code: messages whose ServedRequest has begun
  timed,     \* messages counted into outgoing_rate_
  rates,     \* the rates that Run() has taken
  collected  \* their sum

counters == <<http_served_, outgoing_rate_, fast_latency_sum_, fast_latency_count_, max_latency_>>
results  == <<max_attained_rate_, total_served_requests_, sustained, attained>>
vars == <<counters, results, worker, thread, served, timed, rates, collected>>

(* The sums of the first elements of s; the codes in the order of the map. *)
Partial(s) == LET upto[n \in 0 .. Len(s)] == IF n = 0 THEN 0 ELSE upto[n - 1] + s[n] IN upto
Sum(s) == Partial(s)[Len(s)]
Order == SetToSeq(Codes)
SumOf(f) == Sum([i \in 1 .. Len(Order) |-> f[Order[i]]])

Idle == [at |-> "idle", code |-> 0, latency |-> 0, loaded |-> 0]
NoHistory == [history |-> [k \in 1 .. 3 |-> << >>], position |-> 0, average |-> [k \in 1 .. 3 |-> 0]]

Init ==
  /\ http_served_ = [c \in Codes |-> 0]
  /\ outgoing_rate_ = 0 /\ fast_latency_sum_ = 0 /\ fast_latency_count_ = 0 /\ max_latency_ = 0
  /\ max_attained_rate_ = 0 /\ total_served_requests_ = 0
  /\ sustained = NoHistory /\ attained = NoHistory
  /\ worker = [w \in Workers |-> Idle]
  /\ thread = [at |-> "rate", rate |-> 0, left |-> << >>]
  /\ served = [c \in Codes |-> 0]
  /\ timed = 0
  /\ rates = << >> /\ collected = 0

-----------------------------------------------------------------------------
(* ServedRequest, on a worker.  A message without a timer (latency 0) is   *)
(* only counted.                                                           *)
At(w, at) == worker[w].at = at
Move(w, at) == worker' = [worker EXCEPT ![w].at = at]
OnlyWorker == UNCHANGED <<results, thread, rates, collected>>

Load(w) ==
  /\ At(w, "idle") /\ SumOf(served) < MaxServed
  /\ \E c \in Codes, l \in Latencies \cup {0} :
       /\ worker' = [worker EXCEPT ![w] =
                       [at |-> "store", code |-> c, latency |-> l, loaded |-> http_served_[c]]]
       /\ served' = [served EXCEPT ![c] = @ + 1]
  /\ OnlyWorker /\ UNCHANGED <<counters, timed>>

Store(w) ==
  /\ At(w, "store")
  /\ http_served_' = [http_served_ EXCEPT ![worker[w].code] = worker[w].loaded + 1]
  /\ IF worker[w].latency = 0 THEN worker' = [worker EXCEPT ![w] = Idle] ELSE Move(w, "sum")
  /\ OnlyWorker
  /\ UNCHANGED <<outgoing_rate_, fast_latency_sum_, fast_latency_count_, max_latency_, served, timed>>

AddLatency(w) ==
  /\ At(w, "sum")
  /\ fast_latency_sum_' = fast_latency_sum_ + worker[w].latency
  /\ Move(w, "count")
  /\ OnlyWorker
  /\ UNCHANGED <<http_served_, outgoing_rate_, fast_latency_count_, max_latency_, served, timed>>

CountLatency(w) ==
  /\ At(w, "count")
  /\ fast_latency_count_' = fast_latency_count_ + 1
  /\ Move(w, "rate")
  /\ OnlyWorker
  /\ UNCHANGED <<http_served_, outgoing_rate_, fast_latency_sum_, max_latency_, served, timed>>

CountRate(w) ==
  /\ At(w, "rate")
  /\ outgoing_rate_' = outgoing_rate_ + 1
  /\ timed' = timed + 1
  /\ Move(w, "compare")
  /\ OnlyWorker
  /\ UNCHANGED <<http_served_, fast_latency_sum_, fast_latency_count_, max_latency_, served>>

(* The maximum is compared, then set; nothing is kept before the first     *)
(* rate is known.                                                          *)
CompareMax(w) ==
  /\ At(w, "compare")
  /\ IF worker[w].latency > max_latency_ /\ max_attained_rate_ # 0
     THEN Move(w, "max") ELSE worker' = [worker EXCEPT ![w] = Idle]
  /\ OnlyWorker /\ UNCHANGED <<counters, served, timed>>

SetMax(w) ==
  /\ At(w, "max")
  /\ max_latency_' = worker[w].latency
  /\ worker' = [worker EXCEPT ![w] = Idle]
  /\ OnlyWorker
  /\ UNCHANGED <<http_served_, outgoing_rate_, fast_latency_sum_, fast_latency_count_, served, timed>>

ServedRequest(w) ==
  Load(w) \/ Store(w) \/ AddLatency(w) \/ CountLatency(w) \/ CountRate(w) \/ CompareMax(w) \/ SetMax(w)

-----------------------------------------------------------------------------
(* The windows.  A history grows to its size, then the oldest is replaced. *)

(* Mutant: the position wraps one too late.                                *)
NextPositionLate(p) == IF p + 1 > Windows[3] THEN 0 ELSE p + 1

NextPosition(p) == IF p + 1 >= Windows[3] THEN 0 ELSE p + 1

Recorded(h, v) ==
  [k \in 1 .. 3 |->
     IF Len(h.history[k]) < Windows[k] THEN Append(h.history[k], v)
     ELSE [h.history[k] EXCEPT ![(IF k = 3 THEN h.position ELSE h.position % Windows[k]) + 1] = v]]

Mean(s) == Sum(s) \div Len(s)

CalculateSustainedRate_(rate) ==
  LET history == Recorded(sustained, rate)
  IN  sustained' = [history |-> history, position |-> NextPosition(sustained.position),
                    average |-> [k \in 1 .. 3 |-> Mean(history[k])]]

(* The second average divides by the size of the third history.            *)
CalculateAttainedRate_(rate) ==
  LET history == Recorded(attained, rate)
  IN  IF rate = 0 THEN UNCHANGED attained
      ELSE attained' = [history |-> history, position |-> NextPosition(attained.position),
                        average |-> [k \in 1 .. 3 |->
                          IF k = 2 THEN Sum(history[2]) \div Len(history[3]) ELSE Mean(history[k])]]

-----------------------------------------------------------------------------
(* Run(), on the thread of Status.                                         *)
ThreadAt(at) == thread.at = at
OnlyThread == UNCHANGED <<worker, served, timed>>

ReadRate ==
  /\ ThreadAt("rate") /\ Len(rates) < MaxTicks
  /\ thread' = [thread EXCEPT !.at = "subtract", !.rate = outgoing_rate_]
  /\ OnlyThread /\ UNCHANGED <<counters, results, rates, collected>>

(* Mutant: the rate is set to 0, not reduced by what was read.             *)
TakeRateReset ==
  /\ ThreadAt("subtract")
  /\ outgoing_rate_' = 0
  /\ rates' = Append(rates, thread.rate) /\ collected' = collected + thread.rate
  /\ thread' = [thread EXCEPT !.at = "rates"]
  /\ OnlyThread
  /\ UNCHANGED <<http_served_, fast_latency_sum_, fast_latency_count_, max_latency_, results>>

TakeRate ==
  /\ ThreadAt("subtract")
  /\ outgoing_rate_' = outgoing_rate_ - thread.rate
  /\ rates' = Append(rates, thread.rate) /\ collected' = collected + thread.rate
  /\ thread' = [thread EXCEPT !.at = "rates"]
  /\ OnlyThread
  /\ UNCHANGED <<http_served_, fast_latency_sum_, fast_latency_count_, max_latency_, results>>

CalculateRates ==
  /\ ThreadAt("rates")
  /\ max_attained_rate_' = IF max_attained_rate_ < thread.rate THEN thread.rate ELSE max_attained_rate_
  /\ CalculateSustainedRate_(thread.rate)
  /\ CalculateAttainedRate_(thread.rate)
  /\ thread' = [thread EXCEPT !.at = "test"]
  /\ OnlyThread /\ UNCHANGED <<counters, rates, collected, total_served_requests_>>

(* CalculateLatency_: test, divide, then reset one after the other.        *)
TestLatency ==
  /\ ThreadAt("test")
  /\ thread' = [thread EXCEPT !.at =
                  IF fast_latency_sum_ # 0 /\ fast_latency_count_ # 0 THEN "average" ELSE "total"]
  /\ OnlyThread /\ UNCHANGED <<counters, results, rates, collected>>

(* The average goes to a window of its own, which works as those of the    *)
(* rates and is left out.                                                  *)
AverageLatency ==
  /\ ThreadAt("average")
  /\ thread' = [thread EXCEPT !.at = "zero_sum"]
  /\ OnlyThread /\ UNCHANGED <<counters, results, rates, collected>>

ZeroSum ==
  /\ ThreadAt("zero_sum")
  /\ fast_latency_sum_' = 0
  /\ thread' = [thread EXCEPT !.at = "zero_count"]
  /\ OnlyThread
  /\ UNCHANGED <<http_served_, outgoing_rate_, fast_latency_count_, max_latency_, results, rates, collected>>

ZeroCount ==
  /\ ThreadAt("zero_count")
  /\ fast_latency_count_' = 0
  /\ thread' = [thread EXCEPT !.at = "total"]
  /\ OnlyThread
  /\ UNCHANGED <<http_served_, outgoing_rate_, fast_latency_sum_, max_latency_, results, rates, collected>>

(* CalculateRequests_ adds up in the place that others read.               *)
(* Mutant: the total is not cleared first.                                 *)
ClearTotalKept ==
  /\ ThreadAt("total")
  /\ thread' = [thread EXCEPT !.at = "add", !.left = Order]
  /\ OnlyThread /\ UNCHANGED <<counters, results, rates, collected>>

ClearTotal ==
  /\ ThreadAt("total")
  /\ total_served_requests_' = 0
  /\ thread' = [thread EXCEPT !.at = "add", !.left = Order]
  /\ OnlyThread /\ UNCHANGED <<counters, rates, collected, max_attained_rate_, sustained, attained>>

AddTotal ==
  /\ ThreadAt("add")
  /\ IF thread.left = << >>
     THEN thread' = [thread EXCEPT !.at = "rate"] /\ UNCHANGED total_served_requests_
     ELSE /\ total_served_requests_' = total_served_requests_ + http_served_[Head(thread.left)]
          /\ thread' = [thread EXCEPT !.left = Tail(@)]
  /\ OnlyThread /\ UNCHANGED <<counters, rates, collected, max_attained_rate_, sustained, attained>>

Round == ReadRate \/ TakeRate \/ CalculateRates \/ TestLatency \/ AverageLatency
         \/ ZeroSum \/ ZeroCount \/ ClearTotal \/ AddTotal

Done == /\ Len(rates) = MaxTicks /\ ThreadAt("rate")
        /\ UNCHANGED vars

Next == (\E w \in Workers : ServedRequest(w)) \/ Round \/ Done

Spec == Init /\ [][Next]_vars

-----------------------------------------------------------------------------
(* Properties.                                                             *)

(* Every timed message is in exactly one rate or still to be read, however *)
(* the workers and the reader interleave.                                  *)
RatesConserved == outgoing_rate_ + collected = timed

(* After any number of seconds a window holds the last rates of those that *)
(* it keeps, as many as it has room for, each at the place of its number   *)
(* among them, and nothing older: position and sizes wrap together.        *)
Nth(kept, i) == Cardinality({j \in kept : j <= i})
HoldsLast(window, size, s, kept) ==
  LET all == Cardinality(kept)
  IN  /\ Len(window) = IF all < size THEN all ELSE size
      /\ \A i \in kept :
           all - Nth(kept, i) < size => window[((Nth(kept, i) - 1) % size) + 1] = s[i]
RecentOnly(h, s, kept) == \A k \in 1 .. 3 : HoldsLast(h.history[k], Windows[k], s, kept)

Averaged == 1 .. (IF ThreadAt("rates") THEN Len(rates) - 1 ELSE Len(rates))
Attained == {i \in Averaged : rates[i] # 0}
WindowsRecent == RecentOnly(sustained, rates, Averaged) /\ RecentOnly(attained, rates, Attained)

(* No code is counted more often than it was served, nor are more          *)
(* latencies than messages that got so far.                                *)
NoneMadeUp ==
  /\ \A c \in Codes : http_served_[c] <= served[c]
  /\ fast_latency_count_ <= timed + Cardinality({w \in Workers : At(w, "rate")})

(* What is divided by is not zero.                                         *)
Divides == ThreadAt("average") => fast_latency_count_ > 0

(* No count exceeds what it counts, nor does the total that a reader sees  *)
(* at any moment, although it is summed up in place; and what is divided   *)
(* by is not zero, although count and sum are reset one after the other    *)
(* while workers add to them.  (Two workers can lose an increment.)        *)
CountsSound == NoneMadeUp /\ Divides /\ total_served_requests_ <= SumOf(served)
=============================================================================
