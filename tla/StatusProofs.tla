---------------------------- MODULE StatusProofs ----------------------------
(***************************************************************************)
(* Proofs about Status for any number of workers, codes, messages, rounds  *)
(* and any windows that divide each other: no rate is lost, nothing is     *)
(* made up, nothing is divided by zero, the total is never too large, and  *)
(* the windows hold the last rates.  Sums over sequences are reasoned      *)
(* about by induction on a set of numbers (Induct).                        *)
(***************************************************************************)
EXTENDS Status, FiniteSetTheorems, WellFoundedInduction, TLAPS

WorkerPCs == {"idle", "store", "sum", "count", "rate", "compare", "max"}
Place == [at : WorkerPCs, code : Codes \cup {0}, latency : Nat, loaded : Nat]

Counted ==
  /\ http_served_ \in [Codes -> Nat] /\ served \in [Codes -> Nat]
  /\ outgoing_rate_ \in Int /\ collected \in Int /\ timed \in Nat
  /\ fast_latency_count_ \in Nat
  /\ worker \in [Workers -> Place]
  /\ thread = [at |-> thread.at, rate |-> thread.rate, left |-> thread.left]
  /\ thread.rate \in Int

(* What a worker has loaded and will store is one less than what it has    *)
(* been handed, in whatever order the others store.                        *)
PendingInv ==
  \A w \in Workers : At(w, "store") =>
    worker[w].code \in Codes /\ worker[w].loaded + 1 <= served[worker[w].code]

(* Only ZeroCount makes the count smaller, and it follows the division.    *)
CountInv == Counted /\ PendingInv /\ NoneMadeUp /\ Divides /\ RatesConserved

Rated == {w \in Workers : At(w, "rate")}

-----------------------------------------------------------------------------
LEMMA FiniteRated ==
  /\ IsFiniteSet(Rated) /\ Cardinality(Rated) \in Nat
<1>1. Rated \subseteq Workers /\ IsFiniteSet(Workers)
  BY StatusAssumption DEF Rated
<1> QED BY <1>1, FS_Subset, FS_CardinalityType

LEMMA InitCounts == Init => CountInv
<1> SUFFICES ASSUME Init PROVE CountInv
  OBVIOUS
<1>1. Counted
  BY DEF Init, Counted, Place, WorkerPCs, Idle
<1>2. Rated = {}
  BY DEF Init, Rated, At, Idle
<1>3. NoneMadeUp
  <2>1. Cardinality({w \in Workers : At(w, "rate")}) = 0
    BY <1>2, FS_EmptySet DEF Rated
  <2>2. /\ \A c \in Codes : http_served_[c] = 0 /\ served[c] = 0
        /\ fast_latency_count_ = 0 /\ timed = 0
    BY DEF Init
  <2> QED BY <2>1, <2>2 DEF NoneMadeUp
<1>4. PendingInv
  <2>1. \A w \in Workers : worker[w].at = "idle"
    BY DEF Init, Idle
  <2> QED BY <2>1 DEF PendingInv, At
<1>5. Divides
  BY DEF Init, Divides, ThreadAt
<1>6. RatesConserved
  BY DEF Init, RatesConserved
<1> QED BY <1>1, <1>3, <1>4, <1>5, <1>6 DEF CountInv

-----------------------------------------------------------------------------
(* A worker.  Its own place changes, the others' stay.                     *)
LEMMA RatedStays ==
  ASSUME Counted, NEW w \in Workers, NEW r \in Place, worker' = [worker EXCEPT ![w] = r],
         worker[w].at # "rate", r.at # "rate"
  PROVE  Rated' = Rated
BY DEF Counted, Rated, At

(* Nothing is stored, and the worker goes to a place behind its store.     *)
LEMMA WorkerMoves ==
  ASSUME CountInv, NEW w \in Workers, NEW r \in Place, worker' = [worker EXCEPT ![w] = r],
         r.at # "store", OnlyWorker, UNCHANGED <<served, http_served_>>,
         outgoing_rate_' \in Int, timed' \in Nat, outgoing_rate_' - outgoing_rate_ = timed' - timed,
         fast_latency_count_' \in Nat, fast_latency_count_' >= fast_latency_count_,
         fast_latency_count_' <= timed' + Cardinality(Rated')
  PROVE  CountInv'
<1>1. Counted'
  BY DEF CountInv, Counted, OnlyWorker
<1>2. PendingInv'
  <2>1. \A v \in Workers : At(v, "store")' => At(v, "store") /\ worker'[v] = worker[v]
    BY DEF CountInv, Counted, At
  <2> QED BY <2>1 DEF CountInv, PendingInv
<1>3. NoneMadeUp' /\ Divides' /\ RatesConserved'
  BY DEF CountInv, Counted, NoneMadeUp, Divides, RatesConserved, OnlyWorker, ThreadAt, Rated
<1> QED BY <1>1, <1>2, <1>3 DEF CountInv

(* The usual case of it: neither rate nor count is concerned.              *)
LEMMA WorkerPasses ==
  ASSUME CountInv, NEW w \in Workers, NEW r \in Place, worker' = [worker EXCEPT ![w] = r],
         worker[w].at # "rate", r.at \notin {"store", "rate"}, OnlyWorker,
         UNCHANGED <<served, http_served_, outgoing_rate_, timed, fast_latency_count_>>
  PROVE  CountInv'
<1>1. Rated' = Rated
  BY RatedStays DEF CountInv
<1>2. /\ outgoing_rate_' - outgoing_rate_ = timed' - timed
      /\ outgoing_rate_' \in Int /\ timed' \in Nat /\ fast_latency_count_' \in Nat
      /\ fast_latency_count_' >= fast_latency_count_
  BY DEF CountInv, Counted
<1>3. fast_latency_count_' <= timed' + Cardinality(Rated')
  BY <1>1 DEF CountInv, NoneMadeUp, Rated
<1> QED BY <1>2, <1>3, WorkerMoves

LEMMA LoadStep ==
  ASSUME CountInv, NEW w \in Workers, Load(w)
  PROVE  CountInv'
<1>1. PICK c \in Codes, l \in Latencies \cup {0} :
        /\ worker' = [worker EXCEPT ![w] =
                        [at |-> "store", code |-> c, latency |-> l, loaded |-> http_served_[c]]]
        /\ served' = [served EXCEPT ![c] = @ + 1]
  BY DEF Load
<1> DEFINE r == [at |-> "store", code |-> c, latency |-> l, loaded |-> http_served_[c]]
<1>2. /\ r \in Place /\ r.at = "store" /\ r.code = c /\ r.loaded = http_served_[c]
      /\ Counted /\ worker' = [worker EXCEPT ![w] = r]
  BY <1>1, StatusAssumption DEF CountInv, Counted, Place, WorkerPCs
<1> HIDE DEF r
<1>3. UNCHANGED <<http_served_, outgoing_rate_, collected, timed, fast_latency_count_, thread>>
  BY DEF Load, OnlyWorker, counters
<1>4. \A d \in Codes : served'[d] >= served[d] /\ served'[d] \in Nat /\ served[d] \in Nat
  BY <1>1, <1>2 DEF Counted
<1>5. served'[c] = served[c] + 1 /\ http_served_[c] <= served[c] /\ http_served_[c] \in Nat
  BY <1>1, <1>2 DEF CountInv, Counted, NoneMadeUp
<1>6. Counted'
  BY <1>1, <1>2, <1>3 DEF Counted
<1>7. PendingInv'
  <2>1. ASSUME NEW v \in Workers, At(v, "store")'
        PROVE  worker'[v].code \in Codes /\ worker'[v].loaded + 1 <= served'[worker'[v].code]
    <3>1. CASE v = w
      <4>1. worker'[v] = r
        BY <1>2, <3>1 DEF Counted
      <4> QED BY <1>2, <1>4, <1>5, <4>1
    <3>2. CASE v # w
      <4>1. worker'[v] = worker[v] /\ At(v, "store") /\ worker[v].loaded \in Nat
        BY <1>2, <2>1, <3>2 DEF Counted, At, Place
      <4>2. worker[v].code \in Codes /\ worker[v].loaded + 1 <= served[worker[v].code]
        BY <4>1 DEF CountInv, PendingInv
      <4> QED BY <1>4, <4>1, <4>2
    <3> QED BY <3>1, <3>2
  <2> QED BY <2>1 DEF PendingInv
<1>8. Rated' = Rated
  BY <1>2, RatedStays DEF Load, At
<1>9. NoneMadeUp'
  <2>1. \A d \in Codes : http_served_'[d] <= served'[d]
    BY <1>2, <1>3, <1>4 DEF CountInv, NoneMadeUp, Counted
  <2>2. fast_latency_count_' <= timed' + Cardinality(Rated')
    BY <1>3, <1>8 DEF CountInv, NoneMadeUp, Rated
  <2> QED BY <2>1, <2>2 DEF NoneMadeUp, Rated
<1>10. Divides' /\ RatesConserved'
  BY <1>3 DEF CountInv, Divides, RatesConserved, ThreadAt
<1> QED BY <1>6, <1>7, <1>9, <1>10 DEF CountInv

LEMMA StoreStep ==
  ASSUME CountInv, NEW w \in Workers, Store(w)
  PROVE  CountInv'
<1> DEFINE c == worker[w].code
<1>1. /\ At(w, "store") /\ Counted
      /\ http_served_' = [http_served_ EXCEPT ![c] = worker[w].loaded + 1]
      /\ UNCHANGED <<outgoing_rate_, collected, timed, fast_latency_count_, served, thread>>
  BY DEF Store, OnlyWorker, CountInv
<1>2. c \in Codes /\ worker[w].loaded + 1 <= served[c] /\ worker[w].loaded \in Nat
  BY <1>1 DEF CountInv, PendingInv, Counted, Place
<1>3. PICK r \in Place : worker' = [worker EXCEPT ![w] = r] /\ r.at \in {"idle", "sum"}
  <2>1. CASE worker' = [worker EXCEPT ![w] = Idle]
    <3>1. Idle \in Place /\ Idle.at = "idle"
      BY DEF Idle, Place, WorkerPCs
    <3> QED BY <2>1, <3>1
  <2>2. CASE Move(w, "sum")
    <3> DEFINE r == [worker[w] EXCEPT !.at = "sum"]
    <3>1. r \in Place /\ r.at = "sum"
      BY <1>1 DEF Counted, Place, WorkerPCs
    <3>2. worker' = [worker EXCEPT ![w] = r]
      BY <2>2 DEF Move
    <3> QED BY <3>1, <3>2
  <2> QED BY <2>1, <2>2 DEF Store
<1>4. Rated' = Rated
  BY <1>1, <1>3, RatedStays DEF At
<1>5. Counted'
  BY <1>1, <1>2, <1>3 DEF Counted
<1>6. PendingInv'
  <2>1. \A v \in Workers : At(v, "store")' => At(v, "store") /\ worker'[v] = worker[v]
    BY <1>1, <1>3 DEF Counted, At
  <2> QED BY <1>1, <2>1 DEF CountInv, PendingInv
<1>7. NoneMadeUp'
  <2>1. \A d \in Codes : http_served_'[d] <= served'[d]
    BY <1>1, <1>2 DEF CountInv, NoneMadeUp, Counted
  <2>2. fast_latency_count_' <= timed' + Cardinality(Rated')
    BY <1>1, <1>4 DEF CountInv, NoneMadeUp, Rated
  <2> QED BY <2>1, <2>2 DEF NoneMadeUp, Rated
<1>8. Divides' /\ RatesConserved'
  BY <1>1 DEF CountInv, Divides, RatesConserved, ThreadAt
<1> QED BY <1>5, <1>6, <1>7, <1>8 DEF CountInv

(* Where a worker's Move leads.                                            *)
LEMMA Moved ==
  ASSUME Counted, NEW w \in Workers, NEW a \in WorkerPCs, Move(w, a)
  PROVE  \E r \in Place : worker' = [worker EXCEPT ![w] = r] /\ r.at = a
<1> DEFINE r == [worker[w] EXCEPT !.at = a]
<1>1. r \in Place /\ r.at = a
  BY DEF Counted, Place
<1>2. worker' = [worker EXCEPT ![w] = r]
  BY DEF Move
<1> QED BY <1>1, <1>2

LEMMA IdlePlace == Idle \in Place /\ Idle.at = "idle"
BY DEF Idle, Place, WorkerPCs

LEMMA PassingStep ==
  ASSUME CountInv, NEW w \in Workers, AddLatency(w) \/ CompareMax(w) \/ SetMax(w)
  PROVE  CountInv'
<1>1. /\ Counted /\ OnlyWorker /\ worker[w].at # "rate"
      /\ UNCHANGED <<served, http_served_, outgoing_rate_, timed, fast_latency_count_>>
  BY DEF AddLatency, CompareMax, SetMax, CountInv, At, counters
<1>2. PICK r \in Place :
        worker' = [worker EXCEPT ![w] = r] /\ r.at \notin {"store", "rate"}
  <2>1. CASE Move(w, "count") \/ Move(w, "max")
    BY <1>1, <2>1, Moved DEF WorkerPCs
  <2>2. CASE worker' = [worker EXCEPT ![w] = Idle]
    BY <2>2, IdlePlace
  <2> QED BY <2>1, <2>2 DEF AddLatency, CompareMax, SetMax
<1> QED BY <1>1, <1>2, WorkerPasses

(* A worker counts its latency before its rate: it is among Rated between. *)
LEMMA CountLatencyStep ==
  ASSUME CountInv, NEW w \in Workers, CountLatency(w)
  PROVE  CountInv'
<1>1. /\ Counted /\ OnlyWorker /\ worker[w].at = "count"
      /\ fast_latency_count_' = fast_latency_count_ + 1
      /\ UNCHANGED <<served, http_served_, outgoing_rate_, timed>>
  BY DEF CountLatency, CountInv, At
<1>2. PICK r \in Place : worker' = [worker EXCEPT ![w] = r] /\ r.at = "rate"
  BY <1>1, Moved DEF CountLatency, WorkerPCs
<1>3. Rated' = Rated \cup {w} /\ w \notin Rated
  BY <1>1, <1>2 DEF Counted, Rated, At
<1>4. Cardinality(Rated') = Cardinality(Rated) + 1 /\ Cardinality(Rated) \in Nat
  BY <1>3, FiniteRated, FS_AddElement
<1>5. /\ outgoing_rate_' - outgoing_rate_ = timed' - timed
      /\ outgoing_rate_' \in Int /\ timed' \in Nat /\ fast_latency_count_' \in Nat
      /\ fast_latency_count_' >= fast_latency_count_
  BY <1>1 DEF Counted
<1>6. fast_latency_count_' <= timed' + Cardinality(Rated')
  BY <1>1, <1>4 DEF CountInv, Counted, NoneMadeUp, Rated
<1> QED BY <1>1, <1>2, <1>5, <1>6, WorkerMoves

LEMMA CountRateStep ==
  ASSUME CountInv, NEW w \in Workers, CountRate(w)
  PROVE  CountInv'
<1>1. /\ Counted /\ OnlyWorker /\ worker[w].at = "rate"
      /\ outgoing_rate_' = outgoing_rate_ + 1 /\ timed' = timed + 1
      /\ UNCHANGED <<served, http_served_, fast_latency_count_>>
  BY DEF CountRate, CountInv, At
<1>2. PICK r \in Place : worker' = [worker EXCEPT ![w] = r] /\ r.at = "compare"
  BY <1>1, Moved DEF CountRate, WorkerPCs
<1>3. Rated' = Rated \ {w} /\ w \in Rated
  BY <1>1, <1>2 DEF Counted, Rated, At
<1>4. Cardinality(Rated') = Cardinality(Rated) - 1 /\ Cardinality(Rated) \in Nat
  BY <1>3, FiniteRated, FS_RemoveElement
<1>5. /\ outgoing_rate_' - outgoing_rate_ = timed' - timed
      /\ outgoing_rate_' \in Int /\ timed' \in Nat /\ fast_latency_count_' \in Nat
      /\ fast_latency_count_' >= fast_latency_count_
  BY <1>1 DEF Counted
<1>6. fast_latency_count_' <= timed' + Cardinality(Rated')
  BY <1>1, <1>4 DEF CountInv, Counted, NoneMadeUp, Rated
<1> QED BY <1>1, <1>2, <1>5, <1>6, WorkerMoves

-----------------------------------------------------------------------------
(* Run().  Only TestLatency goes to the division, and only when both are   *)
(* not zero.                                                               *)
LEMMA RoundMoves ==
  ASSUME CountInv, OnlyThread, UNCHANGED http_served_,
         NEW t, thread' = t, t = [at |-> t.at, rate |-> t.rate, left |-> t.left], t.rate \in Int,
         outgoing_rate_' \in Int, collected' \in Int,
         outgoing_rate_' + collected' = outgoing_rate_ + collected,
         fast_latency_count_' \in {fast_latency_count_, 0},
         t.at = "average" => fast_latency_count_' > 0
  PROVE  CountInv'
<1>1. Counted'
  BY DEF CountInv, Counted, OnlyThread
<1>2. PendingInv'
  BY DEF CountInv, PendingInv, OnlyThread, At
<1>3. Rated' = Rated
  BY DEF OnlyThread, Rated, At
<1>4. NoneMadeUp'
  <2>1. fast_latency_count_' <= timed' + Cardinality(Rated')
    BY <1>3, FiniteRated DEF CountInv, Counted, NoneMadeUp, Rated, OnlyThread
  <2> QED BY <2>1 DEF CountInv, NoneMadeUp, OnlyThread, Rated
<1>5. Divides' /\ RatesConserved'
  BY DEF CountInv, Counted, Divides, RatesConserved, OnlyThread, ThreadAt
<1> QED BY <1>1, <1>2, <1>4, <1>5 DEF CountInv

LEMMA RoundStep ==
  ASSUME CountInv, Round
  PROVE  CountInv'
<1>1. Counted /\ OnlyThread /\ UNCHANGED http_served_
  BY DEF CountInv, Round, ReadRate, TakeRate, CalculateRates, TestLatency, AverageLatency,
         ZeroSum, ZeroCount, ClearTotal, AddTotal, counters
<1>2. /\ thread = [at |-> thread.at, rate |-> thread.rate, left |-> thread.left]
      /\ thread.rate \in Int /\ outgoing_rate_ \in Int /\ collected \in Int
      /\ fast_latency_count_ \in Nat
  BY <1>1 DEF Counted
<1>3. CASE ReadRate
  <2>1. /\ thread' = [thread EXCEPT !.at = "subtract", !.rate = outgoing_rate_]
        /\ UNCHANGED <<outgoing_rate_, collected, fast_latency_count_>>
    BY <1>3 DEF ReadRate, counters
  <2>2. thread' = [at |-> "subtract", rate |-> outgoing_rate_, left |-> thread.left]
    BY <1>2, <2>1
  <2> QED BY <1>1, <1>2, <2>1, <2>2, RoundMoves
<1>4. CASE TakeRate
  <2>1. /\ thread' = [thread EXCEPT !.at = "rates"]
        /\ outgoing_rate_' = outgoing_rate_ - thread.rate /\ collected' = collected + thread.rate
        /\ UNCHANGED fast_latency_count_
    BY <1>4 DEF TakeRate
  <2>2. thread' = [at |-> "rates", rate |-> thread.rate, left |-> thread.left]
    BY <1>2, <2>1
  <2>3. /\ outgoing_rate_' \in Int /\ collected' \in Int
        /\ outgoing_rate_' + collected' = outgoing_rate_ + collected
    BY <1>2, <2>1
  <2> QED BY <1>1, <1>2, <2>1, <2>2, <2>3, RoundMoves
<1>5. CASE CalculateRates \/ ZeroSum \/ ClearTotal \/ AddTotal \/ TestLatency \/ AverageLatency
  <2>1. /\ UNCHANGED <<outgoing_rate_, collected, fast_latency_count_>>
        /\ \E a \in {"test", "average", "total", "zero_sum", "zero_count", "add", "rate"} : \E l :
             /\ thread' = [thread EXCEPT !.at = a, !.left = l]
             /\ a = "average" => fast_latency_count_ # 0
    <3>1. UNCHANGED <<outgoing_rate_, collected, fast_latency_count_>>
      BY <1>5 DEF CalculateRates, ZeroSum, ClearTotal, AddTotal, TestLatency, AverageLatency,
                  counters
    <3>2. ASSUME NEW a, thread' = [thread EXCEPT !.at = a]
          PROVE  thread' = [thread EXCEPT !.at = a, !.left = thread.left]
      BY <1>2, <3>2
    <3>3. CASE \E a \in {"test", "zero_sum", "zero_count", "total", "rate"} :
                 thread' = [thread EXCEPT !.at = a]
      BY <3>1, <3>2, <3>3
    <3>4. CASE TestLatency
      <4>1. PICK a \in {"average", "total"} :
              /\ thread' = [thread EXCEPT !.at = a]
              /\ a = "average" => fast_latency_count_ # 0
        BY <3>4 DEF TestLatency
      <4> QED BY <3>1, <3>2, <4>1
    <3>5. CASE \E l : thread' = [thread EXCEPT !.at = "add", !.left = l]
      BY <3>1, <3>5
    <3>6. CASE AddTotal /\ thread.at = "add" /\ thread' = [thread EXCEPT !.left = Tail(@)]
      <4>1. thread' = [thread EXCEPT !.at = "add", !.left = Tail(thread.left)]
        BY <1>2, <3>6
      <4> QED BY <3>1, <4>1
    <3> QED BY <1>5, <3>3, <3>4, <3>5, <3>6
        DEF CalculateRates, ZeroSum, ClearTotal, AddTotal, AverageLatency, ThreadAt
  <2>2. PICK a, l :
          /\ thread' = [thread EXCEPT !.at = a, !.left = l]
          /\ a = "average" => fast_latency_count_ # 0
    BY <2>1
  <2>3. thread' = [at |-> a, rate |-> thread.rate, left |-> l]
    BY <1>2, <2>2
  <2>4. /\ outgoing_rate_' \in Int /\ collected' \in Int
        /\ outgoing_rate_' + collected' = outgoing_rate_ + collected
        /\ fast_latency_count_' \in {fast_latency_count_, 0}
        /\ a = "average" => fast_latency_count_' > 0
    BY <1>2, <2>1, <2>2
  <2> QED BY <1>1, <1>2, <2>3, <2>4, RoundMoves
<1>6. CASE ZeroCount
  <2>1. /\ thread' = [thread EXCEPT !.at = "total"] /\ fast_latency_count_' = 0
        /\ UNCHANGED <<outgoing_rate_, collected>>
    BY <1>6 DEF ZeroCount
  <2>2. thread' = [at |-> "total", rate |-> thread.rate, left |-> thread.left]
    BY <1>2, <2>1
  <2> QED BY <1>1, <1>2, <2>1, <2>2, RoundMoves
<1> QED BY <1>3, <1>4, <1>5, <1>6 DEF Round

-----------------------------------------------------------------------------
LEMMA CountStep == CountInv /\ [Next]_vars => CountInv'
<1> SUFFICES ASSUME CountInv, [Next]_vars PROVE CountInv'
  OBVIOUS
<1>1. CASE \E w \in Workers : ServedRequest(w)
  BY <1>1, LoadStep, StoreStep, PassingStep, CountLatencyStep, CountRateStep DEF ServedRequest
<1>2. CASE UNCHANGED vars
  <2>1. /\ UNCHANGED <<http_served_, served, outgoing_rate_, collected, timed, fast_latency_count_,
                       worker, thread>>
    BY <1>2 DEF vars, counters
  <2> QED BY <2>1 DEF CountInv, Counted, PendingInv, NoneMadeUp, Divides, RatesConserved, At, ThreadAt
<1> QED BY <1>1, <1>2, RoundStep DEF Next, Done

(* The invariant of the counters.                                          *)
THEOREM CountInvariance == Spec => []CountInv
<1>1. Init => CountInv
  BY InitCounts
<1>2. CountInv /\ [Next]_vars => CountInv'
  BY CountStep
<1> QED BY <1>1, <1>2, PTL DEF Spec

(* RatesConserved for any number of workers and rounds.                    *)
THEOREM NoRateLost == Spec => []RatesConserved
<1>1. CountInv => RatesConserved
  BY DEF CountInv
<1> QED BY <1>1, CountInvariance, PTL

-----------------------------------------------------------------------------
(* Remainders, as the positions of the windows need them.                  *)
LEMMA ModIs ==
  ASSUME NEW n \in Int, NEW w \in Nat \ {0}
  PROVE  \E a \in Int, r \in 0 .. w - 1 : n = w * a + r /\ n % w = r
<1>1. n % w \in 0 .. w - 1
  OBVIOUS
<1>2. n \div w \in Int
  OBVIOUS
<1>3. n % w = n - w * (n \div w)
  OBVIOUS
<1> DEFINE q == n \div w
           r == n % w
<1>4. q \in Int /\ r \in 0 .. w - 1 /\ r = n - w * q /\ n % w = r
  BY <1>1, <1>2, <1>3
<1> HIDE DEF q, r
<1>5. n = w * q + r
  BY <1>4
<1> QED BY <1>4, <1>5

LEMMA Multiples ==
  ASSUME NEW w \in Nat \ {0}, NEW a \in Int, NEW b \in Int, NEW r \in 0 .. w - 1, NEW s \in 0 .. w - 1,
         w * a + r = w * b + s
  PROVE  a = b /\ r = s
<1>1. w * (a - b) = s - r /\ s - r < w /\ s - r > -w
  OBVIOUS
<1>2. CASE a - b >= 1
  <2>1. w * (a - b) >= w
    BY <1>2
  <2> QED BY <1>1, <2>1
<1>3. CASE a - b <= -1
  <2>1. w * (a - b) <= -w
    BY <1>3
  <2> QED BY <1>1, <2>1
<1> QED BY <1>1, <1>2, <1>3

LEMMA ModUnique ==
  ASSUME NEW w \in Nat \ {0}, NEW a \in Int, NEW r \in 0 .. w - 1
  PROVE  (w * a + r) % w = r
<1> DEFINE n == w * a + r
<1>1. n \in Int
  OBVIOUS
<1>2. PICK b \in Int, s \in 0 .. w - 1 : n = w * b + s /\ n % w = s
  BY <1>1, ModIs
<1>3. s = r
  BY <1>2, Multiples
<1> QED BY <1>2, <1>3

LEMMA ModNext ==
  ASSUME NEW n \in Nat, NEW w \in Nat \ {0}
  PROVE  (n + 1) % w = IF (n % w) + 1 >= w THEN 0 ELSE (n % w) + 1
<1>0. n \in Int
  OBVIOUS
<1>1. PICK a \in Int, r \in 0 .. w - 1 : n = w * a + r /\ n % w = r
  BY <1>0, ModIs
<1>2. CASE r + 1 >= w
  <2>1. n + 1 = w * (a + 1) + 0
    BY <1>1, <1>2
  <2>2. (w * (a + 1) + 0) % w = 0
    BY <1>1, ModUnique
  <2> QED BY <1>1, <1>2, <2>1, <2>2
<1>3. CASE r + 1 < w
  <2>1. n + 1 = w * a + (r + 1)
    BY <1>1
  <2>2. (w * a + (r + 1)) % w = r + 1
    BY <1>1, <1>3, ModUnique
  <2> QED BY <1>1, <1>3, <2>1, <2>2
<1> QED BY <1>1, <1>2, <1>3

LEMMA ModOfMod ==
  ASSUME NEW n \in Nat, NEW w \in Nat \ {0}, NEW v \in Nat \ {0}, v % w = 0
  PROVE  (n % v) % w = n % w
<1>1. PICK m \in Int, z \in 0 .. w - 1 : v = w * m + z /\ v % w = z
  BY ModIs
<1>2. PICK a \in Int, r \in 0 .. v - 1 : n = v * a + r /\ n % v = r
  BY ModIs
<1>3. PICK b \in Int, s \in 0 .. w - 1 : r = w * b + s /\ r % w = s
  BY ModIs
<1>4. v = w * m
  BY <1>1
<1>5. v * a = w * (m * a) /\ m * a \in Int
  BY <1>4
<1>6. w * (m * a) + w * b = w * (m * a + b) /\ m * a + b \in Int
  BY <1>5
<1>7. n = w * (m * a + b) + s
  BY <1>2, <1>3, <1>5, <1>6
<1>8. (w * (m * a + b) + s) % w = s
  BY <1>6, ModUnique
<1> QED BY <1>2, <1>3, <1>7, <1>8

LEMMA ModDiffers ==
  ASSUME NEW n \in Nat, NEW i \in Nat, NEW w \in Nat \ {0}, i < n, n - i < w
  PROVE  i % w # n % w
<1> SUFFICES ASSUME i % w = n % w PROVE FALSE
  OBVIOUS
<1>0. n \in Int /\ i \in Int
  OBVIOUS
<1>1. PICK a \in Int, r \in 0 .. w - 1 : n = w * a + r /\ n % w = r
  BY <1>0, ModIs
<1>2. PICK b \in Int, s \in 0 .. w - 1 : i = w * b + s /\ i % w = s
  BY <1>0, ModIs
<1>3. w * a - w * b = w * (a - b) /\ w * (a - b) = n - i
  BY <1>1, <1>2
<1>4. CASE a - b >= 1
  <2>1. w * (a - b) >= w
    BY <1>4
  <2> QED BY <1>3, <2>1
<1>5. CASE a - b <= 0
  <2>1. w * (a - b) <= 0
    BY <1>5
  <2> QED BY <1>3, <2>1
<1> QED BY <1>4, <1>5
LEMMA SmallMod ==
  ASSUME NEW w \in Nat \ {0}, NEW r \in 0 .. w - 1
  PROVE  r % w = r
<1>1. (w * 0 + r) % w = r
  BY ModUnique
<1> QED BY <1>1

LEMMA WindowSizes ==
  /\ \A k \in 1 .. 3 : Windows[k] \in Nat \ {0} /\ Windows[3] % Windows[k] = 0
<1>1. \A k \in 1 .. 3 : Windows[k] \in Nat \ {0}
  BY StatusAssumption
<1>2. \A w \in Nat \ {0} : w % w = 0 /\ 0 % w = 0
  <2> TAKE w \in Nat \ {0}
  <2>1. w = w * 1 + 0 /\ 0 = w * 0 + 0 /\ 0 \in 0 .. w - 1
    OBVIOUS
  <2>2. (w * 1 + 0) % w = 0 /\ (w * 0 + 0) % w = 0
    BY <2>1, ModUnique
  <2> QED BY <2>1, <2>2
<1>3. (Windows[3] % Windows[2]) % Windows[1] = Windows[3] % Windows[1]
  <2>1. /\ Windows[3] \in Nat /\ Windows[1] \in Nat \ {0} /\ Windows[2] \in Nat \ {0}
        /\ Windows[2] % Windows[1] = 0
    BY <1>1, StatusAssumption
  <2> QED BY <2>1, ModOfMod
<1>4. Windows[3] % Windows[1] = 0
  BY <1>1, <1>2, <1>3, StatusAssumption
<1>5. \A k \in 1 .. 3 : k = 1 \/ k = 2 \/ k = 3
  OBVIOUS
<1> QED BY <1>1, <1>2, <1>4, <1>5, StatusAssumption

(* One more position is kept: the earlier ones keep their numbers.         *)
LEMMA KeptOne ==
  ASSUME NEW n \in Nat, NEW kept \in SUBSET (1 .. n)
  PROVE  LET more == kept \cup {n + 1}
         IN  /\ Cardinality(kept) \in Nat /\ Cardinality(more) = Cardinality(kept) + 1
             /\ Nth(more, n + 1) = Cardinality(more)
             /\ \A i \in kept : /\ Nth(more, i) = Nth(kept, i)
                                /\ Nth(kept, i) \in 1 .. Cardinality(kept)
<1> DEFINE more == kept \cup {n + 1}
<1>1. IsFiniteSet(kept) /\ n + 1 \notin kept
  <2>1. IsFiniteSet(1 .. n)
    BY FS_Interval
  <2>2. IsFiniteSet(kept)
    BY <2>1, FS_Subset
  <2>3. n + 1 \notin kept
    OBVIOUS
  <2> QED BY <2>2, <2>3
<1>2. Cardinality(kept) \in Nat /\ Cardinality(more) = Cardinality(kept) + 1
  BY <1>1, FS_CardinalityType, FS_AddElement
<1>3. {j \in more : j <= n + 1} = more
  <2>1. \A j \in more : j <= n + 1
    OBVIOUS
  <2> QED BY <2>1
<1>4. ASSUME NEW i \in kept
      PROVE  Nth(more, i) = Nth(kept, i) /\ Nth(kept, i) \in 1 .. Cardinality(kept)
  <2> DEFINE a == {j \in kept : j <= i}
  <2>1. {j \in more : j <= i} = a
    OBVIOUS
  <2>2. a \subseteq kept /\ i \in a
    OBVIOUS
  <2> HIDE DEF a
  <2>3. IsFiniteSet(a) /\ Cardinality(a) <= Cardinality(kept) /\ Cardinality(a) \in Nat
    BY <1>1, <2>2, FS_Subset, FS_CardinalityType
  <2>4. Cardinality(a) # 0
    BY <2>2, <2>3, FS_EmptySet
  <2>5. Nth(kept, i) = Cardinality(a) /\ Nth(more, i) = Cardinality(a)
    BY <2>1 DEF Nth, a
  <2> QED BY <1>2, <2>3, <2>4, <2>5
<1>5. Nth(more, n + 1) = Cardinality(more)
  BY <1>3 DEF Nth
<1> QED BY <1>2, <1>4, <1>5

(* The window after one more: it grows, or its oldest place is written.    *)
Entered(window, size, p, v) ==
  IF Len(window) < size THEN Append(window, v) ELSE [window EXCEPT ![(p % size) + 1] = v]

(* What entering v as number a + 1 makes of a window.                       *)
EnteredAt(new, window, size, a, v) ==
  /\ new \in Seq(Int) /\ Len(new) = IF a + 1 < size THEN a + 1 ELSE size
  /\ new[(a % size) + 1] = v
  /\ \A b \in 0 .. a - 1 : a - b < size => new[(b % size) + 1] = window[(b % size) + 1]

LEMMA EntersAt ==
  ASSUME NEW a \in Nat, NEW size \in Nat \ {0}, NEW window \in Seq(Int), NEW v \in Int,
         Len(window) = (IF a < size THEN a ELSE size), NEW p \in Nat, p % size = a % size
  PROVE  EnteredAt(Entered(window, size, p, v), window, size, a, v)
<1> DEFINE new == Entered(window, size, p, v)
<1>1. CASE a < size
  <2>1. Len(window) = a /\ new = Append(window, v)
    BY <1>1 DEF Entered
  <2>2. /\ new \in Seq(Int) /\ Len(new) = a + 1 /\ new[a + 1] = v
        /\ \A j \in 1 .. a : new[j] = window[j]
    BY <2>1
  <2>3. a \in 0 .. size - 1
    BY <1>1
  <2>4. a % size = a
    BY <2>3, SmallMod
  <2>5. ASSUME NEW b \in 0 .. a - 1
        PROVE  new[(b % size) + 1] = window[(b % size) + 1]
    <3>1. b \in 0 .. size - 1 /\ b + 1 \in 1 .. a
      BY <1>1
    <3>2. b % size = b
      BY <3>1, SmallMod
    <3> QED BY <2>2, <3>1, <3>2
  <2>6. Len(new) = IF a + 1 < size THEN a + 1 ELSE size
    BY <1>1, <2>2
  <2> HIDE DEF new
  <2> QED BY <2>2, <2>4, <2>5, <2>6 DEF new, EnteredAt
<1>2. CASE a >= size
  <2> DEFINE q == (a % size) + 1
  <2>1. Len(window) = size /\ new = [window EXCEPT ![q] = v]
    <3>1. Len(window) = size /\ ~ (Len(window) < size)
      BY <1>2
    <3> QED BY <3>1 DEF Entered
  <2>2. q \in 1 .. size
    OBVIOUS
  <2>3. ASSUME NEW b \in 0 .. a - 1, a - b < size
        PROVE  (b % size) + 1 \in 1 .. size /\ (b % size) + 1 # q
    <3>1. b \in Nat /\ b < a
      OBVIOUS
    <3>2. b % size # a % size
      BY <2>3, <3>1, ModDiffers
    <3>3. b % size \in 0 .. size - 1 /\ a % size \in 0 .. size - 1
      BY <3>1
    <3> DEFINE c == b % size
               d == a % size
    <3> HIDE DEF c, d
    <3>4. c \in 0 .. size - 1 /\ d \in 0 .. size - 1 /\ c # d
      BY <3>2, <3>3 DEF c, d
    <3>5. c + 1 \in 1 .. size /\ c + 1 # d + 1
      BY <3>4
    <3> QED BY <3>5 DEF c, d, q
  <2> HIDE DEF q
  <2>4. /\ new \in Seq(Int) /\ Len(new) = size /\ new[q] = v
        /\ \A j \in 1 .. size : j # q => new[j] = window[j]
    BY <2>1, <2>2
  <2>5. Len(new) = IF a + 1 < size THEN a + 1 ELSE size
    BY <1>2, <2>4
  <2> HIDE DEF new
  <2>6. \A b \in 0 .. a - 1 : a - b < size => new[(b % size) + 1] = window[(b % size) + 1]
    BY <2>3, <2>4
  <2>7. new[(a % size) + 1] = v
    BY <2>4 DEF q
  <2> QED BY <2>4, <2>5, <2>6, <2>7 DEF new, EnteredAt
<1> QED BY <1>1, <1>2

LEMMA EntersLast ==
  ASSUME NEW n \in Nat, NEW kept \in SUBSET (1 .. n), NEW size \in Nat \ {0}, NEW s \in Seq(Int),
         n + 1 \in DOMAIN s, NEW window \in Seq(Int), HoldsLast(window, size, s, kept),
         NEW p \in Nat, p % size = Cardinality(kept) % size
  PROVE  /\ HoldsLast(Entered(window, size, p, s[n + 1]), size, s, kept \cup {n + 1})
         /\ Entered(window, size, p, s[n + 1]) \in Seq(Int)
<1> DEFINE more == kept \cup {n + 1}
           a == Cardinality(kept)
           new == Entered(window, size, p, s[n + 1])
<1>1. /\ a \in Nat /\ Cardinality(more) = a + 1 /\ Nth(more, n + 1) = a + 1
      /\ \A i \in kept : Nth(more, i) = Nth(kept, i) /\ Nth(kept, i) \in 1 .. a
  BY KeptOne
<1>2. /\ Len(window) = IF a < size THEN a ELSE size
      /\ \A i \in kept :
           a - Nth(kept, i) < size => window[((Nth(kept, i) - 1) % size) + 1] = s[i]
  BY DEF HoldsLast
<1>3. /\ new \in Seq(Int) /\ Len(new) = IF a + 1 < size THEN a + 1 ELSE size
      /\ new[(a % size) + 1] = s[n + 1]
      /\ \A b \in 0 .. a - 1 :
           a - b < size => new[(b % size) + 1] = window[(b % size) + 1]
  <2>1. s[n + 1] \in Int
    OBVIOUS
  <2>2. a \in Nat /\ Len(window) = (IF a < size THEN a ELSE size) /\ p % size = a % size
    BY <1>1, <1>2
  <2> DEFINE v == s[n + 1]
  <2>3. v \in Int /\ new = Entered(window, size, p, v)
    BY <2>1
  <2> HIDE DEF a, v, new
  <2>4. EnteredAt(Entered(window, size, p, v), window, size, a, v)
    BY <2>2, <2>3, EntersAt
  <2> QED BY <2>3, <2>4 DEF v, EnteredAt
<1>4. \A i \in more : i = n + 1 \/ i \in kept
  OBVIOUS
<1> HIDE DEF new, more, a
<1>5. ASSUME NEW i \in more, Cardinality(more) - Nth(more, i) < size
      PROVE  new[((Nth(more, i) - 1) % size) + 1] = s[i]
  <2>1. CASE i = n + 1
    <3>1. Nth(more, i) - 1 = a
      BY <1>1, <2>1
    <3> QED BY <1>3, <2>1, <3>1
  <2>2. CASE i \in kept
    <3>1. Nth(more, i) = Nth(kept, i) /\ Nth(kept, i) \in 1 .. a
      BY <1>1, <2>2
    <3> DEFINE b == Nth(kept, i) - 1
    <3>2. b \in 0 .. a - 1 /\ a - b < size /\ a - Nth(kept, i) < size /\ Nth(more, i) - 1 = b
      BY <1>1, <1>5, <3>1
    <3>3. new[(b % size) + 1] = window[(b % size) + 1]
      BY <1>3, <3>2
    <3>4. window[(b % size) + 1] = s[i]
      BY <1>2, <2>2, <3>2
    <3> QED BY <3>2, <3>3, <3>4
  <2> QED BY <1>4, <2>1, <2>2
<1>6. Len(new) = IF Cardinality(more) < size THEN Cardinality(more) ELSE size
  BY <1>1, <1>3
<1>7. HoldsLast(new, size, s, more)
  BY <1>5, <1>6 DEF HoldsLast
<1> QED BY <1>3, <1>7 DEF new, more
(* What the invariant says of a history whose kept positions are known.    *)
WellKept(h, s, kept) ==
  /\ RecentOnly(h, s, kept)
  /\ h.history \in [1 .. 3 -> Seq(Int)]
  /\ h.position = Cardinality(kept) % Windows[3]

LEMMA RecordsOne ==
  ASSUME NEW n \in Nat, NEW kept \in SUBSET (1 .. n), NEW s \in Seq(Int), n + 1 \in DOMAIN s,
         NEW h, WellKept(h, s, kept),
         NEW g, g.history = Recorded(h, s[n + 1]), g.position = NextPosition(h.position)
  PROVE  WellKept(g, s, kept \cup {n + 1})
<1> DEFINE more == kept \cup {n + 1}
           p == h.position
           v == s[n + 1]
<1>1. Cardinality(kept) \in Nat /\ Cardinality(more) = Cardinality(kept) + 1
  BY KeptOne
<1>2. /\ \A k \in 1 .. 3 : Windows[k] \in Nat \ {0} /\ Windows[3] % Windows[k] = 0
      /\ Windows[3] \in Nat \ {0}
  BY WindowSizes
<1>3. p = Cardinality(kept) % Windows[3] /\ p \in 0 .. Windows[3] - 1 /\ p \in Nat
  <2>1. \A a \in Nat, w \in Nat \ {0} : a % w \in 0 .. w - 1
    OBVIOUS
  <2>2. p = Cardinality(kept) % Windows[3]
    BY DEF WellKept
  <2>3. p \in 0 .. Windows[3] - 1
    BY <1>1, <1>2, <2>1, <2>2
  <2> QED BY <1>2, <2>2, <2>3
<1>4. g.position = Cardinality(more) % Windows[3]
  <2>1. (Cardinality(kept) + 1) % Windows[3]
          = IF (Cardinality(kept) % Windows[3]) + 1 >= Windows[3] THEN 0
            ELSE (Cardinality(kept) % Windows[3]) + 1
    BY <1>1, <1>2, ModNext
  <2> QED BY <1>1, <1>3, <2>1 DEF NextPosition
<1>5. ASSUME NEW k \in 1 .. 3
      PROVE  /\ HoldsLast(g.history[k], Windows[k], s, more)
             /\ g.history[k] \in Seq(Int)
  <2> DEFINE w == h.history[k]
             size == Windows[k]
  <2>1. w \in Seq(Int) /\ HoldsLast(w, size, s, kept) /\ size \in Nat \ {0}
    BY <1>2 DEF WellKept, RecentOnly
  <2>2. p % size = Cardinality(kept) % size
    <3>1. (Cardinality(kept) % Windows[3]) % size = Cardinality(kept) % size
      BY <1>1, <1>2, ModOfMod
    <3> QED BY <1>3, <3>1
  <2>3. HoldsLast(Entered(w, size, p, v), size, s, more) /\ Entered(w, size, p, v) \in Seq(Int)
    <3> HIDE DEF w, size, p
    <3> QED BY <1>3, <2>1, <2>2, EntersLast
  <2>4. g.history[k] = Entered(w, size, p, v)
    <3>1. k = 3 => p % size = p
      BY <1>2, <1>3, SmallMod
    <3>2. g.history[k] = IF Len(w) < size THEN Append(w, v)
                         ELSE [w EXCEPT ![(IF k = 3 THEN p ELSE p % size) + 1] = v]
      BY DEF Recorded
    <3>3. (IF k = 3 THEN p ELSE p % size) = p % size
      BY <3>1
    <3> HIDE DEF w, size, p
    <3> QED BY <3>2, <3>3 DEF Entered
  <2> QED BY <2>3, <2>4
<1>6. g.history \in [1 .. 3 -> Seq(Int)]
  <2>1. g.history = [k \in 1 .. 3 |-> g.history[k]]
    BY DEF Recorded
  <2> QED BY <1>5, <2>1
<1> QED BY <1>4, <1>5, <1>6 DEF WellKept, RecentOnly

(* A rate that is not averaged yet leaves the windows as they are.         *)
LEMMA TakesOne ==
  ASSUME NEW s \in Seq(Int), NEW kept \in SUBSET (1 .. Len(s)), NEW e \in Int,
         NEW h, WellKept(h, s, kept)
  PROVE  WellKept(h, Append(s, e), kept)
<1>1. \A i \in kept : Append(s, e)[i] = s[i]
  OBVIOUS
<1>2. \A k \in 1 .. 3 : HoldsLast(h.history[k], Windows[k], Append(s, e), kept)
  BY <1>1 DEF WellKept, RecentOnly, HoldsLast
<1> QED BY <1>2 DEF WellKept, RecentOnly

-----------------------------------------------------------------------------
(* The rate that Run() holds is the last one taken until it is averaged.   *)
WindowInv ==
  /\ rates \in Seq(Int)
  /\ ThreadAt("rates") => rates # << >> /\ rates[Len(rates)] = thread.rate
  /\ WellKept(sustained, rates, Averaged)
  /\ WellKept(attained, rates, Attained)

LEMMA InitWindows == Init => WindowInv
<1> SUFFICES ASSUME Init PROVE WindowInv
  OBVIOUS
<1>1. rates = << >> /\ ~ ThreadAt("rates") /\ Len(rates) = 0
  BY DEF Init, ThreadAt
<1>2. Averaged = {} /\ Attained = {}
  BY <1>1 DEF Averaged, Attained
<1>3. WellKept(NoHistory, rates, {})
  <2>1. Cardinality({}) = 0
    BY FS_EmptySet
  <2>2. \A k \in 1 .. 3 : Windows[k] \in Nat \ {0}
    BY WindowSizes
  <2>3. 0 % Windows[3] = 0
    BY <2>2, SmallMod
  <2>4. \A k \in 1 .. 3 : NoHistory.history[k] = << >>
    BY DEF NoHistory
  <2>5. NoHistory.history \in [1 .. 3 -> Seq(Int)] /\ NoHistory.position = 0
    BY DEF NoHistory
  <2>6. \A k \in 1 .. 3 : HoldsLast(NoHistory.history[k], Windows[k], rates, {})
    BY <2>1, <2>2, <2>4 DEF HoldsLast
  <2> QED BY <2>1, <2>3, <2>5, <2>6 DEF WellKept, RecentOnly
<1> QED BY <1>1, <1>2, <1>3 DEF Init, WindowInv

LEMMA WindowStays ==
  ASSUME WindowInv, UNCHANGED <<rates, sustained, attained>>, ~ ThreadAt("rates"),
         ~ ThreadAt("rates")'
  PROVE  WindowInv'
<1>1. Averaged' = Averaged
  BY DEF Averaged
<1>2. Attained' = Attained
  BY <1>1 DEF Attained
<1> QED BY <1>1, <1>2 DEF WindowInv

LEMMA WindowStep ==
  ASSUME WindowInv, Counted, [Next]_vars
  PROVE  WindowInv'
<1>1. CASE (\E w \in Workers : ServedRequest(w)) \/ UNCHANGED vars
  <2>1. UNCHANGED <<rates, sustained, attained, thread>>
    BY <1>1 DEF ServedRequest, Load, Store, AddLatency, CountLatency, CountRate, CompareMax, SetMax,
                OnlyWorker, results, vars
  <2>2. Averaged' = Averaged
    BY <2>1 DEF Averaged, ThreadAt
  <2>3. Attained' = Attained
    BY <2>1, <2>2 DEF Attained
  <2> QED BY <2>1, <2>2, <2>3 DEF WindowInv, ThreadAt
<1>2. CASE ReadRate \/ TestLatency \/ AverageLatency \/ ZeroSum \/ ZeroCount \/ ClearTotal \/ AddTotal
  <2>1. UNCHANGED <<rates, sustained, attained>>
    BY <1>2 DEF ReadRate, TestLatency, AverageLatency, ZeroSum, ZeroCount, ClearTotal, AddTotal, results
  <2>2. ~ ThreadAt("rates") /\ ~ ThreadAt("rates")'
    BY <1>2 DEF ReadRate, TestLatency, AverageLatency, ZeroSum, ZeroCount, ClearTotal, AddTotal,
                ThreadAt, Counted
  <2> QED BY <2>1, <2>2, WindowStays
<1>3. CASE TakeRate
  <2>1. /\ ~ ThreadAt("rates") /\ ThreadAt("rates")' /\ thread'.rate = thread.rate
        /\ thread.rate \in Int /\ UNCHANGED <<sustained, attained>>
        /\ rates' = Append(rates, thread.rate) /\ rates \in Seq(Int)
    BY <1>3 DEF TakeRate, ThreadAt, Counted, results, WindowInv
  <2>2. /\ rates' \in Seq(Int) /\ Len(rates') = Len(rates) + 1 /\ rates'[Len(rates')] = thread.rate
        /\ rates' # << >> /\ \A i \in 1 .. Len(rates) : rates'[i] = rates[i]
    BY <2>1
  <2>3. Averaged' = Averaged /\ Averaged = 1 .. Len(rates)
    BY <2>1, <2>2 DEF Averaged
  <2>4. Attained' = Attained /\ Attained \subseteq 1 .. Len(rates)
    BY <2>2, <2>3 DEF Attained
  <2>5. WellKept(sustained, rates', Averaged) /\ WellKept(attained, rates', Attained)
    BY <2>1, <2>3, <2>4, TakesOne DEF WindowInv
  <2> QED BY <2>1, <2>2, <2>3, <2>4, <2>5 DEF WindowInv
<1>4. CASE CalculateRates
  <2> DEFINE n == Len(rates) - 1
  <2>1. /\ ThreadAt("rates") /\ ~ ThreadAt("rates")' /\ rates' = rates
        /\ CalculateSustainedRate_(thread.rate) /\ CalculateAttainedRate_(thread.rate)
    BY <1>4 DEF CalculateRates, ThreadAt, Counted
  <2>2. /\ rates \in Seq(Int) /\ n \in Nat /\ n + 1 \in DOMAIN rates /\ n + 1 = Len(rates)
        /\ rates[n + 1] = thread.rate
    BY <2>1 DEF WindowInv
  <2>3. Averaged = 1 .. n /\ Averaged' = 1 .. n + 1 /\ Averaged' = Averaged \cup {n + 1}
    BY <2>1, <2>2 DEF Averaged
  <2>4. WellKept(sustained', rates, Averaged \cup {n + 1})
    <3>1. /\ sustained'.history = Recorded(sustained, rates[n + 1])
          /\ sustained'.position = NextPosition(sustained.position)
      BY <2>1, <2>2 DEF CalculateSustainedRate_
    <3> HIDE DEF n
    <3> QED BY <2>2, <2>3, <3>1, RecordsOne DEF WindowInv
  <2>5. WellKept(attained', rates, Attained')
    <3>1. CASE thread.rate = 0
      <4>1. Attained' = Attained /\ attained' = attained
        BY <2>1, <2>2, <2>3, <3>1 DEF Attained, CalculateAttainedRate_
      <4> QED BY <4>1 DEF WindowInv
    <3>2. CASE thread.rate # 0
      <4>1. Attained' = Attained \cup {n + 1} /\ Attained \subseteq 1 .. n
        BY <2>1, <2>2, <2>3, <3>2 DEF Attained
      <4>2. /\ attained'.history = Recorded(attained, rates[n + 1])
            /\ attained'.position = NextPosition(attained.position)
        BY <2>1, <2>2, <3>2 DEF CalculateAttainedRate_
      <4> HIDE DEF n
      <4> QED BY <2>2, <4>1, <4>2, RecordsOne DEF WindowInv
    <3> QED BY <3>1, <3>2
  <2> QED BY <2>1, <2>2, <2>3, <2>4, <2>5 DEF WindowInv
<1> QED BY <1>1, <1>2, <1>3, <1>4 DEF Next, Round, Done

(* The windows hold the last rates for any sizes that divide each other,   *)
(* and after any number of rounds.                                         *)
THEOREM WindowsKeepLast == Spec => []WindowsRecent
<1>1. Init => WindowInv
  BY InitWindows
<1>2. CountInv => Counted
  BY DEF CountInv
<1>3. WindowInv /\ Counted /\ [Next]_vars => WindowInv'
  BY WindowStep
<1>4. WindowInv => WindowsRecent
  BY DEF WindowInv, WellKept, WindowsRecent
<1> QED BY <1>1, <1>2, <1>3, <1>4, CountInvariance, PTL DEF Spec

-----------------------------------------------------------------------------
(* Induction, from the library's fact that < is well-founded.              *)
LEMMA Induct ==
  ASSUME NEW S, 0 \in S, \A n \in Nat : n \in S => n + 1 \in S
  PROVE  Nat \subseteq S
<1> DEFINE Less == {p \in Nat \X Nat : p[1] < p[2]}
           T == Nat \ S
<1>1. IsWellFoundedOn(Less, Nat)
  BY NatLessThanWellFounded DEF OpToRel
<1> SUFFICES ASSUME T # {} PROVE FALSE
  OBVIOUS
<1>2. PICK x \in T : \A y \in T : <<y, x>> \notin Less
  <2>1. T \subseteq Nat
    OBVIOUS
  <2> HIDE DEF T, Less
  <2> QED BY <1>1, <2>1, WFMin
<1>3. x # 0 /\ x \in Nat /\ x - 1 \in Nat
  OBVIOUS
<1>4. x - 1 \in T
  BY <1>3
<1>5. <<x - 1, x>> \in Less
  BY <1>3
<1> QED BY <1>2, <1>4, <1>5

(* The recursive function of Partial exists, so its equation holds.        *)
Upto(s, f) == f = [n \in 0 .. Len(s) |-> IF n = 0 THEN 0 ELSE f[n - 1] + s[n]]

LEMMA PartialExists ==
  ASSUME NEW s \in Seq(Int)
  PROVE  \E f : Upto(s, f)
<1> DEFINE G(n, g) == g = [m \in 0 .. n |-> IF m = 0 THEN 0 ELSE g[m - 1] + s[m]]
           S == {n \in Nat : \E g : G(n, g)}
<1>1. 0 \in S
  <2> DEFINE g == [m \in 0 .. 0 |-> 0]
  <2>1. g = [m \in 0 .. 0 |-> IF m = 0 THEN 0 ELSE g[m - 1] + s[m]]
    OBVIOUS
  <2> QED BY <2>1
<1>2. ASSUME NEW n \in Nat, n \in S PROVE n + 1 \in S
  <2>1. PICK g : G(n, g)
    BY <1>2
  <2> DEFINE h == [m \in 0 .. n + 1 |-> IF m = n + 1 THEN g[n] + s[n + 1] ELSE g[m]]
  <2>2. ASSUME NEW m \in 0 .. n + 1
        PROVE  h[m] = IF m = 0 THEN 0 ELSE h[m - 1] + s[m]
    <3>1. CASE m = n + 1
      <4>1. m # 0 /\ m - 1 = n /\ n \in 0 .. n + 1 /\ n # n + 1
        BY <3>1
      <4> QED BY <3>1, <4>1
    <3>2. CASE m = 0
      BY <2>1, <3>2
    <3>3. CASE m \in 1 .. n
      <4>1. m # 0 /\ m # n + 1 /\ m \in 0 .. n /\ m - 1 \in 0 .. n + 1 /\ m - 1 # n + 1
        BY <3>3
      <4>2. g[m] = g[m - 1] + s[m]
        BY <2>1, <4>1
      <4> QED BY <4>1, <4>2
    <3>4. m = n + 1 \/ m = 0 \/ m \in 1 .. n
      OBVIOUS
    <3> QED BY <3>1, <3>2, <3>3, <3>4
  <2>3. G(n + 1, h)
    <3>1. h = [m \in 0 .. n + 1 |-> h[m]]
      OBVIOUS
    <3> HIDE DEF h
    <3> QED BY <2>2, <3>1
  <2> HIDE DEF h, G
  <2>4. \E f : G(n + 1, f)
    BY <2>3
  <2> QED BY <2>4
<1> HIDE DEF S
<1>3. Len(s) \in S
  BY <1>1, <1>2, Induct
<1> QED BY <1>3 DEF S, Upto

LEMMA PartialEquation ==
  ASSUME NEW s \in Seq(Int)
  PROVE  /\ Partial(s)[0] = 0
         /\ \A n \in 1 .. Len(s) : Partial(s)[n] = Partial(s)[n - 1] + s[n]
<1>1. Partial(s) = CHOOSE f : Upto(s, f)
  BY DEF Partial, Upto
<1>2. Upto(s, Partial(s))
  BY <1>1, PartialExists
<1> DEFINE p == Partial(s)
<1>3. p = [n \in 0 .. Len(s) |-> IF n = 0 THEN 0 ELSE p[n - 1] + s[n]]
  BY <1>2 DEF Upto
<1> HIDE DEF p
<1>4. p[0] = 0
  BY <1>3
<1>5. ASSUME NEW n \in 1 .. Len(s) PROVE p[n] = p[n - 1] + s[n]
  <2>1. n \in 0 .. Len(s) /\ n # 0
    OBVIOUS
  <2> QED BY <1>3, <2>1
<1> QED BY <1>4, <1>5 DEF p

(* Where every summand grows the sums do; none is smaller than one before. *)
LEMMA PartialGrows ==
  ASSUME NEW s \in Seq(Nat), NEW t \in Seq(Nat), Len(s) = Len(t),
         \A i \in 1 .. Len(s) : s[i] <= t[i]
  PROVE  \A n \in 0 .. Len(s) : /\ Partial(s)[n] \in Nat /\ Partial(t)[n] \in Nat
                                /\ Partial(s)[n] <= Partial(t)[n]
<1> DEFINE P(n) == /\ Partial(s)[n] \in Nat /\ Partial(t)[n] \in Nat
                   /\ Partial(s)[n] <= Partial(t)[n]
           S == {n \in Nat : n <= Len(s) => P(n)}
<1>1. /\ Partial(s)[0] = 0 /\ Partial(t)[0] = 0
      /\ \A n \in 1 .. Len(s) : /\ Partial(s)[n] = Partial(s)[n - 1] + s[n]
                                /\ Partial(t)[n] = Partial(t)[n - 1] + t[n]
  <2>1. s \in Seq(Int) /\ t \in Seq(Int)
    OBVIOUS
  <2> QED BY <2>1, PartialEquation
<1>2. 0 \in S
  BY <1>1
<1>3. ASSUME NEW n \in Nat, n \in S PROVE n + 1 \in S
  <2> SUFFICES ASSUME n + 1 <= Len(s) PROVE P(n + 1)
    OBVIOUS
  <2>1. P(n) /\ n + 1 \in 1 .. Len(s) /\ (n + 1) - 1 = n
    BY <1>3
  <2>2. s[n + 1] \in Nat /\ t[n + 1] \in Nat /\ s[n + 1] <= t[n + 1]
    BY <2>1
  <2>3. /\ Partial(s)[n + 1] = Partial(s)[n] + s[n + 1]
        /\ Partial(t)[n + 1] = Partial(t)[n] + t[n + 1]
    BY <1>1, <2>1
  <2> DEFINE a == Partial(s)[n]
             b == Partial(t)[n]
  <2>4. a \in Nat /\ b \in Nat /\ a <= b
    BY <2>1
  <2>5. Partial(s)[n + 1] = a + s[n + 1] /\ Partial(t)[n + 1] = b + t[n + 1]
    BY <2>3
  <2> HIDE DEF a, b
  <2> DEFINE u == s[n + 1]
             v == t[n + 1]
  <2>6. u \in Nat /\ v \in Nat /\ u <= v
    BY <2>2
  <2>7. Partial(s)[n + 1] = a + u /\ Partial(t)[n + 1] = b + v
    BY <2>5
  <2> HIDE DEF u, v
  <2>8. a + u \in Nat /\ b + v \in Nat /\ a + u <= b + v
    BY <2>4, <2>6
  <2> QED BY <2>7, <2>8
<1> HIDE DEF S
<1>4. Nat \subseteq S
  BY <1>2, <1>3, Induct
<1> QED BY <1>4 DEF S

LEMMA OrderType == Order \in Seq(Codes)
<1> DEFINE n == Cardinality(Codes)
<1>1. n \in Nat /\ ExistsBijection(1 .. n, Codes)
  BY StatusAssumption, FS_CardinalityType
<1>2. PICK f : f \in Bijection(1 .. n, Codes)
  BY <1>1 DEF ExistsBijection
<1>3. f \in [1 .. n -> Codes] /\ IsInjective(f)
  BY <1>2 DEF Bijection, Injection, Surjection, IsInjective
<1>4. Order = CHOOSE g \in [1 .. n -> Codes] : IsInjective(g)
  BY DEF Order, SetToSeq
<1>5. Order \in [1 .. n -> Codes]
  BY <1>3, <1>4
<1> QED BY <1>1, <1>5

(* What was served of each code, in the order of the map.                  *)
Listed(f) == [i \in 1 .. Len(Order) |-> f[Order[i]]]

LEMMA ListedType ==
  ASSUME NEW f \in [Codes -> Nat]
  PROVE  /\ Listed(f) \in Seq(Nat) /\ Len(Listed(f)) = Len(Order) /\ Len(Order) \in Nat
         /\ \A i \in 1 .. Len(Order) : Listed(f)[i] = f[Order[i]] /\ Order[i] \in Codes
         /\ SumOf(f) = Partial(Listed(f))[Len(Order)]
<1>1. Len(Order) \in Nat /\ \A i \in 1 .. Len(Order) : Order[i] \in Codes
  BY OrderType
<1>2. Listed(f) \in Seq(Nat) /\ Len(Listed(f)) = Len(Order)
  BY <1>1 DEF Listed
<1> QED BY <1>1, <1>2 DEF Listed, SumOf, Sum

LEMMA SumsGrow ==
  ASSUME NEW f \in [Codes -> Nat], NEW g \in [Codes -> Nat], \A c \in Codes : f[c] <= g[c]
  PROVE  \A n \in 0 .. Len(Order) : /\ Partial(Listed(f))[n] \in Nat /\ Partial(Listed(g))[n] \in Nat
                                    /\ Partial(Listed(f))[n] <= Partial(Listed(g))[n]
<1>1. /\ Listed(f) \in Seq(Nat) /\ Listed(g) \in Seq(Nat)
      /\ Len(Listed(f)) = Len(Order) /\ Len(Listed(g)) = Len(Order)
      /\ \A i \in 1 .. Len(Order) : Listed(f)[i] <= Listed(g)[i]
  BY ListedType
<1> QED BY <1>1, PartialGrows
LEMMA PartialRises ==
  ASSUME NEW s \in Seq(Nat)
  PROVE  \A n \in 0 .. Len(s) : \A k \in 0 .. n : Partial(s)[k] <= Partial(s)[n]
<1> DEFINE S == {n \in Nat : n <= Len(s) => \A k \in 0 .. n : Partial(s)[k] <= Partial(s)[n]}
<1>1. \A n \in 0 .. Len(s) : Partial(s)[n] \in Nat
  BY PartialGrows
<1>2. \A n \in 1 .. Len(s) : Partial(s)[n] = Partial(s)[n - 1] + s[n]
  <2>1. s \in Seq(Int)
    OBVIOUS
  <2> QED BY <2>1, PartialEquation
<1>3. 0 \in S
  <2>1. Partial(s)[0] <= Partial(s)[0]
    BY <1>1
  <2> QED BY <2>1
<1>4. ASSUME NEW n \in Nat, n \in S PROVE n + 1 \in S
  <2> SUFFICES ASSUME n + 1 <= Len(s), NEW k \in 0 .. n + 1
               PROVE  Partial(s)[k] <= Partial(s)[n + 1]
    OBVIOUS
  <2> DEFINE p(i) == Partial(s)[i]
  <2>1. /\ n + 1 \in 1 .. Len(s) /\ (n + 1) - 1 = n /\ n \in 0 .. Len(s) /\ n + 1 \in 0 .. Len(s)
        /\ s[n + 1] \in Nat /\ \A i \in 0 .. n : p(i) <= p(n)
    BY <1>4
  <2>2. p(n) \in Nat /\ p(n + 1) = p(n) + s[n + 1] /\ p(n + 1) \in Nat /\ p(k) \in Nat
    BY <1>1, <1>2, <2>1
  <2>3. k = n + 1 \/ p(k) <= p(n)
    BY <2>1
  <2> DEFINE u == s[n + 1]
  <2>4. u \in Nat /\ p(n + 1) = p(n) + u
    BY <2>1, <2>2
  <2> HIDE DEF p, u
  <2>5. p(n) <= p(n + 1)
    BY <2>2, <2>4
  <2>6. p(k) <= p(n + 1)
    BY <2>2, <2>3, <2>5
  <2> QED BY <2>6 DEF p
<1> HIDE DEF S
<1>5. Nat \subseteq S
  BY <1>3, <1>4, Induct
<1> QED BY <1>5 DEF S

-----------------------------------------------------------------------------
(* While it is added up, the total is no more than was served of the codes *)
(* that Run() has passed.                                                  *)
Passed(k) == Partial(Listed(served))[k]
Adding(left, total) ==
  /\ left \in Seq(Codes)
  /\ \E k \in 0 .. Len(Order) :
       /\ k + Len(left) = Len(Order) /\ \A i \in 1 .. Len(left) : left[i] = Order[k + i]
       /\ total <= Passed(k)
TotalInv ==
  /\ total_served_requests_ \in Nat
  /\ total_served_requests_ <= Passed(Len(Order))
  /\ ThreadAt("add") => Adding(thread.left, total_served_requests_)

LEMMA PassedType ==
  ASSUME served \in [Codes -> Nat]
  PROVE  /\ Len(Order) \in Nat
         /\ \A n \in 0 .. Len(Order) : Passed(n) \in Nat /\ Passed(n) <= Passed(Len(Order))
         /\ \A n \in 1 .. Len(Order) :
              Order[n] \in Codes /\ Passed(n) = Passed(n - 1) + served[Order[n]]
         /\ SumOf(served) = Passed(Len(Order))
<1> DEFINE s == Listed(served)
<1>1. /\ s \in Seq(Nat) /\ s \in Seq(Int) /\ Len(s) = Len(Order) /\ Len(Order) \in Nat
      /\ \A i \in 1 .. Len(Order) : s[i] = served[Order[i]] /\ Order[i] \in Codes
      /\ SumOf(served) = Partial(s)[Len(Order)]
  <2>1. /\ s \in Seq(Nat) /\ Len(s) = Len(Order) /\ Len(Order) \in Nat
        /\ \A i \in 1 .. Len(Order) : s[i] = served[Order[i]] /\ Order[i] \in Codes
        /\ SumOf(served) = Partial(s)[Len(Order)]
    BY ListedType
  <2> HIDE DEF s
  <2>2. s \in Seq(Int)
    BY <2>1
  <2> QED BY <2>1, <2>2
<1> HIDE DEF s
<1>2. /\ \A n \in 0 .. Len(s) : Partial(s)[n] \in Nat
      /\ \A n \in 1 .. Len(s) : Partial(s)[n] = Partial(s)[n - 1] + s[n]
      /\ \A n \in 0 .. Len(s) : \A k \in 0 .. n : Partial(s)[k] <= Partial(s)[n]
  BY <1>1, PartialGrows, PartialEquation, PartialRises
<1>3. \A n : Passed(n) = Partial(s)[n]
  BY DEF Passed, s
<1>4. Len(Order) \in 0 .. Len(s)
  BY <1>1
<1> QED BY <1>1, <1>2, <1>3, <1>4

LEMMA InitTotal == Init => TotalInv
<1> SUFFICES ASSUME Init PROVE TotalInv
  OBVIOUS
<1>1. served \in [Codes -> Nat] /\ total_served_requests_ = 0 /\ ~ ThreadAt("add")
  BY DEF Init, ThreadAt
<1>2. Passed(Len(Order)) \in Nat
  BY <1>1, PassedType
<1> QED BY <1>1, <1>2 DEF TotalInv

(* More is served meanwhile: what was passed only grows.                   *)
LEMMA TotalWhileServed ==
  ASSUME TotalInv, served \in [Codes -> Nat], served' \in [Codes -> Nat],
         \A c \in Codes : served[c] <= served'[c], UNCHANGED <<total_served_requests_, thread>>
  PROVE  TotalInv'
<1>1. \A n \in 0 .. Len(Order) :
        Passed(n) \in Nat /\ Passed(n)' \in Nat /\ Passed(n) <= Passed(n)'
  BY SumsGrow DEF Passed
<1>2. Len(Order) \in Nat
  BY PassedType
<1>3. total_served_requests_' <= Passed(Len(Order))'
  BY <1>1, <1>2 DEF TotalInv
<1>4. ASSUME ThreadAt("add")' PROVE Adding(thread.left, total_served_requests_)'
  <2>1. ThreadAt("add")
    BY <1>4 DEF ThreadAt
  <2>2. thread.left \in Seq(Codes)
    BY <2>1 DEF TotalInv, Adding
  <2>3. PICK k \in 0 .. Len(Order) :
          /\ k + Len(thread.left) = Len(Order)
          /\ \A i \in 1 .. Len(thread.left) : thread.left[i] = Order[k + i]
          /\ total_served_requests_ <= Passed(k)
    BY <2>1 DEF TotalInv, Adding
  <2>4. total_served_requests_' <= Passed(k)'
    BY <1>1, <2>3 DEF TotalInv
  <2> QED BY <2>2, <2>3, <2>4 DEF Adding
<1> QED BY <1>3, <1>4 DEF TotalInv

LEMMA TotalStep ==
  ASSUME TotalInv, CountInv, CountInv', [Next]_vars
  PROVE  TotalInv'
<1>1. served \in [Codes -> Nat] /\ served' \in [Codes -> Nat]
  BY DEF CountInv, Counted
<1>2. CASE (\E w \in Workers : ServedRequest(w)) \/ UNCHANGED vars
  <2>1. UNCHANGED <<total_served_requests_, thread>>
    BY <1>2 DEF ServedRequest, Load, Store, AddLatency, CountLatency, CountRate, CompareMax, SetMax,
                OnlyWorker, results, vars
  <2>2. served' = served \/ \E c \in Codes : served' = [served EXCEPT ![c] = @ + 1]
    BY <1>2 DEF ServedRequest, Load, Store, AddLatency, CountLatency, CountRate, CompareMax, SetMax,
                vars
  <2>3. \A c \in Codes : served[c] <= served'[c]
    BY <1>1, <2>2
  <2> QED BY <1>1, <2>1, <2>3, TotalWhileServed
<1>3. CASE ReadRate \/ TakeRate \/ CalculateRates \/ TestLatency \/ AverageLatency \/ ZeroSum \/ ZeroCount
  <2>1. UNCHANGED <<total_served_requests_, served>>
    BY <1>3 DEF ReadRate, TakeRate, CalculateRates, TestLatency, AverageLatency, ZeroSum, ZeroCount,
                results, OnlyThread
  <2>2. ~ ThreadAt("add")'
    BY <1>3 DEF ReadRate, TakeRate, CalculateRates, TestLatency, AverageLatency, ZeroSum, ZeroCount,
                ThreadAt, CountInv, Counted
  <2>3. Passed(Len(Order))' = Passed(Len(Order))
    BY <2>1 DEF Passed
  <2> QED BY <2>1, <2>2, <2>3 DEF TotalInv
<1>4. /\ Len(Order) \in Nat
      /\ \A n \in 0 .. Len(Order) : Passed(n) \in Nat /\ Passed(n) <= Passed(Len(Order))
      /\ \A n \in 1 .. Len(Order) :
           Order[n] \in Codes /\ Passed(n) = Passed(n - 1) + served[Order[n]]
  BY <1>1, PassedType
<1>5. ASSUME served' = served PROVE \A n : Passed(n)' = Passed(n)
  BY <1>5 DEF Passed
<1>6. CASE ClearTotal
  <2>1. total_served_requests_' = 0 /\ thread'.left = Order /\ served' = served
    BY <1>6 DEF ClearTotal, OnlyThread, CountInv, Counted
  <2>2. Passed(0) \in Nat /\ Passed(Len(Order)) \in Nat /\ 0 \in 0 .. Len(Order)
    BY <1>4
  <2>3. Adding(Order, 0)'
    <3>1. Order \in Seq(Codes)
      BY OrderType
    <3>2. 0 <= Passed(0)'
      BY <1>5, <2>1, <2>2
    <3>3. 0 + Len(Order) = Len(Order) /\ \A i \in 1 .. Len(Order) : Order[i] = Order[0 + i]
      BY <1>4
    <3> QED BY <2>2, <3>1, <3>2, <3>3 DEF Adding
  <2>4. Adding(thread.left, total_served_requests_)'
    BY <2>1, <2>3 DEF Adding
  <2> QED BY <1>5, <2>1, <2>2, <2>4 DEF TotalInv
<1>7. CASE AddTotal
  <2>1. ThreadAt("add") /\ served' = served
    BY <1>7 DEF AddTotal, OnlyThread
  <2>2. CASE thread.left = << >>
    <3>1. UNCHANGED total_served_requests_ /\ ~ ThreadAt("add")'
      BY <1>7, <2>2 DEF AddTotal, ThreadAt, CountInv, Counted
    <3> QED BY <1>5, <2>1, <3>1 DEF TotalInv
  <2>3. CASE thread.left # << >>
    <3> DEFINE l == thread.left
    <3>1. /\ total_served_requests_' = total_served_requests_ + http_served_[Head(l)]
          /\ thread'.left = Tail(l)
      BY <1>7, <2>3 DEF AddTotal, CountInv, Counted
    <3>2. l \in Seq(Codes) /\ l # << >>
      BY <2>1, <2>3 DEF TotalInv, Adding
    <3>3. PICK k \in 0 .. Len(Order) :
            /\ k + Len(l) = Len(Order) /\ \A i \in 1 .. Len(l) : l[i] = Order[k + i]
            /\ total_served_requests_ <= Passed(k)
      BY <2>1 DEF TotalInv, Adding
    <3> HIDE DEF l
    <3>4. /\ Len(l) \in Nat /\ Len(l) >= 1 /\ Head(l) = l[1] /\ Tail(l) \in Seq(Codes)
          /\ Len(Tail(l)) = Len(l) - 1 /\ \A i \in 1 .. Len(Tail(l)) : Tail(l)[i] = l[i + 1]
      BY <3>2
    <3>5. /\ k \in Nat /\ k + 1 \in 1 .. Len(Order) /\ (k + 1) - 1 = k /\ k + 1 \in 0 .. Len(Order)
          /\ Head(l) = Order[k + 1]
      BY <1>4, <3>3, <3>4
    <3> DEFINE c == Order[k + 1]
    <3>6. /\ c \in Codes /\ Passed(k + 1) = Passed(k) + served[c] /\ Passed(k + 1) \in Nat
          /\ Passed(k) \in Nat /\ Passed(k + 1) <= Passed(Len(Order)) /\ Passed(Len(Order)) \in Nat
      BY <1>4, <3>5
    <3>7. http_served_[c] \in Nat /\ served[c] \in Nat /\ http_served_[c] <= served[c]
      BY <3>6 DEF CountInv, Counted, NoneMadeUp
    <3>8. total_served_requests_' = total_served_requests_ + http_served_[c]
      BY <3>1, <3>5
    <3>9. total_served_requests_' \in Nat /\ total_served_requests_' <= Passed(k + 1)
      <4> DEFINE a == http_served_[c]
                 b == served[c]
      <4>1. a \in Nat /\ b \in Nat /\ a <= b
        BY <3>7
      <4>2. Passed(k + 1) = Passed(k) + b /\ total_served_requests_' = total_served_requests_ + a
        BY <3>6, <3>8
      <4> HIDE DEF a, b
      <4> QED BY <3>3, <3>6, <4>1, <4>2 DEF TotalInv
    <3>10. Adding(thread.left, total_served_requests_)'
      <4>1. /\ (k + 1) + Len(Tail(l)) = Len(Order)
            /\ \A i \in 1 .. Len(Tail(l)) : Tail(l)[i] = Order[(k + 1) + i]
        <5>1. ASSUME NEW i \in 1 .. Len(Tail(l)) PROVE Tail(l)[i] = Order[(k + 1) + i]
          <6>1. i + 1 \in 1 .. Len(l) /\ k + (i + 1) = (k + 1) + i
            BY <3>4, <3>5
          <6> QED BY <3>3, <3>4, <6>1
        <5> QED BY <3>3, <3>4, <3>5, <5>1
      <4>2. total_served_requests_' <= Passed(k + 1)'
        BY <1>5, <2>1, <3>9
      <4> QED BY <3>1, <3>4, <3>5, <4>1, <4>2 DEF Adding
    <3>11. total_served_requests_' <= Passed(Len(Order))'
      BY <1>5, <2>1, <3>6, <3>9
    <3> QED BY <3>9, <3>10, <3>11 DEF TotalInv
  <2> QED BY <2>2, <2>3
<1> QED BY <1>2, <1>3, <1>6, <1>7 DEF Next, Round, Done

(* No count exceeds what it counts, the total at no moment of its being    *)
(* added up, and nothing is divided by zero.                               *)
THEOREM CountsHold == Spec => []CountsSound
<1>1. Init => TotalInv
  BY InitTotal
<1>2. TotalInv /\ CountInv /\ CountInv' /\ [Next]_vars => TotalInv'
  BY TotalStep
<1>3. TotalInv /\ CountInv => CountsSound
  <2> SUFFICES ASSUME TotalInv, CountInv PROVE CountsSound
    OBVIOUS
  <2>1. SumOf(served) = Passed(Len(Order))
    BY PassedType DEF CountInv, Counted
  <2> QED BY <2>1 DEF CountInv, TotalInv, CountsSound
<1> QED BY <1>1, <1>2, <1>3, CountInvariance, PTL DEF Spec
=============================================================================
