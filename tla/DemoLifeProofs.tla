--------------------------- MODULE DemoLifeProofs ---------------------------
(***************************************************************************)
(* Proofs about DemoLife for any pool of workers and any number of         *)
(* signals: no thread object is freed under its thread, the workers are    *)
(* over before the scheduler is, and a stop of the scheduler is kept.      *)
(***************************************************************************)
EXTENDS DemoLife, TLAPS

Threads == [made : {"no", "yes", "freed"},
            should_stop : BOOLEAN, is_stopped : BOOLEAN, start_requested : BOOLEAN,
            at : {"none", "created", "clearing", "running", "stopping", "stopped", "ended"}]

(* main() before the scheduler is started, and after Join().               *)
Starting == {"check", "init", "listen", "worker", "start"}
Ending   == {"destroy", "listener", "pool", "server", "status", "scheduler", "self", "exit"}
Joining  == {"read", "spin", "join"}

LifeTyped ==
  /\ thread \in [Objects -> Threads]
  /\ main \in [at : Starting \cup Joining \cup Ending, i : DOMAIN Pool]
  /\ run \in [at : {"loop", "stop", "pools"} \cup Joining, i : DOMAIN Pool]
  /\ frame \in [Objects \cup {"main"} -> {"none", "enter", "look", "stop"}]

(* start_requested_ is set exactly while there is a thread, and an object  *)
(* is active only between the stores around Run().  There is no thread     *)
(* without an object.                                                      *)
FlagInv ==
  \A o \in Objects :
    /\ o # Scheduler /\ thread[o].made = "no" => thread[o].at = "none"
    /\ thread[o].start_requested <=> thread[o].at \notin {"none", "ended"}
    /\ ~ thread[o].is_stopped => thread[o].at \in {"running", "stopping"}

(* How far main() is with the workers and the scheduler.                   *)
MainInv ==
  /\ main.at \in Starting <=> thread[Scheduler].at = "none"
  /\ main.at \in Ending => thread[Scheduler].at = "ended"
  /\ main.at \in {"check", "init", "listen"} => main.i = 1
  /\ \A j \in DOMAIN Pool :
       /\ main.at \notin Starting \/ main.at = "start" \/ (main.at = "worker" /\ j < main.i)
            => thread[Pool[j]].at # "none"
       /\ thread[Pool[j]].made = "freed" => main.at \in Ending
  /\ thread[Scheduler].made # "yes" => main.at \in {"check", "init"} \cup Ending

(* How far the scheduler is with the workers.                              *)
RunInv ==
  /\ thread[Scheduler].at \in {"none", "created", "clearing"} => run.at = "loop"
  /\ thread[Scheduler].at \in {"stopping", "stopped", "ended"} => run.at = "pools"
  /\ run.at = "loop" => run.i = 1
  /\ \A j \in DOMAIN Pool : j < run.i \/ run.at = "pools" => thread[Pool[j]].at = "ended"

(* A stop comes only when the scheduler has cleared the flag.              *)
StopInv ==
  /\ thread[Scheduler].should_stop => thread[Scheduler].at \notin {"none", "created"}
  /\ \A t \in Objects \cup {"main"} :
       frame[t] = "stop" => thread[Scheduler].at \notin {"none", "created", "clearing"}

LifeInv == LifeTyped /\ FlagInv /\ MainInv /\ RunInv /\ StopInv

-----------------------------------------------------------------------------
(* The objects are different, and pool positions are numbers.              *)
LEMMA ObjectFacts ==
  /\ Scheduler \in Objects /\ Status \in Objects /\ Listener \in Objects
  /\ Scheduler # Listener /\ Scheduler # Status
  /\ \A j \in DOMAIN Pool : Pool[j] \in Objects /\ Pool[j] \notin {Scheduler, Listener, Status}
  /\ DOMAIN Pool = 1 .. Len(Pool) /\ Len(Pool) \in Nat \ {0}
  /\ \A i, j \in DOMAIN Pool : Pool[i] = Pool[j] => i = j
<1>1. DOMAIN Pool = 1 .. Len(Pool) /\ Len(Pool) \in Nat /\ Len(Pool) # 0
  BY LifeAssumption
<1> QED BY <1>1, LifeAssumption DEF Objects, Workers

(* Initially.                                                              *)
LEMMA InitLife ==
  ASSUME Init
  PROVE  LifeInv
<1> DEFINE t0 == Unstarted("no")
<1>1. /\ t0 \in Threads /\ t0.made = "no" /\ t0.at = "none"
      /\ ~ t0.should_stop /\ t0.is_stopped /\ ~ t0.start_requested
  BY DEF Unstarted, Threads
<1> HIDE DEF t0
<1>2. thread = [o \in Objects |-> t0] BY DEF Init, t0
<1>3. \A o \in Objects : thread[o] = t0 BY <1>2
<1>4. LifeTyped
  BY <1>1, <1>2, ObjectFacts DEF Init, LifeTyped, Starting
<1>5. FlagInv BY <1>1, <1>3 DEF FlagInv
<1>6. MainInv BY <1>1, <1>3, ObjectFacts DEF Init, MainInv, Starting, Ending
<1>7. RunInv BY <1>1, <1>3, ObjectFacts DEF Init, RunInv
<1>8. StopInv BY <1>1, <1>3, ObjectFacts DEF Init, StopInv
<1> QED BY <1>4, <1>5, <1>6, <1>7, <1>8 DEF LifeInv

(* A thread that goes on within Wrapper_: what its step may change.        *)
Goes(t, u) ==
  /\ u \in Threads /\ u.made = t.made
  /\ t.at \notin {"none", "ended"} /\ u.at # "none"
  /\ u.start_requested <=> u.at # "ended"
  /\ ~ u.is_stopped => u.at \in {"running", "stopping"}
  /\ u.should_stop => t.should_stop /\ t.at # "created"
  /\ t.at \in {"stopping", "stopped"} => u.at \in {"stopped", "ended"}
  /\ t.at \in {"running"} => u.at = "stopping"
  /\ t.at \in {"created", "clearing"} => u.at \in {"clearing", "running"}

LEMMA WrapperGoes ==
  ASSUME NEW t \in Threads, NEW u,
         ~ t.is_stopped => t.at \in {"running", "stopping"},
         t.start_requested <=> t.at \notin {"none", "ended"},
         \/ t.at \in {"created", "clearing"} /\ u = ClearStoppedStatus(t)
         \/ t.at = "running" /\ u = [t EXCEPT !.at = "stopping"]
         \/ t.at \in {"stopping", "stopped"} /\ u = SetStoppedStatus(t)
  PROVE  Goes(t, u)
<1>1. CASE t.at = "created" /\ u = [t EXCEPT !.should_stop = FALSE, !.at = "clearing"]
  BY <1>1 DEF Goes, Threads
<1>2. CASE t.at = "clearing" /\ u = [t EXCEPT !.is_stopped = FALSE, !.at = "running"]
  BY <1>2 DEF Goes, Threads
<1>3. CASE t.at = "running" /\ u = [t EXCEPT !.at = "stopping"]
  BY <1>3 DEF Goes, Threads
<1>4. CASE t.at = "stopping" /\ u = [t EXCEPT !.is_stopped = TRUE, !.at = "stopped"]
  BY <1>4 DEF Goes, Threads
<1>5. CASE t.at = "stopped" /\ u = [t EXCEPT !.start_requested = FALSE, !.at = "ended"]
  BY <1>5 DEF Goes, Threads
<1> QED BY <1>1, <1>2, <1>3, <1>4, <1>5 DEF ClearStoppedStatus, SetStoppedStatus

-----------------------------------------------------------------------------
(* The steps.                                                              *)

(* A thread goes on in Wrapper_.                                           *)
LEMMA WrapperStep ==
  ASSUME LifeInv, NEW o \in Objects, Wrapper_(o)
  PROVE  LifeInv'
<1> USE DEF LifeInv
<1>1. UNCHANGED <<main, run, frame>>
  BY DEF Wrapper_, BeginRun, LeaveRun, EndRun
<1>2. CASE UNCHANGED thread
  BY <1>1, <1>2 DEF LifeTyped, FlagInv, MainInv, RunInv, StopInv
<1>3. CASE \E u : /\ thread' = [thread EXCEPT ![o] = u] /\ Goes(thread[o], u)
                  /\ o = Scheduler => thread[o].at # "running"
  <2>1. PICK u : /\ thread' = [thread EXCEPT ![o] = u] /\ Goes(thread[o], u)
                 /\ o = Scheduler => thread[o].at # "running"
    BY <1>3
  <2>2. /\ thread'[o] = u /\ \A q \in Objects : q # o => thread'[q] = thread[q]
        /\ thread' \in [Objects -> Threads]
    BY <2>1 DEF LifeTyped, Goes
  <2>3. LifeTyped' BY <1>1, <2>2 DEF LifeTyped
  <2>4. FlagInv' BY <2>1, <2>2 DEF FlagInv, Goes, LifeTyped, Threads
  <2>5. MainInv' BY <1>1, <2>1, <2>2, ObjectFacts DEF MainInv, Goes, LifeTyped, Threads
  <2>6. RunInv' BY <1>1, <2>1, <2>2, ObjectFacts DEF RunInv, Goes, LifeTyped, Threads
  <2>7. StopInv' BY <1>1, <2>1, <2>2, ObjectFacts DEF StopInv, Goes, LifeTyped, Threads
  <2> QED BY <2>3, <2>4, <2>5, <2>6, <2>7
<1>4. thread[o] \in Threads BY DEF LifeTyped
<1>5. /\ ~ thread[o].is_stopped => thread[o].at \in {"running", "stopping"}
      /\ thread[o].start_requested <=> thread[o].at \notin {"none", "ended"}
  BY DEF FlagInv
<1>6. CASE BeginRun(o)
  <2>1. Goes(thread[o], ClearStoppedStatus(thread[o]))
    BY <1>4, <1>5, <1>6, WrapperGoes DEF BeginRun
  <2> QED BY <1>2, <1>3, <1>6, <2>1 DEF BeginRun, OnObject
<1>7. CASE LeaveRun(o)
  <2>1. Goes(thread[o], [thread[o] EXCEPT !.at = "stopping"])
    BY <1>4, <1>5, <1>7, WrapperGoes DEF LeaveRun
  <2> QED BY <1>2, <1>3, <1>7, <2>1 DEF LeaveRun, OnObject
<1>8. CASE EndRun(o)
  <2>1. Goes(thread[o], SetStoppedStatus(thread[o]))
    BY <1>4, <1>5, <1>8, WrapperGoes DEF EndRun
  <2> QED BY <1>2, <1>3, <1>8, <2>1 DEF EndRun, OnObject
<1> QED BY <1>6, <1>7, <1>8 DEF Wrapper_

(* A step that changes neither thread, main nor run, and no frame to       *)
(* "stop" before the scheduler is active.                                  *)
LEMMA FrameStep ==
  ASSUME LifeInv, UNCHANGED <<thread, main, run>>, NEW t \in Objects \cup {"main"},
         NEW to \in {"none", "enter", "look", "stop"}, frame' = [frame EXCEPT ![t] = to],
         to = "stop" => ~ thread[Scheduler].is_stopped
  PROVE  LifeInv'
<1>1. LifeTyped' /\ FlagInv' /\ MainInv' /\ RunInv'
  BY DEF LifeInv, LifeTyped, FlagInv, MainInv, RunInv
<1>2. StopInv' BY ObjectFacts DEF LifeInv, FlagInv, StopInv, LifeTyped
<1> QED BY <1>1, <1>2 DEF LifeInv

LEMMA SameStep ==
  ASSUME LifeInv, UNCHANGED <<thread, main, run, frame>>
  PROVE  LifeInv'
BY DEF LifeInv, LifeTyped, FlagInv, MainInv, RunInv, StopInv

(* A signal comes, or its handler goes on.                                 *)
LEMMA HandlerStep ==
  ASSUME LifeInv, NEW t \in Objects \cup {"main"}, Signal(t) \/ Handler(t)
  PROVE  LifeInv'
<1>1. CASE Signal(t) \/ HandlerEnter(t) \/ HandlerLook(t)
  <2>1. UNCHANGED <<thread, main, run>> BY <1>1 DEF Signal, HandlerEnter, HandlerLook
  <2>2. CASE UNCHANGED frame BY <2>1, <2>2, SameStep
  <2>3. CASE HandlerLook(t)
    BY <2>1, <2>2, <2>3, FrameStep DEF HandlerLook, IsActive
  <2>4. CASE Signal(t) \/ HandlerEnter(t)
    BY <2>1, <2>4, FrameStep DEF Signal, HandlerEnter
  <2> QED BY <1>1, <2>3, <2>4
<1>2. CASE HandlerStop(t)
  <2> USE DEF LifeInv
  <2> DEFINE u == [thread[Scheduler] EXCEPT !.should_stop = TRUE]
  <2>1. UNCHANGED <<main, run>> /\ frame[t] = "stop" /\ frame' = [frame EXCEPT ![t] = "none"]
    BY <1>2 DEF HandlerStop, HandlerAt
  <2>2. CASE UNCHANGED thread BY <2>1, <2>2, FrameStep
  <2>3. CASE thread' = [thread EXCEPT ![Scheduler] = u]
    <3>1. thread[Scheduler] \in Threads BY ObjectFacts DEF LifeTyped
    <3>2. /\ u \in Threads /\ u.at = thread[Scheduler].at /\ u.made = thread[Scheduler].made
          /\ u.start_requested = thread[Scheduler].start_requested
          /\ u.is_stopped = thread[Scheduler].is_stopped
      BY <3>1 DEF Threads
    <3> HIDE DEF u
    <3>3. /\ thread'[Scheduler] = u
          /\ \A q \in Objects : q # Scheduler => thread'[q] = thread[q]
          /\ thread' \in [Objects -> Threads]
      BY <2>3, <3>2, ObjectFacts DEF LifeTyped
    <3>4. LifeTyped' BY <2>1, <3>3 DEF LifeTyped
    <3>5. FlagInv' BY <3>2, <3>3 DEF FlagInv
    <3>6. MainInv' BY <2>1, <3>2, <3>3, ObjectFacts DEF MainInv
    <3>7. RunInv' BY <2>1, <3>2, <3>3, ObjectFacts DEF RunInv
    <3>8. StopInv' BY <2>1, <3>2, <3>3 DEF StopInv, LifeTyped
    <3> QED BY <3>4, <3>5, <3>6, <3>7, <3>8
  <2> QED BY <1>2, <2>2, <2>3 DEF HandlerStop, OnObject
<1> QED BY <1>1, <1>2 DEF Handler

(* The scheduler goes on: a worker it leaves behind has ended.             *)
LEMMA SchedulerStep ==
  ASSUME LifeInv, SchedulerRun
  PROVE  LifeInv'
<1> USE DEF LifeInv
<1>1. /\ thread[Scheduler].at = "running" /\ main.at \notin Starting
      /\ run.i \in DOMAIN Pool /\ run.i \in Nat /\ UNCHANGED <<main, frame>>
  BY ObjectFacts
  DEF SchedulerRun, LeaveLoop, StopWorker, JoinRead, JoinSpin, JoinReturn, PoolsIdle,
      SchedulerAt, LifeTyped, MainInv
<1> DEFINE v == Pool[run.i]
<1>2. /\ v \in Objects /\ v # Scheduler /\ thread[v].at # "none"
      /\ thread[v] \in Threads /\ thread[Scheduler] \in Threads
  BY <1>1, ObjectFacts DEF MainInv, LifeTyped
<1>3. CASE UNCHANGED thread /\ run' \in [at : {"loop", "stop", "pools"} \cup Joining, i : DOMAIN Pool]
           /\ RunInv'
  BY <1>1, <1>3 DEF LifeTyped, FlagInv, MainInv, StopInv
<1>4. CASE LeaveLoop \/ JoinSpin
  <2>1. /\ UNCHANGED thread /\ run.at \in {"loop", "spin"} /\ run'.at \in {"stop", "join"}
        /\ run' \in [at : {"loop", "stop", "pools"} \cup Joining, i : DOMAIN Pool] /\ run'.i = run.i
    BY <1>4 DEF LeaveLoop, JoinSpin, SchedulerAt, LifeTyped, Joining
  <2>2. RunInv' BY <1>1, <2>1 DEF RunInv
  <2> QED BY <1>3, <2>1, <2>2
<1>5. CASE JoinRead \/ JoinReturn
  <2>1. UNCHANGED thread /\ run.at \in {"read", "join"} BY <1>5 DEF JoinRead, JoinReturn, SchedulerAt
  <2>2. CASE run' = [run EXCEPT !.at = "spin"]
    <3>1. /\ run'.at = "spin" /\ run'.i = run.i
          /\ run' \in [at : {"loop", "stop", "pools"} \cup Joining, i : DOMAIN Pool]
      BY <2>2 DEF LifeTyped, Joining
    <3>2. RunInv' BY <1>1, <2>1, <3>1 DEF RunInv
    <3> QED BY <1>3, <2>1, <3>1, <3>2
  <2>3. CASE run' = NextWorker /\ thread[v].at = "ended"
    <3>1. CASE run.i < Len(Pool)
      <4>1. run' = [at |-> "stop", i |-> run.i + 1] /\ run.i + 1 \in DOMAIN Pool
        BY <1>1, <2>3, <3>1, ObjectFacts DEF NextWorker
      <4>2. \A j \in DOMAIN Pool : j < run.i + 1 => j < run.i \/ j = run.i
        BY <1>1, ObjectFacts
      <4>3. RunInv' BY <1>1, <2>1, <2>3, <4>1, <4>2 DEF RunInv
      <4> QED BY <1>3, <2>1, <4>1, <4>3
    <3>2. CASE ~ run.i < Len(Pool)
      <4>1. run' = [at |-> "pools", i |-> run.i]
        BY <2>3, <3>2 DEF NextWorker
      <4>2. \A j \in DOMAIN Pool : j < run.i \/ j = run.i
        BY <1>1, <3>2, ObjectFacts
      <4>3. RunInv' BY <1>1, <2>1, <2>3, <4>1, <4>2 DEF RunInv
      <4> QED BY <1>1, <1>3, <2>1, <4>1, <4>3
    <3> QED BY <3>1, <3>2
  <2>4. ~ thread[v].start_requested => thread[v].at = "ended"
    BY <1>2 DEF FlagInv
  <2> QED BY <1>5, <2>2, <2>3, <2>4 DEF JoinRead, JoinReturn, Victim
<1>6. CASE StopWorker
  <2> DEFINE u == [thread[v] EXCEPT !.should_stop = TRUE]
  <2>1. /\ thread' = [thread EXCEPT ![v] = u] /\ run' = [run EXCEPT !.at = "read"]
        /\ run.at = "stop"
    BY <1>2, <1>6 DEF StopWorker, SchedulerAt
  <2>2. /\ u \in Threads /\ u.at = thread[v].at /\ u.made = thread[v].made
        /\ u.start_requested = thread[v].start_requested /\ u.is_stopped = thread[v].is_stopped
    BY <1>2 DEF Threads
  <2> HIDE DEF u
  <2>3. /\ thread'[v] = u /\ \A q \in Objects : q # v => thread'[q] = thread[q]
        /\ thread' \in [Objects -> Threads]
    BY <1>2, <2>1, <2>2 DEF LifeTyped
  <2>4. /\ run'.at = "read" /\ run'.i = run.i
        /\ run' \in [at : {"loop", "stop", "pools"} \cup Joining, i : DOMAIN Pool]
    BY <2>1 DEF LifeTyped, Joining
  <2>5. LifeTyped' BY <1>1, <2>3, <2>4 DEF LifeTyped
  <2>6. FlagInv' BY <2>2, <2>3 DEF FlagInv
  <2>7. MainInv' BY <1>1, <1>2, <2>2, <2>3, ObjectFacts DEF MainInv
  <2>8. RunInv' BY <1>1, <1>2, <2>1, <2>2, <2>3, <2>4, ObjectFacts DEF RunInv
  <2>9. StopInv' BY <1>1, <1>2, <2>3, ObjectFacts DEF StopInv
  <2> QED BY <2>5, <2>6, <2>7, <2>8, <2>9
<1>7. CASE PoolsIdle
  <2> DEFINE u == [thread[Scheduler] EXCEPT !.at = "stopping"]
  <2>1. thread' = [thread EXCEPT ![Scheduler] = u] /\ UNCHANGED run /\ run.at = "pools"
    BY <1>2, <1>7 DEF PoolsIdle, SchedulerAt
  <2>2. /\ u \in Threads /\ u.at = "stopping" /\ u.made = thread[Scheduler].made
        /\ u.start_requested = thread[Scheduler].start_requested
        /\ u.is_stopped = thread[Scheduler].is_stopped
        /\ u.should_stop = thread[Scheduler].should_stop
    BY <1>2 DEF Threads
  <2> HIDE DEF u
  <2>3. /\ thread'[Scheduler] = u /\ \A q \in Objects : q # Scheduler => thread'[q] = thread[q]
        /\ thread' \in [Objects -> Threads]
    BY <2>1, <2>2, ObjectFacts DEF LifeTyped
  <2>4. LifeTyped' BY <1>1, <2>1, <2>3 DEF LifeTyped
  <2>5. FlagInv' BY <1>1, <2>2, <2>3, ObjectFacts DEF FlagInv
  <2>6. MainInv' BY <1>1, <2>2, <2>3, ObjectFacts DEF MainInv
  <2>7. RunInv' BY <1>1, <2>1, <2>2, <2>3, ObjectFacts DEF RunInv
  <2>8. StopInv' BY <1>1, <2>2, <2>3, ObjectFacts DEF StopInv
  <2> QED BY <2>4, <2>5, <2>6, <2>7, <2>8
<1> QED BY <1>4, <1>5, <1>6, <1>7 DEF SchedulerRun

(* main() before the scheduler is started.                                 *)
LEMMA StartingStep ==
  ASSUME LifeInv, MainCheck \/ MainInit \/ MainListen \/ MainWorker \/ MainStart
  PROVE  LifeInv'
<1> USE DEF LifeInv
<1>1. /\ main.at \in Starting /\ thread[Scheduler].at = "none" /\ run.at = "loop" /\ run.i = 1
      /\ main.i \in DOMAIN Pool /\ main.i \in Nat /\ UNCHANGED <<run, frame>>
      /\ \A t \in Objects \cup {"main"} : frame[t] # "stop"
      /\ thread[Scheduler] \in Threads /\ ~ thread[Scheduler].should_stop
      /\ thread[Scheduler].is_stopped /\ ~ thread[Scheduler].start_requested
  BY ObjectFacts
  DEF MainCheck, MainInit, MainListen, MainWorker, MainStart, MainAt, Starting, LifeTyped,
      FlagInv, MainInv, RunInv, StopInv
<1>2. CASE MainCheck
  <2>1. UNCHANGED thread /\ main.at = "check" /\ main' \in {main, [main EXCEPT !.at = "init"]}
    BY <1>2 DEF MainCheck, MainAt, Goto
  <2>2. main'.at \in {"check", "init"} /\ main'.i = main.i
        /\ main' \in [at : Starting \cup Joining \cup Ending, i : DOMAIN Pool]
    BY <2>1 DEF LifeTyped, Starting
  <2>3. LifeTyped' /\ FlagInv' BY <1>1, <2>1, <2>2 DEF LifeTyped, FlagInv
  <2>4. MainInv' BY <2>1, <2>2 DEF MainInv, Starting, Ending
  <2>5. RunInv' /\ StopInv' BY <1>1, <2>1 DEF RunInv, StopInv
  <2> QED BY <2>3, <2>4, <2>5
<1> DEFINE n == NewThread
           m == Started(NewThread)
<1>3. /\ n \in Threads /\ n.made = "yes" /\ n.at = "none" /\ ~ n.should_stop
      /\ n.is_stopped /\ ~ n.start_requested
      /\ m \in Threads /\ m.made = "yes" /\ m.at = "created" /\ ~ m.should_stop
      /\ m.is_stopped /\ m.start_requested
  BY DEF NewThread, Unstarted, Started, Threads
<1> HIDE DEF n, m
<1>4. CASE MainInit
  <2>1. thread' = [thread EXCEPT ![Scheduler] = n] /\ main' = [main EXCEPT !.at = "listen"]
        /\ main.at = "init"
    BY <1>4 DEF MainInit, MainAt, Goto, n
  <2>2. main'.at = "listen" /\ main'.i = main.i
        /\ main' \in [at : Starting \cup Joining \cup Ending, i : DOMAIN Pool]
    BY <2>1 DEF LifeTyped, Starting
  <2>3. /\ thread'[Scheduler] = n /\ \A q \in Objects : q # Scheduler => thread'[q] = thread[q]
        /\ thread' \in [Objects -> Threads]
    BY <1>3, <2>1, ObjectFacts DEF LifeTyped
  <2>4. LifeTyped' BY <1>1, <2>2, <2>3 DEF LifeTyped
  <2>5. FlagInv' BY <1>3, <2>3 DEF FlagInv
  <2>6. MainInv' BY <1>3, <2>1, <2>2, <2>3, ObjectFacts DEF MainInv, Starting, Ending
  <2>7. RunInv' /\ StopInv' BY <1>1, <1>3, <2>3, ObjectFacts DEF RunInv, StopInv
  <2> QED BY <2>4, <2>5, <2>6, <2>7
<1>5. CASE MainListen
  <2>1. main.at = "listen"
        /\ \/ UNCHANGED <<thread, main>>
           \/ thread' = [thread EXCEPT ![Listener] = m] /\ main' = [main EXCEPT !.at = "worker"]
    BY <1>5 DEF MainListen, MainAt, Goto, m
  <2>2. CASE UNCHANGED <<thread, main>> BY <1>1, <2>2, SameStep
  <2>3. CASE thread' = [thread EXCEPT ![Listener] = m] /\ main' = [main EXCEPT !.at = "worker"]
    <3>1. main'.at = "worker" /\ main'.i = main.i
          /\ main' \in [at : Starting \cup Joining \cup Ending, i : DOMAIN Pool]
      BY <2>3 DEF LifeTyped, Starting
    <3>2. /\ thread'[Listener] = m /\ \A q \in Objects : q # Listener => thread'[q] = thread[q]
          /\ thread' \in [Objects -> Threads]
      BY <1>3, <2>3, ObjectFacts DEF LifeTyped
    <3>3. LifeTyped' BY <1>1, <3>1, <3>2 DEF LifeTyped
    <3>4. FlagInv' BY <1>3, <3>2 DEF FlagInv
    <3>5. MainInv' BY <1>1, <1>3, <2>1, <3>1, <3>2, ObjectFacts DEF MainInv, Starting, Ending
    <3>6. RunInv' /\ StopInv' BY <1>1, <3>2, ObjectFacts DEF RunInv, StopInv
    <3> QED BY <3>3, <3>4, <3>5, <3>6
  <2> QED BY <2>1, <2>2, <2>3

<1>6. CASE MainWorker
  <2> DEFINE w == Pool[main.i]
  <2>1. /\ main.at = "worker"
        /\ thread' = [o \in Objects |-> IF o = w \/ (o = Status /\ main.i = 1)
                                       THEN m ELSE thread[o]]
        /\ main' = IF main.i < Len(Pool) THEN [main EXCEPT !.i = @ + 1]
                                         ELSE [at |-> "start", i |-> 1]
    BY <1>6 DEF MainWorker, MainAt, m
  <2>2. w \in Objects /\ w \notin {Scheduler, Listener, Status} BY <1>1, ObjectFacts
  <2>3. /\ thread'[w] = m /\ thread' \in [Objects -> Threads]
        /\ \A q \in Objects : thread'[q] = m \/ thread'[q] = thread[q]
        /\ thread'[Scheduler] = thread[Scheduler]
    BY <1>3, <2>1, <2>2, ObjectFacts DEF LifeTyped
  <2>4. /\ main' \in [at : Starting \cup Joining \cup Ending, i : DOMAIN Pool]
        /\ \/ main'.at = "worker" /\ main'.i = main.i + 1
           \/ main'.at = "start" /\ main.i = Len(Pool)
    <3>1. CASE main.i < Len(Pool)
      <4>1. main.i + 1 \in DOMAIN Pool BY <1>1, <3>1, ObjectFacts
      <4> QED BY <2>1, <3>1, <4>1 DEF LifeTyped
    <3>2. CASE ~ main.i < Len(Pool)
      <4>1. main.i = Len(Pool) /\ 1 \in DOMAIN Pool BY <1>1, <3>2, ObjectFacts
      <4> QED BY <2>1, <3>2, <4>1 DEF Starting
    <3> QED BY <3>1, <3>2
  <2>5. \A j \in DOMAIN Pool :
          main'.at = "start" \/ (main'.at = "worker" /\ j < main'.i) => j < main.i \/ j = main.i
    BY <1>1, <2>4, ObjectFacts
  <2>6. LifeTyped' BY <1>1, <2>3, <2>4 DEF LifeTyped
  <2>7. FlagInv' BY <1>3, <2>3 DEF FlagInv
  <2>8. MainInv'
    <3>1. main'.at \in Starting /\ main'.at \notin Ending /\ main'.at \notin {"check", "init", "listen"}
      BY <2>4 DEF Starting, Ending
    <3>2. ASSUME NEW j \in DOMAIN Pool
          PROVE  /\ main'.at = "start" \/ (main'.at = "worker" /\ j < main'.i)
                      => thread'[Pool[j]].at # "none"
                 /\ thread'[Pool[j]].made # "freed"
      <4>1. thread[Pool[j]].made # "freed" BY <2>1 DEF MainInv, Ending
      <4>2. j < main.i => thread[Pool[j]].at # "none" BY <2>1 DEF MainInv
      <4> QED BY <1>3, <2>3, <2>5, <4>1, <4>2, ObjectFacts
    <3>3. thread'[Scheduler].made = "yes" BY <2>1, <2>3 DEF MainInv, Ending
    <3> QED BY <1>1, <2>3, <3>1, <3>2, <3>3 DEF MainInv
  <2>9. RunInv' /\ StopInv' BY <1>1, <2>3, ObjectFacts DEF RunInv, StopInv
  <2> QED BY <2>6, <2>7, <2>8, <2>9
<1>7. CASE MainStart
  <2> DEFINE u == Started(thread[Scheduler])
  <2>1. thread' = [thread EXCEPT ![Scheduler] = u] /\ main' = [main EXCEPT !.at = "read"]
        /\ main.at = "start"
    BY <1>7 DEF MainStart, MainAt, Goto
  <2>2. /\ u \in Threads /\ u.at = "created" /\ u.start_requested /\ ~ u.should_stop
        /\ u.is_stopped /\ u.made = thread[Scheduler].made
    BY <1>1 DEF Started, Threads
  <2> HIDE DEF u
  <2>3. main'.at = "read" /\ main'.i = main.i
        /\ main' \in [at : Starting \cup Joining \cup Ending, i : DOMAIN Pool]
    BY <2>1 DEF LifeTyped, Joining
  <2>4. /\ thread'[Scheduler] = u /\ \A q \in Objects : q # Scheduler => thread'[q] = thread[q]
        /\ thread' \in [Objects -> Threads]
    BY <2>1, <2>2, ObjectFacts DEF LifeTyped
  <2>5. LifeTyped' BY <1>1, <2>3, <2>4 DEF LifeTyped
  <2>6. FlagInv' BY <2>2, <2>4 DEF FlagInv
  <2>7. MainInv' BY <2>1, <2>2, <2>3, <2>4, ObjectFacts DEF MainInv, Starting, Ending
  <2>8. RunInv' /\ StopInv' BY <1>1, <2>2, <2>4, ObjectFacts DEF RunInv, StopInv
  <2> QED BY <2>5, <2>6, <2>7, <2>8
<1> QED BY <1>2, <1>4, <1>5, <1>6, <1>7

(* main() after it.                                                        *)
LEMMA JoinStep ==
  ASSUME LifeInv, MainJoin
  PROVE  LifeInv'
<1> USE DEF LifeInv
<1>1. /\ main.at \in Joining /\ thread[Scheduler].at # "none" /\ UNCHANGED <<thread, run, frame>>
      /\ \/ main' = [main EXCEPT !.at = "spin"] \/ main' = [main EXCEPT !.at = "join"]
         \/ main' = [main EXCEPT !.at = "destroy"] /\ thread[Scheduler].at = "ended"
  BY ObjectFacts DEF MainJoin, MainAt, Goto, FlagInv, MainInv, Joining, Starting
<1>2. /\ main' \in [at : Starting \cup Joining \cup Ending, i : DOMAIN Pool]
      /\ main'.at \in Joining \cup Ending /\ (main'.at \in Ending => thread[Scheduler].at = "ended")
  BY <1>1 DEF LifeTyped, Starting, Joining, Ending
<1>3. LifeTyped' /\ FlagInv' /\ RunInv' /\ StopInv'
  BY <1>1, <1>2 DEF LifeTyped, FlagInv, RunInv, StopInv
<1>4. MainInv' BY <1>1, <1>2 DEF MainInv, Starting, Joining, Ending
<1> QED BY <1>3, <1>4

(* At the end objects are stopped and freed, and no thread moves by it.    *)
LEMMA EndingStep ==
  ASSUME LifeInv, main.at \in Ending, main'.at \in Ending, main'.i \in DOMAIN Pool,
         main' \in [at : Ending, i : DOMAIN Pool], UNCHANGED <<run, frame>>,
         NEW o \in Objects, NEW u \in Threads, thread' = [thread EXCEPT ![o] = u],
         u.at = thread[o].at, u.start_requested = thread[o].start_requested,
         u.is_stopped = thread[o].is_stopped, o # Scheduler => u.made # "no" \/ u.made = thread[o].made,
         o = Scheduler => u.should_stop = thread[o].should_stop
  PROVE  LifeInv'
<1> USE DEF LifeInv
<1>1. /\ thread'[o] = u /\ \A q \in Objects : q # o => thread'[q] = thread[q]
      /\ thread' \in [Objects -> Threads]
  BY DEF LifeTyped
<1>2. LifeTyped' BY <1>1 DEF LifeTyped
<1>3. FlagInv' BY <1>1 DEF FlagInv
<1>4. MainInv' BY <1>1, ObjectFacts DEF MainInv, Starting, Ending
<1>5. RunInv' /\ StopInv' BY <1>1, ObjectFacts DEF RunInv, StopInv
<1> QED BY <1>2, <1>3, <1>4, <1>5

LEMMA DestroyStep ==
  ASSUME LifeInv, MainDestroy
  PROVE  LifeInv'
<1>1. /\ main.at \in Ending /\ main.i \in DOMAIN Pool /\ main.i \in Nat /\ UNCHANGED <<run, frame>>
      /\ \A q \in Objects : thread[q] \in Threads
  BY ObjectFacts DEF MainDestroy, MainAt, Ending, LifeInv, LifeTyped
<1>2. /\ main' \in [at : Ending, i : DOMAIN Pool] /\ main'.at \in Ending /\ main'.i \in DOMAIN Pool
  <2>1. CASE \E to \in Ending : main' = [main EXCEPT !.at = to]
    BY <1>1, <2>1 DEF LifeInv, LifeTyped
  <2>2. CASE main.i < Len(Pool) /\ main' = [main EXCEPT !.i = @ + 1]
    <3>1. main.i + 1 \in DOMAIN Pool BY <1>1, <2>2, ObjectFacts
    <3> QED BY <1>1, <2>2, <3>1 DEF LifeInv, LifeTyped
  <2> QED BY <2>1, <2>2 DEF MainDestroy, Goto, Ending
<1>3. CASE \E q \in {Listener, Status} : thread' = [thread EXCEPT ![q].should_stop = TRUE]
  <2>1. PICK q \in {Listener, Status} : thread' = [thread EXCEPT ![q].should_stop = TRUE]
    BY <1>3
  <2> DEFINE u == [thread[q] EXCEPT !.should_stop = TRUE]
  <2>2. q \in Objects /\ q # Scheduler /\ thread[q] \in Threads BY <1>1, ObjectFacts
  <2>3. /\ u \in Threads /\ u.at = thread[q].at /\ u.made = thread[q].made
        /\ u.start_requested = thread[q].start_requested /\ u.is_stopped = thread[q].is_stopped
    BY <2>2 DEF Threads
  <2>4. thread' = [thread EXCEPT ![q] = u] BY <2>1
  <2> HIDE DEF u
  <2> QED BY <1>1, <1>2, <2>2, <2>3, <2>4, EndingStep
<1>4. CASE \E q \in Objects : thread' = [thread EXCEPT ![q].made = "freed"]
           \/ (q = Scheduler /\ thread' = [thread EXCEPT ![q].made = "no"])
  <2>1. PICK q \in Objects, how \in {"freed", "no"} :
          thread' = [thread EXCEPT ![q].made = how] /\ (how = "no" => q = Scheduler)
    BY <1>4
  <2> DEFINE u == [thread[q] EXCEPT !.made = how]
  <2>2. thread[q] \in Threads BY <1>1
  <2>3. /\ u \in Threads /\ u.at = thread[q].at /\ u.made = how
        /\ u.start_requested = thread[q].start_requested /\ u.is_stopped = thread[q].is_stopped
        /\ u.should_stop = thread[q].should_stop
    BY <2>2 DEF Threads
  <2>4. thread' = [thread EXCEPT ![q] = u] BY <2>1
  <2> HIDE DEF u
  <2> QED BY <1>1, <1>2, <2>1, <2>3, <2>4, EndingStep
<1>5. Pool[main.i] \in Objects /\ Scheduler \in Objects /\ Listener \in Objects /\ Status \in Objects
  BY <1>1, ObjectFacts
<1> QED BY <1>3, <1>4, <1>5 DEF MainDestroy

-----------------------------------------------------------------------------
(* Every step preserves the invariant.                                     *)
LEMMA NextLife ==
  ASSUME LifeInv, [Next]_vars
  PROVE  LifeInv'
<1>1. CASE Main
  BY <1>1, StartingStep, JoinStep, DestroyStep, SameStep DEF Main, MainExit
<1>2. CASE UNCHANGED vars BY <1>2, SameStep DEF vars
<1> QED BY <1>1, <1>2, SchedulerStep, WrapperStep, HandlerStep DEF Next, Waiting, Over

(* The invariant holds in every reachable state.                           *)
THEOREM LifeInvariance == Spec => []LifeInv
<1>1. Init => LifeInv BY InitLife
<1>2. LifeInv /\ [Next]_vars => LifeInv' BY NextLife
<1> QED BY <1>1, <1>2, PTL DEF Spec

(* When Scheduler::Run() is over, so is every worker.                      *)
THEOREM WorkersEndFirst == Spec => []WorkersFirst
<1>1. LifeInv => WorkersFirst
  BY DEF LifeInv, RunInv, WorkersFirst, Workers
<1> QED BY <1>1, LifeInvariance, PTL

(* The scheduler and the workers are freed when their threads have made    *)
(* the last access to them, on every path through Join().                  *)
THEOREM NoneFreedInUse == Spec => []FreedAfterUse
<1>1. ASSUME LifeInv, NEW o \in {Scheduler} \cup Workers, thread[o].made # "yes"
      PROVE  thread[o].at \in {"none", "ended"}
  <2> USE DEF LifeInv
  <2>1. CASE o = Scheduler
    BY <1>1, <2>1 DEF MainInv, Starting, Ending
  <2>2. CASE o \in Workers
    <3>1. PICK j \in DOMAIN Pool : o = Pool[j] BY <2>2 DEF Workers
    <3>2. o \in Objects /\ o # Scheduler BY <3>1, ObjectFacts
    <3>3. CASE thread[o].made = "no" BY <1>1, <3>2, <3>3 DEF FlagInv
    <3>4. CASE thread[o].made = "freed"
      BY <1>1, <3>1, <3>4 DEF MainInv, RunInv
    <3> QED BY <1>1, <3>2, <3>3, <3>4 DEF LifeTyped, Threads
  <2> QED BY <2>1, <2>2
<1>2. LifeInv => FreedAfterUse BY <1>1 DEF FreedAfterUse
<1> QED BY <1>2, LifeInvariance, PTL

(* A stop of the scheduler is kept: its thread clears the flag before the  *)
(* handler, which waits for it to be active, can set it.                   *)
THEOREM SchedulerKeepsStop == Spec => SchedulerStopKept
<1> DEFINE Kept == thread[Scheduler].should_stop => thread'[Scheduler].should_stop
<1>1. ASSUME LifeInv, [Next]_vars, thread[Scheduler].should_stop
      PROVE  thread'[Scheduler].should_stop
  <2>1. /\ Scheduler \in Objects /\ thread \in [Objects -> Threads]
        /\ thread[Scheduler] \in Threads /\ thread[Scheduler].at \notin {"none", "created"}
        /\ main.at \notin Starting
    BY <1>1, ObjectFacts DEF LifeInv, LifeTyped, MainInv, StopInv
  <2>2. CASE UNCHANGED thread BY <1>1, <2>2
  <2>3. ASSUME NEW o \in Objects, NEW u \in Threads, thread' = [thread EXCEPT ![o] = u],
               o # Scheduler \/ u.should_stop
        PROVE  thread'[Scheduler].should_stop
    BY <1>1, <2>1, <2>3
  <2>4. ASSUME NEW o \in Objects, Wrapper_(o)
        PROVE  thread'[Scheduler].should_stop
    <3>1. thread[o] \in Threads BY <2>1
    <3>2. CASE thread[o].at = "clearing" /\ thread' = [thread EXCEPT ![o] = [thread[o] EXCEPT !.is_stopped = FALSE, !.at = "running"]]
      BY <1>1, <2>1, <2>3, <3>1, <3>2 DEF Threads
    <3>3. CASE thread[o].at = "created" /\ thread' = [thread EXCEPT ![o] = [thread[o] EXCEPT !.should_stop = FALSE, !.at = "clearing"]]
      BY <1>1, <2>1, <2>3, <3>1, <3>3 DEF Threads
    <3>4. CASE thread' = [thread EXCEPT ![o] = [thread[o] EXCEPT !.at = "stopping"]]
      BY <1>1, <2>1, <2>3, <3>1, <3>4 DEF Threads
    <3>5. CASE thread' = [thread EXCEPT ![o] = [thread[o] EXCEPT !.is_stopped = TRUE, !.at = "stopped"]]
      BY <1>1, <2>1, <2>3, <3>1, <3>5 DEF Threads
    <3>6. CASE thread' = [thread EXCEPT ![o] = [thread[o] EXCEPT !.start_requested = FALSE, !.at = "ended"]]
      BY <1>1, <2>1, <2>3, <3>1, <3>6 DEF Threads
    <3> QED
      BY <2>2, <2>4, <3>2, <3>3, <3>4, <3>5, <3>6
      DEF Wrapper_, BeginRun, LeaveRun, EndRun, OnObject, ClearStoppedStatus, SetStoppedStatus
  <2>5. ASSUME NEW t \in Objects \cup {"main"}, Signal(t) \/ Handler(t)
        PROVE  thread'[Scheduler].should_stop
    BY <1>1, <2>1, <2>5
    DEF Signal, Handler, HandlerEnter, HandlerLook, HandlerStop, OnObject, Threads
  <2>6. CASE SchedulerRun
    BY <1>1, <2>1, <2>6
    DEF SchedulerRun, LeaveLoop, StopWorker, JoinRead, JoinSpin, JoinReturn, PoolsIdle, Threads
  <2>7. CASE Main
    <3>1. CASE UNCHANGED thread BY <2>2, <3>1
    <3>2. CASE MainDestroy
      BY <1>1, <2>1, <3>2 DEF MainDestroy, Threads
    <3> QED
      BY <2>1, <2>7, <3>1, <3>2
      DEF Main, MainCheck, MainInit, MainListen, MainWorker, MainStart, MainJoin, MainExit,
          MainAt, Starting
  <2>8. CASE UNCHANGED vars BY <2>2, <2>8 DEF vars
  <2> QED BY <1>1, <2>2, <2>4, <2>5, <2>6, <2>7, <2>8 DEF Next, Waiting, Over
<1>2. LifeInv /\ [Next]_vars => [Kept]_vars BY <1>1
<1> QED BY <1>2, LifeInvariance, PTL DEF Spec, SchedulerStopKept

=============================================================================
