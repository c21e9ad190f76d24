------------------------------ MODULE DemoLife ------------------------------
(***************************************************************************)
(* The threads of the demo from main() to exit: Thread<> and Worker with   *)
(* their three flags, the Scheduler singleton, the pool of workers, the    *)
(* listener, the Status singleton that the first Server starts, and the    *)
(* signal handler, which the kernel runs on any thread of the process.     *)
(*                                                                         *)
(* The flags are plain bools.  Their stores are taken in program order,    *)
(* one by one: the compilers keep the order or merge neighbours into one   *)
(* store, and x86 keeps it too.                                            *)
(***************************************************************************)
EXTENDS Integers, Sequences

CONSTANTS Scheduler, Listener, Status,   \* the Thread<> objects ...
          Pool,                          \* ... and http_pool_, a sequence
          MaxSignals                     \* bound: SIGTERMs and SIGINTs

Workers == {Pool[i] : i \in DOMAIN Pool}
Objects == {Scheduler, Listener, Status} \cup Workers

(* The objects are all different.                                          *)
ASSUME LifeAssumption ==
  /\ Pool \in Seq(Workers) /\ Len(Pool) > 0 /\ MaxSignals \in Nat
  /\ \A i, j \in DOMAIN Pool : Pool[i] = Pool[j] => i = j
  /\ Scheduler # Listener /\ Scheduler # Status /\ Listener # Status
  /\ {Scheduler, Listener, Status} \cap Workers = {}
  /\ "main" \notin Objects

VARIABLES
  thread,    \* per object: made, the three flags, and where its thread is
  main,      \* where main() is, and at which worker of the pool
  run,       \* the same for Scheduler::Run()
  frame,     \* per thread: where its frame of signal_handler is
  signals,   \* signals still to come
  got, past, \* GOT_STOP_SIGNAL and PAST_SCHEDULER_START
  process    \* "running", "exited" or "undefined"

vars == <<thread, main, run, frame, signals, got, past, process>>

(* A thread is at "none", "created", "clearing", "running", "stopping",    *)
(* "stopped" or "ended"; an object is made "no", "yes" or "freed".         *)
Unstarted(made) == [made |-> made, should_stop |-> FALSE, is_stopped |-> TRUE,
                    start_requested |-> FALSE, at |-> "none"]
NewThread   == Unstarted("yes")
IsActive(o) == ~thread[o].is_stopped
Alive(t)    == t # "main" => thread[t].at \notin {"none", "ended"}

Init ==
  /\ thread = [o \in Objects |-> Unstarted("no")]
  /\ main = [at |-> "check", i |-> 1]
  /\ run = [at |-> "loop", i |-> 1]
  /\ frame = [t \in Objects \cup {"main"} |-> "none"]
  /\ signals = MaxSignals
  /\ got = FALSE
  /\ past = FALSE
  /\ process = "running"

(* Thread t can take a step of its own.                                    *)
Runs(t) == process = "running" /\ frame[t] = "none" /\ Alive(t)

-----------------------------------------------------------------------------
(* Thread::Wrapper_.                                                       *)

(* Mutant: the thread counts as active before it can be stopped.           *)
ClearStoppedStatusSwapped(t) ==
  IF t.at = "created" THEN [t EXCEPT !.is_stopped = FALSE, !.at = "clearing"]
                      ELSE [t EXCEPT !.should_stop = FALSE, !.at = "running"]

ClearStoppedStatus(t) ==
  IF t.at = "created" THEN [t EXCEPT !.should_stop = FALSE, !.at = "clearing"]
                      ELSE [t EXCEPT !.is_stopped = FALSE, !.at = "running"]

(* Mutant: Join need not wait before the last store is made.               *)
SetStoppedStatusSwapped(t) ==
  IF t.at = "stopping" THEN [t EXCEPT !.start_requested = FALSE, !.at = "stopped"]
                       ELSE [t EXCEPT !.is_stopped = TRUE, !.at = "ended"]

(* Mutant: the thread stays active for the others.                         *)
SetStoppedStatusForgets(t) ==
  IF t.at = "stopping" THEN [t EXCEPT !.at = "stopped"]
                       ELSE [t EXCEPT !.start_requested = FALSE, !.at = "ended"]

SetStoppedStatus(t) ==
  IF t.at = "stopping" THEN [t EXCEPT !.is_stopped = TRUE, !.at = "stopped"]
                       ELSE [t EXCEPT !.start_requested = FALSE, !.at = "ended"]

(* What the thread of o does with the flags of o; without o, anything.     *)
OnObject(o, t) ==
  IF thread[o].made = "yes"
  THEN thread' = [thread EXCEPT ![o] = t] /\ UNCHANGED process
  ELSE process' = "undefined" /\ UNCHANGED thread

BeginRun(o) ==
  /\ Runs(o) /\ thread[o].at \in {"created", "clearing"}
  /\ OnObject(o, ClearStoppedStatus(thread[o]))
  /\ UNCHANGED <<main, run, frame, signals, got, past>>

(* Run() of a worker, the listener or Status ends when it reads the flag.  *)
LeaveRun(o) ==
  /\ o # Scheduler
  /\ Runs(o) /\ thread[o].at = "running" /\ thread[o].should_stop
  /\ OnObject(o, [thread[o] EXCEPT !.at = "stopping"])
  /\ UNCHANGED <<main, run, frame, signals, got, past>>

EndRun(o) ==
  /\ Runs(o) /\ thread[o].at \in {"stopping", "stopped"}
  /\ OnObject(o, SetStoppedStatus(thread[o]))
  /\ UNCHANGED <<main, run, frame, signals, got, past>>

-----------------------------------------------------------------------------
(* Scheduler::Run(), on its own thread: the loop, StopWorkers_ and the wait *)
(* for the pools.  Thread::Join is "read", "spin" and "join".              *)
SchedulerAt(at) == Runs(Scheduler) /\ thread[Scheduler].at = "running" /\ run.at = at
Victim == thread[Pool[run.i]]
NextWorker == IF run.i < Len(Pool) THEN [at |-> "stop", i |-> run.i + 1]
                                   ELSE [at |-> "pools", i |-> run.i]

LeaveLoop ==
  /\ SchedulerAt("loop") /\ thread[Scheduler].should_stop
  /\ run' = [run EXCEPT !.at = "stop"]
  /\ UNCHANGED <<thread, main, frame, signals, got, past, process>>

StopWorker ==
  /\ SchedulerAt("stop")
  /\ thread' = [thread EXCEPT ![Pool[run.i]].should_stop = TRUE]
  /\ run' = [run EXCEPT !.at = "read"]
  /\ UNCHANGED <<main, frame, signals, got, past, process>>

(* Mutant: Join does not wait for a thread that has not begun.             *)
JoinReadActive ==
  /\ SchedulerAt("read")
  /\ run' = IF ~Victim.is_stopped THEN [run EXCEPT !.at = "spin"] ELSE NextWorker
  /\ UNCHANGED <<thread, main, frame, signals, got, past, process>>

JoinRead ==
  /\ SchedulerAt("read")
  /\ run' = IF Victim.start_requested THEN [run EXCEPT !.at = "spin"] ELSE NextWorker
  /\ UNCHANGED <<thread, main, frame, signals, got, past, process>>

JoinSpin ==
  /\ SchedulerAt("spin") /\ ~Victim.is_stopped
  /\ run' = [run EXCEPT !.at = "join"]
  /\ UNCHANGED <<thread, main, frame, signals, got, past, process>>

JoinReturn ==
  /\ SchedulerAt("join") /\ Victim.at = "ended"
  /\ run' = NextWorker
  /\ UNCHANGED <<thread, main, frame, signals, got, past, process>>

PoolsIdle ==
  /\ SchedulerAt("pools") /\ \A w \in Workers : ~IsActive(w)
  /\ thread' = [thread EXCEPT ![Scheduler].at = "stopping"]
  /\ UNCHANGED <<main, run, frame, signals, got, past, process>>

-----------------------------------------------------------------------------
(* main().                                                                 *)
MainAt(at) == Runs("main") /\ main.at = at
Goto(at)   == main' = [main EXCEPT !.at = at]

MainCheck ==
  /\ MainAt("check")
  /\ IF got THEN process' = "exited" /\ UNCHANGED <<main, past>>
            ELSE past' = TRUE /\ Goto("init") /\ UNCHANGED process
  /\ UNCHANGED <<thread, run, frame, signals, got>>

MainInit ==
  /\ MainAt("init")
  /\ thread' = [thread EXCEPT ![Scheduler] = NewThread]
  /\ Goto("listen")
  /\ UNCHANGED <<run, frame, signals, got, past, process>>

Started(t) == [t EXCEPT !.start_requested = TRUE, !.at = "created"]

(* CreateListener; an exception ends the process.                          *)
MainListen ==
  /\ MainAt("listen")
  /\ \/ /\ thread' = [thread EXCEPT ![Listener] = Started(NewThread)]
        /\ Goto("worker")
        /\ UNCHANGED process
     \/ process' = "exited" /\ UNCHANGED <<thread, main>>
  /\ UNCHANGED <<run, frame, signals, got, past>>

(* HttpWorker::Create; the first Server starts Status, detached.           *)
MainWorker ==
  /\ MainAt("worker")
  /\ thread' = [o \in Objects |->
                  IF o = Pool[main.i] \/ (o = Status /\ main.i = 1)
                  THEN Started(NewThread) ELSE thread[o]]
  /\ main' = IF main.i < Len(Pool) THEN [main EXCEPT !.i = @ + 1]
                                   ELSE [at |-> "start", i |-> 1]
  /\ UNCHANGED <<run, frame, signals, got, past, process>>

MainStart ==
  /\ MainAt("start")
  /\ thread' = [thread EXCEPT ![Scheduler] = Started(@)]
  /\ Goto("read")
  /\ UNCHANGED <<run, frame, signals, got, past, process>>

MainJoin ==
  /\ \/ MainAt("read") /\ Goto(IF thread[Scheduler].start_requested THEN "spin" ELSE "destroy")
     \/ MainAt("spin") /\ IsActive(Scheduler) /\ Goto("join")
     \/ MainAt("join") /\ thread[Scheduler].at = "ended" /\ Goto("destroy")
  /\ UNCHANGED <<thread, run, frame, signals, got, past, process>>

(* Scheduler::Destroy: the members in reverse order of declaration, which  *)
(* frees the listener first and the pool last; the last Server stops and   *)
(* frees Status, whose Join returns at once since it is detached.          *)
MainDestroy ==
  LET Stops(o) == thread' = [thread EXCEPT ![o].should_stop = TRUE]
      Frees(o) == thread' = [thread EXCEPT ![o].made = "freed"]
  IN  /\ \/ MainAt("destroy") /\ Stops(Listener) /\ Goto("listener")
         \/ MainAt("listener") /\ Frees(Listener) /\ Goto("pool")
         \/ /\ MainAt("pool")
            /\ Frees(Pool[main.i])
            /\ main' = IF main.i < Len(Pool) THEN [main EXCEPT !.i = @ + 1]
                                             ELSE [main EXCEPT !.at = "server"]
         \/ MainAt("server") /\ Stops(Status) /\ Goto("status")
         \/ MainAt("status") /\ Frees(Status) /\ Goto("scheduler")
         \/ MainAt("scheduler") /\ Frees(Scheduler) /\ Goto("self")
         \/ /\ MainAt("self")
            /\ thread' = [thread EXCEPT ![Scheduler].made = "no"]
            /\ Goto("exit")
      /\ UNCHANGED <<run, frame, signals, got, past, process>>

MainExit ==
  /\ MainAt("exit")
  /\ process' = "exited"
  /\ UNCHANGED <<thread, main, run, frame, signals, got, past>>

-----------------------------------------------------------------------------
(* signal_handler.                                                         *)
Signal(t) ==
  /\ signals > 0
  /\ Runs(t)
  /\ signals' = signals - 1
  /\ frame' = [frame EXCEPT ![t] = "enter"]
  /\ UNCHANGED <<thread, main, run, got, past, process>>

HandlerAt(t, at) == process = "running" /\ frame[t] = at

HandlerEnter(t) ==
  /\ HandlerAt(t, "enter")
  /\ got' = TRUE
  /\ frame' = [frame EXCEPT ![t] = IF past THEN "look" ELSE "none"]
  /\ UNCHANGED <<thread, main, run, signals, past, process>>

(* The loop while (!Self()->IsActive()) Sleep(1).                          *)
HandlerLook(t) ==
  /\ HandlerAt(t, "look")
  /\ IF thread[Scheduler].made # "yes" THEN process' = "undefined" /\ UNCHANGED frame
     ELSE IsActive(Scheduler) /\ frame' = [frame EXCEPT ![t] = "stop"] /\ UNCHANGED process
  /\ UNCHANGED <<thread, main, run, signals, got, past>>

HandlerStop(t) ==
  /\ HandlerAt(t, "stop")
  /\ frame' = [frame EXCEPT ![t] = "none"]
  /\ OnObject(Scheduler, [thread[Scheduler] EXCEPT !.should_stop = TRUE])
  /\ UNCHANGED <<main, run, signals, got, past>>

-----------------------------------------------------------------------------
(* A loop goes round: Process_(), Wait(), Yield() or Sleep().              *)
Waiting ==
  /\ process = "running"
  /\ \/ \E o \in Objects : thread[o].at = "running" /\ ~thread[o].should_stop
     \/ run.at = "spin" \/ main.at = "spin"
     \/ \E t \in Objects \cup {"main"} : frame[t] = "look"
  /\ UNCHANGED vars

Over == process # "running" /\ UNCHANGED vars

SchedulerRun ==
  LeaveLoop \/ StopWorker \/ JoinRead \/ JoinSpin \/ JoinReturn \/ PoolsIdle
Main == MainCheck \/ MainInit \/ MainListen \/ MainWorker \/ MainStart \/ MainJoin
        \/ MainDestroy \/ MainExit
Wrapper_(o) == BeginRun(o) \/ LeaveRun(o) \/ EndRun(o)
Handler(t) == HandlerEnter(t) \/ HandlerLook(t) \/ HandlerStop(t)

Next ==
  \/ Main
  \/ SchedulerRun
  \/ \E o \in Objects : Wrapper_(o)
  \/ \E t \in Objects \cup {"main"} : Signal(t) \/ Handler(t)
  \/ Waiting
  \/ Over

Spec == Init /\ [][Next]_vars

(* Every thread with something to do goes on.                              *)
FairSpec ==
  /\ Spec
  /\ WF_vars(Main)
  /\ WF_vars(SchedulerRun)
  /\ \A o \in Objects : WF_vars(Wrapper_(o))
  /\ \A t \in Objects \cup {"main"} : WF_vars(Handler(t))

-----------------------------------------------------------------------------
(* Properties.                                                             *)

(* Neither main() nor the scheduler frees a thread object that its thread  *)
(* may still touch, although Join() may return without pthread_join().     *)
FreedAfterUse ==
  \A o \in {Scheduler} \cup Workers :
    thread[o].made # "yes" => thread[o].at \in {"none", "ended"}

(* When Scheduler::Run() is over no worker is in its Run() any more, so    *)
(* that the servers can be destroyed.                                      *)
WorkersFirst ==
  thread[Scheduler].at \in {"stopping", "stopped", "ended"} =>
    \A w \in Workers : thread[w].at \in {"stopped", "ended"}

(* A stop that the handler asks of the scheduler is not overwritten: the   *)
(* handler waits until it is active, and the flag is cleared before that.  *)
SchedulerStopKept ==
  [][thread[Scheduler].should_stop => thread'[Scheduler].should_stop]_vars

(* The four ways to hang.  A worker that was stopped before it began runs  *)
(* on; a thread that ends between the two reads of Join() is waited for in *)
(* vain, by the scheduler or by main(); the handler waits for a scheduler  *)
(* that is over.                                                           *)
StopLost      == run.at \in {"spin", "join"} /\ Victim.at = "running" /\ ~Victim.should_stop
EndMissed     == run.at = "spin" /\ Victim.at = "ended"
RunMissed     == main.at = "spin" /\ thread[Scheduler].at = "ended"
HandlerStuck  == thread[Scheduler].is_stopped /\ \E t \in DOMAIN frame : frame[t] = "look"
Hung == StopLost \/ EndMissed \/ RunMissed \/ HandlerStuck

(* A stopped scheduler brings the process to its end, unless it hangs in   *)
(* one of these ways.                                                      *)
StopEndsProcess ==
  (thread[Scheduler].at = "running" /\ thread[Scheduler].should_stop)
    ~> (process # "running" \/ Hung)

(* The comment of Shutdown_, "Stop and destroy threads.": the scheduler    *)
(* waits in pthread_join() only for a worker that is still told to stop.   *)
WorkerStopKept == run.at = "join" => Victim.should_stop
=============================================================================
