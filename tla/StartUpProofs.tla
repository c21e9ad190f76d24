---------------------------- MODULE StartUpProofs ----------------------------
(***************************************************************************)
(* Proofs about StartUp for any number of servers and peers and whatever   *)
(* current_handler_ held before: the set-up goes wrong in its windows only *)
(* and leaves no socket and no poll object behind.                         *)
(***************************************************************************)
EXTENDS StartUp, TLAPS

Before    == {"backlog", "open", "option", "poll", "bind", "start"}
Adding    == {"server", "push", "pushing"}
Ending    == {"done", "join", "destroy", "over"}
Advancing == {"create", "increment", "store", "compare", "wrap"}
Others    == {"none", "poll", "accept", "get", "close", "ended"}

StartTyped ==
  /\ main \in [at : Before \cup Adding \cup Ending \cup {"reset"}, tries : Int]
  /\ listener \in [socket : BOOLEAN, poll : {"null", "live", "deleted"}, should_stop : BOOLEAN]
  /\ handlers \in Nat /\ current \in Nat
  /\ thread \in [at : Advancing \cup Others, next : Nat, moved : BOOLEAN]

(* Socket and poll object come one after the other and go together.        *)
ListenerInv ==
  /\ main.at \in {"backlog", "open"} => ~ listener.socket /\ listener.poll # "live"
  /\ main.at \in {"option", "poll"} => listener.socket /\ listener.poll # "live"
  /\ main.at \notin {"backlog", "open", "option", "poll"} =>
       IF thread.at = "ended" THEN ~ listener.socket /\ listener.poll # "live"
                              ELSE listener.socket /\ listener.poll = "live"

(* The thread runs once the listener is complete, and ends when stopped.   *)
ThreadInv ==
  /\ main.at \in Before <=> thread.at = "none"
  /\ listener.should_stop => main.at \in {"join", "destroy", "over"}
  /\ thread.at \in {"close", "ended"} => listener.should_stop
  /\ main.at \in {"destroy", "over"} => thread.at = "ended"

(* Servers are added, and current_handler_ has a value from then on.       *)
HandlersInv ==
  /\ main.at \in Before => handlers = 0
  /\ main.at \in Ending \cup {"reset"} => handlers > 0

(* The index stays good, or the thread is about to wrap it.                *)
IndexInv ==
  /\ thread.at \in {"create", "increment", "store"} => current < handlers
  /\ thread.at \in {"store", "compare"} => thread.next <= handlers
  /\ thread.at = "compare" => current \in {thread.next, 0}
  /\ thread.at \in {"compare", "wrap"} => handlers > 0
  /\ thread.at \in Others =>
       current < handlers \/ handlers = 0 \/ (handlers = 1 /\ main.at = "reset")

StartInv ==
  /\ StartTyped
  /\ process \in {"running", "exited", "undefined"}
  /\ Running => ListenerInv /\ ThreadInv /\ HandlersInv /\ IndexInv
  /\ CrashesInWindows

-----------------------------------------------------------------------------
(* The three exits of a step: the state is kept, an exception ends the     *)
(* process, or something undefined happens in one of the windows.          *)
LEMMA InitStart ==
  ASSUME Init
  PROVE  StartInv
<1>1. StartTyped
  BY StartAssumption DEF Init, StartTyped, Before, Others
<1>2. ListenerInv /\ ThreadInv /\ HandlersInv /\ IndexInv /\ CrashesInWindows
  BY DEF Init, ListenerInv, ThreadInv, HandlersInv, IndexInv, CrashesInWindows, Before,
         Ending, Advancing, Others
<1> QED BY <1>1, <1>2 DEF StartInv, Init

LEMMA ExitStep ==
  ASSUME StartInv, StartTyped', process' = "exited"
  PROVE  StartInv'
BY DEF StartInv, Running, CrashesInWindows

LEMMA CrashStep ==
  ASSUME StartInv, StartTyped', process' = "undefined", CrashesInWindows'
  PROVE  StartInv'
BY DEF StartInv, Running

(* What a step on the way to a started listener leaves alone.              *)
LEMMA SetUpStep ==
  ASSUME StartInv, Running, thread.at = "none", UNCHANGED <<handlers, current, thread>>,
         process' = "running", main.at \in Before \ {"start"}, StartTyped', ListenerInv',
         main'.at \in Before, listener'.should_stop = listener.should_stop
  PROVE  StartInv'
<1>1. ThreadInv' /\ HandlersInv' /\ IndexInv'
  BY DEF StartInv, ThreadInv, HandlersInv, IndexInv, Before, Ending, Advancing, Others
<1> QED BY <1>1 DEF StartInv, Running, CrashesInWindows

(* CreateListener and BaseListener::Open.                                  *)
LEMMA OpenStep ==
  ASSUME StartInv, CheckBacklog \/ OpenSocket \/ SetOption \/ CreatePoll \/ BindAndListen
  PROVE  StartInv'
<1>1. /\ Running /\ main.at \in {"backlog", "open", "option", "poll", "bind"}
      /\ UNCHANGED <<handlers, current, thread>>
  BY DEF CheckBacklog, OpenSocket, SetOption, CreatePoll, BindAndListen, At, Preparing
<1>2. /\ StartTyped /\ ListenerInv /\ ThreadInv /\ process = "running"
      /\ thread.at = "none" /\ ~ listener.should_stop
  BY <1>1 DEF StartInv, Running, ThreadInv, Before
<1>3. CASE process' = "exited"
  <2>1. UNCHANGED main /\ \/ UNCHANGED listener \/ listener' = Closed(listener)
    BY <1>1, <1>2, <1>3
    DEF CheckBacklog, OpenSocket, SetOption, CreatePoll, BindAndListen, Throws, Close, Running,
        BindFails, Retried
  <2>2. StartTyped' BY <1>1, <1>2, <2>1 DEF StartTyped, Closed
  <2> QED BY <1>3, <2>2, ExitStep
<1>4. CASE process' = "undefined"
  <2>1. UNCHANGED <<main, listener>> /\ main.at \in {"option", "poll"}
    BY <1>1, <1>2, <1>4
    DEF CheckBacklog, OpenSocket, SetOption, CreatePoll, BindAndListen, Throws, Close, Running,
        BindFails, Retried, At
  <2>2. StartTyped' /\ CrashesInWindows'
    BY <1>1, <1>2, <2>1 DEF StartTyped, CrashesInWindows, HalfBuilt
  <2> QED BY <1>4, <2>2, CrashStep
<1>5. CASE process' = "running"
  <2>1. CASE \/ main.at = "backlog" /\ main' = [main EXCEPT !.at = "open"] /\ UNCHANGED listener
             \/ main.at = "open" /\ main' = [main EXCEPT !.at = "option"]
                  /\ listener' = [listener EXCEPT !.socket = TRUE]
             \/ main.at = "option" /\ main' = [main EXCEPT !.at = "poll"] /\ UNCHANGED listener
             \/ main.at = "poll" /\ main' = [main EXCEPT !.at = "bind"]
                  /\ listener' = [listener EXCEPT !.poll = "live"]
             \/ main.at = "bind" /\ main' = [main EXCEPT !.at = "start"] /\ UNCHANGED listener
    <3>1. StartTyped' /\ ListenerInv'
      BY <1>1, <1>2, <2>1 DEF StartTyped, ListenerInv, Before
    <3>2. main'.at \in Before /\ listener'.should_stop = listener.should_stop
      BY <1>2, <2>1 DEF StartTyped, Before
    <3> QED BY <1>1, <1>2, <1>5, <3>1, <3>2, SetUpStep DEF Before
  <2>2. CASE main.at = "bind" /\ main' = [at |-> "open", tries |-> main.tries + 1]
             /\ listener' = Closed(listener)
    <3>1. /\ main'.at = "open" /\ ~ listener'.socket /\ listener'.poll = "deleted"
          /\ listener'.should_stop = listener.should_stop
      BY <1>2, <2>2 DEF StartTyped, Closed
    <3>2. main' \in [at : Before, tries : Int]
      BY <1>2, <2>2 DEF StartTyped, Before
    <3>3. listener' \in [socket : BOOLEAN, poll : {"null", "live", "deleted"},
                         should_stop : BOOLEAN]
      BY <1>2, <2>2 DEF StartTyped, Closed
    <3>4. StartTyped'
      BY <1>1, <1>2, <3>2, <3>3 DEF StartTyped
    <3>5. ListenerInv' /\ main'.at \in Before
      BY <3>1 DEF ListenerInv, Before
    <3> QED BY <1>1, <1>2, <1>5, <3>1, <3>4, <3>5, SetUpStep DEF Before
  <2>3. SetOption => main' = [main EXCEPT !.at = "poll"] /\ UNCHANGED listener
    BY <1>2, <1>5 DEF SetOption, Close, At, Goto, ListenerInv
  <2> QED
    BY <1>2, <1>5, <2>1, <2>2, <2>3
    DEF CheckBacklog, OpenSocket, SetOption, CreatePoll, BindAndListen, Throws, At, Goto,
        BindFails, Retried
<1>6. process' \in {"running", "exited", "undefined"}
  BY <1>2
  DEF CheckBacklog, OpenSocket, SetOption, CreatePoll, BindAndListen, Throws, Close,
      BindFails, Retried
<1> QED BY <1>3, <1>4, <1>5, <1>6

(* Server::Create, and the start of the thread before it.                  *)
LEMMA AddStep ==
  ASSUME StartInv, StartListener \/ NewServer \/ AddHandler
  PROVE  StartInv'
<1>1. /\ Running /\ main.at \in {"start", "reset"} \cup Adding /\ UNCHANGED listener
      /\ StartTyped /\ ListenerInv /\ ThreadInv /\ HandlersInv /\ IndexInv
  BY DEF StartInv, StartListener, NewServer, AddHandler, BeginPush, EndPush, ResetCurrent, At,
         Adding, Preparing
<1>2. ~ listener.should_stop /\ thread.at \notin {"close", "ended"} /\ listener.socket
      /\ listener.poll = "live"
  BY <1>1 DEF ThreadInv, ListenerInv, Adding, StartTyped
<1>3. CASE process' = "exited"
  BY <1>1, <1>3, ExitStep
  DEF StartListener, NewServer, AddHandler, BeginPush, EndPush, ResetCurrent, Throws, Running,
      Preparing, StartTyped
<1>4. CASE UNCHANGED process
  <2>0. process' = "running" BY <1>1, <1>4 DEF Running
  <2>1. CASE StartListener
    <3>1. /\ thread' = [thread EXCEPT !.at = "poll"] /\ main' = [main EXCEPT !.at = "server"]
          /\ UNCHANGED <<handlers, current>> /\ main.at = "start"
      BY <2>1 DEF StartListener, Goto, At
    <3>2. thread'.at = "poll" /\ main'.at = "server" /\ handlers = 0 /\ StartTyped'
      BY <1>1, <3>1 DEF StartTyped, HandlersInv, Before, Adding, Others
    <3>3. ListenerInv' /\ ThreadInv' /\ HandlersInv' /\ IndexInv'
      BY <1>1, <1>2, <3>1, <3>2
      DEF ListenerInv, ThreadInv, HandlersInv, IndexInv, Before, Ending, Others
    <3> QED BY <2>0, <3>2, <3>3 DEF StartInv, CrashesInWindows
  <2>2. CASE \/ main.at = "server" /\ main' = [main EXCEPT !.at = "push"]
             \/ main.at = "push" /\ main' = [main EXCEPT !.at = "pushing"]
    <3>1. UNCHANGED <<handlers, current, thread>>
      BY <1>1, <2>2
      DEF StartListener, NewServer, AddHandler, BeginPush, EndPush, ResetCurrent, Preparing, At
    <3>2. main'.at \in {"push", "pushing"} /\ StartTyped'
      BY <1>1, <2>2, <3>1 DEF StartTyped, Adding
    <3>3. ListenerInv' /\ ThreadInv' /\ HandlersInv' /\ IndexInv'
      BY <1>1, <1>2, <2>2, <3>1, <3>2
      DEF ListenerInv, ThreadInv, HandlersInv, IndexInv, Before, Ending, Adding, StartTyped
    <3> QED BY <2>0, <3>2, <3>3 DEF StartInv, CrashesInWindows
  <2>3. CASE EndPush
    <3>1. /\ handlers' = handlers + 1 /\ main' = [main EXCEPT !.at = "reset"]
          /\ thread' = [thread EXCEPT !.moved = @ \/ thread.at = "create"]
          /\ main.at = "pushing" /\ UNCHANGED current
      BY <2>3 DEF EndPush, Goto, At
    <3> DEFINE moved == thread.moved \/ thread.at = "create"
    <3>a. moved \in BOOLEAN /\ thread' = [thread EXCEPT !.moved = moved]
      BY <3>1
    <3> HIDE DEF moved
    <3>b. handlers + 1 \in Nat BY <1>1 DEF StartTyped
    <3>c. thread' \in [at : Advancing \cup Others, next : Nat, moved : BOOLEAN]
      BY <1>1, <3>a DEF StartTyped
    <3>2. /\ main'.at = "reset" /\ thread'.at = thread.at /\ thread'.next = thread.next
          /\ StartTyped'
      BY <1>1, <3>1, <3>a, <3>b, <3>c DEF StartTyped
    <3>3. ListenerInv' /\ ThreadInv' /\ HandlersInv'
      BY <1>1, <1>2, <3>1, <3>2 DEF ListenerInv, ThreadInv, HandlersInv, Before, StartTyped
    <3>4. IndexInv'
      BY <1>1, <3>1, <3>2 DEF IndexInv, StartTyped
    <3> QED BY <2>0, <3>2, <3>3, <3>4 DEF StartInv, CrashesInWindows
  <2>4. CASE ResetCurrent
    <3>1. /\ current' = 0 /\ UNCHANGED <<handlers, thread>> /\ main.at = "reset"
          /\ \/ main' = [main EXCEPT !.at = "server"] \/ main' = [main EXCEPT !.at = "done"]
      BY <2>4 DEF ResetCurrent, Goto, At
    <3>2. main'.at \in {"server", "done"} /\ StartTyped'
      BY <1>1, <3>1 DEF StartTyped, Adding, Ending
    <3>3. ListenerInv' /\ ThreadInv' /\ HandlersInv'
      BY <1>1, <1>2, <3>1, <3>2 DEF ListenerInv, ThreadInv, HandlersInv, Before, Ending
    <3>4. IndexInv'
      BY <1>1, <3>1 DEF IndexInv, HandlersInv, StartTyped
    <3> QED BY <2>0, <3>2, <3>3, <3>4 DEF StartInv, CrashesInWindows
  <2>5. NewServer => main.at = "server" /\ main' = [main EXCEPT !.at = "push"]
    BY <1>1, <1>4 DEF NewServer, Throws, Running, At, Goto
  <2>6. BeginPush => main.at = "push" /\ main' = [main EXCEPT !.at = "pushing"]
    BY DEF BeginPush, At, Goto
  <2> QED BY <2>1, <2>2, <2>3, <2>4, <2>5, <2>6 DEF AddHandler
<1> QED
  BY <1>3, <1>4
  DEF StartListener, NewServer, AddHandler, BeginPush, EndPush, ResetCurrent, Throws

(* Stop(), Join() and the destruction.                                     *)
LEMMA EndStep ==
  ASSUME StartInv, StopListener \/ JoinListener \/ DestroyListener
  PROVE  StartInv'
<1>1. /\ Running /\ main.at \in Ending /\ UNCHANGED <<handlers, current, thread>>
      /\ StartTyped /\ ListenerInv /\ ThreadInv /\ HandlersInv /\ IndexInv /\ process = "running"
  BY DEF StartInv, StopListener, JoinListener, DestroyListener, At, Ending, Preparing, Running
<1>2. main.at \in {"destroy", "over"} => ~ listener.socket
  BY <1>1 DEF ThreadInv, ListenerInv
<1>3. /\ UNCHANGED process
      /\ \/ /\ main.at = "done" /\ main' = [main EXCEPT !.at = "join"]
            /\ listener' = [listener EXCEPT !.should_stop = TRUE]
         \/ /\ main.at = "join" /\ main' = [main EXCEPT !.at = "destroy"] /\ thread.at = "ended"
            /\ UNCHANGED listener
         \/ /\ main.at = "destroy" /\ main' = [main EXCEPT !.at = "over"] /\ UNCHANGED listener
  BY <1>1, <1>2 DEF StopListener, JoinListener, DestroyListener, At, Goto
<1>4. /\ StartTyped' /\ main'.at \in {"join", "destroy", "over"}
      /\ listener'.socket = listener.socket /\ listener'.poll = listener.poll
      /\ main'.at \in {"destroy", "over"} => thread.at = "ended"
      /\ listener.should_stop => listener'.should_stop
  BY <1>1, <1>3 DEF StartTyped, Ending, ThreadInv
<1>5. ListenerInv' /\ ThreadInv' /\ HandlersInv' /\ IndexInv'
  BY <1>1, <1>4 DEF ListenerInv, ThreadInv, HandlersInv, IndexInv, Ending, Before
<1> QED BY <1>1, <1>3, <1>4, <1>5 DEF StartInv, CrashesInWindows

-----------------------------------------------------------------------------
(* The listener's thread.                                                  *)
LEMMA ThreadStep ==
  ASSUME StartInv, Run
  PROVE  StartInv'
<1>1. /\ Running /\ thread.at # "none" /\ UNCHANGED <<main, handlers>>
      /\ StartTyped /\ ListenerInv /\ ThreadInv /\ HandlersInv /\ IndexInv /\ process = "running"
  BY DEF StartInv, Run, LeaveLoop, DoPoll, EventError, EventRead, CloseListener, Accept,
         GetCurrentHandler, Create, LoadCurrent, StoreCurrent, Compare, WrapCurrent, ThreadAt,
         Listening, Running
<1>2. /\ main.at \notin Before /\ main.at \notin {"backlog", "open", "option", "poll"}
      /\ handlers \in Nat /\ current \in Nat /\ thread.next \in Nat
  BY <1>1 DEF ThreadInv, Before, StartTyped
<1>3. CASE UNCHANGED <<listener, current, thread>> /\ process' = "exited"
  BY <1>1, <1>3, ExitStep DEF StartTyped
<1>4. CASE UNCHANGED <<listener, current, thread>> /\ process' = "undefined" /\ (TooEarly \/ Growing)
  <2>1. StartTyped' /\ CrashesInWindows'
    BY <1>1, <1>4 DEF StartTyped, CrashesInWindows, TooEarly, Growing
  <2> QED BY <1>4, <2>1, CrashStep
<1>5. ASSUME UNCHANGED <<listener, process>>, thread.at # "ended", thread'.at # "ended",
             thread'.at = "close" => listener.should_stop,
             thread' \in [at : Advancing \cup (Others \ {"none"}), next : Nat, moved : BOOLEAN],
             current' \in Nat, IndexInv'
      PROVE  StartInv'
  <2>1. thread'.at # "none" BY <1>5 DEF Advancing
  <2>2. StartTyped' BY <1>1, <1>5 DEF StartTyped
  <2>3. ListenerInv' /\ ThreadInv' /\ HandlersInv'
    BY <1>1, <1>2, <1>5, <2>1 DEF ListenerInv, ThreadInv, HandlersInv
  <2> QED BY <1>1, <1>5, <2>2, <2>3 DEF StartInv, CrashesInWindows
<1>6. CASE LeaveLoop \/ DoPoll \/ Accept
  <2>1. /\ UNCHANGED <<listener, current, process>> /\ thread.at \in {"poll", "accept"}
        /\ \/ thread' = [thread EXCEPT !.at = "close"] /\ listener.should_stop
           \/ thread' = [thread EXCEPT !.at = "accept"]
           \/ thread' = [thread EXCEPT !.at = "get"]
           \/ thread' = [thread EXCEPT !.at = "poll"]
    BY <1>6 DEF LeaveLoop, DoPoll, Accept, ThreadAt, Step
  <2>2. /\ thread'.at \in {"close", "accept", "get", "poll"}
        /\ thread'.at = "close" => listener.should_stop
    BY <1>1, <2>1 DEF StartTyped
  <2>3. thread' \in [at : Advancing \cup (Others \ {"none"}), next : Nat, moved : BOOLEAN]
    BY <1>1, <2>1 DEF StartTyped, Others
  <2>4. IndexInv' BY <1>1, <2>1, <2>2 DEF IndexInv, Others
  <2> QED BY <1>2, <1>5, <2>1, <2>2, <2>3, <2>4
<1>7. CASE GetCurrentHandler
  <2>1. CASE process' = "undefined"
    <3>1. thread.at = "get" /\ (current >= handlers \/ main.at = "pushing")
      BY <1>1, <1>7, <2>1 DEF GetCurrentHandler, ThreadAt
    <3>2. TooEarly \/ Growing
      BY <1>1, <1>2, <3>1 DEF TooEarly, Growing, IndexInv, Others
    <3> QED BY <1>1, <1>4, <1>7, <2>1, <3>2 DEF GetCurrentHandler
  <2>2. CASE UNCHANGED process
    <3>1. /\ current < handlers /\ thread.at = "get" /\ UNCHANGED <<listener, current>>
          /\ thread' = [thread EXCEPT !.at = "create", !.moved = FALSE]
      BY <1>1, <1>7, <2>2 DEF GetCurrentHandler, ThreadAt
    <3>2. /\ thread'.at = "create"
          /\ thread' \in [at : Advancing \cup (Others \ {"none"}), next : Nat, moved : BOOLEAN]
      BY <1>1, <3>1 DEF StartTyped, Advancing
    <3>3. IndexInv' BY <1>1, <3>1, <3>2 DEF IndexInv, Others
    <3> QED BY <1>2, <1>5, <2>2, <3>1, <3>2, <3>3
  <2> QED BY <1>7, <2>1, <2>2 DEF GetCurrentHandler
<1>8. CASE Create
  <2>1. CASE process' = "undefined"
    BY <1>1, <1>4, <1>8, <2>1 DEF Create, Growing, ThreadAt
  <2>2. CASE UNCHANGED process
    <3>1. /\ thread.at = "create" /\ UNCHANGED <<listener, current>>
          /\ thread' = [thread EXCEPT !.at = "increment"]
      BY <1>1, <1>8, <2>2 DEF Create, ThreadAt, Step
    <3>2. /\ thread'.at = "increment"
          /\ thread' \in [at : Advancing \cup (Others \ {"none"}), next : Nat, moved : BOOLEAN]
      BY <1>1, <3>1 DEF StartTyped, Advancing
    <3>3. IndexInv' BY <1>1, <3>1, <3>2 DEF IndexInv, Others
    <3> QED BY <1>2, <1>5, <2>2, <3>1, <3>2, <3>3
  <2> QED BY <1>8, <2>1, <2>2 DEF Create
<1>9. CASE LoadCurrent
  <2>1. /\ thread.at = "increment" /\ UNCHANGED <<listener, current, process>>
        /\ thread' = [thread EXCEPT !.at = "store", !.next = current + 1]
    BY <1>9 DEF LoadCurrent, ThreadAt
  <2>a. "store" \in Advancing /\ current + 1 \in Nat BY <1>2 DEF Advancing
  <2>2. /\ thread'.at = "store" /\ thread'.next = current + 1
        /\ thread' \in [at : Advancing \cup (Others \ {"none"}), next : Nat, moved : BOOLEAN]
    BY <1>1, <2>1, <2>a DEF StartTyped
  <2>3. IndexInv' BY <1>1, <1>2, <2>1, <2>2 DEF IndexInv, Others
  <2> QED BY <1>2, <1>5, <2>1, <2>2, <2>3
<1>10. CASE StoreCurrent
  <2>1. /\ thread.at = "store" /\ UNCHANGED <<listener, process>> /\ current' = thread.next
        /\ thread' = [thread EXCEPT !.at = "compare"]
    BY <1>10 DEF StoreCurrent, ThreadAt, Step
  <2>2. /\ thread'.at = "compare" /\ thread'.next = thread.next
        /\ thread' \in [at : Advancing \cup (Others \ {"none"}), next : Nat, moved : BOOLEAN]
    BY <1>1, <2>1 DEF StartTyped, Advancing
  <2>3. IndexInv' BY <1>1, <1>2, <2>1, <2>2 DEF IndexInv, Others
  <2> QED BY <1>2, <1>5, <2>1, <2>2, <2>3
<1>11. CASE Compare
  <2>1. /\ thread.at = "compare" /\ UNCHANGED <<listener, current, process>>
        /\ thread' = [thread EXCEPT !.at = IF thread.next = handlers THEN "wrap" ELSE "accept"]
    BY <1>11 DEF Compare, ThreadAt, Step, Wraps
  <2>2. /\ thread'.at = IF thread.next = handlers THEN "wrap" ELSE "accept"
        /\ thread' \in [at : Advancing \cup (Others \ {"none"}), next : Nat, moved : BOOLEAN]
    BY <1>1, <2>1 DEF StartTyped, Advancing, Others
  <2>3. IndexInv' BY <1>1, <1>2, <2>1, <2>2 DEF IndexInv, Others
  <2> QED BY <1>2, <1>5, <2>1, <2>2, <2>3
<1>12. CASE WrapCurrent
  <2>1. /\ thread.at = "wrap" /\ UNCHANGED <<listener, process>> /\ current' = 0
        /\ thread' = [thread EXCEPT !.at = "accept"]
    BY <1>12 DEF WrapCurrent, ThreadAt, Step
  <2>2. /\ thread'.at = "accept"
        /\ thread' \in [at : Advancing \cup (Others \ {"none"}), next : Nat, moved : BOOLEAN]
    BY <1>1, <2>1 DEF StartTyped, Others
  <2>3. IndexInv' BY <1>1, <1>2, <2>1, <2>2 DEF IndexInv, Others
  <2> QED BY <1>2, <1>5, <2>1, <2>2, <2>3
<1>13. CASE CloseListener
  <2>1. thread.at = "close" /\ thread' = [thread EXCEPT !.at = "ended"] /\ UNCHANGED current
    BY <1>13 DEF CloseListener, ThreadAt, Step
  <2>2. listener.socket /\ listener.poll = "live" /\ listener.should_stop
    BY <1>1, <1>2, <2>1 DEF ListenerInv, ThreadInv
  <2>3. listener' = Closed(listener) /\ UNCHANGED process
    BY <1>13, <2>2 DEF CloseListener, Close
  <2>4. /\ thread'.at = "ended" /\ thread'.next = thread.next /\ StartTyped'
        /\ ~ listener'.socket /\ listener'.poll = "deleted" /\ listener'.should_stop
    BY <1>1, <2>1, <2>2, <2>3 DEF StartTyped, Others, Closed
  <2>5. ListenerInv' /\ ThreadInv' /\ HandlersInv' /\ IndexInv'
    BY <1>1, <1>2, <2>1, <2>2, <2>4 DEF ListenerInv, ThreadInv, HandlersInv, IndexInv, Others
  <2> QED BY <1>1, <2>3, <2>4, <2>5 DEF StartInv, CrashesInWindows
<1>14. EventError => UNCHANGED <<listener, current, thread>> /\ process' = "exited"
  BY DEF EventError
<1> QED
  BY <1>3, <1>6, <1>7, <1>8, <1>9, <1>10, <1>11, <1>12, <1>13, <1>14 DEF Run, EventRead

-----------------------------------------------------------------------------
LEMMA NextStart ==
  ASSUME StartInv, [Next]_vars
  PROVE  StartInv'
<1>1. CASE UNCHANGED <<main, listener, handlers, current, thread, process>>
  BY <1>1
  DEF StartInv, StartTyped, Running, ListenerInv, ThreadInv, HandlersInv, IndexInv,
      CrashesInWindows, HalfBuilt, TooEarly, Growing
<1>2. Application => StartInv'
  BY OpenStep, AddStep, EndStep DEF Application
<1> QED BY <1>1, <1>2, ThreadStep DEF Next, Connect, Idle, vars

THEOREM StartInvariance == Spec => []StartInv
<1>1. Init => StartInv BY InitStart
<1>2. StartInv /\ [Next]_vars => StartInv' BY NextStart
<1> QED BY <1>1, <1>2, PTL DEF Spec

(* The set-up goes wrong in its windows only: the index that EventRead and *)
(* AddHandler both write stays good for any number of servers.             *)
THEOREM WindowsOnly == Spec => []CrashesInWindows
<1>1. StartInv => CrashesInWindows BY DEF StartInv
<1> QED BY <1>1, StartInvariance, PTL

(* Neither a try that failed nor the end leaves a socket or a poll object. *)
THEOREM AllClosed == Spec => []NothingLeft
<1>1. StartInv => NothingLeft
  BY DEF StartInv, StartTyped, ListenerInv, ThreadInv, NothingLeft, Before
<1> QED BY <1>1, StartInvariance, PTL

-----------------------------------------------------------------------------
(* Connections go round.  Due is the server that gets the next one, which  *)
(* may still be on its way from the register to current_handler_.  Read    *)
(* from there on and around, the servers have ever more connections.       *)
After(k) == IF k = NumServers THEN 0 ELSE k

Due ==
  IF thread.at \in {"create", "increment"} THEN After(current + 1)
  ELSE IF thread.at = "store" THEN After(thread.next)
  ELSE IF thread.at = "compare" THEN (IF thread.next = NumServers THEN 0 ELSE current)
  ELSE IF thread.at = "wrap" THEN 0 ELSE current

Servers == 0 .. NumServers - 1
FromOn(i, j, p) == (i >= p /\ j < p) \/ (i < j /\ ((i >= p) <=> (j >= p)))

InTurn(d, p) ==
  \A i, j \in Servers : d[i] <= d[j] + 1 /\ (FromOn(i, j, p) => d[i] <= d[j])

TurnInv ==
  /\ dealt \in [Servers -> Nat]
  /\ DealtInTurn
  /\ main.at \in Before \cup Adding => handlers < NumServers
  /\ main.at = "reset" => handlers <= NumServers
  /\ main.at \in Ending => handlers = NumServers
  /\ main.at \notin Ending => \A i \in Servers : dealt[i] = 0
  /\ Running /\ main.at \in Ending => InTurn(dealt, Due)

(* The one who is due gets a connection, and the next is due.              *)
LEMMA Deals ==
  ASSUME NEW d \in [Servers -> Nat], NEW p \in Servers, InTurn(d, p)
  PROVE  InTurn([d EXCEPT ![p] = @ + 1], After(p + 1))
<1> DEFINE e == [d EXCEPT ![p] = @ + 1]
<1>1. NumServers \in Nat \ {0}
  BY StartAssumption
<1>2. e[p] = d[p] + 1 /\ \A i \in Servers : e[i] \in Nat /\ d[i] \in Nat /\ (i # p => e[i] = d[i])
  OBVIOUS
<1>3. \A i \in Servers : i # p => FromOn(p, i, p)
  BY <1>1 DEF FromOn, Servers
<1>4. \A i \in Servers : d[p] <= d[i] /\ d[i] <= d[p] + 1
  BY <1>2, <1>3 DEF InTurn
<1> HIDE DEF e
<1>5. ASSUME NEW i \in Servers, NEW j \in Servers
      PROVE  e[i] <= e[j] + 1
  BY <1>2, <1>4, <1>5 DEF InTurn
<1>6. ASSUME NEW i \in Servers, NEW j \in Servers, FromOn(i, j, After(p + 1))
      PROVE  e[i] <= e[j]
  <2>1. CASE j = p
    BY <1>2, <1>4, <1>6, <2>1
  <2>2. CASE i = p /\ j # p
    BY <1>1, <1>6, <2>2 DEF FromOn, After, Servers
  <2>3. CASE i # p /\ j # p
    <3>1. FromOn(i, j, p)
      BY <1>1, <1>6, <2>3 DEF FromOn, After, Servers
    <3> QED BY <1>2, <2>3, <3>1 DEF InTurn
  <2> QED BY <2>1, <2>2, <2>3
<1> QED BY <1>5, <1>6 DEF InTurn, e

(* Nobody is dealt a connection, and the same server stays due.            *)
LEMMA TurnStays ==
  ASSUME TurnInv, UNCHANGED dealt, main'.at \in Ending <=> main.at \in Ending,
         main'.at \in Before \cup Adding => handlers' < NumServers,
         main'.at = "reset" => handlers' <= NumServers,
         main'.at \in Ending => handlers' = NumServers,
         Running' /\ main'.at \in Ending => Running /\ Due' = Due
  PROVE  TurnInv'
BY DEF TurnInv, DealtInTurn, InTurn

LEMMA InitTurn ==
  ASSUME Init
  PROVE  TurnInv
<1>1. /\ main.at = "backlog" /\ handlers = 0 /\ dealt = [i \in Servers |-> 0]
  BY DEF Init, Servers
<1> QED BY <1>1, StartAssumption DEF TurnInv, DealtInTurn, Before, Ending

(* The application: the last ResetCurrent is the one that starts to count. *)
LEMMA ApplicationTurn ==
  ASSUME StartInv, TurnInv, Application
  PROVE  TurnInv'
<1>1. Running /\ StartTyped /\ UNCHANGED dealt /\ NumServers \in Nat \ {0}
  BY StartAssumption
  DEF StartInv, Application, CheckBacklog, OpenSocket, SetOption, CreatePoll, BindAndListen, StartListener,
      NewServer, AddHandler, BeginPush, EndPush, ResetCurrent, StopListener, JoinListener,
      DestroyListener, At, Preparing
<1>2. CASE CheckBacklog \/ OpenSocket \/ SetOption \/ CreatePoll \/ BindAndListen \/ StartListener
  <2>1. /\ main.at \in Before /\ handlers' = handlers
        /\ main'.at \in Before \cup {"server"}
    BY <1>1, <1>2
    DEF CheckBacklog, OpenSocket, SetOption, CreatePoll, BindAndListen, StartListener, At, Goto,
        Preparing, Throws, Close, BindFails, Retried, Before, StartTyped
  <2>2. /\ main.at \notin Ending /\ main'.at \notin Ending \cup {"reset"}
    BY <2>1 DEF Before, Ending
  <2>3. handlers' < NumServers
    BY <2>1 DEF TurnInv
  <2> QED BY <1>1, <2>2, <2>3, TurnStays
<1>3. CASE NewServer \/ BeginPush \/ EndPush
  <2>1. /\ main.at \in Adding /\ main'.at \in {"server", "push", "pushing", "reset"}
        /\ main'.at = "reset" => handlers' = handlers + 1
        /\ main'.at # "reset" => handlers' = handlers
    BY <1>1, <1>3
    DEF NewServer, BeginPush, EndPush, At, Goto, Preparing, Throws, Adding, StartTyped
  <2>2. main.at \notin Ending /\ main'.at \notin Ending /\ handlers < NumServers /\ handlers \in Nat
    BY <1>1, <2>1 DEF Adding, Ending, TurnInv, StartTyped
  <2>3. /\ main'.at = "reset" => handlers' <= NumServers
        /\ main'.at # "reset" => handlers' < NumServers
    BY <1>1, <2>1, <2>2
  <2>4. main'.at \in Before \cup Adding => main'.at # "reset"
    BY DEF Before, Adding
  <2> QED BY <1>1, <2>2, <2>3, <2>4, TurnStays
<1>4. CASE ResetCurrent
  <2>1. /\ main.at = "reset" /\ handlers' = handlers /\ handlers <= NumServers /\ handlers \in Nat
        /\ main'.at = IF handlers < NumServers THEN "server" ELSE "done"
    BY <1>1, <1>4 DEF ResetCurrent, At, Goto, TurnInv, StartTyped
  <2>2. \A i \in Servers : dealt[i] = 0
    BY <2>1 DEF TurnInv, Ending
  <2>3. InTurn(dealt', Due')
    BY <1>1, <2>2 DEF InTurn
  <2>4. /\ main'.at \in Before \cup Adding => handlers' < NumServers
        /\ main'.at # "reset"
        /\ main'.at \in Ending => handlers' = NumServers
    BY <1>1, <2>1 DEF Before, Adding, Ending
  <2> QED BY <1>1, <2>2, <2>3, <2>4 DEF TurnInv, DealtInTurn
<1>5. CASE StopListener \/ JoinListener \/ DestroyListener
  <2>1. /\ main.at \in Ending /\ main'.at \in Ending /\ UNCHANGED <<handlers, current, thread>>
    BY <1>1, <1>5 DEF StopListener, JoinListener, DestroyListener, At, Goto, Preparing, Ending, StartTyped
  <2>2. main'.at \notin Before \cup Adding \cup {"reset"} /\ Due' = Due
    BY <2>1 DEF Before, Adding, Ending, Due
  <2> QED BY <1>1, <2>1, <2>2, TurnStays DEF TurnInv
<1> QED BY <1>2, <1>3, <1>4, <1>5 DEF Application, AddHandler

(* The thread: the index is in the register, in current_handler_ or wraps. *)
LEMMA ThreadTurn ==
  ASSUME StartInv, TurnInv, Run
  PROVE  TurnInv'
<1>1. Running /\ StartTyped /\ IndexInv /\ ThreadInv /\ UNCHANGED <<main, handlers>>
      /\ NumServers \in Nat \ {0}
  BY StartAssumption
  DEF StartInv, Run, LeaveLoop, DoPoll, EventError, EventRead, CloseListener, Accept,
      GetCurrentHandler, Create, LoadCurrent, StoreCurrent, Compare, WrapCurrent, ThreadAt,
      Listening
<1>2. /\ handlers \in Nat /\ current \in Nat /\ thread.next \in Nat
      /\ main.at \in Ending => handlers = NumServers
      /\ main.at \in Ending => main.at # "reset"
  BY <1>1 DEF StartTyped, TurnInv, Ending
<1>3. CASE ~ Running' /\ UNCHANGED dealt
  BY <1>1, <1>3, TurnStays DEF TurnInv
<1>4. CASE UNCHANGED dealt /\ (main.at \in Ending => Due' = Due)
  BY <1>1, <1>4, TurnStays DEF TurnInv
<1>5. CASE LeaveLoop \/ DoPoll \/ Accept \/ CloseListener
  <2>1. /\ UNCHANGED <<dealt, current>>
        /\ thread.at \in {"poll", "accept", "close"}
        /\ thread'.at \in {"poll", "accept", "close", "get", "ended"}
    BY <1>1, <1>5 DEF LeaveLoop, DoPoll, Accept, CloseListener, ThreadAt, Step, StartTyped
  <2>2. Due' = Due
    BY <2>1 DEF Due
  <2> QED BY <1>4, <2>1, <2>2
<1>6. CASE Create
  <2>1. CASE process' = "undefined"
    BY <1>3, <1>6, <2>1 DEF Create, Running
  <2>2. CASE Step("increment")
    <3>1. thread.at = "create" /\ thread'.at = "increment" /\ UNCHANGED <<dealt, current>>
      BY <1>1, <1>6, <2>2 DEF Create, ThreadAt, Step, StartTyped
    <3>2. Due' = Due
      BY <3>1 DEF Due
    <3> QED BY <1>4, <3>1, <3>2
  <2> QED BY <1>6, <2>1, <2>2 DEF Create
<1>7. CASE LoadCurrent
  <2>1. /\ thread.at = "increment" /\ thread'.at = "store" /\ thread'.next = current + 1
        /\ UNCHANGED <<dealt, current>>
    BY <1>1, <1>7 DEF LoadCurrent, ThreadAt, StartTyped
  <2>2. Due' = Due
    BY <2>1 DEF Due, After
  <2> QED BY <1>4, <2>1, <2>2
<1>8. CASE StoreCurrent
  <2>1. /\ thread.at = "store" /\ thread'.at = "compare" /\ thread'.next = thread.next
        /\ current' = thread.next /\ UNCHANGED dealt
    BY <1>1, <1>8 DEF StoreCurrent, ThreadAt, Step, StartTyped
  <2>2. Due' = Due
    BY <2>1 DEF Due, After
  <2> QED BY <1>4, <2>1, <2>2
<1>9. CASE Compare
  <2>1. /\ thread.at = "compare" /\ thread'.at = IF thread.next = handlers THEN "wrap" ELSE "accept"
        /\ UNCHANGED <<dealt, current>>
    BY <1>1, <1>9 DEF Compare, ThreadAt, Step, StartTyped, Wraps
  <2>2. main.at \in Ending => Due' = Due
    BY <1>2, <2>1 DEF Due
  <2> QED BY <1>4, <2>1, <2>2
<1>10. CASE WrapCurrent
  <2>1. thread.at = "wrap" /\ thread'.at = "accept" /\ current' = 0 /\ UNCHANGED dealt
    BY <1>1, <1>10 DEF WrapCurrent, ThreadAt, Step, StartTyped
  <2>2. Due' = Due
    BY <2>1 DEF Due
  <2> QED BY <1>4, <2>1, <2>2
<1>11. CASE GetCurrentHandler
  <2>1. CASE process' = "undefined" /\ UNCHANGED dealt
    BY <1>3, <2>1 DEF Running
  <2>2. CASE /\ current < handlers
             /\ thread' = [thread EXCEPT !.at = "create", !.moved = FALSE]
             /\ dealt' = IF main.at \in {"done", "join"} THEN [dealt EXCEPT ![current] = @ + 1] ELSE dealt
    <3>1. /\ thread.at = "get" /\ thread'.at = "create" /\ current' = current
      BY <1>1, <1>11, <2>2 DEF GetCurrentHandler, ThreadAt, StartTyped
    <3>2. main.at \in {"destroy", "over"} => FALSE
      BY <1>1, <3>1 DEF ThreadInv
    <3>3. CASE main.at \notin Ending
      <4>1. UNCHANGED dealt
        BY <2>2, <3>3 DEF Ending
      <4> QED BY <1>4, <3>3, <4>1
    <3>4. CASE main.at \in Ending
      <4>1. /\ current \in Servers /\ dealt' = [dealt EXCEPT ![current] = @ + 1]
            /\ dealt \in [Servers -> Nat] /\ Due = current /\ Due' = After(current + 1)
        BY <1>1, <1>2, <2>2, <3>1, <3>2, <3>4 DEF Ending, Servers, Due, TurnInv
      <4>2. InTurn(dealt, current)
        BY <1>1, <3>4, <4>1 DEF TurnInv
      <4>3. InTurn(dealt', Due')
        BY <4>1, <4>2, Deals
      <4>4. dealt' \in [Servers -> Nat] /\ DealtInTurn'
        BY <4>1, <4>3 DEF InTurn, DealtInTurn
      <4>5. main'.at = main.at /\ handlers' = handlers
        BY <1>1
      <4> QED BY <3>4, <4>3, <4>4, <4>5 DEF TurnInv
    <3> QED BY <3>3, <3>4
  <2> QED BY <1>11, <2>1, <2>2 DEF GetCurrentHandler
<1>12. CASE EventError
  BY <1>3, <1>12 DEF EventError, Running
<1> QED
  BY <1>5, <1>6, <1>7, <1>8, <1>9, <1>10, <1>11, <1>12 DEF Run, EventRead

LEMMA NextTurn ==
  ASSUME StartInv, TurnInv, [Next]_vars
  PROVE  TurnInv'
<1>1. CASE UNCHANGED <<main, handlers, current, thread, dealt, process>>
  BY <1>1 DEF TurnInv, DealtInTurn, InTurn, Running, Due
<1> QED BY <1>1, ApplicationTurn, ThreadTurn DEF Next, Connect, Idle, vars

(* DealtInTurn for any number of servers and connections, whatever         *)
(* current_handler_ held and wherever the race left it.                    *)
THEOREM GoesRound == Spec => []DealtInTurn
<1>1. Init => StartInv /\ TurnInv
  BY InitStart, InitTurn
<1>2. StartInv /\ TurnInv /\ [Next]_vars => (StartInv /\ TurnInv)'
  BY NextStart, NextTurn
<1>3. TurnInv => DealtInTurn
  BY DEF TurnInv
<1> QED BY <1>1, <1>2, <1>3, PTL DEF Spec
=============================================================================
