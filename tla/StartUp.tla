------------------------------- MODULE StartUp -------------------------------
(***************************************************************************)
(* How an application sets a listener up and takes it down:                *)
(* Server::CreateListener with its retries, BaseListener::Open and Close,  *)
(* Server::Create and AddHandler, which changes handlers_ while the thread *)
(* of the listener already accepts, and Stop and Join at the end.          *)
(*                                                                         *)
(* AddHandler locks a mutex that EventRead does not take.  What the thread *)
(* reads while push_back moves the vector, or through a reference into the *)
(* old one, may still be a server, or nothing: `undefined'.                *)
(***************************************************************************)
EXTENDS Integers

CONSTANTS NumServers,   \* servers the application creates
          Leftovers,    \* what an uninitialised current_handler_ may hold
          MaxPeers      \* bound: connections in all

ASSUME StartAssumption ==
  NumServers \in Nat \ {0} /\ Leftovers \subseteq Nat /\ MaxPeers \in Nat

VARIABLES
  main,      \* where the application is, and `tries'
  listener,  \* its socket and poll object, and should_stop
  handlers,  \* handlers_.size(); the servers are there in order of creation
  current,   \* current_handler_
  thread,    \* where the listener's thread is; ++current_handler_ in a register;
             \* whether the vector has moved since GetCurrentHandler()
  peers,     \* connections to come, and those that wait for accept()
  dealt,     \* per index: connections dealt since all servers are there
  process    \* "running", "exited" or "undefined"

vars == <<main, listener, handlers, current, thread, peers, dealt, process>>

Running == process = "running"

Init ==
  /\ main = [at |-> "backlog", tries |-> 0]
  /\ listener = [socket |-> FALSE, poll |-> "null", should_stop |-> FALSE]
  /\ handlers = 0
  /\ current \in Leftovers
  /\ thread = [at |-> "none", next |-> 0, moved |-> FALSE]
  /\ peers = [coming |-> MaxPeers, waiting |-> 0]
  /\ dealt = [i \in 0 .. NumServers - 1 |-> 0]
  /\ process = "running"

-----------------------------------------------------------------------------
(* CreateListener and BaseListener::Open, on the application's thread.     *)
At(at)   == Running /\ main.at = at
Goto(at) == main' = [main EXCEPT !.at = at]

(* An exception ends the application: main() of the demo exits.            *)
Throws == process' = "exited" /\ UNCHANGED main

(* BaseListener::Close with a valid descriptor: it calls poll_.            *)
Closed(l) == [l EXCEPT !.socket = FALSE, !.poll = "deleted"]
Close ==
  IF listener.poll = "live"
  THEN listener' = Closed(listener) /\ UNCHANGED process
  ELSE process' = "undefined" /\ UNCHANGED listener

Preparing == UNCHANGED <<handlers, current, thread, peers, dealt>>

CheckBacklog ==
  /\ At("backlog")
  /\ \/ Goto("open") /\ UNCHANGED process
     \/ Throws
  /\ Preparing /\ UNCHANGED listener

OpenSocket ==
  /\ At("open")
  /\ \/ /\ listener' = [listener EXCEPT !.socket = TRUE]
        /\ Goto("option") /\ UNCHANGED process
     \/ Throws /\ UNCHANGED listener
  /\ Preparing

(* When an option or the poll object fails, the exception destroys the     *)
(* listener, and ~BaseListener closes what is not complete.                *)
SetOption ==
  /\ At("option")
  /\ \/ Goto("poll") /\ UNCHANGED <<listener, process>>
     \/ Close /\ UNCHANGED main
  /\ Preparing

CreatePoll ==
  /\ At("poll")
  /\ \/ /\ listener' = [listener EXCEPT !.poll = "live"]
        /\ Goto("bind") /\ UNCHANGED process
     \/ process' = "undefined" /\ UNCHANGED <<main, listener>>
  /\ Preparing

Retried == IF main.tries < 3 THEN main' = [at |-> "open", tries |-> main.tries + 1] /\ UNCHANGED process
                             ELSE Throws

(* Mutant: the next try begins with what the last one left.                *)
BindFailsKept == UNCHANGED listener /\ Retried

BindFails == listener' = Closed(listener) /\ Retried

BindAndListen ==
  /\ At("bind")
  /\ \/ Goto("start") /\ UNCHANGED <<listener, process>>
     \/ BindFails
  /\ Preparing

StartListener ==
  /\ At("start")
  /\ thread' = [thread EXCEPT !.at = "poll"]
  /\ Goto("server")
  /\ UNCHANGED <<listener, handlers, current, peers, dealt, process>>

-----------------------------------------------------------------------------
(* Server::Create: the constructor, and AddHandler in three steps.         *)
NewServer ==
  /\ At("server")
  /\ \/ Goto("push") /\ UNCHANGED process
     \/ Throws
  /\ Preparing /\ UNCHANGED listener

BeginPush ==
  /\ At("push")
  /\ Goto("pushing")
  /\ Preparing /\ UNCHANGED <<listener, process>>

(* push_back may move the vector; a reference into it is lost.             *)
EndPush ==
  /\ At("pushing")
  /\ handlers' = handlers + 1
  /\ thread' = [thread EXCEPT !.moved = @ \/ thread.at = "create"]
  /\ Goto("reset")
  /\ UNCHANGED <<listener, current, peers, dealt, process>>

(* Mutant: the index is left as it is.                                     *)
ResetNothing ==
  /\ At("reset")
  /\ Goto(IF handlers < NumServers THEN "server" ELSE "done")
  /\ UNCHANGED <<listener, handlers, current, thread, peers, dealt, process>>

ResetCurrent ==
  /\ At("reset")
  /\ current' = 0
  /\ Goto(IF handlers < NumServers THEN "server" ELSE "done")
  /\ UNCHANGED <<listener, handlers, thread, peers, dealt, process>>

AddHandler == BeginPush \/ EndPush \/ ResetCurrent

-----------------------------------------------------------------------------
(* The end of an application that stops and joins the listener before it   *)
(* destroys it, as ~Server does with a listener_ that nobody sets.  What   *)
(* becomes of a thread that is not joined, as in the demo, is in DemoLife. *)
StopListener ==
  /\ At("done")
  /\ listener' = [listener EXCEPT !.should_stop = TRUE]
  /\ Goto("join")
  /\ Preparing /\ UNCHANGED process

JoinListener ==
  /\ At("join") /\ thread.at = "ended"
  /\ Goto("destroy")
  /\ Preparing /\ UNCHANGED <<listener, process>>

DestroyListener ==
  /\ At("destroy")
  /\ IF listener.socket THEN Close ELSE UNCHANGED <<listener, process>>
  /\ Goto("over")
  /\ Preparing

-----------------------------------------------------------------------------
(* The listener's thread: Run(), EventRead, GetCurrentHandler, Create.     *)
ThreadAt(at) == Running /\ thread.at = at
Step(at)     == thread' = [thread EXCEPT !.at = at]
Listening    == UNCHANGED <<main, handlers>>

LeaveLoop ==
  /\ ThreadAt("poll") /\ listener.should_stop
  /\ Step("close")
  /\ Listening /\ UNCHANGED <<listener, current, peers, dealt, process>>

DoPoll ==
  /\ ThreadAt("poll") /\ ~ listener.should_stop
  /\ peers.waiting > 0
  /\ Step("accept")
  /\ Listening /\ UNCHANGED <<listener, current, peers, dealt, process>>

(* An error on the socket: EventError throws, and nobody catches it.       *)
EventError ==
  /\ ThreadAt("poll") /\ ~ listener.should_stop
  /\ process' = "exited"
  /\ Listening /\ UNCHANGED <<listener, current, thread, peers, dealt>>

Accept ==
  /\ ThreadAt("accept")
  /\ IF peers.waiting > 0
     THEN peers' = [peers EXCEPT !.waiting = @ - 1] /\ Step("get")
     ELSE Step("poll") /\ UNCHANGED peers
  /\ Listening /\ UNCHANGED <<listener, current, dealt, process>>

(* handlers_[current_handler_].                                            *)
GetCurrentHandler ==
  /\ ThreadAt("get")
  /\ \/ /\ current < handlers
        /\ thread' = [thread EXCEPT !.at = "create", !.moved = FALSE]
        /\ dealt' = IF main.at \in {"done", "join"} THEN [dealt EXCEPT ![current] = @ + 1] ELSE dealt
        /\ UNCHANGED process
     \/ /\ current >= handlers \/ main.at = "pushing"
        /\ process' = "undefined"
        /\ UNCHANGED <<thread, dealt>>
  /\ Listening /\ UNCHANGED <<listener, current, peers>>

Create ==
  /\ ThreadAt("create")
  /\ \/ Step("increment") /\ UNCHANGED process
     \/ thread.moved /\ process' = "undefined" /\ UNCHANGED thread
  /\ Listening /\ UNCHANGED <<listener, current, peers, dealt>>

(* ++current_handler_ is a load and a store.                               *)
LoadCurrent ==
  /\ ThreadAt("increment")
  /\ thread' = [thread EXCEPT !.at = "store", !.next = current + 1]
  /\ Listening /\ UNCHANGED <<listener, current, peers, dealt, process>>

StoreCurrent ==
  /\ ThreadAt("store")
  /\ current' = thread.next
  /\ Step("compare")
  /\ Listening /\ UNCHANGED <<listener, peers, dealt, process>>

(* Mutant: the last server is left out.                                    *)
WrapsEarly(next) == next + 1 = handlers

Wraps(next) == next = handlers

Compare ==
  /\ ThreadAt("compare")
  /\ Step(IF Wraps(thread.next) THEN "wrap" ELSE "accept")
  /\ Listening /\ UNCHANGED <<listener, current, peers, dealt, process>>

WrapCurrent ==
  /\ ThreadAt("wrap")
  /\ current' = 0
  /\ Step("accept")
  /\ Listening /\ UNCHANGED <<listener, peers, dealt, process>>

CloseListener ==
  /\ ThreadAt("close")
  /\ IF listener.socket THEN Close ELSE UNCHANGED <<listener, process>>
  /\ Step("ended")
  /\ Listening /\ UNCHANGED <<current, peers, dealt>>

-----------------------------------------------------------------------------
(* A peer connects once listen() has been called.                          *)
Connect ==
  /\ Running /\ peers.coming > 0
  /\ listener.socket /\ main.at \notin {"backlog", "open", "option", "poll", "bind"}
  /\ peers' = [coming |-> peers.coming - 1, waiting |-> peers.waiting + 1]
  /\ UNCHANGED <<main, listener, handlers, current, thread, dealt, process>>

(* Nothing more happens, or DoPoll times out.                              *)
Idle ==
  /\ ~ Running \/ main.at = "over" \/ (thread.at = "poll" /\ peers.waiting = 0)
  /\ UNCHANGED vars

Application ==
  \/ CheckBacklog \/ OpenSocket \/ SetOption \/ CreatePoll \/ BindAndListen \/ StartListener
  \/ NewServer \/ AddHandler \/ StopListener \/ JoinListener \/ DestroyListener
EventRead ==
  Accept \/ GetCurrentHandler \/ Create \/ LoadCurrent \/ StoreCurrent \/ Compare \/ WrapCurrent
Run == LeaveLoop \/ DoPoll \/ EventError \/ EventRead \/ CloseListener

Next == Application \/ Run \/ Connect \/ Idle

Spec == Init /\ [][Next]_vars

-----------------------------------------------------------------------------
(* Properties.                                                             *)

(* The windows in which the set-up can go wrong: the exception of a half   *)
(* built listener, a connection before the first server is there, and a    *)
(* vector that grows under the thread that reads it.                       *)
HalfBuilt == main.at \in {"option", "poll"}
TooEarly  == thread.at = "get" /\ (handlers = 0 \/ (handlers = 1 /\ main.at = "reset"))
Growing   == (thread.at = "get" /\ main.at = "pushing") \/ (thread.at = "create" /\ thread.moved)

(* Nowhere else is anything undefined: whatever AddHandler and EventRead   *)
(* write over each other, the index stays good, and socket and poll object *)
(* are closed once, after failed tries too.                                *)
CrashesInWindows == process = "undefined" => HalfBuilt \/ TooEarly \/ Growing

(* Once all servers are there connections go round: no server gets two     *)
(* more than another, whatever was left in current_handler_ by the race.   *)
DealtInTurn == \A i, j \in DOMAIN dealt : dealt[i] <= dealt[j] + 1

(* Neither a try that failed nor the end leaves a socket or a poll object. *)
NothingLeft ==
  Running /\ (main.at \in {"open", "over"} \/ thread.at = "ended") =>
    ~ listener.socket /\ listener.poll # "live"
=============================================================================
