------------------------- MODULE OutgoingConnection -------------------------
(***************************************************************************)
(* A connection that the program opens itself, next to the listener and    *)
(* the server of ReplyPath: HttpConnection::Create(local, remote, ...) on  *)
(* an application's thread.  The constructor keeps the descriptor twice,   *)
(* in the local SocketFd `fd' and in Event::fd_; the number is the         *)
(* process's, and the listener takes any that is free.                     *)
(*                                                                         *)
(* A SocketFd has no destructor; ~Socket() throws while Event::fd_ is      *)
(* valid, which ends the process when an exception is already on its way.  *)
(***************************************************************************)
EXTENDS ReplyPath

CONSTANT Limits   \* what SetMaxConnects may have been given

ASSUME ConnectAssumption == Limits \subseteq Nat

VARIABLES
  max_connects_,
  process,   \* "running", or how the constructor ended the process
  app,       \* the caller: where it is, its local `fd', the new object
  leaked     \* descriptors nobody has any more

vars == <<rvars, max_connects_, process, app, leaked>>

Losses == {"terminated", "stranger_closed"}
AppPCs == {"idle", "options", "connect", "select", "new", "connected"}
Idle   == [pc |-> "idle", fd |-> NoFd, c |-> NULL]

OInit == Init /\ max_connects_ \in Limits /\ process = "running" /\ app = Idle /\ leaked = {}

-----------------------------------------------------------------------------
AAt(pc) == app.pc = pc
AGoto(pc) == app' = [app EXCEPT !.pc = pc]
Owns == desc[app.c] # NoFd
Descriptor(f) == desc' = [desc EXCEPT ![app.c] = f]

(* ::close() of a number: the kernel forgets it.                           *)
Closes(f) ==
  /\ open' = open \ {f}
  /\ kq' = K!Forget(kq, f)
  /\ ep' = [ep EXCEPT !.ctl[f] = E!Unregistered]

(* socket(), SO_REUSEADDR and bind(); a failure behind socket() throws     *)
(* while only the local knows the number.  A failed socket() changes       *)
(* nothing.                                                                *)
AOpen ==
  /\ AAt("idle")
  /\ \E c \in Conns, f \in Fds :
       /\ state[c] = "FREE" /\ LowestFree(f)
       /\ open' = open \cup {f}
       /\ \/ /\ state' = [state EXCEPT ![c] = "INACTIVE"]
             /\ desc' = [desc EXCEPT ![c] = f]
             /\ app' = [pc |-> "options", fd |-> f, c |-> c]
             /\ UNCHANGED leaked
          \/ /\ leaked' = leaked \cup {f}
             /\ UNCHANGED <<state, desc, app>>
  /\ UNCHANGED <<process, is_persistent, bad, asked, taken, outgoing, got, polls, worker>>

(* SetOptions_: on a failure it closes Event::fd_ and returns as if        *)
(* nothing had happened; the local keeps the number.                       *)
AOptions ==
  /\ AAt("options")
  /\ AGoto("connect")
  /\ \/ UNCHANGED <<open, desc, polls>>
     \/ Descriptor(NoFd) /\ Closes(app.fd)
  /\ UNCHANGED <<process, leaked, state, is_persistent, bad, asked, taken, outgoing, got, worker>>

(* An exception leaves the constructor: ~Socket() runs.                    *)
Unwinds ==
  /\ app' = Idle
  /\ state' = [state EXCEPT ![app.c] = "FREE"]
  /\ process' = IF desc'[app.c] # NoFd THEN "terminated" ELSE process

(* The name cannot be resolved: Connect throws, nothing was closed.        *)
AUnresolved ==
  /\ AAt("connect")
  /\ UNCHANGED <<open, desc, polls>>
  /\ Unwinds
  /\ UNCHANGED <<leaked, is_persistent, bad, asked, taken, outgoing, got, worker>>

(* The usual way: connect() succeeds at once, or with EINPROGRESS.         *)
AConnects ==
  /\ AAt("connect") /\ Owns
  /\ AGoto("new") \/ AGoto("select")
  /\ UNCHANGED <<rvars, process, leaked>>

(* connect() is refused: the local is closed, Event::fd_ is not.  The      *)
(* number may have been given back before, and taken by the listener.      *)
ARefused ==
  /\ AAt("connect")
  /\ Closes(app.fd)
  /\ UNCHANGED desc
  /\ IF ~ Owns /\ app.fd \in open
     THEN /\ process' = "stranger_closed"
          /\ app' = Idle /\ state' = [state EXCEPT ![app.c] = "FREE"]
     ELSE Unwinds
  /\ UNCHANGED <<leaked, is_persistent, bad, asked, taken, outgoing, got, worker>>

(* Mutant: nothing is closed when the time is over.                        *)
TimedOutKeeps == UNCHANGED <<open, polls>> /\ Descriptor(NoFd)

TimedOut == Closes(app.fd) /\ Descriptor(NoFd)

(* select(): time is over, or the socket is writable, which is the case    *)
(* of a refused connection too, or select() itself failed.                 *)
ASelect ==
  /\ AAt("select")
  /\ \/ TimedOut /\ Unwinds
     \/ AGoto("new") /\ UNCHANGED <<process, open, state, desc, polls>>
  /\ UNCHANGED <<leaked, is_persistent, bad, asked, taken, outgoing, got, worker>>

(* connections_: what NewConnection has let in and Close() not yet erased. *)
Admitted == {c \in Conns : Connected(c) \/ (AAt("connected") /\ app.c = c)}
Full == Cardinality(Admitted) >= max_connects_

(* Create: NewConnection and Initialize (what SetPersistence has set is    *)
(* overwritten before a reply reads it).  When the server is full the      *)
(* exception leaves Create, and the last pointer to the object runs        *)
(* ~BaseConnection, whose Close() withdraws and closes.                    *)
ANewConnection ==
  /\ AAt("new")
  /\ \/ /\ ~ Full
        /\ Enrol(app.c, desc[app.c])
        /\ AGoto("connected")
        /\ UNCHANGED <<open, objects>>
     \/ /\ Full
        /\ Withdraw(EventOf(app.c))
        /\ open' = open \ {desc[app.c]}
        /\ Freed(app.c)
        /\ app' = Idle
  /\ UNCHANGED <<process, leaked, worker>>

(* The end of Initialize; Create's pointer is dropped, as the listener     *)
(* drops its own.                                                          *)
AConnected ==
  /\ AAt("connected")
  /\ state' = [state EXCEPT ![app.c] = "CONNECTED"]
  /\ app' = Idle
  /\ UNCHANGED <<process, leaked, open, desc, is_persistent, bad, asked, taken, outgoing, got,
                 polls, worker>>

App ==
  \/ AOpen \/ AOptions \/ AUnresolved \/ AConnects \/ ARefused \/ ASelect
  \/ ANewConnection \/ AConnected

-----------------------------------------------------------------------------
Running == process = "running"
Server  == ((LAccept /\ ~ Full) \/ Worker) /\ UNCHANGED <<process, app, leaked>>
Lost    == ~ Running /\ UNCHANGED vars

Next == (Running /\ (Server \/ App) /\ UNCHANGED max_connects_) \/ Lost

Spec == OInit /\ [][Next]_vars

(* The worker keeps being scheduled, and it has a step whenever the        *)
(* process runs (no step of another thread keeps app and lets `open' not   *)
(* grow); that a write only yields does not go on for ever, as every peer  *)
(* reads what it is sent; and an armed filter that keeps being asked for   *)
(* is reported, since the buffer of a peer that reads has room.  These are *)
(* a weak and strong fairness condition with ENABLED written out.          *)
WorkerStep == UNCHANGED <<app, leaked>> /\ open' \subseteq open
AsksWrite(c) == Running /\ WAt("poll") /\ "OUT" \in K!EventMask_(kq, EventOf(c))
Reported(c) == WAt("poll") /\ wpc' = "perform" /\ \E n \in kq'.events : n.ptr = c /\ n.filter = "OUT"

FairSpec ==
  /\ Spec
  /\ []<>(~ Running) \/ []<><<WorkerStep>>_vars
  /\ \A c \in Conns : <>[](~ AsksWrite(c)) \/ []<><<Reported(c)>>_vars

-----------------------------------------------------------------------------
(* Properties.                                                             *)

(* Every variable stays in its type.                                       *)
OTypeOK ==
  /\ TypeOK
  /\ max_connects_ \in Limits
  /\ process \in {"running"} \cup Losses
  /\ app \in [pc : AppPCs, fd : Fds \cup {NoFd}, c : Conns \cup {NULL}]
  /\ leaked \subseteq Fds

(* Unless a stranger's descriptor was closed, whose table entries and      *)
(* filters then contradict each other, the back ends agree on everything   *)
(* the listener, the worker and the constructor ask of them.               *)
BackendsStayEqual == process # "stranger_closed" => BackendsAgree

(* As long as the process runs, every open descriptor has exactly one      *)
(* owner: a live object, or nobody (a constructor that failed before       *)
(* SetDescriptor); and every number an object holds is open.  The          *)
(* constructor, the listener and the worker each open and close.           *)
DescriptorsOwned ==
  Running =>
    /\ open = leaked \cup ({desc[c] : c \in Conns} \ {NoFd})
    /\ \A c, d \in Conns : c # d /\ desc[c] = desc[d] => desc[c] = NoFd
    /\ \A c \in Conns : desc[c] \notin leaked
(* A connection whose last request asked for the end is closed, unless it  *)
(* goes on to ask for something else: every later reply carries            *)
(* is_persistent_ as that request has left it.                             *)
AskedClose(c) == Running /\ Connected(c) /\ asked[c] # <<>> /\ ~ Last(asked[c]).keep
CloseAsked == \A c \in Conns : AskedClose(c) ~> ~ AskedClose(c)
=============================================================================
