------------------------------ MODULE ServerCore ------------------------------
(***************************************************************************)
(* The life of a connection: one listener thread (BaseListener) accepts    *)
(* descriptors and hands each to one of the servers in turn; one worker    *)
(* thread per server runs Server::Perform() and the request loop.  The two *)
(* sides share the server's connection set and poll object, the process's  *)
(* descriptor numbers and the heap.                                        *)
(*                                                                         *)
(* A member of Conns is a heap address: it is reused after the object at   *)
(* it was destroyed.  Descriptor numbers are reused after ::close().       *)
(***************************************************************************)
EXTENDS PollEPoll, FiniteSets

CONSTANTS NumServers,   \* servers registered with the listener
          MaxConnects,  \* Server::max_connects_
          MaxInFlight   \* bound: requests plus replies held by a connection

ASSUME CoreAssumption ==
  /\ NumServers \in Nat \ {0}
  /\ MaxConnects \in Nat
  /\ MaxInFlight \in Nat \ {0}

Servers == 1 .. NumServers

VARIABLES
  process,      \* "running", or why std::terminate() was called
  open,         \* the connection descriptors open in the process
  state,        \* Event::state_, or "FREE" when no object lives at the address
  desc,         \* Event::fd_
  handler,      \* BaseConnection::handler_
  incoming,     \* size of incoming_
  outgoing,     \* size of outgoing_
  connections,  \* Server::connections_
  activity,     \* Server::activity_
  poll,         \* Server::poll_
  wpc,          \* where the worker of a server is
  event,        \* the entry Perform() is dispatching; ptr is its local `event'
  ret,          \* where the worker goes on when BaseConnection::Close() returns
  lpc,          \* where the listener is
  lconn,        \* the listener's shared_ptr in HttpConnection::Create
  current       \* BaseListener::current_handler_

conn   == <<state, desc, handler, incoming, outgoing>>
server == <<connections, activity, poll>>
worker == <<wpc, event, ret>>
lstner == <<lpc, lconn, current>>
vars   == <<process, open, conn, server, worker, lstner>>

States == {"FREE", "INACTIVE", "CONNECTED", "CLOSING"}
Faults == {"freed_event", "poll_threw", "socket_dtor_threw", "erase_threw"}
ClosePCs == {"delete", "unpoll", "closefd", "release"}
WorkerPCs == {"poll", "perform", "err", "in", "out", "drain"} \cup ClosePCs
ListenerPCs == {"accept", "new", "init", "connected", "drop"}
NoEntry == [ptr |-> NULL, ev |-> {}]

Init ==
  /\ process = "running"
  /\ open = {}
  /\ state = [c \in Conns |-> "FREE"]
  /\ desc = [c \in Conns |-> NoFd]
  /\ handler = [c \in Conns |-> 1]
  /\ incoming = [c \in Conns |-> 0]
  /\ outgoing = [c \in Conns |-> 0]
  /\ connections = [s \in Servers |-> {}]
  /\ activity = [s \in Servers |-> {}]
  /\ poll = [s \in Servers |-> NewPoll]
  /\ wpc = [s \in Servers |-> "poll"]
  /\ event = [s \in Servers |-> NoEntry]
  /\ ret = [s \in Servers |-> "perform"]
  /\ lpc = "accept"
  /\ lconn = NULL
  /\ current = 1

-----------------------------------------------------------------------------
(* std::set<sptr, ConnectionLess>: the key of an element is its fd_.       *)
SetInsert(S, c) == IF \E d \in S : desc[d] = desc[c] THEN S ELSE S \cup {c}
SetErase(S, c)  == {d \in S : desc[d] # desc[c]}
IsBegin(S, c)   == \A d \in S : desc[c] <= desc[d]

EventOf(c) == [ptr |-> c, fd |-> desc[c]]

(* An exception of the poll object is caught by nobody on the thread.      *)
Survives(q) == process' = IF q.fault THEN "poll_threw" ELSE process

(* Mutant: Close() works on a raw pointer.                                 *)
InCloseUnlocked(s, c) == FALSE

(* The shared_ptrs to an object: the two sets of its server, the local     *)
(* `c' of a Close() in progress, and the listener's.                       *)
InClose(s, c) == wpc[s] \in ClosePCs /\ event[s].ptr = c

HeldByServer(c) == \E s \in Servers : c \in connections[s] \cup activity[s]

(* Destroying a connection runs ~Socket(), which throws while the          *)
(* descriptor is still valid.  ~BaseConnection's Close() has returned at   *)
(* once, or has closed the descriptor.                                     *)
Destroy(c) ==
  /\ state' = [state EXCEPT ![c] = "FREE"]
  /\ incoming' = [incoming EXCEPT ![c] = 0]
  /\ outgoing' = [outgoing EXCEPT ![c] = 0]
  /\ process' = IF desc[c] = NoFd THEN process ELSE "socket_dtor_threw"

(* Mutant: fd_ keeps the number it has given back.                         *)
ClosedKeepsFd(c) == desc

(* SocketFd::Close leaves fd_ = -1 behind.                                 *)
Closed(c) == [desc EXCEPT ![c] = NoFd]

-----------------------------------------------------------------------------
(* The listener: BaseListener::EventRead and HttpConnection::Create.       *)

Running == process = "running"
LAt(pc) == Running /\ lpc = pc
LGoto(pc) == lpc' = pc

(* The kernel hands out the lowest free descriptor number.                 *)
LowestFree(f) == \A g \in Fds \ open : f <= g

(* accept() returns a free descriptor and the constructor takes it over;   *)
(* a socket option that cannot be set makes SetOptions_ close it again.    *)
LAccept ==
  /\ LAt("accept")
  /\ \E f \in Fds \ open, c \in {d \in Conns : state[d] = "FREE"} :
       /\ LowestFree(f)
       /\ state' = [state EXCEPT ![c] = "INACTIVE"]
       /\ handler' = [handler EXCEPT ![c] = current]
       /\ lconn' = c
       /\ \/ desc' = [desc EXCEPT ![c] = f] /\ open' = open \cup {f}
          \/ desc' = [desc EXCEPT ![c] = NoFd] /\ open' = open
  /\ LGoto("new")
  /\ UNCHANGED <<process, incoming, outgoing, server, worker, current>>

(* Mutant: one connection too many is let in.                              *)
FullOffByOne(s) == Cardinality(connections[s]) > MaxConnects

Full(s) == Cardinality(connections[s]) >= MaxConnects

(* Server::NewConnection under the server's mutex.  When it throws, the    *)
(* SendMessage() of the catch block returns at once: the state is          *)
(* INACTIVE.                                                               *)
LNewConnection ==
  /\ LAt("new")
  /\ LET s == handler[lconn]
     IN  \/ /\ Full(s)
            /\ LGoto("drop")
            /\ UNCHANGED connections
         \/ /\ ~ Full(s)
            /\ connections' = [connections EXCEPT ![s] = SetInsert(@, lconn)]
            /\ LGoto("init")
  /\ UNCHANGED <<process, open, conn, activity, poll, worker, lconn, current>>

(* BaseConnection::Initialize up to InsertError.  The exceptions it may    *)
(* raise are not caught on the listener thread: epoll_ctl refuses fd_ = -1, *)
(* which SetOptions_ leaves behind when setsockopt() or fcntl() fails.     *)
Enrol(p, e) == InsertError(InsertWrite(InsertRead(PollOpen(p, e), e), e), e)

EnrolConnection ==
  LET s == handler[lconn]
      q == Enrol(poll[s], EventOf(lconn))
  IN  /\ poll' = [poll EXCEPT ![s] = q]
      /\ Survives(q)

(* Mutant: the connection is made CONNECTED before it is enrolled.         *)
LInitializeConnectedFirst ==
  /\ LAt("init")
  /\ EnrolConnection
  /\ LGoto("connected")
  /\ state' = [state EXCEPT ![lconn] = "CONNECTED"]
  /\ UNCHANGED <<open, desc, handler, incoming, outgoing, connections, activity, worker,
                 lconn, current>>

LInitialize ==
  /\ LAt("init")
  /\ EnrolConnection
  /\ LGoto("connected")
  /\ UNCHANGED <<open, conn, connections, activity, worker, lconn, current>>

(* The last statement of Initialize: SetState(STATE_CONNECTED).            *)
LConnected ==
  /\ LAt("connected")
  /\ state' = [state EXCEPT ![lconn] = "CONNECTED"]
  /\ LGoto("drop")
  /\ UNCHANGED <<process, open, desc, handler, incoming, outgoing, server, worker,
                 lconn, current>>

(* RemoveRead, RemoveWrite, RemoveError and Close on the handler's poll.   *)
(* Mutant: the descriptor stays in the poll.                               *)
WithdrawNothing(p, e) == p

(* Mutant: EPOLLERR stays armed.                                           *)
WithdrawKeepsError(p, e) == PollClose(RemoveWrite(RemoveRead(p, e), e), e)

Withdraw(p, e) == PollClose(RemoveError(RemoveWrite(RemoveRead(p, e), e), e), e)

(* Mutant: the round robin never wraps.                                    *)
NextHandlerNoWrap == current + 1

NextHandler == IF current = NumServers THEN 1 ELSE current + 1

(* ProcessEventRead_ discards the sptr and the listener moves to the next  *)
(* handler.  The object is destroyed here when nobody else holds it: it    *)
(* was rejected (~BaseConnection closes the descriptor; the weak pointer   *)
(* has expired and nothing is registered), or the worker has closed it.    *)
LDrop ==
  /\ LAt("drop")
  /\ LET c == lconn
     IN  IF HeldByServer(c) \/ \E s \in Servers : InClose(s, c)
         THEN UNCHANGED <<process, open, state, desc, incoming, outgoing, poll>>
         ELSE IF state[c] = "CLOSING"
         THEN Destroy(c) /\ UNCHANGED <<open, desc, poll>>
         ELSE /\ open' = open \ {desc[c]}
              /\ desc' = Closed(c)
              /\ state' = [state EXCEPT ![c] = "FREE"]
              /\ incoming' = [incoming EXCEPT ![c] = 0]
              /\ outgoing' = [outgoing EXCEPT ![c] = 0]
              /\ LET q == Withdraw(poll[handler[c]], EventOf(c))
                 IN  poll' = [poll EXCEPT ![handler[c]] = q] /\ Survives(q)
  /\ lconn' = NULL
  /\ current' = NextHandler
  /\ LGoto("accept")
  /\ UNCHANGED <<handler, connections, activity, worker>>

-----------------------------------------------------------------------------
(* A worker: Server::Perform, the Event handlers, and Process_.            *)

WAt(s, pc) == Running /\ wpc[s] = pc
WGoto(s, pc) == wpc' = [wpc EXCEPT ![s] = pc]

WDoPoll(s) ==
  /\ WAt(s, "poll")
  /\ \E ready \in SUBSET Registered(poll[s]) : \E report \in Reports(poll[s], ready) :
       poll' = [poll EXCEPT ![s] = DoPoll(@, report)]
  /\ WGoto(s, "perform")
  /\ UNCHANGED <<process, open, conn, connections, activity, event, ret, lstner>>

(* The loop head of PollEPoll::Perform: `event' is read from the entry     *)
(* once, before the three branches.                                        *)
WNextEntry(s) ==
  /\ WAt(s, "perform")
  /\ \/ /\ poll[s].events = {}
        /\ event' = [event EXCEPT ![s] = NoEntry]
        /\ WGoto(s, "drain")
        /\ UNCHANGED poll
     \/ \E n \in poll[s].events :
          /\ event' = [event EXCEPT ![s] = n]
          /\ poll' = [poll EXCEPT ![s].events = @ \ {n}]
          /\ WGoto(s, "err")
  /\ UNCHANGED <<process, open, conn, connections, activity, ret, lstner>>

(* `itr->events & bit && event && !event->IsInactive() &&                  *)
(*  EventMask_(event) & bit'                                               *)
Asked(s, bit) == bit \in event[s].ev
IsInactive(c) == state[c] \in {"INACTIVE", "CLOSING"}
Dispatch(s, bit) ==
  LET c == event[s].ptr
  IN  /\ Asked(s, bit)
      /\ state[c] # "FREE" /\ ~ IsInactive(c)
      /\ bit \in EventMask_(poll[s], EventOf(c))

(* The object was destroyed by an earlier branch of the same entry: what   *)
(* the freed memory holds decides.  It still reads as STATE_CLOSING, or    *)
(* the virtual call goes through a pointer that is not a vtable any more.  *)
FreedEvent(s, bit) == Asked(s, bit) /\ state[event[s].ptr] = "FREE"

Branch(s, pc, bit, next) ==
  /\ WAt(s, pc)
  /\ \/ /\ ~ Dispatch(s, bit)
        /\ WGoto(s, next)
        /\ UNCHANGED process
     \/ /\ FreedEvent(s, bit)
        /\ process' = "freed_event"
        /\ UNCHANGED wpc
  /\ UNCHANGED <<open, conn, server, event, ret, lstner>>

WSkipError(s) == Branch(s, "err", "ERR", "in")
WSkipRead(s)  == Branch(s, "in", "IN", "out")
WSkipWrite(s) == Branch(s, "out", "OUT", "perform")

(* BaseConnection::Close() up to the lock of weak_this_.  Handlers call it *)
(* only when the state is CONNECTED.                                       *)
EnterClose(s, after) ==
  /\ state' = [state EXCEPT ![event[s].ptr] = "CLOSING"]
  /\ ret' = [ret EXCEPT ![s] = after]
  /\ WGoto(s, "delete")

WEventError(s) ==
  /\ WAt(s, "err") /\ Dispatch(s, "ERR")
  /\ EnterClose(s, "in")
  /\ UNCHANGED <<process, open, desc, handler, incoming, outgoing, server, event, lstner>>

(* EventRead: ReadStream throws (end of stream, reset, timeout).           *)
WReadFails(s) ==
  /\ WAt(s, "in") /\ Dispatch(s, "IN")
  /\ EnterClose(s, "out")
  /\ UNCHANGED <<process, open, desc, handler, incoming, outgoing, server, event, lstner>>

(* Mutant: SendMessage does not arm EPOLLOUT.                              *)
ArmedNot(p, c) == p

(* SendMessage on a connected connection: queue the reply, arm EPOLLOUT.   *)
Armed(p, c) == InsertWrite(p, EventOf(c))

(* Mutant: only the first active connection is marked.                     *)
MarkActivityOnce(S, c) == IF S # {} THEN S ELSE {c}

(* ActivityOn: the set keeps one element per descriptor.                   *)
MarkActivity_(S, c) == IF c \in S THEN S ELSE SetInsert(S, c)

(* EventRead with data, or with nothing after EAGAIN (n = 0): n complete   *)
(* messages are parsed, then perhaps a second piece of bad data is         *)
(* answered with BadRequest.                                               *)
WEventRead(s) ==
  /\ WAt(s, "in") /\ Dispatch(s, "IN")
  /\ LET c == event[s].ptr
     IN  \E n \in 0 .. MaxInFlight, bad \in 0 .. 1 :
           /\ incoming[c] + outgoing[c] + n + bad <= MaxInFlight
           /\ incoming' = [incoming EXCEPT ![c] = @ + n]
           /\ outgoing' = [outgoing EXCEPT ![c] = @ + bad]
           /\ activity' = [activity EXCEPT ![s] = IF n > 0 THEN MarkActivity_(@, c) ELSE @]
           /\ poll' = [poll EXCEPT ![s] = IF bad > 0 THEN Armed(@, c) ELSE @]
  /\ Survives(poll'[s])
  /\ WGoto(s, "out")
  /\ UNCHANGED <<open, state, desc, handler, connections, event, ret, lstner>>

(* A GET whose Content-Length runs past the buffer: CString::Erase throws  *)
(* InternalError, which no caller on the worker thread catches.            *)
WEraseThrows(s) ==
  /\ WAt(s, "in") /\ Dispatch(s, "IN")
  /\ process' = "erase_threw"
  /\ UNCHANGED <<open, conn, server, worker, lstner>>

(* EventWrite: with nothing to send EPOLLOUT is disarmed; otherwise the    *)
(* whole queue is taken, and it is sent, or an error or a non-persistent   *)
(* reply closes the connection.                                            *)
WEventWrite(s) ==
  /\ WAt(s, "out") /\ Dispatch(s, "OUT")
  /\ LET c == event[s].ptr
     IN  \/ /\ outgoing[c] = 0
            /\ poll' = [poll EXCEPT ![s] = RemoveWrite(@, EventOf(c))]
            /\ WGoto(s, "perform")
            /\ UNCHANGED <<state, ret, outgoing>>
         \/ /\ outgoing[c] > 0
            /\ outgoing' = [outgoing EXCEPT ![c] = 0]
            /\ \/ WGoto(s, "perform") /\ UNCHANGED <<state, ret>>
               \/ EnterClose(s, "perform")
            /\ UNCHANGED poll
  /\ Survives(poll'[s])
  /\ UNCHANGED <<open, desc, handler, incoming, connections, activity, event, lstner>>

(* Mutant: connections_ keeps its shared_ptr.                              *)
WDeleteActivityOnly(s) ==
  /\ WAt(s, "delete")
  /\ LET c == event[s].ptr
     IN  activity' = [activity EXCEPT ![handler[c]] = SetErase(@, c)]
  /\ WGoto(s, "unpoll")
  /\ UNCHANGED <<process, open, conn, connections, poll, event, ret, lstner>>

(* Mutant: activity_ keeps its shared_ptr.                                 *)
WDeleteConnectionsOnly(s) ==
  /\ WAt(s, "delete")
  /\ LET c == event[s].ptr
     IN  connections' = [connections EXCEPT ![handler[c]] = SetErase(@, c)]
  /\ WGoto(s, "unpoll")
  /\ UNCHANGED <<process, open, conn, activity, poll, event, ret, lstner>>

(* Server::DeleteConnection under the server's mutex.                      *)
WDeleteConnection(s) ==
  /\ WAt(s, "delete")
  /\ LET c == event[s].ptr
         h == handler[c]
     IN  /\ connections' = [connections EXCEPT ![h] = SetErase(@, c)]
         /\ activity' = [activity EXCEPT ![h] = SetErase(@, c)]
  /\ WGoto(s, "unpoll")
  /\ UNCHANGED <<process, open, conn, poll, event, ret, lstner>>

WUnpoll(s) ==
  /\ WAt(s, "unpoll")
  /\ LET c == event[s].ptr
         q == Withdraw(poll[handler[c]], EventOf(c))
     IN  /\ poll' = [poll EXCEPT ![handler[c]] = q]
         /\ Survives(q)
  /\ WGoto(s, "closefd")
  /\ UNCHANGED <<open, conn, connections, activity, event, ret, lstner>>

(* Descriptor().Close(): fd_ = -1 and ::close(), after which the kernel    *)
(* drops what is left of the descriptor in every interest list.            *)
Forget(p, fd) == [p EXCEPT !.ctl = [f \in Fds |-> IF f = fd THEN Unregistered ELSE @[f]]]

WCloseFd(s) ==
  /\ WAt(s, "closefd")
  /\ LET c == event[s].ptr
     IN  /\ open' = open \ {desc[c]}
         /\ desc' = Closed(c)
         /\ poll' = [t \in Servers |-> Forget(poll[t], desc[c])]
  /\ WGoto(s, "release")
  /\ UNCHANGED <<process, state, handler, incoming, outgoing, connections, activity,
                 event, ret, lstner>>

(* Close() returns and its shared_ptr goes: the last owner destroys.       *)
WRelease(s) ==
  /\ WAt(s, "release")
  /\ LET c == event[s].ptr
     IN  IF HeldByServer(c) \/ lconn = c
         THEN UNCHANGED <<process, state, incoming, outgoing>>
         ELSE Destroy(c)
  /\ WGoto(s, ret[s])
  /\ UNCHANGED <<open, desc, handler, server, event, ret, lstner>>

(* GetMessages: the caller's list takes over all requests.                 *)
GetMessages(c) == [incoming EXCEPT ![c] = 0]

(* HttpWorker::Process_ after Perform: the connection with the lowest      *)
(* descriptor is taken from activity_, and its requests are answered up to *)
(* and including the first one that is not a GET; the rest is dropped.     *)
Serve(s) ==
  /\ \E c \in activity[s] :
       /\ IsBegin(activity[s], c)
       /\ activity' = [activity EXCEPT ![s] = @ \ {c}]
       /\ \/ /\ state[c] # "CONNECTED" \/ incoming[c] = 0
             /\ UNCHANGED <<incoming, outgoing, poll>>
          \/ /\ state[c] = "CONNECTED" /\ incoming[c] > 0
             /\ \E k \in 1 .. incoming[c] :
                  outgoing' = [outgoing EXCEPT ![c] = @ + k]
             /\ incoming' = GetMessages(c)
             /\ poll' = [poll EXCEPT ![s] = Armed(@, c)]
  /\ Survives(poll'[s])
  /\ UNCHANGED <<open, state, desc, handler, connections, event, ret, lstner>>

(* Mutant: one connection is served per turn, not all of them.             *)
WServeOne(s) == WAt(s, "drain") /\ Serve(s) /\ WGoto(s, "poll")

WServe(s) == WAt(s, "drain") /\ Serve(s) /\ UNCHANGED wpc

WDrained(s) ==
  /\ WAt(s, "drain") /\ activity[s] = {}
  /\ WGoto(s, "poll")
  /\ UNCHANGED <<process, open, conn, server, event, ret, lstner>>

-----------------------------------------------------------------------------
Listener == LAccept \/ LNewConnection \/ LInitialize \/ LConnected \/ LDrop

ListenerStep == LNewConnection \/ LInitialize \/ LConnected \/ LDrop

Worker(s) ==
  \/ WDoPoll(s) \/ WNextEntry(s)
  \/ WSkipError(s) \/ WSkipRead(s) \/ WSkipWrite(s)
  \/ WEventError(s) \/ WReadFails(s) \/ WEventRead(s) \/ WEraseThrows(s) \/ WEventWrite(s)
  \/ WDeleteConnection(s) \/ WUnpoll(s) \/ WCloseFd(s) \/ WRelease(s)
  \/ WServe(s) \/ WDrained(s)

(* std::terminate() was called: nothing moves any more.                    *)
Terminated == process # "running" /\ UNCHANGED vars

Next == Listener \/ (\E s \in Servers : Worker(s)) \/ Terminated

Spec == Init /\ [][Next]_vars

(* EventWrite spins in `while (WriteStream(...) == 0) Yield()' until the   *)
(* peer takes the reply: a worker that is here need not go on.             *)
Spinning(s) ==
  wpc[s] = "out" /\ Dispatch(s, "OUT") /\ outgoing[event[s].ptr] > 0

(* Threads keep being scheduled; nobody has to connect, or to read.  A     *)
(* worker has a step whenever the process runs and the listener whenever   *)
(* it also is past accept(), so these are the weak fairness conditions of  *)
(* Worker(s) and ListenerStep with ENABLED written out.                    *)
FairSpec ==
  /\ Spec
  /\ []<>(~ Running \/ lpc = "accept") \/ []<><<ListenerStep>>_vars
  /\ \A s \in Servers : []<>(~ Running \/ Spinning(s)) \/ []<><<Worker(s)>>_vars

(* Every peer takes its replies or loses its connection in the end.        *)
PeersRead == \A s \in Servers : []<>(~ Running \/ ~ Spinning(s))

-----------------------------------------------------------------------------
(* Properties.                                                             *)

(* Every variable stays in its type.                                       *)
TypeOK ==
  /\ process \in {"running"} \cup Faults
  /\ open \subseteq Fds
  /\ state \in [Conns -> States]
  /\ desc \in [Conns -> Fds \cup {NoFd}]
  /\ handler \in [Conns -> Servers]
  /\ incoming \in [Conns -> Nat] /\ outgoing \in [Conns -> Nat]
  /\ connections \in [Servers -> SUBSET Conns]
  /\ activity \in [Servers -> SUBSET Conns]
  /\ poll \in [Servers -> PollType]
  /\ wpc \in [Servers -> WorkerPCs]
  /\ event \in [Servers -> Interest]
  /\ \A s \in Servers : wpc[s] \in {"err", "in", "out"} \cup ClosePCs => event[s].ptr \in Conns
  /\ ret \in [Servers -> {"in", "out", "perform"}]
  /\ lpc \in ListenerPCs
  /\ lconn \in Conns \cup {NULL}
  /\ (lpc = "accept") <=> (lconn = NULL)
  /\ current \in Servers

(* A descriptor number the kernel may hand out again has left no trace:    *)
(* no live object carries it, and no server's table_ or interest list has  *)
(* an entry for it.  BaseConnection::Close must undo everything before the *)
(* ::close(), since the listener may accept the number at once.            *)
FreeFdIsClean ==
  \A f \in Fds \ open :
    /\ \A c \in Conns : desc[c] # f
    /\ \A s \in Servers : poll[s].table[f] = {} /\ poll[s].ctl[f] = Unregistered

(* An exception of Open(), Close(), epoll_ctl or ~Socket() ends the        *)
(* process, since nobody catches it.  There is one way only: SetOptions_   *)
(* fails and closes the descriptor, NewConnection admits the connection    *)
(* all the same, and Initialize hands fd_ = -1 to the poll object on the   *)
(* listener's thread, before SetState(STATE_CONNECTED).  On a worker, and  *)
(* for an accepted descriptor, nothing ever throws.                        *)
OnlyBadFdThrows ==
  /\ process # "socket_dtor_threw"
  /\ process = "poll_threw" =>
       lpc = "connected" /\ state[lconn] = "INACTIVE" /\ desc[lconn] = NoFd

(* What the kernel and events_ still point to is a live object of this     *)
(* very server, so that reading data.ptr is sound.                         *)
NoDanglingRegistration ==
  \A s \in Servers :
    /\ \A f \in Fds : LET c == poll[s].ctl[f].ptr
                      IN  c # NULL => state[c] # "FREE" /\ desc[c] = f /\ handler[c] = s
    /\ \A n \in poll[s].events : state[n.ptr] # "FREE" /\ handler[n.ptr] = s

(* The elements of connections_ and activity_ have valid, pairwise         *)
(* different keys: fd_ never changes under a std::set that orders by it.   *)
SetKeysSound ==
  \A s \in Servers : \A S \in {connections[s], activity[s]} : \A c, d \in S :
    /\ desc[c] = NoFd => lconn = c
    /\ desc[c] = desc[d] => c = d

(* A parsed request is never forgotten: its connection is in activity_.    *)
NoLostRequest ==
  \A c \in Conns : state[c] = "CONNECTED" /\ incoming[c] > 0 => c \in activity[handler[c]]

(* No connection goes deaf: a CONNECTED one is armed for reading and       *)
(* errors, and for writing while a reply is queued.                        *)
ReplyArmed ==
  \A c \in Conns : state[c] = "CONNECTED" =>
    LET mask == EventMask_(poll[handler[c]], EventOf(c))
    IN  /\ {"IN", "ERR"} \subseteq mask
        /\ outgoing[c] > 0 => "OUT" \in mask

(* A connection is held by its server for as long as it is CONNECTED, and  *)
(* a server never holds more than max_connects_ of them.                   *)
ServerOwnsConnected ==
  /\ \A c \in Conns : state[c] = "CONNECTED" => c \in connections[handler[c]]
  /\ \A s \in Servers : Cardinality(connections[s]) <= MaxConnects

(* STATE_CLOSING is final for an object: the listener's late SetState in   *)
(* Initialize never revives what a worker is closing.                      *)
ClosingIsFinal ==
  [][\A c \in Conns : state[c] = "CLOSING" => state'[c] \in {"CLOSING", "FREE"}]_vars

(* A connection that is being closed is destroyed, by whichever thread     *)
(* drops the last shared_ptr, even while peers do not read.                *)
ClosingIsDestroyed ==
  \A c \in Conns : state[c] = "CLOSING" ~> (state[c] = "FREE" \/ process # "running")

(* A parsed request is answered, or its connection goes, as long as no     *)
(* peer of the server stops reading for ever.                              *)
RequestTaken ==
  PeersRead => \A c \in Conns : incoming[c] > 0 ~> (incoming[c] = 0 \/ process # "running")

(* The comment in Server::Constructor_: the poll is opened "with           *)
(* additional 10 connections as a protection measure".  A connection that  *)
(* NewConnection admits has a slot in its server's table_.                 *)
AdmittedFitsTable ==
  \A s \in Servers : \A c \in connections[s] : desc[c] # NoFd => InTable(desc[c])

(* The comment in Perform: "Each branch must check for data.ptr != 0 to    *)
(* allow the socket to remove itself between the calls."  A branch never   *)
(* looks at an object that an earlier branch of the entry has destroyed.   *)
BranchEventAlive ==
  \A s \in Servers :
    /\ wpc[s] = "in" => ~ FreedEvent(s, "IN")
    /\ wpc[s] = "out" => ~ FreedEvent(s, "OUT")
=============================================================================
