------------------------------ MODULE ReplyPath ------------------------------
(***************************************************************************)
(* What a peer gets back: one server thread of the demo over kqueue.  The  *)
(* thread polls, dispatches the waiting entries to EventRead and           *)
(* EventWrite, and answers the requests that were parsed; the listener     *)
(* hands it new connections at any moment.  Where ServerCore counts        *)
(* requests and replies, here a reply knows which request it answers and   *)
(* what it says about the connection, and EventWrite sends them one by     *)
(* one.  Every poll call is also made on an epoll object (ep), to compare  *)
(* the two back ends call by call.                                         *)
(*                                                                         *)
(* An accept with its Initialize is one step, and so is a Close: their     *)
(* interleavings are ServerCore's subject.                                 *)
(***************************************************************************)
EXTENDS Integers, Sequences, FiniteSets, SequencesExt

CONSTANTS Conns,        \* heap addresses of connection objects
          NULL,
          Fds,          \* descriptor numbers
          TableSize,    \* max_open_sockets: table_.size()
          Requests,     \* what a peer asks: a GET or not, to keep the connection or not
          MaxRequests   \* bound: requests parsed and bad pieces, live connections

ASSUME ReplyAssumption ==
  /\ NULL \notin Conns
  /\ TableSize \in Nat
  /\ Fds \subseteq 0 .. TableSize - 1
  /\ Requests \subseteq [get : BOOLEAN, keep : BOOLEAN]
  /\ MaxRequests \in Nat \ {0}

K == INSTANCE PollKQueue
E == INSTANCE PollEPoll
NoFd == K!NoFd

VARIABLES
  open,           \* the descriptors open in the process
  state,          \* Event::state_, or "FREE"
  desc,           \* Event::fd_
  is_persistent,  \* BaseConnection::is_persistent_
  bad,            \* HttpConnection::buffer_has_bad_data_
  asked,          \* history: every request parsed on the connection
  taken,          \* how many of them GetMessages has handed to the worker
  outgoing,       \* BaseConnection::outgoing_
  got,            \* history: every reply WriteStream took
  kq, ep,         \* the poll object, and its epoll twin
  wpc,            \* where the worker is
  at,             \* the connection whose handler runs
  batch           \* the rest of EventWrite's local list

objects == <<state, desc, is_persistent, bad, asked, taken, outgoing, got>>
polls   == <<kq, ep>>
worker  == <<wpc, at, batch>>
rvars   == <<open, objects, polls, worker>>

Replies == [to : 0 .. MaxRequests, keep : BOOLEAN]

Init ==
  /\ open = {}
  /\ state = [c \in Conns |-> "FREE"]
  /\ desc = [c \in Conns |-> NoFd]
  /\ is_persistent = [c \in Conns |-> FALSE]
  /\ bad = [c \in Conns |-> FALSE]
  /\ asked = [c \in Conns |-> <<>>]
  /\ taken = [c \in Conns |-> 0]
  /\ outgoing = [c \in Conns |-> <<>>]
  /\ got = [c \in Conns |-> <<>>]
  /\ kq = K!NewPoll
  /\ ep = E!NewPoll
  /\ wpc = "poll"
  /\ at = NULL
  /\ batch = <<>>

-----------------------------------------------------------------------------
EventOf(c) == [ptr |-> c, fd |-> desc[c]]
Connected(c) == state[c] = "CONNECTED"
LowestFree(f) == f \notin open /\ \A g \in Fds \ open : f <= g

(* Initialize up to InsertError on either back end, c having descriptor f. *)
Enrol(c, f) ==
  LET e == [ptr |-> c, fd |-> f]
  IN  /\ kq' = K!InsertError(K!InsertWrite(K!InsertRead(K!PollOpen(kq, e), e), e), e)
      /\ ep' = E!InsertError(E!InsertWrite(E!InsertRead(E!PollOpen(ep, e), e), e), e)

(* accept(), the constructor and Initialize.                               *)
LAccept ==
  /\ \E c \in Conns, f \in Fds :
       /\ state[c] = "FREE" /\ LowestFree(f)
       /\ open' = open \cup {f}
       /\ desc' = [desc EXCEPT ![c] = f]
       /\ Enrol(c, f)
       /\ state' = [state EXCEPT ![c] = "CONNECTED"]
  /\ UNCHANGED <<is_persistent, bad, asked, taken, outgoing, got, worker>>

-----------------------------------------------------------------------------
(* The worker.                                                             *)
WAt(pc) == wpc = pc

WDoPoll ==
  /\ WAt("poll")
  /\ \E report \in SUBSET K!Ready(kq) : kq' = K!DoPoll(kq, report)
  /\ wpc' = "perform"
  /\ UNCHANGED <<open, objects, ep, at, batch>>

(* PollKQueue::Perform: an entry is for one filter, and it is dispatched   *)
(* when its object is active and still asks for the filter.                *)
Dispatched(n) ==
  state[n.ptr] \notin {"INACTIVE", "CLOSING"} /\ n.filter \in K!EventMask_(kq, EventOf(n.ptr))

WNextEntry ==
  /\ WAt("perform")
  /\ \/ \E n \in kq.events :
          /\ kq' = [kq EXCEPT !.events = @ \ {n}]
          /\ \/ ~ Dispatched(n) /\ UNCHANGED <<wpc, at>>
             \/ Dispatched(n) /\ at' = n.ptr /\ wpc' = n.filter
     \/ /\ kq.events = {}
        /\ wpc' = "drain"
        /\ UNCHANGED <<kq, at>>
  /\ UNCHANGED <<open, objects, ep, batch>>

Return == wpc' = "perform" /\ at' = NULL
Goto(pc) == wpc' = pc /\ at' = at

(* SendMessage: each reply is queued, and the write filter armed.          *)
InsertWrite(c) == kq' = K!InsertWrite(kq, EventOf(c)) /\ ep' = E!InsertWrite(ep, EventOf(c))
SendMessages(c, replies) ==
  /\ outgoing' = [outgoing EXCEPT ![c] = @ \o replies]
  /\ IF replies = <<>> THEN UNCHANGED polls ELSE InsertWrite(c)

BadRequest == [to |-> 0, keep |-> FALSE]

Input == FoldFunction(LAMBDA s, n : Len(s) + n, Cardinality({c \in Conns : bad[c]}), asked)

(* Mutant: a read sets the persistence once, by its first request.         *)
PersistenceOfFirst(c, news) == IF news = <<>> THEN is_persistent[c] ELSE Head(news).keep

PersistenceAfter(c, news) == IF news = <<>> THEN is_persistent[c] ELSE Last(news).keep

(* EventRead: `news' are parsed; then the rest is incomplete or throws,    *)
(* and a second piece of bad data is answered with BadRequest (bound: one  *)
(* of these waits at most).                                                *)
WEventRead ==
  /\ WAt("IN")
  /\ LET c == at
     IN  /\ \E news \in SeqOf(Requests, MaxRequests - Input), throws \in BOOLEAN :
              /\ asked' = [asked EXCEPT ![c] = @ \o news]
              /\ is_persistent' = [is_persistent EXCEPT ![c] = PersistenceAfter(c, news)]
              /\ bad' = [bad EXCEPT ![c] = throws]
              /\ throws => Input + Len(news) < MaxRequests \/ bad[c]
              /\ throws /\ bad[c] => BadRequest \notin Range(outgoing[c])
              /\ SendMessages(c, IF throws /\ bad[c] THEN <<BadRequest>> ELSE <<>>)
  /\ Return
  /\ UNCHANGED <<open, state, desc, taken, got, batch>>

(* recv() had nothing after all: EAGAIN, EINTR.                            *)
WReadNothing ==
  /\ WAt("IN")
  /\ Return
  /\ UNCHANGED <<open, objects, polls, batch>>

(* ReadStream throws.                                                      *)
WReadFails ==
  /\ WAt("IN")
  /\ Goto("close")
  /\ UNCHANGED <<open, objects, polls, batch>>

(* EventWrite: with nothing to send the filter goes, else the list is      *)
(* swapped into a local.                                                   *)
WEventWrite ==
  /\ WAt("OUT")
  /\ \/ /\ outgoing[at] = <<>>
        /\ kq' = K!RemoveWrite(kq, EventOf(at)) /\ ep' = E!RemoveWrite(ep, EventOf(at))
        /\ Return
        /\ UNCHANGED <<outgoing, batch>>
     \/ /\ outgoing[at] # <<>>
        /\ batch' = outgoing[at]
        /\ outgoing' = [outgoing EXCEPT ![at] = <<>>]
        /\ Goto("send")
        /\ UNCHANGED polls
  /\ UNCHANGED <<open, state, desc, is_persistent, bad, asked, taken, got>>

(* Mutant: a reply sent in part is sent again.                             *)
RestResends(whole) == IF whole THEN Tail(batch) ELSE batch

Rest(whole) == Tail(batch)

(* WriteStream took the reply, or a part of it: EventWrite does not ask    *)
(* which.  EAGAIN and EINTR only yield, which changes nothing.  A reply    *)
(* that is not persistent is the last one.                                 *)
WSend ==
  /\ WAt("send")
  /\ LET r == Head(batch)
     IN  \E whole \in BOOLEAN :
           /\ got' = [got EXCEPT ![at] = Append(@, r)]
           /\ batch' = Rest(whole)
           /\ IF ~ r.keep THEN Goto("close")
              ELSE IF Rest(whole) = <<>> THEN Return
              ELSE Goto("send")
  /\ UNCHANGED <<open, state, desc, is_persistent, bad, asked, taken, outgoing, polls>>

(* WriteStream throws: Close(), and the loop ends.                         *)
WSendFails ==
  /\ WAt("send")
  /\ Goto("close")
  /\ UNCHANGED <<open, objects, polls, batch>>

(* The poll's part of Close(), then ::close(), which the kernel's two      *)
(* lists follow.                                                           *)
Withdraw(e) ==
  /\ kq' = K!Forget(K!PollClose(K!RemoveError(K!RemoveWrite(K!RemoveRead(kq, e), e), e), e), e.fd)
  /\ ep' = [E!PollClose(E!RemoveError(E!RemoveWrite(E!RemoveRead(ep, e), e), e), e)
              EXCEPT !.ctl[e.fd] = E!Unregistered]

(* The address is free again, and with it all the object held.             *)
Freed(c) ==
  /\ state' = [state EXCEPT ![c] = "FREE"]
  /\ desc' = [desc EXCEPT ![c] = NoFd]
  /\ is_persistent' = [is_persistent EXCEPT ![c] = FALSE]
  /\ bad' = [bad EXCEPT ![c] = FALSE]
  /\ asked' = [asked EXCEPT ![c] = <<>>]
  /\ taken' = [taken EXCEPT ![c] = 0]
  /\ outgoing' = [outgoing EXCEPT ![c] = <<>>]
  /\ got' = [got EXCEPT ![c] = <<>>]

(* BaseConnection::Close() on the worker; the set's pointer was the last.  *)
WClose ==
  /\ WAt("close")
  /\ Withdraw(EventOf(at))
  /\ open' = open \ {desc[at]}
  /\ Freed(at)
  /\ batch' = <<>>
  /\ Return

-----------------------------------------------------------------------------
Active == {c \in Conns : Connected(c) /\ taken[c] < Len(asked[c])}

(* Mutant: the loop over the requests ends after the first one.            *)
AnsweredFirstOnly(c) == {taken[c] + 1}

(* Process_ answers the requests it took up to and with the first that is  *)
(* not a GET; every answer carries what the connection says now.           *)
Answered(c) ==
  {i \in taken[c] + 1 .. Len(asked[c]) : \A j \in taken[c] + 1 .. i - 1 : asked[c][j].get}

Answers(c) ==
  [k \in 1 .. Cardinality(Answered(c)) |-> [to |-> taken[c] + k, keep |-> is_persistent[c]]]

(* GetActiveConnection yields the connection with the lowest descriptor.   *)
WServe ==
  /\ WAt("drain")
  /\ \E c \in Active :
       /\ \A d \in Active : desc[c] <= desc[d]
       /\ SendMessages(c, Answers(c))
       /\ taken' = [taken EXCEPT ![c] = Len(asked[c])]
  /\ UNCHANGED <<open, state, desc, is_persistent, bad, asked, got, worker>>

WDrained ==
  /\ WAt("drain") /\ Active = {}
  /\ wpc' = "poll"
  /\ UNCHANGED <<open, objects, polls, at, batch>>

Worker ==
  \/ WDoPoll \/ WNextEntry
  \/ WEventRead \/ WReadNothing \/ WReadFails \/ WEventWrite \/ WSend \/ WSendFails \/ WClose
  \/ WServe \/ WDrained

-----------------------------------------------------------------------------
(* Properties.                                                             *)

(* Every variable stays in its type.                                       *)
TypeOK ==
  /\ open \subseteq Fds
  /\ state \in [Conns -> {"FREE", "INACTIVE", "CONNECTED"}]
  /\ desc \in [Conns -> Fds \cup {NoFd}]
  /\ is_persistent \in [Conns -> BOOLEAN] /\ bad \in [Conns -> BOOLEAN]
  /\ asked \in [Conns -> Seq(Requests)]
  /\ taken \in [Conns -> 0 .. MaxRequests]
  /\ outgoing \in [Conns -> Seq(Replies)]
  /\ got \in [Conns -> Seq(Replies)]
  /\ kq \in K!PollType /\ ep \in E!PollType
  /\ wpc \in {"poll", "perform", "IN", "OUT", "send", "close", "drain"}
  /\ at \in Conns \cup {NULL}
  /\ batch \in Seq(Replies)

(* The kernel's two filters of a descriptor say what epoll's one mask      *)
(* says, both tables agree with their kernel, neither has thrown, and an   *)
(* entry that waits is for a live object that owns the descriptor: with    *)
(* one filter per entry, Perform() asks no object a handler has destroyed. *)
BackendsAgree ==
  /\ ~ kq.fault /\ ~ ep.fault
  /\ \A f \in Fds :
       /\ kq.table[f] = ep.table[f] \ {"ERR"} /\ ep.table[f] = ep.ctl[f].ev
       /\ ("ERR" \in ep.table[f]) <=> (ep.ctl[f].ptr # NULL)
       /\ \A b \in K!Filters :
            kq.filters[f][b] = IF b \in ep.ctl[f].ev THEN ep.ctl[f].ptr ELSE NULL
  /\ \A n \in kq.events : state[n.ptr] # "FREE" /\ desc[n.ptr] = n.fd

(* All the replies of a connection, sent or not, oldest first, and the     *)
(* requests they answer (0 for bad data).                                  *)
Written(c) == got[c] \o (IF c = at THEN batch ELSE <<>>) \o outgoing[c]
ReplyTo(c) == [i \in DOMAIN Written(c) |-> Written(c)[i].to]

(* The requests are answered in the order they were parsed, none twice     *)
(* and none before it was taken, however the replies are spread over       *)
(* WriteStream calls; and nothing is sent behind a reply that said the     *)
(* connection closes.                                                      *)
RepliesInOrder ==
  \A c \in Conns :
    /\ \A i \in DOMAIN ReplyTo(c) :
         /\ ReplyTo(c)[i] <= taken[c]
         /\ \A j \in 1 .. i - 1 : ReplyTo(c)[i] = 0 \/ ReplyTo(c)[j] < ReplyTo(c)[i]
    /\ \A i \in 1 .. Len(got[c]) - 1 : got[c][i].keep

(* A request that was taken and has no reply was dropped with the rest of  *)
(* its list: it directly follows, answered or dropped alike, a request     *)
(* that was not a GET and was answered.                                    *)
OnlyBehindOther ==
  \A c \in Conns : \A i \in 1 .. taken[c] :
    i \notin Range(ReplyTo(c)) =>
      \E j \in Range(ReplyTo(c)) \ {0} :
        j < i /\ ~ asked[c][j].get /\ (j + 1 .. i) \cap Range(ReplyTo(c)) = {}

=============================================================================
