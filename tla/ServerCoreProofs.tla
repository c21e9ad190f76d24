--------------------------- MODULE ServerCoreProofs ---------------------------
(***************************************************************************)
(* Proofs about ServerCore for any number of servers, addresses and        *)
(* descriptors, provided every descriptor number has a slot in table_; and *)
(* that it implements ConnectionService.                                   *)
(***************************************************************************)
EXTENDS ServerCoreService, FiniteSetTheorems, TLAPS

FdsFit == \A f \in Fds : f < TableSize

-----------------------------------------------------------------------------
(* The inductive invariant, by the piece of state it is about.             *)

(* A descriptor belongs to at most one live object, and is open.           *)
DescInv ==
  \A c \in Conns :
    /\ desc[c] # NoFd => desc[c] \in open /\ state[c] # "FREE"
    /\ \A d \in Conns : desc[c] = desc[d] /\ desc[c] # NoFd => c = d

(* table_ and the kernel's interest list agree, and an entry belongs to    *)
(* the one object of this server that carries the descriptor.              *)
RegInv ==
  \A s \in Servers, f \in Fds :
    LET r == poll[s].ctl[f]
    IN  /\ poll[s].table[f] = r.ev
        /\ r.ptr = NULL <=> r.ev = {}
        /\ r.ptr # NULL => /\ desc[r.ptr] = f /\ handler[r.ptr] = s
                           /\ state[r.ptr] = "INACTIVE" => lpc = "connected"

(* The entries Perform() still has to dispatch are objects of this server  *)
(* that have not passed PollEPoll::Close.                                  *)
EventInv ==
  \A s \in Servers : \A n \in poll[s].events :
    /\ desc[n.ptr] # NoFd /\ handler[n.ptr] = s
    /\ state[n.ptr] = "INACTIVE" => lpc = "connected"
    /\ wpc[s] = "closefd" => event[s].ptr # n.ptr

(* Who holds an object in connections_ and activity_.                      *)
OwnerInv ==
  \A s \in Servers, c \in Conns :
    /\ c \in connections[s] =>
         /\ handler[c] = s /\ state[c] # "FREE"
         /\ desc[c] = NoFd => c = lconn /\ state[c] = "INACTIVE"
         /\ state[c] = "CLOSING" => wpc[s] = "delete" /\ event[s].ptr = c
    /\ c \in activity[s] => c \in connections[s] /\ state[c] \in {"CONNECTED", "CLOSING"}
    /\ state[c] = "CONNECTED" => desc[c] # NoFd /\ c \in connections[handler[c]]

(* The worker inside BaseConnection::Close().                              *)
CloseInv ==
  \A s \in Servers : wpc[s] \in ClosePCs =>
    /\ state[event[s].ptr] = "CLOSING" /\ handler[event[s].ptr] = s
    /\ desc[event[s].ptr] = NoFd <=> wpc[s] = "release"

(* Before the ::close() nothing is registered for the descriptor.          *)
UnpolledInv ==
  \A s \in Servers : wpc[s] = "closefd" => poll[s].table[desc[event[s].ptr]] = {}

(* Every closing object is inside Close(), or only the listener holds it.  *)
ClosingInv ==
  \A c \in Conns : state[c] = "CLOSING" =>
    \/ InClose(handler[c], c)
    \/ lconn = c /\ lpc = "drop" /\ desc[c] = NoFd

(* Where the listener's object is on its way.                              *)
ListenerInv ==
  /\ \A c \in Conns : state[c] = "INACTIVE" => lconn = c
  /\ lpc # "accept" => state[lconn] # "FREE"
  /\ lpc \in {"new", "init", "connected"} => state[lconn] = "INACTIVE"
  /\ lpc = "new" => \A s \in Servers : lconn \notin connections[s]
  /\ lpc \in {"init", "connected"} => lconn \in connections[handler[lconn]]
  /\ lpc = "drop" /\ state[lconn] = "INACTIVE" => \A s \in Servers : lconn \notin connections[s]
  /\ Running /\ lpc = "connected" =>
       desc[lconn] # NoFd /\ poll[handler[lconn]].table[desc[lconn]] = Ev

(* Requests and replies exist only on connected objects, and wake somebody. *)
QueueInv ==
  \A c \in Conns :
    /\ state[c] \in {"FREE", "INACTIVE"} => incoming[c] = 0 /\ outgoing[c] = 0
    /\ state[c] = "CONNECTED" =>
         /\ incoming[c] > 0 => c \in activity[handler[c]]
         /\ {"IN", "ERR"} \subseteq poll[handler[c]].table[desc[c]]
         /\ outgoing[c] > 0 => "OUT" \in poll[handler[c]].table[desc[c]]

FaultInv ==
  /\ OnlyBadFdThrows
  /\ Running => \A s \in Servers : ~ poll[s].fault

IInv == /\ TypeOK /\ DescInv /\ RegInv /\ EventInv /\ OwnerInv
        /\ CloseInv /\ UnpolledInv /\ ClosingInv /\ ListenerInv /\ QueueInv /\ FaultInv

-----------------------------------------------------------------------------
(* What the operations of the poll object do to a slot that is inside the  *)
(* table and on which table_ and the interest list agree.                  *)

(* The slot of f is consistent and is free or belongs to c.                *)
SlotOf(p, f, c) ==
  /\ p.table[f] = p.ctl[f].ev
  /\ p.ctl[f].ptr = NULL <=> p.ctl[f].ev = {}
  /\ p.ctl[f].ptr \in {NULL, c}

(* q is p with the mask m in the slot of f.                                *)
SlotSet(p, q, f, c, m) ==
  /\ q \in PollType
  /\ q.table = [p.table EXCEPT ![f] = m]
  /\ q.ctl = [p.ctl EXCEPT ![f] = IF m = {} THEN Unregistered ELSE [ptr |-> c, ev |-> m]]
  /\ q.events = p.events
  /\ ~ q.fault

(* Updates of one slot stay in the type of poll objects.                   *)
LEMMA TableTyped ==
  ASSUME NEW p \in PollType, NEW f \in Fds, NEW m \in SUBSET Ev
  PROVE  [p EXCEPT !.table[f] = m] \in PollType
BY DEF PollType

(* The same for an entry of the interest list.                             *)
LEMMA CtlTyped ==
  ASSUME NEW p \in PollType, NEW f \in Fds, NEW r \in Interest
  PROVE  [p EXCEPT !.ctl[f] = r] \in PollType
BY DEF PollType

(* Inserting a bit into a slot that is clean or already belongs to the     *)
(* object sets it in table_ and in the interest list and raises nothing.   *)
LEMMA InsertLemma ==
  ASSUME FdsFit, NEW p \in PollType, NEW c \in Conns, NEW f \in Fds, NEW bit \in Ev,
         ~ p.fault, SlotOf(p, f, c)
  PROVE  SlotSet(p, Insert(p, [ptr |-> c, fd |-> f], bit), f, c, p.table[f] \cup {bit})
<1> DEFINE e == [ptr |-> c, fd |-> f]
           m == p.table[f] \cup {bit}
<1>1. InTable(f) BY DEF InTable, FdsFit
<1>2. EventMask_(p, e) = p.table[f] BY <1>1 DEF EventMask_
<1>3. CASE bit \in p.table[f]
  <2>1. Insert(p, e, bit) = p
    BY <1>2, <1>3 DEF Insert, Modify_
  <2>2. p.ctl[f] = [ptr |-> c, ev |-> m]
    BY <1>3 DEF PollType, Interest, SlotOf
  <2>3. m = p.table[f] /\ m # {} BY <1>3
  <2>4. p.table = [p.table EXCEPT ![f] = m] /\ p.ctl = [p.ctl EXCEPT ![f] = [ptr |-> c, ev |-> m]]
    BY <2>2, <2>3 DEF PollType
  <2> QED BY <2>1, <2>3, <2>4 DEF SlotSet
<1>4. CASE bit \notin p.table[f]
  <2> DEFINE op == IF p.table[f] # {} THEN "MOD" ELSE "ADD"
             q == SetEventMask_(p, e, m)
             r == epoll_ctl(q, op, e, m)
  <2>1. ~ epoll_ctl_fails(p, op, f)
    BY DEF epoll_ctl_fails, SlotOf
  <2>2. q = [p EXCEPT !.table[f] = m]
    BY <1>1 DEF SetEventMask_
  <2>3. Insert(p, e, bit) = r
    BY <1>2, <1>4, <2>1 DEF Insert, Modify_
  <2>4. r = [q EXCEPT !.ctl[f] = [ptr |-> c, ev |-> m]]
    BY DEF epoll_ctl
  <2>5. [ptr |-> c, ev |-> m] \in Interest /\ m \in SUBSET Ev
    BY DEF Interest, PollType
  <2>6. r \in PollType
    <3>1. q \in PollType BY <2>2, <2>5, TableTyped
    <3> HIDE DEF q
    <3> QED BY <3>1, <2>4, <2>5, CtlTyped
  <2>7. /\ r.table = [p.table EXCEPT ![f] = m]
        /\ r.ctl = [p.ctl EXCEPT ![f] = [ptr |-> c, ev |-> m]]
        /\ r.events = p.events /\ ~ r.fault
    BY <2>2, <2>4 DEF PollType
  <2> QED BY <2>3, <2>6, <2>7 DEF SlotSet
<1> QED BY <1>3, <1>4

(* Removing a bit clears it in both, and gives the slot back when no bit   *)
(* is left.                                                                *)
LEMMA RemoveLemma ==
  ASSUME FdsFit, NEW p \in PollType, NEW c \in Conns, NEW f \in Fds, NEW bit \in Ev,
         ~ p.fault, SlotOf(p, f, c)
  PROVE  SlotSet(p, Remove(p, [ptr |-> c, fd |-> f], bit), f, c, p.table[f] \ {bit})
<1> DEFINE e == [ptr |-> c, fd |-> f]
           m == p.table[f] \ {bit}
           n == IF m = {} THEN Unregistered ELSE [ptr |-> c, ev |-> m]
<1>1. InTable(f) BY DEF InTable, FdsFit
<1>2. EventMask_(p, e) = p.table[f] BY <1>1 DEF EventMask_
<1>3. CASE bit \notin p.table[f]
  <2>1. Remove(p, e, bit) = p
    BY <1>2, <1>3 DEF Remove, Modify_
  <2>2. p.ctl[f] = n /\ m = p.table[f]
    BY <1>3 DEF PollType, Interest, SlotOf, Unregistered
  <2>3. p.table = [p.table EXCEPT ![f] = m] /\ p.ctl = [p.ctl EXCEPT ![f] = n]
    BY <2>2 DEF PollType
  <2> QED BY <2>1, <2>3 DEF SlotSet
<1>4. CASE bit \in p.table[f]
  <2> DEFINE op == IF m # {} THEN "MOD" ELSE "DEL"
             q == SetEventMask_(p, e, m)
             r == epoll_ctl(q, op, e, m)
  <2>1. ~ epoll_ctl_fails(p, op, f)
    BY <1>4 DEF epoll_ctl_fails, SlotOf
  <2>2. q = [p EXCEPT !.table[f] = m]
    BY <1>1 DEF SetEventMask_
  <2>3. Remove(p, e, bit) = r
    BY <1>2, <1>4, <2>1 DEF Remove, Modify_
  <2>4. r = [q EXCEPT !.ctl[f] = n]
    BY DEF epoll_ctl
  <2>5. n \in Interest /\ m \in SUBSET Ev
    BY DEF Interest, PollType, Unregistered
  <2>6. r \in PollType
    <3>1. q \in PollType BY <2>2, <2>5, TableTyped
    <3> HIDE DEF q, n
    <3> QED BY <3>1, <2>4, <2>5, CtlTyped
  <2>7. /\ r.table = [p.table EXCEPT ![f] = m]
        /\ r.ctl = [p.ctl EXCEPT ![f] = n]
        /\ r.events = p.events /\ ~ r.fault
    BY <2>2, <2>4 DEF PollType
  <2> QED BY <2>3, <2>6, <2>7 DEF SlotSet
<1> QED BY <1>3, <1>4

(* A slot that was set is consistent again, so that calls can be chained.  *)
LEMMA SlotSetOf ==
  ASSUME NEW p \in PollType, NEW q, NEW c \in Conns, NEW f \in Fds, NEW m \in SUBSET Ev,
         SlotSet(p, q, f, c, m)
  PROVE  SlotOf(q, f, c) /\ q.table[f] = m /\ q \in PollType /\ ~ q.fault
BY PollAssumption DEF SlotSet, SlotOf, PollType, Unregistered

(* Chained calls on one slot amount to the last one.                       *)
LEMMA SlotSetTrans ==
  ASSUME NEW p \in PollType, NEW q, NEW r, NEW c \in Conns, NEW f \in Fds,
         NEW m \in SUBSET Ev, NEW n \in SUBSET Ev,
         SlotSet(p, q, f, c, m), SlotSet(q, r, f, c, n)
  PROVE  SlotSet(p, r, f, c, n)
BY DEF SlotSet, PollType

(* Initialize on a clean slot registers the object for all three events.   *)
LEMMA EnrolLemma ==
  ASSUME FdsFit, NEW p \in PollType, NEW c \in Conns, NEW f \in Fds,
         ~ p.fault, SlotOf(p, f, c), p.table[f] = {}
  PROVE  SlotSet(p, Enrol(p, [ptr |-> c, fd |-> f]), f, c, Ev)
<1> DEFINE e == [ptr |-> c, fd |-> f]
           p0 == PollOpen(p, e)
           p1 == InsertRead(p0, e)
           p2 == InsertWrite(p1, e)
           p3 == InsertError(p2, e)
<1>1. p0 = p
  BY DEF PollOpen, EventMask_
<1>2. SlotSet(p, p1, f, c, {"IN"})
  BY <1>1, InsertLemma DEF InsertRead, Ev
<1> HIDE DEF p1
<1>3. SlotOf(p1, f, c) /\ p1.table[f] = {"IN"} /\ p1 \in PollType /\ ~ p1.fault
  BY <1>2, SlotSetOf DEF Ev
<1>4. SlotSet(p1, p2, f, c, {"IN", "OUT"})
  <2>1. SlotSet(p1, Insert(p1, e, "OUT"), f, c, p1.table[f] \cup {"OUT"})
    BY <1>3, InsertLemma DEF Ev
  <2>2. p1.table[f] \cup {"OUT"} = {"IN", "OUT"} BY <1>3
  <2> QED BY <2>1, <2>2 DEF InsertWrite
<1> HIDE DEF p2
<1>5. SlotOf(p2, f, c) /\ p2.table[f] = {"IN", "OUT"} /\ p2 \in PollType /\ ~ p2.fault
  BY <1>3, <1>4, SlotSetOf DEF Ev
<1>6. SlotSet(p2, p3, f, c, Ev)
  <2>1. SlotSet(p2, Insert(p2, e, "ERR"), f, c, p2.table[f] \cup {"ERR"})
    BY <1>5, InsertLemma DEF Ev
  <2>2. p2.table[f] \cup {"ERR"} = Ev BY <1>5 DEF Ev
  <2> QED BY <2>1, <2>2 DEF InsertError
<1>7. {"IN"} \in SUBSET Ev /\ {"IN", "OUT"} \in SUBSET Ev /\ Ev \in SUBSET Ev BY DEF Ev
<1>8. SlotSet(p, p2, f, c, {"IN", "OUT"})
  BY <1>2, <1>4, <1>7, SlotSetTrans
<1>9. SlotSet(p, p3, f, c, Ev)
  BY <1>6, <1>7, <1>8, SlotSetTrans
<1> QED BY <1>9 DEF Enrol, p1, p2

(* With fd_ = -1 the registration throws and changes nothing else.         *)
LEMMA EnrolBadFd ==
  ASSUME NEW p \in PollType, NEW c \in Conns, ~ p.fault
  PROVE  LET q == Enrol(p, [ptr |-> c, fd |-> NoFd])
         IN  /\ q \in PollType /\ q.fault
             /\ q.table = p.table /\ q.ctl = p.ctl /\ q.events = p.events
<1> DEFINE e == [ptr |-> c, fd |-> NoFd]
           q == [p EXCEPT !.fault = TRUE]
<1>1. NoFd \notin Fds BY PollAssumption DEF NoFd
<1>2. \A r : EventMask_(r, e) = {}
  BY <1>1 DEF EventMask_, InTable
<1>3. PollOpen(p, e) = p
  BY <1>2 DEF PollOpen
<1>4. InsertRead(p, e) = q
  BY <1>1, <1>2 DEF InsertRead, Insert, Modify_, SetEventMask_, InTable, epoll_ctl_fails
<1>5. q \in PollType /\ q.fault /\ q.table = p.table /\ q.ctl = p.ctl /\ q.events = p.events
  BY DEF PollType
<1> HIDE DEF q
<1>6. InsertWrite(q, e) = q /\ InsertError(q, e) = q
  BY <1>5 DEF InsertWrite, InsertError, Insert, Modify_
<1> QED BY <1>3, <1>4, <1>5, <1>6 DEF Enrol

(* Close() on a consistent slot gives it back, forgets the object's        *)
(* waiting entries and raises nothing.                                     *)
LEMMA WithdrawLemma ==
  ASSUME FdsFit, NEW p \in PollType, NEW c \in Conns, NEW f \in Fds,
         ~ p.fault, SlotOf(p, f, c)
  PROVE  LET q == Withdraw(p, [ptr |-> c, fd |-> f])
         IN  /\ q \in PollType /\ ~ q.fault
             /\ q.table = [p.table EXCEPT ![f] = {}]
             /\ q.ctl = [p.ctl EXCEPT ![f] = Unregistered]
             /\ q.events = {n \in p.events : n.ptr # c}
<1> DEFINE e == [ptr |-> c, fd |-> f]
           p1 == RemoveRead(p, e)
           p2 == RemoveWrite(p1, e)
           p3 == RemoveError(p2, e)
           m1 == p.table[f] \ {"IN"}
           m2 == m1 \ {"OUT"}
<1>0. p.table[f] \in SUBSET Ev /\ m1 \in SUBSET Ev /\ m2 \in SUBSET Ev BY DEF PollType
<1>1. SlotSet(p, p1, f, c, m1)
  BY RemoveLemma DEF RemoveRead, Ev
<1> HIDE DEF p1
<1>2. SlotOf(p1, f, c) /\ p1.table[f] = m1 /\ p1 \in PollType /\ ~ p1.fault
  BY <1>0, <1>1, SlotSetOf
<1>3. SlotSet(p1, p2, f, c, m2)
  BY <1>2, RemoveLemma DEF RemoveWrite, Ev
<1> HIDE DEF p2
<1>4. SlotOf(p2, f, c) /\ p2.table[f] = m2 /\ p2 \in PollType /\ ~ p2.fault
  BY <1>0, <1>2, <1>3, SlotSetOf
<1>5. SlotSet(p2, p3, f, c, m2 \ {"ERR"})
  BY <1>4, RemoveLemma DEF RemoveError, Ev
<1>6. m2 \ {"ERR"} = {} BY <1>0 DEF Ev
<1>7. SlotSet(p, p3, f, c, {})
  <2>1. SlotSet(p, p2, f, c, m2) BY <1>0, <1>1, <1>3, SlotSetTrans
  <2> QED BY <1>0, <1>5, <1>6, <2>1, SlotSetTrans
<1> HIDE DEF p3
<1>8. /\ p3 \in PollType /\ ~ p3.fault /\ p3.events = p.events
      /\ p3.table = [p.table EXCEPT ![f] = {}]
      /\ p3.ctl = [p.ctl EXCEPT ![f] = Unregistered]
  BY <1>7 DEF SlotSet
<1>9. EventMask_(p3, e) = {}
  BY <1>8 DEF EventMask_, PollType
<1>10. PollClose(p3, e) = [p3 EXCEPT !.events = {n \in p3.events : n.ptr # c}]
  BY <1>8, <1>9 DEF PollClose
<1> DEFINE k == {n \in p3.events : n.ptr # c}
<1>11. k \in SUBSET Entry BY <1>8 DEF PollType
<1> HIDE DEF k
<1>12. LET q == [p3 EXCEPT !.events = k]
       IN  /\ q \in PollType /\ q.fault = p3.fault
           /\ q.table = p3.table /\ q.ctl = p3.ctl /\ q.events = k
  BY <1>8, <1>11 DEF PollType
<1>13. Withdraw(p, e) = [p3 EXCEPT !.events = k]
  BY <1>10 DEF Withdraw, p1, p2, p3, k
<1> QED BY <1>8, <1>12, <1>13 DEF k

(* Close() on an object without descriptor touches only waiting entries.   *)
LEMMA WithdrawNoFd ==
  ASSUME NEW p \in PollType, NEW c \in Conns, ~ p.fault
  PROVE  LET q == Withdraw(p, [ptr |-> c, fd |-> NoFd])
         IN  /\ q \in PollType /\ ~ q.fault
             /\ q.table = p.table /\ q.ctl = p.ctl
             /\ q.events = {n \in p.events : n.ptr # c}
<1> DEFINE e == [ptr |-> c, fd |-> NoFd]
           k == {n \in p.events : n.ptr # c}
<1>1. NoFd \notin Fds BY PollAssumption DEF NoFd
<1>2. \A r : EventMask_(r, e) = {}
  BY <1>1 DEF EventMask_, InTable
<1>3. RemoveRead(p, e) = p /\ RemoveWrite(p, e) = p /\ RemoveError(p, e) = p
  BY <1>2 DEF RemoveRead, RemoveWrite, RemoveError, Remove, Modify_
<1>4. Withdraw(p, e) = [p EXCEPT !.events = k]
  BY <1>2, <1>3 DEF Withdraw, PollClose
<1>5. k \in SUBSET Entry BY DEF PollType
<1> HIDE DEF k
<1>6. LET q == [p EXCEPT !.events = k]
      IN  /\ q \in PollType /\ q.fault = p.fault
          /\ q.table = p.table /\ q.ctl = p.ctl /\ q.events = k
  BY <1>5 DEF PollType
<1> QED BY <1>4, <1>6 DEF k

(* The shape of the poll objects and of their entries, from the type.      *)
LEMMA PollFacts ==
  ASSUME TypeOK
  PROVE  \A s \in Servers :
           /\ \A f \in Fds : /\ poll[s].table[f] \in SUBSET Ev
                             /\ poll[s].ctl[f].ptr \in Conns \cup {NULL}
                             /\ poll[s].ctl[f].ev \in SUBSET Ev
           /\ \A n \in poll[s].events : n.ptr \in Conns
<1> SUFFICES ASSUME NEW s \in Servers
             PROVE  /\ \A f \in Fds : /\ poll[s].table[f] \in SUBSET Ev
                                      /\ poll[s].ctl[f].ptr \in Conns \cup {NULL}
                                      /\ poll[s].ctl[f].ev \in SUBSET Ev
                    /\ \A n \in poll[s].events : n.ptr \in Conns
  OBVIOUS
<1>1. poll[s] \in PollType BY DEF TypeOK
<1> HIDE DEF TypeOK
<1> QED BY <1>1 DEF PollType, Interest, Entry

(* A registered slot belongs to the object that carries its descriptor.    *)
LEMMA SlotOwner ==
  ASSUME IInv, NEW s \in Servers, NEW c \in Conns, desc[c] \in Fds
  PROVE  /\ SlotOf(poll[s], desc[c], c)
         /\ poll[s].table[desc[c]] # {} => handler[c] = s /\ poll[s].ctl[desc[c]].ptr = c
<1> DEFINE f == desc[c]
           d == poll[s].ctl[f].ptr
<1>1. d \in Conns \cup {NULL} BY PollFacts DEF IInv
<1>2. f # NoFd BY PollAssumption DEF NoFd
<1>3. /\ poll[s].table[f] = poll[s].ctl[f].ev
      /\ d = NULL <=> poll[s].ctl[f].ev = {}
      /\ d # NULL => desc[d] = f /\ handler[d] = s
  BY DEF IInv, RegInv
<1>4. d # NULL => d = c BY <1>1, <1>2, <1>3 DEF IInv, DescInv
<1> QED BY <1>1, <1>3, <1>4 DEF SlotOf

-----------------------------------------------------------------------------
(* Every step preserves the invariant: the listener.                       *)

(* accept(): the new object carries a descriptor nobody else has.          *)
LEMMA LAcceptStep ==
  ASSUME FdsFit, IInv, LAccept
  PROVE  IInv'
<1> USE DEF IInv
<1>1. PICK f \in Fds \ open, o \in Conns :
        /\ state[o] = "FREE"
        /\ state' = [state EXCEPT ![o] = "INACTIVE"]
        /\ handler' = [handler EXCEPT ![o] = current]
        /\ lconn' = o
        /\ \/ desc' = [desc EXCEPT ![o] = f] /\ open' = open \cup {f}
           \/ desc' = [desc EXCEPT ![o] = NoFd] /\ open' = open
  BY DEF LAccept
<1>2. /\ Running /\ lpc = "accept" /\ lpc' = "new"
      /\ UNCHANGED <<process, incoming, outgoing, connections, activity, poll,
                     wpc, event, ret, current>>
  BY DEF LAccept, LAt, LGoto, server, worker
<1>3. desc[o] = NoFd /\ \A s \in Servers : o \notin connections[s] /\ o \notin activity[s]
  BY <1>1 DEF DescInv, OwnerInv
<1>4. /\ state'[o] = "INACTIVE" /\ handler'[o] = current /\ desc'[o] \in {f, NoFd}
      /\ \A d \in Conns : d # o =>
           desc'[d] = desc[d] /\ state'[d] = state[d] /\ handler'[d] = handler[d]
  BY <1>1 DEF TypeOK
<1>5. TypeOK'
  <2>1. state' \in [Conns -> States] BY <1>1 DEF TypeOK, States
  <2>2. desc' \in [Conns -> Fds \cup {NoFd}] /\ open' \subseteq Fds BY <1>1 DEF TypeOK
  <2>3. handler' \in [Conns -> Servers] BY <1>1 DEF TypeOK
  <2>4. lconn' \in Conns /\ lconn' # NULL BY <1>1, PollAssumption
  <2> QED BY <1>2, <2>1, <2>2, <2>3, <2>4 DEF TypeOK, ListenerPCs
<1>6. DescInv'
  <2>1. f # NoFd /\ \A d \in Conns : desc[d] # f BY PollAssumption DEF DescInv, NoFd
  <2> QED BY <1>1, <1>4, <2>1 DEF DescInv, TypeOK
<1>7. RegInv'
  <2>1. \A s \in Servers, g \in Fds : poll[s].ctl[g].ptr # o
    BY <1>3, PollAssumption DEF RegInv, NoFd
  <2> QED BY <1>2, <1>4, <2>1, PollFacts DEF RegInv
<1>8. EventInv'
  BY <1>2, <1>3, <1>4, PollFacts DEF EventInv
<1>9. OwnerInv'
  <2>1. ASSUME NEW s \in Servers, NEW d \in Conns, d # o
        PROVE  /\ d \in connections[s] =>
                   /\ handler'[d] = s /\ state'[d] # "FREE"
                   /\ desc'[d] = NoFd => d = lconn' /\ state'[d] = "INACTIVE"
                   /\ state'[d] = "CLOSING" => wpc[s] = "delete" /\ event[s].ptr = d
               /\ d \in activity[s] => d \in connections[s] /\ state'[d] \in {"CONNECTED", "CLOSING"}
               /\ state'[d] = "CONNECTED" => desc'[d] # NoFd /\ d \in connections[handler'[d]]
    BY <1>2, <1>4, <2>1, PollAssumption DEF OwnerInv, ListenerInv, TypeOK
  <2> QED BY <1>2, <1>3, <1>4, <2>1 DEF OwnerInv
<1>10. \A s \in Servers : wpc[s] \in ClosePCs => event[s].ptr # o /\ event[s].ptr \in Conns
  BY <1>1 DEF CloseInv, TypeOK, ClosePCs
<1>11. CloseInv'
  BY <1>2, <1>4, <1>10 DEF CloseInv
<1>12. UnpolledInv'
  <2>1. \A s \in Servers : wpc[s] = "closefd" => desc'[event[s].ptr] = desc[event[s].ptr]
    BY <1>4, <1>10 DEF ClosePCs
  <2> QED BY <1>2, <2>1 DEF UnpolledInv
<1>13. ClosingInv'
  BY <1>1, <1>2, <1>4 DEF ClosingInv, InClose
<1>14. ListenerInv'
  BY <1>1, <1>2, <1>3, <1>4, PollAssumption DEF ListenerInv, TypeOK
<1>15. QueueInv'
  BY <1>1, <1>2, <1>4 DEF QueueInv
<1>16. FaultInv'
  BY <1>2 DEF FaultInv, OnlyBadFdThrows, Running
<1> QED BY <1>5, <1>6, <1>7, <1>8, <1>9, <1>11, <1>12, <1>13, <1>14, <1>15, <1>16

(* NewConnection: the object enters connections_, or is on its way out.    *)
LEMMA LNewConnectionStep ==
  ASSUME FdsFit, IInv, LNewConnection
  PROVE  IInv'
<1> USE DEF IInv
<1> DEFINE o == lconn
           h == handler[o]
<1>1. /\ Running /\ lpc = "new" /\ o \in Conns /\ h \in Servers
      /\ UNCHANGED <<process, open, state, desc, handler, incoming, outgoing,
                     activity, poll, wpc, event, ret, lconn, current>>
  BY DEF LNewConnection, LAt, conn, worker, TypeOK
<1>2. \/ lpc' = "drop" /\ UNCHANGED connections
      \/ lpc' = "init" /\ connections' = [connections EXCEPT ![h] = @ \cup {o}]
  <2>1. CASE Full(h) BY <2>1 DEF LNewConnection, LGoto
  <2>2. CASE ~ Full(h)
    <3>1. \A d \in connections[h] : desc[d] # desc[o]
      BY <1>1 DEF OwnerInv, DescInv, ListenerInv, TypeOK
    <3>2. SetInsert(connections[h], o) = connections[h] \cup {o}
      BY <3>1 DEF SetInsert
    <3> QED BY <1>1, <2>2, <3>2 DEF LNewConnection, LGoto
  <2> QED BY <2>1, <2>2
<1>3. TypeOK'
  BY <1>1, <1>2 DEF TypeOK, ListenerPCs
<1>4. DescInv' /\ RegInv' /\ EventInv'
  BY <1>1, <1>2 DEF DescInv, RegInv, EventInv
<1>5. OwnerInv'
  BY <1>1, <1>2 DEF OwnerInv, ListenerInv, TypeOK
<1>6. CloseInv' /\ UnpolledInv' /\ ClosingInv'
  BY <1>1, <1>2 DEF CloseInv, UnpolledInv, ClosingInv, InClose
<1>7. ListenerInv'
  BY <1>1, <1>2 DEF ListenerInv, TypeOK
<1>8. QueueInv' /\ FaultInv'
  BY <1>1 DEF QueueInv, FaultInv, OnlyBadFdThrows, Running
<1> QED BY <1>3, <1>4, <1>5, <1>6, <1>7, <1>8

(* SetState(STATE_CONNECTED): the slot is registered for all three events. *)
LEMMA LConnectedStep ==
  ASSUME FdsFit, IInv, LConnected
  PROVE  IInv'
<1> USE DEF IInv
<1> DEFINE o == lconn
<1>1. /\ Running /\ lpc = "connected" /\ lpc' = "drop" /\ o \in Conns
      /\ state' = [state EXCEPT ![o] = "CONNECTED"]
      /\ UNCHANGED <<process, open, desc, handler, incoming, outgoing, connections,
                     activity, poll, wpc, event, ret, lconn, current>>
  BY DEF LConnected, LAt, LGoto, server, worker, TypeOK
<1>2. /\ state[o] = "INACTIVE" /\ o \in connections[handler[o]] /\ desc[o] # NoFd
      /\ poll[handler[o]].table[desc[o]] = Ev
  BY <1>1 DEF ListenerInv
<1>3. /\ state'[o] = "CONNECTED"
      /\ \A d \in Conns : d # o => state'[d] = state[d] /\ state[d] # "INACTIVE"
  BY <1>1 DEF TypeOK, ListenerInv
<1>4. TypeOK'
  BY <1>1 DEF TypeOK, States, ListenerPCs
<1>5. DescInv' /\ RegInv' /\ EventInv'
  BY <1>1, <1>2, <1>3, PollFacts DEF DescInv, RegInv, EventInv
<1>6. OwnerInv'
  BY <1>1, <1>2, <1>3 DEF OwnerInv
<1>7. \A s \in Servers : wpc[s] \in ClosePCs => event[s].ptr # o /\ event[s].ptr \in Conns
  BY <1>2 DEF CloseInv, TypeOK
<1>8. CloseInv' /\ UnpolledInv' /\ ClosingInv'
  BY <1>1, <1>2, <1>3, <1>7 DEF CloseInv, UnpolledInv, ClosingInv, InClose
<1>9. ListenerInv'
  BY <1>1, <1>3 DEF ListenerInv
<1>10. QueueInv'
  <2>1. incoming[o] = 0 /\ outgoing[o] = 0 BY <1>1, <1>2 DEF QueueInv
  <2>2. \A d \in Conns : d # o => state'[d] = state[d] BY <1>3
  <2>3. {"IN", "ERR"} \subseteq poll[handler[o]].table[desc[o]] BY <1>2 DEF Ev
  <2> QED BY <1>1, <1>2, <1>3, <2>1, <2>2, <2>3 DEF QueueInv
<1>11. FaultInv'
  BY <1>1 DEF FaultInv, OnlyBadFdThrows, Running
<1> QED BY <1>4, <1>5, <1>6, <1>8, <1>9, <1>10, <1>11

(* Initialize: a clean slot is enrolled, or fd_ = -1 makes it throw.       *)
LEMMA LInitializeStep ==
  ASSUME FdsFit, IInv, LInitialize
  PROVE  IInv'
<1> USE DEF IInv
<1> DEFINE o == lconn
           h == handler[o]
           p == poll[h]
           q == Enrol(p, [ptr |-> o, fd |-> desc[o]])
<1>1. /\ Running /\ lpc = "init" /\ lpc' = "connected" /\ o \in Conns /\ h \in Servers
      /\ p \in PollType /\ ~ p.fault
      /\ poll' = [poll EXCEPT ![h] = q]
      /\ UNCHANGED <<open, state, desc, handler, incoming, outgoing, connections,
                     activity, wpc, event, ret, lconn, current>>
  BY DEF LInitialize, EnrolConnection, EventOf, LAt, LGoto, conn, worker, TypeOK, FaultInv
<1>2. /\ state[o] = "INACTIVE" /\ o \in connections[h]
      /\ process' = IF q.fault THEN "poll_threw" ELSE process
  BY <1>1 DEF ListenerInv, LInitialize, EnrolConnection, EventOf, Survives
<1>3. DescInv' /\ OwnerInv' /\ CloseInv'
  BY <1>1 DEF DescInv, OwnerInv, CloseInv
<1>4. ClosingInv'
  BY <1>1 DEF ClosingInv, InClose
<1>5. CASE desc[o] = NoFd
  <2>1. /\ q \in PollType /\ q.fault
        /\ q.table = p.table /\ q.ctl = p.ctl /\ q.events = p.events
    BY <1>1, <1>5, EnrolBadFd
  <2> HIDE DEF q
  <2>2. process' = "poll_threw" BY <1>2, <2>1
  <2>3. \A s \in Servers : /\ poll'[s].table = poll[s].table /\ poll'[s].ctl = poll[s].ctl
                           /\ poll'[s].events = poll[s].events
    BY <1>1, <2>1 DEF TypeOK
  <2>4. TypeOK'
    BY <1>1, <2>1, <2>2 DEF TypeOK, Faults, ListenerPCs
  <2>5. RegInv' /\ EventInv' /\ UnpolledInv' /\ QueueInv'
    BY <1>1, <2>3 DEF RegInv, EventInv, UnpolledInv, QueueInv
  <2>6. ListenerInv' /\ FaultInv'
    BY <1>1, <1>2, <1>5, <2>2 DEF ListenerInv, FaultInv, OnlyBadFdThrows, Running
  <2> QED BY <1>3, <1>4, <2>4, <2>5, <2>6
<1>6. CASE desc[o] # NoFd
  <2> DEFINE f == desc[o]
  <2>1. f \in Fds BY <1>1, <1>6 DEF TypeOK
  <2>2. SlotOf(p, f, o) /\ p.table[f] = {}
    <3>1. SlotOf(p, f, o) /\ (p.table[f] # {} => p.ctl[f].ptr = o)
      BY <1>1, <2>1, SlotOwner
    <3>2. poll[h].ctl[f].ptr # NULL /\ state[poll[h].ctl[f].ptr] = "INACTIVE" => lpc = "connected"
      BY <1>1, <2>1 DEF RegInv
    <3>3. p.ctl[f].ptr # o BY <1>1, <1>2, <3>2, PollAssumption
    <3> QED BY <3>1, <3>3
  <2>3. SlotSet(p, q, f, o, Ev)
    BY <1>1, <2>1, <2>2, EnrolLemma
  <2> HIDE DEF q
  <2>4. Ev # {} /\ q \in PollType /\ ~ q.fault /\ q.events = p.events
        /\ q.table = [p.table EXCEPT ![f] = Ev]
        /\ q.ctl = [p.ctl EXCEPT ![f] = [ptr |-> o, ev |-> Ev]]
    BY <2>3 DEF SlotSet, Ev
  <2>5. process' = "running" BY <1>1, <1>2, <1>6, <2>4 DEF Running
  <2>6. \A s \in Servers :
          /\ poll'[s].events = poll[s].events
          /\ \A g \in Fds : <<s, g>> # <<h, f>> =>
               poll'[s].table[g] = poll[s].table[g] /\ poll'[s].ctl[g] = poll[s].ctl[g]
    BY <1>1, <2>4 DEF TypeOK, PollType
  <2>7. poll'[h].table[f] = Ev /\ poll'[h].ctl[f] = [ptr |-> o, ev |-> Ev]
    BY <1>1, <2>1, <2>4 DEF TypeOK, PollType
  <2>8. TypeOK'
    BY <1>1, <2>4, <2>5 DEF TypeOK, ListenerPCs
  <2>9. RegInv'
    <3>1. ASSUME NEW s \in Servers, NEW g \in Fds, <<s, g>> # <<h, f>>
          PROVE  /\ poll'[s].table[g] = poll'[s].ctl[g].ev
                 /\ poll'[s].ctl[g].ptr = NULL <=> poll'[s].ctl[g].ev = {}
                 /\ poll'[s].ctl[g].ptr # NULL =>
                      /\ desc'[poll'[s].ctl[g].ptr] = g /\ handler'[poll'[s].ctl[g].ptr] = s
                      /\ state'[poll'[s].ctl[g].ptr] = "INACTIVE" => lpc' = "connected"
      BY <1>1, <2>6, <3>1 DEF RegInv
    <3>2. o # NULL BY <1>1, PollAssumption
    <3> QED BY <1>1, <2>4, <2>7, <3>1, <3>2 DEF RegInv
  <2>10. EventInv'
    BY <1>1, <2>6 DEF EventInv
  <2>11. UnpolledInv'
    <3>1. ASSUME NEW s \in Servers, wpc[s] = "closefd"
          PROVE  poll'[s].table[desc[event[s].ptr]] = {}
      <4>1. event[s].ptr \in Conns /\ state[event[s].ptr] = "CLOSING" /\ desc[event[s].ptr] # NoFd
        BY <3>1 DEF CloseInv, TypeOK, ClosePCs
      <4>2. desc[event[s].ptr] # f /\ desc[event[s].ptr] \in Fds
        BY <1>1, <1>2, <1>6, <4>1 DEF DescInv, TypeOK
      <4> QED BY <2>6, <3>1, <4>2 DEF UnpolledInv
    <3> QED BY <1>1, <3>1 DEF UnpolledInv
  <2>12. ListenerInv'
    BY <1>1, <1>2, <1>6, <2>7 DEF ListenerInv
  <2>13. QueueInv'
    <3>1. ASSUME NEW d \in Conns, state[d] = "CONNECTED"
          PROVE  poll'[handler[d]].table[desc[d]] = poll[handler[d]].table[desc[d]]
      <4>1. desc[d] # f /\ desc[d] \in Fds /\ handler[d] \in Servers
        BY <1>1, <1>2, <1>6, <3>1 DEF DescInv, OwnerInv, TypeOK
      <4> QED BY <2>6, <4>1
    <3> QED BY <1>1, <3>1 DEF QueueInv
  <2>14. FaultInv'
    BY <1>1, <2>4, <2>5 DEF FaultInv, OnlyBadFdThrows, TypeOK
  <2> QED BY <1>3, <1>4, <2>8, <2>9, <2>10, <2>11, <2>12, <2>13, <2>14
<1> QED BY <1>5, <1>6

(* The listener lets go: the object lives on, or dies without a trace.     *)
LEMMA LDropStep ==
  ASSUME FdsFit, IInv, LDrop
  PROVE  IInv'
<1> USE DEF IInv
<1> DEFINE o == lconn
           h == handler[o]
           p == poll[h]
           held == HeldByServer(o) \/ \E s \in Servers : InClose(s, o)
<1>1. /\ Running /\ lpc = "drop" /\ lpc' = "accept" /\ lconn' = NULL
      /\ o \in Conns /\ h \in Servers /\ p \in PollType /\ ~ p.fault /\ o # NULL
      /\ UNCHANGED <<handler, connections, activity, wpc, event, ret>>
  BY PollAssumption DEF LDrop, LAt, LGoto, worker, TypeOK, FaultInv
<1>2. current' \in Servers
  BY CoreAssumption DEF LDrop, NextHandler, Servers, TypeOK
<1>3. \A c \in Conns : c # o => state[c] # "INACTIVE"
  BY <1>1 DEF ListenerInv
<1>4. \A s \in Servers, c \in Conns : c \in activity[s] => c \in connections[s]
  BY DEF OwnerInv
<1>5. CASE held
  <2>1. UNCHANGED <<process, open, state, desc, incoming, outgoing, poll>>
    BY <1>5 DEF LDrop
  <2>2. state[o] # "INACTIVE"
    BY <1>1, <1>4, <1>5 DEF ListenerInv, HeldByServer, InClose, CloseInv
  <2>3. state[o] = "CLOSING" => InClose(h, o)
    BY <1>1, <1>4, <1>5 DEF HeldByServer, InClose, OwnerInv, CloseInv, ClosePCs
  <2>4. TypeOK' BY <1>1, <1>2, <2>1 DEF TypeOK, ListenerPCs
  <2>5. DescInv' /\ CloseInv' /\ UnpolledInv' /\ QueueInv'
    BY <1>1, <2>1 DEF DescInv, CloseInv, UnpolledInv, QueueInv
  <2>6. RegInv' /\ EventInv'
    BY <1>1, <2>1 DEF RegInv, EventInv
  <2>7. OwnerInv' BY <1>1, <2>1, <2>2 DEF OwnerInv
  <2>8. ClosingInv' BY <1>1, <2>1, <2>3 DEF ClosingInv, InClose
  <2>9. ListenerInv' BY <1>1, <1>3, <2>1, <2>2 DEF ListenerInv
  <2>10. FaultInv' BY <1>1, <2>1 DEF FaultInv, OnlyBadFdThrows, Running
  <2> QED BY <2>4, <2>5, <2>6, <2>7, <2>8, <2>9, <2>10
<1>6. CASE ~ held
  <2>1. \A s \in Servers : o \notin connections[s] /\ o \notin activity[s]
    BY <1>6 DEF HeldByServer
  <2>2. \A s \in Servers : wpc[s] \in ClosePCs => event[s].ptr # o /\ event[s].ptr \in Conns
    BY <1>6 DEF InClose, TypeOK, ClosePCs
  <2>3. /\ state' = [state EXCEPT ![o] = "FREE"]
        /\ incoming' = [incoming EXCEPT ![o] = 0]
        /\ outgoing' = [outgoing EXCEPT ![o] = 0]
    BY <1>6 DEF LDrop, Destroy
  <2>4. state[o] \in {"CLOSING", "INACTIVE"}
    BY <1>1, <2>1 DEF ListenerInv, OwnerInv, TypeOK, States
  <2>5. /\ open' = open \ {desc[o]} /\ desc' = [desc EXCEPT ![o] = NoFd]
        /\ process' = "running"
        /\ \A s \in Servers :
             /\ poll'[s] \in PollType /\ ~ poll'[s].fault
             /\ poll'[s].table = poll[s].table /\ poll'[s].ctl = poll[s].ctl
             /\ poll'[s].events \subseteq poll[s].events
        /\ poll' \in [Servers -> PollType]
    <3>1. CASE state[o] = "CLOSING"
      <4>1. desc[o] = NoFd BY <1>1, <1>6, <3>1 DEF ClosingInv
      <4>2. NoFd \notin open BY PollAssumption DEF TypeOK, NoFd
      <4>3. process' = process /\ UNCHANGED <<open, desc, poll>>
        BY <1>6, <3>1, <4>1 DEF LDrop, Destroy
      <4> QED BY <1>1, <4>1, <4>2, <4>3 DEF TypeOK, FaultInv, Running
    <3>2. CASE state[o] = "INACTIVE"
      <4> DEFINE q == Withdraw(p, [ptr |-> o, fd |-> desc[o]])
      <4>1. /\ q \in PollType /\ ~ q.fault /\ q.table = p.table /\ q.ctl = p.ctl
            /\ q.events \subseteq p.events
        <5>1. CASE desc[o] = NoFd
          BY <1>1, <5>1, WithdrawNoFd
        <5>2. CASE desc[o] # NoFd
          <6> DEFINE f == desc[o]
          <6>1. f \in Fds BY <1>1, <5>2 DEF TypeOK
          <6>2. SlotOf(p, f, o) /\ (p.table[f] # {} => p.ctl[f].ptr = o)
            BY <1>1, <6>1, SlotOwner
          <6>3. p.ctl[f].ptr # NULL /\ state[p.ctl[f].ptr] = "INACTIVE" => lpc = "connected"
            BY <1>1, <6>1 DEF RegInv
          <6>4. p.table[f] = {} BY <1>1, <3>2, <6>2, <6>3
          <6>5. p.ctl[f] = Unregistered
            BY <1>1, <6>1, <6>2, <6>4, PollAssumption DEF SlotOf, PollType, Interest, Unregistered
          <6>6. /\ q \in PollType /\ ~ q.fault
                /\ q.table = [p.table EXCEPT ![f] = {}]
                /\ q.ctl = [p.ctl EXCEPT ![f] = Unregistered]
                /\ q.events = {n \in p.events : n.ptr # o}
            BY <1>1, <6>1, <6>2, WithdrawLemma
          <6> HIDE DEF q
          <6>7. p.table = [p.table EXCEPT ![f] = {}] /\ p.ctl = [p.ctl EXCEPT ![f] = Unregistered]
            BY <1>1, <6>4, <6>5 DEF PollType
          <6> QED BY <6>6, <6>7
        <5> QED BY <5>1, <5>2
      <4>2. /\ open' = open \ {desc[o]} /\ desc' = [desc EXCEPT ![o] = NoFd]
            /\ poll' = [poll EXCEPT ![h] = q]
            /\ process' = IF q.fault THEN "poll_threw" ELSE process
        BY <1>6, <3>2 DEF LDrop, Closed, EventOf, Survives
      <4> HIDE DEF q
      <4> QED BY <1>1, <4>1, <4>2 DEF TypeOK, FaultInv, Running
    <3> QED BY <2>4, <3>1, <3>2
  <2>6. /\ state'[o] = "FREE" /\ desc'[o] = NoFd /\ incoming'[o] = 0 /\ outgoing'[o] = 0
        /\ \A c \in Conns : c # o => /\ desc'[c] = desc[c] /\ state'[c] = state[c]
                                     /\ incoming'[c] = incoming[c] /\ outgoing'[c] = outgoing[c]
    BY <1>1, <2>3, <2>5 DEF TypeOK
  <2>7. TypeOK'
    BY <1>1, <1>2, <2>3, <2>5 DEF TypeOK, States, ListenerPCs
  <2>8. DescInv'
    BY <1>1, <2>5, <2>6 DEF DescInv
  <2>9. RegInv'
    <3>1. ASSUME NEW s \in Servers, NEW g \in Fds PROVE poll[s].ctl[g].ptr # o
      <4>1. poll[s].ctl[g].ptr = o => desc[o] = g /\ handler[o] = s /\ state[o] # "INACTIVE"
        BY <1>1 DEF RegInv
      <4>2. state[o] = "CLOSING" => desc[o] = NoFd
        BY <1>1, <1>6 DEF ClosingInv
      <4> QED BY <2>4, <4>1, <4>2, PollAssumption DEF NoFd
    <3> QED BY <1>1, <2>5, <2>6, <3>1, PollFacts DEF RegInv
  <2>10. EventInv'
    <3>1. ASSUME NEW s \in Servers, NEW n \in poll[s].events PROVE n.ptr # o
      <4>1. state[o] = "CLOSING" => desc[o] = NoFd
        BY <1>1, <1>6 DEF ClosingInv
      <4> QED BY <1>1, <2>4, <4>1 DEF EventInv
    <3> QED BY <1>1, <2>5, <2>6, <3>1, PollFacts DEF EventInv
  <2>11. OwnerInv'
    BY <1>1, <1>3, <2>1, <2>6 DEF OwnerInv
  <2>12. CloseInv' BY <1>1, <2>2, <2>6 DEF CloseInv
  <2>13. UnpolledInv'
    <3>1. \A s \in Servers : wpc[s] = "closefd" => desc'[event[s].ptr] = desc[event[s].ptr]
      BY <2>2, <2>6 DEF ClosePCs
    <3> QED BY <1>1, <2>5, <3>1 DEF UnpolledInv
  <2>14. ClosingInv' BY <1>1, <2>6 DEF ClosingInv, InClose
  <2>15. ListenerInv' BY <1>1, <1>3, <2>6 DEF ListenerInv
  <2>16. QueueInv'
    <3>1. ASSUME NEW c \in Conns, c # o, state[c] = "CONNECTED"
          PROVE  poll'[handler[c]].table[desc'[c]] = poll[handler[c]].table[desc[c]]
      BY <2>5, <2>6, <3>1 DEF TypeOK
    <3> QED BY <1>1, <2>6, <3>1 DEF QueueInv
  <2>17. FaultInv' BY <2>5 DEF FaultInv, OnlyBadFdThrows
  <2> QED BY <2>7, <2>8, <2>9, <2>10, <2>11, <2>12, <2>13, <2>14, <2>15, <2>16, <2>17
<1> QED BY <1>5, <1>6

-----------------------------------------------------------------------------
(* Every step preserves the invariant: the workers.                        *)

(* epoll_wait reports only what the interest list holds.                   *)
LEMMA WDoPollStep ==
  ASSUME FdsFit, IInv, NEW w \in Servers, WDoPoll(w)
  PROVE  IInv'
<1> USE DEF IInv
<1> DEFINE p == poll[w]
<1>1. PICK ready \in SUBSET Registered(p) : \E report \in Reports(p, ready) :
        poll' = [poll EXCEPT ![w] = DoPoll(p, report)]
  BY DEF WDoPoll
<1>2. PICK report \in Reports(p, ready) : poll' = [poll EXCEPT ![w] = DoPoll(p, report)]
  BY <1>1
<1>3. /\ Running /\ wpc[w] = "poll" /\ wpc' = [wpc EXCEPT ![w] = "perform"]
      /\ p \in PollType
      /\ UNCHANGED <<process, open, state, desc, handler, incoming, outgoing, connections,
                     activity, event, ret, lpc, lconn, current>>
  BY DEF WDoPoll, WAt, WGoto, conn, lstner, TypeOK
<1> DEFINE k == {[ptr |-> p.ctl[f].ptr, ev |-> report[f]] : f \in DOMAIN report}
<1>4. /\ report \in [ready -> SUBSET Ev] /\ ready \subseteq Fds
      /\ \A f \in ready : p.ctl[f].ptr # NULL
  BY DEF Reports, Registered
<1>5. \A n \in k : \E f \in Fds : n.ptr = p.ctl[f].ptr /\ p.ctl[f].ptr # NULL
  BY <1>4
<1>6. k \in SUBSET Entry
  BY <1>3, <1>4 DEF Entry, PollType, Interest
<1>7. poll' = [poll EXCEPT ![w] = [p EXCEPT !.events = k]]
  BY <1>2 DEF DoPoll
<1> HIDE DEF k
<1>8. /\ poll' \in [Servers -> PollType] /\ poll'[w].events = k
      /\ \A s \in Servers : /\ poll'[s].table = poll[s].table /\ poll'[s].ctl = poll[s].ctl
                            /\ poll'[s].fault = poll[s].fault
                            /\ s # w => poll'[s].events = poll[s].events
  <2>1. LET q == [p EXCEPT !.events = k]
        IN  q \in PollType /\ q.table = p.table /\ q.ctl = p.ctl /\ q.fault = p.fault /\ q.events = k
    BY <1>3, <1>6 DEF PollType
  <2> QED BY <1>7, <2>1 DEF TypeOK
<1>9. TypeOK' BY <1>3, <1>8 DEF TypeOK, WorkerPCs, ClosePCs
<1>10. DescInv' /\ RegInv'
  BY <1>3, <1>8 DEF DescInv, RegInv
<1>11. EventInv'
  <2>1. ASSUME NEW n \in k
        PROVE  /\ desc[n.ptr] # NoFd /\ handler[n.ptr] = w
               /\ state[n.ptr] = "INACTIVE" => lpc = "connected"
    <3>1. PICK f \in Fds : n.ptr = p.ctl[f].ptr /\ p.ctl[f].ptr # NULL BY <1>5, <2>1
    <3> QED BY <3>1, PollAssumption DEF RegInv, NoFd
  <2>2. wpc'[w] = "perform" BY <1>3 DEF TypeOK
  <2>3. \A s \in Servers : s # w => wpc'[s] = wpc[s] BY <1>3 DEF TypeOK
  <2> QED BY <1>3, <1>8, <2>1, <2>2, <2>3 DEF EventInv
<1>12. OwnerInv' /\ CloseInv' /\ ClosingInv'
  BY <1>3 DEF OwnerInv, CloseInv, ClosingInv, InClose, TypeOK, ClosePCs
<1>13. UnpolledInv'
  BY <1>3, <1>8 DEF UnpolledInv, TypeOK
<1>14. ListenerInv' /\ QueueInv' /\ FaultInv'
  BY <1>3, <1>8 DEF ListenerInv, QueueInv, FaultInv, OnlyBadFdThrows, Running, TypeOK
<1> QED BY <1>9, <1>10, <1>11, <1>12, <1>13, <1>14

(* Taking an entry leaves the poll object's slots alone.                   *)
LEMMA WNextEntryStep ==
  ASSUME FdsFit, IInv, NEW w \in Servers, WNextEntry(w)
  PROVE  IInv'
<1> USE DEF IInv
<1> DEFINE p == poll[w]
<1>1. /\ Running /\ wpc[w] = "perform" /\ p \in PollType
      /\ UNCHANGED <<process, open, state, desc, handler, incoming, outgoing, connections,
                     activity, ret, lpc, lconn, current>>
  BY DEF WNextEntry, WAt, conn, lstner, TypeOK
<1>2. PICK n \in Interest, k \in SUBSET p.events, next \in {"drain", "err"} :
        /\ event' = [event EXCEPT ![w] = n] /\ wpc' = [wpc EXCEPT ![w] = next]
        /\ poll' = [poll EXCEPT ![w] = [p EXCEPT !.events = k]]
        /\ next = "err" => n.ptr \in Conns
  <2>1. CASE p.events = {} /\ event' = [event EXCEPT ![w] = NoEntry] /\ WGoto(w, "drain") /\ UNCHANGED poll
    <3>1. NoEntry \in Interest BY DEF NoEntry, Interest
    <3>2. p = [p EXCEPT !.events = {}] BY <1>1, <2>1 DEF PollType
    <3>3. poll' = [poll EXCEPT ![w] = [p EXCEPT !.events = {}]] BY <2>1, <3>2 DEF TypeOK
    <3> QED BY <2>1, <3>1, <3>3 DEF WGoto
  <2>2. CASE \E n \in p.events : /\ event' = [event EXCEPT ![w] = n]
                                 /\ poll' = [poll EXCEPT ![w].events = @ \ {n}]
                                 /\ WGoto(w, "err")
    <3>1. PICK n \in p.events : /\ event' = [event EXCEPT ![w] = n]
                                /\ poll' = [poll EXCEPT ![w].events = @ \ {n}]
                                /\ WGoto(w, "err")
      BY <2>2
    <3>2. n \in Interest /\ n.ptr \in Conns
      <4>1. n \in Entry BY <1>1 DEF PollType
      <4> QED BY <4>1 DEF Entry, Interest
    <3>3. p.events \ {n} \in SUBSET p.events OBVIOUS
    <3> QED BY <3>1, <3>2, <3>3 DEF WGoto
  <2> QED BY <2>1, <2>2 DEF WNextEntry
<1>3. /\ poll' \in [Servers -> PollType]
      /\ \A s \in Servers : /\ poll'[s].table = poll[s].table /\ poll'[s].ctl = poll[s].ctl
                            /\ poll'[s].fault = poll[s].fault
                            /\ poll'[s].events \subseteq poll[s].events
  <2>1. k \in SUBSET Entry BY <1>1 DEF PollType
  <2>2. LET q == [p EXCEPT !.events = k]
        IN  q \in PollType /\ q.table = p.table /\ q.ctl = p.ctl /\ q.fault = p.fault /\ q.events = k
    BY <1>1, <2>1 DEF PollType
  <2> QED BY <1>2, <2>2 DEF TypeOK
<1>4. /\ wpc'[w] \in {"drain", "err"}
      /\ \A s \in Servers : s # w => wpc'[s] = wpc[s] /\ event'[s] = event[s]
  BY <1>2 DEF TypeOK
<1>5. TypeOK'
  <2>1. \A s \in Servers : wpc'[s] \in {"err", "in", "out"} \cup ClosePCs => event'[s].ptr \in Conns
    BY <1>2, <1>4 DEF TypeOK, ClosePCs
  <2>2. event' \in [Servers -> Interest] /\ wpc' \in [Servers -> WorkerPCs]
    BY <1>2 DEF TypeOK, WorkerPCs
  <2> QED BY <1>1, <1>3, <2>1, <2>2 DEF TypeOK
<1>6. DescInv' /\ RegInv'
  BY <1>1, <1>3 DEF DescInv, RegInv
<1>7. EventInv'
  BY <1>1, <1>3, <1>4 DEF EventInv
<1>8. OwnerInv' /\ CloseInv'
  BY <1>1, <1>4 DEF OwnerInv, CloseInv, ClosePCs
<1>9. UnpolledInv' /\ ClosingInv'
  <2>1. \A s \in Servers : wpc'[s] = "closefd" => s # w
    BY <1>4
  <2>2. UnpolledInv'
    BY <1>1, <1>3, <1>4, <2>1 DEF UnpolledInv
  <2>3. \A s \in Servers, c \in Conns : InClose(s, c) => InClose(s, c)'
    BY <1>1, <1>4 DEF InClose, ClosePCs
  <2>4. ClosingInv'
    BY <1>1, <2>3 DEF ClosingInv, TypeOK
  <2> QED BY <2>2, <2>4
<1>10. ListenerInv' /\ QueueInv' /\ FaultInv'
  BY <1>1, <1>3 DEF ListenerInv, QueueInv, FaultInv, OnlyBadFdThrows, Running, TypeOK
<1> QED BY <1>5, <1>6, <1>7, <1>8, <1>9, <1>10

(* Steps that only move the worker, or end the process.                    *)
LEMMA BranchStep ==
  ASSUME FdsFit, IInv, NEW w \in Servers,
         WSkipError(w) \/ WSkipRead(w) \/ WSkipWrite(w) \/ WEraseThrows(w) \/ WDrained(w)
  PROVE  IInv'
<1> USE DEF IInv
<1>1. /\ process' \in {process, "freed_event", "erase_threw"} /\ Running
      /\ wpc[w] \notin ClosePCs
      /\ \/ UNCHANGED wpc
         \/ \E next \in {"in", "out", "perform", "poll"} :
              /\ wpc' = [wpc EXCEPT ![w] = next]
              /\ next \in {"in", "out"} => wpc[w] \in {"err", "in"}
      /\ UNCHANGED <<open, state, desc, handler, incoming, outgoing, connections,
                     activity, poll, event, ret, lpc, lconn, current>>
  BY DEF WSkipError, WSkipRead, WSkipWrite, WEraseThrows, WDrained, Branch, WAt, WGoto,
         conn, server, worker, lstner, ClosePCs
<1>2. /\ wpc'[w] \notin ClosePCs
      /\ \A s \in Servers : s # w => wpc'[s] = wpc[s]
  BY <1>1 DEF TypeOK, ClosePCs
<1>3. TypeOK'
  <2>1. wpc' \in [Servers -> WorkerPCs] BY <1>1 DEF TypeOK, WorkerPCs
  <2>2. \A s \in Servers : wpc'[s] \in {"err", "in", "out"} \cup ClosePCs => event[s].ptr \in Conns
    BY <1>1, <1>2 DEF TypeOK, ClosePCs
  <2> QED BY <1>1, <2>1, <2>2 DEF TypeOK, Faults
<1>4. DescInv' /\ RegInv'
  BY <1>1 DEF DescInv, RegInv
<1>5. EventInv' /\ OwnerInv' /\ CloseInv'
  BY <1>1, <1>2 DEF EventInv, OwnerInv, CloseInv, ClosePCs
<1>6. UnpolledInv' /\ ClosingInv'
  BY <1>1, <1>2 DEF UnpolledInv, ClosingInv, InClose, TypeOK, ClosePCs
<1>7. ListenerInv' /\ QueueInv' /\ FaultInv'
  BY <1>1 DEF ListenerInv, QueueInv, FaultInv, OnlyBadFdThrows, Running
<1> QED BY <1>3, <1>4, <1>5, <1>6, <1>7

(* A handler runs on a connected object of the worker's own server.        *)
LEMMA DispatchFacts ==
  ASSUME IInv, NEW w \in Servers, NEW bit \in Ev, wpc[w] \in {"err", "in", "out"},
         Dispatch(w, bit)
  PROVE  LET c == event[w].ptr
         IN  /\ c \in Conns /\ state[c] = "CONNECTED" /\ handler[c] = w
             /\ desc[c] \in Fds /\ desc[c] # NoFd /\ c \in connections[w]
<1> DEFINE c == event[w].ptr
<1>1. c \in Conns BY DEF IInv, TypeOK
<1>2. state[c] = "CONNECTED"
  BY <1>1 DEF Dispatch, IsInactive, IInv, TypeOK, States
<1>3. desc[c] # NoFd /\ c \in connections[handler[c]]
  BY <1>1, <1>2 DEF IInv, OwnerInv, TypeOK
<1>4. desc[c] \in Fds BY <1>1, <1>3 DEF IInv, TypeOK
<1>5. poll[w].table[desc[c]] # {}
  BY DEF Dispatch, EventMask_, EventOf
<1>6. handler[c] = w BY <1>1, <1>4, <1>5, SlotOwner
<1> QED BY <1>1, <1>2, <1>3, <1>4, <1>6

(* BaseConnection::Close() up to the lock preserves the invariant, from    *)
(* whichever handler it is called.                                         *)
LEMMA EnterCloseStep ==
  ASSUME IInv, NEW w \in Servers, NEW after \in {"in", "out", "perform"}, NEW c \in Conns,
         c = event[w].ptr, state[c] = "CONNECTED", handler[c] = w, wpc[w] \notin ClosePCs,
         EnterClose(w, after), outgoing' \in [Conns -> Nat],
         \A d \in Conns : d # c => outgoing'[d] = outgoing[d],
         UNCHANGED <<process, open, desc, handler, incoming, connections, activity, poll,
                     event, lpc, lconn, current>>
  PROVE  IInv'
<1> USE DEF IInv
<1>1. /\ state' = [state EXCEPT ![c] = "CLOSING"]
      /\ wpc' = [wpc EXCEPT ![w] = "delete"]
      /\ ret' = [ret EXCEPT ![w] = after]
  BY DEF EnterClose, WGoto
<1>2. /\ state'[c] = "CLOSING" /\ wpc'[w] = "delete"
      /\ \A d \in Conns : d # c => state'[d] = state[d]
      /\ \A s \in Servers : s # w => wpc'[s] = wpc[s]
  BY <1>1 DEF TypeOK
<1>3. desc[c] # NoFd /\ c \in connections[w]
  BY DEF OwnerInv, TypeOK
<1>4. TypeOK'
  <2>1. state' \in [Conns -> States] BY <1>1 DEF TypeOK, States
  <2>2. wpc' \in [Servers -> WorkerPCs] /\ ret' \in [Servers -> {"in", "out", "perform"}]
    BY <1>1 DEF TypeOK, WorkerPCs, ClosePCs
  <2>3. \A s \in Servers : wpc'[s] \in {"err", "in", "out"} \cup ClosePCs => event[s].ptr \in Conns
    BY <1>2 DEF TypeOK
  <2> QED BY <2>1, <2>2, <2>3 DEF TypeOK
<1>5. DescInv' BY <1>2 DEF DescInv
<1>6. RegInv' BY <1>2, PollFacts DEF RegInv
<1>7. EventInv' BY <1>2, PollFacts DEF EventInv
<1>8. OwnerInv' BY <1>2, <1>3 DEF OwnerInv, ClosePCs
<1>9. CloseInv' /\ UnpolledInv'
  <2>1. \A s \in Servers : s # w /\ wpc[s] \in ClosePCs =>
          event[s].ptr # c /\ event[s].ptr \in Conns
    BY DEF CloseInv, TypeOK
  <2>2. CloseInv' BY <1>2, <1>3, <2>1 DEF CloseInv
  <2>3. UnpolledInv' BY <1>2 DEF UnpolledInv
  <2> QED BY <2>2, <2>3
<1>10. ClosingInv'
  <2>1. InClose(w, c)' BY <1>2 DEF InClose, ClosePCs
  <2>2. \A s \in Servers, d \in Conns : InClose(s, d) => InClose(s, d)'
    BY <1>2 DEF InClose
  <2> QED BY <1>2, <2>1, <2>2 DEF ClosingInv, TypeOK
<1>11. ListenerInv' BY <1>2, PollAssumption DEF ListenerInv, TypeOK, Running
<1>12. QueueInv' BY <1>2 DEF QueueInv
<1>13. FaultInv'
  <2>1. lpc = "connected" => lconn \in Conns BY PollAssumption DEF TypeOK
  <2>2. lpc = "connected" /\ state[lconn] = "INACTIVE" => state'[lconn] = "INACTIVE"
    BY <1>2, <2>1
  <2> QED BY <2>2 DEF FaultInv, OnlyBadFdThrows, Running
<1> QED BY <1>4, <1>5, <1>6, <1>7, <1>8, <1>9, <1>10, <1>11, <1>12, <1>13

(* EventError and the failing EventRead close the connection.              *)
LEMMA CloseStep ==
  ASSUME IInv, NEW w \in Servers, WEventError(w) \/ WReadFails(w)
  PROVE  IInv'
<1> DEFINE c == event[w].ptr
<1>1. PICK bit \in Ev, after \in {"in", "out"} :
        /\ Dispatch(w, bit) /\ wpc[w] \in {"err", "in"} /\ EnterClose(w, after)
        /\ UNCHANGED <<process, open, desc, handler, incoming, outgoing, connections,
                       activity, poll, event, lpc, lconn, current>>
  BY DEF WEventError, WReadFails, WAt, Ev, server, lstner
<1>2. c \in Conns /\ state[c] = "CONNECTED" /\ handler[c] = w
  BY <1>1, DispatchFacts
<1>3. wpc[w] \notin ClosePCs BY <1>1 DEF ClosePCs
<1>4. outgoing' \in [Conns -> Nat] /\ \A d \in Conns : d # c => outgoing'[d] = outgoing[d]
  BY <1>1 DEF IInv, TypeOK
<1> HIDE DEF c
<1>5. c = event[w].ptr BY DEF c
<1> QED BY <1>1, <1>2, <1>3, <1>4, <1>5, EnterCloseStep

(* Requests and replies come and go on the connected object c of worker w, *)
(* whose slot keeps EPOLLIN and EPOLLERR, and EPOLLOUT while it has        *)
(* replies; the worker goes on at pc.                                      *)
Exchange(w, c, m, q, pc) ==
  /\ Running /\ handler[c] = w /\ state[c] = "CONNECTED" /\ wpc[w] \notin ClosePCs
  /\ pc = "out" => wpc[w] = "in"
  /\ wpc' = [wpc EXCEPT ![w] = pc]
  /\ {"IN", "ERR"} \subseteq m /\ (outgoing'[c] > 0 => "OUT" \in m)
  /\ SlotSet(poll[w], q, desc[c], c, m) /\ poll' = [poll EXCEPT ![w] = q]
  /\ incoming' \in [Conns -> Nat] /\ outgoing' \in [Conns -> Nat]
  /\ \A d \in Conns : d # c => incoming'[d] = incoming[d] /\ outgoing'[d] = outgoing[d]
  /\ activity' \in [Servers -> SUBSET Conns]
  /\ \A s \in Servers, d \in Conns :
       /\ d \in activity'[s] => d \in activity[s] \/ (d = c /\ s = w)
       /\ d \in activity[s] /\ d # c => d \in activity'[s]
  /\ incoming'[c] > 0 => c \in activity'[w]
  /\ UNCHANGED <<process, open, state, desc, handler, connections, event, ret,
                 lpc, lconn, current>>

(* An exchange preserves the invariant.                                    *)
LEMMA ExchangeStep ==
  ASSUME IInv, NEW w \in Servers, NEW c \in Conns, NEW m \in SUBSET Ev, NEW q,
         NEW pc \in {"out", "perform", "drain"}, Exchange(w, c, m, q, pc)
  PROVE  IInv'
<1> USE DEF Exchange
<1> USE DEF IInv
<1> DEFINE f == desc[c]
<1>1. c \in connections[w] /\ f # NoFd /\ f \in Fds
  BY DEF OwnerInv, TypeOK
<1>2. /\ q \in PollType /\ ~ q.fault /\ q.events = poll[w].events
      /\ q.table[f] = m /\ q.ctl[f] = [ptr |-> c, ev |-> m]
      /\ \A g \in Fds : g # f => q.table[g] = poll[w].table[g] /\ q.ctl[g] = poll[w].ctl[g]
  <2>1. poll[w] \in PollType BY DEF TypeOK
  <2> QED BY <1>1, <2>1 DEF SlotSet, PollType
<1>3. /\ poll'[w] = q /\ poll' \in [Servers -> PollType]
      /\ \A s \in Servers : s # w => poll'[s] = poll[s]
      /\ \A s \in Servers : poll'[s].events = poll[s].events
  BY <1>2 DEF TypeOK
<1>4. /\ wpc'[w] = pc /\ wpc'[w] \notin ClosePCs
      /\ \A s \in Servers : s # w => wpc'[s] = wpc[s]
  BY DEF TypeOK, ClosePCs
<1>5. TypeOK'
  <2>1. \A s \in Servers : wpc'[s] \in {"err", "in", "out"} \cup ClosePCs => event[s].ptr \in Conns
    BY <1>4 DEF TypeOK, ClosePCs
  <2>2. wpc' \in [Servers -> WorkerPCs] BY DEF TypeOK, WorkerPCs
  <2> QED BY <1>3, <2>1, <2>2 DEF TypeOK
<1>6. DescInv' BY DEF DescInv
<1>7. RegInv'
  <2>1. ASSUME NEW s \in Servers, NEW g \in Fds, s # w \/ g # f
        PROVE  poll'[s].table[g] = poll[s].table[g] /\ poll'[s].ctl[g] = poll[s].ctl[g]
    BY <1>2, <1>3, <2>1
  <2>2. m # {} /\ c # NULL BY PollAssumption
  <2>3. /\ poll'[w].table[f] = m /\ poll'[w].ctl[f].ptr = c /\ poll'[w].ctl[f].ev = m
    BY <1>2, <1>3
  <2> QED BY <2>1, <2>2, <2>3 DEF RegInv
<1>8. EventInv' BY <1>3, <1>4 DEF EventInv, ClosePCs
<1>9. OwnerInv' BY <1>1, <1>4 DEF OwnerInv, ClosePCs
<1>10. CloseInv' BY <1>4 DEF CloseInv
<1>11. UnpolledInv'
  <2>1. \A s \in Servers : wpc'[s] = "closefd" => s # w BY <1>4 DEF ClosePCs
  <2> QED BY <1>3, <1>4, <2>1 DEF UnpolledInv
<1>12. ClosingInv'
  <2>1. \A s \in Servers, d \in Conns : InClose(s, d) => InClose(s, d)'
    BY <1>4 DEF InClose
  <2> QED BY <2>1 DEF ClosingInv, TypeOK
<1>13. \A d \in Conns : d # c /\ desc[d] # NoFd =>
         poll'[handler[d]].table[desc[d]] = poll[handler[d]].table[desc[d]]
  <2>1. ASSUME NEW d \in Conns, d # c, desc[d] # NoFd PROVE desc[d] # f /\ desc[d] \in Fds
    BY <2>1, <1>1 DEF DescInv, TypeOK
  <2> QED BY <1>2, <1>3, <2>1 DEF TypeOK
<1>14. ListenerInv'
  <2>1. lpc = "connected" => lconn # c /\ lconn \in Conns
    BY PollAssumption DEF ListenerInv, TypeOK
  <2> QED BY <1>13, <2>1 DEF ListenerInv, Running
<1>15. QueueInv'
  <2>1. poll'[handler[c]].table[desc[c]] = m BY <1>2, <1>3
  <2> QED BY <1>13, <2>1 DEF QueueInv, OwnerInv, TypeOK
<1>16. FaultInv' BY <1>2, <1>3 DEF FaultInv, OnlyBadFdThrows, Running
<1> QED BY <1>5, <1>6, <1>7, <1>8, <1>9, <1>10, <1>11, <1>12, <1>14, <1>15, <1>16

(* Arming EPOLLOUT for a connected object raises nothing.                  *)
LEMMA ArmedFacts ==
  ASSUME FdsFit, IInv, Running, NEW w \in Servers, NEW c \in Conns,
         handler[c] = w, state[c] = "CONNECTED"
  PROVE  LET m == poll[w].table[desc[c]]
         IN  /\ m \in SUBSET Ev /\ {"IN", "ERR"} \subseteq m
             /\ desc[c] \in Fds /\ poll[w] \in PollType /\ ~ poll[w].fault
             /\ SlotOf(poll[w], desc[c], c)
             /\ SlotSet(poll[w], poll[w], desc[c], c, m)
             /\ SlotSet(poll[w], Armed(poll[w], c), desc[c], c, m \cup {"OUT"})
<1> DEFINE m == poll[w].table[desc[c]]
<1>1. desc[c] # NoFd /\ desc[c] \in Fds
  BY DEF IInv, OwnerInv, TypeOK
<1>2. m \in SUBSET Ev BY <1>1, PollFacts DEF IInv
<1>3. {"IN", "ERR"} \subseteq m BY DEF IInv, QueueInv
<1>4. poll[w] \in PollType /\ ~ poll[w].fault BY DEF IInv, TypeOK, FaultInv
<1>5. SlotOf(poll[w], desc[c], c) /\ poll[w].ctl[desc[c]].ptr = c
  BY <1>1, <1>3, SlotOwner
<1>6. SlotSet(poll[w], Armed(poll[w], c), desc[c], c, m \cup {"OUT"})
  BY <1>1, <1>4, <1>5, InsertLemma DEF Armed, InsertWrite, EventOf, Ev
<1>7. poll[w].ctl[desc[c]] = [ptr |-> c, ev |-> m]
  BY <1>1, <1>4, <1>5 DEF SlotOf, PollType, Interest
<1>8. SlotSet(poll[w], poll[w], desc[c], c, m)
  BY <1>1, <1>3, <1>4, <1>7 DEF SlotSet, PollType
<1> QED BY <1>1, <1>2, <1>3, <1>4, <1>5, <1>6, <1>8

(* EventRead: a parsed request marks activity, bad data arms EPOLLOUT.     *)
LEMMA WEventReadStep ==
  ASSUME FdsFit, IInv, NEW w \in Servers, WEventRead(w)
  PROVE  IInv'
<1> DEFINE c == event[w].ptr
           p == poll[w]
           m == p.table[desc[c]]
<1>1. /\ Running /\ wpc[w] = "in" /\ wpc' = [wpc EXCEPT ![w] = "out"] /\ Dispatch(w, "IN")
      /\ Survives(poll'[w])
      /\ UNCHANGED <<open, state, desc, handler, connections, event, ret, lpc, lconn, current>>
  BY DEF WEventRead, WAt, WGoto, lstner
<1>2. c \in Conns /\ state[c] = "CONNECTED" /\ handler[c] = w /\ c \in connections[w]
  BY <1>1, DispatchFacts DEF Ev
<1>3. PICK n \in 0 .. MaxInFlight, bad \in 0 .. 1 :
        /\ incoming' = [incoming EXCEPT ![c] = @ + n]
        /\ outgoing' = [outgoing EXCEPT ![c] = @ + bad]
        /\ activity' = [activity EXCEPT ![w] = IF n > 0 THEN MarkActivity_(@, c) ELSE @]
        /\ poll' = [poll EXCEPT ![w] = IF bad > 0 THEN Armed(@, c) ELSE @]
  BY DEF WEventRead
<1> DEFINE M == MarkActivity_(activity[w], c)
<1>4. /\ M = activity[w] \cup {c}
      /\ activity[w] \subseteq Conns
  <2>1. activity[w] \subseteq Conns BY DEF IInv, TypeOK
  <2>2. \A d \in activity[w] : desc[d] = desc[c] => d = c
    BY <1>2, <2>1 DEF IInv, OwnerInv, DescInv
  <2> QED BY <2>1, <2>2 DEF MarkActivity_, SetInsert
<1> HIDE DEF M
<1>5. /\ activity' \in [Servers -> SUBSET Conns]
      /\ activity'[w] = IF n > 0 THEN activity[w] \cup {c} ELSE activity[w]
      /\ \A s \in Servers : s # w => activity'[s] = activity[s]
  BY <1>2, <1>3, <1>4 DEF M, IInv, TypeOK
<1>6. /\ incoming' \in [Conns -> Nat] /\ outgoing' \in [Conns -> Nat]
      /\ \A d \in Conns : d # c => incoming'[d] = incoming[d] /\ outgoing'[d] = outgoing[d]
      /\ incoming'[c] = incoming[c] + n /\ outgoing'[c] = outgoing[c] + bad
      /\ incoming[c] \in Nat /\ outgoing[c] \in Nat
  <2>1. MaxInFlight \in Nat BY CoreAssumption
  <2> QED BY <1>2, <1>3, <2>1 DEF IInv, TypeOK
<1>7. incoming'[c] > 0 => c \in activity'[w]
  BY <1>2, <1>5, <1>6 DEF IInv, QueueInv
<1>8. outgoing[c] > 0 => "OUT" \in m
  BY <1>2 DEF IInv, QueueInv
<1>9. /\ m \in SUBSET Ev /\ {"IN", "ERR"} \subseteq m
      /\ SlotSet(p, p, desc[c], c, m)
      /\ SlotSet(p, Armed(p, c), desc[c], c, m \cup {"OUT"})
  BY <1>1, <1>2, ArmedFacts
<1> DEFINE q == IF bad > 0 THEN Armed(p, c) ELSE p
           k == IF bad > 0 THEN m \cup {"OUT"} ELSE m
<1>10. poll' = [poll EXCEPT ![w] = q] BY <1>3
<1>11. k \in SUBSET Ev /\ {"IN", "ERR"} \subseteq k /\ SlotSet(p, q, desc[c], c, k)
  BY <1>9 DEF Ev
<1>12. outgoing'[c] > 0 => "OUT" \in k
  <2>1. ~ bad > 0 => outgoing'[c] = outgoing[c] BY <1>6
  <2> QED BY <1>8, <2>1
<1> HIDE DEF q, k
<1>13. process' = process
  BY <1>1, <1>10, <1>11 DEF Survives, SlotSet, IInv, TypeOK
<1>14. wpc[w] \notin ClosePCs BY <1>1 DEF ClosePCs
<1>15. \A s \in Servers, d \in Conns :
         /\ d \in activity'[s] => d \in activity[s] \/ (d = c /\ s = w)
         /\ d \in activity[s] /\ d # c => d \in activity'[s]
  BY <1>5
<1> HIDE DEF c
<1>16. Exchange(w, c, k, q, "out")
  BY <1>1, <1>2, <1>5, <1>6, <1>7, <1>10, <1>11, <1>12, <1>13, <1>14, <1>15 DEF Exchange
<1> QED BY <1>2, <1>11, <1>16, ExchangeStep

(* EventWrite: EPOLLOUT goes only when no reply is queued.                 *)
LEMMA WEventWriteStep ==
  ASSUME FdsFit, IInv, NEW w \in Servers, WEventWrite(w)
  PROVE  IInv'
<1> DEFINE c == event[w].ptr
           p == poll[w]
           m == p.table[desc[c]]
<1>1. /\ Running /\ wpc[w] = "out" /\ Dispatch(w, "OUT") /\ Survives(poll'[w])
      /\ UNCHANGED <<open, desc, handler, incoming, connections, activity, event, lpc, lconn, current>>
  BY DEF WEventWrite, WAt, lstner
<1>2. c \in Conns /\ state[c] = "CONNECTED" /\ handler[c] = w /\ c \in connections[w]
  BY <1>1, DispatchFacts DEF Ev
<1>3. /\ m \in SUBSET Ev /\ {"IN", "ERR"} \subseteq m /\ desc[c] \in Fds
      /\ p \in PollType /\ ~ p.fault /\ SlotOf(p, desc[c], c) /\ SlotSet(p, p, desc[c], c, m)
  BY <1>1, <1>2, ArmedFacts
<1>4. wpc[w] \notin ClosePCs BY <1>1 DEF ClosePCs
<1>5. /\ incoming' \in [Conns -> Nat] /\ activity' \in [Servers -> SUBSET Conns]
      /\ \A d \in Conns : incoming'[d] = incoming[d]
      /\ outgoing \in [Conns -> Nat]
      /\ incoming'[c] > 0 => c \in activity'[w]
  BY <1>1, <1>2 DEF IInv, TypeOK, QueueInv
<1>6. CASE outgoing[c] = 0
  <2> DEFINE q == RemoveWrite(p, EventOf(c))
  <2>1. /\ poll' = [poll EXCEPT ![w] = q] /\ wpc' = [wpc EXCEPT ![w] = "perform"]
        /\ UNCHANGED <<state, ret, outgoing>>
    BY <1>6 DEF WEventWrite, WGoto
  <2>2. SlotSet(p, q, desc[c], c, m \ {"OUT"})
    BY <1>2, <1>3, RemoveLemma DEF RemoveWrite, EventOf, Ev
  <2>3. process' = process
    BY <1>1, <2>1, <2>2 DEF Survives, SlotSet, IInv, TypeOK
  <2>4. m \ {"OUT"} \in SUBSET Ev /\ {"IN", "ERR"} \subseteq m \ {"OUT"} BY <1>3
  <2>5. ~ (outgoing'[c] > 0) BY <1>6, <2>1
  <2>6. /\ outgoing' \in [Conns -> Nat]
        /\ \A d \in Conns : d # c => incoming'[d] = incoming[d] /\ outgoing'[d] = outgoing[d]
    BY <1>5, <2>1
  <2>7. \A s \in Servers, d \in Conns :
          /\ d \in activity'[s] => d \in activity[s] \/ (d = c /\ s = w)
          /\ d \in activity[s] /\ d # c => d \in activity'[s]
    BY <1>1
  <2> HIDE DEF c, q
  <2>8. Exchange(w, c, m \ {"OUT"}, q, "perform")
    BY <1>1, <1>2, <1>4, <1>5, <2>1, <2>2, <2>3, <2>4, <2>5, <2>6, <2>7 DEF Exchange
  <2> QED BY <1>2, <2>4, <2>8, ExchangeStep
<1>7. CASE outgoing[c] > 0
  <2>1. /\ outgoing' = [outgoing EXCEPT ![c] = 0] /\ UNCHANGED poll
        /\ \/ WGoto(w, "perform") /\ UNCHANGED <<state, ret>>
           \/ EnterClose(w, "perform")
    BY <1>7 DEF WEventWrite
  <2>2. process' = process
    BY <1>1, <1>3, <2>1 DEF Survives
  <2>3. outgoing' \in [Conns -> Nat] /\ outgoing'[c] = 0
        /\ \A d \in Conns : d # c => outgoing'[d] = outgoing[d]
    BY <1>2, <1>5, <2>1
  <2>4. CASE EnterClose(w, "perform")
    <3>1. c = event[w].ptr OBVIOUS
    <3> HIDE DEF c, p
    <3> QED BY <1>1, <1>2, <1>4, <2>1, <2>2, <2>3, <2>4, <3>1, EnterCloseStep
  <2>5. CASE WGoto(w, "perform") /\ UNCHANGED <<state, ret>>
    <3>1. poll' = [poll EXCEPT ![w] = p] BY <2>1 DEF IInv, TypeOK
    <3>2. wpc' = [wpc EXCEPT ![w] = "perform"] BY <2>5 DEF WGoto
    <3>3. \A s \in Servers, d \in Conns :
            /\ d \in activity'[s] => d \in activity[s] \/ (d = c /\ s = w)
            /\ d \in activity[s] /\ d # c => d \in activity'[s]
      BY <1>1
    <3>4. ~ (outgoing'[c] > 0) BY <2>3
    <3> HIDE DEF c
    <3>5. Exchange(w, c, m, p, "perform")
      BY <1>1, <1>2, <1>3, <1>4, <1>5, <2>2, <2>3, <2>5, <3>1, <3>2, <3>3, <3>4 DEF Exchange
    <3> QED BY <1>2, <1>3, <3>5, ExchangeStep
  <2> QED BY <2>1, <2>4, <2>5
<1>8. outgoing[c] = 0 \/ outgoing[c] > 0 BY <1>2, <1>5
<1> QED BY <1>6, <1>7, <1>8

(* The request loop: what leaves activity_ leaves no request behind.       *)
LEMMA WServeStep ==
  ASSUME FdsFit, IInv, NEW w \in Servers, WServe(w)
  PROVE  IInv'
<1>1. /\ Running /\ wpc[w] = "drain" /\ UNCHANGED wpc /\ Survives(poll'[w])
      /\ UNCHANGED <<open, state, desc, handler, connections, event, ret, lpc, lconn, current>>
  BY DEF WServe, Serve, GetMessages, WAt, lstner
<1>2. PICK c \in activity[w] :
        /\ activity' = [activity EXCEPT ![w] = @ \ {c}]
        /\ \/ /\ state[c] # "CONNECTED" \/ incoming[c] = 0
              /\ UNCHANGED <<incoming, outgoing, poll>>
           \/ \E k \in 1 .. incoming[c] :
                /\ outgoing' = [outgoing EXCEPT ![c] = @ + k]
                /\ incoming' = [incoming EXCEPT ![c] = 0]
                /\ poll' = [poll EXCEPT ![w] = Armed(@, c)]
  BY DEF WServe, Serve, GetMessages
<1> DEFINE p == poll[w]
           m == p.table[desc[c]]
<1>3. c \in Conns /\ state[c] = "CONNECTED" /\ handler[c] = w
  <2>1. c \in Conns /\ c \in connections[w] /\ handler[c] = w
        /\ state[c] \in {"CONNECTED", "CLOSING"}
    BY DEF IInv, TypeOK, OwnerInv
  <2> QED BY <1>1, <2>1 DEF IInv, OwnerInv
<1>4. /\ m \in SUBSET Ev /\ {"IN", "ERR"} \subseteq m
      /\ SlotSet(p, p, desc[c], c, m)
      /\ SlotSet(p, Armed(p, c), desc[c], c, m \cup {"OUT"})
  BY <1>1, <1>2, <1>3, ArmedFacts
<1>5. /\ wpc[w] \notin ClosePCs /\ wpc' = [wpc EXCEPT ![w] = "drain"]
  BY <1>1 DEF ClosePCs, IInv, TypeOK
<1>6. /\ incoming \in [Conns -> Nat] /\ outgoing \in [Conns -> Nat]
      /\ outgoing[c] > 0 => "OUT" \in m
  BY <1>3, <1>2 DEF IInv, TypeOK, QueueInv
<1>7. /\ activity' \in [Servers -> SUBSET Conns]
      /\ \A s \in Servers, d \in Conns :
           /\ d \in activity'[s] => d \in activity[s] \/ (d = c /\ s = w)
           /\ d \in activity[s] /\ d # c => d \in activity'[s]
  BY <1>2 DEF IInv, TypeOK
<1>8. CASE incoming[c] = 0 /\ UNCHANGED <<incoming, outgoing, poll>>
  <2>1. poll' = [poll EXCEPT ![w] = p] BY <1>8 DEF IInv, TypeOK
  <2>2. process' = process BY <1>1, <1>4, <1>8 DEF Survives, SlotSet
  <2>3. ~ (incoming'[c] > 0) BY <1>8
  <2>4. Exchange(w, c, m, p, "drain")
    BY <1>1, <1>2, <1>3, <1>4, <1>5, <1>6, <1>7, <1>8, <2>1, <2>2, <2>3 DEF Exchange
  <2> QED BY <1>3, <1>2, <1>4, <2>4, ExchangeStep
<1>9. CASE \E k \in 1 .. incoming[c] :
             /\ outgoing' = [outgoing EXCEPT ![c] = @ + k]
             /\ incoming' = [incoming EXCEPT ![c] = 0]
             /\ poll' = [poll EXCEPT ![w] = Armed(@, c)]
  <2>1. PICK k \in 1 .. incoming[c] :
             /\ outgoing' = [outgoing EXCEPT ![c] = @ + k]
             /\ incoming' = [incoming EXCEPT ![c] = 0]
             /\ poll' = [poll EXCEPT ![w] = Armed(@, c)]
    BY <1>9
  <2>2. incoming[c] \in Nat /\ k \in Nat BY <1>3, <1>2, <1>6
  <2>3. /\ incoming' \in [Conns -> Nat] /\ outgoing' \in [Conns -> Nat]
        /\ \A d \in Conns : d # c => incoming'[d] = incoming[d] /\ outgoing'[d] = outgoing[d]
        /\ ~ (incoming'[c] > 0)
    BY <1>3, <1>2, <1>6, <2>1, <2>2
  <2> DEFINE q == Armed(p, c)
             n == m \cup {"OUT"}
  <2>4. poll' = [poll EXCEPT ![w] = q] BY <2>1
  <2>5. n \in SUBSET Ev /\ {"IN", "ERR"} \subseteq n /\ "OUT" \in n /\ SlotSet(p, q, desc[c], c, n)
    BY <1>4 DEF Ev
  <2> HIDE DEF q, n
  <2>6. process' = process
    BY <1>1, <2>4, <2>5 DEF Survives, SlotSet, IInv, TypeOK
  <2>7. Exchange(w, c, n, q, "drain")
    BY <1>1, <1>2, <1>3, <1>5, <1>7, <2>3, <2>4, <2>5, <2>6 DEF Exchange
  <2> QED BY <1>3, <1>2, <2>5, <2>7, ExchangeStep
<1> QED BY <1>3, <1>2, <1>8, <1>9

(* Between DeleteConnection and ::close(): the closing object of worker w. *)
LEMMA ClosingFacts ==
  ASSUME IInv, NEW w \in Servers, wpc[w] \in ClosePCs
  PROVE  LET c == event[w].ptr
         IN  /\ c \in Conns /\ state[c] = "CLOSING" /\ handler[c] = w
             /\ wpc[w] # "release" => desc[c] \in Fds /\ desc[c] # NoFd
             /\ wpc[w] = "release" => desc[c] = NoFd
             /\ \A s \in Servers : s # w /\ wpc[s] \in ClosePCs => event[s].ptr # c
             /\ wpc[w] # "delete" => \A s \in Servers : c \notin connections[s] \cup activity[s]
             /\ lconn = c => lpc = "drop"
             /\ lpc = "connected" => lconn # c /\ lconn \in Conns
<1> DEFINE c == event[w].ptr
<1>1. c \in Conns /\ state[c] = "CLOSING" /\ handler[c] = w
  BY DEF IInv, TypeOK, CloseInv
<1>2. /\ wpc[w] # "release" => desc[c] \in Fds /\ desc[c] # NoFd
      /\ wpc[w] = "release" => desc[c] = NoFd
  BY <1>1 DEF IInv, TypeOK, CloseInv
<1>3. \A s \in Servers : s # w /\ wpc[s] \in ClosePCs => event[s].ptr # c
  BY <1>1 DEF IInv, CloseInv
<1>4. wpc[w] # "delete" => \A s \in Servers : c \notin connections[s] \cup activity[s]
  BY <1>1 DEF IInv, OwnerInv
<1>5. lconn = c => lpc = "drop"
  BY <1>1, PollAssumption DEF IInv, ListenerInv, TypeOK, ListenerPCs
<1>6. lpc = "connected" => lconn # c /\ lconn \in Conns
  BY <1>1, PollAssumption DEF IInv, ListenerInv, TypeOK
<1> QED BY <1>1, <1>2, <1>3, <1>4, <1>5, <1>6

(* DeleteConnection: both sets lose exactly the closing object.            *)
LEMMA WDeleteConnectionStep ==
  ASSUME FdsFit, IInv, NEW w \in Servers, WDeleteConnection(w)
  PROVE  IInv'
<1> USE DEF IInv
<1> DEFINE c == event[w].ptr
<1>1. /\ Running /\ wpc[w] = "delete" /\ wpc' = [wpc EXCEPT ![w] = "unpoll"]
      /\ connections' = [connections EXCEPT ![handler[c]] = SetErase(@, c)]
      /\ activity' = [activity EXCEPT ![handler[c]] = SetErase(@, c)]
      /\ UNCHANGED <<process, open, state, desc, handler, incoming, outgoing, poll, event,
                     ret, lpc, lconn, current>>
  BY DEF WDeleteConnection, WAt, WGoto, conn, lstner
<1>2. /\ c \in Conns /\ state[c] = "CLOSING" /\ handler[c] = w
      /\ desc[c] \in Fds /\ desc[c] # NoFd
      /\ \A s \in Servers : s # w /\ wpc[s] \in ClosePCs => event[s].ptr # c
      /\ lconn = c => lpc = "drop"
  BY <1>1, ClosingFacts DEF ClosePCs
<1>3. /\ wpc'[w] = "unpoll" /\ \A s \in Servers : s # w => wpc'[s] = wpc[s]
      /\ connections' \in [Servers -> SUBSET Conns] /\ activity' \in [Servers -> SUBSET Conns]
      /\ \A s \in Servers, d \in Conns :
           /\ d \in connections'[s] <=> d \in connections[s] /\ ~ (s = w /\ d = c)
           /\ d \in activity'[s] <=> d \in activity[s] /\ ~ (s = w /\ d = c)
  <2>1. \A d \in Conns : desc[d] = desc[c] <=> d = c BY <1>2 DEF DescInv
  <2>2. /\ SetErase(connections[w], c) = connections[w] \ {c}
        /\ SetErase(activity[w], c) = activity[w] \ {c}
    BY <2>1 DEF SetErase, TypeOK
  <2> QED BY <1>1, <1>2, <2>2 DEF TypeOK
<1>4. TypeOK'
  <2>1. wpc' \in [Servers -> WorkerPCs] BY <1>1 DEF TypeOK, WorkerPCs, ClosePCs
  <2>2. \A s \in Servers : wpc'[s] \in {"err", "in", "out"} \cup ClosePCs => event[s].ptr \in Conns
    BY <1>2, <1>3 DEF TypeOK
  <2> QED BY <1>1, <1>3, <2>1, <2>2 DEF TypeOK
<1>5. DescInv' /\ RegInv' BY <1>1 DEF DescInv, RegInv
<1>6. EventInv' BY <1>1, <1>3 DEF EventInv
<1>7. OwnerInv' BY <1>1, <1>2, <1>3 DEF OwnerInv
<1>8. CloseInv' BY <1>1, <1>2, <1>3 DEF CloseInv
<1>9. UnpolledInv' BY <1>1, <1>3 DEF UnpolledInv
<1>10. ClosingInv'
  <2>1. \A s \in Servers, d \in Conns : InClose(s, d) => InClose(s, d)'
    BY <1>1, <1>3 DEF InClose, ClosePCs
  <2> QED BY <1>1, <2>1 DEF ClosingInv, TypeOK
<1>11. ListenerInv'
  <2>1. lpc \in {"init", "connected"} => lconn # c /\ lconn \in Conns
    BY <1>2, PollAssumption DEF TypeOK
  <2>2. lpc \in {"new", "drop"} => lconn \in Conns
    BY PollAssumption DEF TypeOK
  <2> QED BY <1>1, <1>3, <2>1, <2>2 DEF ListenerInv, Running, TypeOK
<1>12. QueueInv' BY <1>1, <1>2, <1>3 DEF QueueInv, TypeOK
<1>13. FaultInv' BY <1>1 DEF FaultInv, OnlyBadFdThrows, Running
<1> QED BY <1>4, <1>5, <1>6, <1>7, <1>8, <1>9, <1>10, <1>11, <1>12, <1>13

(* The slot of the closing object is given back.                           *)
LEMMA WUnpollStep ==
  ASSUME FdsFit, IInv, NEW w \in Servers, WUnpoll(w)
  PROVE  IInv'
<1> USE DEF IInv
<1> DEFINE c == event[w].ptr
           f == desc[c]
           p == poll[w]
           q == Withdraw(p, [ptr |-> c, fd |-> f])
<1>1. /\ Running /\ wpc[w] = "unpoll" /\ wpc' = [wpc EXCEPT ![w] = "closefd"]
      /\ UNCHANGED <<open, state, desc, handler, incoming, outgoing, connections, activity,
                     event, ret, lpc, lconn, current>>
  BY DEF WUnpoll, WAt, WGoto, conn, lstner
<1>2. /\ c \in Conns /\ state[c] = "CLOSING" /\ handler[c] = w
      /\ f \in Fds /\ f # NoFd
      /\ \A s \in Servers : s # w /\ wpc[s] \in ClosePCs => event[s].ptr # c
      /\ \A s \in Servers : c \notin connections[s] \cup activity[s]
      /\ lpc = "connected" => lconn # c /\ lconn \in Conns
  BY <1>1, ClosingFacts DEF ClosePCs
<1>3. poll' = [poll EXCEPT ![w] = q] /\ Survives(q)
  BY <1>2 DEF WUnpoll, EventOf
<1>4. /\ q \in PollType /\ ~ q.fault
      /\ q.table = [p.table EXCEPT ![f] = {}]
      /\ q.ctl = [p.ctl EXCEPT ![f] = Unregistered]
      /\ q.events = {n \in p.events : n.ptr # c}
  <2>1. p \in PollType /\ ~ p.fault BY <1>1 DEF TypeOK, FaultInv
  <2>2. SlotOf(p, f, c) BY <1>2, SlotOwner
  <2>3. c \in Conns /\ f \in Fds BY <1>2
  <2> HIDE DEF c, f, p
  <2> QED BY <2>1, <2>2, <2>3, WithdrawLemma
<1> HIDE DEF q
<1>5. /\ process' = process
      /\ wpc'[w] = "closefd" /\ \A s \in Servers : s # w => wpc'[s] = wpc[s]
      /\ poll' \in [Servers -> PollType] /\ poll'[w] = q
      /\ \A s \in Servers : s # w => poll'[s] = poll[s]
      /\ q.table[f] = {} /\ q.ctl[f] = Unregistered
      /\ \A g \in Fds : g # f => q.table[g] = p.table[g] /\ q.ctl[g] = p.ctl[g]
  <2>1. p \in PollType BY DEF TypeOK
  <2>2. p.table \in [Fds -> SUBSET Ev] /\ p.ctl \in [Fds -> Interest] BY <2>1 DEF PollType
  <2> QED BY <1>1, <1>2, <1>3, <1>4, <2>2 DEF Survives, TypeOK
<1>6. TypeOK'
  <2>1. wpc' \in [Servers -> WorkerPCs] BY <1>1 DEF TypeOK, WorkerPCs, ClosePCs
  <2>2. \A s \in Servers : wpc'[s] \in {"err", "in", "out"} \cup ClosePCs => event[s].ptr \in Conns
    BY <1>2, <1>5 DEF TypeOK
  <2> QED BY <1>1, <1>5, <2>1, <2>2 DEF TypeOK
<1>7. DescInv' BY <1>1 DEF DescInv
<1>8. RegInv'
  <2>1. ASSUME NEW s \in Servers, NEW g \in Fds, s # w \/ g # f
        PROVE  poll'[s].table[g] = poll[s].table[g] /\ poll'[s].ctl[g] = poll[s].ctl[g]
    BY <1>5, <2>1
  <2>2. /\ poll'[w].table[f] = {} /\ poll'[w].ctl[f].ptr = NULL /\ poll'[w].ctl[f].ev = {}
    BY <1>5 DEF Unregistered
  <2>3. ASSUME NEW s \in Servers, NEW g \in Fds
        PROVE  LET r == poll[s].ctl[g]
               IN  r.ptr # NULL => /\ desc'[r.ptr] = g /\ handler'[r.ptr] = s
                                   /\ state'[r.ptr] = "INACTIVE" => lpc' = "connected"
    BY <1>1 DEF RegInv
  <2>4. ASSUME NEW s \in Servers, NEW g \in Fds
        PROVE  LET r == poll'[s].ctl[g]
               IN  /\ poll'[s].table[g] = r.ev /\ (r.ptr = NULL <=> r.ev = {})
                   /\ r.ptr # NULL => r = poll[s].ctl[g]
    <3>1. CASE s = w /\ g = f BY <2>2, <3>1
    <3>2. CASE ~ (s = w /\ g = f) BY <2>1, <3>2 DEF RegInv
    <3> QED BY <3>1, <3>2
  <2> QED BY <2>3, <2>4 DEF RegInv
<1>9. EventInv'
  <2>1. \A s \in Servers : /\ poll'[s].events \subseteq poll[s].events
                           /\ s = w => \A n \in poll'[s].events : n.ptr # c
    BY <1>4, <1>5
  <2> QED BY <1>1, <1>5, <2>1 DEF EventInv
<1>10. OwnerInv' BY <1>1, <1>2, <1>5 DEF OwnerInv
<1>11. CloseInv' BY <1>1, <1>2, <1>5 DEF CloseInv, ClosePCs
<1>12. UnpolledInv' BY <1>1, <1>5 DEF UnpolledInv
<1>13. ClosingInv'
  <2>1. \A s \in Servers, d \in Conns : InClose(s, d) => InClose(s, d)'
    BY <1>1, <1>5 DEF InClose, ClosePCs
  <2> QED BY <1>1, <2>1 DEF ClosingInv, TypeOK
<1>14. \A d \in Conns : d # c /\ desc[d] # NoFd =>
         poll'[handler[d]].table[desc[d]] = poll[handler[d]].table[desc[d]]
  <2>1. ASSUME NEW d \in Conns, d # c, desc[d] # NoFd PROVE desc[d] # f /\ desc[d] \in Fds
    BY <2>1, <1>2 DEF DescInv, TypeOK
  <2> QED BY <1>5, <2>1 DEF TypeOK
<1>15. ListenerInv' BY <1>1, <1>2, <1>5, <1>14 DEF ListenerInv, Running
<1>16. QueueInv'
  <2>1. \A d \in Conns : state[d] = "CONNECTED" => d # c /\ desc[d] # NoFd
    BY <1>2 DEF OwnerInv, TypeOK
  <2> QED BY <1>1, <1>14, <2>1 DEF QueueInv
<1>17. FaultInv' BY <1>1, <1>4, <1>5 DEF FaultInv, OnlyBadFdThrows, Running
<1> QED BY <1>6, <1>7, <1>8, <1>9, <1>10, <1>11, <1>12, <1>13, <1>15, <1>16, <1>17

(* ::close() finds nothing left of the descriptor in any interest list.    *)
LEMMA ForgetNothing ==
  ASSUME IInv, NEW w \in Servers, wpc[w] = "closefd", NEW s \in Servers
  PROVE  LET f == desc[event[w].ptr]
         IN  poll[s].ctl[f].ptr = NULL /\ Forget(poll[s], f) = poll[s]
<1> DEFINE c == event[w].ptr
           f == desc[c]
           p == poll[s]
<1>1. c \in Conns /\ handler[c] = w /\ f \in Fds
  BY ClosingFacts DEF ClosePCs
<1>2. p.table[f] = {}
  BY <1>1, SlotOwner DEF IInv, UnpolledInv
<1>3. p \in PollType BY DEF IInv, TypeOK
<1>4. p.ctl[f] = Unregistered
  <2>1. p.ctl[f] \in Interest BY <1>1, <1>3 DEF PollType
  <2>2. SlotOf(p, f, c) BY <1>1, SlotOwner
  <2> QED BY <1>2, <2>1, <2>2 DEF SlotOf, Interest, Unregistered
<1>5. [g \in Fds |-> IF g = f THEN Unregistered ELSE p.ctl[g]] = p.ctl
  <2>1. p.ctl \in [Fds -> Interest] BY <1>3 DEF PollType
  <2> QED BY <1>4, <2>1
<1>6. [p EXCEPT !.ctl = p.ctl] = p BY <1>3 DEF PollType
<1>7. Forget(p, f) = [p EXCEPT !.ctl = [g \in Fds |-> IF g = f THEN Unregistered ELSE p.ctl[g]]]
  BY <1>3 DEF Forget, PollType
<1>8. Forget(p, f) = p BY <1>5, <1>6, <1>7
<1> QED BY <1>4, <1>8 DEF Unregistered

(* ::close(): the number is free, and nothing refers to it any more.       *)
LEMMA WCloseFdStep ==
  ASSUME FdsFit, IInv, NEW w \in Servers, WCloseFd(w)
  PROVE  IInv'
<1> USE DEF IInv
<1> DEFINE c == event[w].ptr
           f == desc[c]
<1>1. /\ Running /\ wpc[w] = "closefd" /\ wpc' = [wpc EXCEPT ![w] = "release"]
      /\ open' = open \ {f} /\ desc' = [desc EXCEPT ![c] = NoFd]
      /\ UNCHANGED <<process, state, handler, incoming, outgoing, connections, activity,
                     event, ret, lpc, lconn, current>>
  BY DEF WCloseFd, Closed, WAt, WGoto, lstner
<1>2. /\ c \in Conns /\ state[c] = "CLOSING" /\ handler[c] = w
      /\ f \in Fds /\ f # NoFd
      /\ \A s \in Servers : s # w /\ wpc[s] \in ClosePCs => event[s].ptr # c
      /\ \A s \in Servers : c \notin connections[s] \cup activity[s]
      /\ lpc = "connected" => lconn # c /\ lconn \in Conns
  BY <1>1, ClosingFacts DEF ClosePCs
<1>3. UNCHANGED poll
  <2>1. poll' = [s \in Servers |-> Forget(poll[s], f)] BY DEF WCloseFd, Closed
  <2>2. \A s \in Servers : Forget(poll[s], f) = poll[s] BY <1>1, ForgetNothing
  <2> QED BY <2>1, <2>2 DEF TypeOK
<1>4. /\ wpc'[w] = "release" /\ \A s \in Servers : s # w => wpc'[s] = wpc[s]
      /\ desc'[c] = NoFd /\ \A d \in Conns : d # c => desc'[d] = desc[d]
  BY <1>1, <1>2 DEF TypeOK
<1>5. TypeOK'
  <2>1. wpc' \in [Servers -> WorkerPCs] BY <1>1 DEF TypeOK, WorkerPCs, ClosePCs
  <2>2. desc' \in [Conns -> Fds \cup {NoFd}] BY <1>1 DEF TypeOK
  <2>3. \A s \in Servers : wpc'[s] \in {"err", "in", "out"} \cup ClosePCs => event[s].ptr \in Conns
    BY <1>2, <1>4 DEF TypeOK
  <2> QED BY <1>1, <1>3, <2>1, <2>2, <2>3 DEF TypeOK
<1>6. DescInv' BY <1>1, <1>2, <1>4 DEF DescInv
<1>7. RegInv'
  <2>1. \A s \in Servers, g \in Fds : poll[s].ctl[g].ptr # NULL => poll[s].ctl[g].ptr # c
    <3>1. \A s \in Servers : poll[s].ctl[f].ptr = NULL BY <1>1, ForgetNothing
    <3> QED BY <3>1 DEF RegInv
  <2> QED BY <1>1, <1>3, <1>4, <2>1, PollFacts DEF RegInv
<1>8. EventInv'
  <2>1. \A s \in Servers : \A n \in poll[s].events : n.ptr # c
    BY <1>1, <1>2 DEF EventInv
  <2> QED BY <1>1, <1>3, <1>4, <2>1, PollFacts DEF EventInv
<1>9. OwnerInv' BY <1>1, <1>2, <1>4 DEF OwnerInv
<1>10. CloseInv'
  <2>1. \A s \in Servers : s # w /\ wpc[s] \in ClosePCs => event[s].ptr \in Conns \ {c}
    BY <1>2 DEF TypeOK
  <2> QED BY <1>1, <1>2, <1>4, <2>1 DEF CloseInv
<1>11. UnpolledInv'
  <2>1. \A s \in Servers : wpc'[s] = "closefd" => s # w /\ event[s].ptr \in Conns \ {c}
    BY <1>2, <1>4 DEF TypeOK, ClosePCs
  <2> QED BY <1>1, <1>3, <1>4, <2>1 DEF UnpolledInv
<1>12. ClosingInv'
  <2>1. \A s \in Servers, d \in Conns : InClose(s, d) => InClose(s, d)'
    BY <1>1, <1>4 DEF InClose, ClosePCs
  <2>2. InClose(w, c)' BY <1>1, <1>4 DEF InClose, ClosePCs
  <2> QED BY <1>1, <1>2, <1>4, <2>1, <2>2 DEF ClosingInv, TypeOK
<1>13. ListenerInv' BY <1>1, <1>2, <1>3, <1>4 DEF ListenerInv, Running
<1>14. QueueInv' BY <1>1, <1>2, <1>3, <1>4 DEF QueueInv
<1>15. FaultInv' BY <1>1, <1>3 DEF FaultInv, OnlyBadFdThrows, Running
<1> QED BY <1>5, <1>6, <1>7, <1>8, <1>9, <1>10, <1>11, <1>12, <1>13, <1>14, <1>15

(* The worker's shared_ptr goes: the object dies, or the listener has it.  *)
LEMMA WReleaseStep ==
  ASSUME FdsFit, IInv, NEW w \in Servers, WRelease(w)
  PROVE  IInv'
<1> USE DEF IInv
<1> DEFINE c == event[w].ptr
<1>1. /\ Running /\ wpc[w] = "release" /\ wpc' = [wpc EXCEPT ![w] = ret[w]]
      /\ UNCHANGED <<open, desc, handler, connections, activity, poll, event, ret,
                     lpc, lconn, current>>
  BY DEF WRelease, WAt, WGoto, server, lstner
<1>2. /\ c \in Conns /\ state[c] = "CLOSING" /\ handler[c] = w /\ desc[c] = NoFd
      /\ \A s \in Servers : s # w /\ wpc[s] \in ClosePCs => event[s].ptr # c
      /\ \A s \in Servers : c \notin connections[s] \cup activity[s]
      /\ lconn = c => lpc = "drop"
  BY <1>1, ClosingFacts DEF ClosePCs
<1>3. /\ process' = process
      /\ \/ lconn = c /\ UNCHANGED <<state, incoming, outgoing>>
         \/ /\ lconn # c /\ state' = [state EXCEPT ![c] = "FREE"]
            /\ incoming' = [incoming EXCEPT ![c] = 0] /\ outgoing' = [outgoing EXCEPT ![c] = 0]
  <2>1. ~ HeldByServer(c) BY <1>2 DEF HeldByServer
  <2> QED BY <1>2, <2>1 DEF WRelease, Destroy
<1>4. /\ wpc'[w] \in {"in", "out", "perform"} /\ wpc'[w] \notin ClosePCs
      /\ \A s \in Servers : s # w => wpc'[s] = wpc[s]
  BY <1>1 DEF TypeOK, ClosePCs
<1>5. /\ \A d \in Conns : d # c => /\ state'[d] = state[d] /\ incoming'[d] = incoming[d]
                                   /\ outgoing'[d] = outgoing[d]
      /\ \/ lconn = c /\ state'[c] = "CLOSING"
         \/ lconn # c /\ state'[c] = "FREE" /\ incoming'[c] = 0 /\ outgoing'[c] = 0
  BY <1>2, <1>3 DEF TypeOK
<1>6. TypeOK'
  <2>1. /\ state' \in [Conns -> States] /\ incoming' \in [Conns -> Nat]
        /\ outgoing' \in [Conns -> Nat]
    BY <1>3 DEF TypeOK, States
  <2>2. wpc' \in [Servers -> WorkerPCs] BY <1>1 DEF TypeOK, WorkerPCs
  <2>3. \A s \in Servers : wpc'[s] \in {"err", "in", "out"} \cup ClosePCs => event[s].ptr \in Conns
    BY <1>2, <1>4 DEF TypeOK
  <2> QED BY <1>1, <1>3, <2>1, <2>2, <2>3 DEF TypeOK
<1>7. DescInv' BY <1>1, <1>2, <1>5 DEF DescInv
<1>8. RegInv'
  <2>1. \A s \in Servers, g \in Fds : poll[s].ctl[g].ptr # NULL =>
          poll[s].ctl[g].ptr # c /\ poll[s].ctl[g].ptr \in Conns
    <3>1. NoFd \notin Fds BY PollAssumption DEF NoFd
    <3> QED BY <1>2, <3>1, PollFacts DEF RegInv
  <2> QED BY <1>1, <1>5, <2>1 DEF RegInv
<1>9. EventInv'
  <2>1. \A s \in Servers : \A n \in poll[s].events : n.ptr # c /\ n.ptr \in Conns
    BY <1>2, PollFacts DEF EventInv
  <2>2. \A s \in Servers : wpc'[s] = "closefd" => wpc[s] = "closefd"
    BY <1>4 DEF ClosePCs
  <2> QED BY <1>1, <1>5, <2>1, <2>2 DEF EventInv
<1>10. OwnerInv'
  <2>1. \A s \in Servers : wpc[s] = "delete" => wpc'[s] = "delete"
    BY <1>1, <1>4
  <2> QED BY <1>1, <1>2, <1>5, <2>1 DEF OwnerInv
<1>11. CloseInv' /\ UnpolledInv'
  <2>1. \A s \in Servers : wpc'[s] \in ClosePCs =>
          s # w /\ event[s].ptr \in Conns \ {c} /\ wpc'[s] = wpc[s]
    BY <1>2, <1>4 DEF TypeOK
  <2>2. CloseInv' BY <1>1, <1>5, <2>1 DEF CloseInv
  <2>3. UnpolledInv' BY <1>1, <2>1 DEF UnpolledInv, ClosePCs
  <2> QED BY <2>2, <2>3
<1>12. ClosingInv'
  <2>1. \A s \in Servers, d \in Conns : d # c /\ InClose(s, d) => InClose(s, d)'
    BY <1>1, <1>4 DEF InClose
  <2> QED BY <1>1, <1>2, <1>5, <2>1 DEF ClosingInv, TypeOK
<1>13. ListenerInv' BY <1>1, <1>2, <1>3, <1>5, PollAssumption DEF ListenerInv, Running, TypeOK
<1>14. QueueInv' BY <1>1, <1>2, <1>5 DEF QueueInv
<1>15. FaultInv' BY <1>1, <1>3 DEF FaultInv, OnlyBadFdThrows, Running
<1> QED BY <1>6, <1>7, <1>8, <1>9, <1>10, <1>11, <1>12, <1>13, <1>14, <1>15

-----------------------------------------------------------------------------
(* The inductive argument, and the properties it gives.                    *)

(* The initial state satisfies the invariant.                              *)
LEMMA InitInv ==
  ASSUME Init
  PROVE  IInv
<1> USE PollAssumption, CoreAssumption DEF Init
<1>1. NewPoll \in PollType
  BY DEF NewPoll, PollType, Interest, Unregistered
<1>2. TypeOK
  BY <1>1 DEF TypeOK, States, Faults, Servers, WorkerPCs, ListenerPCs, ClosePCs, NoEntry, Interest
<1>3. /\ \A s \in Servers : /\ poll[s].events = {} /\ ~ poll[s].fault /\ wpc[s] = "poll"
                            /\ connections[s] = {} /\ activity[s] = {}
      /\ \A s \in Servers, f \in Fds : /\ poll[s].table[f] = {} /\ poll[s].ctl[f].ptr = NULL
                                       /\ poll[s].ctl[f].ev = {}
      /\ \A c \in Conns : /\ state[c] = "FREE" /\ desc[c] = NoFd
                          /\ incoming[c] = 0 /\ outgoing[c] = 0
  BY DEF NewPoll, Unregistered
<1>4. DescInv /\ EventInv /\ OwnerInv
  BY <1>3 DEF DescInv, EventInv, OwnerInv
<1>7. RegInv
  <2> HIDE DEF Init
  <2>1. ASSUME NEW s \in Servers, NEW f \in Fds
        PROVE  /\ poll[s].table[f] = poll[s].ctl[f].ev
               /\ poll[s].ctl[f].ptr = NULL <=> poll[s].ctl[f].ev = {}
               /\ ~ (poll[s].ctl[f].ptr # NULL)
    BY <1>3
  <2> QED BY <2>1 DEF RegInv
<1>5. CloseInv /\ UnpolledInv /\ ClosingInv
  BY <1>3 DEF CloseInv, UnpolledInv, ClosingInv, ClosePCs
<1>6. ListenerInv /\ QueueInv /\ FaultInv
  BY <1>3 DEF ListenerInv, QueueInv, FaultInv, OnlyBadFdThrows
<1> QED BY <1>2, <1>4, <1>5, <1>6, <1>7 DEF IInv

(* So does a step that changes nothing.                                    *)
LEMMA StutterInv ==
  ASSUME IInv, UNCHANGED vars
  PROVE  IInv'
<1>1. UNCHANGED <<process, open, state, desc, handler, incoming, outgoing, connections,
                  activity, poll, wpc, event, ret, lpc, lconn, current>>
  BY DEF vars, conn, server, worker, lstner
<1>2. TypeOK' /\ DescInv' /\ RegInv' /\ EventInv' /\ OwnerInv' /\ UnpolledInv'
  BY <1>1 DEF IInv, TypeOK, DescInv, RegInv, EventInv, OwnerInv, UnpolledInv
<1>3. CloseInv' /\ ClosingInv' /\ ListenerInv' /\ QueueInv' /\ FaultInv'
  BY <1>1 DEF IInv, CloseInv, ClosingInv, InClose, ListenerInv, QueueInv, FaultInv,
              OnlyBadFdThrows, Running
<1> QED BY <1>2, <1>3 DEF IInv

(* Every step preserves the invariant.                                     *)
LEMMA NextInv ==
  ASSUME FdsFit, IInv, [Next]_vars
  PROVE  IInv'
<1>1. CASE Listener
  BY <1>1, LAcceptStep, LNewConnectionStep, LInitializeStep, LConnectedStep, LDropStep
  DEF Listener
<1>2. ASSUME NEW w \in Servers, Worker(w) PROVE IInv'
  BY <1>2, WDoPollStep, WNextEntryStep, BranchStep, CloseStep, WEventReadStep,
     WEventWriteStep, WDeleteConnectionStep, WUnpollStep, WCloseFdStep, WReleaseStep,
     WServeStep
  DEF Worker
<1>3. CASE UNCHANGED vars
  BY <1>3, StutterInv
<1> QED BY <1>1, <1>2, <1>3 DEF Next, Terminated

(* The invariant holds in every reachable state.                           *)
THEOREM Invariance ==
  ASSUME FdsFit
  PROVE  Spec => []IInv
<1>1. Init => IInv BY InitInv
<1>2. IInv /\ [Next]_vars => IInv' BY NextInv
<1> QED BY <1>1, <1>2, PTL DEF Spec

(* Every variable stays in its type.                                       *)
THEOREM TypeCorrect ==
  ASSUME FdsFit
  PROVE  Spec => []TypeOK
<1>1. IInv => TypeOK BY DEF IInv
<1> QED BY <1>1, Invariance, PTL

(* No exception of a poll object or of ~Socket() ends the process, but for *)
(* that of the registration of fd_ = -1 on the listener's thread.          *)
THEOREM OnlyBadFdEverThrows ==
  ASSUME FdsFit
  PROVE  Spec => []OnlyBadFdThrows
<1>1. IInv => OnlyBadFdThrows BY DEF IInv, FaultInv
<1> QED BY <1>1, Invariance, PTL

(* A descriptor number the kernel may hand out has left no trace.          *)
THEOREM FreeFdClean ==
  ASSUME FdsFit
  PROVE  Spec => []FreeFdIsClean
<1>1. ASSUME IInv PROVE FreeFdIsClean
  <2>1. SUFFICES ASSUME NEW f \in Fds \ open
                 PROVE  /\ \A c \in Conns : desc[c] # f
                        /\ \A s \in Servers : /\ poll[s].table[f] = {}
                                              /\ poll[s].ctl[f] = Unregistered
    BY DEF FreeFdIsClean
  <2>2. \A c \in Conns : desc[c] # f
    <3>1. f # NoFd BY PollAssumption DEF NoFd
    <3> QED BY <1>1, <3>1 DEF IInv, DescInv
  <2>3. ASSUME NEW s \in Servers
        PROVE  poll[s].table[f] = {} /\ poll[s].ctl[f] = Unregistered
    <3>1. poll[s].ctl[f] \in Interest
      <4>1. poll[s] \in PollType BY <1>1 DEF IInv, TypeOK
      <4> QED BY <4>1 DEF PollType
    <3>2. poll[s].ctl[f].ptr = NULL
      <4>1. poll[s].ctl[f].ptr \in Conns \cup {NULL} BY <3>1 DEF Interest
      <4> QED BY <1>1, <2>2, <4>1 DEF IInv, RegInv
    <3>3. poll[s].ctl[f].ev = {} /\ poll[s].table[f] = {}
      BY <1>1, <3>2 DEF IInv, RegInv
    <3> QED BY <3>1, <3>2, <3>3 DEF Interest, Unregistered
  <2> QED BY <2>2, <2>3
<1> QED BY <1>1, Invariance, PTL

(* The kernel and events_ only point to live objects of the same server.   *)
THEOREM NothingDangles ==
  ASSUME FdsFit
  PROVE  Spec => []NoDanglingRegistration
<1>1. ASSUME IInv PROVE NoDanglingRegistration
  <2>1. ASSUME NEW s \in Servers, NEW f \in Fds, poll[s].ctl[f].ptr # NULL
        PROVE  LET c == poll[s].ctl[f].ptr
               IN  state[c] # "FREE" /\ desc[c] = f /\ handler[c] = s
    <3> DEFINE c == poll[s].ctl[f].ptr
    <3>1. c \in Conns BY <1>1, <2>1, PollFacts DEF IInv
    <3>2. desc[c] = f /\ handler[c] = s BY <1>1, <2>1 DEF IInv, RegInv
    <3> QED BY <1>1, <3>1, <3>2, PollAssumption DEF IInv, DescInv, NoFd
  <2>2. ASSUME NEW s \in Servers, NEW n \in poll[s].events
        PROVE  state[n.ptr] # "FREE" /\ handler[n.ptr] = s
    <3>1. n.ptr \in Conns BY <1>1, PollFacts DEF IInv
    <3> QED BY <1>1, <3>1 DEF IInv, EventInv, DescInv
  <2> QED BY <2>1, <2>2 DEF NoDanglingRegistration
<1> QED BY <1>1, Invariance, PTL

(* The keys of both sets of a server stay valid and pairwise different.    *)
THEOREM KeysSound ==
  ASSUME FdsFit
  PROVE  Spec => []SetKeysSound
<1>1. ASSUME IInv PROVE SetKeysSound
  <2>1. ASSUME NEW s \in Servers, NEW c \in connections[s] \cup activity[s]
        PROVE  c \in Conns /\ (desc[c] = NoFd => lconn = c)
    <3>1. c \in Conns /\ c \in connections[s] BY <1>1, <2>1 DEF IInv, TypeOK, OwnerInv
    <3> QED BY <1>1, <3>1 DEF IInv, OwnerInv
  <2>2. ASSUME NEW s \in Servers, NEW c \in connections[s] \cup activity[s],
               NEW d \in connections[s] \cup activity[s], desc[c] = desc[d]
        PROVE  c = d
    BY <1>1, <2>1, <2>2 DEF IInv, DescInv
  <2> QED BY <2>1, <2>2 DEF SetKeysSound
<1> QED BY <1>1, Invariance, PTL

(* A parsed request keeps its connection in activity_ until it is taken.   *)
THEOREM RequestsKept ==
  ASSUME FdsFit
  PROVE  Spec => []NoLostRequest
<1>1. IInv => NoLostRequest BY DEF IInv, QueueInv, NoLostRequest
<1> QED BY <1>1, Invariance, PTL

(* A connected connection never goes deaf, and a queued reply is armed.    *)
THEOREM RepliesArmed ==
  ASSUME FdsFit
  PROVE  Spec => []ReplyArmed
<1>1. ASSUME IInv, NEW c \in Conns, state[c] = "CONNECTED"
      PROVE  EventMask_(poll[handler[c]], EventOf(c)) = poll[handler[c]].table[desc[c]]
  <2>1. desc[c] \in Fds BY <1>1 DEF IInv, OwnerInv, TypeOK
  <2> QED BY <2>1 DEF EventMask_, EventOf, InTable, FdsFit
<1>2. IInv => ReplyArmed BY <1>1 DEF IInv, QueueInv, ReplyArmed
<1> QED BY <1>2, Invariance, PTL

(* No step revives a connection that is being closed.                      *)
THEOREM ClosingStaysClosing ==
  ASSUME FdsFit
  PROVE  Spec => ClosingIsFinal
<1>1. ASSUME IInv, [Next]_vars, NEW c \in Conns, state[c] = "CLOSING"
      PROVE  state'[c] \in {"CLOSING", "FREE"}
  <2> USE DEF IInv
  <2>0. state \in [Conns -> States] BY <1>1 DEF TypeOK
  <2>1. CASE LAccept
    BY <1>1, <2>0, <2>1 DEF LAccept
  <2>2. CASE LNewConnection \/ LInitialize
    BY <1>1, <2>2 DEF LNewConnection, LInitialize, conn
  <2>3. CASE LConnected
    <3>1. lpc = "connected" /\ state' = [state EXCEPT ![lconn] = "CONNECTED"]
      BY <2>3 DEF LConnected, LAt
    <3>2. lconn # c BY <1>1, <3>1 DEF ListenerInv
    <3> QED BY <1>1, <2>0, <3>1, <3>2
  <2>4. CASE LDrop
    BY <1>1, <2>0, <2>4 DEF LDrop, Destroy
  <2>5. ASSUME NEW w \in Servers, Worker(w) PROVE state'[c] \in {"CLOSING", "FREE"}
    <3>1. \/ UNCHANGED state
          \/ EnterClose(w, "in") \/ EnterClose(w, "out") \/ EnterClose(w, "perform")
          \/ Destroy(event[w].ptr)
      BY <2>5 DEF Worker, WDoPoll, WNextEntry, WSkipError, WSkipRead, WSkipWrite, Branch,
                  WEventError, WReadFails, WEventRead, WEraseThrows, WEventWrite,
                  WDeleteConnection, WUnpoll, WCloseFd, WRelease, WServe, Serve, WDrained, conn
    <3> QED BY <1>1, <2>0, <3>1 DEF EnterClose, Destroy
  <2>6. CASE UNCHANGED vars
    BY <1>1, <2>6 DEF vars, conn
  <2> QED BY <1>1, <2>1, <2>2, <2>3, <2>4, <2>5, <2>6 DEF Next, Listener, Terminated
<1>2. IInv /\ [Next]_vars =>
        [\A c \in Conns : state[c] = "CLOSING" => state'[c] \in {"CLOSING", "FREE"}]_vars
  BY <1>1
<1> QED BY <1>2, Invariance, PTL DEF Spec, ClosingIsFinal

-----------------------------------------------------------------------------
(* A server holds no more connections than it may.                         *)
LimitInv ==
  \A s \in Servers : IsFiniteSet(connections[s]) /\ Cardinality(connections[s]) <= MaxConnects

(* The sets shrink, or NewConnection adds one to a set that is not full.   *)
LEMMA SetsStep ==
  ASSUME TypeOK, [Next]_vars
  PROVE  \A s \in Servers :
           \/ connections'[s] \subseteq connections[s]
           \/ \E c \in Conns : ~ Full(s) /\ connections'[s] = connections[s] \cup {c}
<1>1. CASE UNCHANGED connections
  BY <1>1
<1>2. CASE LNewConnection
  <2> DEFINE h == handler[lconn]
  <2>1. lconn \in Conns /\ h \in Servers BY <1>2 DEF LNewConnection, LAt, TypeOK
  <2>2. CASE ~ Full(h) /\ connections' = [connections EXCEPT ![h] = SetInsert(@, lconn)]
    <3>1. SetInsert(connections[h], lconn) \in {connections[h], connections[h] \cup {lconn}}
      BY DEF SetInsert
    <3> QED BY <2>1, <2>2, <3>1 DEF TypeOK
  <2> QED BY <1>1, <1>2, <2>2 DEF LNewConnection
<1>3. ASSUME NEW w \in Servers, WDeleteConnection(w)
      PROVE  \A s \in Servers : connections'[s] \subseteq connections[s]
  BY <1>3 DEF WDeleteConnection, SetErase, TypeOK
<1> QED
  BY <1>1, <1>2, <1>3
  DEF Next, vars, server, Listener, LAccept, LInitialize, LConnected, LDrop, Worker, WDoPoll,
      WNextEntry, WSkipError, WSkipRead, WSkipWrite, Branch, WEventError, WReadFails,
      WEventRead, WEraseThrows, WEventWrite, WUnpoll, WCloseFd, WRelease, WServe, Serve,
      WDrained, Terminated

(* The limit is kept by every step.                                        *)
LEMMA LimitStep ==
  ASSUME TypeOK, LimitInv, [Next]_vars
  PROVE  LimitInv'
<1> SUFFICES ASSUME NEW s \in Servers
             PROVE  IsFiniteSet(connections'[s]) /\ Cardinality(connections'[s]) <= MaxConnects
  BY DEF LimitInv
<1>1. IsFiniteSet(connections[s]) /\ Cardinality(connections[s]) <= MaxConnects
  BY DEF LimitInv
<1>2. Cardinality(connections[s]) \in Nat
  BY <1>1, FS_CardinalityType
<1>3. CASE connections'[s] \subseteq connections[s]
  <2>1. IsFiniteSet(connections'[s]) /\ Cardinality(connections'[s]) <= Cardinality(connections[s])
    BY <1>1, <1>3, FS_Subset
  <2>2. Cardinality(connections'[s]) \in Nat BY <2>1, FS_CardinalityType
  <2> QED BY <1>1, <1>2, <2>1, <2>2, CoreAssumption
<1>4. ASSUME NEW c \in Conns, ~ Full(s), connections'[s] = connections[s] \cup {c}
      PROVE  IsFiniteSet(connections'[s]) /\ Cardinality(connections'[s]) <= MaxConnects
  <2>1. Cardinality(connections[s]) < MaxConnects
    BY <1>2, <1>4, CoreAssumption DEF Full
  <2>2. /\ IsFiniteSet(connections'[s])
        /\ Cardinality(connections'[s]) \in {Cardinality(connections[s]), Cardinality(connections[s]) + 1}
    BY <1>1, <1>4, FS_AddElement
  <2> QED BY <1>2, <2>1, <2>2, CoreAssumption
<1> QED BY <1>3, <1>4, SetsStep

(* It holds in every reachable state.                                      *)
LEMMA LimitKept ==
  ASSUME FdsFit
  PROVE  Spec => []LimitInv
<1>1. Init => LimitInv
  BY FS_EmptySet, CoreAssumption DEF Init, LimitInv
<1>2. TypeOK /\ LimitInv /\ [Next]_vars => LimitInv'
  BY LimitStep
<1>3. Spec => []TypeOK BY TypeCorrect
<1> QED BY <1>1, <1>2, <1>3, PTL DEF Spec

(* A connected connection is held by its server, which holds at most       *)
(* max_connects_.                                                          *)
THEOREM OwnersWithinLimit ==
  ASSUME FdsFit
  PROVE  Spec => []ServerOwnsConnected
<1>1. IInv /\ LimitInv => ServerOwnsConnected
  BY DEF IInv, TypeOK, OwnerInv, LimitInv, ServerOwnsConnected
<1> QED BY <1>1, Invariance, LimitKept, PTL

-----------------------------------------------------------------------------
(* The refinement, action by action.                                       *)

(* A step that leaves the connections alone shows nothing, or the end.     *)
LEMMA QuietStep ==
  ASSUME Running, UNCHANGED conn
  PROVE  [Service!Next]_Service!vars
<1>1. UNCHANGED <<Phases, desc, handler, Requests, Replies>>
  BY DEF conn, Phases, Requests, Replies, Counted
<1>2. CASE process' = process
  BY <1>1, <1>2 DEF Service!vars, Over
<1>3. CASE process' # process
  BY <1>1, <1>3 DEF Service!Next, Service!End, Over, Running
<1> QED BY <1>2, <1>3

(* A new state of one object is the new phase of its connection; the       *)
(* queues keep counting for the others.                                    *)
LEMMA MoveStep ==
  ASSUME TypeOK, NEW o \in Conns, NEW v \in States, Running, process' = process,
         state' = [state EXCEPT ![o] = v]
  PROVE  Service!Move(o, Phase(state[o]), Phase(v))
<1>1. state[o] \in States /\ Phases[o] = Phase(state[o]) BY DEF TypeOK, Phases
<1>2. Phases' = [Phases EXCEPT ![o] = Phase(v)]
  BY DEF TypeOK, Phases
<1> QED BY <1>1, <1>2 DEF Service!Move, Over, Running

LEMMA CountedStep ==
  ASSUME TypeOK, NEW o \in Conns, NEW v \in States, state' = [state EXCEPT ![o] = v],
         incoming' \in [Conns -> Nat], outgoing' \in [Conns -> Nat],
         \A d \in Conns : d # o => incoming'[d] = incoming[d] /\ outgoing'[d] = outgoing[d]
  PROVE  /\ Requests' = [Requests EXCEPT ![o] = IF v = "CONNECTED" THEN incoming'[o] ELSE 0]
         /\ Replies' = [Replies EXCEPT ![o] = IF v = "CONNECTED" THEN outgoing'[o] ELSE 0]
         /\ Requests[o] = IF state[o] = "CONNECTED" THEN incoming[o] ELSE 0
         /\ Replies[o] = IF state[o] = "CONNECTED" THEN outgoing[o] ELSE 0
         /\ Requests \in [Conns -> Nat] /\ Replies \in [Conns -> Nat]
BY DEF TypeOK, Requests, Replies, Counted

(* Nothing is counted anew when an object with empty queues moves, or one  *)
(* that is not connected before or after.                                  *)
LEMMA SameCounts ==
  ASSUME TypeOK, NEW o \in Conns, NEW v \in States, state' = [state EXCEPT ![o] = v],
         \/ incoming[o] = 0 /\ outgoing[o] = 0 /\ UNCHANGED <<incoming, outgoing>>
         \/ /\ state[o] # "CONNECTED" /\ v # "CONNECTED"
            /\ \A d \in Conns : d # o => incoming'[d] = incoming[d] /\ outgoing'[d] = outgoing[d]
  PROVE  UNCHANGED <<Requests, Replies>>
<1>1. state' \in [Conns -> States] /\ state'[o] = v /\ \A d \in Conns : d # o => state'[d] = state[d]
  BY DEF TypeOK
<1>2. Requests' = Requests BY <1>1 DEF Requests, Counted
<1>3. Replies' = Replies BY <1>1 DEF Replies, Counted
<1> QED BY <1>2, <1>3

(* accept() hands out a number that nobody holds.                          *)
LEMMA AcceptShown ==
  ASSUME IInv, LAccept
  PROVE  [Service!Next]_Service!vars
<1> USE DEF IInv
<1>1. PICK f \in Fds \ open, o \in Conns :
        /\ state[o] = "FREE"
        /\ state' = [state EXCEPT ![o] = "INACTIVE"]
        /\ handler' = [handler EXCEPT ![o] = current]
        /\ desc' = [desc EXCEPT ![o] = f] \/ desc' = [desc EXCEPT ![o] = NoFd]
  BY DEF LAccept
<1>2. Running /\ UNCHANGED <<process, incoming, outgoing>>
  BY DEF LAccept, LAt
<1>3. PICK n \in Fds \cup {NoFd} : desc' = [desc EXCEPT ![o] = n] /\ n \in {f, NoFd}
  BY <1>1
<1>4. n # NoFd => \A d \in Conns : desc[d] # n
  BY <1>1, <1>3 DEF DescInv
<1>5. Service!Move(o, "none", "accepted")
  BY <1>1, <1>2, MoveStep DEF Phase, States
<1>6. UNCHANGED <<Requests, Replies, Over>>
  BY <1>1, <1>2, SameCounts DEF States, Over
<1>7. Service!Accept(o, current, n)
  BY <1>1, <1>3, <1>4, <1>5, <1>6 DEF Service!Accept
<1>8. current \in Servers BY DEF TypeOK
<1> QED BY <1>7, <1>8 DEF Service!Next

(* SetState(STATE_CONNECTED): the connection has a number, and its server  *)
(* has room for it.                                                        *)
LEMMA AdmitShown ==
  ASSUME IInv, LimitInv, LConnected
  PROVE  [Service!Next]_Service!vars
<1> USE DEF IInv
<1> DEFINE o == lconn
           h == handler[o]
<1>1. /\ Running /\ lpc = "connected" /\ o \in Conns /\ h \in Servers
      /\ state' = [state EXCEPT ![o] = "CONNECTED"]
      /\ UNCHANGED <<process, desc, handler, incoming, outgoing>>
  BY DEF LConnected, LAt, TypeOK
<1>2. state[o] = "INACTIVE" /\ desc[o] # NoFd /\ o \in connections[h]
  BY <1>1 DEF ListenerInv
<1>3. incoming[o] = 0 /\ outgoing[o] = 0
  BY <1>1, <1>2 DEF QueueInv
<1>4. Service!Move(o, "accepted", "served")
  BY <1>1, <1>2, MoveStep DEF Phase, States
<1>5. UNCHANGED <<Requests, Replies, Over>>
  BY <1>1, <1>2, <1>3, SameCounts DEF States, Over
<1>6. Service!Served(h) \subseteq connections[h] \ {o}
  BY <1>1, <1>2 DEF Service!Served, Phases, Phase, OwnerInv, TypeOK, States
<1>7. Cardinality(Service!Served(h)) < MaxConnects
  <2>1. IsFiniteSet(connections[h]) /\ Cardinality(connections[h]) <= MaxConnects
    BY <1>1 DEF LimitInv
  <2>2. /\ IsFiniteSet(connections[h] \ {o})
        /\ Cardinality(connections[h] \ {o}) = Cardinality(connections[h]) - 1
    BY <1>2, <2>1, FS_RemoveElement
  <2>3. /\ IsFiniteSet(Service!Served(h))
        /\ Cardinality(Service!Served(h)) <= Cardinality(connections[h] \ {o})
    BY <1>6, <2>2, FS_Subset
  <2>4. Cardinality(Service!Served(h)) \in Nat /\ Cardinality(connections[h]) \in Nat
    BY <2>1, <2>3, FS_CardinalityType
  <2> QED BY <2>1, <2>2, <2>3, <2>4, CoreAssumption
<1>8. Service!Cardinality(Service!Served(h)) = Cardinality(Service!Served(h))
  BY DEF Service!Cardinality, Cardinality
<1>9. Service!Admit(o)
  BY <1>1, <1>2, <1>4, <1>5, <1>7, <1>8 DEF Service!Admit
<1> QED BY <1>1, <1>9 DEF Service!Next

(* A step that neither moves the listener nor touches a descriptor, or one *)
(* that leaves the listener anywhere but behind Initialize, throws nothing. *)
LEMMA NothingThrown ==
  ASSUME IInv, IInv', Running, process' \in {process, "poll_threw"},
         lpc' # "connected" \/ UNCHANGED <<lpc, lconn, desc>>
  PROVE  process' = process
BY DEF IInv, FaultInv, OnlyBadFdThrows, ListenerInv

(* The listener drops its pointer: nothing shows, a closed object goes, or *)
(* a rejected one is given up with its number.                             *)
LEMMA DropShown ==
  ASSUME IInv, IInv', LDrop
  PROVE  [Service!Next]_Service!vars
<1> USE DEF IInv
<1> DEFINE o == lconn
<1>1. /\ Running /\ lpc = "drop" /\ lpc' = "accept"
      /\ o \in Conns /\ state[o] # "FREE" /\ UNCHANGED handler
  BY DEF LDrop, LAt, LGoto, ListenerInv, TypeOK
<1>2. CASE UNCHANGED <<process, state, desc, incoming, outgoing>>
  BY <1>1, <1>2, QuietStep DEF conn
<1>3. CASE /\ state[o] = "CLOSING" /\ ~ \E s \in Servers : InClose(s, o)
           /\ Destroy(o) /\ UNCHANGED desc
  <2>1. desc[o] = NoFd BY <1>1, <1>3 DEF ClosingInv, TypeOK
  <2>2. /\ state' = [state EXCEPT ![o] = "FREE"] /\ UNCHANGED process
        /\ \A d \in Conns : d # o => incoming'[d] = incoming[d] /\ outgoing'[d] = outgoing[d]
    BY <1>3, <2>1 DEF Destroy, TypeOK
  <2>3. Service!Move(o, "leaving", "none") BY <1>1, <1>3, <2>2, MoveStep DEF Phase, States
  <2>4. UNCHANGED <<Requests, Replies, Over>>
    BY <1>1, <1>3, <2>2, SameCounts DEF States, Over
  <2>5. Service!Go(o) BY <1>1, <1>3, <2>1, <2>3, <2>4 DEF Service!Go
  <2> QED BY <1>1, <2>5 DEF Service!Next
<1>4. CASE /\ ~ HeldByServer(o) /\ state[o] # "CLOSING"
           /\ desc' = Closed(o) /\ state' = [state EXCEPT ![o] = "FREE"]
           /\ incoming' = [incoming EXCEPT ![o] = 0] /\ outgoing' = [outgoing EXCEPT ![o] = 0]
           /\ process' \in {process, "poll_threw"}
  <2>1. handler[o] \in Servers BY <1>1 DEF TypeOK
  <2>2. state[o] = "INACTIVE"
    BY <1>1, <1>4, <2>1 DEF OwnerInv, HeldByServer, TypeOK, States
  <2>3. process' = process BY <1>1, <1>4, NothingThrown
  <2>4. Service!Move(o, "accepted", "none")
    BY <1>1, <1>4, <2>2, <2>3, MoveStep DEF Phase, States
  <2>5. UNCHANGED <<Requests, Replies, Over>>
    <3>1. \A d \in Conns : d # o => incoming'[d] = incoming[d] /\ outgoing'[d] = outgoing[d]
      BY <1>4 DEF TypeOK
    <3> QED BY <1>1, <1>4, <2>2, <2>3, <3>1, SameCounts DEF States, Over
  <2>6. Service!Refuse(o) BY <1>1, <1>4, <2>4, <2>5 DEF Service!Refuse, Closed
  <2> QED BY <1>1, <2>6 DEF Service!Next
<1> QED BY <1>1, <1>2, <1>3, <1>4 DEF LDrop, Survives

(* A connection that is being closed shows no messages any more.           *)
LEMMA LeaveShown ==
  ASSUME IInv, NEW o \in Conns, state[o] = "CONNECTED", Running,
         state' = [state EXCEPT ![o] = "CLOSING"],
         outgoing' \in [Conns -> Nat], \A d \in Conns : d # o => outgoing'[d] = outgoing[d],
         UNCHANGED <<process, desc, handler, incoming>>
  PROVE  [Service!Next]_Service!vars
<1> USE DEF IInv
<1>1. Service!Move(o, "served", "leaving") BY MoveStep DEF Phase, States
<1>2. /\ Requests' = [Requests EXCEPT ![o] = 0] /\ Replies' = [Replies EXCEPT ![o] = 0]
      /\ UNCHANGED Over
  BY CountedStep DEF TypeOK, States, Over
<1>3. Service!Leave(o) BY <1>1, <1>2 DEF Service!Leave
<1> QED BY <1>3 DEF Service!Next

(* Messages come and go on a connected object only.                        *)
LEMMA MessagesShown ==
  ASSUME IInv, NEW o \in Conns, state[o] = "CONNECTED", Running,
         incoming' \in [Conns -> Nat], outgoing' \in [Conns -> Nat],
         \A d \in Conns : d # o => incoming'[d] = incoming[d] /\ outgoing'[d] = outgoing[d],
         UNCHANGED <<process, state, desc, handler>>,
         \/ \E n \in 0 .. MaxInFlight, bad \in 0 .. 1 :
              incoming'[o] = incoming[o] + n /\ outgoing'[o] = outgoing[o] + bad
         \/ \E k \in 1 .. incoming[o] : incoming'[o] = 0 /\ outgoing'[o] = outgoing[o] + k
         \/ incoming'[o] = incoming[o] /\ outgoing'[o] = 0
  PROVE  [Service!Next]_Service!vars
<1> USE DEF IInv
<1>1. state' = [state EXCEPT ![o] = "CONNECTED"] BY DEF TypeOK
<1>2. Service!Move(o, "served", "served") BY <1>1, MoveStep DEF Phase, States
<1>3. /\ Requests' = [Requests EXCEPT ![o] = incoming'[o]]
      /\ Replies' = [Replies EXCEPT ![o] = outgoing'[o]]
      /\ Requests[o] = incoming[o] /\ Replies[o] = outgoing[o] /\ Requests \in [Conns -> Nat]
  BY <1>1, CountedStep DEF TypeOK, States
<1>4. UNCHANGED <<desc, handler, Over>> BY DEF Over
<1>5. CASE \E n \in 0 .. MaxInFlight, bad \in 0 .. 1 :
             incoming'[o] = incoming[o] + n /\ outgoing'[o] = outgoing[o] + bad
  <2>1. PICK n \in 0 .. MaxInFlight, bad \in {0, 1} :
          incoming'[o] = incoming[o] + n /\ outgoing'[o] = outgoing[o] + bad
    BY <1>5
  <2>2. Service!Ask(o, n, bad) BY <1>2, <1>3, <1>4, <2>1 DEF Service!Ask
  <2> QED BY <2>2 DEF Service!Next
<1>6. CASE \E k \in 1 .. incoming[o] : incoming'[o] = 0 /\ outgoing'[o] = outgoing[o] + k
  <2>1. PICK k \in 1 .. Requests[o] : incoming'[o] = 0 /\ outgoing'[o] = outgoing[o] + k
    BY <1>3, <1>6
  <2>2. Service!Answer(o, k) BY <1>2, <1>3, <1>4, <2>1 DEF Service!Answer
  <2> QED BY <2>1, <2>2 DEF Service!Next
<1>7. CASE incoming'[o] = incoming[o] /\ outgoing'[o] = 0
  <2>1. Service!Send(o) BY <1>2, <1>3, <1>4, <1>7 DEF Service!Send
  <2> QED BY <2>1 DEF Service!Next
<1> QED BY <1>5, <1>6, <1>7

(* The handlers of a worker show what they do to the connection they run   *)
(* on; a poll object that does not throw does not end the process.         *)
LEMMA HandlersShown ==
  ASSUME IInv, IInv', NEW w \in Servers,
         WEventError(w) \/ WReadFails(w) \/ WEventRead(w) \/ WEventWrite(w)
  PROVE  [Service!Next]_Service!vars
<1> USE DEF IInv
<1> DEFINE c == event[w].ptr
<1>1. Running /\ c \in Conns /\ state[c] = "CONNECTED"
  BY DispatchFacts DEF WEventError, WReadFails, WEventRead, WEventWrite, WAt, Ev
<1>2. process' = process
  <2>1. process' \in {process, "poll_threw"} /\ UNCHANGED <<lpc, lconn, desc>>
    BY DEF WEventError, WReadFails, WEventRead, WEventWrite, EnterClose, Survives, lstner
  <2> QED BY <1>1, <2>1, NothingThrown
<1>3. CASE WEventError(w) \/ WReadFails(w)
  BY <1>1, <1>3, LeaveShown DEF WEventError, WReadFails, EnterClose, TypeOK
<1>4. CASE WEventRead(w)
  <2>1. PICK n \in 0 .. MaxInFlight, bad \in 0 .. 1 :
          /\ incoming' = [incoming EXCEPT ![c] = @ + n]
          /\ outgoing' = [outgoing EXCEPT ![c] = @ + bad]
          /\ UNCHANGED <<state, desc, handler>>
    BY <1>4 DEF WEventRead
  <2> QED BY <1>1, <1>2, <2>1, MessagesShown DEF TypeOK
<1>5. CASE WEventWrite(w)
  <2>1. UNCHANGED <<desc, handler, incoming>> BY <1>5 DEF WEventWrite
  <2>2. CASE UNCHANGED <<state, outgoing>>
    BY <1>1, <2>1, <2>2, QuietStep DEF conn
  <2>3. CASE outgoing' = [outgoing EXCEPT ![c] = 0] /\ UNCHANGED state
    BY <1>1, <1>2, <2>1, <2>3, MessagesShown DEF TypeOK
  <2>4. CASE outgoing' = [outgoing EXCEPT ![c] = 0] /\ EnterClose(w, "perform")
    BY <1>1, <1>2, <2>1, <2>4, LeaveShown DEF EnterClose, TypeOK
  <2> QED BY <1>5, <2>2, <2>3, <2>4 DEF WEventWrite
<1> QED BY <1>3, <1>4, <1>5

(* ::close() gives the number back; the object goes when nobody holds it.  *)
LEMMA GoodbyeShown ==
  ASSUME IInv, NEW w \in Servers, WCloseFd(w) \/ WRelease(w)
  PROVE  [Service!Next]_Service!vars
<1> USE DEF IInv
<1> DEFINE c == event[w].ptr
<1>1. /\ Running /\ wpc[w] \in {"closefd", "release"}
      /\ c \in Conns /\ state[c] = "CLOSING" /\ (wpc[w] = "release" => desc[c] = NoFd)
  BY DEF WCloseFd, WRelease, WAt, ClosePCs, CloseInv, TypeOK
<1>2. CASE WCloseFd(w)
  <2>1. desc' = [desc EXCEPT ![c] = NoFd] /\ UNCHANGED <<process, state, handler, incoming, outgoing>>
    BY <1>2 DEF WCloseFd, Closed
  <2>2. state' = [state EXCEPT ![c] = "CLOSING"] BY <1>1, <2>1 DEF TypeOK
  <2>3. Service!Move(c, "leaving", "leaving") BY <1>1, <2>1, <2>2, MoveStep DEF Phase, States
  <2>4. UNCHANGED <<Requests, Replies, Over>> BY <2>1 DEF Requests, Replies, Counted, Over
  <2>5. Service!GiveBack(c) BY <2>1, <2>3, <2>4 DEF Service!GiveBack
  <2> QED BY <1>1, <2>5 DEF Service!Next
<1>3. CASE WRelease(w)
  <2>1. wpc[w] = "release" /\ UNCHANGED <<desc, handler>> BY <1>3 DEF WRelease, WAt
  <2>2. CASE UNCHANGED <<process, state, incoming, outgoing>>
    BY <1>1, <2>1, <2>2, QuietStep DEF conn
  <2>3. CASE Destroy(c)
    <3>1. /\ state' = [state EXCEPT ![c] = "FREE"] /\ UNCHANGED process
          /\ \A d \in Conns : d # c => incoming'[d] = incoming[d] /\ outgoing'[d] = outgoing[d]
      BY <1>1, <2>1, <2>3 DEF Destroy, TypeOK
    <3>2. Service!Move(c, "leaving", "none") BY <1>1, <3>1, MoveStep DEF Phase, States
    <3>3. UNCHANGED <<Requests, Replies, Over>>
      BY <1>1, <3>1, SameCounts DEF States, Over
    <3>4. Service!Go(c) BY <1>1, <2>1, <3>2, <3>3 DEF Service!Go
    <3> QED BY <1>1, <3>4 DEF Service!Next
  <2> QED BY <1>3, <2>2, <2>3 DEF WRelease
<1> QED BY <1>2, <1>3

(* The application takes the requests of a connected object.               *)
LEMMA ServeShown ==
  ASSUME IInv, IInv', NEW w \in Servers, WServe(w)
  PROVE  [Service!Next]_Service!vars
<1> USE DEF IInv
<1>1. Running /\ UNCHANGED <<state, desc, handler>>
  BY DEF WServe, Serve, WAt
<1>2. process' = process
  <2>1. process' \in {process, "poll_threw"} /\ UNCHANGED <<lpc, lconn, desc>>
    BY DEF WServe, Serve, Survives, lstner
  <2> QED BY <1>1, <2>1, NothingThrown
<1>3. CASE UNCHANGED <<incoming, outgoing>>
  BY <1>1, <1>3, QuietStep DEF conn
<1>4. ASSUME NEW c \in Conns, state[c] = "CONNECTED",
             NEW k \in 1 .. incoming[c], outgoing' = [outgoing EXCEPT ![c] = @ + k],
             incoming' = GetMessages(c)
      PROVE  [Service!Next]_Service!vars
  <2>1. /\ incoming' \in [Conns -> Nat] /\ outgoing' \in [Conns -> Nat]
        /\ incoming'[c] = 0 /\ outgoing'[c] = outgoing[c] + k
        /\ \A d \in Conns : d # c => incoming'[d] = incoming[d] /\ outgoing'[d] = outgoing[d]
    BY <1>4 DEF GetMessages, TypeOK
  <2> QED BY <1>1, <1>2, <1>4, <2>1, MessagesShown
<1>5. \A c \in activity[w] : c \in Conns BY DEF TypeOK
<1> QED BY <1>3, <1>4, <1>5 DEF WServe, Serve

(* Every step of the core is one of the service, or shows nothing.         *)
LEMMA StepShown ==
  ASSUME IInv, IInv', LimitInv, [Next]_vars
  PROVE  [Service!Next]_Service!vars
<1>1. CASE LNewConnection \/ LInitialize
  BY <1>1, QuietStep DEF LNewConnection, LInitialize, LAt
<1>2. ASSUME NEW w \in Servers,
             \/ WDoPoll(w) \/ WNextEntry(w) \/ WSkipError(w) \/ WSkipRead(w) \/ WSkipWrite(w)
             \/ WEraseThrows(w) \/ WDeleteConnection(w) \/ WUnpoll(w) \/ WDrained(w)
      PROVE  [Service!Next]_Service!vars
  <2>1. Running /\ UNCHANGED conn
    BY <1>2 DEF WDoPoll, WNextEntry, WSkipError, WSkipRead, WSkipWrite, Branch, WEraseThrows,
                WDeleteConnection, WUnpoll, WDrained, WAt, conn
  <2> QED BY <2>1, QuietStep
<1>3. ASSUME NEW w \in Servers, Worker(w) PROVE [Service!Next]_Service!vars
  BY <1>2, <1>3, HandlersShown, GoodbyeShown, ServeShown DEF Worker
<1>4. CASE UNCHANGED vars
  <2>1. UNCHANGED <<process, state, desc, handler, incoming, outgoing>> BY <1>4 DEF vars, conn
  <2> QED BY <2>1 DEF Service!vars, Phases, Requests, Replies, Counted, Over
<1> QED
  BY <1>1, <1>3, <1>4, AcceptShown, AdmitShown, DropShown DEF Next, Listener, Terminated

(* It starts where the service starts.                                     *)
LEMMA InitShown ==
  ASSUME Init
  PROVE  Service!Init
<1>1. /\ Phases = [c \in Conns |-> "none"] /\ Requests = [c \in Conns |-> 0]
      /\ Replies = [c \in Conns |-> 0] /\ Over = FALSE
  BY DEF Init, Phases, Phase, Requests, Replies, Counted, Over
<1>2. handler \in [Conns -> Servers]
  BY CoreAssumption DEF Init, Servers
<1> QED BY <1>1, <1>2 DEF Service!Init, Init

(* The core implements the service, for any number of servers, addresses,  *)
(* descriptors with a slot, and messages.                                  *)
THEOREM CoreImplementsService ==
  ASSUME FdsFit
  PROVE  Spec => ImplementsService
<1>1. Init => Service!Init BY InitShown
<1>2. IInv /\ IInv' /\ LimitInv /\ [Next]_vars => [Service!Next]_Service!vars BY StepShown
<1> QED BY <1>1, <1>2, Invariance, LimitKept, PTL DEF Spec, ImplementsService, Service!Spec
=============================================================================
