------------------------------ MODULE PollEPoll ------------------------------
(***************************************************************************)
(* The epoll back end of the poll interface (lib/io/poll_epoll.cpp).       *)
(*                                                                         *)
(* A poll object is a record                                               *)
(*   table   table_[fd], the mask the object believes is registered        *)
(*   ctl     the kernel's interest list: per descriptor the data.ptr and   *)
(*           the mask of the last successful epoll_ctl                     *)
(*   events  the entries of events_[0 .. waiting_events_) that Perform()   *)
(*           has not reached yet.  The kernel's order is arbitrary, so the *)
(*           entries are a set; an entry whose data.ptr was set to 0       *)
(*           dispatches nothing and is left out                            *)
(*   fault   an IOException or InternalError was thrown; the calls that    *)
(*           follow in the same function are then not made                 *)
(*                                                                         *)
(* An Event* is a record [ptr, fd]: the object's address and its fd_.      *)
(***************************************************************************)
EXTENDS Integers

CONSTANTS Conns,      \* heap addresses of connection objects
          NULL,       \* the null pointer
          Fds,        \* descriptor numbers accept() may return
          TableSize   \* max_open_sockets: table_.size()

ASSUME PollAssumption ==
  /\ NULL \notin Conns
  /\ Fds \subseteq Nat
  /\ TableSize \in Nat

NoFd == -1
Ev   == {"IN", "OUT", "ERR"}

Unregistered == [ptr |-> NULL, ev |-> {}]

Entry     == [ptr : Conns, ev : SUBSET Ev]
Interest  == [ptr : Conns \cup {NULL}, ev : SUBSET Ev]
PollType  == [table : [Fds -> SUBSET Ev], ctl : [Fds -> Interest],
              events : SUBSET Entry, fault : BOOLEAN]

NewPoll == [table |-> [f \in Fds |-> {}], ctl |-> [f \in Fds |-> Unregistered],
            events |-> {}, fault |-> FALSE]

-----------------------------------------------------------------------------
(* The uint64_t conversion makes fd_ = -1 larger than any table size.      *)
InTable(fd) == fd \in Fds /\ fd < TableSize

EventMask_(p, e) == IF InTable(e.fd) THEN p.table[e.fd] ELSE {}

(* table_[fd] = m has no bounds check: outside the table the write lands   *)
(* in memory that no part of this model reads.                             *)
SetEventMask_(p, e, m) ==
  IF InTable(e.fd) THEN [p EXCEPT !.table[e.fd] = m] ELSE p

(* The kernel refuses a bad descriptor, a second ADD, and a MOD or DEL of  *)
(* what is not in the interest list.                                       *)
epoll_ctl_fails(p, op, fd) ==
  \/ fd \notin Fds
  \/ (op = "ADD") # (p.ctl[fd].ptr = NULL)

epoll_ctl(p, op, e, m) ==
  [p EXCEPT !.ctl[e.fd] = IF op = "DEL" THEN Unregistered
                                        ELSE [ptr |-> e.ptr, ev |-> m]]

Modify_(p, e, op, m) ==
  IF p.fault \/ EventMask_(p, e) = m
  THEN p
  ELSE LET q == SetEventMask_(p, e, m)
       IN  IF epoll_ctl_fails(p, op, e.fd)
           THEN [q EXCEPT !.fault = TRUE]
           ELSE epoll_ctl(q, op, e, m)

Insert(p, e, bit) ==
  Modify_(p, e, IF EventMask_(p, e) # {} THEN "MOD" ELSE "ADD",
          EventMask_(p, e) \cup {bit})

Remove(p, e, bit) ==
  LET m == EventMask_(p, e) \ {bit}
  IN  Modify_(p, e, IF m # {} THEN "MOD" ELSE "DEL", m)

InsertRead(p, e)  == Insert(p, e, "IN")
InsertWrite(p, e) == Insert(p, e, "OUT")
InsertError(p, e) == Insert(p, e, "ERR")
RemoveRead(p, e)  == Remove(p, e, "IN")
RemoveWrite(p, e) == Remove(p, e, "OUT")
RemoveError(p, e) == Remove(p, e, "ERR")

-----------------------------------------------------------------------------
(* Open() only checks that the descriptor's slot is clean.                 *)
PollOpen(p, e) == IF EventMask_(p, e) # {} THEN [p EXCEPT !.fault = TRUE] ELSE p

(* Close() checks the slot and nulls the waiting entries of the object.    *)
PollClose(p, e) ==
  IF p.fault \/ EventMask_(p, e) # {}
  THEN [p EXCEPT !.fault = TRUE]
  ELSE [p EXCEPT !.events = {n \in @ : n.ptr # e.ptr}]

(* epoll_wait: any subset of the registered descriptors, each with a       *)
(* nonempty part of its mask.  EPOLLERR is reported whether asked or not.  *)
Registered(p) == {f \in Fds : p.ctl[f].ptr # NULL}

Reports(p, ready) ==
  {r \in [ready -> SUBSET Ev \ {{}}] : \A f \in ready : r[f] \subseteq p.ctl[f].ev \cup {"ERR"}}

DoPoll(p, report) ==
  [p EXCEPT !.events = {[ptr |-> p.ctl[f].ptr, ev |-> report[f]] : f \in DOMAIN report}]
=============================================================================
