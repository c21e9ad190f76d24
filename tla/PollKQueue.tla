----------------------------- MODULE PollKQueue -----------------------------
(***************************************************************************)
(* The kqueue back end of the poll interface (lib/io/poll_kqueue.cpp).     *)
(*                                                                         *)
(* A poll object is a record                                               *)
(*   table    table_[fd], the mask the object believes is registered       *)
(*   filters  the kernel's side: per descriptor and filter, udata or NULL  *)
(*   events   the entries of events_[0 .. waiting_events_) that Perform()  *)
(*            has not reached yet.  An entry is for one filter; the order  *)
(*            is the kernel's; one whose udata was set to 0 is left out    *)
(*   fault    an IOException was thrown                                    *)
(*                                                                         *)
(* An Event* is a record [ptr, fd]: the object's address and its fd_.      *)
(***************************************************************************)
EXTENDS Integers

CONSTANTS Conns,      \* heap addresses of connection objects
          NULL,       \* the null pointer
          Fds,        \* descriptor numbers accept() may return
          TableSize   \* max_open_sockets: table_.size()

NoFd    == -1
Filters == {"IN", "OUT"}
Entry   == [ptr : Conns, fd : Fds, filter : Filters]

PollType == [table : [Fds -> SUBSET Filters],
             filters : [Fds -> [Filters -> Conns \cup {NULL}]],
             events : SUBSET Entry, fault : BOOLEAN]

NoFilters == [b \in Filters |-> NULL]
NewPoll == [table |-> [f \in Fds |-> {}], filters |-> [f \in Fds |-> NoFilters],
            events |-> {}, fault |-> FALSE]

-----------------------------------------------------------------------------
InTable(fd) == fd \in Fds /\ fd < TableSize

EventMask_(p, e) == IF InTable(e.fd) THEN p.table[e.fd] ELSE {}

SetEventMask_(p, e, m) == IF InTable(e.fd) THEN [p EXCEPT !.table[e.fd] = m] ELSE p

(* The kernel refuses a bad descriptor and the deletion of a filter that   *)
(* is not there; EV_ADD of one that is there replaces udata.               *)
kevent_fails(p, op, fd, b) ==
  fd \notin Fds \/ (op = "EV_DELETE" /\ p.filters[fd][b] = NULL)

kevent(p, op, e, b) ==
  [p EXCEPT !.filters[e.fd][b] = IF op = "EV_ADD" THEN e.ptr ELSE NULL]

(* Each change is one kevent() call for one filter.                        *)
Modify_(p, e, op, b) ==
  IF kevent_fails(p, op, e.fd, b) THEN [p EXCEPT !.fault = TRUE] ELSE kevent(p, op, e, b)

Insert(p, e, b) ==
  IF p.fault \/ b \in EventMask_(p, e) THEN p
  ELSE Modify_(SetEventMask_(p, e, EventMask_(p, e) \cup {b}), e, "EV_ADD", b)

Remove(p, e, b) ==
  IF p.fault \/ b \notin EventMask_(p, e) THEN p
  ELSE Modify_(SetEventMask_(p, e, EventMask_(p, e) \ {b}), e, "EV_DELETE", b)

InsertRead(p, e)  == Insert(p, e, "IN")
InsertWrite(p, e) == Insert(p, e, "OUT")
InsertError(p, e) == p
RemoveRead(p, e)  == Remove(p, e, "IN")
RemoveWrite(p, e) == Remove(p, e, "OUT")
RemoveError(p, e) == p

-----------------------------------------------------------------------------
(* Open() only checks that the descriptor's slot is clean.                 *)
PollOpen(p, e) == IF EventMask_(p, e) # {} THEN [p EXCEPT !.fault = TRUE] ELSE p

(* Mutant: the entries that wait are left alone.                           *)
PollCloseKeepsEntries(p, e) ==
  IF p.fault \/ EventMask_(p, e) # {} THEN [p EXCEPT !.fault = TRUE] ELSE p

(* Close() checks the slot and nulls the waiting entries of the object.    *)
PollClose(p, e) ==
  IF p.fault \/ EventMask_(p, e) # {}
  THEN [p EXCEPT !.fault = TRUE]
  ELSE [p EXCEPT !.events = {n \in @ : n.ptr # e.ptr}]

(* kevent() waits: any set of the filters that are registered.             *)
Ready(p) == {n \in Entry : p.filters[n.fd][n.filter] = n.ptr}

DoPoll(p, report) == [p EXCEPT !.events = report]

(* ::close() removes the filters of the descriptor.                        *)
Forget(p, fd) == [p EXCEPT !.filters[fd] = NoFilters]
=============================================================================
