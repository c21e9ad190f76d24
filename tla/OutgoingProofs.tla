--------------------------- MODULE OutgoingProofs ---------------------------
(***************************************************************************)
(* Every descriptor has one owner, for any number of connections and       *)
(* descriptors, while three threads open and close them; kqueue and epoll  *)
(* agree on every call that is made; and each peer is answered in order.   *)
(***************************************************************************)
EXTENDS OutgoingConnection, SequenceTheorems, FiniteSetTheorems, TLAPS

Handle == [ptr : Conns, fd : Fds \cup {NoFd}]
States == {"FREE", "INACTIVE", "CONNECTED"}

(* What the argument needs of the types; the queues are not among it.      *)
Types ==
  /\ open \subseteq Fds /\ leaked \subseteq Fds
  /\ state \in [Conns -> States]
  /\ desc \in [Conns -> Fds \cup {NoFd}]
  /\ kq \in K!PollType
  /\ app \in [pc : AppPCs, fd : Fds \cup {NoFd}, c : Conns \cup {NULL}]
  /\ at \in Conns \cup {NULL}

(* DescriptorsOwned without its condition.                                 *)
Owned ==
  /\ open = leaked \cup ({desc[c] : c \in Conns} \ {NoFd})
  /\ \A c, d \in Conns : c # d /\ desc[c] = desc[d] => desc[c] = NoFd
  /\ \A c \in Conns : desc[c] \notin leaked

(* No object without life has a descriptor, and none is connected without. *)
StateInv ==
  /\ \A c \in Conns : state[c] = "FREE" => desc[c] = NoFd
  /\ \A c \in Conns : state[c] = "CONNECTED" => desc[c] # NoFd

(* What the constructor's two copies of the number have to do with each    *)
(* other, and that the new object is the only one not yet connected.       *)
AppInv ==
  /\ \A c \in Conns : state[c] = "INACTIVE" => ~ AAt("idle") /\ c = app.c
  /\ ~ AAt("idle") =>
       /\ app.c \in Conns /\ app.fd \in Fds
       /\ state[app.c] = "INACTIVE"
       /\ AAt("connect") => desc[app.c] \in {app.fd, NoFd}
       /\ ~ AAt("connect") => desc[app.c] = app.fd

(* A handler runs on a connected object, which only the worker closes.     *)
WorkerInv ==
  wpc \in {"IN", "OUT", "send", "close"} => at \in Conns /\ state[at] = "CONNECTED"

OInv == Running => Types /\ Owned /\ StateInv /\ AppInv /\ WorkerInv

-----------------------------------------------------------------------------
(* Numbers.                                                                *)
LEMMA Fd == Fds \subseteq Nat /\ NoFd = -1 /\ NoFd \notin Fds /\ NULL \notin Conns
BY ReplyAssumption DEF NoFd, K!NoFd

(* Every operation of the poll object keeps its type.                      *)
LEMMA RecordType ==
  ASSUME NEW p \in K!PollType
  PROVE  /\ \A m \in SUBSET K!Filters, f \in Fds : [p EXCEPT !.table[f] = m] \in K!PollType
         /\ \A u \in Conns \cup {NULL}, f \in Fds, b \in K!Filters :
              [p EXCEPT !.filters[f][b] = u] \in K!PollType
         /\ \A s \in SUBSET K!Entry : [p EXCEPT !.events = s] \in K!PollType
         /\ [p EXCEPT !.fault = TRUE] \in K!PollType
BY DEF K!PollType

LEMMA SetType ==
  ASSUME NEW p \in K!PollType, NEW e \in Handle, NEW m \in SUBSET K!Filters
  PROVE  K!SetEventMask_(p, e, m) \in K!PollType
BY RecordType DEF K!SetEventMask_, K!InTable

LEMMA MaskType ==
  ASSUME NEW p \in K!PollType, NEW e \in Handle
  PROVE  K!EventMask_(p, e) \in SUBSET K!Filters
BY DEF K!EventMask_, K!InTable, K!PollType

LEMMA ModifyType ==
  ASSUME NEW p \in K!PollType, NEW e \in Handle, NEW op, NEW b \in K!Filters
  PROVE  K!Modify_(p, e, op, b) \in K!PollType
<1>1. CASE K!kevent_fails(p, op, e.fd, b)
  BY <1>1, RecordType DEF K!Modify_
<1>2. CASE ~ K!kevent_fails(p, op, e.fd, b)
  <2>1. e.fd \in Fds /\ (IF op = "EV_ADD" THEN e.ptr ELSE NULL) \in Conns \cup {NULL}
    BY <1>2 DEF K!kevent_fails, Handle
  <2> QED BY <1>2, <2>1, RecordType DEF K!Modify_, K!kevent
<1> QED BY <1>1, <1>2

LEMMA FilterType ==
  ASSUME NEW p \in K!PollType, NEW e \in Handle, NEW b \in K!Filters
  PROVE  K!Insert(p, e, b) \in K!PollType /\ K!Remove(p, e, b) \in K!PollType
<1>1. K!EventMask_(p, e) \cup {b} \in SUBSET K!Filters /\ K!EventMask_(p, e) \ {b} \in SUBSET K!Filters
  BY MaskType
<1>2. /\ K!SetEventMask_(p, e, K!EventMask_(p, e) \cup {b}) \in K!PollType
      /\ K!SetEventMask_(p, e, K!EventMask_(p, e) \ {b}) \in K!PollType
  BY <1>1, SetType
<1> QED BY <1>2, ModifyType DEF K!Insert, K!Remove

LEMMA PollTypes ==
  ASSUME NEW p \in K!PollType, NEW e \in Handle
  PROVE  /\ K!InsertRead(p, e) \in K!PollType /\ K!InsertWrite(p, e) \in K!PollType
         /\ K!InsertError(p, e) \in K!PollType
         /\ K!RemoveRead(p, e) \in K!PollType /\ K!RemoveWrite(p, e) \in K!PollType
         /\ K!RemoveError(p, e) \in K!PollType
         /\ K!PollOpen(p, e) \in K!PollType /\ K!PollClose(p, e) \in K!PollType
<1>1. "IN" \in K!Filters /\ "OUT" \in K!Filters
  BY DEF K!Filters
<1>2. {n \in p.events : n.ptr # e.ptr} \in SUBSET K!Entry
  BY DEF K!PollType
<1>3. K!PollClose(p, e) \in K!PollType
  BY <1>2, RecordType DEF K!PollClose
<1>4. K!PollOpen(p, e) \in K!PollType
  BY RecordType DEF K!PollOpen
<1> QED
  BY <1>1, <1>3, <1>4, FilterType
  DEF K!InsertRead, K!InsertWrite, K!InsertError, K!RemoveRead, K!RemoveWrite, K!RemoveError

LEMMA ForgetType ==
  ASSUME NEW p \in K!PollType, NEW f
  PROVE  K!Forget(p, f) \in K!PollType
BY DEF K!Forget, K!PollType, K!NoFilters

-----------------------------------------------------------------------------
(* The shared operators.                                                   *)
LEMMA HandleOf ==
  ASSUME Types, NEW c \in Conns
  PROVE  EventOf(c) \in Handle
BY DEF Types, EventOf, Handle

LEMMA EnrolType ==
  ASSUME Types, NEW c \in Conns, NEW f \in Fds, Enrol(c, f)
  PROVE  kq' \in K!PollType
<1> DEFINE e  == [ptr |-> c, fd |-> f]
           p1 == K!PollOpen(kq, e)
           p2 == K!InsertRead(p1, e)
           p3 == K!InsertWrite(p2, e)
<1>1. e \in Handle
  BY DEF Handle
<1>2. kq \in K!PollType
  BY DEF Types
<1>3. kq' = K!InsertError(p3, e)
  BY DEF Enrol
<1> HIDE DEF e
<1>4. p1 \in K!PollType
  BY <1>1, <1>2, PollTypes
<1> HIDE DEF p1
<1>5. p2 \in K!PollType
  BY <1>1, <1>4, PollTypes
<1> HIDE DEF p2
<1>6. p3 \in K!PollType
  BY <1>1, <1>5, PollTypes
<1> HIDE DEF p3
<1> QED BY <1>1, <1>3, <1>6, PollTypes

LEMMA WithdrawType ==
  ASSUME Types, NEW e \in Handle, Withdraw(e)
  PROVE  kq' \in K!PollType
<1> DEFINE p1 == K!RemoveRead(kq, e)
           p2 == K!RemoveWrite(p1, e)
           p3 == K!RemoveError(p2, e)
           p4 == K!PollClose(p3, e)
<1>1. kq \in K!PollType
  BY DEF Types
<1>2. kq' = K!Forget(p4, e.fd)
  BY DEF Withdraw
<1>3. p1 \in K!PollType
  BY <1>1, PollTypes
<1> HIDE DEF p1
<1>4. p2 \in K!PollType
  BY <1>3, PollTypes
<1> HIDE DEF p2
<1>5. p3 \in K!PollType
  BY <1>4, PollTypes
<1> HIDE DEF p3
<1>6. p4 \in K!PollType
  BY <1>5, PollTypes
<1> HIDE DEF p4
<1> QED BY <1>2, <1>6, ForgetType

(* Nothing that the invariant speaks of changes, except the worker's place *)
(* and the poll object.                                                    *)
Elsewhere == UNCHANGED <<open, leaked, state, desc, app, process>>

LEMMA WorkerMoves ==
  ASSUME Running, OInv, Elsewhere, kq' \in K!PollType, at' \in Conns \cup {NULL}, WorkerInv'
  PROVE  OInv'
<1>1. Types /\ Owned /\ StateInv /\ AppInv
  BY DEF OInv
<1>2. Types'
  BY <1>1 DEF Types, Elsewhere
<1>3. Owned' /\ StateInv' /\ AppInv'
  BY <1>1 DEF Owned, StateInv, AppInv, AAt, Elsewhere
<1> QED BY <1>2, <1>3 DEF OInv

-----------------------------------------------------------------------------
(* One lemma per action of the listener and of the worker.                 *)

(* A new owner for a free number.                                          *)
LEMMA AcceptStep ==
  ASSUME Running, OInv, LAccept, UNCHANGED <<process, app, leaked>>
  PROVE  OInv'
<1>1. Types /\ Owned /\ StateInv /\ AppInv /\ WorkerInv
  BY DEF OInv
<1>2. PICK c \in Conns, f \in Fds :
        /\ state[c] = "FREE" /\ LowestFree(f)
        /\ open' = open \cup {f}
        /\ desc' = [desc EXCEPT ![c] = f]
        /\ Enrol(c, f)
        /\ state' = [state EXCEPT ![c] = "CONNECTED"]
  BY DEF LAccept
<1>3. f \notin open /\ desc[c] = NoFd /\ f # NoFd
  BY <1>1, <1>2, Fd DEF LowestFree, StateInv
<1>4. /\ desc'[c] = f /\ state'[c] = "CONNECTED"
      /\ \A d \in Conns : d # c => desc'[d] = desc[d] /\ state'[d] = state[d]
  BY <1>1, <1>2 DEF Types
<1>5. kq' \in K!PollType
  BY <1>1, <1>2, EnrolType
<1>6. UNCHANGED <<wpc, at>>
  BY DEF LAccept, worker
<1>7. Types'
  BY <1>1, <1>2, <1>5, <1>6 DEF Types, States
<1>8. Owned'
  <2>1. open' = leaked' \cup ({desc'[d] : d \in Conns} \ {NoFd})
    BY <1>1, <1>2, <1>3, <1>4 DEF Owned
  <2>2. \A d, b \in Conns : d # b /\ desc'[d] = desc'[b] => desc'[d] = NoFd
    BY <1>1, <1>3, <1>4 DEF Owned
  <2>3. \A d \in Conns : desc'[d] \notin leaked'
    BY <1>1, <1>3, <1>4 DEF Owned
  <2> QED BY <2>1, <2>2, <2>3 DEF Owned
<1>9. StateInv'
  BY <1>1, <1>3, <1>4 DEF StateInv
<1>10. AppInv'
  BY <1>1, <1>2, <1>4 DEF AppInv, AAt
<1>11. WorkerInv'
  BY <1>1, <1>2, <1>4, <1>6 DEF WorkerInv
<1> QED BY <1>7, <1>8, <1>9, <1>10, <1>11 DEF OInv

LEMMA PollStep ==
  ASSUME Running, OInv, WDoPoll, UNCHANGED <<process, app, leaked>>
  PROVE  OInv'
<1>1. Types /\ WorkerInv
  BY DEF OInv
<1>2. PICK report \in SUBSET K!Ready(kq) : kq' = K!DoPoll(kq, report)
  BY DEF WDoPoll
<1>3. kq' \in K!PollType
  BY <1>1, <1>2, RecordType DEF Types, K!DoPoll, K!Ready
<1>4. Elsewhere /\ at' = at /\ wpc' = "perform"
  BY DEF WDoPoll, Elsewhere, objects
<1>5. at' \in Conns \cup {NULL} /\ WorkerInv'
  BY <1>1, <1>4 DEF WorkerInv, Types
<1> QED BY <1>3, <1>4, <1>5, WorkerMoves

(* An entry that is dispatched is for a connected object: it still asks    *)
(* for the filter, under a number that it has.                             *)
LEMMA EntryStep ==
  ASSUME Running, OInv, WNextEntry, UNCHANGED <<process, app, leaked>>
  PROVE  OInv'
<1>1. Types /\ StateInv /\ WorkerInv
  BY DEF OInv
<1>2. Elsewhere
  BY DEF WNextEntry, Elsewhere, objects
<1>3. CASE kq.events = {} /\ wpc' = "drain" /\ UNCHANGED <<kq, at>>
  <2>1. kq' \in K!PollType /\ at' \in Conns \cup {NULL} /\ WorkerInv'
    BY <1>1, <1>3 DEF Types, WorkerInv
  <2> QED BY <1>2, <2>1, WorkerMoves
<1>4. CASE \E n \in kq.events :
             /\ kq' = [kq EXCEPT !.events = @ \ {n}]
             /\ \/ ~ Dispatched(n) /\ UNCHANGED <<wpc, at>>
                \/ Dispatched(n) /\ at' = n.ptr /\ wpc' = n.filter
  <2>1. PICK n \in kq.events :
             /\ kq' = [kq EXCEPT !.events = @ \ {n}]
             /\ \/ ~ Dispatched(n) /\ UNCHANGED <<wpc, at>>
                \/ Dispatched(n) /\ at' = n.ptr /\ wpc' = n.filter
    BY <1>4
  <2>2. n \in K!Entry /\ kq.events \ {n} \in SUBSET K!Entry
    BY <1>1 DEF Types, K!PollType
  <2>3. kq' \in K!PollType
    BY <1>1, <2>1, <2>2, RecordType DEF Types
  <2>4. CASE ~ Dispatched(n) /\ UNCHANGED <<wpc, at>>
    <3>1. at' \in Conns \cup {NULL} /\ WorkerInv'
      BY <1>1, <1>2, <2>4 DEF Types, WorkerInv, Elsewhere
    <3> QED BY <1>2, <2>3, <3>1, WorkerMoves
  <2>5. CASE Dispatched(n) /\ at' = n.ptr /\ wpc' = n.filter
    <3>1. n.ptr \in Conns
      BY <2>2 DEF K!Entry
    <3>2. desc[n.ptr] \in Fds
      BY <2>5 DEF Dispatched, K!EventMask_, K!InTable, EventOf
    <3>3. state[n.ptr] = "CONNECTED"
      BY <1>1, <2>5, <3>1, <3>2, Fd DEF Dispatched, StateInv, Types, States
    <3>4. at' \in Conns \cup {NULL} /\ WorkerInv'
      BY <1>2, <2>5, <3>1, <3>3 DEF WorkerInv, Elsewhere
    <3> QED BY <1>2, <2>3, <3>4, WorkerMoves
  <2> QED BY <2>1, <2>4, <2>5
<1> QED BY <1>3, <1>4 DEF WNextEntry

(* The handlers that only move messages: a read, a write, a request served.*)
LEMMA SendType ==
  ASSUME Types, NEW c \in Conns, NEW replies, SendMessages(c, replies)
  PROVE  kq' \in K!PollType
<1>1. kq \in K!PollType /\ EventOf(c) \in Handle
  BY HandleOf DEF Types
<1>2. kq' = kq \/ kq' = K!InsertWrite(kq, EventOf(c))
  BY DEF SendMessages, InsertWrite, polls
<1> QED BY <1>1, <1>2, PollTypes

LEMMA ReadStep ==
  ASSUME Running, OInv, WEventRead \/ WReadNothing \/ WReadFails, UNCHANGED <<process, app, leaked>>
  PROVE  OInv'
<1>1. Types /\ WorkerInv
  BY DEF OInv
<1>2. at \in Conns /\ state[at] = "CONNECTED"
  BY <1>1 DEF WorkerInv, WEventRead, WReadNothing, WReadFails, WAt
<1>3. Elsewhere
  BY DEF WEventRead, WReadNothing, WReadFails, Elsewhere, objects
<1>4. kq' \in K!PollType
  <2>1. CASE WEventRead
    BY <1>1, <1>2, <2>1, SendType DEF WEventRead
  <2>2. CASE WReadNothing \/ WReadFails
    BY <1>1, <2>2 DEF WReadNothing, WReadFails, polls, Types
  <2> QED BY <2>1, <2>2
<1>5. (wpc' = "perform" /\ at' = NULL) \/ (wpc' = "close" /\ at' = at)
  BY DEF WEventRead, WReadNothing, WReadFails, Return, Goto
<1>6. at' \in Conns \cup {NULL} /\ WorkerInv'
  BY <1>2, <1>3, <1>5 DEF WorkerInv, Elsewhere
<1> QED BY <1>3, <1>4, <1>6, WorkerMoves

LEMMA WriteStep ==
  ASSUME Running, OInv, WEventWrite \/ WSend \/ WSendFails, UNCHANGED <<process, app, leaked>>
  PROVE  OInv'
<1>1. Types /\ WorkerInv
  BY DEF OInv
<1>2. at \in Conns /\ state[at] = "CONNECTED"
  BY <1>1 DEF WorkerInv, WEventWrite, WSend, WSendFails, WAt
<1>3. Elsewhere
  BY DEF WEventWrite, WSend, WSendFails, Elsewhere, objects
<1>4. kq' = kq \/ kq' = K!RemoveWrite(kq, EventOf(at))
  BY DEF WEventWrite, WSend, WSendFails, polls
<1>5. kq' \in K!PollType
  BY <1>1, <1>2, <1>4, HandleOf, PollTypes DEF Types
<1>6. (wpc' = "perform" /\ at' = NULL) \/ (wpc' \in {"send", "close"} /\ at' = at)
  BY DEF WEventWrite, WSend, WSendFails, Return, Goto
<1>7. at' \in Conns \cup {NULL} /\ WorkerInv'
  BY <1>2, <1>3, <1>6 DEF WorkerInv, Elsewhere
<1> QED BY <1>3, <1>5, <1>7, WorkerMoves

LEMMA DrainStep ==
  ASSUME Running, OInv, WServe \/ WDrained, UNCHANGED <<process, app, leaked>>
  PROVE  OInv'
<1>1. Types /\ WorkerInv
  BY DEF OInv
<1>2. Elsewhere
  BY DEF WServe, WDrained, Elsewhere, objects
<1>3. at' = at /\ wpc' \in {"drain", "poll"}
  BY DEF WServe, WDrained, WAt, worker
<1>4. kq' \in K!PollType
  <2>1. CASE WServe
    BY <1>1, <2>1, SendType DEF WServe, Active
  <2>2. CASE WDrained
    BY <1>1, <2>2 DEF WDrained, polls, Types
  <2> QED BY <2>1, <2>2
<1>5. at' \in Conns \cup {NULL} /\ WorkerInv'
  BY <1>1, <1>3 DEF WorkerInv, Types
<1> QED BY <1>2, <1>4, <1>5, WorkerMoves

(* An object goes, and with it its number, if it had one: what is shared   *)
(* by Close() on the worker and by a constructor that fails.               *)
Gone(c) ==
  /\ desc' = [desc EXCEPT ![c] = NoFd]
  /\ state' = [state EXCEPT ![c] = "FREE"]
  /\ open' = open \ {desc[c]}
  /\ leaked' = leaked

LEMMA GoneOwned ==
  ASSUME Types, Owned, StateInv, NEW c \in Conns, Gone(c)
  PROVE  /\ Owned' /\ StateInv'
         /\ open' \subseteq Fds /\ state' \in [Conns -> States]
         /\ desc' \in [Conns -> Fds \cup {NoFd}]
         /\ \A d \in Conns : d # c => desc'[d] = desc[d] /\ state'[d] = state[d]
         /\ desc'[c] = NoFd /\ state'[c] = "FREE"
<1>1. /\ desc'[c] = NoFd /\ state'[c] = "FREE"
      /\ \A d \in Conns : d # c => desc'[d] = desc[d] /\ state'[d] = state[d]
  BY DEF Types, Gone
<1>2. \A d \in Conns : d # c /\ desc'[d] # NoFd => desc'[d] # desc[c]
  BY <1>1 DEF Owned
<1>3. open' = leaked' \cup ({desc'[d] : d \in Conns} \ {NoFd})
  BY <1>1, <1>2, Fd DEF Owned, Gone, Types
<1>4. \A d, b \in Conns : d # b /\ desc'[d] = desc'[b] => desc'[d] = NoFd
  BY <1>1 DEF Owned
<1>5. \A d \in Conns : desc'[d] \notin leaked'
  BY <1>1, Fd DEF Owned, Types, Gone
<1>6. StateInv'
  BY <1>1 DEF StateInv
<1>7. /\ open' \subseteq Fds /\ state' \in [Conns -> States]
      /\ desc' \in [Conns -> Fds \cup {NoFd}]
  BY DEF Gone, Types, States
<1> QED BY <1>1, <1>3, <1>4, <1>5, <1>6, <1>7 DEF Owned

(* Close() on the worker: a connected object is not the constructor's.     *)
LEMMA CloseStep ==
  ASSUME Running, OInv, WClose, UNCHANGED <<process, app, leaked>>
  PROVE  OInv'
<1>1. Types /\ Owned /\ StateInv /\ AppInv /\ WorkerInv
  BY DEF OInv
<1>2. at \in Conns /\ state[at] = "CONNECTED"
  BY <1>1 DEF WorkerInv, WClose, WAt
<1>3. Gone(at)
  BY DEF WClose, Freed, Gone
<1>4. /\ Owned' /\ StateInv'
      /\ open' \subseteq Fds /\ state' \in [Conns -> States]
      /\ desc' \in [Conns -> Fds \cup {NoFd}]
      /\ \A d \in Conns : d # at => desc'[d] = desc[d] /\ state'[d] = state[d]
      /\ state'[at] = "FREE"
  BY <1>1, <1>2, <1>3, GoneOwned
<1>5. kq' \in K!PollType
  BY <1>1, <1>2, HandleOf, WithdrawType DEF WClose
<1>6. at' = NULL /\ wpc' = "perform"
  BY DEF WClose, Return
<1>7. Types'
  BY <1>1, <1>4, <1>5, <1>6 DEF Types
<1>8. AppInv'
  BY <1>1, <1>2, <1>4 DEF AppInv, AAt
<1>9. WorkerInv'
  BY <1>6 DEF WorkerInv
<1> QED BY <1>4, <1>7, <1>8, <1>9 DEF OInv

-----------------------------------------------------------------------------
(* One lemma per action of the constructor.  The worker stays where it is, *)
(* and its connection is not the new object.                               *)
LEMMA WorkerStays ==
  ASSUME WorkerInv, UNCHANGED <<wpc, at>>,
         \A d \in Conns : state[d] = "CONNECTED" => state'[d] = "CONNECTED"
  PROVE  WorkerInv'
BY DEF WorkerInv

(* A failure behind socket() leaves the number to nobody.                  *)
LEMMA OpenStep ==
  ASSUME Running, OInv, AOpen
  PROVE  OInv'
<1>1. Types /\ Owned /\ StateInv /\ AppInv /\ WorkerInv /\ AAt("idle")
  BY DEF OInv, AOpen
<1>2. PICK c \in Conns, f \in Fds :
        /\ state[c] = "FREE" /\ LowestFree(f)
        /\ open' = open \cup {f}
        /\ \/ /\ state' = [state EXCEPT ![c] = "INACTIVE"]
              /\ desc' = [desc EXCEPT ![c] = f]
              /\ app' = [pc |-> "options", fd |-> f, c |-> c]
              /\ UNCHANGED leaked
           \/ /\ leaked' = leaked \cup {f}
              /\ UNCHANGED <<state, desc, app>>
  BY DEF AOpen
<1>3. f \notin open /\ desc[c] = NoFd /\ f # NoFd
  BY <1>1, <1>2, Fd DEF LowestFree, StateInv
<1>4. kq' = kq /\ wpc' = wpc /\ at' = at
  BY DEF AOpen, polls, worker
<1>5. CASE leaked' = leaked \cup {f} /\ UNCHANGED <<state, desc, app>>
  <2>1. Types'
    BY <1>1, <1>2, <1>4, <1>5 DEF Types
  <2>2. f \notin {desc[d] : d \in Conns}
    BY <1>1, <1>3 DEF Owned
  <2>3. Owned'
    BY <1>1, <1>2, <1>3, <1>5, <2>2 DEF Owned
  <2>4. StateInv' /\ AppInv' /\ WorkerInv'
    BY <1>1, <1>4, <1>5 DEF StateInv, AppInv, AAt, WorkerInv
  <2> QED BY <2>1, <2>3, <2>4 DEF OInv
<1>6. CASE /\ state' = [state EXCEPT ![c] = "INACTIVE"]
           /\ desc' = [desc EXCEPT ![c] = f]
           /\ app' = [pc |-> "options", fd |-> f, c |-> c]
           /\ UNCHANGED leaked
  <2>1. /\ desc'[c] = f /\ state'[c] = "INACTIVE"
        /\ \A d \in Conns : d # c => desc'[d] = desc[d] /\ state'[d] = state[d]
    BY <1>1, <1>6 DEF Types
  <2>2. Types'
    BY <1>1, <1>2, <1>4, <1>6 DEF Types, States, AppPCs
  <2>3. Owned'
    <3>1. open' = leaked' \cup ({desc'[d] : d \in Conns} \ {NoFd})
      BY <1>1, <1>2, <1>3, <1>6, <2>1 DEF Owned
    <3>2. \A d, b \in Conns : d # b /\ desc'[d] = desc'[b] => desc'[d] = NoFd
      BY <1>1, <1>3, <2>1 DEF Owned
    <3>3. \A d \in Conns : desc'[d] \notin leaked'
      BY <1>1, <1>3, <1>6, <2>1 DEF Owned
    <3> QED BY <3>1, <3>2, <3>3 DEF Owned
  <2>4. StateInv'
    BY <1>1, <1>3, <2>1 DEF StateInv
  <2>5. AppInv'
    BY <1>1, <1>2, <1>6, <2>1 DEF AppInv, AAt
  <2>6. WorkerInv'
    BY <1>1, <1>2, <1>4, <2>1, WorkerStays
  <2> QED BY <2>2, <2>3, <2>4, <2>5, <2>6 DEF OInv
<1> QED BY <1>2, <1>5, <1>6

(* After a failed option the local still has the number that Event::fd_    *)
(* has given back.                                                         *)
LEMMA OptionsStep ==
  ASSUME Running, OInv, AOptions
  PROVE  OInv'
<1>1. Types /\ Owned /\ StateInv /\ AppInv /\ WorkerInv /\ AAt("options")
  BY DEF OInv, AOptions
<1>2. /\ app.c \in Conns /\ app.fd \in Fds /\ state[app.c] = "INACTIVE" /\ desc[app.c] = app.fd
      /\ \A c \in Conns : state[c] = "INACTIVE" => c = app.c
  BY <1>1 DEF AppInv, AAt
<1>3. /\ app' = [app EXCEPT !.pc = "connect"]
      /\ leaked' = leaked /\ state' = state /\ wpc' = wpc /\ at' = at
  BY DEF AOptions, AGoto, worker
<1>4. app'.pc = "connect" /\ app'.fd = app.fd /\ app'.c = app.c
      /\ app' \in [pc : AppPCs, fd : Fds \cup {NoFd}, c : Conns \cup {NULL}]
  BY <1>1, <1>3 DEF Types, AppPCs
<1>5. WorkerInv'
  BY <1>1, <1>3, WorkerStays
<1>6. CASE UNCHANGED <<open, desc, polls>>
  <2>1. Types' /\ Owned' /\ StateInv' /\ AppInv'
    BY <1>1, <1>2, <1>3, <1>4, <1>6 DEF Types, Owned, StateInv, AppInv, AAt, polls
  <2> QED BY <1>5, <2>1 DEF OInv
<1>7. CASE Descriptor(NoFd) /\ Closes(app.fd)
  <2>1. /\ desc' = [desc EXCEPT ![app.c] = NoFd]
        /\ open' = open \ {app.fd} /\ kq' = K!Forget(kq, app.fd)
    BY <1>7 DEF Descriptor, Closes
  <2>2. /\ desc'[app.c] = NoFd
        /\ \A d \in Conns : d # app.c => desc'[d] = desc[d]
    BY <1>1, <1>2, <2>1 DEF Types
  <2>3. Types'
    BY <1>1, <1>3, <1>4, <2>1, ForgetType DEF Types
  <2>4. \A d \in Conns : d # app.c /\ desc'[d] # NoFd => desc'[d] # app.fd
    BY <1>1, <1>2, <2>2 DEF Owned
  <2>5. open' = leaked' \cup ({desc'[d] : d \in Conns} \ {NoFd})
    BY <1>1, <1>2, <1>3, <2>1, <2>2, <2>4, Fd DEF Owned
  <2>6. Owned'
    BY <1>1, <1>3, <2>2, <2>5, Fd DEF Owned, Types
  <2>7. StateInv'
    BY <1>1, <1>2, <1>3, <2>2 DEF StateInv
  <2>8. AppInv'
    BY <1>2, <1>3, <1>4, <2>2 DEF AppInv, AAt
  <2> QED BY <1>5, <2>3, <2>6, <2>7, <2>8 DEF OInv
<1> QED BY <1>6, <1>7 DEF AOptions

(* An exception before which the number was given back.                    *)
LEMMA UnwindsStep ==
  ASSUME Types, Owned, StateInv, AppInv, WorkerInv, ~ AAt("idle"), desc[app.c] = NoFd,
         Unwinds, UNCHANGED <<open, desc, leaked, wpc, at>>, kq' \in K!PollType
  PROVE  OInv'
<1>1. /\ app.c \in Conns /\ state[app.c] = "INACTIVE"
      /\ \A c \in Conns : state[c] = "INACTIVE" => c = app.c
  BY DEF AppInv
<1>2. app' = Idle /\ state' = [state EXCEPT ![app.c] = "FREE"]
  BY DEF Unwinds
<1>3. /\ state'[app.c] = "FREE"
      /\ \A d \in Conns : d # app.c => state'[d] = state[d]
  BY <1>1, <1>2 DEF Types
<1>4. Types'
  BY <1>2 DEF Types, Idle, States, AppPCs
<1>5. Owned' /\ StateInv'
  BY <1>3 DEF Owned, StateInv
<1>6. AppInv'
  BY <1>1, <1>2, <1>3 DEF AppInv, AAt, Idle
<1>7. WorkerInv'
  BY <1>1, <1>3, WorkerStays
<1> QED BY <1>4, <1>5, <1>6, <1>7 DEF OInv

(* Unwinding with a number in Event::fd_ ends the process.                 *)
LEMMA EndsProcess ==
  ASSUME Unwinds, desc'[app.c] # NoFd
  PROVE  ~ Running'
BY DEF Unwinds, Running

LEMMA UnresolvedStep ==
  ASSUME Running, OInv, AUnresolved
  PROVE  OInv'
<1>1. /\ Unwinds /\ AAt("connect") /\ UNCHANGED <<open, desc, leaked, kq>>
      /\ wpc' = wpc /\ at' = at
  BY DEF AUnresolved, polls, worker
<1>2. Types /\ Owned /\ StateInv /\ AppInv /\ WorkerInv /\ ~ AAt("idle")
  BY <1>1 DEF OInv, AAt
<1>3. CASE desc[app.c] = NoFd
  BY <1>1, <1>2, <1>3, UnwindsStep DEF Types
<1>4. CASE desc[app.c] # NoFd
  <2>1. desc'[app.c] # NoFd
    BY <1>1, <1>2, <1>4
  <2>2. app'.pc = "idle" /\ ~ Running'
    BY <1>1, <1>4, EndsProcess DEF Unwinds, Idle
  <2> QED BY <2>2 DEF OInv
<1> QED BY <1>3, <1>4

(* The constructor goes on, or its object goes with its number.            *)
LEMMA AppMoves ==
  ASSUME Types, Owned, StateInv, AppInv, WorkerInv, ~ AAt("idle"), desc[app.c] = app.fd,
         NEW p \in AppPCs \ {"idle"}, AGoto(p),
         UNCHANGED <<open, desc, state, leaked, wpc, at>>, kq' \in K!PollType
  PROVE  OInv'
<1>1. /\ app'.pc = p /\ app'.fd = app.fd /\ app'.c = app.c
      /\ app' \in [pc : AppPCs, fd : Fds \cup {NoFd}, c : Conns \cup {NULL}]
  BY DEF Types, AGoto
<1>2. Types' /\ Owned' /\ StateInv' /\ WorkerInv'
  BY <1>1 DEF Types, Owned, StateInv, WorkerInv
<1>3. AppInv'
  BY <1>1 DEF AppInv, AAt
<1> QED BY <1>2, <1>3 DEF OInv

LEMMA AppGone ==
  ASSUME Types, Owned, StateInv, AppInv, WorkerInv, ~ AAt("idle"), Gone(app.c), app' = Idle,
         UNCHANGED <<wpc, at>>, kq' \in K!PollType
  PROVE  OInv'
<1>1. /\ app.c \in Conns /\ state[app.c] = "INACTIVE"
      /\ \A c \in Conns : state[c] = "INACTIVE" => c = app.c
  BY DEF AppInv
<1>2. /\ Owned' /\ StateInv'
      /\ open' \subseteq Fds /\ state' \in [Conns -> States]
      /\ desc' \in [Conns -> Fds \cup {NoFd}]
      /\ \A d \in Conns : d # app.c => desc'[d] = desc[d] /\ state'[d] = state[d]
      /\ state'[app.c] = "FREE"
  BY <1>1, GoneOwned
<1>3. Types'
  BY <1>2 DEF Types, Gone, Idle, AppPCs
<1>4. AppInv'
  BY <1>1, <1>2 DEF AppInv, AAt, Idle
<1>5. WorkerInv'
  BY <1>1, <1>2, WorkerStays
<1> QED BY <1>2, <1>3, <1>4, <1>5 DEF OInv

LEMMA ConnectsStep ==
  ASSUME Running, OInv, AConnects
  PROVE  OInv'
<1>1. Types /\ Owned /\ StateInv /\ AppInv /\ WorkerInv /\ ~ AAt("idle")
  BY DEF OInv, AConnects, AAt
<1>2. desc[app.c] = app.fd
  BY <1>1 DEF AConnects, Owns, AppInv
<1>3. UNCHANGED <<open, desc, state, leaked, wpc, at>> /\ kq' \in K!PollType
  BY <1>1 DEF AConnects, rvars, objects, polls, worker, Types
<1>4. PICK p \in {"new", "select"} : AGoto(p)
  BY DEF AConnects
<1> QED BY <1>1, <1>2, <1>3, <1>4, AppMoves DEF AppPCs

(* The local is closed and Event::fd_ is not: when Event::fd_ has a number *)
(* unwinding ends the process, and when it has none the local's is either  *)
(* a stranger's or closed.                                                 *)
LEMMA RefusedStep ==
  ASSUME Running, OInv, ARefused
  PROVE  OInv'
<1>1. Types /\ Owned /\ StateInv /\ AppInv /\ WorkerInv /\ ~ AAt("idle")
  BY DEF OInv, ARefused, AAt
<1>2. /\ open' = open \ {app.fd} /\ kq' = K!Forget(kq, app.fd)
      /\ UNCHANGED <<desc, leaked, wpc, at>>
  BY DEF ARefused, Closes, worker
<1>3. kq' \in K!PollType
  BY <1>1, <1>2, ForgetType DEF Types
<1>4. CASE ~ Owns /\ app.fd \in open
  <2>1. ~ Running'
    BY <1>4 DEF ARefused, Running
  <2> QED BY <2>1 DEF OInv
<1>5. CASE Owns
  <2>1. Unwinds /\ desc'[app.c] # NoFd
    BY <1>2, <1>5 DEF ARefused, Owns
  <2>2. ~ Running'
    BY <2>1, EndsProcess
  <2> QED BY <2>2 DEF OInv
<1>6. CASE ~ Owns /\ app.fd \notin open
  <2>1. Unwinds /\ open' = open /\ desc[app.c] = NoFd
    BY <1>2, <1>6 DEF ARefused, Owns
  <2> QED BY <1>1, <1>2, <1>3, <2>1, UnwindsStep
<1> QED BY <1>4, <1>5, <1>6

LEMMA SelectStep ==
  ASSUME Running, OInv, ASelect
  PROVE  OInv'
<1>1. Types /\ Owned /\ StateInv /\ AppInv /\ WorkerInv /\ ~ AAt("idle")
  BY DEF OInv, ASelect, AAt
<1>2. desc[app.c] = app.fd
  BY <1>1 DEF ASelect, AppInv, AAt
<1>3. UNCHANGED <<leaked, wpc, at>>
  BY DEF ASelect, worker
<1>4. CASE TimedOut /\ Unwinds
  <2>1. /\ desc' = [desc EXCEPT ![app.c] = NoFd] /\ open' = open \ {app.fd}
        /\ kq' = K!Forget(kq, app.fd)
        /\ app' = Idle /\ state' = [state EXCEPT ![app.c] = "FREE"]
    BY <1>4 DEF TimedOut, Closes, Descriptor, Unwinds
  <2>2. Gone(app.c)
    BY <1>2, <1>3, <2>1 DEF Gone
  <2>3. kq' \in K!PollType
    BY <1>1, <2>1, ForgetType DEF Types
  <2> QED BY <1>1, <1>3, <2>1, <2>2, <2>3, AppGone
<1>5. CASE AGoto("new") /\ UNCHANGED <<process, open, state, desc, polls>>
  <2>1. kq' \in K!PollType /\ "new" \in AppPCs \ {"idle"}
    BY <1>1, <1>5 DEF Types, polls, AppPCs
  <2> QED BY <1>1, <1>2, <1>3, <1>5, <2>1, AppMoves
<1> QED BY <1>4, <1>5 DEF ASelect

LEMMA NewConnectionStep ==
  ASSUME Running, OInv, ANewConnection
  PROVE  OInv'
<1>1. Types /\ Owned /\ StateInv /\ AppInv /\ WorkerInv /\ ~ AAt("idle")
  BY DEF OInv, ANewConnection, AAt
<1>2. app.c \in Conns /\ app.fd \in Fds /\ desc[app.c] = app.fd
  BY <1>1 DEF ANewConnection, AppInv, AAt
<1>3. UNCHANGED <<leaked, wpc, at>>
  BY DEF ANewConnection, worker
<1>4. CASE ~ Full /\ Enrol(app.c, desc[app.c]) /\ AGoto("connected") /\ UNCHANGED <<open, objects>>
  <2>1. kq' \in K!PollType
    BY <1>1, <1>2, <1>4, EnrolType
  <2>2. UNCHANGED <<open, desc, state>> /\ "connected" \in AppPCs \ {"idle"}
    BY <1>4 DEF objects, AppPCs
  <2> QED BY <1>1, <1>2, <1>3, <1>4, <2>1, <2>2, AppMoves
<1>5. CASE /\ Full /\ Withdraw(EventOf(app.c)) /\ open' = open \ {desc[app.c]}
           /\ Freed(app.c) /\ app' = Idle
  <2>1. kq' \in K!PollType
    BY <1>1, <1>2, <1>5, HandleOf, WithdrawType
  <2>2. Gone(app.c)
    BY <1>3, <1>5 DEF Gone, Freed
  <2> QED BY <1>1, <1>3, <1>5, <2>1, <2>2, AppGone
<1> QED BY <1>4, <1>5 DEF ANewConnection

LEMMA ConnectedStep ==
  ASSUME Running, OInv, AConnected
  PROVE  OInv'
<1>1. Types /\ Owned /\ StateInv /\ AppInv /\ WorkerInv /\ ~ AAt("idle")
  BY DEF OInv, AConnected, AAt
<1>2. /\ app.c \in Conns /\ desc[app.c] = app.fd /\ app.fd \in Fds
      /\ \A c \in Conns : state[c] = "INACTIVE" => c = app.c
  BY <1>1 DEF AConnected, AppInv, AAt
<1>3. /\ state' = [state EXCEPT ![app.c] = "CONNECTED"] /\ app' = Idle
      /\ UNCHANGED <<open, desc, leaked, kq, wpc, at>>
  BY DEF AConnected, polls, worker
<1>4. /\ state'[app.c] = "CONNECTED"
      /\ \A d \in Conns : d # app.c => state'[d] = state[d]
  BY <1>1, <1>2, <1>3 DEF Types
<1>5. Types'
  BY <1>1, <1>3 DEF Types, Idle, States, AppPCs
<1>6. Owned' /\ StateInv'
  BY <1>1, <1>2, <1>3, <1>4, Fd DEF Owned, StateInv
<1>7. AppInv'
  BY <1>2, <1>3, <1>4 DEF AppInv, AAt, Idle
<1>8. WorkerInv'
  BY <1>1, <1>3, <1>4, WorkerStays
<1> QED BY <1>5, <1>6, <1>7, <1>8 DEF OInv

-----------------------------------------------------------------------------
(* The theorems.                                                           *)
LEMMA OInitially == OInit => OInv
<1> SUFFICES ASSUME OInit PROVE OInv
  OBVIOUS
<1>1. /\ open = {} /\ leaked = {} /\ state = [c \in Conns |-> "FREE"]
      /\ desc = [c \in Conns |-> NoFd] /\ kq = K!NewPoll /\ wpc = "poll" /\ at = NULL /\ app = Idle
  BY DEF OInit, Init
<1>2. kq \in K!PollType
  BY <1>1 DEF K!NewPoll, K!PollType, K!NoFilters
<1>3. Types
  BY <1>1, <1>2 DEF Types, States, Idle, AppPCs
<1>4. Owned /\ StateInv /\ AppInv /\ WorkerInv
  BY <1>1 DEF Owned, StateInv, AppInv, WorkerInv, AAt, Idle
<1> QED BY <1>3, <1>4 DEF OInv

LEMMA OStep == OInv /\ [Next]_vars => OInv'
<1> SUFFICES ASSUME OInv, [Next]_vars PROVE OInv'
  OBVIOUS
<1>1. CASE Running /\ Server /\ UNCHANGED max_connects_
  BY <1>1, AcceptStep, PollStep, EntryStep, ReadStep, WriteStep, CloseStep, DrainStep
  DEF Server, Worker
<1>2. CASE Running /\ App /\ UNCHANGED max_connects_
  BY <1>2, OpenStep, OptionsStep, UnresolvedStep, ConnectsStep, RefusedStep, SelectStep,
     NewConnectionStep, ConnectedStep DEF App
<1>3. CASE UNCHANGED vars
  <2>1. UNCHANGED <<open, leaked, state, desc, kq, app, at, wpc, process>>
    BY <1>3 DEF vars, rvars, objects, polls, worker
  <2> QED BY <2>1 DEF OInv, Running, Types, Owned, StateInv, AppInv, WorkerInv, AAt
<1> QED BY <1>1, <1>2, <1>3 DEF Next, Lost

(* The invariant of the three threads that open and close descriptors.     *)
THEOREM OwnershipInvariance == Spec => []OInv
<1>1. OInit => OInv
  BY OInitially
<1>2. OInv /\ [Next]_vars => OInv'
  BY OStep
<1> QED BY <1>1, <1>2, PTL DEF Spec

(* DescriptorsOwned for every number of connections and descriptors.       *)
THEOREM OneOwner == Spec => []DescriptorsOwned
<1>1. OInv => DescriptorsOwned
  BY DEF OInv, DescriptorsOwned, Owned
<1> QED BY <1>1, OwnershipInvariance, PTL

-----------------------------------------------------------------------------
(* The two back ends.  Next to the slots of BackendsAgree: epoll's entry   *)
(* of a descriptor is for the connection that was admitted under it, and   *)
(* every other slot is clean.                                              *)
SlotAgrees(p, q, f) ==
  /\ p.table[f] = q.table[f] \ {"ERR"} /\ q.table[f] = q.ctl[f].ev
  /\ ("ERR" \in q.table[f]) <=> (q.ctl[f].ptr # NULL)
  /\ q.ctl[f].ptr = NULL => q.ctl[f].ev = {}
  /\ \A b \in K!Filters : p.filters[f][b] = IF b \in q.ctl[f].ev THEN q.ctl[f].ptr ELSE NULL

Sound(p, q) ==
  /\ p \in K!PollType /\ q \in E!PollType
  /\ ~ p.fault /\ ~ q.fault
  /\ \A f \in Fds : SlotAgrees(p, q, f)

(* Of the other descriptors the two objects say what they said before.     *)
KSame(p, r, f) == \A g \in Fds \ {f} : r.table[g] = p.table[g] /\ r.filters[g] = p.filters[g]
ESame(q, r, f) == \A g \in Fds \ {f} : r.table[g] = q.table[g] /\ r.ctl[g] = q.ctl[g]

Entitled(c) == c \in Conns /\ state[c] # "FREE" /\ desc[c] \in Fds

AgreeInv ==
  /\ Sound(kq, ep)
  /\ \A c \in Admitted : Entitled(c) /\ ep.ctl[desc[c]].ptr = c
  /\ \A f \in Fds : ep.ctl[f].ptr # NULL => ep.ctl[f].ptr \in Admitted /\ desc[ep.ctl[f].ptr] = f
  /\ \A n \in kq.events : n.ptr \in Admitted /\ desc[n.ptr] = n.fd

AInv == process # "stranger_closed" => AgreeInv

(* What one call does to one descriptor, on either side.                   *)
LEMMA KInserts ==
  ASSUME NEW p \in K!PollType, ~ p.fault, NEW c \in Conns, NEW f \in Fds, NEW b \in K!Filters
  PROVE  LET r == K!Insert(p, [ptr |-> c, fd |-> f], b)
         IN  /\ r \in K!PollType /\ ~ r.fault /\ r.events = p.events /\ KSame(p, r, f)
             /\ r.table[f] = p.table[f] \cup {b}
             /\ \A a \in K!Filters :
                  r.filters[f][a] = IF a = b /\ b \notin p.table[f] THEN c ELSE p.filters[f][a]
<1> DEFINE e == [ptr |-> c, fd |-> f]
           r == K!Insert(p, e, b)
           m == p.table[f] \cup {b}
<1>1. K!InTable(f) /\ K!EventMask_(p, e) = p.table[f]
  BY ReplyAssumption DEF K!InTable, K!EventMask_
<1>2. CASE b \in p.table[f]
  <2>1. r = p
    BY <1>1, <1>2 DEF K!Insert
  <2> QED BY <1>2, <2>1 DEF KSame
<1>3. CASE b \notin p.table[f]
  <2> DEFINE s == [p EXCEPT !.table[f] = m]
  <2>1. K!SetEventMask_(p, e, m) = s
    BY <1>1 DEF K!SetEventMask_
  <2>2. /\ s \in K!PollType /\ s.fault = p.fault /\ s.events = p.events
        /\ s.filters = p.filters /\ s.table = [p.table EXCEPT ![f] = m]
    <3>1. m \in SUBSET K!Filters
      BY DEF K!PollType
    <3> QED BY <3>1 DEF K!PollType
  <2>3. r = [s EXCEPT !.filters[f][b] = c]
    BY <1>1, <1>3, <2>1, <2>2 DEF K!Insert, K!Modify_, K!kevent_fails, K!kevent
  <2> HIDE DEF s, r
  <2>4. /\ r \in K!PollType /\ r.fault = s.fault /\ r.events = s.events
        /\ r.table = s.table /\ r.filters = [s.filters EXCEPT ![f][b] = c]
    BY <2>2, <2>3 DEF K!PollType
  <2>5. r \in K!PollType /\ ~ r.fault /\ r.events = p.events /\ r.table[f] = m
    BY <2>2, <2>4 DEF K!PollType
  <2>6. KSame(p, r, f)
    BY <2>2, <2>4 DEF K!PollType, KSame
  <2>7. \A a \in K!Filters : r.filters[f][a] = IF a = b THEN c ELSE p.filters[f][a]
    BY <2>2, <2>4 DEF K!PollType
  <2> QED BY <1>3, <2>5, <2>6, <2>7 DEF r
<1> QED BY <1>2, <1>3

LEMMA KRemoves ==
  ASSUME NEW p \in K!PollType, ~ p.fault, NEW c \in Conns, NEW f \in Fds, NEW b \in K!Filters,
         b \in p.table[f] => p.filters[f][b] # NULL
  PROVE  LET r == K!Remove(p, [ptr |-> c, fd |-> f], b)
         IN  /\ r \in K!PollType /\ ~ r.fault /\ r.events = p.events /\ KSame(p, r, f)
             /\ r.table[f] = p.table[f] \ {b}
             /\ \A a \in K!Filters :
                  r.filters[f][a] = IF a = b /\ b \in p.table[f] THEN NULL ELSE p.filters[f][a]
<1> DEFINE e == [ptr |-> c, fd |-> f]
           r == K!Remove(p, e, b)
           m == p.table[f] \ {b}
<1>1. K!InTable(f) /\ K!EventMask_(p, e) = p.table[f]
  BY ReplyAssumption DEF K!InTable, K!EventMask_
<1>2. CASE b \notin p.table[f]
  <2>1. r = p
    BY <1>1, <1>2 DEF K!Remove
  <2> QED BY <1>2, <2>1 DEF KSame
<1>3. CASE b \in p.table[f]
  <2> DEFINE s == [p EXCEPT !.table[f] = m]
  <2>1. K!SetEventMask_(p, e, m) = s
    BY <1>1 DEF K!SetEventMask_
  <2>2. /\ s \in K!PollType /\ s.fault = p.fault /\ s.events = p.events
        /\ s.filters = p.filters /\ s.table = [p.table EXCEPT ![f] = m]
    <3>1. m \in SUBSET K!Filters
      BY DEF K!PollType
    <3> QED BY <3>1 DEF K!PollType
  <2>3. r = [s EXCEPT !.filters[f][b] = NULL]
    BY <1>1, <1>3, <2>1, <2>2 DEF K!Remove, K!Modify_, K!kevent_fails, K!kevent
  <2> HIDE DEF s, r
  <2>4. /\ r \in K!PollType /\ r.fault = s.fault /\ r.events = s.events
        /\ r.table = s.table /\ r.filters = [s.filters EXCEPT ![f][b] = NULL]
    BY <2>2, <2>3 DEF K!PollType
  <2>5. r \in K!PollType /\ ~ r.fault /\ r.events = p.events /\ r.table[f] = m
    BY <2>2, <2>4 DEF K!PollType
  <2>6. KSame(p, r, f)
    BY <2>2, <2>4 DEF K!PollType, KSame
  <2>7. \A a \in K!Filters : r.filters[f][a] = IF a = b THEN NULL ELSE p.filters[f][a]
    BY <2>2, <2>4 DEF K!PollType
  <2> QED BY <1>3, <2>5, <2>6, <2>7 DEF r
<1> QED BY <1>2, <1>3

(* epoll: ADD on an empty slot, MOD on another, DEL of the last bit.       *)
LEMMA EInserts ==
  ASSUME NEW q \in E!PollType, ~ q.fault, NEW c \in Conns, NEW f \in Fds, NEW b \in E!Ev,
         q.table[f] = q.ctl[f].ev, (q.table[f] = {}) <=> (q.ctl[f].ptr = NULL),
         q.ctl[f].ptr \in {c, NULL}
  PROVE  LET r == E!Insert(q, [ptr |-> c, fd |-> f], b)
         IN  /\ r \in E!PollType /\ ~ r.fault /\ ESame(q, r, f)
             /\ r.table[f] = q.table[f] \cup {b}
             /\ r.ctl[f] = [ptr |-> c, ev |-> q.table[f] \cup {b}]
<1> DEFINE e == [ptr |-> c, fd |-> f]
           r == E!Insert(q, e, b)
           m == q.table[f] \cup {b}
<1>1. E!InTable(f) /\ E!EventMask_(q, e) = q.table[f]
  BY ReplyAssumption DEF E!InTable, E!EventMask_
<1>2. CASE b \in q.table[f]
  <2>1. r = q
    BY <1>1, <1>2 DEF E!Insert, E!Modify_
  <2>2. q.ctl[f] \in E!Interest /\ q.ctl[f].ptr = c
    BY <1>2 DEF E!PollType
  <2>3. q.ctl[f] = [ptr |-> c, ev |-> q.table[f] \cup {b}]
    BY <1>2, <2>2 DEF E!Interest
  <2> QED BY <1>2, <2>1, <2>3 DEF ESame
<1>3. CASE b \notin q.table[f]
  <2> DEFINE s == [q EXCEPT !.table[f] = m]
  <2>1. E!SetEventMask_(q, e, m) = s
    BY <1>1 DEF E!SetEventMask_
  <2>2. /\ s \in E!PollType /\ s.fault = q.fault
        /\ s.ctl = q.ctl /\ s.table = [q.table EXCEPT ![f] = m]
    <3>1. m \in SUBSET E!Ev
      BY DEF E!PollType
    <3> QED BY <3>1 DEF E!PollType
  <2>3. r = [s EXCEPT !.ctl[f] = [ptr |-> c, ev |-> m]]
    <3> DEFINE op == IF q.table[f] # {} THEN "MOD" ELSE "ADD"
    <3>1. r = E!Modify_(q, e, op, m)
      BY <1>1 DEF E!Insert
    <3>2. E!EventMask_(q, e) # m
      BY <1>1, <1>3
    <3>3. (op = "ADD") <=> (q.ctl[f].ptr = NULL)
      OBVIOUS
    <3>4. op # "DEL"
      OBVIOUS
    <3> HIDE DEF op, m, s
    <3>5. ~ E!epoll_ctl_fails(q, op, f)
      BY <3>3 DEF E!epoll_ctl_fails
    <3>6. E!Modify_(q, e, op, m) = E!epoll_ctl(s, op, e, m)
      BY <2>1, <3>2, <3>5 DEF E!Modify_
    <3> QED BY <3>1, <3>4, <3>6 DEF E!epoll_ctl
  <2>4. [ptr |-> c, ev |-> m] \in E!Interest
    BY DEF E!PollType, E!Interest
  <2> HIDE DEF s, r
  <2>5. /\ r \in E!PollType /\ r.fault = s.fault
        /\ r.table = s.table /\ r.ctl = [s.ctl EXCEPT ![f] = [ptr |-> c, ev |-> m]]
    BY <2>2, <2>3, <2>4 DEF E!PollType
  <2>6. /\ r \in E!PollType /\ ~ r.fault /\ ESame(q, r, f) /\ r.table[f] = m
        /\ r.ctl[f] = [ptr |-> c, ev |-> m]
    BY <2>2, <2>5 DEF E!PollType, ESame
  <2> QED BY <2>6 DEF r
<1> QED BY <1>2, <1>3

LEMMA ERemoves ==
  ASSUME NEW q \in E!PollType, ~ q.fault, NEW c \in Conns, NEW f \in Fds, NEW b \in E!Ev,
         q.table[f] = q.ctl[f].ev, (q.table[f] = {}) <=> (q.ctl[f].ptr = NULL),
         q.ctl[f].ptr \in {c, NULL}
  PROVE  LET r == E!Remove(q, [ptr |-> c, fd |-> f], b)
         IN  /\ r \in E!PollType /\ ~ r.fault /\ ESame(q, r, f)
             /\ r.table[f] = q.table[f] \ {b} /\ r.ctl[f].ev = q.table[f] \ {b}
             /\ r.ctl[f].ptr = IF q.table[f] \ {b} = {} THEN NULL ELSE c
<1> DEFINE e == [ptr |-> c, fd |-> f]
           r == E!Remove(q, e, b)
           m == q.table[f] \ {b}
           i == IF m = {} THEN E!Unregistered ELSE [ptr |-> c, ev |-> m]
<1>1. E!InTable(f) /\ E!EventMask_(q, e) = q.table[f]
  BY ReplyAssumption DEF E!InTable, E!EventMask_
<1>2. CASE b \notin q.table[f]
  <2>1. m = q.table[f]
    BY <1>2
  <2>2. r = q
    BY <1>1, <2>1 DEF E!Remove, E!Modify_
  <2> QED BY <2>1, <2>2 DEF ESame
<1>3. CASE b \in q.table[f]
  <2> DEFINE s == [q EXCEPT !.table[f] = m]
  <2>1. E!SetEventMask_(q, e, m) = s
    BY <1>1 DEF E!SetEventMask_
  <2>2. /\ s \in E!PollType /\ s.fault = q.fault
        /\ s.ctl = q.ctl /\ s.table = [q.table EXCEPT ![f] = m]
    <3>1. m \in SUBSET E!Ev
      BY DEF E!PollType
    <3> QED BY <3>1 DEF E!PollType
  <2>3. r = [s EXCEPT !.ctl[f] = i]
    BY <1>1, <1>3, <2>1, <2>2 DEF E!Remove, E!Modify_, E!epoll_ctl_fails, E!epoll_ctl
  <2>4. i \in E!Interest
    BY DEF E!PollType, E!Interest, E!Unregistered
  <2> HIDE DEF s, r
  <2>5. /\ r \in E!PollType /\ r.fault = s.fault
        /\ r.table = s.table /\ r.ctl = [s.ctl EXCEPT ![f] = i]
    BY <2>2, <2>3, <2>4 DEF E!PollType
  <2>6. /\ r \in E!PollType /\ ~ r.fault /\ ESame(q, r, f) /\ r.table[f] = m
        /\ r.ctl[f] = i
    BY <2>2, <2>5 DEF E!PollType, ESame
  <2>7. i.ev = m /\ i.ptr = IF m = {} THEN NULL ELSE c
    BY DEF E!Unregistered
  <2> QED BY <2>6, <2>7 DEF r
<1> QED BY <1>2, <1>3

(* What the slots of two sound objects imply for the calls above.          *)
LEMMA SoundSlot ==
  ASSUME NEW p, NEW q, Sound(p, q), NEW f \in Fds
  PROVE  /\ p \in K!PollType /\ q \in E!PollType /\ ~ p.fault /\ ~ q.fault
         /\ q.table[f] = q.ctl[f].ev
         /\ (q.table[f] = {}) <=> (q.ctl[f].ptr = NULL)
         /\ p.table[f] = q.table[f] \ {"ERR"} /\ q.table[f] \subseteq E!Ev
         /\ q.ctl[f].ptr \in Conns \cup {NULL}
         /\ ("ERR" \in q.table[f]) <=> (q.ctl[f].ptr # NULL)
         /\ \A b \in K!Filters :
              /\ p.filters[f][b] = IF b \in q.table[f] THEN q.ctl[f].ptr ELSE NULL
              /\ b \in p.table[f] => p.filters[f][b] # NULL
<1>1. SlotAgrees(p, q, f) /\ p \in K!PollType /\ q \in E!PollType /\ ~ p.fault /\ ~ q.fault
  BY DEF Sound
<1>2. q.table[f] \subseteq E!Ev /\ q.ctl[f].ptr \in Conns \cup {NULL}
  BY <1>1 DEF E!PollType, E!Interest
<1>3. q.table[f] = q.ctl[f].ev /\ ((q.table[f] = {}) <=> (q.ctl[f].ptr = NULL))
  BY <1>1 DEF SlotAgrees
<1>4. p.table[f] = q.table[f] \ {"ERR"} /\ (("ERR" \in q.table[f]) <=> (q.ctl[f].ptr # NULL))
  BY <1>1 DEF SlotAgrees
<1>5. \A b \in K!Filters :
        /\ p.filters[f][b] = IF b \in q.table[f] THEN q.ctl[f].ptr ELSE NULL
        /\ b \in p.table[f] => p.filters[f][b] # NULL
  <2>1. \A b \in K!Filters : p.filters[f][b] = IF b \in q.table[f] THEN q.ctl[f].ptr ELSE NULL
    BY <1>1 DEF SlotAgrees
  <2> QED BY <1>3, <1>4, <2>1
<1> QED BY <1>1, <1>2, <1>3, <1>4, <1>5

LEMMA SoundAgain ==
  ASSUME NEW p, NEW q, Sound(p, q), NEW f \in Fds,
         NEW p2 \in K!PollType, NEW q2 \in E!PollType, ~ p2.fault, ~ q2.fault,
         KSame(p, p2, f), ESame(q, q2, f), SlotAgrees(p2, q2, f)
  PROVE  Sound(p2, q2) /\ \A g \in Fds \ {f} : q2.ctl[g].ptr = q.ctl[g].ptr
<1>1. \A g \in Fds : SlotAgrees(p2, q2, g)
  BY DEF Sound, KSame, ESame, SlotAgrees
<1> QED BY <1>1 DEF Sound, ESame

(* The filter of an admitted connection, armed and disarmed.               *)
LEMMA ArmSound ==
  ASSUME NEW p, NEW q, Sound(p, q), NEW c \in Conns, NEW f \in Fds, q.ctl[f].ptr = c
  PROVE  LET e  == [ptr |-> c, fd |-> f]
             p2 == K!InsertWrite(p, e)
             q2 == E!InsertWrite(q, e)
         IN  Sound(p2, q2) /\ p2.events = p.events /\ \A g \in Fds : q2.ctl[g].ptr = q.ctl[g].ptr
<1> DEFINE e  == [ptr |-> c, fd |-> f]
           p2 == K!Insert(p, e, "OUT")
           q2 == E!Insert(q, e, "OUT")
<1>1. p2 = K!InsertWrite(p, e) /\ q2 = E!InsertWrite(q, e)
  BY DEF K!InsertWrite, E!InsertWrite
<1>2. "OUT" \in K!Filters /\ "OUT" \in E!Ev /\ c # NULL
  BY ReplyAssumption DEF K!Filters, E!Ev
<1>3. /\ p2 \in K!PollType /\ ~ p2.fault /\ p2.events = p.events /\ KSame(p, p2, f)
      /\ p2.table[f] = p.table[f] \cup {"OUT"}
      /\ \A a \in K!Filters :
           p2.filters[f][a] = IF a = "OUT" /\ "OUT" \notin p.table[f] THEN c ELSE p.filters[f][a]
  BY <1>2, SoundSlot, KInserts
<1>4. /\ q2 \in E!PollType /\ ~ q2.fault /\ ESame(q, q2, f)
      /\ q2.table[f] = q.table[f] \cup {"OUT"}
      /\ q2.ctl[f] = [ptr |-> c, ev |-> q.table[f] \cup {"OUT"}]
  <2>1. /\ q \in E!PollType /\ ~ q.fault /\ q.table[f] = q.ctl[f].ev
        /\ (q.table[f] = {}) <=> (q.ctl[f].ptr = NULL)
    BY SoundSlot
  <2>2. q.ctl[f].ptr \in {c, NULL}
    OBVIOUS
  <2> QED BY <1>2, <2>1, <2>2, EInserts
<1> HIDE DEF p2, q2, e
<1>5. q2.ctl[f].ptr = c /\ q2.ctl[f].ev = q.table[f] \cup {"OUT"}
  BY <1>4
<1>6. SlotAgrees(p2, q2, f)
  BY <1>2, <1>3, <1>4, <1>5, SoundSlot DEF SlotAgrees
<1>7. Sound(p2, q2) /\ \A g \in Fds \ {f} : q2.ctl[g].ptr = q.ctl[g].ptr
  BY <1>3, <1>4, <1>6, SoundAgain
<1>8. \A g \in Fds : q2.ctl[g].ptr = q.ctl[g].ptr
  BY <1>5, <1>7
<1> QED BY <1>1, <1>3, <1>7, <1>8 DEF e

LEMMA DisarmSound ==
  ASSUME NEW p, NEW q, Sound(p, q), NEW c \in Conns, NEW f \in Fds, q.ctl[f].ptr = c
  PROVE  LET e  == [ptr |-> c, fd |-> f]
             p2 == K!RemoveWrite(p, e)
             q2 == E!RemoveWrite(q, e)
         IN  Sound(p2, q2) /\ p2.events = p.events /\ \A g \in Fds : q2.ctl[g].ptr = q.ctl[g].ptr
<1> DEFINE e  == [ptr |-> c, fd |-> f]
           p2 == K!Remove(p, e, "OUT")
           q2 == E!Remove(q, e, "OUT")
<1>1. p2 = K!RemoveWrite(p, e) /\ q2 = E!RemoveWrite(q, e)
  BY DEF K!RemoveWrite, E!RemoveWrite
<1>2. "OUT" \in K!Filters /\ "OUT" \in E!Ev /\ c # NULL
  BY ReplyAssumption DEF K!Filters, E!Ev
<1>3. /\ p2 \in K!PollType /\ ~ p2.fault /\ p2.events = p.events /\ KSame(p, p2, f)
      /\ p2.table[f] = p.table[f] \ {"OUT"}
      /\ \A a \in K!Filters :
           p2.filters[f][a] = IF a = "OUT" /\ "OUT" \in p.table[f] THEN NULL ELSE p.filters[f][a]
  BY <1>2, SoundSlot, KRemoves
<1>4. /\ q2 \in E!PollType /\ ~ q2.fault /\ ESame(q, q2, f)
      /\ q2.table[f] = q.table[f] \ {"OUT"} /\ q2.ctl[f].ev = q.table[f] \ {"OUT"}
      /\ q2.ctl[f].ptr = IF q.table[f] \ {"OUT"} = {} THEN NULL ELSE c
  <2>1. /\ q \in E!PollType /\ ~ q.fault /\ q.table[f] = q.ctl[f].ev
        /\ (q.table[f] = {}) <=> (q.ctl[f].ptr = NULL)
    BY SoundSlot
  <2>2. q.ctl[f].ptr \in {c, NULL}
    OBVIOUS
  <2> QED BY <1>2, <2>1, <2>2, ERemoves
<1> HIDE DEF p2, q2, e
<1>5. "ERR" \in q.table[f]
  BY <1>2, SoundSlot
<1>6. q2.ctl[f].ptr = c
  BY <1>4, <1>5
<1>7. SlotAgrees(p2, q2, f)
  BY <1>2, <1>3, <1>4, <1>5, <1>6, SoundSlot DEF SlotAgrees
<1>8. Sound(p2, q2) /\ \A g \in Fds \ {f} : q2.ctl[g].ptr = q.ctl[g].ptr
  BY <1>3, <1>4, <1>7, SoundAgain
<1>9. \A g \in Fds : q2.ctl[g].ptr = q.ctl[g].ptr
  BY <1>6, <1>8
<1> QED BY <1>1, <1>3, <1>8, <1>9 DEF e

(* Initialize on a clean slot, and what Close() and ::close() leave.       *)
Moved(q, q2, f, c) ==
  q2.ctl[f].ptr = c /\ \A g \in Fds \ {f} : q2.ctl[g].ptr = q.ctl[g].ptr

LEMMA EnrolSound ==
  ASSUME Sound(kq, ep), NEW c \in Conns, NEW f \in Fds, ep.ctl[f].ptr = NULL, Enrol(c, f)
  PROVE  Sound(kq, ep)' /\ kq'.events = kq.events /\ Moved(ep, ep', f, c)
<1> DEFINE e  == [ptr |-> c, fd |-> f]
           p1 == K!Insert(kq, e, "IN")
           p2 == K!Insert(p1, e, "OUT")
           q1 == E!Insert(ep, e, "IN")
           q2 == E!Insert(q1, e, "OUT")
           q3 == E!Insert(q2, e, "ERR")
<1>1. /\ kq \in K!PollType /\ ep \in E!PollType /\ ~ kq.fault /\ ~ ep.fault
      /\ ep.table[f] = {} /\ ep.ctl[f].ev = {} /\ kq.table[f] = {}
      /\ \A b \in K!Filters : kq.filters[f][b] = NULL
  <2>1. ep.table[f] = {}
    BY SoundSlot
  <2> QED BY <2>1, SoundSlot
<1>2. K!PollOpen(kq, e) = kq /\ E!PollOpen(ep, e) = ep
  BY <1>1 DEF K!PollOpen, E!PollOpen, K!EventMask_, E!EventMask_
<1>3. kq' = p2 /\ ep' = q3
  BY <1>2 DEF Enrol, K!InsertRead, K!InsertWrite, K!InsertError,
     E!InsertRead, E!InsertWrite, E!InsertError
<1>4. /\ K!Filters = {"IN", "OUT"} /\ E!Ev = {"IN", "OUT", "ERR"} /\ c # NULL
  BY ReplyAssumption DEF K!Filters, E!Ev
<1>5. /\ p1 \in K!PollType /\ ~ p1.fault /\ p1.events = kq.events /\ KSame(kq, p1, f)
      /\ p1.table[f] = {"IN"}
      /\ \A a \in K!Filters : p1.filters[f][a] = IF a = "IN" THEN c ELSE NULL
  BY <1>1, <1>4, KInserts
<1>6. /\ q1 \in E!PollType /\ ~ q1.fault /\ ESame(ep, q1, f)
      /\ q1.table[f] = {"IN"} /\ q1.ctl[f] = [ptr |-> c, ev |-> {"IN"}]
  <2>1. /\ q1 \in E!PollType /\ ~ q1.fault /\ ESame(ep, q1, f)
        /\ q1.table[f] = ep.table[f] \cup {"IN"}
        /\ q1.ctl[f] = [ptr |-> c, ev |-> ep.table[f] \cup {"IN"}]
    <3>1. /\ ep.table[f] = ep.ctl[f].ev /\ ep.ctl[f].ptr \in {c, NULL}
          /\ (ep.table[f] = {}) <=> (ep.ctl[f].ptr = NULL)
      BY <1>1, <1>4
    <3>2. ep \in E!PollType /\ ~ ep.fault /\ "IN" \in E!Ev
      BY <1>1, <1>4
    <3> QED BY <3>1, <3>2, EInserts
  <2>2. ep.table[f] \cup {"IN"} = {"IN"}
    BY <1>1
  <2> QED BY <2>1, <2>2
<1> HIDE DEF p1, q1
<1>7. /\ p2 \in K!PollType /\ ~ p2.fault /\ p2.events = p1.events /\ KSame(p1, p2, f)
      /\ p2.table[f] = {"IN", "OUT"}
      /\ \A a \in K!Filters : p2.filters[f][a] = c
  <2>1. /\ p2 \in K!PollType /\ ~ p2.fault /\ p2.events = p1.events /\ KSame(p1, p2, f)
        /\ p2.table[f] = p1.table[f] \cup {"OUT"}
        /\ \A a \in K!Filters :
             p2.filters[f][a] = IF a = "OUT" /\ "OUT" \notin p1.table[f] THEN c ELSE p1.filters[f][a]
    BY <1>4, <1>5, KInserts
  <2> HIDE DEF p2
  <2> QED BY <1>4, <1>5, <2>1
<1>8. /\ q2 \in E!PollType /\ ~ q2.fault /\ ESame(q1, q2, f)
      /\ q2.table[f] = {"IN", "OUT"} /\ q2.ctl[f] = [ptr |-> c, ev |-> {"IN", "OUT"}]
  <2>1. /\ q2 \in E!PollType /\ ~ q2.fault /\ ESame(q1, q2, f)
        /\ q2.table[f] = q1.table[f] \cup {"OUT"}
        /\ q2.ctl[f] = [ptr |-> c, ev |-> q1.table[f] \cup {"OUT"}]
    <3>1. /\ q1.table[f] = q1.ctl[f].ev /\ q1.ctl[f].ptr \in {c, NULL}
          /\ (q1.table[f] = {}) <=> (q1.ctl[f].ptr = NULL)
      BY <1>4, <1>6
    <3>2. q1 \in E!PollType /\ ~ q1.fault /\ "OUT" \in E!Ev
      BY <1>4, <1>6
    <3> QED BY <3>1, <3>2, EInserts
  <2>2. q1.table[f] \cup {"OUT"} = {"IN", "OUT"}
    BY <1>6
  <2> QED BY <2>1, <2>2
<1> HIDE DEF p2, q2
<1>9. /\ q3 \in E!PollType /\ ~ q3.fault /\ ESame(q2, q3, f)
      /\ q3.table[f] = {"IN", "OUT", "ERR"} /\ q3.ctl[f] = [ptr |-> c, ev |-> {"IN", "OUT", "ERR"}]
  <2>1. /\ q3 \in E!PollType /\ ~ q3.fault /\ ESame(q2, q3, f)
        /\ q3.table[f] = q2.table[f] \cup {"ERR"}
        /\ q3.ctl[f] = [ptr |-> c, ev |-> q2.table[f] \cup {"ERR"}]
    <3>1. /\ q2.table[f] = q2.ctl[f].ev /\ q2.ctl[f].ptr \in {c, NULL}
          /\ (q2.table[f] = {}) <=> (q2.ctl[f].ptr = NULL)
      BY <1>4, <1>8
    <3>2. q2 \in E!PollType /\ ~ q2.fault /\ "ERR" \in E!Ev
      BY <1>4, <1>8
    <3> QED BY <3>1, <3>2, EInserts
  <2>2. q2.table[f] \cup {"ERR"} = {"IN", "OUT", "ERR"}
    BY <1>8
  <2> QED BY <2>1, <2>2
<1> HIDE DEF q3
<1>10. q3.ctl[f].ptr = c /\ q3.ctl[f].ev = {"IN", "OUT", "ERR"}
  BY <1>9
<1>11. SlotAgrees(p2, q3, f)
  BY <1>4, <1>7, <1>9, <1>10 DEF SlotAgrees
<1>12. KSame(kq, p2, f) /\ ESame(ep, q3, f)
  BY <1>5, <1>6, <1>7, <1>8, <1>9 DEF KSame, ESame
<1>13. Sound(p2, q3) /\ \A g \in Fds \ {f} : q3.ctl[g].ptr = ep.ctl[g].ptr
  BY <1>7, <1>9, <1>11, <1>12, SoundAgain
<1> QED BY <1>3, <1>5, <1>7, <1>10, <1>13 DEF Moved

(* ::close() of a number whose slot is clean changes nothing that is seen. *)
LEMMA ClosesSound ==
  ASSUME Sound(kq, ep), NEW f \in Fds, ep.ctl[f].ptr = NULL, Closes(f)
  PROVE  Sound(kq, ep)' /\ kq'.events = kq.events /\ \A g \in Fds : ep'.ctl[g].ptr = ep.ctl[g].ptr
<1>1. /\ kq \in K!PollType /\ ep \in E!PollType /\ ~ kq.fault /\ ~ ep.fault
      /\ ep.table[f] = {} /\ kq.table[f] = {}
  <2>1. ep.table[f] = {}
    BY SoundSlot
  <2> QED BY <2>1, SoundSlot
<1>2. kq' = [kq EXCEPT !.filters[f] = K!NoFilters] /\ ep' = [ep EXCEPT !.ctl[f] = E!Unregistered]
  BY DEF Closes, K!Forget
<1>3. K!NoFilters \in [K!Filters -> Conns \cup {NULL}] /\ E!Unregistered \in E!Interest
  BY DEF K!NoFilters, E!Unregistered, E!Interest
<1>4. /\ kq' \in K!PollType /\ ~ kq'.fault /\ kq'.events = kq.events /\ kq'.table = kq.table
      /\ kq'.filters = [kq.filters EXCEPT ![f] = K!NoFilters]
  BY <1>1, <1>2, <1>3 DEF K!PollType
<1>5. /\ ep' \in E!PollType /\ ~ ep'.fault /\ ep'.table = ep.table
      /\ ep'.ctl = [ep.ctl EXCEPT ![f] = E!Unregistered]
  BY <1>1, <1>2, <1>3 DEF E!PollType
<1>6. KSame(kq, kq', f) /\ ESame(ep, ep', f)
  BY <1>1, <1>4, <1>5 DEF KSame, ESame, K!PollType, E!PollType
<1>7. /\ \A b \in K!Filters : kq'.filters[f][b] = NULL
      /\ ep'.ctl[f].ptr = NULL /\ ep'.ctl[f].ev = {}
  <2>1. kq'.filters[f] = K!NoFilters /\ ep'.ctl[f] = E!Unregistered
    BY <1>1, <1>4, <1>5 DEF K!PollType, E!PollType
  <2> QED BY <2>1 DEF K!NoFilters, E!Unregistered
<1>8. SlotAgrees(kq', ep', f)
  BY <1>1, <1>4, <1>5, <1>7 DEF SlotAgrees
<1>9. Sound(kq', ep') /\ \A g \in Fds \ {f} : ep'.ctl[g].ptr = ep.ctl[g].ptr
  BY <1>4, <1>5, <1>6, <1>8, SoundAgain
<1> QED BY <1>4, <1>7, <1>9

LEMMA WithdrawSound ==
  ASSUME Sound(kq, ep), NEW c \in Conns, NEW f \in Fds, ep.ctl[f].ptr \in {c, NULL},
         Withdraw([ptr |-> c, fd |-> f])
  PROVE  /\ Sound(kq, ep)' /\ kq'.events = {n \in kq.events : n.ptr # c}
         /\ Moved(ep, ep', f, NULL)
<1> DEFINE e  == [ptr |-> c, fd |-> f]
           p1 == K!Remove(kq, e, "IN")
           p2 == K!Remove(p1, e, "OUT")
           p3 == K!PollClose(p2, e)
           q1 == E!Remove(ep, e, "IN")
           q2 == E!Remove(q1, e, "OUT")
           q3 == E!Remove(q2, e, "ERR")
           q4 == E!PollClose(q3, e)
<1>1. kq' = K!Forget(p3, f) /\ ep' = [q4 EXCEPT !.ctl[f] = E!Unregistered]
  BY DEF Withdraw, K!RemoveRead, K!RemoveWrite, K!RemoveError,
     E!RemoveRead, E!RemoveWrite, E!RemoveError
<1>2. /\ K!Filters = {"IN", "OUT"} /\ E!Ev = {"IN", "OUT", "ERR"} /\ c # NULL
  BY ReplyAssumption DEF K!Filters, E!Ev
<1>3. /\ p1 \in K!PollType /\ ~ p1.fault /\ p1.events = kq.events /\ KSame(kq, p1, f)
      /\ p1.table[f] = kq.table[f] \ {"IN"} /\ p1.filters[f]["OUT"] = kq.filters[f]["OUT"]
  <2>1. /\ kq \in K!PollType /\ ~ kq.fault /\ "IN" \in K!Filters /\ "OUT" \in K!Filters
        /\ "IN" \in kq.table[f] => kq.filters[f]["IN"] # NULL
    BY <1>2, SoundSlot
  <2>2. /\ p1 \in K!PollType /\ ~ p1.fault /\ p1.events = kq.events /\ KSame(kq, p1, f)
        /\ p1.table[f] = kq.table[f] \ {"IN"}
        /\ \A a \in K!Filters :
             p1.filters[f][a] = IF a = "IN" /\ "IN" \in kq.table[f] THEN NULL ELSE kq.filters[f][a]
    BY <2>1, KRemoves
  <2> HIDE DEF p1
  <2> QED BY <2>1, <2>2
<1> HIDE DEF p1
<1>4. /\ p2 \in K!PollType /\ ~ p2.fault /\ p2.events = kq.events /\ KSame(kq, p2, f)
      /\ p2.table[f] = {}
  <2>1. /\ p1 \in K!PollType /\ ~ p1.fault /\ "OUT" \in K!Filters
        /\ "OUT" \in p1.table[f] => p1.filters[f]["OUT"] # NULL
    BY <1>2, <1>3, SoundSlot
  <2>2. /\ p2 \in K!PollType /\ ~ p2.fault /\ p2.events = p1.events /\ KSame(p1, p2, f)
        /\ p2.table[f] = p1.table[f] \ {"OUT"}
    BY <2>1, KRemoves
  <2>3. kq.table[f] \subseteq {"IN", "OUT"}
    BY <1>2, SoundSlot
  <2> HIDE DEF p2
  <2>4. p2.table[f] = {}
    BY <1>3, <2>2, <2>3
  <2> QED BY <1>3, <2>2, <2>4 DEF KSame
<1> HIDE DEF p2
<1>5. /\ q1 \in E!PollType /\ ~ q1.fault /\ ESame(ep, q1, f)
      /\ q1.table[f] = ep.table[f] \ {"IN"} /\ q1.table[f] = q1.ctl[f].ev
      /\ q1.ctl[f].ptr \in {c, NULL} /\ ((q1.table[f] = {}) <=> (q1.ctl[f].ptr = NULL))
  <2>1. /\ ep \in E!PollType /\ ~ ep.fault /\ "IN" \in E!Ev
        /\ ep.table[f] = ep.ctl[f].ev /\ ep.ctl[f].ptr \in {c, NULL}
        /\ (ep.table[f] = {}) <=> (ep.ctl[f].ptr = NULL)
    BY <1>2, SoundSlot
  <2>2. /\ q1 \in E!PollType /\ ~ q1.fault /\ ESame(ep, q1, f)
        /\ q1.table[f] = ep.table[f] \ {"IN"} /\ q1.ctl[f].ev = ep.table[f] \ {"IN"}
        /\ q1.ctl[f].ptr = IF ep.table[f] \ {"IN"} = {} THEN NULL ELSE c
    BY <2>1, ERemoves
  <2> HIDE DEF q1
  <2> QED BY <1>2, <2>2
<1> HIDE DEF q1
<1>6. /\ q2 \in E!PollType /\ ~ q2.fault /\ ESame(q1, q2, f)
      /\ q2.table[f] = q1.table[f] \ {"OUT"} /\ q2.table[f] = q2.ctl[f].ev
      /\ q2.ctl[f].ptr \in {c, NULL} /\ ((q2.table[f] = {}) <=> (q2.ctl[f].ptr = NULL))
  <2>1. /\ q1 \in E!PollType /\ ~ q1.fault /\ "OUT" \in E!Ev
        /\ q1.table[f] = q1.ctl[f].ev /\ q1.ctl[f].ptr \in {c, NULL}
        /\ (q1.table[f] = {}) <=> (q1.ctl[f].ptr = NULL)
    BY <1>2, <1>5
  <2>2. /\ q2 \in E!PollType /\ ~ q2.fault /\ ESame(q1, q2, f)
        /\ q2.table[f] = q1.table[f] \ {"OUT"} /\ q2.ctl[f].ev = q1.table[f] \ {"OUT"}
        /\ q2.ctl[f].ptr = IF q1.table[f] \ {"OUT"} = {} THEN NULL ELSE c
    BY <2>1, ERemoves
  <2> HIDE DEF q2
  <2> QED BY <1>2, <2>2
<1> HIDE DEF q2
<1>7. /\ q3 \in E!PollType /\ ~ q3.fault /\ ESame(q2, q3, f)
      /\ q3.table[f] = q2.table[f] \ {"ERR"} /\ q3.table[f] = q3.ctl[f].ev
      /\ q3.ctl[f].ptr \in {c, NULL} /\ ((q3.table[f] = {}) <=> (q3.ctl[f].ptr = NULL))
  <2>1. /\ q2 \in E!PollType /\ ~ q2.fault /\ "ERR" \in E!Ev
        /\ q2.table[f] = q2.ctl[f].ev /\ q2.ctl[f].ptr \in {c, NULL}
        /\ (q2.table[f] = {}) <=> (q2.ctl[f].ptr = NULL)
    BY <1>2, <1>6
  <2>2. /\ q3 \in E!PollType /\ ~ q3.fault /\ ESame(q2, q3, f)
        /\ q3.table[f] = q2.table[f] \ {"ERR"} /\ q3.ctl[f].ev = q2.table[f] \ {"ERR"}
        /\ q3.ctl[f].ptr = IF q2.table[f] \ {"ERR"} = {} THEN NULL ELSE c
    BY <2>1, ERemoves
  <2> HIDE DEF q3
  <2> QED BY <1>2, <2>2
<1> HIDE DEF q3
<1>8. q3.table[f] = {}
  <2>1. ep.table[f] \subseteq {"IN", "OUT", "ERR"}
    BY <1>2, SoundSlot
  <2> QED BY <1>5, <1>6, <1>7, <2>1
<1>9. /\ kq' \in K!PollType /\ ~ kq'.fault /\ kq'.table = p2.table
      /\ kq'.filters = [p2.filters EXCEPT ![f] = K!NoFilters]
      /\ kq'.events = {n \in kq.events : n.ptr # c}
  <2>1. p3 = [p2 EXCEPT !.events = {n \in @ : n.ptr # c}]
    BY <1>4 DEF K!PollClose, K!EventMask_
  <2>2. {n \in p2.events : n.ptr # c} \in SUBSET K!Entry
    BY <1>4 DEF K!PollType
  <2>3. /\ p3 \in K!PollType /\ p3.fault = p2.fault /\ p3.table = p2.table
        /\ p3.filters = p2.filters /\ p3.events = {n \in p2.events : n.ptr # c}
    BY <1>4, <2>1, <2>2 DEF K!PollType
  <2> HIDE DEF p3
  <2>4. K!NoFilters \in [K!Filters -> Conns \cup {NULL}]
    BY DEF K!NoFilters
  <2>5. kq' = [p3 EXCEPT !.filters[f] = K!NoFilters]
    BY <1>1 DEF K!Forget
  <2> QED BY <1>4, <2>3, <2>4, <2>5 DEF K!PollType
<1>10. /\ ep' \in E!PollType /\ ~ ep'.fault /\ ep'.table = q3.table
       /\ ep'.ctl = [q3.ctl EXCEPT ![f] = E!Unregistered]
  <2>1. q4 = [q3 EXCEPT !.events = {n \in @ : n.ptr # c}]
    BY <1>7, <1>8 DEF E!PollClose, E!EventMask_
  <2>2. {n \in q3.events : n.ptr # c} \in SUBSET E!Entry
    BY <1>7 DEF E!PollType
  <2>3. q4 \in E!PollType /\ q4.fault = q3.fault /\ q4.table = q3.table /\ q4.ctl = q3.ctl
    BY <1>7, <2>1, <2>2 DEF E!PollType
  <2> HIDE DEF q4
  <2>4. E!Unregistered \in E!Interest
    BY DEF E!Unregistered, E!Interest
  <2> QED BY <1>1, <1>7, <2>3, <2>4 DEF E!PollType
<1>11. KSame(kq, kq', f)
  BY <1>4, <1>9 DEF KSame, K!PollType
<1>12. ESame(ep, ep', f)
  BY <1>5, <1>6, <1>7, <1>10 DEF ESame, E!PollType
<1>13. /\ kq'.table[f] = {} /\ ep'.table[f] = {}
       /\ \A b \in K!Filters : kq'.filters[f][b] = NULL
       /\ ep'.ctl[f].ptr = NULL /\ ep'.ctl[f].ev = {}
  <2>1. kq'.filters[f] = K!NoFilters /\ ep'.ctl[f] = E!Unregistered
    BY <1>4, <1>7, <1>9, <1>10 DEF K!PollType, E!PollType
  <2> QED BY <1>4, <1>8, <1>9, <1>10, <2>1 DEF K!NoFilters, E!Unregistered
<1>14. SlotAgrees(kq', ep', f)
  BY <1>13 DEF SlotAgrees
<1>15. Sound(kq', ep') /\ \A g \in Fds \ {f} : ep'.ctl[g].ptr = ep.ctl[g].ptr
  <2>1. kq' \in K!PollType /\ ~ kq'.fault /\ ep' \in E!PollType /\ ~ ep'.fault
    BY <1>9, <1>10
  <2> QED BY <2>1, <1>11, <1>12, <1>14, SoundAgain
<1> QED BY <1>9, <1>13, <1>15 DEF Moved

-----------------------------------------------------------------------------
(* The admitted connections stay, grow by one, or lose one.                *)
Keeps(d) == desc'[d] = desc[d] /\ state'[d] # "FREE"

LEMMA StaysAgreed ==
  ASSUME AgreeInv, Sound(kq, ep)', Admitted' = Admitted, \A d \in Admitted : Keeps(d),
         \A f \in Fds : ep'.ctl[f].ptr = ep.ctl[f].ptr,
         \A n \in kq'.events : n.ptr \in Admitted /\ desc[n.ptr] = n.fd
  PROVE  AgreeInv'
<1>1. \A c \in Admitted' : Entitled(c)' /\ ep'.ctl[desc'[c]].ptr = c
  BY DEF AgreeInv, Entitled, Keeps
<1>2. \A f \in Fds : ep'.ctl[f].ptr # NULL => ep'.ctl[f].ptr \in Admitted' /\ desc'[ep'.ctl[f].ptr] = f
  BY DEF AgreeInv, Keeps
<1>3. \A n \in kq'.events : n.ptr \in Admitted' /\ desc'[n.ptr] = n.fd
  BY DEF Keeps
<1> QED BY <1>1, <1>2, <1>3 DEF AgreeInv

LEMMA GrowsAgreed ==
  ASSUME AgreeInv, NEW c \in Conns, NEW f \in Fds, ep.ctl[f].ptr = NULL, Enrol(c, f),
         c \notin Admitted, Admitted' = Admitted \cup {c}, \A d \in Admitted : Keeps(d),
         desc'[c] = f, state'[c] # "FREE"
  PROVE  AgreeInv'
<1>1. Sound(kq, ep) /\ Sound(kq, ep)' /\ kq'.events = kq.events /\ Moved(ep, ep', f, c)
  BY EnrolSound DEF AgreeInv
<1>2. \A d \in Admitted : desc[d] # f
  BY ReplyAssumption DEF AgreeInv, Entitled
<1>3. \A d \in Admitted' : Entitled(d)' /\ ep'.ctl[desc'[d]].ptr = d
  <2>1. Entitled(c)' /\ ep'.ctl[desc'[c]].ptr = c
    BY <1>1 DEF Entitled, Moved
  <2>2. ASSUME NEW d \in Admitted PROVE Entitled(d)' /\ ep'.ctl[desc'[d]].ptr = d
    BY <1>1, <1>2, <2>2 DEF AgreeInv, Entitled, Keeps, Moved
  <2> QED BY <2>1, <2>2
<1>4. \A g \in Fds : ep'.ctl[g].ptr # NULL => ep'.ctl[g].ptr \in Admitted' /\ desc'[ep'.ctl[g].ptr] = g
  BY <1>1 DEF AgreeInv, Keeps, Moved
<1>5. \A n \in kq'.events : n.ptr \in Admitted' /\ desc'[n.ptr] = n.fd
  BY <1>1 DEF AgreeInv, Keeps
<1> QED BY <1>1, <1>3, <1>4, <1>5 DEF AgreeInv

LEMMA ShrinksAgreed ==
  ASSUME AgreeInv, NEW c \in Conns, desc[c] \in Fds, Withdraw(EventOf(c)),
         \A d \in Admitted : d # c => desc[d] # desc[c],
         Admitted' = Admitted \ {c}, \A d \in Admitted \ {c} : Keeps(d)
  PROVE  AgreeInv'
<1> DEFINE f == desc[c]
<1>1. ep.ctl[f].ptr \in {c, NULL}
  BY DEF AgreeInv
<1>2. EventOf(c) = [ptr |-> c, fd |-> f]
  BY DEF EventOf
<1>3. /\ Sound(kq, ep)' /\ kq'.events = {n \in kq.events : n.ptr # c}
      /\ Moved(ep, ep', f, NULL)
  BY <1>1, <1>2, WithdrawSound DEF AgreeInv
<1>4. \A d \in Admitted' : Entitled(d)' /\ ep'.ctl[desc'[d]].ptr = d
  BY <1>3 DEF AgreeInv, Entitled, Keeps, Moved
<1>5. \A g \in Fds : ep'.ctl[g].ptr # NULL => ep'.ctl[g].ptr \in Admitted' /\ desc'[ep'.ctl[g].ptr] = g
  <2>1. ASSUME NEW g \in Fds, ep'.ctl[g].ptr # NULL
        PROVE  ep'.ctl[g].ptr \in Admitted' /\ desc'[ep'.ctl[g].ptr] = g
    <3>1. g # f /\ ep'.ctl[g].ptr = ep.ctl[g].ptr
      BY <1>3, <2>1 DEF Moved
    <3>2. ep.ctl[g].ptr \in Admitted /\ desc[ep.ctl[g].ptr] = g
      BY <2>1, <3>1 DEF AgreeInv
    <3>3. ep.ctl[g].ptr # c
      BY <3>1, <3>2
    <3> QED BY <3>1, <3>2, <3>3 DEF Keeps
  <2> QED BY <2>1
<1>6. \A n \in kq'.events : n.ptr \in Admitted' /\ desc'[n.ptr] = n.fd
  BY <1>3 DEF AgreeInv, Keeps
<1> QED BY <1>3, <1>4, <1>5, <1>6 DEF AgreeInv

(* Nobody admitted has the number of an object that is not.                *)
LEMMA CleanSlot ==
  ASSUME AgreeInv, NEW f \in Fds, \A d \in Admitted : desc[d] # f
  PROVE  ep.ctl[f].ptr = NULL
BY DEF AgreeInv

-----------------------------------------------------------------------------
(* One lemma per action again.                                             *)
Unadmitted == UNCHANGED <<state, desc, app>>

LEMMA SameAdmitted ==
  ASSUME AgreeInv, Unadmitted
  PROVE  Admitted' = Admitted /\ \A d \in Admitted : Keeps(d)
BY DEF Unadmitted, Admitted, Connected, AAt, Keeps, AgreeInv, Entitled

(* A handler that arms or disarms the write filter, or neither.            *)
LEMMA HandlerAgrees ==
  ASSUME AgreeInv, Unadmitted, NEW c \in Admitted,
         \/ UNCHANGED polls
         \/ InsertWrite(c)
         \/ kq' = K!RemoveWrite(kq, EventOf(c)) /\ ep' = E!RemoveWrite(ep, EventOf(c))
  PROVE  AgreeInv'
<1>1. /\ c \in Conns /\ desc[c] \in Fds /\ ep.ctl[desc[c]].ptr = c /\ Sound(kq, ep)
      /\ EventOf(c) = [ptr |-> c, fd |-> desc[c]]
  BY DEF AgreeInv, Entitled, EventOf
<1>2. Sound(kq, ep)' /\ kq'.events = kq.events /\ \A f \in Fds : ep'.ctl[f].ptr = ep.ctl[f].ptr
  <2>1. CASE UNCHANGED polls
    BY <1>1, <2>1 DEF polls
  <2>2. CASE InsertWrite(c)
    BY <1>1, <2>2, ArmSound DEF InsertWrite
  <2>3. CASE kq' = K!RemoveWrite(kq, EventOf(c)) /\ ep' = E!RemoveWrite(ep, EventOf(c))
    BY <1>1, <2>3, DisarmSound
  <2> QED BY <2>1, <2>2, <2>3
<1>3. \A n \in kq'.events : n.ptr \in Admitted /\ desc[n.ptr] = n.fd
  BY <1>2 DEF AgreeInv
<1> QED BY <1>2, <1>3, SameAdmitted, StaysAgreed

(* The poll object's entries change, and nothing else of it.               *)
LEMMA EntriesAgree ==
  ASSUME AgreeInv, Unadmitted, ep' = ep, NEW s \in SUBSET K!Entry, kq' = [kq EXCEPT !.events = s],
         \A n \in s : n.ptr \in Admitted /\ desc[n.ptr] = n.fd
  PROVE  AgreeInv'
<1>1. kq \in K!PollType /\ Sound(kq, ep)
  BY DEF AgreeInv, Sound
<1>2. /\ kq' \in K!PollType /\ kq'.table = kq.table /\ kq'.filters = kq.filters
      /\ kq'.fault = kq.fault /\ kq'.events = s
  BY <1>1 DEF K!PollType
<1>3. Sound(kq, ep)'
  BY <1>1, <1>2 DEF Sound, SlotAgrees
<1> QED BY <1>2, <1>3, SameAdmitted, StaysAgreed

LEMMA AcceptAgrees ==
  ASSUME Running, OInv, AgreeInv, LAccept, UNCHANGED <<process, app, leaked>>
  PROVE  AgreeInv'
<1>1. Types /\ Owned /\ StateInv /\ AppInv
  BY DEF OInv
<1>2. PICK c \in Conns, f \in Fds :
        /\ state[c] = "FREE" /\ LowestFree(f)
        /\ open' = open \cup {f}
        /\ desc' = [desc EXCEPT ![c] = f]
        /\ Enrol(c, f)
        /\ state' = [state EXCEPT ![c] = "CONNECTED"]
  BY DEF LAccept
<1>3. /\ desc'[c] = f /\ state'[c] = "CONNECTED"
      /\ \A d \in Conns : d # c => desc'[d] = desc[d] /\ state'[d] = state[d]
  BY <1>1, <1>2 DEF Types
<1>4. c \notin Admitted
  BY <1>2 DEF AgreeInv, Entitled
<1>5. Admitted' = Admitted \cup {c}
  BY <1>2, <1>3 DEF Admitted, Connected, AAt
<1>6. \A d \in Admitted : Keeps(d)
  BY <1>3, <1>4 DEF AgreeInv, Entitled, Keeps
<1>7. ep.ctl[f].ptr = NULL
  <2>1. f \notin open /\ f # NoFd
    BY <1>2, Fd DEF LowestFree
  <2>2. \A d \in Admitted : desc[d] # f
    BY <1>1, <2>1 DEF Owned, Admitted
  <2> QED BY <2>2, CleanSlot
<1>8. state'[c] # "FREE"
  BY <1>3
<1> QED BY <1>2, <1>3, <1>4, <1>5, <1>6, <1>7, <1>8, GrowsAgreed

(* What is reported is registered, and so admitted.                        *)
LEMMA PollAgrees ==
  ASSUME Running, OInv, AgreeInv, WDoPoll, UNCHANGED <<process, app, leaked>>
  PROVE  AgreeInv'
<1>1. PICK report \in SUBSET K!Ready(kq) : kq' = K!DoPoll(kq, report)
  BY DEF WDoPoll
<1>2. Unadmitted /\ ep' = ep
  BY DEF WDoPoll, Unadmitted, objects
<1>3. report \in SUBSET K!Entry /\ kq' = [kq EXCEPT !.events = report]
  BY <1>1 DEF K!Ready, K!DoPoll
<1>4. ASSUME NEW n \in report PROVE n.ptr \in Admitted /\ desc[n.ptr] = n.fd
  <2>1. n.ptr \in Conns /\ n.fd \in Fds /\ n.filter \in K!Filters
        /\ kq.filters[n.fd][n.filter] = n.ptr
    BY <1>1 DEF K!Ready, K!Entry
  <2>2. ep.ctl[n.fd].ptr = n.ptr /\ n.ptr # NULL
    <3>1. Sound(kq, ep) /\ n.ptr # NULL
      BY <2>1, ReplyAssumption DEF AgreeInv
    <3>2. kq.filters[n.fd][n.filter]
            = IF n.filter \in ep.table[n.fd] THEN ep.ctl[n.fd].ptr ELSE NULL
      BY <2>1, <3>1, SoundSlot
    <3> QED BY <2>1, <3>1, <3>2
  <2> QED BY <2>1, <2>2 DEF AgreeInv
<1> QED BY <1>2, <1>3, <1>4, EntriesAgree

LEMMA EntryAgrees ==
  ASSUME Running, OInv, AgreeInv, WNextEntry, UNCHANGED <<process, app, leaked>>
  PROVE  AgreeInv'
<1>1. Unadmitted /\ ep' = ep
  BY DEF WNextEntry, Unadmitted, objects
<1>2. kq.events \in SUBSET K!Entry /\ kq \in K!PollType
  BY DEF AgreeInv, Sound, K!PollType
<1>3. PICK s \in SUBSET kq.events : kq' = [kq EXCEPT !.events = s]
  <2>1. CASE kq' = kq
    <3>1. kq = [kq EXCEPT !.events = kq.events]
      BY <1>2 DEF K!PollType
    <3> QED BY <2>1, <3>1
  <2>2. CASE \E n \in kq.events : kq' = [kq EXCEPT !.events = @ \ {n}]
    BY <2>2
  <2> QED BY <2>1, <2>2 DEF WNextEntry
<1>4. s \in SUBSET K!Entry /\ \A n \in s : n.ptr \in Admitted /\ desc[n.ptr] = n.fd
  BY <1>2, <1>3 DEF AgreeInv
<1> QED BY <1>1, <1>3, <1>4, EntriesAgree

LEMMA WorkersConnection ==
  ASSUME OInv, Running, wpc \in {"IN", "OUT", "send", "close"}
  PROVE  at \in Admitted /\ state[at] = "CONNECTED"
BY DEF OInv, WorkerInv, Admitted, Connected

LEMMA HandlersAgree ==
  ASSUME Running, OInv, AgreeInv, UNCHANGED <<process, app, leaked>>,
         WEventRead \/ WReadNothing \/ WReadFails \/ WEventWrite \/ WSend \/ WSendFails
  PROVE  AgreeInv'
<1>1. at \in Admitted
  BY WorkersConnection DEF WEventRead, WReadNothing, WReadFails, WEventWrite, WSend, WSendFails, WAt
<1>2. Unadmitted
  BY DEF WEventRead, WReadNothing, WReadFails, WEventWrite, WSend, WSendFails, Unadmitted, objects
<1>3. \/ UNCHANGED polls
      \/ InsertWrite(at)
      \/ kq' = K!RemoveWrite(kq, EventOf(at)) /\ ep' = E!RemoveWrite(ep, EventOf(at))
  <2>1. CASE WEventRead
    BY <2>1 DEF WEventRead, SendMessages
  <2>2. CASE WReadNothing \/ WReadFails \/ WSend \/ WSendFails
    BY <2>2 DEF WReadNothing, WReadFails, WSend, WSendFails
  <2>3. CASE WEventWrite
    BY <2>3 DEF WEventWrite
  <2> QED BY <2>1, <2>2, <2>3
<1> QED BY <1>1, <1>2, <1>3, HandlerAgrees

LEMMA DrainAgrees ==
  ASSUME Running, OInv, AgreeInv, WServe \/ WDrained, UNCHANGED <<process, app, leaked>>
  PROVE  AgreeInv'
<1>1. Unadmitted
  BY DEF WServe, WDrained, Unadmitted, objects
<1>2. CASE UNCHANGED polls
  <2>1. kq' = kq /\ ep' = ep
    BY <1>2 DEF polls
  <2>2. Sound(kq, ep)' /\ \A n \in kq'.events : n.ptr \in Admitted /\ desc[n.ptr] = n.fd
    BY <2>1 DEF AgreeInv
  <2> QED BY <1>1, <2>1, <2>2, SameAdmitted, StaysAgreed
<1>3. CASE \E c \in Active : InsertWrite(c)
  BY <1>1, <1>3, HandlerAgrees DEF Active, Admitted
<1> QED BY <1>2, <1>3 DEF WServe, WDrained, SendMessages

(* Two objects with a number never have the same one.                      *)
LEMMA NumberAlone ==
  ASSUME Owned, NEW c \in Conns, desc[c] \in Fds
  PROVE  \A d \in Admitted : d # c => desc[d] # desc[c]
BY Fd DEF Owned, Admitted

LEMMA CloseAgrees ==
  ASSUME Running, OInv, AgreeInv, WClose, UNCHANGED <<process, app, leaked>>
  PROVE  AgreeInv'
<1>1. Types /\ Owned /\ AppInv /\ at \in Admitted /\ state[at] = "CONNECTED"
  BY WorkersConnection DEF OInv, WClose, WAt
<1>2. at \in Conns /\ desc[at] \in Fds
  BY <1>1 DEF AgreeInv, Entitled
<1>3. /\ desc'[at] = NoFd /\ state'[at] = "FREE"
      /\ \A d \in Conns : d # at => desc'[d] = desc[d] /\ state'[d] = state[d]
  BY <1>1, <1>2 DEF Types, WClose, Freed
<1>4. AAt("connected") => app.c # at
  BY <1>1 DEF AppInv, AAt
<1>5. Admitted' = Admitted \ {at}
  BY <1>3, <1>4 DEF Admitted, Connected, AAt
<1>6. \A d \in Admitted \ {at} : Keeps(d)
  BY <1>3 DEF AgreeInv, Entitled, Keeps
<1>7. Withdraw(EventOf(at))
  BY DEF WClose
<1> QED BY <1>1, <1>2, <1>5, <1>6, <1>7, NumberAlone, ShrinksAgreed

(* The constructor works on an object that is not admitted yet.            *)
Outside(c) ==
  /\ c \notin Admitted /\ ~ AAt("connected") /\ app'.pc # "connected"
  /\ state'[c] # "CONNECTED"
  /\ \A d \in Conns : d # c => desc'[d] = desc[d] /\ state'[d] = state[d]

LEMMA OutsideAdmitted ==
  ASSUME AgreeInv, NEW c \in Conns, Outside(c)
  PROVE  Admitted' = Admitted /\ \A d \in Admitted : Keeps(d)
BY DEF Outside, Admitted, Connected, AAt, Keeps, AgreeInv, Entitled

LEMMA OutsideAgrees ==
  ASSUME AgreeInv, NEW c \in Conns, Outside(c),
         \/ UNCHANGED polls
         \/ \E f \in Fds : Closes(f) /\ \A d \in Admitted : desc[d] # f
  PROVE  AgreeInv'
<1>1. Sound(kq, ep)' /\ kq'.events = kq.events /\ \A f \in Fds : ep'.ctl[f].ptr = ep.ctl[f].ptr
  <2>1. CASE UNCHANGED polls
    BY <2>1 DEF polls, AgreeInv
  <2>2. CASE \E f \in Fds : Closes(f) /\ \A d \in Admitted : desc[d] # f
    BY <2>2, CleanSlot, ClosesSound DEF AgreeInv
  <2> QED BY <2>1, <2>2
<1>2. \A n \in kq'.events : n.ptr \in Admitted /\ desc[n.ptr] = n.fd
  BY <1>1 DEF AgreeInv
<1> QED BY <1>1, <1>2, OutsideAdmitted, StaysAgreed

LEMMA NewObject ==
  ASSUME Running, OInv, ~ AAt("idle")
  PROVE  /\ app.c \in Conns /\ app.fd \in Fds /\ state[app.c] = "INACTIVE"
         /\ app.c \in Admitted <=> AAt("connected")
         /\ AAt("connect") => desc[app.c] \in {app.fd, NoFd}
         /\ ~ AAt("connect") => desc[app.c] = app.fd
         /\ Types /\ Owned /\ AppInv
BY DEF OInv, AppInv, Admitted, Connected

LEMMA OpenAgrees ==
  ASSUME Running, OInv, AgreeInv, AOpen
  PROVE  AgreeInv'
<1>1. Types /\ AAt("idle") /\ UNCHANGED polls
  BY DEF OInv, AOpen
<1>2. PICK c \in Conns, f \in Fds :
        /\ state[c] = "FREE"
        /\ \/ /\ state' = [state EXCEPT ![c] = "INACTIVE"]
              /\ desc' = [desc EXCEPT ![c] = f]
              /\ app' = [pc |-> "options", fd |-> f, c |-> c]
           \/ UNCHANGED <<state, desc, app>>
  BY DEF AOpen
<1>3. c \notin Admitted
  BY <1>2 DEF AgreeInv, Entitled
<1>4. Outside(c)
  BY <1>1, <1>2, <1>3 DEF Outside, AAt, Types
<1> QED BY <1>1, <1>4, OutsideAgrees

LEMMA OptionsAgrees ==
  ASSUME Running, OInv, AgreeInv, AOptions
  PROVE  AgreeInv'
<1>1. AAt("options") /\ ~ AAt("idle") /\ ~ AAt("connected") /\ state' = state
  BY DEF AOptions, AAt
<1>2. /\ app.c \in Conns /\ app.fd \in Fds /\ state[app.c] = "INACTIVE"
      /\ app.c \notin Admitted /\ desc[app.c] = app.fd /\ Types /\ Owned
  BY <1>1, NewObject DEF AAt
<1>3. app'.pc = "connect"
  BY <1>2 DEF AOptions, AGoto, Types
<1>4. Outside(app.c)
  BY <1>1, <1>2, <1>3 DEF AOptions, Outside, Descriptor, Types
<1>5. \A d \in Admitted : desc[d] # app.fd
  BY <1>2, NumberAlone
<1> QED BY <1>2, <1>4, <1>5, OutsideAgrees DEF AOptions

LEMMA UnwindsOutside ==
  ASSUME Running, OInv, ~ AAt("idle"), ~ AAt("connected"), Unwinds,
         \A d \in Conns : d # app.c => desc'[d] = desc[d]
  PROVE  Outside(app.c)
<1>1. app.c \in Conns /\ app.c \notin Admitted /\ Types
  BY NewObject
<1>2. app' = Idle /\ state' = [state EXCEPT ![app.c] = "FREE"]
  BY DEF Unwinds
<1> QED BY <1>1, <1>2 DEF Outside, Idle, Types

LEMMA UnresolvedAgrees ==
  ASSUME Running, OInv, AgreeInv, AUnresolved
  PROVE  AgreeInv'
<1>1. ~ AAt("idle") /\ ~ AAt("connected") /\ Unwinds /\ UNCHANGED <<desc, polls>>
  BY DEF AUnresolved, AAt
<1> QED BY <1>1, NewObject, UnwindsOutside, OutsideAgrees

LEMMA ConnectsAgrees ==
  ASSUME Running, OInv, AgreeInv, AConnects
  PROVE  AgreeInv'
<1>1. ~ AAt("idle") /\ ~ AAt("connected") /\ UNCHANGED <<state, desc, polls>>
  BY DEF AConnects, AAt, rvars, objects
<1>2. app.c \in Conns /\ state[app.c] = "INACTIVE" /\ app.c \notin Admitted /\ Types
  BY <1>1, NewObject
<1>3. app'.pc # "connected"
  BY <1>2 DEF AConnects, AGoto, Types
<1>4. Outside(app.c)
  BY <1>1, <1>2, <1>3 DEF Outside
<1> QED BY <1>1, <1>2, <1>4, OutsideAgrees

(* Whoever is refused closes its own number, one that nobody has, or a     *)
(* stranger's.                                                             *)
LEMMA RefusedAgrees ==
  ASSUME Running, OInv, AgreeInv, ARefused, process' # "stranger_closed"
  PROVE  AgreeInv'
<1>1. ~ AAt("idle") /\ ~ AAt("connected") /\ Closes(app.fd) /\ desc' = desc
  BY DEF ARefused, AAt
<1>2. /\ app.c \in Conns /\ app.fd \in Fds /\ app.c \notin Admitted /\ Owned
      /\ desc[app.c] \in {app.fd, NoFd}
  BY <1>1, NewObject DEF ARefused
<1>3. Unwinds /\ (Owns \/ app.fd \notin open)
  BY DEF ARefused
<1>4. \A d \in Admitted : desc[d] # app.fd
  <2>1. CASE Owns
    BY <1>2, <2>1, NumberAlone DEF Owns
  <2>2. CASE app.fd \notin open
    BY <1>2, <2>2, Fd DEF Owned, Admitted
  <2> QED BY <1>3, <2>1, <2>2
<1> QED BY <1>1, <1>2, <1>3, <1>4, UnwindsOutside, OutsideAgrees

LEMMA SelectAgrees ==
  ASSUME Running, OInv, AgreeInv, ASelect
  PROVE  AgreeInv'
<1>1. AAt("select") /\ ~ AAt("idle") /\ ~ AAt("connected")
  BY DEF ASelect, AAt
<1>2. /\ app.c \in Conns /\ app.fd \in Fds /\ state[app.c] = "INACTIVE"
      /\ app.c \notin Admitted /\ desc[app.c] = app.fd /\ Types /\ Owned
  BY <1>1, NewObject DEF AAt
<1>3. CASE TimedOut /\ Unwinds
  <2>1. Closes(app.fd) /\ \A d \in Conns : d # app.c => desc'[d] = desc[d]
    BY <1>2, <1>3 DEF TimedOut, Descriptor, Types
  <2>2. \A d \in Admitted : desc[d] # app.fd
    BY <1>2, NumberAlone
  <2> QED BY <1>1, <1>2, <1>3, <2>1, <2>2, UnwindsOutside, OutsideAgrees
<1>4. CASE AGoto("new") /\ UNCHANGED <<process, open, state, desc, polls>>
  <2>1. app'.pc # "connected"
    BY <1>2, <1>4 DEF AGoto, Types
  <2>2. Outside(app.c)
    BY <1>1, <1>2, <1>4, <2>1 DEF Outside
  <2> QED BY <1>2, <1>4, <2>2, OutsideAgrees
<1> QED BY <1>3, <1>4 DEF ASelect

LEMMA NewConnectionAgrees ==
  ASSUME Running, OInv, AgreeInv, ANewConnection
  PROVE  AgreeInv'
<1>1. AAt("new") /\ ~ AAt("idle") /\ ~ AAt("connected") /\ ~ AAt("connect")
  BY DEF ANewConnection, AAt
<1>2. /\ app.c \in Conns /\ app.fd \in Fds /\ state[app.c] = "INACTIVE"
      /\ app.c \notin Admitted /\ desc[app.c] = app.fd /\ Types /\ Owned
  BY <1>1, NewObject
<1>3. \A d \in Admitted : desc[d] # app.fd
  BY <1>2, NumberAlone
<1>4. CASE ~ Full /\ Enrol(app.c, desc[app.c]) /\ AGoto("connected") /\ UNCHANGED <<open, objects>>
  <2>1. app'.pc = "connected" /\ app'.c = app.c /\ UNCHANGED <<state, desc>>
    BY <1>2, <1>4 DEF AGoto, objects, Types
  <2>2. Admitted' = Admitted \cup {app.c}
    BY <1>1, <1>2, <2>1 DEF Admitted, Connected, AAt
  <2>3. \A d \in Admitted : Keeps(d)
    BY <2>1 DEF AgreeInv, Entitled, Keeps
  <2>4. ep.ctl[app.fd].ptr = NULL
    BY <1>2, <1>3, CleanSlot
  <2>5. desc'[app.c] = app.fd /\ state'[app.c] # "FREE"
    BY <1>2, <2>1
  <2> QED BY <1>2, <1>4, <2>2, <2>3, <2>4, <2>5, GrowsAgreed
<1>5. CASE /\ Full /\ Withdraw(EventOf(app.c)) /\ open' = open \ {desc[app.c]}
           /\ Freed(app.c) /\ app' = Idle
  <2>1. /\ state'[app.c] = "FREE" /\ app'.pc = "idle"
        /\ \A d \in Conns : d # app.c => desc'[d] = desc[d] /\ state'[d] = state[d]
    BY <1>2, <1>5 DEF Freed, Idle, Types
  <2>2. Outside(app.c)
    BY <1>1, <1>2, <2>1 DEF Outside
  <2>3. Admitted' = Admitted \ {app.c} /\ \A d \in Admitted \ {app.c} : Keeps(d)
    BY <1>2, <2>2, OutsideAdmitted
  <2> QED BY <1>2, <1>3, <1>5, <2>3, ShrinksAgreed
<1> QED BY <1>4, <1>5 DEF ANewConnection

LEMMA ConnectedAgrees ==
  ASSUME Running, OInv, AgreeInv, AConnected
  PROVE  AgreeInv'
<1>1. AAt("connected") /\ ~ AAt("idle") /\ UNCHANGED <<desc, polls>> /\ app' = Idle
      /\ state' = [state EXCEPT ![app.c] = "CONNECTED"]
  BY DEF AConnected, AAt
<1>2. app.c \in Conns /\ app.c \in Admitted /\ Types
  BY <1>1, NewObject
<1>3. /\ state'[app.c] = "CONNECTED" /\ app'.pc = "idle"
      /\ \A d \in Conns : d # app.c => state'[d] = state[d]
  BY <1>1, <1>2 DEF Types, Idle
<1>4. Admitted' = Admitted
  BY <1>1, <1>2, <1>3 DEF Admitted, Connected, AAt
<1>5. \A d \in Admitted : Keeps(d)
  BY <1>1, <1>3 DEF AgreeInv, Entitled, Keeps
<1>6. /\ Sound(kq, ep)' /\ \A f \in Fds : ep'.ctl[f].ptr = ep.ctl[f].ptr
      /\ \A n \in kq'.events : n.ptr \in Admitted /\ desc[n.ptr] = n.fd
  BY <1>1 DEF polls, AgreeInv
<1> QED BY <1>4, <1>5, <1>6, StaysAgreed

-----------------------------------------------------------------------------
LEMMA AInitially == OInit => AInv
<1> SUFFICES ASSUME OInit PROVE AgreeInv
  BY DEF AInv
<1>1. /\ state = [c \in Conns |-> "FREE"] /\ desc = [c \in Conns |-> NoFd]
      /\ kq = K!NewPoll /\ ep = E!NewPoll /\ app = Idle
  BY DEF OInit, Init
<1>2. Admitted = {}
  BY <1>1 DEF Admitted, Connected, AAt, Idle
<1>3. kq \in K!PollType /\ ~ kq.fault /\ kq.events = {}
  BY <1>1 DEF K!NewPoll, K!PollType, K!NoFilters
<1>4. ep \in E!PollType /\ ~ ep.fault
  BY <1>1 DEF E!NewPoll, E!PollType, E!Unregistered, E!Interest
<1>5. \A f \in Fds : SlotAgrees(kq, ep, f) /\ ep.ctl[f].ptr = NULL
  BY <1>1 DEF K!NewPoll, E!NewPoll, K!NoFilters, E!Unregistered, SlotAgrees
<1> QED BY <1>2, <1>3, <1>4, <1>5 DEF AgreeInv, Sound

LEMMA AStep == OInv /\ AInv /\ [Next]_vars => AInv'
<1> SUFFICES ASSUME OInv, AInv, [Next]_vars PROVE AInv'
  OBVIOUS
<1>1. Running => AgreeInv
  BY DEF Running, AInv
<1>2. CASE Running /\ Server /\ UNCHANGED max_connects_
  <2>1. AgreeInv'
    BY <1>1, <1>2, AcceptAgrees, PollAgrees, EntryAgrees, HandlersAgree, CloseAgrees, DrainAgrees
    DEF Server, Worker
  <2> QED BY <2>1 DEF AInv
<1>3. CASE Running /\ App /\ UNCHANGED max_connects_
  <2>1. process' # "stranger_closed" => AgreeInv'
    BY <1>1, <1>3, OpenAgrees, OptionsAgrees, UnresolvedAgrees, ConnectsAgrees, RefusedAgrees,
       SelectAgrees, NewConnectionAgrees, ConnectedAgrees DEF App
  <2> QED BY <2>1 DEF AInv
<1>4. CASE UNCHANGED vars
  <2>1. UNCHANGED <<state, desc, kq, ep, app, process>>
    BY <1>4 DEF vars, rvars, objects, polls
  <2> QED BY <2>1 DEF AInv, AgreeInv, Sound, SlotAgrees, Admitted, Connected, AAt, Entitled
<1> QED BY <1>2, <1>3, <1>4 DEF Next, Lost

(* The invariant that ties the two back ends to the connections admitted.  *)
THEOREM AgreementInvariance == Spec => []AInv
<1>1. OInit => AInv
  BY AInitially
<1>2. OInv /\ AInv /\ [Next]_vars => AInv'
  BY AStep
<1> QED BY <1>1, <1>2, OwnershipInvariance, PTL DEF Spec

(* BackendsStayEqual for every number of connections and descriptors: the  *)
(* kqueue and the epoll back end answer the same calls alike.              *)
THEOREM BackendsEqual == Spec => []BackendsStayEqual
<1>1. AInv => BackendsStayEqual
  <2> SUFFICES ASSUME AgreeInv PROVE BackendsAgree
    BY DEF AInv, BackendsStayEqual
  <2>1. ~ kq.fault /\ ~ ep.fault /\ \A f \in Fds : SlotAgrees(kq, ep, f)
    BY DEF AgreeInv, Sound
  <2>2. \A n \in kq.events : state[n.ptr] # "FREE" /\ desc[n.ptr] = n.fd
    BY DEF AgreeInv, Entitled
  <2> QED BY <2>1, <2>2 DEF BackendsAgree, SlotAgrees
<1> QED BY <1>1, AgreementInvariance, PTL

-----------------------------------------------------------------------------
(* What a peer gets back.  First about sequences of replies: s answers     *)
(* requests among the first n of q.                                        *)
Answer == [to : Nat, keep : BOOLEAN]
Tos(s) == {s[i].to : i \in DOMAIN s}

InOrder(s, n) ==
  \A i \in DOMAIN s : s[i].to <= n /\ \A j \in 1 .. i - 1 : s[i].to = 0 \/ s[j].to < s[i].to

BehindOther(s, q, n) ==
  \A i \in 1 .. n : i \notin Tos(s) =>
    \E j \in Tos(s) \ {0} : j < i /\ ~ q[j].get /\ (j + 1 .. i) \cap Tos(s) = {}

Less == {p \in Nat \X Nat : p[1] < p[2]}

(* A set of numbers has a least one.                                       *)
LEMMA Least ==
  ASSUME NEW T, T \subseteq Nat, T # {}
  PROVE  \E x \in T : \A y \in T : x <= y
<1>1. IsWellFoundedOn(Less, Nat)
  BY NatLessThanWellFounded DEF Less, OpToRel
<1>2. PICK x \in T : \A y \in T : <<y, x>> \notin Less
  BY <1>1, WFMin
<1>3. ASSUME NEW y \in T PROVE x <= y
  <2>1. y \in Nat /\ x \in Nat /\ <<y, x>> \notin Less
    BY <1>2
  <2>2. <<y, x>> \in Nat \X Nat /\ <<y, x>>[1] = y /\ <<y, x>>[2] = x
    BY <2>1
  <2>3. ~ (y < x)
    BY <2>1, <2>2 DEF Less
  <2> QED BY <2>1, <2>3
<1> QED BY <1>3

(* Replies behind replies.                                                 *)
Joined(s, r, t) ==
  /\ t \in Seq(Answer) /\ Len(t) = Len(s) + Len(r) /\ Len(s) \in Nat /\ Len(r) \in Nat
  /\ DOMAIN s = 1 .. Len(s) /\ DOMAIN t = 1 .. Len(s) + Len(r)
  /\ \A i \in 1 .. Len(s) : t[i] = s[i] /\ s[i].to \in Nat
  /\ \A i \in Len(s) + 1 .. Len(s) + Len(r) : t[i] = r[i - Len(s)] /\ i - Len(s) \in 1 .. Len(r)
  /\ Tos(t) = Tos(s) \cup Tos(r)

LEMMA Behind ==
  ASSUME NEW s \in Seq(Answer), NEW r \in Seq(Answer)
  PROVE  Joined(s, r, s \o r)
<1> DEFINE t == s \o r
<1>1. /\ t \in Seq(Answer) /\ Len(t) = Len(s) + Len(r)
      /\ \A i \in 1 .. Len(s) + Len(r) : t[i] = IF i <= Len(s) THEN s[i] ELSE r[i - Len(s)]
  BY ConcatProperties
<1> HIDE DEF t
<1>2. /\ Len(s) \in Nat /\ Len(r) \in Nat
      /\ DOMAIN s = 1 .. Len(s) /\ DOMAIN r = 1 .. Len(r) /\ DOMAIN t = 1 .. Len(s) + Len(r)
  BY <1>1, LenProperties
<1>3. ASSUME NEW i \in 1 .. Len(s) PROVE t[i] = s[i] /\ s[i].to \in Nat
  <2>1. s[i] \in Answer
    BY ElementOfSeq
  <2> QED BY <1>1, <1>2, <2>1 DEF Answer
<1>4. ASSUME NEW i \in Len(s) + 1 .. Len(s) + Len(r)
      PROVE  t[i] = r[i - Len(s)] /\ i - Len(s) \in 1 .. Len(r)
  BY <1>1, <1>2
<1>5. ASSUME NEW i \in DOMAIN t PROVE t[i].to \in Tos(s) \cup Tos(r)
  <2>1. CASE i \in 1 .. Len(s)
    BY <1>2, <1>3, <2>1 DEF Tos
  <2>2. CASE i \in Len(s) + 1 .. Len(s) + Len(r)
    BY <1>2, <1>4, <2>2 DEF Tos
  <2> QED BY <1>2, <2>1, <2>2
<1>6. ASSUME NEW i \in DOMAIN s PROVE s[i].to \in Tos(t)
  <2>1. i \in DOMAIN t /\ t[i] = s[i]
    BY <1>2, <1>3
  <2> QED BY <2>1 DEF Tos
<1>7. ASSUME NEW i \in DOMAIN r PROVE r[i].to \in Tos(t)
  <2>1. /\ Len(s) + i \in Len(s) + 1 .. Len(s) + Len(r) /\ Len(s) + i \in DOMAIN t
        /\ (Len(s) + i) - Len(s) = i
    BY <1>2
  <2>2. t[Len(s) + i] = r[i]
    BY <1>4, <2>1
  <2> QED BY <2>1, <2>2 DEF Tos
<1>8. Tos(t) = Tos(s) \cup Tos(r)
  <2>1. ASSUME NEW x \in Tos(t) PROVE x \in Tos(s) \cup Tos(r)
    <3>1. PICK i \in DOMAIN t : x = t[i].to
      BY DEF Tos
    <3> QED BY <1>5, <3>1
  <2>2. ASSUME NEW x \in Tos(s) PROVE x \in Tos(t)
    <3>1. PICK i \in DOMAIN s : x = s[i].to
      BY DEF Tos
    <3> QED BY <1>6, <3>1
  <2>3. ASSUME NEW x \in Tos(r) PROVE x \in Tos(t)
    <3>1. PICK i \in DOMAIN r : x = r[i].to
      BY DEF Tos
    <3> QED BY <1>7, <3>1
  <2> QED BY <2>1, <2>2, <2>3
<1>9. Joined(s, r, t)
  BY <1>1, <1>2, <1>3, <1>4, <1>8 DEF Joined
<1> QED BY <1>9 DEF t

(* A reply that answers no request may be put behind any others.           *)
LEMMA BadReplies ==
  ASSUME NEW s \in Seq(Answer), NEW n \in Nat, InOrder(s, n),
         NEW t, t = s \o <<BadRequest>>
  PROVE  t \in Seq(Answer) /\ InOrder(t, n) /\ Tos(t) = Tos(s) \cup {0}
<1> DEFINE b == <<BadRequest>>
<1>1. b \in Seq(Answer) /\ Len(b) = 1 /\ DOMAIN b = 1 .. 1 /\ b[1].to = 0
  BY DEF BadRequest, Answer
<1>2. Tos(b) = {0}
  BY <1>1 DEF Tos
<1> HIDE DEF b
<1>3. /\ t \in Seq(Answer) /\ Len(s) \in Nat /\ DOMAIN s = 1 .. Len(s) /\ DOMAIN t = 1 .. Len(s) + 1
      /\ \A i \in 1 .. Len(s) : t[i] = s[i] /\ s[i].to \in Nat
      /\ \A i \in Len(s) + 1 .. Len(s) + 1 : t[i] = b[i - Len(s)] /\ i - Len(s) \in 1 .. 1
      /\ Tos(t) = Tos(s) \cup Tos(b)
  <2>1. t = s \o b
    BY DEF b
  <2>2. Len(b) = 1 /\ b \in Seq(Answer)
    BY <1>1
  <2>3. Joined(s, b, t)
    BY <2>1, <2>2, Behind
  <2> QED BY <2>2, <2>3 DEF Joined
<1>4. ASSUME NEW i \in DOMAIN t
      PROVE  t[i].to <= n /\ \A j \in 1 .. i - 1 : t[i].to = 0 \/ t[j].to < t[i].to
  <2>1. CASE i \in 1 .. Len(s)
    <3>1. t[i] = s[i] /\ \A j \in 1 .. i - 1 : t[j] = s[j]
      BY <1>3, <2>1
    <3> QED BY <1>3, <2>1, <3>1 DEF InOrder
  <2>2. CASE i = Len(s) + 1
    <3>1. t[i].to = 0
      BY <1>1, <1>3, <2>2
    <3> QED BY <3>1
  <2> QED BY <1>3, <2>1, <2>2
<1> QED BY <1>2, <1>3, <1>4 DEF InOrder

(* The answers to the next m of the requests, when these are all that      *)
(* there are or the last of them ended the loop.                           *)
LEMMA NextAnswers ==
  ASSUME NEW s \in Seq(Answer), NEW q \in Seq(Requests), NEW n \in 0 .. Len(q),
         NEW m \in 0 .. Len(q) - n, n + m = Len(q) \/ (m > 0 /\ ~ q[n + m].get),
         NEW r \in Seq(Answer), Len(r) = m, \A k \in 1 .. m : r[k].to = n + k,
         InOrder(s, n), BehindOther(s, q, n)
  PROVE  InOrder(s \o r, Len(q)) /\ BehindOther(s \o r, q, Len(q))
<1> DEFINE t == s \o r
<1>1. Len(q) \in Nat /\ n \in Nat /\ m \in Nat /\ n <= Len(q)
  BY LenProperties
<1>2. DOMAIN r = 1 .. m
  BY LenProperties
<1>3. Tos(r) = n + 1 .. n + m
  <2>1. ASSUME NEW x \in Tos(r) PROVE x \in n + 1 .. n + m
    <3>1. PICK k \in DOMAIN r : x = r[k].to
      BY DEF Tos
    <3> QED BY <1>1, <1>2, <3>1
  <2>2. ASSUME NEW x \in n + 1 .. n + m PROVE x \in Tos(r)
    <3>1. x - n \in 1 .. m /\ n + (x - n) = x
      BY <1>1
    <3> QED BY <1>2, <3>1 DEF Tos
  <2> QED BY <2>1, <2>2
<1>0. Joined(s, r, t)
  BY Behind
<1> HIDE DEF t
<1>4. /\ t \in Seq(Answer) /\ Len(s) \in Nat /\ DOMAIN s = 1 .. Len(s) /\ DOMAIN t = 1 .. Len(s) + m
      /\ \A i \in 1 .. Len(s) : t[i] = s[i] /\ s[i].to \in Nat
      /\ \A i \in Len(s) + 1 .. Len(s) + m : t[i] = r[i - Len(s)] /\ i - Len(s) \in 1 .. m
      /\ Tos(t) = Tos(s) \cup (n + 1 .. n + m)
  BY <1>3, <1>0 DEF Joined
<1>5. ASSUME NEW i \in DOMAIN t
      PROVE  t[i].to <= Len(q) /\ \A j \in 1 .. i - 1 : t[i].to = 0 \/ t[j].to < t[i].to
  <2>1. CASE i \in 1 .. Len(s)
    <3>1. t[i] = s[i] /\ s[i].to \in Nat /\ \A j \in 1 .. i - 1 : t[j] = s[j]
      BY <1>4, <2>1
    <3>2. s[i].to <= n /\ \A j \in 1 .. i - 1 : s[i].to = 0 \/ s[j].to < s[i].to
      BY <1>4, <2>1 DEF InOrder
    <3>3. \A j \in 1 .. i - 1 : t[i].to = 0 \/ t[j].to < t[i].to
      BY <3>1, <3>2
    <3> QED BY <1>1, <3>1, <3>2, <3>3
  <2>2. CASE i \in Len(s) + 1 .. Len(s) + m
    <3>1. t[i].to = n + (i - Len(s)) /\ i - Len(s) \in 1 .. m
      BY <1>2, <1>4, <2>2
    <3>2. ASSUME NEW j \in 1 .. i - 1 PROVE t[j].to < t[i].to
      <4>1. CASE j \in 1 .. Len(s)
        <5>1. t[j].to \in Nat /\ t[j].to <= n
          BY <1>4, <4>1 DEF InOrder
        <5> QED BY <1>1, <3>1, <5>1
      <4>2. CASE j \in Len(s) + 1 .. Len(s) + m
        <5>1. t[j].to = n + (j - Len(s))
          BY <1>2, <1>4, <4>2
        <5> QED BY <1>1, <1>4, <2>2, <3>1, <5>1
      <4> QED BY <1>1, <1>4, <2>2, <4>1, <4>2
    <3>3. n + (i - Len(s)) <= Len(q)
      BY <1>1, <3>1
    <3> QED BY <3>1, <3>2, <3>3
  <2>3. i \in 1 .. Len(s) \/ i \in Len(s) + 1 .. Len(s) + m
    BY <1>1, <1>4
  <2> QED BY <2>1, <2>2, <2>3
<1>6. Tos(s) \subseteq 0 .. n
  <2>1. \A i \in DOMAIN s : s[i].to \in Nat /\ s[i].to <= n
    BY <1>4 DEF InOrder
  <2> QED BY <1>1, <2>1 DEF Tos
<1>7. BehindOther(t, q, Len(q))
  <2> SUFFICES ASSUME NEW i \in 1 .. Len(q), i \notin Tos(t)
               PROVE  \E j \in Tos(t) \ {0} : j < i /\ ~ q[j].get /\ (j + 1 .. i) \cap Tos(t) = {}
    BY DEF BehindOther
  <2>1. CASE i <= n
    <3>1. PICK j \in Tos(s) \ {0} : j < i /\ ~ q[j].get /\ (j + 1 .. i) \cap Tos(s) = {}
      BY <1>1, <1>4, <2>1 DEF BehindOther
    <3>2. (j + 1 .. i) \cap Tos(t) = {}
      BY <1>1, <1>4, <2>1, <3>1
    <3> QED BY <1>4, <3>1, <3>2
  <2>2. CASE i > n
    <3>1. i > n + m
      <4>1. i \notin n + 1 .. n + m
        BY <1>4
      <4> QED BY <1>1, <2>2, <4>1
    <3>2. m > 0 /\ ~ q[n + m].get
      BY <1>1, <3>1
    <3>3. n + m \in n + 1 .. n + m /\ n + m # 0
      BY <1>1, <3>2
    <3>4. n + m \in Tos(t) \ {0} /\ n + m < i
      BY <1>4, <3>1, <3>3
    <3>5. (n + m + 1 .. i) \cap Tos(t) = {}
      BY <1>1, <1>4, <1>6
    <3> QED BY <3>2, <3>4, <3>5
  <2>3. i <= n \/ i > n
    BY <1>1
  <2> QED BY <2>1, <2>2, <2>3
<1> QED BY <1>5, <1>7 DEF InOrder, t

-----------------------------------------------------------------------------
(* How many are answered at once.                                          *)
LEMMA AnswersShape ==
  ASSUME NEW c \in Conns, asked[c] \in Seq(Requests), taken[c] \in 0 .. Len(asked[c])
  PROVE  \E m \in 0 .. Len(asked[c]) - taken[c] :
           /\ taken[c] + m = Len(asked[c]) \/ (m > 0 /\ ~ asked[c][taken[c] + m].get)
           /\ Answers(c) = [k \in 1 .. m |-> [to |-> taken[c] + k, keep |-> is_persistent[c]]]
<1> DEFINE n == taken[c]
           l == Len(asked[c])
           T == {i \in n + 1 .. l : ~ asked[c][i].get}
<1>1. n \in Nat /\ l \in Nat /\ n <= l
  BY LenProperties
<1>2. PICK m \in 0 .. l - n :
        /\ n + m = l \/ (m > 0 /\ ~ asked[c][n + m].get)
        /\ \A i \in n + 1 .. n + m - 1 : asked[c][i].get
  <2>1. CASE T = {}
    <3>1. l - n \in 0 .. l - n /\ n + (l - n) = l
      BY <1>1
    <3>2. \A i \in n + 1 .. l : asked[c][i].get
      BY <2>1
    <3>3. \A i \in n + 1 .. n + (l - n) - 1 : asked[c][i].get
      BY <1>1, <3>2
    <3> HIDE DEF n, l, T
    <3> QED BY <3>1, <3>3
  <2>2. CASE T # {}
    <3>1. T \subseteq Nat
      BY <1>1
    <3>2. PICK x \in T : \A y \in T : x <= y
      <4> HIDE DEF T
      <4> QED BY <2>2, <3>1, Least
    <3>3. x - n \in 0 .. l - n /\ n + (x - n) = x /\ x - n > 0 /\ x \in n + 1 .. l
      BY <1>1, <3>2
    <3>4. \A i \in n + 1 .. x - 1 : asked[c][i].get
      BY <1>1, <3>2, <3>3
    <3>5. ~ asked[c][x].get
      BY <3>2
    <3>6. \A i \in n + 1 .. n + (x - n) - 1 : asked[c][i].get
      BY <3>3, <3>4
    <3>7. ~ asked[c][n + (x - n)].get
      BY <3>3, <3>5
    <3> HIDE DEF n, l, T
    <3> QED BY <3>3, <3>6, <3>7
  <2> QED BY <2>1, <2>2
<1>3. Answered(c) = n + 1 .. n + m
  <2>1. \A i \in n + 1 .. l : (\A j \in n + 1 .. i - 1 : asked[c][j].get) <=> i <= n + m
    BY <1>1, <1>2
  <2>2. Answered(c) = {i \in n + 1 .. l : i <= n + m}
    BY <2>1 DEF Answered
  <2> HIDE DEF n, l, T
  <2> QED BY <1>1, <1>2, <2>2
<1>4. Cardinality(Answered(c)) = m
  <2>1. n + 1 \in Int /\ n + m \in Int
    BY <1>1, <1>2
  <2>2. Cardinality(n + 1 .. n + m) = IF n + 1 > n + m THEN 0 ELSE (n + m) - (n + 1) + 1
    BY <2>1, FS_Interval
  <2> QED BY <1>1, <1>2, <1>3, <2>2
<1>5. Answers(c) = [k \in 1 .. m |-> [to |-> n + k, keep |-> is_persistent[c]]]
  BY <1>4 DEF Answers
<1> QED BY <1>2, <1>5

-----------------------------------------------------------------------------
(* The invariant: what a connection has been told so far, and that only a  *)
(* worker on its way to Close() has sent a reply that ends it.             *)
ReplyTypes ==
  /\ asked \in [Conns -> Seq(Requests)] /\ taken \in [Conns -> Nat]
  /\ is_persistent \in [Conns -> BOOLEAN]
  /\ outgoing \in [Conns -> Seq(Answer)] /\ got \in [Conns -> Seq(Answer)]
  /\ batch \in Seq(Answer)

PlaceInv ==
  /\ wpc \notin {"IN", "OUT", "send", "close"} => at = NULL
  /\ wpc \notin {"send", "close"} => batch = <<>>
  /\ wpc = "send" => batch # <<>>

LastInv ==
  \A c \in Conns : \A i \in 1 .. Len(got[c]) :
    got[c][i].keep \/ (i = Len(got[c]) /\ c = at /\ wpc = "close")

Told(c) ==
  /\ taken[c] <= Len(asked[c])
  /\ InOrder(Written(c), taken[c])
  /\ BehindOther(Written(c), asked[c], taken[c])

RInv == ReplyTypes /\ PlaceInv /\ LastInv /\ \A c \in Conns : Told(c)

LEMMA Parts ==
  ASSUME NEW g \in Seq(Answer), NEW b \in Seq(Answer), NEW o \in Seq(Answer)
  PROVE  /\ (g \o b) \o o \in Seq(Answer) /\ g \o o \in Seq(Answer)
         /\ (g \o <<>>) \o o = g \o o
         /\ (g \o b) \o o = g \o (b \o o)
<1>1. g \o b \in Seq(Answer) /\ g \o o \in Seq(Answer) /\ (g \o b) \o o \in Seq(Answer)
  BY ConcatProperties
<1>2. g \o <<>> = g
  BY ConcatEmptySeq
<1>3. (g \o b) \o o = g \o (b \o o)
  BY ConcatAssociative
<1> QED BY <1>1, <1>2, <1>3

LEMMA WrittenType ==
  ASSUME ReplyTypes, NEW c \in Conns
  PROVE  /\ Written(c) \in Seq(Answer)
         /\ batch = <<>> \/ c # at => Written(c) = got[c] \o outgoing[c]
<1>1. got[c] \in Seq(Answer) /\ outgoing[c] \in Seq(Answer) /\ batch \in Seq(Answer)
  BY DEF ReplyTypes
<1>2. CASE c = at
  <2>1. Written(c) = (got[c] \o batch) \o outgoing[c]
    BY <1>2 DEF Written
  <2>2. Written(c) \in Seq(Answer)
    BY <1>1, <2>1, Parts
  <2>3. (got[c] \o <<>>) \o outgoing[c] = got[c] \o outgoing[c]
    BY <1>1, Parts
  <2> QED BY <1>2, <2>1, <2>2, <2>3
<1>3. CASE c # at
  <2>1. Written(c) = (got[c] \o <<>>) \o outgoing[c]
    BY <1>3 DEF Written
  <2> QED BY <1>1, <2>1, Parts
<1> QED BY <1>2, <1>3

LEMMA SameTold ==
  ASSUME NEW c \in Conns, Told(c), Written(c)' = Written(c), asked'[c] = asked[c], taken'[c] = taken[c]
  PROVE  Told(c)'
BY DEF Told

(* Nothing is written: the worker may move, and leaves no batch behind.    *)
LEMMA NothingWritten ==
  ASSUME RInv, UNCHANGED <<asked, taken, is_persistent, outgoing, got, batch>>,
         at' = at \/ batch = <<>>, PlaceInv', LastInv'
  PROVE  RInv'
<1>1. ReplyTypes'
  BY DEF RInv, ReplyTypes
<1>2. ASSUME NEW c \in Conns PROVE Told(c)'
  <2>1. Written(c)' = Written(c)
    <3>1. CASE at' = at
      BY <3>1 DEF Written
    <3>2. CASE batch = <<>>
      BY <3>2 DEF Written
    <3> QED BY <3>1, <3>2
  <2> QED BY <2>1, SameTold DEF RInv
<1> QED BY <1>1, <1>2 DEF RInv

(* The object is destroyed, and the next one at its address starts anew.   *)
LEMMA TalkEnds ==
  ASSUME RInv, NEW c \in Conns, Freed(c), PlaceInv',
         (c = at /\ batch' = <<>> /\ at' = NULL) \/ (c # at /\ UNCHANGED <<at, wpc, batch>>)
  PROVE  RInv'
<1>1. /\ \A d \in Conns : d # c => /\ asked'[d] = asked[d] /\ taken'[d] = taken[d]
                                   /\ outgoing'[d] = outgoing[d] /\ got'[d] = got[d]
      /\ asked'[c] = <<>> /\ taken'[c] = 0 /\ outgoing'[c] = <<>> /\ got'[c] = <<>>
  BY DEF Freed, RInv, ReplyTypes
<1>2. ReplyTypes'
  <2>1. <<>> \in Seq(Answer) /\ <<>> \in Seq(Requests)
    BY EmptySeq
  <2> QED BY <2>1 DEF Freed, RInv, ReplyTypes
<1>3. LastInv'
  <2> SUFFICES ASSUME NEW d \in Conns, NEW i \in 1 .. Len(got'[d])
               PROVE  got'[d][i].keep \/ (i = Len(got'[d]) /\ d = at' /\ wpc' = "close")
    BY DEF LastInv
  <2>1. d # c
    BY <1>1
  <2>2. got'[d] = got[d] /\ (got[d][i].keep \/ (i = Len(got[d]) /\ d = at /\ wpc = "close"))
    BY <1>1, <2>1 DEF RInv, LastInv
  <2> QED BY <1>1, <2>1, <2>2
<1>4. ASSUME NEW d \in Conns, d # c PROVE Told(d)'
  <2>1. Written(d)' = Written(d)
    <3>1. CASE c = at
      BY <1>1, <1>4, <3>1, Fd DEF Written
    <3>2. CASE c # at
      BY <1>1, <1>4, <3>2 DEF Written
    <3> QED BY <3>1, <3>2
  <2> QED BY <1>1, <1>4, <2>1, SameTold DEF RInv
<1>5. Told(c)'
  <2>1. Written(c)' = <<>>
    <3>1. batch' = <<>> \/ c # at'
      BY Fd
    <3>2. Written(c)' = (<<>> \o <<>>) \o <<>>
      BY <1>1, <3>1 DEF Written
    <3> QED BY <3>2, EmptySeq, ConcatEmptySeq
  <2> QED BY <1>1, <2>1 DEF Told, InOrder, BehindOther
<1> QED BY <1>2, <1>3, <1>4, <1>5 DEF RInv

-----------------------------------------------------------------------------
(* Every action preserves it.                                              *)
LEMMA ReadReplies ==
  ASSUME Running, OInv, RInv, WEventRead
  PROVE  RInv'
<1>1. PICK c \in Conns : c = at
  BY DEF OInv, WorkerInv, WEventRead, WAt
<1>0. wpc = "IN" /\ batch = <<>> /\ batch' = batch /\ wpc' = "perform" /\ at' = NULL
  BY DEF WEventRead, WAt, Return, RInv, PlaceInv
<1>2. PICK news \in SeqOf(Requests, MaxRequests - Input), throws \in BOOLEAN :
        /\ asked' = [asked EXCEPT ![c] = @ \o news]
        /\ is_persistent' = [is_persistent EXCEPT ![c] = PersistenceAfter(c, news)]
        /\ SendMessages(c, IF throws /\ bad[c] THEN <<BadRequest>> ELSE <<>>)
  BY <1>1 DEF WEventRead
<1>3. UNCHANGED <<taken, got>>
  BY DEF WEventRead
<1>4. news \in Seq(Requests)
  BY DEF SeqOf
<1>5. PersistenceAfter(c, news) \in BOOLEAN
  <2>1. CASE news = <<>>
    BY <1>1, <2>1 DEF PersistenceAfter, RInv, ReplyTypes
  <2>2. CASE news # <<>>
    <3>1. news[Len(news)] \in Requests
      BY <1>4, <2>2, EmptySeq, ElementOfSeq
    <3> QED BY <2>2, <3>1, ReplyAssumption DEF PersistenceAfter, Last
  <2> QED BY <2>1, <2>2
<1>6. \E b \in {<<>>, <<BadRequest>>} : outgoing' = [outgoing EXCEPT ![c] = @ \o b]
  BY <1>2 DEF SendMessages
<1>7. PICK b \in {<<>>, <<BadRequest>>} : outgoing' = [outgoing EXCEPT ![c] = @ \o b]
  BY <1>6
<1>8. b \in Seq(Answer)
  <2>1. <<BadRequest>> \in Seq(Answer)
    BY DEF BadRequest, Answer
  <2>2. <<>> \in Seq(Answer)
    BY EmptySeq
  <2> QED BY <2>1, <2>2
<1>9. /\ asked[c] \in Seq(Requests) /\ outgoing[c] \in Seq(Answer) /\ got[c] \in Seq(Answer)
      /\ taken[c] \in Nat /\ Written(c) \in Seq(Answer)
  BY <1>1, <1>0, WrittenType DEF RInv, ReplyTypes
<1>10. /\ asked'[c] = asked[c] \o news /\ outgoing'[c] = outgoing[c] \o b
       /\ \A d \in Conns : d # c => asked'[d] = asked[d] /\ outgoing'[d] = outgoing[d]
  BY <1>1, <1>0, <1>2, <1>7 DEF RInv, ReplyTypes
<1>11. asked[c] \o news \in Seq(Requests) /\ outgoing[c] \o b \in Seq(Answer)
  BY <1>4, <1>8, <1>9, ConcatProperties
<1>12. ReplyTypes'
  BY <1>1, <1>0, <1>2, <1>3, <1>5, <1>7, <1>11 DEF RInv, ReplyTypes
<1>13. PlaceInv' /\ LastInv'
  BY <1>1, <1>0, <1>3, Fd DEF RInv, PlaceInv, LastInv
<1>14. ASSUME NEW d \in Conns, d # c PROVE Told(d)'
  <2>1. Written(d)' = Written(d)
    BY <1>1, <1>0, <1>3, <1>10, <1>14, Fd DEF Written
  <2> QED BY <1>3, <1>10, <1>14, <2>1, SameTold DEF RInv
<1>15. Told(c)'
  <2>1. Written(c)' = Written(c) \o b
    <3>1. Written(c) = got[c] \o outgoing[c]
      BY <1>1, <1>0, WrittenType DEF RInv
    <3>2. Written(c)' = got'[c] \o outgoing'[c]
      <4>1. Written(c)' = (got'[c] \o <<>>) \o outgoing'[c]
        BY <1>1, <1>0, Fd DEF Written
      <4> QED BY <1>12, <4>1, Parts DEF ReplyTypes
    <3>3. (got[c] \o outgoing[c]) \o b = got[c] \o (outgoing[c] \o b)
      <4>1. ASSUME NEW u \in Seq(Answer), NEW v \in Seq(Answer) PROVE (u \o v) \o b = u \o (v \o b)
        BY <1>8, ConcatAssociative
      <4> QED BY <1>9, <4>1
    <3> QED BY <1>3, <1>10, <3>1, <3>2, <3>3
  <2>2. /\ Len(asked[c]) \in Nat /\ Len(asked'[c]) \in Nat /\ Len(asked[c]) <= Len(asked'[c])
        /\ \A j \in 1 .. Len(asked[c]) : asked'[c][j] = asked[c][j]
    <3>1. /\ Len(asked[c] \o news) = Len(asked[c]) + Len(news)
          /\ \A j \in 1 .. Len(asked[c]) + Len(news) :
               (asked[c] \o news)[j] = IF j <= Len(asked[c]) THEN asked[c][j] ELSE news[j - Len(asked[c])]
      BY <1>4, <1>9, ConcatProperties
    <3>2. Len(asked[c]) \in Nat /\ Len(news) \in Nat
      BY <1>4, <1>9, LenProperties
    <3> QED BY <1>10, <3>1, <3>2
  <2>3. taken[c] <= Len(asked[c]) /\ InOrder(Written(c), taken[c]) /\ BehindOther(Written(c), asked[c], taken[c])
    BY DEF RInv, Told
  <2>4. Tos(Written(c)) \subseteq 0 .. taken[c]
    <3>1. DOMAIN Written(c) = 1 .. Len(Written(c)) /\ \A i \in 1 .. Len(Written(c)) : Written(c)[i] \in Answer
      BY <1>9, LenProperties, ElementOfSeq
    <3>2. \A i \in DOMAIN Written(c) : Written(c)[i].to \in Nat /\ Written(c)[i].to <= taken[c]
      BY <2>3, <3>1 DEF InOrder, Answer
    <3> QED BY <1>9, <3>2 DEF Tos
  <2>5. InOrder(Written(c) \o b, taken[c]) /\ Tos(Written(c) \o b) \in {Tos(Written(c)), Tos(Written(c)) \cup {0}}
    <3>1. CASE b = <<>>
      BY <1>9, <2>3, <3>1, ConcatEmptySeq
    <3>2. CASE b = <<BadRequest>>
      BY <1>9, <2>3, <3>2, BadReplies
    <3> QED BY <3>1, <3>2
  <2>6. BehindOther(Written(c) \o b, asked'[c], taken[c])
    <3> DEFINE t == Tos(Written(c) \o b)
    <3> SUFFICES ASSUME NEW i \in 1 .. taken[c], i \notin t
                 PROVE  \E j \in t \ {0} : j < i /\ ~ asked'[c][j].get /\ (j + 1 .. i) \cap t = {}
      BY DEF BehindOther
    <3>1. PICK j \in Tos(Written(c)) \ {0} :
            j < i /\ ~ asked[c][j].get /\ (j + 1 .. i) \cap Tos(Written(c)) = {}
      BY <2>3, <2>5 DEF BehindOther
    <3>2. j \in 1 .. taken[c] /\ j \in t /\ asked'[c][j] = asked[c][j]
      BY <1>9, <2>2, <2>3, <2>4, <2>5, <3>1
    <3>3. (j + 1 .. i) \cap t = {}
      BY <2>5, <3>1, <3>2
    <3> QED BY <3>1, <3>2, <3>3
  <2> QED BY <1>3, <1>9, <2>1, <2>2, <2>3, <2>5, <2>6 DEF Told
<1> QED BY <1>12, <1>13, <1>14, <1>15 DEF RInv

(* A handler that only moves the worker, and the calls on the poll object. *)
LEMMA QuietReplies ==
  ASSUME Running, OInv, RInv,
         WDoPoll \/ WNextEntry \/ WReadNothing \/ WReadFails \/ WSendFails \/ WDrained
  PROVE  RInv'
<1>1. /\ UNCHANGED <<asked, taken, is_persistent, outgoing, got, batch>>
      /\ wpc \in {"IN", "OUT", "send", "close"} => at \in Conns
  BY DEF WDoPoll, WNextEntry, WReadNothing, WReadFails, WSendFails, WDrained, objects, OInv, WorkerInv
<1>2. wpc # "close" /\ (at' = at \/ batch = <<>>)
  BY DEF WDoPoll, WNextEntry, WReadNothing, WReadFails, WSendFails, WDrained, WAt, Return, Goto,
         RInv, PlaceInv
<1>3. PlaceInv'
  <2>1. CASE WDoPoll \/ WDrained
    BY <1>1, <2>1 DEF WDoPoll, WDrained, WAt, RInv, PlaceInv
  <2>2. CASE WReadNothing \/ WReadFails \/ WSendFails
    BY <1>1, <2>2 DEF WReadNothing, WReadFails, WSendFails, WAt, Return, Goto, RInv, PlaceInv
  <2>3. CASE WNextEntry
    <3>1. batch = <<>> /\ at = NULL /\ batch' = batch
      BY <2>3 DEF WNextEntry, WAt, RInv, PlaceInv
    <3>2. CASE kq.events = {} /\ wpc' = "drain" /\ UNCHANGED <<kq, at>>
      BY <3>1, <3>2 DEF PlaceInv
    <3>3. CASE \E n \in kq.events : ~ Dispatched(n) /\ UNCHANGED <<wpc, at>>
      BY <2>3, <3>1, <3>3 DEF PlaceInv, RInv
    <3>4. CASE \E n \in kq.events : Dispatched(n) /\ at' = n.ptr /\ wpc' = n.filter
      <4>1. PICK n \in kq.events : wpc' = n.filter
        BY <3>4
      <4>2. n.filter \in {"IN", "OUT"}
        BY <4>1 DEF OInv, Types, K!PollType, K!Entry, K!Filters
      <4> QED BY <3>1, <4>1, <4>2 DEF PlaceInv
    <3> QED BY <2>3, <3>2, <3>3, <3>4 DEF WNextEntry
  <2> QED BY <2>1, <2>2, <2>3
<1>4. LastInv'
  BY <1>1, <1>2 DEF RInv, LastInv
<1> QED BY <1>1, <1>2, <1>3, <1>4, NothingWritten

(* The list is swapped into the local: what is written stays the same.     *)
LEMMA WriteReplies ==
  ASSUME Running, OInv, RInv, WEventWrite
  PROVE  RInv'
<1>1. PICK c \in Conns : c = at
  BY DEF OInv, WorkerInv, WEventWrite, WAt
<1>2. /\ wpc = "OUT" /\ batch = <<>> /\ UNCHANGED <<is_persistent, asked, taken, got>>
  BY DEF WEventWrite, WAt, RInv, PlaceInv
<1>3. CASE UNCHANGED <<outgoing, batch>> /\ Return
  <2>1. PlaceInv' /\ LastInv'
    BY <1>2, <1>3 DEF Return, RInv, PlaceInv, LastInv
  <2> QED BY <1>2, <1>3, <2>1, NothingWritten
<1>4. CASE /\ outgoing[c] # <<>> /\ batch' = outgoing[c]
           /\ outgoing' = [outgoing EXCEPT ![c] = <<>>] /\ Goto("send")
  <2>1. /\ outgoing[c] \in Seq(Answer) /\ got[c] \in Seq(Answer) /\ <<>> \in Seq(Answer)
        /\ outgoing'[c] = <<>> /\ \A d \in Conns : d # c => outgoing'[d] = outgoing[d]
    BY <1>4, EmptySeq DEF RInv, ReplyTypes
  <2>2. ReplyTypes'
    BY <1>2, <1>4, <2>1 DEF RInv, ReplyTypes
  <2>3. PlaceInv' /\ LastInv'
    BY <1>2, <1>4 DEF Goto, RInv, PlaceInv, LastInv
  <2>4. Written(c)' = Written(c)
    <3>1. Written(c)' = (got[c] \o outgoing[c]) \o <<>>
      BY <1>1, <1>2, <1>4, <2>1 DEF Written, Goto
    <3>2. Written(c) = (got[c] \o <<>>) \o outgoing[c]
      BY <1>1, <1>2 DEF Written
    <3>3. got[c] \o outgoing[c] \in Seq(Answer) /\ got[c] \o <<>> = got[c]
      BY <2>1, ConcatProperties, ConcatEmptySeq
    <3>4. (got[c] \o outgoing[c]) \o <<>> = got[c] \o outgoing[c]
      BY <3>3, ConcatEmptySeq
    <3> QED BY <3>1, <3>2, <3>3, <3>4
  <2>5. ASSUME NEW d \in Conns, d # c PROVE Written(d)' = Written(d)
    BY <1>1, <1>2, <1>4, <2>1, <2>5 DEF Written, Goto
  <2>6. \A d \in Conns : Told(d)'
    BY <1>2, <2>4, <2>5, SameTold DEF RInv
  <2> QED BY <2>2, <2>3, <2>6 DEF RInv
<1> QED BY <1>1, <1>3, <1>4 DEF WEventWrite

(* A reply goes from the local list to the peer.                           *)
LEMMA SendReplies ==
  ASSUME Running, OInv, RInv, WSend
  PROVE  RInv'
<1>1. PICK c \in Conns : c = at
  BY DEF OInv, WorkerInv, WSend, WAt
<1> DEFINE r == Head(batch)
<1>2. /\ wpc = "send" /\ batch # <<>> /\ UNCHANGED <<is_persistent, asked, taken, outgoing>>
      /\ got' = [got EXCEPT ![c] = Append(@, r)] /\ batch' = Tail(batch)
      /\ IF ~ r.keep THEN Goto("close")
         ELSE IF Tail(batch) = <<>> THEN Return ELSE Goto("send")
  BY <1>1 DEF WSend, WAt, Rest, RInv, PlaceInv
<1>3. /\ batch \in Seq(Answer) /\ got[c] \in Seq(Answer) /\ outgoing[c] \in Seq(Answer)
      /\ \A d \in Conns : d # c => got'[d] = got[d]
      /\ got'[c] = Append(got[c], r)
  BY <1>2 DEF RInv, ReplyTypes
<1>4. r \in Answer /\ Tail(batch) \in Seq(Answer)
  BY <1>2, <1>3, HeadTailProperties
<1>5. /\ Append(got[c], r) \in Seq(Answer) /\ Len(Append(got[c], r)) = Len(got[c]) + 1
      /\ Len(got[c]) \in Nat
      /\ \A i \in 1 .. Len(got[c]) + 1 :
           Append(got[c], r)[i] = IF i <= Len(got[c]) THEN got[c][i] ELSE r
  BY <1>3, <1>4, AppendProperties, LenProperties
<1>6. ReplyTypes'
  BY <1>2, <1>4, <1>5 DEF RInv, ReplyTypes
<1>7. PlaceInv'
  BY <1>2 DEF PlaceInv, Goto, Return
<1>8. LastInv'
  <2> SUFFICES ASSUME NEW d \in Conns, NEW i \in 1 .. Len(got'[d])
               PROVE  got'[d][i].keep \/ (i = Len(got'[d]) /\ d = at' /\ wpc' = "close")
    BY DEF LastInv
  <2>1. \A e \in Conns : \A j \in 1 .. Len(got[e]) : got[e][j].keep
    BY <1>2 DEF RInv, LastInv
  <2>2. CASE d # c
    BY <1>3, <2>1, <2>2
  <2>3. CASE d = c /\ i <= Len(got[c])
    <3>1. i \in 1 .. Len(got[c]) /\ got'[c][i] = got[c][i]
      BY <1>3, <1>5, <2>3
    <3> QED BY <2>1, <2>3, <3>1
  <2>4. CASE d = c /\ i = Len(got[c]) + 1
    <3>1. got'[c][i] = r /\ i = Len(got'[c])
      BY <1>3, <1>5, <2>4
    <3>2. r.keep \/ (at' = c /\ wpc' = "close")
      BY <1>1, <1>2 DEF Goto
    <3> QED BY <2>4, <3>1, <3>2
  <2> QED BY <1>3, <1>5, <2>2, <2>3, <2>4
<1>9. Written(c)' = Written(c)
  <2>1. Written(c)' = (Append(got[c], r) \o Tail(batch)) \o outgoing[c]
    <3>1. c = at' \/ batch' = <<>>
      BY <1>1, <1>2 DEF Goto, Return
    <3> QED BY <1>2, <1>3, <3>1 DEF Written
  <2>2. Written(c) = (got[c] \o batch) \o outgoing[c]
    BY <1>1 DEF Written
  <2>3. Append(got[c], r) \o Tail(batch) = got[c] \o batch
    <3>1. <<r>> \in Seq(Answer) /\ Append(got[c], r) = got[c] \o <<r>> /\ batch = <<r>> \o Tail(batch)
      <4>1. <<r>> \in Seq(Answer) /\ Len(<<r>>) = 1 /\ <<r>>[1] = r
        BY <1>4
      <4>2. Append(got[c], r) = got[c] \o <<r>>
        BY <1>3, <1>4, AppendIsConcat
      <4>3. /\ <<r>> \o Tail(batch) \in Seq(Answer) /\ Len(<<r>> \o Tail(batch)) = 1 + Len(Tail(batch))
            /\ \A i \in 1 .. 1 + Len(Tail(batch)) :
                 (<<r>> \o Tail(batch))[i] = IF i <= 1 THEN <<r>>[i] ELSE Tail(batch)[i - 1]
        BY <1>4, <4>1, ConcatProperties
      <4>4. /\ Len(Tail(batch)) = Len(batch) - 1 /\ Len(batch) \in Nat \ {0} /\ batch[1] = r
            /\ \A i \in 1 .. Len(Tail(batch)) : Tail(batch)[i] = batch[i + 1]
        BY <1>2, <1>3, HeadTailProperties, EmptySeq
      <4> HIDE DEF r
      <4>5. \A i \in 1 .. Len(batch) : (<<r>> \o Tail(batch))[i] = batch[i]
        BY <4>1, <4>3, <4>4
      <4>6. batch = <<r>> \o Tail(batch)
        BY <1>3, <4>3, <4>4, <4>5, SeqEqual
      <4> QED BY <4>1, <4>2, <4>6
    <3> HIDE DEF r
    <3>2. (got[c] \o <<r>>) \o Tail(batch) = got[c] \o (<<r>> \o Tail(batch))
      BY <1>3, <1>4, <3>1, ConcatAssociative
    <3> QED BY <3>1, <3>2
  <2> QED BY <2>1, <2>2, <2>3
<1>10. ASSUME NEW d \in Conns, d # c PROVE Written(d)' = Written(d)
  <2>1. at' \in {c, NULL}
    BY <1>1, <1>2 DEF Goto, Return
  <2> QED BY <1>1, <1>2, <1>3, <1>10, <2>1, Fd DEF Written
<1>11. \A d \in Conns : Told(d)'
  BY <1>2, <1>9, <1>10, SameTold DEF RInv
<1> QED BY <1>6, <1>7, <1>8, <1>11 DEF RInv

LEMMA CloseReplies ==
  ASSUME Running, OInv, RInv, WClose
  PROVE  RInv'
<1>1. PICK c \in Conns : c = at
  BY DEF OInv, WorkerInv, WClose, WAt
<1>2. Freed(c) /\ batch' = <<>> /\ wpc' = "perform" /\ at' = NULL
  BY <1>1 DEF WClose, Return
<1>3. PlaceInv'
  BY <1>2 DEF PlaceInv
<1> QED BY <1>1, <1>2, <1>3, TalkEnds

(* The requests of a connection are answered.                              *)
LEMMA ServeReplies ==
  ASSUME Running, OInv, RInv, WServe
  PROVE  RInv'
<1>1. PICK c \in Active : SendMessages(c, Answers(c)) /\ taken' = [taken EXCEPT ![c] = Len(asked[c])]
  BY DEF WServe
<1>2. /\ c \in Conns /\ wpc = "drain" /\ batch = <<>> /\ at = NULL
      /\ UNCHANGED <<is_persistent, asked, got, wpc, at, batch>>
  BY DEF WServe, WAt, Active, RInv, PlaceInv, worker
<1>3. /\ outgoing' = [outgoing EXCEPT ![c] = @ \o Answers(c)]
      /\ asked[c] \in Seq(Requests) /\ outgoing[c] \in Seq(Answer) /\ got[c] \in Seq(Answer)
      /\ taken[c] \in Nat /\ is_persistent[c] \in BOOLEAN
  BY <1>1, <1>2 DEF SendMessages, RInv, ReplyTypes
<1>4. Len(asked[c]) \in Nat /\ taken[c] \in 0 .. Len(asked[c]) /\ Told(c)
  <2>1. Len(asked[c]) \in Nat
    BY <1>3, LenProperties
  <2> QED BY <1>2, <1>3, <2>1 DEF RInv, Told
<1>5. PICK m \in 0 .. Len(asked[c]) - taken[c] :
        /\ taken[c] + m = Len(asked[c]) \/ (m > 0 /\ ~ asked[c][taken[c] + m].get)
        /\ Answers(c) = [k \in 1 .. m |-> [to |-> taken[c] + k, keep |-> is_persistent[c]]]
  BY <1>2, <1>3, <1>4, AnswersShape
<1>6. Answers(c) \in Seq(Answer)
  BY <1>3, <1>4, <1>5 DEF Answer
<1>7. /\ outgoing[c] \o Answers(c) \in Seq(Answer) /\ outgoing'[c] = outgoing[c] \o Answers(c)
      /\ taken'[c] = Len(asked[c])
      /\ \A d \in Conns : d # c => outgoing'[d] = outgoing[d] /\ taken'[d] = taken[d]
  BY <1>1, <1>2, <1>3, <1>6, ConcatProperties DEF RInv, ReplyTypes
<1>8. ReplyTypes'
  BY <1>1, <1>2, <1>3, <1>4, <1>7 DEF RInv, ReplyTypes
<1>9. PlaceInv' /\ LastInv'
  BY <1>2 DEF RInv, PlaceInv, LastInv
<1>10. ASSUME NEW d \in Conns, d # c PROVE Told(d)'
  <2>1. Written(d)' = Written(d)
    BY <1>2, <1>7, <1>10 DEF Written
  <2> QED BY <1>2, <1>7, <1>10, <2>1, SameTold DEF RInv
<1>11. Told(c)'
  <2>1. Written(c)' = Written(c) \o Answers(c)
    <3>1. Written(c) = (got[c] \o <<>>) \o outgoing[c] /\ Written(c)' = (got[c] \o <<>>) \o outgoing'[c]
      BY <1>2 DEF Written
    <3>2. (got[c] \o <<>>) \o outgoing[c] = got[c] \o outgoing[c]
      BY <1>3, Parts
    <3>3. (got[c] \o <<>>) \o outgoing'[c] = got[c] \o outgoing'[c]
      BY <1>3, <1>7, Parts
    <3>4. ASSUME NEW u \in Seq(Answer), NEW v \in Seq(Answer), NEW w \in Seq(Answer)
          PROVE  (u \o v) \o w = u \o (v \o w)
      BY ConcatAssociative
    <3>5. (got[c] \o outgoing[c]) \o Answers(c) = got[c] \o (outgoing[c] \o Answers(c))
      BY <1>3, <1>6, <3>4
    <3> QED BY <1>7, <3>1, <3>2, <3>3, <3>5
  <2>2. Written(c) \in Seq(Answer)
    BY <1>2, WrittenType DEF RInv
  <2>3. InOrder(Written(c)', Len(asked[c])) /\ BehindOther(Written(c)', asked[c], Len(asked[c]))
    <3>1. Len(Answers(c)) = m /\ \A k \in 1 .. m : Answers(c)[k].to = taken[c] + k
      BY <1>4, <1>5
    <3>2. InOrder(Written(c), taken[c]) /\ BehindOther(Written(c), asked[c], taken[c])
      BY <1>4 DEF Told
    <3>3. /\ InOrder(Written(c) \o Answers(c), Len(asked[c]))
          /\ BehindOther(Written(c) \o Answers(c), asked[c], Len(asked[c]))
      BY <1>3, <1>4, <1>5, <1>6, <2>2, <3>1, <3>2, NextAnswers
    <3> QED BY <2>1, <3>3
  <2> QED BY <1>2, <1>4, <1>7, <2>3 DEF Told
<1> QED BY <1>8, <1>9, <1>10, <1>11 DEF RInv

(* The other threads.                                                      *)
LEMMA OthersReplies ==
  ASSUME Running, OInv, RInv, LAccept \/ App
  PROVE  RInv'
<1>1. CASE /\ UNCHANGED <<is_persistent, asked, taken, outgoing, got, wpc, at, batch>>
  <2>1. PlaceInv' /\ LastInv'
    BY <1>1 DEF RInv, PlaceInv, LastInv
  <2> QED BY <1>1, <2>1, NothingWritten
<1>2. CASE ANewConnection /\ Freed(app.c)
  <2>1. /\ UNCHANGED <<wpc, at, batch>> /\ app.c \in Conns /\ state[app.c] = "INACTIVE"
    BY <1>2 DEF ANewConnection, AAt, worker, OInv, AppInv
  <2>2. app.c # at
    BY <2>1, Fd DEF OInv, WorkerInv, RInv, PlaceInv
  <2>3. PlaceInv'
    BY <2>1 DEF RInv, PlaceInv
  <2> QED BY <1>2, <2>1, <2>2, <2>3, TalkEnds
<1>3. \/ UNCHANGED <<is_persistent, asked, taken, outgoing, got, wpc, at, batch>>
      \/ ANewConnection /\ Freed(app.c)
  <2>1. CASE LAccept \/ AOpen \/ AOptions \/ AUnresolved \/ AConnects \/ ARefused \/ ASelect \/ AConnected
    BY <2>1 DEF LAccept, AOpen, AOptions, AUnresolved, AConnects, ARefused, ASelect, AConnected,
                rvars, objects, worker
  <2>2. CASE ANewConnection
    BY <2>2 DEF ANewConnection, objects, worker
  <2> QED BY <2>1, <2>2 DEF App
<1> QED BY <1>1, <1>2, <1>3

-----------------------------------------------------------------------------
LEMMA RInitially == OInit => RInv
<1> SUFFICES ASSUME OInit PROVE RInv
  OBVIOUS
<1>1. /\ asked = [c \in Conns |-> <<>>] /\ taken = [c \in Conns |-> 0]
      /\ outgoing = [c \in Conns |-> <<>>] /\ got = [c \in Conns |-> <<>>]
      /\ is_persistent = [c \in Conns |-> FALSE] /\ batch = <<>> /\ wpc = "poll" /\ at = NULL
  BY DEF OInit, Init
<1>2. <<>> \in Seq(Answer) /\ <<>> \in Seq(Requests)
  BY EmptySeq
<1>3. ReplyTypes /\ PlaceInv /\ LastInv
  BY <1>1, <1>2 DEF ReplyTypes, PlaceInv, LastInv
<1>4. ASSUME NEW c \in Conns PROVE Told(c)
  <2>1. Written(c) = (<<>> \o <<>>) \o <<>>
    BY <1>1 DEF Written
  <2>2. Written(c) = <<>>
    BY <1>2, <2>1, ConcatEmptySeq
  <2> QED BY <1>1, <2>2 DEF Told, InOrder, BehindOther
<1> QED BY <1>3, <1>4 DEF RInv

LEMMA RStep == OInv /\ RInv /\ [Next]_vars => RInv'
<1> SUFFICES ASSUME OInv, RInv, [Next]_vars PROVE RInv'
  OBVIOUS
<1>1. CASE Running /\ Server
  BY <1>1, OthersReplies, QuietReplies, ReadReplies, WriteReplies, SendReplies, CloseReplies,
     ServeReplies DEF Server, Worker
<1>2. CASE Running /\ App
  BY <1>2, OthersReplies
<1>3. CASE UNCHANGED vars
  <2>1. UNCHANGED <<is_persistent, asked, taken, outgoing, got, wpc, at, batch>>
    BY <1>3 DEF vars, rvars, objects, worker
  <2>2. PlaceInv' /\ LastInv'
    BY <2>1 DEF RInv, PlaceInv, LastInv
  <2> QED BY <2>1, <2>2, NothingWritten
<1> QED BY <1>1, <1>2, <1>3 DEF Next, Lost

(* The invariant of what each peer is told.                                *)
THEOREM ReplyInvariance == Spec => []RInv
<1>1. OInit => RInv
  BY RInitially
<1>2. OInv /\ RInv /\ [Next]_vars => RInv'
  BY RStep
<1> QED BY <1>1, <1>2, OwnershipInvariance, PTL DEF Spec

(* RepliesInOrder for any number of connections and requests, however the  *)
(* replies are spread over reads, batches and WriteStream calls.           *)
THEOREM AnswersInOrder == Spec => []RepliesInOrder
<1>1. RInv => RepliesInOrder
  <2> SUFFICES ASSUME RInv, NEW c \in Conns
               PROVE  /\ \A i \in DOMAIN ReplyTo(c) :
                           /\ ReplyTo(c)[i] <= taken[c]
                           /\ \A j \in 1 .. i - 1 : ReplyTo(c)[i] = 0 \/ ReplyTo(c)[j] < ReplyTo(c)[i]
                      /\ \A i \in 1 .. Len(got[c]) - 1 : got[c][i].keep
    BY DEF RepliesInOrder
  <2>1. InOrder(Written(c), taken[c]) /\ Written(c) \in Seq(Answer)
    BY WrittenType DEF RInv, Told
  <2>2. DOMAIN Written(c) = 1 .. Len(Written(c)) /\ Len(Written(c)) \in Nat
    BY <2>1, LenProperties
  <2>3. DOMAIN ReplyTo(c) = DOMAIN Written(c) /\ \A i \in DOMAIN Written(c) : ReplyTo(c)[i] = Written(c)[i].to
    BY DEF ReplyTo
  <2>4. ASSUME NEW i \in DOMAIN ReplyTo(c)
        PROVE  /\ ReplyTo(c)[i] <= taken[c]
               /\ \A j \in 1 .. i - 1 : ReplyTo(c)[i] = 0 \/ ReplyTo(c)[j] < ReplyTo(c)[i]
    <3>1. \A j \in 1 .. i - 1 : j \in DOMAIN Written(c)
      BY <2>2, <2>3
    <3> QED BY <2>1, <2>3, <3>1 DEF InOrder
  <2>5. got[c] \in Seq(Answer)
    BY DEF RInv, ReplyTypes
  <2>6. \A i \in 1 .. Len(got[c]) - 1 : got[c][i].keep
    <3>1. Len(got[c]) \in Nat
      BY <2>5, LenProperties
    <3> QED BY <3>1 DEF RInv, LastInv
  <2> QED BY <2>4, <2>6
<1> QED BY <1>1, ReplyInvariance, PTL

(* OnlyBehindOther likewise: whatever is taken is answered, but for what   *)
(* came behind a request of another method.                                *)
THEOREM DroppedBehindOther == Spec => []OnlyBehindOther
<1>1. RInv => OnlyBehindOther
  <2> SUFFICES ASSUME RInv, NEW c \in Conns, NEW i \in 1 .. taken[c], i \notin Range(ReplyTo(c))
               PROVE  \E j \in Range(ReplyTo(c)) \ {0} :
                        j < i /\ ~ asked[c][j].get /\ (j + 1 .. i) \cap Range(ReplyTo(c)) = {}
    BY DEF OnlyBehindOther
  <2>1. Range(ReplyTo(c)) = Tos(Written(c))
    BY DEF Range, ReplyTo, Tos
  <2>2. BehindOther(Written(c), asked[c], taken[c])
    BY DEF RInv, Told
  <2> QED BY <2>1, <2>2 DEF BehindOther
<1> QED BY <1>1, ReplyInvariance, PTL
=============================================================================
