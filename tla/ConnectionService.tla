-------------------------- MODULE ConnectionService --------------------------
(***************************************************************************)
(* What the library promises about connections, without poll objects,      *)
(* sets, threads and reference counts: a connection is accepted under a    *)
(* number that nobody else has, is refused or served by one server within  *)
(* its limit, is asked and answers while it is served and never after,     *)
(* gives its number back and only then goes.                               *)
(***************************************************************************)
EXTENDS Integers, FiniteSets

CONSTANTS Conns, Servers, Numbers, NoNumber,
          Limit,                \* connections a server serves at a time
          Batches               \* how many requests may come at a time

VARIABLES
  phase,   \* "none", "accepted", "served" or "leaving"
  number,  \* the descriptor number
  owner,   \* its server
  asked,   \* requests nobody has taken
  due,     \* replies not sent
  over     \* the process has ended

vars == <<phase, number, owner, asked, due, over>>

Init ==
  /\ phase = [c \in Conns |-> "none"]
  /\ number = [c \in Conns |-> NoNumber]
  /\ owner \in [Conns -> Servers]
  /\ asked = [c \in Conns |-> 0]
  /\ due = [c \in Conns |-> 0]
  /\ over = FALSE

Served(s) == {c \in Conns : phase[c] = "served" /\ owner[c] = s}

Move(c, from, to) ==
  /\ ~ over /\ phase[c] = from
  /\ phase' = [phase EXCEPT ![c] = to]

(* A number that cannot be set up is given back at once.                   *)
Accept(c, s, n) ==
  /\ Move(c, "none", "accepted")
  /\ n # NoNumber => \A d \in Conns : number[d] # n
  /\ number' = [number EXCEPT ![c] = n]
  /\ owner' = [owner EXCEPT ![c] = s]
  /\ UNCHANGED <<asked, due, over>>

Refuse(c) ==
  /\ Move(c, "accepted", "none")
  /\ number' = [number EXCEPT ![c] = NoNumber]
  /\ UNCHANGED <<owner, asked, due, over>>

Admit(c) ==
  /\ Move(c, "accepted", "served")
  /\ number[c] # NoNumber
  /\ Cardinality(Served(owner[c])) < Limit
  /\ UNCHANGED <<number, owner, asked, due, over>>

(* The peer asks n times; a reply to what is no request may be due.        *)
Ask(c, n, bad) ==
  /\ Move(c, "served", "served")
  /\ asked' = [asked EXCEPT ![c] = @ + n]
  /\ due' = [due EXCEPT ![c] = @ + bad]
  /\ UNCHANGED <<number, owner, over>>

(* The application takes all requests and answers k of them, once each.    *)
Answer(c, k) ==
  /\ Move(c, "served", "served")
  /\ k \in 1 .. asked[c]
  /\ due' = [due EXCEPT ![c] = @ + k]
  /\ asked' = [asked EXCEPT ![c] = 0]
  /\ UNCHANGED <<number, owner, over>>

Send(c) ==
  /\ Move(c, "served", "served")
  /\ due' = [due EXCEPT ![c] = 0]
  /\ UNCHANGED <<number, owner, asked, over>>

Leave(c) ==
  /\ Move(c, "served", "leaving")
  /\ asked' = [asked EXCEPT ![c] = 0]
  /\ due' = [due EXCEPT ![c] = 0]
  /\ UNCHANGED <<number, owner, over>>

GiveBack(c) ==
  /\ Move(c, "leaving", "leaving")
  /\ number' = [number EXCEPT ![c] = NoNumber]
  /\ UNCHANGED <<owner, asked, due, over>>

Go(c) ==
  /\ Move(c, "leaving", "none")
  /\ number[c] = NoNumber
  /\ UNCHANGED <<number, owner, asked, due, over>>

End ==
  /\ over' = TRUE
  /\ UNCHANGED <<phase, number, owner, asked, due>>

Next ==
  \/ \E c \in Conns :
       \/ \E s \in Servers, n \in Numbers \cup {NoNumber} : Accept(c, s, n)
       \/ Refuse(c) \/ Admit(c)
       \/ \E n \in Batches, bad \in {0, 1} : Ask(c, n, bad)
       \/ \E k \in 1 .. asked[c] : Answer(c, k)
       \/ Send(c) \/ Leave(c) \/ GiveBack(c) \/ Go(c)
  \/ End

Spec == Init /\ [][Next]_vars
=============================================================================
