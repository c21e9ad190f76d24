-------------------------------- MODULE Logger --------------------------------
(***************************************************************************)
(* The log appenders of lib/logger, which write a line that is logged      *)
(* again and again only once.  The two classes have the same code; a log   *)
(* is the sequence of lines written.  log4cpp calls an appender under a    *)
(* lock, so that one call is one step.                                     *)
(***************************************************************************)
EXTENDS Integers, Sequences

CONSTANTS Messages, Empty,  \* texts of events, and the empty one
          Priorities,
          CountMax,         \* the largest uint32_t
          MaxSent           \* bound: events logged

ASSUME LoggerAssumption == Empty \in Messages /\ CountMax \in Nat \ {0} /\ MaxSent \in Nat

VARIABLES message_, priority_, count_,  \* the members
          log,                          \* the lines in the file
          sent,                         \* every event, for the properties
          logger                        \* "open" or "destroyed"

logVars == <<message_, priority_, count_, log, sent, logger>>

Event(m, p)  == [line |-> "event", text |-> m, priority |-> p]
Repeat(n, p) == [line |-> "repeat", times |-> n, priority |-> p]
Unset        == "indeterminate"

(* The constructors set count_ only; priority_ holds what was there.       *)
LogInit ==
  /\ message_ = Empty /\ priority_ = Unset /\ count_ = 0
  /\ log = << >> /\ sent = << >> /\ logger = "open"

(* Mutant: the old count is not reset.                                     *)
NewMessageKeepsCount(m, p) ==
  /\ log' = log \o (IF count_ # 0 THEN <<Repeat(count_, priority_)>> ELSE << >>)
                \o <<Event(m, p)>>
  /\ message_' = m /\ priority_' = p /\ UNCHANGED count_

NewMessage(m, p) ==
  /\ log' = log \o (IF count_ # 0 THEN <<Repeat(count_, priority_)>> ELSE << >>)
                \o <<Event(m, p)>>
  /\ message_' = m /\ priority_' = p /\ count_' = 0

SameMessage ==
  /\ count_' = (count_ + 1) % (CountMax + 1)
  /\ UNCHANGED <<log, message_, priority_>>

_append(m, p) ==
  /\ logger = "open" /\ Len(sent) < MaxSent
  /\ \/ message_ # m /\ NewMessage(m, p)
     \/ message_ = m /\ SameMessage
  /\ sent' = Append(sent, m)
  /\ UNCHANGED logger

(* The destructor writes nothing, also when repetitions were counted.      *)
Destroy ==
  /\ logger = "open" /\ logger' = "destroyed"
  /\ UNCHANGED <<message_, priority_, count_, log, sent>>

LogNext == Destroy \/ \E m \in Messages, p \in Priorities : _append(m, p)

LogSpec == LogInit /\ [][LogNext]_logVars

-----------------------------------------------------------------------------
(* What a reader makes of the lines: a repetition stands for so many       *)
(* copies of the event above it, or of the empty text.                     *)
Copies(m, n) == [i \in 1 .. n |-> m]
Meant(lines, i) ==
  IF lines[i].line = "event" THEN <<lines[i].text>>
  ELSE Copies(IF i = 1 THEN Empty ELSE lines[i - 1].text, lines[i].times)
UpTo(lines) ==
  LET read[i \in 0 .. Len(lines)] == IF i = 0 THEN << >> ELSE read[i - 1] \o Meant(lines, i)
  IN  read
Reading == UpTo(log)[Len(log)]

(* More repetitions than count_ can hold.                                  *)
Overrun ==
  LET history == <<Empty>> \o sent
  IN  \E i \in 1 .. Len(history) - CountMax - 1 :
        \A j \in i .. i + CountMax + 1 : history[j] = history[i]

(* The log tells what was logged, in order and in number, up to the        *)
(* repetitions that are still counted and are lost when the logger is      *)
(* destroyed then; unless count_ has wrapped.  A repetition comes with the *)
(* priority of the event above it, and with an indeterminate one only when *)
(* the very first event had no text.                                       *)
LogTells ==
  /\ \A i \in 1 .. Len(log) :
       log[i].line = "repeat" =>
         IF i = 1 THEN sent[1] = Empty /\ log[i].priority = Unset
         ELSE log[i - 1].line = "event" /\ log[i].priority = log[i - 1].priority
  /\ ~ Overrun => Reading \o Copies(message_, count_) = sent
=============================================================================
