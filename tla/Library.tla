------------------------------- MODULE Library -------------------------------
(***************************************************************************)
(* The parts of the library that stand alone, each in behaviours of its    *)
(* own: a string under every sequence of operations, the log appender, and *)
(* the functions that keep no state, where each initial state is an input. *)
(***************************************************************************)
EXTENDS Conversions, TextHelpers, Clock, Logger

CONSTANTS Bits,        \* the width of the integer types
          Bases,       \* bases to write numbers in
          Hours,       \* shifts of an hour, from -Hours to Hours
          Letters,     \* what texts to split, join and encode are made of
          Delimiters,  \* sets of bytes to split them at
          Cased,       \* what texts to copy and compare are made of
          Longest      \* of texts and formats, and the seconds of a time

(* Every base that IntToAlpha accepts is a value of every integer type.    *)
ASSUME BasesFit == 35 < Bit[Bits - 1]

(* The digits of a number fit the local array, which has a size; texts are *)
(* made of characters and times fit an unsigned long.                      *)
ASSUME LibraryAssumption ==
  /\ Bits \in Nat \ {0} /\ Bases \subseteq Int /\ Hours \in Nat
  /\ DigitsFit(Type(Bits, FALSE)) /\ DigitBuffer + 3 <= SizeMax
  /\ Letters \subseteq 1 .. 255 /\ Cased \subseteq 1 .. 255
  /\ Longest \in Nat /\ Longest < Word

(* Which part a behaviour is about, and its input.                         *)
VARIABLES part, input

libraryVars == <<vars, logVars, part, input>>

Words   == UNION {[1 .. n -> Letters] : n \in 0 .. Longest}
Copied  == UNION {[1 .. n -> Cased] : n \in 0 .. Longest}
Formats == UNION {[1 .. n -> DOMAIN Directives] : n \in 0 .. Longest}
Moments == [sec : 0 .. Longest, nsec : 0 .. second - 1]

NoString == str = NoBlock /\ text = << >> /\ stale = FALSE

LibraryInit ==
  \/ part = "string" /\ input = << >> /\ Init /\ LogInit
  \/ part = "log" /\ input = << >> /\ NoString /\ LogInit
  \/ /\ part = "number" /\ NoString /\ LogInit
     /\ \E T \in {Type(Bits, TRUE), Type(Bits, FALSE)} :
          \E v \in Values(T), base \in Bases, upper \in BOOLEAN :
            input = [value |-> v, base |-> base, upper |-> upper, type |-> T]
  \/ /\ part = "words" /\ NoString /\ LogInit
     /\ \E t \in Words, D \in Delimiters : input = [text |-> t, delimiters |-> D]
  \/ /\ part = "copy" /\ NoString /\ LogInit
     /\ \E a, b \in Copied, n \in 0 .. 2 * Longest + 1 : input = [dst |-> a, src |-> b, size |-> n]
  \/ part = "format" /\ NoString /\ LogInit /\ input \in Formats
  \/ /\ part = "time" /\ NoString /\ LogInit
     /\ \E t, u \in Moments : input = [from |-> t, to |-> u]
  \/ /\ part = "hour" /\ NoString /\ LogInit
     /\ \E h \in 0 .. 23, shift \in - Hours .. Hours : input = [hour |-> h, shift |-> shift]

StringStep == part = "string" /\ (Next \/ DoUrlDecode) /\ UNCHANGED <<logVars, part, input>>
LogStep    == part = "log" /\ LogNext /\ UNCHANGED <<vars, part, input>>
Rest       == (part \notin {"string", "log"} \/ logger = "destroyed") /\ UNCHANGED libraryVars

LibraryNext == StringStep \/ LogStep \/ Rest
LibrarySpec == LibraryInit /\ [][LibraryNext]_libraryVars

(* Times: marks subtract and add up exactly; the faulty borrow of          *)
(* operator- shows as two seconds; comparisons are those of numbers.       *)
TimeRight(t, u) ==
  /\ InNanos(Difference(t, u)) = InNanos(u) - InNanos(t)
  /\ HiResPlus(t, Difference(t, u)) = u
  /\ Advance(t, u.sec, u.nsec) = HiResPlus(t, u)
  /\ InNanos(HiResMinus(u, t)) - InNanos(Difference(t, u))
       = IF u.nsec < t.nsec THEN 2 * second ELSE 0
  /\ MakeTimespec(InNanos(t)) = t
  /\ FromMach(InNanos(t), 1, 1) = t
  /\ \A period \in 1 .. 3 :
       t.sec <= u.sec =>
         /\ NormalizeUnixTimeStamp(u.sec, period, t.sec) \in u.sec - period + 1 .. u.sec
         /\ (NormalizeUnixTimeStamp(u.sec, period, t.sec) - t.sec) % period = 0
  /\ TimeMore(t.sec, u.sec) <=> TimeLess(u.sec, t.sec)
  /\ TimeMoreOrEqual(t.sec, u.sec) <=> TimeLessOrEqual(u.sec, t.sec)

HourRight(h, shift) == h + shift >= 0 => GetHourShift(h, shift) = (h + shift) % 24

(* The functions without state agree with their reference definitions on   *)
(* every input of the instance.                                            *)
HelpersAgree ==
  /\ part = "number" => NumberRight(input.value, input.base, input.upper, input.type)
  /\ part = "words" =>
       /\ WordsRight(input.text, input.delimiters) /\ JoinRight(input.text, input.delimiters)
       /\ PairsRight(input.text, input.delimiters)
       /\ TrimRight(input.text) /\ EncodeRight(input.text)
  /\ part = "copy" =>
       CopyRight(input.dst, input.src, input.size) /\ CaseRight(input.dst, input.src)
  /\ part = "format" => FormatRight(input)
  /\ part = "time" => TimeRight(input.from, input.to)
  /\ part = "hour" => HourRight(input.hour, input.shift)
=============================================================================
