-------------------------------- MODULE Clock --------------------------------
(***************************************************************************)
(* The arithmetic of lib/clock: times as seconds and nanoseconds, calendar *)
(* parts of a duration, the start of a period.  Division in C++ rounds     *)
(* towards zero, so where an argument may be negative the quotient is      *)
(* written out.                                                            *)
(***************************************************************************)
EXTENDS Integers

CONSTANTS second,   \* nanoclock::second
          Word      \* 2 to the number of bits of an unsigned long

ASSUME ClockAssumption == second \in Nat \ {0} /\ Word \in Nat \ {0}

(* A timespec, the state of a HiResClock, either mark of a HiResTimer.     *)
Time(s, n)   == [sec |-> s, nsec |-> n]
Times        == [sec : Int, nsec : 0 .. second - 1]
InNanos(t)   == t.sec * second + t.nsec

DivC(a, b) == IF a >= 0 THEN a \div b ELSE - ((- a) \div b)
MakeTimespec(nsec) == Time(DivC(nsec, second), nsec - DivC(nsec, second) * second)

(* What Now() and Set_() make of the three sources of time.                *)
FromTimeval(tv_sec, tv_usec, micro) == Time(tv_sec, tv_usec * micro)
FromMach(now, numer, denom) ==
  LET nanos == (now * numer) \div denom
  IN  Time(nanos \div second, nanos - (nanos \div second) * second)

-----------------------------------------------------------------------------
(* HiResTimer: from the first mark to the second.                          *)
Difference(t0, t1) ==
  LET n == t1.nsec - t0.nsec
  IN  IF n < 0 THEN Time(t1.sec - t0.sec - 1, second + n) ELSE Time(t1.sec - t0.sec, n)

(* HiResClock: operator+ and operator- change their left operand.          *)
HiResPlus(t, src) ==
  Time(t.sec + src.sec + (t.nsec + src.nsec) \div second, (t.nsec + src.nsec) % second)

(* `sec_ -= src.sec_ - 1' when a second is borrowed.                       *)
HiResMinus(t, src) ==
  LET n == t.nsec - src.nsec
  IN  IF n < 0 THEN Time(t.sec - (src.sec - 1), second + n) ELSE Time(t.sec - src.sec, n)

AdvanceThrows(nsec) == nsec < 0
Advance(now, sec, nsec) ==
  Time(now.sec + sec + (now.nsec + nsec) \div second, (now.nsec + nsec) % second)
SleepThrows(nsec) == nsec >= second

-----------------------------------------------------------------------------
(* Days, hours, minutes and seconds, for ToHumanReadableString and         *)
(* GetHumanReadableDuration.                                               *)
Parts(duration) ==
  LET days    == duration \div 86400
      inDay   == duration - days * 86400
      hours   == inDay \div 3600
      inHour  == inDay - hours * 3600
      minutes == inHour \div 60
  IN  [days |-> days, hours |-> hours, minutes |-> minutes, seconds |-> inHour - minutes * 60]

(* The period is an unsigned long and makes the difference one.            *)
NormalizeUnixTimeStamp(value, period, tz) ==
  LET d == (value - tz) % Word IN (d - (d % period)) + tz

Abs(n) == IF n < 0 THEN - n ELSE n
(* The bit that GetHourShift sets for a shifted hour.                      *)
GetHourShift(tm_hour, offset) ==
  IF tm_hour + offset < 24 THEN tm_hour + offset ELSE Abs(24 - tm_hour - offset) % 24

(* The comparisons of Clock with its time_, and of broken-down times.      *)
TimeLess(time, x)    == time < x
TimeLessOrEqual(time, x) == time <= x
TimeMore(time, x)    == ~ TimeLessOrEqual(time, x)
TimeMoreOrEqual(time, x) == ~ TimeLess(time, x)
TmEqual(x, y) == /\ y.tm_sec = x.tm_sec /\ y.tm_min = x.tm_min
                 /\ y.tm_hour = x.tm_hour /\ y.tm_yday = x.tm_yday
HasDayChanged(tx, ty) == tx.tm_mday # ty.tm_mday
=============================================================================
