---------------------------- MODULE LibraryProofs ----------------------------
(***************************************************************************)
(* The parts of the library that stand alone.  What the functions without  *)
(* state amount to for every input: the arithmetic on times, for any       *)
(* number of units in a second; the comparison and conversion of           *)
(* addresses, which containers and the connecting constructor rely on;     *)
(* formats, words, joined and encoded texts, and copies of C strings, for  *)
(* texts of any length.  And what a log tells of the events, whatever they *)
(* are, for any width of count_.                                           *)
(***************************************************************************)
EXTENDS Library, CStringProofs, FiniteSetTheorems

-----------------------------------------------------------------------------
(* Times.                                                                  *)

(* A sum of seconds and units can be taken apart.                          *)
LEMMA Distributes ==
  ASSUME NEW a \in Int, NEW b \in Int
  PROVE  /\ (a + b) * second = a * second + b * second
         /\ (a - b) * second = a * second - b * second
         /\ (a - b - 1) * second = a * second - b * second - second
         /\ (a - (b - 1)) * second = a * second - b * second + second
         /\ a * second \in Int
BY ClockAssumption

(* Quotient and remainder of what is less than two seconds.                *)
LEMMA CarryOfSum ==
  ASSUME NEW n \in Nat, n < 2 * second
  PROVE  \/ n < second /\ n \div second = 0 /\ n % second = n
         \/ n >= second /\ n \div second = 1 /\ n % second = n - second
<1>1. second \in Nat \ {0}
  BY ClockAssumption
<1>2. CASE n < second
  BY <1>1, <1>2
<1>3. CASE n >= second
  BY <1>1, <1>3
<1> QED BY <1>1, <1>2, <1>3

(* Difference (hirestimer.cpp): the time between the marks, to the         *)
(* nanosecond, with nanoseconds in range; also when the clock went back.   *)
THEOREM DifferenceIsElapsed ==
  ASSUME NEW t0 \in Times, NEW t1 \in Times
  PROVE  /\ Difference(t0, t1) \in Times
         /\ InNanos(Difference(t0, t1)) = InNanos(t1) - InNanos(t0)
<1> DEFINE n == t1.nsec - t0.nsec
<1>1. /\ second \in Nat \ {0} /\ t0.sec \in Int /\ t1.sec \in Int
      /\ t0.nsec \in 0 .. second - 1 /\ t1.nsec \in 0 .. second - 1
  BY ClockAssumption DEF Times
<1>2. CASE n < 0
  <2>1. Difference(t0, t1) = Time(t1.sec - t0.sec - 1, second + n)
    BY <1>2 DEF Difference
  <2>2. second + n \in 0 .. second - 1 /\ t1.sec - t0.sec - 1 \in Int
    BY <1>1, <1>2
  <2> QED BY <2>1, <2>2, <1>1, Distributes DEF Time, Times, InNanos
<1>3. CASE ~ (n < 0)
  <2>1. Difference(t0, t1) = Time(t1.sec - t0.sec, n)
    BY <1>3 DEF Difference
  <2>2. n \in 0 .. second - 1 /\ t1.sec - t0.sec \in Int
    BY <1>1, <1>3
  <2> QED BY <2>1, <2>2, <1>1, Distributes DEF Time, Times, InNanos
<1> QED BY <1>2, <1>3

(* operator+ (hiresclock.cpp) adds, and leaves the nanoseconds in range.   *)
THEOREM PlusAdds ==
  ASSUME NEW t \in Times, NEW src \in Times
  PROVE  /\ HiResPlus(t, src) \in Times
         /\ InNanos(HiResPlus(t, src)) = InNanos(t) + InNanos(src)
<1> DEFINE n == t.nsec + src.nsec
<1>1. /\ second \in Nat \ {0} /\ t.sec \in Int /\ src.sec \in Int
      /\ t.nsec \in 0 .. second - 1 /\ src.nsec \in 0 .. second - 1
  BY ClockAssumption DEF Times
<1>2. \/ n < second /\ n \div second = 0 /\ n % second = n
      \/ n >= second /\ n \div second = 1 /\ n % second = n - second
  BY <1>1, CarryOfSum
<1>3. HiResPlus(t, src) = Time(t.sec + src.sec + n \div second, n % second)
  BY DEF HiResPlus
<1>4. /\ (t.sec + src.sec) * second = t.sec * second + src.sec * second
      /\ (t.sec + src.sec + 1) * second = t.sec * second + src.sec * second + second
      /\ t.sec * second \in Int /\ src.sec * second \in Int
  BY <1>1
<1>5. CASE n < second /\ n \div second = 0 /\ n % second = n
  <2>1. HiResPlus(t, src) = Time(t.sec + src.sec, n)
    BY <1>1, <1>3, <1>5
  <2>2. t.sec + src.sec \in Int /\ n \in 0 .. second - 1
    BY <1>1, <1>5
  <2> QED BY <1>1, <1>4, <2>1, <2>2 DEF Time, Times, InNanos
<1>6. CASE n >= second /\ n \div second = 1 /\ n % second = n - second
  <2>1. HiResPlus(t, src) = Time(t.sec + src.sec + 1, n - second)
    BY <1>1, <1>3, <1>6
  <2>2. t.sec + src.sec + 1 \in Int /\ n - second \in 0 .. second - 1
    BY <1>1, <1>6
  <2> QED BY <1>1, <1>4, <2>1, <2>2 DEF Time, Times, InNanos
<1> QED BY <1>2, <1>5, <1>6

(* operator- (hiresclock.cpp) subtracts when no second is borrowed; when   *)
(* one is, the result is two seconds too late.                             *)
THEOREM MinusBorrowsWrong ==
  ASSUME NEW t \in Times, NEW src \in Times
  PROVE  /\ HiResMinus(t, src) \in Times
         /\ t.nsec >= src.nsec => InNanos(HiResMinus(t, src)) = InNanos(t) - InNanos(src)
         /\ t.nsec < src.nsec =>
              InNanos(HiResMinus(t, src)) = InNanos(t) - InNanos(src) + 2 * second
<1> DEFINE n == t.nsec - src.nsec
<1>1. /\ second \in Nat \ {0} /\ t.sec \in Int /\ src.sec \in Int
      /\ t.nsec \in 0 .. second - 1 /\ src.nsec \in 0 .. second - 1
  BY ClockAssumption DEF Times
<1>2. CASE n < 0
  <2>1. HiResMinus(t, src) = Time(t.sec - (src.sec - 1), second + n)
    BY <1>2 DEF HiResMinus
  <2>2. second + n \in 0 .. second - 1 /\ t.sec - (src.sec - 1) \in Int
    BY <1>1, <1>2
  <2> QED BY <2>1, <2>2, <1>1, <1>2, Distributes DEF Time, Times, InNanos
<1>3. CASE ~ (n < 0)
  <2>1. HiResMinus(t, src) = Time(t.sec - src.sec, n)
    BY <1>3 DEF HiResMinus
  <2>2. n \in 0 .. second - 1 /\ t.sec - src.sec \in Int
    BY <1>1, <1>3
  <2> QED BY <2>1, <2>2, <1>1, <1>3, Distributes DEF Time, Times, InNanos
<1> QED BY <1>2, <1>3

(* A duration is taken apart without loss and every part is in its range   *)
(* (hirestimer.cpp, clock.cpp).                                            *)
THEOREM PartsRebuild ==
  ASSUME NEW d \in Nat
  PROVE  LET p == Parts(d)
         IN  /\ 86400 * p.days + 3600 * p.hours + 60 * p.minutes + p.seconds = d
             /\ p.days \in Nat /\ p.hours \in 0 .. 23
             /\ p.minutes \in 0 .. 59 /\ p.seconds \in 0 .. 59
BY DEF Parts

(* The start of the period a time is in (clock.cpp), when the time is not  *)
(* before the zone's zero: there the unsigned difference would wrap.       *)
THEOREM NormalizedIsStart ==
  ASSUME NEW value \in Int, NEW tz \in Int, NEW period \in Nat \ {0},
         tz <= value, value - tz < Word
  PROVE  LET start == NormalizeUnixTimeStamp(value, period, tz)
         IN  /\ start <= value /\ value < start + period
             /\ start = value - ((value - tz) % period)
<1> DEFINE d == value - tz
<1>1. d \in Nat /\ d < Word /\ Word \in Nat \ {0}
  BY ClockAssumption
<1>2. d % Word = d
  BY <1>1
<1>3. d % period \in 0 .. period - 1
  BY <1>1
<1>4. NormalizeUnixTimeStamp(value, period, tz) = (d - (d % period)) + tz
  BY <1>2 DEF NormalizeUnixTimeStamp
<1> HIDE DEF d
<1>5. d = value - tz
  BY DEF d
<1> QED BY <1>3, <1>4, <1>5, <1>1 DEF d

(* GetHourShift sets the bit of the shifted hour of the day, whatever the  *)
(* shift, unless that leads before midnight.                               *)
THEOREM HourBit ==
  ASSUME NEW tm_hour \in 0 .. 23, NEW offset \in Int, tm_hour + offset >= 0
  PROVE  /\ GetHourShift(tm_hour, offset) = (tm_hour + offset) % 24
         /\ GetHourShift(tm_hour, offset) \in 0 .. 23
BY DEF GetHourShift, Abs

(* MakeTimespec splits nanoseconds that are not negative.                  *)
THEOREM TimespecSplits ==
  ASSUME NEW n \in Nat
  PROVE  MakeTimespec(n) \in Times /\ InNanos(MakeTimespec(n)) = n
<1> DEFINE q == n \div second
<1>1. second \in Nat \ {0} /\ q \in Nat
  BY ClockAssumption
<1>2. q * second <= n /\ n < q * second + second /\ q * second \in Nat
  BY <1>1
<1>3. MakeTimespec(n) = Time(q, n - q * second)
  BY <1>1 DEF MakeTimespec, DivC
<1> HIDE DEF q
<1> QED BY <1>1, <1>2, <1>3 DEF Time, Times, InNanos

(* Times with as many nanoseconds are equal.                               *)
LEMMA SameNanos ==
  ASSUME NEW a \in Times, NEW b \in Times, InNanos(a) = InNanos(b)
  PROVE  a = b
<1>1. /\ second \in Nat \ {0} /\ a.sec \in Int /\ b.sec \in Int
      /\ a.nsec \in 0 .. second - 1 /\ b.nsec \in 0 .. second - 1
      /\ a = [sec |-> a.sec, nsec |-> a.nsec] /\ b = [sec |-> b.sec, nsec |-> b.nsec]
  BY ClockAssumption DEF Times
<1>2. a.sec * second + a.nsec = b.sec * second + b.nsec
  BY DEF InNanos
<1>3. ASSUME NEW x \in Int, NEW y \in Int, x < y PROVE x * second + second <= y * second
  <2> DEFINE d == y - x - 1
  <2>1. d \in Nat /\ y = x + 1 + d
    BY <1>3
  <2>2. (x + 1 + d) * second = x * second + second + d * second /\ d * second >= 0
    BY <1>1, <2>1
  <2> QED BY <1>1, <2>1, <2>2
<1>4. a.sec * second \in Int /\ b.sec * second \in Int
  BY <1>1
<1>5. ~ a.sec < b.sec
  BY <1>1, <1>2, <1>3, <1>4
<1>6. ~ b.sec < a.sec
  BY <1>1, <1>2, <1>3, <1>4
<1>7. a.sec = b.sec /\ a.nsec = b.nsec
  BY <1>1, <1>2, <1>4, <1>5, <1>6
<1> QED BY <1>1, <1>7

(* The arithmetic on times is right for any times since the epoch that an  *)
(* unsigned long can hold.                                                 *)
THEOREM TimesRight ==
  ASSUME NEW t \in Times, NEW u \in Times, t.sec >= 0, u.sec >= 0, u.sec < Word
  PROVE  TimeRight(t, u)
<1> DEFINE d == Difference(t, u)
<1>1. /\ second \in Nat \ {0} /\ t.sec \in Nat /\ u.sec \in Nat
      /\ t.nsec \in 0 .. second - 1 /\ u.nsec \in 0 .. second - 1
  BY ClockAssumption DEF Times
<1>2. d \in Times /\ InNanos(d) = InNanos(u) - InNanos(t)
  BY DifferenceIsElapsed
<1>3. InNanos(t) \in Nat /\ InNanos(u) \in Nat
  <2>1. t.sec * second \in Nat /\ u.sec * second \in Nat
    BY <1>1
  <2> QED BY <1>1, <2>1 DEF InNanos
<1>4. HiResPlus(t, d) = u
  <2> HIDE DEF d
  <2>1. HiResPlus(t, d) \in Times /\ InNanos(HiResPlus(t, d)) = InNanos(t) + InNanos(d)
    BY <1>2, PlusAdds
  <2>2. InNanos(HiResPlus(t, d)) = InNanos(u)
    BY <1>2, <1>3, <2>1
  <2> QED BY <2>1, <2>2, SameNanos
<1>5. Advance(t, u.sec, u.nsec) = HiResPlus(t, u)
  BY DEF Advance, HiResPlus
<1>6. InNanos(HiResMinus(u, t)) - InNanos(d) = IF u.nsec < t.nsec THEN 2 * second ELSE 0
  <2> HIDE DEF d
  <2>1. /\ u.nsec >= t.nsec => InNanos(HiResMinus(u, t)) = InNanos(u) - InNanos(t)
        /\ u.nsec < t.nsec => InNanos(HiResMinus(u, t)) = InNanos(u) - InNanos(t) + 2 * second
    BY MinusBorrowsWrong
  <2> QED BY <1>1, <1>2, <1>3, <2>1
<1>7. MakeTimespec(InNanos(t)) = t
  <2>1. MakeTimespec(InNanos(t)) \in Times /\ InNanos(MakeTimespec(InNanos(t))) = InNanos(t)
    BY <1>3, TimespecSplits
  <2> QED BY <2>1, SameNanos
<1>8. FromMach(InNanos(t), 1, 1) = t
  <2> DEFINE n == InNanos(t)
  <2> HIDE DEF n
  <2>1. n \in Nat
    BY <1>3 DEF n
  <2>2. FromMach(n, 1, 1) = MakeTimespec(n)
    BY <2>1 DEF FromMach, MakeTimespec, DivC
  <2> QED BY <1>7, <2>2 DEF n
<1>9. ASSUME NEW period \in 1 .. 3, t.sec <= u.sec
      PROVE  /\ NormalizeUnixTimeStamp(u.sec, period, t.sec) \in u.sec - period + 1 .. u.sec
             /\ (NormalizeUnixTimeStamp(u.sec, period, t.sec) - t.sec) % period = 0
  <2> DEFINE w == NormalizeUnixTimeStamp(u.sec, period, t.sec)
             x == u.sec - t.sec
  <2>1. period \in Nat \ {0} /\ x \in Nat /\ x < Word
    BY <1>1, <1>9, ClockAssumption
  <2>2. w <= u.sec /\ u.sec < w + period /\ w = u.sec - (x % period)
    <3>1. u.sec \in Int /\ t.sec \in Int /\ period \in Nat \ {0} /\ t.sec <= u.sec /\ u.sec - t.sec < Word
      BY <1>1, <1>9, <2>1
    <3> QED BY <3>1, NormalizedIsStart
  <2> HIDE DEF w
  <2>3. x % period \in 0 .. period - 1 /\ x = period * (x \div period) + (x % period) /\ x \div period \in Nat
    <3> HIDE DEF x
    <3> QED BY <2>1
  <2>4. w - t.sec = period * (x \div period)
    <3>1. w \in Int
      BY <1>1, <2>2, <2>3
    <3> QED BY <1>1, <2>2, <2>3
  <2>5. (w - t.sec) % period = 0
    <3> DEFINE y == x \div period
    <3> HIDE DEF y
    <3>1. y \in Nat /\ w - t.sec = period * y
      BY <2>3, <2>4 DEF y
    <3>2. (period * y) % period = 0
      <4>1. CASE period = 1
        BY <3>1, <4>1
      <4>2. CASE period = 2
        BY <3>1, <4>2
      <4>3. CASE period = 3
        BY <3>1, <4>3
      <4> QED BY <4>1, <4>2, <4>3
    <3> QED BY <3>1, <3>2
  <2>6. w \in u.sec - period + 1 .. u.sec
    <3> DEFINE y == x % period
    <3>1. y \in 0 .. period - 1 /\ w = u.sec - y
      BY <2>2, <2>3
    <3> HIDE DEF y
    <3> QED BY <1>1, <2>1, <3>1
  <2> QED BY <2>5, <2>6 DEF w
<1>10. (TimeMore(t.sec, u.sec) <=> TimeLess(u.sec, t.sec))
       /\ (TimeMoreOrEqual(t.sec, u.sec) <=> TimeLessOrEqual(u.sec, t.sec))
  BY <1>1 DEF TimeMore, TimeLess, TimeMoreOrEqual, TimeLessOrEqual
<1> HIDE DEF d
<1>11. InNanos(Difference(t, u)) = InNanos(u) - InNanos(t)
  BY DifferenceIsElapsed
<1> QED BY <1>4, <1>5, <1>6, <1>7, <1>8, <1>9, <1>10, <1>11, Zenon DEF TimeRight, d

(* GetHourShift shifts the hour of the day.                                *)
THEOREM HoursRight ==
  ASSUME NEW h \in 0 .. 23, NEW shift \in Int
  PROVE  HourRight(h, shift)
BY HourBit DEF HourRight

-----------------------------------------------------------------------------
(* Addresses.                                                              *)
Addr == INSTANCE SocketAddress

(* The fields of an address are numbers.                                   *)
LEMMA Fields ==
  ASSUME NEW a \in Addr!Address
  PROVE  a.hostname_ \in Nat /\ a.ip_ \in Nat /\ a.ip_ \in Addr!Ips /\ a.port_ \in Nat /\ a.port_ \in Addr!Ports
<1>1. a.hostname_ \in Nat /\ a.ip_ \in Addr!Ips /\ a.port_ \in Addr!Ports
  BY DEF Addr!Address
<1>2. Addr!Ips \subseteq Nat
  BY DEF Addr!Ips
<1>3. Addr!Ports \subseteq Nat
  BY DEF Addr!Ports
<1> QED BY <1>1, <1>2, <1>3

(* operator== is an equivalence although it looks at the name only when    *)
(* there is no address.                                                    *)
THEOREM EqualIsEquivalence ==
  ASSUME NEW a \in Addr!Address, NEW b \in Addr!Address, NEW c \in Addr!Address
  PROVE  /\ Addr!Equal(a, a)
         /\ Addr!Equal(a, b) => Addr!Equal(b, a)
         /\ Addr!Equal(a, b) /\ Addr!Equal(b, c) => Addr!Equal(a, c)
BY DEF Addr!Equal, Addr!EqualIPs, Addr!EqualPorts

(* operator< is a strict weak order, so std::set and std::map work.        *)
THEOREM LessIsStrict ==
  ASSUME NEW a \in Addr!Address, NEW b \in Addr!Address, NEW c \in Addr!Address
  PROVE  /\ ~ Addr!Less(a, a)
         /\ Addr!Less(a, b) => ~ Addr!Less(b, a)
         /\ Addr!Less(a, b) /\ Addr!Less(b, c) => Addr!Less(a, c)
<1>1. /\ a.hostname_ \in Nat /\ b.hostname_ \in Nat /\ c.hostname_ \in Nat
      /\ a.ip_ \in Nat /\ b.ip_ \in Nat /\ c.ip_ \in Nat
      /\ a.port_ \in Nat /\ b.port_ \in Nat /\ c.port_ \in Nat
  BY Fields
<1>2. ~ Addr!Less(a, a)
  BY <1>1 DEF Addr!Less
<1>3. Addr!Less(a, b) => ~ Addr!Less(b, a)
  BY <1>1 DEF Addr!Less
<1>4. Addr!Less(a, b) /\ Addr!Less(b, c) => Addr!Less(a, c)
  BY <1>1 DEF Addr!Less
<1> QED BY <1>2, <1>3, <1>4

(* Two addresses are equivalent in the order exactly when operator== says  *)
(* they are equal: a set holds no two equal addresses and loses none.      *)
THEOREM OrderMatchesEqual ==
  ASSUME NEW a \in Addr!Address, NEW b \in Addr!Address
  PROVE  Addr!Equal(a, b) <=> ~ Addr!Less(a, b) /\ ~ Addr!Less(b, a)
<1>1. /\ a.hostname_ \in Nat /\ b.hostname_ \in Nat
      /\ a.ip_ \in Nat /\ b.ip_ \in Nat /\ a.port_ \in Nat /\ b.port_ \in Nat
  BY Fields
<1> QED BY <1>1 DEF Addr!Equal, Addr!EqualIPs, Addr!EqualPorts, Addr!Less

(* Equal addresses have equal hashes.                                      *)
THEOREM EqualHashEqual ==
  ASSUME NEW a \in Addr!Address, NEW b \in Addr!Address, Addr!Equal(a, b)
  PROVE  Addr!HashedOf(a) = Addr!HashedOf(b)
BY DEF Addr!Equal, Addr!EqualIPs, Addr!EqualPorts, Addr!HashedOf

(* Through a sockaddr_in and back an address stays equal to itself, unless *)
(* it is a name that was never resolved: that one comes back as "any".     *)
THEOREM SockAddrRoundTrip ==
  ASSUME NEW a \in Addr!Address, NEW b \in Addr!Address
  PROVE  /\ Addr!FromSockAddr(b, Addr!ToSockAddr(a)) \in Addr!Address
         /\ Addr!Equal(Addr!FromSockAddr(b, Addr!ToSockAddr(a)), a) <=> ~ Addr!IsUnresolved(a)
<1> DEFINE r == Addr!FromSockAddr(b, Addr!ToSockAddr(a))
<1>1. a.ip_ \in Addr!Ips /\ a.port_ \in Addr!Ports /\ a.hostname_ \in Nat /\ 0 \in Nat
  BY Fields
<1>2. Addr!ToSockAddr(a).sin_addr = a.ip_ /\ Addr!ToSockAddr(a).sin_port = a.port_
  BY <1>1 DEF Addr!ToSockAddr, Addr!INADDR_ANY
<1>3. Addr!SetIP(b, a.ip_) \in Addr!Address /\ Addr!SetIP(b, a.ip_).hostname_ = 0 /\ Addr!SetIP(b, a.ip_).ip_ = a.ip_
  BY <1>1 DEF Addr!SetIP, Addr!Address
<1>4. /\ r = [Addr!SetIP(b, a.ip_) EXCEPT !.port_ = a.port_]
      /\ r \in Addr!Address /\ r.hostname_ = 0 /\ r.ip_ = a.ip_ /\ r.port_ = a.port_
  BY <1>1, <1>2, <1>3 DEF Addr!FromSockAddr, Addr!SetPort, Addr!Address
<1>5. Addr!Equal(r, a) <=> ~ Addr!IsUnresolved(a)
  BY <1>1, <1>4 DEF Addr!Equal, Addr!EqualIPs, Addr!EqualPorts, Addr!IsUnresolved, Addr!IsAny
<1> QED BY <1>4, <1>5

(* Connect() either throws or hands connect() the address of the name: a   *)
(* name that was not resolved never ends up as a connection to "any".      *)
THEOREM ConnectsToResolved ==
  ASSUME NEW a \in Addr!Address, NEW ip \in Addr!Ips, a.hostname_ # 0, ~ Addr!ConnectThrows(a, ip)
  PROVE  Addr!ConnectsTo(a, ip).sin_addr # Addr!INADDR_ANY
<1>1. CASE Addr!IsUnresolved(a)
  <2>1. ip # 0 /\ Addr!Resolve(a, ip, FALSE) = [a EXCEPT !.ip_ = ip]
    BY <1>1 DEF Addr!ConnectThrows, Addr!Resolves, Addr!Resolve, Addr!IsUnresolved, Addr!IsAny
  <2>2. Addr!Resolve(a, ip, FALSE).ip_ = ip
    BY <2>1 DEF Addr!Address
  <2> QED BY <1>1, <2>1, <2>2 DEF Addr!ConnectsTo, Addr!ToSockAddr, Addr!INADDR_ANY
<1>2. CASE ~ Addr!IsUnresolved(a)
  BY <1>2 DEF Addr!ConnectsTo, Addr!ToSockAddr, Addr!INADDR_ANY, Addr!IsUnresolved, Addr!IsAny
<1> QED BY <1>1, <1>2

(* A local address is a private one.                                       *)
THEOREM LocalIsPrivate ==
  ASSUME NEW a \in Addr!Address, Addr!IsLocalIP(a)
  PROVE  Addr!IsPrivateIP(a)
BY DEF Addr!IsLocalIP, Addr!IsPrivateIP

-----------------------------------------------------------------------------
(* Texts one after the other.                                              *)

(* The first i texts of ts in a row are f[i].                              *)
Flattens(ts, f) == \A i \in 1 .. Len(ts) : f[i] = IF i = 1 THEN ts[i] ELSE f[i - 1] \o ts[i]

(* Flattening has an equation: what comes first, and each text behind it.  *)
LEMMA FlattenIs ==
  ASSUME NEW S, NEW ts \in Seq(Seq(S)), ts # << >>
  PROVE  \E f : Flattens(ts, f) /\ Flatten(ts) = f[Len(ts)]
<1> DEFINE n == Len(ts)
           X == Seq(S)
           s == [p \in (1 .. n) \X X |-> p[2] \o ts[p[1]]]
           a == << >>
<1>1. n \in Nat \ {0} /\ \A i \in 1 .. n : ts[i] \in X
  OBVIOUS
<1>2. s \in [(1 .. n) \X X -> X] /\ a \in X
  <2>1. ASSUME NEW p \in (1 .. n) \X X PROVE p[2] \o ts[p[1]] \in X
    <3>1. p[1] \in 1 .. n /\ p[2] \in X
      OBVIOUS
    <3>2. ts[p[1]] \in X
      BY <1>1, <3>1
    <3> QED BY <3>1, <3>2
  <2> QED BY <2>1
<1>3. PICK f \in [0 .. n -> X] : Rounds(n, a, s, f)
  <2> HIDE DEF s, n, X, a
  <2> QED BY <1>1, <1>2, LoopExists
<1> DEFINE Eq(g) == g = [i \in 1 .. Len(ts) |-> IF i = 1 THEN ts[i] ELSE g[i - 1] \o ts[i]]
           h == [i \in 1 .. n |-> f[i]]
           V == CHOOSE g : Eq(g)
<1>4. ASSUME NEW i \in 1 .. n PROVE f[i] = IF i = 1 THEN ts[i] ELSE f[i - 1] \o ts[i]
  <2>0. i \in 0 .. n /\ i # 0 /\ i - 1 \in 0 .. n
    OBVIOUS
  <2>1. f[i] = s[<<i, f[i - 1]>>]
    <3> HIDE DEF s, n
    <3> QED BY <1>3, <2>0 DEF Rounds
  <2>2. f[i - 1] \in X
    <3> HIDE DEF n
    <3> QED BY <1>3, <2>0
  <2>3. s[<<i, f[i - 1]>>] = f[i - 1] \o ts[i]
    BY <2>2
  <2>4. i = 1 => f[i - 1] = << >>
    <3> SUFFICES ASSUME i = 1 PROVE f[0] = << >>
      OBVIOUS
    <3>1. 0 \in 0 .. n
      BY <1>1
    <3> HIDE DEF n, s
    <3> QED BY <1>3, <3>1 DEF Rounds
  <2>5. i = 1 => f[i - 1] \o ts[i] = ts[i]
    BY <1>1, <2>4
  <2> QED BY <2>1, <2>3, <2>5
<1>5. Eq(h)
  <2>1. ASSUME NEW i \in 1 .. n PROVE h[i] = IF i = 1 THEN ts[i] ELSE h[i - 1] \o ts[i]
    <3>1. h[i] = f[i] /\ (i # 1 => h[i - 1] = f[i - 1])
      BY <1>1
    <3> HIDE DEF h, n
    <3> QED BY <1>4, <3>1
  <2>2. h = [i \in 1 .. n |-> h[i]]
    OBVIOUS
  <2> HIDE DEF h
  <2> QED BY <2>1, <2>2
<1>6. Eq(V)
  <2> HIDE DEF Eq, h
  <2> QED BY <1>5
<1>7. Flatten(ts) = V[n]
  BY <1>1 DEF Flatten, Sequence!FlattenSeq
<1>8. Flattens(ts, V)
  <2> HIDE DEF V
  <2> QED BY <1>6 DEF Flattens
<1> QED BY <1>7, <1>8

(* Nothing flattens to nothing.                                            *)
LEMMA FlattenNothing == Flatten(<< >>) = << >>
BY DEF Flatten, Sequence!FlattenSeq

(* One element more.                                                       *)
LEMMA Appended ==
  ASSUME NEW X, NEW ts \in Seq(X), NEW t \in X
  PROVE  LET us == Append(ts, t)
         IN  /\ us \in Seq(X) /\ us # << >> /\ Len(us) = Len(ts) + 1 /\ us[Len(ts) + 1] = t
             /\ Len(ts) \in Nat /\ \A i \in 1 .. Len(ts) : us[i] = ts[i]
OBVIOUS

(* Text by text, to the end.                                               *)
LEMMA FlattenAppend ==
  ASSUME NEW S, NEW ts \in Seq(Seq(S)), NEW t \in Seq(S)
  PROVE  Flatten(Append(ts, t)) = Flatten(ts) \o t
<1> DEFINE us == Append(ts, t)
           n == Len(ts)
<1>1. /\ us \in Seq(Seq(S)) /\ us # << >> /\ Len(us) = n + 1 /\ us[n + 1] = t /\ n \in Nat
      /\ \A i \in 1 .. n : us[i] = ts[i]
  <2> DEFINE X == Seq(S)
  <2>1. ts \in Seq(X) /\ t \in X
    OBVIOUS
  <2> HIDE DEF X
  <2>2. us \in Seq(X) /\ us # << >> /\ Len(us) = n + 1 /\ us[n + 1] = t /\ n \in Nat
        /\ \A i \in 1 .. n : us[i] = ts[i]
    BY <2>1, Appended
  <2> HIDE DEF us, n
  <2> QED BY <2>2 DEF X
<1>2. PICK f : Flattens(us, f) /\ Flatten(us) = f[Len(us)]
  <2> HIDE DEF us
  <2> QED BY <1>1, FlattenIs
<1> HIDE DEF us
<1>3. CASE ts = << >>
  <2>1. f[1] = t /\ Len(us) = 1
    BY <1>1, <1>2, <1>3 DEF Flattens
  <2>2. << >> \o t = t
    OBVIOUS
  <2> QED BY <1>2, <1>3, <2>1, <2>2, FlattenNothing DEF us
<1>4. CASE ts # << >>
  <2>1. PICK g : Flattens(ts, g) /\ Flatten(ts) = g[n]
    BY <1>4, FlattenIs
  <2> DEFINE P == {i \in Nat : 1 <= i /\ i <= n => f[i] = g[i]}
  <2>2. 0 \in P
    OBVIOUS
  <2>3. ASSUME NEW i \in Nat, i \in P PROVE i + 1 \in P
    <3> SUFFICES ASSUME i + 1 <= n PROVE f[i + 1] = g[i + 1]
      OBVIOUS
    <3>1. i + 1 \in 1 .. n /\ i + 1 \in 1 .. Len(us) /\ (i + 1) - 1 = i /\ us[i + 1] = ts[i + 1]
      BY <1>1
    <3>2. i + 1 # 1 => f[i] = g[i]
      BY <2>3
    <3> QED BY <1>2, <2>1, <3>1, <3>2 DEF Flattens
  <2>4. Nat \subseteq P
    <3> HIDE DEF P
    <3> QED BY <2>2, <2>3, Induct
  <2>5. n # 0
    BY <1>4
  <2>6. f[n] = g[n]
    BY <1>1, <2>4, <2>5
  <2>7. f[n + 1] = f[n] \o us[n + 1]
    <3>1. n + 1 \in 1 .. Len(us) /\ n + 1 # 1 /\ (n + 1) - 1 = n
      BY <1>1, <2>5
    <3> QED BY <1>2, <3>1 DEF Flattens
  <2> QED BY <1>1, <1>2, <2>1, <2>6, <2>7 DEF us
<1> QED BY <1>3, <1>4

(* A sequence is its front and its last element.                           *)
LEMMA FrontLast ==
  ASSUME NEW X, NEW ts \in Seq(X), NEW k \in Nat, Len(ts) = k + 1
  PROVE  LET us == SubSeq(ts, 1, k)
         IN  us \in Seq(X) /\ Len(us) = k /\ ts[k + 1] \in X /\ ts = Append(us, ts[k + 1])
OBVIOUS

(* Texts over S flatten to a text over S.                                  *)
LEMMA FlattenSeqOf ==
  ASSUME NEW S, NEW ts \in Seq(Seq(S))
  PROVE  Flatten(ts) \in Seq(S)
<1> DEFINE P == {k \in Nat : \A us \in Seq(Seq(S)) : Len(us) = k => Flatten(us) \in Seq(S)}
<1>1. 0 \in P
  <2>1. ASSUME NEW us \in Seq(Seq(S)), Len(us) = 0 PROVE Flatten(us) \in Seq(S)
    <3>1. us = << >>
      BY <2>1
    <3>2. << >> \in Seq(S)
      OBVIOUS
    <3> QED BY <3>1, <3>2, FlattenNothing
  <2> QED BY <2>1
<1>2. ASSUME NEW k \in Nat, k \in P PROVE k + 1 \in P
  <2>1. ASSUME NEW us \in Seq(Seq(S)), Len(us) = k + 1 PROVE Flatten(us) \in Seq(S)
    <3> DEFINE vs == SubSeq(us, 1, k)
    <3>1. vs \in Seq(Seq(S)) /\ Len(vs) = k /\ us[k + 1] \in Seq(S) /\ us = Append(vs, us[k + 1])
      <4> DEFINE X == Seq(S)
      <4>1. us \in Seq(X)
        OBVIOUS
      <4> HIDE DEF X
      <4>2. vs \in Seq(X) /\ Len(vs) = k /\ us[k + 1] \in X /\ us = Append(vs, us[k + 1])
        BY <2>1, <4>1, FrontLast
      <4> QED BY <4>2 DEF X
    <3> HIDE DEF vs
    <3>2. Flatten(vs) \in Seq(S)
      BY <1>2, <3>1
    <3>3. Flatten(us) = Flatten(vs) \o us[k + 1]
      BY <3>1, FlattenAppend
    <3> QED BY <3>1, <3>2, <3>3
  <2> QED BY <2>1
<1> HIDE DEF P
<1>3. Nat \subseteq P
  BY <1>1, <1>2, Induct
<1> QED BY <1>3 DEF P

(* And to the front.                                                       *)
LEMMA FlattenCons ==
  ASSUME NEW S, NEW t \in Seq(S), NEW ts \in Seq(Seq(S))
  PROVE  Flatten(<<t>> \o ts) = t \o Flatten(ts)
<1> DEFINE G(us) == Flatten(<<t>> \o us) = t \o Flatten(us)
           P == {k \in Nat : \A us \in Seq(Seq(S)) : Len(us) = k => G(us)}
<1>1. 0 \in P
  <2>1. ASSUME NEW us \in Seq(Seq(S)), Len(us) = 0 PROVE Flatten(<<t>> \o us) = t \o Flatten(us)
    <3>1. us = << >>
      BY <2>1
    <3>2. <<t>> \o << >> = Append(<< >>, t) /\ << >> \in Seq(Seq(S)) /\ << >> \o t = t /\ t \o << >> = t
      OBVIOUS
    <3>3. Flatten(Append(<< >>, t)) = Flatten(<< >>) \o t
      BY <3>2, FlattenAppend
    <3> QED BY <3>1, <3>2, <3>3, FlattenNothing
  <2> QED BY <2>1
<1>2. ASSUME NEW k \in Nat, k \in P PROVE k + 1 \in P
  <2>1. ASSUME NEW us \in Seq(Seq(S)), Len(us) = k + 1 PROVE Flatten(<<t>> \o us) = t \o Flatten(us)
    <3> DEFINE vs == SubSeq(us, 1, k)
               u == us[k + 1]
    <3>1. vs \in Seq(Seq(S)) /\ Len(vs) = k /\ u \in Seq(S) /\ us = Append(vs, u)
      <4> DEFINE X == Seq(S)
      <4>1. us \in Seq(X)
        OBVIOUS
      <4> HIDE DEF X
      <4>2. vs \in Seq(X) /\ Len(vs) = k /\ us[k + 1] \in X /\ us = Append(vs, us[k + 1])
        BY <2>1, <4>1, FrontLast
      <4> QED BY <4>2 DEF X
    <3> HIDE DEF vs, u
    <3>2. Flatten(<<t>> \o vs) = t \o Flatten(vs)
      BY <1>2, <3>1
    <3>3. <<t>> \o us = Append(<<t>> \o vs, u) /\ <<t>> \o vs \in Seq(Seq(S))
      <4> DEFINE X == Seq(S)
      <4>1. t \in X /\ vs \in Seq(X) /\ u \in X
        BY <3>1
      <4> HIDE DEF X
      <4>2. <<t>> \o Append(vs, u) = Append(<<t>> \o vs, u) /\ <<t>> \o vs \in Seq(X)
        BY <4>1
      <4> QED BY <3>1, <4>2 DEF X
    <3>4. Flatten(<<t>> \o us) = (t \o Flatten(vs)) \o u
      BY <3>1, <3>2, <3>3, FlattenAppend
    <3>5. Flatten(us) = Flatten(vs) \o u /\ Flatten(vs) \in Seq(S)
      BY <3>1, FlattenAppend, FlattenSeqOf
    <3>6. ASSUME NEW w \in Seq(S) PROVE (t \o w) \o u = t \o (w \o u)
      BY <3>1
    <3> QED BY <3>4, <3>5, <3>6
  <2>2. ASSUME NEW us \in Seq(Seq(S)), Len(us) = k + 1 PROVE G(us)
    BY <2>1, <2>2
  <2> HIDE DEF G
  <2> QED BY <2>2
<1> HIDE DEF P
<1>3. Nat \subseteq P
  BY <1>1, <1>2, Induct
<1> QED BY <1>3 DEF P

-----------------------------------------------------------------------------
(* Formats.                                                                *)

(* A round of the loop of c_format_validate.                               *)
Checks(inside, count, aborts) == [inside |-> inside, count |-> count, aborts |-> aborts]
FormatStep(p, c) ==
  CASE ~ p.inside /\ c = "%" -> [p EXCEPT !.inside = TRUE, !.count = @ + 1]
    [] p.inside /\ c = "spec" -> [p EXCEPT !.inside = FALSE]
    [] p.inside /\ c = "%"   -> [p EXCEPT !.inside = FALSE, !.count = @ - 1]
    [] p.inside /\ c = "n"   -> [p EXCEPT !.aborts = TRUE]
    [] p.inside /\ c = "*"   -> [p EXCEPT !.count = @ + 1]
    [] OTHER -> p

(* The loop over a format, and where it ends.                              *)
FormatRun(fmt, f) ==
  f[0] = Checks(FALSE, 0, FALSE) /\ \A i \in 1 .. Len(fmt) : f[i] = FormatStep(f[i - 1], fmt[i])
Reaches(fmt, p) == \E f : FormatRun(fmt, f) /\ f[Len(fmt)] = p

(* What each symbol does between two directives and inside of one.         *)
LEMMA StepsOf ==
  ASSUME NEW n \in Int
  PROVE  /\ FormatStep(Checks(FALSE, n, FALSE), "other") = Checks(FALSE, n, FALSE)
         /\ FormatStep(Checks(FALSE, n, FALSE), "spec") = Checks(FALSE, n, FALSE)
         /\ FormatStep(Checks(FALSE, n, FALSE), "n") = Checks(FALSE, n, FALSE)
         /\ FormatStep(Checks(FALSE, n, FALSE), "*") = Checks(FALSE, n, FALSE)
         /\ FormatStep(Checks(FALSE, n, FALSE), "%") = Checks(TRUE, n + 1, FALSE)
         /\ FormatStep(Checks(TRUE, n, FALSE), "other") = Checks(TRUE, n, FALSE)
         /\ FormatStep(Checks(TRUE, n, FALSE), "spec") = Checks(FALSE, n, FALSE)
         /\ FormatStep(Checks(TRUE, n, FALSE), "%") = Checks(FALSE, n - 1, FALSE)
         /\ FormatStep(Checks(TRUE, n, FALSE), "n") = Checks(TRUE, n, TRUE)
         /\ FormatStep(Checks(TRUE, n, FALSE), "*") = Checks(TRUE, n + 1, FALSE)
BY DEF FormatStep, Checks

(* Before the first symbol.                                                *)
LEMMA ReachesNothing == Reaches(<< >>, Checks(FALSE, 0, FALSE))
<1> DEFINE f == [i \in {0} |-> Checks(FALSE, 0, FALSE)]
<1>1. FormatRun(<< >>, f) /\ f[Len(<< >>)] = Checks(FALSE, 0, FALSE)
  BY DEF FormatRun
<1> QED BY <1>1 DEF Reaches

(* One symbol more.                                                        *)
LEMMA ReachesOne ==
  ASSUME NEW S, NEW fmt \in Seq(S), NEW p, Reaches(fmt, p), NEW c \in S
  PROVE  Reaches(Append(fmt, c), FormatStep(p, c))
<1> DEFINE n == Len(fmt)
           u == Append(fmt, c)
<1>1. n \in Nat /\ Len(u) = n + 1 /\ u[n + 1] = c /\ \A i \in 1 .. n : u[i] = fmt[i]
  OBVIOUS
<1>2. PICK f : FormatRun(fmt, f) /\ f[n] = p
  BY DEF Reaches
<1> DEFINE q == FormatStep(p, c)
           g == [i \in 0 .. n + 1 |-> IF i = n + 1 THEN q ELSE f[i]]
<1> HIDE DEF u
<1>3. g[0] = f[0]
  BY <1>1
<1>4. ASSUME NEW i \in 1 .. n + 1 PROVE g[i] = FormatStep(g[i - 1], u[i])
  <2>1. CASE i = n + 1
    <3>1. g[i] = q /\ g[i - 1] = f[n]
      <4>1. i - 1 = n /\ n \in 0 .. n + 1 /\ n # n + 1 /\ i \in 0 .. n + 1
        BY <1>1, <2>1
      <4> QED BY <2>1, <4>1
    <3> HIDE DEF g
    <3> QED BY <1>1, <1>2, <2>1, <3>1
  <2>2. CASE i \in 1 .. n
    <3>1. g[i] = f[i] /\ g[i - 1] = f[i - 1] /\ u[i] = fmt[i]
      BY <1>1, <2>2
    <3> HIDE DEF g, n
    <3> QED BY <1>2, <2>2, <3>1 DEF FormatRun, n
  <2>3. i = n + 1 \/ i \in 1 .. n
    BY <1>1
  <2> QED BY <2>1, <2>2, <2>3
<1>5. g[n + 1] = q
  BY <1>1
<1> HIDE DEF g
<1>6. FormatRun(u, g)
  BY <1>1, <1>2, <1>3, <1>4 DEF FormatRun
<1> QED BY <1>1, <1>5, <1>6 DEF Reaches, u

(* Where the run ends is what FormatAsks answers from.                     *)
LEMMA Validates ==
  ASSUME NEW S, NEW fmt \in Seq(S), NEW p, Reaches(fmt, p)
  PROVE  FormatAsks(fmt) = IF p.aborts THEN Null ELSE p.count
<1> DEFINE n == Len(fmt)
           Eq(g) == g = [i \in 0 .. Len(fmt) |->
                      IF i = 0 THEN [inside |-> FALSE, count |-> 0, aborts |-> FALSE]
                      ELSE LET q == g[i - 1]
                           IN  CASE ~ q.inside /\ fmt[i] = "%" -> [q EXCEPT !.inside = TRUE, !.count = @ + 1]
                                 [] q.inside /\ fmt[i] = "spec" -> [q EXCEPT !.inside = FALSE]
                                 [] q.inside /\ fmt[i] = "%"   -> [q EXCEPT !.inside = FALSE, !.count = @ - 1]
                                 [] q.inside /\ fmt[i] = "n"   -> [q EXCEPT !.aborts = TRUE]
                                 [] q.inside /\ fmt[i] = "*"   -> [q EXCEPT !.count = @ + 1]
                                 [] OTHER -> q]
           V == CHOOSE g : Eq(g)
           Short(g) == g = [i \in 0 .. n |-> IF i = 0 THEN Checks(FALSE, 0, FALSE)
                                             ELSE FormatStep(g[i - 1], fmt[i])]
<1>1. n \in Nat
  OBVIOUS
<1>2. ASSUME NEW g PROVE Eq(g) <=> Short(g)
  BY DEF FormatStep, Checks
<1>3. PICK f : FormatRun(fmt, f) /\ f[n] = p
  BY DEF Reaches
<1> DEFINE h == [i \in 0 .. n |-> f[i]]
<1>4. Short(h)
  <2>1. ASSUME NEW i \in 0 .. n
        PROVE  h[i] = IF i = 0 THEN Checks(FALSE, 0, FALSE) ELSE FormatStep(h[i - 1], fmt[i])
    <3>1. h[i] = f[i] /\ (i # 0 => h[i - 1] = f[i - 1] /\ i \in 1 .. n)
      BY <1>1
    <3> HIDE DEF h
    <3> QED BY <1>3, <3>1 DEF FormatRun
  <2>2. h = [i \in 0 .. n |-> h[i]]
    OBVIOUS
  <2> HIDE DEF h
  <2> QED BY <2>1, <2>2
<1>5. Short(V)
  <2>1. Eq(h)
    <3> HIDE DEF Eq, Short, h
    <3> QED BY <1>2, <1>4
  <2>2. Eq(V)
    <3> HIDE DEF Eq, h
    <3> QED BY <2>1
  <2> HIDE DEF Eq, Short, V
  <2> QED BY <1>2, <2>2
<1>6. FormatAsks(fmt) = IF V[n].aborts THEN Null ELSE V[n].count
  BY DEF FormatAsks
<1> HIDE DEF V
<1> DEFINE P == {i \in Nat : i <= n => V[i] = f[i]}
<1>7. 0 \in P
  <2>1. 0 \in 0 .. n
    BY <1>1
  <2>2. V[0] = Checks(FALSE, 0, FALSE)
    BY <1>5, <2>1
  <2> QED BY <1>3, <2>2 DEF FormatRun
<1>8. ASSUME NEW i \in Nat, i \in P PROVE i + 1 \in P
  <2> SUFFICES ASSUME i + 1 <= n PROVE V[i + 1] = f[i + 1]
    OBVIOUS
  <2>1. i + 1 \in 1 .. n /\ i + 1 \in 0 .. n /\ i + 1 # 0 /\ (i + 1) - 1 = i /\ V[i] = f[i]
    BY <1>1, <1>8
  <2>2. V[i + 1] = FormatStep(V[i], fmt[i + 1])
    BY <1>5, <2>1
  <2> QED BY <1>3, <2>1, <2>2 DEF FormatRun
<1>9. Nat \subseteq P
  <2> HIDE DEF P
  <2> QED BY <1>7, <1>8, Induct
<1>10. V[n] = p
  BY <1>1, <1>3, <1>9
<1> QED BY <1>6, <1>10

(* What formats are made of.                                               *)
Symbols == {"%", "*", "n", "spec", "other"}

(* One symbol more, in a format.                                           *)
LEMMA ReachesStep ==
  ASSUME NEW fmt \in Seq(Symbols), NEW p, Reaches(fmt, p), NEW c \in Symbols, NEW q, q = FormatStep(p, c)
  PROVE  Reaches(Append(fmt, c), q) /\ Append(fmt, c) \in Seq(Symbols)
BY ReachesOne

(* A directive leads from outside to outside and asks for its arguments.   *)
LEMMA ReachesDirective ==
  ASSUME NEW fmt \in Seq(Symbols), NEW n \in Int, Reaches(fmt, Checks(FALSE, n, FALSE)),
         NEW d \in DOMAIN Directives
  PROVE  /\ Directives[d] \in Seq(Symbols) /\ Arguments[d] \in Nat
         /\ Reaches(fmt \o Directives[d], Checks(FALSE, n + Arguments[d], FALSE))
<1>0. "%" \in Symbols /\ "*" \in Symbols /\ "n" \in Symbols /\ "spec" \in Symbols /\ "other" \in Symbols
  BY DEF Symbols
<1>1. ASSUME NEW a \in Symbols
      PROVE  /\ fmt \o <<a>> = Append(fmt, a) /\ Append(fmt, a) \in Seq(Symbols) /\ <<a>> \in Seq(Symbols)
  OBVIOUS
<1>2. ASSUME NEW a \in Symbols, NEW b \in Symbols
      PROVE  /\ fmt \o <<a, b>> = Append(Append(fmt, a), b)
             /\ Append(Append(fmt, a), b) \in Seq(Symbols) /\ <<a, b>> \in Seq(Symbols)
  OBVIOUS
<1>3. ASSUME NEW a \in Symbols, NEW b \in Symbols, NEW c \in Symbols
      PROVE  /\ fmt \o <<a, b, c>> = Append(Append(Append(fmt, a), b), c)
             /\ <<a, b, c>> \in Seq(Symbols)
  OBVIOUS
<1>4. n + 1 \in Int /\ (n + 1) - 1 = n /\ n + 0 = n /\ (n + 1) + 1 = n + 2 /\ n + 2 \in Int
  OBVIOUS
<1> DEFINE Goal == /\ Directives[d] \in Seq(Symbols) /\ Arguments[d] \in Nat
                   /\ Reaches(fmt \o Directives[d], Checks(FALSE, n + Arguments[d], FALSE))
<1>14. ASSUME NEW w, NEW k, w \in Seq(Symbols), k \in Nat, Directives[d] = w, Arguments[d] = k,
              Reaches(fmt \o w, Checks(FALSE, n + k, FALSE))
       PROVE  Goal
  BY <1>14
<1> HIDE DEF Goal
<1> DEFINE out == Checks(FALSE, n, FALSE)
           in == Checks(TRUE, n + 1, FALSE)
<1>13. /\ out = FormatStep(out, "other") /\ out = FormatStep(out, "spec") /\ out = FormatStep(out, "n")
       /\ out = FormatStep(out, "*") /\ in = FormatStep(out, "%") /\ Reaches(fmt, out)
  BY StepsOf
<1>5. ASSUME d = "literal" PROVE Goal
  <2>1. Directives[d] = <<"other">> /\ Arguments[d] = 0
    BY <1>5 DEF Directives, Arguments
  <2>2. Reaches(Append(fmt, "other"), out)
    BY <1>0, <1>13, ReachesStep
  <2>8. <<"other">> \in Seq(Symbols) /\ Reaches(fmt \o <<"other">>, Checks(FALSE, n + 0, FALSE))
    BY <1>0, <1>1, <1>4, <2>2
  <2>9. 0 \in Nat
    OBVIOUS
  <2> QED BY <1>14, <2>1, <2>8, <2>9
<1>6. ASSUME d = "text" PROVE Goal
  <2>1. Directives[d] = <<"spec", "n", "*">> /\ Arguments[d] = 0
    BY <1>6 DEF Directives, Arguments
  <2>2. Reaches(Append(fmt, "spec"), out)
    BY <1>0, <1>13, ReachesStep
  <2>3. Reaches(Append(Append(fmt, "spec"), "n"), out)
    BY <1>0, <1>1, <1>13, <2>2, ReachesStep
  <2>4. Reaches(Append(Append(Append(fmt, "spec"), "n"), "*"), out)
    BY <1>0, <1>2, <1>13, <2>3, ReachesStep
  <2>8. <<"spec", "n", "*">> \in Seq(Symbols) /\ Reaches(fmt \o <<"spec", "n", "*">>, Checks(FALSE, n + 0, FALSE))
    BY <1>0, <1>3, <1>4, <2>4
  <2>9. 0 \in Nat
    OBVIOUS
  <2> QED BY <1>14, <2>1, <2>8, <2>9
<1>7. Reaches(Append(fmt, "%"), in) /\ Append(fmt, "%") \in Seq(Symbols)
  BY <1>0, <1>13, ReachesStep
<1>8. ASSUME d = "percent" PROVE Goal
  <2>1. Directives[d] = <<"%", "%">> /\ Arguments[d] = 0
    BY <1>8 DEF Directives, Arguments
  <2>2. FormatStep(in, "%") = out
    BY <1>4, StepsOf
  <2>3. Reaches(Append(Append(fmt, "%"), "%"), out)
    BY <1>0, <1>7, <2>2, ReachesStep
  <2>8. <<"%", "%">> \in Seq(Symbols) /\ Reaches(fmt \o <<"%", "%">>, Checks(FALSE, n + 0, FALSE))
    BY <1>0, <1>2, <1>4, <2>3
  <2>9. 0 \in Nat
    OBVIOUS
  <2> QED BY <1>14, <2>1, <2>8, <2>9
<1>9. ASSUME d = "plain" PROVE Goal
  <2>1. Directives[d] = <<"%", "spec">> /\ Arguments[d] = 1
    BY <1>9 DEF Directives, Arguments
  <2>2. FormatStep(in, "spec") = Checks(FALSE, n + 1, FALSE)
    BY <1>4, StepsOf
  <2>3. Reaches(Append(Append(fmt, "%"), "spec"), Checks(FALSE, n + 1, FALSE))
    BY <1>0, <1>7, <2>2, ReachesStep
  <2>8. <<"%", "spec">> \in Seq(Symbols) /\ Reaches(fmt \o <<"%", "spec">>, Checks(FALSE, n + 1, FALSE))
    BY <1>0, <1>2, <1>4, <2>3
  <2>9. 1 \in Nat
    OBVIOUS
  <2> QED BY <1>14, <2>1, <2>8, <2>9
<1>10. ASSUME d = "wide" PROVE Goal
  <2>1. Directives[d] = <<"%", "other", "spec">> /\ Arguments[d] = 1
    BY <1>10 DEF Directives, Arguments
  <2>2. FormatStep(in, "spec") = Checks(FALSE, n + 1, FALSE) /\ FormatStep(in, "other") = in
    BY <1>4, StepsOf
  <2>3. Reaches(Append(Append(fmt, "%"), "other"), in)
    BY <1>0, <1>7, <2>2, ReachesStep
  <2>4. Reaches(Append(Append(Append(fmt, "%"), "other"), "spec"), Checks(FALSE, n + 1, FALSE))
    BY <1>0, <1>2, <2>2, <2>3, ReachesStep
  <2>8. <<"%", "other", "spec">> \in Seq(Symbols) /\ Reaches(fmt \o <<"%", "other", "spec">>, Checks(FALSE, n + 1, FALSE))
    BY <1>0, <1>3, <1>4, <2>4
  <2>9. 1 \in Nat
    OBVIOUS
  <2> QED BY <1>14, <2>1, <2>8, <2>9
<1>11. ASSUME d = "star" PROVE Goal
  <2>1. Directives[d] = <<"%", "*", "spec">> /\ Arguments[d] = 2
    BY <1>11 DEF Directives, Arguments
  <2>2. FormatStep(in, "*") = Checks(TRUE, n + 2, FALSE)
        /\ FormatStep(Checks(TRUE, n + 2, FALSE), "spec") = Checks(FALSE, n + 2, FALSE)
    BY <1>4, StepsOf
  <2>3. Reaches(Append(Append(fmt, "%"), "*"), Checks(TRUE, n + 2, FALSE))
    BY <1>0, <1>7, <2>2, ReachesStep
  <2>4. Reaches(Append(Append(Append(fmt, "%"), "*"), "spec"), Checks(FALSE, n + 2, FALSE))
    BY <1>0, <1>2, <2>2, <2>3, ReachesStep
  <2>8. <<"%", "*", "spec">> \in Seq(Symbols) /\ Reaches(fmt \o <<"%", "*", "spec">>, Checks(FALSE, n + 2, FALSE))
    BY <1>0, <1>3, <1>4, <2>4
  <2>9. 2 \in Nat
    OBVIOUS
  <2> QED BY <1>14, <2>1, <2>8, <2>9
<1>12. d \in {"literal", "text", "percent", "plain", "wide", "star"}
  BY DEF Directives
<1>15. Goal
  BY <1>5, <1>6, <1>8, <1>9, <1>10, <1>11, <1>12
<1> QED BY <1>15 DEF Goal

(* After fmt FormatAsks is between two directives and counts n.     *)
Counted(fmt, n) == fmt \in Seq(Symbols) /\ n \in Nat /\ Reaches(fmt, Checks(FALSE, n, FALSE))

(* A directive more.                                                       *)
LEMMA CountedMore ==
  ASSUME NEW fmt, NEW n, Counted(fmt, n), NEW d \in DOMAIN Directives, NEW w, w = Directives[d]
  PROVE  Counted(fmt \o w, n + Arguments[d])
<1>1. fmt \in Seq(Symbols) /\ n \in Int /\ n \in Nat /\ Reaches(fmt, Checks(FALSE, n, FALSE))
  <2>1. fmt \in Seq(Symbols) /\ n \in Nat /\ Reaches(fmt, Checks(FALSE, n, FALSE))
    BY Zenon DEF Counted
  <2>2. n \in Int
    BY <2>1
  <2> QED BY <2>1, <2>2
<1>2. w \in Seq(Symbols) /\ Arguments[d] \in Nat /\ Reaches(fmt \o w, Checks(FALSE, n + Arguments[d], FALSE))
  BY <1>1, ReachesDirective
<1>3. fmt \o w \in Seq(Symbols) /\ n + Arguments[d] \in Nat
  BY <1>1, <1>2
<1> QED BY <1>2, <1>3 DEF Counted

(* A format made of directives is let through with the arguments of each.  *)
THEOREM FormatsCounted ==
  ASSUME NEW ds \in Seq(DOMAIN Directives)
  PROVE  FormatRight(ds)
<1> DEFINE n == Len(ds)
           fmt == Flatten([i \in 1 .. Len(ds) |-> Directives[ds[i]]])
           Eq(g) == g = [i \in 0 .. Len(ds) |-> IF i = 0 THEN 0 ELSE g[i - 1] + Arguments[ds[i]]]
           V == CHOOSE g : Eq(g)
<1>1. n \in Nat /\ \A i \in 1 .. n : ds[i] \in DOMAIN Directives
  OBVIOUS
<1>2. ASSUME NEW i \in 1 .. n PROVE Directives[ds[i]] \in Seq(Symbols) /\ Arguments[ds[i]] \in Nat
  <2>1. << >> \in Seq(Symbols) /\ 0 \in Int /\ ds[i] \in DOMAIN Directives
    BY <1>1
  <2> QED BY <2>1, ReachesNothing, ReachesDirective
<1>3. Eq(V)
  <2> DEFINE s == [p \in (1 .. n) \X Nat |-> p[2] + Arguments[ds[p[1]]]]
  <2>1. s \in [(1 .. n) \X Nat -> Nat]
    <3>1. ASSUME NEW p \in (1 .. n) \X Nat PROVE p[2] + Arguments[ds[p[1]]] \in Nat
      <4>1. p[1] \in 1 .. n /\ p[2] \in Nat
        OBVIOUS
      <4>2. Arguments[ds[p[1]]] \in Nat
        BY <1>2, <4>1
      <4> QED BY <4>1, <4>2
    <3> QED BY <3>1
  <2>2. PICK f \in [0 .. n -> Nat] : Rounds(n, 0, s, f)
    <3> HIDE DEF s, n
    <3> QED BY <1>1, <2>1, LoopExists
  <2>3. ASSUME NEW i \in 0 .. n PROVE f[i] = IF i = 0 THEN 0 ELSE f[i - 1] + Arguments[ds[i]]
    <3>1. f[i] = IF i = 0 THEN 0 ELSE s[<<i, f[i - 1]>>]
      <4> HIDE DEF s, n
      <4> QED BY <2>2 DEF Rounds
    <3>2. ASSUME i # 0 PROVE s[<<i, f[i - 1]>>] = f[i - 1] + Arguments[ds[i]]
      <4>1. i \in 1 .. n /\ i - 1 \in 0 .. n
        BY <1>1, <3>2
      <4>2. f[i - 1] \in Nat
        <5> HIDE DEF n
        <5> QED BY <2>2, <4>1
      <4> QED BY <4>1, <4>2
    <3> HIDE DEF s
    <3> QED BY <3>1, <3>2
  <2>4. Eq(f)
    <3>1. f = [i \in 0 .. n |-> f[i]]
      BY <2>2
    <3> QED BY <2>3, <3>1
  <2> HIDE DEF Eq
  <2> QED BY <2>4
<1> HIDE DEF V
<1> DEFINE F(k) == Flatten([i \in 1 .. k |-> Directives[ds[i]]])
           G(k) == Counted(F(k), V[k])
           P == {k \in Nat : k <= n => G(k)}
<1>4. 0 \in P
  <2>1. V[0] = 0
    <3>1. 0 \in 0 .. n
      BY <1>1
    <3> QED BY <1>3, <3>1
  <2>2. F(0) = << >> /\ << >> \in Seq(Symbols)
    <3>1. [i \in 1 .. 0 |-> Directives[ds[i]]] = << >>
      OBVIOUS
    <3> QED BY <3>1, FlattenNothing
  <2>3. G(0)
    <3> DEFINE u == F(0)
    <3> HIDE DEF u
    <3>1. Counted(u, 0)
      BY <2>2, ReachesNothing DEF u, Counted
    <3> QED BY <2>1, <3>1 DEF u
  <2> HIDE DEF G
  <2> QED BY <2>3
<1>5. ASSUME NEW k \in Nat, k \in P PROVE k + 1 \in P
  <2> SUFFICES ASSUME k + 1 <= n PROVE G(k + 1)
    <3> HIDE DEF G
    <3> QED OBVIOUS
  <2>1. k + 1 \in 1 .. n /\ k + 1 \in 0 .. n /\ k + 1 # 0 /\ (k + 1) - 1 = k /\ ds[k + 1] \in DOMAIN Directives
    BY <1>1
  <2>2. G(k)
    <3> HIDE DEF G
    <3> QED BY <1>1, <1>5, <2>1
  <2> DEFINE d == Directives[ds[k + 1]]
             us == [i \in 1 .. k |-> Directives[ds[i]]]
  <2>3. F(k + 1) = F(k) \o d
    <3>1. \A i \in 1 .. k + 1 : Directives[ds[i]] \in Seq(Symbols)
      BY <1>1, <1>2
    <3> DEFINE X == Seq(Symbols)
               e(i) == Directives[ds[i]]
    <3>2. \A i \in 1 .. k + 1 : e(i) \in X
      BY <3>1
    <3>3. us \in Seq(X) /\ d \in X /\ [i \in 1 .. k + 1 |-> e(i)] = Append(us, d)
      <4> HIDE DEF X
      <4> QED BY <3>2
    <3>4. us \in Seq(Seq(Symbols)) /\ d \in Seq(Symbols)
      BY <3>3
    <3>5. Flatten(Append(us, d)) = Flatten(us) \o d
      <4> HIDE DEF us, d
      <4> QED BY <3>4, FlattenAppend
    <3> QED BY <3>3, <3>5
  <2>4. V[k + 1] = V[k] + Arguments[ds[k + 1]]
    BY <1>3, <2>1
  <2>5. Counted(F(k) \o d, V[k] + Arguments[ds[k + 1]])
    <3> DEFINE u == F(k)
               w == d
    <3>1. w = Directives[ds[k + 1]] /\ Counted(u, V[k])
      BY <2>2
    <3> HIDE DEF u, w
    <3>2. Counted(u \o w, V[k] + Arguments[ds[k + 1]])
      BY <2>1, <3>1, CountedMore
    <3> QED BY <3>2 DEF u, w
  <2> QED BY <2>3, <2>4, <2>5
<1>6. G(n)
  <2>1. Nat \subseteq P
    <3> HIDE DEF P
    <3> QED BY <1>4, <1>5, Induct
  <2> HIDE DEF G
  <2> QED BY <1>1, <2>1
<1>7. fmt \in Seq(Symbols) /\ V[n] \in Nat /\ Reaches(fmt, Checks(FALSE, V[n], FALSE))
  BY <1>6 DEF Counted
<1> HIDE DEF fmt
<1>8. FormatAsks(fmt) = V[n]
  <2>1. FormatAsks(fmt) = IF Checks(FALSE, V[n], FALSE).aborts THEN Null ELSE Checks(FALSE, V[n], FALSE).count
    BY <1>7, Validates
  <2> QED BY <2>1 DEF Checks
<1>9. FormatAsks(fmt \o <<"%", "n">>) = Null
  <2> DEFINE u == Append(Append(fmt, "%"), "n")
             in == Checks(TRUE, V[n] + 1, FALSE)
  <2>1. "%" \in Symbols /\ "n" \in Symbols /\ V[n] \in Int /\ V[n] + 1 \in Int
    BY <1>7 DEF Symbols
  <2>2. in = FormatStep(Checks(FALSE, V[n], FALSE), "%")
    BY <2>1, StepsOf
  <2>3. Checks(TRUE, V[n] + 1, TRUE) = FormatStep(in, "n")
    BY <2>1, StepsOf
  <2>4. Reaches(Append(fmt, "%"), in) /\ Append(fmt, "%") \in Seq(Symbols)
    <3> HIDE DEF in
    <3> QED BY <1>7, <2>1, <2>2, ReachesStep
  <2>5. Reaches(u, Checks(TRUE, V[n] + 1, TRUE)) /\ u \in Seq(Symbols)
    <3> HIDE DEF in
    <3> QED BY <2>1, <2>3, <2>4, ReachesStep
  <2>6. fmt \o <<"%", "n">> = u
    <3> HIDE DEF n
    <3> QED BY <1>7, <2>1
  <2> HIDE DEF u
  <2>7. FormatAsks(u) = IF Checks(TRUE, V[n] + 1, TRUE).aborts THEN Null ELSE Checks(TRUE, V[n] + 1, TRUE).count
    BY <2>5, Validates
  <2> QED BY <2>6, <2>7 DEF Checks
<1>10. FormatAsks(fmt) # Null
  BY <1>7, <1>8 DEF Null
<1> QED BY <1>8, <1>9, <1>10 DEF FormatRight, c_format_validate, V, fmt

-----------------------------------------------------------------------------
(* Comparing without regard to case, and blanks.                           *)

(* A byte in lower case is a number.                                       *)
LEMMA LowerByte ==
  ASSUME NEW c \in Byte
  PROVE  tolower(c) \in Nat
BY DEF tolower, Between, Byte

(* icompare looks at the first characters that differ.                     *)
Lowers(a, b, n) ==
  \A i \in 1 .. n : tolower(a[i]) \in Nat /\ tolower(b[i]) \in Nat /\ a[i] # NUL
SameLower(a, b, n) == \A i \in 1 .. n : tolower(a[i]) = tolower(b[i])
FirstLower(a, b, n) ==
  \E i \in 1 .. n : /\ tolower(a[i]) < tolower(b[i])
                    /\ \A j \in 1 .. i - 1 : tolower(a[j]) = tolower(b[j])

LEMMA ComparesFirst ==
  ASSUME NEW a, NEW b, NEW n \in Nat, Lowers(a, b, n)
  PROVE  /\ icompare(a, b, n) = 0 <=> SameLower(a, b, n)
         /\ icompare(a, b, n) < 0 <=> FirstLower(a, b, n)
<1> DEFINE differ == {i \in 1 .. n : ~ ieq(a[i], b[i])}
           first == Min(differ)
           x(i) == tolower(a[i])
           y(i) == tolower(b[i])
<1>0. \A i \in 1 .. n : tolower(a[i]) \in Nat /\ tolower(b[i]) \in Nat /\ a[i] # NUL
  BY DEF Lowers
<1>1. \A i \in 1 .. n : i \in differ <=> tolower(a[i]) # tolower(b[i])
  BY DEF ieq
<1>2. differ \subseteq 1 .. n
  OBVIOUS
<1>3. icompare(a, b, n) = IF differ = {} \/ (\E i \in 1 .. first - 1 : a[i] = NUL) THEN 0
                          ELSE tolower(a[first]) - tolower(b[first])
  BY DEF icompare
<1> HIDE DEF differ, first
<1>4. CASE differ = {}
  <2>1. icompare(a, b, n) = 0 /\ ~ (0 < 0)
    BY <1>3, <1>4
  <2>2. \A i \in 1 .. n : tolower(a[i]) = tolower(b[i])
    BY <1>1, <1>4
  <2>3. \A i \in 1 .. n : ~ (tolower(a[i]) < tolower(b[i]))
    BY <1>0, <2>2
  <2> QED BY <2>1, <2>2, <2>3 DEF SameLower, FirstLower
<1>5. CASE differ # {}
  <2>1. first \in differ /\ \A i \in differ : first <= i
    <3>1. differ \subseteq Nat
      BY <1>2
    <3> QED BY <1>5, <3>1, MinLeast DEF first
  <2>2. first \in 1 .. n
    BY <1>2, <2>1
  <2> DEFINE u == tolower(a[first])
             v == tolower(b[first])
  <2>3. u \in Nat /\ v \in Nat /\ u # v /\ icompare(a, b, n) = u - v
    <3>1. \A i \in 1 .. first - 1 : a[i] # NUL
      BY <1>0, <2>2
    <3> QED BY <1>0, <1>1, <1>3, <1>5, <2>1, <2>2, <3>1
  <2>4. u - v # 0 /\ (u - v < 0 <=> u < v)
    <3> HIDE DEF u, v
    <3> QED BY <2>3
  <2>5. \A j \in 1 .. first - 1 : tolower(a[j]) = tolower(b[j])
    BY <1>1, <2>1, <2>2
  <2>6. ASSUME NEW i \in 1 .. n, tolower(a[i]) < tolower(b[i]),
               \A j \in 1 .. i - 1 : tolower(a[j]) = tolower(b[j])
        PROVE  i = first
    <3>1. i \in differ
      BY <1>0, <1>1, <2>6
    <3>2. ~ first \in 1 .. i - 1
      BY <1>1, <2>1, <2>2, <2>6
    <3> QED BY <2>1, <2>2, <3>1, <3>2
  <2>7. icompare(a, b, n) # 0 /\ (icompare(a, b, n) < 0 <=> u < v)
    <3> HIDE DEF u, v
    <3> QED BY <2>3, <2>4
  <2>8. ~ \A i \in 1 .. n : tolower(a[i]) = tolower(b[i])
    BY <2>2, <2>3
  <2>9. u < v <=> \E i \in 1 .. n : /\ tolower(a[i]) < tolower(b[i])
                                    /\ \A j \in 1 .. i - 1 : tolower(a[j]) = tolower(b[j])
    BY <2>2, <2>5, <2>6
  <2> HIDE DEF u, v
  <2> QED BY <2>7, <2>8, <2>9 DEF SameLower, FirstLower
<1> QED BY <1>4, <1>5

(* Comparing without regard to case is comparing what is in lower case,    *)
(* and agrees with eq and lt, for texts without NUL.                       *)
THEOREM CaseIgnored ==
  ASSUME NEW a \in Seq(Solid), NEW b \in Seq(Solid)
  PROVE  CaseRight(a, b)
<1> DEFINE n == Min({Len(a), Len(b)})
           x == [i \in 1 .. n |-> tolower(a[i])]
           y == [i \in 1 .. n |-> tolower(b[i])]
<1>1. n \in Nat /\ n <= Len(a) /\ n <= Len(b)
  <2>1. {Len(a), Len(b)} \subseteq Nat /\ {Len(a), Len(b)} # {}
    OBVIOUS
  <2>2. n \in {Len(a), Len(b)} /\ \A z \in {Len(a), Len(b)} : n <= z
    BY <2>1, MinLeast
  <2> HIDE DEF n
  <2> QED BY <2>1, <2>2
<1> HIDE DEF n
<1>2. \A i \in 1 .. n : tolower(a[i]) \in Nat /\ tolower(b[i]) \in Nat /\ a[i] # NUL
  <2>1. ASSUME NEW i \in 1 .. n PROVE a[i] \in Byte /\ b[i] \in Byte /\ a[i] # NUL
    <3>1. a[i] \in Solid /\ b[i] \in Solid
      BY <1>1
    <3> QED BY <3>1 DEF Solid
  <2> QED BY <2>1, LowerByte
<1>3. x \in Seq(Nat) /\ y \in Seq(Nat) /\ Len(x) = n /\ Len(y) = n
      /\ \A i \in 1 .. n : x[i] = tolower(a[i]) /\ y[i] = tolower(b[i])
  BY <1>1, <1>2
<1> HIDE DEF x, y
<1>4. x = y <=> \A i \in 1 .. n : tolower(a[i]) = tolower(b[i])
  <2>1. ASSUME \A i \in 1 .. n : tolower(a[i]) = tolower(b[i]) PROVE x = y
    <3>1. \A i \in 1 .. n : x[i] = y[i]
      BY <1>3, <2>1
    <3> QED BY <1>3, <3>1, SameSeq
  <2> QED BY <1>3, <2>1
<1>5. DiffersLower(x, y)
        <=> \E i \in 1 .. n : /\ tolower(a[i]) < tolower(b[i])
                              /\ \A j \in 1 .. i - 1 : tolower(a[j]) = tolower(b[j])
  <2>1. Min({Len(x), Len(y)}) = n
    <3>1. n \in {n} /\ {n} \subseteq Nat /\ \A z \in {n} : n <= z
      BY <1>1
    <3> DEFINE S == {n}
    <3>2. Min(S) = n
      <4>1. S \subseteq Nat /\ n \in S /\ \A z \in S : n <= z
        BY <3>1
      <4> HIDE DEF S
      <4> QED BY <4>1, MinIs
    <3>3. {Len(x), Len(y)} = {n}
      BY <1>3
    <3> QED BY <3>2, <3>3
  <2>2. ASSUME NEW i \in 1 .. n
        PROVE  SubSeq(x, 1, i - 1) = SubSeq(y, 1, i - 1)
                 <=> \A j \in 1 .. i - 1 : tolower(a[j]) = tolower(b[j])
    <3> DEFINE k == i - 1
    <3>1. k \in Nat /\ k <= Len(x) /\ k <= Len(y) /\ k <= n
      BY <1>1, <1>3
    <3> HIDE DEF k
    <3>2. SubSeq(x, 1, k) = SubSeq(y, 1, k) <=> \A j \in 1 .. k : x[j] = y[j]
      BY <1>3, <3>1, SameOpening
    <3>3. \A j \in 1 .. k : x[j] = tolower(a[j]) /\ y[j] = tolower(b[j])
      BY <1>1, <1>3, <3>1
    <3> QED BY <3>2, <3>3 DEF k
  <2>3. DiffersLower(x, y) <=> \E i \in 1 .. n : SubSeq(x, 1, i - 1) = SubSeq(y, 1, i - 1) /\ x[i] < y[i]
    BY <2>1 DEF DiffersLower
  <2> QED BY <1>3, <2>2, <2>3
<1>6. CaseRight(a, b) <=> /\ icompare(a, b, n) = 0 <=> x = y
                          /\ icompare(a, b, n) < 0 <=> DiffersLower(x, y)
                          /\ icompare(a, b, n) < 0
                               <=> \E i \in 1 .. n : /\ ilt(a[i], b[i])
                                                     /\ \A j \in 1 .. i - 1 : ieq(a[j], b[j])
  BY DEF CaseRight, n, x, y
<1>7. /\ icompare(a, b, n) = 0 <=> SameLower(a, b, n)
      /\ icompare(a, b, n) < 0 <=> FirstLower(a, b, n)
  <2>1. Lowers(a, b, n)
    BY <1>2 DEF Lowers
  <2> QED BY <1>1, <2>1, ComparesFirst
<1>8. FirstLower(a, b, n) <=> \E i \in 1 .. n : /\ ilt(a[i], b[i])
                                                /\ \A j \in 1 .. i - 1 : ieq(a[j], b[j])
  BY DEF FirstLower, ilt, ieq
<1>9. (x = y <=> SameLower(a, b, n)) /\ (DiffersLower(x, y) <=> FirstLower(a, b, n))
  BY <1>4, <1>5 DEF SameLower, FirstLower
<1> QED BY <1>6, <1>7, <1>8, <1>9

(* A maximum of numbers up to n.                                           *)
LEMMA MaxGreatest ==
  ASSUME NEW n \in Nat, NEW S, S \subseteq 0 .. n, S # {}
  PROVE  Max(S) \in S /\ \A y \in S : y <= Max(S)
<1> DEFINE B == {n - x : x \in S}
<1>0. ASSUME NEW x \in S PROVE x \in Int /\ n - x \in Nat
  <2>1. x \in 0 .. n
    OBVIOUS
  <2> QED BY <2>1
<1>1. B \subseteq Nat /\ B # {}
  BY <1>0
<1>2. PICK b \in B : \A y \in B : b <= y
  <2> HIDE DEF B
  <2> QED BY <1>1, Least
<1>3. PICK x \in S : b = n - x
  BY <1>2
<1>4. \A y \in S : x >= y
  <2> SUFFICES ASSUME NEW y \in S PROVE x >= y
    OBVIOUS
  <2>1. n - x <= n - y /\ x \in Int /\ y \in Int
    BY <1>0, <1>2, <1>3
  <2> QED BY <2>1
<1>5. Max(S) = CHOOSE z \in S : \A y \in S : z >= y
  BY DEF Max
<1>6. Max(S) \in S /\ \A y \in S : Max(S) >= y
  BY <1>3, <1>4, <1>5
<1>7. ASSUME NEW y \in S PROVE y <= Max(S)
  <2>1. Max(S) >= y /\ y \in Int /\ Max(S) \in Int
    BY <1>0, <1>6
  <2> QED BY <2>1
<1> QED BY <1>6, <1>7

(* As many blanks.                                                         *)
Blanks(n) == [i \in 1 .. n |-> 32]

(* A text between blanks.                                                  *)
LEMMA BetweenBlanks ==
  ASSUME NEW t \in Seq(Byte), NEW first \in 1 .. Len(t), NEW last \in first .. Len(t),
         \A i \in 1 .. Len(t) : i < first \/ i > last => t[i] = 32
  PROVE  t = Blanks(first - 1) \o SubSeq(t, first, last) \o Blanks(Len(t) - last)
<1> DEFINE r == SubSeq(t, first, last)
           a == Blanks(first - 1)
           b == Blanks(Len(t) - last)
           u == (a \o r) \o b
<1>1. a \in Seq(Byte) /\ Len(a) = first - 1 /\ \A i \in 1 .. first - 1 : a[i] = 32
  BY DEF Blanks, Byte
<1>2. b \in Seq(Byte) /\ Len(b) = Len(t) - last /\ \A i \in 1 .. Len(t) - last : b[i] = 32
  BY DEF Blanks, Byte
<1>3. r \in Seq(Byte) /\ Len(r) = last - first + 1
      /\ \A i \in 1 .. last - first + 1 : r[i] = t[first + i - 1]
  <2>1. first \in Nat /\ last \in Nat /\ first >= 1 /\ last <= Len(t) /\ first <= last
    OBVIOUS
  <2> QED BY <2>1
<1>4. Len(t) \in Nat /\ first \in Nat /\ last \in Nat /\ first >= 1 /\ first <= last /\ last <= Len(t)
  OBVIOUS
<1> HIDE DEF a, b, r
<1> DEFINE w == a \o r
<1>8. w \in Seq(Byte) /\ Len(w) = last
      /\ \A i \in 1 .. last : w[i] = IF i <= Len(a) THEN a[i] ELSE r[i - Len(a)]
  BY <1>1, <1>3, <1>4
<1>5. u \in Seq(Byte) /\ Len(u) = Len(t)
      /\ \A i \in 1 .. Len(t) : u[i] = IF i <= last THEN w[i] ELSE b[i - last]
  <2> DEFINE v == w \o b
  <2>1. u = v
    OBVIOUS
  <2> HIDE DEF w, u
  <2>2. v \in Seq(Byte) /\ Len(v) = Len(w) + Len(b)
        /\ \A i \in 1 .. Len(w) + Len(b) : v[i] = IF i <= Len(w) THEN w[i] ELSE b[i - Len(w)]
    BY <1>2, <1>8, Joined
  <2>3. Len(w) = last /\ Len(w) + Len(b) = Len(t)
    BY <1>2, <1>4, <1>8
  <2> HIDE DEF v
  <2> QED BY <2>1, <2>2, <2>3
<1>6. ASSUME NEW i \in 1 .. Len(t) PROVE u[i] = t[i]
  <2>1. u[i] = IF i <= Len(a) THEN a[i] ELSE IF i <= Len(a) + Len(r) THEN r[i - Len(a)] ELSE b[i - Len(a) - Len(r)]
    <3> HIDE DEF u, w
    <3>1. Len(a) + Len(r) = last /\ i - Len(a) - Len(r) = i - last
      BY <1>1, <1>3, <1>4
    <3>2. i <= last => w[i] = IF i <= Len(a) THEN a[i] ELSE r[i - Len(a)]
      BY <1>4, <1>8
    <3>3. Len(a) <= last
      BY <1>1, <1>4
    <3> QED BY <1>4, <1>5, <3>1, <3>2, <3>3
  <2>2. CASE i < first
    <3>1. i \in 1 .. first - 1 /\ i <= Len(a)
      BY <1>1, <1>4, <2>2
    <3>2. t[i] = 32
      BY <2>2
    <3> HIDE DEF u
    <3> QED BY <1>1, <2>1, <3>1, <3>2
  <2>3. CASE i > last
    <3> DEFINE k == i - Len(a) - Len(r)
    <3>1. k \in 1 .. Len(t) - last /\ ~ i <= Len(a) /\ ~ i <= Len(a) + Len(r)
      BY <1>1, <1>3, <1>4, <2>3
    <3>2. t[i] = 32
      BY <2>3
    <3> HIDE DEF u, k
    <3>3. b[k] = 32
      BY <1>2, <3>1
    <3> QED BY <2>1, <3>1, <3>2, <3>3 DEF k
  <2>4. CASE i >= first /\ i <= last
    <3> DEFINE k == i - Len(a)
    <3>1. k \in 1 .. last - first + 1 /\ first + k - 1 = i /\ ~ i <= Len(a) /\ i <= Len(a) + Len(r)
      BY <1>1, <1>3, <1>4, <2>4
    <3> HIDE DEF u, k
    <3>2. r[k] = t[first + k - 1]
      BY <1>3, <3>1
    <3>3. u[i] = r[k]
      BY <2>1, <3>1 DEF k
    <3> QED BY <3>1, <3>2, <3>3
  <2>5. i < first \/ i > last \/ (i >= first /\ i <= last)
    BY <1>4
  <2> QED BY <2>2, <2>3, <2>4, <2>5
<1>7. u = t
  <2> HIDE DEF u
  <2> QED BY <1>5, <1>6, SameSeq
<1> QED BY <1>7 DEF a, b, r

(* Where the next character of D is, from a place in the text on.          *)
LEMMA NextInIs ==
  ASSUME NEW t \in Seq(Byte), NEW D, NEW from \in 1 .. Len(t) + 1
  PROVE  \/ NextIn(t, D, from) = 0 /\ \A i \in from .. Len(t) : t[i] \notin D
         \/ /\ NextIn(t, D, from) \in from .. Len(t) /\ t[NextIn(t, D, from)] \in D
            /\ \A i \in from .. NextIn(t, D, from) - 1 : t[i] \notin D
<1> DEFINE S == {i \in 1 .. Len(t) : from # 0 /\ i >= from /\ t[i] \in D}
<1>1. NextIn(t, D, from) = IF S = {} THEN 0 ELSE Min(S)
  BY DEF NextIn
<1>2. \A i \in from .. Len(t) : i \in S <=> t[i] \in D
  OBVIOUS
<1>3. S \subseteq from .. Len(t) /\ from .. Len(t) \subseteq Nat /\ from \in Nat /\ Len(t) \in Nat
  OBVIOUS
<1> HIDE DEF S
<1>4. CASE S = {}
  BY <1>1, <1>2, <1>4
<1>5. CASE S # {}
  <2> DEFINE x == NextIn(t, D, from)
  <2>1. x \in S /\ \A y \in S : x <= y
    BY <1>1, <1>3, <1>5, MinLeast
  <2> HIDE DEF x
  <2>2. x \in from .. Len(t) /\ t[x] \in D
    BY <1>2, <1>3, <2>1
  <2>3. \A i \in from .. x - 1 : t[i] \notin D
    <3> SUFFICES ASSUME NEW i \in from .. x - 1 PROVE t[i] \notin D
      OBVIOUS
    <3>1. i \in from .. Len(t) /\ ~ x <= i
      BY <1>3, <2>2
    <3> QED BY <1>2, <2>1, <3>1
  <2> QED BY <2>2, <2>3 DEF x
<1> QED BY <1>4, <1>5

(* Nothing is found from npos on.                                          *)
LEMMA NextInNone ==
  ASSUME NEW t, NEW D
  PROVE  NextIn(t, D, 0) = 0
BY DEF NextIn

(* r is t without the blanks at both ends.                                 *)
Trimmed(t, r) ==
  /\ \E i, j \in 0 .. Len(t) : t = Blanks(i) \o r \o Blanks(j)
  /\ r # << >> => r[1] # 32 /\ r[Len(r)] # 32

(* Trimmed, by its two ends.                                               *)
LEMMA TrimmedFrom ==
  ASSUME NEW t, NEW r, NEW i \in 0 .. Len(t), NEW j \in 0 .. Len(t), t = Blanks(i) \o r \o Blanks(j),
         r # << >> => r[1] # 32 /\ r[Len(r)] # 32
  PROVE  Trimmed(t, r)
BY DEF Trimmed

(* Trim takes off the blanks at both ends and nothing else.                *)
THEOREM BlanksTrimmed ==
  ASSUME NEW t \in Seq(Byte)
  PROVE  TrimRight(t)
<1> DEFINE n == Len(t)
           r == Trim(t)
           S == {i \in 1 .. n : t[i] # 32}
           last == LastNot(t, 32)
           cut == SubSeq(t, 1, last)
           first == NextNotIn(cut, {32}, 1)
<1>1. n \in Nat /\ \A i \in 1 .. n : t[i] \in Byte
  OBVIOUS
<1>2. last = IF S = {} THEN 0 ELSE Max(S)
  BY DEF LastNot
<1>3. (last = 0 => r = << >>) /\ (last # 0 => r = SubSeq(cut, first, last))
  BY DEF Trim
<1>4. ASSUME S = {} PROVE Trimmed(t, r)
  <2>1. r = << >>
    <3> HIDE DEF cut, first, last, r
    <3> QED BY <1>2, <1>3, <1>4
  <2>2. t = Blanks(n)
    <3>1. \A i \in 1 .. n : t[i] = 32
      BY <1>4
    <3>2. t = [i \in 1 .. n |-> t[i]]
      OBVIOUS
    <3> QED BY <3>1, <3>2 DEF Blanks
  <2>3. Blanks(0) = << >>
    BY DEF Blanks
  <2>4. (t \o << >>) \o << >> = t
    OBVIOUS
  <2>5. n \in 0 .. n /\ 0 \in 0 .. n
    BY <1>1
  <2> HIDE DEF r, n
  <2>6. t = Blanks(n) \o r \o Blanks(0)
    BY <2>1, <2>2, <2>3, <2>4
  <2> QED BY <2>1, <2>5, <2>6, TrimmedFrom DEF n
<1>5. ASSUME S # {} PROVE Trimmed(t, r)
  <2>1. last \in S /\ \A i \in S : i <= last
    <3>1. S \subseteq 0 .. n
      BY <1>1
    <3> HIDE DEF S, n, last
    <3> QED BY <1>1, <1>2, <1>5, <3>1, MaxGreatest
  <2>2. last \in 1 .. n /\ t[last] # 32 /\ \A i \in 1 .. n : i > last => t[i] = 32
    <3> HIDE DEF last
    <3> QED BY <1>1, <2>1
  <2> HIDE DEF last
  <2>3. cut \in Seq(Byte) /\ Len(cut) = last /\ \A i \in 1 .. last : cut[i] = t[i]
    <3>1. last \in 0 .. Len(t)
      BY <2>2
    <3> QED BY <3>1, Opening
  <2>4. r = SubSeq(cut, first, last)
    <3> HIDE DEF cut, first, r
    <3> QED BY <1>1, <1>3, <2>2
  <2> HIDE DEF cut
  <2>5. first \in 1 .. last /\ t[first] # 32 /\ \A i \in 1 .. first - 1 : t[i] = 32
    <3> DEFINE D == (0 .. 255) \ {32}
    <3>1. first = NextIn(cut, D, 1)
      BY DEF NextNotIn
    <3>2. \A i \in 1 .. last : cut[i] \in D <=> t[i] # 32
      <4> SUFFICES ASSUME NEW i \in 1 .. last PROVE cut[i] \in D <=> t[i] # 32
        OBVIOUS
      <4>1. i \in 1 .. n /\ cut[i] = t[i]
        BY <1>1, <2>2, <2>3
      <4>2. t[i] \in 0 .. 255
        BY <1>1, <4>1 DEF Byte
      <4> QED BY <4>1, <4>2
    <3>3. 1 \in 1 .. Len(cut) + 1
      BY <2>2, <2>3
    <3> HIDE DEF D, first
    <3>4. \/ first = 0 /\ \A i \in 1 .. Len(cut) : cut[i] \notin D
          \/ /\ first \in 1 .. Len(cut) /\ cut[first] \in D
             /\ \A i \in 1 .. first - 1 : cut[i] \notin D
      BY <2>3, <3>1, <3>3, NextInIs
    <3>5. last \in 1 .. Len(cut) /\ cut[last] \in D
      BY <2>2, <2>3, <3>2
    <3>6. first \in 1 .. last /\ cut[first] \in D /\ \A i \in 1 .. first - 1 : cut[i] \notin D
      BY <2>3, <3>4, <3>5
    <3>7. \A i \in 1 .. first - 1 : i \in 1 .. last
      BY <2>2, <3>6
    <3> QED BY <3>2, <3>6, <3>7
  <2> HIDE DEF first
  <2>6. r = SubSeq(t, first, last)
    <3>1. first \in Nat /\ last \in Nat /\ 1 <= first /\ first <= last /\ last <= n
      BY <1>1, <2>2, <2>5
    <3> DEFINE k == last - first + 1
    <3>2. k \in Nat
      BY <3>1
    <3>3. SubSeq(cut, first, last) \in Seq(Byte) /\ Len(SubSeq(cut, first, last)) = k
          /\ \A i \in 1 .. k : SubSeq(cut, first, last)[i] = cut[first + i - 1]
      BY <2>3, <3>1
    <3>4. SubSeq(t, first, last) \in Seq(Byte) /\ Len(SubSeq(t, first, last)) = k
          /\ \A i \in 1 .. k : SubSeq(t, first, last)[i] = t[first + i - 1]
      BY <3>1
    <3>5. \A i \in 1 .. k : first + i - 1 \in 1 .. last
      BY <3>1
    <3>6. \A i \in 1 .. k : cut[first + i - 1] = t[first + i - 1]
      BY <2>3, <3>5
    <3> DEFINE x == SubSeq(cut, first, last)
               y == SubSeq(t, first, last)
    <3>7. x = y
      <4> HIDE DEF x, y, k
      <4> QED BY <3>3, <3>4, <3>6, SameSeq DEF x, y
    <3> QED BY <2>4, <3>7
  <2> DEFINE i0 == first - 1
             j0 == n - last
  <2>7. t = Blanks(i0) \o r \o Blanks(j0)
    <3>1. first \in 1 .. Len(t) /\ last \in first .. Len(t)
      BY <1>1, <2>2, <2>5
    <3>2. \A i \in 1 .. Len(t) : i < first \/ i > last => t[i] = 32
      BY <2>2, <2>5
    <3>3. t = Blanks(first - 1) \o SubSeq(t, first, last) \o Blanks(Len(t) - last)
      BY <3>1, <3>2, BetweenBlanks
    <3> HIDE DEF r
    <3> QED BY <2>6, <3>3
  <2>8. i0 \in 0 .. n /\ j0 \in 0 .. n
    BY <1>1, <2>2, <2>5
  <2>9. r[1] # 32 /\ r[Len(r)] # 32
    <3>1. first \in Nat /\ last \in Nat /\ 1 <= first /\ first <= last /\ last <= n
      BY <1>1, <2>2, <2>5
    <3> DEFINE y == SubSeq(t, first, last)
               k == last - first + 1
    <3>2. Len(y) = k /\ y[1] = t[first] /\ y[k] = t[last]
      BY <3>1
    <3> HIDE DEF y, k, r
    <3> QED BY <2>2, <2>5, <2>6, <3>2 DEF y
  <2> HIDE DEF i0, j0, r, n
  <2> QED BY <2>7, <2>8, <2>9, TrimmedFrom DEF n
<1>6. Trimmed(t, r)
  BY <1>4, <1>5
<1>7. TrimRight(t) <=> Trimmed(t, r)
  BY DEF TrimRight, Trimmed, Blanks
<1> QED BY <1>6, <1>7

-----------------------------------------------------------------------------
(* Words.                                                                  *)

(* A sequence that is not empty is its first element and a shorter rest.   *)
LEMMA HeadRest ==
  ASSUME NEW X, NEW ts \in Seq(X), NEW k \in Nat, Len(ts) = k + 1
  PROVE  LET us == SubSeq(ts, 2, k + 1)
         IN  us \in Seq(X) /\ Len(us) = k /\ ts[1] \in X /\ ts = <<ts[1]>> \o us
             /\ \A i \in 1 .. k : us[i] = ts[i + 1]
<1> DEFINE us == SubSeq(ts, 2, k + 1)
           z == <<ts[1]>> \o us
<1>1. ts[1] \in X /\ us \in Seq(X) /\ Len(us) = k /\ \A i \in 1 .. k : us[i] = ts[i + 1]
  OBVIOUS
<1> HIDE DEF us
<1>2. z \in Seq(X) /\ Len(z) = k + 1 /\ \A i \in 1 .. k + 1 : z[i] = IF i = 1 THEN ts[1] ELSE us[i - 1]
  BY <1>1
<1> HIDE DEF z
<1>3. ASSUME NEW i \in 1 .. Len(ts) PROVE ts[i] = z[i]
  <2>1. i = 1 \/ i - 1 \in 1 .. k
    OBVIOUS
  <2>2. i - 1 \in 1 .. k => us[i - 1] = ts[(i - 1) + 1]
    BY <1>1
  <2>3. i \in 1 .. k + 1 /\ (i - 1) + 1 = i /\ (i - 1 \in 1 .. k => i # 1)
    OBVIOUS
  <2> QED BY <1>2, <2>1, <2>2, <2>3
<1>4. ts = z
  BY <1>2, <1>3, SameSeq
<1> QED BY <1>1, <1>4 DEF us, z

(* Concatenation, of three texts that are kept apart.                      *)
LEMMA CatFacts ==
  ASSUME NEW S, NEW a \in Seq(S), NEW b \in Seq(S), NEW c \in Seq(S)
  PROVE  a \o b \in Seq(S) /\ (a \o b) \o c = a \o (b \o c) /\ << >> \o a = a /\ a \o << >> = a
         /\ Len(a \o b) = Len(a) + Len(b)
<1>1. a \o b \in Seq(S) /\ << >> \o a = a /\ a \o << >> = a /\ Len(a \o b) = Len(a) + Len(b)
  OBVIOUS
<1>2. (a \o b) \o c = a \o (b \o c)
  OBVIOUS
<1> QED BY <1>1, <1>2

(* Its order does not matter.                                              *)
LEMMA CatAssoc ==
  ASSUME NEW S, NEW a \in Seq(S), NEW b \in Seq(S), NEW c \in Seq(S)
  PROVE  (a \o b) \o c = a \o (b \o c)
OBVIOUS

(* The same, under a name.                                                 *)
Grouped(a, b, c) == (a \o b) \o c = a \o (b \o c)

(* CatAssoc says so.                                                       *)
LEMMA CatGrouped ==
  ASSUME NEW S, NEW a \in Seq(S), NEW b \in Seq(S), NEW c \in Seq(S)
  PROVE  Grouped(a, b, c)
BY CatAssoc DEF Grouped

(* What is flattened piece by piece.                                       *)
LEMMA FlattenCat ==
  ASSUME NEW S, NEW ts \in Seq(Seq(S)), NEW us \in Seq(Seq(S))
  PROVE  Flatten(ts \o us) = Flatten(ts) \o Flatten(us)
<1> DEFINE X == Seq(S)
           G(xs) == Flatten(xs \o us) = Flatten(xs) \o Flatten(us)
           P == {k \in Nat : \A xs \in Seq(X) : Len(xs) = k => G(xs)}
<1>1. 0 \in P
  <2> SUFFICES ASSUME NEW xs \in Seq(X), Len(xs) = 0 PROVE G(xs)
    OBVIOUS
  <2>1. xs = << >> /\ Flatten(xs) = << >> /\ Flatten(us) \in Seq(S)
    BY FlattenNothing, FlattenSeqOf
  <2>2. << >> \o us = us
    OBVIOUS
  <2>3. << >> \o Flatten(us) = Flatten(us)
    <3> DEFINE y == Flatten(us)
    <3>1. y \in Seq(S)
      BY <2>1
    <3> HIDE DEF y
    <3>2. << >> \o y = y
      BY <3>1
    <3> QED BY <3>2 DEF y
  <2> QED BY <2>1, <2>2, <2>3
<1>2. ASSUME NEW k \in Nat, k \in P PROVE k + 1 \in P
  <2> SUFFICES ASSUME NEW xs \in Seq(X), Len(xs) = k + 1 PROVE G(xs)
    OBVIOUS
  <2> DEFINE x == xs[1]
             ys == SubSeq(xs, 2, k + 1)
  <2>1. x \in X /\ ys \in Seq(X) /\ Len(ys) = k /\ xs = <<x>> \o ys
    <3> HIDE DEF X
    <3> QED BY HeadRest
  <2>2. G(ys)
    BY <1>2, <2>1
  <2> HIDE DEF x, ys
  <2>3. xs \o us = <<x>> \o (ys \o us) /\ ys \o us \in Seq(X)
    <3>1. us \in Seq(X) /\ <<x>> \in Seq(X)
      BY <2>1
    <3> HIDE DEF X
    <3> QED BY <2>1, <3>1, CatFacts
  <2>4. Flatten(xs) = x \o Flatten(ys) /\ Flatten(xs \o us) = x \o Flatten(ys \o us)
    BY <2>1, <2>3, FlattenCons
  <2>5. Flatten(ys) \in Seq(S) /\ Flatten(us) \in Seq(S) /\ x \in Seq(S)
    BY <2>1, FlattenSeqOf
  <2>6. (x \o Flatten(ys)) \o Flatten(us) = x \o (Flatten(ys) \o Flatten(us))
    <3> DEFINE a == Flatten(ys)
               b == Flatten(us)
    <3>1. a \in Seq(S) /\ b \in Seq(S) /\ x \in Seq(S)
      BY <2>5
    <3> HIDE DEF a, b
    <3>2. Grouped(x, a, b)
      BY <3>1, CatGrouped
    <3>3. (x \o a) \o b = x \o (a \o b)
      BY <3>2 DEF Grouped
    <3> QED BY <3>3 DEF a, b
  <2> QED BY <2>2, <2>4, <2>6
<1> HIDE DEF P
<1>3. Nat \subseteq P
  BY <1>1, <1>2, Induct
<1>4. Len(ts) \in P /\ ts \in Seq(X)
  <2>1. Len(ts) \in Nat
    OBVIOUS
  <2> QED BY <1>3, <2>1
<1> QED BY <1>4 DEF P

(* A sequence made of an element for each of another one.                  *)
Each(t, F) == [i \in 1 .. Len(t) |-> F[t[i]]]

(* What Each gives, element by element.                                    *)
IsEach(z, t, F, B) == z \in Seq(B) /\ Len(z) = Len(t) /\ \A i \in 1 .. Len(t) : z[i] = F[t[i]]

(* It does.                                                                *)
LEMMA EachIs ==
  ASSUME NEW A, NEW B, NEW F \in [A -> B], NEW t \in Seq(A)
  PROVE  IsEach(Each(t, F), t, F, B)
<1>1. \A i \in 1 .. Len(t) : F[t[i]] \in B
  OBVIOUS
<1> QED BY <1>1 DEF Each, IsEach

(* Each goes into both parts.                                              *)
LEMMA EachCat ==
  ASSUME NEW A, NEW B, NEW F \in [A -> B], NEW t \in Seq(A), NEW u \in Seq(A)
  PROVE  Each(t \o u, F) = Each(t, F) \o Each(u, F)
<1> DEFINE x == Each(t, F)
           y == Each(u, F)
           tu == t \o u
           z == Each(tu, F)
<1>1. tu \in Seq(A) /\ Len(tu) = Len(t) + Len(u) /\ Len(t) \in Nat /\ Len(u) \in Nat
      /\ \A i \in 1 .. Len(t) + Len(u) : tu[i] = IF i <= Len(t) THEN t[i] ELSE u[i - Len(t)]
  OBVIOUS
<1>2. x \in Seq(B) /\ Len(x) = Len(t) /\ \A i \in 1 .. Len(t) : x[i] = F[t[i]]
  BY EachIs DEF IsEach
<1>3. y \in Seq(B) /\ Len(y) = Len(u) /\ \A i \in 1 .. Len(u) : y[i] = F[u[i]]
  <2>1. IsEach(y, u, F, B)
    BY EachIs
  <2> HIDE DEF y
  <2> QED BY <2>1 DEF IsEach
<1> HIDE DEF x, y, tu
<1>4. z \in Seq(B) /\ Len(z) = Len(tu) /\ \A i \in 1 .. Len(tu) : z[i] = F[tu[i]]
  <2>0. tu \in Seq(A)
    BY <1>1
  <2>1. IsEach(z, tu, F, B)
    BY <2>0, EachIs
  <2> HIDE DEF z
  <2> QED BY <2>1 DEF IsEach
<1> DEFINE v == x \o y
<1>5. v \in Seq(B) /\ Len(v) = Len(t) + Len(u)
      /\ \A i \in 1 .. Len(t) + Len(u) : v[i] = IF i <= Len(t) THEN x[i] ELSE y[i - Len(t)]
  <2>1. x \in Seq(B) /\ y \in Seq(B) /\ Len(x) = Len(t) /\ Len(y) = Len(u)
    BY <1>2, <1>3
  <2> QED BY <2>1
<1> HIDE DEF v, z
<1>6. ASSUME NEW i \in 1 .. Len(z) PROVE z[i] = v[i]
  <2>1. i \in 1 .. Len(t) + Len(u)
    BY <1>1, <1>4
  <2>2. z[i] = F[tu[i]]
    BY <1>4
  <2>3. CASE i <= Len(t)
    <3>1. i \in 1 .. Len(t)
      BY <1>1, <2>1, <2>3
    <3> QED BY <1>1, <1>2, <1>5, <2>1, <2>2, <2>3, <3>1
  <2>4. CASE ~ i <= Len(t)
    <3>1. i - Len(t) \in 1 .. Len(u)
      BY <1>1, <2>1, <2>4
    <3> QED BY <1>1, <1>3, <1>5, <2>1, <2>2, <2>4, <3>1
  <2> QED BY <2>3, <2>4
<1>7. z = v
  BY <1>1, <1>4, <1>5, <1>6, SameSeq
<1> QED BY <1>7 DEF z, v, x, y, tu

(* An element in front.                                                    *)
LEMMA ConsFacts ==
  ASSUME NEW X, NEW x \in X, NEW u \in Seq(X), NEW z, z = <<x>> \o u
  PROVE  z \in Seq(X) /\ Len(z) = Len(u) + 1 /\ Len(u) \in Nat /\ z[1] = x /\ \A i \in 1 .. Len(u) : z[i + 1] = u[i]
<1>1. z \in Seq(X) /\ Len(z) = Len(u) + 1 /\ Len(u) \in Nat /\ z[1] = x
  OBVIOUS
<1>2. ASSUME NEW i \in 1 .. Len(u) PROVE z[i + 1] = u[i]
  OBVIOUS
<1> QED BY <1>1, <1>2

(* What holds of nothing and is kept by one more element in front holds of *)
(* every sequence.                                                         *)
LEMMA SeqInduct ==
  ASSUME NEW X, NEW P, << >> \in P, \A x \in X, u \in Seq(X) : u \in P => <<x>> \o u \in P
  PROVE  Seq(X) \subseteq P
<1> DEFINE Q == {k \in Nat : \A t \in Seq(X) : Len(t) = k => t \in P}
<1>1. 0 \in Q
  OBVIOUS
<1>2. ASSUME NEW k \in Nat, k \in Q PROVE k + 1 \in Q
  <2> SUFFICES ASSUME NEW t \in Seq(X), Len(t) = k + 1 PROVE t \in P
    OBVIOUS
  <2> DEFINE x == t[1]
             u == SubSeq(t, 2, k + 1)
  <2>1. x \in X /\ u \in Seq(X) /\ Len(u) = k /\ t = <<x>> \o u
    BY HeadRest
  <2> HIDE DEF x, u
  <2>2. u \in P
    BY <1>2, <2>1
  <2>3. <<x>> \o u \in P
    BY <2>1, <2>2
  <2> QED BY <2>1, <2>3
<1> HIDE DEF Q
<1>3. Nat \subseteq Q
  BY <1>1, <1>2, Induct
<1>4. ASSUME NEW t \in Seq(X) PROVE t \in P
  <2>1. Len(t) \in Nat
    OBVIOUS
  <2> QED BY <1>3, <2>1 DEF Q
<1> QED BY <1>4

(* What Keeping makes of a byte.                                           *)
KeptOf(S) == [b \in Byte |-> IF b \in S THEN <<b>> ELSE << >>]

(* Keeping flattens what is kept of each byte.                             *)
LEMMA KeepingIs ==
  ASSUME NEW t \in Seq(Byte), NEW S
  PROVE  /\ KeptOf(S) \in [Byte -> Seq(Byte)]
         /\ Keeping(t, S) = Flatten(Each(t, KeptOf(S)))
         /\ Each(t, KeptOf(S)) \in Seq(Seq(Byte)) /\ Keeping(t, S) \in Seq(Byte)
<1>1. KeptOf(S) \in [Byte -> Seq(Byte)]
  <2>1. \A b \in Byte : (IF b \in S THEN <<b>> ELSE << >>) \in Seq(Byte)
    OBVIOUS
  <2> QED BY <2>1 DEF KeptOf
<1>2. Each(t, KeptOf(S)) = [i \in 1 .. Len(t) |-> IF t[i] \in S THEN <<t[i]>> ELSE << >>]
  <2>1. \A i \in 1 .. Len(t) : KeptOf(S)[t[i]] = IF t[i] \in S THEN <<t[i]>> ELSE << >>
    BY DEF KeptOf
  <2> QED BY <2>1 DEF Each
<1>3. Keeping(t, S) = Flatten(Each(t, KeptOf(S)))
  BY <1>2 DEF Keeping
<1>4. Each(t, KeptOf(S)) \in Seq(Seq(Byte))
  <2> DEFINE F == KeptOf(S)
             X == Seq(Byte)
             z == Each(t, F)
  <2>1. F \in [Byte -> X]
    BY <1>1
  <2> HIDE DEF F, X
  <2>2. IsEach(z, t, F, X)
    BY <2>1, EachIs
  <2> HIDE DEF z
  <2>3. z \in Seq(X)
    BY <2>2 DEF IsEach
  <2> QED BY <2>3 DEF z, X, F
<1>5. Keeping(t, S) \in Seq(Byte)
  BY <1>3, <1>4, FlattenSeqOf
<1> QED BY <1>1, <1>3, <1>4, <1>5

(* Keeping goes into both parts.                                           *)
LEMMA KeepingCat ==
  ASSUME NEW t \in Seq(Byte), NEW u \in Seq(Byte), NEW S
  PROVE  Keeping(t \o u, S) = Keeping(t, S) \o Keeping(u, S)
<1> DEFINE F == KeptOf(S)
           tu == t \o u
<1>1. tu \in Seq(Byte)
  OBVIOUS
<1> HIDE DEF tu
<1>2. F \in [Byte -> Seq(Byte)] /\ Keeping(t, S) = Flatten(Each(t, F)) /\ Each(t, F) \in Seq(Seq(Byte))
  BY KeepingIs
<1>3. Keeping(u, S) = Flatten(Each(u, F)) /\ Each(u, F) \in Seq(Seq(Byte))
  BY KeepingIs
<1>4. Keeping(tu, S) = Flatten(Each(tu, F))
  BY <1>1, KeepingIs
<1>5. Each(tu, F) = Each(t, F) \o Each(u, F)
  <2> DEFINE X == Seq(Byte)
  <2>1. F \in [Byte -> X] /\ t \in Seq(Byte) /\ u \in Seq(Byte)
    BY <1>2
  <2> HIDE DEF F, X
  <2>2. Each(t \o u, F) = Each(t, F) \o Each(u, F)
    BY <2>1, EachCat
  <2> QED BY <2>2 DEF tu
<1>6. Flatten(Each(t, F) \o Each(u, F)) = Flatten(Each(t, F)) \o Flatten(Each(u, F))
  <2> DEFINE x == Each(t, F)
             y == Each(u, F)
  <2>1. x \in Seq(Seq(Byte)) /\ y \in Seq(Seq(Byte))
    BY <1>2, <1>3
  <2> HIDE DEF x, y, F
  <2>2. Flatten(x \o y) = Flatten(x) \o Flatten(y)
    BY <2>1, FlattenCat
  <2> QED BY <2>2 DEF x, y
<1> HIDE DEF F
<1>7. Keeping(tu, S) = Keeping(t, S) \o Keeping(u, S)
  BY <1>2, <1>3, <1>4, <1>5, <1>6
<1> QED BY <1>7 DEF tu

(* One text flattens to itself.                                            *)
LEMMA FlattenOne ==
  ASSUME NEW S, NEW t \in Seq(S)
  PROVE  Flatten(<<t>>) = t
<1> DEFINE e == << >>
<1>1. e \in Seq(Seq(S)) /\ Append(e, t) = <<t>> /\ Flatten(e) = << >>
  BY FlattenNothing
<1>2. Flatten(Append(e, t)) = Flatten(e) \o t
  BY <1>1, FlattenAppend
<1>3. << >> \o t = t
  OBVIOUS
<1> QED BY <1>1, <1>2, <1>3

(* Of one byte.                                                            *)
LEMMA KeepingOne ==
  ASSUME NEW b \in Byte, NEW S
  PROVE  Keeping(<<b>>, S) = IF b \in S THEN <<b>> ELSE << >>
<1> DEFINE k == IF b \in S THEN <<b>> ELSE << >>
           z == [i \in 1 .. 1 |-> k]
<1>1. k \in Seq(Byte)
  OBVIOUS
<1>2. Keeping(<<b>>, S) = Flatten([i \in 1 .. 1 |-> IF b \in S THEN <<b>> ELSE << >>])
  <2>1. Len(<<b>>) = 1 /\ \A i \in 1 .. 1 : <<b>>[i] = b
    OBVIOUS
  <2>2. [i \in 1 .. Len(<<b>>) |-> IF <<b>>[i] \in S THEN <<<<b>>[i]>> ELSE << >>]
          = [i \in 1 .. 1 |-> IF b \in S THEN <<b>> ELSE << >>]
    BY <2>1
  <2> QED BY <2>2 DEF Keeping
<1> HIDE DEF k
<1>3. [i \in 1 .. 1 |-> k] = <<k>>
  OBVIOUS
<1>4. Flatten(<<k>>) = k
  BY <1>1, FlattenOne
<1>5. Keeping(<<b>>, S) = Flatten([i \in 1 .. 1 |-> k])
  BY <1>2 DEF k
<1> QED BY <1>3, <1>4, <1>5 DEF k

(* Of none.                                                                *)
LEMMA KeepingNothing ==
  ASSUME NEW S
  PROVE  Keeping(<< >>, S) = << >>
<1>1. [i \in 1 .. Len(<< >>) |-> IF << >>[i] \in S THEN <<<< >>[i]>> ELSE << >>] = << >>
  OBVIOUS
<1> QED BY <1>1, FlattenNothing DEF Keeping

(* Of a byte in front.                                                     *)
LEMMA KeepingCons ==
  ASSUME NEW b \in Byte, NEW u \in Seq(Byte), NEW S
  PROVE  Keeping(<<b>> \o u, S) = IF b \in S THEN <<b>> \o Keeping(u, S) ELSE Keeping(u, S)
<1> DEFINE x == <<b>>
<1>1. x \in Seq(Byte) /\ Keeping(x, S) = IF b \in S THEN <<b>> ELSE << >>
  BY KeepingOne
<1> HIDE DEF x
<1>2. Keeping(x \o u, S) = Keeping(x, S) \o Keeping(u, S) /\ Keeping(u, S) \in Seq(Byte)
  BY <1>1, KeepingCat, KeepingIs
<1>3. << >> \o Keeping(u, S) = Keeping(u, S)
  <2> DEFINE y == Keeping(u, S)
  <2>1. y \in Seq(Byte)
    BY <1>2
  <2> HIDE DEF y
  <2>2. << >> \o y = y
    BY <2>1
  <2> QED BY <2>2 DEF y
<1> QED BY <1>1, <1>2, <1>3 DEF x

(* Of a text within S, all.                                                *)
LEMMA KeepingAll ==
  ASSUME NEW S, NEW t \in Seq(Byte), \A i \in 1 .. Len(t) : t[i] \in S
  PROVE  Keeping(t, S) = t
<1> DEFINE In(u) == \A i \in 1 .. Len(u) : u[i] \in S
           P == {u \in Seq(Byte) : In(u) => Keeping(u, S) = u}
<1>1. << >> \in P
  BY KeepingNothing
<1>2. ASSUME NEW x \in Byte, NEW u \in Seq(Byte), u \in P PROVE <<x>> \o u \in P
  <2> DEFINE z == <<x>> \o u
  <2>1. z \in Seq(Byte) /\ Len(z) = Len(u) + 1 /\ Len(u) \in Nat /\ z[1] = x /\ \A i \in 1 .. Len(u) : z[i + 1] = u[i]
    BY ConsFacts
  <2>2. Keeping(z, S) = IF x \in S THEN <<x>> \o Keeping(u, S) ELSE Keeping(u, S)
    BY KeepingCons
  <2>3. z = <<x>> \o u
    OBVIOUS
  <2> HIDE DEF z
  <2>4. ASSUME In(z) PROVE Keeping(z, S) = z
    <3>1. x \in S
      <4>1. 1 \in 1 .. Len(z)
        BY <2>1
      <4> QED BY <2>1, <2>4, <4>1
    <3>2. In(u)
      <4> SUFFICES ASSUME NEW i \in 1 .. Len(u) PROVE u[i] \in S
        OBVIOUS
      <4>1. i + 1 \in 1 .. Len(z)
        BY <2>1
      <4>2. z[i + 1] \in S
        BY <2>4, <4>1
      <4> QED BY <2>1, <4>2
    <3>3. Keeping(u, S) = u
      BY <1>2, <3>2
    <3> QED BY <2>2, <2>3, <3>1, <3>3
  <2> QED BY <2>1, <2>3, <2>4
<1> HIDE DEF P
<1>3. Seq(Byte) \subseteq P
  BY <1>1, <1>2, SeqInduct
<1> QED BY <1>3 DEF P

(* Of a text outside S, nothing.                                           *)
LEMMA KeepingNone ==
  ASSUME NEW S, NEW t \in Seq(Byte), \A i \in 1 .. Len(t) : t[i] \notin S
  PROVE  Keeping(t, S) = << >>
<1> DEFINE Out(u) == \A i \in 1 .. Len(u) : u[i] \notin S
           P == {u \in Seq(Byte) : Out(u) => Keeping(u, S) = << >>}
<1>1. << >> \in P
  BY KeepingNothing
<1>2. ASSUME NEW x \in Byte, NEW u \in Seq(Byte), u \in P PROVE <<x>> \o u \in P
  <2> DEFINE z == <<x>> \o u
  <2>1. z \in Seq(Byte) /\ Len(z) = Len(u) + 1 /\ Len(u) \in Nat /\ z[1] = x /\ \A i \in 1 .. Len(u) : z[i + 1] = u[i]
    BY ConsFacts
  <2>2. Keeping(z, S) = IF x \in S THEN <<x>> \o Keeping(u, S) ELSE Keeping(u, S)
    BY KeepingCons
  <2>3. z = <<x>> \o u
    OBVIOUS
  <2> HIDE DEF z
  <2>4. ASSUME Out(z) PROVE Keeping(z, S) = << >>
    <3>1. x \notin S
      <4>1. 1 \in 1 .. Len(z)
        BY <2>1
      <4> QED BY <2>1, <2>4, <4>1
    <3>2. Out(u)
      <4> SUFFICES ASSUME NEW i \in 1 .. Len(u) PROVE u[i] \notin S
        OBVIOUS
      <4>1. i + 1 \in 1 .. Len(z)
        BY <2>1
      <4>2. z[i + 1] \notin S
        BY <2>4, <4>1
      <4> QED BY <2>1, <4>2
    <3>3. Keeping(u, S) = << >>
      BY <1>2, <3>2
    <3> QED BY <2>2, <2>3, <3>1, <3>3
  <2> QED BY <2>1, <2>3, <2>4
<1> HIDE DEF P
<1>3. Seq(Byte) \subseteq P
  BY <1>1, <1>2, SeqInduct
<1> QED BY <1>3 DEF P

(* Where the search for a word goes on.                                    *)
StartAfter(t, D, last) == NextNotIn(t, D, NextIn(t, D, last))

(* What the equations of Tokenize give from one position on.               *)
WordsFrom(t, D, f, last) ==
  IF last = 0 THEN << >>
  ELSE <<Cut(t, last, NextIn(t, D, last))>> \o f[StartAfter(t, D, last)]
Tokens(t, D, f) == f = [last \in 0 .. Len(t) |-> WordsFrom(t, D, f, last)]

(* What the search for what is no delimiter finds.                         *)
LEMMA NextNotInIs ==
  ASSUME NEW t \in Seq(Byte), NEW D, NEW from \in 1 .. Len(t) + 1
  PROVE  \/ NextNotIn(t, D, from) = 0 /\ \A i \in from .. Len(t) : t[i] \in D
         \/ /\ NextNotIn(t, D, from) \in from .. Len(t) /\ t[NextNotIn(t, D, from)] \notin D
            /\ \A i \in from .. NextNotIn(t, D, from) - 1 : t[i] \in D
<1> DEFINE N == Byte \ D
           p == NextIn(t, N, from)
<1>1. NextNotIn(t, D, from) = p
  BY DEF NextNotIn, Byte
<1>2. \A i \in from .. Len(t) : t[i] \in N <=> t[i] \notin D
  <2>1. \A i \in 1 .. Len(t) : t[i] \in Byte
    OBVIOUS
  <2> QED BY <2>1
<1> HIDE DEF N
<1>3. \/ p = 0 /\ \A i \in from .. Len(t) : t[i] \notin N
      \/ p \in from .. Len(t) /\ t[p] \in N /\ \A i \in from .. p - 1 : t[i] \notin N
  BY NextInIs
<1> HIDE DEF p
<1>4. Len(t) \in Nat /\ from \in Nat
  OBVIOUS
<1>5. CASE p = 0 /\ \A i \in from .. Len(t) : t[i] \notin N
  BY <1>1, <1>2, <1>5
<1>6. CASE p \in from .. Len(t) /\ t[p] \in N /\ \A i \in from .. p - 1 : t[i] \notin N
  <2>1. \A i \in from .. p - 1 : i \in from .. Len(t)
    BY <1>4, <1>6
  <2> QED BY <1>1, <1>2, <1>6, <2>1
<1> QED BY <1>3, <1>5, <1>6

(* Nothing is found from npos on.                                          *)
LEMMA NextNotInNone ==
  ASSUME NEW t, NEW D
  PROVE  NextNotIn(t, D, 0) = 0
BY NextInNone DEF NextNotIn

(* p is the first position from `from' on with a byte of D, or without.    *)
Found(t, D, from, p) ==
  \/ p = 0 /\ \A i \in from .. Len(t) : t[i] \notin D
  \/ p \in from .. Len(t) /\ t[p] \in D /\ \A i \in from .. p - 1 : t[i] \notin D
Passed(t, D, from, p) ==
  \/ p = 0 /\ \A i \in from .. Len(t) : t[i] \in D
  \/ p \in from .. Len(t) /\ t[p] \notin D /\ \A i \in from .. p - 1 : t[i] \in D

(* NextInIs and NextNotInIs, in two words.                                 *)
LEMMA Finds ==
  ASSUME NEW t \in Seq(Byte), NEW D, NEW from \in 1 .. Len(t) + 1
  PROVE  Found(t, D, from, NextIn(t, D, from)) /\ Passed(t, D, from, NextNotIn(t, D, from))
<1>1. Found(t, D, from, NextIn(t, D, from))
  BY NextInIs DEF Found
<1>2. Passed(t, D, from, NextNotIn(t, D, from))
  BY NextNotInIs DEF Passed
<1> QED BY <1>1, <1>2

(* The next start is a position, from any position.                        *)
LEMMA StartStays ==
  ASSUME NEW t \in Seq(Byte), NEW D, NEW last \in 1 .. Len(t)
  PROVE  /\ StartAfter(t, D, last) \in {0} \cup (last .. Len(t))
         /\ StartAfter(t, D, last) = last => FALSE
<1> DEFINE pos == NextIn(t, D, last)
           s == NextNotIn(t, D, pos)
<1>0. Len(t) \in Nat /\ last \in 1 .. Len(t) + 1 /\ last \in Nat
  OBVIOUS
<1>1. pos = 0 \/ (pos \in last .. Len(t) /\ t[pos] \in D)
  <2>1. Found(t, D, last, pos)
    BY <1>0, Finds
  <2> HIDE DEF pos
  <2> QED BY <2>1 DEF Found
<1>2. StartAfter(t, D, last) = s
  BY DEF StartAfter
<1>3. CASE pos = 0
  BY <1>0, <1>2, <1>3, NextNotInNone
<1>4. CASE pos \in last .. Len(t) /\ t[pos] \in D
  <2> HIDE DEF pos
  <2>2. pos \in 1 .. Len(t) + 1
    BY <1>0, <1>4
  <2>3. s = 0 \/ (s \in pos .. Len(t) /\ t[s] \notin D)
    <3>1. Passed(t, D, pos, s)
      BY <2>2, Finds
    <3> HIDE DEF s
    <3> QED BY <3>1 DEF Passed
  <2> HIDE DEF s
  <2>4. s # pos
    BY <1>4, <2>3, <2>2
  <2> QED BY <1>0, <1>2, <1>4, <2>3, <2>4
<1> QED BY <1>1, <1>3, <1>4

(* A word is a text.                                                       *)
LEMMA CutIsText ==
  ASSUME NEW t \in Seq(Byte), NEW D, NEW last \in 1 .. Len(t)
  PROVE  /\ Cut(t, last, NextIn(t, D, last)) \in Seq(Byte)
         /\ NextIn(t, D, last) \in {0} \cup (last .. Len(t))
<1> DEFINE pos == NextIn(t, D, last)
<1>0. Len(t) \in Nat /\ last \in 1 .. Len(t) + 1 /\ last \in Nat
  OBVIOUS
<1>1. pos = 0 \/ pos \in last .. Len(t)
  BY <1>0, NextInIs
<1> HIDE DEF pos
<1>2. Cut(t, last, pos) \in Seq(Byte)
  <2> DEFINE e == IF pos = 0 THEN Len(t) ELSE pos - 1
  <2>1. e \in last - 1 .. Len(t) /\ e \in Nat
    BY <1>0, <1>1
  <2> HIDE DEF e
  <2>2. SubSeq(t, last, e) \in Seq(Byte)
    BY <1>0, <2>1
  <2> QED BY <2>2 DEF Cut, e
<1> QED BY <1>1, <1>2 DEF pos

(* The equations of Tokenize have a solution.                              *)
LEMMA TokensExist ==
  ASSUME NEW t \in Seq(Byte), NEW D
  PROVE  \E f : Tokens(t, D, f)
<1> DEFINE n == Len(t)
           A == 0 .. n
           X == Seq(Seq(Byte))
           m == [i \in A |-> IF i = 0 THEN 0 ELSE n + 1 - i]
           r == [i \in A |-> IF i = 0 THEN 0 ELSE StartAfter(t, D, i)]
           b == [i \in A |-> << >>]
           c == [i \in A |-> IF i = 0 THEN << >> ELSE Cut(t, i, NextIn(t, D, i))]
           s == [p \in A \X X |-> <<c[p[1]]>> \o p[2]]
<1>0. n \in Nat
  OBVIOUS
<1>1. m \in [A -> Nat]
  BY <1>0
<1>2. ASSUME NEW i \in 1 .. n PROVE StartAfter(t, D, i) \in A /\ m[StartAfter(t, D, i)] < m[i]
  <2> DEFINE q == StartAfter(t, D, i)
  <2>1. q = 0 \/ (q \in i .. n /\ q # i)
    BY StartStays
  <2> HIDE DEF q
  <2>2. q \in A /\ i \in A
    BY <1>0, <2>1
  <2>3. m[q] < m[i]
    BY <1>0, <2>1, <2>2
  <2> HIDE DEF m
  <2> QED BY <2>2, <2>3 DEF q
<1>3. r \in [A -> A]
  <2>1. ASSUME NEW i \in A PROVE (IF i = 0 THEN 0 ELSE StartAfter(t, D, i)) \in A
    <3>1. i = 0 \/ i \in 1 .. n
      BY <1>0
    <3> QED BY <1>0, <1>2, <3>1
  <2> QED BY <2>1
<1>4. b \in [A -> X]
  OBVIOUS
<1>5. c \in [A -> Seq(Byte)]
  <2>1. ASSUME NEW i \in A PROVE (IF i = 0 THEN << >> ELSE Cut(t, i, NextIn(t, D, i))) \in Seq(Byte)
    <3>1. CASE i = 0
      BY <3>1
    <3>2. CASE i # 0
      <4>1. i \in 1 .. Len(t)
        BY <1>0, <3>2
      <4> QED BY <3>2, <4>1, CutIsText
    <3> QED BY <3>1, <3>2
  <2> QED BY <2>1
<1>6. ASSUME NEW p \in A \X X PROVE <<c[p[1]]>> \o p[2] \in X
  <2>1. p[1] \in A /\ p[2] \in X
    OBVIOUS
  <2> HIDE DEF A, c
  <2>2. c[p[1]] \in Seq(Byte)
    BY <1>5, <2>1
  <2> QED BY <2>1, <2>2
<1>7. s \in [A \X X -> X]
  <2> HIDE DEF A, X, c
  <2> QED BY <1>6
<1>8. \A i \in A, w \in X : s[<<i, w>>] = <<c[i]>> \o w
  <2> HIDE DEF A, X, c
  <2> QED OBVIOUS
<1>9. m[0] = 0 /\ r[0] = 0 /\ b[0] = << >> /\ 0 \in A /\ \A i \in 1 .. n : r[i] = StartAfter(t, D, i) /\ i \in A
  BY <1>0
<1>10. \A i \in 1 .. n : c[i] = Cut(t, i, NextIn(t, D, i))
  BY <1>0
<1> HIDE DEF A, X, m, r, b, s, c
<1>11. PICK f \in [A -> X] : \A i \in A : Recurs(A, m, r, b, s, f, i)
  BY <1>1, <1>3, <1>4, <1>7, RecursExists
<1>12. ASSUME NEW i \in A PROVE f[i] = WordsFrom(t, D, f, i)
  <2>1. f[i] = IF m[r[i]] < m[i] THEN s[<<i, f[r[i]]>>] ELSE b[i]
    BY <1>11 DEF Recurs
  <2>2. CASE i = 0
    <3>1. f[0] = << >>
      BY <1>9, <2>1, <2>2
    <3> QED BY <2>2, <3>1 DEF WordsFrom
  <2>3. CASE i # 0
    <3>1. i \in 1 .. n
      BY <1>0, <2>3 DEF A
    <3>2. r[i] = StartAfter(t, D, i) /\ r[i] \in A /\ m[r[i]] < m[i] /\ f[r[i]] \in X
      BY <1>2, <1>9, <3>1
    <3>3. f[i] = <<c[i]>> \o f[r[i]]
      BY <1>8, <2>1, <3>2
    <3> QED BY <1>10, <2>3, <3>1, <3>2, <3>3 DEF WordsFrom
  <2> QED BY <2>2, <2>3
<1>13. f = [i \in A |-> WordsFrom(t, D, f, i)]
  BY <1>12
<1> QED BY <1>13 DEF Tokens, A

(* The words are texts.                                                    *)
LEMMA TokensTyped ==
  ASSUME NEW t \in Seq(Byte), NEW D, NEW f, Tokens(t, D, f)
  PROVE  \A last \in 0 .. Len(t) : f[last] \in Seq(Seq(Byte))
<1> DEFINE n == Len(t)
           X == Seq(Byte)
           P == {k \in Nat : \A i \in 0 .. n : i = 0 \/ i > n - k => f[i] \in Seq(X)}
<1>0. n \in Nat /\ \A i \in 0 .. n : f[i] = WordsFrom(t, D, f, i)
  BY DEF Tokens
<1>1. f[0] \in Seq(X)
  <2>1. f[0] = << >>
    <3>1. 0 \in 0 .. n
      BY <1>0
    <3> QED BY <1>0, <3>1 DEF WordsFrom
  <2> QED BY <2>1
<1>2. 0 \in P
  <2>1. ASSUME NEW i \in 0 .. n, i = 0 \/ i > n - 0 PROVE f[i] \in Seq(X)
    <3>1. i = 0
      BY <1>0, <2>1
    <3> QED BY <1>1, <3>1
  <2> QED BY <2>1
<1>3. ASSUME NEW k \in Nat, k \in P PROVE k + 1 \in P
  <2>1. ASSUME NEW i \in 0 .. n, i = 0 \/ i > n - (k + 1) PROVE f[i] \in Seq(X)
    <3>1. CASE i = 0
      BY <1>1, <3>1
    <3>2. CASE i # 0
      <4> DEFINE q == StartAfter(t, D, i)
                 w == Cut(t, i, NextIn(t, D, i))
      <4>1. i \in 1 .. n
        BY <1>0, <3>2
      <4>2. f[i] = <<w>> \o f[q]
        BY <1>0, <3>2 DEF WordsFrom
      <4>3. w \in X
        BY <4>1, CutIsText
      <4>4. q = 0 \/ (q \in i .. n /\ q # i)
        BY <4>1, StartStays
      <4> HIDE DEF q, w
      <4>5. q \in 0 .. n /\ (q = 0 \/ q > n - k)
        BY <1>0, <2>1, <4>1, <4>4
      <4>6. f[q] \in Seq(X)
        BY <1>3, <4>5
      <4> HIDE DEF X
      <4> QED BY <4>2, <4>3, <4>6
    <3> QED BY <3>1, <3>2
  <2> HIDE DEF X
  <2> QED BY <2>1
<1> HIDE DEF P
<1>4. Nat \subseteq P
  BY <1>2, <1>3, Induct
<1>5. n \in P
  BY <1>0, <1>4
<1>6. ASSUME NEW i \in 0 .. n PROVE f[i] \in Seq(X)
  <2>1. i = 0 \/ i > n - n
    BY <1>0
  <2> QED BY <1>5, <2>1 DEF P
<1> QED BY <1>6

(* What Tokenize answers.                                                  *)
TokenizesBy(t, D, f) ==
  Tokens(t, D, f) /\ Tokenize(t, D) = f[NextNotIn(t, D, 1)]

(* Tokenize is one of the functions that solve its equations.              *)
LEMMA TokenizeIs ==
  ASSUME NEW t \in Seq(Byte), NEW D
  PROVE  /\ \E f : TokenizesBy(t, D, f)
         /\ Tokenize(t, D) \in Seq(Seq(Byte))
<1> DEFINE f == CHOOSE f : Tokens(t, D, f)
           q == NextNotIn(t, D, 1)
<1>1. Tokens(t, D, f)
  BY TokensExist
<1>2. Tokenize(t, D) = f[q]
  BY DEF Tokenize, Tokens, WordsFrom, StartAfter
<1> HIDE DEF f
<1>3. TokenizesBy(t, D, f)
  BY <1>1, <1>2 DEF TokenizesBy
<1>4. q \in 0 .. Len(t)
  <2>1. Len(t) \in Nat /\ 1 \in 1 .. Len(t) + 1
    OBVIOUS
  <2>2. Passed(t, D, 1, q)
    BY <2>1, Finds
  <2> HIDE DEF q
  <2> QED BY <2>1, <2>2 DEF Passed
<1> HIDE DEF q
<1>5. f[q] \in Seq(Seq(Byte))
  BY <1>1, <1>4, TokensTyped
<1> QED BY <1>2, <1>3, <1>5

(* A position behind p more bytes; npos stays what it is.                  *)
Moved(x, p) == IF x = 0 THEN 0 ELSE x + p

(* t is u behind k other bytes.                                            *)
Behind(t, u, k) == Len(t) = k + Len(u) /\ \A i \in 1 .. Len(u) : t[i + k] = u[i]

(* A text behind another.                                                  *)
LEMMA BehindPrefix ==
  ASSUME NEW p \in Seq(Byte), NEW u \in Seq(Byte)
  PROVE  p \o u \in Seq(Byte) /\ Behind(p \o u, u, Len(p)) /\ \A i \in 1 .. Len(p) : (p \o u)[i] = p[i]
<1> DEFINE t == p \o u
<1>1. t \in Seq(Byte) /\ Len(t) = Len(p) + Len(u) /\ Len(p) \in Nat /\ Len(u) \in Nat
      /\ \A i \in 1 .. Len(p) + Len(u) : t[i] = IF i <= Len(p) THEN p[i] ELSE u[i - Len(p)]
  OBVIOUS
<1> HIDE DEF t
<1>2. ASSUME NEW i \in 1 .. Len(u) PROVE t[i + Len(p)] = u[i]
  <2> DEFINE j == i + Len(p)
  <2>1. j \in 1 .. Len(p) + Len(u) /\ ~ j <= Len(p) /\ j - Len(p) = i
    BY <1>1
  <2> HIDE DEF j
  <2>2. t[j] = u[j - Len(p)]
    BY <1>1, <2>1
  <2> QED BY <2>1, <2>2 DEF j
<1>3. ASSUME NEW i \in 1 .. Len(p) PROVE t[i] = p[i]
  BY <1>1
<1>4. Behind(t, u, Len(p))
  BY <1>1, <1>2 DEF Behind
<1> QED BY <1>1, <1>3, <1>4 DEF t

(* There is one place of which Found holds.                                *)
LEMMA FoundOnce ==
  ASSUME NEW t \in Seq(Byte), NEW D, NEW from \in 1 .. Len(t) + 1,
         NEW x, Found(t, D, from, x), NEW y, Found(t, D, from, y)
  PROVE  x = y
<1>0. Len(t) \in Nat /\ from \in Nat \ {0}
  OBVIOUS
<1> DEFINE Hit(z) == z \in from .. Len(t) /\ t[z] \in D /\ \A i \in from .. z - 1 : t[i] \notin D
           None == \A i \in from .. Len(t) : t[i] \notin D
<1>1. (x = 0 /\ None) \/ Hit(x)
  BY DEF Found
<1>2. (y = 0 /\ None) \/ Hit(y)
  BY DEF Found
<1>3. ~ (None /\ Hit(x)) /\ ~ (None /\ Hit(y))
  OBVIOUS
<1>4. ASSUME Hit(x), Hit(y) PROVE x = y
  <2>1. x \in Nat /\ y \in Nat /\ x >= from /\ y >= from
    BY <1>0, <1>4
  <2>2. ~ x < y
    <3>1. x < y => x \in from .. y - 1
      BY <1>0, <2>1
    <3> QED BY <1>4, <3>1
  <2>3. ~ y < x
    <3>1. y < x => y \in from .. x - 1
      BY <1>0, <2>1
    <3> QED BY <1>4, <3>1
  <2> QED BY <2>1, <2>2, <2>3
<1> HIDE DEF Hit, None
<1> QED BY <1>1, <1>2, <1>3, <1>4

(* What is found from a place in t is what is found from a place in u, if  *)
(* there is nothing to be found in between.                                *)
LEMMA NextMoved ==
  ASSUME NEW t \in Seq(Byte), NEW u \in Seq(Byte), NEW k \in Nat, Behind(t, u, k), NEW D,
         NEW a \in 1 .. Len(t) + 1, NEW b \in 1 .. Len(u) + 1, a <= b + k,
         \A i \in a .. b + k - 1 : t[i] \notin D
  PROVE  NextIn(t, D, a) = Moved(NextIn(u, D, b), k)
<1> DEFINE x == NextIn(u, D, b)
           y == Moved(x, k)
<1>0. Len(t) \in Nat /\ Len(u) \in Nat /\ Len(t) = k + Len(u) /\ a \in Nat \ {0} /\ b \in Nat \ {0}
      /\ \A i \in 1 .. Len(u) : t[i + k] = u[i]
  BY DEF Behind
<1>1. Found(u, D, b, x)
  BY Finds
<1> HIDE DEF x
<1>2. ASSUME x = 0 /\ \A i \in b .. Len(u) : u[i] \notin D PROVE Found(t, D, a, y)
  <2>1. ASSUME NEW i \in a .. Len(t) PROVE t[i] \notin D
    <3>1. CASE i <= b + k - 1
      <4>1. i \in a .. b + k - 1
        BY <1>0, <3>1
      <4> QED BY <4>1
    <3>2. CASE ~ i <= b + k - 1
      <4> DEFINE j == i - k
      <4>1. j \in b .. Len(u) /\ j \in 1 .. Len(u) /\ j + k = i
        BY <1>0, <3>2
      <4> HIDE DEF j
      <4> QED BY <1>0, <1>2, <4>1
    <3> QED BY <3>1, <3>2
  <2>2. y = 0
    BY <1>2 DEF Moved
  <2> QED BY <2>1, <2>2 DEF Found
<1>3. ASSUME x \in b .. Len(u) /\ u[x] \in D /\ \A i \in b .. x - 1 : u[i] \notin D PROVE Found(t, D, a, y)
  <2>1. x \in 1 .. Len(u) /\ y = x + k /\ t[y] = u[x]
    <3>1. x \in 1 .. Len(u) /\ x # 0
      BY <1>0, <1>3
    <3>2. y = x + k
      BY <3>1 DEF Moved
    <3> QED BY <1>0, <3>1, <3>2
  <2> HIDE DEF y
  <2>2. ASSUME NEW i \in a .. y - 1 PROVE t[i] \notin D
    <3>1. CASE i <= b + k - 1
      <4>1. i \in a .. b + k - 1
        BY <1>0, <3>1
      <4> QED BY <4>1
    <3>2. CASE ~ i <= b + k - 1
      <4> DEFINE j == i - k
      <4>1. j \in b .. x - 1 /\ j \in 1 .. Len(u) /\ j + k = i
        BY <1>0, <2>1, <3>2
      <4> HIDE DEF j
      <4> QED BY <1>0, <1>3, <4>1
    <3> QED BY <3>1, <3>2
  <2>3. y \in a .. Len(t)
    BY <1>0, <1>3, <2>1
  <2>4. Found(t, D, a, y)
    BY <1>3, <2>1, <2>2, <2>3 DEF Found
  <2> QED BY <2>4
<1>4. Found(t, D, a, y)
  <2> HIDE DEF y
  <2>1. (x = 0 /\ \A i \in b .. Len(u) : u[i] \notin D)
        \/ (x \in b .. Len(u) /\ u[x] \in D /\ \A i \in b .. x - 1 : u[i] \notin D)
    BY <1>1 DEF Found
  <2> QED BY <1>2, <1>3, <2>1
<1> HIDE DEF y
<1>5. Found(t, D, a, NextIn(t, D, a))
  BY Finds
<1>6. NextIn(t, D, a) = y
  BY <1>4, <1>5, FoundOnce
<1> QED BY <1>6 DEF x, y

(* What is cut out of t is what is cut out of u.                           *)
LEMMA CutMoved ==
  ASSUME NEW t \in Seq(Byte), NEW u \in Seq(Byte), NEW k \in Nat, Behind(t, u, k),
         NEW last \in 1 .. Len(u), NEW pos \in {0} \cup (last .. Len(u))
  PROVE  Cut(t, last + k, Moved(pos, k)) = Cut(u, last, pos)
<1> DEFINE e == IF pos = 0 THEN Len(u) ELSE pos - 1
           x == SubSeq(u, last, e)
           y == SubSeq(t, last + k, e + k)
<1>0. Len(t) \in Nat /\ Len(u) \in Nat /\ Len(t) = k + Len(u) /\ \A i \in 1 .. Len(u) : t[i + k] = u[i]
  BY DEF Behind
<1>1. e \in last - 1 .. Len(u) /\ e \in Nat /\ last \in Nat \ {0}
  BY <1>0
<1>2. Cut(u, last, pos) = x /\ Cut(t, last + k, Moved(pos, k)) = y
  <2>1. Cut(u, last, pos) = x
    BY DEF Cut
  <2>2. (IF Moved(pos, k) = 0 THEN Len(t) ELSE Moved(pos, k) - 1) = e + k
    BY <1>0 DEF Moved
  <2>3. Cut(t, last + k, Moved(pos, k)) = SubSeq(t, last + k, IF Moved(pos, k) = 0 THEN Len(t) ELSE Moved(pos, k) - 1)
    BY DEF Cut
  <2> QED BY <2>1, <2>2, <2>3
<1> HIDE DEF e
<1>3. x \in Seq(Byte) /\ Len(x) = e - last + 1 /\ \A i \in 1 .. e - last + 1 : x[i] = u[last + i - 1]
  BY <1>0, <1>1
<1> DEFINE a == last + k
           c == e + k
<1>4. y \in Seq(Byte) /\ Len(y) = e - last + 1 /\ \A i \in 1 .. e - last + 1 : y[i] = t[last + k + i - 1]
  <2>1. a \in Nat \ {0} /\ c \in Nat /\ c \in a - 1 .. Len(t) /\ c - a = e - last
    BY <1>0, <1>1
  <2>2. y = SubSeq(t, a, c)
    OBVIOUS
  <2> HIDE DEF y, a, c
  <2>3. SubSeq(t, a, c) \in Seq(Byte) /\ Len(SubSeq(t, a, c)) = c - a + 1
        /\ \A i \in 1 .. c - a + 1 : SubSeq(t, a, c)[i] = t[a + i - 1]
    <3>1. Len(SubSeq(t, a, c)) = c - a + 1
      BY <1>0, <2>1
    <3>2. ASSUME NEW i \in 1 .. c - a + 1 PROVE SubSeq(t, a, c)[i] = t[a + i - 1]
      BY <1>0, <2>1
    <3>3. SubSeq(t, a, c) \in Seq(Byte)
      BY <1>0, <2>1
    <3> QED BY <3>1, <3>2, <3>3
  <2> QED BY <2>1, <2>2, <2>3 DEF a
<1> HIDE DEF x, y
<1>5. ASSUME NEW i \in 1 .. Len(x) PROVE x[i] = y[i]
  <2> DEFINE j == last + i - 1
  <2>1. i \in 1 .. e - last + 1 /\ j \in 1 .. Len(u) /\ last + k + i - 1 = j + k
    BY <1>0, <1>1, <1>3
  <2>2. x[i] = u[j] /\ y[i] = t[last + k + i - 1]
    BY <1>3, <1>4, <2>1
  <2> HIDE DEF j
  <2>3. t[j + k] = u[j]
    BY <1>0, <2>1
  <2> QED BY <2>1, <2>2, <2>3
<1>6. x = y
  BY <1>3, <1>4, <1>5, SameSeq
<1> QED BY <1>2, <1>6

(* The search for what is no delimiter, in the same two places.            *)
LEMMA NextNotMoved ==
  ASSUME NEW t \in Seq(Byte), NEW u \in Seq(Byte), NEW k \in Nat, Behind(t, u, k), NEW D,
         NEW a \in 1 .. Len(t) + 1, NEW b \in 1 .. Len(u) + 1, a <= b + k,
         \A i \in a .. b + k - 1 : t[i] \in D
  PROVE  NextNotIn(t, D, a) = Moved(NextNotIn(u, D, b), k)
<1> DEFINE N == Byte \ D
<1>1. \A i \in a .. b + k - 1 : t[i] \notin N
  OBVIOUS
<1>2. NextNotIn(t, D, a) = NextIn(t, N, a) /\ NextNotIn(u, D, b) = NextIn(u, N, b)
  BY DEF NextNotIn, Byte
<1> HIDE DEF N
<1> QED BY <1>1, <1>2, NextMoved

(* From the place of u on, t has the words of u.                           *)
LEMMA TokensMoved ==
  ASSUME NEW t \in Seq(Byte), NEW u \in Seq(Byte), NEW k \in Nat, Behind(t, u, k), NEW D,
         NEW f, Tokens(t, D, f), NEW g, Tokens(u, D, g)
  PROVE  \A last \in 0 .. Len(u) : f[Moved(last, k)] = g[last]
<1> DEFINE n == Len(u)
           Same(i) == f[Moved(i, k)] = g[i]
           P == {j \in Nat : \A i \in 0 .. n : i = 0 \/ i > n - j => Same(i)}
<1>0. n \in Nat /\ Len(t) = n + k /\ Len(t) \in Nat
  BY DEF Behind
<1>1. (\A i \in 0 .. n : g[i] = WordsFrom(u, D, g, i)) /\ \A i \in 0 .. n + k : f[i] = WordsFrom(t, D, f, i)
  BY <1>0 DEF Tokens
<1>2. Same(0)
  <2>1. 0 \in 0 .. n /\ 0 \in 0 .. n + k
    BY <1>0
  <2>2. f[0] = << >> /\ g[0] = << >>
    BY <1>1, <2>1 DEF WordsFrom
  <2> QED BY <2>2 DEF Moved
<1>3. 0 \in P
  <2>1. ASSUME NEW i \in 0 .. n, i = 0 \/ i > n - 0 PROVE Same(i)
    <3>1. i = 0
      BY <1>0, <2>1
    <3> HIDE DEF Same
    <3> QED BY <1>2, <3>1
  <2> HIDE DEF Same
  <2> QED BY <2>1
<1>4. ASSUME NEW j \in Nat, j \in P PROVE j + 1 \in P
  <2>1. ASSUME NEW i \in 0 .. n, i = 0 \/ i > n - (j + 1) PROVE Same(i)
    <3>1. CASE i = 0
      <4> HIDE DEF Same
      <4> QED BY <1>2, <3>1
    <3>2. CASE i # 0
      <4> DEFINE x == NextIn(u, D, i)
                 q == NextNotIn(u, D, x)
                 ik == i + k
      <4>0. Moved(i, k) = ik /\ i \in 1 .. n /\ ik \in 1 .. Len(t) /\ ik # 0
        BY <1>0, <3>2 DEF Moved
      <4>1. NextIn(t, D, ik) = Moved(x, k)
        <5>1. i \in 1 .. Len(u) + 1 /\ ik \in 1 .. Len(t) + 1 /\ ik <= i + k /\ \A l \in ik .. i + k - 1 : t[l] \notin D
          BY <1>0, <4>0
        <5> HIDE DEF ik
        <5> QED BY <5>1, NextMoved
      <4>2. x \in {0} \cup (i .. n) /\ Cut(t, ik, Moved(x, k)) = Cut(u, i, x)
        <5>1. x \in {0} \cup (i .. n)
          BY <4>0, CutIsText
        <5> HIDE DEF x
        <5> QED BY <4>0, <5>1, CutMoved
      <4>3. NextNotIn(t, D, Moved(x, k)) = Moved(q, k)
        <5>1. CASE x = 0
          <6>1. Moved(x, k) = 0 /\ q = 0
            BY <5>1, NextNotInNone DEF Moved
          <6> HIDE DEF x, q
          <6>2. NextNotIn(t, D, 0) = 0
            BY NextNotInNone
          <6> QED BY <6>1, <6>2 DEF Moved
        <5>2. CASE x # 0
          <6> HIDE DEF x
          <6> DEFINE y == x + k
          <6>1. Moved(x, k) = y /\ x \in 1 .. Len(u) + 1 /\ y \in 1 .. Len(t) + 1 /\ y <= x + k
                /\ \A l \in y .. x + k - 1 : t[l] \in D
            BY <1>0, <4>0, <4>2, <5>2 DEF Moved
          <6> HIDE DEF y
          <6>2. NextNotIn(t, D, y) = Moved(NextNotIn(u, D, x), k)
            BY <6>1, NextNotMoved
          <6> QED BY <6>1, <6>2
        <5> QED BY <5>1, <5>2
      <4>4. StartAfter(t, D, ik) = Moved(q, k) /\ StartAfter(u, D, i) = q
        <5> HIDE DEF ik, x
        <5> QED BY <4>1, <4>3 DEF StartAfter, x
      <4>5. q = 0 \/ (q \in i .. n /\ q # i)
        <5>1. StartAfter(u, D, i) = 0 \/ (StartAfter(u, D, i) \in i .. n /\ StartAfter(u, D, i) # i)
          BY <4>0, StartStays
        <5> HIDE DEF q
        <5> QED BY <4>4, <5>1
      <4> HIDE DEF ik, x, q
      <4>6. Same(q)
        <5>1. q \in 0 .. n /\ (q = 0 \/ q > n - j)
          BY <1>0, <2>1, <4>0, <4>5
        <5> HIDE DEF Same
        <5> QED BY <1>4, <5>1
      <4>7. f[ik] = <<Cut(t, ik, Moved(x, k))>> \o f[Moved(q, k)]
        <5>1. ik \in 0 .. n + k
          BY <1>0, <4>0
        <5>2. f[ik] = WordsFrom(t, D, f, ik)
          BY <1>1, <5>1
        <5> QED BY <4>0, <4>1, <4>4, <5>2 DEF WordsFrom
      <4>8. g[i] = <<Cut(u, i, x)>> \o g[q]
        <5>2. g[i] = WordsFrom(u, D, g, i)
          BY <1>1
        <5> QED BY <3>2, <4>4, <5>2 DEF WordsFrom, x
      <4> QED BY <4>0, <4>2, <4>6, <4>7, <4>8
    <3> QED BY <3>1, <3>2
  <2> HIDE DEF Same
  <2> QED BY <2>1
<1> HIDE DEF P
<1>5. Nat \subseteq P
  BY <1>3, <1>4, Induct
<1>6. n \in P
  BY <1>0, <1>5
<1>7. ASSUME NEW i \in 0 .. n PROVE Same(i)
  <2>1. i = 0 \/ i > n - n
    BY <1>0
  <2> HIDE DEF Same
  <2> QED BY <1>6, <2>1 DEF P
<1> QED BY <1>7

(* Behind delimiters come the words of the rest.                           *)
LEMMA WordsBehind ==
  ASSUME NEW t \in Seq(Byte), NEW u \in Seq(Byte), NEW k \in Nat, Behind(t, u, k), NEW D,
         NEW f, Tokens(t, D, f), NEW a \in 1 .. k + 1, \A i \in a .. k : t[i] \in D
  PROVE  f[NextNotIn(t, D, a)] = Tokenize(u, D)
<1>1. PICK g : TokenizesBy(u, D, g)
  BY TokenizeIs
<1> DEFINE q == NextNotIn(u, D, 1)
<1>2. Tokens(u, D, g) /\ Tokenize(u, D) = g[q]
  BY <1>1 DEF TokenizesBy
<1>3. Len(u) \in Nat /\ Len(t) = k + Len(u) /\ 1 \in 1 .. Len(u) + 1
  BY DEF Behind
<1>4. NextNotIn(t, D, a) = Moved(q, k)
  <2>1. a \in 1 .. Len(t) + 1 /\ a <= 1 + k /\ \A i \in a .. 1 + k - 1 : t[i] \in D
    BY <1>3
  <2> QED BY <1>3, <2>1, NextNotMoved
<1>5. q \in 0 .. Len(u)
  <2>1. Passed(u, D, 1, q)
    BY <1>3, Finds
  <2> HIDE DEF q
  <2> QED BY <1>3, <2>1 DEF Passed
<1> HIDE DEF q
<1>6. \A last \in 0 .. Len(u) : f[Moved(last, k)] = g[last]
  BY <1>2, TokensMoved
<1> QED BY <1>2, <1>4, <1>5, <1>6

(* A text of delimiters.                                                   *)
LEMMA WordsNothing ==
  ASSUME NEW D
  PROVE  Tokenize(<< >>, D) = << >>
<1> DEFINE t == << >>
<1>0. t \in Seq(Byte) /\ Len(t) = 0
  OBVIOUS
<1> HIDE DEF t
<1>1. PICK f : TokenizesBy(t, D, f)
  BY <1>0, TokenizeIs
<1> DEFINE q == NextNotIn(t, D, 1)
<1>2. q = 0
  <2>0. 1 \in 1 .. Len(t) + 1
    BY <1>0
  <2>1. Passed(t, D, 1, q)
    BY <1>0, <2>0, Finds
  <2> HIDE DEF q
  <2> QED BY <1>0, <2>1 DEF Passed
<1>3. f[0] = << >>
  <2>1. 0 \in 0 .. Len(t)
    BY <1>0
  <2>2. Tokens(t, D, f)
    BY <1>1 DEF TokenizesBy
  <2> QED BY <2>1, <2>2 DEF Tokens, WordsFrom
<1> QED BY <1>1, <1>2, <1>3 DEF TokenizesBy, t

(* A delimiter in front changes nothing.                                   *)
LEMMA WordsSkip ==
  ASSUME NEW d \in Byte, NEW u \in Seq(Byte), NEW D, d \in D
  PROVE  Tokenize(<<d>> \o u, D) = Tokenize(u, D)
<1> DEFINE p == <<d>>
           t == p \o u
<1>1. p \in Seq(Byte) /\ Len(p) = 1 /\ p[1] = d
  OBVIOUS
<1> HIDE DEF p
<1>2. t \in Seq(Byte) /\ Behind(t, u, 1) /\ t[1] = d
  <2>1. p \o u \in Seq(Byte) /\ Behind(p \o u, u, Len(p)) /\ \A i \in 1 .. Len(p) : (p \o u)[i] = p[i]
    BY <1>1, BehindPrefix
  <2> HIDE DEF t
  <2>2. 1 \in 1 .. Len(p)
    BY <1>1
  <2> QED BY <1>1, <2>1, <2>2 DEF t
<1> HIDE DEF t
<1>3. PICK f : TokenizesBy(t, D, f)
  BY <1>2, TokenizeIs
<1>4. Tokens(t, D, f) /\ Tokenize(t, D) = f[NextNotIn(t, D, 1)]
  BY <1>3 DEF TokenizesBy
<1>5. \A i \in 1 .. 1 : t[i] \in D
  BY <1>2
<1>6. 1 \in Nat /\ 1 \in 1 .. 1 + 1
  OBVIOUS
<1>7. f[NextNotIn(t, D, 1)] = Tokenize(u, D)
  BY <1>2, <1>4, <1>5, <1>6, WordsBehind
<1> QED BY <1>4, <1>7 DEF t, p

(* A text without delimiters is a word.                                    *)
LEMMA WordsOne ==
  ASSUME NEW w \in Seq(Byte), w # << >>, NEW D, \A i \in 1 .. Len(w) : w[i] \notin D
  PROVE  Tokenize(w, D) = <<w>>
<1>0. Len(w) \in Nat \ {0} /\ 1 \in 1 .. Len(w) + 1 /\ 1 \in 0 .. Len(w) /\ 0 \in 0 .. Len(w)
  OBVIOUS
<1>1. PICK f : TokenizesBy(w, D, f)
  BY TokenizeIs
<1>2. Tokenize(w, D) = f[NextNotIn(w, D, 1)] /\ (\A i \in 0 .. Len(w) : f[i] = WordsFrom(w, D, f, i))
  BY <1>1 DEF TokenizesBy, Tokens
<1>3. NextNotIn(w, D, 1) = 1
  <2> DEFINE q == NextNotIn(w, D, 1)
  <2>1. Passed(w, D, 1, q)
    BY <1>0, Finds
  <2>2. Found(w, Byte \ D, 1, 1)
    <3>1. 1 \in 1 .. Len(w) /\ w[1] \in Byte \ D /\ \A i \in 1 .. 1 - 1 : w[i] \notin Byte \ D
      BY <1>0
    <3> QED BY <3>1 DEF Found
  <2>3. q = NextIn(w, Byte \ D, 1)
    BY DEF NextNotIn, Byte
  <2>4. Found(w, Byte \ D, 1, NextIn(w, Byte \ D, 1))
    BY <1>0, Finds
  <2>5. NextIn(w, Byte \ D, 1) = 1
    BY <1>0, <2>2, <2>4, FoundOnce
  <2> QED BY <2>3, <2>5
<1>4. NextIn(w, D, 1) = 0
  <2>1. Found(w, D, 1, 0)
    BY DEF Found
  <2>2. Found(w, D, 1, NextIn(w, D, 1))
    BY <1>0, Finds
  <2> QED BY <1>0, <2>1, <2>2, FoundOnce
<1>5. StartAfter(w, D, 1) = 0 /\ Cut(w, 1, 0) = w
  <2>1. StartAfter(w, D, 1) = 0
    BY <1>4, NextNotInNone DEF StartAfter
  <2>2. SubSeq(w, 1, Len(w)) = w
    OBVIOUS
  <2> QED BY <2>1, <2>2 DEF Cut
<1>6. f[0] = << >> /\ f[1] = <<w>> \o f[0]
  <2>1. f[0] = << >>
    BY <1>0, <1>2 DEF WordsFrom
  <2>2. f[1] = WordsFrom(w, D, f, 1)
    BY <1>0, <1>2
  <2>3. WordsFrom(w, D, f, 1) = <<Cut(w, 1, NextIn(w, D, 1))>> \o f[StartAfter(w, D, 1)]
    BY DEF WordsFrom
  <2>4. f[1] = <<w>> \o f[0]
    BY <1>4, <1>5, <2>2, <2>3
  <2> QED BY <2>1, <2>4
<1>7. <<w>> \o << >> = <<w>>
  OBVIOUS
<1> QED BY <1>2, <1>3, <1>6, <1>7

(* The word before the first delimiter comes first.                        *)
LEMMA WordsCons ==
  ASSUME NEW w \in Seq(Byte), w # << >>, NEW d \in Byte, NEW u \in Seq(Byte), NEW D,
         \A i \in 1 .. Len(w) : w[i] \notin D, d \in D
  PROVE  Tokenize(Append(w, d) \o u, D) = <<w>> \o Tokenize(u, D)
<1> DEFINE p == Append(w, d)
           t == p \o u
           l == Len(w)
<1>1. p \in Seq(Byte) /\ Len(p) = l + 1 /\ l \in Nat \ {0} /\ p[l + 1] = d /\ \A i \in 1 .. l : p[i] = w[i]
  OBVIOUS
<1> HIDE DEF p
<1>2. t \in Seq(Byte) /\ Behind(t, u, l + 1) /\ t[l + 1] = d /\ \A i \in 1 .. l : t[i] = w[i]
  <2>1. t \in Seq(Byte) /\ Behind(t, u, Len(p)) /\ \A i \in 1 .. Len(p) : t[i] = p[i]
    BY <1>1, BehindPrefix
  <2> HIDE DEF t
  <2>2. l + 1 \in 1 .. Len(p) /\ \A i \in 1 .. l : i \in 1 .. Len(p)
    BY <1>1
  <2>3. Behind(t, u, l + 1)
    BY <1>1, <2>1
  <2> QED BY <1>1, <2>1, <2>2, <2>3
<1>3. t = p \o u
  OBVIOUS
<1> HIDE DEF t, l
<1>4. Len(t) \in Nat /\ Len(t) = l + 1 + Len(u) /\ Len(u) \in Nat /\ 1 \in 1 .. Len(t) + 1 /\ 1 \in 0 .. Len(t)
      /\ l + 1 \in 1 .. Len(t)
  BY <1>1, <1>2 DEF Behind
<1>5. PICK f : TokenizesBy(t, D, f)
  BY <1>2, TokenizeIs
<1>6. Tokens(t, D, f) /\ Tokenize(t, D) = f[NextNotIn(t, D, 1)] /\ (\A i \in 0 .. Len(t) : f[i] = WordsFrom(t, D, f, i))
  BY <1>5 DEF TokenizesBy, Tokens
<1>7. \A i \in 1 .. l : t[i] \notin D
  BY <1>2 DEF l
<1>8. NextNotIn(t, D, 1) = 1
  <2> DEFINE N == Byte \ D
  <2>1. Found(t, N, 1, 1)
    <3>1. 1 \in 1 .. Len(t) /\ 1 \in 1 .. l
      BY <1>1, <1>4
    <3>2. t[1] \in N
      BY <1>2, <1>7, <3>1
    <3> QED BY <3>1, <3>2 DEF Found
  <2>2. NextNotIn(t, D, 1) = NextIn(t, N, 1)
    BY DEF NextNotIn, Byte
  <2> HIDE DEF N
  <2>3. Found(t, N, 1, NextIn(t, N, 1))
    BY <1>2, <1>4, Finds
  <2>4. NextIn(t, N, 1) = 1
    BY <1>2, <1>4, <2>1, <2>3, FoundOnce
  <2> QED BY <2>2, <2>4
<1>9. NextIn(t, D, 1) = l + 1
  <2>1. Found(t, D, 1, l + 1)
    <3>1. (l + 1) - 1 = l
      BY <1>1
    <3> QED BY <1>2, <1>4, <1>7, <3>1 DEF Found
  <2>2. Found(t, D, 1, NextIn(t, D, 1))
    BY <1>2, <1>4, Finds
  <2> QED BY <1>2, <1>4, <2>1, <2>2, FoundOnce
<1>10. Cut(t, 1, l + 1) = w
  <2>1. l + 1 # 0 /\ (l + 1) - 1 = l
    BY <1>1
  <2>2. Cut(t, 1, l + 1) = SubSeq(t, 1, l)
    BY <2>1 DEF Cut
  <2> DEFINE x == SubSeq(t, 1, l)
  <2>3. l \in 0 .. Len(t)
    BY <1>1, <1>4
  <2>4. x \in Seq(Byte) /\ Len(x) = l /\ \A i \in 1 .. l : x[i] = t[i]
    BY <1>2, <2>3, Opening
  <2> HIDE DEF x
  <2>5. x = w
    <3>1. Len(x) = Len(w) /\ \A i \in 1 .. Len(x) : x[i] = w[i]
      BY <1>2, <2>4 DEF l
    <3> QED BY <2>4, <3>1, SameSeq
  <2> QED BY <2>2, <2>5 DEF x
<1>11. f[StartAfter(t, D, 1)] = Tokenize(u, D)
  <2>1. l + 1 \in Nat /\ l + 1 \in 1 .. (l + 1) + 1 /\ \A i \in l + 1 .. l + 1 : t[i] \in D
    BY <1>1, <1>2
  <2> DEFINE k == l + 1
  <2>2. Behind(t, u, k) /\ k \in Nat /\ k \in 1 .. k + 1 /\ \A i \in k .. k : t[i] \in D
    BY <1>2, <2>1
  <2> HIDE DEF k
  <2>3. f[NextNotIn(t, D, k)] = Tokenize(u, D)
    BY <1>2, <1>6, <2>2, WordsBehind
  <2> QED BY <1>9, <2>3 DEF StartAfter, k
<1>12. f[1] = <<w>> \o Tokenize(u, D)
  <2>1. f[1] = WordsFrom(t, D, f, 1)
    BY <1>4, <1>6
  <2>2. WordsFrom(t, D, f, 1) = <<Cut(t, 1, NextIn(t, D, 1))>> \o f[StartAfter(t, D, 1)]
    BY DEF WordsFrom
  <2> QED BY <1>9, <1>10, <1>11, <2>1, <2>2
<1> QED BY <1>3, <1>6, <1>8, <1>12 DEF p

(* A text is nothing, or begins with a delimiter, or is a word, or begins  *)
(* with a word and a delimiter.                                            *)
Splits(t, D) ==
  \/ t = << >>
  \/ \E d \in Byte, u \in Seq(Byte) : t = <<d>> \o u /\ d \in D /\ Len(u) < Len(t)
  \/ t # << >> /\ \A i \in 1 .. Len(t) : t[i] \notin D
  \/ \E w \in Seq(Byte), d \in Byte, u \in Seq(Byte) :
       /\ t = Append(w, d) \o u /\ w # << >> /\ d \in D /\ Len(u) < Len(t)
       /\ \A i \in 1 .. Len(w) : w[i] \notin D

(* It does.                                                                *)
LEMMA TextSplits ==
  ASSUME NEW t \in Seq(Byte), NEW D
  PROVE  Splits(t, D)
<1> DEFINE n == Len(t)
<1>0. n \in Nat /\ \A i \in 1 .. n : t[i] \in Byte
  OBVIOUS
<1>1. CASE n = 0
  <2>1. t = << >>
    BY <1>1
  <2> QED BY <2>1 DEF Splits
<1>2. CASE n # 0 /\ t[1] \in D
  <2> DEFINE u == SubSeq(t, 2, n)
             d == t[1]
  <2>1. PICK k \in Nat : n = k + 1
    <3>1. n - 1 \in Nat /\ n = (n - 1) + 1
      BY <1>0, <1>2
    <3> QED BY <3>1
  <2>2. SubSeq(t, 2, k + 1) \in Seq(Byte) /\ Len(SubSeq(t, 2, k + 1)) = k /\ t = <<t[1]>> \o SubSeq(t, 2, k + 1)
    BY <2>1, HeadRest
  <2>3. u \in Seq(Byte) /\ Len(u) = k /\ t = <<d>> \o u
    BY <2>1, <2>2
  <2>4. d \in Byte
    <3>1. 1 \in 1 .. n
      BY <1>0, <1>2
    <3> QED BY <1>0, <3>1
  <2> HIDE DEF u, d
  <2>5. Len(u) < Len(t)
    BY <2>1, <2>3
  <2>6. d \in D
    BY <1>2 DEF d
  <2>7. \E dd \in Byte, uu \in Seq(Byte) : t = <<dd>> \o uu /\ dd \in D /\ Len(uu) < Len(t)
    BY <2>3, <2>4, <2>5, <2>6
  <2> QED BY <2>7 DEF Splits
<1>3. CASE n # 0 /\ t[1] \notin D
  <2> DEFINE p == NextIn(t, D, 1)
  <2>1. Found(t, D, 1, p)
    <3>1. 1 \in 1 .. Len(t) + 1
      BY <1>0
    <3> QED BY <3>1, Finds
  <2> HIDE DEF p
  <2>2. CASE p = 0 /\ \A i \in 1 .. n : t[i] \notin D
    <3>1. t # << >>
      BY <1>3
    <3> QED BY <2>2, <3>1 DEF Splits
  <2>3. CASE p \in 1 .. n /\ t[p] \in D /\ \A i \in 1 .. p - 1 : t[i] \notin D
    <3> DEFINE l == p - 1
               w == SubSeq(t, 1, l)
               d == t[p]
               u == SubSeq(t, p + 1, n)
               v == Append(w, d)
               z == v \o u
    <3>1. p # 1 /\ l \in 0 .. n /\ l \in Nat \ {0} /\ p \in Nat /\ d \in Byte
      BY <1>0, <1>3, <2>3
    <3>2. w \in Seq(Byte) /\ Len(w) = l /\ \A i \in 1 .. l : w[i] = t[i]
      <4> HIDE DEF l
      <4> QED BY <3>1, Opening
    <3>3. u \in Seq(Byte) /\ Len(u) = n - p /\ \A i \in 1 .. n - p : u[i] = t[p + i]
      <4>1. u \in Seq(Byte) /\ Len(u) = n - p
        BY <1>0, <2>3, <3>1
      <4>2. ASSUME NEW i \in 1 .. n - p PROVE u[i] = t[p + i]
        BY <1>0, <2>3, <3>1
      <4> QED BY <4>1, <4>2
    <3> HIDE DEF w, u, d
    <3>4. v \in Seq(Byte) /\ Len(v) = p /\ \A i \in 1 .. p : v[i] = IF i = p THEN d ELSE w[i]
      <4>1. v \in Seq(Byte) /\ Len(v) = l + 1
        BY <3>1, <3>2
      <4>2. ASSUME NEW i \in 1 .. p PROVE v[i] = IF i = p THEN d ELSE w[i]
        BY <3>1, <3>2
      <4> QED BY <3>1, <4>1, <4>2
    <3> HIDE DEF v
    <3>5. z \in Seq(Byte) /\ Len(z) = p + (n - p) /\ \A i \in 1 .. p + (n - p) : z[i] = IF i <= p THEN v[i] ELSE u[i - p]
      <4>1. v \in Seq(Byte) /\ u \in Seq(Byte) /\ Len(v) = p /\ Len(u) = n - p
        BY <3>3, <3>4
      <4> QED BY <4>1
    <3> HIDE DEF z
    <3>6. ASSUME NEW i \in 1 .. Len(t) PROVE t[i] = z[i]
      <4>1. i \in 1 .. p + (n - p) /\ i \in Nat
        BY <1>0, <3>1
      <4>2. CASE i = p
        BY <3>1, <3>4, <3>5, <4>1, <4>2 DEF d
      <4>3. CASE i < p
        <5>1. i \in 1 .. l /\ i \in 1 .. p /\ i # p
          BY <3>1, <4>1, <4>3
        <5> HIDE DEF l
        <5>2. z[i] = v[i] /\ v[i] = w[i] /\ w[i] = t[i]
          BY <3>1, <3>2, <3>4, <3>5, <4>1, <4>3, <5>1
        <5> QED BY <5>2
      <4>4. CASE i > p
        <5> DEFINE j == i - p
        <5>1. j \in 1 .. n - p /\ p + j = i /\ ~ i <= p
          BY <1>0, <3>1, <4>1, <4>4
        <5>2. z[i] = u[j]
          BY <3>5, <4>1, <5>1
        <5> HIDE DEF j
        <5>3. u[j] = t[i]
          BY <3>3, <5>1
        <5> QED BY <5>2, <5>3
      <4> QED BY <3>1, <4>1, <4>2, <4>3, <4>4
    <3>7. t = z
      <4>1. Len(t) = Len(z)
        BY <1>0, <3>1, <3>5
      <4> QED BY <3>5, <3>6, <4>1, SameSeq
    <3>8. w # << >> /\ Len(u) < Len(t) /\ d \in D /\ \A i \in 1 .. Len(w) : w[i] \notin D
      <4>1. w # << >>
        BY <3>1, <3>2
      <4>2. Len(u) < Len(t)
        BY <1>0, <3>1, <3>3
      <4>3. d \in D
        BY <2>3 DEF d
      <4>4. \A i \in 1 .. Len(w) : w[i] \notin D
        BY <2>3, <3>2
      <4> QED BY <4>1, <4>2, <4>3, <4>4
    <3>9. t = Append(w, d) \o u
      BY <3>7 DEF z, v
    <3>10. \E ww \in Seq(Byte), dd \in Byte, uu \in Seq(Byte) :
             /\ t = Append(ww, dd) \o uu /\ ww # << >> /\ dd \in D /\ Len(uu) < Len(t)
             /\ \A i \in 1 .. Len(ww) : ww[i] \notin D
      BY <3>1, <3>2, <3>3, <3>8, <3>9, Zenon
    <3> QED BY <3>10 DEF Splits
  <2> QED BY <2>1, <2>2, <2>3 DEF Found
<1> QED BY <1>1, <1>2, <1>3

(* As many places k bytes further on.                                      *)
LEMMA MovedCount ==
  ASSUME NEW S, S \subseteq Nat, IsFiniteSet(S), NEW k \in Nat
  PROVE  IsFiniteSet({i + k : i \in S}) /\ Cardinality({i + k : i \in S}) = Cardinality(S)
<1> DEFINE T == {i + k : i \in S}
           f == [i \in S |-> i + k]
<1>1. f \in [S -> T]
  OBVIOUS
<1>2. \A a, b \in S : f[a] = f[b] => a = b
  <2>1. ASSUME NEW a \in S, NEW b \in S, f[a] = f[b] PROVE a = b
    <3>1. a \in Nat /\ b \in Nat /\ f[a] = a + k /\ f[b] = b + k
      OBVIOUS
    <3>2. a + k = b + k
      BY <2>1, <3>1
    <3> QED BY <3>1, <3>2
  <2> QED BY <2>1
<1>3. \A y \in T : \E x \in S : f[x] = y
  OBVIOUS
<1> HIDE DEF T, f
<1>4. ExistsBijection(S, T)
  <2>1. f \in Bijection(S, T)
    BY <1>1, <1>2, <1>3, Zenon DEF Bijection, Injection, Surjection, IsInjective
  <2> QED BY <2>1 DEF ExistsBijection
<1>5. IsFiniteSet(T) /\ Cardinality(T) = Cardinality(S)
  BY <1>4, FS_Bijection
<1> QED BY <1>5 DEF T

(* The places where a word begins.                                         *)
StartsOf(t, D) == {i \in 1 .. Len(t) : t[i] \notin D /\ (i = 1 \/ t[i - 1] \in D)}

(* They can be counted.                                                    *)
LEMMA StartsFinite ==
  ASSUME NEW t \in Seq(Byte), NEW D
  PROVE  StartsOf(t, D) \subseteq Nat /\ IsFiniteSet(StartsOf(t, D))
<1>1. Len(t) \in Nat
  OBVIOUS
<1>2. IsFiniteSet(1 .. Len(t))
  BY <1>1, FS_Interval
<1>3. StartsOf(t, D) \in SUBSET (1 .. Len(t))
  BY DEF StartsOf
<1>4. IsFiniteSet(StartsOf(t, D))
  BY <1>2, <1>3, FS_Subset
<1> QED BY <1>1, <1>3, <1>4

(* Behind a delimiter words begin where they begin in the rest.            *)
LEMMA StartsBehind ==
  ASSUME NEW t \in Seq(Byte), NEW u \in Seq(Byte), NEW k \in Nat \ {0}, Behind(t, u, k), NEW D, t[k] \in D
  PROVE  StartsOf(t, D) = {i \in StartsOf(t, D) : i <= k} \cup {i + k : i \in StartsOf(u, D)}
<1>0. Len(t) \in Nat /\ Len(u) \in Nat /\ Len(t) = k + Len(u) /\ \A i \in 1 .. Len(u) : t[i + k] = u[i]
  BY DEF Behind
<1>1. ASSUME NEW j \in 1 .. Len(u) PROVE j + k \in StartsOf(t, D) <=> j \in StartsOf(u, D)
  <2>1. j + k \in 1 .. Len(t) /\ j + k # 1 /\ t[j + k] = u[j]
    BY <1>0
  <2>2. CASE j = 1
    <3>1. (j + k) - 1 = k
      BY <2>2
    <3>2. j + k \in StartsOf(t, D) <=> t[j + k] \notin D
      BY <2>1, <3>1 DEF StartsOf
    <3>3. j \in StartsOf(u, D) <=> u[j] \notin D
      BY <2>2 DEF StartsOf
    <3> QED BY <2>1, <3>2, <3>3
  <2>3. CASE j # 1
    <3> DEFINE h == j - 1
    <3>1. h \in 1 .. Len(u) /\ (j + k) - 1 = h + k
      BY <1>0, <2>3
    <3> HIDE DEF h
    <3>2. t[(j + k) - 1] = u[h]
      BY <1>0, <3>1
    <3>3. j + k \in StartsOf(t, D) <=> t[j + k] \notin D /\ u[h] \in D
      BY <2>1, <3>2 DEF StartsOf
    <3>4. j \in StartsOf(u, D) <=> u[j] \notin D /\ u[h] \in D
      BY <2>3 DEF StartsOf, h
    <3> QED BY <2>1, <3>3, <3>4
  <2> QED BY <2>2, <2>3
<1>2. ASSUME NEW i \in StartsOf(t, D), ~ i <= k PROVE i \in {j + k : j \in StartsOf(u, D)}
  <2> DEFINE j == i - k
  <2>1. j \in 1 .. Len(u) /\ j + k = i
    BY <1>0, <1>2 DEF StartsOf
  <2> HIDE DEF j
  <2>2. j \in StartsOf(u, D)
    BY <1>1, <1>2, <2>1
  <2> QED BY <2>1, <2>2
<1>3. ASSUME NEW j \in StartsOf(u, D) PROVE j + k \in StartsOf(t, D)
  <2>1. j \in 1 .. Len(u)
    BY DEF StartsOf
  <2> QED BY <1>1, <2>1
<1> QED BY <1>2, <1>3

(* How many words begin in t, from how many in the rest.                   *)
LEMMA StartsCount ==
  ASSUME NEW t \in Seq(Byte), NEW u \in Seq(Byte), NEW k \in Nat \ {0}, Behind(t, u, k), NEW D, t[k] \in D
  PROVE  /\ {i \in StartsOf(t, D) : i <= k} = {} => Cardinality(StartsOf(t, D)) = Cardinality(StartsOf(u, D))
         /\ {i \in StartsOf(t, D) : i <= k} = {1} => Cardinality(StartsOf(t, D)) = Cardinality(StartsOf(u, D)) + 1
<1> DEFINE T == StartsOf(t, D)
           U == StartsOf(u, D)
           V == {i + k : i \in U}
           L == {i \in T : i <= k}
<1>1. T = L \cup V
  BY StartsBehind
<1>2. IsFiniteSet(V) /\ Cardinality(V) = Cardinality(U)
  <2>1. U \subseteq Nat /\ IsFiniteSet(U)
    BY StartsFinite
  <2> HIDE DEF U
  <2> QED BY <2>1, MovedCount
<1>3. 1 \notin V
  <2>1. \A i \in U : i \in Nat \ {0}
    BY DEF StartsOf
  <2> HIDE DEF U
  <2>2. \A i \in U : i + k # 1
    BY <2>1
  <2> QED BY <2>2
<1> HIDE DEF T, U, V, L
<1>4. L = {} => Cardinality(T) = Cardinality(U)
  BY <1>1, <1>2
<1>5. L = {1} => Cardinality(T) = Cardinality(U) + 1
  <2>1. Cardinality(V \cup {1}) = Cardinality(V) + 1
    BY <1>2, <1>3, FS_AddElement
  <2>2. L = {1} => T = V \cup {1}
    BY <1>1
  <2> QED BY <1>2, <2>1, <2>2
<1> QED BY <1>4, <1>5 DEF T, U, L

(* A text made of bytes of C.                                              *)
Within(t, C) == \A i \in 1 .. Len(t) : t[i] \in C

(* Words are not empty and made of bytes of C that are no delimiters.      *)
AreWords(ws, D, C) == \A k \in 1 .. Len(ws) : ws[k] # << >> /\ Within(ws[k], C \ D)

(* The words of t: what is left without delimiters, as many as there are   *)
(* starts, none of them empty.                                             *)
SplitRight(t, D, C) ==
  /\ Tokenize(t, D) \in Seq(Seq(Byte))
  /\ Flatten(Tokenize(t, D)) = Keeping(t, Byte \ D)
  /\ Len(Tokenize(t, D)) = Cardinality(StartsOf(t, D))
  /\ AreWords(Tokenize(t, D), D, C)

(* Of nothing.                                                             *)
LEMMA SplitNothing ==
  ASSUME NEW D, NEW C
  PROVE  SplitRight(<< >>, D, C)
<1> DEFINE t == << >>
<1>1. Tokenize(t, D) = << >> /\ Flatten(<< >>) = << >> /\ Keeping(t, Byte \ D) = << >>
  BY WordsNothing, FlattenNothing, KeepingNothing
<1>2. StartsOf(t, D) = {}
  BY DEF StartsOf
<1>3. Cardinality({}) = 0
  BY FS_EmptySet
<1>4. << >> \in Seq(Seq(Byte)) /\ Len(<< >>) = 0
  OBVIOUS
<1>5. AreWords(<< >>, D, C)
  BY <1>4 DEF AreWords
<1> HIDE DEF t
<1>6. SplitRight(t, D, C)
  BY <1>1, <1>2, <1>3, <1>4, <1>5 DEF SplitRight
<1> QED BY <1>6 DEF t

(* Of a text behind a delimiter.                                           *)
LEMMA SplitSkip ==
  ASSUME NEW d \in Byte, NEW u \in Seq(Byte), NEW D, d \in D, NEW C, SplitRight(u, D, C)
  PROVE  SplitRight(<<d>> \o u, D, C)
<1> DEFINE p == <<d>>
           t == p \o u
<1>1. p \in Seq(Byte) /\ Len(p) = 1 /\ p[1] = d
  OBVIOUS
<1>2. Tokenize(t, D) = Tokenize(u, D)
  BY WordsSkip
<1>3. Keeping(t, Byte \ D) = Keeping(u, Byte \ D)
  <2>1. d \notin Byte \ D
    OBVIOUS
  <2> DEFINE S == Byte \ D
  <2> HIDE DEF S
  <2>2. Keeping(<<d>> \o u, S) = IF d \in S THEN <<d>> \o Keeping(u, S) ELSE Keeping(u, S)
    BY KeepingCons
  <2> QED BY <2>1, <2>2 DEF S
<1> HIDE DEF p
<1>4. t \in Seq(Byte) /\ Behind(t, u, 1) /\ t[1] = d
  <2>1. p \o u \in Seq(Byte) /\ Behind(p \o u, u, Len(p)) /\ \A i \in 1 .. Len(p) : (p \o u)[i] = p[i]
    BY <1>1, BehindPrefix
  <2> HIDE DEF t
  <2>2. 1 \in 1 .. Len(p)
    BY <1>1
  <2> QED BY <1>1, <2>1, <2>2 DEF t
<1> HIDE DEF t
<1>5. Cardinality(StartsOf(t, D)) = Cardinality(StartsOf(u, D))
  <2>1. {i \in StartsOf(t, D) : i <= 1} = {}
    <3> SUFFICES ASSUME NEW i \in StartsOf(t, D), i <= 1 PROVE FALSE
      OBVIOUS
    <3>1. i \in 1 .. Len(t) /\ t[i] \notin D /\ Len(t) \in Nat
      BY <1>4 DEF StartsOf
    <3>2. i = 1
      BY <3>1
    <3> QED BY <1>4, <3>1, <3>2
  <2>2. 1 \in Nat \ {0}
    OBVIOUS
  <2> QED BY <1>4, <2>1, <2>2, StartsCount
<1>6. SplitRight(t, D, C)
  BY <1>2, <1>3, <1>5 DEF SplitRight
<1> QED BY <1>6 DEF t, p

(* Of a word.                                                              *)
LEMMA SplitWord ==
  ASSUME NEW w \in Seq(Byte), w # << >>, NEW D, \A i \in 1 .. Len(w) : w[i] \notin D, NEW C, Within(w, C)
  PROVE  SplitRight(w, D, C)
<1>1. Tokenize(w, D) = <<w>>
  BY WordsOne
<1>2. Flatten(<<w>>) = w
  BY FlattenOne
<1>3. Keeping(w, Byte \ D) = w
  <2>1. \A i \in 1 .. Len(w) : w[i] \in Byte \ D
    OBVIOUS
  <2> DEFINE S == Byte \ D
  <2> HIDE DEF S
  <2>2. Keeping(w, S) = w
    BY <2>1, KeepingAll DEF S
  <2> QED BY <2>2 DEF S
<1>4. Cardinality(StartsOf(w, D)) = 1
  <2>1. StartsOf(w, D) = {1}
    <3>1. 1 \in 1 .. Len(w)
      OBVIOUS
    <3>2. ASSUME NEW i \in StartsOf(w, D) PROVE i = 1
      <4>1. i \in 1 .. Len(w) /\ (i = 1 \/ w[i - 1] \in D)
        BY DEF StartsOf
      <4>2. i = 1 \/ i - 1 \in 1 .. Len(w)
        BY <4>1
      <4> QED BY <4>1, <4>2
    <3>3. 1 \in StartsOf(w, D)
      BY <3>1 DEF StartsOf
    <3> QED BY <3>2, <3>3
  <2>2. Cardinality({1}) = 1
    <3>1. Cardinality({} \cup {1}) = Cardinality({}) + 1
      BY FS_EmptySet, FS_AddElement
    <3>2. {} \cup {1} = {1} /\ Cardinality({}) = 0
      BY FS_EmptySet
    <3> QED BY <3>1, <3>2
  <2> QED BY <2>1, <2>2
<1>5. <<w>> \in Seq(Seq(Byte)) /\ Len(<<w>>) = 1 /\ <<w>>[1] = w
  OBVIOUS
<1>6. AreWords(<<w>>, D, C)
  <2>1. Within(w, C \ D)
    BY DEF Within
  <2> DEFINE ws == <<w>>
  <2>2. Len(ws) = 1 /\ ws[1] = w
    BY <1>5
  <2> HIDE DEF ws
  <2>3. \A k \in 1 .. Len(ws) : ws[k] = w
    BY <2>2
  <2>4. AreWords(ws, D, C)
    BY <2>1, <2>3 DEF AreWords
  <2> QED BY <2>4 DEF ws
<1> QED BY <1>1, <1>2, <1>3, <1>4, <1>5, <1>6 DEF SplitRight

(* KeepingCat, under a name.                                               *)
KeepingJoins(a, b, S) == Keeping(a \o b, S) = Keeping(a, S) \o Keeping(b, S)

(* KeepingCat says so.                                                     *)
LEMMA KeepingJoined ==
  ASSUME NEW a \in Seq(Byte), NEW b \in Seq(Byte), NEW S
  PROVE  KeepingJoins(a, b, S)
BY KeepingCat DEF KeepingJoins

(* Of a text behind a word and a delimiter.                                *)
LEMMA SplitMore ==
  ASSUME NEW w \in Seq(Byte), w # << >>, NEW d \in Byte, NEW u \in Seq(Byte), NEW D,
         \A i \in 1 .. Len(w) : w[i] \notin D, d \in D, NEW C, Within(w, C), SplitRight(u, D, C)
  PROVE  SplitRight(Append(w, d) \o u, D, C)
<1> DEFINE p == Append(w, d)
           t == p \o u
           l == Len(w)
           ws == Tokenize(u, D)
           vs == <<w>> \o ws
           S == Byte \ D
<1>1. p \in Seq(Byte) /\ Len(p) = l + 1 /\ l \in Nat \ {0} /\ p[l + 1] = d /\ (\A i \in 1 .. l : p[i] = w[i])
      /\ p = w \o <<d>> /\ <<d>> \in Seq(Byte)
  OBVIOUS
<1>2. Tokenize(t, D) = vs
  BY WordsCons
<1>3. ws \in Seq(Seq(Byte)) /\ Flatten(ws) = Keeping(u, S) /\ Len(ws) = Cardinality(StartsOf(u, D)) /\ AreWords(ws, D, C)
  BY DEF SplitRight
<1> HIDE DEF p, ws
<1>4. Flatten(vs) = w \o Flatten(ws)
  BY <1>3, FlattenCons
<1>5. vs \in Seq(Seq(Byte)) /\ Len(vs) = Len(ws) + 1 /\ Len(ws) \in Nat /\ vs[1] = w /\ \A i \in 1 .. Len(ws) : vs[i + 1] = ws[i]
  <2> DEFINE X == Seq(Byte)
  <2>1. w \in X /\ ws \in Seq(X)
    BY <1>3
  <2> HIDE DEF X
  <2>2. vs \in Seq(X) /\ Len(vs) = Len(ws) + 1 /\ Len(ws) \in Nat /\ vs[1] = w /\ \A i \in 1 .. Len(ws) : vs[i + 1] = ws[i]
    BY <2>1, ConsFacts
  <2> QED BY <2>2 DEF X
<1>6. t \in Seq(Byte) /\ Behind(t, u, l + 1) /\ t[l + 1] = d /\ \A i \in 1 .. l : t[i] = w[i]
  <2>1. t \in Seq(Byte) /\ Behind(t, u, Len(p)) /\ \A i \in 1 .. Len(p) : t[i] = p[i]
    BY <1>1, BehindPrefix
  <2> HIDE DEF t
  <2>2. l + 1 \in 1 .. Len(p) /\ \A i \in 1 .. l : i \in 1 .. Len(p)
    BY <1>1
  <2>3. Behind(t, u, l + 1)
    BY <1>1, <2>1
  <2> QED BY <1>1, <2>1, <2>2, <2>3
<1>7. Keeping(t, S) = w \o Keeping(u, S)
  <2> DEFINE one == <<d>>
  <2>0. one \in Seq(Byte) /\ p = w \o one /\ p \in Seq(Byte)
    BY <1>1
  <2>1. Keeping(one, S) = << >>
    <3>1. d \notin S
      OBVIOUS
    <3> HIDE DEF S
    <3> QED BY <3>1, KeepingOne
  <2>2. Keeping(w, S) = w
    <3>1. \A i \in 1 .. Len(w) : w[i] \in S
      OBVIOUS
    <3> HIDE DEF S
    <3> QED BY <3>1, KeepingAll
  <2> HIDE DEF S, one, t
  <2>3. Keeping(w \o one, S) = Keeping(w, S) \o Keeping(one, S)
    BY <2>0, KeepingCat
  <2>4. Keeping(p \o u, S) = Keeping(p, S) \o Keeping(u, S)
    <3>1. KeepingJoins(p, u, S)
      BY <2>0, KeepingJoined
    <3> QED BY <3>1 DEF KeepingJoins
  <2>5. w \o << >> = w
    OBVIOUS
  <2>6. Keeping(p, S) = w
    BY <2>0, <2>1, <2>2, <2>3, <2>5
  <2> QED BY <2>4, <2>6 DEF t
<1> HIDE DEF t, vs
<1>8. Cardinality(StartsOf(t, D)) = Cardinality(StartsOf(u, D)) + 1
  <2>0. Len(t) \in Nat /\ Len(t) = l + 1 + Len(u) /\ Len(u) \in Nat
    BY <1>1, <1>6 DEF Behind
  <2>1. ASSUME NEW i \in StartsOf(t, D), i <= l + 1 PROVE i = 1
    <3>1. i \in 1 .. Len(t) /\ t[i] \notin D /\ (i = 1 \/ t[i - 1] \in D)
      BY DEF StartsOf
    <3>2. i # l + 1
      BY <1>6, <3>1
    <3>3. i = 1 \/ i - 1 \in 1 .. l
      BY <1>1, <2>0, <2>1, <3>1, <3>2
    <3>4. i - 1 \in 1 .. l => t[i - 1] \notin D
      BY <1>6 DEF l
    <3> QED BY <3>1, <3>3, <3>4
  <2>2. 1 \in StartsOf(t, D) /\ 1 <= l + 1
    <3>1. 1 \in 1 .. Len(t) /\ 1 \in 1 .. l /\ 1 <= l + 1
      BY <1>1, <2>0
    <3>2. t[1] \notin D
      BY <1>6, <3>1 DEF l
    <3> QED BY <3>1, <3>2 DEF StartsOf
  <2>3. {i \in StartsOf(t, D) : i <= l + 1} = {1}
    BY <2>1, <2>2
  <2> DEFINE k == l + 1
  <2>4. k \in Nat \ {0} /\ Behind(t, u, k) /\ t[k] \in D /\ {i \in StartsOf(t, D) : i <= k} = {1}
    BY <1>1, <1>6, <2>3
  <2> HIDE DEF k
  <2> QED BY <1>6, <2>4, StartsCount
<1>9. AreWords(vs, D, C)
  <2> SUFFICES ASSUME NEW k \in 1 .. Len(vs) PROVE vs[k] # << >> /\ Within(vs[k], C \ D)
    BY DEF AreWords
  <2>1. CASE k = 1
    <3>1. Within(w, C \ D)
      BY DEF Within
    <3> QED BY <1>5, <2>1, <3>1
  <2>2. CASE k # 1
    <3> DEFINE j == k - 1
    <3>1. j \in 1 .. Len(ws) /\ j + 1 = k
      BY <1>5, <2>2
    <3> HIDE DEF j
    <3>2. vs[k] = ws[j]
      BY <1>5, <3>1
    <3> QED BY <1>3, <3>1, <3>2 DEF AreWords
  <2> QED BY <2>1, <2>2
<1>10. SplitRight(t, D, C)
  <2>1. Flatten(vs) = Keeping(t, S)
    BY <1>3, <1>4, <1>7
  <2>2. Len(vs) = Cardinality(StartsOf(t, D))
    BY <1>3, <1>5, <1>8
  <2> QED BY <1>2, <1>5, <1>9, <2>1, <2>2 DEF SplitRight
<1> QED BY <1>10 DEF t, p

(* Every text is split right.                                              *)
LEMMA SplitAll ==
  ASSUME NEW t \in Seq(Byte), NEW D, NEW C, Within(t, C)
  PROVE  SplitRight(t, D, C)
<1> DEFINE Right(x) == Within(x, C) => SplitRight(x, D, C)
           P == {n \in Nat : \A x \in Seq(Byte) : Len(x) < n => Right(x)}
<1>1. 0 \in P
  OBVIOUS
<1>2. ASSUME NEW n \in Nat, n \in P PROVE n + 1 \in P
  <2>1. ASSUME NEW x \in Seq(Byte), Len(x) < n + 1, Within(x, C) PROVE SplitRight(x, D, C)
    <3>0. ASSUME NEW u \in Seq(Byte), Len(u) < Len(x), NEW k \in Nat, Behind(x, u, k) PROVE SplitRight(u, D, C)
      <4>1. Len(u) \in Nat /\ Len(x) \in Nat /\ Len(u) < n
        BY <2>1, <3>0
      <4>2. Within(u, C)
        <5>1. \A i \in 1 .. Len(u) : i + k \in 1 .. Len(x) /\ x[i + k] = u[i]
          BY <3>0, <4>1 DEF Behind
        <5> QED BY <2>1, <5>1 DEF Within
      <4> QED BY <1>2, <4>1, <4>2
    <3>1. CASE x = << >>
      BY <3>1, SplitNothing
    <3>2. ASSUME NEW d \in Byte, NEW u \in Seq(Byte), x = <<d>> \o u, d \in D, Len(u) < Len(x)
          PROVE  SplitRight(x, D, C)
      <4>1. Behind(x, u, 1)
        <5> DEFINE p == <<d>>
        <5>1. p \in Seq(Byte) /\ Len(p) = 1 /\ x = p \o u
          BY <3>2
        <5> HIDE DEF p
        <5> QED BY <5>1, BehindPrefix
      <4>2. SplitRight(u, D, C)
        BY <3>0, <3>2, <4>1
      <4>3. SplitRight(<<d>> \o u, D, C)
        BY <3>2, <4>2, SplitSkip
      <4> QED BY <3>2, <4>3
    <3>3. CASE x # << >> /\ \A i \in 1 .. Len(x) : x[i] \notin D
      BY <2>1, <3>3, SplitWord
    <3>4. ASSUME NEW w \in Seq(Byte), NEW d \in Byte, NEW u \in Seq(Byte), x = Append(w, d) \o u, w # << >>, d \in D,
                 Len(u) < Len(x), \A i \in 1 .. Len(w) : w[i] \notin D
          PROVE  SplitRight(x, D, C)
      <4> DEFINE p == Append(w, d)
      <4>1. p \in Seq(Byte) /\ Len(p) = Len(w) + 1 /\ x = p \o u /\ Len(w) + 1 \in Nat /\ Len(w) \in Nat
            /\ \A i \in 1 .. Len(w) : p[i] = w[i]
        BY <3>4
      <4> HIDE DEF p
      <4>2. Behind(x, u, Len(p)) /\ \A i \in 1 .. Len(p) : x[i] = p[i]
        BY <4>1, BehindPrefix
      <4>3. SplitRight(u, D, C)
        BY <3>0, <3>4, <4>1, <4>2
      <4>4. Within(w, C)
        <5>1. \A i \in 1 .. Len(w) : i \in 1 .. Len(p) /\ i \in 1 .. Len(x)
          <6>1. Len(u) \in Nat /\ Len(x) = Len(p) + Len(u)
            BY <4>2 DEF Behind
          <6> QED BY <4>1, <6>1
        <5>2. \A i \in 1 .. Len(w) : x[i] = w[i]
          BY <4>1, <4>2, <5>1
        <5> QED BY <2>1, <5>1, <5>2 DEF Within
      <4>5. SplitRight(Append(w, d) \o u, D, C)
        BY <3>4, <4>3, <4>4, SplitMore
      <4> QED BY <3>4, <4>5
    <3>5. Splits(x, D)
      BY TextSplits
    <3> QED BY <3>1, <3>2, <3>3, <3>4, <3>5 DEF Splits
  <2> QED BY <2>1
<1> HIDE DEF P
<1>3. Nat \subseteq P
  BY <1>1, <1>2, Induct
<1>4. Len(t) + 1 \in P /\ Len(t) < Len(t) + 1
  <2>1. Len(t) \in Nat
    OBVIOUS
  <2> QED BY <1>3, <2>1
<1> QED BY <1>4 DEF P

(* A base::istring has no words: the search for what is no delimiter takes *)
(* every byte for one.                                                     *)
LEMMA NoIWords ==
  ASSUME NEW t \in Seq(Byte)
  PROVE  ITokenize(t, <<32>>) = << >>
<1> DEFINE D == <<32>>
           n == Len(t)
           Q(f) == f = [last \in 0 .. n |->
                     IF last = 0 THEN << >>
                     ELSE LET pos == INextIn(t, D, last)
                          IN  <<Cut(t, last, pos)>> \o f[INextNotIn(t, D, pos)]]
           f == CHOOSE g : Q(g)
<1>0. n \in Nat /\ Len(D) = 1
  OBVIOUS
<1>1. ASSUME NEW ch PROVE ifind(D, ch) # Null
  <2> DEFINE found == {i \in 1 .. Len(D) : ieq(D[i], ch)}
  <2>1. ifind(D, ch) = IF found = {} THEN Len(D) + 1 ELSE Min(found)
    BY DEF ifind
  <2>2. found \subseteq Nat
    BY <1>0
  <2> HIDE DEF found
  <2>3. found # {} => Min(found) \in Nat
    BY <2>2, MinLeast
  <2>4. ifind(D, ch) \in Nat
    BY <1>0, <2>1, <2>3
  <2>5. Null = -1
    BY DEF Null
  <2> QED BY <2>4, <2>5
<1> HIDE DEF D
<1>2. ASSUME NEW from PROVE INextNotIn(t, D, from) = 0
  <2>1. {i \in 1 .. Len(t) : from # 0 /\ i >= from /\ ifind(D, t[i]) = Null} = {}
    BY <1>1
  <2> QED BY <2>1 DEF INextNotIn
<1>3. \E g : Q(g)
  <2> DEFINE g == [last \in 0 .. n |->
                     IF last = 0 THEN << >> ELSE <<Cut(t, last, INextIn(t, D, last))>> \o << >>]
  <2>1. g[0] = << >>
    BY <1>0
  <2>2. g = [last \in 0 .. n |->
               IF last = 0 THEN << >> ELSE <<Cut(t, last, INextIn(t, D, last))>> \o g[0]]
    <3>1. g = [last \in 0 .. n |->
                 IF last = 0 THEN << >> ELSE <<Cut(t, last, INextIn(t, D, last))>> \o << >>]
      OBVIOUS
    <3> HIDE DEF g
    <3> QED BY <2>1, <3>1
  <2> HIDE DEF g
  <2>3. Q(g)
    BY <1>2, <2>2
  <2> HIDE DEF Q
  <2> QED BY <2>3
<1>4. Q(f)
  <2> HIDE DEF Q
  <2> QED BY <1>3
<1>5. f[0] = << >>
  <2>1. 0 \in 0 .. n
    BY <1>0
  <2> HIDE DEF f
  <2> QED BY <1>4, <2>1
<1>6. ITokenize(t, D) = f[INextNotIn(t, D, 1)]
  BY DEF ITokenize
<1> HIDE DEF f, Q
<1>7. ITokenize(t, D) = << >>
  BY <1>2, <1>5, <1>6
<1> QED BY <1>7 DEF D

(* Tokenize answers with the longest stretches without a delimiter.        *)
THEOREM WordsAreRight ==
  ASSUME NEW t \in Seq(Byte), NEW D
  PROVE  WordsRight(t, D)
<1> DEFINE ws == Tokenize(t, D)
<1>1. Within(t, Byte)
  BY DEF Within
<1>2. SplitRight(t, D, Byte)
  BY <1>1, SplitAll
<1>3. Flatten(ws) = Keeping(t, (0 .. 255) \ D) /\ Len(ws) = Cardinality(StartsOf(t, D))
  BY <1>2 DEF SplitRight, Byte
<1>4. << >> \notin {ws[i] : i \in 1 .. Len(ws)}
  BY <1>2 DEF SplitRight, AreWords
<1>5. ITokenize(t, <<32>>) = << >>
  BY NoIWords
<1> HIDE DEF ws
<1> QED BY <1>3, <1>4, <1>5, Zenon DEF WordsRight, StartsOf, ws

-----------------------------------------------------------------------------
(* Joining.                                                                *)

(* The words of ws as they are joined with a zero byte between them.       *)
Pieces(ws) == [i \in 1 .. Len(ws) |-> ws[i] \o IF i < Len(ws) THEN <<0>> ELSE << >>]

(* What was joined is taken apart again, and the zero bytes are counted.   *)
JoinsBack(ws) ==
  /\ Flatten(Pieces(ws)) \in Seq(Byte)
  /\ Tokenize(Flatten(Pieces(ws)), {0}) = ws
  /\ Len(Keeping(Flatten(Pieces(ws)), {0})) = Len(ws) - 1

(* WordsCons, under a name.                                                *)
WordFirst(a, d, b, D) == Tokenize(Append(a, d) \o b, D) = <<a>> \o Tokenize(b, D)

(* WordsCons says so.                                                      *)
LEMMA WordFirsts ==
  ASSUME NEW a \in Seq(Byte), a # << >>, NEW d \in Byte, NEW b \in Seq(Byte), NEW D,
         \A i \in 1 .. Len(a) : a[i] \notin D, d \in D
  PROVE  WordFirst(a, d, b, D)
BY WordsCons DEF WordFirst

(* They are texts, as many as there are words.                             *)
LEMMA PiecesAre ==
  ASSUME NEW ws \in Seq(Seq(Byte))
  PROVE  Pieces(ws) \in Seq(Seq(Byte)) /\ Len(Pieces(ws)) = Len(ws) /\ Len(ws) \in Nat
<1> DEFINE X == Seq(Byte)
           c(i) == IF i < Len(ws) THEN <<0>> ELSE << >>
<1>1. <<0>> \in X /\ << >> \in X
  BY DEF Byte
<1>2. ASSUME NEW i \in 1 .. Len(ws) PROVE ws[i] \o c(i) \in X
  <2>1. ws[i] \in X /\ c(i) \in X
    BY <1>1
  <2> HIDE DEF c
  <2> QED BY <2>1
<1>3. Len(ws) \in Nat
  OBVIOUS
<1>4. Pieces(ws) = [i \in 1 .. Len(ws) |-> ws[i] \o c(i)]
  BY DEF Pieces
<1> HIDE DEF X, c
<1>5. [i \in 1 .. Len(ws) |-> ws[i] \o c(i)] \in Seq(X)
  BY <1>2, <1>3
<1> QED BY <1>3, <1>4, <1>5 DEF X

(* One word.                                                               *)
LEMMA JoinsOne ==
  ASSUME NEW w \in Seq(Byte), w # << >>, Within(w, Byte \ {0})
  PROVE  JoinsBack(<<w>>)
<1> DEFINE ws == <<w>>
<1>0. Len(ws) = 1 /\ ws[1] = w
  OBVIOUS
<1>1. Pieces(ws) = <<w>>
  <2>1. w \o << >> = w
    OBVIOUS
  <2> HIDE DEF ws
  <2>2. Pieces(ws) = [i \in 1 .. 1 |-> w]
    BY <1>0, <2>1 DEF Pieces
  <2> QED BY <2>2
<1>2. Flatten(Pieces(ws)) = w
  BY <1>1, FlattenOne
<1>3. \A i \in 1 .. Len(w) : w[i] \notin {0}
  BY DEF Within
<1>4. Tokenize(w, {0}) = ws
  BY <1>3, WordsOne
<1>5. Keeping(w, {0}) = << >>
  BY <1>3, KeepingNone
<1> HIDE DEF ws
<1> QED BY <1>0, <1>2, <1>4, <1>5 DEF JoinsBack, ws

(* A word in front.                                                        *)
LEMMA JoinsMore ==
  ASSUME NEW w \in Seq(Byte), w # << >>, Within(w, Byte \ {0}),
         NEW us \in Seq(Seq(Byte)), us # << >>, JoinsBack(us)
  PROVE  JoinsBack(<<w>> \o us)
<1> DEFINE X == Seq(Byte)
           n == Len(us)
           z == <<w>> \o us
           p == Append(w, 0)
           o == Flatten(Pieces(us))
           zero == <<0>>
<1>1. z \in Seq(X) /\ Len(z) = n + 1 /\ n \in Nat \ {0} /\ z[1] = w /\ \A i \in 1 .. n : z[i + 1] = us[i]
  <2> HIDE DEF X
  <2>1. w \in X /\ us \in Seq(X)
    BY DEF X
  <2>2. z \in Seq(X) /\ Len(z) = n + 1 /\ n \in Nat /\ z[1] = w /\ \A i \in 1 .. n : z[i + 1] = us[i]
    BY <2>1, ConsFacts
  <2>3. n # 0
    BY <2>1
  <2> QED BY <2>2, <2>3
<1>2. p \in X /\ p = w \o zero /\ zero \in X /\ 0 \in Byte
  BY DEF Byte
<1>3. o \in X /\ Tokenize(o, {0}) = us /\ Len(Keeping(o, {0})) = n - 1
  BY DEF JoinsBack
<1>4. Pieces(us) \in Seq(X) /\ Len(Pieces(us)) = n
  BY PiecesAre
<1>5. Pieces(z) = <<p>> \o Pieces(us)
  <2> DEFINE q == <<p>> \o Pieces(us)
             r == Pieces(us)
  <2> HIDE DEF X
  <2>1. q \in Seq(X) /\ Len(q) = n + 1 /\ q[1] = p /\ \A i \in 1 .. n : q[i + 1] = r[i]
    <3> HIDE DEF p, r
    <3> QED BY <1>2, <1>4, ConsFacts DEF r
  <2>2. \A i \in 1 .. n : r[i] = us[i] \o IF i < n THEN zero ELSE << >>
    BY DEF Pieces
  <2>3. Pieces(z) = [i \in 1 .. n + 1 |-> z[i] \o IF i < n + 1 THEN zero ELSE << >>]
    BY <1>1 DEF Pieces
  <2>4. ASSUME NEW i \in 1 .. n + 1 PROVE z[i] \o (IF i < n + 1 THEN zero ELSE << >>) = q[i]
    <3>1. CASE i = 1
      <4> HIDE DEF z, p, q, n, zero
      <4> QED BY <1>1, <1>2, <2>1, <3>1
    <3>2. CASE i # 1
      <4> DEFINE k == i - 1
      <4>1. k \in 1 .. n /\ i = k + 1
        BY <1>1, <3>2
      <4>2. (k < n) <=> (i < n + 1)
        BY <1>1, <4>1
      <4> HIDE DEF k, z, q, r, zero, n
      <4>3. z[i] = us[k] /\ q[i] = r[k]
        BY <1>1, <2>1, <4>1
      <4> QED BY <2>2, <4>1, <4>2, <4>3
    <3> QED BY <3>1, <3>2
  <2>5. q = [i \in 1 .. n + 1 |-> q[i]]
    <3> HIDE DEF q, n
    <3> QED BY <1>1, <2>1
  <2> HIDE DEF q, n, z
  <2> QED BY <2>3, <2>4, <2>5 DEF q
<1> HIDE DEF z, p, zero
<1>6. Flatten(Pieces(z)) = p \o o
  BY <1>2, <1>4, <1>5, FlattenCons
<1>7. Tokenize(p \o o, {0}) = z
  <2>1. \A i \in 1 .. Len(w) : w[i] \notin {0}
    BY DEF Within
  <2> HIDE DEF o
  <2>2. WordFirst(w, 0, o, {0})
    BY <1>2, <1>3, <2>1, WordFirsts
  <2> QED BY <1>3, <2>2 DEF p, z, WordFirst
<1>8. Len(Keeping(p \o o, {0})) = n
  <2> DEFINE S == {0}
  <2>1. KeepingJoins(p, o, S) /\ KeepingJoins(w, zero, S)
    BY <1>2, <1>3, KeepingJoined
  <2>2. Keeping(w, S) = << >>
    BY KeepingNone DEF Within
  <2>3. Keeping(<<0>>, S) = <<0>>
    BY <1>2, KeepingOne
  <2>4. << >> \o <<0>> = <<0>> /\ Len(<<0>>) = 1 /\ <<0>> \in X
    BY <1>2 DEF zero
  <2>5. Keeping(p, S) = <<0>>
    BY <1>2, <2>1, <2>2, <2>3, <2>4 DEF KeepingJoins, zero
  <2>6. Keeping(o, S) \in X
    BY <1>3, KeepingIs
  <2> DEFINE k == Keeping(o, S)
             e == <<0>>
  <2>7. Keeping(p \o o, S) = e \o k
    BY <2>1, <2>5 DEF KeepingJoins
  <2>8. Len(k) = n - 1 /\ Len(e) = 1 /\ e \in X /\ k \in X
    BY <1>3, <2>4, <2>6
  <2> HIDE DEF k, e
  <2>9. Len(e \o k) = Len(e) + Len(k)
    BY <2>8, CatFacts
  <2> QED BY <1>1, <2>7, <2>8, <2>9
<1>9. p \o o \in X
  <2> HIDE DEF o
  <2> QED BY <1>2, <1>3
<1>10. Len(z) - 1 = n /\ z = <<w>> \o us
  BY <1>1 DEF z
<1> HIDE DEF o, n
<1> QED BY <1>6, <1>7, <1>8, <1>9, <1>10 DEF JoinsBack

(* All words that are not empty and hold no zero byte.                     *)
LEMMA JoinsAll ==
  ASSUME NEW ws \in Seq(Seq(Byte)), AreWords(ws, {0}, Byte), ws # << >>
  PROVE  JoinsBack(ws)
<1> DEFINE X == Seq(Byte)
           P == {vs \in Seq(X) : AreWords(vs, {0}, Byte) /\ vs # << >> => JoinsBack(vs)}
<1>1. << >> \in P
  OBVIOUS
<1>2. ASSUME NEW x \in X, NEW u \in Seq(X), u \in P PROVE <<x>> \o u \in P
  <2> DEFINE z == <<x>> \o u
  <2> HIDE DEF X
  <2>1. z \in Seq(X) /\ Len(z) = Len(u) + 1 /\ Len(u) \in Nat /\ z[1] = x /\ \A i \in 1 .. Len(u) : z[i + 1] = u[i]
    BY ConsFacts
  <2>2. ASSUME AreWords(z, {0}, Byte) PROVE JoinsBack(z)
    <3>1. x # << >> /\ Within(x, Byte \ {0})
      <4>1. 1 \in 1 .. Len(z)
        BY <2>1
      <4> HIDE DEF z
      <4> QED BY <2>1, <2>2, <4>1 DEF AreWords
    <3>2. AreWords(u, {0}, Byte)
      <4>1. ASSUME NEW k \in 1 .. Len(u) PROVE u[k] # << >> /\ Within(u[k], Byte \ {0})
        <5>1. k + 1 \in 1 .. Len(z) /\ z[k + 1] = u[k]
          BY <2>1
        <5> HIDE DEF z
        <5> QED BY <2>2, <5>1 DEF AreWords
      <4> QED BY <4>1 DEF AreWords
    <3>3. CASE u = << >>
      <4>1. z = <<x>>
        BY <3>3
      <4> QED BY <3>1, <4>1, JoinsOne DEF X
    <3>4. CASE u # << >>
      <4>1. JoinsBack(u)
        BY <1>2, <3>2, <3>4
      <4> QED BY <3>1, <3>4, <4>1, JoinsMore DEF X
    <3> QED BY <3>3, <3>4
  <2> HIDE DEF z
  <2> QED BY <2>1, <2>2 DEF z
<1> HIDE DEF P, X
<1>3. Seq(X) \subseteq P
  BY <1>1, <1>2, SeqInduct
<1>4. ws \in P
  BY <1>3 DEF X
<1> QED BY <1>4 DEF P

(* The words of a text without NUL, joined with NUL, come apart again, and *)
(* joined_output counts what it put between them.                          *)
THEOREM JoinIsRight ==
  ASSUME NEW t \in Seq(Solid), NEW D
  PROVE  JoinRight(t, D)
<1> DEFINE ws == Tokenize(t, D)
           j == ContainerToString(<<1>>, ws, <<0>>, <<2>>, << >>, << >>)
           jo == joined_output(ws, <<0>>, << >>, << >>)
<1>1. t \in Seq(Byte) /\ Within(t, Solid)
  <2>1. \A i \in 1 .. Len(t) : t[i] \in Solid
    OBVIOUS
  <2>2. t \in Seq(Byte)
    BY DEF Solid
  <2> QED BY <2>1, <2>2 DEF Within
<1>2. ws \in Seq(Seq(Byte)) /\ AreWords(ws, D, Solid)
  BY <1>1, SplitAll DEF SplitRight
<1> HIDE DEF ws
<1>3. AreWords(ws, {0}, Byte)
  BY <1>2 DEF AreWords, Within, Solid, NUL
<1>4. CASE ws = << >>
  <2>1. j.str = <<1>> \o <<2>>
    BY <1>4 DEF ContainerToString
  <2>2. <<1>> \o <<2>> = <<1, 2>>
    <3> DEFINE a == <<1>>
               b == <<2>>
               c == <<1, 2>>
    <3>1. a \in Seq(Nat) /\ b \in Seq(Nat) /\ c \in Seq(Nat) /\ Len(a) = 1 /\ Len(b) = 1 /\ Len(c) = 2
          /\ a[1] = 1 /\ b[1] = 2 /\ c[1] = 1 /\ c[2] = 2
      OBVIOUS
    <3> HIDE DEF b, c
    <3>2. a \o b \in Seq(Nat) /\ Len(a \o b) = 2 /\ (a \o b)[1] = 1 /\ (a \o b)[2] = 2
      <4> DEFINE z == a \o b
      <4>0. z = <<1>> \o b /\ 1 \in Nat /\ b \in Seq(Nat)
        BY <3>1
      <4> HIDE DEF z
      <4>1. z \in Seq(Nat) /\ Len(z) = Len(b) + 1 /\ z[1] = 1 /\ \A i \in 1 .. Len(b) : z[i + 1] = b[i]
        BY <4>0, ConsFacts
      <4>2. 1 \in 1 .. Len(b)
        BY <3>1
      <4> QED BY <3>1, <4>1, <4>2 DEF z
    <3> HIDE DEF a
    <3> DEFINE ab == a \o b
    <3> HIDE DEF ab
    <3>3. Len(ab) = Len(c) /\ (\A i \in 1 .. Len(ab) : ab[i] = c[i]) /\ ab \in Seq(Nat)
      <4>1. ab \in Seq(Nat) /\ Len(ab) = 2 /\ ab[1] = 1 /\ ab[2] = 2
        BY <3>2 DEF ab
      <4> QED BY <3>1, <4>1
    <3>4. ab = c
      BY <3>1, <3>3, SameSeq
    <3> QED BY <3>4 DEF ab, a, b, c
  <2> HIDE DEF j
  <2> QED BY <1>4, <2>1, <2>2 DEF JoinRight, ws, j
<1>5. CASE ws # << >>
  <2> DEFINE o == Flatten(Pieces(ws))
             one == <<1>>
             n == Len(ws)
  <2>1. JoinsBack(ws)
    BY <1>2, <1>3, <1>5, JoinsAll
  <2>2. n \in Nat \ {0}
    BY <1>2, <1>5
  <2>3. jo.out = o /\ jo.count = n - 1
    <3> DEFINE c(i) == IF i < n THEN <<0>> ELSE << >>
    <3>1. ASSUME NEW i \in 1 .. n PROVE << >> \o ws[i] \o << >> \o c(i) = ws[i] \o c(i)
      <4> DEFINE w == ws[i]
      <4>1. w \in Seq(Byte)
        BY <1>2
      <4> HIDE DEF w
      <4>2. << >> \o w = w /\ w \o << >> = w
        BY <4>1
      <4> HIDE DEF c
      <4> QED BY <4>2 DEF w
    <3>2. jo.out = Flatten([i \in 1 .. n |-> << >> \o ws[i] \o << >> \o c(i)])
      BY DEF joined_output
    <3>3. jo.count = n - 1
      BY <2>2 DEF joined_output
    <3>4. [i \in 1 .. n |-> << >> \o ws[i] \o << >> \o c(i)] = [i \in 1 .. n |-> ws[i] \o c(i)]
      <4> HIDE DEF c, n
      <4> QED BY <3>1
    <3>5. Pieces(ws) = [i \in 1 .. n |-> ws[i] \o c(i)]
      BY DEF Pieces
    <3> HIDE DEF jo, c, n
    <3> QED BY <3>2, <3>3, <3>4, <3>5
  <2>4. j.str = one \o o /\ j.count = n - 1
    BY <1>5, <2>3 DEF ContainerToString
  <2>5. o \in Seq(Byte) /\ Tokenize(o, {0}) = ws /\ Len(Keeping(o, {0})) = n - 1
    BY <2>1 DEF JoinsBack
  <2>6. Tail(one \o o) = o
    <3> HIDE DEF o
    <3> QED BY <2>5
  <2>7. Keeping(one \o o, {0}) = Keeping(o, {0})
    <3> HIDE DEF o
    <3>1. 1 \in Byte /\ 1 \notin {0}
      BY DEF Byte
    <3> QED BY <2>5, <3>1, KeepingCons
  <2> HIDE DEF j, o, one, n
  <2> QED BY <1>5, <2>4, <2>5, <2>6, <2>7 DEF JoinRight, ws, j
<1> QED BY <1>4, <1>5

(* An element as joined_output writes it, and what comes before the last.  *)
Wrapped(e) == <<2>> \o e \o <<3>>
Before(es) == [i \in 1 .. Len(es) - 1 |-> Wrapped(es[i]) \o <<0>>]
Joint(es)  == [i \in 1 .. Len(es) |-> Wrapped(es[i]) \o IF i < Len(es) THEN <<0>> ELSE << >>]

(* What is written ends with the last element.                             *)
LEMMA JointIs ==
  ASSUME NEW S, {0, 2, 3} \subseteq S, NEW es \in Seq(Seq(S)), es # << >>
  PROVE  Flatten(Joint(es)) = Flatten(Before(es)) \o Wrapped(es[Len(es)])
<1> DEFINE X == Seq(S)
           n == Len(es)
           z == Joint(es)
           b == Before(es)
           l == Wrapped(es[n])
<1>0. n \in Nat \ {0} /\ \A i \in 1 .. n : es[i] \in X
  OBVIOUS
<1>1. <<0>> \in X /\ <<2>> \in X /\ <<3>> \in X /\ << >> \in X
  OBVIOUS
<1>2. ASSUME NEW e \in X PROVE Wrapped(e) \in X /\ Wrapped(e) \o << >> = Wrapped(e) /\ Wrapped(e) \o <<0>> \in X
  <2> DEFINE x == <<2>>
             y == <<3>>
             o == <<0>>
  <2>1. x \in Seq(S) /\ y \in Seq(S) /\ o \in Seq(S) /\ e \in Seq(S)
    BY <1>1, <1>2
  <2> HIDE DEF x, y, o
  <2>2. x \o e \in Seq(S)
    BY <2>1
  <2>3. (x \o e) \o y \in Seq(S)
    BY <2>1, <2>2
  <2>4. Wrapped(e) = (x \o e) \o y
    BY DEF Wrapped, x, y
  <2> DEFINE w == Wrapped(e)
  <2>5. w \in Seq(S)
    BY <2>3, <2>4
  <2> HIDE DEF w
  <2>6. w \o << >> = w /\ w \o o \in Seq(S)
    BY <2>1, <2>5
  <2> QED BY <2>5, <2>6 DEF w, o
<1> HIDE DEF X
<1>3. b \in Seq(X) /\ Len(b) = n - 1 /\ \A i \in 1 .. n - 1 : b[i] = Wrapped(es[i]) \o <<0>>
  <2>1. \A i \in 1 .. n - 1 : Wrapped(es[i]) \o <<0>> \in X
    BY <1>0, <1>2
  <2>2. n - 1 \in Nat
    BY <1>0
  <2>3. b = [i \in 1 .. n - 1 |-> Wrapped(es[i]) \o <<0>>]
    BY DEF Before
  <2> DEFINE k == n - 1
             g(i) == Wrapped(es[i]) \o <<0>>
  <2>4. k \in Nat /\ (\A i \in 1 .. k : g(i) \in X) /\ b = [i \in 1 .. k |-> g(i)]
    BY <2>1, <2>2, <2>3
  <2> HIDE DEF b, k, g
  <2>5. b \in Seq(X) /\ Len(b) = k /\ \A i \in 1 .. k : b[i] = g(i)
    BY <2>4
  <2> QED BY <2>5 DEF k, g
<1>4. l \in X /\ l = Wrapped(es[n]) \o << >>
  BY <1>0, <1>2
<1>5. z = Append(b, l)
  <2> DEFINE a == Append(b, l)
  <2>1. a \in Seq(X) /\ Len(a) = n /\ a[n] = l /\ \A i \in 1 .. n - 1 : a[i] = b[i]
    <3> HIDE DEF b, l, n
    <3> QED BY <1>0, <1>3, <1>4
  <2>2. z = [i \in 1 .. n |-> Wrapped(es[i]) \o IF i < n THEN <<0>> ELSE << >>]
    BY DEF Joint
  <2>3. ASSUME NEW i \in 1 .. n PROVE Wrapped(es[i]) \o (IF i < n THEN <<0>> ELSE << >>) = a[i]
    <3>1. i = n \/ (i < n /\ i \in 1 .. n - 1)
      BY <1>0
    <3> HIDE DEF a, b, l, n
    <3>2. CASE i = n
      <4>1. ~ (i < n)
        BY <1>0, <3>2
      <4> QED BY <1>4, <2>1, <3>2, <4>1 DEF l
    <3>3. CASE i < n /\ i \in 1 .. n - 1
      BY <1>3, <2>1, <3>3
    <3> QED BY <3>1, <3>2, <3>3
  <2>4. a = [i \in 1 .. n |-> a[i]]
    <3> HIDE DEF a, n
    <3> QED BY <1>0, <2>1
  <2> HIDE DEF a, z, n
  <2> QED BY <2>2, <2>3, <2>4 DEF a
<1> HIDE DEF z, b, l
<1>6. Flatten(Append(b, l)) = Flatten(b) \o l
  BY <1>3, <1>4, FlattenAppend DEF X
<1> QED BY <1>5, <1>6 DEF z, b, l

(* The output of joined_pair_output for keys and for values, when es is    *)
(* what the pairs show.                                                    *)
Marked(es) ==
  joined_output(es, <<0>>, <<2>>, <<3>>).out \o IF es = << >> THEN << >> ELSE <<2>> \o es[Len(es)] \o <<3>>
PairsMarked(ps, what) == joined_pair_output(ps, what, <<0>>, <<1>>, <<2>>, <<3>>).out
Shows(p, what, e) == (what = "keys" /\ p.first = e) \/ (what = "values" /\ p.second = e)

(* Pairs that show es give what es give, and its last once more.           *)
LEMMA PairsTwice ==
  ASSUME NEW S, {0, 2, 3} \subseteq S, NEW es \in Seq(Seq(S)), NEW ps, Len(ps) = Len(es),
         NEW what, \A i \in 1 .. Len(es) : Shows(ps[i], what, es[i])
  PROVE  PairsMarked(ps, what) = Marked(es)
<1> DEFINE n == Len(es)
           J == joined_output(es, <<0>>, <<2>>, <<3>>).out
<1>0. n \in Nat
  OBVIOUS
<1>1. J = Flatten(Joint(es))
  BY DEF joined_output, Joint, Wrapped
<1>2. CASE es = << >>
  <2>1. n = 0 /\ Joint(es) = << >>
    BY <1>2 DEF Joint
  <2>2. J = << >>
    BY <1>1, <2>1, FlattenNothing
  <2>3. << >> \o << >> = << >>
    OBVIOUS
  <2>4. Marked(es) = << >>
    BY <1>2, <2>2, <2>3 DEF Marked
  <2>5. PairsMarked(ps, what) = << >>
    BY <2>1 DEF PairsMarked, joined_pair_output
  <2> QED BY <2>4, <2>5
<1>3. CASE es # << >>
  <2> DEFINE Shown(p, w) == CASE w = "keys" -> p.first [] w = "values" -> p.second
                              [] OTHER -> p.first \o <<1>> \o p.second
             Piece(p, w) == <<2>> \o Shown(p, w) \o <<3>>
             again == IF what = "keys" THEN "keys" ELSE "values"
             before == [i \in 1 .. n - 1 |-> Piece(ps[i], what) \o <<0>>]
  <2>1. n # 0 /\ n \in 1 .. n
    BY <1>0, <1>3
  <2>2. what \in {"keys", "values"} /\ again = what
    BY <2>1 DEF Shows
  <2>3. ASSUME NEW i \in 1 .. n PROVE Shown(ps[i], what) = es[i]
    BY <2>2 DEF Shows
  <2>4. \A i \in 1 .. n : Piece(ps[i], what) = Wrapped(es[i])
    <3> HIDE DEF Shown
    <3> QED BY <2>3 DEF Wrapped
  <2>5. PairsMarked(ps, what) = Flatten(before) \o Piece(ps[n], again) \o Piece(ps[n], what)
    BY <2>1 DEF PairsMarked, joined_pair_output
  <2> HIDE DEF Piece
  <2>6. before = Before(es)
    <3>1. \A i \in 1 .. n - 1 : i \in 1 .. n
      BY <1>0
    <3>2. \A i \in 1 .. n - 1 : Piece(ps[i], what) \o <<0>> = Wrapped(es[i]) \o <<0>>
      BY <2>4, <3>1
    <3> QED BY <3>2 DEF Before
  <2>7. Piece(ps[n], again) = Wrapped(es[n]) /\ Piece(ps[n], what) = Wrapped(es[n])
    BY <2>1, <2>2, <2>4
  <2>8. Flatten(Joint(es)) = Flatten(Before(es)) \o Wrapped(es[n])
    BY <1>3, JointIs
  <2>9. Marked(es) = J \o Wrapped(es[n])
    BY <1>3 DEF Marked, Wrapped
  <2> HIDE DEF J, before, n, again
  <2>10. PairsMarked(ps, what) = (Flatten(Before(es)) \o Wrapped(es[n])) \o Wrapped(es[n])
    BY <2>5, <2>6, <2>7
  <2> QED BY <1>1, <2>8, <2>9, <2>10
<1> QED BY <1>2, <1>3

(* Joined keys and joined values repeat the last of them.                  *)
THEOREM PairsAreRight ==
  ASSUME NEW t \in Seq(Byte), NEW D
  PROVE  PairsRight(t, D)
<1> DEFINE ws == Tokenize(t, D)
           n == Len(ws)
           ps == [i \in 1 .. n |-> [first |-> ws[i], second |-> <<i>>]]
           vs == [i \in 1 .. n |-> <<i>>]
           I == Seq(Nat)
           X == Seq(Byte)
<1>1. ws \in Seq(X) /\ {0, 2, 3} \subseteq Byte
  BY TokenizeIs DEF Byte
<1>2. n \in Nat
  <2> HIDE DEF ws, X
  <2> QED BY <1>1
<1>3. Len(ps) = n /\ \A i \in 1 .. n : ps[i].first = ws[i] /\ ps[i].second = <<i>>
  <2> HIDE DEF ws
  <2> QED BY <1>2
<1>4. vs \in Seq(I) /\ Len(vs) = n /\ \A i \in 1 .. n : vs[i] = <<i>>
  <2>1. \A i \in 1 .. n : <<i>> \in I
    <3> HIDE DEF ws
    <3> QED BY <1>2
  <2> HIDE DEF I, ws
  <2> QED BY <1>2, <2>1
<1> HIDE DEF ws, ps, vs
<1>5. PairsMarked(ps, "keys") = Marked(ws)
  <2>1. \A i \in 1 .. Len(ws) : Shows(ps[i], "keys", ws[i])
    BY <1>3 DEF Shows
  <2> QED BY <1>1, <1>3, <2>1, PairsTwice
<1>6. PairsMarked(ps, "values") = Marked(vs)
  <2>1. \A i \in 1 .. Len(vs) : Shows(ps[i], "values", vs[i])
    BY <1>3, <1>4 DEF Shows
  <2>2. Len(ps) = Len(vs) /\ {0, 2, 3} \subseteq Nat
    BY <1>3, <1>4
  <2> QED BY <1>4, <2>1, <2>2, PairsTwice
<1> QED BY <1>5, <1>6, Zenon DEF PairsRight, PairsMarked, Marked, ps, vs, ws

-----------------------------------------------------------------------------
(* Encoding.                                                               *)

(* What UrlEncode writes for a byte.                                       *)
Code == [b \in Byte |-> IF IsKept(b) THEN <<b>> ELSE <<PERCENT>> \o char2hex(b)]

(* What may be left of a text in a URL.                                    *)
Marks(c) == IsKept(c) \/ c = PERCENT

(* A digit is written so that it can be read again.                        *)
LEMMA HexDigit ==
  ASSUME NEW d \in 0 .. 15
  PROVE  LET c == HexChar(d)
         IN  c \in Byte /\ c # NUL /\ IsKept(c) /\ IsDigit(c, 16) /\ Digit(c) = d
<1> DEFINE c == HexChar(d)
<1>1. CASE d <= 9
  <2>1. c = d + 48 /\ c \in 48 .. 57
    BY <1>1 DEF HexChar
  <2> HIDE DEF c
  <2>2. Between(c, 48, 57)
    BY <2>1 DEF Between
  <2>3. Digit(c) = d
    BY <2>1 DEF Digit, Between
  <2> QED BY <2>1, <2>2, <2>3 DEF Byte, NUL, IsKept, IsDigit, c
<1>2. CASE d > 9
  <2>1. c = d + 87 /\ c \in 97 .. 102
    BY <1>2 DEF HexChar
  <2> HIDE DEF c
  <2>2. Between(c, 97, 122)
    BY <2>1 DEF Between
  <2>3. Digit(c) = d
    BY <2>1 DEF Digit, Between
  <2> QED BY <2>1, <2>2, <2>3 DEF Byte, NUL, IsKept, IsDigit, c
<1> QED BY <1>1, <1>2

(* ConsFacts, under a name.                                                *)
AreCons(x, u, z, X) ==
  z = <<x>> \o u => z \in Seq(X) /\ Len(z) = Len(u) + 1 /\ z[1] = x /\ \A i \in 1 .. Len(u) : z[i + 1] = u[i]

(* ConsFacts says so.                                                      *)
LEMMA ConsAre ==
  ASSUME NEW X, NEW x \in X, NEW u \in Seq(X), NEW z
  PROVE  AreCons(x, u, z, X)
BY ConsFacts DEF AreCons

(* A kept byte stands for itself, another for three.                       *)
LEMMA CodeIs ==
  ASSUME NEW b \in Byte
  PROVE  LET c == Code[b] h == HexChar(b \div 16) l == HexChar(b % 16)
         IN  /\ c \in Seq(Byte)
             /\ IsKept(b) => c = <<b>> /\ Len(c) = 1 /\ c[1] = b
             /\ ~ IsKept(b) => Len(c) = 3 /\ c[1] = PERCENT /\ c[2] = h /\ c[3] = l
<1> DEFINE c == Code[b]
           h == HexChar(b \div 16)
           l == HexChar(b % 16)
<1>1. CASE IsKept(b)
  BY <1>1 DEF Code
<1>2. CASE ~ IsKept(b)
  <2>1. b \div 16 \in 0 .. 15 /\ b % 16 \in 0 .. 15
    BY DEF Byte
  <2>2. h \in Byte /\ l \in Byte
    BY <2>1, HexDigit
  <2> DEFINE u == <<h, l>>
             z == <<PERCENT>> \o u
  <2>3. c = z
    BY <1>2 DEF Code, char2hex
  <2> HIDE DEF h, l
  <2>4. u \in Seq(Byte) /\ Len(u) = 2 /\ u[1] = h /\ u[2] = l
    BY <2>2
  <2>5. PERCENT \in Byte
    BY DEF PERCENT, Byte
  <2> HIDE DEF u
  <2>6. z = <<PERCENT>> \o u
    OBVIOUS
  <2> HIDE DEF z
  <2>7. z \in Seq(Byte) /\ Len(z) = Len(u) + 1 /\ z[1] = PERCENT /\ \A i \in 1 .. Len(u) : z[i + 1] = u[i]
    <3>1. u \in Seq(Byte)
      BY <2>4
    <3>2. AreCons(PERCENT, u, z, Byte)
      BY <2>5, <3>1, ConsAre
    <3> QED BY <2>6, <3>2 DEF AreCons
  <2>8. Len(z) = 3 /\ z[2] = h /\ z[3] = l
    <3>1. 1 \in 1 .. Len(u) /\ 2 \in 1 .. Len(u) /\ 1 + 1 = 2 /\ 2 + 1 = 3
      BY <2>4
    <3> QED BY <2>4, <2>7, <3>1
  <2> HIDE DEF c
  <2> QED BY <1>2, <2>3, <2>7, <2>8 DEF c, h, l
<1> QED BY <1>1, <1>2

(* UrlEncode flattens the codes of the bytes.                              *)
LEMMA EncodeIs ==
  ASSUME NEW t \in Seq(Byte)
  PROVE  /\ Code \in [Byte -> Seq(Byte)]
         /\ UrlEncode(t) = Flatten(Each(t, Code))
         /\ Each(t, Code) \in Seq(Seq(Byte)) /\ UrlEncode(t) \in Seq(Byte)
<1>1. Code \in [Byte -> Seq(Byte)]
  <2>1. \A b \in Byte : Code[b] \in Seq(Byte)
    BY CodeIs
  <2>2. Code = [b \in Byte |-> Code[b]]
    BY DEF Code
  <2> QED BY <2>1, <2>2
<1>2. UrlEncode(t) = Flatten(Each(t, Code))
  <2>1. \A i \in 1 .. Len(t) : t[i] \in Byte
    OBVIOUS
  <2>2. \A i \in 1 .. Len(t) : Code[t[i]] = IF IsKept(t[i]) THEN <<t[i]>> ELSE <<PERCENT>> \o char2hex(t[i])
    BY <2>1 DEF Code
  <2>3. Each(t, Code) = [i \in 1 .. Len(t) |-> IF IsKept(t[i]) THEN <<t[i]>> ELSE <<PERCENT>> \o char2hex(t[i])]
    BY <2>2 DEF Each
  <2> QED BY <2>3 DEF UrlEncode
<1>3. Each(t, Code) \in Seq(Seq(Byte))
  <2> DEFINE X == Seq(Byte)
             z == Each(t, Code)
  <2>1. Code \in [Byte -> X]
    BY <1>1
  <2> HIDE DEF X
  <2>2. IsEach(z, t, Code, X)
    BY <2>1, EachIs
  <2> HIDE DEF z
  <2>3. z \in Seq(X)
    BY <2>2 DEF IsEach
  <2> QED BY <2>3 DEF z, X
<1>4. UrlEncode(t) \in Seq(Byte)
  BY <1>2, <1>3, FlattenSeqOf
<1> QED BY <1>1, <1>2, <1>3, <1>4

(* Of nothing.                                                             *)
LEMMA EncodeNothing == UrlEncode(<< >>) = << >>
<1>1. [i \in 1 .. Len(<< >>) |->
         IF IsKept(<< >>[i]) THEN << << >>[i]>> ELSE <<PERCENT>> \o char2hex(<< >>[i])] = << >>
  OBVIOUS
<1> QED BY <1>1, FlattenNothing DEF UrlEncode

(* Of a byte in front.                                                     *)
EncodesFirst(b, u) == UrlEncode(<<b>> \o u) = Code[b] \o UrlEncode(u)

(* It does.                                                                *)
LEMMA EncodeCons ==
  ASSUME NEW b \in Byte, NEW u \in Seq(Byte)
  PROVE  EncodesFirst(b, u)
<1> DEFINE x == <<b>>
           F == Code
           k == F[b]
<1>1. x \in Seq(Byte) /\ F \in [Byte -> Seq(Byte)] /\ k \in Seq(Byte)
  <2>1. x \in Seq(Byte)
    OBVIOUS
  <2>2. k \in Seq(Byte)
    BY CodeIs
  <2> QED BY <2>1, <2>2, EncodeIs
<1>2. Each(x, F) = <<k>>
  <2>1. Len(x) = 1 /\ x[1] = b
    OBVIOUS
  <2> HIDE DEF x, F
  <2>2. Each(x, F) = [i \in 1 .. 1 |-> k]
    BY <2>1 DEF Each
  <2> HIDE DEF k
  <2>3. [i \in 1 .. 1 |-> k] = <<k>>
    OBVIOUS
  <2> QED BY <2>2, <2>3
<1>3. Each(u, F) \in Seq(Seq(Byte)) /\ UrlEncode(u) = Flatten(Each(u, F))
  BY EncodeIs
<1>4. Each(x \o u, F) = Each(x, F) \o Each(u, F)
  <2> HIDE DEF x, F
  <2> QED BY <1>1, EachCat
<1>5. UrlEncode(x \o u) = Flatten(Each(x \o u, F))
  <2>1. x \o u \in Seq(Byte)
    <3> HIDE DEF x
    <3> QED BY <1>1
  <2> QED BY <2>1, EncodeIs
<1> HIDE DEF F, k, x
<1>6. Flatten(<<k>> \o Each(u, F)) = k \o Flatten(Each(u, F))
  BY <1>1, <1>3, FlattenCons
<1>7. UrlEncode(x \o u) = k \o UrlEncode(u)
  BY <1>2, <1>3, <1>4, <1>5, <1>6
<1> QED BY <1>7 DEF EncodesFirst, k, x, F

(* Nothing that has a meaning in a URL is left.                            *)
LEMMA EncodeMarks ==
  ASSUME NEW t \in Seq(Byte)
  PROVE  \A i \in 1 .. Len(UrlEncode(t)) : Marks(UrlEncode(t)[i])
<1> DEFINE Good(z) == \A i \in 1 .. Len(z) : Marks(z[i])
           P == {u \in Seq(Byte) : Good(UrlEncode(u))}
<1>1. << >> \in P
  <2>1. << >> \in Seq(Byte) /\ Good(<< >>)
    OBVIOUS
  <2> HIDE DEF Good
  <2> QED BY <2>1, EncodeNothing
<1>2. ASSUME NEW b \in Byte, NEW u \in Seq(Byte), u \in P PROVE <<b>> \o u \in P
  <2> DEFINE c == Code[b]
             e == UrlEncode(u)
             z == c \o e
  <2>1. c \in Seq(Byte) /\ e \in Seq(Byte) /\ Good(e)
    BY <1>2, CodeIs, EncodeIs
  <2>2. Good(c)
    <3>1. b \div 16 \in 0 .. 15 /\ b % 16 \in 0 .. 15
      BY DEF Byte
    <3>2. IsKept(HexChar(b \div 16)) /\ IsKept(HexChar(b % 16))
      BY <3>1, HexDigit
    <3>3. CASE IsKept(b)
      <4>1. Len(c) = 1 /\ c[1] = b
        BY <3>3, CodeIs
      <4> HIDE DEF c
      <4> QED BY <3>3, <4>1 DEF Marks
    <3>4. CASE ~ IsKept(b)
      <4>1. Len(c) = 3 /\ c[1] = PERCENT /\ IsKept(c[2]) /\ IsKept(c[3])
        BY <3>2, <3>4, CodeIs
      <4> HIDE DEF c
      <4>2. \A i \in 1 .. Len(c) : i = 1 \/ i = 2 \/ i = 3
        BY <4>1
      <4> QED BY <4>1, <4>2 DEF Marks
    <3> QED BY <3>3, <3>4
  <2>3. UrlEncode(<<b>> \o u) = z
    BY EncodeCons DEF EncodesFirst
  <2> HIDE DEF c, e
  <2>4. ASSUME NEW i \in 1 .. Len(z) PROVE Marks(z[i])
    <3>1. Len(z) = Len(c) + Len(e) /\ Len(c) \in Nat /\ Len(e) \in Nat
      BY <2>1
    <3>2. CASE i <= Len(c)
      <4>1. i \in 1 .. Len(c) /\ z[i] = c[i]
        BY <2>1, <3>1, <3>2
      <4> QED BY <2>2, <4>1
    <3>3. CASE i > Len(c)
      <4>1. i - Len(c) \in 1 .. Len(e) /\ z[i] = e[i - Len(c)]
        BY <2>1, <3>1, <3>3
      <4> QED BY <2>1, <4>1
    <3> QED BY <3>1, <3>2, <3>3
  <2>5. <<b>> \o u \in Seq(Byte)
    OBVIOUS
  <2> HIDE DEF z
  <2> QED BY <2>3, <2>4, <2>5
<1> HIDE DEF P
<1>3. Seq(Byte) \subseteq P
  BY <1>1, <1>2, SeqInduct
<1> QED BY <1>3 DEF P

(* The C string m, which ends at e, reads x from p on.                     *)
ReadsAs(m, e, p, x) == p + Len(x) = e /\ \A i \in 1 .. Len(x) : m[p + i - 1] = x[i]

(* What was written for a byte is read as this byte.                       *)
LEMMA CodeDecoded ==
  ASSUME NEW b \in Byte, ~ IsKept(b)
  PROVE  LET h == HexChar(b \div 16) l == HexChar(b % 16)
         IN  h # NUL /\ l # NUL /\ DecodedChar(h, l) = b
<1> DEFINE x == b \div 16
           y == b % 16
           h == HexChar(x)
           l == HexChar(y)
<1>1. x \in 0 .. 15 /\ y \in 0 .. 15 /\ b = 16 * x + y
  BY DEF Byte
<1> HIDE DEF x, y
<1>4. h # 43 /\ h # 45 /\ ~ IsBlank(h)
  BY <1>1 DEF HexChar, IsBlank, Between
<1>2. h # NUL /\ IsDigit(h, 16) /\ Digit(h) = x /\ l # NUL /\ IsDigit(l, 16) /\ Digit(l) = y
  BY <1>1, HexDigit
<1> HIDE DEF h, l
<1>3. DecodedChar(h, l) = 16 * Digit(h) + Digit(l)
  <2>1. DecodedChar(h, l) = 16 * Digit(h) + (IF IsDigit(l, 16) THEN Digit(l) ELSE 0)
    <3> DEFINE low == IF IsDigit(l, 16) THEN Digit(l) ELSE 0
    <3>1. DecodedChar(h, l) = CASE IsDigit(h, 16) /\ IsDigit(l, 16) -> 16 * Digit(h) + low
                                [] IsDigit(h, 16) /\ ~ IsDigit(l, 16) -> Digit(h)
                                [] IsBlank(h) \/ h = 43 -> low
                                [] h = 45 -> (256 - low) % 256
                                [] OTHER -> 0
      BY DEF DecodedChar
    <3>2. h # 43 /\ h # 45 /\ ~ IsBlank(h)
      BY <1>2, <1>4
    <3> QED BY <1>2, <3>1, <3>2
  <2> QED BY <1>2, <2>1
<1> QED BY <1>1, <1>2, <1>3 DEF h, l, x, y

(* A code in front of what decodes to u decodes to its byte and u.         *)
LEMMA DecodesCons ==
  ASSUME NEW m, NEW e, EndsAt(m, e), NEW f, Decodes(m, e, f),
         NEW b \in Solid, NEW u \in Seq(Byte),
         \A p \in 0 .. e : ReadsAs(m, e, p, UrlEncode(u)) => f[p] = u,
         NEW p \in 0 .. e, ReadsAs(m, e, p, UrlEncode(<<b>> \o u))
  PROVE  f[p] = <<b>> \o u
<1> DEFINE c == Code[b]
           w == UrlEncode(u)
           z == c \o w
<1>0. e \in Nat /\ m[e] = NUL /\ f[p] = DecodedFrom(m, f, p) /\ b \in Byte /\ b # NUL /\ p \in Nat
  BY DEF EndsAt, Decodes, Solid
<1>1. c \in Seq(Byte) /\ w \in Seq(Byte)
  BY <1>0, CodeIs, EncodeIs
<1>2. ReadsAs(m, e, p, z)
  <2>1. UrlEncode(<<b>> \o u) = z
    BY <1>0, EncodeCons DEF EncodesFirst
  <2> HIDE DEF z
  <2> QED BY <2>1
<1>3. (IsKept(b) => Len(c) = 1 /\ c[1] = b)
      /\ (~ IsKept(b) => Len(c) = 3 /\ c[1] = PERCENT /\ c[2] = HexChar(b \div 16) /\ c[3] = HexChar(b % 16))
  BY <1>0, CodeIs
<1> HIDE DEF c, w
<1>4. /\ Len(z) = Len(c) + Len(w) /\ Len(c) \in Nat /\ Len(w) \in Nat
      /\ (\A i \in 1 .. Len(c) : z[i] = c[i]) /\ (\A i \in 1 .. Len(w) : z[Len(c) + i] = w[i])
  BY <1>1
<1> HIDE DEF z
<1>5. /\ p + Len(c) + Len(w) = e /\ p + Len(c) \in 0 .. e
      /\ \A i \in 1 .. Len(c) : m[p + i - 1] = c[i]
  BY <1>0, <1>2, <1>4 DEF ReadsAs
<1>6. ReadsAs(m, e, p + Len(c), w)
  <2>1. ASSUME NEW i \in 1 .. Len(w) PROVE m[p + Len(c) + i - 1] = w[i]
    <3>1. Len(c) + i \in 1 .. Len(z) /\ p + (Len(c) + i) - 1 = p + Len(c) + i - 1
      BY <1>0, <1>4
    <3>2. m[p + (Len(c) + i) - 1] = z[Len(c) + i]
      BY <1>2, <3>1 DEF ReadsAs
    <3> QED BY <1>4, <3>1, <3>2
  <2> QED BY <1>5, <2>1 DEF ReadsAs
<1>7. f[p + Len(c)] = u
  BY <1>5, <1>6 DEF w
<1>8. CASE IsKept(b)
  <2>1. 1 \in 1 .. Len(c) /\ p + 1 - 1 = p /\ Len(c) = 1 /\ c[1] = b
    <3>1. Len(c) = 1 /\ c[1] = b
      BY <1>3, <1>8
    <3> QED BY <1>0, <3>1
  <2>2. m[p] = b
    BY <1>5, <2>1
  <2>3. b # PERCENT
    BY <1>0, <1>8 DEF IsKept, Between, PERCENT, Byte
  <2>4. ~ Escape(m, p) /\ m[p] # NUL
    BY <1>0, <2>2, <2>3 DEF Escape
  <2>5. f[p] = <<m[p]>> \o f[p + 1]
    BY <1>0, <2>4 DEF DecodedFrom
  <2> QED BY <1>7, <2>1, <2>2, <2>5
<1>9. CASE ~ IsKept(b)
  <2> DEFINE h == HexChar(b \div 16)
             l == HexChar(b % 16)
  <2>1. h # NUL /\ l # NUL /\ DecodedChar(h, l) = b
    BY <1>0, <1>9, CodeDecoded
  <2>2. Len(c) = 3 /\ c[1] = PERCENT /\ c[2] = h /\ c[3] = l
    BY <1>3, <1>9
  <2> HIDE DEF h, l
  <2>3. 1 \in 1 .. Len(c) /\ 2 \in 1 .. Len(c) /\ 3 \in 1 .. Len(c)
        /\ p + 1 - 1 = p /\ p + 2 - 1 = p + 1 /\ p + 3 - 1 = p + 2
    BY <1>0, <2>2
  <2>4. m[p] = PERCENT /\ m[p + 1] = h /\ m[p + 2] = l
    BY <1>5, <2>2, <2>3
  <2>5. Escape(m, p) /\ m[p] # NUL
    BY <2>1, <2>4 DEF Escape, PERCENT, NUL
  <2>6. f[p] = <<DecodedChar(m[p + 1], m[p + 2])>> \o f[p + 3]
    BY <1>0, <2>5 DEF DecodedFrom
  <2> QED BY <1>7, <2>1, <2>2, <2>4, <2>6
<1> QED BY <1>8, <1>9

(* A C string that holds an encoded text decodes to this text.             *)
LEMMA DecodesBack ==
  ASSUME NEW m, NEW e, EndsAt(m, e), NEW t \in Seq(Solid), ReadsAs(m, e, 0, UrlEncode(t))
  PROVE  Decoded(m) = t
<1> DEFINE f == CHOOSE f : Decodes(m, e, f)
           Back(u) == \A p \in 0 .. e : ReadsAs(m, e, p, UrlEncode(u)) => f[p] = u
           P == {u \in Seq(Solid) : Back(u)}
<1>1. Decodes(m, e, f)
  BY DecodesExist
<1>2. Decoded(m) = f[0]
  <2>1. StrLen(m) = e
    BY StrLenIs
  <2>2. Decoded(m) = (CHOOSE from : from = [p \in 0 .. StrLen(m) |->
          IF m[p] = NUL THEN << >>
          ELSE IF Escape(m, p) THEN <<DecodedChar(m[p + 1], m[p + 2])>> \o from[p + 3]
          ELSE <<m[p]>> \o from[p + 1]])[0]
    BY DEF Decoded
  <2> QED BY <2>1, <2>2 DEF Decodes, DecodedFrom
<1> HIDE DEF f
<1>3. << >> \in P
  <2> SUFFICES ASSUME NEW p \in 0 .. e, ReadsAs(m, e, p, UrlEncode(<< >>)) PROVE f[p] = << >>
    OBVIOUS
  <2>1. e \in Nat /\ m[e] = NUL /\ f[p] = DecodedFrom(m, f, p)
    BY <1>1 DEF EndsAt, Decodes
  <2>2. p = e
    BY <2>1, EncodeNothing DEF ReadsAs
  <2> QED BY <2>1, <2>2 DEF DecodedFrom
<1>4. ASSUME NEW b \in Solid, NEW u \in Seq(Solid), u \in P PROVE <<b>> \o u \in P
  <2>1. u \in Seq(Byte) /\ <<b>> \o u \in Seq(Solid)
    BY DEF Solid
  <2>2. ASSUME NEW p \in 0 .. e, ReadsAs(m, e, p, UrlEncode(<<b>> \o u)) PROVE f[p] = <<b>> \o u
    BY <1>1, <1>4, <2>1, <2>2, DecodesCons
  <2> QED BY <2>1, <2>2
<1> HIDE DEF P
<1>5. Seq(Solid) \subseteq P
  BY <1>3, <1>4, SeqInduct
<1>6. Back(t)
  BY <1>5 DEF P
<1>7. 0 \in 0 .. e
  BY DEF EndsAt
<1> QED BY <1>2, <1>6, <1>7

(* UrlDecode undoes UrlEncode.                                             *)
THEOREM EncodeIsRight ==
  ASSUME NEW t \in Seq(Byte)
  PROVE  EncodeRight(t)
<1> DEFINE x == UrlEncode(t)
           s == CopyOf(x)
           e == Len(x)
<1>1. x \in Seq(Byte) /\ \A i \in 1 .. Len(x) : IsKept(x[i]) \/ x[i] = PERCENT
  BY EncodeIs, EncodeMarks DEF Marks
<1>2. ASSUME 0 \notin {t[i] : i \in 1 .. Len(t)} PROVE Text(UrlDecode(s)) = t
  <2>1. t \in Seq(Solid)
    <3>1. \A i \in 1 .. Len(t) : t[i] \in Solid
      BY <1>2 DEF Solid, NUL
    <3> QED BY <3>1
  <2> HIDE DEF x
  <2>2. e \in Nat /\ \A i \in 1 .. e : x[i] # NUL
    <3>1. \A i \in 1 .. e : x[i] \in Byte
      BY <1>1
    <3> QED BY <1>1, <3>1 DEF IsKept, Between, PERCENT, NUL, Byte
  <2>3. Carries(s, x) /\ Ended(s) /\ Sound(s) /\ s.alloc = e + 1 /\ s.length = e
    BY <1>1, CopyCarries, CopySound
  <2> HIDE DEF s, e
  <2>4. s.alloc \in Nat /\ Len(x) < s.alloc /\ e = Len(x) /\ s.length < s.alloc
    BY <2>2, <2>3 DEF e
  <2>5. EndsAt(s.cells, e)
    BY <2>2, <2>3, <2>4, CarriesEnds
  <2>6. ReadsAs(s.cells, e, 0, x)
    <3>1. \A i \in 0 .. e - 1 : s.cells[i] = x[i + 1]
      BY <2>3, <2>4 DEF Carries
    <3>2. ASSUME NEW i \in 1 .. e PROVE s.cells[0 + i - 1] = x[i]
      <4>1. i - 1 \in 0 .. e - 1 /\ 0 + i - 1 = i - 1 /\ (i - 1) + 1 = i
        BY <2>2
      <4> QED BY <3>1, <4>1
    <3> QED BY <2>2, <2>4, <3>2 DEF ReadsAs
  <2>7. Decoded(s.cells) = t
    BY <2>1, <2>5, <2>6, DecodesBack DEF x
  <2>8. StrLen(s.cells) = e
    BY <2>5, StrLenIs
  <2>9. Len(t) <= e
    BY <2>5, <2>7, DecodedShape
  <2>10. UrlDecode(s) = Shift(Put(s, 0, Append(t, NUL)), - (s.length - Len(t)))
    BY <2>3, <2>7, <2>8 DEF UrlDecode
  <2>11. Carries(UrlDecode(s), t)
    BY <2>3, <2>4, <2>9, <2>10, OverwriteCarries
  <2> QED BY <2>11, CarriesText DEF s
<1> QED BY <1>1, <1>2 DEF EncodeRight

-----------------------------------------------------------------------------
(* The log of the appenders.                                               *)

(* The lines that are written.                                             *)
Lines == {Event(m, p) : m \in Messages, p \in Priorities}
         \cup {Repeat(n, p) : n \in 1 .. CountMax, p \in Priorities \cup {Unset}}

(* The line that ends the log is the event that is compared with; with no  *)
(* line yet everything sent was empty.                                     *)
LastLine ==
  IF log = << >> THEN /\ message_ = Empty /\ priority_ = Unset
                      /\ \A j \in 1 .. Len(sent) : sent[j] = Empty
                      /\ sent = << >> => count_ = 0
  ELSE log[Len(log)] = Event(message_, priority_)

RepeatsFollow ==
  \A i \in 1 .. Len(log) :
    log[i].line = "repeat" =>
      IF i = 1 THEN Len(sent) > 0 /\ sent[1] = Empty /\ log[i].priority = Unset
      ELSE log[i - 1].line = "event" /\ log[i].priority = log[i - 1].priority

LogTypes ==
  /\ message_ \in Messages /\ priority_ \in Priorities \cup {Unset} /\ count_ \in 0 .. CountMax
  /\ log \in Seq(Lines) /\ sent \in Seq(Messages) /\ Reading \in Seq(Messages)

(* Unless the count wrapped, what is counted is what was sent last.        *)
RunCounted ==
  /\ count_ <= Len(sent)
  /\ \A j \in Len(sent) + 1 - count_ .. Len(sent) + 1 : (<<Empty>> \o sent)[j] = message_
  /\ Reading \o Copies(message_, count_) = sent

LogInv == LogTypes /\ LastLine /\ RepeatsFollow /\ (~ Overrun => RunCounted)

(* The recursive function of UpTo exists, so its equation holds.           *)
LogReads(l, f) == f = [n \in 0 .. Len(l) |-> IF n = 0 THEN << >> ELSE f[n - 1] \o Meant(l, n)]

LEMMA ReadExists ==
  ASSUME NEW l, Len(l) \in Nat
  PROVE  \E f : LogReads(l, f)
<1> DEFINE G(n, g) == g = [m \in 0 .. n |-> IF m = 0 THEN << >> ELSE g[m - 1] \o Meant(l, m)]
           S == {n \in Nat : \E g : G(n, g)}
<1>1. 0 \in S
  <2> DEFINE g == [m \in 0 .. 0 |-> << >>]
  <2>1. g = [m \in 0 .. 0 |-> IF m = 0 THEN << >> ELSE g[m - 1] \o Meant(l, m)]
    OBVIOUS
  <2> QED BY <2>1
<1>2. ASSUME NEW n \in Nat, n \in S PROVE n + 1 \in S
  <2>1. PICK g : G(n, g)
    BY <1>2
  <2> DEFINE h == [m \in 0 .. n + 1 |-> IF m = n + 1 THEN g[n] \o Meant(l, n + 1) ELSE g[m]]
  <2>2. ASSUME NEW m \in 0 .. n + 1
        PROVE  h[m] = IF m = 0 THEN << >> ELSE h[m - 1] \o Meant(l, m)
    <3>1. CASE m = n + 1
      <4>1. m # 0 /\ m - 1 = n /\ n \in 0 .. n + 1 /\ n # n + 1
        BY <3>1
      <4> QED BY <3>1, <4>1
    <3>2. CASE m = 0
      BY <2>1, <3>2
    <3>3. CASE m \in 1 .. n
      <4>1. m # 0 /\ m # n + 1 /\ m \in 0 .. n /\ m - 1 \in 0 .. n + 1 /\ m - 1 # n + 1
        BY <3>3
      <4>2. g[m] = g[m - 1] \o Meant(l, m)
        BY <2>1, <4>1
      <4> QED BY <4>1, <4>2
    <3>4. m = n + 1 \/ m = 0 \/ m \in 1 .. n
      OBVIOUS
    <3> QED BY <3>1, <3>2, <3>3, <3>4
  <2>3. G(n + 1, h)
    <3>1. h = [m \in 0 .. n + 1 |-> h[m]]
      OBVIOUS
    <3> HIDE DEF h
    <3> QED BY <2>2, <3>1
  <2> HIDE DEF h, G
  <2>4. \E f : G(n + 1, f)
    BY <2>3
  <2> QED BY <2>4
<1> HIDE DEF S
<1>3. Len(l) \in S
  BY <1>1, <1>2, Induct
<1> QED BY <1>3 DEF S, LogReads

LEMMA ReadEquation ==
  ASSUME NEW l, Len(l) \in Nat
  PROVE  /\ UpTo(l)[0] = << >>
         /\ \A n \in 1 .. Len(l) : UpTo(l)[n] = UpTo(l)[n - 1] \o Meant(l, n)
<1>1. UpTo(l) = CHOOSE f : LogReads(l, f)
  BY DEF UpTo, LogReads
<1>2. LogReads(l, UpTo(l))
  BY <1>1, ReadExists
<1> DEFINE p == UpTo(l)
<1>3. p = [n \in 0 .. Len(l) |-> IF n = 0 THEN << >> ELSE p[n - 1] \o Meant(l, n)]
  BY <1>2 DEF LogReads
<1> HIDE DEF p
<1>4. p[0] = << >>
  BY <1>3
<1>5. ASSUME NEW n \in 1 .. Len(l) PROVE p[n] = p[n - 1] \o Meant(l, n)
  <2>1. n \in 0 .. Len(l) /\ n # 0
    OBVIOUS
  <2> QED BY <1>3, <2>1
<1> QED BY <1>4, <1>5 DEF p

(* A line more leaves what the others are read as.                         *)
LEMMA ReadPrefix ==
  ASSUME NEW S, NEW l \in Seq(S), NEW e \in S
  PROVE  \A n \in 0 .. Len(l) : UpTo(Append(l, e))[n] = UpTo(l)[n]
<1> DEFINE k == Append(l, e)
           T == {n \in Nat : n <= Len(l) => UpTo(k)[n] = UpTo(l)[n]}
<1>1. /\ Len(l) \in Nat /\ Len(k) \in Nat /\ Len(k) = Len(l) + 1
      /\ \A n \in 1 .. Len(l) : k[n] = l[n]
  OBVIOUS
<1> HIDE DEF k
<1>2. 0 \in T
  BY <1>1, ReadEquation
<1>3. ASSUME NEW n \in Nat, n \in T PROVE n + 1 \in T
  <2> SUFFICES ASSUME n + 1 <= Len(l) PROVE UpTo(k)[n + 1] = UpTo(l)[n + 1]
    OBVIOUS
  <2>1. n + 1 \in 1 .. Len(l) /\ n + 1 \in 1 .. Len(k) /\ (n + 1) - 1 = n /\ n <= Len(l)
    BY <1>1
  <2>2. UpTo(k)[n] = UpTo(l)[n]
    BY <1>3, <2>1
  <2>3. k[n + 1] = l[n + 1] /\ (n + 1 # 1 => k[(n + 1) - 1] = l[(n + 1) - 1])
    BY <1>1, <2>1
  <2>4. Meant(k, n + 1) = Meant(l, n + 1)
    BY <2>3 DEF Meant
  <2>5. /\ UpTo(k)[n + 1] = UpTo(k)[(n + 1) - 1] \o Meant(k, n + 1)
        /\ UpTo(l)[n + 1] = UpTo(l)[(n + 1) - 1] \o Meant(l, n + 1)
    BY <1>1, <2>1, ReadEquation
  <2> QED BY <2>1, <2>2, <2>4, <2>5
<1> HIDE DEF T
<1>4. Nat \subseteq T
  BY <1>2, <1>3, Induct
<1>5. \A n \in 0 .. Len(l) : n \in Nat /\ n <= Len(l)
  BY <1>1
<1> QED BY <1>4, <1>5 DEF T, k

LEMMA ReadAppend ==
  ASSUME NEW S, NEW l \in Seq(S), NEW e \in S
  PROVE  UpTo(Append(l, e))[Len(Append(l, e))]
           = UpTo(l)[Len(l)] \o Meant(Append(l, e), Len(l) + 1)
<1> DEFINE k == Append(l, e)
<1>1. Len(l) \in Nat /\ Len(k) = Len(l) + 1 /\ Len(k) \in Nat
  OBVIOUS
<1>2. UpTo(k)[Len(l)] = UpTo(l)[Len(l)]
  BY <1>1, ReadPrefix
<1> HIDE DEF k
<1>3. Len(k) \in 1 .. Len(k) /\ Len(k) - 1 = Len(l)
  BY <1>1
<1>4. UpTo(k)[Len(k)] = UpTo(k)[Len(k) - 1] \o Meant(k, Len(k))
  BY <1>1, <1>3, ReadEquation
<1> QED BY <1>1, <1>2, <1>3, <1>4 DEF k

(* What was sent, behind the empty text that the logger starts with.       *)
LEMMA History ==
  ASSUME NEW s \in Seq(Messages), NEW m \in Messages
  PROVE  /\ Len(<<Empty>> \o s) = Len(s) + 1
         /\ Len(<<Empty>> \o Append(s, m)) = Len(s) + 2
         /\ \A j \in 1 .. Len(s) + 1 : (<<Empty>> \o Append(s, m))[j] = (<<Empty>> \o s)[j]
         /\ (<<Empty>> \o Append(s, m))[Len(s) + 2] = m
<1>1. <<Empty>> \in Seq(Messages) /\ Len(<<Empty>>) = 1 /\ <<Empty>>[1] = Empty
  BY LoggerAssumption
<1>2. Len(s) \in Nat /\ Append(s, m) \in Seq(Messages) /\ Len(Append(s, m)) = Len(s) + 1
      /\ Append(s, m)[Len(s) + 1] = m
  OBVIOUS
<1>3. ASSUME NEW j \in 1 .. Len(s) + 1
      PROVE  (<<Empty>> \o Append(s, m))[j] = (<<Empty>> \o s)[j]
  <2>1. CASE j = 1
    BY <1>1, <1>2, <2>1
  <2>2. CASE j # 1
    <3> DEFINE i == j - 1
    <3>1. i \in 1 .. Len(s) /\ j = 1 + i /\ i \in 1 .. Len(s) + 1
      BY <1>2, <2>2
    <3>2. Append(s, m)[i] = s[i]
      BY <3>1
    <3>3. (<<Empty>> \o s)[j] = s[i]
      BY <1>1, <3>1
    <3>4. (<<Empty>> \o Append(s, m))[j] = Append(s, m)[i]
      BY <1>1, <1>2, <3>1
    <3> QED BY <3>2, <3>3, <3>4
  <2> QED BY <2>1, <2>2
<1>4. (<<Empty>> \o Append(s, m))[Len(s) + 2] = m
  BY <1>1, <1>2
<1> QED BY <1>1, <1>2, <1>3, <1>4

(* The places of a run of c + 1 and of one more.                           *)
LEMMA InRun ==
  ASSUME NEW n \in Nat, NEW c \in Nat, c <= n, NEW j \in n + 1 - c .. n + 2
  PROVE  j = n + 2 \/ (j \in n + 1 - c .. n + 1 /\ j \in 1 .. n + 1)
OBVIOUS

LEMMA AppendFacts ==
  ASSUME NEW S, NEW l \in Seq(S), NEW e \in S
  PROVE  /\ Append(l, e) \in Seq(S) /\ Len(Append(l, e)) = Len(l) + 1
         /\ Append(l, e)[Len(l) + 1] = e /\ l \o <<e>> = Append(l, e)
         /\ \A i \in 1 .. Len(l) : Append(l, e)[i] = l[i]
<1>1. l \o <<e>> = Append(l, e)
  OBVIOUS
<1> QED BY <1>1

(* Sending more does not undo an overrun; sending the text CountMax + 1    *)
(* times again makes one.                                                  *)
LEMMA OverrunStays ==
  ASSUME sent \in Seq(Messages), NEW m \in Messages, sent' = Append(sent, m), Overrun
  PROVE  Overrun'
<1> DEFINE h == <<Empty>> \o sent
           g == <<Empty>> \o Append(sent, m)
           C == CountMax
<1>1. /\ Len(h) = Len(sent) + 1 /\ Len(g) = Len(sent) + 2 /\ Len(sent) \in Nat
      /\ \A j \in 1 .. Len(sent) + 1 : g[j] = h[j]
  BY History
<1>2. PICK i \in 1 .. Len(h) - C - 1 : \A j \in i .. i + C + 1 : h[j] = h[i]
  BY DEF Overrun
<1>3. C \in Nat
  BY LoggerAssumption
<1>4. g = <<Empty>> \o sent'
  OBVIOUS
<1> HIDE DEF h, g, C
<1>5. i \in 1 .. Len(g) - C - 1 /\ i \in 1 .. Len(sent) + 1
  BY <1>1, <1>3
<1>6. ASSUME NEW j \in i .. i + C + 1 PROVE g[j] = g[i]
  <2>1. j \in 1 .. Len(sent) + 1
    BY <1>1, <1>3, <1>5
  <2>2. h[j] = h[i]
    BY <1>2
  <2> QED BY <1>1, <1>5, <2>1, <2>2
<1>7. \E x \in 1 .. Len(g) - C - 1 : \A j \in x .. x + C + 1 : g[j] = g[x]
  BY <1>5, <1>6
<1> QED BY <1>4, <1>7 DEF Overrun, C

LEMMA RunOverruns ==
  ASSUME sent \in Seq(Messages), NEW m \in Messages, sent' = Append(sent, m), CountMax <= Len(sent),
         \A j \in Len(sent) + 1 - CountMax .. Len(sent) + 1 : (<<Empty>> \o sent)[j] = m
  PROVE  Overrun'
<1> DEFINE h == <<Empty>> \o sent
           g == <<Empty>> \o Append(sent, m)
           C == CountMax
           n == Len(sent)
           i == n + 1 - C
<1>1. /\ Len(h) = n + 1 /\ Len(g) = n + 2 /\ n \in Nat
      /\ \A j \in 1 .. n + 1 : g[j] = h[j]
      /\ g[n + 2] = m
  BY History
<1>2. C \in Nat /\ C <= n /\ n \in Nat
  BY LoggerAssumption
<1>3. \A j \in n + 1 - C .. n + 1 : h[j] = m
  OBVIOUS
<1>4. g = <<Empty>> \o sent'
  OBVIOUS
<1> HIDE DEF h, g, C, n
<1>5. i \in 1 .. Len(g) - C - 1 /\ i \in n + 1 - C .. n + 1 /\ i \in 1 .. n + 1 /\ i + C + 1 = n + 2
  BY <1>1, <1>2
<1>6. ASSUME NEW j \in i .. i + C + 1 PROVE g[j] = m
  <2>1. j \in n + 1 - C .. n + 2
    BY <1>2
  <2>2. j = n + 2 \/ (j \in n + 1 - C .. n + 1 /\ j \in 1 .. n + 1)
    BY <1>2, <2>1, InRun
  <2> QED BY <1>1, <1>3, <2>2
<1>7. g[i] = m
  BY <1>1, <1>3, <1>5
<1> HIDE DEF i
<1>8. \E x \in 1 .. Len(g) - C - 1 : \A j \in x .. x + C + 1 : g[j] = g[x]
  BY <1>5, <1>6, <1>7
<1> QED BY <1>4, <1>8 DEF Overrun, C

LEMMA LineFacts ==
  /\ \A m \in Messages, p \in Priorities :
       /\ Event(m, p) \in Lines /\ Event(m, p).line = "event" /\ Event(m, p).text = m
       /\ Event(m, p).priority = p
  /\ \A n \in 1 .. CountMax, p \in Priorities \cup {Unset} :
       /\ Repeat(n, p) \in Lines /\ Repeat(n, p).line = "repeat" /\ Repeat(n, p).times = n
       /\ Repeat(n, p).priority = p
<1>1. ASSUME NEW m \in Messages, NEW p \in Priorities
      PROVE  /\ Event(m, p) \in Lines /\ Event(m, p).line = "event" /\ Event(m, p).text = m
             /\ Event(m, p).priority = p
  <2>1. Event(m, p) \in Lines
    BY DEF Lines
  <2> QED BY <2>1 DEF Event
<1>2. ASSUME NEW n \in 1 .. CountMax, NEW p \in Priorities \cup {Unset}
      PROVE  /\ Repeat(n, p) \in Lines /\ Repeat(n, p).line = "repeat"
             /\ Repeat(n, p).times = n /\ Repeat(n, p).priority = p
  <2>1. Repeat(n, p) \in Lines
    BY DEF Lines
  <2> QED BY <2>1 DEF Repeat
<1> QED BY <1>1, <1>2

LEMMA CopiesFacts ==
  ASSUME NEW m \in Messages, NEW n \in Nat
  PROVE  /\ Copies(m, n) \in Seq(Messages) /\ Len(Copies(m, n)) = n
         /\ \A j \in 1 .. n : Copies(m, n)[j] = m
BY DEF Copies

LEMMA NoCopies ==
  ASSUME NEW m, NEW t \in Seq(Messages)
  PROVE  t \o Copies(m, 0) = t
<1>1. Copies(m, 0) = << >>
  BY DEF Copies
<1> QED BY <1>1

LEMMA CopiesGrow ==
  ASSUME NEW m \in Messages, NEW n \in Nat, NEW t \in Seq(Messages)
  PROVE  t \o Copies(m, n + 1) = Append(t \o Copies(m, n), m)
<1> DEFINE a == Copies(m, n)
           b == Copies(m, n + 1)
<1>1. /\ a \in Seq(Messages) /\ Len(a) = n /\ b \in Seq(Messages) /\ Len(b) = n + 1
      /\ \A j \in 1 .. n : a[j] = m
      /\ \A j \in 1 .. n + 1 : b[j] = m
  BY CopiesFacts
<1> HIDE DEF a, b
<1>2. b = Append(a, m)
  <2>1. Append(a, m) \in Seq(Messages) /\ Len(Append(a, m)) = n + 1
    BY <1>1
  <2>2. ASSUME NEW j \in 1 .. n + 1 PROVE b[j] = Append(a, m)[j]
    BY <1>1
  <2> QED BY <1>1, <2>1, <2>2
<1>3. t \o Append(a, m) = Append(t \o a, m)
  BY <1>1
<1> QED BY <1>2, <1>3 DEF a, b

LEMMA LogStarts ==
  ASSUME LogInit
  PROVE  LogInv
<1>1. /\ message_ = Empty /\ priority_ = Unset /\ count_ = 0 /\ log = << >> /\ sent = << >>
      /\ Empty \in Messages /\ CountMax \in Nat /\ Len(log) = 0 /\ Len(sent) = 0
  BY LoggerAssumption DEF LogInit
<1>2. Reading = << >>
  BY <1>1, ReadEquation DEF Reading
<1>3. LogTypes
  BY <1>1, <1>2 DEF LogTypes
<1>4. LastLine /\ RepeatsFollow
  BY <1>1 DEF LastLine, RepeatsFollow
<1>5. RunCounted
  <2>1. Reading \o Copies(message_, count_) = sent
    <3>1. Reading \in Seq(Messages) /\ Reading = sent
      BY <1>1, <1>2
    <3> QED BY <1>1, <3>1, NoCopies
  <2>2. <<Empty>> \o sent = <<Empty>>
    BY <1>1
  <2>3. Len(sent) + 1 - count_ = 1 /\ Len(sent) + 1 = 1 /\ count_ <= Len(sent)
    BY <1>1
  <2>4. ASSUME NEW j \in Len(sent) + 1 - count_ .. Len(sent) + 1
        PROVE  (<<Empty>> \o sent)[j] = message_
    BY <1>1, <2>2, <2>3
  <2> QED BY <2>1, <2>3, <2>4 DEF RunCounted
<1> QED BY <1>3, <1>4, <1>5 DEF LogInv

(* The same text again is counted, and is what was sent last; the count    *)
(* can only wrap where there is an overrun.                                *)
LEMMA SameStays ==
  ASSUME LogInv, NEW m \in Messages, message_ = m, SameMessage, sent' = Append(sent, m)
  PROVE  LogInv'
<1>1. LogTypes /\ LastLine /\ RepeatsFollow
  BY DEF LogInv
<1>2. /\ log' = log /\ message_' = m /\ priority_' = priority_ /\ count_' = (count_ + 1) % (CountMax + 1)
  BY DEF SameMessage
<1>3. /\ count_ \in 0 .. CountMax /\ CountMax \in Nat /\ sent \in Seq(Messages) /\ Len(sent) \in Nat
      /\ Reading \in Seq(Messages)
  BY <1>1, LoggerAssumption DEF LogTypes
<1>4. count_' \in 0 .. CountMax
  BY <1>2, <1>3
<1>5. /\ sent' \in Seq(Messages) /\ Len(sent') = Len(sent) + 1 /\ sent' # << >>
      /\ \A j \in 1 .. Len(sent) : sent'[j] = sent[j]
      /\ sent'[Len(sent) + 1] = m
  BY <1>3
<1>6. Reading' = Reading
  BY <1>2 DEF Reading
<1>7. LogTypes'
  BY <1>1, <1>2, <1>4, <1>5, <1>6 DEF LogTypes
<1>8. LastLine'
  BY <1>1, <1>2, <1>3, <1>5 DEF LastLine
<1>9. RepeatsFollow'
  BY <1>1, <1>2, <1>3, <1>5 DEF RepeatsFollow
<1>10. ASSUME ~ Overrun' PROVE RunCounted'
  <2>1. RunCounted
    BY <1>3, <1>10, OverrunStays DEF LogInv
  <2>2. count_ < CountMax
    <3> SUFFICES ASSUME count_ = CountMax PROVE FALSE
      BY <1>3
    <3> QED BY <1>3, <1>10, <2>1, RunOverruns DEF RunCounted
  <2> DEFINE c == count_
             n == Len(sent)
             h == <<Empty>> \o sent
             g == <<Empty>> \o Append(sent, m)
  <2>3. c \in Nat /\ c < CountMax /\ CountMax \in Nat /\ n \in Nat /\ c <= n /\ count_' = (c + 1) % (CountMax + 1)
    BY <1>2, <1>3, <2>1, <2>2 DEF RunCounted
  <2>4. /\ \A j \in 1 .. n + 1 : g[j] = h[j]
        /\ g[n + 2] = m
    BY <1>3, History
  <2>5. \A j \in n + 1 - c .. n + 1 : h[j] = m
    BY <2>1 DEF RunCounted
  <2>6. Reading \o Copies(m, c) = sent
    BY <2>1 DEF RunCounted
  <2>7. g = <<Empty>> \o sent' /\ Len(sent') = n + 1
    BY <1>5
  <2> HIDE DEF c, n, h, g
  <2>8. count_' = c + 1
    BY <2>3
  <2>9. ASSUME NEW j \in Len(sent') + 1 - count_' .. Len(sent') + 1 PROVE g[j] = m
    <3>1. Len(sent') + 1 - count_' = n + 1 - c /\ Len(sent') + 1 = n + 2
      BY <2>3, <2>7, <2>8
    <3>2. j = n + 2 \/ (j \in n + 1 - c .. n + 1 /\ j \in 1 .. n + 1)
      BY <2>3, <3>1, InRun
    <3> QED BY <2>4, <2>5, <3>2
  <2>10. Reading' \o Copies(m, c + 1) = Append(sent, m)
    BY <1>3, <1>6, <2>3, <2>6, CopiesGrow
  <2>11. count_' <= Len(sent')
    BY <2>3, <2>7, <2>8
  <2> QED BY <1>2, <2>7, <2>8, <2>9, <2>10, <2>11 DEF RunCounted
<1> QED BY <1>7, <1>8, <1>9, <1>10 DEF LogInv

(* What a log with the counted repetitions and the next event is read as.  *)
LEMMA NewReads ==
  ASSUME LogTypes, LastLine, NEW m \in Messages, NEW p \in Priorities,
         log' = log \o (IF count_ # 0 THEN <<Repeat(count_, priority_)>> ELSE << >>) \o <<Event(m, p)>>
  PROVE  \E k \in Seq(Lines) :
           /\ log' = Append(k, Event(m, p)) /\ log' \in Seq(Lines)
           /\ k = IF count_ # 0 THEN Append(log, Repeat(count_, priority_)) ELSE log
           /\ Reading' = Append(Reading \o Copies(message_, count_), m)
<1>1. /\ log \in Seq(Lines) /\ Len(log) \in Nat /\ count_ \in Nat /\ count_ \in 0 .. CountMax
      /\ message_ \in Messages /\ priority_ \in Priorities \cup {Unset} /\ Reading \in Seq(Messages)
  BY LoggerAssumption DEF LogTypes
<1> DEFINE e == Event(m, p)
           r == Repeat(count_, priority_)
           k == IF count_ # 0 THEN Append(log, r) ELSE log
<1>2. e \in Lines /\ e.line = "event" /\ e.text = m
  BY LineFacts
<1>3. ASSUME count_ # 0 PROVE r \in Lines /\ r.line = "repeat" /\ r.times = count_
  BY <1>1, <1>3, LineFacts
<1> HIDE DEF e, r
<1>4. k \in Seq(Lines) /\ Len(k) \in Nat
  BY <1>1, <1>3
<1>5. log' = Append(k, e)
  <2>1. CASE count_ = 0
    <3>1. log' = log \o << >> \o <<e>>
      BY <2>1 DEF e
    <3> QED BY <1>1, <1>2, <2>1, <3>1
  <2>2. CASE count_ # 0
    <3>1. log' = log \o <<r>> \o <<e>>
      BY <2>2 DEF e, r
    <3> QED BY <1>1, <1>2, <1>3, <2>2, <3>1
  <2> QED BY <2>1, <2>2
<1>51. Append(k, e)[Len(k) + 1] = e /\ Append(k, e) \in Seq(Lines)
  BY <1>2, <1>4, AppendFacts
<1>6. UpTo(k)[Len(k)] = Reading \o Copies(message_, count_)
  <2>1. CASE count_ = 0
    BY <1>1, <2>1, NoCopies DEF Reading
  <2>2. CASE count_ # 0
    <3> DEFINE i == Len(log) + 1
    <3>1. k[i] = r /\ (i # 1 => k[i - 1] = log[i - 1]) /\ i \in Nat
      BY <1>1, <1>3, <2>2
    <3>2. Meant(k, i) = Copies(IF i = 1 THEN Empty ELSE k[i - 1].text, count_)
      BY <1>3, <2>2, <3>1 DEF Meant
    <3>3. (IF i = 1 THEN Empty ELSE k[i - 1].text) = message_
      <4>1. CASE log = << >>
        BY <4>1 DEF LastLine
      <4>2. CASE log # << >>
        <5>1. i # 1 /\ i - 1 = Len(log)
          BY <1>1, <4>2
        <5>2. log[Len(log)] = Event(message_, priority_)
          BY <4>2 DEF LastLine
        <5>3. k[i - 1].text = Event(message_, priority_).text
          BY <3>1, <5>1, <5>2
        <5>4. Event(message_, priority_).text = message_
          BY DEF Event
        <5> QED BY <5>1, <5>3, <5>4
      <4> QED BY <4>1, <4>2
    <3>4. UpTo(k)[Len(k)] = UpTo(log)[Len(log)] \o Meant(k, i)
      BY <1>1, <1>3, <2>2, ReadAppend
    <3> QED BY <3>2, <3>3, <3>4 DEF Reading
  <2> QED BY <2>1, <2>2
<1>7. Reading' = Append(Reading \o Copies(message_, count_), m)
  <2> HIDE DEF k
  <2>1. log'[Len(k) + 1] = e
    BY <1>5, <1>51
  <2>2. Meant(log', Len(k) + 1) = <<m>>
    BY <1>2, <2>1 DEF Meant
  <2>3. UpTo(log')[Len(log')] = UpTo(k)[Len(k)] \o <<m>>
    BY <1>2, <1>4, <1>5, <2>2, ReadAppend
  <2>4. Reading \o Copies(message_, count_) \in Seq(Messages)
    BY <1>1, CopiesFacts
  <2>5. Reading' = (Reading \o Copies(message_, count_)) \o <<m>>
    BY <1>6, <2>3 DEF Reading
  <2> QED BY <2>4, <2>5, AppendFacts
<1>8. log' \in Seq(Lines)
  BY <1>5, <1>51
<1> QED BY <1>4, <1>5, <1>7, <1>8 DEF e, r

LEMMA NewStays ==
  ASSUME LogInv, NEW m \in Messages, NEW p \in Priorities, NewMessage(m, p), sent' = Append(sent, m)
  PROVE  LogInv'
<1>1. LogTypes /\ LastLine /\ RepeatsFollow
  BY DEF LogInv
<1>2. /\ log' = log \o (IF count_ # 0 THEN <<Repeat(count_, priority_)>> ELSE << >>) \o <<Event(m, p)>>
      /\ message_' = m /\ priority_' = p /\ count_' = 0
  BY DEF NewMessage
<1>3. PICK k \in Seq(Lines) :
         /\ log' = Append(k, Event(m, p)) /\ log' \in Seq(Lines)
         /\ k = IF count_ # 0 THEN Append(log, Repeat(count_, priority_)) ELSE log
         /\ Reading' = Append(Reading \o Copies(message_, count_), m)
  BY <1>1, <1>2, NewReads
<1>4. /\ count_ \in 0 .. CountMax /\ count_ \in Nat /\ CountMax \in Nat /\ log \in Seq(Lines)
      /\ sent \in Seq(Messages) /\ Len(sent) \in Nat /\ Len(k) \in Nat /\ Len(log) \in Nat
      /\ message_ \in Messages /\ priority_ \in Priorities \cup {Unset} /\ Reading \in Seq(Messages)
  BY <1>1, LoggerAssumption DEF LogTypes
<1>5. /\ sent' \in Seq(Messages) /\ Len(sent') = Len(sent) + 1
      /\ \A j \in 1 .. Len(sent) : sent'[j] = sent[j]
  BY <1>4
<1>6. Event(m, p) \in Lines /\ Event(m, p).line = "event"
  BY LineFacts
<1>7. /\ Len(log') = Len(k) + 1 /\ log'[Len(k) + 1] = Event(m, p) /\ log' # << >>
      /\ \A i \in 1 .. Len(k) : log'[i] = k[i]
  <2>1. /\ Len(Append(k, Event(m, p))) = Len(k) + 1 /\ Append(k, Event(m, p))[Len(k) + 1] = Event(m, p)
        /\ \A i \in 1 .. Len(k) : Append(k, Event(m, p))[i] = k[i]
    BY <1>6, AppendFacts
  <2>2. /\ Len(log') = Len(k) + 1 /\ log'[Len(k) + 1] = Event(m, p)
        /\ \A i \in 1 .. Len(k) : log'[i] = k[i]
    BY <1>3, <2>1
  <2>3. log' # << >>
    BY <1>4, <2>2
  <2> QED BY <2>2, <2>3
<1>8. Reading' \in Seq(Messages)
  <2>1. Reading \o Copies(message_, count_) \in Seq(Messages)
    BY <1>4, CopiesFacts
  <2> QED BY <1>3, <2>1
<1>9. LogTypes'
  BY <1>2, <1>3, <1>4, <1>5, <1>8 DEF LogTypes
<1>10. LastLine'
  BY <1>2, <1>7 DEF LastLine
<1>11. RepeatsFollow'
  <2> SUFFICES ASSUME NEW i \in 1 .. Len(log'), log'[i].line = "repeat"
               PROVE  IF i = 1 THEN Len(sent') > 0 /\ sent'[1] = Empty /\ log'[i].priority = Unset
                      ELSE log'[i - 1].line = "event" /\ log'[i].priority = log'[i - 1].priority
    BY DEF RepeatsFollow
  <2>1. i \in 1 .. Len(k) /\ log'[i] = k[i] /\ (i # 1 => i - 1 \in 1 .. Len(k) /\ log'[i - 1] = k[i - 1])
    <3>1. i # Len(k) + 1
      BY <1>6, <1>7
    <3>2. i \in 1 .. Len(k)
      BY <1>4, <1>7, <3>1
    <3>3. i # 1 => i - 1 \in 1 .. Len(k)
      BY <1>4, <3>2
    <3> QED BY <1>7, <3>2, <3>3
  <2>2. CASE i \in 1 .. Len(log)
    <3>1. k[i] = log[i] /\ (i # 1 => k[i - 1] = log[i - 1])
      <4>1. CASE count_ = 0
        BY <1>3, <4>1
      <4>2. CASE count_ # 0
        <5>1. Repeat(count_, priority_) \in Lines
          BY <1>4, <4>2, LineFacts
        <5>2. \A j \in 1 .. Len(log) : k[j] = log[j]
          BY <1>3, <1>4, <4>2, <5>1, AppendFacts
        <5>3. i # 1 => i - 1 \in 1 .. Len(log)
          BY <1>4, <2>2
        <5> QED BY <2>2, <5>2, <5>3
      <4> QED BY <4>1, <4>2
    <3>2. log[i].line = "repeat"
      BY <2>1, <3>1
    <3>3. IF i = 1 THEN Len(sent) > 0 /\ sent[1] = Empty /\ log[i].priority = Unset
          ELSE log[i - 1].line = "event" /\ log[i].priority = log[i - 1].priority
      BY <1>1, <2>2, <3>2 DEF RepeatsFollow
    <3>4. CASE i = 1
      <4>1. Len(sent) > 0 /\ 1 \in 1 .. Len(sent) /\ sent[1] = Empty /\ log[i].priority = Unset
        BY <1>4, <3>3, <3>4
      <4> QED BY <1>4, <1>5, <2>1, <3>1, <3>4, <4>1
    <3>5. CASE i # 1
      BY <2>1, <3>1, <3>3, <3>5
    <3> QED BY <3>4, <3>5
  <2>3. CASE i \notin 1 .. Len(log)
    <3>1. count_ # 0
      BY <1>3, <2>1, <2>3
    <3> DEFINE r == Repeat(count_, priority_)
    <3>2. r \in Lines /\ r.priority = priority_
      BY <1>4, <3>1, LineFacts
    <3>3. /\ Len(k) = Len(log) + 1 /\ k[Len(log) + 1] = r
          /\ \A j \in 1 .. Len(log) : k[j] = log[j]
      BY <1>3, <1>4, <3>1, <3>2, AppendFacts
    <3> HIDE DEF r
    <3>4. i = Len(log) + 1 /\ log'[i].priority = priority_
      <4>1. i = Len(log) + 1
        BY <1>4, <2>1, <2>3, <3>3
      <4> QED BY <2>1, <3>2, <3>3, <4>1
    <3>5. CASE i = 1
      <4>1. log = << >>
        BY <1>4, <3>4, <3>5
      <4>2. priority_ = Unset /\ (\A j \in 1 .. Len(sent) : sent[j] = Empty) /\ sent # << >>
        BY <1>1, <3>1, <4>1 DEF LastLine
      <4>3. Len(sent) > 0 /\ 1 \in 1 .. Len(sent)
        BY <1>4, <4>2
      <4> QED BY <1>4, <1>5, <3>4, <3>5, <4>2, <4>3
    <3>6. CASE i # 1
      <4>1. log # << >> /\ i - 1 = Len(log) /\ Len(log) \in 1 .. Len(log)
        BY <1>4, <3>4, <3>6
      <4>2. log[Len(log)] = Event(message_, priority_)
        BY <1>1, <4>1 DEF LastLine
      <4>3. log'[i - 1] = Event(message_, priority_)
        BY <2>1, <3>3, <3>6, <4>1, <4>2
      <4>4. Event(message_, priority_).line = "event" /\ Event(message_, priority_).priority = priority_
        BY DEF Event
      <4> QED BY <3>4, <3>6, <4>3, <4>4
    <3> QED BY <3>5, <3>6
  <2> QED BY <2>2, <2>3
<1>12. ASSUME ~ Overrun' PROVE RunCounted'
  <2>1. RunCounted
    BY <1>4, <1>12, OverrunStays DEF LogInv
  <2>2. Reading \o Copies(message_, count_) = sent
    BY <2>1 DEF RunCounted
  <2>3. Reading' \o Copies(m, 0) = sent'
    <3>1. Reading' = sent'
      BY <1>3, <2>2
    <3> QED BY <1>8, <3>1, NoCopies
  <2> DEFINE n == Len(sent)
             g == <<Empty>> \o Append(sent, m)
  <2>4. g[n + 2] = m /\ n \in Nat
    BY <1>4, History
  <2>5. g = <<Empty>> \o sent' /\ Len(sent') = n + 1
    BY <1>5
  <2> HIDE DEF n, g
  <2>6. \A j \in Len(sent') + 1 - 0 .. Len(sent') + 1 : j = n + 2
    BY <2>4, <2>5
  <2>7. 0 <= Len(sent')
    BY <2>4, <2>5
  <2> QED BY <1>2, <2>3, <2>4, <2>5, <2>6, <2>7 DEF RunCounted
<1> QED BY <1>9, <1>10, <1>11, <1>12 DEF LogInv

LEMMA LogStays ==
  ASSUME LogInv, [LogNext]_logVars
  PROVE  LogInv'
<1>1. ASSUME NEW m \in Messages, NEW p \in Priorities, _append(m, p) PROVE LogInv'
  <2>1. sent' = Append(sent, m)
    BY <1>1 DEF _append
  <2>2. CASE NewMessage(m, p)
    BY <2>1, <2>2, NewStays
  <2>3. CASE message_ = m /\ SameMessage
    BY <2>1, <2>3, SameStays
  <2> QED BY <1>1, <2>2, <2>3 DEF _append
<1>2. CASE UNCHANGED <<message_, priority_, count_, log, sent>>
  BY <1>2 DEF LogInv, LogTypes, LastLine, RepeatsFollow, RunCounted, Reading, Overrun
<1> QED BY <1>1, <1>2 DEF LogNext, Destroy, logVars

(* For any messages, priorities and width of the count, a reader of the    *)
(* log gets back what was logged, in order and in number, as long as the   *)
(* count does not wrap; and every repetition stands below its event.       *)
THEOREM LogReadsBack == LogSpec => []LogTells
<1>1. LogInv => LogTells
  BY DEF LogInv, RepeatsFollow, RunCounted, LogTells
<1> QED BY <1>1, LogStarts, LogStays, PTL DEF LogSpec

-----------------------------------------------------------------------------
(* The functions without state, together.                                  *)

(* The part of a behaviour and its input never change.                     *)
Inputs ==
  /\ part = "number" =>
       \E T \in {Type(Bits, TRUE), Type(Bits, FALSE)} :
         \E v \in Values(T), base \in Bases, upper \in BOOLEAN :
           input = [value |-> v, base |-> base, upper |-> upper, type |-> T]
  /\ part = "words" => \E t \in Words, D \in Delimiters : input = [text |-> t, delimiters |-> D]
  /\ part = "copy" =>
       \E a, b \in Copied, n \in 0 .. 2 * Longest + 1 : input = [dst |-> a, src |-> b, size |-> n]
  /\ part = "format" => input \in Formats
  /\ part = "time" => \E t, u \in Moments : input = [from |-> t, to |-> u]
  /\ part = "hour" => \E h \in 0 .. 23, shift \in - Hours .. Hours : input = [hour |-> h, shift |-> shift]

(* A function from the first n numbers is a sequence.                      *)
LEMMA TextsAre ==
  ASSUME NEW X, NEW t \in UNION {[1 .. n -> X] : n \in 0 .. Longest}
  PROVE  t \in Seq(X)
BY LibraryAssumption

(* Characters that are not NUL.                                            *)
LEMMA SolidOf ==
  ASSUME NEW X, X \subseteq 1 .. 255, NEW t \in Seq(X)
  PROVE  t \in Seq(Solid)
<1>1. 1 .. 255 \subseteq Solid
  BY DEF Solid, Byte, NUL
<1>2. Len(t) \in Nat /\ t = [i \in 1 .. Len(t) |-> t[i]] /\ \A i \in 1 .. Len(t) : t[i] \in X
  OBVIOUS
<1>3. \A i \in 1 .. Len(t) : t[i] \in Solid
  BY <1>1, <1>2
<1> QED BY <1>2, <1>3

(* Numbers of the two types.                                               *)
LEMMA NumbersAgree ==
  ASSUME NEW T \in {Type(Bits, TRUE), Type(Bits, FALSE)}, NEW v \in Values(T), NEW base \in Bases, NEW upper
  PROVE  NumberRight(v, base, upper, T)
<1>1. T.bits = Bits /\ T.signed \in BOOLEAN
  <2>1. Type(Bits, TRUE) = [bits |-> Bits, signed |-> TRUE] /\ Type(Bits, FALSE) = [bits |-> Bits, signed |-> FALSE]
    BY DEF Type
  <2>2. T = [bits |-> Bits, signed |-> TRUE] \/ T = [bits |-> Bits, signed |-> FALSE]
    BY <2>1
  <2>3. CASE T = [bits |-> Bits, signed |-> TRUE]
    BY <2>3
  <2>4. CASE T = [bits |-> Bits, signed |-> FALSE]
    BY <2>4
  <2> QED BY <2>2, <2>3, <2>4
<1>2. IsType(T) /\ base \in Int
  BY <1>1, LibraryAssumption DEF IsType
<1>3. 35 < Bit[T.bits - 1] /\ DigitsFit(T) /\ DigitBuffer + 3 <= SizeMax
  <2>1. Type(Bits, FALSE).bits = T.bits
    BY <1>1 DEF Type
  <2>2. DigitsFit(Type(Bits, FALSE)) /\ DigitBuffer + 3 <= SizeMax
    BY LibraryAssumption
  <2>3. DigitsFit(T)
    BY <2>1, <2>2, Zenon DEF DigitsFit
  <2> QED BY <1>1, <2>2, <2>3, BasesFit
<1> QED BY <1>2, <1>3, NumbersRight

(* Texts.                                                                  *)
LEMMA WordsAgree ==
  ASSUME NEW t \in Words, NEW D
  PROVE  WordsRight(t, D) /\ JoinRight(t, D) /\ PairsRight(t, D) /\ TrimRight(t) /\ EncodeRight(t)
<1>1. t \in Seq(Letters)
  BY TextsAre DEF Words
<1>2. t \in Seq(Solid)
  BY <1>1, SolidOf, LibraryAssumption
<1>3. t \in Seq(Byte)
  BY <1>2 DEF Solid
<1> QED BY <1>2, <1>3, WordsAreRight, JoinIsRight, PairsAreRight, BlanksTrimmed, EncodeIsRight

(* Copies.                                                                 *)
LEMMA CopiesAgree ==
  ASSUME NEW a \in Copied, NEW b \in Copied, NEW n \in 0 .. 2 * Longest + 1
  PROVE  CopyRight(a, b, n) /\ CaseRight(a, b)
<1>1. a \in Seq(Cased) /\ b \in Seq(Cased)
  BY TextsAre DEF Copied
<1>2. a \in Seq(Solid) /\ b \in Seq(Solid)
  BY <1>1, SolidOf, LibraryAssumption
<1>3. a \in Seq(Byte) /\ b \in Seq(Byte) /\ n \in Nat
  BY <1>2, LibraryAssumption DEF Solid
<1> QED BY <1>2, <1>3, CopyIsRight, CaseIgnored

(* Times.                                                                  *)
LEMMA TimesAgree ==
  ASSUME NEW t \in Moments, NEW u \in Moments
  PROVE  TimeRight(t, u)
<1>1. Longest \in Nat /\ Longest < Word /\ Word \in Nat
  BY LibraryAssumption, ClockAssumption
<1>2. /\ t.sec \in 0 .. Longest /\ u.sec \in 0 .. Longest
      /\ t = [sec |-> t.sec, nsec |-> t.nsec] /\ u = [sec |-> u.sec, nsec |-> u.nsec]
      /\ t.nsec \in 0 .. second - 1 /\ u.nsec \in 0 .. second - 1
  BY DEF Moments
<1>3. t \in Times /\ u \in Times
  BY <1>1, <1>2 DEF Times
<1> QED BY <1>1, <1>2, <1>3, TimesRight

(* An input of a part is one of those that its theorem is about.           *)
LEMMA InputsAgree ==
  ASSUME Inputs
  PROVE  HelpersAgree
<1>1. part = "number" => NumberRight(input.value, input.base, input.upper, input.type)
  <2> SUFFICES ASSUME NEW T \in {Type(Bits, TRUE), Type(Bits, FALSE)},
                      NEW v \in Values(T), NEW base \in Bases, NEW upper \in BOOLEAN,
                      input = [value |-> v, base |-> base, upper |-> upper, type |-> T]
               PROVE  NumberRight(input.value, input.base, input.upper, input.type)
    BY DEF Inputs
  <2>1. input.value = v /\ input.base = base /\ input.upper = upper /\ input.type = T
    OBVIOUS
  <2> QED BY <2>1, NumbersAgree
<1>2. part = "words" =>
        /\ WordsRight(input.text, input.delimiters) /\ JoinRight(input.text, input.delimiters)
        /\ PairsRight(input.text, input.delimiters)
        /\ TrimRight(input.text) /\ EncodeRight(input.text)
  <2> SUFFICES ASSUME NEW t \in Words, NEW D \in Delimiters, input = [text |-> t, delimiters |-> D]
               PROVE  /\ WordsRight(input.text, input.delimiters) /\ JoinRight(input.text, input.delimiters)
                      /\ PairsRight(input.text, input.delimiters)
                      /\ TrimRight(input.text) /\ EncodeRight(input.text)
    BY DEF Inputs
  <2>1. input.text = t /\ input.delimiters = D
    OBVIOUS
  <2> QED BY <2>1, WordsAgree
<1>3. part = "copy" => CopyRight(input.dst, input.src, input.size) /\ CaseRight(input.dst, input.src)
  <2> SUFFICES ASSUME NEW a \in Copied, NEW b \in Copied, NEW n \in 0 .. 2 * Longest + 1,
                      input = [dst |-> a, src |-> b, size |-> n]
               PROVE  CopyRight(input.dst, input.src, input.size) /\ CaseRight(input.dst, input.src)
    BY DEF Inputs
  <2>1. input.dst = a /\ input.src = b /\ input.size = n
    OBVIOUS
  <2> QED BY <2>1, CopiesAgree
<1>4. part = "format" => FormatRight(input)
  <2>1. ASSUME input \in Formats PROVE input \in Seq(DOMAIN Directives)
    <3> DEFINE X == DOMAIN Directives
    <3>1. input \in UNION {[1 .. n -> X] : n \in 0 .. Longest}
      BY <2>1 DEF Formats
    <3> HIDE DEF X
    <3>2. input \in Seq(X)
      BY <3>1, TextsAre
    <3> QED BY <3>2 DEF X
  <2> QED BY <2>1, FormatsCounted DEF Inputs
<1>5. part = "time" => TimeRight(input.from, input.to)
  <2> SUFFICES ASSUME NEW t \in Moments, NEW u \in Moments, input = [from |-> t, to |-> u]
               PROVE  TimeRight(input.from, input.to)
    BY DEF Inputs
  <2>1. input.from = t /\ input.to = u
    OBVIOUS
  <2> QED BY <2>1, TimesAgree
<1>6. part = "hour" => HourRight(input.hour, input.shift)
  <2> SUFFICES ASSUME NEW h \in 0 .. 23, NEW shift \in - Hours .. Hours, input = [hour |-> h, shift |-> shift]
               PROVE  HourRight(input.hour, input.shift)
    BY DEF Inputs
  <2>1. input.hour = h /\ input.shift = shift /\ shift \in Int
    BY LibraryAssumption
  <2> QED BY <2>1, HoursRight
<1> QED BY <1>1, <1>2, <1>3, <1>4, <1>5, <1>6 DEF HelpersAgree

(* The functions without state agree with their reference definitions,     *)
(* whatever the letters, delimiters, bases and integer types, and however  *)
(* long the texts.                                                         *)
THEOREM HelpersRight == LibrarySpec => []HelpersAgree
<1>1. LibraryInit => Inputs
  BY DEF LibraryInit, Inputs
<1>2. Inputs /\ [LibraryNext]_libraryVars => Inputs'
  <2> SUFFICES ASSUME Inputs, [LibraryNext]_libraryVars PROVE Inputs'
    OBVIOUS
  <2>1. part' = part /\ input' = input
    BY DEF LibraryNext, StringStep, LogStep, Rest, libraryVars
  <2> QED BY <2>1 DEF Inputs
<1> QED BY <1>1, <1>2, InputsAgree, PTL DEF LibrarySpec
=============================================================================
