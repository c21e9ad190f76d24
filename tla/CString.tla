------------------------------- MODULE CString -------------------------------
(***************************************************************************)
(* base::CString (lib/cstring/cstring.cpp): a length-counted string in a   *)
(* malloc'ed block.  A string is a record                                  *)
(*   alloc     bytes in the block (0: string_ is the null pointer)         *)
(*   cells     the bytes, from 0 as in C                                   *)
(*   length    length_                                                     *)
(*   reserved  reserved_                                                   *)
(*   wild      writes that went behind the block                           *)
(* Sizes are size_t: sums and differences wrap at SizeMax + 1.             *)
(***************************************************************************)
EXTENDS Integers, Sequences

CONSTANTS Chars,    \* the bytes that strings are made of
          Junk,     \* an uninitialised byte: a number that no byte has
          SizeMax   \* the largest size_t

ASSUME SizeAssumption == SizeMax \in Nat
ASSUME ByteAssumption == Chars \subseteq 0 .. 255   \* escapes stand for any byte

NUL == 0

Plus(a, b)  == IF a + b > SizeMax THEN a + b - SizeMax - 1 ELSE a + b
Minus(a, b) == IF b > a THEN a - b + SizeMax + 1 ELSE a - b

Malloc(n)         == [i \in 0 .. n - 1 |-> Junk]
Realloc(m, n)     == [i \in 0 .. n - 1 |-> IF i \in DOMAIN m THEN m[i] ELSE Junk]
Written(m, at, t) == [i \in DOMAIN m |-> IF i \in at .. at + Len(t) - 1 THEN t[i - at + 1] ELSE m[i]]

Put(s, at, t) == [s EXCEPT !.cells = Written(@, at, t),
                           !.wild = IF at + Len(t) > s.alloc THEN @ + 1 ELSE @]
Longer(s, n)  == [s EXCEPT !.length = @ + n]
Shift(s, n)   == [s EXCEPT !.length = @ + n, !.reserved = @ - n]
Terminate(s)  == Put(s, s.length, <<NUL>>)
Text(s)       == [i \in 1 .. s.length |-> s.cells[i - 1]]

-----------------------------------------------------------------------------
(* Constructors: nothing, room for n bytes, a copy of t.                   *)
NoBlock == [alloc |-> 0, cells |-> Malloc(0), length |-> 0, reserved |-> 0, wild |-> 0]
WithRoom(n) ==
  Terminate([alloc |-> n + 1, cells |-> Malloc(n + 1), length |-> 0, reserved |-> n, wild |-> 0])
CopyOf(t) ==
  Put([alloc |-> Len(t) + 1, cells |-> Malloc(Len(t) + 1), length |-> Len(t), reserved |-> 0,
       wild |-> 0], 0, Append(t, NUL))

(* Mutant: the text is not looked at.                                      *)
ResizeUnreserved(s, n) ==
  [s EXCEPT !.alloc = n,
            !.cells = IF s.reserved = 0 THEN Malloc(n) ELSE Realloc(@, n)]

(* A new block when the string has nothing to lose, otherwise realloc.     *)
Resize(s, n) ==
  [s EXCEPT !.alloc = n,
            !.cells = IF s.length = 0 /\ s.reserved = 0 THEN Malloc(n) ELSE Realloc(@, n)]

Reserve(s, len) ==
  Terminate([Resize(s, Plus(Plus(Plus(s.length, s.reserved), len), 1))
             EXCEPT !.reserved = Plus(@, len)])

(* Mutant: the room for the terminating NUL is not counted.                *)
RoomWithoutNul(s, n) ==
  IF s.reserved >= n
  THEN [s EXCEPT !.reserved = Minus(Minus(@, n), 1)]
  ELSE [Resize(s, Plus(Plus(s.length, n), 1)) EXCEPT !.reserved = 0]

(* Append and AppendChar make room for n characters in the same way.       *)
Room(s, n) ==
  IF s.reserved > n
  THEN [s EXCEPT !.reserved = @ - (n + 1)]
  ELSE [Resize(s, Plus(Plus(s.length, n), 1)) EXCEPT !.reserved = 0]

AppendText(s, t) ==
  IF t = << >> THEN s
  ELSE LET r == Room(s, Len(t))
       IN  Longer(Put(r, r.length, Append(t, NUL)), Len(t))

AppendChar(s, ch) == AppendText(s, <<ch>>)

(* operator=: the old text becomes reserve, and nothing at all happens to  *)
(* the bytes when the new text is empty.  t is the text of another string: *)
(* of itself a string reads the length after it was set to 0, and is empty *)
(* then (Append reads a block of its own that realloc may have moved); the *)
(* library does neither.                                                   *)
Assign(s, t) == AppendText(Shift(s, - s.length), t)

EraseThrows(s, begin, len) == begin + len > s.length

Erase(s, begin, len) ==
  LET tail == SubSeq(Text(s), begin + len + 1, s.length)
  IN  Terminate(Shift(Put(s, begin, tail), - len))

(* Mutant: the terminator is not moved.                                    *)
ClearLength(s) == Shift(s, - s.length)

Clear(s) ==
  IF s.length = 0 THEN s
  ELSE Put(Shift(s, - s.length), 0, <<NUL>>)

AdjustThrows(s, n) == -n > s.length \/ n > s.reserved

AdjustLength(s, n) ==
  IF n = 0 THEN s
  ELSE Terminate(Shift(s, n))

-----------------------------------------------------------------------------
(* The value of a byte as a digit, as strtol() and the like read it.       *)
Between(b, lo, hi) == lo <= b /\ b <= hi
Digit(b) ==
  CASE Between(b, 48, 57)  -> b - 48
    [] Between(b, 65, 90)  -> b - 55
    [] Between(b, 97, 122) -> b - 87
    [] OTHER               -> 99
IsDigit(b, base) == Digit(b) < base
IsBlank(b)       == b = 32 \/ Between(b, 9, 13)

(* The char that "%ab" stands for: strtol(tmp, 0, 16) takes a blank or a   *)
(* sign for a digit that counts nothing, and what is no number for 0.      *)
DecodedChar(a, b) ==
  LET low == IF IsDigit(b, 16) THEN Digit(b) ELSE 0
  IN  CASE IsDigit(a, 16) /\ IsDigit(b, 16) -> 16 * Digit(a) + low
        [] IsDigit(a, 16) /\ ~ IsDigit(b, 16) -> Digit(a)
        [] IsBlank(a) \/ a = 43 -> low
        [] a = 45 -> (256 - low) % 256
        [] OTHER -> 0

PERCENT == 37

Escape(m, p) == m[p] = PERCENT /\ m[p + 1] # NUL /\ m[p + 2] # NUL

StrLen(m) == CHOOSE n \in DOMAIN m : m[n] = NUL /\ \A i \in 0 .. n - 1 : m[i] # NUL

(* The decoded text of the C string m.                                     *)
Decoded(m) ==
  LET from[p \in 0 .. StrLen(m)] ==
        IF m[p] = NUL THEN << >>
        ELSE IF Escape(m, p) THEN <<DecodedChar(m[p + 1], m[p + 2])>> \o from[p + 3]
        ELSE <<m[p]>> \o from[p + 1]
  IN  from[0]

(* Decoding in place up to the first NUL; every escape gives two bytes     *)
(* back to the reserve.                                                    *)
UrlDecode(s) ==
  LET t    == Decoded(s.cells)
      lost == StrLen(s.cells) - Len(t)
  IN  Shift(Put(s, 0, Append(t, NUL)), - lost)
=============================================================================
