----------------------------- MODULE Conversions -----------------------------
(***************************************************************************)
(* Numbers to text, and the functions on C strings beside CString          *)
(* (lib/cstring/conversions.h, str.h, strlcpy.h, strlcat.h).  An integer   *)
(* type is a record of its number of bits and whether it is signed.        *)
(***************************************************************************)
EXTENDS CStringSearch

CONSTANT DigitBuffer   \* bytes in the local array of Append...Integer

Type(bits, signed) == [bits |-> bits, signed |-> signed]
Values(T) == IF T.signed THEN - Bit[T.bits - 1] .. Bit[T.bits - 1] - 1 ELSE 0 .. Bit[T.bits] - 1

-----------------------------------------------------------------------------
(* Div_ doubles the denominator while it is not above the numerator and    *)
(* its top bit is clear; in a signed type the last doubling may then reach *)
(* the sign, which is undefined.                                           *)
TopBit(d, T)       == d >= Bit[T.bits - 1]
Doublings(n, d, T) == Min({k \in 0 .. T.bits : n < d * Bit[k] \/ TopBit(d * Bit[k], T)})
DivUndefined(n, d, T) == T.signed /\ TopBit(d * Bit[Doublings(n, d, T)], T)

(* Then it halves it step by step and subtracts it where it can.           *)
Halvings(n, d, k) ==
  LET after[j \in 0 .. k + 1] ==
        IF j = 0 THEN [quotient |-> 0, remainder |-> n]
        ELSE LET x == Bit[k - j + 1]
                 r == after[j - 1]
             IN  IF r.remainder >= d * x
                 THEN [quotient |-> r.quotient + x, remainder |-> r.remainder - d * x]
                 ELSE r
  IN  after

(* Mutant: the denominator itself is not subtracted any more.              *)
DivStopsEarly(n, d, T) == LET k == Doublings(n, d, T) IN Halvings(n, d, k)[k]

Div_(n, d, T) == LET k == Doublings(n, d, T) IN Halvings(n, d, k)[k + 1]

(* alphabet[i]; in front of the array there is anything.                   *)
Alphabet(upper, i) ==
  IF i < 0 THEN Junk ELSE IF i < 10 THEN 48 + i ELSE IF upper THEN 55 + i ELSE 87 + i

strreverse(t) == [i \in 1 .. Len(t) |-> t[Len(t) - i + 1]]

(* IntToAlpha: the absolute value is taken, but of another variable, so    *)
(* that a negative number has one "digit": its own.  The first division    *)
(* has the largest numerator, so it decides whether all are defined.       *)
BaseValid(base) == base >= 2 /\ base <= 35
AlphaUndefined(v, base, T) == BaseValid(base) /\ DivUndefined(v, base, T)
IntToAlpha(v, base, upper, T) ==
  LET digits[n \in {v} \cup 0 .. v] ==
        LET r == Div_(n, base, T)
        IN  <<Alphabet(upper, r.remainder)>>
            \o IF r.quotient = 0 THEN << >> ELSE digits[r.quotient]
  IN  IF ~ BaseValid(base) THEN << >>
      ELSE strreverse(digits[v] \o IF v < 0 THEN <<45>> ELSE << >>)

(* Append...Integer: padding char by char, then the digits at once.        *)
BufferOverrun(t) == Len(t) + 1 > DigitBuffer
AppendInteger(s, v, base, width, upper, T) ==
  LET t == IntToAlpha(v, base, upper, T)
      padded[k \in 0 .. width] == IF k = 0 THEN s ELSE AppendChar(padded[k - 1], 48)
  IN  AppendText(padded[IF Len(t) < width THEN width - Len(t) ELSE 0], t)
AppendDecimal(s, v, T) == AppendInteger(s, v, 10, 0, FALSE, T)
AppendHexadecimal(s, v, upper, width, T) == AppendInteger(s, v, 16, width, upper, T)

-----------------------------------------------------------------------------
strempty(m) == m[0] = NUL

(* strlcpy() copies up to siz - 1 characters with the NUL if it is among   *)
(* them, otherwise it adds one.                                            *)
strlcpy(dst, src, siz) ==
  LET len    == StrEnd(src, 0)
      copied == IF siz <= 1 THEN 0 ELSE Min({len + 1, siz - 1})
      t      == [i \in 1 .. copied |-> src[i - 1]]
  IN  [dst |-> IF siz = 0 THEN dst
               ELSE Written(dst, 0, IF copied = len + 1 THEN t ELSE Append(t, NUL)),
       ret |-> len]

(* strlcat() looks for the end of dst among siz bytes.                     *)
strlcat(dst, src, siz) ==
  LET dlen == Min({siz} \cup {i \in 0 .. siz - 1 : dst[i] = NUL})
      len  == StrEnd(src, 0)
      t    == [i \in 1 .. Min({len, siz - dlen - 1}) |-> src[i - 1]]
  IN  [dst |-> IF siz = dlen THEN dst ELSE Written(dst, dlen, Append(t, NUL)),
       ret |-> dlen + len]

(* substr() copies both ends of the range and no NUL.                      *)
substr(s, d, begin, end) ==
  IF begin >= end THEN Written(d, 0, <<NUL>>)
  ELSE Written(d, 0, [i \in 1 .. end - begin + 1 |-> s[begin + i - 1]])

-----------------------------------------------------------------------------
(* Properties of one input.                                                *)

(* The local array of Append...Integer holds the decimal digits of any     *)
(* value of the type, and the NUL.                                         *)
TenTo[k \in Nat] == IF k = 0 THEN 1 ELSE 10 * TenTo[k - 1]
DigitsFit(T) ==
  DigitBuffer \in Nat /\ DigitBuffer >= 3 /\ Bit[T.bits] <= TenTo[DigitBuffer - 1]

ReadBack(t, base) ==
  LET value[i \in 0 .. Len(t)] == IF i = 0 THEN 0 ELSE base * value[i - 1] + Digit(t[i])
  IN  value[Len(t)]

(* The digits of a number that is not negative are those of the number,    *)
(* none too many, they fit the local array from base 10 on, and            *)
(* ToInteger reads back what AppendDecimal wrote.  Divisions by doubling   *)
(* are undefined in the upper half of a signed type only.                  *)
NumberRight(v, base, upper, T) ==
  LET t == IntToAlpha(v, base, upper, T)
  IN  /\ ~ BaseValid(base) => t = << >>
      /\ AlphaUndefined(v, base, T) => T.signed /\ 2 * v >= Bit[T.bits - 1]
      /\ BaseValid(base) /\ v >= 0 /\ ~ AlphaUndefined(v, base, T) =>
           /\ ReadBack(t, base) = v
           /\ \A i \in 1 .. Len(t) : IsDigit(t[i], base)
           /\ t[1] = 48 => v = 0 /\ Len(t) = 1
           /\ base = 10 => ToInteger(AppendDecimal(NoBlock, v, T), T.bits, T.signed) = v
           /\ base = 16 => Text(AppendHexadecimal(NoBlock, v, upper, 3, T))
                             = [i \in 1 .. 3 - Len(t) |-> 48] \o t
      /\ BaseValid(base) /\ v < 0 => t = <<45, Junk>>
      /\ BaseValid(base) /\ base >= 10 => ~ BufferOverrun(t)

(* strlcpy and strlcat keep what their comments promise: a NUL within siz  *)
(* bytes, as much of the text as fits before it, and the length that would *)
(* have been needed.                                                       *)
CopyRight(a, b, siz) ==
  LET dst  == [i \in 0 .. siz + Len(a) |-> IF i < Len(a) THEN a[i + 1] ELSE NUL]
      src  == CopyOf(b).cells
      held == Min({siz, Len(a)})
      cpy  == strlcpy(dst, src, siz)
      cat  == strlcat(dst, src, siz)
      Holds(m, t) == StrEnd(m, 0) = Len(t) /\ \A i \in 1 .. Len(t) : m[i - 1] = t[i]
  IN  /\ cpy.ret = Len(b)
      /\ cat.ret = Len(b) + held
      /\ siz = 0 => cpy.dst = dst
      /\ siz > 0 => Holds(cpy.dst, SubSeq(b, 1, Min({siz - 1, Len(b)})))
      /\ siz <= Len(a) => cat.dst = dst
      /\ siz > Len(a) => Holds(cat.dst, SubSeq(a \o b, 1, Min({siz - 1, Len(a \o b)})))
      /\ \A m \in {cpy.dst, cat.dst} : \A i \in siz .. siz + Len(a) : m[i] = dst[i]
=============================================================================
