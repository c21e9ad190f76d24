---------------------------- MODULE CStringSearch ----------------------------
(***************************************************************************)
(* What CString answers without changing the string: searching, comparing, *)
(* cutting out and reading numbers (lib/cstring/cstring.cpp).  Searching   *)
(* sees a C string, which ends at the first NUL; comparing and cutting     *)
(* count bytes.  Positions start at 0; npos is the largest size_t.         *)
(***************************************************************************)
EXTENDS CStringUse, FiniteSetsExt

CONSTANT SizeXor(_, _)   \* the ^ of two size_t

npos == SizeMax
Null == -1

(* The end of the C string that starts at cell p of the block m.           *)
Ends(m, p)   == {q \in DOMAIN m : q >= p /\ m[q] = NUL}
StrEnd(m, p) == Min(Ends(m, p))

(* strstr(): the first cell from p on where t stands.                      *)
Matches(m, q, t) == \A i \in 1 .. Len(t) : m[q + i - 1] = t[i]
strstr(m, p, t) ==
  LET found == {q \in p .. StrEnd(m, p) - Len(t) : Matches(m, q, t)}
  IN  IF found = {} THEN Null ELSE Min(found)

(* memcmp() of n bytes from cell p of m with the block b.                  *)
memcmp(m, p, b, n) ==
  LET differ == {i \in 0 .. n - 1 : m[p + i] # b[i]}
      first  == Min(differ)
  IN  IF differ = {} THEN 0 ELSE IF m[p + first] < b[first] THEN -1 ELSE 1

-----------------------------------------------------------------------------
IsEmpty(s) == s.length = 0 \/ s.alloc = 0 \/ s.cells[0] = NUL

(* Mutant: the search begins behind the first character.                   *)
FindFromNext(s, t, pos) == strstr(s.cells, Min({pos + 1, s.length}), t)

FindThrows(s, pos) == pos >= s.length
Find(s, t, pos)    == strstr(s.cells, pos, t)
Pos(s, t, pos)     == LET p == Find(s, t, pos) IN IF p = Null THEN npos ELSE p

(* The shorter of the two decides how much is compared; pos + len and      *)
(* length_ - pos wrap.                                                     *)
Compare(s, b, pos, len) ==
  memcmp(s.cells, pos, b, IF s.length >= Plus(pos, len) THEN len ELSE Minus(s.length, pos))

Equals(s, b, len) == s.length >= len /\ Compare(s, b, 0, len) = 0
Equal(s, r)       == s.length = r.length /\ Compare(s, r.cells, 0, r.length) = 0
IsLess(s, r)      == Compare(s, r.cells, 0, r.length) < 0

SubstringThrows(s, pos, len) == Plus(pos, len) > s.length
Substring(s, pos, len)       == CopyOf(SubSeq(Text(s), pos + 1, pos + len))

(* operator+ makes room for both and appends them.                         *)
Concatenation(t, u) == AppendText(AppendText(WithRoom(Len(t) + Len(u)), t), u)

(* h * 17 xor *s over the C string; char is signed, size_t wraps.          *)
Widened(b) == (IF b > 127 THEN b - 256 ELSE b) % (SizeMax + 1)
HashOf(m) ==
  LET h[n \in 0 .. StrEnd(m, 0)] ==
        IF n = 0 THEN 0 ELSE SizeXor((h[n - 1] * 17) % (SizeMax + 1), Widened(m[n - 1]))
  IN  h[StrEnd(m, 0)]
Hash(s) == IF IsEmpty(s) THEN 0 ELSE HashOf(s.cells)

(* CString::ToString: what the C string holds.                             *)
ToString(s) ==
  IF IsEmpty(s) THEN << >> ELSE [i \in 1 .. StrEnd(s.cells, 0) |-> s.cells[i - 1]]

(* strtol() on the C string m: blanks, a sign, digits until there is none. *)
strtol(m, base) ==
  LET start  == Min({p \in DOMAIN m : ~ IsBlank(m[p])})
      signed == m[start] \in {43, 45}
      first  == IF signed THEN start + 1 ELSE start
      stop   == Min({p \in DOMAIN m : p >= first /\ ~ IsDigit(m[p], base)})
      value[k \in 0 .. stop - first] ==
        IF k = 0 THEN 0 ELSE base * value[k - 1] + Digit(m[first + k - 1])
      n      == value[stop - first]
  IN  IF m[start] = 45 THEN - n ELSE n

(* 1 << k, in a type that is wide enough.                                  *)
Bit[k \in Nat] == IF k = 0 THEN 1 ELSE 2 * Bit[k - 1]

(* ToInteger<T> of a T with the given number of bits: the cast wraps.      *)
ToInteger(s, bits, signed) ==
  LET n == strtol(s.cells, 10) % Bit[bits]
  IN  IF signed /\ n >= Bit[bits - 1] THEN n - Bit[bits] ELSE n

-----------------------------------------------------------------------------
(* Reference definitions: occurrences in, and order of, texts.             *)
Occurs(t, p) ==
  {q \in p .. Len(text) - Len(t) : SubSeq(text, q + 1, q + Len(t)) = t}
First(t, p) == IF Occurs(t, p) = {} THEN npos ELSE Min(Occurs(t, p))

DiffersLower(a, b) ==
  \E i \in 1 .. Min({Len(a), Len(b)}) :
    SubSeq(a, 1, i - 1) = SubSeq(b, 1, i - 1) /\ a[i] < b[i]

Sequence == INSTANCE SequencesExt

Plain == ~ stale /\ \A i \in 1 .. Len(text) : text[i] # NUL

(* Whatever was done to the string before, C functions stop inside its     *)
(* block, searches find the text and only the text (not the bytes that     *)
(* erasing left behind it), and comparisons and substrings agree with the  *)
(* text also when it holds NULs; equal strings have equal hashes.  The     *)
(* order leaves a text and its prefix undecided.                           *)
SearchAgrees ==
  str.alloc > 0 =>
    /\ Ends(str.cells, 0) # {}
    /\ \A t \in Args :
         /\ Equals(str, CopyOf(t).cells, Len(t)) <=> Sequence!IsPrefix(t, text)
         /\ Equal(str, CopyOf(t)) <=> text = t
         /\ Equal(str, CopyOf(t)) => Hash(str) = Hash(CopyOf(t))
         /\ Text(Concatenation(text, t)) = text \o t
         /\ IsLess(str, CopyOf(t)) <=> DiffersLower(text, t)
         /\ Plain => /\ Pos(str, t, 0) = First(t, 0)
                     /\ \A p \in 1 .. Len(text) :
                          ~ FindThrows(str, p) => Pos(str, t, p) = First(t, p)
    /\ Plain => ToString(str) = text
    /\ \A pos, len \in 0 .. MaxText :
         ~ SubstringThrows(str, pos, len) =>
           Text(Substring(str, pos, len)) = SubSeq(text, pos + 1, pos + len)
=============================================================================
