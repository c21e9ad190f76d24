---------------------------- MODULE CStringProofs ----------------------------
(***************************************************************************)
(* CString, for every buffer length and every width of size_t: whatever    *)
(* the library and UrlDecode do to a string, text, reserve and terminator  *)
(* stay inside the block, EventRead always finds room, the bytes in front  *)
(* of the terminator are the text that the same operations make of a       *)
(* sequence, and searching, comparing and cutting out agree with that text.*)
(* And numbers: Div_ divides, IntToAlpha writes the digits of a number and *)
(* ToInteger reads them back, for every width of an integer type; strlcpy  *)
(* and strlcat keep what their comments promise.                           *)
(***************************************************************************)
EXTENDS Conversions, WellFoundedInduction, TLAPS

(* The bookkeeping of one string.                                          *)
Sizes(s) ==
  /\ s = [alloc |-> s.alloc, cells |-> s.cells, length |-> s.length,
          reserved |-> s.reserved, wild |-> s.wild]
  /\ s.alloc \in Nat /\ s.length \in Nat /\ s.reserved \in Nat

Sound(s) ==
  /\ Sizes(s)
  /\ s.wild = 0
  /\ \/ s.length + s.reserved + 1 <= s.alloc
     \/ s.alloc = 0 /\ s.length = 0 /\ s.reserved = 0

Bound == MaxText + MaxArg + BufferLength

(* The reserve may be as large as a text that was erased, plus what was    *)
(* reserved; it is bounded because text and reserve only trade places.     *)
IInv == Sound(str) /\ str.length <= MaxText /\ str.length + str.reserved <= Bound

(* Texts are made of the bytes of the arguments, and of any other byte     *)
(* once an escape is decoded.                                              *)
Byte == 0 .. 255

(* Arguments are sequences with a natural length.                          *)
LEMMA ArgLength ==
  ASSUME NEW n \in Nat, NEW t \in [1 .. n -> Chars]
  PROVE  t \in Seq(Byte) /\ Len(t) \in Nat /\ Len(t) = n
<1>1. t \in [1 .. n -> Byte]
  BY ByteAssumption DEF Byte
<1> QED BY <1>1

LEMMA CharByte ==
  ASSUME NEW ch \in Chars
  PROVE  ch \in Byte /\ <<ch>> \in Seq(Byte)
BY ByteAssumption DEF Byte

(* Appending the terminator.                                               *)
LEMMA TerminatedLength ==
  ASSUME NEW t \in Seq(Byte)
  PROVE  Len(Append(t, NUL)) = Len(t) + 1
BY t \in Seq(Byte \cup {NUL}), NUL \in Byte \cup {NUL}

(* Writing inside the block changes no size.                               *)
LEMMA PutSizes ==
  ASSUME NEW s, Sizes(s), NEW at \in Nat, NEW t, Len(t) \in Nat,
         at + Len(t) <= s.alloc
  PROVE  /\ Sizes(Put(s, at, t))
         /\ Put(s, at, t).alloc = s.alloc
         /\ Put(s, at, t).length = s.length
         /\ Put(s, at, t).reserved = s.reserved
         /\ Put(s, at, t).wild = s.wild
<1>1. Put(s, at, t) = [alloc |-> s.alloc, cells |-> Written(s.cells, at, t), length |-> s.length,
                       reserved |-> s.reserved, wild |-> s.wild]
  <2> DEFINE a == s.alloc
             c == s.cells
             l == s.length
             r == s.reserved
             w == s.wild
  <2>1. s = [alloc |-> a, cells |-> c, length |-> l, reserved |-> r, wild |-> w]
    BY DEF Sizes
  <2>2. (IF at + Len(t) > a THEN w + 1 ELSE w) = w
    BY DEF Sizes
  <2>3. Put(s, at, t) = [s EXCEPT !.cells = Written(c, at, t), !.wild = w]
    BY <2>2 DEF Put
  <2> HIDE DEF a, c, l, r, w
  <2> QED BY <2>1, <2>3
<1> QED BY <1>1 DEF Sizes

(* The same at the first byte.                                             *)
LEMMA PutFirst ==
  ASSUME NEW s, Sizes(s), NEW t, Len(t) \in Nat, Len(t) <= s.alloc
  PROVE  /\ Sizes(Put(s, 0, t))
         /\ Put(s, 0, t).alloc = s.alloc
         /\ Put(s, 0, t).length = s.length
         /\ Put(s, 0, t).reserved = s.reserved
         /\ Put(s, 0, t).wild = s.wild
<1> DEFINE z == 0
<1>1. z \in Nat /\ z + Len(t) <= s.alloc
  OBVIOUS
<1> HIDE DEF z
<1>2. /\ Sizes(Put(s, z, t)) /\ Put(s, z, t).alloc = s.alloc /\ Put(s, z, t).length = s.length
      /\ Put(s, z, t).reserved = s.reserved /\ Put(s, z, t).wild = s.wild
  BY <1>1, PutSizes
<1> QED BY <1>2 DEF z

(* The block gets its new size, the rest stays.                            *)
LEMMA ResizeSizes ==
  ASSUME NEW s, Sizes(s), NEW n \in Nat, NEW r \in Nat
  PROVE  LET t == [Resize(s, n) EXCEPT !.reserved = r]
         IN  Sizes(t) /\ t.alloc = n /\ t.length = s.length /\ t.reserved = r /\ t.wild = s.wild
<1> DEFINE a == s.alloc
           c == s.cells
           l == s.length
           q == s.reserved
           w == s.wild
           d == IF s.length = 0 /\ s.reserved = 0 THEN Malloc(n) ELSE Realloc(s.cells, n)
           t == [Resize(s, n) EXCEPT !.reserved = r]
<1>1. s = [alloc |-> a, cells |-> c, length |-> l, reserved |-> q, wild |-> w] /\ l \in Nat
  BY DEF Sizes
<1>2. Resize(s, n) = [s EXCEPT !.alloc = n, !.cells = d]
  BY DEF Resize
<1> HIDE DEF a, c, l, q, w, d
<1>3. t = [alloc |-> n, cells |-> d, length |-> l, reserved |-> r, wild |-> w]
  <2>1. Resize(s, n) = [alloc |-> n, cells |-> d, length |-> l, reserved |-> q, wild |-> w]
    BY <1>1, <1>2
  <2> QED BY <2>1
<1> HIDE DEF t
<1>4. Sizes(t) /\ t.alloc = n /\ t.length = l /\ t.reserved = r /\ t.wild = w
  BY <1>1, <1>3 DEF Sizes
<1> QED BY <1>4 DEF l, w, t

(* The terminator has a place in the block.                                *)
LEMMA TerminateSizes ==
  ASSUME NEW s, Sizes(s), s.length + 1 <= s.alloc
  PROVE  LET t == Terminate(s)
         IN  /\ Sizes(t) /\ t.alloc = s.alloc /\ t.length = s.length
             /\ t.reserved = s.reserved /\ t.wild = s.wild
<1>1. s.length \in Nat /\ Len(<<NUL>>) = 1
  BY DEF Sizes
<1> QED BY <1>1, PutSizes DEF Terminate

(* Reserve, seen from the sizes it asks for: k is the reserve afterwards.  *)
LEMMA ReserveSound ==
  ASSUME NEW s, Sound(s), NEW len, NEW k \in Nat,
         Plus(s.reserved, len) = k,
         Plus(Plus(Plus(s.length, s.reserved), len), 1) = s.length + k + 1
  PROVE  LET t == Reserve(s, len)
         IN  Sound(t) /\ t.length = s.length /\ t.reserved = k /\ t.alloc = s.length + k + 1
<1> DEFINE n == s.length + k + 1
           t == [Resize(s, n) EXCEPT !.reserved = k]
<1>1. Sizes(s) /\ s.length \in Nat /\ n \in Nat /\ s.wild = 0
  BY DEF Sound, Sizes
<1>2. Sizes(t) /\ t.alloc = n /\ t.length = s.length /\ t.reserved = k /\ t.wild = s.wild
  BY <1>1, ResizeSizes
<1>3. [Resize(s, n) EXCEPT !.reserved = Plus(@, len)] = t
  <2>1. Resize(s, n).reserved = s.reserved
    <3> DEFINE d == IF s.length = 0 /\ s.reserved = 0 THEN Malloc(n) ELSE Realloc(s.cells, n)
    <3>1. Resize(s, n) = [s EXCEPT !.alloc = n, !.cells = d]
      BY DEF Resize
    <3> HIDE DEF d, n
    <3> QED BY <3>1, <1>1 DEF Sizes
  <2> QED BY <2>1
<1>4. Reserve(s, len) = Terminate(t)
  BY <1>3 DEF Reserve
<1> HIDE DEF t
<1>5. t.length + 1 <= t.alloc
  BY <1>1, <1>2
<1> QED BY <1>1, <1>2, <1>4, <1>5, TerminateSizes DEF Sound

(* Bytes that become text, from behind the reserve or out of it.           *)
LEMMA LongerSizes ==
  ASSUME NEW q, Sizes(q), NEW n \in Nat
  PROVE  /\ Sizes(Longer(q, n)) /\ Longer(q, n).alloc = q.alloc /\ Longer(q, n).wild = q.wild
         /\ Longer(q, n).length = q.length + n /\ Longer(q, n).reserved = q.reserved
<1> DEFINE a == q.alloc
           c == q.cells
           l == q.length
           k == q.reserved
           w == q.wild
<1>1. q = [alloc |-> a, cells |-> c, length |-> l, reserved |-> k, wild |-> w]
      /\ a \in Nat /\ l \in Nat /\ k \in Nat
  BY DEF Sizes
<1> HIDE DEF a, c, l, k, w
<1>2. Longer(q, n) = [alloc |-> a, cells |-> c, length |-> l + n, reserved |-> k, wild |-> w]
  BY <1>1 DEF Longer
<1>3. /\ Sizes(Longer(q, n)) /\ Longer(q, n).alloc = a /\ Longer(q, n).wild = w
      /\ Longer(q, n).length = l + n /\ Longer(q, n).reserved = k
  BY <1>1, <1>2 DEF Sizes
<1> QED BY <1>3 DEF a, l, k, w

(* Bytes that move between text and reserve, field by field.               *)
LEMMA ShiftSizes ==
  ASSUME NEW q, Sizes(q), NEW n \in Int, q.length + n \in Nat, q.reserved - n \in Nat
  PROVE  /\ Sizes(Shift(q, n)) /\ Shift(q, n).alloc = q.alloc /\ Shift(q, n).wild = q.wild
         /\ Shift(q, n).length = q.length + n /\ Shift(q, n).reserved = q.reserved - n
<1> DEFINE a == q.alloc
           c == q.cells
           l == q.length
           k == q.reserved
           w == q.wild
<1>1. q = [alloc |-> a, cells |-> c, length |-> l, reserved |-> k, wild |-> w]
      /\ a \in Nat /\ l + n \in Nat /\ k - n \in Nat
  BY DEF Sizes
<1> HIDE DEF a, c, l, k, w
<1>2. Shift(q, n) = [alloc |-> a, cells |-> c, length |-> l + n, reserved |-> k - n, wild |-> w]
  <2>1. q.length + n = l + n /\ q.reserved - n = k - n
    BY <1>1
  <2>2. Shift(q, n) = [q EXCEPT !.length = l + n, !.reserved = k - n]
    BY <2>1 DEF Shift
  <2> DEFINE i == l + n
             j == k - n
  <2> HIDE DEF i, j
  <2>3. Shift(q, n) = [q EXCEPT !.length = i, !.reserved = j]
    BY <2>2 DEF i, j
  <2>4. Shift(q, n) = [alloc |-> a, cells |-> c, length |-> i, reserved |-> j, wild |-> w]
    BY <1>1, <2>3
  <2> QED BY <2>4 DEF i, j
<1>3. /\ Sizes(Shift(q, n)) /\ Shift(q, n).alloc = a /\ Shift(q, n).wild = w
      /\ Shift(q, n).length = l + n /\ Shift(q, n).reserved = k - n
  BY <1>1, <1>2 DEF Sizes
<1> QED BY <1>3 DEF a, l, k, w

(* Room for n characters and a terminator; what the sum of text and        *)
(* reserve may grow to.                                                    *)
LEMMA RoomSizes ==
  ASSUME NEW s, Sound(s), NEW n \in Nat \ {0}, s.length + n + 1 <= SizeMax
  PROVE  LET t == Room(s, n)
         IN  /\ Sizes(t) /\ t.wild = 0 /\ t.length = s.length
             /\ t.length + n + t.reserved + 1 <= t.alloc
             /\ \/ t.length + n + t.reserved <= s.length + s.reserved
                \/ t.reserved = 0
<1>1. Sizes(s) /\ s.wild = 0 /\ s.length \in Nat /\ s.reserved \in Nat /\ s.alloc \in Nat
  BY DEF Sound, Sizes
<1>2. CASE s.reserved > n
  <2> DEFINE r == s.reserved - (n + 1)
             t == [s EXCEPT !.reserved = r]
  <2>1. Room(s, n) = t /\ r \in Nat
    BY <1>1, <1>2 DEF Room
  <2> HIDE DEF r
  <2>2. t = [alloc |-> s.alloc, cells |-> s.cells, length |-> s.length, reserved |-> r, wild |-> s.wild]
    BY <1>1 DEF Sizes
  <2> HIDE DEF t
  <2>3. Sizes(t) /\ t.alloc = s.alloc /\ t.length = s.length /\ t.reserved = r /\ t.wild = s.wild
    BY <1>1, <2>1, <2>2 DEF Sizes
  <2>4. s.length + s.reserved + 1 <= s.alloc
    BY <1>1, <1>2 DEF Sound
  <2> QED BY <1>1, <1>2, <2>1, <2>3, <2>4 DEF r
<1>3. CASE ~ (s.reserved > n)
  <2>1. Plus(Plus(s.length, n), 1) = s.length + n + 1
    BY <1>1, SizeAssumption DEF Plus
  <2>2. Room(s, n) = [Resize(s, s.length + n + 1) EXCEPT !.reserved = 0]
    BY <1>3, <2>1 DEF Room
  <2>3. s.length + n + 1 \in Nat
    BY <1>1
  <2> QED BY <1>1, <2>2, <2>3, ResizeSizes
<1> QED BY <1>2, <1>3

(* Append keeps the string sound.                                          *)
LEMMA AppendSound ==
  ASSUME NEW s, Sound(s), NEW t \in Seq(Byte), s.length + Len(t) + 1 <= SizeMax
  PROVE  LET u == AppendText(s, t)
         IN  /\ Sound(u) /\ u.length = s.length + Len(t)
             /\ \/ u.length + u.reserved <= s.length + s.reserved
                \/ u.reserved = 0
<1>1. CASE t = << >>
  BY <1>1 DEF AppendText, Sound, Sizes
<1>2. CASE t # << >>
  <2> DEFINE n == Len(t)
             r == Room(s, n)
             q == Put(r, r.length, Append(t, NUL))
             u == Longer(q, n)
  <2>1. n \in Nat \ {0}
    BY <1>2
  <2>2. /\ Sizes(r) /\ r.wild = 0 /\ r.length = s.length
        /\ r.length + n + r.reserved + 1 <= r.alloc
        /\ \/ r.length + n + r.reserved <= s.length + s.reserved
           \/ r.reserved = 0
    BY <2>1, RoomSizes
  <2>3. Len(Append(t, NUL)) = n + 1
    BY TerminatedLength
  <2> HIDE DEF n, r
  <2>4. r.length \in Nat /\ r.reserved \in Nat /\ r.alloc \in Nat /\ n + 1 \in Nat
    BY <2>1, <2>2 DEF Sizes
  <2>5. r.length + (n + 1) <= r.alloc
    BY <2>1, <2>2, <2>4
  <2>6. /\ Sizes(q) /\ q.alloc = r.alloc /\ q.length = r.length /\ q.reserved = r.reserved
        /\ q.wild = r.wild
    <3> DEFINE w == Append(t, NUL)
    <3>1. Len(w) \in Nat /\ r.length + Len(w) <= r.alloc /\ Sizes(r) /\ r.length \in Nat
      BY <2>2, <2>3, <2>4, <2>5
    <3>2. q = Put(r, r.length, w)
      OBVIOUS
    <3> HIDE DEF w, q
    <3> QED BY <3>1, <3>2, PutSizes
  <2>7. AppendText(s, t) = u
    BY <1>2 DEF AppendText, r, n
  <2> HIDE DEF q
  <2>9. /\ Sizes(u) /\ u.alloc = r.alloc /\ u.length = r.length + n /\ u.reserved = r.reserved
        /\ u.wild = 0
    <3>1. n \in Nat
      BY <2>1
    <3>2. /\ Sizes(u) /\ u.alloc = q.alloc /\ u.wild = q.wild
          /\ u.length = q.length + n /\ u.reserved = q.reserved
      BY <3>1, <2>6, LongerSizes
    <3> QED BY <3>2, <2>2, <2>6
  <2> HIDE DEF u
  <2>10. Sound(u)
    BY <2>1, <2>2, <2>4, <2>9 DEF Sound
  <2> QED BY <2>2, <2>7, <2>9, <2>10 DEF n
<1> QED BY <1>1, <1>2

(* Moving bytes between text and reserve, as Erase, Clear, AdjustLength    *)
(* and operator= do.                                                       *)
LEMMA ShiftSound ==
  ASSUME NEW s, Sound(s), NEW n \in Int, s.length + n >= 0, s.reserved - n >= 0
  PROVE  /\ Sound(Shift(s, n))
         /\ Shift(s, n).length = s.length + n /\ Shift(s, n).reserved = s.reserved - n
         /\ Shift(s, n).alloc = s.alloc
<1>1. /\ Sizes(s) /\ s.wild = 0 /\ s.length + n \in Nat /\ s.reserved - n \in Nat
      /\ s.length \in Nat /\ s.reserved \in Nat
  BY DEF Sound, Sizes
<1>2. /\ Sizes(Shift(s, n)) /\ Shift(s, n).alloc = s.alloc /\ Shift(s, n).wild = 0
      /\ Shift(s, n).length = s.length + n /\ Shift(s, n).reserved = s.reserved - n
  BY <1>1, ShiftSizes
<1>3. (s.length + n) + (s.reserved - n) = s.length + s.reserved
  BY <1>1
<1> QED BY <1>1, <1>2, <1>3 DEF Sound

(* Assignment: the old text becomes reserve and the new text is appended.  *)
LEMMA AssignSound ==
  ASSUME NEW s, Sound(s), NEW t \in Seq(Byte), Len(t) + 1 <= SizeMax
  PROVE  LET u == Assign(s, t)
         IN  /\ Sound(u) /\ u.length = Len(t)
             /\ \/ u.length + u.reserved <= s.length + s.reserved
                \/ u.reserved = 0
<1> DEFINE e == Shift(s, - s.length)
<1>1. s.length \in Nat /\ s.reserved \in Nat
  BY DEF Sound, Sizes
<1>0. s.length + (- s.length) >= 0 /\ s.reserved - (- s.length) >= 0
  BY <1>1
<1>2. - s.length \in Int /\ s.length + (- s.length) = 0 /\ s.reserved - (- s.length) = s.length + s.reserved
  BY <1>1
<1>3. Sound(e) /\ e.length = 0 /\ e.reserved = s.length + s.reserved
  BY <1>0, <1>2, ShiftSound
<1>4. e.length + Len(t) = Len(t)
  BY <1>3
<1> HIDE DEF e
<1>5. /\ Sound(AppendText(e, t)) /\ AppendText(e, t).length = Len(t)
      /\ \/ AppendText(e, t).length + AppendText(e, t).reserved <= s.length + s.reserved
         \/ AppendText(e, t).reserved = 0
  <2>1. e.length + Len(t) + 1 <= SizeMax
    BY <1>4
  <2>2. e.length + e.reserved = s.length + s.reserved
    BY <1>1, <1>3
  <2>3. /\ Sound(AppendText(e, t)) /\ AppendText(e, t).length = e.length + Len(t)
        /\ \/ AppendText(e, t).length + AppendText(e, t).reserved <= e.length + e.reserved
           \/ AppendText(e, t).reserved = 0
    BY <1>3, <2>1, AppendSound
  <2> QED BY <1>4, <2>2, <2>3
<1> QED BY <1>5 DEF Assign, e

(* The tail that Erase moves is the rest of the text.                      *)
LEMMA TailLength ==
  ASSUME NEW s, Sizes(s), NEW b \in Nat, NEW n \in Nat, b + n <= s.length
  PROVE  LET tail == SubSeq(Text(s), b + n + 1, s.length)
         IN  Len(tail) = s.length - (b + n)
<1> DEFINE C == {s.cells[i - 1] : i \in 1 .. s.length}
<1>1. s.length \in Nat /\ b + n + 1 \in 1 .. s.length + 1
  BY DEF Sizes
<1>2. Text(s) \in [1 .. s.length -> C]
  BY DEF Text
<1> HIDE DEF C
<1>3. Text(s) \in Seq(C) /\ Len(Text(s)) = s.length
  BY <1>1, <1>2
<1>4. CASE b + n + 1 = s.length + 1
  BY <1>1, <1>3, <1>4
<1>5. CASE b + n + 1 <= s.length
  BY <1>1, <1>3, <1>5
<1> QED BY <1>1, <1>4, <1>5

(* Erase moves the tail inside the text and gives n bytes to the reserve.  *)
LEMMA EraseSound ==
  ASSUME NEW s, Sound(s), s.alloc > 0, NEW b \in Nat, NEW n \in Nat, b + n <= s.length
  PROVE  LET u == Erase(s, b, n)
         IN  Sound(u) /\ u.length = s.length - n /\ u.reserved = s.reserved + n
<1> DEFINE tail == SubSeq(Text(s), b + n + 1, s.length)
           p == Put(s, b, tail)
           q == Shift(p, - n)
<1>1. /\ Sizes(s) /\ s.wild = 0 /\ s.length \in Nat /\ s.reserved \in Nat /\ s.alloc \in Nat
      /\ s.length + s.reserved + 1 <= s.alloc
  BY DEF Sound, Sizes
<1>2. Len(tail) = s.length - (b + n)
  BY <1>1, TailLength
<1>3. Len(tail) \in Nat /\ b + Len(tail) <= s.alloc
  BY <1>1, <1>2
<1> HIDE DEF tail
<1>4. Sound(p) /\ p.length = s.length /\ p.reserved = s.reserved /\ p.alloc = s.alloc
  BY <1>1, <1>3, PutSizes DEF Sound
<1> HIDE DEF p
<1>5. - n \in Int /\ p.length + (- n) = s.length - n /\ p.reserved - (- n) = s.reserved + n
  BY <1>1, <1>4
<1>6. Sound(q) /\ q.length = s.length - n /\ q.reserved = s.reserved + n /\ q.alloc = s.alloc
  <2>1. p.length + (- n) >= 0 /\ p.reserved - (- n) >= 0
    BY <1>1, <1>5
  <2> QED BY <1>4, <1>5, <2>1, ShiftSound
<1> HIDE DEF q
<1>7. q.length + 1 <= q.alloc
  BY <1>1, <1>6
<1>8. Erase(s, b, n) = Terminate(q)
  BY DEF Erase, q, p, tail
<1> QED BY <1>6, <1>7, <1>8, TerminateSizes DEF Sound

(* Clear turns the whole text into reserve.                                *)
LEMMA ClearSound ==
  ASSUME NEW s, Sound(s)
  PROVE  /\ Sound(Clear(s)) /\ Clear(s).length = 0
         /\ Clear(s).reserved = s.length + s.reserved
<1>1. s.length \in Nat /\ s.reserved \in Nat
  BY DEF Sound, Sizes
<1>2. CASE s.length = 0
  BY <1>1, <1>2 DEF Clear
<1>3. CASE s.length # 0
  <2> DEFINE q == Shift(s, - s.length)
  <2>1. /\ - s.length \in Int /\ s.length + (- s.length) = 0 /\ s.length + (- s.length) >= 0
        /\ s.reserved - (- s.length) = s.length + s.reserved /\ s.reserved - (- s.length) >= 0
    BY <1>1
  <2>2. Sound(q) /\ q.length = 0 /\ q.reserved = s.length + s.reserved
    BY <2>1, ShiftSound
  <2> HIDE DEF q
  <2>3. Sizes(q) /\ q.alloc \in Nat /\ q.length + q.reserved + 1 <= q.alloc
    BY <1>1, <1>3, <2>2 DEF Sound, Sizes
  <2>4. Len(<<NUL>>) \in Nat /\ Len(<<NUL>>) <= q.alloc
    BY <1>1, <2>2, <2>3
  <2>5. Clear(s) = Put(q, 0, <<NUL>>)
    BY <1>3 DEF Clear, q
  <2>6. LET p == Put(q, 0, <<NUL>>)
        IN  Sizes(p) /\ p.alloc = q.alloc /\ p.length = q.length /\ p.reserved = q.reserved /\ p.wild = q.wild
    BY <2>3, <2>4, PutFirst
  <2> QED BY <2>2, <2>3, <2>5, <2>6 DEF Sound
<1> QED BY <1>2, <1>3

(* AdjustLength within the limits it checks.                               *)
LEMMA AdjustSound ==
  ASSUME NEW s, Sound(s), NEW n \in Int, ~ AdjustThrows(s, n)
  PROVE  /\ Sound(AdjustLength(s, n)) /\ AdjustLength(s, n).length = s.length + n
         /\ AdjustLength(s, n).reserved = s.reserved - n
<1>1. s.length \in Nat /\ s.reserved \in Nat /\ s.alloc \in Nat
  BY DEF Sound, Sizes
<1>2. CASE n = 0
  BY <1>1, <1>2 DEF AdjustLength
<1>3. CASE n # 0
  <2> DEFINE q == Shift(s, n)
  <2>1. s.length + n >= 0 /\ s.reserved - n >= 0
    BY <1>1 DEF AdjustThrows
  <2>2. Sound(q) /\ q.length = s.length + n /\ q.reserved = s.reserved - n /\ q.alloc = s.alloc
    BY <2>1, ShiftSound
  <2>3. s.length + s.reserved + 1 <= s.alloc
    BY <1>1, <1>3, <2>1 DEF Sound
  <2> HIDE DEF q
  <2>4. q.length + 1 <= q.alloc
    BY <1>1, <2>1, <2>2, <2>3
  <2>5. AdjustLength(s, n) = Terminate(q)
    BY <1>3 DEF AdjustLength, q
  <2> QED BY <2>2, <2>4, <2>5, TerminateSizes DEF Sound
<1> QED BY <1>2, <1>3

(* Room for the socket, also when the argument of Reserve wraps around.    *)
LEMMA ReadRoom ==
  ASSUME NEW s, Sound(s), s.length <= MaxText, s.length + s.reserved <= Bound
  PROVE  LET r == ReserveForRead(s)
         IN  /\ Sound(r) /\ r.length = s.length /\ r.length + r.reserved <= Bound
             /\ BufferLength <= r.reserved /\ r.length + BufferLength + 1 <= r.alloc
<1>1. /\ s.length \in Nat /\ s.reserved \in Nat /\ s.alloc \in Nat
      /\ BufferLength \in Nat /\ BufferLength > 0 /\ MaxText \in Nat /\ MaxArg \in Nat
      /\ SizeMax \in Nat /\ 2 * (MaxText + MaxArg + BufferLength) < SizeMax
      /\ s.length + s.reserved <= MaxText + MaxArg + BufferLength
  BY UseAssumption, SizeAssumption DEF Sound, Sizes, Bound
<1>2. CASE s.reserved >= BufferLength + s.length
  BY <1>1, <1>2 DEF ReserveForRead, Sound
<1>3. CASE s.reserved < BufferLength + s.length
  <2> DEFINE len == Minus(BufferLength, s.reserved)
             r == Reserve(s, len)
  <2>1. Plus(s.reserved, len) = BufferLength
    BY <1>1 DEF Plus, Minus
  <2>2. Plus(s.length, s.reserved) = s.length + s.reserved
    BY <1>1 DEF Plus
  <2>3. Plus(s.length + s.reserved, len) = s.length + BufferLength
    BY <1>1 DEF Plus, Minus
  <2>4. Plus(s.length + BufferLength, 1) = s.length + BufferLength + 1
    BY <1>1 DEF Plus
  <2>5. ReserveForRead(s) = r
    BY <1>3 DEF ReserveForRead
  <2>6. Plus(Plus(Plus(s.length, s.reserved), len), 1) = s.length + BufferLength + 1
    BY <2>2, <2>3, <2>4
  <2> HIDE DEF len
  <2>7. Sound(r) /\ r.length = s.length /\ r.reserved = BufferLength /\ r.alloc = s.length + BufferLength + 1
    BY <1>1, <2>1, <2>6, ReserveSound
  <2> HIDE DEF r
  <2> QED BY <1>1, <2>5, <2>7 DEF Bound
<1> QED BY <1>1, <1>2, <1>3

-----------------------------------------------------------------------------
(* The bounds that every step needs.                                       *)
LEMMA Limits ==
  ASSUME IInv
  PROVE  /\ str.length \in Nat /\ str.reserved \in Nat /\ str.alloc \in Nat
         /\ MaxText \in Nat /\ MaxArg \in Nat /\ MaxArg <= MaxText
         /\ BufferLength \in Nat /\ BufferLength > 0
         /\ SizeMax \in Nat /\ 2 * Bound < SizeMax /\ Bound = MaxText + MaxArg + BufferLength
         /\ Bound \in Nat
BY UseAssumption, SizeAssumption DEF IInv, Sound, Sizes, Bound

(* An argument is a sequence of at most MaxArg characters.                 *)
LEMMA ArgSeq ==
  ASSUME NEW t \in Args
  PROVE  t \in Seq(Byte) /\ Len(t) \in Nat /\ Len(t) <= MaxArg
<1>1. PICK n \in 0 .. MaxArg : t \in [1 .. n -> Chars]
  BY DEF Args
<1>2. n \in Nat /\ n <= MaxArg
  BY UseAssumption
<1> QED BY <1>1, <1>2, ArgLength

(* Every constructor makes a sound string.                                 *)
LEMMA WithRoomSound ==
  ASSUME NEW n \in Nat
  PROVE  LET s == WithRoom(n)
         IN  Sound(s) /\ s.alloc = n + 1 /\ s.length = 0 /\ s.reserved = n
<1> DEFINE m == Malloc(n + 1)
           k == n + 1
           s == [alloc |-> k, cells |-> m, length |-> 0, reserved |-> n, wild |-> 0]
<1>1. k \in Nat /\ k >= 1 /\ k = n + 1
  OBVIOUS
<1>2. WithRoom(n) = Terminate(s)
  BY DEF WithRoom
<1> HIDE DEF m, k
<1>3. Sizes(s) /\ s.alloc = k /\ s.length = 0 /\ s.reserved = n /\ s.wild = 0
  BY <1>1 DEF Sizes
<1> HIDE DEF s
<1>4. s.length + 1 <= s.alloc
  BY <1>1, <1>3
<1>5. LET t == Terminate(s)
      IN  Sizes(t) /\ t.alloc = k /\ t.length = 0 /\ t.reserved = n /\ t.wild = 0
  BY <1>3, <1>4, TerminateSizes
<1> QED BY <1>1, <1>2, <1>5 DEF Sound

LEMMA CopySound ==
  ASSUME NEW t \in Seq(Byte)
  PROVE  LET s == CopyOf(t)
         IN  Sound(s) /\ s.alloc = Len(t) + 1 /\ s.length = Len(t) /\ s.reserved = 0
<1> DEFINE l == Len(t)
           m == Malloc(l + 1)
           k == l + 1
           s == [alloc |-> k, cells |-> m, length |-> l, reserved |-> 0, wild |-> 0]
           x == Append(t, NUL)
<1>1. k \in Nat /\ k = l + 1 /\ l \in Nat /\ Len(x) = k
  BY TerminatedLength
<1>2. CopyOf(t) = Put(s, 0, x)
  BY DEF CopyOf
<1> HIDE DEF l, m, k, x
<1>3. Sizes(s) /\ s.alloc = k /\ s.length = l /\ s.reserved = 0 /\ s.wild = 0
  BY <1>1 DEF Sizes
<1> HIDE DEF s
<1>4. Len(x) \in Nat /\ Len(x) <= s.alloc
  BY <1>1, <1>3
<1>5. LET p == Put(s, 0, x)
      IN  Sizes(p) /\ p.alloc = k /\ p.length = l /\ p.reserved = 0 /\ p.wild = 0
  BY <1>3, <1>4, PutFirst
<1> QED BY <1>1, <1>2, <1>5 DEF Sound, l

LEMMA InitInv ==
  ASSUME Init
  PROVE  IInv
<1>1. PICK t \in Args, n \in {0, BufferLength} : str \in {NoBlock, WithRoom(n), CopyOf(t)}
  BY DEF Init
<1>2. /\ MaxText \in Nat /\ MaxArg \in Nat /\ BufferLength \in Nat /\ MaxArg <= MaxText
      /\ Len(t) \in Nat /\ Len(t) <= MaxArg /\ t \in Seq(Byte) /\ n \in Nat /\ n <= BufferLength
  BY ArgSeq, UseAssumption
<1>3. CASE str = NoBlock
  <2>1. Sound(str) /\ str.length = 0 /\ str.reserved = 0
    BY <1>3 DEF NoBlock, Sound, Sizes
  <2> QED BY <1>2, <2>1 DEF IInv, Bound
<1>4. CASE str = WithRoom(n)
  <2>1. Sound(str) /\ str.length = 0 /\ str.reserved = n
    BY <1>2, <1>4, WithRoomSound
  <2> QED BY <1>2, <2>1 DEF IInv, Bound
<1>5. CASE str = CopyOf(t)
  <2>1. Sound(str) /\ str.length = Len(t) /\ str.reserved = 0
    BY <1>2, <1>5, CopySound
  <2> QED BY <1>2, <2>1 DEF IInv, Bound
<1> QED BY <1>1, <1>3, <1>4, <1>5

(* Reserve within the bounds.                                              *)
LEMMA ReserveStep ==
  ASSUME IInv, DoReserve
  PROVE  IInv'
<1>1. PICK n \in 0 .. MaxArg : str.length + str.reserved + n <= Bound /\ str' = Reserve(str, n)
  BY DEF DoReserve, Bound
<1>2. n \in Nat
  BY Limits
<1>3. Plus(str.reserved, n) = str.reserved + n
  BY <1>1, <1>2, Limits DEF Plus
<1>4. Plus(Plus(Plus(str.length, str.reserved), n), 1) = str.length + (str.reserved + n) + 1
  BY <1>1, <1>2, Limits DEF Plus
<1>5. str.reserved + n \in Nat
  BY <1>2, Limits
<1>6. Sound(str') /\ str'.length = str.length /\ str'.reserved = str.reserved + n
  BY <1>1, <1>3, <1>4, <1>5, ReserveSound DEF IInv
<1> QED BY <1>1, <1>2, <1>6, Limits DEF IInv

(* Appending or assigning at most MaxText characters in all.               *)
LEMMA TextStep ==
  ASSUME IInv, NEW t \in Seq(Byte),
         \/ str.length + Len(t) <= MaxText /\ str' = AppendText(str, t)
         \/ Len(t) <= MaxText /\ str' = Assign(str, t)
  PROVE  IInv'
<1>1. Len(t) \in Nat
  OBVIOUS
<1>2. CASE str.length + Len(t) <= MaxText /\ str' = AppendText(str, t)
  <2>1. str.length + Len(t) + 1 <= SizeMax
    BY <1>1, <1>2, Limits
  <2>2. /\ Sound(str') /\ str'.length = str.length + Len(t)
        /\ \/ str'.length + str'.reserved <= str.length + str.reserved
           \/ str'.reserved = 0
    BY <1>2, <2>1, AppendSound DEF IInv
  <2>3. str'.length \in Nat /\ str'.reserved \in Nat
    BY <2>2 DEF Sound, Sizes
  <2>4. MaxText <= Bound /\ Bound \in Nat /\ MaxText \in Nat /\ str.length + str.reserved <= Bound
    BY Limits DEF IInv
  <2>5. str'.length <= MaxText
    BY <1>2, <2>2
  <2>6. str'.length + str'.reserved <= Bound
    <3>1. str.length \in Nat /\ str.reserved \in Nat
      BY Limits
    <3> QED BY <3>1, <2>2, <2>3, <2>4, <2>5
  <2> QED BY <2>2, <2>5, <2>6 DEF IInv
<1>3. CASE Len(t) <= MaxText /\ str' = Assign(str, t)
  <2>1. Len(t) + 1 <= SizeMax
    BY <1>1, <1>3, Limits
  <2>2. /\ Sound(str') /\ str'.length = Len(t)
        /\ \/ str'.length + str'.reserved <= str.length + str.reserved
           \/ str'.reserved = 0
    BY <1>3, <2>1, AssignSound DEF IInv
  <2>3. str'.length \in Nat /\ str'.reserved \in Nat
    BY <2>2 DEF Sound, Sizes
  <2>4. MaxText <= Bound /\ Bound \in Nat /\ MaxText \in Nat /\ str.length + str.reserved <= Bound
    BY Limits DEF IInv
  <2>5. str'.length <= MaxText
    BY <1>3, <2>2
  <2>6. str'.length + str'.reserved <= Bound
    <3>1. str.length \in Nat /\ str.reserved \in Nat
      BY Limits
    <3> QED BY <3>1, <2>2, <2>3, <2>4, <2>5
  <2> QED BY <2>2, <2>5, <2>6 DEF IInv
<1> QED BY <1>2, <1>3

(* Erase, when it does not throw.                                          *)
LEMMA EraseStep ==
  ASSUME IInv, DoErase
  PROVE  IInv'
<1>1. PICK begin \in 0 .. MaxText, len \in 0 .. MaxText :
        ~ EraseThrows(str, begin, len) /\ str.alloc > 0 /\ str' = Erase(str, begin, len)
  BY DEF DoErase
<1>2. begin \in Nat /\ len \in Nat /\ begin + len <= str.length
  BY <1>1, Limits DEF EraseThrows
<1>3. Sound(str') /\ str'.length = str.length - len /\ str'.reserved = str.reserved + len
  BY <1>1, <1>2, EraseSound DEF IInv
<1> QED BY <1>2, <1>3, Limits DEF IInv

(* Clear.                                                                  *)
LEMMA ClearStep ==
  ASSUME IInv, DoClear
  PROVE  IInv'
<1>1. Sound(str') /\ str'.length = 0 /\ str'.reserved = str.length + str.reserved
  BY ClearSound DEF IInv, DoClear
<1> QED BY <1>1, Limits DEF IInv

(* AdjustLength with a negative argument.                                  *)
LEMMA ShrinkStep ==
  ASSUME IInv, DoShrink
  PROVE  IInv'
<1>1. PICK n \in 1 .. MaxText : ~ AdjustThrows(str, -n) /\ str' = AdjustLength(str, -n)
  BY DEF DoShrink
<1>2. n \in Nat /\ -n \in Int
  BY Limits
<1>3. Sound(str') /\ str'.length = str.length + (-n) /\ str'.reserved = str.reserved - (-n)
  BY <1>1, <1>2, AdjustSound DEF IInv
<1> QED BY <1>2, <1>3, Limits DEF IInv

(* EventRead: room, the bytes of recv(), and AdjustLength.                 *)
LEMMA EventReadStep ==
  ASSUME IInv, DoEventRead
  PROVE  IInv'
<1> DEFINE r == ReserveForRead(str)
<1>1. PICK n \in 0 .. BufferLength : \E t \in [1 .. n -> Chars] :
         /\ str.length + Len(t) <= MaxText
         /\ ~ AdjustThrows(r, Len(t))
         /\ str' = AdjustLength(Put(r, r.length, t), Len(t))
  BY DEF DoEventRead, Fits
<1>2. PICK t \in [1 .. n -> Chars] :
         /\ str.length + Len(t) <= MaxText
         /\ ~ AdjustThrows(r, Len(t))
         /\ str' = AdjustLength(Put(r, r.length, t), Len(t))
  BY <1>1
<1>3. n \in Nat /\ n <= BufferLength
  BY Limits
<1>4. Len(t) = n
  BY <1>2, <1>3, ArgLength
<1>5. /\ Sound(r) /\ r.length = str.length /\ r.length + r.reserved <= Bound
      /\ BufferLength <= r.reserved /\ r.length + BufferLength + 1 <= r.alloc
  BY ReadRoom DEF IInv
<1> DEFINE q == Put(r, r.length, t)
<1> HIDE DEF r
<1>6. r.length \in Nat /\ r.reserved \in Nat /\ r.alloc \in Nat /\ Sizes(r) /\ r.wild = 0
  BY <1>5 DEF Sound, Sizes
<1>7. Len(t) \in Nat /\ r.length + Len(t) <= r.alloc
  <2>1. BufferLength \in Nat
    BY Limits
  <2>2. r.length + n <= r.alloc
    BY <1>3, <1>5, <1>6, <2>1
  <2> QED BY <1>3, <1>4, <2>2
<1>8. Sizes(q) /\ q.alloc = r.alloc /\ q.length = r.length /\ q.reserved = r.reserved /\ q.wild = 0
  BY <1>6, <1>7, PutSizes
<1>9. Sound(q)
  BY <1>5, <1>8 DEF Sound
<1>10. Len(t) \in Int /\ ~ AdjustThrows(q, Len(t))
  BY <1>2, <1>7, <1>8 DEF AdjustThrows
<1> HIDE DEF q
<1>11. str' = AdjustLength(q, Len(t))
  BY <1>2 DEF q
<1>12. Sound(str') /\ str'.length = q.length + Len(t) /\ str'.reserved = q.reserved - Len(t)
  BY <1>9, <1>10, <1>11, AdjustSound
<1>13. str'.length <= MaxText
  BY <1>2, <1>5, <1>8, <1>12
<1>14. str'.length + str'.reserved <= Bound
  BY <1>5, <1>6, <1>7, <1>8, <1>12
<1> QED BY <1>12, <1>13, <1>14 DEF IInv

(* Every operation that the library uses preserves the bookkeeping.        *)
LEMMA NextInv ==
  ASSUME IInv, [Next]_vars
  PROVE  IInv'
<1>1. CASE DoReserve
  BY <1>1, ReserveStep
<1>2. CASE DoAppend
  <2>1. PICK t \in Args : Fits(Len(t)) /\ str' = AppendText(str, t)
    BY <1>2 DEF DoAppend
  <2> QED BY <2>1, ArgSeq, TextStep DEF Fits
<1>3. CASE DoAppendChar
  <2>1. PICK ch \in Chars : Fits(1) /\ str' = AppendText(str, <<ch>>)
    BY <1>3 DEF DoAppendChar, AppendChar
  <2>2. <<ch>> \in Seq(Byte) /\ Len(<<ch>>) = 1
    BY CharByte
  <2> QED BY <2>1, <2>2, TextStep DEF Fits
<1>4. CASE DoAssign
  <2>1. PICK t \in Args : Len(t) <= MaxText /\ str' = Assign(str, t)
    BY <1>4 DEF DoAssign
  <2> QED BY <2>1, ArgSeq, TextStep
<1>5. CASE DoErase
  BY <1>5, EraseStep
<1>6. CASE DoClear
  BY <1>6, ClearStep
<1>7. CASE DoShrink
  BY <1>7, ShrinkStep
<1>8. CASE DoEventRead
  BY <1>8, EventReadStep
<1>9. CASE UNCHANGED vars
  BY <1>9 DEF vars, IInv
<1> QED BY <1>1, <1>2, <1>3, <1>4, <1>5, <1>6, <1>7, <1>8, <1>9 DEF Next

-----------------------------------------------------------------------------
(* The text itself: besides the sizes, the bytes in the block.            *)

(* The string holds t: its block has all its bytes, the first are t.       *)
Carries(s, t) ==
  /\ DOMAIN s.cells = 0 .. s.alloc - 1
  /\ t \in Seq(Byte) /\ s.length = Len(t)
  /\ \A i \in 0 .. Len(t) - 1 : s.cells[i] = t[i + 1]

(* What C functions see ends where the text ends.                          *)
Ended(s) == s.cells[s.length] = NUL

LEMMA CarriesText ==
  ASSUME NEW s, NEW t, Carries(s, t)
  PROVE  Text(s) = t
<1>1. t \in Seq(Byte) /\ Len(t) \in Nat /\ s.length = Len(t)
  BY DEF Carries
<1>2. ASSUME NEW i \in 1 .. Len(t) PROVE s.cells[i - 1] = t[i]
  <2>1. i - 1 \in 0 .. Len(t) - 1 /\ (i - 1) + 1 = i
    BY <1>1
  <2>2. s.cells[i - 1] = t[(i - 1) + 1]
    BY <2>1 DEF Carries
  <2> QED BY <2>1, <2>2
<1>3. Text(s) = [i \in 1 .. Len(t) |-> t[i]]
  BY <1>1, <1>2 DEF Text
<1> QED BY <1>1, <1>3

(* What the steps of the operations do to the bytes.                       *)
LEMMA PutCells ==
  ASSUME NEW s, Sizes(s), NEW at, NEW t
  PROVE  Put(s, at, t).cells = Written(s.cells, at, t)
<1> DEFINE a == s.alloc
           c == s.cells
           l == s.length
           r == s.reserved
           w == s.wild
           d == Written(c, at, t)
           v == IF at + Len(t) > a THEN w + 1 ELSE w
<1>1. s = [alloc |-> a, cells |-> c, length |-> l, reserved |-> r, wild |-> w]
  BY DEF Sizes
<1>2. Put(s, at, t) = [s EXCEPT !.cells = d, !.wild = v]
  BY DEF Put
<1> HIDE DEF a, c, l, r, w, d, v
<1>3. Put(s, at, t).cells = d
  BY <1>1, <1>2
<1> QED BY <1>3 DEF c, d

LEMMA ShiftCells ==
  ASSUME NEW q, Sizes(q), NEW n
  PROVE  Shift(q, n).cells = q.cells /\ Longer(q, n).cells = q.cells
BY DEF Sizes, Shift, Longer

LEMMA ResizeCells ==
  ASSUME NEW s, Sizes(s), NEW n, NEW r
  PROVE  [Resize(s, n) EXCEPT !.reserved = r].cells
           = IF s.length = 0 /\ s.reserved = 0 THEN Malloc(n) ELSE Realloc(s.cells, n)
<1> DEFINE d == IF s.length = 0 /\ s.reserved = 0 THEN Malloc(n) ELSE Realloc(s.cells, n)
<1>1. Resize(s, n) = [s EXCEPT !.alloc = n, !.cells = d]
  BY DEF Resize
<1> HIDE DEF d
<1>2. [Resize(s, n) EXCEPT !.reserved = r].cells = d
  BY <1>1 DEF Sizes
<1> QED BY <1>2 DEF d

LEMMA WrittenAt ==
  ASSUME NEW m, NEW k, DOMAIN m = 0 .. k - 1, NEW at, NEW t
  PROVE  /\ DOMAIN Written(m, at, t) = 0 .. k - 1
         /\ \A i \in 0 .. k - 1 :
              Written(m, at, t)[i] = IF i \in at .. at + Len(t) - 1 THEN t[i - at + 1] ELSE m[i]
BY DEF Written

(* Writing behind the text.                                                *)
LEMMA PutCarries ==
  ASSUME NEW s, Sizes(s), NEW t, Carries(s, t), NEW at \in Nat, s.length <= at,
         NEW u, Len(u) \in Nat, at + Len(u) <= s.alloc
  PROVE  Carries(Put(s, at, u), t)
<1> DEFINE p == Put(s, at, u)
<1>1. p.alloc = s.alloc /\ p.length = s.length /\ p.cells = Written(s.cells, at, u)
  BY PutSizes, PutCells
<1>2. /\ s.alloc \in Nat /\ Len(t) \in Nat /\ Len(t) <= at /\ t \in Seq(Byte) /\ s.length = Len(t)
      /\ DOMAIN s.cells = 0 .. s.alloc - 1
  BY DEF Sizes, Carries
<1> HIDE DEF p
<1>3. DOMAIN p.cells = 0 .. p.alloc - 1
  BY <1>1, <1>2, WrittenAt
<1>4. ASSUME NEW i \in 0 .. Len(t) - 1 PROVE p.cells[i] = t[i + 1]
  <2>1. i \in 0 .. s.alloc - 1 /\ i \notin at .. at + Len(u) - 1
    BY <1>2
  <2>2. p.cells[i] = s.cells[i]
    BY <1>1, <1>2, <2>1, WrittenAt
  <2> QED BY <2>2 DEF Carries
<1> QED BY <1>1, <1>2, <1>3, <1>4 DEF p, Carries

LEMMA TerminateCarries ==
  ASSUME NEW s, Sizes(s), NEW t, Carries(s, t), s.length + 1 <= s.alloc
  PROVE  Carries(Terminate(s), t) /\ Ended(Terminate(s))
<1> DEFINE u == <<NUL>>
           a == s.length
           m == s.cells
           k == s.alloc
<1>1. /\ a \in Nat /\ k \in Nat /\ Len(u) = 1 /\ Len(u) \in Nat /\ a <= a /\ u[1] = NUL
      /\ DOMAIN m = 0 .. k - 1
  BY DEF Sizes, Carries
<1>2. Terminate(s) = Put(s, a, u)
  BY DEF Terminate
<1> HIDE DEF u
<1>3. a + Len(u) <= k
  BY <1>1
<1>4. Carries(Terminate(s), t)
  BY <1>1, <1>2, <1>3, PutCarries
<1>5. Terminate(s).length = a /\ Terminate(s).cells = Written(m, a, u)
  <2>1. Put(s, a, u).length = s.length
    BY <1>1, <1>3, PutSizes
  <2>2. Put(s, a, u).cells = Written(s.cells, a, u)
    BY PutCells
  <2> QED BY <1>2, <2>1, <2>2
<1> HIDE DEF a, m, k
<1>6. a \in 0 .. k - 1 /\ a \in a .. a + Len(u) - 1 /\ a - a + 1 = 1
  BY <1>1, <1>3
<1>7. Written(m, a, u)[a] = u[1]
  BY <1>1, <1>6 DEF Written
<1> QED BY <1>1, <1>4, <1>5, <1>7 DEF Ended

(* A new block or a realloc that has room for the text.                    *)
LEMMA ResizeCarries ==
  ASSUME NEW s, Sound(s), NEW t, Carries(s, t), NEW n \in Nat, s.length <= n, NEW r \in Nat
  PROVE  Carries([Resize(s, n) EXCEPT !.reserved = r], t)
<1> DEFINE q == [Resize(s, n) EXCEPT !.reserved = r]
<1>0. Sizes(s)
  BY DEF Sound
<1>1. Sizes(q) /\ q.alloc = n /\ q.length = s.length /\ q.reserved = r /\ q.wild = s.wild
  BY <1>0, ResizeSizes
<1>2. q.cells = IF s.length = 0 /\ s.reserved = 0 THEN Malloc(n) ELSE Realloc(s.cells, n)
  BY ResizeCells DEF Sound
<1>3. /\ s.alloc \in Nat /\ Len(t) \in Nat /\ s.length = Len(t) /\ t \in Seq(Byte)
      /\ DOMAIN s.cells = 0 .. s.alloc - 1 /\ s.length <= s.alloc
  BY DEF Sound, Sizes, Carries
<1> HIDE DEF q
<1>4. DOMAIN q.cells = 0 .. n - 1
  BY <1>2 DEF Malloc, Realloc
<1>5. ASSUME NEW i \in 0 .. Len(t) - 1 PROVE q.cells[i] = t[i + 1]
  <2>1. i \in 0 .. n - 1 /\ i \in DOMAIN s.cells /\ s.length # 0
    BY <1>3
  <2>2. q.cells[i] = s.cells[i]
    BY <1>2, <2>1 DEF Realloc
  <2> QED BY <2>2 DEF Carries
<1> QED BY <1>1, <1>3, <1>4, <1>5 DEF q, Carries

LEMMA ReserveCarries ==
  ASSUME NEW s, Sound(s), NEW t, Carries(s, t), NEW len, NEW k \in Nat,
         Plus(s.reserved, len) = k,
         Plus(Plus(Plus(s.length, s.reserved), len), 1) = s.length + k + 1
  PROVE  Carries(Reserve(s, len), t) /\ Ended(Reserve(s, len))
<1> DEFINE n == s.length + k + 1
           q == [Resize(s, n) EXCEPT !.reserved = k]
<1>1. Sizes(s) /\ s.length \in Nat /\ n \in Nat /\ s.length <= n
  BY DEF Sound, Sizes
<1>2. Sizes(q) /\ q.alloc = n /\ q.length = s.length
  BY <1>1, ResizeSizes
<1>3. [Resize(s, n) EXCEPT !.reserved = Plus(@, len)] = q
  <2>1. Resize(s, n).reserved = s.reserved
    <3> DEFINE d == IF s.length = 0 /\ s.reserved = 0 THEN Malloc(n) ELSE Realloc(s.cells, n)
    <3>1. Resize(s, n) = [s EXCEPT !.alloc = n, !.cells = d]
      BY DEF Resize
    <3> HIDE DEF d, n
    <3> QED BY <3>1, <1>1 DEF Sizes
  <2> QED BY <2>1
<1>4. Reserve(s, len) = Terminate(q)
  BY <1>3 DEF Reserve
<1>5. Carries(q, t)
  <2> HIDE DEF n
  <2> QED BY <1>1, ResizeCarries
<1> HIDE DEF q
<1>6. q.length + 1 <= q.alloc
  BY <1>1, <1>2
<1> QED BY <1>2, <1>4, <1>5, <1>6, TerminateCarries

LEMMA RoomCarries ==
  ASSUME NEW s, Sound(s), NEW t, Carries(s, t), NEW n \in Nat \ {0}, s.length + n + 1 <= SizeMax
  PROVE  Carries(Room(s, n), t)
<1>1. Sizes(s) /\ s.length \in Nat /\ s.reserved \in Nat
  BY DEF Sound, Sizes
<1>2. CASE s.reserved > n
  <2> DEFINE r == s.reserved - (n + 1)
  <2>1. Room(s, n) = [s EXCEPT !.reserved = r]
    BY <1>2 DEF Room
  <2> HIDE DEF r
  <2>2. /\ Room(s, n).cells = s.cells /\ Room(s, n).alloc = s.alloc /\ Room(s, n).length = s.length
    BY <1>1, <2>1 DEF Sizes
  <2> QED BY <2>2 DEF Carries
<1>3. CASE ~ (s.reserved > n)
  <2> DEFINE k == s.length + n + 1
  <2>1. Plus(Plus(s.length, n), 1) = k
    BY <1>1, SizeAssumption DEF Plus
  <2>2. Room(s, n) = [Resize(s, k) EXCEPT !.reserved = 0]
    BY <1>3, <2>1 DEF Room
  <2>3. k \in Nat /\ s.length <= k /\ 0 \in Nat
    BY <1>1
  <2> HIDE DEF k
  <2> QED BY <2>2, <2>3, ResizeCarries
<1> QED BY <1>2, <1>3

LEMMA AppendCarries ==
  ASSUME NEW s, Sound(s), NEW t, Carries(s, t), NEW u \in Seq(Byte), s.length + Len(u) + 1 <= SizeMax
  PROVE  Carries(AppendText(s, u), t \o u) /\ (u # << >> => Ended(AppendText(s, u)))
<1>0. t \in Seq(Byte) /\ Len(t) \in Nat /\ s.length = Len(t) /\ Len(u) \in Nat
  BY DEF Carries
<1>1. CASE u = << >>
  <2>1. t \o u = t
    BY <1>0, <1>1
  <2> QED BY <1>1, <2>1 DEF AppendText
<1>2. CASE u # << >>
  <2> DEFINE n == Len(u)
             r == Room(s, n)
             x == Append(u, NUL)
             q == Put(r, r.length, x)
             v == t \o u
  <2>1. n \in Nat \ {0}
    BY <1>0, <1>2
  <2>2. /\ Sizes(r) /\ r.length = s.length /\ r.length + n + r.reserved + 1 <= r.alloc
        /\ r.length \in Nat /\ r.reserved \in Nat /\ r.alloc \in Nat
    <3>1. Sizes(r) /\ r.length = s.length /\ r.length + n + r.reserved + 1 <= r.alloc
      BY <2>1, RoomSizes
    <3> HIDE DEF r
    <3> QED BY <3>1 DEF Sizes
  <2>3. Carries(r, t)
    BY <2>1, RoomCarries
  <2>4. /\ Len(x) = n + 1 /\ x[n + 1] = NUL /\ \A j \in 1 .. n : x[j] = u[j]
    <3>1. u \in Seq(Byte \cup {NUL}) /\ NUL \in Byte \cup {NUL}
      OBVIOUS
    <3> QED BY <3>1
  <2>5. /\ v \in Seq(Byte) /\ Len(v) = Len(t) + n
        /\ \A j \in 1 .. Len(t) : v[j] = t[j]
        /\ \A j \in 1 .. n : v[Len(t) + j] = u[j]
    BY <1>0
  <2>6. AppendText(s, u) = Longer(q, n)
    BY <1>2 DEF AppendText
  <2> HIDE DEF n, r, x, v
  <2>7. Len(x) \in Nat /\ r.length + Len(x) <= r.alloc
    BY <2>1, <2>2, <2>4
  <2>8. /\ Sizes(q) /\ q.alloc = r.alloc /\ q.length = r.length /\ q.cells = Written(r.cells, r.length, x)
    BY <2>2, <2>7, PutSizes, PutCells
  <2> HIDE DEF q
  <2> DEFINE w == Longer(q, n)
  <2>9. w.alloc = r.alloc /\ w.length = r.length + n /\ w.cells = Written(r.cells, r.length, x)
    <3>1. n \in Nat
      BY <2>1
    <3> QED BY <2>8, <3>1, LongerSizes, ShiftCells
  <2> HIDE DEF w
  <2>10. DOMAIN r.cells = 0 .. r.alloc - 1 /\ r.length = Len(t)
    BY <2>3 DEF Carries
  <2>11. DOMAIN w.cells = 0 .. w.alloc - 1
    BY <2>9, <2>10, WrittenAt
  <2>12. ASSUME NEW i \in 0 .. Len(v) - 1 PROVE w.cells[i] = v[i + 1]
    <3>1. i \in 0 .. r.alloc - 1 /\ r.length + Len(x) - 1 = Len(t) + n
      BY <1>0, <2>1, <2>2, <2>4, <2>5, <2>10
    <3> DEFINE m == r.cells
               a == r.length
               k == r.alloc
    <3>2. w.cells[i] = IF i \in a .. a + Len(x) - 1 THEN x[i - a + 1] ELSE m[i]
      <4>1. DOMAIN m = 0 .. k - 1 /\ w.cells = Written(m, a, x) /\ i \in 0 .. k - 1
        BY <2>9, <2>10, <3>1
      <4> HIDE DEF m, a, k
      <4> QED BY <4>1 DEF Written
    <3>3. CASE i < Len(t)
      <4>1. i \notin r.length .. r.length + Len(x) - 1 /\ i \in 0 .. Len(t) - 1 /\ i + 1 \in 1 .. Len(t)
        BY <1>0, <2>10, <3>3
      <4>2. w.cells[i] = r.cells[i] /\ r.cells[i] = t[i + 1]
        BY <2>3, <3>2, <4>1 DEF Carries
      <4> QED BY <2>5, <4>1, <4>2
    <3>4. CASE i >= Len(t)
      <4> DEFINE j == i - Len(t) + 1
      <4>1. /\ i \in r.length .. r.length + Len(x) - 1 /\ j \in 1 .. n /\ i - r.length + 1 = j
            /\ i + 1 = Len(t) + j
        BY <1>0, <2>1, <2>5, <2>10, <3>1, <3>4
      <4> HIDE DEF j
      <4>2. w.cells[i] = x[j]
        BY <3>2, <4>1
      <4>3. x[j] = u[j]
        BY <2>4, <4>1
      <4>4. v[Len(t) + j] = u[j]
        BY <2>5, <4>1
      <4> QED BY <4>1, <4>2, <4>3, <4>4
    <3> QED BY <1>0, <2>5, <3>3, <3>4
  <2>13. w.length = Len(v)
    BY <2>5, <2>9, <2>10
  <2>14. w.cells[w.length] = NUL
    <3> DEFINE m == r.cells
               a == r.length
               k == r.alloc
               i == r.length + n
    <3>1. /\ DOMAIN m = 0 .. k - 1 /\ w.cells = Written(m, a, x) /\ w.length = i
          /\ i \in 0 .. k - 1 /\ i \in a .. a + Len(x) - 1 /\ i - a + 1 = n + 1
      BY <2>1, <2>2, <2>4, <2>9, <2>10
    <3> HIDE DEF m, a, k, i
    <3>2. w.cells[i] = x[n + 1]
      BY <3>1 DEF Written
    <3> QED BY <2>4, <3>1, <3>2
  <2> QED BY <2>5, <2>6, <2>11, <2>12, <2>13, <2>14 DEF Carries, Ended, v, w
<1> QED BY <1>1, <1>2

(* A string whose length is set to zero holds the empty text.              *)
LEMMA CarriesNothing ==
  ASSUME NEW s, NEW t, Carries(s, t), NEW q, q.cells = s.cells, q.alloc = s.alloc, q.length = 0
  PROVE  Carries(q, << >>)
<1>1. << >> \in Seq(Byte) /\ Len(<< >>) = 0
  OBVIOUS
<1> QED BY <1>1 DEF Carries

LEMMA AssignCarries ==
  ASSUME NEW s, Sound(s), NEW t, Carries(s, t), NEW u \in Seq(Byte), Len(u) + 1 <= SizeMax
  PROVE  Carries(Assign(s, u), u) /\ (u # << >> => Ended(Assign(s, u)))
<1> DEFINE e == Shift(s, - s.length)
<1>1. s.length \in Nat /\ s.reserved \in Nat /\ Sizes(s) /\ Len(u) \in Nat
  BY DEF Sound, Sizes
<1>2. /\ - s.length \in Int /\ s.length + (- s.length) = 0 /\ s.length + (- s.length) >= 0
      /\ s.reserved - (- s.length) >= 0
  BY <1>1
<1>3. Sound(e) /\ e.length = 0 /\ e.alloc = s.alloc
  BY <1>2, ShiftSound
<1>4. e.cells = s.cells
  BY <1>1, ShiftCells
<1> HIDE DEF e
<1>5. Carries(e, << >>)
  BY <1>3, <1>4, CarriesNothing
<1>6. e.length + Len(u) + 1 <= SizeMax
  BY <1>1, <1>3
<1>7. Carries(AppendText(e, u), << >> \o u) /\ (u # << >> => Ended(AppendText(e, u)))
  BY <1>3, <1>5, <1>6, AppendCarries
<1>8. << >> \o u = u
  OBVIOUS
<1> QED BY <1>7, <1>8 DEF Assign, e

LEMMA ClearCarries ==
  ASSUME NEW s, Sound(s), NEW t, Carries(s, t)
  PROVE  Carries(Clear(s), << >>) /\ (s.length # 0 => Ended(Clear(s)))
<1>1. s.length \in Nat /\ s.reserved \in Nat /\ s.alloc \in Nat /\ Sizes(s)
  BY DEF Sound, Sizes
<1>2. CASE s.length = 0
  BY <1>2, CarriesNothing DEF Clear
<1>3. CASE s.length # 0
  <2> DEFINE q == Shift(s, - s.length)
  <2>1. /\ - s.length \in Int /\ s.length + (- s.length) = 0 /\ s.length + (- s.length) >= 0
        /\ s.reserved - (- s.length) >= 0
    BY <1>1
  <2>2. Sound(q) /\ q.length = 0 /\ q.alloc = s.alloc /\ q.cells = s.cells
    BY <1>1, <2>1, ShiftSound, ShiftCells
  <2>3. Clear(s) = Put(q, 0, <<NUL>>)
    BY <1>3 DEF Clear
  <2> HIDE DEF q
  <2>4. Carries(q, << >>)
    BY <2>2, CarriesNothing
  <2>5. Sizes(q) /\ q.length + 1 <= q.alloc
    BY <1>1, <1>3, <2>2 DEF Sound, Sizes
  <2>6. Clear(s) = Terminate(q)
    BY <2>2, <2>3 DEF Terminate
  <2> QED BY <2>4, <2>5, <2>6, TerminateCarries
<1> QED BY <1>2, <1>3

LEMMA EraseCarries ==
  ASSUME NEW s, Sound(s), s.alloc > 0, NEW t, Carries(s, t), NEW b \in Nat, NEW n \in Nat,
         b + n <= s.length
  PROVE  /\ Carries(Erase(s, b, n), SubSeq(t, 1, b) \o SubSeq(t, b + n + 1, Len(t)))
         /\ Ended(Erase(s, b, n))
<1> DEFINE tail == SubSeq(t, b + n + 1, Len(t))
           p == Put(s, b, tail)
           q == Shift(p, - n)
           v == SubSeq(t, 1, b) \o tail
<1>1. /\ Sizes(s) /\ s.length \in Nat /\ s.reserved \in Nat /\ s.alloc \in Nat
      /\ s.length + s.reserved + 1 <= s.alloc
  BY DEF Sound, Sizes
<1>2. /\ t \in Seq(Byte) /\ s.length = Len(t) /\ DOMAIN s.cells = 0 .. s.alloc - 1
      /\ \A i \in 0 .. Len(t) - 1 : s.cells[i] = t[i + 1]
  BY DEF Carries
<1>3. Text(s) = t
  BY CarriesText
<1>4. /\ tail \in Seq(Byte) /\ Len(tail) = Len(t) - (b + n)
      /\ \A j \in 1 .. Len(tail) : tail[j] = t[b + n + j]
  <2>1. b + n + 1 \in 1 .. Len(t) + 1 /\ b + n + 1 \in Nat
    BY <1>1, <1>2
  <2> QED BY <1>2, <2>1
<1>5. /\ v \in Seq(Byte) /\ Len(v) = Len(t) - n /\ \A j \in 1 .. b : v[j] = t[j]
      /\ \A j \in 1 .. Len(tail) : v[b + j] = tail[j]
  <2> DEFINE h == SubSeq(t, 1, b)
  <2>1. /\ h \in Seq(Byte) /\ Len(h) = b /\ \A j \in 1 .. b : h[j] = t[j]
    <3>1. b \in 0 .. Len(t)
      BY <1>1, <1>2
    <3> QED BY <1>2, <3>1
  <2> HIDE DEF h, tail
  <2>2. /\ h \o tail \in Seq(Byte) /\ Len(h \o tail) = Len(h) + Len(tail)
        /\ \A j \in 1 .. Len(h) : (h \o tail)[j] = h[j]
        /\ \A j \in 1 .. Len(tail) : (h \o tail)[Len(h) + j] = tail[j]
    BY <1>4, <2>1
  <2>3. v = h \o tail
    BY DEF h
  <2> HIDE DEF v
  <2>4. Len(v) = Len(t) - n
    <3>1. Len(v) = Len(h) + Len(tail) /\ Len(h) = b /\ Len(tail) = Len(t) - (b + n)
      BY <1>4, <2>1, <2>2, <2>3
    <3>2. b \in Nat /\ n \in Nat /\ Len(t) \in Nat
      BY <1>2
    <3> HIDE DEF h
    <3> QED BY <3>1, <3>2
  <2> QED BY <2>1, <2>2, <2>3, <2>4
<1>6. Erase(s, b, n) = Terminate(q)
  BY <1>2, <1>3 DEF Erase
<1> HIDE DEF v, tail
<1>7. Len(tail) \in Nat /\ b + Len(tail) <= s.alloc
  BY <1>1, <1>2, <1>4
<1>8. Sizes(p) /\ p.alloc = s.alloc /\ p.length = s.length /\ p.reserved = s.reserved /\ p.wild = s.wild
  BY <1>1, <1>7, PutSizes
<1>9. p.cells = Written(s.cells, b, tail)
  BY <1>1, PutCells
<1> HIDE DEF p
<1>10. /\ Sizes(q) /\ q.alloc = s.alloc /\ q.length = s.length - n /\ q.cells = Written(s.cells, b, tail)
  <2>1. /\ - n \in Int /\ p.length + (- n) = s.length - n /\ p.reserved - (- n) = s.reserved + n
        /\ p.length + (- n) \in Nat /\ p.reserved - (- n) \in Nat
    BY <1>1, <1>8
  <2>2. Sizes(q) /\ q.alloc = p.alloc /\ q.length = p.length + (- n)
    BY <1>8, <2>1, ShiftSizes
  <2> QED BY <1>8, <1>9, <2>1, <2>2, ShiftCells
<1> HIDE DEF q
<1>11. DOMAIN q.cells = 0 .. q.alloc - 1
  BY <1>2, <1>10, WrittenAt
<1>12. ASSUME NEW i \in 0 .. Len(v) - 1 PROVE q.cells[i] = v[i + 1]
  <2>1. i \in 0 .. s.alloc - 1 /\ i < Len(t) - n /\ i \in Nat
    BY <1>1, <1>2, <1>5
  <2>2. q.cells[i] = IF i \in b .. b + Len(tail) - 1 THEN tail[i - b + 1] ELSE s.cells[i]
    <3> DEFINE k == s.alloc
               m == s.cells
    <3>1. DOMAIN m = 0 .. k - 1 /\ q.cells = Written(m, b, tail) /\ i \in 0 .. k - 1
      BY <1>2, <1>10, <2>1
    <3> HIDE DEF m, k
    <3>2. q.cells[i] = IF i \in b .. b + Len(tail) - 1 THEN tail[i - b + 1] ELSE m[i]
      BY <3>1 DEF Written
    <3> QED BY <3>2 DEF m
  <2>3. CASE i < b
    <3>1. i \notin b .. b + Len(tail) - 1 /\ i \in 0 .. Len(t) - 1 /\ i + 1 \in 1 .. b
      BY <1>1, <1>2, <2>1, <2>3
    <3>2. v[i + 1] = t[i + 1]
      BY <1>5, <3>1
    <3> QED BY <1>2, <2>2, <3>1, <3>2
  <2>4. CASE i >= b
    <3> DEFINE j == i - b + 1
    <3>1. i \in b .. b + Len(tail) - 1 /\ j \in 1 .. Len(tail) /\ b + j = i + 1
      BY <1>1, <1>2, <1>4, <2>1, <2>4
    <3>2. q.cells[i] = tail[j]
      BY <2>2, <3>1
    <3> HIDE DEF j
    <3>3. v[b + j] = tail[j]
      BY <1>5, <3>1
    <3> QED BY <3>1, <3>2, <3>3
  <2> QED BY <2>1, <2>3, <2>4
<1>13. q.length = Len(v) /\ q.length + 1 <= q.alloc
  BY <1>1, <1>2, <1>5, <1>10
<1>14. Carries(q, v)
  BY <1>5, <1>11, <1>12, <1>13 DEF Carries
<1>15. Carries(Terminate(q), v) /\ Ended(Terminate(q))
  BY <1>10, <1>13, <1>14, TerminateCarries
<1> QED BY <1>6, <1>15 DEF v, tail

(* The length is adjusted: to a shorter text, or over bytes of the reserve *)
(* that hold the new text already.                                         *)
LEMMA AdjustCarries ==
  ASSUME NEW s, Sound(s), NEW n \in Int, ~ AdjustThrows(s, n), DOMAIN s.cells = 0 .. s.alloc - 1,
         NEW v \in Seq(Byte), Len(v) = s.length + n,
         \A i \in 0 .. Len(v) - 1 : s.cells[i] = v[i + 1]
  PROVE  Carries(AdjustLength(s, n), v) /\ (n # 0 => Ended(AdjustLength(s, n)))
<1>1. s.length \in Nat /\ s.reserved \in Nat /\ s.alloc \in Nat /\ Sizes(s)
  BY DEF Sound, Sizes
<1>2. CASE n = 0
  BY <1>1, <1>2 DEF AdjustLength, Carries
<1>3. CASE n # 0
  <2> DEFINE q == Shift(s, n)
  <2>1. s.length + n >= 0 /\ s.reserved - n >= 0
    BY <1>1 DEF AdjustThrows
  <2>2. /\ Sound(q) /\ q.length = s.length + n /\ q.alloc = s.alloc /\ q.cells = s.cells
    BY <1>1, <2>1, ShiftSound, ShiftCells
  <2>3. s.length + s.reserved + 1 <= s.alloc
    BY <1>1, <1>3, <2>1 DEF Sound
  <2>4. AdjustLength(s, n) = Terminate(q)
    BY <1>3 DEF AdjustLength
  <2> HIDE DEF q
  <2>5. q.length + 1 <= q.alloc /\ Sizes(q)
    BY <1>1, <2>1, <2>2, <2>3 DEF Sound
  <2>6. Carries(q, v)
    BY <2>2 DEF Carries
  <2> QED BY <2>4, <2>5, <2>6, TerminateCarries
<1> QED BY <1>2, <1>3

-----------------------------------------------------------------------------
(* What the constructors put into the block.                               *)
LEMMA WithRoomCarries ==
  ASSUME NEW n \in Nat
  PROVE  Carries(WithRoom(n), << >>) /\ Ended(WithRoom(n))
<1> DEFINE m == Malloc(n + 1)
           k == n + 1
           s == [alloc |-> k, cells |-> m, length |-> 0, reserved |-> n, wild |-> 0]
<1>0. << >> \in Seq(Byte) /\ Len(<< >>) = 0
  OBVIOUS
<1>1. k \in Nat /\ k >= 1 /\ DOMAIN m = 0 .. k - 1
  BY DEF Malloc
<1>2. WithRoom(n) = Terminate(s)
  BY DEF WithRoom
<1> HIDE DEF m, k
<1>3. /\ Sizes(s) /\ s.alloc = k /\ s.length = 0 /\ s.cells = m
  BY <1>1 DEF Sizes
<1> HIDE DEF s
<1>4. s.length + 1 <= s.alloc /\ Carries(s, << >>)
  BY <1>0, <1>1, <1>3 DEF Carries
<1> QED BY <1>2, <1>3, <1>4, TerminateCarries

LEMMA CopyCarries ==
  ASSUME NEW t \in Seq(Byte)
  PROVE  Carries(CopyOf(t), t) /\ Ended(CopyOf(t))
<1> DEFINE l == Len(t)
           m == Malloc(l + 1)
           k == l + 1
           s == [alloc |-> k, cells |-> m, length |-> l, reserved |-> 0, wild |-> 0]
           x == Append(t, NUL)
           p == Put(s, 0, x)
<1>1. l \in Nat /\ k \in Nat /\ k = l + 1 /\ DOMAIN m = 0 .. k - 1 /\ Len(x) = k
  BY TerminatedLength DEF Malloc
<1>2. x[k] = NUL /\ \A j \in 1 .. l : x[j] = t[j]
  <2>1. t \in Seq(Byte \cup {NUL}) /\ NUL \in Byte \cup {NUL}
    OBVIOUS
  <2> QED BY <2>1
<1>3. CopyOf(t) = p
  BY DEF CopyOf
<1> HIDE DEF l, m, k, x
<1>4. /\ Sizes(s) /\ s.alloc = k /\ s.length = l /\ s.cells = m
  BY <1>1 DEF Sizes
<1> HIDE DEF s
<1>5. Len(x) \in Nat /\ Len(x) <= s.alloc
  BY <1>1, <1>4
<1>6. p.alloc = k /\ p.length = l /\ p.cells = Written(m, 0, x)
  BY <1>4, <1>5, PutFirst, PutCells
<1> HIDE DEF p
<1>7. DOMAIN p.cells = 0 .. p.alloc - 1
  BY <1>1, <1>6 DEF Written
<1>8. ASSUME NEW i \in 0 .. l PROVE p.cells[i] = x[i + 1]
  <2>1. i \in 0 .. k - 1 /\ i \in 0 .. 0 + Len(x) - 1 /\ i - 0 + 1 = i + 1
    BY <1>1
  <2> QED BY <1>1, <1>6, <2>1 DEF Written
<1>9. ASSUME NEW i \in 0 .. l - 1 PROVE p.cells[i] = t[i + 1]
  <2>1. i \in 0 .. l /\ i + 1 \in 1 .. l
    BY <1>1
  <2> QED BY <1>2, <1>8, <2>1
<1>10. p.cells[p.length] = NUL
  BY <1>1, <1>2, <1>6, <1>8
<1> QED BY <1>3, <1>6, <1>7, <1>9, <1>10 DEF Carries, Ended, l

TextInv == Carries(str, text)

LEMMA InitText ==
  ASSUME Init
  PROVE  TextInv
<1>0. << >> \in Seq(Byte) /\ Len(<< >>) = 0 /\ BufferLength \in Nat
  BY UseAssumption
<1>1. CASE str = NoBlock /\ text = << >>
  <2>1. str.cells = [i \in 0 .. 0 - 1 |-> Junk] /\ str.alloc = 0 /\ str.length = 0
    BY <1>1 DEF NoBlock, Malloc
  <2> QED BY <1>0, <1>1, <2>1 DEF TextInv, Carries
<1>2. ASSUME NEW n \in {0, BufferLength}, str = WithRoom(n), text = << >>
      PROVE  TextInv
  BY <1>0, <1>2, WithRoomCarries DEF TextInv
<1>3. ASSUME NEW t \in Args, str = CopyOf(t), text = t
      PROVE  TextInv
  BY <1>3, ArgSeq, CopyCarries DEF TextInv
<1> QED BY <1>1, <1>2, <1>3 DEF Init

(* EventRead: what recv() writes behind the text becomes text.             *)
LEMMA ReadRoomCarries ==
  ASSUME NEW s, Sound(s), s.length <= MaxText, s.length + s.reserved <= Bound,
         NEW t, Carries(s, t)
  PROVE  Carries(ReserveForRead(s), t) /\ (ReserveForRead(s) = s \/ Ended(ReserveForRead(s)))
<1>1. /\ s.length \in Nat /\ s.reserved \in Nat /\ s.alloc \in Nat
      /\ BufferLength \in Nat /\ BufferLength > 0 /\ MaxText \in Nat /\ MaxArg \in Nat
      /\ SizeMax \in Nat /\ 2 * (MaxText + MaxArg + BufferLength) < SizeMax
      /\ s.length + s.reserved <= MaxText + MaxArg + BufferLength
  BY UseAssumption, SizeAssumption DEF Sound, Sizes, Bound
<1>2. CASE s.reserved >= BufferLength + s.length
  BY <1>1, <1>2 DEF ReserveForRead
<1>3. CASE s.reserved < BufferLength + s.length
  <2> DEFINE len == Minus(BufferLength, s.reserved)
  <2>1. Plus(s.reserved, len) = BufferLength
    BY <1>1 DEF Plus, Minus
  <2>2. Plus(s.length, s.reserved) = s.length + s.reserved
    BY <1>1 DEF Plus
  <2>3. Plus(s.length + s.reserved, len) = s.length + BufferLength
    BY <1>1 DEF Plus, Minus
  <2>4. Plus(s.length + BufferLength, 1) = s.length + BufferLength + 1
    BY <1>1 DEF Plus
  <2>5. ReserveForRead(s) = Reserve(s, len)
    BY <1>3 DEF ReserveForRead
  <2>6. Plus(Plus(Plus(s.length, s.reserved), len), 1) = s.length + BufferLength + 1
    BY <2>2, <2>3, <2>4
  <2> HIDE DEF len
  <2> QED BY <1>1, <2>1, <2>5, <2>6, ReserveCarries
<1> QED BY <1>1, <1>2, <1>3

LEMMA JoinShape ==
  ASSUME NEW a \in Seq(Byte), NEW b \in Seq(Byte)
  PROVE  /\ a \o b \in Seq(Byte) /\ Len(a \o b) = Len(a) + Len(b)
         /\ \A j \in 1 .. Len(a) : (a \o b)[j] = a[j]
         /\ \A j \in 1 .. Len(b) : (a \o b)[Len(a) + j] = b[j]
<1>1. a \o b \in Seq(Byte) /\ Len(a \o b) = Len(a) + Len(b)
  OBVIOUS
<1>2. \A j \in 1 .. Len(a) : (a \o b)[j] = a[j]
  OBVIOUS
<1>3. \A j \in 1 .. Len(b) : (a \o b)[Len(a) + j] = b[j]
  OBVIOUS
<1> QED BY <1>1, <1>2, <1>3

(* The same bytes, the same block.                                         *)
SameBytes(s, q) ==
  /\ q.alloc = s.alloc /\ q.length = s.length
  /\ \A i \in 0 .. s.alloc - 1 : q.cells[i] = s.cells[i]

(* The bytes end the text again, unless nothing was read.                  *)
LEMMA ReadText ==
  ASSUME IInv, TextInv, DoEventRead
  PROVE  /\ TextInv'
         /\ \/ Ended(str)' /\ ~ stale'
            \/ SameBytes(str, str') /\ text' = text /\ (stale' <=> stale)
<1> DEFINE r == ReserveForRead(str)
<1>1. PICK n \in 0 .. BufferLength : \E t \in [1 .. n -> Chars] :
         /\ ~ AdjustThrows(r, Len(t)) /\ text' = text \o t
         /\ str' = AdjustLength(Put(r, r.length, t), Len(t))
         /\ stale' = (stale /\ r = str /\ t = << >>)
  BY DEF DoEventRead
<1>2. PICK t \in [1 .. n -> Chars] :
         /\ ~ AdjustThrows(r, Len(t)) /\ text' = text \o t
         /\ str' = AdjustLength(Put(r, r.length, t), Len(t))
         /\ stale' = (stale /\ r = str /\ t = << >>)
  BY <1>1
<1>3. n \in Nat /\ n <= BufferLength /\ BufferLength \in Nat
  BY Limits
<1>4. Len(t) = n /\ t \in Seq(Byte)
  BY <1>3, ArgLength
<1>5. /\ Sound(r) /\ r.length = str.length /\ BufferLength <= r.reserved
      /\ r.length + BufferLength + 1 <= r.alloc /\ Carries(r, text)
      /\ (r = str \/ Ended(r))
  BY ReadRoom, ReadRoomCarries DEF IInv, TextInv
<1> DEFINE q == Put(r, r.length, t)
           v == text \o t
<1> HIDE DEF r
<1>6. r.length \in Nat /\ r.reserved \in Nat /\ r.alloc \in Nat /\ Sizes(r) /\ r.wild = 0
  BY <1>5 DEF Sound, Sizes
<1>7. /\ text \in Seq(Byte) /\ r.length = Len(text) /\ Len(text) \in Nat
      /\ DOMAIN r.cells = 0 .. r.alloc - 1 /\ \A i \in 0 .. Len(text) - 1 : r.cells[i] = text[i + 1]
  BY <1>5 DEF Carries
<1>8. /\ v \in Seq(Byte) /\ Len(v) = Len(text) + n
      /\ \A j \in 1 .. Len(text) : v[j] = text[j]
      /\ \A j \in 1 .. n : v[Len(text) + j] = t[j]
  BY <1>4, <1>7, JoinShape
<1>9. Len(t) \in Nat /\ r.length + Len(t) <= r.alloc
  BY <1>3, <1>4, <1>5, <1>6
<1>10. /\ Sizes(q) /\ q.alloc = r.alloc /\ q.length = r.length /\ q.reserved = r.reserved
       /\ q.wild = 0 /\ q.cells = Written(r.cells, r.length, t)
  BY <1>6, <1>9, PutSizes, PutCells
<1>11. Sound(q) /\ ~ AdjustThrows(q, Len(t))
  BY <1>2, <1>5, <1>6, <1>10 DEF Sound, AdjustThrows
<1>12. str' = AdjustLength(q, Len(t))
  BY <1>2
<1>13. text' = v
  BY <1>2
<1> HIDE DEF q, v
<1>14. DOMAIN q.cells = 0 .. q.alloc - 1
  BY <1>7, <1>10 DEF Written
<1>15. ASSUME NEW i \in 0 .. Len(v) - 1 PROVE q.cells[i] = v[i + 1]
  <2>1. i \in 0 .. r.alloc - 1
    BY <1>3, <1>5, <1>6, <1>7, <1>8
  <2>2. q.cells[i] = IF i \in r.length .. r.length + Len(t) - 1 THEN t[i - r.length + 1] ELSE r.cells[i]
    <3> DEFINE k == r.alloc
               m == r.cells
               a == r.length
    <3>1. DOMAIN m = 0 .. k - 1 /\ q.cells = Written(m, a, t) /\ i \in 0 .. k - 1
      BY <1>7, <1>10, <2>1
    <3> HIDE DEF m, k, a
    <3>2. q.cells[i] = IF i \in a .. a + Len(t) - 1 THEN t[i - a + 1] ELSE m[i]
      BY <3>1 DEF Written
    <3> QED BY <3>2 DEF m, a
  <2>3. CASE i < Len(text)
    <3>1. i \notin r.length .. r.length + Len(t) - 1 /\ i \in 0 .. Len(text) - 1 /\ i + 1 \in 1 .. Len(text)
      BY <1>7, <2>3
    <3> QED BY <1>7, <1>8, <2>2, <3>1
  <2>4. CASE i >= Len(text)
    <3> DEFINE j == i - Len(text) + 1
    <3>1. /\ i \in r.length .. r.length + Len(t) - 1 /\ j \in 1 .. n /\ i - r.length + 1 = j
          /\ i + 1 = Len(text) + j
      BY <1>3, <1>4, <1>7, <1>8, <2>4
    <3> HIDE DEF j
    <3>2. q.cells[i] = t[j]
      BY <2>2, <3>1
    <3>3. v[Len(text) + j] = t[j]
      BY <1>8, <3>1
    <3> QED BY <3>1, <3>2, <3>3
  <2> QED BY <1>7, <1>8, <2>3, <2>4
<1>16. Len(t) \in Int /\ Len(v) = q.length + Len(t)
  BY <1>3, <1>4, <1>7, <1>8, <1>10
<1>17. /\ Carries(AdjustLength(q, Len(t)), v)
       /\ Len(t) # 0 => Ended(AdjustLength(q, Len(t)))
  BY <1>8, <1>11, <1>14, <1>15, <1>16, AdjustCarries
<1>18. TextInv'
  BY <1>12, <1>13, <1>17 DEF TextInv
<1>19. CASE t # << >>
  <2>1. Len(t) # 0
    BY <1>3, <1>4, <1>19
  <2> QED BY <1>2, <1>12, <1>17, <1>18, <1>19, <2>1
<1>20. CASE t = << >>
  <2>1. str' = q /\ Len(t) = 0
    BY <1>12, <1>20 DEF AdjustLength
  <2>2. SameBytes(r, q)
    <3> DEFINE k == r.alloc
               m == r.cells
               a == r.length
    <3>1. /\ DOMAIN m = 0 .. k - 1 /\ q.cells = Written(m, a, t) /\ a \in Nat
          /\ a .. a + Len(t) - 1 = {}
      BY <1>6, <1>7, <1>10, <2>1
    <3> HIDE DEF m, k, a
    <3>2. \A i \in 0 .. k - 1 : q.cells[i] = m[i]
      BY <3>1 DEF Written
    <3> QED BY <1>10, <3>2 DEF SameBytes, m, k
  <2>3. text' = text
    BY <1>2, <1>7, <1>20
  <2>4. CASE r = str
    BY <1>2, <1>18, <1>20, <2>1, <2>2, <2>3, <2>4
  <2>5. CASE r # str
    <3>1. r.length \in 0 .. r.alloc - 1 /\ Ended(r)
      BY <1>3, <1>5, <1>6, <2>5
    <3>2. Ended(q)
      BY <2>2, <3>1 DEF Ended, SameBytes
    <3> QED BY <1>2, <1>18, <2>1, <2>5, <3>2
  <2> QED BY <2>4, <2>5
<1> QED BY <1>19, <1>20

LEMMA ShrinkText ==
  ASSUME IInv, TextInv, DoShrink
  PROVE  TextInv' /\ Ended(str)'
<1>1. PICK n \in 1 .. MaxText :
        /\ ~ AdjustThrows(str, -n) /\ str' = AdjustLength(str, -n)
        /\ text' = SubSeq(text, 1, Len(text) - n)
  BY DEF DoShrink
<1>2. n \in Nat /\ n > 0 /\ -n \in Int /\ n <= str.length /\ str.length \in Nat
  BY <1>1, Limits DEF AdjustThrows
<1>3. /\ text \in Seq(Byte) /\ str.length = Len(text)
      /\ DOMAIN str.cells = 0 .. str.alloc - 1
      /\ \A i \in 0 .. Len(text) - 1 : str.cells[i] = text[i + 1]
  BY DEF TextInv, Carries
<1> DEFINE v == SubSeq(text, 1, Len(text) - n)
<1>4. v \in Seq(Byte) /\ Len(v) = Len(text) - n /\ \A j \in 1 .. Len(v) : v[j] = text[j]
  <2>1. Len(text) - n \in 0 .. Len(text)
    BY <1>2, <1>3
  <2> QED BY <1>3, <2>1
<1> HIDE DEF v
<1>5. ASSUME NEW i \in 0 .. Len(v) - 1 PROVE str.cells[i] = v[i + 1]
  <2>1. i \in 0 .. Len(text) - 1 /\ i + 1 \in 1 .. Len(v)
    BY <1>2, <1>3, <1>4
  <2> QED BY <1>3, <1>4, <2>1
<1>6. Len(v) = str.length + (-n)
  BY <1>2, <1>3, <1>4
<1>7. Carries(AdjustLength(str, -n), v) /\ Ended(AdjustLength(str, -n))
  <2>1. -n # 0
    BY <1>2
  <2> QED BY <1>1, <1>2, <1>3, <1>4, <1>5, <1>6, <2>1, AdjustCarries DEF IInv
<1> QED BY <1>1, <1>7 DEF TextInv, v

LEMMA TextStays ==
  ASSUME IInv, TextInv, [Next]_vars
  PROVE  TextInv'
<1>0. text \in Seq(Byte) /\ str.length = Len(text)
  BY DEF TextInv, Carries
<1>1. CASE DoReserve
  <2>1. PICK n \in 0 .. MaxArg :
          str.length + str.reserved + n <= Bound /\ str' = Reserve(str, n) /\ text' = text
    BY <1>1 DEF DoReserve, Bound
  <2>2. n \in Nat /\ str.reserved + n \in Nat
    BY Limits
  <2>3. Plus(str.reserved, n) = str.reserved + n
    BY <2>1, <2>2, Limits DEF Plus
  <2>4. Plus(Plus(Plus(str.length, str.reserved), n), 1) = str.length + (str.reserved + n) + 1
    BY <2>1, <2>2, Limits DEF Plus
  <2> QED BY <2>1, <2>2, <2>3, <2>4, ReserveCarries DEF IInv, TextInv
<1>2. CASE DoAppend
  <2>1. PICK t \in Args : Fits(Len(t)) /\ str' = AppendText(str, t) /\ text' = text \o t
    BY <1>2 DEF DoAppend
  <2>2. t \in Seq(Byte) /\ str.length + Len(t) + 1 <= SizeMax
    BY <2>1, ArgSeq, Limits DEF Fits
  <2> QED BY <2>1, <2>2, AppendCarries DEF IInv, TextInv
<1>3. CASE DoAppendChar
  <2>1. PICK ch \in Chars :
          Fits(1) /\ str' = AppendText(str, <<ch>>) /\ text' = Append(text, ch)
    BY <1>3 DEF DoAppendChar, AppendChar
  <2>2. <<ch>> \in Seq(Byte) /\ Len(<<ch>>) = 1 /\ Append(text, ch) = text \o <<ch>>
    BY <1>0, CharByte
  <2>3. str.length + Len(<<ch>>) + 1 <= SizeMax
    BY <2>1, <2>2, Limits DEF Fits
  <2>4. Carries(AppendText(str, <<ch>>), text \o <<ch>>)
    BY <2>2, <2>3, AppendCarries DEF IInv, TextInv
  <2> QED BY <2>1, <2>2, <2>4 DEF TextInv
<1>4. CASE DoAssign
  <2>1. PICK t \in Args : Len(t) <= MaxText /\ str' = Assign(str, t) /\ text' = t
    BY <1>4 DEF DoAssign
  <2>2. t \in Seq(Byte) /\ Len(t) + 1 <= SizeMax
    BY <2>1, ArgSeq, Limits
  <2> QED BY <2>1, <2>2, AssignCarries DEF IInv, TextInv
<1>5. CASE DoErase
  <2>1. PICK begin \in 0 .. MaxText, len \in 0 .. MaxText :
          /\ ~ EraseThrows(str, begin, len) /\ str.alloc > 0 /\ str' = Erase(str, begin, len)
          /\ text' = SubSeq(text, 1, begin) \o SubSeq(text, begin + len + 1, Len(text))
    BY <1>5 DEF DoErase
  <2>2. begin \in Nat /\ len \in Nat /\ begin + len <= str.length
    BY <2>1, Limits DEF EraseThrows
  <2> QED BY <2>1, <2>2, EraseCarries DEF IInv, TextInv
<1>6. CASE DoClear
  BY <1>6, ClearCarries DEF IInv, TextInv, DoClear
<1>7. CASE DoShrink
  BY <1>7, ShrinkText
<1>8. CASE DoEventRead
  BY <1>8, ReadText
<1>9. CASE UNCHANGED vars
  BY <1>9 DEF vars, TextInv
<1> QED BY <1>1, <1>2, <1>3, <1>4, <1>5, <1>6, <1>7, <1>8, <1>9 DEF Next

-----------------------------------------------------------------------------
(* What C functions see.  A string whose block ends where its text ends    *)
(* keeps that under every operation but the assignment of an empty text;   *)
(* then the old terminator is still somewhere in the block.                *)
Closed(s) == \E i \in 0 .. s.alloc - 1 : s.cells[i] = NUL

EndInv ==
  /\ str.alloc > 0 => Closed(str)
  /\ str.alloc > 0 /\ ~ stale => Ended(str)
  /\ stale => text = << >>

LEMMA EndedCloses ==
  ASSUME NEW s, Sound(s), Ended(s), s.alloc > 0
  PROVE  Closed(s)
<1>1. s.length \in 0 .. s.alloc - 1
  BY DEF Sound, Sizes
<1> QED BY <1>1 DEF Ended, Closed

(* A step that ends the string restores everything.                        *)
LEMMA EndsAgain ==
  ASSUME IInv', Ended(str)', stale' => text' = << >>
  PROVE  EndInv'
<1> QED BY EndedCloses DEF EndInv, IInv

LEMMA InitEnd ==
  ASSUME Init
  PROVE  EndInv
<1>0. BufferLength \in Nat /\ stale = FALSE /\ IInv
  BY UseAssumption, InitInv DEF Init
<1>1. CASE str = NoBlock
  <2>1. str.alloc = 0
    BY <1>1 DEF NoBlock
  <2> QED BY <1>0, <2>1 DEF EndInv
<1>2. ASSUME NEW n \in {0, BufferLength}, str = WithRoom(n) PROVE EndInv
  <2>1. Ended(str)
    BY <1>0, <1>2, WithRoomCarries
  <2> QED BY <1>0, <2>1, EndedCloses DEF EndInv, IInv
<1>3. ASSUME NEW t \in Args, str = CopyOf(t) PROVE EndInv
  <2>1. Ended(str)
    BY <1>3, ArgSeq, CopyCarries
  <2> QED BY <1>0, <2>1, EndedCloses DEF EndInv, IInv
<1> QED BY <1>1, <1>2, <1>3 DEF Init

LEMMA ReserveEnd ==
  ASSUME IInv, TextInv, EndInv, DoReserve
  PROVE  EndInv'
<1>1. PICK n \in 0 .. MaxArg : str.length + str.reserved + n <= Bound /\ str' = Reserve(str, n)
  BY DEF DoReserve, Bound
<1>2. n \in Nat /\ str.reserved + n \in Nat
  BY Limits
<1>3. Plus(str.reserved, n) = str.reserved + n
  BY <1>1, <1>2, Limits DEF Plus
<1>4. Plus(Plus(Plus(str.length, str.reserved), n), 1) = str.length + (str.reserved + n) + 1
  BY <1>1, <1>2, Limits DEF Plus
<1>5. Ended(Reserve(str, n))
  BY <1>2, <1>3, <1>4, ReserveCarries DEF IInv, TextInv
<1>6. Ended(str)'
  BY <1>1, <1>5
<1> QED BY <1>6, ReserveStep, EndsAgain DEF DoReserve

LEMMA AppendEnd ==
  ASSUME IInv, TextInv, EndInv, DoAppend, IInv'
  PROVE  EndInv'
<1>1. PICK t \in Args : /\ Fits(Len(t)) /\ str' = AppendText(str, t) /\ text' = text \o t
                        /\ stale' = (stale /\ t = << >>)
  BY DEF DoAppend
<1>2. t \in Seq(Byte) /\ str.length + Len(t) + 1 <= SizeMax
  BY <1>1, ArgSeq, Limits DEF Fits
<1>3. CASE t = << >>
  <2>1. str' = str
    BY <1>1, <1>3 DEF AppendText
  <2>2. text' = text /\ (stale' <=> stale)
    <3>1. text \in Seq(Byte)
      BY DEF TextInv, Carries
    <3>2. text \o t = text
      BY <1>3, <3>1
    <3> QED BY <1>1, <1>3, <3>2
  <2> QED BY <2>1, <2>2 DEF EndInv
<1>4. CASE t # << >>
  <2>1. Ended(AppendText(str, t))
    BY <1>2, <1>4, AppendCarries DEF IInv, TextInv
  <2>2. Ended(str)'
    BY <1>1, <2>1
  <2>3. ~ stale'
    BY <1>1, <1>4
  <2> QED BY <2>2, <2>3, EndsAgain
<1> QED BY <1>3, <1>4

LEMMA AppendCharEnd ==
  ASSUME IInv, TextInv, EndInv, DoAppendChar, IInv'
  PROVE  EndInv'
<1>1. PICK ch \in Chars : Fits(1) /\ str' = AppendText(str, <<ch>>)
  BY DEF DoAppendChar, AppendChar
<1>2. <<ch>> \in Seq(Byte) /\ Len(<<ch>>) = 1 /\ <<ch>> # << >>
  BY CharByte
<1>3. str.length + Len(<<ch>>) + 1 <= SizeMax
  BY <1>1, <1>2, Limits DEF Fits
<1>4. Ended(AppendText(str, <<ch>>))
  BY <1>2, <1>3, AppendCarries DEF IInv, TextInv
<1>5. Ended(str)'
  BY <1>1, <1>4
<1> QED BY <1>5, EndsAgain DEF DoAppendChar

(* An empty text leaves the bytes; they end the string only if it was      *)
(* empty before.                                                           *)
LEMMA AssignEnd ==
  ASSUME IInv, TextInv, EndInv, DoAssign, IInv'
  PROVE  EndInv'
<1>1. PICK t \in Args : /\ Len(t) <= MaxText /\ str' = Assign(str, t) /\ text' = t
                        /\ stale' = (t = << >> /\ (stale \/ text # << >>))
  BY DEF DoAssign
<1>2. t \in Seq(Byte) /\ Len(t) + 1 <= SizeMax
  BY <1>1, ArgSeq, Limits
<1>3. CASE t # << >>
  <2>1. Ended(Assign(str, t))
    BY <1>2, <1>3, AssignCarries DEF IInv, TextInv
  <2>2. Ended(str)'
    BY <1>1, <2>1
  <2> QED BY <1>1, <1>3, <2>2, EndsAgain
<1>4. CASE t = << >>
  <2> DEFINE e == Shift(str, - str.length)
  <2>1. str' = e
    BY <1>1, <1>4 DEF Assign, AppendText
  <2>2. Sizes(str) /\ str.length \in Nat /\ str.reserved \in Nat
    BY Limits DEF IInv, Sound
  <2>3. /\ - str.length \in Int /\ str.length + (- str.length) = 0
        /\ str.length + (- str.length) \in Nat /\ str.reserved - (- str.length) \in Nat
    BY <2>2
  <2>4. e.alloc = str.alloc /\ e.cells = str.cells /\ e.length = 0
    BY <2>2, <2>3, ShiftSizes, ShiftCells
  <2> HIDE DEF e
  <2>5. text' = << >>
    BY <1>1, <1>4
  <2>6. str.alloc > 0 => Closed(e)
    BY <2>4 DEF EndInv, Closed
  <2>7. ASSUME ~ stale', str.alloc > 0 PROVE Ended(e)
    <3>1. ~ stale /\ text = << >>
      BY <1>1, <1>4, <2>7
    <3>2. str.length = 0
      BY <3>1 DEF TextInv, Carries
    <3> QED BY <2>4, <2>7, <3>1, <3>2 DEF EndInv, Ended
  <2> QED BY <2>1, <2>4, <2>5, <2>6, <2>7 DEF EndInv
<1> QED BY <1>3, <1>4

LEMMA EraseEnd ==
  ASSUME IInv, TextInv, EndInv, DoErase, IInv'
  PROVE  EndInv'
<1>1. PICK begin \in 0 .. MaxText, len \in 0 .. MaxText :
        ~ EraseThrows(str, begin, len) /\ str.alloc > 0 /\ str' = Erase(str, begin, len)
  BY DEF DoErase
<1>2. begin \in Nat /\ len \in Nat /\ begin + len <= str.length
  BY <1>1, Limits DEF EraseThrows
<1>3. Ended(Erase(str, begin, len))
  BY <1>1, <1>2, EraseCarries DEF IInv, TextInv
<1>4. Ended(str)'
  BY <1>1, <1>3
<1> QED BY <1>4, EndsAgain DEF DoErase

LEMMA ClearEnd ==
  ASSUME IInv, TextInv, EndInv, DoClear, IInv'
  PROVE  EndInv'
<1>1. str' = Clear(str) /\ text' = << >> /\ (stale' <=> stale)
  BY DEF DoClear
<1>2. CASE str.length = 0
  <2>1. str' = str
    BY <1>1, <1>2 DEF Clear
  <2> QED BY <1>1, <2>1 DEF EndInv
<1>3. CASE str.length # 0
  <2>1. Ended(Clear(str))
    BY <1>3, ClearCarries DEF IInv, TextInv
  <2>2. Ended(str)'
    BY <1>1, <2>1
  <2> QED BY <1>1, <2>2, EndsAgain
<1> QED BY <1>2, <1>3

LEMMA ReadEnd ==
  ASSUME IInv, TextInv, EndInv, DoEventRead, IInv'
  PROVE  EndInv'
<1>1. CASE Ended(str)' /\ ~ stale'
  BY <1>1, EndsAgain
<1>2. CASE SameBytes(str, str') /\ text' = text /\ (stale' <=> stale)
  <2>1. str.alloc > 0 => str.length \in 0 .. str.alloc - 1
    BY DEF IInv, Sound, Sizes
  <2>2. str.alloc > 0 => Closed(str')
    BY <1>2 DEF EndInv, Closed, SameBytes
  <2>3. str.alloc > 0 /\ ~ stale => Ended(str')
    BY <1>2, <2>1 DEF EndInv, Ended, SameBytes
  <2> QED BY <1>2, <2>2, <2>3 DEF EndInv, SameBytes
<1> QED BY <1>1, <1>2, ReadText

LEMMA EndStays ==
  ASSUME IInv, TextInv, EndInv, [Next]_vars
  PROVE  EndInv'
<1>0. IInv'
  BY NextInv
<1>1. CASE DoReserve
  BY <1>1, ReserveEnd
<1>2. CASE DoAppend
  BY <1>0, <1>2, AppendEnd
<1>3. CASE DoAppendChar
  BY <1>0, <1>3, AppendCharEnd
<1>4. CASE DoAssign
  BY <1>0, <1>4, AssignEnd
<1>5. CASE DoErase
  BY <1>0, <1>5, EraseEnd
<1>6. CASE DoClear
  BY <1>0, <1>6, ClearEnd
<1>7. CASE DoShrink
  <2>1. Ended(str)'
    BY <1>7, ShrinkText
  <2> QED BY <1>0, <1>7, <2>1, EndsAgain DEF DoShrink
<1>8. CASE DoEventRead
  BY <1>0, <1>8, ReadEnd
<1>9. CASE UNCHANGED vars
  BY <1>9 DEF vars, EndInv
<1> QED BY <1>1, <1>2, <1>3, <1>4, <1>5, <1>6, <1>7, <1>8, <1>9 DEF Next

-----------------------------------------------------------------------------
(* Decoding.  The equation of Decoded, for the C string m of e characters: *)
(* what is behind offset p is a character, or an escape, and the rest.     *)
DecodedFrom(m, f, p) ==
  IF m[p] = NUL THEN << >>
  ELSE IF Escape(m, p) THEN <<DecodedChar(m[p + 1], m[p + 2])>> \o f[p + 3]
  ELSE <<m[p]>> \o f[p + 1]

Decodes(m, e, f) == f = [p \in 0 .. e |-> DecodedFrom(m, f, p)]

(* The block m of bytes ends, for C, at e.                                 *)
EndsAt(m, e) ==
  /\ e \in Nat /\ 0 .. e \subseteq DOMAIN m /\ DOMAIN m \subseteq Nat
  /\ m[e] = NUL
  /\ \A i \in 0 .. e - 1 : m[i] \in Byte /\ m[i] # NUL

LEMMA StrLenIs ==
  ASSUME NEW m, NEW e, EndsAt(m, e)
  PROVE  StrLen(m) = e
<1> DEFINE P(n) == m[n] = NUL /\ \A i \in 0 .. n - 1 : m[i] # NUL
<1>1. e \in DOMAIN m /\ P(e)
  BY DEF EndsAt
<1>2. ASSUME NEW n \in DOMAIN m, P(n) PROVE n = e
  <2>1. n \in Nat /\ e \in Nat
    BY DEF EndsAt
  <2>2. ~ n \in 0 .. e - 1
    BY <1>2 DEF EndsAt
  <2>3. ~ e \in 0 .. n - 1
    BY <1>1, <1>2
  <2> QED BY <2>1, <2>2, <2>3
<1>3. StrLen(m) = CHOOSE n \in DOMAIN m : P(n)
  BY DEF StrLen
<1> HIDE DEF P
<1> QED BY <1>1, <1>2, <1>3

(* The pair of digits of an escape is a byte.                              *)
LEMMA DecodedByte ==
  ASSUME NEW a \in Byte, NEW b \in Byte
  PROVE  DecodedChar(a, b) \in Byte
<1>1. ASSUME NEW c \in Byte, IsDigit(c, 16) PROVE Digit(c) \in 0 .. 15
  BY <1>1 DEF IsDigit, Digit, Between, Byte
<1> DEFINE low == IF IsDigit(b, 16) THEN Digit(b) ELSE 0
<1>2. low \in 0 .. 15
  BY <1>1
<1>3. DecodedChar(a, b) = CASE IsDigit(a, 16) /\ IsDigit(b, 16) -> 16 * Digit(a) + low
                            [] IsDigit(a, 16) /\ ~ IsDigit(b, 16) -> Digit(a)
                            [] IsBlank(a) \/ a = 43 -> low
                            [] a = 45 -> (256 - low) % 256
                            [] OTHER -> 0
  BY DEF DecodedChar
<1> HIDE DEF low
<1>4. (256 - low) % 256 \in Byte
  BY <1>2 DEF Byte
<1>5. IsDigit(a, 16) => 16 * Digit(a) + low \in Byte /\ Digit(a) \in Byte
  BY <1>1, <1>2 DEF Byte
<1>6. low \in Byte /\ 0 \in Byte
  BY <1>2 DEF Byte
<1> QED BY <1>3, <1>4, <1>5, <1>6

(* A step of the decoding stays inside the string.                         *)
LEMMA EscapeInside ==
  ASSUME NEW m, NEW e, EndsAt(m, e), NEW p \in 0 .. e - 1
  PROVE  /\ m[p] # NUL /\ m[p] \in Byte /\ p + 1 \in 0 .. e
         /\ Escape(m, p) => p + 3 \in 0 .. e /\ m[p + 1] \in Byte /\ m[p + 2] \in Byte
<1>1. e \in Nat /\ p \in Nat /\ p + 1 \in 0 .. e /\ m[e] = NUL
      /\ \A i \in 0 .. e - 1 : m[i] \in Byte /\ m[i] # NUL
  BY DEF EndsAt
<1>2. ASSUME Escape(m, p) PROVE p + 3 \in 0 .. e /\ m[p + 1] \in Byte /\ m[p + 2] \in Byte
  <2>1. m[p + 1] # NUL /\ m[p + 2] # NUL
    BY <1>2 DEF Escape
  <2>2. p + 1 # e
    BY <1>1, <2>1
  <2>3. p + 2 # e
    BY <1>1, <2>1
  <2>4. p + 1 \in 0 .. e - 1 /\ p + 2 \in 0 .. e - 1 /\ p + 3 \in 0 .. e
    BY <1>1, <2>2, <2>3
  <2> QED BY <1>1, <2>4
<1> QED BY <1>1, <1>2

LEMMA Least ==
  ASSUME NEW S, S \subseteq Nat, S # {}
  PROVE  \E x \in S : \A y \in S : x <= y
<1> DEFINE Below == {p \in Nat \X Nat : p[1] < p[2]}
<1>1. IsWellFoundedOn(Below, Nat)
  BY NatLessThanWellFounded DEF OpToRel
<1>2. PICK x \in S : \A y \in S : <<y, x>> \notin Below
  <2> HIDE DEF Below
  <2> QED BY <1>1, WFMin
<1>3. ASSUME NEW y \in S PROVE x <= y
  <2>1. x \in Nat /\ y \in Nat /\ <<y, x>> \in Nat \X Nat
    BY <1>2
  <2> QED BY <1>2, <2>1
<1> QED BY <1>3

LEMMA Induct ==
  ASSUME NEW S, 0 \in S, \A n \in Nat : n \in S => n + 1 \in S
  PROVE  Nat \subseteq S
<1> DEFINE T == Nat \ S
<1> SUFFICES ASSUME T # {} PROVE FALSE
  OBVIOUS
<1>1. PICK x \in T : \A y \in T : x <= y
  <2> T \subseteq Nat
    OBVIOUS
  <2> HIDE DEF T
  <2> QED BY Least
<1>2. x # 0 /\ x \in Nat /\ x - 1 \in Nat /\ x = (x - 1) + 1
  OBVIOUS
<1>3. x - 1 \notin T
  BY <1>1, <1>2
<1>4. x - 1 \in S
  BY <1>2, <1>3
<1> QED BY <1>1, <1>2, <1>4

(* The decoding exists: built from the end of the string backwards.        *)
LEMMA DecodesExist ==
  ASSUME NEW m, NEW e, EndsAt(m, e)
  PROVE  \E f : Decodes(m, e, f)
<1> DEFINE G(n, g) == \A p \in e - n .. e : g[p] = DecodedFrom(m, g, p)
           E(n) == \E g : G(n, g)
           S == {n \in Nat : n <= e => E(n)}
<1>0. e \in Nat /\ m[e] = NUL
  BY DEF EndsAt
<1>1. 0 \in S
  <2> DEFINE g == [p \in {e} |-> << >>]
  <2>1. ASSUME NEW p \in e - 0 .. e PROVE g[p] = DecodedFrom(m, g, p)
    <3>1. p = e
      BY <1>0
    <3> QED BY <1>0, <3>1 DEF DecodedFrom
  <2> HIDE DEF g
  <2>2. G(0, g)
    BY <2>1
  <2> HIDE DEF G
  <2>3. E(0)
    BY <2>2
  <2> HIDE DEF E
  <2> QED BY <2>3
<1>2. ASSUME NEW n \in Nat, n \in S PROVE n + 1 \in S
  <2> HIDE DEF E
  <2> SUFFICES ASSUME n + 1 <= e PROVE E(n + 1)
    OBVIOUS
  <2>0. E(n)
    BY <1>0, <1>2
  <2>1. PICK g : G(n, g)
    BY <2>0 DEF E
  <2> DEFINE q == e - (n + 1)
             h == [p \in 0 .. e |-> IF p = q THEN DecodedFrom(m, g, q) ELSE g[p]]
  <2>2. q \in 0 .. e - 1 /\ q \in Int /\ e - n = q + 1
    BY <1>0
  <2>3. ASSUME NEW p \in q .. e PROVE h[p] = DecodedFrom(m, h, p)
    <3>0. p \in 0 .. e /\ p \in Nat
      BY <1>0, <2>2
    <3>1. h[p] = DecodedFrom(m, g, p)
      <4>1. CASE p = q
        BY <3>0, <4>1
      <4>2. CASE p # q
        <5>1. p \in e - n .. e
          BY <1>0, <2>2, <4>2
        <5>2. h[p] = g[p]
          BY <3>0, <4>2
        <5> HIDE DEF h
        <5> QED BY <2>1, <5>1, <5>2
      <4> QED BY <4>1, <4>2
    <3>2. \A i \in 0 .. e : i > q => h[i] = g[i]
      BY <2>2
    <3> HIDE DEF h
    <3>3. CASE p = e
      BY <1>0, <3>1, <3>3 DEF DecodedFrom
    <3>4. CASE p # e
      <4>1. p \in 0 .. e - 1
        BY <1>0, <3>0, <3>4
      <4>2. p + 1 \in 0 .. e /\ (Escape(m, p) => p + 3 \in 0 .. e)
        BY <4>1, EscapeInside
      <4>3. h[p + 1] = g[p + 1] /\ (Escape(m, p) => h[p + 3] = g[p + 3])
        BY <2>2, <3>0, <3>2, <4>2
      <4> QED BY <3>1, <4>3 DEF DecodedFrom
    <3> QED BY <3>3, <3>4
  <2> HIDE DEF h, q
  <2>4. G(n + 1, h)
    BY <2>3 DEF q
  <2> HIDE DEF G
  <2> QED BY <2>4 DEF E
<1> HIDE DEF S
<1>3. Nat \subseteq S
  BY <1>1, <1>2, Induct
<1> USE DEF S
<1>4. E(e)
  <2> HIDE DEF E
  <2> QED BY <1>0, <1>3
<1>5. PICK g : G(e, g)
  BY <1>4
<1> DEFINE f == [p \in 0 .. e |-> g[p]]
<1>6. ASSUME NEW p \in 0 .. e PROVE f[p] = DecodedFrom(m, f, p)
  <2>1. p \in e - e .. e
    BY <1>0
  <2>2. g[p] = DecodedFrom(m, g, p)
    BY <1>5, <2>1
  <2>3. \A i \in 0 .. e : f[i] = g[i]
    OBVIOUS
  <2> HIDE DEF f, G
  <2>4. CASE p = e
    BY <1>0, <2>2, <2>3, <2>4 DEF DecodedFrom
  <2>5. CASE p # e
    <3>1. p \in 0 .. e - 1
      BY <1>0, <2>5
    <3>2. p + 1 \in 0 .. e /\ (Escape(m, p) => p + 3 \in 0 .. e)
      BY <3>1, EscapeInside
    <3> QED BY <2>2, <2>3, <3>2 DEF DecodedFrom
  <2> QED BY <2>4, <2>5
<1>7. f = [p \in 0 .. e |-> DecodedFrom(m, f, p)]
  <2>1. DOMAIN f = 0 .. e /\ f = [p \in DOMAIN f |-> f[p]]
    OBVIOUS
  <2> HIDE DEF f
  <2> QED BY <1>6, <2>1
<1> QED BY <1>7 DEF Decodes

(* A decoded text is made of bytes and not longer than what it was made of.*)
LEMMA DecodesTyped ==
  ASSUME NEW m, NEW e, EndsAt(m, e), NEW f, Decodes(m, e, f)
  PROVE  \A p \in 0 .. e : f[p] \in Seq(Byte) /\ Len(f[p]) <= e - p
<1> DEFINE Good(p) == f[p] \in Seq(Byte) /\ Len(f[p]) <= e - p
           S == {n \in Nat : \A p \in 0 .. e : p >= e - n => Good(p)}
<1>0. e \in Nat /\ m[e] = NUL /\ \A p \in 0 .. e : f[p] = DecodedFrom(m, f, p)
  BY DEF EndsAt, Decodes
<1>1. 0 \in S
  <2> SUFFICES ASSUME NEW p \in 0 .. e, p >= e - 0 PROVE Good(p)
    OBVIOUS
  <2>1. p = e
    BY <1>0
  <2>2. f[p] = << >>
    BY <1>0, <2>1 DEF DecodedFrom
  <2> QED BY <1>0, <2>1, <2>2
<1>2. ASSUME NEW n \in Nat, n \in S PROVE n + 1 \in S
  <2> SUFFICES ASSUME NEW p \in 0 .. e, p >= e - (n + 1) PROVE Good(p)
    OBVIOUS
  <2>1. \A q \in 0 .. e : q >= e - n => f[q] \in Seq(Byte) /\ Len(f[q]) <= e - q
    BY <1>2
  <2>2. f[p] = DecodedFrom(m, f, p)
    BY <1>0
  <2>3. CASE p = e
    <3>1. f[p] = << >>
      BY <1>0, <2>2, <2>3 DEF DecodedFrom
    <3> QED BY <1>0, <2>3, <3>1
  <2>4. CASE p # e
    <3>0. p \in 0 .. e - 1
      BY <1>0, <2>4
    <3>1. /\ m[p] # NUL /\ m[p] \in Byte /\ p + 1 \in 0 .. e
          /\ Escape(m, p) => p + 3 \in 0 .. e /\ m[p + 1] \in Byte /\ m[p + 2] \in Byte
      BY <3>0, EscapeInside
    <3>2. CASE Escape(m, p)
      <4> DEFINE c == DecodedChar(m[p + 1], m[p + 2])
                 r == f[p + 3]
      <4>1. c \in Byte
        BY <3>1, <3>2, DecodedByte
      <4>2. r \in Seq(Byte) /\ Len(r) <= e - (p + 3)
        BY <1>0, <2>1, <3>1, <3>2
      <4>3. f[p] = <<c>> \o r
        BY <2>2, <3>1, <3>2 DEF DecodedFrom
      <4> HIDE DEF c, r
      <4>4. <<c>> \o r \in Seq(Byte) /\ Len(<<c>> \o r) = 1 + Len(r) /\ Len(r) \in Nat
        BY <4>1, <4>2
      <4> QED BY <1>0, <4>2, <4>3, <4>4
    <3>3. CASE ~ Escape(m, p)
      <4> DEFINE c == m[p]
                 r == f[p + 1]
      <4>1. c \in Byte
        BY <3>1
      <4>2. r \in Seq(Byte) /\ Len(r) <= e - (p + 1)
        BY <1>0, <2>1, <3>1
      <4>3. f[p] = <<c>> \o r
        BY <2>2, <3>1, <3>3 DEF DecodedFrom
      <4> HIDE DEF c, r
      <4>4. <<c>> \o r \in Seq(Byte) /\ Len(<<c>> \o r) = 1 + Len(r) /\ Len(r) \in Nat
        BY <4>1, <4>2
      <4> QED BY <1>0, <4>2, <4>3, <4>4
    <3> QED BY <3>2, <3>3
  <2> QED BY <2>3, <2>4
<1> HIDE DEF S
<1>3. Nat \subseteq S
  BY <1>1, <1>2, Induct
<1>4. e \in S
  BY <1>0, <1>3
<1>5. ASSUME NEW p \in 0 .. e PROVE Good(p)
  <2>1. p >= e - e
    BY <1>0
  <2> HIDE DEF Good
  <2> QED BY <1>4, <2>1 DEF S
<1> QED BY <1>5

(* What UrlDecode makes of a C string: bytes, and not more than it had.    *)
LEMMA DecodedShape ==
  ASSUME NEW m, NEW e, EndsAt(m, e)
  PROVE  Decoded(m) \in Seq(Byte) /\ Len(Decoded(m)) <= e
<1> DEFINE f == CHOOSE f : Decodes(m, e, f)
<1>1. Decodes(m, e, f)
  BY DecodesExist
<1>2. Decoded(m) = f[0]
  <2>1. StrLen(m) = e
    BY StrLenIs
  <2>2. Decoded(m) = (CHOOSE from : from = [p \in 0 .. StrLen(m) |->
          IF m[p] = NUL THEN << >>
          ELSE IF Escape(m, p) THEN <<DecodedChar(m[p + 1], m[p + 2])>> \o from[p + 3]
          ELSE <<m[p]>> \o from[p + 1]])[0]
    BY DEF Decoded
  <2> QED BY <2>1, <2>2 DEF Decodes, DecodedFrom
<1> HIDE DEF f
<1>3. 0 \in 0 .. e /\ e \in Nat /\ e - 0 = e
  BY DEF EndsAt
<1> QED BY <1>1, <1>2, <1>3, DecodesTyped

(* Blocks with the same bytes up to the end decode to the same text.       *)
LEMMA DecodedSame ==
  ASSUME NEW m, NEW b, NEW e, EndsAt(m, e), EndsAt(b, e), \A i \in 0 .. e : m[i] = b[i]
  PROVE  Decoded(m) = Decoded(b)
<1> DEFINE Step(d, f) == [p \in 0 .. e |->
             IF d[p] = NUL THEN << >>
             ELSE IF Escape(d, p) THEN <<DecodedChar(d[p + 1], d[p + 2])>> \o f[p + 3]
             ELSE <<d[p]>> \o f[p + 1]]
<1>1. Decoded(m) = (CHOOSE f : f = Step(m, f))[0]
  BY StrLenIs DEF Decoded
<1>2. Decoded(b) = (CHOOSE f : f = Step(b, f))[0]
  BY StrLenIs DEF Decoded
<1>3. ASSUME NEW p \in 0 .. e
      PROVE  /\ m[p] = b[p]
             /\ m[p] # NUL => (Escape(m, p) <=> Escape(b, p)) /\ m[p] = b[p]
             /\ m[p] # NUL /\ Escape(m, p) => m[p + 1] = b[p + 1] /\ m[p + 2] = b[p + 2]
  <2>0. e \in Nat /\ m[e] = NUL
    BY DEF EndsAt
  <2>1. CASE p = e
    BY <2>0, <2>1
  <2>2. CASE p # e
    <3>1. p \in 0 .. e - 1 /\ p + 1 \in 0 .. e
      BY <2>0, <2>2
    <3>2. m[p + 1] = b[p + 1] /\ m[p] = b[p]
      BY <3>1
    <3>3. Escape(m, p) => m[p + 2] = b[p + 2]
      <4>1. Escape(m, p) => p + 3 \in 0 .. e
        BY <3>1, EscapeInside
      <4>2. Escape(m, p) => p + 2 \in 0 .. e
        BY <2>0, <3>1, <4>1
      <4> QED BY <4>2
    <3>4. Escape(b, p) => m[p + 2] = b[p + 2]
      <4>1. Escape(b, p) => p + 3 \in 0 .. e
        BY <3>1, EscapeInside
      <4>2. Escape(b, p) => p + 2 \in 0 .. e
        BY <2>0, <3>1, <4>1
      <4> QED BY <4>2
    <3>5. Escape(m, p) <=> Escape(b, p)
      BY <3>2, <3>3, <3>4 DEF Escape
    <3> QED BY <3>2, <3>3, <3>5
  <2> QED BY <2>1, <2>2
<1>4. ASSUME NEW f PROVE Step(m, f) = Step(b, f)
  BY <1>3
<1>5. \A f : f = Step(m, f) <=> f = Step(b, f)
  <2> HIDE DEF Step
  <2> QED BY <1>4
<1>6. (CHOOSE f : f = Step(m, f)) = (CHOOSE f : f = Step(b, f))
  <2> HIDE DEF Step
  <2> QED BY <1>5, Zenon
<1> HIDE DEF Step
<1> QED BY <1>1, <1>2, <1>6

(* A C string ends, in its block, behind its text.                         *)
LEMMA CarriesEnds ==
  ASSUME NEW s, NEW t, Carries(s, t), Ended(s), s.alloc \in Nat, Len(t) < s.alloc,
         \A i \in 1 .. Len(t) : t[i] # NUL
  PROVE  EndsAt(s.cells, Len(t))
<1>1. /\ t \in Seq(Byte) /\ Len(t) \in Nat /\ DOMAIN s.cells = 0 .. s.alloc - 1
      /\ s.cells[Len(t)] = NUL
      /\ \A i \in 0 .. Len(t) - 1 : s.cells[i] = t[i + 1]
  BY DEF Carries, Ended
<1>2. ASSUME NEW i \in 0 .. Len(t) - 1 PROVE s.cells[i] \in Byte /\ s.cells[i] # NUL
  <2>1. i + 1 \in 1 .. Len(t)
    BY <1>1
  <2>2. t[i + 1] \in Byte /\ t[i + 1] # NUL
    BY <1>1, <2>1
  <2> QED BY <1>1, <2>2
<1>3. 0 .. Len(t) \subseteq DOMAIN s.cells /\ DOMAIN s.cells \subseteq Nat
  BY <1>1
<1> QED BY <1>1, <1>2, <1>3 DEF EndsAt

(* Writing a shorter text over the old one, with its terminator.           *)
LEMMA OverwriteCarries ==
  ASSUME NEW s, Sound(s), NEW u, Carries(s, u), NEW t \in Seq(Byte), Len(t) <= s.length,
         s.length < s.alloc
  PROVE  LET q == Shift(Put(s, 0, Append(t, NUL)), - (s.length - Len(t)))
         IN  /\ Sound(q) /\ Carries(q, t) /\ Ended(q)
             /\ q.length = Len(t) /\ q.length + q.reserved = s.length + s.reserved
<1> DEFINE l == Len(t)
           x == Append(t, NUL)
           p == Put(s, 0, x)
           n == - (s.length - l)
           q == Shift(p, n)
<1>1. /\ Sizes(s) /\ s.wild = 0 /\ s.length \in Nat /\ s.reserved \in Nat /\ s.alloc \in Nat
      /\ s.length + s.reserved + 1 <= s.alloc
      /\ DOMAIN s.cells = 0 .. s.alloc - 1
  BY DEF Sound, Sizes, Carries
<1>2. l \in Nat /\ Len(x) = l + 1 /\ l <= s.length
  BY TerminatedLength
<1>3. x[l + 1] = NUL /\ \A j \in 1 .. l : x[j] = t[j]
  <2>1. t \in Seq(Byte \cup {NUL}) /\ NUL \in Byte \cup {NUL}
    OBVIOUS
  <2> QED BY <2>1
<1> HIDE DEF l, x
<1>4. Len(x) \in Nat /\ Len(x) <= s.alloc
  BY <1>1, <1>2
<1>5. /\ Sizes(p) /\ p.alloc = s.alloc /\ p.length = s.length /\ p.reserved = s.reserved
      /\ p.wild = s.wild /\ p.cells = Written(s.cells, 0, x)
  BY <1>1, <1>4, PutFirst, PutCells
<1> HIDE DEF p
<1>6. Sound(p)
  BY <1>1, <1>5 DEF Sound
<1>7. n \in Int /\ p.length + n = l /\ p.reserved - n = s.reserved + (s.length - l)
      /\ p.length + n >= 0 /\ p.reserved - n >= 0
  BY <1>1, <1>2, <1>5
<1> HIDE DEF n
<1>8. /\ Sound(q) /\ q.length = l /\ q.reserved = s.reserved + (s.length - l) /\ q.alloc = s.alloc
  BY <1>5, <1>6, <1>7, ShiftSound
<1>9. q.cells = Written(s.cells, 0, x)
  BY <1>5, ShiftCells
<1> HIDE DEF q
<1>10. DOMAIN q.cells = 0 .. q.alloc - 1
  BY <1>1, <1>8, <1>9 DEF Written
<1>11. ASSUME NEW i \in 0 .. l PROVE q.cells[i] = x[i + 1]
  <2>1. i \in 0 .. s.alloc - 1 /\ i \in 0 .. 0 + Len(x) - 1 /\ i - 0 + 1 = i + 1
    BY <1>1, <1>2
  <2> QED BY <1>1, <1>9, <2>1 DEF Written
<1>12. ASSUME NEW i \in 0 .. l - 1 PROVE q.cells[i] = t[i + 1]
  <2>1. i \in 0 .. l /\ i + 1 \in 1 .. l
    BY <1>2
  <2> QED BY <1>3, <1>11, <2>1
<1>13. q.cells[q.length] = NUL
  BY <1>2, <1>3, <1>8, <1>11
<1>14. Carries(q, t)
  BY <1>8, <1>10, <1>12 DEF Carries, l
<1>15. q.length + q.reserved = s.length + s.reserved
  BY <1>1, <1>2, <1>8
<1> QED BY <1>8, <1>13, <1>14, <1>15 DEF Ended, l, n, p, q, x

(* Decoding in place: the text becomes the decoded one, and what escapes   *)
(* took goes to the reserve.                                               *)
LEMMA UrlDecodeStep ==
  ASSUME IInv, TextInv, EndInv, DoUrlDecode
  PROVE  IInv' /\ TextInv' /\ EndInv'
<1> DEFINE e == Len(text)
           c == CopyOf(text)
           t == Decoded(str.cells)
<1>1. /\ str.alloc > 0 /\ stale = FALSE /\ stale' = stale /\ Ended(str)
      /\ \A i \in 1 .. e : text[i] # NUL
      /\ str' = UrlDecode(str) /\ text' = Decoded(c.cells)
  BY DEF DoUrlDecode, IsCString, EndInv
<1>2. /\ Sound(str) /\ Carries(str, text) /\ text \in Seq(Byte) /\ str.length = e /\ e \in Nat
      /\ str.alloc \in Nat /\ str.length < str.alloc /\ str.reserved \in Nat
      /\ str.length <= MaxText /\ str.length + str.reserved <= Bound
  BY <1>1 DEF IInv, TextInv, Sound, Sizes, Carries
<1>3. EndsAt(str.cells, e)
  BY <1>1, <1>2, CarriesEnds
<1>4. Carries(c, text) /\ Ended(c) /\ c.alloc \in Nat /\ e < c.alloc
  BY <1>2, CopyCarries, CopySound DEF Sound, Sizes
<1>5. EndsAt(c.cells, e)
  BY <1>1, <1>4, CarriesEnds
<1>6. ASSUME NEW i \in 0 .. e PROVE str.cells[i] = c.cells[i]
  <2>1. CASE i = e
    BY <1>3, <1>5, <2>1 DEF EndsAt
  <2>2. CASE i # e
    <3>1. i \in 0 .. e - 1
      BY <1>2, <2>2
    <3> HIDE DEF c
    <3> QED BY <1>2, <1>4, <3>1 DEF Carries
  <2> QED BY <2>1, <2>2
<1>7. text' = t
  <2> HIDE DEF c
  <2> QED BY <1>1, <1>3, <1>5, <1>6, DecodedSame
<1>8. t \in Seq(Byte) /\ Len(t) <= str.length /\ Len(t) \in Nat
  BY <1>2, <1>3, DecodedShape
<1>9. StrLen(str.cells) = str.length
  BY <1>2, <1>3, StrLenIs
<1>10. str' = Shift(Put(str, 0, Append(t, NUL)), - (str.length - Len(t)))
  BY <1>1, <1>9 DEF UrlDecode
<1> HIDE DEF t, c
<1>11. /\ Sound(str') /\ Carries(str', t) /\ Ended(str')
       /\ str'.length = Len(t) /\ str'.length + str'.reserved = str.length + str.reserved
  BY <1>2, <1>8, <1>10, OverwriteCarries
<1>12. IInv'
  <2>1. Len(t) <= MaxText /\ Bound' = Bound
    BY <1>2, <1>8, UseAssumption DEF Bound
  <2> QED BY <1>2, <1>11, <2>1 DEF IInv
<1>13. TextInv'
  BY <1>7, <1>11 DEF TextInv
<1>14. EndInv'
  BY <1>1, <1>11, <1>12, EndsAgain
<1> QED BY <1>12, <1>13, <1>14

-----------------------------------------------------------------------------
(* What every operation keeps, UrlDecode included: it needs all three.     *)
LEMMA Stays ==
  ASSUME IInv, TextInv, EndInv, [Next \/ DoUrlDecode]_vars
  PROVE  IInv' /\ TextInv' /\ EndInv'
<1>1. CASE DoUrlDecode
  BY <1>1, UrlDecodeStep
<1>2. CASE [Next]_vars
  BY <1>2, NextInv, TextStays, EndStays
<1> QED BY <1>1, <1>2

(* The sizes, the bytes and the end of the string, after any operations of *)
(* the library and any decoding by an application.                         *)
THEOREM Invariance == DecodingSpec => [](IInv /\ TextInv /\ EndInv)
<1>1. Init => IInv /\ TextInv /\ EndInv
  BY InitInv, InitText, InitEnd
<1>2. IInv /\ TextInv /\ EndInv /\ [Next \/ DoUrlDecode]_vars => (IInv /\ TextInv /\ EndInv)'
  BY Stays
<1> QED BY <1>1, <1>2, PTL DEF DecodingSpec

(* Text, reserve and terminator always fit the block, and no byte is       *)
(* written behind it, for every buffer length and every width of size_t.   *)
THEOREM SizesCovered == DecodingSpec => []Covered
<1>1. IInv => Covered
  BY DEF IInv, Sound, Sizes, Covered
<1> QED BY <1>1, Invariance, PTL

(* Whatever the reserve is, and although the argument of Reserve may wrap, *)
(* EventRead finds room for buffer_length_ bytes.                          *)
THEOREM RoomToRead == DecodingSpec => []ReadFits
<1>1. IInv => ReadFits
  BY ReadRoom DEF IInv, ReadFits
<1> QED BY <1>1, Invariance, PTL

(* The bytes in front of the end are the text that the same operations     *)
(* make of a sequence.                                                     *)
THEOREM TextHeld == DecodingSpec => []HoldsText
<1>1. TextInv => HoldsText
  BY CarriesText DEF TextInv, HoldsText
<1> QED BY <1>1, Invariance, PTL

(* C functions stop where the text stops, except after the assignment of   *)
(* an empty text.                                                          *)
THEOREM TerminatorHeld == DecodingSpec => []Terminated
<1>1. IInv /\ EndInv => Terminated
  BY DEF IInv, Sound, Sizes, EndInv, Ended, Terminated
<1> QED BY <1>1, Invariance, PTL

-----------------------------------------------------------------------------
(* Searching and comparing.                                                *)
LEMMA MinLeast ==
  ASSUME NEW S, S \subseteq Nat, S # {}
  PROVE  Min(S) \in S /\ \A y \in S : Min(S) <= y
BY Least DEF Min

(* A minimum is known by what it is.                                       *)
LEMMA MinIs ==
  ASSUME NEW S, S \subseteq Nat, NEW x \in S, \A y \in S : x <= y
  PROVE  Min(S) = x
<1>1. Min(S) \in S /\ Min(S) <= x
  BY MinLeast
<1>2. x <= Min(S) /\ x \in Nat /\ Min(S) \in Nat
  BY <1>1
<1> QED BY <1>1, <1>2

LEMMA SameSeq ==
  ASSUME NEW S, NEW a \in Seq(S), NEW b \in Seq(S), Len(a) = Len(b),
         \A i \in 1 .. Len(a) : a[i] = b[i]
  PROVE  a = b
OBVIOUS

(* The first characters of a sequence.                                     *)
LEMMA Opening ==
  ASSUME NEW S, NEW a \in Seq(S), NEW n \in 0 .. Len(a)
  PROVE  /\ SubSeq(a, 1, n) \in Seq(S) /\ Len(SubSeq(a, 1, n)) = n
         /\ \A i \in 1 .. n : SubSeq(a, 1, n)[i] = a[i]
<1>1. n \in Nat
  OBVIOUS
<1> QED BY <1>1

LEMMA SameOpening ==
  ASSUME NEW S, NEW a \in Seq(S), NEW b \in Seq(S), NEW n \in Nat, n <= Len(a), n <= Len(b)
  PROVE  SubSeq(a, 1, n) = SubSeq(b, 1, n) <=> \A i \in 1 .. n : a[i] = b[i]
<1> DEFINE x == SubSeq(a, 1, n)
           y == SubSeq(b, 1, n)
<1>0. n \in 0 .. Len(a) /\ n \in 0 .. Len(b)
  OBVIOUS
<1>1. x \in Seq(S) /\ Len(x) = n /\ \A i \in 1 .. n : x[i] = a[i]
  BY <1>0, Opening
<1>2. y \in Seq(S) /\ Len(y) = n /\ \A i \in 1 .. n : y[i] = b[i]
  BY <1>0, Opening
<1> HIDE DEF x, y
<1>3. ASSUME \A i \in 1 .. n : a[i] = b[i] PROVE x = y
  BY <1>1, <1>2, <1>3, SameSeq
<1>4. ASSUME x = y PROVE \A i \in 1 .. n : a[i] = b[i]
  BY <1>1, <1>2, <1>4
<1> QED BY <1>3, <1>4 DEF x, y

(* memcmp() from the start of both blocks.                                 *)
LEMMA memcmpZero ==
  ASSUME NEW m, NEW b, NEW n \in Nat
  PROVE  memcmp(m, 0, b, n) = 0 <=> \A i \in 0 .. n - 1 : m[i] = b[i]
<1> DEFINE differ == {i \in 0 .. n - 1 : m[0 + i] # b[i]}
<1>1. differ = {i \in 0 .. n - 1 : m[i] # b[i]}
  OBVIOUS
<1>2. memcmp(m, 0, b, n) = 0 <=> differ = {}
  <2> DEFINE first == Min(differ)
  <2>1. memcmp(m, 0, b, n) = IF differ = {} THEN 0 ELSE IF m[0 + first] < b[first] THEN -1 ELSE 1
    BY DEF memcmp
  <2> HIDE DEF differ, first
  <2> QED BY <2>1
<1> QED BY <1>1, <1>2

LEMMA memcmpBelow ==
  ASSUME NEW m, NEW b, NEW n \in Nat,
         \A i \in 0 .. n - 1 : m[i] \in Int /\ b[i] \in Int
  PROVE  memcmp(m, 0, b, n) < 0
           <=> \E i \in 0 .. n - 1 : m[i] < b[i] /\ \A j \in 0 .. i - 1 : m[j] = b[j]
<1> DEFINE differ == {i \in 0 .. n - 1 : m[0 + i] # b[i]}
           first == Min(differ)
           C == \E i \in 0 .. n - 1 : m[i] < b[i] /\ \A j \in 0 .. i - 1 : m[j] = b[j]
<1>1. \A i \in 0 .. n - 1 : i \in differ <=> m[i] # b[i]
  OBVIOUS
<1>2. differ \subseteq 0 .. n - 1
  OBVIOUS
<1>3. memcmp(m, 0, b, n) = IF differ = {} THEN 0 ELSE IF m[0 + first] < b[first] THEN -1 ELSE 1
  BY DEF memcmp
<1> HIDE DEF differ, first
<1>4. CASE differ = {}
  BY <1>1, <1>3, <1>4
<1>5. CASE differ # {}
  <2>1. first \in differ /\ \A y \in differ : first <= y
    <3>1. differ \subseteq Nat
      BY <1>2
    <3> QED BY <1>5, <3>1, MinLeast DEF first
  <2>2. first \in 0 .. n - 1 /\ 0 + first = first
    BY <1>2, <2>1
  <2>3. memcmp(m, 0, b, n) < 0 <=> m[first] < b[first]
    BY <1>3, <1>5, <2>2
  <2>4. \A j \in 0 .. first - 1 : m[j] = b[j]
    BY <1>1, <2>1, <2>2
  <2>5. ASSUME NEW i \in 0 .. n - 1, m[i] < b[i], \A j \in 0 .. i - 1 : m[j] = b[j]
        PROVE  i = first
    <3>1. i \in differ
      BY <1>1, <2>5
    <3>2. ~ first \in 0 .. i - 1
      BY <1>1, <2>1, <2>2, <2>5
    <3> QED BY <2>1, <2>2, <3>1, <3>2
  <2> QED BY <2>2, <2>3, <2>4, <2>5
<1> QED BY <1>4, <1>5

-----------------------------------------------------------------------------
(* Two strings and their texts, none longer than sizes can be.             *)
Pair(s, a, c, t) ==
  /\ Sound(s) /\ Carries(s, a) /\ Sound(c) /\ Carries(c, t)
  /\ Len(a) <= SizeMax /\ Len(t) <= SizeMax

LEMMA PairFacts ==
  ASSUME NEW s, NEW a, NEW c, NEW t, Pair(s, a, c, t)
  PROVE  /\ a \in Seq(Byte) /\ Len(a) \in Nat /\ s.length = Len(a)
         /\ t \in Seq(Byte) /\ Len(t) \in Nat /\ c.length = Len(t)
         /\ \A i \in 0 .. Len(a) - 1 : s.cells[i] = a[i + 1]
         /\ \A i \in 0 .. Len(t) - 1 : c.cells[i] = t[i + 1]
         /\ Plus(0, Len(t)) = Len(t) /\ Minus(Len(a), 0) = Len(a)
<1>1. /\ a \in Seq(Byte) /\ s.length = Len(a) /\ t \in Seq(Byte) /\ c.length = Len(t)
      /\ \A i \in 0 .. Len(a) - 1 : s.cells[i] = a[i + 1]
      /\ \A i \in 0 .. Len(t) - 1 : c.cells[i] = t[i + 1]
      /\ Len(a) <= SizeMax /\ Len(t) <= SizeMax
  BY DEF Pair, Carries
<1>2. Len(a) \in Nat /\ Len(t) \in Nat
  BY <1>1
<1> QED BY <1>1, <1>2, SizeAssumption DEF Plus, Minus

(* The same characters in front, counted from 1 or from 0.                 *)
LEMMA SameBytesSameText ==
  ASSUME NEW s, NEW a, NEW c, NEW t, Pair(s, a, c, t),
         NEW n \in Nat, n <= Len(a), n <= Len(t)
  PROVE  (\A i \in 0 .. n - 1 : s.cells[i] = c.cells[i]) <=> \A i \in 1 .. n : a[i] = t[i]
<1>1. /\ Len(a) \in Nat /\ Len(t) \in Nat
      /\ \A i \in 0 .. Len(a) - 1 : s.cells[i] = a[i + 1]
      /\ \A i \in 0 .. Len(t) - 1 : c.cells[i] = t[i + 1]
  BY PairFacts
<1>2. \A i \in 0 .. n - 1 : s.cells[i] = a[i + 1] /\ c.cells[i] = t[i + 1]
  BY <1>1
<1>3. ASSUME \A i \in 0 .. n - 1 : s.cells[i] = c.cells[i], NEW i \in 1 .. n
      PROVE  a[i] = t[i]
  <2>1. i - 1 \in 0 .. n - 1 /\ (i - 1) + 1 = i
    OBVIOUS
  <2> QED BY <1>2, <1>3, <2>1
<1>4. ASSUME \A i \in 1 .. n : a[i] = t[i], NEW i \in 0 .. n - 1
      PROVE  s.cells[i] = c.cells[i]
  <2>1. i + 1 \in 1 .. n
    OBVIOUS
  <2> QED BY <1>2, <1>4, <2>1
<1> QED BY <1>3, <1>4

LEMMA EqualsIsPrefix ==
  ASSUME NEW s, NEW a, NEW c, NEW t, Pair(s, a, c, t)
  PROVE  Equals(s, c.cells, Len(t)) <=> Sequence!IsPrefix(t, a)
<1>1. /\ a \in Seq(Byte) /\ t \in Seq(Byte) /\ Len(a) \in Nat /\ Len(t) \in Nat
      /\ s.length = Len(a) /\ Plus(0, Len(t)) = Len(t)
  BY PairFacts
<1>2. CASE ~ Len(t) <= Len(a)
  BY <1>1, <1>2 DEF Equals, Sequence!IsPrefix
<1>3. CASE Len(t) <= Len(a)
  <2>1. Equals(s, c.cells, Len(t)) <=> memcmp(s.cells, 0, c.cells, Len(t)) = 0
    BY <1>1, <1>3 DEF Equals, Compare
  <2>2. Equals(s, c.cells, Len(t)) <=> \A i \in 0 .. Len(t) - 1 : s.cells[i] = c.cells[i]
    BY <1>1, <2>1, memcmpZero
  <2>3. Equals(s, c.cells, Len(t)) <=> \A i \in 1 .. Len(t) : a[i] = t[i]
    BY <1>1, <1>3, <2>2, SameBytesSameText
  <2>4. SubSeq(t, 1, Len(t)) = SubSeq(a, 1, Len(t)) <=> \A i \in 1 .. Len(t) : t[i] = a[i]
    BY <1>1, <1>3, SameOpening
  <2> QED BY <1>3, <2>3, <2>4 DEF Sequence!IsPrefix
<1> QED BY <1>2, <1>3

LEMMA EqualIsEqual ==
  ASSUME NEW s, NEW a, NEW c, NEW t, Pair(s, a, c, t)
  PROVE  Equal(s, c) <=> a = t
<1>1. /\ a \in Seq(Byte) /\ t \in Seq(Byte) /\ Len(a) \in Nat /\ Len(t) \in Nat
      /\ s.length = Len(a) /\ c.length = Len(t) /\ Plus(0, Len(t)) = Len(t)
  BY PairFacts
<1>2. CASE Len(t) # Len(a)
  BY <1>1, <1>2 DEF Equal
<1>3. CASE Len(t) = Len(a)
  <2>1. Equal(s, c) <=> memcmp(s.cells, 0, c.cells, Len(t)) = 0
    BY <1>1, <1>3 DEF Equal, Compare
  <2>2. Equal(s, c) <=> \A i \in 0 .. Len(t) - 1 : s.cells[i] = c.cells[i]
    BY <1>1, <2>1, memcmpZero
  <2>3. Equal(s, c) <=> \A i \in 1 .. Len(t) : a[i] = t[i]
    BY <1>1, <1>3, <2>2, SameBytesSameText
  <2>4. a = t <=> \A i \in 1 .. Len(t) : a[i] = t[i]
    BY <1>1, <1>3, SameSeq
  <2> QED BY <2>3, <2>4
<1> QED BY <1>2, <1>3

LEMMA LessIsLess ==
  ASSUME NEW s, NEW a, NEW c, NEW t, Pair(s, a, c, t)
  PROVE  IsLess(s, c) <=> DiffersLower(a, t)
<1>1. /\ a \in Seq(Byte) /\ t \in Seq(Byte) /\ Len(a) \in Nat /\ Len(t) \in Nat
      /\ s.length = Len(a) /\ c.length = Len(t)
      /\ Plus(0, Len(t)) = Len(t) /\ Minus(Len(a), 0) = Len(a)
      /\ \A i \in 0 .. Len(a) - 1 : s.cells[i] = a[i + 1]
      /\ \A i \in 0 .. Len(t) - 1 : c.cells[i] = t[i + 1]
  BY PairFacts
<1> DEFINE n == IF Len(a) >= Len(t) THEN Len(t) ELSE Len(a)
<1>2. n \in Nat /\ n <= Len(a) /\ n <= Len(t) /\ n \in {Len(a), Len(t)}
  BY <1>1
<1>3. Compare(s, c.cells, 0, c.length) = memcmp(s.cells, 0, c.cells, n)
  BY <1>1 DEF Compare
<1>4. Min({Len(a), Len(t)}) = n
  <2> DEFINE S == {Len(a), Len(t)}
  <2>1. S \subseteq Nat /\ n \in S /\ \A y \in S : n <= y
    BY <1>1, <1>2
  <2> HIDE DEF S, n
  <2>2. Min(S) = n
    BY <2>1, MinIs
  <2> QED BY <2>2 DEF S
<1> HIDE DEF n
<1>5. \A i \in 0 .. n - 1 : s.cells[i] = a[i + 1] /\ c.cells[i] = t[i + 1]
  BY <1>1, <1>2
<1>6. \A i \in 1 .. n : a[i] \in Int /\ t[i] \in Int
  <2>1. \A x \in Byte : x \in Int
    BY DEF Byte
  <2>2. \A i \in 1 .. n : a[i] \in Byte /\ t[i] \in Byte
    BY <1>1, <1>2
  <2> QED BY <2>1, <2>2
<1>7. \A i \in 0 .. n - 1 : s.cells[i] \in Int /\ c.cells[i] \in Int
  <2>1. \A i \in 0 .. n - 1 : i + 1 \in 1 .. n
    BY <1>2
  <2> QED BY <1>5, <1>6, <2>1
<1>8. IsLess(s, c) <=> \E i \in 0 .. n - 1 : /\ s.cells[i] < c.cells[i]
                                             /\ \A j \in 0 .. i - 1 : s.cells[j] = c.cells[j]
  <2>1. IsLess(s, c) <=> memcmp(s.cells, 0, c.cells, n) < 0
    BY <1>3 DEF IsLess
  <2> DEFINE m == s.cells
             b == c.cells
  <2>2. \A i \in 0 .. n - 1 : m[i] \in Int /\ b[i] \in Int
    BY <1>7
  <2> HIDE DEF m, b
  <2>3. memcmp(m, 0, b, n) < 0
          <=> \E i \in 0 .. n - 1 : m[i] < b[i] /\ \A j \in 0 .. i - 1 : m[j] = b[j]
    BY <1>2, <2>2, memcmpBelow
  <2> QED BY <2>1, <2>3 DEF m, b
<1>9. \A k \in 0 .. n : SubSeq(a, 1, k) = SubSeq(t, 1, k)
                         <=> \A j \in 0 .. k - 1 : s.cells[j] = c.cells[j]
  <2> SUFFICES ASSUME NEW k \in 0 .. n
               PROVE  SubSeq(a, 1, k) = SubSeq(t, 1, k)
                        <=> \A j \in 0 .. k - 1 : s.cells[j] = c.cells[j]
    OBVIOUS
  <2>1. k \in Nat /\ k <= Len(a) /\ k <= Len(t)
    BY <1>1, <1>2
  <2>2. SubSeq(a, 1, k) = SubSeq(t, 1, k) <=> \A i \in 1 .. k : a[i] = t[i]
    BY <2>1, SameBytesSameText, SMTT(30)
  <2>3. (\A j \in 0 .. k - 1 : s.cells[j] = c.cells[j]) <=> \A i \in 1 .. k : a[i] = t[i]
    BY <2>1, SameBytesSameText
  <2> QED BY <2>2, <2>3
<1>10. ASSUME IsLess(s, c) PROVE DiffersLower(a, t)
  <2>1. PICK i \in 0 .. n - 1 : /\ s.cells[i] < c.cells[i]
                                /\ \A j \in 0 .. i - 1 : s.cells[j] = c.cells[j]
    BY <1>8, <1>10
  <2>2. i + 1 \in 1 .. n /\ (i + 1) - 1 = i /\ i \in 0 .. n
    BY <1>2
  <2>3. SubSeq(a, 1, i) = SubSeq(t, 1, i) /\ a[i + 1] < t[i + 1]
    BY <1>5, <1>9, <2>1, <2>2
  <2>4. SubSeq(a, 1, (i + 1) - 1) = SubSeq(t, 1, (i + 1) - 1)
    BY <2>2, <2>3
  <2> QED BY <1>4, <2>2, <2>3, <2>4 DEF DiffersLower
<1>11. ASSUME DiffersLower(a, t) PROVE IsLess(s, c)
  <2>1. PICK i \in 1 .. n : SubSeq(a, 1, i - 1) = SubSeq(t, 1, i - 1) /\ a[i] < t[i]
    BY <1>4, <1>11 DEF DiffersLower
  <2> DEFINE k == i - 1
  <2>2. k \in 0 .. n - 1 /\ k \in 0 .. n /\ k + 1 = i
    BY <1>2
  <2>3. SubSeq(a, 1, k) = SubSeq(t, 1, k)
    BY <2>1
  <2> HIDE DEF k
  <2>4. \A j \in 0 .. k - 1 : s.cells[j] = c.cells[j]
    BY <1>9, <2>2, <2>3
  <2>5. s.cells[k] < c.cells[k]
    BY <1>5, <2>1, <2>2
  <2> QED BY <1>8, <2>2, <2>4, <2>5
<1> QED BY <1>10, <1>11

(* The end of a C string.                                                  *)
LEMMA StrEndIs ==
  ASSUME NEW m, NEW k \in Nat, DOMAIN m = 0 .. k - 1, NEW e \in 0 .. k - 1, NEW p \in 0 .. e,
         m[e] = NUL, \A i \in p .. e - 1 : m[i] # NUL
  PROVE  StrEnd(m, p) = e
<1> DEFINE S == Ends(m, p)
<1>1. S = {q \in 0 .. k - 1 : q >= p /\ m[q] = NUL}
  BY DEF Ends
<1>2. S \subseteq Nat /\ e \in S
  BY <1>1
<1>3. \A y \in S : e <= y
  <2> SUFFICES ASSUME NEW y \in S, ~ e <= y PROVE FALSE
    OBVIOUS
  <2>1. y \in p .. e - 1 /\ m[y] = NUL
    BY <1>1
  <2> QED BY <2>1
<1> HIDE DEF S
<1>4. Min(S) = e
  BY <1>2, <1>3, MinIs
<1> QED BY <1>4 DEF StrEnd, S

(* Two blocks with the same bytes up to a NUL end at the same place.       *)
LEMMA SameEnd ==
  ASSUME NEW m, NEW k \in Nat, DOMAIN m = 0 .. k - 1, NEW b, NEW l \in Nat, DOMAIN b = 0 .. l - 1,
         NEW e \in Nat, e < k, e < l, m[e] = NUL, \A i \in 0 .. e : m[i] = b[i]
  PROVE  StrEnd(m, 0) = StrEnd(b, 0) /\ StrEnd(m, 0) \in 0 .. e
<1> DEFINE S == Ends(m, 0)
           T == Ends(b, 0)
           x == Min(S)
<1>1. S = {q \in 0 .. k - 1 : q >= 0 /\ m[q] = NUL} /\ T = {q \in 0 .. l - 1 : q >= 0 /\ b[q] = NUL}
  BY DEF Ends
<1>2. S \subseteq Nat /\ T \subseteq Nat /\ e \in S
  BY <1>1
<1>3. x \in S /\ \A y \in S : x <= y
  <2> HIDE DEF S
  <2> QED BY <1>2, MinLeast
<1>4. x \in 0 .. e
  BY <1>2, <1>3
<1>5. x \in T
  <2> HIDE DEF x
  <2> QED BY <1>1, <1>3, <1>4
<1>6. \A y \in T : x <= y
  <2> SUFFICES ASSUME NEW y \in T PROVE x <= y
    OBVIOUS
  <2>0. y \in Nat /\ y \in 0 .. l - 1 /\ b[y] = NUL /\ x \in Nat
    BY <1>1, <1>2, <1>4
  <2> HIDE DEF x
  <2>1. CASE y <= e
    <3>1. y \in S
      BY <1>1, <2>0, <2>1
    <3> QED BY <1>3, <3>1
  <2>2. CASE y > e
    BY <1>4, <2>0, <2>2
  <2> QED BY <2>0, <2>1, <2>2
<1>7. Min(T) = x
  <2> HIDE DEF x, T
  <2> QED BY <1>2, <1>5, <1>6, MinIs
<1> QED BY <1>4, <1>7 DEF StrEnd

(* The hash is that of the bytes in front of the first NUL.                *)
LEMMA HashOfBytes ==
  ASSUME NEW m, NEW b, StrEnd(m, 0) = StrEnd(b, 0), StrEnd(m, 0) \in Nat,
         \A i \in 0 .. StrEnd(m, 0) - 1 : m[i] = b[i]
  PROVE  HashOf(m) = HashOf(b)
<1> DEFINE e == StrEnd(m, 0)
           Step(d, h) == [n \in 0 .. e |-> IF n = 0 THEN 0
                            ELSE SizeXor((h[n - 1] * 17) % (SizeMax + 1), Widened(d[n - 1]))]
<1>1. HashOf(m) = (CHOOSE h : h = Step(m, h))[e]
  BY DEF HashOf
<1>2. HashOf(b) = (CHOOSE h : h = Step(b, h))[e]
  BY DEF HashOf
<1>3. ASSUME NEW h PROVE Step(m, h) = Step(b, h)
  <2>1. \A n \in 0 .. e : n # 0 => m[n - 1] = b[n - 1]
    <3> SUFFICES ASSUME NEW n \in 0 .. e, n # 0 PROVE m[n - 1] = b[n - 1]
      OBVIOUS
    <3>1. n - 1 \in 0 .. e - 1
      OBVIOUS
    <3> QED BY <3>1
  <2> HIDE DEF e
  <2> QED BY <2>1
<1>4. \A h : h = Step(m, h) <=> h = Step(b, h)
  <2> HIDE DEF Step
  <2> QED BY <1>3
<1>5. (CHOOSE h : h = Step(m, h)) = (CHOOSE h : h = Step(b, h))
  <2> HIDE DEF Step
  <2> QED BY <1>4, Zenon
<1> QED BY <1>1, <1>2, <1>5

LEMMA HashEqual ==
  ASSUME NEW s, NEW a, NEW c, Pair(s, a, c, a), Len(a) # 0 => Ended(s), Len(a) # 0 => Ended(c)
  PROVE  Hash(s) = Hash(c)
<1> DEFINE e == Len(a)
           m == s.cells
           b == c.cells
           k == s.alloc
           l == c.alloc
<1>1. /\ e \in Nat /\ s.length = e /\ c.length = e
      /\ \A i \in 0 .. e - 1 : m[i] = a[i + 1] /\ b[i] = a[i + 1]
  BY PairFacts
<1>2. CASE e = 0
  BY <1>1, <1>2 DEF Hash, IsEmpty
<1>3. CASE e # 0
  <2>1. m[e] = NUL /\ b[e] = NUL
    BY <1>1, <1>3 DEF Ended
  <2>2. \A i \in 0 .. e : m[i] = b[i]
    BY <1>1, <2>1
  <2>3. k \in Nat /\ l \in Nat /\ e < k /\ e < l
    BY <1>1, <1>3 DEF Pair, Sound, Sizes
  <2>4. DOMAIN m = 0 .. k - 1 /\ DOMAIN b = 0 .. l - 1
    BY DEF Pair, Carries
  <2>5. m[0] = b[0]
    BY <1>1, <2>2
  <2>6. IsEmpty(s) <=> m[0] = NUL
    BY <1>1, <1>3, <2>3 DEF IsEmpty
  <2>7. IsEmpty(c) <=> b[0] = NUL
    BY <1>1, <1>3, <2>3 DEF IsEmpty
  <2> HIDE DEF e, m, b, k, l
  <2>8. StrEnd(m, 0) = StrEnd(b, 0) /\ StrEnd(m, 0) \in 0 .. e
    BY <1>1, <2>1, <2>2, <2>3, <2>4, SameEnd
  <2>9. HashOf(m) = HashOf(b)
    <3>1. StrEnd(m, 0) \in Nat /\ \A i \in 0 .. StrEnd(m, 0) - 1 : m[i] = b[i]
      BY <1>1, <2>2, <2>8
    <3> QED BY <2>8, <3>1, HashOfBytes
  <2> QED BY <2>5, <2>6, <2>7, <2>9 DEF Hash, m, b
<1> QED BY <1>2, <1>3

(* operator+ has room for both.                                            *)
LEMMA ConcatenationHolds ==
  ASSUME NEW a \in Seq(Byte), NEW t \in Seq(Byte), Len(a) + Len(t) + 1 <= SizeMax
  PROVE  Text(Concatenation(a, t)) = a \o t
<1> DEFINE n == Len(a) + Len(t)
           w == WithRoom(n)
           u == AppendText(w, a)
           v == AppendText(u, t)
<1>1. n \in Nat /\ Len(a) \in Nat /\ Len(t) \in Nat
  OBVIOUS
<1>2. Sound(w) /\ w.length = 0 /\ Carries(w, << >>)
  BY <1>1, WithRoomSound, WithRoomCarries
<1>3. v = Concatenation(a, t)
  BY DEF Concatenation
<1> HIDE DEF w
<1>4. w.length + Len(a) + 1 <= SizeMax
  BY <1>1, <1>2, SizeAssumption
<1>5. Sound(u) /\ u.length = Len(a)
  <2>1. Sound(u) /\ u.length = w.length + Len(a)
    BY <1>2, <1>4, AppendSound
  <2> QED BY <1>1, <1>2, <2>1
<1>6. Carries(u, << >> \o a)
  BY <1>2, <1>4, AppendCarries
<1>7. << >> \o a = a
  OBVIOUS
<1> HIDE DEF u
<1>8. u.length + Len(t) + 1 <= SizeMax
  BY <1>1, <1>5
<1>9. Carries(v, a \o t)
  BY <1>5, <1>6, <1>7, <1>8, AppendCarries
<1> QED BY <1>3, <1>9, CarriesText

-----------------------------------------------------------------------------
(* What every step below needs.                                            *)
Whole == IInv /\ TextInv /\ EndInv /\ str.alloc > 0

LEMMA WholeFacts ==
  ASSUME Whole
  PROVE  /\ text \in Seq(Byte) /\ Len(text) \in Nat /\ str.length = Len(text)
         /\ str.alloc \in Nat /\ str.length + 1 <= str.alloc
         /\ DOMAIN str.cells = 0 .. str.alloc - 1
         /\ \A i \in 0 .. Len(text) - 1 : str.cells[i] = text[i + 1]
         /\ Len(text) <= MaxText
         /\ ~ stale => str.cells[Len(text)] = NUL
<1>1. /\ text \in Seq(Byte) /\ str.length = Len(text) /\ DOMAIN str.cells = 0 .. str.alloc - 1
      /\ \A i \in 0 .. Len(text) - 1 : str.cells[i] = text[i + 1]
  BY DEF Whole, TextInv, Carries
<1>2. Len(text) \in Nat
  BY <1>1
<1>3. str.alloc \in Nat /\ str.length + 1 <= str.alloc
  BY DEF Whole, IInv, Sound, Sizes
<1>4. ~ stale => str.cells[Len(text)] = NUL
  BY <1>1 DEF Whole, EndInv, Ended
<1>5. Len(text) <= MaxText
  BY <1>1 DEF Whole, IInv
<1> QED BY <1>1, <1>2, <1>3, <1>4, <1>5

LEMMA ArgPair ==
  ASSUME Whole, NEW t \in Seq(Byte), Len(t) <= MaxText
  PROVE  Pair(str, text, CopyOf(t), t)
<1>1. Sound(str) /\ Carries(str, text) /\ Sound(CopyOf(t)) /\ Carries(CopyOf(t), t)
  BY CopySound, CopyCarries DEF Whole, IInv, TextInv
<1>2. Len(text) <= MaxText /\ MaxText <= SizeMax /\ Len(text) \in Nat /\ Len(t) \in Nat
  <2>1. MaxText <= SizeMax
    BY UseAssumption, SizeAssumption
  <2> QED BY <2>1, WholeFacts
<1>3. MaxText \in Nat /\ SizeMax \in Nat
  BY UseAssumption, SizeAssumption
<1> QED BY <1>1, <1>2, <1>3 DEF Pair

LEMMA Part ==
  ASSUME NEW S, NEW a \in Seq(S), NEW q \in Nat, NEW n \in Nat, q + n <= Len(a)
  PROVE  /\ SubSeq(a, q + 1, q + n) \in Seq(S) /\ Len(SubSeq(a, q + 1, q + n)) = n
         /\ \A i \in 1 .. n : SubSeq(a, q + 1, q + n)[i] = a[q + i]
<1>1. CASE n = 0
  BY <1>1
<1>2. CASE n # 0
  BY <1>2
<1> QED BY <1>1, <1>2

(* A plain text ends at its length, and a search finds the text only.      *)
LEMMA PlainEnd ==
  ASSUME Whole, Plain, NEW p \in 0 .. Len(text)
  PROVE  StrEnd(str.cells, p) = Len(text)
<1> DEFINE e == Len(text)
           m == str.cells
           k == str.alloc
<1>1. /\ k \in Nat /\ e \in 0 .. k - 1 /\ DOMAIN m = 0 .. k - 1 /\ p \in 0 .. e /\ m[e] = NUL
      /\ e \in Nat
  BY WholeFacts DEF Plain
<1>2. ASSUME NEW i \in p .. e - 1 PROVE m[i] # NUL
  <2>1. i \in 0 .. e - 1 /\ i + 1 \in 1 .. e
    BY <1>1
  <2> QED BY <2>1, WholeFacts DEF Plain
<1> HIDE DEF e, m, k
<1>3. StrEnd(m, p) = e
  BY <1>1, <1>2, StrEndIs
<1> QED BY <1>3 DEF m, e

LEMMA MatchesOccurs ==
  ASSUME Whole, NEW t \in Seq(Byte), NEW q \in Nat, q + Len(t) <= Len(text)
  PROVE  Matches(str.cells, q, t) <=> SubSeq(text, q + 1, q + Len(t)) = t
<1> DEFINE x == SubSeq(text, q + 1, q + Len(t))
           m == str.cells
<1>0. Len(t) \in Nat /\ Len(text) \in Nat
  BY WholeFacts
<1>1. x \in Seq(Byte) /\ Len(x) = Len(t) /\ \A i \in 1 .. Len(t) : x[i] = text[q + i]
  BY <1>0, WholeFacts, Part
<1>2. ASSUME NEW i \in 1 .. Len(t) PROVE m[q + i - 1] = text[q + i]
  <2>1. q + i - 1 \in 0 .. Len(text) - 1 /\ (q + i - 1) + 1 = q + i
    BY <1>0
  <2> QED BY <2>1, WholeFacts
<1> HIDE DEF x, m
<1>3. (\A i \in 1 .. Len(t) : m[q + i - 1] = t[i]) <=> \A i \in 1 .. Len(t) : x[i] = t[i]
  BY <1>1, <1>2
<1>4. x = t <=> \A i \in 1 .. Len(t) : x[i] = t[i]
  BY <1>1, SameSeq
<1>5. Matches(m, q, t) <=> \A i \in 1 .. Len(t) : m[q + i - 1] = t[i]
  BY DEF Matches
<1> QED BY <1>3, <1>4, <1>5 DEF x, m

LEMMA FindsFirst ==
  ASSUME Whole, Plain, NEW t \in Seq(Byte), NEW p \in 0 .. Len(text)
  PROVE  Pos(str, t, p) = First(t, p)
<1> DEFINE m == str.cells
           found == {q \in p .. StrEnd(m, p) - Len(t) : Matches(m, q, t)}
           F == Occurs(t, p)
<1>1. Len(text) \in Nat /\ Len(t) \in Nat /\ p \in Nat
  BY WholeFacts
<1>2. StrEnd(m, p) = Len(text)
  BY PlainEnd
<1>3. \A q \in p .. Len(text) - Len(t) : Matches(m, q, t) <=> SubSeq(text, q + 1, q + Len(t)) = t
  <2> SUFFICES ASSUME NEW q \in p .. Len(text) - Len(t)
               PROVE  Matches(m, q, t) <=> SubSeq(text, q + 1, q + Len(t)) = t
    OBVIOUS
  <2>1. q \in Nat /\ q + Len(t) <= Len(text)
    BY <1>1
  <2> QED BY <2>1, MatchesOccurs
<1>4. found = F
  BY <1>2, <1>3 DEF Occurs
<1>5. F \subseteq Nat
  BY <1>1 DEF Occurs
<1>6. Find(str, t, p) = IF F = {} THEN Null ELSE Min(F)
  <2>1. Find(str, t, p) = IF found = {} THEN Null ELSE Min(found)
    BY DEF Find, strstr
  <2> HIDE DEF found, F
  <2> QED BY <1>4, <2>1
<1> HIDE DEF found, F
<1>7. CASE F = {}
  BY <1>6, <1>7 DEF Pos, First, F
<1>8. CASE F # {}
  <2>1. Min(F) \in Nat
    BY <1>5, <1>8, MinLeast
  <2>2. Find(str, t, p) = Min(F) /\ Min(F) # Null
    BY <1>6, <1>8, <2>1 DEF Null
  <2>3. Pos(str, t, p) = Min(F)
    BY <2>2 DEF Pos
  <2> QED BY <1>8, <2>3 DEF First, F
<1> QED BY <1>7, <1>8

LEMMA ToStringHolds ==
  ASSUME Whole, Plain
  PROVE  ToString(str) = text
<1>1. Len(text) \in Nat /\ str.length = Len(text) /\ text \in Seq(Byte) /\ str.alloc > 0
  BY WholeFacts DEF Whole
<1>2. CASE Len(text) = 0
  BY <1>1, <1>2 DEF ToString, IsEmpty
<1>3. CASE Len(text) # 0
  <2>1. str.cells[0] # NUL
    <3>1. 0 \in 0 .. Len(text) - 1 /\ 1 \in 1 .. Len(text) /\ 0 + 1 = 1
      BY <1>1, <1>3
    <3> QED BY <3>1, WholeFacts DEF Plain
  <2>2. ~ IsEmpty(str)
    BY <1>1, <1>3, <2>1 DEF IsEmpty
  <2>3. StrEnd(str.cells, 0) = str.length
    <3>1. 0 \in 0 .. Len(text)
      BY <1>1
    <3> QED BY <1>1, <3>1, PlainEnd
  <2>4. ToString(str) = Text(str)
    BY <2>2, <2>3 DEF ToString, Text
  <2> QED BY <2>4, CarriesText DEF Whole, TextInv
<1> QED BY <1>2, <1>3

LEMMA SubstringHolds ==
  ASSUME Whole, NEW pos \in 0 .. MaxText, NEW len \in 0 .. MaxText, ~ SubstringThrows(str, pos, len)
  PROVE  Text(Substring(str, pos, len)) = SubSeq(text, pos + 1, pos + len)
<1>1. pos \in Nat /\ len \in Nat /\ pos + len <= SizeMax
  BY UseAssumption, SizeAssumption
<1>2. text \in Seq(Byte) /\ pos + len <= Len(text)
  <2>1. Plus(pos, len) = pos + len
    BY <1>1, SizeAssumption DEF Plus
  <2>2. text \in Seq(Byte) /\ str.length = Len(text) /\ Len(text) \in Nat
    BY WholeFacts
  <2> QED BY <1>1, <2>1, <2>2 DEF SubstringThrows
<1>3. Text(str) = text
  BY CarriesText DEF Whole, TextInv
<1>4. SubSeq(text, pos + 1, pos + len) \in Seq(Byte)
  BY <1>1, <1>2, Part
<1> QED BY <1>3, <1>4, CopyCarries, CarriesText DEF Substring

LEMMA SearchRight ==
  ASSUME IInv, TextInv, EndInv
  PROVE  SearchAgrees
<1> SUFFICES ASSUME str.alloc > 0
             PROVE  /\ Ends(str.cells, 0) # {}
                    /\ \A t \in Args :
                         /\ Equals(str, CopyOf(t).cells, Len(t)) <=> Sequence!IsPrefix(t, text)
                         /\ Equal(str, CopyOf(t)) <=> text = t
                         /\ Equal(str, CopyOf(t)) => Hash(str) = Hash(CopyOf(t))
                         /\ Text(Concatenation(text, t)) = text \o t
                         /\ IsLess(str, CopyOf(t)) <=> DiffersLower(text, t)
                         /\ Plain => /\ Pos(str, t, 0) = First(t, 0)
                                     /\ \A p \in 1 .. Len(text) :
                                          ~ FindThrows(str, p) => Pos(str, t, p) = First(t, p)
                    /\ Plain => ToString(str) = text
                    /\ \A pos, len \in 0 .. MaxText :
                         ~ SubstringThrows(str, pos, len) =>
                           Text(Substring(str, pos, len)) = SubSeq(text, pos + 1, pos + len)
  BY DEF SearchAgrees
<1>0. Whole
  BY DEF Whole
<1>1. Ends(str.cells, 0) # {}
  <2>1. PICK i \in 0 .. str.alloc - 1 : str.cells[i] = NUL
    BY <1>0 DEF Whole, EndInv, Closed
  <2>2. i \in DOMAIN str.cells /\ i >= 0
    BY <1>0, <2>1, WholeFacts
  <2> QED BY <2>1, <2>2 DEF Ends
<1>2. ASSUME NEW t \in Args
      PROVE  /\ Equals(str, CopyOf(t).cells, Len(t)) <=> Sequence!IsPrefix(t, text)
             /\ Equal(str, CopyOf(t)) <=> text = t
             /\ Equal(str, CopyOf(t)) => Hash(str) = Hash(CopyOf(t))
             /\ Text(Concatenation(text, t)) = text \o t
             /\ IsLess(str, CopyOf(t)) <=> DiffersLower(text, t)
             /\ Plain => /\ Pos(str, t, 0) = First(t, 0)
                         /\ \A p \in 1 .. Len(text) :
                              ~ FindThrows(str, p) => Pos(str, t, p) = First(t, p)
  <2>0. /\ t \in Seq(Byte) /\ Len(t) \in Nat /\ Len(t) <= MaxArg /\ MaxArg \in Nat
        /\ MaxText \in Nat /\ Len(t) <= MaxText /\ SizeMax \in Nat
        /\ text \in Seq(Byte) /\ Len(text) \in Nat /\ Len(text) <= MaxText
        /\ 2 * (MaxText + MaxArg + BufferLength) < SizeMax /\ BufferLength \in Nat
    <3>1. t \in Seq(Byte) /\ Len(t) \in Nat /\ Len(t) <= MaxArg
      BY ArgSeq
    <3>2. text \in Seq(Byte) /\ Len(text) \in Nat /\ Len(text) <= MaxText
      BY <1>0, WholeFacts
    <3> QED BY <3>1, <3>2, UseAssumption, SizeAssumption
  <2>1. Pair(str, text, CopyOf(t), t)
    BY <1>0, <2>0, ArgPair
  <2>2. Equals(str, CopyOf(t).cells, Len(t)) <=> Sequence!IsPrefix(t, text)
    BY <2>1, EqualsIsPrefix
  <2>3. Equal(str, CopyOf(t)) <=> text = t
    BY <2>1, EqualIsEqual
  <2>4. ASSUME Equal(str, CopyOf(t)) PROVE Hash(str) = Hash(CopyOf(t))
    <3>1. text = t
      BY <2>3, <2>4
    <3>2. Len(text) # 0 => Ended(str)
      <4>1. text # << >> => Ended(str)
        BY <1>0 DEF Whole, EndInv
      <4> QED BY <4>1
    <3>3. Ended(CopyOf(t))
      BY <2>0, CopyCarries
    <3>4. Pair(str, text, CopyOf(t), text)
      BY <2>1, <3>1
    <3> QED BY <3>2, <3>3, <3>4, HashEqual
  <2>5. Text(Concatenation(text, t)) = text \o t
    <3>1. Len(text) + Len(t) + 1 <= SizeMax
      BY <2>0
    <3> QED BY <2>0, <3>1, ConcatenationHolds
  <2>6. IsLess(str, CopyOf(t)) <=> DiffersLower(text, t)
    BY <2>1, LessIsLess
  <2>7. ASSUME Plain, NEW p \in 0 .. Len(text) PROVE Pos(str, t, p) = First(t, p)
    BY <1>0, <2>0, <2>7, FindsFirst
  <2>8. 0 \in 0 .. Len(text) /\ 1 .. Len(text) \subseteq 0 .. Len(text)
    BY <2>0
  <2> QED BY <2>2, <2>3, <2>4, <2>5, <2>6, <2>7, <2>8
<1>3. Plain => ToString(str) = text
  BY <1>0, ToStringHolds
<1>4. ASSUME NEW pos \in 0 .. MaxText, NEW len \in 0 .. MaxText, ~ SubstringThrows(str, pos, len)
      PROVE  Text(Substring(str, pos, len)) = SubSeq(text, pos + 1, pos + len)
  BY <1>0, <1>4, SubstringHolds
<1> QED BY <1>1, <1>2, <1>3, <1>4

(* Searching, comparing, cutting out and hashing agree with the text.      *)
THEOREM SearchHeld == DecodingSpec => []SearchAgrees
<1>1. IInv /\ TextInv /\ EndInv => SearchAgrees
  BY SearchRight
<1> QED BY <1>1, Invariance, PTL

-----------------------------------------------------------------------------
(* Numbers.  Induct gives induction over data where the set is named: the  *)
(* recursive functions of the conversions are shown to have values, and    *)
(* these to be the right ones, for every width of an integer type.         *)

(* A recursive definition whose argument gets smaller in the measure m has *)
(* a function that satisfies it.                                           *)
Recurs(D, m, r, b, s, f, i) ==
  f[i] = IF m[r[i]] < m[i] THEN s[<<i, f[r[i]]>>] ELSE b[i]

(* f is a solution for every argument whose measure is below n.            *)
RecursTo(D, m, r, b, s, f, n) == \A i \in D : m[i] < n => Recurs(D, m, r, b, s, f, i)

(* Step by step in the measure, some function solves the equations.        *)
LEMMA RecursUpTo ==
  ASSUME NEW D, NEW X, NEW m \in [D -> Nat], NEW r \in [D -> D], NEW b \in [D -> X],
         NEW s \in [D \X X -> X]
  PROVE  \A n \in Nat : \E f \in [D -> X] : \A i \in D : m[i] < n => Recurs(D, m, r, b, s, f, i)
<1> DEFINE G(n, f) == \A i \in D : m[i] < n => Recurs(D, m, r, b, s, f, i)
           S == {n \in Nat : \E f \in [D -> X] : G(n, f)}
<1>1. 0 \in S
  <2>1. G(0, b)
    OBVIOUS
  <2> QED BY <2>1
<1>2. ASSUME NEW n \in Nat, n \in S PROVE n + 1 \in S
  <2>1. PICK f \in [D -> X] : G(n, f)
    BY <1>2
  <2> DEFINE g == [i \in D |-> IF m[i] = n
                               THEN IF m[r[i]] < n THEN s[<<i, f[r[i]]>>] ELSE b[i]
                               ELSE f[i]]
  <2>2. g \in [D -> X]
    OBVIOUS
  <2>3. ASSUME NEW i \in D, m[i] < n + 1 PROVE Recurs(D, m, r, b, s, g, i)
    <3>0. m[i] \in Nat /\ r[i] \in D /\ m[r[i]] \in Nat
      OBVIOUS
    <3>1. CASE m[i] = n
      <4>1. g[i] = IF m[r[i]] < n THEN s[<<i, f[r[i]]>>] ELSE b[i]
        BY <3>1
      <4>2. m[r[i]] < n => g[r[i]] = f[r[i]]
        BY <3>0
      <4> HIDE DEF g
      <4> QED BY <3>1, <4>1, <4>2 DEF Recurs
    <3>2. CASE m[i] < n
      <4>1. g[i] = f[i]
        BY <3>0, <3>2
      <4>2. m[r[i]] < m[i] => g[r[i]] = f[r[i]]
        BY <3>0, <3>2
      <4>3. Recurs(D, m, r, b, s, f, i)
        BY <2>1, <3>2
      <4> HIDE DEF g
      <4> QED BY <4>1, <4>2, <4>3 DEF Recurs
    <3> QED BY <2>3, <3>0, <3>1, <3>2
  <2> HIDE DEF g
  <2> QED BY <2>2, <2>3
<1> HIDE DEF S
<1>3. Nat \subseteq S
  BY <1>1, <1>2, Induct
<1> QED BY <1>3 DEF S

(* Two solutions agree, as far as both are solutions.                      *)
LEMMA RecursOnce ==
  ASSUME NEW D, NEW m \in [D -> Nat], NEW r \in [D -> D], NEW b, NEW s,
         NEW n \in Nat, NEW f, RecursTo(D, m, r, b, s, f, n), NEW g, RecursTo(D, m, r, b, s, g, n)
  PROVE  \A i \in D : m[i] < n => f[i] = g[i]
<1> DEFINE S == {k \in Nat : \A i \in D : m[i] < n /\ m[i] < k => f[i] = g[i]}
<1>1. 0 \in S
  OBVIOUS
<1>2. ASSUME NEW k \in Nat, k \in S PROVE k + 1 \in S
  <2> SUFFICES ASSUME NEW i \in D, m[i] < n, m[i] < k + 1 PROVE f[i] = g[i]
    OBVIOUS
  <2>1. m[i] \in Nat /\ r[i] \in D /\ m[r[i]] \in Nat
    OBVIOUS
  <2>2. m[r[i]] < m[i] => f[r[i]] = g[r[i]]
    BY <1>2, <2>1
  <2> QED BY <2>2 DEF Recurs, RecursTo
<1> HIDE DEF S
<1>3. Nat \subseteq S
  BY <1>1, <1>2, Induct
<1> QED BY <1>3 DEF S

(* A solution for all arguments: so a recursive function has a value.      *)
LEMMA RecursExists ==
  ASSUME NEW D, NEW X, NEW m \in [D -> Nat], NEW r \in [D -> D], NEW b \in [D -> X],
         NEW s \in [D \X X -> X]
  PROVE  \E f \in [D -> X] : \A i \in D : Recurs(D, m, r, b, s, f, i)
<1> DEFINE G(n, f) == f \in [D -> X] /\ \A i \in D : m[i] < n => Recurs(D, m, r, b, s, f, i)
           h(n) == CHOOSE f : G(n, f)
           F == [i \in D |-> h(m[i] + 1)[i]]
<1>1. ASSUME NEW n \in Nat PROVE G(n, h(n))
  <2>1. \E f : G(n, f)
    BY RecursUpTo
  <2> HIDE DEF G
  <2> QED BY <2>1
<1>2. ASSUME NEW n \in Nat, NEW k \in Nat, n <= k, NEW i \in D, m[i] < n
      PROVE  h(n)[i] = h(k)[i]
  <2> DEFINE f == h(n)
             g == h(k)
  <2>1. RecursTo(D, m, r, b, s, f, n)
    BY <1>1 DEF RecursTo
  <2>2. RecursTo(D, m, r, b, s, g, n)
    <3>1. \A j \in D : m[j] < k => Recurs(D, m, r, b, s, g, j)
      BY <1>1
    <3> HIDE DEF g
    <3> QED BY <1>2, <3>1 DEF RecursTo
  <2> HIDE DEF f, g
  <2>3. f[i] = g[i]
    <3>1. \A j \in D : m[j] < n => f[j] = g[j]
      BY <2>1, <2>2, RecursOnce
    <3> QED BY <1>2, <3>1
  <2> QED BY <2>3 DEF f, g
<1>3. F \in [D -> X]
  <2>1. ASSUME NEW i \in D PROVE h(m[i] + 1)[i] \in X
    <3>1. m[i] + 1 \in Nat
      OBVIOUS
    <3> HIDE DEF h
    <3>2. h(m[i] + 1) \in [D -> X]
      BY <1>1, <3>1
    <3> QED BY <3>2
  <2> HIDE DEF h
  <2> QED BY <2>1
<1>4. ASSUME NEW i \in D PROVE Recurs(D, m, r, b, s, F, i)
  <2> DEFINE g == h(m[i] + 1)
  <2>1. F[i] = g[i]
    OBVIOUS
  <2>2. Recurs(D, m, r, b, s, g, i)
    <3>1. m[i] + 1 \in Nat /\ m[i] < m[i] + 1
      OBVIOUS
    <3>2. G(m[i] + 1, g)
      BY <1>1, <3>1
    <3> HIDE DEF g
    <3> QED BY <3>1, <3>2
  <2>3. m[r[i]] < m[i] => F[r[i]] = g[r[i]]
    <3> SUFFICES ASSUME m[r[i]] < m[i] PROVE h(m[r[i]] + 1)[r[i]] = h(m[i] + 1)[r[i]]
      OBVIOUS
    <3>1. m[r[i]] + 1 \in Nat /\ m[i] + 1 \in Nat /\ m[r[i]] + 1 <= m[i] + 1 /\ r[i] \in D
          /\ m[r[i]] < m[r[i]] + 1
      OBVIOUS
    <3> HIDE DEF h
    <3> QED BY <1>2, <3>1
  <2> HIDE DEF F, g
  <2> QED BY <2>1, <2>2, <2>3 DEF Recurs
<1> HIDE DEF F
<1> QED BY <1>3, <1>4

(* Powers.                                                                 *)

(* f[k] is b to the power of k.                                            *)
IsPower(b, f) == f = [k \in Nat |-> IF k = 0 THEN 1 ELSE b * f[k - 1]]

(* The recursive definition of powers has a solution.                      *)
LEMMA PowersExist ==
  ASSUME NEW c \in Nat
  PROVE  \E f : IsPower(c, f)
<1> DEFINE m == [k \in Nat |-> k]
           r == [k \in Nat |-> IF k = 0 THEN 0 ELSE k - 1]
           b == [k \in Nat |-> 1]
           s == [p \in Nat \X Nat |-> c * p[2]]
<1>1. PICK f \in [Nat -> Nat] : \A k \in Nat : Recurs(Nat, m, r, b, s, f, k)
  <2>1. m \in [Nat -> Nat] /\ r \in [Nat -> Nat] /\ b \in [Nat -> Nat] /\ s \in [Nat \X Nat -> Nat]
    OBVIOUS
  <2> HIDE DEF m, r, b, s
  <2> QED BY <2>1, RecursExists
<1>2. ASSUME NEW k \in Nat PROVE f[k] = IF k = 0 THEN 1 ELSE c * f[k - 1]
  <2>1. f[k] = IF m[r[k]] < m[k] THEN s[<<k, f[r[k]]>>] ELSE b[k]
    BY <1>1 DEF Recurs
  <2> QED BY <2>1
<1>3. f = [k \in Nat |-> IF k = 0 THEN 1 ELSE c * f[k - 1]]
  BY <1>2
<1> QED BY <1>3 DEF IsPower

(* A power is the base times the one before, and positive.                 *)
LEMMA PowerRecurs ==
  ASSUME NEW c \in Nat \ {0}, NEW f, IsPower(c, f)
  PROVE  f[0] = 1 /\ \A k \in Nat : f[k + 1] = c * f[k] /\ f[k] \in Nat \ {0}
<1>1. f[0] = 1
  BY DEF IsPower
<1>2. \A k \in Nat : f[k + 1] = c * f[k]
  <2> SUFFICES ASSUME NEW k \in Nat PROVE f[k + 1] = c * f[k]
    OBVIOUS
  <2>1. k + 1 \in Nat /\ k + 1 # 0 /\ (k + 1) - 1 = k
    OBVIOUS
  <2> QED BY <2>1 DEF IsPower
<1> DEFINE S == {k \in Nat : f[k] \in Nat \ {0}}
<1>3. Nat \subseteq S
  <2>1. 0 \in S
    BY <1>1
  <2>2. ASSUME NEW k \in Nat, f[k] \in Nat \ {0} PROVE f[k + 1] \in Nat \ {0}
    <3> DEFINE x == f[k]
    <3>1. x \in Nat \ {0} /\ f[k + 1] = c * x
      BY <1>2, <2>2
    <3> HIDE DEF x
    <3> QED BY <3>1
  <2>3. \A k \in Nat : k \in S => k + 1 \in S
    BY <2>2
  <2> HIDE DEF S
  <2> QED BY <2>1, <2>3, Induct
<1> QED BY <1>1, <1>2, <1>3

(* Bit is the powers of two.                                               *)
LEMMA BitRecurs ==
  /\ Bit[0] = 1
  /\ \A k \in Nat : Bit[k + 1] = 2 * Bit[k] /\ Bit[k] \in Nat \ {0}
<1>1. IsPower(2, Bit)
  <2>1. \E f : f = [k \in Nat |-> IF k = 0 THEN 1 ELSE 2 * f[k - 1]]
    BY PowersExist DEF IsPower
  <2> QED BY <2>1 DEF Bit, IsPower
<1> QED BY <1>1, PowerRecurs

(* TenTo is the powers of ten.                                             *)
LEMMA TenRecurs ==
  /\ TenTo[0] = 1
  /\ \A k \in Nat : TenTo[k + 1] = 10 * TenTo[k] /\ TenTo[k] \in Nat \ {0}
<1>1. IsPower(10, TenTo)
  <2>1. \E f : f = [k \in Nat |-> IF k = 0 THEN 1 ELSE 10 * f[k - 1]]
    BY PowersExist DEF IsPower
  <2> QED BY <2>1 DEF TenTo, IsPower
<1> QED BY <1>1, PowerRecurs

(* An integer type.                                                        *)
IsType(T) == T.bits \in Nat \ {0} /\ T.signed \in BOOLEAN

(* The top bit of a type is half of what its bits can count to.            *)
LEMMA TopOfType ==
  ASSUME NEW T, IsType(T)
  PROVE  /\ Bit[T.bits - 1] \in Nat \ {0} /\ Bit[T.bits] = 2 * Bit[T.bits - 1]
         /\ T.bits \in Nat \ {0} /\ T.bits - 1 \in Nat
<1>1. T.bits \in Nat \ {0} /\ T.bits - 1 \in Nat /\ (T.bits - 1) + 1 = T.bits
  BY DEF IsType
<1> HIDE DEF IsType
<1> QED BY <1>1, BitRecurs

(* The doubling stops, at the latest with the top bit; one step further    *)
(* the denominator is above the numerator.                                 *)
LEMMA Doubled ==
  ASSUME NEW T, IsType(T), NEW n \in Int, n < Bit[T.bits], NEW d \in Nat \ {0}
  PROVE  LET k == Doublings(n, d, T)
         IN  /\ k \in Nat /\ n < d * Bit[k + 1]
             /\ k # 0 => n >= d * Bit[k - 1] /\ d * Bit[k - 1] < Bit[T.bits - 1]
<1> DEFINE B == Bit[T.bits - 1]
           K == {k \in 0 .. T.bits : n < d * Bit[k] \/ TopBit(d * Bit[k], T)}
           k == Doublings(n, d, T)
<1>1. B \in Nat \ {0} /\ Bit[T.bits] = 2 * B /\ T.bits \in Nat
  BY TopOfType
<1>2. \A i \in Nat : d * Bit[i] \in Nat /\ d * Bit[i + 1] = 2 * (d * Bit[i]) /\ Bit[i] <= d * Bit[i]
  <2> SUFFICES ASSUME NEW i \in Nat
               PROVE  d * Bit[i] \in Nat /\ d * Bit[i + 1] = 2 * (d * Bit[i]) /\ Bit[i] <= d * Bit[i]
    OBVIOUS
  <2>1. Bit[i] \in Nat /\ Bit[i + 1] = 2 * Bit[i]
    BY BitRecurs
  <2> DEFINE x == Bit[i]
  <2>2. d * x \in Nat /\ d * (2 * x) = 2 * (d * x) /\ x <= d * x
    <3>1. x \in Nat
      BY <2>1
    <3> HIDE DEF x
    <3>2. (d - 1) * x >= 0 /\ (d - 1) * x = d * x - x
      BY <3>1
    <3> QED BY <3>1, <3>2
  <2> QED BY <2>1, <2>2
<1>3. T.bits \in K
  <2>1. d * Bit[T.bits] >= 2 * B /\ d * Bit[T.bits] \in Nat
    BY <1>1, <1>2
  <2>2. TopBit(d * Bit[T.bits], T)
    BY <1>1, <2>1 DEF TopBit
  <2> QED BY <1>1, <2>2
<1>4. k \in K /\ \A i \in K : k <= i
  <2>1. K \subseteq Nat /\ k = Min(K)
    BY <1>1 DEF Doublings
  <2> HIDE DEF K, k
  <2> QED BY <1>3, <2>1, MinLeast
<1>5. k \in Nat /\ k \in 0 .. T.bits
  BY <1>1, <1>4
<1>6. n < d * Bit[k + 1]
  <2> DEFINE x == d * Bit[k]
  <2>1. x \in Nat /\ d * Bit[k + 1] = 2 * x
    BY <1>2, <1>5
  <2>2. n < x \/ x >= B
    BY <1>4 DEF TopBit
  <2> HIDE DEF x, k
  <2> QED BY <1>1, <2>1, <2>2
<1>7. ASSUME k # 0 PROVE n >= d * Bit[k - 1] /\ d * Bit[k - 1] < B
  <2>1. k - 1 \in 0 .. T.bits /\ k - 1 \in Nat
    BY <1>1, <1>5, <1>7
  <2>2. k - 1 \notin K
    <3>1. ~ (k <= k - 1)
      BY <1>5
    <3> HIDE DEF K, k
    <3> QED BY <1>4, <3>1
  <2>3. d * Bit[k - 1] \in Nat
    BY <1>2, <2>1
  <2>4. ~ (n < d * Bit[k - 1]) /\ ~ (d * Bit[k - 1] >= B)
    <3> HIDE DEF k
    <3> QED BY <2>1, <2>2 DEF TopBit
  <2> HIDE DEF k
  <2> QED BY <1>1, <2>3, <2>4
<1> QED BY <1>5, <1>6, <1>7

(* What is left of the numerator after j halvings.                         *)
Halved(n, d, r, x) ==
  /\ r = [quotient |-> r.quotient, remainder |-> r.remainder]
  /\ r.quotient \in Nat /\ r.remainder \in Nat
  /\ r.quotient * d + r.remainder = n /\ r.remainder < d * x

(* One round keeps it.                                                     *)
LEMMA HalvedOnce ==
  ASSUME NEW n \in Nat, NEW d \in Nat \ {0}, NEW x \in Nat, NEW r, Halved(n, d, r, 2 * x)
  PROVE  Halved(n, d, IF r.remainder >= d * x
                      THEN [quotient |-> r.quotient + x, remainder |-> r.remainder - d * x] ELSE r, x)
<1> DEFINE q == r.quotient
           m == r.remainder
           y == d * x
<1>1. q \in Nat /\ m \in Nat /\ q * d + m = n /\ m < d * (2 * x)
  BY DEF Halved
<1>2. y \in Nat /\ d * (2 * x) = 2 * y /\ (q + x) * d = q * d + y /\ q * d \in Nat
  <2> HIDE DEF q
  <2> QED BY <1>1
<1>3. CASE m >= y
  <2> DEFINE t == [quotient |-> q + x, remainder |-> m - y]
  <2>1. t.quotient = q + x /\ t.remainder = m - y /\ t = [quotient |-> t.quotient, remainder |-> t.remainder]
    OBVIOUS
  <2>2. q + x \in Nat /\ m - y \in Nat /\ m - y < y
    <3> HIDE DEF q, m, y
    <3> QED BY <1>1, <1>2, <1>3
  <2>3. (q + x) * d + (m - y) = n
    <3> DEFINE u == (q + x) * d
               w == q * d
    <3>1. u = w + y /\ w + m = n /\ w \in Nat
      BY <1>1, <1>2
    <3> HIDE DEF u, w, q, m, y
    <3>2. u + (m - y) = n
      BY <1>1, <1>2, <3>1
    <3> QED BY <3>2 DEF u
  <2>4. Halved(n, d, t, x)
    <3> HIDE DEF t
    <3> QED BY <2>1, <2>2, <2>3 DEF Halved
  <2> QED BY <1>3, <2>4
<1>4. CASE ~ (m >= y)
  <2>1. m < y
    <3> HIDE DEF m, y
    <3> QED BY <1>1, <1>2, <1>4
  <2>2. Halved(n, d, r, x)
    BY <2>1 DEF Halved
  <2> QED BY <1>4, <2>2
<1> QED BY <1>3, <1>4

(* Quotient and remainder are the only ones.                               *)
LEMMA DivOnly ==
  ASSUME NEW n \in Nat, NEW d \in Nat \ {0}, NEW q \in Nat, NEW r \in Nat,
         q * d + r = n, r < d
  PROVE  q = n \div d /\ r = n % d
<1>1. n \div d \in Int /\ n % d \in 0 .. d - 1 /\ n = d * (n \div d) + (n % d)
  OBVIOUS
<1> DEFINE a == n \div d
           c == n % d
<1>2. (q - a) * d = c - r
  <2>1. a \in Int /\ c \in Nat /\ d * a + c = n
    BY <1>1
  <2> HIDE DEF a, c
  <2> QED BY <2>1
<1>3. a \in Int /\ c \in 0 .. d - 1
  BY <1>1
<1> HIDE DEF a, c
<1>4. ~ (q - a >= 1) /\ ~ (q - a <= -1)
  <2> DEFINE z == q - a
  <2>1. z \in Int /\ z * d = c - r /\ c - r < d /\ c - r > - d
    BY <1>2, <1>3
  <2> HIDE DEF z
  <2>2. z >= 1 => z * d >= d
    <3>1. z >= 1 => (z - 1) * d >= 0
      BY <2>1
    <3> QED BY <2>1, <3>1
  <2>3. z <= -1 => z * d <= - d
    <3>1. z <= -1 => (- z - 1) * d >= 0
      BY <2>1
    <3> QED BY <2>1, <3>1
  <2>4. ~ (z >= 1) /\ ~ (z <= -1)
    BY <1>3, <2>1, <2>2, <2>3
  <2> QED BY <2>4 DEF z
<1>5. q = a
  BY <1>3, <1>4
<1>6. r = c
  BY <1>2, <1>3, <1>5
<1> QED BY <1>5, <1>6 DEF a, c

(* The same for a loop of n rounds.                                        *)
Rounds(n, a, s, f) == \A i \in 0 .. n : f[i] = IF i = 0 THEN a ELSE s[<<i, f[i - 1]>>]

(* A loop of n rounds has one value per round.                             *)
LEMMA LoopExists ==
  ASSUME NEW n \in Nat, NEW X, NEW a \in X, NEW s \in [(1 .. n) \X X -> X]
  PROVE  \E f \in [0 .. n -> X] : Rounds(n, a, s, f)
<1> DEFINE D == 0 .. n
           m == [i \in D |-> i]
           r == [i \in D |-> IF i = 0 THEN 0 ELSE i - 1]
           b == [i \in D |-> a]
           t == [p \in D \X X |-> IF p[1] = 0 THEN a ELSE s[p]]
<1>1. m \in [D -> Nat] /\ r \in [D -> D] /\ b \in [D -> X] /\ t \in [D \X X -> X]
  <2>1. ASSUME NEW p \in D \X X PROVE t[p] \in X
    <3>1. p[1] # 0 => p \in (1 .. n) \X X
      OBVIOUS
    <3> QED BY <3>1
  <2>2. t \in [D \X X -> X]
    <3>1. t = [p \in D \X X |-> t[p]]
      OBVIOUS
    <3> HIDE DEF t
    <3> QED BY <2>1, <3>1
  <2>3. ASSUME NEW i \in D PROVE r[i] \in D
    OBVIOUS
  <2> QED BY <2>2, <2>3
<1>2. PICK f \in [D -> X] : \A i \in D : Recurs(D, m, r, b, t, f, i)
  <2> HIDE DEF D, m, r, b, t
  <2> QED BY <1>1, RecursExists
<1>3. ASSUME NEW i \in D PROVE f[i] = IF i = 0 THEN a ELSE s[<<i, f[i - 1]>>]
  <2>1. f[i] = IF m[r[i]] < m[i] THEN t[<<i, f[r[i]]>>] ELSE b[i]
    BY <1>2 DEF Recurs
  <2>2. CASE i = 0
    BY <2>1, <2>2
  <2>3. CASE i # 0
    <3>1. i - 1 \in D /\ f[i - 1] \in X
      BY <1>2, <2>3
    <3>2. r[i] = i - 1 /\ m[i - 1] = i - 1 /\ m[i] = i /\ i - 1 < i
      BY <2>3, <3>1
    <3>3. t[<<i, f[i - 1]>>] = s[<<i, f[i - 1]>>]
      BY <2>3, <3>1
    <3> HIDE DEF m, r, b, t, D
    <3> QED BY <2>1, <2>3, <3>2, <3>3
  <2> QED BY <2>2, <2>3
<1> QED BY <1>2, <1>3 DEF Rounds

(* One round of the halving loop, and the loop.                            *)
Halve(d, r, x) ==
  IF r.remainder >= d * x
  THEN [quotient |-> r.quotient + x, remainder |-> r.remainder - d * x] ELSE r

(* The second loop is a sequence of such rounds.                           *)
LEMMA HalvingsLoop ==
  ASSUME NEW n \in Int, NEW d \in Nat, NEW k \in Nat
  PROVE  /\ Halvings(n, d, k)[0] = [quotient |-> 0, remainder |-> n]
         /\ \A j \in 1 .. k + 1 : Halvings(n, d, k)[j] = Halve(d, Halvings(n, d, k)[j - 1], Bit[k - j + 1])
<1> DEFINE X == [quotient : Nat, remainder : Int]
           a == [quotient |-> 0, remainder |-> n]
           s == [p \in (1 .. k + 1) \X X |-> Halve(d, p[2], Bit[k - p[1] + 1])]
           H == Halvings(n, d, k)
<1>1. ASSUME NEW j \in 1 .. k + 1, NEW t \in X PROVE Halve(d, t, Bit[k - j + 1]) \in X
  <2>1. Bit[k - j + 1] \in Nat
    <3>1. k - j + 1 \in Nat
      OBVIOUS
    <3> QED BY <3>1, BitRecurs
  <2> DEFINE x == Bit[k - j + 1]
  <2>2. d * x \in Int /\ t.quotient + x \in Nat
    BY <2>1
  <2> HIDE DEF x
  <2>3. t.remainder - d * x \in Int
    BY <2>2
  <2>4. Halve(d, t, x) \in X
    BY <2>2, <2>3 DEF Halve
  <2> QED BY <2>4 DEF x
<1>2. s \in [(1 .. k + 1) \X X -> X]
  <2>1. ASSUME NEW p \in (1 .. k + 1) \X X PROVE Halve(d, p[2], Bit[k - p[1] + 1]) \in X
    <3> HIDE DEF X
    <3>1. p[1] \in 1 .. k + 1 /\ p[2] \in X
      OBVIOUS
    <3> QED BY <1>1, <3>1
  <2> HIDE DEF X
  <2> QED BY <2>1
<1>3. a \in X /\ k + 1 \in Nat
  OBVIOUS
<1>4. PICK f \in [0 .. k + 1 -> X] : Rounds(k + 1, a, s, f)
  <2> HIDE DEF X, a, s
  <2> QED BY <1>2, <1>3, LoopExists
<1>5. ASSUME NEW j \in 0 .. k + 1
      PROVE  f[j] = IF j = 0 THEN a ELSE Halve(d, f[j - 1], Bit[k - j + 1])
  <2>1. f[j] = IF j = 0 THEN a ELSE s[<<j, f[j - 1]>>]
    <3> HIDE DEF X, a, s
    <3> QED BY <1>4 DEF Rounds
  <2>2. ASSUME j # 0 PROVE s[<<j, f[j - 1]>>] = Halve(d, f[j - 1], Bit[k - j + 1])
    <3>1. j \in 1 .. k + 1 /\ j - 1 \in 0 .. k + 1
      BY <2>2
    <3>2. f[j - 1] \in X
      <4> HIDE DEF X
      <4> QED BY <1>4, <3>1
    <3> HIDE DEF X
    <3> QED BY <3>1, <3>2
  <2> HIDE DEF a, s
  <2> QED BY <2>1, <2>2
<1>6. f = [j \in 0 .. k + 1 |->
        IF j = 0 THEN [quotient |-> 0, remainder |-> n]
        ELSE LET x == Bit[k - j + 1]
                 r == f[j - 1]
             IN  IF r.remainder >= d * x
                 THEN [quotient |-> r.quotient + x, remainder |-> r.remainder - d * x]
                 ELSE r]
  <2>1. DOMAIN f = 0 .. k + 1 /\ f = [j \in 0 .. k + 1 |-> f[j]]
    <3> HIDE DEF X, a, s
    <3> QED BY <1>4
  <2> QED BY <1>5, <2>1 DEF Halve
<1>7. H = [j \in 0 .. k + 1 |->
        IF j = 0 THEN [quotient |-> 0, remainder |-> n]
        ELSE LET x == Bit[k - j + 1]
                 r == H[j - 1]
             IN  IF r.remainder >= d * x
                 THEN [quotient |-> r.quotient + x, remainder |-> r.remainder - d * x]
                 ELSE r]
  <2> HIDE DEF X, a, s
  <2> QED BY <1>6 DEF Halvings
<1> HIDE DEF X, a, s, H
<1>8. H[0] = [quotient |-> 0, remainder |-> n]
  BY <1>7
<1>9. ASSUME NEW j \in 1 .. k + 1 PROVE H[j] = Halve(d, H[j - 1], Bit[k - j + 1])
  <2>1. j \in 0 .. k + 1 /\ j # 0
    OBVIOUS
  <2> QED BY <1>7, <2>1 DEF Halve
<1> QED BY <1>8, <1>9 DEF H

(* Div_: wherever its doublings are defined, and DivStaysInside says where *)
(* that is, the two loops leave the quotient and the remainder.            *)
THEOREM DivDivides ==
  ASSUME NEW T, IsType(T), NEW n \in Nat, n < Bit[T.bits], NEW d \in Nat \ {0}
  PROVE  Div_(n, d, T) = [quotient |-> n \div d, remainder |-> n % d]
<1> DEFINE k == Doublings(n, d, T)
           H == Halvings(n, d, k)
<1>1. k \in Nat /\ n < d * Bit[k + 1]
  BY Doubled
<1>2. /\ H[0] = [quotient |-> 0, remainder |-> n]
      /\ \A j \in 1 .. k + 1 : H[j] = Halve(d, H[j - 1], Bit[k - j + 1])
  <2> HIDE DEF k
  <2> QED BY <1>1, HalvingsLoop
<1>3. Div_(n, d, T) = H[k + 1]
  BY DEF Div_
<1> HIDE DEF k, H
<1> DEFINE S == {j \in Nat : j <= k + 1 => Halved(n, d, H[j], Bit[k + 1 - j])}
<1>4. 0 \in S
  <2>1. Halved(n, d, [quotient |-> 0, remainder |-> n], Bit[k + 1])
    BY <1>1 DEF Halved
  <2> QED BY <1>1, <1>2, <2>1
<1>5. ASSUME NEW j \in Nat, j \in S, j + 1 <= k + 1 PROVE Halved(n, d, H[j + 1], Bit[k + 1 - (j + 1)])
  <2> DEFINE i == k - j
  <2>1. i \in Nat /\ k + 1 - j = i + 1 /\ k + 1 - (j + 1) = i /\ k - (j + 1) + 1 = i
        /\ j + 1 \in 1 .. k + 1 /\ (j + 1) - 1 = j /\ j <= k + 1
    BY <1>1, <1>5
  <2>2. Bit[i] \in Nat /\ Bit[i + 1] = 2 * Bit[i]
    <3> HIDE DEF i
    <3> QED BY <2>1, BitRecurs
  <2>3. Halved(n, d, H[j], 2 * Bit[i])
    BY <1>5, <2>1, <2>2
  <2>4. H[j + 1] = Halve(d, H[j], Bit[i])
    <3>1. H[j + 1] = Halve(d, H[(j + 1) - 1], Bit[k - (j + 1) + 1])
      BY <1>2, <2>1
    <3> HIDE DEF i
    <3> QED BY <2>1, <3>1
  <2>5. Halved(n, d, Halve(d, H[j], Bit[i]), Bit[i])
    <3> HIDE DEF i
    <3> QED BY <2>2, <2>3, HalvedOnce DEF Halve
  <2> HIDE DEF i
  <2> QED BY <2>1, <2>4, <2>5
<1>6. k + 1 \in S
  <2>1. \A j \in Nat : j \in S => j + 1 \in S
    BY <1>5
  <2> HIDE DEF S
  <2>2. Nat \subseteq S
    BY <1>4, <2>1, Induct
  <2> QED BY <1>1, <2>2
<1>7. Halved(n, d, H[k + 1], Bit[0])
  BY <1>1, <1>6
<1> DEFINE r == H[k + 1]
<1>8. Halved(n, d, r, 1)
  BY <1>7, BitRecurs
<1> HIDE DEF r
<1>9. r.quotient = n \div d /\ r.remainder = n % d
  <2>1. r.quotient \in Nat /\ r.remainder \in Nat /\ r.quotient * d + r.remainder = n
        /\ r.remainder < d
    BY <1>8 DEF Halved
  <2> QED BY <2>1, DivOnly
<1>10. r = [quotient |-> r.quotient, remainder |-> r.remainder]
  BY <1>8 DEF Halved
<1>11. Div_(n, d, T) = r
  BY <1>3 DEF r
<1> QED BY <1>9, <1>10, <1>11

(* A negative number is its own remainder.                                 *)
LEMMA DivNegative ==
  ASSUME NEW T, IsType(T), NEW n \in Int, n < 0, NEW d \in Nat \ {0}
  PROVE  Doublings(n, d, T) = 0 /\ Div_(n, d, T) = [quotient |-> 0, remainder |-> n]
<1> DEFINE K == {k \in 0 .. T.bits : n < d * Bit[k] \/ TopBit(d * Bit[k], T)}
<1>1. Doublings(n, d, T) = 0
  <2>1. n < d * Bit[0]
    BY BitRecurs
  <2>2. 0 \in K /\ K \subseteq Nat /\ \A i \in K : 0 <= i
    BY <2>1, TopOfType
  <2> HIDE DEF K
  <2>3. Min(K) = 0
    BY <2>2, MinIs
  <2> QED BY <2>3 DEF K, Doublings
<1>2. Halvings(n, d, 0)[1] = [quotient |-> 0, remainder |-> n]
  <2> DEFINE H == Halvings(n, d, 0)
             a == [quotient |-> 0, remainder |-> n]
  <2>1. H[0] = a /\ \A j \in 1 .. 0 + 1 : H[j] = Halve(d, H[j - 1], Bit[0 - j + 1])
    BY HalvingsLoop
  <2>2. 1 \in 1 .. 0 + 1 /\ 1 - 1 = 0 /\ 0 - 1 + 1 = 0
    OBVIOUS
  <2>3. H[1] = Halve(d, a, 1)
    <3>1. H[1] = Halve(d, H[1 - 1], Bit[0 - 1 + 1])
      BY <2>1, <2>2
    <3> HIDE DEF H, a
    <3> QED BY <2>1, <2>2, <3>1, BitRecurs
  <2>4. Halve(d, a, 1) = a
    BY DEF Halve
  <2> QED BY <2>3, <2>4
<1>3. Div_(n, d, T) = Halvings(n, d, 0)[0 + 1]
  BY <1>1 DEF Div_
<1> QED BY <1>1, <1>2, <1>3

(* Div_ leaves a signed type only for a numerator in its upper half.       *)
THEOREM DivStaysInside ==
  ASSUME NEW T, IsType(T), NEW n \in Int, n < Bit[T.bits], NEW d \in Nat \ {0}, d < Bit[T.bits - 1],
         DivUndefined(n, d, T)
  PROVE  T.signed /\ 2 * n >= Bit[T.bits - 1]
<1> DEFINE k == Doublings(n, d, T)
           B == Bit[T.bits - 1]
<1>1. k \in Nat /\ (k # 0 => n >= d * Bit[k - 1])
  BY Doubled
<1>2. T.signed /\ d * Bit[k] >= B
  BY DEF DivUndefined, TopBit
<1> HIDE DEF k
<1>3. k # 0
  <2>1. B \in Nat /\ Bit[0] = 1 /\ d * 1 = d
    BY TopOfType, BitRecurs
  <2> QED BY <1>2, <2>1
<1>4. k - 1 \in Nat /\ (k - 1) + 1 = k
  BY <1>1, <1>3
<1>5. Bit[k] = 2 * Bit[k - 1] /\ Bit[k - 1] \in Nat
  BY <1>4, BitRecurs
<1> DEFINE x == Bit[k - 1]
<1>6. d * (2 * x) = 2 * (d * x) /\ d * x \in Nat
  <2>1. x \in Nat
    BY <1>5
  <2> HIDE DEF x
  <2> QED BY <2>1
<1>7. B \in Nat
  BY TopOfType
<1> QED BY <1>1, <1>2, <1>3, <1>5, <1>6, <1>7

(* The value of the first i digits of t is f[i].                           *)
Reads(t, base, f) ==
  f[0] = 0 /\ \A i \in 1 .. Len(t) : f[i] = base * f[i - 1] + Digit(t[i])

(* A digit has a value.                                                    *)
LEMMA DigitNat ==
  ASSUME NEW c \in Byte
  PROVE  Digit(c) \in Nat
BY DEF Digit, Between, Byte

(* The digits of t have one value, that of any function that reads them.   *)
LEMMA ReadBackIs ==
  ASSUME NEW t \in Seq(Byte), NEW base \in Nat
  PROVE  \E f \in [0 .. Len(t) -> Nat] : Reads(t, base, f) /\ ReadBack(t, base) = f[Len(t)]
<1> DEFINE n == Len(t)
           s == [p \in (1 .. n) \X Nat |-> base * p[2] + Digit(t[p[1]])]
<1>1. n \in Nat /\ \A i \in 1 .. n : t[i] \in Byte /\ Digit(t[i]) \in Nat
  BY DigitNat
<1>2. s \in [(1 .. n) \X Nat -> Nat]
  <2>1. ASSUME NEW p \in (1 .. n) \X Nat PROVE base * p[2] + Digit(t[p[1]]) \in Nat
    <3>1. p[1] \in 1 .. n /\ p[2] \in Nat
      OBVIOUS
    <3>2. Digit(t[p[1]]) \in Nat /\ base * p[2] \in Nat
      BY <1>1, <3>1
    <3> QED BY <3>2
  <2> QED BY <2>1
<1>3. PICK f \in [0 .. n -> Nat] : Rounds(n, 0, s, f)
  <2> HIDE DEF s, n
  <2> QED BY <1>1, <1>2, LoopExists
<1>4. ASSUME NEW i \in 0 .. n
      PROVE  f[i] = IF i = 0 THEN 0 ELSE base * f[i - 1] + Digit(t[i])
  <2>1. f[i] = IF i = 0 THEN 0 ELSE s[<<i, f[i - 1]>>]
    <3> HIDE DEF s, n
    <3> QED BY <1>3 DEF Rounds
  <2>2. ASSUME i # 0 PROVE s[<<i, f[i - 1]>>] = base * f[i - 1] + Digit(t[i])
    <3>1. i \in 1 .. n /\ i - 1 \in 0 .. n
      BY <1>1, <2>2
    <3>2. f[i - 1] \in Nat
      <4> HIDE DEF n
      <4> QED BY <1>3, <3>1
    <3> QED BY <3>1, <3>2
  <2> HIDE DEF s
  <2> QED BY <2>1, <2>2
<1> HIDE DEF s
<1>5. f = [i \in 0 .. Len(t) |-> IF i = 0 THEN 0 ELSE base * f[i - 1] + Digit(t[i])]
  BY <1>3, <1>4
<1> DEFINE V == CHOOSE v : v = [i \in 0 .. Len(t) |-> IF i = 0 THEN 0 ELSE base * v[i - 1] + Digit(t[i])]
<1>6. V = [i \in 0 .. Len(t) |-> IF i = 0 THEN 0 ELSE base * V[i - 1] + Digit(t[i])]
  BY <1>5
<1>7. ReadBack(t, base) = V[n]
  BY DEF ReadBack
<1> HIDE DEF V
<1>8. Reads(t, base, V)
  <2>1. V[0] = 0
    BY <1>1, <1>6
  <2>2. ASSUME NEW i \in 1 .. n PROVE V[i] = base * V[i - 1] + Digit(t[i])
    <3>1. i \in 0 .. Len(t) /\ i # 0
      BY <1>1
    <3> QED BY <1>6, <3>1
  <2> QED BY <2>1, <2>2 DEF Reads
<1> DEFINE S == {i \in Nat : i <= n => V[i] \in Nat}
<1>9. Nat \subseteq S
  <2>1. 0 \in S
    BY <1>8 DEF Reads
  <2>2. ASSUME NEW i \in Nat, i \in S PROVE i + 1 \in S
    <3> SUFFICES ASSUME i + 1 <= n PROVE V[i + 1] \in Nat
      OBVIOUS
    <3>1. i + 1 \in 1 .. n /\ (i + 1) - 1 = i /\ i <= n
      BY <1>1
    <3>2. V[i] \in Nat /\ V[i + 1] = base * V[i] + Digit(t[i + 1]) /\ Digit(t[i + 1]) \in Nat
      BY <1>1, <1>8, <2>2, <3>1 DEF Reads
    <3>3. base * V[i] \in Nat
      BY <3>2
    <3> QED BY <3>2, <3>3
  <2> HIDE DEF S
  <2> QED BY <2>1, <2>2, Induct
<1>10. V \in [0 .. n -> Nat]
  <2>1. \A i \in 0 .. n : V[i] \in Nat
    BY <1>1, <1>9
  <2>2. DOMAIN V = 0 .. n /\ V = [i \in 0 .. n |-> V[i]]
    BY <1>6
  <2> HIDE DEF n
  <2> QED BY <2>1, <2>2
<1> QED BY <1>7, <1>8, <1>10

(* Two functions that read the same digits agree.                          *)
LEMMA ReadsOnce ==
  ASSUME NEW t, NEW f, NEW u, NEW g, NEW base, NEW n \in Nat,
         Len(t) \in Nat, n <= Len(t), Len(u) \in Nat, n <= Len(u),
         \A i \in 1 .. n : t[i] = u[i], Reads(t, base, f), Reads(u, base, g)
  PROVE  f[n] = g[n]
<1> DEFINE S == {i \in Nat : i <= n => f[i] = g[i]}
<1>1. 0 \in S
  BY DEF Reads
<1>2. ASSUME NEW i \in Nat, i \in S PROVE i + 1 \in S
  <2> SUFFICES ASSUME i + 1 <= n PROVE f[i + 1] = g[i + 1]
    OBVIOUS
  <2>1. i + 1 \in 1 .. n /\ i + 1 \in 1 .. Len(t) /\ i + 1 \in 1 .. Len(u) /\ (i + 1) - 1 = i /\ f[i] = g[i]
    BY <1>2
  <2> QED BY <2>1 DEF Reads
<1> HIDE DEF S
<1>3. Nat \subseteq S
  BY <1>1, <1>2, Induct
<1> QED BY <1>3 DEF S

(* So ReadBack is the last value of a function that reads t.               *)
LEMMA ReadBackOf ==
  ASSUME NEW t \in Seq(Byte), NEW base \in Nat, NEW f, Reads(t, base, f)
  PROVE  ReadBack(t, base) = f[Len(t)] /\ ReadBack(t, base) \in Nat
<1>1. PICK g \in [0 .. Len(t) -> Nat] : Reads(t, base, g) /\ ReadBack(t, base) = g[Len(t)]
  BY ReadBackIs
<1>2. Len(t) \in Nat /\ Len(t) <= Len(t) /\ Len(t) \in 0 .. Len(t)
  OBVIOUS
<1>3. f[Len(t)] = g[Len(t)]
  BY <1>1, <1>2, ReadsOnce
<1>4. g[Len(t)] \in Nat
  BY <1>1, <1>2
<1> QED BY <1>1, <1>3, <1>4

(* One more digit.                                                         *)
LEMMA ReadBackAppend ==
  ASSUME NEW u \in Seq(Byte), NEW c \in Byte, NEW base \in Nat
  PROVE  ReadBack(Append(u, c), base) = base * ReadBack(u, base) + Digit(c)
<1> DEFINE t == Append(u, c)
           n == Len(u)
<1>1. /\ t \in Seq(Byte) /\ Len(t) = n + 1 /\ n \in Nat /\ t[n + 1] = c
      /\ \A i \in 1 .. n : t[i] = u[i]
  OBVIOUS
<1>2. PICK f \in [0 .. Len(u) -> Nat] : Reads(u, base, f) /\ ReadBack(u, base) = f[n]
  BY ReadBackIs
<1>3. PICK g \in [0 .. Len(t) -> Nat] : Reads(t, base, g) /\ ReadBack(t, base) = g[Len(t)]
  <2> HIDE DEF t
  <2> QED BY <1>1, ReadBackIs
<1> HIDE DEF t
<1>4. g[n] = f[n]
  <2>1. Len(t) \in Nat /\ n <= Len(t) /\ Len(u) \in Nat /\ n <= Len(u)
    BY <1>1
  <2> HIDE DEF n
  <2> QED BY <1>1, <1>2, <1>3, <2>1, ReadsOnce
<1>5. g[n + 1] = base * g[(n + 1) - 1] + Digit(t[n + 1])
  <2>1. n + 1 \in 1 .. Len(t)
    BY <1>1
  <2> QED BY <1>3, <2>1 DEF Reads
<1>6. (n + 1) - 1 = n
  BY <1>1
<1> HIDE DEF n
<1>7. ReadBack(t, base) = base * f[n] + Digit(c)
  BY <1>1, <1>3, <1>4, <1>5, <1>6
<1> QED BY <1>2, <1>7 DEF t

(* No digits.                                                              *)
LEMMA ReadBackNothing ==
  ASSUME NEW base \in Nat
  PROVE  ReadBack(<< >>, base) = 0
<1>1. << >> \in Seq(Byte) /\ Len(<< >>) = 0
  OBVIOUS
<1>2. PICK g \in [0 .. Len(<< >>) -> Nat] : Reads(<< >>, base, g) /\ ReadBack(<< >>, base) = g[Len(<< >>)]
  BY <1>1, ReadBackIs
<1> QED BY <1>1, <1>2 DEF Reads

(* The bases that IntToAlpha accepts.                                      *)
IsBase(base) == base \in Nat /\ 2 <= base /\ base <= 35

(* The alphabet holds the digit of every value below the base.             *)
LEMMA AlphabetDigit ==
  ASSUME NEW base, IsBase(base), NEW upper, NEW i \in 0 .. base - 1
  PROVE  /\ Alphabet(upper, i) \in Byte /\ Digit(Alphabet(upper, i)) = i
         /\ IsDigit(Alphabet(upper, i), base) /\ (Alphabet(upper, i) = 48 <=> i = 0)
<1>1. i \in Nat /\ i < base /\ base <= 35 /\ base \in Nat /\ i <= 34
  BY DEF IsBase
<1>2. CASE i < 10
  <2>1. Alphabet(upper, i) = 48 + i
    BY <1>1, <1>2 DEF Alphabet
  <2>2. Digit(48 + i) = i
    BY <1>1, <1>2 DEF Digit, Between
  <2> QED BY <1>1, <1>2, <2>1, <2>2 DEF IsDigit, Byte
<1>3. CASE ~ (i < 10) /\ upper
  <2>1. Alphabet(upper, i) = 55 + i
    BY <1>1, <1>3 DEF Alphabet
  <2>2. Digit(55 + i) = i
    BY <1>1, <1>3 DEF Digit, Between
  <2>3. 55 + i \in Byte /\ 55 + i # 48 /\ i # 0 /\ i < base
    BY <1>1, <1>3 DEF Byte
  <2> QED BY <2>1, <2>2, <2>3 DEF IsDigit
<1>4. CASE ~ (i < 10) /\ ~ upper
  <2>1. Alphabet(upper, i) = 87 + i
    BY <1>1, <1>4 DEF Alphabet
  <2>2. Digit(87 + i) = i
    BY <1>1, <1>4 DEF Digit, Between
  <2> QED BY <1>1, <1>4, <2>1, <2>2 DEF IsDigit, Byte
<1> QED BY <1>2, <1>3, <1>4

(* Dividing by a base makes a number smaller.                              *)
LEMMA Quotients ==
  ASSUME NEW base, IsBase(base), NEW n \in Nat
  PROVE  /\ n \div base \in Nat /\ n % base \in 0 .. base - 1 /\ base * (n \div base) + (n % base) = n
         /\ n \div base <= n /\ (n # 0 => n \div base < n)
<1>1. base \in Nat /\ base >= 2
  BY DEF IsBase
<1> DEFINE q == n \div base
           r == n % base
<1>2. q \in Int /\ r \in 0 .. base - 1 /\ base * q + r = n
  BY <1>1
<1> HIDE DEF q, r
<1>3. q \in Nat
  <2>1. q < 0 => base * q <= - base
    <3>1. q < 0 => base * (- q - 1) >= 0
      BY <1>1, <1>2
    <3> QED BY <1>1, <1>2, <3>1
  <2>2. base * q >= - r /\ base * q \in Int
    BY <1>1, <1>2
  <2>3. ~ (q < 0)
    BY <1>1, <1>2, <2>1, <2>2
  <2> QED BY <1>2, <2>3
<1>4. 2 * q <= base * q
  <2>1. (base - 2) * q >= 0
    BY <1>1, <1>3
  <2> QED BY <1>1, <1>3, <2>1
<1>5. base * q \in Nat /\ base * q <= n
  BY <1>1, <1>2, <1>3
<1>6. q <= n /\ (n # 0 => q < n)
  BY <1>3, <1>4, <1>5
<1> QED BY <1>2, <1>3, <1>6 DEF q, r

(* f[n] are the digits of n, the last one first.                           *)
Spelled(base, upper, f, n) ==
  f[n] = <<Alphabet(upper, n % base)>> \o IF n \div base = 0 THEN << >> ELSE f[n \div base]

(* The digits of every number up to v exist.                               *)
LEMMA DigitsExist ==
  ASSUME NEW v \in Nat, NEW base, IsBase(base), NEW upper
  PROVE  \E f \in [0 .. v -> Seq(Byte)] : \A n \in 0 .. v : Spelled(base, upper, f, n)
<1> DEFINE D == 0 .. v
           X == Seq(Byte)
           A(n) == Alphabet(upper, n % base)
           m == [n \in D |-> n]
           r == [n \in D |-> IF n \div base = 0 THEN n ELSE n \div base]
           b == [n \in D |-> <<A(n)>>]
           s == [p \in D \X X |-> <<A(p[1])>> \o p[2]]
<1>1. ASSUME NEW n \in D
      PROVE  A(n) \in Byte /\ n \div base \in D /\ (n \div base # 0 => n \div base < n)
  <2>1. n \in Nat /\ 0 \div base = 0
    BY DEF IsBase
  <2>2. n \div base \in Nat /\ n % base \in 0 .. base - 1 /\ n \div base <= n /\ (n # 0 => n \div base < n)
    BY <2>1, Quotients
  <2> QED BY <2>1, <2>2, AlphabetDigit
<1>2. m \in [D -> Nat] /\ r \in [D -> D] /\ b \in [D -> X] /\ s \in [D \X X -> X]
  <2>1. m \in [D -> Nat]
    OBVIOUS
  <2>2. r \in [D -> D]
    <3> HIDE DEF D
    <3> QED BY <1>1
  <2>3. b \in [D -> X]
    <3> HIDE DEF A, D
    <3> QED BY <1>1
  <2>4. s \in [D \X X -> X]
    <3>1. ASSUME NEW p \in D \X X PROVE <<A(p[1])>> \o p[2] \in X
      <4>1. A(p[1]) \in Byte /\ p[2] \in Seq(Byte)
        BY <1>1
      <4> HIDE DEF A
      <4> QED BY <4>1
    <3> HIDE DEF A, D, X
    <3> QED BY <3>1
  <2> QED BY <2>1, <2>2, <2>3, <2>4
<1>3. PICK f \in [D -> X] : \A n \in D : Recurs(D, m, r, b, s, f, n)
  <2> HIDE DEF D, X, m, r, b, s
  <2> QED BY <1>2, RecursExists
<1>4. ASSUME NEW n \in D PROVE Spelled(base, upper, f, n)
  <2>1. f[n] = IF m[r[n]] < m[n] THEN s[<<n, f[r[n]]>>] ELSE b[n]
    BY <1>3 DEF Recurs
  <2> DEFINE q == n \div base
  <2>2. q \in D /\ (q # 0 => q < n) /\ n \in Nat
    BY <1>1
  <2>3. CASE q = 0
    <3>1. r[n] = n
      BY <2>3
    <3>2. f[n] = <<A(n)>>
      <4>1. ~ (m[n] < m[n])
        BY <2>2
      <4> QED BY <2>1, <3>1, <4>1
    <3>3. <<A(n)>> = <<A(n)>> \o << >>
      <4>1. A(n) \in Byte
        BY <1>1
      <4> HIDE DEF A
      <4> QED BY <4>1
    <3> QED BY <2>3, <3>2, <3>3 DEF Spelled
  <2>4. CASE q # 0
    <3>1. r[n] = q /\ m[q] < m[n]
      BY <2>2, <2>4
    <3>2. f[q] \in X
      <4> HIDE DEF D, X, q
      <4> QED BY <1>3, <2>2
    <3>3. s[<<n, f[q]>>] = <<A(n)>> \o f[q]
      <4> HIDE DEF A, q, X
      <4> QED BY <3>2
    <3>4. f[n] = <<A(n)>> \o f[q]
      BY <2>1, <3>1, <3>3
    <3> QED BY <2>4, <3>4 DEF Spelled
  <2> QED BY <2>3, <2>4
<1> QED BY <1>3, <1>4

(* strreverse keeps length and elements.                                   *)
LEMMA ReversedShape ==
  ASSUME NEW S, NEW t \in Seq(S)
  PROVE  /\ strreverse(t) \in Seq(S) /\ Len(strreverse(t)) = Len(t)
         /\ \A i \in 1 .. Len(t) : strreverse(t)[i] = t[Len(t) - i + 1]
<1>1. Len(t) \in Nat
  OBVIOUS
<1>2. ASSUME NEW i \in 1 .. Len(t) PROVE t[Len(t) - i + 1] \in S
  <2>1. Len(t) - i + 1 \in 1 .. Len(t)
    BY <1>1
  <2> QED BY <2>1
<1> DEFINE n == Len(t)
           u == [i \in 1 .. n |-> t[n - i + 1]]
<1>3. u \in [1 .. n -> S]
  BY <1>2
<1>4. u \in Seq(S) /\ Len(u) = n
  BY <1>1, <1>3
<1> QED BY <1>4 DEF strreverse

(* A text with one more character in front, reversed, ends in it.          *)
LEMMA ReverseLonger ==
  ASSUME NEW c \in Byte, NEW t \in Seq(Byte)
  PROVE  strreverse(<<c>> \o t) = Append(strreverse(t), c)
<1> DEFINE u == <<c>> \o t
           n == Len(t)
           w == strreverse(t)
           x == strreverse(u)
<1>1. /\ u \in Seq(Byte) /\ Len(u) = n + 1 /\ n \in Nat /\ u[1] = c
      /\ \A i \in 1 .. n : u[i + 1] = t[i]
  OBVIOUS
<1> HIDE DEF u
<1>2. x \in Seq(Byte) /\ Len(x) = n + 1 /\ \A i \in 1 .. n + 1 : x[i] = u[n + 1 - i + 1]
  <2>1. x \in Seq(Byte) /\ Len(x) = Len(u) /\ \A i \in 1 .. Len(u) : x[i] = u[Len(u) - i + 1]
    BY <1>1, ReversedShape
  <2> QED BY <1>1, <2>1
<1>3. w \in Seq(Byte) /\ Len(w) = n /\ \A i \in 1 .. n : w[i] = t[n - i + 1]
  BY ReversedShape
<1>4. Append(w, c) \in Seq(Byte) /\ Len(Append(w, c)) = n + 1 /\ Append(w, c)[n + 1] = c
      /\ \A i \in 1 .. n : Append(w, c)[i] = w[i]
  <2> HIDE DEF w, n
  <2> QED BY <1>3
<1> HIDE DEF w, x
<1>5. ASSUME NEW i \in 1 .. n + 1 PROVE x[i] = Append(w, c)[i]
  <2>1. CASE i = n + 1
    <3>1. n + 1 - i + 1 = 1
      BY <1>1, <2>1
    <3> QED BY <1>1, <1>2, <1>4, <2>1, <3>1
  <2>2. CASE i \in 1 .. n
    <3>1. n - i + 1 \in 1 .. n /\ n + 1 - i + 1 = (n - i + 1) + 1
      BY <1>1, <2>2
    <3>2. x[i] = t[n - i + 1]
      BY <1>1, <1>2, <3>1
    <3> QED BY <1>3, <1>4, <2>2, <3>2
  <2>3. i = n + 1 \/ i \in 1 .. n
    <3> HIDE DEF n
    <3> QED BY <1>1
  <2> QED BY <2>1, <2>2, <2>3
<1>6. x = Append(w, c)
  <2> DEFINE y == Append(w, c)
             k == n + 1
  <2>1. x \in Seq(Byte) /\ y \in Seq(Byte) /\ Len(x) = k /\ Len(y) = k /\ \A i \in 1 .. k : x[i] = y[i]
    BY <1>2, <1>4, <1>5
  <2> HIDE DEF y, k
  <2>2. x = y
    BY <2>1
  <2> QED BY <2>2 DEF y
<1> QED BY <1>6 DEF x, w, u

(* What the digits t of n, the last one first, are like.                   *)
RightDigits(t, n, base) ==
  /\ t \in Seq(Byte) /\ Len(t) >= 1
  /\ ReadBack(strreverse(t), base) = n
  /\ \A i \in 1 .. Len(t) : IsDigit(t[i], base)
  /\ t[Len(t)] = 48 => n = 0 /\ Len(t) = 1
  /\ \A e \in Nat \ {0} : base >= 10 /\ n < TenTo[e] => Len(t) <= e

(* One digit is right.                                                     *)
LEMMA OneDigit ==
  ASSUME NEW base, IsBase(base), NEW upper, NEW n \in 0 .. base - 1
  PROVE  RightDigits(<<Alphabet(upper, n)>>, n, base)
<1> DEFINE c == Alphabet(upper, n)
           t == <<c>>
<1>1. c \in Byte /\ Digit(c) = n /\ IsDigit(c, base) /\ (c = 48 <=> n = 0)
  BY AlphabetDigit
<1>2. base \in Nat /\ n \in Nat
  BY DEF IsBase
<1> HIDE DEF c
<1>3. t \in Seq(Byte) /\ Len(t) = 1 /\ t[1] = c /\ t[Len(t)] = c
  BY <1>1
<1>4. ReadBack(strreverse(t), base) = n
  <2>1. << >> \in Seq(Byte) /\ <<c>> \o << >> = t /\ Append(<< >>, c) \in Seq(Byte)
    BY <1>1
  <2>2. strreverse(t) = Append(strreverse(<< >>), c)
    BY <1>1, <2>1, ReverseLonger
  <2>3. strreverse(<< >>) = << >>
    <3>1. strreverse(<< >>) \in Seq(Byte) /\ Len(strreverse(<< >>)) = Len(<< >>)
      BY <2>1, ReversedShape
    <3> HIDE DEF t
    <3> QED BY <3>1
  <2>4. ReadBack(Append(<< >>, c), base) = base * 0 + n
    BY <1>1, <1>2, <2>1, ReadBackAppend, ReadBackNothing
  <2> QED BY <1>2, <2>2, <2>3, <2>4
<1> HIDE DEF t
<1> QED BY <1>1, <1>2, <1>3, <1>4 DEF RightDigits, c, t

(* One digit more in front of right ones is right.                         *)
LEMMA MoreDigits ==
  ASSUME NEW base, IsBase(base), NEW upper, NEW n \in Nat, n \div base # 0,
         NEW u, RightDigits(u, n \div base, base)
  PROVE  RightDigits(<<Alphabet(upper, n % base)>> \o u, n, base)
<1> DEFINE q == n \div base
           c == Alphabet(upper, n % base)
           t == <<c>> \o u
<1>1. q \in Nat /\ base * q + (n % base) = n /\ n % base \in 0 .. base - 1 /\ base \in Nat
  BY Quotients DEF IsBase
<1>2. c \in Byte /\ Digit(c) = n % base /\ IsDigit(c, base)
  BY <1>1, AlphabetDigit
<1>3. /\ u \in Seq(Byte) /\ Len(u) >= 1 /\ Len(u) \in Nat /\ ReadBack(strreverse(u), base) = q
      /\ \A i \in 1 .. Len(u) : IsDigit(u[i], base)
      /\ u[Len(u)] = 48 => q = 0 /\ Len(u) = 1
      /\ \A e \in Nat \ {0} : base >= 10 /\ q < TenTo[e] => Len(u) <= e
  BY DEF RightDigits
<1>4. q # 0
  OBVIOUS
<1> HIDE DEF c, q
<1>5. /\ t \in Seq(Byte) /\ Len(t) = Len(u) + 1 /\ t[1] = c
      /\ \A i \in 1 .. Len(u) : t[i + 1] = u[i]
  BY <1>2, <1>3
<1>6. ReadBack(strreverse(t), base) = n
  <2>1. strreverse(t) = Append(strreverse(u), c)
    BY <1>2, <1>3, ReverseLonger
  <2>2. strreverse(u) \in Seq(Byte)
    BY <1>3, ReversedShape
  <2>3. ReadBack(Append(strreverse(u), c), base) = base * q + Digit(c)
    BY <1>1, <1>2, <1>3, <2>2, ReadBackAppend
  <2> QED BY <1>1, <1>2, <2>1, <2>3
<1> HIDE DEF t
<1>7. ASSUME NEW i \in 1 .. Len(t) PROVE IsDigit(t[i], base)
  <2>1. CASE i = 1
    BY <1>2, <1>5, <2>1
  <2>2. CASE i # 1
    <3>1. i - 1 \in 1 .. Len(u) /\ (i - 1) + 1 = i
      BY <1>3, <1>5, <2>2
    <3>2. t[(i - 1) + 1] = u[i - 1] /\ IsDigit(u[i - 1], base)
      BY <1>3, <1>5, <3>1
    <3> QED BY <3>1, <3>2
  <2> QED BY <2>1, <2>2
<1>8. t[Len(t)] # 48
  <2>1. Len(u) \in 1 .. Len(u) /\ Len(t) = Len(u) + 1
    BY <1>3, <1>5
  <2>2. t[Len(t)] = u[Len(u)]
    BY <1>5, <2>1
  <2> QED BY <1>3, <1>4, <2>2
<1>9. ASSUME NEW e \in Nat \ {0}, base >= 10, n < TenTo[e] PROVE Len(t) <= e
  <2> DEFINE k == e - 1
             x == TenTo[k]
  <2>1. k \in Nat /\ k + 1 = e
    OBVIOUS
  <2>2. x \in Nat \ {0} /\ TenTo[e] = 10 * x
    <3> HIDE DEF k
    <3>1. TenTo[k + 1] = 10 * TenTo[k] /\ TenTo[k] \in Nat \ {0}
      BY <2>1, TenRecurs
    <3> QED BY <2>1, <3>1
  <2>3. q < x
    <3>1. 10 * q <= base * q
      <4>1. (base - 10) * q >= 0
        BY <1>1, <1>9
      <4> QED BY <1>1, <4>1
    <3>2. base * q <= n /\ base * q \in Nat
      BY <1>1
    <3>3. 10 * q < 10 * x
      <4> HIDE DEF x
      <4> QED BY <1>1, <1>9, <2>2, <3>1, <3>2
    <3> HIDE DEF x
    <3> QED BY <1>1, <2>2, <3>3
  <2>4. k # 0
    <3>1. k = 0 => x = 1
      BY TenRecurs
    <3> HIDE DEF x, k
    <3> QED BY <1>1, <1>4, <2>3, <3>1
  <2>5. Len(u) <= k
    <3> HIDE DEF k
    <3> QED BY <1>3, <1>9, <2>1, <2>3, <2>4
  <2> QED BY <1>3, <1>5, <2>5
<1>10. Len(t) >= 1
  BY <1>3, <1>5
<1>11. RightDigits(t, n, base)
  BY <1>5, <1>6, <1>7, <1>8, <1>9, <1>10 DEF RightDigits
<1> QED BY <1>11 DEF t, c

(* So the digits of every number are right.                                *)
LEMMA SpelledRight ==
  ASSUME NEW v \in Nat, NEW base, IsBase(base), NEW upper,
         NEW f, \A n \in 0 .. v : Spelled(base, upper, f, n)
  PROVE  RightDigits(f[v], v, base)
<1> DEFINE S == {k \in Nat : \A n \in 0 .. v : n < k => RightDigits(f[n], n, base)}
<1>1. 0 \in S
  OBVIOUS
<1>2. ASSUME NEW k \in Nat, k \in S PROVE k + 1 \in S
  <2> SUFFICES ASSUME NEW n \in 0 .. v, n < k + 1 PROVE RightDigits(f[n], n, base)
    OBVIOUS
  <2> DEFINE q == n \div base
             c == Alphabet(upper, n % base)
  <2>1. n \in Nat /\ q \in Nat /\ n % base \in 0 .. base - 1 /\ base * q + (n % base) = n /\ q <= n
        /\ (n # 0 => q < n) /\ base \in Nat
    BY Quotients DEF IsBase
  <2>2. f[n] = <<c>> \o IF q = 0 THEN << >> ELSE f[q]
    BY DEF Spelled
  <2>3. CASE q = 0
    <3>1. n % base = n
      <4> HIDE DEF q
      <4>1. base * q = 0
        BY <2>1, <2>3
      <4> QED BY <2>1, <4>1
    <3>2. RightDigits(<<c>>, n, base)
      <4>1. n \in 0 .. base - 1
        BY <2>1, <3>1
      <4> QED BY <3>1, <4>1, OneDigit
    <3>3. <<c>> \o << >> = <<c>>
      <4>1. c \in Byte
        BY <2>1, AlphabetDigit
      <4> HIDE DEF c
      <4> QED BY <4>1
    <3> QED BY <2>2, <2>3, <3>2, <3>3
  <2>4. CASE q # 0
    <3>1. q \in 0 .. v /\ q < k
      <4>1. 0 \div base = 0
        BY DEF IsBase
      <4>2. n # 0
        BY <2>4, <4>1
      <4> HIDE DEF q
      <4> QED BY <2>1, <4>2
    <3>2. RightDigits(f[q], q, base)
      <4> HIDE DEF q
      <4> QED BY <1>2, <3>1
    <3>3. RightDigits(<<c>> \o f[q], n, base)
      BY <2>1, <2>4, <3>2, MoreDigits
    <3> QED BY <2>2, <2>4, <3>3
  <2> QED BY <2>3, <2>4
<1> HIDE DEF S
<1>3. Nat \subseteq S
  BY <1>1, <1>2, Induct
<1>4. v + 1 \in S
  BY <1>3
<1> QED BY <1>4 DEF S

(* IntToAlpha reverses digits that are right, read from the back.          *)
LEMMA AlphaOfNat ==
  ASSUME NEW T, IsType(T), NEW v \in Nat, v < Bit[T.bits], NEW base, IsBase(base), NEW upper
  PROVE  \E t : RightDigits(t, v, base) /\ IntToAlpha(v, base, upper, T) = strreverse(t)
<1> DEFINE D == {v} \cup 0 .. v
           Eq(f) == f = [n \in D |->
                      LET r == Div_(n, base, T)
                      IN  <<Alphabet(upper, r.remainder)>>
                          \o IF r.quotient = 0 THEN << >> ELSE f[r.quotient]]
           f == CHOOSE g : Eq(g)
<1>1. BaseValid(base) /\ base \in Nat \ {0}
  BY DEF BaseValid, IsBase
<1>2. D = 0 .. v
  OBVIOUS
<1>3. ASSUME NEW n \in D PROVE Div_(n, base, T) = [quotient |-> n \div base, remainder |-> n % base]
  <2>1. n \in Nat /\ n < Bit[T.bits]
    <3>1. Bit[T.bits] \in Nat
      BY TopOfType
    <3> QED BY <1>2, <3>1
  <2> QED BY <1>1, <2>1, DivDivides
<1>4. ASSUME NEW g
      PROVE  Eq(g) <=> g = [n \in D |-> <<Alphabet(upper, n % base)>>
                              \o IF n \div base = 0 THEN << >> ELSE g[n \div base]]
  <2>1. [n \in D |-> LET r == Div_(n, base, T)
                     IN  <<Alphabet(upper, r.remainder)>>
                         \o IF r.quotient = 0 THEN << >> ELSE g[r.quotient]]
        = [n \in D |-> <<Alphabet(upper, n % base)>>
                              \o IF n \div base = 0 THEN << >> ELSE g[n \div base]]
    <3> HIDE DEF D
    <3> QED BY <1>3
  <2> HIDE DEF D
  <2> QED BY <2>1
<1>5. Eq(f)
  <2>1. PICK g \in [0 .. v -> Seq(Byte)] : \A n \in 0 .. v : Spelled(base, upper, g, n)
    BY DigitsExist
  <2>2. g = [n \in D |-> <<Alphabet(upper, n % base)>>
                           \o IF n \div base = 0 THEN << >> ELSE g[n \div base]]
    <3>1. g = [n \in D |-> g[n]]
      BY <1>2, <2>1
    <3>2. \A n \in D : g[n] = <<Alphabet(upper, n % base)>>
                                \o IF n \div base = 0 THEN << >> ELSE g[n \div base]
      BY <1>2, <2>1 DEF Spelled
    <3> HIDE DEF D
    <3> QED BY <3>1, <3>2
  <2>3. Eq(g)
    <3> HIDE DEF D, Eq
    <3> QED BY <1>4, <2>2
  <2> HIDE DEF Eq
  <2> QED BY <2>3
<1>6. \A n \in 0 .. v : Spelled(base, upper, f, n)
  <2> HIDE DEF f
  <2>1. f = [n \in D |-> <<Alphabet(upper, n % base)>>
                           \o IF n \div base = 0 THEN << >> ELSE f[n \div base]]
    <3> HIDE DEF Eq, D
    <3> QED BY <1>4, <1>5
  <2> HIDE DEF D
  <2> QED BY <1>2, <2>1 DEF Spelled
<1>7. IntToAlpha(v, base, upper, T) = strreverse(f[v] \o << >>)
  <2>1. ~ (v < 0)
    OBVIOUS
  <2> QED BY <1>1, <2>1 DEF IntToAlpha
<1> HIDE DEF f
<1>8. RightDigits(f[v], v, base)
  BY <1>6, SpelledRight
<1>9. f[v] \o << >> = f[v]
  BY <1>8 DEF RightDigits
<1> QED BY <1>7, <1>8, <1>9

(* What IntToAlpha writes: the digits of the number, none too many.        *)
DigitsOf(t, v, base) ==
  /\ t \in Seq(Byte) /\ Len(t) >= 1
  /\ ReadBack(t, base) = v
  /\ \A i \in 1 .. Len(t) : IsDigit(t[i], base)
  /\ t[1] = 48 => v = 0 /\ Len(t) = 1
  /\ \A e \in Nat \ {0} : base >= 10 /\ v < TenTo[e] => Len(t) <= e

(* IntToAlpha writes the digits of every number that is not negative, in   *)
(* every type and every base it accepts.                                   *)
THEOREM DigitsWritten ==
  ASSUME NEW T, IsType(T), NEW v \in Nat, v < Bit[T.bits], NEW base, IsBase(base), NEW upper
  PROVE  DigitsOf(IntToAlpha(v, base, upper, T), v, base)
<1>1. PICK t : RightDigits(t, v, base) /\ IntToAlpha(v, base, upper, T) = strreverse(t)
  BY AlphaOfNat
<1> DEFINE u == strreverse(t)
<1>2. /\ t \in Seq(Byte) /\ Len(t) >= 1 /\ Len(t) \in Nat /\ ReadBack(u, base) = v
      /\ \A i \in 1 .. Len(t) : IsDigit(t[i], base)
      /\ t[Len(t)] = 48 => v = 0 /\ Len(t) = 1
      /\ \A e \in Nat \ {0} : base >= 10 /\ v < TenTo[e] => Len(t) <= e
  BY <1>1 DEF RightDigits
<1>3. u \in Seq(Byte) /\ Len(u) = Len(t) /\ \A i \in 1 .. Len(t) : u[i] = t[Len(t) - i + 1]
  BY <1>2, ReversedShape
<1> HIDE DEF u
<1>4. u[1] = t[Len(t)]
  <2>1. 1 \in 1 .. Len(t) /\ Len(t) - 1 + 1 = Len(t)
    BY <1>2
  <2> QED BY <1>3, <2>1
<1>5. ASSUME NEW i \in 1 .. Len(u) PROVE IsDigit(u[i], base)
  <2>1. Len(t) - i + 1 \in 1 .. Len(t) /\ i \in 1 .. Len(t)
    BY <1>2, <1>3
  <2> QED BY <1>2, <1>3, <2>1
<1>6. DigitsOf(u, v, base)
  BY <1>2, <1>3, <1>4, <1>5 DEF DigitsOf
<1> QED BY <1>1, <1>6 DEF u

(* The only digit of a negative number is looked up in front of the        *)
(* alphabet.                                                               *)
LEMMA AlphaOfNegative ==
  ASSUME NEW T, IsType(T), NEW v \in Int, v < 0, NEW base, IsBase(base), NEW upper
  PROVE  IntToAlpha(v, base, upper, T) = <<45, Junk>>
<1> DEFINE D == {v} \cup 0 .. v
           Eq(f) == f = [n \in D |->
                      LET r == Div_(n, base, T)
                      IN  <<Alphabet(upper, r.remainder)>>
                          \o IF r.quotient = 0 THEN << >> ELSE f[r.quotient]]
           f == CHOOSE g : Eq(g)
<1>1. BaseValid(base) /\ base \in Nat \ {0}
  BY DEF BaseValid, IsBase
<1>2. Div_(v, base, T) = [quotient |-> 0, remainder |-> v]
  BY <1>1, DivNegative
<1>3. Alphabet(upper, v) = Junk
  BY DEF Alphabet
<1>4. D = {v}
  OBVIOUS
<1>5. <<Junk>> \o << >> = <<Junk>>
  <2>1. <<Junk>> \in Seq({Junk})
    OBVIOUS
  <2> QED BY <2>1
<1> HIDE DEF D
<1>6. ASSUME NEW g, Eq(g) PROVE g[v] = <<Junk>>
  <2>1. g[v] = <<Alphabet(upper, v)>> \o << >>
    BY <1>2, <1>4, <1>6
  <2> QED BY <1>3, <1>5, <2>1
<1>7. \E g : Eq(g)
  <2> DEFINE g == [n \in D |-> <<Junk>>]
  <2>1. \A n \in D : g[n] = LET r == Div_(n, base, T)
                            IN  <<Alphabet(upper, r.remainder)>>
                                \o IF r.quotient = 0 THEN << >> ELSE g[r.quotient]
    BY <1>2, <1>3, <1>4, <1>5
  <2>2. Eq(g)
    BY <2>1
  <2> QED BY <2>2
<1>8. f[v] = <<Junk>>
  <2>1. Eq(f)
    <3> HIDE DEF Eq
    <3> QED BY <1>7
  <2> HIDE DEF f, Eq
  <2> QED BY <1>6, <2>1
<1>9. IntToAlpha(v, base, upper, T) = strreverse(f[v] \o <<45>>)
  BY <1>1 DEF IntToAlpha, D
<1>10. IntToAlpha(v, base, upper, T) = strreverse(<<Junk, 45>>)
  <2> DEFINE S == {Junk, 45}
  <2>1. <<Junk>> \in Seq(S) /\ <<45>> \in Seq(S)
    OBVIOUS
  <2>2. <<Junk>> \o <<45>> = <<Junk, 45>>
    <3> DEFINE x == <<Junk>> \o <<45>>
               y == <<Junk, 45>>
    <3>1. x \in Seq(S) /\ Len(x) = 2 /\ x[1] = Junk /\ x[2] = 45
      BY <2>1
    <3>2. y \in Seq(S) /\ Len(y) = 2 /\ y[1] = Junk /\ y[2] = 45
      OBVIOUS
    <3> HIDE DEF x, y, S
    <3>3. x = y
      BY <3>1, <3>2
    <3> QED BY <3>3 DEF x, y
  <2> HIDE DEF f
  <2> QED BY <1>8, <1>9, <2>2
<1>11. strreverse(<<Junk, 45>>) = <<45, Junk>>
  <2> DEFINE S == {Junk, 45}
             t == <<Junk, 45>>
             u == <<45, Junk>>
             w == strreverse(t)
  <2>1. /\ t \in Seq(S) /\ Len(t) = 2 /\ t[1] = Junk /\ t[2] = 45
        /\ u \in Seq(S) /\ Len(u) = 2 /\ u[1] = 45 /\ u[2] = Junk
    OBVIOUS
  <2> HIDE DEF S, t, u
  <2>2. w \in Seq(S) /\ Len(w) = 2 /\ \A i \in 1 .. 2 : w[i] = t[2 - i + 1]
    <3>1. strreverse(t) \in Seq(S) /\ Len(strreverse(t)) = Len(t)
          /\ \A i \in 1 .. Len(t) : strreverse(t)[i] = t[Len(t) - i + 1]
      BY <2>1, ReversedShape
    <3> QED BY <2>1, <3>1
  <2> HIDE DEF w
  <2>3. w[1] = t[2] /\ w[2] = t[1]
    <3>1. 1 \in 1 .. 2 /\ 2 \in 1 .. 2 /\ 2 - 1 + 1 = 2 /\ 2 - 2 + 1 = 1
      OBVIOUS
    <3> QED BY <2>2, <3>1
  <2>4. w = u
    BY <2>1, <2>2, <2>3
  <2> QED BY <2>4 DEF w, t, u
<1> QED BY <1>10, <1>11

(* strtol() reads back the digits that a string holds.                     *)
LEMMA strtolReads ==
  ASSUME NEW s, NEW t, Carries(s, t), Ended(s), s.alloc \in Nat, Len(t) < s.alloc,
         NEW v \in Nat, DigitsOf(t, v, 10)
  PROVE  strtol(s.cells, 10) = v
<1> DEFINE m == s.cells
           n == Len(t)
           A == {p \in DOMAIN m : ~ IsBlank(m[p])}
           start == Min(A)
           first == IF m[start] \in {43, 45} THEN start + 1 ELSE start
           Z == {p \in DOMAIN m : p >= first /\ ~ IsDigit(m[p], 10)}
           stop == Min(Z)
           V == CHOOSE value : value = [k \in 0 .. stop - first |->
                  IF k = 0 THEN 0 ELSE 10 * value[k - 1] + Digit(m[first + k - 1])]
<1>1. strtol(s.cells, 10) = IF m[start] = 45 THEN - V[stop - first] ELSE V[stop - first]
  BY DEF strtol
<1>2. /\ t \in Seq(Byte) /\ n \in Nat /\ n >= 1 /\ DOMAIN m = 0 .. s.alloc - 1 /\ m[n] = NUL
      /\ \A i \in 0 .. n - 1 : m[i] = t[i + 1]
      /\ \A i \in 1 .. n : t[i] \in Byte /\ IsDigit(t[i], 10)
  BY DEF Carries, Ended, DigitsOf
<1>3. ASSUME NEW c \in Byte, IsDigit(c, 10) PROVE c \in 48 .. 57
  <2>1. c \in 0 .. 255 /\ Digit(c) < 10
    BY <1>3 DEF IsDigit, Byte
  <2>2. CASE Between(c, 65, 90)
    <3>1. ~ Between(c, 48, 57) /\ c >= 65
      BY <2>1, <2>2 DEF Between
    <3>2. ~ Between(c, 97, 122)
      BY <2>1, <2>2 DEF Between
    <3>3. Digit(c) = c - 55
      BY <2>2, <3>1, <3>2 DEF Digit
    <3> QED BY <2>1, <3>1, <3>3
  <2>3. CASE Between(c, 97, 122)
    <3>1. Digit(c) = c - 87 /\ c >= 97
      BY <2>1, <2>3 DEF Digit, Between
    <3> QED BY <2>1, <3>1
  <2>4. CASE ~ Between(c, 48, 57) /\ ~ Between(c, 65, 90) /\ ~ Between(c, 97, 122)
    <3>1. Digit(c) = 99
      BY <2>4 DEF Digit
    <3> QED BY <2>1, <3>1
  <2>5. CASE Between(c, 48, 57)
    BY <2>1, <2>5 DEF Between
  <2> QED BY <2>2, <2>3, <2>4, <2>5
<1> HIDE DEF m
<1>4. m[0] \in 48 .. 57
  <2>1. 0 \in 0 .. n - 1 /\ 0 + 1 = 1 /\ 1 \in 1 .. n
    BY <1>2
  <2>2. m[0] = t[1] /\ t[1] \in Byte /\ IsDigit(t[1], 10)
    BY <1>2, <2>1
  <2> QED BY <1>3, <2>2
<1>5. start = 0
  <2>1. 0 \in DOMAIN m /\ DOMAIN m \subseteq Nat
    BY <1>2
  <2>2. ~ IsBlank(m[0])
    BY <1>4 DEF IsBlank, Between
  <2>3. A \subseteq Nat /\ 0 \in A /\ \A p \in A : 0 <= p
    BY <2>1, <2>2
  <2> HIDE DEF A
  <2> QED BY <2>3, MinIs
<1>6. first = 0 /\ m[start] # 45
  BY <1>4, <1>5
<1>7. stop = n
  <2>1. n \in DOMAIN m /\ DOMAIN m \subseteq Nat
    BY <1>2
  <2>2. ~ IsDigit(m[n], 10)
    BY <1>2 DEF IsDigit, Digit, Between, NUL
  <2>3. ASSUME NEW p \in Z PROVE n <= p
    <3>1. p \in Nat /\ ~ IsDigit(m[p], 10)
      BY <2>1
    <3>2. ~ (p \in 0 .. n - 1)
      <4>1. p \in 0 .. n - 1 => m[p] = t[p + 1] /\ p + 1 \in 1 .. n
        BY <1>2
      <4> QED BY <1>2, <3>1, <4>1
    <3> QED BY <1>2, <3>1, <3>2
  <2>4. Z \subseteq Nat /\ n \in Z
    <3> HIDE DEF first
    <3> QED BY <1>2, <1>6, <2>1, <2>2
  <2> HIDE DEF Z
  <2> QED BY <2>3, <2>4, MinIs
<1> HIDE DEF A, start, first, Z, stop
<1>8. V = [k \in 0 .. stop - first |->
             IF k = 0 THEN 0 ELSE 10 * V[k - 1] + Digit(m[first + k - 1])]
  <2>1. PICK f \in [0 .. Len(t) -> Nat] : Reads(t, 10, f) /\ ReadBack(t, 10) = f[Len(t)]
    BY <1>2, ReadBackIs
  <2>2. ASSUME NEW k \in 0 .. stop - first
        PROVE  f[k] = IF k = 0 THEN 0 ELSE 10 * f[k - 1] + Digit(m[first + k - 1])
    <3>1. CASE k = 0
      BY <2>1, <3>1 DEF Reads
    <3>2. CASE k # 0
      <4>1. k \in 1 .. n /\ first + k - 1 = k - 1 /\ k - 1 \in 0 .. n - 1 /\ (k - 1) + 1 = k
        BY <1>2, <1>6, <1>7, <3>2
      <4>2. m[first + k - 1] = t[k]
        BY <1>2, <4>1
      <4>3. f[k] = 10 * f[k - 1] + Digit(t[k])
        BY <2>1, <4>1 DEF Reads
      <4> QED BY <3>2, <4>2, <4>3
    <3> QED BY <3>1, <3>2
  <2>3. f = [k \in 0 .. stop - first |-> f[k]]
    <3>1. stop - first = Len(t)
      BY <1>2, <1>6, <1>7
    <3> QED BY <2>1, <3>1
  <2>4. f = [k \in 0 .. stop - first |->
               IF k = 0 THEN 0 ELSE 10 * f[k - 1] + Digit(m[first + k - 1])]
    BY <2>2, <2>3
  <2> QED BY <2>4
<1> HIDE DEF V
<1>9. Reads(t, 10, V)
  <2>1. stop - first = n
    BY <1>2, <1>6, <1>7
  <2>2. V[0] = 0
    <3>1. 0 \in 0 .. stop - first
      BY <1>2, <2>1
    <3> QED BY <1>8, <3>1
  <2>3. ASSUME NEW k \in 1 .. n PROVE V[k] = 10 * V[k - 1] + Digit(t[k])
    <3>1. k \in 0 .. stop - first /\ k # 0 /\ first + k - 1 = k - 1 /\ k - 1 \in 0 .. n - 1 /\ (k - 1) + 1 = k
      BY <1>2, <1>6, <2>1
    <3>2. m[first + k - 1] = t[k]
      BY <1>2, <3>1
    <3>3. V[k] = 10 * V[k - 1] + Digit(m[first + k - 1])
      BY <1>8, <3>1
    <3> QED BY <3>2, <3>3
  <2> QED BY <2>2, <2>3 DEF Reads
<1>10. V[n] = v
  <2>1. ReadBack(t, 10) = V[Len(t)]
    BY <1>2, <1>9, ReadBackOf
  <2> QED BY <2>1 DEF DigitsOf
<1>11. stop - first = n
  BY <1>2, <1>6, <1>7
<1> QED BY <1>1, <1>6, <1>10, <1>11

(* Zeros in front of the digits.                                           *)
Zeros(k) == [i \in 1 .. k |-> 48]

(* f[k] is s with k zeros appended, char by char.                          *)
Padded(s, f, n) == \A k \in 0 .. n : f[k] = IF k = 0 THEN s ELSE AppendChar(f[k - 1], 48)

(* The recursive function in AppendInteger is defined.                     *)
LEMMA PaddedExists ==
  ASSUME NEW s, NEW n \in Nat
  PROVE  \E f : Padded(s, f, n)
<1> DEFINE S == {k \in Nat : \E f : Padded(s, f, k)}
<1>1. 0 \in S
  <2> DEFINE f == [k \in {0} |-> s]
  <2>1. Padded(s, f, 0)
    BY DEF Padded
  <2> QED BY <2>1
<1>2. ASSUME NEW k \in Nat, k \in S PROVE k + 1 \in S
  <2>1. PICK f : Padded(s, f, k)
    BY <1>2
  <2> DEFINE c == AppendChar(f[k], 48)
             g == [i \in 0 .. k + 1 |-> IF i = k + 1 THEN c ELSE f[i]]
  <2>2. ASSUME NEW i \in 0 .. k + 1 PROVE g[i] = IF i = 0 THEN s ELSE AppendChar(g[i - 1], 48)
    <3>1. CASE i = k + 1
      <4>1. g[i] = c /\ i - 1 = k /\ k \in 0 .. k + 1 /\ k # k + 1 /\ i # 0
        BY <3>1
      <4>2. g[k] = f[k]
        BY <4>1
      <4> HIDE DEF g
      <4> QED BY <4>1, <4>2
    <3>2. CASE i \in 0 .. k
      <4>1. g[i] = f[i] /\ (i # 0 => g[i - 1] = f[i - 1])
        BY <3>2
      <4>2. f[i] = IF i = 0 THEN s ELSE AppendChar(f[i - 1], 48)
        BY <2>1, <3>2 DEF Padded
      <4> HIDE DEF g
      <4> QED BY <4>1, <4>2
    <3>3. i = k + 1 \/ i \in 0 .. k
      OBVIOUS
    <3> QED BY <3>1, <3>2, <3>3
  <2> HIDE DEF g
  <2>3. Padded(s, g, k + 1)
    BY <2>2 DEF Padded
  <2> QED BY <2>3
<1> HIDE DEF S
<1>3. Nat \subseteq S
  BY <1>1, <1>2, Induct
<1> QED BY <1>3 DEF S

(* It appends the zeros to the text and keeps the block sound.             *)
LEMMA PaddedText ==
  ASSUME NEW s, Sound(s), Carries(s, << >>), NEW n \in Nat, n + 1 <= SizeMax, NEW f, Padded(s, f, n)
  PROVE  Sound(f[n]) /\ Carries(f[n], Zeros(n)) /\ f[n].length = n
<1> DEFINE P(k) == Sound(f[k]) /\ Carries(f[k], Zeros(k)) /\ f[k].length = k
           S == {k \in Nat : k <= n => P(k)}
<1>1. 0 \in S
  <2>1. f[0] = s
    BY DEF Padded
  <2>2. Zeros(0) = << >>
    BY DEF Zeros
  <2>3. s.length = 0
    BY DEF Carries
  <2> QED BY <2>1, <2>2, <2>3
<1>2. ASSUME NEW k \in Nat, k \in S PROVE k + 1 \in S
  <2> SUFFICES ASSUME k + 1 <= n PROVE P(k + 1)
    OBVIOUS
  <2>1. P(k)
    BY <1>2
  <2>2. f[k + 1] = AppendText(f[k], <<48>>)
    <3>1. k + 1 \in 0 .. n /\ k + 1 # 0 /\ (k + 1) - 1 = k
      OBVIOUS
    <3> QED BY <3>1 DEF Padded, AppendChar
  <2>3. <<48>> \in Seq(Byte) /\ Len(<<48>>) = 1 /\ SizeMax \in Nat
    BY SizeAssumption DEF Byte
  <2>4. f[k].length + Len(<<48>>) + 1 <= SizeMax
    BY <2>1, <2>3
  <2>5. Sound(f[k + 1]) /\ f[k + 1].length = k + 1
    BY <2>1, <2>2, <2>3, <2>4, AppendSound
  <2>6. Carries(f[k + 1], Zeros(k) \o <<48>>)
    BY <2>1, <2>2, <2>3, <2>4, AppendCarries
  <2>7. Zeros(k) \o <<48>> = Zeros(k + 1)
    <3> DEFINE a == Zeros(k)
               b == a \o <<48>>
               c == Zeros(k + 1)
    <3>1. a \in Seq(Byte) /\ Len(a) = k /\ \A i \in 1 .. k : a[i] = 48
      <4>1. 48 \in Byte
        BY DEF Byte
      <4> QED BY <4>1 DEF Zeros
    <3>2. c \in Seq(Byte) /\ Len(c) = k + 1 /\ \A i \in 1 .. k + 1 : c[i] = 48
      <4>1. 48 \in Byte
        BY DEF Byte
      <4> QED BY <4>1 DEF Zeros
    <3> HIDE DEF a, c
    <3>3. b \in Seq(Byte) /\ Len(b) = k + 1 /\ b[k + 1] = 48 /\ \A i \in 1 .. k : b[i] = 48
      BY <2>3, <3>1
    <3> HIDE DEF b
    <3>4. b = c
      <4>1. \A i \in 1 .. k + 1 : i = k + 1 \/ i \in 1 .. k
        OBVIOUS
      <4> QED BY <3>2, <3>3, <4>1
    <3> QED BY <3>4 DEF a, b, c
  <2> QED BY <2>5, <2>6, <2>7
<1> HIDE DEF S
<1>3. Nat \subseteq S
  BY <1>1, <1>2, Induct
<1> QED BY <1>3 DEF S

(* A string starts sound, empty and with its terminator.                   *)
LEMMA NothingSound ==
  Sound(NoBlock) /\ Carries(NoBlock, << >>) /\ NoBlock.length = 0
<1>1. Sound(NoBlock) /\ NoBlock.length = 0
  BY DEF NoBlock, Sound, Sizes
<1>2. NoBlock.cells = [i \in 0 .. 0 - 1 |-> Junk] /\ NoBlock.alloc = 0 /\ NoBlock.length = 0
  BY DEF NoBlock, Malloc
<1>3. << >> \in Seq(Byte) /\ Len(<< >>) = 0
  OBVIOUS
<1>4. Carries(NoBlock, << >>)
  BY <1>2, <1>3 DEF Carries
<1> QED BY <1>1, <1>4

(* What Append...Integer appends to an empty string, when it is a text.    *)
LEMMA IntegerText ==
  ASSUME NEW v, NEW base, NEW width \in Nat, NEW upper, NEW T,
         NEW t \in Seq(Byte), t = IntToAlpha(v, base, upper, T), t # << >>,
         width + Len(t) + 1 <= SizeMax
  PROVE  LET r == AppendInteger(NoBlock, v, base, width, upper, T)
             k == IF Len(t) < width THEN width - Len(t) ELSE 0
         IN  Sound(r) /\ Carries(r, Zeros(k) \o t) /\ Ended(r)
<1> DEFINE k == IF Len(t) < width THEN width - Len(t) ELSE 0
           r == AppendInteger(NoBlock, v, base, width, upper, T)
           F == CHOOSE f : f = [i \in 0 .. width |-> IF i = 0 THEN NoBlock ELSE AppendChar(f[i - 1], 48)]
<1>1. Len(t) \in Nat /\ Len(t) # 0 /\ SizeMax \in Nat
  BY SizeAssumption
<1>2. k \in 0 .. width /\ k \in Nat
  BY <1>1
<1>3. r = AppendText(F[k], t)
  BY DEF AppendInteger
<1>4. F = [i \in 0 .. width |-> IF i = 0 THEN NoBlock ELSE AppendChar(F[i - 1], 48)]
  <2>1. PICK f : Padded(NoBlock, f, width)
    BY PaddedExists
  <2> DEFINE g == [i \in 0 .. width |-> f[i]]
  <2>2. ASSUME NEW i \in 0 .. width
        PROVE  g[i] = IF i = 0 THEN NoBlock ELSE AppendChar(g[i - 1], 48)
    <3>1. i # 0 => i - 1 \in 0 .. width
      OBVIOUS
    <3>2. g[i] = f[i] /\ (i # 0 => g[i - 1] = f[i - 1])
      BY <3>1
    <3> HIDE DEF g
    <3> QED BY <2>1, <3>2 DEF Padded
  <2>3. g = [i \in 0 .. width |-> g[i]]
    OBVIOUS
  <2> HIDE DEF g
  <2>4. g = [i \in 0 .. width |-> IF i = 0 THEN NoBlock ELSE AppendChar(g[i - 1], 48)]
    BY <2>2, <2>3
  <2> QED BY <2>4
<1> HIDE DEF F, r, k
<1>5. Padded(NoBlock, F, k)
  <2>1. ASSUME NEW i \in 0 .. k PROVE F[i] = IF i = 0 THEN NoBlock ELSE AppendChar(F[i - 1], 48)
    <3>1. i \in 0 .. width
      BY <1>2
    <3> QED BY <1>4, <3>1
  <2> QED BY <2>1 DEF Padded
<1>6. Sound(F[k]) /\ Carries(F[k], Zeros(k)) /\ F[k].length = k
  <2>1. k + 1 <= SizeMax
    BY <1>1, <1>2
  <2> QED BY <1>2, <1>5, <2>1, NothingSound, PaddedText
<1>7. F[k].length + Len(t) + 1 <= SizeMax
  <2>1. k <= width
    BY <1>2
  <2> QED BY <1>1, <1>2, <1>6, <2>1
<1>8. Sound(r)
  BY <1>3, <1>6, <1>7, AppendSound
<1>9. Carries(r, Zeros(k) \o t) /\ Ended(r)
  BY <1>3, <1>6, <1>7, AppendCarries
<1> QED BY <1>8, <1>9 DEF r, k

(* ToInteger reads what AppendDecimal wrote.                               *)
LEMMA DecimalReadBack ==
  ASSUME NEW T, IsType(T), NEW v \in Nat, v \in Values(T),
         DigitBuffer <= SizeMax, DigitsFit(T)
  PROVE  ToInteger(AppendDecimal(NoBlock, v, T), T.bits, T.signed) = v
<1> DEFINE t == IntToAlpha(v, 10, FALSE, T)
           r == AppendDecimal(NoBlock, v, T)
           B == Bit[T.bits - 1]
<1>1. B \in Nat \ {0} /\ Bit[T.bits] = 2 * B /\ SizeMax \in Nat /\ DigitBuffer \in Nat
  BY TopOfType, SizeAssumption DEF DigitsFit
<1>2. v < 2 * B /\ (T.signed => v < B)
  BY <1>1 DEF Values, IsType
<1>3. IsBase(10)
  BY DEF IsBase
<1>4. DigitsOf(t, v, 10)
  BY <1>1, <1>2, <1>3, DigitsWritten
<1> HIDE DEF t
<1>5. t \in Seq(Byte) /\ Len(t) >= 1 /\ Len(t) \in Nat /\ t # << >>
  BY <1>4 DEF DigitsOf
<1>6. Len(t) + 1 <= DigitBuffer
  <2> DEFINE e == DigitBuffer - 1
  <2>1. e \in Nat \ {0} /\ Bit[T.bits] <= TenTo[e] /\ TenTo[e] \in Nat
    <3>1. e \in Nat \ {0} /\ Bit[T.bits] <= TenTo[e]
      BY DEF DigitsFit
    <3> QED BY <3>1, TenRecurs
  <2>2. v < TenTo[e]
    BY <1>1, <1>2, <2>1
  <2>3. Len(t) <= e
    <3> HIDE DEF e
    <3> QED BY <1>4, <2>1, <2>2 DEF DigitsOf
  <2> QED BY <1>1, <1>5, <2>3
<1>7. Sound(r) /\ Carries(r, Zeros(0) \o t) /\ Ended(r)
  <2>1. 0 + Len(t) + 1 <= SizeMax
    BY <1>1, <1>5, <1>6
  <2>2. ~ (Len(t) < 0)
    BY <1>5
  <2>3. r = AppendInteger(NoBlock, v, 10, 0, FALSE, T)
    BY DEF AppendDecimal
  <2> HIDE DEF r
  <2>4. LET k == IF Len(t) < 0 THEN 0 - Len(t) ELSE 0
        IN  Sound(r) /\ Carries(r, Zeros(k) \o t) /\ Ended(r)
    BY <1>5, <2>1, <2>3, IntegerText DEF t
  <2> QED BY <2>2, <2>4
<1> HIDE DEF r
<1>8. Carries(r, t)
  <2>1. Zeros(0) = << >>
    BY DEF Zeros
  <2>2. << >> \o t = t
    BY <1>5
  <2> QED BY <1>7, <2>1, <2>2
<1>9. r.alloc \in Nat /\ Len(t) < r.alloc
  <2>1. r.length = Len(t) /\ r.length # 0
    BY <1>5, <1>8 DEF Carries
  <2> QED BY <1>7, <2>1 DEF Sound, Sizes
<1>10. strtol(r.cells, 10) = v
  BY <1>4, <1>7, <1>8, <1>9, strtolReads
<1>11. v % Bit[T.bits] = v
  <2> DEFINE x == Bit[T.bits]
  <2>1. x \in Nat \ {0} /\ v < x
    BY <1>1, <1>2
  <2> HIDE DEF x
  <2>2. v % x = v
    BY <2>1
  <2> QED BY <2>2 DEF x
<1>12. ToInteger(r, T.bits, T.signed) = v
  <2>1. ~ (T.signed /\ v >= B)
    BY <1>1, <1>2
  <2> QED BY <1>10, <1>11, <2>1 DEF ToInteger
<1> QED BY <1>12 DEF r

(* From base 10 on no number overruns the local array.                     *)
LEMMA DigitsInBuffer ==
  ASSUME NEW T, IsType(T), DigitsFit(T), NEW v \in Nat, v < Bit[T.bits], NEW t, NEW base, base >= 10,
         DigitsOf(t, v, base)
  PROVE  Len(t) + 1 <= DigitBuffer
<1> DEFINE e == DigitBuffer - 1
<1>1. e \in Nat \ {0} /\ Bit[T.bits] <= TenTo[e] /\ TenTo[e] \in Nat /\ Bit[T.bits] \in Nat
  <2>1. e \in Nat \ {0} /\ Bit[T.bits] <= TenTo[e]
    BY DEF DigitsFit
  <2> QED BY <2>1, TenRecurs, TopOfType
<1>2. v < TenTo[e]
  BY <1>1
<1>3. Len(t) <= e
  <2> HIDE DEF e
  <2> QED BY <1>1, <1>2 DEF DigitsOf
<1>4. t \in Seq(Byte) /\ DigitBuffer \in Nat
  BY DEF DigitsOf, DigitsFit
<1> QED BY <1>3, <1>4

(* AppendHexadecimal pads to the width.                                    *)
LEMMA HexadecimalText ==
  ASSUME NEW T, IsType(T), NEW v \in Nat, NEW upper, NEW t, t = IntToAlpha(v, 16, upper, T),
         DigitsOf(t, v, 16), 3 + Len(t) + 1 <= SizeMax
  PROVE  Text(AppendHexadecimal(NoBlock, v, upper, 3, T)) = [i \in 1 .. 3 - Len(t) |-> 48] \o t
<1> DEFINE r == AppendHexadecimal(NoBlock, v, upper, 3, T)
           k == IF Len(t) < 3 THEN 3 - Len(t) ELSE 0
<1>1. t \in Seq(Byte) /\ t # << >> /\ Len(t) \in Nat
  BY DEF DigitsOf
<1>2. r = AppendInteger(NoBlock, v, 16, 3, upper, T)
  BY DEF AppendHexadecimal
<1> HIDE DEF r
<1>3. Carries(r, Zeros(k) \o t)
  BY <1>1, <1>2, IntegerText
<1>4. Text(r) = Zeros(k) \o t
  <2> HIDE DEF k
  <2> QED BY <1>3, CarriesText
<1>5. Zeros(k) = [i \in 1 .. 3 - Len(t) |-> 48]
  <2>1. 1 .. k = 1 .. 3 - Len(t)
    BY <1>1
  <2> HIDE DEF k
  <2> QED BY <2>1 DEF Zeros
<1> QED BY <1>4, <1>5 DEF r

(* Whatever the value, the base and the type: the digits of a number that  *)
(* is not negative are its own, none too many, and are read back;          *)
(* AppendDecimal and ToInteger are each other's inverse, AppendHexadecimal *)
(* pads; a negative number shows as a sign and what is in front of the     *)
(* alphabet; and the division leaves a signed type in its upper half only. *)
THEOREM NumbersRight ==
  ASSUME NEW T, IsType(T), 35 < Bit[T.bits - 1], DigitsFit(T), DigitBuffer + 3 <= SizeMax,
         NEW v \in Values(T), NEW base \in Int, NEW upper
  PROVE  NumberRight(v, base, upper, T)
<1> DEFINE t == IntToAlpha(v, base, upper, T)
           B == Bit[T.bits - 1]
<1>1. B \in Nat \ {0} /\ Bit[T.bits] = 2 * B /\ SizeMax \in Nat /\ DigitBuffer \in Nat /\ DigitBuffer >= 3
  BY TopOfType, SizeAssumption DEF DigitsFit
<1>2. v \in Int /\ v < 2 * B /\ (T.signed => v < B)
  BY <1>1 DEF Values, IsType
<1>3. ASSUME ~ BaseValid(base) PROVE t = << >>
  BY <1>3 DEF IntToAlpha
<1>4. ASSUME BaseValid(base) PROVE IsBase(base) /\ base < B /\ base \in Nat \ {0}
  BY <1>1, <1>4 DEF BaseValid, IsBase
<1>5. ASSUME AlphaUndefined(v, base, T) PROVE T.signed /\ 2 * v >= B
  <2>1. BaseValid(base) /\ DivUndefined(v, base, T)
    BY <1>5 DEF AlphaUndefined
  <2> QED BY <1>1, <1>2, <1>4, <2>1, DivStaysInside
<1>6. ASSUME BaseValid(base), v >= 0 PROVE v \in Nat /\ DigitsOf(t, v, base)
  <2>1. v \in Nat /\ v < Bit[T.bits]
    BY <1>1, <1>2, <1>6
  <2> QED BY <1>4, <1>6, <2>1, DigitsWritten
<1>7. ASSUME BaseValid(base), v < 0 PROVE t = <<45, Junk>>
  BY <1>2, <1>4, <1>7, AlphaOfNegative
<1>8. ASSUME BaseValid(base), base >= 10 PROVE ~ BufferOverrun(t)
  <2>1. CASE v >= 0
    <3>1. Len(t) + 1 <= DigitBuffer
      <4> HIDE DEF t
      <4> QED BY <1>1, <1>2, <1>6, <1>8, <2>1, DigitsInBuffer
    <3>2. Len(t) \in Nat
      <4> HIDE DEF t
      <4> QED BY <1>6, <1>8, <2>1 DEF DigitsOf
    <3> HIDE DEF t
    <3> QED BY <1>1, <3>1, <3>2 DEF BufferOverrun
  <2>2. CASE v < 0
    <3>1. Len(t) = 2
      BY <1>7, <1>8, <2>2
    <3> HIDE DEF t
    <3> QED BY <1>1, <3>1 DEF BufferOverrun
  <2> QED BY <1>2, <2>1, <2>2
<1>9. ASSUME BaseValid(base), v >= 0, base = 10
      PROVE  ToInteger(AppendDecimal(NoBlock, v, T), T.bits, T.signed) = v
  <2>1. DigitBuffer <= SizeMax /\ v \in Nat
    BY <1>1, <1>2, <1>9
  <2> QED BY <2>1, DecimalReadBack
<1>10. ASSUME BaseValid(base), v >= 0, base = 16
       PROVE  Text(AppendHexadecimal(NoBlock, v, upper, 3, T)) = [i \in 1 .. 3 - Len(t) |-> 48] \o t
  <2>1. v \in Nat /\ DigitsOf(t, v, 16)
    BY <1>6, <1>10
  <2>2. t = IntToAlpha(v, 16, upper, T)
    BY <1>10
  <2> HIDE DEF t
  <2>3. Len(t) + 1 <= DigitBuffer /\ Len(t) \in Nat
    <3>1. Len(t) + 1 <= DigitBuffer
      BY <1>1, <1>2, <2>1, DigitsInBuffer
    <3> QED BY <2>1, <3>1 DEF DigitsOf
  <2>4. 3 + Len(t) + 1 <= SizeMax
    BY <1>1, <2>3
  <2> QED BY <2>1, <2>2, <2>4, HexadecimalText
<1> HIDE DEF t
<1>11. ASSUME BaseValid(base), v >= 0
       PROVE  /\ ReadBack(t, base) = v
              /\ \A i \in 1 .. Len(t) : IsDigit(t[i], base)
              /\ t[1] = 48 => v = 0 /\ Len(t) = 1
  BY <1>6, <1>11 DEF DigitsOf
<1> QED BY <1>3, <1>5, <1>7, <1>8, <1>9, <1>10, <1>11 DEF NumberRight, t

-----------------------------------------------------------------------------
(* strlcpy and strlcat.                                                    *)

(* The elements of a concatenation.                                        *)
LEMMA Joined ==
  ASSUME NEW X, NEW a \in Seq(X), NEW b \in Seq(X)
  PROVE  /\ a \o b \in Seq(X) /\ Len(a \o b) = Len(a) + Len(b)
         /\ \A i \in 1 .. Len(a) + Len(b) : (a \o b)[i] = IF i <= Len(a) THEN a[i] ELSE b[i - Len(a)]
OBVIOUS

(* The smaller of two.                                                     *)
LEMMA MinOfTwo ==
  ASSUME NEW x \in Nat, NEW y \in Nat
  PROVE  Min({x, y}) = IF x <= y THEN x ELSE y
<1> DEFINE S == {x, y}
           z == IF x <= y THEN x ELSE y
<1>1. S \subseteq Nat /\ z \in S /\ \A u \in S : z <= u
  OBVIOUS
<1>2. Min(S) = z
  <2> HIDE DEF S, z
  <2> QED BY <1>1, MinIs
<1> QED BY <1>2

(* Characters of C strings.                                                *)
Solid == Byte \ {NUL}

(* What is written with a NUL ends there, and nothing behind it changes.   *)
LEMMA WritesText ==
  ASSUME NEW k \in Nat, NEW m, DOMAIN m = 0 .. k - 1, NEW at \in Nat, NEW w \in Seq(Solid),
         at + Len(w) < k, \A i \in 0 .. at - 1 : m[i] # NUL,
         NEW r, r = Written(m, at, Append(w, NUL))
  PROVE  /\ StrEnd(r, 0) = at + Len(w)
         /\ \A i \in 0 .. at - 1 : r[i] = m[i]
         /\ \A i \in 1 .. Len(w) : r[at + i - 1] = w[i]
         /\ \A i \in at + Len(w) + 1 .. k - 1 : r[i] = m[i]
<1> DEFINE u == Append(w, NUL)
           l == Len(w)
<1>1. l \in Nat /\ Len(u) = l + 1 /\ u[l + 1] = NUL /\ \A i \in 1 .. l : u[i] = w[i] /\ w[i] # NUL
  BY DEF Solid
<1>2. r = [i \in 0 .. k - 1 |-> IF i \in at .. at + Len(u) - 1 THEN u[i - at + 1] ELSE m[i]]
  BY DEF Written
<1> HIDE DEF u, l
<1>3. \A i \in 0 .. at - 1 : r[i] = m[i]
  BY <1>1, <1>2 DEF l
<1>4. \A i \in at + l + 1 .. k - 1 : r[i] = m[i]
  BY <1>1, <1>2
<1>5. ASSUME NEW i \in 1 .. l + 1 PROVE r[at + i - 1] = u[i]
  <2> DEFINE j == at + i - 1
  <2>1. j \in 0 .. k - 1 /\ j \in at .. at + Len(u) - 1 /\ j - at + 1 = i
    BY <1>1 DEF l
  <2> HIDE DEF j
  <2>2. r[j] = u[i]
    BY <1>2, <2>1
  <2> QED BY <2>2 DEF j
<1>6. \A i \in 1 .. l : r[at + i - 1] = w[i]
  <2> SUFFICES ASSUME NEW i \in 1 .. l PROVE r[at + i - 1] = w[i]
    OBVIOUS
  <2>1. i \in 1 .. l + 1
    BY <1>1
  <2> QED BY <1>1, <1>5, <2>1
<1>7. StrEnd(r, 0) = at + l
  <2> DEFINE e == at + l
  <2>1. e \in 0 .. k - 1 /\ 0 \in 0 .. e /\ DOMAIN r = 0 .. k - 1
    BY <1>1, <1>2 DEF l
  <2>2. r[e] = NUL
    <3>1. l + 1 \in 1 .. l + 1 /\ at + (l + 1) - 1 = e
      BY <1>1
    <3> HIDE DEF e
    <3> QED BY <1>1, <1>5, <3>1
  <2>3. ASSUME NEW i \in 0 .. e - 1 PROVE r[i] # NUL
    <3>1. CASE i < at
      <4>1. i \in 0 .. at - 1
        BY <3>1
      <4> QED BY <1>3, <4>1
    <3>2. CASE i >= at
      <4> DEFINE j == i - at + 1
      <4>1. j \in 1 .. l /\ at + j - 1 = i
        BY <1>1, <3>2
      <4> HIDE DEF j
      <4>2. r[i] = w[j] /\ w[j] # NUL
        BY <1>1, <1>6, <4>1
      <4> QED BY <4>2
    <3>3. i < at \/ i >= at
      OBVIOUS
    <3> QED BY <3>1, <3>2, <3>3
  <2> HIDE DEF e
  <2>4. StrEnd(r, 0) = e
    BY <2>1, <2>2, <2>3, StrEndIs
  <2> QED BY <2>4 DEF e
<1> QED BY <1>3, <1>4, <1>6, <1>7 DEF l

(* The block of a copied text, as a C string.                              *)
LEMMA SourceIs ==
  ASSUME NEW b \in Seq(Solid)
  PROVE  LET m == CopyOf(b).cells
         IN  StrEnd(m, 0) = Len(b) /\ m[Len(b)] = NUL /\ \A i \in 1 .. Len(b) : m[i - 1] = b[i]
<1> DEFINE s == CopyOf(b)
           m == s.cells
<1>1. b \in Seq(Byte) /\ Len(b) \in Nat /\ \A i \in 1 .. Len(b) : b[i] # NUL
  BY DEF Solid
<1>2. Carries(s, b) /\ Ended(s)
  BY <1>1, CopyCarries
<1>3. s.alloc = Len(b) + 1
  BY DEF CopyOf, Put
<1> HIDE DEF s
<1>4. DOMAIN m = 0 .. s.alloc - 1 /\ s.length = Len(b) /\ \A i \in 0 .. Len(b) - 1 : m[i] = b[i + 1]
  BY <1>2 DEF Carries
<1>5. m[Len(b)] = NUL
  BY <1>2, <1>4 DEF Ended
<1> HIDE DEF m
<1>6. ASSUME NEW i \in 1 .. Len(b) PROVE m[i - 1] = b[i]
  <2>1. i - 1 \in 0 .. Len(b) - 1 /\ (i - 1) + 1 = i
    BY <1>1
  <2> QED BY <1>4, <2>1
<1>7. ASSUME NEW i \in 0 .. Len(b) - 1 PROVE m[i] # NUL
  <2>1. i + 1 \in 1 .. Len(b)
    BY <1>1
  <2> QED BY <1>1, <1>4, <2>1
<1>8. StrEnd(m, 0) = Len(b)
  <2> DEFINE k == Len(b) + 1
             e == Len(b)
  <2>1. k \in Nat /\ e \in 0 .. k - 1 /\ 0 \in 0 .. e /\ DOMAIN m = 0 .. k - 1 /\ m[e] = NUL
        /\ \A i \in 0 .. e - 1 : m[i] # NUL
    BY <1>1, <1>3, <1>4, <1>5, <1>7
  <2> HIDE DEF k, e
  <2>2. StrEnd(m, 0) = e
    BY <2>1, StrEndIs
  <2> QED BY <2>2 DEF e
<1> QED BY <1>5, <1>6, <1>8 DEF m, s

(* A block of siz + Len(a) + 1 bytes that holds a.                         *)
Target(a, siz) == [i \in 0 .. siz + Len(a) |-> IF i < Len(a) THEN a[i + 1] ELSE NUL]

(* Its bytes.                                                              *)
LEMMA TargetIs ==
  ASSUME NEW a \in Seq(Solid), NEW siz \in Nat
  PROVE  LET m == Target(a, siz)
         IN  /\ DOMAIN m = 0 .. (siz + Len(a) + 1) - 1
             /\ \A i \in 1 .. Len(a) : m[i - 1] = a[i] /\ a[i] # NUL
             /\ \A i \in 0 .. Len(a) - 1 : m[i] # NUL
             /\ \A i \in Len(a) .. siz + Len(a) : m[i] = NUL
<1> DEFINE m == Target(a, siz)
           n == Len(a)
<1>1. n \in Nat /\ \A i \in 1 .. n : a[i] # NUL
  BY DEF Solid
<1>2. (siz + n + 1) - 1 = siz + n
  BY <1>1
<1>3. m = [i \in 0 .. siz + n |-> IF i < n THEN a[i + 1] ELSE NUL]
  BY DEF Target
<1> HIDE DEF m, n
<1>4. ASSUME NEW i \in 0 .. n - 1 PROVE m[i] = a[i + 1] /\ m[i] # NUL
  <2>1. i \in 0 .. siz + n /\ i < n /\ i + 1 \in 1 .. n
    BY <1>1
  <2>2. m[i] = a[i + 1]
    BY <1>3, <2>1
  <2> QED BY <1>1, <2>1, <2>2
<1>5. ASSUME NEW i \in 1 .. n PROVE m[i - 1] = a[i]
  <2>1. i - 1 \in 0 .. n - 1 /\ (i - 1) + 1 = i
    BY <1>1
  <2>2. m[i - 1] = a[(i - 1) + 1]
    BY <1>4, <2>1
  <2> QED BY <2>1, <2>2
<1>6. ASSUME NEW i \in n .. siz + n PROVE m[i] = NUL
  <2>1. i \in 0 .. siz + n /\ ~ i < n
    BY <1>1
  <2> QED BY <1>3, <2>1
<1>7. DOMAIN m = 0 .. siz + n
  BY <1>3
<1> QED BY <1>1, <1>2, <1>4, <1>5, <1>6, <1>7 DEF m, n

(* The first e characters of a text.                                       *)
LEMMA SolidOpening ==
  ASSUME NEW b \in Seq(Solid), NEW e \in 0 .. Len(b)
  PROVE  /\ SubSeq(b, 1, e) \in Seq(Solid) /\ Len(SubSeq(b, 1, e)) = e
         /\ \A i \in 1 .. e : SubSeq(b, 1, e)[i] = b[i]
BY Opening

(* strlcpy copies what fits.                                               *)
LEMMA strlcpyWrites ==
  ASSUME NEW dst, NEW b \in Seq(Solid), NEW siz \in Nat \ {0}, NEW src, src = CopyOf(b).cells
  PROVE  LET e == IF siz - 1 <= Len(b) THEN siz - 1 ELSE Len(b)
         IN  strlcpy(dst, src, siz) = [dst |-> Written(dst, 0, Append(SubSeq(b, 1, e), NUL)), ret |-> Len(b)]
<1> DEFINE n == Len(b)
           e == IF siz - 1 <= n THEN siz - 1 ELSE n
           c == IF siz <= 1 THEN 0 ELSE Min({n + 1, siz - 1})
           w == Append(SubSeq(b, 1, e), NUL)
           t == [i \in 1 .. c |-> src[i - 1]]
<1>1. n \in Nat /\ StrEnd(src, 0) = n /\ src[n] = NUL /\ \A i \in 1 .. n : src[i - 1] = b[i]
  BY SourceIs
<1>2. c = IF n + 1 <= siz - 1 THEN n + 1 ELSE siz - 1
  <2>1. CASE siz <= 1
    BY <1>1, <2>1
  <2>2. CASE ~ siz <= 1
    <3>1. n + 1 \in Nat /\ siz - 1 \in Nat
      BY <1>1
    <3>2. Min({n + 1, siz - 1}) = IF n + 1 <= siz - 1 THEN n + 1 ELSE siz - 1
      BY <3>1, MinOfTwo
    <3> QED BY <2>2, <3>2
  <2> QED BY <2>1, <2>2
<1>3. strlcpy(dst, src, siz) = [dst |-> Written(dst, 0, IF c = n + 1 THEN t ELSE Append(t, NUL)), ret |-> n]
  <2>1. siz # 0
    OBVIOUS
  <2> QED BY <1>1, <2>1 DEF strlcpy
<1> HIDE DEF c
<1> DEFINE x == SubSeq(b, 1, e)
<1>4. x \in Seq(Solid) /\ Len(x) = e /\ \A i \in 1 .. e : x[i] = b[i]
  <2>1. e \in 0 .. Len(b)
    BY <1>1
  <2> HIDE DEF e
  <2> QED BY <2>1, SolidOpening
<1>5. NUL \in Byte /\ x \in Seq(Byte) /\ \A i \in 1 .. n : b[i] \in Byte
  <2>1. NUL \in Byte
    BY DEF NUL, Byte
  <2>2. x \in Seq(Byte)
    <3> HIDE DEF x
    <3> QED BY <1>4 DEF Solid
  <2>3. \A i \in 1 .. n : b[i] \in Byte
    BY DEF Solid
  <2> QED BY <2>1, <2>2, <2>3
<1>6. CASE c = n + 1
  <2>1. e = n /\ n + 1 <= siz - 1
    BY <1>1, <1>2, <1>6
  <2>2. t \in Seq(Byte) /\ Len(t) = n + 1 /\ \A i \in 1 .. n + 1 : t[i] = src[i - 1]
    <3>1. \A i \in 1 .. n + 1 : src[i - 1] \in Byte
      <4> SUFFICES ASSUME NEW i \in 1 .. n + 1 PROVE src[i - 1] \in Byte
        OBVIOUS
      <4>1. i = n + 1 \/ i \in 1 .. n
        BY <1>1
      <4>2. i = n + 1 => i - 1 = n
        BY <1>1
      <4> QED BY <1>1, <1>5, <4>1, <4>2
    <3>2. n + 1 \in Nat
      BY <1>1
    <3> HIDE DEF n
    <3> QED BY <1>6, <3>1, <3>2
  <2> HIDE DEF x, t, e
  <2>3. w \in Seq(Byte) /\ Len(w) = n + 1 /\ w[n + 1] = NUL /\ \A i \in 1 .. n : w[i] = x[i]
    <3>1. w = Append(x, NUL)
      BY DEF x
    <3> HIDE DEF w
    <3> QED BY <1>1, <1>4, <1>5, <2>1, <3>1
  <2>4. ASSUME NEW i \in 1 .. n + 1 PROVE t[i] = w[i]
    <3>1. CASE i = n + 1
      <4>1. i - 1 = n
        BY <1>1, <3>1
      <4> HIDE DEF w
      <4> QED BY <1>1, <2>2, <2>3, <3>1, <4>1
    <3>2. CASE i \in 1 .. n
      <4> HIDE DEF w
      <4>1. t[i] = src[i - 1] /\ src[i - 1] = b[i]
        BY <1>1, <2>2, <3>2
      <4>2. w[i] = x[i] /\ x[i] = b[i]
        BY <1>4, <2>1, <2>3, <3>2
      <4> QED BY <4>1, <4>2
    <3>3. i = n + 1 \/ i \in 1 .. n
      BY <1>1
    <3> QED BY <3>1, <3>2, <3>3
  <2> HIDE DEF w
  <2>5. t = w
    BY <2>2, <2>3, <2>4, SameSeq
  <2> QED BY <1>3, <1>6, <2>5 DEF w, e
<1>7. CASE c # n + 1
  <2>1. e = siz - 1 /\ c = e /\ e <= n /\ e \in Nat
    BY <1>1, <1>2, <1>7
  <2> HIDE DEF e
  <2>2. ASSUME NEW i \in 1 .. e PROVE src[i - 1] = b[i] /\ b[i] \in Byte
    <3>1. i \in 1 .. n
      BY <1>1, <2>1
    <3> QED BY <1>1, <1>5, <3>1
  <2>3. t \in Seq(Byte) /\ Len(t) = e /\ \A i \in 1 .. e : t[i] = b[i]
    <3>1. t = [i \in 1 .. e |-> src[i - 1]]
      BY <2>1
    <3>2. \A i \in 1 .. e : src[i - 1] = b[i] /\ src[i - 1] \in Byte
      BY <2>2
    <3> HIDE DEF t, w, x, n
    <3>3. t \in Seq(Byte)
      <4> DEFINE f == [i \in 1 .. e |-> src[i - 1]]
      <4>1. f \in [1 .. e -> Byte]
        BY <3>2
      <4>2. t = f
        BY <3>1
      <4> HIDE DEF f
      <4>3. f \in Seq(Byte)
        <5> HIDE DEF e
        <5> QED BY <2>1, <4>1
      <4> QED BY <4>2, <4>3
    <3>4. Len(t) = e
      BY <2>1, <3>1
    <3> QED BY <3>1, <3>2, <3>3, <3>4
  <2>4. t = x
    <3> HIDE DEF t, x
    <3> QED BY <1>4, <1>5, <2>3, SameSeq
  <2> HIDE DEF t
  <2>5. strlcpy(dst, src, siz) = [dst |-> Written(dst, 0, Append(t, NUL)), ret |-> n]
    BY <1>3, <1>7
  <2>6. Append(t, NUL) = w
    BY <2>4
  <2> HIDE DEF w
  <2> QED BY <2>5, <2>6 DEF w, e
<1> QED BY <1>6, <1>7

(* Where strlcat begins to write.                                          *)
LEMMA strlcatFinds ==
  ASSUME NEW a \in Seq(Solid), NEW siz \in Nat
  PROVE  Min({siz} \cup {i \in 0 .. siz - 1 : Target(a, siz)[i] = NUL}) = IF siz <= Len(a) THEN siz ELSE Len(a)
<1> DEFINE m == Target(a, siz)
           n == Len(a)
           S == {siz} \cup {i \in 0 .. siz - 1 : m[i] = NUL}
           x == IF siz <= n THEN siz ELSE n
<1>1. n \in Nat /\ (\A i \in 0 .. n - 1 : m[i] # NUL) /\ \A i \in n .. siz + n : m[i] = NUL
  <2>1. n \in Nat
    OBVIOUS
  <2>2. \A i \in 0 .. n - 1 : m[i] # NUL
    BY TargetIs
  <2>3. \A i \in n .. siz + n : m[i] = NUL
    BY TargetIs
  <2> QED BY <2>1, <2>2, <2>3
<1> HIDE DEF m, n
<1>2. S \subseteq Nat /\ x \in S
  BY <1>1
<1>3. ASSUME NEW u \in S PROVE x <= u
  <2>1. CASE u = siz
    BY <1>1, <2>1
  <2>2. CASE u \in 0 .. siz - 1 /\ m[u] = NUL
    <3>1. ~ u \in 0 .. n - 1
      BY <1>1, <2>2
    <3> QED BY <1>1, <2>2, <3>1
  <2> QED BY <2>1, <2>2
<1>4. Min(S) = x
  <2> HIDE DEF S, x
  <2> QED BY <1>2, <1>3, MinIs
<1> QED BY <1>4 DEF m, n

(* strlcat appends what fits behind the text that is there.                *)
LEMMA strlcatWrites ==
  ASSUME NEW a \in Seq(Solid), NEW b \in Seq(Solid), NEW siz \in Nat, NEW src, src = CopyOf(b).cells,
         NEW dst, dst = Target(a, siz)
  PROVE  LET room == siz - Len(a) - 1
             e == IF Len(b) <= room THEN Len(b) ELSE room
         IN  IF siz <= Len(a)
             THEN strlcat(dst, src, siz) = [dst |-> dst, ret |-> siz + Len(b)]
             ELSE strlcat(dst, src, siz)
                    = [dst |-> Written(dst, Len(a), Append(SubSeq(b, 1, e), NUL)), ret |-> Len(a) + Len(b)]
<1> DEFINE n == Len(b)
           la == Len(a)
           dlen == Min({siz} \cup {i \in 0 .. siz - 1 : dst[i] = NUL})
           c == Min({n, siz - dlen - 1})
           t == [i \in 1 .. c |-> src[i - 1]]
<1>1. n \in Nat /\ la \in Nat /\ StrEnd(src, 0) = n /\ \A i \in 1 .. n : src[i - 1] = b[i]
  BY SourceIs
<1>2. dlen = IF siz <= la THEN siz ELSE la
  BY strlcatFinds
<1>3. strlcat(dst, src, siz)
        = [dst |-> IF siz = dlen THEN dst ELSE Written(dst, dlen, Append(t, NUL)), ret |-> dlen + n]
  BY <1>1 DEF strlcat
<1> HIDE DEF dlen
<1>4. CASE siz <= la
  BY <1>2, <1>3, <1>4
<1>5. CASE ~ siz <= la
  <2> DEFINE room == siz - la - 1
             e == IF n <= room THEN n ELSE room
             x == SubSeq(b, 1, e)
  <2>1. dlen = la /\ siz # dlen /\ room \in Nat /\ e \in 0 .. n
    BY <1>1, <1>2, <1>5
  <2>2. c = e
    <3>1. Min({n, room}) = IF n <= room THEN n ELSE room
      BY <1>1, <2>1, MinOfTwo
    <3> QED BY <2>1, <3>1
  <2>3. x \in Seq(Solid) /\ Len(x) = e /\ \A i \in 1 .. e : x[i] = b[i]
    <3> HIDE DEF e
    <3> QED BY <2>1, SolidOpening
  <2>4. t = x
    <3>1. t = [i \in 1 .. e |-> src[i - 1]]
      BY <2>2
    <3> HIDE DEF e, t, c
    <3>2. ASSUME NEW i \in 1 .. e PROVE src[i - 1] = b[i] /\ b[i] \in Byte
      <4>1. i \in 1 .. n
        BY <1>1, <2>1
      <4> QED BY <1>1, <4>1 DEF Solid
    <3> DEFINE f == [i \in 1 .. e |-> src[i - 1]]
    <3>3. f \in [1 .. e -> Byte] /\ \A i \in 1 .. e : f[i] = b[i]
      BY <3>2
    <3>4. e \in Nat
      BY <1>1, <2>1
    <3>5. t = f
      BY <3>1
    <3> HIDE DEF f, x
    <3>6. f \in Seq(Byte) /\ Len(f) = e
      BY <3>3, <3>4
    <3>7. x \in Seq(Byte)
      BY <2>3 DEF Solid
    <3>8. f = x
      BY <2>3, <3>3, <3>6, <3>7, SameSeq
    <3> QED BY <3>5, <3>8
  <2> HIDE DEF t, e
  <2> QED BY <1>3, <1>5, <2>1, <2>4 DEF e
<1> QED BY <1>4, <1>5

(* A C string that holds t.                                                *)
Holding(m, t) == StrEnd(m, 0) = Len(t) /\ \A i \in 1 .. Len(t) : m[i - 1] = t[i]

(* The first k characters of b, or all.                                    *)
Fitting(b, k) == SubSeq(b, 1, IF k <= Len(b) THEN k ELSE Len(b))

(* What fits of a text is no longer than the room and made of characters.  *)
LEMMA FittingIs ==
  ASSUME NEW b \in Seq(Solid), NEW k \in Nat
  PROVE  /\ Fitting(b, k) \in Seq(Solid)
         /\ Len(Fitting(b, k)) = IF k <= Len(b) THEN k ELSE Len(b)
         /\ \A i \in 1 .. Len(Fitting(b, k)) : Fitting(b, k)[i] = b[i]
<1> DEFINE e == IF k <= Len(b) THEN k ELSE Len(b)
<1>1. e \in 0 .. Len(b)
  OBVIOUS
<1>2. Fitting(b, k) = SubSeq(b, 1, e)
  BY DEF Fitting
<1> HIDE DEF e
<1>3. Fitting(b, k) \in Seq(Solid) /\ Len(Fitting(b, k)) = e /\ \A i \in 1 .. e : Fitting(b, k)[i] = b[i]
  BY <1>1, <1>2, SolidOpening
<1> QED BY <1>3 DEF e

(* What fits of a and b together is a and what fits of b behind it.        *)
LEMMA FittingBehind ==
  ASSUME NEW a \in Seq(Solid), NEW b \in Seq(Solid), NEW k \in Nat
  PROVE  Fitting(a \o b, Len(a) + k) = a \o Fitting(b, k)
<1> DEFINE x == Fitting(b, k)
           y == Fitting(a \o b, Len(a) + k)
           z == a \o x
<1>1. a \o b \in Seq(Solid) /\ Len(a \o b) = Len(a) + Len(b) /\ Len(a) \in Nat /\ Len(b) \in Nat
      /\ \A i \in 1 .. Len(a) + Len(b) : (a \o b)[i] = IF i <= Len(a) THEN a[i] ELSE b[i - Len(a)]
  OBVIOUS
<1>2. x \in Seq(Solid) /\ Len(x) = (IF k <= Len(b) THEN k ELSE Len(b)) /\ \A i \in 1 .. Len(x) : x[i] = b[i]
  BY FittingIs
<1> HIDE DEF x
<1>3. z \in Seq(Solid) /\ Len(z) = Len(a) + Len(x)
      /\ \A i \in 1 .. Len(a) + Len(x) : z[i] = IF i <= Len(a) THEN a[i] ELSE x[i - Len(a)]
  <2>1. x \in Seq(Solid)
    BY <1>2
  <2> QED BY <2>1
<1> DEFINE u == a \o b
           p == Len(a) + k
<1>4. p \in Nat /\ u \in Seq(Solid)
  BY <1>1
<1> HIDE DEF u, p
<1>5. Fitting(u, p) \in Seq(Solid) /\ Len(Fitting(u, p)) = (IF p <= Len(u) THEN p ELSE Len(u))
      /\ \A i \in 1 .. Len(Fitting(u, p)) : Fitting(u, p)[i] = u[i]
  BY <1>4, FittingIs
<1>6. y = Fitting(u, p)
  BY DEF u, p
<1> HIDE DEF y, z
<1>7. Len(y) = Len(z)
  <2>1. Len(u) = Len(a) + Len(b)
    BY <1>1 DEF u
  <2> QED BY <1>1, <1>2, <1>3, <1>5, <1>6, <2>1 DEF p
<1>8. ASSUME NEW i \in 1 .. Len(y) PROVE y[i] = z[i]
  <2>1. y[i] = u[i]
    BY <1>5, <1>6
  <2>2. i \in 1 .. Len(a) + Len(x) /\ Len(x) <= Len(b) /\ Len(x) \in Nat
    BY <1>1, <1>2, <1>3, <1>7
  <2>3. i \in 1 .. Len(a) + Len(b)
    BY <1>1, <2>2
  <2>4. u[i] = IF i <= Len(a) THEN a[i] ELSE b[i - Len(a)]
    BY <1>1, <2>3 DEF u
  <2>5. z[i] = IF i <= Len(a) THEN a[i] ELSE x[i - Len(a)]
    BY <1>3, <2>2
  <2>6. i <= Len(a) \/ i - Len(a) \in 1 .. Len(x)
    BY <1>1, <2>2
  <2>7. i - Len(a) \in 1 .. Len(x) => x[i - Len(a)] = b[i - Len(a)]
    BY <1>2
  <2> QED BY <2>1, <2>4, <2>5, <2>6, <2>7
<1>9. y = z
  BY <1>3, <1>5, <1>6, <1>7, <1>8, SameSeq
<1> QED BY <1>9 DEF x, y, z

(* WritesText, in two words.                                               *)
Roomy(m, k, at, w) ==
  DOMAIN m = 0 .. k - 1 /\ at + Len(w) < k /\ \A i \in 0 .. at - 1 : m[i] # NUL
Writing(r, m, k, at, w) ==
  /\ StrEnd(r, 0) = at + Len(w)
  /\ \A i \in 0 .. at - 1 : r[i] = m[i]
  /\ \A i \in 1 .. Len(w) : r[at + i - 1] = w[i]
  /\ \A i \in at + Len(w) + 1 .. k - 1 : r[i] = m[i]

(* WritesText says so.                                                     *)
LEMMA RoomyWrites ==
  ASSUME NEW k \in Nat, NEW m, NEW at \in Nat, NEW w \in Seq(Solid), Roomy(m, k, at, w)
  PROVE  Writing(Written(m, at, Append(w, NUL)), m, k, at, w)
<1> DEFINE r == Written(m, at, Append(w, NUL))
<1>1. DOMAIN m = 0 .. k - 1 /\ at + Len(w) < k /\ \A i \in 0 .. at - 1 : m[i] # NUL
  BY DEF Roomy
<1>2. /\ StrEnd(r, 0) = at + Len(w)
      /\ \A i \in 0 .. at - 1 : r[i] = m[i]
      /\ \A i \in 1 .. Len(w) : r[at + i - 1] = w[i]
      /\ \A i \in at + Len(w) + 1 .. k - 1 : r[i] = m[i]
  BY <1>1, WritesText
<1> HIDE DEF r
<1>3. Writing(r, m, k, at, w)
  BY <1>2 DEF Writing
<1> QED BY <1>3 DEF r

(* What strlcpy and strlcat leave in the target, case by case.             *)
LEMMA CopyHolds ==
  ASSUME NEW a \in Seq(Solid), NEW b \in Seq(Solid), NEW siz \in Nat \ {0}, NEW src, src = CopyOf(b).cells,
         NEW dst, dst = Target(a, siz)
  PROVE  LET r == strlcpy(dst, src, siz).dst
         IN  /\ Holding(r, Fitting(b, siz - 1))
             /\ \A i \in siz .. siz + Len(a) : r[i] = dst[i]
<1> DEFINE w == Fitting(b, siz - 1)
           k == siz + Len(a) + 1
           r == Written(dst, 0, Append(w, NUL))
<1>1. w \in Seq(Solid) /\ Len(w) = (IF siz - 1 <= Len(b) THEN siz - 1 ELSE Len(b)) /\ Len(b) \in Nat /\ Len(a) \in Nat
  BY FittingIs
<1>2. strlcpy(dst, src, siz).dst = r
  <2> DEFINE e == IF siz - 1 <= Len(b) THEN siz - 1 ELSE Len(b)
  <2>1. w = SubSeq(b, 1, e)
    BY DEF Fitting
  <2>2. strlcpy(dst, src, siz) = [dst |-> Written(dst, 0, Append(SubSeq(b, 1, e), NUL)), ret |-> Len(b)]
    BY strlcpyWrites
  <2> HIDE DEF e, w
  <2> QED BY <2>1, <2>2
<1>3. DOMAIN dst = 0 .. k - 1 /\ k \in Nat
  <2>1. DOMAIN dst = 0 .. k - 1
    BY TargetIs
  <2>2. k \in Nat
    BY <1>1
  <2> QED BY <2>1, <2>2
<1> HIDE DEF w, k
<1>4. 0 + Len(w) < k /\ Len(w) < siz /\ Len(w) \in Nat
  BY <1>1 DEF k
<1>5. StrEnd(r, 0) = 0 + Len(w) /\ (\A i \in 1 .. Len(w) : r[0 + i - 1] = w[i])
      /\ \A i \in 0 + Len(w) + 1 .. k - 1 : r[i] = dst[i]
  <2>1. \A i \in 0 .. 0 - 1 : dst[i] # NUL
    OBVIOUS
  <2> HIDE DEF r
  <2>2. r = Written(dst, 0, Append(w, NUL)) /\ 0 \in Nat
    BY DEF r
  <2>3. w \in Seq(Solid)
    BY <1>1
  <2>4. Roomy(dst, k, 0, w)
    BY <1>3, <1>4, <2>1 DEF Roomy
  <2>5. Writing(r, dst, k, 0, w)
    BY <1>3, <2>2, <2>3, <2>4, RoomyWrites
  <2> QED BY <2>5 DEF Writing
<1> HIDE DEF r
<1>6. \A i \in siz .. siz + Len(a) : r[i] = dst[i]
  <2> SUFFICES ASSUME NEW i \in siz .. siz + Len(a) PROVE r[i] = dst[i]
    OBVIOUS
  <2>1. i \in 0 + Len(w) + 1 .. k - 1
    BY <1>1, <1>4 DEF k
  <2> QED BY <1>5, <2>1
<1>7. Holding(r, w)
  <2>1. \A i \in 1 .. Len(w) : r[i - 1] = w[i]
    <3> SUFFICES ASSUME NEW i \in 1 .. Len(w) PROVE r[i - 1] = w[i]
      OBVIOUS
    <3>1. 0 + i - 1 = i - 1
      OBVIOUS
    <3> QED BY <1>5, <3>1
  <2> QED BY <1>4, <1>5, <2>1 DEF Holding
<1> QED BY <1>2, <1>6, <1>7 DEF w

(* And strlcat.                                                            *)
LEMMA CatHolds ==
  ASSUME NEW a \in Seq(Solid), NEW b \in Seq(Solid), NEW siz \in Nat, siz > Len(a), NEW src, src = CopyOf(b).cells,
         NEW dst, dst = Target(a, siz)
  PROVE  LET r == strlcat(dst, src, siz).dst
         IN  /\ Holding(r, Fitting(a \o b, siz - 1))
             /\ \A i \in siz .. siz + Len(a) : r[i] = dst[i]
<1> DEFINE room == siz - Len(a) - 1
           w == Fitting(b, room)
           k == siz + Len(a) + 1
           la == Len(a)
           r == Written(dst, la, Append(w, NUL))
           f == Fitting(a \o b, siz - 1)
<1>1. room \in Nat /\ Len(b) \in Nat /\ la \in Nat /\ k \in Nat
  OBVIOUS
<1>2. w \in Seq(Solid) /\ Len(w) \in Nat /\ Len(w) <= room
  <2> HIDE DEF room
  <2> QED BY <1>1, FittingIs
<1>3. strlcat(dst, src, siz).dst = r
  <2>1. SubSeq(b, 1, IF Len(b) <= room THEN Len(b) ELSE room) = w
    <3>1. (IF Len(b) <= room THEN Len(b) ELSE room) = (IF room <= Len(b) THEN room ELSE Len(b))
      BY <1>1
    <3> HIDE DEF room
    <3> QED BY <3>1 DEF Fitting
  <2>2. ~ siz <= Len(a)
    BY <1>1
  <2> HIDE DEF w
  <2>3. strlcat(dst, src, siz)
          = [dst |-> Written(dst, Len(a), Append(SubSeq(b, 1, IF Len(b) <= room THEN Len(b) ELSE room), NUL)),
             ret |-> Len(a) + Len(b)]
    BY <2>2, strlcatWrites
  <2> DEFINE q == SubSeq(b, 1, IF Len(b) <= room THEN Len(b) ELSE room)
  <2>4. q = w
    BY <2>1
  <2>5. strlcat(dst, src, siz) = [dst |-> Written(dst, Len(a), Append(q, NUL)), ret |-> Len(a) + Len(b)]
    BY <2>3
  <2> HIDE DEF q
  <2> QED BY <2>4, <2>5
<1>4. DOMAIN dst = 0 .. k - 1 /\ (\A i \in 0 .. la - 1 : dst[i] # NUL) /\ \A i \in 1 .. la : dst[i - 1] = a[i]
  <2>1. DOMAIN dst = 0 .. k - 1
    BY TargetIs
  <2>2. \A i \in 0 .. la - 1 : dst[i] # NUL
    BY TargetIs
  <2>3. \A i \in 1 .. la : dst[i - 1] = a[i]
    BY TargetIs
  <2> QED BY <2>1, <2>2, <2>3
<1>5. f = a \o w
  <2>1. Len(a) + room = siz - 1
    BY <1>1
  <2> HIDE DEF room
  <2>2. Fitting(a \o b, Len(a) + room) = a \o Fitting(b, room)
    BY <1>1, FittingBehind
  <2> QED BY <2>1, <2>2
<1> HIDE DEF w
<1>6. la + Len(w) < k /\ la + Len(w) < siz
  BY <1>1, <1>2
<1>7. /\ StrEnd(r, 0) = la + Len(w)
      /\ \A i \in 0 .. la - 1 : r[i] = dst[i]
      /\ \A i \in 1 .. Len(w) : r[la + i - 1] = w[i]
      /\ \A i \in la + Len(w) + 1 .. k - 1 : r[i] = dst[i]
  <2>1. r = Written(dst, la, Append(w, NUL))
    OBVIOUS
  <2>2. w \in Seq(Solid) /\ la \in Nat /\ k \in Nat
    BY <1>1, <1>2
  <2>3. DOMAIN dst = 0 .. k - 1 /\ (\A i \in 0 .. la - 1 : dst[i] # NUL) /\ la + Len(w) < k
    BY <1>4, <1>6
  <2> HIDE DEF r, la, k
  <2>4. Roomy(dst, k, la, w)
    BY <2>3 DEF Roomy
  <2>5. Writing(r, dst, k, la, w)
    BY <2>1, <2>2, <2>4, RoomyWrites
  <2> QED BY <2>5 DEF Writing
<1> HIDE DEF r
<1>8. \A i \in siz .. siz + Len(a) : r[i] = dst[i]
  <2> SUFFICES ASSUME NEW i \in siz .. siz + Len(a) PROVE r[i] = dst[i]
    OBVIOUS
  <2>1. i \in la + Len(w) + 1 .. k - 1
    BY <1>1, <1>2, <1>6
  <2> QED BY <1>7, <2>1
<1>9. Holding(r, f)
  <2>1. Len(a \o w) = la + Len(w)
        /\ \A i \in 1 .. la + Len(w) : (a \o w)[i] = IF i <= la THEN a[i] ELSE w[i - la]
    BY <1>2
  <2> DEFINE z == a \o w
  <2> HIDE DEF z, la
  <2>2. ASSUME NEW i \in 1 .. la + Len(w) PROVE r[i - 1] = z[i]
    <3>1. CASE i <= la
      <4>1. i - 1 \in 0 .. la - 1 /\ i \in 1 .. la
        BY <1>1, <3>1
      <4>2. r[i - 1] = dst[i - 1] /\ dst[i - 1] = a[i]
        BY <1>4, <1>7, <4>1
      <4>3. z[i] = a[i]
        BY <2>1, <3>1 DEF z
      <4> QED BY <4>2, <4>3
    <3>2. CASE ~ i <= la
      <4> DEFINE j == i - la
      <4>1. j \in 1 .. Len(w) /\ la + j - 1 = i - 1
        BY <1>1, <1>2, <3>2
      <4>2. z[i] = w[j]
        BY <2>1, <3>2 DEF z
      <4> HIDE DEF j
      <4>3. r[i - 1] = w[j]
        BY <1>7, <4>1
      <4> QED BY <4>2, <4>3
    <3> QED BY <3>1, <3>2
  <2>3. Len(z) = la + Len(w)
    BY <2>1 DEF z
  <2>4. Holding(r, z)
    BY <1>7, <2>2, <2>3 DEF Holding
  <2> QED BY <1>5, <2>4 DEF z
<1> QED BY <1>3, <1>8, <1>9 DEF f

(* strlcpy and strlcat keep what their comments promise.                   *)
THEOREM CopyIsRight ==
  ASSUME NEW a \in Seq(Solid), NEW b \in Seq(Solid), NEW siz \in Nat
  PROVE  CopyRight(a, b, siz)
<1> DEFINE dst == Target(a, siz)
           src == CopyOf(b).cells
           cpy == strlcpy(dst, src, siz)
           cat == strlcat(dst, src, siz)
           held == IF siz <= Len(a) THEN siz ELSE Len(a)
<1>1. Len(a) \in Nat /\ Len(b) \in Nat /\ a \o b \in Seq(Solid) /\ Len(a \o b) \in Nat
  OBVIOUS
<1>2. Min({siz, Len(a)}) = held
  BY <1>1, MinOfTwo
<1>3. ASSUME siz > 0
      PROVE  /\ SubSeq(b, 1, Min({siz - 1, Len(b)})) = Fitting(b, siz - 1)
             /\ SubSeq(a \o b, 1, Min({siz - 1, Len(a \o b)})) = Fitting(a \o b, siz - 1)
  <2> DEFINE u == a \o b
  <2>1. siz - 1 \in Nat /\ Len(u) \in Nat
    BY <1>1, <1>3
  <2> HIDE DEF u
  <2>2. Min({siz - 1, Len(b)}) = IF siz - 1 <= Len(b) THEN siz - 1 ELSE Len(b)
    BY <1>1, <2>1, MinOfTwo
  <2>3. Min({siz - 1, Len(u)}) = IF siz - 1 <= Len(u) THEN siz - 1 ELSE Len(u)
    BY <2>1, MinOfTwo
  <2>4. SubSeq(b, 1, Min({siz - 1, Len(b)})) = Fitting(b, siz - 1)
    BY <2>2 DEF Fitting
  <2>5. SubSeq(u, 1, Min({siz - 1, Len(u)})) = Fitting(u, siz - 1)
    BY <2>3 DEF Fitting
  <2> QED BY <2>4, <2>5 DEF u
<1> HIDE DEF dst, src
<1>4. cpy.ret = Len(b)
  BY SourceIs DEF strlcpy, src
<1>5. cat.ret = Len(b) + held
  <2>1. strlcat(dst, src, siz).ret = (IF siz <= Len(a) THEN siz ELSE Len(a)) + Len(b)
    <3>1. CASE siz <= Len(a)
      <4>1. strlcat(dst, src, siz) = [dst |-> dst, ret |-> siz + Len(b)]
        BY <3>1, strlcatWrites DEF dst, src
      <4> QED BY <3>1, <4>1
    <3>2. CASE ~ siz <= Len(a)
      <4>1. strlcat(dst, src, siz).ret = Len(a) + Len(b)
        BY <3>2, strlcatWrites DEF dst, src
      <4> QED BY <3>2, <4>1
    <3> QED BY <3>1, <3>2
  <2> QED BY <1>1, <2>1
<1>6. siz = 0 => cpy.dst = dst
  BY DEF strlcpy
<1>7. siz <= Len(a) => cat.dst = dst
  <2> SUFFICES ASSUME siz <= Len(a) PROVE cat.dst = dst
    OBVIOUS
  <2>1. strlcat(dst, src, siz) = [dst |-> dst, ret |-> siz + Len(b)]
    BY strlcatWrites DEF dst, src
  <2> QED BY <2>1
<1>8. ASSUME siz > 0
      PROVE  Holding(cpy.dst, Fitting(b, siz - 1)) /\ \A i \in siz .. siz + Len(a) : cpy.dst[i] = dst[i]
  <2>1. siz \in Nat \ {0} /\ src = CopyOf(b).cells /\ dst = Target(a, siz)
    BY <1>8 DEF src, dst
  <2> QED BY <2>1, CopyHolds
<1>9. ASSUME siz > Len(a)
      PROVE  Holding(cat.dst, Fitting(a \o b, siz - 1)) /\ \A i \in siz .. siz + Len(a) : cat.dst[i] = dst[i]
  <2>1. src = CopyOf(b).cells /\ dst = Target(a, siz)
    BY DEF src, dst
  <2> QED BY <1>9, <2>1, CatHolds
<1> DEFINE Far(m) == \A i \in siz .. siz + Len(a) : m[i] = dst[i]
<1>10. Far(cpy.dst)
  BY <1>6, <1>8
<1>11. Far(cat.dst)
  <2>1. siz <= Len(a) \/ siz > Len(a)
    BY <1>1
  <2> QED BY <1>7, <1>9, <2>1
<1>12. siz > Len(a) => siz > 0
  BY <1>1
<1> HIDE DEF cpy, cat, held
<1>13. CopyRight(a, b, siz)
         <=> /\ cpy.ret = Len(b)
             /\ cat.ret = Len(b) + Min({siz, Len(a)})
             /\ siz = 0 => cpy.dst = dst
             /\ siz > 0 => Holding(cpy.dst, SubSeq(b, 1, Min({siz - 1, Len(b)})))
             /\ siz <= Len(a) => cat.dst = dst
             /\ siz > Len(a) => Holding(cat.dst, SubSeq(a \o b, 1, Min({siz - 1, Len(a \o b)})))
             /\ \A m \in {cpy.dst, cat.dst} : Far(m)
  BY Zenon DEF CopyRight, Holding, Target, dst, src, cpy, cat
<1>14. \A m \in {cpy.dst, cat.dst} : Far(m)
  BY <1>10, <1>11
<1>15. siz > 0 => Holding(cpy.dst, SubSeq(b, 1, Min({siz - 1, Len(b)})))
  BY <1>3, <1>8
<1>16. siz > Len(a) => Holding(cat.dst, SubSeq(a \o b, 1, Min({siz - 1, Len(a \o b)})))
  BY <1>3, <1>9, <1>12
<1> HIDE DEF Far
<1>17. cat.ret = Len(b) + Min({siz, Len(a)})
  BY <1>2, <1>5
<1> QED BY <1>4, <1>6, <1>7, <1>13, <1>14, <1>15, <1>16, <1>17, Zenon
=============================================================================
