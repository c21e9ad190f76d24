------------------------------ MODULE ReadProofs ------------------------------
(***************************************************************************)
(* However the network cuts the stream of a peer, the parser takes each    *)
(* message out of it whole, once and in order.  The proof follows the      *)
(* code from below: the scans, the header loop, the parser on each kind of *)
(* message, the loop over the buffer, the stream, and the invariant of     *)
(* ReadPath.  What is recursive is equal to its equation because the loops *)
(* move, and what holds of all rounds follows by induction over numbers.   *)
(***************************************************************************)
EXTENDS ReadPath, WellFoundedInduction, TLAPS

-----------------------------------------------------------------------------
(* Induction and least numbers, from the library's fact that < is          *)
(* well-founded.                                                           *)
LEMMA Least ==
  ASSUME NEW S, S \subseteq Nat, S # {}
  PROVE  \E x \in S : \A y \in S : x <= y
<1> DEFINE Less == {p \in Nat \X Nat : p[1] < p[2]}
<1>1. IsWellFoundedOn(Less, Nat)
  BY NatLessThanWellFounded DEF OpToRel
<1>2. PICK x \in S : \A y \in S : <<y, x>> \notin Less
  <2> HIDE DEF Less
  <2> QED BY <1>1, WFMin
<1>3. ASSUME NEW y \in S PROVE x <= y
  <2>1. x \in Nat /\ y \in Nat /\ <<y, x>> \in Nat \X Nat
    BY <1>2
  <2> QED BY <1>2, <2>1
<1> QED BY <1>3

LEMMA Induct ==
  ASSUME NEW S, 0 \in S, \A n \in Nat : n \in S => n + 1 \in S
  PROVE  Nat \subseteq S
<1> DEFINE T == Nat \ S
<1> SUFFICES ASSUME T # {} PROVE FALSE
  OBVIOUS
<1>1. PICK x \in T : \A y \in T : x <= y
  <2> T \subseteq Nat
    OBVIOUS
  <2> HIDE DEF T
  <2> QED BY Least
<1>2. x # 0 /\ x \in Nat /\ x - 1 \in Nat /\ x = (x - 1) + 1
  OBVIOUS
<1>3. x - 1 \notin T
  BY <1>1, <1>2
<1>4. x - 1 \in S
  BY <1>2, <1>3
<1> QED BY <1>1, <1>2, <1>4

LEMMA MinOfLeast ==
  ASSUME NEW S, S \subseteq Nat, S # {}
  PROVE  MinOf(S) \in S /\ \A y \in S : MinOf(S) <= y
BY Least DEF MinOf

(* A minimum is known by what it is.                                       *)
LEMMA MinOfIs ==
  ASSUME NEW S, S \subseteq Nat, NEW x \in S, \A y \in S : x <= y
  PROVE  MinOf(S) = x
<1>1. MinOf(S) \in S /\ MinOf(S) <= x
  BY MinOfLeast
<1>2. x <= MinOf(S) /\ x \in Nat /\ MinOf(S) \in Nat
  BY <1>1
<1> QED BY <1>1, <1>2

-----------------------------------------------------------------------------
(* Parts of sequences and offsets.                                         *)
LEMMA RunShape ==
  ASSUME NEW T, NEW d \in Seq(T), NEW p \in 0 .. Len(d), NEW q \in p .. Len(d)
  PROVE  /\ Run(d, p, q) \in Seq(T) /\ Len(Run(d, p, q)) = q - p
         /\ \A i \in 1 .. q - p : Run(d, p, q)[i] = d[p + i]
<1>1. p + 1 \in 1 .. Len(d) + 1 /\ q \in p + 1 - 1 .. Len(d) /\ Len(d) \in Nat
  OBVIOUS
<1>2. Run(d, p, q) = [i \in 1 .. q - p |-> d[p + i]]
  BY <1>1 DEF Run
<1>3. \A i \in 1 .. q - p : p + i \in 1 .. Len(d)
  BY <1>1
<1>4. q - p \in Nat
  BY <1>1
<1> QED BY <1>2, <1>3, <1>4

(* What is found at an offset of a tail.                                   *)
LEMMA AtTail ==
  ASSUME NEW T, NEW d \in Seq(T), NEW p \in 0 .. Len(d), NEW i \in Nat
  PROVE  At(Run(d, p, Len(d)), i) = At(d, p + i)
<1> DEFINE r == Run(d, p, Len(d))
<1>1. Len(r) = Len(d) - p /\ \A j \in 1 .. Len(d) - p : r[j] = d[p + j]
  BY RunShape
<1>2. Len(d) \in Nat
  OBVIOUS
<1> HIDE DEF r
<1>3. CASE i < Len(d) - p
  <2>1. i + 1 \in 1 .. Len(d) - p /\ p + (i + 1) = p + i + 1 /\ p + i < Len(d)
    BY <1>2, <1>3
  <2> QED BY <1>1, <1>3, <2>1 DEF At, r
<1>4. CASE ~ (i < Len(d) - p)
  <2>1. ~ (p + i < Len(d))
    BY <1>2, <1>4
  <2> QED BY <1>1, <1>4, <2>1 DEF At, r
<1> QED BY <1>3, <1>4

LEMMA TailTail ==
  ASSUME NEW T, NEW d \in Seq(T), NEW p \in 0 .. Len(d), NEW q \in 0 .. Len(d) - p
  PROVE  Run(Run(d, p, Len(d)), q, Len(Run(d, p, Len(d)))) = Run(d, p + q, Len(d))
<1> DEFINE r == Run(d, p, Len(d))
           n == Len(d)
           x == Run(r, q, n - p)
           y == Run(d, p + q, n)
<1>1. n \in Nat /\ p + q \in 0 .. n /\ n \in p .. n /\ n \in p + q .. n
  OBVIOUS
<1>2. r \in Seq(T) /\ Len(r) = n - p /\ \A j \in 1 .. n - p : r[j] = d[p + j]
  BY <1>1, RunShape
<1>3. y \in Seq(T) /\ Len(y) = n - (p + q) /\ \A j \in 1 .. n - (p + q) : y[j] = d[p + q + j]
  BY <1>1, RunShape
<1> HIDE DEF r, n
<1>4. q \in 0 .. n - p /\ n - p \in q .. n - p /\ n - p \in Nat
  BY <1>1 DEF n
<1> DEFINE l == n - p
<1>41. q \in 0 .. Len(r) /\ l \in q .. Len(r)
  BY <1>2, <1>4
<1>5. x \in Seq(T) /\ Len(x) = n - p - q /\ \A j \in 1 .. n - p - q : x[j] = r[q + j]
  BY <1>2, <1>41, RunShape
<1> HIDE DEF x, y
<1>6. ASSUME NEW j \in 1 .. n - p - q PROVE x[j] = y[j]
  <2>1. q + j \in 1 .. n - p /\ j \in 1 .. n - (p + q) /\ p + (q + j) = p + q + j
    BY <1>1, <1>4
  <2> QED BY <1>2, <1>3, <1>5, <2>1
<1>7. n - p - q = n - (p + q)
  BY <1>1, <1>4
<1>8. x = y
  BY <1>3, <1>5, <1>6, <1>7
<1> QED BY <1>2, <1>8 DEF r, n, x, y

-----------------------------------------------------------------------------
(* The tokens that the parser looks for are different ones.                *)
LEMMA TokensDiffer ==
  /\ Colon # NUL /\ Colon # "CR" /\ "CR" # NUL /\ "LF" # NUL /\ "CR" # "LF"
  /\ Version # NUL /\ Version # "CR"
  /\ {GET, POST, RESPONSE} \cap {NUL, "CR"} = {}
  /\ GET # POST /\ GET # RESPONSE /\ POST # RESPONSE
BY Zenon DEF Colon, NUL, Version, GET, POST, RESPONSE

(* The scans of the parser.                                                *)
LEMMA FirstAtFacts ==
  ASSUME NEW d, Len(d) \in Nat, NEW p \in 0 .. Len(d), NEW X
  PROVE  /\ FirstAt(d, p, X) \in p .. Len(d)
         /\ At(d, FirstAt(d, p, X)) \in X \cup {NUL}
         /\ \A i \in p .. FirstAt(d, p, X) - 1 : At(d, i) \notin X \cup {NUL}
<1> DEFINE S == {q \in p .. Len(d) : At(d, q) \in X \cup {NUL}}
<1>1. Len(d) \in S
  BY DEF At
<1>2. PICK q \in S : \A y \in S : q <= y
  <2>1. S \subseteq Nat /\ S # {}
    BY <1>1
  <2> HIDE DEF S
  <2> QED BY <2>1, Least
<1>3. ASSUME NEW i \in p .. q - 1 PROVE At(d, i) \notin X \cup {NUL}
  <2>1. i \in p .. Len(d) /\ ~ (q <= i)
    OBVIOUS
  <2> QED BY <1>2, <2>1
<1>4. q \in p .. Len(d) /\ At(d, q) \in X \cup {NUL}
  OBVIOUS
<1> HIDE DEF S
<1>5. \E z \in p .. Len(d) : /\ At(d, z) \in X \cup {NUL}
                             /\ \A i \in p .. z - 1 : At(d, i) \notin X \cup {NUL}
  BY <1>3, <1>4
<1> QED BY <1>5 DEF FirstAt

(* A first offset is known by what it is.                                  *)
LEMMA FirstAtIs ==
  ASSUME NEW d, Len(d) \in Nat, NEW p \in 0 .. Len(d), NEW X, NEW q \in p .. Len(d),
         At(d, q) \in X \cup {NUL}, \A i \in p .. q - 1 : At(d, i) \notin X \cup {NUL}
  PROVE  FirstAt(d, p, X) = q
<1> DEFINE f == FirstAt(d, p, X)
<1>1. /\ f \in p .. Len(d) /\ At(d, f) \in X \cup {NUL}
      /\ \A i \in p .. f - 1 : At(d, i) \notin X \cup {NUL}
  BY FirstAtFacts
<1> HIDE DEF f
<1>2. ~ (f < q)
  BY <1>1
<1>3. ~ (q < f)
  BY <1>1
<1> QED BY <1>1, <1>2, <1>3 DEF f

LEMMA LineEndFacts ==
  ASSUME NEW d, Len(d) \in Nat, NEW p \in Nat
  PROVE  /\ LineEnds(d, p) \subseteq Nat
         /\ \A q \in LineEnds(d, p) : q \in p .. Len(d) - 2 /\ IsCrLf(d, q)
<1>1. ASSUME NEW q \in LineEnds(d, p) PROVE q \in p .. Len(d) - 2 /\ IsCrLf(d, q) /\ q \in Nat
  <2>1. q \in p .. Len(d) - 1 /\ At(d, q) = "CR" /\ At(d, q + 1) = "LF"
    BY DEF LineEnds, BeforeNul, IsCrLf
  <2>2. q + 1 < Len(d)
    BY <2>1 DEF At, NUL
  <2> QED BY <2>1, <2>2 DEF IsCrLf
<1> QED BY <1>1

(* A header line: where its parts are, and that it is not empty unless the *)
(* loop does not move.                                                     *)
LEMMA LineMoves ==
  ASSUME NEW T, NEW d \in Seq(T), NEW p \in 0 .. Len(d)
  PROVE  /\ LineAt(d, p).start \in p .. Len(d) /\ LineAt(d, p).next \in p .. Len(d)
         /\ LineAt(d, p).ended \in BOOLEAN
         /\ LineAt(d, p).key # << >> => LineAt(d, p).next \in p + 1 .. Len(d)
<1> DEFINE k == KeyEnd(d, p)
           s == ValueStart(d, k)
           v == ValueEnd(d, s)
<1>0. Len(d) \in Nat
  OBVIOUS
<1>1. k \in p .. Len(d)
  BY <1>0, FirstAtFacts DEF KeyEnd
<1> HIDE DEF k
<1>11. s = IF At(d, k) = Colon THEN k + 1 ELSE k
  BY DEF ValueStart
<1> HIDE DEF s
<1>2. s \in k .. Len(d)
  <2>1. At(d, k) = Colon => k < Len(d)
    BY TokensDiffer DEF At
  <2>2. k \in Nat /\ k <= Len(d)
    BY <1>0, <1>1
  <2>3. CASE At(d, k) = Colon
    BY <1>0, <1>11, <2>1, <2>2, <2>3
  <2>4. CASE At(d, k) # Colon
    BY <1>0, <1>11, <2>2, <2>4
  <2> QED BY <2>3, <2>4
<1>3. v \in s .. Len(d)
  <2>1. s \in 0 .. Len(d) /\ s \in Nat
    BY <1>0, <1>1, <1>2
  <2>2. CASE LineEnds(d, s) = {}
    BY <1>0, <2>1, <2>2, FirstAtFacts DEF ValueEnd
  <2>3. CASE LineEnds(d, s) # {}
    <3>1. MinOf(LineEnds(d, s)) \in LineEnds(d, s)
      BY <1>0, <2>1, <2>3, LineEndFacts, MinOfLeast
    <3>2. MinOf(LineEnds(d, s)) \in s .. Len(d) - 2
      BY <1>0, <2>1, <3>1, LineEndFacts
    <3> QED BY <1>0, <2>3, <3>2 DEF ValueEnd
  <2> QED BY <2>2, <2>3
<1> HIDE DEF v
<1> DEFINE n == IF IsCrLf(d, v) THEN v + 2 ELSE v
<1>4. n \in v .. Len(d)
  <2>1. IsCrLf(d, v) => v + 1 < Len(d)
    BY DEF IsCrLf, At, NUL
  <2> QED BY <1>0, <1>1, <1>2, <1>3, <2>1
<1> HIDE DEF n
<1>5. LineAt(d, p) = [key |-> Run(d, p, k), value |-> Run(d, s, v), start |-> s,
                      ended |-> IsCrLf(d, v), next |-> n]
  BY DEF LineAt, HeaderLine, k, s, v, n
<1>6. Run(d, p, k) # << >> => k > p
  <2> SUFFICES ASSUME k = p PROVE Run(d, p, k) = << >>
    BY <1>1
  <2>1. Run(d, p, k) \in Seq(T) /\ Len(Run(d, p, k)) = 0
    BY <1>0, <1>1, RunShape
  <2> QED BY <2>1
<1>7. IsCrLf(d, v) \in BOOLEAN
  BY DEF IsCrLf
<1> QED BY <1>0, <1>1, <1>2, <1>3, <1>4, <1>5, <1>6, <1>7

-----------------------------------------------------------------------------
(* The header loop.  What a round makes of the results of the next one,    *)
(* which begins behind the line (x) or behind its separator (y).           *)
Round(d, p, a, x, y) ==
  IF At(d, p) = NUL \/ p + 2 > Len(d) THEN [res |-> "incomplete"]
  ELSE IF IsCrLf(d, p) /\ a THEN [res |-> "done", eof |-> p + 2, headers |-> << >>]
  ELSE IF LineAt(d, p).key # << >> THEN Kept(LineAt(d, p), x)
  ELSE IF LineAt(d, p).start = p THEN [res |-> "hangs"] ELSE y

Rounds(d, f) ==
  f = [p \in 0 .. Len(d) |-> [a \in BOOLEAN |->
         Round(d, p, a, f[LineAt(d, p).next][LineAt(d, p).ended], f[LineAt(d, p).start][FALSE])]]

(* The loop moves, so from the last n offsets on it is defined.            *)
LEMMA RoundsExist ==
  ASSUME NEW T, NEW d \in Seq(T)
  PROVE  \E f : Rounds(d, f)
<1> DEFINE L == Len(d)
           G(n, g) == \A p \in L - n .. L : \A a \in BOOLEAN :
                        g[p][a] = Round(d, p, a, g[LineAt(d, p).next][LineAt(d, p).ended],
                                                 g[LineAt(d, p).start][FALSE])
           E(n) == \E g : G(n, g)
           S == {n \in Nat : n <= L => E(n)}
<1>0. L \in Nat
  OBVIOUS
<1>1. 0 \in S
  <2> DEFINE g == [p \in 0 .. L |-> [a \in BOOLEAN |-> [res |-> "incomplete"]]]
  <2>1. ASSUME NEW p \in L - 0 .. L, NEW a \in BOOLEAN
        PROVE  g[p][a] = Round(d, p, a, g[LineAt(d, p).next][LineAt(d, p).ended],
                                        g[LineAt(d, p).start][FALSE])
    <3>1. p = L /\ p \in 0 .. L
      BY <1>0
    <3>2. At(d, p) = NUL
      BY <3>1 DEF At
    <3>3. g[p][a] = [res |-> "incomplete"]
      BY <3>1
    <3> QED BY <3>2, <3>3 DEF Round
  <2> HIDE DEF g
  <2>2. G(0, g)
    BY <2>1
  <2> HIDE DEF G
  <2>3. E(0)
    BY <2>2
  <2> HIDE DEF E
  <2> QED BY <2>3
<1>2. ASSUME NEW n \in Nat, n \in S PROVE n + 1 \in S
  <2> HIDE DEF E
  <2> SUFFICES ASSUME n + 1 <= L PROVE E(n + 1)
    OBVIOUS
  <2>0. E(n)
    BY <1>0, <1>2
  <2>1. PICK g : G(n, g)
    BY <2>0 DEF E
  <2> DEFINE q == L - (n + 1)
             h == [p \in 0 .. L |-> [a \in BOOLEAN |->
                     IF p = q THEN Round(d, q, a, g[LineAt(d, q).next][LineAt(d, q).ended],
                                                  g[LineAt(d, q).start][FALSE])
                     ELSE g[p][a]]]
  <2>2. q \in 0 .. L /\ q \in Int
    BY <1>0
  <2>3. ASSUME NEW p \in q .. L, NEW a \in BOOLEAN
        PROVE  h[p][a] = Round(d, p, a, h[LineAt(d, p).next][LineAt(d, p).ended],
                                        h[LineAt(d, p).start][FALSE])
    <3> DEFINE l == LineAt(d, p)
    <3>0. p \in 0 .. L
      BY <1>0, <2>2
    <3>1. /\ l.start \in p .. L /\ l.next \in p .. L /\ l.ended \in BOOLEAN
          /\ l.key # << >> => l.next \in p + 1 .. L
      BY <3>0, LineMoves
    <3>2. FALSE \in BOOLEAN
      OBVIOUS
    <3> HIDE DEF l
    <3>3. l.key # << >> => h[l.next][l.ended] = g[l.next][l.ended]
      BY <1>0, <2>2, <3>0, <3>1
    <3>4. l.start # p => h[l.start][FALSE] = g[l.start][FALSE]
      BY <1>0, <2>2, <3>0, <3>1, <3>2
    <3>5. h[p][a] = Round(d, p, a, g[l.next][l.ended], g[l.start][FALSE])
      <4>1. CASE p = q
        BY <2>2, <3>0, <4>1 DEF l
      <4>2. CASE p # q
        <5>1. p \in L - n .. L
          BY <1>0, <2>2, <4>2
        <5>2. h[p][a] = g[p][a]
          BY <3>0, <4>2
        <5> HIDE DEF h
        <5> QED BY <2>1, <5>1, <5>2 DEF l
      <4> QED BY <4>1, <4>2
    <3> HIDE DEF h
    <3>6. Round(d, p, a, g[l.next][l.ended], g[l.start][FALSE])
            = Round(d, p, a, h[l.next][l.ended], h[l.start][FALSE])
      BY <3>3, <3>4 DEF Round, l
    <3> QED BY <3>5, <3>6 DEF l
  <2> HIDE DEF h
  <2>4. G(n + 1, h)
    BY <2>3
  <2> HIDE DEF G
  <2> QED BY <2>4 DEF E
<1> HIDE DEF S
<1>3. L \in S
  BY <1>0, <1>1, <1>2, Induct
<1>31. E(L)
  <2> HIDE DEF E
  <2> QED BY <1>0, <1>3 DEF S
<1>4. PICK g : G(L, g)
  BY <1>31
<1> DEFINE f == [p \in 0 .. L |-> [a \in BOOLEAN |-> g[p][a]]]
<1>5. ASSUME NEW p \in 0 .. L, NEW a \in BOOLEAN
      PROVE  g[p][a] = Round(d, p, a, f[LineAt(d, p).next][LineAt(d, p).ended],
                                      f[LineAt(d, p).start][FALSE])
  <2>1. /\ LineAt(d, p).start \in 0 .. L /\ LineAt(d, p).next \in 0 .. L
        /\ LineAt(d, p).ended \in BOOLEAN /\ FALSE \in BOOLEAN
    BY <1>0, LineMoves
  <2>2. /\ f[LineAt(d, p).next][LineAt(d, p).ended] = g[LineAt(d, p).next][LineAt(d, p).ended]
        /\ f[LineAt(d, p).start][FALSE] = g[LineAt(d, p).start][FALSE]
    BY <2>1
  <2>3. p \in L - L .. L
    BY <1>0
  <2> HIDE DEF f
  <2> QED BY <1>4, <2>2, <2>3
<1>6. f = [p \in 0 .. L |-> [a \in BOOLEAN |->
             Round(d, p, a, f[LineAt(d, p).next][LineAt(d, p).ended], f[LineAt(d, p).start][FALSE])]]
  <2> DEFINE k == [p \in 0 .. L |-> [a \in BOOLEAN |->
                     Round(d, p, a, f[LineAt(d, p).next][LineAt(d, p).ended],
                                    f[LineAt(d, p).start][FALSE])]]
  <2>1. f = k
    BY <1>5
  <2> QED BY <2>1
<1> HIDE DEF f
<1>7. Rounds(d, f)
  BY <1>6 DEF Rounds
<1> QED BY <1>7

LEMMA HeaderRounds ==
  ASSUME NEW T, NEW d \in Seq(T), NEW p \in 0 .. Len(d), NEW a \in BOOLEAN
  PROVE  HeaderFrom(d)[p][a]
           = Round(d, p, a, HeaderFrom(d)[LineAt(d, p).next][LineAt(d, p).ended],
                            HeaderFrom(d)[LineAt(d, p).start][FALSE])
<1>1. HeaderFrom(d) = CHOOSE f : Rounds(d, f)
  BY DEF HeaderFrom, Rounds, Round
<1>2. Rounds(d, HeaderFrom(d))
  BY <1>1, RoundsExist
<1> DEFINE h == HeaderFrom(d)
<1>3. h = [q \in 0 .. Len(d) |-> [b \in BOOLEAN |->
             Round(d, q, b, h[LineAt(d, q).next][LineAt(d, q).ended], h[LineAt(d, q).start][FALSE])]]
  BY <1>2 DEF Rounds
<1> HIDE DEF h
<1>4. h[p][a] = Round(d, p, a, h[LineAt(d, p).next][LineAt(d, p).ended], h[LineAt(d, p).start][FALSE])
  BY <1>3
<1> QED BY <1>4 DEF h

-----------------------------------------------------------------------------
(* What the steps of the parser may answer, whatever the data.             *)
HeaderAnswer(d, p, r) ==
  \/ r.res \in {"incomplete", "hangs"}
  \/ /\ r = [res |-> "done", eof |-> r.eof, headers |-> r.headers]
     /\ r.eof \in p + 2 .. Len(d)

LEMMA KeptAnswers ==
  ASSUME NEW d, Len(d) \in Nat, NEW p \in Nat, NEW q \in Nat, p <= q, NEW l, NEW r, HeaderAnswer(d, q, r)
  PROVE  HeaderAnswer(d, p, Kept(l, r))
<1>1. CASE r.res # "done" \/ l.value = << >>
  <2>1. Kept(l, r) = r
    BY <1>1 DEF Kept
  <2> QED BY <2>1 DEF HeaderAnswer
<1>2. CASE ~ (r.res # "done" \/ l.value = << >>)
  <2> DEFINE e == r.eof
             h == r.headers
             k == <<[key |-> l.key, value |-> l.value]>> \o h
  <2>1. Kept(l, r) = [r EXCEPT !.headers = k]
    BY <1>2 DEF Kept
  <2>2. r = [res |-> "done", eof |-> e, headers |-> h] /\ e \in q + 2 .. Len(d)
    BY <1>2 DEF HeaderAnswer
  <2> HIDE DEF k, e, h
  <2>3. Kept(l, r) = [res |-> "done", eof |-> e, headers |-> k]
    BY <2>1, <2>2
  <2>4. e \in p + 2 .. Len(d)
    BY <2>2
  <2> QED BY <2>3, <2>4 DEF HeaderAnswer
<1> QED BY <1>1, <1>2

LEMMA HeaderAnswers ==
  ASSUME NEW T, NEW d \in Seq(T)
  PROVE  \A p \in 0 .. Len(d), a \in BOOLEAN : HeaderAnswer(d, p, HeaderFrom(d)[p][a])
<1> DEFINE L == Len(d)
           E(n) == \A p \in L - n .. L : \A a \in BOOLEAN : HeaderAnswer(d, p, HeaderFrom(d)[p][a])
           S == {n \in Nat : n <= L => E(n)}
<1>0. L \in Nat
  OBVIOUS
<1>1. ASSUME NEW p \in 0 .. L, NEW a \in BOOLEAN,
             \A q \in p + 1 .. L : \A b \in BOOLEAN : HeaderAnswer(d, q, HeaderFrom(d)[q][b])
      PROVE  HeaderAnswer(d, p, HeaderFrom(d)[p][a])
  <2> DEFINE l == LineAt(d, p)
             x == HeaderFrom(d)[l.next][l.ended]
             y == HeaderFrom(d)[l.start][FALSE]
  <2>1. HeaderFrom(d)[p][a] = Round(d, p, a, x, y)
    BY HeaderRounds
  <2>2. /\ l.start \in p .. L /\ l.next \in p .. L /\ l.ended \in BOOLEAN
        /\ l.key # << >> => l.next \in p + 1 .. L
    BY LineMoves
  <2>3. l.key # << >> => HeaderAnswer(d, l.next, x)
    BY <1>1, <2>2
  <2>4. l.start # p => l.start \in p + 1 .. L
    BY <1>0, <2>2
  <2>5. l.start # p => HeaderAnswer(d, l.start, y)
    BY <1>1, <2>4
  <2> HIDE DEF x, y
  <2>6. CASE At(d, p) = NUL \/ p + 2 > L
    <3>1. Round(d, p, a, x, y).res = "incomplete"
      BY <2>6 DEF Round
    <3> QED BY <2>1, <3>1 DEF HeaderAnswer
  <2>7. CASE ~ (At(d, p) = NUL \/ p + 2 > L) /\ IsCrLf(d, p) /\ a
    <3>1. Round(d, p, a, x, y) = [res |-> "done", eof |-> p + 2, headers |-> << >>]
      BY <2>7 DEF Round
    <3>2. p + 2 \in p + 2 .. L
      BY <1>0, <2>7
    <3> QED BY <2>1, <3>1, <3>2 DEF HeaderAnswer
  <2>8. CASE ~ (At(d, p) = NUL \/ p + 2 > L) /\ ~ (IsCrLf(d, p) /\ a) /\ l.key # << >>
    <3>1. Round(d, p, a, x, y) = Kept(l, x)
      BY <2>8 DEF Round
    <3>2. p \in Nat /\ l.next \in Nat /\ p <= l.next
      BY <1>0, <2>2
    <3>3. HeaderAnswer(d, p, Kept(l, x))
      <4> HIDE DEF l
      <4> QED BY <1>0, <2>3, <2>8, <3>2, KeptAnswers
    <3> QED BY <2>1, <3>1, <3>3
  <2>9. CASE ~ (At(d, p) = NUL \/ p + 2 > L) /\ ~ (IsCrLf(d, p) /\ a) /\ ~ (l.key # << >>)
    <3>1. CASE l.start = p
      <4>1. Round(d, p, a, x, y).res = "hangs"
        BY <2>9, <3>1 DEF Round
      <4> QED BY <2>1, <4>1 DEF HeaderAnswer
    <3>2. CASE l.start # p
      <4>1. Round(d, p, a, x, y) = y
        BY <2>9, <3>2 DEF Round
      <4>2. HeaderAnswer(d, l.start, y) /\ p <= l.start /\ l.start \in Nat /\ p \in Nat
        BY <1>0, <2>2, <2>5, <3>2
      <4> HIDE DEF l
      <4>3. HeaderAnswer(d, p, y)
        BY <1>0, <4>2 DEF HeaderAnswer
      <4> QED BY <2>1, <4>1, <4>3
    <3> QED BY <3>1, <3>2
  <2> QED BY <2>6, <2>7, <2>8, <2>9
<1>2. 0 \in S
  <2>1. ASSUME NEW p \in L - 0 .. L, NEW a \in BOOLEAN PROVE HeaderAnswer(d, p, HeaderFrom(d)[p][a])
    <3>1. p \in 0 .. L /\ \A q \in p + 1 .. L : FALSE
      BY <1>0
    <3> QED BY <1>1, <3>1
  <2>2. E(0)
    BY <2>1
  <2> HIDE DEF E
  <2> QED BY <2>2
<1>3. ASSUME NEW n \in Nat, n \in S PROVE n + 1 \in S
  <2> HIDE DEF E
  <2> SUFFICES ASSUME n + 1 <= L PROVE E(n + 1)
    OBVIOUS
  <2>1. E(n)
    BY <1>0, <1>3
  <2>2. ASSUME NEW p \in L - (n + 1) .. L, NEW a \in BOOLEAN
        PROVE  HeaderAnswer(d, p, HeaderFrom(d)[p][a])
    <3>1. p \in 0 .. L /\ \A q \in p + 1 .. L : q \in L - n .. L
      BY <1>0
    <3>2. \A q \in p + 1 .. L : \A b \in BOOLEAN : HeaderAnswer(d, q, HeaderFrom(d)[q][b])
      BY <2>1, <3>1 DEF E
    <3> QED BY <1>1, <3>1, <3>2
  <2> QED BY <2>2 DEF E
<1> HIDE DEF E, S
<1>4. L \in S
  BY <1>0, <1>2, <1>3, Induct
<1>5. E(L)
  BY <1>0, <1>4 DEF S
<1>6. L - L = 0
  BY <1>0
<1> QED BY <1>5, <1>6 DEF E

-----------------------------------------------------------------------------
(* Where the header loop gets to: it reads at a line start s or behind     *)
(* empty keys that follow it, and no end of the header lies in front.      *)
LEMMA LineEndIn ==
  ASSUME NEW d, Len(d) \in Nat, NEW p \in Nat, NEW q
  PROVE  q \in LineEnds(d, p) <=>
           /\ q \in p .. Len(d) - 2 /\ IsCrLf(d, q) /\ \A i \in p .. q : At(d, i) # NUL
<1>1. ASSUME q \in LineEnds(d, p)
      PROVE  q \in p .. Len(d) - 2 /\ IsCrLf(d, q) /\ \A i \in p .. q : At(d, i) # NUL
  BY <1>1, LineEndFacts DEF LineEnds, BeforeNul
<1>2. ASSUME q \in p .. Len(d) - 2, IsCrLf(d, q), \A i \in p .. q : At(d, i) # NUL
      PROVE  q \in LineEnds(d, p)
  <2>1. q \in p .. Len(d) - 1
    BY <1>2
  <2> QED BY <1>2, <2>1 DEF LineEnds, BeforeNul
<1> QED BY <1>1, <1>2

LEMMA LineStartIn ==
  ASSUME NEW d, Len(d) \in Nat, NEW s
  PROVE  /\ s \in LineStarts(d) <=>
              /\ s \in 2 .. Len(d) /\ IsCrLf(d, s - 2) /\ \A i \in 0 .. s - 2 : At(d, i) # NUL
         /\ LineStarts(d) \subseteq Nat /\ HeaderEnds(d) \subseteq Nat
<1>1. ASSUME NEW x \in LineStarts(d)
      PROVE  x \in 2 .. Len(d) /\ IsCrLf(d, x - 2) /\ \A i \in 0 .. x - 2 : At(d, i) # NUL
  <2>1. PICK q \in LineEnds(d, 0) : x = q + 2
    BY <1>1 DEF LineStarts
  <2>2. q \in 0 .. Len(d) - 2 /\ IsCrLf(d, q) /\ \A i \in 0 .. q : At(d, i) # NUL
    BY <2>1, LineEndIn
  <2>3. q = x - 2 /\ x \in 2 .. Len(d)
    BY <2>1, <2>2
  <2> QED BY <2>2, <2>3
<1>2. ASSUME s \in 2 .. Len(d), IsCrLf(d, s - 2), \A i \in 0 .. s - 2 : At(d, i) # NUL
      PROVE  s \in LineStarts(d)
  <2>1. s - 2 \in 0 .. Len(d) - 2 /\ s = (s - 2) + 2
    BY <1>2
  <2>2. s - 2 \in LineEnds(d, 0)
    BY <1>2, <2>1, LineEndIn
  <2> QED BY <2>1, <2>2 DEF LineStarts
<1>3. LineStarts(d) \subseteq Nat
  BY <1>1
<1>4. HeaderEnds(d) \subseteq LineStarts(d)
  BY DEF HeaderEnds
<1> QED BY <1>1, <1>2, <1>3, <1>4

LEMMA LineParts ==
  ASSUME NEW T, NEW d \in Seq(T), NEW p \in 0 .. Len(d)
  PROVE  LET k == KeyEnd(d, p)
             l == LineAt(d, p)
             v == ValueEnd(d, l.start)
         IN  /\ k \in p .. Len(d) /\ At(d, k) \in {"CR", Colon, NUL}
             /\ \A i \in p .. k - 1 : At(d, i) \notin {"CR", Colon, NUL}
             /\ l.key = << >> => k = p
             /\ l.key # << >> => k # p
             /\ l.start = (IF At(d, k) = Colon THEN k + 1 ELSE k) /\ l.start \in p .. Len(d)
             /\ l.ended <=> IsCrLf(d, v)
             /\ l.next = (IF IsCrLf(d, v) THEN v + 2 ELSE v)
             /\ LineEnds(d, l.start) = {} => At(d, v) = NUL
             /\ LineEnds(d, l.start) # {} =>
                  v \in LineEnds(d, l.start) /\ \A y \in LineEnds(d, l.start) : v <= y
<1> DEFINE k == KeyEnd(d, p)
           s == ValueStart(d, k)
           v == ValueEnd(d, s)
           n == IF IsCrLf(d, v) THEN v + 2 ELSE v
<1>0. Len(d) \in Nat
  OBVIOUS
<1>1. k \in p .. Len(d) /\ At(d, k) \in {"CR", Colon, NUL}
        /\ \A i \in p .. k - 1 : At(d, i) \notin {"CR", Colon, NUL}
  <2>1. {"CR", Colon} \cup {NUL} = {"CR", Colon, NUL}
    OBVIOUS
  <2> QED BY <1>0, <2>1, FirstAtFacts DEF KeyEnd
<1>2. LineAt(d, p) = [key |-> Run(d, p, k), value |-> Run(d, s, v), start |-> s,
                      ended |-> IsCrLf(d, v), next |-> n]
  BY DEF LineAt, HeaderLine, k, s, v, n
<1>3. LineAt(d, p).start \in p .. Len(d)
  BY LineMoves
<1> HIDE DEF k, n
<1>4. LineAt(d, p).key = Run(d, p, k) /\ LineAt(d, p).start = s
        /\ LineAt(d, p).ended = IsCrLf(d, v) /\ LineAt(d, p).next = n
  BY <1>2
<1>5. /\ Run(d, p, k) = << >> => k = p
      /\ Run(d, p, k) # << >> => k # p
  <2>1. Run(d, p, k) \in Seq(T) /\ Len(Run(d, p, k)) = k - p
    BY <1>0, <1>1, RunShape
  <2> QED BY <1>0, <1>1, <2>1
<1>6. s = IF At(d, k) = Colon THEN k + 1 ELSE k
  BY DEF ValueStart
<1>7. s \in 0 .. Len(d) /\ s \in Nat
  BY <1>0, <1>3, <1>4
<1> HIDE DEF s
<1>8. LineEnds(d, s) = {} => At(d, v) = NUL
  <2>1. At(d, FirstAt(d, s, {})) \in {} \cup {NUL}
    BY <1>0, <1>7, FirstAtFacts
  <2> QED BY <2>1 DEF ValueEnd
<1>9. LineEnds(d, s) # {} => v \in LineEnds(d, s) /\ \A y \in LineEnds(d, s) : v <= y
  BY <1>0, <1>7, LineEndFacts, MinOfLeast DEF ValueEnd
<1> HIDE DEF v
<1>10. /\ LineAt(d, p).ended <=> IsCrLf(d, ValueEnd(d, LineAt(d, p).start))
       /\ LineAt(d, p).next = (IF IsCrLf(d, ValueEnd(d, LineAt(d, p).start))
                               THEN ValueEnd(d, LineAt(d, p).start) + 2
                               ELSE ValueEnd(d, LineAt(d, p).start))
  BY <1>4 DEF v, n
<1> QED BY <1>1, <1>3, <1>4, <1>5, <1>6, <1>8, <1>9, <1>10 DEF k, v

Placed(d, s, p, a) ==
  /\ s \in LineStarts(d) /\ p \in s .. Len(d)
  /\ \A i \in 0 .. p - 1 : At(d, i) # NUL
  /\ \A i \in s .. p - 1 : At(d, i) = Colon
  /\ a = TRUE => p = s /\ s > MinOf(LineStarts(d))
  /\ a = FALSE /\ p = s => s = MinOf(LineStarts(d))
  /\ \A x \in HeaderEnds(d) : s <= x
FoundAt(d, r) ==
  /\ r.res = "done" => r.eof - 2 \in HeaderEnds(d) /\ HeaderEnd(d) = r.eof
  /\ r.res = "hangs" => Stuck(d)

(* The end of the header, and a line on which the loop stands still.       *)
LEMMA EndPlaced ==
  ASSUME NEW d, Len(d) \in Nat, NEW s, NEW p, Placed(d, s, p, TRUE), IsCrLf(d, p)
  PROVE  p \in HeaderEnds(d) /\ HeaderEnd(d) = p + 2
<1>1. /\ p = s /\ s > MinOf(LineStarts(d)) /\ s \in LineStarts(d)
      /\ \A x \in HeaderEnds(d) : s <= x
  BY DEF Placed
<1>2. p \in HeaderEnds(d)
  BY <1>1 DEF HeaderEnds
<1>3. MinOf(HeaderEnds(d)) = p
  BY <1>1, <1>2, LineStartIn, MinOfIs
<1> QED BY <1>2, <1>3 DEF HeaderEnd

LEMMA StuckPlaced ==
  ASSUME NEW d, Len(d) \in Nat, NEW a \in BOOLEAN, NEW s, NEW p, Placed(d, s, p, a),
         At(d, p) = "CR", ~ (IsCrLf(d, p) /\ a)
  PROVE  Stuck(d)
<1>1. /\ s \in LineStarts(d) /\ p \in s .. Len(d) /\ \A i \in s .. p - 1 : At(d, i) = Colon
      /\ \A x \in HeaderEnds(d) : s <= x
  BY DEF Placed
<1>2. s \in Nat /\ p < Len(d)
  <2>1. p < Len(d)
    BY TokensDiffer DEF At
  <2> QED BY <1>1, <2>1, LineStartIn
<1>3. NoKey(d, s)
  <2>1. p \in s .. Len(d) - 1
    BY <1>1, <1>2
  <2> QED BY <1>1, <2>1 DEF NoKey
<1>4. s \notin HeaderEnds(d)
  <2>1. CASE p # s
    <3>1. s \in s .. p - 1
      BY <1>1, <1>2, <2>1
    <3>2. At(d, s) = Colon
      BY <1>1, <3>1
    <3> QED BY <3>2, TokensDiffer DEF HeaderEnds, IsCrLf
  <2>2. CASE p = s /\ a = TRUE
    BY <2>2 DEF HeaderEnds
  <2>3. CASE p = s /\ a = FALSE
    <3>1. s = MinOf(LineStarts(d))
      BY <2>3 DEF Placed
    <3> QED BY <1>2, <3>1 DEF HeaderEnds
  <2> QED BY <2>1, <2>2, <2>3
<1>5. \A x \in HeaderEnds(d) : s < x
  BY <1>1, <1>2, <1>4, LineStartIn
<1> QED BY <1>1, <1>3, <1>4, <1>5 DEF Stuck

(* Behind an empty key, and behind a line.                                 *)
LEMMA KeyPlaced ==
  ASSUME NEW d, Len(d) \in Nat, NEW a \in BOOLEAN, NEW s, NEW p, Placed(d, s, p, a),
         At(d, p) = Colon
  PROVE  Placed(d, s, p + 1, FALSE)
<1>1. /\ s \in LineStarts(d) /\ p \in s .. Len(d) /\ \A i \in s .. p - 1 : At(d, i) = Colon
      /\ \A i \in 0 .. p - 1 : At(d, i) # NUL
      /\ \A x \in HeaderEnds(d) : s <= x
  BY DEF Placed
<1>2. s \in Nat /\ p \in Nat /\ p < Len(d)
  <2>1. p < Len(d)
    BY TokensDiffer DEF At
  <2> QED BY <1>1, <2>1, LineStartIn
<1>3. p + 1 \in s .. Len(d) /\ p + 1 # s
  BY <1>1, <1>2
<1>4. \A i \in 0 .. p + 1 - 1 : At(d, i) # NUL
  <2>1. \A i \in 0 .. p + 1 - 1 : i \in 0 .. p - 1 \/ i = p
    BY <1>2
  <2> QED BY <1>1, <2>1, TokensDiffer
<1>5. \A i \in s .. p + 1 - 1 : At(d, i) = Colon
  <2>1. \A i \in s .. p + 1 - 1 : i \in s .. p - 1 \/ i = p
    BY <1>2
  <2> QED BY <1>1, <2>1
<1> QED BY <1>1, <1>3, <1>4, <1>5 DEF Placed

LEMMA LinePlaced ==
  ASSUME NEW T, NEW d \in Seq(T), NEW a \in BOOLEAN, NEW s, NEW p, Placed(d, s, p, a),
         LineAt(d, p).key # << >>, LineAt(d, p).ended
  PROVE  Placed(d, LineAt(d, p).next, LineAt(d, p).next, TRUE)
<1> DEFINE k == KeyEnd(d, p)
           b == LineAt(d, p).start
           v == ValueEnd(d, b)
           z == LineAt(d, p).next
<1>0. Len(d) \in Nat
  OBVIOUS
<1>1. /\ s \in LineStarts(d) /\ p \in s .. Len(d) /\ \A i \in s .. p - 1 : At(d, i) = Colon
      /\ \A i \in 0 .. p - 1 : At(d, i) # NUL
      /\ \A x \in HeaderEnds(d) : s <= x
  BY DEF Placed
<1>2. s \in Nat /\ p \in 0 .. Len(d) /\ s >= 2 /\ MinOf(LineStarts(d)) <= s /\ MinOf(LineStarts(d)) \in Nat
  <2>1. s \in 2 .. Len(d) /\ LineStarts(d) \subseteq Nat
    BY <1>0, <1>1, LineStartIn
  <2>2. MinOf(LineStarts(d)) <= s /\ MinOf(LineStarts(d)) \in LineStarts(d)
    BY <1>1, <2>1, MinOfLeast
  <2> QED BY <1>0, <1>1, <2>1, <2>2
<1>3. /\ k \in p .. Len(d) /\ At(d, k) \in {"CR", Colon, NUL}
      /\ \A i \in p .. k - 1 : At(d, i) \notin {"CR", Colon, NUL}
      /\ k # p /\ b = (IF At(d, k) = Colon THEN k + 1 ELSE k) /\ b \in p .. Len(d)
      /\ IsCrLf(d, v) /\ z = v + 2
      /\ LineEnds(d, b) = {} => At(d, v) = NUL
      /\ LineEnds(d, b) # {} => v \in LineEnds(d, b) /\ \A y \in LineEnds(d, b) : v <= y
  BY <1>2, LineParts
<1>4. v \in LineEnds(d, b) /\ \A y \in LineEnds(d, b) : v <= y
  BY <1>3, TokensDiffer DEF IsCrLf
<1> HIDE DEF k, b, v, z
<1>5. b \in Nat /\ k \in Nat /\ v \in b .. Len(d) - 2 /\ \A i \in b .. v : At(d, i) # NUL
  <2>1. b \in Nat /\ k \in Nat
    BY <1>0, <1>2, <1>3
  <2> QED BY <1>0, <1>4, <2>1, LineEndIn
<1>6. \A i \in 0 .. v : At(d, i) # NUL
  <2>1. At(d, k) # NUL
    <3>1. CASE b = k
      BY <1>5, <3>1
    <3>2. CASE b # k
      BY <1>3, <3>2, TokensDiffer
    <3> QED BY <3>1, <3>2
  <2>2. \A i \in 0 .. v : i \in 0 .. p - 1 \/ i \in p .. k - 1 \/ i = k \/ i \in b .. v
    BY <1>2, <1>3, <1>5
  <2> QED BY <1>1, <1>3, <1>5, <2>1, <2>2
<1>7. z \in LineStarts(d) /\ z \in Nat /\ z > s
  <2>1. z \in 2 .. Len(d) /\ z - 2 = v /\ z > s /\ z \in Nat
    BY <1>0, <1>1, <1>2, <1>3, <1>5
  <2>2. IsCrLf(d, z - 2) /\ \A i \in 0 .. z - 2 : At(d, i) # NUL
    BY <1>3, <1>6, <2>1
  <2> QED BY <1>0, <2>1, <2>2, LineStartIn
<1>8. \A i \in 0 .. z - 1 : At(d, i) # NUL
  <2>1. \A i \in 0 .. z - 1 : i \in 0 .. v \/ i = v + 1
    BY <1>3, <1>5
  <2>2. At(d, v + 1) # NUL
    BY <1>3, TokensDiffer DEF IsCrLf
  <2> QED BY <1>6, <2>1, <2>2
<1>9. ASSUME NEW x \in HeaderEnds(d) PROVE z <= x
  <2>1. x \in 2 .. Len(d) /\ IsCrLf(d, x - 2) /\ \A i \in 0 .. x - 2 : At(d, i) # NUL
    BY <1>0, LineStartIn DEF HeaderEnds
  <2>2. IsCrLf(d, x) /\ s <= x
    BY <1>1 DEF HeaderEnds
  <2>3. At(d, x) = "CR" /\ At(d, x - 2) = "CR" /\ At(d, x - 1) = "LF"
    <3>1. x - 2 + 1 = x - 1
      BY <2>1
    <3> QED BY <2>1, <2>2, <3>1 DEF IsCrLf
  <2>4. x # s
    <3>1. CASE p # s
      <4>1. s \in s .. p - 1
        BY <1>1, <1>2, <3>1
      <4> QED BY <1>1, <2>3, <4>1, TokensDiffer
    <3>2. CASE p = s
      <4>1. p \in p .. k - 1
        BY <1>2, <1>3
      <4> QED BY <1>3, <2>3, <3>2, <4>1
    <3> QED BY <3>1, <3>2
  <2>5. x - 2 # s - 1
    <3>1. IsCrLf(d, s - 2)
      BY <1>0, <1>1, LineStartIn
    <3>2. At(d, s - 1) = "LF"
      <4>1. s - 2 + 1 = s - 1
        BY <1>2
      <4> QED BY <3>1, <4>1 DEF IsCrLf
    <3> QED BY <2>3, <3>2, TokensDiffer
  <2>6. x - 2 \in b .. Len(d) - 2
    <3>1. x - 2 \in s .. Len(d) - 2
      BY <1>2, <2>1, <2>2, <2>4, <2>5
    <3>2. x - 2 \notin s .. p - 1
      BY <1>1, <2>3, TokensDiffer
    <3>3. x - 2 \notin p .. k - 1
      BY <1>3, <2>3
    <3>4. b # k => x - 2 # k
      BY <1>3, <2>3, TokensDiffer
    <3>5. b = k \/ b = k + 1
      BY <1>3
    <3> QED BY <1>0, <1>1, <1>2, <1>3, <3>1, <3>2, <3>3, <3>4, <3>5
  <2>7. \A i \in b .. x - 2 : At(d, i) # NUL
    BY <1>5, <2>1
  <2>8. x - 2 \in LineEnds(d, b)
    BY <1>0, <1>5, <2>1, <2>6, <2>7, LineEndIn
  <2> QED BY <1>3, <1>4, <1>5, <2>1, <2>8
<1>10. z \in z .. Len(d) /\ z > MinOf(LineStarts(d)) /\ \A i \in z .. z - 1 : At(d, i) = Colon
  <2>1. z \in 2 .. Len(d)
    BY <1>0, <1>7, LineStartIn
  <2> QED BY <1>0, <1>2, <1>7, <2>1
<1>11. Placed(d, z, z, TRUE)
  BY <1>7, <1>8, <1>9, <1>10 DEF Placed
<1> QED BY <1>11 DEF z

LEMMA PlacesRound ==
  ASSUME NEW T, NEW d \in Seq(T), NEW p \in 0 .. Len(d), NEW a \in BOOLEAN,
         \A q \in p + 1 .. Len(d) : \A b \in BOOLEAN : \A z :
           Placed(d, z, q, b) => FoundAt(d, HeaderFrom(d)[q][b]),
         NEW s, Placed(d, s, p, a)
  PROVE  FoundAt(d, HeaderFrom(d)[p][a])
<1> DEFINE L == Len(d)
           l == LineAt(d, p)
           x == HeaderFrom(d)[l.next][l.ended]
           y == HeaderFrom(d)[l.start][FALSE]
           r == HeaderFrom(d)[p][a]
<1>0. L \in Nat
  OBVIOUS
<1>1. r = Round(d, p, a, x, y)
  BY HeaderRounds
<1>2. /\ l.start \in p .. L /\ l.next \in p .. L /\ l.ended \in BOOLEAN
      /\ l.key # << >> => l.next \in p + 1 .. L
  BY LineMoves
<1>3. /\ At(d, KeyEnd(d, p)) \in {"CR", Colon, NUL}
      /\ l.key = << >> => KeyEnd(d, p) = p
      /\ l.start = (IF At(d, KeyEnd(d, p)) = Colon THEN KeyEnd(d, p) + 1 ELSE KeyEnd(d, p))
  <2>1. At(d, KeyEnd(d, p)) \in {"CR", Colon, NUL}
    BY LineParts, Zenon
  <2>2. l.key = << >> => KeyEnd(d, p) = p
    BY LineParts, Zenon
  <2>3. l.start = (IF At(d, KeyEnd(d, p)) = Colon THEN KeyEnd(d, p) + 1 ELSE KeyEnd(d, p))
    BY LineParts, Zenon
  <2> HIDE DEF l
  <2> QED BY <2>1, <2>2, <2>3
<1>30. ~ l.ended => At(d, l.next) = NUL
  <2>1. l.ended <=> IsCrLf(d, ValueEnd(d, l.start))
    BY LineParts, Zenon
  <2>2. l.next = (IF IsCrLf(d, ValueEnd(d, l.start)) THEN ValueEnd(d, l.start) + 2
                  ELSE ValueEnd(d, l.start))
    BY LineParts, Zenon
  <2>3. /\ LineEnds(d, l.start) = {} => At(d, ValueEnd(d, l.start)) = NUL
        /\ LineEnds(d, l.start) # {} => ValueEnd(d, l.start) \in LineEnds(d, l.start)
    BY LineParts, Zenon
  <2>4. l.start \in Nat
    BY <1>0, <1>2
  <2> HIDE DEF l
  <2>5. LineEnds(d, l.start) # {} => IsCrLf(d, ValueEnd(d, l.start))
    BY <1>0, <2>3, <2>4, LineEndFacts
  <2> QED BY <2>1, <2>2, <2>3, <2>5
<1> HIDE DEF x, y, r
<1>4. CASE At(d, p) = NUL \/ p + 2 > L
  <2>1. r = [res |-> "incomplete"]
    BY <1>1, <1>4 DEF Round
  <2> QED BY <2>1 DEF FoundAt, r
<1>5. CASE ~ (At(d, p) = NUL \/ p + 2 > L) /\ IsCrLf(d, p) /\ a
  <2>1. r = [res |-> "done", eof |-> p + 2, headers |-> << >>]
    BY <1>1, <1>5 DEF Round
  <2>2. a = TRUE
    BY <1>5
  <2>3. p \in HeaderEnds(d) /\ HeaderEnd(d) = p + 2
    BY <1>0, <1>5, <2>2, EndPlaced
  <2>4. r.res = "done" /\ r.eof = p + 2 /\ p + 2 - 2 = p
    BY <2>1
  <2> QED BY <2>3, <2>4 DEF FoundAt, r
<1>6. CASE ~ (At(d, p) = NUL \/ p + 2 > L) /\ ~ (IsCrLf(d, p) /\ a) /\ l.key # << >>
  <2>1. r = Kept(l, x)
    BY <1>1, <1>6 DEF Round
  <2>2. FoundAt(d, x)
    <3>1. CASE l.ended
      <4>1. l.ended = TRUE
        BY <1>2, <3>1
      <4>2. Placed(d, l.next, l.next, TRUE)
        BY <1>6, <3>1, LinePlaced
      <4>3. l.next \in p + 1 .. Len(d) /\ TRUE \in BOOLEAN
        BY <1>2, <1>6
      <4> HIDE DEF l
      <4> QED BY <4>1, <4>2, <4>3 DEF x
    <3>2. CASE ~ l.ended
      <4>1. At(d, l.next) = NUL
        BY <1>30, <3>2
      <4>2. l.next \in 0 .. Len(d)
        BY <1>0, <1>2
      <4> HIDE DEF l
      <4>3. x = [res |-> "incomplete"]
        BY <1>2, <4>1, <4>2, HeaderRounds DEF Round, x
      <4> QED BY <4>3 DEF FoundAt
    <3> QED BY <3>1, <3>2
  <2>3. Kept(l, x).res = x.res /\ (x.res = "done" => Kept(l, x).eof = x.eof)
    <3>1. l.next \in 0 .. Len(d)
      BY <1>0, <1>2
    <3>2. HeaderAnswer(d, l.next, x)
      BY <1>2, <3>1, HeaderAnswers DEF x
    <3> HIDE DEF l
    <3>3. CASE x.res # "done" \/ l.value = << >>
      BY <3>3 DEF Kept
    <3>4. CASE ~ (x.res # "done" \/ l.value = << >>)
      <4> DEFINE e == x.eof
                 h == x.headers
                 k == <<[key |-> l.key, value |-> l.value]>> \o h
      <4>1. Kept(l, x) = [x EXCEPT !.headers = k]
        BY <3>4 DEF Kept
      <4>2. x = [res |-> "done", eof |-> e, headers |-> h]
        BY <3>2, <3>4 DEF HeaderAnswer
      <4> HIDE DEF k, e, h
      <4>3. Kept(l, x) = [res |-> "done", eof |-> e, headers |-> k]
        BY <4>1, <4>2
      <4>4. Kept(l, x).res = "done" /\ Kept(l, x).eof = e
        BY <4>3
      <4> QED BY <3>4, <4>4 DEF e
    <3> QED BY <3>3, <3>4
  <2>4. r.res = x.res /\ (x.res = "done" => r.eof = x.eof)
    BY <2>1, <2>3
  <2>5. FoundAt(d, r)
    BY <2>2, <2>4 DEF FoundAt
  <2> QED BY <2>5 DEF r
<1>7. CASE ~ (At(d, p) = NUL \/ p + 2 > L) /\ ~ (IsCrLf(d, p) /\ a) /\ l.key = << >>
  <2>0. KeyEnd(d, p) = p
    BY <1>3, <1>7
  <2>1. CASE At(d, p) = "CR"
    <3>1. l.start = p
      BY <1>3, <2>0, <2>1, TokensDiffer
    <3>2. r = [res |-> "hangs"]
      BY <1>1, <1>7, <3>1 DEF Round
    <3>3. Stuck(d)
      BY <1>0, <1>7, <2>1, StuckPlaced
    <3>4. r.res = "hangs"
      BY <3>2
    <3> QED BY <3>3, <3>4 DEF FoundAt, r
  <2>2. CASE At(d, p) = Colon
    <3>1. l.start = p + 1 /\ p + 1 # p
      BY <1>0, <1>3, <2>0, <2>2
    <3>2. r = y
      BY <1>1, <1>7, <3>1 DEF Round
    <3>3. Placed(d, s, p + 1, FALSE)
      BY <1>0, <2>2, KeyPlaced
    <3>4. p + 1 \in p + 1 .. Len(d) /\ FALSE \in BOOLEAN
      BY <1>2, <3>1
    <3>5. FoundAt(d, HeaderFrom(d)[p + 1][FALSE])
      BY <3>3, <3>4
    <3> QED BY <3>1, <3>2, <3>5 DEF r, y
  <2> QED BY <1>3, <1>7, <2>0, <2>1, <2>2
<1> QED BY <1>4, <1>5, <1>6, <1>7

LEMMA HeaderPlaces ==
  ASSUME NEW T, NEW d \in Seq(T), NEW q \in 0 .. Len(d), NEW b \in BOOLEAN, NEW z, Placed(d, z, q, b)
  PROVE  FoundAt(d, HeaderFrom(d)[q][b])
<1> DEFINE L == Len(d)
           E(n) == \A p \in L - n .. L : \A a \in BOOLEAN : \A s :
                     p >= 0 /\ Placed(d, s, p, a) => FoundAt(d, HeaderFrom(d)[p][a])
           S == {n \in Nat : E(n)}
<1>0. L \in Nat
  OBVIOUS
<1>1. 0 \in S
  <2>1. ASSUME NEW p \in L - 0 .. L, NEW a \in BOOLEAN, NEW s, p >= 0, Placed(d, s, p, a)
        PROVE  FoundAt(d, HeaderFrom(d)[p][a])
    <3>1. p \in 0 .. L /\ \A x \in p + 1 .. L : FALSE
      BY <1>0
    <3> QED BY <2>1, <3>1, PlacesRound
  <2> QED BY <2>1
<1>2. ASSUME NEW n \in Nat, n \in S PROVE n + 1 \in S
  <2>1. ASSUME NEW p \in L - (n + 1) .. L, NEW a \in BOOLEAN, NEW s, p >= 0, Placed(d, s, p, a)
        PROVE  FoundAt(d, HeaderFrom(d)[p][a])
    <3>1. p \in 0 .. L /\ \A x \in p + 1 .. L : x \in L - n .. L /\ x >= 0
      BY <1>0, <2>1
    <3>2. E(n)
      BY <1>2
    <3> HIDE DEF S
    <3>3. \A x \in p + 1 .. L : \A c \in BOOLEAN : \A y :
            Placed(d, y, x, c) => FoundAt(d, HeaderFrom(d)[x][c])
      BY <3>1, <3>2
    <3> QED BY <2>1, <3>1, <3>3, PlacesRound
  <2> QED BY <2>1
<1> HIDE DEF E, S
<1>3. L \in S
  BY <1>0, <1>1, <1>2, Induct
<1>4. E(L)
  BY <1>3 DEF S
<1>5. q \in L - L .. L /\ q >= 0
  BY <1>0
<1> QED BY <1>4, <1>5 DEF E

(* The loop begins behind the first line.                                  *)
LEMMA HeaderStands ==
  ASSUME NEW T, NEW d \in Seq(T), LineEnds(d, 0) # {}
  PROVE  FoundAt(d, HeaderFrom(d)[MinOf(LineEnds(d, 0)) + 2][FALSE])
<1> DEFINE m == MinOf(LineEnds(d, 0))
           e == m + 2
<1>0. Len(d) \in Nat
  OBVIOUS
<1>1. m \in LineEnds(d, 0) /\ \A y \in LineEnds(d, 0) : m <= y
  BY <1>0, LineEndFacts, MinOfLeast
<1>2. m \in 0 .. Len(d) - 2 /\ IsCrLf(d, m) /\ \A i \in 0 .. m : At(d, i) # NUL
  BY <1>0, <1>1, LineEndIn
<1>3. e \in LineStarts(d) /\ \A s \in LineStarts(d) : e <= s
  <2>1. e \in LineStarts(d)
    BY <1>1 DEF LineStarts
  <2>2. ASSUME NEW s \in LineStarts(d) PROVE e <= s
    <3>1. PICK y \in LineEnds(d, 0) : s = y + 2
      BY DEF LineStarts
    <3>2. m <= y /\ y \in Nat
      BY <1>0, <1>1, LineEndFacts
    <3> QED BY <1>2, <3>1, <3>2
  <2> QED BY <2>1, <2>2
<1> HIDE DEF m
<1>4. e \in 0 .. Len(d) /\ e \in e .. Len(d) /\ (\A i \in e .. e - 1 : FALSE)
  BY <1>0, <1>2
<1>5. MinOf(LineStarts(d)) = e
  <2> HIDE DEF e
  <2> QED BY <1>0, <1>3, LineStartIn, MinOfIs
<1>6. \A i \in 0 .. e - 1 : At(d, i) # NUL
  <2>1. \A i \in 0 .. e - 1 : i \in 0 .. m \/ i = m + 1
    BY <1>2
  <2>2. At(d, m + 1) # NUL
    BY <1>2, TokensDiffer DEF IsCrLf
  <2> QED BY <1>2, <2>1, <2>2
<1>7. \A x \in HeaderEnds(d) : e <= x
  BY <1>3 DEF HeaderEnds
<1> HIDE DEF e
<1>8. Placed(d, e, e, FALSE)
  BY <1>3, <1>4, <1>5, <1>6, <1>7 DEF Placed
<1>9. FoundAt(d, HeaderFrom(d)[e][FALSE])
  BY <1>4, <1>8, HeaderPlaces
<1> QED BY <1>9 DEF e, m

LEMMA LengthNat ==
  ASSUME NEW h
  PROVE  length_(h) \in Nat /\ length_(h) < Word
<1>0. Word \in Nat /\ Word > 64
  BY WordAssumption
<1>1. \A v : Number(v) \in Nat /\ Number(v) < Word
  <2> TAKE v
  <2>1. Numerals(Digits, v) \subseteq 1 .. 9 /\ Numerals(Negatives, v) \subseteq 1 .. 20
    BY DEF Numerals, Digits, Negatives
  <2>2. CASE Numerals(Digits, v) # {}
    <3>1. MinOf(Numerals(Digits, v)) \in Numerals(Digits, v)
      BY <2>1, <2>2, MinOfLeast
    <3>2. MinOf(Numerals(Digits, v)) \in 1 .. 9
      BY <2>1, <3>1
    <3> QED BY <1>0, <2>2, <3>2 DEF Number
  <2>3. CASE Numerals(Digits, v) = {} /\ Numerals(Negatives, v) # {}
    <3>1. MinOf(Numerals(Negatives, v)) \in Numerals(Negatives, v)
      BY <2>1, <2>3, MinOfLeast
    <3>2. MinOf(Numerals(Negatives, v)) \in 1 .. 20
      BY <2>1, <3>1
    <3> QED BY <1>0, <2>3, <3>2 DEF Number
  <2>4. CASE Numerals(Digits, v) = {} /\ Numerals(Negatives, v) = {}
    BY <1>0, <2>4 DEF Number
  <2> QED BY <2>2, <2>3, <2>4
<1> QED BY <1>0, <1>1 DEF length_

(* The end of a message wraps at most once, and then lies before its       *)
(* content.                                                                *)
LEMMA WrappedFacts ==
  ASSUME NEW e \in Nat, NEW l \in Nat, l < Word
  PROVE  /\ Wrapped(e + l) \in Nat
         /\ Wrapped(e + l) >= e => Wrapped(e + l) = e + l /\ e + l < Word
         /\ e + l < Word => Wrapped(e + l) = e + l
         /\ Wrapped(e + l) = 0 /\ e > 0 => e + l = Word
BY WordAssumption DEF Wrapped

(* The first line answers with the end of the line it is, or throws.       *)
Bad(d) ==
  /\ LineEnds(d, 0) # {}
  /\ \/ At(d, 0) \notin {GET, POST, RESPONSE}
     \/ At(d, 0) = RESPONSE /\ At(d, 1) # "200"
     \/ At(d, 0) \in {GET, POST} /\ Protocols(d, 1) = {}

LEMMA MethodAnswers ==
  ASSUME NEW T, NEW d \in Seq(T)
  PROVE  LET m == DeserializeMethod_(d)
         IN  /\ m.res \in {"incomplete", "throws", "done"}
             /\ m.res = "incomplete" <=> LineEnds(d, 0) = {}
             /\ m.res = "throws" <=> Bad(d)
             /\ m.res = "done" =>
                  /\ m.method = At(d, 0) /\ m.method \in {GET, POST, RESPONSE}
                  /\ m.uri = Uri(d)
                  /\ m.eof = MinOf(LineEnds(d, 0)) + 2 /\ m.eof \in 2 .. Len(d)
<1> DEFINE m == DeserializeMethod_(d)
           e == MinOf(LineEnds(d, 0)) + 2
           u == Run(d, 1, MinOf(Protocols(d, 1)))
           a == At(d, 0)
<1>1. CASE LineEnds(d, 0) = {}
  <2>1. m = [res |-> "incomplete"]
    BY <1>1 DEF DeserializeMethod_
  <2> QED BY <1>1, <2>1 DEF Bad
<1>2. CASE LineEnds(d, 0) # {}
  <2>1. e \in 2 .. Len(d)
    <3>1. Len(d) \in Nat
      OBVIOUS
    <3>2. MinOf(LineEnds(d, 0)) \in LineEnds(d, 0)
      BY <1>2, <3>1, LineEndFacts, MinOfLeast
    <3>3. MinOf(LineEnds(d, 0)) \in 0 .. Len(d) - 2
      BY <3>1, <3>2, LineEndFacts
    <3> QED BY <3>1, <3>3
  <2>2. CASE a \notin {GET, POST, RESPONSE}
    <3>1. m = [res |-> "throws", method |-> a, uri |-> << >>, eof |-> e]
      BY <1>2, <2>2 DEF DeserializeMethod_
    <3> QED BY <1>2, <2>2, <3>1 DEF Bad
  <2>3. CASE a = RESPONSE /\ At(d, 1) = "200"
    <3>1. m = [res |-> "done", method |-> a, uri |-> << >>, eof |-> e]
      BY <1>2, <2>3, TokensDiffer DEF DeserializeMethod_
    <3> HIDE DEF m, e
    <3> QED BY <1>2, <2>1, <2>3, <3>1, TokensDiffer DEF Bad, Uri, m, e
  <2>4. CASE a = RESPONSE /\ At(d, 1) # "200"
    <3>1. m = [res |-> "throws", method |-> a, uri |-> << >>, eof |-> e]
      BY <1>2, <2>4, TokensDiffer DEF DeserializeMethod_
    <3> QED BY <1>2, <2>4, <3>1, TokensDiffer DEF Bad
  <2>5. CASE a \in {GET, POST} /\ Protocols(d, 1) = {}
    <3>1. m = [res |-> "throws", method |-> a, uri |-> << >>, eof |-> e]
      BY <1>2, <2>5, TokensDiffer DEF DeserializeMethod_
    <3> QED BY <1>2, <2>5, <3>1, TokensDiffer DEF Bad
  <2>6. CASE a \in {GET, POST} /\ Protocols(d, 1) # {}
    <3>1. m = [res |-> "done", method |-> a, uri |-> u, eof |-> e]
      BY <1>2, <2>6, TokensDiffer DEF DeserializeMethod_
    <3>2. ~ Bad(d)
      BY <2>6, TokensDiffer DEF Bad
    <3>3. Uri(d) = u
      BY <2>6, TokensDiffer DEF Uri
    <3> QED BY <1>2, <2>1, <2>6, <3>1, <3>2, <3>3
  <2> QED BY <2>2, <2>3, <2>4, <2>5, <2>6
<1> QED BY <1>1, <1>2

LEMMA AtStart ==
  ASSUME NEW d, Len(d) \in Nat, At(d, 0) = NUL
  PROVE  LineEnds(d, 0) = {} /\ ~ Bad(d)
<1>1. BeforeNul(d, 0) = {}
  BY DEF BeforeNul
<1> QED BY <1>1 DEF LineEnds, Bad

LEMMA QueryAnswers ==
  ASSUME NEW T, NEW d \in Seq(T), NEW m, NEW u, NEW e \in 4 .. Len(d), NEW l \in Nat
  PROVE  LET q == DeserializeQuery_(d, m, u, e, l)
         IN  /\ q.res \in {"incomplete", "done"}
             /\ q.res = "incomplete" <=> m # GET /\ Wrapped(e + l) > Len(d)
             /\ q.res = "done" =>
                  /\ q.eof = Wrapped(e + l)
                  /\ q.queries = IF m = GET THEN QueryPairs(u, FirstAt(u, 0, {"?"})) ELSE QueryPairs(d, e)
<1> DEFINE q == DeserializeQuery_(d, m, u, e, l)
           a == QueryPairs(u, FirstAt(u, 0, {"?"}))
           b == QueryPairs(d, e)
<1>1. CASE m = GET
  <2>1. q = [res |-> "done", eof |-> Wrapped(e + l), queries |-> a]
    BY <1>1 DEF DeserializeQuery_
  <2> HIDE DEF q, a, b
  <2>2. q.res = "done" /\ q.eof = Wrapped(e + l) /\ q.queries = a
    BY <2>1
  <2> QED BY <1>1, <2>2 DEF q, a
<1>2. CASE m # GET /\ Wrapped(e + l) > Len(d)
  <2>1. q = [res |-> "incomplete"]
    BY <1>2 DEF DeserializeQuery_
  <2> HIDE DEF q, a, b
  <2>2. q.res = "incomplete"
    BY <2>1
  <2> QED BY <1>2, <2>2 DEF q
<1>3. CASE m # GET /\ ~ (Wrapped(e + l) > Len(d))
  <2>1. q = [res |-> "done", eof |-> Wrapped(e + l), queries |-> b]
    BY <1>3 DEF DeserializeQuery_
  <2> HIDE DEF q, a, b
  <2>2. q.res = "done" /\ q.eof = Wrapped(e + l) /\ q.queries = b
    BY <2>1
  <2> QED BY <1>3, <2>2 DEF q, b
<1> QED BY <1>1, <1>2, <1>3

(* The answer of Deserialize to data of a kind: bad data throws, nothing   *)
(* else does; a message that claims more than the data has is a GET, and   *)
(* one of no length has a length that wraps.                               *)
LEMMA DeserializeAnswers ==
  ASSUME NEW T, NEW d \in Seq(T)
  PROVE  LET r == Deserialize(d)
         IN  /\ r.res \in {"incomplete", "throws", "hangs", "done"}
             /\ r.res = "throws" <=> Bad(d)
             /\ r.res = "hangs" => Stuck(d)
             /\ r.res = "done" =>
                  /\ r.eof \in Nat /\ HeaderEnd(d) \in 4 .. Len(d)
                  /\ r.eof = Wrapped(HeaderEnd(d) + length_(r.headers))
                  /\ r.eof > Len(d) => r.method = GET
<1> DEFINE r == Deserialize(d)
           m == DeserializeMethod_(d)
           h == DeserializeHeader_(d, m.eof)
           l == length_(h.headers)
           q == DeserializeQuery_(d, m.method, m.uri, h.eof, l)
<1>0. Len(d) \in Nat
  OBVIOUS
<1>1. CASE At(d, 0) = NUL
  <2>1. r = [res |-> "incomplete"]
    BY <1>1 DEF Deserialize
  <2> QED BY <1>0, <1>1, <2>1, AtStart
<1>2. CASE At(d, 0) # NUL
  <2>0. r = AfterMethod(d, m)
    BY <1>2 DEF Deserialize
  <2>1. /\ m.res \in {"incomplete", "throws", "done"}
        /\ m.res = "throws" <=> Bad(d)
        /\ m.res = "done" => m.eof \in 2 .. Len(d)
        /\ m.res = "done" => m.eof = MinOf(LineEnds(d, 0)) + 2
        /\ m.res = "incomplete" <=> LineEnds(d, 0) = {}
    BY MethodAnswers
  <2> HIDE DEF m
  <2>2. CASE m.res # "done"
    <3>1. r = [res |-> m.res]
      BY <2>0, <2>2 DEF AfterMethod
    <3> HIDE DEF r
    <3>2. r.res = m.res
      BY <3>1
    <3> QED BY <2>1, <2>2, <3>2 DEF r
  <2>3. CASE m.res = "done"
    <3>0. r = AfterHeader(d, m, h)
      BY <2>0, <2>3 DEF AfterMethod
    <3>1. m.eof \in 2 .. Len(d) /\ ~ Bad(d)
      BY <2>1, <2>3
    <3>2. HeaderAnswer(d, m.eof, h)
      <4>1. CASE m.eof >= Len(d)
        <5>1. h = [res |-> "incomplete"]
          BY <4>1 DEF DeserializeHeader_
        <5> HIDE DEF h
        <5> QED BY <5>1 DEF HeaderAnswer
      <4>2. CASE ~ (m.eof >= Len(d))
        <5>1. h = HeaderFrom(d)[m.eof][FALSE]
          BY <4>2 DEF DeserializeHeader_
        <5>2. m.eof \in 0 .. Len(d) /\ FALSE \in BOOLEAN
          BY <1>0, <3>1
        <5> HIDE DEF h
        <5> QED BY <5>1, <5>2, HeaderAnswers
      <4> QED BY <4>1, <4>2
    <3>20. FoundAt(d, h)
      <4>1. CASE m.eof >= Len(d)
        <5>1. h = [res |-> "incomplete"]
          BY <4>1 DEF DeserializeHeader_
        <5> HIDE DEF h
        <5> QED BY <5>1 DEF FoundAt
      <4>2. CASE ~ (m.eof >= Len(d))
        <5>1. h = HeaderFrom(d)[MinOf(LineEnds(d, 0)) + 2][FALSE]
          BY <2>1, <2>3, <4>2 DEF DeserializeHeader_
        <5>2. LineEnds(d, 0) # {}
          BY <2>1, <2>3
        <5> HIDE DEF h
        <5> QED BY <5>1, <5>2, HeaderStands
      <4> QED BY <4>1, <4>2
    <3> HIDE DEF h
    <3>3. CASE h.res # "done"
      <4>1. r = [res |-> h.res]
        BY <3>0, <3>3 DEF AfterHeader
      <4>2. h.res \in {"incomplete", "hangs"}
        BY <3>2, <3>3 DEF HeaderAnswer
      <4> HIDE DEF r
      <4>3. r.res = h.res
        BY <4>1
      <4>4. r.res = "hangs" => Stuck(d)
        BY <3>20, <4>3 DEF FoundAt
      <4> QED BY <3>1, <4>2, <4>3, <4>4 DEF r
    <3>4. CASE h.res = "done"
      <4>1. r = AfterQuery(m, h, q)
        BY <3>0, <3>4 DEF AfterHeader
      <4>2. h.eof \in 4 .. Len(d) /\ HeaderEnd(d) = h.eof
        <5>1. h.eof \in m.eof + 2 .. Len(d)
          BY <3>2, <3>4 DEF HeaderAnswer
        <5>2. HeaderEnd(d) = h.eof
          BY <3>4, <3>20 DEF FoundAt
        <5> QED BY <1>0, <3>1, <5>1, <5>2
      <4>3. l \in Nat /\ l < Word
        BY LengthNat
      <4> HIDE DEF l
      <4>4. /\ q.res \in {"incomplete", "done"}
            /\ q.res = "incomplete" <=> m.method # GET /\ Wrapped(h.eof + l) > Len(d)
            /\ q.res = "done" => q.eof = Wrapped(h.eof + l)
        BY <4>2, <4>3, QueryAnswers
      <4> HIDE DEF q
      <4>5. CASE q.res # "done"
        <5>1. r = [res |-> q.res]
          BY <4>1, <4>5 DEF AfterQuery
        <5> HIDE DEF r
        <5>2. r.res = "incomplete"
          BY <4>4, <4>5, <5>1
        <5> QED BY <3>1, <5>2 DEF r
      <4>6. CASE q.res = "done"
        <5> DEFINE x == is_persistent_(h.headers)
        <5>1. r = [res |-> "done", eof |-> q.eof, method |-> m.method, uri |-> m.uri,
                   headers |-> h.headers, queries |-> q.queries, persistent |-> x]
          BY <4>1, <4>6 DEF AfterQuery
        <5> HIDE DEF r, x
        <5>2. r.res = "done" /\ r.eof = q.eof /\ r.method = m.method /\ r.headers = h.headers
          BY <5>1
        <5>3. r.eof = Wrapped(h.eof + l) /\ r.eof \in Nat
          <6>1. h.eof \in Nat
            BY <1>0, <4>2
          <6>2. Wrapped(h.eof + l) \in Nat
            BY <4>3, <6>1, WrappedFacts
          <6> QED BY <4>4, <4>6, <5>2, <6>2
        <5>4. r.eof > Len(d) => r.method = GET
          BY <4>4, <4>6, <5>2, <5>3
        <5>5. r.eof = Wrapped(HeaderEnd(d) + length_(r.headers)) /\ HeaderEnd(d) \in 4 .. Len(d)
          BY <4>2, <5>2, <5>3 DEF l
        <5> QED BY <3>1, <5>2, <5>3, <5>4, <5>5 DEF r
      <4> QED BY <4>5, <4>6
    <3> QED BY <3>3, <3>4
  <2> QED BY <2>2, <2>3
<1> QED BY <1>1, <1>2

-----------------------------------------------------------------------------
(* The loop over the buffer: what a round makes of the result x of the     *)
(* rounds that follow.                                                     *)
NextRound(b, p) == p + Deserialize(Run(b, p, Len(b))).eof
Take(b, p, x) ==
  LET r == Deserialize(Run(b, p, Len(b)))
  IN  IF r.res # "done" THEN [messages |-> << >>, rest |-> Run(b, p, Len(b)), res |-> r.res]
      ELSE IF r.eof = 0
      THEN [messages |-> <<r>>, rest |-> Run(b, p, Len(b)), res |-> "repeats"]
      ELSE IF p + r.eof > Len(b)
      THEN [messages |-> <<r>>, rest |-> Run(b, p, Len(b)), res |-> "erase_threw"]
      ELSE [messages |-> <<r>> \o x.messages, rest |-> x.rest, res |-> x.res]
GoesOn(b, p) ==
  LET r == Deserialize(Run(b, p, Len(b)))
  IN  r.res = "done" /\ r.eof # 0 /\ ~ (NextRound(b, p) > Len(b))
Takes(b, f) == f = [p \in 0 .. Len(b) |-> Take(b, p, f[NextRound(b, p)])]

(* A round that goes on has moved.                                         *)
LEMMA TakeMoves ==
  ASSUME NEW T, NEW b \in Seq(T), NEW p \in 0 .. Len(b),
         GoesOn(b, p)
  PROVE  NextRound(b, p) \in p + 1 .. Len(b)
<1> DEFINE d == Run(b, p, Len(b))
           e == Deserialize(d).eof
<1>1. Len(b) \in Nat /\ Len(b) \in p .. Len(b)
  OBVIOUS
<1>10. Run(b, p, Len(b)) \in Seq(T)
  BY <1>1, RunShape
<1>11. Deserialize(d).res = "done" /\ e # 0 /\ ~ (NextRound(b, p) > Len(b))
  BY DEF GoesOn
<1>2. e \in Nat /\ e > 0
  <2> HIDE DEF d
  <2>1. e \in Nat
    BY <1>10, <1>11, DeserializeAnswers DEF d
  <2> QED BY <1>11, <2>1
<1>3. NextRound(b, p) = p + e
  BY DEF NextRound
<1> HIDE DEF e
<1> QED BY <1>1, <1>11, <1>2, <1>3

(* It is defined from offset q on.                                         *)
TakesBack(b, q, f) == \A p \in q .. Len(b) : f[p] = Take(b, p, f[NextRound(b, p)])

LEMMA TakesOneMore ==
  ASSUME NEW T, NEW b \in Seq(T), NEW q \in 0 .. Len(b), NEW g, TakesBack(b, q + 1, g)
  PROVE  \E f : TakesBack(b, q, f)
<1> DEFINE L == Len(b)
           h == [p \in 0 .. L |-> IF p = q THEN Take(b, p, g[NextRound(b, p)]) ELSE g[p]]
<1>0. L \in Nat
  OBVIOUS
<1>1. ASSUME NEW p \in q .. L PROVE h[p] = Take(b, p, h[NextRound(b, p)])
  <2>0. p \in 0 .. L
    BY <1>0
  <2>1. h[p] = Take(b, p, g[NextRound(b, p)])
    <3>1. CASE p = q
      BY <2>0, <3>1
    <3>2. CASE p # q
      <4>1. p \in q + 1 .. L
        BY <1>0, <3>2
      <4>2. h[p] = g[p]
        BY <2>0, <3>2
      <4> HIDE DEF h
      <4> QED BY <4>1, <4>2 DEF TakesBack
    <3> QED BY <3>1, <3>2
  <2>2. CASE GoesOn(b, p)
    <3>1. NextRound(b, p) \in p + 1 .. L
      BY <2>0, <2>2, TakeMoves
    <3>2. NextRound(b, p) \in 0 .. L /\ NextRound(b, p) # q
      BY <1>0, <3>1
    <3>3. h[NextRound(b, p)] = g[NextRound(b, p)]
      BY <3>2
    <3> QED BY <2>1, <3>3
  <2>3. CASE ~ GoesOn(b, p)
    <3>1. \A x, y : Take(b, p, x) = Take(b, p, y)
      BY <2>3 DEF Take, NextRound, GoesOn
    <3> QED BY <2>1, <3>1
  <2> QED BY <2>2, <2>3
<1> HIDE DEF h
<1>2. TakesBack(b, q, h)
  BY <1>1 DEF TakesBack
<1> QED BY <1>2

LEMMA TakesExist ==
  ASSUME NEW T, NEW b \in Seq(T)
  PROVE  \E f : Takes(b, f)
<1> DEFINE L == Len(b)
           E(n) == \E g : TakesBack(b, L + 1 - n, g)
           S == {n \in Nat : n <= L + 1 => E(n)}
<1>0. L \in Nat
  OBVIOUS
<1>2. 0 \in S
  <2>1. \A p \in L + 1 - 0 .. L : FALSE
    BY <1>0
  <2>2. E(0)
    BY <2>1 DEF TakesBack
  <2> HIDE DEF E
  <2> QED BY <2>2
<1>3. ASSUME NEW n \in Nat, n \in S PROVE n + 1 \in S
  <2> HIDE DEF E
  <2> SUFFICES ASSUME n + 1 <= L + 1 PROVE E(n + 1)
    OBVIOUS
  <2>0. E(n)
    BY <1>0, <1>3
  <2> DEFINE q == L - n
  <2>1. q \in 0 .. L /\ L + 1 - n = q + 1 /\ L + 1 - (n + 1) = q
    BY <1>0
  <2> HIDE DEF q
  <2>2. PICK g : TakesBack(b, q + 1, g)
    BY <2>0, <2>1 DEF E
  <2>3. \E f : TakesBack(b, q, f)
    BY <2>1, <2>2, TakesOneMore
  <2> QED BY <2>1, <2>3 DEF E
<1> HIDE DEF S
<1>4. L + 1 \in S
  BY <1>0, <1>2, <1>3, Induct
<1>5. E(L + 1)
  <2> HIDE DEF E
  <2> QED BY <1>0, <1>4 DEF S
<1>6. PICK g : TakesBack(b, 0, g)
  <2>1. L + 1 - (L + 1) = 0
    BY <1>0
  <2> QED BY <1>5, <2>1
<1> DEFINE f == [p \in 0 .. L |-> g[p]]
<1>7. ASSUME NEW p \in 0 .. L PROVE g[p] = Take(b, p, f[NextRound(b, p)])
  <2>1. g[p] = Take(b, p, g[NextRound(b, p)])
    BY <1>6 DEF TakesBack
  <2>2. CASE GoesOn(b, p)
    <3>1. NextRound(b, p) \in p + 1 .. L
      BY <2>2, TakeMoves
    <3>2. NextRound(b, p) \in 0 .. L
      BY <1>0, <3>1
    <3>3. f[NextRound(b, p)] = g[NextRound(b, p)]
      BY <3>2
    <3> QED BY <2>1, <3>3
  <2>3. CASE ~ GoesOn(b, p)
    <3>1. \A x, y : Take(b, p, x) = Take(b, p, y)
      BY <2>3 DEF Take, NextRound, GoesOn
    <3> QED BY <2>1, <3>1
  <2> QED BY <2>2, <2>3
<1>8. f = [p \in 0 .. L |-> Take(b, p, f[NextRound(b, p)])]
  <2> DEFINE k == [p \in 0 .. L |-> Take(b, p, f[NextRound(b, p)])]
  <2>1. f = k
    BY <1>7
  <2> QED BY <2>1
<1> HIDE DEF f
<1>9. Takes(b, f)
  BY <1>8 DEF Takes
<1> QED BY <1>9

LEMMA TakenTakes ==
  ASSUME NEW T, NEW b \in Seq(T), NEW p \in 0 .. Len(b)
  PROVE  TakenFrom(b)[p] = Take(b, p, TakenFrom(b)[NextRound(b, p)])
<1>1. TakenFrom(b) = CHOOSE f : Takes(b, f)
  BY DEF TakenFrom, Takes, Take, NextRound
<1>2. Takes(b, TakenFrom(b))
  BY <1>1, TakesExist
<1> QED BY <1>2 DEF Takes

(* What the loop may make of a buffer: bad data stays in front, and so     *)
(* does the text at which the worker is lost.                              *)
Parsed(T) == {Deserialize(d) : d \in Seq(T)}
Results == {"incomplete", "throws", "hangs", "repeats", "erase_threw"}
LostTo(res, rest, last) ==
  LET end == HeaderEnd(rest) + length_(last.headers)
  IN  /\ res = "hangs" => Stuck(rest)
      /\ res = "repeats" => end = Word
      /\ res = "erase_threw" => last.method = GET /\ end \in Len(rest) + 1 .. Word - 1
TakenOk(T, t) ==
  /\ t.messages \in Seq(Parsed(T)) /\ t.rest \in Seq(T) /\ t.res \in Results
  /\ t.res = "throws" => Bad(t.rest)
  /\ t.res \in {"repeats", "erase_threw"} => t.messages # << >>
  /\ LostTo(t.res, t.rest, t.messages[Len(t.messages)])

LEMMA PrependFacts ==
  ASSUME NEW M, NEW r \in M, NEW s \in Seq(M)
  PROVE  /\ <<r>> \o s \in Seq(M) /\ Len(<<r>> \o s) = Len(s) + 1
         /\ (<<r>> \o s)[1] = r /\ \A i \in 1 .. Len(s) : (<<r>> \o s)[i + 1] = s[i]
         /\ s # << >> => (<<r>> \o s)[Len(<<r>> \o s)] = s[Len(s)]
<1>1. <<r>> \in Seq(M) /\ Len(<<r>>) = 1 /\ <<r>>[1] = r /\ Len(s) \in Nat
  OBVIOUS
<1>2. <<r>> \o s \in Seq(M) /\ Len(<<r>> \o s) = Len(s) + 1
  BY <1>1
<1>3. \A i \in 1 .. Len(s) + 1 : (<<r>> \o s)[i] = IF i <= 1 THEN <<r>>[i] ELSE s[i - 1]
  BY <1>1
<1>4. (<<r>> \o s)[1] = r
  BY <1>1, <1>3
<1>5. ASSUME NEW i \in 1 .. Len(s) PROVE (<<r>> \o s)[i + 1] = s[i]
  <2>1. i + 1 \in 1 .. Len(s) + 1 /\ ~ (i + 1 <= 1) /\ i + 1 - 1 = i
    BY <1>1
  <2> QED BY <1>3, <2>1
<1>6. s # << >> => Len(s) \in 1 .. Len(s)
  BY <1>1
<1> QED BY <1>2, <1>4, <1>5, <1>6

LEMMA TakenRound ==
  ASSUME NEW T, NEW b \in Seq(T), NEW p \in 0 .. Len(b), NEW x,
         NextRound(b, p) \in p + 1 .. Len(b) => TakenOk(T, x)
  PROVE  TakenOk(T, Take(b, p, x))
<1> DEFINE d == Run(b, p, Len(b))
           r == Deserialize(d)
           t == Take(b, p, x)
<1>0. Len(b) \in Nat /\ Len(b) \in p .. Len(b)
  OBVIOUS
<1>1. d \in Seq(T) /\ Len(d) = Len(b) - p
  BY <1>0, RunShape
<1> HIDE DEF d
<1>2. /\ r.res \in {"incomplete", "throws", "hangs", "done"}
      /\ r.res = "throws" <=> Bad(d)
      /\ r.res = "hangs" => Stuck(d)
      /\ r.res = "done" =>
           /\ r.eof \in Nat /\ HeaderEnd(d) \in 4 .. Len(d)
           /\ r.eof = Wrapped(HeaderEnd(d) + length_(r.headers))
           /\ r.eof > Len(d) => r.method = GET
  BY <1>1, DeserializeAnswers
<1>3. r \in Parsed(T)
  BY <1>1 DEF Parsed
<1>4. NextRound(b, p) = p + r.eof
  BY DEF NextRound, d
<1>5. t = IF r.res # "done" THEN [messages |-> << >>, rest |-> d, res |-> r.res]
          ELSE IF r.eof = 0 THEN [messages |-> <<r>>, rest |-> d, res |-> "repeats"]
          ELSE IF NextRound(b, p) > Len(b) THEN [messages |-> <<r>>, rest |-> d, res |-> "erase_threw"]
          ELSE [messages |-> <<r>> \o x.messages, rest |-> x.rest, res |-> x.res]
  BY <1>4 DEF Take, d
<1> HIDE DEF r
<1>6. CASE r.res # "done"
  <2>1. t = [messages |-> << >>, rest |-> d, res |-> r.res]
    BY <1>5, <1>6
  <2> HIDE DEF t
  <2>2. t.messages = << >> /\ t.rest = d /\ t.res = r.res
    BY <2>1
  <2>3. << >> \in Seq(Parsed(T))
    OBVIOUS
  <2>4. LostTo(t.res, t.rest, t.messages[Len(t.messages)])
    BY <1>2, <1>6, <2>2 DEF LostTo
  <2> QED BY <1>1, <1>2, <1>6, <2>2, <2>3, <2>4 DEF TakenOk, Results, t
<1>60. CASE r.res = "done" /\ r.eof = 0
  <2>1. t = [messages |-> <<r>>, rest |-> d, res |-> "repeats"]
    BY <1>5, <1>60
  <2> HIDE DEF t
  <2>2. t.messages = <<r>> /\ t.rest = d /\ t.res = "repeats"
    BY <2>1
  <2>3. <<r>> \in Seq(Parsed(T)) /\ <<r>> # << >> /\ <<r>>[Len(<<r>>)] = r
    BY <1>3
  <2>4. HeaderEnd(d) + length_(r.headers) = Word
    <3>1. HeaderEnd(d) \in Nat /\ HeaderEnd(d) > 0
      BY <1>0, <1>1, <1>2, <1>60
    <3> QED BY <1>2, <1>60, <3>1, LengthNat, WrappedFacts
  <2>5. LostTo(t.res, t.rest, r)
    BY <2>2, <2>4 DEF LostTo
  <2> QED BY <1>1, <2>2, <2>3, <2>5 DEF TakenOk, Results, t
<1>7. CASE r.res = "done" /\ r.eof # 0 /\ NextRound(b, p) > Len(b)
  <2>1. t = [messages |-> <<r>>, rest |-> d, res |-> "erase_threw"]
    BY <1>5, <1>7
  <2> HIDE DEF t
  <2>2. t.messages = <<r>> /\ t.rest = d /\ t.res = "erase_threw"
    BY <2>1
  <2>3. <<r>> \in Seq(Parsed(T)) /\ <<r>> # << >> /\ <<r>>[Len(<<r>>)] = r
    BY <1>3
  <2>4. r.method = GET /\ HeaderEnd(d) + length_(r.headers) \in Len(d) + 1 .. Word - 1
    <3>1. r.eof > Len(d)
      BY <1>0, <1>1, <1>2, <1>4, <1>7
    <3>2. HeaderEnd(d) \in Nat /\ r.eof >= HeaderEnd(d) /\ Len(d) \in Nat
      BY <1>0, <1>1, <1>2, <1>7, <3>1
    <3>3. HeaderEnd(d) + length_(r.headers) = r.eof /\ r.eof < Word
      <4> DEFINE l == length_(r.headers)
                 e == HeaderEnd(d)
      <4>1. l \in Nat /\ l < Word
        BY LengthNat
      <4>2. e \in Nat /\ r.eof >= e /\ r.eof = Wrapped(e + l)
        BY <1>2, <1>7, <3>2
      <4> HIDE DEF l, e
      <4>3. Wrapped(e + l) = e + l /\ e + l < Word
        BY <4>1, <4>2, WrappedFacts
      <4> QED BY <4>2, <4>3 DEF l, e
    <3>4. Word \in Nat /\ r.eof \in Nat
      BY <1>2, <1>7, WordAssumption
    <3>5. r.eof \in Len(d) + 1 .. Word - 1
      BY <3>1, <3>2, <3>3, <3>4
    <3> QED BY <1>2, <1>7, <3>1, <3>3, <3>5
  <2>5. LostTo(t.res, t.rest, r)
    BY <2>2, <2>4 DEF LostTo
  <2> QED BY <1>1, <2>2, <2>3, <2>5 DEF TakenOk, Results, t
<1>8. CASE r.res = "done" /\ r.eof # 0 /\ ~ (NextRound(b, p) > Len(b))
  <2>1. t = [messages |-> <<r>> \o x.messages, rest |-> x.rest, res |-> x.res]
    BY <1>5, <1>8
  <2>2. TakenOk(T, x)
    <3>1. NextRound(b, p) \in p + 1 .. Len(b)
      BY <1>0, <1>2, <1>4, <1>8
    <3> QED BY <3>1
  <2> DEFINE s == x.messages
             u == <<r>> \o s
  <2>3. s \in Seq(Parsed(T))
    BY <2>2 DEF TakenOk
  <2> HIDE DEF s
  <2>4. u \in Seq(Parsed(T)) /\ Len(u) = Len(s) + 1 /\ (s # << >> => u[Len(u)] = s[Len(s)])
    BY <1>3, <2>3, PrependFacts
  <2>5. u # << >>
    BY <2>3, <2>4
  <2> HIDE DEF t, u
  <2>6. t.messages = u /\ t.rest = x.rest /\ t.res = x.res
    BY <2>1 DEF u, s
  <2>7. t.messages # << >> => LostTo(t.res, t.rest, t.messages[Len(t.messages)])
    <3>1. CASE s # << >>
      BY <2>2, <2>4, <2>6, <3>1 DEF TakenOk, s
    <3>2. CASE s = << >>
      BY <2>2, <2>6, <3>2 DEF TakenOk, LostTo, s
    <3> QED BY <3>1, <3>2
  <2> QED BY <2>2, <2>4, <2>5, <2>6, <2>7 DEF TakenOk, t, s
<1> QED BY <1>6, <1>60, <1>7, <1>8

LEMMA TakenAlways ==
  ASSUME NEW T, NEW b \in Seq(T), NEW q \in 0 .. Len(b)
  PROVE  TakenOk(T, TakenFrom(b)[q])
<1> DEFINE L == Len(b)
           E(n) == \A p \in 0 .. L : p >= L - n => TakenOk(T, TakenFrom(b)[p])
           S == {n \in Nat : E(n)}
<1>0. L \in Nat
  OBVIOUS
<1>1. ASSUME NEW p \in 0 .. L, \A z \in p + 1 .. L : TakenOk(T, TakenFrom(b)[z])
      PROVE  TakenOk(T, TakenFrom(b)[p])
  <2> DEFINE x == TakenFrom(b)[NextRound(b, p)]
  <2>1. NextRound(b, p) \in p + 1 .. L => TakenOk(T, x)
    BY <1>1
  <2> HIDE DEF x
  <2>2. TakenOk(T, Take(b, p, x))
    BY <2>1, TakenRound
  <2> QED BY <2>2, TakenTakes DEF x
<1>2. 0 \in S
  <2>1. ASSUME NEW p \in 0 .. L, p >= L - 0 PROVE TakenOk(T, TakenFrom(b)[p])
    <3>1. \A z \in p + 1 .. L : FALSE
      BY <1>0, <2>1
    <3> QED BY <1>1, <3>1
  <2> HIDE DEF L
  <2> QED BY <2>1
<1>3. ASSUME NEW n \in Nat, n \in S PROVE n + 1 \in S
  <2>1. ASSUME NEW p \in 0 .. L, p >= L - (n + 1) PROVE TakenOk(T, TakenFrom(b)[p])
    <3>1. \A z \in p + 1 .. L : z \in 0 .. L /\ z >= L - n
      BY <1>0, <2>1
    <3>2. E(n)
      BY <1>3
    <3>3. \A z \in p + 1 .. L : TakenOk(T, TakenFrom(b)[z])
      BY <3>1, <3>2
    <3> QED BY <1>1, <3>3
  <2> HIDE DEF L
  <2> QED BY <2>1
<1> HIDE DEF E, S
<1>4. L \in S
  BY <1>0, <1>2, <1>3, Induct
<1>5. E(L)
  BY <1>4 DEF S
<1>6. q >= L - L
  BY <1>0
<1> QED BY <1>5, <1>6 DEF E

-----------------------------------------------------------------------------
(* Data that begins with a text, or with a part of it.                     *)
Agree(d, t) == \A i \in 0 .. Len(t) - 1 : i < Len(d) => At(d, i) = At(t, i)

LEMMA AgreeTokens ==
  ASSUME NEW T, NEW t \in Seq(T), \A i \in 1 .. Len(t) : t[i] # NUL,
         NEW d, Len(d) \in Nat, Agree(d, t), NEW i \in 0 .. Len(t) - 1, i < Len(d)
  PROVE  At(d, i) = At(t, i) /\ At(d, i) # NUL
<1>1. Len(t) \in Nat
  OBVIOUS
<1>2. i + 1 \in 1 .. Len(t) /\ i < Len(t)
  BY <1>1
<1>3. At(t, i) # NUL
  BY <1>2 DEF At
<1> QED BY <1>3 DEF Agree

(* The first line: it is there or it is not.                               *)
LEMMA FirstLineFound ==
  ASSUME NEW T, NEW d \in Seq(T), NEW t \in Seq(T), NEW e \in 1 .. Len(t), FirstLine(t, e), Agree(d, t)
  PROVE  /\ e \in 2 .. Len(t)
         /\ Len(d) < e => LineEnds(d, 0) = {}
         /\ Len(d) >= e => LineEnds(d, 0) # {} /\ MinOf(LineEnds(d, 0)) = e - 2
<1>0. Len(d) \in Nat /\ Len(t) \in Nat /\ 0 \in Nat
  OBVIOUS
<1>1. e - 2 \in 0 .. Len(t) - 2 /\ IsCrLf(t, e - 2)
  BY <1>0, LineEndFacts DEF FirstLine
<1>2. /\ \A q \in 0 .. e - 3 : At(t, q) # "CR"
      /\ \A i \in 1 .. Len(t) : t[i] # NUL
  BY DEF FirstLine
<1>3. \A i \in 0 .. Len(t) - 1 : i < Len(d) => At(d, i) = At(t, i) /\ At(d, i) # NUL
  BY <1>0, <1>2, AgreeTokens
<1>4. ASSUME NEW q \in LineEnds(d, 0) PROVE q \in 0 .. Len(d) - 2 /\ q >= e - 2
  <2>1. q \in 0 .. Len(d) - 2 /\ IsCrLf(d, q)
    BY <1>0, LineEndFacts
  <2>2. ASSUME ~ (q >= e - 2) PROVE FALSE
    <3>1. q \in 0 .. e - 3 /\ q \in 0 .. Len(t) - 1 /\ q < Len(d)
      BY <1>0, <1>1, <2>1, <2>2
    <3>2. At(t, q) = "CR"
      BY <1>3, <2>1, <3>1 DEF IsCrLf
    <3> QED BY <1>2, <3>1, <3>2
  <2> QED BY <2>1, <2>2
<1>5. e \in 2 .. Len(t)
  BY <1>0, <1>1
<1>6. ASSUME Len(d) < e PROVE LineEnds(d, 0) = {}
  <2> SUFFICES ASSUME NEW q \in LineEnds(d, 0) PROVE FALSE
    OBVIOUS
  <2>1. q \in 0 .. Len(d) - 2 /\ q >= e - 2
    BY <1>4
  <2> QED BY <1>0, <1>5, <1>6, <2>1
<1>7. ASSUME Len(d) >= e PROVE LineEnds(d, 0) # {} /\ MinOf(LineEnds(d, 0)) = e - 2
  <2>1. \A i \in 0 .. e - 1 : At(d, i) = At(t, i) /\ At(d, i) # NUL
    <3>1. \A i \in 0 .. e - 1 : i \in 0 .. Len(t) - 1 /\ i < Len(d)
      BY <1>0, <1>5, <1>7
    <3> QED BY <1>3, <3>1
  <2>2. e - 2 \in BeforeNul(d, 0)
    <3>1. e - 2 \in 0 .. Len(d) - 1 /\ \A i \in 0 .. e - 2 : i \in 0 .. e - 1
      BY <1>0, <1>5, <1>7
    <3> QED BY <2>1, <3>1 DEF BeforeNul
  <2>3. IsCrLf(d, e - 2)
    <3>1. e - 2 \in 0 .. e - 1 /\ (e - 2) + 1 \in 0 .. e - 1
      BY <1>0, <1>5
    <3> QED BY <1>1, <2>1, <3>1 DEF IsCrLf
  <2>4. e - 2 \in LineEnds(d, 0)
    BY <2>2, <2>3 DEF LineEnds
  <2>5. LineEnds(d, 0) \subseteq Nat /\ \A y \in LineEnds(d, 0) : e - 2 <= y
    BY <1>0, <1>4, <1>5, LineEndFacts
  <2>6. MinOf(LineEnds(d, 0)) = e - 2
    BY <2>4, <2>5, MinOfIs
  <2> QED BY <2>4, <2>6
<1> QED BY <1>5, <1>6, <1>7

(* The URI of a line that has arrived is that of the text.                 *)
LEMMA UriSame ==
  ASSUME NEW T, NEW d \in Seq(T), NEW t \in Seq(T), NEW e \in 1 .. Len(t), FirstLine(t, e), Agree(d, t),
         Len(d) >= e, At(t, 0) \in {GET, POST}, \E q \in 1 .. e - 3 : At(t, q) = Version
  PROVE  Protocols(d, 1) # {} /\ Protocols(t, 1) # {} /\ Run(d, 1, MinOf(Protocols(d, 1))) = Run(t, 1, MinOf(Protocols(t, 1)))
<1>0. Len(d) \in Nat /\ Len(t) \in Nat /\ 0 \in Nat
  OBVIOUS
<1>1. e \in 2 .. Len(t)
  BY FirstLineFound
<1>2. \A i \in 1 .. Len(t) : t[i] # NUL
  BY DEF FirstLine
<1>3. \A i \in 0 .. e - 1 : At(d, i) = At(t, i) /\ At(t, i) # NUL /\ At(d, i) # NUL
  <2>1. \A i \in 0 .. e - 1 : i \in 0 .. Len(t) - 1 /\ i < Len(d)
    BY <1>0, <1>1
  <2> QED BY <1>0, <1>2, <2>1, AgreeTokens
<1>4. PICK q0 \in 1 .. e - 3 : At(t, q0) = Version
  OBVIOUS
<1> DEFINE S == {q \in 1 .. e - 3 : At(t, q) = Version}
<1>5. PICK q \in S : \A y \in S : q <= y
  <2>1. S \subseteq Nat /\ S # {}
    BY <1>4
  <2> HIDE DEF S
  <2> QED BY <2>1, Least
<1>6. q \in 1 .. e - 3 /\ At(t, q) = Version /\ At(d, q) = Version
  BY <1>1, <1>3
<1>7. ASSUME NEW s \in {d, t}
      PROVE  Protocols(s, 1) # {} /\ MinOf(Protocols(s, 1)) = q
  <2>0. s \in Seq(T) /\ Len(s) \in Nat /\ Len(s) >= e /\ \A i \in 0 .. e - 1 : At(s, i) = At(t, i) /\ At(s, i) # NUL
    BY <1>0, <1>1, <1>3
  <2>1. q \in Protocols(s, 1)
    <3>1. q \in 1 .. Len(s) - 1 /\ \A i \in 1 .. q : i \in 0 .. e - 1
      BY <1>1, <1>6, <2>0
    <3>2. q \in 0 .. e - 1
      BY <1>1, <1>6
    <3> QED BY <1>6, <2>0, <3>1, <3>2 DEF Protocols, BeforeNul
  <2>2. ASSUME NEW y \in Protocols(s, 1) PROVE y \in Nat /\ q <= y
    <3>1. y \in 1 .. Len(s) - 1 /\ At(s, y) = Version
      BY DEF Protocols, BeforeNul
    <3>2. CASE y \in 1 .. e - 3
      <4>1. y \in 0 .. e - 1
        BY <1>1, <3>2
      <4>2. y \in S
        BY <2>0, <3>1, <3>2, <4>1
      <4> QED BY <1>5, <3>1, <4>2
    <3>3. CASE y \notin 1 .. e - 3
      BY <1>1, <1>6, <2>0, <3>1, <3>3
    <3> QED BY <3>2, <3>3
  <2>3. Protocols(s, 1) \subseteq Nat
    BY <2>2
  <2>4. MinOf(Protocols(s, 1)) = q
    BY <2>1, <2>2, <2>3, MinOfIs
  <2> QED BY <2>1, <2>4
<1>8. Run(d, 1, q) = Run(t, 1, q)
  <2>1. 1 \in 0 .. Len(d) /\ 1 \in 0 .. Len(t) /\ q \in 1 .. Len(d) /\ q \in 1 .. Len(t) /\ q - 1 \in Nat
    BY <1>0, <1>1, <1>6
  <2> DEFINE x == Run(d, 1, q)
             y == Run(t, 1, q)
  <2>2. x \in Seq(T) /\ Len(x) = q - 1 /\ \A i \in 1 .. q - 1 : x[i] = d[1 + i]
    BY <2>1, RunShape
  <2>3. y \in Seq(T) /\ Len(y) = q - 1 /\ \A i \in 1 .. q - 1 : y[i] = t[1 + i]
    BY <2>1, RunShape
  <2> HIDE DEF x, y
  <2>4. ASSUME NEW i \in 1 .. q - 1 PROVE d[1 + i] = t[1 + i]
    <3>1. i \in 0 .. e - 1 /\ i < Len(d) /\ i < Len(t) /\ i + 1 = 1 + i
      BY <1>0, <1>1, <1>6
    <3>2. At(d, i) = d[1 + i] /\ At(t, i) = t[1 + i]
      BY <3>1 DEF At
    <3> QED BY <1>3, <3>1, <3>2
  <2>41. \A i \in 1 .. q - 1 : x[i] = y[i]
    BY <2>2, <2>3, <2>4
  <2>5. x = y
    BY <2>2, <2>3, <2>41
  <2> QED BY <2>5 DEF x, y
<1>9. Protocols(d, 1) # {} /\ MinOf(Protocols(d, 1)) = q /\ Protocols(t, 1) # {} /\ MinOf(Protocols(t, 1)) = q
  BY <1>7
<1> QED BY <1>8, <1>9

(* The first line of a text that the parser accepts.                       *)
LEMMA MethodFound ==
  ASSUME NEW T, NEW d \in Seq(T), NEW t \in Seq(T), NEW e \in 1 .. Len(t),
         FirstLine(t, e), Accepted(t, e), Agree(d, t)
  PROVE  LET m == DeserializeMethod_(d)
         IN  /\ Len(d) < e => m.res = "incomplete"
             /\ Len(d) >= e => /\ m.res = "done" /\ m.method = At(t, 0) /\ m.uri = Uri(t)
                               /\ m.eof = e /\ At(d, 0) = At(t, 0)
<1> DEFINE m == DeserializeMethod_(d)
<1>0. Len(d) \in Nat /\ Len(t) \in Nat
  OBVIOUS
<1>1. /\ m.res \in {"incomplete", "throws", "done"}
      /\ m.res = "incomplete" <=> LineEnds(d, 0) = {}
      /\ m.res = "throws" <=> Bad(d)
      /\ m.res = "done" => /\ m.method = At(d, 0) /\ m.uri = Uri(d)
                           /\ m.eof = MinOf(LineEnds(d, 0)) + 2
  BY MethodAnswers
<1> HIDE DEF m
<1>2. /\ e \in 2 .. Len(t)
      /\ Len(d) < e => LineEnds(d, 0) = {}
      /\ Len(d) >= e => LineEnds(d, 0) # {} /\ MinOf(LineEnds(d, 0)) = e - 2
  BY FirstLineFound
<1>3. ASSUME Len(d) >= e
      PROVE  /\ m.res = "done" /\ m.method = At(t, 0) /\ m.uri = Uri(t)
             /\ m.eof = e /\ At(d, 0) = At(t, 0)
  <2>1. At(d, 0) = At(t, 0) /\ At(d, 1) = At(t, 1)
    <3>1. 0 \in 0 .. Len(t) - 1 /\ 1 \in 0 .. Len(t) - 1 /\ 0 < Len(d) /\ 1 < Len(d)
      BY <1>0, <1>2, <1>3
    <3> QED BY <3>1 DEF Agree
  <2>2. ~ Bad(d) /\ Uri(d) = Uri(t)
    <3>1. CASE At(t, 0) \in {GET, POST} /\ \E q \in 1 .. e - 3 : At(t, q) = Version
      <4>1. /\ Protocols(d, 1) # {}
            /\ Run(d, 1, MinOf(Protocols(d, 1))) = Run(t, 1, MinOf(Protocols(t, 1)))
        BY <1>3, <3>1, UriSame
      <4> QED BY <2>1, <3>1, <4>1, TokensDiffer DEF Bad, Uri
    <3>2. CASE At(t, 0) = RESPONSE /\ At(t, 1) = "200"
      BY <2>1, <3>2, TokensDiffer DEF Bad, Uri
    <3> QED BY <3>1, <3>2 DEF Accepted
  <2>3. m.res = "done"
    BY <1>1, <1>2, <1>3, <2>2
  <2>4. m.eof = e
    BY <1>1, <1>2, <1>3, <2>3
  <2> QED BY <1>1, <2>1, <2>2, <2>3, <2>4
<1> QED BY <1>1, <1>2, <1>3 DEF m

-----------------------------------------------------------------------------
(* One header line of a text.                                              *)
LineText(t, p) ==
  /\ p + 5 <= Len(t) /\ At(t, p) \notin {"CR", Colon} /\ At(t, p + 1) = Colon
  /\ At(t, p + 2) # "CR" /\ IsCrLf(t, p + 3)

(* Where the parts of a line are, given where the key and the value end.   *)
LEMMA LineIs ==
  ASSUME NEW d, NEW p, NEW k, NEW s, NEW v, NEW n, KeyEnd(d, p) = k, ValueStart(d, k) = s,
         ValueEnd(d, s) = v, n = IF IsCrLf(d, v) THEN v + 2 ELSE v
  PROVE  LineAt(d, p) = [key |-> Run(d, p, k), value |-> Run(d, s, v), start |-> s,
                         ended |-> IsCrLf(d, v), next |-> n]
BY DEF LineAt, HeaderLine

LEMMA RunOfOne ==
  ASSUME NEW T, NEW d \in Seq(T), NEW p \in Nat, p < Len(d)
  PROVE  Run(d, p, p + 1) = <<At(d, p)>>
<1> DEFINE q == p + 1
           r == Run(d, p, q)
<1>1. p \in 0 .. Len(d) /\ q \in p .. Len(d) /\ q - p = 1
  OBVIOUS
<1> HIDE DEF q
<1>2. r \in Seq(T) /\ Len(r) = q - p /\ \A i \in 1 .. q - p : r[i] = d[p + i]
  BY <1>1, RunShape
<1> HIDE DEF r
<1>3. r \in Seq(T) /\ Len(r) = 1 /\ r[1] = d[p + 1]
  BY <1>1, <1>2
<1>4. r = <<d[p + 1]>>
  BY <1>3
<1> QED BY <1>4 DEF At, r, q

(* The key and where the value starts, as soon as they have arrived.       *)
LEMMA KeyFound ==
  ASSUME NEW T, NEW d \in Seq(T), NEW t \in Seq(T), \A i \in 1 .. Len(t) : t[i] # NUL, Agree(d, t),
         NEW p \in Nat, LineText(t, p), Len(d) >= p + 2
  PROVE  /\ KeyEnd(d, p) = p + 1 /\ ValueStart(d, p + 1) = p + 2
         /\ Run(d, p, p + 1) = <<At(t, p)>> /\ At(d, p) # NUL /\ At(d, p) # "CR"
<1>0. Len(d) \in Nat /\ Len(t) \in Nat /\ p + 5 <= Len(t)
  BY DEF LineText
<1>1. \A i \in 0 .. Len(t) - 1 : i < Len(d) => At(d, i) = At(t, i) /\ At(d, i) # NUL
  BY <1>0, AgreeTokens
<1>2. /\ At(d, p) = At(t, p) /\ At(d, p) # NUL
      /\ At(d, p + 1) = At(t, p + 1) /\ At(d, p + 1) # NUL
  <2>1. p \in 0 .. Len(t) - 1 /\ p + 1 \in 0 .. Len(t) - 1 /\ p < Len(d) /\ p + 1 < Len(d)
    BY <1>0
  <2> QED BY <1>1, <2>1
<1>3. At(d, p) \notin {"CR", Colon} /\ At(d, p + 1) = Colon
  BY <1>2 DEF LineText
<1>4. FirstAt(d, p, {"CR", Colon}) = p + 1
  <2>1. p \in 0 .. Len(d) /\ p + 1 \in p .. Len(d)
    BY <1>0
  <2>2. \A i \in p .. (p + 1) - 1 : i = p
    BY <1>0
  <2>3. \A i \in p .. (p + 1) - 1 : At(d, i) \notin {"CR", Colon} \cup {NUL}
    BY <1>2, <1>3, <2>2
  <2>4. At(d, p + 1) \in {"CR", Colon} \cup {NUL}
    BY <1>3
  <2> QED BY <1>0, <2>1, <2>3, <2>4, FirstAtIs
<1>5. Run(d, p, p + 1) = <<At(t, p)>>
  <2>1. p < Len(d)
    BY <1>0
  <2> QED BY <1>2, <2>1, RunOfOne
<1> QED BY <1>0, <1>2, <1>3, <1>4, <1>5 DEF KeyEnd, ValueStart

(* A line that has arrived: its key, its value and what follows.           *)
LEMMA LineFound ==
  ASSUME NEW T, NEW d \in Seq(T), NEW t \in Seq(T), \A i \in 1 .. Len(t) : t[i] # NUL, Agree(d, t),
         NEW p \in Nat, LineText(t, p), Len(d) >= p + 5
  PROVE  LineAt(d, p) = [key |-> <<At(t, p)>>, value |-> <<At(t, p + 2)>>, start |-> p + 2,
                         ended |-> TRUE, next |-> p + 5]
<1>0. Len(d) \in Nat /\ Len(t) \in Nat /\ p + 5 <= Len(t) /\ p + 2 \in Nat /\ Len(d) >= p + 2
  BY DEF LineText
<1>1. /\ KeyEnd(d, p) = p + 1 /\ ValueStart(d, p + 1) = p + 2
      /\ Run(d, p, p + 1) = <<At(t, p)>>
  BY <1>0, KeyFound
<1>2. \A i \in 0 .. Len(t) - 1 : i < Len(d) => At(d, i) = At(t, i) /\ At(d, i) # NUL
  BY <1>0, AgreeTokens
<1>3. /\ At(d, p + 2) = At(t, p + 2) /\ At(d, p + 2) # NUL /\ At(d, p + 3) = At(t, p + 3)
      /\ At(d, p + 3) # NUL /\ At(d, p + 3 + 1) = At(t, p + 3 + 1)
  <2>1. /\ p + 2 \in 0 .. Len(t) - 1 /\ p + 3 \in 0 .. Len(t) - 1 /\ p + 3 + 1 \in 0 .. Len(t) - 1
        /\ p + 2 < Len(d) /\ p + 3 < Len(d) /\ p + 3 + 1 < Len(d)
    BY <1>0
  <2> QED BY <1>2, <2>1
<1>4. At(d, p + 2) # "CR" /\ IsCrLf(d, p + 3)
  BY <1>3 DEF LineText, IsCrLf
<1>5. p + 3 \in LineEnds(d, p + 2)
  <2>1. p + 3 \in p + 2 .. Len(d) - 1
    BY <1>0
  <2>2. \A i \in p + 2 .. p + 3 : i = p + 2 \/ i = p + 3
    BY <1>0
  <2> QED BY <1>3, <1>4, <2>1, <2>2 DEF LineEnds, BeforeNul
<1>6. ASSUME NEW y \in LineEnds(d, p + 2) PROVE p + 3 <= y
  <2>1. y \in p + 2 .. Len(d) - 2 /\ IsCrLf(d, y)
    BY <1>0, LineEndFacts
  <2>2. y # p + 2
    BY <1>4, <2>1 DEF IsCrLf
  <2> QED BY <1>0, <2>1, <2>2
<1>7. ValueEnd(d, p + 2) = p + 3
  <2>1. LineEnds(d, p + 2) \subseteq Nat
    BY <1>0, LineEndFacts
  <2>2. MinOf(LineEnds(d, p + 2)) = p + 3
    BY <1>5, <1>6, <2>1, MinOfIs
  <2> QED BY <1>5, <2>2 DEF ValueEnd
<1>8. Run(d, p + 2, p + 3) = <<At(t, p + 2)>>
  <2>1. p + 2 < Len(d) /\ p + 2 + 1 = p + 3
    BY <1>0
  <2>2. Run(d, p + 2, p + 2 + 1) = <<At(d, p + 2)>>
    BY <1>0, <2>1, RunOfOne
  <2> QED BY <1>3, <2>1, <2>2
<1>9. p + 5 = IF IsCrLf(d, p + 3) THEN (p + 3) + 2 ELSE p + 3
  BY <1>4
<1>10. LineAt(d, p) = [key |-> Run(d, p, p + 1), value |-> Run(d, p + 2, p + 3), start |-> p + 2,
                       ended |-> IsCrLf(d, p + 3), next |-> p + 5]
  BY <1>1, <1>7, <1>9, LineIs
<1>11. IsCrLf(d, p + 3) = TRUE
  BY <1>4 DEF IsCrLf
<1> QED BY <1>1, <1>8, <1>10, <1>11

(* A line of which a part has arrived: the loop ends at the end.           *)
LEMMA LineCut ==
  ASSUME NEW T, NEW d \in Seq(T), NEW t \in Seq(T), \A i \in 1 .. Len(t) : t[i] # NUL, Agree(d, t),
         NEW p \in Nat, LineText(t, p), p <= Len(d), Len(d) < p + 5, NEW a \in BOOLEAN
  PROVE  HeaderFrom(d)[p][a].res = "incomplete"
<1>0. Len(d) \in Nat /\ Len(t) \in Nat /\ p + 5 <= Len(t) /\ p + 2 \in Nat /\ p \in 0 .. Len(d)
  BY DEF LineText
<1> DEFINE l == LineAt(d, p)
           x == HeaderFrom(d)[l.next][l.ended]
           y == HeaderFrom(d)[l.start][FALSE]
<1>1. HeaderFrom(d)[p][a] = Round(d, p, a, x, y)
  BY <1>0, HeaderRounds
<1> HIDE DEF x, y
<1>2. CASE p + 2 > Len(d)
  <2>1. Round(d, p, a, x, y).res = "incomplete"
    BY <1>2 DEF Round
  <2> QED BY <1>1, <2>1
<1>3. CASE ~ (p + 2 > Len(d))
  <2>1. /\ KeyEnd(d, p) = p + 1 /\ ValueStart(d, p + 1) = p + 2
        /\ Run(d, p, p + 1) = <<At(t, p)>> /\ At(d, p) # NUL /\ At(d, p) # "CR"
    <3>1. Len(d) >= p + 2
      BY <1>0, <1>3
    <3> QED BY <3>1, KeyFound
  <2>2. \A i \in 0 .. Len(t) - 1 : i < Len(d) => At(d, i) = At(t, i) /\ At(d, i) # NUL
    BY <1>0, AgreeTokens
  <2>3. LineEnds(d, p + 2) = {}
    <3> SUFFICES ASSUME NEW q \in LineEnds(d, p + 2) PROVE FALSE
      OBVIOUS
    <3>1. q \in p + 2 .. Len(d) - 2 /\ IsCrLf(d, q)
      BY <1>0, LineEndFacts
    <3>2. q = p + 2 /\ q \in 0 .. Len(t) - 1 /\ q < Len(d)
      BY <1>0, <3>1
    <3>3. At(t, p + 2) = "CR"
      BY <2>2, <3>1, <3>2 DEF IsCrLf
    <3> QED BY <3>3 DEF LineText
  <2>4. FirstAt(d, p + 2, {}) = Len(d)
    <3>1. p + 2 \in 0 .. Len(d) /\ Len(d) \in p + 2 .. Len(d)
      BY <1>0, <1>3
    <3>2. At(d, Len(d)) \in {} \cup {NUL}
      BY DEF At
    <3>3. \A i \in p + 2 .. Len(d) - 1 : i \in 0 .. Len(t) - 1 /\ i < Len(d)
      BY <1>0
    <3>4. \A i \in p + 2 .. Len(d) - 1 : At(d, i) \notin {} \cup {NUL}
      BY <2>2, <3>3
    <3> QED BY <1>0, <3>1, <3>2, <3>4, FirstAtIs
  <2>5. ValueEnd(d, p + 2) = Len(d)
    BY <2>3, <2>4 DEF ValueEnd
  <2>6. ~ IsCrLf(d, Len(d))
    BY <1>0, TokensDiffer DEF IsCrLf, At
  <2>7. LineAt(d, p) = [key |-> Run(d, p, p + 1), value |-> Run(d, p + 2, Len(d)), start |-> p + 2,
                        ended |-> IsCrLf(d, Len(d)), next |-> Len(d)]
    BY <2>1, <2>5, <2>6, LineIs
  <2>8. l.key = <<At(t, p)>> /\ l.ended = FALSE /\ l.next = Len(d)
    <3>1. IsCrLf(d, Len(d)) = FALSE
      BY <2>6 DEF IsCrLf
    <3> QED BY <2>1, <2>7, <3>1
  <2>9. x.res = "incomplete"
    <3> DEFINE e == Len(d)
               w == HeaderFrom(d)[LineAt(d, e).next][LineAt(d, e).ended]
               z == HeaderFrom(d)[LineAt(d, e).start][FALSE]
    <3>1. HeaderFrom(d)[e][FALSE] = Round(d, e, FALSE, w, z)
      <4>1. Len(d) \in 0 .. Len(d) /\ FALSE \in BOOLEAN
        BY <1>0
      <4> QED BY <4>1, HeaderRounds
    <3> HIDE DEF w, z
    <3>2. Round(d, e, FALSE, w, z).res = "incomplete"
      <4>1. At(d, e) = NUL
        BY DEF At
      <4> QED BY <4>1 DEF Round
    <3> QED BY <2>8, <3>1, <3>2 DEF x
  <2>10. Round(d, p, a, x, y) = Kept(l, x)
    <3>1. l.key # << >> /\ ~ IsCrLf(d, p)
      BY <2>1, <2>8 DEF IsCrLf
    <3> QED BY <1>3, <2>1, <3>1 DEF Round
  <2>11. Kept(l, x) = x
    BY <2>9 DEF Kept
  <2> QED BY <1>1, <2>9, <2>10, <2>11
<1> QED BY <1>2, <1>3

-----------------------------------------------------------------------------
(* All header lines.  The pairs of the lines from i on.                    *)
LinesFrom(t, e, n, i) == [j \in 1 .. n - i |-> Line(t, e + 5 * (i + j - 1))]
SomeLines(t) == {Line(t, p) : p \in Nat}

LEMMA LinesStep ==
  ASSUME NEW t, NEW e \in Nat, NEW n \in Nat, NEW i \in Nat, i < n
  PROVE  /\ LinesFrom(t, e, n, i + 1) \in Seq(SomeLines(t))
         /\ LinesFrom(t, e, n, i) = <<Line(t, e + 5 * i)>> \o LinesFrom(t, e, n, i + 1)
<1> DEFINE M == SomeLines(t)
           f == LinesFrom(t, e, n, i)
           g == LinesFrom(t, e, n, i + 1)
           r == Line(t, e + 5 * i)
           L(p) == Line(t, p)
<1>1. \A p \in Nat : L(p) \in M
  BY DEF SomeLines
<1>2. ASSUME NEW k \in Nat, k <= n
      PROVE  /\ LinesFrom(t, e, n, k) \in Seq(M) /\ Len(LinesFrom(t, e, n, k)) = n - k
             /\ \A j \in 1 .. n - k : LinesFrom(t, e, n, k)[j] = L(e + 5 * (k + j - 1))
  <2> DEFINE h == [j \in 1 .. n - k |-> L(e + 5 * (k + j - 1))]
  <2>1. LinesFrom(t, e, n, k) = h
    BY DEF LinesFrom
  <2>2. \A j \in 1 .. n - k : e + 5 * (k + j - 1) \in Nat
    OBVIOUS
  <2> HIDE DEF L
  <2>3. \A j \in 1 .. n - k : h[j] \in M
    BY <1>1, <2>2
  <2>4. n - k \in Nat
    BY <1>2
  <2>5. h \in Seq(M) /\ Len(h) = n - k
    <3>1. DOMAIN h = 1 .. n - k
      OBVIOUS
    <3>2. h \in [1 .. n - k -> M]
      BY <2>3
    <3> HIDE DEF h
    <3> QED BY <2>4, <3>1, <3>2
  <2> QED BY <2>1, <2>5
<1>3. i + 1 \in Nat /\ i + 1 <= n /\ i <= n /\ e + 5 * i \in Nat
  OBVIOUS
<1>4. f \in Seq(M) /\ Len(f) = n - i /\ \A j \in 1 .. n - i : f[j] = L(e + 5 * (i + j - 1))
  BY <1>2, <1>3
<1>5. g \in Seq(M) /\ Len(g) = n - (i + 1) /\ \A j \in 1 .. n - (i + 1) : g[j] = L(e + 5 * (i + 1 + j - 1))
  BY <1>2, <1>3
<1>6. r \in M /\ r = L(e + 5 * i)
  BY <1>1, <1>3
<1> HIDE DEF f, g, r, L, M
<1> DEFINE h == <<r>> \o g
<1>7. /\ h \in Seq(M) /\ Len(h) = Len(g) + 1 /\ h[1] = r
      /\ \A j \in 1 .. Len(g) : h[j + 1] = g[j]
  BY <1>5, <1>6, PrependFacts
<1> HIDE DEF h
<1>8. ASSUME NEW j \in 1 .. n - i PROVE f[j] = h[j]
  <2>1. CASE j = 1
    <3>1. e + 5 * (i + j - 1) = e + 5 * i
      BY <2>1
    <3> QED BY <1>4, <1>6, <1>7, <2>1, <3>1
  <2>2. CASE j # 1
    <3> DEFINE k == j - 1
    <3>1. k \in 1 .. n - (i + 1) /\ k \in 1 .. Len(g) /\ j = k + 1 /\ i + 1 + k - 1 = i + j - 1
      BY <1>5, <2>2
    <3> HIDE DEF k
    <3>2. h[j] = g[k]
      BY <1>7, <3>1
    <3>3. g[k] = L(e + 5 * (i + j - 1))
      BY <1>5, <3>1
    <3> QED BY <1>4, <3>2, <3>3
  <2> QED BY <2>1, <2>2
<1>9. Len(h) = n - i
  BY <1>5, <1>7
<1>10. f = h
  BY <1>4, <1>7, <1>8, <1>9
<1> QED BY <1>5, <1>10 DEF f, g, r, h, M

(* What the header loop makes of the lines from i on.                      *)
LinesAnswer(d, t, e, n, i, r) ==
  IF Len(d) >= e + 5 * n + 2
  THEN r = [res |-> "done", eof |-> e + 5 * n + 2, headers |-> LinesFrom(t, e, n, i)]
  ELSE r.res = "incomplete"

LEMMA LinesEnd ==
  ASSUME NEW T, NEW d \in Seq(T), NEW t \in Seq(T), \A i \in 1 .. Len(t) : t[i] # NUL, Agree(d, t),
         NEW e \in Nat, NEW n \in Nat, HeaderLines(t, e, n), e + 5 * n + 2 <= Len(t), e + 5 * n <= Len(d)
  PROVE  LinesAnswer(d, t, e, n, n, HeaderFrom(d)[e + 5 * n][TRUE])
<1> DEFINE p == e + 5 * n
           l == LineAt(d, p)
           x == HeaderFrom(d)[l.next][l.ended]
           y == HeaderFrom(d)[l.start][FALSE]
<1>0. p \in 0 .. Len(d) /\ TRUE \in BOOLEAN /\ Len(d) \in Nat /\ p \in Nat /\ Len(t) \in Nat
  OBVIOUS
<1>1. HeaderFrom(d)[p][TRUE] = Round(d, p, TRUE, x, y)
  BY <1>0, HeaderRounds
<1>10. IsCrLf(t, p) /\ p + 2 <= Len(t)
  BY DEF HeaderLines
<1> HIDE DEF x, y, p
<1>2. CASE p + 2 > Len(d)
  <2>1. Round(d, p, TRUE, x, y).res = "incomplete"
    BY <1>2 DEF Round
  <2>2. ~ (Len(d) >= e + 5 * n + 2)
    BY <1>0, <1>2 DEF p
  <2> QED BY <1>1, <2>1, <2>2 DEF LinesAnswer, p
<1>3. CASE ~ (p + 2 > Len(d))
  <2>1. At(d, p) = At(t, p) /\ At(d, p) # NUL /\ At(d, p + 1) = At(t, p + 1)
    <3>1. p \in 0 .. Len(t) - 1 /\ p < Len(d) /\ p + 1 \in 0 .. Len(t) - 1 /\ p + 1 < Len(d)
      BY <1>0, <1>3, <1>10
    <3> QED BY <1>0, <3>1, AgreeTokens
  <2>2. IsCrLf(d, p)
    BY <1>10, <2>1 DEF IsCrLf
  <2> DEFINE a == [res |-> "done", eof |-> p + 2, headers |-> << >>]
  <2>3. Round(d, p, TRUE, x, y) = a
    BY <1>3, <2>1, <2>2 DEF Round
  <2>4. LinesFrom(t, e, n, n) = << >>
    <3>1. \A j \in 1 .. n - n : FALSE
      OBVIOUS
    <3> DEFINE f == LinesFrom(t, e, n, n)
    <3>2. DOMAIN f = {} /\ f = [j \in DOMAIN f |-> f[j]]
      BY <3>1 DEF LinesFrom
    <3> HIDE DEF f
    <3>3. f = << >>
      BY <3>2
    <3> QED BY <3>3 DEF f
  <2>5. Len(d) >= e + 5 * n + 2 /\ p + 2 = e + 5 * n + 2
    BY <1>0, <1>3 DEF p
  <2>6. a = [res |-> "done", eof |-> e + 5 * n + 2, headers |-> LinesFrom(t, e, n, n)]
    BY <2>4, <2>5
  <2>7. HeaderFrom(d)[e + 5 * n][TRUE] = a
    BY <1>1, <2>3 DEF p
  <2> HIDE DEF a
  <2> QED BY <2>5, <2>6, <2>7 DEF LinesAnswer
<1> QED BY <1>2, <1>3

LEMMA LinesOneMore ==
  ASSUME NEW T, NEW d \in Seq(T), NEW t \in Seq(T), \A i \in 1 .. Len(t) : t[i] # NUL, Agree(d, t),
         NEW e \in Nat, NEW n \in Nat, HeaderLines(t, e, n), e + 5 * n + 2 <= Len(t),
         NEW i \in 0 .. n - 1, e + 5 * i <= Len(d), NEW a \in BOOLEAN,
         e + 5 * (i + 1) <= Len(d)
           => LinesAnswer(d, t, e, n, i + 1, HeaderFrom(d)[e + 5 * (i + 1)][TRUE])
  PROVE  LinesAnswer(d, t, e, n, i, HeaderFrom(d)[e + 5 * i][a])
<1> DEFINE p == e + 5 * i
<1>0. /\ p \in Nat /\ p <= Len(d) /\ p \in 0 .. Len(d) /\ Len(d) \in Nat /\ Len(t) \in Nat
      /\ p + 5 = e + 5 * (i + 1) /\ p + 5 <= Len(t)
  OBVIOUS
<1>1. LineText(t, p)
  BY <1>0 DEF LineText, HeaderLines
<1>2. CASE Len(d) < p + 5
  <2>1. HeaderFrom(d)[p][a].res = "incomplete"
    <3> HIDE DEF p
    <3> QED BY <1>0, <1>1, <1>2, LineCut
  <2>2. ~ (Len(d) >= e + 5 * n + 2)
    BY <1>2
  <2> QED BY <2>1, <2>2 DEF LinesAnswer
<1>3. CASE Len(d) >= p + 5
  <2> DEFINE l == LineAt(d, p)
             x == HeaderFrom(d)[l.next][l.ended]
             y == HeaderFrom(d)[l.start][FALSE]
             k == <<At(t, p)>>
             v == <<At(t, p + 2)>>
  <2>1. l = [key |-> k, value |-> v, start |-> p + 2, ended |-> TRUE, next |-> p + 5]
    <3> HIDE DEF p
    <3> QED BY <1>0, <1>1, <1>3, LineFound
  <2>2. HeaderFrom(d)[p][a] = Round(d, p, a, x, y)
    <3> HIDE DEF p
    <3> QED BY <1>0, HeaderRounds
  <2>3. At(d, p) # NUL /\ At(d, p) # "CR"
    <3> HIDE DEF p
    <3>1. Len(d) >= p + 2
      BY <1>0, <1>3
    <3> QED BY <1>0, <1>1, <3>1, KeyFound
  <2>4. k # << >> /\ v # << >>
    OBVIOUS
  <2> HIDE DEF k, v, l, p
  <2>5. l.key = k /\ l.value = v /\ l.next = p + 5 /\ l.ended = TRUE
    BY <2>1
  <2>6. x = HeaderFrom(d)[e + 5 * (i + 1)][TRUE]
    BY <1>0, <2>5
  <2> HIDE DEF x, y
  <2>7. LinesAnswer(d, t, e, n, i + 1, x)
    BY <1>0, <1>3, <2>6
  <2>8. Round(d, p, a, x, y) = Kept(l, x)
    <3>1. ~ (p + 2 > Len(d)) /\ ~ IsCrLf(d, p)
      BY <1>0, <1>3, <2>3 DEF IsCrLf
    <3> QED BY <2>3, <2>4, <2>5, <3>1 DEF Round, l
  <2>9. CASE Len(d) >= e + 5 * n + 2
    <3> DEFINE g == LinesFrom(t, e, n, i + 1)
               w == e + 5 * n + 2
               f == <<[key |-> l.key, value |-> l.value]>> \o g
    <3>1. x = [res |-> "done", eof |-> w, headers |-> g]
      BY <2>7, <2>9 DEF LinesAnswer
    <3>2. LinesFrom(t, e, n, i) = f
      <4>1. LinesFrom(t, e, n, i) = <<Line(t, p)>> \o g
        <5>1. i \in Nat /\ i < n
          OBVIOUS
        <5>2. LinesFrom(t, e, n, i) = <<Line(t, e + 5 * i)>> \o LinesFrom(t, e, n, i + 1)
          BY <5>1, LinesStep
        <5> QED BY <5>2 DEF p
      <4>2. Line(t, p) = [key |-> l.key, value |-> l.value]
        BY <2>5 DEF Line, k, v
      <4> QED BY <4>1, <4>2
    <3> HIDE DEF g, w
    <3>3. Kept(l, x) = [x EXCEPT !.headers = <<[key |-> l.key, value |-> l.value]>> \o g]
      <4>1. x.res = "done" /\ x.headers = g
        BY <3>1
      <4>2. l.value # << >>
        BY <2>4, <2>5
      <4> QED BY <4>1, <4>2 DEF Kept
    <3> HIDE DEF f
    <3>4. Kept(l, x) = [res |-> "done", eof |-> w, headers |-> f]
      BY <3>1, <3>3 DEF f
    <3> QED BY <2>2, <2>8, <2>9, <3>2, <3>4 DEF LinesAnswer, p, w
  <2>10. CASE ~ (Len(d) >= e + 5 * n + 2)
    <3>1. x.res = "incomplete"
      BY <2>7, <2>10 DEF LinesAnswer
    <3>2. Kept(l, x) = x
      BY <3>1 DEF Kept
    <3> QED BY <2>2, <2>8, <2>10, <3>1, <3>2 DEF LinesAnswer, p
  <2> QED BY <2>9, <2>10
<1> QED BY <1>0, <1>2, <1>3

LEMMA HeadersFound ==
  ASSUME NEW T, NEW d \in Seq(T), NEW t \in Seq(T), \A i \in 1 .. Len(t) : t[i] # NUL, Agree(d, t),
         NEW e \in Nat, NEW n \in Nat \ {0}, HeaderLines(t, e, n), e + 5 * n + 2 <= Len(t), e <= Len(d)
  PROVE  LinesAnswer(d, t, e, n, 0, HeaderFrom(d)[e][FALSE])
<1> DEFINE A(i, a) == LinesAnswer(d, t, e, n, i, HeaderFrom(d)[e + 5 * i][a])
           E(k) == e + 5 * (n - k) <= Len(d) => A(n - k, TRUE)
           S == {k \in Nat : k < n => E(k)}
<1>0. Len(d) \in Nat
  OBVIOUS
<1>1. ASSUME NEW i \in 0 .. n - 1, e + 5 * i <= Len(d), NEW a \in BOOLEAN,
             e + 5 * (i + 1) <= Len(d) => A(i + 1, TRUE)
      PROVE  A(i, a)
  BY <1>1, LinesOneMore
<1>2. 0 \in S
  <2>1. e + 5 * n <= Len(d) => A(n, TRUE)
    BY LinesEnd
  <2>2. n - 0 = n
    OBVIOUS
  <2> HIDE DEF A
  <2>3. E(0)
    BY <2>1, <2>2
  <2> HIDE DEF E
  <2> QED BY <2>3
<1> HIDE DEF A
<1>3. ASSUME NEW k \in Nat, k \in S PROVE k + 1 \in S
  <2> HIDE DEF E
  <2> SUFFICES ASSUME k + 1 < n PROVE E(k + 1)
    OBVIOUS
  <2>1. E(k)
    BY <1>3
  <2> DEFINE i == n - (k + 1)
  <2>2. i \in 0 .. n - 1 /\ n - k = i + 1 /\ TRUE \in BOOLEAN
    OBVIOUS
  <2> HIDE DEF i
  <2>3. e + 5 * (i + 1) <= Len(d) => A(i + 1, TRUE)
    BY <2>1, <2>2 DEF E
  <2>4. e + 5 * i <= Len(d) => A(i, TRUE)
    BY <1>1, <2>2, <2>3
  <2> QED BY <2>4 DEF E, i
<1> HIDE DEF S, E
<1>4. n - 1 \in S /\ n - 1 \in Nat /\ n - 1 < n
  BY <1>2, <1>3, Induct
<1>5. E(n - 1)
  BY <1>4 DEF S
<1>6. e + 5 * 1 <= Len(d) => A(1, TRUE)
  <2>1. n - (n - 1) = 1
    BY <1>0
  <2> QED BY <1>5, <2>1 DEF E
<1>7. A(0, FALSE)
  <2> DEFINE i == 0
             j == i + 1
  <2>1. i \in 0 .. n - 1 /\ e + 5 * i <= Len(d) /\ j = 1 /\ FALSE \in BOOLEAN
    OBVIOUS
  <2>2. e + 5 * j <= Len(d) => A(j, TRUE)
    BY <1>6, <2>1
  <2> HIDE DEF i
  <2>3. A(i, FALSE)
    BY <1>1, <2>1, <2>2
  <2> QED BY <2>3 DEF i
<1>8. e + 5 * 0 = e
  OBVIOUS
<1> QED BY <1>7, <1>8 DEF A

-----------------------------------------------------------------------------
(* What the parser makes of each kind of message.                          *)
LEMMA WholeFound ==
  ASSUME NEW T, NEW d \in Seq(T), NEW m, m.text \in Seq(T), Whole(m), Agree(d, m.text)
  PROVE  LET r == Deserialize(d)
         IN  /\ Len(d) >= Len(m.text) => r.res = "done"
             /\ r.res = "incomplete" \/ (r.res = "done" /\ r.eof = Len(m.text) /\ Same(m, r))
             /\ r.res = "done" => /\ r.queries = PairsOf(m, d)
                                  /\ m.method = GET \/ Len(d) >= Len(m.text)
<1> DEFINE t == m.text
           r == Deserialize(d)
           z == DeserializeMethod_(d)
           h == DeserializeHeader_(d, z.eof)
<1>0. Len(d) \in Nat /\ Len(t) \in Nat
  OBVIOUS
<1>1. PICK e \in 1 .. Len(t), n \in 1 .. Len(t) :
        /\ FirstLine(t, e) /\ Accepted(t, e) /\ HeaderLines(t, e, n)
        /\ m.method = At(t, 0) /\ m.uri = Uri(t) /\ m.headers = Headers(t, e, n)
        /\ Len(t) = e + 5 * n + 2 + length_(m.headers)
  BY DEF Whole
<1> DEFINE w == e + 5 * n + 2
           l == length_(m.headers)
<1>2. l \in Nat /\ l < Word /\ Len(t) < Word
  BY LengthNat DEF Whole
<1>3. /\ Len(d) < e => z.res = "incomplete"
      /\ Len(d) >= e => /\ z.res = "done" /\ z.method = At(t, 0) /\ z.uri = Uri(t)
                        /\ z.eof = e /\ At(d, 0) = At(t, 0)
  BY <1>1, MethodFound
<1> HIDE DEF z
<1>4. CASE At(d, 0) = NUL
  <2>1. r = [res |-> "incomplete"]
    BY <1>4 DEF Deserialize
  <2>2. ~ (Len(d) >= Len(t))
    <3>1. e \in 2 .. Len(t)
      BY <1>1, FirstLineFound
    <3> SUFFICES ASSUME Len(d) >= Len(t) PROVE FALSE
      OBVIOUS
    <3>2. 0 \in 0 .. Len(t) - 1 /\ 0 < Len(d)
      BY <1>0, <3>1
    <3> QED BY <1>0, <1>1, <1>4, <3>2, AgreeTokens DEF FirstLine
  <2> QED BY <2>1, <2>2
<1>5. CASE At(d, 0) # NUL /\ Len(d) < e
  <2>1. r = [res |-> z.res]
    BY <1>3, <1>5 DEF Deserialize, AfterMethod, z
  <2>2. r.res = "incomplete"
    BY <1>3, <1>5, <2>1
  <2>3. ~ (Len(d) >= Len(t))
    BY <1>0, <1>1, <1>5
  <2> QED BY <2>2, <2>3
<1>6. CASE At(d, 0) # NUL /\ Len(d) >= e
  <2>1. z.res = "done" /\ z.method = m.method /\ z.uri = m.uri /\ z.eof = e
    BY <1>1, <1>3, <1>6
  <2>2. r = AfterHeader(d, z, h)
    BY <1>6, <2>1 DEF Deserialize, AfterMethod, z
  <2>3. LinesAnswer(d, t, e, n, 0, h)
    <3>0. w <= Len(t) /\ w \in Nat
      BY <1>0, <1>1, <1>2
    <3>1. CASE e >= Len(d)
      <4>1. h = [res |-> "incomplete"]
        BY <2>1, <3>1 DEF DeserializeHeader_
      <4>2. ~ (Len(d) >= w)
        BY <1>0, <1>1, <3>1
      <4> HIDE DEF h
      <4>3. h.res = "incomplete"
        BY <4>1
      <4> QED BY <4>2, <4>3 DEF LinesAnswer
    <3>2. CASE ~ (e >= Len(d))
      <4>1. h = HeaderFrom(d)[e][FALSE]
        BY <2>1, <3>2 DEF DeserializeHeader_
      <4>2. /\ e \in Nat /\ n \in Nat \ {0} /\ e <= Len(d) /\ HeaderLines(t, e, n) /\ e + 5 * n + 2 <= Len(t)
            /\ \A i \in 1 .. Len(t) : t[i] # NUL
        BY <1>0, <1>1, <3>0, <3>2 DEF FirstLine
      <4>3. LinesAnswer(d, t, e, n, 0, HeaderFrom(d)[e][FALSE])
        <5> HIDE DEF t
        <5>1. t \in Seq(T) /\ Agree(d, t)
          BY DEF t
        <5> QED BY <4>2, <5>1, HeadersFound
      <4> QED BY <4>1, <4>3
    <3> QED BY <3>1, <3>2
  <2> HIDE DEF h
  <2>4. CASE ~ (Len(d) >= w)
    <3>1. h.res = "incomplete"
      BY <2>3, <2>4 DEF LinesAnswer
    <3>2. r = [res |-> h.res]
      BY <2>2, <3>1 DEF AfterHeader
    <3>3. ~ (Len(d) >= Len(t))
      BY <1>0, <1>1, <1>2, <2>4
    <3> QED BY <3>1, <3>2, <3>3
  <2>5. CASE Len(d) >= w
    <3>0. LinesFrom(t, e, n, 0) = m.headers
      <4>1. LinesFrom(t, e, n, 0) = [j \in 1 .. n |-> Line(t, e + 5 * (j - 1))]
        <5>1. n - 0 = n /\ \A j \in 1 .. n : 0 + j - 1 = j - 1
          BY <1>0, <1>1
        <5> QED BY <5>1 DEF LinesFrom
      <4> QED BY <1>1, <4>1 DEF Headers
    <3>1. h = [res |-> "done", eof |-> w, headers |-> m.headers]
      BY <2>3, <2>5, <3>0 DEF LinesAnswer
    <3>2. h.res = "done" /\ h.eof = w /\ h.headers = m.headers
      BY <3>1
    <3> DEFINE q == DeserializeQuery_(d, m.method, m.uri, w, l)
               x == is_persistent_(h.headers)
    <3>3. r = AfterQuery(z, h, q)
      BY <2>1, <2>2, <3>2 DEF AfterHeader
    <3>4. w \in 4 .. Len(d) /\ w \in Nat /\ Len(t) = w + l
      BY <1>0, <1>1, <1>2, <2>5
    <3> HIDE DEF l, w
    <3>40. Wrapped(w + l) = w + l
      BY <1>2, <3>4, WrappedFacts
    <3>5. /\ q.res \in {"incomplete", "done"}
          /\ q.res = "incomplete" <=> m.method # GET /\ w + l > Len(d)
          /\ q.res = "done" =>
               /\ q.eof = w + l
               /\ q.queries = IF m.method = GET THEN QueryPairs(m.uri, FirstAt(m.uri, 0, {"?"}))
                              ELSE QueryPairs(d, w)
      BY <1>2, <3>4, <3>40, QueryAnswers
    <3> HIDE DEF q
    <3>6. CASE q.res # "done"
      <4>1. r = [res |-> q.res]
        BY <3>3, <3>6 DEF AfterQuery
      <4>2. ~ (Len(d) >= Len(t))
        BY <1>0, <1>2, <3>4, <3>5, <3>6
      <4> QED BY <3>5, <3>6, <4>1, <4>2
    <3>7. CASE q.res = "done"
      <4>1. r = [res |-> "done", eof |-> q.eof, method |-> z.method, uri |-> z.uri,
                 headers |-> h.headers, queries |-> q.queries, persistent |-> x]
        BY <3>3, <3>7 DEF AfterQuery
      <4> HIDE DEF r, x
      <4>2. r.res = "done" /\ r.eof = Len(t) /\ Same(m, r) /\ r.queries = q.queries
        BY <2>1, <3>2, <3>4, <3>5, <3>7, <4>1 DEF Same
      <4>3. w = Len(t) - l
        BY <1>0, <1>2, <3>4
      <4>4. r.queries = PairsOf(m, d)
        BY <3>5, <3>7, <4>2, <4>3 DEF PairsOf, l
      <4>5. m.method = GET \/ Len(d) >= Len(t)
        BY <1>0, <1>2, <3>4, <3>5, <3>7
      <4> QED BY <4>2, <4>4, <4>5 DEF r
    <3> QED BY <3>6, <3>7
  <2> QED BY <2>4, <2>5
<1> QED BY <1>0, <1>1, <1>4, <1>5, <1>6

LEMMA HeaderlessFound ==
  ASSUME NEW T, NEW d \in Seq(T), NEW m, m.text \in Seq(T), Headerless(m), Agree(d, m.text)
  PROVE  LET r == Deserialize(d)
         IN  r.res = "hangs" \/ (r.res = "incomplete" /\ Len(d) < Len(m.text))
<1> DEFINE t == m.text
           r == Deserialize(d)
           z == DeserializeMethod_(d)
           h == DeserializeHeader_(d, z.eof)
<1>0. Len(d) \in Nat /\ Len(t) \in Nat
  OBVIOUS
<1>1. PICK e \in 1 .. Len(t) : FirstLine(t, e) /\ Accepted(t, e) /\ IsCrLf(t, e)
  BY DEF Headerless
<1>2. e \in 2 .. Len(t) /\ e + 2 <= Len(t)
  <2>1. e \in 2 .. Len(t)
    BY <1>1, FirstLineFound
  <2>2. e + 1 < Len(t)
    BY <1>1, TokensDiffer DEF IsCrLf, At
  <2> QED BY <1>0, <2>1, <2>2
<1>3. /\ Len(d) < e => z.res = "incomplete"
      /\ Len(d) >= e => z.res = "done" /\ z.eof = e
  BY <1>1, MethodFound
<1>30. \A i \in 0 .. Len(t) - 1 : i < Len(d) => At(d, i) = At(t, i) /\ At(d, i) # NUL
  <2>1. \A i \in 1 .. Len(t) : t[i] # NUL
    BY <1>1 DEF FirstLine
  <2> QED BY <1>0, <2>1, AgreeTokens
<1> HIDE DEF z
<1>4. CASE At(d, 0) = NUL
  <2>1. r = [res |-> "incomplete"]
    BY <1>4 DEF Deserialize
  <2>2. Len(d) < Len(t)
    <3> SUFFICES ASSUME ~ (Len(d) < Len(t)) PROVE FALSE
      OBVIOUS
    <3>2. 0 \in 0 .. Len(t) - 1 /\ 0 < Len(d)
      BY <1>0, <1>2
    <3> QED BY <1>30, <1>4, <3>2
  <2> QED BY <2>1, <2>2
<1>5. CASE At(d, 0) # NUL /\ Len(d) < e
  <2>1. r = [res |-> z.res]
    BY <1>3, <1>5 DEF Deserialize, AfterMethod, z
  <2>2. Len(d) < Len(t)
    BY <1>0, <1>2, <1>5
  <2> QED BY <1>3, <1>5, <2>1, <2>2
<1>6. CASE At(d, 0) # NUL /\ Len(d) >= e
  <2>1. z.res = "done" /\ z.eof = e
    BY <1>3, <1>6
  <2>2. r = AfterHeader(d, z, h)
    BY <1>6, <2>1 DEF Deserialize, AfterMethod, z
  <2>3. CASE e >= Len(d)
    <3>1. h = [res |-> "incomplete"]
      BY <2>1, <2>3 DEF DeserializeHeader_
    <3> HIDE DEF h
    <3>2. r = [res |-> "incomplete"]
      BY <2>2, <3>1 DEF AfterHeader
    <3>3. Len(d) < Len(t)
      BY <1>0, <1>2, <2>3
    <3> QED BY <3>2, <3>3
  <2>4. CASE ~ (e >= Len(d))
    <3> DEFINE l == LineAt(d, e)
               x == HeaderFrom(d)[l.next][l.ended]
               y == HeaderFrom(d)[l.start][FALSE]
    <3>1. h = HeaderFrom(d)[e][FALSE]
      BY <2>1, <2>4 DEF DeserializeHeader_
    <3>2. e \in 0 .. Len(d) /\ FALSE \in BOOLEAN /\ e \in 0 .. Len(t) - 1 /\ e < Len(d)
      BY <1>0, <1>2, <2>4
    <3>3. h = Round(d, e, FALSE, x, y)
      BY <3>1, <3>2, HeaderRounds
    <3> HIDE DEF h, x, y
    <3>4. At(d, e) = "CR" /\ At(d, e) # NUL
      BY <1>1, <1>30, <3>2 DEF IsCrLf
    <3>5. CASE e + 2 > Len(d)
      <4>1. h = [res |-> "incomplete"]
        BY <3>3, <3>5 DEF Round
      <4>2. r = [res |-> "incomplete"]
        BY <2>2, <4>1 DEF AfterHeader
      <4>3. Len(d) < Len(t)
        BY <1>0, <1>2, <3>5
      <4> QED BY <4>2, <4>3
    <3>6. CASE ~ (e + 2 > Len(d))
      <4>1. KeyEnd(d, e) = e
        <5>1. e \in e .. Len(d) /\ (\A i \in e .. e - 1 : FALSE) /\ At(d, e) \in {"CR", Colon} \cup {NUL}
          BY <1>0, <3>2, <3>4
        <5> QED BY <1>0, <3>2, <5>1, FirstAtIs DEF KeyEnd
      <4>2. ValueStart(d, e) = e
        BY <3>4, TokensDiffer DEF ValueStart
      <4>3. l.start = e /\ l.key = Run(d, e, e)
        BY <4>1, <4>2 DEF LineAt, HeaderLine
      <4>4. Run(d, e, e) = << >>
        <5>1. e \in e .. Len(d) /\ e - e = 0
          BY <1>0, <3>2
        <5>2. Run(d, e, e) \in Seq(T) /\ Len(Run(d, e, e)) = e - e
          BY <3>2, <5>1, RunShape
        <5>3. Len(Run(d, e, e)) = 0
          BY <5>1, <5>2
        <5> QED BY <5>2, <5>3
      <4>5. h = [res |-> "hangs"]
        BY <3>3, <3>4, <3>6, <4>3, <4>4 DEF Round
      <4>6. r = [res |-> "hangs"]
        BY <2>2, <4>5 DEF AfterHeader
      <4> QED BY <4>6
    <3> QED BY <3>5, <3>6
  <2> QED BY <2>3, <2>4
<1> QED BY <1>0, <1>2, <1>4, <1>5, <1>6

LEMMA StrangeFound ==
  ASSUME NEW T, NEW d \in Seq(T), NEW m, m.text \in Seq(T), Strange(m), Agree(d, m.text)
  PROVE  Deserialize(d).res \in {"incomplete", "throws"}
<1> DEFINE t == m.text
           r == Deserialize(d)
           z == DeserializeMethod_(d)
<1>0. Len(d) \in Nat /\ Len(t) \in Nat
  OBVIOUS
<1>1. PICK e \in 1 .. Len(t) :
        /\ FirstLine(t, e)
        /\ At(t, 0) \notin {GET, POST, RESPONSE} \/ (At(t, 0) = RESPONSE /\ At(t, 1) # "200")
  BY DEF Strange
<1>2. /\ e \in 2 .. Len(t)
      /\ Len(d) < e => LineEnds(d, 0) = {}
      /\ Len(d) >= e => LineEnds(d, 0) # {}
  BY <1>1, FirstLineFound
<1>3. /\ z.res \in {"incomplete", "throws", "done"}
      /\ z.res = "incomplete" <=> LineEnds(d, 0) = {}
      /\ z.res = "throws" <=> Bad(d)
  BY MethodAnswers
<1>4. z.res # "done"
  <2>1. CASE Len(d) < e
    BY <1>2, <1>3, <2>1
  <2>2. CASE ~ (Len(d) < e)
    <3>1. 0 \in 0 .. Len(t) - 1 /\ 1 \in 0 .. Len(t) - 1 /\ 0 < Len(d) /\ 1 < Len(d) /\ Len(d) >= e
      BY <1>0, <1>2, <2>2
    <3>2. At(d, 0) = At(t, 0) /\ At(d, 1) = At(t, 1)
      BY <3>1 DEF Agree
    <3>3. Bad(d)
      BY <1>1, <1>2, <3>1, <3>2 DEF Bad
    <3> QED BY <1>3, <3>3
  <2> QED BY <2>1, <2>2
<1> HIDE DEF z
<1>5. CASE At(d, 0) = NUL
  <2>1. r = [res |-> "incomplete"]
    BY <1>5 DEF Deserialize
  <2> QED BY <2>1
<1>6. CASE At(d, 0) # NUL
  <2>1. r = [res |-> z.res]
    BY <1>4, <1>6 DEF Deserialize, AfterMethod, z
  <2> QED BY <1>3, <1>4, <2>1
<1> QED BY <1>5, <1>6

(* Which of them the parser accepts, and which the header loop may stand   *)
(* still on.                                                               *)
Blamed(m) == Stuck(m.text) \/ ~ NamesProtocol(m)

LEMMA HeaderlessStuck ==
  ASSUME NEW T, NEW t \in Seq(T), NEW e \in 1 .. Len(t), FirstLine(t, e), IsCrLf(t, e)
  PROVE  Stuck(t)
<1>0. Len(t) \in Nat
  OBVIOUS
<1>1. /\ e - 2 \in LineEnds(t, 0) /\ \A q \in 0 .. e - 3 : At(t, q) # "CR"
  BY DEF FirstLine
<1>2. e - 2 \in 0 .. Len(t) - 2
  BY <1>0, <1>1, LineEndFacts
<1>3. e \in LineStarts(t)
  <2>1. e = (e - 2) + 2
    BY <1>2
  <2> QED BY <1>1, <2>1 DEF LineStarts
<1>4. \A s \in LineStarts(t) : e <= s
  <2>1. ASSUME NEW q \in LineEnds(t, 0) PROVE e <= q + 2
    <3>1. q \in 0 .. Len(t) - 2 /\ IsCrLf(t, q)
      BY <1>0, LineEndFacts
    <3>2. q \notin 0 .. e - 3
      BY <1>1, <3>1 DEF IsCrLf
    <3> QED BY <1>2, <3>1, <3>2
  <2> QED BY <2>1 DEF LineStarts
<1>5. MinOf(LineStarts(t)) = e
  BY <1>0, <1>3, <1>4, LineStartIn, MinOfIs
<1>6. NoKey(t, e)
  <2>1. e \in e .. Len(t) - 1 /\ (\A i \in e .. e - 1 : FALSE)
    BY <1>0, TokensDiffer DEF IsCrLf, At
  <2> QED BY <2>1 DEF NoKey, IsCrLf
<1>7. e \notin HeaderEnds(t)
  BY <1>5 DEF HeaderEnds
<1>8. \A x \in HeaderEnds(t) : e < x
  <2>1. \A x \in HeaderEnds(t) : x > e
    BY <1>5 DEF HeaderEnds
  <2> QED BY <1>0, <2>1, LineStartIn
<1> QED BY <1>3, <1>6, <1>7, <1>8 DEF Stuck

LEMMA KindsAccepted ==
  ASSUME NEW T, NEW m, m.text \in Seq(T)
  PROVE  /\ Whole(m) => Acceptable(m) /\ Len(m.text) > 0
         /\ Headerless(m) => Blamed(m)
         /\ Strange(m) => ~ Acceptable(m)
         /\ Unfinished(m) => ~ Acceptable(m) /\ Blamed(m)
<1> DEFINE t == m.text
<1>0. Len(t) \in Nat
  OBVIOUS
<1>1. ASSUME Whole(m) PROVE Acceptable(m) /\ Len(t) > 0
  <2>1. PICK e \in 1 .. Len(t) : FirstLine(t, e) /\ Accepted(t, e) /\ m.method = At(t, 0)
    BY <1>1 DEF Whole
  <2>2. e \in 2 .. Len(t)
    <3>1. Agree(t, t)
      BY DEF Agree
    <3> QED BY <2>1, <3>1, FirstLineFound
  <2>3. CASE At(t, 0) \in {GET, POST} /\ \E q \in 1 .. e - 3 : At(t, q) = Version
    <3>1. Agree(t, t) /\ Len(t) >= e
      BY <1>0, <2>2 DEF Agree
    <3>2. Protocols(t, 1) # {}
      BY <2>1, <2>3, <3>1, UriSame
    <3> QED BY <2>1, <2>2, <2>3, <3>2 DEF Acceptable, NamesProtocol
  <2>4. CASE At(t, 0) = RESPONSE /\ At(t, 1) = "200"
    <3>1. t[2] = "200"
      BY <1>0, <2>2, <2>4 DEF At
    <3> QED BY <1>0, <2>1, <2>2, <2>4, <3>1 DEF Acceptable
  <2> QED BY <2>1, <2>3, <2>4 DEF Accepted
<1>2. ASSUME Headerless(m) PROVE Blamed(m)
  <2>1. PICK e \in 1 .. Len(t) : FirstLine(t, e) /\ IsCrLf(t, e)
    BY <1>2 DEF Headerless
  <2> QED BY <2>1, HeaderlessStuck DEF Blamed
<1>3. ASSUME Strange(m) PROVE ~ Acceptable(m)
  <2>1. PICK e \in 1 .. Len(t) :
          /\ FirstLine(t, e)
          /\ m.method \notin {GET, POST, RESPONSE} \/ (m.method = RESPONSE /\ At(t, 1) # "200")
    BY <1>3 DEF Strange
  <2>2. e \in 2 .. Len(t)
    <3>1. Agree(t, t)
      BY DEF Agree
    <3> QED BY <2>1, <3>1, FirstLineFound
  <2>3. At(t, 1) = t[2]
    BY <1>0, <2>2 DEF At
  <2> QED BY <2>1, <2>3, TokensDiffer DEF Acceptable
<1>4. Unfinished(m) => ~ Acceptable(m) /\ Blamed(m)
  BY TokensDiffer DEF Unfinished, Acceptable, NamesProtocol, Blamed
<1> QED BY <1>1, <1>2, <1>3, <1>4

-----------------------------------------------------------------------------
(* The stream of the first n messages.                                     *)
Prefix(ms, n) == Stream(SubSeq(ms, 1, n))
Streams(ms, f) == f = [n \in 0 .. Len(ms) |-> IF n = 0 THEN << >> ELSE f[n - 1] \o ms[n].text]

LEMMA StreamsExist ==
  ASSUME NEW ms, Len(ms) \in Nat
  PROVE  \E f : Streams(ms, f)
<1> DEFINE N == Len(ms)
           v(g, n) == IF n = 0 THEN << >> ELSE g[n - 1] \o ms[n].text
           G(n, g) == \A i \in 0 .. n : g[i] = v(g, i)
           E(n) == \E g : G(n, g)
           S == {n \in Nat : E(n)}
<1>1. 0 \in S
  <2> DEFINE g == [i \in {0} |-> << >>]
  <2>1. G(0, g)
    OBVIOUS
  <2> HIDE DEF G
  <2>2. E(0)
    BY <2>1
  <2> HIDE DEF E
  <2> QED BY <2>2
<1>2. ASSUME NEW n \in Nat, n \in S PROVE n + 1 \in S
  <2>0. E(n)
    BY <1>2
  <2>1. PICK g : G(n, g)
    BY <2>0
  <2> DEFINE h == [i \in 0 .. n + 1 |-> IF i = n + 1 THEN v(g, i) ELSE g[i]]
  <2>2. ASSUME NEW i \in 0 .. n + 1 PROVE h[i] = v(h, i)
    <3>1. h[i] = v(g, i)
      <4>1. CASE i = n + 1
        BY <4>1
      <4>2. CASE i # n + 1
        <5>1. i \in 0 .. n
          BY <4>2
        <5>2. h[i] = g[i]
          BY <4>2
        <5> HIDE DEF h, v
        <5> QED BY <2>1, <5>1, <5>2
      <4> QED BY <4>1, <4>2
    <3>2. CASE i = 0
      BY <3>1, <3>2
    <3>3. CASE i # 0
      <4>1. i - 1 \in 0 .. n + 1 /\ i - 1 # n + 1
        BY <3>3
      <4>2. h[i - 1] = g[i - 1]
        BY <4>1
      <4> HIDE DEF h
      <4> QED BY <3>1, <3>3, <4>2
    <3> QED BY <3>2, <3>3
  <2> HIDE DEF h, v
  <2>3. G(n + 1, h)
    BY <2>2
  <2> HIDE DEF G
  <2>4. E(n + 1)
    BY <2>3
  <2> HIDE DEF E
  <2> QED BY <2>4
<1> HIDE DEF S
<1>3. N \in S
  BY <1>1, <1>2, Induct
<1>30. E(N)
  <2> HIDE DEF E
  <2> QED BY <1>3 DEF S
<1>4. PICK g : G(N, g)
  BY <1>30
<1> DEFINE f == [n \in 0 .. N |-> g[n]]
<1>5. ASSUME NEW n \in 0 .. N PROVE g[n] = v(f, n)
  <2>1. g[n] = v(g, n)
    <3> HIDE DEF v
    <3> QED BY <1>4
  <2>2. n # 0 => n - 1 \in 0 .. N
    OBVIOUS
  <2>3. n # 0 => f[n - 1] = g[n - 1]
    BY <2>2
  <2> HIDE DEF f
  <2> QED BY <2>1, <2>3
<1>6. f = [n \in 0 .. N |-> v(f, n)]
  <2> DEFINE k == [n \in 0 .. N |-> v(f, n)]
  <2>1. f = k
    <3> HIDE DEF v
    <3> QED BY <1>5
  <2> QED BY <2>1
<1> HIDE DEF f
<1>7. Streams(ms, f)
  BY <1>6 DEF Streams
<1> QED BY <1>7

(* Two lists that begin with the same messages begin with the same stream. *)
LEMMA StreamsAgree ==
  ASSUME NEW ms, NEW ns, Len(ms) \in Nat, Len(ns) \in Nat, NEW k \in Nat, k <= Len(ms), k <= Len(ns),
         \A i \in 1 .. k : ms[i] = ns[i], NEW f, NEW g, Streams(ms, f), Streams(ns, g)
  PROVE  f[k] = g[k]
<1> DEFINE S == {n \in Nat : n <= k => f[n] = g[n]}
<1>1. 0 \in S
  <2>1. 0 \in 0 .. Len(ms) /\ 0 \in 0 .. Len(ns)
    OBVIOUS
  <2>2. f[0] = << >> /\ g[0] = << >>
    BY <2>1 DEF Streams
  <2> QED BY <2>2
<1>2. ASSUME NEW n \in Nat, n \in S PROVE n + 1 \in S
  <2> SUFFICES ASSUME n + 1 <= k PROVE f[n + 1] = g[n + 1]
    OBVIOUS
  <2>1. n + 1 \in 0 .. Len(ms) /\ n + 1 \in 0 .. Len(ns) /\ n + 1 # 0 /\ n + 1 - 1 = n /\ n + 1 \in 1 .. k
    OBVIOUS
  <2>2. f[n + 1] = f[n] \o ms[n + 1].text
    BY <2>1 DEF Streams
  <2>3. g[n + 1] = g[n] \o ns[n + 1].text
    BY <2>1 DEF Streams
  <2>4. f[n] = g[n] /\ ms[n + 1] = ns[n + 1]
    BY <1>2, <2>1
  <2> QED BY <2>2, <2>3, <2>4
<1> HIDE DEF S
<1>3. k \in S
  BY <1>1, <1>2, Induct
<1> QED BY <1>3 DEF S

LEMMA PrefixFacts ==
  ASSUME NEW M, NEW ms \in Seq(M)
  PROVE  /\ Prefix(ms, 0) = << >> /\ Prefix(ms, Len(ms)) = Stream(ms)
         /\ \A n \in 0 .. Len(ms) - 1 : Prefix(ms, n + 1) = Prefix(ms, n) \o ms[n + 1].text
<1> DEFINE N == Len(ms)
           F(s) == CHOOSE f : Streams(s, f)
<1>0. N \in Nat
  OBVIOUS
<1>1. ASSUME NEW s, Len(s) \in Nat PROVE Streams(s, F(s)) /\ Stream(s) = F(s)[Len(s)]
  <2>1. Streams(s, F(s))
    BY <1>1, StreamsExist
  <2>2. Stream(s) = F(s)[Len(s)]
    BY DEF Stream, Streams
  <2> QED BY <2>1, <2>2
<1>2. ASSUME NEW n \in 0 .. N PROVE Prefix(ms, n) = F(ms)[n]
  <2> DEFINE s == SubSeq(ms, 1, n)
  <2>1. Len(s) = n /\ \A i \in 1 .. n : s[i] = ms[i]
    <3>1. s = [i \in 1 .. n |-> ms[i]]
      OBVIOUS
    <3>2. s \in Seq(M) /\ Len(s) = n
      OBVIOUS
    <3> QED BY <3>1, <3>2
  <2>2. n \in Nat /\ n <= N
    BY <1>0
  <2> HIDE DEF s, F
  <2>3. Streams(s, F(s)) /\ Stream(s) = F(s)[n] /\ Streams(ms, F(ms))
    BY <1>0, <1>1, <2>1, <2>2
  <2>4. F(s)[n] = F(ms)[n]
    BY <1>0, <2>1, <2>2, <2>3, StreamsAgree
  <2> QED BY <2>3, <2>4 DEF Prefix, s
<1>3. Streams(ms, F(ms)) /\ Stream(ms) = F(ms)[N]
  BY <1>0, <1>1
<1> HIDE DEF F
<1>4. F(ms)[0] = << >>
  BY <1>0, <1>3 DEF Streams
<1>5. ASSUME NEW n \in 0 .. N - 1 PROVE F(ms)[n + 1] = F(ms)[n] \o ms[n + 1].text
  <2>1. n + 1 \in 0 .. N /\ n + 1 # 0 /\ n + 1 - 1 = n
    BY <1>0
  <2> QED BY <1>3, <2>1 DEF Streams
<1>6. 0 \in 0 .. N /\ N \in 0 .. N /\ \A n \in 0 .. N - 1 : n \in 0 .. N /\ n + 1 \in 0 .. N
  BY <1>0
<1> QED BY <1>2, <1>3, <1>4, <1>5, <1>6

LEMMA ConcatFacts ==
  ASSUME NEW T, NEW x \in Seq(T), NEW y \in Seq(T)
  PROVE  /\ x \o y \in Seq(T) /\ Len(x \o y) = Len(x) + Len(y)
         /\ \A i \in 1 .. Len(x) : (x \o y)[i] = x[i]
         /\ \A i \in 1 .. Len(y) : (x \o y)[Len(x) + i] = y[i]
<1>0. Len(x) \in Nat /\ Len(y) \in Nat
  OBVIOUS
<1>1. x \o y \in Seq(T) /\ Len(x \o y) = Len(x) + Len(y)
  OBVIOUS
<1>2. \A i \in 1 .. Len(x) + Len(y) : (x \o y)[i] = IF i <= Len(x) THEN x[i] ELSE y[i - Len(x)]
  OBVIOUS
<1>3. ASSUME NEW i \in 1 .. Len(x) PROVE (x \o y)[i] = x[i]
  <2>1. i \in 1 .. Len(x) + Len(y) /\ i <= Len(x)
    BY <1>0
  <2> QED BY <1>2, <2>1
<1>4. ASSUME NEW i \in 1 .. Len(y) PROVE (x \o y)[Len(x) + i] = y[i]
  <2> DEFINE k == Len(x) + i
  <2>1. k \in 1 .. Len(x) + Len(y) /\ ~ (k <= Len(x)) /\ k - Len(x) = i
    BY <1>0
  <2> HIDE DEF k
  <2>2. (x \o y)[k] = y[i]
    BY <1>2, <2>1
  <2> QED BY <2>2 DEF k
<1> QED BY <1>1, <1>3, <1>4

LEMMA SameParts ==
  ASSUME NEW T, NEW x \in Seq(T), NEW y \in Seq(T), Len(x) = Len(y), \A i \in 1 .. Len(x) : x[i] = y[i]
  PROVE  x = y
OBVIOUS

(* Neighbouring parts of a sequence make one part.                         *)
LEMMA RunsJoin ==
  ASSUME NEW T, NEW d \in Seq(T), NEW p \in Nat, NEW q \in Nat, NEW r \in Nat, p <= q, q <= r, r <= Len(d)
  PROVE  Run(d, p, q) \o Run(d, q, r) = Run(d, p, r)
<1> DEFINE x == Run(d, p, q)
           y == Run(d, q, r)
           z == Run(d, p, r)
           w == x \o y
<1>0. /\ p \in 0 .. Len(d) /\ q \in p .. Len(d) /\ q \in 0 .. Len(d) /\ r \in q .. Len(d) /\ r \in p .. Len(d)
      /\ q - p \in Nat /\ r - q \in Nat /\ r - p \in Nat
  OBVIOUS
<1>1. x \in Seq(T) /\ Len(x) = q - p /\ \A i \in 1 .. q - p : x[i] = d[p + i]
  BY <1>0, RunShape
<1>2. y \in Seq(T) /\ Len(y) = r - q /\ \A i \in 1 .. r - q : y[i] = d[q + i]
  BY <1>0, RunShape
<1>3. z \in Seq(T) /\ Len(z) = r - p /\ \A i \in 1 .. r - p : z[i] = d[p + i]
  BY <1>0, RunShape
<1> HIDE DEF x, y, z
<1>30. x \in Seq(T) /\ y \in Seq(T)
  BY <1>1, <1>2
<1>4. /\ w \in Seq(T) /\ Len(w) = Len(x) + Len(y)
      /\ \A i \in 1 .. Len(x) : w[i] = x[i]
      /\ \A i \in 1 .. Len(y) : w[Len(x) + i] = y[i]
  BY <1>30, ConcatFacts
<1> HIDE DEF w
<1>5. ASSUME NEW i \in 1 .. r - p PROVE w[i] = z[i]
  <2>1. CASE i <= q - p
    <3>1. i \in 1 .. q - p
      BY <1>0, <2>1
    <3> QED BY <1>1, <1>3, <1>4, <3>1
  <2>2. CASE ~ (i <= q - p)
    <3> DEFINE k == i - (q - p)
    <3>1. k \in 1 .. r - q /\ (q - p) + k = i /\ q + k = p + i
      BY <1>0, <2>2
    <3> HIDE DEF k
    <3>2. w[i] = y[k] /\ y[k] = d[q + k]
      BY <1>1, <1>2, <1>4, <3>1
    <3> QED BY <1>3, <3>1, <3>2
  <2> QED BY <2>1, <2>2
<1>6. Len(w) = r - p
  BY <1>0, <1>1, <1>2, <1>4
<1>7. w = z
  BY <1>3, <1>4, <1>5, <1>6, SameParts
<1> QED BY <1>7 DEF w, x, y, z

(* Where the messages are in the stream.                                   *)
Off(ms, n) == Len(Prefix(ms, n))

LEMMA PrefixTexts ==
  ASSUME NEW T, NEW M, NEW ms \in Seq(M), \A m \in M : m.text \in Seq(T)
  PROVE  \A n \in 0 .. Len(ms) : Prefix(ms, n) \in Seq(T) /\ Off(ms, n) \in Nat
<1> DEFINE E(n) == n <= Len(ms) => Prefix(ms, n) \in Seq(T)
           S == {n \in Nat : E(n)}
<1>0. Len(ms) \in Nat
  OBVIOUS
<1>1. 0 \in S
  <2>1. << >> \in Seq(T)
    OBVIOUS
  <2> QED BY <2>1, PrefixFacts
<1>2. ASSUME NEW n \in Nat, n \in S PROVE n + 1 \in S
  <2> SUFFICES ASSUME n + 1 <= Len(ms) PROVE Prefix(ms, n + 1) \in Seq(T)
    OBVIOUS
  <2>1. n \in 0 .. Len(ms) - 1 /\ n <= Len(ms) /\ n + 1 \in 1 .. Len(ms)
    BY <1>0
  <2>2. Prefix(ms, n + 1) = Prefix(ms, n) \o ms[n + 1].text
    BY <2>1, PrefixFacts
  <2>3. ms[n + 1] \in M /\ ms[n + 1].text \in Seq(T) /\ Prefix(ms, n) \in Seq(T)
    BY <1>2, <2>1
  <2> QED BY <2>2, <2>3, ConcatFacts
<1> HIDE DEF S
<1>3. Nat \subseteq S
  BY <1>1, <1>2, Induct
<1>4. ASSUME NEW n \in 0 .. Len(ms) PROVE Prefix(ms, n) \in Seq(T) /\ Off(ms, n) \in Nat
  <2>1. Prefix(ms, n) \in Seq(T)
    BY <1>3 DEF S
  <2> QED BY <2>1 DEF Off
<1> QED BY <1>4

LEMMA PrefixBegins ==
  ASSUME NEW T, NEW M, NEW ms \in Seq(M), \A m \in M : m.text \in Seq(T), NEW n \in 0 .. Len(ms)
  PROVE  /\ Off(ms, n) <= Len(Stream(ms))
         /\ \A i \in 1 .. Off(ms, n) : Stream(ms)[i] = Prefix(ms, n)[i]
<1> DEFINE W == Stream(ms)
           N == Len(ms)
           B(k) == /\ Off(ms, k) <= Len(W)
                   /\ \A i \in 1 .. Off(ms, k) : W[i] = Prefix(ms, k)[i]
           S == {k \in Nat : k <= N => B(N - k)}
<1>0. N \in Nat
  OBVIOUS
<1>1. 0 \in S
  <2>1. Prefix(ms, N) = W /\ Off(ms, N) \in Nat
    <3>1. N \in 0 .. N
      BY <1>0
    <3> QED BY <3>1, PrefixFacts, PrefixTexts
  <2>2. B(N)
    <3> HIDE DEF W, N
    <3> QED BY <2>1 DEF Off
  <2>3. N - 0 = N
    BY <1>0
  <2> HIDE DEF B
  <2> QED BY <2>2, <2>3
<1>2. ASSUME NEW k \in Nat, k \in S PROVE k + 1 \in S
  <2> SUFFICES ASSUME k + 1 <= N PROVE B(N - (k + 1))
    OBVIOUS
  <2> DEFINE j == N - (k + 1)
             x == Prefix(ms, j)
             y == ms[j + 1].text
  <2>1. j \in 0 .. N - 1 /\ j \in 0 .. N /\ N - k = j + 1 /\ j + 1 \in 1 .. N /\ j + 1 \in 0 .. N /\ k <= N
    BY <1>0
  <2>2. B(j + 1)
    <3>1. B(N - k)
      BY <1>2, <2>1
    <3> HIDE DEF B, j
    <3> QED BY <2>1, <3>1
  <2>3. Prefix(ms, j + 1) = x \o y
    <3> HIDE DEF j
    <3> QED BY <2>1, PrefixFacts
  <2>4. x \in Seq(T) /\ y \in Seq(T)
    <3>1. ms[j + 1] \in M
      <4> HIDE DEF j
      <4> QED BY <2>1
    <3> QED BY <2>1, <3>1, PrefixTexts
  <2>5. Off(ms, j) = Len(x) /\ Off(ms, j + 1) = Len(x \o y)
    BY <2>3 DEF Off
  <2> HIDE DEF x, y, j
  <2>6. Len(x \o y) = Len(x) + Len(y) /\ \A i \in 1 .. Len(x) : (x \o y)[i] = x[i]
    BY <2>4, ConcatFacts
  <2>7. Len(x) \in Nat /\ Len(y) \in Nat
    BY <2>4
  <2>8. W \in Seq(T) /\ Len(W) \in Nat
    <3>1. W = Prefix(ms, N) /\ N \in 0 .. N
      BY <1>0, PrefixFacts
    <3>2. Prefix(ms, N) \in Seq(T)
      BY <3>1, PrefixTexts
    <3> HIDE DEF W
    <3> QED BY <3>1, <3>2
  <2> HIDE DEF W, N
  <2>9. Off(ms, j) <= Len(W)
    BY <2>2, <2>5, <2>6, <2>7, <2>8
  <2>10. ASSUME NEW i \in 1 .. Off(ms, j) PROVE W[i] = Prefix(ms, j)[i]
    <3>1. i \in 1 .. Len(x) /\ i \in 1 .. Off(ms, j + 1)
      BY <2>5, <2>6, <2>7
    <3>2. W[i] = (x \o y)[i]
      BY <2>2, <2>3, <3>1
    <3> QED BY <2>6, <3>1, <3>2 DEF x
  <2>11. B(j)
    BY <2>9, <2>10
  <2> QED BY <2>11 DEF j
<1> HIDE DEF S, B
<1>3. N - n \in Nat /\ N - n <= N /\ N - (N - n) = n
  BY <1>0
<1>4. N - n \in S
  BY <1>1, <1>2, <1>3, Induct
<1>5. B(n)
  BY <1>3, <1>4 DEF S
<1> QED BY <1>5 DEF B

LEMMA StreamParts ==
  ASSUME NEW T, NEW M, NEW ms \in Seq(M), \A m \in M : m.text \in Seq(T), NEW n \in 0 .. Len(ms)
  PROVE  /\ Stream(ms) \in Seq(T) /\ Off(ms, n) \in 0 .. Len(Stream(ms))
         /\ Off(ms, Len(ms)) = Len(Stream(ms)) /\ Off(ms, 0) = 0
         /\ Run(Stream(ms), 0, Off(ms, n)) = Prefix(ms, n)
<1> DEFINE W == Stream(ms)
           N == Len(ms)
           o == Off(ms, n)
           x == Prefix(ms, n)
<1>0. N \in Nat /\ N \in 0 .. N
  OBVIOUS
<1>1. x \in Seq(T) /\ o \in Nat /\ o = Len(x)
  BY PrefixTexts DEF Off
<1>2. W \in Seq(T) /\ Len(W) \in Nat /\ Off(ms, N) = Len(W) /\ Off(ms, 0) = 0
  <2>1. W = Prefix(ms, N) /\ Prefix(ms, 0) = << >>
    BY PrefixFacts
  <2>2. Prefix(ms, N) \in Seq(T)
    BY <1>0, PrefixTexts
  <2> HIDE DEF W, N
  <2> QED BY <2>1, <2>2 DEF Off
<1>3. o <= Len(W) /\ \A i \in 1 .. o : W[i] = x[i]
  BY PrefixBegins
<1> HIDE DEF W, x, o
<1>4. Run(W, 0, o) = x
  <2> DEFINE r == Run(W, 0, o)
  <2>1. 0 \in 0 .. Len(W) /\ o \in 0 .. Len(W) /\ o - 0 = o
    BY <1>1, <1>2, <1>3
  <2>2. r \in Seq(T) /\ Len(r) = o - 0 /\ \A i \in 1 .. o - 0 : r[i] = W[0 + i]
    BY <1>2, <2>1, RunShape
  <2> HIDE DEF r
  <2>3. \A i \in 1 .. o : r[i] = x[i]
    <3>1. \A i \in 1 .. o : 0 + i = i
      BY <1>1
    <3> QED BY <1>3, <2>1, <2>2, <3>1
  <2>4. r = x
    BY <1>1, <2>1, <2>2, <2>3, SameParts
  <2> QED BY <2>4 DEF r
<1> QED BY <1>1, <1>2, <1>3, <1>4 DEF W, x, o

(* The next message is where the stream of the others ends.                *)
LEMMA StreamNext ==
  ASSUME NEW T, NEW M, NEW ms \in Seq(M), \A m \in M : m.text \in Seq(T), NEW n \in 0 .. Len(ms) - 1
  PROVE  /\ Off(ms, n + 1) = Off(ms, n) + Len(ms[n + 1].text)
         /\ Off(ms, n + 1) \in 0 .. Len(Stream(ms))
         /\ \A i \in 0 .. Len(ms[n + 1].text) - 1 :
              At(Stream(ms), Off(ms, n) + i) = At(ms[n + 1].text, i)
<1> DEFINE W == Stream(ms)
           N == Len(ms)
           o == Off(ms, n)
           x == Prefix(ms, n)
<1>0. N \in Nat /\ n \in 0 .. N
  OBVIOUS
<1>1. x \in Seq(T) /\ o \in Nat /\ o = Len(x)
  BY <1>0, PrefixTexts DEF Off
<1>2. W \in Seq(T) /\ Len(W) \in Nat
  <2>1. W \in Seq(T)
    BY <1>0, StreamParts
  <2> HIDE DEF W
  <2> QED BY <2>1
<1> HIDE DEF W, x, o
<1> DEFINE y == ms[n + 1].text
           z == Prefix(ms, n + 1)
           q == Off(ms, n + 1)
<1>11. n + 1 \in 0 .. N /\ n + 1 \in 1 .. N /\ n \in 0 .. N - 1
  BY <1>0
<1>12. y \in Seq(T) /\ Len(y) \in Nat
  <2>1. ms[n + 1] \in M
    BY <1>11
  <2>2. y \in Seq(T)
    BY <2>1
  <2> QED BY <2>2
<1>13. z = x \o y
  BY <1>11, PrefixFacts DEF x
<1>14. q = Len(z)
  BY DEF Off
<1>15. q <= Len(W) /\ \A i \in 1 .. q : W[i] = z[i]
  BY <1>11, PrefixBegins DEF W
<1> HIDE DEF y, z, q
<1>16. Len(x \o y) = Len(x) + Len(y) /\ \A i \in 1 .. Len(y) : (x \o y)[Len(x) + i] = y[i]
  BY <1>1, <1>12, ConcatFacts
<1>17. q = o + Len(y) /\ q \in 0 .. Len(W)
  BY <1>1, <1>2, <1>12, <1>13, <1>14, <1>15, <1>16
<1>18. ASSUME NEW i \in 0 .. Len(y) - 1 PROVE At(W, o + i) = At(y, i)
  <2> DEFINE k == i + 1
  <2>1. k \in 1 .. Len(y) /\ o + k \in 1 .. q /\ o + i + 1 = o + k /\ o + i < Len(W) /\ i < Len(y)
    BY <1>1, <1>2, <1>12, <1>15, <1>17
  <2>2. At(W, o + i) = W[o + i + 1] /\ At(y, i) = y[i + 1]
    BY <2>1 DEF At
  <2>20. At(W, o + i) = W[o + k] /\ At(y, i) = y[k]
    BY <2>1, <2>2
  <2> HIDE DEF k
  <2>3. W[o + k] = z[o + k]
    BY <1>15, <2>1
  <2>4. z[o + k] = y[k]
    BY <1>1, <1>13, <1>16, <2>1
  <2> QED BY <2>20, <2>3, <2>4
<1> QED BY <1>17, <1>18 DEF y, q, W, o

-----------------------------------------------------------------------------
(* What has been read of a stream.                                         *)
Begins(v, w) == Len(v) <= Len(w) /\ \A i \in 1 .. Len(v) : v[i] = w[i]

LEMMA TextsKnown ==
  ASSUME KnownKinds
  PROVE  \A m \in Sendable : m.text \in Seq(Tokens)
BY DEF KnownKinds, Texts

(* The data at the place of a message agrees with its text.                *)
LEMMA DataAgrees ==
  ASSUME KnownKinds, NEW ms \in Seq(Sendable), NEW v \in Seq(Tokens), Begins(v, Stream(ms)),
         NEW k \in 0 .. Len(ms) - 1, Off(ms, k) <= Len(v)
  PROVE  Agree(Run(v, Off(ms, k), Len(v)), ms[k + 1].text)
<1> DEFINE w == Stream(ms)
           o == Off(ms, k)
           d == Run(v, o, Len(v))
           t == ms[k + 1].text
<1>1. /\ w \in Seq(Tokens) /\ o \in 0 .. Len(w)
      /\ \A i \in 0 .. Len(t) - 1 : At(w, o + i) = At(t, i)
  <2>1. k \in 0 .. Len(ms) /\ k < Len(ms)
    OBVIOUS
  <2>2. \A m \in Sendable : m.text \in Seq(Tokens)
    BY TextsKnown
  <2>3. Stream(ms) \in Seq(Tokens) /\ Off(ms, k) \in 0 .. Len(Stream(ms))
    BY <2>1, <2>2, StreamParts
  <2>4. \A i \in 0 .. Len(ms[k + 1].text) - 1 :
          At(Stream(ms), Off(ms, k) + i) = At(ms[k + 1].text, i)
    BY <2>1, <2>2, StreamNext
  <2> QED BY <2>3, <2>4
<1>2. Len(v) \in Nat /\ Len(w) \in Nat /\ o \in 0 .. Len(v) /\ Len(v) \in o .. Len(v)
  <2> HIDE DEF w, o
  <2>1. o <= Len(v)
    BY DEF o
  <2> QED BY <1>1, <2>1
<1> HIDE DEF w, o
<1>3. Len(d) = Len(v) - o
  BY <1>2, RunShape
<1>4. ASSUME NEW i \in 0 .. Len(t) - 1, i < Len(d) PROVE At(d, i) = At(t, i)
  <2>1. i \in Nat /\ o + i < Len(v) /\ o + i < Len(w) /\ o + i + 1 \in 1 .. Len(v)
    <3>1. Len(v) <= Len(w)
      BY DEF Begins, w
    <3>2. i \in Nat
      <4> HIDE DEF t
      <4> QED OBVIOUS
    <3> QED BY <1>2, <1>3, <1>4, <3>1, <3>2
  <2>2. At(d, i) = At(v, o + i)
    BY <1>2, <2>1, AtTail
  <2>3. At(v, o + i) = At(w, o + i)
    BY <2>1 DEF At, Begins, w
  <2> QED BY <1>1, <2>2, <2>3
<1> QED BY <1>4 DEF Agree, o

(* What the loop makes of message i, when it makes something of it.        *)
Right(ms, i, r) ==
  /\ Same(ms[i], r) /\ Whole(ms[i])
  /\ ms[i].method = GET \/ i = Len(ms) => r.queries = PairsOf(ms[i], ms[i].text)

(* Data as long as a text with which they agree are this text.             *)
LEMMA AgreeWhole ==
  ASSUME NEW T, NEW d \in Seq(T), NEW t \in Seq(T), Agree(d, t), Len(d) = Len(t)
  PROVE  d = t
<1>1. Len(d) \in Nat /\ Len(t) = Len(d)
  OBVIOUS
<1>2. ASSUME NEW i \in 1 .. Len(d) PROVE d[i] = t[i]
  <2> DEFINE j == i - 1
  <2>1. j \in 0 .. Len(t) - 1 /\ j < Len(d) /\ j < Len(t) /\ j + 1 = i /\ j >= 0
    BY <1>1
  <2> HIDE DEF j
  <2>2. At(d, j) = At(t, j)
    BY <2>1 DEF Agree
  <2>3. d[j + 1] = t[j + 1]
    BY <2>1, <2>2 DEF At
  <2> QED BY <2>1, <2>3
<1> QED BY <1>1, <1>2, SameParts

(* The data at the place of the last message are no longer than its text.  *)
LEMMA LastData ==
  ASSUME KnownKinds, NEW ms \in Seq(Sendable), NEW v \in Seq(Tokens), Begins(v, Stream(ms)),
         NEW k \in 0 .. Len(ms) - 1, Off(ms, k) <= Len(v), k + 1 = Len(ms)
  PROVE  Len(Run(v, Off(ms, k), Len(v))) <= Len(ms[k + 1].text)
<1> DEFINE o == Off(ms, k)
           L == Len(Stream(ms))
<1>0. \A m \in Sendable : m.text \in Seq(Tokens)
  BY TextsKnown
<1>1. Len(ms) \in Nat /\ k \in 0 .. Len(ms) /\ Len(ms) \in 0 .. Len(ms) /\ k + 1 \in 1 .. Len(ms)
  OBVIOUS
<1>2. o \in Nat /\ Len(v) \in Nat /\ Len(v) <= L
  BY <1>0, <1>1, PrefixTexts DEF Begins
<1>3. Off(ms, Len(ms)) = L
  BY <1>0, <1>1, StreamParts
<1>4. Off(ms, k + 1) = o + Len(ms[k + 1].text)
  BY <1>0, StreamNext
<1>5. Len(ms[k + 1].text) \in Nat
  <2>1. ms[k + 1] \in Sendable
    BY <1>1
  <2>2. ms[k + 1].text \in Seq(Tokens)
    BY <1>0, <2>1
  <2> QED BY <2>2
<1>6. o <= Len(v)
  OBVIOUS
<1> HIDE DEF o
<1>7. o \in 0 .. Len(v) /\ Len(v) \in o .. Len(v)
  BY <1>2, <1>6
<1>8. Len(Run(v, o, Len(v))) = Len(v) - o
  BY <1>7, RunShape
<1>9. L = o + Len(ms[k + 1].text)
  BY <1>3, <1>4
<1> HIDE DEF L
<1>10. Len(v) - o <= Len(ms[k + 1].text)
  BY <1>2, <1>5, <1>9
<1> QED BY <1>8, <1>10 DEF o

LEMMA UnfinishedUnnamed ==
  ASSUME NEW m, Unfinished(m)
  PROVE  ~ NamesProtocol(m)
BY DEF Unfinished, NamesProtocol

LEMMA MessageTaken ==
  ASSUME KnownKinds, NEW ms \in Seq(Sendable), NEW v \in Seq(Tokens), Begins(v, Stream(ms)),
         NEW k \in 0 .. Len(ms) - 1, Off(ms, k) <= Len(v)
  PROVE  LET d == Run(v, Off(ms, k), Len(v))
             m == ms[k + 1]
             r == Deserialize(d)
         IN  /\ r.res = "done" /\ NamesProtocol(m) =>
                  Acceptable(m) /\ r.eof = Len(m.text) /\ Right(ms, k + 1, r)
             /\ r.res = "throws" => ~ Acceptable(m)
             /\ r.res = "hangs" => Blamed(m)
             /\ r.res = "incomplete" /\ Acceptable(m) => Len(d) < Len(m.text)
<1> DEFINE d == Run(v, Off(ms, k), Len(v))
           m == ms[k + 1]
           r == Deserialize(d)
<1>1. m \in Sendable
  <2>1. k + 1 \in 1 .. Len(ms)
    OBVIOUS
  <2> QED BY <2>1
<1>2. Agree(d, m.text)
  BY DataAgrees
<1>3. d \in Seq(Tokens)
  <2>1. Off(ms, k) \in Nat
    <3>1. k \in 0 .. Len(ms)
      OBVIOUS
    <3> QED BY <3>1, TextsKnown, PrefixTexts
  <2>2. Off(ms, k) \in 0 .. Len(v) /\ Len(v) \in Off(ms, k) .. Len(v)
    BY <2>1
  <2> QED BY <2>2, RunShape
<1> HIDE DEF d, m
<1>4. m.text \in Seq(Tokens) /\ (Whole(m) \/ Headerless(m) \/ Strange(m) \/ Unfinished(m))
  BY <1>1 DEF KnownKinds, Texts
<1>5. Len(d) \in Nat /\ Len(m.text) \in Nat
  BY <1>3, <1>4
<1>6. /\ Whole(m) => Acceptable(m)
      /\ Headerless(m) => Blamed(m)
      /\ Strange(m) => ~ Acceptable(m)
      /\ Unfinished(m) => ~ Acceptable(m) /\ ~ NamesProtocol(m) /\ Blamed(m)
  BY <1>4, KindsAccepted, UnfinishedUnnamed
<1>7. CASE Whole(m)
  <2>1. /\ Len(d) >= Len(m.text) => r.res = "done"
        /\ r.res = "incomplete" \/ (r.res = "done" /\ r.eof = Len(m.text) /\ Same(m, r))
    BY <1>2, <1>3, <1>4, <1>7, WholeFound
  <2>2. r.res = "done" => /\ r.queries = PairsOf(m, d)
                          /\ m.method = GET \/ Len(d) >= Len(m.text)
    BY <1>2, <1>3, <1>4, <1>7, WholeFound
  <2>3. ASSUME r.res = "done", m.method = GET \/ k + 1 = Len(ms)
        PROVE  r.queries = PairsOf(m, m.text)
    <3>1. CASE m.method = GET
      BY <2>2, <2>3, <3>1 DEF PairsOf
    <3>2. CASE m.method # GET
      <4>1. Len(d) <= Len(m.text)
        BY <2>3, <3>2, LastData DEF d, m
      <4>2. Len(d) = Len(m.text)
        BY <1>5, <2>2, <2>3, <3>2, <4>1
      <4>3. d = m.text
        BY <1>2, <1>3, <1>4, <4>2, AgreeWhole
      <4> QED BY <2>2, <2>3, <4>3
    <3> QED BY <3>1, <3>2
  <2>4. r.res = "done" => Right(ms, k + 1, r)
    BY <1>7, <2>1, <2>3 DEF Right, m
  <2> QED BY <1>5, <1>6, <1>7, <2>1, <2>4 DEF d, m
<1>8. CASE Headerless(m)
  <2>1. r.res = "hangs" \/ (r.res = "incomplete" /\ Len(d) < Len(m.text))
    BY <1>2, <1>3, <1>4, <1>8, HeaderlessFound
  <2> QED BY <1>6, <1>8, <2>1 DEF d, m
<1>9. CASE Strange(m)
  <2>1. r.res \in {"incomplete", "throws"}
    BY <1>2, <1>3, <1>4, <1>9, StrangeFound
  <2> QED BY <1>6, <1>9, <2>1 DEF d, m
<1>10. CASE Unfinished(m)
  BY <1>6, <1>10 DEF d, m
<1> QED BY <1>4, <1>7, <1>8, <1>9, <1>10

(* The loop over what has been read, from the place of message k + 1 on.   *)
StreamTaken(ms, v, k, t) ==
  LET n == Len(t.messages)
  IN  (\A i \in 1 .. n : k + i <= Len(ms) => NamesProtocol(ms[k + i])) =>
        /\ k + n <= Len(ms)
        /\ \A i \in 1 .. n : Right(ms, k + i, t.messages[i]) /\ Acceptable(ms[k + i])
        /\ t.res \notin {"repeats", "erase_threw"} =>
             Off(ms, k + n) <= Len(v) /\ t.rest = Run(v, Off(ms, k + n), Len(v))
        /\ t.res = "throws" => k + n < Len(ms) /\ ~ Acceptable(ms[k + n + 1])
        /\ t.res = "hangs" => k + n < Len(ms) /\ Blamed(ms[k + n + 1])
        /\ t.res = "incomplete" /\ k + n < Len(ms) /\ Acceptable(ms[k + n + 1])
             => Len(t.rest) < Len(ms[k + n + 1].text)

LEMMA AcceptableNames ==
  ASSUME NEW m, Acceptable(m)
  PROVE  NamesProtocol(m)
BY TokensDiffer DEF Acceptable, NamesProtocol

LEMMA StreamRound ==
  ASSUME KnownKinds, NEW ms \in Seq(Sendable), NEW v \in Seq(Tokens), Begins(v, Stream(ms)),
         NEW o \in 0 .. Len(v), NEW k \in 0 .. Len(ms), o <= Off(ms, k), Off(ms, k) <= Len(v), NEW x,
         k < Len(ms) /\ Off(ms, k + 1) <= Len(v)
           /\ NextRound(Run(v, o, Len(v)), Off(ms, k) - o) = Off(ms, k + 1) - o
           => StreamTaken(ms, v, k + 1, x),
         NextRound(Run(v, o, Len(v)), Off(ms, k) - o) \in 0 .. Len(v) - o => x.messages \in Seq(Parsed(Tokens))
  PROVE  StreamTaken(ms, v, k, Take(Run(v, o, Len(v)), Off(ms, k) - o, x))
<1> DEFINE N == Len(ms)
           q == Off(ms, k)
           p == q - o
           b == Run(v, o, Len(v))
           d == Run(v, q, Len(v))
           r == Deserialize(d)
           t == Take(b, p, x)
<1>0. \A m \in Sendable : m.text \in Seq(Tokens)
  BY TextsKnown
<1>1. N \in Nat /\ q \in Nat /\ Len(v) \in Nat
  BY <1>0, PrefixTexts
<1>2. q \in 0 .. Len(v) /\ Len(v) \in q .. Len(v) /\ p \in 0 .. Len(v) - o /\ o + p = q /\ Len(v) \in o .. Len(v)
  <2> HIDE DEF q
  <2>1. o <= q /\ q <= Len(v)
    BY DEF q
  <2> QED BY <1>1, <2>1
<1>3. d \in Seq(Tokens) /\ Len(d) = Len(v) - q /\ b \in Seq(Tokens) /\ Len(b) = Len(v) - o
  <2> HIDE DEF q
  <2> QED BY <1>2, RunShape
<1>4. Run(b, p, Len(b)) = d
  <2> HIDE DEF q, p
  <2> QED BY <1>2, TailTail
<1> HIDE DEF d, b, q, p
<1>5. t = IF r.res # "done" THEN [messages |-> << >>, rest |-> d, res |-> r.res]
          ELSE IF r.eof = 0 THEN [messages |-> <<r>>, rest |-> d, res |-> "repeats"]
          ELSE IF p + r.eof > Len(b) THEN [messages |-> <<r>>, rest |-> d, res |-> "erase_threw"]
          ELSE [messages |-> <<r>> \o x.messages, rest |-> x.rest, res |-> x.res]
  BY <1>4 DEF Take
<1>6. NextRound(b, p) = p + r.eof
  BY <1>4 DEF NextRound
<1>7. /\ r.res \in {"incomplete", "throws", "hangs", "done"}
      /\ r.res = "done" => r.eof \in Nat
  BY <1>3, DeserializeAnswers
<1>8. k < N => /\ r.res = "done" /\ NamesProtocol(ms[k + 1]) =>
                    Acceptable(ms[k + 1]) /\ r.eof = Len(ms[k + 1].text) /\ Right(ms, k + 1, r)
               /\ r.res = "throws" => ~ Acceptable(ms[k + 1])
               /\ r.res = "hangs" => Blamed(ms[k + 1])
               /\ r.res = "incomplete" /\ Acceptable(ms[k + 1]) => Len(d) < Len(ms[k + 1].text)
  <2> SUFFICES ASSUME k < N
               PROVE  /\ r.res = "done" /\ NamesProtocol(ms[k + 1]) =>
                           Acceptable(ms[k + 1]) /\ r.eof = Len(ms[k + 1].text) /\ Right(ms, k + 1, r)
                      /\ r.res = "throws" => ~ Acceptable(ms[k + 1])
                      /\ r.res = "hangs" => Blamed(ms[k + 1])
                      /\ r.res = "incomplete" /\ Acceptable(ms[k + 1]) => Len(d) < Len(ms[k + 1].text)
    OBVIOUS
  <2>1. k \in 0 .. Len(ms) - 1 /\ Off(ms, k) <= Len(v)
    BY <1>1
  <2> QED BY <2>1, MessageTaken DEF d, q
<1>9. k = N => r.res = "incomplete"
  <2> SUFFICES ASSUME k = N PROVE r.res = "incomplete"
    OBVIOUS
  <2>1. Off(ms, N) = Len(Stream(ms))
    <3>1. N \in 0 .. N
      BY <1>1
    <3> QED BY <1>0, <3>1, StreamParts
  <2>2. Len(d) = 0
    BY <1>1, <1>2, <1>3, <2>1 DEF Begins, q
  <2>3. At(d, 0) = NUL
    BY <2>2 DEF At
  <2> QED BY <2>3 DEF Deserialize
<1>10. r \in Parsed(Tokens)
  BY <1>3 DEF Parsed
<1> HIDE DEF r
<1>11. CASE r.res # "done"
  <2>1. t = [messages |-> << >>, rest |-> d, res |-> r.res]
    BY <1>5, <1>11
  <2> HIDE DEF t
  <2>2. t.messages = << >> /\ t.rest = d /\ t.res = r.res
    BY <2>1
  <2>3. Len(t.messages) = 0 /\ k + 0 = k /\ k <= N /\ (k < N \/ k = N) /\ \A i \in 1 .. 0 : FALSE
    BY <1>1, <2>2
  <2>4. t.rest = Run(v, Off(ms, k), Len(v)) /\ Off(ms, k) <= Len(v)
    BY <2>2 DEF d, q
  <2> QED BY <1>7, <1>8, <1>9, <1>11, <2>2, <2>3, <2>4 DEF StreamTaken, t, b, p, q
<1>12. ASSUME r.res = "done" PROVE k < N
  BY <1>1, <1>9, <1>12
<1>13. CASE r.res = "done" /\ (r.eof = 0 \/ p + r.eof > Len(b))
  <2>1. \/ t = [messages |-> <<r>>, rest |-> d, res |-> "repeats"]
        \/ t = [messages |-> <<r>>, rest |-> d, res |-> "erase_threw"]
    BY <1>5, <1>13
  <2> HIDE DEF t
  <2>2. Len(t.messages) = 1 /\ t.messages[1] = r /\ t.res \in {"repeats", "erase_threw"}
    BY <2>1
  <2>3. k < N /\ k + 1 <= N /\ \A i \in 1 .. 1 : i = 1
    BY <1>1, <1>12, <1>13
  <2>4. 1 \in 1 .. 1
    OBVIOUS
  <2> SUFFICES ASSUME \A i \in 1 .. 1 : k + i <= N => NamesProtocol(ms[k + i])
               PROVE  Right(ms, k + 1, r) /\ Acceptable(ms[k + 1])
    BY <2>2, <2>3 DEF StreamTaken, t, b, p, q
  <2>5. NamesProtocol(ms[k + 1])
    BY <2>3, <2>4
  <2> QED BY <1>8, <1>13, <2>3, <2>5
<1>14. CASE r.res = "done" /\ ~ (r.eof = 0 \/ p + r.eof > Len(b))
  <2> DEFINE s == x.messages
             n == Len(s)
             u == <<r>> \o s
  <2>1. t = [messages |-> u, rest |-> x.rest, res |-> x.res]
    BY <1>5, <1>14
  <2> HIDE DEF t, u
  <2>2. t.messages = u /\ t.rest = x.rest /\ t.res = x.res
    BY <2>1
  <2>3. k < N /\ k + 1 <= N
    BY <1>1, <1>12, <1>14
  <2>4. s \in Seq(Parsed(Tokens))
    <3>1. p + r.eof \in 0 .. Len(v) - o
      BY <1>1, <1>2, <1>3, <1>7, <1>14
    <3> QED BY <1>6, <3>1 DEF b, p, q
  <2>5. /\ u \in Seq(Parsed(Tokens)) /\ Len(u) = n + 1 /\ u[1] = r
        /\ \A i \in 1 .. n : u[i + 1] = s[i]
    BY <1>10, <2>4, PrependFacts DEF u
  <2>6. n \in Nat
    BY <2>4
  <2> HIDE DEF s, n
  <2>7. SUFFICES ASSUME \A i \in 1 .. n + 1 : k + i <= N => NamesProtocol(ms[k + i])
                 PROVE  /\ k + (n + 1) <= N
                        /\ \A i \in 1 .. n + 1 : Right(ms, k + i, u[i]) /\ Acceptable(ms[k + i])
                        /\ x.res \notin {"repeats", "erase_threw"} =>
                             /\ Off(ms, k + (n + 1)) <= Len(v)
                             /\ x.rest = Run(v, Off(ms, k + (n + 1)), Len(v))
                        /\ x.res = "throws" => k + (n + 1) < N /\ ~ Acceptable(ms[k + (n + 1) + 1])
                        /\ x.res = "hangs" => k + (n + 1) < N /\ Blamed(ms[k + (n + 1) + 1])
                        /\ x.res = "incomplete" /\ k + (n + 1) < N /\ Acceptable(ms[k + (n + 1) + 1])
                             => Len(x.rest) < Len(ms[k + (n + 1) + 1].text)
    BY <2>2, <2>5 DEF StreamTaken, t, b, p, q
  <2>8. NamesProtocol(ms[k + 1])
    <3>1. 1 \in 1 .. n + 1
      BY <2>6
    <3> QED BY <2>3, <2>7, <3>1
  <2>9. Right(ms, k + 1, r) /\ Acceptable(ms[k + 1]) /\ r.eof = Len(ms[k + 1].text)
    BY <1>8, <1>14, <2>3, <2>8
  <2>10. StreamTaken(ms, v, k + 1, x)
    <3>1. Off(ms, k + 1) = q + r.eof
      <4>1. k \in 0 .. Len(ms) - 1
        BY <1>1, <2>3
      <4>2. Off(ms, k + 1) = Off(ms, k) + Len(ms[k + 1].text)
        BY <1>0, <4>1, StreamNext
      <4> QED BY <2>9, <4>2 DEF q
    <3>2. r.eof \in Nat
      BY <1>7, <1>14
    <3>3. p \in Nat /\ p + r.eof <= Len(v) - o /\ o \in Nat
      BY <1>1, <1>2, <1>3, <1>14, <3>2
    <3>4. Off(ms, k + 1) - o = p + r.eof /\ Off(ms, k + 1) <= Len(v)
      BY <1>1, <1>2, <3>1, <3>2, <3>3
    <3> QED BY <1>6, <2>3, <3>4 DEF b, p, q
  <2> DEFINE j == k + 1
  <2>11. /\ j \in Nat /\ k + (n + 1) = j + n
         /\ \A i \in 1 .. n : i + 1 \in 1 .. n + 1 /\ k + (i + 1) = j + i
         /\ \A i \in 1 .. n + 1 : i # 1 => i - 1 \in 1 .. n /\ j + (i - 1) = k + i /\ i = (i - 1) + 1
    BY <2>6
  <2>12. \A i \in 1 .. n : j + i <= N => NamesProtocol(ms[j + i])
    <3> TAKE i \in 1 .. n
    <3>1. i + 1 \in 1 .. n + 1 /\ k + (i + 1) = j + i
      BY <2>11
    <3> HIDE DEF j
    <3>2. k + (i + 1) <= N => NamesProtocol(ms[k + (i + 1)])
      BY <2>7, <3>1
    <3> QED BY <3>1, <3>2
  <2> HIDE DEF j
  <2>13. /\ j + n <= N
         /\ \A i \in 1 .. n : Right(ms, j + i, s[i]) /\ Acceptable(ms[j + i])
         /\ x.res \notin {"repeats", "erase_threw"} => Off(ms, j + n) <= Len(v) /\ x.rest = Run(v, Off(ms, j + n), Len(v))
         /\ x.res = "throws" => j + n < N /\ ~ Acceptable(ms[j + n + 1])
         /\ x.res = "hangs" => j + n < N /\ Blamed(ms[j + n + 1])
         /\ x.res = "incomplete" /\ j + n < N /\ Acceptable(ms[j + n + 1])
              => Len(x.rest) < Len(ms[j + n + 1].text)
    BY <2>10, <2>12 DEF StreamTaken, j, s, n
  <2>14. ASSUME NEW i \in 1 .. n + 1 PROVE Right(ms, k + i, u[i]) /\ Acceptable(ms[k + i])
    <3>1. CASE i = 1
      BY <2>5, <2>9, <3>1
    <3>2. CASE i # 1
      <4> DEFINE h == i - 1
      <4>1. h \in 1 .. n /\ j + h = k + i /\ i = h + 1
        BY <2>11, <3>2
      <4> HIDE DEF h
      <4>2. Right(ms, j + h, s[h]) /\ Acceptable(ms[j + h]) /\ u[h + 1] = s[h]
        BY <2>5, <2>13, <4>1
      <4> QED BY <4>1, <4>2
    <3> QED BY <3>1, <3>2
  <2> QED BY <2>11, <2>13, <2>14
<1> QED BY <1>11, <1>13, <1>14

LEMMA TakenStream ==
  ASSUME KnownKinds, NEW ms \in Seq(Sendable), NEW v \in Seq(Tokens), Begins(v, Stream(ms)),
         NEW n \in 0 .. Len(ms), Off(ms, n) <= Len(v)
  PROVE  StreamTaken(ms, v, n, Taken(Run(v, Off(ms, n), Len(v))))
<1> DEFINE N == Len(ms)
           o == Off(ms, n)
           b == Run(v, o, Len(v))
           P(k) == o <= Off(ms, k) /\ Off(ms, k) <= Len(v)
                     => StreamTaken(ms, v, k, TakenFrom(b)[Off(ms, k) - o])
           S == {k \in Nat : k <= N => P(N - k)}
<1>0. \A m \in Sendable : m.text \in Seq(Tokens)
  BY TextsKnown
<1>1. N \in Nat /\ o \in Nat /\ Len(v) \in Nat
  BY <1>0, PrefixTexts
<1>2. o \in 0 .. Len(v) /\ Len(v) \in o .. Len(v) /\ o <= Len(v)
  <2>1. o <= Len(v)
    OBVIOUS
  <2> HIDE DEF o
  <2> QED BY <1>1, <2>1
<1> HIDE DEF o
<1>3. b \in Seq(Tokens) /\ Len(b) = Len(v) - o
  BY <1>2, RunShape
<1>4. ASSUME NEW k \in 0 .. N, k < N => P(k + 1) PROVE P(k)
  <2> SUFFICES ASSUME o <= Off(ms, k), Off(ms, k) <= Len(v)
               PROVE  StreamTaken(ms, v, k, TakenFrom(b)[Off(ms, k) - o])
    OBVIOUS
  <2> DEFINE p == Off(ms, k) - o
             z == NextRound(b, p)
             x == TakenFrom(b)[z]
  <2>1. Off(ms, k) \in Nat
    BY <1>0, PrefixTexts
  <2>2. p \in 0 .. Len(b)
    BY <1>1, <1>2, <1>3, <2>1
  <2>3. TakenFrom(b)[p] = Take(b, p, x)
    <3> HIDE DEF p, b
    <3> QED BY <1>3, <2>2, TakenTakes
  <2>4. ASSUME k < N, Off(ms, k + 1) <= Len(v), z = Off(ms, k + 1) - o
        PROVE  StreamTaken(ms, v, k + 1, x)
    <3>1. Off(ms, k + 1) = Off(ms, k) + Len(ms[k + 1].text) /\ Len(ms[k + 1].text) \in Nat
      <4>1. k \in 0 .. Len(ms) - 1 /\ k + 1 \in 1 .. Len(ms)
        BY <1>1, <2>4
      <4>2. ms[k + 1] \in Sendable
        BY <4>1
      <4>3. ms[k + 1].text \in Seq(Tokens)
        BY <1>0, <4>2
      <4>4. Len(ms[k + 1].text) \in Nat
        BY <4>3
      <4> QED BY <1>0, <4>1, <4>4, StreamNext
    <3>2. o <= Off(ms, k + 1)
      BY <1>1, <2>1, <3>1
    <3>3. StreamTaken(ms, v, k + 1, TakenFrom(b)[Off(ms, k + 1) - o])
      BY <1>4, <2>4, <3>2
    <3> QED BY <2>4, <3>3
  <2>5. z \in 0 .. Len(v) - o => x.messages \in Seq(Parsed(Tokens))
    <3> SUFFICES ASSUME z \in 0 .. Len(v) - o PROVE x.messages \in Seq(Parsed(Tokens))
      OBVIOUS
    <3> HIDE DEF z, b
    <3>1. z \in 0 .. Len(b)
      BY <1>3
    <3> QED BY <1>3, <3>1, TakenAlways DEF TakenOk
  <2> HIDE DEF x
  <2>6. StreamTaken(ms, v, k, Take(b, p, x))
    BY <1>2, <2>4, <2>5, StreamRound
  <2> QED BY <2>3, <2>6 DEF x
<1> HIDE DEF P
<1>5. 0 \in S
  <2>1. N \in 0 .. N /\ ~ (N < N) /\ N - 0 = N
    BY <1>1
  <2>2. P(N)
    BY <1>4, <2>1
  <2> QED BY <2>1, <2>2
<1>6. ASSUME NEW k \in Nat, k \in S PROVE k + 1 \in S
  <2> SUFFICES ASSUME k + 1 <= N PROVE P(N - (k + 1))
    OBVIOUS
  <2> DEFINE j == N - (k + 1)
  <2>1. j \in 0 .. N /\ j + 1 = N - k /\ k <= N
    BY <1>1
  <2> HIDE DEF j
  <2>2. P(j + 1)
    BY <1>6, <2>1
  <2>3. P(j)
    BY <1>4, <2>1, <2>2
  <2> QED BY <2>3 DEF j
<1> HIDE DEF S
<1>7. N - n \in Nat /\ N - n <= N /\ N - (N - n) = n
  BY <1>1
<1>8. N - n \in S
  BY <1>5, <1>6, <1>7, Induct
<1>9. P(n)
  BY <1>7, <1>8 DEF S
<1>10. StreamTaken(ms, v, n, TakenFrom(b)[Off(ms, n) - o])
  BY <1>1, <1>2, <1>9 DEF P, o
<1>11. Off(ms, n) - o = 0
  BY <1>1 DEF o
<1> QED BY <1>10, <1>11 DEF Taken, o

(* A part of a part.                                                       *)
LEMMA RunRun ==
  ASSUME NEW T, NEW d \in Seq(T), NEW p \in Nat, NEW q \in Nat, p <= q, q <= Len(d),
         NEW i \in Nat, NEW j \in Nat, i <= j, j <= q - p
  PROVE  Run(Run(d, p, q), i, j) = Run(d, p + i, p + j)
<1> DEFINE r == Run(d, p, q)
           x == Run(r, i, j)
           a == p + i
           c == p + j
           y == Run(d, a, c)
<1>0. p \in 0 .. Len(d) /\ q \in p .. Len(d) /\ a \in 0 .. Len(d) /\ c \in a .. Len(d) /\ c - a = j - i
      /\ i \in 0 .. q - p /\ j \in i .. q - p
  OBVIOUS
<1>1. r \in Seq(T) /\ Len(r) = q - p /\ \A k \in 1 .. q - p : r[k] = d[p + k]
  BY <1>0, RunShape
<1> HIDE DEF r, a, c
<1>2. x \in Seq(T) /\ Len(x) = j - i /\ \A k \in 1 .. j - i : x[k] = r[i + k]
  <2>1. r \in Seq(T) /\ i \in 0 .. Len(r) /\ j \in i .. Len(r)
    BY <1>0, <1>1
  <2> QED BY <2>1, RunShape
<1>3. y \in Seq(T) /\ Len(y) = c - a /\ \A k \in 1 .. c - a : y[k] = d[a + k]
  BY <1>0, RunShape
<1> HIDE DEF x, y
<1>4. ASSUME NEW k \in 1 .. j - i PROVE x[k] = y[k]
  <2>1. i + k \in 1 .. q - p /\ p + (i + k) = a + k /\ k \in 1 .. c - a
    BY <1>0 DEF a, c
  <2> QED BY <1>1, <1>2, <1>3, <2>1
<1>5. Len(x) = Len(y) /\ \A k \in 1 .. Len(x) : x[k] = y[k]
  BY <1>0, <1>2, <1>3, <1>4
<1>6. x = y
  BY <1>2, <1>3, <1>5, SameParts
<1> QED BY <1>6 DEF x, y, r, a, c

LEMMA RunWhole ==
  ASSUME NEW T, NEW d \in Seq(T)
  PROVE  Run(d, 0, Len(d)) = d
<1> DEFINE n == Len(d)
           r == Run(d, 0, n)
<1>0. n \in Nat /\ 0 \in 0 .. n /\ n \in 0 .. n /\ n - 0 = n
  OBVIOUS
<1>1. r \in Seq(T) /\ Len(r) = n - 0 /\ \A i \in 1 .. n - 0 : r[i] = d[0 + i]
  BY <1>0, RunShape
<1> HIDE DEF r
<1>2. Len(r) = Len(d) /\ \A i \in 1 .. Len(r) : r[i] = d[i]
  <2>1. \A i \in 1 .. n : 0 + i = i
    BY <1>0
  <2> QED BY <1>0, <1>1, <2>1
<1>3. r = d
  BY <1>1, <1>2, SameParts
<1> QED BY <1>3 DEF r

LEMMA RunTypes ==
  ASSUME NEW T, NEW d \in Seq(T), NEW p \in Nat, NEW q \in Nat, p <= q, q <= Len(d)
  PROVE  Run(d, p, q) \in Seq(T) /\ Len(Run(d, p, q)) = q - p
<1>1. p \in 0 .. Len(d) /\ q \in p .. Len(d)
  OBVIOUS
<1> QED BY <1>1, RunShape

(* The loop over what the buffer holds when message n + 1 is the next and  *)
(* the first r tokens of the stream have been read.                        *)
LEMMA TakenNow ==
  ASSUME KnownKinds, NEW ms \in Seq(Sendable), NEW n \in 0 .. Len(ms), NEW r \in Nat,
         Off(ms, n) <= r, r <= Len(Stream(ms))
  PROVE  StreamTaken(ms, Run(Stream(ms), 0, r), n, Taken(Run(Stream(ms), Off(ms, n), r)))
<1> DEFINE w == Stream(ms)
           o == Off(ms, n)
           v == Run(w, 0, r)
<1>0. w \in Seq(Tokens) /\ o \in Nat /\ Len(w) \in Nat
  <2>1. \A m \in Sendable : m.text \in Seq(Tokens)
    BY TextsKnown
  <2>2. w \in Seq(Tokens) /\ o \in 0 .. Len(w)
    BY <2>1, StreamParts
  <2> HIDE DEF w, o
  <2> QED BY <2>2
<1>1. o <= r /\ r <= Len(w)
  OBVIOUS
<1> HIDE DEF w, o
<1>2. v \in Seq(Tokens) /\ Len(v) = r
  <2>1. 0 \in 0 .. Len(w) /\ r \in 0 .. Len(w) /\ r - 0 = r
    BY <1>0, <1>1
  <2>2. v \in Seq(Tokens) /\ Len(v) = r - 0
    BY <1>0, <2>1, RunShape
  <2> QED BY <2>1, <2>2
<1>3. Begins(v, w)
  <2>1. 0 \in 0 .. Len(w) /\ r \in 0 .. Len(w) /\ r - 0 = r /\ \A i \in 1 .. r : 0 + i = i
    BY <1>0, <1>1
  <2>2. \A i \in 1 .. r - 0 : v[i] = w[0 + i]
    BY <1>0, <2>1, RunShape
  <2> HIDE DEF v
  <2> QED BY <1>1, <1>2, <2>1, <2>2 DEF Begins
<1>4. Run(v, o, Len(v)) = Run(w, o, r)
  <2>1. Run(v, o, r) = Run(w, 0 + o, 0 + r)
    BY <1>0, <1>1, RunRun
  <2>2. 0 + o = o /\ 0 + r = r
    BY <1>0
  <2> QED BY <1>2, <2>1, <2>2
<1> HIDE DEF v
<1>5. StreamTaken(ms, v, n, Taken(Run(v, o, Len(v))))
  BY <1>1, <1>2, <1>3, TakenStream DEF w, o
<1> QED BY <1>4, <1>5 DEF v, w, o

(* Bad data stays bad with what follows it, unless the protocol comes.     *)
LEMMA BadStays ==
  ASSUME NEW T, NEW x \in Seq(T), NEW y \in Seq(T), Bad(x)
  PROVE  Bad(x \o y) \/ (/\ At(x, 0) \in {GET, POST} /\ Protocols(x, 1) = {}
                         /\ Protocols(x \o y, 1) # {})
<1> DEFINE z == x \o y
<1>0. Len(x) \in Nat /\ Len(y) \in Nat
  OBVIOUS
<1>1. z \in Seq(T) /\ Len(z) = Len(x) + Len(y) /\ \A i \in 1 .. Len(x) : z[i] = x[i]
  BY ConcatFacts
<1> HIDE DEF z
<1>2. \A i \in 0 .. Len(x) - 1 : At(z, i) = At(x, i)
  <2> TAKE i \in 0 .. Len(x) - 1
  <2>1. i + 1 \in 1 .. Len(x) /\ i < Len(x) /\ i < Len(z)
    BY <1>0, <1>1
  <2> QED BY <1>1, <2>1 DEF At
<1>3. PICK q : q \in LineEnds(x, 0)
  BY DEF Bad
<1>4. q \in 0 .. Len(x) - 2 /\ IsCrLf(x, q)
  <2>1. 0 \in Nat
    OBVIOUS
  <2> QED BY <1>0, <1>3, <2>1, LineEndFacts
<1>5. At(z, 0) = At(x, 0) /\ At(z, 1) = At(x, 1)
  <2>1. 0 \in 0 .. Len(x) - 1 /\ 1 \in 0 .. Len(x) - 1
    BY <1>0, <1>4
  <2> QED BY <1>2, <2>1
<1>6. LineEnds(z, 0) # {}
  <2>1. \A i \in 0 .. q : At(x, i) # NUL /\ i \in 0 .. Len(x) - 1
    BY <1>0, <1>3, <1>4 DEF LineEnds, BeforeNul
  <2>2. q \in 0 .. Len(z) - 1 /\ q \in 0 .. Len(x) - 1 /\ q + 1 \in 0 .. Len(x) - 1
    BY <1>0, <1>1, <1>4
  <2>3. \A i \in 0 .. q : At(z, i) # NUL
    BY <1>2, <2>1
  <2>4. IsCrLf(z, q)
    BY <1>2, <1>4, <2>2 DEF IsCrLf
  <2>5. q \in LineEnds(z, 0)
    BY <2>2, <2>3, <2>4 DEF LineEnds, BeforeNul
  <2> QED BY <2>5
<1> QED BY <1>5, <1>6 DEF Bad, z

-----------------------------------------------------------------------------
(* The invariant: the stream is what has been taken, what the buffer holds *)
(* and what has not been read, in this order.                              *)
Total == Len(Stream(sent))
Read  == Total - Len(wire)
ReadTypes ==
  /\ sent \in Seq(Sendable) /\ Stream(sent) \in Seq(Tokens)
  /\ wire \in Seq(Tokens) /\ Len(wire) <= Total /\ wire = Run(Stream(sent), Read, Total)
  /\ buffer \in Seq(Tokens) /\ got \in Seq(Parsed(Tokens))
  /\ bad \in BOOLEAN /\ refused \in Nat /\ dropped \in BOOLEAN
  /\ outcome \in {"running", "hangs", "repeats", "erase_threw"}

(* What made the parser throw is still in front.                           *)
BadKept == outcome = "running" /\ bad /\ ~dropped => Bad(buffer)

(* At what the worker is lost: the text in front of the buffer, or the     *)
(* message that was pushed last.                                           *)
LostAt ==
  /\ outcome \in {"repeats", "erase_threw"} => got # << >>
  /\ LostTo(outcome, buffer, got[Len(got)])

InPlace ==
  LET n == Len(got)
  IN  ~dropped /\ Clean =>
        /\ n <= Len(sent) /\ \A i \in 1 .. n : Right(sent, i, got[i])
        /\ outcome \notin {"repeats", "erase_threw"} =>
             Off(sent, n) <= Read /\ buffer = Run(Stream(sent), Off(sent, n), Read)
        /\ outcome = "hangs" => n < Len(sent) /\ Blamed(sent[n + 1])
        /\ outcome = "running" /\ n < Len(sent) /\ Acceptable(sent[n + 1])
             => Len(buffer) < Len(sent[n + 1].text)
        /\ bad \/ refused > 0 => n < Len(sent) /\ ~ Acceptable(sent[n + 1])

LEMMA StartsRead ==
  ASSUME Texts, Init
  PROVE  ReadTypes /\ BadKept /\ LostAt
<1>1. sent \in Seq(Sendable)
  BY ReadAssumption DEF Init
<1>2. Stream(sent) \in Seq(Tokens)
  <2>1. 0 \in 0 .. Len(sent) /\ \A m \in Sendable : m.text \in Seq(Tokens)
    BY <1>1 DEF Texts
  <2> QED BY <1>1, <2>1, StreamParts
<1>3. wire = Stream(sent) /\ buffer = << >> /\ got = << >> /\ bad = FALSE /\ refused = 0 /\ dropped = FALSE
      /\ outcome = "running"
  BY DEF Init
<1>4. wire = Run(Stream(sent), Read, Total) /\ Len(wire) <= Total
  <2>1. Total \in Nat
    BY <1>2 DEF Total
  <2>2. Len(wire) = Total
    BY <1>3 DEF Total
  <2>3. Read = 0
    BY <2>1, <2>2 DEF Read
  <2>4. Run(Stream(sent), 0, Len(Stream(sent))) = Stream(sent)
    BY <1>2, RunWhole
  <2> QED BY <1>3, <2>1, <2>2, <2>3, <2>4 DEF Total
<1>5. << >> \in Seq(Tokens) /\ << >> \in Seq(Parsed(Tokens))
  OBVIOUS
<1>6. wire \in Seq(Tokens)
  BY <1>2, <1>3
<1>7. ReadTypes
  BY <1>1, <1>2, <1>3, <1>4, <1>5, <1>6 DEF ReadTypes
<1>8. BadKept /\ LostAt
  BY <1>3 DEF BadKept, LostAt, LostTo
<1> QED BY <1>7, <1>8

(* A step that reads c tokens.                                             *)
Reads(c) ==
  /\ outcome = "running" /\ c \in Nat \ {0} /\ c <= Len(wire)
  /\ wire' = Run(wire, c, Len(wire))
  /\ ProcessEventRead_(Taken(buffer \o Run(wire, 0, c)))
  /\ sent' = sent /\ dropped' = dropped

LEMMA ReadSteps ==
  ASSUME EventRead
  PROVE  \E c \in Chunks : Reads(c)
<1>1. PICK c \in Chunks :
        /\ c <= Len(wire) /\ wire' = Run(wire, c, Len(wire))
        /\ ProcessEventRead_(Taken(buffer \o Run(wire, 0, c)))
  BY DEF EventRead
<1>2. c \in Nat \ {0}
  BY ReadAssumption
<1> QED BY <1>1, <1>2 DEF Reads, EventRead

(* What the step finds in the buffer.                                      *)
LEMMA ReadFacts ==
  ASSUME ReadTypes, NEW c, Reads(c)
  PROVE  LET b == buffer \o Run(wire, 0, c)
         IN  /\ b \in Seq(Tokens) /\ Run(wire, 0, c) \in Seq(Tokens)
             /\ TakenOk(Tokens, Taken(b))
             /\ wire' \in Seq(Tokens) /\ Len(wire') = Len(wire) - c /\ Len(wire) \in Nat
<1>1. wire \in Seq(Tokens) /\ buffer \in Seq(Tokens) /\ c \in Nat /\ c <= Len(wire) /\ 0 <= c
  BY DEF ReadTypes, Reads
<1>2. Len(wire) \in Nat
  BY <1>1
<1>3. Run(wire, 0, c) \in Seq(Tokens)
  BY <1>1, <1>2, RunTypes
<1>4. buffer \o Run(wire, 0, c) \in Seq(Tokens)
  BY <1>1, <1>3, ConcatFacts
<1>5. TakenOk(Tokens, Taken(buffer \o Run(wire, 0, c)))
  <2> DEFINE b == buffer \o Run(wire, 0, c)
  <2>1. b \in Seq(Tokens)
    BY <1>4
  <2> HIDE DEF b
  <2>2. 0 \in 0 .. Len(b)
    BY <2>1
  <2>3. TakenOk(Tokens, TakenFrom(b)[0])
    BY <2>1, <2>2, TakenAlways
  <2> QED BY <2>3 DEF Taken, b
<1>6. wire' \in Seq(Tokens) /\ Len(wire') = Len(wire) - c
  <2>1. wire' = Run(wire, c, Len(wire))
    BY DEF Reads
  <2>2. Len(wire) <= Len(wire)
    BY <1>2
  <2>3. Run(wire, c, Len(wire)) \in Seq(Tokens) /\ Len(Run(wire, c, Len(wire))) = Len(wire) - c
    BY <1>1, <1>2, <2>2, RunTypes
  <2> QED BY <2>1, <2>3
<1> QED BY <1>2, <1>3, <1>4, <1>5, <1>6

LEMMA TypesStep ==
  ASSUME ReadTypes, [Next]_vars
  PROVE  ReadTypes'
<1>1. ASSUME EventRead PROVE ReadTypes'
  <2>1. PICK c \in Chunks : Reads(c)
    BY <1>1, ReadSteps
  <2> DEFINE b == buffer \o Run(wire, 0, c)
             t == Taken(b)
             w == Stream(sent)
  <2>2. /\ TakenOk(Tokens, t)
        /\ wire' \in Seq(Tokens) /\ Len(wire') = Len(wire) - c /\ Len(wire) \in Nat
    BY <2>1, ReadFacts
  <2>3. /\ sent' = sent /\ dropped' = dropped /\ wire' = Run(wire, c, Len(wire))
        /\ ProcessEventRead_(t) /\ c \in Nat /\ c <= Len(wire)
    BY <2>1 DEF Reads
  <2> HIDE DEF t
  <2>4. /\ got' = got \o t.messages /\ buffer' = t.rest
        /\ bad' = (t.res = "throws" \/ (bad /\ t.res # "incomplete"))
        /\ refused' = refused + Refused(t.res)
        /\ outcome' = IF t.res \in {"hangs", "repeats", "erase_threw"} THEN t.res ELSE outcome
    BY <2>3 DEF ProcessEventRead_
  <2>5. Stream(sent') = Stream(sent) /\ Total' = Total
    BY <2>3 DEF Total
  <2>6. wire' = Run(Stream(sent'), Read', Total') /\ Len(wire') <= Total'
    <3>1. w \in Seq(Tokens) /\ Total = Len(w) /\ Len(wire) <= Total /\ wire = Run(w, Read, Total)
      BY DEF ReadTypes, Total
    <3> HIDE DEF w
    <3>2. Total \in Nat
      BY <3>1
    <3>3. Read \in Nat /\ Read <= Total /\ Total <= Len(w) /\ Total - Read = Len(wire)
      BY <2>2, <3>1, <3>2 DEF Read
    <3>4. Run(Run(w, Read, Total), c, Len(wire)) = Run(w, Read + c, Read + Len(wire))
      BY <2>2, <2>3, <3>1, <3>2, <3>3, RunRun
    <3>5. Read' = Read + c /\ Read + Len(wire) = Total
      BY <2>2, <2>3, <2>5, <3>2 DEF Read
    <3>6. Len(wire') <= Total'
      BY <2>2, <2>3, <2>5, <3>1, <3>2
    <3> QED BY <2>3, <2>5, <3>1, <3>4, <3>5, <3>6 DEF w
  <2>7. got' \in Seq(Parsed(Tokens)) /\ buffer' \in Seq(Tokens)
    <3>1. t.messages \in Seq(Parsed(Tokens)) /\ t.rest \in Seq(Tokens)
      BY <2>2 DEF TakenOk
    <3>2. got \in Seq(Parsed(Tokens))
      BY DEF ReadTypes
    <3> QED BY <2>4, <3>1, <3>2, ConcatFacts
  <2>8. bad' \in BOOLEAN /\ refused' \in Nat
    <3>1. Refused(t.res) \in {0, 1}
      BY DEF Refused
    <3> QED BY <2>4, <3>1 DEF ReadTypes
  <2>9. outcome' \in {"running", "hangs", "repeats", "erase_threw"}
    BY <2>4 DEF ReadTypes
  <2>10. sent' \in Seq(Sendable) /\ Stream(sent') \in Seq(Tokens) /\ dropped' \in BOOLEAN
    BY <2>3, <2>5 DEF ReadTypes
  <2> QED BY <2>2, <2>6, <2>7, <2>8, <2>9, <2>10 DEF ReadTypes
<1>2. ASSUME EventReadNothing PROVE ReadTypes'
  <2>1. << >> \in Seq(Tokens) /\ (dropped \/ buffer # << >>) \in BOOLEAN
    OBVIOUS
  <2>2. Total' = Total /\ Read' = Read /\ Stream(sent') = Stream(sent)
    BY <1>2 DEF EventReadNothing, Total, Read
  <2> QED BY <1>2, <2>1, <2>2 DEF EventReadNothing, ReadTypes
<1>3. ASSUME UNCHANGED vars PROVE ReadTypes'
  BY <1>3 DEF vars, ReadTypes, Total, Read
<1> QED BY <1>1, <1>2, <1>3 DEF Next, Quiet

LEMMA BadStep ==
  ASSUME ReadTypes, BadKept, LostAt, [Next]_vars
  PROVE  BadKept' /\ LostAt'
<1>1. ASSUME EventRead PROVE BadKept' /\ LostAt'
  <2>1. PICK c \in Chunks : Reads(c)
    BY <1>1, ReadSteps
  <2> DEFINE b == buffer \o Run(wire, 0, c)
             t == Taken(b)
  <2>2. TakenOk(Tokens, t)
    BY <2>1, ReadFacts
  <2>3. outcome = "running" /\ dropped' = dropped /\ ProcessEventRead_(t)
    BY <2>1 DEF Reads
  <2> HIDE DEF t
  <2>4. /\ got' = got \o t.messages /\ buffer' = t.rest
        /\ bad' = (t.res = "throws" \/ (bad /\ t.res # "incomplete"))
        /\ outcome' = IF t.res \in {"hangs", "repeats", "erase_threw"} THEN t.res ELSE outcome
    BY <2>3 DEF ProcessEventRead_
  <2>5. BadKept'
    <3> SUFFICES ASSUME outcome' = "running", bad' PROVE Bad(buffer')
      BY DEF BadKept, Bad
    <3>1. t.res = "throws"
      BY <2>2, <2>3, <2>4 DEF TakenOk, Results
    <3> QED BY <2>2, <2>4, <3>1 DEF TakenOk
  <2>6. LostAt'
    <3> DEFINE s == t.messages
    <3>1. outcome' = IF t.res \in {"hangs", "repeats", "erase_threw"} THEN t.res ELSE "running"
      BY <2>3, <2>4
    <3>2. s \in Seq(Parsed(Tokens)) /\ (t.res \in {"repeats", "erase_threw"} => s # << >>)
      BY <2>2 DEF TakenOk
    <3>3. LostTo(t.res, t.rest, s[Len(s)])
      BY <2>2 DEF TakenOk
    <3>4. got' = got \o s /\ buffer' = t.rest
      BY <2>4
    <3> HIDE DEF s
    <3>5. ASSUME s # << >> PROVE got' # << >> /\ got'[Len(got')] = s[Len(s)]
      <4>1. got \in Seq(Parsed(Tokens)) /\ Len(got) \in Nat /\ Len(s) \in Nat /\ Len(s) > 0
        <5>1. got \in Seq(Parsed(Tokens))
          BY DEF ReadTypes
        <5> QED BY <3>2, <3>5, <5>1
      <4>2. Len(got \o s) = Len(got) + Len(s) /\ \A i \in 1 .. Len(s) : (got \o s)[Len(got) + i] = s[i]
        BY <3>2, <4>1, ConcatFacts
      <4>3. (got \o s)[Len(got) + Len(s)] = s[Len(s)]
        BY <4>1, <4>2
      <4>4. Len(got') > 0
        BY <3>4, <4>1, <4>2
      <4> QED BY <3>4, <4>2, <4>3, <4>4
    <3> DEFINE last == got'[Len(got')]
    <3>6. t.res \in {"repeats", "erase_threw"} => got' # << >> /\ last = s[Len(s)]
      BY <3>2, <3>5
    <3>7. outcome' \in {"repeats", "erase_threw"} => got' # << >>
      BY <3>1, <3>6
    <3> HIDE DEF last
    <3>8. LostTo(outcome', buffer', last)
      BY <3>1, <3>3, <3>4, <3>6 DEF LostTo
    <3> QED BY <3>7, <3>8 DEF LostAt, LostTo, HeaderEnd, HeaderEnds, LineStarts, Stuck, NoKey, last
  <2> QED BY <2>5, <2>6
<1>2. ASSUME EventReadNothing PROVE BadKept' /\ LostAt'
  <2>1. BadKept'
    <3> SUFFICES ASSUME bad, ~ (dropped \/ buffer # << >>) PROVE FALSE
      BY <1>2 DEF EventReadNothing, BadKept
    <3>1. Bad(<< >>)
      BY <1>2 DEF EventReadNothing, BadKept
    <3>2. At(<< >>, 0) = NUL /\ Len(<< >>) \in Nat
      BY DEF At
    <3> QED BY <3>1, <3>2, AtStart
  <2> QED BY <1>2, <2>1 DEF EventReadNothing, LostAt, LostTo
<1>3. ASSUME UNCHANGED vars PROVE BadKept' /\ LostAt'
  BY <1>3 DEF vars, BadKept, LostAt, LostTo, Bad
<1> QED BY <1>1, <1>2, <1>3 DEF Next, Quiet

(* Nothing is taken while bad data is in front.                            *)
LEMMA BadWaits ==
  ASSUME ReadTypes, BadKept, [Next]_vars, bad, ~ dropped'
  PROVE  (bad' /\ got' = got) \/ ProtocolComes
<1>1. ASSUME EventRead PROVE (bad' /\ got' = got) \/ ProtocolComes
  <2>1. PICK c \in Chunks : Reads(c)
    BY <1>1, ReadSteps
  <2> DEFINE y == Run(wire, 0, c)
             b == buffer \o y
             t == Taken(b)
  <2>2. b \in Seq(Tokens) /\ y \in Seq(Tokens) /\ Len(wire') = Len(wire) - c /\ Len(wire) \in Nat
    BY <2>1, ReadFacts
  <2>3. outcome = "running" /\ dropped' = dropped /\ ProcessEventRead_(t) /\ c \in Nat
    BY <2>1 DEF Reads
  <2>4. got' = got \o t.messages /\ bad' = (t.res = "throws" \/ (bad /\ t.res # "incomplete"))
    BY <2>3 DEF ProcessEventRead_
  <2>5. Bad(buffer) /\ buffer \in Seq(Tokens) /\ got \in Seq(Parsed(Tokens))
    BY <2>3 DEF BadKept, ReadTypes
  <2> HIDE DEF y
  <2>6. Bad(b) \/ (/\ At(buffer, 0) \in {GET, POST} /\ Protocols(buffer, 1) = {}
                   /\ Protocols(b, 1) # {})
    BY <2>2, <2>5, BadStays
  <2>7. CASE Bad(b)
    <3> HIDE DEF b
    <3>1. 0 \in 0 .. Len(b) /\ Run(b, 0, Len(b)) = b
      BY <2>2, RunWhole
    <3>2. Deserialize(b).res = "throws"
      BY <2>2, <2>7, DeserializeAnswers
    <3>3. t = Take(b, 0, TakenFrom(b)[NextRound(b, 0)])
      BY <2>2, <3>1, TakenTakes DEF Taken
    <3> HIDE DEF t
    <3>4. t = [messages |-> << >>, rest |-> b, res |-> "throws"]
      BY <3>1, <3>2, <3>3 DEF Take
    <3>5. t.messages = << >> /\ t.res = "throws"
      BY <3>4
    <3>6. got \o << >> = got
      BY <2>5
    <3> QED BY <2>4, <3>5, <3>6
  <2>8. CASE ~ Bad(b)
    <3>1. Len(wire) - Len(wire') = c
      BY <2>2, <2>3
    <3> QED BY <2>6, <2>8, <3>1 DEF ProtocolComes, b, y
  <2> QED BY <2>7, <2>8
<1>2. ASSUME EventReadNothing PROVE (bad' /\ got' = got) \/ ProtocolComes
  BY <1>2 DEF EventReadNothing
<1>3. ASSUME UNCHANGED vars PROVE (bad' /\ got' = got) \/ ProtocolComes
  BY <1>3 DEF vars
<1> QED BY <1>1, <1>2, <1>3 DEF Next, Quiet

(* What holds of any messages.                                             *)
TextInv == ReadTypes /\ BadKept /\ LostAt

(* Bad data is never skipped, whatever the messages are.                   *)
THEOREM BadNotSkipped ==
  ASSUME Texts
  PROVE  Spec => NothingAfterBad
<1>1. Init => TextInv
  BY StartsRead DEF TextInv
<1>2. TextInv /\ [Next]_vars => TextInv'
  BY TypesStep, BadStep DEF TextInv
<1>3. TextInv /\ [Next]_vars => [bad /\ ~ dropped' => (bad' /\ got' = got) \/ ProtocolComes]_vars
  BY BadWaits DEF TextInv
<1> QED BY <1>1, <1>2, <1>3, PTL DEF Spec, NothingAfterBad

LEMMA RunStart ==
  ASSUME NEW T, NEW d \in Seq(T), NEW q \in Nat, q <= Len(d)
  PROVE  /\ Len(Run(d, 0, q)) = q
         /\ \A x \in Nat : x <= q => Run(Run(d, 0, q), x, Len(Run(d, 0, q))) = Run(d, x, q)
<1> DEFINE z == 0
           v == Run(d, z, q)
<1>1. z \in Nat /\ z <= q /\ q - z = q /\ z + q = q /\ \A x \in Nat : z + x = x
  OBVIOUS
<1> HIDE DEF z
<1>2. Len(v) = q
  <2>1. Len(v) = q - z
    BY <1>1, RunTypes
  <2> QED BY <1>1, <2>1
<1>3. ASSUME NEW x \in Nat, x <= q PROVE Run(v, x, q) = Run(d, x, q)
  <2>1. q <= q - z
    BY <1>1
  <2>2. Run(v, x, q) = Run(d, z + x, z + q)
    BY <1>1, <1>3, <2>1, RunRun
  <2> QED BY <1>1, <2>2
<1> QED BY <1>2, <1>3 DEF v, z

LEMMA RunHead ==
  ASSUME NEW T, NEW d \in Seq(T), NEW p \in Nat, NEW q \in Nat, p <= q, q <= Len(d),
         NEW j \in Nat, j <= q - p
  PROVE  Run(Run(d, p, q), 0, j) = Run(d, p, p + j)
<1> DEFINE z == 0
<1>1. z \in Nat /\ z <= j /\ p + z = p
  OBVIOUS
<1> HIDE DEF z
<1>2. Run(Run(d, p, q), z, j) = Run(d, p + z, p + j)
  BY <1>1, RunRun
<1> QED BY <1>1, <1>2 DEF z

LEMMA TextsNotEmpty ==
  ASSUME KnownKinds, NEW m \in Sendable
  PROVE  Len(m.text) \in Nat /\ Len(m.text) > 0
<1>1. m.text \in Seq(Tokens) /\ (Whole(m) \/ Headerless(m) \/ Strange(m) \/ Unfinished(m))
  BY DEF KnownKinds, Texts
<1>2. Len(m.text) \in Nat
  BY <1>1
<1>3. \E e \in 1 .. Len(m.text) : TRUE
  BY <1>1 DEF Whole, Headerless, Strange, Unfinished
<1> QED BY <1>2, <1>3

LEMMA StartsInPlace ==
  ASSUME KnownKinds, Init
  PROVE  InPlace
<1>1. ReadTypes
  BY StartsRead DEF KnownKinds
<1>2. /\ wire = Stream(sent) /\ buffer = << >> /\ got = << >> /\ bad = FALSE /\ refused = 0
      /\ outcome = "running" /\ Len(got) = 0 /\ Len(buffer) = 0
  BY DEF Init
<1>3. Len(sent) \in Nat /\ Total \in Nat /\ Read = 0 /\ Off(sent, 0) = 0 /\ 0 + 1 = 1
  <2>1. Len(sent) \in Nat /\ Total \in Nat
    BY <1>1 DEF ReadTypes, Total
  <2>2. Read = 0
    BY <1>2, <2>1 DEF Read, Total
  <2>3. Off(sent, 0) = 0
    <3>1. sent \in Seq(Sendable) /\ Prefix(sent, 0) = << >>
      BY <1>1, PrefixFacts DEF ReadTypes
    <3> QED BY <3>1 DEF Off
  <2> QED BY <2>1, <2>2, <2>3
<1>4. buffer = Run(Stream(sent), 0, 0)
  <2>1. Run(Stream(sent), 0, 0) \in Seq(Tokens) /\ Len(Run(Stream(sent), 0, 0)) = 0 - 0
    <3>1. Stream(sent) \in Seq(Tokens) /\ 0 <= Len(Stream(sent))
      BY <1>1 DEF ReadTypes
    <3> QED BY <3>1, RunTypes
  <2>2. Run(Stream(sent), 0, 0) = << >>
    BY <2>1
  <2> QED BY <1>2, <2>2
<1>5. 0 < Len(sent) => 0 < Len(sent[1].text)
  <2> SUFFICES ASSUME 0 < Len(sent) PROVE 0 < Len(sent[1].text)
    OBVIOUS
  <2>1. sent[1] \in Sendable
    BY <1>1, <1>3 DEF ReadTypes
  <2> QED BY <2>1, TextsNotEmpty
<1> QED BY <1>2, <1>3, <1>4, <1>5 DEF InPlace

LEMMA InPlaceReads ==
  ASSUME KnownKinds, ReadTypes, InPlace, NEW c, Reads(c), ~ dropped', Clean'
  PROVE  InPlace'
<1> DEFINE w == Stream(sent)
           n == Len(got)
           b == buffer \o Run(wire, 0, c)
           t == Taken(b)
           s == t.messages
           r == Read + c
<1>1. TakenOk(Tokens, t) /\ Len(wire') = Len(wire) - c /\ Len(wire) \in Nat
  BY ReadFacts
<1>2. /\ outcome = "running" /\ sent' = sent /\ dropped' = dropped /\ ProcessEventRead_(t)
      /\ c \in Nat /\ c <= Len(wire) /\ wire' = Run(wire, c, Len(wire))
  BY DEF Reads
<1>3. s \in Seq(Parsed(Tokens)) /\ t.res \in Results
  BY <1>1 DEF TakenOk
<1>4. /\ w \in Seq(Tokens) /\ Total = Len(w) /\ Len(w) \in Nat /\ wire = Run(w, Read, Total)
      /\ Len(wire) <= Total /\ got \in Seq(Parsed(Tokens)) /\ n \in Nat
      /\ sent \in Seq(Sendable) /\ Len(sent) \in Nat
  <2>1. w \in Seq(Tokens) /\ Total = Len(w) /\ got \in Seq(Parsed(Tokens)) /\ sent \in Seq(Sendable)
    BY DEF ReadTypes, Total
  <2>2. Len(w) \in Nat /\ n \in Nat /\ Len(sent) \in Nat
    <3> HIDE DEF w
    <3> QED BY <2>1
  <2> QED BY <2>1, <2>2 DEF ReadTypes
<1>5. Read \in Nat /\ r \in Nat /\ r <= Len(w) /\ Read' = r /\ Read + Len(wire) = Total
  <2>1. Total' = Total
    BY <1>2 DEF Total
  <2> HIDE DEF w
  <2> QED BY <1>1, <1>2, <1>4, <2>1 DEF Read
<1> DEFINE g == got \o s
<1>6. /\ got' = g /\ buffer' = t.rest
      /\ bad' = (t.res = "throws" \/ (bad /\ t.res # "incomplete"))
      /\ refused' = refused + Refused(t.res)
      /\ outcome' = IF t.res \in {"hangs", "repeats", "erase_threw"} THEN t.res ELSE outcome
  <2> HIDE DEF t
  <2> QED BY <1>2 DEF ProcessEventRead_
<1> HIDE DEF t
<1> DEFINE j == Len(s)
<1>7. /\ Len(g) = n + j /\ j \in Nat
      /\ \A i \in 1 .. n : g[i] = got[i]
      /\ \A i \in 1 .. j : g[n + i] = s[i]
  <2>1. j \in Nat
    <3> HIDE DEF s
    <3> QED BY <1>3
  <2> HIDE DEF s
  <2> QED BY <1>3, <1>4, <2>1, ConcatFacts
<1> HIDE DEF s, g, j
<1>8. Clean
  <2>1. n <= Len(got')
    BY <1>4, <1>6, <1>7
  <2>2. \A i \in DOMAIN sent : i <= Len(got') => Honest(sent[i])
    BY <1>2 DEF Clean, Honest, NamesProtocol
  <2>3. \A i \in DOMAIN sent : i \in Nat
    BY <1>4
  <2>4. \A i \in DOMAIN sent : i <= Len(got) => i <= Len(got')
    <3> HIDE DEF g
    <3>1. Len(got') \in Nat
      BY <1>4, <1>6, <1>7
    <3> QED BY <1>4, <2>1, <2>3, <3>1
  <2> QED BY <2>2, <2>4 DEF Clean
<1>9. /\ n <= Len(sent) /\ \A i \in 1 .. n : Right(sent, i, got[i])
      /\ Off(sent, n) <= Read /\ buffer = Run(w, Off(sent, n), Read)
      /\ bad \/ refused > 0 => n < Len(sent) /\ ~ Acceptable(sent[n + 1])
  BY <1>2, <1>8 DEF InPlace
<1> DEFINE o == Off(sent, n)
<1>10. o \in Nat /\ n \in 0 .. Len(sent)
  <2>1. n \in 0 .. Len(sent)
    BY <1>4, <1>9
  <2> QED BY <1>4, <2>1, TextsKnown, PrefixTexts
<1>11. b = Run(w, o, r)
  <2> HIDE DEF o, w, n
  <2>1. Run(Run(w, Read, Total), 0, c) = Run(w, Read, Read + c)
    <3>1. Read <= Total /\ Total <= Len(w) /\ c <= Total - Read /\ Total \in Nat
      BY <1>2, <1>4, <1>5
    <3>2. w \in Seq(Tokens) /\ Read \in Nat /\ c \in Nat
      BY <1>2, <1>4, <1>5
    <3> QED BY <3>1, <3>2, RunHead
  <2>2. Run(wire, 0, c) = Run(w, Read, r)
    BY <1>4, <1>5, <2>1
  <2>3. buffer = Run(w, o, Read) /\ o <= Read
    BY <1>9 DEF w, o, n
  <2>4. Run(w, o, Read) \o Run(w, Read, r) = Run(w, o, r)
    <3>1. Read <= r
      BY <1>2, <1>5
    <3> QED BY <1>4, <1>5, <1>10, <2>3, <3>1, RunsJoin
  <2> QED BY <2>2, <2>3, <2>4
<1> DEFINE v == Run(w, 0, r)
<1>12. StreamTaken(sent, v, n, t)
  <2>1. o <= r
    <3> HIDE DEF o, w, n
    <3>1. o <= Read
      BY <1>9 DEF o, w, n
    <3> QED BY <1>2, <1>5, <1>10, <3>1
  <2>2. StreamTaken(sent, Run(Stream(sent), 0, r), n, Taken(Run(Stream(sent), Off(sent, n), r)))
    BY <1>4, <1>5, <1>10, <2>1, TakenNow
  <2> QED BY <1>11, <2>2 DEF t
<1>13. \A x \in Nat : x <= r => Run(v, x, Len(v)) = Run(w, x, r)
  <2> HIDE DEF w, r
  <2> QED BY <1>4, <1>5, RunStart
<1>14. Len(v) = r
  <2> HIDE DEF w, r
  <2> QED BY <1>4, <1>5, RunStart
<1> HIDE DEF v
<1>15. \A i \in 1 .. j : n + i <= Len(sent) => NamesProtocol(sent[n + i])
  <2> TAKE i \in 1 .. j
  <2> HAVE n + i <= Len(sent)
  <2>1. n + i \in DOMAIN sent /\ n + i <= Len(got')
    <3> HIDE DEF n
    <3> QED BY <1>4, <1>6, <1>7
  <2>2. \A k \in DOMAIN sent : k <= Len(got') => NamesProtocol(sent[k])
    BY <1>2 DEF Clean, Honest, NamesProtocol
  <2> QED BY <2>1, <2>2
<1> DEFINE m == n + j
<1>16. /\ m <= Len(sent)
       /\ \A i \in 1 .. j : Right(sent, n + i, s[i]) /\ Acceptable(sent[n + i])
       /\ t.res \notin {"repeats", "erase_threw"} =>
            Off(sent, m) <= Len(v) /\ t.rest = Run(v, Off(sent, m), Len(v))
       /\ t.res = "throws" => m < Len(sent) /\ ~ Acceptable(sent[m + 1])
       /\ t.res = "hangs" => m < Len(sent) /\ Blamed(sent[m + 1])
       /\ t.res = "incomplete" /\ m < Len(sent) /\ Acceptable(sent[m + 1])
            => Len(t.rest) < Len(sent[m + 1].text)
  BY <1>12, <1>15 DEF StreamTaken, s, j
<1>17. m \in 0 .. Len(sent) /\ m \in Nat /\ Off(sent, m) \in Nat
  <2>1. m \in 0 .. Len(sent) /\ m \in Nat
    BY <1>4, <1>7, <1>16
  <2> HIDE DEF m
  <2> QED BY <1>4, <2>1, TextsKnown, PrefixTexts
<1>18. ASSUME NEW i \in 1 .. m PROVE Right(sent, i, g[i])
  <2>1. CASE i <= n
    <3>1. i \in 1 .. n
      BY <1>4, <1>17, <2>1
    <3> QED BY <1>7, <1>9, <3>1
  <2>2. CASE ~ (i <= n)
    <3> DEFINE k == i - n
    <3>1. k \in 1 .. j /\ n + k = i
      BY <1>4, <1>7, <2>2
    <3> HIDE DEF k
    <3> QED BY <1>7, <1>16, <3>1
  <2> QED BY <2>1, <2>2
<1>19. t.res \notin {"repeats", "erase_threw"} => Off(sent, m) <= r /\ t.rest = Run(w, Off(sent, m), r)
  BY <1>13, <1>14, <1>16, <1>17
<1>20. ASSUME bad' \/ refused' > 0 PROVE m < Len(sent) /\ ~ Acceptable(sent[m + 1])
  <2>1. CASE t.res = "throws"
    BY <1>16, <2>1
  <2>2. CASE t.res # "throws"
    <3>1. Refused(t.res) = 0
      BY <2>2 DEF Refused
    <3>2. bad \/ refused > 0
      BY <1>6, <1>20, <2>2, <3>1 DEF ReadTypes
    <3>3. n < Len(sent) /\ ~ Acceptable(sent[n + 1])
      BY <1>9, <3>2
    <3>4. j = 0
      <4> SUFFICES ASSUME j # 0 PROVE FALSE
        OBVIOUS
      <4>1. 1 \in 1 .. j
        BY <1>7
      <4> QED BY <1>16, <3>3, <4>1
    <3>5. m = n
      BY <1>4, <3>4
    <3> QED BY <3>3, <3>5
  <2> QED BY <2>1, <2>2
<1>21. outcome' = "running" => t.res \in {"incomplete", "throws"}
  BY <1>3, <1>6 DEF Results
<1>22. outcome' = "hangs" => t.res = "hangs"
  BY <1>2, <1>6
<1>23. outcome' \notin {"repeats", "erase_threw"} => t.res \notin {"repeats", "erase_threw"}
  BY <1>6
<1>24. Len(got') = m /\ Stream(sent') = w /\ \A i \in 1 .. m : got'[i] = g[i]
  BY <1>2, <1>6, <1>7
<1>25. t.res = "throws" => ~ Acceptable(sent[m + 1])
  BY <1>16
<1>26. /\ Len(got') <= Len(sent') /\ \A i \in 1 .. Len(got') : Right(sent', i, got'[i])
       /\ outcome' \notin {"repeats", "erase_threw"} =>
            Off(sent', Len(got')) <= Read' /\ buffer' = Run(Stream(sent'), Off(sent', Len(got')), Read')
       /\ outcome' = "hangs" => Len(got') < Len(sent') /\ Blamed(sent'[Len(got') + 1])
       /\ outcome' = "running" /\ Len(got') < Len(sent') /\ Acceptable(sent'[Len(got') + 1])
            => Len(buffer') < Len(sent'[Len(got') + 1].text)
       /\ bad' \/ refused' > 0 => Len(got') < Len(sent') /\ ~ Acceptable(sent'[Len(got') + 1])
  <2> HIDE DEF m, w, g
  <2> QED BY <1>2, <1>5, <1>6, <1>16, <1>18, <1>19, <1>20, <1>21, <1>22, <1>23, <1>24, <1>25
<1> QED BY <1>26 DEF InPlace, Off, Prefix, Stream, Right, Same, Acceptable, NamesProtocol, Blamed, Stuck,
                   LineStarts, HeaderEnds, NoKey

LEMMA InPlaceStep ==
  ASSUME KnownKinds, ReadTypes, InPlace, [Next]_vars
  PROVE  InPlace'
<1>1. ASSUME EventRead PROVE InPlace'
  <2>1. PICK c \in Chunks : Reads(c)
    BY <1>1, ReadSteps
  <2>2. CASE ~ dropped' /\ Clean'
    BY <2>1, <2>2, InPlaceReads
  <2>3. CASE ~ (~ dropped' /\ Clean')
    BY <2>3 DEF InPlace
  <2> QED BY <2>2, <2>3
<1>2. ASSUME EventReadNothing PROVE InPlace'
  <2>1. CASE buffer = << >>
    <3>1. UNCHANGED vars
      BY <1>2, <2>1 DEF EventReadNothing, vars, ReadTypes
    <3> QED BY <3>1 DEF vars, InPlace, Clean, Read, Total
  <2>2. CASE buffer # << >>
    BY <1>2, <2>2 DEF EventReadNothing, InPlace
  <2> QED BY <2>1, <2>2
<1>3. ASSUME UNCHANGED vars PROVE InPlace'
  BY <1>3 DEF vars, InPlace, Clean, Read, Total
<1> QED BY <1>1, <1>2, <1>3 DEF Next, Quiet

(* What the properties say of a state, the invariant implies.              *)
LEMMA NextUpcoming ==
  ASSUME ReadTypes, Len(got) < Len(sent)
  PROVE  sent[Len(got) + 1] \in Sendable /\ Upcoming(sent[Len(got) + 1])
<1>1. sent \in Seq(Sendable) /\ Len(got) \in Nat /\ Len(sent) \in Nat
  BY DEF ReadTypes
<1>2. Len(got) + 1 \in 1 .. Len(sent)
  BY <1>1
<1> QED BY <1>1, <1>2 DEF Upcoming

LEMMA ExactInPlace ==
  ASSUME KnownKinds, ReadTypes, InPlace
  PROVE  TakenExactly
<1> DEFINE n == Len(got)
           w == Stream(sent)
           o == Off(sent, n)
<1> SUFFICES ASSUME outcome = "running", ~ dropped, Clean
             PROVE  /\ n <= Len(sent)
                    /\ \A i \in 1 .. n : Same(sent[i], got[i])
                    /\ Stream(SubSeq(sent, 1, n)) \o buffer \o wire = Stream(sent)
                    /\ \A m \in Sendable : Upcoming(m) /\ Acceptable(m) => Len(buffer) < Len(m.text)
  BY DEF TakenExactly
<1>1. /\ n <= Len(sent) /\ \A i \in 1 .. n : Right(sent, i, got[i])
      /\ o <= Read /\ buffer = Run(w, o, Read)
      /\ n < Len(sent) /\ Acceptable(sent[n + 1]) => Len(buffer) < Len(sent[n + 1].text)
  BY DEF InPlace
<1>2. /\ w \in Seq(Tokens) /\ Total = Len(w) /\ wire = Run(w, Read, Total) /\ Len(wire) <= Total
      /\ sent \in Seq(Sendable) /\ got \in Seq(Parsed(Tokens)) /\ wire \in Seq(Tokens)
  BY DEF ReadTypes, Total
<1>3. n \in 0 .. Len(sent)
  BY <1>1, <1>2
<1>4. o \in 0 .. Len(w) /\ Run(w, 0, o) = Stream(SubSeq(sent, 1, n))
  <2>1. \A m \in Sendable : m.text \in Seq(Tokens)
    BY TextsKnown
  <2> HIDE DEF n
  <2> QED BY <1>2, <1>3, <2>1, StreamParts DEF Prefix
<1>5. Run(w, 0, o) \o buffer \o wire = w
  <2> HIDE DEF w, o
  <2>1. Len(w) \in Nat /\ Len(wire) \in Nat
    BY <1>2
  <2>2. o \in Nat /\ Read \in Nat /\ Total \in Nat /\ 0 <= o /\ o <= Read /\ Read <= Total
        /\ Read <= Len(w) /\ Total <= Len(w) /\ 0 <= Read
    BY <1>1, <1>2, <1>4, <2>1 DEF Read, w, o
  <2>3. buffer = Run(w, o, Read)
    BY <1>1 DEF w, o
  <2>4. Run(w, 0, o) \o Run(w, o, Read) = Run(w, 0, Read)
    BY <1>2, <2>2, RunsJoin
  <2>5. Run(w, 0, Read) \o Run(w, Read, Total) = Run(w, 0, Total)
    BY <1>2, <2>2, RunsJoin
  <2>6. Run(w, 0, Total) = w
    BY <1>2, RunWhole
  <2> QED BY <1>2, <2>3, <2>4, <2>5, <2>6
<1>6. \A m \in Sendable : Upcoming(m) /\ Acceptable(m) => Len(buffer) < Len(m.text)
  BY <1>1 DEF Upcoming
<1>7. \A i \in 1 .. n : Same(sent[i], got[i])
  BY <1>1 DEF Right
<1> QED BY <1>1, <1>4, <1>5, <1>6, <1>7

LEMMA RefusedInPlace ==
  ASSUME ReadTypes, InPlace
  PROVE  GoodNeverRefused
<1>1. ASSUME bad \/ refused > 0, ~ dropped, Clean
      PROVE  \E m \in Sendable : Upcoming(m) /\ ~ Acceptable(m)
  <2>1. Len(got) < Len(sent) /\ ~ Acceptable(sent[Len(got) + 1])
    BY <1>1 DEF InPlace
  <2> QED BY <2>1, NextUpcoming
<1>2. ASSUME outcome = "hangs", ~ dropped, Clean
      PROVE  \E m \in Sendable : Upcoming(m) /\ (Stuck(m.text) \/ ~ NamesProtocol(m))
  <2>1. Len(got) < Len(sent) /\ Blamed(sent[Len(got) + 1])
    BY <1>2 DEF InPlace
  <2> QED BY <2>1, NextUpcoming DEF Blamed
<1> QED BY <1>1, <1>2 DEF GoodNeverRefused

LEMMA PairsInPlace ==
  ASSUME KnownPairs, ReadTypes, InPlace
  PROVE  PairsFound
<1> SUFFICES ASSUME ~ dropped, Clean, NEW i \in DOMAIN got, got[i].method = GET \/ i = Len(sent)
             PROVE  got[i].queries = sent[i].pairs
  BY DEF PairsFound
<1>1. i \in 1 .. Len(got)
  BY DEF ReadTypes
<1>2. Len(got) <= Len(sent) /\ Right(sent, i, got[i])
  BY <1>1 DEF InPlace
<1>3. sent[i] \in Sendable
  <2>1. i \in 1 .. Len(sent)
    BY <1>1, <1>2 DEF ReadTypes
  <2> QED BY <2>1 DEF ReadTypes
<1>4. Whole(sent[i]) /\ got[i].queries = PairsOf(sent[i], sent[i].text)
  BY <1>2 DEF Right, Same
<1> QED BY <1>3, <1>4 DEF KnownPairs

(* The invariant of a peer whose messages are of the known kinds.          *)
ReadInv == TextInv /\ InPlace

LEMMA ReadInvariance ==
  ASSUME KnownKinds
  PROVE  Spec => []ReadInv
<1>0. Texts
  BY DEF KnownKinds
<1>1. Init => ReadInv
  BY <1>0, StartsRead, StartsInPlace DEF ReadInv, TextInv
<1>2. ReadInv /\ [Next]_vars => ReadInv'
  BY TypesStep, BadStep, InPlaceStep DEF ReadInv, TextInv
<1> QED BY <1>1, <1>2, PTL DEF Spec

(* However the network cuts the stream, ProcessEventRead_ takes the        *)
(* messages out of the buffer whole, in order and as soon as they are      *)
(* complete, for any messages of the known kinds and any sizes of reads.   *)
THEOREM MessagesExact ==
  ASSUME KnownKinds
  PROVE  Spec => []TakenExactly
<1>1. ReadInv => TakenExactly
  BY ExactInPlace DEF ReadInv, TextInv
<1>2. Spec => []ReadInv
  BY ReadInvariance
<1> QED BY <1>1, <1>2, PTL

(* HttpConnection suspects or refuses a peer only at a message that the    *)
(* parser does not accept, whatever was sent before it.                    *)
THEOREM GoodMessagesKept ==
  ASSUME KnownKinds
  PROVE  Spec => []GoodNeverRefused
<1>1. ReadInv => GoodNeverRefused
  BY RefusedInPlace DEF ReadInv, TextInv
<1>2. Spec => []ReadInv
  BY ReadInvariance
<1> QED BY <1>1, <1>2, PTL

(* Whatever a peer sends, and however it is cut, the loops of the parser   *)
(* and of ProcessEventRead_ do not end only at a header line without a key *)
(* and at a length that wraps the end of the message to 0, and             *)
(* CString::Erase throws only on a GET that announces more than is there.  *)
THEOREM WorkerLost ==
  ASSUME Texts
  PROVE  Spec => []LostOnlyTo
<1>1. Init => TextInv
  BY StartsRead DEF TextInv
<1>2. TextInv /\ [Next]_vars => TextInv'
  BY TypesStep, BadStep DEF TextInv
<1>3. TextInv => LostOnlyTo
  BY DEF TextInv, LostAt, LostTo, LostOnlyTo
<1> QED BY <1>1, <1>2, <1>3, PTL DEF Spec

(* The pairs that the parser finds in a query or in the content of the     *)
(* last message are those that its text has.                               *)
THEOREM PairsTold ==
  ASSUME KnownKinds, KnownPairs
  PROVE  Spec => []PairsFound
<1>1. ReadInv => PairsFound
  BY PairsInPlace DEF ReadInv, TextInv
<1>2. Spec => []ReadInv
  BY ReadInvariance
<1> QED BY <1>1, <1>2, PTL

-----------------------------------------------------------------------------
(* How many characters a text has.                                         *)
Sums(ts, f) == f = [n \in 0 .. Len(ts) |-> IF n = 0 THEN 0 ELSE f[n - 1] + Chars(ts[n])]

LEMMA SumsExist ==
  ASSUME NEW ts, Len(ts) \in Nat
  PROVE  \E f : Sums(ts, f)
<1> DEFINE N == Len(ts)
           v(g, n) == IF n = 0 THEN 0 ELSE g[n - 1] + Chars(ts[n])
           G(n, g) == \A i \in 0 .. n : g[i] = v(g, i)
           E(n) == \E g : G(n, g)
           S == {n \in Nat : E(n)}
<1>1. 0 \in S
  <2> DEFINE g == [i \in {0} |-> 0]
  <2>1. G(0, g)
    OBVIOUS
  <2> HIDE DEF G
  <2>2. E(0)
    BY <2>1
  <2> HIDE DEF E
  <2> QED BY <2>2
<1>2. ASSUME NEW n \in Nat, n \in S PROVE n + 1 \in S
  <2>0. E(n)
    BY <1>2
  <2>1. PICK g : G(n, g)
    BY <2>0
  <2> DEFINE h == [i \in 0 .. n + 1 |-> IF i = n + 1 THEN v(g, i) ELSE g[i]]
  <2>2. ASSUME NEW i \in 0 .. n + 1 PROVE h[i] = v(h, i)
    <3>1. h[i] = v(g, i)
      <4>1. CASE i = n + 1
        BY <4>1
      <4>2. CASE i # n + 1
        <5>1. i \in 0 .. n
          BY <4>2
        <5>2. h[i] = g[i]
          BY <4>2
        <5> HIDE DEF h, v
        <5> QED BY <2>1, <5>1, <5>2
      <4> QED BY <4>1, <4>2
    <3>2. CASE i = 0
      BY <3>1, <3>2
    <3>3. CASE i # 0
      <4>1. i - 1 \in 0 .. n + 1 /\ i - 1 # n + 1
        BY <3>3
      <4>2. h[i - 1] = g[i - 1]
        BY <4>1
      <4> HIDE DEF h
      <4> QED BY <3>1, <3>3, <4>2
    <3> QED BY <3>2, <3>3
  <2> HIDE DEF h, v
  <2>3. G(n + 1, h)
    BY <2>2
  <2> HIDE DEF G
  <2>4. E(n + 1)
    BY <2>3
  <2> HIDE DEF E
  <2> QED BY <2>4
<1> HIDE DEF S
<1>3. N \in S
  BY <1>1, <1>2, Induct
<1>30. E(N)
  <2> HIDE DEF E
  <2> QED BY <1>3 DEF S
<1>4. PICK g : G(N, g)
  BY <1>30
<1> DEFINE f == [n \in 0 .. N |-> g[n]]
<1>5. ASSUME NEW n \in 0 .. N PROVE g[n] = v(f, n)
  <2>1. g[n] = v(g, n)
    <3> HIDE DEF v
    <3> QED BY <1>4
  <2>2. n # 0 => n - 1 \in 0 .. N
    OBVIOUS
  <2>3. n # 0 => f[n - 1] = g[n - 1]
    BY <2>2
  <2> HIDE DEF f
  <2> QED BY <2>1, <2>3
<1>6. f = [n \in 0 .. N |-> v(f, n)]
  <2> DEFINE k == [n \in 0 .. N |-> v(f, n)]
  <2>1. f = k
    <3> HIDE DEF v
    <3> QED BY <1>5
  <2> QED BY <2>1
<1> HIDE DEF f
<1>7. Sums(ts, f)
  BY <1>6 DEF Sums
<1> QED BY <1>7

LEMMA CharsSums ==
  ASSUME NEW ts, Len(ts) \in Nat
  PROVE  \E f : /\ f[0] = 0 /\ CharsOf(ts) = f[Len(ts)]
                /\ \A n \in 0 .. Len(ts) - 1 : f[n + 1] = f[n] + Chars(ts[n + 1])
<1> DEFINE f == CHOOSE f : Sums(ts, f)
<1>1. Sums(ts, f)
  BY SumsExist
<1>2. CharsOf(ts) = f[Len(ts)]
  BY DEF CharsOf, Sums
<1> HIDE DEF f
<1>3. f[0] = 0
  <2>1. 0 \in 0 .. Len(ts)
    OBVIOUS
  <2> QED BY <1>1, <2>1 DEF Sums
<1>4. ASSUME NEW n \in 0 .. Len(ts) - 1 PROVE f[n + 1] = f[n] + Chars(ts[n + 1])
  <2>1. n + 1 \in 0 .. Len(ts) /\ n + 1 # 0 /\ n + 1 - 1 = n
    OBVIOUS
  <2> QED BY <1>1, <2>1 DEF Sums
<1> QED BY <1>2, <1>3, <1>4

LEMMA CodeLengths ==
  \A c \in DOMAIN HTTP_CODES_LENGTH : HTTP_CODES_LENGTH[c] \in Nat
<1>1. 6 \in Nat /\ 14 \in Nat /\ 15 \in Nat /\ 13 \in Nat /\ 18 \in Nat /\ 19 \in Nat /\ 24 \in Nat
  OBVIOUS
<1>2. ASSUME NEW c \in {"200", "204", "400", "403", "404", "406", "408", "503"}
      PROVE  HTTP_CODES_LENGTH[c] \in Nat
  BY <1>1, <1>2 DEF HTTP_CODES_LENGTH
<1> QED BY <1>2 DEF HTTP_CODES_LENGTH

LEMMA CharsNat ==
  ASSUME NEW t
  PROVE  Chars(t) \in Nat
<1>1. t \in DOMAIN HTTP_CODES_LENGTH => HTTP_CODES_LENGTH[t] \in Nat
  BY CodeLengths
<1> QED BY <1>1 DEF Chars

LEMMA SumsNat ==
  ASSUME NEW ts, Len(ts) \in Nat, NEW f, f[0] = 0,
         \A n \in 0 .. Len(ts) - 1 : f[n + 1] = f[n] + Chars(ts[n + 1])
  PROVE  \A n \in 0 .. Len(ts) : f[n] \in Nat
<1> DEFINE S == {n \in Nat : n <= Len(ts) => f[n] \in Nat}
<1>1. 0 \in S
  OBVIOUS
<1>2. ASSUME NEW n \in Nat, n \in S PROVE n + 1 \in S
  <2> SUFFICES ASSUME n + 1 <= Len(ts) PROVE f[n + 1] \in Nat
    OBVIOUS
  <2>1. n \in 0 .. Len(ts) - 1 /\ n <= Len(ts)
    OBVIOUS
  <2>2. f[n + 1] = f[n] + Chars(ts[n + 1]) /\ f[n] \in Nat
    BY <1>2, <2>1
  <2> QED BY <2>2, CharsNat
<1> HIDE DEF S
<1>3. Nat \subseteq S
  BY <1>1, <1>2, Induct
<1>4. ASSUME NEW n \in 0 .. Len(ts) PROVE f[n] \in Nat
  <2>1. n \in S /\ n <= Len(ts)
    BY <1>3
  <2> QED BY <2>1 DEF S
<1> QED BY <1>4

(* The characters of two texts that agree so far.                          *)
LEMMA CharsConcat ==
  ASSUME NEW T, NEW x \in Seq(T), NEW y \in Seq(T)
  PROVE  CharsOf(x \o y) = CharsOf(x) + CharsOf(y)
<1> DEFINE z == x \o y
           k == Len(x)
           l == Len(y)
<1>1. /\ k \in Nat /\ l \in Nat /\ Len(z) = k + l
      /\ \A i \in 1 .. k : z[i] = x[i]
      /\ \A i \in 1 .. l : z[k + i] = y[i]
  BY ConcatFacts
<1>2. PICK f : /\ f[0] = 0 /\ CharsOf(x) = f[k]
               /\ \A n \in 0 .. k - 1 : f[n + 1] = f[n] + Chars(x[n + 1])
  BY <1>1, CharsSums
<1>3. PICK g : /\ g[0] = 0 /\ CharsOf(y) = g[l]
               /\ \A n \in 0 .. l - 1 : g[n + 1] = g[n] + Chars(y[n + 1])
  BY <1>1, CharsSums
<1>4. PICK h : /\ h[0] = 0 /\ CharsOf(z) = h[k + l]
               /\ \A n \in 0 .. k + l - 1 : h[n + 1] = h[n] + Chars(z[n + 1])
  <2> HIDE DEF z
  <2>1. Len(z) \in Nat
    BY <1>1
  <2>2. \E h : /\ h[0] = 0 /\ CharsOf(z) = h[Len(z)]
               /\ \A n \in 0 .. Len(z) - 1 : h[n + 1] = h[n] + Chars(z[n + 1])
    BY <2>1, CharsSums
  <2> QED BY <1>1, <2>2
<1>5. (\A n \in 0 .. k : f[n] \in Nat) /\ (\A n \in 0 .. l : g[n] \in Nat)
  BY <1>1, <1>2, <1>3, SumsNat
<1> HIDE DEF z, k, l
<1> DEFINE S == {n \in Nat : n <= k => h[n] = f[n]}
<1>6. 0 \in S
  BY <1>2, <1>4
<1>7. ASSUME NEW n \in Nat, n \in S PROVE n + 1 \in S
  <2> SUFFICES ASSUME n + 1 <= k PROVE h[n + 1] = f[n + 1]
    OBVIOUS
  <2>1. n \in 0 .. k - 1 /\ n \in 0 .. k + l - 1 /\ n <= k /\ n + 1 \in 1 .. k
    BY <1>1
  <2>2. h[n] = f[n] /\ z[n + 1] = x[n + 1]
    BY <1>1, <1>7, <2>1
  <2> QED BY <1>2, <1>4, <2>1, <2>2
<1>8. h[k] = f[k]
  <2> HIDE DEF S
  <2>1. k \in S
    BY <1>1, <1>6, <1>7, Induct
  <2> QED BY <1>1, <2>1 DEF S
<1> DEFINE R == {n \in Nat : n <= l => h[k + n] = f[k] + g[n]}
<1>9. 0 \in R
  <2>1. k + 0 = k /\ k \in 0 .. k
    BY <1>1
  <2>2. f[k] + 0 = f[k]
    BY <1>5, <2>1
  <2> QED BY <1>3, <1>8, <2>1, <2>2
<1>10. ASSUME NEW n \in Nat, n \in R PROVE n + 1 \in R
  <2> SUFFICES ASSUME n + 1 <= l PROVE h[k + (n + 1)] = f[k] + g[n + 1]
    OBVIOUS
  <2> DEFINE j == k + n
  <2>1. /\ n \in 0 .. l - 1 /\ n \in 0 .. l /\ k \in 0 .. k /\ j \in 0 .. k + l - 1 /\ n <= l /\ n + 1 \in 1 .. l
        /\ k + (n + 1) = j + 1
    BY <1>1
  <2>2. h[j] = f[k] + g[n]
    BY <1>10, <2>1
  <2>3. z[j + 1] = y[n + 1]
    BY <1>1, <2>1
  <2> HIDE DEF j
  <2>4. h[j + 1] = h[j] + Chars(z[j + 1])
    BY <1>4, <2>1
  <2>5. g[n + 1] = g[n] + Chars(y[n + 1])
    BY <1>3, <2>1
  <2>6. f[k] \in Nat /\ g[n] \in Nat /\ Chars(y[n + 1]) \in Nat
    BY <1>5, <2>1, CharsNat
  <2> QED BY <2>1, <2>2, <2>3, <2>4, <2>5, <2>6
<1>11. h[k + l] = f[k] + g[l]
  <2> HIDE DEF R
  <2>1. l \in R
    BY <1>1, <1>9, <1>10, Induct
  <2> QED BY <1>1, <2>1 DEF R
<1> QED BY <1>2, <1>3, <1>4, <1>11 DEF z, k, l

LEMMA CharsOfNat ==
  ASSUME NEW T, NEW x \in Seq(T)
  PROVE  CharsOf(x) \in Nat
<1>1. Len(x) \in Nat /\ Len(x) \in 0 .. Len(x)
  OBVIOUS
<1>2. PICK f : /\ f[0] = 0 /\ CharsOf(x) = f[Len(x)]
               /\ \A n \in 0 .. Len(x) - 1 : f[n + 1] = f[n] + Chars(x[n + 1])
  BY <1>1, CharsSums
<1> QED BY <1>1, <1>2, SumsNat

LEMMA CharsOne ==
  ASSUME NEW t
  PROVE  CharsOf(<<t>>) = Chars(t)
<1> DEFINE x == <<t>>
<1>1. Len(x) = 1 /\ x[1] = t
  OBVIOUS
<1> HIDE DEF x
<1>2. PICK f : /\ f[0] = 0 /\ CharsOf(x) = f[Len(x)]
               /\ \A n \in 0 .. Len(x) - 1 : f[n + 1] = f[n] + Chars(x[n + 1])
  BY <1>1, CharsSums
<1> DEFINE o == 0
<1>3. o \in 0 .. Len(x) - 1 /\ o + 1 = 1 /\ f[o] = o /\ \A i \in Nat : o + i = i
  BY <1>1, <1>2
<1> HIDE DEF o
<1>4. f[o + 1] = f[o] + Chars(x[o + 1])
  BY <1>2, <1>3
<1> QED BY <1>1, <1>2, <1>3, <1>4, CharsNat DEF x

LEMMA CharsTwo ==
  ASSUME NEW s, NEW t
  PROVE  CharsOf(<<s, t>>) = Chars(s) + Chars(t)
<1> DEFINE T == {s, t}
           x == <<s>>
           y == <<t>>
           z == <<s, t>>
<1>0. x \in Seq(T) /\ y \in Seq(T) /\ z \in Seq(T)
  <2>1. s \in T /\ t \in T
    OBVIOUS
  <2> HIDE DEF T
  <2> QED BY <2>1
<1>1. x \in Seq(T) /\ y \in Seq(T) /\ z = x \o y
  <2>1. Len(x) = 1 /\ Len(y) = 1 /\ Len(z) = 2 /\ x[1] = s /\ y[1] = t /\ z[1] = s /\ z[2] = t
    OBVIOUS
  <2> HIDE DEF T, x, y, z
  <2>2. x \o y \in Seq(T) /\ Len(x \o y) = Len(z)
    BY <1>0, <2>1, ConcatFacts
  <2>3. (x \o y)[1] = x[1] /\ (x \o y)[2] = y[1]
    <3>1. 1 \in 1 .. Len(x) /\ 1 \in 1 .. Len(y) /\ Len(x) + 1 = 2
      BY <2>1
    <3> QED BY <1>0, <3>1, ConcatFacts
  <2>4. \A i \in 1 .. Len(z) : i = 1 \/ i = 2
    BY <2>1
  <2> QED BY <1>0, <2>1, <2>2, <2>3, <2>4, SameParts
<1>2. CharsOf(<<s>> \o <<t>>) = CharsOf(<<s>>) + CharsOf(<<t>>)
  BY <1>1, CharsConcat
<1> QED BY <1>1, <1>2, CharsOne

-----------------------------------------------------------------------------
(* The characters of what Serialize adds.                                  *)
LEMMA CharsKnown ==
  /\ Chars("CR") = 1 /\ Chars("LF") = 1 /\ Chars("?") = 1 /\ Chars("1") = 1
  /\ Chars(GET) = 4 /\ Chars(POST) = 5 /\ Chars(RESPONSE) = 9 /\ Chars(Version) = 8
<1>1. DOMAIN HTTP_CODES_LENGTH = {"200", "204", "400", "403", "404", "406", "408", "503"}
  BY DEF HTTP_CODES_LENGTH
<1>2. ASSUME NEW t, t \in {"CR", "LF", "?", "1"}
      PROVE  /\ t \notin {Colon, GET, POST, RESPONSE, Version, ContentLength, Connection, RequestId, KeepAlive, "close"}
             /\ t \notin {"200", "204", "400", "403", "404", "406", "408", "503"}
  BY <1>2, Zenon DEF Colon, GET, POST, RESPONSE, Version, ContentLength, Connection, RequestId, KeepAlive
<1>3. ASSUME NEW t, t \in {"CR", "LF", "?", "1"} PROVE Chars(t) = 1
  BY <1>1, <1>2, <1>3 DEF Chars
<1>4. ASSUME NEW t, t \in {GET, POST, RESPONSE, Version}
      PROVE  /\ t \notin {Colon, ContentLength, Connection, RequestId, KeepAlive, "close"}
             /\ t \notin {"200", "204", "400", "403", "404", "406", "408", "503"}
  BY <1>4, Zenon DEF Colon, GET, POST, RESPONSE, Version, ContentLength, Connection, RequestId, KeepAlive
<1>5. GET \notin {POST, RESPONSE, Version} /\ POST \notin {RESPONSE, Version} /\ RESPONSE # Version
  BY Zenon DEF GET, POST, RESPONSE, Version
<1>6. Chars(GET) = 4 /\ Chars(POST) = 5 /\ Chars(RESPONSE) = 9 /\ Chars(Version) = 8
  <2>1. Chars(GET) = 4
    BY <1>1, <1>4, <1>5 DEF Chars
  <2>2. Chars(POST) = 5
    BY <1>1, <1>4, <1>5 DEF Chars
  <2>3. Chars(RESPONSE) = 9
    BY <1>1, <1>4, <1>5 DEF Chars
  <2>4. Chars(Version) = 8
    BY <1>1, <1>4, <1>5 DEF Chars
  <2> QED BY <2>1, <2>2, <2>3, <2>4
<1> QED BY <1>3, <1>6

LEMMA CharsCode ==
  ASSUME NEW c \in DOMAIN HTTP_CODES_LENGTH
  PROVE  Chars(c) = HTTP_CODES_LENGTH[c]
<1>1. c \in {"200", "204", "400", "403", "404", "406", "408", "503"}
  BY DEF HTTP_CODES_LENGTH
<1>2. c \notin {Colon, GET, POST, RESPONSE, Version, ContentLength, Connection, RequestId, KeepAlive, "close"}
  BY <1>1, Zenon DEF Colon, GET, POST, RESPONSE, Version, ContentLength, Connection, RequestId, KeepAlive
<1> QED BY <1>2 DEF Chars

-----------------------------------------------------------------------------
(* The header of an outgoing message is a stream of its lines.             *)
LinesOf(header) == [n \in 1 .. Len(header) |-> [text |-> LineOf(header[n])]]

LEMMA HeaderIsStream ==
  ASSUME NEW M, NEW m, m.header \in Seq(M)
  PROVE  HeaderText(m) = Stream(LinesOf(m.header))
<1> DEFINE hs == m.header
           N == Len(hs)
           ms == LinesOf(hs)
           Lines(f) == f = [n \in 0 .. N |-> IF n = 0 THEN << >> ELSE f[n - 1] \o LineOf(hs[n])]
           f == CHOOSE f : Lines(f)
           g == CHOOSE g : Streams(ms, g)
<1>1. N \in Nat /\ Len(ms) = N /\ \A n \in 1 .. N : ms[n].text = LineOf(hs[n])
  <2>1. N \in Nat
    OBVIOUS
  <2> HIDE DEF hs
  <2> QED BY <2>1 DEF LinesOf
<1> HIDE DEF ms
<1>2. ASSUME NEW k, Streams(ms, k) PROVE Lines(k)
  <2>1. k = [n \in 0 .. N |-> IF n = 0 THEN << >> ELSE k[n - 1] \o ms[n].text]
    BY <1>1, <1>2 DEF Streams
  <2>2. \A n \in 0 .. N : n # 0 => ms[n].text = LineOf(hs[n])
    BY <1>1
  <2> HIDE DEF hs, N
  <2> DEFINE q == [n \in 0 .. N |-> IF n = 0 THEN << >> ELSE k[n - 1] \o LineOf(hs[n])]
  <2>3. k = q
    BY <2>1, <2>2
  <2> QED BY <2>3
<1>3. ASSUME NEW k, Lines(k) PROVE Streams(ms, k)
  <2>2. \A n \in 0 .. N : n # 0 => ms[n].text = LineOf(hs[n])
    BY <1>1
  <2>1. k = [n \in 0 .. N |-> IF n = 0 THEN << >> ELSE k[n - 1] \o LineOf(hs[n])]
    BY <1>3
  <2> HIDE DEF hs, N
  <2> DEFINE q == [n \in 0 .. N |-> IF n = 0 THEN << >> ELSE k[n - 1] \o ms[n].text]
  <2>3. k = q
    BY <2>1, <2>2
  <2> QED BY <1>1, <2>3 DEF Streams
<1>4. \E k : Streams(ms, k)
  BY <1>1, StreamsExist
<1>5. Streams(ms, g)
  BY <1>4
<1>6. Lines(f)
  <2>1. \E k : Lines(k)
    BY <1>2, <1>4
  <2> HIDE DEF Lines
  <2> QED BY <2>1
<1>7. HeaderText(m) = f[N]
  BY DEF HeaderText
<1>8. Stream(ms) = g[N]
  BY <1>1 DEF Stream, Streams
<1>9. Streams(ms, f)
  <2> HIDE DEF f, Lines
  <2> QED BY <1>3, <1>6
<1> HIDE DEF f, g
<1>10. f[N] = g[N]
  <2> HIDE DEF N
  <2> QED BY <1>1, <1>5, <1>9, StreamsAgree
<1> QED BY <1>7, <1>8, <1>10 DEF ms

LEMMA HeaderTyped ==
  ASSUME NEW T, {Colon, "CR", "LF"} \subseteq T, NEW m, m.header \in Seq([key : T, value : T])
  PROVE  /\ HeaderText(m) \in Seq(T)
         /\ LinesOf(m.header) \in Seq({x \in [text : Seq(T)] : Len(x.text) = 5})
<1> DEFINE hs == m.header
           ms == LinesOf(hs)
           M == {x \in [text : Seq(T)] : Len(x.text) = 5}
<1>1. ASSUME NEW h \in [key : T, value : T] PROVE LineOf(h) \in Seq(T) /\ Len(LineOf(h)) = 5
  <2> DEFINE x == <<h.key, Colon, h.value>>
             y == CrLf
  <2>1. h.key \in T /\ h.value \in T /\ Colon \in T /\ "CR" \in T /\ "LF" \in T
    OBVIOUS
  <2>2. x \in Seq(T) /\ Len(x) = 3
    BY <2>1
  <2>3. y \in Seq(T) /\ Len(y) = 2
    BY <2>1 DEF CrLf
  <2> HIDE DEF x, y
  <2>4. x \o y \in Seq(T) /\ Len(x \o y) = 5
    <3>1. x \in Seq(T) /\ y \in Seq(T)
      BY <2>2, <2>3
    <3>2. x \o y \in Seq(T) /\ Len(x \o y) = Len(x) + Len(y)
      BY <3>1, ConcatFacts
    <3> QED BY <2>2, <2>3, <3>2
  <2> QED BY <2>4 DEF LineOf, x, y
<1>2. ms \in Seq(M)
  <2> DEFINE H == [key : T, value : T]
  <2>0. hs \in Seq(H)
    OBVIOUS
  <2>1. Len(hs) \in Nat /\ \A n \in 1 .. Len(hs) : hs[n] \in H
    <3> HIDE DEF hs, H
    <3> QED BY <2>0
  <2> HIDE DEF hs
  <2>2. \A n \in 1 .. Len(hs) : [text |-> LineOf(hs[n])] \in M
    BY <1>1, <2>1
  <2> HIDE DEF M
  <2> QED BY <2>1, <2>2 DEF LinesOf
<1>3. HeaderText(m) = Stream(ms)
  BY HeaderIsStream
<1>4. Len(ms) \in 0 .. Len(ms)
  <2> HIDE DEF ms
  <2> QED BY <1>2
<1>5. Stream(ms) \in Seq(T)
  <2>1. \A x \in M : x.text \in Seq(T)
    OBVIOUS
  <2> HIDE DEF ms, M
  <2> QED BY <1>2, <1>4, <2>1, StreamParts
<1> QED BY <1>2, <1>3, <1>5

LEMMA PreparedTyped ==
  ASSUME NEW T, ContentLength \in T, \A n \in Nat : ToString(n) \in T, NEW o \in Outgoing(T)
  PROVE  Prepared(o) \in Outgoing(T)
<1> DEFINE H == [key : T, value : T]
<1>1. o.header \in Seq(H) /\ o.data \in Seq(T)
  BY DEF Outgoing
<1>2. Len(o.data) \in Nat
  BY <1>1
<1>3. [key |-> ContentLength, value |-> ToString(Len(o.data))] \in H
  BY <1>2
<1>4. Append(o.header, [key |-> ContentLength, value |-> ToString(Len(o.data))]) \in Seq(H)
  <2> HIDE DEF H
  <2> QED BY <1>1, <1>3
<1>5. Announced(o) \in Outgoing(T)
  BY <1>4 DEF Announced, AddHeader, Outgoing
<1>6. SetResponseCode(o, "204") \in Outgoing(T)
  BY DEF SetResponseCode, Outgoing, HTTP_CODES_LENGTH
<1> QED BY <1>5, <1>6 DEF Prepared

LEMMA CharsOfParts ==
  ASSUME NEW T, {GET, POST, RESPONSE, Version, "1", "?", "CR", "LF"} \subseteq T
  PROVE  /\ CrLf \in Seq(T) /\ CharsOf(CrLf) = 2
         /\ Protocol \in Seq(T) /\ CharsOf(Protocol) = 11
         /\ <<GET>> \in Seq(T) /\ CharsOf(<<GET>>) = 4
         /\ <<POST>> \in Seq(T) /\ CharsOf(<<POST>>) = 5
         /\ <<"?">> \in Seq(T) /\ CharsOf(<<"?">>) = 1
<1>1. CrLf \in Seq(T) /\ CharsOf(CrLf) = 2
  <2>1. CrLf \in Seq(T)
    BY DEF CrLf
  <2>2. CharsOf(<<"CR", "LF">>) = Chars("CR") + Chars("LF")
    BY CharsTwo
  <2> QED BY <2>1, <2>2, CharsKnown DEF CrLf
<1>2. Protocol \in Seq(T) /\ CharsOf(Protocol) = 11
  <2> DEFINE x == <<Version, "1">>
  <2>1. x \in Seq(T)
    OBVIOUS
  <2>2. CharsOf(x) = 9
    <3>1. CharsOf(<<Version, "1">>) = Chars(Version) + Chars("1")
      BY CharsTwo
    <3> QED BY <3>1, CharsKnown
  <2> HIDE DEF x
  <2>3. x \o CrLf \in Seq(T)
    BY <1>1, <2>1, ConcatFacts
  <2>4. CharsOf(x \o CrLf) = CharsOf(x) + CharsOf(CrLf)
    BY <1>1, <2>1, CharsConcat
  <2>5. Protocol = x \o CrLf
    BY DEF Protocol, x
  <2> QED BY <1>1, <2>2, <2>3, <2>4, <2>5
<1>3. <<GET>> \in Seq(T) /\ <<POST>> \in Seq(T) /\ <<"?">> \in Seq(T)
  OBVIOUS
<1>4. CharsOf(<<GET>>) = 4 /\ CharsOf(<<POST>>) = 5 /\ CharsOf(<<"?">>) = 1
  BY CharsOne, CharsKnown
<1> QED BY <1>1, <1>2, <1>3, <1>4

LEMMA CharsAdd ==
  ASSUME NEW T, NEW x \in Seq(T), NEW y \in Seq(T)
  PROVE  x \o y \in Seq(T) /\ CharsOf(x \o y) = CharsOf(x) + CharsOf(y)
BY CharsConcat, ConcatFacts

LEMMA WrittenFits ==
  ASSUME NEW T, {Colon, GET, POST, RESPONSE, Version, "1", "?", "CR", "LF"} \subseteq T,
         DOMAIN HTTP_CODES_LENGTH \subseteq T, NEW p \in Outgoing(T)
  PROVE  CharsOf(Written(p)) + 1 =
           IF p.method = RESPONSE
           THEN HTTP_CODES_LENGTH[p.code] + CharsOf(HeaderText(p)) + CharsOf(p.data) + 14
           ELSE CharsOf(p.uri) + CharsOf(HeaderText(p)) + CharsOf(p.data) + 19
<1> DEFINE H == HeaderText(p)
           h == CharsOf(H)
           u == CharsOf(p.uri)
           d == CharsOf(p.data)
           k == HTTP_CODES_LENGTH[p.code]
<1>1. /\ p.method \in {GET, POST, RESPONSE} /\ p.code \in DOMAIN HTTP_CODES_LENGTH
      /\ p.uri \in Seq(T) /\ p.data \in Seq(T) /\ p.header \in Seq([key : T, value : T])
  BY DEF Outgoing
<1>2. H \in Seq(T)
  BY <1>1, HeaderTyped
<1> HIDE DEF H
<1>3. h \in Nat /\ u \in Nat /\ d \in Nat
  BY <1>1, <1>2, CharsOfNat
<1>4. k \in Nat
  BY <1>1, CodeLengths
<1>5. /\ CrLf \in Seq(T) /\ CharsOf(CrLf) = 2 /\ Protocol \in Seq(T) /\ CharsOf(Protocol) = 11
      /\ <<GET>> \in Seq(T) /\ CharsOf(<<GET>>) = 4 /\ <<POST>> \in Seq(T) /\ CharsOf(<<POST>>) = 5
      /\ <<"?">> \in Seq(T) /\ CharsOf(<<"?">>) = 1
  BY CharsOfParts
<1>6. /\ CharsOf(H) = h /\ CharsOf(p.uri) = u /\ CharsOf(p.data) = d /\ GET # POST
      /\ GET # RESPONSE /\ POST # RESPONSE
  BY TokensDiffer
<1> HIDE DEF h, u, d, k
<1> DEFINE get  == <<GET>>
           post == <<POST>>
           mark == <<"?">>
<1>50. /\ get \in Seq(T) /\ CharsOf(get) = 4 /\ post \in Seq(T) /\ CharsOf(post) = 5
       /\ mark \in Seq(T) /\ CharsOf(mark) = 1
  BY <1>5
<1> HIDE DEF get, post, mark
<1>7. CASE p.method = GET
  <2> DEFINE a == get \o p.uri
             b == a \o mark
             c == b \o p.data
             e == c \o Protocol
             f == e \o H
             g == f \o CrLf
  <2>2. Written(p) = g
    BY <1>6, <1>7 DEF Written, H, get, mark
  <2>1. a \in Seq(T) /\ CharsOf(a) = 4 + u
    BY <1>1, <1>50, <1>6, CharsAdd
  <2> HIDE DEF a
  <2>3. b \in Seq(T) /\ CharsOf(b) = 5 + u
    BY <1>3, <1>5, <1>50, <2>1, CharsAdd
  <2> HIDE DEF b
  <2>4. c \in Seq(T) /\ CharsOf(c) = 5 + u + d
    BY <1>1, <1>3, <1>6, <2>3, CharsAdd
  <2> HIDE DEF c
  <2>5. e \in Seq(T) /\ CharsOf(e) = 16 + u + d
    BY <1>3, <1>5, <2>4, CharsAdd
  <2> HIDE DEF e
  <2>6. f \in Seq(T) /\ CharsOf(f) = 16 + u + d + h
    BY <1>2, <1>3, <1>6, <2>5, CharsAdd
  <2> HIDE DEF f
  <2>7. g \in Seq(T) /\ CharsOf(g) = 18 + u + d + h
    BY <1>3, <1>5, <2>6, CharsAdd
  <2> HIDE DEF g
  <2> QED BY <1>3, <1>6, <1>7, <2>2, <2>7 DEF u, d, h, H
<1>8. CASE p.method = POST
  <2> DEFINE a == post \o p.uri
             b == a \o Protocol
             c == b \o H
             e == c \o CrLf
             f == e \o p.data
  <2>2. Written(p) = f
    BY <1>6, <1>8 DEF Written, H, post
  <2>1. a \in Seq(T) /\ CharsOf(a) = 5 + u
    BY <1>1, <1>50, <1>6, CharsAdd
  <2> HIDE DEF a
  <2>3. b \in Seq(T) /\ CharsOf(b) = 16 + u
    BY <1>3, <1>5, <1>50, <2>1, CharsAdd
  <2> HIDE DEF b
  <2>4. c \in Seq(T) /\ CharsOf(c) = 16 + u + h
    BY <1>2, <1>3, <1>6, <2>3, CharsAdd
  <2> HIDE DEF c
  <2>5. e \in Seq(T) /\ CharsOf(e) = 18 + u + h
    BY <1>3, <1>5, <2>4, CharsAdd
  <2> HIDE DEF e
  <2>6. f \in Seq(T) /\ CharsOf(f) = 18 + u + h + d
    BY <1>1, <1>3, <1>6, <2>5, CharsAdd
  <2> HIDE DEF f
  <2> QED BY <1>3, <1>6, <1>8, <2>2, <2>6 DEF u, d, h, H
<1>9. CASE p.method = RESPONSE
  <2> DEFINE a == <<RESPONSE, p.code>>
             b == a \o CrLf
             c == b \o H
             e == c \o CrLf
             f == e \o p.data
  <2>1. a \in Seq(T) /\ CharsOf(a) = 9 + k
    <3>1. CharsOf(<<RESPONSE, p.code>>) = Chars(RESPONSE) + Chars(p.code)
      BY CharsTwo
    <3>2. Chars(p.code) = k
      BY <1>1, CharsCode DEF k
    <3>3. a \in Seq(T)
      <4>1. RESPONSE \in T /\ p.code \in T
        BY <1>1
      <4> QED BY <4>1
    <3> QED BY <3>1, <3>2, <3>3, CharsKnown
  <2>2. Written(p) = f
    BY <1>6, <1>9 DEF Written, H
  <2> HIDE DEF a
  <2>3. b \in Seq(T) /\ CharsOf(b) = 11 + k
    BY <1>4, <1>5, <2>1, CharsAdd
  <2> HIDE DEF b
  <2>4. c \in Seq(T) /\ CharsOf(c) = 11 + k + h
    BY <1>2, <1>3, <1>4, <1>6, <2>3, CharsAdd
  <2> HIDE DEF c
  <2>5. e \in Seq(T) /\ CharsOf(e) = 13 + k + h
    BY <1>3, <1>4, <1>5, <2>4, CharsAdd
  <2> HIDE DEF e
  <2>6. f \in Seq(T) /\ CharsOf(f) = 13 + k + h + d
    BY <1>1, <1>3, <1>4, <1>6, <2>5, CharsAdd
  <2> HIDE DEF f
  <2> QED BY <1>3, <1>4, <1>9, <2>2, <2>6 DEF k, d, h, H
<1> QED BY <1>1, <1>7, <1>8, <1>9

(* The text and its NUL fill what Serialize allocates.                     *)
LEMMA SerializeFits ==
  ASSUME NEW o \in Outgoing(STRING)
  PROVE  CharsOf(Serialize(o)) + 1 = Allocated(o)
<1> DEFINE W == {Colon, GET, POST, RESPONSE, Version, ContentLength, "1", "?", "CR", "LF"}
           T == STRING \cup W \cup DOMAIN HTTP_CODES_LENGTH \cup {ToString(n) : n \in Nat}
           p == Prepared(o)
<1>2. /\ {Colon, GET, POST, RESPONSE, Version, "1", "?", "CR", "LF"} \subseteq T
      /\ ContentLength \in T /\ DOMAIN HTTP_CODES_LENGTH \subseteq T /\ STRING \subseteq T
  OBVIOUS
<1>3. \A n \in Nat : ToString(n) \in T
  OBVIOUS
<1> HIDE DEF T
<1>4. o \in Outgoing(T)
  <2>1. Seq(STRING) \subseteq Seq(T)
    <3> DEFINE A == STRING
    <3>1. A \subseteq T
      BY <1>2
    <3> HIDE DEF A
    <3>2. Seq(A) \subseteq Seq(T)
      BY <3>1
    <3> QED BY <3>2 DEF A
  <2>2. Seq([key : STRING, value : STRING]) \subseteq Seq([key : T, value : T])
    <3>1. [key : STRING, value : STRING] \subseteq [key : T, value : T]
      BY <1>2
    <3> DEFINE A == [key : STRING, value : STRING]
               B == [key : T, value : T]
    <3>2. A \subseteq B
      BY <3>1
    <3> HIDE DEF A, B
    <3>3. Seq(A) \subseteq Seq(B)
      BY <3>2
    <3> QED BY <3>3 DEF A, B
  <2> QED BY <2>1, <2>2 DEF Outgoing
<1>5. p \in Outgoing(T)
  BY <1>2, <1>3, <1>4, PreparedTyped
<1> HIDE DEF p
<1>6. CharsOf(Written(p)) + 1 =
        IF p.method = RESPONSE
        THEN HTTP_CODES_LENGTH[p.code] + CharsOf(HeaderText(p)) + CharsOf(p.data) + 14
        ELSE CharsOf(p.uri) + CharsOf(HeaderText(p)) + CharsOf(p.data) + 19
  BY <1>2, <1>5, WrittenFits
<1> QED BY <1>6 DEF Serialize, Allocated, p

(* OutgoingHttpMessage::Serialize allocates as many characters as it       *)
(* writes, for every message that the setters can make.                    *)
THEOREM OwnTextFits ==
  ASSUME OwnTexts
  PROVE  Spec => []TextFits
<1> DEFINE Typed == sent \in Seq(Sendable)
<1>1. Init => Typed
  BY ReadAssumption DEF Init
<1>2. Typed /\ [Next]_vars => Typed'
  BY DEF Next, vars, EventRead, EventReadNothing, Quiet
<1>3. Typed => TextFits
  <2> SUFFICES ASSUME sent \in Seq(Sendable), NEW i \in DOMAIN sent, sent[i].own # << >>
               PROVE  CharsOf(sent[i].text) + 1 = Allocated(sent[i].own[1])
    BY DEF TextFits
  <2>1. sent[i] \in Sendable
    OBVIOUS
  <2>2. sent[i].own[1] \in Outgoing(STRING) /\ sent[i].text = Serialize(sent[i].own[1])
    BY <2>1 DEF OwnTexts
  <2> QED BY <2>2, SerializeFits
<1> HIDE DEF Typed
<1> QED BY <1>1, <1>2, <1>3, PTL DEF Spec

-----------------------------------------------------------------------------
(* What the parser makes of a message that Serialize has made.             *)
LEMMA AtConcat ==
  ASSUME NEW T, NEW x \in Seq(T), NEW y \in Seq(T)
  PROVE  /\ \A i \in 0 .. Len(x) - 1 : At(x \o y, i) = At(x, i)
         /\ \A i \in 0 .. Len(y) - 1 : At(x \o y, Len(x) + i) = At(y, i)
<1>1. Len(x) \in Nat /\ Len(y) \in Nat
  OBVIOUS
<1> DEFINE z == x \o y
<1>2. /\ Len(z) = Len(x) + Len(y)
      /\ \A i \in 1 .. Len(x) : z[i] = x[i]
      /\ \A i \in 1 .. Len(y) : z[Len(x) + i] = y[i]
  BY ConcatFacts
<1> HIDE DEF z
<1>3. ASSUME NEW i \in 0 .. Len(x) - 1 PROVE At(z, i) = At(x, i)
  <2>1. i + 1 \in 1 .. Len(x) /\ i < Len(x) /\ i < Len(z)
    BY <1>1, <1>2
  <2> QED BY <1>2, <2>1 DEF At
<1>4. ASSUME NEW i \in 0 .. Len(y) - 1 PROVE At(z, Len(x) + i) = At(y, i)
  <2>1. i + 1 \in 1 .. Len(y) /\ i < Len(y) /\ Len(x) + i < Len(z) /\ Len(x) + i + 1 = Len(x) + (i + 1)
    BY <1>1, <1>2
  <2> DEFINE j == i + 1
  <2>2. z[Len(x) + j] = y[j]
    <3> HIDE DEF j
    <3> QED BY <1>2, <2>1 DEF j
  <2> QED BY <2>1, <2>2 DEF At
<1> QED BY <1>3, <1>4 DEF z

LEMMA ConcatParts ==
  ASSUME NEW T, NEW x \in Seq(T), NEW y \in Seq(T), NEW z \in Seq(T)
  PROVE  (x \o y) \o z = x \o (y \o z) /\ x \o << >> = x
<1> DEFINE a == (x \o y) \o z
           b == x \o (y \o z)
<1>1. a \in Seq(T) /\ b \in Seq(T) /\ Len(a) = Len(b)
  BY ConcatFacts
<1>2. ASSUME NEW i \in 1 .. Len(a) PROVE a[i] = b[i]
  OBVIOUS
<1>3. a = b
  <2> HIDE DEF a, b
  <2> QED BY <1>1, <1>2, SameParts
<1>4. x \o << >> = x
  OBVIOUS
<1> QED BY <1>3, <1>4

(* The first line of a request, g with its blank, the URI and the protocol. *)
LEMMA LineOpens ==
  ASSUME NEW T, {Version, "1", "CR", "LF"} \subseteq T, NEW g \in T, NEW u \in Seq(T)
  PROVE  LET a == <<g>> \o u \o Protocol
         IN  /\ a \in Seq(T) /\ Len(a) = Len(u) + 5
             /\ At(a, 0) = g
             /\ \A i \in 1 .. Len(u) : At(a, i) = u[i]
             /\ At(a, Len(u) + 1) = Version /\ At(a, Len(u) + 2) = "1"
             /\ At(a, Len(u) + 3) = "CR" /\ At(a, Len(u) + 4) = "LF"
<1> DEFINE f == <<g>>
           b == f \o u
           p == Protocol
           a == b \o p
           n == Len(u)
<1>1. n \in Nat
  OBVIOUS
<1>2. f \in Seq(T) /\ Len(f) = 1 /\ At(f, 0) = g
  BY DEF At
<1>3. /\ p \in Seq(T) /\ Len(p) = 4
      /\ At(p, 0) = Version /\ At(p, 1) = "1" /\ At(p, 2) = "CR" /\ At(p, 3) = "LF"
  <2> DEFINE x == <<Version, "1">>
             y == <<"CR", "LF">>
  <2>1. x \in Seq(T) /\ y \in Seq(T)
    OBVIOUS
  <2>2. Len(x) = 2 /\ x[1] = Version /\ x[2] = "1" /\ Len(y) = 2 /\ y[1] = "CR" /\ y[2] = "LF"
    OBVIOUS
  <2> HIDE DEF x, y
  <2>3. p = x \o y
    BY DEF Protocol, CrLf, x, y
  <2>4. /\ x \o y \in Seq(T) /\ Len(x \o y) = 4
        /\ \A i \in 0 .. 1 : At(x \o y, i) = At(x, i)
        /\ \A i \in 0 .. 1 : At(x \o y, 2 + i) = At(y, i)
    <3>1. /\ x \o y \in Seq(T) /\ Len(x \o y) = Len(x) + Len(y)
      BY <2>1, ConcatFacts
    <3>2. /\ \A i \in 0 .. Len(x) - 1 : At(x \o y, i) = At(x, i)
          /\ \A i \in 0 .. Len(y) - 1 : At(x \o y, Len(x) + i) = At(y, i)
      BY <2>1, AtConcat
    <3> QED BY <2>2, <3>1, <3>2
  <2> HIDE DEF p
  <2>5. At(x, 0) = Version /\ At(x, 1) = "1" /\ At(y, 0) = "CR" /\ At(y, 1) = "LF"
    BY <2>2 DEF At
  <2>6. At(p, 0) = At(x, 0) /\ At(p, 1) = At(x, 1)
    BY <2>3, <2>4
  <2>7. At(p, 2) = At(y, 0) /\ At(p, 3) = At(y, 1)
    BY <2>3, <2>4
  <2> QED BY <2>3, <2>4, <2>5, <2>6, <2>7
<1> HIDE DEF f, p
<1>4. /\ b \in Seq(T) /\ Len(b) = 1 + n
      /\ At(b, 0) = g /\ \A i \in 0 .. n - 1 : At(b, 1 + i) = At(u, i)
  <2>1. b \in Seq(T) /\ Len(b) = Len(f) + Len(u)
    BY <1>2, ConcatFacts
  <2>2. /\ \A i \in 0 .. Len(f) - 1 : At(b, i) = At(f, i)
        /\ \A i \in 0 .. Len(u) - 1 : At(b, Len(f) + i) = At(u, i)
    <3>1. f \in Seq(T) /\ u \in Seq(T)
      BY <1>2
    <3> QED BY <3>1, AtConcat
  <2> HIDE DEF b
  <2> QED BY <1>1, <1>2, <2>1, <2>2
<1> HIDE DEF b
<1>5. /\ a \in Seq(T) /\ Len(a) = n + 5
      /\ \A i \in 0 .. n : At(a, i) = At(b, i)
      /\ \A i \in 0 .. 3 : At(a, n + 1 + i) = At(p, i)
  <2>1. a \in Seq(T) /\ Len(a) = Len(b) + Len(p)
    BY <1>3, <1>4, ConcatFacts
  <2>2. /\ \A i \in 0 .. Len(b) - 1 : At(a, i) = At(b, i)
        /\ \A i \in 0 .. Len(p) - 1 : At(a, Len(b) + i) = At(p, i)
    <3>1. b \in Seq(T) /\ p \in Seq(T)
      BY <1>3, <1>4
    <3> QED BY <3>1, AtConcat
  <2> HIDE DEF a
  <2> QED BY <1>1, <1>3, <1>4, <2>1, <2>2
<1> HIDE DEF a
<1>6. ASSUME NEW i \in 1 .. n PROVE At(a, i) = u[i]
  <2> DEFINE j == i - 1
  <2>1. j \in 0 .. n - 1 /\ 1 + j = i /\ i \in 0 .. n /\ j + 1 = i /\ j < n
    BY <1>1
  <2> HIDE DEF j
  <2>2. At(b, 1 + j) = At(u, j)
    BY <1>4, <2>1
  <2>3. At(u, j) = u[j + 1]
    BY <2>1 DEF At
  <2> QED BY <1>5, <2>1, <2>2, <2>3
<1>7. /\ At(a, n + 1 + 0) = At(p, 0) /\ At(a, n + 1 + 1) = At(p, 1)
      /\ At(a, n + 1 + 2) = At(p, 2) /\ At(a, n + 1 + 3) = At(p, 3)
  <2>1. 0 \in 0 .. 3 /\ 1 \in 0 .. 3 /\ 2 \in 0 .. 3 /\ 3 \in 0 .. 3
    OBVIOUS
  <2> QED BY <1>5, <2>1
<1>8. n + 1 + 0 = n + 1 /\ n + 1 + 1 = n + 2 /\ n + 1 + 2 = n + 3 /\ n + 1 + 3 = n + 4 /\ 0 \in 0 .. n
  BY <1>1
<1>9. /\ At(a, n + 1) = Version /\ At(a, n + 2) = "1"
      /\ At(a, n + 3) = "CR" /\ At(a, n + 4) = "LF" /\ At(a, 0) = g
  BY <1>3, <1>4, <1>5, <1>7, <1>8
<1> QED BY <1>5, <1>6, <1>9 DEF a, b, f, p

(* The first line of a reply.                                              *)
LEMMA ReplyStarts ==
  ASSUME NEW T, {RESPONSE, "CR", "LF"} \subseteq T, NEW c \in T
  PROVE  LET a == <<RESPONSE, c>> \o CrLf
         IN  /\ a \in Seq(T) /\ Len(a) = 4
             /\ At(a, 0) = RESPONSE /\ At(a, 1) = c /\ At(a, 2) = "CR" /\ At(a, 3) = "LF"
<1> DEFINE x == <<RESPONSE, c>>
           y == CrLf
           a == x \o y
<1>1. /\ x \in Seq(T) /\ Len(x) = 2 /\ At(x, 0) = RESPONSE /\ At(x, 1) = c
      /\ y \in Seq(T) /\ Len(y) = 2 /\ At(y, 0) = "CR" /\ At(y, 1) = "LF"
  BY DEF At, CrLf
<1> HIDE DEF x, y
<1>2. x \in Seq(T) /\ y \in Seq(T)
  BY <1>1
<1>3. a \in Seq(T) /\ Len(a) = Len(x) + Len(y)
  BY <1>2, ConcatFacts
<1>4. /\ \A i \in 0 .. Len(x) - 1 : At(a, i) = At(x, i)
      /\ \A i \in 0 .. Len(y) - 1 : At(a, Len(x) + i) = At(y, i)
  BY <1>2, AtConcat
<1> HIDE DEF a
<1>5. /\ \A i \in 0 .. 1 : At(a, i) = At(x, i)
      /\ \A i \in 0 .. 1 : At(a, 2 + i) = At(y, i)
  BY <1>1, <1>4
<1>6. At(a, 0) = At(x, 0) /\ At(a, 1) = At(x, 1)
  BY <1>5
<1>7. At(a, 2) = At(y, 0) /\ At(a, 3) = At(y, 1)
  BY <1>5
<1> QED BY <1>1, <1>3, <1>6, <1>7 DEF a, x, y

(* The lines of a header, each five tokens behind the one before.          *)
LEMMA LinesAt ==
  ASSUME NEW T, {Colon, "CR", "LF"} \subseteq T, NEW m, m.header \in Seq([key : T, value : T])
  PROVE  LET H == HeaderText(m)
         IN  /\ H \in Seq(T) /\ Len(H) = 5 * Len(m.header)
             /\ \A i \in 0 .. Len(m.header) - 1 :
                  /\ At(H, 5 * i) = m.header[i + 1].key /\ At(H, 5 * i + 1) = Colon
                  /\ At(H, 5 * i + 2) = m.header[i + 1].value
                  /\ At(H, 5 * i + 3) = "CR" /\ At(H, 5 * i + 4) = "LF"
<1> DEFINE hs == m.header
           N == Len(hs)
           ms == LinesOf(hs)
           H == HeaderText(m)
           M == {x \in [text : Seq(T)] : Len(x.text) = 5}
           K == [key : T, value : T]
<1>1. ms \in Seq(M) /\ H \in Seq(T) /\ H = Stream(ms)
  BY HeaderTyped, HeaderIsStream
<1>2. hs \in Seq(K)
  OBVIOUS
<1>3. N \in Nat /\ Len(ms) = N /\ \A i \in 1 .. N : hs[i] \in K /\ ms[i].text = LineOf(hs[i])
  <2>1. N \in Nat /\ \A i \in 1 .. N : hs[i] \in K
    <3> HIDE DEF hs, K
    <3> QED BY <1>2
  <2> HIDE DEF hs, K
  <2>2. Len(ms) = N /\ \A i \in 1 .. N : ms[i].text = LineOf(hs[i])
    BY <2>1 DEF LinesOf
  <2> QED BY <2>1, <2>2
<1>4. \A x \in M : x.text \in Seq(T) /\ Len(x.text) = 5
  OBVIOUS
<1> HIDE DEF hs, ms, H, M
<1>5. \A i \in 0 .. N - 1 :
        /\ Off(ms, i + 1) = Off(ms, i) + 5
        /\ \A j \in 0 .. 4 : At(Stream(ms), Off(ms, i) + j) = At(ms[i + 1].text, j)
  <2> TAKE i \in 0 .. N - 1
  <2>1. i \in 0 .. Len(ms) - 1 /\ i + 1 \in 1 .. Len(ms)
    BY <1>3
  <2>2. ms[i + 1] \in M
    BY <1>1, <2>1
  <2>3. \A x \in M : x.text \in Seq(T)
    BY <1>4
  <2>4. /\ Off(ms, i + 1) = Off(ms, i) + Len(ms[i + 1].text)
        /\ \A j \in 0 .. Len(ms[i + 1].text) - 1 :
             At(Stream(ms), Off(ms, i) + j) = At(ms[i + 1].text, j)
    BY <1>1, <2>1, <2>3, StreamNext
  <2>5. Len(ms[i + 1].text) = 5
    BY <1>4, <2>2
  <2> QED BY <2>4, <2>5
<1> DEFINE S == {i \in Nat : i <= N => Off(ms, i) = 5 * i}
<1>6. 0 \in S /\ \A i \in 0 .. N : Off(ms, i) \in Nat
  <2>1. \A x \in M : x.text \in Seq(T)
    BY <1>4
  <2>2. 0 \in 0 .. Len(ms)
    BY <1>3
  <2>3. Off(ms, 0) = 0
    BY <1>1, <2>1, <2>2, StreamParts
  <2>4. \A i \in 0 .. Len(ms) : Off(ms, i) \in Nat
    BY <1>1, <2>1, PrefixTexts
  <2> QED BY <1>3, <2>3, <2>4
<1>7. ASSUME NEW i \in Nat, i \in S PROVE i + 1 \in S
  <2> SUFFICES ASSUME i + 1 <= N PROVE Off(ms, i + 1) = 5 * (i + 1)
    OBVIOUS
  <2>1. i \in 0 .. N - 1 /\ i <= N
    BY <1>3
  <2> QED BY <1>5, <1>7, <2>1
<1> HIDE DEF S
<1>8. Nat \subseteq S
  BY <1>6, <1>7, Induct
<1>9. \A i \in 0 .. N : Off(ms, i) = 5 * i
  <2> TAKE i \in 0 .. N
  <2>1. i \in S /\ i <= N
    BY <1>3, <1>8
  <2> QED BY <2>1 DEF S
<1>10. Len(H) = 5 * N
  <2>1. N \in 0 .. Len(ms) /\ N \in 0 .. N
    BY <1>3
  <2>2. \A x \in M : x.text \in Seq(T)
    BY <1>4
  <2>3. Off(ms, Len(ms)) = Len(Stream(ms))
    BY <1>1, <2>1, <2>2, StreamParts
  <2> QED BY <1>1, <1>3, <1>9, <2>1, <2>3
<1>11. ASSUME NEW i \in 0 .. N - 1
       PROVE  /\ At(H, 5 * i) = hs[i + 1].key /\ At(H, 5 * i + 1) = Colon
              /\ At(H, 5 * i + 2) = hs[i + 1].value
              /\ At(H, 5 * i + 3) = "CR" /\ At(H, 5 * i + 4) = "LF"
  <2> DEFINE h == hs[i + 1]
             x == LineOf(h)
  <2>1. i \in 0 .. Len(ms) - 1 /\ i + 1 \in 1 .. N /\ i \in 0 .. N /\ i \in Nat
    BY <1>3
  <2>2. h \in K /\ ms[i + 1].text = x
    BY <1>3, <2>1
  <2> HIDE DEF h
  <2>5. /\ Len(x) = 5 /\ At(x, 0) = h.key /\ At(x, 1) = Colon /\ At(x, 2) = h.value
        /\ At(x, 3) = "CR" /\ At(x, 4) = "LF"
    <3> DEFINE y == <<h.key, Colon, h.value>>
    <3>1. h.key \in T /\ h.value \in T
      BY <2>2 DEF K
    <3>2. /\ y \in Seq(T) /\ Len(y) = 3 /\ At(y, 0) = h.key /\ At(y, 1) = Colon /\ At(y, 2) = h.value
      BY <3>1 DEF At
    <3>3. CrLf \in Seq(T) /\ Len(CrLf) = 2 /\ At(CrLf, 0) = "CR" /\ At(CrLf, 1) = "LF"
      BY DEF At, CrLf
    <3> HIDE DEF y
    <3>4. x = y \o CrLf
      BY DEF LineOf, y
    <3>5. Len(x) = Len(y) + Len(CrLf)
      <4>1. y \in Seq(T) /\ CrLf \in Seq(T)
        BY <3>2, <3>3
      <4> HIDE DEF x
      <4> QED BY <3>4, <4>1, ConcatFacts
    <3>6. /\ \A j \in 0 .. Len(y) - 1 : At(x, j) = At(y, j)
          /\ \A j \in 0 .. Len(CrLf) - 1 : At(x, Len(y) + j) = At(CrLf, j)
      <4>1. y \in Seq(T) /\ CrLf \in Seq(T)
        BY <3>2, <3>3
      <4> HIDE DEF x
      <4> QED BY <3>4, <4>1, AtConcat
    <3> HIDE DEF x
    <3>7. /\ \A j \in 0 .. 2 : At(x, j) = At(y, j)
          /\ \A j \in 0 .. 1 : At(x, 3 + j) = At(CrLf, j)
      BY <3>2, <3>3, <3>6
    <3>8. /\ At(x, 0) = At(y, 0) /\ At(x, 1) = At(y, 1) /\ At(x, 2) = At(y, 2)
          /\ At(x, 3) = At(CrLf, 0) /\ At(x, 4) = At(CrLf, 1)
      BY <3>7
    <3> QED BY <3>2, <3>3, <3>5, <3>8
  <2> HIDE DEF x
  <2>6. \A j \in 0 .. 4 : At(H, 5 * i + j) = At(x, j)
    BY <1>1, <1>5, <1>9, <2>1, <2>2
  <2>7. /\ At(H, 5 * i + 0) = At(x, 0) /\ At(H, 5 * i + 1) = At(x, 1) /\ At(H, 5 * i + 2) = At(x, 2)
        /\ At(H, 5 * i + 3) = At(x, 3) /\ At(H, 5 * i + 4) = At(x, 4) /\ 5 * i + 0 = 5 * i
    <3>1. 0 \in 0 .. 4 /\ 1 \in 0 .. 4 /\ 2 \in 0 .. 4 /\ 3 \in 0 .. 4 /\ 4 \in 0 .. 4 /\ 5 * i + 0 = 5 * i
      BY <2>1
    <3> QED BY <2>6, <3>1
  <2> QED BY <2>5, <2>7 DEF h
<1> QED BY <1>1, <1>10, <1>11 DEF hs, H

(* A request whose URI has no token that ends it opens with an accepted    *)
(* line, and the URI is found again.                                       *)
LEMMA RequestOpens ==
  ASSUME NEW T, {Version, "1", "CR", "LF"} \subseteq T, NEW g \in T, g \in {GET, POST}, NEW u \in Seq(T),
         \A i \in 1 .. Len(u) : u[i] \notin {NUL, "CR", Version}
  PROVE  LET a == <<g>> \o u \o Protocol
         IN  /\ a \in Seq(T) /\ Len(a) = Len(u) + 5 /\ FirstLine(a, Len(a)) /\ Accepted(a, Len(a))
             /\ At(a, 0) = g /\ Uri(a) = u
<1> DEFINE a == <<g>> \o u \o Protocol
           n == Len(u)
<1>0. n \in Nat
  OBVIOUS
<1>1. /\ a \in Seq(T) /\ Len(a) = n + 5 /\ At(a, 0) = g
      /\ \A i \in 1 .. n : At(a, i) = u[i]
      /\ At(a, n + 1) = Version /\ At(a, n + 2) = "1"
      /\ At(a, n + 3) = "CR" /\ At(a, n + 4) = "LF"
  BY LineOpens
<1> HIDE DEF a
<1>2. g # NUL /\ g # "CR" /\ g # RESPONSE /\ "1" # NUL /\ "1" # "CR" /\ "1" # Version /\ "LF" # "CR"
  BY TokensDiffer DEF NUL, Version
<1>3. \A i \in 0 .. n + 4 : At(a, i) # NUL /\ (At(a, i) = "CR" => i = n + 3)
  <2> TAKE i \in 0 .. n + 4
  <2>1. i = 0 \/ i \in 1 .. n \/ i = n + 1 \/ i = n + 2 \/ i = n + 3 \/ i = n + 4
    BY <1>0
  <2>2. CASE i \in 1 .. n
    BY <1>1, <2>2
  <2> QED BY <1>1, <1>2, <2>1, <2>2, TokensDiffer
<1>4. n + 3 \in LineEnds(a, 0)
  <2>1. n + 3 \in 0 .. Len(a) - 1 /\ \A i \in 0 .. n + 3 : i \in 0 .. n + 4
    BY <1>0, <1>1
  <2>2. n + 3 + 1 = n + 4
    BY <1>0
  <2> QED BY <1>1, <1>3, <2>1, <2>2 DEF LineEnds, BeforeNul, IsCrLf
<1>5. FirstLine(a, n + 5)
  <2>1. n + 5 - 2 = n + 3 /\ \A i \in 0 .. n + 5 - 3 : i \in 0 .. n + 4 /\ i # n + 3
    BY <1>0
  <2>2. ASSUME NEW i \in 1 .. Len(a) PROVE a[i] # NUL
    <3> DEFINE j == i - 1
    <3>1. j \in 0 .. n + 4 /\ j < Len(a) /\ j + 1 = i
      BY <1>0, <1>1
    <3> HIDE DEF j
    <3> QED BY <1>3, <3>1 DEF At
  <2> QED BY <1>3, <1>4, <2>1, <2>2 DEF FirstLine
<1>6. Accepted(a, n + 5)
  <2>1. n + 1 \in 1 .. n + 5 - 3
    BY <1>0
  <2> QED BY <1>1, <2>1 DEF Accepted
<1>7. MinOf(Protocols(a, 1)) = n + 1
  <2>1. n + 1 \in Protocols(a, 1)
    <3>1. n + 1 \in 1 .. Len(a) - 1 /\ \A i \in 1 .. n + 1 : i \in 0 .. n + 4
      BY <1>0, <1>1
    <3> QED BY <1>1, <1>3, <3>1 DEF Protocols, BeforeNul
  <2>2. ASSUME NEW y \in Protocols(a, 1) PROVE y \in Nat /\ n + 1 <= y
    <3>1. y \in 1 .. Len(a) - 1 /\ At(a, y) = Version
      BY DEF Protocols, BeforeNul
    <3>2. y \notin 1 .. n
      BY <1>1, <3>1
    <3> QED BY <1>0, <1>1, <3>1, <3>2
  <2>3. Protocols(a, 1) \subseteq Nat
    BY <2>2
  <2> QED BY <2>1, <2>2, <2>3, MinOfIs
<1>8. Run(a, 1, n + 1) = u
  <2> DEFINE q == n + 1
             x == Run(a, 1, q)
  <2>1. 1 \in 0 .. Len(a) /\ q \in 1 .. Len(a) /\ q - 1 = n
    BY <1>0, <1>1
  <2> HIDE DEF q
  <2>2. x \in Seq(T) /\ Len(x) = q - 1 /\ \A i \in 1 .. q - 1 : x[i] = a[1 + i]
    <3>1. a \in Seq(T)
      BY <1>1
    <3> QED BY <2>1, <3>1, RunShape
  <2> HIDE DEF x
  <2>3. ASSUME NEW i \in 1 .. n PROVE a[1 + i] = u[i]
    <3>1. i < Len(a) /\ i + 1 = 1 + i
      BY <1>0, <1>1
    <3> QED BY <1>1, <3>1 DEF At
  <2>4. Len(x) = n /\ \A i \in 1 .. n : x[i] = u[i]
    BY <2>1, <2>2, <2>3
  <2>5. x = u
    BY <2>2, <2>4, SameParts
  <2> QED BY <2>5 DEF x, q
<1>9. Uri(a) = u
  BY <1>1, <1>2, <1>7, <1>8 DEF Uri
<1> QED BY <1>1, <1>5, <1>6, <1>9 DEF a

LEMMA ReplyOpens ==
  ASSUME NEW T, {RESPONSE, "200", "CR", "LF"} \subseteq T
  PROVE  LET a == <<RESPONSE, "200">> \o CrLf
         IN  /\ a \in Seq(T) /\ Len(a) = 4 /\ FirstLine(a, Len(a)) /\ Accepted(a, Len(a))
             /\ At(a, 0) = RESPONSE /\ Uri(a) = << >>
<1> DEFINE a == <<RESPONSE, "200">> \o CrLf
<1>1. /\ a \in Seq(T) /\ Len(a) = 4
      /\ At(a, 0) = RESPONSE /\ At(a, 1) = "200" /\ At(a, 2) = "CR" /\ At(a, 3) = "LF"
  BY ReplyStarts
<1> HIDE DEF a
<1>2. RESPONSE # NUL /\ RESPONSE # "CR" /\ "200" # NUL /\ "200" # "CR"
  BY TokensDiffer DEF NUL
<1>3. \A i \in 0 .. 3 : At(a, i) # NUL /\ (At(a, i) = "CR" => i = 2)
  <2> TAKE i \in 0 .. 3
  <2>1. i = 0 \/ i = 1 \/ i = 2 \/ i = 3
    OBVIOUS
  <2> QED BY <1>1, <1>2, <2>1, TokensDiffer
<1>4. 2 \in LineEnds(a, 0)
  <2>1. 2 \in 0 .. Len(a) - 1 /\ \A i \in 0 .. 2 : i \in 0 .. 3
    BY <1>1
  <2> QED BY <1>1, <1>3, <2>1 DEF LineEnds, BeforeNul, IsCrLf
<1>5. FirstLine(a, 4)
  <2>1. \A i \in 0 .. 4 - 3 : i \in 0 .. 3 /\ i # 2
    OBVIOUS
  <2>2. ASSUME NEW i \in 1 .. Len(a) PROVE a[i] # NUL
    <3> DEFINE j == i - 1
    <3>1. j \in 0 .. 3 /\ j < Len(a) /\ j + 1 = i
      BY <1>1
    <3> HIDE DEF j
    <3> QED BY <1>3, <3>1 DEF At
  <2>3. 4 - 2 = 2
    OBVIOUS
  <2> QED BY <1>3, <1>4, <2>1, <2>2, <2>3 DEF FirstLine
<1>6. Accepted(a, 4) /\ Uri(a) = << >>
  BY <1>1 DEF Accepted, Uri
<1> QED BY <1>1, <1>5, <1>6 DEF a

(* A text is its first line, its header lines, an empty one and the data.  *)
Joined(a, x, c) == a \o x \o CrLf \o c

LEMMA TextParts ==
  ASSUME NEW T, "CR" \in T, "LF" \in T,
         NEW a \in Seq(T), NEW x \in Seq(T), NEW c \in Seq(T)
  PROVE  LET t == Joined(a, x, c)
         IN  /\ t \in Seq(T) /\ Len(t) = Len(a) + Len(x) + 2 + Len(c)
             /\ \A i \in 0 .. Len(a) - 1 : At(t, i) = At(a, i)
             /\ \A i \in 0 .. Len(x) - 1 : At(t, Len(a) + i) = At(x, i)
             /\ At(t, Len(a) + Len(x)) = "CR" /\ At(t, Len(a) + Len(x) + 1) = "LF"
<1> DEFINE b == a \o x
           w == CrLf
           k == b \o w
           t == k \o c
<1>0. Len(a) \in Nat /\ Len(x) \in Nat /\ Len(c) \in Nat
  OBVIOUS
<1>1. w \in Seq(T) /\ Len(w) = 2 /\ At(w, 0) = "CR" /\ At(w, 1) = "LF"
  BY DEF At, CrLf
<1> HIDE DEF w
<1>2. /\ b \in Seq(T) /\ Len(b) = Len(a) + Len(x)
      /\ \A i \in 0 .. Len(a) - 1 : At(b, i) = At(a, i)
      /\ \A i \in 0 .. Len(x) - 1 : At(b, Len(a) + i) = At(x, i)
  <2>1. b \in Seq(T) /\ Len(b) = Len(a) + Len(x)
    BY ConcatFacts
  <2>2. /\ \A i \in 0 .. Len(a) - 1 : At(b, i) = At(a, i)
        /\ \A i \in 0 .. Len(x) - 1 : At(b, Len(a) + i) = At(x, i)
    BY AtConcat
  <2> HIDE DEF b
  <2> QED BY <2>1, <2>2
<1> HIDE DEF b
<1>3. /\ k \in Seq(T) /\ Len(k) = Len(b) + Len(w)
      /\ \A i \in 0 .. Len(b) - 1 : At(k, i) = At(b, i)
      /\ \A i \in 0 .. Len(w) - 1 : At(k, Len(b) + i) = At(w, i)
  <2>0. b \in Seq(T) /\ w \in Seq(T)
    BY <1>1, <1>2
  <2>1. k \in Seq(T) /\ Len(k) = Len(b) + Len(w)
    BY <2>0, ConcatFacts
  <2>2. /\ \A i \in 0 .. Len(b) - 1 : At(k, i) = At(b, i)
        /\ \A i \in 0 .. Len(w) - 1 : At(k, Len(b) + i) = At(w, i)
    BY <2>0, AtConcat
  <2> HIDE DEF k
  <2> QED BY <2>1, <2>2
<1> HIDE DEF k
<1>4. /\ t \in Seq(T) /\ Len(t) = Len(k) + Len(c)
      /\ \A i \in 0 .. Len(k) - 1 : At(t, i) = At(k, i)
  <2>0. k \in Seq(T)
    BY <1>3
  <2>1. t \in Seq(T) /\ Len(t) = Len(k) + Len(c)
    BY <2>0, ConcatFacts
  <2>2. \A i \in 0 .. Len(k) - 1 : At(t, i) = At(k, i)
    BY <2>0, AtConcat
  <2> HIDE DEF t
  <2> QED BY <2>1, <2>2
<1> HIDE DEF t
<1>5. Len(k) = Len(a) + Len(x) + 2 /\ Len(b) = Len(a) + Len(x)
  BY <1>0, <1>1, <1>2, <1>3
<1>6. ASSUME NEW i \in 0 .. Len(a) - 1 PROVE At(t, i) = At(a, i)
  <2>1. i \in 0 .. Len(b) - 1 /\ i \in 0 .. Len(k) - 1
    BY <1>0, <1>5
  <2> QED BY <1>2, <1>3, <1>4, <2>1
<1>7. ASSUME NEW i \in 0 .. Len(x) - 1 PROVE At(t, Len(a) + i) = At(x, i)
  <2> DEFINE j == Len(a) + i
  <2>1. j \in 0 .. Len(b) - 1 /\ j \in 0 .. Len(k) - 1
    BY <1>0, <1>5
  <2>2. At(b, j) = At(x, i)
    BY <1>2
  <2> HIDE DEF j
  <2>3. At(t, j) = At(x, i)
    BY <1>3, <1>4, <2>1, <2>2
  <2> QED BY <2>3 DEF j
<1>8. At(t, Len(b)) = "CR" /\ At(t, Len(b) + 1) = "LF"
  <2>1. /\ Len(b) \in 0 .. Len(k) - 1 /\ Len(b) + 1 \in 0 .. Len(k) - 1
        /\ 0 \in 0 .. Len(w) - 1 /\ 1 \in 0 .. Len(w) - 1 /\ Len(b) + 0 = Len(b)
    BY <1>0, <1>1, <1>5
  <2>2. At(k, Len(b) + 0) = At(w, 0) /\ At(k, Len(b) + 1) = At(w, 1)
    BY <1>3, <2>1
  <2> QED BY <1>1, <1>4, <2>1, <2>2
<1>9. Len(t) = Len(a) + Len(x) + 2 + Len(c)
  BY <1>4, <1>5
<1> QED BY <1>4, <1>5, <1>6, <1>7, <1>8, <1>9 DEF t, k, b, w, Joined

(* What the parser tells of the lines of a header.                         *)
AsRead(header) == [i \in 1 .. Len(header) |-> [key |-> <<header[i].key>>, value |-> <<header[i].value>>]]

Legible(p, T) ==
  /\ p.header \in Seq([key : T, value : T])
  /\ \A i \in 1 .. Len(p.header) : p.header[i].key \notin {"CR", Colon} /\ p.header[i].value # "CR"
Opening(a, T) == a \in Seq(T) /\ a # << >> /\ FirstLine(a, Len(a)) /\ Accepted(a, Len(a))

(* Such a text is read as its parts.                                       *)
LEMMA TextRead ==
  ASSUME NEW T, {Colon, "CR", "LF"} \subseteq T, NUL \notin T,
         NEW a, Opening(a, T), NEW p, Legible(p, T), NEW c \in Seq(T), NEW t, t = Joined(a, HeaderText(p), c)
  PROVE  LET n == Len(p.header)
         IN  /\ t \in Seq(T) /\ Len(t) = Len(a) + 5 * n + 2 + Len(c)
             /\ FirstLine(t, Len(a)) /\ Accepted(t, Len(a)) /\ HeaderLines(t, Len(a), n)
             /\ At(t, 0) = At(a, 0) /\ Uri(t) = Uri(a) /\ Headers(t, Len(a), n) = AsRead(p.header)
<1> DEFINE e == Len(a)
           hs == p.header
           n == Len(hs)
           x == HeaderText(p)
<1>21. /\ a \in Seq(T) /\ a # << >> /\ FirstLine(a, Len(a)) /\ Accepted(a, Len(a))
      /\ hs \in Seq([key : T, value : T])
      /\ \A i \in 1 .. Len(hs) : hs[i].key \notin {"CR", Colon} /\ hs[i].value # "CR"
  BY DEF Opening, Legible
<1> USE <1>21
<1>0. n \in Nat /\ e \in Nat /\ Len(c) \in Nat
  <2>1. n \in Nat
    OBVIOUS
  <2>2. e \in Nat /\ Len(c) \in Nat
    OBVIOUS
  <2> QED BY <2>1, <2>2
<1>1. /\ x \in Seq(T) /\ Len(x) = 5 * n
      /\ \A i \in 0 .. n - 1 :
           /\ At(x, 5 * i) = hs[i + 1].key /\ At(x, 5 * i + 1) = Colon
           /\ At(x, 5 * i + 2) = hs[i + 1].value
           /\ At(x, 5 * i + 3) = "CR" /\ At(x, 5 * i + 4) = "LF"
  BY LinesAt
<1>10. \A i \in 1 .. n : hs[i].key \notin {"CR", Colon} /\ hs[i].value # "CR"
  OBVIOUS
<1> HIDE DEF x, hs
<1>11. x \in Seq(T)
  BY <1>1
<1>2. /\ t \in Seq(T) /\ Len(t) = e + Len(x) + 2 + Len(c)
      /\ \A i \in 0 .. e - 1 : At(t, i) = At(a, i)
      /\ \A i \in 0 .. Len(x) - 1 : At(t, e + i) = At(x, i)
      /\ At(t, e + Len(x)) = "CR" /\ At(t, e + Len(x) + 1) = "LF"
  <2>1. "CR" \in T /\ "LF" \in T
    OBVIOUS
  <2>2. t = Joined(a, x, c)
    BY DEF x
  <2>3. t \in Seq(T)
    BY <1>11, <2>1, <2>2, TextParts
  <2>4. Len(t) = e + Len(x) + 2 + Len(c)
    BY <1>11, <2>1, <2>2, TextParts
  <2>5. \A i \in 0 .. e - 1 : At(t, i) = At(a, i)
    BY <1>11, <2>1, <2>2, TextParts
  <2>6. \A i \in 0 .. Len(x) - 1 : At(t, e + i) = At(x, i)
    BY <1>11, <2>1, <2>2, TextParts
  <2>7. At(t, e + Len(x)) = "CR" /\ At(t, e + Len(x) + 1) = "LF"
    BY <1>11, <2>1, <2>2, TextParts
  <2> QED BY <2>3, <2>4, <2>5, <2>6, <2>7
<1> HIDE DEF n
<1>20. Len(t) = e + 5 * n + 2 + Len(c) /\ At(t, e + 5 * n) = "CR" /\ At(t, e + 5 * n + 1) = "LF"
  BY <1>1, <1>2
<1>3. e \in 1 .. Len(a) /\ e \in 1 .. Len(t) /\ e <= Len(t) /\ Len(t) \in Nat
  <2>1. e # 0
    OBVIOUS
  <2> QED BY <1>0, <1>20, <2>1
<1>4. Agree(t, a)
  BY <1>2 DEF Agree
<1>5. LineEnds(t, 0) # {} /\ MinOf(LineEnds(t, 0)) = e - 2 /\ e \in 2 .. Len(a)
  <2>1. t \in Seq(T) /\ Len(t) >= e
    BY <1>0, <1>2, <1>3
  <2> QED BY <1>3, <1>4, <2>1, FirstLineFound
<1>6. FirstLine(t, e)
  <2>1. e - 2 \in LineEnds(t, 0)
    <3>1. LineEnds(t, 0) \subseteq Nat
      BY <1>3, LineEndFacts
    <3>2. MinOf(LineEnds(t, 0)) \in LineEnds(t, 0)
      BY <1>5, <3>1, Least, MinOfLeast
    <3> QED BY <1>5, <3>2
  <2>2. ASSUME NEW q \in 0 .. e - 3 PROVE At(t, q) # "CR"
    <3>1. q \in 0 .. e - 1
      BY <1>0
    <3> QED BY <1>2, <3>1 DEF FirstLine
  <2>3. ASSUME NEW i \in 1 .. Len(t) PROVE t[i] # NUL
    <3>1. t[i] \in T
      BY <1>2
    <3> QED BY <3>1
  <2> QED BY <2>1, <2>2, <2>3 DEF FirstLine
<1>7. At(t, 0) = At(a, 0) /\ At(t, 1) = At(a, 1) /\ Accepted(t, e)
  <2>1. 0 \in 0 .. e - 1 /\ 1 \in 0 .. e - 1 /\ \A q \in 1 .. e - 3 : q \in 0 .. e - 1
    BY <1>0, <1>5
  <2> QED BY <1>2, <2>1 DEF Accepted
<1>8. Uri(t) = Uri(a)
  <2>1. CASE At(a, 0) = RESPONSE
    BY <1>7, <2>1 DEF Uri
  <2>2. CASE At(a, 0) # RESPONSE
    <3>1. At(a, 0) \in {GET, POST} /\ \E q \in 1 .. e - 3 : At(a, q) = Version
      BY <2>2 DEF Accepted
    <3>2. t \in Seq(T) /\ Len(t) >= e
      BY <1>0, <1>2, <1>3
    <3>3. Run(t, 1, MinOf(Protocols(t, 1))) = Run(a, 1, MinOf(Protocols(a, 1)))
      BY <1>3, <1>4, <3>1, <3>2, UriSame
    <3> QED BY <1>7, <2>2, <3>3 DEF Uri
  <2> QED BY <2>1, <2>2
<1>9. ASSUME NEW i \in 0 .. n - 1
      PROVE  /\ At(t, e + 5 * i) = hs[i + 1].key /\ At(t, e + 5 * i + 1) = Colon
             /\ At(t, e + 5 * i + 2) = hs[i + 1].value
             /\ At(t, e + 5 * i + 3) = "CR" /\ At(t, e + 5 * i + 4) = "LF"
             /\ hs[i + 1].key \notin {"CR", Colon} /\ hs[i + 1].value # "CR"
  <2>1. /\ 5 * i \in 0 .. Len(x) - 1 /\ 5 * i + 1 \in 0 .. Len(x) - 1 /\ 5 * i + 2 \in 0 .. Len(x) - 1
        /\ 5 * i + 3 \in 0 .. Len(x) - 1 /\ 5 * i + 4 \in 0 .. Len(x) - 1 /\ i + 1 \in 1 .. n
    BY <1>0, <1>1
  <2>2. \A k \in 0 .. Len(x) - 1 : At(t, e + k) = At(x, k)
    BY <1>2
  <2>3. /\ At(t, e + (5 * i)) = At(x, 5 * i) /\ At(t, e + (5 * i + 1)) = At(x, 5 * i + 1)
        /\ At(t, e + (5 * i + 2)) = At(x, 5 * i + 2) /\ At(t, e + (5 * i + 3)) = At(x, 5 * i + 3)
        /\ At(t, e + (5 * i + 4)) = At(x, 5 * i + 4)
    BY <2>1, <2>2
  <2>4. /\ e + (5 * i + 1) = e + 5 * i + 1 /\ e + (5 * i + 2) = e + 5 * i + 2
        /\ e + (5 * i + 3) = e + 5 * i + 3 /\ e + (5 * i + 4) = e + 5 * i + 4
    BY <1>0
  <2> QED BY <1>1, <1>10, <2>1, <2>3, <2>4 DEF n
<1>12. HeaderLines(t, e, n)
  <2>1. IsCrLf(t, e + 5 * n)
    BY <1>20 DEF IsCrLf
  <2>2. ASSUME NEW i \in 0 .. n - 1
        PROVE  /\ At(t, e + 5 * i) \notin {"CR", Colon} /\ At(t, e + 5 * i + 1) = Colon
               /\ At(t, e + 5 * i + 2) # "CR" /\ IsCrLf(t, e + 5 * i + 3)
    <3>1. e + 5 * i + 3 + 1 = e + 5 * i + 4
      BY <1>0
    <3> QED BY <1>9, <3>1 DEF IsCrLf
  <2> QED BY <2>1, <2>2 DEF HeaderLines
<1>13. Headers(t, e, n) = AsRead(hs)
  <2>1. ASSUME NEW i \in 1 .. n
        PROVE  Line(t, e + 5 * (i - 1)) = [key |-> <<hs[i].key>>, value |-> <<hs[i].value>>]
    <3> DEFINE k == i - 1
    <3>1. k \in 0 .. n - 1 /\ k + 1 = i
      BY <1>0
    <3> HIDE DEF k
    <3>2. At(t, e + 5 * k) = hs[i].key /\ At(t, e + 5 * k + 2) = hs[i].value
      BY <1>9, <3>1
    <3>3. Line(t, e + 5 * k) = [key |-> <<hs[i].key>>, value |-> <<hs[i].value>>]
      BY <3>2 DEF Line
    <3> QED BY <3>3 DEF k
  <2> QED BY <2>1 DEF Headers, AsRead, n
<1> QED BY <1>2, <1>20, <1>6, <1>7, <1>8, <1>12, <1>13 DEF n, hs, x

(* The tokens that a text is written with besides what the message says.   *)
FixedTokens == {GET, POST, RESPONSE, Version, Colon, ContentLength, "?", "200", "CR", "LF"}
Figures == {"0", "1", "2", "3", "4", "5", "6", "7", "8", "9"}

LEMMA WordsKnown ==
  ASSUME NEW T, FixedTokens \subseteq T, Figures \subseteq T
  PROVE  /\ GET \in T /\ POST \in T /\ RESPONSE \in T /\ Version \in T /\ Colon \in T
         /\ ContentLength \in T /\ "?" \in T /\ "1" \in T /\ "200" \in T /\ "CR" \in T /\ "LF" \in T
         /\ "?" # "CR" /\ "?" # Version /\ ContentLength # "CR" /\ ContentLength # Colon
<1>1. /\ GET \in T /\ POST \in T /\ RESPONSE \in T /\ Version \in T /\ Colon \in T
      /\ ContentLength \in T /\ "?" \in T /\ "200" \in T /\ "CR" \in T /\ "LF" \in T
  BY DEF FixedTokens
<1>2. "1" \in T
  BY DEF Figures
<1>3. "?" # "CR" /\ "?" # Version /\ ContentLength # "CR" /\ ContentLength # Colon
  BY DEF Version, Colon, ContentLength
<1> QED BY <1>1, <1>2, <1>3

LEMMA DigitsDiffer ==
  /\ Len(Digits) = 9
  /\ \A i \in 1 .. 9 : Digits[i] \in Figures /\ Digits[i] # "CR" /\ Digits[i] # "0"
  /\ \A i, j \in 1 .. 9 : Digits[i] = Digits[j] => i = j
<1>1. /\ Digits[1] = "1" /\ Digits[2] = "2" /\ Digits[3] = "3" /\ Digits[4] = "4" /\ Digits[5] = "5"
      /\ Digits[6] = "6" /\ Digits[7] = "7" /\ Digits[8] = "8" /\ Digits[9] = "9" /\ Len(Digits) = 9
  BY DEF Digits
<1>2. \A i \in 1 .. 9 : i = 1 \/ i = 2 \/ i = 3 \/ i = 4 \/ i = 5 \/ i = 6 \/ i = 7 \/ i = 8 \/ i = 9
  OBVIOUS
<1>3. \A i \in 1 .. 9 : Digits[i] \in Figures /\ Digits[i] # "CR" /\ Digits[i] # "0"
  <2> TAKE i \in 1 .. 9
  <2> QED BY <1>1, <1>2 DEF Figures
<1>4. \A i, j \in 1 .. 9 : Digits[i] = Digits[j] => i = j
  <2> TAKE i \in 1 .. 9, j \in 1 .. 9
  <2> QED BY <1>1, <1>2
<1> QED BY <1>1, <1>3, <1>4

LEMMA NoneNegative ==
  ASSUME NEW v, v # << >>, v[1] = "0"
  PROVE  Numerals(Negatives, v) = {}
<1>1. DOMAIN Negatives = 1 .. 20
  BY DEF Negatives
<1>2. /\ Negatives[1] # "0" /\ Negatives[2] # "0" /\ Negatives[3] # "0" /\ Negatives[4] # "0"
      /\ Negatives[5] # "0" /\ Negatives[6] # "0" /\ Negatives[7] # "0" /\ Negatives[8] # "0"
      /\ Negatives[9] # "0" /\ Negatives[10] # "0"
  BY DEF Negatives
<1>3. /\ Negatives[11] # "0" /\ Negatives[12] # "0" /\ Negatives[13] # "0" /\ Negatives[14] # "0"
      /\ Negatives[15] # "0" /\ Negatives[16] # "0" /\ Negatives[17] # "0" /\ Negatives[18] # "0"
      /\ Negatives[19] # "0" /\ Negatives[20] # "0"
  BY DEF Negatives
<1>4. ASSUME NEW i \in 1 .. 20 PROVE Negatives[i] # "0"
  <2>1. CASE i <= 10
    BY <1>2, <2>1
  <2>2. CASE i > 10
    BY <1>3, <2>2
  <2> QED BY <2>1, <2>2
<1> QED BY <1>1, <1>4 DEF Numerals

(* A length of one digit is read as it was written.                        *)
LEMMA NumberRead ==
  ASSUME NEW k \in 0 .. 9
  PROVE  ToString(k) \in Figures /\ ToString(k) # "CR" /\ Number(<<ToString(k)>>) = k
<1> DEFINE v == <<ToString(k)>>
<1>0. Len(Digits) = 9 /\ v # << >> /\ v[1] = ToString(k)
  BY DigitsDiffer
<1> HIDE DEF v
<1>1. CASE k = 0
  <2>1. ToString(k) = "0"
    BY <1>1 DEF ToString
  <2>2. Numerals(Digits, v) = {} /\ Numerals(Negatives, v) = {}
    <3>1. DOMAIN Digits = 1 .. 9
      BY DEF Digits
    <3>2. Numerals(Digits, v) = {}
      BY <1>0, <2>1, <3>1, DigitsDiffer DEF Numerals
    <3> QED BY <1>0, <2>1, <3>2, NoneNegative
  <2>3. Number(v) = 0
    BY <2>2 DEF Number
  <2> QED BY <1>1, <2>1, <2>3 DEF v, Figures
<1>2. CASE k # 0
  <2>1. k \in 1 .. 9 /\ ToString(k) = Digits[k]
    BY <1>2 DEF ToString
  <2>2. \A i \in 1 .. Len(Digits) : Digits[i] = v[1] => i = k
    BY <1>0, <2>1, DigitsDiffer
  <2>3. k \in 1 .. Len(Digits) /\ Digits[k] = v[1]
    BY <1>0, <2>1
  <2>4. Number(v) = k
    <3>1. DOMAIN Digits = 1 .. Len(Digits)
      BY DEF Digits
    <3>2. Numerals(Digits, v) = {k}
      BY <1>0, <2>2, <2>3, <3>1 DEF Numerals
    <3>3. MinOf({k}) = k
      BY <2>1 DEF MinOf
    <3> QED BY <3>2, <3>3 DEF Number
  <2> QED BY <2>1, <2>4, DigitsDiffer DEF v
<1> QED BY <1>1, <1>2

(* The length that the parser finds: none is 0, and the last one counts.   *)
LEMMA LengthRead ==
  ASSUME NEW hs, Len(hs) \in Nat
  PROVE  /\ (\A i \in 1 .. Len(hs) : hs[i].key # ContentLength) => length_(AsRead(hs)) = 0
         /\ Len(hs) # 0 /\ hs[Len(hs)].key = ContentLength =>
              length_(AsRead(hs)) = Number(<<hs[Len(hs)].value>>)
<1> DEFINE n == Len(hs)
           ts == AsRead(hs)
           V == Valued(ts, ContentLength)
<1>1. DOMAIN ts = 1 .. n /\ \A i \in 1 .. n : ts[i].key = <<hs[i].key>> /\ ts[i].value = <<hs[i].value>>
  BY DEF AsRead
<1> HIDE DEF ts
<1>2. V = {i \in 1 .. n : hs[i].key = ContentLength}
  <2>1. \A x, y : <<x>> = <<y>> <=> x = y
    OBVIOUS
  <2>2. V \subseteq 1 .. n
    BY <1>1 DEF Valued
  <2>3. \A i \in 1 .. n : i \in V <=> hs[i].key = ContentLength
    BY <1>1, <2>1 DEF Valued
  <2> HIDE DEF V
  <2> QED BY <2>2, <2>3
<1>3. ASSUME \A i \in 1 .. n : hs[i].key # ContentLength PROVE length_(ts) = 0
  BY <1>2, <1>3 DEF length_
<1>4. ASSUME n # 0, hs[n].key = ContentLength PROVE length_(ts) = Number(<<hs[n].value>>)
  <2>1. n \in V /\ n \in 1 .. n /\ V \subseteq 1 .. n
    BY <1>2, <1>4
  <2> DEFINE k == CHOOSE i \in V : \A j \in V : j <= i
  <2>2. k = n
    <3> HIDE DEF V
    <3>1. \A j \in V : j <= n
      BY <2>1
    <3>2. \A i \in V : (\A j \in V : j <= i) => i = n
      BY <2>1
    <3> QED BY <2>1, <3>1, <3>2
  <2>3. LastOf(ts, ContentLength) = ts[k].value
    BY DEF LastOf
  <2>4. V # {}
    BY <2>1
  <2>5. length_(ts) = Number(LastOf(ts, ContentLength))
    BY <2>4 DEF length_
  <2> HIDE DEF k, V
  <2> QED BY <1>1, <2>1, <2>2, <2>3, <2>5
<1> QED BY <1>3, <1>4 DEF ts

-----------------------------------------------------------------------------
(* What Serialize writes behind the method, and behind the empty line.     *)
OwnUri(o)  == IF o.method = GET THEN o.uri \o <<"?">> \o o.data
              ELSE IF o.method = POST THEN o.uri ELSE << >>
OwnData(o) == IF o.method = GET THEN << >> ELSE o.data

(* A message that the other side can read: no part of it holds a token     *)
(* that ends the part, a reply is an OK with content, a GET has a header   *)
(* and announces no content, and a length has one digit.                   *)
Readable(o) ==
  /\ \A i \in 1 .. Len(o.uri) : o.uri[i] \notin {"CR", Version}
  /\ \A i \in 1 .. Len(o.header) :
       o.header[i].key \notin {"CR", Colon} /\ o.header[i].value # "CR"
  /\ o.method = GET =>
       /\ \A i \in 1 .. Len(o.data) : o.data[i] \notin {"CR", Version}
       /\ \A i \in 1 .. Len(o.header) : o.header[i].key # ContentLength
       /\ o.header # << >>
  /\ o.method # GET => Len(o.data) <= 9
  /\ o.method = RESPONSE => o.code = "200" /\ o.data # << >>

LEMMA PreparedParts ==
  ASSUME NEW T, NEW o \in Outgoing(T), Readable(o)
  PROVE  LET p == Prepared(o)
         IN  /\ p.method = o.method /\ p.uri = o.uri /\ p.data = o.data
             /\ o.method = RESPONSE => p.code = "200"
             /\ o.method = GET => p.header = o.header
             /\ o.method # GET =>
                  p.header = Append(o.header, [key |-> ContentLength, value |-> ToString(Len(o.data))])
<1>1. CASE o.method = GET
  BY <1>1, TokensDiffer DEF Prepared
<1>2. CASE o.method # GET
  <2>1. ~IsEmpty200(o)
    BY DEF Readable, IsEmpty200
  <2>2. Prepared(o) = Announced(o)
    BY <1>2, <2>1 DEF Prepared
  <2> QED BY <1>2, <2>2 DEF Announced, AddHeader, Outgoing, Readable
<1> QED BY <1>1, <1>2

(* The header that is written can be read, and tells the length of what    *)
(* follows it.                                                             *)
LEMMA HeaderWritten ==
  ASSUME NEW T, FixedTokens \subseteq T, Figures \subseteq T, NEW o \in Outgoing(T), Readable(o)
  PROVE  LET hs == Prepared(o).header
         IN  /\ hs \in Seq([key : T, value : T]) /\ Len(hs) # 0
             /\ \A i \in 1 .. Len(hs) : hs[i].key \notin {"CR", Colon} /\ hs[i].value # "CR"
             /\ length_(AsRead(hs)) = Len(OwnData(o))
<1> DEFINE H == [key : T, value : T]
           hs == Prepared(o).header
           ho == o.header
<1>1. ho \in Seq(H) /\ o.data \in Seq(T)
  BY DEF Outgoing
<1>2. Len(ho) \in Nat /\ \A i \in 1 .. Len(ho) : ho[i].key \notin {"CR", Colon} /\ ho[i].value # "CR"
  BY <1>1 DEF Readable
<1>3. CASE o.method = GET
  <2>1. hs = ho
    BY <1>3, PreparedParts
  <2>2. /\ \A i \in 1 .. Len(ho) : ho[i].key # ContentLength
        /\ ho # << >>
    BY <1>3 DEF Readable
  <2>3. length_(AsRead(ho)) = 0
    <3> HIDE DEF ho
    <3> QED BY <1>2, <2>2, LengthRead
  <2>4. OwnData(o) = << >> /\ Len(<< >>) = 0
    BY <1>3 DEF OwnData
  <2>5. Len(ho) # 0
    <3> HIDE DEF ho, H
    <3> QED BY <1>1, <2>2
  <2> HIDE DEF hs, ho
  <2> QED BY <1>1, <1>2, <2>1, <2>3, <2>4, <2>5 DEF hs
<1>4. CASE o.method # GET
  <2> DEFINE k == Len(o.data)
             h == [key |-> ContentLength, value |-> ToString(k)]
             n == Len(ho)
  <2>1. hs = Append(ho, h) /\ OwnData(o) = o.data
    BY <1>4, PreparedParts DEF OwnData
  <2>2. k \in 0 .. 9
    <3>1. k \in Nat
      BY <1>1
    <3>2. k <= 9
      BY <1>4 DEF Readable
    <3> HIDE DEF k
    <3> QED BY <3>1, <3>2
  <2>3. ToString(k) \in T /\ ToString(k) # "CR" /\ Number(<<ToString(k)>>) = k
    <3> HIDE DEF k
    <3> QED BY <2>2, NumberRead
  <2>4. h \in H /\ h.key = ContentLength /\ h.key \notin {"CR", Colon} /\ h.value # "CR" /\ Number(<<h.value>>) = k
    <3> HIDE DEF k
    <3> QED BY <2>3, WordsKnown
  <2> HIDE DEF h, hs, ho, H, k
  <2>5. /\ hs \in Seq(H) /\ Len(hs) = n + 1 /\ hs[n + 1] = h
        /\ \A i \in 1 .. n : hs[i] = ho[i]
    BY <1>1, <1>2, <2>1, <2>4
  <2>6. \A i \in 1 .. Len(hs) : hs[i].key \notin {"CR", Colon} /\ hs[i].value # "CR"
    <3> TAKE i \in 1 .. Len(hs)
    <3>1. i \in 1 .. n \/ i = n + 1
      BY <1>2, <2>5
    <3> QED BY <1>2, <2>4, <2>5, <3>1
  <2>7. length_(AsRead(hs)) = k
    <3>1. Len(hs) \in Nat /\ Len(hs) # 0 /\ hs[Len(hs)] = h
      BY <1>2, <2>5
    <3> QED BY <2>4, <3>1, LengthRead
  <2>8. Len(hs) # 0
    BY <1>2, <2>5
  <2> QED BY <2>1, <2>5, <2>6, <2>7, <2>8 DEF H, k, hs
<1> QED BY <1>3, <1>4

(* The first line that is written is accepted, and its URI is found.       *)
LEMMA OpeningWritten ==
  ASSUME NEW T, FixedTokens \subseteq T, Figures \subseteq T, NUL \notin T, NEW o \in Outgoing(T), Readable(o)
  PROVE  \E a \in Seq(T) :
           /\ a # << >> /\ FirstLine(a, Len(a)) /\ Accepted(a, Len(a))
           /\ At(a, 0) = o.method /\ Uri(a) = OwnUri(o)
           /\ Serialize(o) = Joined(a, HeaderText(Prepared(o)), OwnData(o))
<1> DEFINE p == Prepared(o)
           x == HeaderText(p)
<1>1. /\ o.method \in {GET, POST, RESPONSE} /\ o.uri \in Seq(T) /\ o.data \in Seq(T)
      /\ \A i \in 1 .. Len(o.uri) : o.uri[i] \notin {NUL, "CR", Version}
  <2>1. o.method \in {GET, POST, RESPONSE} /\ o.uri \in Seq(T) /\ o.data \in Seq(T)
    BY DEF Outgoing
  <2>2. \A i \in 1 .. Len(o.uri) : o.uri[i] \in T
    <3> DEFINE y == o.uri
    <3>1. y \in Seq(T)
      BY <2>1
    <3> HIDE DEF y
    <3>2. \A i \in 1 .. Len(y) : y[i] \in T
      BY <3>1
    <3> QED BY <3>2 DEF y
  <2> QED BY <2>1, <2>2 DEF Readable
<1>2. /\ GET \in T /\ POST \in T /\ RESPONSE \in T /\ {Version, "1", "CR", "LF"} \subseteq T
      /\ {RESPONSE, "200", "CR", "LF"} \subseteq T /\ {Colon, "CR", "LF"} \subseteq T
      /\ "?" \in T /\ "?" \notin {NUL, "CR", Version} /\ "CR" \in T /\ "LF" \in T
  BY WordsKnown
<1>3. p.method = o.method /\ p.uri = o.uri /\ p.data = o.data /\ (o.method = RESPONSE => p.code = "200")
  BY PreparedParts
<1>4. x \in Seq(T)
  <2>1. p.header \in Seq([key : T, value : T])
    BY HeaderWritten
  <2> QED BY <1>2, <2>1, HeaderTyped
<1>5. Serialize(o) = Written(p)
  BY DEF Serialize
<1> HIDE DEF p, x
<1>6. CASE o.method = GET
  <2> DEFINE u0 == o.uri
             q == <<"?">>
             u1 == o.data
             v == u0 \o q
             u == v \o u1
             g == <<GET>>
             w == Protocol
             a == g \o u \o w
  <2>1. q \in Seq(T) /\ g \in Seq(T) /\ Len(q) = 1 /\ q[1] = "?"
    BY <1>2
  <2>2. /\ u0 \in Seq(T) /\ u1 \in Seq(T) /\ Len(u0) \in Nat /\ Len(u1) \in Nat
        /\ \A i \in 1 .. Len(u0) : u0[i] \notin {NUL, "CR", Version}
        /\ \A i \in 1 .. Len(u1) : u1[i] \notin {NUL, "CR", Version}
    <3>1. u0 \in Seq(T) /\ u1 \in Seq(T)
      BY <1>1
    <3>2. \A i \in 1 .. Len(u1) : u1[i] \notin {"CR", Version}
      BY <1>6 DEF Readable
    <3>3. \A i \in 1 .. Len(u0) : u0[i] \notin {NUL, "CR", Version}
      BY <1>1
    <3> HIDE DEF u0, u1
    <3>4. \A i \in 1 .. Len(u1) : u1[i] \in T
      BY <3>1
    <3> QED BY <3>1, <3>2, <3>3, <3>4
  <2>3. w \in Seq(T)
    BY <1>2 DEF Protocol, CrLf
  <2>4. OwnUri(o) = u /\ OwnData(o) = << >>
    BY <1>6 DEF OwnUri, OwnData
  <2>5. Written(p) = g \o u0 \o q \o u1 \o w \o x \o CrLf
    BY <1>3, <1>6, TokensDiffer DEF Written, x
  <2> HIDE DEF u0, u1, q, g, w
  <2>6. v \in Seq(T) /\ Len(v) = Len(u0) + 1 /\ v[Len(u0) + 1] = "?" /\ \A i \in 1 .. Len(u0) : v[i] = u0[i]
    <3>1. q \in Seq(T) /\ u0 \in Seq(T)
      BY <2>1, <2>2
    <3>2. /\ v \in Seq(T) /\ Len(v) = Len(u0) + Len(q)
          /\ \A i \in 1 .. Len(u0) : v[i] = u0[i]
          /\ \A i \in 1 .. Len(q) : v[Len(u0) + i] = q[i]
      BY <3>1, ConcatFacts
    <3> HIDE DEF v
    <3> QED BY <2>1, <3>2
  <2>7. g \o u0 \o q \o u1 = g \o u
    <3>1. g \o u0 \o q = g \o v
      BY <2>1, <2>2, ConcatParts
    <3> HIDE DEF v
    <3>0. g \in Seq(T) /\ v \in Seq(T) /\ u1 \in Seq(T)
      BY <2>1, <2>2, <2>6
    <3>2. (g \o v) \o u1 = g \o u
      BY <3>0, ConcatParts
    <3> QED BY <3>1, <3>2
  <2> HIDE DEF v
  <2>8. /\ u \in Seq(T) /\ Len(u) = Len(v) + Len(u1)
        /\ \A i \in 1 .. Len(v) : u[i] = v[i]
        /\ \A i \in 1 .. Len(u1) : u[Len(v) + i] = u1[i]
    <3>1. v \in Seq(T) /\ u1 \in Seq(T)
      BY <2>2, <2>6
    <3> QED BY <3>1, ConcatFacts
  <2> HIDE DEF u
  <2>9. ASSUME NEW i \in 1 .. Len(u) PROVE u[i] \notin {NUL, "CR", Version}
    <3>1. CASE i \in 1 .. Len(u0)
      <4>1. i \in 1 .. Len(v)
        BY <2>2, <2>6, <3>1
      <4> QED BY <2>2, <2>6, <2>8, <3>1, <4>1
    <3>2. CASE i = Len(u0) + 1
      <4>1. i \in 1 .. Len(v)
        BY <2>2, <2>6, <3>2
      <4> QED BY <1>2, <2>6, <2>8, <3>2, <4>1
    <3>3. CASE i \notin 1 .. Len(u0) /\ i # Len(u0) + 1
      <4> DEFINE j == i - Len(v)
      <4>1. j \in 1 .. Len(u1) /\ Len(v) + j = i
        BY <2>2, <2>6, <2>8, <3>3
      <4> HIDE DEF j
      <4> QED BY <2>2, <2>8, <4>1
    <3> QED BY <3>1, <3>2, <3>3
  <2>10. /\ a \in Seq(T) /\ Len(a) = Len(u) + 5 /\ FirstLine(a, Len(a)) /\ Accepted(a, Len(a))
         /\ At(a, 0) = GET /\ Uri(a) = u
    <3>1. u \in Seq(T) /\ GET \in {GET, POST}
      BY <2>8
    <3> QED BY <1>2, <2>9, <3>1, RequestOpens DEF g, w
  <2>11. Written(p) = a \o x \o CrLf
    BY <2>5, <2>7
  <2> HIDE DEF a
  <2>12. Serialize(o) = Joined(a, x, << >>)
    <3> DEFINE k == a \o x \o CrLf
    <3>1. k \in Seq(T)
      <4>1. CrLf \in Seq(T) /\ a \in Seq(T)
        BY <1>2, <2>10 DEF CrLf
      <4> QED BY <1>4, <4>1
    <3> HIDE DEF k
    <3>2. k \o << >> = k
      BY <3>1
    <3> QED BY <1>5, <2>11, <3>2 DEF Joined, k
  <2>13. a # << >>
    <3>1. Len(a) # 0
      <4>1. Len(u) \in Nat
        BY <2>8
      <4> QED BY <2>10, <4>1
    <3> QED BY <3>1
  <2> QED BY <1>6, <2>4, <2>10, <2>12, <2>13 DEF x, p
<1>7. CASE o.method = POST
  <2> DEFINE u == o.uri
             a == <<POST>> \o u \o Protocol
  <2>1. Serialize(o) = Joined(a, x, o.data)
    BY <1>3, <1>5, <1>7, TokensDiffer DEF Written, Joined, x
  <2>2. /\ a \in Seq(T) /\ Len(a) = Len(u) + 5 /\ FirstLine(a, Len(a)) /\ Accepted(a, Len(a))
        /\ At(a, 0) = POST /\ Uri(a) = u
    BY <1>1, <1>2, RequestOpens
  <2>3. OwnUri(o) = u /\ OwnData(o) = o.data
    BY <1>7, TokensDiffer DEF OwnUri, OwnData
  <2> HIDE DEF a
  <2>4. a # << >>
    <3>1. Len(u) \in Nat
      BY <1>1
    <3>2. Len(a) # 0
      BY <2>2, <3>1
    <3> QED BY <3>2
  <2> QED BY <1>7, <2>1, <2>2, <2>3, <2>4 DEF x, p
<1>8. CASE o.method = RESPONSE
  <2> DEFINE a == <<RESPONSE, "200">> \o CrLf
  <2>1. Serialize(o) = Joined(a, x, o.data)
    BY <1>3, <1>5, <1>8, TokensDiffer DEF Written, Joined, x
  <2>2. /\ a \in Seq(T) /\ Len(a) = 4 /\ FirstLine(a, Len(a)) /\ Accepted(a, Len(a))
        /\ At(a, 0) = RESPONSE /\ Uri(a) = << >>
    BY <1>2, ReplyOpens
  <2>3. OwnUri(o) = << >> /\ OwnData(o) = o.data
    BY <1>8, TokensDiffer DEF OwnUri, OwnData
  <2> HIDE DEF a
  <2>4. a # << >>
    BY <2>2
  <2> QED BY <1>8, <2>1, <2>2, <2>3, <2>4 DEF x, p
<1> QED BY <1>1, <1>6, <1>7, <1>8

(* What one side serialises the other reads: Deserialize takes from data   *)
(* that begin with the text of a readable message exactly that text, finds *)
(* its method, its URI and its headers, with the length that Serialize has *)
(* added, and from data that hold a part of it no other message.           *)
THEOREM RoundTrip ==
  ASSUME NEW T, FixedTokens \subseteq T, Figures \subseteq T, NUL \notin T,
         NEW o \in Outgoing(T), Readable(o), Len(Serialize(o)) < Word,
         NEW d \in Seq(T \cup {NUL}), Agree(d, Serialize(o))
  PROVE  LET t == Serialize(o)
             r == Deserialize(d)
         IN  /\ Len(d) >= Len(t) => r.res = "done"
             /\ \/ r.res = "incomplete"
                \/ /\ r.res = "done" /\ r.eof = Len(t)
                   /\ r.method = o.method /\ r.uri = OwnUri(o) /\ r.headers = AsRead(Prepared(o).header)
<1> DEFINE p == Prepared(o)
           hs == p.header
           c == OwnData(o)
           t == Serialize(o)
           U == T \cup {NUL}
           m == [text |-> t, method |-> o.method, uri |-> OwnUri(o), headers |-> AsRead(hs)]
<1>1. PICK a \in Seq(T) :
        /\ a # << >> /\ FirstLine(a, Len(a)) /\ Accepted(a, Len(a))
        /\ At(a, 0) = o.method /\ Uri(a) = OwnUri(o)
        /\ t = Joined(a, HeaderText(p), c)
  BY OpeningWritten
<1>2. /\ hs \in Seq([key : T, value : T]) /\ Len(hs) # 0
      /\ \A i \in 1 .. Len(hs) : hs[i].key \notin {"CR", Colon} /\ hs[i].value # "CR"
      /\ length_(AsRead(hs)) = Len(c)
  BY HeaderWritten
<1>3. c \in Seq(T)
  BY DEF OwnData, Outgoing
<1>4. {Colon, "CR", "LF"} \subseteq T
  BY WordsKnown
<1> DEFINE e == Len(a)
           n == Len(hs)
<1>5. /\ t \in Seq(T) /\ Len(t) = e + 5 * n + 2 + Len(c)
      /\ FirstLine(t, e) /\ Accepted(t, e) /\ HeaderLines(t, e, n)
      /\ At(t, 0) = At(a, 0) /\ Uri(t) = Uri(a) /\ Headers(t, e, n) = AsRead(hs)
  <2> HIDE DEF p, c, t
  <2>1. Legible(p, T)
    BY <1>2 DEF Legible
  <2>2. Opening(a, T) /\ t = Joined(a, HeaderText(p), c)
    BY <1>1 DEF Opening
  <2> QED BY <1>3, <1>4, <2>1, <2>2, TextRead
<1>6. e \in 1 .. Len(t) /\ n \in 1 .. Len(t)
  <2>1. e \in Nat /\ n \in Nat /\ Len(c) \in Nat /\ e # 0
    <3>1. n \in Nat
      <4> HIDE DEF hs
      <4> QED BY <1>2
    <3>2. e \in Nat /\ e # 0
      BY <1>1
    <3>3. Len(c) \in Nat
      <4> HIDE DEF c
      <4> QED BY <1>3
    <3> QED BY <3>1, <3>2, <3>3
  <2> HIDE DEF t, e, c
  <2> QED BY <1>2, <1>5, <2>1
<1> HIDE DEF p, c, t
<1>7. /\ m.text = t /\ m.method = o.method /\ m.uri = OwnUri(o) /\ m.headers = AsRead(hs)
  OBVIOUS
<1> HIDE DEF m
<1>8. Whole(m)
  <2>1. /\ FirstLine(t, e) /\ Accepted(t, e) /\ HeaderLines(t, e, n)
        /\ o.method = At(t, 0) /\ OwnUri(o) = Uri(t) /\ AsRead(hs) = Headers(t, e, n)
        /\ Len(t) = e + 5 * n + 2 + length_(AsRead(hs)) /\ Len(t) < Word
    BY <1>1, <1>2, <1>5 DEF t
  <2> HIDE DEF e, n, hs
  <2> QED BY <1>6, <1>7, <2>1 DEF Whole
<1>9. m.text \in Seq(U) /\ d \in Seq(U)
  <2>1. Seq(T) \subseteq Seq(U)
    OBVIOUS
  <2> QED BY <1>5, <1>7, <2>1
<1>10. Agree(d, m.text)
  BY <1>7 DEF t
<1> DEFINE r == Deserialize(d)
<1>11. /\ Len(d) >= Len(m.text) => r.res = "done"
       /\ r.res = "incomplete" \/ (r.res = "done" /\ r.eof = Len(m.text) /\ Same(m, r))
  <2> HIDE DEF U
  <2> QED BY <1>8, <1>9, <1>10, WholeFound
<1> HIDE DEF r
<1> QED BY <1>7, <1>11 DEF Same, r, t, hs, p

-----------------------------------------------------------------------------
(* With bytes lost.                                                        *)

(* What does not begin like a message stays in the buffer.                 *)
LEMMA NothingTaken ==
  ASSUME NEW T, NEW d \in Seq(T), At(d, 0) \notin {GET, POST, RESPONSE}
  PROVE  LET t == Taken(d)
         IN  t.messages = << >> /\ t.rest = d /\ t.res \in {"incomplete", "throws"}
<1> DEFINE r == Deserialize(d)
           m == DeserializeMethod_(d)
           t == Taken(d)
<1>1. r.res \in {"incomplete", "throws"}
  <2>1. CASE At(d, 0) = NUL
    BY <2>1 DEF Deserialize
  <2>2. CASE At(d, 0) # NUL
    <3>1. m.res \in {"incomplete", "throws"}
      BY MethodAnswers
    <3> HIDE DEF m
    <3>2. r = [res |-> m.res]
      BY <2>2, <3>1 DEF Deserialize, AfterMethod, m
    <3> QED BY <3>1, <3>2
  <2> QED BY <2>1, <2>2
<1>2. 0 \in 0 .. Len(d) /\ Run(d, 0, Len(d)) = d
  BY RunWhole
<1>3. t = Take(d, 0, TakenFrom(d)[NextRound(d, 0)])
  BY <1>2, TakenTakes DEF Taken
<1> HIDE DEF t
<1>4. t = [messages |-> << >>, rest |-> d, res |-> r.res]
  BY <1>1, <1>2, <1>3 DEF Take
<1> QED BY <1>1, <1>4 DEF t

(* Messages stand one behind the other in the stream.                      *)
LEMMA OffGrows ==
  ASSUME KnownKinds, NEW ms \in Seq(Sendable), NEW i \in 0 .. Len(ms), NEW j \in 0 .. Len(ms), i < j
  PROVE  Off(ms, i) < Off(ms, j) /\ Off(ms, i) \in Nat /\ Off(ms, j) \in Nat
<1> DEFINE N == Len(ms)
           E(n) == i + n + 1 <= N => Off(ms, i) < Off(ms, i + n + 1)
           S == {n \in Nat : E(n)}
<1>0. N \in Nat /\ \A m \in Sendable : m.text \in Seq(Tokens)
  BY TextsKnown
<1>1. \A n \in 0 .. N : Off(ms, n) \in Nat
  BY <1>0, PrefixTexts
<1>2. ASSUME NEW n \in 0 .. N - 1 PROVE Off(ms, n) < Off(ms, n + 1)
  <2>1. n + 1 \in 1 .. N /\ n \in 0 .. N
    BY <1>0
  <2>2. ms[n + 1] \in Sendable
    BY <2>1
  <2>3. Len(ms[n + 1].text) \in Nat /\ Len(ms[n + 1].text) > 0
    BY <2>2, TextsNotEmpty
  <2>4. Off(ms, n + 1) = Off(ms, n) + Len(ms[n + 1].text)
    BY <1>0, StreamNext
  <2> QED BY <1>1, <2>1, <2>3, <2>4
<1> HIDE DEF N
<1>3. 0 \in S
  <2>1. i + 0 + 1 = i + 1 /\ (i + 1 <= N => i \in 0 .. N - 1)
    BY <1>0 DEF N
  <2> QED BY <1>2, <2>1
<1>4. ASSUME NEW n \in Nat, n \in S PROVE n + 1 \in S
  <2> SUFFICES ASSUME i + (n + 1) + 1 <= N PROVE Off(ms, i) < Off(ms, i + (n + 1) + 1)
    OBVIOUS
  <2> DEFINE k == i + n + 1
  <2>1. k \in 0 .. N - 1 /\ k \in 0 .. N /\ k + 1 \in 0 .. N /\ i \in 0 .. N /\ i + (n + 1) + 1 = k + 1
    BY <1>0 DEF N
  <2>2. Off(ms, i) < Off(ms, k)
    BY <1>0, <1>4, <2>1
  <2> HIDE DEF k
  <2>3. Off(ms, k) < Off(ms, k + 1)
    BY <1>2, <2>1
  <2> QED BY <1>1, <2>1, <2>2, <2>3
<1> HIDE DEF S
<1>5. j - i - 1 \in Nat /\ i + (j - i - 1) + 1 = j /\ j <= N
  BY <1>0 DEF N
<1>6. j - i - 1 \in S
  BY <1>3, <1>4, <1>5, Induct
<1> QED BY <1>1, <1>5, <1>6 DEF S, N

(* Every offset of the stream is in one message, or in front of the first. *)
Place(ms, p, n) == p <= Off(ms, n) /\ (n > 0 => Off(ms, n - 1) < p)

LEMMA PlaceExists ==
  ASSUME KnownKinds, NEW ms \in Seq(Sendable), NEW p \in 0 .. Len(Stream(ms))
  PROVE  \E n \in 0 .. Len(ms) : Place(ms, p, n)
<1> DEFINE N == Len(ms)
           S == {n \in 0 .. N : p <= Off(ms, n)}
<1>0. N \in Nat /\ \A m \in Sendable : m.text \in Seq(Tokens)
  BY TextsKnown
<1>1. \A n \in 0 .. N : Off(ms, n) \in Nat
  BY <1>0, PrefixTexts
<1>2. Off(ms, N) = Len(Stream(ms))
  <2>1. N \in 0 .. N
    BY <1>0
  <2> QED BY <1>0, <2>1, StreamParts
<1> HIDE DEF N
<1>3. N \in S /\ S \subseteq Nat
  BY <1>0, <1>1, <1>2
<1>4. PICK n \in S : \A k \in S : n <= k
  <2> HIDE DEF S
  <2> QED BY <1>3, Least
<1>5. n > 0 => Off(ms, n - 1) < p
  <2> SUFFICES ASSUME n > 0, ~ (Off(ms, n - 1) < p) PROVE FALSE
    OBVIOUS
  <2>1. n - 1 \in 0 .. N
    BY <1>0, <1>4
  <2>2. p \in Nat
    BY <1>1, <1>2
  <2>3. n - 1 \in S
    BY <1>1, <2>1, <2>2
  <2> QED BY <1>0, <1>4, <2>3
<1> QED BY <1>4, <1>5 DEF Place, N

(* Later offsets are in later messages.                                    *)
LEMMA PlacesFollow ==
  ASSUME KnownKinds, NEW ms \in Seq(Sendable), NEW n \in 0 .. Len(ms), NEW k \in 0 .. Len(ms),
         NEW p \in Nat, NEW q \in Nat, p <= q, Place(ms, p, n), Place(ms, q, k)
  PROVE  n <= k
<1> SUFFICES ASSUME k < n PROVE FALSE
  OBVIOUS
<1>0. Len(ms) \in Nat /\ n - 1 \in 0 .. Len(ms) /\ n > 0 /\ (k < n - 1 \/ k = n - 1)
  OBVIOUS
<1>1. \A i \in 0 .. Len(ms) : Off(ms, i) \in Nat
  BY TextsKnown, PrefixTexts
<1>2. Off(ms, k) <= Off(ms, n - 1)
  <2>1. CASE k = n - 1
    BY <1>1, <2>1
  <2>2. CASE k < n - 1
    <3>1. Off(ms, k) < Off(ms, n - 1)
      BY <1>0, <2>2, OffGrows
    <3> QED BY <1>0, <1>1, <3>1
  <2> QED BY <1>0, <2>1, <2>2
<1>3. Off(ms, n - 1) < p /\ q <= Off(ms, k)
  BY <1>0 DEF Place
<1> QED BY <1>0, <1>1, <1>2, <1>3

(* Inside a message no other begins.                                       *)
LEMMA InsideMessage ==
  ASSUME KnownKinds, MethodsLead, NEW ms \in Seq(Sendable), NEW n \in 0 .. Len(ms),
         NEW p \in Nat, NEW r \in Nat, p <= r, r <= Len(Stream(ms)), Place(ms, p, n), p # Off(ms, n)
  PROVE  At(Run(Stream(ms), p, r), 0) \notin {GET, POST, RESPONSE}
<1> DEFINE w == Stream(ms)
           d == Run(w, p, r)
           k == n - 1
           t == ms[n].text
           o == Off(ms, k)
           i == p - o
<1>0. \A m \in Sendable : m.text \in Seq(Tokens)
  BY TextsKnown
<1>1. w \in Seq(Tokens) /\ Off(ms, n) \in Nat /\ Len(ms) \in Nat /\ Off(ms, 0) = 0
  BY <1>0, PrefixTexts, StreamParts
<1>2. n > 0
  BY <1>1 DEF Place
<1>3. k \in 0 .. Len(ms) - 1 /\ k \in 0 .. Len(ms) /\ k + 1 = n /\ n \in 1 .. Len(ms)
  BY <1>1, <1>2
<1> HIDE DEF k
<1>4. o \in Nat /\ Off(ms, n) = o + Len(t) /\ \A x \in 0 .. Len(t) - 1 : At(w, o + x) = At(t, x)
  <2>1. o \in Nat
    BY <1>0, <1>3, PrefixTexts
  <2>2. Off(ms, k + 1) = Off(ms, k) + Len(ms[k + 1].text)
        /\ \A x \in 0 .. Len(ms[k + 1].text) - 1 :
              At(Stream(ms), Off(ms, k) + x) = At(ms[k + 1].text, x)
    BY <1>0, <1>3, StreamNext
  <2> QED BY <1>3, <2>1, <2>2
<1>5. ms[n] \in Sendable /\ t \in Seq(Tokens) /\ Len(t) \in Nat
  <2>1. ms[n] \in Sendable
    BY <1>3
  <2>2. t \in Seq(Tokens)
    BY <1>0, <2>1
  <2> HIDE DEF t
  <2> QED BY <2>1, <2>2 DEF t
<1>6. o < p /\ p < Off(ms, n)
  <2>1. Off(ms, n - 1) < p /\ p <= Off(ms, n)
    BY <1>2 DEF Place
  <2> QED BY <1>1, <2>1 DEF k
<1> HIDE DEF o, w, t
<1>7. i \in 1 .. Len(t) - 1 /\ i \in 0 .. Len(t) - 1 /\ o + i = p /\ i + 1 \in 2 .. Len(t) /\ i < Len(t)
  BY <1>4, <1>5, <1>6
<1> HIDE DEF i
<1>8. t[i + 1] \notin {GET, POST, RESPONSE}
  BY <1>5, <1>7 DEF MethodsLead, t
<1>9. Len(d) = r - p /\ (p < r => d[1] = w[p + 1])
  <2>1. r <= Len(w)
    BY DEF w
  <2>2. p \in 0 .. Len(w) /\ r \in p .. Len(w)
    BY <1>1, <2>1
  <2>3. Len(d) = r - p /\ \A x \in 1 .. r - p : d[x] = w[p + x]
    BY <1>1, <2>2, RunShape
  <2> HIDE DEF d
  <2>4. p < r => 1 \in 1 .. r - p
    OBVIOUS
  <2> QED BY <2>3, <2>4
<1> HIDE DEF d
<1>10. CASE p < r
  <2>1. At(d, 0) = d[1] /\ p < Len(w)
    <3>1. 0 < Len(d) /\ 0 + 1 = 1
      BY <1>9, <1>10
    <3>2. r <= Len(w) /\ Len(w) \in Nat
      BY <1>1 DEF w
    <3> QED BY <1>10, <3>1, <3>2 DEF At
  <2>2. At(w, p) = At(t, i)
    BY <1>4, <1>7
  <2>3. At(w, p) = w[p + 1] /\ At(t, i) = t[i + 1]
    BY <1>7, <2>1 DEF At
  <2> QED BY <1>8, <1>9, <1>10, <2>1, <2>2, <2>3 DEF d, w
<1>11. CASE ~ (p < r)
  <2>1. ~ (0 < Len(d))
    BY <1>9, <1>11
  <2>2. At(d, 0) = NUL
    BY <2>1 DEF At
  <2> QED BY <2>2, TokensDiffer DEF d, w
<1> QED BY <1>10, <1>11

(* The messages of g are some of the first n of s, in their order.         *)
InOrder(s, g, n) ==
  \E f \in [1 .. Len(g) -> 1 .. n] :
    /\ \A i, j \in 1 .. Len(g) : i < j => f[i] < f[j]
    /\ \A i \in 1 .. Len(g) : Same(s[f[i]], g[i])

LEMMA OrderLater ==
  ASSUME NEW s, NEW g, NEW n \in Nat, NEW k \in Nat, n <= k, InOrder(s, g, n)
  PROVE  InOrder(s, g, k)
<1>1. PICK f \in [1 .. Len(g) -> 1 .. n] :
        /\ \A i, j \in 1 .. Len(g) : i < j => f[i] < f[j]
        /\ \A i \in 1 .. Len(g) : Same(s[f[i]], g[i])
  BY DEF InOrder
<1>2. 1 .. n \subseteq 1 .. k
  OBVIOUS
<1>3. f \in [1 .. Len(g) -> 1 .. k]
  BY <1>2
<1> QED BY <1>1, <1>3 DEF InOrder

(* Messages n + 1 and the next ones follow.                                *)
LEMMA OrderGrows ==
  ASSUME NEW M, NEW s, NEW g \in Seq(M), NEW u \in Seq(M), NEW n \in Nat, InOrder(s, g, n),
         \A i \in 1 .. Len(u) : Same(s[n + i], u[i])
  PROVE  InOrder(s, g \o u, n + Len(u))
<1> DEFINE a == Len(g)
           l == Len(u)
           h == g \o u
<1>1. PICK f \in [1 .. a -> 1 .. n] :
        /\ \A i, j \in 1 .. a : i < j => f[i] < f[j]
        /\ \A i \in 1 .. a : Same(s[f[i]], g[i])
  BY DEF InOrder
<1>2. a \in Nat /\ l \in Nat
  OBVIOUS
<1>3. Len(h) = a + l /\ (\A i \in 1 .. a : h[i] = g[i]) /\ \A i \in 1 .. l : h[a + i] = u[i]
  BY ConcatFacts
<1>4. \A i \in 1 .. l : Same(s[n + i], u[i])
  OBVIOUS
<1> HIDE DEF a, l, h
<1> DEFINE e == [i \in 1 .. a + l |-> IF i <= a THEN f[i] ELSE n + (i - a)]
<1>5. ASSUME NEW i \in 1 .. a + l PROVE e[i] \in 1 .. n + l /\ (i <= a => e[i] <= n) /\ (~ (i <= a) => e[i] > n)
  <2>1. CASE i <= a
    <3>1. i \in 1 .. a /\ e[i] = f[i]
      BY <1>2, <2>1
    <3>2. f[i] \in 1 .. n
      BY <3>1
    <3> QED BY <1>2, <2>1, <3>1, <3>2
  <2>2. CASE ~ (i <= a)
    <3>1. e[i] = n + (i - a) /\ i - a \in 1 .. l
      BY <1>2, <2>2
    <3> QED BY <1>2, <2>2, <3>1
  <2> QED BY <2>1, <2>2
<1>6. e \in [1 .. a + l -> 1 .. n + l]
  <2>1. e = [i \in 1 .. a + l |-> e[i]]
    OBVIOUS
  <2> HIDE DEF e
  <2> QED BY <1>5, <2>1
<1>7. ASSUME NEW i \in 1 .. a + l, NEW j \in 1 .. a + l, i < j PROVE e[i] < e[j]
  <2>1. CASE j <= a
    <3>1. i \in 1 .. a /\ j \in 1 .. a /\ e[i] = f[i] /\ e[j] = f[j]
      BY <1>2, <1>7, <2>1
    <3> QED BY <1>1, <1>7, <3>1
  <2>2. CASE ~ (j <= a) /\ i <= a
    <3>1. e[i] <= n /\ e[j] > n /\ e[i] \in 1 .. n + l /\ e[j] \in 1 .. n + l
      BY <1>5, <2>2
    <3> HIDE DEF e
    <3> QED BY <1>2, <3>1
  <2>3. CASE ~ (j <= a) /\ ~ (i <= a)
    <3>1. e[i] = n + (i - a) /\ e[j] = n + (j - a)
      BY <2>3
    <3> HIDE DEF e
    <3> QED BY <1>2, <1>7, <3>1
  <2> QED BY <2>1, <2>2, <2>3
<1>8. ASSUME NEW i \in 1 .. a + l PROVE Same(s[e[i]], h[i])
  <2>1. CASE i <= a
    <3>1. i \in 1 .. a /\ e[i] = f[i]
      BY <1>2, <2>1
    <3> QED BY <1>1, <1>3, <3>1
  <2>2. CASE ~ (i <= a)
    <3> DEFINE k == i - a
    <3>1. k \in 1 .. l /\ a + k = i /\ e[i] = n + k
      BY <1>2, <2>2
    <3> HIDE DEF k
    <3> QED BY <1>3, <1>4, <3>1
  <2> QED BY <2>1, <2>2
<1> HIDE DEF e
<1>9. InOrder(s, h, n + l)
  BY <1>3, <1>6, <1>7, <1>8 DEF InOrder
<1> QED BY <1>9 DEF h, l

(* The invariant with lost bytes: the buffer is what has been read from    *)
(* some offset on; what has been taken stood in front of it.               *)
Behind(n) ==
  /\ InOrder(sent, got, n)
  /\ outcome \notin {"repeats", "erase_threw"} =>
       \E p \in 0 .. Read : Place(sent, p, n) /\ buffer = Run(Stream(sent), p, Read)
Gapped == AllHonest => \E n \in 0 .. Len(sent) : Behind(n)

LEMMA StreamTypes ==
  ASSUME ReadTypes
  PROVE  /\ sent \in Seq(Sendable) /\ Len(sent) \in Nat /\ Len(wire) \in Nat
         /\ Stream(sent) \in Seq(Tokens) /\ Total = Len(Stream(sent)) /\ Total \in Nat
         /\ Read \in 0 .. Total /\ Read + Len(wire) = Total /\ wire = Run(Stream(sent), Read, Total)
<1> DEFINE w == Stream(sent)
<1>1. w \in Seq(Tokens) /\ Total = Len(w) /\ wire = Run(w, Read, Total) /\ Len(wire) <= Total
      /\ sent \in Seq(Sendable) /\ wire \in Seq(Tokens)
  BY DEF ReadTypes, Total
<1> HIDE DEF w
<1>2. Total \in Nat /\ Len(wire) \in Nat /\ Len(sent) \in Nat
  BY <1>1
<1>3. Read \in 0 .. Total /\ Read + Len(wire) = Total
  BY <1>1, <1>2 DEF Read
<1> QED BY <1>1, <1>2, <1>3 DEF w

LEMMA StartsGapped ==
  ASSUME KnownKinds, Init
  PROVE  Gapped
<1>1. ReadTypes
  BY StartsRead DEF KnownKinds
<1>2. wire = Stream(sent) /\ buffer = << >> /\ got = << >> /\ Len(got) = 0
  BY DEF Init
<1>3. Read = 0 /\ 0 \in 0 .. Len(sent) /\ 0 \in 0 .. Read /\ Off(sent, 0) = 0
  <2>1. Len(wire) = Total /\ Total \in Nat
    BY <1>1, <1>2, StreamTypes
  <2>2. sent \in Seq(Sendable) /\ Len(sent) \in Nat
    BY <1>1, StreamTypes
  <2>3. Prefix(sent, 0) = << >>
    BY <2>2, PrefixFacts
  <2> QED BY <2>1, <2>2, <2>3 DEF Read, Off
<1>4. Run(Stream(sent), 0, 0) = << >>
  <2>1. Stream(sent) \in Seq(Tokens) /\ Len(Stream(sent)) \in Nat
    BY <1>1, StreamTypes
  <2>2. Run(Stream(sent), 0, 0) \in Seq(Tokens) /\ Len(Run(Stream(sent), 0, 0)) = 0 - 0
    BY <2>1, RunTypes
  <2> QED BY <2>2
<1>5. InOrder(sent, got, 0)
  <2> DEFINE f == [i \in 1 .. Len(got) |-> 0]
  <2>1. f \in [1 .. Len(got) -> 1 .. 0] /\ \A i \in 1 .. Len(got) : FALSE
    BY <1>2
  <2> QED BY <2>1 DEF InOrder
<1>6. Place(sent, 0, 0)
  BY <1>3 DEF Place
<1>7. Behind(0)
  BY <1>2, <1>3, <1>4, <1>5, <1>6 DEF Behind
<1> QED BY <1>3, <1>7 DEF Gapped

(* An empty read drops the buffer: what comes is behind it.                *)
LEMMA GapDrops ==
  ASSUME KnownKinds, ReadTypes, Gapped, EventReadNothing
  PROVE  Gapped'
<1>1. /\ outcome = "running" /\ buffer' = << >> /\ sent' = sent /\ wire' = wire /\ got' = got
      /\ outcome' = outcome
  BY DEF EventReadNothing
<1>2. AllHonest' => AllHonest
  BY <1>1 DEF AllHonest, Honest, NamesProtocol
<1>3. Read' = Read /\ Stream(sent') = Stream(sent)
  BY <1>1 DEF Read, Total
<1> SUFFICES ASSUME AllHonest PROVE \E n \in 0 .. Len(sent) : Behind(n)'
  BY <1>1, <1>2 DEF Gapped
<1>4. PICK n \in 0 .. Len(sent) : Behind(n)
  BY DEF Gapped
<1>5. InOrder(sent, got, n)
  BY <1>4 DEF Behind
<1>6. PICK p \in 0 .. Read : Place(sent, p, n)
  BY <1>1, <1>4 DEF Behind
<1>7. /\ sent \in Seq(Sendable) /\ Read \in 0 .. Len(Stream(sent)) /\ Stream(sent) \in Seq(Tokens)
      /\ Len(Stream(sent)) \in Nat
  BY StreamTypes
<1>8. PICK k \in 0 .. Len(sent) : Place(sent, Read, k)
  BY <1>7, PlaceExists
<1>9. p \in Nat /\ Read \in Nat /\ p <= Read /\ Read <= Len(Stream(sent)) /\ n \in Nat /\ k \in Nat
  BY <1>7
<1>10. n <= k
  BY <1>6, <1>7, <1>8, <1>9, PlacesFollow
<1>11. InOrder(sent, got, k)
  BY <1>5, <1>9, <1>10, OrderLater
<1>12. Run(Stream(sent), Read, Read) = << >>
  <2> DEFINE x == Run(Stream(sent), Read, Read)
  <2>1. Read <= Read
    BY <1>9
  <2>2. x \in Seq(Tokens) /\ Len(x) = Read - Read
    BY <1>7, <1>9, <2>1, RunTypes
  <2> HIDE DEF x
  <2>3. Len(x) = 0
    BY <1>9, <2>2
  <2>4. x = << >>
    BY <2>2, <2>3
  <2> QED BY <2>4 DEF x
<1>13. Read \in 0 .. Read
  BY <1>9
<1>14. /\ InOrder(sent', got', k)
       /\ Read \in 0 .. Read' /\ Place(sent', Read, k) /\ buffer' = Run(Stream(sent'), Read, Read')
  BY <1>1, <1>3, <1>8, <1>11, <1>12, <1>13 
<1>15. Behind(k)'
  BY <1>14 DEF Behind, InOrder, Same, Place, Off, Prefix, Stream
<1> QED BY <1>15

(* A read adds to the buffer; the loop takes messages off its front if it  *)
(* begins with one, and nothing otherwise.                                 *)
LEMMA GapReads ==
  ASSUME KnownKinds, MethodsLead, ReadTypes, Gapped, NEW c, Reads(c)
  PROVE  Gapped'
<1> DEFINE w == Stream(sent)
           r == Read + c
           b == buffer \o Run(wire, 0, c)
           t == Taken(b)
           s == t.messages
           j == Len(s)
<1>1. TakenOk(Tokens, t) /\ Len(wire') = Len(wire) - c
  BY ReadFacts
<1>2. /\ outcome = "running" /\ sent' = sent /\ ProcessEventRead_(t)
      /\ c \in Nat /\ c <= Len(wire)
  BY DEF Reads
<1>3. s \in Seq(Parsed(Tokens)) /\ j \in Nat
  <2>1. s \in Seq(Parsed(Tokens))
    BY <1>1 DEF TakenOk
  <2> HIDE DEF s
  <2> QED BY <2>1
<1>4. /\ w \in Seq(Tokens) /\ Total = Len(w) /\ Len(w) \in Nat /\ wire = Run(w, Read, Total)
      /\ sent \in Seq(Sendable) /\ Len(sent) \in Nat /\ got \in Seq(Parsed(Tokens))
      /\ Read \in 0 .. Total /\ Read + Len(wire) = Total /\ Len(wire) \in Nat
  BY StreamTypes DEF ReadTypes
<1>5. Read \in Nat /\ r \in Nat /\ r <= Len(w) /\ Read <= r /\ Read' = r
  <2>1. Total' = Total
    BY <1>2 DEF Total
  <2> HIDE DEF w
  <2>2. Read' = Total - (Len(wire) - c)
    BY <1>1, <2>1 DEF Read
  <2> DEFINE x == Read
             y == Len(wire)
             z == Total
  <2>3. x \in Nat /\ y \in Nat /\ c \in Nat /\ c <= y /\ x + y = z /\ z = Len(w) /\ Read' = z - (y - c)
    BY <1>2, <1>4, <2>2
  <2> HIDE DEF x, y, z
  <2>4. x \in Nat /\ x + c \in Nat /\ x + c <= Len(w) /\ x <= x + c /\ Read' = x + c
    BY <2>3
  <2> QED BY <2>4 DEF x
<1>6. /\ got' = got \o s /\ buffer' = t.rest
      /\ outcome' = IF t.res \in {"hangs", "repeats", "erase_threw"} THEN t.res ELSE outcome
  <2> HIDE DEF t
  <2> QED BY <1>2 DEF ProcessEventRead_
<1>7. AllHonest' => AllHonest
  BY <1>2 DEF AllHonest, Honest, NamesProtocol
<1>8. Stream(sent') = w
  BY <1>2
<1> SUFFICES ASSUME AllHonest PROVE \E n \in 0 .. Len(sent) : Behind(n)'
  BY <1>2, <1>7 DEF Gapped
<1>9. PICK n \in 0 .. Len(sent) : Behind(n)
  BY DEF Gapped
<1>10. PICK p \in 0 .. Read : Place(sent, p, n) /\ buffer = Run(w, p, Read)
  BY <1>2, <1>9 DEF Behind
<1>11. InOrder(sent, got, n) /\ n \in Nat /\ p \in Nat /\ p <= Read /\ p <= r
  <2>1. n \in Nat /\ p \in Nat /\ p <= Read
    BY <1>4, <1>5
  <2> HIDE DEF w, r
  <2>2. p <= r
    BY <1>5, <2>1
  <2> QED BY <1>9, <2>1, <2>2 DEF Behind
<1>12. b = Run(w, p, r)
  <2> HIDE DEF w
  <2>1. Run(wire, 0, c) = Run(w, Read, r)
    <3>1. Read <= Total /\ Total <= Len(w) /\ c <= Total - Read /\ Total \in Nat
      BY <1>2, <1>4, <1>5
    <3> QED BY <1>2, <1>4, <1>5, <3>1, RunHead
  <2>2. Run(w, p, Read) \o Run(w, Read, r) = Run(w, p, r)
    BY <1>4, <1>5, <1>11, RunsJoin
  <2> QED BY <1>10, <2>1, <2>2
<1> HIDE DEF t, b
<1>13. ASSUME NEW k \in 0 .. Len(sent), InOrder(sent, got', k),
              outcome' \notin {"repeats", "erase_threw"} =>
                \E q \in 0 .. r : Place(sent, q, k) /\ buffer' = Run(w, q, r)
       PROVE  \E i \in 0 .. Len(sent) : Behind(i)'
  <2> HIDE DEF r
  <2>1. outcome' \notin {"repeats", "erase_threw"} =>
          \E q \in 0 .. Read' : Place(sent', q, k) /\ buffer' = Run(Stream(sent'), q, Read')
    BY <1>2, <1>5, <1>13
  <2>2. InOrder(sent', got', k)
    BY <1>2, <1>13
  <2>3. Behind(k)'
    BY <2>1, <2>2 DEF Behind, InOrder, Same, Place, Off, Prefix, Stream
  <2> QED BY <2>3
<1>14. CASE p # Off(sent, n)
  <2>1. At(b, 0) \notin {GET, POST, RESPONSE}
    <3>1. r <= Len(Stream(sent))
      BY <1>5
    <3> HIDE DEF r
    <3> QED BY <1>4, <1>5, <1>11, <1>12, <1>14, <1>10, <3>1, InsideMessage
  <2>2. b \in Seq(Tokens)
    BY ReadFacts DEF b
  <2>3. s = << >> /\ t.rest = b /\ t.res \in {"incomplete", "throws"}
    BY <2>1, <2>2, NothingTaken DEF t
  <2>4. got' = got
    <3>1. got \o << >> = got
      BY <1>4
    <3> QED BY <1>6, <2>3, <3>1
  <2>5. p \in 0 .. r /\ Place(sent, p, n) /\ buffer' = Run(w, p, r)
    <3>1. p \in 0 .. r
      <4> HIDE DEF r
      <4> QED BY <1>5, <1>11
    <3> QED BY <1>6, <1>10, <1>12, <2>3, <3>1
  <2> QED BY <1>11, <1>13, <2>4, <2>5
<1>15. CASE p = Off(sent, n)
  <2> DEFINE v == Run(w, 0, r)
             m == n + j
  <2>1. StreamTaken(sent, v, n, t)
    <3>1. Off(sent, n) <= r /\ r <= Len(Stream(sent))
      BY <1>5, <1>11, <1>15
    <3> HIDE DEF r
    <3>2. StreamTaken(sent, Run(Stream(sent), 0, r), n, Taken(Run(Stream(sent), Off(sent, n), r)))
      BY <1>4, <1>5, <3>1, TakenNow
    <3> QED BY <1>12, <1>15, <3>2 DEF t
  <2>2. \A x \in Nat : x <= r => Run(v, x, Len(v)) = Run(w, x, r)
    <3> HIDE DEF w, r
    <3> QED BY <1>4, <1>5, RunStart
  <2>3. Len(v) = r
    <3> HIDE DEF w, r
    <3> QED BY <1>4, <1>5, RunStart
  <2> HIDE DEF v
  <2>4. \A i \in 1 .. j : n + i <= Len(sent) => NamesProtocol(sent[n + i])
    <3> TAKE i \in 1 .. j
    <3> HAVE n + i <= Len(sent)
    <3>1. n + i \in DOMAIN sent
      <4> HIDE DEF j
      <4>1. n + i \in 1 .. Len(sent)
        BY <1>3, <1>4, <1>11
      <4> QED BY <1>4, <4>1
    <3> QED BY <3>1 DEF AllHonest, Honest
  <2>5. /\ m <= Len(sent)
        /\ \A i \in 1 .. j : Right(sent, n + i, s[i])
        /\ t.res \notin {"repeats", "erase_threw"} =>
             Off(sent, m) <= Len(v) /\ t.rest = Run(v, Off(sent, m), Len(v))
    BY <2>1, <2>4 DEF StreamTaken
  <2>6. InOrder(sent, got', m)
    <3>1. \A i \in 1 .. j : Same(sent[n + i], s[i])
      BY <2>5 DEF Right
    <3> HIDE DEF s
    <3>2. InOrder(sent, got \o s, n + Len(s))
      BY <1>3, <1>4, <1>11, <3>1, OrderGrows
    <3> QED BY <1>6, <3>2
  <2>7. m \in 0 .. Len(sent) /\ m \in Nat
    <3> HIDE DEF j
    <3> QED BY <1>3, <1>4, <1>11, <2>5
  <2> HIDE DEF m
  <2>8. Off(sent, m) \in Nat
    BY <1>4, <2>7, TextsKnown, PrefixTexts
  <2>9. Place(sent, Off(sent, m), m)
    <3>1. ASSUME m > 0 PROVE Off(sent, m - 1) < Off(sent, m)
      <4>1. m - 1 \in 0 .. Len(sent) /\ m - 1 < m
        BY <1>4, <2>7, <3>1
      <4> QED BY <1>4, <2>7, <4>1, OffGrows
    <3> QED BY <2>8, <3>1 DEF Place
  <2>10. ASSUME outcome' \notin {"repeats", "erase_threw"}
         PROVE  \E q \in 0 .. r : Place(sent, q, m) /\ buffer' = Run(w, q, r)
    <3>1. t.res \notin {"repeats", "erase_threw"}
      BY <1>6, <2>10
    <3>2. Off(sent, m) <= r /\ buffer' = Run(w, Off(sent, m), r)
      BY <1>6, <2>2, <2>3, <2>5, <2>8, <3>1
    <3>3. Off(sent, m) \in 0 .. r
      <4> HIDE DEF r
      <4> QED BY <1>5, <2>8, <3>2
    <3> QED BY <2>9, <3>2, <3>3
  <2> QED BY <1>13, <2>6, <2>7, <2>10
<1> QED BY <1>14, <1>15

LEMMA GapStep ==
  ASSUME KnownKinds, MethodsLead, ReadTypes, Gapped, [Next]_vars
  PROVE  Gapped'
<1>1. ASSUME EventRead PROVE Gapped'
  <2>1. PICK c \in Chunks : Reads(c)
    BY <1>1, ReadSteps
  <2> QED BY <2>1, GapReads
<1>2. ASSUME EventReadNothing PROVE Gapped'
  BY <1>2, GapDrops
<1>3. ASSUME UNCHANGED vars PROVE Gapped'
  <2>1. /\ sent' = sent /\ wire' = wire /\ buffer' = buffer /\ got' = got /\ outcome' = outcome
    BY <1>3 DEF vars
  <2>2. (AllHonest' => AllHonest) /\ Read' = Read
    BY <2>1 DEF AllHonest, Honest, NamesProtocol, Read, Total
  <2>3. ASSUME NEW n, Behind(n) PROVE Behind(n)'
    <3>1. InOrder(sent', got', n)
      BY <2>1, <2>3 DEF Behind
    <3>2. outcome' \notin {"repeats", "erase_threw"} =>
            \E p \in 0 .. Read' : Place(sent', p, n) /\ buffer' = Run(Stream(sent'), p, Read')
      BY <2>1, <2>2, <2>3 DEF Behind
    <3> QED BY <3>1, <3>2 DEF Behind, InOrder, Same, Place, Off, Prefix, Stream
  <2> QED BY <2>1, <2>2, <2>3 DEF Gapped
<1> QED BY <1>1, <1>2, <1>3 DEF Next, Quiet

LEMMA OrderedGapped ==
  ASSUME ReadTypes, Gapped
  PROVE  NothingInvented
<1> SUFFICES ASSUME AllHonest
             PROVE  \E f \in [DOMAIN got -> DOMAIN sent] :
                      /\ \A i, j \in DOMAIN got : i < j => f[i] < f[j]
                      /\ \A i \in DOMAIN got : Same(sent[f[i]], got[i])
  BY DEF NothingInvented
<1>1. sent \in Seq(Sendable) /\ got \in Seq(Parsed(Tokens)) /\ Len(sent) \in Nat
  BY DEF ReadTypes
<1>2. DOMAIN got = 1 .. Len(got) /\ DOMAIN sent = 1 .. Len(sent)
  BY <1>1
<1>3. PICK n \in 0 .. Len(sent) : Behind(n)
  BY DEF Gapped
<1>4. InOrder(sent, got, Len(sent))
  <2>1. InOrder(sent, got, n) /\ n \in Nat /\ n <= Len(sent)
    BY <1>1, <1>3 DEF Behind
  <2> QED BY <1>1, <2>1, OrderLater
<1> QED BY <1>2, <1>4 DEF InOrder

(* Whatever the network cuts and an empty read discards, what the parser   *)
(* takes are messages of the peer, in their order, if no name of a method  *)
(* stands inside a message and every message names its protocol and has    *)
(* what it announces.                                                      *)
THEOREM OnlySentTaken ==
  ASSUME KnownKinds, MethodsLead
  PROVE  Spec => []NothingInvented
<1> DEFINE I == ReadTypes /\ Gapped
<1>1. Init => I
  BY StartsRead, StartsGapped DEF KnownKinds
<1>2. I /\ [Next]_vars => I'
  BY TypesStep, GapStep
<1>3. I => NothingInvented
  BY OrderedGapped
<1> HIDE DEF I
<1> QED BY <1>1, <1>2, <1>3, PTL DEF Spec
==============================================================================
