--------------------------- MODULE IncomingMessage ---------------------------
(***************************************************************************)
(* IncomingHttpMessage::Deserialize: one HTTP message from the front of a  *)
(* buffer.  A run of characters that the parser compares as a whole is one *)
(* token; CR and LF are tokens of their own.  Offsets start at 0, and what *)
(* is read at the end of the data is the terminating NUL, as in C.         *)
(*                                                                         *)
(* The three steps return a record with `res':                             *)
(*   "done"        true                                                    *)
(*   "incomplete"  false                                                   *)
(*   "throws"      DeserializationError                                    *)
(*   "hangs"       the loop never ends                                     *)
(***************************************************************************)
EXTENDS HttpTypes

CONSTANT Word            \* 2^64, what a size_t wraps at

ASSUME WordAssumption == Word \in Nat /\ Word > 64

At(d, p)      == IF p < Len(d) THEN d[p + 1] ELSE NUL
Run(d, p, q)  == SubSeq(d, p + 1, q)
IsCrLf(d, p)  == At(d, p) = "CR" /\ At(d, p + 1) = "LF"

(* The first offset from p on with a token in T, or the end.               *)
FirstAt(d, p, T) ==
  CHOOSE q \in p .. Len(d) :
    /\ At(d, q) \in T \cup {NUL}
    /\ \A i \in p .. q - 1 : At(d, i) \notin T \cup {NUL}

(* strstr: where the needle is, a line end or the protocol.               *)
BeforeNul(d, p) == {q \in p .. Len(d) - 1 : \A i \in p .. q : At(d, i) # NUL}
LineEnds(d, p)  == {q \in BeforeNul(d, p) : IsCrLf(d, q)}
Protocols(d, p) == {q \in BeforeNul(d, p) : At(d, q) = Version}
MinOf(S) == CHOOSE x \in S : \A y \in S : x <= y

-----------------------------------------------------------------------------
(* Mutant: a line is judged before its end has arrived.                    *)
DeserializeMethodEarly(d) ==
  LET lineEnds  == LineEnds(d, 0)
      protocols == Protocols(d, 1)
  IN  IF protocols = {} /\ At(d, 0) # RESPONSE THEN [res |-> "throws"]
      ELSE IF lineEnds = {} THEN [res |-> "incomplete"]
      ELSE [res |-> "done", method |-> At(d, 0), uri |-> Run(d, 1, MinOf(protocols)),
            eof |-> MinOf(lineEnds) + 2]

(* DeserializeMethod_: the first line.  The protocol is looked for in all  *)
(* that follows, not only in the line.                                     *)
DeserializeMethod_(d) ==
  LET lineEnds  == LineEnds(d, 0)
      protocols == Protocols(d, 1)
      eof       == MinOf(lineEnds) + 2
      method    == At(d, 0)
      Result(res, uri) == [res |-> res, method |-> method, uri |-> uri, eof |-> eof]
  IN  CASE lineEnds = {}                   -> [res |-> "incomplete"]
        [] lineEnds # {} /\ method \notin {GET, POST, RESPONSE} -> Result("throws", << >>)
        [] lineEnds # {} /\ method = RESPONSE ->
             Result(IF At(d, 1) = "200" THEN "done" ELSE "throws", << >>)
        [] lineEnds # {} /\ method \in {GET, POST} ->
             IF protocols = {} THEN Result("throws", << >>)
             ELSE Result("done", Run(d, 1, MinOf(protocols)))

(* One header line: key, value, where the value starts and what follows,  *)
(* and whether the end of the line is there.                               *)
KeyEnd(d, p)     == FirstAt(d, p, {"CR", Colon})
ValueStart(d, q) == IF At(d, q) = Colon THEN q + 1 ELSE q
ValueEnd(d, p)   == IF LineEnds(d, p) = {} THEN FirstAt(d, p, {}) ELSE MinOf(LineEnds(d, p))
HeaderLine(d, p, keyEnd, start, valueEnd) ==
  [key |-> Run(d, p, keyEnd), value |-> Run(d, start, valueEnd), start |-> start,
   ended |-> IsCrLf(d, valueEnd), next |-> IF IsCrLf(d, valueEnd) THEN valueEnd + 2 ELSE valueEnd]
LineAt(d, p) ==
  LET start == ValueStart(d, KeyEnd(d, p))
  IN  HeaderLine(d, p, KeyEnd(d, p), start, ValueEnd(d, start))

(* A pair without a value is not kept.                                     *)
Kept(l, h) ==
  IF h.res # "done" \/ l.value = << >> THEN h
  ELSE [h EXCEPT !.headers = <<[key |-> l.key, value |-> l.value]>> \o @]

(* DeserializeHeader_: lines until an empty one, which only counts after a *)
(* complete line.  A line that starts with CR has no key, and the key loop *)
(* does not move.                                                          *)
HeaderFrom(d) ==
  LET line[p \in 0 .. Len(d)] == [afterLine \in BOOLEAN |->
        LET l == LineAt(d, p)
        IN  IF At(d, p) = NUL \/ p + 2 > Len(d) THEN [res |-> "incomplete"]
            ELSE IF IsCrLf(d, p) /\ afterLine
                 THEN [res |-> "done", eof |-> p + 2, headers |-> << >>]
            ELSE IF l.key # << >> THEN Kept(l, line[l.next][l.ended])
            ELSE IF l.start = p THEN [res |-> "hangs"] ELSE line[l.start][FALSE]]
  IN  line

DeserializeHeader_(d, eof) ==
  IF eof >= Len(d) THEN [res |-> "incomplete"] ELSE HeaderFrom(d)[eof][FALSE]

(* strtoul: a numeral is one token, of one digit or of a minus sign and a  *)
(* number up to 20 (bound), which is negated as an unsigned long is.  (A   *)
(* number out of range is read as the largest, as "-1" is.)                *)
Negatives == <<"-1", "-2", "-3", "-4", "-5", "-6", "-7", "-8", "-9", "-10", "-11", "-12", "-13",
               "-14", "-15", "-16", "-17", "-18", "-19", "-20">>
Numerals(s, v) == {i \in DOMAIN s : v # << >> /\ s[i] = v[1]}
Number(v) ==
  IF Numerals(Digits, v) # {} THEN MinOf(Numerals(Digits, v))
  ELSE IF Numerals(Negatives, v) # {} THEN Word - MinOf(Numerals(Negatives, v))
  ELSE 0

(* What the headers say: the last one of a name wins.                      *)
Valued(headers, name) == {i \in DOMAIN headers : headers[i].key = <<name>>}
LastOf(headers, name) ==
  headers[CHOOSE i \in Valued(headers, name) : \A j \in Valued(headers, name) : j <= i].value
length_(headers) ==
  IF Valued(headers, ContentLength) = {} THEN 0 ELSE Number(LastOf(headers, ContentLength))
is_persistent_(headers) ==
  Valued(headers, Connection) # {} /\ LastOf(headers, Connection) = <<KeepAlive>>

(* Key and value pairs up to the next NUL.                                 *)
Skip(d, p, T) ==
  CHOOSE q \in p .. Len(d) : At(d, q) \notin T /\ \A i \in p .. q - 1 : At(d, i) \in T

QueryPair(d, p, keyEnd, start) ==
  [key |-> Run(d, p, keyEnd), value |-> Run(d, start, FirstAt(d, start, {"&"})),
   next |-> IF keyEnd = p THEN start ELSE FirstAt(d, start, {"&"})]

PairAt(d, p) ==
  LET keyEnd == FirstAt(d, p, {"="}) IN QueryPair(d, p, keyEnd, Skip(d, keyEnd, {"="}))

QueryPairs(d, from) ==
  LET pairs[p \in 0 .. Len(d)] ==
        LET q == PairAt(d, Skip(d, p, {"?", "&"}))
        IN  IF At(d, p) = NUL THEN << >>
            ELSE (IF q.key = << >> \/ q.value = << >> THEN << >>
                  ELSE <<[key |-> q.key, value |-> q.value]>>) \o pairs[q.next]
  IN  pairs[from]

(* eof += length_ is a size_t.  Both are less than Word.                   *)
Wrapped(n) == IF n < Word THEN n ELSE n - Word

(* Mutant: the path of a GET is taken for a key.                           *)
DeserializeQueryPath(d, method, uri, eof, length) ==
  IF method # GET /\ Wrapped(eof + length) > Len(d)
  THEN [res |-> "incomplete"]
  ELSE [res |-> "done", eof |-> Wrapped(eof + length),
        queries |-> IF method = GET THEN QueryPairs(uri, 0) ELSE QueryPairs(d, eof)]

(* Mutant: no message waits for its content.                               *)
DeserializeQueryUnchecked(d, method, uri, eof, length) ==
  [res |-> "done", eof |-> Wrapped(eof + length),
   queries |-> IF method = GET THEN QueryPairs(uri, FirstAt(uri, 0, {"?"})) ELSE QueryPairs(d, eof)]

(* DeserializeQuery_: a GET is never incomplete, whatever its length; the  *)
(* pairs of the others run to the end of the buffer.  A length near Word   *)
(* passes the test, and the message ends in its own header, or at 0.       *)
DeserializeQuery_(d, method, uri, eof, length) ==
  IF method = GET
  THEN [res |-> "done", eof |-> Wrapped(eof + length),
        queries |-> QueryPairs(uri, FirstAt(uri, 0, {"?"}))]
  ELSE IF Wrapped(eof + length) > Len(d)
  THEN [res |-> "incomplete"]
  ELSE [res |-> "done", eof |-> Wrapped(eof + length), queries |-> QueryPairs(d, eof)]

(* The whole message, or why there is none.                                *)
AfterQuery(m, h, q) ==
  IF q.res # "done" THEN [res |-> q.res]
  ELSE [res |-> "done", eof |-> q.eof, method |-> m.method, uri |-> m.uri,
        headers |-> h.headers, queries |-> q.queries,
        persistent |-> is_persistent_(h.headers)]

AfterHeader(d, m, h) ==
  IF h.res # "done" THEN [res |-> h.res]
  ELSE AfterQuery(m, h, DeserializeQuery_(d, m.method, m.uri, h.eof, length_(h.headers)))

AfterMethod(d, m) ==
  IF m.res # "done" THEN [res |-> m.res]
  ELSE AfterHeader(d, m, DeserializeHeader_(d, m.eof))

Deserialize(d) ==
  IF At(d, 0) = NUL THEN [res |-> "incomplete"]
  ELSE AfterMethod(d, DeserializeMethod_(d))
=============================================================================
