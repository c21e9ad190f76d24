----------------------------- MODULE MCReadPath -----------------------------
(* ReadPath for TLC: the messages that the peers of each run send.         *)
EXTENDS ReadPath

P(k, v) == [key |-> <<k>>, value |-> <<v>>]
Two   == <<"x", "=", "1", "&", "y", "=", "2">>
Pairs == <<P("x", "1"), P("y", "2")>>

(* A message of this library.                                              *)
Own(m, pairs) ==
  LET p == Prepared(m)
  IN  [own |-> <<m>>, text |-> Serialize(m), method |-> m.method, pairs |-> pairs,
       uri |-> IF m.method = GET THEN <<"?">> \o m.data ELSE << >>,
       headers |-> [i \in DOMAIN p.header |-> P(p.header[i].key, p.header[i].value)]]

(* A message of another program.                                           *)
Other(method, uri, k, v, content, pairs) ==
  [own |-> << >>, text |-> <<method>> \o uri \o Protocol \o <<k, Colon, v>> \o CrLf \o CrLf \o content,
   method |-> method, pairs |-> pairs, uri |-> uri, headers |-> <<P(k, v)>>]

Request(method, data) == SetData(SetPersistence(SetMethod(NewMessage, method), TRUE), data)

Ask   == Own(Request(GET, Two), Pairs)
Form  == Own(Request(POST, Two), Pairs)
Reply == Own(Response("200", <<"x">>, << >>, FALSE), << >>)
Empty == Own(SetPersistence(NewMessage, TRUE), << >>)
Bare  == Own(SetMethod(NewMessage, GET), << >>)
Look  == Other(GET, <<"x", "?">> \o Two, "x", "x", << >>, Pairs)
Long  == Other(GET, <<"x">>, ContentLength, "2", <<"x", "x">>, << >>)
Wrong == Other("x", << >>, "x", "x", << >>, << >>)

Old   == [own |-> << >>, text |-> <<GET, "x">> \o CrLf, method |-> GET, pairs |-> << >>,
          uri |-> <<"x">>, headers |-> << >>]

(* Lengths that wrap: the end of the message is 0, or behind the first     *)
(* line.  And header lines without a key: a bare CR, and a colon.          *)
Never  == Other(GET, <<"x">>, ContentLength, "-13", << >>, << >>)
Again  == Other(POST, << >>, ContentLength, "-12", << >>, << >>)
Cut    == Other(POST, << >>, ContentLength, "-7", << >>, << >>)
Lined(line) ==
  [own |-> << >>, text |-> <<GET, "x">> \o Protocol \o <<"x", Colon, "x">> \o CrLf \o line \o CrLf \o CrLf,
   method |-> GET, pairs |-> << >>, uri |-> <<"x">>, headers |-> <<P("x", "x")>>]
Return  == Lined(<<"CR", "x">>)
Keyless == Lined(<<Colon>>)

Proper     == {Ask, Form, Reply, Empty, Bare, Look, Long, Wrong, Old}
Odd        == {Never, Again, Cut, Return, Keyless}
Every      == Proper \cup Odd
Silent     == {Bare}

(* Whatever two messages, an odd one alone or beside some of them, and     *)
(* three of a few.                                                         *)
Few ==
  UNION {[1 .. n -> Proper] : n \in 1 .. 2} \cup [1 .. 3 -> {Empty, Wrong, Old}]
    \cup [1 .. 1 -> Odd]
    \cup UNION {{<<o, m>>, <<m, o>>} : o \in Odd, m \in {Form, Old}}
Lonely == {<<Bare>>}

(* What the proofs assume of the messages holds for these.                 *)
ASSUME MessagesKnown ==
  /\ Texts /\ KnownPairs /\ OwnTexts /\ MethodsLead
  /\ \A m \in Sendable \ Odd : Whole(m) \/ Headerless(m) \/ Strange(m) \/ Unfinished(m)
  /\ \A m \in {Ask, Form, Reply, Look, Long} \cap Sendable : Whole(m)
=============================================================================
