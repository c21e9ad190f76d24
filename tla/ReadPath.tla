------------------------------ MODULE ReadPath ------------------------------
(***************************************************************************)
(* From the bytes of a peer to parsed messages: BaseConnection::EventRead  *)
(* appends what the socket has, HttpConnection::ProcessEventRead_ takes    *)
(* messages off the front of the buffer.  A peer sends whole messages one  *)
(* after the other; the network cuts the stream anywhere.                  *)
(***************************************************************************)
EXTENDS IncomingMessage, OutgoingMessage

CONSTANTS Sendable,      \* the messages that a peer may send
          Conversations, \* the sequences of messages that a peer sends
          Chunks         \* bound: how many tokens recv() may return

ASSUME ReadAssumption == Conversations \subseteq Seq(Sendable) /\ Chunks \subseteq Nat \ {0}

VARIABLES sent,      \* the messages of the stream
          wire,      \* its tokens that have not been read yet
          buffer,    \* buffer_
          got,       \* the messages pushed to incoming_, in order
          bad,       \* buffer_has_bad_data_
          refused,   \* BadRequest replies
          dropped,   \* has a part of a message been cleared?
          outcome    \* "running", "hangs", "repeats" or "erase_threw"

vars == <<sent, wire, buffer, got, bad, refused, dropped, outcome>>

(* What a peer sends: an outgoing message of this library (own) or another *)
(* text, with what a reader of HTTP finds in it.                           *)
Stream(ms) ==
  LET tokens[n \in 0 .. Len(ms)] == IF n = 0 THEN << >> ELSE tokens[n - 1] \o ms[n].text
  IN  tokens[Len(ms)]

Init ==
  /\ sent \in Conversations
  /\ wire = Stream(sent)
  /\ buffer = << >>
  /\ got = << >>
  /\ bad = FALSE
  /\ refused = 0
  /\ dropped = FALSE
  /\ outcome = "running"

-----------------------------------------------------------------------------
(* Mutant: only the first message of the buffer is taken.                  *)
TakenOnce(b) ==
  LET r == Deserialize(b)
  IN  IF r.res # "done" THEN [messages |-> << >>, rest |-> b, res |-> r.res]
      ELSE [messages |-> <<r>>, rest |-> Run(b, r.eof, Len(b)), res |-> "incomplete"]

(* Mutant: the message is not erased from the buffer.                      *)
TakenKept(b) ==
  LET r == Deserialize(b)
  IN  [messages |-> IF r.res = "done" THEN <<r>> ELSE << >>, rest |-> b,
       res |-> IF r.res = "done" THEN "incomplete" ELSE r.res]

(* Mutant: bad data is thrown away.                                        *)
TakenDropsBad(b) ==
  LET r == Deserialize(b)
  IN  IF r.res = "done"
      THEN [messages |-> <<r>>, rest |-> Run(b, r.eof, Len(b)), res |-> "incomplete"]
      ELSE [messages |-> << >>, rest |-> IF r.res = "throws" THEN << >> ELSE b, res |-> r.res]

(* The loop of ProcessEventRead_ over the buffer: the messages it pushes,  *)
(* what it leaves, and how it ends.  Erase throws when a message claims    *)
(* more than the buffer has; the message was pushed before.  A message of  *)
(* no length is pushed again and again: the loop never ends.               *)
TakenFrom(b) ==
  LET from[p \in 0 .. Len(b)] ==
        LET r    == Deserialize(Run(b, p, Len(b)))
            rest == from[p + r.eof]
        IN  IF r.res # "done" THEN [messages |-> << >>, rest |-> Run(b, p, Len(b)), res |-> r.res]
            ELSE IF r.eof = 0
            THEN [messages |-> <<r>>, rest |-> Run(b, p, Len(b)), res |-> "repeats"]
            ELSE IF p + r.eof > Len(b)
            THEN [messages |-> <<r>>, rest |-> Run(b, p, Len(b)), res |-> "erase_threw"]
            ELSE [messages |-> <<r>> \o rest.messages, rest |-> rest.rest, res |-> rest.res]
  IN  from
Taken(b) == TakenFrom(b)[0]

(* A second reading of bad data is answered, the first one only noted.     *)
Refused(res) == IF res = "throws" /\ bad THEN 1 ELSE 0

ProcessEventRead_(t) ==
  /\ got' = got \o t.messages
  /\ buffer' = t.rest
  /\ bad' = (t.res = "throws" \/ (bad /\ t.res # "incomplete"))
  /\ refused' = refused + Refused(t.res)
  /\ outcome' = IF t.res \in {"hangs", "repeats", "erase_threw"} THEN t.res ELSE outcome

EventRead ==
  /\ outcome = "running"
  /\ \E n \in Chunks :
       /\ n <= Len(wire)
       /\ wire' = Run(wire, n, Len(wire))
       /\ ProcessEventRead_(Taken(buffer \o Run(wire, 0, n)))
  /\ UNCHANGED <<sent, dropped>>

(* recv() fails with EAGAIN or EINTR: ReadStream returns 0, and EventRead  *)
(* drops what it has.                                                      *)
EventReadNothing ==
  /\ outcome = "running"
  /\ buffer' = << >>
  /\ dropped' = (dropped \/ buffer # << >>)
  /\ UNCHANGED <<sent, wire, got, bad, refused, outcome>>

(* The peer has nothing more to say, or the worker is lost.                *)
Quiet ==
  /\ wire = << >> \/ outcome # "running"
  /\ UNCHANGED vars

Next == EventRead \/ EventReadNothing \/ Quiet

Spec == Init /\ [][Next]_vars

-----------------------------------------------------------------------------
(* Properties.                                                             *)

Same(m, r) == m.method = r.method /\ m.uri = r.uri /\ m.headers = r.headers

(* The parser accepts GET and POST with a protocol and a reply with code   *)
(* 200.  It looks for the protocol in all that follows: what it takes for  *)
(* a message without one runs on into the next.                            *)
NamesProtocol(m) == m.method \in {GET, POST} => Protocols(m.text, 1) # {}
Acceptable(m) ==
  \/ m.method \in {GET, POST} /\ NamesProtocol(m)
  \/ m.method = RESPONSE /\ m.text[2] = "200"

(* Nor does it doubt a length: a message that announces more than it has   *)
(* takes from the next one, or, once the sum wraps, leaves its own rest    *)
(* behind to be read as a message.                                         *)
Honest(m) == NamesProtocol(m) /\ length_(m.headers) <= Len(m.text)
Clean == \A i \in DOMAIN sent : i <= Len(got) => Honest(sent[i])
Upcoming(m) == Len(got) < Len(sent) /\ sent[Len(got) + 1] = m

(* However the network cuts the stream, the messages come out whole, in    *)
(* order, and as soon as they are complete: nothing is taken early, late   *)
(* or twice, and the buffer holds exactly the part of the next message     *)
(* that has arrived.                                                       *)
TakenExactly ==
  LET n == Len(got)
  IN  outcome = "running" /\ ~dropped /\ Clean =>
        /\ n <= Len(sent)
        /\ \A i \in 1 .. n : Same(sent[i], got[i])
        /\ Stream(SubSeq(sent, 1, n)) \o buffer \o wire = Stream(sent)
        /\ \A m \in Sendable :
             Upcoming(m) /\ Acceptable(m) => Len(buffer) < Len(m.text)

(* The pairs of a GET are those of its query, and the pairs of the last    *)
(* message those of its content.  (Before another message the pairs of a   *)
(* POST may run on into that one, since the loop ends at the NUL.)         *)
PairsFound ==
  ~dropped /\ Clean =>
    \A i \in DOMAIN got : got[i].method = GET \/ i = Len(sent) => got[i].queries = sent[i].pairs

(* Where header lines start, and where the header ends: an empty line that *)
(* is not the first.  The header loop stands still at a line start of keys *)
(* that are all empty up to a CR (a bare CR is the shortest), unless it is *)
(* that end, or comes behind it.                                           *)
LineStarts(d)  == {q + 2 : q \in LineEnds(d, 0)}
HeaderEnds(d)  == {p \in LineStarts(d) : IsCrLf(d, p) /\ p > MinOf(LineStarts(d))}
HeaderEnd(d)   == MinOf(HeaderEnds(d)) + 2
NoKey(d, p)    == \E q \in p .. Len(d) - 1 : At(d, q) = "CR" /\ \A i \in p .. q - 1 : At(d, i) = Colon
Stuck(d) ==
  \E p \in LineStarts(d) \ HeaderEnds(d) : NoKey(d, p) /\ \A x \in HeaderEnds(d) : p < x

(* A peer is only suspected or refused for a message that the parser does  *)
(* not accept, and the header loop only stands still in a message with a   *)
(* line without a key, or one that runs on: what was sent before it has    *)
(* been taken.                                                             *)
GoodNeverRefused ==
  /\ (bad \/ refused > 0) /\ ~dropped /\ Clean =>
       \E m \in Sendable : Upcoming(m) /\ ~Acceptable(m)
  /\ outcome = "hangs" /\ ~dropped /\ Clean =>
       \E m \in Sendable : Upcoming(m) /\ (Stuck(m.text) \/ ~NamesProtocol(m))

(* Bad data is never skipped: nothing that follows it on the connection is *)
(* taken for a message, unless all that is bad is that the protocol is     *)
(* missing, and one comes.                                                 *)
ProtocolComes ==
  /\ At(buffer, 0) \in {GET, POST} /\ Protocols(buffer, 1) = {}
  /\ Protocols(buffer \o Run(wire, 0, Len(wire) - Len(wire')), 1) # {}
NothingAfterBad ==
  [][bad /\ ~dropped' => (bad' /\ got' = got) \/ ProtocolComes]_vars

(* Even when an empty read discards half a message, what is taken was      *)
(* sent, and in this order, if every message names its protocol and has    *)
(* what it announces.                                                      *)
AllHonest == \A i \in DOMAIN sent : Honest(sent[i])
NothingInvented ==
  AllHonest => \E f \in [DOMAIN got -> DOMAIN sent] :
             /\ \A i, j \in DOMAIN got : i < j => f[i] < f[j]
             /\ \A i \in DOMAIN got : Same(sent[f[i]], got[i])

(* The worker is lost to three texts only, whatever the peer sends: one    *)
(* whose header has a line without a key, where the header loop stands     *)
(* still; one whose announced length wraps the end of the message to 0, so *)
(* that the loop takes it for ever; and a GET that announces more content  *)
(* than has arrived, where Erase throws.                                   *)
LostOnlyTo ==
  LET last == got[Len(got)]
      end  == HeaderEnd(buffer) + length_(last.headers)
  IN  /\ outcome = "hangs" => Stuck(buffer)
      /\ outcome = "repeats" => end = Word
      /\ outcome = "erase_threw" => last.method = GET /\ end \in Len(buffer) + 1 .. Word - 1

(* The text of an outgoing message and its NUL fill what Serialize         *)
(* allocates for them, so that GetLength() is the length of the text.      *)
TextFits ==
  \A i \in DOMAIN sent : sent[i].own # << >> =>
    CharsOf(sent[i].text) + 1 = Allocated(sent[i].own[1])

(* The docs of the parser's steps: true, false or an exception, so they    *)
(* return.                                                                 *)
ParserReturns == outcome # "hangs"

-----------------------------------------------------------------------------
(* The kinds of messages that the proofs know, as texts without a NUL.     *)

(* The first line ends in front of offset e.                               *)
FirstLine(t, e) ==
  /\ e - 2 \in LineEnds(t, 0) /\ \A q \in 0 .. e - 3 : At(t, q) # "CR"
  /\ \A i \in 1 .. Len(t) : t[i] # NUL
Accepted(t, e) ==
  \/ At(t, 0) \in {GET, POST} /\ \E q \in 1 .. e - 3 : At(t, q) = Version
  \/ At(t, 0) = RESPONSE /\ At(t, 1) = "200"
Uri(t) == IF At(t, 0) = RESPONSE THEN << >> ELSE Run(t, 1, MinOf(Protocols(t, 1)))

(* From e on there are n lines of a key and a value, and an empty one.     *)
HeaderLines(t, e, n) ==
  /\ \A i \in 0 .. n - 1 :
       /\ At(t, e + 5 * i) \notin {"CR", Colon} /\ At(t, e + 5 * i + 1) = Colon
       /\ At(t, e + 5 * i + 2) # "CR" /\ IsCrLf(t, e + 5 * i + 3)
  /\ IsCrLf(t, e + 5 * n)
Line(t, p)      == [key |-> <<At(t, p)>>, value |-> <<At(t, p + 2)>>]
Headers(t, e, n) == [i \in 1 .. n |-> Line(t, e + 5 * (i - 1))]

(* A message with its headers, and as much content as they announce.       *)
Whole(m) ==
  /\ Len(m.text) < Word
  /\ \E e, n \in 1 .. Len(m.text) :
       /\ FirstLine(m.text, e) /\ Accepted(m.text, e) /\ HeaderLines(m.text, e, n)
       /\ m.method = At(m.text, 0) /\ m.uri = Uri(m.text) /\ m.headers = Headers(m.text, e, n)
       /\ Len(m.text) = e + 5 * n + 2 + length_(m.headers)

(* Its pairs, as they are found in data that begin with it.                *)
PairsOf(m, d) ==
  IF m.method = GET THEN QueryPairs(m.uri, FirstAt(m.uri, 0, {"?"}))
  ELSE QueryPairs(d, Len(m.text) - length_(m.headers))

(* One without headers, and one whose first line has another method, the   *)
(* code of an error or no protocol.                                        *)
Headerless(m) ==
  \E e \in 1 .. Len(m.text) :
    /\ FirstLine(m.text, e) /\ Accepted(m.text, e) /\ IsCrLf(m.text, e)
    /\ m.method = At(m.text, 0) /\ m.headers = << >>
Strange(m) ==
  \E e \in 1 .. Len(m.text) :
    /\ FirstLine(m.text, e) /\ m.method = At(m.text, 0)
    /\ \/ m.method \notin {GET, POST, RESPONSE}
       \/ m.method = RESPONSE /\ At(m.text, 1) # "200"
Unfinished(m) ==
  \E e \in 1 .. Len(m.text) :
    /\ FirstLine(m.text, e) /\ m.method = At(m.text, 0) /\ m.headers = << >>
    /\ m.method \in {GET, POST} /\ Protocols(m.text, 1) = {}

(* What names a method, or a reply, stands in front of a message only.     *)
MethodsLead ==
  \A m \in Sendable : \A i \in 2 .. Len(m.text) : m.text[i] \notin {GET, POST, RESPONSE}

Tokens == UNION {{m.text[i] : i \in DOMAIN m.text} : m \in Sendable}
Texts  == \A m \in Sendable : m.text \in Seq(Tokens)
KnownKinds ==
  Texts /\ \A m \in Sendable : Whole(m) \/ Headerless(m) \/ Strange(m) \/ Unfinished(m)
KnownPairs == \A m \in Sendable : Whole(m) => m.pairs = PairsOf(m, m.text)

(* What this library sends is what it serialises.                          *)
OwnTexts ==
  \A m \in Sendable : m.own # << >> =>
    m.own[1] \in Outgoing(STRING) /\ m.text = Serialize(m.own[1])
=============================================================================
