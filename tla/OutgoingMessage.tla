--------------------------- MODULE OutgoingMessage ---------------------------
(***************************************************************************)
(* OutgoingHttpMessage: how a message is put together and serialised.  A   *)
(* message is a record; header_ is kept as its lines.  uri_ has no setter, *)
(* so it stays empty.                                                      *)
(***************************************************************************)
EXTENDS HttpTypes

NewMessage == [method |-> RESPONSE, code |-> "200", uri |-> << >>, header |-> << >>, data |-> << >>,
               persistent |-> FALSE]

SetMethod(m, method)     == [m EXCEPT !.method = method]
SetResponseCode(m, code) == [m EXCEPT !.code = code]
AddHeader(m, key, value) == [m EXCEPT !.header = Append(@, [key |-> key, value |-> value])]
SetData(m, data)         == [m EXCEPT !.data = data]
SetPersistence(m, persistent) ==
  AddHeader([m EXCEPT !.persistent = persistent],
            Connection, IF persistent THEN KeepAlive ELSE "close")

(* OK, NoContent, BadRequest, Forbidden, NotFound, NotAcceptable,          *)
(* RequestTimeout and TooManyConnections: one scheme, with a request id or *)
(* not, and with a content or else the text of the code.                   *)
Response(code, id, content, persistent) ==
  LET plain == SetPersistence(SetResponseCode(SetMethod(NewMessage, RESPONSE), code), persistent)
      named == IF id = << >> THEN plain ELSE AddHeader(plain, RequestId, id[1])
  IN  SetData(named, IF content = << >> THEN <<code>> ELSE content)

-----------------------------------------------------------------------------
(* Serialize: an empty 200 becomes a 204 without Content-Length; all but   *)
(* GET announce the length of their data otherwise.                        *)
Announced(m) == AddHeader(m, ContentLength, ToString(Len(m.data)))
IsEmpty200(m) == m.method = RESPONSE /\ m.code = "200" /\ m.data = << >>
Prepared(m) ==
  IF m.method = GET THEN m
  ELSE IF IsEmpty200(m) THEN SetResponseCode(m, "204")
  ELSE Announced(m)

LineOf(h) == <<h.key, Colon, h.value>> \o CrLf
HeaderText(m) ==
  LET lines[n \in 0 .. Len(m.header)] ==
        IF n = 0 THEN << >> ELSE lines[n - 1] \o LineOf(m.header[n])
  IN  lines[Len(m.header)]

Protocol == <<Version, "1">> \o CrLf
Written(m) ==
  CASE m.method = GET  -> <<GET>> \o m.uri \o <<"?">> \o m.data \o Protocol \o HeaderText(m) \o CrLf
    [] m.method = POST -> <<POST>> \o m.uri \o Protocol \o HeaderText(m) \o CrLf \o m.data
    [] OTHER           -> <<RESPONSE, m.code>> \o CrLf \o HeaderText(m) \o CrLf \o m.data

Serialize(m) == Written(Prepared(m))

(* len_, what is allocated for the text and its NUL.                       *)
(* Mutant: the "?" of a GET is forgotten.                                  *)
AllocatedShort(m) ==
  LET p == Prepared(m)
  IN  IF p.method = RESPONSE
      THEN HTTP_CODES_LENGTH[p.code] + CharsOf(HeaderText(p)) + CharsOf(p.data) + 14
      ELSE CharsOf(p.uri) + CharsOf(HeaderText(p)) + CharsOf(p.data) + 18

Allocated(m) ==
  LET p == Prepared(m)
  IN  IF p.method = RESPONSE
      THEN HTTP_CODES_LENGTH[p.code] + CharsOf(HeaderText(p)) + CharsOf(p.data) + 14
      ELSE CharsOf(p.uri) + CharsOf(HeaderText(p)) + CharsOf(p.data) + 19

-----------------------------------------------------------------------------
(* What the setters make: messages of tokens in T.                         *)
Outgoing(T) ==
  [method : {GET, POST, RESPONSE}, code : DOMAIN HTTP_CODES_LENGTH, uri : Seq(T),
   header : Seq([key : T, value : T]), data : Seq(T), persistent : BOOLEAN]
=============================================================================
