------------------------------ MODULE HttpTypes ------------------------------
(* The text of HTTP messages.  A run of characters that the parser compares *)
(* as a whole is one token; CR and LF are tokens of their own.              *)
EXTENDS Integers, Sequences

NUL == "NUL"
Colon == ": "
Version == " HTTP/1."
GET == "GET "
POST == "POST "
RESPONSE == "HTTP/1.1 "
ContentLength == "Content-Length"
Connection == "Connection"
RequestId == "X-Request-Id"
KeepAlive == "keep-alive"
CrLf == <<"CR", "LF">>

(* The characters of a token; one if nothing else is said.  A code stands  *)
(* for its text, "200" for "200 OK".                                       *)
HTTP_CODES_LENGTH ==
  [c \in {"200", "204", "400", "403", "404", "406", "408", "503"} |->
     CASE c = "200" -> 6 [] c = "204" -> 14 [] c = "400" -> 15 [] c \in {"403", "404"} -> 13
       [] c = "406" -> 18 [] c = "408" -> 19 [] c = "503" -> 24]
Chars(t) ==
  CASE t = Colon -> 2
    [] t = GET -> 4 [] t = POST -> 5 [] t = RESPONSE -> 9 [] t = Version -> 8
    [] t = ContentLength -> 14 [] t = Connection -> 10 [] t = RequestId -> 12
    [] t = KeepAlive -> 10 [] t = "close" -> 5
    [] t \in DOMAIN HTTP_CODES_LENGTH -> HTTP_CODES_LENGTH[t]
    [] OTHER -> 1
CharsOf(ts) ==
  LET sum[n \in 0 .. Len(ts)] == IF n = 0 THEN 0 ELSE sum[n - 1] + Chars(ts[n])
  IN  sum[Len(ts)]

(* ToString of a length; the lengths that are written have one digit       *)
(* (bound).                                                                *)
Digits == <<"1", "2", "3", "4", "5", "6", "7", "8", "9">>
ToString(n) == IF n = 0 THEN "0" ELSE Digits[n]
=============================================================================
