----------------------------- MODULE CStringUse -----------------------------
(***************************************************************************)
(* One string and everything that the library does to it: the operations   *)
(* of CString in any order, and the way BaseConnection::EventRead lets the *)
(* socket write behind the text.  `text' is what the string should hold.   *)
(***************************************************************************)
EXTENDS CString

CONSTANTS BufferLength,  \* buffer_length_ of a connection
          MaxText,       \* bound: characters in the string
          MaxArg         \* bound: characters in an argument, bytes reserved

ASSUME UseAssumption ==
  /\ BufferLength \in Nat \ {0} /\ MaxText \in Nat /\ MaxArg \in Nat \ {0}
  /\ MaxArg <= MaxText
  /\ 2 * (MaxText + MaxArg + BufferLength) < SizeMax

VARIABLES str,    \* the string
          text,   \* the text that it stands for
          stale   \* an empty text was assigned: the old bytes are still there

vars == <<str, text, stale>>

Args == UNION {[1 .. n -> Chars] : n \in 0 .. MaxArg}

(* The room the text and the reserve take in the bounded machine.          *)
Fits(n) == str.length + n <= MaxText
Small   == str.length + str.reserved <= MaxText + MaxArg + BufferLength

Init ==
  /\ \E t \in Args, n \in {0, BufferLength} :
       \/ str = NoBlock /\ text = << >>
       \/ str = WithRoom(n) /\ text = << >>
       \/ str = CopyOf(t) /\ text = t
  /\ stale = FALSE

-----------------------------------------------------------------------------
DoReserve ==
  /\ \E n \in 0 .. MaxArg :
       /\ str.length + str.reserved + n <= MaxText + MaxArg + BufferLength
       /\ str' = Reserve(str, n)
  /\ stale' = FALSE
  /\ UNCHANGED text

DoAppend ==
  \E t \in Args :
    /\ Fits(Len(t))
    /\ str' = AppendText(str, t)
    /\ text' = text \o t
    /\ stale' = (stale /\ t = << >>)

DoAppendChar ==
  \E ch \in Chars :
    /\ Fits(1)
    /\ str' = AppendChar(str, ch)
    /\ text' = Append(text, ch)
    /\ stale' = FALSE

DoAssign ==
  \E t \in Args :
    /\ Len(t) <= MaxText
    /\ str' = Assign(str, t)
    /\ text' = t
    /\ stale' = (t = << >> /\ (stale \/ text # << >>))

(* An erasure that throws leaves the string as it is.  Erase(0, 0) of one  *)
(* without a block would write the NUL through a null pointer: the library *)
(* erases only what it has parsed.                                         *)
DoErase ==
  \E begin, len \in 0 .. MaxText :
    /\ ~ EraseThrows(str, begin, len)
    /\ str.alloc > 0
    /\ str' = Erase(str, begin, len)
    /\ text' = SubSeq(text, 1, begin) \o SubSeq(text, begin + len + 1, Len(text))
    /\ stale' = FALSE

DoClear ==
  /\ str' = Clear(str)
  /\ text' = << >>
  /\ UNCHANGED stale

(* Shrinking; growing is part of EventRead.                                *)
DoShrink ==
  \E n \in 1 .. MaxText :
    /\ ~ AdjustThrows(str, -n)
    /\ str' = AdjustLength(str, -n)
    /\ text' = SubSeq(text, 1, Len(text) - n)
    /\ stale' = FALSE

(* The argument is a C string.                                             *)
IsCString == str.alloc > 0 /\ ~ stale /\ \A i \in 1 .. Len(text) : text[i] # NUL

DoUrlDecode ==
  /\ IsCString
  /\ str' = UrlDecode(str)
  /\ text' = Decoded(CopyOf(text).cells)
  /\ UNCHANGED stale

(* Mutant: the reserve is taken for granted when there is any.             *)
ReserveForReadIfNone(s) == IF s.reserved = 0 THEN Reserve(s, BufferLength) ELSE s

(* `Reserve(buffer_length_ - buffer_.Reserved())': the difference wraps    *)
(* when the reserve is larger, and the reserve then shrinks.               *)
ReserveForRead(s) ==
  IF s.reserved < BufferLength + s.length
  THEN Reserve(s, Minus(BufferLength, s.reserved))
  ELSE s

(* EventRead: recv() writes up to buffer_length_ bytes at End(), and       *)
(* AdjustLength takes them into the text.                                  *)
DoEventRead ==
  LET r == ReserveForRead(str)
  IN  \E t \in UNION {[1 .. n -> Chars] : n \in 0 .. BufferLength} :
        /\ Fits(Len(t))
        /\ ~ AdjustThrows(r, Len(t))
        /\ str' = AdjustLength(Put(r, r.length, t), Len(t))
        /\ text' = text \o t
        /\ stale' = (stale /\ r = str /\ t = << >>)

Next ==
  \/ DoReserve \/ DoAppend \/ DoAppendChar \/ DoAssign \/ DoErase \/ DoClear
  \/ DoShrink \/ DoEventRead

(* What the library does, and the same with UrlDecode, which only an       *)
(* application calls.                                                      *)
Spec == Init /\ [][Next]_vars
DecodingSpec == Init /\ [][Next \/ DoUrlDecode]_vars

-----------------------------------------------------------------------------
(* Properties.                                                             *)

(* The bookkeeping never claims more than the block has: text, reserve and *)
(* terminator fit, whatever wrapped on the way, and no byte was written    *)
(* behind the block.                                                       *)
Covered ==
  /\ str.wild = 0
  /\ str.length \in Nat /\ str.reserved \in Nat
  /\ \/ str.length + str.reserved + 1 <= str.alloc
     \/ str.alloc = 0 /\ str.length = 0 /\ str.reserved = 0

(* The string holds its text: realloc, also one that shrinks the block,    *)
(* in-place decoding and moving lose or gain no character.                 *)
HoldsText == Text(str) = text

(* What C functions see ends where the text ends, except after the         *)
(* assignment of an empty text.                                            *)
Terminated == str.alloc = 0 \/ stale \/ str.cells[str.length] = NUL

(* Whatever the reserve was, EventRead finds room for buffer_length_ bytes *)
(* behind the text, so that AdjustLength never throws.                     *)
ReadFits ==
  LET r == ReserveForRead(str)
  IN  BufferLength <= r.reserved /\ r.length + BufferLength + 1 <= r.alloc
=============================================================================
