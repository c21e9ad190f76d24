----------------------------- MODULE TextHelpers -----------------------------
(***************************************************************************)
(* The functions on std::string and base::istring of                       *)
(* lib/base/string_helpers.h and istring.h.  Texts are sequences of bytes; *)
(* a position is an index, and 0 stands for npos.                          *)
(***************************************************************************)
EXTENDS CStringSearch

Flatten(ts) == Sequence!FlattenSeq(ts)

(* substr(first, pos - first), up to the end when pos is npos.             *)
Cut(t, first, pos) == SubSeq(t, first, IF pos = 0 THEN Len(t) ELSE pos - 1)

(* find_first_of, find_first_not_of and the like with npos as a start.     *)
NextIn(t, D, from) ==
  LET S == {i \in 1 .. Len(t) : from # 0 /\ i >= from /\ t[i] \in D}
  IN  IF S = {} THEN 0 ELSE Min(S)
NextNotIn(t, D, from) == NextIn(t, (0 .. 255) \ D, from)
LastNot(t, ch) ==
  LET S == {i \in 1 .. Len(t) : t[i] # ch} IN IF S = {} THEN 0 ELSE Max(S)

Tokenize(t, D) ==
  LET tokens[last \in 0 .. Len(t)] ==
        IF last = 0 THEN << >>
        ELSE LET pos == NextIn(t, D, last)
             IN  <<Cut(t, last, pos)>> \o tokens[NextNotIn(t, D, pos)]
  IN  tokens[NextNotIn(t, D, 1)]

Trim(t) ==
  LET last == LastNot(t, 32)
      cut  == SubSeq(t, 1, last)
  IN  IF last = 0 THEN << >> ELSE SubSeq(cut, NextNotIn(cut, {32}, 1), last)

-----------------------------------------------------------------------------
(* base::istring: characters compare without regard to case.  The traits'  *)
(* find() answers with the end of the range instead of a null pointer when *)
(* the character is not there, so that basic_string takes every character  *)
(* for one of the delimiters.                                              *)
(* compare() is strncasecmp, which also stops at a NUL in both texts.      *)
tolower(b) == IF Between(b, 65, 90) THEN b + 32 ELSE b
ieq(a, b)  == tolower(a) = tolower(b)
ilt(a, b)  == tolower(a) < tolower(b)
icompare(a, b, n) ==
  LET differ == {i \in 1 .. n : ~ ieq(a[i], b[i])}
      first  == Min(differ)
  IN  IF differ = {} \/ (\E i \in 1 .. first - 1 : a[i] = NUL) THEN 0 ELSE tolower(a[first]) - tolower(b[first])
ifind(s, ch) ==
  LET found == {i \in 1 .. Len(s) : ieq(s[i], ch)}
  IN  IF found = {} THEN Len(s) + 1 ELSE Min(found)

(* What basic_string makes of it: `if (traits::find(...))'.                *)
INextIn(t, D, from) ==
  LET S == {i \in 1 .. Len(t) : from # 0 /\ i >= from /\ ifind(D, t[i]) # Null}
  IN  IF S = {} THEN 0 ELSE Min(S)
INextNotIn(t, D, from) ==
  LET S == {i \in 1 .. Len(t) : from # 0 /\ i >= from /\ ifind(D, t[i]) = Null}
  IN  IF S = {} THEN 0 ELSE Min(S)

ITokenize(t, D) ==
  LET tokens[last \in 0 .. Len(t)] ==
        IF last = 0 THEN << >>
        ELSE LET pos == INextIn(t, D, last)
             IN  <<Cut(t, last, pos)>> \o tokens[INextNotIn(t, D, pos)]
  IN  tokens[INextNotIn(t, D, 1)]

-----------------------------------------------------------------------------
(* joined_output: what is written, and what is returned.                   *)
joined_output(elements, join_with, prepend, append) ==
  LET n == Len(elements)
      Piece(i) == prepend \o elements[i] \o append \o IF i < n THEN join_with ELSE << >>
  IN  [out |-> Flatten([i \in 1 .. n |-> Piece(i)]), count |-> IF n = 0 THEN 0 ELSE n - 1]

(* joined_pair_output: the last pair is written twice, the first time only *)
(* its key or its value.                                                   *)
joined_pair_output(pairs, what, join_with, separator, prepend, append) ==
  LET n == Len(pairs)
      Shown(p, w) == CASE w = "keys" -> p.first [] w = "values" -> p.second
                       [] OTHER -> p.first \o separator \o p.second
      Piece(p, w) == prepend \o Shown(p, w) \o append
      again == IF what = "keys" THEN "keys" ELSE "values"
      before == Flatten([i \in 1 .. n - 1 |-> Piece(pairs[i], what) \o join_with])
  IN  [out   |-> IF n = 0 THEN << >> ELSE before \o Piece(pairs[n], again) \o Piece(pairs[n], what),
       count |-> IF n = 0 THEN 0 ELSE n - 1]

ContainerToString(str0, elements, join_with, ifempty, prepend, append) ==
  IF elements = << >> THEN [str |-> str0 \o ifempty, count |-> 0]
  ELSE LET j == joined_output(elements, join_with, prepend, append)
       IN  [str |-> str0 \o j.out, count |-> j.count]

-----------------------------------------------------------------------------
HexChar(d)   == IF d <= 9 THEN d + 48 ELSE d - 10 + 97
char2hex(b)  == <<HexChar(b \div 16), HexChar(b % 16)>>
IsKept(b)    == \/ Between(b, 48, 57) \/ Between(b, 65, 90) \/ Between(b, 97, 122)
                \/ b \in {126, 33, 42, 40, 41, 39}
UrlEncode(t) == Flatten([i \in 1 .. Len(t) |->
                  IF IsKept(t[i]) THEN <<t[i]>> ELSE <<PERCENT>> \o char2hex(t[i])])

-----------------------------------------------------------------------------
(* c_format_validate (c_format.cpp) counts the arguments that a format asks *)
(* for; Null stands for a %n.  It returns (TRUE) when the caller has as    *)
(* many, and aborts the process otherwise.  A format is a sequence of "%", *)
(* "*", "n", "spec" (a conversion letter) and "other".                     *)
FormatAsks(fmt) ==
  LET after[i \in 0 .. Len(fmt)] ==
        IF i = 0 THEN [inside |-> FALSE, count |-> 0, aborts |-> FALSE]
        ELSE LET p == after[i - 1]
             IN  CASE ~ p.inside /\ fmt[i] = "%" -> [p EXCEPT !.inside = TRUE, !.count = @ + 1]
                   [] p.inside /\ fmt[i] = "spec" -> [p EXCEPT !.inside = FALSE]
                   [] p.inside /\ fmt[i] = "%"   -> [p EXCEPT !.inside = FALSE, !.count = @ - 1]
                   [] p.inside /\ fmt[i] = "n"   -> [p EXCEPT !.aborts = TRUE]
                   [] p.inside /\ fmt[i] = "*"   -> [p EXCEPT !.count = @ + 1]
                   [] OTHER -> p
      end == after[Len(fmt)]
  IN  IF end.aborts THEN Null ELSE end.count
c_format_validate(fmt, exp_count) == FormatAsks(fmt) # Null /\ FormatAsks(fmt) = exp_count

-----------------------------------------------------------------------------
(* Properties of one input.                                                *)

(* What is left of t when the bytes outside S are taken out.               *)
Keeping(t, S) == Flatten([i \in 1 .. Len(t) |-> IF t[i] \in S THEN <<t[i]>> ELSE << >>])

(* The words of t are its longest stretches without a delimiter, in order  *)
(* and none empty.  As a base::istring no text has any words.              *)
WordsRight(t, D) ==
  LET ws == Tokenize(t, D)
      starts == {i \in 1 .. Len(t) : t[i] \notin D /\ (i = 1 \/ t[i - 1] \in D)}
  IN  /\ ITokenize(t, <<32>>) = << >>
      /\ Flatten(ws) = Keeping(t, (0 .. 255) \ D)
      /\ Len(ws) = Cardinality(starts)
      /\ << >> \notin {ws[i] : i \in 1 .. Len(ws)}

(* Trim takes blanks off both ends and nothing else.                       *)
TrimRight(t) ==
  LET r == Trim(t)
      Blanks(n) == [i \in 1 .. n |-> 32]
  IN  /\ \E i, j \in 0 .. Len(t) : t = Blanks(i) \o r \o Blanks(j)
      /\ r # << >> => r[1] # 32 /\ r[Len(r)] # 32

(* UrlDecode undoes UrlEncode for every text without NUL, and nothing that *)
(* has a meaning in a URL is left in between.                              *)
EncodeRight(t) ==
  LET e == UrlEncode(t)
  IN  /\ 0 \notin {t[i] : i \in 1 .. Len(t)} => Text(UrlDecode(CopyOf(e))) = t
      /\ \A i \in 1 .. Len(e) : IsKept(e[i]) \/ e[i] = PERCENT

(* A joined text can be taken apart again when nothing in it contains the  *)
(* separator; the number returned counts separators.                       *)
JoinRight(t, D) ==
  LET ws == Tokenize(t, D)
      j  == ContainerToString(<<1>>, ws, <<0>>, <<2>>, << >>, << >>)
  IN  IF ws = << >> THEN j.str = <<1, 2>>
      ELSE /\ Tokenize(Tail(j.str), {0}) = ws
           /\ j.count = Len(Keeping(j.str, {0}))

(* Joined pairs look like joined keys, or values, with the last repeated.  *)
PairsRight(t, D) ==
  LET ws == Tokenize(t, D)
      ps == [i \in 1 .. Len(ws) |-> [first |-> ws[i], second |-> <<i>>]]
      vs == [i \in 1 .. Len(ws) |-> <<i>>]
      Joined(what) == joined_pair_output(ps, what, <<0>>, <<1>>, <<2>>, <<3>>).out
      Twice(es) == joined_output(es, <<0>>, <<2>>, <<3>>).out
                     \o IF es = << >> THEN << >> ELSE <<2>> \o es[Len(es)] \o <<3>>
  IN  Joined("keys") = Twice(ws) /\ Joined("values") = Twice(vs)

(* A format made of whole directives is let through with one argument per  *)
(* directive and one per star, also with flags and widths in between, and  *)
(* with no other number of them; with a %n it never is.                    *)
Directives ==
  [literal |-> <<"other">>, text |-> <<"spec", "n", "*">>, percent |-> <<"%", "%">>,
   plain |-> <<"%", "spec">>, wide |-> <<"%", "other", "spec">>, star |-> <<"%", "*", "spec">>]
Arguments == [literal |-> 0, text |-> 0, percent |-> 0, plain |-> 1, wide |-> 1, star |-> 2]
FormatRight(ds) ==
  LET fmt == Flatten([i \in 1 .. Len(ds) |-> Directives[ds[i]]])
      asked[i \in 0 .. Len(ds)] == IF i = 0 THEN 0 ELSE asked[i - 1] + Arguments[ds[i]]
  IN  \A n \in 0 .. 2 * Len(ds) + 1 :
        /\ c_format_validate(fmt, n) <=> n = asked[Len(ds)]
        /\ ~ c_format_validate(fmt \o <<"%", "n">>, n)

(* compare of i_char_traits is blind to case, and agrees with its eq and   *)
(* lt, as basic_string needs it to.                                        *)
CaseRight(a, b) ==
  LET n == Min({Len(a), Len(b)})
      lower(t) == [i \in 1 .. n |-> tolower(t[i])]
  IN  /\ icompare(a, b, n) = 0 <=> lower(a) = lower(b)
      /\ icompare(a, b, n) < 0 <=> DiffersLower(lower(a), lower(b))
      /\ icompare(a, b, n) < 0
           <=> \E i \in 1 .. n : ilt(a[i], b[i]) /\ \A j \in 1 .. i - 1 : ieq(a[j], b[j])
=============================================================================
