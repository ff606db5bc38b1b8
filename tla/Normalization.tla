---------------------------- MODULE Normalization ----------------------------
(***************************************************************************)
(* AnonymizeQueryText and AnonymizeAndNormalize (common_helpers.go).  On   *)
(* RDS a running statement is taken for one of the slow queries when both  *)
(* have the same normal form, and a text that is anonymized has its        *)
(* literals hidden.                                                        *)
(*                                                                         *)
(* The two functions work on texts, sequences of characters, and do not    *)
(* know the grammar.  The statements they meet do have one: a statement is *)
(* a sequence of tokens, each with the blanks after it.  The server        *)
(* remembers the first execution of a statement with its constants         *)
(* replaced by $1, $2, ...; a later execution of it may have other         *)
(* literals, blanks and capitals and may end in a semicolon.               *)
(*                                                                         *)
(* Of that grammar there are words, numbers without exponents, strings     *)
(* without escapes, names in quotes and operators, with blanks between any *)
(* two of them.                                                            *)
(***************************************************************************)
EXTENDS Integers, SequencesExt

CONSTANTS
  Shapes,     \* statements as first executed
  Numbers,    \* number literals
  Strings,    \* values of string literals
  Gaps,       \* the blanks between two tokens
  Parameter   \* how the server writes the number of a parameter

Digit == {"0", "1", "2"}
Lower == [c \in {"A", "B"} |-> IF c = "A" THEN "a" ELSE "b"]
Letter == DOMAIN Lower \cup {"a", "b"}
White == {" ", "newline"}

\* A few of each class the functions tell apart, and two they do not.
Character ==
  Digit \cup Letter \cup White \cup {"'", "\"", ";", "$", "?"} \cup {"=", "."}

Texts == Seq(Character)

Word == {b \in Seq(Letter \cup Digit \cup {"."}) \ {<<>>} : b[1] \in Letter}
Number == {b \in Seq(Digit \cup {"."}) \ {<<>>} : b[1] \in Digit}
Name == Seq(Character \ {"\"", "newline"})
Sign == Seq({"=", "."}) \ {<<>>}

\* The body of a string is its value, with single quotes.
Token ==
  [kind : {"word"}, body : Word, gap : Gaps]
    \cup [kind : {"number"}, body : Number, gap : Gaps]
    \cup [kind : {"string"}, body : Texts, gap : Gaps]
    \cup [kind : {"name"}, body : Name, gap : Gaps]
    \cup [kind : {"sign"}, body : Sign, gap : Gaps]

NormalizationAssumption ==
  /\ Gaps \subseteq Seq(White) \ {<<>>}
  /\ Shapes \subseteq Seq(Token) \ {<<>>}
  /\ Numbers \subseteq Number /\ Strings \subseteq Texts
  /\ \A s \in Shapes : \A i \in DOMAIN s :
       i \in DOMAIN Parameter /\ Parameter[i] \in Seq(Digit) \ {<<>>}

VARIABLES
  first,      \* the statement as first executed
  live,       \* the statement as it runs now
  semicolon   \* it runs with a semicolon at its end

vars == <<first, live, semicolon>>

Init == first \in Shapes /\ live = first /\ semicolon = FALSE

-----------------------------------------------------------------------------
(* Texts, read from the front *)

\* Of a text s, size[s] characters are read next, and become out[s].
Read(size, out, text) ==
  LET read[s \in Texts] ==
        IF s = <<>> THEN <<>>
        ELSE out[s] \o read[SubSeq(s, size[s] + 1, Len(s))]
  IN  read[text]

\* Each element c of s becomes f[c].
Each(s, f) == FlattenSeq([i \in DOMAIN s |-> f[s[i]]])

-----------------------------------------------------------------------------
(* Regular expressions: how long the match is that a text begins with, 0 for *)
(* no match                                                                  *)

Digits ==
  [s \in Texts |-> Max({n \in 0 .. Len(s) : \A k \in 1 .. n : s[k] \in Digit})]

\* Mutation: a quoted text ends at the last quote.
QuotedGreedily(quote) ==
  [s \in Texts |->
     LET closing == {n \in 2 .. Len(s) : s[1] = quote /\ s[n] = quote}
     IN  IF closing = {} THEN 0 ELSE Max(closing)]

Quoted(quote) ==
  [s \in Texts |->
     LET closing == {n \in 2 .. Len(s) : s[1] = quote /\ s[n] = quote}
     IN  IF closing = {} THEN 0 ELSE Min(closing)]

SingleQuoted == Quoted("'")
DoubleQuoted == Quoted("\"")

\* .*? stops at the end of a line.
DoubleQuotedInLine ==
  [s \in Texts |->
     IF \E k \in 1 .. DoubleQuoted[s] : s[k] = "newline" THEN 0 ELSE DoubleQuoted[s]]

\* Mutation: numbers and double quotes only.
reNoStrings == [s \in Texts |-> Max({Digits[s], DoubleQuotedInLine[s]})]

\* The three alternatives begin with different characters.
re == [s \in Texts |-> Max({SingleQuoted[s], Digits[s], DoubleQuotedInLine[s]})]

\* The leftmost matches, one after the other, become question marks.
ReplaceAllString(match, text) ==
  Read([s \in Texts |-> IF match[s] = 0 THEN 1 ELSE match[s]],
       [s \in Texts |-> IF match[s] = 0 THEN <<s[1]>> ELSE <<"?">>], text)

-----------------------------------------------------------------------------
(* common_helpers.go *)

AnonymizeQueryText(s) == ReplaceAllString(re, s)

Without(s, c) == Each(s, [d \in Character |-> IF d = c THEN <<>> ELSE <<d>>])

ToLower(s) == [i \in DOMAIN s |-> IF s[i] \in DOMAIN Lower THEN Lower[s[i]] ELSE s[i]]

\* The characters up to the first blank.
Field ==
  [s \in Texts |-> Max({n \in 0 .. Len(s) : \A k \in 1 .. n : s[k] \notin White})]

Fields(text) ==
  Read([s \in Texts |-> IF Field[s] = 0 THEN 1 ELSE Field[s]],
       [s \in Texts |-> IF Field[s] = 0 THEN <<>> ELSE <<SubSeq(s, 1, Field[s])>>], text)

Join(fields) == Front(FlattenSeq([i \in DOMAIN fields |-> Append(fields[i], " ")]))

\* Mutation: the quotes are looked at the other way round.
ReplaceLiteralsNamesFirst(s) ==
  ReplaceAllString(SingleQuoted, ReplaceAllString(DoubleQuoted, ReplaceAllString(Digits, s)))

\* Three passes, where AnonymizeQueryText makes one.
ReplaceLiterals(s) ==
  ReplaceAllString(DoubleQuoted, ReplaceAllString(SingleQuoted, ReplaceAllString(Digits, s)))

\* Mutation: the parameters keep their $.
AnonymizeAndNormalizeParameters(s) ==
  Join(Fields(Without(ToLower(ReplaceLiterals(s)), ";")))

\* What TrimSpace takes away Fields would too.
AnonymizeAndNormalize(s) ==
  Join(Fields(Without(ToLower(Without(ReplaceLiterals(s), "$")), ";")))

-----------------------------------------------------------------------------
(* Statements, as the server sees and remembers them *)

Literals == {"number", "string"}

\* A single quote in a string is written twice.
Doubled(s) ==
  Each(s, [c \in Character |-> IF c = "'" THEN <<"'", "'">> ELSE <<c>>])

Spelled(t) ==
  CASE t.kind = "string" -> <<"'">> \o Doubled(t.body) \o <<"'">>
    [] t.kind = "name"   -> <<"\"">> \o t.body \o <<"\"">>
    [] OTHER             -> t.body

End(semi) == IF semi THEN <<";">> ELSE <<>>

Text(tokens, semi) ==
  FlattenSeq([i \in DOMAIN tokens |-> Spelled(tokens[i]) \o tokens[i].gap]) \o End(semi)

LiveText == Text(live, semicolon)

pg_stat_statements(tokens) ==
  LET Count(i) == Cardinality({j \in 1 .. i : tokens[j].kind \in Literals})
  IN  Text([i \in DOMAIN tokens |->
              IF tokens[i].kind \in Literals
              THEN [kind |-> "sign", body |-> <<"$">> \o Parameter[Count(i)],
                    gap |-> tokens[i].gap]
              ELSE tokens[i]], FALSE)

Upper(s) ==
  [i \in DOMAIN s |-> IF \E c \in DOMAIN Lower : Lower[c] = s[i]
                      THEN CHOOSE c \in DOMAIN Lower : Lower[c] = s[i]
                      ELSE s[i]]

-----------------------------------------------------------------------------
(* How one execution differs from the one before *)

Becomes(i, token) ==
  live' = [live EXCEPT ![i] = token] /\ UNCHANGED <<first, semicolon>>

OtherNumber(i) ==
  live[i].kind = "number" /\ \E b \in Numbers : Becomes(i, [live[i] EXCEPT !.body = b])

OtherString(i) ==
  live[i].kind = "string" /\ \E b \in Strings : Becomes(i, [live[i] EXCEPT !.body = b])

OtherBlanks(i) == \E g \in Gaps : Becomes(i, [live[i] EXCEPT !.gap = g])

\* Case matters in a name, not in a word.
OtherCase(i) ==
  /\ live[i].kind = "word"
  /\ \E b \in {Upper(live[i].body), ToLower(live[i].body)} :
       Becomes(i, [live[i] EXCEPT !.body = b])

Semicolon == semicolon' = ~semicolon /\ UNCHANGED <<first, live>>

Next ==
  \/ \E i \in DOMAIN live :
       OtherNumber(i) \/ OtherString(i) \/ OtherBlanks(i) \/ OtherCase(i)
  \/ Semicolon

Spec == Init /\ [][Next]_vars

-----------------------------------------------------------------------------
(* Properties *)

\* Type correctness.
TypeOK ==
  /\ first \in Shapes
  /\ live \in Seq(Token) /\ Len(live) = Len(first)
  /\ \A i \in DOMAIN live : live[i].kind = first[i].kind
  /\ semicolon \in BOOLEAN

QuoteInName(tokens) ==
  \E i \in DOMAIN tokens : tokens[i].kind = "name" /\ "'" \in ToSet(tokens[i].body)

PlainLiterals(tokens) ==
  \A i \in DOMAIN tokens :
    /\ tokens[i].kind = "number" => "." \notin ToSet(tokens[i].body)
    /\ tokens[i].kind = "string" => "'" \notin ToSet(tokens[i].body)

\* A running statement has the normal form of the one the server remembers,
\* whatever its literals, blanks and capitals, if its numbers are integers
\* and there is no single quote in a literal or a name.
Correlates ==
  PlainLiterals(live) /\ ~QuoteInName(live) =>
    AnonymizeAndNormalize(LiveText) =
      AnonymizeAndNormalize(pg_stat_statements(first))

\* What is left of a token that was hidden: a string is a match for each part
\* between its single quotes.
Hidden(t) ==
  CASE t.kind = "string" ->
         <<"?">> \o Each(t.body, [c \in Character |-> IF c = "'" THEN <<"?">> ELSE <<>>])
    [] t.kind = "name" -> <<"?">>
    [] OTHER -> ReplaceAllString(Digits, t.body)

\* The text AnonymizeQueryText returns has no literal left in it, whatever
\* quotes stand inside the quotes, and every other token is where it was.  Not
\* every text goes through it: a slow query without "alter" is reported as the
\* server remembers it (slow_query_metrics.go:35).
LiteralsAreHidden ==
  AnonymizeQueryText(LiveText) =
    FlattenSeq([i \in DOMAIN live |-> Hidden(live[i]) \o live[i].gap]) \o End(semicolon)

\* A slow query whose text was hidden before it is correlated ("alter", see
\* slow_query_metrics.go:35) has the normal form it had before, unless a name
\* holds a single quote.
HiddenCorrelates ==
  ~QuoteInName(live) =>
    AnonymizeAndNormalize(AnonymizeQueryText(LiveText)) =
      AnonymizeAndNormalize(LiveText)

\* What a normal form does not tell apart.
Blurred(tokens) ==
  [i \in DOMAIN tokens |->
     IF tokens[i].kind \in {"word", "sign"}
     THEN ToLower(ReplaceAllString(Digits, tokens[i].body)) ELSE <<"?">>]

\* A running statement is taken for a remembered one only if they differ in
\* quoted names or in the digits of a name, single quotes in names left aside.
BlurredOnly ==
  LET form == AnonymizeAndNormalize(LiveText)
  IN  ~QuoteInName(live) =>
        \A slow \in {s \in Shapes : ~QuoteInName(s)} :
          AnonymizeAndNormalize(pg_stat_statements(slow)) = form
            => Blurred(slow) = Blurred(live)

\* No digit and no capital is left in a normal form.
FormsAreBlind ==
  \A s \in {LiveText, pg_stat_statements(first)} :
    \A c \in ToSet(AnonymizeAndNormalize(s)) : c \notin Digit \cup DOMAIN Lower

\* Together: of common_helpers.go:28-65, what is to be hidden is hidden, what
\* belongs together is correlated, before and after hiding, and little else.
TextsAreSound ==
  /\ Correlates /\ LiteralsAreHidden /\ HiddenCorrelates
  /\ BlurredOnly /\ FormsAreBlind
=============================================================================
