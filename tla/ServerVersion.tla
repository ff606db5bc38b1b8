---------------------------- MODULE ServerVersion ----------------------------
(***************************************************************************)
(* CollectVersion (metrics.go): what the program takes for the version of  *)
(* a server that answers SHOW server_version with some text, and the       *)
(* choices of queries that hang on it.  The text is the version of the     *)
(* server or its release state and, for packaged servers, the version of   *)
(* the package.                                                            *)
(*                                                                         *)
(* A text is a sequence of tokens: a number, which is the sequence of its  *)
(* digits, the dot, or anything else.  Two numbers never touch.            *)
(***************************************************************************)
EXTENDS Integers, SequencesExt

CONSTANTS
  Releases,   \* servers with a dotted version: sequences of numbers
  Majors      \* servers that have a major version only: devel, beta, rc

VersionAssumption ==
  /\ Releases \subseteq Seq(0 .. 99) /\ \A r \in Releases : Len(r) > 1
  /\ Majors \subseteq 0 .. 99

Number(digits) == [kind |-> "number", digits |-> digits]
Dot == [kind |-> "dot"]
Other == [kind |-> "other"]

Printed(n) == Number(IF n < 10 THEN <<n>> ELSE <<n \div 10, n % 10>>)

\* "10.4"
Dotted(r) ==
  [k \in 1 .. 2 * Len(r) - 1 |->
     IF k % 2 = 0 THEN Dot ELSE Printed(r[(k + 1) \div 2])]

\* "17devel", "18beta1"
Unreleased(n) == {<<Printed(n), Other>>, <<Printed(n), Other, Number(<<1>>)>>}

\* " (Debian 10.4-2.pgdg120+1)" and " (Ubuntu 10.4-2.pgdg16.04+1)"
Package(text) ==
  LET upTo == <<Other>> \o text \o <<Other, Number(<<2>>), Dot, Other>>
  IN  {upTo \o <<Number(<<1, 2, 0>>), Other>>,
       upTo \o <<Number(<<1, 6>>), Dot, Number(<<0, 4>>), Other>>}

Packaged(text) == {text} \cup {text \o package : package \in Package(text)}

VARIABLES
  server,       \* numbers of the server's own version
  plain,        \* what it would answer had it been built from source
  text,         \* what it answers
  version,      \* what CollectVersion returned
  state         \* "asked", "version" or "error"

vars == <<server, plain, text, version, state>>

NoVersion == <<0, 0, 0>>

Init ==
  /\ \/ \E r \in Releases : server = r /\ plain = Dotted(r)
     \/ \E n \in Majors : server = <<n>> /\ plain \in Unreleased(n)
  /\ text \in Packaged(plain)
  /\ version = NoVersion /\ state = "asked"

-----------------------------------------------------------------------------
IsAt(t, k, kind) == k \in DOMAIN t /\ t[k].kind = kind

\* [0-9]+\.[0-9]+ matches here.  What matches inside a number matches at its
\* head as well, so the leftmost match starts at a token.
Matches(t, k) ==
  IsAt(t, k, "number") /\ IsAt(t, k + 1, "dot") /\ IsAt(t, k + 2, "number")

\* Mutation: the last match.
FindStringLast(t) ==
  SelectLastInSeq([k \in DOMAIN t |-> k], LAMBDA k : Matches(t, k))

\* FindString: where the leftmost match starts, 0 for no match.
FindString(t) == SelectInSeq([k \in DOMAIN t |-> k], LAMBDA k : Matches(t, k))

Value(digits) ==
  LET upTo[k \in 0 .. Len(digits)] ==
        IF k = 0 THEN 0 ELSE 10 * upTo[k - 1] + digits[k]
  IN  upTo[Len(digits)]

\* (\.[0-9])? takes one digit of the third number, if there is one.
Patch(t, k) ==
  IF IsAt(t, k + 3, "dot") /\ IsAt(t, k + 4, "number")
  THEN Head(t[k + 4].digits) ELSE 0

\* Mutation: [0-9]\.[0-9]+, written when the major version had one digit.
ParseOneDigit(t, k) ==
  <<Last(t[k].digits), Value(t[k + 2].digits), Patch(t, k)>>

\* ParseTolerant drops leading zeros and fills in a missing patch level.
Parse(t, k) == <<Value(t[k].digits), Value(t[k + 2].digits), Patch(t, k)>>

\* Mutation: any text that begins with a number is a version.
CollectVersionMajor ==
  /\ state = "asked"
  /\ state' = "version" /\ version' = <<Value(text[1].digits), 0, 0>>
  /\ UNCHANGED <<server, plain, text>>

\* ParseTolerant fails on the empty string FindString returns for no match.
CollectVersion ==
  /\ state = "asked"
  /\ LET k == FindString(text)
     IN  IF k = 0 THEN state' = "error" /\ UNCHANGED version
         ELSE state' = "version" /\ version' = Parse(text, k)
  /\ UNCHANGED <<server, plain, text>>

Next == CollectVersion

Spec == Init /\ [][Next]_vars

-----------------------------------------------------------------------------
(* The choices that hang on the version *)

GE(v, w) ==
  \/ v[1] > w[1]
  \/ v[1] = w[1] /\ v[2] > w[2]
  \/ v[1] = w[1] /\ v[2] = w[2] /\ v[3] >= w[3]

\* The versions the definitions compare with.
Boundaries == {<<9, 1, 0>>, <<9, 2, 0>>, <<12, 0, 0>>, <<17, 0, 0>>}

\* Query monitoring looks at the major version alone.
QueryChoices(v) == [reached |-> {b \in Boundaries : GE(v, b)}, major |-> v[1]]

-----------------------------------------------------------------------------
(* Properties *)

Full(numbers) == [k \in 1 .. 3 |-> IF k <= Len(numbers) THEN numbers[k] ELSE 0]
Released == Len(server) > 1

\* Type correctness.
TypeOK ==
  /\ server \in Releases \cup {<<n>> : n \in Majors}
  /\ state \in {"asked", "version", "error"}
  /\ version \in Nat \X Nat \X (0 .. 9)
  /\ state # "version" => version = NoVersion

\* However the server is packaged, however many numbers its version has and
\* wherever the regular expression cuts it off, a released server is taken
\* for its own major and minor version.
ReleaseIsRecognised ==
  Released /\ state # "asked" =>
    /\ state = "version"
    /\ version[1] = server[1] /\ version[2] = server[2]

\* A released server is sent what its full version calls for, at and around
\* each boundary: the patch level that is cut to one digit decides nothing.
ChoicesFitServer ==
  Released /\ state = "version" => QueryChoices(version) = QueryChoices(Full(server))

\* A server that is not released is refused, not guessed at, unless the
\* version of its package has a dot with numbers on both sides.
UnreleasedIsRefused ==
  ~Released /\ state = "version" =>
    \E k \in DOMAIN text : k > Len(plain) /\ Matches(text, k)

\* Together: whatever a server answers, CollectVersion (metrics.go:226-248)
\* reads a version good enough for every choice made by it, or gives up.
VersionIsUnderstood == ReleaseIsRecognised /\ ChoicesFitServer /\ UnreleasedIsRefused
=============================================================================
