----------------------------- MODULE PortEnvText -----------------------------
(***************************************************************************)
(* The text of env files: how a value is written after KEY=, and how a     *)
(* reference to a variable is written inside of a value.  A text is a      *)
(* sequence of tokens; a name is one token, every other token stands for   *)
(* itself.                                                                 *)
(***************************************************************************)
EXTENDS Naturals, Sequences, SequencesExt

CONSTANT Names   \* names of variables

\* "/" is any character without a meaning, "~" a byte that is not UTF-8 and
\* "?" what such a byte is decoded to.
Marks == {"${", "}", ":-", "$", "'", "\"", "\\", " ", "/", "~", "?"}

Token == Names \cup Marks

ASSUME NamesAssumption == Names \cap Marks = {}

Text == Seq(Token)

Quotings == {"none", "single", "double"}

FileValue == [raw : Text, quoting : Quotings]

-----------------------------------------------------------------------------
(* Reading a value.                                                        *)

NotBlank(c) == c # " "

\* The text without the blanks around it.
Trimmed(t) ==
  LET ink == SelectInSeq(t, NotBlank)
  IN IF ink = 0 THEN <<>> ELSE SubSeq(t, ink, SelectLastInSeq(t, NotBlank))

\* Mutant of InDoubleQuotes: a backslash keeps any character from its meaning.
EscapesAll(acc, c) ==
  CASE acc.at = "body" ->
         IF c = "\"" THEN [acc EXCEPT !.at = "end"]
         ELSE IF c = "\\" THEN [acc EXCEPT !.at = "escape"]
         ELSE [acc EXCEPT !.raw = Append(@, c)]
    [] acc.at = "escape" -> [acc EXCEPT !.at = "body", !.raw = Append(@, c)]
    [] acc.at = "end" /\ c # " " -> [acc EXCEPT !.at = "trailing"]
    [] OTHER -> acc

\* Only \\ and \" are escapes, any other backslash is kept; behind the closing
\* quote there may be blanks.
InDoubleQuotes(acc, c) ==
  CASE acc.at = "body" ->
         IF c = "\"" THEN [acc EXCEPT !.at = "end"]
         ELSE IF c = "\\" THEN [acc EXCEPT !.at = "escape"]
         ELSE [acc EXCEPT !.raw = Append(@, c)]
    [] acc.at = "escape" ->
         [acc EXCEPT !.at = "body",
                     !.raw = @ \o IF c \in {"\\", "\""} THEN <<c>> ELSE <<"\\", c>>]
    [] acc.at = "end" /\ c # " " -> [acc EXCEPT !.at = "trailing"]
    [] OTHER -> acc

\* What the text t after `=` says: at most one value, none if a quote is not
\* closed or something follows it.
ReadValue(t) ==
  LET value == Trimmed(t)
      rest == IF value = <<>> THEN <<>> ELSE Tail(value)
  IN CASE value # <<>> /\ value[1] = "'" ->
            LET close == SelectInSeq(rest, LAMBDA c : c = "'")
            IN IF close # 0 /\ close = Len(rest)
               THEN {[raw |-> Front(rest), quoting |-> "single"]} ELSE {}
       [] value # <<>> /\ value[1] = "\"" ->
            LET acc == FoldLeft(InDoubleQuotes, [at |-> "body", raw |-> <<>>], rest)
            IN IF acc.at = "end" THEN {[raw |-> acc.raw, quoting |-> "double"]} ELSE {}
       [] OTHER -> {[raw |-> value, quoting |-> "none"]}

-----------------------------------------------------------------------------
(* Reading a reference.                                                    *)

\* Mutant of Deeper: references inside of a default are not counted.
Shallow(acc, c) ==
  IF acc.close # 0 THEN acc
  ELSE IF c = "}" THEN [acc EXCEPT !.close = acc.len + 1]
  ELSE [acc EXCEPT !.len = @ + 1]

\* One token of the scan for the brace that closes a default.
Deeper(acc, c) ==
  IF acc.close # 0 THEN acc
  ELSE IF c = "}" /\ acc.depth = 0 THEN [acc EXCEPT !.close = acc.len + 1]
  ELSE [acc EXCEPT !.len = @ + 1,
                   !.depth = IF c = "${" THEN @ + 1 ELSE IF c = "}" THEN @ - 1 ELSE @]

\* The place of that brace in t, or 0.
Closing(t) == FoldLeft(Deeper, [depth |-> 0, len |-> 0, close |-> 0], t).close

\* The reference whose "${" is token i of t: its name, the defaults it has (at
\* most one) and the token behind it.  None if it is malformed.
References(t, i) ==
  IF i + 2 > Len(t) \/ t[i + 1] \notin Names THEN {}
  ELSE IF t[i + 2] = "}"
  THEN {[name |-> t[i + 1], default |-> {}, next |-> i + 3]}
  ELSE LET inside == SubSeq(t, i + 3, Len(t))
           close == Closing(inside)
       IN IF t[i + 2] # ":-" \/ close = 0
          THEN {}
          ELSE {[name |-> t[i + 1], default |-> {SubSeq(inside, 1, close - 1)},
                 next |-> i + 3 + close]}
=============================================================================
