------------------------------- MODULE Expansion -------------------------------
(***************************************************************************)
(* Expansion of environment references in one configuration value          *)
(* (config/expansion.go).  A text is a sequence of characters; what is of  *)
(* no interest in a test may stand as one character.  The environment is a *)
(* function from the names that are set to texts.                          *)
(***************************************************************************)
EXTENDS Naturals, Sequences, FiniteSetsExt

CONSTANT Char   \* the characters

Text == Seq(Char)

Lower == {"a", "b", "c", "d", "e", "f", "g", "h", "i", "j", "k", "l", "m",
          "n", "o", "p", "q", "r", "s", "t", "u", "v", "w", "x", "y", "z"}
Upper == {"A", "B", "C", "D", "E", "F", "G", "H", "I", "J", "K", "L", "M",
          "N", "O", "P", "Q", "R", "S", "T", "U", "V", "W", "X", "Y", "Z"}
Digit == {"0", "1", "2", "3", "4", "5", "6", "7", "8", "9"}

ASSUME CharAssumption == {"$", "@"} \subseteq Char

\* A name of [A-Za-z_][A-Za-z0-9_]*.
ValidEnvironmentName(name) ==
    /\ name # << >>
    /\ name[1] \notin Digit
    /\ \A i \in DOMAIN name : name[i] \in Lower \cup Upper \cup Digit \cup {"_"}

\* What expandValue returns: the text, or that a variable is missing.
Expanded(text) == [text |-> text, missing |-> FALSE]
Missing == [text |-> << >>, missing |-> TRUE]
Prepend(text, rest) == IF rest.missing THEN Missing ELSE Expanded(text \o rest.text)

\* Mutant of Escaped: $$ has no meaning.
NeverEscaped(value, i) == FALSE

\* There is a $$ at position i.
Escaped(value, i) == i < Len(value) /\ value[i + 1] = "$"

\* Mutant of Replacement: the inserted text is scanned again for dollars.
ReplacementScanned(name, env) == SelectSeq(env[name], LAMBDA c : c # "$")

\* The value of a variable is inserted as it is.
Replacement(name, env) == env[name]

\* The loop of expandValue at position i; rest[j] is what it yields from j on.
ScanFrom(value, env, rest, i) ==
    LET n == Len(value)
        ends == {j \in (i + 2)..n : value[j] = "}"}
        end == Min(ends)
        name == SubSeq(value, i + 2, end - 1)
    IN  IF i > n THEN Expanded(<< >>)
        ELSE IF value[i] # "$" THEN Prepend(<<value[i]>>, rest[i + 1])
        ELSE IF Escaped(value, i) THEN Prepend(<<"$">>, rest[i + 2])
        ELSE IF i = n \/ value[i + 1] # "{" THEN Prepend(<<"$">>, rest[i + 1])
        ELSE IF ends = {} THEN Expanded(SubSeq(value, i, n))
        ELSE IF ~ValidEnvironmentName(name)
             THEN Prepend(SubSeq(value, i, end), rest[end + 1])
        ELSE IF name \notin DOMAIN env THEN Missing
        ELSE Prepend(Replacement(name, env), rest[end + 1])

\* expandValue: one pass from the first position.
Expand(value, env) ==
    LET Scan[i \in 1..(Len(value) + 1)] == ScanFrom(value, env, Scan, i)
    IN  Scan[1]

\* expandField for every text of a record, a list or a map.
ExpandEach(texts, env) == [k \in DOMAIN texts |-> Expand(texts[k], env).text]
MissingIn(texts, env) == \E k \in DOMAIN texts : Expand(texts[k], env).missing

-----------------------------------------------------------------------------
(* What the properties of Configuration compare an expansion with *)

\* text with t at the place of every c.
Replaced(text, c, t) ==
    LET R[k \in 0..Len(text)] ==
            IF k = 0 THEN << >> ELSE R[k - 1] \o (IF text[k] = c THEN t ELSE <<text[k]>>)
    IN  R[Len(text)]

Doubled(text) == Replaced(text, "$", <<"$", "$">>)

\* A character without meaning, and its absence.
Marker == "@"
Unmarked(text) == \A i \in DOMAIN text : text[i] # Marker

\* text has neither $$ nor ${NAME} with a valid name.
Literal(text) ==
    \A i \in DOMAIN text : text[i] = "$" /\ i < Len(text) =>
        /\ text[i + 1] # "$"
        /\ text[i + 1] = "{" => \A j \in (i + 2)..Len(text) :
              text[j] = "}" => ~ValidEnvironmentName(SubSeq(text, i + 2, j - 1))
=============================================================================
