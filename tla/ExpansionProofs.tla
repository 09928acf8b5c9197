---------------------------- MODULE ExpansionProofs ----------------------------
(***************************************************************************)
(* What expandValue returns for every text and every environment.  Expand  *)
(* and Replaced are recursive functions; a lemma for each shows that the   *)
(* function exists, by induction over the positions, and the theorems then *)
(* follow the loop from the last position to the first.                    *)
(***************************************************************************)
EXTENDS Expansion, SequenceTheorems, WellFoundedInduction, TLAPS

USE DEF Text

\* Induction over positions without an operator to instantiate: a set of numbers
\* has a least element, so a set P that is closed under the step is everything.
LEMMA Least ==
    ASSUME NEW T, T \subseteq Nat, T # {}
    PROVE  \E m \in T : \A n \in T : m <= n
<1> DEFINE R == OpToRel(<, Nat)
<1>1. IsWellFoundedOn(R, Nat)
  BY NatLessThanWellFounded
<1> HIDE DEF R
<1>2. \A m, n \in Nat : n < m => <<n, m>> \in R
  BY DEF R, OpToRel
<1>3. PICK m \in T : \A n \in T : ~(<<n, m>> \in R)
  BY <1>1, WFMin
<1>4. ASSUME NEW n \in T PROVE m <= n
  <2>1. m \in Nat /\ n \in Nat
    OBVIOUS
  <2>2. ~(n < m)
    BY <1>2, <1>3, <2>1
  <2> QED BY <2>1, <2>2
<1> QED BY <1>4

\* Induction from the last position to the first.
LEMMA Downward ==
    ASSUME NEW n \in Nat, NEW P,
           \A i \in 1..n : (\A j \in (i + 1)..n : j \in P) => i \in P
    PROVE  1..n \subseteq P
<1> DEFINE T == {k \in 0..n : n - k \in 1..n /\ n - k \notin P}
<1>1. SUFFICES ASSUME NEW x \in 1..n, x \notin P PROVE FALSE
  OBVIOUS
<1>2. n - (n - x) = x /\ n - x \in 0..n
  OBVIOUS
<1>3. n - x \in T
  BY <1>1, <1>2
<1>4. T \subseteq Nat
  OBVIOUS
<1>5. PICK k \in T : \A l \in T : k <= l
  <2> HIDE DEF T
  <2> QED BY <1>3, <1>4, Least
<1>6. ASSUME NEW j \in (n - k + 1)..n PROVE j \in P
  <2>1. n - (n - j) = j /\ n - j \in 0..n /\ ~(k <= n - j) /\ j \in 1..n
    BY <1>5
  <2>2. n - j \notin T
    BY <1>5, <2>1
  <2> QED BY <2>1, <2>2
<1>7. n - k \in 1..n /\ n - k \notin P
  BY <1>5
<1> QED BY <1>6, <1>7

\* Induction from 0 upwards.
LEMMA Upward ==
    ASSUME NEW n \in Nat, NEW P, 0 \in P,
           \A k \in 1..n : k - 1 \in P => k \in P
    PROVE  0..n \subseteq P
<1> DEFINE T == {k \in 0..n : k \notin P}
<1>1. SUFFICES ASSUME T # {} PROVE FALSE
  OBVIOUS
<1>2. T \subseteq Nat
  OBVIOUS
<1>3. PICK k \in T : \A l \in T : k <= l
  <2> HIDE DEF T
  <2> QED BY <1>1, <1>2, Least
<1>4. k \in 1..n /\ k - 1 \in 0..n /\ ~(k <= k - 1)
  BY <1>3
<1>5. k - 1 \notin T
  BY <1>3, <1>4
<1> QED BY <1>3, <1>4, <1>5

\* Min of FiniteSetsExt is the least element.
LEMMA MinOf ==
    ASSUME NEW T, T \subseteq Nat, T # {}
    PROVE  Min(T) \in T /\ \A n \in T : Min(T) <= n
BY Least DEF Min

\* What the loop does at i depends only on what it does further on.
LEMMA ScanAhead ==
    ASSUME NEW value \in Text, NEW env, NEW i \in 1..(Len(value) + 1), NEW f, NEW g,
           \A j \in (i + 1)..(Len(value) + 1) : f[j] = g[j]
    PROVE  ScanFrom(value, env, f, i) = ScanFrom(value, env, g, i)
<1> DEFINE n == Len(value)
           ends == {j \in (i + 2)..n : value[j] = "}"}
<1>1. n \in Nat
  OBVIOUS
<1>2. ~(i > n) => f[i + 1] = g[i + 1]
  BY <1>1
<1>3. Escaped(value, i) => f[i + 2] = g[i + 2]
  BY <1>1 DEF Escaped
<1>4. ends \subseteq (i + 2)..n /\ (i + 2)..n \subseteq Nat
  <2>1. ends \subseteq (i + 2)..n
    BY Zenon
  <2>2. (i + 2)..n \subseteq Nat
    BY <1>1
  <2> QED BY <2>1, <2>2
<1>5. ASSUME ends # {} PROVE f[Min(ends) + 1] = g[Min(ends) + 1]
  <2> HIDE DEF ends
  <2>1. ends \subseteq Nat
    BY <1>4
  <2>2. Min(ends) \in ends
    BY <1>5, <2>1, MinOf
  <2>3. Min(ends) \in (i + 2)..n
    BY <1>4, <2>2
  <2> QED BY <2>3, <1>1
<1> QED BY <1>2, <1>3, <1>5, Zenon DEF ScanFrom

\* f is what the loop yields from each position at or after m.
Scans(value, env, m, f) == f = [i \in m..(Len(value) + 1) |-> ScanFrom(value, env, f, i)]

\* A scan from m + 1 on can be continued to m.
LEMMA ScanExtends ==
    ASSUME NEW value \in Text, NEW env, NEW m \in 1..(Len(value) + 1), NEW f,
           Scans(value, env, m + 1, f)
    PROVE  \E g : Scans(value, env, m, g)
<1> DEFINE n == Len(value)
           g == [i \in m..(n + 1) |-> IF i = m THEN ScanFrom(value, env, f, m) ELSE f[i]]
<1>1. n \in Nat
  OBVIOUS
<1>2. \A j \in (m + 1)..(n + 1) : g[j] = f[j] /\ f[j] = ScanFrom(value, env, f, j)
  <2>1. \A j \in (m + 1)..(n + 1) : j \in m..(n + 1) /\ j # m
    BY <1>1
  <2>2. \A j \in (m + 1)..(n + 1) : f[j] = ScanFrom(value, env, f, j)
    BY DEF Scans
  <2> QED BY <2>1, <2>2
<1> HIDE DEF g
<1>3. ASSUME NEW i \in m..(n + 1) PROVE ScanFrom(value, env, f, i) = ScanFrom(value, env, g, i)
  BY <1>1, <1>2, ScanAhead
<1>4. ASSUME NEW i \in m..(n + 1) PROVE g[i] = ScanFrom(value, env, g, i)
  <2>1. CASE i = m
    BY <2>1, <1>3 DEF g
  <2>2. CASE i # m
    <3>1. i \in (m + 1)..(n + 1)
      BY <2>2, <1>1
    <3> QED BY <3>1, <1>2, <1>3
  <2> QED BY <2>1, <2>2
<1>5. g = [i \in m..(n + 1) |-> g[i]]
  BY DEF g
<1>6. Scans(value, env, m, g)
  BY <1>4, <1>5 DEF Scans
<1> QED BY <1>6

\* So there is a scan of the whole text,
LEMMA ScanExists ==
    ASSUME NEW value \in Text, NEW env
    PROVE  \E f : Scans(value, env, 1, f)
<1> DEFINE n == Len(value)
           P == {m \in 1..(n + 1) : \E f : Scans(value, env, m, f)}
<1>1. n \in Nat
  OBVIOUS
<1>2. ASSUME NEW m \in 1..(n + 1), \A j \in (m + 1)..(n + 1) : j \in P PROVE m \in P
  <2>1. CASE m = n + 1
    <3>1. (m + 1)..(n + 1) = {}
      BY <2>1, <1>1
    <3>2. Scans(value, env, m + 1, [i \in {} |-> 0])
      BY <3>1 DEF Scans
    <3> QED BY <3>2, ScanExtends
  <2>2. CASE m # n + 1
    <3>1. m + 1 \in (m + 1)..(n + 1)
      BY <2>2, <1>1
    <3>2. m + 1 \in P
      BY <3>1, <1>2
    <3> QED BY <3>2, ScanExtends
  <2> QED BY <2>1, <2>2
<1>3. 1..(n + 1) \subseteq P
  <2>1. n + 1 \in Nat
    BY <1>1
  <2> HIDE DEF P, n
  <2> QED BY <2>1, <1>2, Downward
<1>4. 1 \in 1..(n + 1)
  BY <1>1
<1> QED BY <1>3, <1>4

\* and Expand yields what one finds at the first position.
LEMMA ScanOfExpand ==
    ASSUME NEW value \in Text, NEW env
    PROVE  \E f : Scans(value, env, 1, f) /\ Expand(value, env) = f[1]
<1> DEFINE Scan[i \in 1..(Len(value) + 1)] == ScanFrom(value, env, Scan, i)
<1>1. Expand(value, env) = Scan[1]
  BY DEF Expand
<1>2. \E f : f = [i \in 1..(Len(value) + 1) |-> ScanFrom(value, env, f, i)]
  BY ScanExists DEF Scans
<1>3. Scan = [i \in 1..(Len(value) + 1) |-> ScanFrom(value, env, Scan, i)]
  BY <1>2
<1> HIDE DEF Scan
<1> QED BY <1>1, <1>3 DEF Scans

\* Every variable holds a text.
IsEnvironment(env) == \A v \in DOMAIN env : env[v] \in Text

\* What expandValue may return.
Result == [text : Text, missing : BOOLEAN]

\* What the loop may find at position i: the end, a character that stands for
\* itself, $$, an unclosed reference, or one that the brace at end closes.
AtEnd(value, i) == i = Len(value) + 1
Bare(value, i) ==
    i <= Len(value) /\ (value[i] # "$" \/ i = Len(value) \/ value[i + 1] \notin {"$", "{"})
Double(value, i) == i < Len(value) /\ value[i] = "$" /\ value[i + 1] = "$"
Braced(value, i) == i < Len(value) /\ value[i] = "$" /\ value[i + 1] = "{"
Ends(value, i) == {j \in (i + 2)..Len(value) : value[j] = "}"}
Unclosed(value, i) == Braced(value, i) /\ Ends(value, i) = {}
Reference(value, i, end) == Braced(value, i) /\ Ends(value, i) # {} /\ end = Min(Ends(value, i))

\* What the loop yields at a reference.
Referred(value, env, rest, i, end) ==
    LET name == SubSeq(value, i + 2, end - 1)
    IN  IF ~ValidEnvironmentName(name) THEN Prepend(SubSeq(value, i, end), rest[end + 1])
        ELSE IF name \notin DOMAIN env THEN Missing
        ELSE Prepend(env[name], rest[end + 1])

\* A text of one character,
LEMMA Single ==
    ASSUME NEW S, NEW x \in S
    PROVE  <<x>> \in Seq(S) /\ Len(<<x>>) = 1 /\ <<x>>[1] = x
OBVIOUS

\* for example a dollar.
LEMMA Dollar == <<"$">> \in Text
BY CharAssumption, Single DEF Text

\* Both kinds of result,
LEMMA ResultTypes ==
    /\ \A x \in Text : Expanded(x) \in Result
    /\ Missing \in Result
<1>1. << >> \in Text
  OBVIOUS
<1>2. ASSUME NEW x \in Text PROVE Expanded(x) \in Result
  BY DEF Expanded, Result
<1>3. Missing \in Result
  BY <1>1 DEF Missing, Result
<1> QED BY <1>2, <1>3

\* also with a text before it.
LEMMA PrependType ==
    ASSUME NEW piece \in Text, NEW rest \in Result
    PROVE  Prepend(piece, rest) \in Result
BY DEF Prepend, Result, Missing, Expanded

\* There is always one of them.
LEMMA ShapeOf ==
    ASSUME NEW value \in Text, NEW i \in 1..(Len(value) + 1)
    PROVE  \/ AtEnd(value, i) \/ Bare(value, i) \/ Double(value, i) \/ Unclosed(value, i)
           \/ \E end \in (i + 2)..Len(value) : Reference(value, i, end) /\ value[end] = "}"
<1> DEFINE n == Len(value)
<1>1. n \in Nat
  OBVIOUS
<1>2. i = n + 1 \/ i = n \/ i < n
  BY <1>1
<1>3. CASE i = n + 1
  BY <1>3 DEF AtEnd
<1>4. CASE i = n
  <2>1. i <= n
    BY <1>1, <1>4
  <2> QED BY <1>4, <2>1 DEF Bare
<1>5. CASE i < n
  <2>1. i <= n
    BY <1>1, <1>5
  <2>2. CASE Braced(value, i) /\ Ends(value, i) # {}
    <3>1. Ends(value, i) \subseteq (i + 2)..n
      BY DEF Ends
    <3>2. Ends(value, i) \subseteq Nat
      BY <1>1, <3>1
    <3>3. Min(Ends(value, i)) \in Ends(value, i)
      BY <2>2, <3>2, MinOf
    <3>4. Min(Ends(value, i)) \in (i + 2)..n /\ value[Min(Ends(value, i))] = "}"
      BY <3>3 DEF Ends
    <3> QED BY <2>2, <3>4 DEF Reference
  <2> QED BY <1>5, <2>1, <2>2 DEF Bare, Double, Braced, Unclosed
<1> QED BY <1>2, <1>3, <1>4, <1>5

\* Where they can be.
LEMMA ShapeBounds ==
    ASSUME NEW value \in Text, NEW i \in 1..(Len(value) + 1)
    PROVE  /\ Bare(value, i) => i <= Len(value)
           /\ Double(value, i) => i < Len(value)
           /\ Braced(value, i) => i < Len(value)
<1>1. Bare(value, i) => i <= Len(value)
  BY Zenon DEF Bare
<1>2. Double(value, i) => i < Len(value)
  BY Zenon DEF Double
<1>3. Braced(value, i) => i < Len(value)
  BY Zenon DEF Braced
<1> QED BY <1>1, <1>2, <1>3

\* What the loop does with each.
LEMMA ScanShape ==
    ASSUME NEW value \in Text, NEW i \in 1..(Len(value) + 1), NEW env, NEW f,
           Scans(value, env, 1, f)
    PROVE  /\ AtEnd(value, i) => f[i] = Expanded(<< >>)
           /\ Bare(value, i) => f[i] = Prepend(<<value[i]>>, f[i + 1])
           /\ Double(value, i) => f[i] = Prepend(<<"$">>, f[i + 2])
           /\ Unclosed(value, i) => f[i] = Expanded(SubSeq(value, i, Len(value)))
           /\ Braced(value, i) /\ Ends(value, i) # {} =>
                 f[i] = Referred(value, env, f, i, Min(Ends(value, i)))
<1> DEFINE n == Len(value)
<1>1. n \in Nat
  OBVIOUS
<1>2. f[i] = ScanFrom(value, env, f, i)
  BY DEF Scans
<1>3. ASSUME AtEnd(value, i) PROVE f[i] = Expanded(<< >>)
  <2>1. i > n
    BY <1>1, <1>3 DEF AtEnd
  <2> QED BY <1>2, <2>1, Zenon DEF ScanFrom
<1>4. ASSUME Bare(value, i) PROVE f[i] = Prepend(<<value[i]>>, f[i + 1])
  <2>1. ~(i > n)
    BY <1>1, <1>4, ShapeBounds
  <2>2. CASE value[i] # "$"
    BY <1>2, <2>1, <2>2, Zenon DEF ScanFrom
  <2>3. CASE value[i] = "$" /\ (i = n \/ value[i + 1] \notin {"$", "{"})
    <3>1. ~Escaped(value, i) /\ (i = n \/ value[i + 1] # "{")
      <4>1. i = n => ~(i < n)
        BY <1>1
      <4> QED BY <2>3, <4>1 DEF Escaped
    <3> QED BY <1>2, <2>1, <2>3, <3>1, Zenon DEF ScanFrom
  <2> QED BY <1>4, <2>2, <2>3 DEF Bare
<1>5. ASSUME Double(value, i) PROVE f[i] = Prepend(<<"$">>, f[i + 2])
  <2>1. ~(i > n)
    BY <1>1, <1>5, ShapeBounds
  <2> QED BY <1>2, <1>5, <2>1, Zenon DEF ScanFrom, Double, Escaped
<1>6. ASSUME Braced(value, i)
      PROVE  f[i] = IF Ends(value, i) = {} THEN Expanded(SubSeq(value, i, n))
                    ELSE Referred(value, env, f, i, Min(Ends(value, i)))
  <2>1. ~(i > n) /\ i # n
    BY <1>1, <1>6, ShapeBounds
  <2>2. value[i] = "$" /\ value[i + 1] = "{" /\ "{" # "$"
    BY <1>6 DEF Braced
  <2>3. ~Escaped(value, i) /\ ~(i = n \/ value[i + 1] # "{")
    BY <2>1, <2>2 DEF Escaped
  <2> QED BY <1>2, <2>1, <2>2, <2>3, Zenon DEF ScanFrom, Ends, Referred, Replacement
<1> QED BY <1>3, <1>4, <1>5, <1>6 DEF Unclosed

\* The end, $$ and a reference again, in the form in which the proofs use them.
LEMMA ScanAtEnd ==
    ASSUME NEW value \in Text, NEW env, NEW f, Scans(value, env, 1, f)
    PROVE  f[Len(value) + 1] = Expanded(<< >>)
<1>1. PICK i \in 1..(Len(value) + 1) : i = Len(value) + 1
  OBVIOUS
<1>2. AtEnd(value, i)
  BY <1>1 DEF AtEnd
<1>3. f[i] = Expanded(<< >>)
  BY <1>2, ScanShape
<1> QED BY <1>1, <1>3, Zenon

\* See ScanAtEnd.
LEMMA ScanDouble ==
    ASSUME NEW value \in Text, NEW i \in 1..(Len(value) + 1), NEW env, NEW f,
           Scans(value, env, 1, f), Double(value, i)
    PROVE  f[i] = Prepend(<<"$">>, f[i + 2])
BY ScanShape

\* See ScanAtEnd.
LEMMA ScanReference ==
    ASSUME NEW value \in Text, NEW i \in 1..(Len(value) + 1), NEW env, NEW f,
           Scans(value, env, 1, f), NEW end, Reference(value, i, end)
    PROVE  f[i] = Referred(value, env, f, i, end)
<1>1. f[i] = Referred(value, env, f, i, Min(Ends(value, i)))
  BY ScanShape DEF Reference
<1> QED BY <1>1, Zenon DEF Reference

\* expandValue returns a text or reports a missing variable.
LEMMA ExpandType ==
    ASSUME NEW value \in Text, NEW env, IsEnvironment(env)
    PROVE  Expand(value, env) \in Result
<1> DEFINE n == Len(value)
<1>1. n \in Nat
  OBVIOUS
<1>2. PICK f : Scans(value, env, 1, f) /\ Expand(value, env) = f[1]
  BY ScanOfExpand
<1> DEFINE P == {i \in 1..(n + 1) : f[i] \in Result}
<1>3. ASSUME NEW i \in 1..(n + 1), \A j \in (i + 1)..(n + 1) : j \in P PROVE f[i] \in Result
  <2>1. \A j \in (i + 1)..(n + 1) : f[j] \in Result
    BY <1>3
  <2>2. CASE AtEnd(value, i)
    <3>1. f[i] = Expanded(<< >>)
      BY <1>2, <2>2, ScanShape
    <3>2. << >> \in Text
      OBVIOUS
    <3> QED BY <3>1, <3>2, ResultTypes, Zenon
  <2>3. CASE Unclosed(value, i)
    <3>1. f[i] = Expanded(SubSeq(value, i, n))
      BY <1>2, <2>3, ScanShape, Zenon
    <3>2. SubSeq(value, i, n) \in Text
      BY <1>1
    <3> QED BY <3>1, <3>2, ResultTypes, Zenon
  <2>4. CASE Bare(value, i)
    <3>1. f[i] = Prepend(<<value[i]>>, f[i + 1])
      BY <1>2, <2>4, ScanShape
    <3>2. i \in 1..n /\ i + 1 \in (i + 1)..(n + 1)
      BY <2>4, <1>1, ShapeBounds
    <3>3. <<value[i]>> \in Text
      BY <3>2
    <3> QED BY <2>1, <3>1, <3>2, <3>3, PrependType, Zenon
  <2>5. CASE Double(value, i)
    <3>1. f[i] = Prepend(<<"$">>, f[i + 2])
      BY <1>2, <2>5, ScanShape, Zenon
    <3>2. i + 2 \in (i + 1)..(n + 1)
      BY <2>5, <1>1, ShapeBounds
    <3> QED BY <2>1, <3>1, <3>2, Dollar, PrependType, Zenon
  <2>6. ASSUME NEW end \in (i + 2)..n, Reference(value, i, end) PROVE f[i] \in Result
    <3>1. SubSeq(value, i, end) \in Text /\ end + 1 \in (i + 1)..(n + 1)
      BY <1>1
    <3>2. ASSUME NEW name \in DOMAIN env PROVE env[name] \in Text
      BY DEF IsEnvironment
    <3>3. f[i] = Referred(value, env, f, i, end)
      BY <1>2, <2>6, ScanReference
    <3> QED BY <2>1, <3>1, <3>2, <3>3, ResultTypes, PrependType DEF Referred
  <2> QED BY <2>2, <2>3, <2>4, <2>5, <2>6, ShapeOf
<1>4. 1..(n + 1) \subseteq P
  <2>1. n + 1 \in Nat
    BY <1>1
  <2>2. ASSUME NEW i \in 1..(n + 1), \A j \in (i + 1)..(n + 1) : j \in P PROVE i \in P
    BY <1>3, <2>2
  <2> HIDE DEF P, n
  <2> QED BY <2>1, <2>2, Downward
<1>5. 1 \in 1..(n + 1)
  BY <1>1
<1> QED BY <1>2, <1>4, <1>5

-----------------------------------------------------------------------------
\* Concatenation of texts.
LEMMA Concat ==
    ASSUME NEW s \in Text, NEW t \in Text, NEW u \in Text
    PROVE  /\ s \o t \in Text
           /\ (s \o t) \o u = s \o (t \o u)
           /\ s \o << >> = s /\ << >> \o s = s
           /\ << >> \in Text
<1>1. s \o t \in Text
  BY ConcatProperties
<1>2. (s \o t) \o u = s \o (t \o u)
  OBVIOUS
<1>3. s \o << >> = s /\ << >> \o s = s
  BY ConcatEmptySeq
<1>4. << >> \in Text
  OBVIOUS
<1> QED BY <1>1, <1>2, <1>3, <1>4

\* A value without $$ and ${NAME} stands for itself whatever the environment is:
\* expandValue keeps bare dollars, malformed names and unclosed references.
THEOREM LiteralStands ==
    ASSUME NEW value \in Text, NEW env, Literal(value)
    PROVE  Expand(value, env) = Expanded(value)
<1> DEFINE n == Len(value)
<1>1. n \in Nat
  OBVIOUS
<1>2. PICK f : Scans(value, env, 1, f) /\ Expand(value, env) = f[1]
  BY ScanOfExpand
<1> DEFINE P == {i \in 1..(n + 1) : f[i] = Expanded(SubSeq(value, i, n))}
<1>3. ASSUME NEW i \in 1..(n + 1), \A j \in (i + 1)..(n + 1) : j \in P PROVE i \in P
  <2>1. \A j \in (i + 1)..(n + 1) : f[j] = Expanded(SubSeq(value, j, n))
    BY <1>3
  <2>2. i < n => i \in DOMAIN value
    BY <1>1, LenProperties
  <2>3. CASE AtEnd(value, i)
    <3>1. SubSeq(value, i, n) = << >>
      BY <1>1, <2>3, SubSeqEmpty DEF AtEnd
    <3>2. f[i] = Expanded(<< >>)
      BY <1>2, <2>3, ScanShape
    <3>3. f[i] = Expanded(SubSeq(value, i, n))
      BY <3>1, <3>2, Zenon
    <3> QED BY <3>3
  <2>4. CASE Bare(value, i)
    <3>1. i + 1 \in (i + 1)..(n + 1) /\ i \in 1..n /\ n \in i..n
      BY <2>4, <1>1, ShapeBounds
    <3>2. SubSeq(value, i, n) = <<value[i]>> \o SubSeq(value, i + 1, n)
      BY <3>1, SubSeqRecursiveFirst
    <3>3. f[i] = Prepend(<<value[i]>>, Expanded(SubSeq(value, i + 1, n)))
      BY <1>2, <2>1, <2>4, <3>1, ScanShape
    <3> QED BY <3>2, <3>3 DEF Prepend, Expanded
  <2>5. ~Double(value, i)
    BY <2>2 DEF Double, Literal
  <2>6. CASE Unclosed(value, i)
    <3>1. f[i] = Expanded(SubSeq(value, i, n))
      BY <1>2, <2>6, ScanShape
    <3> QED BY <3>1
  <2>7. ASSUME NEW end \in (i + 2)..n, Reference(value, i, end), value[end] = "}" PROVE i \in P
    <3>1. end + 1 \in (i + 1)..(n + 1) /\ end \in (i - 1)..n /\ n \in end..n
      BY <1>1
    <3>2. SubSeq(value, i, end) \o SubSeq(value, end + 1, n) = SubSeq(value, i, n)
      BY <3>1, ConcatAdjacentSubSeq
    <3>3. ~ValidEnvironmentName(SubSeq(value, i + 2, end - 1))
      BY <2>7, <2>2 DEF Literal, Reference, Braced
    <3>4. f[i] = Referred(value, env, f, i, end)
      <4>1. Scans(value, env, 1, f) /\ Reference(value, i, end)
        BY <1>2, <2>7
      <4> QED BY <4>1, ScanReference
    <3>5. f[i] = Prepend(SubSeq(value, i, end), f[end + 1])
      BY <3>3, <3>4, Zenon DEF Referred
    <3>6. f[i] = Prepend(SubSeq(value, i, end), Expanded(SubSeq(value, end + 1, n)))
      BY <2>1, <3>1, <3>5
    <3> QED BY <3>2, <3>6 DEF Prepend, Expanded
  <2> QED BY <2>3, <2>4, <2>5, <2>6, <2>7, ShapeOf
<1>4. 1..(n + 1) \subseteq P
  <2>1. n + 1 \in Nat
    BY <1>1
  <2> HIDE DEF P, n
  <2> QED BY <2>1, <1>3, Downward
<1>5. 1 \in 1..(n + 1)
  BY <1>1
<1>6. SubSeq(value, 1, n) = value
  BY SubSeqFull
<1> QED BY <1>2, <1>4, <1>5, <1>6

-----------------------------------------------------------------------------
\* What stands for character k.
Piece(text, c, t, k) == IF text[k] = c THEN t ELSE <<text[k]>>

\* R[k] is what the first k characters become, for k up to m.
Replaces(text, c, t, m, R) ==
    R = [k \in 0..m |-> IF k = 0 THEN << >> ELSE R[k - 1] \o Piece(text, c, t, k)]

\* One character more.
LEMMA ReplacesExtends ==
    ASSUME NEW text, NEW c, NEW t, NEW m \in Nat, m # 0, NEW Q, Replaces(text, c, t, m - 1, Q)
    PROVE  \E R : Replaces(text, c, t, m, R)
<1> DEFINE R == [k \in 0..m |-> IF k = m THEN Q[m - 1] \o Piece(text, c, t, m) ELSE Q[k]]
<1>1. \A k \in 0..(m - 1) : R[k] = Q[k] /\ k \in 0..m
  OBVIOUS
<1>2. R[m] = Q[m - 1] \o Piece(text, c, t, m)
  OBVIOUS
<1>3. \A k \in 0..(m - 1) : Q[k] = IF k = 0 THEN << >> ELSE Q[k - 1] \o Piece(text, c, t, k)
  BY DEF Replaces
<1> HIDE DEF R
<1>4. ASSUME NEW k \in 0..m
      PROVE  R[k] = IF k = 0 THEN << >> ELSE R[k - 1] \o Piece(text, c, t, k)
  <2>1. CASE k = m
    <3>1. m - 1 \in 0..(m - 1)
      OBVIOUS
    <3> QED BY <1>1, <1>2, <2>1, <3>1
  <2>2. CASE k # m /\ k # 0
    <3>1. k \in 0..(m - 1) /\ k - 1 \in 0..(m - 1)
      BY <2>2
    <3> QED BY <1>1, <1>3, <2>2, <3>1
  <2>3. CASE k # m /\ k = 0
    <3>1. k \in 0..(m - 1)
      BY <2>3
    <3> QED BY <1>1, <1>3, <2>3, <3>1
  <2> QED BY <2>1, <2>2, <2>3
<1>5. R = [k \in 0..m |-> R[k]]
  BY DEF R
<1>6. Replaces(text, c, t, m, R)
  BY <1>4, <1>5 DEF Replaces
<1> QED BY <1>6

\* So there is such a function for the whole text,
LEMMA ReplacesExists ==
    ASSUME NEW text, NEW c, NEW t, NEW n \in Nat
    PROVE  \E R : Replaces(text, c, t, n, R)
<1> DEFINE P == {m \in 0..n : \E R : Replaces(text, c, t, m, R)}
<1>1. 0 \in P
  <2>1. 0..0 = {0}
    OBVIOUS
  <2>2. Replaces(text, c, t, 0, [k \in {0} |-> << >>])
    BY <2>1 DEF Replaces
  <2> QED BY <2>2
<1>2. ASSUME NEW k \in 1..n, k - 1 \in P PROVE k \in P
  BY <1>2, ReplacesExtends
<1>3. 0..n \subseteq P
  <2> HIDE DEF P
  <2> QED BY <1>1, <1>2, Upward
<1> QED BY <1>3

\* and Replaced yields its last value.
LEMMA ReplacedBy ==
    ASSUME NEW text \in Text, NEW c, NEW t \in Text
    PROVE  \E R \in [0..Len(text) -> Text] :
              /\ Replaced(text, c, t) = R[Len(text)]
              /\ R[0] = << >>
              /\ \A k \in 1..Len(text) : /\ R[k] = R[k - 1] \o Piece(text, c, t, k)
                                         /\ Piece(text, c, t, k) \in Text
<1> DEFINE n == Len(text)
           R[k \in 0..n] == IF k = 0 THEN << >>
                            ELSE R[k - 1] \o (IF text[k] = c THEN t ELSE <<text[k]>>)
<1>1. n \in Nat
  OBVIOUS
<1>2. Replaced(text, c, t) = R[n]
  BY DEF Replaced
<1>3. \E Q : Q = [k \in 0..n |-> IF k = 0 THEN << >>
                                ELSE Q[k - 1] \o (IF text[k] = c THEN t ELSE <<text[k]>>)]
  <2>1. \E Q : Replaces(text, c, t, n, Q)
    BY <1>1, ReplacesExists
  <2> QED BY <2>1, Zenon DEF Replaces, Piece
<1>4. R = [k \in 0..n |-> IF k = 0 THEN << >>
                          ELSE R[k - 1] \o (IF text[k] = c THEN t ELSE <<text[k]>>)]
  BY <1>3, Zenon
<1> HIDE DEF R
<1>5. 0 \in 0..n /\ R[0] = << >>
  BY <1>1, <1>4
<1>6. \A k \in 1..n : R[k] = R[k - 1] \o Piece(text, c, t, k)
  <2>1. ASSUME NEW k \in 1..n PROVE k \in 0..n /\ k # 0
    BY <1>1
  <2> QED BY <1>4, <2>1, Zenon DEF Piece
<1>7. \A k \in 1..n : Piece(text, c, t, k) \in Text
  BY <1>1 DEF Piece
<1> DEFINE P == {k \in 0..n : R[k] \in Text}
<1>8. 0..n \subseteq P
  <2>1. 0 \in P
    BY <1>5, Concat
  <2>2. ASSUME NEW k \in 1..n, k - 1 \in P PROVE k \in P
    <3>1. k \in 0..n /\ R[k - 1] \in Text /\ Piece(text, c, t, k) \in Text
      BY <1>1, <1>7, <2>2
    <3>2. R[k] \in Text
      <4>1. PICK p \in Text, q \in Text : p = R[k - 1] /\ q = Piece(text, c, t, k)
        BY <3>1
      <4>2. R[k] = p \o q
        BY <1>6, <4>1, Zenon
      <4>3. p \o q \in Text
        BY ConcatProperties
      <4> QED BY <4>2, <4>3, Zenon
    <3> QED BY <3>1, <3>2
  <2> HIDE DEF P
  <2> QED BY <1>1, <2>1, <2>2, Upward
<1>9. R \in [0..n -> Text]
  BY <1>4, <1>8
<1> QED BY <1>2, <1>5, <1>6, <1>7, <1>9

\* Replacing yields a text.
LEMMA ReplacedType ==
    ASSUME NEW text \in Text, NEW c, NEW t \in Text
    PROVE  Replaced(text, c, t) \in Text
<1>1. Len(text) \in 0..Len(text)
  OBVIOUS
<1> QED BY <1>1, ReplacedBy

\* Two texts can be replaced one after the other.
LEMMA ReplacedConcat ==
    ASSUME NEW a \in Text, NEW b \in Text, NEW c, NEW t \in Text
    PROVE  Replaced(a \o b, c, t) = Replaced(a, c, t) \o Replaced(b, c, t)
<1> DEFINE m == Len(a)
           n == Len(b)
<1>1. m \in Nat /\ n \in Nat /\ Len(a \o b) = m + n /\ a \o b \in Text
  OBVIOUS
<1>2. PICK A \in [0..m -> Text] :
         /\ Replaced(a, c, t) = A[m] /\ A[0] = << >>
         /\ \A k \in 1..m : A[k] = A[k - 1] \o Piece(a, c, t, k) /\ Piece(a, c, t, k) \in Text
  BY ReplacedBy
<1>3. PICK B \in [0..n -> Text] :
         /\ Replaced(b, c, t) = B[n] /\ B[0] = << >>
         /\ \A k \in 1..n : B[k] = B[k - 1] \o Piece(b, c, t, k) /\ Piece(b, c, t, k) \in Text
  BY ReplacedBy
<1>4. PICK R \in [0..(m + n) -> Text] :
         /\ Replaced(a \o b, c, t) = R[m + n] /\ R[0] = << >>
         /\ \A k \in 1..(m + n) : R[k] = R[k - 1] \o Piece(a \o b, c, t, k)
  BY <1>1, ReplacedBy
<1>5. \A k \in 1..m : Piece(a \o b, c, t, k) = Piece(a, c, t, k) /\ k \in 1..(m + n)
  BY <1>1, ConcatProperties DEF Piece
<1>6. \A k \in 1..n : /\ Piece(a \o b, c, t, m + k) = Piece(b, c, t, k)
                      /\ m + k \in 1..(m + n) /\ m + k - 1 = m + (k - 1)
  BY <1>1, ConcatProperties DEF Piece
<1> HIDE DEF m, n
<1> DEFINE P == {k \in 0..m : R[k] = A[k]}
<1>7. 0..m \subseteq P
  <2>1. 0 \in P
    BY <1>1, <1>2, <1>4
  <2>2. ASSUME NEW k \in 1..m, k - 1 \in P PROVE k \in P
    <3>1. k \in 0..m /\ R[k - 1] = A[k - 1]
      BY <1>1, <2>2
    <3>2. R[k] = R[k - 1] \o Piece(a \o b, c, t, k) /\ A[k] = A[k - 1] \o Piece(a, c, t, k)
      BY <1>2, <1>4, <1>5
    <3>3. R[k] = A[k]
      BY <1>5, <3>1, <3>2, Zenon
    <3> QED BY <3>1, <3>3
  <2> HIDE DEF P
  <2> QED BY <1>1, <2>1, <2>2, Upward
<1> DEFINE Q == {k \in 0..n : R[m + k] = A[m] \o B[k]}
<1>8. 0..n \subseteq Q
  <2>1. A[m] \in Text /\ R[m] = A[m] /\ m + 0 = m /\ 0 \in 0..n
    BY <1>1, <1>2, <1>7
  <2>2. 0 \in Q
    BY <2>1, <1>3, ConcatEmptySeq
  <2>3. ASSUME NEW k \in 1..n, k - 1 \in Q PROVE k \in Q
    <3>1. k \in 0..n /\ k - 1 \in 0..n /\ B[k - 1] \in Text
      BY <1>1, <1>3
    <3>2. R[m + k] = (A[m] \o B[k - 1]) \o Piece(b, c, t, k)
      <4>1. R[m + (k - 1)] = A[m] \o B[k - 1]
        BY <2>3
      <4>2. PICK j : j = m + k
        OBVIOUS
      <4>3. j \in 1..(m + n) /\ j - 1 = m + (k - 1) /\ Piece(a \o b, c, t, j) = Piece(b, c, t, k)
        <5>1. Piece(a \o b, c, t, m + k) = Piece(b, c, t, k)
          BY <1>6, Zenon
        <5>2. j \in 1..(m + n) /\ j - 1 = m + (k - 1)
          BY <1>1, <4>2
        <5>3. Piece(a \o b, c, t, j) = Piece(b, c, t, k)
          BY <4>2, <5>1
        <5> QED BY <5>2, <5>3
      <4>4. R[j] = R[j - 1] \o Piece(a \o b, c, t, j)
        BY <1>4, <4>3
      <4> QED BY <4>1, <4>2, <4>3, <4>4, Zenon
    <3>3. R[m + k] = A[m] \o (B[k - 1] \o Piece(b, c, t, k))
      <4>1. A[m] \in Text /\ B[k - 1] \in Text /\ Piece(b, c, t, k) \in Text
        BY <1>3, <2>1, <3>1
      <4>2. PICK p \in Text, q \in Text, r \in Text :
               p = A[m] /\ q = B[k - 1] /\ r = Piece(b, c, t, k)
        BY <4>1
      <4>3. (p \o q) \o r = p \o (q \o r)
        BY SMTT(30)
      <4> QED BY <3>2, <4>2, <4>3, Zenon
    <3> QED BY <1>3, <3>1, <3>3
  <2> HIDE DEF Q
  <2> QED BY <1>1, <2>2, <2>3, Upward
<1>9. n \in 0..n
  BY <1>1
<1> QED BY <1>2, <1>3, <1>4, <1>8, <1>9

\* One character is replaced or stays.
LEMMA ReplacedSingle ==
    ASSUME NEW x \in Char, NEW c, NEW t \in Text
    PROVE  Replaced(<<x>>, c, t) = IF x = c THEN t ELSE <<x>>
<1>1. <<x>> \in Text /\ Len(<<x>>) = 1 /\ <<x>>[1] = x
  BY Single
<1>2. PICK R \in [0..1 -> Text] :
         /\ Replaced(<<x>>, c, t) = R[1] /\ R[0] = << >>
         /\ R[1] = R[0] \o Piece(<<x>>, c, t, 1)
         /\ Piece(<<x>>, c, t, 1) \in Text
  <2>1. 1 \in 1..1 /\ 1 - 1 = 0
    OBVIOUS
  <2>2. PICK R \in [0..Len(<<x>>) -> Text] :
           /\ Replaced(<<x>>, c, t) = R[Len(<<x>>)] /\ R[0] = << >>
           /\ \A k \in 1..Len(<<x>>) : /\ R[k] = R[k - 1] \o Piece(<<x>>, c, t, k)
                                       /\ Piece(<<x>>, c, t, k) \in Text
    <3>1. PICK s \in Text : s = <<x>>
      BY <1>1
    <3>2. \E R \in [0..Len(s) -> Text] :
             /\ Replaced(s, c, t) = R[Len(s)] /\ R[0] = << >>
             /\ \A k \in 1..Len(s) : /\ R[k] = R[k - 1] \o Piece(s, c, t, k)
                                      /\ Piece(s, c, t, k) \in Text
      BY ReplacedBy
    <3> QED BY <3>1, <3>2, Zenon
  <2> QED BY <1>1, <2>1, <2>2, Zenon
<1>3. Replaced(<<x>>, c, t) = Piece(<<x>>, c, t, 1)
  BY <1>2, ConcatEmptySeq
<1> QED BY <1>1, <1>3 DEF Piece

\* A text without c stays.
LEMMA ReplacedNowhere ==
    ASSUME NEW text \in Text, NEW c, NEW t \in Text, \A i \in 1..Len(text) : text[i] # c
    PROVE  Replaced(text, c, t) = text
<1> DEFINE n == Len(text)
<1>1. n \in Nat
  OBVIOUS
<1>2. PICK R \in [0..n -> Text] :
         /\ Replaced(text, c, t) = R[n] /\ R[0] = << >>
         /\ \A k \in 1..n : R[k] = R[k - 1] \o Piece(text, c, t, k)
  BY ReplacedBy
<1> DEFINE P == {k \in 0..n : R[k] = SubSeq(text, 1, k)}
<1>3. 0..n \subseteq P
  <2>1. 0 \in P
    <3>1. SubSeq(text, 1, 0) = << >>
      BY SubSeqEmpty
    <3>2. 0 \in 0..n
      BY <1>1
    <3>3. R[0] = SubSeq(text, 1, 0)
      BY <1>2, <3>1, Zenon
    <3> QED BY <3>2, <3>3
  <2>2. ASSUME NEW k \in 1..n, k - 1 \in P PROVE k \in P
    <3>1. k \in 0..n /\ k \in 1..k
      BY <1>1
    <3>2. R[k] = SubSeq(text, 1, k - 1) \o <<text[k]>>
      BY <1>2, <2>2 DEF Piece
    <3>3. SubSeq(text, 1, k) = SubSeq(text, 1, k - 1) \o <<text[k]>>
      <4>1. 1 \in 1..Len(text) /\ k \in 1..Len(text)
        BY <1>1
      <4> QED BY <4>1, SubSeqRecursiveSecond
    <3> QED BY <3>1, <3>2, <3>3
  <2> HIDE DEF P
  <2> QED BY <1>1, <2>1, <2>2, Upward
<1>4. n \in 0..n /\ SubSeq(text, 1, n) = text
  BY <1>1, SubSeqFull
<1> QED BY <1>2, <1>3, <1>4

\* So does the empty text.
LEMMA ReplacedEmpty ==
    ASSUME NEW c, NEW t \in Text
    PROVE  Replaced(<< >>, c, t) = << >>
<1>1. << >> \in Text /\ 1..Len(<< >>) = {}
  OBVIOUS
<1> QED BY <1>1, ReplacedNowhere

-----------------------------------------------------------------------------
\* A result agrees with one of the environment with the marker for a variable
\* that holds t.
Agree(a, b, t) ==
    /\ a \in Result /\ b \in Result
    /\ a.missing = b.missing
    /\ ~a.missing => a.text = Replaced(b.text, Marker, t)

\* Texts agree when one is the other with the marker replaced.
LEMMA AgreeExpanded ==
    ASSUME NEW p \in Text, NEW q \in Text, NEW t \in Text, p = Replaced(q, Marker, t)
    PROVE  Agree(Expanded(p), Expanded(q), t)
<1>1. Expanded(p) \in Result /\ Expanded(q) \in Result
  BY ResultTypes, Zenon
<1>2. Expanded(p).text = p /\ Expanded(q).text = q
  BY DEF Expanded
<1>3. Expanded(p).missing = FALSE /\ Expanded(q).missing = FALSE
  BY DEF Expanded
<1> QED BY <1>1, <1>2, <1>3, Zenon DEF Agree

\* Both runs report the missing variable.
LEMMA AgreeMissing ==
    ASSUME NEW t \in Text
    PROVE  Agree(Missing, Missing, t)
<1>1. Missing \in Result
  BY ResultTypes, Zenon
<1>2. Missing.missing
  BY DEF Missing
<1> QED BY <1>1, <1>2, Zenon DEF Agree

\* ReplacedConcat for the marker.
LEMMA MarkerConcat ==
    \A q, x, t \in Text :
        Replaced(q \o x, Marker, t) = Replaced(q, Marker, t) \o Replaced(x, Marker, t)
<1> HIDE DEF Text
<1> QED BY ReplacedConcat

\* Results that agree still do with pieces that agree before them.
LEMMA AgreePrepend ==
    ASSUME NEW p \in Text, NEW q \in Text, NEW t \in Text, p = Replaced(q, Marker, t),
           NEW rest, NEW more, Agree(rest, more, t)
    PROVE  Agree(Prepend(p, rest), Prepend(q, more), t)
<1>1. rest \in Result /\ more \in Result /\ rest.missing = more.missing
  BY Zenon DEF Agree
<1>2. rest.text \in Text /\ more.text \in Text /\ rest.missing \in BOOLEAN
  BY <1>1 DEF Result
<1>3. CASE rest.missing
  <2>1. Prepend(p, rest) = Missing /\ Prepend(q, more) = Missing
    BY <1>1, <1>3, Zenon DEF Prepend
  <2> QED BY <2>1, AgreeMissing
<1>4. CASE ~rest.missing
  <2>1. Prepend(p, rest) = Expanded(p \o rest.text) /\ Prepend(q, more) = Expanded(q \o more.text)
    BY <1>1, <1>4, Zenon DEF Prepend
  <2>2. rest.text = Replaced(more.text, Marker, t)
    BY <1>4, Zenon DEF Agree
  <2>3. p \o rest.text \in Text /\ q \o more.text \in Text
    BY <1>2, Concat
  <2>4. p \o rest.text = Replaced(q \o more.text, Marker, t)
    <3>1. Replaced(q \o more.text, Marker, t)
             = Replaced(q, Marker, t) \o Replaced(more.text, Marker, t)
      <4>1. PICK x \in Text : x = more.text
        BY <1>2
      <4>2. Replaced(q \o x, Marker, t) = Replaced(q, Marker, t) \o Replaced(x, Marker, t)
        BY MarkerConcat, ZenonT(40)
      <4> QED BY <4>1, <4>2, Zenon
    <3> QED BY <2>2, <3>1, Zenon
  <2> QED BY <2>1, <2>3, <2>4, AgreeExpanded
<1> QED BY <1>3, <1>4

\* A part of a text without the marker is left as it is.
LEMMA ReplacedPart ==
    ASSUME NEW value \in Text, Unmarked(value), NEW t \in Text,
           NEW i \in 1..(Len(value) + 1), NEW j \in 0..Len(value)
    PROVE  /\ SubSeq(value, i, j) \in Text
           /\ SubSeq(value, i, j) = Replaced(SubSeq(value, i, j), Marker, t)
<1>1. SubSeq(value, i, j) \in Text
  OBVIOUS
<1>2. ASSUME NEW k \in 1..Len(SubSeq(value, i, j)) PROVE SubSeq(value, i, j)[k] # Marker
  <2>1. SubSeq(value, i, j)[k] = value[i + k - 1] /\ i + k - 1 \in 1..Len(value)
    BY SubSeqProperties
  <2>2. i + k - 1 \in DOMAIN value
    BY <2>1, LenProperties
  <2> QED BY <2>1, <2>2, Zenon DEF Unmarked
<1>3. SubSeq(value, i, j) = Replaced(SubSeq(value, i, j), Marker, t)
  <2> DEFINE s == SubSeq(value, i, j)
  <2> HIDE DEF s
  <2> QED BY <1>1, <1>2, ReplacedNowhere DEF s
<1> QED BY <1>1, <1>3

\* At every position the two scans agree.
LEMMA VerbatimAt ==
    ASSUME NEW value \in Text, Unmarked(value), NEW env, IsEnvironment(env),
           NEW v \in DOMAIN env, \A u \in DOMAIN env \ {v} : Unmarked(env[u]),
           NEW marked, marked = [env EXCEPT ![v] = <<Marker>>],
           NEW f, Scans(value, env, 1, f), NEW g, Scans(value, marked, 1, g),
           NEW i \in 1..(Len(value) + 1),
           \A j \in (i + 1)..(Len(value) + 1) : Agree(f[j], g[j], env[v])
    PROVE  Agree(f[i], g[i], env[v])
<1> DEFINE n == Len(value)
<1>1. n \in Nat
  OBVIOUS
<1>2. DOMAIN marked = DOMAIN env
  OBVIOUS
<1>3. \A u \in DOMAIN env : marked[u] = IF u = v THEN <<Marker>> ELSE env[u]
  OBVIOUS
<1>4. env[v] \in Text /\ \A u \in DOMAIN env : env[u] \in Text
  BY DEF IsEnvironment
<1>5. CASE AtEnd(value, i)
  <2>1. f[i] = Expanded(<< >>)
    BY <1>5, ScanShape
  <2>2. g[i] = Expanded(<< >>)
    BY <1>5, ScanShape
  <2>3. << >> \in Text
    OBVIOUS
  <2>4. Replaced(<< >>, Marker, env[v]) = << >>
    BY <1>4, ReplacedEmpty
  <2> QED BY <1>4, <2>1, <2>2, <2>3, <2>4, AgreeExpanded
<1>6. CASE Unclosed(value, i)
  <2>1. f[i] = Expanded(SubSeq(value, i, n))
    BY <1>6, ScanShape
  <2>2. g[i] = Expanded(SubSeq(value, i, n))
    BY <1>6, ScanShape
  <2>3. n \in 0..n
    BY <1>1
  <2>4. /\ SubSeq(value, i, n) \in Text
        /\ SubSeq(value, i, n) = Replaced(SubSeq(value, i, n), Marker, env[v])
    BY <1>4, <2>3, ReplacedPart
  <2> QED BY <1>4, <2>1, <2>2, <2>4, AgreeExpanded
<1>7. CASE Bare(value, i)
  <2>1. f[i] = Prepend(<<value[i]>>, f[i + 1])
    BY <1>7, ScanShape
  <2>2. g[i] = Prepend(<<value[i]>>, g[i + 1])
    BY <1>7, ScanShape
  <2>3. i \in 1..n /\ i + 1 \in (i + 1)..(n + 1)
    BY <1>1, <1>7, ShapeBounds
  <2>4. value[i] \in Char /\ value[i] # Marker
    <3>1. i \in DOMAIN value
      BY <2>3, LenProperties
    <3>2. value[i] # Marker
      BY <3>1, Zenon DEF Unmarked
    <3>3. value[i] \in Char
      BY <2>3
    <3> QED BY <3>2, <3>3
  <2>5. <<value[i]>> \in Text
    BY <2>4, Single
  <2>6. <<value[i]>> = Replaced(<<value[i]>>, Marker, env[v])
    BY <1>4, <2>4, ReplacedSingle
  <2>7. Agree(f[i + 1], g[i + 1], env[v])
    BY <2>3
  <2> QED BY <1>4, <2>1, <2>2, <2>5, <2>6, <2>7, AgreePrepend
<1>8. CASE Double(value, i)
  <2>1. f[i] = Prepend(<<"$">>, f[i + 2])
    BY <1>8, ScanShape, Zenon
  <2>2. g[i] = Prepend(<<"$">>, g[i + 2])
    BY <1>8, ScanShape, Zenon
  <2>3. i + 2 \in (i + 1)..(n + 1)
    BY <1>1, <1>8, ShapeBounds
  <2>4. "$" \in Char /\ "$" # Marker
    BY CharAssumption DEF Marker
  <2>5. <<"$">> = Replaced(<<"$">>, Marker, env[v])
    BY <1>4, <2>4, ReplacedSingle
  <2>6. Agree(f[i + 2], g[i + 2], env[v])
    BY <2>3
  <2> QED BY <1>4, <2>1, <2>2, <2>5, <2>6, Dollar, AgreePrepend
<1>9. ASSUME NEW end \in (i + 2)..n, Reference(value, i, end) PROVE Agree(f[i], g[i], env[v])
  <2>1. f[i] = Referred(value, env, f, i, end)
    BY <1>9, ScanReference
  <2>2. g[i] = Referred(value, marked, g, i, end)
    BY <1>9, ScanReference
  <2>3. end + 1 \in (i + 1)..(n + 1) /\ end \in 0..n
    BY <1>1
  <2>4. Agree(f[end + 1], g[end + 1], env[v])
    BY <2>3
  <2> DEFINE name == SubSeq(value, i + 2, end - 1)
  <2>5. CASE ~ValidEnvironmentName(name)
    <3>1. f[i] = Prepend(SubSeq(value, i, end), f[end + 1])
      BY <2>1, <2>5, Zenon DEF Referred
    <3>2. g[i] = Prepend(SubSeq(value, i, end), g[end + 1])
      BY <2>2, <2>5, Zenon DEF Referred
    <3>3. /\ SubSeq(value, i, end) \in Text
          /\ SubSeq(value, i, end) = Replaced(SubSeq(value, i, end), Marker, env[v])
      BY <1>4, <2>3, ReplacedPart
    <3> QED BY <1>4, <2>4, <3>1, <3>2, <3>3, AgreePrepend
  <2>6. CASE ValidEnvironmentName(name) /\ name \notin DOMAIN env
    <3>1. f[i] = Missing
      BY <2>1, <2>6, Zenon DEF Referred
    <3>2. g[i] = Missing
      BY <1>2, <2>2, <2>6, Zenon DEF Referred
    <3> QED BY <1>4, <3>1, <3>2, AgreeMissing
  <2>7. CASE ValidEnvironmentName(name) /\ name \in DOMAIN env
    <3>1. f[i] = Prepend(env[name], f[end + 1])
      BY <2>1, <2>7, Zenon DEF Referred
    <3>2. g[i] = Prepend(marked[name], g[end + 1])
      BY <1>2, <2>2, <2>7, Zenon DEF Referred
    <3>3. marked[name] \in Text /\ env[name] = Replaced(marked[name], Marker, env[v])
      <4>1. CASE name = v
        <5>1. marked[name] = <<Marker>>
          BY <1>3, <4>1, Zenon
        <5>2. Marker \in Char
          BY CharAssumption DEF Marker
        <5>3. Replaced(<<Marker>>, Marker, env[v]) = env[v]
          BY <1>4, <5>2, ReplacedSingle
        <5>4. <<Marker>> \in Text
          BY <5>2, Single
        <5> QED BY <4>1, <5>1, <5>3, <5>4, Zenon
      <4>2. CASE name # v
        <5>1. marked[name] = env[name] /\ Unmarked(env[name]) /\ env[name] \in Text
          BY <1>3, <1>4, <2>7, <4>2, Zenon
        <5>2. \A k \in 1..Len(env[name]) : env[name][k] # Marker
          BY <5>1, LenProperties DEF Unmarked
        <5>3. Replaced(env[name], Marker, env[v]) = env[name]
          BY <1>4, <5>1, <5>2, ReplacedNowhere
        <5> QED BY <5>1, <5>3, Zenon
      <4> QED BY <4>1, <4>2
    <3>4. env[name] \in Text
      BY <1>4, <2>7, Zenon
    <3> QED
      <4>1. PICK p, q : p = env[name] /\ q = marked[name]
        OBVIOUS
      <4> QED BY <1>4, <2>4, <3>1, <3>2, <3>3, <3>4, <4>1, AgreePrepend
  <2> QED BY <2>5, <2>6, <2>7
<1> QED BY <1>5, <1>6, <1>7, <1>8, <1>9, ShapeOf

\* expandValue inserts what a variable holds verbatim and does not scan it again:
\* with a marker for the variable it finds the same references, and its result is
\* the one with the marker, the marker replaced afterwards by what v holds.
THEOREM Verbatim ==
    ASSUME NEW value \in Text, Unmarked(value), NEW env, IsEnvironment(env),
           NEW v \in DOMAIN env, \A u \in DOMAIN env \ {v} : Unmarked(env[u])
    PROVE  Agree(Expand(value, env), Expand(value, [env EXCEPT ![v] = <<Marker>>]), env[v])
<1> DEFINE n == Len(value)
<1>1. n \in Nat
  OBVIOUS
<1>2. PICK marked : marked = [env EXCEPT ![v] = <<Marker>>]
  OBVIOUS
<1>3. PICK f : Scans(value, env, 1, f) /\ Expand(value, env) = f[1]
  BY ScanOfExpand
<1>4. PICK g : Scans(value, marked, 1, g) /\ Expand(value, marked) = g[1]
  BY ScanOfExpand
<1> DEFINE P == {i \in 1..(n + 1) : Agree(f[i], g[i], env[v])}
<1>5. ASSUME NEW i \in 1..(n + 1), \A j \in (i + 1)..(n + 1) : j \in P PROVE i \in P
  <2>1. \A j \in (i + 1)..(n + 1) : Agree(f[j], g[j], env[v])
    BY <1>5
  <2>2. Agree(f[i], g[i], env[v])
    BY <1>2, <1>3, <1>4, <2>1, VerbatimAt
  <2> QED BY <2>2
<1>6. 1..(n + 1) \subseteq P
  <2>1. n + 1 \in Nat
    BY <1>1
  <2> HIDE DEF P, n
  <2> QED BY <2>1, <1>5, Downward
<1>7. 1 \in 1..(n + 1)
  BY <1>1
<1>8. Agree(f[1], g[1], env[v])
  BY <1>6, <1>7
<1> QED BY <1>2, <1>3, <1>4, <1>8, Zenon

-----------------------------------------------------------------------------
\* The texts that build up a doubled text are its prefixes.
LEMMA Prefixes ==
    ASSUME NEW n \in Nat, NEW R \in [0..n -> Text],
           \A k \in 1..n : \E t \in Text : R[k] = R[k - 1] \o t
    PROVE  \A k \in 0..n : /\ Len(R[k]) \in 0..Len(R[n])
                           /\ \A p \in 1..Len(R[k]) : R[k][p] = R[n][p]
<1> DEFINE Good(k) == Len(R[k]) \in 0..Len(R[n]) /\ \A p \in 1..Len(R[k]) : R[k][p] = R[n][p]
           P == {m \in 0..n : Good(n - m)}
<1>1. 0 \in P
  <2>1. R[n] \in Text /\ n - 0 = n
    OBVIOUS
  <2>2. Len(R[n]) \in 0..Len(R[n])
    BY <2>1
  <2> QED BY <2>1, <2>2
<1>2. ASSUME NEW m \in 1..n, m - 1 \in P PROVE m \in P
  <2>1. PICK k \in 1..n : k = n - (m - 1)
    OBVIOUS
  <2>2. k - 1 = n - m /\ m \in 0..n /\ R[k - 1] \in Text /\ R[k] \in Text /\ R[n] \in Text
    BY <2>1
  <2>3. PICK t \in Text : R[k] = R[k - 1] \o t
    OBVIOUS
  <2>4. Good(k)
    BY <1>2, <2>1, Zenon
  <2>5. Len(R[k]) = Len(R[k - 1]) + Len(t) /\ \A p \in 1..Len(R[k - 1]) : R[k][p] = R[k - 1][p]
    BY <2>2, <2>3, ConcatProperties
  <2>6. Len(R[k - 1]) \in 0..Len(R[n]) /\ \A p \in 1..Len(R[k - 1]) : p \in 1..Len(R[k])
    BY <2>2, <2>4, <2>5
  <2>7. Good(k - 1)
    BY <2>4, <2>5, <2>6, Zenon
  <2> QED BY <2>2, <2>7, Zenon
<1>3. 0..n \subseteq P
  <2> HIDE DEF P
  <2> QED BY <1>1, <1>2, Upward
<1>4. ASSUME NEW k \in 0..n PROVE Good(k)
  <2>1. n - k \in 0..n /\ n - (n - k) = k
    OBVIOUS
  <2>2. n - k \in P
    BY <1>3, <2>1
  <2> QED BY <2>1, <2>2
<1> QED BY <1>4

\* The loop undoes the doubling of one character.
LEMMA DoublingAt ==
    ASSUME NEW text \in Text, NEW env, NEW R \in [0..Len(text) -> Text],
           \A k \in 1..Len(text) : R[k] = R[k - 1] \o Piece(text, "$", <<"$", "$">>, k),
           NEW f, Scans(R[Len(text)], env, 1, f), NEW k \in 1..Len(text)
    PROVE  f[Len(R[k - 1]) + 1] = Prepend(<<text[k]>>, f[Len(R[k]) + 1])
<1> DEFINE n == Len(text)
<1>1. n \in Nat /\ k \in 0..n /\ k - 1 \in 0..n /\ n \in 0..n
  OBVIOUS
<1>2. PICK d \in Text : d = R[n]
  BY <1>1
<1>3. Scans(d, env, 1, f)
  BY <1>2, Zenon
<1>4. PICK b \in Text : b = R[k - 1]
  BY <1>1
<1>5. PICK e \in Text : e = R[k]
  BY <1>1
<1>6. /\ <<"$", "$">> \in Text /\ Len(<<"$", "$">>) = 2
      /\ <<"$", "$">>[1] = "$" /\ <<"$", "$">>[2] = "$"
  BY CharAssumption
<1>7. text[k] \in Char
  OBVIOUS
<1>8. \A j \in 1..n : Piece(text, "$", <<"$", "$">>, j) \in Text
  BY <1>6 DEF Piece
<1>9. Len(e) \in 0..Len(d) /\ \A p \in 1..Len(e) : e[p] = d[p]
  <2>1. \A j \in 1..n : \E t \in Text : R[j] = R[j - 1] \o t
    BY <1>8
  <2> HIDE DEF n
  <2> QED BY <1>1, <1>2, <1>5, <2>1, Prefixes DEF n
<1>10. CASE text[k] = "$"
  <2>1. e = b \o <<"$", "$">>
    BY <1>4, <1>5, <1>10, Zenon DEF Piece
  <2>2. Len(e) = Len(b) + 2
    BY <2>1, <1>6, ConcatProperties
  <2>3. e[Len(b) + 1] = "$" /\ e[Len(b) + 2] = "$"
    BY <2>1, <1>6, ConcatProperties
  <2>4. PICK q : q = Len(b) + 1
    OBVIOUS
  <2>5. /\ q \in 1..(Len(d) + 1) /\ q < Len(d)
        /\ q \in 1..Len(e) /\ q + 1 \in 1..Len(e)
        /\ q + 1 = Len(b) + 2 /\ q + 2 = Len(e) + 1
    BY <2>2, <2>4, <1>9
  <2>6. d[q] = "$" /\ d[q + 1] = "$"
    BY <1>9, <2>3, <2>4, <2>5, Zenon
  <2>7. Double(d, q)
    BY <2>5, <2>6, Zenon DEF Double
  <2>8. f[q] = Prepend(<<"$">>, f[q + 2])
    BY <1>3, <2>5, <2>7, ScanDouble
  <2> QED BY <1>4, <1>5, <1>10, <2>4, <2>5, <2>8, Zenon
<1>11. CASE text[k] # "$"
  <2>1. e = b \o <<text[k]>>
    BY <1>4, <1>5, <1>11, Zenon DEF Piece
  <2>2. PICK c \in Char : c = text[k]
    BY <1>7
  <2>3. Len(e) = Len(b) + 1
    BY <2>2, <2>1, ConcatProperties, Single
  <2>4. e[Len(b) + 1] = text[k]
    BY <2>2, <2>1, ConcatProperties, Single
  <2>5. PICK q : q = Len(b) + 1
    OBVIOUS
  <2>6. q \in 1..(Len(d) + 1) /\ q <= Len(d) /\ q \in 1..Len(e) /\ q + 1 = Len(e) + 1
    BY <2>3, <2>5, <1>9
  <2>7. d[q] = text[k]
    BY <1>9, <2>4, <2>5, <2>6, Zenon
  <2>8. Bare(d, q)
    BY <1>11, <2>6, <2>7, Zenon DEF Bare
  <2>9. f[q] = Prepend(<<d[q]>>, f[q + 1])
    BY <1>3, <2>6, <2>8, ScanShape
  <2> QED BY <1>4, <1>5, <2>5, <2>6, <2>7, <2>9, Zenon
<1> QED BY <1>10, <1>11

\* Every text can be written: expandValue turns it back from the text with every
\* dollar doubled, in every environment.
THEOREM DoublingStands ==
    ASSUME NEW text \in Text, NEW env
    PROVE  Expand(Doubled(text), env) = Expanded(text)
<1> DEFINE n == Len(text)
<1>1. n \in Nat /\ n \in 0..n
  OBVIOUS
<1>2. <<"$", "$">> \in Text
  BY CharAssumption
<1>3. PICK R \in [0..n -> Text] :
         /\ Doubled(text) = R[n] /\ R[0] = << >>
         /\ \A k \in 1..n : R[k] = R[k - 1] \o Piece(text, "$", <<"$", "$">>, k)
  BY <1>2, ReplacedBy DEF Doubled
<1>4. R[n] \in Text
  BY <1>1
<1>5. PICK f : Scans(R[n], env, 1, f) /\ Expand(R[n], env) = f[1]
  BY <1>4, ScanOfExpand
<1> DEFINE P == {i \in 1..(n + 1) : f[Len(R[i - 1]) + 1] = Expanded(SubSeq(text, i, n))}
<1>6. ASSUME NEW i \in 1..(n + 1), \A j \in (i + 1)..(n + 1) : j \in P
      PROVE  f[Len(R[i - 1]) + 1] = Expanded(SubSeq(text, i, n))
  <2>1. CASE i = n + 1
    <3>1. SubSeq(text, i, n) = << >>
      BY <1>1, <2>1, SubSeqEmpty
    <3>2. i - 1 = n
      BY <1>1, <2>1
    <3>3. PICK d \in Text : d = R[n] /\ Scans(d, env, 1, f)
      BY <1>4, <1>5
    <3>4. f[Len(d) + 1] = Expanded(<< >>)
      BY <3>3, ScanAtEnd
    <3> QED BY <3>1, <3>2, <3>4, <3>3, Zenon
  <2>2. CASE i # n + 1
    <3>1. i \in 1..n /\ i + 1 \in (i + 1)..(n + 1) /\ n \in i..n /\ (i + 1) - 1 = i
      BY <1>1, <2>2
    <3>2. SubSeq(text, i, n) = <<text[i]>> \o SubSeq(text, i + 1, n)
      BY <3>1, SubSeqRecursiveFirst
    <3>3. f[Len(R[i]) + 1] = Expanded(SubSeq(text, i + 1, n))
      BY <1>6, <3>1
    <3>4. f[Len(R[i - 1]) + 1] = Prepend(<<text[i]>>, f[Len(R[i]) + 1])
      <4>1. \A k \in 1..n : R[k] = R[k - 1] \o Piece(text, "$", <<"$", "$">>, k)
        BY <1>3
      <4>2. Scans(R[n], env, 1, f)
        BY <1>5
      <4> HIDE DEF P
      <4> QED BY <3>1, <4>1, <4>2, DoublingAt, Zenon
    <3>5. f[Len(R[i - 1]) + 1] = Prepend(<<text[i]>>, Expanded(SubSeq(text, i + 1, n)))
      BY <3>3, <3>4, Zenon
    <3> QED BY <3>2, <3>5 DEF Prepend, Expanded
  <2> QED BY <2>1, <2>2
<1>7. 1..(n + 1) \subseteq P
  <2>1. n + 1 \in Nat
    BY <1>1
  <2>2. ASSUME NEW i \in 1..(n + 1), \A j \in (i + 1)..(n + 1) : j \in P PROVE i \in P
    BY <1>6, <2>2
  <2> HIDE DEF P, n
  <2> QED BY <2>1, <2>2, Downward
<1>8. 1 \in 1..(n + 1) /\ 1 - 1 = 0 /\ Len(<< >>) + 1 = 1
  BY <1>1
<1>9. f[1] = Expanded(SubSeq(text, 1, n))
  BY <1>3, <1>7, <1>8
<1>10. SubSeq(text, 1, n) = text
  BY SubSeqFull
<1> QED BY <1>3, <1>5, <1>9, <1>10, Zenon
====
