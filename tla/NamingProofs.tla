---------------------------- MODULE NamingProofs ----------------------------
(***************************************************************************)
(* Release names: for texts of any length over any alphabet, the checks of *)
(* ArtifactName accept exactly the grammars of the naming contract, and a  *)
(* name can be taken apart again.                                          *)
(***************************************************************************)
EXTENDS Naming, FiniteSetTheorems, SequenceTheorems, TLAPS

\* Every leaf that names no prover: SMT, then Zenon.
USE SMTT(30), ZenonT(30)

\* The characters of a text.  The second set is part of STRING, which the
\* provers do not know.
Marks    == {"diskforge", "_", "."}
Alphabet == STRING \union Marks

\* The underscore has a name of its own: no SMT backend takes the literal.
underscore == "_"

----------------------------------------------------------------------------
(* A set with one more element (ValidSemverTag counts components).         *)
LEMMA OneMore ==
  ASSUME NEW S, NEW a, NEW n \in Nat, IsFiniteSet(S), Cardinality(S) = n, a \notin S
  PROVE  IsFiniteSet({a} \union S) /\ Cardinality({a} \union S) = n + 1
<1>1. {a} \union S = S \union {a}
  OBVIOUS
<1> QED
  BY <1>1, FS_AddElement
LEMMA OneLess ==
  ASSUME NEW S, NEW a \in S, NEW n \in Nat, IsFiniteSet(S), Cardinality(S) = n + 1
  PROVE  IsFiniteSet(S \ {a}) /\ Cardinality(S \ {a}) = n
<1>1. IsFiniteSet(S \ {a}) /\ Cardinality(S \ {a}) = Cardinality(S) - 1
  BY FS_RemoveElement, Zenon
<1> QED
  BY <1>1

(* Sets of a few elements (ValidSemverTag, ArtifactName).                  *)
LEMMA One == ASSUME NEW a PROVE IsFiniteSet({a}) /\ Cardinality({a}) = 1
BY FS_Singleton, Zenon
LEMMA Two ==
  ASSUME NEW a, NEW b, a # b
  PROVE  IsFiniteSet({a, b}) /\ Cardinality({a, b}) = 2
<1>1. IsFiniteSet({b}) /\ Cardinality({b}) = 1
  BY One, Zenon
<1>2. {a, b} = {a} \union {b} /\ a \notin {b}
  BY Zenon
<1>3. 1 \in Nat /\ 1 + 1 = 2
  BY SMT
<1>4. IsFiniteSet({a} \union {b}) /\ Cardinality({a} \union {b}) = 1 + 1
  BY <1>1, <1>2, <1>3, OneMore, Zenon
<1> QED
  BY <1>2, <1>3, <1>4, Zenon
LEMMA Three ==
  ASSUME NEW a, NEW b, NEW c, a \notin {b, c}, b # c
  PROVE  IsFiniteSet({a, b, c}) /\ Cardinality({a, b, c}) = 3
<1>1. IsFiniteSet({b, c}) /\ Cardinality({b, c}) = 2
  BY Two, Zenon
<1>2. {a, b, c} = {a} \union {b, c} /\ a \notin {b, c}
  BY Zenon
<1>3. 2 \in Nat /\ 2 + 1 = 3
  BY SMT
<1>4. IsFiniteSet({a} \union {b, c}) /\ Cardinality({a} \union {b, c}) = 2 + 1
  BY <1>1, <1>2, <1>3, OneMore, Zenon
<1> QED
  BY <1>2, <1>3, <1>4, Zenon
LEMMA Four ==
  ASSUME NEW a, NEW b, NEW c, NEW d, a \notin {b, c, d}, b \notin {c, d}, c # d
  PROVE  IsFiniteSet({a, b, c, d}) /\ Cardinality({a, b, c, d}) = 4
<1>1. IsFiniteSet({b, c, d}) /\ Cardinality({b, c, d}) = 3
  BY Three, Zenon
<1>2. {a, b, c, d} = {a} \union {b, c, d} /\ a \notin {b, c, d}
  BY Zenon
<1>3. 3 \in Nat /\ 3 + 1 = 4
  BY SMT
<1>4. IsFiniteSet({a} \union {b, c, d}) /\ Cardinality({a} \union {b, c, d}) = 3 + 1
  BY <1>1, <1>2, <1>3, OneMore, Zenon
<1> QED
  BY <1>2, <1>3, <1>4, Zenon
LEMMA Five ==
  ASSUME NEW a, NEW b, NEW c, NEW d, NEW e, a \notin {b, c, d, e}, b \notin {c, d, e}, c \notin {d, e}, d # e
  PROVE  IsFiniteSet({a, b, c, d, e}) /\ Cardinality({a, b, c, d, e}) = 5
<1>1. IsFiniteSet({b, c, d, e}) /\ Cardinality({b, c, d, e}) = 4
  BY Four, Zenon
<1>2. {a, b, c, d, e} = {a} \union {b, c, d, e} /\ a \notin {b, c, d, e}
  BY Zenon
<1>3. 4 \in Nat /\ 4 + 1 = 5
  BY SMT
<1>4. IsFiniteSet({a} \union {b, c, d, e}) /\ Cardinality({a} \union {b, c, d, e}) = 4 + 1
  BY <1>1, <1>2, <1>3, OneMore, Zenon
<1> QED
  BY <1>2, <1>3, <1>4, Zenon

----------------------------------------------------------------------------
(* strings.Split.                                                          *)

(* The cuts of a text are finitely many positions (strings.Split, as       *)
(* ValidSemverTag uses it).                                                *)
LEMMA CutsFinite ==
  ASSUME NEW text \in Seq(Alphabet), NEW sep
  PROVE  /\ cuts(text, sep) \subseteq 0 .. Len(text) + 1
         /\ IsFiniteSet(cuts(text, sep)) /\ Cardinality(cuts(text, sep)) \in Nat
<1>1. cuts(text, sep) \subseteq 0 .. Len(text) + 1
  BY DEF cuts
<1>2. IsFiniteSet(0 .. Len(text) + 1)
  BY FS_Interval
<1>3. IsFiniteSet(cuts(text, sep))
  BY <1>1, <1>2, FS_Subset
<1> QED
  BY <1>1, <1>3, FS_CardinalityType

(* The k-th cut is the one with k cuts before it: no two have equally many *)
(* (strings.Split).                                                        *)
LEMMA CutIs ==
  ASSUME NEW text \in Seq(Alphabet), NEW sep, NEW c \in cuts(text, sep),
         NEW k, Cardinality({b \in cuts(text, sep) : b < c}) = k
  PROVE  cut(text, sep, k) = c
<1> DEFINE S == cuts(text, sep)
           below(x) == {b \in S : b < x}
<1>1. S \subseteq Int /\ IsFiniteSet(S)
  BY CutsFinite
<1>2. ASSUME NEW x \in S, NEW y \in S, x < y PROVE Cardinality(below(x)) # Cardinality(below(y))
  <2>1. below(x) \in SUBSET below(y)
    BY <1>1, <1>2
  <2>2. x \in below(y) /\ x \notin below(x)
    BY <1>1, <1>2
  <2>3. IsFiniteSet(below(y))
    BY <1>1, FS_Subset
  <2> QED
    BY <2>1, <2>2, <2>3, FS_Subset
<1>3. ASSUME NEW x \in S, Cardinality(below(x)) = k PROVE x = c
  <2>1. x < c \/ c < x \/ x = c
    BY <1>1
  <2> QED
    BY <1>2, <1>3, <2>1
<1> QED
  BY <1>3 DEF cut

(* A text has one more part than it has separators (strings.Split).        *)
LEMMA PartsCounted ==
  ASSUME NEW text \in Seq(Alphabet), NEW sep
  PROVE  /\ Cardinality(cuts(text, sep)) - 1 \in Nat
         /\ Len(Split(text, sep)) = Cardinality(cuts(text, sep)) - 1
         /\ DOMAIN Split(text, sep) = 1 .. Cardinality(cuts(text, sep)) - 1
<1>1. Len(text) \in Nat /\ 0 # Len(text) + 1
  OBVIOUS
<1>2. {0, Len(text) + 1} \in SUBSET cuts(text, sep)
  BY DEF cuts
<1>3. Cardinality({0, Len(text) + 1}) = 2
  BY <1>1, Two, Zenon
<1>4. Cardinality(cuts(text, sep)) \in Nat /\ 2 <= Cardinality(cuts(text, sep))
  BY <1>2, <1>3, CutsFinite, FS_Subset
<1> HIDE DEF cuts
<1> QED
  BY <1>4 DEF Split

(* Which parts a text with two separators has (strings.Split).             *)
LEMMA SplitInThree ==
  ASSUME NEW text \in Seq(Alphabet), NEW sep, NEW i \in DOMAIN text, NEW j \in DOMAIN text,
         i < j, {k \in DOMAIN text : text[k] = sep} = {i, j}
  PROVE  /\ Len(Split(text, sep)) = 3
         /\ Split(text, sep)[1] = SubSeq(text, 1, i - 1)
         /\ Split(text, sep)[2] = SubSeq(text, i + 1, j - 1)
         /\ Split(text, sep)[3] = SubSeq(text, j + 1, Len(text))
<1> DEFINE n == Len(text) + 1
           S == cuts(text, sep)
<1>1. n \in Nat /\ i \in Nat /\ j \in Nat /\ 0 < i /\ i < j /\ j < n
  OBVIOUS
<1>0. 0 \notin {i, j, n} /\ i \notin {j, n} /\ j # n /\ 0 \notin {i, j} /\ i # j /\ 0 # i
  BY <1>1
<1>2. S = {0, i, j, n}
  BY DEF cuts
<1> HIDE DEF S, n
<1>3. Cardinality(S) = 4
  <2>1. 0 \notin {i, j, n} /\ i \notin {j, n} /\ j # n
    BY <1>0, Zenon
  <2>2. Cardinality({0, i, j, n}) = 4
    BY <2>1, Four, ZenonT(30)
  <2> QED
    BY <1>2, <2>2, Zenon
<1>4. Cardinality({b \in S : b < 0}) = 0
  <2>1. {b \in S : b < 0} = {}
    BY <1>1, <1>2
  <2> QED
    BY <2>1, FS_EmptySet, Zenon
<1>5. Cardinality({b \in S : b < i}) = 1
  <2>1. {b \in S : b < i} = {0}
    BY <1>1, <1>2
  <2> QED
    BY <2>1, One, Zenon
<1>6. Cardinality({b \in S : b < j}) = 2
  <2>1. {b \in S : b < j} = {0, i}
    BY <1>1, <1>2
  <2>2. Cardinality({0, i}) = 2
    BY <1>0, Two, Zenon
  <2> QED
    BY <2>1, <2>2, Zenon
<1>7. Cardinality({b \in S : b < n}) = 3
  <2>1. {b \in S : b < n} = {0, i, j}
    BY <1>1, <1>2
  <2>2. Cardinality({0, i, j}) = 3
    BY <1>0, Three, Zenon
  <2> QED
    BY <2>1, <2>2, Zenon
<1>8. /\ cut(text, sep, 0) = 0 /\ cut(text, sep, 1) = i /\ cut(text, sep, 2) = j
      /\ cut(text, sep, 3) = n
  <2>1. 0 \in S /\ i \in S /\ j \in S /\ n \in S
    BY <1>2, Zenon
  <2>2. \A c \in S : cut(text, sep, Cardinality({b \in S : b < c})) = c
    BY CutIs, Zenon DEF S
  <2> QED
    BY <1>4, <1>5, <1>6, <1>7, <2>1, <2>2, Zenon
<1>9. Split(text, sep) = [k \in 1 .. 3 |-> SubSeq(text, cut(text, sep, k - 1) + 1, cut(text, sep, k) - 1)]
  <2>1. Cardinality(cuts(text, sep)) - 1 = 3
    BY <1>3 DEF S
  <2> QED
    BY <2>1, Zenon DEF Split
<1> DEFINE part(k) == SubSeq(text, cut(text, sep, k - 1) + 1, cut(text, sep, k) - 1)
<1>10. part(1) = SubSeq(text, 1, i - 1) /\ part(2) = SubSeq(text, i + 1, j - 1)
  BY <1>8
<1>11. part(3) = SubSeq(text, j + 1, Len(text))
  <2>1. 3 - 1 = 2 /\ n - 1 = Len(text)
    BY DEF n
  <2> QED
    BY <1>8, <2>1, Zenon
<1> HIDE DEF part
<1>12. Split(text, sep) = [k \in 1 .. 3 |-> part(k)]
  BY <1>9, Zenon DEF part
<1> QED
  BY <1>10, <1>11, <1>12

\* The separators of a text are at these places.
SeparatedAt(text, sep, h, i, j) ==
  /\ h \in DOMAIN text /\ i \in DOMAIN text /\ j \in DOMAIN text /\ h < i /\ i < j
  /\ {k \in DOMAIN text : text[k] = sep} = {h, i, j}

\* Its parts are then these four.
CutInFour(text, sep, h, i, j) ==
  /\ Len(Split(text, sep)) = 4
  /\ Split(text, sep)[2] = SubSeq(text, h + 1, i - 1)
  /\ Split(text, sep)[3] = SubSeq(text, i + 1, j - 1)
  /\ Split(text, sep)[4] = SubSeq(text, j + 1, Len(text))

(* A text with three separators has four parts (ArtifactName's fields).    *)
LEMMA SplitInFour ==
  ASSUME NEW text \in Seq(Alphabet), NEW sep, NEW h, NEW i, NEW j,
         SeparatedAt(text, sep, h, i, j)
  PROVE  CutInFour(text, sep, h, i, j)
<1> DEFINE n == Len(text) + 1
           S == cuts(text, sep)
<1>1. n \in Nat /\ h \in Nat /\ i \in Nat /\ j \in Nat /\ 0 < h /\ h < i /\ i < j /\ j < n
  BY DEF SeparatedAt
<1>0. /\ 0 \notin {h, i, j, n} /\ h \notin {i, j, n} /\ i \notin {j, n} /\ j # n
      /\ 0 \notin {h, i, j} /\ h \notin {i, j} /\ i # j /\ 0 \notin {h, i} /\ h # i /\ 0 # h
  BY <1>1
<1>2. S = {0, h, i, j, n}
  BY DEF cuts, SeparatedAt
<1> HIDE DEF S, n
<1>3. Cardinality(S) = 5
  <2>1. 0 \notin {h, i, j, n} /\ h \notin {i, j, n} /\ i \notin {j, n} /\ j # n
    BY <1>0
  <2>2. Cardinality({0, h, i, j, n}) = 5
    BY <2>1, Five, ZenonT(30)
  <2> QED
    BY <1>2, <2>2
<1>4. Cardinality({b \in S : b < h}) = 1
  <2>1. {b \in S : b < h} = {0}
    BY <1>1, <1>2
  <2> QED
    BY <2>1, One, Zenon
<1>5. Cardinality({b \in S : b < i}) = 2
  <2>1. {b \in S : b < i} = {0, h}
    BY <1>1, <1>2
  <2>2. Cardinality({0, h}) = 2
    BY <1>0, Two, Zenon
  <2> QED
    BY <2>1, <2>2, Zenon
<1>6. Cardinality({b \in S : b < j}) = 3
  <2>1. {b \in S : b < j} = {0, h, i}
    BY <1>1, <1>2
  <2>2. Cardinality({0, h, i}) = 3
    BY <1>0, Three, Zenon
  <2> QED
    BY <2>1, <2>2, Zenon
<1>7. Cardinality({b \in S : b < n}) = 4
  <2>1. {b \in S : b < n} = {0, h, i, j}
    BY <1>1, <1>2
  <2>2. 0 \notin {h, i, j} /\ h \notin {i, j} /\ i # j
    BY <1>0
  <2>3. IsFiniteSet({0, h, i, j}) /\ Cardinality({0, h, i, j}) = 4
    BY <2>2, Four, ZenonT(60)
  <2> QED
    BY <2>1, <2>3, Zenon
<1>8. /\ cut(text, sep, 1) = h /\ cut(text, sep, 2) = i /\ cut(text, sep, 3) = j
      /\ cut(text, sep, 4) = n
  <2>1. h \in S /\ i \in S /\ j \in S /\ n \in S
    BY <1>2, Zenon
  <2>2. \A c \in S : cut(text, sep, Cardinality({b \in S : b < c})) = c
    BY CutIs, Zenon DEF S
  <2> QED
    BY <1>4, <1>5, <1>6, <1>7, <2>1, <2>2, Zenon
<1>9. Split(text, sep) = [k \in 1 .. 4 |-> SubSeq(text, cut(text, sep, k - 1) + 1, cut(text, sep, k) - 1)]
  <2>1. Cardinality(cuts(text, sep)) - 1 = 4
    BY <1>3 DEF S
  <2> QED
    BY <2>1, Zenon DEF Split
<1> DEFINE part(k) == SubSeq(text, cut(text, sep, k - 1) + 1, cut(text, sep, k) - 1)
<1>10. part(2) = SubSeq(text, h + 1, i - 1) /\ part(3) = SubSeq(text, i + 1, j - 1)
  <2>1. 2 - 1 = 1 /\ 3 - 1 = 2
    OBVIOUS
  <2> QED
    BY <1>8, <2>1, Zenon
<1>11. part(4) = SubSeq(text, j + 1, Len(text))
  <2>1. 4 - 1 = 3 /\ n - 1 = Len(text)
    BY DEF n
  <2> QED
    BY <1>8, <2>1, Zenon
<1> HIDE DEF part
<1>12. Split(text, sep) = [k \in 1 .. 4 |-> part(k)]
  BY <1>9, Zenon DEF part
<1> QED
  BY <1>10, <1>11, <1>12 DEF CutInFour

(* A text has three parts only when it has two separators (strings.Split). *)
LEMMA ThreeParts ==
  ASSUME NEW text \in Seq(Alphabet), NEW sep, Len(Split(text, sep)) = 3
  PROVE  \E i, j \in DOMAIN text : i < j /\ {k \in DOMAIN text : text[k] = sep} = {i, j}
<1> DEFINE n == Len(text) + 1
           S == {k \in DOMAIN text : text[k] = sep}
<1>0. 1 \in Nat /\ 2 \in Nat /\ 3 \in Nat /\ 2 # 0
  OBVIOUS
<1>1. n \in Nat /\ 0 # n /\ 0 \notin S /\ n \notin S /\ S \subseteq Nat
  OBVIOUS
<1>2. IsFiniteSet(cuts(text, sep)) /\ Cardinality(cuts(text, sep)) = 3 + 1
  <2>1. IsFiniteSet(cuts(text, sep)) /\ Cardinality(cuts(text, sep)) \in Nat
    BY CutsFinite, Zenon
  <2>2. Len(Split(text, sep)) = Cardinality(cuts(text, sep)) - 1
    BY PartsCounted, Zenon
  <2> QED
    BY <2>1, <2>2
<1>3. S = (cuts(text, sep) \ {0}) \ {n} /\ 0 \in cuts(text, sep) /\ n \in cuts(text, sep) \ {0}
  BY <1>1 DEF cuts
<1>4. IsFiniteSet(cuts(text, sep) \ {0}) /\ Cardinality(cuts(text, sep) \ {0}) = 3
  BY <1>0, <1>2, <1>3, OneLess, Zenon
<1> HIDE DEF S, n
<1>5. IsFiniteSet(S) /\ Cardinality(S) = 1 + 1
  <2>1. 3 = 2 + 1 /\ 2 = 1 + 1
    OBVIOUS
  <2>2. IsFiniteSet(S) /\ Cardinality(S) = 2
    BY <1>0, <1>3, <1>4, <2>1, OneLess, Zenon
  <2> QED
    BY <2>1, <2>2, Zenon
<1>6. PICK x : x \in S
  <2>1. Cardinality(S) # 0
    BY <1>5
  <2> QED
    BY <2>1, FS_EmptySet, Zenon
<1>7. IsFiniteSet(S \ {x}) /\ Cardinality(S \ {x}) = 1
  BY <1>0, <1>5, <1>6, OneLess, Zenon
<1>8. PICK y : S \ {x} = {y}
  BY <1>7, FS_Singleton, Zenon
<1>9. S = {x, y} /\ x # y /\ x \in DOMAIN text /\ y \in DOMAIN text
  <2>1. S = {x, y} /\ x # y
    BY <1>6, <1>8, Zenon
  <2>2. x \in S /\ y \in S
    BY <2>1, Zenon
  <2> QED
    BY <2>1, <2>2, Zenon DEF S
<1>10. (x < y \/ y < x) /\ {x, y} = {y, x}
  BY <1>1, <1>9
<1> QED
  BY <1>9, <1>10 DEF S

----------------------------------------------------------------------------
(* The checks accept the grammars.                                         *)

(* A part of a text is a numeric identifier when the text has a numeral    *)
(* there (validNumericIdentifier).                                         *)
LEMMA PartIsNumeral ==
  ASSUME NEW text \in Seq(Alphabet), NEW a \in Int, NEW b \in Int, 1 <= a, b <= Len(text)
  PROVE  validNumericIdentifier(SubSeq(text, a, b)) <=> Numeral(text, a, b)
<1> DEFINE part == SubSeq(text, a, b)
<1>1. \A k \in a .. b : text[k] \in Alphabet
  OBVIOUS
<1>2. /\ part \in Seq(Alphabet) /\ Len(part) = IF a <= b THEN b - a + 1 ELSE 0
      /\ \A k \in 1 .. b - a + 1 : part[k] = text[a + k - 1]
  BY <1>1, SubSeqProperties
<1> HIDE DEF part
<1>3. ASSUME a > b PROVE ~validNumericIdentifier(part) /\ ~Numeral(text, a, b)
  BY <1>2, <1>3 DEF validNumericIdentifier, Numeral
<1>4. ASSUME a <= b PROVE validNumericIdentifier(part) <=> Numeral(text, a, b)
  <2>1. Len(part) = b - a + 1 /\ DOMAIN part = 1 .. b - a + 1 /\ part # <<>> /\ part[1] = text[a]
    BY <1>2, <1>4
  <2>2. (\A k \in 1 .. b - a + 1 : part[k] \in Digit) <=> (\A k \in a .. b : text[k] \in Digit)
    <3>1. ASSUME \A k \in 1 .. b - a + 1 : part[k] \in Digit, NEW k \in a .. b PROVE text[k] \in Digit
      <4>1. k - a + 1 \in 1 .. b - a + 1 /\ a + (k - a + 1) - 1 = k
        OBVIOUS
      <4>2. part[k - a + 1] = text[a + (k - a + 1) - 1]
        BY <1>2, <4>1
      <4> QED
        BY <3>1, <4>1, <4>2
    <3>2. ASSUME \A k \in a .. b : text[k] \in Digit, NEW k \in 1 .. b - a + 1 PROVE part[k] \in Digit
      <4>1. a + k - 1 \in a .. b
        OBVIOUS
      <4>2. part[k] = text[a + k - 1]
        BY <1>2
      <4> QED
        BY <3>2, <4>1, <4>2
    <3> QED
      BY <3>1, <3>2
  <2>3. Len(part) > 1 <=> a < b
    BY <2>1
  <2> QED
    BY <1>4, <2>1, <2>2, <2>3 DEF validNumericIdentifier, Numeral
<1> QED
  BY <1>3, <1>4 DEF part

(* Without its first character a text has its numerals one place earlier   *)
(* (ValidSemverTag drops the v).                                           *)
LEMMA NumeralMoves ==
  ASSUME NEW text \in Seq(Alphabet), NEW rest \in Seq(Alphabet), Len(rest) = Len(text) - 1,
         \A k \in 1 .. Len(rest) : rest[k] = text[k + 1],
         NEW a \in Int, NEW b \in Int, 1 <= a, b <= Len(rest)
  PROVE  Numeral(rest, a, b) <=> Numeral(text, a + 1, b + 1)
<1>1. (\A k \in a .. b : rest[k] \in Digit) <=> (\A k \in a + 1 .. b + 1 : text[k] \in Digit)
  <2>1. ASSUME \A k \in a .. b : rest[k] \in Digit, NEW k \in a + 1 .. b + 1 PROVE text[k] \in Digit
    <3>1. k - 1 \in a .. b /\ k - 1 \in 1 .. Len(rest) /\ (k - 1) + 1 = k
      OBVIOUS
    <3> QED
      BY <2>1, <3>1
  <2>2. ASSUME \A k \in a + 1 .. b + 1 : text[k] \in Digit, NEW k \in a .. b PROVE rest[k] \in Digit
    <3>1. k + 1 \in a + 1 .. b + 1 /\ k \in 1 .. Len(rest)
      OBVIOUS
    <3> QED
      BY <2>2, <3>1
  <2> QED
    BY <2>1, <2>2
<1>2. a <= b => rest[a] = text[a + 1]
  OBVIOUS
<1> QED
  BY <1>1, <1>2 DEF Numeral

(* What is split at two periods after the v (ValidSemverTag).              *)
LEMMA TagParts ==
  ASSUME NEW text \in Seq(Alphabet), NEW rest \in Seq(Alphabet), Len(rest) = Len(text) - 1,
         \A k \in 1 .. Len(rest) : rest[k] = text[k + 1],
         NEW i \in DOMAIN rest, NEW j \in DOMAIN rest, i < j,
         {k \in DOMAIN rest : rest[k] = "."} = {i, j}
  PROVE  /\ Len(Split(rest, ".")) = 3
         /\ validNumericIdentifier(Split(rest, ".")[1]) <=> Numeral(text, 2, i)
         /\ validNumericIdentifier(Split(rest, ".")[2]) <=> Numeral(text, i + 2, j)
         /\ validNumericIdentifier(Split(rest, ".")[3]) <=> Numeral(text, j + 2, Len(text))
<1>1. /\ Len(Split(rest, ".")) = 3
      /\ Split(rest, ".")[1] = SubSeq(rest, 1, i - 1)
      /\ Split(rest, ".")[2] = SubSeq(rest, i + 1, j - 1)
      /\ Split(rest, ".")[3] = SubSeq(rest, j + 1, Len(rest))
  BY SplitInThree
<1>2. ASSUME NEW a \in Int, NEW b \in Int, 1 <= a, b <= Len(rest)
      PROVE  validNumericIdentifier(SubSeq(rest, a, b)) <=> Numeral(text, a + 1, b + 1)
  <2>1. validNumericIdentifier(SubSeq(rest, a, b)) <=> Numeral(rest, a, b)
    BY <1>2, PartIsNumeral, Zenon
  <2>2. Numeral(rest, a, b) <=> Numeral(text, a + 1, b + 1)
    BY <1>2, NumeralMoves, Zenon
  <2> QED
    BY <2>1, <2>2, Zenon
<1>3. /\ 1 \in Int /\ i - 1 \in Int /\ 1 <= 1 /\ i - 1 <= Len(rest) /\ 1 + 1 = 2 /\ (i - 1) + 1 = i
      /\ i + 1 \in Int /\ j - 1 \in Int /\ 1 <= i + 1 /\ j - 1 <= Len(rest)
      /\ (i + 1) + 1 = i + 2 /\ (j - 1) + 1 = j
      /\ j + 1 \in Int /\ Len(rest) \in Int /\ 1 <= j + 1 /\ Len(rest) <= Len(rest)
      /\ (j + 1) + 1 = j + 2 /\ Len(rest) + 1 = Len(text)
  OBVIOUS
<1>4. validNumericIdentifier(SubSeq(rest, 1, i - 1)) <=> Numeral(text, 2, i)
  BY <1>2, <1>3, Zenon
<1>5. validNumericIdentifier(SubSeq(rest, i + 1, j - 1)) <=> Numeral(text, i + 2, j)
  BY <1>2, <1>3, Zenon
<1>6. validNumericIdentifier(SubSeq(rest, j + 1, Len(rest))) <=> Numeral(text, j + 2, Len(text))
  BY <1>2, <1>3, Zenon
<1> QED
  BY <1>1, <1>4, <1>5, <1>6, Zenon

(* The tags that ValidSemverTag accepts are the stable tags.               *)
LEMMA TagExact == ASSUME NEW text \in Seq(Alphabet) PROVE ValidSemverTag(text) <=> StableTag(text)
<1> DEFINE rest == Tail(text)
<1>1. ASSUME text # <<>>
      PROVE  /\ rest \in Seq(Alphabet) /\ Len(rest) = Len(text) - 1
             /\ \A k \in 1 .. Len(rest) : rest[k] = text[k + 1]
  BY <1>1, HeadTailProperties
<1>3. ASSUME ValidSemverTag(text) PROVE StableTag(text)
  <2>1. /\ text # <<>> /\ text[1] = "v" /\ Len(Split(rest, ".")) = 3
        /\ \A k \in 1 .. 3 : validNumericIdentifier(Split(rest, ".")[k])
    BY <1>3 DEF ValidSemverTag
  <2> HIDE DEF rest
  <2>2. PICK i, j \in DOMAIN rest : i < j /\ {k \in DOMAIN rest : rest[k] = "."} = {i, j}
    BY <1>1, <2>1, ThreeParts
  <2>3. Numeral(text, 2, i) /\ Numeral(text, i + 2, j) /\ Numeral(text, j + 2, Len(text))
    <3>1. 1 \in 1 .. 3 /\ 2 \in 1 .. 3 /\ 3 \in 1 .. 3
      OBVIOUS
    <3> QED
      BY <1>1, <2>1, <2>2, <3>1, TagParts
  <2>4. rest[i] = "." /\ rest[j] = "."
    BY <2>2, Zenon
  <2>5. /\ i + 1 \in DOMAIN text /\ j + 1 \in DOMAIN text /\ i + 1 < j + 1
        /\ text[i + 1] = "." /\ text[j + 1] = "."
        /\ (i + 1) - 1 = i /\ (i + 1) + 1 = i + 2 /\ (j + 1) - 1 = j /\ (j + 1) + 1 = j + 2
    <3>1. /\ rest \in Seq(Alphabet) /\ Len(rest) = Len(text) - 1 /\ DOMAIN rest = 1 .. Len(rest)
          /\ \A k \in 1 .. Len(rest) : rest[k] = text[k + 1]
      BY <1>1, <2>1
    <3>2. i \in 1 .. Len(rest) /\ j \in 1 .. Len(rest) /\ i < j
      BY <2>2, <3>1
    <3>3. text[i + 1] = "." /\ text[j + 1] = "."
      BY <2>4, <3>1, <3>2
    <3> QED
      BY <3>1, <3>2, <3>3
  <2> QED
    BY <2>1, <2>3, <2>5, Zenon DEF StableTag
<1>4. ASSUME StableTag(text) PROVE ValidSemverTag(text)
  <2>1. PICK i, j \in DOMAIN text :
          /\ i < j /\ text[1] = "v" /\ text[i] = "." /\ text[j] = "."
          /\ Numeral(text, 2, i - 1) /\ Numeral(text, i + 1, j - 1) /\ Numeral(text, j + 1, Len(text))
    BY <1>4, Zenon DEF StableTag
  <2>2. 2 <= i - 1 /\ i + 1 <= j - 1 /\ j + 1 <= Len(text)
    BY <2>1 DEF Numeral
  <2>3. Len(text) >= 6 /\ text # <<>>
    BY <2>2
  <2>4. /\ rest \in Seq(Alphabet) /\ Len(rest) = Len(text) - 1 /\ DOMAIN rest = 1 .. Len(rest)
        /\ \A k \in 1 .. Len(rest) : rest[k] = text[k + 1]
    BY <1>1, <2>3
  <2> HIDE DEF rest
  <2>5. \A k \in DOMAIN text : k \notin {1, i, j} => text[k] \in Digit
    <3>1. /\ \A k \in 2 .. i - 1 : text[k] \in Digit
          /\ \A k \in i + 1 .. j - 1 : text[k] \in Digit
          /\ \A k \in j + 1 .. Len(text) : text[k] \in Digit
      BY <2>1, Zenon DEF Numeral
    <3>2. ASSUME NEW k \in DOMAIN text, k \notin {1, i, j}
          PROVE  k \in 2 .. i - 1 \/ k \in i + 1 .. j - 1 \/ k \in j + 1 .. Len(text)
      BY <3>2
    <3> QED
      BY <3>1, <3>2, Zenon
  <2>6. "." \notin Digit /\ "v" # "."
    BY NamingAssumption
  <2>7. {k \in DOMAIN rest : rest[k] = "."} = {i - 1, j - 1}
    <3>1. ASSUME NEW k \in DOMAIN rest, rest[k] = "." PROVE k \in {i - 1, j - 1}
      <4>1. text[k + 1] = "." /\ k + 1 \in DOMAIN text
        BY <2>4, <3>1
      <4>2. k + 1 \in {1, i, j}
        BY <2>5, <2>6, <4>1
      <4>3. k + 1 # 1
        BY <2>4
      <4> QED
        BY <2>4, <4>2, <4>3
    <3>2. /\ i - 1 \in DOMAIN rest /\ j - 1 \in DOMAIN rest /\ (i - 1) + 1 = i /\ (j - 1) + 1 = j
      BY <2>2, <2>4
    <3>3. rest[i - 1] = "." /\ rest[j - 1] = "."
      BY <2>1, <2>4, <3>2
    <3> QED
      BY <3>1, <3>2, <3>3
  <2>8. /\ i - 1 \in DOMAIN rest /\ j - 1 \in DOMAIN rest /\ i - 1 < j - 1
        /\ (i - 1) + 2 = i + 1 /\ (j - 1) + 2 = j + 1
    BY <2>1, <2>2, <2>4
  <2>9. /\ Len(Split(rest, ".")) = 3
        /\ validNumericIdentifier(Split(rest, ".")[1]) <=> Numeral(text, 2, i - 1)
        /\ validNumericIdentifier(Split(rest, ".")[2]) <=> Numeral(text, (i - 1) + 2, j - 1)
        /\ validNumericIdentifier(Split(rest, ".")[3]) <=> Numeral(text, (j - 1) + 2, Len(text))
    BY <2>4, <2>7, <2>8, TagParts
  <2>10. \A k \in 1 .. 3 : k = 1 \/ k = 2 \/ k = 3
    OBVIOUS
  <2>11. \A k \in 1 .. 3 : validNumericIdentifier(Split(rest, ".")[k])
    BY <2>1, <2>8, <2>9, <2>10, Zenon
  <2> QED
    BY <2>1, <2>3, <2>9, <2>11, Zenon DEF ValidSemverTag, rest
<1> QED
  BY <1>3, <1>4

(* The labels that ValidLabel accepts are the labels of the contract.      *)
LEMMA LabelExact == ASSUME NEW text \in Seq(Alphabet) PROVE ValidLabel(text) <=> Label(text)
<1>1. Len(text) \in Nat /\ DOMAIN text = 1 .. Len(text) /\ (text # <<>> <=> Len(text) >= 1)
  OBVIOUS
<1>2. maxLabelLength \in Nat
  BY NamingAssumption
<1> QED
  BY <1>1, <1>2 DEF ValidLabel, Label, Word

----------------------------------------------------------------------------
(* The inductive invariant: what has been validated is in its grammar, and *)
(* the loop of validExtension has read the beginning of a suffix.          *)

Scanned ==
  LET text == arg.extension
  IN  /\ Len(text) \in 1 .. maxLabelLength /\ index \in 1 .. Len(text) + 1
      /\ previousWasSeparator <=> ~Word(text, index - 1)
      /\ \A k \in 1 .. index - 1 :
           \/ Word(text, k)
           \/ /\ text[k] \in {".", "-"} /\ Word(text, k - 1)
              /\ k < index - 1 => Word(text, k + 1)

Validated ==
  /\ field \in {"goos", "goarch", "extension", "scan", "name"} => StableTag(arg.version)
  /\ field \in {"goarch", "extension", "scan", "name"} => Label(arg.goos)
  /\ field \in {"extension", "scan", "name"} => Label(arg.goarch)
  /\ field = "scan" => Scanned
  /\ field = "name" => Suffix(arg.extension)

NamingType ==
  /\ arg \in [Fields -> Seq(Alphabet)] /\ previousWasSeparator \in BOOLEAN
  /\ field \in Fields \union {"scan", "name", "done"}
  /\ field # "done" => result = "none"
  /\ field \in Fields => index = 1 /\ previousWasSeparator

NamingInv == NamingType /\ Validated /\ GrammarExact

(* The grammar of each argument.                                           *)
LEMMA Grammars ==
  /\ \A text : InGrammar("version", text) <=> StableTag(text)
  /\ \A text : InGrammar("goos", text) <=> Label(text)
  /\ \A text : InGrammar("goarch", text) <=> Label(text)
  /\ \A text : InGrammar("extension", text) <=> Suffix(text)
BY SMT DEF InGrammar

(* A refusal of a text outside its grammar keeps the verdicts exact.       *)
LEMMA RefusalExact ==
  ASSUME NEW f \in Fields, result' = f, ~InGrammar(f, arg'[f])
  PROVE  GrammarExact'
BY DEF GrammarExact, Fields

(* As long as there is no verdict there is nothing to be exact about.      *)
LEMMA NoVerdictExact == ASSUME result' = "none" PROVE GrammarExact'
BY DEF GrammarExact, Fields

(* Init establishes the invariant.                                         *)
LEMMA InitNaming == Init => NamingInv
BY DEF Init, NamingInv, NamingType, Validated, GrammarExact, Fields

(* What a Validate step does to the arguments.                             *)
LEMMA ValidateGives ==
  ASSUME NamingType, NEW f \in Fields, NEW valid, NEW next, Validate(f, valid, next)
  PROVE  /\ field = f /\ result = "none" /\ index' = 1 /\ previousWasSeparator'
         /\ arg' \in [Fields -> Seq(Alphabet)] /\ arg'[f] \in Texts[f] /\ arg'[f] \in Seq(Alphabet)
         /\ \A g \in Fields \ {f} : arg'[g] = arg[g]
         /\ IF arg'[f] \in valid THEN field' = next /\ result' = "none"
                                 ELSE field' = "done" /\ result' = f
<1>1. PICK text \in Texts[f] : arg' = [arg EXCEPT ![f] = text] /\ Judge(f, text \in valid, next)
  BY DEF Validate
<1>2. text \in Seq(Alphabet)
  <2>1. text \in Seq(STRING)
    BY NamingAssumption
  <2>2. STRING \subseteq Alphabet
    BY DEF Alphabet
  <2> QED
    BY <2>1, <2>2, SeqMonotonic
<1>3. field = f /\ f # "done" /\ UNCHANGED scanVars
  BY DEF Validate, Fields
<1>4. result = "none" /\ index' = 1 /\ previousWasSeparator'
  BY <1>3 DEF NamingType, scanVars, Fields
<1>5. arg' \in [Fields -> Seq(Alphabet)] /\ arg'[f] = text /\ \A g \in Fields \ {f} : arg'[g] = arg[g]
  BY <1>1, <1>2 DEF NamingType
<1> QED
  BY <1>1, <1>2, <1>3, <1>4, <1>5 DEF Judge

(* Every step keeps the invariant: one case for each validation, one for   *)
(* each part of the loop, one for the name.                                *)
LEMMA NamingStep == NamingInv /\ [Next]_vars => NamingInv'
<1> SUFFICES ASSUME NamingInv, [Next]_vars PROVE NamingInv'
  OBVIOUS
<1> USE DEF NamingInv
<1>0. /\ "version" \in Fields /\ "goos" \in Fields /\ "goarch" \in Fields /\ "extension" \in Fields
      /\ Fields = {"version", "goos", "goarch", "extension"}
  BY DEF Fields
<1>1. CASE Version
  <2> DEFINE valid == {t \in Texts.version : ValidSemverTag(t)}
  <2>1. Validate("version", valid, "goos")
    BY <1>1 DEF Version
  <2>2. arg'.version \in valid <=> StableTag(arg'.version)
    BY <1>0, <2>1, ValidateGives, TagExact
  <2> HIDE DEF valid
  <2>3. NamingType'
    BY <1>0, <2>1, ValidateGives DEF NamingType
  <2>4. CASE arg'.version \in valid
    <3>1. field' = "goos" /\ result' = "none"
      BY <1>0, <2>1, <2>4, ValidateGives
    <3> QED
      BY <2>2, <2>3, <2>4, <3>1, NoVerdictExact DEF Validated
  <2>5. CASE arg'.version \notin valid
    <3>1. field' = "done" /\ result' = "version"
      BY <1>0, <2>1, <2>5, ValidateGives
    <3> QED
      BY <1>0, <2>2, <2>3, <2>5, <3>1, RefusalExact, Grammars DEF Validated
  <2> QED
    BY <2>4, <2>5
<1>2. CASE Goos
  <2> DEFINE valid == {t \in Texts.goos : ValidLabel(t)}
  <2>1. Validate("goos", valid, "goarch")
    BY <1>2 DEF Goos
  <2>2. arg'.goos \in valid <=> Label(arg'.goos)
    BY <1>0, <2>1, ValidateGives, LabelExact
  <2> HIDE DEF valid
  <2>3. NamingType'
    BY <1>0, <2>1, ValidateGives DEF NamingType
  <2>4. CASE arg'.goos \in valid
    <3>1. field = "goos" /\ field' = "goarch" /\ result' = "none" /\ arg'.version = arg.version
      BY <1>0, <2>1, <2>4, ValidateGives
    <3> QED
      BY <2>2, <2>3, <2>4, <3>1, NoVerdictExact DEF Validated
  <2>5. CASE arg'.goos \notin valid
    <3>1. field' = "done" /\ result' = "goos"
      BY <1>0, <2>1, <2>5, ValidateGives
    <3> QED
      BY <1>0, <2>2, <2>3, <2>5, <3>1, RefusalExact, Grammars DEF Validated
  <2> QED
    BY <2>4, <2>5
<1>3. CASE Goarch
  <2> DEFINE valid == {t \in Texts.goarch : ValidLabel(t)}
  <2>1. Validate("goarch", valid, "extension")
    BY <1>3 DEF Goarch
  <2>2. arg'.goarch \in valid <=> Label(arg'.goarch)
    BY <1>0, <2>1, ValidateGives, LabelExact
  <2> HIDE DEF valid
  <2>3. NamingType'
    BY <1>0, <2>1, ValidateGives DEF NamingType
  <2>4. CASE arg'.goarch \in valid
    <3>1. /\ field = "goarch" /\ field' = "extension" /\ result' = "none"
          /\ arg'.version = arg.version /\ arg'.goos = arg.goos
      BY <1>0, <2>1, <2>4, ValidateGives
    <3> QED
      BY <2>2, <2>3, <2>4, <3>1, NoVerdictExact DEF Validated
  <2>5. CASE arg'.goarch \notin valid
    <3>1. field' = "done" /\ result' = "goarch"
      BY <1>0, <2>1, <2>5, ValidateGives
    <3> QED
      BY <1>0, <2>2, <2>3, <2>5, <3>1, RefusalExact, Grammars DEF Validated
  <2> QED
    BY <2>4, <2>5
<1>4. CASE Extension
  <2> DEFINE valid == {t \in Texts.extension : Len(t) \in 1 .. maxLabelLength}
  <2>1. Validate("extension", valid, "scan")
    BY <1>4 DEF Extension
  <2>2. arg'.extension \in valid <=> Len(arg'.extension) \in 1 .. maxLabelLength
    BY <1>0, <2>1, ValidateGives
  <2> HIDE DEF valid
  <2>3. NamingType' /\ index' = 1 /\ previousWasSeparator' /\ arg'.extension \in Seq(Alphabet)
    BY <1>0, <2>1, ValidateGives DEF NamingType
  <2>4. CASE arg'.extension \in valid
    <3>1. /\ field = "extension" /\ field' = "scan" /\ result' = "none"
          /\ arg'.version = arg.version /\ arg'.goos = arg.goos /\ arg'.goarch = arg.goarch
      BY <1>0, <2>1, <2>4, ValidateGives
    <3>2. Scanned'
      <4>1. ~Word(arg'.extension, 1 - 1)
        BY <2>3 DEF Word
      <4>2. Len(arg'.extension) \in 1 .. maxLabelLength /\ 1 \in 1 .. Len(arg'.extension) + 1
        BY <2>2, <2>3, <2>4
      <4>3. 1 .. 1 - 1 = {}
        OBVIOUS
      <4> QED
        BY <2>3, <4>1, <4>2, <4>3 DEF Scanned
    <3> QED
      BY <2>3, <3>1, <3>2, NoVerdictExact DEF Validated
  <2>5. CASE arg'.extension \notin valid
    <3>1. field' = "done" /\ result' = "extension"
      BY <1>0, <2>1, <2>5, ValidateGives
    <3>2. ~Suffix(arg'.extension)
      BY <2>2, <2>5 DEF Suffix
    <3> QED
      BY <1>0, <2>3, <3>1, <3>2, RefusalExact, Grammars DEF Validated
  <2> QED
    BY <2>4, <2>5
<1>5. CASE ScanCharacter
  <2> DEFINE text == arg.extension
             word == isLowerAlphanumeric(text[index])
             good == word \/ (text[index] \in {".", "-"} /\ ~previousWasSeparator)
  <2>1. /\ field = "scan" /\ index <= Len(text) /\ Judge("extension", good, "scan")
        /\ previousWasSeparator' = ~word /\ index' = index + 1 /\ arg' = arg
    BY <1>5 DEF ScanCharacter
  <2>2. Scanned /\ result = "none" /\ text \in Seq(Alphabet)
    BY <1>0, <2>1 DEF Validated, NamingType
  <2>3. /\ Len(text) \in 1 .. maxLabelLength /\ index \in 1 .. Len(text)
        /\ previousWasSeparator <=> ~Word(text, index - 1)
    BY <2>1, <2>2 DEF Scanned
  <2>4. word <=> Word(text, index)
    BY <2>2, <2>3 DEF Word
  <2>5. CASE good
    <3>1. field' = "scan" /\ result' = "none"
      BY <2>1, <2>2, <2>5 DEF Judge
    <3>2. \A k \in 1 .. index :
            \/ Word(text, k)
            \/ /\ text[k] \in {".", "-"} /\ Word(text, k - 1)
               /\ k < index => Word(text, k + 1)
      <4> SUFFICES ASSUME NEW k \in 1 .. index, ~Word(text, k)
                   PROVE  /\ text[k] \in {".", "-"} /\ Word(text, k - 1)
                          /\ k < index => Word(text, k + 1)
        OBVIOUS
      <4>1. CASE k = index
        BY <2>3, <2>4, <2>5, <4>1
      <4>2. CASE k = index - 1
        <5>1. /\ text[k] \in {".", "-"} /\ Word(text, k - 1)
          BY <2>2, <2>3, <4>2 DEF Scanned
        <5>2. Word(text, index) /\ k + 1 = index
          BY <2>3, <2>4, <2>5, <4>2
        <5> QED
          BY <5>1, <5>2
      <4>3. CASE k < index - 1
        BY <2>2, <2>3, <4>3 DEF Scanned
      <4> QED
        BY <2>3, <4>1, <4>2, <4>3
    <3>3. (index + 1) - 1 = index /\ index + 1 \in 1 .. Len(text) + 1
      BY <2>3
    <3>4. Scanned'
      BY <2>1, <2>3, <2>4, <3>2, <3>3 DEF Scanned
    <3>5. NamingType'
      BY <1>0, <2>1, <3>1 DEF NamingType
    <3> QED
      BY <2>1, <3>1, <3>4, <3>5, NoVerdictExact DEF Validated
  <2>6. CASE ~good
    <3>1. field' = "done" /\ result' = "extension"
      BY <2>1, <2>6 DEF Judge
    <3>2. ~Suffix(text)
      BY <2>2, <2>3, <2>4, <2>6 DEF Suffix
    <3>3. NamingType'
      BY <1>0, <2>1, <3>1 DEF NamingType
    <3> QED
      BY <1>0, <2>1, <3>1, <3>2, <3>3, RefusalExact, Grammars DEF Validated
  <2> QED
    BY <2>5, <2>6
<1>6. CASE ScanEnds
  <2> DEFINE text == arg.extension
  <2>1. /\ field = "scan" /\ index > Len(text) /\ Judge("extension", ~previousWasSeparator, "name")
        /\ previousWasSeparator' = previousWasSeparator /\ arg' = arg
    BY <1>6 DEF ScanEnds, scanVars
  <2>2. Scanned /\ result = "none" /\ text \in Seq(Alphabet)
    BY <1>0, <2>1 DEF Validated, NamingType
  <2>3. /\ Len(text) \in 1 .. maxLabelLength /\ index = Len(text) + 1 /\ Len(text) \in DOMAIN text
        /\ previousWasSeparator <=> ~Word(text, Len(text))
    BY <2>1, <2>2 DEF Scanned
  <2>4. CASE ~previousWasSeparator
    <3>1. field' = "name" /\ result' = "none"
      BY <2>1, <2>2, <2>4 DEF Judge
    <3>2. Suffix(text)
      <4> SUFFICES ASSUME NEW k \in DOMAIN text
                   PROVE  Word(text, k) \/ (text[k] \in {".", "-"} /\ Word(text, k - 1) /\ Word(text, k + 1))
        BY <2>3 DEF Suffix
      <4>1. CASE k = Len(text)
        BY <2>3, <2>4, <4>1
      <4>2. CASE k < Len(text)
        BY <2>2, <2>3, <4>2 DEF Scanned
      <4> QED
        BY <2>2, <4>1, <4>2
    <3>3. NamingType'
      BY <1>0, <2>1, <3>1 DEF NamingType
    <3> QED
      BY <2>1, <3>1, <3>2, <3>3, NoVerdictExact DEF Validated
  <2>5. CASE previousWasSeparator
    <3>1. field' = "done" /\ result' = "extension"
      BY <2>1, <2>5 DEF Judge
    <3>2. ~Suffix(text)
      <4>1. ~Word(text, Len(text) + 1)
        BY <2>2 DEF Word
      <4> QED
        BY <2>3, <2>5, <4>1 DEF Suffix
    <3>3. NamingType'
      BY <1>0, <2>1, <3>1 DEF NamingType
    <3> QED
      BY <1>0, <2>1, <3>1, <3>2, <3>3, RefusalExact, Grammars DEF Validated
  <2> QED
    BY <2>4, <2>5 DEF NamingType
<1>7. CASE ArtifactName
  <2>1. /\ field = "name" /\ field' = "done" /\ arg' = arg /\ result' \in {"length", "named"}
        /\ previousWasSeparator' = previousWasSeparator
    BY <1>7 DEF ArtifactName, scanVars
  <2>2. \A f \in Fields : InGrammar(f, arg'[f])
    BY <1>0, <2>1, Grammars DEF Validated
  <2>3. GrammarExact'
    BY <1>0, <2>1, <2>2 DEF GrammarExact
  <2> QED
    BY <1>0, <2>1, <2>3 DEF NamingType, Validated
<1>8. CASE UNCHANGED vars
  BY <1>8 DEF vars, scanVars, NamingType, Validated, Scanned, GrammarExact
<1> QED
  BY <1>1, <1>2, <1>3, <1>4, <1>5, <1>6, <1>7, <1>8 DEF Next

(* ArtifactName lets through exactly the arguments of the naming           *)
(* contract's grammars, whatever their length and the alphabet             *)
(* (naming.go, ValidSemverTag, ValidLabel and validExtension).             *)
THEOREM NamesAreJudgedExactly == Spec => []GrammarExact
<1>1. NamingInv => GrammarExact
  BY DEF NamingInv
<1> QED
  BY <1>1, InitNaming, NamingStep, PTL DEF Spec

----------------------------------------------------------------------------
(* A name can be taken apart.                                              *)

\* What is said of texts that are joined: a text of n characters, one that
\* is s followed by t, one that reads like part after its first characters,
\* and one that begins like s.
Text(S, s, n)        == s \in Seq(S) /\ Len(s) = n
Joins(s, t, w)       == w = s \o t
Reads(w, from, part) == \A k \in 1 .. Len(part) : w[from + k] = part[k]
Alike(s, w, n)       == \A k \in 1 .. n : w[k] = s[k]

(* The characters of a concatenation.                                      *)
LEMMA Joined ==
  ASSUME NEW S, NEW s, NEW t, NEW w, NEW n \in Nat, NEW m \in Nat,
         Text(S, s, n), Text(S, t, m), Joins(s, t, w)
  PROVE  Text(S, w, n + m) /\ Reads(w, n, t) /\ Alike(s, w, n)
<1>0. s \in Seq(S) /\ t \in Seq(S) /\ Len(s) = n /\ Len(t) = m
  BY DEF Text
<1>1. s \o t \in Seq(S) /\ Len(s \o t) = Len(s) + Len(t)
  BY <1>0
<1>2. \A k \in 1 .. Len(s) : (s \o t)[k] = s[k]
  BY <1>0
<1>3. \A k \in 1 .. Len(t) : (s \o t)[Len(s) + k] = t[k]
  BY <1>0
<1> QED
  BY <1>0, <1>1, <1>2, <1>3, Zenon DEF Reads, Alike, Joins, Text

(* Beginnings are alike through a third text, and what is read in one is  *)
(* read in the other.                                                      *)
LEMMA AlikeTwice ==
  ASSUME NEW s, NEW t, NEW w, NEW n \in Nat, NEW m \in Nat, n <= m, Alike(s, t, n), Alike(t, w, m)
  PROVE  Alike(s, w, n)
BY DEF Alike
LEMMA ReadsAlike ==
  ASSUME NEW S, NEW part, NEW s, NEW w, NEW n \in Nat, NEW from \in Nat, NEW m \in Nat,
         Text(S, part, m), from + m <= n, Reads(s, from, part), Alike(s, w, n)
  PROVE  Reads(w, from, part)
<1>1. \A k \in 1 .. Len(part) : from + k \in 1 .. n
  BY DEF Text
<1> QED
  BY <1>1 DEF Reads, Alike

(* A text of one character.                                                *)
LEMMA OneIsText == ASSUME NEW S, NEW c \in S PROVE Text(S, <<c>>, 1) /\ <<c>>[1] = c
<1>1. <<c>> = Append(<<>>, c) /\ <<>> \in Seq(S)
  BY EmptySeq
<1>2. <<c>> \in Seq(S) /\ Len(<<c>>) = 1 /\ <<c>>[1] = c
  BY <1>1
<1> QED
  BY <1>2 DEF Text

(* A stretch of a text that reads like another text is that text.          *)
LEMMA StretchIs ==
  ASSUME NEW whole \in Seq(Alphabet), NEW part \in Seq(Alphabet), NEW from \in Nat,
         from + Len(part) <= Len(whole), Reads(whole, from, part)
  PROVE  SubSeq(whole, from + 1, from + Len(part)) = part
<1> DEFINE m == from + 1
           n == from + Len(part)
           cutOut == SubSeq(whole, m, n)
<1>1. m \in Int /\ n \in Int /\ \A k \in m .. n : whole[k] \in Alphabet
  OBVIOUS
<1> HIDE DEF m, n
<1>2. /\ cutOut \in Seq(Alphabet) /\ Len(cutOut) = IF m <= n THEN n - m + 1 ELSE 0
      /\ \A k \in 1 .. n - m + 1 : cutOut[k] = whole[m + k - 1]
  BY <1>1, SubSeqProperties
<1> HIDE DEF cutOut
<1>3. Len(cutOut) = Len(part)
  BY <1>2 DEF m, n
<1>4. ASSUME NEW k \in 1 .. Len(cutOut) PROVE cutOut[k] = part[k]
  <2>1. k \in 1 .. Len(part) /\ k \in 1 .. n - m + 1 /\ m + k - 1 = from + k
    BY <1>3 DEF m, n
  <2> QED
    BY <1>2, <2>1 DEF Reads
<1>5. cutOut = part
  BY <1>2, <1>3, <1>4, SeqEqual
<1> QED
  BY <1>5 DEF cutOut, m, n

(* A pair is a sequence.                                                   *)
LEMMA PairIsText == ASSUME NEW S, NEW a \in S, NEW b \in S PROVE <<a, b>> \in Seq(S)
BY SMT

(* The name begins with the program's name and an underscore.              *)
LEMMA PrefixIs ==
  /\ Text(Alphabet, prefix, 2) /\ prefix[2] = underscore
  /\ \A k \in 1 .. 1 : prefix[k] # underscore
<1>1. "diskforge" \in Alphabet /\ "_" \in Alphabet
  BY Zenon DEF Alphabet, Marks
<1>2. prefix \in Seq(Alphabet)
  BY <1>1, PairIsText, Zenon DEF prefix
<1>3. Len(prefix) = 2 /\ prefix[2] = "_" /\ prefix[1] # "_"
  BY DEF prefix
<1>4. \A k \in 1 .. 1 : k = 1
  OBVIOUS
<1>5. \A k \in 1 .. 1 : prefix[k] # "_"
  BY <1>3, <1>4, Zenon
<1> QED
  BY <1>2, <1>3, <1>5, Zenon DEF Text, underscore

(* Nothing in a tag, a label or a suffix is an underscore, and nothing in  *)
(* a label is a period (naming.go, what the checks let through).           *)
LEMMA NoUnderscore ==
  ASSUME NEW text \in Seq(Alphabet)
  PROVE  /\ StableTag(text) => text # <<>> /\ \A k \in DOMAIN text : text[k] # underscore
         /\ Label(text) => \A k \in DOMAIN text : text[k] \notin {underscore, "."}
         /\ Suffix(text) => \A k \in DOMAIN text : text[k] # underscore
<1>1. /\ underscore \notin Lower \union Digit /\ "." \notin Lower \union Digit
      /\ underscore # "." /\ underscore # "-" /\ underscore # "v" /\ "-" # "."
  <2>1. "_" \in {".", "-", "_"} /\ "." \in {".", "-", "_"}
    BY Zenon
  <2> QED
    BY <2>1, NamingAssumption, Zenon DEF underscore
<1>2. ASSUME StableTag(text) PROVE text # <<>> /\ \A k \in DOMAIN text : text[k] # underscore
  <2>1. PICK i, j \in DOMAIN text :
          /\ i < j /\ text[1] = "v" /\ text[i] = "." /\ text[j] = "."
          /\ Numeral(text, 2, i - 1) /\ Numeral(text, i + 1, j - 1) /\ Numeral(text, j + 1, Len(text))
    BY <1>2, Zenon DEF StableTag
  <2>2. /\ \A k \in 2 .. i - 1 : text[k] \in Digit
        /\ \A k \in i + 1 .. j - 1 : text[k] \in Digit
        /\ \A k \in j + 1 .. Len(text) : text[k] \in Digit
    BY <2>1, Zenon DEF Numeral
  <2>3. ASSUME NEW k \in DOMAIN text
        PROVE  k \in {1, i, j} \/ k \in 2 .. i - 1 \/ k \in i + 1 .. j - 1 \/ k \in j + 1 .. Len(text)
    OBVIOUS
  <2>4. ASSUME NEW k \in DOMAIN text PROVE text[k] # underscore
    <3>1. CASE k \in {1, i, j}
      BY <1>1, <2>1, <3>1
    <3>2. CASE k \notin {1, i, j}
      BY <1>1, <2>2, <2>3, <3>2, Zenon
    <3> QED
      BY <3>1, <3>2
  <2> QED
    BY <2>1, <2>4
<1>3. ASSUME Label(text) PROVE \A k \in DOMAIN text : text[k] \notin {underscore, "."}
  BY <1>1, <1>3 DEF Label, Word, isLowerAlphanumeric
<1>4. ASSUME Suffix(text) PROVE \A k \in DOMAIN text : text[k] # underscore
  BY <1>1, <1>4 DEF Suffix, Word, isLowerAlphanumeric
<1> QED
  BY <1>2, <1>3, <1>4

(* The name that four fields make, field by field (ArtifactName).          *)
NameOf(V, G, A, E) ==
  prefix \o V \o <<underscore>> \o G \o <<underscore>> \o A \o <<".">> \o E

LEMMA NameReads ==
  ASSUME NEW V, NEW G, NEW A, NEW E,
         NEW v \in Nat, NEW g \in Nat, NEW a \in Nat, NEW e \in Nat,
         Text(Alphabet, V, v), Text(Alphabet, G, g), Text(Alphabet, A, a), Text(Alphabet, E, e)
  PROVE  LET w == NameOf(V, G, A, E) IN
         /\ w \in Seq(Alphabet) /\ Len(w) = 5 + v + g + a + e
         /\ \A k \in 1 .. 1 : w[k] # underscore
         /\ w[2] = underscore /\ w[3 + v] = underscore /\ w[4 + v + g] = underscore
         /\ w[5 + v + g + a] = "."
         /\ Reads(w, 2, V) /\ Reads(w, 3 + v, G) /\ Reads(w, 4 + v + g, A)
         /\ Reads(w, 5 + v + g + a, E)
<1> DEFINE U  == <<underscore>>
           D  == <<".">>
           s1 == prefix \o V
           s2 == s1 \o U
           s3 == s2 \o G
           s4 == s3 \o U
           s5 == s4 \o A
           s6 == s5 \o D
           w  == NameOf(V, G, A, E)
<1>1. /\ Joins(prefix, V, s1) /\ Joins(s1, U, s2) /\ Joins(s2, G, s3) /\ Joins(s3, U, s4)
      /\ Joins(s4, A, s5) /\ Joins(s5, D, s6) /\ Joins(s6, E, w)
  BY Zenon DEF Joins, NameOf
<1>2. underscore \in Alphabet /\ "." \in Alphabet
  BY Zenon DEF Alphabet, Marks, underscore
<1>3. Text(Alphabet, U, 1) /\ U[1] = underscore /\ Text(Alphabet, D, 1) /\ D[1] = "."
  BY <1>2, OneIsText, Zenon
<1> HIDE DEF s1, s2, s3, s4, s5, s6, w, U, D
<1>4. /\ Text(Alphabet, w, 2 + v + 1 + g + 1 + a + 1 + e)
      /\ Alike(prefix, w, 2) /\ Reads(w, 2, V) /\ Reads(w, 2 + v, U) /\ Reads(w, 2 + v + 1, G)
      /\ Reads(w, 2 + v + 1 + g, U) /\ Reads(w, 2 + v + 1 + g + 1, A)
      /\ Reads(w, 2 + v + 1 + g + 1 + a, D) /\ Reads(w, 2 + v + 1 + g + 1 + a + 1, E)
  <2> DEFINE p  == 2
             n1 == p + v
             n2 == n1 + 1
             n3 == n2 + g
             n4 == n3 + 1
             n5 == n4 + a
             n6 == n5 + 1
  <2>1. /\ n1 \in Nat /\ n2 \in Nat /\ n3 \in Nat /\ n4 \in Nat /\ n5 \in Nat /\ n6 \in Nat
        /\ 1 \in Nat /\ p \in Nat
        /\ p <= n1 /\ n1 <= n2 /\ n2 <= n3 /\ n3 <= n4 /\ n4 <= n5 /\ n5 <= n6
        /\ p + v <= n1 /\ n1 + 1 <= n2 /\ n2 + g <= n3 /\ n3 + 1 <= n4 /\ n4 + a <= n5 /\ n5 + 1 <= n6
    OBVIOUS
  <2>0. Text(Alphabet, prefix, p)
    BY PrefixIs, Zenon
  <2> HIDE DEF p, n1, n2, n3, n4, n5, n6
  <2>2. Text(Alphabet, s1, n1) /\ Reads(s1, p, V) /\ Alike(prefix, s1, p)
    BY <1>1, <1>3, <2>0, <2>1, Joined, Zenon DEF n1
  <2>3. Text(Alphabet, s2, n2) /\ Reads(s2, n1, U) /\ Alike(s1, s2, n1)
    BY <1>1, <1>3, <2>1, <2>2, Joined, Zenon DEF n2
  <2>4. Text(Alphabet, s3, n3) /\ Reads(s3, n2, G) /\ Alike(s2, s3, n2)
    BY <1>1, <1>3, <2>1, <2>3, Joined, Zenon DEF n3
  <2>5. Text(Alphabet, s4, n4) /\ Reads(s4, n3, U) /\ Alike(s3, s4, n3)
    BY <1>1, <1>3, <2>1, <2>4, Joined, Zenon DEF n4
  <2>6. Text(Alphabet, s5, n5) /\ Reads(s5, n4, A) /\ Alike(s4, s5, n4)
    BY <1>1, <1>3, <2>1, <2>5, Joined, Zenon DEF n5
  <2>7. Text(Alphabet, s6, n6) /\ Reads(s6, n5, D) /\ Alike(s5, s6, n5)
    BY <1>1, <1>3, <2>1, <2>6, Joined, Zenon DEF n6
  <2>8. Text(Alphabet, w, n6 + e) /\ Reads(w, n6, E) /\ Alike(s6, w, n6)
    BY <1>1, <1>3, <2>1, <2>7, Joined, Zenon
  <2>9. Alike(s5, w, n5)
    BY <2>1, <2>7, <2>8, AlikeTwice, Zenon
  <2>10. Alike(s4, w, n4)
    BY <2>1, <2>6, <2>9, AlikeTwice, Zenon
  <2>11. Alike(s3, w, n3)
    BY <2>1, <2>5, <2>10, AlikeTwice, Zenon
  <2>12. Alike(s2, w, n2)
    BY <2>1, <2>4, <2>11, AlikeTwice, Zenon
  <2>13. Alike(s1, w, n1)
    BY <2>1, <2>3, <2>12, AlikeTwice, Zenon
  <2>14. Alike(prefix, w, p)
    BY <2>1, <2>2, <2>13, AlikeTwice, Zenon
  <2>15. Reads(w, p, V)
    BY <1>3, <2>1, <2>2, <2>13, ReadsAlike, Zenon
  <2>16. Reads(w, n1, U)
    BY <1>3, <2>1, <2>3, <2>12, ReadsAlike, Zenon
  <2>17. Reads(w, n2, G)
    BY <1>3, <2>1, <2>4, <2>11, ReadsAlike, Zenon
  <2>18. Reads(w, n3, U)
    BY <1>3, <2>1, <2>5, <2>10, ReadsAlike, Zenon
  <2>19. Reads(w, n4, A)
    BY <1>3, <2>1, <2>6, <2>9, ReadsAlike, Zenon
  <2>20. Reads(w, n5, D)
    BY <1>3, <2>1, <2>7, <2>8, ReadsAlike, Zenon
  <2> QED
    BY <2>8, <2>14, <2>15, <2>16, <2>17, <2>18, <2>19, <2>20, Zenon DEF p, n1, n2, n3, n4, n5, n6
<1>6. /\ 2 + v + 1 + g + 1 + a + 1 + e = 5 + v + g + a + e /\ 2 + v + 1 = 3 + v
      /\ 2 + v + 1 + g = 3 + v + g /\ 3 + v + g + 1 = 4 + v + g
      /\ 2 + v + 1 + g + 1 = 4 + v + g /\ 2 + v + 1 + g + 1 + a = 4 + v + g + a
      /\ 4 + v + g + a + 1 = 5 + v + g + a /\ 2 + v + 1 + g + 1 + a + 1 = 5 + v + g + a
  OBVIOUS
<1>7. /\ Text(Alphabet, w, 5 + v + g + a + e) /\ Reads(w, 3 + v, G) /\ Reads(w, 3 + v + g, U)
      /\ Reads(w, 4 + v + g, A) /\ Reads(w, 4 + v + g + a, D) /\ Reads(w, 5 + v + g + a, E)
  BY <1>4, <1>6, Zenon
<1>8. w[2 + v + 1] = U[1] /\ w[3 + v + g + 1] = U[1] /\ w[4 + v + g + a + 1] = D[1]
  <2>1. Len(U) = 1 /\ Len(D) = 1 /\ 1 \in 1 .. 1
    BY <1>3 DEF Text
  <2> QED
    BY <1>4, <1>7, <2>1, Zenon DEF Reads
<1>9. \A k \in 1 .. 2 : w[k] = prefix[k]
  BY <1>4, Zenon DEF Alike
<1>10. w[2] = underscore /\ \A k \in 1 .. 1 : w[k] # underscore
  BY <1>9, PrefixIs
<1> QED
  BY <1>3, <1>4, <1>6, <1>7, <1>8, <1>10, Zenon DEF w, Text

\* What NameTellsFields says of a name, for the fields it was made of.
Apart(fields, V, G, A, E) ==
  LET last   == fields[Len(fields)]
      period == CHOOSE i \in DOMAIN last :
                  last[i] = "." /\ \A j \in 1 .. i - 1 : last[j] # "."
  IN  /\ Len(fields) = 4
      /\ fields[2] = V /\ fields[3] = G
      /\ SubSeq(last, 1, period - 1) = A
      /\ SubSeq(last, period + 1, Len(last)) = E

(* The parts of a name between its underscores, and of its last part       *)
(* around the first period, are the fields it was made of (ArtifactName).  *)
LEMMA NameComesApart ==
  ASSUME NEW V \in Seq(Alphabet), NEW G \in Seq(Alphabet), NEW A \in Seq(Alphabet), NEW E \in Seq(Alphabet),
         \A k \in DOMAIN V : V[k] # underscore, \A k \in DOMAIN G : G[k] # underscore,
         \A k \in DOMAIN A : A[k] # underscore, \A k \in DOMAIN E : E[k] # underscore,
         \A k \in DOMAIN A : A[k] # "."
  PROVE  Apart(Split(NameOf(V, G, A, E), underscore), V, G, A, E)
<1> DEFINE w == NameOf(V, G, A, E)
           v == Len(V)
           g == Len(G)
           a == Len(A)
           e == Len(E)
           h == 2
           i == 3 + v
           j == 4 + v + g
           fields == Split(w, underscore)
           last   == SubSeq(w, j + 1, Len(w))
           first(m) == last[m] = "." /\ \A l \in 1 .. m - 1 : last[l] # "."
<1>1. /\ v \in Nat /\ g \in Nat /\ a \in Nat /\ e \in Nat
      /\ DOMAIN V = 1 .. v /\ DOMAIN G = 1 .. g /\ DOMAIN A = 1 .. a /\ DOMAIN E = 1 .. e
  OBVIOUS
<1>2. Text(Alphabet, V, v) /\ Text(Alphabet, G, g) /\ Text(Alphabet, A, a) /\ Text(Alphabet, E, e)
  BY DEF Text
<1> HIDE DEF v, g, a, e
<1>3. /\ w \in Seq(Alphabet) /\ Len(w) = 5 + v + g + a + e
      /\ \A k \in 1 .. 1 : w[k] # underscore
      /\ w[2] = underscore /\ w[3 + v] = underscore /\ w[4 + v + g] = underscore
      /\ w[5 + v + g + a] = "."
      /\ Reads(w, 2, V) /\ Reads(w, 3 + v, G) /\ Reads(w, 4 + v + g, A)
      /\ Reads(w, 5 + v + g + a, E)
  BY <1>1, <1>2, NameReads, Zenon
<1> HIDE DEF w
<1>4. /\ \A k \in 1 .. v : w[2 + k] = V[k]
      /\ \A k \in 1 .. g : w[3 + v + k] = G[k]
      /\ \A k \in 1 .. a : w[4 + v + g + k] = A[k]
      /\ \A k \in 1 .. e : w[5 + v + g + a + k] = E[k]
  BY <1>3, Zenon DEF Reads, v, g, a, e
<1>5. "." # underscore
  BY Zenon DEF underscore
<1>6. SeparatedAt(w, underscore, h, i, j)
  <2>1. ASSUME NEW k \in 1 .. Len(w), k \notin {h, i, j} PROVE w[k] # underscore
    <3>1. CASE k \in 1 .. 1
      BY <1>3, <3>1
    <3>2. CASE k \in 3 .. 2 + v
      <4>1. k - 2 \in 1 .. v /\ 2 + (k - 2) = k
        BY <1>1, <3>2
      <4>2. w[2 + (k - 2)] = V[k - 2]
        BY <1>4, <4>1, Zenon
      <4>3. V[k - 2] # underscore
        BY <1>1, <4>1, Zenon
      <4> QED
        BY <4>1, <4>2, <4>3, Zenon
    <3>3. CASE k \in 4 + v .. 3 + v + g
      <4>1. k - (3 + v) \in 1 .. g /\ 3 + v + (k - (3 + v)) = k
        BY <1>1, <3>3
      <4>2. w[3 + v + (k - (3 + v))] = G[k - (3 + v)]
        BY <1>4, <4>1, Zenon
      <4>3. G[k - (3 + v)] # underscore
        BY <1>1, <4>1, Zenon
      <4> QED
        BY <4>1, <4>2, <4>3, Zenon
    <3>4. CASE k \in 5 + v + g .. 4 + v + g + a
      <4>1. k - (4 + v + g) \in 1 .. a /\ 4 + v + g + (k - (4 + v + g)) = k
        BY <1>1, <3>4
      <4>2. w[4 + v + g + (k - (4 + v + g))] = A[k - (4 + v + g)]
        BY <1>4, <4>1, Zenon
      <4>3. A[k - (4 + v + g)] # underscore
        BY <1>1, <4>1, Zenon
      <4> QED
        BY <4>1, <4>2, <4>3, Zenon
    <3>5. CASE k = 5 + v + g + a
      BY <1>3, <1>5, <3>5
    <3>6. CASE k \in 6 + v + g + a .. 5 + v + g + a + e
      <4>1. k - (5 + v + g + a) \in 1 .. e /\ 5 + v + g + a + (k - (5 + v + g + a)) = k
        BY <1>1, <3>6
      <4>2. w[5 + v + g + a + (k - (5 + v + g + a))] = E[k - (5 + v + g + a)]
        BY <1>4, <4>1, Zenon
      <4>3. E[k - (5 + v + g + a)] # underscore
        BY <1>1, <4>1, Zenon
      <4> QED
        BY <4>1, <4>2, <4>3, Zenon
    <3>7. \/ k \in 1 .. 1 \/ k \in 3 .. 2 + v \/ k \in 4 + v .. 3 + v + g
          \/ k \in 5 + v + g .. 4 + v + g + a \/ k = 5 + v + g + a
          \/ k \in 6 + v + g + a .. 5 + v + g + a + e
      BY <1>1, <1>3, <2>1
    <3> QED
      BY <3>1, <3>2, <3>3, <3>4, <3>5, <3>6, <3>7, Zenon
  <2>2. DOMAIN w = 1 .. Len(w) /\ h \in 1 .. Len(w) /\ i \in 1 .. Len(w) /\ j \in 1 .. Len(w)
        /\ h < i /\ i < j
    BY <1>1, <1>3
  <2>3. w[i] = underscore /\ w[j] = underscore /\ w[h] = underscore
    BY <1>3
  <2> QED
    BY <2>1, <2>2, <2>3 DEF SeparatedAt
<1>7. /\ Len(fields) = 4 /\ fields[2] = SubSeq(w, h + 1, i - 1) /\ fields[3] = SubSeq(w, i + 1, j - 1)
      /\ fields[4] = last
  <2>1. w \in Seq(Alphabet)
    BY <1>3
  <2> HIDE DEF h, i, j
  <2>2. CutInFour(w, underscore, h, i, j)
    BY <1>6, <2>1, SplitInFour, Zenon
  <2> QED
    BY <2>2, Zenon DEF CutInFour
<1>8. fields[2] = V /\ fields[3] = G
  <2>1. /\ h \in Nat /\ h + v <= Len(w) /\ h + v = i - 1
        /\ 3 + v \in Nat /\ 3 + v + g <= Len(w) /\ 3 + v + g = j - 1 /\ 3 + v = i
    BY <1>1, <1>3
  <2>0. Reads(w, h, V)
    BY <1>3, Zenon
  <2> HIDE DEF h
  <2>2. SubSeq(w, h + 1, h + v) = V
    BY <1>3, <2>0, <2>1, StretchIs, Zenon DEF v
  <2>3. SubSeq(w, 3 + v + 1, 3 + v + g) = G
    BY <1>3, <2>1, StretchIs, Zenon DEF g
  <2> HIDE DEF i, j, fields
  <2> QED
    BY <1>7, <2>1, <2>2, <2>3
<1>9. /\ last \in Seq(Alphabet) /\ Len(last) = a + 1 + e
      /\ \A k \in 1 .. a + 1 + e : last[k] = w[4 + v + g + k]
  <2>1. j + 1 \in Int /\ Len(w) \in Int /\ \A k \in j + 1 .. Len(w) : w[k] \in Alphabet
    BY <1>1, <1>3
  <2>2. /\ last \in Seq(Alphabet) /\ Len(last) = IF j + 1 <= Len(w) THEN Len(w) - (j + 1) + 1 ELSE 0
        /\ \A k \in 1 .. Len(w) - (j + 1) + 1 : last[k] = w[(j + 1) + k - 1]
    BY <2>1, SubSeqProperties
  <2> HIDE DEF last
  <2> QED
    BY <1>1, <1>3, <2>2
<1> HIDE DEF last
<1>10. Reads(last, 0, A) /\ last[a + 1] = "." /\ Reads(last, a + 1, E)
  <2>1. \A k \in 1 .. a : last[0 + k] = A[k]
    <3>1. \A k \in 1 .. a : k \in 1 .. a + 1 + e /\ 0 + k = k
      BY <1>1
    <3> QED
      BY <1>4, <1>9, <3>1
  <2>2. last[a + 1] = "."
    <3>1. a + 1 \in 1 .. a + 1 + e /\ 4 + v + g + (a + 1) = 5 + v + g + a
      BY <1>1
    <3> QED
      BY <1>3, <1>9, <3>1
  <2>3. \A k \in 1 .. e : last[a + 1 + k] = E[k]
    <3>1. \A k \in 1 .. e : a + 1 + k \in 1 .. a + 1 + e /\ 4 + v + g + (a + 1 + k) = 5 + v + g + a + k
      BY <1>1
    <3> QED
      BY <1>4, <1>9, <3>1
  <2> QED
    BY <2>1, <2>2, <2>3, Zenon DEF Reads, a, e
<1>11. (CHOOSE m \in DOMAIN last : first(m)) = a + 1
  <2>1. DOMAIN last = 1 .. a + 1 + e /\ a + 1 \in DOMAIN last
    BY <1>1, <1>9
  <2>2. \A k \in 1 .. a : last[k] # "."
    <3>1. \A k \in 1 .. a : k \in 1 .. a + 1 + e
      BY <1>1
    <3>2. \A k \in 1 .. a : last[k] = A[k]
      BY <1>4, <1>9, <3>1
    <3> QED
      BY <1>1, <3>2
  <2>3. first(a + 1)
    BY <1>1, <1>10, <2>2
  <2>4. ASSUME NEW m \in DOMAIN last, first(m) PROVE m = a + 1
    BY <1>1, <1>10, <2>1, <2>2, <2>4
  <2> HIDE DEF first
  <2> QED
    BY <2>1, <2>3, <2>4, Zenon
<1>12. SubSeq(last, 1, a) = A /\ SubSeq(last, (a + 1) + 1, Len(last)) = E
  <2>1. /\ 0 \in Nat /\ 0 + a <= Len(last) /\ 0 + 1 = 1 /\ 0 + a = a
        /\ a + 1 \in Nat /\ a + 1 + e <= Len(last) /\ a + 1 + e = Len(last)
    BY <1>1, <1>9
  <2>2. SubSeq(last, 0 + 1, 0 + a) = A
    BY <1>9, <1>10, <2>1, StretchIs, Zenon DEF a
  <2>3. SubSeq(last, a + 1 + 1, a + 1 + e) = E
    BY <1>9, <1>10, <2>1, StretchIs, Zenon DEF e
  <2> QED
    BY <2>1, <2>2, <2>3
<1>13. (a + 1) - 1 = a
  BY <1>1
<1> HIDE DEF fields, h, i, j
<1>14. /\ Len(fields) = 4 /\ fields[2] = V /\ fields[3] = G /\ fields[Len(fields)] = last
  BY <1>7, <1>8, Zenon
<1> DEFINE before(l) == CHOOSE m \in DOMAIN l : l[m] = "." /\ \A k \in 1 .. m - 1 : l[k] # "."
<1>15. before(last) = a + 1
  BY <1>11, Zenon DEF first
<1> HIDE DEF before
<1>16. ASSUME NEW l, l = last
       PROVE  SubSeq(l, 1, before(l) - 1) = A /\ SubSeq(l, before(l) + 1, Len(l)) = E
  BY <1>12, <1>13, <1>15, <1>16, Zenon
<1>17. /\ SubSeq(fields[Len(fields)], 1, before(fields[Len(fields)]) - 1) = A
       /\ SubSeq(fields[Len(fields)], before(fields[Len(fields)]) + 1, Len(fields[Len(fields)])) = E
  BY <1>14, <1>16, Zenon
<1>18. Apart(fields, V, G, A, E)
  BY <1>14, <1>17, Zenon DEF Apart, before
<1> QED
  BY <1>18, Zenon DEF fields, w

(* From every release name its tag, system, architecture and extension can *)
(* be read back, so that different arguments never give one name           *)
(* (naming.go, ArtifactName).                                              *)
THEOREM NamesTellTheirFields == Spec => []NameTellsFields
<1>1. NamingInv => NameTellsFields
  <2> SUFFICES ASSUME NamingInv, result = "named" PROVE NameTellsFields
    BY Zenon DEF NameTellsFields
  <2> DEFINE V == Tail(arg.version)
  <2>1. /\ "version" \in Fields /\ "goos" \in Fields /\ "goarch" \in Fields /\ "extension" \in Fields
    BY DEF Fields
  <2>2. /\ StableTag(arg.version) /\ Label(arg.goos) /\ Label(arg.goarch) /\ Suffix(arg.extension)
    BY <2>1, Grammars DEF NamingInv, GrammarExact
  <2>3. /\ arg.version \in Seq(Alphabet) /\ arg.goos \in Seq(Alphabet) /\ arg.goarch \in Seq(Alphabet)
        /\ arg.extension \in Seq(Alphabet)
    BY <2>1 DEF NamingInv, NamingType
  <2>4. /\ arg.version # <<>> /\ \A k \in DOMAIN arg.version : arg.version[k] # underscore
        /\ \A k \in DOMAIN arg.goos : arg.goos[k] \notin {underscore, "."}
        /\ \A k \in DOMAIN arg.goarch : arg.goarch[k] \notin {underscore, "."}
        /\ \A k \in DOMAIN arg.extension : arg.extension[k] # underscore
    BY <2>2, <2>3, NoUnderscore, Zenon
  <2>5. V \in Seq(Alphabet) /\ \A k \in DOMAIN V : V[k] # underscore
    <3>1. /\ V \in Seq(Alphabet) /\ Len(V) = Len(arg.version) - 1
          /\ \A k \in 1 .. Len(V) : V[k] = arg.version[k + 1]
      BY <2>3, <2>4, HeadTailProperties
    <3> HIDE DEF V
    <3> QED
      BY <2>3, <2>4, <3>1
  <2>6. name = NameOf(V, arg.goos, arg.goarch, arg.extension)
    BY Zenon DEF name, NameOf, underscore
  <2>7. /\ \A k \in DOMAIN arg.goos : arg.goos[k] # underscore
        /\ \A k \in DOMAIN arg.goarch : arg.goarch[k] # underscore
        /\ \A k \in DOMAIN arg.goarch : arg.goarch[k] # "."
    BY <2>4, Zenon
  <2> HIDE DEF V
  <2> QED
    <3>1. Apart(Split(NameOf(V, arg.goos, arg.goarch, arg.extension), underscore),
                V, arg.goos, arg.goarch, arg.extension)
      BY <2>3, <2>4, <2>5, <2>7, NameComesApart, Zenon
    <3>2. Apart(Split(name, "_"), V, arg.goos, arg.goarch, arg.extension)
      BY <2>6, <3>1, Zenon DEF underscore
    <3> QED
      BY <3>2, Zenon DEF NameTellsFields, Apart, V
<1> QED
  BY <1>1, InitNaming, NamingStep, PTL DEF Spec
=============================================================================
