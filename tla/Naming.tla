------------------------------- MODULE Naming -------------------------------
(***************************************************************************)
(* The names of release archives, internal/naming/naming.go: ArtifactName  *)
(* validates a tag, two labels and an extension, one after the other, and  *)
(* puts the name together.  A text is a sequence of characters; the        *)
(* limits, 63 and 255 bytes in the code, are constants.  The arguments are *)
(* chosen when the code first looks at them.                               *)
(***************************************************************************)
EXTENDS Naturals, Sequences, FiniteSets

CONSTANTS maxLabelLength, maxArtifactNameLength,
          Lower, Digit,       \* the lowercase letters and the digits
          Texts               \* for each argument, the texts it may be

VARIABLES arg,       \* the arguments validated so far and the one rejected
          field,     \* the argument looked at next, "scan", "name", or "done"
          index,     \* the loop of validExtension: the character looked at
          previousWasSeparator,
          result     \* "none", "named", or what the error names

scanVars == <<index, previousWasSeparator>>
vars == <<arg, field, scanVars, result>>

Fields == {"version", "goos", "goarch", "extension"}
ASSUME NamingAssumption ==
  /\ maxLabelLength \in Nat /\ maxArtifactNameLength \in Nat
  /\ DOMAIN Texts = Fields /\ \A f \in Fields : Texts[f] \subseteq Seq(STRING)
  /\ "v" \in Lower /\ "0" \in Digit
  /\ \A c \in {".", "-", "_"} : c \notin Lower \union Digit
----------------------------------------------------------------------------
isLowerAlphanumeric(c) == c \in Lower \union Digit

\* strings.Split(text, sep) for one character sep: the k-th part lies
\* between two neighbouring cuts.
cuts(text, sep) == {0, Len(text) + 1} \union {i \in DOMAIN text : text[i] = sep}
cut(text, sep, k) ==
  CHOOSE c \in cuts(text, sep) : Cardinality({b \in cuts(text, sep) : b < c}) = k
Split(text, sep) ==
  [k \in 1 .. Cardinality(cuts(text, sep)) - 1 |->
     SubSeq(text, cut(text, sep, k - 1) + 1, cut(text, sep, k) - 1)]

validNumericIdentifier(text) ==
  /\ text # <<>> /\ ~(Len(text) > 1 /\ text[1] = "0")
  /\ \A i \in DOMAIN text : text[i] \in Digit

ValidSemverTag(text) ==
  /\ Len(text) >= 6 /\ text[1] = "v"
  /\ LET components == Split(Tail(text), ".")
     IN  Len(components) = 3 /\ \A k \in 1 .. 3 : validNumericIdentifier(components[k])

ValidLabel(text) ==
  /\ text # <<>> /\ Len(text) <= maxLabelLength
  /\ isLowerAlphanumeric(text[1]) /\ isLowerAlphanumeric(text[Len(text)])
  /\ \A i \in 2 .. Len(text) - 1 : isLowerAlphanumeric(text[i]) \/ text[i] = "-"

----------------------------------------------------------------------------
(* ArtifactName, argument by argument.                                     *)

Judge(f, valid, next) ==
  IF valid THEN field' = next /\ UNCHANGED result ELSE field' = "done" /\ result' = f

Validate(f, valid, next) ==    \* valid: the texts that the check accepts
  /\ field = f
  /\ \E text \in Texts[f] : arg' = [arg EXCEPT ![f] = text] /\ Judge(f, text \in valid, next)
  /\ UNCHANGED scanVars

Version == Validate("version", {t \in Texts.version : ValidSemverTag(t)}, "goos")
Goos    == Validate("goos", {t \in Texts.goos : ValidLabel(t)}, "goarch")
Goarch  == Validate("goarch", {t \in Texts.goarch : ValidLabel(t)}, "extension")

\* validExtension: the length, the loop over the characters, and its end.
Extension ==
  Validate("extension", {t \in Texts.extension : Len(t) \in 1 .. maxLabelLength}, "scan")

ScanCharacter ==
  /\ field = "scan" /\ index <= Len(arg.extension)
  /\ LET character == arg.extension[index]
         word      == isLowerAlphanumeric(character)
     IN  /\ Judge("extension", word \/ (character \in {".", "-"} /\ ~previousWasSeparator), "scan")
         /\ previousWasSeparator' = ~word
  /\ index' = index + 1 /\ UNCHANGED arg

\* Mutant: whether the last character was a separator is not looked at.
ScanEnds_Trailing ==
  /\ field = "scan" /\ index > Len(arg.extension)
  /\ Judge("extension", TRUE, "name") /\ UNCHANGED <<arg, scanVars>>

ScanEnds ==
  /\ field = "scan" /\ index > Len(arg.extension)
  /\ Judge("extension", ~previousWasSeparator, "name") /\ UNCHANGED <<arg, scanVars>>

prefix == <<"diskforge", "_">>    \* the program's name counts as one character

\* Mutant: system and architecture are joined with a hyphen.
name_Hyphen ==
  prefix \o Tail(arg.version) \o <<"_">> \o arg.goos \o <<"-">> \o arg.goarch
  \o <<".">> \o arg.extension

name ==
  prefix \o Tail(arg.version) \o <<"_">> \o arg.goos \o <<"_">> \o arg.goarch
  \o <<".">> \o arg.extension

ArtifactName ==
  /\ field = "name" /\ field' = "done" /\ UNCHANGED <<arg, scanVars>>
  /\ result' = IF Len(name) > maxArtifactNameLength THEN "length" ELSE "named"

Init ==
  /\ arg = [f \in Fields |-> <<>>] /\ field = "version" /\ result = "none"
  /\ index = 1 /\ previousWasSeparator = TRUE
Next == Version \/ Goos \/ Goarch \/ Extension \/ ScanCharacter \/ ScanEnds \/ ArtifactName
Spec == Init /\ [][Next]_vars
----------------------------------------------------------------------------
(* The grammars of docs/contracts/naming.md, sections 3, 6 and 7.          *)

\* The characters from a to b are a number without leading zeros.
Numeral(text, a, b) ==
  a <= b /\ (\A i \in a .. b : text[i] \in Digit) /\ (a < b => text[a] # "0")

StableTag(text) ==
  \E i, j \in DOMAIN text :
    /\ i < j /\ text[1] = "v" /\ text[i] = "." /\ text[j] = "."
    /\ Numeral(text, 2, i - 1) /\ Numeral(text, i + 1, j - 1) /\ Numeral(text, j + 1, Len(text))

Word(text, i) == i \in DOMAIN text /\ isLowerAlphanumeric(text[i])

Label(text) ==
  /\ Len(text) \in 1 .. maxLabelLength /\ Word(text, 1) /\ Word(text, Len(text))
  /\ \A i \in DOMAIN text : Word(text, i) \/ text[i] = "-"

Suffix(text) ==
  /\ Len(text) \in 1 .. maxLabelLength
  /\ \A i \in DOMAIN text :
       \/ Word(text, i)
       \/ text[i] \in {".", "-"} /\ Word(text, i - 1) /\ Word(text, i + 1)

InGrammar(f, text) ==
  CASE f = "version"            -> StableTag(text)
    [] f \in {"goos", "goarch"} -> Label(text)
    [] f = "extension"          -> Suffix(text)

(* Every argument is judged by the naming contract's grammar, no text of   *)
(* the grammar is refused and no other is let through (naming.go,          *)
(* ValidSemverTag, ValidLabel and validExtension against                   *)
(* docs/contracts/naming.md).                                              *)
GrammarExact ==
  /\ result \in Fields => ~InGrammar(result, arg[result])
  /\ result \in {"named", "length"} => \A f \in Fields : InGrammar(f, arg[f])

(* A name tells its tag, system, architecture and extension: its fields    *)
(* are what stands between its first three underscores and, in the last of *)
(* them, before and after the first period.  So two different sets of      *)
(* arguments never give one name (naming.go, ArtifactName).                *)
NameTellsFields ==
  result = "named" =>
    LET fields == Split(name, "_")
        last   == fields[Len(fields)]
        period == CHOOSE i \in DOMAIN last :
                    last[i] = "." /\ \A j \in 1 .. i - 1 : last[j] # "."
    IN  /\ Len(fields) = 4
        /\ fields[2] = Tail(arg.version) /\ fields[3] = arg.goos
        /\ SubSeq(last, 1, period - 1) = arg.goarch
        /\ SubSeq(last, period + 1, Len(last)) = arg.extension
=============================================================================
