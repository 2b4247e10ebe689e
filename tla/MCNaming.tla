------------------------------ MODULE MCNaming ------------------------------
(* Every text over small alphabets: tags of up to seven characters, labels *)
(* and extensions of up to one more than the limit.                        *)
EXTENDS Naming

CONSTANTS MaxTag, MaxText

TextsOver(chars, n) == UNION {[1 .. k -> chars] : k \in 0 .. n}
MCTexts == [f \in Fields |->
  IF f = "version" THEN TextsOver({"v", "0", "1", "."}, MaxTag)
  ELSE TextsOver({"a", "-", "_", "."}, MaxText)]
=============================================================================
