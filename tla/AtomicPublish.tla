--------------------------- MODULE AtomicPublish ---------------------------
(***************************************************************************)
(* What internal/image/stage.go promises ("downloads into a same-directory *)
(* partial and atomically publishes it"), said of the destination alone.   *)
(* The destination always holds one whole value: the one it held before,   *)
(* or an image some call was asked for.  Values that a loss of power may   *)
(* still bring back are in maybe; a call succeeds only after its value, or *)
(* one published after it, is the only one left there.                     *)
(***************************************************************************)
CONSTANTS Caller,
          Image(_),     \* the image a call was asked for
          Before        \* what the destination may hold at first

VARIABLES file, maybe, state

pubVars == <<file, maybe, state>>

Init == file \in Before /\ maybe = {file} /\ state = [c \in Caller |-> "open"]

Publish(c) ==
  /\ state[c] = "open"
  /\ file' = Image(c) /\ maybe' = maybe \union {Image(c)}
  /\ state' = [state EXCEPT ![c] = "published"]

Settle(c) ==
  /\ state[c] = "published"
  /\ maybe' = {file} /\ state' = [state EXCEPT ![c] = "settled"]
  /\ UNCHANGED file

Succeed(c) ==
  /\ state[c] = "settled"
  /\ state' = [state EXCEPT ![c] = "ok"]
  /\ UNCHANGED <<file, maybe>>

Fail(c) ==
  /\ state[c] \in {"open", "published", "settled"}
  /\ state' = [state EXCEPT ![c] = "failed"]
  /\ UNCHANGED <<file, maybe>>

\* A loss of power ends the calls in D and decides which value is there.
PowerLoss(D) ==
  /\ \A c \in D : state[c] # "ok"
  /\ \E f \in maybe : file' = f /\ maybe' = {f}
  /\ state' = [c \in Caller |-> IF c \in D THEN "failed" ELSE state[c]]

Next ==
  \/ \E c \in Caller : Publish(c) \/ Settle(c) \/ Succeed(c) \/ Fail(c)
  \/ \E D \in SUBSET Caller : PowerLoss(D)

Spec == Init /\ [][Next]_pubVars
=============================================================================
