---------------------------- MODULE GuardedWrite ----------------------------
(***************************************************************************)
(* What Engine.Inspect and Engine.Write of diskforge.go promise, without   *)
(* how: a call passes its gates, opens the target, extends the data on it, *)
(* makes them durable, and ends.  Execute and Command implement it.        *)
(***************************************************************************)
EXTENDS Integers, Sequences

CONSTANTS Chunk,
          Covers(_, _),  \* an inspection is of the very hardware and image of a receipt
          Image(_)       \* the expansion of the file with this digest

VARIABLES ask,       \* the request of the last call
          call,      \* "none", before the opening "gates", after it "open"
          intact,    \* nobody has changed the source in place while the call read it
          data,      \* what the call has written to the target
          durable,   \* what of it survives a crash
          rebooted,
          outcome,   \* of the last call: "none", "ok", or an error
          shown,     \* the inspections the operator has received
          written    \* receipts: what received data, and for what request

vars == <<ask, call, intact, data, durable, rebooted, outcome, shown, written>>

Init ==
  /\ call = "none" /\ outcome = "none" /\ ~rebooted
  /\ data = <<>> /\ durable = <<>> /\ shown = {} /\ written = {}

Complete ==
  /\ Len(data) = ask.expected /\ durable = data
  /\ intact => data = Image(ask.sha)

\* A call is made: it is refused at once, or meets its gates.  There is none
\* after the machine was rebooted.
Begin ==
  /\ call = "none" /\ ~rebooted
  /\ data' = <<>> /\ durable' = <<>> /\ intact'
  /\ \/ call' = "gates" /\ outcome' = "none"
     \/ call' = "none" /\ outcome' \notin {"none", "ok"}
  /\ UNCHANGED <<rebooted, shown, written>>

\* Other processes change the source in place while it is read.
Tamper ==
  /\ call # "none" /\ ~intact'
  /\ UNCHANGED <<ask, call, data, durable, rebooted, outcome, shown, written>>

\* An inspection or a dry run ends: the operator receives what it found.
Show ==
  /\ call = "gates" /\ ask.op # "write"
  /\ \E s \in shown' : shown' = shown \union {s}
  /\ call' = "none" /\ outcome' = "ok"
  /\ UNCHANGED <<ask, intact, data, durable, rebooted, written>>

\* The target is opened, for an operator who confirmed an inspection and, on
\* a live machine, agreed to the reboot.
Open ==
  /\ call = "gates" /\ ask.op = "write"
  /\ \E s \in shown : s.token = ask.token
  /\ ask.mode = "live" => ask.reboot
  /\ call' = "open"
  /\ UNCHANGED <<ask, intact, data, durable, rebooted, outcome, shown, written>>

\* One more chunk is written, to hardware that the confirmed inspection
\* covers.
Write ==
  /\ call = "open" /\ Len(data) < ask.expected
  /\ \E c \in Chunk : data' = Append(data, c)
  /\ \E t \in written' :
       /\ written' = written \union {t}
       /\ t.token = ask.token /\ t.sha = ask.sha /\ t.expected = ask.expected
       /\ \E s \in shown : Covers(s, t)
  /\ UNCHANGED <<ask, call, intact, durable, rebooted, outcome, shown>>

Sync ==
  /\ call = "open" /\ Len(data) = ask.expected
  /\ durable' = data
  /\ UNCHANGED <<ask, call, intact, data, rebooted, outcome, shown, written>>

\* A write to a disk of the rescue system succeeds.
Succeed ==
  /\ call = "open" /\ ask.mode = "rescue" /\ Complete
  /\ call' = "none" /\ outcome' = "ok"
  /\ UNCHANGED <<ask, intact, data, durable, rebooted, shown, written>>

\* A live write ends with the reboot of the machine it has overwritten.
Reboot ==
  /\ call = "open" /\ ask.mode = "live" /\ Complete
  /\ rebooted' /\ call' = "none" /\ outcome' # "none"
  /\ UNCHANGED <<ask, intact, data, durable, shown, written>>

\* A call fails, or its process is killed.
Fail ==
  /\ call # "none"
  /\ call' = "none" /\ outcome' \notin {"none", "ok"}
  /\ UNCHANGED <<ask, intact, data, durable, rebooted, shown, written>>

\* Between two calls the process that made one ends.
Forget ==
  /\ call = "none" /\ outcome' # "ok"
  /\ UNCHANGED <<ask, call, intact, data, durable, rebooted, shown, written>>

Next ==
  Begin \/ Tamper \/ Show \/ Open \/ Write \/ Sync \/ Succeed \/ Reboot \/ Fail \/ Forget

Spec == Init /\ [][Next]_vars
=============================================================================
