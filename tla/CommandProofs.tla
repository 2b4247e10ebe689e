--------------------------- MODULE CommandProofs ---------------------------
(***************************************************************************)
(* The command line over the guarded write, for every sequence of commands *)
(* and of kills, on every machine.                                         *)
(***************************************************************************)
EXTENDS Command, ExecuteProofs

\* The prover of every leaf that names no other.
USE ZenonT(30)

\* Where the process and the call stand, and what the operator has read.
FlowInv ==
  /\ step \in {"shell", "parse", "encode"} => pc = "idle"
  /\ pc # "idle" => step = "engine" /\ cmd # "stage" /\ result = "none"
  /\ step # "shell" => exit = Killed /\ err = NoError
  /\ printed \subseteq shown

\* What a write command that goes well has done, from the end of the call to
\* the end of the process.
DoneInv ==
  cmd = "write" /\ req.op = "write" =>
    /\ step = "engine" /\ result = "ok" => Done
    /\ step = "encode" => Done
    /\ exit = exitSuccess => out /\ err = NoError /\ Done

\* What a write command that is refused has not done.
RefusedInv ==
  cmd = "write" =>
    /\ step = "engine" /\ pc = "idle" /\ result \notin Late \union {"none"} => dest = <<>>
    /\ exit = exitGate /\ err.code # "invalid_image_size" => dest = <<>>

\* The inductive invariant.
CliInv == AllInv /\ HarmlessInv /\ FlowInv /\ DoneInv /\ RefusedInv

----------------------------------------------------------------------------
(* The exit codes differ (main.go).                                        *)
LEMMA ExitCodes ==
  /\ Killed = -1
  /\ exitSuccess \notin {Killed, exitOperational, exitUsage, exitGate, exitCanceled}
  /\ exitGate \notin {Killed, exitOperational, exitUsage, exitCanceled}
BY SMTT(30) DEF Killed, exitSuccess, exitOperational, exitUsage, exitGate, exitCanceled

(* Only the refusal about the size can come after something was written    *)
(* (diskforge.go, publicError).                                            *)
LEMMA GatesAreEarly ==
  ASSUME NEW code, publicError(code) \in GateCodes, publicError(code) # "invalid_image_size"
  PROVE  code \notin Late
<1>1. \A c \in Late \ {"size"} : publicError(c) = c
  BY DEF Late, publicError
<1>2. publicError("size") = "invalid_image_size"
  BY DEF publicError
<1>3. Late \cap GateCodes = {}
  BY DEF Late, GateCodes
<1> QED
  BY <1>1, <1>2, <1>3

(* What an exit does (main.go, writeError, usageError, apiError).          *)
LEMMA UsageExits ==
  ASSUME usageError \/ operationError
  PROVE  /\ exit' \in {exitUsage, exitOperational} /\ step' = "shell" /\ UNCHANGED <<cmd, printed>>
BY DEF usageError, operationError, Exit
LEMMA ApiExits ==
  ASSUME NEW code, apiError(code)
  PROVE  /\ exit' \in {exitGate, exitCanceled, exitOperational} /\ step' = "shell" /\ UNCHANGED <<cmd, printed>>
         /\ exit' = exitGate => publicError(code) \in GateCodes /\ err'.code = publicError(code)
<1>1. CASE publicError(code) \in GateCodes
  <2>1. Exit(exitGate, "gate", publicError(code))
    BY <1>1 DEF apiError
  <2>2. err' = [kind |-> "gate", code |-> publicError(code)] /\ exit' = exitGate /\ step' = "shell" /\ UNCHANGED <<cmd, printed>>
    BY <2>1 DEF Exit
  <2>3. err'.code = publicError(code)
    BY <2>2, SMTT(30)
  <2> QED
    BY <1>1, <2>2, <2>3
<1>2. CASE publicError(code) \notin GateCodes
  BY <1>2, ExitCodes DEF apiError, operationError, Exit
<1> QED
  BY <1>1, <1>2

----------------------------------------------------------------------------
(* The steps of the command line are steps of the kinds of CallProofs.     *)

(* A process that starts, and one that stages, make no call (main.go, run, *)
(* runStage).                                                              *)
LEMMA RestsAreSteps == ASSUME Rests PROVE Step /\ ImageStep
<1>1. Spares
  BY DEF Rests, Spares, callVars
<1> QED
  BY <1>1 DEF Step, ImageStep

(* A kill ends the call (the kernel closes the descriptors).               *)
LEMMA KillIsStep == ASSUME Kill PROVE Dies /\ ImageStep
<1>1. Ends("killed")
  BY DEF Kill, Ends, CloseSource, histVars
<1>2. Dies
  BY <1>1 DEF Kill, Dies, histVars
<1>3. Closes
  BY <1>1 DEF Ends, Return, Closes
<1> QED
  BY <1>2, <1>3 DEF ImageStep

(* What other processes and the kernel do leaves the call alone.           *)
LEMMA OutsideFrame == ASSUME Outside PROVE UNCHANGED <<pc, result, req, dest, shown>>
BY DEF Outside, Replug, ChangeMounts, ChangeSwaps, ChangeNode, KernelRemount, ImageMoves,
   nonImageVars, vars, imageVars, callVars, histVars

(* The token a process passes is one the operator has seen (main.go,       *)
(* runWrite).                                                              *)
LEMMA RunEngineStarts == ASSUME FlowInv, RunEngine PROVE Starts /\ Resets
<1>1. PICK r \in Requests, token \in {NoToken} \union {s.token : s \in printed} : Call(r, token, "live")
  BY DEF RunEngine
<1>2. token \in {NoToken} \union {s.token : s \in shown}
  BY <1>1 DEF FlowInv
<1> QED
  BY <1>1, <1>2, CallStarts

\* The steps of a process that only look at what the engine returned.
Reports == Unparsed \/ CloseStaged \/ RunVersion \/ Failed \/ Succeeded \/ encodeResult

LEMMA ReportsKeep == ASSUME Reports PROVE UNCHANGED vars
BY DEF Reports, Unparsed, CloseStaged, RunVersion, Failed, Succeeded, encodeResult

LEMMA CliSteps ==
  ASSUME FlowInv, CliNext \/ UNCHANGED <<vars, cliVars>> PROVE Step /\ ImageStep
<1>1. ASSUME UNCHANGED vars PROVE Step /\ ImageStep
  BY <1>1, MachineSteps DEF Step
<1>2. CASE Reports
  BY <1>1, <1>2, ReportsKeep
<1>3. CASE RunStage \/ \E c \in Commands : Begin(c)
  <2>1. step \in {"shell", "parse"}
    BY <1>3 DEF RunStage, Begin
  <2>2. Rests
    BY <1>3, <2>1 DEF FlowInv, RunStage, Begin, Rests
  <2> QED
    BY <2>2, RestsAreSteps
<1>4. CASE RunEngine
  BY <1>4, RunEngineStarts DEF Step, ImageStep
<1>5. CASE Program
  BY <1>5, ProgramSteps DEF Step
<1>6. CASE Machine \/ KernelRemount
  BY <1>6, MachineSteps DEF Step
<1>7. CASE Kill
  BY <1>7, KillIsStep DEF Step
<1> QED
  BY <1>1, <1>2, <1>3, <1>4, <1>5, <1>6, <1>7 DEF CliNext, Process, Reports

----------------------------------------------------------------------------
(* Every step keeps the flow (main.go, run).                               *)
LEMMA FlowKept ==
  ASSUME FlowInv, CliNext \/ UNCHANGED <<vars, cliVars>> PROVE FlowInv'
<1>1. ASSUME UNCHANGED <<vars, cliVars>> PROVE FlowInv'
  BY <1>1 DEF FlowInv, vars, cliVars, histVars
<1>2. ASSUME NEW c \in Commands, Begin(c) PROVE FlowInv'
  <2>1. UNCHANGED <<pc, shown, printed>> /\ step = "shell" /\ step' = "parse" /\ exit' = Killed /\ err' = NoError
    BY <1>2 DEF Begin, histVars, Killed
  <2> QED
    BY <2>1 DEF FlowInv
<1>3. CASE Reports
  <2>1. UNCHANGED <<pc, shown, result>>
    BY <1>3, ReportsKeep DEF vars, histVars
  <2>2. CASE Unparsed
    BY <2>1, <2>2, UsageExits DEF FlowInv, Unparsed
  <2>3. CASE CloseStaged
    <3>1. pc = "idle"
      BY <2>3 DEF CloseStaged, FlowInv
    <3> QED
      BY <2>1, <2>3, <3>1, UsageExits DEF FlowInv, CloseStaged
  <2>4. CASE RunVersion
    BY <2>1, <2>4 DEF FlowInv, RunVersion
  <2>5. CASE Failed
    BY <2>1, <2>5, ApiExits DEF FlowInv, Failed, Returned
  <2>6. CASE Succeeded
    BY <2>1, <2>6 DEF FlowInv, Succeeded, Returned
  <2>7. CASE encodeResult
    <3>1. step' = "shell" /\ printed' \subseteq printed \union shown /\ pc = "idle"
      BY <2>7, UsageExits DEF FlowInv, encodeResult
    <3> QED
      BY <2>1, <3>1 DEF FlowInv
  <2> QED
    BY <1>3, <2>2, <2>3, <2>4, <2>5, <2>6, <2>7 DEF Reports
<1>4. CASE RunEngine
  <2>1. step = "parse" /\ step' = "engine" /\ cmd # "stage" /\ UNCHANGED <<cmd, exit, err, printed>>
    BY <1>4 DEF RunEngine
  <2>2. (pc' = "idle" \/ result' = "none") /\ shown' = shown
    BY <1>4, RunEngineStarts DEF Starts, histVars
  <2> QED
    BY <2>1, <2>2 DEF FlowInv
<1>5. CASE RunStage
  <2>1. step = "parse" /\ step' = "engine" /\ UNCHANGED <<exit, err, printed, pc, shown>>
    BY <1>5 DEF RunStage, histVars
  <2> QED
    BY <2>1 DEF FlowInv
<1>6. CASE Program /\ UNCHANGED cliVars
  <2>1. Runs /\ pc # "idle" /\ UNCHANGED <<cmd, step, exit, err, printed>>
    BY <1>6, ProgramSteps DEF cliVars
  <2>2. shown \subseteq shown' /\ (pc' = "idle" \/ result' = result)
    BY <2>1, RunsFrame, RunsShowMore DEF CallEnds, Ends, Return
  <2> QED
    BY <2>1, <2>2 DEF FlowInv
<1>7. CASE (Machine \/ KernelRemount) /\ UNCHANGED cliVars
  <2>1. UNCHANGED <<cmd, step, exit, err, printed, pc, shown, result>>
    BY <1>7, MachineSteps, OutsideFrame DEF cliVars
  <2> QED
    BY <2>1 DEF FlowInv
<1>8. CASE Kill
  <2>1. pc' = "idle" /\ step' = "shell" /\ UNCHANGED <<printed, shown>>
    BY <1>8 DEF Kill, Return, histVars
  <2> QED
    BY <2>1 DEF FlowInv
<1> QED
  BY <1>1, <1>2, <1>3, <1>4, <1>5, <1>6, <1>7, <1>8 DEF CliNext, Process, Reports

----------------------------------------------------------------------------
(* A report leaves what the call did: a write command that exits with 0,   *)
(* and one that is refused, come from a call that ended that way (main.go, *)
(* runWrite, apiError, encodeResult).                                      *)
LEMMA ReportsTrue == ASSUME CliInv, Reports PROVE DoneInv' /\ RefusedInv'
<1>1. UNCHANGED <<pc, result, req, dest, durable, changed, rebooted>>
  BY ReportsKeep DEF vars, imageVars, callVars, liveVars
<1>2. AllInv /\ FlowInv /\ DoneInv /\ RefusedInv
  BY DEF CliInv
<1>3. ASSUME pc = "idle", Done PROVE Done'
  BY <1>1, <1>2, <1>3, StaysDone
<1> DEFINE Ordinary == exit' \notin {exitSuccess, exitGate} /\ step' = "shell" /\ cmd' = cmd
<1>4. ASSUME Ordinary PROVE DoneInv' /\ RefusedInv'
  BY <1>4 DEF DoneInv, RefusedInv
<1>5. ASSUME usageError \/ operationError PROVE Ordinary
  BY <1>5, UsageExits, ExitCodes
<1>6. ASSUME cmd' # "write" PROVE DoneInv' /\ RefusedInv'
  BY <1>6 DEF DoneInv, RefusedInv
<1>7. CASE Unparsed
  BY <1>4, <1>5, <1>7 DEF Unparsed
<1>8. CASE CloseStaged
  BY <1>4, <1>5, <1>6, <1>8 DEF CloseStaged
<1>9. CASE RunVersion
  BY <1>6, <1>9 DEF RunVersion
<1>10. CASE Failed
  <2>1. Returned /\ result \notin {"ok", "none"} /\ apiError(result)
    BY <1>10 DEF Failed, Returned
  <2>2. /\ exit' # exitSuccess /\ step' = "shell" /\ cmd' = cmd
        /\ exit' = exitGate => publicError(result) \in GateCodes /\ err'.code = publicError(result)
    BY <2>1, ApiExits, ExitCodes
  <2>3. DoneInv'
    BY <2>2 DEF DoneInv
  <2>4. ASSUME cmd = "write", exit' = exitGate, err'.code # "invalid_image_size" PROVE dest' = <<>>
    <3>1. result \notin Late
      BY <2>2, <2>4, GatesAreEarly
    <3> QED
      BY <1>1, <1>2, <2>1, <2>4, <3>1 DEF RefusedInv, Returned
  <2>5. RefusedInv'
    BY <2>2, <2>4 DEF RefusedInv
  <2> QED
    BY <2>3, <2>5
<1>11. CASE Succeeded
  <2>1. Returned /\ result = "ok" /\ step' = "encode" /\ UNCHANGED <<cmd, exit, out, err>>
    BY <1>11 DEF Succeeded
  <2>2. exit' = Killed /\ exit' # exitSuccess /\ exit' # exitGate
    BY <1>2, <2>1, ExitCodes DEF Returned, FlowInv
  <2>3. cmd = "write" /\ req.op = "write" => Done'
    BY <1>2, <1>3, <2>1 DEF DoneInv, Returned
  <2> QED
    BY <1>1, <2>1, <2>2, <2>3 DEF DoneInv, RefusedInv
<1>12. CASE encodeResult
  <2>1. CASE operationError
    BY <1>4, <1>5, <2>1
  <2>2. CASE ~operationError
    <3>1. /\ step = "encode" /\ exit' = exitSuccess /\ step' = "shell" /\ out' = TRUE /\ UNCHANGED <<cmd, err>>
          /\ pc = "idle" /\ err = NoError
      BY <1>2, <1>12, <2>2 DEF encodeResult, FlowInv
    <3>2. cmd = "write" /\ req.op = "write" => Done'
      BY <1>2, <1>3, <3>1 DEF DoneInv
    <3>3. exit' # exitGate
      BY <3>1, ExitCodes
    <3> QED
      BY <1>1, <3>1, <3>2, <3>3 DEF DoneInv, RefusedInv
  <2> QED
    BY <2>1, <2>2
<1> QED
  BY <1>7, <1>8, <1>9, <1>10, <1>11, <1>12 DEF Reports

(* While the process waits for the engine no exit code is set: what counts *)
(* is how the call ends (execute.go, Execute; main.go, runWrite).          *)
LEMMA CallsTrue ==
  ASSUME CliInv, RunEngine \/ (Program /\ UNCHANGED cliVars)
  PROVE  DoneInv' /\ RefusedInv'
<1>1. AllInv /\ HarmlessInv /\ FlowInv
  BY DEF CliInv
<1>2. CASE RunEngine
  <2>1. step' = "engine" /\ exit' = Killed
    BY <1>1, <1>2 DEF RunEngine, FlowInv
  <2>2. exit' # exitSuccess /\ exit' # exitGate
    BY <2>1, ExitCodes
  <2>3. result' # "ok" /\ dest' = <<>>
    BY <1>1, <1>2, RunEngineStarts DEF Starts
  <2> QED
    BY <2>1, <2>2, <2>3 DEF DoneInv, RefusedInv
<1>3. CASE Program /\ UNCHANGED cliVars
  <2>1. Runs /\ pc # "idle" /\ UNCHANGED <<step, exit, cmd>>
    BY <1>3, ProgramSteps DEF cliVars
  <2>2. step' = "engine" /\ exit' = Killed /\ result = "none"
    BY <1>1, <2>1 DEF FlowInv
  <2>3. exit' # exitSuccess /\ exit' # exitGate
    BY <2>2, ExitCodes
  <2>4. CASE ~CallEnds
    <3>1. result' = "none"
      BY <2>1, <2>2, <2>4, RunsFrame
    <3> QED
      BY <2>2, <2>3, <3>1 DEF DoneInv, RefusedInv
  <2>5. CASE CallEnds
    <3>1. PICK code : Ends(code) /\ Outcome(code)
      BY <2>5 DEF CallEnds
    <3>2. result' = code /\ req' = req
      BY <3>1 DEF Ends, Return
    <3>3. ASSUME code = "ok", req.op = "write" PROVE Done'
      BY <1>1, <3>1, <3>3, EndsDone
    <3>4. ASSUME code \notin Late PROVE dest' = <<>>
      BY <1>1, <3>1, <3>4, EarlyEndIsHarmless
    <3> QED
      BY <2>2, <2>3, <3>2, <3>3, <3>4 DEF DoneInv, RefusedInv
  <2> QED
    BY <2>4, <2>5
<1> QED
  BY <1>2, <1>3

(* A new process, a stage, a kill and the rest of the machine leave what   *)
(* was reported true (main.go, run; the kernel).                           *)
LEMMA OthersTrue ==
  ASSUME CliInv,
         \/ RunStage \/ Kill \/ \E c \in Commands : Begin(c)
         \/ (Machine \/ KernelRemount) /\ UNCHANGED cliVars
         \/ UNCHANGED <<vars, cliVars>>
  PROVE  DoneInv' /\ RefusedInv'
<1>1. AllInv /\ FlowInv /\ DoneInv /\ RefusedInv
  BY DEF CliInv
<1>2. CASE RunStage
  BY <1>2 DEF RunStage, DoneInv, RefusedInv
<1>3. CASE Kill \/ \E c \in Commands : Begin(c)
  <2>1. exit' = Killed /\ step' \in {"shell", "parse"}
    BY <1>3 DEF Kill, Begin, Killed
  <2>2. exit' # exitSuccess /\ exit' # exitGate
    BY <2>1, ExitCodes
  <2> QED
    BY <2>1, <2>2 DEF DoneInv, RefusedInv
<1>4. CASE ((Machine \/ KernelRemount) /\ UNCHANGED cliVars) \/ UNCHANGED <<vars, cliVars>>
  <2>1. Outside /\ UNCHANGED cliVars
    BY <1>4, MachineSteps
  <2>2. UNCHANGED <<cmd, step, exit, out, err, pc, result, req, dest>>
    BY <2>1, OutsideFrame DEF cliVars
  <2>3. ASSUME pc = "idle", Done PROVE Done'
    BY <1>1, <2>1, <2>3, StaysDone
  <2>4. ASSUME exit = exitSuccess PROVE pc = "idle"
    BY <1>1, <2>4, ExitCodes DEF FlowInv
  <2>5. ASSUME result = "ok" PROVE pc = "idle"
    BY <1>1, <2>5 DEF FlowInv
  <2>6. ASSUME step = "encode" PROVE pc = "idle"
    BY <1>1, <2>6 DEF FlowInv
  <2>7. DoneInv'
    BY <1>1, <2>2, <2>3, <2>4, <2>5, <2>6 DEF DoneInv
  <2>8. RefusedInv'
    BY <1>1, <2>2 DEF RefusedInv
  <2> QED
    BY <2>7, <2>8
<1> QED
  BY <1>2, <1>3, <1>4

LEMMA CliKept ==
  ASSUME CliInv, CliNext \/ UNCHANGED <<vars, cliVars>> PROVE CliInv'
<1>1. AllInv /\ HarmlessInv /\ FlowInv
  BY DEF CliInv
<1>2. Step /\ ImageStep
  BY <1>1, CliSteps
<1>3. AllInv' /\ HarmlessInv'
  BY <1>1, <1>2, AllKept, HarmlessKept
<1>4. FlowInv'
  BY <1>1, FlowKept
<1>5. DoneInv' /\ RefusedInv'
  BY ReportsTrue, CallsTrue, OthersTrue DEF CliNext, Process, Reports
<1> QED
  BY <1>3, <1>4, <1>5 DEF CliInv

LEMMA CliInvariant == CliSpec => []CliInv
<1>1. CliInit => CliInv
  <2> SUFFICES ASSUME CliInit PROVE CliInv
    OBVIOUS
  <2>1. AllInv /\ StateInit
    BY AllInitially DEF CliInit, Init
  <2>2. HarmlessInv
    BY <2>1, HarmlessInitially
  <2>3. FlowInv
    BY <2>1 DEF CliInit, StateInit, FlowInv
  <2>4. exit # exitSuccess /\ exit # exitGate
    BY ExitCodes DEF CliInit
  <2> QED
    BY <2>1, <2>2, <2>3, <2>4 DEF CliInit, CliInv, DoneInv, RefusedInv
<1>2. CliInv /\ [CliNext]_<<vars, cliVars>> => CliInv'
  BY CliKept
<1> QED
  BY <1>1, <1>2, PTL DEF CliSpec

----------------------------------------------------------------------------
(* The contract, for processes that may be killed.                         *)

(* While the command is not stage, the shell sees the call as its caller   *)
(* does (main.go, runInspect and runWrite).                                *)
LEMMA ShellSeesCall ==
  ASSUME Allowed, cmd # "stage", cmd' # "stage" PROVE P!Next \/ UNCHANGED P!vars
<1> DEFINE outcome == IF cmd = "stage" THEN "none" ELSE result
<1>1. outcome = result /\ outcome' = result'
  OBVIOUS
<1> HIDE DEF outcome
<1>2. UNCHANGED G!vars => UNCHANGED P!vars
  BY <1>1 DEF G!vars, P!vars, outcome
<1>3. G!Begin \/ G!Tamper \/ G!Show => P!Begin \/ P!Tamper \/ P!Show
  BY DEF G!Begin, G!Tamper, G!Show, P!Begin, P!Tamper, P!Show
<1>4. G!Open \/ G!Write \/ G!Sync => P!Open \/ P!Write \/ P!Sync
  BY DEF G!Open, G!Write, G!Sync, P!Open, P!Write, P!Sync
<1>5. G!Succeed \/ G!Reboot => P!Succeed \/ P!Reboot
  BY DEF G!Succeed, G!Reboot, P!Succeed, P!Reboot, G!Complete, P!Complete
<1>6. G!Fail \/ G!Forget => P!Fail \/ P!Forget
  BY DEF G!Fail, G!Forget, P!Fail, P!Forget
<1> QED
  BY <1>2, <1>3, <1>4, <1>5, <1>6 DEF Allowed, G!Next, P!Next

(* A kill is a call that failed, or comes between two calls (main.go).     *)
LEMMA KillAllowed == ASSUME FlowInv, Kill PROVE P!Next \/ UNCHANGED P!vars
<1>1. /\ UNCHANGED <<req, dest, durable, changed, rebooted, shown, touched, cmd>>
      /\ pc' = "idle" /\ result' = "killed" /\ reached' = "none"
  BY ReachedNext DEF Kill, Return, CloseSource, histVars
<1>2. CASE pc # "idle"
  <2>1. cmd # "stage" /\ reached # "none"
    BY <1>2, Reached DEF FlowInv
  <2>2. P!Fail
    BY <1>1, <2>1 DEF P!Fail
  <2> QED
    BY <2>2 DEF P!Next
<1>3. CASE pc = "idle"
  <2>1. reached = "none"
    BY <1>3, Reached
  <2>2. P!Forget
    BY <1>1, <2>1 DEF P!Forget
  <2> QED
    BY <2>2 DEF P!Next
<1> QED
  BY <1>2, <1>3

(* Every step of the command line is allowed (main.go, run).               *)
LEMMA CommandsAllowed ==
  ASSUME CliInv, CliInv', FreshInv, CliNext \/ UNCHANGED <<vars, cliVars>>
  PROVE  P!Next \/ UNCHANGED P!vars
<1>1. AllInv /\ AllInv' /\ FlowInv /\ GateInv
  BY DEF CliInv, AllInv
<1>2. ASSUME UNCHANGED <<pc, req, dest, durable, changed, rebooted, shown, touched>>,
             cmd' = cmd, result' = result \/ cmd = "stage"
      PROVE  UNCHANGED P!vars
  BY <1>2 DEF P!vars, reached
<1>3. CASE Reports \/ UNCHANGED <<vars, cliVars>>
  <2>1. UNCHANGED vars /\ cmd' = cmd
    BY <1>3, ReportsKeep, UsageExits, ApiExits DEF Reports, Unparsed, CloseStaged, RunVersion, Failed, Succeeded,
       encodeResult, cliVars
  <2> QED
    BY <1>2, <2>1 DEF vars, imageVars, callVars, liveVars, histVars
<1>4. ASSUME NEW c \in Commands, Begin(c) PROVE P!Next
  <2>1. pc = "idle" /\ reached = "none" /\ result' = "none"
        /\ UNCHANGED <<pc, req, dest, durable, changed, rebooted, shown, touched>>
    BY <1>1, <1>4, Reached DEF Begin, FlowInv, imageVars, callVars, liveVars, histVars
  <2>2. reached' = reached
    BY <2>1 DEF reached
  <2>3. P!Forget
    BY <2>1, <2>2 DEF P!Forget
  <2> QED
    BY <2>3 DEF P!Next
<1>5. CASE RunStage
  BY <1>2, <1>5 DEF RunStage, imageVars, callVars, liveVars, histVars
<1>6. CASE RunEngine
  <2>1. Allowed /\ cmd # "stage" /\ cmd' = cmd
    BY <1>1, <1>6, RunEngineStarts, StartsAllowed DEF RunEngine
  <2> QED
    BY <2>1, ShellSeesCall
<1>7. CASE Program /\ UNCHANGED cliVars
  <2>1. Allowed /\ cmd # "stage" /\ cmd' = cmd
    BY <1>1, <1>7, ProgramSteps, StepsAllowed DEF FlowInv, cliVars
  <2> QED
    BY <2>1, ShellSeesCall
<1>8. CASE (Machine \/ KernelRemount) /\ UNCHANGED cliVars
  <2>1. Outside /\ Allowed /\ cmd' = cmd
    BY <1>1, <1>8, MachineSteps, OutsideAllowed DEF cliVars
  <2>2. CASE cmd = "stage"
    <3>1. src = NoInode
      BY <1>1, <2>2 DEF FlowInv, GateInv, Early
    <3>2. UNCHANGED <<pc, req, dest, durable, changed, rebooted, shown, touched>>
      BY <2>1, <3>1 DEF Outside, Replug, ChangeMounts, ChangeSwaps, ChangeNode, KernelRemount, ImageMoves,
         nonImageVars, vars, imageVars, callVars, liveVars, histVars
    <3> QED
      BY <1>2, <2>1, <2>2, <3>2
  <2> QED
    BY <2>1, <2>2, ShellSeesCall
<1>9. CASE Kill
  BY <1>1, <1>9, KillAllowed
<1> QED
  BY <1>3, <1>4, <1>5, <1>6, <1>7, <1>8, <1>9 DEF CliNext, Process, Reports

----------------------------------------------------------------------------
(* On every machine and for every sequence of commands and kills: a write  *)
(* command that exits with 0 has said so on stdout and has left exactly    *)
(* the requested image, durably (main.go, runWrite, encodeResult).         *)
THEOREM ExitZeroMeansDone == CliSpec => []ExitZeroIsDone
<1>1. CliInv => ExitZeroIsDone
  BY DEF CliInv, DoneInv, Done, ExitZeroIsDone
<1> QED
  BY CliInvariant, <1>1, PTL

(* A write command that a gate refuses has written nothing, unless the     *)
(* refusal is about the size (main.go, apiError; diskforge.go,             *)
(* publicError).                                                           *)
THEOREM RefusalsAreHarmless == CliSpec => []RefusalIsHarmless
<1>1. CliInv => RefusalIsHarmless
  BY DEF CliInv, RefusedInv, RefusalIsHarmless
<1> QED
  BY CliInvariant, <1>1, PTL

(* Between processes that may be killed at any moment, still nothing is    *)
(* written without the operator's consent, no target is open before the    *)
(* gates, and none is open between two calls (main.go; execute.go,         *)
(* Execute).                                                               *)
THEOREM CommandsKeepTheGates ==
  CliSpec => [](ConsentBound /\ GatesBeforeOpen /\ DescriptorsReleased /\ LargeEnough)
<1>1. CliInv => ConsentBound /\ LargeEnough
  BY DEF CliInv, AllInv, ConsentInv, CapacityInv
<1>2. CliInv => GatesBeforeOpen /\ DescriptorsReleased
  BY AllBehindGates, GateResults DEF CliInv, AllInv
<1> QED
  BY CliInvariant, <1>1, <1>2, PTL

(* On every machine and for every sequence of commands and kills, what the *)
(* command line does with the engine is a behaviour of the contract        *)
(* (main.go, runInspect and runWrite).                                     *)
THEOREM CommandsImplementContract == CliSpec => CommandsKeepContract
<1>1. CliInit => P!Init /\ FreshInv
  <2> SUFFICES ASSUME CliInit PROVE P!Init /\ FreshInv
    OBVIOUS
  <2>1. /\ pc = "idle" /\ result = "none" /\ rebooted = FALSE /\ shown = {} /\ touched = {}
        /\ dest = <<>> /\ durable = <<>>
    BY DEF CliInit, Init, StateInit, W!Idle
  <2> QED
    BY <2>1, Reached DEF P!Init, FreshInv
<1>2. CliInv /\ FreshInv /\ [CliNext]_<<vars, cliVars>> => FreshInv'
  BY CliSteps, FreshKept DEF CliInv, AllInv
<1>3. CliInv /\ CliInv' /\ FreshInv /\ [CliNext]_<<vars, cliVars>> => [P!Next]_P!vars
  BY CommandsAllowed
<1> QED
  BY CliInvariant, <1>1, <1>2, <1>3, PTL DEF CliSpec, CommandsKeepContract, P!Spec
=============================================================================
