------------------------------ MODULE Command ------------------------------
(***************************************************************************)
(* The command line, cmd/diskforge/main.go, over the engine: one process   *)
(* after another parses its arguments, makes one engine call, and reports  *)
(* with an exit code, at most one object on stdout and at most one error   *)
(* object on stderr.  The process can be killed at any moment, and stdout  *)
(* and stderr may refuse what is written to them.  The context of a        *)
(* command is context.Background(): it is never canceled.                  *)
(***************************************************************************)
EXTENDS Execute

CONSTANT StageResults    \* how a call of Engine.Stage may end (module Stage)

VARIABLES cmd,       \* the command: "none", "inspect", "stage", "write", "version"
          step,      \* "shell", "parse", "engine" or "encode"
          exit,      \* the exit code of the last process, -1 while it runs or was killed
          out,       \* whether it put its result on stdout
          err,       \* the error object it built: [kind, code]
          printed    \* history: the inspections the operator has read on stdout

cliVars == <<cmd, step, exit, out, err, printed>>

exitSuccess     == 0
exitOperational == 1
exitUsage       == 2
exitGate        == 3
exitCanceled    == 4
Killed          == -1
NoError == [kind |-> "none", code |-> "none"]

----------------------------------------------------------------------------
(* Errors.  publicError turns refusals of the policy, and the digest and   *)
(* size errors of the image package, into gates with a code.               *)

GateCodes ==
  {"invalid_target", "invalid_digest", "invalid_image_size", "invalid_mode", "not_root",
   "target_partition", "target_too_small", "target_mounted", "target_swap", "source_on_target",
   "live_target_not_root", "live_source_not_tmpfs", "live_memory", "live_sysrq",
   "live_reboot_required", "confirmation_mismatch", "identity_changed"}

publicError(code) ==
  CASE code = "digest" -> "invalid_digest"
    [] code = "size"   -> "invalid_image_size"
    [] OTHER           -> code

\* writeError ignores an error of stderr: the exit code is all that is left.
Exit(code, kind, gate) ==
  /\ exit' = code /\ step' = "shell"
  /\ err' = [kind |-> kind, code |-> gate]
  /\ UNCHANGED <<cmd, printed>>

usageError     == Exit(exitUsage, "usage", "none")
operationError == Exit(exitOperational, "operational", "none")

\* Mutant: a canceled call is looked at first, and any other error is a gate.
apiError_Gate(code) ==
  IF code = "canceled" THEN Exit(exitCanceled, "canceled", "none") ELSE Exit(exitGate, "gate", code)

apiError(code) ==
  IF publicError(code) \in GateCodes THEN Exit(exitGate, "gate", publicError(code))
  ELSE IF code = "canceled" THEN Exit(exitCanceled, "canceled", "none")
  ELSE operationError

----------------------------------------------------------------------------
(* Processes.  A command that does not parse reaches no engine.            *)

Begin(c) ==
  /\ step = "shell" /\ ~rebooted
  /\ step' = "parse" /\ cmd' = c /\ exit' = -1 /\ out' = FALSE /\ err' = NoError
  /\ result' = "none"
  /\ UNCHANGED <<machineVars, imageVars, pc, callVars, liveVars, calls, histVars, printed>>

\* run, and flag parsing in runInspect, runStage, runWrite and runVersion.
Unparsed == step = "parse" /\ usageError /\ UNCHANGED <<vars, out>>

\* runInspect and runWrite: the request is made of the flags; the token is
\* one the operator has read on an earlier stdout, or none.
RunEngine ==
  /\ step = "parse" /\ cmd \in {"inspect", "write"}
  /\ \E r \in Requests, token \in {NoToken} \union {s.token : s \in printed} :
       /\ (cmd = "inspect") = (r.op = "inspect") /\ (r.op # "write" => token = NoToken)
       /\ Call(r, token, "live")
  /\ step' = "engine"
  /\ UNCHANGED <<cmd, exit, out, err, printed>>

\* runStage: Engine.Stage, then Close of the staged image.
RunStage ==
  /\ step = "parse" /\ cmd = "stage"
  /\ \E r \in StageResults : result' = r
  /\ step' = "engine"
  /\ UNCHANGED <<machineVars, imageVars, pc, callVars, liveVars, calls, histVars,
                 cmd, exit, out, err, printed>>

\* Mutant: when the staged image cannot be closed it is staged again.
CloseStaged_Retries ==
  /\ step = "engine" /\ cmd = "stage" /\ result = "ok"
  /\ step' \in {"parse", "encode"} /\ UNCHANGED <<vars, cmd, exit, out, err, printed>>

CloseStaged ==
  /\ step = "engine" /\ cmd = "stage" /\ result = "ok"
  /\ UNCHANGED vars
  /\ \/ step' = "encode" /\ UNCHANGED <<cmd, exit, out, err, printed>>
     \/ operationError /\ UNCHANGED out

RunVersion ==
  /\ step = "parse" /\ cmd = "version"
  /\ step' = "encode" /\ UNCHANGED <<vars, cmd, exit, out, err, printed>>

\* The engine call has come back.
Returned == step = "engine" /\ pc = "idle" /\ result # "none"

Failed == Returned /\ result # "ok" /\ apiError(result) /\ UNCHANGED <<vars, out>>

Succeeded ==
  /\ Returned /\ result = "ok" /\ cmd # "stage"
  /\ step' = "encode" /\ UNCHANGED <<vars, cmd, exit, out, err, printed>>

\* Mutant: the error of the encoder is dropped.
encodeResult_Silent ==
  /\ step = "encode"
  /\ exit' = exitSuccess /\ step' = "shell" /\ out' \in BOOLEAN
  /\ printed' = IF out' THEN printed \union {s \in shown : s.call = calls} ELSE printed
  /\ UNCHANGED <<vars, cmd, err>>

\* encodeResult.  The result of an inspection or of a dry run holds the token.
encodeResult ==
  /\ step = "encode"
  /\ UNCHANGED vars
  /\ \/ /\ exit' = exitSuccess /\ step' = "shell" /\ out' = TRUE
        /\ printed' = IF cmd \in {"inspect", "write"}
                      THEN printed \union {s \in shown : s.call = calls} ELSE printed
        /\ UNCHANGED <<cmd, err>>
     \/ operationError /\ out' = FALSE

\* A signal ends the process; the kernel closes its descriptors.
Kill ==
  /\ step # "shell"
  /\ Return("killed") /\ CloseSource /\ fd' = NoFd
  /\ UNCHANGED <<machineVars, req, remounting, rebooted, calls, histVars>>
  /\ step' = "shell" /\ exit' = Killed
  /\ UNCHANGED <<cmd, out, err, printed>>

----------------------------------------------------------------------------
Process ==
  \/ Unparsed \/ RunEngine \/ RunStage \/ CloseStaged \/ RunVersion
  \/ Failed \/ Succeeded \/ encodeResult

CliInit ==
  /\ Init
  /\ cmd = "none" /\ step = "shell" /\ exit = Killed /\ out = FALSE /\ err = NoError
  /\ printed = {}

Commands == {"inspect", "stage", "write", "version"}

CliNext ==
  \/ \E c \in Commands : Begin(c)
  \/ Process
  \/ (Program \/ Machine \/ KernelRemount) /\ UNCHANGED cliVars
  \/ Kill

\* A process that runs keeps running.
CliSpec ==
  /\ CliInit /\ [][CliNext]_<<vars, cliVars>>
  /\ WF_<<vars, cliVars>>(Process) /\ WF_<<vars, cliVars>>(Program /\ UNCHANGED cliVars)
----------------------------------------------------------------------------
(* A write command that exits with 0 has said so on stdout and has left    *)
(* exactly the requested image, durably, on the target, unless the source  *)
(* was changed in place while Verify read it or after Write's second hash  *)
(* had begun (`changed'); every other way out, a failing stdout and a kill *)
(* included, exits otherwise (main.go, runWrite and encodeResult;          *)
(* docs/cli.md, "Streams and exit codes").                                 *)
ExitZeroIsDone ==
  exit = exitSuccess /\ cmd = "write" /\ req.op = "write" =>
    /\ out /\ err = NoError
    /\ changed = {} => dest = W!Expand(req.sha)
    /\ Len(dest) = req.expected /\ durable = dest

(* A write command that is refused by a gate has written nothing, except   *)
(* when the refusal is about the size of the image, which is only found    *)
(* out while it is written (main.go, apiError; diskforge.go, publicError). *)
RefusalIsHarmless ==
  exit = exitGate /\ cmd = "write" /\ err.code # "invalid_image_size" => dest = <<>>

(* docs/architecture/0001-repository-and-release-contract.md says that the *)
(* target is never opened for write before every applicable gate passes,   *)
(* so a gate refusal would leave it unwritten (diskforge.go, publicError,  *)
(* makes a gate of ErrSizeMismatch, which image.Write returns after it has *)
(* written).                                                               *)
RefusalBeforeWriting == exit = exitGate /\ cmd = "write" => dest = <<>>

\* The engine call as the shell sees it: staging is none.
P == INSTANCE GuardedWrite WITH
       Image <- W!Expand, ask <- req, data <- dest, written <- touched,
       outcome <- IF cmd = "stage" THEN "none" ELSE result,
       intact <- changed = {}, call <- reached

(* A sequence of commands, killed or not, is a behaviour of the same       *)
(* contract: a kill at any step is a call that failed, and around its call *)
(* a process shows, writes and reboots nothing (main.go, runInspect and    *)
(* runWrite).                                                              *)
CommandsKeepContract == P!Spec

(* Every command comes to an end (main.go, run).                           *)
CommandExits == step # "shell" ~> step = "shell"
=============================================================================
