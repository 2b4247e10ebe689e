----------------------------- MODULE MCCommand -----------------------------
(* Commands typed one after the other on the small machine of MCExecute;   *)
(* at most MaxCalls of them call the engine to inspect or to write.        *)
EXTENDS MCExecute, Command

cliAllVars == <<allVars, cliVars>>

CliMCInit == CliInit /\ MCInit

Type(c) == Begin(c) /\ (c \in {"inspect", "write"} => calls < MaxCalls)
Engine  == (Program \/ KernelRemount) /\ UNCHANGED cliVars

CliMCNext ==
  \/ ((\E c \in Commands : Type(c)) \/ Process \/ Engine \/ Kill) /\ UNCHANGED moves
  \/ Disturb /\ UNCHANGED cliVars

CliMCSpec ==
  /\ CliMCInit /\ [][CliMCNext]_cliAllVars
  /\ WF_cliAllVars(Process /\ UNCHANGED moves)
  /\ WF_cliAllVars(Program /\ UNCHANGED <<cliVars, moves>>)
=============================================================================
