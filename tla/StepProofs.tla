----------------------------- MODULE StepProofs -----------------------------
(***************************************************************************)
(* Every step of the guarded write and of the machine around it is of one  *)
(* of the kinds of CallProofs, and touches the image source in one of five *)
(* ways.                                                                   *)
(***************************************************************************)
EXTENDS Execute, CallProofs

\* Every leaf that names no prover: SMT, then Zenon.
USE SMTT(30), ZenonT(30)

\* What a step does to the image source: nothing, the end of a call, a step
\* of Verify or Write, a move of other processes, or the start of a call.
Spares  == UNCHANGED <<imageVars, req>> /\ (pc' = "idle" \/ pc # "idle")
Closes  ==
  /\ pc' = "idle" /\ src' \in {src, NoInode} /\ phase' \in {phase, "closed"}
  /\ UNCHANGED <<content, path, ctx, ver, buf, dest, durable, prog, changed, req>>
Streams ==
  /\ pc # "idle" /\ UNCHANGED <<pc, req>>
  /\ W!VerifyStep \/ W!SourceStep \/ W!DestinationStep \/ W!Sync
Disturbs ==
  /\ UNCHANGED <<pc, req>>
  /\ \/ W!Cancel
     \/ \E i \in Inode \union {NoInode}, data \in W!Data :
          W!ReplaceImage(i) \/ (i # NoInode /\ W!MutateImage(i, data))
Resets ==
  /\ Starts
  /\ ctx' \in {"live", "done"} /\ ver' = W!NoVer /\ buf' = <<>> /\ prog' = -1
ImageStep == Spares \/ Closes \/ Streams \/ Disturbs \/ Resets

----------------------------------------------------------------------------
(* A step of Verify writes nothing, and keeps the descriptor unless it     *)
(* fails (verified.go, Verify).                                            *)
LEMMA VerifyGives == ASSUME W!VerifyStep PROVE Verifies
<1>1. ASSUME NEW kind \in {"digest", "failed"}, W!VerifyFails(kind) PROVE Verifies
  BY <1>1, Zenon DEF W!VerifyFails, W!Fail, W!writeVars, W!fileVars, Verifies, ImageErrors
<1>2. CASE W!OpenImage
  BY <1>1, <1>2, Zenon DEF W!OpenImage, W!writeVars, W!fileVars, Verifies
<1>3. CASE W!HashRead
  BY <1>1, <1>3, Zenon DEF W!HashRead, W!writeVars, W!fileVars, W!readVars, Verifies
<1>4. CASE W!HashDone
  BY <1>1, <1>4, Zenon DEF W!HashDone, W!writeVars, W!fileVars, Verifies
<1>5. CASE W!DescriptorFormat
  BY <1>1, <1>5, Zenon DEF W!DescriptorFormat, W!writeVars, W!fileVars, Verifies
<1> QED
  BY <1>2, <1>3, <1>4, <1>5, Zenon DEF W!VerifyStep

(* A step of Write keeps the descriptor, and has written as much as was    *)
(* asked for when it ends well (write.go, Write).                          *)
LEMMA WriteGives == ASSUME W!SourceStep \/ W!DestinationStep \/ W!Sync PROVE Copies
<1> DEFINE Same == UNCHANGED <<content, path, ctx, src, ver, changed>>
           More == Len(dest) < req.expected /\ (\E c : dest' = Append(dest, c)) /\ durable' = durable
<1>0. [sha |-> req.sha, expected |-> req.expected].expected = req.expected
  BY Zenon
<1>1. ASSUME NEW kind \in {"size", "canceled", "failed"}, W!WriteFails(kind) PROVE Copies
  BY <1>1, Zenon DEF W!WriteFails, W!Fail, W!writeVars, W!fileVars, Copies, Copied
<1>2. CASE W!ReadFails
  BY <1>1, <1>2, Zenon DEF W!ReadFails
<1>3. CASE W!BeginWrite \/ W!RehashRead \/ W!RehashDone
  <2>1. \/ W!ReadFails \/ W!WriteFails("failed")
        \/ phase' \in {"rehash", "copy"} /\ Same /\ UNCHANGED <<dest, durable>>
    BY <1>3, Zenon DEF W!BeginWrite, W!RehashRead, W!RehashDone, W!readVars, W!fileVars, W!writeVars
  <2> QED
    BY <1>1, <1>2, <2>1, Zenon DEF Copies, Copied
<1>4. CASE W!ReadSource
  <2>1. \/ W!ReadFails
        \/ /\ phase' = phase /\ phase \in {"copy", "probe"} /\ Same
           /\ UNCHANGED <<dest, durable>>
    BY <1>4, Zenon DEF W!ReadSource, W!readVars, W!writeVars, W!fileVars
  <2> QED
    BY <1>2, <2>1, Zenon DEF Copies, Copied
<1>5. CASE W!CopyDone
  <2>1. /\ phase' = "probe" /\ Same /\ Len(dest) = req.expected
        /\ UNCHANGED <<dest, durable>>
    BY <1>0, <1>5, Zenon DEF W!CopyDone, W!readVars, W!writeVars, W!fileVars
  <2> QED
    BY <2>1, Zenon DEF Copies, Copied
<1>6. CASE W!DecodeFails \/ W!TooShort \/ W!TooLong \/ W!SyncFails
  BY <1>1, <1>6, Zenon DEF W!DecodeFails, W!TooShort, W!TooLong, W!SyncFails
<1>7. CASE W!ProbeEnds
  <2>1. phase = "probe" /\ phase' = "sync" /\ Same /\ UNCHANGED <<dest, durable>>
    BY <1>7, Zenon DEF W!ProbeEnds, W!readVars, W!writeVars, W!fileVars
  <2> QED
    BY <2>1, Zenon DEF Copies, Copied
<1>8. CASE W!DestinationStep
  <2>1. W!WriteFails("failed") \/ (phase' \in {"copy", "failed"} /\ Same /\ More)
    BY <1>0, <1>8, Zenon DEF W!DestinationStep, W!WriteChunk, W!DestinationFails, W!readVars, W!fileVars
  <2> QED
    BY <1>1, <2>1, Zenon DEF Copies, Copied
<1>9. CASE W!Sync
  <2>1. /\ phase = "sync" /\ phase' = "written" /\ durable' = dest /\ dest' = dest /\ Same
    BY <1>9, Zenon DEF W!Sync, W!readVars, W!fileVars
  <2> QED
    BY <2>1, Zenon DEF Copies, Copied
<1> QED
  BY <1>3, <1>4, <1>5, <1>6, <1>7, <1>8, <1>9, Zenon DEF W!SourceStep

(* Only the destination takes data (write.go, progressWriter).             *)
LEMMA SourceKeepsData == ASSUME W!SourceStep \/ W!Sync PROVE dest' = dest
<1>1. ASSUME NEW kind, W!WriteFails(kind) PROVE dest' = dest
  BY <1>1, Zenon DEF W!WriteFails, W!Fail, W!writeVars
<1>2. CASE W!BeginWrite \/ W!RehashRead \/ W!RehashDone \/ W!ReadSource
  BY <1>1, <1>2, Zenon DEF W!BeginWrite, W!RehashRead, W!RehashDone, W!ReadSource, W!ReadFails, W!writeVars
<1>3. CASE W!CopyDone \/ W!ProbeEnds \/ W!Sync
  BY <1>3, Zenon DEF W!CopyDone, W!ProbeEnds, W!Sync, W!writeVars
<1>4. CASE W!DecodeFails \/ W!TooShort \/ W!TooLong \/ W!SyncFails
  BY <1>1, <1>4, Zenon DEF W!DecodeFails, W!TooShort, W!TooLong, W!SyncFails
<1> QED
  BY <1>2, <1>3, <1>4, Zenon DEF W!SourceStep

----------------------------------------------------------------------------
(* A refusal has the code of a gate (inspect.go, Inspect).                 *)
LEMMA RefusalHasCode ==
  ASSUME NEW gates, NEW n \in 1 .. 8, DOMAIN gates = 1 .. n,
         \A i \in DOMAIN gates : gates[i][1] # "none"
  PROVE  FirstRefusal(gates) # "none"
<1> DEFINE refused == {i \in DOMAIN gates : gates[i][2]}
           first == CHOOSE i \in refused : \A j \in refused : i <= j
<1>1. refused \subseteq 1 .. 8
  BY SMT
<1>2. ASSUME NEW S, S \subseteq 1 .. 8, S # {} PROVE \E i \in S : \A j \in S : i <= j
  <2> SUFFICES ASSUME \A i \in S : \E j \in S : j < i PROVE FALSE
    BY <1>2, SMT
  <2>1. S \intersect 1 .. 2 = {}
    BY <1>2, SMT
  <2>2. S \intersect 1 .. 4 = {}
    BY <1>2, <2>1, SMT
  <2>3. S \intersect 1 .. 6 = {}
    BY <1>2, <2>2, SMT
  <2>4. S \intersect 1 .. 8 = {}
    BY <1>2, <2>3, SMT
  <2> QED
    BY <1>2, <2>4, Zenon
<1>3. refused # {} => first \in refused
  BY <1>1, <1>2, Zenon
<1> QED
  BY <1>3, Zenon DEF FirstRefusal
LEMMA VerdictIsCode ==
  ASSUME NEW mode, NEW target, NEW img, NEW host PROVE Inspect(mode, target, img, host) # "none"
<1> DEFINE gates == commonGates(mode, target, img, host)
           others == inspectMode(mode, target, host)
<1>1. FirstRefusal(gates) # "none"
  <2>1. DOMAIN gates = 1 .. 8 /\ \A i \in 1 .. 8 : gates[i][1] # "none"
    BY SMT DEF commonGates
  <2> QED
    BY <2>1, RefusalHasCode, SMT
<1>2. FirstRefusal(others) # "none"
  <2>1. \E n \in 1 .. 8 : DOMAIN others = 1 .. n /\ \A i \in 1 .. n : others[i][1] # "none"
    BY SMT DEF inspectMode
  <2> QED
    BY <2>1, RefusalHasCode, Zenon
<1> QED
  BY <1>1, <1>2, Zenon DEF Inspect

(* Unwind, and Abort while nothing is held, end a call (execute.go, the    *)
(* early returns and the deferred Close calls).                            *)
LEMMA UnwindEnds ==
  ASSUME NEW code, Unwind(code) \/ (Abort(code) /\ pc \in Early \ {"idle"}) PROVE Ends(code)
BY Zenon DEF Unwind, Abort, Ends, CloseSource, machineVars, imageVars, histVars

(* Goto moves (execute.go, Execute).                                       *)
LEMMA GotoMoves == ASSUME NEW next, Goto(next) PROVE Moves(pc, next) /\ Still /\ obs' = obs
BY Zenon DEF Goto, Moves, Still, machineVars, imageVars, callVars, readVars, liveVars, histVars

(* An error before the copy ends the call (execute.go, Prepare, Execute).  *)
LEMMA EarlyEnds ==
  ASSUME NEW code, code # "ok", code # "none", pc \notin {"idle", "write", "fdatasync", "flush", "sysrqSync", "sysrqReboot"},
         Unwind(code) \/ (Abort(code) /\ pc \in Early \ {"idle"})
  PROVE  CallEnds
<1>1. Outcome(code)
  BY Zenon DEF Outcome
<1> QED
  BY <1>1, UnwindEnds, Zenon DEF CallEnds

(* Observe moves, unless it changes the inspection (system.go, Inspect).   *)
LEMMA ObserveMoves == ASSUME NEW next, Observe(next), insp' = insp PROVE Moves(pc, next) /\ Still
BY Zenon DEF Observe, Moves, Still, machineVars, imageVars, readVars, liveVars, histVars

(* The steps of Inspect (system.go, Inspect; observer.go, Target).         *)
LEMMA InspectionSteps == ASSUME Inspection PROVE CallEnds \/ Reads \/ HasRead \/ Observes \/ Fills
<1>0. ASSUME NEW code \in {"unresolved", "stat"}, pc \in Early \ {"idle"}, Abort(code) PROVE CallEnds
  BY <1>0, EarlyEnds, Zenon DEF Early
<1>1. CASE ReadTarget
  <2>1. CASE pc = "validate" /\ Unwind("identity_changed")
    BY <2>1, EarlyEnds, Zenon
  <2>2. CASE pc = "target" /\ Abort("unresolved")
    BY <2>2, <1>0, Zenon DEF Early
  <2> QED
    BY <1>1, <2>1, <2>2, ZenonT(40) DEF ReadTarget, Reads
<1>2. CASE ObserveTarget
  BY <1>2, Zenon DEF ObserveTarget, HasRead
<1>3. CASE ObserveMounts \/ ObserveSwaps \/ ObserveSource \/ observeLive
  <2>1. pc \in Early \ {"idle"}
    BY <1>3, Zenon DEF ObserveMounts, ObserveSwaps, ObserveSource, observeLive, Early
  <2> QED
    BY <1>0, <1>3, <2>1, ObserveMoves DEF ObserveMounts, ObserveSwaps, ObserveSource, observeLive, Observes
<1>4. CASE StatImage
  <2>1. CASE pc = "stat" /\ Abort("stat")
    BY <2>1, <1>0, Zenon DEF Early
  <2> QED
    BY <1>4, <2>1, ZenonT(40) DEF StatImage, Observe, Fills
<1>5. CASE ApplyPolicy
  <2>1. pc = "policy"
    BY <1>5, Zenon DEF ApplyPolicy
  <2>2. CASE \E verdict : verdict # "ok" /\ verdict # "none" /\ Abort(verdict)
    BY <2>1, <2>2, EarlyEnds, Zenon DEF Early
  <2>3. CASE /\ req.op = "inspect" /\ Return("ok") /\ Show
             /\ UNCHANGED <<machineVars, imageVars, req, fd, remounting, rebooted, calls, touched, stale>>
    <3>1. Ends("ok")
      BY <2>1, <2>3, Zenon DEF Ends, Early, imageVars
    <3>2. Outcome("ok")
      BY <2>1, <2>3, Zenon DEF Outcome
    <3> QED
      BY <3>1, <3>2, Zenon DEF CallEnds
  <2> QED
    BY <1>5, <2>2, <2>3, VerdictIsCode, ZenonT(40) DEF ApplyPolicy, Observe, Fills
<1> QED
  BY <1>1, <1>2, <1>3, <1>4, <1>5, Zenon DEF Inspection

(* The steps from Verify to the opening (execute.go, Prepare, prepareLive).*)
LEMMA PreparationSteps ==
  ASSUME VerifyImage \/ CheckIdentity \/ Confirm \/ prepareLive
  PROVE  CallEnds \/ (Images /\ Streams) \/ Gates \/ Prepares
<1>1. CASE VerifyImage
  <2>1. CASE pc = "verify" /\ phase \in W!Failures /\ Unwind(phase)
    <3>1. phase # "ok" /\ phase # "none"
      BY <2>1, Zenon DEF W!Failures
    <3> QED
      BY <2>1, <3>1, EarlyEnds, Zenon
  <2>2. CASE pc = "verify" /\ UNCHANGED nonImageVars /\ W!VerifyStep
    <3>1. Images
      BY <2>2, VerifyGives, Zenon DEF nonImageVars, Images, histVars
    <3>2. Streams
      BY <2>2, Zenon DEF nonImageVars, Streams, callVars
    <3> QED
      BY <3>1, <3>2, Zenon
  <2> QED
    BY <1>1, <2>1, <2>2, GotoMoves, Zenon DEF VerifyImage, Gates
<1>2. CASE CheckIdentity
  <2>1. CASE pc = "identity" /\ Unwind("identity_changed")
    BY <2>1, EarlyEnds, Zenon
  <2>2. CASE pc = "identity" /\ Unwind("close")
    BY <2>2, EarlyEnds, Zenon
  <2>3. CASE /\ pc = "identity" /\ req.op = "dry" /\ Return("ok") /\ Show /\ CloseSource /\ fd' = NoFd
             /\ UNCHANGED <<machineVars, req, remounting, rebooted, calls, touched, stale>>
    <3>1. Ends("ok")
      BY <2>3, Zenon DEF Ends, CloseSource
    <3>2. Outcome("ok")
      BY <2>3, Zenon DEF Outcome
    <3> QED
      BY <3>1, <3>2, Zenon DEF CallEnds
  <2> QED
    BY <1>2, <2>1, <2>2, <2>3, GotoMoves, Zenon DEF CheckIdentity, Gates
<1>3. CASE Confirm
  <2>1. CASE pc = "confirm" /\ \E code \in {"confirmation_mismatch", "live_reboot_required"} : Unwind(code)
    BY <2>1, EarlyEnds, Zenon
  <2> QED
    BY <1>3, <2>1, GotoMoves, Zenon DEF Confirm, Gates
<1>4. CASE Mlockall \/ EnableSysRq
  BY <1>4, EarlyEnds, GotoMoves, Zenon DEF Mlockall, EnableSysRq, Prepares
<1>5. CASE ReadSwapRecords
  <2>1. CASE pc = "readSwaps" /\ Unwind("swapoff")
    BY <2>1, EarlyEnds, Zenon
  <2>2. CASE pc = "readSwaps" /\ ~Unwind("swapoff")
    BY <1>5, <2>2, Zenon DEF ReadSwapRecords, Prepares, Moves, machineVars, callVars
  <2> QED
    BY <1>5, <2>1, <2>2, Zenon DEF ReadSwapRecords
<1>6. CASE Swapoff
  <2>1. CASE pc = "swapoff" /\ Unwind("swapoff")
    BY <2>1, EarlyEnds, Zenon
  <2>2. CASE pc = "swapoff" /\ todo = <<>> /\ Goto("enableSysRq")
    BY <2>2, GotoMoves, Zenon DEF Prepares
  <2>3. UNCHANGED <<sysfs, node, mounts, kern, imageVars, pc, callVars, polls, remounting, rebooted, result,
                    calls, histVars>> /\ pc = "swapoff"
        => Moves("swapoff", "swapoff") /\ obs' = obs /\ UNCHANGED <<polls, remounting, stale>>
    BY DEF Moves, callVars, histVars
  <2> QED
    BY <1>6, <2>1, <2>2, <2>3, Zenon DEF Swapoff, Prepares
<1>7. CASE TriggerRemount
  <2>1. CASE pc = "remount" /\ Unwind("sysrq")
    BY <2>1, EarlyEnds, Zenon
  <2>2. CASE /\ pc = "remount" /\ Return("sysrq") /\ CloseSource /\ fd' = NoFd /\ remounting' = TRUE
             /\ UNCHANGED <<machineVars, req, rebooted, calls, histVars>>
    <3>1. Ends("sysrq")
      BY <2>2, Zenon DEF Ends, CloseSource, histVars
    <3>2. Outcome("sysrq")
      BY <2>2, Zenon DEF Outcome
    <3> QED
      BY <3>1, <3>2, Zenon DEF CallEnds
  <2>3. CASE /\ pc = "remount" /\ pc' = "poll" /\ polls' = PollAttempts /\ remounting' = TRUE
             /\ UNCHANGED <<machineVars, imageVars, callVars, todo, rebooted, result, calls, histVars>>
    <3>1. Moves("remount", "poll") /\ obs' = obs /\ UNCHANGED <<swaps, todo, stale>>
      BY <2>3, Zenon DEF Moves, machineVars, callVars, histVars
    <3> QED
      BY <2>3, <3>1, Zenon DEF Prepares
  <2> QED
    BY <1>7, <2>1, <2>2, <2>3, Zenon DEF TriggerRemount
<1>8. CASE PollMounts
  <2>1. CASE pc = "poll" /\ (Unwind("remount_incomplete") \/ Unwind("unresolved"))
    BY <2>1, EarlyEnds, Zenon
  <2>2. ASSUME NEW next, pc = "poll", pc' = next,
               UNCHANGED <<machineVars, imageVars, callVars, todo, remounting, rebooted, result, calls, shown, touched>>
        PROVE  Moves("poll", next) /\ obs' = obs /\ UNCHANGED <<swaps, todo, remounting>>
    BY <2>2, Zenon DEF Moves, machineVars, callVars
  <2>3. UNCHANGED histVars => UNCHANGED <<shown, touched, stale>>
    BY Zenon DEF histVars
  <2> QED
    BY <1>8, <2>1, <2>2, <2>3, Zenon DEF PollMounts, Prepares
<1> QED
  BY <1>1, <1>2, <1>3, <1>4, <1>5, <1>6, <1>7, <1>8, Zenon DEF prepareLive

(* The opening and the checks after it (system.go, OpenTarget and          *)
(* validateOpenedTarget).                                                  *)
LEMMA OpeningSteps ==
  ASSUME OpenTarget \/ ValidateTarget \/ ValidateNumber PROVE CallEnds \/ Opens \/ HasRead \/ HasNumber
<1>1. CASE OpenTarget
  <2>1. CASE pc = "open" /\ Unwind("open")
    BY <2>1, EarlyEnds, Zenon
  <2> QED
    BY <1>1, <2>1, Zenon DEF OpenTarget, Opens
<1>2. CASE ValidateTarget
  <2>1. CASE pc = "validate" /\ Unwind("identity_changed")
    BY <2>1, EarlyEnds, Zenon
  <2> QED
    BY <1>2, <2>1, Zenon DEF ValidateTarget, HasRead
<1>3. CASE ValidateNumber
  <2>1. CASE pc = "devnum" /\ (Unwind("identity_changed") \/ Unwind("open"))
    BY <2>1, EarlyEnds, Zenon
  <2> QED
    BY <1>3, <2>1, GotoMoves, Zenon DEF ValidateNumber, HasNumber
<1> QED
  BY <1>1, <1>2, <1>3, Zenon

(* The copy and what follows it (system.go, WriteVerified; execute.go,     *)
(* Execute and rebootLive).                                                *)
LEMMA WritingSteps == ASSUME WriteVerified \/ Completion PROVE CallEnds \/ (Images /\ Streams) \/ Finishes
<1>1. CASE WriteVerified
  <2>1. CASE pc = "write" /\ phase \in W!Failures /\ Unwind(phase)
    <3>1. Outcome(phase)
      BY <2>1, Zenon DEF Outcome, W!Failures, ImageErrors
    <3> QED
      BY <2>1, <3>1, UnwindEnds, Zenon DEF CallEnds
  <2>2. ASSUME pc = "write", W!SourceStep \/ W!DestinationStep \/ W!Sync,
               UNCHANGED <<machineVars, pc, callVars, liveVars, result, calls, shown, stale>>,
               \/ dest' = dest /\ touched' = touched
               \/ dest' # dest /\ Alive(sysfs, fd) /\ touched' = touched \union {Receipt}
        PROVE  Images /\ Streams
    <3>1. Images
      BY <2>2, WriteGives, Zenon DEF Images
    <3>2. Streams
      BY <2>2, Zenon DEF Streams, callVars
    <3> QED
      BY <3>1, <3>2, Zenon
  <2>3. CASE pc = "write" /\ UNCHANGED nonImageVars /\ (W!SourceStep \/ W!Sync)
    BY <2>2, <2>3, SourceKeepsData, Zenon DEF nonImageVars, histVars
  <2> QED
    BY <1>1, <2>1, <2>2, <2>3, GotoMoves, Zenon DEF WriteVerified, Finishes
<1>2. CASE Fdatasync \/ FlushBlock \/ SysRqSync
  <2>1. ASSUME NEW code \in {"fdatasync", "flush", "sysrq"}, Unwind(code),
               pc \in {"fdatasync", "flush", "sysrqSync", "sysrqReboot"}
        PROVE  CallEnds
    <3>1. Outcome(code)
      BY <2>1, Zenon DEF Outcome
    <3> QED
      BY <2>1, <3>1, UnwindEnds, Zenon DEF CallEnds
  <2>2. CASE pc = "flush" /\ req.mode = "rescue" /\ Unwind("ok")
    <3>1. Outcome("ok")
      BY <2>2, Zenon DEF Outcome
    <3> QED
      BY <2>2, <3>1, UnwindEnds, Zenon DEF CallEnds
  <2> QED
    BY <1>2, <2>1, <2>2, GotoMoves, Zenon DEF Fdatasync, FlushBlock, SysRqSync, Finishes
<1>3. CASE SysRqReboot
  <2>1. CASE pc = "sysrqReboot" /\ Unwind("sysrq")
    <3>1. Outcome("sysrq")
      BY <2>1, Zenon DEF Outcome
    <3> QED
      BY <2>1, <3>1, UnwindEnds, Zenon DEF CallEnds
  <2>2. ASSUME NEW code \in {"ok", "sysrq"}, Return(code), pc = "sysrqReboot", rebooted' = TRUE, CloseSource,
               fd' = NoFd, UNCHANGED <<machineVars, req, remounting, calls, histVars>>
        PROVE  CallEnds
    <3>1. Ends(code)
      BY <2>2, Zenon DEF Ends, CloseSource, histVars
    <3>2. Outcome(code)
      BY <2>2, Zenon DEF Outcome
    <3> QED
      BY <3>1, <3>2, Zenon DEF CallEnds
  <2> QED
    BY <1>3, <2>1, <2>2, Zenon DEF SysRqReboot
<1> QED
  BY <1>1, <1>2, <1>3, Zenon DEF Completion

(* Every step of the program is of one of these kinds (execute.go,         *)
(* Execute).                                                               *)
LEMMA ProgramSteps == ASSUME Program PROVE Runs /\ ImageStep /\ pc # "idle"
<1>1. ASSUME NEW code, Ends(code), Outcome(code) PROVE Closes /\ pc # "idle"
  BY <1>1, Zenon DEF Ends, Outcome, Return, Closes
<1>2. ASSUME Reads \/ HasRead \/ Fills \/ Opens PROVE Spares /\ pc # "idle"
  BY <1>2, Zenon DEF Reads, HasRead, Fills, Opens, Spares
<1>3. ASSUME NEW a, NEW b, Moves(a, b), a # "idle" PROVE Spares /\ pc # "idle"
  BY <1>3, Zenon DEF Moves, Spares
<1>4. ASSUME Observes \/ Gates \/ Finishes \/ HasNumber PROVE Spares /\ pc # "idle"
  BY <1>3, <1>4, Zenon DEF Observes, Gates, Finishes, HasNumber
<1>5. ASSUME Prepares PROVE Spares /\ pc # "idle"
  BY <1>3, <1>5, Zenon DEF Prepares
<1>6. \/ CallEnds \/ Reads \/ HasRead \/ Observes \/ Fills \/ (Images /\ Streams) \/ Gates \/ Prepares
      \/ Opens \/ HasNumber \/ Finishes
  BY InspectionSteps, PreparationSteps, OpeningSteps, WritingSteps, Zenon DEF Program
<1>7. Streams => pc # "idle"
  BY Zenon DEF Streams
<1> QED
  BY <1>1, <1>2, <1>4, <1>5, <1>6, <1>7, Zenon DEF CallEnds, Runs, ImageStep

(* A call that is accepted has a token that was shown, or writes nothing   *)
(* (diskforge.go, validateWriteRequest).                                   *)
LEMMA CallStarts ==
  ASSUME NEW r \in Requests, NEW token \in {NoToken} \union {s.token : s \in shown}, NEW context,
         Call(r, token, context)
  PROVE  Starts /\ Resets
<1> DEFINE full == linuxWriteRequest(r, token)
           verdict == validate(full, context)
<1>1. /\ pc = "idle" /\ ~rebooted /\ calls < MaxCalls /\ calls' = calls + 1 /\ req' = full
      /\ IF verdict = "ok" THEN pc' = "target" /\ result' = "none" ELSE pc' = "idle" /\ result' = verdict
  BY Zenon DEF Call
<1>2. /\ dest' = <<>> /\ durable' = <<>> /\ prog' = -1 /\ ver' = W!NoVer /\ buf' = <<>>
      /\ changed' = {} /\ ctx' = IF context = "done" THEN "done" ELSE "live"
      /\ UNCHANGED <<machineVars, content, path, src, phase, obs, insp, readVars, fd, liveVars, histVars>>
  BY Zenon DEF Call
<1>3. full = [op |-> r.op, mode |-> r.mode, paths |-> r.paths, sha |-> r.sha, expected |-> r.expected,
              reboot |-> r.reboot, token |-> token]
  BY Zenon DEF linuxWriteRequest
<1>4. verdict = "ok" /\ full.op = "write" => \E s \in shown : s.token = full.token
  <2>1. full.op = r.op /\ full.token = token
    BY Zenon DEF linuxWriteRequest
  <2>2. verdict = "ok" /\ full.op = "write" => validateWriteRequest(full) = "ok"
    BY Zenon DEF validate
  <2>3. validateWriteRequest(full) = "ok" => ~(full.op = "write" /\ full.token = NoToken)
    BY Zenon DEF validateWriteRequest
  <2> QED
    BY <2>1, <2>2, <2>3, Zenon
<1>5. verdict # "none"
  BY Zenon DEF validate, validateContext, validateWriteRequest, validateInspectRequest
<1>6. ctx' \in {"live", "done"}
  BY <1>2, Zenon
<1> HIDE DEF full, verdict
<1>7. Starts
  BY <1>1, <1>2, <1>3, <1>4, <1>5, Zenon DEF Starts
<1> QED
  BY <1>2, <1>6, <1>7, Zenon DEF Resets
LEMMA CallsStart == ASSUME Calls PROVE Starts /\ Resets
BY CallStarts, Zenon DEF Calls

(* What the rest of the machine does (ImageWrite, ReplaceImage and         *)
(* MutateImage; execute.go, Execute).                                      *)
LEMMA MachineSteps ==
  ASSUME Machine \/ CancelContext \/ KernelRemount \/ UNCHANGED vars PROVE Outside /\ ImageStep
<1>1. ASSUME UNCHANGED <<imageVars, pc, req>> PROVE Spares
  BY <1>1, Zenon DEF Spares
<1>2. CASE \/ \E sys \in Topologies : Replug(sys)
           \/ \E mts \in MountTables : ChangeMounts(mts)
           \/ \E sws \in SwapTables : ChangeSwaps(sws)
           \/ \E n \in Nodes : ChangeNode(n)
           \/ KernelRemount \/ UNCHANGED vars
  <2>1. UNCHANGED <<imageVars, pc, req>>
    BY <1>2, Zenon DEF Replug, ChangeMounts, ChangeSwaps, ChangeNode, KernelRemount, vars, callVars
  <2> QED
    BY <1>1, <1>2, <2>1, Zenon DEF Outside, ImageStep
<1>3. CASE \E i \in Inode \union {NoInode}, data \in W!Data : ChangeImage(i, data)
  <2>1. PICK i \in Inode \union {NoInode}, data \in W!Data : ChangeImage(i, data)
    BY <1>3, Zenon
  <2>2. UNCHANGED nonImageVars /\ UNCHANGED <<pc, req>>
    BY <2>1, Zenon DEF ChangeImage, nonImageVars, callVars
  <2>3. W!ReplaceImage(i) \/ (i # NoInode /\ W!MutateImage(i, data))
    BY <2>1, Zenon DEF ChangeImage
  <2>4. /\ UNCHANGED <<src, ver, phase, buf, dest, durable, prog>>
        /\ (src = NoInode => changed' = changed) /\ changed \subseteq changed'
    BY <2>3, Zenon DEF W!ReplaceImage, W!MutateImage, W!readVars, W!writeVars
  <2> QED
    BY <2>2, <2>3, <2>4, Zenon DEF Outside, ImageMoves, ImageStep, Disturbs
<1>4. CASE CancelContext
  <2>1. UNCHANGED nonImageVars /\ W!Cancel /\ UNCHANGED <<pc, req>>
    BY <1>4, Zenon DEF CancelContext, nonImageVars, callVars
  <2>2. UNCHANGED <<src, ver, phase, buf, dest, durable, prog, changed>>
    BY <2>1, Zenon DEF W!Cancel, W!readVars, W!writeVars
  <2> QED
    BY <2>1, <2>2, Zenon DEF Outside, ImageMoves, ImageStep, Disturbs
<1> QED
  BY <1>2, <1>3, <1>4, Zenon DEF Machine

(* Hence every step (execute.go, Execute; diskforge.go, Inspect, Write).   *)
LEMMA NextSteps == ASSUME Next \/ UNCHANGED vars PROVE (Starts \/ Runs \/ Outside) /\ ImageStep
BY ProgramSteps, CallsStart, MachineSteps, Zenon DEF Next, ImageStep
=============================================================================
