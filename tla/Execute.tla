------------------------------ MODULE Execute ------------------------------
(***************************************************************************)
(* The guarded write: Engine.Inspect and Engine.Write of diskforge.go,     *)
(* Prepare and Execute of internal/linux/execute.go and the kernel         *)
(* boundary of internal/linux/system.go, composed with the observer, the   *)
(* policy and the image source.  One caller makes one call after another;  *)
(* every read of sysfs, procfs or the file system and every system call is *)
(* a step of its own, and between any two steps the rest of the machine    *)
(* may move: disks are unplugged and others take their names, tables are   *)
(* repartitioned, filesystems mounted, swap enabled, the device node and   *)
(* the image file replaced.                                                *)
(***************************************************************************)
EXTENDS ExecuteState

CONSTANTS Chunk, MaxFile, Magic, ZOut(_), ZFault(_, _)

W == INSTANCE ImageWrite WITH want <- [sha |-> req.sha, expected |-> req.expected]

\* Requests name digests of files, and ImageWrite's constants are what it
\* takes them to be.
ASSUME ImageAssumption ==
  /\ NoInode \notin Inode /\ MaxFile \in Nat
  /\ \A r \in Requests : r.sha \in W!Data
  /\ \A s \in W!Data : ZOut(s) \in Seq(Chunk)
  /\ \A s, t \in W!Data : W!Pre(s, t) => W!Pre(ZOut(s), ZOut(t))

----------------------------------------------------------------------------
(* Engine.Inspect and Engine.Write: validation of the request.             *)

\* The caller's context: still live, already done, or nil.
validateContext(context) ==
  CASE context = "nil"  -> "invalid_request"
    [] context = "done" -> "canceled"
    [] OTHER            -> "ok"

\* paths: both are canonical, or which one is not.
validateInspectRequest(r) ==
  IF r.mode \notin Modes THEN "invalid_mode"
  ELSE IF r.paths = "target" THEN "invalid_target"
  ELSE IF r.paths = "image" THEN "invalid_request"
  ELSE IF r.sha \notin ValidDigest THEN "invalid_digest"
  ELSE IF r.expected <= 0 THEN "invalid_image_size"
  ELSE "ok"

validateWriteRequest(r) ==
  IF validateInspectRequest(r) # "ok" THEN validateInspectRequest(r)
  ELSE IF r.op = "write" /\ r.token = NoToken THEN "confirmation_mismatch"
  ELSE IF r.mode = "rescue" /\ r.reboot THEN "invalid_request"
  ELSE "ok"

validate(r, context) ==
  IF validateContext(context) # "ok" THEN validateContext(context)
  ELSE IF r.op = "inspect" THEN validateInspectRequest(r) ELSE validateWriteRequest(r)

linuxWriteRequest(r, token) ==
  [op |-> r.op, mode |-> r.mode, paths |-> r.paths, sha |-> r.sha, expected |-> r.expected,
   reboot |-> r.reboot, token |-> token]

Call(r, token, context) ==
  LET full    == linuxWriteRequest(r, token)
      verdict == validate(full, context)
  IN  /\ pc = "idle" /\ ~rebooted /\ calls < MaxCalls
      /\ calls' = calls + 1
      /\ req' = full
      /\ IF verdict = "ok" THEN pc' = "target" /\ result' = "none"
                           ELSE pc' = "idle" /\ result' = verdict
      /\ dest' = <<>> /\ durable' = <<>> /\ prog' = -1 /\ ver' = W!NoVer /\ buf' = <<>>
      /\ changed' = {} /\ ctx' = IF context = "done" THEN "done" ELSE "live"
      /\ UNCHANGED <<machineVars, content, path, src, phase, obs, insp, readVars, fd, liveVars,
                     histVars>>

\* The caller repeats a token an inspection has shown, or gives none.
Calls == \E r \in Requests, context \in {"live", "done", "nil"} :
  \/ Call(r, NoToken, context)
  \/ r.op = "write" /\ \E s \in shown : Call(r, s.token, context)

----------------------------------------------------------------------------
(* System.Inspect: one step per observation, then the policy.  Each        *)
(* observation may also fail to read what it needs.                        *)

\* One read of Observer.Target, for the inspection or for the check of the
\* opened target.
ReadTarget ==
  /\ pc \in {"target", "validate"} /\ got < Len(TargetFields)
  /\ LET f == TargetFields[got + 1] IN
       \/ /\ \/ /\ FieldOK(sysfs, TargetName, f)
                /\ cur' = [cur EXCEPT !.kname = TargetName, ![f] = Target(sysfs, TargetName)[f]]
             \/ /\ f \in Unreadable \/ (f \in Optional /\ ~blockPathOK(sysfs, TargetName))
                /\ cur' = cur
          /\ got' = got + 1
          /\ UNCHANGED <<machineVars, imageVars, pc, req, obs, insp, fd, liveVars, result, calls,
                         histVars>>
       \/ f \notin Optional /\ pc = "target" /\ Abort("unresolved")
       \/ f \notin Optional /\ pc = "validate" /\ Unwind("identity_changed")

ObserveTarget ==
  /\ pc = "target" /\ got = Len(TargetFields)
  /\ insp' = [insp EXCEPT !.target = cur]
  /\ pc' = "mounts" /\ cur' = NoTarget /\ got' = 0
  /\ UNCHANGED <<machineVars, imageVars, req, obs, fd, liveVars, result, calls, histVars>>

ObserveMounts ==
  /\ pc = "mounts"
  /\ \/ /\ MountedDevicesOK(sysfs, mounts)
        /\ obs' = [obs EXCEPT !.mounted = MountedDevices(sysfs, mounts)]
        /\ insp' = insp /\ Observe("swaps")
     \/ Abort("unresolved")

ObserveSwaps ==
  /\ pc = "swaps"
  /\ \/ /\ SwapDevicesOK(sysfs, mounts, swaps)
        /\ obs' = [obs EXCEPT !.swap = SwapDevices(sysfs, mounts, swaps)]
        /\ insp' = insp /\ Observe("source")
     \/ Abort("unresolved")

ObserveSource ==
  /\ pc = "source"
  /\ \/ /\ SourceOK(sysfs, mounts, ImagePath)
        /\ obs' = [obs EXCEPT !.fs = Source(sysfs, mounts, ImagePath).fs,
                             !.backing = Source(sysfs, mounts, ImagePath).backing]
        /\ insp' = insp /\ Observe("stat")
     \/ Abort("unresolved")

\* os.Stat of the image path, and the effective user.
StatImage ==
  /\ pc = "stat"
  /\ \/ /\ path # NoInode
        /\ insp' = [insp EXCEPT !.compressed = Len(content[path])]
        /\ obs' = [obs EXCEPT !.euid = kern.euid]
        /\ Observe(IF req.mode = "live" THEN "live" ELSE "policy")
     \/ Abort("stat")

observeLive ==
  /\ pc = "live"
  /\ \/ /\ RootDiskOK(sysfs, mounts)
        /\ obs' = [obs EXCEPT !.root = RootDisk(sysfs, mounts),
                             !.memory = kern.memory, !.sysrq = kern.sysrq]
        /\ insp' = insp /\ Observe("policy")
     \/ Abort("unresolved")

\* Mutant: a refused inspection is handed out together with its error.
ApplyPolicy_Shows ==
  /\ pc = "policy"
  /\ LET verdict == Inspect(req.mode, insp.target, image, obs) IN
         \/ /\ verdict # "ok" \/ req.op = "inspect"
            /\ Return(verdict) /\ Show
            /\ UNCHANGED <<machineVars, imageVars, req, fd, remounting, rebooted, calls,
                           touched, stale>>
         \/ /\ verdict = "ok" /\ req.op # "inspect"
            /\ insp' = [insp EXCEPT !.token = ConfirmationToken(insp.target, image)]
            /\ obs' = NoObs /\ Observe("verify")

\* policy.Inspect.  Engine.Inspect returns here; Write goes on to Verify.
ApplyPolicy ==
  /\ pc = "policy"
  /\ LET verdict == Inspect(req.mode, insp.target, image, obs) IN
         \/ verdict # "ok" /\ Abort(verdict)
         \/ /\ verdict = "ok" /\ req.op = "inspect"
            /\ Return("ok") /\ Show
            /\ UNCHANGED <<machineVars, imageVars, req, fd, remounting, rebooted, calls,
                           touched, stale>>
         \/ /\ verdict = "ok" /\ req.op # "inspect"
            /\ insp' = [insp EXCEPT !.token = ConfirmationToken(insp.target, image)]
            /\ obs' = NoObs /\ Observe("verify")

----------------------------------------------------------------------------
(* VerifyImage, sameIdentity, Confirm.                                     *)

\* Verify of ImageWrite; its errors end the call.
VerifyImage ==
  /\ pc = "verify"
  /\ \/ UNCHANGED nonImageVars /\ W!VerifyStep
     \/ phase \in W!Failures /\ Unwind(phase)
     \/ phase = "held" /\ Goto("identity")

\* Mutant: the source stays open when the identity has changed.
CheckIdentity_Leaks ==
  /\ pc = "identity"
  /\ \/ ~sameIdentity /\ Abort("identity_changed")
     \/ sameIdentity /\ req.op = "write" /\ Goto("confirm")

CheckIdentity ==
  /\ pc = "identity"
  /\ \/ ~sameIdentity /\ Unwind("identity_changed")
     \/ /\ sameIdentity /\ req.op = "dry"
        /\ Return("ok") /\ Show /\ CloseSource /\ fd' = NoFd
        /\ UNCHANGED <<machineVars, req, remounting, rebooted, calls, touched, stale>>
     \/ sameIdentity /\ req.op = "dry" /\ Unwind("close")
     \/ sameIdentity /\ req.op = "write" /\ Goto("confirm")

\* Mutant: live mode goes on without the approval of the reboot.
Confirm_NoReboot ==
  /\ pc = "confirm"
  /\ \/ req.token # insp.token /\ Unwind("confirmation_mismatch")
     \/ req.token = insp.token /\ req.mode = "live" /\ Goto("mlockall")
     \/ req.token = insp.token /\ req.mode = "rescue" /\ Goto("open")

\* Confirm, and the reboot gate of live mode.
Confirm ==
  /\ pc = "confirm"
  /\ \/ req.token # insp.token /\ Unwind("confirmation_mismatch")
     \/ req.token = insp.token /\ req.mode = "live" /\ ~req.reboot /\ Unwind("live_reboot_required")
     \/ req.token = insp.token /\ req.mode = "live" /\ req.reboot /\ Goto("mlockall")
     \/ req.token = insp.token /\ req.mode = "rescue" /\ Goto("open")

----------------------------------------------------------------------------
(* prepareLive: four operations, the first error ends the call and nothing *)
(* is undone.                                                              *)

Mlockall ==
  /\ pc = "mlockall"
  /\ Goto("readSwaps") \/ Unwind("mlockall")

\* Swapoff reads /proc/swaps once and then disables one area after another.
ReadSwapRecords ==
  /\ pc = "readSwaps"
  /\ \/ /\ pc' = "swapoff" /\ todo' = swaps
        /\ stale' = stale \ {"swap"}
        /\ UNCHANGED <<machineVars, imageVars, callVars, polls, remounting, rebooted, result,
                       calls, shown, touched>>
     \/ Unwind("swapoff")

\* Mutant: the last area is left on.
Swapoff_ButOne ==
  /\ pc = "swapoff"
  /\ \/ Len(todo) <= 1 /\ Goto("enableSysRq")
     \/ /\ Len(todo) > 1
        /\ \E i \in DOMAIN swaps :
             /\ swaps[i] = Head(todo)
             /\ swaps' = SubSeq(swaps, 1, i - 1) \o SubSeq(swaps, i + 1, Len(swaps))
        /\ todo' = Tail(todo)
        /\ UNCHANGED <<sysfs, node, mounts, kern, imageVars, pc, callVars, polls, remounting,
                       rebooted, result, calls, histVars>>
     \/ todo # <<>> /\ Unwind("swapoff")

Swapoff ==
  /\ pc = "swapoff"
  /\ \/ todo = <<>> /\ Goto("enableSysRq")
     \/ /\ todo # <<>>
        /\ \E i \in DOMAIN swaps :
             /\ swaps[i] = Head(todo)
             /\ swaps' = SubSeq(swaps, 1, i - 1) \o SubSeq(swaps, i + 1, Len(swaps))
        /\ todo' = Tail(todo)
        /\ UNCHANGED <<sysfs, node, mounts, kern, imageVars, pc, callVars, polls, remounting,
                       rebooted, result, calls, histVars>>
     \/ todo # <<>> /\ Unwind("swapoff")

EnableSysRq ==
  /\ pc = "enableSysRq"
  /\ Goto("remount") \/ Unwind("sysrq")

\* RemountReadOnly: SysRq-u, then at most remountPollAttempts looks at mountinfo.
TriggerRemount ==
  /\ pc = "remount"
  /\ \/ /\ pc' = "poll" /\ polls' = PollAttempts /\ remounting' = TRUE
        /\ UNCHANGED <<machineVars, imageVars, callVars, todo, rebooted, result, calls, histVars>>
     \/ Unwind("sysrq")
     \/ /\ Return("sysrq") /\ CloseSource /\ fd' = NoFd   \* closing the control failed
        /\ remounting' = TRUE
        /\ UNCHANGED <<machineVars, req, rebooted, calls, histVars>>

\* Mutants: the attempts are not counted; the remount is triggered again
\* when they are used up.
PollMounts_Uncounted ==
  /\ pc = "poll"
  /\ \/ /\ BlockMountsReadOnly(sysfs, mounts)
        /\ pc' = "open" /\ stale' = stale \ {"mount"} /\ polls' = 0
     \/ /\ ~BlockMountsReadOnly(sysfs, mounts)
        /\ polls' = polls - 1 /\ UNCHANGED <<pc, stale>>
  /\ UNCHANGED <<machineVars, imageVars, callVars, todo, remounting, rebooted, result, calls,
                 shown, touched>>
PollMounts_Again ==
  /\ pc = "poll"
  /\ \/ polls = 0 /\ Goto("remount")
     \/ /\ polls > 0 /\ BlockMountsReadOnly(sysfs, mounts)
        /\ pc' = "open" /\ stale' = stale \ {"mount"} /\ polls' = 0
        /\ UNCHANGED <<machineVars, imageVars, callVars, todo, remounting, rebooted, result,
                       calls, shown, touched>>
     \/ /\ polls > 0 /\ ~BlockMountsReadOnly(sysfs, mounts)
        /\ polls' = polls - 1
        /\ UNCHANGED <<machineVars, imageVars, pc, callVars, todo, remounting, rebooted,
                       result, calls, histVars>>

PollMounts ==
  /\ pc = "poll"
  /\ \/ polls = 0 /\ Unwind("remount_incomplete")
     \/ polls > 0 /\ Unwind("unresolved")
     \/ /\ polls > 0 /\ BlockMountsReadOnly(sysfs, mounts)
        /\ pc' = "open" /\ stale' = stale \ {"mount"} /\ polls' = 0
        /\ UNCHANGED <<machineVars, imageVars, callVars, todo, remounting, rebooted, result,
                       calls, shown, touched>>
     \/ /\ polls > 0 /\ ~BlockMountsReadOnly(sysfs, mounts)
        /\ polls' = polls - 1
        /\ UNCHANGED <<machineVars, imageVars, pc, callVars, todo, remounting, rebooted,
                       result, calls, histVars>>

----------------------------------------------------------------------------
(* OpenTarget and validateOpenedTarget.                                    *)

\* Mutant: the target is opened without O_EXCL.
OpenTarget_Shared ==
  /\ pc = "open"
  /\ \/ /\ node.kind = "block"
        /\ \E d \in nameByDeviceNumber(sysfs, node.num) :
             fd' = [open |-> TRUE, inst |-> sysfs[d].inst, name |-> d, num |-> node.num,
                    excl |-> FALSE, dead |-> FALSE]
        /\ pc' = "validate"
        /\ UNCHANGED <<machineVars, imageVars, req, obs, insp, readVars, liveVars, result, calls,
                       histVars>>
     \/ Unwind("open")

OpenTarget ==
  /\ pc = "open"
  /\ \/ /\ node.kind = "block"        \* O_NOFOLLOW, and the S_IFBLK check
        /\ \E d \in nameByDeviceNumber(sysfs, node.num) :
             /\ req.mode = "rescue" => ~Busy(sysfs, mounts, swaps, d)
             /\ fd' = [open |-> TRUE, inst |-> sysfs[d].inst, name |-> d, num |-> node.num,
                       excl |-> req.mode = "rescue", dead |-> FALSE]
        /\ pc' = "validate"
        /\ UNCHANGED <<machineVars, imageVars, req, obs, insp, readVars, liveVars, result, calls,
                       histVars>>
     \/ Unwind("open")

\* validateOpenedTarget reads the target again (ReadTarget) and compares.
ValidateTarget ==
  /\ pc = "validate" /\ got = Len(TargetFields)
  /\ \/ /\ sameTarget
        /\ pc' = "devnum" /\ cur' = NoTarget /\ got' = 0
        /\ UNCHANGED <<machineVars, imageVars, req, obs, insp, fd, liveVars, result, calls,
                       histVars>>
     \/ ~sameTarget /\ Unwind("identity_changed")

\* Mutant: the number of the descriptor is not compared.
ValidateNumber_Skipped == pc = "devnum" /\ (Goto("write") \/ Unwind("identity_changed"))

ValidateNumber ==
  /\ pc = "devnum"
  /\ \/ /\ blockPathOK(sysfs, insp.target.kname)
        /\ deviceNumber(sysfs, insp.target.kname) = fd.num
        /\ Goto("write")
     \/ Unwind("identity_changed")
     \/ Unwind("open")                               \* fstat failed

----------------------------------------------------------------------------
(* WriteVerified, Fdatasync, FlushBlock, rebootLive, and the result.       *)

\* Mutant: the error of the copy is dropped.
WriteVerified_DropsError ==
  /\ pc = "write"
  /\ \/ UNCHANGED nonImageVars /\ W!SourceStep
     \/ /\ UNCHANGED <<machineVars, pc, callVars, liveVars, result, calls, shown, stale>>
        /\ W!DestinationStep
        /\ \/ dest' = dest /\ touched' = touched
           \/ dest' # dest /\ Alive(sysfs, fd) /\ touched' = touched \union {Receipt}
     \/ UNCHANGED nonImageVars /\ Alive(sysfs, fd) /\ W!Sync
     \/ phase \in {"written"} \union W!Failures /\ Goto("fdatasync")

WriteVerified ==
  /\ pc = "write"
  /\ \/ UNCHANGED nonImageVars /\ W!SourceStep
     \/ /\ UNCHANGED <<machineVars, pc, callVars, liveVars, result, calls, shown, stale>>
        /\ W!DestinationStep
        /\ \/ dest' = dest /\ touched' = touched
           \/ dest' # dest /\ Alive(sysfs, fd) /\ touched' = touched \union {Receipt}
     \/ UNCHANGED nonImageVars /\ Alive(sysfs, fd) /\ W!Sync
     \/ phase \in W!Failures /\ Unwind(phase)
     \/ phase = "written" /\ Goto("fdatasync")

Fdatasync ==
  /\ pc = "fdatasync"
  /\ (Alive(sysfs, fd) /\ Goto("flush")) \/ Unwind("fdatasync")

FlushBlock ==
  /\ pc = "flush"
  /\ \/ Alive(sysfs, fd) /\ req.mode = "live" /\ Goto("sysrqSync")
     \/ Alive(sysfs, fd) /\ req.mode = "rescue" /\ Unwind("ok")
     \/ Unwind("flush")

SysRqSync ==
  /\ pc = "sysrqSync"
  /\ Goto("sysrqReboot") \/ Unwind("sysrq")

\* Mutant: an error of the trigger is dropped.
SysRqReboot_DropsError ==
  /\ pc = "sysrqReboot" /\ rebooted' \in BOOLEAN
  /\ Return("ok") /\ CloseSource /\ fd' = NoFd
  /\ UNCHANGED <<machineVars, req, remounting, calls, histVars>>

SysRqReboot ==
  /\ pc = "sysrqReboot"
  /\ \/ /\ rebooted' = TRUE
        /\ Return("ok") \/ Return("sysrq")                  \* closing the control failed
        /\ CloseSource /\ fd' = NoFd
        /\ UNCHANGED <<machineVars, req, remounting, calls, histVars>>
     \/ Unwind("sysrq")

----------------------------------------------------------------------------
(* The rest of the machine.                                                *)

ChangeImage(i, data) ==
  UNCHANGED nonImageVars /\ (W!ReplaceImage(i) \/ (i # NoInode /\ W!MutateImage(i, data)))

CancelContext == pc # "idle" /\ UNCHANGED nonImageVars /\ W!Cancel

----------------------------------------------------------------------------
Init ==
  /\ StateInit
  /\ W!Idle /\ content \in [Inode -> W!Data] /\ path \in Inode \union {NoInode}

Inspection ==
  \/ ReadTarget \/ ObserveTarget \/ ObserveMounts \/ ObserveSwaps \/ ObserveSource
  \/ StatImage \/ observeLive \/ ApplyPolicy
prepareLive ==
  Mlockall \/ ReadSwapRecords \/ Swapoff \/ EnableSysRq \/ TriggerRemount \/ PollMounts
Completion == Fdatasync \/ FlushBlock \/ SysRqSync \/ SysRqReboot

Program ==
  \/ Inspection \/ VerifyImage \/ CheckIdentity \/ Confirm \/ prepareLive
  \/ OpenTarget \/ ValidateTarget \/ ValidateNumber \/ WriteVerified \/ Completion

Machine ==
  \/ \E sys \in Topologies : Replug(sys)
  \/ \E mts \in MountTables : ChangeMounts(mts)
  \/ \E sws \in SwapTables : ChangeSwaps(sws)
  \/ \E n \in Nodes : ChangeNode(n)
  \/ \E i \in Inode \union {NoInode}, data \in W!Data : ChangeImage(i, data)

Next == Calls \/ Program \/ Machine \/ CancelContext \/ KernelRemount

\* A call that has started keeps running.
Spec == Init /\ [][Next]_vars /\ WF_vars(Program)

----------------------------------------------------------------------------
TypeOK ==
  /\ sysfs \in Topologies /\ node \in Nodes /\ kern \in Kernels
  /\ mounts \in Seq(Mount) /\ swaps \in Seq(Swap) /\ todo \in Seq(Swap)
  /\ W!TypeOK
  /\ pc \in Steps
  /\ req \in RequestType(W!Data)
  /\ obs.mounted \subseteq Device /\ obs.swap \subseteq Device /\ obs.backing \subseteq Device
  /\ insp.target \in TargetType /\ insp.compressed \in Nat
  /\ cur \in TargetType /\ got \in 0 .. Len(TargetFields)
  /\ fd \in Descriptor
  /\ polls \in 0 .. PollAttempts /\ remounting \in BOOLEAN /\ rebooted \in BOOLEAN
  /\ calls \in 0 .. MaxCalls
  /\ \A s \in shown : s.target \in TargetType /\ s.image \in ImageType(W!Data)
  /\ stale \subseteq {"mount", "swap"}

\* How far a call has come, and the call as its caller sees it.
reached == IF pc = "idle" THEN "none" ELSE IF pc \in Opened THEN "open" ELSE "gates"
G == INSTANCE GuardedWrite WITH
       Image <- W!Expand, ask <- req, data <- dest, outcome <- result, written <- touched,
       intact <- changed = {}, call <- reached

(* Inspect and Write do nothing that their contract does not allow: every  *)
(* step, however the machine moves around it, is one of GuardedWrite or is *)
(* not visible there.  The target is opened for a confirmed call only,     *)
(* each chunk goes to hardware a confirmed inspection covers, durability   *)
(* is claimed of the whole, and a call that ends in any other place than   *)
(* its last has failed (diskforge.go, Engine; execute.go, Execute).        *)
KeepsContract == G!Spec

(* A write reports success only when the target durably holds the complete *)
(* expansion of the requested image and nothing more, unless the open file *)
(* was changed in place in one of the two windows `changed' records: while *)
(* Verify reads it, or after Write's second hash has begun.  A change      *)
(* between the two is not excepted.  And a live write has then rebooted    *)
(* the machine (execute.go, Execute and rebootLive).                       *)
SuccessIsDurable ==
  result = "ok" /\ req.op = "write" =>
    /\ changed = {} => dest = W!Expand(req.sha)
    /\ Len(dest) = req.expected /\ durable = dest
    /\ req.mode = "live" => rebooted

(* docs/safety-model.md says that the token binds the target's descendants *)
(* and relations: what is written would then have had, when the operator   *)
(* saw it, the descendants it has now (confirmation.go, ConfirmationToken, *)
(* leaves them out).                                                       *)
ConsentBindsRelations ==
  \A t \in touched : \E s \in shown :
    s.token = t.token /\ s.target.descendants = t.descendants

(* docs/safety-model.md says that in live mode every block-backed mount is *)
(* proven read-only; mounts is compared when nobody else has changed it    *)
(* since (observer.go, BlockMountsReadOnly, passes over anonymous device   *)
(* numbers).                                                               *)
EveryMountReadOnly ==
  pc \in Opened /\ req.mode = "live" /\ "mount" \notin stale =>
    \A i \in DOMAIN mounts : mounts[i].on # NoDevice => readOnly(mounts[i])

(* docs/safety-model.md says that in live mode the source resides on       *)
(* tmpfs; checked while nobody has changed a mount (observer.go, Source,   *)
(* takes the first of several mounts on one mount point).                  *)
LiveSourceInMemory ==
  pc \in Opened /\ req.mode = "live" /\ "mount" \notin stale =>
    mounts[visible(mounts, ImagePath)].fs = "tmpfs"

(* Every call comes back: the remount poll is bounded and every other step *)
(* ends or fails (system.go, RemountReadOnly; execute.go, Execute).        *)
CallReturns == pc # "idle" ~> pc = "idle"
=============================================================================
