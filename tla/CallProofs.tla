---------------------------- MODULE CallProofs ----------------------------
(***************************************************************************)
(* The steps of module Execute sorted by what they change and what they    *)
(* leave alone, in terms of the state only, and the invariants that every  *)
(* kind of step keeps.  They say what a call establishes about the target  *)
(* it reads, opens and compares, what each gate it passes has shown, what  *)
(* it holds and releases, that what receives data has room for the image,  *)
(* and that the machine is quiet while a live write has the target open;   *)
(* on every machine: any number of devices, topologies, mount and swap     *)
(* tables, requests, calls and moves of other processes.  StepProofs and   *)
(* CommandProofs show that every step is of one of the kinds.              *)
(***************************************************************************)
EXTENDS ExecuteState, TLAPS

\* Every leaf that names no prover: SMT, then Zenon.
USE SMTT(30), ZenonT(30)

----------------------------------------------------------------------------
(* The kinds of steps.                                                     *)

Early == {"idle", "target", "mounts", "swaps", "source", "stat", "live", "policy"}
AfterNumber   == {"write", "fdatasync", "flush", "sysrqSync", "sysrqReboot"}
AfterTargetOK == {"devnum"} \union AfterNumber
AfterConfirm  == {"mlockall", "readSwaps", "swapoff", "enableSysRq", "remount", "poll", "open",
                  "validate"} \union AfterTargetOK
AfterIdentity == {"confirm"} \union AfterConfirm
AfterPolicy   == {"verify", "identity"} \union AfterIdentity
AfterObserved == {"mounts", "swaps", "source", "stat", "live", "policy"} \union AfterPolicy
Finished == {"fdatasync", "flush", "sysrqSync", "sysrqReboot"}

ImageErrors == {"digest", "size", "canceled", "failed"}
Copied      == {"probe", "sync", "written"}

\* The call ends: what Return and the deferred Close calls leave behind.
Ends(code) ==
  /\ Return(code)
  /\ UNCHANGED <<machineVars, content, path, ctx, ver, buf, dest, durable, prog, changed, req,
                 calls, touched, stale>>
  /\ \/ fd' = NoFd /\ src' = NoInode /\ phase' = "closed"
     \/ pc \in Early \ {"idle"} /\ UNCHANGED <<fd, src, phase>>
  /\ shown' = shown \/ (Show /\ code = "ok" /\ pc \in {"policy", "identity"})
  /\ remounting' = remounting \/ remounting' = TRUE
  /\ rebooted' = rebooted \/ (rebooted' = TRUE /\ pc = "sysrqReboot")

\* Where a call can end in which way.
Outcome(code) ==
  /\ pc # "idle" /\ code # "none"
  /\ code = "ok" => \/ pc \in {"policy", "identity"} /\ req.op # "write" /\ Show
                    \/ pc = "flush" /\ req.mode = "rescue"
                    \/ pc = "sysrqReboot" /\ rebooted'
  /\ pc = "write" => code = phase /\ phase \in ImageErrors
  /\ pc \in {"fdatasync", "flush", "sysrqSync", "sysrqReboot"} =>
       code \in {"ok", "fdatasync", "flush", "sysrq"}

CallEnds == \E code : Ends(code) /\ Outcome(code)

\* A step from a to b that leaves the image, the request, the inspection and
\* the descriptor alone.
Moves(a, b) ==
  /\ pc = a /\ pc' = b
  /\ UNCHANGED <<sysfs, node, mounts, kern, imageVars, req, insp, readVars, fd, rebooted, result,
                 calls, shown, touched>>
  /\ swaps' = swaps \/ a = "swapoff"
  /\ remounting => remounting'

Reads ==
  /\ pc \in {"target", "validate"} /\ got < Len(TargetFields)
  /\ LET f == TargetFields[got + 1] IN
       \/ /\ FieldOK(sysfs, TargetName, f)
          /\ cur' = [cur EXCEPT !.kname = TargetName, ![f] = Target(sysfs, TargetName)[f]]
       \/ /\ f \in Unreadable \/ (f \in Optional /\ ~blockPathOK(sysfs, TargetName))
          /\ cur' = cur
  /\ got' = got + 1
  /\ UNCHANGED <<machineVars, imageVars, pc, req, obs, insp, fd, liveVars, result, calls, histVars>>

\* The state of the preparations of live mode stays.
Still == UNCHANGED <<swaps, liveVars, stale>>

Observes ==
  /\ Still
  /\ \/ Moves("mounts", "swaps") /\ obs' = [obs EXCEPT !.mounted = MountedDevices(sysfs, mounts)]
     \/ Moves("swaps", "source") /\ obs' = [obs EXCEPT !.swap = SwapDevices(sysfs, mounts, swaps)]
     \/ Moves("source", "stat") /\ obs' = [obs EXCEPT !.fs = Source(sysfs, mounts, ImagePath).fs,
                                                   !.backing = Source(sysfs, mounts, ImagePath).backing]
     \/ Moves("live", "policy") /\ obs' = [obs EXCEPT !.root = RootDisk(sysfs, mounts),
                                                   !.memory = kern.memory, !.sysrq = kern.sysrq]

\* The steps that fill in the inspection.
Fills ==
  /\ UNCHANGED <<machineVars, imageVars, req, readVars, fd, liveVars, result, calls, histVars>>
  /\ \/ /\ pc = "stat" /\ pc' = IF req.mode = "live" THEN "live" ELSE "policy"
        /\ path # NoInode
        /\ insp' = [insp EXCEPT !.compressed = Len(content[path])]
        /\ obs' = [obs EXCEPT !.euid = kern.euid]
     \/ /\ pc = "policy" /\ pc' = "verify" /\ req.op # "inspect" /\ obs' = NoObs
        /\ Inspect(req.mode, insp.target, image, obs) = "ok"
        /\ insp' = [insp EXCEPT !.token = ConfirmationToken(insp.target, image)]

Gates ==
  /\ Still /\ obs' = obs
  /\ \/ Moves("verify", "identity") /\ phase = "held"
     \/ Moves("identity", "confirm") /\ sameIdentity /\ req.op = "write"
     \/ Moves("confirm", "mlockall") /\ req.token = insp.token /\ req.mode = "live" /\ req.reboot
     \/ Moves("confirm", "open") /\ req.token = insp.token /\ req.mode = "rescue"

Prepares ==
  /\ obs' = obs
  /\ \/ Moves("mlockall", "readSwaps") /\ Still
     \/ /\ Moves("readSwaps", "swapoff") /\ todo' = swaps /\ stale' = stale \ {"swap"}
        /\ UNCHANGED <<swaps, polls, remounting>>
     \/ /\ Moves("swapoff", "swapoff") /\ todo # <<>> /\ todo' = Tail(todo)
        /\ \E i \in DOMAIN swaps :
             /\ swaps[i] = Head(todo)
             /\ swaps' = SubSeq(swaps, 1, i - 1) \o SubSeq(swaps, i + 1, Len(swaps))
        /\ UNCHANGED <<polls, remounting, stale>>
     \/ Moves("swapoff", "enableSysRq") /\ todo = <<>> /\ Still
     \/ Moves("enableSysRq", "remount") /\ Still
     \/ /\ Moves("remount", "poll") /\ polls' = PollAttempts /\ remounting' = TRUE
        /\ UNCHANGED <<swaps, todo, stale>>
     \/ Moves("poll", "poll") /\ polls > 0 /\ polls' = polls - 1 /\ UNCHANGED <<swaps, todo, remounting, stale>>
     \/ /\ Moves("poll", "open") /\ BlockMountsReadOnly(sysfs, mounts)
        /\ stale' = stale \ {"mount"} /\ polls' = 0 /\ UNCHANGED <<swaps, todo, remounting>>

Opens ==
  /\ pc = "open" /\ pc' = "validate"
  /\ \E d \in nameByDeviceNumber(sysfs, node.num) :
       /\ req.mode = "rescue" => ~Busy(sysfs, mounts, swaps, d)
       /\ fd' = [open |-> TRUE, inst |-> sysfs[d].inst, name |-> d, num |-> node.num,
                 excl |-> req.mode = "rescue", dead |-> FALSE]
  /\ UNCHANGED <<machineVars, imageVars, req, obs, insp, readVars, liveVars, result, calls, histVars>>

\* Observer.Target has read all fields, before or after the opening.
HasRead ==
  /\ got = Len(TargetFields) /\ cur' = NoTarget /\ got' = 0
  /\ \/ pc = "target" /\ pc' = "mounts" /\ insp' = [insp EXCEPT !.target = cur]
     \/ pc = "validate" /\ pc' = "devnum" /\ sameTarget /\ insp' = insp
  /\ UNCHANGED <<machineVars, imageVars, req, obs, fd, liveVars, result, calls, histVars>>

HasNumber ==
  /\ blockPathOK(sysfs, insp.target.kname) /\ deviceNumber(sysfs, insp.target.kname) = fd.num
  /\ Moves("devnum", "write") /\ Still /\ obs' = obs

Finishes ==
  /\ Still /\ obs' = obs
  /\ \/ Moves("write", "fdatasync") /\ phase = "written"
     \/ Moves("fdatasync", "flush")
     \/ Moves("flush", "sysrqSync") /\ req.mode = "live"
     \/ Moves("sysrqSync", "sysrqReboot")

\* A step of Verify: it writes nothing, and holds the source unless it fails.
Verifies ==
  /\ UNCHANGED <<content, path, ctx, dest, durable, prog>>
  /\ changed' = changed \/ (changed' = {} /\ phase = "closed")
  /\ phase' \in {"hash", "format", "held"} \union ImageErrors
  /\ phase' \in {"hash", "format", "held"} =>
       src' # NoInode \/ (src' = src /\ phase \in {"hash", "format"})

\* A step of Write: it keeps the source, writes a chunk more or syncs, and
\* has written as much as was asked for when it ends well.
Copies ==
  /\ UNCHANGED <<content, path, ctx, src, ver, changed>>
  /\ \/ UNCHANGED <<dest, durable>>
     \/ Len(dest) < req.expected /\ (\E c : dest' = Append(dest, c)) /\ durable' = durable
     \/ phase = "sync" /\ durable' = dest /\ dest' = dest
  /\ phase' \in {"rehash", "copy", "failed", "canceled", "size"} \union Copied
  /\ phase' \in Copied => Len(dest') = req.expected \/ (dest' = dest /\ phase \in Copied)
  /\ phase' = "written" => durable' = dest'

Images ==
  /\ UNCHANGED <<machineVars, pc, callVars, liveVars, result, calls, shown, stale>>
  /\ \/ pc = "verify" /\ Verifies /\ touched' = touched
     \/ /\ pc = "write" /\ Copies
        /\ \/ dest' = dest /\ touched' = touched
           \/ dest' # dest /\ Alive(sysfs, fd) /\ touched' = touched \union {Receipt}

\* A call is made: it is refused, or starts to read the target.
Starts ==
  /\ pc = "idle" /\ ~rebooted /\ calls < MaxCalls /\ calls' = calls + 1
  /\ \E r \in Requests, token \in {NoToken} \union {s.token : s \in shown} :
       req' = [op |-> r.op, mode |-> r.mode, paths |-> r.paths, sha |-> r.sha,
               expected |-> r.expected, reboot |-> r.reboot, token |-> token]
  /\ \/ /\ pc' = "target" /\ result' = "none"
        /\ req'.op = "write" => \E s \in shown : s.token = req'.token
     \/ pc' = "idle" /\ result' \notin {"none", "ok"}
  /\ dest' = <<>> /\ durable' = <<>> /\ changed' = {}
  /\ UNCHANGED <<machineVars, content, path, src, phase, obs, insp, readVars, fd, liveVars, histVars>>

\* Between two calls the process around them may forget the result.
Rests ==
  /\ pc = "idle"
  /\ UNCHANGED <<machineVars, imageVars, pc, callVars, liveVars, calls, histVars>>

\* The process is killed.
Dies == Ends("killed") /\ shown' = shown /\ UNCHANGED <<remounting, rebooted>>

\* The image file or the context changes.
ImageMoves ==
  /\ UNCHANGED <<nonImageVars, src, ver, phase, buf, dest, durable, prog>>
  /\ src = NoInode => changed' = changed
  /\ changed \subseteq changed'

Outside ==
  \/ \E sys \in Topologies : Replug(sys)
  \/ \E mts \in MountTables : ChangeMounts(mts)
  \/ \E sws \in SwapTables : ChangeSwaps(sws)
  \/ \E n \in Nodes : ChangeNode(n)
  \/ KernelRemount \/ ImageMoves \/ UNCHANGED vars

Runs ==
  \/ CallEnds \/ Reads \/ HasRead \/ Observes \/ Fills \/ Images \/ Gates \/ Prepares
  \/ Opens \/ HasNumber \/ Finishes

Step == Starts \/ Runs \/ Outside \/ Rests \/ Dies

----------------------------------------------------------------------------
(* Consent.                                                                *)

\* What the first k reads of a target establish when all of them read this
\* hardware.
MatchesUpTo(k, target, inst) ==
  /\ k > 0 => target.size = Ident[inst].sectors * SectorBytes
  /\ k > 3 => target.serial \in Readable(inst, "serial")
  /\ k > 4 => target.wwn \in Readable(inst, "wwn")
Matches(target, inst) == MatchesUpTo(5, target, inst)

\* The descriptor is that of the device that has, and has had since the
\* opening, the name of the target.
AtTarget == Alive(sysfs, fd) /\ fd.name = TargetName

\* Observer.Target has started over whenever it does not run; while it runs
\* after the opening, what it has read belongs to the open device.
ReadInv ==
  /\ DOMAIN cur = {"kname", "serial", "wwn", "size", "partition", "descendants"} /\ got \in 0 .. 5
  /\ got = 0 => cur = NoTarget
  /\ (got <= 3 => cur.serial = NoText) /\ (got <= 4 => cur.wwn = NoText)
  /\ pc \notin {"target", "validate"} => got = 0
  /\ got > 0 => cur.kname = TargetName
  /\ pc = "validate" /\ AtTarget => MatchesUpTo(got, cur, fd.inst)

\* The inductive invariant.  A descriptor that is not dead is an open device
\* that kept its name and number; what the two checks after the opening
\* establish of it stays true, however often the names are given away.
ConsentInv ==
  /\ sysfs \in Topologies
  /\ DOMAIN insp = {"target", "compressed", "token"}
  /\ fd \in Descriptor
  /\ fd.open /\ ~fd.dead => Alive(sysfs, fd) /\ sysfs[fd.name].num = fd.num
  /\ \A s \in shown : s.token = ConfirmationToken(s.target, s.image)
  /\ pc # "idle" /\ req.op = "write" => \E s \in shown : s.token = req.token
  /\ pc \in AfterObserved => insp.target.kname = TargetName
  /\ pc \in AfterPolicy => insp.token = ConfirmationToken(insp.target, image)
  /\ pc \in AfterIdentity => req.op = "write"
  /\ pc \in AfterConfirm => req.token = insp.token
  /\ ReadInv
  /\ pc \in AfterTargetOK /\ AtTarget => Matches(insp.target, fd.inst)
  /\ pc \in AfterNumber /\ Alive(sysfs, fd) => fd.name = TargetName
  /\ ConsentBound


\* What the invariant speaks of, the step of the call apart.
SameCall == UNCHANGED <<sysfs, fd, req, insp, cur, got, shown, touched>>

\* The steps that pass no gate of it.
Plain(a, b) ==
  \/ a = b
  \/ a \notin {"target", "validate"} /\ b \notin {"idle", "target", "validate"}
     /\ \/ a \in AfterNumber /\ b \in AfterNumber
        \/ a \in AfterConfirm /\ b \in AfterConfirm \ AfterTargetOK
        \/ a \in AfterPolicy /\ b \in AfterPolicy \ AfterIdentity
        \/ a \in AfterObserved /\ b \in AfterObserved \ AfterPolicy

----------------------------------------------------------------------------
(* Each gate comes after the one before it (execute.go, Execute).          *)
LEMMA StepOrder ==
  /\ AfterNumber \subseteq AfterTargetOK /\ AfterTargetOK \subseteq AfterConfirm
  /\ AfterConfirm \subseteq AfterIdentity /\ AfterIdentity \subseteq AfterPolicy
  /\ AfterPolicy \subseteq AfterObserved /\ "idle" \notin AfterObserved /\ "target" \notin AfterObserved
BY Zenon DEF AfterNumber, AfterTargetOK, AfterConfirm, AfterIdentity, AfterPolicy, AfterObserved

(* No descriptor is open at first or after a call (execute.go, Execute).   *)
LEMMA NoFdType == NoFd \in Descriptor /\ ~NoFd.open
BY Zenon DEF NoFd, Descriptor

(* A reading of the target that starts over keeps its part of the          *)
(* invariant (observer.go, Target).                                        *)
LEMMA ReadStarts == ASSUME cur' = NoTarget, got' = 0 PROVE ReadInv'
BY DEF ReadInv, MatchesUpTo, NoTarget

(* A step that reads nothing keeps it too (observer.go, Target).           *)
LEMMA ReadRests ==
  ASSUME ReadInv, UNCHANGED <<cur, got, sysfs, fd>>,
         pc' = pc \/ (pc \notin {"target", "validate"} /\ pc' \notin {"target", "validate"})
  PROVE  ReadInv'
BY Zenon DEF ReadInv, AtTarget, MatchesUpTo

(* The token of the inspection stays that of the request (execute.go).     *)
LEMMA SameToken ==
  ASSUME req' = req, insp'.target = insp.target
  PROVE  ConfirmationToken(insp'.target, image') = ConfirmationToken(insp.target, image)
BY Zenon DEF ConfirmationToken, image

(* The initial states satisfy the invariant (execute.go, Execute).         *)
LEMMA ConsentInitially == StateInit => ConsentInv
<1> SUFFICES ASSUME StateInit PROVE ConsentInv
  OBVIOUS
<1>1. ReadInv
  BY DEF StateInit, ReadInv, MatchesUpTo, NoTarget
<1>2. /\ sysfs \in Topologies /\ DOMAIN insp = {"target", "compressed", "token"} /\ fd = NoFd
      /\ shown = {} /\ touched = {} /\ pc = "idle"
  BY Zenon DEF StateInit, NoInsp
<1> QED
  BY <1>1, <1>2, NoFdType, StepOrder, Zenon DEF ConsentInv, ConsentBound

(* A call that ends, with or without closing its descriptors, keeps it     *)
(* (execute.go, the deferred Close calls).                                 *)
LEMMA EndKeeps ==
  ASSUME ConsentInv, pc' = "idle", insp' = insp \/ insp' = NoInsp, fd' = fd \/ fd' = NoFd,
         cur' = NoTarget, got' = 0, sysfs' = sysfs, touched' = touched, shown \subseteq shown',
         \A s \in shown' : s.token = ConfirmationToken(s.target, s.image)
  PROVE  ConsentInv'
<1>1. fd' \in Descriptor
  BY NoFdType, Zenon DEF ConsentInv
<1>2. fd'.open /\ ~fd'.dead => Alive(sysfs', fd') /\ sysfs'[fd'.name].num = fd'.num
  BY NoFdType, Zenon DEF ConsentInv
<1>3. DOMAIN insp' = {"target", "compressed", "token"} /\ sysfs' \in Topologies
  BY Zenon DEF NoInsp, ConsentInv
<1>4. ConsentBound'
  BY Zenon DEF ConsentInv, ConsentBound
<1> QED
  BY <1>1, <1>2, <1>3, <1>4, ReadStarts, StepOrder, Zenon DEF ConsentInv

(* A step that leaves what the invariant speaks of alone, and passes none  *)
(* of the gates, keeps it (execute.go, prepareLive; write.go, Write).      *)
LEMMA FrameKeeps == ASSUME ConsentInv, SameCall, Plain(pc, pc') PROVE ConsentInv'
<1>1. /\ sysfs' = sysfs /\ fd' = fd /\ req' = req /\ insp' = insp /\ shown' = shown /\ touched' = touched
      /\ UNCHANGED <<cur, got>>
  BY Zenon DEF SameCall
<1>2. ConfirmationToken(insp'.target, image') = ConfirmationToken(insp.target, image)
  BY <1>1, SameToken, Zenon
<1>3. ReadInv'
  <2>1. pc' = pc \/ (pc \notin {"target", "validate"} /\ pc' \notin {"target", "validate"})
    BY Zenon DEF Plain
  <2> QED
    BY <1>1, <2>1, ReadRests, Zenon DEF ConsentInv
<1>4. /\ pc' # "idle" => pc # "idle"
      /\ pc' \in AfterObserved => pc \in AfterObserved
      /\ pc' \in AfterPolicy => pc \in AfterPolicy
      /\ pc' \in AfterIdentity => pc \in AfterIdentity
      /\ pc' \in AfterConfirm => pc \in AfterConfirm
      /\ pc' \in AfterTargetOK => pc \in AfterTargetOK
      /\ pc' \in AfterNumber => pc \in AfterNumber
  BY StepOrder, Zenon DEF Plain
<1>5. AtTarget' = AtTarget /\ ConsentBound' = ConsentBound
  BY <1>1, Zenon DEF AtTarget, ConsentBound
<1> QED
  BY <1>1, <1>2, <1>3, <1>4, <1>5 DEF ConsentInv

(* Moves from one step to the next leave the call as it is (execute.go).   *)
LEMMA MovesKeepCall == ASSUME NEW a, NEW b, Moves(a, b) PROVE SameCall /\ pc = a /\ pc' = b
BY Zenon DEF Moves, SameCall, readVars

(* Whatever way a call ends, what the operator has seen has its token      *)
(* (execute.go, Execute; system.go, Inspect).                              *)
LEMMA EndsKeep == ASSUME ConsentInv, NEW code, Ends(code) PROVE ConsentInv'
<1>1. /\ pc' = "idle" /\ insp' = NoInsp /\ (fd' = fd \/ fd' = NoFd) /\ cur' = NoTarget /\ got' = 0
      /\ sysfs' = sysfs /\ touched' = touched
  BY Zenon DEF Ends, Return, machineVars
<1>2. shown \subseteq shown' /\ \A s \in shown' : s.token = ConfirmationToken(s.target, s.image)
  <2>1. \A s \in shown : s.token = ConfirmationToken(s.target, s.image)
    BY Zenon DEF ConsentInv
  <2>2. shown' = shown \/ Show
    BY Zenon DEF Ends
  <2> QED
    BY <2>1, <2>2 DEF Show
<1> QED
  BY <1>1, <1>2, EndKeeps, Zenon

(* The steps that pass no gate keep it (execute.go, prepareLive and        *)
(* rebootLive; system.go, Inspect).                                        *)
LEMMA PlainMovesKeep == ASSUME ConsentInv, Observes \/ Prepares \/ Finishes PROVE ConsentInv'
<1>1. ASSUME NEW a, NEW b, Moves(a, b), Plain(a, b) PROVE ConsentInv'
  BY <1>1, MovesKeepCall, FrameKeeps, Zenon
<1>2. CASE Observes
  <2>1. Plain("mounts", "swaps") /\ Plain("swaps", "source") /\ Plain("source", "stat") /\ Plain("live", "policy")
    BY Zenon DEF Plain, AfterObserved, AfterPolicy, AfterIdentity, AfterConfirm, AfterTargetOK, AfterNumber
  <2> QED
    BY <1>1, <1>2, <2>1, Zenon DEF Observes
<1>3. CASE Prepares
  <2>1. \A a, b \in {"mlockall", "readSwaps", "swapoff", "enableSysRq", "remount", "poll", "open"} : Plain(a, b)
    BY DEF Plain, AfterConfirm, AfterTargetOK, AfterNumber
  <2> QED
    BY <1>1, <1>3, <2>1, Zenon DEF Prepares
<1>4. CASE Finishes
  <2>1. \A a, b \in AfterNumber : Plain(a, b)
    BY Zenon DEF Plain, AfterNumber
  <2> QED
    BY <1>1, <1>4, <2>1, Zenon DEF Finishes, AfterNumber
<1> QED
  BY <1>2, <1>3, <1>4, Zenon

(* What one read of the target gives, and what it leaves alone             *)
(* (observer.go, Target).                                                  *)
LEMMA ReadGives ==
  ASSUME ReadInv, Reads
  PROVE  /\ DOMAIN cur' = DOMAIN cur /\ got \in 0 .. 4 /\ got' = got + 1 /\ cur'.kname = TargetName
         /\ cur'.size = cur.size \/ (got = 0 /\ cur'.size = Target(sysfs, TargetName).size)
         /\ \/ cur'.serial = cur.serial /\ (got = 3 => "serial" \in Unreadable \/ ~blockPathOK(sysfs, TargetName))
            \/ got = 3 /\ cur'.serial = Target(sysfs, TargetName).serial
         /\ \/ cur'.wwn = cur.wwn /\ (got = 4 => "wwn" \in Unreadable \/ ~blockPathOK(sysfs, TargetName))
            \/ got = 4 /\ cur'.wwn = Target(sysfs, TargetName).wwn
         /\ got = 0 => cur'.size = Target(sysfs, TargetName).size
<1> DEFINE f == TargetFields[got + 1]
<1>1. got \in 0 .. 4 /\ got' = got + 1
  BY DEF ReadInv, Reads, TargetFields
<1>2. f = IF got = 0 THEN "size" ELSE IF got = 1 THEN "descendants"
          ELSE IF got = 2 THEN "partition" ELSE IF got = 3 THEN "serial" ELSE "wwn"
  BY <1>1 DEF TargetFields
<1>3. DOMAIN cur = {"kname", "serial", "wwn", "size", "partition", "descendants"} /\ (got > 0 => cur.kname = TargetName)
  BY Zenon DEF ReadInv
<1>4. \/ cur' = [cur EXCEPT !.kname = TargetName, ![f] = Target(sysfs, TargetName)[f]]
      \/ cur' = cur /\ (f \in Unreadable \/ (f \in Optional /\ ~blockPathOK(sysfs, TargetName)))
  BY Zenon DEF Reads
<1> HIDE DEF f
<1>5. CASE cur' = [cur EXCEPT !.kname = TargetName, ![f] = Target(sysfs, TargetName)[f]]
  <2>1. /\ DOMAIN cur' = DOMAIN cur /\ cur'.kname = TargetName
        /\ cur'.size = IF f = "size" THEN Target(sysfs, TargetName).size ELSE cur.size
        /\ cur'.serial = IF f = "serial" THEN Target(sysfs, TargetName).serial ELSE cur.serial
        /\ cur'.wwn = IF f = "wwn" THEN Target(sysfs, TargetName).wwn ELSE cur.wwn
    BY <1>1, <1>2, <1>3, <1>5, Zenon
  <2> QED
    BY <1>1, <1>2, <2>1
<1>6. CASE cur' = cur /\ (f \in Unreadable \/ (f \in Optional /\ ~blockPathOK(sysfs, TargetName)))
  <2>1. got \in 2 .. 4
    BY <1>1, <1>2, <1>6, UnreadableAssumption DEF Optional
  <2> QED
    BY <1>1, <1>2, <1>3, <1>6, <2>1
<1> QED
  BY <1>4, <1>5, <1>6, Zenon

(* A read of the target keeps it: after the opening, what it finds under   *)
(* the name of a device that is still the open one belongs to that device  *)
(* (observer.go, Target).                                                  *)
LEMMA ReadsKeep == ASSUME ConsentInv, Reads PROVE ConsentInv'
<1>1. /\ pc \in {"target", "validate"}
      /\ UNCHANGED <<sysfs, pc, req, insp, fd, shown, touched>>
  BY Zenon DEF Reads, machineVars, histVars
<1>2. ReadInv
  BY Zenon DEF ConsentInv
<1>3. ASSUME pc = "validate", AtTarget PROVE MatchesUpTo(got', cur', fd.inst)
  <2>1. MatchesUpTo(got, cur, fd.inst) /\ blockPathOK(sysfs, TargetName) /\ sysfs[TargetName].inst = fd.inst
    BY <1>2, <1>3, Zenon DEF ReadInv, AtTarget, Alive, blockPathOK
  <2>2. /\ Target(sysfs, TargetName).size = Ident[fd.inst].sectors * SectorBytes
        /\ Target(sysfs, TargetName).serial = Ident[fd.inst].serial
        /\ Target(sysfs, TargetName).wwn = Ident[fd.inst].wwn
    BY <2>1, Zenon DEF Target
  <2>3. (got <= 3 => cur.serial = NoText) /\ (got <= 4 => cur.wwn = NoText)
    BY <1>2, Zenon DEF ReadInv
  <2> QED
    BY <1>2, <2>1, <2>2, <2>3, ReadGives DEF MatchesUpTo, Readable
<1>4. ReadInv'
  BY <1>1, <1>2, <1>3, ReadGives DEF ReadInv, AtTarget
<1>5. ConfirmationToken(insp'.target, image') = ConfirmationToken(insp.target, image)
  BY <1>1, SameToken, Zenon
<1>6. AtTarget' = AtTarget /\ ConsentBound' = ConsentBound
  BY <1>1, Zenon DEF AtTarget, ConsentBound
<1> QED
  BY <1>1, <1>4, <1>5, <1>6 DEF ConsentInv

(* The end of a reading keeps it: before the opening it is the inspection, *)
(* after it the comparison with the inspection (system.go, sameTarget).    *)
LEMMA HasReadKeeps == ASSUME ConsentInv, HasRead PROVE ConsentInv'
<1>1. /\ got = 5 /\ UNCHANGED <<sysfs, req, fd, shown, touched>>
      /\ \/ pc = "target" /\ pc' = "mounts" /\ insp' = [insp EXCEPT !.target = cur]
         \/ pc = "validate" /\ pc' = "devnum" /\ cur = insp.target /\ insp' = insp
  BY Zenon DEF HasRead, machineVars, histVars, TargetFields, sameTarget
<1>2. ReadInv'
  BY ReadStarts, Zenon DEF HasRead
<1>3. ConsentBound' = ConsentBound /\ AtTarget' = AtTarget
  BY <1>1, Zenon DEF ConsentBound, AtTarget
<1>4. CASE pc = "target"
  <2>1. insp'.target.kname = TargetName /\ DOMAIN insp' = DOMAIN insp /\ pc' = "mounts"
    BY <1>1, <1>4 DEF ConsentInv, ReadInv
  <2>2. "mounts" \notin AfterPolicy
    BY Zenon DEF AfterPolicy, AfterIdentity, AfterConfirm, AfterTargetOK, AfterNumber
  <2> QED
    BY <1>1, <1>2, <1>3, <1>4, <2>1, <2>2, StepOrder, Zenon DEF ConsentInv
<1>5. CASE pc = "validate"
  <2>1. insp' = insp /\ pc' = "devnum" /\ (AtTarget => Matches(insp.target, fd.inst))
    BY <1>1, <1>5, Zenon DEF ConsentInv, ReadInv, Matches
  <2>2. ConfirmationToken(insp'.target, image') = ConfirmationToken(insp.target, image)
    BY <1>1, <2>1, SameToken, Zenon
  <2>3. "validate" \in AfterConfirm /\ "devnum" \notin AfterNumber
    BY Zenon DEF AfterConfirm, AfterNumber
  <2> QED
    BY <1>1, <1>2, <1>3, <1>5, <2>1, <2>2, <2>3, StepOrder, Zenon DEF ConsentInv
<1> QED
  BY <1>1, <1>4, <1>5, Zenon

(* The size of the image and the token are filled in (system.go, Inspect). *)
LEMMA FillsKeep == ASSUME ConsentInv, Fills PROVE ConsentInv'
<1>1. UNCHANGED <<sysfs, fd, req, cur, got, shown, touched>>
  BY Zenon DEF Fills, machineVars, readVars, histVars
<1>2. ConsentBound' = ConsentBound
  BY <1>1, Zenon DEF ConsentBound
<1>3. DOMAIN insp = {"target", "compressed", "token"} /\ ReadInv
  BY Zenon DEF ConsentInv
<1>4. CASE pc = "stat"
  <2>1. insp'.target = insp.target /\ DOMAIN insp' = DOMAIN insp /\ pc' \in {"live", "policy"}
    BY <1>3, <1>4, Zenon DEF Fills
  <2>2. ReadInv'
    BY <1>1, <1>3, <1>4, <2>1, ReadRests, Zenon
  <2>3. pc' \notin AfterPolicy /\ pc \in AfterObserved
    BY <1>4, <2>1, Zenon DEF AfterObserved, AfterPolicy, AfterIdentity, AfterConfirm, AfterTargetOK, AfterNumber
  <2> QED
    BY <1>1, <1>2, <1>4, <2>1, <2>2, <2>3, StepOrder, Zenon DEF ConsentInv
<1>5. CASE pc = "policy"
  <2>1. /\ insp'.target = insp.target /\ insp'.token = ConfirmationToken(insp.target, image)
        /\ DOMAIN insp' = DOMAIN insp /\ pc' = "verify"
    BY <1>3, <1>5, Zenon DEF Fills
  <2>2. ReadInv'
    BY <1>1, <1>3, <1>5, <2>1, ReadRests, Zenon
  <2>3. "verify" \notin AfterIdentity /\ pc \in AfterObserved
    BY <1>5, Zenon DEF AfterObserved, AfterIdentity, AfterConfirm, AfterTargetOK, AfterNumber
  <2>4. ConfirmationToken(insp'.target, image') = ConfirmationToken(insp.target, image)
    BY <1>1, <2>1, SameToken, Zenon
  <2> QED
    BY <1>1, <1>2, <1>5, <2>1, <2>2, <2>3, <2>4, StepOrder, Zenon DEF ConsentInv
<1> QED
  BY <1>4, <1>5, Zenon DEF Fills

(* A step that passes a gate keeps it when the gate establishes what the   *)
(* invariant says of the steps behind it (execute.go, Execute).            *)
LEMMA GateKeeps ==
  ASSUME ConsentInv, SameCall, pc \in AfterPolicy \ {"validate"}, pc' \in AfterPolicy \ {"validate"},
         pc' \in AfterIdentity => req.op = "write",
         pc' \in AfterConfirm => req.token = insp.token,
         pc' \in AfterTargetOK => pc \in AfterTargetOK,
         pc' \in AfterNumber /\ Alive(sysfs, fd) => fd.name = TargetName
  PROVE  ConsentInv'
<1>1. /\ sysfs' = sysfs /\ fd' = fd /\ req' = req /\ insp' = insp /\ shown' = shown /\ touched' = touched
      /\ UNCHANGED <<cur, got>>
  BY Zenon DEF SameCall
<1>2. ConfirmationToken(insp'.target, image') = ConfirmationToken(insp.target, image)
  BY <1>1, SameToken, Zenon
<1>3. pc # "idle" /\ pc # "target" /\ pc' # "idle" /\ pc' # "target" /\ pc \in AfterObserved
  BY StepOrder, Zenon
<1>4. ReadInv'
  BY <1>1, <1>3, ReadRests, Zenon DEF ConsentInv
<1>5. AtTarget' = AtTarget /\ ConsentBound' = ConsentBound
  BY <1>1, Zenon DEF AtTarget, ConsentBound
<1> QED
  BY <1>1, <1>2, <1>3, <1>4, <1>5, Zenon DEF ConsentInv

(* Verification, the identity check and the comparison of the token keep   *)
(* it (execute.go, Prepare and Execute).                                   *)
LEMMA GatesKeep == ASSUME ConsentInv, Gates PROVE ConsentInv'
<1>1. /\ SameCall
      /\ \/ pc = "verify" /\ pc' = "identity"
         \/ pc = "identity" /\ pc' = "confirm" /\ req.op = "write"
         \/ pc = "confirm" /\ pc' \in {"mlockall", "open"} /\ req.token = insp.token
  BY MovesKeepCall, Zenon DEF Gates
<1>2. /\ pc \in AfterPolicy \ {"validate"} /\ pc' \in AfterPolicy \ {"validate"}
      /\ pc' \notin AfterTargetOK /\ pc' \notin AfterNumber
      /\ pc' \in AfterIdentity => pc \in {"identity", "confirm"}
      /\ pc' \in AfterConfirm => pc = "confirm"
  BY <1>1, Zenon DEF AfterPolicy, AfterIdentity, AfterConfirm, AfterTargetOK, AfterNumber
<1>3. pc = "confirm" => req.op = "write"
  BY Zenon DEF ConsentInv, AfterIdentity
<1> QED
  BY <1>1, <1>2, <1>3, GateKeeps, Zenon

(* The name has the number of the descriptor, and no other name has it     *)
(* (system.go, validateOpenedTarget).                                      *)
LEMMA HasNumberKeeps == ASSUME ConsentInv, HasNumber PROVE ConsentInv'
<1>1. SameCall /\ pc = "devnum" /\ pc' = "write"
  BY MovesKeepCall, Zenon DEF HasNumber
<1>2. /\ "devnum" \in AfterPolicy \ {"validate"} /\ "write" \in AfterPolicy \ {"validate"}
      /\ "devnum" \in AfterConfirm /\ "devnum" \in AfterTargetOK
  BY Zenon DEF AfterPolicy, AfterIdentity, AfterConfirm, AfterTargetOK, AfterNumber
<1>3. /\ insp.target.kname = TargetName /\ req.op = "write" /\ req.token = insp.token
      /\ fd.open /\ ~fd.dead => Alive(sysfs, fd) /\ sysfs[fd.name].num = fd.num
      /\ IsSysfs(sysfs)
  BY <1>1, <1>2, StepOrder, TopologyAssumption, Zenon DEF ConsentInv
<1>4. TargetName \in DOMAIN sysfs /\ sysfs[TargetName].num = fd.num
  BY <1>3, Zenon DEF HasNumber, blockPathOK, deviceNumber
<1>5. Alive(sysfs, fd) => fd.name \in DOMAIN sysfs /\ sysfs[fd.name].num = fd.num
  BY <1>3, Zenon DEF Alive
<1>6. Alive(sysfs, fd) => fd.name = TargetName
  BY <1>3, <1>4, <1>5, Zenon DEF IsSysfs
<1> QED
  BY <1>1, <1>2, <1>3, <1>6, GateKeeps, Zenon

(* Opening the target: the new descriptor has the number of the name it    *)
(* was opened by (system.go, OpenTarget).                                  *)
LEMMA OpensKeep == ASSUME ConsentInv, Opens PROVE ConsentInv'
<1>1. PICK d \in nameByDeviceNumber(sysfs, node.num) :
        fd' = [open |-> TRUE, inst |-> sysfs[d].inst, name |-> d, num |-> node.num,
               excl |-> req.mode = "rescue", dead |-> FALSE]
  BY Zenon DEF Opens
<1>2. pc = "open" /\ pc' = "validate" /\ UNCHANGED <<sysfs, req, insp, cur, got, shown, touched>>
  BY Zenon DEF Opens, machineVars, readVars, histVars
<1>3. sysfs \in Topologies /\ ReadInv
  BY Zenon DEF ConsentInv
<1>4. d \in DOMAIN sysfs /\ sysfs[d].num = node.num /\ sysfs[d] \in Entry /\ d \in Device
  BY <1>1, <1>3, TopologyAssumption, Zenon DEF nameByDeviceNumber, IsSysfs
<1>5. fd' \in Descriptor
  BY <1>1, <1>4, Zenon DEF Descriptor, Entry
<1>6. Alive(sysfs', fd') /\ sysfs'[fd'.name].num = fd'.num
  BY <1>1, <1>2, <1>4, Zenon DEF Alive
<1>7. ConfirmationToken(insp'.target, image') = ConfirmationToken(insp.target, image)
  BY <1>2, SameToken, Zenon
<1>8. ReadInv'
  BY <1>2, <1>3, ReadStarts, Zenon DEF ReadInv
<1>9. ConsentBound' = ConsentBound
  BY <1>2, Zenon DEF ConsentBound
<1>10. /\ "open" \in AfterConfirm /\ "open" \in AfterIdentity /\ "open" \in AfterPolicy
       /\ "open" \in AfterObserved /\ "validate" \notin AfterTargetOK /\ "validate" \notin AfterNumber
  BY Zenon DEF AfterObserved, AfterPolicy, AfterIdentity, AfterConfirm, AfterTargetOK, AfterNumber
<1> HIDE <1>1
<1> QED
  BY <1>2, <1>3, <1>5, <1>6, <1>7, <1>8, <1>9, <1>10, Zenon DEF ConsentInv

(* Every write goes to the confirmed hardware (write.go, Write; system.go, *)
(* WriteVerified).                                                         *)
LEMMA ReceiptHasConsent ==
  ASSUME ConsentInv, pc = "write", Alive(sysfs, fd)
  PROVE  \E s \in shown : Covers(s, Receipt)
<1>1. pc \in AfterNumber /\ pc \in AfterTargetOK /\ pc \in AfterConfirm /\ pc \in AfterIdentity
      /\ pc \in AfterPolicy /\ pc \in AfterObserved
  BY StepOrder, Zenon DEF AfterNumber
<1>2. PICK s \in shown : s.token = req.token
  BY <1>1, Zenon DEF ConsentInv
<1>3. ConfirmationToken(s.target, s.image) = ConfirmationToken(insp.target, image)
  BY <1>1, <1>2, Zenon DEF ConsentInv
<1>4. /\ s.target.kname = insp.target.kname /\ s.target.serial = insp.target.serial
      /\ s.target.wwn = insp.target.wwn /\ s.target.size = insp.target.size
      /\ s.image.sha = req.sha /\ s.image.uncompressed = req.expected
  BY <1>3, Zenon DEF ConfirmationToken, image
<1>5. fd.name = TargetName /\ insp.target.kname = TargetName /\ Matches(insp.target, fd.inst)
  BY <1>1, Zenon DEF ConsentInv, AtTarget
<1>6. /\ Receipt.token = req.token /\ Receipt.name = fd.name /\ Receipt.inst = fd.inst
      /\ Receipt.sha = req.sha /\ Receipt.expected = req.expected
  BY Zenon DEF Receipt
<1> QED
  BY <1>2, <1>4, <1>5, <1>6 DEF Covers, Matches, MatchesUpTo

(* A step of Verify or Write keeps it (write.go, Verify and Write).        *)
LEMMA ImagesKeep == ASSUME ConsentInv, Images PROVE ConsentInv'
<1>1. /\ UNCHANGED <<pc, sysfs, fd, req, insp, cur, got, shown>>
      /\ touched' = touched \/ (pc = "write" /\ Alive(sysfs, fd) /\ touched' = touched \union {Receipt})
  BY Zenon DEF Images, machineVars, callVars, readVars
<1>2. CASE touched' = touched
  BY <1>1, <1>2, FrameKeeps, Zenon DEF SameCall, Plain
<1>3. CASE pc = "write" /\ Alive(sysfs, fd) /\ touched' = touched \union {Receipt}
  <2>1. ConsentBound'
    BY <1>1, <1>3, ReceiptHasConsent, Zenon DEF ConsentInv, ConsentBound
  <2>2. ConfirmationToken(insp'.target, image') = ConfirmationToken(insp.target, image)
    BY <1>1, SameToken, Zenon
  <2>3. ReadInv'
    BY <1>1, ReadRests, Zenon DEF ConsentInv
  <2>4. AtTarget' = AtTarget
    BY <1>1, Zenon DEF AtTarget
  <2> QED
    BY <1>1, <2>1, <2>2, <2>3, <2>4 DEF ConsentInv
<1> QED
  BY <1>1, <1>2, <1>3, Zenon

(* A call with a token repeats one that was shown; one without a token is  *)
(* refused unless it writes nothing (diskforge.go, validateWriteRequest).  *)
LEMMA StartsKeep == ASSUME ConsentInv, Starts PROVE ConsentInv'
<1>1. UNCHANGED <<sysfs, insp, cur, got, fd, shown, touched>> /\ pc = "idle" /\ pc' \in {"idle", "target"}
  BY Zenon DEF Starts, machineVars, readVars, histVars
<1>2. cur' = NoTarget /\ got' = 0
  BY <1>1, Zenon DEF ConsentInv, ReadInv
<1>3. pc' # "idle" /\ req'.op = "write" => \E s \in shown : s.token = req'.token
  BY Zenon DEF Starts
<1>4. ReadInv' /\ ConsentBound' = ConsentBound /\ pc' \notin AfterObserved
  BY <1>1, <1>2, ReadStarts, StepOrder, Zenon DEF ConsentBound
<1> QED
  BY <1>1, <1>3, <1>4, StepOrder, Zenon DEF ConsentInv

(* Whatever disks do, a descriptor is dead or still the same device under  *)
(* the same name and number.                                               *)
LEMMA ReplugKeeps == ASSUME ConsentInv, NEW sys \in Topologies, Replug(sys) PROVE ConsentInv'
<1>1. /\ sysfs' = sys /\ fd' = [fd EXCEPT !.dead = fd.dead \/ unplugged(sys, fd)]
      /\ UNCHANGED <<pc, req, insp, cur, got, shown, touched>>
  BY Zenon DEF Replug, readVars
<1>2. /\ fd' \in Descriptor /\ fd'.open = fd.open /\ fd'.inst = fd.inst /\ fd'.name = fd.name
      /\ fd'.num = fd.num /\ fd'.dead = (fd.dead \/ unplugged(sys, fd))
  BY <1>1, Zenon DEF ConsentInv, Descriptor
<1>3. fd'.open /\ ~fd'.dead => fd.open /\ ~fd.dead /\ fd.name \in DOMAIN sys /\ sys[fd.name].inst = fd.inst
  BY <1>2, Zenon DEF unplugged
<1>4. fd'.open /\ ~fd'.dead => Alive(sysfs, fd) /\ Alive(sysfs', fd') /\ sysfs[fd.name].num = fd.num
  BY <1>1, <1>2, <1>3, Zenon DEF ConsentInv, Alive
<1>5. fd'.open /\ ~fd'.dead => sysfs'[fd'.name].num = fd'.num
  BY <1>1, <1>2, <1>3, <1>4 DEF Alive, Replug
<1>6. Alive(sysfs', fd') => Alive(sysfs, fd)
  BY <1>4, Zenon DEF Alive
<1>7. ConfirmationToken(insp'.target, image') = ConfirmationToken(insp.target, image)
  BY <1>1, SameToken, Zenon
<1>8. AtTarget' => AtTarget
  BY <1>2, <1>6, Zenon DEF AtTarget
<1>9. ReadInv'
  BY <1>1, <1>2, <1>8, Zenon DEF ConsentInv, ReadInv, MatchesUpTo
<1>10. ConsentBound' = ConsentBound /\ sysfs' \in Topologies
  BY <1>1, Zenon DEF ConsentBound
<1> QED
  BY <1>1, <1>2, <1>4, <1>5, <1>6, <1>7, <1>8, <1>9, <1>10, ZenonT(30) DEF ConsentInv

(* Apart from Replug, nothing the rest of the machine does reaches the     *)
(* state of a call.                                                        *)
LEMMA OutsideKeeps == ASSUME ConsentInv, Outside \/ Rests PROVE ConsentInv'
<1>1. (\E sys \in Topologies : Replug(sys)) \/ (SameCall /\ pc' = pc)
  BY Zenon DEF Outside, Rests, ChangeMounts, ChangeSwaps, ChangeNode, KernelRemount, ImageMoves, SameCall, nonImageVars, vars,
     machineVars, callVars, readVars, histVars
<1> QED
  BY <1>1, ReplugKeeps, FrameKeeps, Zenon DEF Plain

(* Every step keeps it (execute.go, Execute).                              *)
LEMMA ConsentKept == ASSUME ConsentInv, Step PROVE ConsentInv'
BY EndsKeep, PlainMovesKeep, ReadsKeep, HasReadKeeps, FillsKeep, GatesKeep, HasNumberKeeps, OpensKeep,
   ImagesKeep, StartsKeep, OutsideKeeps, Zenon DEF Step, Runs, CallEnds, Dies

----------------------------------------------------------------------------
\* The inductive invariant: which descriptors are held at which step, what
\* each gate that was passed has established, and how far the copy is.
GateInv ==
  /\ sysfs \in Topologies /\ fd \in Descriptor
  /\ pc \in Early => src = NoInode /\ phase = "closed"
  /\ fd.open => pc \in Opened
  /\ pc = "verify" /\ phase \in {"hash", "format", "held"} => src # NoInode
  /\ pc \in Held => src # NoInode
  /\ pc \in AfterIdentity => sameIdentity
  /\ pc \in AfterConfirm /\ req.mode = "live" => req.reboot
  /\ pc \in {"poll", "open"} \union Opened /\ req.mode = "live" => remounting
  /\ phase \in Copied => Len(dest) = req.expected
  /\ phase = "written" => durable = dest
  /\ pc \in Finished => phase = "written"
  /\ pc \in {"sysrqSync", "sysrqReboot"} => req.mode = "live"
  /\ rebooted => pc = "idle" /\ RebootAfterDurable
  /\ pc \in Opened /\ req.mode = "rescue" /\ fd.open => fd.excl
  /\ fd.excl /\ Alive(sysfs, fd) => ~Busy(sysfs, mounts, swaps, fd.name)

----------------------------------------------------------------------------
(* No descriptor is open at first or after a call (execute.go, Execute).   *)
LEMMA NothingOpen == NoFd \in Descriptor /\ ~NoFd.open
BY Zenon DEF NoFd, Descriptor

(* Nothing is held at first (execute.go, Execute).                         *)
LEMMA GatesInitially == StateInit /\ src = NoInode /\ phase = "closed" => GateInv
<1> SUFFICES ASSUME StateInit, src = NoInode, phase = "closed" PROVE GateInv
  OBVIOUS
<1>1. /\ sysfs \in Topologies /\ fd = NoFd /\ pc = "idle" /\ src = NoInode /\ phase = "closed" /\ ~rebooted
  BY Zenon DEF StateInit
<1>2. "idle" \notin Held \union Opened \union AfterIdentity \union AfterConfirm \union Finished \union {"poll", "open"}
  BY Zenon DEF Held, Opened, AfterIdentity, AfterConfirm, AfterTargetOK, AfterNumber, Finished
<1> QED
  BY <1>1, <1>2, NothingOpen, Zenon DEF GateInv, Copied, Alive

(* A call that ends closes what it holds (execute.go, the deferred Close   *)
(* calls).                                                                 *)
LEMMA EndReleases ==
  ASSUME GateInv, pc' = "idle", sysfs' = sysfs,
         \/ fd' = NoFd /\ src' = NoInode /\ phase' = "closed"
         \/ pc \in Early /\ UNCHANGED <<fd, src, phase>>,
         UNCHANGED <<dest, durable, req>>,
         rebooted' => rebooted \/ (req.mode = "live" /\ req.reboot /\ Len(dest) = req.expected /\ durable = dest)
  PROVE  GateInv'
<1>1. pc \in Early => pc \notin Opened
  BY Zenon DEF Early, Opened
<1>2. ~fd'.open /\ src' = NoInode /\ phase' = "closed" /\ fd' \in Descriptor
  BY <1>1, NothingOpen, Zenon DEF GateInv
<1>3. "idle" \notin Held \union Opened \union AfterIdentity \union AfterConfirm \union Finished \union {"poll", "open"}
  BY Zenon DEF Held, Opened, AfterIdentity, AfterConfirm, AfterTargetOK, AfterNumber, Finished
<1>4. rebooted' => RebootAfterDurable'
  BY Zenon DEF GateInv, RebootAfterDurable
<1> QED
  BY <1>2, <1>3, <1>4, Zenon DEF GateInv, Copied, Alive

(* However a call ends (execute.go, Prepare, Execute and rebootLive).      *)
LEMMA EndsRelease == ASSUME GateInv, NEW code, Ends(code) PROVE GateInv'
<1>1. /\ pc' = "idle" /\ sysfs' = sysfs /\ UNCHANGED <<dest, durable, req>>
      /\ \/ fd' = NoFd /\ src' = NoInode /\ phase' = "closed"
         \/ pc \in Early /\ UNCHANGED <<fd, src, phase>>
      /\ rebooted' => rebooted \/ pc = "sysrqReboot"
  BY DEF Ends, Return, machineVars
<1>2. pc = "sysrqReboot" => req.mode = "live" /\ req.reboot /\ Len(dest) = req.expected /\ durable = dest
  BY Zenon DEF GateInv, Finished, Copied, AfterConfirm, AfterTargetOK, AfterNumber
<1> QED
  BY <1>1, <1>2, EndReleases, Zenon

(* A step that leaves the image, the request and the descriptor alone      *)
(* keeps it when each gate it passes holds (execute.go, Execute).          *)
LEMMA FrameReleases ==
  ASSUME GateInv, pc # "idle", pc' # "idle",
         UNCHANGED <<sysfs, mounts, src, ver, phase, dest, durable, req, fd, rebooted>>,
         insp' = insp \/ pc' \notin AfterIdentity,
         swaps' = swaps \/ ~fd.open,
         remounting => remounting',
         pc' \in Early => pc \in Early, pc' \in Held => pc \in Held \/ (phase = "held" /\ pc = "verify"),
         pc' = "verify" => pc \in Early \union {"verify"},
         pc' \in Opened <=> pc \in Opened,
         pc' \in AfterIdentity => pc \in AfterIdentity \/ sameIdentity,
         pc' \in AfterConfirm => pc \in AfterConfirm \/ req.mode # "live" \/ req.reboot,
         pc' \in {"poll", "open"} => pc = "poll" \/ req.mode # "live" \/ remounting',
         pc' \in Finished => pc \in Finished \/ phase = "written",
         pc' \in {"sysrqSync", "sysrqReboot"} => req.mode = "live"
  PROVE  GateInv'
<1>1. ~rebooted /\ (pc' = "verify" /\ pc \in Early => phase = "closed")
  BY Zenon DEF GateInv
<1>2. fd.excl /\ Alive(sysfs, fd) => ~Busy(sysfs', mounts', swaps', fd.name)
  BY Zenon DEF GateInv, Alive
<1>3. pc' \in AfterIdentity => sameIdentity'
  BY Zenon DEF GateInv, sameIdentity
<1>4. RebootAfterDurable'
  BY <1>1, Zenon DEF RebootAfterDurable
<1> QED
  BY <1>1, <1>2, <1>3, <1>4 DEF GateInv

(* The moves of a call (execute.go, Execute).                              *)
LEMMA MovesRelease ==
  ASSUME GateInv, NEW a, NEW b, Moves(a, b), a # "idle", b # "idle",
         b \in Early => a \in Early, b \in Held => a \in Held \/ (phase = "held" /\ a = "verify"),
         b # "verify",
         b \in Opened <=> a \in Opened, a = "swapoff" => a \notin Opened,
         b \in AfterIdentity => a \in AfterIdentity \/ sameIdentity,
         b \in AfterConfirm => a \in AfterConfirm \/ req.mode # "live" \/ req.reboot,
         b \in {"poll", "open"} => a = "poll" \/ req.mode # "live" \/ remounting',
         b \in Finished => a \in Finished \/ phase = "written",
         b \in {"sysrqSync", "sysrqReboot"} => req.mode = "live"
  PROVE  GateInv'
<1>1. /\ pc = a /\ pc' = b /\ (remounting => remounting') /\ (swaps' = swaps \/ a = "swapoff")
      /\ UNCHANGED <<sysfs, mounts, src, ver, phase, dest, durable, req, insp, fd, rebooted>>
  BY Zenon DEF Moves, imageVars
<1>2. swaps' = swaps \/ ~fd.open
  BY <1>1, Zenon DEF GateInv
<1> QED
  BY <1>1, <1>2, FrameReleases

(* The observations, the preparations of live mode and the completion      *)
(* (system.go, Inspect; execute.go, prepareLive and Execute).              *)
LEMMA PlainMovesRelease == ASSUME GateInv, Observes \/ Prepares \/ Finishes PROVE GateInv'
<1>1. CASE Observes
  <2>1. \A b \in {"swaps", "source", "stat", "policy"} :
          b \notin Held \union Opened \union AfterIdentity \union AfterConfirm \union Finished
    BY Zenon DEF Held, Opened, AfterIdentity, AfterConfirm, AfterTargetOK, AfterNumber, Finished
  <2>2. \A a \in {"mounts", "swaps", "source", "live"} : a \in Early /\ a \notin Opened
    BY Zenon DEF Early, Opened
  <2> QED
    BY <1>1, <2>1, <2>2, MovesRelease, Zenon DEF Observes
<1>2. CASE Prepares
  <2> DEFINE P == {"mlockall", "readSwaps", "swapoff", "enableSysRq", "remount", "poll", "open"}
  <2>1. \A a \in P : /\ a \in Held /\ a \notin Opened /\ a \in AfterIdentity /\ a \in AfterConfirm
                     /\ a \notin Finished /\ a \notin Early
    BY Zenon DEF Early, Held, Opened, AfterIdentity, AfterConfirm, AfterTargetOK, AfterNumber, Finished
  <2>2. ASSUME NEW a \in P, NEW b \in P, Moves(a, b), b \in {"poll", "open"} => a = "poll" \/ remounting'
        PROVE  GateInv'
    <3>1. /\ a # "idle" /\ b # "idle" /\ b # "verify" /\ b \notin {"sysrqSync", "sysrqReboot"}
          /\ a \in Held /\ a \in AfterIdentity /\ a \in AfterConfirm /\ a \notin Opened
          /\ b \notin Early /\ b \notin Opened /\ b \notin Finished
      BY <2>1, <2>2, Zenon
    <3> HIDE DEF P
    <3> QED
      BY <2>2, <3>1, MovesRelease, Zenon
  <2> QED
    BY <1>2, <2>2, Zenon DEF Prepares
<1>3. CASE Finishes
  <2> DEFINE P == {"write", "fdatasync", "flush", "sysrqSync", "sysrqReboot"}
  <2>1. \A a \in P : /\ a \in Held /\ a \in Opened /\ a \in AfterIdentity /\ a \in AfterConfirm
                     /\ a \notin Early /\ (a # "write" => a \in Finished)
    BY Zenon DEF Early, Held, Opened, AfterIdentity, AfterConfirm, AfterTargetOK, AfterNumber, Finished
  <2>2. ASSUME NEW a \in P, NEW b \in P, Moves(a, b), a = "write" => phase = "written",
               b \in {"sysrqSync", "sysrqReboot"} => req.mode = "live"
        PROVE  GateInv'
    <3>1. /\ a # "idle" /\ b # "idle" /\ b # "verify" /\ b \notin {"poll", "open"} /\ a # "swapoff"
          /\ a \in Held /\ a \in AfterIdentity /\ a \in AfterConfirm /\ a \in Opened
          /\ b \notin Early /\ b \in Opened /\ (a \in Finished \/ phase = "written")
      BY <2>1, <2>2, Zenon
    <3> HIDE DEF P
    <3> QED
      BY <2>2, <3>1, MovesRelease, Zenon
  <2>3. Moves("sysrqSync", "sysrqReboot") => req.mode = "live"
    BY Zenon DEF Moves, GateInv
  <2> QED
    BY <1>3, <2>2, <2>3, Zenon DEF Finishes
<1> QED
  BY <1>1, <1>2, <1>3, Zenon

(* The gates between them (execute.go, Prepare and Execute; system.go,     *)
(* validateOpenedTarget).                                                  *)
LEMMA GateMovesRelease == ASSUME GateInv, Gates \/ HasNumber PROVE GateInv'
<1> DEFINE P == {"identity", "confirm", "mlockall", "open"}
<1>1. /\ \A b \in P : b \in Held /\ b \notin Opened /\ b \notin Finished /\ b \notin Early
      /\ "verify" \notin Opened
      /\ \A b \in P : b \in AfterIdentity => b # "identity"
      /\ \A b \in P : b \in AfterConfirm => b \in {"mlockall", "open"}
      /\ "confirm" \in AfterIdentity
  BY Zenon DEF Early, Held, Opened, AfterIdentity, AfterConfirm, AfterTargetOK, AfterNumber, Finished
<1>2. CASE Moves("verify", "identity") /\ phase = "held"
  BY <1>1, <1>2, MovesRelease, Zenon
<1>3. CASE Moves("identity", "confirm") /\ sameIdentity
  BY <1>1, <1>3, MovesRelease, Zenon
<1>4. CASE Moves("confirm", "mlockall") /\ req.reboot
  BY <1>1, <1>4, MovesRelease, Zenon
<1>5. CASE Moves("confirm", "open") /\ req.mode = "rescue"
  BY <1>1, <1>5, MovesRelease, Zenon
<1>6. CASE HasNumber
  <2>1. /\ "devnum" \in Held /\ "devnum" \in Opened /\ "devnum" \in AfterIdentity /\ "devnum" \in AfterConfirm
        /\ "write" \in Opened /\ "write" \notin Early /\ "write" \notin Finished
    BY Zenon DEF Early, Held, Opened, AfterIdentity, AfterConfirm, AfterTargetOK, AfterNumber, Finished
  <2>2. Moves("devnum", "write")
    BY <1>6, Zenon DEF HasNumber
  <2> HIDE <1>6
  <2> QED
    BY <2>1, <2>2, MovesRelease, Zenon
<1> QED
  BY <1>2, <1>3, <1>4, <1>5, <1>6, Zenon DEF Gates

(* Reading the target and filling in the inspection hold nothing new       *)
(* (observer.go, Target; system.go, Inspect).                              *)
LEMMA ReadingReleases == ASSUME GateInv, Reads \/ HasRead \/ Fills PROVE GateInv'
<1>1. /\ UNCHANGED <<sysfs, mounts, swaps, src, ver, phase, dest, durable, req, fd, rebooted, remounting>>
      /\ \/ pc \in {"target", "validate"} /\ pc' = pc /\ insp' = insp
         \/ pc = "target" /\ pc' = "mounts"
         \/ pc = "validate" /\ pc' = "devnum" /\ insp' = insp
         \/ pc = "stat" /\ pc' \in {"live", "policy"}
         \/ pc = "policy" /\ pc' = "verify"
  BY Zenon DEF Reads, HasRead, Fills, machineVars, imageVars, liveVars
<1>2. /\ \A b \in {"target", "mounts", "live", "policy", "verify"} :
           b \notin Held \union Opened \union AfterIdentity \union AfterConfirm \union Finished
      /\ {"target", "mounts", "stat", "live", "policy"} \subseteq Early /\ "verify" \notin Early
      /\ "stat" \notin Opened
      /\ \A b \in {"validate", "devnum"} : /\ b \in Held /\ b \in Opened /\ b \in AfterIdentity /\ b \in AfterConfirm
                                           /\ b \notin Finished /\ b \notin Early
  BY Zenon DEF Early, Held, Opened, AfterIdentity, AfterConfirm, AfterTargetOK, AfterNumber, Finished
<1>3. CASE pc = "target" /\ pc' = pc /\ insp' = insp
  BY <1>1, <1>2, <1>3, FrameReleases, Zenon
<1>4. CASE pc = "validate" /\ pc' \in {"validate", "devnum"} /\ insp' = insp
  <2>1. /\ pc \in Held /\ pc \in Opened /\ pc \in AfterIdentity /\ pc \in AfterConfirm
        /\ pc' \in Opened /\ pc' \notin Finished /\ pc' \notin Early
        /\ pc # "idle" /\ pc' \notin {"idle", "verify", "poll", "open", "sysrqSync", "sysrqReboot"}
    BY <1>2, <1>4, Zenon
  <2> QED
    BY <1>1, <1>4, <2>1, FrameReleases, Zenon
<1>5. CASE \/ pc = "target" /\ pc' = "mounts"
           \/ pc = "stat" /\ pc' \in {"live", "policy"}
           \/ pc = "policy" /\ pc' = "verify"
  BY <1>1, <1>2, <1>5, FrameReleases, Zenon
<1> QED
  BY <1>1, <1>3, <1>4, <1>5, Zenon

(* The target is opened last, exclusively in rescue mode (system.go,       *)
(* OpenTarget).                                                            *)
LEMMA OpeningIsLast == ASSUME GateInv, Opens PROVE GateInv'
<1>1. PICK d \in nameByDeviceNumber(sysfs, node.num) :
        /\ req.mode = "rescue" => ~Busy(sysfs, mounts, swaps, d)
        /\ fd' = [open |-> TRUE, inst |-> sysfs[d].inst, name |-> d, num |-> node.num,
                  excl |-> req.mode = "rescue", dead |-> FALSE]
  BY Zenon DEF Opens
<1>2. /\ pc = "open" /\ pc' = "validate"
      /\ UNCHANGED <<sysfs, mounts, swaps, src, ver, phase, dest, durable, req, insp, rebooted, remounting>>
  BY Zenon DEF Opens, machineVars, imageVars, liveVars
<1>3. d \in DOMAIN sysfs /\ sysfs[d].num = node.num /\ sysfs[d] \in Entry /\ d \in Device
  BY <1>1, TopologyAssumption, Zenon DEF nameByDeviceNumber, IsSysfs, GateInv
<1>4. fd' \in Descriptor
  BY <1>1, <1>3, Zenon DEF Descriptor, Entry
<1>5. fd'.excl = (req.mode = "rescue") /\ fd'.name = d
  BY <1>1, Zenon
<1>6. req.mode = "rescue" => fd'.excl /\ ~Busy(sysfs, mounts, swaps, fd'.name)
  BY <1>1, <1>5, Zenon
<1>7. req.mode # "rescue" => ~fd'.excl
  BY <1>5, Zenon
<1>8. /\ "open" \in Held /\ "open" \in AfterIdentity /\ "open" \in AfterConfirm
      /\ "validate" \in Opened /\ "validate" \notin Finished /\ "validate" \notin Early
  BY Zenon DEF Early, Held, Opened, AfterIdentity, AfterConfirm, AfterTargetOK, AfterNumber, Finished
<1>9. sameIdentity' = sameIdentity /\ ~rebooted
  BY <1>2, Zenon DEF sameIdentity, GateInv
<1>10. fd'.excl /\ Alive(sysfs', fd') => ~Busy(sysfs', mounts', swaps', fd'.name)
  BY <1>2, <1>6, <1>7, Zenon
<1> HIDE <1>1
<1> QED
  BY <1>2, <1>4, <1>6, <1>8, <1>9, <1>10, Zenon DEF GateInv

(* Verify and Write keep it (execute.go, Prepare and Execute).             *)
LEMMA ImagesRelease == ASSUME GateInv, Images PROVE GateInv'
<1>1. UNCHANGED <<sysfs, mounts, swaps, pc, req, insp, fd, rebooted, remounting>>
  BY Zenon DEF Images, machineVars, callVars, liveVars
<1>2. ~rebooted /\ pc \in {"verify", "write"}
  BY Zenon DEF GateInv, Images
<1>3. CASE pc = "verify" /\ Verifies
  <2>1. "verify" \notin Early \union Opened \union Held \union AfterIdentity \union AfterConfirm \union Finished
    BY Zenon DEF Early, Opened, Held, AfterIdentity, AfterConfirm, AfterTargetOK, AfterNumber, Finished
  <2>2. phase \in {"hash", "format"} => src # NoInode
    BY <1>3, Zenon DEF GateInv
  <2>3. /\ phase' \notin Copied /\ phase' # "written"
        /\ phase' \in {"hash", "format", "held"} => src' # NoInode
    BY <1>3, <2>2, Zenon DEF Verifies, Copied, ImageErrors
  <2> QED
    BY <1>1, <1>2, <1>3, <2>1, <2>3, Zenon DEF GateInv
<1>4. CASE pc = "write" /\ Copies
  <2>1. "write" \notin Early \union Finished
    BY Zenon DEF Early, Finished
  <2>2. /\ UNCHANGED <<src, ver>> /\ (phase' \in Copied => Len(dest') = req.expected)
        /\ phase' = "written" => durable' = dest'
    BY <1>4, Zenon DEF GateInv, Copies
  <2>3. sameIdentity' = sameIdentity
    BY <1>1, <2>2, Zenon DEF sameIdentity
  <2> QED
    BY <1>1, <1>2, <1>4, <2>1, <2>2, <2>3, Zenon DEF GateInv
<1> QED
  BY <1>3, <1>4, Zenon DEF Images

(* A call starts with nothing held (diskforge.go, Inspect and Write).      *)
LEMMA StartsHoldNothing == ASSUME GateInv, Starts PROVE GateInv'
<1>1. /\ pc = "idle" /\ pc' \in {"idle", "target"} /\ ~rebooted
      /\ UNCHANGED <<sysfs, mounts, swaps, src, phase, fd, rebooted>>
  BY Zenon DEF Starts, machineVars, liveVars
<1>2. \A b \in {"idle", "target"} : b \in Early /\
        b \notin Opened \union Held \union AfterIdentity \union AfterConfirm \union Finished \union {"poll", "open"}
  BY Zenon DEF Early, Opened, Held, AfterIdentity, AfterConfirm, AfterTargetOK, AfterNumber, Finished
<1> QED
  BY <1>1, <1>2, Zenon DEF GateInv, Copied

(* The kernel lets nobody claim what is open exclusively (system.go,       *)
(* OpenTarget).                                                            *)
LEMMA ReplugReleases == ASSUME GateInv, NEW sys \in Topologies, Replug(sys) PROVE GateInv'
<1>1. /\ sysfs' = sys /\ fd' = [fd EXCEPT !.dead = fd.dead \/ unplugged(sys, fd)]
      /\ UNCHANGED <<mounts, swaps, src, ver, phase, dest, durable, pc, req, insp, remounting, rebooted>>
      /\ KernelAllows(sys, mounts, swaps)
  BY Zenon DEF Replug, imageVars, liveVars
<1>2. /\ fd'.open = fd.open /\ fd'.excl = fd.excl /\ fd'.name = fd.name /\ fd'.inst = fd.inst
      /\ fd'.dead = (fd.dead \/ unplugged(sys, fd)) /\ fd' \in Descriptor
  BY <1>1, Zenon DEF GateInv, Descriptor
<1>3. Alive(sysfs', fd') => Alive(sys, fd)
  BY <1>1, <1>2, Zenon DEF Alive
<1>4. fd'.excl /\ Alive(sysfs', fd') => ~Busy(sysfs', mounts', swaps', fd'.name)
  BY <1>1, <1>2, <1>3, Zenon DEF KernelAllows
<1>5. sameIdentity' = sameIdentity /\ RebootAfterDurable' = RebootAfterDurable
  BY <1>1, Zenon DEF sameIdentity, RebootAfterDurable
<1> QED
  BY <1>1, <1>2, <1>4, <1>5 DEF GateInv

(* A remount changes no claim.                                             *)
LEMMA RemountKeepsClaims ==
  ASSUME KernelRemount PROVE Busy(sysfs', mounts', swaps', fd.name) = Busy(sysfs, mounts, swaps, fd.name)
<1>1. PICK i \in DOMAIN mounts : mounts' = [mounts EXCEPT ![i].superRO = TRUE]
  BY Zenon DEF KernelRemount
<1>2. DOMAIN mounts' = DOMAIN mounts /\ \A j \in DOMAIN mounts : mounts'[j].on = mounts[j].on
  BY <1>1
<1>3. sysfs' = sysfs /\ swaps' = swaps
  BY Zenon DEF KernelRemount
<1>4. \A d : Claimed(sysfs', mounts', swaps', d) = Claimed(sysfs, mounts, swaps, d)
  BY <1>2, <1>3, Zenon DEF Claimed
<1> QED
  BY <1>3, <1>4, Zenon DEF Busy

(* Nothing else of the machine matters.                                    *)
LEMMA MachineKeepsGates ==
  ASSUME GateInv, Outside \/ Rests PROVE GateInv'
<1> DEFINE same == UNCHANGED <<sysfs, pc, src, ver, phase, dest, durable, req, insp, remounting, rebooted, fd>>
<1>1. ASSUME same, fd.excl /\ Alive(sysfs, fd) => ~Busy(sysfs', mounts', swaps', fd.name) PROVE GateInv'
  <2>1. sameIdentity' = sameIdentity /\ RebootAfterDurable' = RebootAfterDurable
    BY <1>1, Zenon DEF sameIdentity, RebootAfterDurable
  <2> QED
    BY <1>1, <2>1 DEF GateInv
<1>2. ASSUME NEW mts \in MountTables, ChangeMounts(mts) PROVE GateInv'
  <2>1. same /\ (fd.excl /\ Alive(sysfs, fd) => ~Busy(sysfs', mounts', swaps', fd.name))
    BY <1>2, Zenon DEF ChangeMounts, KernelAllows, imageVars, callVars, liveVars
  <2> QED
    BY <1>1, <2>1, Zenon
<1>3. ASSUME NEW sws \in SwapTables, ChangeSwaps(sws) PROVE GateInv'
  <2>1. same /\ (fd.excl /\ Alive(sysfs, fd) => ~Busy(sysfs', mounts', swaps', fd.name))
    BY <1>3, Zenon DEF ChangeSwaps, KernelAllows, imageVars, callVars, liveVars
  <2> QED
    BY <1>1, <2>1, Zenon
<1>4. ASSUME same, UNCHANGED <<mounts, swaps>> PROVE GateInv'
  <2>1. fd.excl /\ Alive(sysfs, fd) => ~Busy(sysfs', mounts', swaps', fd.name)
    BY <1>4, Zenon DEF GateInv
  <2> QED
    BY <1>1, <1>4, <2>1, Zenon
<1>5. CASE ImageMoves
  <2>1. same /\ UNCHANGED <<mounts, swaps>>
    BY <1>5, Zenon DEF ImageMoves, nonImageVars, machineVars, callVars, liveVars
  <2> QED
    BY <1>4, <2>1, Zenon
<1>6. CASE UNCHANGED vars \/ Rests \/ \E n \in Nodes : ChangeNode(n)
  <2>1. same /\ UNCHANGED <<mounts, swaps>>
    BY <1>6, Zenon DEF ChangeNode, Rests, vars, machineVars, imageVars, callVars, liveVars
  <2> QED
    BY <1>4, <2>1, Zenon
<1>7. CASE KernelRemount
  <2>1. same
    BY <1>7, Zenon DEF KernelRemount, imageVars, callVars, liveVars
  <2>2. fd.excl /\ Alive(sysfs, fd) => ~Busy(sysfs', mounts', swaps', fd.name)
    BY <1>7, RemountKeepsClaims, Zenon DEF GateInv
  <2> QED
    BY <1>1, <2>1, <2>2, Zenon
<1> HIDE DEF same
<1> QED
  BY <1>2, <1>3, <1>5, <1>6, <1>7, ReplugReleases, Zenon DEF Outside

(* Every step keeps it (execute.go, Execute).                              *)
LEMMA GatesKept == ASSUME GateInv, Step PROVE GateInv'
BY EndsRelease, PlainMovesRelease, GateMovesRelease, ReadingReleases, OpeningIsLast, ImagesRelease,
   StartsHoldNothing, MachineKeepsGates, Zenon DEF Step, Runs, CallEnds, Dies

----------------------------------------------------------------------------
(* What it implies.                                                        *)

(* Behind an open target all gates have been passed (execute.go, Prepare   *)
(* and Execute).                                                           *)
LEMMA OpenBehindGates ==
  ASSUME GateInv, fd.open
  PROVE  /\ pc \in AfterIdentity /\ pc \in AfterConfirm /\ src # NoInode /\ sameIdentity
         /\ req.mode = "live" => req.reboot /\ remounting
<1>1. pc \in Opened /\ pc \in Held /\ pc \in AfterIdentity /\ pc \in AfterConfirm
  BY Zenon DEF GateInv, Opened, Held, AfterIdentity, AfterConfirm, AfterTargetOK, AfterNumber
<1> QED
  BY <1>1, Zenon DEF GateInv

(* Between calls both descriptors are closed, a reboot follows a durable   *)
(* image, and a target opened by a rescue write is in no other use         *)
(* (execute.go, Execute and rebootLive; system.go, OpenTarget).            *)
LEMMA GateResults == ASSUME GateInv PROVE DescriptorsReleased /\ RebootAfterDurable /\ RescueExclusive
<1>1. DescriptorsReleased
  BY Zenon DEF GateInv, DescriptorsReleased, Early, Opened
<1>2. RebootAfterDurable
  BY Zenon DEF GateInv, RebootAfterDurable
<1>3. RescueExclusive
  BY Zenon DEF GateInv, RescueExclusive, Alive
<1> QED
  BY <1>1, <1>2, <1>3, Zenon

----------------------------------------------------------------------------
(* How calls end.                                                          *)

(* While a call runs it has no result, and it ends or goes on (execute.go, *)
(* Execute).                                                               *)
LEMMA RunsFrame == ASSUME Runs PROVE pc # "idle" /\ (CallEnds \/ result' = result)
<1>1. ASSUME NEW a, NEW b, Moves(a, b), a # "idle" PROVE pc # "idle" /\ result' = result
  BY <1>1, Zenon DEF Moves
<1>2. CASE Reads \/ HasRead \/ Fills \/ Opens \/ Images
  BY <1>2, Zenon DEF Reads, HasRead, Fills, Opens, Images
<1>3. CASE Observes \/ Gates \/ HasNumber \/ Finishes
  BY <1>1, <1>3, Zenon DEF Observes, Gates, HasNumber, Finishes
<1>4. CASE Prepares
  BY <1>1, <1>4, Zenon DEF Prepares
<1>5. CASE CallEnds
  BY <1>5, Zenon DEF CallEnds, Outcome
<1> QED
  BY <1>2, <1>3, <1>4, <1>5, Zenon DEF Runs

(* What has been shown stays shown (diskforge.go, Inspect, Write).         *)
LEMMA RunsShowMore == ASSUME Runs PROVE shown \subseteq shown'
<1>1. ASSUME NEW a, NEW b, Moves(a, b) PROVE shown' = shown
  BY <1>1, Zenon DEF Moves
<1>2. CASE Reads \/ HasRead \/ Fills \/ Opens \/ Images
  BY <1>2, Zenon DEF Reads, HasRead, Fills, Opens, Images, histVars
<1>3. CASE Observes \/ Gates \/ HasNumber \/ Finishes
  BY <1>1, <1>3, Zenon DEF Observes, Gates, HasNumber, Finishes
<1>4. CASE Prepares
  BY <1>1, <1>4, Zenon DEF Prepares
<1>5. CASE CallEnds
  BY <1>5, Zenon DEF CallEnds, Ends, Show
<1> QED
  BY <1>2, <1>3, <1>4, <1>5, Zenon DEF Runs

\* Nothing is written before the copy, and the copy does not fail with a
\* digest error.
HarmlessInv ==
  /\ pc \notin AfterNumber \union {"idle"} => dest = <<>>
  /\ pc \notin Early \union {"verify"} => phase # "digest"

\* The ends of a call that may come after something was written.
Late == {"size", "canceled", "failed", "fdatasync", "flush", "sysrq", "ok"}

(* It holds at first and after every step (execute.go, Execute).           *)
LEMMA HarmlessInitially == StateInit => HarmlessInv
BY Zenon DEF StateInit, HarmlessInv, Early
LEMMA HarmlessKept == ASSUME HarmlessInv, Step PROVE HarmlessInv'
<1> USE DEF AfterNumber, Early
<1>1. ASSUME pc' = "idle" PROVE HarmlessInv'
  BY <1>1, Zenon DEF HarmlessInv
<1>2. ASSUME UNCHANGED <<dest, phase>>,
             \/ pc \notin AfterNumber \union {"idle"} /\ pc' \in Early \union {"verify"}
             \/ pc \notin AfterNumber \union {"idle"} /\ (pc \notin Early \union {"verify"} \/ phase = "held")
             \/ pc \in AfterNumber /\ pc' \in AfterNumber
      PROVE  HarmlessInv'
  BY <1>2, Zenon DEF HarmlessInv
<1>3. ASSUME NEW a, NEW b, Moves(a, b) PROVE UNCHANGED <<dest, phase>> /\ pc = a /\ pc' = b
  BY <1>3, Zenon DEF Moves, imageVars
<1>4. CASE CallEnds \/ Dies
  BY <1>1, <1>4, Zenon DEF CallEnds, Dies, Ends, Return
<1>5. CASE Starts
  BY <1>5, Zenon DEF Starts, HarmlessInv
<1>6. CASE Reads \/ HasRead \/ Fills \/ Opens
  <2>1. /\ UNCHANGED <<dest, phase>>
        /\ \/ pc \in {"target", "mounts", "stat", "policy"} /\ pc' \in {"target", "mounts", "live", "policy", "verify"}
           \/ pc \in {"open", "validate"} /\ pc' \in {"validate", "devnum"}
    BY <1>6, Zenon DEF Reads, HasRead, Fills, Opens, imageVars
  <2> QED
    BY <1>2, <2>1, Zenon
<1>7. CASE Observes
  <2>1. UNCHANGED <<dest, phase>> /\ pc \in {"mounts", "swaps", "source", "live"} /\ pc' \in {"swaps", "source", "stat", "policy"}
    BY <1>3, <1>7, Zenon DEF Observes
  <2> QED
    BY <1>2, <2>1, Zenon
<1>8. CASE Gates
  <2>1. UNCHANGED <<dest, phase>> /\ ((pc = "verify" /\ phase = "held") \/ pc = "identity" \/ pc = "confirm")
    BY <1>3, <1>8, Zenon DEF Gates
  <2> QED
    BY <1>2, <2>1, Zenon
<1>9. CASE Prepares
  <2>1. UNCHANGED <<dest, phase>> /\ pc \in {"mlockall", "readSwaps", "swapoff", "enableSysRq", "remount", "poll"}
    BY <1>3, <1>9, Zenon DEF Prepares
  <2> QED
    BY <1>2, <2>1, Zenon
<1>10. CASE HasNumber \/ Finishes
  <2>1. UNCHANGED <<dest, phase>> /\ (pc = "devnum" \/ (pc \in AfterNumber /\ pc' \in AfterNumber))
    BY <1>3, <1>10, Zenon DEF HasNumber, Finishes
  <2> QED
    BY <1>2, <2>1, Zenon
<1>11. CASE Images
  BY <1>11, Zenon DEF Images, Verifies, Copies, Copied, HarmlessInv
<1>12. CASE Outside \/ Rests
  <2>1. UNCHANGED <<dest, phase, pc>>
    BY <1>12, Zenon DEF Outside, Rests, Replug, ChangeMounts, ChangeSwaps, ChangeNode, KernelRemount, ImageMoves,
       nonImageVars, vars, imageVars
  <2> QED
    BY <2>1, Zenon DEF HarmlessInv
<1> QED
  BY <1>4, <1>5, <1>6, <1>7, <1>8, <1>9, <1>10, <1>11, <1>12, Zenon DEF Step, Runs

(* A call that ends in any other way has written nothing (execute.go,      *)
(* Prepare and Execute).                                                   *)
LEMMA EarlyEndIsHarmless ==
  ASSUME HarmlessInv, NEW code, Ends(code), Outcome(code), code \notin Late PROVE dest' = <<>>
<1>1. dest' = dest /\ pc # "idle"
  BY Zenon DEF Ends, Outcome
<1>2. pc \notin AfterNumber
  BY Zenon DEF Outcome, Late, AfterNumber, HarmlessInv, Early, ImageErrors
<1> QED
  BY <1>1, <1>2, Zenon DEF HarmlessInv

----------------------------------------------------------------------------
(* Types.                                                                  *)

HostTyped ==
  /\ sysfs \in Topologies /\ node \in Nodes /\ kern \in Kernels /\ pc \in Steps
  /\ polls \in 0 .. PollAttempts /\ remounting \in BOOLEAN /\ rebooted \in BOOLEAN
  /\ calls \in 0 .. MaxCalls /\ stale \subseteq {"mount", "swap"}
ReadTyped ==
  /\ cur \in TargetType /\ got \in 0 .. 5
  /\ DOMAIN insp = {"target", "compressed", "token"}
  /\ insp.target \in TargetType /\ insp.compressed \in Nat
  /\ DOMAIN obs = {"mounted", "swap", "fs", "backing", "root", "memory", "sysrq", "euid"}
  /\ obs.mounted \subseteq Device /\ obs.swap \subseteq Device /\ obs.backing \subseteq Device
AskedTyped(data) ==
  /\ req \in RequestType(data)
  /\ \A s \in shown : s.target \in TargetType /\ s.image \in ImageType(data)

(* The initial states have the types (execute.go, Execute).                *)
LEMMA TypedInitially ==
  ASSUME NEW data, <<>> \in data, StateInit PROVE HostTyped /\ ReadTyped /\ AskedTyped(data)
<1>1. /\ sysfs \in Topologies /\ node \in Nodes /\ kern \in Kernels /\ pc = "idle" /\ polls = 0
      /\ remounting = FALSE /\ rebooted = FALSE /\ calls = 0 /\ stale = {}
  BY Zenon DEF StateInit
<1>2. 0 \in 0 .. PollAttempts /\ 0 \in 0 .. MaxCalls /\ "idle" \in Steps
  BY BoundAssumption DEF Steps
<1>3. HostTyped
  BY <1>1, <1>2, Zenon DEF HostTyped
<1>4. ReadTyped
  BY TextAssumption DEF StateInit, ReadTyped, TargetType, NoTarget, NoInsp, NoObs
<1>5. NoReq \in RequestType(data)
  <2>1. 0 \in Int
    OBVIOUS
  <2> QED
    BY <2>1, Zenon DEF RequestType, NoReq
<1>6. AskedTyped(data)
  BY <1>5, Zenon DEF StateInit, AskedTyped
<1> QED
  BY <1>3, <1>4, <1>6, Zenon

(* Every step keeps the types of the machine and of the live preparations  *)
(* (execute.go, Execute and prepareLive).                                  *)
LEMMA HostTypeKept == ASSUME HostTyped, Step PROVE HostTyped'
<1>0. /\ sysfs \in Topologies /\ node \in Nodes /\ kern \in Kernels /\ pc \in Steps
      /\ polls \in 0 .. PollAttempts /\ remounting \in BOOLEAN /\ rebooted \in BOOLEAN
      /\ calls \in 0 .. MaxCalls /\ stale \subseteq {"mount", "swap"}
  BY Zenon DEF HostTyped
<1>1. ASSUME UNCHANGED <<sysfs, node, kern, calls>>, pc' \in Steps, polls' \in 0 .. PollAttempts,
             remounting' \in BOOLEAN, rebooted' \in BOOLEAN, stale' \subseteq {"mount", "swap"}
      PROVE  HostTyped'
  BY <1>0, <1>1, Zenon DEF HostTyped
<1>2. ASSUME NEW code, Ends(code) PROVE HostTyped'
  <2>1. /\ UNCHANGED <<sysfs, node, kern, calls, stale>> /\ pc' = "idle" /\ polls' = 0
        /\ remounting' = remounting \/ remounting' = TRUE
        /\ rebooted' = rebooted \/ rebooted' = TRUE
    BY <1>2, Zenon DEF Ends, Return, machineVars
  <2>2. "idle" \in Steps /\ 0 \in 0 .. PollAttempts
    BY BoundAssumption DEF Steps
  <2> QED
    BY <1>0, <1>1, <2>1, <2>2, Zenon
<1>3. ASSUME NEW a, NEW b \in Steps, Moves(a, b), polls' \in 0 .. PollAttempts, remounting' \in BOOLEAN,
             stale' \subseteq {"mount", "swap"}
      PROVE  HostTyped'
  <2>1. UNCHANGED <<sysfs, node, kern, calls, rebooted>> /\ pc' = b
    BY <1>3, Zenon DEF Moves
  <2> QED
    BY <1>0, <1>1, <1>3, <2>1, Zenon
<1>4. ASSUME NEW a, NEW b \in Steps, Moves(a, b), Still PROVE HostTyped'
  <2>1. UNCHANGED <<polls, remounting, stale>>
    BY <1>4, Zenon DEF Still, liveVars
  <2> QED
    BY <1>0, <1>3, <1>4, <2>1, Zenon
<1>5. CASE Observes \/ Gates \/ HasNumber \/ Finishes
  <2>1. {"swaps", "source", "stat", "policy", "identity", "confirm", "mlockall", "open", "write", "fdatasync",
         "flush", "sysrqSync", "sysrqReboot"} \subseteq Steps
    BY Zenon DEF Steps
  <2> QED
    BY <1>4, <1>5, <2>1, Zenon DEF Observes, Gates, HasNumber, Finishes
<1>6. CASE Prepares
  <2>1. {"readSwaps", "swapoff", "enableSysRq", "remount", "poll", "open"} \subseteq Steps
    BY Zenon DEF Steps
  <2>2. PollAttempts \in 0 .. PollAttempts /\ 0 \in 0 .. PollAttempts /\ (polls > 0 => polls - 1 \in 0 .. PollAttempts)
    BY <1>0, BoundAssumption
  <2>3. stale \ {"swap"} \subseteq {"mount", "swap"} /\ stale \ {"mount"} \subseteq {"mount", "swap"}
    BY <1>0, Zenon
  <2>4. ASSUME NEW b \in Steps, \E a : Moves(a, b), polls' = polls, remounting' = remounting,
               stale' = stale \/ stale' = stale \ {"swap"}
        PROVE  HostTyped'
    BY <1>0, <1>3, <2>3, <2>4, Zenon
  <2>5. CASE Moves("remount", "poll") /\ polls' = PollAttempts /\ remounting' = TRUE /\ stale' = stale
    BY <1>0, <1>3, <2>1, <2>2, <2>5, Zenon
  <2>6. CASE Moves("poll", "poll") /\ polls > 0 /\ polls' = polls - 1 /\ UNCHANGED <<remounting, stale>>
    BY <1>0, <1>3, <2>1, <2>2, <2>6, Zenon
  <2>7. CASE Moves("poll", "open") /\ stale' = stale \ {"mount"} /\ polls' = 0 /\ remounting' = remounting
    BY <1>0, <1>3, <2>1, <2>2, <2>3, <2>7, Zenon
  <2> QED
    BY <1>4, <1>6, <2>1, <2>4, <2>5, <2>6, <2>7, Zenon DEF Prepares
<1>7. CASE Reads \/ HasRead \/ Fills \/ Opens \/ Images
  <2>1. UNCHANGED <<sysfs, node, kern, calls, polls, remounting, rebooted, stale>>
    BY <1>7, Zenon DEF Reads, HasRead, Fills, Opens, Images, machineVars, liveVars, histVars
  <2>2. pc' = pc \/ pc' \in {"mounts", "devnum", "live", "policy", "verify", "validate"}
    BY <1>7, Zenon DEF Reads, HasRead, Fills, Opens, Images
  <2>3. pc' \in Steps
    BY <1>0, <2>2, Zenon DEF Steps
  <2> QED
    BY <1>0, <1>1, <2>1, <2>3, Zenon
<1>8. CASE Starts
  <2>1. /\ UNCHANGED <<sysfs, node, kern, polls, remounting, rebooted, stale>> /\ pc' \in {"idle", "target"}
        /\ calls < MaxCalls /\ calls' = calls + 1
    BY <1>8, Zenon DEF Starts, machineVars, liveVars, histVars
  <2>2. calls' \in 0 .. MaxCalls /\ pc' \in Steps
    BY <1>0, <2>1, BoundAssumption DEF Steps
  <2> QED
    BY <1>0, <2>1, <2>2, Zenon DEF HostTyped
<1>9. CASE Outside \/ Rests
  <2>1. /\ UNCHANGED <<kern, pc, polls, remounting, rebooted, calls>>
        /\ sysfs' = sysfs \/ sysfs' \in Topologies
        /\ node' = node \/ node' \in Nodes
        /\ stale' \in {stale, stale \union {"mount"}, stale \union {"swap"}}
    <3>1. CASE UNCHANGED <<sysfs, node, kern, pc, polls, remounting, rebooted, calls, stale>>
      BY <3>1, Zenon
    <3>2. CASE ImageMoves \/ UNCHANGED vars \/ Rests \/ KernelRemount
      BY <3>1, <3>2, Zenon DEF ImageMoves, Rests, KernelRemount, vars, nonImageVars, machineVars, liveVars, histVars
    <3>3. CASE \E mts \in MountTables : ChangeMounts(mts)
      BY <3>3, Zenon DEF ChangeMounts, liveVars
    <3>4. CASE \E sws \in SwapTables : ChangeSwaps(sws)
      BY <3>4, Zenon DEF ChangeSwaps, liveVars
    <3>5. CASE \E n \in Nodes : ChangeNode(n)
      BY <3>5, Zenon DEF ChangeNode, liveVars, histVars
    <3>6. CASE \E sys \in Topologies : Replug(sys)
      BY <3>6, Zenon DEF Replug, liveVars
    <3> QED
      BY <1>9, <3>2, <3>3, <3>4, <3>5, <3>6, Zenon DEF Outside
  <2> QED
    BY <1>0, <2>1, Zenon DEF HostTyped
<1> QED
  BY <1>2, <1>5, <1>6, <1>7, <1>8, <1>9, Zenon DEF Step, Runs, CallEnds, Dies

(* What the observer reports are devices (observer.go).                    *)
LEMMA ObservedAreDevices ==
  ASSUME NEW sys, NEW mts, NEW sws, NEW p
  PROVE  /\ MountedDevices(sys, mts) \subseteq Device /\ SwapDevices(sys, mts, sws) \subseteq Device
         /\ Source(sys, mts, p).backing \subseteq Device
<1>1. \A names : expand(sys, names) \subseteq Device /\ \A d : related(sys, d) \subseteq Device
  BY Zenon DEF expand, related, walkRelated
<1>2. \A q : Source(sys, mts, q).backing \subseteq Device
  BY <1>1, Zenon DEF Source
<1>3. MountedDevices(sys, mts) \subseteq Device
  BY <1>1, Zenon DEF MountedDevices
<1>4. SwapDevices(sys, mts, sws) \subseteq Device
  BY <1>1, <1>2, Zenon DEF SwapDevices
<1> QED
  BY <1>2, <1>3, <1>4, Zenon

(* The identity of a registered device has the type (observer.go, Target). *)
LEMMA TargetIsTyped ==
  ASSUME NEW sys \in Topologies, NEW d \in DOMAIN sys PROVE Target(sys, d) \in TargetType /\ d \in Device
<1>1. d \in Device /\ sys[d] \in Entry
  BY TopologyAssumption, Zenon DEF IsSysfs
<1>2. Ident[sys[d].inst] \in [serial : Text, wwn : Text, sectors : Nat]
  BY <1>1, IdentAssumption, Zenon DEF Entry
<1>3. Ident[sys[d].inst].sectors * SectorBytes \in Int
  BY <1>2, SectorAssumption
<1>4. related(sys, d) \subseteq Device /\ IsPartition(sys, d) \in BOOLEAN
  BY Zenon DEF related, walkRelated, IsPartition
<1> QED
  BY <1>1, <1>2, <1>3, <1>4, Zenon DEF Target, TargetType

(* Every step keeps the types of what a call has observed and read         *)
(* (system.go, Inspect; observer.go, Target).                              *)
LEMMA ReadTypeKept ==
  ASSUME ReadTyped, sysfs \in Topologies, path # NoInode => Len(content[path]) \in Nat, Step
  PROVE  ReadTyped'
<1>0. /\ cur \in TargetType /\ got \in 0 .. 5
      /\ DOMAIN insp = {"target", "compressed", "token"}
      /\ insp.target \in TargetType /\ insp.compressed \in Nat
      /\ DOMAIN obs = {"mounted", "swap", "fs", "backing", "root", "memory", "sysrq", "euid"}
      /\ obs.mounted \subseteq Device /\ obs.swap \subseteq Device /\ obs.backing \subseteq Device
  BY Zenon DEF ReadTyped
<1>1. NoTarget \in TargetType /\ 0 \in 0 .. 5
  BY TextAssumption DEF NoTarget, TargetType
<1>2. NoObs.mounted \subseteq Device /\ NoObs.swap \subseteq Device /\ NoObs.backing \subseteq Device
      /\ DOMAIN NoObs = {"mounted", "swap", "fs", "backing", "root", "memory", "sysrq", "euid"}
  BY Zenon DEF NoObs
<1>3. CASE UNCHANGED <<cur, got, insp, obs>>
  BY <1>3, Zenon DEF ReadTyped
<1>4. ASSUME NEW code, Ends(code) PROVE ReadTyped'
  <2>1. obs' = NoObs /\ insp' = NoInsp /\ cur' = NoTarget /\ got' = 0
    BY <1>4, Zenon DEF Ends, Return
  <2>2. DOMAIN NoInsp = {"target", "compressed", "token"} /\ NoInsp.target = NoTarget /\ NoInsp.compressed \in Nat
    BY Zenon DEF NoInsp
  <2> QED
    BY <1>1, <1>2, <2>1, <2>2, Zenon DEF ReadTyped
<1>5. CASE Observes
  <2>1. UNCHANGED <<cur, got, insp>>
    BY <1>5, Zenon DEF Observes, Moves, readVars
  <2>2. /\ DOMAIN obs' = DOMAIN obs /\ obs'.mounted \subseteq Device /\ obs'.swap \subseteq Device
        /\ obs'.backing \subseteq Device
    <3>1. CASE obs' = [obs EXCEPT !.mounted = MountedDevices(sysfs, mounts)]
      BY <1>0, <3>1, ObservedAreDevices, Zenon
    <3>2. CASE obs' = [obs EXCEPT !.swap = SwapDevices(sysfs, mounts, swaps)]
      BY <1>0, <3>2, ObservedAreDevices, Zenon
    <3>3. CASE obs' = [obs EXCEPT !.fs = Source(sysfs, mounts, ImagePath).fs,
                                  !.backing = Source(sysfs, mounts, ImagePath).backing]
      BY <1>0, <3>3, ObservedAreDevices, Zenon
    <3>4. CASE obs' = [obs EXCEPT !.root = RootDisk(sysfs, mounts), !.memory = kern.memory, !.sysrq = kern.sysrq]
      BY <1>0, <3>4, Zenon
    <3> QED
      BY <1>5, <3>1, <3>2, <3>3, <3>4, Zenon DEF Observes
  <2> QED
    BY <1>0, <2>1, <2>2, Zenon DEF ReadTyped
<1>6. CASE Fills
  <2>1. /\ UNCHANGED <<cur, got>>
        /\ \/ path # NoInode /\ insp' = [insp EXCEPT !.compressed = Len(content[path])]
              /\ obs' = [obs EXCEPT !.euid = kern.euid]
           \/ obs' = NoObs /\ insp' = [insp EXCEPT !.token = ConfirmationToken(insp.target, image)]
    BY <1>6, Zenon DEF Fills, readVars
  <2>2. DOMAIN insp' = DOMAIN insp /\ insp'.target \in TargetType /\ insp'.compressed \in Nat
    BY <1>0, <2>1, Zenon
  <2>3. /\ DOMAIN obs' = DOMAIN obs /\ obs'.mounted \subseteq Device /\ obs'.swap \subseteq Device
        /\ obs'.backing \subseteq Device
    BY <1>0, <1>2, <2>1, Zenon
  <2> QED
    BY <1>0, <2>1, <2>2, <2>3, Zenon DEF ReadTyped
<1>7. CASE Reads
  <2> DEFINE f == TargetFields[got + 1]
  <2>1. got < Len(TargetFields) /\ got' = got + 1 /\ UNCHANGED <<insp, obs>>
    BY <1>7, Zenon DEF Reads
  <2>2. got' \in 0 .. 5 /\ f \in {"size", "descendants", "partition", "serial", "wwn"}
    BY <1>0, <2>1 DEF TargetFields
  <2>3. \/ cur' = cur
        \/ TargetName \in DOMAIN sysfs
           /\ cur' = [cur EXCEPT !.kname = TargetName, ![f] = Target(sysfs, TargetName)[f]]
    BY <1>7, Zenon DEF Reads, FieldOK, blockPathOK
  <2> HIDE DEF f
  <2>4. ASSUME TargetName \in DOMAIN sysfs,
               cur' = [cur EXCEPT !.kname = TargetName, ![f] = Target(sysfs, TargetName)[f]]
        PROVE  cur' \in TargetType
    <3>1. Target(sysfs, TargetName) \in TargetType /\ TargetName \in Device
      BY <2>4, TargetIsTyped, Zenon
    <3> HIDE DEF Target
    <3>2. ASSUME NEW t \in TargetType, NEW g \in {"size", "descendants", "partition", "serial", "wwn"}
          PROVE  [cur EXCEPT !.kname = TargetName, ![g] = t[g]] \in TargetType
      BY <1>0, <3>1, <3>2, Zenon DEF TargetType
    <3> QED
      BY <2>2, <2>4, <3>1, <3>2, Zenon
  <2> QED
    BY <1>0, <2>1, <2>2, <2>3, <2>4, Zenon DEF ReadTyped
<1>8. CASE HasRead
  <2>1. /\ cur' = NoTarget /\ got' = 0 /\ obs' = obs
        /\ insp' = insp \/ insp' = [insp EXCEPT !.target = cur]
    BY <1>8, Zenon DEF HasRead
  <2>2. DOMAIN insp' = DOMAIN insp /\ insp'.target \in TargetType /\ insp'.compressed \in Nat
    BY <1>0, <2>1, Zenon
  <2> QED
    BY <1>0, <1>1, <2>1, <2>2, Zenon DEF ReadTyped
<1>9. CASE Gates \/ Prepares \/ HasNumber \/ Finishes
  <2>1. \A a, b : Moves(a, b) => UNCHANGED <<cur, got, insp>>
    BY Zenon DEF Moves, readVars
  <2> QED
    BY <1>3, <1>9, <2>1, Zenon DEF Gates, Prepares, HasNumber, Finishes
<1>10. CASE Images \/ Opens \/ Starts \/ Rests
  BY <1>3, <1>10, Zenon DEF Images, Opens, Starts, Rests, callVars, readVars
<1>11. CASE Outside
  BY <1>3, <1>11, Zenon DEF Outside, Replug, ChangeMounts, ChangeSwaps, ChangeNode, KernelRemount, ImageMoves, vars,
     nonImageVars, callVars, readVars
<1> QED
  BY <1>4, <1>5, <1>6, <1>7, <1>8, <1>9, <1>10, <1>11, Zenon DEF Step, Runs, CallEnds, Dies

(* Every step keeps the types of the request and of what was shown         *)
(* (diskforge.go, Inspect and Write).                                      *)
LEMMA AskedTypeKept ==
  ASSUME NEW data, AskedTyped(data), ReadTyped, \A r \in Requests : r.sha \in data, Step
  PROVE  AskedTyped(data)'
<1>1. CASE UNCHANGED <<req, shown>>
  BY <1>1, Zenon DEF AskedTyped, RequestType
<1>2. ASSUME NEW code, Ends(code) PROVE AskedTyped(data)'
  <2>1. req' = req /\ (shown' = shown \/ Show)
    BY <1>2, Zenon DEF Ends
  <2>2. CASE Show
    <3> DEFINE new == [call |-> calls, target |-> insp.target, image |-> image,
                       token |-> ConfirmationToken(insp.target, image)]
    <3>1. shown' = shown \union {new}
      BY <2>2, Zenon DEF Show
    <3>2. new.target = insp.target /\ new.image = image
      OBVIOUS
    <3>3. image \in ImageType(data)
      BY Zenon DEF AskedTyped, ReadTyped, RequestType, ImageType, image
    <3>4. \A s \in shown' : s.target \in TargetType /\ s.image \in ImageType(data)
      BY <3>1, <3>2, <3>3, Zenon DEF AskedTyped, ReadTyped
    <3>5. RequestType(data) \subseteq RequestType(data)'
      BY <3>1, Zenon DEF RequestType
    <3> QED
      BY <2>1, <3>4, <3>5, Zenon DEF AskedTyped, ImageType
  <2> QED
    BY <1>1, <2>1, <2>2, Zenon
<1>3. CASE Starts
  <2>1. PICK r \in Requests, token \in {NoToken} \union {s.token : s \in shown} :
          req' = [op |-> r.op, mode |-> r.mode, paths |-> r.paths, sha |-> r.sha,
                  expected |-> r.expected, reboot |-> r.reboot, token |-> token]
    BY <1>3, Zenon DEF Starts
  <2>2. shown' = shown
    BY <1>3, Zenon DEF Starts, histVars
  <2>3. /\ r.op \in {"none", "inspect", "dry", "write"} /\ r.sha \in data
        /\ r.paths \in {"canonical", "target", "image"} /\ r.expected \in Int /\ r.reboot \in BOOLEAN
    BY RequestAssumption, Zenon
  <2>4. req' \in RequestType(data)
    BY <2>1, <2>3, Zenon DEF RequestType
  <2> QED
    BY <2>2, <2>4, Zenon DEF AskedTyped, RequestType
<1>4. CASE Observes \/ Gates \/ Prepares \/ HasNumber \/ Finishes
  <2>1. \A a, b : Moves(a, b) => UNCHANGED <<req, shown>>
    BY Zenon DEF Moves
  <2> QED
    BY <1>1, <1>4, <2>1, Zenon DEF Observes, Gates, Prepares, HasNumber, Finishes
<1>5. CASE Reads \/ HasRead \/ Fills \/ Images \/ Opens \/ Rests
  BY <1>1, <1>5, Zenon DEF Reads, HasRead, Fills, Images, Opens, Rests, callVars, histVars
<1>6. CASE Outside
  BY <1>1, <1>6, Zenon DEF Outside, Replug, ChangeMounts, ChangeSwaps, ChangeNode, KernelRemount, ImageMoves, vars,
     nonImageVars, callVars, histVars
<1> QED
  BY <1>2, <1>3, <1>4, <1>5, <1>6, Zenon DEF Step, Runs, CallEnds, Dies

----------------------------------------------------------------------------
(* Capacity.                                                               *)

\* The inductive invariant: what the policy let pass is remembered until the
\* write.
CapacityInv ==
  /\ LargeEnough
  /\ pc \in AfterPolicy => ~(insp.target.size < req.expected) /\ ~(req.expected <= 0)

\* What the checks after the opening establish of the open device.
SizeKnown ==
  pc = "write" /\ Alive(sysfs, fd) =>
    fd.inst \in Inst /\ insp.target.size = Ident[fd.inst].sectors * SectorBytes

(* The policy lets a target pass only when it is large enough and the size *)
(* is positive (policy/inspect.go, Inspect).                               *)
LEMMA PolicyPasses ==
  ASSUME NEW mode, NEW target, NEW img, NEW host, Inspect(mode, target, img, host) = "ok"
  PROVE  ~(target.size < img.uncompressed) /\ ~(img.uncompressed <= 0)
<1> DEFINE gates == commonGates(mode, target, img, host)
           refused == {i \in DOMAIN gates : gates[i][2]}
<1>1. FirstRefusal(gates) = "ok"
  BY Zenon DEF Inspect
<1>2. DOMAIN gates = 1 .. 8 /\ \A i \in 1 .. 8 : gates[i][1] # "ok"
  BY DEF commonGates
<1>3. ASSUME refused # {} PROVE \E i \in refused : \A j \in refused : i <= j
  <2>1. refused \subseteq 1 .. 8
    BY <1>2, Zenon
  <2> HIDE DEF refused
  <2>2. ASSUME NEW k \in 1 .. 8, k \in refused, \A j \in 1 .. 8 : j < k => j \notin refused
        PROVE  \E i \in refused : \A j \in refused : i <= j
    BY <2>1, <2>2
  <2>3. \E k \in 1 .. 8 : k \in refused /\ \A j \in 1 .. 8 : j < k => j \notin refused
    <3>1. \A k \in 1 .. 8 : k = 1 \/ k = 2 \/ k = 3 \/ k = 4 \/ k = 5 \/ k = 6 \/ k = 7 \/ k = 8
      OBVIOUS
    <3>2. \/ 1 \in refused \/ 2 \in refused \/ 3 \in refused \/ 4 \in refused
          \/ 5 \in refused \/ 6 \in refused \/ 7 \in refused \/ 8 \in refused
      BY <1>3, <2>1, <3>1, Zenon
    <3> QED
      BY <3>1, <3>2
  <2> QED
    BY <2>2, <2>3, Zenon
<1>4. refused = {}
  <2> SUFFICES ASSUME refused # {} PROVE FALSE
    OBVIOUS
  <2>1. (CHOOSE i \in refused : \A j \in refused : i <= j) \in refused
    BY <1>3, Zenon
  <2>2. gates[CHOOSE i \in refused : \A j \in refused : i <= j][1] = "ok"
    BY <1>1, Zenon DEF FirstRefusal
  <2> QED
    BY <1>2, <2>1, <2>2, Zenon
<1>5. ~gates[4][2] /\ ~gates[6][2]
  BY <1>2, <1>4
<1> QED
  BY <1>5, Zenon DEF commonGates

(* A step that passes no gate and writes nothing keeps the invariant       *)
(* (execute.go, Execute).                                                  *)
LEMMA FrameKeepsCapacity ==
  ASSUME CapacityInv, touched' = touched,
         pc' \in AfterPolicy => pc \in AfterPolicy /\ UNCHANGED <<req, insp>>
  PROVE  CapacityInv'
BY Zenon DEF CapacityInv, LargeEnough

(* A write keeps it: the inspected capacity is that of the hardware behind *)
(* the descriptor (system.go, validateOpenedTarget and WriteVerified).     *)
LEMMA WriteKeepsCapacity ==
  ASSUME CapacityInv, SizeKnown, req.expected \in Int, pc = "write", Alive(sysfs, fd),
         touched' = touched \union {Receipt}, UNCHANGED <<pc, req, insp>>
  PROVE  CapacityInv'
<1>1. insp.target.size = Ident[fd.inst].sectors * SectorBytes /\ fd.inst \in Inst
  BY Zenon DEF SizeKnown
<1>2. Ident[fd.inst].sectors * SectorBytes \in Int
  <2>1. Ident[fd.inst].sectors \in Nat
    BY <1>1, IdentAssumption, Zenon
  <2> QED
    BY <2>1, SectorAssumption
<1>3. req.expected > 0 /\ req.expected <= Ident[fd.inst].sectors * SectorBytes
  <2>1. ~(insp.target.size < req.expected) /\ ~(req.expected <= 0)
    BY Zenon DEF CapacityInv, AfterPolicy, AfterIdentity, AfterConfirm, AfterTargetOK, AfterNumber
  <2> QED
    BY <1>1, <1>2, <2>1
<1>4. Receipt.expected = req.expected /\ Receipt.inst = fd.inst
  BY Zenon DEF Receipt
<1>5. LargeEnough'
  BY <1>3, <1>4, Zenon DEF CapacityInv, LargeEnough
<1> QED
  BY <1>5, Zenon DEF CapacityInv

(* Every step keeps it (execute.go, Execute; system.go, Inspect).          *)
LEMMA CapacityKept ==
  ASSUME CapacityInv, SizeKnown, req.expected \in Int, DOMAIN insp = {"target", "compressed", "token"}, Step
  PROVE  CapacityInv'
<1> USE DEF AfterPolicy, AfterIdentity, AfterConfirm, AfterTargetOK, AfterNumber
<1>1. ASSUME NEW code, Ends(code) PROVE CapacityInv'
  BY <1>1, FrameKeepsCapacity, Zenon DEF Ends, Return
<1>2. ASSUME NEW a, NEW b, Moves(a, b), b \in AfterPolicy => a \in AfterPolicy PROVE CapacityInv'
  BY <1>2, FrameKeepsCapacity, Zenon DEF Moves
<1>3. CASE Observes \/ Prepares
  BY <1>2, <1>3, Zenon DEF Observes, Prepares
<1>4. CASE Gates \/ HasNumber \/ Finishes
  BY <1>2, <1>4, Zenon DEF Gates, HasNumber, Finishes
<1>5. CASE Fills
  <2>1. CASE pc' \notin AfterPolicy
    BY <1>5, <2>1, FrameKeepsCapacity, Zenon DEF Fills, histVars
  <2>2. CASE /\ pc' = "verify" /\ Inspect(req.mode, insp.target, image, obs) = "ok"
             /\ insp' = [insp EXCEPT !.token = ConfirmationToken(insp.target, image)]
             /\ UNCHANGED <<req, touched>>
    <3>1. ~(insp.target.size < image.uncompressed) /\ ~(image.uncompressed <= 0)
      BY <2>2, PolicyPasses, Zenon
    <3>2. insp'.target = insp.target /\ image.uncompressed = req.expected
      BY <2>2, Zenon DEF image
    <3> QED
      BY <2>2, <3>1, <3>2, Zenon DEF CapacityInv, LargeEnough
  <2> QED
    BY <1>5, <2>1, <2>2, Zenon DEF Fills, histVars
<1>6. CASE Images
  <2>1. CASE pc = "verify" /\ touched' = touched
    BY <1>6, <2>1, FrameKeepsCapacity, Zenon DEF Images, callVars
  <2>2. CASE pc = "write" /\ (touched' = touched \/ (Alive(sysfs, fd) /\ touched' = touched \union {Receipt}))
    BY <1>6, <2>2, FrameKeepsCapacity, WriteKeepsCapacity, Zenon DEF Images, callVars
  <2> QED
    BY <1>6, <2>1, <2>2, Zenon DEF Images
<1>7. CASE Reads \/ HasRead \/ Opens \/ Starts \/ Rests
  BY <1>7, FrameKeepsCapacity, Zenon DEF Reads, HasRead, Opens, Starts, Rests, callVars, histVars
<1>8. CASE Outside
  <2>1. UNCHANGED <<pc, req, insp, touched>>
    BY <1>8, Zenon DEF Outside, Replug, ChangeMounts, ChangeSwaps, ChangeNode, KernelRemount, ImageMoves, vars,
       nonImageVars, callVars, histVars
  <2> QED
    BY <2>1, FrameKeepsCapacity, Zenon
<1> QED
  BY <1>1, <1>3, <1>4, <1>5, <1>6, <1>7, <1>8, Zenon DEF Step, Runs, CallEnds, Dies

----------------------------------------------------------------------------
(* Quiet.                                                                  *)

AfterPoll    == {"open"} \union Opened
AfterSwapoff == {"enableSysRq", "remount", "poll"} \union AfterPoll

\* Every active area is one that Swapoff still has to disable.
Pending == \A i \in DOMAIN swaps : \E j \in DOMAIN todo : todo[j] = swaps[i]

\* The inductive invariant: what each preparation has brought about holds
\* until another process undoes it, which stale remembers.
QuietInv ==
  /\ swaps \in Seq(Swap) /\ todo \in Seq(Swap) /\ mounts \in Seq(Mount)
  /\ \A i, j \in DOMAIN swaps : swaps[i] = swaps[j] => i = j
  /\ pc = "swapoff" /\ "swap" \notin stale => Pending
  /\ pc \in AfterSwapoff /\ req.mode = "live" /\ "swap" \notin stale => swaps = <<>>
  /\ pc \in AfterPoll /\ req.mode = "live" /\ "mount" \notin stale => BlockMountsReadOnly(sysfs, mounts)

USE DEF AfterPoll, AfterSwapoff, Opened

(* Nothing is prepared at first (execute.go, Execute).                     *)
LEMMA QuietInitially == StateInit => QuietInv
BY TableAssumption, SwapAssumption DEF StateInit, QuietInv

(* A step that ends the call, or that leaves the preparations alone and    *)
(* passes none, keeps the invariant (execute.go, Execute).                 *)
LEMMA FrameIsQuiet ==
  ASSUME QuietInv, UNCHANGED <<sysfs, mounts, swaps, stale>>,
         \/ pc' = "idle" /\ todo' = <<>>
         \/ /\ UNCHANGED <<todo, req>> /\ pc' # "swapoff"
            /\ pc' \in AfterSwapoff => pc \in AfterSwapoff \/ req.mode = "rescue"
            /\ pc' \in AfterPoll => pc \in AfterPoll \/ req.mode = "rescue"
  PROVE  QuietInv'
<1>1. CASE pc' = "idle" /\ todo' = <<>>
  BY <1>1 DEF QuietInv
<1>2. CASE /\ UNCHANGED <<todo, req>> /\ pc' # "swapoff"
           /\ pc' \in AfterSwapoff => pc \in AfterSwapoff \/ req.mode = "rescue"
           /\ pc' \in AfterPoll => pc \in AfterPoll \/ req.mode = "rescue"
  BY <1>2, Zenon DEF QuietInv
<1> QED
  BY <1>1, <1>2, Zenon

(* The places of a sequence.                                               *)
LEMMA SeqDomain == ASSUME NEW S, NEW s \in Seq(S) PROVE DOMAIN s = 1 .. Len(s) /\ Len(s) \in Nat
OBVIOUS

(* The length of two sequences joined.                                     *)
LEMMA JoinLength ==
  ASSUME NEW S, NEW a \in Seq(S), NEW b \in Seq(S) PROVE Len(a \o b) = Len(a) + Len(b)
OBVIOUS

\* Where the k-th element of a sequence without its i-th one was before.
Skip(i, k) == IF k < i THEN k ELSE k + 1

(* Every place but the i-th is kept, and no two become one.                *)
LEMMA SkipsOne ==
  ASSUME NEW n \in Nat, NEW i \in 1 .. n
  PROVE  /\ \A k \in 1 .. n - 1 : Skip(i, k) \in 1 .. n /\ Skip(i, k) # i
         /\ \A k, l \in 1 .. n - 1 : Skip(i, k) = Skip(i, l) => k = l
BY DEF Skip

(* A swap table without its i-th record (system.go, swapoff).              *)
LEMMA WithoutOne ==
  ASSUME NEW S, NEW s \in Seq(S), NEW i \in 1 .. Len(s)
  PROVE  LET t == SubSeq(s, 1, i - 1) \o SubSeq(s, i + 1, Len(s)) IN
         /\ t \in Seq(S) /\ DOMAIN t = 1 .. Len(s) - 1
         /\ \A k \in 1 .. Len(s) - 1 : t[k] = s[Skip(i, k)]
<1> DEFINE a == SubSeq(s, 1, i - 1)
           b == SubSeq(s, i + 1, Len(s))
<1>1. a \in Seq(S) /\ Len(a) = i - 1 /\ \A k \in 1 .. i - 1 : a[k] = s[k]
  OBVIOUS
<1>2. b \in Seq(S) /\ Len(b) = Len(s) - i /\ \A k \in 1 .. Len(s) - i : b[k] = s[i + k]
  OBVIOUS
<1> HIDE DEF a, b
<1>3. a \o b \in Seq(S)
  BY <1>1, <1>2
<1>4. Len(a \o b) = Len(s) - 1
  <2>1. Len(a \o b) = Len(a) + Len(b)
    BY <1>1, <1>2, JoinLength, Zenon
  <2> QED
    BY <1>1, <1>2, <2>1
<1>5. DOMAIN (a \o b) = 1 .. Len(s) - 1
  BY <1>3, <1>4, SeqDomain, Zenon
<1>6. ASSUME NEW k \in 1 .. Len(s) - 1 PROVE (a \o b)[k] = s[Skip(i, k)]
  <2>1. CASE k < i
    <3>1. (a \o b)[k] = a[k] /\ k \in 1 .. i - 1
      BY <1>1, <1>2, <2>1
    <3> QED
      BY <1>1, <2>1, <3>1, Zenon DEF Skip
  <2>2. CASE ~(k < i)
    <3>1. (a \o b)[k] = b[k - (i - 1)] /\ k - (i - 1) \in 1 .. Len(s) - i
      BY <1>1, <1>2, <2>2
    <3>2. i + (k - (i - 1)) = k + 1
      OBVIOUS
    <3> QED
      BY <1>2, <2>2, <3>1, <3>2, Zenon DEF Skip
  <2> QED
    BY <2>1, <2>2, Zenon
<1> QED
  BY <1>3, <1>5, <1>6, Zenon DEF a, b

(* The rest of the list has every record but the first.                    *)
LEMMA WithoutFirst ==
  ASSUME NEW S, NEW s \in Seq(S), NEW j \in DOMAIN s, j # 1
  PROVE  j - 1 \in DOMAIN Tail(s) /\ Tail(s)[j - 1] = s[j]
OBVIOUS

(* Disabling one area takes it from the table and from the list            *)
(* (system.go, Swapoff).                                                   *)
LEMMA SwapoffIsQuiet ==
  ASSUME QuietInv, NEW i \in DOMAIN swaps, pc = "swapoff", todo # <<>>, swaps[i] = Head(todo),
         swaps' = SubSeq(swaps, 1, i - 1) \o SubSeq(swaps, i + 1, Len(swaps)),
         todo' = Tail(todo), UNCHANGED <<pc, req, sysfs, mounts, stale>>
  PROVE  QuietInv'
<1>1. swaps \in Seq(Swap) /\ todo \in Seq(Swap) /\ \A k, l \in DOMAIN swaps : swaps[k] = swaps[l] => k = l
  BY Zenon DEF QuietInv
<1>2. i \in 1 .. Len(swaps)
  BY <1>1, SeqDomain, Zenon
<1>3. /\ swaps' \in Seq(Swap) /\ DOMAIN swaps' = 1 .. Len(swaps) - 1
      /\ \A k \in 1 .. Len(swaps) - 1 : swaps'[k] = swaps[Skip(i, k)]
  BY <1>1, <1>2, WithoutOne, Zenon
<1>4. \A k \in DOMAIN swaps' :
        Skip(i, k) \in DOMAIN swaps /\ Skip(i, k) # i /\ swaps'[k] = swaps[Skip(i, k)]
  <2>1. DOMAIN swaps = 1 .. Len(swaps) /\ Len(swaps) \in Nat
    BY <1>1, SeqDomain, Zenon
  <2>2. \A k \in 1 .. Len(swaps) - 1 : Skip(i, k) \in 1 .. Len(swaps) /\ Skip(i, k) # i
    BY <1>2, <2>1, SkipsOne, Zenon
  <2> QED
    BY <1>3, <2>1, <2>2, Zenon
<1>5. \A k, l \in DOMAIN swaps' : swaps'[k] = swaps'[l] => k = l
  <2>1. Len(swaps) \in Nat
    BY <1>1, SeqDomain, Zenon
  <2>2. \A k, l \in 1 .. Len(swaps) - 1 : Skip(i, k) = Skip(i, l) => k = l
    BY <1>2, <2>1, SkipsOne, Zenon
  <2>3. ASSUME NEW k \in DOMAIN swaps', NEW l \in DOMAIN swaps', swaps'[k] = swaps'[l] PROVE k = l
    <3>1. swaps[Skip(i, k)] = swaps[Skip(i, l)] /\ Skip(i, k) \in DOMAIN swaps /\ Skip(i, l) \in DOMAIN swaps
      BY <1>4, <2>3, Zenon
    <3>2. Skip(i, k) = Skip(i, l)
      BY <1>1, <3>1, Zenon
    <3> QED
      BY <1>3, <2>2, <3>2, Zenon
  <2> QED
    BY <2>3, Zenon
<1>6. Pending => Pending'
  <2> SUFFICES ASSUME Pending, NEW k \in DOMAIN swaps'
               PROVE  \E j \in DOMAIN todo' : todo'[j] = swaps'[k]
    BY Zenon DEF Pending
  <2>1. PICK j \in DOMAIN todo : todo[j] = swaps[Skip(i, k)]
    BY <1>4, Zenon DEF Pending
  <2>2. swaps[Skip(i, k)] # swaps[i]
    BY <1>1, <1>4, Zenon
  <2>3. j # 1
    BY <1>1, <2>1, <2>2
  <2>4. j - 1 \in DOMAIN todo' /\ todo'[j - 1] = todo[j]
    BY <1>1, <2>3, WithoutFirst, Zenon
  <2> QED
    BY <1>4, <2>1, <2>4, Zenon
<1>7. todo' \in Seq(Swap) /\ mounts' \in Seq(Mount)
  BY <1>1 DEF QuietInv
<1> QED
  BY <1>3, <1>5, <1>6, <1>7, Zenon DEF QuietInv

(* The list is what was active when it was read, and the poll ends well    *)
(* only when it has seen every mount read-only (execute.go, prepareLive).  *)
LEMMA PreparationQuiets == ASSUME QuietInv, Prepares PROVE QuietInv'
<1>0. \A a, b : Moves(a, b) => /\ pc = a /\ pc' = b /\ UNCHANGED <<sysfs, mounts, req>>
                               /\ (swaps' = swaps \/ a = "swapoff")
  BY Zenon DEF Moves
<1>1. CASE \/ Moves("mlockall", "readSwaps") /\ Still
           \/ Moves("enableSysRq", "remount") /\ Still
           \/ Moves("remount", "poll") /\ UNCHANGED <<swaps, todo, stale>>
           \/ Moves("poll", "poll") /\ UNCHANGED <<swaps, todo, stale>>
  BY <1>0, <1>1, FrameIsQuiet DEF Still, liveVars
<1>2. CASE Moves("readSwaps", "swapoff") /\ todo' = swaps
  BY <1>0, <1>2 DEF QuietInv, Pending
<1>3. CASE Moves("swapoff", "enableSysRq") /\ todo = <<>> /\ Still
  <2>1. "swap" \notin stale => swaps = <<>>
    BY <1>0, <1>3 DEF QuietInv, Pending
  <2> QED
    BY <1>0, <1>3, <2>1 DEF QuietInv, Still, liveVars
<1>4. CASE /\ Moves("swapoff", "swapoff") /\ todo # <<>> /\ todo' = Tail(todo) /\ stale' = stale
           /\ \E i \in DOMAIN swaps :
                /\ swaps[i] = Head(todo)
                /\ swaps' = SubSeq(swaps, 1, i - 1) \o SubSeq(swaps, i + 1, Len(swaps))
  <2>1. pc = "swapoff" /\ UNCHANGED <<pc, req, sysfs, mounts>>
    BY <1>0, <1>4, Zenon
  <2> QED
    BY <1>4, <2>1, SwapoffIsQuiet, Zenon
<1>5. CASE /\ Moves("poll", "open") /\ BlockMountsReadOnly(sysfs, mounts)
           /\ stale' = stale \ {"mount"} /\ UNCHANGED <<swaps, todo>>
  BY <1>0, <1>5 DEF QuietInv
<1> QED
  BY <1>1, <1>2, <1>3, <1>4, <1>5, Zenon DEF Prepares

(* The kernel's remount only makes more mounts read-only (system.go,       *)
(* RemountReadOnly).                                                       *)
LEMMA RemountIsQuiet == ASSUME QuietInv, KernelRemount PROVE QuietInv'
<1>1. PICK i \in DOMAIN mounts : mounts' = [mounts EXCEPT ![i].superRO = TRUE]
  BY Zenon DEF KernelRemount
<1>2. mounts \in Seq(Mount) /\ \A j \in DOMAIN mounts : mounts[j] \in Mount
  BY DEF QuietInv
<1>5. /\ DOMAIN mounts' = DOMAIN mounts
      /\ \A j \in DOMAIN mounts : j # i => mounts'[j] = mounts[j]
      /\ mounts'[i] = [mounts[i] EXCEPT !.superRO = TRUE]
  BY <1>1, <1>2, Zenon
<1>6. /\ mounts'[i] \in Mount /\ mounts'[i].num = mounts[i].num
      /\ readOnly(mounts'[i])
  BY <1>1, <1>2, <1>5, ZenonT(30) DEF Mount, readOnly
<1>3. /\ mounts' \in Seq(Mount) /\ DOMAIN mounts' = DOMAIN mounts
      /\ \A j \in DOMAIN mounts : mounts'[j].num = mounts[j].num /\ (readOnly(mounts[j]) => readOnly(mounts'[j]))
  <2>1. mounts' \in Seq(Mount)
    BY <1>1, <1>2, <1>6
  <2> QED
    BY <1>5, <1>6, <2>1, Zenon
<1>4. BlockMountsReadOnly(sysfs, mounts) => BlockMountsReadOnly(sysfs, mounts')
  <2>1. \A j \in DOMAIN mounts :
          nameByDeviceNumber(sysfs, mounts'[j].num) = nameByDeviceNumber(sysfs, mounts[j].num)
    BY <1>3, Zenon
  <2> HIDE DEF nameByDeviceNumber
  <2> QED
    BY <1>3, <2>1, Zenon DEF BlockMountsReadOnly
<1>7. UNCHANGED <<sysfs, swaps, stale, todo, pc, req>>
  BY Zenon DEF KernelRemount, liveVars, callVars, histVars
<1> QED
  BY <1>3, <1>4, <1>7, Zenon DEF QuietInv, Pending

(* What other processes change is remembered as stale (execute.go,         *)
(* prepareLive).                                                           *)
LEMMA OutsideIsQuiet == ASSUME QuietInv, Outside PROVE QuietInv'
<1>1. CASE UNCHANGED <<sysfs, mounts, swaps, stale, todo, pc, req>>
  BY <1>1, Zenon DEF QuietInv, Pending
<1>2. CASE \E sys \in Topologies : Replug(sys)
  <2>1. "mount" \in stale' /\ ("swap" \notin stale' => "swap" \notin stale)
        /\ UNCHANGED <<mounts, swaps, todo, pc, req>>
    BY <1>2, Zenon DEF Replug, liveVars
  <2> QED
    BY <2>1, Zenon DEF QuietInv, Pending
<1>3. CASE \E mts \in MountTables : ChangeMounts(mts)
  <2>1. "mount" \in stale' /\ ("swap" \notin stale' => "swap" \notin stale) /\ mounts' \in MountTables
        /\ UNCHANGED <<swaps, todo, pc, req>>
    BY <1>3, Zenon DEF ChangeMounts, liveVars, callVars
  <2> QED
    BY <2>1, TableAssumption, Zenon DEF QuietInv, Pending
<1>4. CASE \E sws \in SwapTables : ChangeSwaps(sws)
  <2>1. "swap" \in stale' /\ ("mount" \notin stale' => "mount" \notin stale) /\ swaps' \in SwapTables
        /\ UNCHANGED <<sysfs, mounts, todo, pc, req>>
    BY <1>4, Zenon DEF ChangeSwaps, liveVars, callVars
  <2> QED
    BY <2>1, TableAssumption, SwapAssumption, Zenon DEF QuietInv
<1>5. CASE \E n \in Nodes : ChangeNode(n)
  BY <1>1, <1>5, Zenon DEF ChangeNode, liveVars, callVars, histVars
<1>6. CASE ImageMoves
  BY <1>1, <1>6, Zenon DEF ImageMoves, nonImageVars, machineVars, liveVars, callVars, histVars
<1>7. CASE UNCHANGED vars
  BY <1>1, <1>7, Zenon DEF vars, machineVars, liveVars, callVars, histVars
<1> QED
  BY <1>2, <1>3, <1>4, <1>5, <1>6, <1>7, RemountIsQuiet, Zenon DEF Outside

(* Every step keeps it: observing, checking, opening and writing prepare   *)
(* nothing, and a rescue write goes to the opening at once (execute.go,    *)
(* Execute and prepareLive).                                               *)
LEMMA QuietKept == ASSUME QuietInv, Step PROVE QuietInv'
<1>1. ASSUME NEW code, Ends(code) PROVE QuietInv'
  BY <1>1, FrameIsQuiet, Zenon DEF Ends, Return, machineVars
<1>2. ASSUME NEW a, NEW b, Moves(a, b), Still, b # "swapoff",
             b \in AfterSwapoff => a \in AfterPoll \/ req.mode = "rescue"
      PROVE  QuietInv'
  <2>1. pc = a /\ pc' = b /\ UNCHANGED <<sysfs, mounts, swaps, stale, todo, req>>
    BY <1>2, Zenon DEF Moves, Still, liveVars
  <2> QED
    BY <1>2, <2>1, FrameIsQuiet, Zenon
<1>3. CASE Observes
  BY <1>2, <1>3, Zenon DEF Observes
<1>4. CASE Gates
  BY <1>2, <1>4, Zenon DEF Gates
<1>5. CASE HasNumber \/ Finishes
  BY <1>2, <1>5, Zenon DEF HasNumber, Finishes
<1>6. ASSUME UNCHANGED <<sysfs, mounts, swaps, stale, todo>>,
             \/ pc' \in {"idle", "target", "mounts", "live", "policy", "verify"}
             \/ req' = req /\ pc' # "swapoff" /\ pc \in AfterPoll
      PROVE  QuietInv'
  BY <1>6, Zenon DEF QuietInv
<1>7. CASE Reads \/ HasRead \/ Fills
  BY <1>6, <1>7, Zenon DEF Reads, HasRead, Fills, machineVars, liveVars, histVars
<1>8. CASE Images \/ Opens
  BY <1>6, <1>8, Zenon DEF Images, Opens, machineVars, liveVars, callVars, histVars
<1>9. CASE Starts \/ Rests
  BY <1>6, <1>9, Zenon DEF Starts, Rests, machineVars, liveVars, histVars
<1> QED
  BY <1>1, <1>3, <1>4, <1>5, <1>7, <1>8, <1>9, PreparationQuiets, OutsideIsQuiet, Zenon DEF Step, Runs, CallEnds, Dies

=============================================================================
