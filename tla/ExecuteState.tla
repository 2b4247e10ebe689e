---------------------------- MODULE ExecuteState ----------------------------
(***************************************************************************)
(* The state of the guarded write and of the machine around it: what the   *)
(* steps of module Execute read and change, the ways out of a call, what   *)
(* the kernel and other processes do between any two steps, and what the   *)
(* calls promise.  Nothing here depends on how the image source works.     *)
(***************************************************************************)
EXTENDS Observer, Policy

CONSTANTS Inode, NoInode

CONSTANTS TargetName,      \* request.TargetPath is /dev/TargetName
          ImagePath,       \* request.ImagePath, as path components
          Topologies,      \* the sysfs snapshots the machine can show
          MountTables,     \* the mount tables
          SwapTables,      \* the swap tables
          Nodes,           \* what may lie at /dev/TargetName: [kind, num]
          Kernels,         \* [euid, memory, sysrq]
          Requests,        \* [op, mode, paths, sha, expected, reboot]
          Unreadable,      \* the optional target fields whose reads may fail
          PollAttempts,    \* remountPollAttempts (600)
          MaxCalls,        \* bound on the number of calls
          NoToken

ASSUME TopologyAssumption == \A sys \in Topologies : IsSysfs(sys)
ASSUME TextAssumption == NoText \in Text
ASSUME UnreadableAssumption == Unreadable \subseteq Optional
ASSUME BoundAssumption == PollAttempts \in Nat /\ MaxCalls \in Nat
ASSUME RequestAssumption ==
  \A r \in Requests :
    /\ r.op \in {"inspect", "dry", "write"}
    /\ r.paths \in {"canonical", "target", "image"} /\ r.expected \in Int /\ r.reboot \in BOOLEAN
ASSUME NodeAssumption == \A n \in Nodes : n \in [kind : {"block", "other"}, num : Nat]

Mount == [num : Nat, on : Device \union {NoDevice}, point : Seq(STRING), fs : STRING,
          mountRO : BOOLEAN, superRO : BOOLEAN]
Swap  == [kind : STRING, dev : Device \union {NoDevice}, path : Seq(STRING),
          on : Device \union {NoDevice}]
ASSUME TableAssumption == MountTables \subseteq Seq(Mount) /\ SwapTables \subseteq Seq(Swap)
\* The swap table has one record per area.
ASSUME SwapAssumption ==
  \A sws \in SwapTables : \A i, j \in DOMAIN sws : sws[i] = sws[j] => i = j
ASSUME KernelAssumption == Kernels \subseteq [euid : Nat, memory : Int, sysrq : BOOLEAN]

VARIABLES sysfs, node, mounts, swaps, kern,            \* the machine
          content, path, ctx, src, ver, phase, buf,    \* the image (ImageWrite)
          dest, durable, prog, changed,
          pc,        \* the next step of the call, "idle" between calls
          req,       \* the request: a Requests record and its token
          obs,       \* what Inspect has observed so far
          insp,      \* the inspection: [target, compressed, token]
          cur,       \* the target identity Observer.Target is reading
          got,       \* the number of TargetFields it has read
          fd,        \* the target descriptor
          todo,      \* swap areas Swapoff has read and not yet disabled
          polls,     \* polls left to RemountReadOnly
          remounting,\* SysRq-u was triggered
          rebooted,  \* SysRq-b was triggered
          result,    \* of the last call: "none", "ok", or an error
          calls,     \* calls made
          shown,     \* history: the inspections the operator has received
          touched,   \* history: the hardware that received data, and for what request
          stale      \* history: what other processes changed since it was checked

machineVars == <<sysfs, node, mounts, swaps, kern>>
imageVars   == <<content, path, ctx, src, ver, phase, buf, dest, durable, prog, changed>>
liveVars    == <<todo, polls, remounting, rebooted>>
readVars    == <<cur, got>>
callVars    == <<req, obs, insp, readVars, fd>>
histVars    == <<shown, touched, stale>>
nonImageVars == <<machineVars, pc, callVars, liveVars, result, calls, histVars>>
vars == <<machineVars, imageVars, pc, callVars, liveVars, result, calls, histVars>>

NoFd   == [open |-> FALSE, inst |-> NoDevice, name |-> NoDevice,
           num |-> 0, excl |-> FALSE, dead |-> FALSE]
NoObs  == [mounted |-> {}, swap |-> {}, fs |-> "none", backing |-> {},
           root |-> NoDevice, memory |-> 0, sysrq |-> FALSE, euid |-> 0]
NoInsp == [target |-> NoTarget, compressed |-> 0, token |-> NoToken]
NoReq  == [op |-> "none", mode |-> "rescue", paths |-> "canonical", sha |-> <<>>, expected |-> 0,
           reboot |-> FALSE, token |-> NoToken]

image == [sha |-> req.sha, compressed |-> insp.compressed, uncompressed |-> req.expected]

----------------------------------------------------------------------------
(* The kernel's side of O_EXCL: an exclusive opener, a mounted filesystem, *)
(* a swap area and a mapping above claim a device; a whole disk is busy    *)
(* when one of its partitions is claimed, and a partition when its disk is.*)
(* A mount record's on is the device it is really mounted from, also when  *)
(* its number is anonymous.                                                *)
Claimed(sys, mts, sws, d) ==
  \/ \E i \in DOMAIN mts : mts[i].on = d
  \/ \E i \in DOMAIN sws : sws[i].on = d
  \/ \E m \in DOMAIN sys : d \in sys[m].slaves

Busy(sys, mts, sws, d) ==
  \E e \in ({d, sys[d].parent} \ {NoDevice}) \union partitionChildren(sys, d) :
    Claimed(sys, mts, sws, e)

Alive(sys, f) ==
  /\ f.open /\ ~f.dead
  /\ f.name \in DOMAIN sys /\ sys[f.name].inst = f.inst

\* A filesystem or swap area appears only on a registered device; it may
\* outlive it.  The number of a mount is its device's, or anonymous (0).
Present(sys, on) == on # NoDevice => on \in DOMAIN sys
Mountable(sys, old, new) ==
  \A i \in DOMAIN new :
    \/ \E j \in DOMAIN old : old[j] = new[i]
    \/ Present(sys, new[i].on) /\ (new[i].num # 0 => new[i].num = sys[new[i].on].num)
Swappable(sys, old, new) ==
  \A i \in DOMAIN new : Present(sys, new[i].on) \/ \E j \in DOMAIN old : old[j] = new[i]

\* The kernel refuses to claim what is open exclusively.
KernelAllows(sys, mts, sws) == fd.excl /\ Alive(sys, fd) => ~Busy(sys, mts, sws, fd.name)

----------------------------------------------------------------------------
(* Ways out of a call.  Return leaves the descriptors alone; Unwind runs   *)
(* the deferred Close calls of Execute.                                    *)

Return(code) ==
  /\ pc' = "idle" /\ result' = code
  /\ obs' = NoObs /\ insp' = NoInsp /\ todo' = <<>> /\ polls' = 0
  /\ cur' = NoTarget /\ got' = 0

CloseSource ==
  /\ src' = NoInode /\ phase' = "closed"
  /\ UNCHANGED <<content, path, ctx, ver, buf, dest, durable, prog, changed>>

Abort(code) ==       \* before a descriptor is held
  /\ Return(code)
  /\ UNCHANGED <<machineVars, imageVars, req, fd, remounting, rebooted, calls, histVars>>

Unwind(code) ==
  /\ Return(code)
  /\ CloseSource /\ fd' = NoFd
  /\ UNCHANGED <<machineVars, req, remounting, rebooted, calls, histVars>>

Goto(next) ==        \* a step that changes nothing but the program counter
  /\ pc' = next
  /\ UNCHANGED <<machineVars, imageVars, callVars, liveVars, result, calls, histVars>>

Observe(next) ==     \* a step that changes obs and insp
  /\ pc' = next
  /\ UNCHANGED <<machineVars, imageVars, req, readVars, fd, liveVars, result, calls, histVars>>

----------------------------------------------------------------------------
(* What the gates compare, and what a call leaves to its caller and on the *)
(* target.                                                                 *)

\* Mutant: the inspected size is not compared.
sameIdentity_AnySize == ver.sha = req.sha

\* The clauses of sameIdentity that compare the request with itself are left out.
sameIdentity == ver.sha = req.sha /\ ver.size = insp.compressed

\* Mutant: the sizes are not compared.
sameTarget_AnySize == cur = [insp.target EXCEPT !.size = cur.size]

sameTarget == cur = insp.target

\* An inspection handed to the caller, by Inspect or by a dry run.
Show ==
  shown' = shown \union {[call |-> calls, target |-> insp.target, image |-> image,
                          token |-> ConfirmationToken(insp.target, image)]}

Receipt == [inst |-> fd.inst, name |-> fd.name, mode |-> req.mode, sha |-> req.sha,
            expected |-> req.expected, token |-> req.token, descendants |-> insp.target.descendants]

----------------------------------------------------------------------------
(* The rest of the machine.                                                *)

unplugged(sys, f) == f.open /\ ~(f.name \in DOMAIN sys /\ sys[f.name].inst = f.inst)

\* Disks, partitions and mappings come and go.  What stays keeps its name
\* and number; a descriptor of what goes is dead for good.
Replug(sys) ==
  /\ \A a \in DOMAIN sysfs, b \in DOMAIN sys :
       sysfs[a].inst = sys[b].inst => a = b /\ sysfs[a].num = sys[b].num
  /\ KernelAllows(sys, mounts, swaps)
  /\ sysfs' = sys
  /\ fd' = [fd EXCEPT !.dead = fd.dead \/ unplugged(sys, fd)]
  /\ stale' = stale \union {"mount"}
  /\ UNCHANGED <<node, mounts, swaps, kern, imageVars, pc, req, obs, insp, readVars, liveVars,
                 result, calls, shown, touched>>

ChangeMounts(mts) ==
  /\ KernelAllows(sysfs, mts, swaps) /\ Mountable(sysfs, mounts, mts)
  /\ mounts' = mts
  /\ stale' = stale \union {"mount"}
  /\ UNCHANGED <<sysfs, node, swaps, kern, imageVars, pc, callVars, liveVars, result, calls,
                 shown, touched>>

ChangeSwaps(sws) ==
  /\ KernelAllows(sysfs, mounts, sws) /\ Swappable(sysfs, swaps, sws)
  /\ swaps' = sws
  /\ stale' = stale \union {"swap"}
  /\ UNCHANGED <<sysfs, node, mounts, kern, imageVars, pc, callVars, liveVars, result, calls,
                 shown, touched>>

ChangeNode(n) ==
  /\ node' = n
  /\ UNCHANGED <<sysfs, mounts, swaps, kern, imageVars, pc, callVars, liveVars, result, calls,
                 histVars>>

\* SysRq-u works through the superblocks on its own time, or gets stuck.
KernelRemount ==
  /\ remounting
  /\ \E i \in DOMAIN mounts :
       ~mounts[i].superRO /\ mounts' = [mounts EXCEPT ![i].superRO = TRUE]
  /\ UNCHANGED <<sysfs, node, swaps, kern, imageVars, pc, callVars, liveVars, result, calls,
                 histVars>>

----------------------------------------------------------------------------
StateInit ==
  /\ sysfs \in Topologies /\ node \in Nodes /\ mounts \in MountTables
  /\ swaps \in SwapTables /\ kern \in Kernels
  /\ Mountable(sysfs, <<>>, mounts) /\ Swappable(sysfs, <<>>, swaps)
  /\ pc = "idle" /\ req = NoReq /\ obs = NoObs /\ insp = NoInsp /\ fd = NoFd
  /\ cur = NoTarget /\ got = 0
  /\ todo = <<>> /\ polls = 0 /\ remounting = FALSE /\ rebooted = FALSE
  /\ result = "none" /\ calls = 0
  /\ shown = {} /\ touched = {} /\ stale = {}

TargetType == [kname : Device \union {NoDevice}, serial : Text, wwn : Text, size : Int,
               partition : BOOLEAN, descendants : SUBSET Device]
Descriptor == [open : BOOLEAN, inst : Inst \union {NoDevice}, name : Device \union {NoDevice},
               num : Nat, excl : BOOLEAN, dead : BOOLEAN]
RequestType(data) ==
  [op : {"none", "inspect", "dry", "write"}, mode : {"rescue"} \union {r.mode : r \in Requests},
   paths : {"canonical", "target", "image"}, sha : data, expected : Int, reboot : BOOLEAN,
   token : {NoToken} \union {s.token : s \in shown}]
ImageType(data) == [sha : data, compressed : Nat, uncompressed : Int]
Steps == {"idle", "target", "mounts", "swaps", "source", "stat", "live", "policy", "verify",
          "identity", "confirm", "mlockall", "readSwaps", "swapoff", "enableSysRq", "remount",
          "poll", "open", "validate", "devnum", "write", "fdatasync", "flush", "sysrqSync",
          "sysrqReboot"}
Opened == {"validate", "devnum", "write", "fdatasync", "flush", "sysrqSync", "sysrqReboot"}
Held   == {"identity", "confirm", "mlockall", "readSwaps", "swapoff", "enableSysRq", "remount",
           "poll", "open"} \union Opened

\* What a read of an identity text of this hardware may have given.
Readable(inst, f) == {Ident[inst][f]} \union (IF f \in Unreadable THEN {NoText} ELSE {})

\* An inspection s is of the hardware and for the image of a receipt t.
Covers(s, t) ==
  /\ s.token = t.token
  /\ s.target.kname = t.name
  /\ s.target.serial \in Readable(t.inst, "serial")
  /\ s.target.wwn \in Readable(t.inst, "wwn")
  /\ s.target.size = Ident[t.inst].sectors * SectorBytes
  /\ s.image.sha = t.sha
  /\ s.image.uncompressed = t.expected

(* No byte ever reaches a device unless the operator was shown, and gave   *)
(* back the token of, an inspection of exactly that kernel name, serial,   *)
(* WWN, capacity, digest and expanded size, however disks are swapped and  *)
(* device nodes changed between the reads of the inspection, of the second *)
(* inspection, the opening and the checks after it.  A serial or WWN that  *)
(* cannot be read is shown, and bound, as empty (execute.go, Execute;      *)
(* system.go, validateOpenedTarget; observer.go, Target, readOptional).    *)
ConsentBound == \A t \in touched : \E s \in shown : Covers(s, t)

(* What receives data is large enough for the whole expanded image: the    *)
(* capacity gate was applied to the very hardware that is written          *)
(* (policy/inspect.go, Inspect; system.go, sameTarget).                    *)
LargeEnough ==
  \A t \in touched : t.expected > 0 /\ t.expected <= Ident[t.inst].sectors * SectorBytes

(* While a rescue write has the target open, nothing is mounted from,      *)
(* swaps to or is mapped onto the target or one of its partitions, also    *)
(* when it became busy after the inspection (system.go, OpenTarget).       *)
RescueExclusive ==
  pc \in Opened /\ req.mode = "rescue" /\ Alive(sysfs, fd) => ~Busy(sysfs, mounts, swaps, fd.name)

(* While a live write has the target open, no swap area is active and      *)
(* every mount whose number sysfs resolves is read-only, unless another    *)
(* process enabled swap or mounted something after diskforge last looked   *)
(* (execute.go, prepareLive; system.go, RemountReadOnly).                  *)
LiveQuiesced ==
  pc \in Opened /\ req.mode = "live" =>
    /\ "swap" \notin stale => swaps = <<>>
    /\ "mount" \notin stale => BlockMountsReadOnly(sysfs, mounts)

(* The machine is rebooted only by a live write that asked for it, and     *)
(* only after the complete image is durable: SysRq-b does not wait for     *)
(* anything (execute.go, rebootLive).                                      *)
RebootAfterDurable ==
  rebooted => req.mode = "live" /\ req.reboot /\ Len(dest) = req.expected /\ durable = dest

(* The target is open only after every gate that destroys nothing has      *)
(* passed in this very call: the source is held and matches the digest and *)
(* the inspected size, the token matches, and in live mode the reboot was  *)
(* approved and the remount triggered (execute.go, Execute: "applies every *)
(* non-destructive gate before opening the target").                       *)
GatesBeforeOpen ==
  fd.open =>
    /\ req.op = "write"
    /\ src # NoInode /\ ver.sha = req.sha /\ ver.size = insp.compressed
    /\ req.token = insp.token
    /\ req.mode = "live" => req.reboot /\ remounting

(* Whatever way a call ends, it leaves no descriptor of the target or of   *)
(* the source open (execute.go, Prepare and Execute; diskforge.go, Write). *)
DescriptorsReleased == pc = "idle" => ~fd.open /\ src = NoInode
=============================================================================
