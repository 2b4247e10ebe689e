----------------------------- MODULE MCExecute -----------------------------
(* Small machines for Execute.  Other processes make at most MaxMoves      *)
(* moves, cancellation among them.  At first the device node is right.      *)
EXTENDS Execute

CONSTANTS MaxMoves, Images, StartImage

VARIABLE moves
allVars == <<vars, moves>>

\* A toy decoder: after the header, every chunk expands to two.
MCZOut(s) == IF s = <<>> THEN <<>>
             ELSE [k \in 1 .. 2 * (Len(s) - 1) |-> s[1 + ((k + 1) \div 2)]]
MCZFault(s, eof) == eof /\ Len(s) < 2

\* Hardware: A the root disk, B the disk the operator means, C another disk
\* of the same capacity, D a clone of B without distinguishing marks, S a
\* disk that is too small; the rest are partitions and a mapping.
MCInst == {"A", "A1", "B", "B1", "C", "D", "S", "M"}
hw(serial, wwn, sectors) == [serial |-> serial, wwn |-> wwn, sectors |-> sectors]
MCIdent == [i \in MCInst |->
  CASE i = "B" -> hw("s1", "w1", 2) [] i = "C" -> hw("s2", "w1", 2)
    [] i = "D" -> hw("s1", "w1", 2) [] i = "S" -> hw("s1", "w1", 1)
    [] OTHER -> hw("", "", 3)]

whole(inst, num) == [inst |-> inst, num |-> num, parent |-> NoDevice, slaves |-> {}]
part(inst, num, disk) == [inst |-> inst, num |-> num, parent |-> disk, slaves |-> {}]
mapping(inst, num, below) == [inst |-> inst, num |-> num, parent |-> NoDevice, slaves |-> below]

root   == [vda |-> whole("A", 1)]
blank  == [vda |-> whole("A", 1), vdb |-> whole("B", 2)]
parted == [vda |-> whole("A", 1), vdb |-> whole("B", 2), vdb1 |-> part("B1", 3, "vdb")]
mapped == [vda |-> whole("A", 1), vdb |-> whole("B", 2), vdb1 |-> part("B1", 3, "vdb"),
           dm |-> mapping("M", 4, {"vdb1"})]
other  == [vda |-> whole("A", 1), vdb |-> whole("C", 2)]
twin   == [vda |-> whole("A", 1), vdb |-> whole("D", 2)]
small  == [vda |-> whole("A", 1), vdb |-> whole("S", 2)]
moved  == [vda |-> whole("A", 1), vdb |-> whole("C", 5), vdc |-> whole("B", 2)]

HotplugTopologies == {root, blank, other, twin, small, moved}
UseTopologies     == {blank, parted, mapped}
RescueTopologies  == HotplugTopologies \union UseTopologies
StillTopologies   == {blank}

rootDisk  == [vda |-> whole("A", 1), vda1 |-> part("A1", 6, "vda")]
LiveTopologies == {rootDisk}

mount(num, on, point, fs) ==
  [num |-> num, on |-> on, point |-> point, fs |-> fs, mountRO |-> FALSE, superRO |-> FALSE]
tmp == mount(0, NoDevice, <<"run">>, "tmpfs")
RestMounts == {<<mount(1, "vda", <<>>, "ext4"), tmp>>}
UseMounts  == RestMounts \union
  {<<mount(1, "vda", <<>>, "ext4"), tmp, mount(3, "vdb1", <<"mnt">>, "ext4")>>,
   <<mount(1, "vda", <<>>, "ext4"), tmp, mount(0, "vdb", <<"mnt">>, "btrfs")>>,
   <<mount(1, "vda", <<>>, "ext4"), mount(2, "vdb", <<"run">>, "ext4")>>}
LiveMounts ==
  {<<mount(6, "vda1", <<>>, "ext4"), tmp>>,
   <<mount(6, "vda1", <<>>, "ext4"), tmp, mount(6, "vda1", <<"home">>, "ext4")>>,
   <<mount(6, "vda1", <<>>, "ext4")>>}
OtherDisk == {[vda |-> whole("A", 1), vda1 |-> part("A1", 6, "vda"), vdb |-> whole("B", 2)]}
AnonymousMounts ==
  {<<mount(6, "vda1", <<>>, "ext4"), tmp, mount(0, "vdb", <<"home">>, "btrfs")>>}
StackedMounts ==
  {<<mount(6, "vda1", <<>>, "ext4"), tmp, mount(6, "vda1", <<"run">>, "ext4")>>}

swapOn(d) == [kind |-> "partition", dev |-> d, path |-> <<>>, on |-> d]
swapFile  == [kind |-> "file", dev |-> NoDevice, path |-> <<"swap">>, on |-> NoDevice]
NoSwaps   == {<<>>}
UseSwaps  == {<<>>, <<swapOn("vdb1")>>}
LiveSwaps == {<<>>, <<swapFile>>, <<swapOn("vda1"), swapFile>>}

block(num)    == [kind |-> "block", num |-> num]
RightNode     == {block(2)}
HotplugNodes  == {block(2), block(5), block(1), [kind |-> "other", num |-> 0]}
LiveNodes     == {block(1)}

Root     == {[euid |-> 0, memory |-> 4, sysrq |-> TRUE]}
AnyHosts == Root \union {[euid |-> 1000, memory |-> 4, sysrq |-> TRUE],
                         [euid |-> 0, memory |-> 3, sysrq |-> TRUE],
                         [euid |-> 0, memory |-> 4, sysrq |-> FALSE]}

request(op, mode, sha, expected, reboot) ==
  [op |-> op, mode |-> mode, paths |-> "canonical", sha |-> sha, expected |-> expected,
   reboot |-> reboot]
raw  == <<"a", "b">>
zstd == <<"Z", "b">>
RescueRequests == {request(op, "rescue", raw, 2, FALSE) : op \in {"inspect", "write"}}
LiveRequests   ==
  {request("inspect", "live", raw, 2, FALSE), request("write", "live", raw, 2, TRUE),
   request("write", "live", raw, 2, FALSE), request("dry", "live", raw, 2, FALSE)}
CommandRequests ==
  {request(op, "rescue", raw, n, FALSE) : op \in {"inspect", "write"}, n \in {1, 2}}
  \union {request(op, "rescue", zstd, 2, FALSE) : op \in {"dry", "write"}}
  \union
  {request("write", "other", raw, 2, FALSE), request("write", "rescue", <<"b">>, 2, FALSE),
   request("inspect", "rescue", raw, 0, FALSE), request("write", "rescue", raw, 2, TRUE)}
  \union
  {[request("write", "rescue", raw, 2, FALSE) EXCEPT !.paths = p] : p \in {"target", "image"}}

MCDigests   == {raw, zstd}
MCImagePath == <<"run", "img">>
MCStart     == [i1 |-> raw, i2 |-> zstd]

MCInit ==
  /\ Init /\ moves = 0
  /\ TargetName \in DOMAIN sysfs /\ node = block(sysfs[TargetName].num)
  /\ content = StartImage /\ path = "i1"

Disturb ==
  /\ moves < MaxMoves /\ moves' = moves + 1
  /\ \/ \E sys \in Topologies \ {sysfs} : Replug(sys)
     \/ \E mts \in MountTables \ {mounts} : ChangeMounts(mts)
     \/ \E sws \in SwapTables \ {swaps} : ChangeSwaps(sws)
     \/ \E n \in Nodes \ {node} : ChangeNode(n)
     \/ \E i \in Images, data \in {raw, zstd, <<"a">>} : ChangeImage(i, data)

CancelMove == moves < MaxMoves /\ moves' = moves + 1 /\ CancelContext

Stopped == pc = "idle" /\ (calls = MaxCalls \/ rebooted) /\ UNCHANGED allVars

MCNext ==
  \/ (Calls \/ Program \/ KernelRemount) /\ UNCHANGED moves
  \/ Disturb \/ CancelMove \/ Stopped

MCSpec == MCInit /\ [][MCNext]_allVars /\ WF_allVars(Program /\ UNCHANGED moves)

\* The disk the operator means is in its place and idle at first.
RescueInit == MCInit /\ sysfs = blank /\ mounts \in RestMounts /\ swaps = <<>>
RescueSpec == RescueInit /\ [][MCNext]_allVars
=============================================================================
