------------------------------ MODULE Observer ------------------------------
(***************************************************************************)
(* What internal/linux/observer.go computes from one snapshot of sysfs and *)
(* procfs.  A snapshot of sysfs is a function sys from the registered      *)
(* kernel names to entries                                                 *)
(*    [inst   |-> the piece of hardware (or mapping) behind the name,      *)
(*     num    |-> its major:minor number,                                  *)
(*     parent |-> the disk it is a partition of, or NoDevice,              *)
(*     slaves |-> the devices below it (device mapper, md)].               *)
(* Serial, WWN and capacity belong to the hardware: Ident[inst].           *)
(* A mount table is the sequence of mountinfo records                      *)
(*    [num |-> major:minor, point |-> mount point as a sequence of path    *)
(*     components, fs |-> filesystem type, mountRO, superRO |-> whether    *)
(*     the mount options, the superblock options, contain "ro"].           *)
(* A swap table is the sequence of /proc/swaps records                     *)
(*    [kind |-> type, dev |-> last component of the source, path |-> the   *)
(*     source as a path].                                                  *)
(* Operators come in pairs: FooOK (no error is returned) and Foo (the      *)
(* value returned then) on one snapshot; Observation splits a query into   *)
(* its reads, and Execute splits Target.                                   *)
(***************************************************************************)
EXTENDS Integers, Sequences, FiniteSets

CONSTANTS Device,        \* kernel names
          NoDevice,
          Mapped,        \* the names that start with "dm-"
          Inst,
          Text,          \* serials and WWNs, "" when sysfs has none
          Ident,         \* [Inst -> [serial, wwn, sectors]]
          SectorBytes,   \* 512
          MaxInt64       \* 2^63 - 1

ASSUME DeviceAssumption == NoDevice \notin Device /\ Mapped \subseteq Device
ASSUME IdentAssumption == Ident \in [Inst -> [serial : Text, wwn : Text, sectors : Nat]]
ASSUME SectorAssumption == SectorBytes \in Nat \ {0} /\ MaxInt64 \in Nat

Entry == [inst : Inst, num : Nat \ {0}, parent : Device \union {NoDevice}, slaves : SUBSET Device]

\* The snapshots the kernel can show: one name and one number per device.
IsSysfs(sys) ==
  /\ DOMAIN sys \subseteq Device
  /\ \A d \in DOMAIN sys : sys[d] \in Entry
  /\ \A d, e \in DOMAIN sys : sys[d].num = sys[e].num \/ sys[d].inst = sys[e].inst => d = e

\* Moreover a partition lies in the directory of a registered whole disk.
WellFormed(sys) ==
  /\ IsSysfs(sys)
  /\ \A p \in DOMAIN sys : sys[p].parent # NoDevice =>
       /\ sys[p].slaves = {}
       /\ sys[p].parent \in DOMAIN sys /\ sys[sys[p].parent].parent = NoDevice

----------------------------------------------------------------------------
(* Block-device relations.                                                 *)

blockPathOK(sys, name) == name \in DOMAIN sys

partitionChildren(sys, name) == {p \in DOMAIN sys : sys[p].parent = name}

\* Mutant: the disk of a partition is not visited.
Below_SlavesOnly(sys, name) == IF name \in DOMAIN sys THEN sys[name].slaves ELSE {}

\* The devices walkRelated visits next from a device: the disk it is a
\* partition of, and its slaves.
Below(sys, name) ==
  IF name \in DOMAIN sys
  THEN sys[name].slaves \union ({sys[name].parent} \ {NoDevice})
  ELSE {}

Closed(sys, S) == \A d \in S : Below(sys, d) \subseteq S

\* walkRelated with its seen map visits the least set that holds the start
\* and its partitions and is closed under Below.
walkRelated(sys, seeds) ==
  {d \in Device : \A S \in SUBSET Device : seeds \subseteq S /\ Closed(sys, S) => d \in S}

related(sys, start) == walkRelated(sys, {start} \union partitionChildren(sys, start))

relatedOK(sys, start) == \A d \in related(sys, start) : blockPathOK(sys, d)

IsPartition(sys, name) == sys[name].parent # NoDevice

----------------------------------------------------------------------------
(* Target: the identity shown to the operator.  CanonicalPath is           *)
(* /dev/<kname>, so kname stands for both.                                 *)

Target(sys, name) ==
  LET hw == Ident[sys[name].inst] IN
    [kname       |-> name,
     serial      |-> hw.serial,
     wwn         |-> hw.wwn,
     size        |-> hw.sectors * SectorBytes,
     partition   |-> IsPartition(sys, name),
     descendants |-> related(sys, name)]

\* Target reads its fields one after the other.  An error of the last three
\* reads is not reported: readOptional returns the empty text, and a failed
\* stat means "not a partition".
TargetFields == <<"size", "descendants", "partition", "serial", "wwn">>
Optional     == {"partition", "serial", "wwn"}

NoText   == ""
NoTarget == [kname |-> NoDevice, serial |-> NoText, wwn |-> NoText, size |-> 0,
             partition |-> FALSE, descendants |-> {}]

FieldOK(sys, name, f) ==
  /\ blockPathOK(sys, name)
  /\ f = "size" => Ident[sys[name].inst].sectors \in 0 .. (MaxInt64 \div SectorBytes)
  /\ f = "descendants" => relatedOK(sys, name)

deviceNumber(sys, name) == sys[name].num

----------------------------------------------------------------------------
(* Mounts, swap areas, the root disk and the source.                       *)

\* At most one registered name has a given number; none has the anonymous
\* number of a filesystem that is not mounted from one block device.
nameByDeviceNumber(sys, num) == {n \in DOMAIN sys : sys[n].num = num}

readOnly(m) == m.mountRO \/ m.superRO

expand(sys, names) == UNION {related(sys, n) : n \in names}

MountNames(sys, mounts) ==
  UNION {nameByDeviceNumber(sys, mounts[i].num) : i \in DOMAIN mounts}

MountedDevicesOK(sys, mounts) == \A n \in MountNames(sys, mounts) : relatedOK(sys, n)
MountedDevices(sys, mounts) == expand(sys, MountNames(sys, mounts))

BlockMountsReadOnly(sys, mounts) ==
  LET block == {i \in DOMAIN mounts : nameByDeviceNumber(sys, mounts[i].num) # {}} IN
    block # {} /\ \A i \in block : readOnly(mounts[i])

pathWithin(path, point) ==
  Len(point) <= Len(path) /\ SubSeq(path, 1, Len(point)) = point

Covering(mounts, path) == {i \in DOMAIN mounts : pathWithin(path, mounts[i].point)}

\* The deepest mount point that contains the path; the first such record.
selected(mounts, path) ==
  CHOOSE i \in Covering(mounts, path) :
    \A j \in Covering(mounts, path) :
      \/ Len(mounts[j].point) < Len(mounts[i].point)
      \/ Len(mounts[j].point) = Len(mounts[i].point) /\ i <= j

\* What a process sees at the path: of the mounts that contain it the last.
visible(mounts, path) ==
  CHOOSE i \in Covering(mounts, path) : \A j \in Covering(mounts, path) : j <= i

SourceNames(sys, mounts, path) ==
  nameByDeviceNumber(sys, mounts[selected(mounts, path)].num)

SourceOK(sys, mounts, path) ==
  /\ Covering(mounts, path) # {}
  /\ \A n \in SourceNames(sys, mounts, path) : relatedOK(sys, n)

Source(sys, mounts, path) ==
  [fs |-> mounts[selected(mounts, path)].fs,
   backing |-> expand(sys, SourceNames(sys, mounts, path))]

SwapRecordOK(sys, mounts, s) ==
  \/ s.kind = "partition" /\ relatedOK(sys, s.dev)
  \/ /\ s.kind = "file"
     /\ SourceOK(sys, mounts, s.path)
     /\ Source(sys, mounts, s.path).backing # {}

SwapDevicesOK(sys, mounts, swaps) ==
  \A i \in DOMAIN swaps : SwapRecordOK(sys, mounts, swaps[i])

SwapDevices(sys, mounts, swaps) ==
  UNION {IF swaps[i].kind = "partition"
         THEN related(sys, swaps[i].dev)
         ELSE Source(sys, mounts, swaps[i].path).backing : i \in DOMAIN swaps}

RootNames(sys, mounts) ==
  LET roots == {i \in DOMAIN mounts : mounts[i].point = <<>>}
  IN  UNION {nameByDeviceNumber(sys, mounts[i].num) :
               i \in {r \in roots : \A s \in roots : r <= s}}

\* The whole disks below the root device.
physicalRootDisk(sys, names) ==
  {c \in expand(sys, names) \ Mapped : ~IsPartition(sys, c) /\ sys[c].slaves = {}}

RootDiskOK(sys, mounts) ==
  LET names == RootNames(sys, mounts) IN
    /\ names # {}
    /\ \A n \in names : relatedOK(sys, n)
    /\ Cardinality(physicalRootDisk(sys, names)) = 1

RootDisk(sys, mounts) ==
  CHOOSE d \in physicalRootDisk(sys, RootNames(sys, mounts)) : TRUE
=============================================================================
