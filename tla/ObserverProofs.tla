--------------------------- MODULE ObserverProofs ---------------------------
(***************************************************************************)
(* For every set of device names and every device graph: the walk visits   *)
(* exactly the related devices, and comparing names finds shared storage.  *)
(* For every machine, however it changes between two reads: what the       *)
(* observations report, and what they amount to while nothing changes.     *)
(***************************************************************************)
EXTENDS RelatedWalk, Observation, FiniteSetTheorems, TLAPS

\* Every leaf that names no prover: SMT, then Zenon.
USE SMTT(30), ZenonT(30)

toVisit == {d \in Device : \E inc \in BOOLEAN : <<d, inc>> \in pending}

\* The inductive invariant: what is seen or pending is related; everything
\* below a device that was seen is seen or pending; nothing is left out
\* because the start was first visited without its partitions.
WalkInv ==
  /\ WalkTypeOK
  /\ seen \union toVisit \subseteq related(sys, start)
  /\ start \notin seen => seen = {} /\ pending = {<<start, TRUE>>}
  /\ start \in seen => partitionChildren(sys, start) \subseteq seen \union toVisit
  /\ \A d \in Device : <<d, TRUE>> \in pending => d = start
  /\ \A d \in seen : Below(sys, d) \subseteq seen \union toVisit
  /\ err <=> \E d \in seen : d \notin DOMAIN sys

----------------------------------------------------------------------------
(* Everything below a device is a device: sysfs entries are well formed    *)
(* (observer.go, walkRelated).                                             *)
LEMMA BelowType ==
  ASSUME NEW s, IsSysfs(s), NEW d PROVE Below(s, d) \subseteq Device /\ partitionChildren(s, d) \subseteq Device
BY DEF IsSysfs, Below, Entry, partitionChildren

(* related holds its start and the start's partitions, is closed under     *)
(* Below, and is contained in every set with these two properties          *)
(* (observer.go, related).                                                 *)
LEMMA RelatedIsLeast ==
  ASSUME NEW s, IsSysfs(s), NEW n \in Device
  PROVE  /\ related(s, n) \subseteq Device
         /\ n \in related(s, n)
         /\ partitionChildren(s, n) \subseteq related(s, n)
         /\ \A d \in related(s, n) : Below(s, d) \subseteq related(s, n)
         /\ \A S \in SUBSET Device :
              n \in S /\ partitionChildren(s, n) \subseteq S /\ Closed(s, S) => related(s, n) \subseteq S
<1> DEFINE seeds == {n} \union partitionChildren(s, n)
<1>1. seeds \subseteq Device
  BY BelowType
<1>2. related(s, n) = {d \in Device : \A S \in SUBSET Device : seeds \subseteq S /\ Closed(s, S) => d \in S}
  BY DEF related, walkRelated
<1>3. seeds \subseteq related(s, n)
  BY <1>1, <1>2
<1>4. ASSUME NEW d \in related(s, n) PROVE Below(s, d) \subseteq related(s, n)
  <2>1. ASSUME NEW e \in Below(s, d) PROVE e \in related(s, n)
    <3>1. e \in Device
      BY <2>1, BelowType
    <3>2. ASSUME NEW S \in SUBSET Device, seeds \subseteq S, Closed(s, S) PROVE e \in S
      BY <1>2, <1>4, <2>1, <3>2 DEF Closed
    <3> QED
      BY <1>2, <3>1, <3>2
  <2> QED
    BY <2>1
<1>5. ASSUME NEW S \in SUBSET Device, n \in S, partitionChildren(s, n) \subseteq S, Closed(s, S)
      PROVE  related(s, n) \subseteq S
  BY <1>2, <1>5
<1> QED
  BY <1>2, <1>3, <1>4, <1>5

----------------------------------------------------------------------------
(* The walk starts in the inductive invariant (observer.go, related).      *)
LEMMA WalkInitially == WalkInit => WalkInv
<1> SUFFICES ASSUME WalkInit PROVE WalkInv
  OBVIOUS
<1>1. IsSysfs(sys) /\ start \in Device
  BY DEF WalkInit, WellFormed
<1>2. toVisit = {start}
  BY <1>1, Zenon DEF toVisit, WalkInit
<1>3. start \in related(sys, start)
  BY <1>1, RelatedIsLeast
<1>4. \A d \in Device : <<d, TRUE>> \in pending => d = start
  BY DEF WalkInit
<1>5. err = FALSE /\ seen = {} /\ pending = {<<start, TRUE>>}
  BY DEF WalkInit
<1>6. WalkTypeOK
  <2>1. <<start, TRUE>> \in Device \X BOOLEAN
    BY <1>1, Zenon
  <2>2. pending \subseteq Device \X BOOLEAN
    BY <1>5, <2>1
  <2> QED
    BY <1>1, <1>5, <2>2, Zenon DEF WalkInit, WalkTypeOK
<1>7. err <=> \E d \in seen : d \notin DOMAIN sys
  BY <1>5
<1>8. seen \union toVisit \subseteq related(sys, start)
  BY <1>2, <1>3, <1>5
<1> QED
  BY <1>4, <1>5, <1>6, <1>7, <1>8, Zenon DEF WalkInv

(* Every visit keeps the inductive invariant (observer.go, walkRelated).   *)
LEMMA VisitKeeps ==
  ASSUME WalkInv, NEW name \in Device, NEW inc \in BOOLEAN, Visit(name, inc) PROVE WalkInv'
<1> DEFINE children == IF inc THEN partitionChildren(sys, name) ELSE {}
<1>1. IsSysfs(sys) /\ start \in Device /\ WalkTypeOK
  BY DEF WalkInv, WalkTypeOK, WellFormed
<1>2. sys' = sys /\ start' = start /\ <<name, inc>> \in pending /\ ~err
  BY DEF Visit
<1>3. related(sys, start)' = related(sys, start)
  BY <1>2
<1>4. name \in toVisit /\ name \in related(sys, start)
  BY <1>2 DEF toVisit, WalkInv
<1>5. inc => name = start
  BY <1>2, Zenon DEF WalkInv
<1>6. Below(sys, name) \union children \subseteq Device
  BY <1>1, BelowType
<1>7. Below(sys, name) \union children \subseteq related(sys, start)
  BY <1>1, <1>4, <1>5, RelatedIsLeast
<1>8. CASE name \in seen
  <2>1. seen' = seen /\ err' = err /\ pending' = pending \ {<<name, inc>>}
    BY <1>8, Zenon DEF Visit
  <2>2. toVisit' \subseteq toVisit /\ toVisit \subseteq toVisit' \union {name}
    BY <2>1 DEF toVisit
  <2>3. (seen \union toVisit)' = seen \union toVisit
    BY <1>8, <2>1, <2>2, <1>4
  <2>4. start \in seen
    BY <1>8, Zenon DEF WalkInv
  <2> QED
    BY <1>1, <1>2, <1>3, <2>1, <2>3, <2>4, Zenon DEF WalkInv, WalkTypeOK
<1>9. CASE name \notin seen
  <2>1. /\ seen' = seen \union {name}
        /\ err' = (name \notin DOMAIN sys)
        /\ pending' = (pending \ {<<name, inc>>}) \union ((Below(sys, name) \union children) \X {FALSE})
    BY <1>9, Zenon DEF Visit, blockPathOK
  <2>2. /\ toVisit' \subseteq toVisit \union Below(sys, name) \union children
        /\ toVisit \subseteq toVisit' \union {name}
        /\ Below(sys, name) \union children \subseteq toVisit'
    BY <2>1, <1>6, Zenon DEF toVisit
  <2>3. (seen \union toVisit)' = seen \union toVisit \union Below(sys, name) \union children
    BY <2>1, <2>2, <1>4
  <2>4. WalkTypeOK'
    BY <1>1, <1>2, <1>6, <2>1, ZenonT(40) DEF WalkTypeOK, WellFormed
  <2>0. start \notin seen => name = start /\ inc = TRUE
    <3>1. start \notin seen => <<name, inc>> = <<start, TRUE>>
      BY <1>2, Zenon DEF WalkInv
    <3> QED
      BY <3>1, Zenon
  <2>5. start \in seen'
    BY <2>0, <2>1
  <2>6. partitionChildren(sys, start) \subseteq (seen \union toVisit)'
    <3>1. CASE start \in seen
      BY <3>1, <2>3 DEF WalkInv
    <3>2. CASE start \notin seen
      BY <3>2, <2>0, <2>3
    <3> QED
      BY <3>1, <3>2
  <2>7. \A d \in Device : <<d, TRUE>> \in pending' => d = start
    BY <2>1, Zenon DEF WalkInv
  <2>8. \A d \in seen' : Below(sys, d) \subseteq (seen \union toVisit)'
    BY <2>1, <2>3 DEF WalkInv
  <2>9. err' <=> \E d \in seen' : d \notin DOMAIN sys
    BY <1>2, <2>1, Zenon DEF WalkInv
  <2>10. (seen \union toVisit)' \subseteq related(sys, start)
    BY <1>7, <2>3 DEF WalkInv
  <2> QED
    BY <1>2, <1>3, <2>4, <2>5, <2>6, <2>7, <2>8, <2>9, <2>10, Zenon DEF WalkInv
<1> QED
  BY <1>8, <1>9

(* Hence it holds all the time (observer.go, walkRelated).                 *)
LEMMA WalkInvariant == WalkSpec => []WalkInv
<1>1. ASSUME WalkInv, UNCHANGED walkVars PROVE WalkInv'
  <2>1. sys' = sys /\ start' = start /\ pending' = pending /\ seen' = seen /\ err' = err
    BY <1>1 DEF walkVars
  <2>2. toVisit' = toVisit
    BY <2>1 DEF toVisit
  <2>3. WalkTypeOK'
    BY <1>1, <2>1, Zenon DEF WalkInv, WalkTypeOK
  <2> QED
    BY <1>1, <2>1, <2>2, <2>3, Zenon DEF WalkInv
<1>2. WalkInv /\ [WalkNext]_walkVars => WalkInv'
  BY <1>1, VisitKeeps DEF WalkNext
<1> QED
  BY WalkInitially, <1>2, PTL DEF WalkSpec

(* The type invariant of the walk holds for every device graph             *)
(* (observer.go, walkRelated).                                             *)
THEOREM WalkTypeCorrect == WalkSpec => []WalkTypeOK
<1>1. WalkInv => WalkTypeOK
  BY DEF WalkInv
<1> QED
  BY WalkInvariant, <1>1, PTL

(* Whatever the device graph, cycles and missing devices included, the     *)
(* recursion with its seen map returns exactly the related devices, or an  *)
(* error when one of them is missing (observer.go, walkRelated).           *)
THEOREM WalkIsCorrect == WalkSpec => []WalkComputesRelated
<1>1. WalkInv => WalkComputesRelated
  <2> SUFFICES ASSUME WalkInv, Done PROVE (err <=> ~relatedOK(sys, start)) /\ (~err => seen = related(sys, start))
    BY DEF WalkComputesRelated
  <2>1. IsSysfs(sys) /\ start \in Device /\ seen \subseteq Device
    BY DEF WalkInv, WalkTypeOK, WellFormed
  <2>2. CASE err
    BY <2>2 DEF WalkInv, relatedOK, blockPathOK
  <2>3. CASE ~err
    <3>1. pending = {} /\ toVisit = {}
      BY <2>3, Zenon DEF Done, toVisit
    <3>2. start \in seen
      BY <3>1, Zenon DEF WalkInv
    <3>3. partitionChildren(sys, start) \subseteq seen /\ Closed(sys, seen)
      BY <3>1, <3>2 DEF WalkInv, Closed
    <3>4. seen = related(sys, start)
      <4>1. seen \in SUBSET Device /\ seen \subseteq related(sys, start)
        BY <2>1, Zenon DEF WalkInv
      <4>2. related(sys, start) \subseteq seen
        BY <2>1, <3>2, <3>3, <4>1, RelatedIsLeast, Zenon
      <4> QED
        BY <4>1, <4>2, Zenon
    <3> QED
      BY <2>3, <3>4 DEF WalkInv, relatedOK, blockPathOK
  <2> QED
    BY <2>2, <2>3
<1> QED
  BY WalkInvariant, <1>1, PTL

----------------------------------------------------------------------------
(* Everything a device is mapped onto is related to it (observer.go,       *)
(* walkRelated follows the slaves).                                        *)
LEMMA MappedIsRelated ==
  ASSUME NEW s, IsSysfs(s), NEW n \in Device PROVE MappedOnto(s, n) \subseteq related(s, n)
<1>1. related(s, n) \in SUBSET Device /\ n \in related(s, n)
  BY RelatedIsLeast
<1>2. \A e \in related(s, n) \intersect DOMAIN s : s[e].slaves \subseteq related(s, n)
  BY RelatedIsLeast DEF Below
<1> QED
  BY <1>1, <1>2 DEF MappedOnto

(* The disk of a related partition is related (observer.go, walkRelated    *)
(* visits partitionParent).                                                *)
LEMMA DiskIsRelated ==
  ASSUME NEW s, IsSysfs(s), NEW n \in Device, NEW d \in Device,
         NEW p \in partitionChildren(s, d), p \in related(s, n)
  PROVE  d \in related(s, n)
<1>1. d \in Below(s, p)
  BY DeviceAssumption DEF partitionChildren, Below
<1> QED
  BY <1>1, RelatedIsLeast

(* For every device graph the name comparison of the policy finds storage  *)
(* shared with the target through partitions and mappings                  *)
(* (policy/inspect.go, intersects).                                        *)
THEOREM NamesAreSound == WalkSpec => []NamesCoverStorage
<1>1. WalkTypeOK => NamesCoverStorage
  <2> SUFFICES ASSUME WalkTypeOK, NEW m \in Device,
                      Footprint(sys, start) \intersect Footprint(sys, m) # {}
               PROVE  intersects(related(sys, m), deviceNames(Target(sys, start)))
    BY DEF NamesCoverStorage
  <2>1. IsSysfs(sys) /\ start \in Device
    BY DEF WalkTypeOK, WellFormed
  <2>2. related(sys, start) \subseteq deviceNames(Target(sys, start))
    BY DEF deviceNames, Target
  <2>3. PICK d, e, x :
          /\ d \in MappedOnto(sys, start) /\ e \in MappedOnto(sys, m)
          /\ x = d \/ x \in partitionChildren(sys, d)
          /\ x = e \/ x \in partitionChildren(sys, e)
    BY DEF Footprint
  <2>4. d \in related(sys, start) /\ e \in related(sys, m) /\ d \in Device /\ e \in Device
    BY <2>1, <2>3, MappedIsRelated, RelatedIsLeast
  <2>5. \E y : y \in related(sys, start) /\ y \in related(sys, m)
    <3>1. CASE x = d /\ x = e
      BY <3>1, <2>4
    <3>2. CASE x = d /\ x \in partitionChildren(sys, e)
      BY <3>2, <2>1, <2>4, DiskIsRelated
    <3>3. CASE x \in partitionChildren(sys, d) /\ x = e
      BY <3>3, <2>1, <2>4, DiskIsRelated
    <3>4. CASE x \in partitionChildren(sys, d) /\ x \in partitionChildren(sys, e)
      BY <3>4, <2>4 DEF partitionChildren
    <3> QED
      BY <2>3, <3>1, <3>2, <3>3, <3>4
  <2> QED
    BY <2>2, <2>5 DEF intersects
<1> QED
  BY <1>1, WalkTypeCorrect, PTL
----------------------------------------------------------------------------
(* Observations on a machine that changes.                                 *)

Kids(d)    == partitionChildren(sysfs, d) \intersect stable
DiskOf(d)  == {sysfs[d].parent} \ {NoDevice}
Bare(c)    == ~IsPartition(sysfs, c) /\ sysfs[c].slaves = {}
OnStack(e) == \E i \in DOMAIN stack : stack[i].name = e

AfterSlaves == {"children", "marks", "leave"}
AfterParent == {"slaves"} \union AfterSlaves
FrameType ==
  [name : Device, inc : BOOLEAN, at : {"enter", "list", "parent"} \union AfterParent,
   look : SUBSET Device, todo : SUBSET Device]
CandType == [left : SUBSET Device, name : Device \union {NoDevice}, part : BOOLEAN]

\* The stack: only the outermost call looks for partitions, and none walks
\* a device that another one is walking.
FrameInv ==
  /\ stack \in Seq(FrameType)
  /\ \A i \in DOMAIN stack :
       /\ stack[i].name \in visited /\ (stack[i].inc <=> i = 1)
       /\ stack[i].at \in {"children", "marks"} => stack[i].inc
  /\ NoDeviceTwice
  /\ at \notin {"walk", "failed"} => stack = <<>>

\* What a frame has still to do for a device that does not change.
Expects(f) ==
  f.name \in stable =>
    /\ f.at = "parent" => DiskOf(f.name) \subseteq f.look
    /\ f.at \in AfterParent => DiskOf(f.name) \subseteq visited \union f.todo
    /\ f.at \in AfterSlaves => sysfs[f.name].slaves \subseteq visited \union f.todo
    /\ f.inc /\ f.at = "marks" => Kids(f.name) \subseteq visited \union f.look \union f.todo
    /\ f.inc /\ f.at = "leave" => Kids(f.name) \subseteq visited \union f.todo

\* What a frame may do at most while nothing changes.
Exact(f) ==
  still =>
    /\ f.at # "enter" => f.name \in DOMAIN sysfs
    /\ \A n \in f.todo : n \in Below(sysfs, f.name) \/ (f.inc /\ n \in partitionChildren(sysfs, f.name))

\* The devices the code resolves a record to, Source through the mount it
\* selects; a swap partition names its device, there or not.
Names(r) ==
  IF OfMounts THEN nameByDeviceNumber(sysfs, r.num)
  ELSE IF r.kind = "partition" THEN {r.dev}
  ELSE {d \in DOMAIN sysfs : /\ r.kind = "file"
                             /\ \A t \in tables : /\ Covering(t, r.path) # {}
                                                   /\ t[selected(t, r.path)].num = sysfs[d].num}
Named   == UNION {Names(r) : r \in Records}
Area(r) == ~OfMounts /\ r.kind = "partition"

\* What makes a record an error of its own.
Missing(r) ==
  ~OfMounts /\ (r.kind \notin {"partition", "file"} \/ (r.kind = "file" /\ Covering(mounts, r.path) = {}))
Backless(r) == query.kind = "swaps" /\ r.kind = "file" /\ Names(r) = {}

\* The walk began at s; when it is over it has seen what hangs on s.
Begun(s)   == s \in visited /\ (stack # <<>> => stack[1].name = s)
Started(d) == Begun(d) /\ (stack = <<>> /\ d \in stable => Kids(d) \subseteq visited)

Walked == at = "walk" \/ (query.kind = "root" /\ at \in {"classify", "done"})

WalkedInv ==
  Walked =>
    /\ \A i \in DOMAIN stack : Expects(stack[i]) /\ Exact(stack[i])
    /\ \A e \in visited \intersect stable : Below(sysfs, e) \subseteq visited \/ OnStack(e)
    /\ still => \A e \in visited : e \in DOMAIN sysfs \/ OnStack(e)
    /\ still => \E s \in Named : Begun(s) /\ visited \subseteq related(sysfs, s)
    /\ IsFiniteSet(visited)

\* A device that a record taken so far is resolved to: it is reported, still
\* to be found, or being walked.
Owed(r, d)  == r \in Records \ recs /\ d \in Names(r) /\ (Area(r) \/ d \in stable)
Reported(d) == d \in result /\ (d \in stable => Kids(d) \subseteq result)
Seeking     == at \in {"list", "scan"}
Sought(d)   == Seeking /\ num = sysfs[d].num
OwedInv ==
  at # "failed" => \A r, d : Owed(r, d) =>
    \/ query.kind # "root" /\ Reported(d)
    \/ ~Area(r) /\ Sought(d)
    \/ Walked /\ Started(d)

\* The record whose number is looked for.
Seeks(r) == ~OfMounts => r.kind = "file"

RecordInv ==
  /\ mounts \in tables
  /\ Seeking => \E r \in Records \ recs : Seeks(r) /\ (still => Names(r) = nameByDeviceNumber(sysfs, num))
  /\ at = "scan" => \A d \in stable : sysfs[d].num = num => d \in names \/ <<d, d>> \in paths
  /\ at = "classify" => query.kind = "root"
  /\ query.kind = "root" => recs = IF at = "record" THEN Records ELSE {}
  /\ at = "done" /\ query.kind # "root" => recs = {}
  /\ still => /\ stable = DOMAIN sysfs /\ tables = {mounts} /\ (OfMounts => query.table = mounts)
              /\ at = "scan" => names \subseteq DOMAIN sysfs
  /\ still /\ at # "failed" => \A r \in Records \ recs :
       ~Missing(r) /\ (Backless(r) => Seeking /\ nameByDeviceNumber(sysfs, num) = {})

\* What mounts and swap areas have given so far.
ResultInv ==
  query.kind # "root" =>
    /\ \A e \in result \intersect stable : Below(sysfs, e) \subseteq result
    /\ still => result \subseteq DOMAIN sysfs /\ result \subseteq expand(sysfs, Named)

\* The disks found so far below the root.
RootInv ==
  query.kind = "root" =>
    /\ at \in {"record", "list", "scan", "walk"} => result = {}
    /\ at = "classify" =>
         /\ \A c \in (visited \intersect stable) \ Mapped :
              c \in cand.left \/ c = cand.name \/ (Bare(c) => c \in result)
         /\ cand.name \in stable => (cand.part <=> IsPartition(sysfs, cand.name))
         /\ cand.left \subseteq visited /\ cand.name \in visited \union {NoDevice}
    /\ at = "done" =>
         /\ \A c \in (visited \intersect stable) \ Mapped : Bare(c) => c \in result
         /\ Cardinality(result) = 1
    /\ result \subseteq visited \ Mapped
    /\ still => \A c \in result : c \in DOMAIN sysfs /\ Bare(c)

\* Why an observation fails while nothing changes.
FailInv ==
  at = "failed" /\ still =>
    \/ \E n \in Named : ~relatedOK(sysfs, n)
    \/ \E r \in Records : Missing(r) \/ Backless(r)
    \/ query.kind = "root" /\ (Named = {} \/ Cardinality(physicalRootDisk(sysfs, Named)) # 1)

\* The inductive invariant.
ObsInv ==
  /\ ObsTypeOK /\ cand \in CandType
  /\ FrameInv /\ WalkedInv /\ OwedInv /\ RecordInv /\ ResultInv /\ RootInv /\ FailInv

----------------------------------------------------------------------------
(* What a snapshot is (the kernel).                                        *)
LEMMA SnapshotFacts ==
  ASSUME ObsTypeOK
  PROVE  /\ IsSysfs(sysfs) /\ DOMAIN sysfs \subseteq Device /\ stable \subseteq DOMAIN sysfs
         /\ \A d \in DOMAIN sysfs : sysfs[d].slaves \subseteq Device /\ DiskOf(d) \subseteq DOMAIN sysfs
         /\ \A d \in DOMAIN sysfs : Below(sysfs, d) = sysfs[d].slaves \union DiskOf(d)
         /\ \A d : partitionChildren(sysfs, d) \subseteq DOMAIN sysfs
         /\ query.kind \in {"mounts", "swaps", "root", "source"}
<1>1. WellFormed(sysfs) /\ stable \subseteq DOMAIN sysfs
  BY SnapshotAssumption, Zenon DEF ObsTypeOK
<1>2. IsSysfs(sysfs) /\ DOMAIN sysfs \subseteq Device
  BY <1>1, Zenon DEF WellFormed, IsSysfs
<1>3. ASSUME NEW d \in DOMAIN sysfs PROVE sysfs[d].slaves \subseteq Device /\ DiskOf(d) \subseteq DOMAIN sysfs
  <2>1. sysfs[d] \in Entry
    BY <1>2, Zenon DEF IsSysfs
  <2>2. sysfs[d].slaves \subseteq Device
    BY <2>1 DEF Entry
  <2>3. DiskOf(d) \subseteq DOMAIN sysfs
    BY <1>1, Zenon DEF WellFormed, DiskOf
  <2> QED
    BY <2>2, <2>3, Zenon
<1>4. \A d \in DOMAIN sysfs : Below(sysfs, d) = sysfs[d].slaves \union DiskOf(d)
  BY Zenon DEF Below, DiskOf
<1>5. \A d : partitionChildren(sysfs, d) \subseteq DOMAIN sysfs
  BY Zenon DEF partitionChildren
<1>6. query.kind \in {"mounts", "swaps", "root", "source"}
  BY DEF ObsTypeOK, Queries
<1> QED
  BY <1>1, <1>2, <1>3, <1>4, <1>5, <1>6, Zenon

(* What a query asks about (observer.go, SwapDevices, RootDisk, Source).   *)
LEMMA QueryFacts ==
  ASSUME ObsTypeOK
  PROVE  /\ OfMounts => query.table \in MountTables
         /\ \A r \in Records : Area(r) => r.dev \in Device
         /\ query.kind = "source" => \E p \in SourcePaths : query.table = <<FileAt(p)>> /\ Records = {FileAt(p)}
         /\ query.kind = "root" => OfMounts /\ \A r, q \in Records : r = q
<1>1. PICK t \in MountTables : query \in Queries(t)
  BY Zenon DEF ObsTypeOK
<1>2. /\ OfMounts => query.table \in MountTables
      /\ query.kind \in {"mounts", "root", "swaps", "source"}
      /\ query.kind = "swaps" => query.table \in SwapTables
      /\ query.kind = "source" => \E p \in SourcePaths : query.table = <<FileAt(p)>>
  BY <1>1 DEF Queries, OfMounts
<1>3. ASSUME query.kind = "source"
      PROVE  \E p \in SourcePaths : query.table = <<FileAt(p)>> /\ Records = {FileAt(p)}
  <2>1. PICK p \in SourcePaths : query.table = <<FileAt(p)>>
    BY <1>2, <1>3, Zenon
  <2> DEFINE f == FileAt(p)
  <2> HIDE DEF f
  <2>2. DOMAIN <<f>> = {1} /\ <<f>>[1] = f
    OBVIOUS
  <2>3. Records = {<<f>>[i] : i \in DOMAIN <<f>>}
    BY <1>3, <2>1, Zenon DEF Records, f
  <2>4. Records = {f}
    BY <2>2, <2>3, Zenon
  <2> QED
    BY <2>1, <2>4, Zenon DEF f
<1>4. ASSUME NEW r \in Records, Area(r) PROVE r.dev \in Device
  <2>1. ~OfMounts /\ r.kind = "partition"
    BY <1>4, Zenon DEF Area
  <2>2. query.kind # "source"
    <3>1. \A p : FileAt(p).kind = "file"
      BY DEF FileAt
    <3> QED
      BY <1>3, <2>1, <3>1, Zenon
  <2>3. query.kind = "swaps"
    BY <1>2, <2>1, <2>2, Zenon DEF OfMounts
  <2>4. PICK i \in DOMAIN query.table : r = query.table[i]
    BY <2>3, Zenon DEF Records
  <2> QED
    BY <1>2, <2>1, <2>3, <2>4, SwapAssumption, Zenon
<1>5. ASSUME query.kind = "root", NEW r \in Records, NEW q \in Records PROVE r = q
  <2> DEFINE T == query.table
             First(j) == T[j].point = <<>> /\ \A k \in DOMAIN T : T[k].point = <<>> => j <= k
  <2>1. PICK i \in DOMAIN T, j \in DOMAIN T : r = T[i] /\ q = T[j] /\ First(i) /\ First(j)
    BY <1>5, Zenon DEF Records, RootRecords
  <2>2. i <= j /\ j <= i
    BY <2>1, Zenon
  <2>3. i \in Nat /\ j \in Nat
    BY <1>2, <1>5, <2>1, MountAssumption DEF OfMounts
  <2>4. i = j
    BY <2>2, <2>3
  <2> QED
    BY <2>1, <2>4, Zenon
<1>6. query.kind = "root" => OfMounts
  BY Zenon DEF OfMounts
<1> QED
  BY <1>2, <1>3, <1>4, <1>5, <1>6, Zenon

(* The devices a record is resolved to are devices (observer.go, expand).  *)
LEMMA NamesType == ASSUME ObsTypeOK, NEW r \in Records PROVE Names(r) \subseteq Device
<1>1. DOMAIN sysfs \subseteq Device /\ (Area(r) => r.dev \in Device)
  BY SnapshotFacts, QueryFacts, Zenon
<1> QED
  BY <1>1, Zenon DEF Names, nameByDeviceNumber, Area
LEMMA NamedType == ASSUME ObsTypeOK PROVE Named \subseteq Device
BY NamesType, Zenon DEF Named

(* What the records are resolved to does not change while the machine does *)
(* not.                                                                    *)
Same ==
  /\ Named' = Named /\ Records' = Records /\ (OfMounts' <=> OfMounts)
  /\ \A r : Names(r)' = Names(r)
  /\ \A r : (Area(r)' <=> Area(r)) /\ (Missing(r)' <=> Missing(r)) /\ (Backless(r)' <=> Backless(r))
LEMMA SameNames == ASSUME query' = query, sysfs' = sysfs, mounts' = mounts, tables' = tables PROVE Same
<1> USE ZenonT(30)
<1>1. Records' = Records /\ (OfMounts' <=> OfMounts)
  BY DEF Records, OfMounts
<1>2. \A r : Names(r)' = Names(r)
  BY <1>1 DEF Names
<1>3. \A r : (Area(r)' <=> Area(r)) /\ (Missing(r)' <=> Missing(r)) /\ (Backless(r)' <=> Backless(r))
  BY <1>1, <1>2 DEF Area, Missing, Backless
<1>4. Named' = Named
  BY <1>1, <1>2 DEF Named
<1> QED
  BY <1>1, <1>2, <1>3, <1>4 DEF Same

(* A step that leaves the search alone keeps what is known of it.          *)
LEMMA RecordKeeps ==
  ASSUME RecordInv, Same,
         UNCHANGED <<query, recs, at, num, names, paths, sysfs, mounts, stable, tables, still>>
  PROVE  RecordInv'
BY ZenonT(60) DEF RecordInv, Same, Seeks, Seeking

(* A call begins in it (observer.go, MountedDevices).                      *)
LEMMA ObsInitially == ASSUME ObsInit PROVE ObsInv
<1>1. PICK s \in Topologies, m \in MountTables : \E q \in Queries(m) : Start(s, m, q)
  BY Zenon DEF ObsInit
<1>0. PICK q \in Queries(m) : Start(s, m, q)
  BY <1>1, Zenon
<1>2. WellFormed(s) /\ DOMAIN s \subseteq Device
  BY SnapshotAssumption, Zenon DEF WellFormed, IsSysfs
<1>3. ObsTypeOK
  <2>1. query \in Queries(m) /\ sysfs = s /\ mounts = m /\ recs = Records /\ tables = {m}
    BY <1>0, Zenon DEF Start
  <2>2. stack = <<>> /\ DOMAIN <<>> = {}
    BY <1>0 DEF Start
  <2> QED
    BY <1>0, <1>2, <2>1, <2>2, Zenon DEF Start, ObsTypeOK
<1>4. cand \in CandType
  BY <1>0 DEF Start, NoCand, CandType
<1>5. FrameInv
  BY <1>0 DEF Start, FrameInv, NoDeviceTwice
<1>7. WalkedInv /\ OwedInv
  BY <1>0, Zenon DEF Start, WalkedInv, Walked, OwedInv, Owed
<1>8. RecordInv /\ ResultInv /\ RootInv /\ FailInv
  <2>1. /\ result = {} /\ at = "record" /\ recs = Records /\ stable = DOMAIN sysfs
        /\ tables = {mounts} /\ query \in Queries(mounts)
    BY <1>0, Zenon DEF Start
  <2>2. OfMounts => query.table = mounts
    BY <2>1 DEF OfMounts, Queries
  <2>3. RecordInv
    BY <2>1, <2>2, Zenon DEF RecordInv, Seeking
  <2> QED
    BY <2>1, <2>3 DEF ResultInv, RootInv, FailInv
<1> QED
  BY <1>3, <1>4, <1>5, <1>7, <1>8, Zenon DEF ObsInv

(* A change of the machine: what has not changed is still owed (sysfs).    *)
LEMMA ChangeKeeps == ASSUME ObsInv, NEW s \in Topologies, NEW m \in MountTables, Change(s, m) PROVE ObsInv'
<1> USE ZenonT(30)
<1>1. /\ ObsTypeOK /\ cand \in CandType /\ FrameInv /\ WalkedInv /\ OwedInv /\ RecordInv
      /\ ResultInv /\ RootInv
  BY DEF ObsInv
<1>2. UNCHANGED <<query, recs, at, num, names, paths, stack, visited, result, cand>> /\ still' = FALSE
  BY DEF Change, progVars
<1>3. \A d \in stable' : d \in stable /\ d \in DOMAIN sysfs /\ d \in DOMAIN sysfs' /\ sysfs'[d] = sysfs[d]
  BY <1>1, SnapshotFacts DEF Change
<1>4. ObsTypeOK'
  <2>1. Records' = Records
    BY <1>2 DEF Records
  <2> QED
    BY <1>1, <1>2, <2>1 DEF Change, ObsTypeOK
<1>14. tables \subseteq tables' /\ mounts' \in tables' /\ Records' = Records /\ (OfMounts' <=> OfMounts)
       /\ \A r : Area(r)' <=> Area(r)
  BY <1>2 DEF Change, Records, OfMounts, Area
<1>15. ASSUME NEW r, NEW d \in Names(r)', Area(r)' \/ d \in stable' PROVE d \in Names(r)
  <2>1. CASE OfMounts
    BY <1>3, <1>14, <1>15, <2>1 DEF Names, nameByDeviceNumber, Area
  <2>2. CASE ~OfMounts /\ r.kind = "partition"
    BY <1>14, <1>15, <2>2 DEF Names
  <2>3. CASE ~OfMounts /\ r.kind # "partition"
    BY <1>3, <1>14, <1>15, <2>3 DEF Names, Area
  <2> QED
    BY <2>1, <2>2, <2>3
<1>5. \A d : Kids(d)' \subseteq Kids(d)
  BY <1>3 DEF Kids, partitionChildren
<1>6. \A d \in stable' : DiskOf(d)' = DiskOf(d) /\ Below(sysfs', d) = Below(sysfs, d)
                         /\ (Bare(d)' <=> Bare(d)) /\ (IsPartition(sysfs', d) <=> IsPartition(sysfs, d))
  BY <1>3 DEF DiskOf, Below, Bare, IsPartition
<1>7. cand' \in CandType /\ FrameInv'
  BY <1>1, <1>2 DEF FrameInv, NoDeviceTwice
<1>8. WalkedInv'
  <2> SUFFICES ASSUME Walked'
               PROVE  /\ \A i \in DOMAIN stack' : Expects(stack[i])' /\ Exact(stack[i])'
                      /\ \A e \in visited' \intersect stable' : Below(sysfs', e) \subseteq visited' \/ OnStack(e)'
                      /\ IsFiniteSet(visited')
    BY <1>2 DEF WalkedInv
  <2>1. Walked
    BY <1>2 DEF Walked
  <2>2. ASSUME NEW i \in DOMAIN stack' PROVE Expects(stack[i])'
    <3>1. Expects(stack[i]) /\ stack'[i] = stack[i]
      BY <1>1, <1>2, <2>1, <2>2 DEF WalkedInv
    <3>2. ASSUME stack[i].name \in stable'
          PROVE  stack[i].name \in stable /\ sysfs'[stack[i].name] = sysfs[stack[i].name]
      BY <1>3, <3>2
    <3>3. ASSUME stack[i].name \in stable' PROVE DiskOf(stack[i].name)' = DiskOf(stack[i].name)
      BY <1>2, <3>2, <3>3 DEF DiskOf
    <3>4. Kids(stack[i].name)' \subseteq Kids(stack[i].name)
      BY <1>2, <1>3 DEF Kids, partitionChildren
    <3> QED
      BY <1>2, <3>1, <3>2, <3>3, <3>4 DEF Expects
  <2>3. ASSUME NEW i \in DOMAIN stack' PROVE Exact(stack[i])'
    BY <1>2 DEF Exact
  <2>4. \A e \in visited' \intersect stable' : Below(sysfs', e) \subseteq visited' \/ OnStack(e)'
    BY <1>1, <1>2, <1>3, <1>6, <2>1 DEF WalkedInv, OnStack
  <2>5. IsFiniteSet(visited')
    BY <1>1, <1>2, <2>1 DEF WalkedInv
  <2> QED
    BY <2>2, <2>3, <2>4, <2>5
<1>9. OwedInv'
  <2> SUFFICES ASSUME at' # "failed", NEW r, NEW d, Owed(r, d)'
               PROVE  \/ query'.kind # "root" /\ Reported(d)'
                      \/ ~Area(r)' /\ Sought(d)'
                      \/ Walked' /\ Started(d)'
    BY DEF OwedInv
  <2>1. Owed(r, d) /\ (Area(r) \/ d \in stable')
    BY <1>2, <1>3, <1>14, <1>15 DEF Owed
  <2>2. Reported(d) => Reported(d)'
    BY <1>2, <1>3, <1>5 DEF Reported
  <2>3. ~Area(r) /\ Sought(d) => ~Area(r)' /\ Sought(d)'
    BY <1>2, <1>3, <1>14, <2>1 DEF Sought, Seeking
  <2>4. Started(d) => Started(d)'
    BY <1>2, <1>3, <1>5 DEF Started, Begun
  <2> QED
    BY <1>1, <1>2, <2>1, <2>2, <2>3, <2>4 DEF OwedInv, Walked
<1>10. RecordInv'
  BY <1>1, <1>2, <1>3, <1>14 DEF RecordInv, Seeks, Seeking
<1>11. ResultInv'
  BY <1>1, <1>2, <1>3, <1>6 DEF ResultInv
<1>12. RootInv'
  <2>1. \A c \in (visited' \intersect stable') \ Mapped : c \in (visited \intersect stable) \ Mapped
    BY <1>2, <1>3
  <2>2. ASSUME cand.name \in stable'
        PROVE  cand.name \in stable /\ (IsPartition(sysfs', cand.name) <=> IsPartition(sysfs, cand.name))
    BY <1>3, <1>6, <2>2
  <2> QED
    BY <1>1, <1>2, <1>6, <2>1, <2>2 DEF RootInv
<1>13. FailInv'
  BY <1>2 DEF FailInv
<1> QED
  BY <1>4, <1>7, <1>8, <1>9, <1>10, <1>11, <1>12, <1>13 DEF ObsInv

----------------------------------------------------------------------------
(* The walk.  The innermost call goes on (observer.go, walkRelated).       *)
Reads == UNCHANGED <<sysfs, mounts, stable, tables, still>>
Keeps == UNCHANGED <<walkRest, sysfs, mounts, stable, tables, still>>

\* A new state of the innermost call that has its name and forgets nothing.
GoesOn(f) ==
  /\ f \in FrameType /\ f.name = Top.name /\ f.inc = Top.inc
  /\ f.at \in {"children", "marks"} => f.inc
  /\ Expects(f) /\ Exact(f)

(* The innermost call is the last frame.                                   *)
LEMMA TopIsLast ==
  ASSUME FrameInv, stack # <<>>
  PROVE  /\ Len(stack) \in DOMAIN stack /\ Top \in FrameType /\ DOMAIN stack = 1 .. Len(stack) /\ Len(stack) \in Nat
         /\ 1 \in DOMAIN stack
<1>1. stack \in Seq(FrameType)
  BY Zenon DEF FrameInv
<1> QED
  BY <1>1 DEF Top

LEMMA FrameFields ==
  ASSUME NEW f \in FrameType
  PROVE  /\ f.name \in Device /\ f.inc \in BOOLEAN /\ f.at \in {"enter", "list", "parent"} \union AfterParent
         /\ f.look \subseteq Device /\ f.todo \subseteq Device
BY DEF FrameType

(* Replacing it leaves the other frames.                                   *)
LEMMA TopReplaced ==
  ASSUME FrameInv, stack # <<>>, NEW f \in FrameType, SetTop(f)
  PROVE  /\ stack' \in Seq(FrameType) /\ DOMAIN stack' = DOMAIN stack /\ stack' # <<>>
         /\ \A i \in DOMAIN stack : stack'[i] = IF i = Len(stack) THEN f ELSE stack[i]
<1>1. stack \in Seq(FrameType) /\ stack' = [stack EXCEPT ![Len(stack)] = f]
  BY Zenon DEF FrameInv, SetTop
<1> QED
  BY <1>1

(* A step of the innermost call that forgets nothing keeps the invariant   *)
(* (observer.go, walkRelated).                                             *)
LEMMA GoesOnKeeps ==
  ASSUME ObsInv, at = "walk", stack # <<>>, Keeps, visited' = visited, NEW f, GoesOn(f), SetTop(f)
  PROVE  ObsInv'
<1> USE ZenonT(30)
<1>1. /\ ObsTypeOK /\ cand \in CandType /\ FrameInv /\ WalkedInv /\ OwedInv /\ RecordInv
      /\ ResultInv /\ RootInv /\ FailInv
  BY DEF ObsInv
<1>2. UNCHANGED <<query, recs, at, num, names, paths, result, cand, visited, sysfs, mounts, stable, tables, still>>
  BY DEF Keeps, walkRest
<1>3. f \in FrameType /\ f.name = Top.name /\ f.inc = Top.inc /\ Expects(f) /\ Exact(f)
  BY DEF GoesOn
<1>4. /\ stack' \in Seq(FrameType) /\ DOMAIN stack' = DOMAIN stack /\ stack' # <<>>
      /\ \A i \in DOMAIN stack : stack'[i] = IF i = Len(stack) THEN f ELSE stack[i]
  BY <1>1, <1>3, TopReplaced
<1>5. Len(stack) \in DOMAIN stack /\ Top \in FrameType /\ 1 \in DOMAIN stack
  BY <1>1, TopIsLast
<1>6. \A i \in DOMAIN stack : stack'[i].name = stack[i].name /\ (stack'[i].inc <=> stack[i].inc)
  BY <1>3, <1>4 DEF Top
<1>7. ObsTypeOK'
  <2>1. \A i \in DOMAIN stack' : stack'[i].look \subseteq Device /\ stack'[i].todo \subseteq Device
    BY <1>1, <1>3, <1>4, FrameFields DEF ObsTypeOK
  <2>2. Records' = Records
    BY <1>2 DEF Records
  <2> QED
    BY <1>1, <1>2, <2>1, <2>2 DEF ObsTypeOK
<1>8. FrameInv'
  <2>1. \A i \in DOMAIN stack' : stack'[i].at \in {"children", "marks"} => stack'[i].inc
    BY <1>1, <1>4 DEF FrameInv, GoesOn
  <2>2. NoDeviceTwice'
    BY <1>1, <1>4, <1>6 DEF FrameInv, NoDeviceTwice
  <2> QED
    BY <1>1, <1>2, <1>4, <1>6, <2>1, <2>2 DEF FrameInv
<1>9. \A e : OnStack(e) => OnStack(e)'
  BY <1>4, <1>6 DEF OnStack
<1>10. \A s : Begun(s) => Begun(s)'
  BY <1>2, <1>4, <1>5, <1>6 DEF Begun
<1>11. Named' = Named /\ Same
  BY <1>2, SameNames DEF Same
<1>12. Walked /\ Walked'
  BY <1>2 DEF Walked
<1>13. WalkedInv'
  <2>1. ASSUME NEW i \in DOMAIN stack' PROVE Expects(stack[i])' /\ Exact(stack[i])'
    <3>1. CASE i = Len(stack)
      <4>1. stack'[i] = f
        BY <1>4, <2>1, <3>1
      <4> QED
        BY <1>2, <1>3, <4>1 DEF Expects, Exact, Kids, DiskOf
    <3>2. CASE i # Len(stack)
      <4>1. stack'[i] = stack[i] /\ Expects(stack[i]) /\ Exact(stack[i])
        BY <1>1, <1>4, <1>12, <2>1, <3>2 DEF WalkedInv
      <4> QED
        BY <1>2, <4>1 DEF Expects, Exact, Kids, DiskOf
    <3> QED
      BY <3>1, <3>2
  <2>2. \A e \in visited' \intersect stable' : Below(sysfs', e) \subseteq visited' \/ OnStack(e)'
    BY <1>1, <1>2, <1>9, <1>12 DEF WalkedInv
  <2>3. still' => \A e \in visited' : e \in DOMAIN sysfs' \/ OnStack(e)'
    BY <1>1, <1>2, <1>9, <1>12 DEF WalkedInv
  <2>4. still' => \E s \in Named' : Begun(s)' /\ visited' \subseteq related(sysfs', s)
    BY <1>1, <1>2, <1>10, <1>11, <1>12 DEF WalkedInv
  <2> QED
    BY <1>1, <1>2, <1>12, <2>1, <2>2, <2>3, <2>4 DEF WalkedInv
<1>14. OwedInv'
  <2>1. \A d : Started(d) => Started(d)'
    BY <1>4, <1>10 DEF Started
  <2> QED
    BY <1>1, <1>2, <1>11, <1>12, <2>1 DEF OwedInv, Owed, Reported, Kids, Same, Sought, Seeking
<1>15. RecordInv' /\ cand' \in CandType
  BY <1>1, <1>2, <1>11, RecordKeeps
<1>16. ResultInv'
  BY <1>1, <1>2, <1>11 DEF ResultInv
<1>17. RootInv'
  BY <1>1, <1>2 DEF RootInv, Bare
<1>18. FailInv'
  BY <1>2 DEF FailInv
<1> QED
  BY <1>7, <1>8, <1>13, <1>14, <1>15, <1>16, <1>17, <1>18 DEF ObsInv

(* What the invariant says of the innermost call (observer.go,             *)
(* walkRelated).                                                           *)
LEMMA TopFacts ==
  ASSUME ObsInv, at = "walk", stack # <<>>
  PROVE  /\ Top \in FrameType /\ Expects(Top) /\ Exact(Top) /\ Top.name \in visited
         /\ Top.at \in {"children", "marks"} => Top.inc
         /\ Top.name \in Device /\ Top.look \subseteq Device /\ Top.todo \subseteq Device
<1>1. FrameInv /\ WalkedInv /\ Walked
  BY Zenon DEF ObsInv, Walked
<1>2. Top \in FrameType /\ Len(stack) \in DOMAIN stack
  BY <1>1, TopIsLast, Zenon
<1> QED
  BY <1>1, <1>2, FrameFields, Zenon DEF FrameInv, WalkedInv, Top

(* The steps of the innermost call forget nothing (observer.go,            *)
(* walkRelated, partitionParent, sortedEntries, partitionChildren).        *)
LEMMA EnterKeeps ==
  ASSUME ObsInv, EnterDevice, Reads, at' # "failed" PROVE ObsInv'
<1>1. /\ at = "walk" /\ stack # <<>> /\ Top.at = "enter" /\ Top.todo = {}
      /\ SetTop([Top EXCEPT !.at = "list"]) /\ Keeps /\ visited' = visited /\ Top.name \in DOMAIN sysfs
  BY Zenon DEF EnterDevice, Walking, Fails, Keeps, Reads, blockPathOK
<1> DEFINE f == [Top EXCEPT !.at = "list"]
<1>2. f \in FrameType /\ f.name = Top.name /\ f.inc = Top.inc /\ f.at = "list" /\ f.todo = {}
  BY <1>1, TopFacts DEF FrameType
<1> HIDE DEF f
<1>3. GoesOn(f)
  BY <1>1, <1>2, Zenon DEF GoesOn, Expects, Exact, AfterParent, AfterSlaves
<1> QED
  BY <1>1, <1>3, GoesOnKeeps, Zenon DEF f

LEMMA ListDisksKeeps ==
  ASSUME ObsInv, ListDisks, Reads PROVE ObsInv'
<1> DEFINE f == [Top EXCEPT !.at = "parent", !.look = DOMAIN sysfs]
<1>1. /\ at = "walk" /\ stack # <<>> /\ Top.at = "list" /\ Top.todo = {}
      /\ SetTop(f) /\ Keeps /\ visited' = visited
  BY Zenon DEF ListDisks, Walking, Keeps, Reads
<1>2. DOMAIN sysfs \subseteq Device /\ stable \subseteq DOMAIN sysfs
      /\ \A d \in DOMAIN sysfs : DiskOf(d) \subseteq DOMAIN sysfs
  BY SnapshotFacts, Zenon DEF ObsInv
<1>3. /\ f \in FrameType /\ f.name = Top.name /\ f.inc = Top.inc /\ f.at = "parent" /\ f.todo = {}
      /\ f.look = DOMAIN sysfs
  BY <1>1, <1>2, TopFacts, Zenon DEF FrameType
<1>4. Exact(Top)
  BY <1>1, TopFacts, Zenon
<1> HIDE DEF f
<1>5. Expects(f)
  BY <1>2, <1>3, Zenon DEF Expects, AfterParent, AfterSlaves
<1>6. GoesOn(f)
  BY <1>1, <1>3, <1>4, <1>5, Zenon DEF GoesOn, Exact
<1> QED
  BY <1>1, <1>6, GoesOnKeeps, Zenon

LEMMA TryDiskKeeps ==
  ASSUME ObsInv, TryDisk, Reads PROVE ObsInv'
<1>1. /\ at = "walk" /\ stack # <<>> /\ Top.at = "parent" /\ Top.todo = {}
      /\ Keeps /\ visited' = visited
  BY Zenon DEF TryDisk, Walking, Keeps, Reads
<1>2. /\ Top \in FrameType /\ Expects(Top) /\ Exact(Top)
      /\ Top.name \in Device /\ Top.look \subseteq Device
  BY <1>1, TopFacts, Zenon
<1>3. stable \subseteq DOMAIN sysfs /\ NoDevice \notin Device
  BY SnapshotFacts, DeviceAssumption, Zenon DEF ObsInv
<1>4. Top.name \in stable => DiskOf(Top.name) \subseteq Top.look
  BY <1>1, <1>2, Zenon DEF Expects
<1>5. CASE Top.look = {} /\ SetTop([Top EXCEPT !.at = "slaves"])
  <2> DEFINE f == [Top EXCEPT !.at = "slaves"]
  <2>1. f \in FrameType /\ f.name = Top.name /\ f.inc = Top.inc /\ f.at = "slaves" /\ f.todo = {}
    BY <1>1, <1>2 DEF FrameType, AfterParent
  <2> HIDE DEF f
  <2>2. Expects(f) /\ Exact(f)
    BY <1>1, <1>2, <1>4, <1>5, <2>1, Zenon DEF Expects, Exact, AfterSlaves
  <2>3. GoesOn(f)
    BY <2>1, <2>2, Zenon DEF GoesOn
  <2> QED
    BY <1>1, <1>5, <2>3, GoesOnKeeps, Zenon DEF f
<1>6. ASSUME NEW d \in Top.look, Marked(d, Top.name),
             SetTop([Top EXCEPT !.at = "slaves", !.look = {}, !.todo = {d}])
      PROVE  ObsInv'
  <2> DEFINE f == [Top EXCEPT !.at = "slaves", !.look = {}, !.todo = {d}]
  <2>1. f \in FrameType /\ f.name = Top.name /\ f.inc = Top.inc /\ f.at = "slaves" /\ f.todo = {d}
    BY <1>1, <1>2, Zenon DEF FrameType, AfterParent
  <2>2. Top.name \in DOMAIN sysfs /\ DiskOf(Top.name) = {d} /\ d \in Below(sysfs, Top.name)
    BY <1>2, <1>3, <1>6, Zenon DEF Marked, blockPathOK, DiskOf, Below
  <2> HIDE DEF f
  <2>3. Expects(f)
    BY <2>1, <2>2, Zenon DEF Expects, AfterSlaves
  <2>4. Exact(f)
    BY <2>1, <2>2, Zenon DEF Exact
  <2>5. GoesOn(f)
    BY <2>1, <2>3, <2>4, Zenon DEF GoesOn
  <2> QED
    BY <1>1, <1>6, <2>5, GoesOnKeeps, Zenon DEF f
<1>7. ASSUME NEW d \in Top.look, ~Marked(d, Top.name), SetTop([Top EXCEPT !.look = @ \ {d}])
      PROVE  ObsInv'
  <2> DEFINE f == [Top EXCEPT !.look = @ \ {d}]
  <2>1. /\ f \in FrameType /\ f.name = Top.name /\ f.inc = Top.inc /\ f.at = "parent" /\ f.todo = {}
        /\ f.look = Top.look \ {d}
    BY <1>1, <1>2 DEF FrameType
  <2>2. Top.name \in stable => DiskOf(Top.name) \subseteq Top.look \ {d}
    BY <1>3, <1>4, <1>7, Zenon DEF Marked, blockPathOK, DiskOf
  <2> HIDE DEF f
  <2>3. Expects(f)
    BY <2>1, <2>2, Zenon DEF Expects, AfterParent, AfterSlaves
  <2>4. Exact(f)
    BY <1>1, <1>2, <2>1, Zenon DEF Exact
  <2>5. GoesOn(f)
    BY <2>1, <2>3, <2>4, Zenon DEF GoesOn
  <2> QED
    BY <1>1, <1>7, <2>5, GoesOnKeeps, Zenon DEF f
<1> QED
  BY <1>5, <1>6, <1>7, Zenon DEF TryDisk

LEMMA ListSlavesKeeps ==
  ASSUME ObsInv, ListSlaves, Reads PROVE ObsInv'
<1> DEFINE next == IF Top.inc THEN "children" ELSE "leave"
           below == IF blockPathOK(sysfs, Top.name) THEN sysfs[Top.name].slaves ELSE {}
           f == [Top EXCEPT !.at = next, !.todo = below]
<1>1. /\ at = "walk" /\ stack # <<>> /\ Top.at = "slaves" /\ Top.todo = {}
      /\ SetTop(f) /\ Keeps /\ visited' = visited
  BY Zenon DEF ListSlaves, Walking, Keeps, Reads
<1>2. /\ Top \in FrameType /\ Expects(Top) /\ Exact(Top) /\ Top.name \in Device
  BY <1>1, TopFacts, Zenon
<1>3. /\ stable \subseteq DOMAIN sysfs /\ \A d \in DOMAIN sysfs : sysfs[d].slaves \subseteq Device
      /\ \A d \in DOMAIN sysfs : Below(sysfs, d) = sysfs[d].slaves \union DiskOf(d)
  BY SnapshotFacts, Zenon DEF ObsInv
<1>4. /\ next \in AfterSlaves /\ next # "marks" /\ (next = "children" => Top.inc)
      /\ (Top.inc => next # "leave") /\ next # "parent" /\ next # "enter"
  BY Zenon DEF AfterSlaves
<1>5. below \subseteq Device /\ (Top.name \in DOMAIN sysfs => below = sysfs[Top.name].slaves)
      /\ (Top.name \notin DOMAIN sysfs => below = {})
  BY <1>3, Zenon DEF blockPathOK
<1> HIDE DEF next, below
<1>6. /\ f \in FrameType /\ f.name = Top.name /\ f.inc = Top.inc /\ f.at = next /\ f.todo = below
  BY <1>2, <1>4, <1>5, Zenon DEF FrameType, AfterParent
<1> HIDE DEF f
<1>7. Expects(f)
  <2>1. Top.name \in stable => DiskOf(Top.name) \subseteq visited \union Top.todo
    BY <1>1, <1>2, Zenon DEF Expects, AfterParent
  <2> QED
    BY <1>1, <1>3, <1>4, <1>5, <1>6, <2>1, Zenon DEF Expects
<1>8. Exact(f)
  BY <1>1, <1>2, <1>3, <1>5, <1>6, Zenon DEF Exact
<1>9. GoesOn(f)
  BY <1>4, <1>6, <1>7, <1>8, Zenon DEF GoesOn
<1> QED
  BY <1>1, <1>9, GoesOnKeeps, Zenon

LEMMA ListChildrenKeeps ==
  ASSUME ObsInv, ListChildren, Reads, at' # "failed" PROVE ObsInv'
<1> DEFINE f == [Top EXCEPT !.at = "marks", !.look = partitionChildren(sysfs, Top.name)]
<1>1. /\ at = "walk" /\ stack # <<>> /\ Top.at = "children" /\ Top.todo = {}
      /\ SetTop(f) /\ Keeps /\ visited' = visited
  BY Zenon DEF ListChildren, Walking, Keeps, Reads, Fails
<1>2. /\ Top \in FrameType /\ Expects(Top) /\ Exact(Top) /\ Top.inc
  BY <1>1, TopFacts, Zenon
<1>3. partitionChildren(sysfs, Top.name) \subseteq Device
  BY SnapshotFacts, Zenon DEF ObsInv
<1>4. /\ f \in FrameType /\ f.name = Top.name /\ f.inc = Top.inc /\ f.at = "marks" /\ f.todo = {}
      /\ f.look = partitionChildren(sysfs, Top.name)
  BY <1>1, <1>2, <1>3, Zenon DEF FrameType, AfterParent, AfterSlaves
<1> HIDE DEF f
<1>5. Expects(f)
  <2>1. Top.name \in stable => /\ DiskOf(Top.name) \subseteq visited \union Top.todo
                               /\ sysfs[Top.name].slaves \subseteq visited \union Top.todo
    BY <1>1, <1>2, Zenon DEF Expects, AfterParent, AfterSlaves
  <2>2. Kids(Top.name) \subseteq f.look
    BY <1>4, Zenon DEF Kids
  <2> QED
    BY <1>1, <1>4, <2>1, <2>2, Zenon DEF Expects
<1>6. Exact(f)
  BY <1>1, <1>2, <1>4, Zenon DEF Exact
<1>7. GoesOn(f)
  BY <1>2, <1>4, <1>5, <1>6, Zenon DEF GoesOn
<1> QED
  BY <1>1, <1>7, GoesOnKeeps, Zenon

LEMMA LookForMarkKeeps ==
  ASSUME ObsInv, LookForMark, Reads PROVE ObsInv'
<1>1. /\ at = "walk" /\ stack # <<>> /\ Top.at = "marks" /\ Keeps /\ visited' = visited
  BY Zenon DEF LookForMark, Keeps, Reads
<1>2. /\ Top \in FrameType /\ Expects(Top) /\ Exact(Top) /\ Top.inc
      /\ Top.look \subseteq Device /\ Top.todo \subseteq Device
  BY <1>1, TopFacts, Zenon
<1>3. Top.name \in stable =>
        /\ DiskOf(Top.name) \subseteq visited \union Top.todo
        /\ sysfs[Top.name].slaves \subseteq visited \union Top.todo
        /\ Kids(Top.name) \subseteq visited \union Top.look \union Top.todo
  BY <1>1, <1>2, Zenon DEF Expects, AfterParent, AfterSlaves
<1>4. CASE Top.look = {} /\ SetTop([Top EXCEPT !.at = "leave"])
  <2> DEFINE f == [Top EXCEPT !.at = "leave"]
  <2>1. f \in FrameType /\ f.name = Top.name /\ f.inc = Top.inc /\ f.at = "leave" /\ f.todo = Top.todo
    BY <1>2, Zenon DEF FrameType, AfterParent, AfterSlaves
  <2> HIDE DEF f
  <2>2. Expects(f) /\ Exact(f)
    BY <1>1, <1>2, <1>3, <1>4, <2>1, Zenon DEF Expects, Exact
  <2>3. GoesOn(f)
    BY <2>1, <2>2, Zenon DEF GoesOn
  <2> QED
    BY <1>1, <1>4, <2>3, GoesOnKeeps, Zenon DEF f
<1>5. ASSUME NEW c \in Top.look,
             SetTop([Top EXCEPT !.look = @ \ {c}, !.todo = IF Marked(Top.name, c) THEN @ \union {c} ELSE @])
      PROVE  ObsInv'
  <2> DEFINE more == IF Marked(Top.name, c) THEN Top.todo \union {c} ELSE Top.todo
             f == [Top EXCEPT !.look = @ \ {c}, !.todo = more]
  <2>1. /\ more \subseteq Device /\ Top.todo \subseteq more
        /\ c \in partitionChildren(sysfs, Top.name) => c \in more
        /\ \A n \in more : n \in Top.todo \/ n \in partitionChildren(sysfs, Top.name)
    BY <1>2, <1>5, Zenon DEF Marked, blockPathOK, partitionChildren
  <2>2. SetTop(f)
    BY <1>5, Zenon DEF SetTop
  <2> HIDE DEF more
  <2>3. /\ f \in FrameType /\ f.name = Top.name /\ f.inc = Top.inc /\ f.at = "marks" /\ f.todo = more
        /\ f.look = Top.look \ {c}
    BY <1>1, <1>2, <2>1, Zenon DEF FrameType
  <2> HIDE DEF f
  <2>4. Top.name \in stable => Kids(Top.name) \subseteq visited \union f.look \union f.todo
    BY <1>3, <2>1, <2>3, Zenon DEF Kids
  <2>5. Expects(f)
    BY <1>3, <2>1, <2>3, <2>4, Zenon DEF Expects
  <2>6. Exact(f)
    BY <1>1, <1>2, <2>1, <2>3, Zenon DEF Exact
  <2>7. GoesOn(f)
    BY <1>2, <2>3, <2>5, <2>6, Zenon DEF GoesOn
  <2> QED
    BY <1>1, <2>2, <2>7, GoesOnKeeps, Zenon
<1> QED
  BY <1>4, <1>5, Zenon DEF LookForMark

(* A device that has been seen is passed over (observer.go, walkRelated).  *)
LEMMA PassedOver ==
  ASSUME ObsInv, at = "walk", stack # <<>>, Top.at # "marks", NEW n \in Top.todo, n \in visited,
         stack' = [stack EXCEPT ![Len(stack)].todo = @ \ {n}], visited' = visited, Keeps
  PROVE  ObsInv'
<1> DEFINE f == [Top EXCEPT !.todo = Top.todo \ {n}]
<1>1. /\ Top \in FrameType /\ Expects(Top) /\ Exact(Top)
      /\ Top.todo \subseteq Device /\ (Top.at \in {"children", "marks"} => Top.inc)
  BY TopFacts, Zenon
<1>2. SetTop(f)
  BY Zenon DEF SetTop, Top
<1>3. /\ f \in FrameType /\ f.name = Top.name /\ f.inc = Top.inc /\ f.at = Top.at /\ f.look = Top.look
      /\ f.todo = Top.todo \ {n}
  BY <1>1 DEF FrameType
<1> HIDE DEF f
<1>4. Expects(f)
  BY <1>1, <1>3, Zenon DEF Expects
<1>5. Exact(f)
  BY <1>1, <1>3, Zenon DEF Exact
<1>6. GoesOn(f)
  BY <1>1, <1>3, <1>4, <1>5, Zenon DEF GoesOn
<1> QED
  BY <1>2, <1>6, GoesOnKeeps, Zenon

(* An error ends the call (observer.go).                                   *)
LEMMA EndKeeps ==
  ASSUME ObsInv, at' = "failed", recs' \subseteq Records, query.kind = "root" => recs' = {},
         UNCHANGED <<query, names, paths, stack, visited, result, cand>>, Reads, FailInv'
  PROVE  ObsInv'
<1> USE ZenonT(30)
<1>1. /\ ObsTypeOK /\ cand \in CandType /\ FrameInv /\ WalkedInv /\ OwedInv /\ RecordInv
      /\ ResultInv /\ RootInv /\ FailInv
  BY DEF ObsInv
<1>2. /\ UNCHANGED <<query, names, paths, stack, visited, result, cand, sysfs, mounts, stable, tables, still>>
      /\ at' = "failed"
  BY DEF Reads
<1>9. Named' = Named /\ Same
  BY <1>2, SameNames DEF Same
<1>3. ObsTypeOK' /\ cand' \in CandType
  BY <1>1, <1>2, <1>9 DEF ObsTypeOK, Same
<1>4. FrameInv'
  BY <1>1, <1>2 DEF FrameInv, NoDeviceTwice
<1>5. WalkedInv' /\ OwedInv'
  BY <1>2 DEF WalkedInv, Walked, OwedInv
<1>6. RecordInv'
  BY <1>1, <1>2, <1>9 DEF RecordInv, Same, Seeking
<1>7. ResultInv'
  <2>1. query' = query /\ sysfs' = sysfs /\ stable' = stable /\ still' = still /\ result' = result
    BY <1>2
  <2> QED
    BY <1>1, <1>9, <2>1 DEF ResultInv
<1>8. RootInv'
  BY <1>1, <1>2 DEF RootInv, Bare
<1> QED
  BY <1>3, <1>4, <1>5, <1>6, <1>7, <1>8 DEF ObsInv
LEMMA FailsKeeps == ASSUME ObsInv, at # "record", Fails, Reads, FailInv' PROVE ObsInv'
<1>1. recs' \subseteq Records /\ (query.kind = "root" => recs' = {}) /\ at' = "failed"
      /\ UNCHANGED <<query, names, paths, stack, visited, result, cand>>
  BY Zenon DEF Fails, ObsInv, ObsTypeOK, RecordInv
<1> QED
  BY <1>1, EndKeeps, Zenon

LEMMA EnterFails ==
  ASSUME ObsInv, EnterDevice, Reads, at' = "failed" PROVE ObsInv'
<1> USE ZenonT(30)
<1>1. at = "walk" /\ stack # <<>> /\ Fails /\ Top.name \notin DOMAIN sysfs
  BY DEF EnterDevice, Walking, walkRest, blockPathOK
<1>2. Top.name \in visited /\ WalkedInv /\ Walked
  BY <1>1, TopFacts DEF ObsInv, Walked
<1>3. still => \E s \in Named : Top.name \in related(sysfs, s)
  BY <1>2 DEF WalkedInv
<1>4. still => \E s \in Named : ~relatedOK(sysfs, s)
  BY <1>1, <1>3 DEF relatedOK, blockPathOK
<1>5. Named' = Named
  BY <1>1, SameNames DEF Fails, Same, Reads
<1>6. FailInv'
  BY <1>4, <1>5 DEF FailInv, Reads
<1> QED
  BY <1>1, <1>6, FailsKeeps

LEMMA ListChildrenFails ==
  ASSUME ObsInv, ListChildren, Reads, at' = "failed" PROVE ObsInv'
<1> USE ZenonT(30)
<1>1. at = "walk" /\ stack # <<>> /\ Fails /\ Top.name \notin DOMAIN sysfs /\ Top.at = "children"
  BY DEF ListChildren, Walking, walkRest, blockPathOK
<1>2. ~still
  BY <1>1, TopFacts DEF Exact
<1>3. FailInv'
  BY <1>2 DEF FailInv, Reads
<1> QED
  BY <1>1, <1>3, FailsKeeps

(* Appending to a sequence.                                                *)
LEMMA Appended ==
  ASSUME NEW S, NEW s \in Seq(S), NEW e \in S
  PROVE  /\ Append(s, e) \in Seq(S) /\ Len(Append(s, e)) = Len(s) + 1
         /\ \A i \in 1 .. Len(s) : Append(s, e)[i] = s[i]
         /\ Append(s, e)[Len(s) + 1] = e
OBVIOUS

(* A sequence without elements.                                            *)
LEMMA NoElements == ASSUME NEW S, NEW s \in Seq(S) PROVE s = <<>> <=> Len(s) = 0
OBVIOUS

(* A call that begins.                                                     *)
LEMMA FreshFrame ==
  ASSUME NEW n PROVE /\ Frame(n, FALSE).name = n /\ Frame(n, FALSE).inc = FALSE /\ Frame(n, FALSE).at = "enter"
                     /\ Frame(n, FALSE).look = {} /\ Frame(n, FALSE).todo = {}
BY DEF Frame

(* The stack of a recursive call.                                          *)
LEMMA Pushed ==
  ASSUME FrameInv, stack # <<>>, NEW n \in Device, NEW f \in FrameType,
         stack' = Append([stack EXCEPT ![Len(stack)] = f], Frame(n, FALSE))
  PROVE  /\ stack' \in Seq(FrameType) /\ stack' # <<>> /\ DOMAIN stack' = DOMAIN stack \union {Len(stack) + 1}
         /\ Len(stack) + 1 \notin DOMAIN stack /\ Len(stack) + 1 # 1
         /\ \A i \in DOMAIN stack : stack'[i] = IF i = Len(stack) THEN f ELSE stack[i]
         /\ stack'[Len(stack) + 1] = Frame(n, FALSE)
<1> DEFINE rest == [stack EXCEPT ![Len(stack)] = f]
           fr == Frame(n, FALSE)
<1>1. stack \in Seq(FrameType) /\ Len(stack) \in Nat \ {0} /\ DOMAIN stack = 1 .. Len(stack)
  <2>1. stack \in Seq(FrameType)
    BY Zenon DEF FrameInv
  <2> QED
    BY <2>1
<1>2. /\ rest \in Seq(FrameType) /\ Len(rest) = Len(stack) /\ DOMAIN rest = 1 .. Len(stack)
      /\ \A i \in DOMAIN stack : rest[i] = IF i = Len(stack) THEN f ELSE stack[i]
  BY <1>1
<1>3. fr \in FrameType
  BY Zenon DEF Frame, FrameType
<1> HIDE DEF rest, fr
<1>4. stack' = Append(rest, fr)
  BY Zenon DEF rest, fr
<1>5. /\ stack' \in Seq(FrameType) /\ Len(stack') = Len(stack) + 1
      /\ \A i \in 1 .. Len(stack) : stack'[i] = rest[i]
      /\ stack'[Len(stack) + 1] = fr
  <2>1. /\ Append(rest, fr) \in Seq(FrameType) /\ Len(Append(rest, fr)) = Len(rest) + 1
        /\ \A i \in 1 .. Len(rest) : Append(rest, fr)[i] = rest[i]
        /\ Append(rest, fr)[Len(rest) + 1] = fr
    BY <1>2, <1>3, Appended, ZenonT(30)
  <2>2. Len(rest) = Len(stack)
    BY <1>2, Zenon
  <2> QED
    BY <1>4, <2>1, <2>2, Zenon
<1>8. DOMAIN stack' = 1 .. Len(stack')
  BY <1>5
<1>6. DOMAIN stack' = DOMAIN stack \union {Len(stack) + 1} /\ Len(stack) + 1 \notin DOMAIN stack
  <2>1. \A k \in Nat : 1 .. (k + 1) = (1 .. k) \union {k + 1} /\ k + 1 \notin 1 .. k
    OBVIOUS
  <2> QED
    BY <1>1, <1>5, <1>8, <2>1, Zenon
<1>7. Len(stack) + 1 # 1 /\ stack' # <<>>
  <2>1. Len(stack) + 1 # 1 /\ Len(stack) + 1 # 0
    BY <1>1
  <2> QED
    BY <1>5, <2>1, NoElements, Zenon
<1> QED
  BY <1>1, <1>2, <1>5, <1>6, <1>7, Zenon DEF fr

(* A recursive call enters a device not seen before (observer.go,          *)
(* walkRelated).                                                           *)
LEMMA PushKeeps ==
  ASSUME ObsInv, at = "walk", stack # <<>>, Top.at # "marks", NEW n \in Top.todo, n \notin visited,
         stack' = Append([stack EXCEPT ![Len(stack)].todo = @ \ {n}], Frame(n, FALSE)),
         visited' = visited \union {n}, Keeps
  PROVE  ObsInv'
<1> USE ZenonT(30)
<1> DEFINE f == [Top EXCEPT !.todo = Top.todo \ {n}]
           last == Len(stack)
           new == Len(stack) + 1
<1>1. /\ ObsTypeOK /\ cand \in CandType /\ FrameInv /\ WalkedInv /\ OwedInv /\ RecordInv
      /\ ResultInv /\ RootInv /\ FailInv /\ Walked
  BY DEF ObsInv, Walked
<1>2. UNCHANGED <<query, recs, at, num, names, paths, result, cand, sysfs, mounts, stable, tables, still>>
  BY DEF Keeps, walkRest
<1>3. /\ Top \in FrameType /\ Expects(Top) /\ Exact(Top) /\ Top.name \in visited
      /\ Top.todo \subseteq Device /\ (Top.at \in {"children", "marks"} => Top.inc)
  BY TopFacts
<1>4. /\ f \in FrameType /\ f.name = Top.name /\ f.inc = Top.inc /\ f.at = Top.at /\ f.look = Top.look
      /\ f.todo = Top.todo \ {n}
  BY <1>3, SMTT(30) DEF FrameType
<1>5. stack' = Append([stack EXCEPT ![last] = f], Frame(n, FALSE)) /\ n \in Device
  BY <1>3, Zenon DEF Top
<1> HIDE DEF f
<1>6. /\ stack' \in Seq(FrameType) /\ stack' # <<>> /\ DOMAIN stack' = DOMAIN stack \union {new}
      /\ new \notin DOMAIN stack /\ new # 1
      /\ \A i \in DOMAIN stack : stack'[i] = IF i = last THEN f ELSE stack[i]
      /\ stack'[new] = Frame(n, FALSE)
  BY <1>1, <1>4, <1>5, Pushed
<1>7. last \in DOMAIN stack /\ 1 \in DOMAIN stack
  BY <1>1, TopIsLast
<1> HIDE DEF last, new
<1>8. stack[last] = Top
  BY DEF last, Top
<1>9. /\ \A i \in DOMAIN stack : stack'[i].name = stack[i].name /\ (stack'[i].inc <=> stack[i].inc)
      /\ stack'[new].name = n /\ stack'[new].inc = FALSE /\ stack'[new].at = "enter"
      /\ stack'[new].look = {} /\ stack'[new].todo = {}
  <2>1. /\ stack'[new].name = n /\ stack'[new].inc = FALSE /\ stack'[new].at = "enter"
        /\ stack'[new].look = {} /\ stack'[new].todo = {}
    <3>1. stack'[new] = Frame(n, FALSE)
      BY <1>6
    <3> QED
      BY <3>1, FreshFrame
  <2>2. ASSUME NEW i \in DOMAIN stack PROVE stack'[i].name = stack[i].name /\ (stack'[i].inc <=> stack[i].inc)
    <3>1. CASE i = last
      BY <1>4, <1>6, <1>8, <2>2, <3>1
    <3>2. CASE i # last
      <4>1. stack'[i] = stack[i]
        BY <1>6, <2>2, <3>2
      <4> QED
        BY <4>1
    <3> QED
      BY <3>1, <3>2
  <2> QED
    BY <2>1, <2>2
<1>10. Named' = Named /\ Same /\ Walked'
  BY <1>1, <1>2, SameNames DEF Same, Walked
<1>11. ObsTypeOK'
  <2>1. \A i \in DOMAIN stack' : stack'[i].look \subseteq Device /\ stack'[i].todo \subseteq Device
    BY <1>1, <1>4, <1>6, <1>9, FrameFields DEF ObsTypeOK
  <2> QED
    BY <1>1, <1>2, <1>5, <1>10, <2>1 DEF ObsTypeOK, Same
<1>12. FrameInv'
  <2>1. \A i \in DOMAIN stack : stack[i].name \in visited /\ (stack[i].inc <=> i = 1)
    BY <1>1 DEF FrameInv
  <2>2. \A i \in DOMAIN stack' : stack'[i].name \in visited' /\ (stack'[i].inc <=> i = 1)
    BY <1>6, <1>9, <2>1
  <2>3. \A i \in DOMAIN stack' : stack'[i].at \in {"children", "marks"} => stack'[i].inc
    BY <1>1, <1>3, <1>4, <1>6, <1>9 DEF FrameInv
  <2>4. NoDeviceTwice'
    <3>1. ASSUME NEW i \in DOMAIN stack', NEW j \in DOMAIN stack', stack'[i].name = stack'[j].name PROVE i = j
      <4>1. CASE i \in DOMAIN stack /\ j \in DOMAIN stack
        BY <1>1, <1>9, <3>1, <4>1 DEF FrameInv, NoDeviceTwice
      <4>2. CASE i = new /\ j \in DOMAIN stack
        <5>1. stack'[i].name = n /\ stack'[j].name = stack[j].name /\ stack[j].name \in visited
          BY <1>9, <2>1, <4>2
        <5> QED
          BY <3>1, <5>1
      <4>3. CASE i \in DOMAIN stack /\ j = new
        <5>1. stack'[j].name = n /\ stack'[i].name = stack[i].name /\ stack[i].name \in visited
          BY <1>9, <2>1, <4>3
        <5> QED
          BY <3>1, <5>1
      <4> QED
        BY <1>6, <4>1, <4>2, <4>3
    <3> QED
      BY <3>1 DEF NoDeviceTwice
  <2> QED
    BY <1>2, <1>6, <2>2, <2>3, <2>4 DEF FrameInv
<1>13. \A e : OnStack(e) \/ e = n => OnStack(e)'
  BY <1>6, <1>9 DEF OnStack
<1>14. \A s : Begun(s) => Begun(s)'
  BY <1>7, <1>9 DEF Begun
<1>15. WalkedInv'
  <2>1. ASSUME NEW i \in DOMAIN stack' PROVE Expects(stack[i])' /\ Exact(stack[i])'
    <3>1. CASE i = last
      <4>1. stack'[i] = f
        BY <1>6, <1>7, <3>1
      <4>2. /\ stack'[i].name = Top.name /\ stack'[i].inc = Top.inc /\ stack'[i].at = Top.at
            /\ stack'[i].look = Top.look /\ stack'[i].todo = Top.todo \ {n}
        BY <1>4, <4>1
      <4>3. Expects(stack[i])'
        BY <1>2, <1>3, <4>2 DEF Expects, Kids, DiskOf
      <4>4. Exact(stack[i])'
        BY <1>2, <1>3, <4>2 DEF Exact
      <4> QED
        BY <4>3, <4>4
    <3>2. CASE i = new
      BY <1>9, <3>2 DEF Expects, Exact, AfterParent, AfterSlaves
    <3>3. CASE i # last /\ i # new
      <4>1. stack'[i] = stack[i] /\ Expects(stack[i]) /\ Exact(stack[i])
        BY <1>1, <1>6, <2>1, <3>3 DEF WalkedInv
      <4> QED
        BY <1>2, <4>1 DEF Expects, Exact, Kids, DiskOf
    <3> QED
      BY <3>1, <3>2, <3>3
  <2>2. \A e \in visited' \intersect stable' : Below(sysfs', e) \subseteq visited' \/ OnStack(e)'
    BY <1>1, <1>2, <1>13 DEF WalkedInv
  <2>3. still' => \A e \in visited' : e \in DOMAIN sysfs' \/ OnStack(e)'
    BY <1>1, <1>2, <1>13 DEF WalkedInv
  <2>4. ASSUME still, NEW s \in Named, Begun(s), visited \subseteq related(sysfs, s) PROVE n \in related(sysfs, s)
    <3>1. s \in Device /\ IsSysfs(sysfs)
      BY <1>1, <2>4, NamedType, SnapshotFacts
    <3>2. /\ \A d \in related(sysfs, s) : Below(sysfs, d) \subseteq related(sysfs, s)
          /\ partitionChildren(sysfs, s) \subseteq related(sysfs, s)
      BY <3>1, RelatedIsLeast
    <3>3. n \in Below(sysfs, Top.name) \/ (Top.inc /\ n \in partitionChildren(sysfs, Top.name))
      BY <1>3, <2>4 DEF Exact
    <3>4. Top.inc => Top.name = s
      BY <1>1, <1>7, <1>8, <2>4 DEF FrameInv, Begun
    <3> QED
      BY <1>3, <2>4, <3>2, <3>3, <3>4
  <2>5. still' => \E s \in Named' : Begun(s)' /\ visited' \subseteq related(sysfs', s)
    BY <1>1, <1>2, <1>10, <1>14, <2>4 DEF WalkedInv
  <2>6. IsFiniteSet(visited')
    BY <1>1, FS_AddElement DEF WalkedInv
  <2> QED
    BY <2>1, <2>2, <2>3, <2>5, <2>6 DEF WalkedInv
<1>16. OwedInv'
  <2>1. \A d : Started(d) => Started(d)'
    BY <1>6, <1>14 DEF Started
  <2> QED
    BY <1>1, <1>2, <1>10, <2>1 DEF OwedInv, Owed, Reported, Kids, Same, Sought, Seeking
<1>17. RecordInv' /\ cand' \in CandType
  BY <1>1, <1>2, <1>10, RecordKeeps
<1>18. ResultInv'
  BY <1>1, <1>2, <1>10 DEF ResultInv
<1>19. RootInv'
  BY <1>1, <1>2 DEF RootInv, Bare
<1>20. FailInv'
  BY <1>2 DEF FailInv
<1> QED
  BY <1>11, <1>12, <1>15, <1>16, <1>17, <1>18, <1>19, <1>20 DEF ObsInv

LEMMA DescendKeeps ==
  ASSUME ObsInv, Descend, Reads PROVE ObsInv'
<1>1. at = "walk" /\ stack # <<>> /\ Top.at # "marks" /\ Keeps
  BY Zenon DEF Descend, Keeps, Reads
<1>2. PICK n \in Top.todo :
        LET rest == [stack EXCEPT ![Len(stack)].todo = @ \ {n}] IN
          IF n \in visited THEN stack' = rest /\ visited' = visited
          ELSE stack' = Append(rest, Frame(n, FALSE)) /\ visited' = visited \union {n}
  BY Zenon DEF Descend
<1>3. CASE n \in visited
  BY <1>1, <1>2, <1>3, PassedOver, Zenon
<1>4. CASE n \notin visited
  BY <1>1, <1>2, <1>4, PushKeeps, Zenon
<1> QED
  BY <1>3, <1>4, Zenon

(* The stack after the innermost call has returned.                        *)
LEMMA Popped ==
  ASSUME FrameInv, stack # <<>>, stack' = SubSeq(stack, 1, Len(stack) - 1)
  PROVE  /\ stack' \in Seq(FrameType) /\ DOMAIN stack' = DOMAIN stack \ {Len(stack)}
         /\ \A i \in DOMAIN stack' : stack'[i] = stack[i]
         /\ stack' # <<>> => 1 \in DOMAIN stack'
         /\ stack' = <<>> => Len(stack) = 1
<1>1. stack \in Seq(FrameType)
  BY Zenon DEF FrameInv
<1>2. Len(stack) \in Nat \ {0} /\ DOMAIN stack = 1 .. Len(stack)
  BY <1>1
<1>3. /\ stack' \in Seq(FrameType) /\ Len(stack') = Len(stack) - 1
      /\ \A i \in 1 .. Len(stack) - 1 : stack'[i] = stack[i]
  BY <1>1, <1>2
<1>4. DOMAIN stack' = 1 .. Len(stack) - 1
  BY <1>3
<1>5. stack' = <<>> <=> Len(stack') = 0
  BY <1>3, NoElements, Zenon
<1>7. \A k \in Nat \ {0} : 1 .. k - 1 = (1 .. k) \ {k} /\ (k - 1 # 0 => 1 \in 1 .. k - 1) /\ (k - 1 = 0 => k = 1)
  OBVIOUS
<1> QED
  BY <1>2, <1>3, <1>4, <1>5, <1>7

(* A call returns when all below its device has been seen (observer.go,    *)
(* walkRelated).                                                           *)
LEMMA LeaveKeeps ==
  ASSUME ObsInv, Leave, Reads PROVE ObsInv'
<1> USE ZenonT(30)
<1>1. /\ ObsTypeOK /\ cand \in CandType /\ FrameInv /\ WalkedInv /\ OwedInv /\ RecordInv
      /\ ResultInv /\ RootInv /\ FailInv
  BY DEF ObsInv
<1>2. /\ at = "walk" /\ stack # <<>> /\ Top.at = "leave" /\ Top.todo = {} /\ Walked
      /\ stack' = SubSeq(stack, 1, Len(stack) - 1)
  BY DEF Leave, Walking, Walked
<1>3. UNCHANGED <<query, recs, at, num, names, paths, result, cand, visited, sysfs, mounts, stable, tables, still>>
  BY DEF Leave, walkRest, Reads
<1>4. /\ stack' \in Seq(FrameType) /\ DOMAIN stack' = DOMAIN stack \ {Len(stack)}
      /\ \A i \in DOMAIN stack' : stack'[i] = stack[i]
      /\ stack' # <<>> => 1 \in DOMAIN stack'
      /\ stack' = <<>> => Len(stack) = 1
  BY <1>1, <1>2, Popped
<1>5. /\ Expects(Top) /\ Exact(Top) /\ Top.name \in visited
  BY <1>2, TopFacts
<1>6. Len(stack) \in DOMAIN stack /\ Top = stack[Len(stack)] /\ 1 \in DOMAIN stack
  BY <1>1, <1>2, TopIsLast DEF Top
<1>7. Named' = Named /\ Same /\ Walked'
  BY <1>2, <1>3, SameNames DEF Same, Walked
<1>8. /\ \A d \in DOMAIN sysfs : Below(sysfs, d) = sysfs[d].slaves \union DiskOf(d)
      /\ stable \subseteq DOMAIN sysfs
  BY <1>1, SnapshotFacts
<1>9. ObsTypeOK'
  BY <1>1, <1>3, <1>4, <1>7 DEF ObsTypeOK, Same
<1>10. FrameInv'
  <2>1. NoDeviceTwice'
    <3>1. ASSUME NEW i \in DOMAIN stack', NEW j \in DOMAIN stack', stack'[i].name = stack'[j].name PROVE i = j
      <4>1. i \in DOMAIN stack /\ j \in DOMAIN stack /\ stack'[i] = stack[i] /\ stack'[j] = stack[j]
        BY <1>4, <3>1
      <4>2. stack[i].name = stack[j].name
        BY <3>1, <4>1
      <4> QED
        BY <1>1, <4>1, <4>2 DEF FrameInv, NoDeviceTwice
    <3> QED
      BY <3>1 DEF NoDeviceTwice
  <2> QED
    BY <1>1, <1>2, <1>3, <1>4, <2>1 DEF FrameInv
<1>11. \A e : OnStack(e) /\ e # Top.name => OnStack(e)'
  BY <1>4, <1>6 DEF OnStack
<1>12. \A s : Begun(s) => Begun(s)'
  <2>1. stack' # <<>> => stack'[1] = stack[1]
    BY <1>4
  <2> QED
    BY <1>2, <1>3, <2>1 DEF Begun
<1>13. Top.name \in stable => Below(sysfs, Top.name) \subseteq visited
  BY <1>2, <1>5, <1>8 DEF Expects, AfterParent, AfterSlaves
<1>14. WalkedInv'
  <2>1. ASSUME NEW i \in DOMAIN stack' PROVE Expects(stack[i])' /\ Exact(stack[i])'
    <3>1. stack'[i] = stack[i] /\ Expects(stack[i]) /\ Exact(stack[i])
      BY <1>1, <1>2, <1>4, <2>1 DEF WalkedInv
    <3> QED
      BY <1>3, <3>1 DEF Expects, Exact, Kids, DiskOf
  <2>2. \A e \in visited' \intersect stable' : Below(sysfs', e) \subseteq visited' \/ OnStack(e)'
    BY <1>1, <1>2, <1>3, <1>11, <1>13 DEF WalkedInv
  <2>3. still => Top.name \in DOMAIN sysfs
    BY <1>2, <1>5 DEF Exact
  <2>4. still' => \A e \in visited' : e \in DOMAIN sysfs' \/ OnStack(e)'
    BY <1>1, <1>2, <1>3, <1>11, <2>3 DEF WalkedInv
  <2>5. still' => \E s \in Named' : Begun(s)' /\ visited' \subseteq related(sysfs', s)
    BY <1>1, <1>2, <1>3, <1>7, <1>12 DEF WalkedInv
  <2>6. IsFiniteSet(visited')
    BY <1>1, <1>2, <1>3 DEF WalkedInv
  <2> QED
    BY <2>1, <2>2, <2>4, <2>5, <2>6 DEF WalkedInv
<1>15. \A d : Started(d) => Started(d)'
  <2>1. ASSUME NEW d, Started(d), stack' = <<>>, d \in stable PROVE Kids(d) \subseteq visited
    <3>1. Top.name = d /\ Top.inc
      BY <1>1, <1>2, <1>4, <1>6, <2>1 DEF Started, Begun, FrameInv
    <3> QED
      BY <1>2, <1>5, <2>1, <3>1 DEF Expects
  <2> QED
    BY <1>3, <1>12, <2>1 DEF Started, Kids
<1>16. OwedInv'
  BY <1>1, <1>3, <1>2, <1>7, <1>15 DEF OwedInv, Owed, Reported, Kids, Same, Sought, Seeking
<1>17. RecordInv' /\ cand' \in CandType
  BY <1>1, <1>3, <1>7, RecordKeeps
<1>18. ResultInv'
  BY <1>1, <1>3, <1>7 DEF ResultInv
<1>19. RootInv'
  BY <1>1, <1>3 DEF RootInv, Bare
<1>20. FailInv'
  BY <1>2, <1>3 DEF FailInv
<1> QED
  BY <1>9, <1>10, <1>14, <1>16, <1>17, <1>18, <1>19, <1>20 DEF ObsInv

(* The walk is over: its devices are reported, or looked at again          *)
(* (observer.go, expand and physicalRootDisk).                             *)
LEMMA WalkDoneKeeps ==
  ASSUME ObsInv, WalkDone, Reads PROVE ObsInv'
<1> USE ZenonT(30)
<1>1. /\ ObsTypeOK /\ cand \in CandType /\ FrameInv /\ WalkedInv /\ OwedInv /\ RecordInv
      /\ ResultInv /\ RootInv /\ FailInv
  BY DEF ObsInv
<1>2. UNCHANGED <<query, recs, num, names, paths, stack, visited, sysfs, mounts, stable, tables, still>>
  BY DEF WalkDone, Reads
<1>3. at = "walk" /\ stack = <<>> /\ Walked /\ visited \subseteq Device
  BY <1>1 DEF WalkDone, Walked, ObsTypeOK
<1>4. \A e : ~OnStack(e)
  <2>1. DOMAIN <<>> = {}
    BY SMTT(30)
  <2> QED
    BY <1>3, <2>1 DEF OnStack
<1>5. FrameInv'
  BY <1>1, <1>2, <1>3 DEF FrameInv, NoDeviceTwice
<1>6. Named' = Named /\ Same
  BY <1>2, SameNames DEF Same
<1>7. CASE query.kind = "root"
  <2>1. at' = "classify" /\ cand' = [NoCand EXCEPT !.left = visited] /\ result' = result
    BY <1>7 DEF WalkDone
  <2>2. cand' \in CandType /\ cand'.left = visited /\ cand'.name = NoDevice
    BY <1>3, <2>1 DEF NoCand, CandType
  <2>3. ObsTypeOK'
    BY <1>1, <1>2, <1>6, <2>1 DEF ObsTypeOK, Same
  <2>4. WalkedInv'
    <3>1. \A i \in DOMAIN stack' : Expects(stack[i])' /\ Exact(stack[i])'
      BY <1>2, <1>4 DEF OnStack
    <3>2. /\ \A e \in visited' \intersect stable' : Below(sysfs', e) \subseteq visited' \/ OnStack(e)'
          /\ still' => \A e \in visited' : e \in DOMAIN sysfs' \/ OnStack(e)'
      BY <1>1, <1>2, <1>3, <1>4 DEF WalkedInv
    <3>3. still' => \E s \in Named' : Begun(s)' /\ visited' \subseteq related(sysfs', s)
      BY <1>1, <1>2, <1>3, <1>6 DEF WalkedInv, Begun
    <3>4. IsFiniteSet(visited')
      BY <1>1, <1>2, <1>3 DEF WalkedInv
    <3> QED
      BY <3>1, <3>2, <3>3, <3>4 DEF WalkedInv
  <2>5. OwedInv'
    <3>1. \A r, d : Owed(r, d)' => Started(d)
      BY <1>1, <1>2, <1>3, <1>6, <1>7 DEF OwedInv, Owed, Same, Sought, Seeking
    <3>2. \A d : Started(d) => Started(d)'
      BY <1>2 DEF Started, Begun, Kids
    <3>3. Walked'
      BY <1>2, <1>7, <2>1 DEF Walked
    <3> QED
      BY <3>1, <3>2, <3>3 DEF OwedInv
  <2>6. RecordInv'
    BY <1>1, <1>2, <1>3, <1>6, <1>7, <2>1 DEF RecordInv, Same, Seeking
  <2>7. ResultInv' /\ FailInv'
    BY <1>2, <1>7, <2>1 DEF ResultInv, FailInv
  <2>8. RootInv'
    <3>1. result = {} /\ NoDevice \notin stable
      BY <1>1, <1>3, <1>7, SnapshotFacts, DeviceAssumption DEF RootInv
    <3> QED
      BY <1>2, <2>1, <2>2, <3>1 DEF RootInv
  <2> QED
    BY <1>5, <2>2, <2>3, <2>4, <2>5, <2>6, <2>7, <2>8 DEF ObsInv
<1>8. CASE query.kind # "root"
  <2>1. at' = "record" /\ cand' = cand /\ result' = result \union visited
    BY <1>8 DEF WalkDone
  <2>2. ObsTypeOK'
    BY <1>1, <1>2, <1>3, <1>6, <2>1 DEF ObsTypeOK, Same
  <2>3. WalkedInv'
    BY <1>2, <2>1 DEF WalkedInv, Walked
  <2>4. OwedInv'
    <3>1. ASSUME NEW r, NEW d, Owed(r, d)' PROVE Reported(d)'
      <4>1. Reported(d) \/ Started(d)
        BY <1>1, <1>2, <1>3, <1>6, <3>1 DEF OwedInv, Owed, Same, Sought, Seeking
      <4>2. CASE Reported(d)
        BY <1>2, <2>1, <4>2 DEF Reported, Kids
      <4>3. CASE Started(d)
        BY <1>2, <1>3, <2>1, <4>3 DEF Started, Begun, Reported, Kids
      <4> QED
        BY <4>1, <4>2, <4>3
    <3> QED
      BY <1>2, <1>8, <3>1 DEF OwedInv
  <2>5. RecordInv'
    BY <1>1, <1>2, <1>3, <1>6, <1>8, <2>1 DEF RecordInv, Same, Seeking
  <2>6. ResultInv'
    <3>1. \A e \in result' \intersect stable' : Below(sysfs', e) \subseteq result'
      BY <1>1, <1>2, <1>3, <1>4, <1>8, <2>1 DEF ResultInv, WalkedInv
    <3>2. still => visited \subseteq DOMAIN sysfs
      BY <1>1, <1>3, <1>4 DEF WalkedInv
    <3>3. still => visited \subseteq expand(sysfs, Named)
      BY <1>1, <1>3 DEF WalkedInv, expand
    <3>4. still' => result' \subseteq DOMAIN sysfs' /\ result' \subseteq expand(sysfs', Named')
      BY <1>1, <1>2, <1>6, <1>8, <2>1, <3>2, <3>3 DEF ResultInv
    <3> QED
      BY <3>1, <3>4 DEF ResultInv
  <2>7. RootInv' /\ FailInv'
    BY <1>2, <1>8, <2>1 DEF RootInv, FailInv
  <2> QED
    BY <1>1, <1>5, <2>1, <2>2, <2>3, <2>4, <2>5, <2>6, <2>7 DEF ObsInv
<1> QED
  BY <1>7, <1>8

(* The search for the device of a record.                                  *)
Searches == UNCHANGED <<query, result, cand, sysfs, mounts, stable, tables, still>>

(* A step of the search leaves what has been found (observer.go, expand).  *)
LEMMA SearchKeeps ==
  ASSUME ObsInv, at \in {"record", "list", "scan"}, Searches, stack' = stack, visited' = visited,
         at' \in {"record", "list", "scan"} \/ (at' = "done" /\ query.kind # "root"),
         recs' \subseteq Records, names' \subseteq Device, paths' \subseteq Device \X Device,
         OwedInv', RecordInv'
  PROVE  ObsInv'
<1> USE ZenonT(30)
<1>1. /\ ObsTypeOK /\ cand \in CandType /\ FrameInv /\ ResultInv /\ RootInv
  BY DEF ObsInv
<1>2. UNCHANGED <<query, stack, visited, result, cand, sysfs, mounts, stable, tables, still>>
  BY DEF Searches
<1>7. Named' = Named /\ Records' = Records
  BY <1>2, SameNames DEF Same
<1>3. ObsTypeOK' /\ cand' \in CandType
  BY <1>1, <1>2, <1>7 DEF ObsTypeOK
<1>4. stack = <<>>
  BY <1>1 DEF FrameInv
<1>5. FrameInv'
  BY <1>1, <1>2, <1>4 DEF FrameInv, NoDeviceTwice
<1>6. WalkedInv' /\ FailInv'
  BY <1>2 DEF WalkedInv, Walked, FailInv
<1>8. ResultInv'
  BY <1>1, <1>2, <1>7 DEF ResultInv
<1>9. RootInv'
  BY <1>1, <1>2 DEF RootInv, Bare
<1> QED
  BY <1>3, <1>5, <1>6, <1>8, <1>9 DEF ObsInv

(* A walk begins at a device its record is resolved to (observer.go,       *)
(* related).                                                               *)
LEMMA BeginKeeps ==
  ASSUME ObsInv, at \in {"record", "scan"}, Searches, NEW n \in Device, BeginWalk(n),
         recs' \subseteq Records, names' \subseteq Device, paths' \subseteq Device \X Device,
         \A r, d : Owed(r, d)' => (query.kind # "root" /\ Reported(d)) \/ d = n,
         still => n \in Named,
         still => \A r \in Records \ recs' : ~Missing(r) /\ ~Backless(r),
         query.kind = "root" => recs' = {}
  PROVE  ObsInv'
<1> USE ZenonT(30)
<1> DEFINE fr == Frame(n, TRUE)
<1>1. /\ ObsTypeOK /\ cand \in CandType /\ FrameInv /\ RecordInv /\ ResultInv /\ RootInv
  BY DEF ObsInv
<1>2. UNCHANGED <<query, result, cand, sysfs, mounts, stable, tables, still>>
  BY DEF Searches
<1>3. at' = "walk" /\ stack' = <<fr>> /\ visited' = {n} /\ Walked'
  BY DEF BeginWalk, Walked
<1>4. /\ fr.name = n /\ fr.inc = TRUE /\ fr.at = "enter" /\ fr.look = {} /\ fr.todo = {}
      /\ fr \in FrameType
  BY SMTT(30) DEF Frame, FrameType
<1> HIDE DEF fr
<1>5. stack' \in Seq(FrameType) /\ DOMAIN stack' = {1} /\ stack'[1] = fr /\ stack' # <<>>
  BY <1>3, <1>4, SMTT(30)
<1>8. Named' = Named /\ Same
  BY <1>2, SameNames DEF Same
<1>6. ObsTypeOK' /\ cand' \in CandType
  BY <1>1, <1>2, <1>3, <1>4, <1>5, <1>8 DEF ObsTypeOK, Same
<1>7. FrameInv'
  BY <1>3, <1>4, <1>5 DEF FrameInv, NoDeviceTwice
<1>9. OnStack(n)' /\ Begun(n)'
  BY <1>3, <1>4, <1>5 DEF OnStack, Begun
<1>10. WalkedInv'
  <2>1. \A i \in DOMAIN stack' : Expects(stack[i])' /\ Exact(stack[i])'
    BY <1>4, <1>5 DEF Expects, Exact, AfterParent, AfterSlaves
  <2>2. \A e \in visited' : OnStack(e)'
    BY <1>3, <1>9
  <2>3. n \in related(sysfs, n)
    BY <1>1, SnapshotFacts, RelatedIsLeast
  <2>4. still' => \E s \in Named' : Begun(s)' /\ visited' \subseteq related(sysfs', s)
    BY <1>2, <1>3, <1>8, <1>9, <2>3
  <2>5. IsFiniteSet(visited')
    BY <1>3, FS_Singleton
  <2> QED
    BY <2>1, <2>2, <2>4, <2>5 DEF WalkedInv
<1>11. OwedInv'
  <2>1. Started(n)'
    BY <1>5, <1>9 DEF Started
  <2>2. \A d : Reported(d) => Reported(d)'
    BY <1>2 DEF Reported, Kids
  <2> QED
    BY <1>2, <1>3, <2>1, <2>2 DEF OwedInv
<1>12. RecordInv'
  BY <1>1, <1>2, <1>3, <1>8 DEF RecordInv, Same, Seeking
<1>13. ResultInv'
  BY <1>1, <1>2, <1>8 DEF ResultInv
<1>14. RootInv' /\ FailInv'
  BY <1>1, <1>2, <1>3 DEF RootInv, FailInv, Bare
<1> QED
  BY <1>6, <1>7, <1>10, <1>11, <1>12, <1>13, <1>14 DEF ObsInv

(* A number is looked for (observer.go, MountedDevices and Source).        *)
LEMMA LookForKeeps ==
  ASSUME ObsInv, at = "record", Searches, NEW r \in recs, recs' = recs \ {r}, NEW n, LookFor(n),
         UNCHANGED <<names, paths>>, Seeks(r), \A d \in Names(r) : sysfs[d].num = n,
         still => Names(r) = nameByDeviceNumber(sysfs, n) /\ ~Missing(r)
  PROVE  ObsInv'
<1> USE ZenonT(30)
<1>1. ObsTypeOK /\ OwedInv /\ RecordInv
  BY DEF ObsInv
<1>2. /\ query' = query /\ sysfs' = sysfs /\ mounts' = mounts /\ stable' = stable /\ tables' = tables
      /\ still' = still /\ result' = result /\ names' = names /\ paths' = paths
      /\ at' = "list" /\ num' = n /\ stack' = stack /\ visited' = visited
  BY DEF Searches, LookFor
<1>3. Same /\ recs' \subseteq Records /\ names' \subseteq Device /\ paths' \subseteq Device \X Device
  BY <1>1, <1>2, SameNames DEF ObsTypeOK
<1>4. ~Area(r)
  BY DEF Seeks, Area
<1>5. \A q, d : Owed(q, d) => query.kind # "root" /\ Reported(d)
  BY <1>1 DEF OwedInv, Sought, Seeking, Walked
<1>6. OwedInv'
  <2> SUFFICES ASSUME NEW q, NEW d, Owed(q, d)'
               PROVE  (query'.kind # "root" /\ Reported(d)') \/ (~Area(q)' /\ Sought(d)')
    BY DEF OwedInv
  <2>1. q \in Records \ recs' /\ d \in Names(q) /\ (Area(q) \/ d \in stable)
    BY <1>2, <1>3 DEF Owed, Same
  <2>2. CASE q = r
    BY <1>2, <1>3, <1>4, <2>1, <2>2 DEF Sought, Seeking, Same
  <2>3. CASE q # r
    <3>1. Owed(q, d)
      BY <2>1, <2>3 DEF Owed
    <3>2. query.kind # "root" /\ Reported(d)
      BY <1>5, <3>1
    <3> QED
      BY <1>2, <3>2 DEF Reported, Kids
  <2> QED
    BY <2>2, <2>3
<1>7. RecordInv'
  <2>1. r \in Records' \ recs' /\ Seeks(r)' /\ (still' => Names(r)' = nameByDeviceNumber(sysfs', num'))
    BY <1>1, <1>2, <1>3 DEF ObsTypeOK, Seeks, Same
  <2>2. query.kind = "root" => recs' = {}
    BY <1>1, QueryFacts DEF ObsTypeOK
  <2>3. ASSUME still, NEW q \in Records \ recs'
        PROVE  ~Missing(q) /\ (Backless(q) => nameByDeviceNumber(sysfs, n) = {})
    <3>1. CASE q = r
      BY <2>3, <3>1 DEF Backless
    <3>2. CASE q # r
      BY <1>1, <2>3, <3>2 DEF RecordInv, Seeking
    <3> QED
      BY <3>1, <3>2
  <2>4. still' /\ at' # "failed" => \A q \in Records' \ recs' :
          ~Missing(q)' /\ (Backless(q)' => Seeking' /\ nameByDeviceNumber(sysfs', num') = {})
    BY <1>2, <1>3, <2>3 DEF Same, Seeking
  <2> QED
    BY <1>1, <1>2, <1>3, <2>1, <2>2, <2>4 DEF RecordInv, Same
<1> QED
  BY <1>2, <1>3, <1>6, <1>7, SearchKeeps

(* A record is taken (observer.go, MountedDevices, SwapDevices, RootDisk,  *)
(* Source).                                                                *)
LEMMA NextRecordKeeps ==
  ASSUME ObsInv, NextRecord, Reads PROVE ObsInv'
<1> USE ZenonT(30)
<1>1. ObsTypeOK /\ FrameInv /\ OwedInv /\ RecordInv /\ at = "record"
  BY DEF ObsInv, NextRecord
<1>2. /\ Searches /\ names' = names /\ paths' = paths /\ query' = query /\ sysfs' = sysfs
      /\ mounts' = mounts /\ stable' = stable /\ tables' = tables /\ still' = still
      /\ result' = result /\ cand' = cand
  BY DEF NextRecord, Searches, Reads
<1>3. /\ Same /\ recs \subseteq Records /\ names' \subseteq Device /\ paths' \subseteq Device \X Device
      /\ query.kind = "root" => OfMounts /\ recs = Records
  BY <1>1, <1>2, SameNames, QueryFacts DEF ObsTypeOK, RecordInv
<1>4. \A q, d : Owed(q, d) => query.kind # "root" /\ Reported(d)
  BY <1>1 DEF OwedInv, Sought, Seeking, Walked
<1>5. still => \A q \in Records \ recs : ~Missing(q) /\ ~Backless(q)
  BY <1>1 DEF RecordInv, Seeking
<1>6. CASE recs = {} /\ at' = (IF query.kind = "root" THEN "failed" ELSE "done")
           /\ UNCHANGED <<recs, num, stack, visited>>
  <2>1. recs' = recs /\ stack' = stack /\ visited' = visited /\ recs' \subseteq Records
    BY <1>3, <1>6
  <2>2. CASE query.kind = "root"
    <3>1. at' = "failed" /\ recs' = {} /\ Named' = {}
      BY <1>3, <1>6, <2>1, <2>2 DEF Named, Same
    <3>2. FailInv'
      BY <1>2, <2>2, <3>1 DEF FailInv
    <3> QED
      BY <1>2, <2>1, <3>1, <3>2, EndKeeps
  <2>3. CASE query.kind # "root"
    <3>1. at' = "done" /\ recs' = {}
      BY <1>6, <2>1, <2>3
    <3>2. OwedInv'
      <4>1. \A d : Reported(d) => Reported(d)'
        BY <1>2 DEF Reported, Kids
      <4>2. \A q, d : Owed(q, d)' => Owed(q, d)
        BY <1>2, <1>3, <2>1 DEF Owed, Same
      <4> QED
        BY <1>2, <1>4, <4>1, <4>2 DEF OwedInv
    <3>3. RecordInv'
      BY <1>1, <1>2, <1>3, <1>5, <2>1, <2>3, <3>1 DEF RecordInv, Same, Seeking
    <3> QED
      BY <1>1, <1>2, <1>3, <2>1, <2>3, <3>1, <3>2, <3>3, SearchKeeps
  <2> QED
    BY <2>2, <2>3
<1>7. ASSUME NEW r \in recs, recs' = recs \ {r}, OfMounts, LookFor(r.num) PROVE ObsInv'
  <2>1. Names(r) = nameByDeviceNumber(sysfs, r.num) /\ Seeks(r) /\ ~Missing(r)
    BY <1>7 DEF Names, Seeks, Missing
  <2>2. \A d \in Names(r) : sysfs[d].num = r.num
    BY <2>1 DEF nameByDeviceNumber
  <2> QED
    BY <1>1, <1>2, <1>7, <2>1, <2>2, LookForKeeps
<1>8. ASSUME NEW r \in recs, recs' = recs \ {r}, ~OfMounts, r.kind = "partition", BeginWalk(r.dev)
      PROVE  ObsInv'
  <2>1. r \in Records /\ Area(r) /\ Names(r) = {r.dev} /\ r.dev \in Device /\ recs' \subseteq Records
    BY <1>1, <1>3, <1>8, QueryFacts DEF Area, Names
  <2>2. ASSUME NEW q, NEW d, Owed(q, d)' PROVE (query.kind # "root" /\ Reported(d)) \/ d = r.dev
    <3>1. q \in Records \ recs' /\ d \in Names(q) /\ (Area(q) \/ d \in stable)
      BY <1>2, <1>3, <2>2 DEF Owed, Same
    <3>2. CASE q = r
      BY <2>1, <3>1, <3>2
    <3>3. CASE q # r
      <4>1. Owed(q, d)
        BY <1>8, <3>1, <3>3 DEF Owed
      <4> QED
        BY <1>4, <4>1
    <3> QED
      BY <3>2, <3>3
  <2>3. r.dev \in Named
    BY <2>1 DEF Named
  <2>4. still => \A q \in Records \ recs' : ~Missing(q) /\ ~Backless(q)
    <3>1. ~Missing(r) /\ ~Backless(r)
      BY <1>8 DEF Missing, Backless
    <3> QED
      BY <1>5, <1>8, <3>1
  <2>5. query.kind # "root"
    BY <1>3, <1>8
  <2> QED
    BY <1>1, <1>2, <1>3, <1>8, <2>1, <2>2, <2>3, <2>4, <2>5, BeginKeeps
<1>9. ASSUME NEW r \in recs, recs' = recs \ {r}, Unresolved, ~OfMounts, still => Missing(r)
      PROVE  ObsInv'
  <2>1. /\ r \in Records /\ recs' \subseteq Records /\ query.kind # "root" /\ at' = "failed"
        /\ stack' = stack /\ visited' = visited
    BY <1>3, <1>9 DEF Unresolved
  <2>2. FailInv'
    BY <1>2, <1>3, <1>9, <2>1 DEF FailInv, Same
  <2> QED
    BY <1>2, <2>1, <2>2, EndKeeps
<1>10. ASSUME NEW r \in recs, recs' = recs \ {r}, ~OfMounts, r.kind = "file", FindMount(r.path)
       PROVE  ObsInv'
  <2>1. CASE Covering(mounts, r.path) = {}
    <3>1. Unresolved /\ Missing(r)
      BY <1>10, <2>1 DEF FindMount, Missing
    <3> QED
      BY <1>9, <1>10, <3>1
  <2>2. CASE Covering(mounts, r.path) # {}
    <3> DEFINE n == mounts[selected(mounts, r.path)].num
    <3>1. LookFor(n) /\ Seeks(r) /\ ~Missing(r)
      BY <1>10, <2>2 DEF FindMount, Missing, Seeks
    <3> HIDE DEF n
    <3>2. mounts \in tables /\ (still => tables = {mounts})
      BY <1>1 DEF RecordInv
    <3>3. Names(r) = {d \in DOMAIN sysfs : \A t \in tables : /\ Covering(t, r.path) # {}
                                                             /\ t[selected(t, r.path)].num = sysfs[d].num}
      BY <1>10 DEF Names
    <3>4. \A d \in Names(r) : sysfs[d].num = n
      BY <3>2, <3>3 DEF n
    <3>5. still => Names(r) = nameByDeviceNumber(sysfs, n)
      BY <2>2, <3>2, <3>3 DEF n, nameByDeviceNumber
    <3> QED
      BY <1>1, <1>2, <1>10, <3>1, <3>4, <3>5, LookForKeeps
  <2> QED
    BY <2>1, <2>2
<1>11. ASSUME NEW r \in recs, ~OfMounts, r.kind \notin {"partition", "file"} PROVE Missing(r)
  BY <1>11 DEF Missing
<1> QED
  BY <1>6, <1>7, <1>8, <1>9, <1>10, <1>11 DEF NextRecord

(* What the search knows (observer.go, nameByDeviceNumber).                *)
LEMMA ScanFacts ==
  ASSUME ObsInv, Seeking
  PROVE  /\ recs \subseteq Records /\ names \subseteq Device /\ paths \subseteq Device \X Device
         /\ IsSysfs(sysfs) /\ DOMAIN sysfs \subseteq Device /\ stable \subseteq DOMAIN sysfs
         /\ query.kind = "root" => recs = {}
         /\ still => stable = DOMAIN sysfs
         /\ \A r, d : Owed(r, d) => (query.kind # "root" /\ Reported(d)) \/ (~Area(r) /\ Sought(d) /\ d \in stable)
<1> USE ZenonT(30)
<1>1. ObsTypeOK /\ OwedInv /\ RecordInv
  BY DEF ObsInv
<1>3. IsSysfs(sysfs) /\ DOMAIN sysfs \subseteq Device /\ stable \subseteq DOMAIN sysfs
  BY <1>1, SnapshotFacts
<1>4. \A r, d : Owed(r, d) => (query.kind # "root" /\ Reported(d)) \/ (~Area(r) /\ Sought(d) /\ d \in stable)
  BY <1>1 DEF OwedInv, Walked, Owed, Seeking
<1> QED
  BY <1>1, <1>3, <1>4 DEF ObsTypeOK, RecordInv, Seeking

(* A step of the search for one number.                                    *)
LEMMA SeekKeeps ==
  ASSUME ObsInv, Seeking, at' = "scan", Searches, UNCHANGED <<recs, num, stack, visited>>,
         names' \subseteq Device, paths' \subseteq Device \X Device,
         \A d \in stable : sysfs[d].num = num => d \in names' \/ <<d, d>> \in paths',
         still => names' \subseteq DOMAIN sysfs
  PROVE  ObsInv'
<1> USE ZenonT(30)
<1>1. ObsTypeOK /\ OwedInv /\ RecordInv /\ at \in {"record", "list", "scan"}
  BY DEF ObsInv, Seeking
<1>2. /\ query' = query /\ sysfs' = sysfs /\ mounts' = mounts /\ stable' = stable /\ tables' = tables
      /\ still' = still /\ result' = result /\ recs' = recs /\ num' = num /\ stack' = stack /\ visited' = visited
  BY DEF Searches
<1>3. Same /\ recs' \subseteq Records /\ Seeking'
  BY <1>1, <1>2, SameNames DEF ObsTypeOK, Seeking
<1>4. OwedInv'
  <2>1. \A d : (Reported(d) => Reported(d)') /\ (Sought(d) => Sought(d)')
    BY <1>2, <1>3 DEF Reported, Kids, Sought
  <2>2. \A r, d : Owed(r, d)' => Owed(r, d)
    BY <1>2, <1>3 DEF Owed, Same
  <2> QED
    BY <1>2, <1>3, <2>1, <2>2, ScanFacts DEF OwedInv, Same
<1>5. RecordInv'
  <2>1. \E r \in Records' \ recs' : Seeks(r)' /\ (still' => Names(r)' = nameByDeviceNumber(sysfs', num'))
    BY <1>1, <1>2, <1>3 DEF RecordInv, Same, Seeks
  <2>2. at # "failed" /\ at # "record"
    BY DEF Seeking
  <2> QED
    BY <1>1, <1>2, <1>3, <2>1, <2>2 DEF RecordInv, Same
<1> QED
  BY <1>1, <1>2, <1>3, <1>4, <1>5, SearchKeeps

LEMMA ListNamesKeeps ==
  ASSUME ObsInv, ListNames, Reads PROVE ObsInv'
<1> USE ZenonT(30)
<1>1. Seeking /\ at' = "scan" /\ names' = DOMAIN sysfs /\ paths' = paths /\ Searches
  BY DEF ListNames, Seeking, Searches, Reads
<1>2. recs' = recs /\ num' = num /\ stack' = stack /\ visited' = visited
  BY DEF ListNames
<1>3. DOMAIN sysfs \subseteq Device /\ paths \subseteq Device \X Device /\ stable \subseteq DOMAIN sysfs
  BY <1>1, ScanFacts
<1> QED
  BY <1>1, <1>2, <1>3, SeekKeeps

LEMMA ScanDirectoryKeeps ==
  ASSUME ObsInv, ScanDirectory, Reads PROVE ObsInv'
<1> USE ZenonT(30)
<1>1. at = "scan" /\ paths = {} /\ ObsTypeOK /\ OwedInv /\ RecordInv /\ Seeking
  BY DEF ScanDirectory, ObsInv, Seeking
<1>2. PICK p \in names :
        IF blockPathOK(sysfs, p)
        THEN /\ names' = names \ {p}
             /\ paths' = {p} \X ({p} \union partitionChildren(sysfs, p))
             /\ UNCHANGED <<query, recs, at, num, stack, visited, result, cand>>
        ELSE Fails
  BY DEF ScanDirectory
<1>3. CASE blockPathOK(sysfs, p)
  <2>1. /\ names' = names \ {p} /\ paths' = {p} \X ({p} \union partitionChildren(sysfs, p))
        /\ recs' = recs /\ at' = "scan" /\ num' = num /\ stack' = stack /\ visited' = visited
        /\ Searches
    BY <1>1, <1>2, <1>3 DEF Reads, Searches
  <2>2. p \in Device /\ partitionChildren(sysfs, p) \subseteq Device /\ names \subseteq Device
    BY <1>1, ScanFacts DEF partitionChildren
  <2>3. paths' \subseteq Device \X Device /\ <<p, p>> \in paths'
    BY <2>1, <2>2, SMTT(30)
  <2>4. \A d \in stable : sysfs[d].num = num => d \in names' \/ <<d, d>> \in paths'
    BY <1>1, <2>1, <2>3 DEF RecordInv
  <2>5. names' \subseteq Device /\ (still => names' \subseteq DOMAIN sysfs)
    BY <1>1, <2>1, <2>2 DEF RecordInv
  <2> QED
    BY <1>1, <2>1, <2>3, <2>4, <2>5, SeekKeeps
<1>4. CASE ~blockPathOK(sysfs, p)
  <2>1. Fails
    BY <1>2, <1>4
  <2>2. ~still
    BY <1>1, <1>4 DEF blockPathOK, RecordInv
  <2>3. FailInv'
    BY <2>2 DEF FailInv, Reads
  <2> QED
    BY <1>1, <2>1, <2>3, FailsKeeps
<1> QED
  BY <1>3, <1>4

LEMMA ScanNumberKeeps ==
  ASSUME ObsInv, ScanNumber, Reads PROVE ObsInv'
<1> USE ZenonT(30)
<1>1. at = "scan" /\ ObsTypeOK /\ OwedInv /\ RecordInv /\ Seeking
  BY DEF ScanNumber, ObsInv, Seeking
<1>2. /\ query' = query /\ recs' = recs /\ num' = num /\ result' = result /\ sysfs' = sysfs
      /\ mounts' = mounts /\ stable' = stable /\ tables' = tables /\ still' = still /\ Searches
  BY DEF ScanNumber, Reads, Searches
<1>3. PICK p \in paths :
        IF HasNumber(p[1], p[2])
        THEN BeginWalk(p[2]) /\ names' = {} /\ paths' = {}
        ELSE paths' = paths \ {p} /\ UNCHANGED <<at, names, stack, visited>>
  BY DEF ScanNumber
<1>4. /\ recs \subseteq Records /\ names \subseteq Device /\ paths \subseteq Device \X Device
      /\ IsSysfs(sysfs) /\ stable \subseteq DOMAIN sysfs
      /\ query.kind = "root" => recs = {}
      /\ \A r, d : Owed(r, d) => (query.kind # "root" /\ Reported(d)) \/ (Sought(d) /\ d \in stable)
  BY <1>1, ScanFacts
<1>5. p[2] \in Device
  BY <1>4, SMTT(30)
<1>6. Same
  BY <1>2, SameNames
<1>7. CASE HasNumber(p[1], p[2])
  <2>1. BeginWalk(p[2]) /\ names' = {} /\ paths' = {}
    BY <1>3, <1>7
  <2>2. p[2] \in DOMAIN sysfs /\ sysfs[p[2]].num = num
    BY <1>7 DEF HasNumber, blockPathOK
  <2>3. \A d \in DOMAIN sysfs : sysfs[d].num = num => d = p[2]
    BY <1>4, <2>2 DEF IsSysfs
  <2>4. \A r, d : Owed(r, d)' => (query.kind # "root" /\ Reported(d)) \/ d = p[2]
    <3>1. \A r, d : Owed(r, d)' => Owed(r, d)
      BY <1>2, <1>6 DEF Owed, Same
    <3> QED
      BY <1>4, <2>3, <3>1 DEF Sought
  <2>5. p[2] \in nameByDeviceNumber(sysfs, num)
    BY <2>2 DEF nameByDeviceNumber
  <2>6. still => p[2] \in Named
    BY <1>1, <2>5 DEF RecordInv, Named
  <2>7. still => \A r \in Records \ recs' : ~Missing(r) /\ ~Backless(r)
    BY <1>1, <1>2, <2>5 DEF RecordInv
  <2>8. names' \subseteq Device /\ paths' \subseteq Device \X Device
    BY <2>1
  <2> QED
    BY <1>1, <1>2, <1>4, <1>5, <2>1, <2>4, <2>6, <2>7, <2>8, BeginKeeps
<1>8. CASE ~HasNumber(p[1], p[2])
  <2>1. paths' = paths \ {p} /\ at' = at /\ names' = names /\ stack' = stack /\ visited' = visited
    BY <1>3, <1>8
  <2>2. ASSUME NEW d \in stable, sysfs[d].num = num PROVE d \in names' \/ <<d, d>> \in paths'
    <3>1. d \in DOMAIN sysfs
      BY <1>4, <2>2
    <3>2. p # <<d, d>>
      <4>1. HasNumber(d, d)
        BY <2>2, <3>1 DEF HasNumber, blockPathOK
      <4>2. <<d, d>>[1] = d /\ <<d, d>>[2] = d
        OBVIOUS
      <4> QED
        BY <1>8, <4>1, <4>2
    <3> QED
      BY <1>1, <2>1, <2>2, <3>2 DEF RecordInv
  <2>3. names' \subseteq Device /\ paths' \subseteq Device \X Device /\ (still => names' \subseteq DOMAIN sysfs)
    BY <1>1, <1>4, <2>1 DEF RecordInv
  <2> QED
    BY <1>1, <1>2, <2>1, <2>2, <2>3, SeekKeeps
<1> QED
  BY <1>7, <1>8

(* No device has the number (observer.go, MountedDevices, SwapDevices and  *)
(* RootDisk).                                                              *)
LEMMA NotFoundKeeps ==
  ASSUME ObsInv, NotFound, Reads PROVE ObsInv'
<1> USE ZenonT(30)
<1>1. at = "scan" /\ names = {} /\ paths = {} /\ ObsTypeOK /\ OwedInv /\ RecordInv /\ Seeking
  BY DEF NotFound, ObsInv, Seeking
<1>2. \A d \in stable : sysfs[d].num # num
  BY <1>1 DEF RecordInv
<1>3. CASE query.kind \in {"root", "swaps"}
  <2>1. Fails /\ query' = query /\ sysfs' = sysfs /\ mounts' = mounts /\ tables' = tables /\ still' = still
    BY <1>3 DEF NotFound, Fails, Reads
  <2>2. Same
    BY <2>1, SameNames
  <2>3. PICK r \in Records \ recs : Seeks(r) /\ (still => Names(r) = nameByDeviceNumber(sysfs, num))
    BY <1>1 DEF RecordInv
  <2>4. ASSUME still PROVE Names(r) = {}
    BY <1>1, <1>2, <2>3, <2>4, ScanFacts DEF nameByDeviceNumber
  <2>5. ASSUME query.kind = "root", still PROVE Named = {}
    <3>1. \A q \in Records : q = r
      BY <1>1, <2>3, <2>5, QueryFacts
    <3>2. \A q \in Records : Names(q) = {}
      BY <2>4, <2>5, <3>1
    <3> QED
      BY <3>2 DEF Named
  <2>6. ASSUME query.kind = "swaps", still PROVE Backless(r)
    BY <2>3, <2>4, <2>6 DEF Backless, Seeks, OfMounts
  <2>7. FailInv'
    BY <1>3, <2>1, <2>2, <2>3, <2>5, <2>6 DEF FailInv, Same
  <2> QED
    BY <1>1, <2>1, <2>7, FailsKeeps
<1>4. CASE query.kind \notin {"root", "swaps"}
  <2>1. /\ at' = "record" /\ names' = names /\ paths' = paths
        /\ query' = query /\ recs' = recs /\ num' = num /\ stack' = stack /\ visited' = visited
        /\ result' = result /\ sysfs' = sysfs /\ mounts' = mounts /\ stable' = stable
        /\ tables' = tables /\ still' = still /\ Searches
    BY <1>4 DEF NotFound, Reads, Searches
  <2>2. Same
    BY <2>1, SameNames
  <2>3. OwedInv'
    <3>1. \A r, d : Owed(r, d)' => Owed(r, d)
      BY <2>1, <2>2 DEF Owed, Same
    <3>2. \A d : Reported(d) => Reported(d)'
      BY <2>1 DEF Reported, Kids
    <3>3. \A r, d : Owed(r, d) => query.kind # "root" /\ Reported(d)
      BY <1>1, <1>2, ScanFacts DEF Sought
    <3> QED
      BY <2>1, <3>1, <3>2, <3>3 DEF OwedInv
  <2>4. RecordInv'
    BY <1>1, <1>4, <2>1, <2>2 DEF RecordInv, Same, Backless, Seeking
  <2>5. names' \subseteq Device /\ paths' \subseteq Device \X Device /\ recs' \subseteq Records
    BY <1>1, <2>1, ScanFacts
  <2> QED
    BY <1>1, <1>4, <2>1, <2>3, <2>4, <2>5, SearchKeeps
<1> QED
  BY <1>3, <1>4

(* The second half of physicalRootDisk keeps what the walk has seen.       *)
LEMMA ClassifyKeeps ==
  ASSUME ObsInv, at = "classify", UNCHANGED rootRest, Reads, at' \in {"classify", "done"},
         cand' \in CandType, result' \subseteq Device, RootInv'
  PROVE  ObsInv'
<1> USE ZenonT(30)
<1>1. /\ ObsTypeOK /\ FrameInv /\ WalkedInv /\ OwedInv /\ RecordInv /\ RootInv
  BY DEF ObsInv
<1>2. /\ query' = query /\ recs' = recs /\ num' = num /\ names' = names /\ paths' = paths
      /\ stack' = stack /\ visited' = visited /\ sysfs' = sysfs /\ mounts' = mounts
      /\ stable' = stable /\ tables' = tables /\ still' = still
  BY DEF rootRest, Reads
<1>3. query.kind = "root" /\ stack = <<>> /\ Walked /\ Walked'
  BY <1>1, <1>2 DEF RecordInv, FrameInv, Walked
<1>6. Named' = Named /\ Same
  BY <1>2, SameNames DEF Same
<1>4. ObsTypeOK'
  BY <1>1, <1>2, <1>6 DEF ObsTypeOK, Same
<1>5. FrameInv'
  BY <1>1, <1>2, <1>3 DEF FrameInv, NoDeviceTwice
<1>7. WalkedInv'
  <2>1. \A i \in DOMAIN stack' : Expects(stack[i])' /\ Exact(stack[i])'
    <3>1. DOMAIN <<>> = {}
      BY SMTT(30)
    <3> QED
      BY <1>2, <1>3, <3>1
  <2>2. /\ \A e \in visited' \intersect stable' : Below(sysfs', e) \subseteq visited' \/ OnStack(e)'
        /\ still' => \A e \in visited' : e \in DOMAIN sysfs' \/ OnStack(e)'
        /\ IsFiniteSet(visited')
    BY <1>1, <1>2, <1>3 DEF WalkedInv, OnStack
  <2>3. still' => \E s \in Named' : Begun(s)' /\ visited' \subseteq related(sysfs', s)
    BY <1>1, <1>2, <1>3, <1>6 DEF WalkedInv, Begun
  <2> QED
    BY <2>1, <2>2, <2>3 DEF WalkedInv
<1>8. OwedInv'
  <2>1. \A r, d : Owed(r, d)' => Started(d)
    BY <1>1, <1>2, <1>3, <1>6 DEF OwedInv, Owed, Same, Sought, Seeking
  <2>2. \A d : Started(d) => Started(d)'
    BY <1>2 DEF Started, Begun, Kids
  <2> QED
    BY <1>3, <2>1, <2>2 DEF OwedInv
<1>9. RecordInv'
  BY <1>1, <1>2, <1>3, <1>6 DEF RecordInv, Same, Seeking
<1>10. ResultInv' /\ FailInv'
  BY <1>2, <1>3 DEF ResultInv, FailInv
<1> QED
  BY <1>4, <1>5, <1>7, <1>8, <1>9, <1>10 DEF ObsInv

(* What it knows of the devices the walk has seen.                         *)
LEMMA RootFacts ==
  ASSUME ObsInv, query.kind = "root", at \in {"classify", "done"}
  PROVE  /\ IsSysfs(sysfs) /\ stable \subseteq DOMAIN sysfs /\ visited \subseteq Device
         /\ NoDevice \notin Device /\ result \subseteq visited \ Mapped
         /\ stack = <<>> /\ Walked /\ recs = {}
         /\ \A e \in visited \intersect stable : Below(sysfs, e) \subseteq visited
         /\ still => visited \subseteq DOMAIN sysfs /\ stable = DOMAIN sysfs
         /\ still => \A c \in result : c \in DOMAIN sysfs /\ Bare(c)
<1> USE ZenonT(30)
<1>1. ObsTypeOK /\ FrameInv /\ WalkedInv /\ RecordInv /\ RootInv
  BY DEF ObsInv
<1>2. stack = <<>> /\ Walked /\ recs = {}
  BY <1>1 DEF FrameInv, Walked, RecordInv
<1>3. \A e : ~OnStack(e)
  <2>1. DOMAIN <<>> = {}
    BY SMTT(30)
  <2> QED
    BY <1>2, <2>1 DEF OnStack
<1>4. /\ \A e \in visited \intersect stable : Below(sysfs, e) \subseteq visited
      /\ still => visited \subseteq DOMAIN sysfs
  BY <1>1, <1>2, <1>3 DEF WalkedInv
<1>5. IsSysfs(sysfs) /\ stable \subseteq DOMAIN sysfs
  BY <1>1, SnapshotFacts
<1> QED
  BY <1>1, <1>2, <1>4, <1>5, DeviceAssumption DEF ObsTypeOK, RecordInv, RootInv

LEMMA StatCandidateKeeps ==
  ASSUME ObsInv, StatCandidate, Reads PROVE ObsInv'
<1> USE ZenonT(30)
<1>1. at = "classify" /\ cand.name = NoDevice /\ ObsTypeOK /\ RootInv /\ cand \in CandType
  BY DEF StatCandidate, ObsInv
<1>2. query.kind = "root"
  BY <1>1 DEF ObsInv, RecordInv
<1>3. PICK c \in cand.left :
        IF blockPathOK(sysfs, c)
        THEN /\ cand' = [left |-> cand.left \ {c}, name |-> c, part |-> IsPartition(sysfs, c)]
             /\ UNCHANGED <<rootRest, at, result>>
        ELSE Fails
  BY DEF StatCandidate
<1>4. c \in visited /\ visited \subseteq Device /\ NoDevice \notin Device /\ cand.left \subseteq visited
  BY <1>1, <1>2, RootFacts DEF RootInv
<1>5. CASE blockPathOK(sysfs, c)
  <2>1. /\ cand' = [left |-> cand.left \ {c}, name |-> c, part |-> IsPartition(sysfs, c)]
        /\ at' = at /\ result' = result /\ UNCHANGED rootRest
    BY <1>3, <1>5
  <2>2. /\ query' = query /\ visited' = visited /\ sysfs' = sysfs /\ mounts' = mounts
        /\ stable' = stable /\ tables' = tables /\ still' = still
    BY <2>1 DEF rootRest, Reads
  <2>3. IsPartition(sysfs, c) \in BOOLEAN
    BY DEF IsPartition
  <2>4. /\ cand'.left = cand.left \ {c} /\ cand'.name = c /\ cand'.part = IsPartition(sysfs, c)
        /\ cand' \in CandType
    BY <1>4, <2>1, <2>3 DEF CandType
  <2>5. RootInv'
    <3>1. \A e \in (visited \intersect stable) \ Mapped :
            e \in cand'.left \/ e = cand'.name \/ (Bare(e) => e \in result)
      BY <1>1, <1>2, <1>4, <2>4 DEF RootInv
    <3>2. /\ cand'.name \in stable' => (cand'.part <=> IsPartition(sysfs', cand'.name))
          /\ cand'.left \subseteq visited' /\ cand'.name \in visited' \union {NoDevice}
      BY <1>4, <2>2, <2>4
    <3>3. \A e : Bare(e)' <=> Bare(e)
      BY <2>2 DEF Bare
    <3>4. result' \subseteq visited' \ Mapped /\ (still' => \A e \in result' : e \in DOMAIN sysfs' /\ Bare(e)')
      BY <1>1, <1>2, <2>1, <2>2, <3>3, RootFacts
    <3> QED
      BY <1>1, <2>1, <2>2, <3>1, <3>2, <3>3, <3>4 DEF RootInv
  <2>6. result' \subseteq Device
    BY <1>1, <2>1 DEF ObsTypeOK
  <2> QED
    BY <1>1, <2>1, <2>4, <2>5, <2>6, ClassifyKeeps
<1>6. CASE ~blockPathOK(sysfs, c)
  <2>1. Fails
    BY <1>3, <1>6
  <2>2. ~still
    BY <1>1, <1>2, <1>4, <1>6, RootFacts DEF blockPathOK
  <2>3. FailInv'
    BY <2>2 DEF FailInv, Reads
  <2> QED
    BY <1>1, <2>1, <2>3, FailsKeeps
<1> QED
  BY <1>5, <1>6

LEMMA ListCandidateKeeps ==
  ASSUME ObsInv, ListCandidate, Reads PROVE ObsInv'
<1> USE ZenonT(30)
<1> DEFINE n == cand.name
           bare == blockPathOK(sysfs, n) => sysfs[n].slaves = {}
           found == ~cand.part /\ bare /\ n \notin Mapped
<1>1. at = "classify" /\ n # NoDevice /\ ObsTypeOK /\ RootInv /\ cand \in CandType
  BY DEF ListCandidate, ObsInv
<1>2. query.kind = "root"
  BY <1>1 DEF ObsInv, RecordInv
<1>3. /\ result' = IF found THEN result \union {n} ELSE result
      /\ cand' = [NoCand EXCEPT !.left = cand.left] /\ at' = at /\ UNCHANGED rootRest
  BY DEF ListCandidate
<1>4. /\ query' = query /\ visited' = visited /\ sysfs' = sysfs /\ mounts' = mounts
      /\ stable' = stable /\ tables' = tables /\ still' = still
  BY <1>3 DEF rootRest, Reads
<1>5. /\ IsSysfs(sysfs) /\ stable \subseteq DOMAIN sysfs /\ visited \subseteq Device
      /\ NoDevice \notin Device /\ result \subseteq visited \ Mapped
      /\ still => visited \subseteq DOMAIN sysfs /\ stable = DOMAIN sysfs
      /\ still => \A c \in result : c \in DOMAIN sysfs /\ Bare(c)
  BY <1>1, <1>2, RootFacts
<1>6. /\ \A c \in (visited \intersect stable) \ Mapped : c \in cand.left \/ c = n \/ (Bare(c) => c \in result)
      /\ n \in stable => (cand.part <=> IsPartition(sysfs, n))
      /\ cand.left \subseteq visited /\ n \in visited
  BY <1>1, <1>2 DEF RootInv
<1>7. cand' \in CandType /\ cand'.left = cand.left /\ cand'.name = NoDevice
  BY <1>3, <1>5, <1>6 DEF NoCand, CandType
<1>8. n \in stable \ Mapped /\ Bare(n) => found
  BY <1>5, <1>6 DEF Bare
<1>9. found /\ still => n \in DOMAIN sysfs /\ Bare(n)
  BY <1>5, <1>6 DEF Bare, blockPathOK
<1>10. found => n \in visited \ Mapped
  BY <1>6
<1> HIDE DEF bare, found
<1>11. result \subseteq result' /\ (found => n \in result') /\ \A c \in result' : c \in result \/ (found /\ c = n)
  BY <1>3
<1> HIDE DEF n
<1>12. \A c : Bare(c)' <=> Bare(c)
  BY <1>4 DEF Bare
<1>13. RootInv'
  <2>1. \A c \in (visited' \intersect stable') \ Mapped :
          c \in cand'.left \/ c = cand'.name \/ (Bare(c)' => c \in result')
    BY <1>4, <1>6, <1>7, <1>8, <1>11, <1>12
  <2>2. /\ cand'.name \notin stable'
        /\ cand'.left \subseteq visited' /\ cand'.name \in visited' \union {NoDevice}
    <3>1. NoDevice \notin stable
      BY <1>5 DEF IsSysfs
    <3> QED
      BY <1>4, <1>6, <1>7, <3>1
  <2>3. result' \subseteq visited' \ Mapped
    BY <1>4, <1>5, <1>10, <1>11
  <2>4. still' => \A c \in result' : c \in DOMAIN sysfs' /\ Bare(c)'
    BY <1>4, <1>5, <1>9, <1>11, <1>12
  <2> QED
    BY <1>1, <1>3, <2>1, <2>2, <2>3, <2>4 DEF RootInv
<1>14. result' \subseteq Device
  BY <1>5, <1>10, <1>11
<1> QED
  BY <1>1, <1>3, <1>7, <1>13, <1>14, ClassifyKeeps

(* While nothing changes the walk has seen what one snapshot shows, and    *)
(* the disks found are the ones of that snapshot (observer.go,             *)
(* physicalRootDisk).                                                      *)
LEMMA StillRoot ==
  ASSUME ObsInv, still, query.kind = "root", at = "done" \/ (at = "classify" /\ cand = NoCand)
  PROVE  \E s : Named = {s} /\ relatedOK(sysfs, s) /\ result = physicalRootDisk(sysfs, Named)
<1> USE ZenonT(30)
<1>1. ObsTypeOK /\ OwedInv /\ WalkedInv /\ RootInv /\ OfMounts
  BY DEF ObsInv, OfMounts
<1>2. /\ IsSysfs(sysfs) /\ visited \subseteq Device
      /\ NoDevice \notin Device /\ result \subseteq visited \ Mapped
      /\ stack = <<>> /\ Walked /\ recs = {} /\ visited \subseteq DOMAIN sysfs /\ stable = DOMAIN sysfs
      /\ \A e \in visited \intersect stable : Below(sysfs, e) \subseteq visited
      /\ \A c \in result : c \in DOMAIN sysfs /\ Bare(c)
  BY RootFacts
<1>3. PICK s \in Named : Begun(s) /\ visited \subseteq related(sysfs, s)
  BY <1>1, <1>2 DEF WalkedInv
<1>4. PICK r \in Records : s \in Names(r)
  BY <1>3 DEF Named
<1>5. Named = Names(r) /\ Names(r) = nameByDeviceNumber(sysfs, r.num)
  <2>1. \A q \in Records : q = r
    BY <1>1, <1>4, QueryFacts
  <2> QED
    BY <1>1, <1>4, <2>1 DEF Named, Names
<1>6. s \in DOMAIN sysfs /\ sysfs[s].num = r.num /\ s \in Device
  BY <1>2, <1>4, <1>5 DEF nameByDeviceNumber, IsSysfs
<1>7. Named = {s}
  <2>1. \A d \in DOMAIN sysfs : sysfs[d].num = r.num => d = s
    BY <1>2, <1>6 DEF IsSysfs
  <2>2. \A d \in nameByDeviceNumber(sysfs, r.num) : d = s
    BY <2>1 DEF nameByDeviceNumber
  <2> QED
    BY <1>3, <1>5, <2>2
<1>8. visited = related(sysfs, s)
  <2>1. Owed(r, s)
    BY <1>2, <1>4, <1>6 DEF Owed
  <2>2. Started(s)
    BY <1>1, <2>1 DEF OwedInv, Sought, Seeking
  <2>3. partitionChildren(sysfs, s) \subseteq visited
    BY <1>2, <1>6, <2>2 DEF Started, Kids, partitionChildren
  <2>4. s \in visited /\ Closed(sysfs, visited)
    BY <1>2, <1>3 DEF Begun, Closed
  <2>5. related(sysfs, s) \subseteq visited
    BY <1>2, <1>6, <2>3, <2>4, RelatedIsLeast
  <2> QED
    BY <1>3, <2>5
<1>9. relatedOK(sysfs, s)
  BY <1>2, <1>8 DEF relatedOK, blockPathOK
<1>10. \A c \in visited \ Mapped : Bare(c) => c \in result
  <2>1. NoCand.left = {} /\ NoCand.name = NoDevice
    BY SMTT(30) DEF NoCand
  <2> QED
    BY <1>1, <1>2, <2>1 DEF RootInv
<1>11. expand(sysfs, Named) = visited
  BY <1>7, <1>8 DEF expand
<1>12. physicalRootDisk(sysfs, Named) = {c \in visited \ Mapped : Bare(c)}
  BY <1>11 DEF physicalRootDisk, Bare
<1>13. result = {c \in visited \ Mapped : Bare(c)}
  BY <1>2, <1>10
<1> QED
  BY <1>7, <1>9, <1>12, <1>13

LEMMA ClassifiedKeeps ==
  ASSUME ObsInv, Classified, Reads PROVE ObsInv'
<1> USE ZenonT(30)
<1>1. at = "classify" /\ cand = NoCand /\ ObsTypeOK /\ RootInv /\ cand \in CandType
  BY DEF Classified, ObsInv
<1>2. query.kind = "root"
  BY <1>1 DEF ObsInv, RecordInv
<1>3. UNCHANGED rootRest /\ result' = result /\ cand' = cand
  BY DEF Classified
<1>4. /\ query' = query /\ visited' = visited /\ sysfs' = sysfs /\ mounts' = mounts
      /\ stable' = stable /\ tables' = tables /\ still' = still
  BY <1>3 DEF rootRest, Reads
<1>5. CASE Cardinality(result) = 1
  <2>1. at' = "done"
    BY <1>5 DEF Classified
  <2>2. NoCand.left = {} /\ NoCand.name = NoDevice
    BY SMTT(30) DEF NoCand
  <2>3. \A c \in (visited \intersect stable) \ Mapped : Bare(c) => c \in result
    BY <1>1, <1>2, <2>2, RootFacts DEF RootInv
  <2>4. \A c : Bare(c)' <=> Bare(c)
    BY <1>4 DEF Bare
  <2>5. result' \subseteq visited' \ Mapped /\ (still' => \A e \in result' : e \in DOMAIN sysfs' /\ Bare(e)')
    BY <1>1, <1>2, <1>3, <1>4, <2>4, RootFacts
  <2>6. RootInv'
    BY <1>3, <1>4, <1>5, <2>1, <2>3, <2>4, <2>5 DEF RootInv
  <2>7. result' \subseteq Device
    BY <1>1, <1>3 DEF ObsTypeOK
  <2> QED
    BY <1>1, <1>3, <2>1, <2>6, <2>7, ClassifyKeeps
<1>6. CASE Cardinality(result) # 1
  <2>1. Fails
    BY <1>3, <1>6 DEF Classified, Fails, rootRest
  <2>2. Same
    BY <1>4, SameNames
  <2>3. still => Cardinality(physicalRootDisk(sysfs, Named)) # 1
    BY <1>1, <1>2, <1>6, StillRoot
  <2>4. FailInv'
    BY <1>2, <1>4, <2>2, <2>3 DEF FailInv, Same
  <2> QED
    BY <1>1, <2>1, <2>4, FailsKeeps
<1> QED
  BY <1>5, <1>6

(* Every step keeps the invariant.                                         *)
LEMMA ObsKeeps == ASSUME ObsInv, ObsNext PROVE ObsInv'
<1> USE ZenonT(30)
<1>1. CASE Machine
  BY <1>1, ChangeKeeps DEF Machine
<1>2. CASE Program
  <2>1. Reads /\ (Scan \/ Walk \/ Classify)
    BY <1>2 DEF Program, Reads, machVars
  <2>2. CASE Scan
    BY <2>1, <2>2, NextRecordKeeps, ListNamesKeeps, ScanDirectoryKeeps, ScanNumberKeeps, NotFoundKeeps DEF Scan
  <2>3. CASE Walk
    <3>1. CASE EnterDevice
      BY <2>1, <3>1, EnterKeeps, EnterFails
    <3>2. CASE ListChildren
      BY <2>1, <3>2, ListChildrenKeeps, ListChildrenFails
    <3>3. CASE ListDisks \/ TryDisk \/ ListSlaves \/ LookForMark
      BY <2>1, <3>3, ListDisksKeeps, TryDiskKeeps, ListSlavesKeeps, LookForMarkKeeps
    <3>4. CASE Descend \/ Leave \/ WalkDone
      BY <2>1, <3>4, DescendKeeps, LeaveKeeps, WalkDoneKeeps
    <3> QED
      BY <2>3, <3>1, <3>2, <3>3, <3>4 DEF Walk
  <2>4. CASE Classify
    BY <2>1, <2>4, StatCandidateKeeps, ListCandidateKeeps, ClassifiedKeeps DEF Classify
  <2> QED
    BY <2>1, <2>2, <2>3, <2>4
<1> QED
  BY <1>1, <1>2 DEF ObsNext

LEMMA ObsStutters == ASSUME ObsInv, UNCHANGED obsVars PROVE ObsInv'
<1> USE ZenonT(30)
<1>1. /\ ObsTypeOK /\ cand \in CandType /\ FrameInv /\ WalkedInv /\ OwedInv /\ RecordInv
      /\ ResultInv /\ RootInv /\ FailInv
  BY DEF ObsInv
<1>2. /\ query' = query /\ recs' = recs /\ at' = at /\ num' = num /\ names' = names /\ paths' = paths
      /\ stack' = stack /\ visited' = visited /\ result' = result /\ cand' = cand
      /\ sysfs' = sysfs /\ mounts' = mounts /\ stable' = stable /\ tables' = tables /\ still' = still
  BY DEF obsVars, progVars, machVars
<1>3. Named' = Named /\ (Walked' <=> Walked) /\ Same
  BY <1>2, SameNames DEF Same, Walked
<1>4. ObsTypeOK' /\ cand' \in CandType
  BY <1>1, <1>2, <1>3 DEF ObsTypeOK, Same
<1>5. FrameInv'
  BY <1>1, <1>2 DEF FrameInv, NoDeviceTwice
<1>6. WalkedInv'
  <2>1. Walked => \A i \in DOMAIN stack' : Expects(stack[i])' /\ Exact(stack[i])'
    BY <1>1, <1>2 DEF WalkedInv, Expects, Exact, Kids, DiskOf
  <2>2. Walked =>
          /\ \A e \in visited' \intersect stable' : Below(sysfs', e) \subseteq visited' \/ OnStack(e)'
          /\ still' => \A e \in visited' : e \in DOMAIN sysfs' \/ OnStack(e)'
          /\ IsFiniteSet(visited')
    BY <1>1, <1>2 DEF WalkedInv, OnStack
  <2>3. Walked /\ still' => \E s \in Named' : Begun(s)' /\ visited' \subseteq related(sysfs', s)
    BY <1>1, <1>2, <1>3 DEF WalkedInv, Begun
  <2> QED
    BY <1>3, <2>1, <2>2, <2>3 DEF WalkedInv
<1>7. OwedInv'
  BY <1>1, <1>2, <1>3 DEF OwedInv, Owed, Same, Reported, Sought, Seeking, Started, Begun, Kids
<1>8. RecordInv'
  BY <1>1, <1>2, <1>3, RecordKeeps
<1>9. ResultInv'
  BY <1>1, <1>2, <1>3 DEF ResultInv
<1>10. RootInv'
  BY <1>1, <1>2 DEF RootInv, Bare
<1>11. FailInv'
  BY <1>1, <1>2, <1>3 DEF FailInv, Same
<1> QED
  BY <1>4, <1>5, <1>6, <1>7, <1>8, <1>9, <1>10, <1>11 DEF ObsInv

(* The inductive invariant of an observation.                              *)
LEMMA ObsInvariant == ObsSpec => []ObsInv
<1>1. ObsInit => ObsInv
  BY ObsInitially, Zenon
<1>2. ObsInv /\ [ObsNext]_obsVars => ObsInv'
  BY ObsKeeps, ObsStutters, Zenon
<1> QED
  BY <1>1, <1>2, PTL DEF ObsSpec

(* The state of an observation has its type, whatever changes on the       *)
(* machine meanwhile (observer.go).                                        *)
THEOREM ObservationTypeCorrect == ObsSpec => []ObsTypeOK
<1>1. ObsInv => ObsTypeOK
  BY Zenon DEF ObsInv
<1> QED
  BY <1>1, ObsInvariant, PTL

(* The recursion never enters a device that is being walked, also when the *)
(* mappings are turned round under it (observer.go, walkRelated).          *)
THEOREM WalksNoDeviceTwice == ObsSpec => []NoDeviceTwice
<1>1. ObsInv => NoDeviceTwice
  BY Zenon DEF ObsInv, FrameInv
<1> QED
  BY <1>1, ObsInvariant, PTL

(* What Source finds is what a process sees when no mount hides another    *)
(* (observer.go, Source: selected).                                        *)
LEMMA MeantIsNamed ==
  ASSUME NEW r, ~OfMounts /\ r.kind = "file" => Unhidden(r.path) PROVE Meant(r) = Names(r)
<1> USE ZenonT(30)
<1>1. CASE OfMounts \/ r.kind = "partition"
  BY <1>1 DEF Meant, Names
<1>2. CASE ~OfMounts /\ r.kind = "file"
  <2>1. \A t \in tables : Covering(t, r.path) # {} => selected(t, r.path) = visible(t, r.path)
    BY <1>2 DEF Unhidden
  <2>2. ASSUME NEW d
        PROVE  (\A t \in tables : Covering(t, r.path) # {} /\ t[visible(t, r.path)].num = sysfs[d].num)
               <=> \A t \in tables : Covering(t, r.path) # {} /\ t[selected(t, r.path)].num = sysfs[d].num
    BY <2>1
  <2> QED
    BY <1>2, <2>2 DEF Meant, Names
<1>3. CASE ~OfMounts /\ r.kind \notin {"partition", "file"}
  BY <1>3 DEF Meant, Names
<1> QED
  BY <1>1, <1>2, <1>3

(* Whatever comes, goes, is mapped again or mounted during the reads, an   *)
(* observation that succeeds reports each device that stays and is         *)
(* mounted, a swap partition, or below a swap file or the source, with all *)
(* that hangs on it through devices that stay; a file over which one mount *)
(* hides another is not claimed (observer.go, MountedDevices, SwapDevices, *)
(* Source).                                                                *)
THEOREM StableUseIsReported == ObsSpec => []StableUseReported
<1>1. ObsInv => StableUseReported
  <2> SUFFICES ASSUME ObsInv, at = "done", query.kind # "root", NEW r \in Records,
                      ~OfMounts /\ r.kind = "file" => Unhidden(r.path),
                      NEW d \in Meant(r), d \in stable, NEW x \in StableRelated(d)
               PROVE  x \in result
    BY Zenon DEF StableUseReported
  <2>1. ObsTypeOK /\ OwedInv /\ RecordInv /\ ResultInv
    BY Zenon DEF ObsInv
  <2>2. Owed(r, d)
    <3>1. d \in Names(r)
      BY MeantIsNamed, Zenon
    <3> QED
      BY <2>1, <3>1, Zenon DEF Owed, RecordInv
  <2>3. Reported(d)
    BY <2>1, <2>2, Zenon DEF OwedInv, Sought, Seeking, Walked
  <2>4. result \in SUBSET Device /\ \A e \in result \intersect stable : Below(sysfs, e) \subseteq result
    BY <2>1, Zenon DEF ObsTypeOK, ResultInv
  <2>5. {d} \union (partitionChildren(sysfs, d) \intersect stable) \subseteq result
    BY <2>3, Zenon DEF Reported, Kids
  <2> QED
    BY <2>4, <2>5, Zenon DEF StableRelated
<1> QED
  BY <1>1, ObsInvariant, PTL

(* What hangs on a device through devices that stay.                       *)
LEMMA StableRelatedFacts ==
  ASSUME ObsTypeOK, NEW d \in Device
  PROVE  /\ d \in StableRelated(d) /\ StableRelated(d) \subseteq Device
         /\ \A e \in StableRelated(d) \intersect stable : Below(sysfs, e) \subseteq StableRelated(d)
         /\ \A S \in SUBSET Device :
              d \in S /\ Kids(d) \subseteq S /\ (\A e \in S \intersect stable : Below(sysfs, e) \subseteq S)
                => StableRelated(d) \subseteq S
<1> USE ZenonT(30)
<1> DEFINE Holds(S) == /\ {d} \union (partitionChildren(sysfs, d) \intersect stable) \subseteq S
                       /\ \A e \in S \intersect stable : Below(sysfs, e) \subseteq S
<1>1. StableRelated(d) = {x \in Device : \A S \in SUBSET Device : Holds(S) => x \in S}
  BY DEF StableRelated
<1>2. d \in StableRelated(d) /\ StableRelated(d) \subseteq Device
  BY <1>1
<1>3. \A e \in stable : Below(sysfs, e) \subseteq Device
  BY SnapshotFacts, BelowType
<1>4. ASSUME NEW e \in StableRelated(d) \intersect stable, NEW b \in Below(sysfs, e) PROVE b \in StableRelated(d)
  <2>1. ASSUME NEW S \in SUBSET Device, Holds(S) PROVE b \in S
    BY <1>1, <1>4, <2>1
  <2> QED
    BY <1>1, <1>3, <1>4, <2>1
<1>5. ASSUME NEW S \in SUBSET Device, d \in S, Kids(d) \subseteq S,
             \A e \in S \intersect stable : Below(sysfs, e) \subseteq S
      PROVE  StableRelated(d) \subseteq S
  <2>1. Holds(S)
    BY <1>5 DEF Kids
  <2> QED
    BY <1>1, <2>1
<1> QED
  BY <1>2, <1>4, <1>5

(* A set with one element.                                                 *)
LEMMA OneElement == ASSUME NEW S, IsFiniteSet(S), Cardinality(S) = 1 PROVE \E x : S = {x}
BY FS_Singleton

(* Where all that hangs on a device stays, the partitions of the device    *)
(* are all that may be missing from it.                                    *)
LEMMA StableStack ==
  ASSUME ObsTypeOK, NEW d \in stable, StableRelated(d) \subseteq stable
  PROVE  related(sysfs, d) \subseteq StableRelated(d) \union partitionChildren(sysfs, d)
<1> USE ZenonT(30)
<1> DEFINE T == StableRelated(d) \union partitionChildren(sysfs, d)
<1>1. IsSysfs(sysfs) /\ WellFormed(sysfs) /\ d \in Device /\ NoDevice \notin Device
  BY SnapshotFacts, SnapshotAssumption, DeviceAssumption DEF ObsTypeOK
<1>2. /\ d \in StableRelated(d) /\ StableRelated(d) \subseteq Device
      /\ \A e \in StableRelated(d) : Below(sysfs, e) \subseteq StableRelated(d)
  BY <1>1, StableRelatedFacts
<1>3. T \in SUBSET Device
  BY <1>1, <1>2, BelowType
<1>4. ASSUME NEW e \in partitionChildren(sysfs, d) PROVE Below(sysfs, e) \subseteq {d}
  <2>1. e \in DOMAIN sysfs /\ sysfs[e].parent = d /\ sysfs[e].slaves = {}
    BY <1>1 DEF partitionChildren, WellFormed
  <2> QED
    BY <2>1 DEF Below
<1>5. Closed(sysfs, T)
  <2>1. \A e \in T : Below(sysfs, e) \subseteq T
    BY <1>2, <1>4
  <2> QED
    BY <2>1 DEF Closed
<1>6. d \in T /\ partitionChildren(sysfs, d) \subseteq T
  BY <1>2
<1> HIDE DEF T
<1>7. related(sysfs, d) \subseteq T
  BY <1>1, <1>3, <1>5, <1>6, RelatedIsLeast
<1> QED
  BY <1>7 DEF T

(* If nothing on the way to it has changed, the disk that RootDisk returns *)
(* is the physical disk below the root filesystem, whatever else changed   *)
(* during the reads (observer.go, physicalRootDisk).                       *)
THEOREM StableRootIsFound == ObsSpec => []StableRootIsExact
<1>1. ObsInv => StableRootIsExact
  <2> SUFFICES ASSUME ObsInv, at = "done", query.kind = "root", NEW r \in Records,
                      NEW d \in Meant(r), d \in stable, StableRelated(d) \subseteq stable
               PROVE  result = physicalRootDisk(sysfs, {d})
    BY Zenon DEF StableRootIsExact
  <2> USE ZenonT(30)
  <2>1. ObsTypeOK /\ OwedInv /\ WalkedInv /\ RootInv
    BY DEF ObsInv
  <2>2. /\ visited \in SUBSET Device /\ stack = <<>> /\ Walked /\ recs = {} /\ NoDevice \notin Device
        /\ stable \subseteq DOMAIN sysfs /\ result \subseteq visited
        /\ \A e \in visited \intersect stable : Below(sysfs, e) \subseteq visited
    BY RootFacts
  <2>0. d \in nameByDeviceNumber(sysfs, r.num) /\ d \in Names(r)
    BY DEF Meant, Names, OfMounts
  <2>3. d \in Device /\ Owed(r, d)
    BY <2>0, <2>1, <2>2, NamesType DEF Owed
  <2>4. d \in visited /\ Kids(d) \subseteq visited
    BY <2>1, <2>2, <2>3 DEF OwedInv, Sought, Seeking, Started, Begun
  <2>5. StableRelated(d) \subseteq visited
    BY <2>1, <2>2, <2>3, <2>4, StableRelatedFacts
  <2>6. related(sysfs, d) \subseteq StableRelated(d) \union partitionChildren(sysfs, d)
    BY <2>1, StableStack
  <2>7. ASSUME NEW c \in physicalRootDisk(sysfs, {d}) PROVE c \in result
    <3>1. c \in related(sysfs, d) /\ c \notin Mapped /\ Bare(c)
      BY <2>7 DEF physicalRootDisk, expand, Bare
    <3>2. c \notin partitionChildren(sysfs, d)
      BY <2>2, <2>3, <3>1 DEF partitionChildren, Bare, IsPartition
    <3>3. c \in visited \intersect stable
      BY <2>5, <2>6, <3>1, <3>2
    <3> QED
      BY <2>1, <3>1, <3>3 DEF RootInv
  <2>8. physicalRootDisk(sysfs, {d}) # {}
    <3>1. relatedOK(sysfs, d)
      BY <2>2, <2>6 DEF relatedOK, blockPathOK, partitionChildren
    <3>2. sysfs \in Topologies /\ query.table \in MountTables /\ r \in RootRecords(query.table)
      BY <2>1, QueryFacts DEF ObsTypeOK, Records
    <3>3. IsSysfs(sysfs)
      BY <2>1, SnapshotFacts
    <3>4. d \in related(sysfs, d) /\ \A e \in related(sysfs, d) : Below(sysfs, e) \subseteq related(sysfs, d)
      BY <2>3, <3>3, RelatedIsLeast
    <3>5. sysfs[d].num = r.num
      BY <2>0 DEF nameByDeviceNumber
    <3>6. related(sysfs, d) \in SUBSET DOMAIN sysfs
      BY <3>1 DEF relatedOK, blockPathOK
    <3>7. ASSUME NEW e \in related(sysfs, d)
          PROVE  /\ sysfs[e].slaves \subseteq related(sysfs, d)
                 /\ sysfs[e].parent \in related(sysfs, d) \union {NoDevice}
      <4>1. Below(sysfs, e) = sysfs[e].slaves \union ({sysfs[e].parent} \ {NoDevice})
        BY <3>6, <3>7 DEF Below
      <4> QED
        BY <3>4, <3>7, <4>1
    <3>8. Bottoms(sysfs, related(sysfs, d)) # {}
      <4>1. Whole(sysfs, related(sysfs, d))
        BY <3>7 DEF Whole
      <4>2. \E e \in related(sysfs, d) : sysfs[e].num = r.num
        BY <3>4, <3>5
      <4> QED
        BY <3>2, <3>6, <4>1, <4>2, BottomAssumption
    <3>9. PICK c \in related(sysfs, d) \ Mapped : sysfs[c].parent = NoDevice /\ sysfs[c].slaves = {}
      BY <3>8 DEF Bottoms
    <3> QED
      BY <3>9 DEF physicalRootDisk, expand, IsPartition
  <2>9. \E x : result = {x}
    <3>1. IsFiniteSet(visited) /\ Cardinality(result) = 1
      BY <2>1, <2>2 DEF WalkedInv, RootInv
    <3>2. IsFiniteSet(result)
      BY <2>2, <3>1, FS_Subset
    <3> QED
      BY <3>1, <3>2, OneElement
  <2> QED
    BY <2>7, <2>8, <2>9
<1> QED
  BY <1>1, ObsInvariant, PTL

(* While nothing changes, mounts and swap areas give what one snapshot     *)
(* gives (observer.go, expand).                                            *)
LEMMA StillUse ==
  ASSUME ObsInv, still, query.kind # "root", at = "done"
  PROVE  /\ \A n \in Named : relatedOK(sysfs, n)
         /\ result = expand(sysfs, Named)
         /\ \A r \in Records : ~Missing(r) /\ ~Backless(r)
<1> USE ZenonT(30)
<1>1. ObsTypeOK /\ OwedInv /\ RecordInv /\ ResultInv
  BY DEF ObsInv
<1>2. /\ recs = {} /\ stable = DOMAIN sysfs /\ IsSysfs(sysfs) /\ result \in SUBSET Device
      /\ result \subseteq DOMAIN sysfs /\ result \subseteq expand(sysfs, Named)
      /\ \A e \in result : Below(sysfs, e) \subseteq result
  BY <1>1, SnapshotFacts DEF RecordInv, ResultInv, ObsTypeOK
<1>3. Closed(sysfs, result)
  BY <1>2 DEF Closed
<1>4. ASSUME NEW n \in Named PROVE related(sysfs, n) \subseteq result
  <2>1. n \in Device
    BY <1>1, NamedType
  <2>2. PICK r \in Records : n \in Names(r)
    BY DEF Named
  <2>3. Area(r) \/ n \in stable
    BY <1>2, <2>2 DEF Names, nameByDeviceNumber, Area
  <2>4. Reported(n)
    <3>1. Owed(r, n)
      BY <1>2, <2>2, <2>3 DEF Owed
    <3> QED
      BY <1>1, <3>1 DEF OwedInv, Sought, Seeking, Walked
  <2>5. n \in result /\ partitionChildren(sysfs, n) \subseteq result
    BY <1>2, <2>4 DEF Reported, Kids, partitionChildren
  <2> QED
    BY <1>2, <1>3, <2>1, <2>5, RelatedIsLeast
<1>5. \A n \in Named : relatedOK(sysfs, n)
  BY <1>2, <1>4 DEF relatedOK, blockPathOK
<1>6. expand(sysfs, Named) \subseteq result
  BY <1>4 DEF expand
<1>7. \A r \in Records : ~Missing(r) /\ ~Backless(r)
  BY <1>1, <1>2 DEF RecordInv, Seeking
<1> QED
  BY <1>2, <1>5, <1>6, <1>7

(* While nothing changes a file lies on what Source finds.                 *)
LEMMA StillFile ==
  ASSUME ObsInv, still, NEW r, ~OfMounts, r.kind = "file"
  PROVE  /\ Covering(mounts, r.path) = {} => Names(r) = {}
         /\ Covering(mounts, r.path) # {} => Names(r) = SourceNames(sysfs, mounts, r.path)
<1> USE ZenonT(30)
<1>1. tables = {mounts}
  BY DEF ObsInv, RecordInv
<1>2. Names(r) = {d \in DOMAIN sysfs : /\ Covering(mounts, r.path) # {}
                                       /\ mounts[selected(mounts, r.path)].num = sysfs[d].num}
  BY <1>1 DEF Names
<1> QED
  BY <1>2 DEF SourceNames, nameByDeviceNumber

(* Nothing hangs on no device only.                                        *)
LEMMA NoneIsNone == ASSUME ObsTypeOK, NEW S \in SUBSET Device PROVE expand(sysfs, S) = {} <=> S = {}
<1> USE ZenonT(30)
<1>1. \A n \in S : n \in related(sysfs, n)
  BY SnapshotFacts, RelatedIsLeast
<1>2. \A x : x \in expand(sysfs, S) <=> \E n \in S : x \in related(sysfs, n)
  BY DEF expand
<1>3. CASE S = {}
  BY <1>2, <1>3
<1>4. CASE S # {}
  <2>1. PICK n : n \in S
    BY <1>4
  <2> QED
    BY <1>1, <1>2, <1>4, <2>1
<1> QED
  BY <1>3, <1>4

(* The four calls on a machine at rest, one by one: first why they fail,   *)
(* then what they return.                                                  *)
LEMMA StillMounts ==
  ASSUME ObsInv, Finished, still, query.kind = "mounts"
  PROVE  /\ at = "done" <=> MountedDevicesOK(sysfs, mounts)
         /\ at = "done" => result = MountedDevices(sysfs, mounts)
<1> USE ZenonT(30)
<1>1. FailInv /\ (at = "done" \/ at = "failed") /\ OfMounts /\ query.table = mounts
  BY DEF ObsInv, RecordInv, Finished, OfMounts
<1>2. Records = {mounts[i] : i \in DOMAIN mounts}
  BY <1>1 DEF Records
<1>3. \A r : Names(r) = nameByDeviceNumber(sysfs, r.num)
  BY <1>1 DEF Names
<1>4. Named = MountNames(sysfs, mounts)
  BY <1>2, <1>3 DEF Named, MountNames
<1>5. \A r : ~Missing(r) /\ ~Backless(r)
  BY <1>1 DEF Missing, Backless
<1>6. CASE at = "failed"
  BY <1>1, <1>4, <1>5, <1>6 DEF FailInv, MountedDevicesOK
<1>7. CASE at = "done"
  BY <1>4, <1>7, StillUse DEF MountedDevicesOK, MountedDevices
<1> QED
  BY <1>1, <1>6, <1>7

LEMMA StillSource ==
  ASSUME ObsInv, Finished, still, query.kind = "source"
  PROVE  LET path == query.table[1].path IN
           /\ at = "done" <=> SourceOK(sysfs, mounts, path)
           /\ at = "done" => result = Source(sysfs, mounts, path).backing
<1> USE ZenonT(30)
<1> DEFINE path == query.table[1].path
<1>1. FailInv /\ ObsTypeOK /\ (at = "done" \/ at = "failed") /\ ~OfMounts
  BY DEF ObsInv, Finished, OfMounts
<1>2. PICK p \in SourcePaths : query.table = <<FileAt(p)>> /\ Records = {FileAt(p)}
  BY <1>1, QueryFacts
<1> DEFINE r == FileAt(p)
<1>3. r.kind = "file" /\ r.path = p
  BY SMTT(30) DEF FileAt
<1>4. path = p
  <2>1. query.table[1] = r
    BY <1>2, SMTT(30)
  <2> QED
    BY <1>3, <2>1
<1> HIDE DEF r, path
<1>5. Records = {r}
  BY <1>2 DEF r
<1>6. Named = Names(r)
  BY <1>5 DEF Named
<1>7. ~Backless(r) /\ (Missing(r) <=> Covering(mounts, p) = {})
  BY <1>1, <1>3 DEF Backless, Missing
<1>8. /\ Covering(mounts, p) = {} => Names(r) = {}
      /\ Covering(mounts, p) # {} => Names(r) = SourceNames(sysfs, mounts, p)
  BY <1>1, <1>3, StillFile
<1>9. Source(sysfs, mounts, p).backing = expand(sysfs, SourceNames(sysfs, mounts, p))
  BY SMTT(30) DEF Source
<1>10. at = "failed" => ~SourceOK(sysfs, mounts, p)
  BY <1>1, <1>5, <1>6, <1>7, <1>8 DEF FailInv, SourceOK
<1>11. at = "done" => SourceOK(sysfs, mounts, p) /\ result = Source(sysfs, mounts, p).backing
  BY <1>5, <1>6, <1>7, <1>8, <1>9, StillUse DEF SourceOK
<1>12. (at = "done" <=> SourceOK(sysfs, mounts, path)) /\ (at = "done" => result = Source(sysfs, mounts, path).backing)
  BY <1>1, <1>4, <1>10, <1>11
<1> QED
  BY <1>12 DEF path

LEMMA StillSwaps ==
  ASSUME ObsInv, Finished, still, query.kind = "swaps"
  PROVE  /\ at = "done" <=> SwapDevicesOK(sysfs, mounts, query.table)
         /\ at = "done" => result = SwapDevices(sysfs, mounts, query.table)
<1> USE ZenonT(30)
<1> DEFINE T == query.table
           Back(r) == Source(sysfs, mounts, r.path).backing
           Hang(r) == IF r.kind = "partition" THEN related(sysfs, r.dev) ELSE Back(r)
<1>1. FailInv /\ ObsTypeOK /\ (at = "done" \/ at = "failed") /\ ~OfMounts
  BY DEF ObsInv, Finished, OfMounts
<1>2. Records = {T[i] : i \in DOMAIN T}
  BY DEF Records
<1>3. \A r : Back(r) = expand(sysfs, SourceNames(sysfs, mounts, r.path))
  BY SMTT(30) DEF Source
<1>4. \A r : r.kind = "partition" => Names(r) = {r.dev} /\ ~Missing(r) /\ ~Backless(r)
  BY <1>1 DEF Names, Missing, Backless
<1>5. ASSUME NEW r, r.kind = "file"
      PROVE  /\ Covering(mounts, r.path) = {} => Names(r) = {}
             /\ Covering(mounts, r.path) # {} => Names(r) = SourceNames(sysfs, mounts, r.path)
             /\ (Missing(r) <=> Covering(mounts, r.path) = {}) /\ (Backless(r) <=> Names(r) = {})
  <2>1. (Missing(r) <=> Covering(mounts, r.path) = {}) /\ (Backless(r) <=> Names(r) = {})
    BY <1>1, <1>5 DEF Missing, Backless
  <2> QED
    BY <1>1, <1>5, <2>1, StillFile
<1>6. \A r : r.kind \notin {"partition", "file"} => Names(r) = {} /\ Missing(r)
  BY <1>1 DEF Names, Missing
<1> HIDE DEF Back
<1>7. ASSUME NEW r \in Records
      PROVE  SwapRecordOK(sysfs, mounts, r) <=>
               ~Missing(r) /\ ~Backless(r) /\ \A n \in Names(r) : relatedOK(sysfs, n)
  <2>1. CASE r.kind = "partition"
    BY <1>4, <2>1 DEF SwapRecordOK
  <2>2. CASE r.kind = "file"
    <3>1. Covering(mounts, r.path) # {} => (Back(r) = {} <=> Names(r) = {})
      <4>1. ASSUME Covering(mounts, r.path) # {} PROVE Back(r) = {} <=> Names(r) = {}
        <5>1. Back(r) = expand(sysfs, Names(r)) /\ Names(r) \in SUBSET Device
          BY <1>1, <1>3, <1>5, <2>2, <4>1, NamesType
        <5> QED
          BY <1>1, <5>1, NoneIsNone
      <4> QED
        BY <4>1
    <3>2. SwapRecordOK(sysfs, mounts, r) <=> SourceOK(sysfs, mounts, r.path) /\ Back(r) # {}
      BY <2>2 DEF SwapRecordOK, Back
    <3> QED
      BY <1>5, <2>2, <3>1, <3>2 DEF SourceOK
  <2>3. CASE r.kind \notin {"partition", "file"}
    BY <1>6, <2>3 DEF SwapRecordOK
  <2> QED
    BY <2>1, <2>2, <2>3
<1>8. SwapDevicesOK(sysfs, mounts, T) <=> \A r \in Records : SwapRecordOK(sysfs, mounts, r)
  BY <1>2 DEF SwapDevicesOK
<1>9. at = "failed" => ~SwapDevicesOK(sysfs, mounts, T)
  BY <1>1, <1>7, <1>8 DEF FailInv, Named
<1>10. ASSUME at = "done"
       PROVE  SwapDevicesOK(sysfs, mounts, T) /\ result = SwapDevices(sysfs, mounts, T)
  <2>1. /\ \A n \in Named : relatedOK(sysfs, n)
        /\ result = expand(sysfs, Named)
        /\ \A r \in Records : ~Missing(r) /\ ~Backless(r)
    BY <1>10, StillUse
  <2>2. SwapDevicesOK(sysfs, mounts, T)
    BY <1>7, <1>8, <2>1 DEF Named
  <2>3. ASSUME NEW r \in Records PROVE expand(sysfs, Names(r)) = Hang(r)
    <3>1. CASE r.kind = "partition"
      BY <1>4, <3>1 DEF expand
    <3>2. CASE r.kind = "file"
      BY <1>3, <1>5, <2>1, <3>2
    <3> QED
      BY <1>6, <2>1, <3>1, <3>2
  <2>4. SwapDevices(sysfs, mounts, T) = UNION {Hang(r) : r \in Records}
    BY <1>2 DEF SwapDevices, Back
  <2>5. \A x : x \in expand(sysfs, Named) <=> \E r \in Records : x \in expand(sysfs, Names(r))
    <3>1. \A S, x : x \in expand(sysfs, S) <=> \E n \in S : x \in related(sysfs, n)
      BY DEF expand
    <3>2. \A n : n \in Named <=> \E r \in Records : n \in Names(r)
      BY DEF Named
    <3> QED
      BY <3>1, <3>2
  <2>6. \A x : x \in UNION {Hang(r) : r \in Records} <=> \E r \in Records : x \in expand(sysfs, Names(r))
    BY <2>3
  <2> QED
    BY <2>1, <2>2, <2>4, <2>5, <2>6
<1> QED
  BY <1>1, <1>9, <1>10

LEMMA StillRootDisk ==
  ASSUME ObsInv, Finished, still, query.kind = "root"
  PROVE  /\ at = "done" <=> RootDiskOK(sysfs, mounts)
         /\ at = "done" => result = {RootDisk(sysfs, mounts)}
<1> USE ZenonT(30)
<1>1. FailInv /\ RootInv /\ WalkedInv /\ (at = "done" \/ at = "failed") /\ OfMounts /\ query.table = mounts
  BY DEF ObsInv, RecordInv, Finished, OfMounts
<1>2. Records = RootRecords(mounts)
  BY <1>1 DEF Records
<1>3. \A r : Names(r) = nameByDeviceNumber(sysfs, r.num) /\ ~Missing(r) /\ ~Backless(r)
  BY <1>1 DEF Names, Missing, Backless
<1>4. Named = RootNames(sysfs, mounts)
  <2> DEFINE First(j) == mounts[j].point = <<>> /\ \A k \in DOMAIN mounts : mounts[k].point = <<>> => j <= k
  <2>1. \A x : x \in Named <=> \E j \in DOMAIN mounts : First(j) /\ x \in nameByDeviceNumber(sysfs, mounts[j].num)
    BY <1>2, <1>3 DEF Named, RootRecords
  <2>2. \A x : x \in RootNames(sysfs, mounts) <=>
          \E j \in DOMAIN mounts : First(j) /\ x \in nameByDeviceNumber(sysfs, mounts[j].num)
    BY DEF RootNames
  <2> QED
    BY <2>1, <2>2
<1>5. CASE at = "failed"
  BY <1>1, <1>3, <1>4, <1>5 DEF FailInv, RootDiskOK
<1>6. CASE at = "done"
  <2>1. PICK s : Named = {s} /\ relatedOK(sysfs, s) /\ result = physicalRootDisk(sysfs, Named)
    BY <1>6, StillRoot
  <2>2. Cardinality(result) = 1 /\ IsFiniteSet(result)
    <3>1. Cardinality(result) = 1 /\ result \subseteq visited /\ IsFiniteSet(visited)
      BY <1>1, <1>6 DEF RootInv, WalkedInv, Walked
    <3> QED
      BY <3>1, FS_Subset
  <2>3. Named # {} /\ \A n \in Named : relatedOK(sysfs, n)
    BY <2>1
  <2>4. RootDiskOK(sysfs, mounts)
    BY <1>4, <2>1, <2>2, <2>3 DEF RootDiskOK
  <2>5. PICK x : result = {x}
    BY <2>2, OneElement
  <2>6. RootDisk(sysfs, mounts) \in {x}
    BY <1>4, <2>1, <2>5 DEF RootDisk
  <2> QED
    BY <1>6, <2>4, <2>5, <2>6
<1> QED
  BY <1>1, <1>5, <1>6

(* While nothing changes the many reads amount to one snapshot: the same   *)
(* names, and an error exactly when the snapshot has one, also for swap    *)
(* files and swap areas of unknown type (observer.go, MountedDevices,      *)
(* SwapDevices, RootDisk, Source).                                         *)
THEOREM StillReadsAreOneSnapshot == ObsSpec => []SnapshotWhenStill
<1>1. ObsInv => SnapshotWhenStill
  BY StillMounts, StillSwaps, StillRootDisk, StillSource, ZenonT(30) DEF SnapshotWhenStill
<1> QED
  BY <1>1, ObsInvariant, PTL
=============================================================================
