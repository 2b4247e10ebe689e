---------------------------- MODULE Observation ----------------------------
(***************************************************************************)
(* MountedDevices, SwapDevices, RootDisk and Source of                     *)
(* internal/linux/observer.go as what they are: a read of a procfs table,  *)
(* then many reads of single sysfs files and directories, with devices and *)
(* mounts coming, going and changing between any two of them.  Source      *)
(* reads the mount table anew for each swap file.  The recursion of        *)
(* walkRelated is a stack of frames                                        *)
(*    [name, inc |-> includePartitions, at |-> the next read,              *)
(*     look |-> directory entries still to be looked into,                 *)
(*     todo |-> names still to be walked].                                 *)
(* The code takes records, entries and names in order, here the order is   *)
(* free.                                                                   *)
(***************************************************************************)
EXTENDS Observer

CONSTANTS Topologies,   \* the sysfs snapshots the machine can show
          MountTables,  \* the tables mountinfo can show
          SwapTables,   \* the tables /proc/swaps can show
          SourcePaths   \* the paths Source is asked about

ASSUME SnapshotAssumption == \A sys \in Topologies : WellFormed(sys)
ASSUME MountAssumption == \A t \in MountTables : DOMAIN t \subseteq Nat
ASSUME SwapAssumption ==
  \A t \in SwapTables : \A i \in DOMAIN t : t[i].kind = "partition" => t[i].dev \in Device

\* RootDisk takes the first record of "/".
RootRecords(t) ==
  {t[i] : i \in {j \in DOMAIN t : t[j].point = <<>> /\ \A k \in DOMAIN t : t[k].point = <<>> => j <= k}}

\* The root filesystem lies on a disk: a set of devices that holds its own
\* device, and of each member the slaves and the disk, has a bottom.
Whole(sys, S) == \A d \in S : sys[d].slaves \subseteq S /\ sys[d].parent \in S \union {NoDevice}
Bottoms(sys, S) == {c \in S \ Mapped : sys[c].parent = NoDevice /\ sys[c].slaves = {}}
ASSUME BottomAssumption ==
  \A sys \in Topologies, t \in MountTables : \A r \in RootRecords(t), S \in SUBSET DOMAIN sys :
    Whole(sys, S) /\ (\E d \in S : sys[d].num = r.num) => Bottoms(sys, S) # {}

VARIABLES sysfs,
          mounts,   \* what mountinfo shows
          query,    \* [kind, table |-> the records read when the call began]
          recs,     \* records not resolved yet
          at,       \* "record", "list", "scan", "walk", "classify", "done", "failed"
          num,      \* nameByDeviceNumber: the number it looks for,
          names,    \*   the top-level names it has still to visit,
          paths,    \*   and the <<directory, name>> pairs whose dev file it has still to read
          stack,    \* walkRelated: its frames, the innermost last
          visited,  \* walkRelated: the seen map
          result,   \* the names found so far
          cand,     \* physicalRootDisk: [left, name, part]
          stable,   \* history: the devices that have not changed since the call began,
          tables,   \*   the tables mountinfo has shown since,
          still     \*   and whether nothing at all has changed

progVars == <<query, recs, at, num, names, paths, stack, visited, result, cand>>
machVars == <<sysfs, mounts, stable, tables, still>>
obsVars  == <<progVars, machVars>>

\* Source is asked about one path as SwapDevices is about a swap file.
FileAt(path) == [kind |-> "file", dev |-> NoDevice, path |-> path]

Queries(mnt) ==
  [kind : {"mounts", "root"}, table : {mnt}] \union [kind : {"swaps"}, table : SwapTables]
  \union [kind : {"source"}, table : {<<FileAt(p)>> : p \in SourcePaths}]

\* The records a call resolves, those of mountinfo or those of /proc/swaps.
Records == IF query.kind = "root" THEN RootRecords(query.table)
           ELSE {query.table[i] : i \in DOMAIN query.table}
OfMounts == query.kind \in {"mounts", "root"}

NoCand == [left |-> {}, name |-> NoDevice, part |-> FALSE]

Start(sys, mnt, q) ==
  /\ sysfs = sys /\ mounts = mnt /\ query = q
  /\ recs = Records /\ at = "record" /\ num = 0 /\ names = {} /\ paths = {}
  /\ stack = <<>> /\ visited = {} /\ result = {} /\ cand = NoCand
  /\ stable = DOMAIN sys /\ tables = {mnt} /\ still = TRUE

ObsInit == \E sys \in Topologies, mnt \in MountTables : \E q \in Queries(mnt) : Start(sys, mnt, q)

----------------------------------------------------------------------------
Frame(name, inc) == [name |-> name, inc |-> inc, at |-> "enter", look |-> {}, todo |-> {}]
Top    == stack[Len(stack)]
SetTop(f) == stack' = [stack EXCEPT ![Len(stack)] = f]

Fails ==
  /\ at' = "failed"
  /\ UNCHANGED <<query, recs, num, names, paths, stack, visited, result, cand>>

BeginWalk(name) ==
  /\ at' = "walk" /\ stack' = <<Frame(name, TRUE)>> /\ visited' = {name}

LookFor(n) == at' = "list" /\ num' = n /\ UNCHANGED <<stack, visited>>
Unresolved == at' = "failed" /\ UNCHANGED <<num, stack, visited>>

\* Source looks for the mount that contains the path in the table of now.
FindMount(path) ==
  IF Covering(mounts, path) = {} THEN Unresolved ELSE LookFor(mounts[selected(mounts, path)].num)

\* The loop over the records; a swap partition names its device itself.
NextRecord ==
  /\ at = "record"
  /\ \/ recs = {} /\ at' = (IF query.kind = "root" THEN "failed" ELSE "done")
        /\ UNCHANGED <<recs, num, stack, visited>>
     \/ \E r \in recs :
          /\ recs' = recs \ {r}
          /\ \/ OfMounts /\ LookFor(r.num)
             \/ ~OfMounts /\ r.kind = "partition" /\ BeginWalk(r.dev) /\ UNCHANGED num
             \/ ~OfMounts /\ r.kind = "file" /\ FindMount(r.path)
             \/ ~OfMounts /\ r.kind \notin {"partition", "file"} /\ Unresolved
  /\ UNCHANGED <<query, names, paths, result, cand>>

\* nameByDeviceNumber: topLevelNames, then one directory after the other.
ListNames ==
  /\ at = "list"
  /\ at' = "scan" /\ names' = DOMAIN sysfs
  /\ UNCHANGED <<query, recs, num, paths, stack, visited, result, cand>>

\* Mutant: a directory that has gone ends the search.
ScanDirectory_Breaks ==
  /\ at = "scan" /\ paths = {}
  /\ \E p \in names :
       IF blockPathOK(sysfs, p)
       THEN /\ names' = names \ {p}
            /\ paths' = {p} \X ({p} \union partitionChildren(sysfs, p))
       ELSE names' = {} /\ UNCHANGED paths
  /\ UNCHANGED <<query, recs, at, num, stack, visited, result, cand>>

\* It lists a directory and then reads the dev file of it and of what it
\* listed; only an unreadable directory is an error.
ScanDirectory ==
  /\ at = "scan" /\ paths = {}
  /\ \E p \in names :
       IF blockPathOK(sysfs, p)
       THEN /\ names' = names \ {p}
            /\ paths' = {p} \X ({p} \union partitionChildren(sysfs, p))
            /\ UNCHANGED <<query, recs, at, num, stack, visited, result, cand>>
       ELSE Fails

HasNumber(dir, name) ==
  /\ blockPathOK(sysfs, name) /\ (name = dir \/ sysfs[name].parent = dir)
  /\ sysfs[name].num = num

ScanNumber ==
  /\ at = "scan"
  /\ \E p \in paths :
       IF HasNumber(p[1], p[2])
       THEN BeginWalk(p[2]) /\ names' = {} /\ paths' = {}
       ELSE paths' = paths \ {p} /\ UNCHANGED <<at, names, stack, visited>>
  /\ UNCHANGED <<query, recs, num, result, cand>>

\* Mutant: found is not looked at.
NotFound_Walks ==
  /\ at = "scan" /\ names = {} /\ paths = {}
  /\ BeginWalk(NoDevice)
  /\ UNCHANGED <<query, recs, num, names, paths, result, cand>>

\* Mutant: a swap file without a block device is passed over.
NotFound_Unproven ==
  /\ at = "scan" /\ names = {} /\ paths = {}
  /\ IF query.kind = "root" THEN Fails
     ELSE at' = "record" /\ UNCHANGED <<query, recs, num, names, paths, stack, visited, result, cand>>

\* A mount or a source without a block device is none, a root or a swap file
\* without one is an error.
NotFound ==
  /\ at = "scan" /\ names = {} /\ paths = {}
  /\ IF query.kind \in {"root", "swaps"} THEN Fails
     ELSE at' = "record" /\ UNCHANGED <<query, recs, num, names, paths, stack, visited, result, cand>>

----------------------------------------------------------------------------
(* walkRelated                                                             *)

Walking(next) == at = "walk" /\ stack # <<>> /\ Top.todo = {} /\ Top.at = next
walkRest == <<query, recs, at, num, names, paths, result, cand>>

\* Mutant: a device that is not there is waited for.
EnterDevice_Waits ==
  /\ Walking("enter")
  /\ IF blockPathOK(sysfs, Top.name)
     THEN SetTop([Top EXCEPT !.at = "list"]) /\ UNCHANGED <<walkRest, visited>>
     ELSE UNCHANGED progVars

EnterDevice ==                                               \* blockPath
  /\ Walking("enter")
  /\ IF blockPathOK(sysfs, Top.name)
     THEN SetTop([Top EXCEPT !.at = "list"]) /\ UNCHANGED <<walkRest, visited>>
     ELSE Fails

\* partitionParent: every registered name is tried as the disk.
ListDisks ==
  /\ Walking("list")
  /\ SetTop([Top EXCEPT !.at = "parent", !.look = DOMAIN sysfs])
  /\ UNCHANGED <<walkRest, visited>>

Marked(dir, name) == blockPathOK(sysfs, name) /\ sysfs[name].parent = dir

TryDisk ==
  /\ Walking("parent")
  /\ \/ Top.look = {} /\ SetTop([Top EXCEPT !.at = "slaves"])
     \/ \E d \in Top.look :
          IF Marked(d, Top.name)
          THEN SetTop([Top EXCEPT !.at = "slaves", !.look = {}, !.todo = {d}])
          ELSE SetTop([Top EXCEPT !.look = @ \ {d}])
  /\ UNCHANGED <<walkRest, visited>>

\* sortedEntries: a device that has gone has no slaves.
ListSlaves ==
  /\ Walking("slaves")
  /\ SetTop([Top EXCEPT !.at = IF Top.inc THEN "children" ELSE "leave",
                        !.todo = IF blockPathOK(sysfs, Top.name) THEN sysfs[Top.name].slaves ELSE {}])
  /\ UNCHANGED <<walkRest, visited>>

\* partitionChildren: the directory is listed, then each entry looked into.
ListChildren ==
  /\ Walking("children")
  /\ IF blockPathOK(sysfs, Top.name)
     THEN /\ SetTop([Top EXCEPT !.at = "marks", !.look = partitionChildren(sysfs, Top.name)])
          /\ UNCHANGED <<walkRest, visited>>
     ELSE Fails

LookForMark ==
  /\ at = "walk" /\ stack # <<>> /\ Top.at = "marks"
  /\ \/ Top.look = {} /\ SetTop([Top EXCEPT !.at = "leave"])
     \/ \E c \in Top.look :
          SetTop([Top EXCEPT !.look = @ \ {c}, !.todo = IF Marked(Top.name, c) THEN @ \union {c} ELSE @])
  /\ UNCHANGED <<walkRest, visited>>

\* Mutant: the seen map is not consulted.
Descend_Unseen ==
  /\ at = "walk" /\ stack # <<>> /\ Top.at # "marks"
  /\ \E n \in Top.todo :
       stack' = Append([stack EXCEPT ![Len(stack)].todo = @ \ {n}], Frame(n, FALSE)) /\ visited' = visited
  /\ UNCHANGED walkRest

\* The recursive call.
Descend ==
  /\ at = "walk" /\ stack # <<>> /\ Top.at # "marks"
  /\ \E n \in Top.todo :
       LET rest == [stack EXCEPT ![Len(stack)].todo = @ \ {n}] IN
         IF n \in visited THEN stack' = rest /\ visited' = visited
         ELSE stack' = Append(rest, Frame(n, FALSE)) /\ visited' = visited \union {n}
  /\ UNCHANGED walkRest

Leave ==
  /\ Walking("leave")
  /\ stack' = SubSeq(stack, 1, Len(stack) - 1)
  /\ UNCHANGED <<walkRest, visited>>

\* expand, or the second half of physicalRootDisk.
WalkDone ==
  /\ at = "walk" /\ stack = <<>>
  /\ IF query.kind = "root"
     THEN at' = "classify" /\ cand' = [NoCand EXCEPT !.left = visited] /\ UNCHANGED result
     ELSE at' = "record" /\ result' = result \union visited /\ UNCHANGED cand
  /\ UNCHANGED <<query, recs, num, names, paths, stack, visited>>

----------------------------------------------------------------------------
(* physicalRootDisk: each related device is looked at again.               *)
rootRest == <<query, recs, num, names, paths, stack, visited>>

StatCandidate ==
  /\ at = "classify" /\ cand.name = NoDevice
  /\ \E c \in cand.left :
       IF blockPathOK(sysfs, c)
       THEN /\ cand' = [left |-> cand.left \ {c}, name |-> c, part |-> IsPartition(sysfs, c)]
            /\ UNCHANGED <<rootRest, at, result>>
       ELSE Fails

ListCandidate ==
  /\ at = "classify" /\ cand.name # NoDevice
  /\ LET bare == blockPathOK(sysfs, cand.name) => sysfs[cand.name].slaves = {} IN
       result' = IF ~cand.part /\ bare /\ cand.name \notin Mapped
                 THEN result \union {cand.name} ELSE result
  /\ cand' = [NoCand EXCEPT !.left = cand.left]
  /\ UNCHANGED <<rootRest, at>>

\* Mutant: of several disks the first is taken.
Classified_First ==
  /\ at = "classify" /\ cand = NoCand
  /\ at' = IF result = {} THEN "failed" ELSE "done"
  /\ result' = {d \in result : d = CHOOSE e \in result : TRUE}
  /\ UNCHANGED <<rootRest, cand>>

Classified ==
  /\ at = "classify" /\ cand = NoCand
  /\ at' = IF Cardinality(result) = 1 THEN "done" ELSE "failed"
  /\ UNCHANGED <<rootRest, result, cand>>

----------------------------------------------------------------------------
Scan == NextRecord \/ ListNames \/ ScanDirectory \/ ScanNumber \/ NotFound
Walk ==
  \/ EnterDevice \/ ListDisks \/ TryDisk \/ ListSlaves \/ ListChildren \/ LookForMark
  \/ Descend \/ Leave \/ WalkDone
Classify == StatCandidate \/ ListCandidate \/ Classified

Program == (Scan \/ Walk \/ Classify) /\ UNCHANGED machVars

Change(sys, mnt) ==
  /\ sysfs' = sys /\ mounts' = mnt /\ still' = FALSE
  /\ stable' = {d \in stable \intersect DOMAIN sys : sys[d] = sysfs[d]}
  /\ tables' = tables \union {mnt}
  /\ UNCHANGED progVars

Machine ==
  \E sys \in Topologies, mnt \in MountTables : <<sys, mnt>> # <<sysfs, mounts>> /\ Change(sys, mnt)

ObsNext == Program \/ Machine

\* The call keeps running; the machine may keep changing for ever, or not.
ObsSpec == ObsInit /\ [][ObsNext]_obsVars /\ WF_obsVars(Program)
----------------------------------------------------------------------------
ObsTypeOK ==
  /\ sysfs \in Topologies /\ mounts \in MountTables /\ tables \subseteq MountTables
  /\ \E t \in MountTables : query \in Queries(t)
  /\ recs \subseteq Records
  /\ at \in {"record", "list", "scan", "walk", "classify", "done", "failed"}
  /\ names \subseteq Device /\ paths \subseteq Device \X Device
  /\ visited \subseteq Device /\ result \subseteq Device /\ stable \subseteq DOMAIN sysfs
  /\ still \in BOOLEAN
  /\ \A i \in DOMAIN stack : stack[i].look \subseteq Device /\ stack[i].todo \subseteq Device

Finished == at \in {"done", "failed"}

\* Source finds the mount that a process sees: no later mount hides it.
Unhidden(path) == \A t \in tables : Covering(t, path) # {} => selected(t, path) = visible(t, path)

\* The devices a record means; a file lies on what was mounted over it all
\* the time.
Meant(r) ==
  IF OfMounts THEN nameByDeviceNumber(sysfs, r.num)
  ELSE IF r.kind = "partition" THEN {r.dev}
  ELSE {d \in DOMAIN sysfs : /\ r.kind = "file"
                             /\ \A t \in tables : /\ Covering(t, r.path) # {}
                                                   /\ t[visible(t, r.path)].num = sysfs[d].num}

\* What hangs together with a device through entries that have not changed.
StableRelated(start) ==
  {d \in Device : \A S \in SUBSET Device :
     /\ {start} \union (partitionChildren(sysfs, start) \intersect stable) \subseteq S
     /\ \A e \in S \intersect stable : Below(sysfs, e) \subseteq S
     => d \in S}

(* An observation that succeeds reports every device in use, mounted, a    *)
(* swap partition, or below a swap file or the source, that was there all  *)
(* the time, with all that is above and below it through devices that were *)
(* there all the time, whatever else came, went, was mapped again or       *)
(* mounted between its reads (observer.go, MountedDevices, SwapDevices,    *)
(* Source).  A file over which one mount hides another is not claimed:     *)
(* Source then takes the hidden one (observer.go, Source: selected).       *)
StableUseReported ==
  at = "done" /\ query.kind # "root" =>
    \A r \in Records : (~OfMounts /\ r.kind = "file" => Unhidden(r.path)) =>
      \A d \in Meant(r) \intersect stable : StableRelated(d) \subseteq result

(* The disk RootDisk returns is the one physical disk below the root       *)
(* filesystem if nothing on the way to it has changed, whatever else has   *)
(* (observer.go, physicalRootDisk).                                        *)
StableRootIsExact ==
  at = "done" /\ query.kind = "root" =>
    \A r \in Records : \A d \in Meant(r) \intersect stable :
      StableRelated(d) \subseteq stable => result = physicalRootDisk(sysfs, {d})

(* While nothing changes, the many reads amount to the one snapshot that   *)
(* the operators of Observer take, which the gates are checked against:    *)
(* the same names, and an error exactly when they have one, be it of a     *)
(* walk, of a swap file that no mount or no block device holds, or of a    *)
(* swap area of unknown type (observer.go, MountedDevices, SwapDevices,    *)
(* RootDisk, Source).                                                      *)
SnapshotWhenStill ==
  LET agrees(ok, found) == (at = "done" <=> ok) /\ (at = "done" => result = found)
      path == query.table[1].path
  IN  Finished /\ still =>
        /\ query.kind = "mounts" =>
             agrees(MountedDevicesOK(sysfs, mounts), MountedDevices(sysfs, mounts))
        /\ query.kind = "swaps" =>
             agrees(SwapDevicesOK(sysfs, mounts, query.table), SwapDevices(sysfs, mounts, query.table))
        /\ query.kind = "root" =>
             agrees(RootDiskOK(sysfs, mounts), {RootDisk(sysfs, mounts)})
        /\ query.kind = "source" =>
             agrees(SourceOK(sysfs, mounts, path), Source(sysfs, mounts, path).backing)

(* The recursion is never deeper than there are names: a device that is    *)
(* being walked is not entered again, even when the mappings are turned    *)
(* round during the walk, so that a mapping seems to lie below itself      *)
(* (observer.go, walkRelated).                                             *)
NoDeviceTwice == \A i, j \in DOMAIN stack : stack[i].name = stack[j].name => i = j

(* Every observation comes to an end, also on a machine that never stops   *)
(* changing (observer.go, walkRelated and nameByDeviceNumber).             *)
ObservationEnds == <>Finished
=============================================================================
