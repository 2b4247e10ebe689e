---------------------------- MODULE RelatedWalk ----------------------------
(***************************************************************************)
(* Observer.related as the algorithm it is: the recursive walk with its    *)
(* seen map, over one sysfs snapshot.  pending holds the recursive calls   *)
(* that are still to be made; the code makes them depth first in name      *)
(* order, here they are made in any order.                                 *)
(***************************************************************************)
EXTENDS Observer, Policy

VARIABLES sys, start, pending, seen, err

walkVars == <<sys, start, pending, seen, err>>

WalkInit ==
  /\ WellFormed(sys)
  /\ start \in Device
  /\ pending = {<<start, TRUE>>} /\ seen = {} /\ err = FALSE

\* Mutants: the partitions of every visited disk are visited; a device that
\* was seen is visited again.
Visit_AllPartitions(name, includePartitions) ==
  /\ ~err /\ <<name, includePartitions>> \in pending /\ UNCHANGED <<sys, start>>
  /\ seen' = seen \union {name}
  /\ err' = ~blockPathOK(sys, name)
  /\ pending' = (pending \ {<<name, includePartitions>>}) \union
       (IF name \in seen THEN {}
        ELSE (Below(sys, name) \union partitionChildren(sys, name)) \X {FALSE})
Visit_Again(name, includePartitions) ==
  /\ ~err /\ <<name, includePartitions>> \in pending /\ UNCHANGED <<sys, start>>
  /\ seen' = seen \union {name}
  /\ err' = ~blockPathOK(sys, name)
  /\ pending' =
       (pending \ {<<name, includePartitions>>}) \union
       ((Below(sys, name) \union
           (IF includePartitions THEN partitionChildren(sys, name) ELSE {})) \X {FALSE})

\* walkRelated(name, includePartitions, seen); an error ends the whole walk.
Visit(name, includePartitions) ==
  /\ ~err
  /\ <<name, includePartitions>> \in pending
  /\ UNCHANGED <<sys, start>>
  /\ \/ /\ name \in seen
        /\ pending' = pending \ {<<name, includePartitions>>}
        /\ UNCHANGED <<seen, err>>
     \/ /\ name \notin seen
        /\ seen' = seen \union {name}
        /\ err' = ~blockPathOK(sys, name)
        /\ pending' =
             (pending \ {<<name, includePartitions>>}) \union
             ((Below(sys, name) \union
                 (IF includePartitions THEN partitionChildren(sys, name) ELSE {})) \X {FALSE})

WalkNext == \E name \in Device, inc \in BOOLEAN : Visit(name, inc)

WalkSpec == WalkInit /\ [][WalkNext]_walkVars /\ WF_walkVars(WalkNext)

Done == err \/ pending = {}
----------------------------------------------------------------------------
WalkTypeOK ==
  /\ WellFormed(sys) /\ start \in Device
  /\ pending \subseteq Device \X BOOLEAN /\ seen \subseteq Device /\ err \in BOOLEAN

(* When the walk ends without an error it has visited exactly the start,   *)
(* its partitions and everything below them, and it ends with an error     *)
(* exactly when one of these is missing from sysfs; cycles among slaves do *)
(* not matter (observer.go, walkRelated).                                  *)
WalkComputesRelated ==
  Done => /\ err <=> ~relatedOK(sys, start)
          /\ ~err => seen = related(sys, start)

(* The walk ends, whatever the relations are (observer.go, walkRelated).   *)
WalkEnds == <>Done

\* Where the data of a device lies: the device, its partitions, and the same
\* for everything it is mapped onto.
MappedOnto(s, n) ==
  {d \in Device : \A S \in SUBSET Device :
     n \in S /\ (\A e \in S \intersect DOMAIN s : s[e].slaves \subseteq S) => d \in S}
Footprint(s, n) == UNION {{d} \union partitionChildren(s, d) : d \in MappedOnto(s, n)}

(* The name comparison of the policy is sound: a device that shares        *)
(* storage with the target, through partitions and any stack of mappings,  *)
(* has in common with it a name that deviceNames and the expansion of      *)
(* MountedDevices and SwapDevices both list (policy/inspect.go,            *)
(* intersects; observer.go, related).                                      *)
NamesCoverStorage ==
  LET own   == Footprint(sys, start)
      names == deviceNames(Target(sys, start))
  IN  relatedOK(sys, start) =>
        \A m \in Device : own \intersect Footprint(sys, m) # {} => intersects(related(sys, m), names)
=============================================================================
