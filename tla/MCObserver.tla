----------------------------- MODULE MCObserver -----------------------------
(* Two questions about the observer in one state space.  Some behaviours   *)
(* walk one still snapshot (RelatedWalk): every device graph over the      *)
(* given names, absent, a partition, or a whole device with any set of     *)
(* slaves, cycles and missing slaves included.  The others run one query   *)
(* (Observation) on a machine that changes without end.  The one that is   *)
(* not asked about has ended.                                              *)
EXTENDS RelatedWalk, Observation

Number == [d \in Device |-> CHOOSE n \in 1 .. 4 : d = <<"a", "b", "c", "d">>[n]]
MCInst  == Device \union {"x", "y"}
MCIdent == [i \in MCInst |-> [serial |-> "", wwn |-> "", sectors |-> 2]]

entries(d) ==
  {[inst |-> d, num |-> Number[d], parent |-> p, slaves |-> {}] : p \in Device \ {d}}
  \union
  {[inst |-> d, num |-> Number[d], parent |-> NoDevice, slaves |-> S] : S \in SUBSET (Device \ {d})}

choices(d) == {{}} \union {{e} : e \in entries(d)}

\* The walk treats all names alike: it starts at a, and the other names are
\* given out by kind, absent, partition, whole device.
rank(choice) == IF choice = {} THEN 0 ELSE IF \E e \in choice : e.parent # NoDevice THEN 1 ELSE 2

\* A graph, from one entry or none ({}) for each name.
Pick(a, b, c, d) ==
  LET all == [x \in Device |-> CASE x = "a" -> a [] x = "b" -> b [] x = "c" -> c [] x = "d" -> d]
  IN  [x \in {y \in Device : all[y] # {}} |-> CHOOSE e \in all[x] : TRUE]

\* The machine of Observation: disk a, its partition b, mappings c and d
\* that are stacked either way round, move to the whole disk or span two
\* disks; b also comes back as another disk that takes over c's number.
whole(inst, number, below) ==
  [inst |-> inst, num |-> number, parent |-> NoDevice, slaves |-> below]
disk == whole("a", 1, {})
part == [inst |-> "b", num |-> 2, parent |-> "a", slaves |-> {}]
onDisk    == [a |-> disk, c |-> whole("c", 3, {"a"})]
onPart    == [a |-> disk, b |-> part, c |-> whole("c", 3, {"b"}), d |-> whole("d", 4, {"c"})]
turned    == [a |-> disk, b |-> part, c |-> whole("c", 3, {"d"}), d |-> whole("d", 4, {"b"})]
taken     == [a |-> disk, b |-> whole("x", 3, {})]
spanning  == [a |-> disk, b |-> whole("y", 5, {}), c |-> whole("c", 3, {"a", "b"})]
MCTopologies == {onDisk, onPart, turned, taken, spanning}

\* Mount tables: the root on c, and a tmpfs; the disk mounted over that root,
\* which hides it; no root; an anonymous root.
mnt(number, point) ==
  [num |-> number, point |-> point, fs |-> "ext4", mountRO |-> FALSE, superRO |-> FALSE]
plain     == <<mnt(3, <<>>), mnt(9, <<"run">>)>>
stacked   == <<mnt(3, <<>>), mnt(1, <<>>)>>
rootless  == <<mnt(1, <<"run">>)>>
anonymous == <<mnt(9, <<>>)>>
MCMountTables == {plain, stacked, rootless, anonymous}

area(name) == [kind |-> "partition", dev |-> name, path |-> <<"dev", name>>]
unknown    == [kind |-> "zram", dev |-> "a", path |-> <<"dev", "a">>]
swapfile   == <<"swap">>
MCSwapTables  == {<<area("d")>>, <<area("b"), FileAt(swapfile)>>, <<unknown>>}
MCSourcePaths == {<<"run", "image">>}

WalkEnded ==
  /\ sys = [x \in {} |-> disk] /\ start = "a"
  /\ pending = {} /\ seen = {"a"} /\ err = TRUE
QueryEnded ==
  /\ sysfs = onDisk /\ mounts = plain /\ query = [kind |-> "swaps", table |-> <<unknown>>]
  /\ recs = {} /\ at = "done"
  /\ num = 0 /\ names = {} /\ paths = {} /\ stack = <<>> /\ visited = {} /\ result = {}
  /\ cand = NoCand /\ stable = {} /\ tables = {} /\ still = FALSE

\* The mount table is read again for a file only, when its record is taken:
\* there, and for no other call, it starts and changes in every way, once or
\* to and fro.
MaxTables == 2
Awaits == at = "record" /\ ~OfMounts /\ \E r \in recs : r.kind = "file"

MCInit ==
  \/ /\ \E a \in choices("a"), b \in choices("b"), c \in choices("c"), d \in choices("d") :
          rank(b) <= rank(c) /\ rank(c) <= rank(d) /\ sys = Pick(a, b, c, d)
     /\ WalkInit /\ start = "a"
     /\ QueryEnded
  \/ WalkEnded /\ ObsInit /\ (Awaits \/ OfMounts \/ mounts = plain)

allVars == <<walkVars, obsVars>>
Walks   == WalkNext /\ UNCHANGED obsVars
Queried == Program /\ UNCHANGED walkVars
Ended   == Finished /\ Done /\ UNCHANGED allVars

Changes ==
  /\ ~Finished /\ Machine /\ UNCHANGED walkVars
  /\ UNCHANGED mounts \/ (Awaits /\ Cardinality(tables') <= MaxTables)

MCNext == Walks \/ Queried \/ Changes \/ Ended

MCSpec == MCInit /\ [][MCNext]_allVars /\ WF_allVars(Walks) /\ WF_allVars(Queried)
=============================================================================
