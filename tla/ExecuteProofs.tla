--------------------------- MODULE ExecuteProofs ---------------------------
(***************************************************************************)
(* The guarded write: every step is of one of the kinds of CallProofs, so  *)
(* its invariants hold all the time, and the invariant of ImageWriteProofs *)
(* during every call.  The theorems hold for every machine, image, decoder *)
(* and number of calls.                                                    *)
(***************************************************************************)
EXTENDS StepProofs

\* The prover of every leaf that names no other.
USE ZenonT(30)

WP == INSTANCE ImageWriteProofs WITH want <- [sha |-> req.sha, expected |-> req.expected]

\* What holds of the image source: its types, and during a call the
\* invariant of Verify and Write.
SourceInv == WP!TypeOK /\ (pc # "idle" => WP!ImageInv)

\* The inductive invariant of the whole.
AllInv ==
  /\ ConsentInv /\ GateInv /\ HostTyped /\ ReadTyped /\ AskedTyped(W!Data)
  /\ CapacityInv /\ QuietInv /\ SourceInv

----------------------------------------------------------------------------
(* The assumptions of ImageWrite hold here (write.go, expandedReader).     *)
LEMMA SourceAssumptions ==
  /\ NoInode \notin Inode /\ MaxFile \in Nat
  /\ \A s \in WP!Data : ZOut(s) \in Seq(Chunk)
  /\ \A s, t \in WP!Data : WP!Pre(s, t) => WP!Pre(ZOut(s), ZOut(t))
BY ImageAssumption DEF W!Data, W!Pre, WP!Data, WP!Pre

(* The image source is that of ImageWriteProofs: the definitions expand to *)
(* the same formulas.                                                      *)
LEMMA VerifyIsVerify == W!VerifyStep = WP!VerifyStep
BY DEF W!VerifyStep, WP!VerifyStep, W!OpenImage, WP!OpenImage, W!HashRead, WP!HashRead, W!HashDone, WP!HashDone,
   W!DescriptorFormat, WP!DescriptorFormat, W!VerifyFails, WP!VerifyFails, W!Fail, WP!Fail, W!Format, WP!Format,
   W!AtEOF, WP!AtEOF, W!ReadChunk, WP!ReadChunk,
   W!fileVars, WP!fileVars, W!readVars, WP!readVars, W!writeVars, WP!writeVars
LEMMA SourceIsSource == W!SourceStep = WP!SourceStep
BY DEF W!SourceStep, WP!SourceStep, W!BeginWrite, WP!BeginWrite, W!RehashRead, WP!RehashRead, W!RehashDone,
   WP!RehashDone, W!ReadSource, WP!ReadSource, W!CopyDone, WP!CopyDone, W!DecodeFails, WP!DecodeFails,
   W!TooShort, WP!TooShort, W!TooLong, WP!TooLong, W!ProbeEnds, WP!ProbeEnds, W!SyncFails, WP!SyncFails,
   W!WriteFails, WP!WriteFails, W!ReadFails, WP!ReadFails, W!Fail, WP!Fail, W!Pending, WP!Pending, W!Out, WP!Out,
   W!Fault, WP!Fault, W!AtEOF, WP!AtEOF, W!ReadChunk, WP!ReadChunk,
   W!fileVars, WP!fileVars, W!readVars, WP!readVars, W!writeVars, WP!writeVars
LEMMA WriteIsWrite == W!SourceStep \/ W!DestinationStep \/ W!Sync => WP!WriteStep
<1>1. W!DestinationStep = WP!DestinationStep
  BY DEF W!DestinationStep, WP!DestinationStep, W!WriteChunk, WP!WriteChunk, W!DestinationFails,
     WP!DestinationFails, W!WriteFails, WP!WriteFails, W!Fail, WP!Fail, W!Pending, WP!Pending, W!Out, WP!Out,
     W!fileVars, WP!fileVars, W!readVars, WP!readVars, W!writeVars, WP!writeVars
<1>2. W!Sync = WP!Sync
  BY DEF W!Sync, WP!Sync, W!fileVars, WP!fileVars, W!readVars, WP!readVars
<1> QED
  BY <1>1, <1>2, SourceIsSource DEF WP!WriteStep
LEMMA CancelIsCancel == W!Cancel = WP!Cancel
BY DEF W!Cancel, WP!Cancel, W!fileVars, WP!fileVars, W!readVars, WP!readVars, W!writeVars, WP!writeVars
LEMMA OthersAreOthers ==
  ASSUME NEW i \in Inode \union {NoInode}, NEW data \in W!Data,
         W!ReplaceImage(i) \/ (i # NoInode /\ W!MutateImage(i, data))
  PROVE  WP!Others
<1>1. W!ReplaceImage(i) = WP!ReplaceImage(i)
  BY DEF W!ReplaceImage, WP!ReplaceImage, W!readVars, WP!readVars, W!writeVars, WP!writeVars
<1>2. W!MutateImage(i, data) = WP!MutateImage(i, data)
  BY DEF W!MutateImage, WP!MutateImage, W!Window, WP!Window, W!Verifying, WP!Verifying, W!Writing, WP!Writing,
     W!readVars, WP!readVars, W!writeVars, WP!writeVars
<1>3. data \in WP!Data
  BY DEF W!Data, WP!Data
<1> QED
  BY <1>1, <1>2, <1>3 DEF WP!Others
LEMMA FileIsFile == W!Data = WP!Data /\ W!TypeOK = WP!TypeOK /\ \A s : W!Expand(s) = WP!Expand(s)
<1>1. W!Data = WP!Data
  BY DEF W!Data, WP!Data
<1>2. W!TypeOK = WP!TypeOK
  BY <1>1 DEF W!TypeOK, WP!TypeOK, W!Phases, WP!Phases, W!Failures, WP!Failures, W!Verifying, WP!Verifying,
     W!Writing, WP!Writing
<1>3. \A s : W!Expand(s) = WP!Expand(s)
  BY DEF W!Expand, WP!Expand, W!Out, WP!Out, W!Format, WP!Format
<1> QED
  BY <1>1, <1>2, <1>3
----------------------------------------------------------------------------
(* A request gives the image source its types (execute.go, Prepare).       *)
LEMMA WantTyped ==
  ASSUME NEW r, r.sha \in W!Data, r.expected \in Int
  PROVE  [sha |-> r.sha, expected |-> r.expected] \in [sha : WP!Data, expected : Int]
BY FileIsFile

(* The invariant of the image source holds at first, and is kept by what a *)
(* step does to it: a call that ends closes the source, one that starts    *)
(* starts afresh (execute.go, Execute; verified.go, Close).                *)
LEMMA SourceInitially == ASSUME Init PROVE SourceInv
<1>1. W!Idle = WP!Idle
  BY DEF W!Idle, WP!Idle, W!NoVer, WP!NoVer
<1>2. /\ W!Idle /\ content \in [Inode -> WP!Data] /\ path \in Inode \union {NoInode}
      /\ StateInit /\ req = NoReq
  BY FileIsFile DEF Init, StateInit
<1>3. <<>> \in W!Data
  BY SourceAssumptions, FileIsFile, WP!EmptyFile
<1>4. [sha |-> req.sha, expected |-> req.expected] \in [sha : WP!Data, expected : Int]
  <2>1. AskedTyped(W!Data)
    BY <1>2, <1>3, TypedInitially
  <2> QED
    BY <2>1, WantTyped DEF AskedTyped, RequestType
<1>5. WP!Init
  BY <1>1, <1>2, <1>4 DEF WP!Init
<1>6. WP!ImageInv
  BY <1>5, SourceAssumptions, WP!ImageInitially
<1> QED
  BY <1>6 DEF SourceInv, WP!ImageInv

LEMMA SourceKept == ASSUME SourceInv, GateInv, AskedTyped(W!Data)', ImageStep PROVE SourceInv'
<1> DEFINE wanted == [sha |-> req.sha, expected |-> req.expected]
<1>1. ASSUME req' = req PROVE wanted' = wanted
  BY <1>1
<1>2. ASSUME WP!ImageInv' PROVE SourceInv'
  BY <1>2 DEF SourceInv, WP!ImageInv
<1>3. CASE Spares
  <2>1. /\ UNCHANGED <<content, path, ctx, src, ver, phase, buf, dest, durable, prog, changed>>
        /\ wanted' = wanted /\ (pc' = "idle" \/ pc # "idle")
    BY <1>1, <1>3 DEF Spares, imageVars
  <2>2. WP!TypeOK'
    BY <2>1, SourceAssumptions, WP!ClosingKeepsTypes DEF SourceInv
  <2>3. path' \in Inode \union {NoInode} /\ ctx' \in {"live", "done"}
    BY <2>2 DEF WP!TypeOK
  <2>4. pc # "idle" => WP!ImageInv'
    BY <2>1, <2>3, SourceAssumptions, WP!FrameKeeps DEF SourceInv
  <2> QED
    BY <2>1, <2>2, <2>4 DEF SourceInv
<1>4. CASE Closes
  <2>1. /\ UNCHANGED <<content, path, ctx, ver, buf, dest, durable, prog, changed>> /\ wanted' = wanted
        /\ pc' = "idle" /\ src' \in {src, NoInode} /\ phase' \in {phase, "closed"}
    BY <1>1, <1>4 DEF Closes
  <2>2. WP!TypeOK'
    BY <2>1, SourceAssumptions, WP!ClosingKeepsTypes DEF SourceInv
  <2> QED
    BY <2>1, <2>2 DEF SourceInv
<1>5. CASE Streams
  <2>1. pc # "idle" /\ (WP!VerifyStep \/ WP!WriteStep)
    BY <1>5, VerifyIsVerify, WriteIsWrite DEF Streams
  <2>2. WP!ImageInv'
    BY <2>1, SourceAssumptions, WP!StreamKeeps DEF SourceInv
  <2> QED
    BY <1>2, <2>2
<1>6. CASE Disturbs
  <2>1. (WP!Others \/ WP!Cancel) /\ pc' = pc
    BY <1>6, CancelIsCancel, OthersAreOthers DEF Disturbs
  <2>2. WP!TypeOK'
    BY <2>1, SourceAssumptions, WP!OthersKeepTypes DEF SourceInv
  <2>3. pc # "idle" => WP!ImageInv'
    BY <2>1, SourceAssumptions, WP!InterferenceKeeps DEF SourceInv
  <2> QED
    BY <2>1, <2>2, <2>3 DEF SourceInv
<1>7. CASE Resets
  <2>1. /\ pc = "idle" /\ dest' = <<>> /\ durable' = <<>> /\ changed' = {}
        /\ UNCHANGED <<content, path, src, phase>>
    BY <1>7 DEF Resets, Starts
  <2>2. ctx' \in {"live", "done"} /\ ver' = WP!NoVer /\ buf' = <<>> /\ prog' = -1
    BY <1>7 DEF Resets, W!NoVer, WP!NoVer
  <2>3. src = NoInode /\ phase = "closed"
    BY <2>1 DEF GateInv, Early
  <2>4. wanted' \in [sha : WP!Data, expected : Int]
    <3>1. req'.sha \in W!Data /\ req'.expected \in Int
      BY DEF AskedTyped, RequestType, W!Data
    <3> QED
      BY <3>1, WantTyped
  <2>5. WP!ImageInv'
    BY <2>1, <2>2, <2>3, <2>4, SourceAssumptions, WP!StartsAfresh DEF SourceInv
  <2> QED
    BY <1>2, <2>5
<1> QED
  BY <1>3, <1>4, <1>5, <1>6, <1>7 DEF ImageStep

----------------------------------------------------------------------------
(* The invariant of the whole.                                             *)

(* It holds at first (diskforge.go, Engine).                               *)
LEMMA AllInitially == ASSUME Init PROVE AllInv
<1>1. StateInit /\ src = NoInode /\ phase = "closed"
  BY DEF Init, W!Idle
<1>2. <<>> \in W!Data
  BY SourceAssumptions, FileIsFile, WP!EmptyFile
<1>3. CapacityInv
  BY <1>1 DEF StateInit, CapacityInv, LargeEnough, AfterPolicy, AfterIdentity, AfterConfirm, AfterTargetOK, AfterNumber
<1>4. HostTyped /\ ReadTyped /\ AskedTyped(W!Data)
  BY <1>1, <1>2, TypedInitially
<1> QED
  BY <1>1, <1>3, <1>4, ConsentInitially, GatesInitially, QuietInitially, SourceInitially DEF AllInv

(* The device that is about to be written has the size that was inspected  *)
(* (system.go, validateOpenedTarget).                                      *)
LEMMA ConsentKnowsSize == ASSUME ConsentInv PROVE SizeKnown
<1> SUFFICES ASSUME pc = "write", Alive(sysfs, fd)
             PROVE  fd.inst \in Inst /\ insp.target.size = Ident[fd.inst].sectors * SectorBytes
  BY DEF SizeKnown
<1>1. Matches(insp.target, fd.inst)
  BY DEF ConsentInv, AtTarget, AfterTargetOK, AfterNumber
<1>2. insp.target.size = Ident[fd.inst].sectors * SectorBytes
  <2>1. 5 > 0
    BY SMTT(30)
  <2> QED
    BY <1>1, <2>1 DEF Matches, MatchesUpTo
<1>3. IsSysfs(sysfs)
  BY TopologyAssumption DEF ConsentInv
<1>4. fd.inst \in Inst
  BY <1>3 DEF Alive, IsSysfs, Entry
<1> QED
  BY <1>2, <1>4

(* Every step keeps it (execute.go, Execute).                              *)
LEMMA AllKept == ASSUME AllInv, Step, ImageStep PROVE AllInv'
<1>1. /\ ConsentInv /\ GateInv /\ HostTyped /\ ReadTyped /\ AskedTyped(W!Data)
      /\ CapacityInv /\ QuietInv /\ SourceInv
  BY DEF AllInv
<1>2. ConsentInv' /\ GateInv' /\ HostTyped' /\ QuietInv'
  BY <1>1, ConsentKept, GatesKept, HostTypeKept, QuietKept
<1>3. \A r \in Requests : r.sha \in W!Data
  BY ImageAssumption
<1>4. AskedTyped(W!Data)'
  BY <1>1, <1>3, AskedTypeKept
<1>5. path # NoInode => Len(content[path]) \in Nat
  <2>1. path # NoInode => content[path] \in WP!Data
    BY <1>1 DEF SourceInv, WP!TypeOK
  <2>2. \A s \in WP!Data : s \in Seq(Chunk)
    BY SourceAssumptions, WP!DataIsSeq
  <2>3. \A s \in Seq(Chunk) : Len(s) \in Nat
    BY SMTT(30)
  <2> QED
    BY <2>1, <2>2, <2>3
<1>6. ReadTyped'
  BY <1>1, <1>5, ReadTypeKept DEF HostTyped
<1>7. req.expected \in Int /\ DOMAIN insp = {"target", "compressed", "token"}
  BY <1>1 DEF AskedTyped, RequestType, ReadTyped
<1>8. CapacityInv'
  BY <1>1, <1>7, ConsentKnowsSize, CapacityKept
<1>9. SourceInv'
  BY <1>1, <1>4, SourceKept
<1> QED
  BY <1>2, <1>4, <1>6, <1>8, <1>9 DEF AllInv

(* Hence it holds all the time (execute.go, Execute).                      *)
LEMMA AllInvariant == Spec => []AllInv
<1>1. AllInv /\ [Next]_vars => AllInv'
  BY NextSteps, AllKept DEF Step
<1> QED
  BY AllInitially, <1>1, PTL DEF Spec

----------------------------------------------------------------------------
(* What a write that succeeded has left behind.                            *)
Done ==
  /\ changed = {} => dest = W!Expand(req.sha)
  /\ Len(dest) = req.expected /\ durable = dest
  /\ req.mode = "live" => rebooted

(* A write that ends well is done: only Execute's last steps report        *)
(* success, and by then Write has returned (execute.go, Execute).          *)
LEMMA EndsDone == ASSUME AllInv, Ends("ok"), Outcome("ok"), req.op = "write" PROVE Done'
<1>1. /\ \/ pc = "flush" /\ req.mode = "rescue"
         \/ pc = "sysrqReboot" /\ rebooted'
      /\ pc # "idle"
  BY DEF Outcome
<1>2. pc \in Finished /\ phase = "written" /\ Len(dest) = req.expected /\ durable = dest
  BY <1>1 DEF AllInv, GateInv, Finished, Copied
<1>3. WP!ExactImage
  BY <1>1, SourceAssumptions, WP!WrittenIsExact DEF AllInv, SourceInv
<1>4. changed = {} => dest = W!Expand(req.sha)
  BY <1>2, <1>3, FileIsFile DEF WP!ExactImage
<1>5. UNCHANGED <<dest, durable, changed, req>>
  BY DEF Ends
<1>6. changed' = {} => dest' = W!Expand(req.sha)'
  BY <1>4, <1>5 DEF W!Expand, W!Out, W!Format
<1> QED
  BY <1>1, <1>2, <1>5, <1>6 DEF Done

(* It stays done until the next call (verified.go, Close: nothing is held).*)
LEMMA StaysDone ==
  ASSUME AllInv, Done, pc = "idle",
         Outside \/ UNCHANGED <<dest, durable, changed, req, rebooted>>
  PROVE  Done'
<1>1. src = NoInode
  BY DEF AllInv, GateInv, Early
<1>2. UNCHANGED <<dest, durable, changed, req, rebooted>>
  BY <1>1 DEF Outside, Replug, ChangeMounts, ChangeSwaps, ChangeNode, KernelRemount, ImageMoves,
     nonImageVars, vars, imageVars, callVars, liveVars
<1>3. W!Expand(req.sha)' = W!Expand(req.sha)
  BY <1>2 DEF W!Expand, W!Out, W!Format
<1> QED
  BY <1>2, <1>3 DEF Done

\* While a call runs it has no result; a write that succeeded is done.
SuccessInv == (pc # "idle" => result = "none") /\ (result = "ok" /\ req.op = "write" => Done)

(* Success is reported by a call that is done, and stays true until the    *)
(* next one (execute.go, Execute).                                         *)
LEMMA SuccessKept ==
  ASSUME AllInv, SuccessInv, Starts \/ Runs \/ Outside PROVE SuccessInv'
<1>1. CASE Starts
  <2>1. (pc' = "idle" \/ result' = "none") /\ result' # "ok"
    BY <1>1 DEF Starts
  <2> QED
    BY <2>1 DEF SuccessInv
<1>2. CASE Runs /\ ~CallEnds
  <2>1. result' = "none"
    BY <1>2, RunsFrame DEF SuccessInv
  <2> QED
    BY <2>1 DEF SuccessInv
<1>3. CASE CallEnds
  <2>1. PICK code : Ends(code) /\ Outcome(code)
    BY <1>3 DEF CallEnds
  <2>2. pc' = "idle" /\ result' = code /\ req' = req
    BY <2>1 DEF Ends, Return
  <2>3. ASSUME code = "ok", req.op = "write" PROVE Done'
    BY <2>1, <2>3, EndsDone
  <2> QED
    BY <2>2, <2>3 DEF SuccessInv
<1>4. CASE Outside
  <2>1. UNCHANGED <<pc, result, req>>
    BY <1>4 DEF Outside, Replug, ChangeMounts, ChangeSwaps, ChangeNode, KernelRemount, ImageMoves,
       nonImageVars, vars, callVars
  <2>2. ASSUME result = "ok", req.op = "write" PROVE Done'
    BY <1>4, <2>2, StaysDone DEF SuccessInv
  <2> QED
    BY <2>1, <2>2 DEF SuccessInv
<1> QED
  BY <1>1, <1>2, <1>3, <1>4

----------------------------------------------------------------------------
(* The contract: every step of the guarded write is a step of GuardedWrite *)
(* or is not visible there.                                                *)

\* A call that has not opened its source holds nothing that could change.
FreshInv == pc # "idle" /\ phase = "closed" => src = NoInode /\ changed = {}

\* What the contract does not see.
Hidden == UNCHANGED <<req, dest, durable, rebooted, result, shown, touched>>

\* What the contract allows.
Allowed == G!Next \/ UNCHANGED G!vars

(* Where a call stands (execute.go, Execute).                              *)
LEMMA Reached ==
  /\ pc = "idle" => reached = "none"
  /\ pc \in Opened => reached = "open"
  /\ pc \notin Opened \union {"idle"} => reached = "gates"
BY DEF reached, Opened
LEMMA ReachedNext ==
  /\ pc' = "idle" => reached' = "none"
  /\ pc' \in Opened => reached' = "open"
  /\ pc' \notin Opened \union {"idle"} => reached' = "gates"
BY DEF reached, Opened

(* A step that changes nothing the contract sees, or only whether the      *)
(* source was changed in place (write.go, reverifySource).                 *)
LEMMA HiddenAllowed ==
  ASSUME Hidden, reached' = reached, (changed' = {} <=> changed = {}) PROVE Allowed
BY DEF Allowed, Hidden, G!vars
LEMMA TamperAllowed ==
  ASSUME Hidden, reached' = reached, reached # "none", changed' # {} PROVE Allowed
BY DEF Allowed, Hidden, G!Next, G!Tamper

(* The steps between the gates, and those after the opening, are hidden    *)
(* (execute.go, Execute).                                                  *)
LEMMA RunsHidden ==
  ASSUME Reads \/ HasRead \/ Observes \/ Fills \/ Gates \/ Prepares \/ HasNumber \/ Finishes
  PROVE  Hidden /\ reached' = reached /\ UNCHANGED <<phase, src, changed>> /\ pc # "idle" /\ pc' # "idle"
<1> DEFINE Before == pc \notin Opened \union {"idle"} /\ pc' \notin Opened \union {"idle"}
           After  == pc \in Opened /\ pc' \in Opened
<1>1. ASSUME Before \/ After PROVE reached' = reached /\ pc # "idle" /\ pc' # "idle"
  BY <1>1, Reached, ReachedNext DEF Opened
<1>2. ASSUME NEW a, NEW b, Moves(a, b)
      PROVE  Hidden /\ UNCHANGED <<phase, src, changed>> /\ pc = a /\ pc' = b
  BY <1>2 DEF Moves, Hidden, imageVars
<1>3. CASE Reads
  BY <1>1, <1>3 DEF Reads, Hidden, imageVars, liveVars, histVars, Opened
<1>4. CASE HasRead
  BY <1>1, <1>4 DEF HasRead, Hidden, imageVars, liveVars, histVars, Opened
<1>5. CASE Fills
  <2>1. Before
    BY <1>5 DEF Fills, Opened
  <2> QED
    BY <1>1, <1>5, <2>1 DEF Fills, Hidden, imageVars, liveVars, histVars
<1>6. CASE Observes \/ Gates
  <2>1. \/ Moves("mounts", "swaps") \/ Moves("swaps", "source") \/ Moves("source", "stat")
        \/ Moves("live", "policy") \/ Moves("verify", "identity") \/ Moves("identity", "confirm")
        \/ Moves("confirm", "mlockall") \/ Moves("confirm", "open")
    BY <1>6 DEF Observes, Gates
  <2>2. /\ pc \in {"mounts", "swaps", "source", "live", "verify", "identity", "confirm"}
        /\ pc' \in {"swaps", "source", "stat", "policy", "identity", "confirm", "mlockall", "open"}
    BY <1>2, <2>1
  <2>3. Before
    BY <2>2 DEF Opened
  <2> QED
    BY <1>1, <1>2, <2>1, <2>3
<1>7. CASE Prepares
  <2>1. \/ Moves("mlockall", "readSwaps") \/ Moves("readSwaps", "swapoff") \/ Moves("swapoff", "swapoff")
        \/ Moves("swapoff", "enableSysRq") \/ Moves("enableSysRq", "remount") \/ Moves("remount", "poll")
        \/ Moves("poll", "poll") \/ Moves("poll", "open")
    BY <1>7 DEF Prepares
  <2>2. /\ pc \in {"mlockall", "readSwaps", "swapoff", "enableSysRq", "remount", "poll"}
        /\ pc' \in {"readSwaps", "swapoff", "enableSysRq", "remount", "poll", "open"}
    BY <1>2, <2>1
  <2>3. Before
    BY <2>2 DEF Opened
  <2> QED
    BY <1>1, <1>2, <2>1, <2>3
<1>8. CASE HasNumber \/ Finishes
  <2>1. \E a, b : Moves(a, b) /\ a \in Opened /\ b \in Opened
    BY <1>8 DEF HasNumber, Finishes, Opened
  <2> QED
    BY <1>1, <1>2, <2>1
<1> QED
  BY <1>3, <1>4, <1>5, <1>6, <1>7, <1>8

(* Until its source is open, a call holds nothing (verified.go, Verify).   *)
LEMMA FreshKept == ASSUME GateInv, FreshInv, Step PROVE FreshInv'
<1>1. CASE Starts
  BY <1>1 DEF Starts, GateInv, Early, FreshInv
<1>2. CASE CallEnds \/ Dies
  BY <1>2 DEF CallEnds, Dies, Ends, Return, FreshInv
<1>3. CASE Reads \/ HasRead \/ Observes \/ Fills \/ Gates \/ Prepares \/ HasNumber \/ Finishes
  BY <1>3, RunsHidden DEF FreshInv
<1>4. CASE Opens
  BY <1>4 DEF Opens, imageVars, FreshInv
<1>5. CASE Images
  BY <1>5 DEF Images, Verifies, Copies, Copied, ImageErrors, FreshInv
<1>6. CASE Outside
  <2>1. pc' = pc /\ src' = src /\ phase' = phase /\ (src = NoInode => changed' = changed)
    BY <1>6 DEF Outside, Replug, ChangeMounts, ChangeSwaps, ChangeNode, KernelRemount, ImageMoves,
       nonImageVars, vars, imageVars
  <2> QED
    BY <2>1 DEF FreshInv
<1>7. CASE Rests
  BY <1>7 DEF Rests, FreshInv
<1> QED
  BY <1>1, <1>2, <1>3, <1>4, <1>5, <1>6, <1>7 DEF Step, Runs

(* A call that starts begins (diskforge.go, Inspect and Write).            *)
LEMMA StartsAllowed == ASSUME Starts PROVE Allowed
<1>1. /\ pc = "idle" /\ ~rebooted /\ dest' = <<>> /\ durable' = <<>> /\ changed' = {}
      /\ UNCHANGED <<rebooted, shown, touched>>
  BY DEF Starts, liveVars, histVars
<1>2. \/ pc' = "target" /\ result' = "none"
      \/ pc' = "idle" /\ result' \notin {"none", "ok"}
  BY DEF Starts
<1>3. reached = "none" /\ (pc' = "target" => reached' = "gates") /\ (pc' = "idle" => reached' = "none")
  BY <1>1, Reached, ReachedNext DEF Opened
<1>4. G!Begin
  BY <1>1, <1>2, <1>3 DEF G!Begin
<1> QED
  BY <1>4 DEF Allowed, G!Next

(* After Write has returned, the image is complete (write.go, Write).      *)
LEMMA FinishedIsComplete == ASSUME AllInv, pc \in Finished PROVE G!Complete
<1>1. phase = "written" /\ Len(dest) = req.expected /\ durable = dest /\ pc # "idle"
  BY DEF AllInv, GateInv, Finished, Copied
<1>2. WP!ExactImage
  BY <1>1, SourceAssumptions, WP!WrittenIsExact DEF AllInv, SourceInv
<1>3. changed = {} => dest = W!Expand(req.sha)
  BY <1>1, <1>2, FileIsFile DEF WP!ExactImage
<1> QED
  BY <1>1, <1>3 DEF G!Complete

(* A call that ends shows an inspection, succeeds with a complete image,   *)
(* reboots the machine, or fails (execute.go, Execute and rebootLive).     *)
LEMMA EndsAllowed == ASSUME AllInv, NEW code, Ends(code), Outcome(code) PROVE Allowed
<1>1. /\ pc # "idle" /\ reached' = "none" /\ result' = code /\ code # "none"
      /\ UNCHANGED <<req, dest, durable, changed, touched>>
  BY ReachedNext DEF Ends, Outcome, Return
<1>2. ~rebooted /\ (rebooted' = rebooted \/ (rebooted' = TRUE /\ pc = "sysrqReboot"))
  BY <1>1 DEF Ends, AllInv, GateInv
<1>3. CASE pc \in {"policy", "identity"} /\ code = "ok"
  <2>1. req.op # "write" /\ Show /\ reached = "gates" /\ rebooted' = rebooted
    BY <1>2, <1>3, Reached DEF Outcome, Opened
  <2>2. \E s \in shown' : shown' = shown \union {s}
    BY <2>1 DEF Show
  <2>3. G!Show
    BY <1>1, <1>3, <2>1, <2>2 DEF G!Show
  <2> QED
    BY <2>3 DEF Allowed, G!Next
<1>4. CASE pc = "sysrqReboot" /\ rebooted' = TRUE
  <2>1. req.mode = "live" /\ reached = "open" /\ shown' = shown
    BY <1>4, Reached DEF Ends, AllInv, GateInv, Opened
  <2>2. G!Complete
    BY <1>4, FinishedIsComplete DEF Finished
  <2>3. G!Reboot
    BY <1>1, <1>4, <2>1, <2>2 DEF G!Reboot
  <2> QED
    BY <2>3 DEF Allowed, G!Next
<1>5. CASE pc = "flush" /\ code = "ok"
  <2>1. req.mode = "rescue" /\ reached = "open" /\ UNCHANGED <<shown, rebooted>>
    BY <1>2, <1>5, Reached DEF Ends, Outcome, Opened
  <2>2. G!Complete
    BY <1>5, FinishedIsComplete DEF Finished
  <2>3. G!Succeed
    BY <1>1, <1>5, <2>1, <2>2 DEF G!Succeed
  <2> QED
    BY <2>3 DEF Allowed, G!Next
<1>6. CASE code # "ok" /\ rebooted' = rebooted
  <2>1. shown' = shown /\ reached # "none"
    BY <1>1, <1>6, Reached DEF Ends
  <2>2. G!Fail
    BY <1>1, <1>6, <2>1 DEF G!Fail
  <2> QED
    BY <2>2 DEF Allowed, G!Next
<1>7. code = "ok" => \/ pc \in {"policy", "identity"} \/ pc = "flush"
                     \/ pc = "sysrqReboot" /\ rebooted' = TRUE
  BY <1>2 DEF Outcome
<1> QED
  BY <1>2, <1>3, <1>4, <1>5, <1>6, <1>7

(* The target is opened for an operator who has confirmed (execute.go,     *)
(* Execute; system.go, OpenTarget).                                        *)
LEMMA OpensAllowed == ASSUME AllInv, Opens PROVE Allowed
<1>1. pc = "open" /\ pc' = "validate" /\ Hidden /\ changed' = changed
  BY DEF Opens, Hidden, imageVars, liveVars, histVars
<1>2. reached = "gates" /\ reached' = "open"
  BY <1>1, Reached, ReachedNext DEF Opened
<1>3. req.op = "write" /\ (req.mode = "live" => req.reboot)
  BY <1>1 DEF AllInv, ConsentInv, GateInv, AfterIdentity, AfterConfirm
<1>4. \E s \in shown : s.token = req.token
  BY <1>1, <1>3 DEF AllInv, ConsentInv
<1>5. G!Open
  BY <1>1, <1>2, <1>3, <1>4 DEF G!Open, Hidden
<1> QED
  BY <1>5 DEF Allowed, G!Next

(* A step of Verify is hidden; one of Write is hidden, writes a chunk to   *)
(* what a confirmed inspection covers, or syncs (write.go, Write).         *)
LEMMA ImagesAllowed == ASSUME AllInv, AllInv', FreshInv, Images PROVE Allowed
<1>1. UNCHANGED <<pc, reached, req, rebooted, result, shown>>
  BY DEF Images, callVars, liveVars, reached
<1>2. CASE pc = "verify" /\ Verifies /\ touched' = touched
  <2>1. changed' = changed
    BY <1>2 DEF Verifies, FreshInv
  <2>2. Hidden
    BY <1>1, <1>2 DEF Verifies, Hidden
  <2> QED
    BY <1>1, <2>1, <2>2, HiddenAllowed
<1>3. CASE pc = "write" /\ Copies
  <2>1. reached = "open" /\ changed' = changed
    BY <1>3, Reached DEF Copies, Opened
  <2>2. CASE dest' = dest /\ touched' = touched /\ durable' = durable
    BY <1>1, <2>1, <2>2, HiddenAllowed DEF Hidden
  <2>3. CASE phase = "sync" /\ dest' = dest /\ touched' = touched /\ durable' = dest
    <3>1. Len(dest) = req.expected
      BY <2>3 DEF AllInv, GateInv, Copied
    <3>2. G!Sync
      BY <1>1, <2>1, <2>3, <3>1 DEF G!Sync
    <3> QED
      BY <3>2 DEF Allowed, G!Next
  <2>4. CASE /\ touched' = touched \union {Receipt} /\ Len(dest) < req.expected
             /\ (\E c : dest' = Append(dest, c)) /\ durable' = durable
    <3>1. \E c \in Chunk : dest' = Append(dest, c)
      <4>1. dest \in Seq(Chunk) /\ dest' \in Seq(Chunk)
        BY DEF AllInv, SourceInv, WP!TypeOK
      <4>2. ASSUME NEW c, dest' = Append(dest, c) PROVE c \in Chunk
        BY <4>1, <4>2, SMTT(30)
      <4> QED
        BY <2>4, <4>2
    <3>2. \E s \in shown : Covers(s, Receipt)
      BY <1>1, <2>4 DEF AllInv, ConsentInv, ConsentBound
    <3>3. Receipt.token = req.token /\ Receipt.sha = req.sha /\ Receipt.expected = req.expected
      BY DEF Receipt
    <3>4. G!Write
      BY <1>1, <2>1, <2>4, <3>1, <3>2, <3>3 DEF G!Write
    <3> QED
      BY <3>4 DEF Allowed, G!Next
  <2> QED
    BY <1>3, <2>2, <2>3, <2>4 DEF Images, Copies
<1> QED
  BY <1>2, <1>3 DEF Images

(* Other processes can only change the source in place (verified.go).      *)
LEMMA OutsideAllowed == ASSUME GateInv, Outside PROVE Allowed
<1>1. Hidden /\ pc' = pc
  BY DEF Outside, Replug, ChangeMounts, ChangeSwaps, ChangeNode, KernelRemount, ImageMoves,
     nonImageVars, vars, imageVars, callVars, liveVars, histVars, Hidden
<1>2. reached' = reached
  BY <1>1 DEF reached
<1>3. changed' = changed \/ (src # NoInode /\ changed \subseteq changed')
  BY DEF Outside, Replug, ChangeMounts, ChangeSwaps, ChangeNode, KernelRemount, ImageMoves, vars, imageVars
<1>4. src # NoInode => reached # "none"
  BY Reached DEF GateInv, Early, reached
<1> QED
  BY <1>1, <1>2, <1>3, <1>4, HiddenAllowed, TamperAllowed, Zenon

(* Hence every step (execute.go, Execute).                                 *)
LEMMA StepsAllowed ==
  ASSUME AllInv, AllInv', FreshInv, Starts \/ Runs \/ Outside PROVE Allowed
<1>1. CASE Reads \/ HasRead \/ Observes \/ Fills \/ Gates \/ Prepares \/ HasNumber \/ Finishes
  BY <1>1, RunsHidden, HiddenAllowed
<1>2. GateInv
  BY DEF AllInv
<1> QED
  BY <1>1, <1>2, StartsAllowed, EndsAllowed, OpensAllowed, ImagesAllowed, OutsideAllowed DEF Runs, CallEnds

----------------------------------------------------------------------------
(* On every machine, no byte reaches a device that the operator was not    *)
(* shown and did not confirm, however disks, nodes and names change        *)
(* between the steps (execute.go, Execute; system.go,                      *)
(* validateOpenedTarget).                                                  *)
THEOREM WritesOnlyWithConsent == Spec => []ConsentBound
<1>1. AllInv => ConsentBound
  BY DEF AllInv, ConsentInv
<1> QED
  BY AllInvariant, <1>1, PTL

(* What receives data is large enough for the whole image (policy,         *)
(* Inspect; system.go, sameTarget).                                        *)
THEOREM WritesOnlyWhatFits == Spec => []LargeEnough
<1>1. AllInv => LargeEnough
  BY DEF AllInv, CapacityInv
<1> QED
  BY AllInvariant, <1>1, PTL

(* The target is open only behind all gates (execute.go, Execute).         *)
LEMMA AllBehindGates == ASSUME AllInv PROVE GatesBeforeOpen
<1>1. ASSUME fd.open PROVE req.op = "write" /\ req.token = insp.token
  BY <1>1, OpenBehindGates DEF AllInv, ConsentInv
<1> QED
  BY <1>1, OpenBehindGates DEF AllInv, GatesBeforeOpen, sameIdentity

(* In every reachable state (execute.go, Execute).                         *)
THEOREM OpensOnlyAfterGates == Spec => []GatesBeforeOpen
BY AllInvariant, AllBehindGates, PTL

(* A call leaves no descriptor open (execute.go, the deferred Close calls).*)
THEOREM ReleasesDescriptors == Spec => []DescriptorsReleased
<1>1. AllInv => DescriptorsReleased
  BY GateResults DEF AllInv
<1> QED
  BY AllInvariant, <1>1, PTL

(* The machine is rebooted only after the image is durable (execute.go,    *)
(* rebootLive).                                                            *)
THEOREM RebootsOnlyWhenDurable == Spec => []RebootAfterDurable
<1>1. AllInv => RebootAfterDurable
  BY GateResults DEF AllInv
<1> QED
  BY AllInvariant, <1>1, PTL

(* A rescue write has the target to itself (system.go, OpenTarget).        *)
THEOREM HoldsExclusively == Spec => []RescueExclusive
<1>1. AllInv => RescueExclusive
  BY GateResults DEF AllInv
<1> QED
  BY AllInvariant, <1>1, PTL

(* A live write finds swap off and every resolvable mount read-only while  *)
(* nobody else interferes (execute.go, prepareLive).                       *)
THEOREM WritesOnlyWhenQuiet == Spec => []LiveQuiesced
<1>1. AllInv => LiveQuiesced
  BY DEF AllInv, QuietInv, LiveQuiesced, AfterSwapoff, AfterPoll, Opened
<1> QED
  BY AllInvariant, <1>1, PTL

(* The type invariant of the guarded write, its image source and the       *)
(* machine around it (execute.go, Execute).                                *)
THEOREM ExecuteTypeCorrect == Spec => []TypeOK
<1>1. AllInv => TypeOK
  <2> SUFFICES ASSUME AllInv PROVE TypeOK
    OBVIOUS
  <2>1. W!TypeOK /\ fd \in Descriptor
    BY FileIsFile DEF AllInv, SourceInv, GateInv
  <2>2. Len(TargetFields) = 5
    BY SMTT(30) DEF TargetFields
  <2> QED
    BY <2>1, <2>2 DEF AllInv, HostTyped, ReadTyped, AskedTyped, QuietInv, TypeOK
<1> QED
  BY AllInvariant, <1>1, PTL

(* For every image, decoder, machine and sequence of calls: a write that   *)
(* reports success has left the complete expansion of the requested image, *)
(* durably, and a live one has rebooted the machine (execute.go, Execute   *)
(* and rebootLive).                                                        *)
THEOREM SuccessMeansDurable == Spec => []SuccessIsDurable
<1>1. Init => SuccessInv
  BY DEF Init, StateInit, SuccessInv
<1>2. AllInv /\ SuccessInv /\ [Next]_vars => SuccessInv'
  BY NextSteps, SuccessKept
<1>3. SuccessInv => SuccessIsDurable
  BY DEF SuccessInv, SuccessIsDurable, Done
<1> QED
  BY AllInvariant, <1>1, <1>2, <1>3, PTL DEF Spec

(* For every machine, image, decoder and sequence of calls: Inspect and    *)
(* Write implement their contract.  Each of their steps is one of the      *)
(* contract, or is not visible there (diskforge.go, Engine; execute.go,    *)
(* Execute).                                                               *)
THEOREM ExecuteKeepsContract == Spec => KeepsContract
<1>1. Init => G!Init /\ FreshInv
  <2> SUFFICES ASSUME Init PROVE G!Init /\ FreshInv
    OBVIOUS
  <2>1. /\ pc = "idle" /\ result = "none" /\ rebooted = FALSE /\ shown = {} /\ touched = {}
        /\ dest = <<>> /\ durable = <<>>
    BY DEF Init, StateInit, W!Idle
  <2> QED
    BY <2>1, Reached DEF G!Init, FreshInv
<1>2. AllInv /\ FreshInv /\ [Next]_vars => FreshInv'
  BY NextSteps, FreshKept DEF AllInv, Step
<1>3. AllInv /\ AllInv' /\ FreshInv /\ [Next]_vars => [G!Next]_G!vars
  BY NextSteps, StepsAllowed DEF Allowed
<1> QED
  BY AllInvariant, <1>1, <1>2, <1>3, PTL DEF Spec, KeepsContract, G!Spec
=============================================================================
