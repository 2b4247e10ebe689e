# Diskforge in TLA+

Models, model-checking runs and machine-checked proofs for diskforge
(`src/`), the tool that inspects a whole disk and replaces its content with a
verified image. The modules are translated from the Go source; `PROJECT.json`
maps every definition to the lines it stands for.

## 1. The system

| Part | Source | State | Operations |
| --- | --- | --- | --- |
| Observer | `internal/linux/observer.go` | none: reads sysfs and procfs | `Target`, `related`, `MountedDevices`, `SwapDevices`, `Source`, `RootDisk`, `BlockMountsReadOnly` |
| Policy | `internal/policy` | none | `Inspect` (the gates), `ConfirmationToken` |
| Image source | `internal/image/verified.go`, `write.go` | the held descriptor, digest, format, size, a mutex | `Verify`, `Write`, `Close` |
| Staging | `internal/image/stage.go` | a partial file, the destination directory | `Stage` |
| Guarded execution | `internal/linux/execute.go`, `system.go` | the two descriptors, the inspection, kernel controls | `Prepare`, `Execute`, `prepareLive`, `rebootLive`, the `System` methods |
| Engine | `diskforge.go`, `types.go`, `errors.go` | its copy of the HTTP client | `Inspect`, `Write`, `Stage`, error translation |
| Command line | `cmd/diskforge/main.go` | one process per command | `inspect`, `stage`, `write`, `version` |
| Naming, version | `internal/naming`, `internal/version` | none | string validators, build data |

How they interact: `Engine.Inspect` validates a request and calls
`System.Inspect`, which makes one observation after another and hands them to
the policy; the operator receives the inspection and its token.
`Engine.Write` repeats all of that, verifies the image through a descriptor
that stays open, compares it with the inspection, compares the token, in live
mode locks memory, disables swap and remounts everything read-only, opens the
target, validates what it has opened, streams the image, synchronizes and, in
live mode, reboots. `Engine.Stage` is independent of the others except that it
produces the file they read. The command line makes one of these calls per
process and turns its outcome into an exit code and one JSON object.

What makes this hard: everything the tool decides on belongs to the machine
and can change after it was read. Disks are unplugged and others take their
names and numbers, tables are repartitioned, filesystems mounted, files
renamed over or changed in place, the remount finishes on its own time or
never, any system call fails, a server stops answering, the process is killed,
power is lost. `PROJECT.json` lists these as hazards, each at its line and with
the properties that cover it.

## 2. The modules

| Module | Models | Used by |
| --- | --- | --- |
| `Observer` | what each observer call returns, as operators over one snapshot | `RelatedWalk`, `Observation`, `ExecuteState` |
| `Policy` | the gates in their order, the token | `RelatedWalk`, `ExecuteState` |
| `RelatedWalk` | `walkRelated` as the algorithm it is, over one snapshot | `MCObserver` |
| `Observation` | the mount, swap, root and source queries read by read, on a machine that changes | `MCObserver` |
| `ImageWrite` | `Verify`, `Write`, `Close` of one image | `Execute` (by `INSTANCE`) |
| `ExecuteState` | the state of a call and of the machine, how a call ends, what other processes do, and what a call promises | `Execute`, `CallProofs` |
| `Execute` | a caller's inspect, dry-run and write calls, composed with observer, policy, image and machine | `Command` |
| `GuardedWrite` | what inspect and write calls promise their caller, without how | `Execute`, `Command` (refinement) |
| `Command` | commands one after another over `Execute`, with exit codes, output and kills | |
| `Stage` | an engine's HTTP client, and concurrent calls of `Stage` with one destination | |
| `AtomicPublish` | what staging promises, said of the destination alone | `Stage` (refinement) |
| `Naming` | the validators and `ArtifactName` | |
| `MC...` | the instances TLC checks | |
| `ObserverProofs`, `ImageWriteProofs`, `CallProofs`, `StepProofs`, `ExecuteProofs`, `CommandProofs`, `StageProofs`, `NamingProofs` | the theorems | |

**Observer and Policy.** A sysfs snapshot is a function from kernel names to
the hardware behind them, the device number, the disk a partition belongs to
and the slaves. A mount or swap table is a sequence of records, in file order,
because the code takes the first of several. Parsing is abstracted to these
records. Operators named `...OK` say when a call returns no error.

**Observation.** One action per read of sysfs: a directory listing, a `stat`, a
`dev` file. `stack` is the recursion of `walkRelated`, `recs` the records of
mountinfo or swaps still to come. A swap record is a partition, a file or of
another type: a partition names its device, a file is looked up with `Source`,
which reads mountinfo again (`FindMount`), and another type is an error. A file
that no mount covers, or a swap file on no block device, is an error too. A call
of `Source` alone is a query about one file. Between two reads any device may
vanish, come back as other hardware, change its number or its slaves, and
filesystems may be mounted and unmounted. History variables: `stable` holds the
devices whose entry never changed, `tables` the mount tables shown so far, and
`still` says that nothing changed.

**ImageWrite.** A file is a sequence of chunks; each read, write and progress
report handles one. The decoder is a pair of constant operators: what it has
put out after reading some chunks, and whether it then fails. `phase` says
where `Verify` or `Write` stands, or with which kind of error it ended
(`Failures`); the phases in `Writing` are those in which `Write` holds the
mutex. `changed` is a history variable: the windows in which the open file was
changed in place, "verify" while `Verify` reads it and "write" from the
beginning of `Write`'s second hash to the end of `Write`.

**ExecuteState and Execute.** `pc` names the next observation or system call of
the running call; each is one action, with its error alternatives.
`Observer.Target` is read field by field (`ReadTarget`), both for the
inspection and for the check of the opened target, and a serial or WWN that
cannot be read is taken to be empty, as `readOptional` does. `Abort` ends a
call before a descriptor is held, `Unwind` runs the deferred closes. `fd` is
the target descriptor and remembers the hardware it refers to. `shown`,
`touched` and `stale` are history variables: the inspections the operator has
received, the hardware that received data, and what other processes changed
after it was last checked. `ExecuteState` also has the actions of the rest of
the machine; it does not know the image source, whose steps come in with
`Execute`.

**GuardedWrite.** A call is before its opening of the target ("gates"), after
it ("open"), or there is none. The contract says which steps the caller can see
and in which order they come: an inspection is shown; the target is opened for
the token of an inspection that was shown and, live, with consent to the reboot;
each chunk goes to hardware that a shown inspection covers; the data become
durable only when all are there; a rescue write succeeds, and a live machine
reboots, only with the durable, complete image; every other end is an error. It
knows no observation, policy, descriptor, mount or kernel control. The mapping
is the identity on what the caller sees; `reached` derives "gates" and "open"
from `pc`.

**Command.** `step` says where the running process is: parsing, in the engine,
or encoding its result. The engine's actions are those of `Execute`; a token
can only be one that an earlier process printed. `Kill` ends a process at any
step; the kernel closes its descriptors, and what was written stays.

**Stage.** One program counter per call. `past` holds every directory a loss
of power may leave behind, `synced` the files whose content survives one; other
files may come back cut short. `Rename` and `RemovePartial` go by name, as the
code does, so they act on whatever file has the name then. `own` and `kept` are
the timeouts of the caller's client and of the engine's copy of it.

**Naming.** A text is a sequence of characters; the program's name, with which
every artifact name begins, counts as one. The arguments of
`ArtifactName` are chosen when the code first looks at them, so that every
combination of accepted texts is reached. The loop of `validExtension` is an
action per character. The grammars of the naming contract are stated apart from
the validators, by what stands where in a text.

Definitions with a suffix, such as `Confirm_NoReboot`, are mutants: the
definition they precede with a plausible bug. No specification uses them; each
property of a passing run has one that makes the run fail.

## 3. What the runs check

Passing runs. Sizes are scaled: a sector is one byte, a file has at most two
to four chunks, 512 MiB is 4, `MaxInt64` is 7, a label has at most 3
characters.

| Run | Instance | Shows |
| --- | --- | --- |
| `rescue` | two calls of inspect or rescue write; 3 moves by others, from an idle disk, among 8 topologies (disk absent, other disk, identical twin, smaller disk, disk moved to another name, partitioned, mapped), 4 mount tables, 2 swap tables, 4 device nodes; serials that cannot be read | `ConsentBound`, `LargeEnough`, `RescueExclusive` |
| `live` | two calls of inspect, dry run or live write of the root disk, with and without reboot; 4 hosts, 3 mount and 3 swap tables, 2 polls, 2 moves | `TypeOK`, `LiveQuiesced`, `GatesBeforeOpen`, `RebootAfterDurable`, `SuccessIsDurable`, `CallReturns`, `KeepsContract` |
| `command` | any number of commands, two of which call the engine to inspect or write, with valid and invalid requests, raw and compressed images and wrong sizes; the image file replaced or changed in place twice; kills and a failing stdout | `ExitZeroIsDone`, `RefusalIsHarmless`, `DescriptorsReleased`, `GatesBeforeOpen`, `CommandExits`, `CommandsKeepContract` |
| `image_write` | two files out of six (raw, compressed, truncated, longer, empty), expected sizes 1 to 3, two changes, cancellation and `Close` at any time | `TypeOK`, `ExactImage`, `StreamsVerifiedFile`, `BoundedAndReported`, `SizeErrorIsReal`, `WriteReturns` |
| `observer` | every graph over four names in which each is absent, a partition, or a whole device with any slaves; and queries of every kind on a machine that moves among five topologies without end; four mount tables, a stacked one included, of which up to two are shown before the mount of a swap file or of the source is looked for | `WalkComputesRelated`, `NamesCoverStorage`, `WalkEnds`; `ObsTypeOK`, `StableUseReported`, `StableRootIsExact`, `SnapshotWhenStill`, `NoDeviceTwice`, `ObservationEnds` |
| `stage` | two calls for different images, six kinds of answers or none, two temporary names that may be drawn again, clients with and without a timeout, kills and losses of power | `TypeOK`, `DestinationComplete`, `SuccessSurvives`, `PartialsRemoved`, `DiskUseBounded`, `PublishesAtomically`, `StageReturns` |
| `naming` | every tag of up to 7 characters over `v 0 1 .`, every label and extension of up to 4 over `a - _ .` | `GrammarExact`, `NameTellsFields` |

Why the bounds are enough for the interesting cases: an exchange of disks and
its reversal takes two moves, a third one turns the device node elsewhere
meanwhile, and mounting and unmounting takes two as well; two calls
are an inspection and the write that uses its token; two polls tell the first
from the last; four devices give a disk, a partition, a mapping and a second
mapping or a cycle, and the five topologies of the queries turn a stack of two
mappings round, move a mapping to another disk and let a new disk take its
number; files of up to three chunks expand to less than, exactly and more than
the expected size; with two callers every order of two renames, two removals
and a loss of power occurs; texts reach one character past the label limit, and
names fall on both sides of the name limit. In the walk part of
`observer` graphs that differ only in the names of the devices are checked once:
the start is one fixed name, and the other names are given out by kind.

The contract `GuardedWrite` is checked where TLC meets all of its steps: live
writes, dry runs and reboots in `live`; rescue writes, kills and images changed
in place in `command`. What it asks of the hardware under a moving machine is
`ConsentBound`, which `rescue` checks.

Exceptions that the properties make, because the code does not defend the case:

- `RefusalIsHarmless`: the refusal `invalid_image_size`, the subject of
  `doc_gate`.
- `ExactImage`, `SizeErrorIsReal`, `SuccessIsDurable`, `ExitZeroIsDone` and the
  contract: a file changed in place while `Verify` reads it, or once the second
  hash has begun. In the first window `Verify` may read the format of a content
  that it has not hashed; if the change is undone before the second hash, `Write`
  expands the image as that format. In the second, what was changed goes out. A
  change between the two windows is not excepted: the second hash finds it.
  `StreamsVerifiedFile` excepts the second window only.
- `LiveQuiesced`: swap areas enabled after `Swapoff` has read the table, and
  mounts made after the last poll.
- `StableUseReported`: a swap file or a source over which one mount hides
  another, because `Source` takes the hidden one (`doc_stacked`).

Violating runs: what the documentation says and the code does not do.

| Run | Statement | What the code does |
| --- | --- | --- |
| `doc_relations` | `docs/safety-model.md:27`: the token binds descendants and relations | it hashes six fields and none of these; a repartitioned disk keeps its token |
| `doc_anonymous` | `docs/safety-model.md:65`: every block-backed mount is proven read-only | mounts with anonymous device numbers (btrfs) are passed over |
| `doc_stacked` | `docs/safety-model.md:58`: the live source resides on tmpfs | of several mounts on one mount point the first, hidden one is looked at |
| `doc_visible` | `docs/cli.md:74`: the destination becomes visible only after directory synchronization | the rename comes first, and a failure of the synchronization leaves the new file in place |
| `doc_gate` | `docs/architecture/0001-repository-and-release-contract.md:150`: the target is never opened for write before every applicable gate passes; `docs/cli.md:25`: exit code 3 is a safety gate refusal | a wrong expanded size is found while writing, and `publicError` makes a gate of it: exit code 3 after the disk was overwritten |

More differences that have no run:

- `observer.go:432` says that file-backed swap "is resolved through the
  filesystem that contains the file". On stacked mounts `SwapDevices` reports
  the devices of the hidden mount, for the reason that `doc_stacked` shows.
- `docs/cli.md:24` gives exit code 2 for invalid request syntax, while
  `apiError` reports `ErrInvalidRequest` as 1 (`Command`, `apiError`).
- `docs/cli.md:96` says that `--reboot` has no effect on rescue policy, while
  `validateWriteRequest` refuses the request.
- `docs/safety-model.md:75` has the source descriptor retained "through
  inspection", while `Prepare` opens it after the inspection.
- `stage.go:20` says "atomically publishes". The deferred removal after a
  success goes by a name that the rename has freed. If three overlapping calls
  draw the same random name, the first can remove the second one's partial, and
  the second then renames the third one's unfinished partial over the
  destination. With two callers this cannot happen (run `stage`), nor when no
  name is drawn twice (section 4).

### Fairness

`CallReturns` assumes weak fairness of the running call (`Program`): a
goroutine that can take a step takes one, and no system call blocks for ever.
Nothing is assumed of the kernel's remount, of other processes or of the
caller. `CommandExits` assumes the same of the process around the call, and
nothing of kills. `WriteReturns` assumes it of `Verify` and of `Write`,
`WalkEnds` and `ObservationEnds` of the running query; the machine may change
for ever.

`StageReturns` assumes fairness of a call's own steps and of its timer, and
none of the network: a server may never answer or stop in the middle of a
body. That the timer exists is not assumed but follows from `New` and
`WithHTTPClient`, which refuse a client without a timeout and copy the others;
the property fails if the copy is left out.

## 4. What is proved

Every safety property that a passing run checks is also a theorem, both
refinements included. The theorems hold for all values of the constants that satisfy
the named assumptions, and for any number of calls and changes.

| Module | Theorems |
| --- | --- |
| `ExecuteProofs` | `WritesOnlyWithConsent`, `WritesOnlyWhatFits`, `OpensOnlyAfterGates`, `ReleasesDescriptors`, `RebootsOnlyWhenDurable`, `HoldsExclusively`, `WritesOnlyWhenQuiet`, `ExecuteTypeCorrect`, `SuccessMeansDurable`, `ExecuteKeepsContract` |
| `CommandProofs` | `ExitZeroMeansDone`, `RefusalsAreHarmless`, `CommandsKeepTheGates`, `CommandsImplementContract` |
| `ImageWriteProofs` | `ImageTypeCorrect`, `SuccessIsExact`, `StreamsOnlyVerified`, `OutputIsBounded`, `SizeErrorsAreReal` |
| `ObserverProofs` | `WalkTypeCorrect`, `WalkIsCorrect`, `NamesAreSound`; `ObservationTypeCorrect`, `WalksNoDeviceTwice`, `StableUseIsReported`, `StableRootIsFound`, `StillReadsAreOneSnapshot` |
| `StageProofs` | `TypeCorrect`, `ShowsOnlyComplete`, `SuccessIsKept`, `LeavesNoPartial`, `BoundsDiskUse`, `ImplementsRegister` |
| `NamingProofs` | `NamesAreJudgedExactly`, `NamesTellTheirFields` |

`CallProofs` and `StepProofs` hold the lemmas on which `ExecuteProofs` and
`CommandProofs` rest.

### The guarded write

The properties of `Execute` speak of the last step of a call: what was written,
what is open, whether the machine was restarted. None is inductive. The
inductive invariant is `AllInv`, a conjunction of what each step of the call has
established so far:

- `ConsentInv` (`CallProofs`): the token shown for a target determines its
  identity; the fields of the target read so far are those of the hardware
  under its name, as long as the descriptor is alive and has that name
  (`ReadInv`); after the number check the descriptor has that name. The key
  fact is that a device keeps its name and number while it is registered and
  that a descriptor of a removed device is dead for good, so both checks
  together exclude an exchange between them.
- `GateInv` (`CallProofs`): which descriptors are held, which gates have been
  passed and how far the copy is. The kernel's part in `HoldsExclusively` is
  the guard `KernelAllows`: nobody may claim what is open with `O_EXCL`.
- `CapacityInv` (`CallProofs`): after the policy the inspected size has room
  for the image; `ConsentInv` carries this over to the hardware.
- `QuietInv` (`CallProofs`): while `Swapoff` runs, every active area is on the
  list it still has to work through, and what each preparation has brought
  about holds until another process undoes it.
- `HostTyped`, `ReadTyped`, `AskedTyped` (`CallProofs`): the types.
- `SourceInv` (`ExecuteProofs`): the image source satisfies the invariant of
  `ImageWriteProofs` for the request of the running call, so that what is
  proved of `Write` alone is used by `INSTANCE` and not proved again.
  `SuccessMeansDurable` joins it with `GateInv`, in `SuccessInv`.

The argument has two halves. `StepProofs` goes through the actions of `Execute`
and shows that each is of one of the kinds that `CallProofs` defines, which say
what a step changes and under which condition, and that it does one of five things to the
image source: leave it alone, close it, run a step of `Verify` or `Write`,
change a file in place, or begin anew. `CallProofs` shows that every kind keeps
the invariants, without a word about chunks and decoders.

`ExecuteKeepsContract` is the refinement of `GuardedWrite`. It uses the same
kinds: observations, preparations and what other processes do change nothing the
caller sees (`Hidden`), so they are stutters; a start is `Begin`, an opening
`Open`, a step of the image source `Write`, `Sync`, `Tamper` or a stutter, an end
`Show`, `Succeed`, `Reboot` or `Fail`. Which one it is follows from `AllInv`: the
consent that `Open` and `Write` ask for is `ConsentInv`, the
completeness that `Succeed` and `Reboot` ask for is the invariant of the image
source at the end of the copy. One more invariant is needed: `FreshInv`, that a
call which has not opened its image yet has no change of it on record.

Assumptions: `TopologyAssumption` (one name and one number per device),
`SwapAssumption` (an area is in the swap table once), `ImageAssumption` (a
request names the digest of some file; the decoder as below) and the types of
the other constants. That tokens of different inspections differ is built into
the model (section 5).

### Commands

`CliInv` is `AllInv` with four more parts. `HarmlessInv` says that nothing is
written before the copy; `FlowInv` where process and call stand, and that the
operator has printed only what was shown; `DoneInv` and `RefusedInv` carry
what the end of a call means to the end of the process. A kill leaves `AllInv`
true: it is a step of the kind that ends a call. `CommandsKeepTheGates` follows
from the same invariant: the promises of `Execute` hold for processes that may
be killed at any moment. `CommandsImplementContract` is the refinement of
`GuardedWrite` by whole commands. A kill in a call is its `Fail`, and between two
calls a process that ends is `Forget`; what was shown and written stays, so the
contract spans processes, and a write in one uses the inspection printed by
another.

### The image source

All from one inductive invariant `ImageInv`. It relates the content of the held
file, what was read of it since the last rewind, and what was written: `dest` is
a prefix of what the decoder has put out for `buf`, and `buf` is a prefix of the
held file unless it was changed in place. Outside the windows in `changed`, the
held file has the content whose digest was asked for whenever a hash has just
said so, and the format that was read is the one of that content. While `Write`
runs, the descriptor is held: `Close` waits for the mutex. The only assumption
on the decoder (`DecoderAssumption`) is that reading more never changes what it
has already put out.

### The observer

For the walk over one snapshot, `WalkInv` says that everything visited or
pending is in every closed set that contains the start, and that what was
visited is closed up to what is pending. `NamesAreSound` follows from type
correctness alone: two devices that share storage have a common member of their
relation sets, by the lemmas `MappedIsRelated` and `DiskIsRelated`.

For the queries on a machine that changes between two reads, `ObsInv` says:

- for each call of `walkRelated` on the stack, what it has still to visit of a
  device that does not change (`Expects`), and what it may visit at most while
  nothing changes (`Exact`);
- that visited devices that do not change have what lies below them visited or
  are being walked (`WalkedInv`), and no device is walked twice (`FrameInv`);
- that each device a record read so far means is reported, still to be found,
  or the one being walked (`OwedInv`): nothing is lost between two records;
- what the result consists of and why a query fails (`ResultInv`, `RootInv`,
  `FailInv`).

What a file means to `StableUseReported` is the device that the visible mount
over it has had in every table shown so far (`Meant`). The invariant speaks of
the mount that `Source` selects instead (`Names`); where no mount hides another
the two are the same (`MeantIsNamed`).

Assumptions: `SnapshotAssumption` (the snapshots are well formed),
`MountAssumption` (a mount table is numbered), `SwapAssumption` (a swap
partition is named like a device) and `BottomAssumption` (the root filesystem
lies on a disk), which only `StableRootIsFound` needs.

### Staging

For any number of concurrent calls, under the hypothesis `NameReuse = FALSE`:
`CreateTemp` draws no name twice. The hypothesis is needed (the last difference
in section 3). The `stage` run complements the theorems: it allows names to be
drawn again, with two callers. `StageInv` says who owns which name: a call
between creation and rename is alone under its temporary name in the present
directory, and every file that some directory in `past` shows at the destination
is complete and synchronized. `SurviveInv` adds the order of the renames that a
loss of power can reach back to, `LeftInv` which partials may exist, `DiskInv`
how much of a body was copied. `ImplementsRegister` is the refinement: the
initial states map to initial states of `AtomicPublish`, and every step maps to
a step of it or changes nothing of it.

### Naming

For texts and limits of any length and any letters and digits that exclude the
three separators (`NamingAssumption`). `strings.Split` is defined by the
positions of the separator, not by recursion, so that no induction over the text
is needed: `CutIs` finds the k-th part from the number of cuts before it, and
`SplitInThree` and `SplitInFour` say what the parts are. `TagExact` and
`LabelExact` equate a validator with its grammar. The loop of `validExtension`
has the loop invariant `Scanned`: the characters before `index` are words, or
separators between two words, except that the last one may be a separator whose
successor is still to come. `NamingInv` joins it with the grammars of the
arguments accepted so far. For `NamesTellTheirFields`, no accepted text has an
underscore (`NoUnderscore`), so the name has exactly the three that
`ArtifactName` puts in, and no label has a period.

### Only model-checked

- Staging with names that are drawn again.
- Every liveness property (`CallReturns`, `CommandExits`, `WriteReturns`,
  `WalkEnds`, `ObservationEnds`, `StageReturns`): fairness is out of the
  prover's reach.

## 5. Abstractions and what is left out

- In `Execute` the mount, swap, source and root queries each read one
  snapshot, and `Target` is read field by field. `Observation` shows for these
  four queries what remains true when each read sees another state of the
  machine. There mountinfo and swaps are read in one step each, paths are
  absolute, and the filesystem type that `Source` also returns is not kept.
- SHA-256 is injective: a digest is the content it was computed from. The
  token's eight bytes are taken to be injective too.
- The system under a descriptor is the Linux block layer as the code relies on
  it: `O_EXCL`, errors on a removed disk, mounts and swap claiming a device.
- A path of a request is canonical or not; which one it is is fixed.
- `Execute` and `Command` run one call at a time. Two live writes of one disk
  at once are possible, because live mode opens the target without `O_EXCL`;
  the code has no exclusion to model and the documents promise none.
- Errors of `os.Remove` and of closing descriptors in deferred functions are
  ignored by the code and left out.
- `Command` takes the outcomes of `Engine.Stage` from a set; how they come
  about is the subject of `Stage`. Flags parse or do not. Wording and layout of
  the output are left out.

Not modelled:

- The syntax of the URL in `validateStageRequest`: a refusal there is the
  outcome `invalid_request` of `Command`.
- `withBoundary`, which only tests use, and the field-by-field copies between
  public and internal records (`toPolicyTarget` and the like), which decide
  nothing.
- `internal/version`: strings set at build time; the command that prints them
  is `RunVersion`.
- The parsers of mountinfo, swaps and sysfs files: their grammar is the
  kernel's. A text that does not parse is the error alternative of the read.
