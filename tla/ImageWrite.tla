----------------------------- MODULE ImageWrite -----------------------------
(***************************************************************************)
(* internal/image/verified.go and write.go: one image is opened and hashed *)
(* (Verify), its descriptor is held, and it is later hashed again and      *)
(* streamed to a destination (Write).                                      *)
(*                                                                         *)
(* A file is a sequence of chunks; one read, one write and one progress    *)
(* report handle one chunk, and sizes count chunks.  SHA-256 is taken to   *)
(* be injective, so the digest of a file is the sequence of its chunks.    *)
(* Other processes may rename another file over the image path             *)
(* (ReplaceImage) or change a file in place (MutateImage) between any two  *)
(* steps.                                                                  *)
(***************************************************************************)
EXTENDS Integers, Sequences

CONSTANTS Inode, NoInode,
          Chunk,
          MaxFile,          \* bound on the size of a file
          Magic,            \* the chunk a zstd file starts with
          ZOut(_),          \* what the zstd decoder has put out after reading these chunks
          ZFault(_, _)      \* whether it reports an error after them, at end of file or not

ASSUME InodeAssumption == NoInode \notin Inode
ASSUME MaxFileAssumption == MaxFile \in Nat

Data == UNION {[1 .. n -> Chunk] : n \in 0 .. MaxFile}

Pre(s, t) == Len(s) <= Len(t) /\ \A k \in 1 .. Len(s) : s[k] = t[k]

\* The decoder only ever adds to what it has put out.
ASSUME DecoderAssumption ==
  /\ \A s \in Data : ZOut(s) \in Seq(Chunk)
  /\ \A s, t \in Data : Pre(s, t) => Pre(ZOut(s), ZOut(t))

VARIABLES want,      \* the request: [sha, expected]
          content,   \* [Inode -> Data]
          path,      \* the inode at the image path, or NoInode
          ctx,       \* whether the context is canceled
          src,       \* Verified.file: the inode of the descriptor, or NoInode
          ver,       \* Verified: [sha, fmt, size]
          phase,     \* where Verify and Write stand
          buf,       \* the chunks read since the descriptor was rewound
          dest,      \* the chunks written to the destination
          durable,   \* the chunks the destination has synchronized
          prog,      \* the last progress report, -1 before the first
          changed    \* history: the halves, "verify" or "write", during which somebody
                     \*   changed the held file in place

fileVars  == <<content, path>>
readVars  == <<src, ver>>
writeVars == <<dest, durable, prog>>
vars == <<want, content, path, ctx, src, ver, phase, buf, dest, durable, prog, changed>>

Verifying == {"hash", "format"}
Writing   == {"rehash", "copy", "probe", "sync"}   \* Write holds Verified.mu
\* The errors the callers tell apart: ErrDigestMismatch, ErrSizeMismatch,
\* the error of the context, and every other one.
Failures  == {"digest", "size", "canceled", "failed"}
Phases    == {"closed", "held", "written"} \union Failures \union Verifying \union Writing

NoVer == [sha |-> <<>>, fmt |-> "raw", size |-> 0]

\* Mutant: an empty file has no format.
Format_Unknown(data) == IF data = <<>> THEN "unknown" ELSE IF data[1] = Magic THEN "zstd" ELSE "raw"

Format(data) == IF data # <<>> /\ data[1] = Magic THEN "zstd" ELSE "raw"

\* What expandedReader's reader delivers after reading data.
Out(fmt, data)        == IF fmt = "zstd" THEN ZOut(data) ELSE data
Fault(fmt, data, eof) == fmt = "zstd" /\ ZFault(data, eof)

\* The complete expansion of a file, and whether it has one.
Expand(data)     == Out(Format(data), data)
Expandable(data) == ~Fault(Format(data), data, TRUE)

----------------------------------------------------------------------------
AtEOF   == Len(buf) >= Len(content[src])
Pending == Len(dest) < Len(Out(ver.fmt, buf))

ReadChunk == buf' = Append(buf, content[src][Len(buf) + 1])

Fail(kind) == phase' = kind /\ UNCHANGED <<want, fileVars, ctx, ver, buf, writeVars, changed>>

\* Verify keeps the descriptor only when it succeeds; Write leaves closing
\* to its caller.
VerifyFails(kind) == Fail(kind) /\ src' = NoInode
WriteFails(kind)  == Fail(kind) /\ UNCHANGED src

\* contextReader looks at the context before it reads.
ReadFails == WriteFails(IF ctx = "done" THEN "canceled" ELSE "failed")

Idle ==
  /\ ctx = "live" /\ src = NoInode /\ ver = NoVer /\ phase = "closed"
  /\ buf = <<>> /\ dest = <<>> /\ durable = <<>> /\ prog = -1 /\ changed = {}

(* Verify *)

\* os.Open: a missing path, or a file that is not regular, is an error.
OpenImage ==
  /\ phase = "closed"
  /\ \/ /\ path # NoInode
        /\ src' = path /\ phase' = "hash" /\ buf' = <<>> /\ changed' = {}
        /\ UNCHANGED <<want, fileVars, ctx, ver, writeVars>>
     \/ VerifyFails("failed")

HashRead ==
  /\ phase = "hash"
  /\ \/ ~AtEOF /\ ReadChunk
        /\ UNCHANGED <<want, fileVars, ctx, readVars, phase, writeVars, changed>>
     \/ VerifyFails("failed")

HashDone ==
  /\ phase = "hash" /\ AtEOF
  /\ IF buf = want.sha
     THEN /\ ver' = [sha |-> buf, fmt |-> "raw", size |-> Len(buf)]
          /\ phase' = "format"
          /\ UNCHANGED <<want, fileVars, ctx, src, buf, writeVars, changed>>
     ELSE VerifyFails("digest")

\* descriptorFormat reads the header again, after the hash.
DescriptorFormat ==
  /\ phase = "format"
  /\ \/ /\ ver' = [ver EXCEPT !.fmt = Format(content[src])]
        /\ phase' = "held"
        /\ UNCHANGED <<want, fileVars, ctx, src, buf, writeVars, changed>>
     \/ VerifyFails("failed")

(* Write *)

\* validateWriteInputs, the lock, the closed check, and the first half of
\* reverifySource: the size of the held file.
BeginWrite ==
  /\ phase = "held"
  /\ IF /\ ctx = "live" /\ want.expected > 0 /\ src # NoInode
        /\ Len(content[src]) = ver.size
     THEN /\ phase' = "rehash" /\ buf' = <<>>
          /\ UNCHANGED <<want, fileVars, ctx, readVars, writeVars, changed>>
     ELSE ReadFails

RehashRead ==
  /\ phase = "rehash"
  /\ \/ /\ ctx = "live" /\ ~AtEOF /\ ReadChunk
        /\ UNCHANGED <<want, fileVars, ctx, readVars, phase, writeVars, changed>>
     \/ ReadFails

\* Mutants: the second digest is not compared; a mismatch is tried again.
RehashDone_Trusts ==
  /\ phase = "rehash" /\ ctx = "live" /\ AtEOF
  /\ phase' = "copy" /\ buf' = <<>> /\ prog' = 0
  /\ UNCHANGED <<want, fileVars, ctx, readVars, dest, durable, changed>>
RehashDone_Retries ==
  /\ phase = "rehash" /\ ctx = "live" /\ AtEOF
  /\ IF buf = ver.sha THEN phase' = "copy" /\ prog' = 0 ELSE UNCHANGED <<phase, prog>>
  /\ buf' = <<>>
  /\ UNCHANGED <<want, fileVars, ctx, readVars, dest, durable, changed>>

\* The rest of reverifySource, expandedReader and the first progress report.
RehashDone ==
  /\ phase = "rehash" /\ ctx = "live" /\ AtEOF
  /\ IF buf = ver.sha
     THEN /\ phase' = "copy" /\ buf' = <<>> /\ prog' = 0
          /\ UNCHANGED <<want, fileVars, ctx, readVars, dest, durable, changed>>
     ELSE WriteFails("failed")

\* One read of the source by the copy loop or by the read of the extra byte.
ReadSource ==
  /\ phase \in {"copy", "probe"} /\ ~Pending
  /\ phase = "copy" => Len(dest) < want.expected
  /\ ~Fault(ver.fmt, buf, FALSE)
  /\ \/ /\ ctx = "live" /\ ~AtEOF /\ ReadChunk
        /\ UNCHANGED <<want, fileVars, ctx, readVars, phase, writeVars, changed>>
     \/ ReadFails

\* Mutant: no LimitReader.
WriteChunk_Unlimited ==
  /\ phase = "copy" /\ Pending
  /\ dest' = Append(dest, Out(ver.fmt, buf)[Len(dest) + 1]) /\ prog' = Len(dest')
  /\ UNCHANGED <<want, fileVars, ctx, readVars, buf, durable, changed, phase>>

\* progressWriter.Write; LimitReader stops the copy at the expected size.
WriteChunk ==
  /\ phase = "copy" /\ Pending /\ Len(dest) < want.expected
  /\ dest' = Append(dest, Out(ver.fmt, buf)[Len(dest) + 1])
  /\ prog' = Len(dest')
  /\ UNCHANGED <<want, fileVars, ctx, readVars, buf, durable, changed, phase>>

\* An error of the destination, after some or none of the chunk was taken.
DestinationFails ==
  /\ phase = "copy" /\ Pending /\ Len(dest) < want.expected
  /\ \/ WriteFails("failed")
     \/ /\ dest' = Append(dest, Out(ver.fmt, buf)[Len(dest) + 1])
        /\ prog' = Len(dest')
        /\ phase' = "failed"
        /\ UNCHANGED <<want, fileVars, ctx, readVars, buf, durable, changed>>

\* Mutant: the read of one extra byte is left out.
CopyDone_NoProbe ==
  /\ phase = "copy" /\ Len(dest) = want.expected
  /\ phase' = "sync"
  /\ UNCHANGED <<want, fileVars, ctx, readVars, buf, writeVars, changed>>

CopyDone ==
  /\ phase = "copy" /\ Len(dest) = want.expected
  /\ phase' = "probe"
  /\ UNCHANGED <<want, fileVars, ctx, readVars, buf, writeVars, changed>>

\* The decoder rejects what it read, or the end of the source.
DecodeFails ==
  /\ phase \in {"copy", "probe"} /\ ~Pending
  /\ phase = "copy" => Len(dest) < want.expected
  /\ \/ Fault(ver.fmt, buf, FALSE)
     \/ ctx = "live" /\ AtEOF /\ Fault(ver.fmt, buf, TRUE)
  /\ WriteFails("failed")

\* Mutant: a read that fails is taken for the end of the source.
TooShort_AnyEnd ==
  /\ phase = "copy" /\ ~Pending /\ Len(dest) < want.expected
  /\ ~Fault(ver.fmt, buf, TRUE)
  /\ WriteFails("size")

TooShort ==
  /\ phase = "copy" /\ ~Pending /\ Len(dest) < want.expected
  /\ ctx = "live" /\ AtEOF /\ ~Fault(ver.fmt, buf, TRUE)
  /\ WriteFails("size")

TooLong == phase = "probe" /\ Pending /\ WriteFails("size")

ProbeEnds ==
  /\ phase = "probe" /\ ~Pending
  /\ ctx = "live" /\ AtEOF
  /\ ~Fault(ver.fmt, buf, FALSE) /\ ~Fault(ver.fmt, buf, TRUE)
  /\ phase' = "sync"
  /\ UNCHANGED <<want, fileVars, ctx, readVars, buf, writeVars, changed>>

Sync ==
  /\ phase = "sync"
  /\ durable' = dest
  /\ phase' = "written"
  /\ UNCHANGED <<want, fileVars, ctx, readVars, buf, dest, prog, changed>>

SyncFails == phase = "sync" /\ WriteFails("failed")

(* Verified.Close: safe to repeat; it waits for Verified.mu, which Write holds. *)
Close ==
  /\ phase \in Phases \ (Verifying \union Writing)
  /\ src' = NoInode
  /\ UNCHANGED <<want, fileVars, ctx, ver, phase, buf, writeVars, changed>>

VerifyStep == OpenImage \/ HashRead \/ HashDone \/ DescriptorFormat
SourceStep ==
  \/ BeginWrite \/ RehashRead \/ RehashDone \/ ReadSource \/ CopyDone
  \/ DecodeFails \/ TooShort \/ TooLong \/ ProbeEnds \/ SyncFails
DestinationStep == WriteChunk \/ DestinationFails
WriteStep == SourceStep \/ DestinationStep \/ Sync

(* Other processes and the caller's context. *)

ReplaceImage(i) ==
  /\ path' = i
  /\ UNCHANGED <<want, content, ctx, readVars, phase, buf, writeVars, changed>>

\* A change is on record when Verify or Write is reading the file.
Window == IF phase \in Verifying THEN {"verify"} ELSE IF phase \in Writing THEN {"write"} ELSE {}

MutateImage(i, data) ==
  /\ content' = [content EXCEPT ![i] = data]
  /\ changed' = IF i = src THEN changed \union Window ELSE changed
  /\ UNCHANGED <<want, path, ctx, readVars, phase, buf, writeVars>>

Cancel ==
  /\ ctx = "live" /\ ctx' = "done"
  /\ UNCHANGED <<want, fileVars, readVars, phase, buf, writeVars, changed>>

Init ==
  /\ want \in [sha : Data, expected : Int]
  /\ content \in [Inode -> Data] /\ path \in Inode \union {NoInode}
  /\ Idle

Others ==
  \/ \E i \in Inode \union {NoInode} : ReplaceImage(i)
  \/ \E i \in Inode, data \in Data : MutateImage(i, data)

Next == VerifyStep \/ WriteStep \/ Close \/ Others \/ Cancel

Spec == Init /\ [][Next]_vars
----------------------------------------------------------------------------
TypeOK ==
  /\ want \in [sha : Data, expected : Int]
  /\ content \in [Inode -> Data]
  /\ path \in Inode \union {NoInode}
  /\ ctx \in {"live", "done"}
  /\ src \in Inode \union {NoInode}
  /\ ver \in [sha : Data, fmt : {"raw", "zstd"}, size : Nat]
  /\ phase \in Phases
  /\ buf \in Data /\ dest \in Seq(Chunk) /\ durable \in Seq(Chunk)
  /\ prog \in Int
  /\ changed \subseteq {"verify", "write"}

(* Write reports success only when the destination holds, durably, the     *)
(* complete expansion of the file whose digest was asked for and nothing   *)
(* else, whatever was renamed over the image path meanwhile, and whatever  *)
(* was done to the held file between Verify and Write.  Not claimed is it  *)
(* for a file changed in place during Verify, from its first read to that  *)
(* of the header, or during Write, from the second hash to the last read:  *)
(* there the code trusts the file (write.go, Write; verified.go, Verify).  *)
ExactImage ==
  phase = "written" /\ changed = {} =>
    /\ Expandable(want.sha)
    /\ dest = Expand(want.sha)
    /\ durable = dest
    /\ Len(dest) = want.expected

(* A change made in place before Write starts to hash the source again is  *)
(* found before the first byte goes out: while the copy runs, the held     *)
(* file is the verified one unless it was changed after that moment        *)
(* (write.go, reverifySource).                                             *)
StreamsVerifiedFile ==
  phase \in {"copy", "probe", "sync"} /\ "write" \notin changed => content[src] = want.sha

(* The destination never receives more than the expected size, even from a *)
(* source that expands to more, and every chunk it took was reported       *)
(* (write.go, LimitReader and progressWriter).                             *)
BoundedAndReported ==
  /\ dest # <<>> => Len(dest) <= want.expected
  /\ dest # <<>> => prog = Len(dest)

(* An error about the size is never a disguised I/O error or cancellation: *)
(* the file that was asked for really expands to another size, unless it   *)
(* was changed in place while Verify or Write read it (write.go, Write:    *)
(* ErrSizeMismatch, which diskforge.go's publicError turns into the gate   *)
(* invalid_image_size).                                                    *)
SizeErrorIsReal ==
  phase = "size" /\ changed = {} => Len(Expand(want.sha)) # want.expected
=============================================================================
