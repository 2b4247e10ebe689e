-------------------------- MODULE ImageWriteProofs --------------------------
(***************************************************************************)
(* For every set of files, every image, every decoder that only adds to    *)
(* its output, and every interference of other processes.                  *)
(***************************************************************************)
EXTENDS ImageWrite, TLAPS

\* Every leaf that names no prover: SMT, then Zenon.
USE SMTT(30), ZenonT(30)

Hashed   == {"format", "held", "rehash", "copy", "probe", "sync", "written"}
Copying  == {"copy", "probe", "sync"}
Complete == {"sync", "written"}

\* Verify and Write have the descriptor they read from: Close waits for the
\* mutex that Write holds.
HeldWhileWriting == phase \in Verifying \union Writing => src # NoInode

\* The inductive invariant: which file the descriptor shows, what has been
\* read of it, and what of its expansion has been written.
ImageInv ==
  /\ TypeOK /\ HeldWhileWriting
  /\ phase \in Hashed => ver.sha = want.sha
  /\ phase \in Hashed \ {"format"} /\ "verify" \notin changed => ver.fmt = Format(want.sha)
  /\ phase = "hash" /\ "verify" \notin changed => Pre(buf, content[src])
  /\ phase = "format" /\ "verify" \notin changed => content[src] = want.sha
  /\ phase \in {"rehash"} \union Copying /\ "write" \notin changed => Pre(buf, content[src])
  /\ phase \in Copying /\ "write" \notin changed => content[src] = want.sha
  /\ phase \in {"closed", "hash", "format", "held", "rehash"} => dest = <<>>
  /\ phase \in Copying \union {"written"} => Pre(dest, Out(ver.fmt, buf)) /\ prog = Len(dest)
  /\ phase \in Writing => want.expected > 0
  /\ phase \in Complete \union {"probe"} => Len(dest) = want.expected
  /\ phase \in Complete => ~Pending /\ ~Fault(ver.fmt, buf, TRUE)
  /\ phase \in Complete /\ "write" \notin changed => buf = want.sha
  /\ phase = "written" => durable = dest
  /\ BoundedAndReported
  /\ SizeErrorIsReal

VerifyFailed == \E kind \in {"digest", "failed"} : VerifyFails(kind)
WriteFailed  == \E kind \in {"canceled", "failed"} : WriteFails(kind)

USE DEF Failures, fileVars, readVars, writeVars, Hashed, Copying, Complete, Verifying, Writing

----------------------------------------------------------------------------
(* Files are the sequences of at most MaxFile chunks.                      *)
LEMMA DataIsSeq ==
  /\ \A s \in Data : s \in Seq(Chunk) /\ Len(s) <= MaxFile
  /\ \A s \in Seq(Chunk) : Len(s) <= MaxFile => s \in Data
BY MaxFileAssumption DEF Data

(* The empty sequence is a file.                                           *)
LEMMA EmptyFile == <<>> \in Data /\ <<>> \in Seq(Chunk) /\ Len(<<>>) = 0
<1>1. <<>> \in Seq(Chunk) /\ Len(<<>>) = 0
  OBVIOUS
<1>2. 0 <= MaxFile
  BY MaxFileAssumption
<1> QED
  BY <1>1, <1>2, DataIsSeq, Zenon

(* A prefix grows by the next element, and is the whole when it is as long. *)
LEMMA PrefixGrows ==
  ASSUME NEW T, NEW s \in Seq(T), NEW t \in Seq(T), Pre(s, t)
  PROVE  /\ Len(s) < Len(t) => LET u == Append(s, t[Len(s) + 1]) IN
                                 u \in Seq(T) /\ Len(u) = Len(s) + 1 /\ Pre(u, t)
         /\ Len(t) <= Len(s) => s = t
BY DEF Pre

(* One more chunk of a file: what was read stays a file (write.go, Write). *)
LEMMA ReadType ==
  ASSUME TypeOK, src \in Inode, ~AtEOF, ReadChunk
  PROVE  /\ buf' = Append(buf, content[src][Len(buf) + 1]) /\ content[src][Len(buf) + 1] \in Chunk
         /\ buf' \in Data
         /\ Pre(buf, content[src]) => Pre(buf', content[src])
<1>1. content[src] \in Seq(Chunk) /\ Len(content[src]) <= MaxFile /\ buf \in Seq(Chunk)
  BY DataIsSeq, Zenon DEF TypeOK
<1>2. content[src][Len(buf) + 1] \in Chunk /\ Len(buf) < Len(content[src])
  BY <1>1 DEF AtEOF
<1>3. buf' \in Seq(Chunk) /\ Len(buf') = Len(buf) + 1
  BY <1>1, <1>2 DEF ReadChunk
<1>4. Len(buf') <= MaxFile
  BY <1>1, <1>2, <1>3, MaxFileAssumption
<1> QED
  BY <1>1, <1>2, <1>3, <1>4, DataIsSeq, PrefixGrows, Zenon DEF ReadChunk

(* What a reader has delivered is a sequence of chunks, and reading on     *)
(* only adds to it (write.go, expandedReader).                             *)
LEMMA OutIsSeq == ASSUME NEW data \in Data, NEW fmt PROVE Out(fmt, data) \in Seq(Chunk)
BY DecoderAssumption, DataIsSeq, Zenon DEF Out
LEMMA OutGrows ==
  ASSUME NEW s \in Data, NEW t \in Data, Pre(s, t), NEW fmt PROVE Pre(Out(fmt, s), Out(fmt, t))
BY DecoderAssumption, Zenon DEF Out

(* A prefix of a prefix.                                                   *)
LEMMA PrefixOfPrefix ==
  ASSUME NEW T, NEW s \in Seq(T), NEW t \in Seq(T), NEW u \in Seq(T), Pre(s, t), Pre(t, u) PROVE Pre(s, u)
BY DEF Pre

(* What was read before one more chunk is a prefix of it.                  *)
LEMMA AppendPrefix == ASSUME NEW T, NEW s \in Seq(T), NEW c \in T PROVE Pre(s, Append(s, c))
BY DEF Pre

----------------------------------------------------------------------------
(* The initial states satisfy the invariant (verified.go, Verify).         *)
LEMMA ImageInitially == Init => ImageInv
<1> SUFFICES ASSUME Init PROVE ImageInv
  OBVIOUS
<1>2. TypeOK
  BY EmptyFile DEF Init, Idle, TypeOK, NoVer, Phases
<1> QED
  BY <1>2, Zenon DEF Init, Idle, ImageInv, HeldWhileWriting, BoundedAndReported, SizeErrorIsReal

(* An error keeps it: nothing more goes out (write.go, Write).             *)
LEMMA FailKeeps == ASSUME ImageInv, VerifyFailed \/ WriteFailed PROVE ImageInv'
<1>1. /\ phase' \in {"digest", "canceled", "failed"} /\ src' \in Inode \union {NoInode}
      /\ UNCHANGED <<want, content, path, ctx, ver, buf, dest, durable, prog, changed>>
  BY Zenon DEF VerifyFailed, WriteFailed, VerifyFails, WriteFails, Fail, ImageInv, TypeOK
<1>2. TypeOK'
  BY <1>1, Zenon DEF ImageInv, TypeOK, Phases
<1> QED
  BY <1>1, <1>2, Zenon DEF ImageInv, HeldWhileWriting, BoundedAndReported, SizeErrorIsReal

(* Opening, hashing and format detection keep it (verified.go, Verify and  *)
(* verifyDescriptor).                                                      *)
LEMMA VerifyKeeps == ASSUME ImageInv, VerifyStep PROVE ImageInv'
<1>1. CASE VerifyFailed
  BY <1>1, FailKeeps, Zenon
<1>2. CASE OpenImage /\ ~VerifyFailed
  <2>1. /\ src' = path /\ path # NoInode /\ phase = "closed" /\ phase' = "hash" /\ buf' = <<>>
        /\ changed' = {} /\ UNCHANGED <<want, content, path, ctx, ver, dest, durable, prog>>
    BY <1>2, Zenon DEF OpenImage, VerifyFailed
  <2>2. <<>> \in Data /\ Len(<<>>) = 0
    BY EmptyFile, Zenon
  <2>3. TypeOK'
    BY <2>1, <2>2, Zenon DEF ImageInv, TypeOK, Phases
  <2>4. Pre(buf', content'[src'])
    <3>1. content[path] \in Seq(Chunk)
      BY <2>1, DataIsSeq, Zenon DEF ImageInv, TypeOK
    <3> QED
      BY <2>1, <3>1 DEF Pre
  <2> QED
    BY <2>1, <2>3, <2>4, Zenon DEF ImageInv, HeldWhileWriting, BoundedAndReported, SizeErrorIsReal
<1>3. CASE HashRead /\ ~VerifyFailed
  <2>1. /\ phase = "hash" /\ ~AtEOF /\ ReadChunk
        /\ UNCHANGED <<want, content, path, ctx, src, ver, phase, dest, durable, prog, changed>>
    BY <1>3, Zenon DEF HashRead, VerifyFailed
  <2>2. src \in Inode
    BY <2>1, Zenon DEF ImageInv, HeldWhileWriting, TypeOK
  <2>3. buf' \in Data /\ (Pre(buf, content[src]) => Pre(buf', content[src]))
    BY <2>1, <2>2, ReadType, Zenon DEF ImageInv
  <2>4. TypeOK'
    BY <2>1, <2>3, Zenon DEF ImageInv, TypeOK
  <2> QED
    BY <2>1, <2>3, <2>4, Zenon DEF ImageInv, HeldWhileWriting, BoundedAndReported, SizeErrorIsReal
<1>4. CASE HashDone /\ ~VerifyFailed
  <2>1. /\ phase = "hash" /\ AtEOF /\ buf = want.sha /\ phase' = "format"
        /\ ver' = [sha |-> buf, fmt |-> "raw", size |-> Len(buf)]
        /\ UNCHANGED <<want, content, path, ctx, src, buf, dest, durable, prog, changed>>
    BY <1>4, Zenon DEF HashDone, VerifyFailed
  <2>2. src \in Inode /\ src # NoInode
    BY <2>1, Zenon DEF ImageInv, HeldWhileWriting, TypeOK
  <2>3. buf \in Seq(Chunk) /\ content[src] \in Seq(Chunk)
    BY <2>2, DataIsSeq, Zenon DEF ImageInv, TypeOK
  <2>4. TypeOK'
    BY <2>1, <2>3 DEF ImageInv, TypeOK, Phases
  <2>5. "verify" \notin changed => content[src] = want.sha
    BY <2>1, <2>3, PrefixGrows, Zenon DEF ImageInv, AtEOF
  <2> QED
    BY <2>1, <2>2, <2>4, <2>5, Zenon DEF ImageInv, HeldWhileWriting, BoundedAndReported, SizeErrorIsReal
<1>5. CASE DescriptorFormat /\ ~VerifyFailed
  <2>1. /\ phase = "format" /\ phase' = "held" /\ ver' = [ver EXCEPT !.fmt = Format(content[src])]
        /\ UNCHANGED <<want, content, path, ctx, src, buf, dest, durable, prog, changed>>
    BY <1>5, Zenon DEF DescriptorFormat, VerifyFailed
  <2>2. src # NoInode
    BY <2>1, Zenon DEF ImageInv, HeldWhileWriting
  <2>3. TypeOK' /\ ver'.sha = ver.sha /\ ver'.fmt = Format(content[src])
    BY <2>1, Zenon DEF ImageInv, TypeOK, Phases, Format
  <2> QED
    BY <2>1, <2>2, <2>3, Zenon DEF ImageInv, HeldWhileWriting, BoundedAndReported, SizeErrorIsReal
<1> QED
  BY <1>1, <1>2, <1>3, <1>4, <1>5, Zenon DEF VerifyStep

(* The second hash keeps it: what it accepts is the file that was asked    *)
(* for (write.go, reverifySource).                                         *)
LEMMA RehashKeeps == ASSUME ImageInv, BeginWrite \/ RehashRead \/ RehashDone PROVE ImageInv'
<1>1. CASE WriteFailed
  BY <1>1, FailKeeps, Zenon
<1>0. <<>> \in Data /\ Len(<<>>) = 0
  BY EmptyFile, Zenon
<1>2. CASE BeginWrite /\ ~WriteFailed
  <2>1. /\ phase = "held" /\ phase' = "rehash" /\ buf' = <<>> /\ changed' = changed
        /\ src # NoInode /\ want.expected > 0
        /\ UNCHANGED <<want, content, path, ctx, src, ver, dest, durable, prog>>
    BY <1>2, Zenon DEF BeginWrite, ReadFails, WriteFailed
  <2>2. content[src] \in Seq(Chunk)
    BY <2>1, DataIsSeq, Zenon DEF ImageInv, TypeOK
  <2>3. TypeOK' /\ Pre(buf', content'[src'])
    BY <1>0, <2>1, <2>2 DEF ImageInv, TypeOK, Phases, Pre
  <2> QED
    BY <2>1, <2>3, Zenon DEF ImageInv, HeldWhileWriting, BoundedAndReported, SizeErrorIsReal
<1>3. CASE RehashRead /\ ~WriteFailed
  <2>1. /\ phase = "rehash" /\ ~AtEOF /\ ReadChunk
        /\ UNCHANGED <<want, content, path, ctx, src, ver, phase, dest, durable, prog, changed>>
    BY <1>3, Zenon DEF RehashRead, ReadFails, WriteFailed
  <2>2. src \in Inode
    BY <2>1, Zenon DEF ImageInv, HeldWhileWriting, TypeOK
  <2>3. buf' \in Data /\ (Pre(buf, content[src]) => Pre(buf', content[src]))
    BY <2>1, <2>2, ReadType, Zenon DEF ImageInv
  <2>4. TypeOK'
    BY <2>1, <2>3, Zenon DEF ImageInv, TypeOK
  <2> QED
    BY <2>1, <2>3, <2>4, Zenon DEF ImageInv, HeldWhileWriting, BoundedAndReported, SizeErrorIsReal
<1>4. CASE RehashDone /\ ~WriteFailed
  <2>1. /\ phase = "rehash" /\ AtEOF /\ buf = ver.sha /\ phase' = "copy" /\ buf' = <<>> /\ prog' = 0
        /\ UNCHANGED <<want, content, path, ctx, src, ver, dest, durable, changed>>
    BY <1>4, Zenon DEF RehashDone, WriteFailed
  <2>2. src \in Inode /\ dest = <<>>
    BY <2>1, Zenon DEF ImageInv, HeldWhileWriting, TypeOK
  <2>3. buf \in Seq(Chunk) /\ content[src] \in Seq(Chunk)
    BY <2>2, DataIsSeq, Zenon DEF ImageInv, TypeOK
  <2>4. "write" \notin changed => content[src] = want.sha
    BY <2>1, <2>3, PrefixGrows, Zenon DEF ImageInv, AtEOF
  <2>5. TypeOK' /\ Pre(buf', content'[src'])
    BY <1>0, <2>1, <2>3 DEF ImageInv, TypeOK, Phases, Pre
  <2>6. Out(ver.fmt, <<>>) \in Seq(Chunk)
    BY <1>0, OutIsSeq, Zenon
  <2>7. Pre(dest', Out(ver'.fmt, buf')) /\ prog' = Len(dest')
    BY <1>0, <2>1, <2>2, <2>6 DEF Pre
  <2> QED
    BY <2>1, <2>2, <2>4, <2>5, <2>7, Zenon DEF ImageInv, HeldWhileWriting, BoundedAndReported, SizeErrorIsReal
<1> QED
  BY <1>1, <1>2, <1>3, <1>4, Zenon

(* The copy keeps it: what is written is a prefix of the expansion of what *)
(* was read (write.go, Write).                                             *)
LEMMA CopyKeeps ==
  ASSUME ImageInv, ReadSource \/ CopyDone \/ DecodeFails \/ WriteChunk \/ DestinationFails
  PROVE  ImageInv'
<1>1. CASE WriteFailed
  BY <1>1, FailKeeps, Zenon
<1>2. CASE ReadSource /\ ~WriteFailed
  <2>1. /\ phase \in {"copy", "probe"} /\ ~AtEOF /\ ReadChunk
        /\ UNCHANGED <<want, content, path, ctx, src, ver, phase, dest, durable, prog, changed>>
    BY <1>2, Zenon DEF ReadSource, ReadFails, WriteFailed
  <2>2. src \in Inode
    BY <2>1, Zenon DEF ImageInv, HeldWhileWriting, TypeOK
  <2>3. /\ buf' = Append(buf, content[src][Len(buf) + 1]) /\ content[src][Len(buf) + 1] \in Chunk
        /\ buf' \in Data /\ (Pre(buf, content[src]) => Pre(buf', content[src]))
    BY <2>1, <2>2, ReadType, Zenon DEF ImageInv
  <2>4. TypeOK'
    BY <2>1, <2>3, Zenon DEF ImageInv, TypeOK
  <2>5. Pre(dest, Out(ver.fmt, buf'))
    <3>1. buf \in Data /\ dest \in Seq(Chunk) /\ Pre(dest, Out(ver.fmt, buf))
      BY <2>1, Zenon DEF ImageInv, TypeOK
    <3>2. Pre(buf, buf')
      BY <2>3, <3>1, AppendPrefix, DataIsSeq, Zenon
    <3>3. Pre(Out(ver.fmt, buf), Out(ver.fmt, buf'))
      BY <2>3, <3>1, <3>2, OutGrows, Zenon
    <3> QED
      BY <2>3, <3>1, <3>3, OutIsSeq, PrefixOfPrefix, Zenon
  <2> QED
    BY <2>1, <2>3, <2>4, <2>5, Zenon DEF ImageInv, HeldWhileWriting, BoundedAndReported, SizeErrorIsReal
<1>3. CASE CopyDone
  <2>1. /\ phase = "copy" /\ phase' = "probe" /\ Len(dest) = want.expected
        /\ UNCHANGED <<want, content, path, ctx, src, ver, buf, dest, durable, prog, changed>>
    BY <1>3, Zenon DEF CopyDone
  <2>2. TypeOK'
    BY <2>1, Zenon DEF ImageInv, TypeOK, Phases
  <2> QED
    BY <2>1, <2>2, Zenon DEF ImageInv, HeldWhileWriting, BoundedAndReported, SizeErrorIsReal
<1>4. CASE (WriteChunk \/ DestinationFails) /\ ~WriteFailed
  <2>1. /\ phase = "copy" /\ phase' \in {"copy", "failed"} /\ Pending /\ Len(dest) < want.expected
        /\ dest' = Append(dest, Out(ver.fmt, buf)[Len(dest) + 1]) /\ prog' = Len(dest')
        /\ UNCHANGED <<want, content, path, ctx, src, ver, buf, durable, changed>>
    BY <1>4, Zenon DEF WriteChunk, DestinationFails, WriteFailed
  <2>2. Out(ver.fmt, buf) \in Seq(Chunk) /\ dest \in Seq(Chunk) /\ want.expected \in Int
    BY OutIsSeq, Zenon DEF ImageInv, TypeOK
  <2>3. Pre(dest, Out(ver.fmt, buf)) /\ Len(dest) < Len(Out(ver.fmt, buf))
    BY <2>1, Zenon DEF ImageInv, Pending
  <2>4. dest' \in Seq(Chunk) /\ Len(dest') = Len(dest) + 1 /\ Pre(dest', Out(ver.fmt, buf))
    BY <2>1, <2>2, <2>3, PrefixGrows, Zenon
  <2>5. TypeOK'
    BY <2>1, <2>4 DEF ImageInv, TypeOK, Phases
  <2>6. Len(dest') <= want.expected
    BY <2>1, <2>2, <2>4
  <2> QED
    BY <2>1, <2>4, <2>5, <2>6, Zenon DEF ImageInv, HeldWhileWriting, BoundedAndReported, SizeErrorIsReal
<1> QED
  BY <1>1, <1>2, <1>3, <1>4, Zenon DEF DecodeFails, WriteFailed

(* An error about the size keeps it: at the end of the source all of its   *)
(* expansion has been written, and what is left over after the expected    *)
(* size belongs to it (write.go, Write).                                   *)
LEMMA SizeKeeps == ASSUME ImageInv, TooShort \/ TooLong PROVE ImageInv'
<1>1. /\ phase \in {"copy", "probe"} /\ phase' = "size"
      /\ UNCHANGED <<want, content, path, ctx, src, ver, buf, dest, durable, prog, changed>>
  BY Zenon DEF TooShort, TooLong, WriteFails, Fail
<1>2. TypeOK'
  BY <1>1, Zenon DEF ImageInv, TypeOK, Phases
<1>3. ASSUME changed = {} PROVE Len(Expand(want.sha)) # want.expected
  <2>1. /\ ver.fmt = Format(want.sha) /\ Pre(buf, want.sha) /\ content[src] = want.sha
        /\ Pre(dest, Out(ver.fmt, buf)) /\ (phase = "probe" => Len(dest) = want.expected)
    BY <1>1, <1>3, Zenon DEF ImageInv
  <2>2. want.sha \in Data /\ buf \in Data /\ dest \in Seq(Chunk) /\ want.expected \in Int
    BY Zenon DEF ImageInv, TypeOK
  <2>3. Len(dest) \in Nat /\ Len(Out(ver.fmt, buf)) \in Nat /\ Len(Out(ver.fmt, want.sha)) \in Nat
    BY <2>2, OutIsSeq
  <2>4. Len(dest) <= Len(Out(ver.fmt, buf))
    BY <2>1, Zenon DEF Pre
  <2>5. Expand(want.sha) = Out(ver.fmt, want.sha)
    BY <2>1, Zenon DEF Expand
  <2>6. CASE TooShort
    <3>1. Len(want.sha) <= Len(buf) /\ ~Pending /\ Len(dest) < want.expected
      BY <2>1, <2>6, Zenon DEF TooShort, AtEOF
    <3>2. buf = want.sha
      BY <2>1, <2>2, <3>1, DataIsSeq, PrefixGrows, Zenon
    <3> QED
      BY <2>2, <2>3, <2>4, <2>5, <3>1, <3>2, Zenon DEF Pending
  <2>7. CASE TooLong
    <3>1. Len(dest) = want.expected /\ Len(dest) < Len(Out(ver.fmt, buf))
      BY <2>1, <2>7, Zenon DEF TooLong, Pending
    <3>2. Len(Out(ver.fmt, buf)) <= Len(Out(ver.fmt, want.sha))
      BY <2>1, <2>2, OutGrows, Zenon DEF Pre
    <3> QED
      BY <2>3, <2>5, <3>1, <3>2
  <2> QED
    BY <2>6, <2>7, Zenon
<1> QED
  BY <1>1, <1>2, <1>3, Zenon DEF ImageInv, HeldWhileWriting, BoundedAndReported, SizeErrorIsReal

(* The end of the source, the synchronization and Close keep it (write.go, *)
(* Write; verified.go, Close).                                             *)
LEMMA EndKeeps == ASSUME ImageInv, ProbeEnds \/ Sync \/ SyncFails \/ Close PROVE ImageInv'
<1>1. CASE SyncFails
  BY <1>1, FailKeeps, Zenon DEF SyncFails, WriteFailed
<1>2. CASE ProbeEnds
  <2>1. /\ phase = "probe" /\ phase' = "sync" /\ ~Pending /\ AtEOF /\ ~Fault(ver.fmt, buf, TRUE)
        /\ UNCHANGED <<want, content, path, ctx, src, ver, buf, dest, durable, prog, changed>>
    BY <1>2, Zenon DEF ProbeEnds
  <2>2. src \in Inode
    BY <2>1, Zenon DEF ImageInv, HeldWhileWriting, TypeOK
  <2>3. buf \in Seq(Chunk) /\ content[src] \in Seq(Chunk)
    BY <2>2, DataIsSeq, Zenon DEF ImageInv, TypeOK
  <2>4. "write" \notin changed => buf = want.sha
    BY <2>1, <2>3, PrefixGrows, Zenon DEF ImageInv, AtEOF
  <2>5. TypeOK'
    BY <2>1, Zenon DEF ImageInv, TypeOK, Phases
  <2>6. ~Pending'
    BY <2>1, Zenon DEF Pending
  <2> QED
    BY <2>1, <2>4, <2>5, <2>6, Zenon DEF ImageInv, HeldWhileWriting, BoundedAndReported, SizeErrorIsReal
<1>3. CASE Sync
  <2>1. /\ phase = "sync" /\ phase' = "written" /\ durable' = dest
        /\ UNCHANGED <<want, content, path, ctx, src, ver, buf, dest, prog, changed>>
    BY <1>3, Zenon DEF Sync
  <2>2. TypeOK' /\ Pending' = Pending
    BY <2>1, Zenon DEF ImageInv, TypeOK, Phases, Pending
  <2> QED
    BY <2>1, <2>2, Zenon DEF ImageInv, HeldWhileWriting, BoundedAndReported, SizeErrorIsReal
<1>4. CASE Close
  <2>1. /\ phase \notin Verifying \union Writing /\ src' = NoInode
        /\ UNCHANGED <<want, content, path, ctx, ver, phase, buf, dest, durable, prog, changed>>
    BY <1>4, Zenon DEF Close
  <2>2. TypeOK' /\ Pending' = Pending
    BY <2>1, Zenon DEF ImageInv, TypeOK, Pending
  <2> QED
    BY <2>1, <2>2, Zenon DEF ImageInv, HeldWhileWriting, BoundedAndReported, SizeErrorIsReal
<1> QED
  BY <1>1, <1>2, <1>3, <1>4, Zenon

(* A step that leaves the source, the destination and the request alone    *)
(* keeps it.                                                               *)
LEMMA FrameKeeps ==
  ASSUME ImageInv, path' \in Inode \union {NoInode}, ctx' \in {"live", "done"},
         UNCHANGED <<want, content, src, ver, phase, buf, dest, durable, prog, changed>>
  PROVE  ImageInv'
<1>1. TypeOK' /\ Pending' = Pending
  BY Zenon DEF ImageInv, TypeOK, Pending
<1> QED
  BY <1>1, ZenonT(60) DEF ImageInv, HeldWhileWriting, BoundedAndReported, SizeErrorIsReal

(* Other processes keep it: a change of the held file is on record.        *)
LEMMA InterferenceKeeps == ASSUME ImageInv, Others \/ Cancel \/ UNCHANGED vars PROVE ImageInv'
<1>1. ASSUME NEW i \in Inode \union {NoInode}, ReplaceImage(i) PROVE ImageInv'
  <2>1. path' = i /\ UNCHANGED <<want, content, ctx, src, ver, phase, buf, dest, durable, prog, changed>>
    BY <1>1, Zenon DEF ReplaceImage
  <2> QED
    BY <1>1, <2>1, FrameKeeps, Zenon DEF ImageInv, TypeOK
<1>2. ASSUME NEW i \in Inode, NEW data \in Data, MutateImage(i, data) PROVE ImageInv'
  <2>1. /\ content' = [content EXCEPT ![i] = data]
        /\ changed' = IF i = src THEN changed \union Window ELSE changed
        /\ UNCHANGED <<want, path, ctx, src, ver, phase, buf, dest, durable, prog>>
    BY <1>2, Zenon DEF MutateImage
  <2>2. TypeOK' /\ Pending' = Pending
    BY <1>2, <2>1, Zenon DEF ImageInv, TypeOK, Pending, Window
  <2>5. /\ changed \subseteq changed'
        /\ i = src /\ phase \in Verifying => "verify" \in changed'
        /\ i = src /\ phase \in Writing => "write" \in changed'
    BY <2>1, Zenon DEF Window
  <2>3. src # NoInode /\ i # src => content'[src] = content[src] /\ changed' = changed
    BY <2>1, Zenon DEF ImageInv, TypeOK
  <2>4. phase \in Verifying \union Writing => src # NoInode
    BY Zenon DEF ImageInv, HeldWhileWriting
  <2> QED
    BY <2>1, <2>2, <2>3, <2>4, <2>5, ZenonT(60) DEF ImageInv, HeldWhileWriting, BoundedAndReported, SizeErrorIsReal
<1>3. CASE Cancel \/ UNCHANGED vars
  <2>1. ctx' \in {"live", "done"} /\ UNCHANGED <<want, content, path, src, ver, phase, buf, dest, durable, prog, changed>>
    BY <1>3, Zenon DEF Cancel, vars, ImageInv, TypeOK
  <2> QED
    BY <2>1, FrameKeeps, Zenon DEF ImageInv, TypeOK
<1> QED
  BY <1>1, <1>2, <1>3, Zenon DEF Others

(* For a caller that opens, writes and closes several images: each step    *)
(* of Verify and of Write keeps the invariant, closing a source keeps the  *)
(* types, and the next image starts afresh (execute.go, Execute).          *)
LEMMA StreamKeeps == ASSUME ImageInv, VerifyStep \/ WriteStep PROVE ImageInv'
BY VerifyKeeps, RehashKeeps, CopyKeeps, SizeKeeps, EndKeeps, Zenon DEF WriteStep, SourceStep, DestinationStep
LEMMA ClosingKeepsTypes ==
  ASSUME TypeOK, src' \in {src, NoInode}, phase' \in {phase, "closed"},
         UNCHANGED <<want, content, path, ctx, ver, buf, dest, durable, prog, changed>>
  PROVE  TypeOK'
BY ZenonT(30) DEF TypeOK, Phases
LEMMA OthersKeepTypes == ASSUME TypeOK, Others \/ Cancel PROVE TypeOK'
<1>1. ASSUME NEW i \in Inode \union {NoInode}, ReplaceImage(i) PROVE TypeOK'
  BY <1>1, Zenon DEF TypeOK, ReplaceImage
<1>2. ASSUME NEW i \in Inode, NEW data \in Data, MutateImage(i, data) PROVE TypeOK'
  <2>1. content' \in [Inode -> Data] /\ changed' \subseteq {"verify", "write"}
    BY <1>2, Zenon DEF TypeOK, MutateImage, Window
  <2> QED
    BY <1>2, <2>1, Zenon DEF TypeOK, MutateImage
<1>3. CASE Cancel
  BY <1>3, Zenon DEF TypeOK, Cancel
<1> QED
  BY <1>1, <1>2, <1>3, Zenon DEF Others
LEMMA StartsAfresh ==
  ASSUME TypeOK, want' \in [sha : Data, expected : Int], src = NoInode, phase = "closed",
         ctx' \in {"live", "done"}, ver' = NoVer, buf' = <<>>, dest' = <<>>, durable' = <<>>,
         prog' = -1, changed' = {}, UNCHANGED <<content, path, src, phase>>
  PROVE  ImageInv'
<1>1. TypeOK'
  BY EmptyFile DEF TypeOK, NoVer, Phases
<1> QED
  BY <1>1, Zenon DEF ImageInv, HeldWhileWriting, BoundedAndReported, SizeErrorIsReal

(* Hence the invariant holds all the time (write.go, Write).               *)
LEMMA ImageInvariant == Spec => []ImageInv
<1>1. ImageInv /\ [Next]_vars => ImageInv'
  BY StreamKeeps, EndKeeps, InterferenceKeeps, Zenon DEF Next
<1> QED
  BY ImageInitially, <1>1, PTL DEF Spec

----------------------------------------------------------------------------
(* The type invariant of Verify, Write and Close.                          *)
THEOREM ImageTypeCorrect == Spec => []TypeOK
<1>1. ImageInv => TypeOK
  BY Zenon DEF ImageInv
<1> QED
  BY ImageInvariant, <1>1, PTL

(* A success of Write is exact (write.go, Write).                          *)
LEMMA WrittenIsExact == ASSUME ImageInv PROVE ExactImage
<1> SUFFICES ASSUME phase = "written", changed = {}
             PROVE  /\ Expandable(want.sha) /\ dest = Expand(want.sha)
                    /\ durable = dest /\ Len(dest) = want.expected
  BY Zenon DEF ExactImage
<1>1. /\ buf = want.sha /\ ver.fmt = Format(want.sha) /\ Pre(dest, Out(ver.fmt, buf)) /\ ~Pending
      /\ ~Fault(ver.fmt, buf, TRUE) /\ durable = dest /\ Len(dest) = want.expected
  BY Zenon DEF ImageInv
<1>2. Out(ver.fmt, buf) \in Seq(Chunk) /\ dest \in Seq(Chunk)
  BY OutIsSeq, Zenon DEF ImageInv, TypeOK
<1>3. dest = Out(ver.fmt, buf)
  BY <1>1, <1>2, PrefixGrows DEF Pending
<1> QED
  BY <1>1, <1>3, Zenon DEF Expandable, Expand

(* For every image and every decoder, a success of Write means that the    *)
(* destination durably holds exactly the expansion of the file that was    *)
(* asked for, unless that file was changed in place while Verify or Write  *)
(* read it (write.go, Write).                                              *)
THEOREM SuccessIsExact == Spec => []ExactImage
<1>1. ImageInv => ExactImage
  BY WrittenIsExact, Zenon
<1> QED
  BY ImageInvariant, <1>1, PTL

(* A change in place before the second hash never gets past it (write.go,  *)
(* reverifySource).                                                        *)
THEOREM StreamsOnlyVerified == Spec => []StreamsVerifiedFile
<1>1. ImageInv => StreamsVerifiedFile
  BY Zenon DEF ImageInv, StreamsVerifiedFile
<1> QED
  BY ImageInvariant, <1>1, PTL

(* Never more than the expected size goes out, and all of it is reported   *)
(* (write.go, LimitReader and progressWriter).                             *)
THEOREM OutputIsBounded == Spec => []BoundedAndReported
<1>1. ImageInv => BoundedAndReported
  BY Zenon DEF ImageInv
<1> QED
  BY ImageInvariant, <1>1, PTL

(* An error about the size says that the file that was asked for expands   *)
(* to another size, or was changed in place while it was read (write.go,   *)
(* Write: ErrSizeMismatch).                                                *)
THEOREM SizeErrorsAreReal == Spec => []SizeErrorIsReal
<1>1. ImageInv => SizeErrorIsReal
  BY Zenon DEF ImageInv
<1> QED
  BY ImageInvariant, <1>1, PTL
=============================================================================
