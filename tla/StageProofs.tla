---------------------------- MODULE StageProofs ----------------------------
(***************************************************************************)
(* Stage for any number of calls, answers and losses of power, provided    *)
(* that CreateTemp draws no name twice.                                    *)
(***************************************************************************)
EXTENDS Stage, TLAPS

Owning      == {"copy", "sync", "verify", "rename"}
Named       == Owning \union {"syncDir", "finish", "giveUp"}
Unpublished == {"begin", "download", "create"} \union Owning

\* A directory shows complete and durable files at the destination only.
Complete(d) == d[Dest] \in Caller =>
  content[d[Dest]] = Request[d[Dest]].sha /\ d[Dest] \in synced

\* The inductive invariant: the partial of a call that is still to rename it
\* has its name, no two calls have the same name, and the file is at the
\* destination in no directory that a loss of power may bring back.
StageInv ==
  /\ TypeOK /\ Old \in synced
  /\ \A c \in Caller : pc[c] \in Owning => dir[tmp[c]] = c
  /\ \A c \in Caller : pc[c] \in Named => tmp[c] \in used
  /\ \A c, e \in Caller : pc[c] \in Named /\ pc[e] \in Named /\ tmp[c] = tmp[e] => c = e
  /\ \A c \in Caller : pc[c] \in Unpublished => \A d \in past : d[Dest] # c
  /\ \A c \in Caller : pc[c] \in {"sync", "verify", "rename"} => content[c] = Request[c].sha
  /\ \A c \in Caller : pc[c] \in {"verify", "rename"} => c \in synced
  /\ \A d \in past : Complete(d)

USE DEF Owning, Named, Unpublished, Ended
\* Every leaf that names no prover: SMT, then Zenon.
USE SMTT(30), ZenonT(30)

----------------------------------------------------------------------------
(* What Data is: short enough sequences of chunks (stage.go, io.Copy).     *)
LEMMA DataIsSeq == ASSUME NEW s \in Data PROVE s \in Seq(Chunk) /\ Len(s) \in 0 .. MaxFile
<1>1. PICK n \in 0 .. MaxFile : s \in [1 .. n -> Chunk]
  BY Zenon DEF Data
<1> QED
  BY <1>1, StageAssumption

(* And every short enough sequence of chunks is in it.                     *)
LEMMA SeqIsData == ASSUME NEW s \in Seq(Chunk), Len(s) <= MaxFile PROVE s \in Data
<1>1. Len(s) \in 0 .. MaxFile /\ s \in [1 .. Len(s) -> Chunk]
  BY StageAssumption
<1> QED
  BY <1>1, Zenon DEF Data

(* The initial states satisfy the invariant (stage.go, Stage).             *)
LEMMA StageInitially == Init => StageInv
<1> SUFFICES ASSUME Init PROVE StageInv
  OBVIOUS
<1>1. <<>> \in Data
  <2>1. <<>> \in Seq(Chunk) /\ Len(<<>>) <= MaxFile
    BY StageAssumption
  <2> QED
    BY <2>1, SeqIsData, Zenon
<1>2. content \in [File -> Data]
  BY <1>1, StageAssumption, Zenon DEF Init, File
<1>3. dir \in [Names -> File \union {NoFile}] /\ dir[Dest] \in {Old, NoFile}
  BY Zenon DEF Init, Names, File
<1>4. TypeOK
  <2>1. /\ pc \in [Caller -> Ended \union {"begin", "download", "create", "copy", "sync", "verify",
                                         "rename", "syncDir", "finish", "giveUp"}]
        /\ resp \in [Caller -> Response \union {NoResponse}] /\ tmp \in [Caller -> Names]
    BY Zenon DEF Init, Names
  <2>2. synced \subseteq File /\ past \subseteq [Names -> File \union {NoFile}] /\ dir \in past
    BY <1>3, Zenon DEF Init, File
  <2>3. published \in Seq(Caller) /\ used \subseteq Temp
    BY DEF Init
  <2>4. own \in Timeout /\ kept \in Timeout \union {NoEngine} /\ stopped \in BOOLEAN
    BY Zenon DEF Init
  <2> QED
    BY <1>2, <1>3, <2>1, <2>2, <2>3, <2>4, Zenon DEF TypeOK
<1> QED
  BY <1>3, <1>4, CallerAssumption, Zenon DEF Init, StageInv, Complete

(* A step of one call that leaves the files and the directory alone and    *)
(* moves on in order keeps it (stage.go, Stage and publishResponse).       *)
LEMMA MoveKeeps ==
  ASSUME StageInv, NEW c \in Caller, NEW next, Goto(c, next), TypeOK',
         UNCHANGED <<tmp, content, synced, dir, past, used>>,
         next \in Owning => pc[c] \in Owning, next \in Named => pc[c] \in Named,
         next \in Unpublished => pc[c] \in Unpublished,
         next \in {"sync", "verify", "rename"} => content[c] = Request[c].sha,
         next \in {"verify", "rename"} => c \in synced
  PROVE  StageInv'
<1>1. \A e \in Caller : pc'[e] = IF e = c THEN next ELSE pc[e]
  BY Zenon DEF Goto, StageInv, TypeOK
<1> QED
  BY <1>1, SMTT(40) DEF StageInv, Complete

(* Setting up the engine keeps it (diskforge.go, New).                     *)
LEMMA EngineKeeps ==
  ASSUME StageInv, New \/ \E t \in Timeout : ChangeClient(t) PROVE StageInv'
<1>1. UNCHANGED restVars /\ own' \in Timeout /\ kept' \in Timeout \union {NoEngine}
  BY TimeoutAssumption, Zenon DEF New, ChangeClient, WithHTTPClient, StageInv, TypeOK
<1> QED
  BY <1>1, Zenon DEF restVars, callVars, fsVars, histVars, StageInv, TypeOK, Complete

(* Waiting for the answer, and its timeout, keep it (stage.go, download).  *)
LEMMA WaitKeeps ==
  ASSUME StageInv, NEW c \in Caller, Begin(c) \/ download(c) \/ TimeoutFires(c) PROVE StageInv'
<1> USE DEF callVars, fsVars, netVars, histVars
<1>1. PICK next \in {"download", "create", "failed", "giveUp"} :
        /\ Goto(c, next) /\ resp' \in [Caller -> Response \union {NoResponse}]
        /\ UNCHANGED <<tmp, content, synced, dir, past, used, own, kept, published, stopped>>
        /\ next = "giveUp" => pc[c] = "copy"
        /\ pc[c] \in {"begin", "download", "copy"}
  BY SMTT(40) DEF Begin, download, TimeoutFires, StageInv, TypeOK
<1>2. TypeOK'
  BY <1>1, ZenonT(40) DEF Goto, StageInv, TypeOK
<1> QED
  BY <1>1, <1>2, MoveKeeps, Zenon

(* The checks on the partial keep it (stage.go, publishResponse).          *)
LEMMA ChecksKeep ==
  ASSUME StageInv, NEW c \in Caller, CheckPartial(c) \/ VerifyPartial(c) PROVE StageInv'
<1> USE DEF callVars, fsVars, netVars, histVars
<1>1. PICK next \in {"sync", "rename", "giveUp"} :
        /\ Goto(c, next)
        /\ UNCHANGED <<resp, tmp, content, synced, dir, past, used, own, kept, published, stopped>>
        /\ next # "giveUp" => content[c] = Request[c].sha
        /\ pc[c] \in {"copy", "verify"} /\ (next = "rename" => pc[c] = "verify")
  BY SMTT(40) DEF CheckPartial, VerifyPartial, acceptable
<1>2. TypeOK'
  BY <1>1, ZenonT(40) DEF Goto, StageInv, TypeOK
<1>3. next = "rename" => c \in synced
  BY <1>1, Zenon DEF StageInv
<1> QED
  BY <1>1, <1>2, <1>3, MoveKeeps, Zenon

(* A copied chunk is added to a file that no directory shows at the        *)
(* destination (stage.go, io.Copy).                                        *)
LEMMA CopyKeeps == ASSUME StageInv, NEW c \in Caller, CopyChunk(c) PROVE StageInv'
<1> USE DEF callVars, netVars, histVars
<1>1. CASE Goto(c, "giveUp") /\ UNCHANGED content
  <2>1. TypeOK'
    BY <1>1, ZenonT(40) DEF CopyChunk, Goto, StageInv, TypeOK
  <2> QED
    BY <1>1, <2>1, MoveKeeps, SMTT(40) DEF CopyChunk
<1>2. CASE /\ ~CopyDone(c) /\ UNCHANGED pc
           /\ content' = [content EXCEPT ![c] = Append(@, resp[c].body[Len(@) + 1])]
  <2>1. /\ pc[c] = "copy" /\ UNCHANGED <<pc, resp, tmp, synced, dir, past, used>>
        /\ UNCHANGED <<own, kept, published, stopped>>
    BY <1>2, Zenon DEF CopyChunk
  <2>2. content[c] \in Seq(Chunk) /\ Len(content[c]) \in Nat /\ c \in File
    BY DataIsSeq DEF StageInv, TypeOK, File
  <2>3. resp[c].body \in Seq(Chunk) /\ Len(resp[c].body) <= MaxFile
    <3>1. resp[c] \in Response \union {NoResponse}
      BY Zenon DEF StageInv, TypeOK
    <3>2. CASE resp[c] = NoResponse
      BY <3>2, StageAssumption DEF NoResponse
    <3>3. CASE resp[c] \in Response
      BY <3>3, DataIsSeq, StageAssumption
    <3> QED
      BY <3>1, <3>2, <3>3, Zenon
  <2>4. Len(content[c]) < Len(resp[c].body)
    BY <1>2, <2>2, <2>3 DEF CopyDone
  <2> DEFINE new == Append(content[c], resp[c].body[Len(content[c]) + 1])
  <2>5. new \in Seq(Chunk) /\ Len(new) <= MaxFile
    BY <2>2, <2>3, <2>4, StageAssumption
  <2>6. new \in Data
    BY <2>5, SeqIsData, Zenon
  <2>7. content' = [content EXCEPT ![c] = new]
    BY <1>2, Zenon
  <2> HIDE DEF new
  <2>8. content' \in [File -> Data] /\ \A f \in File : f # c => content'[f] = content[f]
    BY <2>6, <2>7, Zenon DEF StageInv, TypeOK
  <2>9. TypeOK'
    BY <2>1, <2>8, Zenon DEF StageInv, TypeOK
  <2>10. \A d \in past : d[Dest] # c
    BY <2>1, Zenon DEF StageInv
  <2> QED
    BY <2>1, <2>8, <2>9, <2>10, SMTT(40) DEF StageInv, Complete, File
<1> QED
  BY <1>1, <1>2, Zenon DEF CopyChunk

(* A partial that is synchronized keeps it (stage.go, partial.Sync).       *)
LEMMA SyncKeeps == ASSUME StageInv, NEW c \in Caller, SyncPartial(c) PROVE StageInv'
<1> USE DEF callVars, netVars, histVars
<1>1. PICK next \in {"verify", "giveUp"} :
        /\ Goto(c, next) /\ pc[c] = "sync"
        /\ UNCHANGED <<resp, tmp, content, dir, past, used, own, kept, published, stopped>>
        /\ synced' = IF next = "verify" THEN synced \union {c} ELSE synced
  BY SMTT(40) DEF SyncPartial
<1>2. synced' \subseteq File /\ synced \subseteq synced' /\ (next = "verify" => c \in synced')
  BY <1>1, Zenon DEF StageInv, TypeOK, File
<1>3. TypeOK'
  BY <1>1, <1>2, ZenonT(40) DEF Goto, StageInv, TypeOK
<1>4. \A e \in Caller : pc'[e] = IF e = c THEN next ELSE pc[e]
  BY <1>1, Zenon DEF Goto, StageInv, TypeOK
<1> QED
  BY <1>1, <1>2, <1>3, <1>4, SMTT(40) DEF StageInv, Complete

(* The directory entry of a new partial (stage.go, os.CreateTemp).         *)
LEMMA CreateKeeps ==
  ASSUME StageInv, NameReuse = FALSE, NEW c \in Caller, CreatePartial(c) PROVE StageInv'
<1> USE DEF callVars, netVars, histVars
<1>1. CASE Goto(c, "failed") /\ UNCHANGED <<tmp, dir, past, used>>
  <2>1. TypeOK'
    BY <1>1, ZenonT(40) DEF CreatePartial, Goto, StageInv, TypeOK
  <2> QED
    BY <1>1, <2>1, MoveKeeps, SMTT(40) DEF CreatePartial
<1>2. ASSUME NEW n \in Temp, NEW next \in {"copy", "giveUp"}, n \notin used, Goto(c, next),
             pc[c] = "create", dir[n] = NoFile,
             Link([dir EXCEPT ![n] = c]), tmp' = [tmp EXCEPT ![c] = n], used' = used \union {n},
             UNCHANGED <<resp, content, synced, own, kept, published, stopped>>
      PROVE  StageInv'
  <2>1. /\ \A e \in Caller : pc'[e] = IF e = c THEN next ELSE pc[e]
        /\ \A e \in Caller : tmp'[e] = IF e = c THEN n ELSE tmp[e]
    BY <1>2, Zenon DEF Goto, StageInv, TypeOK
  <2>2. /\ dir' \in [Names -> File \union {NoFile}]
        /\ \A m \in Names : dir'[m] = IF m = n THEN c ELSE dir[m]
        /\ past' = past \union {dir'} /\ dir'[Dest] = dir[Dest] /\ dir \in past
    BY <1>2, NameAssumption, Zenon DEF Link, StageInv, TypeOK, Names, File
  <2>3. TypeOK'
    <3>1. pc' \in [Caller -> Ended \union {"begin", "download", "create", "copy", "sync", "verify",
                                          "rename", "syncDir", "finish", "giveUp"}]
      BY <1>2, Zenon DEF Goto, StageInv, TypeOK
    <3>2. tmp' \in [Caller -> Names] /\ used' \subseteq Temp
      BY <1>2, Zenon DEF StageInv, TypeOK, Names
    <3> QED
      BY <1>2, <2>2, <3>1, <3>2, ZenonT(30) DEF StageInv, TypeOK
  <2>4. \A e \in Caller : pc'[e] \in Owning => dir'[tmp'[e]] = e
    BY <1>2, <2>1, <2>2, SMTT(40) DEF StageInv, TypeOK, Names
  <2>5. \A d \in past' : \E b \in past : d[Dest] = b[Dest]
    BY <2>2, Zenon
  <2>6. \A d \in past' : Complete(d)'
    BY <1>2, <2>5 DEF StageInv, Complete
  <2> QED
    BY <1>2, <2>1, <2>3, <2>4, <2>5, <2>6, SMTT(40) DEF StageInv
<1>3. CASE \E n \in Temp :
             /\ dir[n] = NoFile /\ (n \in used => NameReuse)
             /\ Link([dir EXCEPT ![n] = c])
             /\ tmp' = [tmp EXCEPT ![c] = n] /\ used' = used \union {n}
             /\ Goto(c, "copy") \/ Goto(c, "giveUp")
  <2>1. pc[c] = "create" /\ UNCHANGED <<resp, content, synced, own, kept, published, stopped>>
    BY Zenon DEF CreatePartial
  <2>2. PICK n \in Temp :
          /\ n \notin used /\ dir[n] = NoFile /\ Link([dir EXCEPT ![n] = c])
          /\ tmp' = [tmp EXCEPT ![c] = n] /\ used' = used \union {n}
          /\ Goto(c, "copy") \/ Goto(c, "giveUp")
    BY <1>3, Zenon
  <2> QED
    BY <1>2, <2>1, <2>2, Zenon
<1> QED
  BY <1>1, <1>3, Zenon DEF CreatePartial

(* The rename puts the call's own file at the destination (stage.go,       *)
(* os.Rename).                                                             *)
LEMMA RenameShows ==
  ASSUME StageInv, NEW c \in Caller, pc[c] = "rename",
         Link([dir EXCEPT ![Dest] = dir[tmp[c]], ![tmp[c]] = NoFile])
  PROVE  /\ dir' \in [Names -> File \union {NoFile}] /\ past' = past \union {dir'} /\ dir'[Dest] = c
         /\ \A m \in Names \ {Dest, tmp[c]} : dir'[m] = dir[m]
         /\ dir'[tmp[c]] = NoFile /\ tmp[c] \in Temp
<1>1. dir[tmp[c]] = c /\ tmp[c] \in Temp /\ tmp[c] # Dest
  BY NameAssumption, Zenon DEF StageInv, TypeOK
<1> QED
  BY <1>1, Zenon DEF Link, StageInv, TypeOK, Names, File

(* The rename shows a complete, synchronized file (stage.go, os.Rename).   *)
LEMMA RenameKeeps == ASSUME StageInv, NEW c \in Caller, Rename(c) PROVE StageInv'
<1> USE DEF callVars, netVars, histVars
<1>1. CASE Goto(c, "giveUp") /\ UNCHANGED <<dir, past, published>>
  <2>1. TypeOK'
    BY <1>1, ZenonT(40) DEF Rename, Goto, StageInv, TypeOK
  <2> QED
    BY <1>1, <2>1, MoveKeeps, SMTT(40) DEF Rename
<1>2. CASE /\ Link([dir EXCEPT ![Dest] = dir[tmp[c]], ![tmp[c]] = NoFile])
           /\ published' = Append(published, c) /\ Goto(c, "syncDir")
  <2>1. pc[c] = "rename" /\ UNCHANGED <<resp, tmp, content, synced, used, own, kept, stopped>>
    BY Zenon DEF Rename
  <2>2. \A e \in Caller : pc'[e] = IF e = c THEN "syncDir" ELSE pc[e]
    BY <1>2, Zenon DEF Goto, StageInv, TypeOK
  <2>3. TypeOK'
    <3>1. pc' \in [Caller -> Ended \union {"begin", "download", "create", "copy", "sync", "verify",
                                          "rename", "syncDir", "finish", "giveUp"}]
      BY <1>2, Zenon DEF Goto, StageInv, TypeOK
    <3>2. published' \in Seq(Caller)
      BY <1>2 DEF StageInv, TypeOK
    <3>3. past' \subseteq [Names -> File \union {NoFile}] /\ dir' \in past'
      <4>1. dir' \in [Names -> File \union {NoFile}] /\ past' = past \union {dir'}
        BY <1>2, <2>1, RenameShows, Zenon
      <4>2. past \subseteq [Names -> File \union {NoFile}]
        BY Zenon DEF StageInv, TypeOK
      <4> QED
        BY <4>1, <4>2, Zenon
    <3> QED
      BY <1>2, <2>1, RenameShows, <3>1, <3>2, <3>3, Zenon DEF StageInv, TypeOK
  <2>4. \A e \in Caller : pc'[e] \in Owning => dir'[tmp'[e]] = e
    <3> SUFFICES ASSUME NEW e \in Caller, pc'[e] \in Owning PROVE dir'[tmp'[e]] = e
      OBVIOUS
    <3>1. e # c /\ pc[e] \in Owning
      BY <2>2, Zenon
    <3>2. tmp[e] \in Temp /\ tmp[e] # tmp[c] /\ dir[tmp[e]] = e
      BY <2>1, <3>1, Zenon DEF StageInv, TypeOK
    <3> QED
      BY <1>2, <2>1, <3>2, RenameShows, NameAssumption, Zenon DEF Names
  <2>5. \A d \in past' : d \in past \/ d[Dest] = c
    BY <1>2, <2>1, RenameShows, Zenon
  <2>6. \A d \in past' : Complete(d)'
    BY <2>1, <2>5, Zenon DEF StageInv, Complete
  <2> QED
    BY <2>1, <2>2, <2>3, <2>4, <2>5, <2>6, SMTT(40) DEF StageInv
<1> QED
  BY <1>1, <1>2, Zenon DEF Rename

(* Synchronizing the directory keeps it (stage.go, syncDirectory).         *)
LEMMA SyncDirKeeps == ASSUME StageInv, NEW c \in Caller, syncDirectory(c) PROVE StageInv'
<1> USE DEF callVars, netVars, histVars
<1>1. PICK next \in {"finish", "giveUp"} :
        /\ Goto(c, next) /\ pc[c] = "syncDir" /\ past' \in {past, {dir}}
        /\ UNCHANGED <<resp, tmp, content, synced, dir, used, own, kept, published, stopped>>
  BY SMTT(40) DEF syncDirectory
<1>2. past' \subseteq past /\ dir \in past'
  BY <1>1, Zenon DEF StageInv, TypeOK
<1>3. TypeOK'
  <2>1. past' \subseteq [Names -> File \union {NoFile}] /\ dir' \in past'
    BY <1>1, <1>2, Zenon DEF StageInv, TypeOK
  <2> QED
    BY <1>1, <2>1, ZenonT(40) DEF Goto, StageInv, TypeOK
<1>4. \A e \in Caller : pc'[e] = IF e = c THEN next ELSE pc[e]
  BY <1>1, Zenon DEF Goto, StageInv, TypeOK
<1> QED
  BY <1>1, <1>2, <1>3, <1>4, SMTT(40) DEF StageInv, Complete

(* The deferred removal takes no other call's partial away (stage.go,      *)
(* os.Remove).                                                             *)
LEMMA RemoveShows ==
  ASSUME StageInv, NEW c \in Caller, RemovePartial(c)
  PROVE  /\ dir' \in [Names -> File \union {NoFile}] /\ dir'[Dest] = dir[Dest] /\ dir \in past
         /\ past' = past \union {dir'} /\ tmp[c] \in Temp
         /\ \A m \in Names \ {tmp[c]} : dir'[m] = dir[m]
         /\ dir'[tmp[c]] = NoFile
<1>1. tmp[c] \in Temp /\ tmp[c] # Dest /\ tmp[c] \in Names
  BY NameAssumption, Zenon DEF RemovePartial, StageInv, TypeOK, Names
<1>2. dir \in [Names -> File \union {NoFile}] /\ dir \in past
  BY Zenon DEF StageInv, TypeOK
<1>3. CASE dir[tmp[c]] = NoFile
  <2>1. dir' = dir /\ past' = past
    BY <1>3, Zenon DEF RemovePartial
  <2> QED
    BY <1>1, <1>2, <1>3, <2>1, Zenon
<1>4. CASE dir[tmp[c]] # NoFile
  <2>1. dir' = [dir EXCEPT ![tmp[c]] = NoFile] /\ past' = past \union {dir'}
    BY <1>4, Zenon DEF RemovePartial, Link
  <2> QED
    BY <1>1, <1>2, <2>1, NameAssumption, Zenon DEF Names
<1> QED
  BY <1>3, <1>4, Zenon

(* The deferred removal takes away the call's own partial or nothing       *)
(* (stage.go, the deferred function of publishResponse).                   *)
LEMMA RemoveKeeps == ASSUME StageInv, NEW c \in Caller, RemovePartial(c) PROVE StageInv'
<1> USE DEF callVars, netVars, histVars
<1>1. PICK next \in {"ok", "failed"} :
        /\ Goto(c, next) /\ pc[c] \in {"finish", "giveUp"}
        /\ UNCHANGED <<resp, tmp, content, synced, used, own, kept, published, stopped>>
  BY SMTT(40) DEF RemovePartial
<1>2. \A e \in Caller : pc'[e] = IF e = c THEN next ELSE pc[e]
  BY <1>1, Zenon DEF Goto, StageInv, TypeOK
<1>3. TypeOK'
  <2>1. past' \subseteq [Names -> File \union {NoFile}] /\ dir' \in past'
    <3>1. dir' \in [Names -> File \union {NoFile}] /\ past' = past \union {dir'}
      BY RemoveShows, Zenon
    <3>2. past \subseteq [Names -> File \union {NoFile}]
      BY Zenon DEF StageInv, TypeOK
    <3> QED
      BY <3>1, <3>2, Zenon
  <2>2. dir' \in [Names -> File \union {NoFile}]
    BY RemoveShows, Zenon
  <2> QED
    BY <1>1, <2>1, <2>2, ZenonT(40) DEF Goto, StageInv, TypeOK
<1>4. \A e \in Caller : pc'[e] \in Owning => dir'[tmp'[e]] = e
  <2> SUFFICES ASSUME NEW e \in Caller, pc'[e] \in Owning PROVE dir'[tmp'[e]] = e
    OBVIOUS
  <2>1. e # c /\ pc[e] \in Owning
    BY <1>1, <1>2, Zenon
  <2>2. tmp[e] \in Temp /\ tmp[e] # tmp[c] /\ dir[tmp[e]] = e
    BY <1>1, <2>1, Zenon DEF StageInv, TypeOK
  <2> QED
    BY <1>1, <2>2, RemoveShows, Zenon DEF Names
<1>5. \A d \in past' : \E b \in past : d[Dest] = b[Dest]
  BY RemoveShows, Zenon
<1>6. \A d \in past' : Complete(d)'
  BY <1>1, <1>5 DEF StageInv, Complete
<1> QED
  BY <1>1, <1>2, <1>3, <1>4, <1>5, <1>6, SMTT(40) DEF StageInv

(* A killed process keeps it.                                              *)
LEMMA KillKeeps == ASSUME StageInv, NEW c \in Caller, Kill(c) PROVE StageInv'
<1>1. TypeOK'
  BY ZenonT(40) DEF Kill, Goto, callVars, fsVars, netVars, StageInv, TypeOK
<1> QED
  BY <1>1, MoveKeeps, SMTT(40) DEF Kill, callVars, fsVars

(* After a loss of power every call that had begun is over, and a file     *)
(* that was synchronized is whole.                                         *)
LEMMA LossKeeps == ASSUME StageInv, PowerLoss PROVE StageInv'
<1> USE DEF callVars, netVars
<1>1. /\ \A c \in Caller : pc'[c] = IF c \in Active THEN "dead" ELSE pc[c]
      /\ dir' \in past /\ past' = {dir'} /\ stopped' = TRUE
      /\ UNCHANGED <<resp, tmp, used, own, kept, published>>
      /\ synced' = {f \in File : f \in Caller => pc[f] # "begin"}
  BY Zenon DEF PowerLoss
<1>2. \A c \in Caller : pc'[c] \in Ended \union {"begin"} /\ (pc'[c] = "begin" <=> pc[c] = "begin")
  BY <1>1, Zenon DEF Active
<1>3. content' \in [File -> Data] /\ \A f \in synced : content'[f] = content[f]
  <2>1. PICK keep \in [File \ synced -> 0 .. MaxFile] :
          content' = [f \in File |->
            IF f \in synced \/ keep[f] >= Len(content[f]) THEN content[f]
                                                          ELSE SubSeq(content[f], 1, keep[f])]
    BY Zenon DEF PowerLoss
  <2>2. ASSUME NEW f \in File PROVE content'[f] \in Data
    <3>1. content[f] \in Data /\ content[f] \in Seq(Chunk) /\ Len(content[f]) \in 0 .. MaxFile
      BY DataIsSeq, Zenon DEF StageInv, TypeOK
    <3>2. CASE ~(f \in synced \/ keep[f] >= Len(content[f]))
      <4>1. keep[f] \in 0 .. MaxFile /\ keep[f] < Len(content[f])
        BY <3>1, <3>2, StageAssumption
      <4>2. content'[f] = SubSeq(content[f], 1, keep[f])
        BY <2>1, <3>2, Zenon
      <4>3. SubSeq(content[f], 1, keep[f]) \in Seq(Chunk) /\ Len(SubSeq(content[f], 1, keep[f])) = keep[f]
        BY <3>1, <4>1
      <4>4. content'[f] \in Seq(Chunk) /\ Len(content'[f]) <= MaxFile
        BY <4>1, <4>2, <4>3, StageAssumption
      <4> QED
        BY <4>4, SeqIsData, Zenon
    <3> QED
      BY <2>1, <3>1, <3>2, Zenon
  <2>3. \A f \in synced : content'[f] = content[f]
    BY <2>1, Zenon DEF StageInv, TypeOK
  <2> QED
    BY <2>1, <2>2, <2>3, Zenon
<1>4. Old \in synced' /\ synced' \subseteq File
  BY <1>1, CallerAssumption, Zenon DEF File
<1>5. TypeOK'
  <2>1. pc' \in [Caller -> Ended \union {"begin", "download", "create", "copy", "sync", "verify",
                                        "rename", "syncDir", "finish", "giveUp"}]
    BY Zenon DEF PowerLoss, StageInv, TypeOK
  <2>2. dir' \in [Names -> File \union {NoFile}] /\ past' \subseteq [Names -> File \union {NoFile}]
        /\ dir' \in past'
    BY <1>1, Zenon DEF StageInv, TypeOK
  <2> QED
    BY <1>1, <1>3, <1>4, <2>1, <2>2, Zenon DEF StageInv, TypeOK
<1>6. \A d \in past' : d \in past
  BY <1>1, Zenon
<1>7. \A d \in past' : Complete(d)'
  <2> SUFFICES ASSUME NEW d \in past', d[Dest] \in Caller
               PROVE  content'[d[Dest]] = Request[d[Dest]].sha /\ d[Dest] \in synced'
    BY Zenon DEF Complete
  <2>1. d[Dest] \in synced /\ content[d[Dest]] = Request[d[Dest]].sha
    BY <1>6, Zenon DEF StageInv, Complete
  <2>2. pc[d[Dest]] # "begin"
    BY <1>6, Zenon DEF StageInv
  <2> QED
    BY <1>1, <1>3, <2>1, <2>2, Zenon DEF File
<1> QED
  BY <1>2, <1>4, <1>5, <1>6, <1>7, SMTT(40) DEF StageInv

(* Hence it holds all the time, for any number of calls (stage.go, Stage). *)
LEMMA StageInvariant == ASSUME NameReuse = FALSE PROVE Spec => []StageInv
<1>1. ASSUME StageInv, UNCHANGED stageVars PROVE StageInv'
  BY <1>1, Zenon DEF stageVars, StageInv, TypeOK, Complete
<1>2. StageInv /\ [Next]_stageVars => StageInv'
  BY <1>1, EngineKeeps, WaitKeeps, ChecksKeep, CopyKeeps, SyncKeeps, CreateKeeps, RenameKeeps,
     SyncDirKeeps, RemoveKeeps, KillKeeps, LossKeeps, ZenonT(40) DEF Next, Step, Network, Local
<1> QED
  BY StageInitially, <1>2, PTL DEF Spec

----------------------------------------------------------------------------
(* What survives.                                                          *)

\* The file d shows at the destination is the call's or was renamed later.
Covers(c, d) == \E i, j \in DOMAIN published :
  published[i] = c /\ i <= j /\ published[j] = d[Dest]

\* The inductive invariant: a call that has renamed its file is covered by
\* the directory, and once it has synchronized the directory by everything
\* a loss of power may bring back.
SurviveInv ==
  /\ \A c \in Caller : pc[c] = "syncDir" => Covers(c, dir)
  /\ \A c \in Caller : pc[c] \in {"finish", "ok"} => \A d \in past : Covers(c, d)

(* A step that renames nothing and shows at the destination what some      *)
(* directory showed before keeps it (stage.go, publishResponse).           *)
LEMMA FrameSurvives ==
  ASSUME SurviveInv, NEW c \in Caller, NEW next, DOMAIN pc = Caller, Goto(c, next),
         published' = published, dir'[Dest] = dir[Dest],
         \A d \in past' : \E b \in past : d[Dest] = b[Dest],
         next # "syncDir", next # "finish", next = "ok" => pc[c] = "finish"
  PROVE  SurviveInv'
<1>1. \A e \in Caller : pc'[e] = IF e = c THEN next ELSE pc[e]
  BY Zenon DEF Goto
<1>2. ASSUME NEW e, NEW d, NEW b, Covers(e, b), d[Dest] = b[Dest] PROVE Covers(e, d)'
  BY <1>2, Zenon DEF Covers
<1>3. ASSUME NEW e \in Caller, pc'[e] = "syncDir" PROVE Covers(e, dir)'
  <2>1. Covers(e, dir)
    BY <1>1, <1>3, Zenon DEF SurviveInv
  <2> QED
    BY <2>1, Zenon DEF Covers
<1>4. ASSUME NEW e \in Caller, pc'[e] \in {"finish", "ok"}, NEW d \in past' PROVE Covers(e, d)'
  <2>1. pc[e] \in {"finish", "ok"}
    BY <1>1, <1>4, Zenon
  <2>2. PICK b \in past : d[Dest] = b[Dest]
    BY <1>4, Zenon
  <2> QED
    BY <1>2, <2>1, <2>2, Zenon DEF SurviveInv
<1> QED
  BY <1>3, <1>4, Zenon DEF SurviveInv

(* A rename covers every call that renamed before (stage.go, os.Rename).   *)
LEMMA RenameSurvives ==
  ASSUME StageInv, SurviveInv, NEW c \in Caller, pc[c] = "rename", Goto(c, "syncDir"),
         Link([dir EXCEPT ![Dest] = dir[tmp[c]], ![tmp[c]] = NoFile]),
         published' = Append(published, c)
  PROVE  SurviveInv'
<1>1. dir'[Dest] = c /\ past' = past \union {dir'} /\ dir \in past
  BY RenameShows, Zenon DEF StageInv, TypeOK
<1>2. \A e \in Caller : pc'[e] = IF e = c THEN "syncDir" ELSE pc[e]
  BY Zenon DEF Goto, StageInv, TypeOK
<1>3. published \in Seq(Caller)
  BY Zenon DEF StageInv, TypeOK
<1> DEFINE n == Len(published) + 1
<1>4. /\ n \in DOMAIN published' /\ published'[n] = c
      /\ \A i \in DOMAIN published : i \in DOMAIN published' /\ published'[i] = published[i] /\ i <= n
  BY <1>3
<1>5. ASSUME NEW e, NEW d, Covers(e, d) PROVE Covers(e, d)' /\ Covers(e, dir)'
  <2>1. PICK i, j \in DOMAIN published : published[i] = e /\ i <= j /\ published[j] = d[Dest]
    BY <1>5, Zenon DEF Covers
  <2>2. Covers(e, d)'
    BY <1>4, <2>1, Zenon DEF Covers
  <2>3. Covers(e, dir)'
    BY <1>1, <1>4, <2>1, Zenon DEF Covers
  <2> QED
    BY <2>2, <2>3, Zenon
<1>6. Covers(c, dir)'
  <2>1. n <= n
    BY <1>3
  <2> QED
    BY <1>1, <1>4, <2>1, Zenon DEF Covers
<1>7. ASSUME NEW e \in Caller, pc'[e] = "syncDir" PROVE Covers(e, dir)'
  BY <1>2, <1>5, <1>6, <1>7, Zenon DEF SurviveInv
<1>8. ASSUME NEW e \in Caller, pc'[e] \in {"finish", "ok"}, NEW d \in past' PROVE Covers(e, d)'
  <2>1. pc[e] \in {"finish", "ok"} /\ Covers(e, dir)
    BY <1>1, <1>2, <1>8, Zenon DEF SurviveInv
  <2>2. CASE d \in past
    BY <1>5, <2>1, <2>2, Zenon DEF SurviveInv
  <2>3. CASE d = dir'
    <3>1. Covers(e, dir)'
      BY <1>5, <2>1, Zenon
    <3> QED
      BY <2>3, <3>1, Zenon DEF Covers
  <2> QED
    BY <1>1, <2>2, <2>3, Zenon
<1> QED
  BY <1>7, <1>8, Zenon DEF SurviveInv

(* Every step keeps it (stage.go, Stage).                                  *)
LEMMA StepsSurvive == ASSUME StageInv, SurviveInv, Next PROVE SurviveInv'
<1> USE DEF callVars, fsVars, netVars, histVars
<1>0. DOMAIN pc = Caller /\ dir \in past
  BY Zenon DEF StageInv, TypeOK
<1>1. ASSUME UNCHANGED <<pc, dir, past, published>> PROVE SurviveInv'
  BY <1>1 DEF SurviveInv, Covers
<1>2. ASSUME NEW c \in Caller, NEW next, next \notin {"syncDir", "finish", "ok"}, Goto(c, next),
             UNCHANGED <<dir, past, published>>
      PROVE  SurviveInv'
  BY <1>0, <1>2, FrameSurvives, Zenon
<1>3. ASSUME NEW c \in Caller, CreatePartial(c) PROVE SurviveInv'
  <2>3. published' = published /\ (Goto(c, "copy") \/ Goto(c, "giveUp") \/ Goto(c, "failed"))
    BY <1>3, ZenonT(40) DEF CreatePartial
  <2>1. CASE dir' = dir /\ past' = past
    BY <1>2, <2>1, <2>3, Zenon
  <2>2. ASSUME NEW t \in Temp, Link([dir EXCEPT ![t] = c]) PROVE SurviveInv'
    <3>1. dir'[Dest] = dir[Dest] /\ past' = past \union {dir'}
      BY <2>2, NameAssumption, Zenon DEF Link, StageInv, TypeOK, Names
    <3>2. \A d \in past' : \E b \in past : d[Dest] = b[Dest]
      BY <1>0, <3>1, Zenon
    <3> QED
      BY <1>0, <2>3, <3>1, <3>2, FrameSurvives, Zenon
  <2> QED
    BY <1>3, <2>1, <2>2, ZenonT(40) DEF CreatePartial
<1>4. ASSUME NEW c \in Caller, Rename(c) PROVE SurviveInv'
  BY <1>2, <1>4, RenameSurvives, Zenon DEF Rename
<1>5. ASSUME NEW c \in Caller, syncDirectory(c) PROVE SurviveInv'
  <2>1. CASE Goto(c, "giveUp") /\ past' = past
    BY <1>2, <1>5, <2>1, Zenon DEF syncDirectory
  <2>2. CASE Goto(c, "finish") /\ past' = {dir}
    <3>1. pc[c] = "syncDir" /\ UNCHANGED <<dir, published>>
      BY <1>5, Zenon DEF syncDirectory
    <3>2. \A e \in Caller : pc'[e] = IF e = c THEN "finish" ELSE pc[e]
      BY <1>0, <2>2, Zenon DEF Goto
    <3> QED
      BY <1>0, <2>2, <3>1, <3>2 DEF SurviveInv, Covers
  <2> QED
    BY <1>5, <2>1, <2>2, Zenon DEF syncDirectory
<1>6. ASSUME NEW c \in Caller, RemovePartial(c) PROVE SurviveInv'
  <2>1. PICK next \in {"ok", "failed"} :
          Goto(c, next) /\ published' = published /\ (next = "ok" => pc[c] = "finish")
    BY <1>6, SMTT(40) DEF RemovePartial
  <2>2. dir'[Dest] = dir[Dest] /\ \A d \in past' : \E b \in past : d[Dest] = b[Dest]
    BY <1>6, RemoveShows, Zenon
  <2> QED
    BY <1>0, <2>1, <2>2, FrameSurvives, Zenon
<1>7. ASSUME PowerLoss PROVE SurviveInv'
  <2>1. /\ \A c \in Caller : pc'[c] = IF c \in Active THEN "dead" ELSE pc[c]
        /\ dir' \in past /\ past' = {dir'} /\ published' = published
    BY <1>7, Zenon DEF PowerLoss
  <2>2. \A c \in Caller : pc'[c] # "syncDir" /\ (pc'[c] \in {"finish", "ok"} => pc[c] = "ok")
    BY <2>1, Zenon DEF Active
  <2> QED
    BY <2>1, <2>2 DEF SurviveInv, Covers
<1>8. ASSUME NEW c \in Caller, Network(c) \/ TimeoutFires(c) \/ Begin(c) \/ SyncPartial(c)
                               \/ VerifyPartial(c) \/ Kill(c)
      PROVE  SurviveInv'
  <2>1. UNCHANGED <<dir, past, published>>
    BY <1>8, SMTT(40) DEF Network, download, CopyChunk, CheckPartial, TimeoutFires, Begin, SyncPartial,
       VerifyPartial, Kill
  <2>2. \/ UNCHANGED pc
        \/ \E next \in {"download", "failed", "create", "giveUp", "sync", "verify", "rename", "dead"} :
             Goto(c, next)
    BY <1>8, SMTT(40) DEF Network, download, CopyChunk, CheckPartial, TimeoutFires, Begin, SyncPartial,
       VerifyPartial, Kill
  <2> QED
    BY <1>1, <1>2, <2>1, <2>2, Zenon
<1>9. ASSUME New \/ \E t \in Timeout : ChangeClient(t) PROVE SurviveInv'
  BY <1>1, <1>9, Zenon DEF New, ChangeClient, restVars
<1> QED
  BY <1>3, <1>4, <1>5, <1>6, <1>7, <1>8, <1>9, ZenonT(40) DEF Next, Step, Local

----------------------------------------------------------------------------
(* What is left behind, and how large it gets.                             *)

\* The inductive invariant: as long as nothing is killed, every partial in
\* the directory has a call that is still to rename or to remove it.
LeftInv == ~stopped => \A n \in Temp : dir[n] # NoFile =>
  \E c \in Caller : pc[c] \in Owning \union {"giveUp"} /\ tmp[c] = n

(* A step of a call that stays responsible for its partial keeps it        *)
(* (stage.go, the deferred function of publishResponse).                   *)
LEMMA FrameLeaves ==
  ASSUME LeftInv, NEW c \in Caller, NEW next, DOMAIN pc = Caller, Goto(c, next),
         UNCHANGED <<tmp, dir, stopped>>,
         pc[c] \in Owning \union {"giveUp"} => next \in Owning \union {"giveUp"}
  PROVE  LeftInv'
<1>1. \A e \in Caller : pc'[e] = IF e = c THEN next ELSE pc[e]
  BY Zenon DEF Goto
<1> QED
  BY <1>1, SMTT(40) DEF LeftInv

(* Every step keeps what is known of partials (stage.go, publishResponse). *)
LEMMA StepsLeave == ASSUME StageInv, LeftInv, Next PROVE LeftInv'
<1> USE DEF callVars, fsVars, netVars, histVars
<1>0. DOMAIN pc = Caller
  BY Zenon DEF StageInv, TypeOK
<1>1. ASSUME UNCHANGED <<pc, tmp, dir, stopped>> PROVE LeftInv'
  BY <1>1, Zenon DEF LeftInv
<1>2. ASSUME NEW c \in Caller, NEW n \in Temp, NEW next \in {"copy", "giveUp"}, Goto(c, next),
             pc[c] = "create", Link([dir EXCEPT ![n] = c]), tmp' = [tmp EXCEPT ![c] = n],
             stopped' = stopped
      PROVE  LeftInv'
  <2>1. /\ \A e \in Caller : pc'[e] = IF e = c THEN next ELSE pc[e]
        /\ \A e \in Caller : tmp'[e] = IF e = c THEN n ELSE tmp[e]
        /\ \A m \in Temp : dir'[m] = IF m = n THEN c ELSE dir[m]
    BY <1>2, Zenon DEF Goto, Link, StageInv, TypeOK, Names
  <2> QED
    BY <1>2, <2>1, SMTT(40) DEF LeftInv
<1>3. ASSUME NEW c \in Caller, CreatePartial(c) PROVE LeftInv'
  <2>1. CASE Goto(c, "failed") /\ UNCHANGED <<tmp, dir>>
    BY <1>0, <1>3, <2>1, FrameLeaves, Zenon DEF CreatePartial
  <2> QED
    BY <1>2, <1>3, <2>1, ZenonT(40) DEF CreatePartial
<1>4. ASSUME NEW c \in Caller, \A m \in Temp : dir'[m] = IF m = tmp[c] THEN NoFile ELSE dir[m],
             NEW next, Goto(c, next), UNCHANGED <<tmp, stopped>>
      PROVE  LeftInv'
  <2>1. \A e \in Caller : pc'[e] = IF e = c THEN next ELSE pc[e]
    BY <1>0, <1>4, Zenon DEF Goto
  <2> QED
    BY <1>4, <2>1, SMTT(40) DEF LeftInv
<1>5. ASSUME NEW c \in Caller, Rename(c) PROVE LeftInv'
  <2>1. CASE Goto(c, "giveUp") /\ dir' = dir
    BY <1>0, <1>5, <2>1, FrameLeaves, Zenon DEF Rename
  <2>2. CASE Goto(c, "syncDir") /\ Link([dir EXCEPT ![Dest] = dir[tmp[c]], ![tmp[c]] = NoFile])
    <3>1. \A m \in Temp : dir'[m] = IF m = tmp[c] THEN NoFile ELSE dir[m]
      BY <1>5, <2>2, RenameShows, NameAssumption, Zenon DEF Rename, Names
    <3> QED
      BY <1>4, <1>5, <2>2, <3>1, Zenon DEF Rename
  <2> QED
    BY <1>5, <2>1, <2>2, Zenon DEF Rename
<1>6. ASSUME NEW c \in Caller, RemovePartial(c) PROVE LeftInv'
  <2>1. \A m \in Temp : dir'[m] = IF m = tmp[c] THEN NoFile ELSE dir[m]
    BY <1>6, RemoveShows, Zenon DEF Names
  <2> QED
    BY <1>4, <1>6, <2>1, SMTT(40) DEF RemovePartial
<1>7. ASSUME PowerLoss \/ \E c \in Caller : Kill(c) PROVE LeftInv'
  BY <1>7, Zenon DEF PowerLoss, Kill, LeftInv
<1>8. ASSUME NEW c \in Caller, Network(c) \/ TimeoutFires(c) \/ Begin(c) \/ SyncPartial(c)
                               \/ VerifyPartial(c) \/ syncDirectory(c)
      PROVE  LeftInv'
  <2>1. UNCHANGED <<tmp, dir, stopped>>
    BY <1>8, SMTT(40) DEF Network, download, CopyChunk, CheckPartial, TimeoutFires, Begin, SyncPartial,
       VerifyPartial, syncDirectory
  <2>2. \/ UNCHANGED pc
        \/ \E next : /\ Goto(c, next)
                     /\ pc[c] \in Owning \union {"giveUp"} => next \in Owning \union {"giveUp"}
    BY <1>8, SMTT(40) DEF Network, download, CopyChunk, CheckPartial, TimeoutFires, Begin, SyncPartial,
       VerifyPartial, syncDirectory
  <2> QED
    BY <1>0, <1>1, <2>1, <2>2, FrameLeaves, Zenon
<1>9. ASSUME New \/ \E t \in Timeout : ChangeClient(t) PROVE LeftInv'
  BY <1>1, <1>9, Zenon DEF New, ChangeClient, restVars
<1> QED
  BY <1>3, <1>5, <1>6, <1>7, <1>8, <1>9, ZenonT(40) DEF Next, Step, Local

\* The inductive invariant: a call that copies has passed the check that
\* keeps the limit from overflowing.
DiskInv ==
  /\ DiskUseBounded
  /\ \A c \in Caller : pc[c] \in {"download", "create", "copy"} => Request[c].maximum # MaxInt64

(* Every step keeps it (stage.go, validateStageInputs and LimitReader).    *)
LEMMA StepsBound == ASSUME StageInv, DiskInv, Next PROVE DiskInv'
<1> USE DEF callVars, fsVars, netVars, histVars
<1>0. DOMAIN pc = Caller /\ content \in [File -> Data] /\ Caller \subseteq File
  BY Zenon DEF StageInv, TypeOK, File
<1>1. ASSUME UNCHANGED <<pc, content>> PROVE DiskInv'
  BY <1>1, Zenon DEF DiskInv, DiskUseBounded
<1>2. ASSUME NEW c \in Caller, NEW next, Goto(c, next), content' = content,
             next \in {"download", "create", "copy"} => Request[c].maximum # MaxInt64
      PROVE  DiskInv'
  <2>1. \A e \in Caller : pc'[e] = IF e = c THEN next ELSE pc[e]
    BY <1>0, <1>2, Zenon DEF Goto
  <2> QED
    BY <1>2, <2>1, Zenon DEF DiskInv, DiskUseBounded
<1>3. ASSUME NEW c \in Caller, CopyChunk(c) PROVE DiskInv'
  <2>1. CASE Goto(c, "giveUp") /\ content' = content
    BY <1>2, <2>1, Zenon
  <2>2. CASE /\ ~CopyDone(c) /\ UNCHANGED pc
             /\ content' = [content EXCEPT ![c] = Append(@, resp[c].body[Len(@) + 1])]
    <3>1. pc[c] = "copy" /\ Request[c].maximum # MaxInt64 /\ Request[c].maximum \in Int
      BY <1>3, StageAssumption, Zenon DEF CopyChunk, DiskInv
    <3>2. content[c] \in Seq(Chunk) /\ Len(content[c]) \in Nat
      BY <1>0, DataIsSeq
    <3>3. Len(content[c]) < Request[c].maximum + 1
      BY <2>2, <3>1, <3>2 DEF CopyDone, limit
    <3>4. /\ content'[c] = Append(content[c], resp[c].body[Len(content[c]) + 1])
          /\ \A e \in Caller : e # c => content'[e] = content[e]
      BY <1>0, <2>2, Zenon
    <3>5. Len(content'[c]) = Len(content[c]) + 1
      BY <3>2, <3>4
    <3>6. Len(content'[c]) <= Request[c].maximum + 1
      BY <3>1, <3>2, <3>3, <3>5
    <3> QED
      BY <2>2, <3>4, <3>6, Zenon DEF DiskInv, DiskUseBounded
  <2> QED
    BY <1>3, <2>1, <2>2, Zenon DEF CopyChunk
<1>4. ASSUME PowerLoss PROVE DiskInv'
  <2>1. PICK keep \in [File \ synced -> 0 .. MaxFile] :
          content' = [f \in File |->
            IF f \in synced \/ keep[f] >= Len(content[f]) THEN content[f]
                                                          ELSE SubSeq(content[f], 1, keep[f])]
    BY <1>4, Zenon DEF PowerLoss
  <2>2. ASSUME NEW c \in Caller, content'[c] # <<>> PROVE Len(content'[c]) <= Request[c].maximum + 1
    <3>1. content[c] \in Seq(Chunk) /\ Len(content[c]) \in Nat /\ Request[c].maximum \in Int
      BY <1>0, DataIsSeq, StageAssumption
    <3>2. CASE c \in synced \/ keep[c] >= Len(content[c])
      <4>1. content'[c] = content[c]
        BY <1>0, <2>1, <3>2, Zenon
      <4> QED
        BY <2>2, <4>1, Zenon DEF DiskInv, DiskUseBounded
    <3>3. CASE ~(c \in synced \/ keep[c] >= Len(content[c]))
      <4>1. keep[c] \in 0 .. MaxFile /\ keep[c] < Len(content[c])
        BY <1>0, <3>1, <3>3, StageAssumption
      <4>2. Len(content'[c]) = keep[c]
        BY <1>0, <2>1, <3>1, <3>3, <4>1
      <4>3. content[c] # <<>>
        BY <3>1, <4>1, StageAssumption
      <4> QED
        BY <3>1, <4>1, <4>2, <4>3, StageAssumption DEF DiskInv, DiskUseBounded
    <3> QED
      BY <3>2, <3>3, Zenon
  <2>3. \A c \in Caller : pc'[c] \notin {"download", "create", "copy"}
    BY <1>4, Zenon DEF PowerLoss, Active
  <2> QED
    BY <2>2, <2>3, Zenon DEF DiskInv, DiskUseBounded
<1>5. ASSUME NEW c \in Caller, Begin(c) \/ download(c) PROVE DiskInv'
  <2>1. PICK next : /\ Goto(c, next) /\ content' = content
                    /\ next \in {"download", "create", "copy"} => Request[c].maximum # MaxInt64
    BY <1>5, SMTT(40) DEF Begin, download, validateStageInputs, DiskInv
  <2> QED
    BY <1>2, <2>1, Zenon
<1>6. ASSUME NEW c \in Caller, CreatePartial(c) PROVE DiskInv'
  <2>1. pc[c] = "create" /\ content' = content
        /\ (Goto(c, "copy") \/ Goto(c, "giveUp") \/ Goto(c, "failed"))
    BY <1>6, ZenonT(40) DEF CreatePartial
  <2>2. Request[c].maximum # MaxInt64
    BY <2>1, Zenon DEF DiskInv
  <2> QED
    BY <1>2, <2>1, <2>2, Zenon
<1>7. ASSUME NEW c \in Caller,
             \/ CheckPartial(c) \/ TimeoutFires(c) \/ SyncPartial(c) \/ VerifyPartial(c)
             \/ Rename(c) \/ syncDirectory(c) \/ RemovePartial(c) \/ Kill(c)
      PROVE  DiskInv'
  <2>1. content' = content
    BY <1>7, SMTT(40) DEF CheckPartial, TimeoutFires, SyncPartial, VerifyPartial, Rename, syncDirectory,
       RemovePartial, Kill
  <2>2. \E next \in {"sync", "giveUp", "failed", "verify", "rename", "syncDir", "finish", "ok", "dead"} :
          Goto(c, next)
    BY <1>7, ZenonT(40) DEF CheckPartial, TimeoutFires, SyncPartial, VerifyPartial, Rename, syncDirectory,
       RemovePartial, Kill
  <2> QED
    BY <1>2, <2>1, <2>2, Zenon
<1>8. ASSUME New \/ \E t \in Timeout : ChangeClient(t) PROVE DiskInv'
  BY <1>1, <1>8, Zenon DEF New, ChangeClient, restVars
<1> QED
  BY <1>3, <1>4, <1>5, <1>6, <1>7, <1>8, ZenonT(40) DEF Next, Step, Local, Network

----------------------------------------------------------------------------
(* The results.                                                            *)

(* Every step keeps the types; a body of a server, a file cut short by a   *)
(* loss of power and a directory that comes back included (stage.go,       *)
(* Stage).                                                                 *)
THEOREM TypeCorrect == ASSUME NameReuse = FALSE PROVE Spec => []TypeOK
<1>1. StageInv => TypeOK
  BY Zenon DEF StageInv
<1> QED
  BY <1>1, StageInvariant, PTL

(* Nobody ever sees a partial or wrong image at the destination, after a   *)
(* loss of power neither, however many calls race (stage.go,               *)
(* publishResponse).                                                       *)
THEOREM ShowsOnlyComplete == ASSUME NameReuse = FALSE PROVE Spec => []DestinationComplete
<1>1. StageInv => DestinationComplete
  BY Zenon DEF StageInv, DestinationComplete, Complete
<1> QED
  BY <1>1, StageInvariant, PTL

(* What a call that succeeded has published is not lost with the power     *)
(* (stage.go, syncDirectory).                                              *)
THEOREM SuccessIsKept == ASSUME NameReuse = FALSE PROVE Spec => []SuccessSurvives
<1>1. Init => SurviveInv
  BY Zenon DEF Init, SurviveInv
<1>2. ASSUME SurviveInv, UNCHANGED stageVars PROVE SurviveInv'
  <2>1. UNCHANGED <<pc, dir, past, published>>
    BY <1>2, Zenon DEF stageVars
  <2>2. ASSUME NEW c, NEW d PROVE Covers(c, d)' <=> Covers(c, d)
    BY <2>1, Zenon DEF Covers
  <2> QED
    BY <1>2, <2>1, <2>2, Zenon DEF SurviveInv
<1>3. StageInv /\ SurviveInv /\ [Next]_stageVars => SurviveInv'
  BY <1>2, StepsSurvive, Zenon
<1>4. SurviveInv => SuccessSurvives
  BY Zenon DEF SurviveInv, SuccessSurvives, Covers
<1> QED
  BY <1>1, <1>3, <1>4, StageInvariant, PTL DEF Spec

(* Calls that come back leave no partial behind (stage.go, the deferred    *)
(* function of publishResponse).                                           *)
THEOREM LeavesNoPartial == ASSUME NameReuse = FALSE PROVE Spec => []PartialsRemoved
<1>1. Init => LeftInv
  BY NameAssumption, Zenon DEF Init, LeftInv, Names
<1>2. ASSUME LeftInv, UNCHANGED stageVars PROVE LeftInv'
  BY <1>2, Zenon DEF stageVars, LeftInv
<1>3. StageInv /\ LeftInv /\ [Next]_stageVars => LeftInv'
  BY <1>2, StepsLeave, Zenon
<1>4. LeftInv => PartialsRemoved
  BY Zenon DEF LeftInv, PartialsRemoved
<1> QED
  BY <1>1, <1>3, <1>4, StageInvariant, PTL DEF Spec

(* No server fills more than one chunk beyond the caller's ceiling         *)
(* (stage.go, validateStageInputs and LimitReader).                        *)
THEOREM BoundsDiskUse == ASSUME NameReuse = FALSE PROVE Spec => []DiskUseBounded
<1>1. Init => DiskInv
  BY CallerAssumption, Zenon DEF Init, DiskInv, DiskUseBounded, File
<1>2. ASSUME DiskInv, UNCHANGED stageVars PROVE DiskInv'
  BY <1>2, Zenon DEF stageVars, DiskInv, DiskUseBounded
<1>3. StageInv /\ DiskInv /\ [Next]_stageVars => DiskInv'
  BY <1>2, StepsBound, Zenon
<1>4. DiskInv => DiskUseBounded
  BY Zenon DEF DiskInv
<1> QED
  BY <1>1, <1>3, <1>4, StageInvariant, PTL DEF Spec

----------------------------------------------------------------------------
(* Stage implements the register of AtomicPublish.                         *)
state == [c \in Caller |-> Progress(pc[c])]
maybe == {At(d) : d \in past}

----------------------------------------------------------------------------
(* How far each step counts (stage.go, publishResponse).                   *)
LEMMA ProgressOf ==
  /\ \A p \in Unpublished : Progress(p) = "open"
  /\ Progress("syncDir") = "published" /\ Progress("finish") = "settled" /\ Progress("ok") = "ok"
  /\ Progress("giveUp") = "failed" /\ Progress("failed") = "failed" /\ Progress("dead") = "failed"
BY Zenon DEF Progress

(* The file at the destination of a directory that may come back does not  *)
(* change (stage.go, io.Copy writes to the partial only).                  *)
LEMMA ShownStays ==
  ASSUME StageInv, Next, NEW d \in past PROVE At(d)' = At(d)
<1> USE DEF callVars, fsVars, netVars, histVars
<1>1. d[Dest] \in File \union {NoFile} /\ (d[Dest] # NoFile => d[Dest] \in synced)
  BY DEF StageInv, TypeOK, Complete, Names, File
<1>2. CASE content' = content
  BY <1>2, Zenon DEF At
<1>3. ASSUME NEW c \in Caller, CopyChunk(c) PROVE At(d)' = At(d)
  <2>1. pc[c] = "copy" /\ (content' = content \/ \E v : content' = [content EXCEPT ![c] = v])
    BY <1>3, Zenon DEF CopyChunk
  <2>2. d[Dest] # c
    BY <2>1, Zenon DEF StageInv
  <2> QED
    BY <1>1, <2>1, <2>2, Zenon DEF At, StageInv, TypeOK
<1>4. CASE PowerLoss
  <2>1. \A f \in synced : content'[f] = content[f]
    BY <1>4, Zenon DEF PowerLoss, StageInv, TypeOK
  <2> QED
    BY <1>1, <2>1, Zenon DEF At
<1>5. ASSUME NEW c \in Caller,
             \/ Begin(c) \/ download(c) \/ CreatePartial(c) \/ CheckPartial(c) \/ TimeoutFires(c)
             \/ SyncPartial(c) \/ VerifyPartial(c) \/ Rename(c) \/ syncDirectory(c)
             \/ RemovePartial(c) \/ Kill(c)
      PROVE  content' = content
  BY <1>5, ZenonT(40) DEF Begin, download, CreatePartial, CheckPartial, TimeoutFires, SyncPartial,
     VerifyPartial, Rename, syncDirectory, RemovePartial, Kill
<1>6. ASSUME New \/ \E t \in Timeout : ChangeClient(t) PROVE content' = content
  BY <1>6, Zenon DEF New, ChangeClient, restVars
<1> QED
  BY <1>2, <1>3, <1>4, <1>5, <1>6, ZenonT(40) DEF Next, Step, Local, Network

(* A step of a call that shows nothing new at the destination (stage.go,   *)
(* every return of publishResponse).                                       *)
LEMMA FrameRefines ==
  ASSUME StageInv, Next, NEW c \in Caller, NEW next, Goto(c, next),
         dir'[Dest] = dir[Dest], past \subseteq past',
         \A d \in past' : \E b \in past : d[Dest] = b[Dest],
         \/ Progress(next) = Progress(pc[c])
         \/ Progress(next) = "failed" /\ Progress(pc[c]) \in {"open", "published", "settled"}
         \/ Progress(next) = "ok" /\ Progress(pc[c]) = "settled"
  PROVE  [Abstract!Next]_(Abstract!pubVars)
<1>1. state' = [state EXCEPT ![c] = Progress(next)]
  BY Zenon DEF state, Goto, StageInv, TypeOK
<1>2. At(dir)' = At(dir)
  <2>1. dir \in past
    BY Zenon DEF StageInv, TypeOK
  <2>2. IF dir[Dest] = NoFile THEN TRUE ELSE content'[dir[Dest]] = content[dir[Dest]]
    BY <2>1, ShownStays, Zenon DEF At
  <2> QED
    BY <2>2, Zenon DEF At
<1>3. maybe' = maybe
  <2>1. \A d \in past' : At(d)' \in maybe
    <3> SUFFICES ASSUME NEW d \in past' PROVE At(d)' \in maybe
      OBVIOUS
    <3>1. PICK b \in past : d[Dest] = b[Dest]
      OBVIOUS
    <3>2. At(d)' = At(b)'
      BY <3>1, Zenon DEF At
    <3> QED
      BY <3>1, <3>2, ShownStays, Zenon DEF maybe
  <2>2. \A d \in past : At(d) \in maybe'
    BY ShownStays, Zenon DEF maybe
  <2> QED
    BY <2>1, <2>2, Zenon DEF maybe
<1>4. state[c] = Progress(pc[c])
  BY Zenon DEF state
<1>5. CASE Progress(next) = Progress(pc[c])
  <2>1. state' = state
    BY <1>1, <1>4, <1>5, Zenon DEF state
  <2> QED
    BY <1>2, <1>3, <2>1, Zenon DEF Abstract!pubVars, state, maybe
<1>6. CASE Progress(next) = "failed" /\ Progress(pc[c]) \in {"open", "published", "settled"}
  <2>1. Abstract!Fail(c)
    BY <1>1, <1>2, <1>3, <1>4, <1>6, Zenon DEF Abstract!Fail, state, maybe
  <2> QED
    BY <2>1, Zenon DEF Abstract!Next
<1>7. CASE Progress(next) = "ok" /\ Progress(pc[c]) = "settled"
  <2>1. Abstract!Succeed(c)
    BY <1>1, <1>2, <1>3, <1>4, <1>7, Zenon DEF Abstract!Succeed, state, maybe
  <2> QED
    BY <2>1, Zenon DEF Abstract!Next
<1> QED
  BY <1>5, <1>6, <1>7, Zenon

(* A rename publishes, a synchronized directory settles (stage.go,         *)
(* os.Rename and syncDirectory).                                           *)
LEMMA RenameRefines ==
  ASSUME StageInv, Next, NEW c \in Caller, pc[c] = "rename", Goto(c, "syncDir"), content' = content,
         Link([dir EXCEPT ![Dest] = dir[tmp[c]], ![tmp[c]] = NoFile])
  PROVE  Abstract!Publish(c)
<1>1. dir'[Dest] = c /\ past' = past \union {dir'}
  BY RenameShows, Zenon
<1>2. content[c] = Request[c].sha /\ c # NoFile
  BY CallerAssumption, Zenon DEF StageInv
<1>3. At(dir)' = ImageOf(c)
  BY <1>1, <1>2, Zenon DEF At, ImageOf
<1>4. maybe' = maybe \union {ImageOf(c)}
  <2>1. \A d \in past : At(d)' = At(d)
    BY ShownStays, Zenon
  <2> QED
    BY <1>1, <1>3, <2>1, Zenon DEF maybe
<1>5. state' = [state EXCEPT ![c] = "published"] /\ state[c] = "open"
  BY ProgressOf, Zenon DEF state, Goto, StageInv, TypeOK
<1> QED
  BY <1>3, <1>4, <1>5, Zenon DEF Abstract!Publish, state, maybe

(* The directory sync settles the register (stage.go, syncDirectory).      *)
LEMMA SyncDirRefines ==
  ASSUME StageInv, Next, NEW c \in Caller, pc[c] = "syncDir", Goto(c, "finish"),
         UNCHANGED <<dir, content>>, past' = {dir}
  PROVE  Abstract!Settle(c)
<1>1. At(dir)' = At(dir)
  BY Zenon DEF At
<1>2. maybe' = {At(dir)}
  BY <1>1, Zenon DEF maybe
<1>3. state' = [state EXCEPT ![c] = "settled"] /\ state[c] = "published"
  BY ProgressOf, Zenon DEF state, Goto, StageInv, TypeOK
<1> QED
  BY <1>1, <1>2, <1>3, Zenon DEF Abstract!Settle, state, maybe

(* A loss of power ends the calls that had begun and leaves one of the     *)
(* values that were possible.                                              *)
LEMMA LossRefines == ASSUME StageInv, Next, PowerLoss PROVE Abstract!PowerLoss(Active)
<1>1. /\ \A c \in Caller : pc'[c] = IF c \in Active THEN "dead" ELSE pc[c]
      /\ dir' \in past /\ past' = {dir'}
  BY Zenon DEF PowerLoss
<1>2. At(dir)' \in maybe
  <2>1. PICK d \in past : dir' = d
    BY <1>1, Zenon
  <2>2. At(d)' = At(d)
    BY ShownStays, Zenon
  <2>3. At(dir)' = At(d)'
    BY <2>1, Zenon DEF At
  <2> QED
    BY <2>2, <2>3, Zenon DEF maybe
<1>3. maybe' = {At(dir)'}
  BY <1>1, Zenon DEF maybe
<1>4. \A c \in Active : state[c] # "ok"
  <2> SUFFICES ASSUME NEW c \in Active PROVE Progress(pc[c]) # "ok"
    BY Zenon DEF state, Active
  <2>1. pc[c] \in Unpublished \union {"syncDir", "finish", "giveUp"}
    BY Zenon DEF Active, StageInv, TypeOK
  <2> QED
    BY <2>1, ProgressOf, Zenon
<1>5. state' = [c \in Caller |-> IF c \in Active THEN "failed" ELSE state[c]]
  BY <1>1, ProgressOf, Zenon DEF state
<1> QED
  BY <1>2, <1>3, <1>4, <1>5, Zenon DEF Abstract!PowerLoss, state, maybe

(* Every step of the calls is a step of the register or shows nothing      *)
(* (stage.go, Stage).                                                      *)
LEMMA StepsRefine == ASSUME StageInv, Next PROVE [Abstract!Next]_(Abstract!pubVars)
<1> USE DEF callVars, fsVars, netVars, histVars
<1>0. dir \in past
  BY Zenon DEF StageInv, TypeOK
<1>1. ASSUME UNCHANGED <<pc, dir, past>> PROVE [Abstract!Next]_(Abstract!pubVars)
  <2>1. \A d \in past : At(d)' = At(d)
    BY ShownStays, Zenon
  <2>2. At(dir)' = At(dir)
    <3>1. IF dir[Dest] = NoFile THEN TRUE ELSE content'[dir[Dest]] = content[dir[Dest]]
      BY <1>0, <2>1, Zenon DEF At
    <3> QED
      BY <1>1, <3>1, Zenon DEF At
  <2>3. maybe' = maybe
    BY <1>1, <2>1, Zenon DEF maybe
  <2> QED
    BY <1>1, <2>2, <2>3, Zenon DEF Abstract!pubVars, maybe
<1>2. ASSUME NEW c \in Caller, NEW next, Goto(c, next), UNCHANGED <<dir, past>>,
             \/ pc[c] \in Unpublished /\ next \in Unpublished \union {"giveUp", "failed", "dead"}
             \/ pc[c] \in {"syncDir", "finish", "giveUp"} /\ next \in {"giveUp", "dead"}
      PROVE  [Abstract!Next]_(Abstract!pubVars)
  BY <1>2, FrameRefines, ProgressOf, ZenonT(30)
<1>3. ASSUME NEW c \in Caller, CreatePartial(c) PROVE [Abstract!Next]_(Abstract!pubVars)
  <2>1. pc[c] = "create" /\ (Goto(c, "copy") \/ Goto(c, "giveUp") \/ Goto(c, "failed"))
    BY <1>3, ZenonT(40) DEF CreatePartial
  <2>2. CASE UNCHANGED <<dir, past>>
    BY <1>2, <2>1, <2>2, Zenon
  <2>3. ASSUME NEW t \in Temp, Link([dir EXCEPT ![t] = c]) PROVE [Abstract!Next]_(Abstract!pubVars)
    <3>1. dir'[Dest] = dir[Dest] /\ past' = past \union {dir'}
      BY <2>3, NameAssumption, Zenon DEF Link, StageInv, TypeOK, Names
    <3>2. past \subseteq past' /\ \A d \in past' : \E b \in past : d[Dest] = b[Dest]
      BY <1>0, <3>1, Zenon
    <3> QED
      BY <2>1, <3>1, <3>2, FrameRefines, ProgressOf, Zenon
  <2> QED
    BY <1>3, <2>2, <2>3, ZenonT(40) DEF CreatePartial
<1>4. ASSUME NEW c \in Caller, Rename(c) PROVE [Abstract!Next]_(Abstract!pubVars)
  <2>1. CASE Goto(c, "giveUp") /\ UNCHANGED <<dir, past>>
    BY <1>2, <1>4, <2>1, Zenon DEF Rename
  <2>2. CASE Abstract!Publish(c)
    BY <2>2, Zenon DEF Abstract!Next
  <2> QED
    BY <1>4, <2>1, <2>2, RenameRefines, Zenon DEF Rename
<1>5. ASSUME NEW c \in Caller, syncDirectory(c) PROVE [Abstract!Next]_(Abstract!pubVars)
  <2>1. CASE Goto(c, "giveUp") /\ UNCHANGED <<dir, past>>
    BY <1>2, <1>5, <2>1, Zenon DEF syncDirectory
  <2>2. CASE Abstract!Settle(c)
    BY <2>2, Zenon DEF Abstract!Next
  <2> QED
    BY <1>5, <2>1, <2>2, SyncDirRefines, Zenon DEF syncDirectory
<1>6. ASSUME NEW c \in Caller, RemovePartial(c) PROVE [Abstract!Next]_(Abstract!pubVars)
  <2>1. \/ pc[c] = "finish" /\ Goto(c, "ok")
        \/ pc[c] = "giveUp" /\ Goto(c, "failed")
    BY <1>6, SMTT(40) DEF RemovePartial
  <2>2. /\ dir'[Dest] = dir[Dest] /\ past \subseteq past'
        /\ \A d \in past' : \E b \in past : d[Dest] = b[Dest]
    BY <1>6, RemoveShows, Zenon
  <2> QED
    BY <2>1, <2>2, FrameRefines, ProgressOf, Zenon
<1>7. ASSUME PowerLoss PROVE [Abstract!Next]_(Abstract!pubVars)
  <2>1. Active \in SUBSET Caller
    BY Zenon DEF Active
  <2> QED
    BY <1>7, <2>1, LossRefines, Zenon DEF Abstract!Next
<1>8. ASSUME NEW c \in Caller, Network(c) \/ TimeoutFires(c) \/ Begin(c) \/ SyncPartial(c)
                               \/ VerifyPartial(c)
      PROVE  [Abstract!Next]_(Abstract!pubVars)
  <2>1. CASE download(c)
    BY <1>2, <2>1, Zenon DEF download, fsVars
  <2>2. CASE CopyChunk(c)
    BY <1>1, <1>2, <2>2, Zenon DEF CopyChunk
  <2>3. CASE CheckPartial(c)
    BY <1>2, <2>3, Zenon DEF CheckPartial, fsVars
  <2>4. CASE TimeoutFires(c)
    BY <1>2, <2>4, Zenon DEF TimeoutFires, fsVars
  <2>5. CASE Begin(c)
    BY <1>2, <2>5, Zenon DEF Begin, fsVars
  <2>6. CASE SyncPartial(c)
    BY <1>2, <2>6, Zenon DEF SyncPartial
  <2>7. CASE VerifyPartial(c)
    BY <1>2, <2>7, Zenon DEF VerifyPartial, fsVars
  <2> QED
    BY <1>8, <2>1, <2>2, <2>3, <2>4, <2>5, <2>6, <2>7, Zenon DEF Network
<1>9. ASSUME NEW c \in Caller, Kill(c) PROVE [Abstract!Next]_(Abstract!pubVars)
  <2>1. pc[c] \in Unpublished \union {"syncDir", "finish", "giveUp"}
    BY <1>9, Zenon DEF Kill, Active, StageInv, TypeOK
  <2> QED
    BY <1>2, <1>9, <2>1, Zenon DEF Kill
<1>10. ASSUME New \/ \E t \in Timeout : ChangeClient(t) PROVE [Abstract!Next]_(Abstract!pubVars)
  BY <1>1, <1>10, Zenon DEF New, ChangeClient, restVars
<1> QED
  BY <1>3, <1>4, <1>5, <1>6, <1>7, <1>8, <1>9, <1>10, ZenonT(40) DEF Next, Step, Local

----------------------------------------------------------------------------
(* The calls together implement the atomic, crash-safe register of         *)
(* AtomicPublish (stage.go, Stage: "atomically publishes it").             *)
THEOREM ImplementsRegister == ASSUME NameReuse = FALSE PROVE Spec => PublishesAtomically
<1>1. Init => Abstract!Init
  <2> SUFFICES ASSUME Init PROVE Abstract!Init
    OBVIOUS
  <2>1. dir[Dest] \in {Old, NoFile} /\ content[Old] = OldContent /\ past = {dir}
    BY CallerAssumption, Zenon DEF Init, Names, File
  <2>2. At(dir) \in {OldContent, NoFile} /\ {At(d) : d \in past} = {At(dir)}
    BY <2>1, Zenon DEF At
  <2>3. [c \in Caller |-> Progress(pc[c])] = [c \in Caller |-> "open"]
    BY ProgressOf, Zenon DEF Init
  <2> QED
    BY <2>2, <2>3, Zenon DEF Abstract!Init
<1>2. ASSUME UNCHANGED stageVars PROVE UNCHANGED Abstract!pubVars
  BY <1>2, Zenon DEF stageVars, Abstract!pubVars, At
<1>3. StageInv /\ [Next]_stageVars => [Abstract!Next]_(Abstract!pubVars)
  BY <1>2, StepsRefine, Zenon
<1> QED
  BY <1>1, <1>3, StageInvariant, PTL DEF Spec, PublishesAtomically, Abstract!Spec
=============================================================================
