------------------------------- MODULE Stage -------------------------------
(***************************************************************************)
(* internal/image/stage.go: calls of Stage that download to a partial file *)
(* in the destination's directory and rename it over the destination.      *)
(* Several calls, of one process or of several, run at once with the same  *)
(* destination; a process may be killed and power may be lost between any  *)
(* two steps.  Servers answer when they like, or never; what ends the wait *)
(* is the timeout of the engine's HTTP client (diskforge.go).              *)
(*                                                                         *)
(* Each call creates at most one file, so the call names the file.  A file *)
(* is a sequence of chunks, and its digest is that sequence.  past holds   *)
(* the directories a loss of power may leave behind: all that existed      *)
(* since the directory was last synchronized.                              *)
(***************************************************************************)
EXTENDS Integers, Sequences, FiniteSets

CONSTANTS Caller,
          Old,          \* the file at the destination before the first call
          NoFile,
          Dest,         \* the destination's name
          Temp,         \* the names CreateTemp can draw
          NameReuse,    \* whether CreateTemp may draw a name that was used before
          Chunk,
          MaxFile,      \* bound on the size of a body
          MaxInt64,
          Request,      \* [Caller -> [sha, maximum]]
          Response,     \* what servers send: [status, length, body]
          OldContent,
          Timeout,      \* values an http.Client's Timeout takes; 0 is none
          defaultHTTPTimeout

ASSUME CallerAssumption == Old \notin Caller /\ NoFile \notin Caller \union {Old}
ASSUME NameAssumption == Dest \notin Temp /\ NameReuse \in BOOLEAN

Data == UNION {[1 .. n -> Chunk] : n \in 0 .. MaxFile}

ASSUME StageAssumption ==
  /\ MaxFile \in Nat /\ MaxInt64 \in Nat
  /\ Request \in [Caller -> [sha : Data, maximum : Int]]
  /\ Response \subseteq [status : Nat, length : Int, body : Data]
  /\ OldContent \in Data
ASSUME TimeoutAssumption == Timeout \subseteq Nat /\ defaultHTTPTimeout \in Timeout \ {0}

VARIABLES pc,        \* per call: its next step
          resp,      \* per call: the response
          tmp,       \* per call: the name of its partial
          content,   \* per file
          synced,    \* the files whose content is durable
          dir,       \* [Temp \union {Dest} -> file or NoFile]
          past,      \* the directories a loss of power may leave
          used,      \* the temporary names drawn so far
          own,       \* the Timeout of the client the caller has made
          kept,      \* the Timeout of the engine's client, NoEngine before New
          published, \* history: the calls whose files were renamed, in order
          stopped    \* history: whether a call was killed or power was lost

stageVars == <<pc, resp, tmp, content, synced, dir, past, used, own, kept,
               published, stopped>>
callVars  == <<resp, tmp>>
fsVars    == <<content, synced, dir, past, used>>
netVars   == <<own, kept>>
histVars  == <<published, stopped>>

File  == Caller \union {Old}
Names == Temp \union {Dest}
Ended == {"ok", "failed", "dead"}
NoEngine == -1
NoResponse == [status |-> 0, length |-> 0, body |-> <<>>]

Goto(c, next) == pc' = [pc EXCEPT ![c] = next]

\* A directory operation: it takes effect at once and is durable some time.
Link(d) == dir' = d /\ past' = past \union {d}

Init ==
  /\ pc = [c \in Caller |-> "begin"]
  /\ resp = [c \in Caller |-> NoResponse] /\ tmp = [c \in Caller |-> Dest]
  /\ content = [f \in File |-> IF f = Old THEN OldContent ELSE <<>>] /\ synced = {Old}
  /\ dir \in {[n \in Names |-> IF n = Dest THEN f ELSE NoFile] : f \in {Old, NoFile}}
  /\ past = {dir} /\ used = {}
  /\ own \in Timeout /\ kept = NoEngine
  /\ published = <<>> /\ stopped = FALSE

----------------------------------------------------------------------------
(* New and WithHTTPClient: a client without a timeout is refused, another  *)
(* one is copied; the caller may go on to change its own.                  *)
restVars == <<pc, callVars, fsVars, histVars>>

WithHTTPClient == own > 0 /\ kept' = own

New ==
  /\ kept = NoEngine
  /\ WithHTTPClient \/ kept' = defaultHTTPTimeout
  /\ UNCHANGED <<own, restVars>>

ChangeClient(t) == own' = t /\ UNCHANGED <<kept, restVars>>

----------------------------------------------------------------------------
validateStageInputs(r) == r.maximum > 0 /\ r.maximum # MaxInt64

Begin(c) ==
  /\ pc[c] = "begin" /\ kept # NoEngine
  /\ Goto(c, IF validateStageInputs(Request[c]) THEN "download" ELSE "failed")
  /\ UNCHANGED <<callVars, fsVars, netVars, histVars>>

validateResponse(r, maximum) == r.status \in 200 .. 299 /\ r.length <= maximum

download(c) ==
  /\ pc[c] = "download"
  /\ \/ \E r \in Response :
          /\ resp' = [resp EXCEPT ![c] = r]
          /\ Goto(c, IF validateResponse(r, Request[c].maximum) THEN "create" ELSE "failed")
     \/ Goto(c, "failed") /\ UNCHANGED resp
  /\ UNCHANGED <<tmp, fsVars, netVars, histVars>>

\* Mutant: the engine keeps the caller's client itself.
Expires_Aliased == own > 0

Expires == kept > 0

\* The client's timer runs over the request and the whole body.
TimeoutFires(c) ==
  /\ Expires
  /\ \/ pc[c] = "download" /\ Goto(c, "failed")
     \/ pc[c] = "copy" /\ Goto(c, "giveUp")
  /\ UNCHANGED <<callVars, fsVars, netVars, histVars>>

\* Mutant: the error of CreateTemp is dropped.
CreatePartial_DropsError(c) ==
  /\ pc[c] = "create"
  /\ \/ \E n \in Temp :
          /\ dir[n] = NoFile /\ (n \in used => NameReuse)
          /\ Link([dir EXCEPT ![n] = c])
          /\ tmp' = [tmp EXCEPT ![c] = n] /\ used' = used \union {n}
     \/ tmp' = [tmp EXCEPT ![c] = NoFile] /\ UNCHANGED <<dir, past, used>>
  /\ Goto(c, "copy")
  /\ UNCHANGED <<resp, content, synced, netVars, histVars>>

\* MkdirAll, CreateTemp with O_EXCL, and Chmod.
CreatePartial(c) ==
  /\ pc[c] = "create"
  /\ \/ \E n \in Temp :
          /\ dir[n] = NoFile /\ (n \in used => NameReuse)
          /\ Link([dir EXCEPT ![n] = c])
          /\ tmp' = [tmp EXCEPT ![c] = n] /\ used' = used \union {n}
          /\ Goto(c, "copy") \/ Goto(c, "giveUp")
     \/ Goto(c, "failed") /\ UNCHANGED <<tmp, dir, past, used>>
  /\ UNCHANGED <<resp, content, synced, netVars, histVars>>

\* Mutant: no LimitReader.
limit_None(maximum) == MaxInt64

\* LimitReader(body, maximumBytes+1), in 64 bits.
limit(maximum) == IF maximum = MaxInt64 THEN -MaxInt64 - 1 ELSE maximum + 1

CopyDone(c) ==
  Len(content[c]) >= Len(resp[c].body) \/ Len(content[c]) >= limit(Request[c].maximum)

\* One chunk of the body; a canceled context is an error of the next read.
CopyChunk(c) ==
  /\ pc[c] = "copy"
  /\ \/ /\ ~CopyDone(c)
        /\ content' = [content EXCEPT ![c] = Append(@, resp[c].body[Len(@) + 1])]
        /\ UNCHANGED pc
     \/ Goto(c, "giveUp") /\ UNCHANGED content
  /\ UNCHANGED <<callVars, synced, dir, past, used, netVars, histVars>>

acceptable(c) ==
  /\ Len(content[c]) <= Request[c].maximum
  /\ resp[c].length >= 0 => Len(content[c]) = resp[c].length
  /\ content[c] = Request[c].sha

CheckPartial(c) ==
  /\ pc[c] = "copy" /\ CopyDone(c)
  /\ Goto(c, IF acceptable(c) THEN "sync" ELSE "giveUp")
  /\ UNCHANGED <<callVars, fsVars, netVars, histVars>>

\* Mutant: the partial is not synchronized.
SyncPartial_Skipped(c) ==
  /\ pc[c] = "sync" /\ Goto(c, "verify")
  /\ UNCHANGED <<callVars, fsVars, netVars, histVars>>

SyncPartial(c) ==
  /\ pc[c] = "sync"
  /\ \/ Goto(c, "verify") /\ synced' = synced \union {c}
     \/ Goto(c, "giveUp") /\ UNCHANGED synced
  /\ UNCHANGED <<callVars, content, dir, past, used, netVars, histVars>>

\* verifyDescriptor hashes the descriptor, not the name, once more.
VerifyPartial(c) ==
  /\ pc[c] = "verify"
  /\ \/ content[c] = Request[c].sha /\ Goto(c, "rename")
     \/ Goto(c, "giveUp")
  /\ UNCHANGED <<callVars, fsVars, netVars, histVars>>

\* os.Rename goes by name: it moves whatever file has the partial's name.
Rename(c) ==
  /\ pc[c] = "rename"
  /\ \/ /\ dir[tmp[c]] # NoFile
        /\ Link([dir EXCEPT ![Dest] = dir[tmp[c]], ![tmp[c]] = NoFile])
        /\ published' = Append(published, c)
        /\ Goto(c, "syncDir")
     \/ Goto(c, "giveUp") /\ UNCHANGED <<dir, past, published>>
  /\ UNCHANGED <<callVars, content, synced, used, netVars, stopped>>

\* Mutants: the directory is not synchronized; an error of it is dropped.
syncDirectory_Skipped(c) ==
  /\ pc[c] = "syncDir" /\ Goto(c, "finish")
  /\ UNCHANGED <<callVars, fsVars, netVars, histVars>>
syncDirectory_DropsError(c) ==
  /\ pc[c] = "syncDir" /\ Goto(c, "finish")
  /\ past' = {dir} \/ UNCHANGED past
  /\ UNCHANGED <<callVars, content, synced, dir, used, netVars, histVars>>

syncDirectory(c) ==
  /\ pc[c] = "syncDir"
  /\ \/ Goto(c, "finish") /\ past' = {dir}
     \/ Goto(c, "giveUp") /\ UNCHANGED past
  /\ UNCHANGED <<callVars, content, synced, dir, used, netVars, histVars>>

\* Mutant: the partial is removed only after a success.
RemovePartial_OnSuccess(c) ==
  /\ pc[c] \in {"finish", "giveUp"}
  /\ Goto(c, IF pc[c] = "finish" THEN "ok" ELSE "failed")
  /\ UNCHANGED <<callVars, fsVars, netVars, histVars>>

\* The deferred function: it removes the name, if there is such a name,
\* after a success too.
RemovePartial(c) ==
  /\ pc[c] \in {"finish", "giveUp"}
  /\ Goto(c, IF pc[c] = "finish" THEN "ok" ELSE "failed")
  /\ IF dir[tmp[c]] = NoFile THEN UNCHANGED <<dir, past>>
                             ELSE Link([dir EXCEPT ![tmp[c]] = NoFile])
  /\ UNCHANGED <<callVars, content, synced, used, netVars, histVars>>

----------------------------------------------------------------------------
Active == {c \in Caller : pc[c] \notin Ended \union {"begin"}}

Kill(c) ==
  /\ c \in Active
  /\ Goto(c, "dead") /\ stopped' = TRUE
  /\ UNCHANGED <<callVars, fsVars, netVars, published>>

\* Files that were not synchronized may be cut short.
PowerLoss ==
  /\ pc' = [c \in Caller |-> IF c \in Active THEN "dead" ELSE pc[c]]
  /\ stopped' = TRUE
  /\ dir' \in past /\ past' = {dir'}
  /\ \E keep \in [File \ synced -> 0 .. MaxFile] :
       content' = [f \in File |->
         IF f \in synced \/ keep[f] >= Len(content[f]) THEN content[f]
                                                       ELSE SubSeq(content[f], 1, keep[f])]
  /\ synced' = {f \in File : f \in Caller => pc[f] # "begin"}
  /\ UNCHANGED <<callVars, used, netVars, published>>

\* What waits for the server, and what the call does on its own.
Network(c) == download(c) \/ CopyChunk(c) \/ CheckPartial(c)
Local(c) ==
  \/ Begin(c) \/ CreatePartial(c) \/ SyncPartial(c) \/ VerifyPartial(c) \/ Rename(c)
  \/ syncDirectory(c) \/ RemovePartial(c)
Step(c) == Network(c) \/ Local(c) \/ TimeoutFires(c)

Next ==
  \/ PowerLoss \/ New \/ \E t \in Timeout : ChangeClient(t)
  \/ \E c \in Caller : Step(c) \/ Kill(c)

\* A call goes on and a timer that runs fires; a server need not answer.
Fairness == \A c \in Caller : WF_stageVars(Local(c)) /\ WF_stageVars(TimeoutFires(c))

Spec == Init /\ [][Next]_stageVars /\ Fairness
----------------------------------------------------------------------------
TypeOK ==
  /\ pc \in [Caller -> Ended \union {"begin", "download", "create", "copy", "sync", "verify",
                                     "rename", "syncDir", "finish", "giveUp"}]
  /\ resp \in [Caller -> Response \union {NoResponse}]
  /\ tmp \in [Caller -> Names]
  /\ content \in [File -> Data] /\ synced \subseteq File
  /\ dir \in [Names -> File \union {NoFile}]
  /\ past \subseteq [Names -> File \union {NoFile}] /\ dir \in past
  /\ used \subseteq Temp
  /\ own \in Timeout /\ kept \in Timeout \union {NoEngine}
  /\ published \in Seq(Caller) /\ stopped \in BOOLEAN

(* Nobody ever sees a partial or wrong image at the destination, not even  *)
(* after a loss of power: there is the old file, or none if there was      *)
(* none, or the complete image that the call which renamed it was asked    *)
(* for (stage.go, publishResponse).                                        *)
DestinationComplete ==
  \A d \in past : d[Dest] \in Caller =>
    /\ content[d[Dest]] = Request[d[Dest]].sha
    /\ d[Dest] \in synced

(* A success survives a loss of power: what is then at the destination is  *)
(* this call's file or one renamed after it (stage.go, syncDirectory).     *)
SuccessSurvives ==
  \A c \in Caller : pc[c] = "ok" =>
    \A d \in past : \E i, j \in DOMAIN published :
      published[i] = c /\ i <= j /\ published[j] = d[Dest]

(* When every call has come back, and none was killed and power was never  *)
(* lost, no partial is left in the directory, whichever way each call      *)
(* ended (stage.go, the deferred function of publishResponse).             *)
PartialsRemoved ==
  (\A c \in Caller : pc[c] \in {"ok", "failed"}) /\ ~stopped => \A n \in Temp : dir[n] = NoFile

(* A server that sends more than was announced or allowed fills at most    *)
(* one chunk more than the caller's ceiling (stage.go, LimitReader).       *)
DiskUseBounded ==
  \A c \in Caller : content[c] # <<>> => Len(content[c]) <= Request[c].maximum + 1

(* docs/cli.md says that the destination becomes visible only after        *)
(* directory synchronization, and a test that a failed call preserves the  *)
(* destination (stage.go, publishResponse, renames before it synchronizes  *)
(* and returns the error of the latter).                                   *)
FailurePreservesDestination == \A c \in Caller : pc[c] = "failed" => dir[Dest] # c

(* Every call that has begun comes back, even when the server falls silent *)
(* and the caller takes the timeout of its own client away meanwhile       *)
(* (stage.go, download and publishResponse; diskforge.go, WithHTTPClient). *)
StageReturns == \A c \in Caller : c \in Active ~> pc[c] \in Ended

\* Refinement mapping: the value a directory shows at the destination, and
\* how far a call has got.
At(d) == IF d[Dest] = NoFile THEN NoFile ELSE content[d[Dest]]
Progress(p) ==
  CASE p = "syncDir" -> "published" [] p = "finish" -> "settled" [] p = "ok" -> "ok"
    [] p \in {"giveUp", "failed", "dead"} -> "failed" [] OTHER -> "open"
ImageOf(c) == Request[c].sha

Abstract == INSTANCE AtomicPublish WITH
  Image <- ImageOf, Before <- {OldContent, NoFile},
  file <- At(dir), maybe <- {At(d) : d \in past}, state <- [c \in Caller |-> Progress(pc[c])]

(* The calls together implement an atomic, crash-safe register: renames    *)
(* publish whole images one after the other, and a call that reports       *)
(* success has settled what it published (stage.go, Stage).                *)
PublishesAtomically == Abstract!Spec
=============================================================================
