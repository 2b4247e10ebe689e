---------------------------- MODULE MCImageWrite ----------------------------
(* Verify, Write and Close of one image, with other processes renaming     *)
(* over the path and changing files in place, at most MaxChanges times.    *)
EXTENDS ImageWrite

CONSTANT MaxChanges

VARIABLE changes
allVars == <<vars, changes>>

\* A toy codec with the shape of zstd: a header, then chunks that expand to
\* two chunks each, ended by a trailer; anything else is corrupt.
ZBody(s) == IF Len(s) > 1 /\ s[Len(s)] = "end" THEN SubSeq(s, 2, Len(s) - 1)
            ELSE IF s = <<>> THEN <<>> ELSE Tail(s)
MCZOut(s) == [k \in 1 .. 2 * Len(ZBody(s)) |-> ZBody(s)[(k + 1) \div 2]]
MCZFault(s, eof) ==
  \/ s # <<>> /\ s[1] # "Z"
  \/ \E k \in 2 .. Len(s) : s[k] = "Z" \/ (s[k] = "end" /\ k < Len(s))
  \/ eof /\ (IF s = <<>> THEN TRUE ELSE s[Len(s)] # "end")

Files == {<<"a", "b">>, <<"Z", "a", "end">>, <<"a">>, <<"a", "b", "a">>,
          <<"Z", "a", "b">>, <<>>}
Wants == [sha : {<<"a", "b">>, <<"Z", "a", "end">>, <<"Z", "a", "b">>}, expected : 1 .. 3]

MCInit ==
  /\ Idle
  /\ want \in Wants
  /\ content \in [Inode -> Files]
  /\ path \in Inode \union {NoInode}
  /\ changes = 0

Disturb ==
  /\ changes < MaxChanges /\ changes' = changes + 1
  /\ \/ \E i \in Inode \union {NoInode} : ReplaceImage(i)
     \/ \E i \in Inode, f \in Files : MutateImage(i, f)

Program == (VerifyStep \/ WriteStep \/ (Close /\ src # NoInode)) /\ UNCHANGED changes
Stopped == phase \in {"written"} \union Failures /\ src = NoInode /\ UNCHANGED allVars

MCNext == Program \/ Disturb \/ (Cancel /\ UNCHANGED changes) \/ Stopped

\* The goroutine in Verify or Write keeps running; nobody else has to move.
MCSpec ==
  /\ MCInit /\ [][MCNext]_allVars
  /\ WF_allVars(VerifyStep /\ UNCHANGED changes)
  /\ WF_allVars(WriteStep /\ UNCHANGED changes)

(* Verify and Write always come back, with a result or an error, whatever  *)
(* is done to the file and to the context (write.go, Write).               *)
WriteReturns == <>(phase \in {"written"} \union Failures)
=============================================================================
