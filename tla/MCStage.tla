------------------------------ MODULE MCStage ------------------------------
(* Two calls of Stage for different images with one destination.  Servers  *)
(* answer with the wanted body, a wrong one, a longer one, a wrong length  *)
(* or an error.                                                            *)
EXTENDS Stage

MCOld == <<"b">>
TwoImages == [c \in Caller |->
  IF c = "c1" THEN [sha |-> <<"a", "a">>, maximum |-> 2] ELSE [sha |-> <<"a">>, maximum |-> 1]]

answer(status, length, body) == [status |-> status, length |-> length, body |-> body]
MCResponse == {answer(200, 2, <<"a", "a">>), answer(200, -1, <<"a">>),
               answer(206, 1, <<"a", "a">>), answer(200, -1, <<"a", "a", "a", "a">>),
               answer(200, 3, <<"a", "a", "a">>), answer(404, 0, <<>>)}
OneChunk == [c \in Caller |-> [sha |-> <<"a">>, maximum |-> 1]]
OneChunkResponse == {answer(200, -1, <<"a">>)}

Stopped == (\A c \in Caller : pc[c] \in Ended) /\ UNCHANGED stageVars
MCSpec == Init /\ [][Next \/ Stopped]_stageVars /\ Fairness
=============================================================================
