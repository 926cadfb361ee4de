------------------------------ MODULE MCServer ------------------------------
(***************************************************************************)
(* MCServer.cfg: two workers, two slots and three sockets, so that a       *)
(* client can find the server full and a slot gets a second client.        *)
(* MCServerFaults.cfg: one worker, one slot, two sockets, every fault, and *)
(* with them the main thread and the room threads: what one slot's         *)
(* successive sessions do to each other, and that they end.                *)
(***************************************************************************)
EXTENDS Server, TLC

CONSTANTS w1, w2

MCWorker1 == {w1}
MCWorker  == {w1, w2}
MCSocket  == 1..3
MCSocket2 == 1..2

WorkerSymmetry == Permutations(MCWorker)
=============================================================================
