------------------------------- MODULE MCRoom -------------------------------
(***************************************************************************)
(* Rooms of two players.  MCRoom.cfg: three clients and two rooms, each    *)
(* opened at most twice, so that a third group finds both rooms in use and *)
(* gets the last one.  MCRoomLive.cfg and MCRoomThreads.cfg: one room and  *)
(* two clients.                                                            *)
(*                                                                         *)
(* With MaxOpenCount reached the rooms come to rest; that, and nothing     *)
(* else, may stop.                                                         *)
(***************************************************************************)
EXTENDS Room, TLC

CONSTANTS c1, c2, c3

MCClient  == {c1, c2, c3}
MCClient2 == {c1, c2}
MCThread  == 1..2

ClientSymmetry == Permutations(MCClient)

AtRest == /\ opener = NoOpener
          /\ \A k \in ProgressThread : thread[k] = NoThread
          /\ \A c \in Client : mRoomPtr[c] = NoRoom

MCNext == Next \/ (AtRest /\ UNCHANGED vars)

MCSpec == Init /\ [][MCNext]_vars

MCFairSpec == MCSpec /\ Fairness
=============================================================================
