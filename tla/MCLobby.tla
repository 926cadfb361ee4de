------------------------------- MODULE MCLobby -------------------------------
(***************************************************************************)
(* Lobby with a group of three, the smallest whose room goes on when one   *)
(* player has left, and two seconds to choose.                             *)
(*                                                                         *)
(* Checked once, for rooms of two to eight players: what each packet's     *)
(* Write puts into a stream, and the size of each message.                 *)
(***************************************************************************)
EXTENDS Lobby, TLC

CONSTANTS c1, c2, c3

MCClient == {c1, c2, c3}

\* Everybody has left, nothing is under way: that, and nothing else, may stop.
AtRest == /\ \A c \in Client : at[Leaver(c)] = "gone" /\ at[Worker(c)] \in {"new", "idle"}
          /\ at[Progress] \in {"none", "playing", "over"}

MCNext == Next \/ (AtRest /\ UNCHANGED vars)

MCSpec == Init /\ [][MCNext]_vars

ClientSymmetry == Permutations(MCClient)

Full == INSTANCE RoomMessages WITH MAX_ROOM_PLAYER <- 8

\* Reading the members of a packet one by one from what its Write leaves.
ReadBack(packet) ==
    FoldLeft(LAMBDA stream, member : Full!Read(stream, member[2]),
             Full!InputMemoryStream(GetLength(Full!Streamed(Full!Unsized, <<<<1, packet>>>>))),
             packet.members)

\* Bound: the longest packet, of 491 members, is not read back.
ASSUME PacketsAreWritten ==
    \A packet \in Full!Packets :
        /\ Full!WritesItsMembers(packet)
        /\ Len(packet.members) < 200 => GetRemainingDataSize(ReadBack(packet)) = 0

ASSUME MessagesFit ==
    \A n \in 2..8 : \A message \in Full!Messages(n) : Full!Fits(message)
=============================================================================
