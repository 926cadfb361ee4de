--------------------------- MODULE MatchingQueue ---------------------------
(***************************************************************************)
(* What the matchmaking queue promises to the rest of the server: clients  *)
(* wait in the order in which they asked for a game, and as soon as        *)
(* MAX_ROOM_PLAYER of them wait, the oldest MAX_ROOM_PLAYER leave the      *)
(* queue together, as the players of one room.  A departing client loses   *)
(* its oldest place in the queue.                                          *)
(*                                                                         *)
(* ServerQueue implements this with a linked list under a mutex.           *)
(***************************************************************************)
EXTENDS Naturals, Sequences, SequencesExt

CONSTANTS Client,            \* the client slots of the server
          MAX_ROOM_PLAYER    \* the players of a room

VARIABLES waiting,   \* the clients that wait, oldest first
          opened     \* the players of the last room opened; <<>> before it

vars == <<waiting, opened>>

Init == /\ waiting = <<>>
        /\ opened = <<>>

(***************************************************************************)
(* A client asks for a game.  It may already wait: nothing refuses a       *)
(* second request of a waiting client.                                     *)
(***************************************************************************)
StayInQueue(c) ==
    /\ Len(waiting) + 1 < MAX_ROOM_PLAYER
    /\ waiting' = Append(waiting, c)
    /\ UNCHANGED opened

OpenRoom(c) ==
    LET queue == Append(waiting, c) IN
    /\ Len(queue) >= MAX_ROOM_PLAYER
    /\ opened' = SubSeq(queue, 1, MAX_ROOM_PLAYER)
    /\ waiting' = SubSeq(queue, MAX_ROOM_PLAYER + 1, Len(queue))

Leave(c) ==
    /\ waiting' = RemoveFirst(waiting, c)
    /\ UNCHANGED opened

Next == \E c \in Client : StayInQueue(c) \/ OpenRoom(c) \/ Leave(c)

Spec == Init /\ [][Next]_vars
=============================================================================
