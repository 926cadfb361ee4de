--------------------------- MODULE MCServerQueue ---------------------------
(***************************************************************************)
(* ServerQueue with two clients, rooms of four players and five nodes: a   *)
(* list of three gets a first, an inner and a last node, a client can wait *)
(* before and after another one, and the main thread can hold nodes that   *)
(* have left the list.                                                     *)
(***************************************************************************)
EXTENDS ServerQueue

CONSTANTS c1, c2

MCClient == {c1, c2}
MCNode == 1..5
=============================================================================
