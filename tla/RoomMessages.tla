---------------------------- MODULE RoomMessages ----------------------------
(***************************************************************************)
(* The messages a room sends to its players: several packets put into one  *)
(* OutputMemoryStream and sent in one call.  SendPacket copies a message   *)
(* into the io_buf of a new Exover without looking at its size.            *)
(*                                                                         *)
(* A message is given here as the capacity of its stream and the packets   *)
(* written to it, <<how many, which>>, for n players, at its longest:      *)
(* every slot holds an item that is announced, no fight is over, everybody *)
(* is thrown out.  Packets of a kind are written at once, where the code   *)
(* writes each member on its own: that changes when the stream grows, not  *)
(* what it holds.                                                          *)
(***************************************************************************)
EXTENDS PacketStruct, MemoryStream

CONSTANT MAX_BUF_SIZE   \* of io_buf

Streamed(capacity, packets) ==
    FoldLeft(LAMBDA stream, group : Write(stream, group[1] * Sizeof(group[2])),
             OutputMemoryStream(capacity), packets)

\* The default capacity of a stream.
Unsized == 32

ConnectRoom ==
    Streamed(Sizeof(sc_SetChoiceCharacterTimePacket) + Sizeof(sc_ConnectRoomPacket),
             <<<<1, sc_SetChoiceCharacterTimePacket>>, <<1, sc_ConnectRoomPacket>>>>)

\* The characters of n players, in a stream made for a room of that size.
ChangeCharacters(size, n) ==
    Streamed(Sizeof(cs_sc_ChangeCharacterPacket) * size,
             <<<<n, cs_sc_ChangeCharacterPacket>>>>)

EnterCutScene ==
    Streamed(Sizeof(cs_sc_NotificationPacket) + Sizeof(sc_SetReadyTimePacket)
               + Sizeof(sc_FadeOutPacket),
             <<<<1, cs_sc_NotificationPacket>>, <<1, sc_SetReadyTimePacket>>,
               <<1, sc_FadeOutPacket>>>>)

\* `empty' players have no character yet, `unconfirmed' have not confirmed it.
FinishChoiceTime(empty, unconfirmed) ==
    Streamed(512, <<<<empty, cs_sc_ChangeCharacterPacket>>,
                    <<unconfirmed, cs_sc_NotificationPacket>>,
                    <<1, cs_sc_NotificationPacket>>, <<1, sc_FadeInPacket>>>>)

DefaultItems(n) ==
    Streamed(512, <<<<n, sc_InventoryInfoPacket>>, <<4 * n, sc_SetItemTicketPacket>>>>)

EnterReady(n) ==
    Streamed(1024, <<<<1, sc_BattleOpponentsPacket>>, <<1, sc_SetReadyTimePacket>>,
                     <<1, cs_sc_NotificationPacket>>,
                     <<n, sc_UpdateCharacterInfoPacket>>, <<n, sc_SetItemTicketPacket>>>>)

FinishReady(n) ==
    Streamed((Sizeof(sc_UpdateCharacterInfoPacket)
                + Sizeof(cs_sc_NotificationPacket)) * n,
             <<<<n, cs_sc_NotificationPacket>>, <<n, sc_UpdateCharacterInfoPacket>>>>)

\* With an odd number of players there is a ghost.
Avatars(n) == n + (n % 2)

\* Each slot announces the type of its hamburger, or what item 016 copies.
EnterBattle(n) ==
    Streamed(Unsized,
             <<<<1, cs_sc_NotificationPacket>>,
               <<Avatars(n) * MAX_USING_ITEM_COUNT, sc_DoctorToolInfoPacket>>,
               <<Avatars(n), sc_BattleAvatarInfoPacket>>>>)

InitBattleSlots(n) == Streamed(1024, <<<<Avatars(n), cs_sc_NotificationPacket>>>>)

BattleTurn(n) ==
    Streamed(Unsized,
             <<<<Avatars(n) \div 2, sc_ActiveItemPacket>>,
               <<Avatars(n), sc_BattleAvatarInfoPacket>>,
               <<1, sc_BattleTimeInfoPacket>>, <<n, cs_sc_NotificationPacket>>>>)

BattleCycleEnd(n) ==
    Streamed(512, <<<<Avatars(n), sc_BattleAvatarInfoPacket>>,
                    <<n, cs_sc_NotificationPacket>>>>)

BattleTimeLimit(n) == Streamed(128, <<<<n, cs_sc_NotificationPacket>>>>)

\* Every player fights a creep monster; the monsters have no hamburgers.
EnterCreep(n) ==
    Streamed(1024, <<<<1, cs_sc_NotificationPacket>>, <<1, sc_CreepStageInfoPacket>>,
                     <<n * MAX_USING_ITEM_COUNT, sc_SetHamburgerTypePacket>>,
                     <<2 * n, sc_BattleAvatarInfoPacket>>>>)

CreepTurn(n) ==
    Streamed(1024, <<<<n, sc_SetItemTicketPacket>>, <<n, sc_ActiveItemPacket>>,
                     <<2 * n, sc_BattleAvatarInfoPacket>>,
                     <<1, sc_BattleTimeInfoPacket>>, <<n, cs_sc_NotificationPacket>>>>)

CreepCycleEnd(n) ==
    Streamed(512, <<<<2 * n, sc_BattleAvatarInfoPacket>>, <<n, sc_SetItemTicketPacket>>,
                    <<n, cs_sc_NotificationPacket>>>>)

Messages(n) ==
    {ConnectRoom, ChangeCharacters(n, n), EnterCutScene, FinishChoiceTime(n, n),
     DefaultItems(n), EnterReady(n), FinishReady(n), EnterBattle(n),
     InitBattleSlots(n), BattleTurn(n), BattleCycleEnd(n), BattleTimeLimit(n),
     EnterCreep(n), CreepTurn(n), CreepCycleEnd(n)}

Fits(stream) == GetLength(stream) <= MAX_BUF_SIZE
=============================================================================
