---------------------------- MODULE PacketStruct ----------------------------
(***************************************************************************)
(* PacketStruct.h: what the server's packets are made of.                  *)
(*                                                                         *)
(* A packet is a packed struct.  Its constructor fills in sizeof of the    *)
(* struct as the size; its Write puts the members into a stream one by     *)
(* one.  The two are written separately in the source, and are given       *)
(* separately here: `members' lists the struct's members with their bytes, *)
(* `writes' the members Write passes to the stream, in its order.  A       *)
(* packet that is never written to a stream has no `writes'.  The values   *)
(* of the members are left out.                                            *)
(***************************************************************************)
EXTENDS Naturals, Sequences, SequencesExt, FiniteSetsExt

CONSTANTS
    MAX_ROOM_PLAYER, MAX_USER_NAME_LENGTH,
    MAX_USING_ITEM_COUNT, MAX_UN_USING_ITEM_COUNT,
    BATTLE_ITEM_QUEUE_LOOP_COUNT

ASSUME PacketStructAssumption ==
    /\ MAX_ROOM_PLAYER \in Nat /\ MAX_USER_NAME_LENGTH \in Nat
    /\ MAX_USING_ITEM_COUNT \in Nat /\ MAX_UN_USING_ITEM_COUNT \in Nat
    /\ BATTLE_ITEM_QUEUE_LOOP_COUNT \in Nat

\* The bytes of a wchar_t: the server is a Windows program.
wchar_t == 2

\* An array, or the turns of a loop over one: s, n times.
Times(n, s) == [i \in 1..n * Len(s) |-> s[((i - 1) % Len(s)) + 1]]

\* Scalar members, all of the same width, and several groups of members.
Of(bytes, names) == [i \in DOMAIN names |-> <<names[i], bytes>>]
Members(groups) == FlattenSeq(groups)

Packet == [members |-> <<<<"size", 2>>, <<"type", 1>>>>,
           writes  |-> <<"size", "type">>]

\* Derived from Packet; Write calls Packet::Write first.
Derived(members, writes) ==
    [members |-> Packet.members \o members, writes |-> Packet.writes \o writes]
NeverWritten(members) ==
    [members |-> Packet.members \o members, writes |-> <<>>]
-----------------------------------------------------------------------------
cs_StartMatchingPacket ==
    Derived(Members(<<Of(4, <<"networkID">>),
                      Times(MAX_USER_NAME_LENGTH, Of(wchar_t, <<"name">>))>>),
            <<"networkID">> \o Times(MAX_USER_NAME_LENGTH, <<"name">>))

sc_ConnectRoomPacket ==
    LET UserInfo == Members(<<Of(4, <<"networkID">>),
                              Times(MAX_USER_NAME_LENGTH, Of(wchar_t, <<"name">>))>>)
    IN Derived(Times(MAX_ROOM_PLAYER, UserInfo),
               Times(MAX_ROOM_PLAYER,
                     <<"networkID">> \o Times(MAX_USER_NAME_LENGTH, <<"name">>)))

sc_AddNewItemPacket ==
    Derived(Members(<<Of(4, <<"networkID">>), Of(1, <<"slot", "itemCode">>)>>),
            <<"networkID", "slot", "itemCode">>)

cs_sc_ChangeItemSlotPacket ==
    Derived(Members(<<Of(4, <<"networkID">>), Of(1, <<"slot1", "slot2">>)>>),
            <<"networkID", "slot1", "slot2">>)

sc_UpgradeItemPacket ==
    Derived(Members(<<Of(4, <<"networkID">>), Of(1, <<"slot", "upgrade">>)>>),
            <<"networkID", "slot", "upgrade">>)

cs_sc_ChangeCharacterPacket ==
    Derived(Members(<<Of(4, <<"networkID">>), Of(1, <<"characterType">>)>>),
            <<"networkID", "characterType">>)

sc_BattleInfoPacket ==
    LET items == MAX_USING_ITEM_COUNT * BATTLE_ITEM_QUEUE_LOOP_COUNT * 2 IN
    Derived(Members(<<Times(MAX_ROOM_PLAYER, Of(4, <<"opponent">>)),
                      Times(MAX_ROOM_PLAYER,
                            Of(4, <<"networkID">>) \o Times(items, Of(1, <<"item">>)))>>),
            Times(MAX_ROOM_PLAYER, <<"opponent">>)
              \o Times(MAX_ROOM_PLAYER, <<"networkID">> \o Times(items, <<"item">>)))

cs_sc_UseEmoticonPacket ==
    Derived(Members(<<Of(4, <<"networkID">>), Of(1, <<"emoticonType">>)>>),
            <<"networkID", "emoticonType">>)

cs_sc_NotificationPacket ==
    Derived(Members(<<Of(4, <<"networkID">>), Of(1, <<"notificationType">>)>>),
            <<"networkID", "notificationType">>)

\* SlotItemInfo of every slot; Write goes through the same two arrays.
Inventory == Times(MAX_USING_ITEM_COUNT, Of(1, <<"type", "upgrade">>))
               \o Times(MAX_UN_USING_ITEM_COUNT, Of(1, <<"type", "upgrade">>))
InventoryWrites == Times(MAX_USING_ITEM_COUNT, <<"type", "upgrade">>)
                     \o Times(MAX_UN_USING_ITEM_COUNT, <<"type", "upgrade">>)

sc_UpdateCharacterInfoPacket ==
    Derived(Members(<<Of(4, <<"networkID">>), Of(2, <<"hp", "avatarHp">>),
                      Inventory>>),
            <<"networkID", "hp", "avatarHp">> \o InventoryWrites)

sc_SetReadyTimePacket == Derived(Of(1, <<"time">>), <<"time">>)

sc_SetChoiceCharacterTimePacket == Derived(Of(1, <<"time">>), <<"time">>)

cs_sc_DropItemPacket ==
    Derived(Members(<<Of(4, <<"networkID">>), Of(1, <<"index">>)>>),
            <<"networkID", "index">>)

cs_RequestCombinationItemPacket ==
    NeverWritten(Members(<<Of(4, <<"networkID">>),
                           Of(1, <<"index1", "index2", "index3">>)>>))

sc_SetItemTicketPacket ==
    Derived(Members(<<Of(4, <<"networkID">>), Of(1, <<"itemTicketType", "count">>)>>),
            <<"networkID", "itemTicketType", "count">>)

sc_ActiveItemPacket ==
    Derived(Members(<<Of(4, <<"networkID">>), Of(1, <<"slot">>)>>),
            <<"networkID", "slot">>)

sc_FadeInPacket == Derived(Of(1, <<"seconds">>), <<"seconds">>)

sc_FadeOutPacket == Derived(Of(1, <<"seconds">>), <<"seconds">>)

sc_BattleOpponentsPacket ==
    Derived(Times(MAX_ROOM_PLAYER, Of(4, <<"opponent">>)),
            Times(MAX_ROOM_PLAYER, <<"opponent">>))

sc_SetHamburgerTypePacket ==
    Derived(Members(<<Of(4, <<"networkID">>), Of(1, <<"slot", "burgerType">>)>>),
            <<"networkID", "slot", "burgerType">>)

sc_MagicStickInfoPacket ==
    Derived(Members(<<Of(4, <<"networkID">>), Of(1, <<"isDamage">>)>>),
            <<"networkID", "isDamage">>)

cs_RequestUpgradeItemPacket ==
    NeverWritten(Members(<<Of(4, <<"networkID">>), Of(1, <<"slot1", "slot2">>)>>))

sc_DoctorToolInfoPacket ==
    Derived(Members(<<Of(4, <<"networkID">>), Of(1, <<"slot", "itemType", "upgrade">>)>>),
            <<"networkID", "slot", "itemType", "upgrade">>)

sc_CreepStageInfoPacket == Derived(Of(1, <<"creepType">>), <<"creepType">>)

sc_BattleAvatarInfoPacket ==
    Derived(Members(<<
        Of(4, <<"networkID">>), Of(1, <<"playerHp">>), Of(2, <<"maxHp", "hp">>),
        Of(1, <<"firstAttackState", "offensePower">>), Of(4, <<"defensive">>),
        Of(1, <<"additionDefensive", "weakening">>), Of(2, <<"bleeding">>),
        Of(1, <<"reducedHealing", "isEffectHeal", "effectHeal", "isInstallBomb",
                "installBombDamage", "isIgnoreNextDamage", "canDefendNegativeEffect",
                "isCounterAttack", "counterAttackDamage", "isCounterHeal",
                "counterHeal">>)>>),
        <<"networkID", "playerHp", "maxHp", "hp", "firstAttackState", "offensePower",
          "defensive", "additionDefensive", "weakening", "bleeding", "reducedHealing",
          "isEffectHeal", "effectHeal", "isInstallBomb", "installBombDamage",
          "isIgnoreNextDamage", "canDefendNegativeEffect", "isCounterAttack",
          "counterAttackDamage", "isCounterHeal", "counterHeal">>)

sc_InventoryInfoPacket ==
    Derived(Members(<<Of(4, <<"networkID">>), Inventory>>),
            <<"networkID">> \o InventoryWrites)

sc_MatchingInfoPacket ==
    Derived(Members(<<Of(1, <<"matchingQueueCount">>), Of(2, <<"connectionCount">>)>>),
            <<"matchingQueueCount", "connectionCount">>)

sc_BattleTimeInfoPacket == Derived(Of(1, <<"time">>), <<"time">>)

Packets ==
    {cs_StartMatchingPacket, sc_ConnectRoomPacket, sc_AddNewItemPacket,
     cs_sc_ChangeItemSlotPacket, sc_UpgradeItemPacket, cs_sc_ChangeCharacterPacket,
     sc_BattleInfoPacket, cs_sc_UseEmoticonPacket, cs_sc_NotificationPacket,
     sc_UpdateCharacterInfoPacket, sc_SetReadyTimePacket,
     sc_SetChoiceCharacterTimePacket, cs_sc_DropItemPacket,
     cs_RequestCombinationItemPacket, sc_SetItemTicketPacket, sc_ActiveItemPacket,
     sc_FadeInPacket, sc_FadeOutPacket, sc_BattleOpponentsPacket,
     sc_SetHamburgerTypePacket, sc_MagicStickInfoPacket, cs_RequestUpgradeItemPacket,
     sc_DoctorToolInfoPacket, sc_CreepStageInfoPacket, sc_BattleAvatarInfoPacket,
     sc_InventoryInfoPacket, sc_MatchingInfoPacket, sc_BattleTimeInfoPacket}
-----------------------------------------------------------------------------
\* sizeof of the packed struct: what its constructor takes for its size.
Sizeof(packet) ==
    LET ofWidth(w) == {i \in DOMAIN packet.members : packet.members[i][2] = w}
    IN Cardinality(ofWidth(1)) + 2 * Cardinality(ofWidth(2)) + 4 * Cardinality(ofWidth(4))

(***************************************************************************)
(* Write fills exactly the struct: it passes every member once, in the     *)
(* order the client, which overlays the struct on the bytes, expects.      *)
(***************************************************************************)
WritesItsMembers(packet) ==
    \/ packet.writes = <<>>
    \/ packet.writes = [i \in DOMAIN packet.members |-> packet.members[i][1]]
=============================================================================
