------------------------------ MODULE MCStage ------------------------------
(***************************************************************************)
(* A stage with three players, two slots for items and two cycles: the     *)
(* third player fights the ghost of the first one.  The items are chosen   *)
(* so that fights end in each way: in a hit, in a counter attack, by one's *)
(* own item, by a bomb, by bleeding, both at once, or not in time; the hp  *)
(* so that a lost fight may cost the game or not.                          *)
(*                                                                         *)
(* Before that every item is used once, with each upgrade, by and against  *)
(* each of some avatars (ItemsKeepAvatars).                                *)
(***************************************************************************)
EXTENDS Stage, TLC

CONSTANTS c1, c2, c3

It(n, u)  == [type |-> n, upgrade |-> u]
Has(i, j) == [s \in Slots |-> IF s % 2 = 0 THEN i ELSE j]

Real(c)  == [client |-> c, ghost |-> FALSE]
Ghost(c) == [client |-> c, ghost |-> TRUE]

MCClient    == {c1, c2, c3}
MCPlayers   == <<c1, c2, c3>>
MCOpponents == {<<Real(c1), Real(c2), Real(c3), Ghost(c1)>>}

Strong   == Has(It(18, 2), It(15, 1))
Reckless == Has(It(14, 2), It(12, 2))
Wary     == Has(It(9, 2), It(13, 2))
Copying  == Has(It(16, 0), It(1, 0))
Bleeding == Has(It(28, 2), It(22, 2))

MCLoadouts ==
    {c1 :> Strong @@ c2 :> Reckless @@ c3 :> Reckless,
     c1 :> Wary @@ c2 :> Strong @@ c3 :> Strong,
     c1 :> Wary @@ c2 :> Bleeding @@ c3 :> Copying}

MCStartHp == {c1 :> 5 @@ c2 :> 13 @@ c3 :> 5}

Sample ==
    LET a == [SetAvatar(c1, Reckless, FALSE, Round) EXCEPT !.mEffectItemCount = 3]
    IN {a, [a EXCEPT !.mHp = 1, !.mIsIgnoreNextDamage = TRUE, !.mReducedHealing = 5],
        [a EXCEPT !.mDefensive = 7, !.mOffensePower = 2, !.mAdditionDefensive = 1],
        [a EXCEPT !.mWeakening = 9, !.mCanDefendNegativeEffect = TRUE],
        [a EXCEPT !.mHp = 4, !.mBleeding = 2, !.mHamburgerType = "Guinness"],
        [a EXCEPT !.mHamburgerType = "Rice"],
        [a EXCEPT !.mHp = 9, !.mHamburgerType = "WhiteGarlic", !.mEffectItemCount = 6]}

ASSUME ItemsKeepAvatars ==
    \A n \in 0..45, u \in 0..2, me \in Sample, you \in Sample :
        \A f \in Active(It(n, u), [me |-> me, opponents |-> you, ticket |-> 0,
                                   isValid |-> TRUE, sumTicket |-> 3]) :
            /\ f.me \in Avatar /\ f.me.mHp <= f.me.mMaxHp
            /\ f.opponents \in Avatar /\ f.opponents.mHp <= you.mHp
=============================================================================
