----------------------------- MODULE Abilities -----------------------------
(***************************************************************************)
(* The gates on Mina's abilities.  A burrow is classified once, at the     *)
(* commit, so BurrowBoundaryGate watches the shoreline for a player who    *)
(* crosses it into a mode that was never granted, polling a water reading  *)
(* that flickers.  The other detours refuse a call and keep nothing.       *)
(***************************************************************************)
EXTENDS Naturals

CONSTANTS
    WaterConfirmTicks,          \* kWaterConfirmTicks
    BurrowConfirmGraceTicks     \* kBurrowConfirmGraceTicks

\* A commit that is applied a frame late is not seen burrowing by one tick.
AbilitiesAssumption ==
    WaterConfirmTicks \in Nat \ {0} /\ BurrowConfirmGraceTicks \in Nat \ {0, 1}

Ability == {"Burrow", "Swim"}

VARIABLES
    \* The game: the player, the state she is in, the commit her state machine has
    \* not applied yet (1, or 2 once a tick has seen it), and where she is.
    player, mode, late, deep,
    \* The water reading: how long it has been wrong; whether one of the readings
    \* that agree was right.
    wrong, real,
    jumpHooked,                 \* Mina::OnBurrowJump was resolved and hooked
    enforce, granted,           \* AbilityHooks::enforce_, the received abilities
    lastPlayer,                 \* last_player_ is the player there is
    armed, lastDeep, confirmed, notBurrowing,   \* BurrowBoundaryGate
    \* For the properties: the burrow began at a gated commit; the polls since then
    \* that read an ungranted mode rightly and in a row.
    gated, trespass

gameVars == <<player, mode, late, deep>>
gateVars == <<armed, lastDeep, confirmed, notBurrowing>>
ghostVars == <<wrong, real, gated, trespass>>
vars == <<gameVars, gateVars, ghostVars, jumpHooked, enforce, granted, lastPlayer>>

Init ==
    /\ player = FALSE /\ mode = "foot" /\ late = 0 /\ deep = FALSE
    /\ wrong = 0 /\ real = FALSE
    /\ jumpHooked \in BOOLEAN
    /\ enforce = FALSE /\ granted = {} /\ lastPlayer = FALSE
    /\ armed = "None" /\ lastDeep = FALSE /\ confirmed = 0 /\ notBurrowing = 0
    /\ gated = FALSE /\ trespass = 0

Blocked(a) == enforce /\ a \notin granted
ModeAt(d) == IF d THEN "Swim" ELSE "Burrow"

-----------------------------------------------------------------------------
(* The game *)

\* A commit the gate allows; the player's own is applied at once, one requested by
\* another entity's state machine a frame later.
SetBurrowGround ==
    /\ player /\ mode = "foot" /\ late = 0
    /\ ~Blocked(ModeAt(deep))
    /\ \/ mode' = "burrow" /\ late' = 0
       \/ mode' = "foot" /\ late' = 1
    /\ armed' = ModeAt(deep) /\ lastDeep' = deep
    /\ confirmed' = WaterConfirmTicks /\ notBurrowing' = 0
    /\ gated' = (enforce /\ lastPlayer) /\ real' = TRUE /\ trespass' = 0
    /\ UNCHANGED <<player, deep, wrong, jumpHooked, enforce, granted, lastPlayer>>

\* Entrances that are part of the level go through another function.
SetBurrowInObject ==
    /\ player /\ mode = "foot" /\ late = 0
    /\ mode' = "burrow" /\ gated' = FALSE /\ trespass' = 0
    /\ UNCHANGED <<player, late, deep, gateVars, wrong, real,
                   jumpHooked, enforce, granted, lastPlayer>>

CommitApplies ==
    /\ late > 0 /\ late' = 0 /\ mode' = "burrow"
    /\ UNCHANGED <<player, deep, gateVars, ghostVars, jumpHooked,
                   enforce, granted, lastPlayer>>

\* Under something she could carry, with Carry blocked, she stays burrowed.
BurrowJump ==
    /\ mode = "burrow"
    /\ mode' = "foot" /\ gated' = FALSE /\ trespass' = 0
    /\ armed' = IF jumpHooked THEN "None" ELSE armed
    /\ UNCHANGED <<player, late, deep, lastDeep, confirmed, notBurrowing,
                   wrong, real, jumpHooked, enforce, granted, lastPlayer>>

\* Damage and most other ends of a burrow, a fall included, pass no hook.
ModeEnds ==
    /\ mode # "foot"
    /\ mode' = "foot" /\ gated' = FALSE /\ trespass' = 0
    /\ UNCHANGED <<player, late, deep, gateVars, wrong, real,
                   jumpHooked, enforce, granted, lastPlayer>>

Moves ==
    /\ player /\ deep' = ~deep
    /\ UNCHANGED <<player, mode, late, gateVars, ghostVars, jumpHooked,
                   enforce, granted, lastPlayer>>

\* The player is made again, at the same address perhaps, with or without a new world.
Comes ==
    /\ ~player /\ player' = TRUE
    /\ UNCHANGED <<mode, late, deep, gateVars, ghostVars, jumpHooked,
                   enforce, granted, lastPlayer>>

Goes(destroyed) ==
    /\ player /\ player' = FALSE /\ mode' = "foot" /\ late' = 0
    /\ gated' = FALSE /\ trespass' = 0 /\ lastPlayer' = FALSE
    /\ armed' = IF destroyed THEN "None" ELSE armed
    /\ UNCHANGED <<deep, lastDeep, confirmed, notBurrowing, wrong, real, jumpHooked,
                   enforce, granted>>

GameStep ==
    \/ SetBurrowGround \/ SetBurrowInObject \/ CommitApplies \/ BurrowJump \/ ModeEnds
    \/ Moves \/ Comes \/ Goes(TRUE) \/ Goes(FALSE)

-----------------------------------------------------------------------------
(* The session *)

SetEnforce ==
    /\ enforce' = ~enforce
    /\ UNCHANGED <<gameVars, gateVars, wrong, real, gated, jumpHooked, granted, lastPlayer>>
    /\ trespass' = 0

ItemReceived ==
    /\ \E a \in Ability \ granted : granted' = granted \cup {a}
    /\ UNCHANGED <<gameVars, gateVars, ghostVars, jumpHooked, enforce, lastPlayer>>

-----------------------------------------------------------------------------
(* The tick *)

\* One more right reading of an ungranted mode, or an end of the streak.
Streak == IF gated /\ mode = "burrow" /\ Blocked(ModeAt(deep))
          THEN IF trespass = WaterConfirmTicks THEN trespass ELSE trespass + 1
          ELSE 0

\* Seeded fault: one reading outside the burrow drops the arm.
ArmAfterAny(n) == IF n >= 1 THEN "None" ELSE armed

\* observe_burrowing: the arm this poll leaves, given how many polls were not burrowing.
ArmAfter(n) == IF n >= BurrowConfirmGraceTicks THEN "None" ELSE armed

\* A tick with another player than last time, or without one.
OtherPlayer ==
    /\ ~(player /\ lastPlayer)
    /\ lastPlayer' = player /\ armed' = "None"
    /\ UNCHANGED <<gameVars, lastDeep, confirmed, notBurrowing, wrong, real, trespass,
                   jumpHooked, enforce, granted>>
    /\ gated' = FALSE

\* A tick in which the gate looks at the player and not at the water.
ObserveOnly ==
    /\ player /\ lastPlayer /\ late < 2
    /\ LET n == IF mode = "burrow" THEN 0 ELSE notBurrowing + 1
       IN  /\ armed' = ArmAfter(n)
           /\ notBurrowing' = IF n > BurrowConfirmGraceTicks THEN BurrowConfirmGraceTicks ELSE n
           /\ mode # "burrow" \/ ~enforce \/ armed' = "None"
    /\ late' = IF late = 1 THEN 2 ELSE late
    /\ trespass' = Streak
    /\ UNCHANGED <<player, mode, deep, lastDeep, confirmed, wrong, real, gated,
                   jumpHooked, enforce, granted, lastPlayer>>

Polled == player /\ lastPlayer /\ mode = "burrow" /\ enforce /\ armed # "None"

\* Seeded fault: a missing reading is skipped.
UnreadSkipped == confirmed

\* The confirmations a missing reading leaves.
Unread == 0

\* No WaterListener to read.
ReadingUnavailable ==
    /\ Polled /\ confirmed' = Unread /\ notBurrowing' = 0
    /\ wrong' = 0 /\ real' = FALSE /\ trespass' = 0
    /\ UNCHANGED <<gameVars, armed, lastDeep, gated, jumpHooked, enforce, granted, lastPlayer>>

\* A reading d of the water, which agrees with where the player is unless it flickers,
\* and what the gate does about it: nothing, a change of mode, a fall, an emerge.
Observe(d) ==
    LET c == IF d # lastDeep THEN 1 ELSE IF confirmed < WaterConfirmTicks THEN confirmed + 1 ELSE confirmed
        crossed == c = WaterConfirmTicks /\ armed # ModeAt(d)
        acts == crossed /\ Blocked(ModeAt(d))
    IN  /\ Polled
        /\ d = deep \/ wrong < WaterConfirmTicks - 1
        /\ lastDeep' = d /\ confirmed' = c /\ notBurrowing' = 0
        /\ wrong' = IF d = deep THEN 0 ELSE wrong + 1
        /\ real' = (d = deep \/ (d = lastDeep /\ real))
        /\ armed' = IF acts THEN "None" ELSE IF crossed THEN ModeAt(d) ELSE armed
        /\ mode' = IF ~acts THEN mode ELSE IF d THEN "fall" ELSE IF jumpHooked THEN "surface" ELSE mode
        /\ gated' = (gated /\ mode' = "burrow")
        /\ trespass' = IF mode' = "burrow" /\ d = deep THEN Streak ELSE 0
        /\ UNCHANGED <<player, late, deep, jumpHooked, enforce, granted, lastPlayer>>

\* In a paused world the gate holds what it has: a frozen reading is no confirmation.
Tick == OtherPlayer \/ ObserveOnly \/ ReadingUnavailable \/ \E d \in BOOLEAN : Observe(d)

Next == GameStep \/ SetEnforce \/ ItemReceived \/ Tick
Spec == Init /\ [][Next]_vars

-----------------------------------------------------------------------------
(* Properties *)

\* Nobody goes on in a mode that was not granted: a burrow that began at a gated
\* commit and crossed the shore ends within WaterConfirmTicks right readings.  Where
\* Mina::OnBurrowJump is not hooked there is no function to surface her with.
TrespassEnds == trespass >= WaterConfirmTicks => ~jumpHooked

\* A flickering reading alone punishes nobody: who is dropped into the water or
\* surfaced was really where one of the agreeing readings put her.
FallsAreDeserved == mode \in {"fall", "surface"} => real

\* The shoreline ends what was not granted, and nothing else.
ShorelineHolds == TrespassEnds /\ FallsAreDeserved
=============================================================================
