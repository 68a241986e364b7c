----------------------------- MODULE BossTracker -----------------------------
(***************************************************************************)
(* mth/features/boss_tracker: defeated bosses are locations, found by      *)
(* comparing the save's defeat mask with what it was a tick ago.  The game *)
(* keeps one working slot and refills it in place, so the baseline of the  *)
(* comparison must be taken again whenever the mask may be another save's. *)
(* A frame is the game's step and then poll().  The game is external.      *)
(***************************************************************************)
EXTENDS Naturals, FiniteSets

CONSTANTS
    Boss,
    Preset,    \* defeat bits a new save is born with
    WideRise   \* as many kills in one tick are no kills

\* The defeat mask has so many bits.
BossTrackerAssumption == IsFiniteSet(Boss) /\ WideRise \in Nat

VARIABLES
    turn,      \* "game" or "poll"
    bound,     \* the game has bound a slot
    mask,      \* the working slot's defeat mask
    disk,      \* the mask of the session's run as committed
    primed, prevMask,
    checked,   \* boss locations reported
    killed     \* bosses the player has beaten, in any attempt at the run

btVars == <<turn, bound, mask, disk, primed, prevMask, checked, killed>>

Init ==
    /\ turn = "game" /\ bound = FALSE /\ mask = {} /\ disk = Preset
    /\ primed = FALSE /\ prevMask = {}
    /\ checked = {} /\ killed = {}

-----------------------------------------------------------------------------
\* The title binds the slot, cleared, or lets go of it.
Title ==
    /\ bound' \in BOOLEAN /\ mask' = {}
    /\ UNCHANGED <<disk, primed, killed>>

\* Seeded fault: an activation keeps the baseline.
LoadUnnoticed ==
    /\ bound' = TRUE /\ mask' = disk
    /\ UNCHANGED <<disk, primed, killed>>

\* A real activation refills the slot and ends in on_save_loaded.
Load ==
    /\ bound' = TRUE /\ mask' = disk
    /\ primed' = FALSE
    /\ UNCHANGED <<disk, killed>>

\* The player beats the bosses, fewer than WideRise in one frame.
Kill(bosses) ==
    /\ bound /\ mask # {}
    /\ bosses \cap mask = {} /\ Cardinality(bosses) < WideRise
    /\ mask' = mask \cup bosses /\ killed' = killed \cup bosses
    /\ UNCHANGED <<bound, disk, primed>>

\* The end of the game clears the slot for the next round.
NewGamePlus ==
    /\ bound /\ mask # {}
    /\ mask' = Preset
    /\ UNCHANGED <<bound, disk, primed, killed>>

GameSaves ==
    /\ bound /\ mask # {}
    /\ disk' = mask
    /\ UNCHANGED <<bound, mask, primed, killed>>

GameStep ==
    /\ turn = "game" /\ turn' = "poll"
    /\ \/ Title \/ Load \/ NewGamePlus \/ GameSaves
       \/ \E bosses \in SUBSET Boss : Kill(bosses)
    /\ UNCHANGED <<prevMask, checked>>

Prime == primed' = TRUE /\ prevMask' = mask /\ UNCHANGED checked

\* Lost bits, or too many new ones: the contents are another save's.
Replaced == prevMask \ mask # {} \/ Cardinality(mask \ prevMask) >= WideRise

\* Seeded fault: a poll with nothing to report takes the baseline away.
PollForgetful ==
    /\ turn = "poll" /\ turn' = "game"
    /\ \/ ~bound /\ primed' = FALSE /\ UNCHANGED <<prevMask, checked>>
       \/ bound /\ (~primed \/ Replaced) /\ Prime
       \/ bound /\ primed /\ ~Replaced /\ prevMask' = mask
          /\ checked' = checked \cup (mask \ prevMask)
          /\ primed' = (mask # prevMask)
    /\ UNCHANGED <<bound, mask, disk, killed>>

\* poll; the working slot is one buffer, so its pointer never changes.
Poll ==
    /\ turn = "poll" /\ turn' = "game"
    /\ \/ ~bound /\ primed' = FALSE /\ UNCHANGED <<prevMask, checked>>
       \/ bound /\ (~primed \/ Replaced) /\ Prime
       \/ bound /\ primed /\ ~Replaced /\ prevMask' = mask
          /\ checked' = checked \cup (mask \ prevMask) /\ UNCHANGED primed
    /\ UNCHANGED <<bound, mask, disk, killed>>

Next == GameStep \/ Poll

Spec == Init /\ [][Next]_btVars

-----------------------------------------------------------------------------
(***************************************************************************)
(* Properties.                                                             *)
(***************************************************************************)
\* No boss is reported that the player has not beaten, for what a save was born
\* with or brings back is no kill; and none that he has beaten goes unreported,
\* however the baseline moves.
KillsReported ==
    /\ checked \subseteq killed
    /\ turn = "game" => killed \subseteq checked
=============================================================================
