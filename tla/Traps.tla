-------------------------------- MODULE Traps --------------------------------
(***************************************************************************)
(* mth/features/trap_hooks and mth/core/trap_state: modifiers forced on    *)
(* for a while.  The game consults a runtime mask, which it rebuilds from  *)
(* the save's mask whenever it activates the save's cheats; a trap sets    *)
(* the bit in the runtime mask only, and lifts it when its time is up.  A  *)
(* write may be refused, and is then retried.                              *)
(*                                                                         *)
(* One frame is the game's step, tick(), and then the granter's arm().     *)
(* The game is external.                                                   *)
(***************************************************************************)
EXTENDS Naturals

CONSTANTS
    Modifier,      \* the modifiers of the trap table
    Seconds,       \* the duration of a trap, in frames
    MidTrapChoice  \* the player may turn on a modifier a trap is forcing

\* A trap lasts a frame at least.
TrapsAssumption == Seconds \in Nat \ {0} /\ MidTrapChoice \in BOOLEAN

VARIABLES
    turn,        \* "game", "tick" or "arm"
    save,        \* modifiers the player chose: the save's mask
    runtime,     \* the runtime mask
    manager,     \* the cheat manager: "idle" until a save is activated, then "usable",
                 \* or "invalid" while its fields do not read as such
    inGameplay,  \* is_gameplay_game_state
    advanced,    \* the world's clock moved in this frame
    remaining,   \* state_: frames left of each running trap, or 0
    pendingOff,  \* pending_off_: lifts that were refused
    pendingArm   \* pending_arm_: traps the console queued

trVars == <<turn, save, runtime, manager, inGameplay, advanced, remaining, pendingOff,
            pendingArm>>

Init ==
    /\ turn = "game" /\ save = {} /\ runtime = {}
    /\ manager = "idle" /\ inGameplay = FALSE /\ advanced = FALSE
    /\ remaining = [m \in Modifier |-> 0]
    /\ pendingOff = {} /\ pendingArm = {}

Usable == manager = "usable"
Running(r) == {m \in Modifier : r[m] > 0}

-----------------------------------------------------------------------------
(***************************************************************************)
(* The game's step.                                                        *)
(***************************************************************************)
\* ActivateSaveCheats: a load, a profile select, the options menu.
Rebuild ==
    /\ runtime' = save /\ manager' \in {"usable", "invalid"}
    /\ UNCHANGED <<save, inGameplay>>

\* The player turns a modifier on or off in the options menu.
Choose(m) ==
    /\ manager # "idle" /\ (m \in Running(remaining) => MidTrapChoice)
    /\ save' = IF m \in save THEN save \ {m} ELSE save \cup {m}
    /\ runtime' = save'
    /\ UNCHANGED <<manager, inGameplay>>

\* The player enters or leaves gameplay, or stays.
Moves ==
    /\ inGameplay' \in {b \in BOOLEAN : b => manager # "idle"}
    /\ manager' \in (IF manager = "idle" THEN {"idle"} ELSE {"usable", "invalid"})
    /\ UNCHANGED <<save, runtime>>

GameStep ==
    /\ turn = "game" /\ turn' = "tick"
    /\ Rebuild \/ Moves \/ \E m \in Modifier : Choose(m)
    /\ advanced' \in {b \in BOOLEAN : b => inGameplay'}
    /\ UNCHANGED <<remaining, pendingOff, pendingArm>>

-----------------------------------------------------------------------------
(***************************************************************************)
(* TrapHooks, as functions of s: the runtime mask, the countdowns and the  *)
(* refused lifts.  set_runtime_modifier writes if the manager is usable.   *)
(***************************************************************************)
Here == [mask |-> runtime, left |-> remaining, off |-> pendingOff]

\* Lifts the modifiers, or remembers them.
Lift(s, mods) ==
    IF Usable THEN [s EXCEPT !.mask = @ \ mods] ELSE [s EXCEPT !.off = @ \cup mods]

\* arm() outside gameplay, without a usable manager or over the player's own
\* choice changes nothing.
MayArm(m) == inGameplay /\ Usable /\ m \notin save

\* TrapState::arm: a second copy never shortens the first.
Extend(left, on) ==
    [m \in Modifier |-> IF m \in on /\ left[m] < Seconds THEN Seconds ELSE left[m]]

\* Seeded fault: an earlier refused lift stays in the list.
ArmOverLift(s, mods) ==
    LET on == {m \in mods : MayArm(m)}
    IN  [s EXCEPT !.mask = @ \cup on, !.left = Extend(@, on)]

\* arm, for each of the modifiers
Arm(s, mods) ==
    LET on == {m \in mods : MayArm(m)}
    IN  [mask |-> s.mask \cup on, off |-> s.off \ on, left |-> Extend(s.left, on)]

\* Seeded fault: the retry does not ask whose choice the modifier is now.
RetryAlways(s) == IF ~Usable THEN s ELSE [s EXCEPT !.mask = @ \ s.off, !.off = {}]

\* retry_pending_off
RetryPendingOff(s) ==
    IF ~Usable THEN s ELSE [s EXCEPT !.mask = @ \ (s.off \ save), !.off = {}]

\* clear()
Clear(s) == Lift([s EXCEPT !.left = [m \in Modifier |-> 0]], Running(s.left))

\* advance_frame: what ran out is lifted, what still runs is asserted again.
AdvanceFrame(s) ==
    IF ~advanced THEN s
    ELSE LET aged == [m \in Modifier |-> IF s.left[m] > 0 THEN s.left[m] - 1 ELSE 0]
             over == Running(s.left) \ Running(aged)
             l    == Lift([s EXCEPT !.left = aged], over)
         IN  IF Usable THEN [l EXCEPT !.mask = @ \cup Running(aged)] ELSE l

Becomes(s) == runtime' = s.mask /\ remaining' = s.left /\ pendingOff' = s.off

\* Seeded fault: out of gameplay a running trap is left where it is.
TickFreezes ==
    /\ turn = "tick" /\ turn' = "arm"
    /\ LET s == RetryPendingOff(Arm(Here, pendingArm))
       IN  Becomes(IF inGameplay THEN AdvanceFrame(s) ELSE s)
    /\ pendingArm' = {}
    /\ UNCHANGED <<save, manager, inGameplay, advanced>>

\* tick
Tick ==
    /\ turn = "tick" /\ turn' = "arm"
    /\ LET s == RetryPendingOff(Arm(Here, pendingArm))
       IN  Becomes(IF inGameplay THEN AdvanceFrame(s) ELSE Clear(s))
    /\ pendingArm' = {}
    /\ UNCHANGED <<save, manager, inGameplay, advanced>>

\* The granter offers the traps it has received; what is refused comes again.
Grant ==
    /\ turn = "arm" /\ turn' = "game"
    /\ \E mods \in SUBSET Modifier : Becomes(Arm(Here, mods))
    /\ UNCHANGED <<save, manager, inGameplay, advanced, pendingArm>>

\* fire_trap, on the render thread
QueueArm(m) ==
    /\ pendingArm' = pendingArm \cup {m}
    /\ UNCHANGED <<turn, save, runtime, manager, inGameplay, advanced, remaining, pendingOff>>

\* Seeded fault: a new session forgets the running traps.
SessionDrops ==
    /\ turn = "tick"
    /\ remaining' = [m \in Modifier |-> 0]
    /\ UNCHANGED <<turn, save, runtime, manager, inGameplay, advanced, pendingOff, pendingArm>>

\* clear_session_state, in the coordinator's part of the tick
SessionChanges ==
    /\ turn = "tick"
    /\ Becomes(Clear(Here))
    /\ UNCHANGED <<turn, save, manager, inGameplay, advanced, pendingArm>>

Frame == GameStep \/ Tick \/ Grant

Next == Frame \/ SessionChanges \/ \E m \in Modifier : QueueArm(m)

Spec == Init /\ [][Next]_trVars

-----------------------------------------------------------------------------
(***************************************************************************)
(* Properties.                                                             *)
(***************************************************************************)
\* A modifier that is on is one the player chose, one a running trap forces, or
\* one whose lift is being retried: none is ever stranded.  And out of gameplay
\* nothing is forced, once a tick can write.
NothingStranded ==
    /\ runtime \subseteq save \cup Running(remaining) \cup pendingOff
    /\ turn = "arm" /\ ~inGameplay /\ Usable => runtime \subseteq save

\* The mod never takes away a modifier the player chose for himself, nor one that a
\* trap goes on forcing: no older lift ends a trap armed anew.
LiftsOnlyItsOwn ==
    [][turn # "game"
         => runtime \cap (save \cup Running(remaining')) \subseteq runtime']_trVars
=============================================================================
