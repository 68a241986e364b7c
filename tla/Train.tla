------------------------------- MODULE Train -------------------------------
(***************************************************************************)
(* The train of a seed that randomizes it (#98, #162).  The game unlocks a *)
(* line when its station is visited and sells the pass at a donation       *)
(* machine; the mod clamps the lines to the received tickets, cancels a    *)
(* pick the clamp was too late for, and keeps a machine that is no check   *)
(* from taking a donation.                                                 *)
(***************************************************************************)
EXTENDS Naturals

CONSTANTS
    Line,           \* the lines a ticket opens; the hub needs none
    WalkInterval    \* kWalkIntervalTicks

TrainAssumption == WalkInterval \in Nat

VARIABLES
    authed, tickets, passReceived, donated,     \* ApState, RandoBridge::is_checked
    machineCheck,                               \* the seed has the machine's location
    trainGate, trainMask, machineBlocked,       \* g_train_rando_gate, g_train_granted_mask,
    suppress, enforceBound,                     \* the pickup's backstop; AbilityHooks
    cooldown,                                   \* TicketMachineGate
    bound, passOwned, lines, seeded,            \* the live save, and whether AP's
    inRoom, machine, boxes,                     \* the room: player, machine, an open menu
    ride, openFor   \* for the properties: the last gated ride; ticks the machine prompted

sessionVars == <<authed, tickets, passReceived, donated, machineCheck>>
hookVars == <<trainGate, trainMask, machineBlocked, suppress, enforceBound, cooldown>>
saveVars == <<bound, passOwned, lines, seeded>>
roomVars == <<inRoom, machine, boxes>>
vars == <<sessionVars, hookVars, saveVars, roomVars, ride, openFor>>

Init ==
    /\ authed = FALSE /\ tickets = {} /\ passReceived = FALSE /\ donated = FALSE
    /\ machineCheck \in BOOLEAN
    /\ trainGate = FALSE /\ trainMask = {} /\ machineBlocked = FALSE
    /\ suppress = FALSE /\ enforceBound = FALSE /\ cooldown = 0
    /\ bound = TRUE /\ passOwned = FALSE /\ lines = {} /\ seeded = FALSE
    /\ inRoom = FALSE /\ machine = "none" /\ boxes = {} /\ ride = "none" /\ openFor = 0

-----------------------------------------------------------------------------
(* The session *)

ItemReceived ==
    /\ authed
    /\ \/ \E l \in Line \ tickets : tickets' = tickets \cup {l} /\ UNCHANGED passReceived
       \/ passReceived' = TRUE /\ UNCHANGED tickets
    /\ UNCHANGED <<authed, donated, machineCheck, hookVars, saveVars, roomVars, ride, openFor>>

\* Items::OnPickupDone, for the granted pass.
PassGranted ==
    /\ passReceived /\ authed /\ bound /\ passOwned' = TRUE
    /\ UNCHANGED <<sessionVars, hookVars, bound, lines, seeded, roomVars, ride, openFor>>

-----------------------------------------------------------------------------
(* The game *)

\* At the title a run is opened, the bound one or a save of the player's own.
OpenRun ==
    /\ ~inRoom /\ machine = "none"
    /\ bound' \in BOOLEAN /\ passOwned' = FALSE /\ lines' = {} /\ seeded' = FALSE
    /\ UNCHANGED <<sessionVars, hookVars, roomVars, ride, openFor>>

\* Another world: its machine prompts, and the player comes to it some ticks later.
EnterRoom ==
    /\ inRoom' = FALSE /\ machine' \in {"none", "live"} /\ boxes' = {}
    /\ cooldown' = 0 /\ openFor' = 0
    /\ UNCHANGED <<sessionVars, trainGate, trainMask, machineBlocked, suppress, enforceBound,
                   saveVars, ride>>

PlayerComes ==
    /\ ~inRoom /\ inRoom' = TRUE
    /\ UNCHANGED <<sessionVars, hookVars, saveVars, machine, boxes, ride, openFor>>

\* A visited station unlocks its line.
Footfall ==
    /\ inRoom /\ \E l \in Line : lines' = lines \cup {l}
    /\ UNCHANGED <<sessionVars, hookVars, bound, passOwned, seeded, roomVars, ride, openFor>>

\* ShopMenu::SetupBoxes, with the mask patched to leave only the hub unconditional.
OpenMenu ==
    /\ inRoom /\ boxes' = lines
    /\ UNCHANGED <<sessionVars, hookVars, saveVars, inRoom, machine, ride, openFor>>

\* Seeded fault: the menu's boxes are trusted.
DestinationShown(l) == FALSE

\* train_destination_blocked, on the published gate.
DestinationBlocked(l) == trainGate /\ l \notin trainMask

\* A pick of the menu: a blocked one is turned into Exit.
PickDestination ==
    /\ inRoom /\ boxes' = {}
    /\ \E l \in boxes :
         /\ ~DestinationBlocked(l)
         /\ ride' = IF authed THEN l ELSE "none"
    /\ UNCHANGED <<sessionVars, hookVars, saveVars, inRoom, machine, openFor>>

\* The machine's goal is reached and Items::OnPickup called for the pass: a check is
\* sent instead of it, the backstop refuses it, or the player has it.
Donate ==
    /\ inRoom /\ machine = "live"
    /\ donated' = (donated \/ machineCheck)
    /\ passOwned' = (passOwned \/ ~(machineCheck \/ machineBlocked))
    /\ UNCHANGED <<authed, tickets, passReceived, machineCheck, hookVars, bound, lines, seeded,
                   roomVars, ride, openFor>>

GameStep ==
    \/ OpenRun \/ EnterRoom \/ PlayerComes \/ Footfall \/ OpenMenu \/ PickDestination \/ Donate

-----------------------------------------------------------------------------
(* The mod *)

\* Seeded fault: the machine's prompt is all there is to refuse.
BlocksNothing(on) == FALSE

\* Whether the pickup of the machine's pass is refused.
BlocksMachine(on) == on /\ ~machineCheck

\* HookManager::tick, after the drain of the session's events.
Tick ==
    /\ authed' \in BOOLEAN
    /\ trainGate' = authed' /\ trainMask' = tickets
    /\ machineBlocked' = BlocksMachine(authed')
    /\ suppress' = (~machineCheck \/ donated)
    /\ enforceBound' = (authed' /\ bound)
    /\ UNCHANGED <<tickets, passReceived, donated, machineCheck, cooldown, saveVars, roomVars, ride>>
    /\ openFor' = IF authed' /\ suppress' THEN openFor ELSE 0

\* Seeded fault: the cooldown waits for the next world.
CountedNever == cooldown

\* A tick of a walk that is not due.
Counted == cooldown - 1

\* TicketMachineGate::tick: the walk disables every machine it finds.  The cooldown is
\* charged whether or not there was a player to find them through.
MachineTick ==
    /\ cooldown' = IF cooldown > 0 THEN Counted ELSE WalkInterval
    /\ machine' = IF cooldown = 0 /\ inRoom /\ machine = "live" THEN "off" ELSE machine
    /\ openFor' = IF inRoom /\ machine' = "live"
                  THEN IF openFor > WalkInterval THEN openFor ELSE openFor + 1 ELSE 0

\* AbilityHooks::enforce_train_tick.
EnforceTrainTick ==
    /\ trainGate /\ lines' = trainMask
    /\ IF suppress
       THEN MachineTick /\ UNCHANGED seeded
       ELSE seeded' = (seeded \/ enforceBound) /\ UNCHANGED <<cooldown, machine, openFor>>
    /\ UNCHANGED <<sessionVars, trainGate, trainMask, machineBlocked, suppress, enforceBound,
                   bound, passOwned, inRoom, boxes, ride>>

Next == ItemReceived \/ PassGranted \/ GameStep \/ Tick \/ EnforceTrainTick
Spec == Init /\ [][Next]_vars

-----------------------------------------------------------------------------
(* Properties *)

\* Nobody rides to a line without its ticket in a session that gates it, even when the
\* menu was opened after the visit that unlocked the line and before the clamp.  The
\* pass is not had from a machine that is no check, even while it still prompts; and it
\* stops prompting within one interval of ticks of the player's arrival.
TravelIsGranted ==
    /\ [](ride \in tickets \cup {"none"} /\ openFor <= WalkInterval)
    /\ [][passOwned' /\ ~passOwned /\ authed => passReceived]_vars

\* The mod writes durable fields of the bound save only: no line is taken from a run
\* of the player's own.
OwnLinesKept == [][~bound /\ ~bound' /\ inRoom => lines \subseteq lines']_vars
=============================================================================
