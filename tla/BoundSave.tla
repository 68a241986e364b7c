------------------------------ MODULE BoundSave ------------------------------
(***************************************************************************)
(* mth/features/modifier_hooks, the enforcement in mth/app/hook_manager    *)
(* and the weapon clamp of pal/game_train: which save the mod may rewrite. *)
(* The seed of a load captures the slot index of the session's game, the   *)
(* tick records it in the session's AP state, and the durable writes wait  *)
(* until the two agree.  Those modelled are the clamp of the weapons to    *)
(* what was received and the demotion of the intro's weapon chest.  The    *)
(* vendor lockout, which is latched for a load, is modelled with them.     *)
(*                                                                         *)
(* One frame is the game's step, drain() in World::Update, and drive_tick, *)
(* which begins with the coordinator's events.  The game is external; it   *)
(* is launched through SaveTakeover, always on the same slot, except that  *)
(* a quick player opens a file of his own before the mod is loaded.        *)
(***************************************************************************)
EXTENDS Naturals, Sequences

CONSTANTS
    Session, None, Vanilla,
    Starter,    \* the weapon the intro hands out
    Stream,     \* the weapons each session's server sends
    Drops,      \* the connection may drop between the claim and the load
    MidRun      \* a session may be joined under a run that is not its own

\* Neither having no run nor the player's own file is a session.
BoundSaveAssumption ==
    /\ None \notin Session /\ Vanilla \notin Session /\ None # Vanilla
    /\ Drops \in BOOLEAN /\ MidRun \in BOOLEAN

VARIABLES
    turn,        \* "game", "drain" or "tick"
    authed, session,
    received,    \* how much of the stream has arrived
    attached,    \* save_state_ belongs to the session
    slotKnown,   \* its game_slot() is known
    captured,    \* ap_slot_ is known
    live,        \* enforce_live_ and ap_scoped_
    claim,       \* the session whose launch is under way, or None
    run,         \* the working slot: whose, its weapons, the forced modifiers
    chest,       \* the intro's weapon chest: "ahead", "starter", "change" or "none"
    chestArmed,  \* IntroChestGate::armed_
    lockout,     \* vendor_lockout_
    disk         \* each session's container: a run or None, and the slot

bsVars == <<turn, authed, session, received, attached, slotKnown, captured, live, claim, run,
            chest, chestArmed, lockout, disk>>

NoRun      == [of |-> None, weapons |-> {}, baseline |-> FALSE]
NewRun(s)  == [of |-> s, weapons |-> {}, baseline |-> FALSE]
OwnFile    == [of |-> Vanilla, weapons |-> {Starter}, baseline |-> FALSE]

Init ==
    /\ turn = "game" /\ authed = FALSE /\ session = None /\ received = 0
    /\ attached = FALSE /\ slotKnown = FALSE /\ captured = FALSE /\ live = FALSE
    /\ claim = None /\ run \in {NoRun, OwnFile}
    /\ chest = "none" /\ chestArmed = FALSE /\ lockout = FALSE
    /\ disk = [s \in Session |-> [run |-> NewRun(s), known |-> FALSE]]

netVars == <<authed, session, received>>
modVars == <<attached, slotKnown, captured, live, chestArmed>>

-----------------------------------------------------------------------------
(***************************************************************************)
(* The game's step.                                                        *)
(***************************************************************************)
\* The title gate and SaveTakeover::begin
StartGame ==
    /\ run = NoRun /\ claim = None /\ authed
    /\ claim' = session
    /\ UNCHANGED <<captured, run, chest, lockout, disk>>

\* Seeded fault: a load does not capture the slot.
SeedUncaptured(r) ==
    /\ run' = [r EXCEPT !.baseline = @ \/ live]
    /\ UNCHANGED captured

\* ModifierHooks::seed, on the mask of the slot that is loaded; every launch uses
\* the same slot, so the captured one is never another.
Seed(r) ==
    /\ run' = [r EXCEPT !.baseline = @ \/ live]
    /\ captured' = (captured \/ live)

\* The launch of the claimed run, a new one some rooms before the weapon
\* chest.  A load is the lockout's only reset.
GameLoads ==
    /\ claim # None /\ claim' = None
    /\ Seed(disk[claim].run)
    /\ chest' \in (IF disk[claim].run = NewRun(claim) THEN {"ahead"} ELSE {"none"})
    /\ lockout' = FALSE
    /\ UNCHANGED disk

\* A takeover that gives up returns to the title.
LaunchFails ==
    /\ claim # None /\ claim' = None
    /\ UNCHANGED <<captured, run, chest, lockout, disk>>

QuitToTitle ==
    /\ run # NoRun
    /\ run' = NoRun /\ chest' = "none"
    /\ UNCHANGED <<captured, claim, lockout, disk>>

ReachChest ==
    /\ chest = "ahead" /\ chest' = "starter"
    /\ UNCHANGED <<captured, claim, run, lockout, disk>>

\* The intro hands out a weapon, or the player arms one that he owns.
OpenChest ==
    /\ chest \in {"starter", "change"}
    /\ run' = IF chest = "starter" THEN [run EXCEPT !.weapons = @ \cup {Starter}] ELSE run
    /\ chest' = "none"
    /\ UNCHANGED <<captured, claim, lockout, disk>>

\* SaveTakeover::flush: the run is committed with the AP state.
GameSaves ==
    /\ run.of = session /\ attached
    /\ disk' = [disk EXCEPT ![session] = [run |-> run, known |-> slotKnown]]
    /\ UNCHANGED <<captured, claim, run, chest, lockout>>

GameStep ==
    /\ turn = "game" /\ turn' = "drain"
    /\ \/ StartGame \/ GameLoads \/ LaunchFails \/ QuitToTitle \/ ReachChest \/ OpenChest
       \/ GameSaves
       \/ UNCHANGED <<captured, claim, run, chest, lockout, disk>>
    /\ UNCHANGED <<netVars, attached, slotKnown, live, chestArmed>>

\* IntroChestGate::tick
DemoteChest == chest' = IF chest = "starter" /\ chestArmed THEN "change" ELSE chest

\* Seeded fault: the gate is armed before a weapon has been granted.
DrainAtOnce ==
    /\ turn = "drain" /\ turn' = "tick"
    /\ chest' = IF chest = "starter" /\ authed /\ attached THEN "change" ELSE chest
    /\ lockout' = (lockout \/ authed)
    /\ UNCHANGED <<netVars, attached, slotKnown, captured, live, claim, run, chestArmed, disk>>

\* Seeded fault: the vendors are locked only while connected.
DrainUnlatched ==
    /\ turn = "drain" /\ turn' = "tick"
    /\ DemoteChest
    /\ lockout' = authed
    /\ UNCHANGED <<netVars, attached, slotKnown, captured, live, claim, run, chestArmed, disk>>

\* drain: the vendor gate latches the lockout, then the intro gate runs.
Drain ==
    /\ turn = "drain" /\ turn' = "tick"
    /\ DemoteChest
    /\ lockout' = (lockout \/ authed)
    /\ UNCHANGED <<netVars, attached, slotKnown, captured, live, claim, run, chestArmed, disk>>

-----------------------------------------------------------------------------
(***************************************************************************)
(* drive_tick.                                                             *)
(***************************************************************************)
\* Whose run the connection finds: a run of another is left for the title first,
\* unless nothing is known of this session's slot.
MayJoin(s) ==
    MidRun \/ (claim \in {s, None} /\ run.of \in {s, None})
           \/ (run.of = Vanilla /\ ~captured /\ ~disk[s].known)

\* A session other than the last one starts clean; set_ap_slot(-1) changes nothing.
Authenticate(s) ==
    /\ turn = "tick" /\ ~authed /\ MayJoin(s)
    /\ authed' = TRUE /\ session' = s
    /\ IF session \in {s, None} THEN UNCHANGED <<received, attached, slotKnown>>
       ELSE received' = 0 /\ attached' = FALSE /\ slotKnown' = FALSE
    /\ UNCHANGED <<turn, captured, live, chestArmed, claim, run, chest, lockout, disk>>

Disconnected ==
    /\ turn = "tick" /\ authed /\ (claim # None => Drops)
    /\ authed' = FALSE
    /\ UNCHANGED <<turn, session, received, modVars, claim, run, chest, lockout, disk>>

ItemReceived ==
    /\ turn = "tick" /\ authed /\ received < Len(Stream[session])
    /\ received' = received + 1
    /\ UNCHANGED <<turn, authed, session, modVars, claim, run, chest, lockout, disk>>

\* WeaponTally
Authorized ==
    IF session = None THEN {} ELSE {Stream[session][i] : i \in 1..received}

\* Seeded fault: the writes do not wait for the bound save.
SlotOkAlways == TRUE

\* slot_ok of HookManager::tick
SlotOk == ~authed \/ (attached /\ slotKnown /\ captured)

\* Seeded fault: an empty tally clamps as well.
ClampEmpty == IF authed /\ SlotOk THEN [run EXCEPT !.weapons = Authorized] ELSE run

\* enforce_weapon_ownership: a tally that has not arrived deletes nothing.
Clamped ==
    IF authed /\ SlotOk /\ (Authorized # {} \/ run.weapons = {})
    THEN [run EXCEPT !.weapons = Authorized] ELSE run

\* hooks_->tick, ensure_inbound_ready, and the capture recorded at the end
Tick ==
    /\ turn = "tick" /\ turn' = "game"
    /\ live' = authed
    /\ run' = IF run = NoRun THEN run ELSE Clamped
    /\ chestArmed' = (authed /\ SlotOk /\ Authorized # {})
    /\ attached' = (attached \/ authed)
    /\ LET restored == IF attached THEN slotKnown ELSE authed /\ disk[session].known
       IN  /\ captured' = (captured \/ (~attached /\ restored))
           /\ slotKnown' = (restored \/ (attached' /\ captured'))
    /\ UNCHANGED <<netVars, claim, chest, lockout, disk>>

\* The process ends; the next one may find a file of the player's own open.
Restart ==
    /\ turn' = "game" /\ authed' = FALSE /\ session' = None /\ received' = 0
    /\ attached' = FALSE /\ slotKnown' = FALSE /\ captured' = FALSE /\ live' = FALSE
    /\ claim' = None /\ run' \in {NoRun, OwnFile}
    /\ chest' = "none" /\ chestArmed' = FALSE /\ lockout' = FALSE
    /\ UNCHANGED disk

Next == GameStep \/ Drain \/ Tick \/ Disconnected \/ ItemReceived \/ Restart
        \/ \E s \in Session : Authenticate(s)

Spec == Init /\ [][Next]_bsVars

-----------------------------------------------------------------------------
(***************************************************************************)
(* Properties.                                                             *)
(***************************************************************************)
\* The durable writes touch the run of the session they are made for, and not the
\* player's own file or another session's run.  They never take the last weapon, and
\* where the intro's chest is demoted there is a weapon to arm.
OnlyBoundSave ==
    /\ [][turn = "tick" /\ run'.of = run.of /\ run'.weapons # run.weapons
            => run.of = session /\ run'.weapons # {}]_bsVars
    /\ [](turn = "game" /\ chest = "change" => run.weapons # {})

\* Once ticked, a session's own run has the forced modifiers and is enforced; once
\* drained, it stays locked out of the vendors through every disconnect.
RunsAreBound ==
    /\ turn = "game" /\ authed /\ live /\ run.of = session => run.baseline /\ SlotOk
    /\ turn = "tick" /\ run.of \in Session => lockout
=============================================================================
