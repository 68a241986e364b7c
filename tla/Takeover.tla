------------------------------ MODULE Takeover ------------------------------
(***************************************************************************)
(* mth/features/save_takeover and mth/core/save/takeover_state: starting   *)
(* the game on the session's own save.  Confirming Start Game claims the   *)
(* launch; the mod then waits for the profile-select menu, stages its save *)
(* into a vanilla slot, drives the menu into its launch state and waits    *)
(* for gameplay, all with the player's input swallowed.                    *)
(*                                                                         *)
(* One frame is: the game's step, with the input it was allowed to see;    *)
(* tick(), after Game::FixedUpdate; on_world_update_end().  What the game  *)
(* does in its step is external, modelled from the states this code asks   *)
(* it for and reads from it.                                               *)
(***************************************************************************)
EXTENDS Naturals

CONSTANTS
    Session,              \* the (seed, slot) pairs
    None, Vanilla, Blank, \* no session or save; the player's own; a cleared slot
    MaxFramesPerStep,     \* kMaxFramesPerStep
    MaxInputBlockFrames   \* kMaxInputBlockFrames

\* The player's own file is no session's, having no menu is no state of it, and both
\* bounds are counts of frames.
TakeoverAssumption ==
    /\ Vanilla \notin Session /\ None \notin {"animate", "browse", "launch", "back"}
    /\ MaxFramesPerStep \in Nat /\ MaxInputBlockFrames \in Nat

VARIABLES
    turn,        \* what comes next in the frame: "game", "tick" or "world"
    session,     \* the session ApState was last authenticated for
    connected,   \* its phase is Connected
    step, frames,      \* step_ and frames_in_step_
    claim,       \* seed_ and slot_
    blocked, budget,   \* input_block_: blocked_ and frames_
    screen,      \* the game: "title", "opening", "profile" or "play"
    menu,        \* the profile-select menu's state, or None
    request,     \* the state requested of it, or None
    chosen,      \* the slot it launches: Vanilla or the claim's
    run,         \* what the working slot holds
    saved,       \* what the store holds for each session
    writes,      \* the game's own save writes are enabled
    console      \* `savetest flush` is past its check on the render thread

claimVars == <<step, frames, claim, blocked, budget>>
gameVars  == <<screen, menu, request, chosen, run>>
tkVars == <<turn, session, connected, claimVars, gameVars, saved, writes, console>>

Settled(s) == s \in {"Idle", "Running", "Failed"}
InGameplay == screen = "play"
OnProfileSelect == screen = "profile"

Init ==
    /\ turn = "game" /\ session = None /\ connected = FALSE
    /\ step = "Idle" /\ frames = 0 /\ claim = None
    /\ blocked = FALSE /\ budget = 0
    /\ screen = "title" /\ menu = None /\ request = None
    /\ chosen = Vanilla /\ run = Blank
    /\ saved = [s \in Session |-> None]
    /\ writes = TRUE /\ console = FALSE

-----------------------------------------------------------------------------
(***************************************************************************)
(* InputBlockState.                                                        *)
(***************************************************************************)
\* Seeded fault: a takeover that gave up returns the input at once.
BlockUnlessSettled(s, onProfileSelect, count) ==
    count <= MaxInputBlockFrames /\ s \in {"AwaitingMenu", "Launching"}

\* block_game_input
BlockGameInput(s, onProfileSelect, count) ==
    /\ count <= MaxInputBlockFrames
    /\ s \in {"AwaitingMenu", "Launching"} \/ (s = "Failed" /\ onProfileSelect)

\* Seeded fault: the frames spent in a failed takeover are not counted.
AdvanceInFlight(s, onProfileSelect, count) ==
    /\ blocked' = BlockGameInput(s, onProfileSelect, count)
    /\ budget' = IF blocked' /\ ~Settled(s) THEN count + 1 ELSE count

\* InputBlockState::advance, from update_input_block: the flag the input hooks
\* read follows blocked at once.
Advance(s, onProfileSelect, count) ==
    /\ blocked' = BlockGameInput(s, onProfileSelect, count)
    /\ budget' = IF blocked' THEN count + 1 ELSE count

-----------------------------------------------------------------------------
(***************************************************************************)
(* The game's step.                                                        *)
(***************************************************************************)
\* TitleGate's suppress function, without the claim.
Suppressed == ~connected

\* begin: a new claim unless one is in flight.
Begin ==
    IF Settled(step)
    THEN /\ claim' = session /\ step' = "AwaitingMenu" /\ frames' = 0
         /\ writes' = FALSE
         /\ Advance("AwaitingMenu", FALSE, 0)
    ELSE UNCHANGED <<claimVars, writes>>

\* Start Game runs only when connected and claimed.
StartGame ==
    /\ screen = "title" /\ ~blocked /\ ~Suppressed
    /\ Begin
    /\ screen' = "opening" /\ menu' = None /\ request' = None
    /\ UNCHANGED <<session, connected, chosen, run, saved, console>>

\* The cinematic shows profile-select, animates the menu in, and lets it browse.
MenuOpens ==
    /\ \/ screen = "opening" /\ menu' = "animate"
       \/ screen = "profile" /\ menu = "animate" /\ request = None /\ menu' = "browse"
    /\ screen' = "profile"
    /\ UNCHANGED <<session, connected, claimVars, request, chosen, run, saved, writes, console>>

\* A confirm or a cancel that reaches the browsing menu, which is live for some
\* frames even with a request pending.
PlayerOpensFile ==
    /\ menu = "browse" /\ ~blocked
    /\ menu' = "launch" /\ request' = None /\ chosen' = Vanilla
    /\ UNCHANGED <<session, connected, claimVars, screen, run, saved, writes, console>>

PlayerGoesBack ==
    /\ menu = "browse" /\ ~blocked
    /\ menu' = "back"
    /\ UNCHANGED <<session, connected, claimVars, screen, request, chosen, run, saved, writes,
                   console>>

\* The menu enters the state that was requested of it.
MenuFollows ==
    /\ menu # None /\ request # None
    /\ menu' = request /\ request' = None
    /\ UNCHANGED <<session, connected, claimVars, screen, chosen, run, saved, writes, console>>

\* Its launch state copies the chosen file over the working slot and starts it;
\* its back state returns to the title.
MenuLeaves ==
    /\ \/ menu = "launch" /\ screen' = "play" /\ run' = chosen
       \/ menu = "back" /\ screen' = "title" /\ run' = run
    /\ menu' = None /\ request' = None
    /\ UNCHANGED <<session, connected, claimVars, chosen, saved, writes, console>>

\* Returning to the title clears the working slot.
QuitToTitle ==
    /\ screen = "play"
    /\ screen' = "title" /\ run' = Blank
    /\ UNCHANGED <<session, connected, claimVars, menu, request, chosen, saved, writes, console>>

\* flush_refusal
MayFlush == step = "Running" /\ InGameplay /\ claim = session

\* Seeded fault: the gameplay test is missing (#152).
FlushAnywhere ==
    IF step = "Running" /\ claim = session
    THEN writes' = FALSE /\ saved' = [saved EXCEPT ![claim] = run]
    ELSE UNCHANGED <<writes, saved>>

\* Seeded fault: flush trusts the claim to have kept the writes off.
FlushTrusting ==
    /\ UNCHANGED writes
    /\ saved' \in {saved} \cup (IF MayFlush THEN {[saved EXCEPT ![claim] = run]} ELSE {})

\* flush: the slot may serialise to nothing and the store may fail.
Flush ==
    IF MayFlush
    THEN writes' = FALSE /\ saved' \in {saved, [saved EXCEPT ![claim] = run]}
    ELSE UNCHANGED <<writes, saved>>

\* WriteSaveData: on_game_save_requested and, if it is enabled, the game's own write
\* right after it.
GameSaves ==
    /\ screen \in {"title", "play"}
    /\ Flush
    /\ UNCHANGED <<session, connected, claimVars, gameVars, console>>

Idles == UNCHANGED <<session, connected, claimVars, gameVars, saved, writes, console>>

GameStep ==
    /\ turn = "game" /\ turn' = "tick"
    /\ \/ StartGame \/ MenuOpens \/ PlayerOpensFile \/ PlayerGoesBack
       \/ MenuFollows \/ MenuLeaves \/ QuitToTitle \/ GameSaves \/ Idles

-----------------------------------------------------------------------------
(***************************************************************************)
(* The mod's callbacks.                                                    *)
(***************************************************************************)
\* next_takeover_step: a timeout, or a save api that went away, is a failure.
NextStep(ready) ==
    IF Settled(step) THEN step
    ELSE IF ready /\ step = "Launching" /\ InGameplay THEN "Running"
    ELSE IF ~ready \/ frames > MaxFramesPerStep THEN "Failed" ELSE step

\* Seeded fault: the frames of a step are not counted.
TickUncounted ==
    /\ turn = "tick" /\ turn' = "world"
    /\ Advance(step, step = "Failed" /\ OnProfileSelect, budget)
    /\ \E ready \in BOOLEAN : step' = NextStep(ready) /\ ready
    /\ frames' = 0
    /\ UNCHANGED <<session, connected, claim, gameVars, saved, writes, console>>

\* tick
Tick ==
    /\ turn = "tick" /\ turn' = "world"
    /\ Advance(step, step = "Failed" /\ OnProfileSelect, budget)
    /\ \E ready \in BOOLEAN : step' = NextStep(ready)
    /\ frames' = IF Settled(step) THEN frames
                 ELSE IF step' = step THEN frames + 1 ELSE 0
    /\ UNCHANGED <<session, connected, claim, gameVars, saved, writes, console>>

\* menu_request_state: idempotent
Request(state) == request' = IF menu = state \/ request = state THEN request ELSE state

\* drive_profile_menu in browse state: stage_save writes the claim's save, or a
\* new one, into the slot the menu launches; if that fails the menu goes back.
LaunchClaim ==
    \/ /\ step' = "Launching" /\ frames' = 0
       /\ chosen' = claim
       /\ Request("launch")
    \/ /\ step' = "Failed" /\ frames' = 0
       /\ Request("back") /\ UNCHANGED chosen

\* on_world_update_end: only a claim that waits and a failed one need the menu.
WorldUpdateEnd ==
    /\ turn = "world" /\ turn' = "game"
    /\ \/ step = "AwaitingMenu" /\ menu = "browse" /\ LaunchClaim
       \/ /\ step = "Failed" /\ menu # None /\ Request("back")
          /\ UNCHANGED <<step, frames, chosen>>
       \/ /\ ~(step = "AwaitingMenu" /\ menu = "browse") /\ ~(step = "Failed" /\ menu # None)
          /\ UNCHANGED <<step, frames, request, chosen>>
    /\ UNCHANGED <<session, connected, claim, blocked, budget, screen, menu, run, saved, writes,
                   console>>

\* The coordinator, early in a tick; every connect and disconnect suppresses the
\* game's writes (on_session_reset).
Authenticate(s) ==
    /\ turn = "tick"
    /\ session' = s /\ connected' = TRUE /\ writes' = FALSE
    /\ UNCHANGED <<turn, claimVars, gameVars, saved, console>>

Disconnected ==
    /\ turn = "tick" /\ connected
    /\ connected' = FALSE /\ writes' = FALSE
    /\ UNCHANGED <<turn, session, claimVars, gameVars, saved, console>>

\* save_test("flush") on the render thread: the check, and then the write.
TakeoverActive == ~Settled(step) \/ step = "Running"

ConsoleChecks ==
    /\ ~console /\ ~TakeoverActive
    /\ console' = TRUE
    /\ UNCHANGED <<turn, session, connected, claimVars, gameVars, saved, writes>>

ConsoleEnables ==
    /\ console
    /\ writes' = TRUE /\ console' = FALSE
    /\ UNCHANGED <<turn, session, connected, claimVars, gameVars, saved>>

Frame == GameStep \/ Tick \/ WorldUpdateEnd

Next ==
    \/ Frame \/ Disconnected \/ ConsoleChecks \/ ConsoleEnables
    \/ \E s \in Session : Authenticate(s)

Spec == Init /\ [][Next]_tkVars
\* The game's loop runs.
FairSpec == Spec /\ WF_tkVars(Frame)

-----------------------------------------------------------------------------
(***************************************************************************)
(* Properties.                                                             *)
(***************************************************************************)
\* While a takeover is under way or has failed, only the full input budget
\* spent puts a file of the player's own choice in gameplay: neither a held
\* confirm before the claim is driven nor one after it gave up.
NoFileByAccident ==
    menu = "launch" /\ chosen = Vanilla => budget > MaxInputBlockFrames

\* What is committed for a session is a run of its own: never the cleared slot,
\* the player's file or a run started under another claim.  And the commit leaves the
\* game's own writes off, even if the console re-enabled them behind the claim's back.
CommitsOwnRun ==
    [][\A s \in Session : saved'[s] # saved[s] => saved'[s] = s /\ ~writes']_tkVars

\* A claim never waits for ever, and the player always gets the controller back.
ClaimEnds ==
    /\ ~Settled(step) ~> Settled(step)
    /\ blocked ~> ~blocked
=============================================================================
