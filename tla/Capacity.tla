------------------------------ MODULE Capacity ------------------------------
(***************************************************************************)
(* A capacity upgrade (health stands for the kinds that go through the     *)
(* save's bitfield).  UpgradeState counts the received ones, and a tick    *)
(* that finds the count or the save changed writes them into the live save *)
(* and keeps what the pool is missing.  SaveSlot::Clear gives a new file   *)
(* the game's own kit, which the mod zeroes; it runs at loads as well.     *)
(***************************************************************************)
EXTENDS Naturals

CONSTANTS
    Session, Nobody,
    Cap,            \* kUpgradeCaps: the location count of the kind
    Kit,            \* the upgrades of a new file
    Base,           \* the pool without upgrades
    Drops           \* the connection may be lost between Start Game and play

CapacityAssumption == Nobody \notin Session /\ Cap \in Nat /\ Kit \in Nat /\ Base \in Nat

VARIABLES
    session, authed, sent,  \* the session served, and what the server sent in each
    have,                   \* received_items of it
    counts, applied, dirty, \* UpgradeState
    screen, run, saved,     \* the game: its screen, the open save, the saved fields
    field, alive, pool, cur,    \* the live save's bits; the player, and the pool
    ticked                  \* for the properties: the last step was a tick in play

upgrades == <<counts, applied, dirty>>
player == <<alive, pool, cur>>
vars == <<session, authed, sent, have, upgrades, screen, run, saved, field, player, ticked>>

Unsaved == Cap + 1      \* no file yet

Init ==
    /\ session = Nobody /\ authed = FALSE /\ sent = [s \in Session |-> 0] /\ have = 0
    /\ counts = 0 /\ applied = 0 /\ dirty = FALSE
    /\ screen = "title" /\ run = Nobody /\ saved = [s \in Session |-> Unsaved]
    /\ field = 0 /\ alive = FALSE /\ pool = Base /\ cur = Base
    /\ ticked = FALSE

-----------------------------------------------------------------------------
(* The session *)

\* Another session comes with clear_session_state, in time: a player who keeps to the
\* title between two sessions is assumed here.
Connect ==
    /\ ~authed /\ authed' = TRUE
    /\ \/ session # Nobody /\ UNCHANGED <<session, have, upgrades>>
       \/ /\ screen = "title" /\ session' \in Session \ {session} /\ have' = 0
          /\ counts' = 0 /\ applied' = 0 /\ dirty' = FALSE
    /\ ticked' = FALSE
    /\ UNCHANGED <<sent, screen, run, saved, field, player>>

Disconnect ==
    /\ authed /\ (Drops \/ screen # "menu") /\ authed' = FALSE
    /\ ticked' = FALSE
    /\ UNCHANGED <<session, sent, have, upgrades, screen, run, saved, field, player>>

\* An item of the stream, sent before or new.
ItemReceived ==
    /\ authed /\ have < Cap /\ have' = have + 1
    /\ sent' = [sent EXCEPT ![session] = IF have < @ THEN @ ELSE @ + 1]
    /\ ticked' = FALSE
    /\ UNCHANGED <<session, authed, upgrades, screen, run, saved, field, player>>

-----------------------------------------------------------------------------
(* The game *)

\* dirty_ after the suppressor's callback.
ForcedDirty == dirty \/ authed

\* Seeded fault: the kit is left to the new file.
KitKept == Kit

\* What SaveSlot::Clear leaves, with its hook.
Cleared == IF authed THEN 0 ELSE Kit

\* Start Game, where the profile menu clears a slot to list it.
OpenMenu ==
    /\ screen = "title" /\ authed /\ screen' = "menu"
    /\ dirty' = ForcedDirty /\ ticked' = FALSE
    /\ UNCHANGED <<session, authed, sent, have, counts, applied, run, saved, field, player>>

\* The launch clears the working slot and reads the session's file into it.
Load ==
    /\ screen = "menu" /\ screen' = "play" /\ run' = session
    /\ dirty' = ForcedDirty
    /\ field' = IF saved[session] = Unsaved THEN Cleared ELSE saved[session]
    /\ ticked' = FALSE
    /\ UNCHANGED <<session, authed, sent, have, counts, applied, saved, player>>

\* Player::UpdateStats as a room gives the player a body.
PlayerAppears ==
    /\ screen = "play" /\ ~alive /\ alive' = TRUE
    /\ pool' = Base + field /\ cur' = Base + field
    /\ ticked' = FALSE
    /\ UNCHANGED <<session, authed, sent, have, upgrades, screen, run, saved, field>>

PlayerGoes ==
    /\ alive /\ alive' = FALSE
    /\ ticked' = FALSE
    /\ UNCHANGED <<session, authed, sent, have, upgrades, screen, run, saved, field, pool, cur>>

Hurt ==
    /\ alive /\ cur > 0 /\ cur' = cur - 1
    /\ ticked' = FALSE
    /\ UNCHANGED <<session, authed, sent, have, upgrades, screen, run, saved, field, alive, pool>>

GameSaves ==
    /\ alive /\ saved' = [saved EXCEPT ![run] = field]
    /\ ticked' = FALSE
    /\ UNCHANGED <<session, authed, sent, have, upgrades, screen, run, field, player>>

QuitToTitle ==
    /\ screen = "play" /\ ~alive /\ screen' = "title" /\ run' = Nobody
    /\ ticked' = FALSE
    /\ UNCHANGED <<session, authed, sent, have, upgrades, saved, field, player>>

-----------------------------------------------------------------------------
(* drive_tick *)

\* Seeded fault: a recompute forgets that the save was cleared.
DirtyAssigned == have # applied

\* UpgradeState::recompute's dirty_; the counts are those received.
Dirty == dirty \/ have # applied

\* Seeded fault: the missing amount is taken after the maximum has grown.
MissingAfter(grown) == grown - cur

\* What the pool is missing, captured before the bits are written.
Missing(grown) == pool - cur

\* pal::apply_upgrades: the bits are OR-ed in, so none the save has is lost, and
\* UpdateStats makes the maximum of them.
ApplyUpgrades ==
    LET bits == IF field > have THEN field ELSE have
        grown == Base + bits
    IN  /\ field' = bits /\ pool' = grown
        /\ cur' = IF Missing(grown) > grown THEN 0 ELSE grown - Missing(grown)

Tick ==
    /\ counts' = have
    /\ IF Dirty /\ alive
       THEN ApplyUpgrades /\ applied' = have /\ dirty' = FALSE
       ELSE dirty' = Dirty /\ UNCHANGED <<field, pool, cur, applied>>
    /\ ticked' = alive
    /\ UNCHANGED <<session, authed, sent, have, screen, run, saved, alive>>

Next ==
    \/ Connect \/ Disconnect \/ ItemReceived
    \/ OpenMenu \/ Load \/ PlayerAppears \/ PlayerGoes \/ Hurt \/ GameSaves \/ QuitToTitle
    \/ Tick

Spec == Init /\ [][Next]_vars

-----------------------------------------------------------------------------
(* Properties *)

\* A tick in play leaves the player every upgrade received, also in a run that was
\* loaded again without the save that would have held them; a session's run has none
\* the server did not send, for the new file's kit is gone; and one received in play
\* raises the ceiling and neither heals nor hurts.
CapacityFollows ==
    /\ [](ticked => field >= have /\ pool = Base + field)
    /\ [](run # Nobody => field <= sent[run])
    /\ [][alive /\ pool' # pool => alive' /\ pool' - cur' = pool - cur]_vars
=============================================================================
