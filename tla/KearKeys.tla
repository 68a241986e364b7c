------------------------------ MODULE KearKeys ------------------------------
(***************************************************************************)
(* mth/features/location_hooks: collected locations in the game's own      *)
(* save, and the keys some of them are.  A kear is both a location and a   *)
(* key: the game keeps the collected ones as bits of the save and a count  *)
(* of the spent ones, and the player may open as many locks as are left.   *)
(* A location of the multiworld must not hand out its key, so the mod      *)
(* raises the spent count with the bit; a key that is received lowers it.  *)
(* The player's entity mirrors the count and overrules the save at a lock. *)
(*                                                                         *)
(* One frame is the game's step and then drive_tick.  The game is external.*)
(* The record is ApSaveState's, modelled in CheckReporting; the receipts   *)
(* of a run are InboundGrants'.                                            *)
(***************************************************************************)
EXTENDS Integers, FiniteSets

CONSTANTS
    Kear,      \* locations of the seed whose collected bit is a key
    Plain,     \* locations of the seed with a durable bit of their own
    Vanilla,   \* kears that are not locations of the seed
    Removed,   \* locations of the seed that its server dropped
    MaxKeys,   \* bound on the keys received
    Outage     \* the player plays on while disconnected

Location == Kear \cup Plain

KearKeysAssumption ==
    /\ IsFiniteSet(Location) /\ IsFiniteSet(Vanilla)
    /\ Vanilla \cap Location = {} /\ Removed \subseteq Location

VARIABLES
    turn,        \* "game" or "tick"
    connected,
    suppress,    \* the session's kear mode: keys are of no use, or they are items
    received,    \* keys the server has sent
    checked,     \* the record
    neutralize,  \* g_kear_neutralize
    applied,     \* g_native_last_checked_count
    slot,        \* the working slot
    screen,      \* "title", "loading" (the run's slot is active) or "room"
    mirror,      \* the spent count in the player's entity
    disk         \* the run as committed

kkVars == <<turn, connected, suppress, received, checked, neutralize, applied, slot, screen,
            mirror, disk>>

\* Besides what the game keeps, the run's history: keys credited and locks opened.
NewRun == [bits |-> {}, spent |-> 0, credited |-> 0, opened |-> 0]

Init ==
    /\ turn = "game" /\ connected = FALSE /\ suppress \in BOOLEAN
    /\ received = 0 /\ checked = {}
    /\ neutralize = FALSE /\ applied = -1
    /\ slot = NewRun /\ mirror = 0 /\ screen = "title" /\ disk = NewRun

Keys(s) == s.bits \cap (Kear \cup Vanilla)
InRoom == screen = "room"
Usable(s) == Cardinality(Keys(s)) - s.spent

\* is_checked
IsChecked(k) == k \in checked \cup Removed

-----------------------------------------------------------------------------
(***************************************************************************)
(* Writes of the mod, on a save s and the mirror m.                        *)
(***************************************************************************)
Raise(m, n) == IF InRoom THEN m + n ELSE m

\* Seeded fault: the mirror is forgotten.
NeutralizeSaveOnly(s, m, locs) ==
    [save |-> [s EXCEPT !.spent = @ + Cardinality((locs \ s.bits) \cap Kear)], mirror |-> m]

\* neutralize_kear_grant, for the bits about to be set
NeutralizeKearGrant(s, m, locs) ==
    LET n == Cardinality((locs \ s.bits) \cap Kear)
    IN  [save |-> [s EXCEPT !.spent = @ + n], mirror |-> Raise(m, n)]

\* apply_native_collected, for each of the locations
ApplyNativeCollected(s, m, locs, cancel) ==
    LET c == IF cancel THEN NeutralizeKearGrant(s, m, locs) ELSE [save |-> s, mirror |-> m]
    IN  [c EXCEPT !.save.bits = @ \cup locs]

\* kear_reconciled_spent
ReconciledSpent(s) == IF Cardinality(Keys(s)) > s.spent THEN Cardinality(Keys(s)) ELSE s.spent

\* Seeded fault: what a collect cancelled is taken to last.
ReconcileNothing(s) == s

\* reconcile_kear_keys: never lowers, so the locks the player opened stay paid.
ReconcileKearKeys(s) ==
    IF connected /\ suppress THEN [s EXCEPT !.spent = ReconciledSpent(s)] ELSE s

-----------------------------------------------------------------------------
(***************************************************************************)
(* The game's step.                                                        *)
(***************************************************************************)
MayPlay == connected \/ Outage

\* The run's slot replaces the one the title had bound.
Launch ==
    /\ screen = "title" /\ connected
    /\ screen' = "loading" /\ slot' = disk
    /\ UNCHANGED <<mirror, checked, applied, disk>>

\* Seeded fault: a new world does not apply the record again.
EnterRoomUnarmed ==
    /\ screen # "title" /\ MayPlay /\ screen' = "room"
    /\ mirror' = slot.spent
    /\ UNCHANGED <<slot, checked, applied, disk>>

\* A world is destroyed and the next is built, with a new entity of the player.
EnterRoom ==
    /\ screen # "title" /\ MayPlay /\ screen' = "room"
    /\ applied' = -1
    /\ mirror' = slot.spent
    /\ UNCHANGED <<slot, checked, disk>>

\* Pickup::Init: one that is_checked is destroyed as it spawns.
Spawns(k) == k \notin slot.bits /\ ~IsChecked(k)

\* on_pickup_collected
CollectLocation(k) ==
    /\ InRoom /\ MayPlay /\ Spawns(k)
    /\ checked' = checked \cup {k}
    /\ LET c == ApplyNativeCollected(slot, mirror, {k}, neutralize)
       IN  slot' = c.save /\ mirror' = c.mirror
    /\ UNCHANGED <<applied, screen, disk>>

CollectVanilla(k) ==
    /\ InRoom /\ MayPlay /\ k \notin slot.bits
    /\ slot' = [slot EXCEPT !.bits = @ \cup {k}]
    /\ UNCHANGED <<mirror, checked, applied, screen, disk>>

\* A lock takes a usable key; the save's count becomes the mirror's and one more.
OpenLock ==
    /\ InRoom /\ MayPlay /\ Usable(slot) > 0
    /\ slot' = [slot EXCEPT !.spent = mirror + 1, !.opened = @ + 1]
    /\ mirror' = mirror + 1
    /\ UNCHANGED <<checked, applied, screen, disk>>

GameSaves ==
    /\ InRoom /\ disk' = slot
    /\ UNCHANGED <<slot, mirror, checked, applied, screen>>

\* Back at the title, which binds a slot of its own; the player saved first.
QuitToTitle ==
    /\ InRoom /\ disk = slot
    /\ screen' = "title" /\ mirror' = 0 /\ slot' = NewRun /\ applied' = -1
    /\ UNCHANGED <<checked, disk>>

GameStep ==
    /\ turn = "game" /\ turn' = "tick"
    /\ \/ Launch \/ EnterRoom \/ OpenLock \/ GameSaves \/ QuitToTitle
       \/ \E k \in Location : CollectLocation(k)
       \/ \E k \in Vanilla : CollectVanilla(k)
       \/ UNCHANGED <<slot, mirror, checked, applied, screen, disk>>
    /\ UNCHANGED <<connected, suppress, received, neutralize>>

-----------------------------------------------------------------------------
(***************************************************************************)
(* drive_tick: the coordinator's events, HookManager::tick, the record and *)
(* the granter.                                                            *)
(***************************************************************************)
Total == Cardinality(checked) + Cardinality(Removed)

Connected ==
    /\ turn = "tick" /\ ~connected /\ connected' = TRUE
    /\ UNCHANGED <<turn, suppress, received, checked, neutralize, applied, slot, mirror, screen,
                   disk>>

Disconnected ==
    /\ turn = "tick" /\ connected /\ (Outage \/ screen = "title" \/ (InRoom /\ applied = Total))
    /\ connected' = FALSE
    /\ UNCHANGED <<turn, suppress, received, checked, neutralize, applied, slot, mirror, screen,
                   disk>>

\* Another session, at the title: another record of what its server knows, of any
\* size, and another run.  The count of what was applied is left as it is.
SwitchSession ==
    /\ turn = "tick" /\ screen = "title"
    /\ connected' = TRUE /\ suppress' \in BOOLEAN /\ received' = 0
    /\ checked' \in SUBSET (Location \ Removed) /\ disk' = NewRun
    /\ slot' = NewRun
    /\ UNCHANGED <<turn, neutralize, applied, mirror, screen>>

KeyReceived ==
    /\ turn = "tick" /\ connected /\ ~suppress /\ received < MaxKeys
    /\ received' = received + 1
    /\ UNCHANGED <<turn, connected, suppress, checked, neutralize, applied, slot, mirror, screen,
                   disk>>

\* enforce_checked_native_bits: only when there is more to apply than last time.
EnforceNativeBits(s) ==
    IF Total = applied THEN [save |-> s, mirror |-> mirror]
    ELSE ApplyNativeCollected(s, mirror, checked \cup Removed, connected)

\* credit_kear_key, for n receipts the run does not hold yet
CreditKearKey(s, m, n) ==
    [save |-> [s EXCEPT !.spent = @ - n, !.credited = @ + n], mirror |-> Raise(m, -n)]

\* The hooks, the server's checks, and the granter's walk over the keys.
Tick ==
    /\ turn = "tick" /\ turn' = "game"
    /\ neutralize' = connected
    /\ applied' = Total
    /\ LET e == EnforceNativeBits(ReconcileKearKeys(slot))
           n == IF connected /\ ~suppress /\ InRoom THEN received - e.save.credited ELSE 0
           c == CreditKearKey(e.save, e.mirror, n)
       IN  slot' = c.save /\ mirror' = c.mirror
    /\ \E more \in SUBSET (Location \ Removed) :
          /\ connected \/ more = {}
          /\ checked' = checked \cup more
    /\ UNCHANGED <<connected, suppress, received, screen, disk>>

Next == GameStep \/ Tick \/ Connected \/ Disconnected \/ SwitchSession \/ KeyReceived

Spec == Init /\ [][Next]_kkVars

-----------------------------------------------------------------------------
(***************************************************************************)
(* Properties.                                                             *)
(***************************************************************************)
\* In a seed whose keys are items, the keys of a run are the ones received and
\* the ones no location stands for, less the locks opened: no location of the
\* seed hands out its own, and no lock undoes what was cancelled or credited.  In
\* the other modes no key is ever of use, whatever a save brings back.
KeysBalance ==
    /\ InRoom /\ ~suppress
        => Usable(slot) = slot.credited + Cardinality(slot.bits \cap Vanilla) - slot.opened
    /\ InRoom /\ turn = "game" /\ neutralize /\ suppress => Usable(slot) <= 0

\* A run's world is built with everything the record held, and what the server
\* dropped, already collected, though only the number of them is compared.
NativeBitsFollow ==
    [][turn = "tick" /\ turn' = "game" /\ InRoom => checked \cup Removed \subseteq slot'.bits]_kkVars
=============================================================================
