----------------------------- MODULE RoomGates -----------------------------
(***************************************************************************)
(* Two features that find their object by walking a room's scene: the      *)
(* Mirrors End shortcut switches, whose entries follow the received items  *)
(* through weak pointers kept from one walk, and the sewer's fetch vendor, *)
(* disabled again on a cadence because he is built anew each time he shows *)
(* up.  A room is a world of its own.                                      *)
(***************************************************************************)
EXTENDS Naturals, FiniteSets

CONSTANTS
    Color,          \* the shortcut switches of the hub room, one for each color
    Retry,          \* kRetryCooldownTicks
    WalkInterval,   \* kWalkIntervalTicks
    Piecemeal       \* a tick may find some of a room's switches built and some not

RoomGatesAssumption == WalkInterval \in Nat

VARIABLES
    armed, granted,     \* a session that drives the switches, on its save; its items
    lockout,            \* should_disable()
    inHub,              \* the room is of the hub's gamestate, and not the path to it
    player,             \* a live player: player_world() is the room
    built, entry,       \* the switches standing in it, and the SwitchManager's array
    managed, walked,    \* g_managed; whether g_managed_world is this room
    retry,              \* g_retry_cooldown
    vendor,             \* the room's vendor: "none", "live" or "off"
    cooldown,           \* SewerCatGate
    awaited, liveFor    \* for the properties: he stood there when the player came;
                        \* the drains he has been live through

switchVars == <<managed, walked, retry>>
vars == <<armed, granted, lockout, inHub, player, built, entry, switchVars,
          vendor, cooldown, awaited, liveFor>>

Init ==
    /\ armed = FALSE /\ granted = {} /\ lockout = FALSE
    /\ inHub = FALSE /\ player = FALSE /\ built = {} /\ entry = {}
    /\ managed = {} /\ walked = FALSE /\ retry = 0
    /\ vendor = "none" /\ cooldown = 0 /\ awaited = FALSE /\ liveFor = 0

-----------------------------------------------------------------------------
(* The session and the game *)

SessionStep ==
    /\ \/ armed' \in BOOLEAN /\ UNCHANGED <<granted, lockout>>
       \/ armed /\ (\E c \in Color : granted' = granted \cup {c}) /\ UNCHANGED <<armed, lockout>>
       \/ lockout' = TRUE /\ UNCHANGED <<armed, granted>>
    /\ UNCHANGED <<inHub, player, built, entry, switchVars, vendor, cooldown, awaited, liveFor>>

\* The world goes, with mirror_switches_on_world_destroy and the gate's; the next one is
\* there before its objects are, and its array holds what was persisted.
NextRoom ==
    /\ inHub' \in BOOLEAN /\ player' = FALSE /\ built' = {} /\ entry' \in {{}, Color}
    /\ managed' = {} /\ walked' = FALSE
    /\ vendor' \in {"none", "live"} /\ cooldown' = 0 /\ awaited' = FALSE /\ liveFor' = 0
    /\ UNCHANGED <<armed, granted, lockout, retry>>

PlayerComes ==
    /\ ~player /\ player' = TRUE /\ awaited' = (lockout /\ vendor = "live")
    /\ UNCHANGED <<armed, granted, lockout, inHub, built, entry, switchVars, vendor, cooldown,
                   liveFor>>

\* A room's switches are built and go, all of them between two ticks or Piecemeal.
SwitchesChange ==
    /\ inHub /\ built' \in (IF Piecemeal THEN SUBSET Color ELSE {{}, Color}) \ {built}
    /\ UNCHANGED <<armed, granted, lockout, inHub, player, entry, switchVars, vendor, cooldown,
                   awaited, liveFor>>

PlayerHits ==
    /\ player
    /\ \E c \in built : entry' = (entry \ {c}) \cup ({c} \ entry)
    /\ UNCHANGED <<armed, granted, lockout, inHub, player, built, switchVars, vendor, cooldown,
                   awaited, liveFor>>

\* The vendor leaves and is reconstructed.
VendorAppears ==
    /\ vendor # "live" /\ vendor' = "live" /\ awaited' = FALSE /\ liveFor' = 0
    /\ UNCHANGED <<armed, granted, lockout, inHub, player, built, entry, switchVars, cooldown>>

-----------------------------------------------------------------------------
(* tick_mirror_switches, with the console's probe asked for or not *)

Forgets == managed' = {} /\ walked' = FALSE

\* Seeded fault: a walk that found nothing is remembered like any other.
LatchesAny(found) == TRUE

\* A walk is remembered only when it found something to drive.
Latches(found) == found # {}

\* The entries of these switches show the received items.
Drives(switches) == entry' = (entry \ switches) \cup (granted \cap switches)

\* The walk, and what it leaves for apply().
Walk ==
    /\ managed' = built
    /\ walked' = Latches(built)
    /\ retry' = IF ~Latches(built) THEN Retry ELSE IF retry > 0 THEN retry - 1 ELSE 0
    /\ IF Latches(built) THEN Drives(built) ELSE UNCHANGED entry

\* apply(): the first dead switch in the list drops it, and the walk waits; those ahead
\* of it are driven.
Drive ==
    \/ managed \subseteq built /\ Drives(managed) /\ UNCHANGED switchVars
    \/ /\ ~(managed \subseteq built)
       /\ \E ahead \in SUBSET (managed \cap built) : Drives(ahead)
       /\ Forgets /\ retry' = Retry

TickSwitches ==
    /\ \E probe \in BOOLEAN :
         IF ~armed \/ ~inHub THEN Forgets /\ UNCHANGED <<retry, entry>>
         ELSE IF ~player THEN UNCHANGED <<switchVars, entry>>
         ELSE IF walked THEN Drive
         ELSE IF probe \/ retry = 0 THEN Walk
         ELSE retry' = retry - 1 /\ UNCHANGED <<managed, walked, entry>>
    /\ UNCHANGED <<armed, granted, lockout, inHub, player, built, vendor, cooldown, awaited, liveFor>>

-----------------------------------------------------------------------------
(* SewerCatGate::tick *)

\* Seeded fault: a tick with nobody there is charged like a walk.
ChargedAnyway == WalkInterval

\* The cooldown after a tick that found no player.
ChargedUnwalked == 0

TickVendor ==
    LET walks == lockout /\ cooldown = 0 /\ player
    IN  /\ cooldown' = IF ~lockout THEN cooldown
                       ELSE IF cooldown > 0 THEN cooldown - 1
                       ELSE IF player THEN WalkInterval ELSE ChargedUnwalked
        /\ vendor' = IF walks /\ vendor = "live" THEN "off" ELSE vendor
        /\ liveFor' = IF lockout /\ player /\ vendor' = "live"
                      THEN IF liveFor > WalkInterval THEN liveFor ELSE liveFor + 1
                      ELSE 0
        /\ UNCHANGED <<armed, granted, lockout, inHub, player, built, entry, switchVars, awaited>>

Next ==
    \/ SessionStep \/ NextRoom \/ PlayerComes \/ SwitchesChange \/ PlayerHits \/ VendorAppears
    \/ TickSwitches \/ TickVendor

Spec == Init /\ [][Next]_vars
LiveSpec == Spec /\ WF_vars(TickSwitches)

-----------------------------------------------------------------------------
(* Properties *)

\* Where a session drives the switches and a player stands among them for good, they show
\* the received items again and again: after a walk that came before the room finished
\* building, after they died under the list, and whatever the player hits.
SwitchesDriven ==
    <>[](armed /\ inHub /\ player /\ built = Color) => []<>(entry \cap built = granted)

\* In the lockout the vendor who waits for the player is shut by the first drain that
\* finds both; one built anew beside the player stands no longer than the interval.
VendorShut == liveFor <= IF awaited THEN 0 ELSE WalkInterval

\* Both walks find their objects in every room: the switches if these are not built
\* Piecemeal, the vendor whenever he is built.
WalksFind == SwitchesDriven /\ []VendorShut
=============================================================================
