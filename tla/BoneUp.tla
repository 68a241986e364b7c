------------------------------- MODULE BoneUp -------------------------------
(***************************************************************************)
(* The level caps of the bone-up menu.  StatCapState counts the received   *)
(* cap-ups of each stat.  On Linux the game asks a function for the cap,   *)
(* which is detoured while the menu updates; on Windows the cap is inlined *)
(* into LevelUpMenu::Update, so a wrapper shows it a maxed level in the    *)
(* save and takes it back afterwards.  Either way the description then     *)
(* gets the cap appended.                                                  *)
(*                                                                         *)
(* The menu's state machine is external, and so is whether it draws a      *)
(* description in the frame.  A console command falls between two ticks.   *)
(***************************************************************************)
EXTENDS Integers

CONSTANTS
    Stat,           \* the real stats, "defense" among them
    Native,         \* the game's own cap
    MaxStatLevel,   \* slot data's, above the native one
    MaxUps,         \* bound on the cap-ups received for a stat
    ConsoleCaps     \* the numbers the console's caps command is given

VARIABLES
    platform,               \* the build: "linux" or "windows"
    authed, forced, have,   \* the session, SessionPolicy's forced_caps_, received_items
    enforceLive, counts,    \* LevelCapHooks
    menu, cursor,           \* LevelUpMenu: "closed", "entry", "rows" or "commit"; its row
    shown,                  \* the description: blank, plain, or the cap appended to it
    level, combat           \* the save's levels, and the defense the player fights with

capVars == <<authed, forced, have, enforceLive, counts>>
menuVars == <<menu, cursor, shown, level, combat>>
vars == <<platform, capVars, menuVars>>

Bank == "bank"      \* the rows below the stats

BoneUpAssumption ==
    /\ "defense" \in Stat /\ Bank \notin Stat
    /\ Native \in Nat /\ MaxStatLevel \in Nat /\ ConsoleCaps \subseteq Int

Maxed == Native + MaxStatLevel + 2      \* kMaxedLevel, above every cap
NoText == -1
GameText == 0
NoUps == [s \in Stat |-> 0]
Lower(a, b) == IF a < b THEN a ELSE b

Init ==
    /\ platform \in {"linux", "windows"}
    /\ authed = FALSE /\ forced = FALSE /\ have = NoUps
    /\ enforceLive = FALSE /\ counts = NoUps
    /\ menu = "closed" /\ cursor = "defense" /\ shown = NoText
    /\ level = NoUps /\ combat = 0

-----------------------------------------------------------------------------
(* The caps *)

\* What drive_tick finds of the session: an item for one stat or for all, another
\* session's empty list, a connection made or lost.
Received ==
    \/ UNCHANGED <<authed, have>>
    \/ authed' = ~authed /\ have' \in {have, NoUps}
    \/ /\ authed /\ UNCHANGED authed
       /\ \E S \in {{s} : s \in Stat} \cup {Stat} :
             /\ \A s \in S : have[s] < MaxUps
             /\ have' = [s \in Stat |-> IF s \in S THEN have[s] + 1 ELSE have[s]]

\* Seeded fault: the counts of the last session are only ever added to.
RecomputeUpwards == [s \in Stat |-> IF counts[s] > have'[s] THEN counts[s] ELSE have'[s]]

\* StatCapState::recompute starts from nothing.
Recompute == have'

Tick ==
    /\ Received
    /\ enforceLive' = (authed' \/ forced)
    /\ counts' = IF forced THEN counts ELSE Recompute
    /\ UNCHANGED <<platform, forced, menuVars>>

\* The console's caps: fixed from now on, and enforced without a session as well.
SetStatCaps ==
    /\ forced' = TRUE /\ counts' \in {[s \in Stat |-> n] : n \in ConsoleCaps}
    /\ UNCHANGED <<platform, authed, have, enforceLive, menuVars>>

\* LevelCapHooks::provide: slot data's ceiling takes the native cap's place.
Provide(s, native) == IF enforceLive THEN Lower(MaxStatLevel, counts[s]) ELSE native

\* display_cap_for: the menu shows levels from one.
DisplayCap(s) == Lower(MaxStatLevel, counts[s]) + 1

-----------------------------------------------------------------------------
(* LevelUpMenu *)

\* The cursor is not initialised before the rows are shown.
OpenMenu ==
    /\ menu = "closed" /\ menu' = "entry"
    /\ cursor' \in Stat \cup {Bank}
    /\ UNCHANGED <<platform, capVars, shown, level, combat>>

\* Seeded fault: whatever is at its cap is shown as maxed, whenever the menu updates.
FakesEvery(s) == platform = "windows" /\ level[s] >= Provide(s, Maxed)

\* boneup_fake_capped_stat: the row under the cursor, while rows are shown.
Fakes(s) ==
    platform = "windows" /\ menu = "rows" /\ s = cursor /\ level[s] >= Provide(s, Maxed)

\* The levels the game's own update reads, and the cap it compares the row's with.
Seen == [s \in Stat |-> IF Fakes(s) THEN Maxed ELSE level[s]]
Gate(s) == IF platform = "linux" THEN Provide(s, Native) ELSE Native

\* Seeded fault: every level is put back, bought or not.
RestoredAll(slot) == level

\* What the wrapper leaves in the save of what the update left there.
Restored(slot) == [s \in Stat |-> IF Fakes(s) THEN level[s] ELSE slot[s]]

\* The menu stays shut if every stat is maxed.  Which cap Linux's menu asks for here,
\* if any, the code does not tell.
Enter ==
    /\ menu = "entry"
    /\ \/ menu' = IF \E s \in Stat : Seen[s] < Native THEN "rows" ELSE "closed"
       \/ platform = "linux" /\ menu' \in {"rows", "closed"}
    /\ cursor' \in Stat /\ level' = Restored(Seen) /\ UNCHANGED combat

MoveCursor ==
    /\ menu = "rows" /\ cursor' \in (Stat \cup {Bank}) \ {cursor}
    /\ level' = Restored(Seen) /\ UNCHANGED <<menu, combat>>

\* The commit gives the player the defense of the save.
Commits(slot) == combat' = slot["defense"] /\ menu' = "rows"

\* A purchase passes the gate and is committed by the next update, the other rows have
\* no gate and are committed by this one.
Confirm ==
    /\ menu = "rows" /\ UNCHANGED cursor
    /\ IF cursor = Bank THEN Commits(Seen) /\ level' = Restored(Seen)
       ELSE /\ UNCHANGED combat
            /\ IF Seen[cursor] < Gate(cursor)
               THEN menu' = "commit" /\ level' = Restored([Seen EXCEPT ![cursor] = @ + 1])
               ELSE menu' = menu /\ level' = Restored(Seen)

Commit == menu = "commit" /\ Commits(Seen) /\ level' = Restored(Seen) /\ UNCHANGED cursor

Leave == menu = "rows" /\ menu' = "closed" /\ level' = Restored(Seen) /\ UNCHANGED <<cursor, combat>>

Idle == menu # "closed" /\ level' = Restored(Seen) /\ UNCHANGED <<menu, cursor, combat>>

\* Seeded fault: a description that has a cap keeps it.
AnnotatedOnce(text) == IF text = GameText THEN DisplayCap(cursor') ELSE text

\* boneup_annotate_description, after the update: a cap that is there is replaced.
Annotated(text) == IF text = NoText THEN NoText ELSE DisplayCap(cursor')

\* The game draws the row anew, or leaves the text, or has not drawn it yet; a menu
\* that closes takes its text with it.
Annotate ==
    \E text \in {NoText, GameText} \cup (IF cursor' = cursor THEN {shown} ELSE {}) :
        /\ menu' = "closed" => text = NoText
        /\ shown' = IF menu' = "rows" /\ cursor' \in Stat /\ enforceLive THEN Annotated(text)
                    ELSE text

\* LevelUpMenu's update within its hook.
Update ==
    /\ Enter \/ MoveCursor \/ Confirm \/ Commit \/ Leave \/ Idle
    /\ Annotate
    /\ UNCHANGED <<platform, capVars>>

Next == Tick \/ SetStatCaps \/ OpenMenu \/ Update

Spec == Init /\ [][Next]_vars

-----------------------------------------------------------------------------
(* Properties *)

\* No stat is bought past what this session has received for it or slot data's ceiling,
\* and what is bought stays; the player never fights with the level that only the gate should see;
\* the menu opens for a player whom only the caps stop; and the cap in the text is the
\* one in force, also when it has changed under an open menu.
BoneUpHonest ==
    /\ [][\A s \in Stat : level'[s] # level[s] =>
             /\ level'[s] = level[s] + 1
             /\ enforceLive => level'[s] <= MaxStatLevel
             /\ enforceLive /\ ~forced => level'[s] <= have[s]]_vars
    /\ [][menu = "rows" /\ menu' = "commit" => level'[cursor] > level[cursor]]_vars
    /\ [](menu # "commit" => combat = level["defense"])
    /\ [][menu = "entry" /\ menu' = "closed" /\ platform = "windows" =>
             \A s \in Stat : level[s] >= Native]_vars
    /\ [][Update /\ menu' = "rows" /\ cursor' \in Stat /\ enforceLive =>
             shown' \in {NoText, DisplayCap(cursor')}]_vars
=============================================================================
