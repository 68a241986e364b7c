----------------------------- MODULE DeathLink ------------------------------
(***************************************************************************)
(* mth/features/death_hooks and mth/core/death_broadcast_gate: deaths sent *)
(* to and received from the multiworld.  Nothing tells a death the mod     *)
(* requested from the player's own, or a death from a revival, when it     *)
(* begins: both are told apart by counting ticks.                          *)
(*                                                                         *)
(* One frame is the game's step and then drive_tick: the coordinator's     *)
(* events, poll(), and the received death if there is one.  The game is    *)
(* external: a death begins invisible, drops its sparks, pulses its guard  *)
(* byte, may show health for a tick, and ends at the death screen or, with *)
(* a Proto Spark, in a revival in place; a requested death lands some      *)
(* gameplay ticks after PlayerDie.                                         *)
(***************************************************************************)
EXTENDS Naturals

CONSTANTS
    StableAliveTicks,      \* kStableAliveTicks
    InboundDeathGrace,     \* kInboundDeathGraceTicks
    PendingInboundDeath,   \* kPendingInboundDeathTicks
    DeathConfirm,          \* kDeathConfirmTicks
    Latency,               \* the most gameplay ticks a requested death takes
    Revives,               \* the player may own a Proto Spark
    EarlyBlips             \* health may blip in a death that has dropped its sparks
                           \* and has not shown its guard byte to a poll before

\* One alive reading is no settled respawn; the counts are counts of ticks.
DeathLinkAssumption ==
    /\ StableAliveTicks \in Nat /\ StableAliveTicks >= 2
    /\ InboundDeathGrace \in Nat /\ PendingInboundDeath \in Nat /\ DeathConfirm \in Nat
    /\ Latency \in Nat /\ Revives \in BOOLEAN /\ EarlyBlips \in BOOLEAN

VARIABLES
    frame,       \* "game" or "tick"
    life,        \* "alive", "dying", "dead" (death screen) or "gone" (no player)
    guard,       \* the death guard byte
    seen,        \* it has been set in this death
    blip,        \* health reads above zero in a death, for one tick
    area,        \* the player is in an area-change state
    mode,        \* the world "runs", is in a "menu", or is "stalled"
    spark,       \* the player has sparks now
    sparked,     \* the last death began with sparks
    cause,       \* of the last death: "own" or "request"
    screens,     \* current_game_state can be read in this build
    landing,     \* ticks left for a requested death to land, or 0
    gate,        \* DeathBroadcastGate
    lastSpark,   \* last_alive_spark_ is positive
    killTicks,   \* pending_kill_ticks_
    castTicks,   \* pending_broadcast_ticks_
    linked,      \* connected to the multiworld
    inbound,     \* pending_inbound_death_
    owed,        \* a received death no death has answered yet
    did          \* what the last tick did: a subset of {"die", "send"}

gameVars == <<life, guard, seen, blip, area, mode, spark, sparked, cause, screens>>
modVars  == <<gate, lastSpark, killTicks, castTicks>>
dlVars   == <<frame, gameVars, landing, modVars, linked, inbound, owed, did>>

Init ==
    /\ frame = "game" /\ life = "alive" /\ guard = FALSE /\ seen = FALSE /\ blip = FALSE
    /\ area = FALSE /\ mode = "runs" /\ spark = FALSE /\ sparked = FALSE
    /\ cause = "own" /\ screens \in BOOLEAN /\ landing = 0
    /\ gate = [streak |-> 0, grace |-> 0, latched |-> FALSE, suppress |-> FALSE]
    /\ lastSpark = FALSE /\ killTicks = 0 /\ castTicks = 0
    /\ linked = FALSE /\ inbound = FALSE /\ owed = FALSE /\ did = {}

-----------------------------------------------------------------------------
(***************************************************************************)
(* The game.                                                               *)
(***************************************************************************)
\* DropDeathSpark zeroes the sparks some time before the guard byte is set.
DropsSpark == spark' \in {spark, FALSE} /\ (guard' => ~spark')

\* Health above zero in a death lasts for a tick.  While no poll has seen the guard
\* byte, it comes, unless EarlyBlips, with the sparks the death began with.
Blips ==
    /\ blip' \in BOOLEAN
    /\ blip' => ~blip /\ (seen \/ spark' = sparked' \/ EarlyBlips)

Dies(why) ==
    /\ life' = "dying" /\ guard' \in BOOLEAN /\ seen' = guard' /\ cause' = why
    /\ sparked' = spark /\ DropsSpark /\ Blips /\ (blip' => guard')
    /\ area' = FALSE /\ owed' = FALSE /\ landing' = 0

\* An alive player dies, or does anything else that matters here.
Lives ==
    /\ life = "alive"
    /\ \/ Dies("own")
       \/ landing > 0 /\ Dies("request")
       \/ /\ landing # 1
          /\ landing' = IF landing > 0 THEN landing - 1 ELSE 0
          /\ area' \in BOOLEAN /\ spark' \in BOOLEAN
          /\ UNCHANGED <<life, guard, seen, blip, sparked, cause, owed>>
       \/ \* a screen transition: a request that has not landed is lost
          /\ life' = "gone" /\ landing' = 0 /\ area' = FALSE
          /\ UNCHANGED <<guard, seen, blip, spark, sparked, cause, owed>>

\* The guard byte pulses, but is set at some time before the death is over.
Dying ==
    /\ life = "dying"
    /\ \/ /\ guard' \in BOOLEAN /\ seen' = (seen \/ guard')
          /\ UNCHANGED <<life, sparked>> /\ DropsSpark /\ Blips
       \/ /\ seen /\ life' = "dead"
          /\ guard' = FALSE /\ seen' = FALSE /\ blip' = FALSE /\ UNCHANGED <<spark, sparked>>
       \/ /\ seen /\ Revives /\ life' = "alive"
          /\ guard' = FALSE /\ seen' = FALSE /\ blip' = FALSE /\ UNCHANGED <<spark, sparked>>
    /\ landing' = 0
    /\ UNCHANGED <<area, cause, owed>>

Respawns ==
    /\ \/ life = "dead" /\ life' \in {"dead", "gone"}
       \/ life = "gone" /\ life' \in {"gone", "alive"}
    /\ UNCHANGED <<guard, seen, blip, area, spark, sparked, cause, landing, owed>>

\* A frozen world leaves everything where it is.
GameStep ==
    /\ frame = "game" /\ frame' = "tick" /\ UNCHANGED screens
    /\ \/ mode' = "runs" /\ (Lives \/ Dying \/ Respawns)
       \/ mode' \in {"menu", "stalled"}
          /\ UNCHANGED <<life, guard, seen, blip, area, spark, sparked, cause, landing, owed>>
    /\ UNCHANGED <<modVars, linked, inbound, did>>

-----------------------------------------------------------------------------
(***************************************************************************)
(* DeathBroadcastGate, as functions of its state.                          *)
(***************************************************************************)
HasPlayer == life \in {"alive", "dying"}
Advanced  == mode = "runs"
Alive     == life = "alive" \/ (life = "dying" /\ blip)

\* Seeded fault: the ticks a requested death takes count as a settled respawn.
AgeGateAtOnce(g) ==
    IF ~Advanced THEN g
    ELSE IF Alive /\ ~guard
         THEN LET n == IF g.streak < StableAliveTicks THEN g.streak + 1 ELSE g.streak
              IN  [g EXCEPT !.streak = n,
                            !.latched = @ /\ n < StableAliveTicks,
                            !.suppress = @ /\ n < StableAliveTicks]
    ELSE [g EXCEPT !.streak = 0]

\* The timers of observe().
AgeGate(g) ==
    IF ~Advanced THEN g
    ELSE IF g.grace > 0 THEN [g EXCEPT !.grace = @ - 1, !.streak = 0]
    ELSE IF Alive /\ ~guard
         THEN LET n == IF g.streak < StableAliveTicks THEN g.streak + 1 ELSE g.streak
              IN  [g EXCEPT !.streak = n,
                            !.latched = @ /\ n < StableAliveTicks,
                            !.suppress = @ /\ n < StableAliveTicks]
    ELSE [g EXCEPT !.streak = 0]

\* observe(): a death edge that is neither handled nor an echo is fresh.
Observe(g) ==
    LET a == AgeGate(g)
    IN  IF ~guard THEN [gate |-> a, fresh |-> FALSE]
        ELSE [gate |-> [a EXCEPT !.grace = 0, !.latched = TRUE],
              fresh |-> ~a.latched /\ ~a.suppress]

StablyAlive(g) == g.streak >= StableAliveTicks
NoteReceived(g) == [g EXCEPT !.suppress = TRUE]

NoteApplied(g) == [g EXCEPT !.suppress = TRUE, !.grace = InboundDeathGrace, !.streak = 0]

-----------------------------------------------------------------------------
(***************************************************************************)
(* DeathHooks, as functions of m: the gate, the pending ticks, and what    *)
(* this tick has done so far.                                              *)
(***************************************************************************)
\* try_apply_inbound_death waits for a settled player outside any transition.
\* What it cannot do at all (no API, no area) it drops.
CanApply(m) == HasPlayer /\ StablyAlive(m.gate) /\ mode # "stalled" /\ ~area

Applied(m) == [m EXCEPT !.gate = NoteApplied(@), !.kill = 0, !.did = @ \cup {"die"}]

DrivePendingDeath(m) ==
    IF m.kill = 0 THEN m
    ELSE IF m.gate.latched THEN [m EXCEPT !.kill = 0]
    ELSE IF CanApply(m) THEN Applied(m)
    ELSE IF Advanced /\ ~area THEN [m EXCEPT !.kill = @ - 1] ELSE m

\* Sent at the death screen, or at once where no state can be read.
DrivePendingBroadcast(m) ==
    IF m.cast = 0 THEN m
    ELSE IF life = "dead" \/ ~screens THEN [m EXCEPT !.cast = 0, !.did = @ \cup {"send"}]
    ELSE [m EXCEPT !.cast = @ - 1]

\* Seeded fault: the sparks are read when the death begins.
PollSparkLate(m) ==
    LET d == DrivePendingBroadcast(DrivePendingDeath(m))
        o == Observe(d.gate)
    IN  [d EXCEPT !.gate = o.gate, !.spark = Alive /\ spark,
                  !.cast = IF o.fresh /\ HasPlayer THEN DeathConfirm ELSE @]

\* poll(): the sparks are those of the last tick that read health above zero.
Poll(m) ==
    LET d == DrivePendingBroadcast(DrivePendingDeath(m))
        o == Observe(d.gate)
        s == IF HasPlayer /\ Alive THEN spark ELSE d.spark
    IN  [d EXCEPT !.gate = o.gate, !.spark = s,
                  !.cast = IF o.fresh /\ ~s THEN DeathConfirm ELSE @]

\* kill(): at most one received death is kept, from the first deferral on.
Kill(m) ==
    LET n == [m EXCEPT !.gate = NoteReceived(@)]
    IN  IF n.gate.latched THEN n
        ELSE IF CanApply(n) THEN Applied(n)
        ELSE IF n.kill > 0 THEN n ELSE [n EXCEPT !.kill = PendingInboundDeath]

Here == [gate |-> gate, spark |-> lastSpark, kill |-> killTicks, cast |-> castTicks,
         did |-> {}]

\* drive_tick from hooks_->tick on.
Tick ==
    /\ frame = "tick" /\ frame' = "game"
    /\ LET m == IF inbound THEN Kill(Poll(Here)) ELSE Poll(Here)
       IN  /\ gate' = m.gate /\ lastSpark' = m.spark
           /\ killTicks' = m.kill /\ castTicks' = m.cast /\ did' = m.did
           /\ landing' \in (IF "die" \in m.did /\ life = "alive" /\ landing = 0
                            THEN 1..Latency ELSE {landing})
    /\ inbound' = FALSE
    /\ UNCHANGED <<gameVars, linked, owed>>

\* The coordinator's events, ahead of the hooks in the same tick.  A death that
\* has begun answers the received one.
Bounce ==
    /\ frame = "tick" /\ linked /\ ~inbound
    /\ inbound' = TRUE /\ owed' = (life # "dying")
    /\ UNCHANGED <<frame, gameVars, landing, modVars, linked, did>>

\* Seeded fault: a disconnect leaves the received death waiting.
LinkChangesQuietly ==
    /\ frame = "tick"
    /\ linked' = ~linked
    /\ inbound' = FALSE /\ owed' = FALSE
    /\ UNCHANGED <<frame, gameVars, landing, modVars, did>>

\* on_session_reset, on connecting and on disconnecting.
LinkChanges ==
    /\ frame = "tick"
    /\ linked' = ~linked
    /\ inbound' = FALSE /\ killTicks' = 0 /\ castTicks' = 0 /\ owed' = FALSE
    /\ UNCHANGED <<frame, gameVars, landing, gate, lastSpark, did>>

Next == GameStep \/ Tick \/ Bounce \/ LinkChanges

Spec == Init /\ [][Next]_dlVars

-----------------------------------------------------------------------------
(***************************************************************************)
(* Properties.                                                             *)
(***************************************************************************)
\* A death the mod requested for a received one is never sent back, however
\* long it takes to land and however often the world freezes in between.
NoEcho == "send" \in did => cause = "own"

\* What is sent is a death of the player's own, begun without sparks.
OnlySparkless == "send" \in did => ~sparked

\* What reaches the multiworld is a death of the player's own, all of it and no echo:
\* the received ones stay here, and so do those a spark may still undo.
SendsOwnDeaths == NoEcho /\ OnlySparkless

\* A living player is killed only for a received death of this connection that
\* no other death has answered: one exchange costs one life.
OneLifePerBounce ==
    [][frame = "tick" /\ frame' = "game" /\ "die" \in did' /\ life = "alive"
         => owed /\ landing = 0]_dlVars
=============================================================================
