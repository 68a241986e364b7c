-------------------------- MODULE DeathLink_proofs --------------------------
(***************************************************************************)
(* Proofs about the deaths sent and received.  What tells an echo from the *)
(* player's own death are three counts, and the argument is what they say  *)
(* of the death they began in: that no settled respawn is counted in a     *)
(* death, that the grace outlasts a requested death's way to landing, and  *)
(* that a confirmation still counting belongs to the death being died.     *)
(***************************************************************************)
EXTENDS DeathLink, TLAPS

Gates == [streak : Nat, grace : Nat, latched : BOOLEAN, suppress : BOOLEAN]

\* The grace of kInboundDeathGraceTicks is longer than a requested death takes to land.
GraceOutlastsLatency == Latency < InboundDeathGrace

-----------------------------------------------------------------------------
(* The invariant *)

Typed ==
    /\ frame \in {"game", "tick"} /\ life \in {"alive", "dying", "dead", "gone"}
    /\ guard \in BOOLEAN /\ seen \in BOOLEAN /\ blip \in BOOLEAN /\ area \in BOOLEAN
    /\ mode \in {"runs", "menu", "stalled"} /\ spark \in BOOLEAN /\ sparked \in BOOLEAN
    /\ cause \in {"own", "request"} /\ screens \in BOOLEAN /\ landing \in Nat /\ gate \in Gates
    /\ lastSpark \in BOOLEAN /\ killTicks \in Nat /\ castTicks \in Nat
    /\ linked \in BOOLEAN /\ inbound \in BOOLEAN /\ owed \in BOOLEAN

\* The signs of a death are there in one only.
BodyInv ==
    /\ guard => seen
    /\ life # "dying" => ~guard /\ ~seen /\ ~blip
    /\ landing > 0 => life = "alive"

\* The sparks the mod remembers are the player's and, unless a blip showed what was
\* left of them, those the death began with until it is latched.
SparkKept ==
    /\ life = "alive" /\ frame = "game" => lastSpark = spark
    /\ life = "dying" /\ ~gate.latched /\ ~EarlyBlips =>
          lastSpark = sparked /\ (blip => spark = sparked)

\* A tick that is still to observe a step of the running game.
Unobserved == frame = "tick" /\ mode = "runs"

\* Nothing in a death adds up to a settled respawn.
Unsettled ==
    life = "dying" =>
        IF Unobserved THEN blip /\ ~guard => gate.streak = 0
        ELSE gate.streak <= (IF blip THEN 1 ELSE 0)

\* While a requested death is on its way the grace outlasts it.
Landing ==
    landing > 0 => /\ gate.suppress /\ gate.streak = 0
                   /\ gate.grace >= (IF Unobserved THEN landing + 1 ELSE landing)

\* A requested death is suppressed as long as it lasts.
Requested == life = "dying" /\ cause = "request" => gate.suppress

\* A death is latched from the tick that sees its guard byte.
Latched == life = "dying" /\ seen /\ ~(frame = "tick" /\ guard) => gate.latched

\* A death of the player's own, begun without sparks as far as blips let the mod see.
Sparkless == cause = "own" /\ (EarlyBlips \/ ~sparked)

\* A confirmation that counts is of the death being died: an own one, without sparks.
Counting ==
    castTicks > 0 => /\ Sparkless
                     /\ life = "dying" \/ (life = "dead" /\ frame = "tick")

\* What was sent last was the death being died or on the screen.
Sent ==
    "send" \in did => /\ Sparkless
                      /\ life \in {"dying", "dead"} \/ (life = "gone" /\ frame = "tick")

\* A received death that waits is owed, or a death has begun to answer it.
Served ==
    /\ killTicks > 0 => owed \/ gate.latched \/ life = "dying"
    /\ inbound => frame = "tick" /\ (owed \/ life = "dying")

DeathInv ==
    /\ Typed /\ BodyInv /\ SparkKept /\ Unsettled /\ Landing /\ Requested /\ Latched
    /\ Counting /\ Sent /\ Served

-----------------------------------------------------------------------------
(***************************************************************************)
(* A tick, as what it does to its record of the gate and the counts.       *)
(***************************************************************************)
Records == [gate : Gates, spark : BOOLEAN, kill : Nat, cast : Nat, did : SUBSET {"die", "send"}]

\* What is known of the record when a tick has polled, and still when it is over.
Sound(m) ==
    /\ m \in Records
    /\ life = "alive" => m.spark = spark
    /\ life = "dying" /\ ~m.gate.latched /\ ~EarlyBlips =>
          m.spark = sparked /\ (blip => spark = sparked)
    /\ life = "dying" => m.gate.streak <= (IF blip THEN 1 ELSE 0)
    /\ life = "dying" /\ cause = "request" => m.gate.suppress
    /\ life = "dying" /\ seen => m.gate.latched
    /\ landing > 0 => m.gate.suppress /\ m.gate.streak = 0 /\ m.gate.grace >= landing
    /\ "die" \in m.did =>
          /\ m.gate.suppress /\ m.gate.streak = 0
          /\ life = "alive" => m.gate.grace >= InboundDeathGrace - 1 /\ owed /\ landing = 0
    /\ m.cast > 0 => Sparkless /\ life = "dying"
    /\ "send" \in m.did => Sparkless /\ life \in {"dying", "dead"}
    /\ m.kill > 0 => owed \/ m.gate.latched \/ life = "dying"

\* A gate or a record with other counts is one.
LEMMA GateUpdated ==
    ASSUME NEW g \in Gates, NEW n \in Nat, NEW k \in Nat
    PROVE  [g EXCEPT !.grace = n, !.streak = k] \in Gates
BY DEF Gates

LEMMA RecordUpdated ==
    ASSUME NEW m \in Records, NEW n \in Nat, NEW w \in SUBSET {"die", "send"}
    PROVE  [m EXCEPT !.cast = n, !.did = w] \in Records
BY DEF Records

\* The timers keep their type.
LEMMA AgeGateTyped ==
    ASSUME DeathLinkAssumption, NEW g \in Gates
    PROVE  AgeGate(g) \in Gates
<1>1. CASE ~Advanced
  BY <1>1 DEF AgeGate
<1>2. CASE Advanced /\ g.grace > 0
  <2>1. AgeGate(g) = [g EXCEPT !.grace = g.grace - 1, !.streak = 0]
    BY <1>2 DEF AgeGate
  <2>2. g.grace - 1 \in Nat
    BY <1>2 DEF Gates
  <2>3. [g EXCEPT !.grace = g.grace - 1, !.streak = 0] \in Gates
    BY <2>2, GateUpdated
  <2> QED BY <2>1, <2>3
<1>3. CASE Advanced /\ ~(g.grace > 0) /\ Alive /\ ~guard
  <2> DEFINE n == IF g.streak < StableAliveTicks THEN g.streak + 1 ELSE g.streak
             l == g.latched /\ n < StableAliveTicks
             s == g.suppress /\ n < StableAliveTicks
  <2>1. AgeGate(g) = [g EXCEPT !.streak = n, !.latched = l, !.suppress = s]
    BY <1>3 DEF AgeGate
  <2>2. n \in Nat
    BY DEF Gates
  <2>3. l \in BOOLEAN /\ s \in BOOLEAN
    OBVIOUS
  <2> HIDE DEF n, l, s
  <2> QED BY <2>1, <2>2, <2>3 DEF Gates
<1>4. CASE Advanced /\ ~(g.grace > 0) /\ ~(Alive /\ ~guard)
  BY <1>4 DEF AgeGate, Gates
<1> QED BY <1>1, <1>2, <1>3, <1>4

\* In a death they settle nothing.
LEMMA AgeGateDeath ==
    ASSUME DeathLinkAssumption, Typed, BodyInv, NEW g \in Gates, life = "dying",
           IF mode = "runs" THEN blip /\ ~guard => g.streak = 0
           ELSE g.streak <= (IF blip THEN 1 ELSE 0)
    PROVE  /\ AgeGate(g).latched = g.latched /\ AgeGate(g).suppress = g.suppress
           /\ AgeGate(g).streak <= (IF blip THEN 1 ELSE 0)
<1> USE DEF Typed, Gates
<1>1. CASE mode # "runs"
  BY <1>1 DEF AgeGate, Advanced
<1>2. CASE mode = "runs" /\ g.grace > 0
  BY <1>2 DEF AgeGate, Advanced
<1>3. CASE mode = "runs" /\ ~(g.grace > 0) /\ blip /\ ~guard
  <2>1. g.streak = 0 /\ 0 < StableAliveTicks /\ 1 < StableAliveTicks
    BY <1>3 DEF DeathLinkAssumption
  <2> DEFINE n == IF g.streak < StableAliveTicks THEN g.streak + 1 ELSE g.streak
             l == g.latched /\ n < StableAliveTicks
             s == g.suppress /\ n < StableAliveTicks
  <2>2. AgeGate(g) = [g EXCEPT !.streak = n, !.latched = l, !.suppress = s]
    BY <1>3 DEF AgeGate, Advanced, Alive
  <2>3. n = 1
    BY <2>1
  <2>4. l = g.latched /\ s = g.suppress
    BY <2>1, <2>3
  <2> HIDE DEF n, l, s
  <2> QED BY <1>3, <2>2, <2>3, <2>4
<1>4. CASE mode = "runs" /\ ~(g.grace > 0) /\ ~(blip /\ ~guard)
  BY <1>4 DEF AgeGate, Advanced, Alive, BodyInv
<1> QED BY <1>1, <1>2, <1>3, <1>4

\* A grace that outlasts n ticks of the game keeps what it was given for.
LEMMA AgeGateGrace ==
    ASSUME NEW g \in Gates, NEW n \in Nat, g.suppress, g.streak = 0,
           mode = "runs" => g.grace > n, mode # "runs" => g.grace >= n
    PROVE  LET a == AgeGate(g) IN a.suppress /\ a.streak = 0 /\ a.grace >= n
BY DEF AgeGate, Gates, Advanced

\* observe(): the latch and the freshness of what it sees.
LEMMA ObserveFacts ==
    ASSUME DeathLinkAssumption, Typed, NEW g \in Gates
    PROVE  LET a == AgeGate(g)
               o == Observe(g)
           IN  /\ o.gate \in Gates /\ o.fresh \in BOOLEAN
               /\ o.gate.suppress = a.suppress /\ o.gate.streak = a.streak
               /\ ~guard => o.gate = a /\ ~o.fresh
               /\ guard => o.gate.latched /\ (o.fresh => ~a.latched /\ ~a.suppress)
BY AgeGateTyped DEF Observe, Typed, Gates

\* The two pending counts, ahead of the observation.
LEMMA PendingFacts ==
    ASSUME DeathLinkAssumption, Typed
    PROVE  LET e == DrivePendingDeath(Here)
               d == DrivePendingBroadcast(e)
           IN  /\ d \in Records /\ d.gate = e.gate /\ d.kill = e.kill
               /\ d.spark = lastSpark
               /\ d.cast > 0 => castTicks > 0 /\ life # "dead"
               /\ "send" \in d.did => castTicks > 0
               /\ d.kill > 0 => killTicks > 0 /\ ~gate.latched
               /\ \/ "die" \notin d.did /\ d.gate = gate
                  \/ /\ "die" \in d.did /\ d.gate = NoteApplied(gate)
                     /\ killTicks > 0 /\ ~gate.latched /\ gate.streak >= StableAliveTicks
<1> DEFINE e == DrivePendingDeath(Here)
           d == DrivePendingBroadcast(e)
<1> USE DEF Typed
<1>1. Here \in Records /\ Here.did = {}
  BY DEF Here, Records
<1>2. /\ Here.gate = gate /\ Here.kill = killTicks /\ Here.cast = castTicks
      /\ Here.spark = lastSpark
  BY DEF Here
<1>3. NoteApplied(gate) \in Gates
  BY DEF NoteApplied, Gates, DeathLinkAssumption
<1>4. /\ e \in Records /\ e.cast = castTicks /\ e.spark = lastSpark /\ "send" \notin e.did
      /\ e.kill > 0 => killTicks > 0 /\ ~gate.latched
      /\ \/ "die" \notin e.did /\ e.gate = gate
         \/ /\ "die" \in e.did /\ e.gate = NoteApplied(gate)
            /\ killTicks > 0 /\ ~gate.latched /\ gate.streak >= StableAliveTicks
  <2>1. CASE killTicks = 0
    BY <1>1, <1>2, <2>1 DEF DrivePendingDeath
  <2>2. CASE killTicks # 0 /\ gate.latched
    BY <1>1, <1>2, <2>2 DEF DrivePendingDeath, Records
  <2>3. CASE killTicks # 0 /\ ~gate.latched /\ CanApply(Here)
    <3>1. e = [Here EXCEPT !.gate = NoteApplied(gate), !.kill = 0, !.did = {"die"}]
      BY <1>1, <1>2, <2>3 DEF DrivePendingDeath, Applied, Records
    <3>2. /\ e.gate = NoteApplied(gate) /\ e.kill = 0 /\ e.did = {"die"}
          /\ e.cast = castTicks /\ e.spark = lastSpark /\ e \in Records
      <4>1. [Here EXCEPT !.gate = NoteApplied(gate), !.kill = 0, !.did = {"die"}] \in Records
        BY <1>1, <1>3 DEF Records
      <4> QED BY <1>1, <1>2, <3>1, <4>1 DEF Records
    <3>3. gate.streak >= StableAliveTicks
      BY <1>2, <2>3 DEF CanApply, StablyAlive
    <3> QED BY <2>3, <3>2, <3>3
  <2>4. CASE killTicks # 0 /\ ~gate.latched /\ ~CanApply(Here)
    BY <1>1, <1>2, <2>4 DEF DrivePendingDeath, Records
  <2> QED BY <2>1, <2>2, <2>3, <2>4
<1>5. /\ d \in Records /\ d.gate = e.gate /\ d.kill = e.kill /\ d.spark = e.spark
      /\ d.cast > 0 => e.cast > 0 /\ life # "dead"
      /\ "send" \in d.did => e.cast > 0
      /\ "die" \in d.did <=> "die" \in e.did
  <2> HIDE DEF e
  <2>1. CASE e.cast = 0
    BY <1>4, <2>1 DEF DrivePendingBroadcast
  <2>2. CASE e.cast # 0 /\ (life = "dead" \/ ~screens)
    <3>1. d = [e EXCEPT !.cast = 0, !.did = e.did \cup {"send"}]
      BY <2>2 DEF DrivePendingBroadcast
    <3>2. d.did = e.did \cup {"send"} /\ d.cast = 0
      BY <1>4, <3>1 DEF Records
    <3>3. d.gate = e.gate /\ d.kill = e.kill /\ d.spark = e.spark
      BY <1>4, <3>1 DEF Records
    <3>5. d \in Records
      <4>1. e.did \cup {"send"} \in SUBSET {"die", "send"}
        BY <1>4 DEF Records
      <4>2. [e EXCEPT !.cast = 0, !.did = e.did \cup {"send"}] \in Records
        BY <1>4, <4>1, RecordUpdated
      <4> HIDE DEF d
      <4> QED BY <3>1, <4>2
    <3>4. e.cast > 0
      BY <1>4, <2>2 DEF Records
    <3> QED BY <1>4, <2>2, <3>2, <3>3, <3>4, <3>5
  <2>3. CASE e.cast # 0 /\ life # "dead" /\ screens
    <3>1. d = [e EXCEPT !.cast = @ - 1]
      BY <2>3 DEF DrivePendingBroadcast
    <3> QED BY <1>4, <2>3, <3>1 DEF Records
  <2> QED BY <2>1, <2>2, <2>3
<1> QED BY <1>4, <1>5

\* poll() leaves a sound record.
LEMMA PollIsSound ==
    ASSUME DeathLinkAssumption, GraceOutlastsLatency, DeathInv, frame = "tick"
    PROVE  Sound(Poll(Here))
<1> DEFINE d == DrivePendingBroadcast(DrivePendingDeath(Here))
           a == AgeGate(d.gate)
           o == Observe(d.gate)
           p == Poll(Here)
<1> USE DEF DeathInv
<1>1. /\ d \in Records /\ d.spark = lastSpark /\ d.gate \in Gates
      /\ d.cast > 0 => castTicks > 0 /\ life # "dead"
      /\ "send" \in d.did => castTicks > 0
      /\ d.kill > 0 => killTicks > 0 /\ ~gate.latched
      /\ \/ "die" \notin d.did /\ d.gate = gate
         \/ /\ "die" \in d.did /\ d.gate = NoteApplied(gate)
            /\ killTicks > 0 /\ ~gate.latched /\ gate.streak >= StableAliveTicks
  BY PendingFacts DEF Records
<1>2. /\ o.gate \in Gates /\ o.fresh \in BOOLEAN
      /\ o.gate.suppress = a.suppress /\ o.gate.streak = a.streak
      /\ ~guard => o.gate = a /\ ~o.fresh
      /\ guard => o.gate.latched /\ (o.fresh => ~a.latched /\ ~a.suppress)
  BY <1>1, ObserveFacts
<1>3. /\ p.gate = o.gate /\ p.kill = d.kill /\ p.did = d.did
      /\ p.spark = IF HasPlayer /\ Alive THEN spark ELSE d.spark
      /\ p.cast = IF o.fresh /\ ~p.spark THEN DeathConfirm ELSE d.cast
      /\ p \in Records
  BY <1>1, <1>2 DEF Poll, Records, Typed, DeathLinkAssumption
<1> HIDE DEF p, o, a, d
<1>4. life = "dying" =>
        /\ a.latched = d.gate.latched /\ a.suppress = d.gate.suppress
        /\ a.streak <= (IF blip THEN 1 ELSE 0)
  <2> SUFFICES ASSUME life = "dying"
               PROVE  /\ a.latched = d.gate.latched /\ a.suppress = d.gate.suppress
                      /\ a.streak <= (IF blip THEN 1 ELSE 0)
    OBVIOUS
  <2>1. IF mode = "runs" THEN blip /\ ~guard => d.gate.streak = 0
        ELSE d.gate.streak <= (IF blip THEN 1 ELSE 0)
    <3>1. CASE d.gate = gate
      BY <3>1 DEF Unsettled, Unobserved
    <3>2. CASE d.gate = NoteApplied(gate)
      BY <3>2 DEF NoteApplied, Gates, Typed
    <3> QED BY <1>1, <3>1, <3>2
  <2> QED BY <1>1, <2>1, AgeGateDeath DEF a
<1>5. landing > 0 => d.gate = gate /\ a.suppress /\ a.streak = 0 /\ a.grace >= landing
  <2> SUFFICES ASSUME landing > 0
               PROVE  d.gate = gate /\ a.suppress /\ a.streak = 0 /\ a.grace >= landing
    OBVIOUS
  <2>1. gate.suppress /\ gate.streak = 0 /\ landing \in Nat
    BY DEF Landing, Typed
  <2>2. d.gate = gate
    BY <1>1, <2>1 DEF DeathLinkAssumption
  <2>3. mode = "runs" => gate.grace > landing
    BY <2>1 DEF Landing, Unobserved, Typed, Gates
  <2>4. mode # "runs" => gate.grace >= landing
    BY DEF Landing, Unobserved
  <2> QED BY <1>1, <2>1, <2>2, <2>3, <2>4, AgeGateGrace DEF a
<1>6. "die" \in d.did => a.suppress /\ a.streak = 0 /\ a.grace >= InboundDeathGrace - 1
  <2> SUFFICES ASSUME "die" \in d.did
               PROVE  a.suppress /\ a.streak = 0 /\ a.grace >= InboundDeathGrace - 1
    OBVIOUS
  <2>1. d.gate.suppress /\ d.gate.streak = 0 /\ d.gate.grace = InboundDeathGrace
    BY <1>1 DEF NoteApplied, Gates, Typed
  <2>2. InboundDeathGrace - 1 \in Nat /\ InboundDeathGrace \in Nat
    BY DEF DeathLinkAssumption, GraceOutlastsLatency
  <2> QED BY <1>1, <2>1, <2>2, AgeGateGrace DEF a
<1>7. /\ p.gate.suppress = a.suppress /\ p.gate.streak = a.streak
      /\ ~guard => p.gate = a
      /\ guard => life = "dying" /\ p.gate.latched
      /\ landing > 0 \/ life = "alive" => ~guard
  BY <1>2, <1>3 DEF BodyInv
<1>8. life = "alive" => p.spark = spark
  BY <1>3 DEF HasPlayer, Alive
<1>9. life = "dying" /\ cause = "request" => d.gate.suppress
  BY <1>1 DEF Requested, NoteApplied, Gates, Typed
<1>10. d.gate.latched = gate.latched
  BY <1>1 DEF NoteApplied, Gates, Typed
<1>20. life = "dying" /\ ~a.latched /\ ~EarlyBlips => p.spark = sparked /\ (blip => spark = sparked)
  BY <1>1, <1>3, <1>4, <1>10 DEF HasPlayer, Alive, SparkKept
<1>21. life = "dying" /\ ~p.gate.latched => ~a.latched
  BY <1>7
<1>11. life = "dying" /\ seen => p.gate.latched
  BY <1>4, <1>7, <1>10 DEF Latched
<1>12. p.cast > 0 => Sparkless /\ life = "dying"
  <2>1. CASE o.fresh /\ ~p.spark
    <3>1. guard /\ life = "dying" /\ ~a.suppress /\ ~a.latched
      BY <1>2, <1>7, <2>1
    <3> QED BY <1>4, <1>9, <1>20, <2>1, <3>1 DEF Sparkless, Typed
  <2>2. CASE ~(o.fresh /\ ~p.spark)
    BY <1>1, <1>3, <2>2 DEF Counting, Typed
  <2> QED BY <2>1, <2>2
<1>13. "send" \in p.did => Sparkless /\ life \in {"dying", "dead"}
  BY <1>1, <1>3 DEF Counting
<1>14. p.kill > 0 => owed \/ life = "dying"
  BY <1>1, <1>3 DEF Served
<1>15. "die" \in p.did /\ life = "alive" => owed /\ landing = 0
  BY <1>1, <1>3 DEF Served, Landing, Typed, DeathLinkAssumption
<1>16. landing > 0 => p.gate.suppress /\ p.gate.streak = 0 /\ p.gate.grace >= landing
  BY <1>5, <1>7
<1>17. "die" \in p.did =>
         /\ p.gate.suppress /\ p.gate.streak = 0
         /\ life = "alive" => p.gate.grace >= InboundDeathGrace - 1
  BY <1>3, <1>6, <1>7
<1>18. life = "dying" => p.gate.streak <= (IF blip THEN 1 ELSE 0)
  BY <1>4, <1>7
<1>19. life = "dying" /\ cause = "request" => p.gate.suppress
  BY <1>4, <1>7, <1>9
<1> QED BY <1>3, <1>8, <1>11, <1>12, <1>13, <1>14, <1>15, <1>16, <1>17, <1>18, <1>19, <1>20,
           <1>21 DEF p, Sound

\* kill() keeps the record sound, for a received death that is owed or being answered.
LEMMA KillIsSound ==
    ASSUME DeathLinkAssumption, Typed, NEW m, Sound(m), owed \/ life = "dying"
    PROVE  Sound(Kill(m))
<1> DEFINE n == [m EXCEPT !.gate = NoteReceived(@)]
<1> USE DEF Typed
<1>1. m \in Records
  BY DEF Sound
<1>2. /\ n \in Records /\ n.spark = m.spark /\ n.kill = m.kill /\ n.cast = m.cast /\ n.did = m.did
      /\ n.gate \in Gates /\ n.gate.suppress /\ n.gate.latched = m.gate.latched
      /\ n.gate.streak = m.gate.streak /\ n.gate.grace = m.gate.grace
  <2>1. /\ NoteReceived(m.gate) \in Gates /\ NoteReceived(m.gate).suppress
        /\ NoteReceived(m.gate).latched = m.gate.latched
        /\ NoteReceived(m.gate).streak = m.gate.streak
        /\ NoteReceived(m.gate).grace = m.gate.grace
    BY <1>1 DEF NoteReceived, Records, Gates
  <2>2. n.gate = NoteReceived(m.gate)
    BY <1>1 DEF Records
  <2> QED BY <1>1, <2>1, <2>2 DEF Records
<1> HIDE DEF n
<1>3. Sound(n)
  BY <1>2 DEF Sound
<1>4. CASE n.gate.latched
  BY <1>3, <1>4 DEF Kill, n
<1>5. CASE ~n.gate.latched /\ CanApply(n)
  <2>1. Kill(m) = Applied(n)
    BY <1>5 DEF Kill, n
  <2> DEFINE k == [n EXCEPT !.gate = NoteApplied(n.gate), !.kill = 0, !.did = n.did \cup {"die"}]
  <2>2. Applied(n) = k
    BY DEF Applied
  <2>3. /\ NoteApplied(n.gate) \in Gates /\ NoteApplied(n.gate).suppress
        /\ NoteApplied(n.gate).streak = 0 /\ NoteApplied(n.gate).grace = InboundDeathGrace
        /\ NoteApplied(n.gate).latched = n.gate.latched
    BY <1>2 DEF NoteApplied, Gates, DeathLinkAssumption
  <2>4. n.did \cup {"die"} \in SUBSET {"die", "send"}
    BY <1>2 DEF Records
  <2>5. /\ k \in Records /\ k.gate = NoteApplied(n.gate) /\ k.kill = 0 /\ k.cast = n.cast
        /\ k.spark = n.spark /\ k.did = n.did \cup {"die"}
    BY <1>2, <2>3, <2>4 DEF Records
  <2>6. n.gate.streak >= StableAliveTicks
    BY <1>5 DEF CanApply, StablyAlive
  <2>7. landing = 0
    BY <1>3, <2>6 DEF Sound, DeathLinkAssumption
  <2> HIDE DEF k
  <2>8. Sound(k)
    BY <1>3, <2>3, <2>5, <2>7 DEF Sound, DeathLinkAssumption
  <2> QED BY <2>1, <2>2, <2>8
<1>6. CASE ~n.gate.latched /\ ~CanApply(n) /\ n.kill > 0
  BY <1>3, <1>6 DEF Kill, n
<1>7. CASE ~n.gate.latched /\ ~CanApply(n) /\ ~(n.kill > 0)
  <2> DEFINE k == [n EXCEPT !.kill = PendingInboundDeath]
  <2>1. Kill(m) = k
    BY <1>7 DEF Kill, n
  <2>2. /\ k \in Records /\ k.gate = n.gate /\ k.cast = n.cast /\ k.spark = n.spark
        /\ k.did = n.did
    BY <1>2 DEF Records, DeathLinkAssumption
  <2> HIDE DEF k
  <2>3. Sound(k)
    BY <1>3, <2>2 DEF Sound
  <2> QED BY <2>1, <2>3
<1> QED BY <1>4, <1>5, <1>6, <1>7

-----------------------------------------------------------------------------
(***************************************************************************)
(* The steps.                                                              *)
(***************************************************************************)
LEMMA DeathInvInit == DeathLinkAssumption /\ Init => DeathInv
<1> SUFFICES ASSUME DeathLinkAssumption, Init
             PROVE  DeathInv
  OBVIOUS
<1>0. ~guard /\ ~seen /\ ~blip /\ lastSpark = spark /\ ~inbound
  BY DEF Init
<1> USE DEF Init
<1>1. Typed
  <2>1. gate \in Gates
    BY DEF Gates
  <2>2. /\ guard = FALSE /\ seen = FALSE /\ blip = FALSE /\ area = FALSE /\ spark = FALSE
        /\ sparked = FALSE /\ screens \in BOOLEAN /\ lastSpark = FALSE /\ linked = FALSE
        /\ inbound = FALSE /\ owed = FALSE
    OBVIOUS
  <2> QED BY <2>1, <2>2 DEF Typed
<1>2. BodyInv /\ SparkKept /\ Unsettled /\ Landing /\ Requested /\ Latched
  <2>1. life = "alive" /\ landing = 0
    OBVIOUS
  <2> HIDE DEF Init
  <2> QED BY <1>0, <2>1 DEF BodyInv, SparkKept, Unsettled, Landing, Requested, Latched
<1>3. Counting /\ Sent /\ Served
  BY <1>0 DEF Counting, Sent, Sparkless, Served
<1> QED BY <1>1, <1>2, <1>3 DEF DeathInv

\* The game's step: what the mod has counted stays true of the death.
LEMMA DeathInvGame ==
    ASSUME DeathLinkAssumption, ~Revives, DeathInv, GameStep
    PROVE  DeathInv'
<1>1. /\ frame = "game" /\ frame' = "tick"
      /\ gate' = gate /\ lastSpark' = lastSpark /\ killTicks' = killTicks
      /\ castTicks' = castTicks /\ linked' = linked /\ inbound' = inbound /\ did' = did
      /\ screens' = screens
  BY DEF GameStep, modVars
<1>2. CASE /\ mode' \in {"menu", "stalled"}
           /\ UNCHANGED <<life, guard, seen, blip, area, spark, sparked, cause, landing, owed>>
  <2>1. Typed'
    BY <1>1, <1>2 DEF DeathInv, Typed
  <2>2. BodyInv' /\ SparkKept' /\ Requested' /\ Latched'
    BY <1>1, <1>2 DEF DeathInv, BodyInv, SparkKept, Requested, Latched
  <2>3. Unsettled' /\ Landing'
    BY <1>1, <1>2 DEF DeathInv, Unsettled, Landing, Unobserved
  <2>4. Counting' /\ Sent' /\ Served'
    BY <1>1, <1>2 DEF DeathInv, Counting, Sent, Sparkless, Served
  <2> QED BY <2>1, <2>2, <2>3, <2>4 DEF DeathInv
<1> USE DEF DeathInv
<1>3. ASSUME mode' = "runs", life = "alive", NEW why \in {"own", "request"}, Dies(why),
             why = "request" => landing > 0
      PROVE  DeathInv'
  <2>1. /\ life' = "dying" /\ seen' = guard' /\ cause' = why /\ area' = FALSE
        /\ owed' = FALSE /\ landing' = 0 /\ guard' \in BOOLEAN /\ blip' \in BOOLEAN
        /\ sparked' = spark /\ spark' \in {spark, FALSE} /\ (blip' => guard')
    BY <1>3 DEF Dies, DropsSpark, Blips
  <2>6. blip' => seen \/ spark' = sparked' \/ EarlyBlips
    BY <1>3 DEF Dies, Blips
  <2>7. ~seen /\ ~guard /\ ~blip
    BY <1>3 DEF BodyInv
  <2>2. Typed'
    BY <1>1, <1>3, <2>1 DEF Typed
  <2>3. BodyInv' /\ SparkKept' /\ Unsettled' /\ Latched'
    BY <1>1, <1>3, <2>1, <2>6, <2>7 DEF BodyInv, SparkKept, Unsettled, Unobserved, Latched
  <2>4. Landing' /\ Requested'
    BY <1>1, <1>3, <2>1 DEF Landing, Requested
  <2>5. Counting' /\ Sent' /\ Served'
    BY <1>1, <1>3, <2>1 DEF Counting, Sent, Sparkless, Served
  <2> QED BY <2>2, <2>3, <2>4, <2>5
<1>4. ASSUME mode' = "runs", life = "alive", landing # 1,
             landing' = IF landing > 0 THEN landing - 1 ELSE 0,
             area' \in BOOLEAN, spark' \in BOOLEAN,
             UNCHANGED <<life, guard, seen, blip, sparked, cause, owed>>
      PROVE  DeathInv'
  <2>1. Typed'
    BY <1>1, <1>4 DEF Typed
  <2>2. BodyInv' /\ SparkKept' /\ Unsettled' /\ Latched' /\ Requested'
    BY <1>1, <1>4 DEF BodyInv, SparkKept, Unsettled, Latched, Requested
  <2>3. Landing'
    BY <1>1, <1>4 DEF Landing, Unobserved, Typed, Gates
  <2>4. Counting' /\ Sent' /\ Served'
    BY <1>1, <1>4 DEF Counting, Sent, Sparkless, Served
  <2> QED BY <2>1, <2>2, <2>3, <2>4
<1>5. ASSUME mode' = "runs", life = "alive", life' = "gone", landing' = 0, area' = FALSE,
             UNCHANGED <<guard, seen, blip, spark, sparked, cause, owed>>
      PROVE  DeathInv'
  <2>1. Typed'
    BY <1>1, <1>5 DEF Typed
  <2>2. BodyInv' /\ SparkKept' /\ Unsettled' /\ Landing' /\ Requested' /\ Latched'
    BY <1>1, <1>5 DEF BodyInv, SparkKept, Unsettled, Landing, Requested, Latched
  <2>3. Counting' /\ Sent' /\ Served'
    BY <1>1, <1>5 DEF Counting, Sent, Sparkless, Served
  <2> QED BY <2>1, <2>2, <2>3
<1>6. ASSUME mode' = "runs", life = "dying", guard' \in BOOLEAN, seen' = (seen \/ guard'),
             DropsSpark, Blips, UNCHANGED <<life, sparked>>,
             landing' = 0, UNCHANGED <<area, cause, owed>>
      PROVE  DeathInv'
  <2>1. /\ blip' \in BOOLEAN /\ spark' \in BOOLEAN /\ (blip' => ~blip)
        /\ blip' => seen \/ spark' = sparked' \/ EarlyBlips
    BY <1>6 DEF Blips, DropsSpark, Typed
  <2>2. Typed'
    BY <1>1, <1>6, <2>1 DEF Typed
  <2>3. BodyInv' /\ SparkKept' /\ Landing' /\ Requested' /\ Latched'
    BY <1>1, <1>6, <2>1 DEF BodyInv, SparkKept, Landing, Requested, Latched
  <2>4. Unsettled'
    <3>1. blip' => gate.streak = 0
      BY <1>1, <1>6, <2>1 DEF Unsettled, Unobserved, Typed, Gates
    <3> QED BY <1>1, <1>6, <3>1 DEF Unsettled, Unobserved
  <2>5. Counting' /\ Sent' /\ Served'
    BY <1>1, <1>6 DEF Counting, Sent, Sparkless, Served
  <2> QED BY <2>2, <2>3, <2>4, <2>5
<1>7. ASSUME mode' = "runs", life = "dying", seen, life' = "dead", guard' = FALSE, seen' = FALSE,
             blip' = FALSE, UNCHANGED <<spark, sparked>>, landing' = 0,
             UNCHANGED <<area, cause, owed>>
      PROVE  DeathInv'
  <2>1. Typed'
    BY <1>1, <1>7 DEF Typed
  <2>2. BodyInv' /\ SparkKept' /\ Unsettled' /\ Landing' /\ Requested' /\ Latched'
    BY <1>1, <1>7 DEF BodyInv, SparkKept, Unsettled, Landing, Requested, Latched
  <2>3. Counting' /\ Sent' /\ Served'
    BY <1>1, <1>7 DEF Counting, Sent, Sparkless, Served, Latched
  <2> QED BY <2>1, <2>2, <2>3
<1>8. ASSUME mode' = "runs", Respawns
      PROVE  DeathInv'
  <2>1. /\ life \in {"dead", "gone"} /\ life' \in {"dead", "gone", "alive"}
        /\ life' = "alive" => life = "gone"
        /\ guard' = guard /\ seen' = seen /\ blip' = blip /\ area' = area /\ spark' = spark
        /\ sparked' = sparked /\ cause' = cause /\ landing' = landing /\ owed' = owed
    BY <1>8 DEF Respawns
  <2>2. Typed'
    BY <1>1, <1>8, <2>1 DEF Typed
  <2>3. BodyInv' /\ SparkKept' /\ Unsettled' /\ Landing' /\ Requested' /\ Latched'
    BY <1>1, <1>8, <2>1 DEF BodyInv, SparkKept, Unsettled, Landing, Requested, Latched, Typed
  <2>4. Counting' /\ Sent' /\ Served'
    BY <1>1, <1>8, <2>1 DEF Counting, Sent, Sparkless, Served
  <2> QED BY <2>2, <2>3, <2>4
<1>9. CASE mode' = "runs" /\ Lives
  BY <1>3, <1>4, <1>5, <1>9 DEF Lives
<1>10. CASE mode' = "runs" /\ Dying
  BY <1>6, <1>7, <1>10 DEF Dying
<1> QED BY <1>2, <1>8, <1>9, <1>10 DEF GameStep

\* What a tick leaves of its record, and of the game.
LEMMA TickFacts ==
    ASSUME DeathLinkAssumption, GraceOutlastsLatency, DeathInv, Tick
    PROVE  \E m \in Records :
              /\ Sound(m) /\ frame = "tick" /\ frame' = "game"
              /\ gate' = m.gate /\ lastSpark' = m.spark /\ killTicks' = m.kill
              /\ castTicks' = m.cast /\ did' = m.did /\ inbound' = FALSE
              /\ landing' \in (IF "die" \in m.did /\ life = "alive" /\ landing = 0
                               THEN 1..Latency ELSE {landing})
              /\ life' = life /\ guard' = guard /\ seen' = seen /\ blip' = blip /\ area' = area
              /\ mode' = mode /\ spark' = spark /\ sparked' = sparked /\ cause' = cause
              /\ screens' = screens /\ linked' = linked /\ owed' = owed
<1> DEFINE m == IF inbound THEN Kill(Poll(Here)) ELSE Poll(Here)
<1>1. frame = "tick"
  BY DEF Tick
<1>2. Sound(Poll(Here))
  BY <1>1, PollIsSound
<1>3. Sound(m)
  BY <1>2, KillIsSound DEF DeathInv, Served
<1>4. m \in Records
  BY <1>3 DEF Sound
<1> QED BY <1>1, <1>3, <1>4 DEF Tick, gameVars

\* A tick keeps it.
LEMMA DeathInvTick ==
    ASSUME DeathLinkAssumption, GraceOutlastsLatency, DeathInv, Tick
    PROVE  DeathInv'
<1>1. PICK m \in Records :
              /\ Sound(m) /\ frame = "tick" /\ frame' = "game"
              /\ gate' = m.gate /\ lastSpark' = m.spark /\ killTicks' = m.kill
              /\ castTicks' = m.cast /\ did' = m.did /\ inbound' = FALSE
              /\ landing' \in (IF "die" \in m.did /\ life = "alive" /\ landing = 0
                               THEN 1..Latency ELSE {landing})
              /\ life' = life /\ guard' = guard /\ seen' = seen /\ blip' = blip /\ area' = area
              /\ mode' = mode /\ spark' = spark /\ sparked' = sparked /\ cause' = cause
              /\ screens' = screens /\ linked' = linked /\ owed' = owed
  BY TickFacts
<1>2. landing' \in Nat
  BY <1>1 DEF DeathInv, Typed, DeathLinkAssumption
<1>3. Typed'
  <2>1. gate' \in Gates /\ lastSpark' \in BOOLEAN /\ killTicks' \in Nat /\ castTicks' \in Nat
    BY <1>1 DEF Records
  <2>2. /\ guard' \in BOOLEAN /\ seen' \in BOOLEAN /\ blip' \in BOOLEAN /\ area' \in BOOLEAN
        /\ spark' \in BOOLEAN /\ sparked' \in BOOLEAN /\ screens' \in BOOLEAN
        /\ linked' \in BOOLEAN /\ inbound' \in BOOLEAN /\ owed' \in BOOLEAN
    BY Zenon, <1>1 DEF DeathInv, Typed
  <2>3. frame' \in {"game", "tick"} /\ life' \in {"alive", "dying", "dead", "gone"}
    BY <1>1 DEF DeathInv, Typed
  <2>4. mode' \in {"runs", "menu", "stalled"} /\ cause' \in {"own", "request"}
    BY <1>1 DEF DeathInv, Typed
  <2> QED BY <1>2, <2>1, <2>2, <2>3, <2>4 DEF Typed
<1>4. BodyInv'
  BY <1>1 DEF DeathInv, BodyInv
<1>5. SparkKept' /\ Requested' /\ Latched'
  BY <1>1 DEF Sound, SparkKept, Requested, Latched
<1>6. Unsettled'
  BY <1>1 DEF Sound, Unsettled, Unobserved
<1>7. Landing'
  <2>1. CASE "die" \in m.did /\ life = "alive" /\ landing = 0
    <3>1. landing' <= Latency /\ landing' \in Nat
      BY <1>1, <1>2, <2>1 DEF DeathLinkAssumption
    <3>2. m.gate.suppress /\ m.gate.streak = 0 /\ m.gate.grace >= InboundDeathGrace - 1
      BY <1>1, <2>1 DEF Sound
    <3>3. m.gate.grace \in Nat
      BY DEF Records, Gates
    <3>4. m.gate.grace >= landing'
      BY <3>1, <3>2, <3>3 DEF GraceOutlastsLatency, DeathLinkAssumption
    <3> QED BY <1>1, <3>2, <3>4 DEF Landing, Unobserved
  <2>2. CASE ~("die" \in m.did /\ life = "alive" /\ landing = 0)
    BY <1>1, <2>2 DEF Sound, Landing, Unobserved
  <2> QED BY <2>1, <2>2
<1>8. Counting' /\ Sent'
  BY <1>1 DEF Sound, Counting, Sent, Sparkless
<1>9. Served'
  BY <1>1 DEF Sound, Served
<1> QED BY <1>3, <1>4, <1>5, <1>6, <1>7, <1>8, <1>9 DEF DeathInv

\* Every step keeps it.
LEMMA DeathInvNext ==
    DeathLinkAssumption /\ GraceOutlastsLatency /\ ~Revives /\ DeathInv /\ [Next]_dlVars
        => DeathInv'
<1> SUFFICES ASSUME DeathLinkAssumption, GraceOutlastsLatency, ~Revives, DeathInv, [Next]_dlVars
             PROVE  DeathInv'
  OBVIOUS
<1>1. ASSUME frame = "tick", frame' = frame, landing' = landing, gate' = gate,
             lastSpark' = lastSpark, did' = did, UNCHANGED gameVars,
             killTicks' \in Nat, castTicks' \in Nat, linked' \in BOOLEAN, inbound' \in BOOLEAN,
             owed' \in BOOLEAN, castTicks' > 0 => castTicks > 0, Served'
      PROVE  DeathInv'
  <2>1. /\ life' = life /\ guard' = guard /\ seen' = seen /\ blip' = blip /\ area' = area
        /\ mode' = mode /\ spark' = spark /\ sparked' = sparked /\ cause' = cause
        /\ screens' = screens
    BY <1>1 DEF gameVars
  <2>2. Typed'
    BY <1>1, <2>1 DEF DeathInv, Typed
  <2>3. BodyInv' /\ SparkKept' /\ Requested' /\ Latched'
    BY <1>1, <2>1 DEF DeathInv, BodyInv, SparkKept, Requested, Latched
  <2>4. Unsettled' /\ Landing'
    BY <1>1, <2>1 DEF DeathInv, Unsettled, Landing, Unobserved
  <2>5. Counting' /\ Sent'
    BY <1>1, <2>1 DEF DeathInv, Counting, Sent, Sparkless
  <2> QED BY <1>1, <2>2, <2>3, <2>4, <2>5 DEF DeathInv
<1>2. CASE GameStep
  BY <1>2, DeathInvGame
<1>3. CASE Tick
  BY <1>3, DeathInvTick
<1>4. CASE Bounce
  <2>1. /\ frame = "tick" /\ frame' = frame /\ landing' = landing /\ gate' = gate
        /\ lastSpark' = lastSpark /\ did' = did /\ UNCHANGED gameVars /\ killTicks' = killTicks
        /\ castTicks' = castTicks /\ linked' = linked /\ inbound' = TRUE
        /\ owed' = (life # "dying")
    BY <1>4 DEF Bounce, modVars
  <2>2. Served'
    BY <2>1 DEF Served, gameVars
  <2>3. owed' \in BOOLEAN
    BY <2>1
  <2>4. killTicks' \in Nat /\ castTicks' \in Nat /\ linked' \in BOOLEAN /\ inbound' \in BOOLEAN
    BY <2>1 DEF DeathInv, Typed
  <2> QED BY <1>1, <2>1, <2>2, <2>3, <2>4
<1>5. CASE LinkChanges
  <2>1. /\ frame = "tick" /\ frame' = frame /\ landing' = landing /\ gate' = gate
        /\ lastSpark' = lastSpark /\ did' = did /\ UNCHANGED gameVars /\ killTicks' = 0
        /\ castTicks' = 0 /\ linked' = ~linked /\ inbound' = FALSE /\ owed' = FALSE
    BY <1>5 DEF LinkChanges
  <2>2. Served'
    BY <2>1 DEF Served
  <2>3. linked' \in BOOLEAN /\ inbound' \in BOOLEAN /\ owed' \in BOOLEAN
    BY <2>1
  <2> QED BY <1>1, <2>1, <2>2, <2>3
<1>6. CASE UNCHANGED dlVars
  <2>1. /\ frame' = frame /\ life' = life /\ guard' = guard /\ seen' = seen /\ blip' = blip
        /\ area' = area /\ mode' = mode /\ spark' = spark /\ sparked' = sparked /\ cause' = cause
        /\ screens' = screens /\ landing' = landing /\ gate' = gate /\ lastSpark' = lastSpark
        /\ killTicks' = killTicks /\ castTicks' = castTicks /\ linked' = linked
        /\ inbound' = inbound /\ owed' = owed /\ did' = did
    BY <1>6 DEF dlVars, gameVars, modVars
  <2>2. Typed' /\ BodyInv' /\ SparkKept' /\ Requested' /\ Latched'
    BY <2>1 DEF DeathInv, Typed, BodyInv, SparkKept, Requested, Latched
  <2>3. Unsettled' /\ Landing' /\ Counting' /\ Sent' /\ Served'
    BY <2>1 DEF DeathInv, Unsettled, Landing, Unobserved, Counting, Sent, Sparkless, Served
  <2> QED BY <2>2, <2>3 DEF DeathInv
<1> QED BY <1>2, <1>3, <1>4, <1>5, <1>6 DEF Next

\* Where no spark revives and the grace outlasts a requested death's way to landing,
\* no received death is sent back, whatever health reads in a death and when.
THEOREM NoDeathEchoed ==
    DeathLinkAssumption /\ GraceOutlastsLatency /\ ~Revives => (Spec => []NoEcho)
<1> SUFFICES ASSUME DeathLinkAssumption, GraceOutlastsLatency, ~Revives
             PROVE  Spec => []NoEcho
  OBVIOUS
<1>1. Init => DeathInv
  BY DeathInvInit
<1>2. DeathInv /\ [Next]_dlVars => DeathInv'
  BY DeathInvNext
<1>3. DeathInv => NoEcho
  BY DEF DeathInv, Sent, Sparkless, NoEcho
<1> QED BY <1>1, <1>2, <1>3, PTL DEF Spec

\* If besides no blip shows the dropped sparks before the guard byte is seen, what reaches
\* the multiworld is a death of the player's own, begun without sparks.
THEOREM OnlyOwnDeathsSent ==
    DeathLinkAssumption /\ GraceOutlastsLatency /\ ~Revives /\ ~EarlyBlips
        => (Spec => []SendsOwnDeaths)
<1> SUFFICES ASSUME DeathLinkAssumption, GraceOutlastsLatency, ~Revives, ~EarlyBlips
             PROVE  Spec => []SendsOwnDeaths
  OBVIOUS
<1>1. Init => DeathInv
  BY DeathInvInit
<1>2. DeathInv /\ [Next]_dlVars => DeathInv'
  BY DeathInvNext
<1>3. DeathInv => SendsOwnDeaths
  BY DEF DeathInv, Sent, Sparkless, SendsOwnDeaths, NoEcho, OnlySparkless
<1> QED BY <1>1, <1>2, <1>3, PTL DEF Spec

\* Whatever health reads in a death, a living player is killed only for a received death of
\* this connection that no other death has answered, and never twice.
THEOREM OneLifeForABounce ==
    DeathLinkAssumption /\ GraceOutlastsLatency /\ ~Revives => (Spec => OneLifePerBounce)
<1> SUFFICES ASSUME DeathLinkAssumption, GraceOutlastsLatency, ~Revives
             PROVE  Spec => OneLifePerBounce
  OBVIOUS
<1>1. Init => DeathInv
  BY DeathInvInit
<1>2. DeathInv /\ [Next]_dlVars => DeathInv'
  BY DeathInvNext
<1>3. DeathInv /\ [Next]_dlVars =>
        [frame = "tick" /\ frame' = "game" /\ "die" \in did' /\ life = "alive"
           => owed /\ landing = 0]_dlVars
  <2> SUFFICES ASSUME DeathInv, Next, frame = "tick", frame' = "game", "die" \in did',
                      life = "alive"
               PROVE  owed /\ landing = 0
    OBVIOUS
  <2>1. Tick
    BY DEF Next, GameStep, Bounce, LinkChanges
  <2> QED BY <2>1, TickFacts DEF Sound
<1> QED BY <1>1, <1>2, <1>3, PTL DEF Spec, OneLifePerBounce
=============================================================================
