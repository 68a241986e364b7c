---------------------------- MODULE Parts_proofs ----------------------------
(***************************************************************************)
(* Proofs about the components that MCParts puts side by side: first the   *)
(* smaller ones, each theorem about the behaviours of one of them, then    *)
(* that in the behaviours of PartsSpec every part behaves as it would      *)
(* alone, so that the properties TLC checks there hold for every value of  *)
(* the constants.  The theorems of the larger parts are in their modules.  *)
(***************************************************************************)
EXTENDS MCParts, Integers, Sequences, FiniteSetTheorems, SequenceTheorems, TLAPS

-----------------------------------------------------------------------------
(***************************************************************************)
(* BossTracker.                                                            *)
(***************************************************************************)
\* Where the mask may be: a save is born with the preset bits, and the title's slot
\* has none.
MaskPlaced ==
    /\ bossTurn \in {"game", "poll"} /\ bossBound \in BOOLEAN /\ primed \in BOOLEAN
    /\ Preset \subseteq bossDisk /\ (mask = {} \/ Preset \subseteq mask)

\* After a poll the baseline is the mask of the bound slot, and there is none without.
Baseline ==
    bossTurn = "game" => /\ bossBound => primed /\ prevMask = mask
                         /\ ~bossBound => ~primed

\* Before one, what rose above the baseline was killed; and what was killed and is not
\* reported yet is what a poll will take for kills.
Unpolled ==
    bossTurn = "poll" =>
        /\ bossBound /\ primed => mask \ prevMask \subseteq killed
        /\ \/ killed \subseteq bossChecked
           \/ /\ bossBound /\ primed /\ prevMask \subseteq mask
              /\ mask \ prevMask \subseteq Boss
              /\ Bosses!Cardinality(mask \ prevMask) < WideRise
              /\ killed \subseteq bossChecked \cup (mask \ prevMask)

BossInv == MaskPlaced /\ Baseline /\ Unpolled /\ Bosses!KillsReported

\* Sets of bosses are counted by numbers.
LEMMA BossesCounted ==
    ASSUME Bosses!BossTrackerAssumption, NEW S, S \subseteq Boss
    PROVE  Bosses!Cardinality(S) \in Nat
<1>1. IsFiniteSet(Boss)
  BY DEF Bosses!BossTrackerAssumption, Bosses!IsFiniteSet, IsFiniteSet
<1>2. Cardinality(S) \in Nat
  BY <1>1, FS_Subset, FS_CardinalityType
<1>3. Bosses!Cardinality(S) = Cardinality(S)
  BY DEF Bosses!Cardinality, Cardinality
<1> QED BY <1>2, <1>3

\* Every step keeps the invariant.
LEMMA BossInvNext ==
    Bosses!BossTrackerAssumption /\ BossInv /\ [Bosses!Next]_(Bosses!btVars) => BossInv'
<1> SUFFICES ASSUME Bosses!BossTrackerAssumption, BossInv, [Bosses!Next]_(Bosses!btVars)
             PROVE  BossInv'
  OBVIOUS
<1> USE DEF BossInv, MaskPlaced, Baseline, Unpolled, Bosses!KillsReported
<1>1. CASE UNCHANGED Bosses!btVars
  BY <1>1 DEF Bosses!btVars
<1>2. CASE Bosses!GameStep
  <2>1. bossTurn = "game" /\ bossTurn' = "poll" /\ UNCHANGED <<prevMask, bossChecked>>
    BY <1>2 DEF Bosses!GameStep
  <2>2. CASE Bosses!Title
    BY <2>1, <2>2 DEF Bosses!Title
  <2>3. CASE Bosses!Load
    BY <2>1, <2>3 DEF Bosses!Load
  <2>4. ASSUME NEW bosses \in SUBSET Boss, Bosses!Kill(bosses)
        PROVE  BossInv'
    <3>1. /\ bossBound /\ primed /\ prevMask = mask /\ mask # {} /\ mask' = mask \cup bosses
          /\ bosses \cap mask = {} /\ killed' = killed \cup bosses
          /\ UNCHANGED <<bossBound, bossDisk, primed>>
      BY <2>1, <2>4 DEF Bosses!Kill
    <3>2. mask' \ prevMask' = bosses
      BY <2>1, <3>1
    <3>3. Bosses!Cardinality(bosses) < WideRise
      BY <2>4 DEF Bosses!Kill
    <3>4. Unpolled'
      BY <2>1, <3>1, <3>2, <3>3
    <3>5. MaskPlaced' /\ Baseline' /\ Bosses!KillsReported'
      BY <2>1, <3>1
    <3> QED BY <3>4, <3>5
  <2>5. CASE Bosses!NewGamePlus
    BY <2>1, <2>5 DEF Bosses!NewGamePlus
  <2>6. CASE Bosses!GameSaves
    BY <2>1, <2>6 DEF Bosses!GameSaves
  <2> QED BY <1>2, <2>2, <2>3, <2>4, <2>5, <2>6 DEF Bosses!GameStep
<1>3. CASE Bosses!Poll
  <2>1. bossTurn = "poll" /\ bossTurn' = "game" /\ UNCHANGED <<bossBound, mask, bossDisk, killed>>
    BY <1>3 DEF Bosses!Poll
  <2>2. CASE ~bossBound /\ primed' = FALSE /\ UNCHANGED <<prevMask, bossChecked>>
    BY <2>1, <2>2
  <2>3. CASE bossBound /\ (~primed \/ Bosses!Replaced) /\ Bosses!Prime
    <3>1. killed \subseteq bossChecked
      BY <2>1, <2>3, BossesCounted DEF Bosses!Replaced, Bosses!BossTrackerAssumption
    <3> QED BY <2>1, <2>3, <3>1 DEF Bosses!Prime
  <2>4. CASE /\ bossBound /\ primed /\ prevMask' = mask
             /\ bossChecked' = bossChecked \cup (mask \ prevMask) /\ UNCHANGED primed
    BY <2>1, <2>4
  <2> QED BY <1>3, <2>2, <2>3, <2>4 DEF Bosses!Poll
<1> QED BY <1>1, <1>2, <1>3 DEF Bosses!Next

\* No boss is reported that was not beaten and none that was goes unreported, however
\* many bosses there are and whatever a new save is born with.
THEOREM EveryKillReported ==
    Bosses!BossTrackerAssumption => (Bosses!Spec => []Bosses!KillsReported)
<1> SUFFICES ASSUME Bosses!BossTrackerAssumption
             PROVE  Bosses!Spec => []Bosses!KillsReported
  OBVIOUS
<1>1. Bosses!Init => BossInv
  BY DEF Bosses!Init, BossInv, MaskPlaced, Baseline, Unpolled, Bosses!KillsReported
<1>2. BossInv /\ [Bosses!Next]_(Bosses!btVars) => BossInv'
  BY BossInvNext
<1>3. BossInv => Bosses!KillsReported
  BY DEF BossInv
<1> QED BY <1>1, <1>2, <1>3, PTL DEF Bosses!Spec

-----------------------------------------------------------------------------
(***************************************************************************)
(* SafetyGate.                                                             *)
(***************************************************************************)
\* The link's commands.
Command == {"connect", "disconnect"}

\* A refusal that has been acted on has the last word in the queue to the link; and
\* before there is an overlay nobody has connected.
GateInv ==
    /\ startup \in {"probes", "hooks", "overlay", "ready"}
    /\ commands \in Seq(Command)
    /\ ~Safety!OverlayUp => ~connecting /\ ~dropping /\ ~gateLinked /\ commands = <<>>
    /\ verdict = "Refused" /\ ~dropping /\ ~overtaken =>
         IF commands = <<>> THEN ~gateLinked ELSE commands[Len(commands)] = "disconnect"

\* What is appended to the queue is its last command.
LEMMA LastAppended ==
    ASSUME NEW q \in Seq(Command), NEW c \in Command
    PROVE  /\ Append(q, c) \in Seq(Command) /\ Append(q, c) # <<>>
           /\ Append(q, c)[Len(Append(q, c))] = c
<1>1. Len(q) \in Nat /\ Len(Append(q, c)) = Len(q) + 1
  BY AppendProperties, LenProperties
<1> QED BY <1>1, AppendProperties

\* The rest of a queue ends as the queue does, when anything is left of it.
LEMMA LastOfTail ==
    ASSUME NEW q \in Seq(Command), q # <<>>
    PROVE  /\ Tail(q) \in Seq(Command)
           /\ IF Tail(q) = <<>> THEN Head(q) = q[Len(q)] ELSE Tail(q)[Len(Tail(q))] = q[Len(q)]
<1>1. /\ Tail(q) \in Seq(Command) /\ Len(Tail(q)) = Len(q) - 1 /\ Len(q) \in Nat
      /\ \A i \in 1 .. Len(Tail(q)) : Tail(q)[i] = q[i + 1]
  BY HeadTailProperties, LenProperties
<1>2. CASE Tail(q) = <<>>
  <2>1. Len(q) = 1
    BY <1>1, <1>2, EmptySeq, LenProperties
  <2>2. Head(q) = q[1]
    OBVIOUS
  <2> QED BY <1>1, <1>2, <2>1, <2>2
<1>3. CASE Tail(q) # <<>>
  <2>1. Len(Tail(q)) \in 1 .. Len(Tail(q))
    BY <1>1, <1>3, EmptySeq, LenProperties
  <2> QED BY <1>1, <1>3, <2>1
<1> QED BY <1>1, <1>2, <1>3

\* Every step keeps the invariant.
LEMMA GateInvNext == GateInv /\ [Safety!Next]_(Safety!sgVars) => GateInv'
<1> SUFFICES ASSUME GateInv, [Safety!Next]_(Safety!sgVars)
             PROVE  GateInv'
  OBVIOUS
<1> USE DEF GateInv, Safety!OverlayUp
<1>1. CASE UNCHANGED Safety!sgVars
  BY <1>1 DEF Safety!sgVars
<1>2. CASE Safety!RunStaticProbes
  <2>1. /\ startup = "probes" /\ startup' = "hooks" /\ UNCHANGED connecting
        /\ UNCHANGED commands /\ UNCHANGED gateLinked /\ UNCHANGED overtaken
    BY <1>2 DEF Safety!RunStaticProbes
  <2>2. ~dropping'
    BY <1>2, <2>1 DEF Safety!RunStaticProbes, Safety!Update
  <2> QED BY <2>1, <2>2
<1>3. CASE Safety!BuildRest
  BY <1>3 DEF Safety!BuildRest
<1>4. CASE Safety!FixedUpdate
  <2>1. /\ startup = "ready" /\ ~Safety!Settled
        /\ UNCHANGED startup /\ UNCHANGED connecting /\ UNCHANGED commands
        /\ UNCHANGED gateLinked /\ UNCHANGED overtaken
    BY <1>4 DEF Safety!FixedUpdate
  <2>2. dropping' = (verdict' = "Refused")
    BY <1>4, <2>1 DEF Safety!FixedUpdate, Safety!Update
  <2> QED BY <2>1, <2>2
<1>5. CASE Safety!WorldUpdate
  <2>1. /\ startup = "ready" /\ ~dropping
        /\ UNCHANGED startup /\ UNCHANGED connecting /\ UNCHANGED commands
        /\ UNCHANGED gateLinked /\ UNCHANGED overtaken
    BY <1>5 DEF Safety!WorldUpdate
  <2>2. IF Safety!Settled THEN verdict' = verdict ELSE dropping' = (verdict' = "Refused")
    BY <1>5, <2>1 DEF Safety!WorldUpdate, Safety!Update
  <2> QED BY <2>1, <2>2 DEF Safety!Settled
<1>6. CASE Safety!DropSession
  <2>1. /\ dropping /\ dropping' = FALSE /\ UNCHANGED startup /\ UNCHANGED connecting
        /\ UNCHANGED verdict /\ UNCHANGED gateLinked
        /\ commands' = IF enforcing THEN Append(commands, "disconnect") ELSE commands
        /\ overtaken' = (overtaken \/ ~enforcing)
    BY <1>6 DEF Safety!DropSession
  <2>2. startup \in {"overlay", "ready"}
    BY <2>1
  <2>3. CASE enforcing
    <3>1. commands' \in Seq(Command) /\ commands' # <<>> /\ commands'[Len(commands')] = "disconnect"
      BY <2>1, <2>3, LastAppended DEF Command
    <3> QED BY <2>1, <2>2, <3>1
  <2>4. CASE ~enforcing
    BY <2>1, <2>4
  <2> QED BY <2>3, <2>4
<1>7. CASE Safety!ConnectChecks
  BY <1>7 DEF Safety!ConnectChecks
<1>8. CASE Safety!ConnectQueues
  <2>1. /\ connecting /\ connecting' = FALSE /\ commands' = Append(commands, "connect")
        /\ overtaken' = (overtaken \/ (verdict = "Refused" /\ ~dropping))
        /\ UNCHANGED startup /\ UNCHANGED verdict /\ UNCHANGED dropping /\ UNCHANGED gateLinked
    BY <1>8 DEF Safety!ConnectQueues
  <2>2. commands' \in Seq(Command)
    BY <2>1, LastAppended DEF Command
  <2> QED BY <2>1, <2>2
<1>9. CASE Safety!SetGateEnforcing
  BY <1>9 DEF Safety!SetGateEnforcing
<1>10. CASE Safety!LinkActs
  <2>1. /\ commands # <<>> /\ commands' = Tail(commands)
        /\ gateLinked' = (Head(commands) = "connect")
        /\ UNCHANGED startup /\ UNCHANGED connecting /\ UNCHANGED verdict
        /\ UNCHANGED dropping /\ UNCHANGED overtaken
    BY <1>10 DEF Safety!LinkActs
  <2>2. /\ commands' \in Seq(Command)
        /\ IF commands' = <<>> THEN Head(commands) = commands[Len(commands)]
                              ELSE commands'[Len(commands')] = commands[Len(commands)]
    BY <2>1, LastOfTail
  <2> QED BY <2>1, <2>2
<1> QED BY <1>1, <1>2, <1>3, <1>4, <1>5, <1>6, <1>7, <1>8, <1>9, <1>10 DEF Safety!Next

\* Whatever the interleaving of the three threads and however many commands are queued,
\* a refusal that was acted on leaves the mod in no multiworld.
THEOREM RefusalHolds == Safety!Spec => []Safety!RefusalReachesBack
<1>1. Safety!Init => GateInv
  BY DEF Safety!Init, GateInv, Safety!OverlayUp
<1>2. GateInv /\ [Safety!Next]_(Safety!sgVars) => GateInv'
  BY GateInvNext
<1>3. GateInv => Safety!RefusalReachesBack
  BY DEF GateInv, Safety!RefusalReachesBack
<1> QED BY <1>1, <1>2, <1>3, PTL DEF Safety!Spec

\* A settled verdict never changes (ap_gate's latch): the safety of VerdictSettles.
THEOREM VerdictIsFinal ==
    Safety!Spec => [][Safety!Settled => verdict' = verdict]_(Safety!sgVars)
<1>1. [Safety!Next]_(Safety!sgVars) => [Safety!Settled => verdict' = verdict]_(Safety!sgVars)
  <2> SUFFICES ASSUME Safety!Next, Safety!Settled PROVE verdict' = verdict
    OBVIOUS
  <2> QED BY DEF Safety!Next, Safety!RunStaticProbes, Safety!BuildRest, Safety!FixedUpdate,
                 Safety!WorldUpdate, Safety!DropSession, Safety!ConnectChecks,
                 Safety!ConnectQueues, Safety!SetGateEnforcing, Safety!LinkActs, Safety!Update
<1> QED BY <1>1, PTL DEF Safety!Spec

-----------------------------------------------------------------------------
(***************************************************************************)
(* Train.                                                                  *)
(***************************************************************************)
\* What the hooks were told is what the session had at the last tick, and a machine has
\* prompted for no longer than the ticks of the interval that have gone by.
TrainInv ==
    /\ trainGate = trainAuthed /\ trainMask \subseteq tickets
    /\ machineBlocked = (trainAuthed /\ ~machineCheck)
    /\ ride \in tickets \cup {"none"}
    /\ trainCooldown \in Nat /\ openFor \in Nat /\ openFor + trainCooldown <= WalkInterval

\* Every step keeps the invariant.
LEMMA TrainInvNext ==
    Station!TrainAssumption /\ TrainInv /\ [Station!Next]_(Station!vars) => TrainInv'
<1> SUFFICES ASSUME Station!TrainAssumption, TrainInv, [Station!Next]_(Station!vars)
             PROVE  TrainInv'
  OBVIOUS
<1> USE DEF TrainInv, Station!TrainAssumption, Station!sessionVars, Station!hookVars,
            Station!saveVars, Station!roomVars
<1>1. CASE UNCHANGED Station!vars
  BY <1>1 DEF Station!vars
<1>2. CASE Station!ItemReceived
  BY <1>2 DEF Station!ItemReceived
<1>3. CASE Station!PassGranted
  BY <1>3 DEF Station!PassGranted
<1>4. CASE Station!GameStep
  <2>1. CASE Station!OpenRun
    BY <2>1 DEF Station!OpenRun
  <2>2. CASE Station!EnterRoom
    BY <2>2 DEF Station!EnterRoom
  <2>3. CASE Station!PlayerComes
    BY <2>3 DEF Station!PlayerComes
  <2>4. CASE Station!Footfall
    BY <2>4 DEF Station!Footfall
  <2>5. CASE Station!OpenMenu
    BY <2>5 DEF Station!OpenMenu
  <2>6. CASE Station!PickDestination
    BY <2>6 DEF Station!PickDestination, Station!DestinationBlocked
  <2>7. CASE Station!Donate
    BY <2>7 DEF Station!Donate
  <2> QED BY <1>4, <2>1, <2>2, <2>3, <2>4, <2>5, <2>6, <2>7 DEF Station!GameStep
<1>5. CASE Station!Tick
  BY <1>5 DEF Station!Tick, Station!BlocksMachine
<1>6. CASE Station!EnforceTrainTick
  <2>1. UNCHANGED <<trainGate, trainAuthed, trainMask, tickets, machineBlocked, machineCheck, ride>>
    BY <1>6 DEF Station!EnforceTrainTick
  <2>2. trainCooldown' \in Nat /\ openFor' \in Nat /\ openFor' + trainCooldown' <= WalkInterval
    BY <1>6 DEF Station!EnforceTrainTick, Station!MachineTick, Station!Counted
  <2> QED BY <2>1, <2>2
<1> QED BY <1>1, <1>2, <1>3, <1>4, <1>5, <1>6 DEF Station!Next

\* The pass changes hands by a received one, in a session that gates the train.
LEMMA PassIsReceived ==
    TrainInv /\ [Station!Next]_(Station!vars)
        => (passOwned' /\ ~passOwned /\ trainAuthed => passReceived)
<1> SUFFICES ASSUME TrainInv, Station!Next \/ UNCHANGED Station!vars,
                    passOwned', ~passOwned, trainAuthed
             PROVE  passReceived
  OBVIOUS
<1> USE DEF Station!sessionVars, Station!hookVars, Station!saveVars, Station!roomVars
<1>1. Station!PassGranted \/ Station!Donate
  BY DEF Station!Next, Station!vars, Station!GameStep, Station!ItemReceived, Station!Tick,
         Station!EnforceTrainTick, Station!OpenRun, Station!EnterRoom, Station!PlayerComes,
         Station!Footfall, Station!OpenMenu, Station!PickDestination
<1>2. ~Station!Donate
  BY DEF Station!Donate, TrainInv
<1> QED BY <1>1, <1>2 DEF Station!PassGranted

\* No ride and no pass without its item, and no machine that goes on prompting, for every
\* set of lines and every length of the interval.
THEOREM TravelGranted ==
    Station!TrainAssumption => (Station!Spec => Station!TravelIsGranted)
<1> SUFFICES ASSUME Station!TrainAssumption
             PROVE  Station!Spec => Station!TravelIsGranted
  OBVIOUS
<1>1. Station!Init => TrainInv
  <2> SUFFICES ASSUME Station!Init PROVE TrainInv
    OBVIOUS
  <2>1. trainGate = trainAuthed /\ machineBlocked = (trainAuthed /\ ~machineCheck)
    BY Zenon DEF Station!Init
  <2>2. trainMask = {} /\ ride = "none" /\ trainCooldown = 0 /\ openFor = 0
    BY DEF Station!Init
  <2> QED BY <2>1, <2>2 DEF TrainInv, Station!TrainAssumption
<1>2. TrainInv /\ [Station!Next]_(Station!vars) => TrainInv'
  BY TrainInvNext
<1>3. TrainInv => ride \in tickets \cup {"none"} /\ openFor <= WalkInterval
  BY DEF TrainInv, Station!TrainAssumption
<1>4. TrainInv /\ [Station!Next]_(Station!vars)
        => [passOwned' /\ ~passOwned /\ trainAuthed => passReceived]_(Station!vars)
  BY PassIsReceived
<1> QED BY <1>1, <1>2, <1>3, <1>4, PTL DEF Station!Spec, Station!TravelIsGranted

-----------------------------------------------------------------------------
(***************************************************************************)
(* Locks.                                                                  *)
(***************************************************************************)
\* The registry holds items of the session it serves; the live save is that session's,
\* and its bits are as much its own as the saved ones.
LocksInv ==
    /\ locksSession \in Session \cup {Nobody} /\ locksRun \in {Nobody, locksSession}
    /\ DOMAIN locksReceived = Session /\ DOMAIN opened = Session /\ DOMAIN committed = Session
    /\ locksSession # Nobody => removed \subseteq locksReceived[locksSession]
    /\ locksSession = Nobody => removed = {}
    /\ locksRun # Nobody =>
          bits \subseteq Kept!BitsOf(locksReceived[locksRun] \cup opened[locksRun]) \ {Kept!NoBit}
    /\ Kept!LocksFollow

\* The bits of more locks are more bits.
LEMMA MoreBits ==
    ASSUME NEW ls, NEW more, ls \subseteq more
    PROVE  Kept!BitsOf(ls) \subseteq Kept!BitsOf(more)
  BY DEF Kept!BitsOf

\* Every step keeps the invariant.
LEMMA LocksInvNext ==
    Kept!LocksAssumption /\ LocksInv /\ [Kept!Next]_(Kept!vars) => LocksInv'
<1> SUFFICES ASSUME Kept!LocksAssumption, LocksInv, [Kept!Next]_(Kept!vars)
             PROVE  LocksInv'
  OBVIOUS
<1> USE DEF LocksInv, Kept!LocksAssumption, Kept!LocksFollow, Kept!RemovedStandOpen,
            Kept!UnlocksAreOwn, Kept!saveVars, Kept!roomVars
<1>1. CASE UNCHANGED Kept!vars
  BY <1>1 DEF Kept!vars
<1>2. CASE Kept!GameStep
  <2>1. CASE Kept!OpenRun
    BY <2>1 DEF Kept!OpenRun
  <2>2. CASE Kept!QuitToTitle
    BY <2>2 DEF Kept!QuitToTitle
  <2>3. CASE Kept!GameSaves
    BY <2>3 DEF Kept!GameSaves
  <2>4. CASE Kept!EnterRoom
    BY <2>4 DEF Kept!EnterRoom
  <2>5. CASE Kept!LeaveRoom
    BY <2>5 DEF Kept!LeaveRoom
  <2>6. CASE Kept!ChestConstruct
    BY <2>6 DEF Kept!ChestConstruct
  <2>7. CASE Kept!ChestFreed
    BY <2>7 DEF Kept!ChestFreed
  <2>8. CASE Kept!UseKear
    BY <2>8 DEF Kept!UseKear, Kept!BitsOf
  <2> QED BY <1>2, <2>1, <2>2, <2>3, <2>4, <2>5, <2>6, <2>7, <2>8 DEF Kept!GameStep
<1>3. CASE Kept!ItemReceived
  BY <1>3 DEF Kept!ItemReceived, Kept!BitsOf
<1>4. CASE Kept!SessionChanges
  BY <1>4 DEF Kept!SessionChanges, Kept!ClearedRegistry
<1>5. CASE Kept!SeedKearBlocks
  BY <1>5 DEF Kept!SeedKearBlocks
<1>6. CASE Kept!Drain
  BY <1>6, MoreBits DEF Kept!Drain, Kept!SeededBits, Kept!Swept
<1> QED BY <1>1, <1>2, <1>3, <1>4, <1>5, <1>6 DEF Kept!Next

\* What the items of a session removed is open in its room and in no other session's
\* saves, for every table of locks and every number of chests the mod can follow.
THEOREM RemovedLocksFollow == Kept!LocksAssumption => (Kept!Spec => []Kept!LocksFollow)
<1> SUFFICES ASSUME Kept!LocksAssumption
             PROVE  Kept!Spec => []Kept!LocksFollow
  OBVIOUS
<1>1. Kept!Init => LocksInv
  BY DEF Kept!Init, LocksInv, Kept!LocksFollow, Kept!RemovedStandOpen, Kept!UnlocksAreOwn
<1>2. LocksInv /\ [Kept!Next]_(Kept!vars) => LocksInv'
  BY LocksInvNext
<1>3. LocksInv => Kept!LocksFollow
  BY DEF LocksInv
<1> QED BY <1>1, <1>2, <1>3, PTL DEF Kept!Spec

-----------------------------------------------------------------------------
(***************************************************************************)
(* KearKeys.                                                               *)
(***************************************************************************)
Collected == Kears!Location \cup VanillaKear
Saves == [bits : SUBSET Collected, spent : Int, credited : Int, opened : Int]
KearsOf(s) == Kears!Cardinality(s.bits \cap Kear)

\* Sets of what a save collects are counted by numbers, and a part that is as many as
\* the whole is the whole.
LEMMA CollectedCounted ==
    ASSUME Kears!KearKeysAssumption, NEW S, S \subseteq Collected
    PROVE  /\ Kears!Cardinality(S) \in Nat
           /\ \A T \in SUBSET S : /\ Kears!Cardinality(T) <= Kears!Cardinality(S)
                                  /\ Kears!Cardinality(T) = Kears!Cardinality(S) => T = S
<1>1. IsFiniteSet(Kears!Location) /\ IsFiniteSet(VanillaKear)
  BY DEF Kears!KearKeysAssumption, Kears!IsFiniteSet, IsFiniteSet
<1>2. IsFiniteSet(S)
  BY <1>1, FS_Union, FS_Subset DEF Collected
<1>3. \A T : Kears!Cardinality(T) = Cardinality(T)
  BY DEF Kears!Cardinality, Cardinality
<1> QED BY <1>2, <1>3, FS_Subset, FS_CardinalityType

\* The keys of sets with nothing in common add up.
LEMMA CountsAdd ==
    ASSUME Kears!KearKeysAssumption, NEW S, NEW T, S \cup T \subseteq Collected, S \cap T = {}
    PROVE  Kears!Cardinality(S \cup T) = Kears!Cardinality(S) + Kears!Cardinality(T)
<1>1. IsFiniteSet(Kears!Location) /\ IsFiniteSet(VanillaKear)
  BY DEF Kears!KearKeysAssumption, Kears!IsFiniteSet, IsFiniteSet
<1>2. IsFiniteSet(S) /\ IsFiniteSet(T)
  BY <1>1, FS_Union, FS_Subset DEF Collected
<1>3. /\ Kears!Cardinality(S \cup T) = Cardinality(S \cup T)
      /\ Kears!Cardinality(S) = Cardinality(S) /\ Kears!Cardinality(T) = Cardinality(T)
  BY DEF Kears!Cardinality, Cardinality
<1>4. Cardinality(S \cup T) = Cardinality(S) + Cardinality(T) - Cardinality(S \cap T)
  BY <1>2, FS_Union
<1>5. Cardinality(S \cap T) = 0 /\ Cardinality(S) \in Nat /\ Cardinality(T) \in Nat
  BY <1>2, FS_EmptySet, FS_CardinalityType
<1> QED BY <1>3, <1>4, <1>5

\* Collecting locations adds those of them that are keys and were not collected, to the
\* keys of the seed and to the keys of the save alike.
LEMMA KeysAdd ==
    ASSUME Kears!KearKeysAssumption, NEW s \in Saves, NEW locs, locs \subseteq Kears!Location
    PROVE  LET n == Kears!Cardinality((locs \ s.bits) \cap Kear)
           IN  /\ n \in Nat
               /\ Kears!Cardinality((s.bits \cup locs) \cap Kear) = KearsOf(s) + n
               /\ Kears!Cardinality((s.bits \cup locs) \cap (Kear \cup VanillaKear))
                      = Kears!Cardinality(Kears!Keys(s)) + n
               /\ (s.bits \cup locs) \cap VanillaKear = s.bits \cap VanillaKear
<1> USE DEF Kears!KearKeysAssumption, Kears!Location, Collected
<1> DEFINE new == (locs \ s.bits) \cap Kear
<1>0. s.bits \subseteq Collected
  BY DEF Saves
<1>1. (s.bits \cup locs) \cap Kear = (s.bits \cap Kear) \cup new
  OBVIOUS
<1>2. (s.bits \cup locs) \cap (Kear \cup VanillaKear)
        = (s.bits \cap (Kear \cup VanillaKear)) \cup new
  OBVIOUS
<1>3. new \subseteq Collected /\ (s.bits \cap Kear) \cap new = {}
      /\ (s.bits \cap (Kear \cup VanillaKear)) \cap new = {}
  OBVIOUS
<1> HIDE DEF new
<1>4. Kears!Cardinality((s.bits \cap Kear) \cup new) = KearsOf(s) + Kears!Cardinality(new)
  BY <1>0, <1>3, CountsAdd DEF KearsOf
<1>5. Kears!Cardinality((s.bits \cap (Kear \cup VanillaKear)) \cup new)
        = Kears!Cardinality(Kears!Keys(s)) + Kears!Cardinality(new)
  BY <1>0, <1>3, CountsAdd DEF Kears!Keys
<1>6. Kears!Cardinality(new) \in Nat
  BY <1>3, CollectedCounted
<1>7. (s.bits \cup locs) \cap VanillaKear = s.bits \cap VanillaKear
  OBVIOUS
<1> QED BY <1>1, <1>2, <1>4, <1>5, <1>6, <1>7 DEF new

\* The keys of a save are those of the seed and the others.
LEMMA KeysSplit ==
    ASSUME Kears!KearKeysAssumption, NEW s \in Saves
    PROVE  /\ Kears!Cardinality(Kears!Keys(s))
                = KearsOf(s) + Kears!Cardinality(s.bits \cap VanillaKear)
           /\ KearsOf(s) \in Nat /\ Kears!Cardinality(s.bits \cap VanillaKear) \in Nat
<1>1. Kears!Keys(s) = (s.bits \cap Kear) \cup (s.bits \cap VanillaKear)
  BY DEF Kears!Keys
<1>2. /\ s.bits \cap Kear \subseteq Collected /\ s.bits \cap VanillaKear \subseteq Collected
      /\ (s.bits \cap Kear) \cap (s.bits \cap VanillaKear) = {}
  BY DEF Saves, Kears!KearKeysAssumption, Kears!Location
<1> QED BY <1>1, <1>2, CountsAdd, CollectedCounted DEF KearsOf

\* What apply_native_collected makes of a save and the mirror, with and without
\* cancelling the n keys among what it collects.
CollectedBy(s, m, locs, n) ==
    [save   |-> [bits |-> s.bits \cup locs, spent |-> s.spent + n,
                 credited |-> s.credited, opened |-> s.opened],
     mirror |-> IF Kears!InRoom THEN m + n ELSE m]

LEMMA NativeApplied ==
    ASSUME NEW s \in Saves, NEW m \in Int, NEW locs, locs \subseteq Kears!Location,
           Kears!Cardinality((locs \ s.bits) \cap Kear) \in Nat
    PROVE  /\ Kears!ApplyNativeCollected(s, m, locs, TRUE)
                = CollectedBy(s, m, locs, Kears!Cardinality((locs \ s.bits) \cap Kear))
           /\ Kears!ApplyNativeCollected(s, m, locs, FALSE) = CollectedBy(s, m, locs, 0)
<1> DEFINE n == Kears!Cardinality((locs \ s.bits) \cap Kear)
           w == [s EXCEPT !.spent = @ + n]
<1>1. w = [bits |-> s.bits, spent |-> s.spent + n, credited |-> s.credited, opened |-> s.opened]
  BY DEF Saves
<1>2. Kears!ApplyNativeCollected(s, m, locs, TRUE)
        = [[save |-> w, mirror |-> Kears!Raise(m, n)] EXCEPT !.save.bits = @ \cup locs]
  BY DEF Kears!ApplyNativeCollected, Kears!NeutralizeKearGrant
<1>3. Kears!ApplyNativeCollected(s, m, locs, FALSE)
        = [save   |-> [bits |-> s.bits \cup locs, spent |-> s.spent,
                       credited |-> s.credited, opened |-> s.opened],
           mirror |-> m]
  BY DEF Kears!ApplyNativeCollected, Saves
<1>4. s.spent = s.spent + 0 /\ m = m + 0
  BY DEF Saves
<1> HIDE DEF n, w
<1>5. Kears!ApplyNativeCollected(s, m, locs, TRUE) = CollectedBy(s, m, locs, n)
  BY <1>1, <1>2 DEF CollectedBy, Kears!Raise
<1>6. Kears!ApplyNativeCollected(s, m, locs, FALSE) = CollectedBy(s, m, locs, 0)
  BY <1>3, <1>4 DEF CollectedBy
<1> QED BY <1>5, <1>6 DEF n

\* A save whose spent count pays for n receipts is a save.
LEMMA CreditedSave ==
    ASSUME NEW s \in Saves, NEW n \in Int
    PROVE  LET t == [s EXCEPT !.spent = @ - n, !.credited = @ + n]
           IN  /\ t \in Saves /\ t.bits = s.bits /\ t.opened = s.opened
               /\ t.spent = s.spent - n /\ t.credited = s.credited + n
<1> DEFINE t == [s EXCEPT !.spent = @ - n, !.credited = @ + n]
<1>1. /\ s.bits \in SUBSET Collected /\ s.spent - n \in Int /\ s.credited + n \in Int
      /\ s.opened \in Int
  BY DEF Saves
<1>2. t \in Saves
  BY <1>1 DEF Saves
<1>3. /\ t.bits = s.bits /\ t.opened = s.opened
      /\ t.spent = s.spent - n /\ t.credited = s.credited + n
  BY <1>1 DEF Saves
<1> QED BY <1>2, <1>3

\* So is one with a lock opened, at the mirror's count.
LEMMA OpenedSave ==
    ASSUME NEW s \in Saves, NEW p \in Int
    PROVE  LET t == [s EXCEPT !.spent = p, !.opened = @ + 1]
           IN  /\ t \in Saves /\ t.bits = s.bits /\ t.credited = s.credited
               /\ t.spent = p /\ t.opened = s.opened + 1
<1>1. s.opened + 1 \in Int
  BY DEF Saves
<1>2. [s EXCEPT !.spent = p, !.opened = @ + 1] \in Saves
  BY <1>1 DEF Saves
<1> QED BY <1>2 DEF Saves

KearTyped ==
    /\ kearConnected \in BOOLEAN /\ neutralize \in BOOLEAN /\ kearSuppress \in BOOLEAN
    /\ kearScreen \in {"title", "loading", "room"}
    /\ kearChecked \subseteq Kears!Location \ Removed
    /\ slot \in Saves /\ kearDisk \in Saves
    /\ mirror \in Int /\ kearReceived \in Int /\ kearApplied \in Int

\* In a world, as many as were applied are as many as there are only when they are the
\* same: the record only grows there, and a new world begins with none applied.
NativeHeld ==
    Kears!InRoom => /\ kearApplied <= Kears!Total
                    /\ kearApplied = Kears!Total => kearChecked \cup Removed \subseteq slot.bits

\* After a tick of a session whose keys are of no use, none is.
NoneOfUse ==
    Kears!InRoom /\ kearTurn = "game" /\ neutralize /\ kearSuppress
        => Kears!Cardinality(Kears!Keys(slot)) <= slot.spent

\* A save's keys of the seed are spent, but for the ones credited less the locks opened.
Balanced(s) == KearsOf(s) = s.spent + s.credited - s.opened

\* The accounts of a session whose keys are items.  A collect is cancelled while there is
\* a session, and while there is none the player does not play on and nothing is applied.
KeysPaid ==
    /\ kearTurn = "game" => neutralize = kearConnected
    /\ kearScreen = "loading" => kearConnected
    /\ Kears!InRoom /\ ~kearConnected => kearApplied = Kears!Total
    /\ ~kearSuppress => /\ Balanced(kearDisk)
                        /\ kearScreen # "title" => Balanced(slot)
                        /\ Kears!InRoom => mirror = slot.spent

\* A new run's save is empty.
LEMMA NewRunEmpty ==
    Kears!KearKeysAssumption => Kears!NewRun \in Saves /\ Balanced(Kears!NewRun)
<1>1. Kears!NewRun \in Saves /\ Kears!NewRun.bits = {} /\ Kears!NewRun.spent = 0
      /\ Kears!NewRun.credited = 0 /\ Kears!NewRun.opened = 0
  BY DEF Kears!NewRun, Saves
<1>2. Kears!Cardinality({}) = 0
  <2>1. Cardinality({}) = 0
    BY FS_EmptySet
  <2> QED BY <2>1 DEF Kears!Cardinality, Cardinality
<1> QED BY <1>1, <1>2 DEF Balanced, KearsOf

\* The record counts more when there is more in it, and only then.
LEMMA RecordCounts ==
    ASSUME Kears!KearKeysAssumption, kearChecked' \subseteq Kears!Location,
           kearChecked \subseteq kearChecked'
    PROVE  /\ Kears!Total \in Nat /\ Kears!Total' \in Nat /\ Kears!Total <= Kears!Total'
           /\ Kears!Total = Kears!Total' => kearChecked' = kearChecked
<1>1. /\ kearChecked' \subseteq Collected /\ Removed \subseteq Collected
      /\ kearChecked \subseteq Collected
  BY DEF Collected, Kears!KearKeysAssumption
<1>2. /\ Kears!Cardinality(kearChecked) \in Nat /\ Kears!Cardinality(kearChecked') \in Nat
      /\ Kears!Cardinality(Removed) \in Nat
      /\ Kears!Cardinality(kearChecked) <= Kears!Cardinality(kearChecked')
      /\ Kears!Cardinality(kearChecked) = Kears!Cardinality(kearChecked')
           => kearChecked = kearChecked'
  BY <1>1, CollectedCounted
<1> QED BY <1>2 DEF Kears!Total

\* What a tick makes of the save, the mirror and the record.
LEMMA TickApplies ==
    ASSUME Kears!KearKeysAssumption, KearTyped, Kears!Tick
    PROVE  LET locs == kearChecked \cup Removed
               k == IF Kears!Total = kearApplied \/ ~kearConnected THEN 0
                    ELSE Kears!Cardinality((locs \ slot.bits) \cap Kear)
               paid == IF kearConnected /\ kearSuppress THEN Kears!ReconciledSpent(slot) ELSE slot.spent
               g == slot'.credited - slot.credited
           IN  /\ slot' \in Saves /\ mirror' \in Int /\ slot'.opened = slot.opened
               /\ slot'.bits = (IF Kears!Total = kearApplied THEN slot.bits ELSE slot.bits \cup locs)
               /\ k \in Nat /\ slot'.spent = paid + k - g
               /\ mirror' = (IF Kears!InRoom THEN mirror + k - g ELSE mirror)
               /\ kearSuppress \/ ~Kears!InRoom => g = 0
<1> DEFINE locs == kearChecked \cup Removed
           k == IF Kears!Total = kearApplied \/ ~kearConnected THEN 0
                ELSE Kears!Cardinality((locs \ slot.bits) \cap Kear)
           paid == IF kearConnected /\ kearSuppress THEN Kears!ReconciledSpent(slot) ELSE slot.spent
           r == Kears!ReconcileKearKeys(slot)
           e == Kears!EnforceNativeBits(r)
           n == IF kearConnected /\ ~kearSuppress /\ Kears!InRoom THEN kearReceived - e.save.credited
                ELSE 0
           c == Kears!CreditKearKey(e.save, e.mirror, n)
<1>1. slot' = c.save /\ mirror' = c.mirror
  BY DEF Kears!Tick
<1>2. /\ slot.bits \subseteq Collected /\ slot.spent \in Int /\ slot.credited \in Int
      /\ slot.opened \in Int
  BY DEF KearTyped, Saves
<1>3. /\ r \in Saves /\ r.bits = slot.bits /\ r.credited = slot.credited
      /\ r.opened = slot.opened /\ r.spent = paid
  <2>1. Kears!Cardinality(Kears!Keys(slot)) \in Nat
    <3>1. Kears!Keys(slot) \subseteq Collected
      BY <1>2 DEF Kears!Keys
    <3> QED BY <3>1, CollectedCounted
  <2>2. paid \in Int
    BY <1>2, <2>1 DEF Kears!ReconciledSpent
  <2>3. r = IF kearConnected /\ kearSuppress THEN [slot EXCEPT !.spent = paid] ELSE slot
    BY DEF Kears!ReconcileKearKeys
  <2> HIDE DEF r, paid
  <2>4. r.bits = slot.bits /\ r.credited = slot.credited /\ r.opened = slot.opened /\ r \in Saves
    BY <2>2, <2>3 DEF KearTyped, Saves
  <2>5. r.spent = paid
    BY <2>3 DEF KearTyped, Saves, paid
  <2> QED BY <2>4, <2>5
<1> HIDE DEF r, paid
<1>4. locs \subseteq Kears!Location /\ Kears!Cardinality((locs \ r.bits) \cap Kear) \in Nat
  BY KeysAdd, <1>3 DEF KearTyped, Kears!KearKeysAssumption
<1>5. /\ e.save \in Saves /\ e.save.credited = r.credited /\ e.save.opened = r.opened
      /\ e.save.bits = (IF Kears!Total = kearApplied THEN r.bits ELSE r.bits \cup locs)
      /\ e.save.spent = r.spent + k
      /\ e.mirror = (IF Kears!InRoom THEN mirror + k ELSE mirror)
  <2>0. mirror \in Int /\ r.spent \in Int /\ kearConnected \in BOOLEAN
    BY <1>3 DEF KearTyped, Saves
  <2>1. CASE Kears!Total = kearApplied
    <3>1. e = [save |-> r, mirror |-> mirror] /\ k = 0
      BY <2>1 DEF Kears!EnforceNativeBits
    <3> QED BY <2>0, <2>1, <3>1, <1>3
  <2>2. CASE Kears!Total # kearApplied
    <3> DEFINE d == Kears!Cardinality((locs \ r.bits) \cap Kear)
    <3>1. e = Kears!ApplyNativeCollected(r, mirror, locs, kearConnected)
      BY <2>2 DEF Kears!EnforceNativeBits
    <3>2. k = IF kearConnected THEN d ELSE 0
      BY <2>2, <1>3
    <3>3. /\ locs \subseteq Kears!Location /\ r \in Saves /\ mirror \in Int
          /\ kearConnected \in BOOLEAN
          /\ d \in Nat /\ d = Kears!Cardinality((locs \ r.bits) \cap Kear)
      BY <2>0, <1>3, <1>4
    <3> HIDE DEF e, k, locs, d
    <3>4. e = CollectedBy(r, mirror, locs, k)
      <4>1. CASE kearConnected
        <5>1. e = Kears!ApplyNativeCollected(r, mirror, locs, TRUE) /\ k = d
          BY <2>0, <3>1, <3>2, <4>1
        <5> QED BY <3>3, <5>1, NativeApplied
      <4>2. CASE ~kearConnected
        <5>1. e = Kears!ApplyNativeCollected(r, mirror, locs, FALSE) /\ k = 0
          BY <2>0, <3>1, <3>2, <4>2
        <5> QED BY <3>3, <5>1, NativeApplied
      <4> QED BY <4>1, <4>2
    <3>5. k \in Nat
      BY <3>2, <3>3
    <3>6. e.save = [bits |-> r.bits \cup locs, spent |-> r.spent + k,
                    credited |-> r.credited, opened |-> r.opened]
      BY <3>4 DEF CollectedBy
    <3>7. e.save \in Saves
      <4>1. /\ r.bits \cup locs \in SUBSET Collected /\ r.spent + k \in Int
            /\ r.credited \in Int /\ r.opened \in Int
        BY <2>0, <3>3, <3>5 DEF Saves, Collected
      <4> QED BY <3>6, <4>1 DEF Saves
    <3> QED BY <2>2, <3>4, <3>6, <3>7 DEF CollectedBy
  <2> QED BY <2>1, <2>2
<1>6. k \in Nat
  BY <1>3, <1>4
<1> HIDE DEF e, k, locs
<1>7. n \in Int /\ (kearSuppress \/ ~Kears!InRoom => n = 0)
  BY <1>5 DEF KearTyped, Saves
<1>8. c = [save |-> [e.save EXCEPT !.spent = @ - n, !.credited = @ + n],
           mirror |-> Kears!Raise(e.mirror, -n)]
  BY DEF Kears!CreditKearKey
<1> HIDE DEF n, c
<1>9. /\ c.save \in Saves /\ c.save.bits = e.save.bits /\ c.save.opened = e.save.opened
      /\ c.save.spent = e.save.spent - n /\ c.save.credited = e.save.credited + n
      /\ c.mirror = Kears!Raise(e.mirror, -n)
  BY <1>5, <1>7, <1>8, CreditedSave
<1>10. n = slot'.credited - slot.credited
  BY <1>1, <1>2, <1>3, <1>5, <1>7, <1>9
<1>11. paid \in Int /\ mirror \in Int
  BY <1>3 DEF KearTyped, Saves
<1> QED BY <1>1, <1>2, <1>3, <1>5, <1>6, <1>7, <1>9, <1>10, <1>11 DEF Kears!Raise, k, locs, paid

\* What a location's collection makes of them.
LEMMA CollectApplies ==
    ASSUME Kears!KearKeysAssumption, KearTyped, NEW k \in Kears!Location, Kears!CollectLocation(k)
    PROVE  LET n == IF neutralize THEN Kears!Cardinality(({k} \ slot.bits) \cap Kear) ELSE 0
           IN  /\ Kears!InRoom /\ Kears!MayPlay /\ k \notin kearChecked \cup Removed
               /\ kearChecked' = kearChecked \cup {k}
               /\ UNCHANGED <<kearApplied, kearScreen, kearDisk>>
               /\ n \in Nat /\ slot' \in Saves /\ slot'.bits = slot.bits \cup {k}
               /\ slot'.credited = slot.credited /\ slot'.opened = slot.opened
               /\ slot'.spent = slot.spent + n /\ mirror' = mirror + n
<1> DEFINE d == Kears!Cardinality(({k} \ slot.bits) \cap Kear)
           n == IF neutralize THEN d ELSE 0
           c == Kears!ApplyNativeCollected(slot, mirror, {k}, neutralize)
<1>1. /\ Kears!InRoom /\ Kears!MayPlay /\ k \notin kearChecked \cup Removed
      /\ kearChecked' = kearChecked \cup {k} /\ UNCHANGED <<kearApplied, kearScreen, kearDisk>>
      /\ slot' = c.save /\ mirror' = c.mirror
  BY DEF Kears!CollectLocation, Kears!Spawns, Kears!IsChecked
<1>2. /\ slot \in Saves /\ mirror \in Int /\ neutralize \in BOOLEAN /\ {k} \subseteq Kears!Location
      /\ d = Kears!Cardinality(({k} \ slot.bits) \cap Kear)
  BY DEF KearTyped
<1>3. d \in Nat
  BY <1>2, KeysAdd
<1> HIDE DEF c, d
<1>4. c = CollectedBy(slot, mirror, {k}, n)
  <2>1. CASE neutralize
    <3>1. c = Kears!ApplyNativeCollected(slot, mirror, {k}, TRUE) /\ n = d
      BY <1>2, <2>1 DEF c
    <3> QED BY <1>2, <1>3, <3>1, NativeApplied
  <2>2. CASE ~neutralize
    <3>1. c = Kears!ApplyNativeCollected(slot, mirror, {k}, FALSE) /\ n = 0
      BY <1>2, <2>2 DEF c
    <3> QED BY <1>2, <1>3, <3>1, NativeApplied
  <2> QED BY <2>1, <2>2
<1>5. n \in Nat
  BY <1>3
<1> HIDE DEF n
<1>6. slot' = [bits |-> slot.bits \cup {k}, spent |-> slot.spent + n,
               credited |-> slot.credited, opened |-> slot.opened]
      /\ mirror' = mirror + n
  BY <1>1, <1>4 DEF CollectedBy
<1>7. slot' \in Saves
  <2>1. /\ slot.bits \cup {k} \in SUBSET Collected /\ slot.spent + n \in Int
        /\ slot.credited \in Int /\ slot.opened \in Int
    BY <1>2, <1>5 DEF Saves, Collected
  <2> QED BY <1>6, <2>1 DEF Saves
<1> QED BY <1>1, <1>5, <1>6, <1>7 DEF n, d

\* Every step keeps the types and what the world's collected bits hold.
KearSound == KearTyped /\ NativeHeld /\ NoneOfUse

LEMMA KearTickSound ==
    ASSUME Kears!KearKeysAssumption, KearSound, Kears!Tick
    PROVE  KearSound' /\ (Kears!InRoom => kearChecked \cup Removed \subseteq slot'.bits)
<1> DEFINE locs == kearChecked \cup Removed
           k == IF Kears!Total = kearApplied \/ ~kearConnected THEN 0
                ELSE Kears!Cardinality((locs \ slot.bits) \cap Kear)
           paid == IF kearConnected /\ kearSuppress THEN Kears!ReconciledSpent(slot) ELSE slot.spent
           g == slot'.credited - slot.credited
<1>1. /\ kearTurn = "tick" /\ kearTurn' = "game" /\ neutralize' = kearConnected
      /\ kearApplied' = Kears!Total
      /\ UNCHANGED kearConnected /\ UNCHANGED kearSuppress /\ UNCHANGED kearReceived
      /\ UNCHANGED kearScreen /\ UNCHANGED kearDisk
      /\ kearChecked \subseteq kearChecked' /\ kearChecked' \subseteq Kears!Location \ Removed
  BY DEF Kears!Tick, KearSound, KearTyped
<1>2. /\ slot' \in Saves /\ mirror' \in Int
      /\ slot'.bits = (IF Kears!Total = kearApplied THEN slot.bits ELSE slot.bits \cup locs)
      /\ k \in Nat /\ slot'.spent = paid + k - g
      /\ kearSuppress \/ ~Kears!InRoom => g = 0
  BY TickApplies DEF KearSound
<1>3. /\ Kears!Total \in Nat /\ Kears!Total' \in Nat /\ Kears!Total <= Kears!Total'
      /\ Kears!Total = Kears!Total' => kearChecked' = kearChecked
  BY <1>1, RecordCounts
<1>4. Kears!InRoom => locs \subseteq slot'.bits
  BY <1>2 DEF KearSound, NativeHeld
<1>5. KearTyped'
  BY <1>1, <1>2, <1>3 DEF KearSound, KearTyped
<1>6. NativeHeld'
  BY <1>1, <1>3, <1>4 DEF NativeHeld, Kears!InRoom
<1>7. NoneOfUse'
  <2> SUFFICES ASSUME kearConnected, kearSuppress
               PROVE  Kears!Cardinality(Kears!Keys(slot')) <= slot'.spent
    BY <1>1 DEF NoneOfUse, Kears!Keys
  <2>1. /\ slot \in Saves /\ locs \subseteq Kears!Location
    BY DEF KearSound, KearTyped, Kears!KearKeysAssumption
  <2>2. /\ Kears!Cardinality((locs \ slot.bits) \cap Kear) \in Nat
        /\ Kears!Cardinality((slot.bits \cup locs) \cap (Kear \cup VanillaKear))
              = Kears!Cardinality(Kears!Keys(slot))
                  + Kears!Cardinality((locs \ slot.bits) \cap Kear)
    BY <2>1, KeysAdd
  <2>3. Kears!Cardinality(Kears!Keys(slot)) \in Nat
    <3>1. Kears!Keys(slot) \subseteq Collected
      BY <2>1 DEF Kears!Keys, Saves
    <3> QED BY <3>1, CollectedCounted
  <2>4. paid \in Int /\ Kears!Cardinality(Kears!Keys(slot)) <= paid
    BY <2>1, <2>3 DEF Kears!ReconciledSpent, Saves
  <2>5. Kears!Cardinality(Kears!Keys(slot')) = Kears!Cardinality(Kears!Keys(slot)) + k
    <3>1. CASE Kears!Total = kearApplied
      <4>1. slot'.bits = slot.bits /\ k = 0
        BY <1>2, <3>1
      <4> QED BY <2>3, <4>1 DEF Kears!Keys
    <3>2. CASE Kears!Total # kearApplied
      <4>1. /\ slot'.bits = slot.bits \cup locs
            /\ k = Kears!Cardinality((locs \ slot.bits) \cap Kear)
        BY <1>2, <3>2
      <4> HIDE DEF k, locs
      <4> QED BY <2>2, <4>1 DEF Kears!Keys
    <3> QED BY <3>1, <3>2
  <2> HIDE DEF k, paid
  <2> QED BY <1>2, <2>3, <2>4, <2>5
<1> QED BY <1>4, <1>5, <1>6, <1>7 DEF KearSound

LEMMA KearSoundNext ==
    ASSUME Kears!KearKeysAssumption, KearSound, [Kears!Next]_(Kears!kkVars)
    PROVE  KearSound'
<1> USE DEF KearSound, KearTyped, NativeHeld, NoneOfUse, Kears!InRoom
<1>1. CASE UNCHANGED Kears!kkVars
  BY <1>1 DEF Kears!kkVars, Kears!Total, Kears!Keys
<1>2. CASE Kears!GameStep
  <2>1. /\ kearTurn' = "tick" /\ UNCHANGED kearConnected /\ UNCHANGED kearSuppress
        /\ UNCHANGED kearReceived /\ UNCHANGED neutralize
    BY <1>2 DEF Kears!GameStep
  <2>2. Kears!Total \in Nat
    BY RecordCounts, CollectedCounted DEF Kears!Total, Collected, Kears!KearKeysAssumption
  <2>3. CASE Kears!Launch
    BY <2>1, <2>3 DEF Kears!Launch
  <2>4. CASE Kears!EnterRoom
    BY <2>1, <2>2, <2>4 DEF Kears!EnterRoom, Kears!Total, Saves
  <2>5. CASE Kears!OpenLock
    <3>1. /\ slot' = [slot EXCEPT !.spent = mirror + 1, !.opened = @ + 1] /\ mirror' = mirror + 1
          /\ UNCHANGED kearChecked /\ UNCHANGED kearApplied /\ UNCHANGED kearScreen
          /\ UNCHANGED kearDisk
      BY <2>5 DEF Kears!OpenLock
    <3>2. slot \in Saves /\ mirror + 1 \in Int
      OBVIOUS
    <3>3. LET t == [slot EXCEPT !.spent = mirror + 1, !.opened = @ + 1]
          IN  t \in Saves /\ t.bits = slot.bits
      BY <3>2, OpenedSave
    <3> QED BY <2>1, <3>1, <3>2, <3>3 DEF Kears!Total
  <2>6. CASE Kears!GameSaves
    BY <2>1, <2>6 DEF Kears!GameSaves, Kears!Total
  <2>7. CASE Kears!QuitToTitle
    BY <2>1, <2>7, NewRunEmpty DEF Kears!QuitToTitle
  <2>8. ASSUME NEW k \in Kears!Location, Kears!CollectLocation(k)
        PROVE  KearSound'
    <3>1. /\ k \notin kearChecked \cup Removed /\ kearChecked' = kearChecked \cup {k}
          /\ UNCHANGED kearApplied /\ UNCHANGED kearScreen /\ UNCHANGED kearDisk
          /\ slot' \in Saves /\ slot'.bits = slot.bits \cup {k}
      BY <2>8, CollectApplies
    <3>0. mirror' \in Int
      <4> DEFINE n == IF neutralize THEN Kears!Cardinality(({k} \ slot.bits) \cap Kear) ELSE 0
      <4>1. n \in Nat /\ mirror' = mirror + n
        BY <2>8, CollectApplies
      <4> HIDE DEF n
      <4> QED BY <4>1
    <3>2. /\ Kears!Total \in Nat /\ Kears!Total' \in Nat /\ Kears!Total <= Kears!Total'
          /\ Kears!Total = Kears!Total' => kearChecked' = kearChecked
      BY <3>1, RecordCounts
    <3> QED BY <2>1, <3>0, <3>1, <3>2
  <2>9. ASSUME NEW k \in VanillaKear, Kears!CollectVanilla(k)
        PROVE  KearSound'
    <3>1. /\ slot' = [slot EXCEPT !.bits = @ \cup {k}] /\ UNCHANGED mirror
          /\ UNCHANGED kearChecked /\ UNCHANGED kearApplied /\ UNCHANGED kearScreen
          /\ UNCHANGED kearDisk
      BY <2>9 DEF Kears!CollectVanilla
    <3>2. slot' \in Saves /\ slot'.bits = slot.bits \cup {k}
      BY <3>1 DEF Saves, Collected
    <3> QED BY <2>1, <3>1, <3>2 DEF Kears!Total
  <2>10. CASE UNCHANGED <<slot, mirror, kearChecked, kearApplied, kearScreen, kearDisk>>
    BY <2>1, <2>10 DEF Kears!Total
  <2> QED BY <1>2, <2>3, <2>4, <2>5, <2>6, <2>7, <2>8, <2>9, <2>10 DEF Kears!GameStep
<1>3. CASE Kears!Tick
  BY <1>3, KearTickSound
<1>4. CASE Kears!Connected
  BY <1>4 DEF Kears!Connected, Kears!Total
<1>5. CASE Kears!Disconnected
  BY <1>5 DEF Kears!Disconnected, Kears!Total
<1>6. CASE Kears!SwitchSession
  BY <1>6, NewRunEmpty DEF Kears!SwitchSession
<1>7. CASE Kears!KeyReceived
  BY <1>7 DEF Kears!KeyReceived, Kears!Total
<1> QED BY <1>1, <1>2, <1>3, <1>4, <1>5, <1>6, <1>7 DEF Kears!Next

LEMMA KearSoundInit == Kears!KearKeysAssumption /\ Kears!Init => KearSound
<1> SUFFICES ASSUME Kears!KearKeysAssumption, Kears!Init
             PROVE  KearSound
  OBVIOUS
<1>1. kearConnected \in BOOLEAN /\ neutralize \in BOOLEAN /\ kearSuppress \in BOOLEAN
  BY Zenon DEF Kears!Init
<1>2. /\ kearScreen = "title" /\ kearChecked = {} /\ kearReceived = 0 /\ kearApplied = -1
      /\ mirror = 0
      /\ slot = Kears!NewRun /\ kearDisk = Kears!NewRun
  BY DEF Kears!Init
<1> QED BY <1>1, <1>2, NewRunEmpty DEF KearSound, KearTyped, NativeHeld, NoneOfUse, Kears!InRoom

\* A world is built with everything the record held at the tick, for every set of
\* locations, connected or not.
THEOREM RecordIsCollected ==
    Kears!KearKeysAssumption => (Kears!Spec => Kears!NativeBitsFollow)
<1> SUFFICES ASSUME Kears!KearKeysAssumption
             PROVE  Kears!Spec => Kears!NativeBitsFollow
  OBVIOUS
<1>1. Kears!Init => KearSound
  BY KearSoundInit
<1>2. KearSound /\ [Kears!Next]_(Kears!kkVars) => KearSound'
  BY KearSoundNext
<1>3. KearSound /\ [Kears!Next]_(Kears!kkVars)
        => [kearTurn = "tick" /\ kearTurn' = "game" /\ Kears!InRoom
                => kearChecked \cup Removed \subseteq slot'.bits]_(Kears!kkVars)
  <2> SUFFICES ASSUME KearSound, Kears!Next, kearTurn = "tick", kearTurn' = "game", Kears!InRoom
               PROVE  kearChecked \cup Removed \subseteq slot'.bits
    OBVIOUS
  <2>1. Kears!Tick
    BY DEF Kears!Next, Kears!GameStep, Kears!Connected, Kears!Disconnected,
           Kears!SwitchSession, Kears!KeyReceived
  <2> QED BY <2>1, KearTickSound
<1> QED BY <1>1, <1>2, <1>3, PTL DEF Kears!Spec, Kears!NativeBitsFollow

\* Every step of a player who does not play on without a session keeps the accounts.
LEMMA KeysPaidNext ==
    ASSUME Kears!KearKeysAssumption, ~Outage, KearSound, KeysPaid, [Kears!Next]_(Kears!kkVars)
    PROVE  KeysPaid'
<1> USE DEF KeysPaid, Kears!InRoom, Kears!MayPlay, Balanced, KearsOf
<1>0. /\ slot \in Saves /\ kearDisk \in Saves /\ mirror \in Int /\ kearConnected \in BOOLEAN
      /\ kearScreen \in {"title", "loading", "room"}
      /\ KearsOf(slot) \in Nat /\ slot.spent \in Int /\ slot.credited \in Int /\ slot.opened \in Int
  BY KeysSplit DEF KearSound, KearTyped, Saves
<1>1. CASE UNCHANGED Kears!kkVars
  BY <1>1 DEF Kears!kkVars, Kears!Total
<1>2. CASE Kears!GameStep
  <2>1. /\ kearTurn = "game" /\ kearTurn' = "tick" /\ UNCHANGED kearConnected
        /\ UNCHANGED kearSuppress
    BY <1>2 DEF Kears!GameStep
  <2>2. CASE Kears!Launch
    BY <2>1, <2>2 DEF Kears!Launch
  <2>3. CASE Kears!EnterRoom
    BY <2>1, <2>3 DEF Kears!EnterRoom
  <2>4. CASE Kears!OpenLock
    <3>1. /\ slot' = [slot EXCEPT !.spent = mirror + 1, !.opened = @ + 1] /\ mirror' = mirror + 1
          /\ UNCHANGED kearScreen /\ UNCHANGED kearDisk /\ kearScreen = "room" /\ kearConnected
      BY <2>4 DEF Kears!OpenLock
    <3>2. slot \in Saves /\ mirror + 1 \in Int
      BY <1>0
    <3>3. LET t == [slot EXCEPT !.spent = mirror + 1, !.opened = @ + 1]
          IN  /\ t.bits = slot.bits /\ t.credited = slot.credited /\ t.spent = mirror + 1
              /\ t.opened = slot.opened + 1
      BY <3>2, OpenedSave
    <3> QED BY <1>0, <2>1, <3>1, <3>3
  <2>5. CASE Kears!GameSaves
    BY <2>1, <2>5 DEF Kears!GameSaves, Kears!Total
  <2>6. CASE Kears!QuitToTitle
    BY <2>1, <2>6 DEF Kears!QuitToTitle
  <2>7. ASSUME NEW k \in Kears!Location, Kears!CollectLocation(k)
        PROVE  KeysPaid'
    <3> DEFINE d == Kears!Cardinality(({k} \ slot.bits) \cap Kear)
               n == IF neutralize THEN d ELSE 0
    <3>1. /\ Kears!InRoom /\ Kears!MayPlay /\ UNCHANGED kearScreen /\ UNCHANGED kearDisk
          /\ n \in Nat /\ slot'.bits = slot.bits \cup {k}
          /\ slot'.credited = slot.credited /\ slot'.opened = slot.opened
          /\ slot'.spent = slot.spent + n /\ mirror' = mirror + n
      BY <2>7, CollectApplies DEF KearSound
    <3>2. n = d
      BY <2>1, <3>1
    <3> HIDE DEF n
    <3>3. slot \in Saves /\ {k} \subseteq Kears!Location
      BY <1>0
    <3>4. Kears!Cardinality((slot.bits \cup {k}) \cap Kear) = KearsOf(slot) + d
      BY <3>3, KeysAdd
    <3> HIDE DEF d
    <3> QED BY <1>0, <2>1, <3>1, <3>2, <3>4
  <2>8. ASSUME NEW k \in VanillaKear, Kears!CollectVanilla(k)
        PROVE  KeysPaid'
    <3>1. /\ slot' = [slot EXCEPT !.bits = @ \cup {k}] /\ UNCHANGED mirror
          /\ UNCHANGED kearScreen /\ UNCHANGED kearDisk /\ kearScreen = "room" /\ kearConnected
      BY <2>8 DEF Kears!CollectVanilla
    <3>2. /\ slot'.bits = slot.bits \cup {k} /\ slot'.spent = slot.spent
          /\ slot'.credited = slot.credited /\ slot'.opened = slot.opened
      BY <1>0, <3>1 DEF Saves
    <3>3. slot'.bits \cap Kear = slot.bits \cap Kear
      BY <3>2 DEF Kears!KearKeysAssumption, Kears!Location
    <3> QED BY <2>1, <3>1, <3>2, <3>3
  <2>9. CASE UNCHANGED <<slot, mirror, kearChecked, kearApplied, kearScreen, kearDisk>>
    BY <2>1, <2>9 DEF Kears!Total
  <2> QED BY <1>2, <2>2, <2>3, <2>4, <2>5, <2>6, <2>7, <2>8, <2>9 DEF Kears!GameStep
<1>3. CASE Kears!Tick
  <2> DEFINE locs == kearChecked \cup Removed
             d == Kears!Cardinality((locs \ slot.bits) \cap Kear)
             k == IF Kears!Total = kearApplied \/ ~kearConnected THEN 0 ELSE d
             paid == IF kearConnected /\ kearSuppress THEN Kears!ReconciledSpent(slot) ELSE slot.spent
             g == slot'.credited - slot.credited
  <2>1. /\ kearTurn' = "game" /\ neutralize' = kearConnected /\ kearApplied' = Kears!Total
        /\ UNCHANGED kearConnected /\ UNCHANGED kearSuppress /\ UNCHANGED kearScreen
        /\ UNCHANGED kearDisk
        /\ ~kearConnected => kearChecked' = kearChecked
    BY <1>3 DEF Kears!Tick
  <2>2. /\ slot' \in Saves /\ slot'.opened = slot.opened
        /\ slot'.bits = (IF Kears!Total = kearApplied THEN slot.bits ELSE slot.bits \cup locs)
        /\ k \in Nat /\ slot'.spent = paid + k - g
        /\ mirror' = (IF Kears!InRoom THEN mirror + k - g ELSE mirror)
    BY <1>3, TickApplies DEF KearSound
  <2>3. kearScreen # "title" => (Kears!Total = kearApplied \/ kearConnected)
    BY <1>0
  <2>4. slot'.credited = slot.credited + g /\ g \in Int
    BY <1>0, <2>2 DEF Saves
  <2>5. kearScreen # "title" => KearsOf(slot') = KearsOf(slot) + k
    <3>1. CASE Kears!Total = kearApplied
      <4>1. slot'.bits = slot.bits /\ k = 0
        BY <2>2, <3>1
      <4> QED BY <1>0, <4>1
    <3>2. CASE Kears!Total # kearApplied /\ kearConnected
      <4>1. slot'.bits = slot.bits \cup locs /\ k = d
        BY <2>2, <3>2
      <4>2. slot \in Saves /\ locs \subseteq Kears!Location
        BY <1>0 DEF KearSound, KearTyped, Kears!KearKeysAssumption
      <4>3. Kears!Cardinality((slot.bits \cup locs) \cap Kear) = KearsOf(slot) + d
        BY <4>2, KeysAdd
      <4> HIDE DEF k, d, locs
      <4> QED BY <4>1, <4>3
    <3> QED BY <2>3, <3>1, <3>2
  <2>6. ~kearSuppress => paid = slot.spent
    OBVIOUS
  <2>7. Kears!InRoom /\ ~kearConnected => kearApplied' = Kears!Total'
    BY <2>1 DEF Kears!Total
  <2> HIDE DEF k, paid, g
  <2> QED BY <1>0, <2>1, <2>2, <2>4, <2>5, <2>6, <2>7
<1>4. CASE Kears!Connected
  BY <1>4 DEF Kears!Connected, Kears!Total
<1>5. CASE Kears!Disconnected
  BY <1>0, <1>5 DEF Kears!Disconnected, Kears!Total
<1>6. CASE Kears!SwitchSession
  BY <1>6, NewRunEmpty DEF Kears!SwitchSession
<1>7. CASE Kears!KeyReceived
  BY <1>7 DEF Kears!KeyReceived, Kears!Total
<1> QED BY <1>1, <1>2, <1>3, <1>4, <1>5, <1>6, <1>7 DEF Kears!Next

\* The keys of a run are the ones received and the ones no location stands for, less the
\* locks opened, for every set of locations and number of keys: for a player who does not
\* play on without a session.
THEOREM KeysAreReceived ==
    Kears!KearKeysAssumption /\ ~Outage => (Kears!Spec => []Kears!KeysBalance)
<1> SUFFICES ASSUME Kears!KearKeysAssumption, ~Outage
             PROVE  Kears!Spec => []Kears!KeysBalance
  OBVIOUS
<1>1. Kears!Init => KearSound
  BY KearSoundInit
<1>2. Kears!Init => KeysPaid
  <2> SUFFICES ASSUME Kears!Init PROVE KeysPaid
    OBVIOUS
  <2>1. neutralize = kearConnected
    BY Zenon DEF Kears!Init
  <2>2. kearScreen = "title" /\ kearDisk = Kears!NewRun
    BY DEF Kears!Init
  <2> QED BY <2>1, <2>2, NewRunEmpty DEF KeysPaid, Kears!InRoom
<1>3. KearSound /\ [Kears!Next]_(Kears!kkVars) => KearSound'
  BY KearSoundNext
<1>4. KearSound /\ KeysPaid /\ [Kears!Next]_(Kears!kkVars) => KeysPaid'
  BY KeysPaidNext
<1>5. KearSound /\ KeysPaid => Kears!KeysBalance
  <2> SUFFICES ASSUME KearSound, KeysPaid
               PROVE  Kears!KeysBalance
    OBVIOUS
  <2>1. slot \in Saves
    BY DEF KearSound, KearTyped
  <2>2. /\ Kears!Cardinality(Kears!Keys(slot))
             = KearsOf(slot) + Kears!Cardinality(slot.bits \cap VanillaKear)
        /\ KearsOf(slot) \in Nat /\ Kears!Cardinality(slot.bits \cap VanillaKear) \in Nat
    BY <2>1, KeysSplit
  <2>3. slot.spent \in Int /\ slot.credited \in Int /\ slot.opened \in Int
    BY <2>1 DEF Saves
  <2>4. ASSUME Kears!InRoom, ~kearSuppress
        PROVE  Kears!Usable(slot)
                 = slot.credited + Kears!Cardinality(slot.bits \cap VanillaKear) - slot.opened
    <3>1. KearsOf(slot) = slot.spent + slot.credited - slot.opened
      BY <2>4 DEF KeysPaid, Balanced, Kears!InRoom
    <3> QED BY <2>2, <2>3, <3>1 DEF Kears!Usable
  <2>5. ASSUME Kears!InRoom, kearTurn = "game", neutralize, kearSuppress
        PROVE  Kears!Usable(slot) <= 0
    <3>1. Kears!Cardinality(Kears!Keys(slot)) <= slot.spent
      BY <2>5 DEF KearSound, NoneOfUse
    <3>2. Kears!Cardinality(Kears!Keys(slot)) \in Int
      BY <2>2
    <3> QED BY <2>3, <3>1, <3>2 DEF Kears!Usable
  <2> QED BY <2>4, <2>5 DEF Kears!KeysBalance
<1> QED BY <1>1, <1>2, <1>3, <1>4, <1>5, PTL DEF Kears!Spec

-----------------------------------------------------------------------------
(***************************************************************************)
(* Abilities.                                                              *)
(***************************************************************************)
\* The readings that agree and are all wrong are no more than the flicker has lasted.
Readings ==
    /\ wrong \in Nat /\ confirmed \in 0 .. WaterConfirmTicks /\ deep \in BOOLEAN
    /\ lastDeep \in BOOLEAN
    /\ wrong < WaterConfirmTicks /\ (~real => confirmed <= wrong)
    /\ abilityMode \in {"fall", "surface"} => real

\* A burrow from a gated commit is watched, armed for a mode that was granted, from the
\* commit to its end; the tick that sees the commit before it is applied is its first.
Watched ==
    /\ notBurrowing \in Nat /\ late \in {0, 1, 2}
    /\ late > 0 => abilityMode = "foot"
    /\ late = 1 => notBurrowing = 0
    /\ gated => abilityPlayer /\ lastPlayer /\ (abilityMode = "burrow" \/ late > 0)
    /\ jumpHooked /\ gated => abilityArmed \in Gated!Ability \cap abilityGranted

\* The polls in an ungranted mode were readings of the one side, and the other is granted.
Trespassing ==
    /\ trespass \in 0 .. WaterConfirmTicks
    /\ jumpHooked /\ trespass > 0 =>
         /\ gated /\ trespass <= confirmed
         /\ Gated!ModeAt(~lastDeep) \in abilityGranted

AbilityInv == Readings /\ Watched /\ Trespassing /\ Gated!TrespassEnds

\* A granted arm leaves at most one of the two modes to refuse.
LEMMA OneModeRefused ==
    ASSUME NEW d \in BOOLEAN, abilityArmed \in Gated!Ability \cap abilityGranted,
           Gated!ModeAt(d) \notin abilityGranted
    PROVE  Gated!ModeAt(~d) \in abilityGranted /\ abilityArmed # Gated!ModeAt(d)
  BY DEF Gated!ModeAt, Gated!Ability

\* A reading of the water keeps the invariant.
LEMMA ObserveKeeps ==
    ASSUME Gated!AbilitiesAssumption, AbilityInv, NEW d \in BOOLEAN, Gated!Observe(d)
    PROVE  AbilityInv'
<1> USE DEF AbilityInv, Gated!AbilitiesAssumption
<1> DEFINE c == IF d # lastDeep THEN 1
                ELSE IF confirmed < WaterConfirmTicks THEN confirmed + 1 ELSE confirmed
           crossed == c = WaterConfirmTicks /\ abilityArmed # Gated!ModeAt(d)
           acts == crossed /\ Gated!Blocked(Gated!ModeAt(d))
<1>1. /\ abilityPlayer /\ lastPlayer /\ abilityMode = "burrow" /\ enforce /\ abilityArmed # "None"
      /\ d = deep \/ wrong < WaterConfirmTicks - 1
      /\ lastDeep' = d /\ confirmed' = c /\ notBurrowing' = 0
      /\ wrong' = (IF d = deep THEN 0 ELSE wrong + 1)
      /\ real' = (d = deep \/ (d = lastDeep /\ real))
      /\ abilityArmed' = (IF acts THEN "None" ELSE IF crossed THEN Gated!ModeAt(d) ELSE abilityArmed)
      /\ abilityMode' = (IF ~acts THEN abilityMode
                         ELSE IF d THEN "fall" ELSE IF jumpHooked THEN "surface" ELSE abilityMode)
      /\ gated' = (gated /\ abilityMode' = "burrow")
      /\ trespass' = (IF abilityMode' = "burrow" /\ d = deep THEN Gated!Streak ELSE 0)
      /\ UNCHANGED abilityPlayer /\ UNCHANGED late /\ UNCHANGED deep /\ UNCHANGED jumpHooked
      /\ UNCHANGED abilityGranted /\ UNCHANGED lastPlayer
  BY DEF Gated!Observe, Gated!Polled
<1>2. /\ c \in 1 .. WaterConfirmTicks /\ (d # lastDeep => c = 1)
      /\ d = lastDeep => c <= confirmed + 1
      /\ (c < WaterConfirmTicks /\ d = lastDeep => c = confirmed + 1)
  BY DEF Readings
<1>3. late = 0
  BY <1>1 DEF Watched
<1>4. acts => c = WaterConfirmTicks
  OBVIOUS
<1>5. jumpHooked /\ gated' => ~acts
  BY <1>1
<1>6. gated /\ jumpHooked /\ c = WaterConfirmTicks /\ Gated!ModeAt(d) \notin abilityGranted => acts
  BY <1>1, OneModeRefused DEF Watched, Gated!Blocked
<1> HIDE DEF c, acts
<1>7. Readings'
  <2>0. ASSUME ~real'
        PROVE  d # deep /\ (d # lastDeep \/ ~real)
    <3>1. real' = (d = deep \/ (d = lastDeep /\ real))
      BY <1>1
    <3> QED BY <2>0, <3>1, Zenon
  <2>1. ASSUME ~real'
        PROVE  c <= wrong'
    <3>1. wrong' = wrong + 1 /\ (d # lastDeep \/ ~real)
      BY <1>1, <2>0, <2>1
    <3>2. CASE d # lastDeep
      BY <1>2, <3>1, <3>2 DEF Readings
    <3>3. CASE d = lastDeep
      BY <1>2, <3>1, <3>3 DEF Readings
    <3> QED BY <3>2, <3>3
  <2>2. wrong' \in Nat /\ wrong' < WaterConfirmTicks
    BY <1>1 DEF Readings
  <2>3. abilityMode' \in {"fall", "surface"} => real'
    BY <1>1, <1>2, <1>4, <2>1, <2>2 DEF Readings
  <2> QED BY <1>1, <1>2, <2>1, <2>2, <2>3 DEF Readings
<1>8. Watched'
  <2>1. jumpHooked /\ gated' => abilityArmed' \in Gated!Ability \cap abilityGranted
    BY <1>1, <1>5 DEF Watched, Gated!Blocked, Gated!ModeAt, Gated!Ability, acts
  <2> QED BY <1>1, <1>3, <2>1 DEF Watched
<1>9. trespass' \in 0 .. WaterConfirmTicks
  BY <1>1 DEF Trespassing, Gated!Streak
<1>10. ASSUME jumpHooked, trespass' > 0
       PROVE  /\ gated' /\ trespass' <= c /\ Gated!ModeAt(~d) \in abilityGranted
              /\ c < WaterConfirmTicks
  <2>1. abilityMode' = "burrow" /\ gated /\ Gated!ModeAt(d) \notin abilityGranted
        /\ trespass' = (IF trespass = WaterConfirmTicks THEN trespass ELSE trespass + 1)
    BY <1>1, <1>3, <1>10 DEF Gated!Streak, Gated!Blocked
  <2>2. gated' /\ ~acts /\ c < WaterConfirmTicks
    <3>1. gated'
      <4>1. gated' = (gated /\ abilityMode' = "burrow")
        BY <1>1
      <4> QED BY <2>1, <4>1, Zenon
    <3>2. ~acts
      BY <1>5, <1>10, <3>1
    <3>3. c # WaterConfirmTicks
      BY <1>6, <1>10, <2>1, <3>2
    <3> QED BY <1>2, <3>1, <3>2, <3>3
  <2>3. Gated!ModeAt(~d) \in abilityGranted
    BY <1>10, <2>1, OneModeRefused DEF Watched
  <2>4. CASE d = lastDeep
    BY <1>2, <2>1, <2>2, <2>3, <2>4, <1>10 DEF Trespassing, Readings
  <2>5. CASE d # lastDeep
    <3>1. trespass = 0
      <4>1. d = ~lastDeep
        BY <2>5 DEF Readings
      <4> QED BY <1>10, <2>1, <4>1 DEF Trespassing
    <3> QED BY <1>2, <2>1, <2>2, <2>3, <3>1
  <2> QED BY <2>4, <2>5
<1>11. Trespassing' /\ Gated!TrespassEnds'
  BY <1>1, <1>2, <1>9, <1>10 DEF Trespassing, Gated!TrespassEnds, Gated!ModeAt
<1> QED BY <1>7, <1>8, <1>11

\* So does every step.
LEMMA AbilityInvNext ==
    ASSUME Gated!AbilitiesAssumption, AbilityInv, [Gated!Next]_(Gated!vars)
    PROVE  AbilityInv'
<1> USE DEF AbilityInv, Gated!AbilitiesAssumption, Readings, Watched, Trespassing,
            Gated!TrespassEnds, Gated!gameVars, Gated!gateVars, Gated!ghostVars
<1>1. CASE UNCHANGED Gated!vars
  BY <1>1 DEF Gated!vars, Gated!ModeAt
<1>2. CASE Gated!GameStep
  <2>1. CASE Gated!SetBurrowGround
    <3>1. gated' => enforce /\ abilityArmed' \in Gated!Ability \cap abilityGranted
      BY <2>1 DEF Gated!SetBurrowGround, Gated!Blocked, Gated!ModeAt, Gated!Ability
    <3>2. /\ abilityMode' \in {"burrow", "foot"} /\ late' \in {0, 1}
          /\ (late' > 0 => abilityMode' = "foot")
          /\ (abilityMode' = "burrow" \/ late' > 0) /\ abilityPlayer
          /\ gated' = (enforce /\ lastPlayer)
          /\ real' = TRUE /\ trespass' = 0 /\ confirmed' = WaterConfirmTicks /\ notBurrowing' = 0
          /\ lastDeep' = deep /\ UNCHANGED abilityPlayer /\ UNCHANGED deep /\ UNCHANGED wrong
          /\ UNCHANGED jumpHooked /\ UNCHANGED lastPlayer /\ UNCHANGED abilityGranted
      BY <2>1 DEF Gated!SetBurrowGround
    <3>3. real' /\ WaterConfirmTicks \in 0 .. WaterConfirmTicks
      BY <3>2
    <3>4. Readings'
      BY <3>2, <3>3
    <3>5. Watched'
      BY <3>1, <3>2
    <3> QED BY <3>2, <3>4, <3>5
  <2>2. CASE Gated!SetBurrowInObject
    BY <2>2 DEF Gated!SetBurrowInObject
  <2>3. CASE Gated!CommitApplies
    BY <2>3 DEF Gated!CommitApplies, Gated!ModeAt
  <2>4. CASE Gated!BurrowJump
    BY <2>4 DEF Gated!BurrowJump
  <2>5. CASE Gated!ModeEnds
    BY <2>5 DEF Gated!ModeEnds
  <2>6. CASE Gated!Moves
    BY <2>6 DEF Gated!Moves, Gated!ModeAt
  <2>7. CASE Gated!Comes
    BY <2>7 DEF Gated!Comes, Gated!ModeAt
  <2>8. ASSUME NEW destroyed \in BOOLEAN, Gated!Goes(destroyed)
        PROVE  AbilityInv'
    BY <2>8 DEF Gated!Goes
  <2> QED BY <1>2, <2>1, <2>2, <2>3, <2>4, <2>5, <2>6, <2>7, <2>8 DEF Gated!GameStep
<1>3. CASE Gated!SetEnforce
  BY <1>3 DEF Gated!SetEnforce
<1>4. CASE Gated!ItemReceived
  BY <1>4 DEF Gated!ItemReceived, Gated!ModeAt
<1>5. CASE Gated!Tick
  <2>1. CASE Gated!OtherPlayer
    BY <2>1 DEF Gated!OtherPlayer
  <2>2. CASE Gated!ObserveOnly
    <3> DEFINE n == IF abilityMode = "burrow" THEN 0 ELSE notBurrowing + 1
    <3>1. /\ abilityPlayer /\ lastPlayer /\ late < 2 /\ abilityArmed' = Gated!ArmAfter(n)
          /\ notBurrowing' = (IF n > BurrowConfirmGraceTicks THEN BurrowConfirmGraceTicks ELSE n)
          /\ abilityMode # "burrow" \/ ~enforce \/ abilityArmed' = "None"
          /\ late' = (IF late = 1 THEN 2 ELSE late) /\ trespass' = Gated!Streak
          /\ UNCHANGED abilityPlayer /\ UNCHANGED abilityMode /\ UNCHANGED deep
          /\ UNCHANGED lastDeep
          /\ UNCHANGED confirmed /\ UNCHANGED wrong /\ UNCHANGED real /\ UNCHANGED gated
          /\ UNCHANGED jumpHooked /\ UNCHANGED abilityGranted /\ UNCHANGED lastPlayer
      BY <2>2 DEF Gated!ObserveOnly
    <3>2. n \in Nat /\ (gated => n \in {0, 1})
      BY <3>1
    <3>3. gated => abilityArmed' = abilityArmed
      BY <3>1, <3>2 DEF Gated!ArmAfter
    <3>4. Readings'
      BY <3>1
    <3>5. Watched'
      BY <3>1, <3>2, <3>3
    <3>6. jumpHooked => trespass' = 0
      BY <3>1, <3>3 DEF Gated!Streak, Gated!Blocked, Gated!Ability
    <3>7. trespass' \in 0 .. WaterConfirmTicks
      BY <3>1 DEF Gated!Streak
    <3> QED BY <3>1, <3>4, <3>5, <3>6, <3>7
  <2>3. CASE Gated!ReadingUnavailable
    BY <2>3 DEF Gated!ReadingUnavailable, Gated!Unread, Gated!Polled
  <2>4. ASSUME NEW d \in BOOLEAN, Gated!Observe(d)
        PROVE  AbilityInv'
    BY <2>4, ObserveKeeps
  <2> QED BY <1>5, <2>1, <2>2, <2>3, <2>4 DEF Gated!Tick
<1> QED BY <1>1, <1>2, <1>3, <1>4, <1>5 DEF Gated!Next

\* The shoreline ends a burrow in a mode that was not granted within WaterConfirmTicks
\* readings, and never one that the readings put on the wrong side, for every length of
\* the two waits a late commit leaves.
THEOREM ShorelineHeld == Gated!AbilitiesAssumption => (Gated!Spec => []Gated!ShorelineHolds)
<1> SUFFICES ASSUME Gated!AbilitiesAssumption
             PROVE  Gated!Spec => []Gated!ShorelineHolds
  OBVIOUS
<1>1. Gated!Init => AbilityInv
  <2> SUFFICES ASSUME Gated!Init PROVE AbilityInv
    OBVIOUS
  <2>1. deep \in BOOLEAN /\ lastDeep \in BOOLEAN /\ ~gated
    BY Zenon DEF Gated!Init
  <2>2. /\ wrong = 0 /\ confirmed = 0 /\ notBurrowing = 0 /\ late = 0 /\ trespass = 0
        /\ abilityMode = "foot"
    BY DEF Gated!Init
  <2> QED BY <2>1, <2>2 DEF AbilityInv, Readings, Watched, Trespassing, Gated!TrespassEnds,
                            Gated!AbilitiesAssumption
<1>2. AbilityInv /\ [Gated!Next]_(Gated!vars) => AbilityInv'
  BY AbilityInvNext
<1>3. AbilityInv => Gated!ShorelineHolds
  BY DEF AbilityInv, Readings, Gated!ShorelineHolds, Gated!FallsAreDeserved
<1> QED BY <1>1, <1>2, <1>3, PTL DEF Gated!Spec


-----------------------------------------------------------------------------
(***************************************************************************)
(* Capacity.                                                               *)
(***************************************************************************)
\* The received upgrades were sent, a saved file holds no others, and the player whose
\* body is there has the pool that the save's bits make.
Counted ==
    /\ capSession \in Session \cup {Nobody} /\ capAuthed \in BOOLEAN
    /\ (capAuthed => capSession # Nobody)
    /\ sent \in [Session -> 0 .. Cap]
    /\ capHave \in Nat /\ capApplied \in Nat /\ (capSession # Nobody => capHave <= sent[capSession])
    /\ capSaved \in [Session -> Nat]
    /\ \A s \in Session : capSaved[s] = Capacities!Unsaved \/ capSaved[s] <= sent[s]
    /\ field \in Nat /\ pool \in Nat /\ cur \in Nat /\ dirty \in BOOLEAN
    /\ capAlive \in BOOLEAN /\ (capAlive => pool = Base + field /\ cur <= pool)

\* Whose save is live, and that what a load brought back is looked at once more.
OwnUpgrades ==
    /\ capScreen \in {"title", "menu", "play"} /\ (capAlive => capScreen = "play")
    /\ capScreen = "menu" => capAuthed /\ dirty
    /\ capScreen = "play" => /\ capSession # Nobody /\ capRun = capSession
                             /\ dirty \/ field >= capApplied
    /\ capRun # Nobody => capScreen = "play" /\ field <= sent[capRun]

UpgradesInv == Counted /\ OwnUpgrades /\ (ticked => field >= capHave /\ pool = Base + field)

\* Nothing but a tick changes the pool of a player who is there, and that tick leaves
\* what the pool is missing as it was.
LEMMA UpgradesNext ==
    ASSUME Capacities!CapacityAssumption, ~Drops, UpgradesInv, Capacities!Next
    PROVE  /\ UpgradesInv'
           /\ capAlive /\ pool' # pool => capAlive' /\ pool' - cur' = pool - cur
<1> USE DEF UpgradesInv, Counted, OwnUpgrades, Capacities!CapacityAssumption,
            Capacities!upgrades, Capacities!player, Capacities!Unsaved
<1>1. CASE Capacities!Connect
  <2>1. /\ ~capAuthed /\ capAuthed' = TRUE /\ ~ticked'
        /\ UNCHANGED <<sent, capScreen, capRun, capSaved, field, capAlive, pool, cur>>
    BY <1>1 DEF Capacities!Connect
  <2>2. CASE capSession # Nobody /\ UNCHANGED <<capSession, capHave, capApplied, dirty>>
    BY <2>1, <2>2
  <2>3. CASE /\ capScreen = "title" /\ capSession' \in Session /\ capHave' = 0 /\ capApplied' = 0
             /\ dirty' = FALSE
    <3>1. sent'[capSession'] \in 0 .. Cap /\ capSession' # Nobody
      BY <2>1, <2>3
    <3>2. ~capAlive' /\ capAlive' \in BOOLEAN /\ ~dirty' /\ dirty' \in BOOLEAN
      BY <2>1, <2>3
    <3>3. /\ sent' \in [Session -> 0 .. Cap] /\ capSaved' \in [Session -> Nat]
          /\ \A s \in Session : capSaved'[s] = Capacities!Unsaved \/ capSaved'[s] <= sent'[s]
      BY <2>1
    <3>4. field' \in Nat /\ pool' \in Nat /\ cur' \in Nat
      BY <2>1
    <3>5. capHave' \in Nat /\ capApplied' \in Nat /\ capHave' <= sent'[capSession']
      BY <2>3, <3>1
    <3>6. Counted'
      BY <2>1, <2>3, <3>1, <3>2, <3>3, <3>4, <3>5
    <3>7. OwnUpgrades'
      BY <2>1, <2>3
    <3> QED BY <2>1, <3>6, <3>7
  <2> QED BY <1>1, <2>2, <2>3 DEF Capacities!Connect
<1>2. CASE Capacities!Disconnect
  BY <1>2 DEF Capacities!Disconnect
<1>3. CASE Capacities!ItemReceived
  <2>1. /\ capSession \in Session /\ capHave < Cap /\ capHave' = capHave + 1 /\ ~ticked'
        /\ sent' = [sent EXCEPT ![capSession] = IF capHave < sent[capSession] THEN sent[capSession]
                                               ELSE sent[capSession] + 1]
        /\ UNCHANGED <<capSession, capAuthed, capApplied, dirty, capScreen, capRun, capSaved,
                       field, capAlive, pool, cur>>
    BY <1>3 DEF Capacities!ItemReceived
  <2>2. ASSUME NEW s \in Session
        PROVE  sent'[s] \in 0 .. Cap /\ sent[s] <= sent'[s]
    BY <2>1
  <2>3. sent' \in [Session -> 0 .. Cap] /\ capHave' <= sent'[capSession]
    BY <2>1, <2>2
  <2>4. \A s \in Session : capSaved[s] = Cap + 1 \/ capSaved[s] <= sent'[s]
    BY <2>2
  <2>5. capRun # Nobody => field <= sent'[capRun]
    BY <2>2
  <2> QED BY <2>1, <2>3, <2>4, <2>5
<1>4. CASE Capacities!OpenMenu
  BY <1>4 DEF Capacities!OpenMenu, Capacities!ForcedDirty
<1>5. CASE Capacities!Load
  <2>1. /\ capScreen = "menu" /\ capScreen' = "play" /\ capRun' = capSession /\ ~ticked'
        /\ field' = IF capSaved[capSession] = Cap + 1 THEN Capacities!Cleared
                    ELSE capSaved[capSession]
        /\ dirty' = (dirty \/ capAuthed)
        /\ UNCHANGED <<capSession, capAuthed, sent, capHave, capApplied, capSaved, capAlive,
                       pool, cur>>
    BY <1>5 DEF Capacities!Load, Capacities!ForcedDirty
  <2>2. capAuthed /\ capSession \in Session /\ Capacities!Cleared = 0 /\ dirty' = TRUE
    BY <2>1 DEF Capacities!Cleared
  <2>3. field' \in Nat /\ field' <= sent[capSession]
    BY <2>1, <2>2
  <2> QED BY <2>1, <2>2, <2>3
<1>6. CASE Capacities!PlayerAppears
  BY <1>6 DEF Capacities!PlayerAppears
<1>7. CASE Capacities!PlayerGoes
  BY <1>7 DEF Capacities!PlayerGoes
<1>8. CASE Capacities!Hurt
  BY <1>8 DEF Capacities!Hurt
<1>9. CASE Capacities!GameSaves
  <2>1. /\ capRun \in Session /\ field <= sent[capRun] /\ ~ticked'
        /\ capSaved' = [capSaved EXCEPT ![capRun] = field]
        /\ UNCHANGED <<capSession, capAuthed, sent, capHave, capApplied, dirty, capScreen,
                       capRun, field, capAlive, pool, cur>>
    BY <1>9 DEF Capacities!GameSaves
  <2> QED BY <2>1
<1>10. CASE Capacities!QuitToTitle
  BY <1>10 DEF Capacities!QuitToTitle
<1>11. CASE Capacities!Tick
  <2>1. /\ ticked' = capAlive
        /\ UNCHANGED <<capSession, capAuthed, sent, capHave, capScreen, capRun, capSaved, capAlive>>
    BY <1>11 DEF Capacities!Tick
  <2>2. CASE Capacities!Dirty /\ capAlive
    <3> DEFINE top == IF field > capHave THEN field ELSE capHave
    <3>1. /\ field' = top /\ pool' = Base + top /\ capApplied' = capHave /\ dirty' = FALSE
          /\ cur' = IF pool - cur > Base + top THEN 0 ELSE Base + top - (pool - cur)
      BY <1>11, <2>2 DEF Capacities!Tick, Capacities!ApplyUpgrades, Capacities!Missing
    <3>2. top \in Nat /\ top >= capHave /\ top >= field
      OBVIOUS
    <3>3. capSession # Nobody /\ capRun = capSession /\ top <= sent[capRun]
      BY <2>2
    <3> HIDE DEF top
    <3>4. pool - cur <= Base + top /\ cur' = Base + top - (pool - cur) /\ cur' \in Nat
      BY <2>2, <3>1, <3>2
    <3>5. pool' - cur' = pool - cur /\ cur' <= pool' /\ pool' \in Nat /\ field' \in Nat
      BY <2>2, <3>1, <3>2, <3>4
    <3> QED BY <2>1, <2>2, <3>1, <3>2, <3>3, <3>4, <3>5
  <2>3. CASE ~(Capacities!Dirty /\ capAlive)
    <3>1. dirty' = Capacities!Dirty /\ UNCHANGED <<field, pool, cur, capApplied>>
      BY <1>11, <2>3 DEF Capacities!Tick
    <3> QED BY <2>1, <2>3, <3>1 DEF Capacities!Dirty
  <2> QED BY <2>2, <2>3
<1> QED BY <1>1, <1>2, <1>3, <1>4, <1>5, <1>6, <1>7, <1>8, <1>9, <1>10, <1>11 DEF Capacities!Next

\* A run has the upgrades its session received, no others, and an upgrade neither heals
\* nor hurts (upgrade_state, game_upgrades and the cleared slot in game_menu_hooks), if
\* no connection is lost between Start Game and the load.
THEOREM UpgradesFollow ==
    Capacities!CapacityAssumption /\ ~Drops => (Capacities!Spec => Capacities!CapacityFollows)
<1> SUFFICES ASSUME Capacities!CapacityAssumption, ~Drops
             PROVE  Capacities!Spec => Capacities!CapacityFollows
  OBVIOUS
<1>1. Capacities!Init => UpgradesInv
  <2> SUFFICES ASSUME Capacities!Init PROVE UpgradesInv
    OBVIOUS
  <2>1. \A s \in Session : sent[s] = 0 /\ capSaved[s] = Capacities!Unsaved
    BY DEF Capacities!Init
  <2>2. sent \in [Session -> 0 .. Cap] /\ capSaved \in [Session -> Nat]
    BY DEF Capacities!CapacityAssumption, Capacities!Init, Capacities!Unsaved
  <2>3. /\ ~capAuthed /\ capSession = Nobody /\ ~capAlive /\ ~ticked /\ capRun = Nobody
        /\ dirty = FALSE
    BY Zenon DEF Capacities!Init
  <2>4. /\ capHave = 0 /\ capApplied = 0 /\ capScreen = "title" /\ field = 0 /\ pool = Base
        /\ cur = Base
        /\ capAuthed \in BOOLEAN /\ capAlive \in BOOLEAN
    BY DEF Capacities!Init
  <2> QED BY <2>1, <2>2, <2>3, <2>4
          DEF Capacities!CapacityAssumption, UpgradesInv, Counted, OwnUpgrades
<1>2. UpgradesInv /\ [Capacities!Next]_(Capacities!vars) => UpgradesInv'
  <2>1. ASSUME UpgradesInv, UNCHANGED Capacities!vars PROVE UpgradesInv'
    BY <2>1 DEF UpgradesInv, Counted, OwnUpgrades, Capacities!vars, Capacities!upgrades,
                Capacities!player
  <2> QED BY <2>1, UpgradesNext
<1>3. UpgradesInv /\ [Capacities!Next]_(Capacities!vars)
        => [capAlive /\ pool' # pool => capAlive' /\ pool' - cur' = pool - cur]_(Capacities!vars)
  BY UpgradesNext
<1>4. UpgradesInv => /\ ticked => field >= capHave /\ pool = Base + field
                     /\ capRun # Nobody => field <= sent[capRun]
  BY DEF UpgradesInv, OwnUpgrades
<1> QED BY <1>1, <1>2, <1>3, <1>4, PTL DEF Capacities!Spec, Capacities!CapacityFollows

-----------------------------------------------------------------------------
(***************************************************************************)
(* BoneUp.                                                                 *)
(***************************************************************************)
\* The caps in force are the received ones unless the console fixed them, and outside a
\* commit the player fights with the defense in the save.
BoneInv ==
    /\ platform \in {"linux", "windows"} /\ level \in [Stat -> Nat]
    /\ boneHave \in [Stat -> Nat] /\ boneCounts \in [Stat -> Int]
    /\ ~forced => boneCounts = boneHave
    /\ boneMenu \in {"rows", "commit"} => cursor \in Stat \cup {Bones!Bank}
    /\ boneMenu # "commit" => combat = level["defense"]

\* What a purchase that has passed the gate may do.
Buys(s) ==
    /\ cursor = s /\ boneMenu = "rows" /\ boneMenu' = "commit"
    /\ level' = [level EXCEPT ![s] = @ + 1]
    /\ enforceLive => level[s] < MaxStatLevel /\ level[s] < boneCounts[s]

\* The levels that the wrapper shows the game are taken back, but for one bought.
LEMMA FakeIsTakenBack ==
    ASSUME BoneInv
    PROVE  Bones!Restored(Bones!Seen) = level
BY DEF BoneInv, Bones!Restored, Bones!Seen

\* A row that is shown maxed passes no gate, and one that passes is shown as it is.
LEMMA GateHolds ==
    ASSUME Bones!BoneUpAssumption, BoneInv, NEW s \in Stat, Bones!Seen[s] < Bones!Gate(s)
    PROVE  /\ ~Bones!Fakes(s)
           /\ enforceLive /\ (boneMenu = "rows" /\ cursor = s)
                => level[s] < MaxStatLevel /\ level[s] < boneCounts[s]
<1> USE DEF BoneInv, Bones!BoneUpAssumption
<1>1. Bones!Seen[s] = IF Bones!Fakes(s) THEN Bones!Maxed ELSE level[s]
  BY DEF Bones!Seen
<1>2. ~Bones!Fakes(s)
  <2>1. CASE platform = "linux"
    BY <2>1 DEF Bones!Fakes
  <2>2. CASE platform = "windows"
    BY <1>1, <2>2 DEF Bones!Gate, Bones!Maxed
  <2> QED BY <2>1, <2>2
<1>3. level[s] \in Nat /\ boneCounts[s] \in Int
  OBVIOUS
<1>4. ASSUME enforceLive, boneMenu = "rows", cursor = s
      PROVE  level[s] < MaxStatLevel /\ level[s] < boneCounts[s]
  <2>1. CASE platform = "linux"
    BY <1>1, <1>2, <1>3, <1>4, <2>1 DEF Bones!Gate, Bones!Provide, Bones!Lower
  <2>2. CASE platform = "windows"
    BY <1>2, <1>3, <1>4, <2>2 DEF Bones!Fakes, Bones!Provide, Bones!Lower
  <2> QED BY <2>1, <2>2
<1> QED BY <1>2, <1>4

\* A purchase is of the row under the cursor, and adds one to its level.
LEMMA BoughtOnce ==
    ASSUME Bones!BoneUpAssumption, BoneInv, cursor \in Stat, boneMenu = "rows",
           Bones!Seen[cursor] < Bones!Gate(cursor)
    PROVE  Bones!Restored([Bones!Seen EXCEPT ![cursor] = @ + 1])
             = [level EXCEPT ![cursor] = @ + 1]
<1>1. ~Bones!Fakes(cursor)
  BY GateHolds
<1> DEFINE more == [Bones!Seen EXCEPT ![cursor] = @ + 1]
<1>2. ASSUME NEW s \in Stat
      PROVE  (IF Bones!Fakes(s) THEN level[s] ELSE more[s])
               = (IF s = cursor THEN level[s] + 1 ELSE level[s])
  BY <1>1, <1>2 DEF Bones!Seen
<1>3. Bones!Restored(more) = [s \in Stat |-> IF s = cursor THEN level[s] + 1 ELSE level[s]]
  BY <1>2 DEF Bones!Restored
<1> QED BY <1>3 DEF BoneInv

\* An update of the menu leaves the levels, or buys one; and it closes an entry on
\* Windows for the native cap alone.
LEMMA UpdateIsHonest ==
    ASSUME Bones!BoneUpAssumption, BoneInv, Bones!Update
    PROVE  /\ BoneInv'
           /\ level' = level \/ Buys(cursor)
           /\ boneMenu = "rows" /\ boneMenu' = "commit" => cursor \in Stat /\ Buys(cursor)
           /\ boneMenu = "entry" /\ boneMenu' = "closed" /\ platform = "windows"
                => \A s \in Stat : level[s] >= Native
<1>1. UNCHANGED <<platform, boneAuthed, forced, boneHave, enforceLive, boneCounts>>
  BY DEF Bones!Update, Bones!capVars
<1>2. Bones!Restored(Bones!Seen) = level
  BY FakeIsTakenBack
<1>3. ASSUME boneMenu # "rows" PROVE Bones!Seen = level
  BY <1>3 DEF Bones!Seen, Bones!Fakes, BoneInv
<1>4. CASE Bones!Enter
  <2>1. /\ boneMenu = "entry" /\ boneMenu' \in {"rows", "closed"} /\ cursor' \in Stat
        /\ level' = level /\ combat' = combat
    BY <1>2, <1>4 DEF Bones!Enter
  <2>2. boneMenu' = "closed" /\ platform = "windows" => \A s \in Stat : level[s] >= Native
    BY <1>3, <1>4, <2>1 DEF Bones!Enter, BoneInv, Bones!BoneUpAssumption
  <2> QED BY <1>1, <2>1, <2>2 DEF BoneInv
<1>5. CASE Bones!MoveCursor
  BY <1>1, <1>2, <1>5 DEF Bones!MoveCursor, BoneInv
<1>6. CASE Bones!Confirm
  <2>1. boneMenu = "rows" /\ cursor' = cursor
    BY <1>6 DEF Bones!Confirm
  <2>2. CASE cursor = Bones!Bank
    <3>1. level' = level /\ combat' = Bones!Seen["defense"] /\ boneMenu' = "rows"
      BY <1>2, <1>6, <2>2 DEF Bones!Confirm, Bones!Commits
    <3>2. Bones!Seen["defense"] = level["defense"]
      BY <2>2 DEF Bones!Seen, Bones!Fakes, Bones!BoneUpAssumption
    <3> QED BY <1>1, <2>1, <3>1, <3>2 DEF BoneInv
  <2>3. CASE cursor # Bones!Bank /\ ~(Bones!Seen[cursor] < Bones!Gate(cursor))
    BY <1>1, <1>2, <1>6, <2>1, <2>3 DEF Bones!Confirm, BoneInv
  <2>4. CASE cursor # Bones!Bank /\ Bones!Seen[cursor] < Bones!Gate(cursor)
    <3>1. cursor \in Stat
      BY <2>1, <2>4 DEF BoneInv
    <3>2. boneMenu' = "commit" /\ level' = [level EXCEPT ![cursor] = @ + 1]
      BY <1>6, <2>1, <2>4, <3>1, BoughtOnce DEF Bones!Confirm
    <3>3. Buys(cursor)
      BY <2>1, <2>4, <3>1, <3>2, GateHolds DEF Buys
    <3>4. level' \in [Stat -> Nat]
      BY <3>1, <3>2 DEF BoneInv
    <3> QED BY <1>1, <2>1, <3>1, <3>2, <3>3, <3>4 DEF BoneInv
  <2> QED BY <2>2, <2>3, <2>4
<1>7. CASE Bones!Commit
  <2>1. /\ boneMenu = "commit" /\ boneMenu' = "rows" /\ cursor' = cursor
        /\ level' = level /\ combat' = level["defense"]
    BY <1>2, <1>3, <1>7 DEF Bones!Commit, Bones!Commits
  <2> QED BY <1>1, <2>1 DEF BoneInv
<1>8. CASE Bones!Leave
  BY <1>1, <1>2, <1>8 DEF Bones!Leave, BoneInv
<1>9. CASE Bones!Idle
  BY <1>1, <1>2, <1>9 DEF Bones!Idle, BoneInv
<1> QED BY <1>4, <1>5, <1>6, <1>7, <1>8, <1>9 DEF Bones!Update

\* So do the steps outside the menu, which leave the levels and the open menu alone.
LEMMA CapsKeepBones ==
    ASSUME Bones!BoneUpAssumption, BoneInv, Bones!Tick \/ Bones!SetStatCaps \/ Bones!OpenMenu
    PROVE  /\ BoneInv' /\ level' = level
           /\ boneMenu' = boneMenu \/ (boneMenu = "closed" /\ boneMenu' = "entry")
<1>1. CASE Bones!Tick
  <2>1. UNCHANGED <<platform, forced, boneMenu, cursor, level, combat>>
    BY <1>1 DEF Bones!Tick, Bones!menuVars
  <2>2. boneHave' \in [Stat -> Nat]
    BY <1>1 DEF Bones!Tick, Bones!Received, Bones!NoUps, BoneInv
  <2>3. boneCounts' = IF forced THEN boneCounts ELSE boneHave'
    BY <1>1 DEF Bones!Tick, Bones!Recompute
  <2> QED BY <2>1, <2>2, <2>3 DEF BoneInv
<1>2. CASE Bones!SetStatCaps
  <2>1. /\ UNCHANGED <<platform, boneHave, boneMenu, cursor, level, combat>> /\ forced'
        /\ boneCounts' \in [Stat -> Int]
    BY <1>2 DEF Bones!SetStatCaps, Bones!menuVars, Bones!BoneUpAssumption
  <2> QED BY <2>1 DEF BoneInv
<1>3. CASE Bones!OpenMenu
  BY <1>3 DEF Bones!OpenMenu, Bones!capVars, BoneInv
<1> QED BY <1>1, <1>2, <1>3

\* The text is annotated for the row it describes, with the cap in force.
LEMMA TextIsInForce ==
    ASSUME Bones!Update, boneMenu' = "rows", cursor' \in Stat, enforceLive
    PROVE  boneShown' \in {Bones!NoText, Bones!DisplayCap(cursor')}
BY DEF Bones!Update, Bones!Annotate, Bones!Annotated

\* No stat is bought past its cap, every purchase stays, the fake level reaches neither
\* combat nor the entry, and the cap shown is the one in force (stat_cap_state,
\* levelcap_hooks and the LevelUpMenu hooks of both platforms).
THEOREM CapsAreHonest == Bones!BoneUpAssumption => (Bones!Spec => Bones!BoneUpHonest)
<1> SUFFICES ASSUME Bones!BoneUpAssumption
             PROVE  Bones!Spec => Bones!BoneUpHonest
  OBVIOUS
<1> DEFINE
      Capped == \A s \in Stat : level'[s] # level[s] =>
                  /\ level'[s] = level[s] + 1
                  /\ enforceLive => level'[s] <= MaxStatLevel
                  /\ enforceLive /\ ~forced => level'[s] <= boneHave[s]
      Stays  == boneMenu = "rows" /\ boneMenu' = "commit" => level'[cursor] > level[cursor]
      Opens  == boneMenu = "entry" /\ boneMenu' = "closed" /\ platform = "windows" =>
                  \A s \in Stat : level[s] >= Native
      Shows  == Bones!Update /\ boneMenu' = "rows" /\ cursor' \in Stat /\ enforceLive =>
                  boneShown' \in {Bones!NoText, Bones!DisplayCap(cursor')}
<1>1. Bones!Init => BoneInv
  <2> SUFFICES ASSUME Bones!Init PROVE BoneInv
    OBVIOUS
  <2>1. ~forced
    BY Zenon DEF Bones!Init
  <2> QED BY <2>1 DEF Bones!Init, Bones!NoUps, BoneInv, Bones!BoneUpAssumption
<1>2. BoneInv /\ [Bones!Next]_(Bones!vars) => BoneInv'
  <2>1. ASSUME BoneInv, UNCHANGED Bones!vars PROVE BoneInv'
    BY <2>1 DEF BoneInv, Bones!vars, Bones!capVars, Bones!menuVars
  <2> QED BY <2>1, UpdateIsHonest, CapsKeepBones DEF Bones!Next
<1>3. ASSUME BoneInv, Bones!Next PROVE Capped /\ Stays /\ Opens
  <2>1. CASE Bones!Update
    <3>1. ASSUME Buys(cursor), cursor \in Stat
          PROVE  Capped /\ level'[cursor] > level[cursor]
      <4>1. level[cursor] \in Nat /\ boneCounts[cursor] \in Int /\ boneHave[cursor] \in Nat
            /\ level'[cursor] = level[cursor] + 1 /\ (~forced => boneCounts = boneHave)
        BY <1>3, <3>1 DEF Buys, BoneInv
      <4>2. \A s \in Stat : s # cursor => level'[s] = level[s]
        BY <1>3, <3>1 DEF Buys, BoneInv
      <4> QED BY <3>1, <4>1, <4>2 DEF Buys, Bones!BoneUpAssumption
    <3>2. ASSUME level' = level PROVE Capped
      BY <3>2
    <3>3. Buys(cursor) => cursor \in Stat
      BY <1>3, <2>1, UpdateIsHonest DEF Buys
    <3> QED BY <1>3, <2>1, <3>1, <3>2, <3>3, UpdateIsHonest
  <2>2. CASE Bones!Tick \/ Bones!SetStatCaps \/ Bones!OpenMenu
    BY <1>3, <2>2, CapsKeepBones
  <2> QED BY <1>3, <2>1, <2>2 DEF Bones!Next
<1>4. BoneInv /\ [Bones!Next]_(Bones!vars) => [Capped]_(Bones!vars)
  BY <1>3
<1>5. BoneInv /\ [Bones!Next]_(Bones!vars) => [Stays]_(Bones!vars)
  BY <1>3
<1>6. BoneInv /\ [Bones!Next]_(Bones!vars) => [Opens]_(Bones!vars)
  BY <1>3
<1>7. BoneInv /\ [Bones!Next]_(Bones!vars) => [Shows]_(Bones!vars)
  BY TextIsInForce
<1>8. BoneInv => (boneMenu # "commit" => combat = level["defense"])
  BY DEF BoneInv
<1> HIDE DEF Capped, Stays, Opens, Shows
<1>9. Bones!Spec => []BoneInv
  BY <1>1, <1>2, PTL DEF Bones!Spec
<1>10. Bones!Spec => /\ [][Capped]_(Bones!vars) /\ [][Stays]_(Bones!vars)
                     /\ [][Opens]_(Bones!vars) /\ [][Shows]_(Bones!vars)
                     /\ [](boneMenu # "commit" => combat = level["defense"])
  BY <1>4, <1>5, <1>6, <1>7, <1>8, <1>9, PTL DEF Bones!Spec
<1> QED BY <1>10 DEF Capped, Stays, Opens, Shows, Bones!BoneUpHonest

-----------------------------------------------------------------------------
(***************************************************************************)
(* RoomGates.                                                              *)
(***************************************************************************)
\* The drains a vendor has been live through are those the cooldown has counted; and
\* where he stood before the player came, nothing has been charged yet.
RoomInv ==
    /\ roomCooldown \in Nat /\ liveFor \in Nat /\ liveFor + roomCooldown <= WalkInterval
    /\ ~roomPlayer => roomCooldown = 0 /\ liveFor = 0
    /\ awaited => /\ liveFor = 0 /\ roomLockout /\ roomPlayer
                  /\ vendor = "live" => roomCooldown = 0

\* A vendor is shut by the first drain that finds him and the player, or within the
\* interval if he is built anew (sewer_cat_gate); the switches' half of WalksFind is
\* liveness.
THEOREM VendorIsShut == Rooms!RoomGatesAssumption => (Rooms!Spec => []Rooms!VendorShut)
<1> SUFFICES ASSUME Rooms!RoomGatesAssumption
             PROVE  Rooms!Spec => []Rooms!VendorShut
  OBVIOUS
<1>1. Rooms!Init => RoomInv
  <2> SUFFICES ASSUME Rooms!Init PROVE RoomInv
    OBVIOUS
  <2>1. ~awaited
    BY Zenon DEF Rooms!Init
  <2> QED BY <2>1 DEF Rooms!Init, RoomInv, Rooms!RoomGatesAssumption
<1>2. RoomInv /\ [Rooms!Next]_(Rooms!vars) => RoomInv'
  <2> SUFFICES ASSUME RoomInv, [Rooms!Next]_(Rooms!vars)
               PROVE  RoomInv'
    OBVIOUS
  <2> USE DEF RoomInv, Rooms!RoomGatesAssumption
  <2>1. CASE UNCHANGED Rooms!vars
    BY <2>1 DEF Rooms!vars
  <2>2. CASE Rooms!SessionStep
    <3>1. UNCHANGED <<roomPlayer, vendor, roomCooldown, awaited,
                      liveFor>> /\ (roomLockout => roomLockout')
      BY <2>2 DEF Rooms!SessionStep
    <3> QED BY <3>1
  <2>3. CASE Rooms!NextRoom
    <3>1. ~roomPlayer' /\ roomCooldown' = 0 /\ ~awaited' /\ liveFor' = 0
      BY <2>3 DEF Rooms!NextRoom
    <3> QED BY <3>1
  <2>4. CASE Rooms!PlayerComes
    <3>1. /\ ~roomPlayer /\ roomPlayer' = TRUE /\ awaited' = (roomLockout /\ vendor = "live")
          /\ UNCHANGED <<roomLockout, vendor, roomCooldown, liveFor>>
      BY <2>4 DEF Rooms!PlayerComes
    <3> QED BY <3>1
  <2>5. CASE Rooms!SwitchesChange \/ Rooms!PlayerHits \/ Rooms!TickSwitches
    <3>1. UNCHANGED <<roomLockout, roomPlayer, vendor, roomCooldown, awaited, liveFor>>
      BY <2>5 DEF Rooms!SwitchesChange, Rooms!PlayerHits, Rooms!TickSwitches
    <3> QED BY <3>1
  <2>6. CASE Rooms!VendorAppears
    <3>1. awaited' = FALSE /\ liveFor' = 0 /\ UNCHANGED <<roomPlayer, roomCooldown>>
      BY <2>6 DEF Rooms!VendorAppears
    <3> QED BY <3>1
  <2>7. CASE Rooms!TickVendor
    <3>1. /\ roomCooldown' = IF ~roomLockout THEN roomCooldown
                             ELSE IF roomCooldown > 0 THEN roomCooldown - 1
                             ELSE IF roomPlayer THEN WalkInterval ELSE 0
          /\ vendor' = IF (roomLockout /\ roomCooldown = 0 /\ roomPlayer) /\ vendor = "live"
                       THEN "off"
                       ELSE vendor
          /\ liveFor' = IF roomLockout /\ roomPlayer /\ vendor' = "live"
                        THEN IF liveFor > WalkInterval THEN liveFor ELSE liveFor + 1
                        ELSE 0
          /\ UNCHANGED <<roomLockout, roomPlayer, awaited>>
      BY <2>7 DEF Rooms!TickVendor, Rooms!ChargedUnwalked
    <3> QED BY <3>1
  <2> QED BY <2>1, <2>2, <2>3, <2>4, <2>5, <2>6, <2>7 DEF Rooms!Next
<1>3. RoomInv => Rooms!VendorShut
  BY DEF RoomInv, Rooms!VendorShut, Rooms!RoomGatesAssumption
<1> QED BY <1>1, <1>2, <1>3, PTL DEF Rooms!Spec

-----------------------------------------------------------------------------
(***************************************************************************)
(* VulkanOverlay.                                                          *)
(***************************************************************************)
\* Resources that are there are those of the game's swapchain, or the hook that sees
\* every later one is missing: whatever makes them comes after it was tried.  And what
\* the last frame wanted of the input it wanted for a window it showed, unless a call has
\* failed since.
LinuxInv ==
    /\ failures \in Nat /\ imgui \in {"off", "on"}
    /\ "create" \in hooks => "create" \in tried
    /\ "present" \in hooks => "present" \in tried
    /\ "present" \in tried => "create" \in tried
    /\ "create" \in tried /\ failures = 0 => "create" \in hooks
    /\ vulkanStep # "idle" => ready /\ swap = vulkanGameSwap /\ imgui = "on"
    /\ ready => "create" \in tried
    /\ ready /\ "create" \in hooks => swap = vulkanGameSwap
    /\ vulkanWant /\ failures = 0 => vulkanShown # {}

\* A call that fails is counted.
LEMMA TriesCounts ==
    ASSUME failures \in Nat, NEW ok \in BOOLEAN, Vulkan!Tries(ok)
    PROVE  failures' \in Nat /\ (~ok => failures' # 0) /\ (failures' = 0 => failures = 0)
BY DEF Vulkan!Tries

\* No frame is recorded with the resources of a swapchain replaced, and only a window on
\* the screen keeps the game's input from it (overlay_linux): the safety of GameGoesOn.
THEOREM FramesMatch ==
    Vulkan!Spec => []Vulkan!FrameMatches /\ [](Vulkan!Swallowed /\ failures = 0 => vulkanShown # {})
<1>1. Vulkan!Init => LinuxInv
  <2> SUFFICES ASSUME Vulkan!Init PROVE LinuxInv
    OBVIOUS
  <2>1. ~ready /\ ~vulkanWant
    BY Zenon DEF Vulkan!Init
  <2> QED BY <2>1 DEF Vulkan!Init, LinuxInv
<1>2. LinuxInv /\ [Vulkan!Next]_(Vulkan!voVars) => LinuxInv'
  <2> SUFFICES ASSUME LinuxInv, [Vulkan!Next]_(Vulkan!voVars)
               PROVE  LinuxInv'
    OBVIOUS
  <2> USE DEF LinuxInv, Vulkan!hookVars, Vulkan!renderVars, Vulkan!inputVars
  <2>1. CASE UNCHANGED Vulkan!voVars
    BY <2>1 DEF Vulkan!voVars
  <2>2. CASE Vulkan!InstallHooks
    <3>1. PICK h \in {"create", "present", "event"}, ok \in BOOLEAN :
            /\ h \notin tried /\ tried' = tried \cup {h} /\ (h = "present" => "create" \in tried)
            /\ Vulkan!Tries(ok) /\ hooks' = IF ok THEN hooks \cup {h} ELSE hooks
            /\ UNCHANGED <<vulkanGameSwap, swap, ready, imgui, vulkanStep, vulkanShown, vulkanWant>>
      BY <2>2 DEF Vulkan!InstallHooks, Vulkan!Install
    <3>2. failures' \in Nat /\ (~ok => failures' # 0) /\ (failures' = 0 => failures = 0)
      BY <3>1, TriesCounts
    <3>3. "create" \in tried' /\ failures' = 0 => "create" \in hooks'
      BY <3>1, <3>2
    <3> QED BY <3>1, <3>2, <3>3
  <2>3. CASE Vulkan!CreateSwapchain
    <3>1. vulkanStep = "idle" /\ UNCHANGED <<tried, hooks, vulkanStep, vulkanShown, vulkanWant>>
      BY <2>3 DEF Vulkan!CreateSwapchain
    <3>2. CASE "create" \in hooks
      <4>1. PICK ok \in BOOLEAN : Vulkan!Rebuild(vulkanGameSwap + 1, ok)
        BY <2>3, <3>2 DEF Vulkan!CreateSwapchain
      <4>2. swap' = vulkanGameSwap' /\ imgui' = "off" /\ Vulkan!Tries(ok)
        BY <2>3, <4>1 DEF Vulkan!CreateSwapchain, Vulkan!Rebuild, Vulkan!Builds,
                          Vulkan!ShutDownImGui
      <4> QED BY <3>1, <3>2, <4>2, TriesCounts
    <3>3. CASE "create" \notin hooks
      <4>1. UNCHANGED <<swap, ready, imgui, failures>>
        BY <2>3, <3>3 DEF Vulkan!CreateSwapchain
      <4> QED BY <3>1, <3>3, <4>1
    <3> QED BY <3>2, <3>3
  <2>4. ASSUME NEW i \in Image, Vulkan!Present(i) PROVE LinuxInv'
    <3>1. /\ vulkanStep = "idle" /\ "create" \in tried
          /\ UNCHANGED <<tried, hooks, vulkanGameSwap>>
      BY <2>4 DEF Vulkan!Present
    <3>2. CASE Vulkan!Incomplete
      <4>1. /\ swap' = vulkanGameSwap /\ imgui' = "off" /\ ready' = FALSE /\ Vulkan!Tries(FALSE)
            /\ UNCHANGED <<vulkanStep, vulkanWant>>
        BY <3>2 DEF Vulkan!Incomplete, Vulkan!Adopts, Vulkan!Rebuild, Vulkan!Builds,
                    Vulkan!ShutDownImGui, Vulkan!Forward
      <4> QED BY <3>1, <4>1, TriesCounts
    <3>3. CASE Vulkan!Begin(i)
      <4>1. PICK ok \in BOOLEAN :
              /\ Vulkan!InitImGui(imgui = "off" \/ ~ready, ok)
              /\ IF ok /\ swap' = vulkanGameSwap
                 THEN vulkanStep' = "frame" /\ UNCHANGED vulkanShown
                 ELSE UNCHANGED vulkanStep
        BY <3>3 DEF Vulkan!Begin, Vulkan!Forward
      <4>2. /\ ready' = TRUE /\ (vulkanWant' => vulkanWant)
            /\ swap' = vulkanGameSwap \/ (ready /\ swap' = swap)
        BY <3>3 DEF Vulkan!Begin
      <4>3. /\ Vulkan!Tries(ok) /\ imgui' \in {"off", "on"}
            /\ ok => imgui' = "on"
        BY <4>1 DEF Vulkan!InitImGui
      <4>4. CASE ok
        BY <3>1, <4>1, <4>2, <4>3, <4>4, TriesCounts
      <4>5. CASE ~ok
        BY <3>1, <4>1, <4>2, <4>3, <4>5, TriesCounts
      <4> QED BY <4>4, <4>5
    <3> QED BY <2>4, <3>2, <3>3 DEF Vulkan!Present
  <2>5. CASE Vulkan!Frame
    BY <2>5 DEF Vulkan!Frame, Vulkan!PublishWant
  <2>6. CASE Vulkan!Wait
    BY <2>6 DEF Vulkan!Wait
  <2>7. CASE Vulkan!Submit
    <3>1. failures' \in {failures, failures + 1, failures + 2}
      BY <2>7 DEF Vulkan!Submit, Vulkan!SignalOnly
    <3>2. vulkanStep' = "idle" /\ UNCHANGED <<tried, hooks, vulkanGameSwap, swap, ready, imgui,
                                              vulkanShown, vulkanWant>>
      BY <2>7 DEF Vulkan!Submit
    <3> QED BY <3>1, <3>2
  <2>8. CASE Vulkan!Gpu
    BY <2>8 DEF Vulkan!Gpu, Vulkan!GpuCompletes
  <2>9. CASE (\E w \in Vulkan!Window : Vulkan!Toggle(w)) \/ Vulkan!Event
    BY <2>9 DEF Vulkan!Toggle, Vulkan!Event
  <2> QED BY <2>1, <2>2, <2>3, <2>4, <2>5, <2>6, <2>7, <2>8, <2>9 DEF Vulkan!Next, Vulkan!Render
<1>3. LinuxInv => Vulkan!FrameMatches /\ (Vulkan!Swallowed /\ failures = 0 => vulkanShown # {})
  BY DEF LinuxInv, Vulkan!FrameMatches, Vulkan!Swallowed
<1> QED BY <1>1, <1>2, <1>3, PTL DEF Vulkan!Spec

-----------------------------------------------------------------------------
(***************************************************************************)
(* D3D12Overlay.                                                           *)
(***************************************************************************)
\* An overlay that is not inert holds every buffer it may draw into, and what the GPU
\* draws into is held until it is done.
WindowsInv ==
    /\ d3dGameSwap \in Nat /\ count \in Nat /\ d3dFrames \in Nat /\ inited \in Nat
    /\ d3dStep \in {"idle", "record"}
    /\ inited # 0 /\ ~failed => targets = 1 .. d3dFrames
    /\ d3dStep = "record" => d3dImage \in targets /\ d3dImage # 0 /\ inited # 0
    /\ gpu # 0 => gpu \in targets /\ inited # 0

\* No frame is recorded into a back buffer that was released, and none is released under
\* the GPU (overlay_windows): the safety of TargetsLive, if ResizeBuffers does not fail.
THEOREM TargetsAreHeld ==
    Direct!D3D12OverlayAssumption /\ ~ResizeFails =>
        (Direct!Spec => []((d3dStep = "record" => d3dImage \in targets)
                             /\ (gpu # 0 => gpu \in targets)))
<1> SUFFICES ASSUME Direct!D3D12OverlayAssumption, ~ResizeFails
             PROVE  Direct!Spec => []((d3dStep = "record" => d3dImage \in targets)
                                        /\ (gpu # 0 => gpu \in targets))
  OBVIOUS
<1>1. Direct!Init => WindowsInv
  BY DEF Direct!Init, WindowsInv
<1>2. WindowsInv /\ [Direct!Next]_(Direct!d3dVars) => WindowsInv'
  <2> SUFFICES ASSUME WindowsInv, [Direct!Next]_(Direct!d3dVars)
               PROVE  WindowsInv'
    OBVIOUS
  <2> USE DEF WindowsInv, Direct!swapVars, Direct!resVars, Direct!D3D12OverlayAssumption
  <2>1. CASE UNCHANGED Direct!d3dVars
    BY <2>1 DEF Direct!d3dVars
  <2>2. CASE Direct!Execute
    BY <2>2 DEF Direct!Execute
  <2>3. CASE Direct!CreateSwapchain
    BY <2>3 DEF Direct!CreateSwapchain
  <2>4. CASE Direct!Present
    <3>1. /\ d3dStep = "idle" /\ d3dGameSwap > 0 /\ ~failed
          /\ IF inited = 0 THEN Direct!InitRender ELSE UNCHANGED <<inited, d3dFrames, failed,
                                                                   targets>>
          /\ UNCHANGED <<d3dGameSwap, count, gpu>>
      BY <2>4 DEF Direct!Present
    <3>2. PICK i \in 1 .. count :
            IF ~failed' /\ inited' = d3dGameSwap /\ i <= d3dFrames'
            THEN d3dStep' = "record" /\ d3dImage' = i ELSE UNCHANGED <<d3dStep, d3dImage>>
      BY <2>4 DEF Direct!Present
    <3>3. /\ d3dFrames' \in Nat /\ inited' \in Nat
          /\ inited' # 0 /\ ~failed' => targets' = 1 .. d3dFrames'
          /\ gpu # 0 => gpu \in targets' /\ inited' # 0
      BY <3>1 DEF Direct!InitRender
    <3> QED BY <3>1, <3>2, <3>3
  <2>5. CASE Direct!Record
    BY <2>5 DEF Direct!Record
  <2>6. CASE Direct!GpuCompletes
    BY <2>6 DEF Direct!GpuCompletes
  <2>7. CASE Direct!Resize
    <3>1. /\ d3dStep = "idle" /\ d3dStep' = "idle" /\ gpu = 0 /\ count' \in Nat
          /\ UNCHANGED <<d3dGameSwap, inited, d3dFrames, gpu, d3dImage>>
      BY <2>7 DEF Direct!Resize, Direct!Release, Direct!WaitForGpu
    <3>2. ASSUME inited # 0, ~failed' PROVE targets' = 1 .. d3dFrames
      <4>1. PICK n \in 0 .. d3dFrames : targets' = 1 .. n /\ failed' = (failed \/ n < d3dFrames)
        BY <2>7, <3>2 DEF Direct!Resize, Direct!Reacquire
      <4>2. ~(n < d3dFrames)
        BY <3>2, <4>1
      <4>3. n = d3dFrames
        BY <4>2
      <4> QED BY <4>1, <4>3
    <3> QED BY <3>1, <3>2
  <2>8. CASE (\E w \in Direct!Window : Direct!Toggle(w)) \/ Direct!Message
    BY <2>8 DEF Direct!Toggle, Direct!Message
  <2> QED BY <2>1, <2>2, <2>3, <2>4, <2>5, <2>6, <2>7, <2>8 DEF Direct!Next, Direct!Render
<1>3. WindowsInv => (d3dStep = "record" => d3dImage \in targets) /\ (gpu # 0 => gpu \in targets)
  BY DEF WindowsInv
<1> QED BY <1>1, <1>2, <1>3, PTL DEF Direct!Spec

-----------------------------------------------------------------------------
(***************************************************************************)
(* Side by side.  In a step of PartsNext one part takes a step of its own  *)
(* and the others stutter.                                                 *)
(***************************************************************************)
\* Takeover.
LEMMA ClaimBehaves == PartsSpec => Claim!Spec
<1>1. PartsInit => Claim!Init
  BY DEF PartsInit
<1>2. [PartsNext]_allVars => [Claim!Next]_(Claim!tkVars)
  BY DEF PartsNext, Only, allVars, claimVars, Claim!tkVars, Claim!claimVars, Claim!gameVars
<1> QED BY <1>1, <1>2, PTL DEF PartsSpec, Claim!Spec

\* DeathLink.
LEMMA DeathBehaves == PartsSpec => Death!Spec
<1>1. PartsInit => Death!Init
  BY DEF PartsInit
<1>2. [PartsNext]_allVars => [Death!Next]_(Death!dlVars)
  BY DEF PartsNext, Only, allVars, deathVars, Death!dlVars, Death!gameVars, Death!modVars
<1> QED BY <1>1, <1>2, PTL DEF PartsSpec, Death!Spec

\* SafetyGate.
LEMMA SafetyBehaves == PartsSpec => Safety!Spec
<1>1. PartsInit => Safety!Init
  BY DEF PartsInit
<1>2. [PartsNext]_allVars => [Safety!Next]_(Safety!sgVars)
  BY DEF PartsNext, Only, allVars, gateVars, Safety!sgVars
<1> QED BY <1>1, <1>2, PTL DEF PartsSpec, Safety!Spec

\* Traps.
LEMMA TrappedBehaves == PartsSpec => Trapped!Spec
<1>1. PartsInit => Trapped!Init
  BY DEF PartsInit
<1>2. [PartsNext]_allVars => [Trapped!Next]_(Trapped!trVars)
  BY DEF PartsNext, Only, allVars, trapVars, Trapped!trVars
<1> QED BY <1>1, <1>2, PTL DEF PartsSpec, Trapped!Spec

\* BoundSave.
LEMMA BoundBehaves == PartsSpec => Bound!Spec
<1>1. PartsInit => Bound!Init
  BY DEF PartsInit
<1>2. [PartsNext]_allVars => [Bound!Next]_(Bound!bsVars)
  BY DEF PartsNext, Only, allVars, boundVars, Bound!bsVars
<1> QED BY <1>1, <1>2, PTL DEF PartsSpec, Bound!Spec

\* KearKeys.
LEMMA KearsBehaves == PartsSpec => Kears!Spec
<1>1. PartsInit => Kears!Init
  BY DEF PartsInit
<1>2. [PartsNext]_allVars => [Kears!Next]_(Kears!kkVars)
  BY DEF PartsNext, Only, allVars, kearVars, Kears!kkVars
<1> QED BY <1>1, <1>2, PTL DEF PartsSpec, Kears!Spec

\* BossTracker.
LEMMA BossesBehaves == PartsSpec => Bosses!Spec
<1>1. PartsInit => Bosses!Init
  BY DEF PartsInit
<1>2. [PartsNext]_allVars => [Bosses!Next]_(Bosses!btVars)
  BY DEF PartsNext, Only, allVars, bossVars, Bosses!btVars
<1> QED BY <1>1, <1>2, PTL DEF PartsSpec, Bosses!Spec

\* Abilities.
LEMMA GatedBehaves == PartsSpec => Gated!Spec
<1>1. PartsInit => Gated!Init
  BY DEF PartsInit
<1>2. [PartsNext]_allVars => [Gated!Next]_(Gated!vars)
  BY DEF PartsNext, Only, allVars, abilityVars, Gated!vars, Gated!gameVars, Gated!gateVars, Gated!ghostVars
<1> QED BY <1>1, <1>2, PTL DEF PartsSpec, Gated!Spec

\* Train.
LEMMA StationBehaves == PartsSpec => Station!Spec
<1>1. PartsInit => Station!Init
  BY DEF PartsInit
<1>2. [PartsNext]_allVars => [Station!Next]_(Station!vars)
  BY DEF PartsNext, Only, allVars, trainVars, Station!vars, Station!sessionVars, Station!hookVars,
         Station!saveVars, Station!roomVars
<1> QED BY <1>1, <1>2, PTL DEF PartsSpec, Station!Spec

\* Locks.
LEMMA KeptBehaves == PartsSpec => Kept!Spec
<1>1. PartsInit => Kept!Init
  BY DEF PartsInit
<1>2. [PartsNext]_allVars => [Kept!Next]_(Kept!vars)
  BY DEF PartsNext, Only, allVars, locksVars, Kept!vars, Kept!saveVars, Kept!roomVars
<1> QED BY <1>1, <1>2, PTL DEF PartsSpec, Kept!Spec

\* Capacity.
LEMMA CapacitiesBehaves == PartsSpec => Capacities!Spec
<1>1. PartsInit => Capacities!Init
  BY DEF PartsInit
<1>2. [PartsNext]_allVars => [Capacities!Next]_(Capacities!vars)
  BY DEF PartsNext, Only, allVars, capVars, Capacities!vars, Capacities!upgrades, Capacities!player
<1> QED BY <1>1, <1>2, PTL DEF PartsSpec, Capacities!Spec

\* BoneUp.
LEMMA BonesBehaves == PartsSpec => Bones!Spec
<1>1. PartsInit => Bones!Init
  BY DEF PartsInit
<1>2. [PartsNext]_allVars => [Bones!Next]_(Bones!vars)
  BY DEF PartsNext, Only, allVars, boneVars, Bones!vars, Bones!capVars, Bones!menuVars
<1> QED BY <1>1, <1>2, PTL DEF PartsSpec, Bones!Spec

-----------------------------------------------------------------------------
(***************************************************************************)
(* The properties of the runs, for every value of the constants.           *)
(***************************************************************************)
\* However the player's input, the network, the console and the claim interleave, only
\* a whole budget spent lets a file of the player's own into gameplay.
COROLLARY FilesByBudgetOnly == PartsSpec => []NoFileByAccident
<1>1. Claim!Spec => []Claim!NoFileByAccident
  BY PartsAssumption, Claim!PlayersFileNeedsBudget DEF PartsAssumption
<1> QED BY <1>1, ClaimBehaves, PTL DEF NoFileByAccident

\* If the input budget outlives the two steps of a claim, what is committed for a session
\* is a run of its own, with the vanilla writes off.
COROLLARY CommitsAreOwn ==
    Claim!BudgetOutlivesClaim => (PartsSpec => CommitsOwnRun)
<1> SUFFICES ASSUME Claim!BudgetOutlivesClaim PROVE PartsSpec => CommitsOwnRun
  OBVIOUS
<1>1. Claim!Spec => Claim!CommitsOwnRun
  BY PartsAssumption, Claim!SessionsCommitTheirOwn DEF PartsAssumption
<1> QED BY <1>1, ClaimBehaves, PTL DEF CommitsOwnRun

\* If the grace outlasts a kill's latency and no spark revives a sparkless death, no death
\* is an echo, whatever health reads in it.
COROLLARY NoDeathIsEchoed ==
    Death!GraceOutlastsLatency /\ ~Revives => (PartsSpec => []NoEcho)
<1> SUFFICES ASSUME Death!GraceOutlastsLatency, ~Revives PROVE PartsSpec => []NoEcho
  OBVIOUS
<1>1. Death!Spec => []Death!NoEcho
  BY PartsAssumption, Death!NoDeathEchoed DEF PartsAssumption
<1> QED BY <1>1, DeathBehaves, PTL DEF NoEcho

\* If besides health does not read above zero between the drop of the sparks and the
\* first tick that sees the guard byte, what is sent is a death of the player's own,
\* begun without sparks.
COROLLARY DeathsAreOwn ==
    Death!GraceOutlastsLatency /\ ~Revives /\ ~EarlyBlips => (PartsSpec => []SendsOwnDeaths)
<1> SUFFICES ASSUME Death!GraceOutlastsLatency, ~Revives, ~EarlyBlips
             PROVE  PartsSpec => []SendsOwnDeaths
  OBVIOUS
<1>1. Death!Spec => []Death!SendsOwnDeaths
  BY PartsAssumption, Death!OnlyOwnDeathsSent DEF PartsAssumption
<1> QED BY <1>1, DeathBehaves, PTL DEF SendsOwnDeaths

\* Under the conditions of NoDeathIsEchoed an exchange of deaths costs one life.
COROLLARY BouncesCostOne ==
    Death!GraceOutlastsLatency /\ ~Revives => (PartsSpec => OneLifePerBounce)
<1> SUFFICES ASSUME Death!GraceOutlastsLatency, ~Revives PROVE PartsSpec => OneLifePerBounce
  OBVIOUS
<1>1. Death!Spec => Death!OneLifePerBounce
  BY PartsAssumption, Death!OneLifeForABounce DEF PartsAssumption
<1> QED BY <1>1, DeathBehaves, PTL DEF OneLifePerBounce

\* A refusal acted on leaves the mod in no multiworld, whichever thread connected when.
COROLLARY RefusalsReachBack == PartsSpec => []RefusalReachesBack
<1>1. Safety!Spec => []Safety!RefusalReachesBack
  BY RefusalHolds
<1> QED BY <1>1, SafetyBehaves, PTL DEF RefusalReachesBack

\* No modifier stays on without an owner: the player, a running trap or a lift retried.
COROLLARY ModifiersOwned == PartsSpec => []NothingStranded
<1>1. Trapped!Spec => []Trapped!NothingStranded
  BY PartsAssumption, Trapped!NoModifierStranded DEF PartsAssumption
<1> QED BY <1>1, TrappedBehaves, PTL DEF NothingStranded

\* If the player's choice does not change while a trap runs, no step of the mod takes away
\* what he chose or what a trap goes on forcing.
COROLLARY LiftsAreOwn ==
    ~MidTrapChoice => (PartsSpec => LiftsOnlyItsOwn)
<1> SUFFICES ASSUME ~MidTrapChoice PROVE PartsSpec => LiftsOnlyItsOwn
  OBVIOUS
<1>1. Trapped!Spec => Trapped!LiftsOnlyItsOwn
  BY PartsAssumption, Trapped!OnlyForcedIsLifted DEF PartsAssumption
<1> QED BY <1>1, TrappedBehaves, PTL DEF LiftsOnlyItsOwn

\* If no connection is lost between a claim and its load, a session's own run is bound from
\* the first tick and its vendors locked from the first drain.
COROLLARY OwnRunsBound ==
    ~Drops => (PartsSpec => []RunsAreBound)
<1> SUFFICES ASSUME ~Drops PROVE PartsSpec => []RunsAreBound
  OBVIOUS
<1>1. Bound!Spec => []Bound!RunsAreBound
  BY PartsAssumption, Bound!RunsStayBound DEF PartsAssumption
<1> QED BY <1>1, BoundBehaves, PTL DEF RunsAreBound

\* If no session is joined under a run that is not its own, the durable writes touch the
\* session's run alone and leave it a weapon.
COROLLARY WritesAreBound ==
    ~MidRun => (PartsSpec => OnlyBoundSave)
<1> SUFFICES ASSUME ~MidRun PROVE PartsSpec => OnlyBoundSave
  OBVIOUS
<1>1. Bound!Spec => Bound!OnlyBoundSave
  BY PartsAssumption, Bound!OnlyBoundIsWritten DEF PartsAssumption
<1> QED BY <1>1, BoundBehaves, PTL DEF OnlyBoundSave

\* If the player does not play on without a session, the usable keys are the received ones
\* and those no location stands for, less the locks opened.
COROLLARY KeysAreBalanced ==
    ~Outage => (PartsSpec => []KeysBalance)
<1> SUFFICES ASSUME ~Outage PROVE PartsSpec => []KeysBalance
  OBVIOUS
<1>1. Kears!Spec => []Kears!KeysBalance
  BY PartsAssumption, KeysAreReceived DEF PartsAssumption
<1> QED BY <1>1, KearsBehaves, PTL DEF KeysBalance

\* A run's world is built with all that the record held and the server dropped collected.
COROLLARY NativeBitsAreHeld == PartsSpec => NativeBitsFollow
<1>1. Kears!Spec => Kears!NativeBitsFollow
  BY PartsAssumption, RecordIsCollected DEF PartsAssumption
<1> QED BY <1>1, KearsBehaves, PTL DEF NativeBitsFollow

\* No boss is reported that was not beaten and none beaten goes unreported.
COROLLARY KillsAreReported == PartsSpec => []KillsReported
<1>1. Bosses!Spec => []Bosses!KillsReported
  BY PartsAssumption, EveryKillReported DEF PartsAssumption
<1> QED BY <1>1, BossesBehaves, PTL DEF KillsReported

\* The shoreline ends what was not granted and nothing else, for every wait and grace.
COROLLARY ShorelinesHold == PartsSpec => []ShorelineHolds
<1>1. Gated!Spec => []Gated!ShorelineHolds
  BY PartsAssumption, ShorelineHeld DEF PartsAssumption
<1> QED BY <1>1, GatedBehaves, PTL DEF ShorelineHolds

\* Nobody rides without the ticket, nor has the pass from a machine that is no check.
COROLLARY TicketsAreAsked == PartsSpec => TravelIsGranted
<1>1. Station!Spec => Station!TravelIsGranted
  BY PartsAssumption, TravelGranted DEF PartsAssumption
<1> QED BY <1>1, StationBehaves, PTL DEF TravelIsGranted

\* What the items removed is open, in the room and for no other session.
COROLLARY LocksAreOpen == PartsSpec => []LocksFollow
<1>1. Kept!Spec => []Kept!LocksFollow
  BY PartsAssumption, RemovedLocksFollow DEF PartsAssumption
<1> QED BY <1>1, KeptBehaves, PTL DEF LocksFollow

\* If no connection is lost between Start Game and the load, a run that has been ticked has
\* the upgrades of its session and no others.
COROLLARY UpgradesAreHeld ==
    ~Drops => (PartsSpec => CapacityFollows)
<1> SUFFICES ASSUME ~Drops PROVE PartsSpec => CapacityFollows
  OBVIOUS
<1>1. Capacities!Spec => Capacities!CapacityFollows
  BY PartsAssumption, UpgradesFollow DEF PartsAssumption
<1> QED BY <1>1, CapacitiesBehaves, PTL DEF CapacityFollows

\* No stat is bought past its cap, and the faked level stays at the gate.
COROLLARY CapsAreKept == PartsSpec => BoneUpHonest
<1>1. Bones!Spec => Bones!BoneUpHonest
  BY PartsAssumption, CapsAreHonest DEF PartsAssumption
<1> QED BY <1>1, BonesBehaves, PTL DEF BoneUpHonest
=============================================================================
