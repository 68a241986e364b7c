---------------------------- MODULE Traps_proofs ----------------------------
(***************************************************************************)
(* Proofs about Traps, for any modifiers and durations: no modifier stays  *)
(* on without a reason, and the mod takes away only what it forced itself. *)
(***************************************************************************)
EXTENDS Traps, TLAPS

TypeOK ==
    /\ turn \in {"game", "tick", "arm"}
    /\ save \subseteq Modifier /\ runtime \subseteq Modifier
    /\ remaining \in [Modifier -> Nat]
    /\ pendingOff \subseteq Modifier /\ pendingArm \subseteq Modifier

\* A modifier whose lift is owed is not being forced again.
LiftsAreOver == pendingOff \cap Running(remaining) = {}

\* What a trap forces the player has not chosen.
ForcedIsNotChosen == ~MidTrapChoice => save \cap Running(remaining) = {}

Inv == TypeOK /\ NothingStranded /\ LiftsAreOver /\ ForcedIsNotChosen

-----------------------------------------------------------------------------
(***************************************************************************)
(* The operators of TrapHooks, on what s stands for.                       *)
(***************************************************************************)
State == [mask : SUBSET Modifier, left : [Modifier -> Nat], off : SUBSET Modifier]

\* Every modifier that is on has its reason, and no lift is owed of a running one.
Sound(s) ==
    /\ s.mask \subseteq save \cup Running(s.left) \cup s.off
    /\ s.off \cap Running(s.left) = {}
    /\ ~MidTrapChoice => save \cap Running(s.left) = {}

\* The step from s to t takes away neither the player's choice nor what is forced.
Spares(s, t) == s.mask \cap (save \cup Running(t.left)) \subseteq t.mask

LEMMA HereIsSound == Inv => Here \in State /\ Sound(Here)
  BY DEF Inv, TypeOK, NothingStranded, LiftsAreOver, ForcedIsNotChosen, Here, State, Sound

\* What is armed runs, and what ran goes on running.
LEMMA ExtendRuns ==
    ASSUME TrapsAssumption, NEW left \in [Modifier -> Nat], NEW on \in SUBSET Modifier
    PROVE  /\ Extend(left, on) \in [Modifier -> Nat]
           /\ Running(Extend(left, on)) = Running(left) \cup on
<1>1. Extend(left, on) \in [Modifier -> Nat]
  BY DEF Extend, TrapsAssumption
<1>2. ASSUME NEW m \in Modifier
      PROVE  Extend(left, on)[m] > 0 <=> left[m] > 0 \/ m \in on
  <2>1. left[m] \in Nat
    OBVIOUS
  <2>2. Extend(left, on)[m] = IF m \in on /\ left[m] < Seconds THEN Seconds ELSE left[m]
    BY DEF Extend
  <2> QED BY <2>1, <2>2 DEF TrapsAssumption
<1> QED BY <1>1, <1>2 DEF Running

\* Arming forces only what the player did not choose, and no lift stays owed of it.
LEMMA ArmIsSound ==
    ASSUME TrapsAssumption, NEW s \in State, Sound(s), NEW mods \in SUBSET Modifier
    PROVE  /\ Arm(s, mods) \in State /\ Sound(Arm(s, mods))
           /\ Spares(s, Arm(s, mods)) /\ s.mask \subseteq Arm(s, mods).mask
           /\ Running(s.left) \subseteq Running(Arm(s, mods).left)
<1> DEFINE on == {m \in mods : MayArm(m)}
           t  == Arm(s, mods)
<1>1. t.mask = s.mask \cup on /\ t.off = s.off \ on /\ t.left = Extend(s.left, on)
  BY DEF Arm
<1>2. Extend(s.left, on) \in [Modifier -> Nat]
  BY ExtendRuns DEF State
<1>3. t \in State
  BY <1>2 DEF Arm, State
<1>4. Running(t.left) = Running(s.left) \cup on
  BY <1>1, ExtendRuns DEF State
<1>5. on \cap save = {}
  BY DEF MayArm
<1> HIDE DEF on, t
<1>6. Sound(t)
  <2>1. t.mask \subseteq save \cup Running(t.left) \cup t.off
    BY <1>1, <1>4 DEF Sound
  <2>2. t.off \cap Running(t.left) = {}
    BY <1>1, <1>4 DEF Sound
  <2>3. ~MidTrapChoice => save \cap Running(t.left) = {}
    BY <1>4, <1>5 DEF Sound
  <2> QED BY <2>1, <2>2, <2>3 DEF Sound
<1>7. Spares(s, t) /\ s.mask \subseteq t.mask
  BY <1>1 DEF Spares
<1> QED BY <1>3, <1>4, <1>6, <1>7 DEF t

\* A lift that is retried is of nothing the player chose or a trap forces.
LEMMA RetryIsSound ==
    ASSUME NEW s \in State, Sound(s)
    PROVE  /\ RetryPendingOff(s) \in State /\ Sound(RetryPendingOff(s))
           /\ RetryPendingOff(s).left = s.left
           /\ Spares(s, RetryPendingOff(s))
           /\ Usable => RetryPendingOff(s).off = {}
  BY DEF RetryPendingOff, State, Sound, Spares

\* clear() lifts everything that runs, or owes it.
LEMMA ClearIsSound ==
    ASSUME NEW s \in State, Sound(s)
    PROVE  /\ Clear(s) \in State /\ Sound(Clear(s))
           /\ ~MidTrapChoice => Spares(s, Clear(s))
           /\ Running(Clear(s).left) = {}
           /\ Usable => Clear(s).off = s.off
<1> DEFINE t == Clear(s)
<1>1. /\ t.left = [m \in Modifier |-> 0]
      /\ Usable => t.mask = s.mask \ Running(s.left) /\ t.off = s.off
      /\ ~Usable => t.mask = s.mask /\ t.off = s.off \cup Running(s.left)
      /\ t \in State
  BY DEF Clear, Lift, State, Running
<1>2. Running(t.left) = {}
  BY <1>1 DEF Running
<1> QED BY <1>1, <1>2 DEF Sound, Spares

\* A frame lifts what ran out, or owes it, and lifts nothing else.
LEMMA AdvanceIsSound ==
    ASSUME NEW s \in State, Sound(s)
    PROVE  /\ AdvanceFrame(s) \in State /\ Sound(AdvanceFrame(s))
           /\ ~MidTrapChoice => Spares(s, AdvanceFrame(s))
<1> DEFINE aged == [m \in Modifier |-> IF s.left[m] > 0 THEN s.left[m] - 1 ELSE 0]
           over == Running(s.left) \ Running(aged)
           t    == AdvanceFrame(s)
<1>1. CASE ~advanced
  BY <1>1 DEF AdvanceFrame, Spares
<1>2. CASE advanced
  <2>1. aged \in [Modifier -> Nat] /\ Running(aged) \subseteq Running(s.left)
    BY DEF State, Running
  <2>2. /\ t.left = aged /\ t \in State
        /\ Usable => t.mask = (s.mask \ over) \cup Running(aged) /\ t.off = s.off
        /\ ~Usable => t.mask = s.mask /\ t.off = s.off \cup over
    <3>1. Running(aged) \subseteq Modifier /\ over \subseteq Modifier
      BY DEF Running
    <3>2. CASE Usable
      BY <1>2, <2>1, <3>1, <3>2 DEF AdvanceFrame, Lift, State
    <3>3. CASE ~Usable
      BY <1>2, <2>1, <3>1, <3>3 DEF AdvanceFrame, Lift, State
    <3> QED BY <3>2, <3>3
  <2>3. Running(t.left) = Running(aged) /\ Running(s.left) = over \cup Running(aged)
        /\ over \cap Running(aged) = {}
    BY <2>1, <2>2
  <2> HIDE DEF aged, t, over
  <2>4. Sound(t)
    <3>1. t.mask \subseteq save \cup Running(t.left) \cup t.off
      BY <2>2, <2>3 DEF Sound
    <3>2. t.off \cap Running(t.left) = {}
      BY <2>2, <2>3 DEF Sound
    <3>3. ~MidTrapChoice => save \cap Running(t.left) = {}
      BY <2>3 DEF Sound
    <3> QED BY <3>1, <3>2, <3>3 DEF Sound
  <2>5. ~MidTrapChoice => Spares(s, t)
    BY <2>2, <2>3 DEF Sound, Spares
  <2> QED BY <2>2, <2>4, <2>5 DEF t
<1> QED BY <1>1, <1>2

-----------------------------------------------------------------------------
(***************************************************************************)
(* The steps.                                                              *)
(***************************************************************************)
LEMMA InitInv == Init => Inv
  BY DEF Init, Inv, TypeOK, NothingStranded, LiftsAreOver, ForcedIsNotChosen, Running

\* What tick() makes of Here, and what it spares on the way.
LEMMA TickIsSound ==
    ASSUME TrapsAssumption, Inv, Tick
    PROVE  \E t \in State :
             /\ Becomes(t) /\ Sound(t)
             /\ ~MidTrapChoice => Spares(Here, t)
             /\ ~inGameplay /\ Usable => t.mask \subseteq save
<1> DEFINE a == Arm(Here, pendingArm)
           r == RetryPendingOff(a)
<1>1. Here \in State /\ Sound(Here) /\ pendingArm \in SUBSET Modifier
  BY HereIsSound DEF Inv, TypeOK
<1>2. /\ a \in State /\ Sound(a) /\ Here.mask \subseteq a.mask
  BY <1>1, ArmIsSound
<1>3. r \in State /\ Sound(r) /\ r.left = a.left /\ Spares(a, r)
      /\ (Usable => r.off = {})
  BY <1>2, RetryIsSound
<1> HIDE DEF a, r
<1>4. CASE inGameplay
  <2> DEFINE t == AdvanceFrame(r)
  <2>1. Becomes(t)
    BY <1>4 DEF Tick, a, r
  <2>2. t \in State /\ Sound(t) /\ (~MidTrapChoice => Spares(r, t))
    BY <1>3, AdvanceIsSound
  <2>3. Running(t.left) \subseteq Running(r.left)
    BY <1>3 DEF AdvanceFrame, Lift, Running, State
  <2> HIDE DEF t
  <2>4. ~MidTrapChoice => Spares(Here, t)
    BY <1>2, <1>3, <2>2, <2>3 DEF Spares
  <2> QED BY <1>4, <2>1, <2>2, <2>4
<1>5. CASE ~inGameplay
  <2> DEFINE t == Clear(r)
  <2>1. Becomes(t)
    BY <1>5 DEF Tick, a, r
  <2>2. /\ t \in State /\ Sound(t) /\ (~MidTrapChoice => Spares(r, t))
        /\ Running(t.left) = {} /\ (Usable => t.off = {})
    BY <1>3, ClearIsSound
  <2> HIDE DEF t
  <2>3. ~MidTrapChoice => Spares(Here, t)
    BY <1>2, <1>3, <2>2 DEF Spares
  <2>4. Usable => t.mask \subseteq save
    BY <2>2 DEF Sound
  <2> QED BY <2>1, <2>2, <2>3, <2>4
<1> QED BY <1>4, <1>5

LEMMA GrantIsSound ==
    ASSUME TrapsAssumption, Inv, Grant
    PROVE  \E t \in State : Becomes(t) /\ Sound(t) /\ Spares(Here, t)
<1>1. PICK mods \in SUBSET Modifier : Becomes(Arm(Here, mods))
  BY DEF Grant
<1>2. Arm(Here, mods) \in State /\ Sound(Arm(Here, mods)) /\ Spares(Here, Arm(Here, mods))
  BY HereIsSound, ArmIsSound
<1> QED BY <1>1, <1>2

LEMMA SessionIsSound ==
    ASSUME Inv, SessionChanges
    PROVE  \E t \in State :
             Becomes(t) /\ Sound(t) /\ (~MidTrapChoice => Spares(Here, t))
<1>1. Becomes(Clear(Here))
  BY DEF SessionChanges
<1>2. /\ Clear(Here) \in State /\ Sound(Clear(Here))
      /\ ~MidTrapChoice => Spares(Here, Clear(Here))
  BY HereIsSound, ClearIsSound
<1> QED BY <1>1, <1>2

\* What became of a sound state keeps the invariant, if the save did not change.
LEMMA BecomesInv ==
    ASSUME Inv, NEW t \in State, Becomes(t), Sound(t), UNCHANGED <<save, inGameplay, manager>>,
           turn' \in {"game", "tick", "arm"}, pendingArm' \subseteq Modifier,
           turn' = "arm" /\ ~inGameplay /\ Usable => t.mask \subseteq save
    PROVE  Inv'
<1>1. runtime' = t.mask /\ remaining' = t.left /\ pendingOff' = t.off
  BY DEF Becomes
<1> QED BY <1>1 DEF Inv, TypeOK, NothingStranded, LiftsAreOver, ForcedIsNotChosen, Sound, State,
                    Usable

\* The game's own steps: the mask is rebuilt from the save, or left alone.
LEMMA GameInv ==
    ASSUME Inv, GameStep
    PROVE  Inv'
<1>1. /\ turn' = "tick" /\ UNCHANGED <<remaining, pendingOff, pendingArm>>
  BY DEF GameStep
<1>2. CASE UNCHANGED <<save, runtime>>
  BY <1>1, <1>2 DEF Inv, TypeOK, NothingStranded, LiftsAreOver, ForcedIsNotChosen
<1>3. CASE Rebuild
  BY <1>1, <1>3 DEF Rebuild, Inv, TypeOK, NothingStranded, LiftsAreOver, ForcedIsNotChosen
<1>4. ASSUME NEW m \in Modifier, Choose(m) PROVE Inv'
  <2>1. save' \subseteq Modifier /\ runtime' = save'
    BY <1>4 DEF Choose, Inv, TypeOK
  <2>2. ~MidTrapChoice => save' \cap Running(remaining) = {}
    BY <1>4 DEF Choose, Inv, ForcedIsNotChosen
  <2> QED BY <1>1, <2>1, <2>2 DEF Inv, TypeOK, NothingStranded, LiftsAreOver, ForcedIsNotChosen
<1> QED BY <1>2, <1>3, <1>4 DEF GameStep, Moves

LEMMA QueueInv ==
    ASSUME Inv, NEW m \in Modifier, QueueArm(m)
    PROVE  Inv'
  BY DEF QueueArm, Inv, TypeOK, NothingStranded, LiftsAreOver, ForcedIsNotChosen, Usable

LEMMA InvNext ==
    ASSUME TrapsAssumption
    PROVE  Inv /\ [Next]_trVars => Inv'
<1> SUFFICES ASSUME Inv, [Next]_trVars PROVE Inv'
  OBVIOUS
<1>1. CASE GameStep
  BY <1>1, GameInv
<1>2. CASE Tick
  BY <1>2, TickIsSound, BecomesInv DEF Tick
<1>3. CASE Grant
  BY <1>3, GrantIsSound, BecomesInv DEF Grant, Inv, TypeOK
<1>4. CASE SessionChanges
  BY <1>4, SessionIsSound, BecomesInv DEF SessionChanges, Inv, TypeOK
<1>5. CASE \E m \in Modifier : QueueArm(m)
  BY <1>5, QueueInv
<1>6. CASE UNCHANGED trVars
  BY <1>6 DEF trVars, Inv, TypeOK, NothingStranded, LiftsAreOver, ForcedIsNotChosen, Usable
<1> QED BY <1>1, <1>2, <1>3, <1>4, <1>5, <1>6 DEF Next, Frame

LEMMA InvAlways == TrapsAssumption => (Spec => []Inv)
<1> SUFFICES ASSUME TrapsAssumption PROVE Spec => []Inv
  OBVIOUS
<1>1. Inv /\ [Next]_trVars => Inv'
  BY InvNext
<1> QED BY <1>1, InitInv, PTL DEF Spec

-----------------------------------------------------------------------------
(***************************************************************************)
(* The theorems.                                                           *)
(***************************************************************************)
\* However often the game rebuilds its mask and refuses a write, and whenever
\* traps are armed, queued or cleared by a new session, every modifier that is on
\* is the player's, a running trap's or owed its lift, and out of gameplay a
\* tick that can write leaves the player's alone.
THEOREM NoModifierStranded == TrapsAssumption => (Spec => []NothingStranded)
<1> SUFFICES ASSUME TrapsAssumption PROVE Spec => []NothingStranded
  OBVIOUS
<1>1. Inv => NothingStranded
  BY DEF Inv
<1> QED BY <1>1, InvAlways, PTL

\* Outside the game's own turn.
LEMMA LiftsStep ==
    ASSUME TrapsAssumption, ~MidTrapChoice, Inv, [Next]_trVars, turn # "game"
    PROVE  runtime \cap (save \cup Running(remaining')) \subseteq runtime'
<1>1. ASSUME NEW t \in State, Becomes(t), Spares(Here, t)
      PROVE  runtime \cap (save \cup Running(remaining')) \subseteq runtime'
  BY <1>1 DEF Becomes, Spares, Here
<1>2. CASE Tick
  BY <1>1, <1>2, TickIsSound
<1>3. CASE Grant
  BY <1>1, <1>3, GrantIsSound
<1>4. CASE SessionChanges
  BY <1>1, <1>4, SessionIsSound
<1>5. CASE runtime' = runtime
  BY <1>5
<1> QED BY <1>2, <1>3, <1>4, <1>5 DEF Next, Frame, GameStep, QueueArm, trVars

\* If the player cannot choose a modifier while a trap forces it, no step of the
\* mod takes away what the player chose or what a trap goes on forcing: neither
\* an expiry, nor a refused lift retried later, nor a new session.
THEOREM OnlyForcedIsLifted ==
    TrapsAssumption /\ ~MidTrapChoice => (Spec => LiftsOnlyItsOwn)
<1> SUFFICES ASSUME TrapsAssumption, ~MidTrapChoice PROVE Spec => LiftsOnlyItsOwn
  OBVIOUS
<1>1. Inv /\ [Next]_trVars =>
        [turn # "game" => runtime \cap (save \cup Running(remaining')) \subseteq runtime']_trVars
  BY LiftsStep
<1> QED BY <1>1, InvAlways, PTL DEF Spec, LiftsOnlyItsOwn
=============================================================================
