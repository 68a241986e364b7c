-------------------------- MODULE BoundSave_proofs --------------------------
(***************************************************************************)
(* Proofs about the bound save: that a session's own run is enforced, and  *)
(* that what is enforced is the session's own run.                         *)
(***************************************************************************)
EXTENDS BoundSave, TLAPS

Formed(r) == r = [of |-> r.of, weapons |-> r.weapons, baseline |-> r.baseline]

-----------------------------------------------------------------------------
(***************************************************************************)
(* The invariants.                                                         *)
(***************************************************************************)
\* Whose the working slot is; a container holds its own session's run.
RunPlaced ==
    /\ turn \in {"game", "drain", "tick"}
    /\ Formed(run) /\ run.of \in Session \cup {None, Vanilla}
    /\ run.of = None => run = NoRun
    /\ chest \in {"ahead", "starter", "change", "none"}
    /\ chest # "none" => run.of \in Session
    /\ claim \in Session \cup {None} /\ (claim # None => run.of = None)
    /\ authed => session \in Session
    /\ attached => session \in Session
    /\ disk = [s \in Session |-> [run |-> disk[s].run, known |-> disk[s].known]]
    /\ \A s \in Session : Formed(disk[s].run) /\ disk[s].run.of = s

\* What a frame's tick has settled before the game goes on.
Ticked ==
    /\ turn # "tick" => live = authed /\ (authed => attached)
    /\ turn = "game" /\ authed /\ captured => attached /\ slotKnown

\* A session's run was loaded under its session, if a claim is never without one.
LoadedBound ==
    ~Drops =>
        /\ claim # None => authed
        /\ run.of \in Session => run.baseline /\ captured
        /\ run.of \in Session => IF turn = "drain" THEN lockout \/ authed ELSE lockout

\* The save that is live in a session is its own, or a file of the player's that
\* the session has no slot to compare with.
OwnRunLive ==
    ~MidRun =>
        /\ run.of = Vanilla => run = OwnFile
        /\ authed => claim \in {None, session}
        /\ authed => \/ run.of \in {None, session}
                     \/ /\ run.of = Vanilla /\ ~captured
                        /\ attached \/ ~disk[session].known

\* The intro's chest is demoted for a run that has a weapon.
Armed ==
    /\ chest = "change" => run.weapons # {}
    /\ turn = "game" /\ chestArmed /\ chest # "none" => run.weapons # {}
    /\ turn = "drain" /\ chestArmed /\ chest = "starter" => run.weapons # {}

BoundInv == RunPlaced /\ Ticked /\ LoadedBound /\ OwnRunLive /\ Armed

\* A run with another field is one still.
LEMMA BaselineUpdated ==
    ASSUME NEW r, Formed(r), NEW b
    PROVE  LET q == [r EXCEPT !.baseline = b]
           IN  Formed(q) /\ q.of = r.of /\ q.weapons = r.weapons /\ q.baseline = b
BY DEF Formed

LEMMA WeaponsUpdated ==
    ASSUME NEW r, Formed(r), NEW w
    PROVE  LET q == [r EXCEPT !.weapons = w]
           IN  Formed(q) /\ q.of = r.of /\ q.weapons = w /\ q.baseline = r.baseline
BY DEF Formed

\* It holds at the start.
LEMMA BoundInvInit == BoundSaveAssumption /\ Init => BoundInv
<1> SUFFICES ASSUME BoundSaveAssumption, Init
             PROVE  BoundInv
  OBVIOUS
<1> USE DEF BoundSaveAssumption
<1>1. /\ turn = "game" /\ ~authed /\ session = None /\ ~attached /\ ~captured /\ live = authed
      /\ claim = None /\ chest = "none" /\ run \in {NoRun, OwnFile}
      /\ disk = [s \in Session |-> [run |-> NewRun(s), known |-> FALSE]]
  BY DEF Init
<1>2. Formed(run) /\ run.of \in {None, Vanilla} /\ (run.of = None => run = NoRun)
      /\ (run.of = Vanilla => run = OwnFile)
  BY <1>1 DEF Formed, NoRun, OwnFile
<1>3. \A s \in Session : Formed(disk[s].run) /\ disk[s].run.of = s
  BY <1>1 DEF Formed, NewRun
<1>4. RunPlaced
  BY <1>1, <1>2, <1>3 DEF RunPlaced
<1>5. Ticked /\ LoadedBound /\ OwnRunLive /\ Armed
  BY <1>1, <1>2 DEF Ticked, LoadedBound, OwnRunLive, Armed
<1> QED BY <1>4, <1>5 DEF BoundInv

\* What a step of the game does to the run.
LEMMA BoundInvGame ==
    ASSUME BoundSaveAssumption, BoundInv, GameStep
    PROVE  BoundInv'
<1> USE DEF BoundSaveAssumption, BoundInv
<1>1. /\ turn = "game" /\ turn' = "drain"
      /\ authed' = authed /\ session' = session /\ received' = received
      /\ attached' = attached /\ slotKnown' = slotKnown /\ live' = live
      /\ chestArmed' = chestArmed
  BY DEF GameStep, netVars
<1>2. CASE UNCHANGED <<captured, claim, run, chest, lockout, disk>>
  <2>1. RunPlaced' /\ Ticked' /\ LoadedBound'
    BY <1>1, <1>2 DEF RunPlaced, Ticked, LoadedBound
  <2>2. OwnRunLive' /\ Armed'
    BY <1>1, <1>2 DEF OwnRunLive, Armed
  <2> QED BY <2>1, <2>2
<1>3. CASE StartGame
  <2>1. RunPlaced' /\ Ticked' /\ LoadedBound'
    BY <1>1, <1>3 DEF StartGame, RunPlaced, Ticked, LoadedBound, NoRun
  <2>2. OwnRunLive' /\ Armed'
    BY <1>1, <1>3 DEF StartGame, OwnRunLive, Armed
  <2> QED BY <2>1, <2>2
<1>4. CASE GameLoads
  <2> DEFINE r == disk[claim].run
  <2>1. /\ claim \in Session /\ claim' = None /\ lockout' = FALSE /\ disk' = disk
        /\ run' = [r EXCEPT !.baseline = r.baseline \/ live]
        /\ captured' = (captured \/ live) /\ chest' \in {"ahead", "none"}
    BY <1>4 DEF GameLoads, Seed, RunPlaced
  <2>2. Formed(r) /\ r.of = claim
    BY <2>1 DEF RunPlaced
  <2> HIDE DEF r
  <2>3. Formed(run') /\ run'.of = claim /\ run'.baseline = (r.baseline \/ live)
    <3> DEFINE b == r.baseline \/ live
    <3>1. run' = [r EXCEPT !.baseline = b]
      BY <2>1
    <3> HIDE DEF b
    <3>2. LET q == [r EXCEPT !.baseline = b] IN Formed(q) /\ q.of = r.of /\ q.baseline = b
      BY <2>2, BaselineUpdated
    <3>3. Formed(run') /\ run'.of = r.of /\ run'.baseline = b
      BY <3>1, <3>2
    <3> QED BY <2>2, <3>3 DEF b
  <2>4. RunPlaced' /\ Ticked'
    BY <1>1, <2>1, <2>3 DEF RunPlaced, Ticked
  <2>5. LoadedBound'
    <3> SUFFICES ASSUME ~Drops
                 PROVE  /\ claim' # None => authed'
                        /\ run'.of \in Session => run'.baseline /\ captured'
                        /\ run'.of \in Session =>
                              IF turn' = "drain" THEN lockout' \/ authed' ELSE lockout'
      BY DEF LoadedBound
    <3>1. authed
      BY <2>1 DEF LoadedBound
    <3>2. live
      BY <1>1, <3>1 DEF Ticked
    <3> QED BY <1>1, <2>1, <2>3, <3>1, <3>2
  <2>6. OwnRunLive'
    BY <1>1, <2>1, <2>3 DEF OwnRunLive
  <2>7. Armed'
    BY <1>1, <2>1 DEF Armed
  <2> QED BY <2>4, <2>5, <2>6, <2>7
<1>5. CASE LaunchFails
  <2>1. RunPlaced' /\ Ticked' /\ LoadedBound'
    BY <1>1, <1>5 DEF LaunchFails, RunPlaced, Ticked, LoadedBound
  <2>2. OwnRunLive' /\ Armed'
    BY <1>1, <1>5 DEF LaunchFails, OwnRunLive, Armed
  <2> QED BY <2>1, <2>2
<1>6. CASE QuitToTitle
  <2>1. /\ run' = NoRun /\ chest' = "none" /\ captured' = captured /\ claim' = claim
        /\ lockout' = lockout /\ disk' = disk
    BY <1>6 DEF QuitToTitle
  <2>2. Formed(run') /\ run'.of = None
    BY <2>1 DEF Formed, NoRun
  <2>3. RunPlaced' /\ Ticked' /\ LoadedBound'
    BY <1>1, <2>1, <2>2 DEF RunPlaced, Ticked, LoadedBound
  <2>4. OwnRunLive' /\ Armed'
    BY <1>1, <2>1, <2>2 DEF OwnRunLive, Armed
  <2> QED BY <2>3, <2>4
<1>7. CASE ReachChest
  <2>1. RunPlaced' /\ Ticked' /\ LoadedBound'
    BY <1>1, <1>7 DEF ReachChest, RunPlaced, Ticked, LoadedBound
  <2>2. OwnRunLive' /\ Armed'
    BY <1>1, <1>7 DEF ReachChest, OwnRunLive, Armed
  <2> QED BY <2>1, <2>2
<1>8. CASE OpenChest
  <2>1. /\ run.of \in Session /\ chest' = "none" /\ captured' = captured /\ claim' = claim
        /\ lockout' = lockout /\ disk' = disk
    BY <1>8 DEF OpenChest, RunPlaced
  <2>2. Formed(run') /\ run'.of = run.of /\ run'.baseline = run.baseline
    BY <1>8, WeaponsUpdated DEF OpenChest, RunPlaced
  <2>3. RunPlaced' /\ Ticked' /\ LoadedBound'
    BY <1>1, <2>1, <2>2 DEF RunPlaced, Ticked, LoadedBound
  <2>4. OwnRunLive' /\ Armed'
    BY <1>1, <2>1, <2>2 DEF OwnRunLive, Armed
  <2> QED BY <2>3, <2>4
<1>9. CASE GameSaves
  <2>1. /\ run.of = session /\ session \in Session
        /\ disk' = [disk EXCEPT ![session] = [run |-> run, known |-> slotKnown]]
        /\ captured' = captured /\ claim' = claim /\ run' = run /\ chest' = chest
        /\ lockout' = lockout
    BY <1>9 DEF GameSaves, RunPlaced
  <2>2. RunPlaced' /\ Ticked'
    BY <1>1, <2>1 DEF RunPlaced, Ticked
  <2>3. LoadedBound' /\ Armed'
    BY <1>1, <2>1 DEF LoadedBound, Armed
  <2>4. OwnRunLive'
    BY <1>1, <2>1 DEF OwnRunLive
  <2> QED BY <2>2, <2>3, <2>4
<1> QED BY <1>2, <1>3, <1>4, <1>5, <1>6, <1>7, <1>8, <1>9 DEF GameStep

\* drain: the vendors are locked, and the chest is demoted.
LEMMA BoundInvDrain ==
    ASSUME BoundSaveAssumption, BoundInv, Drain
    PROVE  BoundInv'
<1> USE DEF BoundInv
<1>1. /\ turn = "drain" /\ turn' = "tick" /\ lockout' = (lockout \/ authed)
      /\ chest' = IF chest = "starter" /\ chestArmed THEN "change" ELSE chest
      /\ authed' = authed /\ session' = session /\ received' = received
      /\ attached' = attached /\ slotKnown' = slotKnown /\ captured' = captured /\ live' = live
      /\ claim' = claim /\ run' = run /\ chestArmed' = chestArmed /\ disk' = disk
  BY DEF Drain, DemoteChest, netVars
<1>2. RunPlaced' /\ Ticked' /\ LoadedBound'
  BY <1>1 DEF RunPlaced, Ticked, LoadedBound
<1>3. OwnRunLive' /\ Armed'
  BY <1>1 DEF OwnRunLive, Armed
<1> QED BY <1>2, <1>3

\* The clamp: only the weapons change, in a session whose slot is the captured one,
\* and to a tally that has arrived.
LEMMA ClampFacts ==
    ASSUME Formed(run)
    PROVE  /\ Formed(Clamped) /\ Clamped.of = run.of /\ Clamped.baseline = run.baseline
           /\ Clamped.weapons # run.weapons =>
                 authed /\ SlotOk /\ Authorized # {} /\ Clamped.weapons = Authorized
           /\ authed /\ SlotOk /\ Authorized # {} => Clamped.weapons = Authorized
           /\ Clamped # run => authed /\ SlotOk
<1>1. CASE authed /\ SlotOk /\ (Authorized # {} \/ run.weapons = {})
  <2>1. Clamped = [run EXCEPT !.weapons = Authorized]
    BY <1>1 DEF Clamped
  <2>2. /\ Formed(Clamped) /\ Clamped.of = run.of /\ Clamped.weapons = Authorized
        /\ Clamped.baseline = run.baseline
    <3>1. LET q == [run EXCEPT !.weapons = Authorized]
          IN  Formed(q) /\ q.of = run.of /\ q.weapons = Authorized /\ q.baseline = run.baseline
      BY WeaponsUpdated
    <3> QED BY <2>1, <3>1
  <2> QED BY <1>1, <2>2
<1>2. CASE ~(authed /\ SlotOk /\ (Authorized # {} \/ run.weapons = {}))
  <2>1. Clamped = run
    BY <1>2 DEF Clamped
  <2> QED BY <1>2, <2>1
<1> QED BY <1>1, <1>2

LEMMA BoundInvTick ==
    ASSUME BoundSaveAssumption, BoundInv, Tick
    PROVE  BoundInv'
<1> USE DEF BoundSaveAssumption, BoundInv
<1> DEFINE restored == IF attached THEN slotKnown ELSE authed /\ disk[session].known
<1>1. /\ turn = "tick" /\ turn' = "game" /\ live' = authed
      /\ run' = IF run = NoRun THEN run ELSE Clamped
      /\ chestArmed' = (authed /\ SlotOk /\ Authorized # {})
      /\ attached' = (attached \/ authed)
      /\ captured' = (captured \/ (~attached /\ restored))
      /\ slotKnown' = (restored \/ (attached' /\ captured'))
      /\ authed' = authed /\ session' = session /\ received' = received
      /\ claim' = claim /\ chest' = chest /\ lockout' = lockout /\ disk' = disk
  BY DEF Tick, netVars
<1>2. /\ Formed(run') /\ run'.of = run.of /\ run'.baseline = run.baseline
      /\ run' # run => authed /\ SlotOk
  BY <1>1, ClampFacts DEF RunPlaced
<1>3. RunPlaced'
  <2>1. run.of = None => run' = NoRun
    BY <1>1 DEF RunPlaced
  <2> QED BY <1>1, <1>2, <2>1 DEF RunPlaced
<1>4. Ticked'
  BY <1>1 DEF Ticked
<1>5. LoadedBound'
  BY <1>1, <1>2 DEF LoadedBound
<1>6. OwnRunLive'
  <2> SUFFICES ASSUME ~MidRun
               PROVE  OwnRunLive'
    BY DEF OwnRunLive
  <2>1. ASSUME run.of = Vanilla
        PROVE  run' = OwnFile /\ (authed => ~captured' /\ (attached' \/ ~disk'[session'].known))
    <3>1. run = OwnFile
      BY <2>1 DEF OwnRunLive
    <3>2. authed => ~captured /\ (attached \/ ~disk[session].known)
      <4>1. Vanilla \notin {None, session} \/ ~authed
        BY DEF RunPlaced
      <4> QED BY <2>1, <4>1 DEF OwnRunLive
    <3>3. run' = run
      BY <1>2, <3>2 DEF SlotOk
    <3>4. authed => ~captured'
      BY <1>1, <3>2
    <3> QED BY <1>1, <3>1, <3>2, <3>3, <3>4
  <2>2. authed => claim \in {None, session} /\ run.of \in {None, session, Vanilla}
    BY DEF OwnRunLive
  <2> QED BY <1>1, <1>2, <2>1, <2>2 DEF OwnRunLive
<1>7. Armed'
  <2>1. run # NoRun /\ run.weapons # {} => run'.weapons # {}
    BY <1>1, ClampFacts DEF RunPlaced
  <2>2. run # NoRun /\ authed /\ SlotOk /\ Authorized # {} => run'.weapons # {}
    BY <1>1, ClampFacts DEF RunPlaced
  <2>3. chest # "none" => run # NoRun
    BY DEF RunPlaced, NoRun
  <2> QED BY <1>1, <2>1, <2>2, <2>3 DEF Armed
<1> QED BY <1>3, <1>4, <1>5, <1>6, <1>7

\* Every step keeps it.
LEMMA BoundInvNext == BoundSaveAssumption /\ BoundInv /\ [Next]_bsVars => BoundInv'
<1> SUFFICES ASSUME BoundSaveAssumption, BoundInv, [Next]_bsVars
             PROVE  BoundInv'
  OBVIOUS
<1>1. CASE GameStep
  BY <1>1, BoundInvGame
<1>2. CASE Drain
  BY <1>2, BoundInvDrain
<1>3. CASE Tick
  BY <1>3, BoundInvTick
<1> USE DEF BoundSaveAssumption, BoundInv
<1>4. CASE Disconnected
  <2>1. /\ turn = "tick" /\ turn' = turn /\ authed' = FALSE /\ (claim # None => Drops)
        /\ session' = session /\ attached' = attached /\ slotKnown' = slotKnown
        /\ captured' = captured /\ live' = live /\ chestArmed' = chestArmed /\ claim' = claim
        /\ run' = run /\ chest' = chest /\ lockout' = lockout /\ disk' = disk
    BY <1>4 DEF Disconnected, modVars
  <2>2. RunPlaced' /\ Ticked' /\ LoadedBound'
    BY <2>1 DEF RunPlaced, Ticked, LoadedBound
  <2>3. OwnRunLive' /\ Armed'
    BY <2>1 DEF OwnRunLive, Armed
  <2> QED BY <2>2, <2>3
<1>5. ASSUME UNCHANGED <<turn, authed, session, attached, slotKnown, captured, live, claim, run,
                         chest, chestArmed, lockout, disk>>
      PROVE  BoundInv'
  <2>1. RunPlaced' /\ Ticked' /\ LoadedBound'
    BY <1>5 DEF RunPlaced, Ticked, LoadedBound
  <2>2. OwnRunLive' /\ Armed'
    BY <1>5 DEF OwnRunLive, Armed
  <2> QED BY <2>1, <2>2
<1>6. CASE ItemReceived
  BY <1>5, <1>6 DEF ItemReceived, modVars
<1>7. CASE Restart
  <2>1. /\ turn' = "game" /\ ~authed' /\ session' = None /\ ~attached' /\ ~captured'
        /\ live' = authed' /\ claim' = None /\ run' \in {NoRun, OwnFile} /\ chest' = "none"
        /\ disk' = disk
    BY <1>7 DEF Restart
  <2>2. Formed(run') /\ run'.of \in {None, Vanilla} /\ (run'.of = None => run' = NoRun)
        /\ (run'.of = Vanilla => run' = OwnFile)
    BY <2>1 DEF Formed, NoRun, OwnFile
  <2>3. RunPlaced' /\ Ticked'
    BY <2>1, <2>2 DEF RunPlaced, Ticked
  <2>4. LoadedBound' /\ OwnRunLive' /\ Armed'
    BY <2>1, <2>2 DEF LoadedBound, OwnRunLive, Armed
  <2> QED BY <2>3, <2>4
<1>8. ASSUME NEW s \in Session, Authenticate(s)
      PROVE  BoundInv'
  <2>1. /\ turn = "tick" /\ ~authed /\ MayJoin(s) /\ turn' = turn /\ authed' = TRUE
        /\ session' = s /\ captured' = captured /\ live' = live /\ chestArmed' = chestArmed
        /\ claim' = claim /\ run' = run /\ chest' = chest /\ lockout' = lockout /\ disk' = disk
        /\ attached' \in {attached, FALSE}
    BY <1>8 DEF Authenticate
  <2>2. RunPlaced' /\ Ticked' /\ LoadedBound'
    BY <2>1 DEF RunPlaced, Ticked, LoadedBound
  <2>3. Armed'
    BY <2>1 DEF Armed
  <2>4. OwnRunLive'
    BY <2>1 DEF OwnRunLive, RunPlaced, MayJoin
  <2> QED BY <2>2, <2>3, <2>4
<1>9. CASE UNCHANGED bsVars
  BY <1>5, <1>9 DEF bsVars
<1> QED BY <1>1, <1>2, <1>3, <1>4, <1>6, <1>7, <1>8, <1>9 DEF Next

LEMMA BoundInvAlways == BoundSaveAssumption => (Spec => []BoundInv)
<1> SUFFICES ASSUME BoundSaveAssumption
             PROVE  Spec => []BoundInv
  OBVIOUS
<1>1. Init => BoundInv
  BY BoundInvInit
<1>2. BoundInv /\ [Next]_bsVars => BoundInv'
  BY BoundInvNext
<1> QED BY <1>1, <1>2, PTL DEF Spec

-----------------------------------------------------------------------------
(***************************************************************************)
(* The theorems.                                                           *)
(***************************************************************************)
\* If no connection drops between a claim and its load, a session's own run carries
\* its modifiers and is enforced, and its vendors stay locked, also where a session
\* may be joined under the run of another.
THEOREM RunsStayBound == BoundSaveAssumption /\ ~Drops => (Spec => []RunsAreBound)
<1> SUFFICES ASSUME BoundSaveAssumption, ~Drops
             PROVE  Spec => []RunsAreBound
  OBVIOUS
<1>1. BoundInv => RunsAreBound
  <2> SUFFICES ASSUME BoundInv
               PROVE  RunsAreBound
    OBVIOUS
  <2>1. turn = "tick" /\ run.of \in Session => lockout
    BY DEF BoundInv, LoadedBound
  <2>2. turn = "game" /\ authed /\ live /\ run.of = session => run.baseline /\ SlotOk
    BY DEF BoundInv, LoadedBound, RunPlaced, Ticked, SlotOk
  <2> QED BY <2>1, <2>2 DEF RunsAreBound
<1> QED BY <1>1, BoundInvAlways, PTL

\* If no session is joined under a run that is not its own, the durable writes touch
\* the session's run alone and leave it a weapon, also when the connection drops
\* between the claim and the load.
THEOREM OnlyBoundIsWritten == BoundSaveAssumption /\ ~MidRun => (Spec => OnlyBoundSave)
<1> SUFFICES ASSUME BoundSaveAssumption, ~MidRun
             PROVE  Spec => OnlyBoundSave
  OBVIOUS
<1>1. BoundInv => (turn = "game" /\ chest = "change" => run.weapons # {})
  BY DEF BoundInv, Armed
<1>2. BoundInv /\ [Next]_bsVars =>
        [turn = "tick" /\ run'.of = run.of /\ run'.weapons # run.weapons
           => run.of = session /\ run'.weapons # {}]_bsVars
  <2> SUFFICES ASSUME BoundInv, Next, turn = "tick", run'.of = run.of,
                      run'.weapons # run.weapons
               PROVE  run.of = session /\ run'.weapons # {}
    OBVIOUS
  <2>1. Tick
    <3>1. ASSUME Restart
          PROVE  FALSE
      <4>1. \/ run' = NoRun /\ NoRun.of = None
            \/ run' = OwnFile /\ OwnFile.of = Vanilla
        BY <3>1 DEF Restart, NoRun, OwnFile
      <4>2. /\ run.of = None => run = NoRun
            /\ run.of = Vanilla => run = OwnFile
        BY DEF BoundInv, RunPlaced, OwnRunLive
      <4> QED BY <4>1, <4>2
    <3> QED BY <3>1 DEF Next, GameStep, Drain, Disconnected, ItemReceived, Authenticate
  <2>2. run # NoRun /\ run' = Clamped
    BY <2>1 DEF Tick
  <2>3. authed /\ SlotOk /\ run'.weapons # {}
    BY <2>2, ClampFacts DEF BoundInv, RunPlaced
  <2>4. run.of = session
    BY <2>2, <2>3 DEF BoundInv, RunPlaced, OwnRunLive, SlotOk
  <2> QED BY <2>3, <2>4
<1> QED BY <1>1, <1>2, BoundInvAlways, PTL DEF Spec, OnlyBoundSave
=============================================================================
