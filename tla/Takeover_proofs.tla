-------------------------- MODULE Takeover_proofs --------------------------
(***************************************************************************)
(* Proofs about the takeover: which file reaches gameplay, and what is     *)
(* committed for a session.  Both follow from where the menu may be in     *)
(* each step of the claim, and from what the input budget has left there.  *)
(***************************************************************************)
EXTENDS Takeover, TLAPS

Steps == {"Idle", "AwaitingMenu", "Launching", "Running", "Failed"}

-----------------------------------------------------------------------------
(***************************************************************************)
(* The menu and the budget.                                                *)
(***************************************************************************)
\* A claim is of a session, and only an idle takeover has none.
ClaimTyped ==
    /\ turn \in {"game", "tick", "world"} /\ step \in Steps
    /\ connected \in BOOLEAN /\ (connected => session \in Session)
    /\ blocked \in BOOLEAN /\ budget \in Nat /\ frames \in Nat
    /\ step # "Idle" => claim \in Session

\* There is a menu on profile-select alone, and the way to it is through a claim.
MenuPlaced ==
    /\ menu # None => screen = "profile"
    /\ menu \in {None, "animate", "browse", "launch", "back"}
    /\ request \in {None, "launch", "back"}
    /\ screen \in {"title", "opening", "profile", "play"}
    /\ screen \in {"opening", "profile"} => step \in {"AwaitingMenu", "Launching", "Failed"}
    /\ request = "launch" => chosen \in Session

\* On profile-select the input is swallowed until the budget is spent, from the
\* first tick there on.
InputHeld == turn # "tick" /\ screen = "profile" => blocked \/ budget > MaxInputBlockFrames

MenuInv == ClaimTyped /\ MenuPlaced /\ InputHeld /\ NoFileByAccident

\* It holds at the start.
LEMMA MenuInvInit == TakeoverAssumption /\ Init => MenuInv
<1> SUFFICES ASSUME TakeoverAssumption, Init
             PROVE  MenuInv
  OBVIOUS
<1>1. /\ turn = "game" /\ step = "Idle" /\ frames = 0 /\ budget = 0
      /\ screen = "title" /\ menu = None /\ request = None
  BY DEF Init
<1>2. connected = FALSE /\ blocked = FALSE
  BY DEF Init
<1>3. ClaimTyped
  BY <1>1, <1>2 DEF ClaimTyped, Steps
<1>4. MenuPlaced /\ InputHeld /\ NoFileByAccident
  BY <1>1 DEF TakeoverAssumption, MenuPlaced, InputHeld, NoFileByAccident
<1> QED BY <1>3, <1>4 DEF MenuInv

\* A step of the game keeps it: a file is opened only with the input let through.
LEMMA MenuInvGame ==
    ASSUME TakeoverAssumption, MenuInv, GameStep
    PROVE  MenuInv'
<1> USE DEF TakeoverAssumption, MenuInv, ClaimTyped, MenuPlaced, InputHeld, NoFileByAccident
<1>1. turn = "game" /\ turn' = "tick"
  BY DEF GameStep
<1>2. CASE StartGame
  <2>1. CASE Settled(step)
    BY <1>1, <1>2, <2>1 DEF StartGame, Begin, Advance, BlockGameInput, Suppressed, Steps
  <2>2. CASE ~Settled(step)
    BY <1>1, <1>2, <2>2 DEF StartGame, Begin, claimVars, Settled, Steps
  <2> QED BY <2>1, <2>2
<1>3. CASE MenuOpens
  BY <1>1, <1>3 DEF MenuOpens, claimVars
<1>4. CASE PlayerOpensFile
  BY <1>1, <1>4 DEF PlayerOpensFile, claimVars
<1>5. CASE PlayerGoesBack
  BY <1>1, <1>5 DEF PlayerGoesBack, claimVars
<1>6. CASE MenuFollows
  BY <1>1, <1>6 DEF MenuFollows, claimVars
<1>7. CASE MenuLeaves
  BY <1>1, <1>7 DEF MenuLeaves, claimVars
<1>8. CASE QuitToTitle
  BY <1>1, <1>8 DEF QuitToTitle, claimVars
<1>9. CASE GameSaves
  BY <1>1, <1>9 DEF GameSaves, claimVars, gameVars
<1>10. CASE Idles
  BY <1>1, <1>10 DEF Idles, claimVars, gameVars
<1> QED BY <1>2, <1>3, <1>4, <1>5, <1>6, <1>7, <1>8, <1>9, <1>10 DEF GameStep

\* A tick keeps it: on profile-select it swallows the input or finds the budget spent.
LEMMA MenuInvTick ==
    ASSUME TakeoverAssumption, MenuInv, Tick
    PROVE  MenuInv'
<1> USE DEF TakeoverAssumption, MenuInv, ClaimTyped, MenuPlaced
<1>1. /\ turn = "tick" /\ turn' = "world"
      /\ Advance(step, step = "Failed" /\ OnProfileSelect, budget)
      /\ session' = session /\ connected' = connected /\ claim' = claim
      /\ screen' = screen /\ menu' = menu /\ request' = request /\ chosen' = chosen
  BY DEF Tick, gameVars
<1>2. PICK ready \in BOOLEAN : step' = NextStep(ready)
  BY DEF Tick
<1>3. step' \in Steps /\ (step # "Idle" <=> step' # "Idle")
  BY <1>2 DEF NextStep, Settled, Steps
<1>4. screen \in {"opening", "profile"} => step' \in {"AwaitingMenu", "Launching", "Failed"}
  BY <1>2 DEF NextStep, Settled, InGameplay
<1>5. frames' \in Nat
  BY DEF Tick
<1>6. blocked' \in BOOLEAN /\ budget' \in Nat /\ budget' >= budget
  BY <1>1 DEF Advance, BlockGameInput
<1>7. screen = "profile" => blocked' \/ budget' > MaxInputBlockFrames
  BY <1>1 DEF Advance, BlockGameInput, OnProfileSelect
<1>8. ClaimTyped'
  BY <1>1, <1>3, <1>5, <1>6
<1>9. MenuPlaced'
  BY <1>1, <1>4
<1>10. InputHeld'
  BY <1>1, <1>7 DEF InputHeld
<1>11. NoFileByAccident'
  BY <1>1, <1>6 DEF NoFileByAccident
<1> QED BY <1>8, <1>9, <1>10, <1>11

\* The end of a world update keeps it: only the claim's own file is launched.
LEMMA MenuInvWorld ==
    ASSUME TakeoverAssumption, MenuInv, WorldUpdateEnd
    PROVE  MenuInv'
BY DEF TakeoverAssumption, MenuInv, ClaimTyped, MenuPlaced, InputHeld, NoFileByAccident,
       WorldUpdateEnd, LaunchClaim, Request, Steps

\* Every step keeps it.
LEMMA MenuInvNext == TakeoverAssumption /\ MenuInv /\ [Next]_tkVars => MenuInv'
<1> SUFFICES ASSUME TakeoverAssumption, MenuInv, [Next]_tkVars
             PROVE  MenuInv'
  OBVIOUS
<1> USE DEF TakeoverAssumption, MenuInv, ClaimTyped, MenuPlaced, InputHeld, NoFileByAccident
<1>1. CASE Frame
  BY <1>1, MenuInvGame, MenuInvTick, MenuInvWorld DEF Frame
<1>2. CASE Disconnected
  BY <1>2 DEF Disconnected, claimVars, gameVars
<1>3. CASE ConsoleChecks
  BY <1>3 DEF ConsoleChecks, claimVars, gameVars
<1>4. CASE ConsoleEnables
  BY <1>4 DEF ConsoleEnables, claimVars, gameVars
<1>5. ASSUME NEW s \in Session, Authenticate(s)
      PROVE  MenuInv'
  BY <1>5 DEF Authenticate, claimVars, gameVars
<1>6. CASE UNCHANGED tkVars
  BY <1>6 DEF tkVars, claimVars, gameVars
<1> QED BY <1>1, <1>2, <1>3, <1>4, <1>5, <1>6 DEF Next

\* While a takeover is under way or has failed, only the full input budget spent puts
\* a file of the player's own choice in gameplay, whatever the two bounds are.
THEOREM PlayersFileNeedsBudget == TakeoverAssumption => (Spec => []NoFileByAccident)
<1> SUFFICES ASSUME TakeoverAssumption
             PROVE  Spec => []NoFileByAccident
  OBVIOUS
<1>1. Init => MenuInv
  BY MenuInvInit
<1>2. MenuInv /\ [Next]_tkVars => MenuInv'
  BY MenuInvNext
<1>3. MenuInv => NoFileByAccident
  BY DEF MenuInv
<1> QED BY <1>1, <1>2, <1>3, PTL DEF Spec

-----------------------------------------------------------------------------
(***************************************************************************)
(* What is committed.                                                      *)
(***************************************************************************)
\* The input budget outlives the two steps of a claim, as kMaxInputBlockFrames does.
BudgetOutlivesClaim == 2 * MaxFramesPerStep + 3 <= MaxInputBlockFrames

\* A claim that is under way never gets to the end of the budget.
InBudget ==
    step \in {"AwaitingMenu", "Launching"} =>
        /\ blocked /\ frames <= MaxFramesPerStep + 1
        /\ budget <= frames + 1 + (IF step = "Launching" THEN MaxFramesPerStep + 2 ELSE 0)

\* The file a claim launches is its own until the game has started it.
LaunchesClaim ==
    step = "Launching" =>
        /\ chosen = claim /\ request # "back"
        /\ \/ menu = "browse" /\ request = "launch"
           \/ menu = "launch"
           \/ screen = "play" /\ run = claim /\ turn = "tick"

RunsClaim == step = "Running" /\ screen = "play" => run = claim

Stored == saved = [s \in Session |-> saved[s]]

RunInv == MenuInv /\ InBudget /\ LaunchesClaim /\ RunsClaim /\ Stored

\* It holds at the start.
LEMMA RunInvInit == TakeoverAssumption /\ Init => RunInv
<1> SUFFICES ASSUME TakeoverAssumption, Init
             PROVE  RunInv
  OBVIOUS
<1>1. step = "Idle"
  BY DEF Init
<1>2. InBudget /\ LaunchesClaim /\ RunsClaim
  BY <1>1 DEF InBudget, LaunchesClaim, RunsClaim
<1>3. Stored
  BY DEF Init, Stored
<1> QED BY <1>2, <1>3, MenuInvInit DEF RunInv

\* A commit is of the run in play, into the claim's container.
LEMMA FlushStores ==
    ASSUME RunInv, Flush
    PROVE  /\ Stored'
           /\ \A s \in Session : saved'[s] # saved[s] => saved'[s] = s /\ ~writes'
<1>1. CASE MayFlush
  <2>1. writes' = FALSE /\ run = claim
    BY <1>1 DEF Flush, MayFlush, InGameplay, RunInv, RunsClaim
  <2>2. CASE saved' = saved
    BY <2>2 DEF RunInv, Stored
  <2>3. CASE saved' = [saved EXCEPT ![claim] = run]
    BY <2>1, <2>3 DEF RunInv, Stored
  <2> QED BY <1>1, <2>2, <2>3 DEF Flush
<1>2. CASE ~MayFlush
  BY <1>2 DEF Flush, RunInv, Stored
<1> QED BY <1>1, <1>2

\* A step of the game: no other file is chosen while the claim's is being launched.
LEMMA RunInvGame ==
    ASSUME TakeoverAssumption, BudgetOutlivesClaim, RunInv, GameStep
    PROVE  InBudget' /\ LaunchesClaim' /\ RunsClaim' /\ Stored'
<1> USE DEF TakeoverAssumption, BudgetOutlivesClaim, RunInv, MenuInv, ClaimTyped, MenuPlaced,
            InBudget, LaunchesClaim, RunsClaim
<1>1. turn = "game" /\ turn' = "tick"
  BY DEF GameStep
<1>2. CASE StartGame
  <2>1. CASE Settled(step)
    BY <1>1, <1>2, <2>1 DEF StartGame, Begin, Advance, BlockGameInput, Stored
  <2>2. CASE ~Settled(step)
    BY <1>1, <1>2, <2>2 DEF StartGame, Begin, claimVars, Settled, Steps, Stored
  <2> QED BY <2>1, <2>2
<1>3. CASE MenuOpens
  BY <1>1, <1>3 DEF MenuOpens, claimVars, Stored
<1>4. CASE PlayerOpensFile
  BY <1>1, <1>4 DEF PlayerOpensFile, claimVars, Stored
<1>5. CASE PlayerGoesBack
  BY <1>1, <1>5 DEF PlayerGoesBack, claimVars, Stored
<1>6. CASE MenuFollows
  BY <1>1, <1>6 DEF MenuFollows, claimVars, Stored
<1>7. CASE MenuLeaves
  BY <1>1, <1>7 DEF MenuLeaves, claimVars, Stored
<1>8. CASE QuitToTitle
  BY <1>1, <1>8 DEF QuitToTitle, claimVars, Stored
<1>9. CASE GameSaves
  <2>1. Stored'
    BY <1>9, FlushStores DEF GameSaves
  <2>2. UNCHANGED <<claimVars, gameVars>>
    BY <1>9 DEF GameSaves
  <2>3. /\ step' = step /\ frames' = frames /\ claim' = claim /\ blocked' = blocked
        /\ budget' = budget /\ screen' = screen /\ menu' = menu /\ request' = request
        /\ chosen' = chosen /\ run' = run
    BY <2>2 DEF claimVars, gameVars
  <2> QED BY <1>1, <2>1, <2>3
<1>10. CASE Idles
  BY <1>1, <1>10 DEF Idles, claimVars, gameVars, Stored
<1> QED BY <1>2, <1>3, <1>4, <1>5, <1>6, <1>7, <1>8, <1>9, <1>10 DEF GameStep

\* A tick: a claim that goes on was within its budget and is still, and one that runs
\* was launching its own file.
LEMMA RunInvTick ==
    ASSUME TakeoverAssumption, BudgetOutlivesClaim, RunInv, Tick
    PROVE  InBudget' /\ LaunchesClaim' /\ RunsClaim' /\ Stored'
<1> USE DEF TakeoverAssumption, BudgetOutlivesClaim, RunInv, MenuInv, ClaimTyped, MenuPlaced,
            InBudget, LaunchesClaim, RunsClaim
<1>1. /\ turn = "tick" /\ turn' = "world"
      /\ Advance(step, step = "Failed" /\ OnProfileSelect, budget)
      /\ frames' = IF Settled(step) THEN frames
                   ELSE IF step' = step THEN frames + 1 ELSE 0
  BY DEF Tick
<1>2. /\ claim' = claim /\ run' = run /\ saved' = saved
      /\ screen' = screen /\ menu' = menu /\ request' = request /\ chosen' = chosen
  BY DEF Tick, gameVars
<1>3. PICK ready \in BOOLEAN : step' = NextStep(ready)
  BY DEF Tick
<1>4. CASE step' = step /\ step \in {"AwaitingMenu", "Launching"}
  <2>1. frames <= MaxFramesPerStep /\ frames' = frames + 1
    BY <1>1, <1>3, <1>4 DEF NextStep, Settled
  <2>2. blocked' /\ budget' = budget + 1
    BY <1>1, <1>4, <2>1 DEF Advance, BlockGameInput
  <2>3. step = "Launching" => screen # "play"
    BY <1>3, <1>4 DEF NextStep, Settled, InGameplay
  <2> QED BY <1>1, <1>2, <1>4, <2>1, <2>2, <2>3 DEF Stored
<1>5. CASE step' = "Running" /\ step = "Launching"
  <2>1. screen = "play"
    BY <1>3, <1>5 DEF NextStep, Settled, InGameplay
  <2> QED BY <1>1, <1>2, <1>5, <2>1 DEF Stored
<1>6. CASE step' = "Failed"
  BY <1>2, <1>6 DEF Stored
<1>7. CASE step' = step /\ step \notin {"AwaitingMenu", "Launching"}
  BY <1>2, <1>7 DEF Stored
<1> QED BY <1>3, <1>4, <1>5, <1>6, <1>7 DEF NextStep, Settled, Steps

\* The end of a world update: a claim is launched from the menu, within its budget.
LEMMA RunInvWorld ==
    ASSUME TakeoverAssumption, BudgetOutlivesClaim, RunInv, WorldUpdateEnd
    PROVE  InBudget' /\ LaunchesClaim' /\ RunsClaim' /\ Stored'
<1> USE DEF TakeoverAssumption, RunInv, MenuInv, ClaimTyped, MenuPlaced, InBudget,
            LaunchesClaim, RunsClaim
<1>1. /\ turn = "world" /\ claim' = claim /\ blocked' = blocked /\ budget' = budget
      /\ screen' = screen /\ menu' = menu /\ run' = run /\ saved' = saved
  BY DEF WorldUpdateEnd
<1>2. CASE step = "AwaitingMenu" /\ menu = "browse" /\ LaunchClaim
  BY <1>1, <1>2 DEF LaunchClaim, Request, Stored
<1>3. CASE step = "Failed" /\ step' = step
  BY <1>1, <1>3 DEF Stored
<1>4. CASE UNCHANGED <<step, frames, request, chosen>>
  BY <1>1, <1>4 DEF Stored
<1> QED BY <1>2, <1>3, <1>4 DEF WorldUpdateEnd

\* Every step keeps it.
LEMMA RunInvNext == TakeoverAssumption /\ BudgetOutlivesClaim /\ RunInv /\ [Next]_tkVars => RunInv'
<1> SUFFICES ASSUME TakeoverAssumption, BudgetOutlivesClaim, RunInv, [Next]_tkVars
             PROVE  RunInv'
  OBVIOUS
<1>1. MenuInv'
  BY MenuInvNext DEF RunInv
<1>2. CASE Frame
  BY <1>1, <1>2, RunInvGame, RunInvTick, RunInvWorld DEF Frame, RunInv
<1>3. ASSUME /\ step' = step /\ frames' = frames /\ claim' = claim /\ blocked' = blocked
             /\ budget' = budget /\ screen' = screen /\ menu' = menu /\ request' = request
             /\ chosen' = chosen /\ run' = run /\ saved' = saved /\ turn' = turn
      PROVE  RunInv'
  BY <1>1, <1>3 DEF RunInv, InBudget, LaunchesClaim, RunsClaim, Stored
<1>4. CASE Disconnected
  BY <1>3, <1>4 DEF Disconnected, claimVars, gameVars
<1>5. CASE ConsoleChecks
  BY <1>3, <1>5 DEF ConsoleChecks, claimVars, gameVars
<1>6. CASE ConsoleEnables
  BY <1>3, <1>6 DEF ConsoleEnables, claimVars, gameVars
<1>7. ASSUME NEW s \in Session, Authenticate(s)
      PROVE  RunInv'
  BY <1>3, <1>7 DEF Authenticate, claimVars, gameVars
<1>8. CASE UNCHANGED tkVars
  BY <1>3, <1>8 DEF tkVars, claimVars, gameVars
<1> QED BY <1>2, <1>4, <1>5, <1>6, <1>7, <1>8 DEF Next

\* Only the game's own save commits anything.
LEMMA CommitsAreOwn ==
    ASSUME RunInv, [Next]_tkVars
    PROVE  [\A s \in Session : saved'[s] # saved[s] => saved'[s] = s /\ ~writes']_tkVars
<1>1. CASE saved' = saved
  BY <1>1
<1>2. CASE GameSaves
  BY <1>2, FlushStores DEF GameSaves
<1>3. saved' = saved \/ GameSaves
  BY DEF Next, Frame, GameStep, StartGame, MenuOpens, PlayerOpensFile, PlayerGoesBack, MenuFollows,
         MenuLeaves, QuitToTitle, Idles, Tick, WorldUpdateEnd, Authenticate, Disconnected,
         ConsoleChecks, ConsoleEnables, tkVars
<1> QED BY <1>1, <1>2, <1>3

\* What is committed for a session is a run of its own, and it does not reach the
\* vanilla file as well, whoever authenticates, disconnects or uses the console when,
\* if the input budget outlives the two steps of a claim.
THEOREM SessionsCommitTheirOwn ==
    TakeoverAssumption /\ BudgetOutlivesClaim => (Spec => CommitsOwnRun)
<1> SUFFICES ASSUME TakeoverAssumption, BudgetOutlivesClaim
             PROVE  Spec => CommitsOwnRun
  OBVIOUS
<1>1. Init => RunInv
  BY RunInvInit
<1>2. RunInv /\ [Next]_tkVars => RunInv'
  BY RunInvNext
<1>3. RunInv /\ [Next]_tkVars =>
        [\A s \in Session : saved'[s] # saved[s] => saved'[s] = s /\ ~writes']_tkVars
  BY CommitsAreOwn
<1> QED BY <1>1, <1>2, <1>3, PTL DEF Spec, CommitsOwnRun
=============================================================================
