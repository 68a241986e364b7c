------------------------ MODULE InboundGrants_proofs ------------------------
(***************************************************************************)
(* Proofs about InboundGrants for any set of sessions, any streams and any *)
(* number of tiers.                                                        *)
(***************************************************************************)
EXTENDS InboundGrants, FiniteSetTheorems, TLAPS

\* Who is served: an authenticated session is the one whose stream is held,
\* and the granter is only ever bound to that session.
Home ==
    /\ authed => session # NoSession /\ identity = session
    /\ bound # NoSession => bound = session /\ identity = session
    /\ bound = NoSession => inFlight = {} /\ queue = <<>>
    /\ pc = "pass" => bound # NoSession /\ cursor \in Receipt
    /\ authed /\ pc # "net" => bound # NoSession
    /\ player # "none" => game = "gameplay"
    /\ step \in {"AwaitingMenu", "Launching", "Running"} => begun # NoSession

\* The receipts of a queue, and of a queue with one more entry.
LEMMA AppendEntries ==
    ASSUME NEW S, NEW q \in Seq(S), NEW e \in S
    PROVE  /\ Append(q, e) \in Seq(S)
           /\ Range(Append(q, e)) = Range(q) \cup {e}
           /\ IsInjective(q) /\ e \notin Range(q) => IsInjective(Append(q, e))
<1> DEFINE r == Append(q, e)
<1>1. r \in Seq(S) /\ Len(r) = Len(q) + 1 /\ r[Len(q) + 1] = e
  OBVIOUS
<1>2. \A k \in 1..Len(q) : r[k] = q[k]
  OBVIOUS
<1>3. DOMAIN r = DOMAIN q \cup {Len(q) + 1} /\ Len(q) + 1 \notin DOMAIN q
  BY <1>1
<1>4. DOMAIN q = 1..Len(q)
  OBVIOUS
<1> HIDE DEF r
<1>5. Range(r) = Range(q) \cup {e}
  BY <1>1, <1>2, <1>3, <1>4 DEF Range
<1>6. IsInjective(q) /\ e \notin Range(q) => IsInjective(r)
  BY <1>1, <1>2, <1>3, <1>4 DEF Range, IsInjective
<1> QED BY <1>1, <1>5, <1>6 DEF r

\* The receipts of a set with one more entry, and of the empty queue.
LEMMA ReceiptsUnion ==
    \A Q, e : Receipts(Q \cup {e}) = Receipts(Q) \cup {e[2]}
BY DEF Receipts

\* An empty queue has no receipts, and trivially each of them once.
LEMMA EmptyQueue ==
    Range(<<>>) = {} /\ Receipts({}) = {} /\ IsInjective(<<>>)
BY DEF Range, Receipts, IsInjective

-----------------------------------------------------------------------------
(***************************************************************************)
(* Type correctness.                                                       *)
(***************************************************************************)
Typed == TypeOK /\ Home

\* Reading the container of a session into the cache keeps the types.
LEMMA EnsureLoadedType ==
    ASSUME cache \in Cache, disk \in [Session -> Bundle],
           NEW s \in Session
    PROVE  EnsureLoaded(s) \in Cache /\ EnsureLoaded(s).key = s
BY DEF EnsureLoaded, Cache, Bundle

\* Marking a receipt keeps the types.
LEMMA MarkType ==
    ASSUME cache \in Cache, disk \in [Session -> Bundle],
           bound \in Session, granted \in SUBSET Receipt,
           NEW i \in Receipt, Mark(i)
    PROVE  granted' \in SUBSET Receipt /\ cache' \in Cache
<1>1. granted' \in SUBSET Receipt
  BY DEF Mark
<1>2. EnsureLoaded(bound) \in Cache
  BY EnsureLoadedType
<1> QED BY <1>1, <1>2 DEF Mark, StageState, Cache

\* A blank save is a save, and a save with more receipts is one.
LEMMA SaveType ==
    /\ Blank \in Save
    /\ \A v \in Save : \A R \in SUBSET (Session \X Receipt) :
           [v EXCEPT !.holds = @ \cup R] \in Save
BY DEF Save, Blank

\* The typing invariant holds when the mod loads.
LEMMA TypedInit == Init => Typed
<1> SUFFICES ASSUME Init PROVE Typed
  OBVIOUS
<1>1. cache \in Cache /\ staged \in Save /\ live \in Save
  BY SaveType DEF Init, Cache
<1>2. disk \in [Session -> Bundle]
  BY SaveType DEF Init, Bundle
<1>3. queue \in Seq(Session \X Receipt)
  BY DEF Init
<1> QED BY <1>1, <1>2, <1>3, InboundGrantsAssumption
        DEF Init, Typed, TypeOK, Home

\* The part of drive_tick up to the granter's pass.
LEMMA TypedTick ==
    ASSUME Typed, TickBegin \/ Net \/ HooksTick
    PROVE  Typed'
<1> USE InboundGrantsAssumption DEF Typed, TypeOK, Home
<1>1. CASE TickBegin
  BY <1>1 DEF TickBegin, netVars, ledgerVars, storeVars, launchVars, gameVars
<1>2. ASSUME NEW s \in Session, SessionEnded(s)
      PROVE  Typed'
  BY <1>2 DEF SessionEnded, ReleaseInbound, storeVars, launchVars, gameVars,
              tickVars
<1>3. CASE Connected
  BY <1>3 DEF Connected, ledgerVars, storeVars, launchVars, gameVars, tickVars
<1>4. CASE Disconnected
  BY <1>4 DEF Disconnected, ledgerVars, storeVars, launchVars, gameVars, tickVars
<1>5. CASE ItemReceived
  <2>1. session \in Session /\ Len(Stream[session]) \in Nat
    BY <1>5 DEF ItemReceived
  <2>2. recvd' \in Nat /\ recvd' <= Len(Stream[session])
    BY <1>5, <2>1 DEF ItemReceived
  <2> QED BY <1>5, <2>1, <2>2
          DEF ItemReceived, ledgerVars, storeVars, launchVars, gameVars, tickVars
<1>6. CASE HooksTick
  <2>1. step' \in {"Idle", "AwaitingMenu", "Launching", "Running", "Failed"}
    BY <1>6 DEF HooksTick, TakeoverTick
  <2>2. /\ bound' = NoSession => cursor' = 0 /\ pc' = "idle"
        /\ bound' # NoSession => cursor' = 1 /\ pc' = "pass"
        /\ 0 \in Nat /\ 1 \in Receipt /\ 1 \in Nat
    BY <1>6 DEF HooksTick, Receipt
  <2>3. /\ UNCHANGED <<session, authed, identity, recvd, queue, disk, begun,
                       staged, game, player, live>>
        /\ step' \in {"AwaitingMenu", "Launching", "Running"}
               => begun # NoSession
    BY <1>6 DEF HooksTick, TakeoverTick, netVars, gameVars
  <2>4. CASE bound # NoSession \/ ~authed
    <3>1. UNCHANGED <<bound, granted, inFlight, cache>>
      BY <1>6, <2>4 DEF HooksTick, EnsureInboundReady
    <3> QED BY <2>1, <2>2, <2>3, <2>4, <3>1
  <2>5. CASE ~(bound # NoSession \/ ~authed)
    <3>1. /\ bound' = identity /\ identity \in Session
          /\ cache' = EnsureLoaded(identity)
          /\ granted' = cache'.state /\ inFlight' = {}
      BY <1>6, <2>5 DEF HooksTick, EnsureInboundReady
    <3>2. cache' \in Cache /\ granted' \in SUBSET Receipt
      BY <3>1, EnsureLoadedType DEF Cache
    <3> QED BY <2>1, <2>2, <2>3, <2>5, <3>1, <3>2
  <2> QED BY <2>4, <2>5
<1> QED BY <1>1, <1>2, <1>3, <1>4, <1>5, <1>6 DEF Net

\* The granter's pass over the receipts.
LEMMA TypedPass ==
    ASSUME Typed, Pass
    PROVE  Typed'
<1> USE InboundGrantsAssumption DEF Typed, TypeOK, Home
<1>0. /\ pc = "pass" /\ bound \in Session /\ session = bound
      /\ cursor \in Receipt /\ cursor + 1 \in Receipt /\ cursor + 1 \in Nat
  BY DEF Pass, SkipReceipt, OfferReceipt, CreditKear, ConsumeReceipt, StallPass,
         PassDone, Pending, AtReceipt, Receipt
<1> USE DEF NextReceipt, EndPass
<1>1. CASE SkipReceipt
  BY <1>0, <1>1 DEF SkipReceipt, netVars, ledgerVars, storeVars, launchVars,
                    gameVars
<1>2. CASE OfferReceipt
  <2>1. <<session, cursor>> \in Session \X Receipt
    BY <1>0
  <2>2. queue' \in Seq(Session \X Receipt)
    BY <1>2, <2>1, AppendEntries DEF OfferReceipt
  <2> QED BY <1>0, <1>2, <2>2
          DEF OfferReceipt, netVars, storeVars, launchVars, gameVars
<1>3. CASE CreditKear
  <2>1. granted' \in SUBSET Receipt /\ cache' \in Cache
    BY <1>0, <1>3, MarkType DEF CreditKear
  <2>2. {<<session, cursor>>} \in SUBSET (Session \X Receipt)
    BY <1>0
  <2>3. live' \in Save
    BY <1>3, <2>2, SaveType DEF CreditKear
  <2> QED BY <1>0, <1>3, <2>1, <2>3 DEF CreditKear, netVars, launchVars
<1>4. CASE ConsumeReceipt
  <2>1. granted' \in SUBSET Receipt /\ cache' \in Cache
    BY <1>0, <1>4, MarkType DEF ConsumeReceipt
  <2> QED BY <1>0, <1>4, <2>1 DEF ConsumeReceipt, netVars, launchVars, gameVars
<1>5. CASE StallPass
  BY <1>0, <1>5 DEF StallPass, netVars, ledgerVars, storeVars, launchVars,
                    gameVars
<1>6. CASE PassDone
  BY <1>0, <1>6 DEF PassDone, netVars, ledgerVars, storeVars, launchVars,
                    gameVars
<1> QED BY <1>1, <1>2, <1>3, <1>4, <1>5, <1>6 DEF Pass

\* World::Update and the game's save request.
LEMMA TypedSave ==
    ASSUME Typed, DrainGrants \/ GameSave
    PROVE  Typed'
<1> USE InboundGrantsAssumption DEF Typed, TypeOK, Home
<1>1. CASE DrainGrants
  <2>1. queue \in Seq(Session \X Receipt) /\ bound \in Session
    BY <1>1 DEF DrainGrants
  <2>2. Range(queue) \subseteq Session \X Receipt
    BY <2>1 DEF Range
  <2>3. live' \in Save
    BY <1>1, <2>2, SaveType DEF DrainGrants
  <2>4. Receipts(Range(queue)) \subseteq Receipt
    BY <2>2 DEF Receipts
  <2>5. granted' \in SUBSET Receipt /\ inFlight' \in SUBSET Receipt
    BY <1>1, <2>1, <2>4 DEF DrainGrants, OnApplied
  <2>6. EnsureLoaded(bound) \in Cache
    BY <2>1, EnsureLoadedType
  <2>7. cache' \in Cache
    BY <1>1, <2>1, <2>5, <2>6 DEF DrainGrants, OnApplied, StageState, Cache
  <2>8. queue' \in Seq(Session \X Receipt)
    BY <1>1 DEF DrainGrants
  <2> QED BY <1>1, <2>1, <2>3, <2>5, <2>7, <2>8
          DEF DrainGrants, netVars, launchVars, tickVars
<1>2. CASE GameSave
  <2>1. step = "Running" /\ game = "gameplay" /\ begun = identity
    BY <1>2 DEF GameSave, MayFlush
  <2>2. EnsureLoaded(begun) \in Cache
    BY <2>1, EnsureLoadedType
  <2>3. cache' \in Cache
    BY <1>2, <2>2 DEF GameSave, Cache
  <2>4. [save |-> live, state |-> cache'.state] \in Bundle
    BY <2>3 DEF Cache, Bundle
  <2>5. disk' \in [Session -> Bundle]
    BY <1>2, <2>4 DEF GameSave
  <2> QED BY <1>2, <2>3, <2>5
          DEF GameSave, netVars, ledgerVars, launchVars, gameVars, tickVars
<1> QED BY <1>1, <1>2

\* The takeover's menu sequence, the game world and a crash.
LEMMA TypedLaunch ==
    ASSUME Typed, Launch \/ World \/ Crash
    PROVE  Typed'
<1> USE InboundGrantsAssumption DEF Typed, TypeOK, Home
<1>1. CASE BeginTakeover
  BY <1>1 DEF BeginTakeover, netVars, ledgerVars, storeVars, launchVars,
              tickVars, Save, Blank
<1>2. CASE StageSave
  <2>1. begun \in Session
    BY <1>2 DEF StageSave
  <2>2. cache' \in Cache
    BY <1>2, <2>1, EnsureLoadedType DEF StageSave
  <2>3. LaunchFile(cache') \in Save
    BY <2>1, <2>2 DEF LaunchFile, Cache, Save
  <2> QED BY <1>2, <2>1, <2>2, <2>3
          DEF StageSave, netVars, ledgerVars, gameVars, tickVars
<1>3. CASE BounceToTitle
  BY <1>3 DEF BounceToTitle, netVars, ledgerVars, storeVars, tickVars, Save,
              Blank
<1>4. CASE EnterGameplay
  BY <1>4 DEF EnterGameplay, netVars, ledgerVars, storeVars, tickVars, Save,
              Blank
<1>5. CASE PlayerSpawns
  BY <1>5 DEF PlayerSpawns, netVars, ledgerVars, storeVars, launchVars, tickVars
<1>6. CASE WorldDestroyed
  BY <1>6 DEF WorldDestroyed, netVars, ledgerVars, storeVars, launchVars,
              tickVars
<1>7. CASE ExitToTitle
  BY <1>7 DEF ExitToTitle, netVars, ledgerVars, storeVars, launchVars, tickVars,
              Save, Blank
<1>8. CASE Crash
  <2>1. cache' \in Cache /\ staged' \in Save /\ live' \in Save
    BY <1>8, SaveType DEF Crash, Cache
  <2>2. queue' \in Seq(Session \X Receipt)
    BY <1>8 DEF Crash
  <2> QED BY <1>8, <2>1, <2>2 DEF Crash
<1> QED BY <1>1, <1>2, <1>3, <1>4, <1>5, <1>6, <1>7, <1>8 DEF Launch, World

\* A stuttering step keeps the typing invariant.
LEMMA TypedStutter == Typed /\ UNCHANGED vars => Typed'
BY DEF Typed, TypeOK, Home, vars, netVars, ledgerVars, storeVars, launchVars,
       gameVars, tickVars

\* Every step of the game thread, and a crash, keeps the typing invariant.
LEMMA TypedNext == Typed /\ [Next]_vars => Typed'
BY TypedTick, TypedPass, TypedSave, TypedLaunch, TypedStutter DEF Next

\* In every run, whatever the environment constants allow, every variable of
\* the inbound path (events, ledger, container cache, takeover, game) keeps its
\* type, and each container stays a pair of a save and a set of marks.
THEOREM TypeCorrect == Spec => []TypeOK
<1>1. Spec => []Typed
  BY TypedInit, TypedNext, PTL DEF Spec
<1> QED BY <1>1, PTL DEF Typed

-----------------------------------------------------------------------------
(***************************************************************************)
(* The queue and the in-flight set.  The argument needs nothing of the     *)
(* environment: a queue of a session that ended is dropped with it, and an *)
(* accepted receipt enters and leaves both together.                       *)
(***************************************************************************)
LEMMA QueueNext ==
    ASSUME Typed, InFlightIsQueued, [Next]_vars
    PROVE  InFlightIsQueued'
<1> USE DEF InFlightIsQueued
<1>1. CASE UNCHANGED <<queue, inFlight, bound>>
  BY <1>1
<1>2. ASSUME NEW s \in Session, SessionEnded(s)
      PROVE  InFlightIsQueued'
  BY <1>2, EmptyQueue DEF SessionEnded, ReleaseInbound
<1>3. CASE HooksTick
  <2>1. CASE bound # NoSession \/ ~authed
    BY <1>1, <1>3, <2>1 DEF HooksTick, EnsureInboundReady
  <2>2. CASE ~(bound # NoSession \/ ~authed)
    BY <1>3, <2>2, EmptyQueue DEF HooksTick, EnsureInboundReady, Typed, Home
  <2> QED BY <2>1, <2>2
<1>4. CASE OfferReceipt
  <2> DEFINE e == <<session, cursor>>
  <2>1. /\ bound \in Session /\ session = bound /\ UNCHANGED bound
        /\ cursor \in Receipt /\ cursor \notin inFlight
        /\ inFlight' = inFlight \cup {cursor}
        /\ queue' = Append(queue, e)
    BY <1>4 DEF OfferReceipt, Pending, AtReceipt, Handled, Typed, TypeOK, Home
  <2>2. queue \in Seq(Session \X Receipt) /\ e \in Session \X Receipt
    BY <2>1 DEF Typed, TypeOK
  <2>3. e \notin Range(queue)
    BY <2>1 DEF Receipts
  <2>4. Range(queue') = Range(queue) \cup {e} /\ IsInjective(queue')
    BY <2>1, <2>2, <2>3, AppendEntries
  <2>5. Receipts(Range(queue')) = inFlight'
    BY <2>1, <2>4, ReceiptsUnion
  <2> QED BY <2>1, <2>4, <2>5
<1>5. CASE DrainGrants
  <2>1. queue' = <<>>
    BY <1>5 DEF DrainGrants
  <2>2. inFlight' = {}
    BY <1>5 DEF DrainGrants, OnApplied, Typed, Home
  <2> QED BY <2>1, <2>2, EmptyQueue
<1>6. CASE Crash
  BY <1>6, EmptyQueue DEF Crash
<1>7. CASE \/ TickBegin \/ Connected \/ Disconnected \/ ItemReceived
           \/ SkipReceipt \/ CreditKear \/ ConsumeReceipt \/ StallPass \/ PassDone
           \/ GameSave \/ Launch \/ World \/ UNCHANGED vars
  BY <1>1, <1>7
     DEF TickBegin, Connected, Disconnected, ItemReceived, SkipReceipt,
         CreditKear, ConsumeReceipt, StallPass, PassDone, GameSave, Launch,
         World, BeginTakeover, StageSave, BounceToTitle, EnterGameplay,
         PlayerSpawns, WorldDestroyed, ExitToTitle, ledgerVars, vars
<1> QED BY <1>2, <1>3, <1>4, <1>5, <1>6, <1>7 DEF Next, Net, Pass

\* In every run, under any session switches, menu trips and crashes, what the
\* granter holds in flight is what the queue of its own session holds, once.
THEOREM QueueCoherent == Spec => []InFlightIsQueued
<1>1. Init => InFlightIsQueued
  BY EmptyQueue DEF Init, InFlightIsQueued
<1>2. Spec => []Typed
  BY TypedInit, TypedNext, PTL DEF Spec
<1>3. Typed /\ InFlightIsQueued /\ [Next]_vars => InFlightIsQueued'
  BY QueueNext
<1> QED BY <1>1, <1>2, <1>3, PTL DEF Spec

-----------------------------------------------------------------------------
(***************************************************************************)
(* Containers never lose a receipt.  Every copy that can reach a container *)
(* - the cache, the marks, the staged file, the live run - already has     *)
(* what the container holds.                                               *)
(***************************************************************************)
\* A save kept under k was launched for k, or is the blank of a new run.
FiledUnder(k, save) ==
    /\ save.of \in {k, NoSession}
    /\ save.of = NoSession => save.holds = {}

CacheAhead ==
    cache.key # NoSession =>
        /\ FiledUnder(cache.key, cache.save)
        /\ disk[cache.key].state \subseteq cache.state
        /\ disk[cache.key].save.holds \subseteq cache.save.holds

MarksAhead ==
    bound # NoSession =>
        /\ disk[bound].state \subseteq granted
        /\ cache.key = bound => cache.state \subseteq granted

RunAhead ==
    /\ game # "gameplay" => live = Blank
    /\ game = "gameplay" =>
           /\ begun # NoSession /\ live.of = begun
           /\ disk[begun].save.holds \subseteq live.holds
    /\ staged.of = NoSession => staged = Blank
    /\ staged.of # NoSession =>
           /\ game = "profile" /\ staged.of = begun
           /\ disk[begun].save.holds \subseteq staged.holds

Ahead ==
    /\ \A s \in Session : FiledUnder(s, disk[s].save)
    /\ CacheAhead /\ MarksAhead /\ RunAhead

\* The container of a session, once in the cache, has all its file has.
LEMMA LoadAhead ==
    ASSUME Typed, Ahead, NEW s \in Session
    PROVE  /\ EnsureLoaded(s) \in Cache /\ EnsureLoaded(s).key = s
           /\ FiledUnder(s, EnsureLoaded(s).save)
           /\ disk[s].state \subseteq EnsureLoaded(s).state
           /\ disk[s].save.holds \subseteq EnsureLoaded(s).save.holds
           /\ s = bound => EnsureLoaded(s).state \subseteq granted
<1>1. EnsureLoaded(s) \in Cache /\ EnsureLoaded(s).key = s
  BY EnsureLoadedType DEF Typed, TypeOK
<1>2. CASE cache.key = s
  BY <1>1, <1>2, InboundGrantsAssumption
     DEF EnsureLoaded, Ahead, CacheAhead, MarksAhead
<1>3. CASE cache.key # s
  BY <1>1, <1>3, InboundGrantsAssumption DEF EnsureLoaded, Ahead, MarksAhead
<1> QED BY <1>2, <1>3, <1>1

\* Marking more receipts and adding to the run keeps every copy ahead.
LEMMA MarkAhead ==
    ASSUME Typed, Ahead, bound \in Session, NEW R \in SUBSET Receipt,
           granted' = granted \cup R,
           cache' = StageState(bound, granted'),
           UNCHANGED <<bound, disk, launchVars, game>>,
           \/ UNCHANGED live
           \/ /\ game = "gameplay"
              /\ live'.of = live.of /\ live.holds \subseteq live'.holds
    PROVE  Ahead'
<1>1. /\ cache' = [EnsureLoaded(bound) EXCEPT !.state = granted']
      /\ EnsureLoaded(bound) \in Cache /\ EnsureLoaded(bound).key = bound
      /\ FiledUnder(bound, EnsureLoaded(bound).save)
      /\ disk[bound].save.holds \subseteq EnsureLoaded(bound).save.holds
  BY LoadAhead DEF StageState
<1>2. /\ cache'.key = bound /\ cache'.state = granted'
      /\ cache'.save = EnsureLoaded(bound).save
  BY <1>1 DEF Cache
<1>3. disk[bound].state \subseteq granted'
  BY InboundGrantsAssumption DEF Ahead, MarksAhead
<1>4. CacheAhead' /\ MarksAhead'
  BY <1>1, <1>2, <1>3 DEF CacheAhead, MarksAhead, FiledUnder
<1>5. RunAhead'
  BY DEF Ahead, RunAhead, launchVars
<1>6. \A s \in Session : FiledUnder(s, disk'[s].save)
  BY DEF Ahead
<1> QED BY <1>4, <1>5, <1>6 DEF Ahead, FiledUnder

\* drive_tick and World::Update.
LEMMA AheadTick ==
    ASSUME Typed, Ahead, TickBegin \/ Net \/ HooksTick \/ Pass \/ DrainGrants
    PROVE  Ahead'
<1> USE InboundGrantsAssumption
<1>1. CASE UNCHANGED <<bound, granted, storeVars, launchVars, game, live>>
  BY <1>1 DEF Ahead, FiledUnder, CacheAhead, MarksAhead, RunAhead, storeVars,
              launchVars
<1>2. CASE TickBegin \/ Connected \/ Disconnected \/ ItemReceived
  BY <1>1, <1>2 DEF TickBegin, Connected, Disconnected, ItemReceived,
                    ledgerVars, gameVars
<1>3. CASE SkipReceipt \/ OfferReceipt \/ StallPass \/ PassDone
  BY <1>1, <1>3 DEF SkipReceipt, OfferReceipt, StallPass, PassDone, ledgerVars,
                    gameVars
<1>4. ASSUME NEW s \in Session, SessionEnded(s)
      PROVE  Ahead'
  BY <1>4 DEF SessionEnded, ReleaseInbound, Ahead, FiledUnder, CacheAhead,
              MarksAhead, RunAhead, storeVars, launchVars, gameVars
<1>5. CASE HooksTick
  <2>1. UNCHANGED <<disk, begun, staged, game, live>>
    BY <1>5 DEF HooksTick, gameVars
  <2>2. /\ \A s \in Session : FiledUnder(s, disk'[s].save)
        /\ RunAhead'
    BY <2>1 DEF Ahead, RunAhead
  <2>3. CASE bound # NoSession \/ ~authed
    <3>1. UNCHANGED <<bound, granted, cache>>
      BY <1>5, <2>3 DEF HooksTick, EnsureInboundReady
    <3>2. CacheAhead' /\ MarksAhead'
      BY <2>1, <3>1 DEF Ahead, CacheAhead, MarksAhead, FiledUnder
    <3> QED BY <2>2, <3>2 DEF Ahead, FiledUnder
  <2>4. CASE ~(bound # NoSession \/ ~authed)
    <3>1. /\ identity \in Session /\ bound' = identity
          /\ cache' = EnsureLoaded(identity) /\ granted' = cache'.state
      BY <1>5, <2>4 DEF HooksTick, EnsureInboundReady, Typed, TypeOK, Home
    <3>2. /\ cache'.key = identity /\ FiledUnder(identity, cache'.save)
          /\ disk[identity].state \subseteq cache'.state
          /\ disk[identity].save.holds \subseteq cache'.save.holds
      BY <3>1, LoadAhead
    <3>3. CacheAhead' /\ MarksAhead'
      BY <2>1, <3>1, <3>2 DEF CacheAhead, MarksAhead, FiledUnder
    <3> QED BY <2>2, <3>3 DEF Ahead, FiledUnder
  <2> QED BY <2>3, <2>4
<1>6. ASSUME CreditKear \/ ConsumeReceipt
      PROVE  Ahead'
  <2>1. bound \in Session /\ cursor \in Receipt
    BY <1>6 DEF CreditKear, ConsumeReceipt, Pending, AtReceipt, Typed, TypeOK,
                Home
  <2>2. /\ granted' = granted \cup {cursor} /\ {cursor} \in SUBSET Receipt
        /\ cache' = StageState(bound, granted')
        /\ UNCHANGED <<bound, disk, launchVars, game>>
    BY <1>6, <2>1 DEF CreditKear, ConsumeReceipt, Mark, gameVars
  <2>3. \/ UNCHANGED live
        \/ /\ game = "gameplay"
           /\ live'.of = live.of /\ live.holds \subseteq live'.holds
    BY <1>6 DEF CreditKear, ConsumeReceipt, gameVars, Typed, TypeOK, Home, Save
  <2> QED BY <2>1, <2>2, <2>3, MarkAhead
<1>7. ASSUME DrainGrants
      PROVE  Ahead'
  <2>1. bound \in Session
    BY <1>7 DEF DrainGrants, Typed, TypeOK, Home
  <2>2. Receipts(Range(queue)) \in SUBSET Receipt
    <3>1. queue \in Seq(Session \X Receipt)
      BY DEF Typed, TypeOK
    <3> QED BY <3>1 DEF Range, Receipts
  <2>3. /\ granted' = granted \cup Receipts(Range(queue))
        /\ cache' = StageState(bound, granted')
        /\ UNCHANGED <<bound, disk, launchVars, game>>
    BY <1>7, <2>1 DEF DrainGrants, OnApplied
  <2>4. /\ game = "gameplay"
        /\ live'.of = live.of /\ live.holds \subseteq live'.holds
    BY <1>7 DEF DrainGrants, Typed, TypeOK, Home, Save
  <2> QED BY <2>1, <2>2, <2>3, <2>4, MarkAhead
<1> QED BY <1>2, <1>3, <1>4, <1>5, <1>6, <1>7 DEF Net, Pass

\* The launch, the save request, the game world and a crash.
LEMMA AheadLaunch ==
    ASSUME Typed, Ahead, GameSave \/ Launch \/ World \/ Crash
    PROVE  Ahead'
<1> USE InboundGrantsAssumption
<1>1. CASE BeginTakeover
  <2>1. game = "title" /\ staged = Blank /\ live = Blank /\ staged' = Blank
    BY <1>1 DEF BeginTakeover, launchVars, Ahead, RunAhead
  <2>2. UNCHANGED <<cache, disk, bound, granted, live>> /\ game' = "profile"
    BY <1>1 DEF BeginTakeover, ledgerVars, storeVars
  <2> QED BY <2>1, <2>2
          DEF Ahead, FiledUnder, CacheAhead, MarksAhead, RunAhead, Blank
<1>2. CASE StageSave
  <2>1. /\ begun \in Session /\ game = "profile"
        /\ cache' = EnsureLoaded(begun)
        /\ UNCHANGED <<disk, bound, granted, begun, game, live>>
        /\ staged' \in {staged, LaunchFile(cache')}
    BY <1>2 DEF StageSave, ledgerVars, gameVars, Typed, TypeOK, Home
  <2>2. /\ cache' \in Cache /\ cache'.key = begun
        /\ FiledUnder(begun, cache'.save)
        /\ disk[begun].state \subseteq cache'.state
        /\ disk[begun].save.holds \subseteq cache'.save.holds
        /\ begun = bound => cache'.state \subseteq granted
    BY <2>1, LoadAhead
  <2>3. CacheAhead' /\ MarksAhead'
    BY <2>1, <2>2 DEF Ahead, CacheAhead, MarksAhead, FiledUnder
  <2>4. LaunchFile(cache').of = begun
        /\ disk[begun].save.holds \subseteq LaunchFile(cache').holds
    BY <2>2 DEF LaunchFile, FiledUnder
  <2>5. RunAhead'
    BY <2>1, <2>4 DEF Ahead, RunAhead
  <2> QED BY <2>1, <2>3, <2>5 DEF Ahead, FiledUnder
<1>3. CASE BounceToTitle
  BY <1>3 DEF BounceToTitle, ledgerVars, storeVars, Ahead, FiledUnder,
              CacheAhead, MarksAhead, RunAhead, Blank
<1>4. CASE EnterGameplay
  BY <1>4 DEF EnterGameplay, ledgerVars, storeVars, Ahead, FiledUnder,
              CacheAhead, MarksAhead, RunAhead, Blank
<1>5. CASE GameSave
  <2>1. /\ begun \in Session /\ game = "gameplay"
        /\ live.of = begun /\ staged.of = NoSession
        /\ disk[begun].save.holds \subseteq live.holds
    BY <1>5 DEF GameSave, MayFlush, Ahead, RunAhead, Typed, TypeOK, Home
  <2>2. /\ cache' = [EnsureLoaded(begun) EXCEPT !.save = live]
        /\ UNCHANGED <<bound, granted, begun, staged, game, live>>
        /\ \/ disk' = [disk EXCEPT ![begun] =
                          [save |-> live, state |-> cache'.state]]
           \/ UNCHANGED disk
    BY <1>5 DEF GameSave, ledgerVars, launchVars, gameVars
  <2>3. /\ EnsureLoaded(begun) \in Cache /\ EnsureLoaded(begun).key = begun
        /\ disk[begun].state \subseteq EnsureLoaded(begun).state
        /\ begun = bound => EnsureLoaded(begun).state \subseteq granted
    BY <2>1, LoadAhead
  <2>4. /\ cache'.key = begun /\ cache'.save = live
        /\ disk[begun].state \subseteq cache'.state
        /\ begun = bound => cache'.state \subseteq granted
    BY <2>2, <2>3 DEF Cache
  <2>5. /\ disk'[begun] \in {disk[begun], [save |-> live, state |-> cache'.state]}
        /\ \A s \in Session : s # begun => disk'[s] = disk[s]
    BY <2>1, <2>2 DEF Typed, TypeOK
  <2>6. /\ disk'[begun].state \subseteq cache'.state
        /\ disk'[begun].save.holds \subseteq live.holds
        /\ FiledUnder(begun, live) /\ FiledUnder(begun, disk'[begun].save)
    BY <2>1, <2>4, <2>5 DEF Ahead, FiledUnder
  <2>7. CacheAhead'
    BY <2>4, <2>6 DEF CacheAhead, FiledUnder
  <2>8. MarksAhead'
    <3>1. bound' = bound /\ granted' = granted /\ bound \in Session \cup {NoSession}
      BY <2>2 DEF Typed, TypeOK
    <3>2. CASE bound = begun
      BY <2>1, <2>4, <2>6, <3>1, <3>2 DEF MarksAhead
    <3>3. CASE bound # begun
      BY <2>4, <2>5, <3>1, <3>3 DEF Ahead, MarksAhead
    <3> QED BY <3>2, <3>3
  <2>9. RunAhead'
    BY <2>1, <2>2, <2>6 DEF Ahead, RunAhead
  <2>10. \A s \in Session : FiledUnder(s, disk'[s].save)
    BY <2>5, <2>6 DEF Ahead
  <2> QED BY <2>7, <2>8, <2>9, <2>10 DEF Ahead, FiledUnder
<1>6. CASE PlayerSpawns \/ WorldDestroyed
  BY <1>6 DEF PlayerSpawns, WorldDestroyed, ledgerVars, storeVars, launchVars,
              Ahead, FiledUnder, CacheAhead, MarksAhead, RunAhead
<1>7. CASE ExitToTitle
  BY <1>7 DEF ExitToTitle, ledgerVars, storeVars, launchVars, Ahead, FiledUnder,
              CacheAhead, MarksAhead, RunAhead
<1>8. CASE Crash
  BY <1>8 DEF Crash, Ahead, FiledUnder, CacheAhead, MarksAhead, RunAhead, Blank
<1> QED BY <1>1, <1>2, <1>3, <1>4, <1>5, <1>6, <1>7, <1>8 DEF Launch, World

\* Nothing is handed out when the mod loads, so nothing lags behind a file.
LEMMA AheadInit == Init => Ahead
BY InboundGrantsAssumption DEF Init, Ahead, FiledUnder, CacheAhead, MarksAhead,
   RunAhead, Blank

\* Every step keeps each in-memory copy ahead of the container it came from.
LEMMA AheadNext == Typed /\ Ahead /\ [Next]_vars => Ahead'
<1>1. Ahead /\ UNCHANGED vars => Ahead'
  BY DEF vars, ledgerVars, storeVars, launchVars, gameVars, Ahead, FiledUnder,
         CacheAhead, MarksAhead, RunAhead
<1> QED BY <1>1, AheadTick, AheadLaunch DEF Next

\* What a container has, every later version of it has.
ContainersGrow ==
    \A s \in Session : /\ disk[s].state \subseteq disk'[s].state
                       /\ disk[s].save.holds \subseteq disk'[s].save.holds

\* Only a save request writes a container, and what it writes is ahead of it.
LEMMA ContainersGrowStep ==
    ASSUME Typed, Ahead, [Next]_vars
    PROVE  ContainersGrow
<1>1. CASE UNCHANGED disk
  BY <1>1 DEF ContainersGrow
<1>2. CASE GameSave
  <2>1. /\ begun \in Session /\ disk[begun].save.holds \subseteq live.holds
        /\ disk[begun].state \subseteq EnsureLoaded(begun).state
        /\ EnsureLoaded(begun) \in Cache
    BY <1>2, LoadAhead, InboundGrantsAssumption
       DEF GameSave, MayFlush, Ahead, RunAhead, Typed, TypeOK, Home
  <2>2. cache'.state = EnsureLoaded(begun).state
    BY <1>2, <2>1 DEF GameSave, Cache
  <2>3. \/ disk' = [disk EXCEPT ![begun] =
                      [save |-> live, state |-> cache'.state]]
        \/ UNCHANGED disk
    BY <1>2 DEF GameSave
  <2>4. disk \in [Session -> Bundle]
    BY DEF Typed, TypeOK
  <2> QED BY <2>1, <2>2, <2>3, <2>4 DEF ContainersGrow
<1>3. CASE TickBegin \/ Net \/ HooksTick \/ Pass \/ DrainGrants \/ UNCHANGED vars
  BY <1>1, <1>3
     DEF TickBegin, Net, SessionEnded, Connected, Disconnected, ItemReceived,
         HooksTick, Pass, SkipReceipt, OfferReceipt, CreditKear, ConsumeReceipt,
         StallPass, PassDone, DrainGrants, storeVars, vars
<1>4. CASE Launch \/ World \/ Crash
  BY <1>1, <1>4
     DEF Launch, BeginTakeover, StageSave, BounceToTitle, EnterGameplay, World,
         PlayerSpawns, WorldDestroyed, ExitToTitle, Crash, storeVars
<1> QED BY <1>2, <1>3, <1>4 DEF Next

\* In every run, whatever the player, the server, failed writes and crashes
\* do, a container never loses a mark nor its save a receipt.
THEOREM ContainersNeverShrink == Spec => DurableGrows
<1>1. Spec => []Typed
  BY TypedInit, TypedNext, PTL DEF Spec
<1>2. Typed /\ Ahead /\ [Next]_vars => Ahead'
  BY AheadNext
<1>3. Spec => []Ahead
  BY <1>1, <1>2, AheadInit, PTL DEF Spec
<1>4. Typed /\ Ahead /\ [Next]_vars => [ContainersGrow]_vars
  BY ContainersGrowStep
<1>5. Spec => [][ContainersGrow]_vars
  BY <1>1, <1>3, <1>4, PTL DEF Spec
<1> QED BY <1>5 DEF DurableGrows, ContainersGrow

-----------------------------------------------------------------------------
(***************************************************************************)
(* The pairing of run and marks, for a player who saves before leaving     *)
(* gameplay and changes session only between runs.  While a run is up, the *)
(* cache is its container and holds the granter's marks, so a save request *)
(* commits the two as they are; while none is up, the cache is a pair that *)
(* agrees, so the next launch starts from one.                             *)
(***************************************************************************)
Calm == ~QuitUnsaved /\ ~SwitchMidRun

\* A run is under way, or about to be.
Busy == game # "title" \/ step \in {"AwaitingMenu", "Launching"}

BusyIsBound == Busy => bound # NoSession /\ begun = bound

CacheIsMarks == bound # NoSession => cache.key = bound /\ cache.state = granted

RunAgrees ==
    /\ game = "gameplay" => Agrees(bound, live, granted)
    /\ staged.of # NoSession => Agrees(bound, staged, granted)

CacheAgrees ==
    cache.key # NoSession /\ game # "gameplay"
        => Agrees(cache.key, cache.save, cache.state)

QueueIsNew ==
    /\ \A q \in Range(queue) : Queued(q[1], q[2])
    /\ inFlight \cap granted = {}

InStep == /\ BusyIsBound /\ CacheIsMarks /\ RunAgrees /\ CacheAgrees
          /\ DiskPairAgrees /\ QueueIsNew

Inv == Typed /\ Ahead /\ InFlightIsQueued /\ InStep

\* Receipts added to the run and to the marks together keep them in step.
LEMMA AgreesGrown ==
    ASSUME NEW s, NEW save, NEW grown, NEW M, NEW R,
           Agrees(s, save, M), \A i \in R : InRun(s, i),
           grown.holds = save.holds \cup {<<s, i>> : i \in R}
    PROVE  Agrees(s, grown, M \cup R)
BY DEF Agrees

\* A mark that leaves no trace in the run keeps them in step.
LEMMA AgreesConsumed ==
    ASSUME NEW s, NEW save, NEW M, NEW i,
           Agrees(s, save, M), ~InRun(s, i)
    PROVE  Agrees(s, save, M \cup {i})
BY DEF Agrees

\* Only the holds of a save matter.
LEMMA AgreesHolds ==
    ASSUME NEW s, NEW save, NEW other, NEW M,
           Agrees(s, save, M), other.holds = save.holds
    PROVE  Agrees(s, other, M)
BY DEF Agrees

\* A tier is a number.
LEMMA TierType == \A s, i : i \in Nat => Tier(s, i) \in Nat
<1> SUFFICES ASSUME NEW s, NEW i \in Nat PROVE Tier(s, i) \in Nat
  OBVIOUS
<1> DEFINE T == {j \in 1..i : Stream[s][j] = "tiered"}
<1>1. IsFiniteSet(1..i) /\ T \subseteq 1..i
  BY FS_Interval
<1>2. IsFiniteSet(T)
  BY <1>1, FS_Subset
<1> QED BY <1>2, FS_CardinalityType DEF Tier

\* drive_tick up to the granter's pass.
LEMMA InStepTick ==
    ASSUME Calm, Inv, TickBegin \/ Net \/ HooksTick
    PROVE  InStep'
<1> USE InboundGrantsAssumption DEF Inv
<1>1. CASE TickBegin \/ Connected \/ Disconnected \/ ItemReceived
  BY <1>1 DEF TickBegin, Connected, Disconnected, ItemReceived, netVars,
              ledgerVars, storeVars, launchVars, gameVars, InStep, BusyIsBound,
              Busy, CacheIsMarks, RunAgrees, CacheAgrees, DiskPairAgrees,
              QueueIsNew, Agrees
<1>2. ASSUME NEW s \in Session, SessionEnded(s)
      PROVE  InStep'
  <2>1. /\ bound' = NoSession /\ granted' = {} /\ inFlight' = {}
        /\ queue' = <<>>
        /\ UNCHANGED <<cache, disk, step, begun, staged, game, live>>
    BY <1>2 DEF SessionEnded, ReleaseInbound, storeVars, launchVars, gameVars
  <2>2. ~Busy
    BY <1>2 DEF SessionEnded, MaySwitch, Calm, Busy, InStep, BusyIsBound,
                Typed, Home
  <2>3. game = "title" /\ staged.of = NoSession
    BY <2>2 DEF Busy, Ahead, RunAhead
  <2>4. BusyIsBound' /\ CacheIsMarks' /\ RunAgrees'
    BY <2>1, <2>2, <2>3 DEF BusyIsBound, Busy, CacheIsMarks, RunAgrees
  <2>5. CacheAgrees' /\ DiskPairAgrees'
    BY <2>1 DEF InStep, CacheAgrees, DiskPairAgrees, Agrees
  <2>6. QueueIsNew'
    BY <2>1, EmptyQueue DEF QueueIsNew
  <2> QED BY <2>4, <2>5, <2>6 DEF InStep
<1>3. CASE HooksTick
  <2>1. /\ UNCHANGED <<queue, disk, begun, staged, game, live>>
        /\ Busy' => Busy
    BY <1>3 DEF HooksTick, TakeoverTick, gameVars, Busy
  <2>2. DiskPairAgrees'
    BY <2>1 DEF InStep, DiskPairAgrees, Agrees
  <2>3. CASE bound # NoSession \/ ~authed
    <3>1. UNCHANGED <<bound, granted, inFlight, cache>>
      BY <1>3, <2>3 DEF HooksTick, EnsureInboundReady
    <3>2. BusyIsBound' /\ CacheIsMarks' /\ QueueIsNew'
      BY <2>1, <3>1 DEF InStep, BusyIsBound, CacheIsMarks, QueueIsNew
    <3>3. RunAgrees' /\ CacheAgrees'
      BY <2>1, <3>1 DEF InStep, RunAgrees, CacheAgrees, Agrees
    <3> QED BY <2>2, <3>2, <3>3 DEF InStep
  <2>4. CASE ~(bound # NoSession \/ ~authed)
    <3>1. /\ identity \in Session /\ bound' = identity
          /\ cache' = EnsureLoaded(identity)
          /\ granted' = cache'.state /\ inFlight' = {}
          /\ queue = <<>>
      BY <1>3, <2>4 DEF HooksTick, EnsureInboundReady, Typed, TypeOK, Home
    <3>2. ~Busy /\ game = "title" /\ staged.of = NoSession
      BY <2>4 DEF InStep, BusyIsBound, Busy, Ahead, RunAhead
    <3>3. cache'.key = identity
      BY <3>1, LoadAhead
    <3>4. BusyIsBound' /\ CacheIsMarks' /\ RunAgrees'
      BY <2>1, <3>1, <3>2, <3>3 DEF BusyIsBound, CacheIsMarks, RunAgrees
    <3>5. Agrees(identity, cache'.save, cache'.state)
      BY <3>1, <3>2 DEF EnsureLoaded, InStep, CacheAgrees, DiskPairAgrees
    <3>6. CacheAgrees'
      BY <3>3, <3>5 DEF CacheAgrees, Agrees
    <3>7. QueueIsNew'
      BY <2>1, <3>1, EmptyQueue DEF QueueIsNew
    <3> QED BY <2>2, <3>4, <3>6, <3>7 DEF InStep
  <2> QED BY <2>3, <2>4
<1> QED BY <1>1, <1>2, <1>3 DEF Net

\* Receipts marked while the cache is the container of the bound session.
LEMMA InStepMark ==
    ASSUME Inv, bound \in Session, NEW R,
           granted' = granted \cup R,
           cache' = StageState(bound, granted'),
           UNCHANGED <<bound, disk, launchVars, game>>
    PROVE  /\ BusyIsBound' /\ CacheIsMarks' /\ DiskPairAgrees'
           /\ cache'.save = cache.save
<1>1. cache.key = bound /\ cache \in Cache
  BY InboundGrantsAssumption DEF Inv, InStep, CacheIsMarks, Typed, TypeOK
<1>2. cache' = [cache EXCEPT !.state = granted']
  BY <1>1 DEF StageState, EnsureLoaded
<1>3. cache'.key = bound /\ cache'.state = granted' /\ cache'.save = cache.save
  BY <1>1, <1>2 DEF Cache
<1>4. BusyIsBound' /\ DiskPairAgrees'
  BY DEF Inv, InStep, BusyIsBound, Busy, DiskPairAgrees, Agrees, launchVars
<1> QED BY <1>3, <1>4 DEF CacheIsMarks

\* The granter's pass.
LEMMA InStepPass ==
    ASSUME Inv, Pass
    PROVE  InStep'
<1> USE InboundGrantsAssumption DEF Inv
<1>0. /\ bound \in Session /\ session = bound /\ cursor \in Receipt
      /\ cursor \in Nat
  BY DEF Pass, SkipReceipt, OfferReceipt, CreditKear, ConsumeReceipt, StallPass,
         PassDone, Pending, AtReceipt, Typed, TypeOK, Home
<1>1. CASE SkipReceipt \/ StallPass \/ PassDone
  BY <1>1 DEF SkipReceipt, StallPass, PassDone, ledgerVars, storeVars,
              launchVars, gameVars, InStep, BusyIsBound, Busy, CacheIsMarks,
              RunAgrees, CacheAgrees, DiskPairAgrees, QueueIsNew, Agrees
<1>2. CASE OfferReceipt
  <2> DEFINE e == <<session, cursor>>
  <2>1. /\ queue \in Seq(Session \X Receipt) /\ e \in Session \X Receipt
        /\ queue' = Append(queue, e) /\ inFlight' = inFlight \cup {cursor}
        /\ Queued(session, cursor) /\ cursor \notin granted
        /\ UNCHANGED <<bound, granted, cache, disk, launchVars, game, live>>
    BY <1>0, <1>2 DEF OfferReceipt, Pending, Handled, storeVars, gameVars, Typed,
                      TypeOK
  <2>2. Range(queue') = Range(queue) \cup {e}
    <3>1. queue \in Seq(Session \X Receipt) /\ e \in Session \X Receipt
      BY <2>1
    <3>2. Range(Append(queue, e)) = Range(queue) \cup {e}
      BY <3>1, AppendEntries
    <3> QED BY <2>1, <3>2
  <2>3. QueueIsNew'
    <3>1. \A q \in Range(queue') : Queued(q[1], q[2])
      BY <2>1, <2>2 DEF InStep, QueueIsNew
    <3>2. inFlight' \cap granted' = {}
      BY <2>1 DEF InStep, QueueIsNew
    <3> QED BY <3>1, <3>2 DEF QueueIsNew, Queued, Tier
  <2>4. BusyIsBound' /\ CacheIsMarks' /\ RunAgrees' /\ CacheAgrees'
        /\ DiskPairAgrees'
    BY <2>1 DEF launchVars, InStep, BusyIsBound, Busy, CacheIsMarks, RunAgrees,
                CacheAgrees, DiskPairAgrees, Agrees
  <2> QED BY <2>3, <2>4 DEF InStep
<1>3. CASE CreditKear
  <2>1. /\ granted' = granted \cup {cursor}
        /\ cache' = StageState(bound, granted')
        /\ UNCHANGED <<bound, disk, launchVars, game, queue, inFlight>>
        /\ cursor \notin inFlight /\ game = "gameplay"
        /\ Stream[session][cursor] = "kear"
    BY <1>3 DEF CreditKear, Pending, Handled, Kind, Mark, Typed, TypeOK, Home
  <2>2. live'.holds = live.holds \cup {<<bound, i>> : i \in {cursor}}
    BY <1>0, <1>3 DEF CreditKear, Typed, TypeOK, Save
  <2>3. BusyIsBound' /\ CacheIsMarks' /\ DiskPairAgrees'
    BY <1>0, <2>1, InStepMark
  <2>4. \A i \in {cursor} : InRun(bound, i)
    BY <1>0, <2>1 DEF InRun
  <2>5. Agrees(bound, live, granted)
    BY <2>1 DEF InStep, RunAgrees
  <2>6. Agrees(bound, live', granted')
    BY <2>1, <2>2, <2>4, <2>5, AgreesGrown
  <2>7. RunAgrees' /\ CacheAgrees'
    BY <2>1, <2>6 DEF RunAgrees, CacheAgrees, Agrees, Ahead, RunAhead,
                      launchVars
  <2>8. QueueIsNew'
    BY <2>1 DEF InStep, QueueIsNew, Queued, Tier
  <2> QED BY <2>3, <2>7, <2>8 DEF InStep
<1>4. CASE ConsumeReceipt
  <2>1. /\ granted' = granted \cup {cursor}
        /\ cache' = StageState(bound, granted')
        /\ UNCHANGED <<bound, disk, launchVars, game, live, queue, inFlight>>
        /\ cursor \notin inFlight
    BY <1>4 DEF ConsumeReceipt, Pending, Handled, Mark, gameVars
  <2>2. ~InRun(bound, cursor)
    BY <1>0, <1>4, TierType DEF ConsumeReceipt, Kind, InRun, Queued
  <2>3. /\ BusyIsBound' /\ CacheIsMarks' /\ DiskPairAgrees'
        /\ cache'.save = cache.save
    BY <1>0, <2>1, InStepMark
  <2>4. RunAgrees'
    BY <2>1, <2>2, AgreesConsumed DEF InStep, RunAgrees, launchVars, Agrees
  <2>5. cache.key = bound /\ cache.state = granted
        /\ cache'.key = bound /\ cache'.state = granted'
    BY <1>0, <2>1, <2>3 DEF InStep, CacheIsMarks
  <2>6. CASE game = "gameplay"
    BY <2>1, <2>3, <2>4, <2>6 DEF InStep, CacheAgrees, QueueIsNew, Queued, Tier
  <2>7. CASE game # "gameplay"
    <3>1. Agrees(bound, cache.save, granted)
      BY <1>0, <2>5, <2>7 DEF InStep, CacheAgrees
    <3>2. Agrees(bound, cache.save, granted')
      BY <2>1, <2>2, <3>1, AgreesConsumed
    <3>3. CacheAgrees'
      BY <2>3, <2>5, <3>2 DEF CacheAgrees, Agrees
    <3>4. QueueIsNew'
      BY <2>1 DEF InStep, QueueIsNew, Queued, Tier
    <3> QED BY <2>3, <2>4, <3>3, <3>4 DEF InStep
  <2> QED BY <2>6, <2>7
<1> QED BY <1>1, <1>2, <1>3, <1>4 DEF Pass

\* World::Update: the whole queue goes to the run and to the marks.
LEMMA InStepDrain ==
    ASSUME Inv, DrainGrants
    PROVE  InStep'
<1> USE InboundGrantsAssumption DEF Inv
<1> DEFINE R == Receipts(Range(queue))
<1>1. /\ bound \in Session /\ queue' = <<>> /\ inFlight' = {}
      /\ granted' = granted \cup R
      /\ cache' = StageState(bound, granted')
      /\ UNCHANGED <<bound, disk, launchVars, game>>
      /\ game = "gameplay"
  BY DEF DrainGrants, OnApplied, InFlightIsQueued, Typed, TypeOK, Home
<1>2. \A q \in Range(queue) : q = <<bound, q[2]>> /\ Queued(bound, q[2])
  <2>1. queue \in Seq(Session \X Receipt)
    BY DEF Typed, TypeOK
  <2>2. Range(queue) \subseteq Session \X Receipt
    BY <2>1 DEF Range
  <2> QED BY <2>2 DEF InFlightIsQueued, InStep, QueueIsNew
<1>3. Range(queue) = {<<bound, i>> : i \in R}
  BY <1>2 DEF Receipts
<1>4. \A i \in R : InRun(bound, i)
  BY <1>2 DEF Receipts, InRun
<1>5. live'.holds = live.holds \cup {<<bound, i>> : i \in R}
  BY <1>3 DEF DrainGrants, Typed, TypeOK, Save
<1>6. BusyIsBound' /\ CacheIsMarks' /\ DiskPairAgrees'
  BY <1>1, InStepMark
<1>7. Agrees(bound, live', granted')
  <2>1. Agrees(bound, live, granted)
    BY <1>1 DEF InStep, RunAgrees
  <2> QED BY <1>1, <1>4, <1>5, <2>1, AgreesGrown
<1>8. RunAgrees' /\ CacheAgrees'
  BY <1>1, <1>7 DEF RunAgrees, CacheAgrees, Agrees, Ahead, RunAhead, launchVars
<1>9. QueueIsNew'
  BY <1>1, EmptyQueue DEF QueueIsNew
<1> QED BY <1>6, <1>8, <1>9 DEF InStep

\* The launch, the save request, the game world and a crash.
LEMMA InStepLaunch ==
    ASSUME Calm, Inv, GameSave \/ Launch \/ World \/ Crash
    PROVE  InStep'
<1> USE InboundGrantsAssumption DEF Inv
<1>1. ASSUME Launch \/ World,
             UNCHANGED <<bound, granted, inFlight, queue, disk>>
      PROVE  InStep'
  <2>1. DiskPairAgrees' /\ QueueIsNew'
    BY <1>1 DEF InStep, DiskPairAgrees, Agrees, QueueIsNew, Queued, Tier
  <2>2. CASE BeginTakeover
    <3>0. /\ game = "title" /\ game' = "profile" /\ UNCHANGED <<cache, live>>
          /\ staged = Blank /\ bound # NoSession /\ identity = bound
      BY <2>2 DEF BeginTakeover, storeVars, Typed, Home, Ahead, RunAhead
    <3>1. /\ game = "title" /\ game' = "profile" /\ UNCHANGED <<cache, live>>
          /\ staged.of = NoSession /\ staged' = Blank
          /\ bound # NoSession /\ begun' = bound
      <4>1. CASE step \in {"Idle", "Running", "Failed"}
        BY <2>2, <3>0, <4>1 DEF BeginTakeover, Blank
      <4>2. CASE step \notin {"Idle", "Running", "Failed"}
        BY <2>2, <3>0, <4>2 DEF BeginTakeover, launchVars, Blank, InStep,
                                BusyIsBound, Busy, Typed, TypeOK
      <4> QED BY <4>1, <4>2
    <3>2. BusyIsBound' /\ CacheIsMarks' /\ RunAgrees'
      BY <1>1, <3>1 DEF InStep, BusyIsBound, CacheIsMarks, RunAgrees, Blank
    <3>3. CacheAgrees'
      BY <3>1 DEF InStep, CacheAgrees, Agrees
    <3> QED BY <2>1, <3>2, <3>3 DEF InStep
  <2>3. CASE StageSave
    <3>1. /\ game = "profile" /\ Busy /\ begun \in Session /\ begun = bound
          /\ cache.key = bound /\ cache.state = granted
          /\ cache' = EnsureLoaded(begun) /\ UNCHANGED <<game, live, begun>>
          /\ staged' \in {staged, LaunchFile(cache')}
      BY <2>3 DEF StageSave, gameVars, InStep, BusyIsBound, Busy, CacheIsMarks,
                  Typed, TypeOK, Home
    <3>2. cache' = cache
      BY <3>1 DEF EnsureLoaded
    <3>3. Agrees(bound, cache.save, granted)
      BY <3>1 DEF InStep, CacheAgrees
    <3>4. LaunchFile(cache').holds = cache.save.holds
      BY <3>1, <3>2 DEF LaunchFile, Ahead, CacheAhead, FiledUnder
    <3>5. Agrees(bound, LaunchFile(cache'), granted)
      BY <3>3, <3>4, AgreesHolds
    <3>6. RunAgrees'
      BY <1>1, <3>1, <3>5 DEF InStep, RunAgrees, Agrees
    <3>7. BusyIsBound' /\ CacheIsMarks' /\ CacheAgrees'
      BY <1>1, <3>1, <3>2
         DEF InStep, BusyIsBound, CacheIsMarks, CacheAgrees, Agrees
    <3> QED BY <2>1, <3>6, <3>7 DEF InStep
  <2>4. CASE BounceToTitle
    BY <1>1, <2>1, <2>4 DEF BounceToTitle, storeVars, InStep, BusyIsBound, Busy,
        CacheIsMarks, RunAgrees, CacheAgrees, Agrees, Blank
  <2>5. CASE EnterGameplay
    BY <1>1, <2>1, <2>5 DEF EnterGameplay, storeVars, InStep, BusyIsBound, Busy,
        CacheIsMarks, RunAgrees, CacheAgrees, Agrees, Blank
  <2>6. CASE PlayerSpawns \/ WorldDestroyed
    BY <1>1, <2>1, <2>6 DEF PlayerSpawns, WorldDestroyed, storeVars, launchVars,
        InStep, BusyIsBound, Busy, CacheIsMarks, RunAgrees, CacheAgrees, Agrees
  <2>7. CASE ExitToTitle
    <3>1. /\ game = "gameplay" /\ game' = "title"
          /\ Saved /\ live.of = begun /\ bound # NoSession /\ begun = bound
          /\ UNCHANGED <<cache, step, begun, staged>>
          /\ cache.state = granted /\ Agrees(bound, live, granted)
      BY <2>7 DEF ExitToTitle, Calm, storeVars, launchVars, InStep, BusyIsBound,
                  Busy, CacheIsMarks, RunAgrees, Ahead, RunAhead
    <3>2. CacheAgrees'
      BY <3>1 DEF Saved, CacheAgrees, Agrees
    <3>3. BusyIsBound' /\ CacheIsMarks' /\ RunAgrees'
      BY <1>1, <3>1
         DEF InStep, BusyIsBound, Busy, CacheIsMarks, RunAgrees, Agrees
    <3> QED BY <2>1, <3>2, <3>3 DEF InStep
  <2> QED BY <1>1, <2>2, <2>3, <2>4, <2>5, <2>6, <2>7 DEF Launch, World
<1>2. CASE GameSave
  <2>1. /\ game = "gameplay" /\ bound \in Session /\ begun = bound
        /\ cache.key = bound /\ cache \in Cache /\ cache.state = granted
        /\ Agrees(bound, live, granted)
        /\ UNCHANGED <<bound, granted, inFlight, queue, launchVars, game, live>>
    BY <1>2 DEF GameSave, MayFlush, ledgerVars, gameVars, InStep, BusyIsBound,
                Busy, CacheIsMarks, RunAgrees, Typed, TypeOK
  <2>2. /\ cache' = [cache EXCEPT !.save = live]
        /\ \/ disk' = [disk EXCEPT ![bound] =
                          [save |-> live, state |-> cache'.state]]
           \/ UNCHANGED disk
    BY <1>2, <2>1 DEF GameSave, EnsureLoaded
  <2>3. cache'.key = bound /\ cache'.state = granted
    BY <2>1, <2>2 DEF Cache
  <2>4. BusyIsBound' /\ CacheIsMarks' /\ RunAgrees' /\ CacheAgrees'
    BY <2>1, <2>3 DEF launchVars, InStep, BusyIsBound, Busy, CacheIsMarks,
                      RunAgrees, CacheAgrees, Agrees
  <2>5. ASSUME NEW s \in Session
        PROVE  Agrees(s, disk'[s].save, disk'[s].state)
    <3>1. Agrees(s, disk[s].save, disk[s].state)
      BY DEF InStep, DiskPairAgrees
    <3>2. disk \in [Session -> Bundle]
      BY DEF Typed, TypeOK
    <3>3. CASE disk' = disk
      BY <3>1, <3>3
    <3>4. CASE disk' = [disk EXCEPT ![bound] =
                           [save |-> live, state |-> granted]] /\ s = bound
      <4>1. disk'[s].save = live /\ disk'[s].state = granted
        BY <2>1, <3>2, <3>4
      <4> QED BY <2>1, <3>4, <4>1
    <3>5. CASE disk' = [disk EXCEPT ![bound] =
                           [save |-> live, state |-> granted]] /\ s # bound
      <4>1. disk'[s] = disk[s]
        BY <3>2, <3>5
      <4> QED BY <3>1, <4>1
    <3> QED BY <2>2, <2>3, <3>3, <3>4, <3>5
  <2>6. DiskPairAgrees'
    BY <2>5 DEF DiskPairAgrees, Agrees
  <2>7. QueueIsNew'
    BY <2>1 DEF InStep, QueueIsNew, Queued, Tier
  <2> QED BY <2>4, <2>6, <2>7 DEF InStep
<1>3. CASE Crash
  BY <1>3, EmptyQueue DEF Crash, InStep, BusyIsBound, Busy, CacheIsMarks,
      RunAgrees, CacheAgrees, DiskPairAgrees, QueueIsNew, Agrees, Blank
<1>4. CASE Launch \/ World
  <2>1. UNCHANGED <<bound, granted, inFlight, queue, disk>>
    BY <1>4 DEF Launch, World, BeginTakeover, StageSave, BounceToTitle,
        EnterGameplay, PlayerSpawns, WorldDestroyed, ExitToTitle, ledgerVars,
        storeVars
  <2> QED BY <1>1, <1>4, <2>1
<1> QED BY <1>2, <1>3, <1>4

\* Every step of a calm environment keeps the run and the marks in step.
LEMMA InStepNext ==
    ASSUME Calm, Inv, [Next]_vars
    PROVE  InStep'
<1>1. CASE UNCHANGED vars
  BY <1>1 DEF vars, ledgerVars, storeVars, launchVars, gameVars, Inv, InStep,
              BusyIsBound, Busy, CacheIsMarks, RunAgrees, CacheAgrees,
              DiskPairAgrees, QueueIsNew, Agrees
<1> QED BY <1>1, InStepTick, InStepPass, InStepDrain, InStepLaunch DEF Next

\* The inductive invariant holds when the mod loads.
LEMMA InvInit == Init => Inv
<1> SUFFICES ASSUME Init PROVE Inv
  OBVIOUS
<1>1. InStep
  BY EmptyQueue DEF Init, InStep, BusyIsBound, Busy, CacheIsMarks, RunAgrees,
      CacheAgrees, DiskPairAgrees, QueueIsNew, Agrees, Blank
<1>2. InFlightIsQueued
  BY EmptyQueue DEF Init, InFlightIsQueued
<1> QED BY <1>1, <1>2, TypedInit, AheadInit DEF Inv

\* Every step of a calm environment keeps the inductive invariant.
LEMMA InvNext == Calm /\ Inv /\ [Next]_vars => Inv'
BY TypedNext, AheadNext, QueueNext, InStepNext DEF Inv

\* In a calm environment the inductive invariant holds in every state.
LEMMA InvAlways == Calm => (Spec => []Inv)
<1> SUFFICES ASSUME Calm PROVE Spec => []Inv
  OBVIOUS
<1>1. Inv /\ [Next]_vars => Inv'
  BY InvNext
<1> QED BY <1>1, InvInit, PTL DEF Spec

\* If the player saves before leaving gameplay and changes session only
\* between runs, every container pairs a run with exactly its own marks, in
\* spite of reconnects, failed writes and crashes at any step.
THEOREM ContainersAgree == Calm => (Spec => []DiskPairAgrees)
<1>1. Inv => DiskPairAgrees
  BY DEF Inv, InStep
<1> QED BY <1>1, InvAlways, PTL

\* Under the same conditions no receipt is ever queued for a run that holds
\* it, and every receipt the run holds is one the granter will not offer.
THEOREM AppliedOnce == Calm => (Spec => []NeverAppliedTwice)
<1>1. ASSUME Inv PROVE NeverAppliedTwice
  <2> USE <1>1, InboundGrantsAssumption DEF Inv
  <2>1. CASE game # "gameplay"
    BY <2>1 DEF NeverAppliedTwice, Ahead, RunAhead, Blank
  <2>2. CASE game = "gameplay"
    <3>1. live.holds = {<<bound, i>> : i \in {j \in granted : InRun(bound, j)}}
      BY <2>2 DEF InStep, RunAgrees, Agrees
    <3>2. ASSUME NEW q \in Range(queue) PROVE q \notin live.holds
      <4>1. q[2] \in inFlight
        BY DEF InFlightIsQueued, Receipts
      <4>2. q[2] \notin granted
        BY <4>1 DEF InStep, QueueIsNew
      <4> QED BY <3>1, <4>2
    <3>3. ASSUME NEW i, <<bound, i>> \in live.holds PROVE Handled(i)
      BY <3>1, <3>3 DEF Handled
    <3> QED BY <3>2, <3>3 DEF NeverAppliedTwice
  <2> QED BY <2>1, <2>2
<1> QED BY <1>1, InvAlways, PTL

-----------------------------------------------------------------------------
(***************************************************************************)
(* The order of the tiers.  The granter walks the stream from its start on *)
(* every pass, so a tier is only offered with all those below it handled;  *)
(* and the queue is applied whole.  None of this asks anything of the      *)
(* environment, for marks; that the run has what the marks say does.       *)
(***************************************************************************)
\* Every tier below one the ids hand out is in all.
Below(s, ids, all) ==
    \A i \in ids : \A j \in 1..(i - 1) :
        Stream[s][i] = "tiered" /\ Queued(s, i) /\ Stream[s][j] = "tiered" => j \in all

Ordered(s, marks) == Below(s, marks, marks)

\* What the pass has left behind is handled.
PassOrder ==
    pc = "pass" => \A j \in 1..(cursor - 1) : Stream[bound][j] = "tiered" => Handled(j)

InOrder ==
    /\ \A s \in Session : Ordered(s, disk[s].state)
    /\ cache.key # NoSession => Ordered(cache.key, cache.state)
    /\ bound # NoSession => /\ Ordered(bound, granted)
                            /\ Below(bound, inFlight, granted \cup inFlight)
    /\ PassOrder

\* A container read into the cache is as ordered as it was.
LEMMA LoadOrdered ==
    ASSUME Typed, InOrder, NEW s \in Session
    PROVE  EnsureLoaded(s).key = s /\ Ordered(s, EnsureLoaded(s).state)
<1>1. cache \in Cache /\ s # NoSession
  BY InboundGrantsAssumption DEF Typed, TypeOK
<1> QED BY <1>1 DEF EnsureLoaded, InOrder

\* The marks of a step, staged into the cache.
LEMMA StagedOrdered ==
    ASSUME Typed, InOrder, bound \in Session, NEW marks \in SUBSET Receipt,
           Ordered(bound, marks)
    PROVE  /\ StageState(bound, marks).key = bound
           /\ StageState(bound, marks).state = marks
<1>1. EnsureLoaded(bound) \in Cache /\ EnsureLoaded(bound).key = bound
  BY EnsureLoadedType DEF Typed, TypeOK
<1> QED BY <1>1 DEF StageState, Cache

LEMMA InOrderTick ==
    ASSUME Typed, InOrder, TickBegin \/ Net \/ HooksTick
    PROVE  InOrder'
<1>1. ASSUME UNCHANGED <<bound, granted, inFlight, cache, disk>>, pc' # "pass"
      PROVE  InOrder'
  BY <1>1 DEF InOrder, PassOrder, Ordered, Below, Queued, Tier
<1>2. CASE TickBegin \/ Connected \/ Disconnected \/ ItemReceived
  BY <1>1, <1>2 DEF TickBegin, Connected, Disconnected, ItemReceived, ledgerVars,
                    storeVars, tickVars
<1>3. ASSUME NEW s \in Session, SessionEnded(s)
      PROVE  InOrder'
  <2>1. bound' = NoSession /\ pc' = "net" /\ UNCHANGED <<cache, disk>>
    BY <1>3 DEF SessionEnded, ReleaseInbound, storeVars, tickVars
  <2> QED BY <2>1 DEF InOrder, PassOrder, Ordered, Below, Queued, Tier
<1>4. CASE HooksTick
  <2>1. disk' = disk /\ (pc' = "pass" => cursor' = 1)
    BY <1>4 DEF HooksTick
  <2>2. PassOrder'
    BY <2>1 DEF PassOrder
  <2>3. CASE bound # NoSession \/ ~authed
    <3>1. UNCHANGED <<bound, granted, inFlight, cache>>
      BY <1>4, <2>3 DEF HooksTick, EnsureInboundReady
    <3> QED BY <2>1, <2>2, <3>1 DEF InOrder, Ordered, Below, Queued, Tier
  <2>4. CASE ~(bound # NoSession \/ ~authed)
    <3>1. /\ bound' = identity /\ identity \in Session
          /\ cache' = EnsureLoaded(identity)
          /\ granted' = cache'.state /\ inFlight' = {}
      BY <1>4, <2>4 DEF HooksTick, EnsureInboundReady, Typed, TypeOK, Home
    <3>2. cache'.key = identity /\ Ordered(identity, granted')
      BY <3>1, LoadOrdered
    <3>3. Below(identity, {}, granted')
      BY DEF Below
    <3> QED BY <2>1, <2>2, <3>1, <3>2, <3>3 DEF InOrder, Ordered, Below, Queued, Tier
  <2> QED BY <2>3, <2>4
<1> QED BY <1>2, <1>3, <1>4 DEF Net

LEMMA InOrderPass ==
    ASSUME Typed, InOrder, Pass
    PROVE  InOrder'
<1>0. /\ pc = "pass" /\ bound \in Session /\ session = bound /\ bound' = bound
      /\ disk' = disk /\ cursor \in Receipt
      /\ granted \in SUBSET Receipt /\ inFlight \in SUBSET Receipt
  BY DEF Pass, SkipReceipt, OfferReceipt, CreditKear, ConsumeReceipt, StallPass, PassDone,
         Pending, AtReceipt, Typed, TypeOK, Home, ledgerVars, storeVars
<1>1. /\ \A s \in Session : Ordered(s, disk[s].state)
      /\ cache.key # NoSession => Ordered(cache.key, cache.state)
      /\ Ordered(bound, granted) /\ Below(bound, inFlight, granted \cup inFlight)
      /\ \A j \in 1..(cursor - 1) : Stream[bound][j] = "tiered" => j \in granted \cup inFlight
  BY <1>0, InboundGrantsAssumption DEF InOrder, PassOrder, Handled
<1>2. CASE StallPass \/ PassDone
  <2>1. UNCHANGED <<granted, inFlight, cache>> /\ pc' = "idle"
    BY <1>2 DEF StallPass, PassDone, EndPass, ledgerVars, storeVars
  <2> QED BY <1>0, <1>1, <2>1 DEF InOrder, PassOrder, Ordered, Below, Queued, Tier
\* What the next receipt finds behind it.
<1>3. ASSUME cursor' = cursor + 1,
             Stream[bound][cursor] = "tiered" => cursor \in granted' \cup inFlight',
             granted \subseteq granted', inFlight \subseteq inFlight'
      PROVE  PassOrder'
  <2>1. ASSUME NEW j \in 1..(cursor' - 1), Stream[bound][j] = "tiered"
        PROVE  j \in granted' \cup inFlight'
    <3>1. j = cursor \/ j \in 1..(cursor - 1)
      BY <1>0, <1>3, <2>1 DEF Receipt
    <3> QED BY <1>1, <1>3, <2>1, <3>1
  <2> QED BY <1>0, <2>1 DEF PassOrder, Handled
<1>4. CASE SkipReceipt
  <2>1. /\ UNCHANGED <<granted, inFlight, cache>> /\ cursor' = cursor + 1
        /\ Stream[bound][cursor] = "tiered" => cursor \in granted' \cup inFlight'
    BY <1>0, <1>4 DEF SkipReceipt, Kind, Handled, NextReceipt, ledgerVars, storeVars
  <2>2. PassOrder'
    BY <1>3, <2>1
  <2> QED BY <1>0, <1>1, <2>1, <2>2 DEF InOrder, Ordered, Below, Queued, Tier
<1>5. CASE OfferReceipt
  <2>1. /\ UNCHANGED <<granted, cache>> /\ cursor' = cursor + 1
        /\ inFlight' = inFlight \cup {cursor}
    BY <1>5 DEF OfferReceipt, NextReceipt, storeVars
  <2>2. PassOrder'
    BY <1>3, <2>1
  <2>3. Below(bound, inFlight', granted \cup inFlight')
    BY <1>1, <2>1 DEF Below
  <2> QED BY <1>0, <1>1, <2>1, <2>2, <2>3 DEF InOrder, Ordered, Below, Queued, Tier
\* A receipt marked on the spot is no tier the run gets.
<1>6. ASSUME Mark(cursor), cursor' = cursor + 1, inFlight' = inFlight,
             ~(Stream[bound][cursor] = "tiered" /\ Queued(bound, cursor))
      PROVE  InOrder'
  <2>1. granted' = granted \cup {cursor} /\ cache' = StageState(bound, granted')
    BY <1>6 DEF Mark
  <2>2. PassOrder'
    BY <1>3, <1>6, <2>1
  <2>3. Ordered(bound, granted') /\ Below(bound, inFlight, granted' \cup inFlight)
    BY <1>1, <1>6, <2>1 DEF Ordered, Below
  <2>4. granted' \in SUBSET Receipt
    BY <1>0, <2>1
  <2>5. cache'.key = bound /\ cache'.state = granted'
    BY <1>0, <2>1, <2>3, <2>4, StagedOrdered
  <2> QED BY <1>0, <1>1, <1>6, <2>2, <2>3, <2>5 DEF InOrder, Ordered, Below, Queued, Tier
<1>7. CASE CreditKear
  BY <1>0, <1>6, <1>7 DEF CreditKear, Kind, NextReceipt
<1>8. CASE ConsumeReceipt
  <2>1. ~(Stream[bound][cursor] = "tiered" /\ Queued(bound, cursor))
    <3>1. Tier(bound, cursor) \in Nat
      BY <1>0, TierType DEF Receipt
    <3>2. Stream[bound][cursor] = "tiered" => Tier(bound, cursor) > MaxTier
      BY <1>0, <1>8 DEF ConsumeReceipt, Kind
    <3> QED BY <3>1, <3>2, InboundGrantsAssumption DEF Queued
  <2> QED BY <1>0, <1>6, <1>8, <2>1 DEF ConsumeReceipt, NextReceipt
<1> QED BY <1>2, <1>4, <1>5, <1>7, <1>8 DEF Pass

LEMMA InOrderRest ==
    ASSUME Typed, InOrder, InFlightIsQueued,
           DrainGrants \/ GameSave \/ Launch \/ World \/ Crash
    PROVE  InOrder'
<1>1. CASE DrainGrants
  <2>1. /\ bound \in Session /\ bound' = bound /\ disk' = disk /\ pc' # "pass"
        /\ granted' = granted \cup inFlight /\ inFlight' = {}
        /\ cache' = StageState(bound, granted')
    BY <1>1, EmptyQueue
       DEF DrainGrants, OnApplied, InFlightIsQueued, Typed, TypeOK, Home, tickVars
  <2>2. Ordered(bound, granted')
    BY <2>1, InboundGrantsAssumption DEF InOrder, Ordered, Below
  <2>3. granted' \in SUBSET Receipt
    BY <2>1 DEF Typed, TypeOK
  <2>4. cache'.key = bound /\ cache'.state = granted'
    BY <2>1, <2>2, <2>3, StagedOrdered
  <2>5. \A s \in Session : Ordered(s, disk'[s].state)
    BY <2>1 DEF InOrder
  <2>6. Ordered(cache'.key, cache'.state)
    BY <2>2, <2>4
  <2>7. Below(bound, inFlight', granted' \cup inFlight')
    BY <2>1 DEF Below
  <2>8. pc' # "pass" /\ bound' = bound
    BY <2>1
  <2> QED BY <2>2, <2>5, <2>6, <2>7, <2>8
          DEF InOrder, PassOrder, Ordered, Below, Queued, Tier
<1>2. CASE GameSave
  <2>1. /\ begun \in Session /\ cache' = [EnsureLoaded(begun) EXCEPT !.save = live]
        /\ \/ disk' = [disk EXCEPT ![begun] = [save |-> live, state |-> cache'.state]]
           \/ disk' = disk
        /\ UNCHANGED <<bound, granted, inFlight>> /\ pc' # "pass"
    BY <1>2 DEF GameSave, MayFlush, Typed, TypeOK, Home, ledgerVars, tickVars
  <2>2. EnsureLoaded(begun) \in Cache
    BY <2>1, EnsureLoadedType DEF Typed, TypeOK
  <2>3. cache'.key = begun /\ Ordered(begun, cache'.state)
    <3>1. cache'.key = EnsureLoaded(begun).key /\ cache'.state = EnsureLoaded(begun).state
      BY <2>1, <2>2 DEF Cache
    <3> QED BY <2>1, <3>1, LoadOrdered
  <2>4. \A s \in Session : Ordered(s, disk'[s].state)
    <3>1. disk \in [Session -> Bundle]
      BY DEF Typed, TypeOK
    <3>2. \A s \in Session : \/ disk'[s].state = disk[s].state
                             \/ s = begun /\ disk'[s].state = cache'.state
      BY <2>1, <3>1
    <3> QED BY <2>3, <3>2 DEF InOrder
  <2> QED BY <2>1, <2>3, <2>4 DEF InOrder, PassOrder, Ordered, Below, Queued, Tier
<1>3. CASE StageSave
  <2>1. /\ begun \in Session /\ cache' = EnsureLoaded(begun)
        /\ UNCHANGED <<bound, granted, inFlight, disk>> /\ pc' # "pass"
    BY <1>3 DEF StageSave, Typed, TypeOK, Home, ledgerVars, tickVars
  <2>2. cache'.key = begun /\ Ordered(begun, cache'.state)
    BY <2>1, LoadOrdered
  <2> QED BY <2>1, <2>2 DEF InOrder, PassOrder, Ordered, Below, Queued, Tier
<1>4. CASE BeginTakeover \/ BounceToTitle \/ EnterGameplay \/ World
  <2>1. UNCHANGED <<bound, granted, inFlight, cache, disk>> /\ pc' # "pass"
    BY <1>4 DEF BeginTakeover, BounceToTitle, EnterGameplay, World, PlayerSpawns,
                WorldDestroyed, ExitToTitle, ledgerVars, storeVars, tickVars
  <2> QED BY <2>1 DEF InOrder, PassOrder, Ordered, Below, Queued, Tier
<1>5. CASE Crash
  <2>1. bound' = NoSession /\ cache'.key = NoSession /\ disk' = disk /\ pc' # "pass"
    BY <1>5 DEF Crash
  <2> QED BY <2>1 DEF InOrder, PassOrder, Ordered, Below, Queued, Tier
<1> QED BY <1>1, <1>2, <1>3, <1>4, <1>5 DEF Launch

\* No mark of a tier is ever without those of the tiers below it, in memory or in
\* a container, in any environment.
LEMMA InOrderAlways == Spec => []InOrder
<1>1. Init => InOrder
  BY DEF Init, InOrder, PassOrder, Ordered, Below
<1>2. Typed /\ InFlightIsQueued /\ InOrder /\ [Next]_vars => InOrder'
  <2> SUFFICES ASSUME Typed, InFlightIsQueued, InOrder, [Next]_vars PROVE InOrder'
    OBVIOUS
  <2>1. CASE UNCHANGED vars
    BY <2>1 DEF vars, ledgerVars, storeVars, tickVars, InOrder, PassOrder, Ordered, Below,
                Queued, Tier, Handled
  <2> QED BY <2>1, InOrderTick, InOrderPass, InOrderRest DEF Next
<1>3. Spec => []Typed
  BY TypedInit, TypedNext, PTL DEF Spec
<1> QED BY <1>1, <1>2, <1>3, QueueCoherent, PTL DEF Spec

\* The tiers below one within reach are within reach.
LEMMA TierGrows ==
    ASSUME NEW s, NEW i \in Nat, NEW j \in 1..i
    PROVE  Tier(s, j) <= Tier(s, i)
<1> DEFINE low  == {k \in 1..j : Stream[s][k] = "tiered"}
           high == {k \in 1..i : Stream[s][k] = "tiered"}
<1>1. IsFiniteSet(1..i)
  BY FS_Interval
<1>2. low \subseteq high /\ high \subseteq 1..i
  OBVIOUS
<1>3. IsFiniteSet(high)
  BY <1>1, <1>2, FS_Subset
<1> QED BY <1>2, <1>3, FS_Subset DEF Tier

\* In a calm environment a run never holds the second tier of a weapon, a rod or a
\* map without the first, however the grants were cut up by disconnects, stalls,
\* failed writes and crashes.
THEOREM TiersComeInOrder == Calm => (Spec => []TiersInOrder)
<1> SUFFICES ASSUME Calm PROVE Spec => []TiersInOrder
  OBVIOUS
<1>1. ASSUME Inv, InOrder,
             NEW s \in Session, NEW i \in 1..Len(Stream[s]), NEW j \in 1..Len(Stream[s]),
             j < i, Stream[s][i] = "tiered", Stream[s][j] = "tiered",
             <<s, i>> \in live.holds
      PROVE  <<s, j>> \in live.holds
  <2>1. game = "gameplay" /\ bound # NoSession
    BY <1>1, InboundGrantsAssumption
       DEF Inv, Ahead, RunAhead, Blank, InStep, BusyIsBound, Busy
  <2>2. live.holds = {<<bound, k>> : k \in {m \in granted : InRun(bound, m)}}
    BY <1>1, <2>1 DEF Inv, InStep, RunAgrees, Agrees
  <2>3. s = bound /\ i \in granted /\ InRun(s, i)
    BY <1>1, <2>2
  <2>4. i \in Nat /\ j \in 1..(i - 1) /\ j \in 1..i /\ j \in Nat
    BY <1>1
  <2>5. Queued(s, i) /\ Tier(s, i) <= MaxTier
    BY <1>1, <2>3 DEF InRun, Queued
  <2>6. j \in granted
    BY <1>1, <2>1, <2>3, <2>4, <2>5 DEF InOrder, Ordered, Below
  <2>7. Tier(s, j) <= MaxTier
    <3>1. Tier(s, j) <= Tier(s, i)
      BY <2>4, TierGrows
    <3> QED BY <2>4, <2>5, <3>1, TierType, InboundGrantsAssumption
  <2>8. InRun(s, j)
    BY <1>1, <2>7 DEF InRun, Queued
  <2> QED BY <2>2, <2>3, <2>6, <2>8
<1>2. Inv /\ InOrder => TiersInOrder
  BY <1>1 DEF TiersInOrder
<1> QED BY <1>2, InvAlways, InOrderAlways, PTL
=============================================================================
