--------------------------- MODULE InboundGrants ---------------------------
(***************************************************************************)
(* How an item the multiworld server sends becomes part of the player's    *)
(* run, exactly once, across disconnects, menu trips, failed writes and    *)
(* crashes.                                                                *)
(*                                                                         *)
(* Three copies of "what was handed out" have to stay in step:             *)
(*   live    the game's working save slot (what the player really holds)   *)
(*   granted ApSaveState in memory (which receipts are marked)             *)
(*   disk    the container, which pairs one game save with one AP state    *)
(* The receipt numbers are positions in the stream the server sends to one *)
(* session, a (seed, slot) pair.                                           *)
(*                                                                         *)
(* Everything here runs on the game thread, in three handlers:             *)
(*   drive_tick    pc goes idle -> net -> pass -> idle                     *)
(*   drain_grants  the World::Update window                                *)
(*   the game's own save request, its menus and its world                  *)
(* A crash can happen between any two steps.                               *)
(***************************************************************************)
EXTENDS Naturals, Sequences, FiniteSets, Functions

CONSTANTS
    Session,      \* the (seed, slot) pairs the player may connect to
    NoSession,    \* stands for the empty identity
    Stream,       \* Stream[s]: the kinds of the items the server sends to s
    MaxTier,      \* tiers a progressive family has
    QuitUnsaved,  \* the player can leave gameplay with unsaved progress
    SwitchMidRun  \* another session can authenticate under a live run

Kinds == {"item",    \* an ordinary itemType
          "tiered",  \* a progressive weapon, fishing rod or map
          "kear",    \* a Universal Kear in vanilla kear mode
          "void",    \* an itemType the granter acks without applying
          "trap",    \* a cosmetic modifier, no trace in the save
          "other"}   \* stat caps, capacities: applied elsewhere

ASSUME InboundGrantsAssumption ==
    /\ NoSession \notin Session
    /\ Stream \in [Session -> Seq(Kinds)]
    /\ MaxTier \in Nat
    /\ QuitUnsaved \in BOOLEAN
    /\ SwitchMidRun \in BOOLEAN

VARIABLES
    session,   \* the session whose stream ApState holds
    authed,    \* ApState::authenticated
    identity,  \* ApState's seed and slot, set by the last ApConnected
    recvd,     \* how many items of the stream have been received
    bound,     \* the session of save_state_ and the granter, if built
    granted,   \* ApSaveState::granted_
    inFlight,  \* InboundGranter::in_flight_
    queue,     \* g_pending, each entry <<session it came from, receipt>>
    cache,     \* ApSaveBundleStore::cache_
    disk,      \* the container of each session
    step,      \* SaveTakeover::step_
    begun,     \* SaveTakeover's seed_ and slot_
    staged,    \* the vanilla slot file the launch will copy, if any
    game,      \* the game state
    player,    \* the Player object: absent, present, or with a position
    live,      \* the working save slot
    pc,        \* where drive_tick is
    cursor     \* the receipt the granter's pass looks at

netVars    == <<session, authed, identity, recvd>>
ledgerVars == <<bound, granted, inFlight, queue>>
storeVars  == <<cache, disk>>
launchVars == <<step, begun, staged>>
gameVars   == <<game, player, live>>
tickVars   == <<pc, cursor>>
vars == <<netVars, ledgerVars, storeVars, launchVars, gameVars, tickVars>>

Receipt == Nat \ {0}

\* A game save: the session it was launched for and the receipts it holds.
Save  == [of : Session \cup {NoSession}, holds : SUBSET (Session \X Receipt)]
Blank == [of |-> NoSession, holds |-> {}]

\* A container, and the cached one with the session it belongs to.
Bundle == [save : Save, state : SUBSET Receipt]
Cache  == [key : Session \cup {NoSession}, save : Save, state : SUBSET Receipt]

-----------------------------------------------------------------------------
(***************************************************************************)
(* The stream.                                                             *)
(***************************************************************************)
\* The Nth receipt of a progressive family grants its Nth tier.
Tier(s, i) == Cardinality({j \in 1..i : Stream[s][j] = "tiered"})

\* Receipts that go through the granter's queue.
Queued(s, i) == \/ Stream[s][i] = "item"
                \/ Stream[s][i] = "tiered" /\ Tier(s, i) <= MaxTier

\* Receipts that leave a trace in the game save.
InRun(s, i) == Queued(s, i) \/ Stream[s][i] = "kear"

\* A receipt that needs no more work: marked, or on its way.
Handled(i) == i \in granted \cup inFlight

-----------------------------------------------------------------------------
(***************************************************************************)
(* The container store, as the game thread sees it.  One container is      *)
(* cached; touching another session reloads the cache from its file and    *)
(* drops what was staged and never committed.                              *)
(***************************************************************************)
\* Seeded fault: the reload keeps the staged state of the previous session.
EnsureLoadedKeepsState(s) ==
    IF cache.key = s THEN cache
    ELSE [key |-> s, save |-> disk[s].save, state |-> cache.state]

EnsureLoaded(s) ==
    IF cache.key = s THEN cache
    ELSE [key |-> s, save |-> disk[s].save, state |-> disk[s].state]

\* stage_state: into memory only.
StageState(s, marks) == [EnsureLoaded(s) EXCEPT !.state = marks]

\* Record receipt i as granted and stage the new state.
Mark(i) ==
    /\ granted' = granted \cup {i}
    /\ cache' = StageState(bound, granted')

-----------------------------------------------------------------------------
Init ==
    /\ session = NoSession /\ authed = FALSE
    /\ identity = NoSession /\ recvd = 0
    /\ bound = NoSession /\ granted = {} /\ inFlight = {} /\ queue = <<>>
    /\ cache = [key |-> NoSession, save |-> Blank, state |-> {}]
    /\ disk = [s \in Session |-> [save |-> Blank, state |-> {}]]
    /\ step = "Idle" /\ begun = NoSession /\ staged = Blank
    /\ game = "title" /\ player = "none" /\ live = Blank
    /\ pc = "idle" /\ cursor = 0

-----------------------------------------------------------------------------
(***************************************************************************)
(* drive_tick, first part: net_->tick drains the link's events.            *)
(***************************************************************************)
TickBegin ==
    /\ pc = "idle"
    /\ pc' = "net"
    /\ UNCHANGED <<cursor, netVars, ledgerVars, storeVars, launchVars, gameVars>>

\* When another session may authenticate: always, or with no run under way.
MaySwitch ==
    \/ SwitchMidRun
    \/ session = NoSession
    \/ game = "title" /\ step \in {"Idle", "Running", "Failed"}

\* Seeded fault: the granter is released but its queue is not discarded.
ReleaseInboundKeepsQueue ==
    /\ bound' = NoSession
    /\ granted' = {}
    /\ inFlight' = {}
    /\ UNCHANGED queue

ReleaseInbound ==
    /\ bound' = NoSession
    /\ granted' = {}
    /\ inFlight' = {}
    /\ queue' = <<>>

\* A different (seed, slot) authenticated: drop the previous session.
SessionEnded(s) ==
    /\ pc = "net" /\ ~authed /\ s # session /\ MaySwitch
    /\ session' = s
    /\ recvd' = 0
    /\ ReleaseInbound
    /\ UNCHANGED <<authed, identity, storeVars, launchVars, gameVars, tickVars>>

Connected ==
    /\ pc = "net" /\ ~authed /\ session # NoSession
    /\ authed' = TRUE
    /\ identity' = session
    /\ UNCHANGED <<session, recvd, ledgerVars, storeVars, launchVars,
                   gameVars, tickVars>>

Disconnected ==
    /\ pc = "net" /\ authed
    /\ authed' = FALSE
    /\ UNCHANGED <<session, identity, recvd, ledgerVars, storeVars, launchVars,
                   gameVars, tickVars>>

\* Seeded fault: an item the server sends again is appended again.
ItemReceivedAgain ==
    /\ pc = "net" /\ authed
    /\ recvd' = recvd + 1
    /\ UNCHANGED <<session, authed, identity, ledgerVars, storeVars, launchVars,
                   gameVars, tickVars>>

\* An item the server sends again, after a reconnect, is dropped on its index.
ItemReceived ==
    /\ pc = "net" /\ authed /\ recvd < Len(Stream[session])
    /\ recvd' = recvd + 1
    /\ UNCHANGED <<session, authed, identity, ledgerVars, storeVars, launchVars,
                   gameVars, tickVars>>

-----------------------------------------------------------------------------
(***************************************************************************)
(* drive_tick, second part: the takeover advances, then the save state and *)
(* the granter are built on the first authenticated tick.                  *)
(***************************************************************************)
TakeoverTick ==
    \/ /\ step = "Launching" /\ game = "gameplay"
       /\ step' = "Running"
    \/ \* the wait ran past kMaxFramesPerStep, or the save api dropped
       /\ step \in {"AwaitingMenu", "Launching"}
       /\ step' = "Failed"
    \/ /\ ~(step = "Launching" /\ game = "gameplay")
       /\ UNCHANGED step

\* Seeded fault: the save state is created without loading the container.
EnsureInboundReadyUnloaded ==
    IF bound # NoSession \/ ~authed
    THEN UNCHANGED <<bound, granted, inFlight, cache>>
    ELSE /\ bound' = identity
         /\ cache' = EnsureLoaded(identity)
         /\ granted' = {}
         /\ inFlight' = {}

EnsureInboundReady ==
    IF bound # NoSession \/ ~authed
    THEN UNCHANGED <<bound, granted, inFlight, cache>>
    ELSE /\ bound' = identity
         /\ cache' = EnsureLoaded(identity)
         /\ granted' = cache'.state
         /\ inFlight' = {}

HooksTick ==
    /\ pc = "net"
    /\ TakeoverTick
    /\ EnsureInboundReady
    /\ IF bound' = NoSession
       THEN pc' = "idle" /\ cursor' = 0
       ELSE pc' = "pass" /\ cursor' = 1
    /\ UNCHANGED <<netVars, queue, disk, begun, staged, gameVars>>

-----------------------------------------------------------------------------
(***************************************************************************)
(* drive_tick, third part: InboundGranter::tick walks every receipt, one   *)
(* action per branch of its loop.                                          *)
(***************************************************************************)
AtReceipt == pc = "pass" /\ cursor <= recvd
Kind      == Stream[session][cursor]
Pending   == AtReceipt /\ ~Handled(cursor)
NextReceipt == cursor' = cursor + 1 /\ UNCHANGED pc
EndPass     == cursor' = 0 /\ pc' = "idle"

\* Handled, not granted on this path, or a trap that cannot arm yet: a
\* stalled trap does not hold up the receipts behind it.
SkipReceipt ==
    /\ AtReceipt
    /\ Handled(cursor) \/ Kind \in {"other", "trap"}
    /\ NextReceipt
    /\ UNCHANGED <<netVars, ledgerVars, storeVars, launchVars, gameVars>>

\* Seeded fault: the receipt is marked when it is accepted, not when applied.
OfferReceiptMarks ==
    /\ Pending /\ Queued(session, cursor) /\ player # "none"
    /\ inFlight' = inFlight \cup {cursor}
    /\ queue' = Append(queue, <<session, cursor>>)
    /\ Mark(cursor)
    /\ NextReceipt
    /\ UNCHANGED <<netVars, bound, disk, launchVars, gameVars>>

\* The granter accepts the receipt and queues it for World::Update.
OfferReceipt ==
    /\ Pending /\ Queued(session, cursor) /\ player # "none"
    /\ inFlight' = inFlight \cup {cursor}
    /\ queue' = Append(queue, <<session, cursor>>)
    /\ NextReceipt
    /\ UNCHANGED <<netVars, bound, granted, storeVars, launchVars, gameVars>>

\* A vanilla kear is applied and marked on the spot.
CreditKear ==
    /\ Pending /\ Kind = "kear" /\ player # "none"
    /\ live' = [live EXCEPT !.holds = @ \cup {<<session, cursor>>}]
    /\ Mark(cursor)
    /\ NextReceipt
    /\ UNCHANGED <<netVars, bound, inFlight, queue, disk, launchVars, game, player>>

\* Marked without touching the run: an itemType the granter refuses, a tier
\* beyond the last one, a trap that armed or was skipped.
ConsumeReceipt ==
    /\ Pending
    /\ \/ Kind = "void" /\ player # "none"
       \/ Kind = "tiered" /\ Tier(session, cursor) > MaxTier
       \/ Kind = "trap" /\ game = "gameplay"
    /\ Mark(cursor)
    /\ NextReceipt
    /\ UNCHANGED <<netVars, bound, inFlight, queue, disk, launchVars, gameVars>>

\* Seeded fault: a trap that cannot arm ends the pass like the other kinds.
StallPassOnTrap ==
    /\ Pending
    /\ \/ player = "none" /\ (InRun(session, cursor) \/ Kind = "void")
       \/ Kind = "trap"
    /\ EndPass
    /\ UNCHANGED <<netVars, ledgerVars, storeVars, launchVars, gameVars>>

\* The granter is not available: stop here, so that order is kept, and retry
\* the whole walk next tick.
StallPass ==
    /\ Pending /\ player = "none"
    /\ InRun(session, cursor) \/ Kind = "void"
    /\ EndPass
    /\ UNCHANGED <<netVars, ledgerVars, storeVars, launchVars, gameVars>>

PassDone ==
    /\ pc = "pass" /\ cursor > recvd
    /\ EndPass
    /\ UNCHANGED <<netVars, ledgerVars, storeVars, launchVars, gameVars>>

Pass == \/ SkipReceipt \/ OfferReceipt \/ CreditKear
        \/ ConsumeReceipt \/ StallPass \/ PassDone

-----------------------------------------------------------------------------
(***************************************************************************)
(* drain_grants, in World::Update: apply the whole queue and ack each      *)
(* receipt to the granter that is alive.  With no player position the      *)
(* batch goes back to the front of the queue.                              *)
(***************************************************************************)
\* The receipts of a set of queue entries.
Receipts(entries) == {q[2] : q \in entries}

OnApplied ==
    IF bound = NoSession THEN UNCHANGED <<granted, inFlight, cache>>
    ELSE /\ granted' = granted \cup Receipts(Range(queue))
         /\ inFlight' = inFlight \ Receipts(Range(queue))
         /\ cache' = StageState(bound, granted')

DrainGrants ==
    /\ pc = "idle" /\ queue # <<>> /\ player = "ready"
    /\ live' = [live EXCEPT !.holds = @ \cup Range(queue)]
    /\ queue' = <<>>
    /\ OnApplied
    /\ UNCHANGED <<netVars, bound, disk, launchVars, game, player, tickVars>>

-----------------------------------------------------------------------------
(***************************************************************************)
(* The takeover: the mod launches its own save through a scratch slot and  *)
(* commits the container when the game asks to save.                       *)
(***************************************************************************)
\* Start Game on the title screen, allowed only while connected.
BeginTakeover ==
    /\ pc = "idle" /\ game = "title" /\ authed
    /\ game' = "profile"
    /\ IF step \in {"Idle", "Running", "Failed"}
       THEN /\ step' = "AwaitingMenu"
            /\ begun' = identity
            /\ staged' = Blank
       ELSE UNCHANGED launchVars
    /\ UNCHANGED <<netVars, ledgerVars, storeVars, player, live, tickVars>>

\* The save to launch: the cached one, or a new file when there is none.
LaunchFile(c) ==
    IF c.save.of = NoSession THEN [of |-> begun, holds |-> {}] ELSE c.save

StageSave ==
    /\ pc = "idle" /\ game = "profile" /\ step = "AwaitingMenu"
    /\ cache' = EnsureLoaded(begun)
    /\ \/ /\ staged' = LaunchFile(cache')
          /\ step' = "Launching"
       \/ /\ step' = "Failed"
          /\ UNCHANGED staged
    /\ UNCHANGED <<netVars, ledgerVars, disk, begun, gameVars, tickVars>>

\* A takeover that gave up sends the player back to the title.
BounceToTitle ==
    /\ pc = "idle" /\ game = "profile" /\ step = "Failed"
    /\ game' = "title"
    /\ staged' = Blank
    /\ UNCHANGED <<netVars, ledgerVars, storeVars, step, begun, player, live,
                   tickVars>>

\* The game copies the staged file over the working slot.
EnterGameplay ==
    /\ pc = "idle" /\ game = "profile" /\ staged.of # NoSession
    /\ game' = "gameplay"
    /\ live' = staged
    /\ staged' = Blank
    /\ UNCHANGED <<netVars, ledgerVars, storeVars, step, begun, player, tickVars>>

\* Seeded fault: a save request outside gameplay is committed as well.
MayFlushAnywhere == step = "Running" /\ begun = identity

MayFlush == step = "Running" /\ game = "gameplay" /\ begun = identity

\* The game asked to save: commit its blob with the staged state, in one
\* file.  The write may fail, and then only the cache has the new save.
GameSave ==
    /\ pc = "idle" /\ MayFlush
    /\ cache' = [EnsureLoaded(begun) EXCEPT !.save = live]
    /\ \/ disk' = [disk EXCEPT ![begun] = [save |-> live, state |-> cache'.state]]
       \/ UNCHANGED disk
    /\ UNCHANGED <<netVars, ledgerVars, launchVars, gameVars, tickVars>>

-----------------------------------------------------------------------------
(***************************************************************************)
(* The game around the mod.                                                *)
(***************************************************************************)
PlayerSpawns ==
    /\ pc = "idle" /\ game = "gameplay"
    /\ \/ player = "none" /\ player' = "spawning"
       \/ player = "spawning" /\ player' = "ready"
    /\ UNCHANGED <<netVars, ledgerVars, storeVars, launchVars, game, live, tickVars>>

WorldDestroyed ==
    /\ pc = "idle" /\ player # "none"
    /\ player' = "none"
    /\ UNCHANGED <<netVars, ledgerVars, storeVars, launchVars, game, live, tickVars>>

\* Whether the last save request captured the run as it is now.
Saved == cache.key = live.of /\ cache.save = live

\* Returning to the title clears the working slot.
ExitToTitle ==
    /\ pc = "idle" /\ game = "gameplay"
    /\ QuitUnsaved \/ Saved
    /\ game' = "title"
    /\ player' = "none"
    /\ live' = Blank
    /\ UNCHANGED <<netVars, ledgerVars, storeVars, launchVars, tickVars>>

\* The process ends, at any step: only the containers survive.
Crash ==
    /\ session' = NoSession /\ authed' = FALSE
    /\ identity' = NoSession /\ recvd' = 0
    /\ bound' = NoSession /\ granted' = {} /\ inFlight' = {} /\ queue' = <<>>
    /\ cache' = [key |-> NoSession, save |-> Blank, state |-> {}]
    /\ step' = "Idle" /\ begun' = NoSession /\ staged' = Blank
    /\ game' = "title" /\ player' = "none" /\ live' = Blank
    /\ pc' = "idle" /\ cursor' = 0
    /\ UNCHANGED disk

-----------------------------------------------------------------------------
Net == \/ \E s \in Session : SessionEnded(s)
       \/ Connected \/ Disconnected \/ ItemReceived

Launch == BeginTakeover \/ StageSave \/ BounceToTitle \/ EnterGameplay

World == PlayerSpawns \/ WorldDestroyed \/ ExitToTitle

Next == \/ TickBegin \/ Net \/ HooksTick \/ Pass
        \/ DrainGrants \/ GameSave \/ Launch \/ World \/ Crash

Spec == Init /\ [][Next]_vars

\* The game calls FixedUpdate and World::Update over and over; World::Update
\* only ever runs between two ticks, hence the strong form.  Nothing is
\* assumed of the network, of the player's choices, of saves or of crashes.
Fairness ==
    /\ WF_vars(TickBegin) /\ WF_vars(HooksTick) /\ WF_vars(Pass)
    /\ SF_vars(DrainGrants)

LiveSpec == Spec /\ Fairness

-----------------------------------------------------------------------------
(***************************************************************************)
(* Properties.                                                             *)
(***************************************************************************)
\* Every variable stays in its type.
TypeOK ==
    /\ session \in Session \cup {NoSession}
    /\ authed \in BOOLEAN
    /\ identity \in Session \cup {NoSession}
    /\ recvd \in Nat
    /\ session # NoSession => recvd <= Len(Stream[session])
    /\ bound \in Session \cup {NoSession}
    /\ granted \in SUBSET Receipt
    /\ inFlight \in SUBSET Receipt
    /\ queue \in Seq(Session \X Receipt)
    /\ cache \in Cache
    /\ disk \in [Session -> Bundle]
    /\ step \in {"Idle", "AwaitingMenu", "Launching", "Running", "Failed"}
    /\ begun \in Session \cup {NoSession}
    /\ staged \in Save
    /\ game \in {"title", "profile", "gameplay"}
    /\ player \in {"none", "spawning", "ready"}
    /\ live \in Save
    /\ pc \in {"idle", "net", "pass"}
    /\ cursor \in Nat

\* The receipts the granter believes in flight are exactly the ones queued for
\* the session it serves, each queued once: none is stuck in flight with
\* nothing left to ack it, and none of an earlier session is still queued.
InFlightIsQueued ==
    /\ Receipts(Range(queue)) = inFlight
    /\ \A q \in Range(queue) : q[1] = bound
    /\ IsInjective(queue)

\* What a run holds and what a set of marks says agree for session s: every
\* marked receipt is in the run, and nothing else is.
Agrees(s, save, marks) ==
    save.holds = {<<s, i>> : i \in {j \in marks : InRun(s, j)}}

\* A container never pairs a game save with an AP state of another moment:
\* what one says was handed out is what the other holds.
DiskPairAgrees == \A s \in Session : Agrees(s, disk[s].save, disk[s].state)

\* No receipt is about to be applied to a run that already holds it.
NeverAppliedTwice ==
    /\ Range(queue) \cap live.holds = {}
    /\ \A i \in 1..recvd :
           bound # NoSession /\ <<bound, i>> \in live.holds => Handled(i)

\* A run never holds a tier of a progressive family without the ones below.
TiersInOrder ==
    \A s \in Session : \A i, j \in 1..Len(Stream[s]) :
        /\ j < i /\ Stream[s][i] = "tiered" /\ Stream[s][j] = "tiered"
        /\ <<s, i>> \in live.holds
        => <<s, j>> \in live.holds

\* The save of a session only holds receipts of that session's own stream:
\* what one server sends never lands in the run of another.
OnlyOwnReceipts ==
    \A s \in Session : \A r \in disk[s].save.holds : r[1] = s

\* No step takes a receipt back from a container, neither from its save nor
\* from its marks.
DurableGrows ==
    [][\A s \in Session : /\ disk[s].state \subseteq disk'[s].state
                          /\ disk[s].save.holds \subseteq disk'[s].save.holds]_vars

\* Once the player stays connected and in a room, every received item that
\* belongs in the run ends up in it, whatever traps do.
EventuallyDelivered ==
    <>[](authed /\ player = "ready")
    => <>[](\A i \in 1..recvd :
               InRun(session, i) => <<session, i>> \in live.holds)
=============================================================================
