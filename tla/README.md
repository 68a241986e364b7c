# Verification of mth-apclient

TLA+ specifications, TLC model checks and TLAPS proofs about mth-apclient, the
in-process mod that makes *Mina the Hollower* an Archipelago client. Paths below
are relative to the repository's `src/` directory.

The program's promise is short: *checked locations and granted items are
persisted per (seed, slot) so reconnects and reloads don't double-send or
double-grant* (`docs/architecture.md`). Keeping it is hard, because four threads,
a game that owns its own save file, a network library and a server each hold a
part of the truth.

## 1. The system

### Threads

| thread | what runs there |
| --- | --- |
| game | `App::drive_tick` from the game's FixedUpdate; `gate_note_worldupdate` and `drain_grants` from World::Update; pickups, save requests, menus and world teardown from hooks |
| net | `ApLink::run`, a 10 ms loop: commands, then `poll`, whose callbacks push events |
| overlay | the login window and the console: `App::connect`, `App::disconnect`, which push commands |
| writer | `ApSaveBundleStore::writer_loop`, which writes containers to disk |

### Components

| component | state | operations | correct when |
| --- | --- | --- | --- |
| network link (`mth/net/ap_link_apclient`) | client, `connected_`, deadline, last session, two queues | connect, disconnect, send, goal; callbacks for slot, items, locations, socket | events arrive in order; every end of an attempt or of a connection is told; the flag agrees with what was told |
| AP state and coordinator (`mth/core/ap`) | session, phase, received items with a dedup index, ids the server checked | drain and apply events; reset on a new session | the stream of one session is received once, in order; nothing of a session outlives it |
| location bridge, resend gate (`mth/core`) | record attached or not, goal latch, gate latch | collect, reconcile, flush, goal | every check reaches its own server, and no other |
| inbound granter, item granter, pipeline | receipts in flight, the queue | walk, offer, drain, ack, discard | each receipt is applied once, in order, and eventually |
| AP save state | granted marks, checked locations | mark, stage, load | agrees with the run it is paired with |
| save bundle store (`mth/core/save`) | one cached container, writer queue, files | load, stage, store, flush, write | a container pairs a run with its own AP state; no crash loses both generations; another run's file is left alone |
| save takeover, title gate | step, claimed identity, input block | begin, tick, drive the menu, flush | only a claimed run in gameplay is committed, under its own identity; the controller comes back |
| player tracker | Player pointer, position | note, sample, invalidate | nothing is applied without a live player |
| application root, hook manager | the verdict, the wiring | `drive_tick`, session clearing, connect | the order of the steps in a tick |
| death link | latches, timers, a death kept for retry | poll, broadcast, apply | no echo; a death is applied once and only while connected |
| safety gate | verdict, reason | probe, latch, refuse | nothing connects after a refusal; the verdict is reached and kept |
| traps | countdowns, refused lifts | arm, advance, clear, retry | nothing is stranded, and no choice of the player's is taken |
| modifiers, weapon clamp, intro chest, vendors | captured slot, latches | seed, enforce, demote | durable writes reach the bound save only |
| location hooks | native bits, kear mirror | apply, cancel, credit | the keys of a run are those received |
| boss tracker | baseline mask | prime, poll | every kill is reported, and nothing else |
| ability gate, shoreline | arm, confirmations | commit, observe, emerge | no mode goes on that was not granted; no flicker punishes |
| train, ticket machine | published masks, a cooldown | clamp, cancel, disable | nobody rides without the ticket |
| locks, chests | registry, weak pointers | seed, sweep | what an item removed is open, for its own session |
| mirror switches, sewer vendor | a walked list, cooldowns | walk, drive, disable | they follow the items in every room |
| capacity upgrades | counts, dirty flag | recompute, apply | exactly those received, without healing or hurting |
| level caps | counts, forced flag | recompute, provide, fake, annotate | no stat passes its cap, and nothing of the fake stays |
| overlays (`pal/linux`, `pal/windows`) | hooks, resources, queues, flags | install, build, present, record, resize, queue | no crash, no hang, no input lost to a window nobody sees |
| shops, tables, texts | none that decides | | not modelled |

### Interactions

* Overlay to net: a queue of closures. Net to game: a queue of events plus the
  atomic flag `connected_`, read directly by pickups, `flush` and the resend gate.
* Game tick: drain events, tick the hooks (takeover, goal), ensure the record and
  the granter exist, reconcile what the server reported, resend if the gate fires,
  walk the receipts.
* World::Update: apply the queue of grants and ack each to the granter that is
  alive; acks mark and stage.
* Game save request: the takeover commits the game's blob together with the
  staged AP state, and waits for the writer thread.
* Features do not call one another: each is ticked by `HookManager`, reads the
  session from `ApState` and writes its own fields of the game. That is why the
  smaller modules below share no state.

### What is hard here

Orders of the net and game threads; sessions changing while work of the old one is
queued; a crash between granting, staging and saving; failed writes; links that
die before anyone notices; retries of a pass that stopped half way; menus that
clear the working slot; a game that cannot be told apart by what it shows (a
revival, a death requested or not, a load, a slot refilled in place); walks that
come before their room is built; fences and waits without a timeout. Each one is
listed with its line under `hazards` in `PROJECT.json`, with the properties that
guard it.

## 2. What is modelled

### InboundGrants: items into the run

Three copies of "what was handed out" have to agree: the run (`live`), the marks
in memory (`granted`) and the container (`disk`).

| specification | code |
| --- | --- |
| `TickBegin`, `Net`, `HooksTick`, `Pass` with `pc` | the order of `App::drive_tick` |
| `SessionEnded`, `Connected`, `Disconnected`, `ItemReceived` | `clear_session_state`, `ApState::apply` |
| `EnsureInboundReady` | `App::ensure_inbound_ready`, loading the marks |
| `SkipReceipt` ... `PassDone` | the branches of `InboundGranter::tick`, one action each; `cursor` is the loop |
| `OfferReceipt`, `StallPass` | `ItemGranter::grant`, accepting or not |
| `DrainGrants`, `OnApplied` | `ItemGranter::drain` and the applied sink |
| `EnsureLoaded`, `StageState`, `GameSave` | `ApSaveBundleStore` as the game thread sees it |
| `BeginTakeover`, `StageSave`, `BounceToTitle`, `TakeoverTick`, `MayFlush` | `SaveTakeover`, `next_takeover_step`, `flush_refusal` |
| `EnterGameplay`, `ExitToTitle`, `PlayerSpawns`, `WorldDestroyed` | the game around it |
| `Crash` | the process ends between any two steps; only `disk` survives |

Items are abstracted to the classes that take different branches (`Kinds`);
weapons, fishing rods and maps share one tiered family; a receipt is its position
in the session's stream. A trap that cannot be armed may stall at any time, and
one is consumed only in gameplay. Frame counts of the takeover are a timeout that
may happen at any tick. Items injected by the console are left out.

Two constants open the environment. `QuitUnsaved` lets the player return to the
title with progress the game has not asked to save; `SwitchMidRun` lets another
session authenticate under a live run. The code prevents neither by itself.

### CheckReporting: checks and the goal out to the server

| specification | code |
| --- | --- |
| `RunCommand`, `SlotConnected`, `PushConnected`, `PublishConnected`, `ReportChecked`, `SocketDisconnected`, `GiveUp`, `SlotDataThrows` | `ApLink::run` and its callbacks; the slot callback is split where the game thread can run in between |
| `TickBegin`, `ApplyEvent`, `DrainDone`, `HooksTick`, `ResendGate` | `App::drive_tick` |
| `InboundReady`, `Record` | `ensure_inbound_ready` and `reconcile_server_checked` |
| `PlayerCollects`, `EvaluateGoal` | `RandoBridge::on_location_collected`, `GoalTracker::evaluate`, `send_goal` |
| `UserConnects`, `UserDisconnects` | the overlay thread |
| `ServerCollects`, `SocketDies`, `Reaches`, the choice by `Keeps` | the server, the socket and apclientpp, seen from how the code uses them |

Every seed numbers its locations from the same base, so both sessions share
`Location`: an id sent to the wrong server is a wrong check there. `wire` is
whether a write still arrives; it can fail before the link notices. `earned` is a
history variable: what each session is entitled to. `Keeps` says whether the
library keeps what it is handed outside its room; both are explored.
`QuickRejoin` allows a drop and a rejoin with no gate sample in between,
`EarlyQuit` a disconnect during an attempt (console only) and `BadSlotData` slot
data the parser throws on.

Left out: removed locations, scouts, the `sent_` set that dedups before a record
exists, the contents of refusals (`down` stands for both `ApDisconnected` and
`ApConnectionRefused`), and the second read of the flag inside `flush`, which can
only skip a resend on a link that is down again.

### SaveBundle: the container on disk

| specification | code |
| --- | --- |
| `Open`, `Stage`, `Store`, `StoreReturns` | `load`, `load_state`, `stage_state`, `store` with `post` and `flush` |
| `Verdict`, `Chosen`, `Entries`, `FromDisk` | `read_container`, `ensure_loaded`, the previous layout's loose files |
| `TakeSnapshot`, `OpenTemporary`, `WriteTemporary`, `Rotate`, `Replace`, `Finish`, `Fail` | `writer_loop` and `write_snapshot`, one action between any two points a crash can tell apart |
| `Crash` | the process ends; `final`, `bak`, `tmp` and `legacy` survive |

An AP state is how much it marks and a game save how much was marked when the game
captured it, so that *paired* means *equal*. A file is a container, unreadable, or
absent. Not modelled: the bytes of the zip, and power failures (nothing is fsynced,
so a crash here is the end of the process, not of the machine).

`AtomicStore` is the promise the game thread relies on: one durable pair per
session, replaced whole by one step or left alone, an affirmative answer only for a
pair that is durable, and a crash that costs what is in memory. `KeepsPromise` checks
that `SaveBundle` implements it under the mapping `durable = Entries`, that is what
a restart would load: of all the writer's steps only `Replace` is a `Commit`, and
`Rotate` is a stutter because the backup answers for the missing container.

### The parts

Fifteen modules stand for components that share no state with one another. Each
has one action per handler, the game reduced to the states the code asks it for and
reads from it, and a frame order where there is one (the game's step, then
`drive_tick`, then the granter or the drain).

| module | code | what the game may do in it |
| --- | --- | --- |
| `Takeover` | `save_takeover`, `takeover_state`, `title_gate`, the console's `savetest flush` on its thread, its check and its effect apart; a commit and the game's own write that follows it are one step | menus open, browse, launch or go back; the player confirms whenever the input reaches him; saves at the title and in play |
| `DeathLink` | `death_hooks`, `death_broadcast_gate`, `deathlink` | deaths that drop their sparks before the guard byte, a guard byte that pulses, health that blips with it or without, Proto Sparks, screen transitions that lose a requested death, paused and stalled worlds, a build whose screen state cannot be read |
| `SafetyGate` | `ap_gate`, `gate_tick`, `connect`, startup order, the link's command queue | hooks that fire late or never |
| `Traps` | `trap_hooks`, `trap_state`, the cheat manager's readiness | rebuilds of the runtime mask, choices in the options menu |
| `BoundSave` | `modifier_hooks`, `HookManager::tick`'s `slot_ok`, weapon clamp, intro chest, vendor lockout | new and old runs, a file of the player's own opened before the mod is up |
| `KearKeys` | `location_hooks` | loads, rooms, locks that copy the mirror over the save's count |
| `BossTracker` | `boss_tracker` | a working slot cleared and refilled in place, New Game+ |
| `VulkanOverlay` | `pal/linux/overlay_linux` | swapchains replaced, hooks and calls that fail, a GPU, an event thread |
| `D3D12Overlay` | `pal/windows/overlay_windows` | swapchains replaced, resizes to another number of buffers |
| `Abilities` | `ability_hooks`, `burrow_boundary`, the burrow detours | commits applied late, ends that pass no hook, a water reading that flickers or is missing |
| `Train` | `ability_hooks`, `ticket_machine_gate`, the train detours | visits that unlock lines, menus held open, donations |
| `Locks` | `lock_registry`, `lock_hooks`, `chest_hooks` | rooms, chests made and freed at any time, kears used |
| `RoomGates` | `mirror_switches`, `sewer_cat_gate` | a world that is there before its objects, a player before or after them, hits, a vendor built anew |
| `Capacity` | `upgrade_state`, `game_upgrades`, the cleared slot in `game_menu_hooks` | new files with a kit of upgrades, loads without a save, damage |
| `BoneUp` | `stat_cap_state`, `levelcap_hooks`, the `LevelUpMenu` hooks of both platforms | the menu opens with an uninitialised cursor, draws its description or not, commits a purchase an update later |

Timers count down from small numbers that keep the order of the real ones
(`DeathLink`: a settled respawn is shorter than the grace, the grace longer than the
latency of a requested death, the confirmation longer than both). Masks and sets of
received items are sets; frame counts of walks and input budgets are the code's
comparisons on small constants. The modding API calls a feature needs are there (without
them it does nothing), but for the screen state in `DeathLink`. History variables are
named as such in the modules (`owed`, `cause`, `sparked`, `overtaken`, `credited`,
`opened`, `killed`, `trespass`, `liveFor`).

`MCParts` puts them into one specification: `part` says which one moves in a
behaviour, and the others stay in an initial state, so that the state graph is the
disjoint union of the fifteen, not their product. Nothing is lost by that, since
they share no variable.

Where a property needs the player, the game or the network to do nothing unusual, a
constant says so, and section 5 tells what happens otherwise: `Revives`, `EarlyBlips`,
`MidTrapChoice`, `Drops`, `MidRun`, `Outage`, `SignalFails`, `ResizeFails`, `Piecemeal`.

## 3. Runs

Every configuration states its bounds. Two sessions are what mixing needs; a third
adds nothing, since state is kept for the current session and at most one
previous. Runs with two sessions that name them symmetrically use symmetry.

| run | configuration | shows |
| --- | --- | --- |
| grants | two sessions; A sends a tier, a trap, a kear and a tier, B an item and one the granter refuses | `InFlightIsQueued`, `DiskPairAgrees`, `NeverAppliedTwice`, `TiersInOrder`, `DurableGrows` hold through disconnects, stalls, failed writes, menu trips and crashes; `EventuallyDelivered`: once the player stays in a room, every item reaches the run, whatever the trap does |
| grants_quit | as grants with `QuitUnsaved` | `DiskPairAgrees` fails: see section 5 |
| grants_switch | one item per session, `SwitchMidRun` | `OnlyOwnReceipts` fails: see section 5 |
| reports | two sessions, one location, every fault | `RecordIsOwn`, `GameAgreesWithLink` |
| reports_live | one session, two undrained events | `EventuallyReported`, `ServerChecksLearned`, `AttemptHasDeadline` |
| reports_foreign, reports_goal, reports_slotdata | one fault each | see section 5 |
| bundle | two sessions with their own files, A with the previous layout, B's container perhaps copied over A's; two marks | `PairMatches`; `FilesKept`, that is nothing stored is lost and another run's file is left alone; `KeepsPromise`, the refinement; `StoreAnswers` |
| parts | all fifteen parts | what each of them promises; see below |
| deaths_echo | `DeathLink` with `Revives` | `NoEcho` fails: see section 5 |
| train_unbound | `Train` | `OwnLinesKept` fails: see section 5 |

What `parts` checks, by module:

* `Takeover`: no held confirm opens the player's own file (`NoFileByAccident`); what is
  committed for a session is a run of its own, never a cleared slot or another claim's,
  and is not written to the vanilla file as well (`CommitsOwnRun`); a claim ends, and
  the controller comes back (`ClaimEnds`).
* `DeathLink`: no echo (`NoEcho`) and no death that began with sparks (`OnlySparkless`),
  together `SendsOwnDeaths`; one received death costs one life (`OneLifePerBounce`).
* `SafetyGate`: a refusal reaches back to a session opened meanwhile
  (`RefusalReachesBack`); the verdict is reached, and is final (`VerdictSettles`).
* `Traps`: no modifier is left on without a reason, and none in the menus
  (`NothingStranded`); none is taken that the player chose or another trap holds
  (`LiftsOnlyItsOwn`).
* `BoundSave`: a run started under a claim carries its modifiers and slot, and its
  vendors stay shut (`RunsAreBound`); the weapon clamp writes to the bound save only,
  with the tally arrived, and leaves something to arm (`OnlyBoundSave`).
* `KearKeys`: the keys of a run are those received, none in modes without keys
  (`KeysBalance`); its native bits follow the record (`NativeBitsFollow`).
* `BossTracker`: every kill is reported, and nothing else (`KillsReported`).
* `VulkanOverlay`: ImGui draws with the resources of the swapchain presented, presents
  return, and where both hooks that draw could be installed input is drained; until a
  call fails it is kept from the game only by a window on the screen (`GameGoesOn`).
  `D3D12Overlay`: `TargetsLive`, of back buffers across a resize and of queued messages.
* `Abilities`: nobody goes on in a mode not granted, and no flicker of the water reading
  punishes (`ShorelineHolds`). `Train`: lines and the pass are had by ticket only
  (`TravelIsGranted`). `Locks`: what an item removed is open, for its own session
  (`LocksFollow`). `RoomGates`: both walks find their objects, if a room's switches are
  built between two ticks (`WalksFind`). `Capacity`:
  upgrades are exactly those received, without healing or hurting (`CapacityFollows`).
* `BoneUp`: no stat is bought past its cap, what is bought stays, and the level that the
  wrapper fakes on Windows reaches neither combat nor the entry gate (`BoneUpHonest`).
  Which cap Linux's entry gate asks for, if any, is left open; the console's caps
  command is assumed to fall between two ticks.

Bounds: `MaxEvents` is how many undrained events stop the net thread (a callback
that has begun still pushes the rest, up to three); `MaxCommands` bounds the
command queue. One location is enough for the properties of reporting, which are
about single ids; its set operations are unions and differences. The stream of
four covers a stalled kind ahead of a tiered one and a tier on each side of a kear.
`bundle`: two marks tell an older
pair from a newer one, and a name per session and one file copied over another are
all the relations between names and sessions there are besides a shared name (see
section 5). `parts`: two of each thing a set is made of (modifiers, images, locks,
chests, colors, keys), since what can go wrong is one standing for another; four
bosses, so that a rise of `WideRise` at once and one just below it both happen; timers
of two to nine steps, long enough for each to run out before and after the others it
races. Deadlock is not checked in `parts`, where a component may rightly stop (an
overlay that has become inert, with no message left to queue).

Fairness. `InboundGrants`: the game calls FixedUpdate and World::Update for ever,
so the steps of a tick are weakly fair; the drain runs only between two ticks and
so gets strong fairness. `CheckReporting`: both loops go round. `SaveBundle`: the
writer thread runs, and a woken game thread returns. `parts`: `Driven` is what the
code's own threads keep doing in the part that moves: frames (`Takeover`), ticks
(`SafetyGate`, `RoomGates`), presents and a GPU that finishes what it is given (the
overlays). Nothing is assumed of the network, the player, saves or crashes; liveness
is conditional on the link, the player or the room staying.

Every checked property has a seeded fault (definitions marked `Seeded fault`) that
breaks it, listed under `mutants`. A property that joins several parts has a fault for
each of them in its module, of which `mutants` lists one: put in the place of the
definition that follows it, each breaks the property under the same configuration.

## 4. Proofs

TLAPS proves every safety property that the passing runs check, for every value of the
constants: any number of sessions, locations, modifiers, bosses, locks and chests, any lengths of streams, queues and
timers. Eight modules hold the proofs, each after the component it is about. Each
one states an inductive invariant, proves that every action keeps it (one step per
action, with the helpers of the code as lemmas) and derives the properties from it.
What a theorem assumes is either the `Assumption` of its module, which TLC
evaluates too (`PartsAssumption` in `MCParts` for the parts), or a named hypothesis
below, which says how two of the code's constants compare or what the environment
must not do. None can simply be dropped: TLC finds counterexamples for those about
the environment (section 5), and the proofs say below what the others are for.

| module | theorem | property | hypothesis |
| --- | --- | --- | --- |
| `InboundGrants_proofs` | `TypeCorrect`, `QueueCoherent`, `ContainersNeverShrink` | `TypeOK`, `InFlightIsQueued`, `DurableGrows` | none |
| | `ContainersAgree`, `AppliedOnce`, `TiersComeInOrder` | `DiskPairAgrees`, `NeverAppliedTwice`, `TiersInOrder` | `Calm` |
| `CheckReporting_proofs` | `TypeCorrect`, `RecordStaysOwn`, `GameHearsLink` | `TypeOK`, `RecordIsOwn`, `GameAgreesWithLink` | none |
| | `WaitingHasDeadline` | `AttemptHasDeadline` | `Patient` |
| `SaveBundle_proofs` | `TypeCorrect`, `ContainersPair`, `OtherRunsKept` | `TypeOK`, `PairMatches`, `ForeignKept` of `FilesKept` | none |
| | `NothingStoredIsLost`, `StoreIsAtomic` | `FilesKept`, `KeepsPromise` | `DistinctNames` |
| `Takeover_proofs` | `PlayersFileNeedsBudget` -> `FilesByBudgetOnly` | `NoFileByAccident` | none |
| | `SessionsCommitTheirOwn` -> `CommitsAreOwn` | `CommitsOwnRun` | `BudgetOutlivesClaim` |
| `DeathLink_proofs` | `NoDeathEchoed` -> `NoDeathIsEchoed` | `NoEcho` | `GraceOutlastsLatency`, `~Revives` |
| | `OneLifeForABounce` -> `BouncesCostOne` | `OneLifePerBounce` | the same two |
| | `OnlyOwnDeathsSent` -> `DeathsAreOwn` | `SendsOwnDeaths` | the same two and `~EarlyBlips` |
| `Traps_proofs` | `NoModifierStranded` -> `ModifiersOwned` | `NothingStranded` | none |
| | `OnlyForcedIsLifted` -> `LiftsAreOwn` | `LiftsOnlyItsOwn` | `~MidTrapChoice` |
| `BoundSave_proofs` | `RunsStayBound` -> `OwnRunsBound` | `RunsAreBound` | `~Drops` |
| | `OnlyBoundIsWritten` -> `WritesAreBound` | `OnlyBoundSave` | `~MidRun` |
| `Parts_proofs` | `EveryKillReported` -> `KillsAreReported` | `KillsReported` | none |
| | `RefusalHolds` -> `RefusalsReachBack` | `RefusalReachesBack` | none |
| | `TravelGranted` -> `TicketsAreAsked` | `TravelIsGranted` | none |
| | `RemovedLocksFollow` -> `LocksAreOpen` | `LocksFollow` | none |
| | `RecordIsCollected` -> `NativeBitsAreHeld` | `NativeBitsFollow` | none |
| | `KeysAreReceived` -> `KeysAreBalanced` | `KeysBalance` | `~Outage` |
| | `ShorelineHeld` -> `ShorelinesHold` | `ShorelineHolds` | none |
| | `UpgradesFollow` -> `UpgradesAreHeld` | `CapacityFollows` | `~Drops` |
| | `CapsAreHonest` -> `CapsAreKept` | `BoneUpHonest` | none |
| | `VerdictIsFinal`, `VendorIsShut`, `FramesMatch` | the safety of `VerdictSettles`, `WalksFind`, `GameGoesOn` | none |
| | `TargetsAreHeld` | the safety of `TargetsLive` | `~ResizeFails` |

The theorem before an arrow is about the component's own `Spec`; the corollary after it,
in `Parts_proofs`, states the property of `MCParts` about `PartsSpec`, the specification
that TLC checks. `MCParts` instantiates the module with the component's proofs, so that
its theorems can be cited there. That a part behaves in `PartsSpec` as it does alone
(`ClaimBehaves`, `DeathBehaves` and so on) holds because in a step of `PartsNext` one part takes a step and the others stutter.

### InboundGrants

`Ahead` says that no copy is behind the container it came from or will be written to:
the cache, the marks in memory, the staged file and the live run each hold what the
container of their session holds. From it follows that containers only grow, whatever
the player and the network do. `Calm` is neither `QuitUnsaved` nor `SwitchMidRun`; the
two violation runs show that each half is needed for what it protects. Under it the
invariant is

    Inv == Typed /\ Ahead /\ InFlightIsQueued /\ InStep

where `InStep` adds what ties a run to its marks: while a run is under way or about to
be, the granter serves its session (`BusyIsBound`); the cache is that session's and
holds the granter's marks (`CacheIsMarks`); the live run and the staged file agree
with the marks (`RunAgrees`); and while no run is up, the cached pair agrees
(`CacheAgrees`), so that the next launch starts from one. A save request then commits
two things known to agree, and a queued receipt, which is unmarked (`QueueIsNew`),
cannot be in the run yet. `QuitUnsaved` breaks `CacheAgrees`, `SwitchMidRun` breaks
`BusyIsBound`.

The order of the tiers is a second invariant on top (`InOrder`): the marks of every copy
are closed downwards among the tiered items, the receipts in flight are closed given
what is marked, and what a pass has walked past is handled (`PassOrder`). A receipt
that is offered out of the middle would break the last; that the walk stops where an
item of the run is refused keeps it.

### CheckReporting

The difficulty is that the net thread and the game thread never look at each other's
state at one time: between them lies a queue of events of any length. The invariant
therefore speaks of a *trace*: the sequence of states the game thread will go through
while it drains what is queued, one state for each event (`Trace`, `Effect`). It starts
at the state the game is in, each event makes sense where it will be drained
(`Sensible`: ids reported belong to the session known then; another session is announced
only after the last one was ended), and its last state agrees with the link
(`InTouch`). A push extends the trace at the end, a drain takes its first state away,
and with nothing queued the trace is the game's own state, which gives
`GameAgreesWithLink`. `RecordInv` says that everything on its way to a record is of the
session whose record it will be; its `Owned` grows with the game's progress, and every
part of the invariant is monotone in it.

`WaitingHasDeadline` needs `Patient`, that nobody quits during the handshake and that
slot data parses. The `reports_slotdata` run shows the second half is needed; the
first is the console's alone, and the command it leaves in the queue is what
`Orderly` excludes.

### SaveBundle and its refinement

The invariant of the writer is that there is one write at a time and the game waits for
it (`OneWrite`), that the temporary file is complete once the writer goes on with it
and an affirmative answer is about its own write (`WriteComplete`), that what is open
may be written (`OpenIsOwn`) and that every file holds a pair (`FilesPaired`). It is
inductive for any names the sessions have, and gives `PairMatches` and that another
run's file is refused, not replaced.

That nothing is lost needs `DistinctNames`: no two sessions share a file name. Then a
file that is not the session's own has never been backed up (`NoBackup`), and what was
confirmed is in what a restart would load (`ConfirmedKept`), since a rotation leaves the
backup to answer for the container (`RotateKeeps`). Section 5 says what happens when
two names sanitise to one.

`StoreIsAtomic` is proved step by step under the mapping of `KeepsPromise`: `Open`,
`Stage` and `Store` are the abstract ones; `Replace`, the rename that publishes, is the
`Commit`; `StoreReturns` is the abstract answer; of the writer's other steps
each leaves what a restart would load as it was; a crash is a crash. The abstract
specification states no fairness, so nothing but safety is left to prove.

### The parts

* `Takeover`. Which file can be launched follows from where the menu may be in each step
  of a claim (`MenuPlaced`) and from the input being swallowed on profile-select from
  the first tick there until the budget is spent (`InputHeld`). What is committed needs
  that a claim never gets to the end of its budget (`InBudget`), because then the player
  could open another file under it: `BudgetOutlivesClaim`, that is
  `2 * MaxFramesPerStep + 3 <= MaxInputBlockFrames`. The code has 600 and 1800
  (`takeover_state.hpp`, lines 26 and 36), so it holds with 597 frames to spare; nothing
  in the code ties the two constants together.
* `DeathLink`. Three counts tell an echo from an own death, and the invariant says what
  each means for the death it began in: no settled respawn is counted in a death
  (`Unsettled`), the grace outlasts a requested death's way to landing (`Landing`), and a
  confirmation still counting belongs to the death being died (`Counting`).
  `GraceOutlastsLatency` is `Latency < InboundDeathGrace`, a bound on the game that
  `kInboundDeathGraceTicks` was chosen for; `Revives` is the finding `deaths_echo`. That
  a death sent began without sparks needs besides that the sparks remembered are those it
  began with until it is latched (`SparkKept`), and so `~EarlyBlips`: health reads above
  zero in a death while its sparks are still there, or once a tick has seen the guard
  byte, but not in between. That is a bound on the game; section 5 says what the code
  does without it.
* `Traps`. A lift is never owed of a modifier that is forced again (`LiftsAreOver`), and
  what is forced the player has not chosen unless he chooses in mid-trap.
* `BoundSave`. A run that is loaded under its session stays bound unless the connection
  is lost between the start and the load (`LoadedBound`); the run that is live in a session is
  its own or a file the session has no slot to compare with, unless another session is
  joined under it (`OwnRunLive`).
* `Parts_proofs` has the ones whose invariant is short, over the instances and the
  variables of `MCParts`. The invariants: the mask above the baseline is what was killed
  and what a poll will take for kills (`Baseline`, `Unpolled`); a refusal that was acted
  on has the last word in the command queue (`GateInv`); a machine has prompted no
  longer than the interval has run (`TrainInv`); the registry holds items of the session
  it serves (`LocksInv`); as many as were applied are as many as there are only when they
  are the same (`NativeHeld`), and every key of a save is spent but for those credited
  and not used (`KeysPaid`); agreeing readings that are all wrong are no more than the
  flicker has lasted (`Readings`), and polls in a mode not granted were readings of one
  side whose other side is granted (`Trespassing`); what a load brought back is looked at once
  more, or holds what was applied (`OwnUpgrades`); a purchase that passes the gate is of
  a row that is not shown maxed (`GateHolds`), on either platform; the drains a vendor
  has been live through are those the cooldown has counted (`RoomInv`); whatever makes
  the Vulkan resources comes after the hook that sees every later swapchain, or that hook
  could not be installed and nothing is drawn on a later one (`LinuxInv`), and an overlay
  on Windows that is not inert holds every buffer it may draw into (`WindowsInv`).
  `KeysBalance` needs `~Outage`, and `ShorelineHolds` a grace of two ticks or more, as `AbilitiesAssumption` says: with a
  grace of one TLC finds a burrow that is no longer watched when its commit is applied.
  The code has exactly the least that works: `kBurrowConfirmGraceTicks` is 2
  (`burrow_boundary.hpp:36`).

Proving found two things in the model that no run had shown, because the bounds hid
them or the properties did not see them: in `CheckReporting` a run could be started while
the end of its session was still queued, and a pickup reached the record of a session
that had none attached (`rando_bridge.cpp:70-107`). Both are as in the code now.

### Only model-checked

Liveness, which the prover does not do: `EventuallyDelivered`, `EventuallyReported`,
`ServerChecksLearned`, `StoreAnswers`, `ClaimEnds`, and the liveness conjuncts of
`GameGoesOn`, `TargetsLive`, `VerdictSettles` and `WalksFind`. So are the violations of
section 5, which are about one behaviour each.

## 5. Where the code and its words part

* **Leaving unsaved** (`mth/features/save_takeover.cpp:240`). The launch reloads
  the last committed save, but the AP state staged since stays. If the game lets the
  player leave without asking to save, a relaunch pairs newer marks with an older
  run, and the items in between are lost: what the container was built to prevent
  (`mth/core/save/ap_save_bundle.hpp:25`).
* **Connecting elsewhere in gameplay** (`mth/app/app.cpp:456`). The FAQ says it
  cannot be done; nothing refuses it, and the items land in the live run.
* **The flag read late** (`mth/app/app.cpp:269`). Publishing `connected_` last does
  not stop the gate from acting on it before `ApConnected` is drained, because the
  drain comes first in the tick. The previous session's checks go to the new server.
* **The goal on a dead link** (`mth/core/rando_bridge.cpp:169`). Latched before it is
  written, and never re-armed in that session.
* **Slot data that throws** (`mth/net/ap_link_apclient.cpp:355`). The deadline that
  would report it has just been cleared; the login window waits for ever.
* **The revived death** (`mth/features/death_hooks.cpp:123`). Suppression keeps deaths
  that begin after a bounce from being sent. A sparkless death that a Proto Spark
  revives leaves its confirmation counting for up to `kDeathConfirmTicks`; the death
  of a bounce applied in that time reaches the death screen, and is sent back.
* **Lines of another save** (`mth/features/ability_hooks.cpp:70`). The clamp of the
  train lines is a durable write that does not wait for the bound save, as
  `mirror_switches.cpp:241-243` says every one does. A save of the player's own that
  is live while a session is joined loses lines. Of the same family:
  `seed_removed_locks`, capacity upgrades and vials, which write into whatever save
  is live.

Seen while modelling, without a run of their own. Each of the first ten is an
environment constant, or the definition given to a constant, away from a counterexample.

* `EarlyBlips`: sparks are remembered from ticks that read health above zero, because in
  mid-death they are already dropped (`death_hooks.cpp:99-103`). The re-arming of the
  gate is guarded against such a reading in a death (`death_broadcast_gate.hpp:27`), the
  sample is not: one that comes after the sparks are dropped and before a tick has seen
  the guard byte, or in that tick, makes a death with an active spark a sparkless one,
  and it is broadcast (`SendsOwnDeaths`), where `docs/faq.md:134` says "Dying with an
  active spark does not send a deathlink." Whether the game shows such a reading that
  early is not in the source.
* `SignalFails`: a failed submission is followed by an empty one, to "restore in_flight
  to signaled so the next wait for this image does not block on an unsignaled fence"
  (`overlay_linux.cpp:1161-1162`). Its result is ignored (1165): if it fails too, the
  fence reset at 1120 stays reset, and the image's next present waits without a timeout
  for a signal nobody gives (`GameGoesOn`). The game hangs.
* `Piecemeal`: only a walk that found nothing is retried (`mirror_switches.cpp:323-328`). One
  that finds some of a room's switches, with the others not built yet, is remembered, and
  the others follow the player's hits and not the items for as long as the room lasts
  (`WalksFind`), although the comment above it says that "a walk landing before the room
  finished building is retried". Whether a tick can find a room half built is not in the
  source.
* `QuickRejoin`: `EventuallyReported` fails, because the resend gate samples the flag
  once a tick and cannot see a drop and a rejoin between two samples.
* `Drops`: a connection lost between Start Game and the load leaves a run without
  forced modifiers and captured slot (`RunsAreBound`, `modifier_hooks.cpp:53`) and a
  new file with the game's own kit (`CapacityFollows`, `game_menu_hooks.cpp:87`).
* `MidRun`: joining a session under a run that is not its own breaks `OnlyBoundSave`;
  `set_ap_slot(-1)` at `hook_manager.cpp:200` forgets nothing (`modifier_hooks.cpp:129`).
* `Outage`: kears collected while disconnected are not cancelled, and their keys stay
  (`KeysBalance`; `location_hooks.cpp:184`, against 30-33).
* `MidTrapChoice`: a trap's end takes away, in the runtime mask, a modifier the player
  turned on while it ran (`LiftsOnlyItsOwn`; `trap_hooks.cpp:160-172`, against 81-83).
* `ResizeFails`: a `ResizeBuffers` that fails for the game leaves the overlay without
  its targets and not inert (`TargetsLive`; `overlay_windows.cpp:386`, against 411-412).
* Two sessions whose names sanitise to one file (`NameOf <- OneName`): after a crash
  between rotation and replacement the other session finds no container, only a
  foreign backup, and writes its own over it, so the first one's run is hidden behind
  it (`KeepsPromise`; `ap_save_bundle.cpp:361`, against 48-49).
* An unreadable container is rotated over a good backup; `state_staged_` is cleared
  (405) before a write that may fail.
* A connect() that has passed its check when the refusal is queued connects after it
  and is never dropped (`overtaken` in `SafetyGate`; `app.cpp:360-362`, 458).
* The machine's cooldown is charged before there is a player
  (`ticket_machine_gate.cpp:54`, against the header's 28; the sewer vendor's is not), so
  it prompts for one interval.
* The overlays: with one key for console and login both stay on it; a key held when a
  window takes the keyboard never gets its release; after a failed rebuild with a
  window open the flags stay set and the game's input is swallowed until the window
  is toggled (`GameGoesOn` excludes failures for this); an inert Windows overlay
  still queues messages.
* On Linux a hook that fails to install is skipped and the next ones are tried
  (`overlay_linux.cpp:1264-1293`). Without the present hook nothing is drawn, and input
  queued while a window counts as open piles up; without the create hook the overlay
  is lost with the first swapchain replaced. `GameGoesOn` asks for draining only with
  both.
* A `savetest flush` that falls between a commit and the game's own write right after it
  lets that write reach the player's file (`save_takeover.cpp:281-285`); in `Takeover` the
  two are one step.
* `savetest flush` is accepted in a failed takeover while the mod's save lies in the
  vanilla slot; a launch may time out while the game still loads.

## 6. Plan

Done: `InboundGrants`, `CheckReporting`, `SaveBundle` with its refinement and the parts;
theorems for every safety property the passing runs check, and for the refinement.

Next:

1. An abstract exactly-once promise for items, with `InboundGrants` shown to implement
   it under `Calm`, checked first and then proved.
2. The same for checks: what a server is told of is what was earned in its session, as a
   refinement of `CheckReporting` under the conditions that section 5 leaves.
3. The assumptions of the parts, discharged from the constants of the code where these
   are arithmetic (`BudgetOutlivesClaim`, `AbilitiesAssumption`).

Not modelled: hook engine, signature scans and the layout of game objects (machine
code); item, location, modifier and lamp tables (constants); shops, room and area
reports, windows, banners and text (they show what others decided); vials, the
wallet cap, status panels and the kear completion count (recomputed from the received
items in every tick, with nothing kept); the guard against implausible kear offsets,
which no legal sequence reaches; data races of the render thread on status strings
(`app.cpp`), whose outcome is a text; teardown, which never runs since the `App` is
leaked by design; scouts, chat and tags. `PROJECT.json` gives each component's share.
