------------------------------ MODULE MCParts ------------------------------
(***************************************************************************)
(* Small instances of the components that share no state with one another, *)
(* for one run of TLC: in each behaviour one part, of those in Moving,     *)
(* moves and the others stay in a state they may start in.                 *)
(***************************************************************************)
EXTENDS Naturals

CONSTANTS
    A, B, Moving, Session, None, Vanilla, Blank, MaxFramesPerStep, MaxInputBlockFrames,
    StableAliveTicks, InboundDeathGrace, PendingInboundDeath, DeathConfirm, Latency, Revives,
    EarlyBlips, LivenessTimeoutTicks, MaxCommands, Modifier, Seconds, MidTrapChoice, Starter,
    Stream, Drops, MidRun, Kear, Plain, VanillaKear, Removed, MaxKeys, Outage, Boss, Preset,
    WideRise, Image, MaxSwapchains, MaxFailures, MaxQueued, SignalFails, BufferCounts, MaxMessages,
    ResizeFails, WaterConfirmTicks, BurrowConfirmGraceTicks, Line, WalkInterval, Nobody, Lock,
    BitOf, Chest, SlotOf, MaxTrackedChests, Color, Retry, Piecemeal, Cap, Kit, Base, Stat, Native,
    MaxStatLevel, MaxUps, ConsoleCaps

TwoSessions == {A, B}

\* What the server sends in each session, beginning with what the player starts with.
Streams == [s \in TwoSessions |-> IF s = A THEN <<"whip", "axe">> ELSE <<"axe">>]

\* The unlock bits of two locks, one of them with none, and two chests of the first.
Bits == [kear |-> 3, plain |-> 255]
ChestSlots == [left |-> "kear", right |-> "kear"]

VARIABLES
    part,
    \* Takeover
    claimTurn, claimSession, claimConnected, claimStep, claimFrames, claimClaim, inputBlocked,
    budget, claimScreen, claimMenu, request, chosen, claimRun, claimSaved, writes, console,
    \* DeathLink
    frame, life, guard, seen, blip, area, deathMode, spark, sparked, cause, screens, landing, gate,
    lastSpark, killTicks, castTicks, deathLinked, inbound, owed, did,
    \* SafetyGate
    startup, sound, hooksFire, observed, ticks, verdict, dropping, enforcing, connecting, commands,
    gateLinked, overtaken,
    \* Traps
    trapTurn, save, runtime, manager, inGameplay, advanced, remaining, pendingOff, pendingArm,
    \* BoundSave
    boundTurn, boundAuthed, boundSession, boundReceived, attached, slotKnown, boundCaptured, live,
    boundClaim, boundRun, chest, chestArmed, boundLockout, boundDisk,
    \* KearKeys
    kearTurn, kearConnected, kearSuppress, kearReceived, kearChecked, neutralize, kearApplied, slot,
    kearScreen, mirror, kearDisk,
    \* BossTracker
    bossTurn, bossBound, mask, bossDisk, primed, prevMask, bossChecked, killed,
    \* VulkanOverlay
    tried, hooks, vulkanGameSwap, swap, ready, imgui, vulkanStep, vulkanImage, drawing, fence,
    vulkanOpen, vulkanWant, queued, vulkanShown, failures,
    \* D3D12Overlay
    d3dCaptured, d3dGameSwap, count, inited, d3dFrames, failed, targets, gpu, d3dStep, d3dImage,
    d3dOpen, d3dWant, msgs,
    \* Abilities
    abilityPlayer, abilityMode, late, deep, wrong, real, jumpHooked, enforce, abilityGranted,
    lastPlayer, abilityArmed, lastDeep, confirmed, notBurrowing, gated, trespass,
    \* Train
    trainAuthed, tickets, passReceived, donated, machineCheck, trainGate, trainMask, machineBlocked,
    trainSuppress, enforceBound, trainCooldown, trainBound, passOwned, lines, seeded, trainInRoom,
    machine, boxes, ride, openFor,
    \* Locks
    locksSession, locksReceived, removed, locksRun, bits, committed, opened, locksInRoom, blocks,
    locksAlive, locked, tracked, swept,
    \* RoomGates
    roomArmed, roomGranted, roomLockout, inHub, roomPlayer, built, entry, managed, walked, retry,
    vendor, roomCooldown, awaited, liveFor,
    \* Capacity
    capSession, capAuthed, sent, capHave, capCounts, capApplied, dirty, capScreen, capRun, capSaved,
    field, capAlive, pool, cur, ticked,
    \* BoneUp
    platform, boneAuthed, forced, boneHave, enforceLive, boneCounts, boneMenu, cursor, boneShown,
    level, combat

\* Each part, with the theorems about it where they have a module of their own.
Claim == INSTANCE Takeover_proofs WITH
    turn <- claimTurn, session <- claimSession, connected <- claimConnected, step <- claimStep,
    frames <- claimFrames, claim <- claimClaim, blocked <- inputBlocked, screen <- claimScreen, menu <- claimMenu,
    run <- claimRun, saved <- claimSaved
Death == INSTANCE DeathLink_proofs WITH
    mode <- deathMode, linked <- deathLinked
Safety == INSTANCE SafetyGate WITH
    linked <- gateLinked
Trapped == INSTANCE Traps_proofs WITH
    turn <- trapTurn
Bound == INSTANCE BoundSave_proofs WITH
    turn <- boundTurn, authed <- boundAuthed, session <- boundSession, received <- boundReceived,
    captured <- boundCaptured, claim <- boundClaim, run <- boundRun, lockout <- boundLockout, disk <- boundDisk
Kears == INSTANCE KearKeys WITH
    turn <- kearTurn, connected <- kearConnected, suppress <- kearSuppress, received <- kearReceived,
    checked <- kearChecked, applied <- kearApplied, screen <- kearScreen, disk <- kearDisk, Vanilla <- VanillaKear
Bosses == INSTANCE BossTracker WITH
    turn <- bossTurn, bound <- bossBound, disk <- bossDisk, checked <- bossChecked
Vulkan == INSTANCE VulkanOverlay WITH
    gameSwap <- vulkanGameSwap, step <- vulkanStep, image <- vulkanImage, open <- vulkanOpen, want <- vulkanWant,
    shown <- vulkanShown
Direct == INSTANCE D3D12Overlay WITH
    captured <- d3dCaptured, gameSwap <- d3dGameSwap, frames <- d3dFrames, step <- d3dStep, image <- d3dImage,
    open <- d3dOpen, want <- d3dWant
Gated == INSTANCE Abilities WITH
    player <- abilityPlayer, mode <- abilityMode, granted <- abilityGranted, armed <- abilityArmed
Station == INSTANCE Train WITH
    authed <- trainAuthed, suppress <- trainSuppress, cooldown <- trainCooldown, bound <- trainBound,
    inRoom <- trainInRoom
Kept == INSTANCE Locks WITH
    session <- locksSession, received <- locksReceived, run <- locksRun, inRoom <- locksInRoom, alive <- locksAlive
Rooms == INSTANCE RoomGates WITH
    armed <- roomArmed, granted <- roomGranted, lockout <- roomLockout, player <- roomPlayer,
    cooldown <- roomCooldown
Capacities == INSTANCE Capacity WITH
    session <- capSession, authed <- capAuthed, have <- capHave, counts <- capCounts, applied <- capApplied,
    screen <- capScreen, run <- capRun, saved <- capSaved, alive <- capAlive
Bones == INSTANCE BoneUp WITH
    authed <- boneAuthed, have <- boneHave, counts <- boneCounts, menu <- boneMenu, shown <- boneShown

\* What the proofs assume of the constants of the parts.
ASSUME PartsAssumption ==
    /\ Claim!TakeoverAssumption
    /\ Death!DeathLinkAssumption
    /\ Trapped!TrapsAssumption
    /\ Bound!BoundSaveAssumption
    /\ Kears!KearKeysAssumption
    /\ Bosses!BossTrackerAssumption
    /\ Direct!D3D12OverlayAssumption
    /\ Gated!AbilitiesAssumption
    /\ Station!TrainAssumption
    /\ Kept!LocksAssumption
    /\ Rooms!RoomGatesAssumption
    /\ Capacities!CapacityAssumption
    /\ Bones!BoneUpAssumption

claimVars ==
    <<claimTurn, claimSession, claimConnected, claimStep, claimFrames, claimClaim, inputBlocked,
    budget, claimScreen, claimMenu, request, chosen, claimRun, claimSaved, writes, console>>
deathVars ==
    <<frame, life, guard, seen, blip, area, deathMode, spark, sparked, cause, screens, landing,
    gate, lastSpark, killTicks, castTicks, deathLinked, inbound, owed, did>>
gateVars ==
    <<startup, sound, hooksFire, observed, ticks, verdict, dropping, enforcing, connecting,
    commands, gateLinked, overtaken>>
trapVars ==
    <<trapTurn, save, runtime, manager, inGameplay, advanced, remaining, pendingOff, pendingArm>>
boundVars ==
    <<boundTurn, boundAuthed, boundSession, boundReceived, attached, slotKnown, boundCaptured, live,
    boundClaim, boundRun, chest, chestArmed, boundLockout, boundDisk>>
kearVars ==
    <<kearTurn, kearConnected, kearSuppress, kearReceived, kearChecked, neutralize, kearApplied,
    slot, kearScreen, mirror, kearDisk>>
bossVars ==
    <<bossTurn, bossBound, mask, bossDisk, primed, prevMask, bossChecked, killed>>
vulkanVars ==
    <<tried, hooks, vulkanGameSwap, swap, ready, imgui, vulkanStep, vulkanImage, drawing, fence,
    vulkanOpen, vulkanWant, queued, vulkanShown, failures>>
d3dVars ==
    <<d3dCaptured, d3dGameSwap, count, inited, d3dFrames, failed, targets, gpu, d3dStep, d3dImage,
    d3dOpen, d3dWant, msgs>>
abilityVars ==
    <<abilityPlayer, abilityMode, late, deep, wrong, real, jumpHooked, enforce, abilityGranted,
    lastPlayer, abilityArmed, lastDeep, confirmed, notBurrowing, gated, trespass>>
trainVars ==
    <<trainAuthed, tickets, passReceived, donated, machineCheck, trainGate, trainMask,
    machineBlocked, trainSuppress, enforceBound, trainCooldown, trainBound, passOwned, lines,
    seeded, trainInRoom, machine, boxes, ride, openFor>>
locksVars ==
    <<locksSession, locksReceived, removed, locksRun, bits, committed, opened, locksInRoom, blocks,
    locksAlive, locked, tracked, swept>>
roomVars ==
    <<roomArmed, roomGranted, roomLockout, inHub, roomPlayer, built, entry, managed, walked, retry,
    vendor, roomCooldown, awaited, liveFor>>
capVars ==
    <<capSession, capAuthed, sent, capHave, capCounts, capApplied, dirty, capScreen, capRun,
    capSaved, field, capAlive, pool, cur, ticked>>
boneVars ==
    <<platform, boneAuthed, forced, boneHave, enforceLive, boneCounts, boneMenu, cursor, boneShown,
    level, combat>>

\* Part p takes a step, the others do not.
Only(p) ==
    /\ part = p /\ part' = part
    /\ IF p = "claim" THEN TRUE ELSE UNCHANGED claimVars
    /\ IF p = "death" THEN TRUE ELSE UNCHANGED deathVars
    /\ IF p = "gate" THEN TRUE ELSE UNCHANGED gateVars
    /\ IF p = "trap" THEN TRUE ELSE UNCHANGED trapVars
    /\ IF p = "bound" THEN TRUE ELSE UNCHANGED boundVars
    /\ IF p = "kear" THEN TRUE ELSE UNCHANGED kearVars
    /\ IF p = "boss" THEN TRUE ELSE UNCHANGED bossVars
    /\ IF p = "vulkan" THEN TRUE ELSE UNCHANGED vulkanVars
    /\ IF p = "d3d" THEN TRUE ELSE UNCHANGED d3dVars
    /\ IF p = "ability" THEN TRUE ELSE UNCHANGED abilityVars
    /\ IF p = "train" THEN TRUE ELSE UNCHANGED trainVars
    /\ IF p = "locks" THEN TRUE ELSE UNCHANGED locksVars
    /\ IF p = "room" THEN TRUE ELSE UNCHANGED roomVars
    /\ IF p = "cap" THEN TRUE ELSE UNCHANGED capVars
    /\ IF p = "bone" THEN TRUE ELSE UNCHANGED boneVars

allVars ==
    <<part, claimVars, deathVars, gateVars, trapVars, boundVars, kearVars, bossVars, vulkanVars,
    d3dVars, abilityVars, trainVars, locksVars, roomVars, capVars, boneVars>>

\* A part that does not move starts in one of its initial states, always the same.
PartsInit ==
    /\ part \in Moving
    /\ Claim!Init
    /\ Death!Init /\ (part # "death" => screens)
    /\ Safety!Init /\ (part # "gate" => ~hooksFire)
    /\ Trapped!Init
    /\ Bound!Init /\ (part # "bound" => boundRun.of = None)
    /\ Kears!Init /\ (part # "kear" => ~kearSuppress)
    /\ Bosses!Init
    /\ Vulkan!Init
    /\ Direct!Init
    /\ Gated!Init /\ (part # "ability" => jumpHooked)
    /\ Station!Init /\ (part # "train" => machineCheck)
    /\ Kept!Init
    /\ Rooms!Init
    /\ Capacities!Init
    /\ Bones!Init /\ (part # "bone" => platform = "linux")

PartsNext ==
    \/ Only("claim") /\ Claim!Next
    \/ Only("death") /\ Death!Next
    \/ Only("gate") /\ Safety!Next
    \/ Only("trap") /\ Trapped!Next
    \/ Only("bound") /\ Bound!Next
    \/ Only("kear") /\ Kears!Next
    \/ Only("boss") /\ Bosses!Next
    \/ Only("vulkan") /\ Vulkan!Next
    \/ Only("d3d") /\ Direct!Next
    \/ Only("ability") /\ Gated!Next
    \/ Only("train") /\ Station!Next
    \/ Only("locks") /\ Kept!Next
    \/ Only("room") /\ Rooms!Next
    \/ Only("cap") /\ Capacities!Next
    \/ Only("bone") /\ Bones!Next

\* Of the part that moves, what the code's own threads and the GPU keep doing.
Driven ==
    \/ part = "claim" /\ part' = part /\ Claim!Frame
    \/ part = "gate" /\ part' = part /\ Safety!FixedUpdate
    \/ part = "vulkan" /\ part' = part /\ (Vulkan!Render \/ Vulkan!Gpu)
    \/ part = "d3d" /\ part' = part /\ (Direct!Render \/ Direct!GpuCompletes)
    \/ part = "room" /\ part' = part /\ Rooms!TickSwitches

movingVars ==
    CASE part = "claim" -> claimVars
      [] part = "gate" -> gateVars
      [] part = "vulkan" -> vulkanVars
      [] part = "d3d" -> d3dVars
      [] part = "room" -> roomVars

PartsSpec == PartsInit /\ [][PartsNext]_allVars
PartsLiveSpec == PartsSpec /\ WF_movingVars(Driven)

-----------------------------------------------------------------------------
\* While a takeover is under way or has failed, only the full input budget
\* spent puts a file of the player's own choice in gameplay: neither a held
\* confirm before the claim is driven nor one after it gave up.
NoFileByAccident == Claim!NoFileByAccident

\* What is committed for a session is a run of its own: never the cleared slot,
\* the player's file or a run started under another claim.  And the commit leaves the
\* game's own writes off, even if the console re-enabled them behind the claim's back.
CommitsOwnRun == Claim!CommitsOwnRun

\* A claim never waits for ever, and the player always gets the controller back.
ClaimEnds == Claim!ClaimEnds

\* What reaches the multiworld is a death of the player's own, all of it and no echo:
\* the received ones stay here, and so do those a spark may still undo.
SendsOwnDeaths == Death!SendsOwnDeaths

\* A living player is killed only for a received death of this connection that
\* no other death has answered: one exchange costs one life.
OneLifePerBounce == Death!OneLifePerBounce

\* A death the mod requested for a received one is never sent back, however
\* long it takes to land and however often the world freezes in between.
NoEcho == Death!NoEcho

\* Once a refusal has been acted on and the link is at rest, the mod is not in
\* a multiworld, whichever thread connected when, unless the user turned the
\* enforcement off or a connect() was caught between its check and its command.
RefusalReachesBack == Safety!RefusalReachesBack

\* The verdict settles once the ticks run, on a build whose hooks never fire too,
\* and then never changes: hooks that fire late do not lift a refusal, and the
\* build that passed is not refused in mid-session.
VerdictSettles == Safety!VerdictSettles

\* A modifier that is on is one the player chose, one a running trap forces, or
\* one whose lift is being retried: none is ever stranded.  And out of gameplay
\* nothing is forced, once a tick can write.
NothingStranded == Trapped!NothingStranded

\* The mod never takes away a modifier the player chose for himself, nor one that a
\* trap goes on forcing: no older lift ends a trap armed anew.
LiftsOnlyItsOwn == Trapped!LiftsOnlyItsOwn

\* Once ticked, a session's own run has the forced modifiers and is enforced; once
\* drained, it stays locked out of the vendors through every disconnect.
RunsAreBound == Bound!RunsAreBound

\* The durable writes touch the run of the session they are made for, and not the
\* player's own file or another session's run.  They never take the last weapon, and
\* where the intro's chest is demoted there is a weapon to arm.
OnlyBoundSave == Bound!OnlyBoundSave

\* In a seed whose keys are items, the keys of a run are the ones received and
\* the ones no location stands for, less the locks opened: no location of the
\* seed hands out its own, and no lock undoes what was cancelled or credited.  In
\* the other modes no key is ever of use, whatever a save brings back.
KeysBalance == Kears!KeysBalance

\* A run's world is built with everything the record held, and what the server
\* dropped, already collected, though only the number of them is compared.
NativeBitsFollow == Kears!NativeBitsFollow

\* No boss is reported that the player has not beaten, for what a save was born
\* with or brings back is no kill; and none that he has beaten goes unreported,
\* however the baseline moves.
KillsReported == Bosses!KillsReported

\* No frame mixes the resources of two swapchains.  If not SignalFails, that is if no fence
\* is left reset by two submissions in a row that failed, no present waits for ever, and
\* once the game renders, with the hooks that draw in place, input does not pile up: it is
\* drained or dropped whatever else failed when.  As long as no call has failed, the game is
\* deprived of its input only by a window that is on the screen.
GameGoesOn == Vulkan!GameGoesOn

\* No frame is recorded into a back buffer that was released for a resize and not
\* had again, and what the GPU still draws into is not released.  Queued messages
\* are drained as long as the overlay is not inert, also while the swapchain
\* presented is not the one it was made for.
TargetsLive == Direct!TargetsLive

\* The shoreline ends what was not granted, and nothing else.
ShorelineHolds == Gated!ShorelineHolds

\* Nobody rides to a line without its ticket in a session that gates it, even when the
\* menu was opened after the visit that unlocked the line and before the clamp.  The
\* pass is not had from a machine that is no check, even while it still prompts; and it
\* stops prompting within one interval of ticks of the player's arrival.
TravelIsGranted == Station!TravelIsGranted

\* The mod writes durable fields of the bound save only: no line is taken from a run
\* of the player's own.
OwnLinesKept == Station!OwnLinesKept

\* What the items of a session removed is open, in the room and for no other session.
LocksFollow == Kept!LocksFollow

\* Both walks find their objects in every room: the switches if these are not built
\* Piecemeal, the vendor whenever he is built.
WalksFind == Rooms!WalksFind

\* A tick in play leaves the player every upgrade received, also in a run that was
\* loaded again without the save that would have held them; a session's run has none
\* the server did not send, for the new file's kit is gone; and one received in play
\* raises the ceiling and neither heals nor hurts.
CapacityFollows == Capacities!CapacityFollows

\* No stat is bought past what this session has received for it or slot data's ceiling,
\* and what is bought stays; the player never fights with the level that only the gate should see;
\* the menu opens for a player whom only the caps stop; and the cap in the text is the
\* one in force, also when it has changed under an open menu.
BoneUpHonest == Bones!BoneUpHonest

=============================================================================
