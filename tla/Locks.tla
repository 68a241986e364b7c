------------------------------- MODULE Locks -------------------------------
(***************************************************************************)
(* The kear locks that received items remove.  A registry of their slots   *)
(* is written into the live save's unlock bits, so that they spawn open,   *)
(* and swept over what has spawned already: the key blocks of the world's  *)
(* lists and the chests the mod follows through weak pointers.             *)
(***************************************************************************)
EXTENDS Naturals, FiniteSets

CONSTANTS
    Session, Nobody,
    Lock,           \* slots of the collection table
    BitOf,          \* their unlock bits; 255 is the table's "none"
    Chest,          \* the chests of a room, each with a lock's slot
    SlotOf,
    MaxTrackedChests

LocksAssumption == Nobody \notin Session

NoBit == 255        \* kUnlockBitNone

VARIABLES
    session, received,      \* the session served, and every session's received locks
    removed,                \* LockRegistry
    run, bits, committed,   \* the live save: whose, its bits; the saved ones
    opened,                 \* for the properties: what kears opened in a session's runs
    inRoom,                 \* a world with a live player
    blocks,                 \* the key blocks standing in the room
    alive, locked,          \* its chests, and the locked ones
    tracked,                \* g_chests: the chests behind the weak pointers
    swept                   \* for the properties: the last step was a sweep

saveVars == <<run, bits, opened, committed>>
roomVars == <<inRoom, blocks, alive, locked, tracked>>
vars == <<session, received, removed, saveVars, roomVars, swept>>

Init ==
    /\ session = Nobody /\ received = [s \in Session |-> {}] /\ removed = {}
    /\ run = Nobody /\ bits = {}
    /\ committed = [s \in Session |-> {}] /\ opened = [s \in Session |-> {}]
    /\ inRoom = FALSE /\ blocks = {} /\ alive = {} /\ locked = {} /\ tracked = {}
    /\ swept = FALSE

BitsOf(ls) == {BitOf[l] : l \in ls}
Spawning(ls) == {l \in ls : BitOf[l] \notin bits}

-----------------------------------------------------------------------------
(* The game *)

\* At the title: a takeover loads the run of the session that is served.
OpenRun ==
    /\ run = Nobody /\ session # Nobody
    /\ run' = session /\ bits' = committed[session]
    /\ swept' = FALSE
    /\ UNCHANGED <<session, received, removed, committed, opened, roomVars>>

QuitToTitle ==
    /\ run # Nobody /\ ~inRoom /\ run' = Nobody
    /\ swept' = FALSE
    /\ UNCHANGED <<session, received, removed, bits, opened, committed, roomVars>>

GameSaves ==
    /\ run # Nobody /\ committed' = [committed EXCEPT ![run] = bits]
    /\ swept' = FALSE
    /\ UNCHANGED <<session, received, removed, run, bits, opened, roomVars>>

\* The chests the mod goes on to follow when the game makes cs: their callback takes
\* no more handles than MaxTrackedChests, dead ones counted.
Follows(cs) ==
    {t \in SUBSET (tracked \cup cs) :
        /\ tracked \subseteq t
        /\ Cardinality(t) <= MaxTrackedChests
        /\ t # tracked \cup cs => Cardinality(t) = MaxTrackedChests}

\* The world goes with what is in it, and chest_hooks' on_world_destroy drops the handles.
LeaveRoom ==
    /\ run # Nobody /\ inRoom
    /\ inRoom' = FALSE /\ blocks' = {} /\ alive' = {} /\ locked' = {} /\ tracked' = {}
    /\ swept' = FALSE
    /\ UNCHANGED <<session, received, removed, saveVars>>

\* A room's locks read their bits as they spawn.
EnterRoom ==
    /\ run # Nobody /\ ~inRoom /\ inRoom' = TRUE
    /\ blocks' = Spawning(Lock) /\ swept' = FALSE
    /\ UNCHANGED <<session, received, removed, saveVars, alive, locked, tracked>>

ChestConstruct ==
    /\ inRoom
    /\ \E c \in Chest \ alive :
         /\ c \notin tracked
         /\ alive' = alive \cup {c}
         /\ locked' = IF BitOf[SlotOf[c]] \in bits THEN locked ELSE locked \cup {c}
         /\ tracked' \in Follows({c})
    /\ swept' = FALSE
    /\ UNCHANGED <<session, received, removed, saveVars, inRoom, blocks>>

\* Freed between two sweeps: the weak pointer goes null and keeps its place.
ChestFreed ==
    /\ \E c \in alive : alive' = alive \ {c} /\ locked' = locked \ {c}
    /\ swept' = FALSE
    /\ UNCHANGED <<session, received, removed, saveVars, inRoom, blocks, tracked>>

UseKear ==
    /\ inRoom
    /\ \E l \in blocks :
         /\ BitOf[l] # NoBit
         /\ blocks' = blocks \ {l} /\ bits' = bits \cup {BitOf[l]}
         /\ opened' = [opened EXCEPT ![run] = @ \cup {l}]
    /\ swept' = FALSE
    /\ UNCHANGED <<session, received, removed, run, committed, inRoom, alive, locked, tracked>>

GameStep ==
    \/ OpenRun \/ QuitToTitle \/ GameSaves \/ EnterRoom \/ LeaveRoom
    \/ ChestConstruct \/ ChestFreed \/ UseKear

-----------------------------------------------------------------------------
(* The session *)

ItemReceived ==
    /\ session # Nobody
    /\ \E l \in Lock \ received[session] :
         received' = [received EXCEPT ![session] = @ \cup {l}]
    /\ swept' = FALSE
    /\ UNCHANGED <<session, removed, saveVars, roomVars>>

\* Seeded fault: what one connection removed stays removed for the next.
KeptRegistry == removed

\* The registry a new session starts from.
ClearedRegistry == {}

\* HookManager::clear_session_state.  A player who keeps to the title between two
\* sessions is assumed here; InboundGrants is about the other kind.
SessionChanges ==
    /\ run = Nobody
    /\ \E s \in Session \ {session} : session' = s
    /\ removed' = ClearedRegistry
    /\ swept' = FALSE
    /\ UNCHANGED <<received, saveVars, roomVars>>

-----------------------------------------------------------------------------
(* The mod *)

\* HookManager::seed_kear_blocks, in every tick.
SeedKearBlocks ==
    /\ session # Nobody /\ removed' = removed \cup received[session]
    /\ swept' = FALSE
    /\ UNCHANGED <<session, received, saveVars, roomVars>>

\* The bits seed_removed_locks sets: slots without one are skipped.
SeededBits(ls) == BitsOf(ls) \ {NoBit}

\* Seeded fault: the handle that takes a dead one's place is stepped over.
SweptSteppingOver ==
    IF tracked \subseteq alive \/ tracked \cap alive = {} THEN tracked \cap alive
    ELSE (tracked \cap alive) \ {CHOOSE c \in tracked \cap alive : TRUE}

\* The chests a sweep of the handles reaches; the dead ones are dropped on the way.
Swept == tracked \cap alive

\* HookManager::drain: the seeding, sweep_locks and ChestHooks::sweep.  The live save's
\* slot is there from the moment a run is opened.
Drain ==
    /\ run # Nobody
    /\ bits' = bits \cup SeededBits(removed)
    /\ blocks' = IF inRoom THEN blocks \ removed ELSE blocks
    /\ locked' = {c \in locked : c \notin Swept \/ SlotOf[c] \notin removed}
    /\ tracked' = tracked \cap alive
    /\ swept' = inRoom
    /\ UNCHANGED <<session, received, removed, run, opened, committed, inRoom, alive>>

Next == GameStep \/ ItemReceived \/ SessionChanges \/ SeedKearBlocks \/ Drain
Spec == Init /\ [][Next]_vars

-----------------------------------------------------------------------------
(* Properties *)

\* After a sweep nothing in the room stands locked that the registry removed: not what
\* spawned before the item came, not a chest whose handle moved.  Only a chest beyond
\* the handles the mod keeps may stay locked.
RemovedStandOpen ==
    swept => /\ blocks \cap removed = {}
             /\ \A c \in locked : SlotOf[c] \in removed => c \notin tracked

\* A saved run holds unlock bits of locks its own session received, or that a kear
\* opened, and no others: nothing of the session before, no bit that is no lock's.
UnlocksAreOwn ==
    \A s \in Session :
        committed[s] \subseteq BitsOf(received[s] \cup opened[s]) \ {NoBit}

\* What the items of a session removed is open, in the room and for no other session.
LocksFollow == RemovedStandOpen /\ UnlocksAreOwn
=============================================================================
