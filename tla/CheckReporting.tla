--------------------------- MODULE CheckReporting ---------------------------
(***************************************************************************)
(* How a check the player makes, and the goal, reach the multiworld server *)
(* of the session the run belongs to, across dropped links, reconnects,    *)
(* changes of session and crashes; and how the checks the server knows of  *)
(* come back into the session's record.                                    *)
(*                                                                         *)
(* Three threads share two queues and one flag:                            *)
(*   net      ApLink::run: runs the commands, polls the client, whose      *)
(*            callbacks push the events and set the flag connected_        *)
(*   game     App::drive_tick: drains the events, ticks the hooks, then    *)
(*            lets the resend gate read the flag; pickups between ticks    *)
(*   overlay  connect and disconnect, which only push a command            *)
(* The flag is read when the tick is nearly over and was drained at its    *)
(* start: the net thread runs in between.                                  *)
(***************************************************************************)
EXTENDS Naturals, Sequences

CONSTANTS
    Session,      \* the (seed, slot) pairs the player may connect to
    NoSession,    \* none of them
    Location,     \* location ids: every seed numbers its own from the same base
    Goal,         \* the goal status, reported to the server like a check
    Winnable,     \* bound: the sessions whose goal the player may meet
    QuickRejoin,  \* the link may drop and rejoin between two samples of the gate
    Keeps,        \* whether the client keeps what it gets outside its room
    EarlyQuit,    \* the player may disconnect before the connection is up
    BadSlotData,  \* the server may send slot_data with a key of the wrong type
    MaxEvents,    \* bound on the events not drained yet
    MaxCommands   \* bound on the commands not run yet

Message == Location \cup {Goal}

ASSUME CheckReportingAssumption ==
    /\ NoSession \notin Session
    /\ Goal \notin Location
    /\ Winnable \subseteq Session
    /\ QuickRejoin \in BOOLEAN /\ EarlyQuit \in BOOLEAN /\ BadSlotData \in BOOLEAN
    /\ Keeps \subseteq BOOLEAN /\ Keeps # {}
    /\ MaxEvents \in Nat /\ MaxCommands \in Nat

VARIABLES
    client,    \* ApLink::client_: the session it was created to join, if any
    joined,    \* the client is in its room
    wire,      \* what the client writes still reaches the server
    deadline,  \* ApLink::connect_deadline_ is armed
    handler,   \* where the slot-connected callback is
    held,      \* what the client keeps until it is in its room
    last,      \* ApLink::session_seed_ and session_slot_
    linkUp,    \* ApLink::connected_
    commands,  \* ApLink::commands_
    events,    \* ApLink::events_
    session,   \* the session of ApState, set by ApConnected
    authed,    \* ApState::authenticated
    pending,   \* ApState::server_checked_pending_
    waiting,   \* ApState::phase_ is Connecting
    bound,     \* the session of save_state_, if the bridge has one
    cached,    \* the session the container store has loaded
    checked,   \* ApSaveState::checked_, staged in that container
    saved,     \* the checked set in each session's container file
    latched,   \* ConnectResendGate::latched_
    sampled,   \* what the gate last read of connected_, kept as history
    goalSent,  \* RandoBridge::goal_sent_
    inRun,     \* the player is in a run of the current session
    won,       \* the run has met the goal condition
    pc,        \* where drive_tick is
    server,    \* what the server of each session has been told, or knew
    earned     \* what each session is entitled to, made in its run or collected

clientVars == <<client, joined, wire, deadline, handler, held, last>>
linkVars   == <<linkUp, commands, events>>
stateVars  == <<session, authed, pending, waiting>>
recordVars == <<bound, cached, checked, saved>>
onceVars   == <<latched, sampled, goalSent>>
runVars    == <<inRun, won>>
worldVars  == <<server, earned>>
vars == <<clientVars, linkVars, stateVars, recordVars, onceVars, runVars, pc,
          worldVars>>

Event   == [kind : {"connecting", "ended", "connected", "checked", "down"},
            of : Session \cup {NoSession}, ids : SUBSET Location]
Command == [op : {"connect", "disconnect", "send"},
            to : Session \cup {NoSession}, ids : SUBSET Message]

Init ==
    /\ client = NoSession /\ joined = FALSE /\ wire = FALSE /\ deadline = FALSE
    /\ handler = "none" /\ held = {} /\ last = NoSession
    /\ linkUp = FALSE /\ commands = <<>> /\ events = <<>>
    /\ session = NoSession /\ authed = FALSE /\ pending = {} /\ waiting = FALSE
    /\ bound = NoSession /\ cached = NoSession /\ checked = {}
    /\ saved = [s \in Session |-> {}]
    /\ latched = FALSE /\ sampled = FALSE /\ goalSent = FALSE
    /\ inRun = FALSE /\ won = FALSE /\ pc = "idle"
    /\ server = [s \in Session |-> {}]
    /\ earned = [s \in Session |-> {}]

-----------------------------------------------------------------------------
(***************************************************************************)
(* The queues.                                                             *)
(***************************************************************************)
Connecting      == [kind |-> "connecting", of |-> NoSession, ids |-> {}]
Down            == [kind |-> "down", of |-> NoSession, ids |-> {}]
Ended           == [kind |-> "ended", of |-> NoSession, ids |-> {}]
ConnectedTo(s)  == [kind |-> "connected", of |-> s, ids |-> {}]
CheckedIds(ids) == [kind |-> "checked", of |-> NoSession, ids |-> ids]

Connect(s) == [op |-> "connect", to |-> s, ids |-> {}]
Disconnect == [op |-> "disconnect", to |-> NoSession, ids |-> {}]
Send(ids)  == [op |-> "send", to |-> NoSession, ids |-> ids]

Enqueue(cmd) == commands' = Append(commands, cmd)

\* Room for what one callback may push.
Room == Len(events) < MaxEvents

\* Ids written to the session's server: they arrive, or the socket is already
\* gone and the error is discarded.
Reaches(ids) ==
    server' = IF wire /\ ids # {} THEN [server EXCEPT ![client] = @ \cup ids] ELSE server

-----------------------------------------------------------------------------
(***************************************************************************)
(* The net thread: commands.                                               *)
(***************************************************************************)
\* do_disconnect, then `next` as the new client.
Replace(next) ==
    /\ client' = next
    /\ joined' = FALSE /\ wire' = FALSE /\ held' = {}
    /\ deadline' = (next # NoSession)
    /\ linkUp' = FALSE
    /\ events' = (IF linkUp THEN Append(events, Down) ELSE events)
                 \o (IF next # NoSession THEN <<Connecting>> ELSE <<>>)
    /\ UNCHANGED <<handler, last>>

RunConnect ==
    /\ Head(commands).op = "connect"
    /\ \/ Replace(Head(commands).to)
       \/ \* refused before a client exists: ApConnectionRefused
          /\ client' = NoSession
          /\ joined' = FALSE /\ wire' = FALSE /\ held' = {} /\ deadline' = FALSE
          /\ linkUp' = FALSE
          /\ events' = Append(events, Down)
          /\ UNCHANGED <<handler, last>>
    /\ UNCHANGED server

RunDisconnect ==
    /\ Head(commands).op = "disconnect"
    /\ Replace(NoSession)
    /\ UNCHANGED server

\* LocationChecks or StatusUpdate.  What the client does outside its room is
\* not this code's, hence Keeps.
RunSend ==
    /\ Head(commands).op = "send"
    /\ IF client # NoSession /\ joined
       THEN Reaches(Head(commands).ids) /\ UNCHANGED held
       ELSE /\ UNCHANGED server
            /\ \E keep \in Keeps :
                   held' = IF keep /\ client # NoSession
                           THEN held \cup Head(commands).ids ELSE held
    /\ UNCHANGED <<client, joined, wire, deadline, handler, last, linkUp, events>>

RunCommand ==
    /\ handler = "none" /\ commands # <<>> /\ Room
    /\ RunConnect \/ RunDisconnect \/ RunSend
    /\ commands' = Tail(commands)
    /\ UNCHANGED <<stateVars, recordVars, onceVars, runVars, pc, earned>>

-----------------------------------------------------------------------------
(***************************************************************************)
(* The net thread: the client's callbacks, from poll.                      *)
(***************************************************************************)
\* The server let the slot in.  A session other than the last one is announced
\* before anything else of this connection.
SlotConnected ==
    /\ client # NoSession /\ ~joined /\ handler = "none"
    /\ QuickRejoin \/ ~sampled
    /\ Room /\ Len(commands) < MaxCommands
    /\ joined' = TRUE /\ wire' = TRUE /\ deadline' = FALSE
    /\ last' = client
    /\ events' = IF client # last THEN Append(events, Ended) ELSE events
    /\ handler' = "let in"
    /\ UNCHANGED <<client, held, linkUp, commands, stateVars, recordVars, onceVars,
                   runVars, pc, worldVars>>

PushConnected ==
    /\ handler = "let in"
    /\ events' = Append(events, ConnectedTo(client))
    /\ handler' = "pushed"
    /\ UNCHANGED <<client, joined, wire, deadline, held, last, linkUp, commands,
                   stateVars, recordVars, onceVars, runVars, pc, worldVars>>

\* connected_ is published last.
PublishConnected ==
    /\ handler = "pushed"
    /\ linkUp' = TRUE
    /\ handler' = "published"
    /\ UNCHANGED <<client, joined, wire, deadline, held, last, commands, events,
                   stateVars, recordVars, onceVars, runVars, pc, worldVars>>

\* Seeded fault: the server's statuses are reported as if they were locations.
ReportCheckedAll ==
    /\ handler = "published"
    /\ handler' = "none"
    /\ Reaches(held)
    /\ held' = {}
    /\ events' = Append(events, CheckedIds(server'[client]))
    /\ UNCHANGED <<client, joined, wire, deadline, last, linkUp, commands, stateVars,
                   recordVars, onceVars, runVars, pc, earned>>

\* Seeded fault: only changes are reported, not what the server had checked.
ReportCheckedNothing ==
    /\ handler = "published"
    /\ handler' = "none"
    /\ Reaches(held)
    /\ held' = {}
    /\ UNCHANGED <<client, joined, wire, deadline, last, linkVars, stateVars,
                   recordVars, onceVars, runVars, pc, earned>>

\* Then the client reports every location its server has checked, and writes
\* what it kept.
ReportChecked ==
    /\ handler = "published"
    /\ handler' = "none"
    /\ Reaches(held)
    /\ held' = {}
    /\ events' = Append(events, CheckedIds(server'[client] \cap Location))
    /\ UNCHANGED <<client, joined, wire, deadline, last, linkUp, commands, stateVars,
                   recordVars, onceVars, runVars, pc, earned>>

\* parse_slot_data throws out of the slot-connected callback, which has cleared
\* the deadline by then: the client is dropped and nothing is pushed.
SlotDataThrows ==
    /\ BadSlotData
    /\ client # NoSession /\ ~joined /\ handler = "none"
    /\ client' = NoSession
    /\ wire' = FALSE /\ held' = {} /\ deadline' = FALSE
    /\ UNCHANGED <<joined, handler, last, linkVars, stateVars, recordVars, onceVars,
                   runVars, pc, worldVars>>

\* The socket dies, and nothing has noticed yet.
SocketDies ==
    /\ wire
    /\ wire' = FALSE
    /\ UNCHANGED <<client, joined, deadline, handler, held, last, linkVars, stateVars,
                   recordVars, onceVars, runVars, pc, worldVars>>

\* The socket-disconnected callback; the client goes on trying to rejoin.
SocketDisconnected ==
    /\ client # NoSession /\ handler = "none" /\ Room
    /\ joined' = FALSE /\ wire' = FALSE /\ deadline' = FALSE
    /\ linkUp' = FALSE
    /\ events' = Append(events, Down)
    /\ UNCHANGED <<client, handler, held, last, commands, stateVars, recordVars,
                   onceVars, runVars, pc, worldVars>>

\* Seeded fault: a client that throws is dropped without a word.
GiveUpSilently ==
    /\ client # NoSession /\ handler = "none" /\ Room
    /\ client' = NoSession
    /\ joined' = FALSE /\ wire' = FALSE /\ held' = {} /\ deadline' = FALSE
    /\ linkUp' = FALSE
    /\ UNCHANGED <<handler, last, commands, events, stateVars, recordVars, onceVars,
                   runVars, pc, worldVars>>

\* poll throws, or the connect deadline passes: the client is dropped.
GiveUp ==
    /\ client # NoSession /\ handler = "none" /\ Room
    /\ client' = NoSession
    /\ joined' = FALSE /\ wire' = FALSE /\ held' = {} /\ deadline' = FALSE
    /\ linkUp' = FALSE
    /\ events' = IF linkUp \/ deadline THEN Append(events, Down) ELSE events
    /\ UNCHANGED <<handler, last, commands, stateVars, recordVars, onceVars, runVars,
                   pc, worldVars>>

\* Collect, or another client of the same slot: the server checks location l
\* and tells a client that is in the room.
ServerCollects(s, l) ==
    /\ l \notin server[s] /\ handler = "none"
    /\ server' = [server EXCEPT ![s] = @ \cup {l}]
    /\ earned' = [earned EXCEPT ![s] = @ \cup {l}]
    /\ IF client = s /\ joined /\ wire
       THEN Room /\ events' = Append(events, CheckedIds({l}))
       ELSE UNCHANGED events
    /\ UNCHANGED <<clientVars, linkUp, commands, stateVars, recordVars, onceVars,
                   runVars, pc>>

NetStep == RunCommand \/ PushConnected \/ PublishConnected \/ ReportChecked

NetFault == \/ SlotConnected \/ SlotDataThrows \/ SocketDies \/ SocketDisconnected \/ GiveUp
            \/ \E s \in Session, l \in Location : ServerCollects(s, l)

-----------------------------------------------------------------------------
(***************************************************************************)
(* The overlay thread.  The player asks for another server only from the   *)
(* title screen, where the server and slot are bound by design.            *)
(***************************************************************************)
UserConnects(s) ==
    /\ Len(commands) < MaxCommands
    /\ s = session \/ ~inRun
    /\ Enqueue(Connect(s))
    /\ UNCHANGED <<clientVars, linkUp, events, stateVars, recordVars, onceVars,
                   runVars, pc, worldVars>>

\* The login window offers it once connected, the console at any time.
UserDisconnects ==
    /\ Len(commands) < MaxCommands
    /\ EarlyQuit \/ (linkUp /\ commands = <<>>)
    /\ Enqueue(Disconnect)
    /\ UNCHANGED <<clientVars, linkUp, events, stateVars, recordVars, onceVars,
                   runVars, pc, worldVars>>

-----------------------------------------------------------------------------
(***************************************************************************)
(* The game thread: drive_tick.                                            *)
(***************************************************************************)
TickBegin ==
    /\ pc = "idle"
    /\ pc' = "drain"
    /\ UNCHANGED <<clientVars, linkVars, stateVars, recordVars, onceVars, runVars,
                   worldVars>>

\* Seeded fault: the ids the previous server reported stay pending.
OnSessionEndedKeepsPending ==
    /\ Head(events).kind = "ended"
    /\ authed' = FALSE
    /\ bound' = NoSession
    /\ latched' = FALSE /\ goalSent' = FALSE
    /\ UNCHANGED <<session, pending, waiting, sampled>>

\* clear_session_state
OnSessionEnded ==
    /\ Head(events).kind = "ended"
    /\ authed' = FALSE /\ pending' = {}
    /\ bound' = NoSession
    /\ latched' = FALSE /\ goalSent' = FALSE
    /\ UNCHANGED <<session, waiting, sampled>>

OnConnecting ==
    /\ Head(events).kind = "connecting"
    /\ waiting' = TRUE
    /\ UNCHANGED <<session, authed, pending, bound, onceVars>>

OnConnected ==
    /\ Head(events).kind = "connected"
    /\ session' = Head(events).of
    /\ authed' = TRUE /\ waiting' = FALSE
    /\ UNCHANGED <<pending, bound, onceVars>>

OnLocationsChecked ==
    /\ Head(events).kind = "checked"
    /\ pending' = pending \cup Head(events).ids
    /\ UNCHANGED <<session, authed, waiting, bound, onceVars>>

\* ApDisconnected or ApConnectionRefused
OnDown ==
    /\ Head(events).kind = "down"
    /\ authed' = FALSE /\ waiting' = FALSE
    /\ UNCHANGED <<session, pending, bound, onceVars>>

\* ApCoordinator::tick takes the whole queue and applies it.  No handler looks
\* at what the net thread does meanwhile, so an event pushed during the drain
\* is as good as one pushed before it, and they are taken one at a time.
ApplyEvent ==
    /\ pc = "drain" /\ events # <<>>
    /\ \/ OnConnecting \/ OnSessionEnded \/ OnConnected
       \/ OnLocationsChecked \/ OnDown
    /\ events' = Tail(events)
    /\ UNCHANGED <<clientVars, linkUp, commands, cached, checked, saved, runVars, pc,
                   worldVars>>

DrainDone ==
    /\ pc = "drain" /\ events = <<>>
    /\ pc' = "hooks"
    /\ UNCHANGED <<clientVars, linkVars, stateVars, recordVars, onceVars, runVars,
                   worldVars>>

\* GoalTracker::evaluate and send_goal
EvaluateGoal ==
    IF authed /\ inRun /\ won /\ ~goalSent
    THEN goalSent' = TRUE /\ Enqueue(Send({Goal}))
    ELSE UNCHANGED <<goalSent, commands>>

\* ensure_inbound_ready: the record of the session, from its container unless
\* that is the one still loaded.
Record == IF cached = session THEN checked ELSE saved[session]

\* ensure_inbound_ready, then reconcile_server_checked.
InboundReady ==
    IF bound = NoSession /\ ~authed THEN UNCHANGED <<bound, cached, checked, pending>>
    ELSE /\ bound' = IF bound = NoSession THEN session ELSE bound
         /\ cached' = bound'
         /\ checked' = pending \cup (IF bound = NoSession THEN Record ELSE checked)
         /\ pending' = {}

HooksTick ==
    /\ pc = "hooks"
    /\ pc' = "gate"
    /\ EvaluateGoal
    /\ InboundReady
    /\ UNCHANGED <<clientVars, linkUp, events, session, authed, waiting, saved, latched,
                   sampled, runVars, worldVars>>

\* Seeded fault: the gate is not re-armed when the link is down.
ResendGateStaysLatched ==
    /\ pc = "gate"
    /\ pc' = "idle"
    /\ sampled' = linkUp
    /\ IF linkUp /\ ~latched /\ bound # NoSession
       THEN latched' = TRUE /\ Enqueue(Send(checked))
       ELSE UNCHANGED <<latched, commands>>
    /\ UNCHANGED <<clientVars, linkUp, events, stateVars, recordVars, goalSent, runVars,
                   worldVars>>

\* ConnectResendGate::fire, and the flush of the whole record.
ResendGate ==
    /\ pc = "gate"
    /\ pc' = "idle"
    /\ sampled' = linkUp
    /\ IF linkUp /\ ~latched /\ bound # NoSession
       THEN latched' = TRUE /\ Enqueue(Send(checked))
       ELSE latched' = (latched /\ linkUp) /\ UNCHANGED commands
    /\ UNCHANGED <<clientVars, linkUp, events, stateVars, recordVars, goalSent, runVars,
                   worldVars>>

Tick == TickBegin \/ ApplyEvent \/ DrainDone \/ HooksTick \/ ResendGate

-----------------------------------------------------------------------------
(***************************************************************************)
(* The player, between two ticks.                                          *)
(***************************************************************************)
\* A run is launched while connected, with no other connection under way, nor one
\* that came and went since the last drain: the player is not that fast.
StartRun ==
    /\ pc = "idle" /\ ~inRun
    /\ authed /\ client = session /\ commands = <<>>
    /\ \A i \in 1..Len(events) : events[i].kind # "ended"
    /\ inRun' = TRUE
    /\ won' \in {FALSE, (Goal \in earned[session])}
    /\ UNCHANGED <<clientVars, linkVars, stateVars, recordVars, onceVars, pc, worldVars>>

EndRun ==
    /\ pc = "idle" /\ inRun
    /\ inRun' = FALSE /\ won' = FALSE
    /\ UNCHANGED <<clientVars, linkVars, stateVars, recordVars, onceVars, pc, worldVars>>

\* on_location_collected: recorded first, if the bridge has a record, then sent
\* if the link looks up.
PlayerCollects(l) ==
    /\ pc = "idle" /\ inRun /\ (bound # NoSession => l \notin checked)
    /\ Len(commands) < MaxCommands
    /\ earned' = [earned EXCEPT ![session] = @ \cup {l}]
    /\ checked' = IF bound = NoSession THEN checked ELSE checked \cup {l}
    /\ IF linkUp THEN Enqueue(Send({l})) ELSE UNCHANGED commands
    /\ UNCHANGED <<clientVars, linkUp, events, stateVars, bound, cached, saved, onceVars,
                   runVars, pc, server>>

PlayerWins ==
    /\ pc = "idle" /\ inRun /\ ~won /\ session \in Winnable
    /\ won' = TRUE
    /\ earned' = [earned EXCEPT ![session] = @ \cup {Goal}]
    /\ UNCHANGED <<clientVars, linkVars, stateVars, recordVars, onceVars, inRun, pc,
                   server>>

\* The game saves, and the container of the session is written.
GameSave ==
    /\ pc = "idle" /\ inRun
    /\ saved' = [saved EXCEPT ![bound] = checked]
    /\ UNCHANGED <<clientVars, linkVars, stateVars, bound, cached, checked, onceVars,
                   runVars, pc, worldVars>>

\* The process ends at any step; only the containers and the servers remain.
Crash ==
    /\ client' = NoSession /\ joined' = FALSE /\ wire' = FALSE /\ deadline' = FALSE
    /\ handler' = "none" /\ held' = {} /\ last' = NoSession
    /\ linkUp' = FALSE /\ commands' = <<>> /\ events' = <<>>
    /\ session' = NoSession /\ authed' = FALSE /\ pending' = {} /\ waiting' = FALSE
    /\ bound' = NoSession /\ cached' = NoSession /\ checked' = {}
    /\ latched' = FALSE /\ sampled' = FALSE /\ goalSent' = FALSE
    /\ inRun' = FALSE /\ won' = FALSE /\ pc' = "idle"
    /\ UNCHANGED <<saved, worldVars>>

Player == \/ StartRun \/ EndRun \/ PlayerWins \/ GameSave
          \/ \E l \in Location : PlayerCollects(l)
          \/ \E s \in Session : UserConnects(s)
          \/ UserDisconnects

Next == NetStep \/ NetFault \/ Tick \/ Player \/ Crash

Spec == Init /\ [][Next]_vars

\* Both loops go round: the net thread runs its commands and finishes its
\* callbacks, the game ticks.  Nothing is assumed of the network, of the
\* player or of crashes.
Fairness == WF_vars(NetStep) /\ WF_vars(Tick)

LiveSpec == Spec /\ Fairness

-----------------------------------------------------------------------------
(***************************************************************************)
(* Properties.                                                             *)
(***************************************************************************)
\* Every variable stays in its type.
TypeOK ==
    /\ client \in Session \cup {NoSession} /\ last \in Session \cup {NoSession}
    /\ joined \in BOOLEAN /\ wire \in BOOLEAN /\ deadline \in BOOLEAN
    /\ handler \in {"none", "let in", "pushed", "published"}
    /\ held \in SUBSET Message
    /\ linkUp \in BOOLEAN
    /\ commands \in Seq(Command) /\ events \in Seq(Event)
    /\ session \in Session \cup {NoSession} /\ authed \in BOOLEAN
    /\ pending \in SUBSET Location /\ waiting \in BOOLEAN
    /\ bound \in Session \cup {NoSession} /\ cached \in Session \cup {NoSession}
    /\ checked \in SUBSET Location
    /\ saved \in [Session -> SUBSET Location]
    /\ latched \in BOOLEAN /\ sampled \in BOOLEAN /\ goalSent \in BOOLEAN
    /\ inRun \in BOOLEAN /\ won \in BOOLEAN
    /\ pc \in {"idle", "drain", "hooks", "gate"}
    /\ server \in [Session -> SUBSET Message]
    /\ earned \in [Session -> SUBSET Message]

\* The record of a session, in memory and in its container, only holds checks
\* made in that session's run or known to that session's server: nothing a
\* previous server reported lands in the record of the next one.
RecordIsOwn ==
    /\ bound # NoSession => checked \subseteq earned[bound] \cup server[bound]
    /\ \A s \in Session : saved[s] \subseteq earned[s] \cup server[s]

\* Once nothing is left to drain and no callback is under way, the game thread
\* and the link agree on whether there is a connection, and to which session.
GameAgreesWithLink ==
    events = <<>> /\ handler = "none" =>
        /\ authed = linkUp
        /\ linkUp => joined /\ session = client

\* An attempt to connect that the game thread waits for always has an end: once
\* nothing is left to drain, the deadline that would report it is armed.
AttemptHasDeadline == events = <<>> /\ handler = "none" /\ waiting => deadline

\* No server is ever told of a check nobody made in its session.
NoForeignChecks == \A s \in Session : server[s] \subseteq earned[s]

\* The player is in the room of the session, and the link works.
Online == /\ client = session /\ joined /\ wire /\ linkUp
          /\ authed /\ bound = session

\* Once the link stays up, the server learns every check of the record, those
\* made offline or on a dying socket included.
EventuallyReported ==
    <>[]Online => <>[](bound # NoSession /\ checked \subseteq server[bound])

\* Once the link stays up, the record learns every check the server has, those
\* a crash took out of the record included.
ServerChecksLearned ==
    <>[]Online => <>[](bound # NoSession /\ server[bound] \cap Location \subseteq checked)

\* Once the player stays in a won run with the link up, the server knows that
\* the goal was reached.
GoalReported ==
    <>[](Online /\ inRun /\ won) => <>(bound # NoSession /\ Goal \in server[bound])
=============================================================================
