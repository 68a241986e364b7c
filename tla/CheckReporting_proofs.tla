----------------------- MODULE CheckReporting_proofs -----------------------
(***************************************************************************)
(* Proofs about CheckReporting, for every set of sessions and locations,   *)
(* every bound on the queues and every behaviour of the library and of the *)
(* player that the constants allow.                                        *)
(***************************************************************************)
EXTENDS CheckReporting, SequenceTheorems, TLAPS

\* The type invariant by the parts of the state an action leaves alone
\* together, with who is connected wherever that is used: inside a callback,
\* in the events that announce a session, and to an authenticated game thread.
ClientOK ==
    /\ client \in Session \cup {NoSession} /\ last \in Session \cup {NoSession}
    /\ joined \in BOOLEAN /\ wire \in BOOLEAN /\ deadline \in BOOLEAN
    /\ handler \in {"none", "let in", "pushed", "published"}
    /\ handler # "none" => client # NoSession
    /\ held \in SUBSET Message

\* A queue of events that announces only known sessions.
Known(q) == \A i \in 1..Len(q) : q[i].kind = "connected" => q[i].of # NoSession

EventsOK == events \in Seq(Event) /\ Known(events)

LinkOK == linkUp \in BOOLEAN /\ commands \in Seq(Command) /\ EventsOK

StateOK ==
    /\ session \in Session \cup {NoSession} /\ authed \in BOOLEAN
    /\ authed => session # NoSession
    /\ pending \in SUBSET Location /\ waiting \in BOOLEAN

RecordOK ==
    /\ bound \in Session \cup {NoSession} /\ cached \in Session \cup {NoSession}
    /\ checked \in SUBSET Location
    /\ saved \in [Session -> SUBSET Location]

OnceOK == latched \in BOOLEAN /\ sampled \in BOOLEAN /\ goalSent \in BOOLEAN

RunOK == inRun \in BOOLEAN /\ won \in BOOLEAN

PcOK == pc \in {"idle", "drain", "hooks", "gate"}

WorldOK ==
    /\ server \in [Session -> SUBSET Message]
    /\ earned \in [Session -> SUBSET Message]

Typed == /\ ClientOK /\ LinkOK /\ StateOK /\ RecordOK
         /\ OnceOK /\ RunOK /\ PcOK /\ WorldOK

\* A part that a step leaves alone stays well-typed.
LEMMA Kept ==
    /\ ClientOK /\ UNCHANGED clientVars => ClientOK'
    /\ LinkOK /\ UNCHANGED linkVars => LinkOK'
    /\ StateOK /\ UNCHANGED stateVars => StateOK'
    /\ RecordOK /\ UNCHANGED recordVars => RecordOK'
    /\ OnceOK /\ UNCHANGED onceVars => OnceOK'
    /\ RunOK /\ UNCHANGED runVars => RunOK'
    /\ PcOK /\ UNCHANGED pc => PcOK'
    /\ WorldOK /\ UNCHANGED worldVars => WorldOK'
<1>1. ClientOK /\ UNCHANGED clientVars => ClientOK'
  BY Zenon DEF ClientOK, clientVars
<1>2. LinkOK /\ UNCHANGED linkVars => LinkOK'
  BY Zenon DEF LinkOK, EventsOK, Known, linkVars
<1>3. StateOK /\ UNCHANGED stateVars => StateOK'
  <2>1. SUFFICES ASSUME StateOK, UNCHANGED stateVars  PROVE StateOK'
    OBVIOUS
  <2>2. /\ session' = session /\ authed' = authed
        /\ pending' = pending /\ waiting' = waiting
    BY <2>1, Zenon DEF stateVars
  <2>3. /\ session' \in Session \cup {NoSession} /\ authed' \in BOOLEAN
        /\ pending' \in SUBSET Location /\ waiting' \in BOOLEAN
    BY <2>1, <2>2, Zenon DEF StateOK
  <2>4. authed' => session' # NoSession
    BY <2>1, <2>2, Zenon DEF StateOK
  <2> QED BY <2>3, <2>4, Zenon DEF StateOK
<1>4. RecordOK /\ UNCHANGED recordVars => RecordOK'
  BY Zenon DEF RecordOK, recordVars
<1>5. OnceOK /\ UNCHANGED onceVars => OnceOK'
  BY Zenon DEF OnceOK, onceVars
<1>6. RunOK /\ UNCHANGED runVars => RunOK'
  BY Zenon DEF RunOK, runVars
<1>7. PcOK /\ UNCHANGED pc => PcOK'
  BY Zenon DEF PcOK
<1>8. WorldOK /\ UNCHANGED worldVars => WorldOK'
  BY Zenon DEF WorldOK, worldVars
<1> QED BY <1>1, <1>2, <1>3, <1>4, <1>5, <1>6, <1>7, <1>8

\* Every message of the two queues is an event or a command.
LEMMA QueueTypes ==
    /\ Down \in Event /\ Ended \in Event /\ Connecting \in Event
    /\ \A s \in Session : ConnectedTo(s) \in Event /\ Connect(s) \in Command
    /\ \A ids \in SUBSET Location : CheckedIds(ids) \in Event
    /\ Disconnect \in Command
    /\ \A ids \in SUBSET Message : Send(ids) \in Command
  BY DEF Down, Ended, Connecting, ConnectedTo, Connect, CheckedIds, Disconnect, Send,
         Event, Command

\* Pushing an event that announces no session, or a known one, keeps it so.
LEMMA PushKnown ==
    ASSUME NEW q \in Seq(Event), Known(q), NEW e \in Event,
           e.kind = "connected" => e.of # NoSession
    PROVE  Append(q, e) \in Seq(Event) /\ Known(Append(q, e))
<1>1. /\ Append(q, e) \in Seq(Event) /\ Len(Append(q, e)) = Len(q) + 1
      /\ \A i \in 1..Len(q) : Append(q, e)[i] = q[i]
      /\ Append(q, e)[Len(q) + 1] = e
  OBVIOUS
<1>2. ASSUME NEW i \in 1..Len(Append(q, e)), Append(q, e)[i].kind = "connected"
      PROVE  Append(q, e)[i].of # NoSession
  <2>1. CASE i \in 1..Len(q)
    BY <1>1, <1>2, <2>1 DEF Known
  <2>2. CASE i = Len(q) + 1
    BY <1>1, <1>2, <2>2
  <2> QED BY <1>1, <2>1, <2>2
<1> QED BY <1>1, <1>2 DEF Known

\* The events that announce no session.
LEMMA PlainEvents ==
    /\ Down.kind # "connected" /\ Ended.kind # "connected"
    /\ Connecting.kind # "connected"
    /\ \A ids : CheckedIds(ids).kind # "connected"
    /\ \A s : ConnectedTo(s).kind = "connected" /\ ConnectedTo(s).of = s
  BY DEF Down, Ended, Connecting, CheckedIds, ConnectedTo

\* Taking the first event or command off keeps the rest what it was.
LEMMA TakeKnown ==
    ASSUME NEW q \in Seq(Event), Known(q), q # <<>>
    PROVE  /\ Head(q) \in Event /\ Tail(q) \in Seq(Event) /\ Known(Tail(q))
           /\ Head(q).kind = "connected" => Head(q).of \in Session
<1>1. /\ Head(q) = q[1] /\ 1 \in 1..Len(q) /\ Head(q) \in Event
      /\ Tail(q) \in Seq(Event) /\ Len(Tail(q)) = Len(q) - 1
      /\ \A i \in 1..Len(Tail(q)) : Tail(q)[i] = q[i + 1] /\ i + 1 \in 1..Len(q)
  OBVIOUS
<1>2. Known(Tail(q))
  BY <1>1 DEF Known
<1>3. Head(q).kind = "connected" => Head(q).of \in Session
  BY <1>1 DEF Known, Event
<1> QED BY <1>1, <1>2, <1>3

-----------------------------------------------------------------------------
(***************************************************************************)
(* Type correctness.                                                       *)
(***************************************************************************)
\* What is written to a server, or not, keeps the type of the servers.
LEMMA ReachesType ==
    ASSUME WorldOK, NEW ids \in SUBSET Message, Reaches(ids)
    PROVE  server' \in [Session -> SUBSET Message]
  BY DEF WorldOK, Reaches

\* Replacing or dropping the client keeps the types.
LEMMA ReplaceTyped ==
    ASSUME ClientOK, LinkOK, NEW next \in Session \cup {NoSession}, Replace(next),
           handler = "none"
    PROVE  ClientOK' /\ linkUp' \in BOOLEAN /\ EventsOK'
<1> DEFINE told == IF linkUp THEN Append(events, Down) ELSE events
<1>1. events \in Seq(Event) /\ Known(events)
  BY DEF LinkOK, EventsOK
<1>2. told \in Seq(Event) /\ Known(told)
  BY <1>1, PushKnown, PlainEvents, QueueTypes
<1>3. Append(told, Connecting) \in Seq(Event) /\ Known(Append(told, Connecting))
  BY <1>2, PushKnown, PlainEvents, QueueTypes
<1>4. told \o <<Connecting>> = Append(told, Connecting) /\ told \o <<>> = told
  BY <1>2, QueueTypes
<1>5. events' = told \o (IF next # NoSession THEN <<Connecting>> ELSE <<>>)
  BY Zenon DEF Replace
<1>6. EventsOK'
  BY <1>2, <1>3, <1>4, <1>5 DEF EventsOK
<1>7. linkUp' \in BOOLEAN
  BY Zenon DEF Replace
<1>8. ClientOK'
  <2>1. joined' \in BOOLEAN /\ wire' \in BOOLEAN /\ deadline' \in BOOLEAN
    BY Zenon DEF Replace
  <2>2. client' = next /\ held' = {} /\ handler' = handler /\ last' = last
    BY Zenon DEF Replace
  <2>3. held' \in SUBSET Message
    BY <2>2
  <2> QED BY <2>1, <2>2, <2>3, Zenon DEF ClientOK
<1> QED BY <1>6, <1>7, <1>8

\* The commands, run by the net thread.
LEMMA RunCommandTyped ==
    ASSUME Typed, RunCommand
    PROVE  Typed'
<1>1. /\ commands \in Seq(Command) /\ commands # <<>> /\ handler = "none"
      /\ commands' = Tail(commands) /\ ClientOK /\ LinkOK /\ WorldOK
  BY Zenon DEF RunCommand, Typed, LinkOK
<1>2. Head(commands) \in Command /\ commands' \in Seq(Command)
  BY <1>1
<1>3. /\ Head(commands).to \in Session \cup {NoSession}
      /\ Head(commands).ids \in SUBSET Message
  BY <1>2 DEF Command
<1>4. EventsOK /\ linkUp \in BOOLEAN
  BY DEF Typed, LinkOK
<1>5. Append(events, Down) \in Seq(Event) /\ Known(Append(events, Down))
  BY <1>4, PushKnown, PlainEvents, QueueTypes DEF EventsOK
<1>6. SUFFICES /\ ClientOK' /\ linkUp' \in BOOLEAN /\ EventsOK'
               /\ server' \in [Session -> SUBSET Message]
  <2>1. earned' = earned
    BY Zenon DEF RunCommand
  <2>2. StateOK' /\ RecordOK' /\ OnceOK' /\ RunOK' /\ PcOK'
    BY Kept, Zenon DEF RunCommand, Typed
  <2> QED BY <1>2, <2>1, <2>2, Zenon DEF Typed, LinkOK, WorldOK
<1>7. CASE RunConnect
  <2>1. CASE Replace(Head(commands).to)
    BY <1>1, <1>3, <1>7, <2>1, ReplaceTyped, Zenon DEF RunConnect, WorldOK
  <2>2. CASE ~Replace(Head(commands).to)
    <3>1. /\ joined' \in BOOLEAN /\ wire' \in BOOLEAN /\ deadline' \in BOOLEAN
          /\ linkUp' \in BOOLEAN
      BY <1>7, <2>2, Zenon DEF RunConnect
    <3>2. /\ client' = NoSession /\ held' = {} /\ handler' = handler
          /\ last' = last /\ events' = Append(events, Down) /\ server' = server
      BY <1>7, <2>2, Zenon DEF RunConnect
    <3>3. held' \in SUBSET Message /\ client' \in Session \cup {NoSession}
      BY <3>2
    <3>4. ClientOK'
      BY <1>1, <3>1, <3>2, <3>3, Zenon DEF ClientOK
    <3>5. EventsOK'
      BY <1>5, <3>2, Zenon DEF EventsOK
    <3> QED BY <1>1, <3>1, <3>2, <3>4, <3>5, Zenon DEF WorldOK
  <2> QED BY <2>1, <2>2
<1>8. CASE RunDisconnect
  BY <1>1, <1>8, ReplaceTyped, Zenon DEF RunDisconnect, WorldOK
<1>9. CASE RunSend
  <2>1. server' \in [Session -> SUBSET Message]
    BY <1>1, <1>3, <1>9, ReachesType, Zenon DEF RunSend, WorldOK
  <2>2. held' = held \/ held' = held \cup Head(commands).ids
    BY <1>9, Zenon DEF RunSend
  <2>3. held' \in SUBSET Message
    BY <1>1, <1>3, <2>2 DEF ClientOK
  <2>4. ClientOK'
    BY <1>1, <1>9, <2>3, Zenon DEF RunSend, ClientOK
  <2> QED BY <1>4, <1>9, <2>1, <2>4, Zenon DEF RunSend, EventsOK
<1> QED BY <1>7, <1>8, <1>9, Zenon DEF RunCommand

\* The callbacks of the net thread, and what happens to the link.
LEMMA NetTyped ==
    ASSUME Typed, NetStep \/ NetFault
    PROVE  Typed'
<1>1. EventsOK /\ commands \in Seq(Command) /\ linkUp \in BOOLEAN
  BY DEF Typed, LinkOK
<1>2. /\ Append(events, Down) \in Seq(Event) /\ Known(Append(events, Down))
      /\ Append(events, Ended) \in Seq(Event) /\ Known(Append(events, Ended))
  BY <1>1, PushKnown, PlainEvents, QueueTypes DEF EventsOK
<1>3. ASSUME NEW ids \in SUBSET Location
      PROVE  /\ Append(events, CheckedIds(ids)) \in Seq(Event)
             /\ Known(Append(events, CheckedIds(ids)))
  BY <1>1, PushKnown, PlainEvents, QueueTypes DEF EventsOK
<1>4. {} \in SUBSET Message /\ NoSession \in Session \cup {NoSession}
  OBVIOUS
<1>5. CASE RunCommand
  BY <1>5, RunCommandTyped
<1>6. CASE PushConnected
  <2>1. client \in Session
    BY <1>6 DEF PushConnected, Typed, ClientOK
  <2>2. ConnectedTo(client) \in Event /\ ConnectedTo(client).of # NoSession
    BY <2>1, QueueTypes, PlainEvents, CheckReportingAssumption
  <2>3. EventsOK'
    BY <1>1, <1>6, <2>2, PushKnown DEF PushConnected, EventsOK
  <2>4. LinkOK'
    BY <1>1, <1>6, <2>3, Zenon DEF PushConnected, LinkOK
  <2>5. ClientOK'
    BY <1>6, <2>1, CheckReportingAssumption, Zenon DEF PushConnected, Typed, ClientOK
  <2> QED BY <1>6, <2>4, <2>5, Kept, Zenon DEF PushConnected, Typed
<1>7. CASE PublishConnected
  <2>1. LinkOK'
    BY <1>7, Zenon DEF PublishConnected, Typed, LinkOK, EventsOK, Known
  <2>2. ClientOK'
    BY <1>7, Zenon DEF PublishConnected, Typed, ClientOK
  <2> QED BY <1>7, <2>1, <2>2, Kept, Zenon DEF PublishConnected, Typed
<1>8. CASE ReportChecked
  <2>1. server' \in [Session -> SUBSET Message]
    BY <1>8, ReachesType, Zenon DEF ReportChecked, Typed, ClientOK
  <2>2. events' = Append(events, CheckedIds(server'[client] \cap Location))
    BY <1>8, Zenon DEF ReportChecked
  <2>3. server'[client] \cap Location \in SUBSET Location
    OBVIOUS
  <2>4. EventsOK'
    BY <1>3, <2>2, <2>3 DEF EventsOK
  <2>5. LinkOK'
    BY <1>1, <1>8, <2>4, Zenon DEF ReportChecked, LinkOK
  <2>6. ClientOK'
    BY <1>4, <1>8, Zenon DEF ReportChecked, Typed, ClientOK
  <2>7. WorldOK'
    BY <1>8, <2>1, Zenon DEF ReportChecked, Typed, WorldOK
  <2> QED BY <1>8, <2>5, <2>6, <2>7, Kept, Zenon DEF ReportChecked, Typed
<1>9. CASE SlotConnected
  <2>1. events' = events \/ events' = Append(events, Ended)
    BY <1>9, Zenon DEF SlotConnected
  <2>2. EventsOK'
    BY <1>1, <1>2, <2>1 DEF EventsOK
  <2>3. LinkOK'
    BY <1>1, <1>9, <2>2, Zenon DEF SlotConnected, LinkOK
  <2>4. ClientOK'
    BY <1>9, Zenon DEF SlotConnected, Typed, ClientOK
  <2> QED BY <1>9, <2>3, <2>4, Kept, Zenon DEF SlotConnected, Typed
<1>10. CASE SlotDataThrows
  <2>1. ClientOK'
    BY <1>4, <1>10, Zenon DEF SlotDataThrows, Typed, ClientOK
  <2> QED BY <1>10, <2>1, Kept, Zenon DEF SlotDataThrows, Typed
<1>11. CASE SocketDies
  <2>1. ClientOK'
    BY <1>11, Zenon DEF SocketDies, Typed, ClientOK
  <2> QED BY <1>11, <2>1, Kept, Zenon DEF SocketDies, Typed
<1>12. CASE SocketDisconnected
  <2>1. ClientOK'
    BY <1>12, Zenon DEF SocketDisconnected, Typed, ClientOK
  <2>2. LinkOK'
    BY <1>1, <1>2, <1>12, Zenon DEF SocketDisconnected, LinkOK, EventsOK
  <2> QED BY <1>12, <2>1, <2>2, Kept, Zenon DEF SocketDisconnected, Typed
<1>13. CASE GiveUp
  <2>1. ClientOK'
    BY <1>4, <1>13, Zenon DEF GiveUp, Typed, ClientOK
  <2>2. events' = events \/ events' = Append(events, Down)
    BY <1>13, Zenon DEF GiveUp
  <2>3. EventsOK'
    BY <1>1, <1>2, <2>2 DEF EventsOK
  <2>4. LinkOK'
    BY <1>1, <1>13, <2>3, Zenon DEF GiveUp, LinkOK
  <2> QED BY <1>13, <2>1, <2>4, Kept, Zenon DEF GiveUp, Typed
<1>14. ASSUME NEW s \in Session, NEW l \in Location, ServerCollects(s, l)
       PROVE  Typed'
  <2>1. WorldOK'
    BY <1>14 DEF ServerCollects, Typed, WorldOK, Message
  <2>2. events' = events \/ events' = Append(events, CheckedIds({l}))
    BY <1>14, Zenon DEF ServerCollects
  <2>3. EventsOK'
    BY <1>1, <1>3, <2>2 DEF EventsOK
  <2>4. LinkOK'
    BY <1>1, <1>14, <2>3, Zenon DEF ServerCollects, LinkOK
  <2> QED BY <1>14, <2>1, <2>4, Kept, Zenon DEF ServerCollects, Typed
<1> QED BY <1>5, <1>6, <1>7, <1>8, <1>9, <1>10, <1>11, <1>12, <1>13, <1>14, Zenon
        DEF NetStep, NetFault

\* drive_tick.
LEMMA TickTyped ==
    ASSUME Typed, Tick
    PROVE  Typed'
<1>1. ASSUME NEW ids \in SUBSET Message
      PROVE  Append(commands, Send(ids)) \in Seq(Command)
  BY QueueTypes DEF Typed, LinkOK
<1>2. CASE TickBegin \/ DrainDone
  <2>1. PcOK'
    BY <1>2, Zenon DEF TickBegin, DrainDone, PcOK
  <2> QED BY <1>2, <2>1, Kept, Zenon DEF TickBegin, DrainDone, Typed
<1>3. CASE ApplyEvent
  <2>1. events \in Seq(Event) /\ Known(events) /\ events # <<>>
    BY <1>3, Zenon DEF ApplyEvent, Typed, LinkOK, EventsOK
  <2>2. events' = Tail(events)
    BY <1>3, Zenon DEF ApplyEvent
  <2>3. /\ Head(events) \in Event /\ EventsOK'
        /\ Head(events).kind = "connected" => Head(events).of \in Session
    BY <2>1, <2>2, TakeKnown DEF EventsOK
  <2>4. LinkOK'
    BY <1>3, <2>3, Zenon DEF ApplyEvent, Typed, LinkOK
  <2>5. pending \cup Head(events).ids \in SUBSET Location
    BY <2>3 DEF Event, Typed, StateOK
  <2>6. {} \in SUBSET Location /\ NoSession \notin Session
    BY CheckReportingAssumption
  <2>7. StateOK'
    <3>1. CASE OnConnected
      BY <2>3, <2>6, <3>1, Zenon DEF OnConnected, Typed, StateOK
    <3>2. CASE OnConnecting \/ OnSessionEnded
      <4>1. session' = session
        BY <3>2, Zenon DEF OnConnecting, OnSessionEnded
      <4>2. /\ pending' = pending \/ pending' = {}
            /\ authed' = authed \/ authed' = FALSE
            /\ waiting' = waiting \/ waiting' = TRUE
        BY <3>2, Zenon DEF OnConnecting, OnSessionEnded
      <4>3. pending' \in SUBSET Location /\ session' \in Session \cup {NoSession}
        BY <2>6, <4>1, <4>2, Zenon DEF Typed, StateOK
      <4>4. authed' \in BOOLEAN /\ waiting' \in BOOLEAN
        BY <4>2, Zenon DEF Typed, StateOK
      <4>5. authed' => session' # NoSession
        BY <4>1, <4>2, Zenon DEF Typed, StateOK
      <4> QED BY <4>3, <4>4, <4>5, Zenon DEF StateOK
    <3>3. CASE OnLocationsChecked \/ OnDown
      <4>1. session' = session
        BY <3>3, Zenon DEF OnLocationsChecked, OnDown
      <4>2. /\ pending' = pending \/ pending' = pending \cup Head(events).ids
            /\ authed' = authed \/ authed' = FALSE
            /\ waiting' = waiting \/ waiting' = FALSE
        BY <3>3, Zenon DEF OnLocationsChecked, OnDown
      <4>3. pending' \in SUBSET Location /\ session' \in Session \cup {NoSession}
        BY <2>5, <4>1, <4>2, Zenon DEF Typed, StateOK
      <4>4. authed' \in BOOLEAN /\ waiting' \in BOOLEAN
        BY <4>2, Zenon DEF Typed, StateOK
      <4>5. authed' => session' # NoSession
        BY <4>1, <4>2, Zenon DEF Typed, StateOK
      <4> QED BY <4>3, <4>4, <4>5, Zenon DEF StateOK
    <3> QED BY <1>3, <3>1, <3>2, <3>3, Zenon DEF ApplyEvent
  <2>8. bound' = bound \/ bound' = NoSession
    BY <1>3, Zenon DEF ApplyEvent, OnConnecting, OnSessionEnded, OnConnected,
                      OnLocationsChecked, OnDown
  <2>9. RecordOK'
    BY <1>3, <2>8, Zenon DEF ApplyEvent, Typed, RecordOK
  <2>10. OnceOK'
    BY <1>3, Zenon DEF ApplyEvent, OnConnecting, OnSessionEnded, OnConnected,
                      OnLocationsChecked, OnDown, onceVars, Typed, OnceOK
  <2> QED BY <1>3, <2>4, <2>7, <2>9, <2>10, Kept, Zenon DEF ApplyEvent, Typed
<1>4. CASE HooksTick
  <2>1. {Goal} \in SUBSET Message
    BY DEF Message
  <2>2. commands' = commands \/ commands' = Append(commands, Send({Goal}))
    BY <1>4, Zenon DEF HooksTick, EvaluateGoal, Enqueue
  <2>3. commands' \in Seq(Command)
    BY <1>1, <2>1, <2>2 DEF Typed, LinkOK
  <2>4. LinkOK'
    BY <1>4, <2>3, Zenon DEF HooksTick, Typed, LinkOK, EventsOK, Known
  <2>5. OnceOK'
    BY <1>4, Zenon DEF HooksTick, EvaluateGoal, Typed, OnceOK
  <2>6. CASE bound = NoSession /\ ~authed
    <3>1. UNCHANGED <<bound, cached, checked, pending>>
      BY <1>4, <2>6, Zenon DEF HooksTick, InboundReady
    <3>2. StateOK'
      BY <1>4, <3>1, Zenon DEF HooksTick, Typed, StateOK
    <3>3. RecordOK'
      BY <1>4, <3>1, Zenon DEF HooksTick, Typed, RecordOK
    <3>4. PcOK'
      BY <1>4, Zenon DEF HooksTick, PcOK
    <3> QED BY <1>4, <2>4, <2>5, <3>2, <3>3, <3>4, Kept, Zenon DEF HooksTick, Typed
  <2>7. CASE ~(bound = NoSession /\ ~authed)
    <3>1. /\ bound' = IF bound = NoSession THEN session ELSE bound
          /\ cached' = bound' /\ pending' = {}
          /\ checked' = pending \cup (IF bound = NoSession THEN Record ELSE checked)
      BY <1>4, <2>7, Zenon DEF HooksTick, InboundReady
    <3>2. bound = NoSession => session \in Session
      BY <2>7, Zenon DEF Typed, StateOK
    <3>3. /\ session \in Session \cup {NoSession} /\ bound \in Session \cup {NoSession}
          /\ pending \in SUBSET Location /\ checked \in SUBSET Location
          /\ saved \in [Session -> SUBSET Location]
      BY Zenon DEF Typed, StateOK, RecordOK
    <3>4. bound = NoSession => Record \in SUBSET Location
      BY <3>2, <3>3 DEF Record
    <3>5. checked' \in SUBSET Location /\ bound' \in Session \cup {NoSession}
      BY <3>1, <3>3, <3>4
    <3>6. {} \in SUBSET Location
      OBVIOUS
    <3>7. StateOK'
      BY <1>4, <3>1, <3>6, Zenon DEF HooksTick, Typed, StateOK
    <3>8. RecordOK'
      BY <1>4, <3>1, <3>5, Zenon DEF HooksTick, Typed, RecordOK
    <3>9. PcOK'
      BY <1>4, Zenon DEF HooksTick, PcOK
    <3> QED BY <1>4, <2>4, <2>5, <3>7, <3>8, <3>9, Kept, Zenon DEF HooksTick, Typed
  <2> QED BY <2>6, <2>7
<1>5. CASE ResendGate
  <2>1. checked \in SUBSET Message
    BY DEF Typed, RecordOK, Message
  <2>2. commands' = commands \/ commands' = Append(commands, Send(checked))
    BY <1>5, Zenon DEF ResendGate, Enqueue
  <2>3. commands' \in Seq(Command)
    BY <1>1, <2>1, <2>2 DEF Typed, LinkOK
  <2>4. LinkOK'
    BY <1>5, <2>3, Zenon DEF ResendGate, Typed, LinkOK, EventsOK, Known
  <2>5. OnceOK'
    BY <1>5, Zenon DEF ResendGate, Typed, LinkOK, OnceOK
  <2>6. PcOK'
    BY <1>5, Zenon DEF ResendGate, PcOK
  <2> QED BY <1>5, <2>4, <2>5, <2>6, Kept, Zenon DEF ResendGate, Typed
<1> QED BY <1>2, <1>3, <1>4, <1>5, Zenon DEF Tick

\* The player and the overlay.
LEMMA PlayerTyped ==
    ASSUME Typed, Player
    PROVE  Typed'
<1>1. ASSUME NEW c \in Command, Enqueue(c), UNCHANGED <<linkUp, events>>
      PROVE  LinkOK'
  <2>1. commands' \in Seq(Command)
    BY <1>1 DEF Enqueue, Typed, LinkOK
  <2> QED BY <1>1, <2>1, Zenon DEF Typed, LinkOK, EventsOK, Known
<1>2. CASE StartRun
  <2>1. inRun' = TRUE /\ won' \in {FALSE, (Goal \in earned[session])}
    BY <1>2, Zenon DEF StartRun
  <2>2. won' = FALSE \/ won' = (Goal \in earned[session])
    BY <2>1, Zenon
  <2>3. inRun' \in BOOLEAN
    BY <2>1, Zenon
  <2>4. won' \in BOOLEAN
    <3>1. (Goal \in earned[session]) \in BOOLEAN
      OBVIOUS
    <3> QED BY <2>2, <3>1, Zenon
  <2>5. RunOK'
    BY <2>3, <2>4, Zenon DEF RunOK
  <2> QED BY <1>2, <2>5, Kept, Zenon DEF StartRun, Typed
<1>3. CASE EndRun
  <2>1. RunOK'
    BY <1>3, Zenon DEF EndRun, RunOK
  <2> QED BY <1>3, <2>1, Kept, Zenon DEF EndRun, Typed
<1>4. CASE PlayerWins
  <2>1. RunOK'
    BY <1>4, Zenon DEF PlayerWins, Typed, RunOK
  <2>2. earned' = [earned EXCEPT ![session] = @ \cup {Goal}] /\ server' = server
    BY <1>4, Zenon DEF PlayerWins
  <2>3. WorldOK'
    BY <2>2 DEF Typed, WorldOK, Message
  <2> QED BY <1>4, <2>1, <2>3, Kept, Zenon DEF PlayerWins, Typed
<1>5. CASE GameSave
  <2>1. /\ saved' = [saved EXCEPT ![bound] = checked]
        /\ UNCHANGED <<bound, cached, checked>>
    BY <1>5, Zenon DEF GameSave
  <2>2. RecordOK'
    BY <2>1 DEF Typed, RecordOK
  <2> QED BY <1>5, <2>2, Kept, Zenon DEF GameSave, Typed
<1>6. ASSUME NEW l \in Location, PlayerCollects(l)
      PROVE  Typed'
  <2>1. /\ earned' = [earned EXCEPT ![session] = @ \cup {l}] /\ server' = server
        /\ checked' = checked \/ checked' = checked \cup {l}
        /\ UNCHANGED <<bound, cached, saved>>
    BY <1>6, Zenon DEF PlayerCollects
  <2>2. WorldOK' /\ RecordOK'
    BY <2>1 DEF Typed, WorldOK, RecordOK, Message
  <2>3. Send({l}) \in Command
    BY QueueTypes DEF Message
  <2>4. \/ UNCHANGED linkVars
        \/ Enqueue(Send({l})) /\ UNCHANGED <<linkUp, events>>
    BY <1>6, Zenon DEF PlayerCollects, linkVars
  <2>5. LinkOK'
    BY <1>1, <2>3, <2>4, Kept, Zenon DEF Typed
  <2> QED BY <1>6, <2>2, <2>5, Kept, Zenon DEF PlayerCollects, Typed
<1>7. ASSUME NEW s \in Session, UserConnects(s)
      PROVE  Typed'
  <2>1. LinkOK'
    BY <1>1, <1>7, QueueTypes, Zenon DEF UserConnects
  <2> QED BY <1>7, <2>1, Kept, Zenon DEF UserConnects, Typed
<1>8. CASE UserDisconnects
  <2>1. LinkOK'
    BY <1>1, <1>8, QueueTypes, Zenon DEF UserDisconnects
  <2> QED BY <1>8, <2>1, Kept, Zenon DEF UserDisconnects, Typed
<1> QED BY <1>2, <1>3, <1>4, <1>5, <1>6, <1>7, <1>8, Zenon DEF Player

\* The queues of a process that has just started.
LEMMA EmptyQueues == <<>> \in Seq(Command) /\ <<>> \in Seq(Event) /\ Known(<<>>)
  BY DEF Known

\* The process starts with nothing known of any session.
LEMMA InitTyped == Init => Typed
<1> SUFFICES ASSUME Init PROVE Typed
  OBVIOUS
<1>1. {} \in SUBSET Message /\ {} \in SUBSET Location
  OBVIOUS
<1>2. RecordOK
  BY DEF Init, RecordOK
<1>3. WorldOK
  BY DEF Init, WorldOK
<1>4. ClientOK /\ LinkOK
  BY <1>1, EmptyQueues, Zenon DEF Init, ClientOK, LinkOK, EventsOK
<1>5. StateOK /\ OnceOK /\ RunOK /\ PcOK
  BY <1>1, Zenon DEF Init, StateOK, OnceOK, RunOK, PcOK
<1> QED BY <1>2, <1>3, <1>4, <1>5 DEF Typed

\* The process restarts with the containers and the servers as they were.
LEMMA CrashTyped ==
    ASSUME Typed, Crash
    PROVE  Typed'
<1>1. {} \in SUBSET Message /\ {} \in SUBSET Location
  OBVIOUS
<1>2. RecordOK'
  BY <1>1, Zenon DEF Crash, Typed, RecordOK
<1>3. ClientOK'
  BY <1>1, Zenon DEF Crash, ClientOK
<1>4. LinkOK'
  BY EmptyQueues, Zenon DEF Crash, LinkOK, EventsOK
<1>5. StateOK' /\ OnceOK' /\ RunOK' /\ PcOK'
  BY <1>1, Zenon DEF Crash, StateOK, OnceOK, RunOK, PcOK
<1>6. WorldOK'
  BY Kept, Zenon DEF Crash, Typed
<1> QED BY <1>2, <1>3, <1>4, <1>5, <1>6 DEF Typed

\* The types hold from the start and through every step, a crash included.
LEMMA TypedAlways == Spec => []Typed
<1>1. Typed /\ [Next]_vars => Typed'
  <2> SUFFICES ASSUME Typed, [Next]_vars PROVE Typed'
    OBVIOUS
  <2>1. CASE UNCHANGED vars
    BY <2>1, Kept, Zenon DEF vars, Typed
  <2> QED BY <2>1, NetTyped, TickTyped, PlayerTyped, CrashTyped, Zenon DEF Next
<1> QED BY <1>1, InitTyped, PTL DEF Spec

\* Every variable of the reporting path keeps its type, whatever the network,
\* the library and the player do.
THEOREM TypeCorrect == Spec => []TypeOK
<1>1. Typed => TypeOK
  BY Zenon DEF Typed, ClientOK, LinkOK, EventsOK, StateOK, RecordOK, OnceOK, RunOK,
              PcOK, WorldOK, TypeOK
<1> QED BY <1>1, TypedAlways, PTL

-----------------------------------------------------------------------------
(***************************************************************************)
(* What is in flight.  The game thread hears of the link only through the  *)
(* events, so what it and the link agree on is what the game thread will   *)
(* hold once it has drained them: the last of the states it goes through,  *)
(* one for each event.  A state keeps of the game's what the events set:   *)
(* the session, whether it is authenticated, whether it waits, and whether *)
(* the last session was ended and nothing of the next one has come.        *)
(***************************************************************************)
Game == [session : Session \cup {NoSession}, authed : BOOLEAN, waiting : BOOLEAN,
         fresh : BOOLEAN]

\* What ApplyEvent makes of a state.
Effect(e, g) ==
    [session |-> IF e.kind = "connected" THEN e.of ELSE g.session,
     authed  |-> IF e.kind \in {"ended", "connected", "down"}
                 THEN e.kind = "connected" ELSE g.authed,
     waiting |-> IF e.kind \in {"connecting", "connected", "down"}
                 THEN e.kind = "connecting" ELSE g.waiting,
     fresh   |-> IF e.kind \in {"ended", "connected", "checked"}
                 THEN e.kind = "ended" ELSE g.fresh]

\* Ids that the session has a right to in its record, own[s] being all of session s.
OwnIds(ids, s, own) == ids # {} => s \in Session /\ ids \subseteq own[s]

\* An event that finds the game in state g reports checks of g's session, and
\* announces another session only after the last one was ended.
Sensible(e, g, own) ==
    /\ e.kind = "checked" => OwnIds(e.ids, g.session, own)
    /\ e.kind = "connected" => e.of = g.session \/ g.fresh

\* T is what the events of q make of T[1], one after the other.
Trace(q, T, own) ==
    /\ T \in Seq(Game) /\ Len(T) = Len(q) + 1
    /\ \A i \in 1..Len(q) : T[i + 1] = Effect(q[i], T[i]) /\ Sensible(q[i], T[i], own)

End(T) == T[Len(T)]

Owned == [s \in Session |-> earned[s] \cup server[s]]

\* g is the state the game is in.
StartsAt(g) ==
    /\ g.session = session /\ g.authed = authed /\ g.waiting = waiting
    /\ g.fresh => pending = {} /\ bound = NoSession /\ ~authed

\* The player connects to sessions, and disconnects only as the first of the
\* commands, when the game waits for no connection.
Orderly(q, wait) ==
    \A i \in 1..Len(q) :
        /\ q[i].op = "connect" => q[i].to \in Session
        /\ q[i].op = "disconnect" => i = 1 /\ ~wait

Announced == linkUp \/ handler \in {"pushed", "published"}

\* The player does not disconnect before he is connected, and no callback throws
\* with the deadline already cleared.
Patient == ~EarlyQuit /\ ~BadSlotData

\* Having heard everything, in state g, the game agrees with the link.
InTouch(g) ==
    /\ g.authed <=> Announced
    /\ Announced => g.session = client /\ ~g.waiting
    /\ g.session = last \/ (handler = "let in" /\ g.fresh)
    /\ Patient => /\ g.waiting /\ handler # "let in" => deadline
                  /\ Orderly(commands, g.waiting)

Heard(T) == Trace(events, T, Owned) /\ StartsAt(T[1]) /\ InTouch(End(T))

Touch == \E T \in Seq(Game) : Heard(T)

\* The flag, the callback and the room go together.
LinkInv ==
    /\ joined => client = last /\ client # NoSession
    /\ linkUp \/ handler # "none" => joined
    /\ handler = "published" => linkUp
    /\ handler = "let in" => ~linkUp

\* Everything on its way to a record is of the session whose record it will be.
RecordInv ==
    /\ OwnIds(pending, session, Owned)
    /\ bound # NoSession => bound = session /\ cached = session
    /\ OwnIds(checked, cached, Owned)
    /\ \A s \in Session : saved[s] \subseteq Owned[s]

Inv == Typed /\ LinkInv /\ RecordInv /\ Touch

-----------------------------------------------------------------------------
(***************************************************************************)
(* The data: what becomes of a trace when an event is pushed or taken.     *)
(***************************************************************************)
\* What sessions have a right to only grows.
More(own, new) == \A s \in Session : own[s] \subseteq new[s]

LEMMA EffectType ==
    ASSUME NEW e \in Event, NEW g \in Game
    PROVE  Effect(e, g) \in Game
<1>1. e.of \in Session \cup {NoSession}
  BY DEF Event
<1> QED BY <1>1 DEF Effect, Game

\* The effect of each kind of event.
LEMMA Effects ==
    ASSUME NEW g \in Game
    PROVE  /\ Effect(Down, g).session = g.session /\ ~Effect(Down, g).authed
           /\ ~Effect(Down, g).waiting /\ Effect(Down, g).fresh = g.fresh
           /\ Effect(Connecting, g).session = g.session /\ Effect(Connecting, g).waiting
           /\ Effect(Connecting, g).authed = g.authed /\ Effect(Connecting, g).fresh = g.fresh
           /\ Effect(Ended, g).session = g.session /\ ~Effect(Ended, g).authed
           /\ Effect(Ended, g).waiting = g.waiting /\ Effect(Ended, g).fresh
           /\ \A s : /\ Effect(ConnectedTo(s), g).session = s
                     /\ Effect(ConnectedTo(s), g).authed
                     /\ ~Effect(ConnectedTo(s), g).waiting
           /\ \A ids : /\ Effect(CheckedIds(ids), g).session = g.session
                       /\ Effect(CheckedIds(ids), g).authed = g.authed
                       /\ Effect(CheckedIds(ids), g).waiting = g.waiting
  BY DEF Effect, Down, Connecting, Ended, ConnectedTo, CheckedIds, Game

LEMMA PlainSensible ==
    ASSUME NEW g, NEW own
    PROVE  Sensible(Down, g, own) /\ Sensible(Connecting, g, own) /\ Sensible(Ended, g, own)
  BY DEF Sensible, Down, Connecting, Ended

LEMMA TraceEnds ==
    ASSUME NEW q \in Seq(Event), NEW T, NEW own, Trace(q, T, own)
    PROVE  T[1] \in Game /\ End(T) \in Game
<1>1. T \in Seq(Game) /\ Len(T) = Len(q) + 1 /\ Len(q) \in Nat
  BY DEF Trace
<1>2. 1 \in 1..Len(T) /\ Len(T) \in 1..Len(T)
  BY <1>1
<1> QED BY <1>1, <1>2 DEF End

LEMMA TraceGrows ==
    ASSUME NEW q \in Seq(Event), NEW T, NEW own, NEW new, Trace(q, T, own), More(own, new)
    PROVE  Trace(q, T, new)
<1>1. ASSUME NEW ids, NEW s, OwnIds(ids, s, own)
      PROVE  OwnIds(ids, s, new)
  BY <1>1 DEF OwnIds, More
<1>2. ASSUME NEW e, NEW g, Sensible(e, g, own)
      PROVE  Sensible(e, g, new)
  BY <1>1, <1>2 DEF Sensible
<1> QED BY <1>2 DEF Trace

LEMMA TracePush ==
    ASSUME NEW q \in Seq(Event), NEW T, NEW own, Trace(q, T, own),
           NEW e \in Event, Sensible(e, End(T), own)
    PROVE  \E U \in Seq(Game) :
             /\ Trace(Append(q, e), U, own)
             /\ U[1] = T[1] /\ End(U) = Effect(e, End(T))
<1> DEFINE n == Len(q)
           p == Append(q, e)
           U == Append(T, Effect(e, End(T)))
<1>1. T \in Seq(Game) /\ Len(T) = n + 1 /\ n \in Nat
  BY DEF Trace
<1>2. Effect(e, End(T)) \in Game
  BY TraceEnds, EffectType
<1>3. /\ U \in Seq(Game) /\ Len(U) = n + 2 /\ U[n + 2] = Effect(e, End(T))
      /\ \A i \in 1..(n + 1) : U[i] = T[i]
  BY <1>1, <1>2
<1>4. /\ Len(p) = n + 1 /\ p[n + 1] = e
      /\ \A i \in 1..n : p[i] = q[i]
  BY <1>1
<1>5. End(T) = T[n + 1] /\ End(U) = U[n + 2]
  BY <1>1, <1>3 DEF End
<1> HIDE DEF U, p
<1>6. ASSUME NEW i \in 1..Len(p)
      PROVE  U[i + 1] = Effect(p[i], U[i]) /\ Sensible(p[i], U[i], own)
  <2>1. CASE i \in 1..n
    <3>1. U[i] = T[i] /\ U[i + 1] = T[i + 1] /\ p[i] = q[i]
      BY <1>1, <1>3, <1>4, <2>1
    <3> QED BY <2>1, <3>1 DEF Trace
  <2>2. CASE i = n + 1
    <3>1. U[i] = End(T) /\ U[i + 1] = Effect(e, End(T)) /\ p[i] = e
      BY <1>1, <1>3, <1>4, <1>5, <2>2
    <3> QED BY <3>1
  <2> QED BY <1>1, <1>4, <2>1, <2>2
<1>7. U[1] = T[1] /\ Len(U) = Len(p) + 1
  BY <1>1, <1>3, <1>4
<1>8. Trace(p, U, own)
  BY <1>3, <1>6, <1>7 DEF Trace
<1> QED BY <1>3, <1>5, <1>7, <1>8 DEF p

LEMMA TraceTake ==
    ASSUME NEW q \in Seq(Event), NEW T, NEW own, Trace(q, T, own), q # <<>>
    PROVE  /\ Tail(T) \in Seq(Game) /\ Trace(Tail(q), Tail(T), own)
           /\ Tail(T)[1] = Effect(Head(q), T[1]) /\ End(Tail(T)) = End(T)
           /\ Sensible(Head(q), T[1], own)
<1> DEFINE n == Len(q)
           p == Tail(q)
           U == Tail(T)
<1>1. T \in Seq(Game) /\ Len(T) = n + 1 /\ n \in Nat /\ n > 0
  BY DEF Trace
<1>2. U \in Seq(Game) /\ Len(U) = n /\ \A i \in 1..n : U[i] = T[i + 1]
  BY <1>1
<1>3. Len(p) = n - 1 /\ Head(q) = q[1] /\ \A i \in 1..(n - 1) : p[i] = q[i + 1]
  BY <1>1
<1>4. \A i \in 1..n : T[i + 1] = Effect(q[i], T[i]) /\ Sensible(q[i], T[i], own)
  BY DEF Trace
<1> HIDE DEF U, p
<1>5. ASSUME NEW i \in 1..Len(p)
      PROVE  U[i + 1] = Effect(p[i], U[i]) /\ Sensible(p[i], U[i], own)
  <2>1. i \in 1..n /\ i + 1 \in 1..n /\ i \in 1..(n - 1)
    BY <1>1, <1>3
  <2>2. U[i] = T[i + 1] /\ U[i + 1] = T[(i + 1) + 1] /\ p[i] = q[i + 1]
    BY <1>2, <1>3, <2>1
  <2> QED BY <1>4, <2>1, <2>2
<1>6. Trace(p, U, own)
  BY <1>1, <1>2, <1>3, <1>5 DEF Trace
<1>7. U[1] = Effect(Head(q), T[1]) /\ Sensible(Head(q), T[1], own)
  BY <1>1, <1>2, <1>3, <1>4
<1>8. End(U) = End(T)
  BY <1>1, <1>2 DEF End
<1> QED BY <1>2, <1>6, <1>7, <1>8 DEF U, p

\* Commands queued behind the others, or taken from the front.
LEMMA OrderlyAppend ==
    ASSUME NEW q \in Seq(Command), NEW wait, Orderly(q, wait),
           NEW c \in Command, c.op # "disconnect", c.op = "connect" => c.to \in Session
    PROVE  Orderly(Append(q, c), wait)
<1>1. /\ Len(Append(q, c)) = Len(q) + 1 /\ Append(q, c)[Len(q) + 1] = c
      /\ \A i \in 1..Len(q) : Append(q, c)[i] = q[i]
  OBVIOUS
<1> QED BY <1>1 DEF Orderly

LEMMA OrderlyTail ==
    ASSUME NEW q \in Seq(Command), NEW wait, NEW after, Orderly(q, wait), q # <<>>
    PROVE  Orderly(Tail(q), after)
<1>1. /\ Len(Tail(q)) = Len(q) - 1
      /\ \A i \in 1..(Len(q) - 1) : Tail(q)[i] = q[i + 1] /\ i + 1 \in 1..Len(q) /\ i + 1 # 1
  OBVIOUS
<1> QED BY <1>1 DEF Orderly

LEMMA OrderlyLess ==
    ASSUME NEW q, NEW wait, NEW after, Orderly(q, wait), after => wait
    PROVE  Orderly(q, after)
  BY DEF Orderly

-----------------------------------------------------------------------------
(***************************************************************************)
(* The steps, and what they do to the trace.                               *)
(***************************************************************************)
\* What the rest of the state does that a trace of the events depends on: the game
\* stays in its state, or is less fresh, and no session loses a right.
Steady ==
    /\ UNCHANGED <<session, authed, waiting>>
    /\ pending = {} /\ bound = NoSession /\ ~authed => pending' = {} /\ bound' = NoSession
    /\ More(Owned, Owned')

LEMMA StartStays ==
    ASSUME NEW g, StartsAt(g), Steady
    PROVE  StartsAt(g)'
  BY DEF StartsAt, Steady

\* Nothing pushed, one event, or two.
LEMMA PushNone ==
    ASSUME Typed, NEW T \in Seq(Game), Heard(T), Steady, events' = events,
           InTouch(End(T))'
    PROVE  Touch'
<1>1. events \in Seq(Event) /\ Trace(events, T, Owned) /\ More(Owned, Owned')
  BY DEF Typed, LinkOK, EventsOK, Heard, Steady
<1>2. Trace(events', T, Owned')
  BY <1>1, TraceGrows
<1>3. StartsAt(T[1])'
  BY StartStays DEF Heard
<1> QED BY <1>2, <1>3 DEF Touch, Heard

LEMMA PushOne ==
    ASSUME Typed, NEW T \in Seq(Game), Heard(T), Steady,
           NEW e \in Event, events' = Append(events, e), Sensible(e, End(T), Owned'),
           NEW h, h = Effect(e, End(T)), InTouch(h)'
    PROVE  Touch'
<1>1. events \in Seq(Event) /\ Trace(events, T, Owned) /\ More(Owned, Owned')
  BY DEF Typed, LinkOK, EventsOK, Heard, Steady
<1>2. Trace(events, T, Owned')
  BY <1>1, TraceGrows
<1>3. PICK U \in Seq(Game) : /\ Trace(Append(events, e), U, Owned')
                             /\ U[1] = T[1] /\ End(U) = Effect(e, End(T))
  BY <1>1, <1>2, TracePush
<1>4. StartsAt(U[1])'
  BY <1>3, StartStays DEF Heard
<1>5. Trace(events', U, Owned') /\ InTouch(End(U))'
  BY <1>3
<1> QED BY <1>4, <1>5 DEF Touch, Heard

LEMMA PushTwo ==
    ASSUME Typed, NEW T \in Seq(Game), Heard(T), Steady,
           NEW d \in Event, Sensible(d, End(T), Owned'),
           NEW g, g = Effect(d, End(T)),
           NEW e \in Event, Sensible(e, g, Owned'),
           events' = Append(Append(events, d), e),
           NEW h, h = Effect(e, g), InTouch(h)'
    PROVE  Touch'
<1>1. events \in Seq(Event) /\ Trace(events, T, Owned) /\ More(Owned, Owned')
  BY DEF Typed, LinkOK, EventsOK, Heard, Steady
<1>2. Trace(events, T, Owned') /\ Append(events, d) \in Seq(Event)
  BY <1>1, TraceGrows
<1>3. PICK S \in Seq(Game) : /\ Trace(Append(events, d), S, Owned')
                             /\ S[1] = T[1] /\ End(S) = g
  BY <1>1, <1>2, TracePush
<1>4. Sensible(e, End(S), Owned')
  BY <1>3
<1>5. PICK U \in Seq(Game) : /\ Trace(Append(Append(events, d), e), U, Owned')
                             /\ U[1] = S[1] /\ End(U) = Effect(e, End(S))
  BY <1>2, <1>3, <1>4, TracePush
<1>6. Trace(events', U, Owned') /\ End(U) = h
  BY <1>3, <1>5
<1>7. StartsAt(U[1])'
  BY <1>3, <1>5, StartStays DEF Heard
<1>8. InTouch(End(U))'
  BY <1>6
<1> QED BY <1>6, <1>7, <1>8 DEF Touch, Heard

\* No session loses what was earned in it or what its server knows.
LEMMA OwnedGrows ==
    ASSUME Typed, NEW s \in Session, NEW l,
           \/ UNCHANGED server
           \/ server' = [server EXCEPT ![s] = @ \cup l],
           \/ UNCHANGED earned
           \/ earned' = [earned EXCEPT ![s] = @ \cup l]
    PROVE  More(Owned, Owned')
<1>1. server \in [Session -> SUBSET Message] /\ earned \in [Session -> SUBSET Message]
  BY DEF Typed, WorldOK
<1>2. \A r \in Session : server[r] \subseteq server'[r] /\ earned[r] \subseteq earned'[r]
  BY <1>1
<1> QED BY <1>2 DEF More, Owned

LEMMA OwnedStays ==
    ASSUME UNCHANGED <<server, earned>>
    PROVE  More(Owned, Owned')
  BY DEF More, Owned

LEMMA ReachesGrows ==
    ASSUME Typed, client \in Session \/ ~wire, NEW ids, Reaches(ids), UNCHANGED earned
    PROVE  More(Owned, Owned')
<1>1. CASE UNCHANGED server
  BY <1>1, OwnedStays
<1>2. CASE client \in Session /\ server' = [server EXCEPT ![client] = @ \cup ids]
  BY <1>2, OwnedGrows
<1> QED BY <1>1, <1>2 DEF Reaches

-----------------------------------------------------------------------------
(***************************************************************************)
(* The net thread stays in touch.                                          *)
(***************************************************************************)
\* The old client goes, and another may come.
LEMMA ReplaceTouch ==
    ASSUME Inv, NEW next \in Session \cup {NoSession}, Replace(next), handler = "none",
           Steady, NEW T \in Seq(Game), Heard(T),
           Patient => Orderly(commands', TRUE),
           Patient /\ next = NoSession => ~End(T).waiting
    PROVE  Touch'
<1> DEFINE g == End(T)
           told == IF linkUp THEN Append(events, Down) ELSE events
<1>1. /\ client' = next /\ deadline' = (next # NoSession) /\ linkUp' = FALSE
      /\ handler' = "none" /\ last' = last
      /\ events' = told \o (IF next # NoSession THEN <<Connecting>> ELSE <<>>)
  BY DEF Replace
<1>2. Typed /\ events \in Seq(Event) /\ g \in Game /\ InTouch(g)
  BY TraceEnds DEF Inv, Typed, LinkOK, EventsOK, Heard
<1>3. Down \in Event /\ Connecting \in Event
  BY QueueTypes
<1>4. told \in Seq(Event)
  BY <1>2, <1>3
<1>5. next # NoSession => events' = Append(told, Connecting)
  BY <1>1, <1>3, <1>4
<1>6. next = NoSession => events' = told
  BY <1>1, <1>4
<1>7. ASSUME NEW h \in Game, ~h.authed, h.session = g.session,
             h.waiting => deadline' \/ ~Patient
      PROVE  InTouch(h)'
  <2>1. g.session = last
    BY <1>2 DEF InTouch
  <2>2. Patient => Orderly(commands', h.waiting)
    BY OrderlyLess
  <2> QED BY <1>1, <1>7, <2>1, <2>2 DEF InTouch, Announced
<1>8. CASE linkUp /\ next # NoSession
  <2> DEFINE h == Effect(Connecting, Effect(Down, g))
  <2>1. Effect(Down, g) \in Game /\ ~Effect(Down, g).authed
        /\ Effect(Down, g).session = g.session
    BY <1>2, <1>3, EffectType, Effects
  <2>2. h \in Game /\ ~h.authed /\ h.session = g.session /\ deadline'
    BY <1>1, <1>3, <1>8, <2>1, EffectType, Effects
  <2>3. InTouch(h)'
    BY <1>7, <2>2
  <2>4. events' = Append(Append(events, Down), Connecting)
    BY <1>5, <1>8
  <2> QED BY <1>2, <1>3, <2>3, <2>4, PlainSensible, PushTwo
<1>9. CASE linkUp /\ next = NoSession
  <2>1. Effect(Down, g) \in Game /\ ~Effect(Down, g).authed /\ ~Effect(Down, g).waiting
        /\ Effect(Down, g).session = g.session
    BY <1>2, <1>3, EffectType, Effects
  <2> QED BY <1>2, <1>3, <1>6, <1>7, <1>9, <2>1, PlainSensible, PushOne
<1>10. ~linkUp => ~g.authed
  BY <1>2 DEF InTouch, Announced, Inv
<1>11. CASE ~linkUp /\ next # NoSession
  <2> DEFINE h == Effect(Connecting, g)
  <2>1. h \in Game /\ ~h.authed /\ h.session = g.session /\ deadline'
    BY <1>1, <1>2, <1>3, <1>10, <1>11, EffectType, Effects
  <2> QED BY <1>2, <1>3, <1>5, <1>7, <1>11, <2>1, PlainSensible, PushOne
<1>12. CASE ~linkUp /\ next = NoSession
  BY <1>2, <1>6, <1>7, <1>10, <1>12, PushNone
<1> QED BY <1>8, <1>9, <1>11, <1>12

\* A command, and what it does to the client.
LEMMA RunCommandInv ==
    ASSUME Inv, RunCommand
    PROVE  LinkInv' /\ Touch' /\ Steady
<1>1. /\ handler = "none" /\ commands # <<>> /\ commands' = Tail(commands)
      /\ UNCHANGED <<session, authed, waiting, pending, bound, earned>>
  BY DEF RunCommand, stateVars, recordVars
<1>2. PICK T \in Seq(Game) : Heard(T)
  BY DEF Inv, Touch
<1> DEFINE g == End(T)
<1>3. /\ Typed /\ commands \in Seq(Command) /\ events \in Seq(Event)
      /\ g \in Game /\ InTouch(g) /\ LinkInv /\ Head(commands) = commands[1]
      /\ Head(commands) \in Command
  BY <1>1, <1>2, TraceEnds DEF Inv, Typed, LinkOK, EventsOK, Heard
<1>4. \A after : Patient => Orderly(commands', after)
  BY <1>1, <1>3, OrderlyTail DEF InTouch
<1>5. Patient => /\ Head(commands).op = "connect" => Head(commands).to \in Session
                 /\ Head(commands).op = "disconnect" => ~g.waiting
  BY <1>1, <1>3 DEF InTouch, Orderly
<1>6. Head(commands).to \in Session \cup {NoSession}
  BY <1>3 DEF Command
<1>7. ASSUME UNCHANGED server PROVE Steady
  BY <1>1, <1>7, OwnedStays DEF Steady
<1>8. ASSUME NEW next \in Session \cup {NoSession}, Replace(next), UNCHANGED server,
             Patient /\ next = NoSession => ~g.waiting
      PROVE  LinkInv' /\ Touch' /\ Steady
  <2>1. LinkInv'
    BY <1>1, <1>8 DEF Replace, LinkInv
  <2> QED BY <1>1, <1>2, <1>4, <1>7, <1>8, <2>1, ReplaceTouch
<1>9. CASE RunConnect
  <2>1. CASE Replace(Head(commands).to)
    <3>1. Patient => Head(commands).to # NoSession
      BY <1>5, <1>9, CheckReportingAssumption DEF RunConnect
    <3> QED BY <1>6, <1>8, <1>9, <2>1, <3>1 DEF RunConnect
  <2>2. CASE ~Replace(Head(commands).to)
    <3>1. /\ client' = NoSession /\ joined' = FALSE /\ linkUp' = FALSE /\ handler' = "none"
          /\ last' = last /\ events' = Append(events, Down) /\ server' = server
      BY <1>1, <1>9, <2>2 DEF RunConnect
    <3>2. LinkInv'
      BY <3>1 DEF LinkInv
    <3>3. InTouch(Effect(Down, g))'
      BY <1>1, <1>3, <1>4, <3>1, Effects DEF InTouch, Announced
    <3> QED BY <1>2, <1>3, <1>7, <3>1, <3>2, <3>3, PlainSensible, QueueTypes, PushOne
  <2> QED BY <2>1, <2>2
<1>10. CASE RunDisconnect
  BY <1>5, <1>8, <1>10 DEF RunDisconnect
<1>11. CASE RunSend
  <2>1. UNCHANGED <<client, joined, deadline, handler, last, linkUp, events>>
    BY <1>11 DEF RunSend
  <2>2. More(Owned, Owned')
    <3>1. CASE UNCHANGED server
      BY <1>1, <3>1, OwnedStays
    <3>2. CASE ~UNCHANGED server
      <4>1. client # NoSession /\ Reaches(Head(commands).ids)
        BY <1>11, <3>2 DEF RunSend
      <4>2. client \in Session
        BY <1>3, <4>1 DEF Typed, ClientOK
      <4> QED BY <1>1, <1>3, <4>1, <4>2, ReachesGrows
    <3> QED BY <3>1, <3>2
  <2>3. Steady
    BY <1>1, <2>2 DEF Steady
  <2>4. LinkInv'
    BY <1>3, <2>1 DEF LinkInv
  <2>5. InTouch(g)'
    BY <1>3, <1>4, <2>1 DEF InTouch, Announced
  <2> QED BY <1>2, <1>3, <2>1, <2>3, <2>4, <2>5, PushNone
<1> QED BY <1>9, <1>10, <1>11 DEF RunCommand

\* The callbacks, and what happens to the link.
LEMMA NetInv ==
    ASSUME Inv, NetStep \/ NetFault
    PROVE  LinkInv' /\ Touch' /\ Steady
<1>1. PICK T \in Seq(Game) : Heard(T)
  BY DEF Inv, Touch
<1> DEFINE g == End(T)
<1>2. /\ Typed /\ commands \in Seq(Command) /\ events \in Seq(Event)
      /\ g \in Game /\ InTouch(g) /\ LinkInv
      /\ client \in Session \cup {NoSession} /\ (handler # "none" => client \in Session)
  BY <1>1, TraceEnds DEF Inv, Typed, LinkOK, EventsOK, Heard, ClientOK
<1>3. ASSUME UNCHANGED <<stateVars, recordVars, worldVars>> PROVE Steady
  BY <1>3, OwnedStays DEF Steady, stateVars, recordVars, worldVars
<1>4. CASE RunCommand
  BY <1>4, RunCommandInv
<1>5. CASE PushConnected
  <2> DEFINE h == Effect(ConnectedTo(client), g)
  <2>1. /\ handler = "let in" /\ handler' = "pushed" /\ events' = Append(events, ConnectedTo(client))
        /\ UNCHANGED <<client, joined, deadline, last, linkUp, commands>>
    BY <1>5 DEF PushConnected
  <2>2. client = last /\ LinkInv'
    BY <1>2, <2>1 DEF LinkInv
  <2>3. Sensible(ConnectedTo(client), g, Owned')
    BY <1>2, <2>1, <2>2 DEF InTouch, Sensible, ConnectedTo
  <2>4. h.session = client /\ h.authed /\ ~h.waiting
    BY <1>2, Effects
  <2>5. Patient => Orderly(commands, h.waiting)
    BY <1>2, <2>4 DEF InTouch, Orderly
  <2>6. InTouch(h)'
    BY <2>1, <2>2, <2>4, <2>5 DEF InTouch, Announced
  <2>7. ConnectedTo(client) \in Event /\ Steady
    BY <1>2, <1>3, <1>5, <2>1, QueueTypes DEF PushConnected
  <2> QED BY <1>1, <1>2, <2>1, <2>2, <2>3, <2>6, <2>7, PushOne
<1>6. CASE PublishConnected
  <2>1. /\ handler = "pushed" /\ handler' = "published" /\ linkUp' = TRUE
        /\ UNCHANGED <<client, joined, deadline, last, commands, events>> /\ Steady
    BY <1>3, <1>6 DEF PublishConnected
  <2>2. LinkInv' /\ InTouch(g)'
    BY <1>2, <2>1 DEF LinkInv, InTouch, Announced
  <2> QED BY <1>1, <1>2, <2>1, <2>2, PushNone
<1>7. CASE ReportChecked
  <2>1. /\ handler = "published" /\ handler' = "none" /\ Reaches(held)
        /\ events' = Append(events, CheckedIds(server'[client] \cap Location))
        /\ UNCHANGED <<client, joined, deadline, last, linkUp, commands, stateVars, recordVars, earned>>
    BY <1>7 DEF ReportChecked
  <2>2. PICK ids \in SUBSET Location : ids = server'[client] \cap Location
    OBVIOUS
  <2> DEFINE h == Effect(CheckedIds(ids), g)
  <2>3. client \in Session /\ g.session = client /\ g.session = last /\ linkUp /\ LinkInv'
    BY <1>2, <2>1 DEF LinkInv, InTouch, Announced
  <2>4. ids \subseteq Owned'[client] /\ CheckedIds(ids) \in Event
    BY <2>2, <2>3, QueueTypes DEF Owned
  <2>5. Sensible(CheckedIds(ids), g, Owned')
    BY <2>3, <2>4 DEF Sensible, OwnIds, CheckedIds
  <2>6. h.session = g.session /\ h.authed = g.authed /\ h.waiting = g.waiting
    BY <1>2, Effects
  <2> HIDE DEF h
  <2>7. InTouch(h)'
    BY <1>2, <2>1, <2>3, <2>6 DEF InTouch, Announced
  <2>8. Steady
    BY <1>2, <2>1, <2>3, ReachesGrows DEF Steady, stateVars, recordVars
  <2> QED BY <1>1, <1>2, <2>1, <2>2, <2>3, <2>4, <2>5, <2>7, <2>8, PushOne DEF h
<1>8. CASE SlotConnected
  <2>1. /\ handler = "none" /\ handler' = "let in" /\ ~joined /\ joined' = TRUE
        /\ client # NoSession /\ last' = client
        /\ events' = IF client # last THEN Append(events, Ended) ELSE events
        /\ UNCHANGED <<client, linkUp, commands>> /\ Steady
    BY <1>3, <1>8 DEF SlotConnected
  <2>2. LinkInv' /\ ~linkUp /\ ~g.authed /\ g.session = last
    BY <1>2, <2>1 DEF LinkInv, InTouch, Announced
  <2>3. CASE client = last
    <3>1. InTouch(g)'
      BY <1>2, <2>1, <2>2, <2>3 DEF InTouch, Announced
    <3> QED BY <1>1, <1>2, <2>1, <2>2, <2>3, <3>1, PushNone
  <2>4. CASE client # last
    <3>1. InTouch(Effect(Ended, g))'
      BY <1>2, <2>1, <2>2, Effects DEF InTouch, Announced
    <3> QED BY <1>1, <1>2, <2>1, <2>2, <2>4, <3>1, PlainSensible, QueueTypes, PushOne
  <2> QED BY <2>3, <2>4
<1>9. CASE SlotDataThrows
  <2>1. /\ handler = "none" /\ ~joined /\ client' = NoSession /\ BadSlotData
        /\ UNCHANGED <<joined, handler, last, linkUp, commands, events>> /\ Steady
    BY <1>3, <1>9 DEF SlotDataThrows, linkVars
  <2>2. LinkInv' /\ InTouch(g)'
    BY <1>2, <2>1 DEF LinkInv, InTouch, Announced, Patient
  <2> QED BY <1>1, <1>2, <2>1, <2>2, PushNone
<1>10. CASE SocketDies
  <2>1. /\ UNCHANGED <<client, joined, deadline, handler, last, linkUp, commands, events>>
        /\ Steady
    BY <1>3, <1>10 DEF SocketDies, linkVars
  <2>2. LinkInv' /\ InTouch(g)'
    BY <1>2, <2>1 DEF LinkInv, InTouch, Announced
  <2> QED BY <1>1, <1>2, <2>1, <2>2, PushNone
<1>11. ASSUME handler = "none", UNCHANGED <<handler, last, commands>>, Steady,
              linkUp' = FALSE, joined' = FALSE, events' = Append(events, Down)
       PROVE  LinkInv' /\ Touch' /\ Steady
  <2>1. LinkInv'
    BY <1>11 DEF LinkInv
  <2>2. Patient => Orderly(commands, Effect(Down, g).waiting)
    BY <1>2, Effects DEF InTouch, Orderly
  <2>3. InTouch(Effect(Down, g))'
    BY <1>2, <1>11, <2>2, Effects DEF InTouch, Announced
  <2> QED BY <1>1, <1>2, <1>11, <2>1, <2>3, PlainSensible, QueueTypes, PushOne
<1>12. CASE SocketDisconnected
  BY <1>3, <1>11, <1>12 DEF SocketDisconnected
<1>13. CASE GiveUp
  <2>1. CASE linkUp \/ deadline
    BY <1>3, <1>11, <1>13, <2>1 DEF GiveUp
  <2>2. CASE ~(linkUp \/ deadline)
    <3>1. /\ handler = "none" /\ UNCHANGED <<handler, last, commands, events>> /\ Steady
          /\ linkUp' = FALSE /\ joined' = FALSE
      BY <1>3, <1>13, <2>2 DEF GiveUp
    <3>2. LinkInv' /\ InTouch(g)'
      BY <1>2, <2>2, <3>1 DEF LinkInv, InTouch, Announced
    <3> QED BY <1>1, <1>2, <3>1, <3>2, PushNone
  <2> QED BY <2>1, <2>2
<1>14. ASSUME NEW s \in Session, NEW l \in Location, ServerCollects(s, l)
       PROVE  LinkInv' /\ Touch' /\ Steady
  <2>1. /\ handler = "none"
        /\ UNCHANGED <<client, joined, deadline, handler, last, linkUp, commands>>
        /\ UNCHANGED <<stateVars, recordVars>>
        /\ server' = [server EXCEPT ![s] = @ \cup {l}]
        /\ earned' = [earned EXCEPT ![s] = @ \cup {l}]
    BY <1>14 DEF ServerCollects, clientVars
  <2>2. Steady
    BY <1>2, <2>1, OwnedGrows DEF Steady, stateVars, recordVars
  <2>3. LinkInv'
    BY <1>2, <2>1 DEF LinkInv
  <2>4. CASE UNCHANGED events
    <3>1. InTouch(g)'
      BY <1>2, <2>1 DEF InTouch, Announced
    <3> QED BY <1>1, <1>2, <2>2, <2>3, <2>4, <3>1, PushNone
  <2>5. CASE ~UNCHANGED events
    <3> DEFINE h == Effect(CheckedIds({l}), g)
    <3>1. client = s /\ joined /\ events' = Append(events, CheckedIds({l}))
      BY <1>14, <2>5 DEF ServerCollects
    <3>2. g.session = s
      BY <1>2, <2>1, <3>1 DEF InTouch, LinkInv
    <3>3. l \in Owned'[s] /\ CheckedIds({l}) \in Event
      BY <1>2, <2>1, QueueTypes DEF Owned, Typed, WorldOK
    <3>4. Sensible(CheckedIds({l}), g, Owned')
      BY <3>2, <3>3 DEF Sensible, OwnIds, CheckedIds
    <3>5. h.session = g.session /\ h.authed = g.authed /\ h.waiting = g.waiting
      BY <1>2, Effects
    <3> HIDE DEF h
    <3>6. InTouch(h)'
      BY <1>2, <2>1, <3>5 DEF InTouch, Announced
    <3> QED BY <1>1, <1>2, <2>2, <2>3, <3>1, <3>3, <3>4, <3>6, PushOne DEF h
  <2> QED BY <2>4, <2>5
<1> QED BY <1>4, <1>5, <1>6, <1>7, <1>8, <1>9, <1>10, <1>12, <1>13, <1>14
        DEF NetStep, NetFault

\* Whoever steps, a record that is left alone stays within its rights.
LEMMA RecordStays ==
    ASSUME RecordInv, UNCHANGED <<session, pending, recordVars>>, More(Owned, Owned')
    PROVE  RecordInv'
<1>1. \A ids, s : OwnIds(ids, s, Owned) => OwnIds(ids, s, Owned')
  BY DEF OwnIds, More
<1> QED BY <1>1 DEF RecordInv, recordVars, More

LEMMA NetKeepsRecord ==
    ASSUME Inv, NetStep \/ NetFault
    PROVE  RecordInv'
<1>1. More(Owned, Owned')
  BY NetInv DEF Steady
<1>2. UNCHANGED <<session, pending, recordVars>>
  BY DEF NetStep, NetFault, RunCommand, PushConnected, PublishConnected, ReportChecked,
         SlotConnected, SlotDataThrows, SocketDies, SocketDisconnected, GiveUp,
         ServerCollects, stateVars
<1> QED BY <1>1, <1>2, RecordStays DEF Inv

-----------------------------------------------------------------------------
(***************************************************************************)
(* The game thread and the player stay in touch.                           *)
(***************************************************************************)
\* A link left alone is what it was.
LEMMA LinkStays ==
    ASSUME client' = client, joined' = joined, handler' = handler, last' = last,
           linkUp' = linkUp
    PROVE  /\ LinkInv => LinkInv'
           /\ Announced' <=> Announced
<1>1. LinkInv => LinkInv'
  BY DEF LinkInv
<1>2. Announced' <=> Announced
  BY DEF Announced
<1> QED BY <1>1, <1>2

\* A game in touch with it stays so, if the commands stay in order.
LEMMA TouchStays ==
    ASSUME NEW g, InTouch(g),
           client' = client, deadline' = deadline, handler' = handler, last' = last,
           Announced' <=> Announced, Patient => Orderly(commands', g.waiting)
    PROVE  InTouch(g)'
  BY DEF InTouch

\* A step that leaves the link alone, but for a command queued.
LEMMA QuietTouch ==
    ASSUME Inv, UNCHANGED <<clientVars, linkUp, events>>, Steady,
           \/ UNCHANGED commands
           \/ \E c \in Command : /\ Enqueue(c) /\ c.op # "disconnect"
                                 /\ c.op = "connect" => c.to \in Session
           \/ Enqueue(Disconnect) /\ (EarlyQuit \/ (linkUp /\ commands = <<>>))
    PROVE  LinkInv' /\ Touch'
<1>1. PICK T \in Seq(Game) : Heard(T)
  BY DEF Inv, Touch
<1> DEFINE g == End(T)
<1>2. /\ Typed /\ commands \in Seq(Command) /\ events \in Seq(Event)
      /\ g \in Game /\ InTouch(g) /\ LinkInv
  BY <1>1, TraceEnds DEF Inv, Typed, LinkOK, EventsOK, Heard
<1>3. /\ client' = client /\ joined' = joined /\ deadline' = deadline /\ handler' = handler
      /\ last' = last /\ linkUp' = linkUp /\ events' = events
  BY DEF clientVars
<1>4. Patient => Orderly(commands', g.waiting)
  <2>1. CASE UNCHANGED commands
    BY <1>2, <2>1 DEF InTouch
  <2>2. ASSUME NEW c \in Command, Enqueue(c), c.op # "disconnect",
               c.op = "connect" => c.to \in Session
        PROVE  Patient => Orderly(commands', g.waiting)
    BY <1>2, <2>2, OrderlyAppend DEF InTouch, Enqueue
  <2>3. CASE Enqueue(Disconnect) /\ linkUp /\ commands = <<>>
    <3>1. commands' = <<Disconnect>>
      BY <2>3, QueueTypes DEF Enqueue
    <3>2. ~g.waiting
      BY <1>2, <2>3 DEF InTouch, Announced
    <3> QED BY <3>1, <3>2 DEF Orderly, Disconnect
  <2> QED BY <2>1, <2>2, <2>3 DEF Patient
<1>5. LinkInv' /\ (Announced' <=> Announced)
  BY <1>2, <1>3, LinkStays
<1>6. PICK h : h = g
  OBVIOUS
<1>7. InTouch(h)'
  BY <1>2, <1>3, <1>4, <1>5, <1>6, TouchStays
<1> QED BY <1>1, <1>2, <1>3, <1>5, <1>6, <1>7, PushNone

\* The commands of the game and of the overlay.
LEMMA Commands ==
    /\ \A ids \in SUBSET Message : Send(ids) \in Command /\ Send(ids).op = "send"
    /\ \A s \in Session : /\ Connect(s) \in Command
                          /\ Connect(s).op = "connect" /\ Connect(s).to = s
  BY QueueTypes DEF Send, Connect

\* Ids of two sets that a session has a right to.
LEMMA OwnUnion ==
    ASSUME NEW s, NEW own, NEW a, NEW b, OwnIds(a, s, own), OwnIds(b, s, own)
    PROVE  OwnIds(a \cup b, s, own)
  BY DEF OwnIds

\* An event taken: the game goes to the next state of the trace.
LEMMA ApplyEventInv ==
    ASSUME Inv, ApplyEvent
    PROVE  LinkInv' /\ RecordInv' /\ Touch'
<1>1. PICK T \in Seq(Game) : Heard(T)
  BY DEF Inv, Touch
<1>0. PICK e, g, h : e = Head(events) /\ g = T[1] /\ h = Effect(e, g)
  OBVIOUS
<1>2. /\ Typed /\ events \in Seq(Event) /\ events # <<>> /\ events' = Tail(events)
      /\ LinkInv /\ RecordInv /\ Trace(events, T, Owned) /\ StartsAt(g) /\ InTouch(End(T))
      /\ g \in Game /\ e \in Event
  BY <1>0, <1>1, TraceEnds DEF Inv, Typed, LinkOK, EventsOK, Heard, ApplyEvent
<1>3. /\ UNCHANGED <<client, joined, deadline, handler, last, linkUp, commands, cached, checked,
                     saved, server, earned>>
  BY DEF ApplyEvent, clientVars, worldVars
<1>4. LinkInv'
  BY <1>2, <1>3 DEF LinkInv
<1>5. Owned' = Owned
  BY <1>3 DEF Owned
<1>6. /\ Tail(T) \in Seq(Game) /\ Trace(Tail(events), Tail(T), Owned)
      /\ Tail(T)[1] = h /\ End(Tail(T)) = End(T) /\ Sensible(e, g, Owned)
  BY <1>0, <1>2, TraceTake
<1>7. /\ g.session = session /\ g.authed = authed /\ g.waiting = waiting
      /\ g.fresh => pending = {} /\ bound = NoSession /\ ~authed
  BY <1>2 DEF StartsAt
<1>8. StartsAt(h)' /\ RecordInv'
  <2>1. CASE OnConnecting
    <3>1. e.kind = "connecting" /\ waiting' = TRUE /\ UNCHANGED <<session, authed, pending, bound>>
      BY <1>0, <2>1 DEF OnConnecting
    <3>2. h.session = session /\ h.authed = authed /\ h.waiting = TRUE /\ h.fresh = g.fresh
      BY <1>0, <1>7, <3>1 DEF Effect
    <3>3. RecordInv'
      BY <1>2, <1>3, <1>5, <3>1 DEF RecordInv
    <3> QED BY <1>7, <3>1, <3>2, <3>3 DEF StartsAt
  <2>2. CASE OnSessionEnded
    <3>1. /\ e.kind = "ended" /\ authed' = FALSE /\ pending' = {} /\ bound' = NoSession
          /\ UNCHANGED <<session, waiting>>
      BY <1>0, <2>2 DEF OnSessionEnded
    <3>2. h.session = session /\ h.authed = FALSE /\ h.waiting = waiting
      BY <1>0, <1>7, <3>1 DEF Effect
    <3>3. RecordInv'
      BY <1>2, <1>3, <1>5, <3>1 DEF RecordInv, OwnIds
    <3> QED BY <3>1, <3>2, <3>3 DEF StartsAt
  <2>3. CASE OnConnected
    <3>1. /\ e.kind = "connected" /\ session' = e.of /\ authed' = TRUE /\ waiting' = FALSE
          /\ UNCHANGED <<pending, bound>>
      BY <1>0, <2>3 DEF OnConnected
    <3>2. h.session = e.of /\ h.authed = TRUE /\ h.waiting = FALSE /\ h.fresh = FALSE
      BY <1>0, <3>1 DEF Effect
    <3>3. e.of = session \/ (pending = {} /\ bound = NoSession)
      BY <1>6, <1>7, <3>1 DEF Sensible
    <3>4. RecordInv'
      BY <1>2, <1>3, <1>5, <3>1, <3>3 DEF RecordInv, OwnIds
    <3> QED BY <3>1, <3>2, <3>4 DEF StartsAt
  <2>4. CASE OnLocationsChecked
    <3>1. /\ e.kind = "checked" /\ pending' = pending \cup e.ids
          /\ UNCHANGED <<session, authed, waiting, bound>>
      BY <1>0, <2>4 DEF OnLocationsChecked
    <3>2. h.session = session /\ h.authed = authed /\ h.waiting = waiting /\ h.fresh = FALSE
      BY <1>0, <1>7, <3>1 DEF Effect
    <3>3. OwnIds(pending', session, Owned)
      BY <1>2, <1>6, <1>7, <3>1, OwnUnion DEF Sensible, RecordInv
    <3>4. RecordInv'
      BY <1>2, <1>3, <1>5, <3>1, <3>3 DEF RecordInv
    <3> QED BY <3>1, <3>2, <3>4 DEF StartsAt
  <2>5. CASE OnDown
    <3>1. /\ e.kind = "down" /\ authed' = FALSE /\ waiting' = FALSE
          /\ UNCHANGED <<session, pending, bound>>
      BY <1>0, <2>5 DEF OnDown
    <3>2. h.session = session /\ h.authed = FALSE /\ h.waiting = FALSE /\ h.fresh = g.fresh
      BY <1>0, <1>7, <3>1 DEF Effect
    <3>3. RecordInv'
      BY <1>2, <1>3, <1>5, <3>1 DEF RecordInv
    <3> QED BY <1>7, <3>1, <3>2, <3>3 DEF StartsAt
  <2> QED BY <2>1, <2>2, <2>3, <2>4, <2>5 DEF ApplyEvent
<1>9. InTouch(End(T))'
  BY <1>2, <1>3 DEF InTouch, Announced
<1> QED BY <1>2, <1>4, <1>5, <1>6, <1>8, <1>9 DEF Touch, Heard

\* drive_tick, and the hooks that bind the record and fill it.
LEMMA HooksTickInv ==
    ASSUME Inv, HooksTick
    PROVE  LinkInv' /\ RecordInv' /\ Touch'
<1>1. /\ Typed /\ RecordInv /\ UNCHANGED <<clientVars, linkUp, events>>
      /\ session' = session /\ authed' = authed /\ waiting' = waiting
      /\ saved' = saved /\ server' = server /\ earned' = earned
      /\ EvaluateGoal /\ InboundReady
  BY DEF Inv, HooksTick, worldVars
<1>2. UNCHANGED commands \/ Enqueue(Send({Goal}))
  BY <1>1 DEF EvaluateGoal
<1>3. Send({Goal}) \in Command /\ Send({Goal}).op = "send"
  BY Commands DEF Message
<1>4. Owned' = Owned
  BY <1>1 DEF Owned
<1>5. CASE bound = NoSession /\ ~authed
  <2>1. UNCHANGED <<bound, cached, checked, pending>>
    BY <1>1, <1>5 DEF InboundReady
  <2>2. Steady
    BY <1>1, <1>4, <2>1 DEF Steady, More
  <2>3. LinkInv' /\ Touch'
    BY <1>1, <1>2, <1>3, <2>2, QuietTouch
  <2>4. RecordInv'
    BY <1>1, <1>4, <2>1 DEF RecordInv
  <2> QED BY <2>3, <2>4
<1>6. CASE ~(bound = NoSession /\ ~authed)
  <2>1. /\ bound' = IF bound = NoSession THEN session ELSE bound
        /\ cached' = bound' /\ pending' = {}
        /\ checked' = pending \cup (IF bound = NoSession THEN Record ELSE checked)
    BY <1>1, <1>6 DEF InboundReady
  <2>2. session \in Session /\ bound' = session /\ cached' = session
    BY <1>1, <1>6, <2>1 DEF Typed, StateOK, RecordOK, RecordInv
  <2>3. OwnIds(IF bound = NoSession THEN Record ELSE checked, session, Owned)
    BY <1>1, <2>2 DEF RecordInv, Record, OwnIds
  <2>4. OwnIds(checked', session, Owned)
    BY <1>1, <2>1, <2>3, OwnUnion DEF RecordInv
  <2>5. RecordInv'
    BY <1>1, <1>4, <2>1, <2>2, <2>4 DEF RecordInv, OwnIds
  <2>6. Steady
    BY <1>1, <1>4, <1>6 DEF Steady, More
  <2>7. LinkInv' /\ Touch'
    BY <1>1, <1>2, <1>3, <2>6, QuietTouch
  <2> QED BY <2>5, <2>7
<1> QED BY <1>5, <1>6

LEMMA TickInv ==
    ASSUME Inv, Tick
    PROVE  LinkInv' /\ RecordInv' /\ Touch'
<1>1. ASSUME UNCHANGED <<clientVars, linkUp, events, stateVars, recordVars, worldVars>>,
             \/ UNCHANGED commands
             \/ \E c \in Command : Enqueue(c) /\ c.op = "send"
      PROVE  LinkInv' /\ RecordInv' /\ Touch'
  <2>1. Steady
    BY <1>1, OwnedStays DEF Steady, stateVars, recordVars, worldVars
  <2>2. LinkInv' /\ Touch'
    BY <1>1, <2>1, QuietTouch
  <2>3. RecordInv'
    BY <1>1, <2>1, RecordStays DEF Inv, Steady, stateVars
  <2> QED BY <2>2, <2>3
<1>2. CASE TickBegin \/ DrainDone
  BY <1>1, <1>2 DEF TickBegin, DrainDone, linkVars
<1>3. CASE ResendGate
  <2>1. UNCHANGED <<clientVars, linkUp, events, stateVars, recordVars, worldVars>>
    BY <1>3 DEF ResendGate
  <2>2. UNCHANGED commands \/ Enqueue(Send(checked))
    BY <1>3 DEF ResendGate
  <2>3. Send(checked) \in Command /\ Send(checked).op = "send"
    BY Commands DEF Inv, Typed, RecordOK, Message
  <2> QED BY <1>1, <2>1, <2>2, <2>3
<1> QED BY <1>2, <1>3, ApplyEventInv, HooksTickInv DEF Tick

\* The player's own steps, and what he asks of the link.
LEMMA PlayerInv ==
    ASSUME Inv, Player
    PROVE  LinkInv' /\ RecordInv' /\ Touch'
<1>1. Typed /\ RecordInv /\ earned \in [Session -> SUBSET Message]
      /\ server \in [Session -> SUBSET Message]
  BY DEF Inv, Typed, WorldOK
<1>2. ASSUME UNCHANGED <<clientVars, linkVars, stateVars, bound>>, More(Owned, Owned')
      PROVE  LinkInv' /\ Touch'
  <2>1. Steady
    BY <1>2 DEF Steady, stateVars
  <2> QED BY <1>2, <2>1, QuietTouch DEF linkVars
<1>3. CASE StartRun \/ EndRun
  <2>1. UNCHANGED <<clientVars, linkVars, stateVars, recordVars, worldVars>>
    BY <1>3 DEF StartRun, EndRun
  <2>2. More(Owned, Owned')
    BY <2>1, OwnedStays DEF worldVars
  <2> QED BY <1>1, <1>2, <2>1, <2>2, RecordStays DEF stateVars, recordVars
<1>4. CASE PlayerWins
  <2>1. /\ UNCHANGED <<clientVars, linkVars, stateVars, recordVars, server>>
        /\ earned' = [earned EXCEPT ![session] = @ \cup {Goal}] /\ session \in Session
    BY <1>4, CheckReportingAssumption DEF PlayerWins
  <2>2. More(Owned, Owned')
    BY <1>1, <2>1, OwnedGrows
  <2> QED BY <1>1, <1>2, <2>1, <2>2, RecordStays DEF stateVars, recordVars
<1>5. CASE GameSave
  <2>1. /\ UNCHANGED <<clientVars, linkVars, stateVars, bound, cached, checked, worldVars>>
        /\ saved' = [saved EXCEPT ![bound] = checked]
    BY <1>5 DEF GameSave
  <2>2. Owned' = Owned /\ More(Owned, Owned')
    BY <2>1 DEF Owned, More, worldVars
  <2>3. session' = session /\ pending' = pending
    BY <2>1 DEF stateVars
  <2>4. \A s \in Session : saved'[s] \subseteq Owned[s]
    <3>1. /\ saved \in [Session -> SUBSET Location]
          /\ \A s \in Session : saved[s] \subseteq Owned[s]
      BY <1>1 DEF Typed, RecordOK, RecordInv
    <3>2. bound # NoSession => checked \subseteq Owned[bound]
      BY <1>1 DEF RecordInv, OwnIds
    <3>3. NoSession \notin Session
      BY CheckReportingAssumption
    <3> QED BY <2>1, <3>1, <3>2, <3>3
  <2>5. RecordInv'
    BY <1>1, <2>1, <2>2, <2>3, <2>4 DEF RecordInv
  <2> QED BY <1>2, <2>1, <2>2, <2>5
<1>6. ASSUME NEW l \in Location, PlayerCollects(l)
      PROVE  LinkInv' /\ RecordInv' /\ Touch'
  <2>1. /\ UNCHANGED <<clientVars, linkUp, events, stateVars, bound, cached, saved, server>>
        /\ earned' = [earned EXCEPT ![session] = @ \cup {l}]
        /\ checked' = IF bound = NoSession THEN checked ELSE checked \cup {l}
        /\ UNCHANGED commands \/ Enqueue(Send({l}))
    BY <1>6 DEF PlayerCollects
  <2>2. session' = session /\ pending' = pending /\ authed' = authed /\ waiting' = waiting
    BY <2>1 DEF stateVars
  <2>3. More(Owned, Owned')
    <3>1. CASE session \in Session
      BY <1>1, <2>1, <3>1, OwnedGrows
    <3>2. CASE session \notin Session
      <4>1. UNCHANGED <<server, earned>>
        BY <1>1, <2>1, <3>2
      <4> QED BY <4>1, OwnedStays
    <3> QED BY <3>1, <3>2
  <2>4. Steady
    BY <2>1, <2>2, <2>3 DEF Steady
  <2>5. Send({l}) \in Command /\ Send({l}).op = "send"
    BY Commands DEF Message
  <2>6. LinkInv' /\ Touch'
    BY <2>1, <2>4, <2>5, QuietTouch
  <2>7. \A ids, s : OwnIds(ids, s, Owned) => OwnIds(ids, s, Owned')
    BY <2>3 DEF OwnIds, More
  <2>8. bound # NoSession => l \in Owned'[session] /\ cached = session /\ session \in Session
    BY <1>1, <2>1 DEF Owned, RecordInv, Typed, RecordOK
  <2>9. OwnIds(checked', cached, Owned')
    BY <1>1, <2>1, <2>7, <2>8 DEF RecordInv, OwnIds
  <2>10. RecordInv'
    BY <1>1, <2>1, <2>2, <2>3, <2>7, <2>9 DEF RecordInv, More
  <2> QED BY <2>6, <2>10
<1>7. ASSUME UNCHANGED <<clientVars, linkUp, events, stateVars, recordVars, worldVars>>,
             \/ \E c \in Command : /\ Enqueue(c) /\ c.op # "disconnect"
                                   /\ c.op = "connect" => c.to \in Session
             \/ Enqueue(Disconnect) /\ (EarlyQuit \/ (linkUp /\ commands = <<>>))
      PROVE  LinkInv' /\ RecordInv' /\ Touch'
  <2>1. Steady
    BY <1>7, OwnedStays DEF Steady, stateVars, recordVars, worldVars
  <2>2. LinkInv' /\ Touch'
    BY <1>7, <2>1, QuietTouch
  <2> QED BY <1>1, <1>7, <2>1, <2>2, RecordStays DEF Steady, stateVars
<1>8. ASSUME NEW s \in Session, UserConnects(s)
      PROVE  LinkInv' /\ RecordInv' /\ Touch'
  BY <1>7, <1>8, Commands DEF UserConnects
<1>9. CASE UserDisconnects
  BY <1>7, <1>9 DEF UserDisconnects
<1> QED BY <1>3, <1>4, <1>5, <1>6, <1>8, <1>9 DEF Player

-----------------------------------------------------------------------------
(***************************************************************************)
(* What the game holds, and what it will hold, agree with the link.        *)
(***************************************************************************)
\* A process that has just started has heard of nothing.
Fresh == /\ client = NoSession /\ joined = FALSE /\ handler = "none" /\ last = NoSession
         /\ linkUp = FALSE /\ commands = <<>> /\ events = <<>>
         /\ session = NoSession /\ authed = FALSE /\ waiting = FALSE

LEMMA FreshTouch == Fresh => LinkInv /\ Touch
<1> SUFFICES ASSUME Fresh PROVE LinkInv /\ Touch
  OBVIOUS
<1>1. PICK g \in Game : g = [session |-> NoSession, authed |-> FALSE, waiting |-> FALSE,
                            fresh |-> FALSE]
  BY DEF Game
<1>2. <<g>> \in Seq(Game) /\ Len(<<g>>) = 1 /\ <<g>>[1] = g /\ End(<<g>>) = g
  BY DEF End
<1>3. Len(events) = 0
  BY DEF Fresh
<1>4. Trace(events, <<g>>, Owned)
  BY <1>2, <1>3 DEF Trace
<1>5. StartsAt(g)
  BY <1>1 DEF StartsAt, Fresh
<1>6. InTouch(g)
  BY <1>1 DEF InTouch, Announced, Orderly, Fresh
<1>7. LinkInv
  BY DEF LinkInv, Fresh
<1> QED BY <1>2, <1>4, <1>5, <1>6, <1>7 DEF Touch, Heard

LEMMA InitInv == Init => Inv
<1> SUFFICES ASSUME Init PROVE Inv
  OBVIOUS
<1>1. Typed
  BY InitTyped
<1>2. LinkInv /\ Touch
  BY FreshTouch DEF Init, Fresh
<1>3. RecordInv
  BY DEF Init, RecordInv, OwnIds
<1> QED BY <1>1, <1>2, <1>3 DEF Inv

LEMMA CrashInv ==
    ASSUME Inv, Crash
    PROVE  LinkInv' /\ RecordInv' /\ Touch'
<1>0. (Fresh => LinkInv /\ Touch)'
  BY FreshTouch, PTL
<1>1. LinkInv' /\ Touch'
  BY <1>0 DEF Crash, Fresh
<1>2. /\ pending' = {} /\ bound' = NoSession /\ checked' = {} /\ saved' = saved
      /\ server' = server /\ earned' = earned /\ RecordInv
  BY DEF Crash, worldVars, Inv
<1>3. RecordInv'
  BY <1>2 DEF RecordInv, OwnIds, Owned
<1> QED BY <1>1, <1>3

LEMMA InvAlways == Spec => []Inv
<1>1. Inv /\ [Next]_vars => Inv'
  <2> SUFFICES ASSUME Inv, [Next]_vars PROVE Inv'
    OBVIOUS
  <2>1. Typed'
    <3>1. CASE UNCHANGED vars
      BY <3>1, Kept, Zenon DEF vars, Inv, Typed
    <3> QED BY <3>1, NetTyped, TickTyped, PlayerTyped, CrashTyped, Zenon DEF Next, Inv
  <2>2. CASE UNCHANGED vars
    <3>1. UNCHANGED <<clientVars, linkVars, stateVars, recordVars, worldVars>>
      BY <2>2 DEF vars
    <3>2. Steady
      BY <3>1, OwnedStays DEF Steady, stateVars, recordVars, worldVars
    <3>3. LinkInv' /\ Touch'
      BY <3>1, <3>2, QuietTouch DEF linkVars
    <3>4. RecordInv'
      BY <3>1, <3>2, RecordStays DEF Inv, Steady, stateVars
    <3> QED BY <2>1, <3>3, <3>4 DEF Inv
  <2>3. CASE NetStep \/ NetFault
    BY <2>1, <2>3, NetInv, NetKeepsRecord DEF Inv
  <2> QED BY <2>1, <2>2, <2>3, TickInv, PlayerInv, CrashInv DEF Next, Inv
<1> QED BY <1>1, InitInv, PTL DEF Spec

\* Nothing a previous server reported lands in the record of the next one, in
\* memory or in a container, whatever the order in which the connection is replaced
\* and the game drains what the old one had to say.
THEOREM RecordStaysOwn == Spec => []RecordIsOwn
<1>1. Inv => RecordIsOwn
  BY DEF Inv, Typed, RecordOK, RecordInv, OwnIds, Owned, RecordIsOwn
<1> QED BY <1>1, InvAlways, PTL

\* Once everything is drained the trace has one state, the game's own.
LEMMA NothingLeft ==
    ASSUME Inv, events = <<>>
    PROVE  \E g \in Game : StartsAt(g) /\ InTouch(g)
<1>1. PICK T \in Seq(Game) : Heard(T)
  BY DEF Inv, Touch
<1>2. Len(T) = 1
  BY <1>1 DEF Heard, Trace
<1>3. End(T) = T[1] /\ T[1] \in Game
  BY <1>2 DEF End
<1> QED BY <1>1, <1>3 DEF Heard

\* Once nothing is left to drain, the game's idea of the connection is the link's:
\* neither a disconnect nor a switch of session is ever lost on the way.
THEOREM GameHearsLink == Spec => []GameAgreesWithLink
<1>1. Inv => GameAgreesWithLink
  <2> SUFFICES ASSUME Inv, events = <<>>, handler = "none"
               PROVE  authed = linkUp /\ (linkUp => joined /\ session = client)
    BY DEF GameAgreesWithLink
  <2>1. PICK g \in Game : StartsAt(g) /\ InTouch(g)
    BY NothingLeft
  <2>2. authed <=> linkUp
    BY <2>1 DEF StartsAt, InTouch, Announced
  <2>3. authed \in BOOLEAN /\ linkUp \in BOOLEAN /\ LinkInv
    BY DEF Inv, Typed, StateOK, LinkOK
  <2>4. linkUp => joined /\ session = client
    BY <2>1, <2>3 DEF StartsAt, InTouch, Announced, LinkInv
  <2> QED BY <2>2, <2>3, <2>4
<1> QED BY <1>1, InvAlways, PTL

\* A connection the game waits for ends: either way, or at the deadline of the link,
\* if the player is patient and the server's slot data is what it should be.
THEOREM WaitingHasDeadline == Patient => (Spec => []AttemptHasDeadline)
<1> SUFFICES ASSUME Patient PROVE Spec => []AttemptHasDeadline
  OBVIOUS
<1>1. Inv => AttemptHasDeadline
  <2> SUFFICES ASSUME Inv, events = <<>>, handler = "none", waiting PROVE deadline
    BY DEF AttemptHasDeadline
  <2>1. PICK g \in Game : StartsAt(g) /\ InTouch(g)
    BY NothingLeft
  <2> QED BY <2>1 DEF StartsAt, InTouch
<1> QED BY <1>1, InvAlways, PTL
=============================================================================
