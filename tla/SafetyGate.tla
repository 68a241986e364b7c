----------------------------- MODULE SafetyGate -----------------------------
(***************************************************************************)
(* mth/core/ap_gate and its callers in mth/app: whether the mod may talk   *)
(* to a multiworld on this build of the game.  Three threads are involved. *)
(* The startup thread validates the binary and installs the hooks; the     *)
(* game thread counts ticks until it has proof that the native hooks fire, *)
(* and settles the verdict; the overlay's render thread connects.  The     *)
(* link's commands are carried out later by the net thread, in order.      *)
(***************************************************************************)
EXTENDS Naturals, Sequences

CONSTANTS
    LivenessTimeoutTicks,  \* kLivenessTimeoutTicks
    MaxCommands            \* bound on the commands queued to the link

VARIABLES
    startup,     \* the App constructor: "probes", "hooks", "overlay" or "ready"
    sound,       \* the static probes passed (GateInputs)
    hooksFire,   \* this build of the game calls the native hooks at all
    observed,    \* worldupdate_observed
    ticks,       \* ticks_since_probe_installed
    verdict,     \* gate_latch_ and gate_verdict_: "Pending", "Clear" or "Refused"
    dropping,    \* gate_tick has published a refusal and not yet acted on it
    enforcing,   \* gate_enforcing_
    connecting,  \* connect() is past its check
    commands,    \* queued to the link: "connect" or "disconnect"
    linked,      \* the link has a session
    overtaken    \* a connect checked before the refusal was queued after its disconnect

sgVars == <<startup, sound, hooksFire, observed, ticks, verdict, dropping, enforcing,
            connecting, commands, linked, overtaken>>

Settled == verdict # "Pending"

Init ==
    /\ startup = "probes" /\ sound = FALSE /\ hooksFire \in BOOLEAN
    /\ observed = FALSE /\ ticks = 0
    /\ verdict = "Pending" /\ dropping = FALSE
    /\ enforcing = TRUE /\ connecting = FALSE
    /\ commands = <<>> /\ linked = FALSE /\ overtaken = FALSE

-----------------------------------------------------------------------------
\* evaluate
Evaluate(checks, seen, count) ==
    IF ~checks THEN "Refused"
    ELSE IF seen THEN "Clear"
    ELSE IF count >= LivenessTimeoutTicks THEN "Refused" ELSE "Pending"

\* Seeded fault: the verdict follows its inputs after it has settled.
UpdateUnlatched(checks, seen, count) ==
    /\ verdict' = Evaluate(checks, seen, count)
    /\ dropping' = (verdict' = "Refused" /\ verdict # "Refused" /\ startup = "ready")

\* GateLatch::update and the part of gate_tick that publishes the verdict.  The
\* constructor's own call finds no link to drop.
Update(checks, seen, count) ==
    /\ verdict' = IF Settled THEN verdict ELSE Evaluate(checks, seen, count)
    /\ dropping' = (verdict' = "Refused" /\ ~Settled /\ startup = "ready")

-----------------------------------------------------------------------------
(***************************************************************************)
(* The startup thread.                                                     *)
(***************************************************************************)
\* run_static_gate_probes and the first gate_tick, before there is a link
RunStaticProbes ==
    /\ startup = "probes" /\ startup' = "hooks"
    /\ sound' \in BOOLEAN
    /\ Update(sound', FALSE, 0)
    /\ UNCHANGED <<hooksFire, observed, ticks, enforcing, connecting, commands, linked, overtaken>>

\* The hook manager is built, then the overlay, and only then the ticks count.
BuildRest ==
    /\ \/ startup = "hooks" /\ startup' = "overlay"
       \/ startup = "overlay" /\ startup' = "ready"
    /\ UNCHANGED <<sound, hooksFire, observed, ticks, verdict, dropping, enforcing, connecting,
                   commands, linked, overtaken>>

-----------------------------------------------------------------------------
(***************************************************************************)
(* The game thread, through AppTickSink: nothing happens before ready().   *)
(***************************************************************************)
\* Seeded fault: a tick that finds no proof of liveness does not count.
FixedUpdateUncounted ==
    /\ startup = "ready" /\ ~dropping /\ ~Settled
    /\ Update(sound, observed, ticks)
    /\ UNCHANGED <<startup, sound, hooksFire, observed, ticks, enforcing, connecting, commands,
                   linked, overtaken>>

\* drive_tick, until the verdict is settled
FixedUpdate ==
    /\ startup = "ready" /\ ~dropping /\ ~Settled
    /\ ticks' = ticks + 1
    /\ Update(sound, observed, ticks + 1)
    /\ UNCHANGED <<startup, sound, hooksFire, observed, enforcing, connecting, commands, linked,
                   overtaken>>

\* gate_note_worldupdate
WorldUpdate ==
    /\ startup = "ready" /\ ~dropping /\ hooksFire /\ ~observed
    /\ observed' = TRUE
    /\ Update(sound, TRUE, ticks)
    /\ UNCHANGED <<startup, sound, hooksFire, ticks, enforcing, connecting, commands, linked,
                   overtaken>>

\* Seeded fault: the refusal only stops connections to come.
DropNothing ==
    /\ dropping /\ dropping' = FALSE
    /\ UNCHANGED <<startup, sound, hooksFire, observed, ticks, verdict, enforcing, connecting,
                   commands, linked, overtaken>>

\* gate_tick reads whether to enforce and drops the session opened meanwhile.
DropSession ==
    /\ dropping /\ dropping' = FALSE
    /\ commands' = IF enforcing THEN Append(commands, "disconnect") ELSE commands
    /\ overtaken' = (overtaken \/ ~enforcing)
    /\ UNCHANGED <<startup, sound, hooksFire, observed, ticks, verdict, enforcing, connecting,
                   linked>>

-----------------------------------------------------------------------------
(***************************************************************************)
(* The render thread and the net thread.                                   *)
(***************************************************************************)
OverlayUp == startup \in {"overlay", "ready"}

\* connect(): should_refuse_connect, on the verdict of that moment ...
ConnectChecks ==
    /\ OverlayUp /\ ~connecting
    /\ ~(enforcing /\ verdict = "Refused")
    /\ connecting' = TRUE
    /\ UNCHANGED <<startup, sound, hooksFire, observed, ticks, verdict, dropping, enforcing,
                   commands, linked, overtaken>>

\* ... and the command.
ConnectQueues ==
    /\ connecting /\ Len(commands) < MaxCommands
    /\ connecting' = FALSE
    /\ commands' = Append(commands, "connect")
    /\ overtaken' = (overtaken \/ (verdict = "Refused" /\ ~dropping))
    /\ UNCHANGED <<startup, sound, hooksFire, observed, ticks, verdict, dropping, enforcing, linked>>

\* `gate enforce on` and `gate enforce off`
SetGateEnforcing ==
    /\ OverlayUp
    /\ enforcing' = ~enforcing
    /\ overtaken' = (overtaken \/ (verdict = "Refused" /\ enforcing))
    /\ UNCHANGED <<startup, sound, hooksFire, observed, ticks, verdict, dropping, connecting,
                   commands, linked>>

\* The net thread carries out the oldest command.
LinkActs ==
    /\ commands # <<>>
    /\ commands' = Tail(commands)
    /\ linked' = (Head(commands) = "connect")
    /\ UNCHANGED <<startup, sound, hooksFire, observed, ticks, verdict, dropping, enforcing,
                   connecting, overtaken>>

Next == \/ RunStaticProbes \/ BuildRest \/ FixedUpdate \/ WorldUpdate \/ DropSession
        \/ ConnectChecks \/ ConnectQueues \/ SetGateEnforcing \/ LinkActs

Spec == Init /\ [][Next]_sgVars
-----------------------------------------------------------------------------
(***************************************************************************)
(* Properties.                                                             *)
(***************************************************************************)
\* Once a refusal has been acted on and the link is at rest, the mod is not in
\* a multiworld, whichever thread connected when, unless the user turned the
\* enforcement off or a connect() was caught between its check and its command.
RefusalReachesBack ==
    verdict = "Refused" /\ ~dropping /\ ~overtaken
        => ~linked \/ commands # <<>>

\* The verdict settles once the ticks run, on a build whose hooks never fire too,
\* and then never changes: hooks that fire late do not lift a refusal, and the
\* build that passed is not refused in mid-session.
VerdictSettles ==
    /\ startup = "ready" ~> Settled
    /\ [][Settled => verdict' = verdict]_sgVars
=============================================================================
