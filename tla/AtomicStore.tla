---------------------------- MODULE AtomicStore ----------------------------
(***************************************************************************)
(* What the game thread may rely on when it saves: one durable pair (game  *)
(* save, AP state) per session.  A request to save either replaces the     *)
(* whole pair or leaves it alone, an affirmative answer means that it was  *)
(* replaced, and a crash costs at most what was never saved.               *)
(***************************************************************************)
CONSTANTS Session, Marks, None

VARIABLES
    durable,   \* the pair a restart would load, for each session
    open,      \* the session whose pair is in memory, or None
    memory,    \* that pair
    saving,    \* a request to save is waiting for its answer
    confirmed  \* the pair of the last request answered yes, for each session

vars == <<durable, open, memory, saving, confirmed>>

Pair  == [save : Marks \cup {None}, state : Marks \cup {None}]
Blank == [save |-> None, state |-> None]

Init ==
    /\ durable \in [Session -> Pair]
    /\ open = None /\ memory = Blank /\ saving = FALSE
    /\ confirmed = [s \in Session |-> Blank]

\* What is in memory for session s: the open pair, or else the durable one.
Loaded(s) == IF open = s THEN memory ELSE durable[s]

Open(s) ==
    /\ ~saving
    /\ open' = s /\ memory' = Loaded(s)
    /\ UNCHANGED <<saving, confirmed, durable>>

Stage(s) ==
    /\ ~saving
    /\ open' = s
    /\ \E m \in Marks : memory' = [Loaded(s) EXCEPT !.state = m]
    /\ UNCHANGED <<saving, confirmed, durable>>

Request(s) ==
    /\ ~saving
    /\ open' = s
    /\ \E m \in Marks : memory' = [Loaded(s) EXCEPT !.save = m]
    /\ saving' = TRUE
    /\ UNCHANGED <<durable, confirmed>>

Commit ==
    /\ saving
    /\ UNCHANGED <<open, memory, saving, confirmed>>
    /\ durable' = [durable EXCEPT ![open] = memory]

\* The answer is yes only if the pair in memory is the durable one.
Answer ==
    /\ saving
    /\ saving' = FALSE
    /\ \/ UNCHANGED confirmed
       \/ durable[open] = memory /\ confirmed' = [confirmed EXCEPT ![open] = memory]
    /\ UNCHANGED <<durable, open, memory>>

Crash ==
    /\ open' = None /\ memory' = Blank /\ saving' = FALSE
    /\ UNCHANGED <<durable, confirmed>>

Next ==
    \/ \E s \in Session : Open(s) \/ Stage(s) \/ Request(s)
    \/ Commit \/ Answer \/ Crash

Spec == Init /\ [][Next]_vars
=============================================================================
