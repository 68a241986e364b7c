----------------------------- MODULE SaveBundle -----------------------------
(***************************************************************************)
(* mth/core/save/ap_save_bundle: one container per session, holding the    *)
(* game's save and the AP state together.  The game thread stages the AP   *)
(* state in memory and commits both when the game saves, blocking until    *)
(* the writer thread has put a new container in place: temporary file,     *)
(* rotation to a backup, replacement.  The process may end between any two *)
(* of these; only the files survive.                                       *)
(*                                                                         *)
(* An AP state is abstracted to how much it marks, a game save to what was *)
(* marked when the game captured it.                                       *)
(***************************************************************************)
EXTENDS Naturals, Sequences

CONSTANTS
    Session,    \* the (seed, slot) pairs
    Name,       \* file names
    NameOf,     \* ap_bundle_filename: the file name of each session, sanitised
    None,       \* no session, no file, or an entry that is absent
    Junk,       \* a file that is not a readable container
    Inherited,  \* what the previous layout may hold for the sessions
    Found,      \* what the files of the names may hold at the start
    MaxMarks    \* bound on how much a state marks

Marks == 0..MaxMarks
Pair  == [save : Marks \cup {None}, state : Marks \cup {None}]

Container == [of : Session, save : Marks \cup {None}, state : Marks \cup {None}]
File == Container \cup {None, Junk}

\* What an AP state marks; one that was never staged marks nothing.
Marked(state) == IF state = None THEN 0 ELSE state

\* A container found at the start was written by an earlier process.
ASSUME SaveBundleAssumption ==
    /\ NameOf \in [Session -> Name] /\ MaxMarks \in Nat
    /\ None \notin Session /\ None \notin Marks
    /\ None \notin Container /\ Junk \notin Container /\ Junk # None
    /\ Inherited \subseteq [Session -> Pair]
    /\ Found \subseteq [Name -> File]
    /\ \A files \in Found, n \in Name :
          files[n] \in Container => files[n].save = Marked(files[n].state)

VARIABLES
    cache,      \* the in-memory copy: whose, foreign or not, and both entries
    staged,     \* state_staged_
    blocked,    \* store() waits in flush() for the writer
    queue,      \* snapshots posted to the writer
    step,       \* where the writer is
    snap,       \* the snapshot it is writing
    key,        \* writer_key_
    backedUp,   \* writer_backed_up_
    lastOk,     \* last_write_ok_
    final, bak, tmp,   \* the files of each name
    legacy,     \* the loose files of the previous layout, never written
    confirmed   \* what the last successful store() of each session returned

cacheVars  == <<cache, staged, blocked>>
writerVars == <<step, snap, key, backedUp, lastOk>>
fileVars   == <<final, bak, tmp>>
vars == <<cacheVars, queue, writerVars, fileVars, legacy, confirmed>>

NoEntries == [save |-> None, state |-> None]
NoCache   == [of |-> None, foreign |-> FALSE, save |-> None, state |-> None]

Init ==
    /\ cache = NoCache /\ staged = FALSE /\ blocked = FALSE
    /\ queue = <<>> /\ step = "wait" /\ snap = None /\ key = None
    /\ backedUp = FALSE /\ lastOk = TRUE
    /\ final \in Found
    /\ bak = [n \in Name |-> None]
    /\ tmp = [n \in Name |-> None]
    /\ legacy \in Inherited
    /\ confirmed = [s \in Session |-> NoEntries]

-----------------------------------------------------------------------------
(***************************************************************************)
(* The game thread.                                                        *)
(***************************************************************************)
\* read_container: absent or unreadable, another run's, or this run's.
Verdict(file, s) ==
    IF file \in {None, Junk} THEN "absent" ELSE IF file.of = s THEN "ours" ELSE "foreign"

\* The container ensure_loaded settles on: the backup only if there is no other.
Chosen(s) ==
    IF Verdict(final[NameOf[s]], s) = "absent" /\ Verdict(bak[NameOf[s]], s) = "ours"
    THEN bak[NameOf[s]] ELSE final[NameOf[s]]

\* Its entries, each replaced by the one of the previous layout if absent;
\* nothing at all when the file is another run's.
Entries(s) ==
    LET f == Chosen(s)
        v == Verdict(f, s)
        c == IF v = "ours" THEN f ELSE NoEntries
    IN  IF v = "foreign" THEN NoEntries
        ELSE [save  |-> IF c.save = None THEN legacy[s].save ELSE c.save,
              state |-> IF c.state = None THEN legacy[s].state ELSE c.state]

FromDisk(s) ==
    LET e == Entries(s)
    IN  [of |-> s, foreign |-> Verdict(Chosen(s), s) = "foreign",
         save |-> e.save, state |-> e.state]

Drained == queue = <<>> /\ step = "wait"

\* ensure_loaded: another session drops what was staged for the last one.
Loaded(s) == IF cache.of = s THEN cache ELSE FromDisk(s)
Ready(s)  == ~blocked /\ (cache.of \in {s, None} \/ Drained)

\* load and load_state
Open(s) ==
    /\ Ready(s)
    /\ cache' = Loaded(s)
    /\ staged' = (staged /\ cache.of = s)
    /\ UNCHANGED <<blocked, queue, writerVars, fileVars, legacy, confirmed>>

Snapshot(c) == [of |-> c.of, save |-> c.save, state |-> c.state]

\* Seeded fault: staging publishes, so the container gets marks newer than its
\* save.
StagePublishes(s, m) ==
    /\ Ready(s)
    /\ m > Marked(Loaded(s).state)
    /\ ~Loaded(s).foreign
    /\ cache' = [Loaded(s) EXCEPT !.state = m] /\ staged' = FALSE
    /\ queue' = Append(queue, Snapshot(cache'))
    /\ UNCHANGED <<blocked, writerVars, fileVars, legacy, confirmed>>

\* stage_state: accepted into memory, where it waits for a store.
Stage(s, m) ==
    /\ Ready(s)
    /\ m > Marked(Loaded(s).state)
    /\ IF Loaded(s).foreign
       THEN cache' = Loaded(s) /\ staged' = (staged /\ cache.of = s)
       ELSE cache' = [Loaded(s) EXCEPT !.state = m] /\ staged' = TRUE
    /\ UNCHANGED <<blocked, queue, writerVars, fileVars, legacy, confirmed>>

\* Seeded fault: another run's container is not refused.
StoreAnyway(s) ==
    /\ Ready(s)
    /\ cache' = [Loaded(s) EXCEPT !.save = Marked(Loaded(s).state)]
    /\ staged' = FALSE
    /\ queue' = Append(queue, Snapshot(cache'))
    /\ blocked' = TRUE
    /\ UNCHANGED <<writerVars, fileVars, legacy, confirmed>>

\* Seeded fault: store does not load the session's container first.
StoreUnloaded(s) ==
    /\ ~blocked
    /\ cache' = [cache EXCEPT !.save = Marked(cache.state)]
    /\ staged' = FALSE
    /\ queue' = Append(queue, Snapshot(cache'))
    /\ blocked' = TRUE
    /\ UNCHANGED <<writerVars, fileVars, legacy, confirmed>>

\* store: the game has captured its save, which goes to the writer with the
\* staged state.
Store(s) ==
    /\ Ready(s)
    /\ IF Loaded(s).foreign
       THEN /\ cache' = Loaded(s) /\ staged' = (staged /\ cache.of = s)
            /\ UNCHANGED <<queue, blocked>>
       ELSE /\ cache' = [Loaded(s) EXCEPT !.save = Marked(Loaded(s).state)]
            /\ staged' = FALSE
            /\ queue' = Append(queue, Snapshot(cache'))
            /\ blocked' = TRUE
    /\ UNCHANGED <<writerVars, fileVars, legacy, confirmed>>

\* flush returns in store, with the result of the last write.
StoreReturns ==
    /\ blocked /\ Drained
    /\ blocked' = FALSE
    /\ confirmed' = IF lastOk
                    THEN [confirmed EXCEPT ![cache.of] = [save |-> cache.save, state |-> cache.state]]
                    ELSE confirmed
    /\ UNCHANGED <<cache, staged, queue, writerVars, fileVars, legacy>>

-----------------------------------------------------------------------------
(***************************************************************************)
(* The writer thread.                                                      *)
(***************************************************************************)
Target == NameOf[snap.of]

\* A new session resets what write_snapshot keeps for the last one.
TakeSnapshot ==
    /\ step = "wait" /\ queue # <<>>
    /\ snap' = Head(queue) /\ queue' = Tail(queue)
    /\ key' = snap'.of
    /\ backedUp' = (backedUp /\ key = snap'.of)
    /\ step' = "open"
    /\ UNCHANGED <<cacheVars, lastOk, fileVars, legacy, confirmed>>

\* A step that throws or reports an error ends the write, the temporary file
\* removed if it was created.
Fail(from) ==
    /\ step = from
    /\ step' = "failed"
    /\ tmp' = IF from = "open" THEN tmp ELSE [tmp EXCEPT ![Target] = None]
    /\ UNCHANGED <<cacheVars, queue, snap, key, backedUp, lastOk, final, bak, legacy,
                   confirmed>>

OpenTemporary ==
    /\ step = "open"
    /\ tmp' = [tmp EXCEPT ![Target] = Junk]
    /\ step' = "write"
    /\ UNCHANGED <<cacheVars, queue, snap, key, backedUp, lastOk, final, bak, legacy,
                   confirmed>>

\* Seeded fault: a short write is taken for a complete one.
WriteUnchecked ==
    /\ step = "write"
    /\ \E image \in {snap, Junk} : tmp' = [tmp EXCEPT ![Target] = image]
    /\ step' = "rotate"
    /\ UNCHANGED <<cacheVars, queue, snap, key, backedUp, lastOk, final, bak, legacy,
                   confirmed>>

\* Every byte is in the file: close succeeded and the size is the image's.
WriteTemporary ==
    /\ step = "write"
    /\ tmp' = [tmp EXCEPT ![Target] = snap]
    /\ step' = "rotate"
    /\ UNCHANGED <<cacheVars, queue, snap, key, backedUp, lastOk, final, bak, legacy,
                   confirmed>>

\* Seeded fault: the container is removed instead of being renamed.
RotateByRemoving ==
    /\ step = "rotate"
    /\ final' = [final EXCEPT ![Target] = None]
    /\ step' = "replace"
    /\ UNCHANGED <<cacheVars, queue, snap, key, backedUp, lastOk, bak, tmp, legacy, confirmed>>

\* Once per session the container becomes the backup, if the rename succeeds.
Rotate ==
    /\ step = "rotate"
    /\ IF ~backedUp /\ final[Target] # None
       THEN /\ backedUp' = TRUE
            /\ \/ /\ bak' = [bak EXCEPT ![Target] = final[Target]]
                  /\ final' = [final EXCEPT ![Target] = None]
               \/ UNCHANGED <<bak, final>>
       ELSE UNCHANGED <<backedUp, bak, final>>
    /\ step' = "replace"
    /\ UNCHANGED <<cacheVars, queue, snap, key, lastOk, tmp, legacy, confirmed>>

Replace ==
    /\ step = "replace"
    /\ final' = [final EXCEPT ![Target] = tmp[Target]]
    /\ tmp' = [tmp EXCEPT ![Target] = None]
    /\ step' = "done"
    /\ UNCHANGED <<cacheVars, queue, snap, key, backedUp, lastOk, bak, legacy, confirmed>>

\* Seeded fault: a write that throws ends the thread.
FinishUnlessThrown ==
    /\ step = "done"
    /\ lastOk' = TRUE
    /\ step' = "wait" /\ snap' = None
    /\ UNCHANGED <<cacheVars, queue, key, backedUp, fileVars, legacy, confirmed>>

\* The result is published and the waiters are woken.
Finish ==
    /\ step \in {"done", "failed"}
    /\ lastOk' = (step = "done")
    /\ step' = "wait" /\ snap' = None
    /\ UNCHANGED <<cacheVars, queue, key, backedUp, fileVars, legacy, confirmed>>

Write == \/ TakeSnapshot \/ OpenTemporary \/ WriteTemporary \/ Rotate \/ Replace \/ Finish
         \/ \E from \in {"open", "write", "replace"} : Fail(from)

-----------------------------------------------------------------------------
\* The process ends, and another one starts on the same files.
Crash ==
    /\ cache' = NoCache /\ staged' = FALSE /\ blocked' = FALSE
    /\ queue' = <<>> /\ step' = "wait" /\ snap' = None /\ key' = None
    /\ backedUp' = FALSE /\ lastOk' = TRUE
    /\ UNCHANGED <<fileVars, legacy, confirmed>>

Next ==
    \/ \E s \in Session : Open(s) \/ Store(s) \/ \E m \in Marks : Stage(s, m)
    \/ StoreReturns \/ Write \/ Crash

Spec == Init /\ [][Next]_vars

\* The writer thread runs, and so does a game thread woken in flush.
LiveSpec == Spec /\ WF_vars(Write) /\ WF_vars(StoreReturns)

-----------------------------------------------------------------------------
(***************************************************************************)
(* Properties.                                                             *)
(***************************************************************************)
\* Every variable stays in its type.
TypeOK ==
    /\ cache \in [of : Session \cup {None}, foreign : BOOLEAN,
                  save : Marks \cup {None}, state : Marks \cup {None}]
    /\ staged \in BOOLEAN /\ blocked \in BOOLEAN
    /\ queue \in Seq(Container)
    /\ step \in {"wait", "open", "write", "rotate", "replace", "done", "failed"}
    /\ snap \in Container \cup {None} /\ key \in Session \cup {None}
    /\ backedUp \in BOOLEAN /\ lastOk \in BOOLEAN
    /\ final \in [Name -> File] /\ bak \in [Name -> File] /\ tmp \in [Name -> File]
    /\ legacy \in [Session -> Pair] /\ confirmed \in [Session -> Pair]

Files == {final[n] : n \in Name} \cup {bak[n] : n \in Name} \cup {tmp[n] : n \in Name}

\* The AP state in a container is the one that held when the game captured the
\* save beside it: no crash or failure brings marks back without their items.
PairMatches == \A c \in Files \ {None, Junk} : c.save = Marked(c.state)

\* What a successful store committed is never lost to a crash at any step, to a
\* failed rename, or to another run whose name happens to be the same.
NothingLost ==
    \A s \in Session : confirmed[s] # NoEntries =>
        \E f \in {final[NameOf[s]], bak[NameOf[s]]} :
            /\ Verdict(f, s) = "ours"
            /\ f.save >= confirmed[s].save

\* Of every step: only a write of its own session displaces a readable container;
\* another run's file is refused, not replaced and not rotated away either.
ForeignKept ==
    \A n \in Name : final[n] \in Container /\ final'[n] # final[n] => final[n].of = snap.of

\* store() answers, whatever fails in the writer: the game never hangs in it.
StoreAnswers == blocked ~> ~blocked

\* The files keep what was committed, whoever writes next: no crash, failure or
\* shared name loses a stored run, and no write displaces another session's.
FilesKept == []NothingLost /\ [][ForeignKept]_vars

\* The store keeps the promise of AtomicStore: what a restart would load is
\* replaced whole, by one step, and is what a successful answer said it was.
Promise == INSTANCE AtomicStore WITH
    durable <- [s \in Session |-> Entries(s)],
    open    <- cache.of,
    memory  <- [save |-> cache.save, state |-> cache.state],
    saving  <- blocked

KeepsPromise == Promise!Spec
=============================================================================
