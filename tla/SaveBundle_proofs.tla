------------------------- MODULE SaveBundle_proofs -------------------------
(***************************************************************************)
(* Proofs about SaveBundle, for every set of sessions and of names, every  *)
(* file that may be found under them and every bound on the marks: types,  *)
(* what is in a container, what is never lost, and that the store keeps    *)
(* the promise of AtomicStore.                                             *)
(***************************************************************************)
EXTENDS SaveBundle, SequenceTheorems, TLAPS

\* What a write of its own does to a file, and what a snapshot may hold.
Paired(c) == c.save = Marked(c.state)

\* At most one snapshot is under way, that of the store() being waited for, and
\* it is what the game thread still has in memory.
OneWrite ==
    /\ queue # <<>> => blocked /\ step = "wait" /\ queue = <<Snapshot(cache)>>
    /\ step # "wait" => blocked /\ queue = <<>> /\ snap = Snapshot(cache)
    /\ blocked => cache.of \in Session /\ ~cache.foreign /\ Paired(cache)

\* The temporary file is complete once the writer goes on with it, and the
\* result that store() returns with is that of its own write.
WriteComplete ==
    /\ step \in {"rotate", "replace"} => tmp[NameOf[cache.of]] = Snapshot(cache)
    /\ step = "done" => final[NameOf[cache.of]] = Snapshot(cache)
    /\ blocked /\ Drained /\ lastOk => final[NameOf[cache.of]] = Snapshot(cache)

\* What is open may be written, and no entry of it that the previous layout
\* holds is missing.
OpenIsOwn ==
    cache.of \in Session /\ ~cache.foreign =>
        /\ Verdict(final[NameOf[cache.of]], cache.of) # "foreign"
        /\ cache.state = None => legacy[cache.of].state = None

\* A file that is not the session's own has never been backed up.
NoBackup ==
    \A s \in Session :
        \/ Verdict(final[NameOf[s]], s) = "foreign"
        \/ final[NameOf[s]] = Junk
        => bak[NameOf[s]] = None

\* What was confirmed is in the container a restart would load, and in memory.
ConfirmedKept ==
    \A s \in Session : confirmed[s] # NoEntries =>
        /\ confirmed[s].save \in Marks
        /\ Verdict(Chosen(s), s) = "ours"
        /\ Chosen(s).save >= confirmed[s].save
        /\ cache.of = s =>
              ~cache.foreign /\ Marked(cache.state) >= confirmed[s].save

\* PairMatches, file by file.
FilesPaired ==
    \A n \in Name : \A f \in {final[n], bak[n], tmp[n]} : f \in Container => Paired(f)

Inv == TypeOK /\ OneWrite /\ WriteComplete /\ OpenIsOwn /\ FilesPaired

-----------------------------------------------------------------------------
(***************************************************************************)
(* The data: marks, files and what is loaded of them.                      *)
(***************************************************************************)
Cached == [of : Session \cup {None}, foreign : BOOLEAN,
           save : Marks \cup {None}, state : Marks \cup {None}]

\* Marks are numbers, and nothing staged is a mark too.
LEMMA MarkedType == \A m \in Marks \cup {None} : Marked(m) \in Marks /\ Marked(m) \in Nat
  BY SaveBundleAssumption DEF Marks, Marked

\* A file of the session's own is a container, and only containers are of a run.
LEMMA VerdictOfFile ==
    ASSUME NEW f \in File, NEW s \in Session
    PROVE  /\ Verdict(f, s) = "ours" <=> f \in Container /\ f.of = s
           /\ Verdict(f, s) = "foreign" <=> f \in Container /\ f.of # s
           /\ Verdict(f, s) = "absent" <=> f \in {None, Junk}
  BY SaveBundleAssumption DEF Verdict, File

\* ensure_loaded gives a cache of the session, with entries or none at all.
LEMMA LoadedType ==
    ASSUME TypeOK, NEW s \in Session
    PROVE  /\ Chosen(s) \in File
           /\ Entries(s) \in Pair
           /\ FromDisk(s) \in Cached /\ FromDisk(s).of = s
           /\ Loaded(s) \in Cached /\ Loaded(s).of = s
<1>1. NameOf[s] \in Name
  BY SaveBundleAssumption
<1>2. final[NameOf[s]] \in File /\ bak[NameOf[s]] \in File
  BY <1>1 DEF TypeOK
<1>3. Chosen(s) \in File
  BY <1>2 DEF Chosen
<1>4. legacy[s] \in Pair
  BY DEF TypeOK
<1>5. Entries(s) \in Pair
  BY <1>3, <1>4, VerdictOfFile DEF Entries, NoEntries, Pair, Container
<1>6. FromDisk(s) \in Cached /\ FromDisk(s).of = s
  BY <1>5 DEF FromDisk, Cached, Pair
<1>7. Loaded(s) \in Cached /\ Loaded(s).of = s
  BY <1>6 DEF Loaded, TypeOK, Cached
<1> QED BY <1>3, <1>5, <1>6, <1>7

\* A snapshot of what is open is a container.
LEMMA SnapshotType ==
    ASSUME NEW c \in Cached, c.of \in Session
    PROVE  Snapshot(c) \in Container
  BY DEF Snapshot, Cached, Container

-----------------------------------------------------------------------------
(***************************************************************************)
(* Type correctness.                                                       *)
(***************************************************************************)
LEMMA InitTyped == Init => TypeOK
<1> SUFFICES ASSUME Init PROVE TypeOK
  OBVIOUS
<1>1. /\ cache \in [of : Session \cup {None}, foreign : BOOLEAN,
                   save : Marks \cup {None}, state : Marks \cup {None}]
      /\ confirmed \in [Session -> Pair]
  BY DEF Init, NoCache, NoEntries, Pair
<1>2. final \in [Name -> File] /\ legacy \in [Session -> Pair]
  BY SaveBundleAssumption DEF Init
<1>3. /\ bak \in [Name -> File] /\ tmp \in [Name -> File]
      /\ queue \in Seq(Container)
  BY DEF Init, File
<1> QED BY <1>1, <1>2, <1>3 DEF Init, TypeOK

\* The game thread, of whose steps only the cache, the queue and what was
\* confirmed are data.
LEMMA GameTyped ==
    ASSUME TypeOK, NEW s \in Session, Open(s) \/ Store(s) \/ \E m \in Marks : Stage(s, m)
    PROVE  TypeOK'
<1>1. Loaded(s) \in Cached /\ Loaded(s).of = s
  BY LoadedType
<1>2. CASE Open(s)
  BY <1>1, <1>2 DEF Open, TypeOK, Cached, writerVars, fileVars
<1>3. CASE Store(s)
  <2>1. CASE Loaded(s).foreign
    BY <1>1, <1>3, <2>1 DEF Store, TypeOK, Cached, writerVars, fileVars
  <2>2. CASE ~Loaded(s).foreign
    <3> DEFINE c == [Loaded(s) EXCEPT !.save = Marked(Loaded(s).state)]
    <3>1. c \in Cached /\ c.of = s
      BY <1>1, MarkedType DEF Cached
    <3>2. Snapshot(c) \in Container
      BY <3>1, SnapshotType
    <3>3. cache' = c /\ queue' = Append(queue, Snapshot(c)) /\ staged' = FALSE /\ blocked' = TRUE
      BY <1>3, <2>2 DEF Store
    <3> HIDE DEF c
    <3>4. queue' \in Seq(Container)
      BY <3>2, <3>3 DEF TypeOK
    <3> QED BY <1>3, <3>1, <3>3, <3>4 DEF Store, TypeOK, Cached, writerVars, fileVars
  <2> QED BY <2>1, <2>2
<1>4. ASSUME NEW m \in Marks, Stage(s, m) PROVE TypeOK'
  BY <1>1, <1>4 DEF Stage, TypeOK, Cached, writerVars, fileVars
<1> QED BY <1>2, <1>3, <1>4

LEMMA AnswerTyped ==
    ASSUME TypeOK, StoreReturns
    PROVE  TypeOK'
<1>1. [save |-> cache.save, state |-> cache.state] \in Pair
  BY DEF TypeOK, Pair
<1>2. confirmed' \in [Session -> Pair]
  BY <1>1 DEF StoreReturns, TypeOK
<1>3. UNCHANGED <<cache, staged, queue, step, snap, key, backedUp, lastOk, final, bak, tmp,
                  legacy>> /\ blocked' = FALSE
  BY DEF StoreReturns, writerVars, fileVars
<1> QED BY <1>2, <1>3 DEF TypeOK

\* The writer thread, which moves containers from file to file.
LEMMA WriterTyped ==
    ASSUME TypeOK, Write
    PROVE  TypeOK'
<1>1. CASE TakeSnapshot
  <2>1. Head(queue) \in Container /\ Tail(queue) \in Seq(Container)
    BY <1>1 DEF TakeSnapshot, TypeOK
  <2>2. snap' \in Container /\ key' \in Session /\ queue' \in Seq(Container)
    BY <1>1, <2>1 DEF TakeSnapshot, Container
  <2> QED BY <1>1, <2>2 DEF TakeSnapshot, TypeOK, cacheVars, fileVars
<1>2. CASE OpenTemporary
  BY <1>2 DEF OpenTemporary, TypeOK, File, cacheVars
<1>3. CASE WriteTemporary
  BY <1>3 DEF WriteTemporary, TypeOK, File, cacheVars
<1>4. CASE Rotate
  <2>1. final[Target] # None => final[Target] \in File \/ Target \notin Name
    BY DEF TypeOK
  <2>2. final' \in [Name -> File] /\ bak' \in [Name -> File] /\ backedUp' \in BOOLEAN
    BY <1>4, <2>1 DEF Rotate, TypeOK, File
  <2> QED BY <1>4, <2>2 DEF Rotate, TypeOK, cacheVars
<1>5. CASE Replace
  <2>1. Target \in Name => tmp[Target] \in File
    BY DEF TypeOK
  <2>2. final' \in [Name -> File] /\ tmp' \in [Name -> File]
    BY <1>5, <2>1 DEF Replace, TypeOK, File
  <2> QED BY <1>5, <2>2 DEF Replace, TypeOK, cacheVars
<1>6. CASE Finish
  BY <1>6 DEF Finish, TypeOK, cacheVars, fileVars
<1>7. ASSUME NEW from \in {"open", "write", "replace"}, Fail(from) PROVE TypeOK'
  BY <1>7 DEF Fail, TypeOK, File, cacheVars
<1> QED BY <1>1, <1>2, <1>3, <1>4, <1>5, <1>6, <1>7 DEF Write

LEMMA CrashTyped ==
    ASSUME TypeOK, Crash
    PROVE  TypeOK'
<1>1. cache' \in [of : Session \cup {None}, foreign : BOOLEAN,
                  save : Marks \cup {None}, state : Marks \cup {None}]
  BY DEF Crash, NoCache
<1>2. queue' \in Seq(Container)
  BY DEF Crash
<1> QED BY <1>1, <1>2 DEF Crash, TypeOK, fileVars

LEMMA TypedNext == TypeOK /\ [Next]_vars => TypeOK'
<1> SUFFICES ASSUME TypeOK, [Next]_vars PROVE TypeOK'
  OBVIOUS
<1>1. CASE UNCHANGED vars
  BY <1>1 DEF TypeOK, vars, cacheVars, writerVars, fileVars
<1> QED BY <1>1, GameTyped, AnswerTyped, WriterTyped, CrashTyped DEF Next

\* Every variable keeps its type.
THEOREM TypeCorrect == Spec => []TypeOK
<1> QED BY InitTyped, TypedNext, PTL DEF Spec

-----------------------------------------------------------------------------
(***************************************************************************)
(* One write at a time, of what is open, complete before it is renamed.    *)
(***************************************************************************)
\* What ensure_loaded gives may be written if it is not foreign.
LEMMA LoadedOwn ==
    ASSUME Inv, NEW s \in Session, ~Loaded(s).foreign
    PROVE  /\ Verdict(final[NameOf[s]], s) # "foreign"
           /\ Loaded(s).state = None => legacy[s].state = None
<1>1. CASE cache.of = s
  BY <1>1 DEF Loaded, Inv, OpenIsOwn
<1>2. CASE cache.of # s
  <2>1. Verdict(Chosen(s), s) # "foreign" /\ Loaded(s).state = Entries(s).state
    BY <1>2 DEF Loaded, FromDisk
  <2>2. NameOf[s] \in Name /\ final[NameOf[s]] \in File
    BY SaveBundleAssumption DEF Inv, TypeOK
  <2>3. Verdict(final[NameOf[s]], s) # "foreign"
    BY <2>1, <2>2, VerdictOfFile DEF Chosen
  <2>4. Entries(s).state = None => legacy[s].state = None
    BY <2>1 DEF Entries
  <2> QED BY <2>1, <2>3, <2>4
<1> QED BY <1>1, <1>2

\* While nobody waits in flush, the writer has nothing to do.
LEMMA IdleWriter == Inv /\ ~blocked => queue = <<>> /\ step = "wait"
  BY DEF Inv, OneWrite

LEMMA GameInv ==
    ASSUME Inv, NEW s \in Session, Open(s) \/ Store(s) \/ \E m \in Marks : Stage(s, m)
    PROVE  Inv'
<1>1. /\ ~blocked /\ queue = <<>> /\ step = "wait"
      /\ UNCHANGED <<step, snap, lastOk, final, bak, tmp, legacy>>
  BY IdleWriter DEF Open, Store, Stage, Ready, writerVars, fileVars
<1>2. TypeOK' /\ Loaded(s) \in Cached /\ Loaded(s).of = s
  BY GameTyped, LoadedType DEF Inv
<1>3. FilesPaired'
  BY <1>1 DEF Inv, FilesPaired
<1>4. /\ cache'.of = s /\ cache'.foreign = Loaded(s).foreign
      /\ cache'.state = Loaded(s).state \/ cache'.state \in Marks
  BY <1>2 DEF Open, Store, Stage, Cached
<1>5. OpenIsOwn'
  <2>1. cache'.state = None => cache'.state = Loaded(s).state
    BY <1>4, SaveBundleAssumption
  <2> QED BY <1>1, <1>4, <2>1, LoadedOwn DEF OpenIsOwn, Verdict
<1>6. \/ ~blocked' /\ queue' = <<>>
      \/ /\ blocked' /\ queue' = <<Snapshot(cache')>>
         /\ ~cache'.foreign /\ cache'.save = Marked(cache'.state)
  <2>1. CASE Store(s) /\ ~Loaded(s).foreign
    <3>1. /\ cache' = [Loaded(s) EXCEPT !.save = Marked(Loaded(s).state)]
          /\ queue' = Append(queue, Snapshot(cache')) /\ blocked' = TRUE
      BY <2>1 DEF Store
    <3>2. cache'.save = Marked(cache'.state) /\ ~cache'.foreign
      BY <1>2, <2>1, <3>1 DEF Cached
    <3> QED BY <1>1, <3>1, <3>2
  <2>2. CASE ~(Store(s) /\ ~Loaded(s).foreign)
    BY <1>1, <2>2 DEF Open, Store, Stage
  <2> QED BY <2>1, <2>2
<1>7. OneWrite'
  BY <1>1, <1>4, <1>6 DEF OneWrite, Paired
<1>8. WriteComplete'
  <2>1. blocked' => queue' # <<>>
    BY <1>6
  <2>2. step' = "wait"
    BY <1>1
  <2> QED BY <2>1, <2>2, Zenon DEF WriteComplete, Drained
<1> QED BY <1>2, <1>3, <1>5, <1>7, <1>8 DEF Inv

\* An answer, and a crash, leave the files alone.
LEMMA AnswerInv ==
    ASSUME Inv, StoreReturns
    PROVE  Inv'
<1>1. TypeOK'
  BY AnswerTyped DEF Inv
<1>2. FilesPaired' /\ OpenIsOwn'
  BY DEF StoreReturns, Inv, FilesPaired, OpenIsOwn, fileVars
<1>3. OneWrite' /\ WriteComplete'
  BY DEF StoreReturns, Inv, OneWrite, WriteComplete, Drained, writerVars, fileVars
<1> QED BY <1>1, <1>2, <1>3 DEF Inv

LEMMA CrashInv ==
    ASSUME Inv, Crash
    PROVE  Inv'
<1>1. TypeOK'
  BY CrashTyped DEF Inv
<1>2. FilesPaired'
  BY DEF Crash, Inv, FilesPaired, fileVars
<1>3. cache'.of = None
  BY DEF Crash, NoCache
<1>4. OneWrite' /\ WriteComplete' /\ OpenIsOwn'
  BY <1>3, SaveBundleAssumption DEF Crash, OneWrite, WriteComplete, OpenIsOwn
<1> QED BY <1>1, <1>2, <1>4 DEF Inv

\* A step of a write under way is one for the session that is open.
LEMMA Writing ==
    ASSUME Inv, step # "wait"
    PROVE  /\ blocked /\ queue = <<>> /\ snap = Snapshot(cache) /\ snap \in Container
           /\ cache.of \in Session /\ ~cache.foreign /\ Paired(snap)
           /\ snap.of = cache.of /\ Target = NameOf[cache.of] /\ Target \in Name
           /\ final[Target] \in File /\ bak[Target] \in File
           /\ Verdict(final[Target], cache.of) # "foreign"
<1>1. /\ blocked /\ queue = <<>> /\ snap = Snapshot(cache)
      /\ cache.of \in Session /\ ~cache.foreign /\ Paired(cache)
  BY DEF Inv, OneWrite
<1>2. snap \in Container /\ snap.of = cache.of /\ Paired(snap)
  BY <1>1, SnapshotType DEF Inv, TypeOK, Cached, Snapshot, Paired
<1>3. Target = NameOf[cache.of] /\ Target \in Name
  BY <1>1, <1>2, SaveBundleAssumption DEF Target
<1> QED BY <1>1, <1>2, <1>3 DEF Inv, TypeOK, OpenIsOwn

LEMMA WriterInv ==
    ASSUME Inv, Write
    PROVE  Inv'
<1>1. TypeOK' /\ UNCHANGED <<cache, blocked, legacy>>
  BY WriterTyped DEF Inv, Write, TakeSnapshot, OpenTemporary, WriteTemporary, Rotate,
                     Replace, Finish, Fail, cacheVars
<1>2. CASE TakeSnapshot
  <2>1. /\ blocked /\ queue = <<Snapshot(cache)>>
        /\ cache.of \in Session /\ ~cache.foreign /\ Paired(cache)
    BY <1>2 DEF TakeSnapshot, Inv, OneWrite
  <2>2. snap' = Snapshot(cache) /\ queue' = <<>> /\ step' = "open"
    BY <1>2, <2>1 DEF TakeSnapshot
  <2>3. OneWrite' /\ WriteComplete'
    BY <1>1, <2>1, <2>2 DEF OneWrite, WriteComplete, Drained, Paired, Snapshot
  <2>4. FilesPaired' /\ OpenIsOwn'
    BY <1>1, <1>2 DEF TakeSnapshot, Inv, FilesPaired, OpenIsOwn, fileVars
  <2> QED BY <1>1, <2>3, <2>4 DEF Inv
<1>3. CASE OpenTemporary
  <2>1. step # "wait"
    BY <1>3 DEF OpenTemporary
  <2>2. tmp' = [tmp EXCEPT ![Target] = Junk] /\ step' = "write"
        /\ UNCHANGED <<queue, snap, final, bak>>
    BY <1>3 DEF OpenTemporary
  <2>3. FilesPaired'
    BY <2>2, SaveBundleAssumption DEF Inv, TypeOK, FilesPaired
  <2>4. OneWrite' /\ WriteComplete' /\ OpenIsOwn'
    BY <1>1, <2>1, <2>2, Writing DEF Inv, OneWrite, WriteComplete, OpenIsOwn, Drained, Snapshot
  <2> QED BY <1>1, <2>3, <2>4 DEF Inv
<1>4. CASE WriteTemporary
  <2>1. step # "wait"
    BY <1>4 DEF WriteTemporary
  <2>2. tmp' = [tmp EXCEPT ![Target] = snap] /\ step' = "rotate"
        /\ UNCHANGED <<queue, snap, final, bak>>
    BY <1>4 DEF WriteTemporary
  <2>3. FilesPaired' /\ tmp'[Target] = snap
    BY <2>1, <2>2, Writing DEF Inv, TypeOK, FilesPaired
  <2>4. OneWrite' /\ WriteComplete' /\ OpenIsOwn'
    BY <1>1, <2>1, <2>2, <2>3, Writing DEF Inv, OneWrite, WriteComplete, OpenIsOwn, Drained
  <2> QED BY <1>1, <2>3, <2>4 DEF Inv
<1>5. CASE Rotate
  <2>1. step = "rotate" /\ step' = "replace" /\ UNCHANGED <<queue, snap, tmp>>
    BY <1>5 DEF Rotate
  <2>2. \/ UNCHANGED <<final, bak>>
        \/ /\ bak' = [bak EXCEPT ![Target] = final[Target]]
           /\ final' = [final EXCEPT ![Target] = None]
    BY <1>5 DEF Rotate
  <2>3. FilesPaired'
    BY <2>1, <2>2, SaveBundleAssumption DEF Inv, TypeOK, FilesPaired
  <2>4. Verdict(final'[Target], cache.of) # "foreign"
    BY <2>1, <2>2, Writing DEF Inv, TypeOK, Verdict
  <2>5. OneWrite' /\ WriteComplete' /\ OpenIsOwn'
    BY <1>1, <2>1, <2>4, Writing DEF Inv, OneWrite, WriteComplete, OpenIsOwn, Drained, Verdict
  <2> QED BY <1>1, <2>3, <2>5 DEF Inv
<1>6. CASE Replace
  <2>1. step = "replace" /\ step' = "done" /\ UNCHANGED <<queue, snap, bak>>
    BY <1>6 DEF Replace
  <2>2. /\ final' = [final EXCEPT ![Target] = tmp[Target]]
        /\ tmp' = [tmp EXCEPT ![Target] = None]
    BY <1>6 DEF Replace
  <2>3. tmp[Target] = snap
    BY <2>1, Writing DEF Inv, WriteComplete
  <2>4. FilesPaired' /\ final'[Target] = snap
    BY <2>1, <2>2, <2>3, Writing, SaveBundleAssumption DEF Inv, TypeOK, FilesPaired
  <2>5. Verdict(final'[Target], cache.of) # "foreign"
    BY <2>1, <2>4, Writing DEF Verdict
  <2>6. OneWrite' /\ WriteComplete' /\ OpenIsOwn'
    BY <1>1, <2>1, <2>4, <2>5, Writing DEF Inv, OneWrite, WriteComplete, OpenIsOwn, Drained, Verdict
  <2> QED BY <1>1, <2>4, <2>6 DEF Inv
<1>7. CASE Finish
  <2>1. /\ step \in {"done", "failed"} /\ step' = "wait" /\ lastOk' = (step = "done")
        /\ UNCHANGED <<queue, final, bak, tmp>>
    BY <1>7 DEF Finish, fileVars
  <2>2. OneWrite' /\ WriteComplete'
    BY <1>1, <2>1, Writing DEF Inv, OneWrite, WriteComplete, Drained
  <2>3. FilesPaired' /\ OpenIsOwn'
    BY <1>1, <2>1 DEF Inv, FilesPaired, OpenIsOwn
  <2> QED BY <1>1, <2>2, <2>3 DEF Inv
<1>8. ASSUME NEW from \in {"open", "write", "replace"}, Fail(from) PROVE Inv'
  <2>1. step # "wait" /\ step' = "failed" /\ UNCHANGED <<queue, snap, final, bak>>
        /\ (UNCHANGED tmp \/ tmp' = [tmp EXCEPT ![Target] = None])
    BY <1>8 DEF Fail
  <2>2. FilesPaired'
    BY <2>1, SaveBundleAssumption DEF Inv, TypeOK, FilesPaired
  <2>3. OneWrite' /\ WriteComplete' /\ OpenIsOwn'
    BY <1>1, <2>1, Writing DEF Inv, OneWrite, WriteComplete, OpenIsOwn, Drained
  <2> QED BY <1>1, <2>2, <2>3 DEF Inv
<1> QED BY <1>2, <1>3, <1>4, <1>5, <1>6, <1>7, <1>8 DEF Write

LEMMA InitInv == Init => Inv
<1> SUFFICES ASSUME Init PROVE Inv
  OBVIOUS
<1>1. TypeOK
  BY InitTyped
<1>2. FilesPaired
  BY SaveBundleAssumption DEF Init, FilesPaired, Paired
<1>3. OneWrite /\ WriteComplete /\ OpenIsOwn
  BY SaveBundleAssumption DEF Init, NoCache, OneWrite, WriteComplete, OpenIsOwn
<1> QED BY <1>1, <1>2, <1>3 DEF Inv

LEMMA InvNext == Inv /\ [Next]_vars => Inv'
<1> SUFFICES ASSUME Inv, [Next]_vars PROVE Inv'
  OBVIOUS
<1>1. CASE UNCHANGED vars
  <2>1. UNCHANGED <<cache, blocked, queue, step, snap, lastOk, final, bak, tmp, legacy>>
    BY <1>1 DEF vars, cacheVars, writerVars, fileVars
  <2>2. TypeOK'
    BY TypedNext DEF Inv
  <2> QED BY <2>1, <2>2 DEF Inv, OneWrite, WriteComplete, OpenIsOwn, FilesPaired, Drained, Verdict
<1> QED BY <1>1, GameInv, AnswerInv, WriterInv, CrashInv DEF Next

LEMMA InvAlways == Spec => []Inv
<1> QED BY InitInv, InvNext, PTL DEF Spec

\* The AP state in a container is the one that held when the game captured the save
\* beside it, whatever fails and wherever the process ends.
THEOREM ContainersPair == Spec => []PairMatches
<1>1. Inv => PairMatches
  <2> SUFFICES ASSUME Inv, NEW c \in Files \ {None, Junk} PROVE c.save = Marked(c.state)
    BY DEF PairMatches
  <2>1. PICK n \in Name : c \in {final[n], bak[n], tmp[n]}
    BY DEF Files
  <2>2. c \in Container
    BY <2>1 DEF Inv, TypeOK, File
  <2> QED BY <2>1, <2>2 DEF Inv, FilesPaired, Paired
<1> QED BY <1>1, InvAlways, PTL

-----------------------------------------------------------------------------
(***************************************************************************)
(* Files.                                                                  *)
(***************************************************************************)
\* A step displaces a container only by writing for the session that it is of.
LEMMA ForeignKeptStep == Inv /\ [Next]_vars => ForeignKept
<1> SUFFICES ASSUME Inv, [Next]_vars, NEW n \in Name, final[n] \in Container, final'[n] # final[n]
             PROVE  final[n].of = snap.of
  BY DEF ForeignKept
<1>1. Rotate \/ Replace
  BY DEF Next, vars, Open, Store, Stage, StoreReturns, Write, TakeSnapshot, OpenTemporary,
         WriteTemporary, Finish, Fail, Crash, fileVars
<1>2. step # "wait"
  BY <1>1 DEF Rotate, Replace
<1>3. n = Target
  BY <1>1 DEF Rotate, Replace, Inv, TypeOK
<1> QED BY <1>2, <1>3, Writing, VerdictOfFile

\* Another run's container is neither replaced nor rotated away.
THEOREM OtherRunsKept == Spec => [][ForeignKept]_vars
<1> QED BY InvAlways, ForeignKeptStep, PTL DEF Spec

\* What follows needs names that tell the sessions apart, as sanitised names do
\* unless two slots differ only in characters that no file name may have.
DistinctNames == \A s, t \in Session : NameOf[s] = NameOf[t] => s = t

\* A rotation is invisible to a restart: the backup answers for the container.
LEMMA RotateKeeps ==
    ASSUME DistinctNames, Inv, NoBackup, Rotate, NEW s \in Session
    PROVE  /\ Entries(s)' = Entries(s)
           /\ Verdict(Chosen(s), s) = "ours" => Chosen(s)' = Chosen(s)
           /\ (Verdict(final[NameOf[s]], s) = "foreign" \/ final[NameOf[s]] = Junk
                  => bak[NameOf[s]] = None)'
<1>1. step # "wait" /\ legacy' = legacy
  BY DEF Rotate
<1>2. NameOf[s] \in Name /\ final[NameOf[s]] \in File /\ bak[NameOf[s]] \in File
  BY SaveBundleAssumption DEF Inv, TypeOK
<1>3. CASE UNCHANGED <<final, bak>>
  BY <1>1, <1>3 DEF Entries, Chosen, NoBackup, Verdict
<1>4. CASE /\ final[Target] # None
           /\ bak' = [bak EXCEPT ![Target] = final[Target]]
           /\ final' = [final EXCEPT ![Target] = None]
  <2>1. CASE s = cache.of
    <3>1. final'[NameOf[s]] = None /\ bak'[NameOf[s]] = final[NameOf[s]]
      BY <1>1, <1>2, <1>4, <2>1, Writing DEF Inv, TypeOK
    <3>2. Verdict(final[NameOf[s]], s) # "foreign" /\ final[NameOf[s]] # None
      BY <1>1, <1>4, <2>1, Writing
    <3>3. CASE final[NameOf[s]] = Junk
      <4>1. bak[NameOf[s]] = None
        BY <3>3 DEF NoBackup
      <4>2. /\ Verdict(Chosen(s), s) = "absent"
            /\ Verdict(Chosen(s)', s) = "absent"
        BY <3>1, <3>3, <4>1 DEF Chosen, Verdict
      <4> QED BY <1>1, <3>1, <4>2, SaveBundleAssumption DEF Entries, Verdict
    <3>4. CASE final[NameOf[s]] # Junk
      <4>1. Verdict(final[NameOf[s]], s) = "ours"
        BY <3>2, <3>4 DEF Verdict
      <4>2. Chosen(s) = final[NameOf[s]] /\ Chosen(s)' = final[NameOf[s]]
        BY <3>1, <4>1 DEF Chosen, Verdict
      <4> QED BY <1>1, <3>1, <4>2, SaveBundleAssumption DEF Entries, Verdict
    <3> QED BY <3>3, <3>4
  <2>2. CASE s # cache.of
    <3>1. final'[NameOf[s]] = final[NameOf[s]] /\ bak'[NameOf[s]] = bak[NameOf[s]]
      BY <1>1, <1>2, <1>4, <2>2, Writing DEF Inv, TypeOK, DistinctNames
    <3>2. Chosen(s)' = Chosen(s)
      BY <3>1 DEF Chosen, Verdict
    <3> QED BY <1>1, <3>1, <3>2 DEF Entries, Verdict, NoBackup
  <2> QED BY <2>1, <2>2
<1> QED BY <1>3, <1>4 DEF Rotate

\* The replacement puts the snapshot where a restart of its session finds it.
LEMMA ReplaceCommits ==
    ASSUME DistinctNames, Inv, Replace, NEW s \in Session
    PROVE  /\ s = cache.of => Chosen(s)' = Snapshot(cache) /\ final'[NameOf[s]] = Snapshot(cache)
           /\ s # cache.of => /\ Chosen(s)' = Chosen(s)
                              /\ final'[NameOf[s]] = final[NameOf[s]]
                              /\ bak' = bak
<1>1. step = "replace" /\ bak' = bak /\ final' = [final EXCEPT ![Target] = tmp[Target]]
  BY DEF Replace
<1>2. /\ tmp[Target] = Snapshot(cache) /\ Snapshot(cache) \in Container
      /\ Snapshot(cache).of = cache.of /\ cache.of \in Session
      /\ Target = NameOf[cache.of] /\ Target \in Name
  BY <1>1, Writing DEF Inv, WriteComplete
<1>3. CASE s = cache.of
  <2>1. final'[NameOf[s]] = Snapshot(cache)
    BY <1>1, <1>2, <1>3 DEF Inv, TypeOK
  <2>2. Verdict(final'[NameOf[s]], s) = "ours"
    BY <1>2, <1>3, <2>1, VerdictOfFile DEF File
  <2> QED BY <1>3, <2>1, <2>2 DEF Chosen
<1>4. CASE s # cache.of
  <2>1. final'[NameOf[s]] = final[NameOf[s]]
    BY <1>1, <1>2, <1>4, SaveBundleAssumption DEF Inv, TypeOK, DistinctNames
  <2> QED BY <1>1, <1>4, <2>1 DEF Chosen, Verdict
<1> QED BY <1>3, <1>4

\* The part of ConfirmedKept that the game thread can disturb.
OpenKeeps(s) ==
    cache.of = s => ~cache.foreign /\ Marked(cache.state) >= confirmed[s].save

\* What is loaded holds what was confirmed.
LEMMA LoadedKeeps ==
    ASSUME Inv, ConfirmedKept, NEW s \in Session, confirmed[s] # NoEntries
    PROVE  ~Loaded(s).foreign /\ Marked(Loaded(s).state) >= confirmed[s].save
<1>1. CASE cache.of = s
  BY <1>1 DEF Loaded, ConfirmedKept
<1>2. CASE cache.of # s
  <2>1. /\ Verdict(Chosen(s), s) = "ours" /\ confirmed[s].save \in Nat
        /\ Chosen(s).save >= confirmed[s].save
    BY SaveBundleAssumption DEF ConfirmedKept, Marks
  <2>2. NameOf[s] \in Name
    BY SaveBundleAssumption
  <2>3. Chosen(s) \in Container /\ Paired(Chosen(s))
    BY <2>1, <2>2, LoadedType, VerdictOfFile DEF Inv, FilesPaired, Chosen
  <2>4. Loaded(s) = FromDisk(s) /\ Loaded(s).state \in Marks \cup {None}
    BY <1>2, LoadedType DEF Loaded, Cached, Inv
  <2>5. ~Loaded(s).foreign
    <3>1. Loaded(s).foreign = (Verdict(Chosen(s), s) = "foreign")
      BY <2>4 DEF FromDisk
    <3> QED BY <2>1, <3>1
  <2>6. /\ Loaded(s).state = Entries(s).state
        /\ Chosen(s).state # None => Entries(s).state = Chosen(s).state
    BY <2>1, <2>4 DEF FromDisk, Entries
  <2>7. Chosen(s).state = None => confirmed[s].save = 0
    BY <2>1, <2>3 DEF Paired, Marked
  <2> QED BY <2>1, <2>3, <2>4, <2>5, <2>6, <2>7, MarkedType DEF Paired
<1> QED BY <1>1, <1>2

LEMMA GameKeeps ==
    ASSUME Inv, NoBackup, ConfirmedKept,
           NEW s \in Session, Open(s) \/ Store(s) \/ \E m \in Marks : Stage(s, m)
    PROVE  NoBackup' /\ ConfirmedKept'
<1>1. UNCHANGED <<final, bak, legacy, confirmed>>
  BY DEF Open, Store, Stage, fileVars
<1>2. Loaded(s) \in Cached /\ Loaded(s).of = s
  BY LoadedType DEF Inv
<1>3. /\ cache'.of = s /\ cache'.foreign = Loaded(s).foreign
      /\ \/ cache'.state = Loaded(s).state
         \/ cache'.state \in Marks /\ cache'.state > Marked(Loaded(s).state)
  BY <1>2 DEF Open, Store, Stage, Cached
<1>4. \A t \in Session : confirmed[t] # NoEntries => OpenKeeps(t)'
  <2> SUFFICES ASSUME confirmed[s] # NoEntries PROVE OpenKeeps(s)'
    BY <1>1, <1>3 DEF OpenKeeps
  <2>1. ~Loaded(s).foreign /\ Marked(Loaded(s).state) >= confirmed[s].save
    BY LoadedKeeps
  <2>2. confirmed[s].save \in Nat
    BY SaveBundleAssumption DEF ConfirmedKept, Marks
  <2>3. Marked(Loaded(s).state) \in Nat
    BY <1>2, MarkedType DEF Cached
  <2>4. cache'.state \in Marks => Marked(cache'.state) = cache'.state /\ cache'.state \in Nat
    BY SaveBundleAssumption DEF Marked, Marks
  <2> QED BY <1>1, <1>3, <2>1, <2>2, <2>3, <2>4 DEF OpenKeeps
<1>5. NoBackup'
  BY <1>1 DEF NoBackup, Verdict
<1> QED BY <1>1, <1>4, <1>5 DEF ConfirmedKept, OpenKeeps, Chosen, Verdict

\* A step that changes neither the files a restart reads nor what is open.
LEMMA SameKeeps ==
    ASSUME NoBackup, ConfirmedKept, UNCHANGED <<cache, final, bak, confirmed>>
    PROVE  NoBackup' /\ ConfirmedKept'
<1>1. \A s \in Session : Chosen(s)' = Chosen(s)
  BY DEF Chosen, Verdict
<1>2. \A s \in Session : Verdict(Chosen(s), s)' = Verdict(Chosen(s), s)
  BY <1>1 DEF Verdict
<1>3. ConfirmedKept'
  BY <1>1, <1>2 DEF ConfirmedKept
<1>4. NoBackup'
  BY DEF NoBackup, Verdict
<1> QED BY <1>3, <1>4

LEMMA AnswerKeeps ==
    ASSUME Inv, NoBackup, ConfirmedKept, StoreReturns
    PROVE  NoBackup' /\ ConfirmedKept'
<1>1. UNCHANGED <<cache, final, bak, legacy>> /\ blocked /\ Drained
  BY DEF StoreReturns, fileVars
<1>2. NoBackup'
  BY <1>1 DEF NoBackup, Verdict
<1>3. CASE ~lastOk
  BY <1>1, <1>3, SameKeeps DEF StoreReturns
<1>4. CASE lastOk
  <2>1. /\ cache.of \in Session /\ ~cache.foreign /\ Paired(cache)
        /\ final[NameOf[cache.of]] = Snapshot(cache)
    BY <1>1, <1>4 DEF Inv, OneWrite, WriteComplete
  <2>2. confirmed' = [confirmed EXCEPT ![cache.of] = [save |-> cache.save, state |-> cache.state]]
    BY <1>4 DEF StoreReturns
  <2>3. cache.save \in Marks /\ cache.save \in Nat /\ Marked(cache.state) = cache.save
    BY <2>1, MarkedType DEF Paired, Inv, TypeOK
  <2>4. Snapshot(cache) \in Container /\ Snapshot(cache).of = cache.of
        /\ Snapshot(cache).save = cache.save
    BY <2>1, SnapshotType DEF Inv, TypeOK, Cached, Snapshot
  <2>5. Chosen(cache.of) = Snapshot(cache) /\ Verdict(Chosen(cache.of), cache.of) = "ours"
    BY <2>1, <2>4, VerdictOfFile DEF Chosen, File
  <2>6. ASSUME NEW s \in Session, confirmed'[s] # NoEntries
        PROVE  /\ confirmed'[s].save \in Marks
               /\ Verdict(Chosen(s), s) = "ours"
               /\ Chosen(s).save >= confirmed'[s].save
               /\ cache.of = s => ~cache.foreign /\ Marked(cache.state) >= confirmed'[s].save
    <3>1. CASE s = cache.of
      <4>1. confirmed'[s].save = cache.save
        BY <2>2, <3>1 DEF Inv, TypeOK
      <4> QED BY <2>1, <2>3, <2>4, <2>5, <3>1, <4>1
    <3>2. CASE s # cache.of
      <4>1. confirmed'[s] = confirmed[s]
        BY <2>2, <3>2 DEF Inv, TypeOK
      <4> QED BY <2>6, <3>2, <4>1 DEF ConfirmedKept
    <3> QED BY <3>1, <3>2
  <2> QED BY <1>1, <1>2, <2>6 DEF ConfirmedKept, Chosen, Verdict
<1> QED BY <1>2, <1>3, <1>4

LEMMA WriterKeeps ==
    ASSUME DistinctNames, Inv, NoBackup, ConfirmedKept, Write
    PROVE  NoBackup' /\ ConfirmedKept'
<1>1. UNCHANGED <<cache, confirmed, legacy>>
  BY DEF Write, TakeSnapshot, OpenTemporary, WriteTemporary, Rotate, Replace, Finish, Fail,
         cacheVars
<1>2. CASE Rotate
  <2>1. NoBackup'
    BY <1>2, RotateKeeps DEF NoBackup
  <2>2. ASSUME NEW s \in Session, confirmed[s] # NoEntries
        PROVE  Chosen(s)' = Chosen(s)
    BY <1>2, <2>2, RotateKeeps DEF ConfirmedKept
  <2> QED BY <1>1, <2>1, <2>2 DEF ConfirmedKept, Verdict
<1>3. CASE Replace
  <2>1. /\ cache.of \in Session /\ ~cache.foreign
        /\ snap = Snapshot(cache) /\ Snapshot(cache) \in Container
        /\ Snapshot(cache).of = cache.of /\ Paired(Snapshot(cache))
    BY <1>3, Writing DEF Replace
  <2>2. Verdict(Snapshot(cache), cache.of) = "ours" /\ Snapshot(cache) # Junk
    BY <2>1, VerdictOfFile, SaveBundleAssumption DEF File
  <2>3. NoBackup'
    <3> SUFFICES ASSUME NEW s \in Session,
                        Verdict(final'[NameOf[s]], s) = "foreign" \/ final'[NameOf[s]] = Junk
                 PROVE  bak'[NameOf[s]] = None
      BY DEF NoBackup, Verdict
    <3>1. s # cache.of
      BY <1>3, <2>2, ReplaceCommits
    <3> QED BY <1>3, <3>1, ReplaceCommits DEF NoBackup
  <2>4. ASSUME NEW s \in Session, confirmed[s] # NoEntries
        PROVE  /\ Verdict(Chosen(s)', s) = "ours"
               /\ Chosen(s)'.save >= confirmed[s].save
    <3>1. CASE s = cache.of
      <4>1. Chosen(s)' = Snapshot(cache)
        BY <1>3, <3>1, ReplaceCommits
      <4>2. Snapshot(cache).save = Marked(cache.state)
        BY <2>1 DEF Paired, Snapshot
      <4> QED BY <2>2, <2>4, <3>1, <4>1, <4>2 DEF ConfirmedKept
    <3>2. CASE s # cache.of
      BY <1>3, <2>4, <3>2, ReplaceCommits DEF ConfirmedKept
    <3> QED BY <3>1, <3>2
  <2> QED BY <1>1, <2>3, <2>4 DEF ConfirmedKept, Verdict
<1>4. CASE UNCHANGED <<final, bak>>
  BY <1>1, <1>4, SameKeeps
<1> QED BY <1>2, <1>3, <1>4 DEF Write, TakeSnapshot, OpenTemporary, WriteTemporary, Finish,
                                Fail, fileVars

LEMMA CrashKeeps ==
    ASSUME NoBackup, ConfirmedKept, Crash
    PROVE  NoBackup' /\ ConfirmedKept'
<1>1. UNCHANGED <<final, bak, legacy, confirmed>> /\ cache'.of = None
  BY DEF Crash, NoCache, fileVars
<1>2. \A s \in Session : cache'.of # s
  BY <1>1, SaveBundleAssumption
<1> QED BY <1>1, <1>2 DEF NoBackup, ConfirmedKept, Chosen, Verdict

LEMMA KeptInit == Init => NoBackup /\ ConfirmedKept
  BY SaveBundleAssumption DEF Init, NoBackup, ConfirmedKept

LEMMA KeptNext ==
    DistinctNames /\ Inv /\ NoBackup /\ ConfirmedKept /\ [Next]_vars
        => NoBackup' /\ ConfirmedKept'
<1> SUFFICES ASSUME DistinctNames, Inv, NoBackup, ConfirmedKept, [Next]_vars
             PROVE  NoBackup' /\ ConfirmedKept'
  OBVIOUS
<1>1. CASE UNCHANGED vars
  <2>1. UNCHANGED <<cache, final, bak, legacy, confirmed>>
    BY <1>1 DEF vars, cacheVars, fileVars
  <2> QED BY <2>1, SameKeeps
<1> QED BY <1>1, GameKeeps, AnswerKeeps, WriterKeeps, CrashKeeps DEF Next

\* The whole invariant.
LEMMA KeptAlways == DistinctNames => (Spec => [](Inv /\ NoBackup /\ ConfirmedKept))
<1>1. DistinctNames /\ Inv /\ NoBackup /\ ConfirmedKept /\ [Next]_vars
        => (Inv /\ NoBackup /\ ConfirmedKept)'
  BY InvNext, KeptNext
<1> SUFFICES ASSUME DistinctNames PROVE Spec => [](Inv /\ NoBackup /\ ConfirmedKept)
  OBVIOUS
<1>2. Inv /\ NoBackup /\ ConfirmedKept /\ [Next]_vars => (Inv /\ NoBackup /\ ConfirmedKept)'
  BY <1>1
<1> QED BY <1>2, InitInv, KeptInit, PTL DEF Spec

\* Nothing that store() confirmed is ever lost, and another run's file is left alone.
THEOREM NothingStoredIsLost == DistinctNames => (Spec => FilesKept)
<1> SUFFICES ASSUME DistinctNames PROVE Spec => FilesKept
  OBVIOUS
<1>1. ConfirmedKept => NothingLost
  BY DEF ConfirmedKept, NothingLost, Chosen
<1>2. Spec => []ConfirmedKept
  BY KeptAlways, PTL
<1> QED BY <1>1, <1>2, OtherRunsKept, PTL DEF FilesKept

-----------------------------------------------------------------------------
(***************************************************************************)
(* The store implements AtomicStore.                                       *)
(***************************************************************************)
\* What a restart would load, and what is in memory: the variables durable and
\* memory of the promise.
Durable == [s \in Session |-> Entries(s)]
Memory  == [save |-> cache.save, state |-> cache.state]

LEMMA PromiseInit == Init => Promise!Init
<1> SUFFICES ASSUME Init PROVE Promise!Init
  OBVIOUS
<1>1. Durable \in [Session -> Pair]
  BY InitTyped, LoadedType DEF Durable
<1>2. /\ cache.of = None /\ Memory = NoEntries /\ blocked = FALSE
      /\ confirmed = [s \in Session |-> NoEntries]
  BY DEF Init, NoCache, NoEntries, Memory
<1> QED BY <1>1, <1>2 DEF Promise!Init, Promise!Pair, Promise!Blank, Pair, NoEntries,
                          Durable, Memory

\* Loading is the same on both sides.
LEMMA PromiseLoaded ==
    ASSUME NEW s \in Session
    PROVE  Promise!Loaded(s) = [save |-> Loaded(s).save, state |-> Loaded(s).state]
<1>1. Promise!Loaded(s) = IF cache.of = s THEN Memory ELSE Entries(s)
  BY DEF Promise!Loaded, Memory
<1>2. Entries(s) = [save |-> FromDisk(s).save, state |-> FromDisk(s).state]
  BY DEF Entries, FromDisk, NoEntries
<1> QED BY <1>1, <1>2 DEF Loaded, Memory

\* Files that do not change leave what a restart would load as it is.
LEMMA SameDurable == UNCHANGED <<final, bak, legacy>> => UNCHANGED Durable
<1> SUFFICES ASSUME UNCHANGED <<final, bak, legacy>> PROVE UNCHANGED Durable
  OBVIOUS
<1>1. \A s \in Session : Chosen(s)' = Chosen(s)
  BY DEF Chosen, Verdict
<1>2. \A s \in Session : Entries(s)' = Entries(s)
  BY <1>1 DEF Entries, Verdict
<1> QED BY <1>2 DEF Durable

\* Loading, staging and asking for a save.
LEMMA GameImplements ==
    ASSUME Inv, NEW s \in Session, Open(s) \/ Store(s) \/ \E m \in Marks : Stage(s, m)
    PROVE  Promise!Next
<1>1. UNCHANGED Durable /\ ~blocked
  BY SameDurable DEF Open, Store, Stage, Ready, fileVars
<1>2. confirmed' = confirmed
  BY DEF Open, Store, Stage
<1>3. Loaded(s) \in Cached /\ Loaded(s).of = s
  BY LoadedType DEF Inv
<1>4. CASE /\ cache' = Loaded(s) /\ blocked' = blocked
  <2>1. cache'.of = s /\ Memory' = Promise!Loaded(s)
    BY <1>3, <1>4, PromiseLoaded DEF Memory
  <2> QED BY <1>1, <1>2, <1>4, <2>1 DEF Promise!Next, Promise!Open, Durable, Memory
<1>5. ASSUME NEW m \in Marks, cache' = [Loaded(s) EXCEPT !.state = m], blocked' = blocked
      PROVE  Promise!Next
  <2>1. cache'.of = s /\ Memory' = [Promise!Loaded(s) EXCEPT !.state = m]
    BY <1>3, <1>5, PromiseLoaded DEF Memory, Cached
  <2> QED BY <1>1, <1>2, <1>5, <2>1 DEF Promise!Next, Promise!Stage, Durable, Memory
<1>6. ASSUME NEW m \in Marks, cache' = [Loaded(s) EXCEPT !.save = m], blocked' = TRUE
      PROVE  Promise!Next
  <2>1. cache'.of = s /\ Memory' = [Promise!Loaded(s) EXCEPT !.save = m]
    BY <1>3, <1>6, PromiseLoaded DEF Memory, Cached
  <2> QED BY <1>1, <1>2, <1>6, <2>1 DEF Promise!Next, Promise!Request, Durable, Memory
<1>7. CASE Open(s)
  BY <1>4, <1>7 DEF Open
<1>8. CASE Store(s)
  <2>1. Marked(Loaded(s).state) \in Marks
    BY <1>3, MarkedType DEF Cached
  <2> QED BY <1>4, <1>6, <1>8, <2>1 DEF Store
<1>9. ASSUME NEW m \in Marks, Stage(s, m) PROVE Promise!Next
  BY <1>4, <1>5, <1>9 DEF Stage
<1> QED BY <1>7, <1>8, <1>9

\* After its write what is open is what a restart would load of it.
LEMMA WrittenIsDurable ==
    ASSUME NEW s \in Session
    PROVE  Inv /\ s = cache.of /\ ~cache.foreign /\ Paired(cache)
           /\ Chosen(s) = Snapshot(cache) => Entries(s) = Memory
<1> SUFFICES ASSUME Inv, s = cache.of, ~cache.foreign, Paired(cache),
                    Chosen(s) = Snapshot(cache)
             PROVE  Entries(s) = Memory
  OBVIOUS
<1>1. Snapshot(cache) \in Container /\ Snapshot(cache).of = cache.of
      /\ Snapshot(cache).save = cache.save /\ Snapshot(cache).state = cache.state
  BY SnapshotType DEF Inv, TypeOK, Cached, Snapshot
<1>2. Verdict(Snapshot(cache), cache.of) = "ours"
  BY <1>1, VerdictOfFile DEF File
<1>3. cache.save # None
  BY MarkedType, SaveBundleAssumption DEF Paired, Inv, TypeOK
<1>4. cache.state = None => legacy[cache.of].state = None
  BY DEF Inv, OpenIsOwn
<1> QED BY <1>1, <1>2, <1>3, <1>4 DEF Entries, Memory

\* The answer is yes only for what a restart would load.
LEMMA AnswerImplements ==
    ASSUME Inv, StoreReturns
    PROVE  Promise!Answer
<1>1. UNCHANGED Durable /\ UNCHANGED <<cache, lastOk>> /\ blocked /\ blocked' = FALSE /\ Drained
  BY SameDurable DEF StoreReturns, fileVars, writerVars
<1>2. CASE ~lastOk
  BY <1>1, <1>2 DEF StoreReturns, Promise!Answer, Durable
<1>3. CASE lastOk
  <2>1. /\ cache.of \in Session /\ ~cache.foreign /\ Paired(cache)
        /\ final[NameOf[cache.of]] = Snapshot(cache)
    BY <1>1, <1>3 DEF Inv, OneWrite, WriteComplete
  <2>2. Snapshot(cache) \in Container /\ Snapshot(cache).of = cache.of
    BY <2>1, SnapshotType DEF Inv, TypeOK, Cached, Snapshot
  <2>3. Chosen(cache.of) = Snapshot(cache)
    BY <2>1, <2>2, VerdictOfFile DEF Chosen, File
  <2>4. Durable[cache.of] = Memory
    BY <2>1, <2>3, WrittenIsDurable DEF Durable
  <2>5. confirmed' = [confirmed EXCEPT ![cache.of] = Memory]
    BY <1>3 DEF StoreReturns, Memory
  <2> QED BY <1>1, <2>4, <2>5 DEF Promise!Answer, Durable, Memory
<1> QED BY <1>2, <1>3

\* Of the writer's steps one is the commit, and the others cannot be told from
\* outside.
LEMMA WriterImplements ==
    ASSUME DistinctNames, Inv, NoBackup, Write
    PROVE  Promise!Commit \/ UNCHANGED Promise!vars
<1>1. UNCHANGED <<cache, blocked, legacy, confirmed>>
  BY DEF Write, TakeSnapshot, OpenTemporary, WriteTemporary, Rotate, Replace, Finish, Fail,
         cacheVars
<1>2. CASE Replace
  <2>1. blocked /\ cache.of \in Session /\ ~cache.foreign /\ Paired(cache)
    BY <1>2 DEF Replace, Inv, OneWrite
  <2>2. PICK s \in Session : s = cache.of
    BY <2>1
  <2>3. Chosen(s)' = Snapshot(cache) /\ Inv'
    BY <1>2, <2>2, ReplaceCommits, WriterInv
  <2>4. Entries(s)' = Memory'
    <3>1. Chosen(s)' = Snapshot(cache)' /\ s = cache'.of /\ ~cache'.foreign /\ Paired(cache)'
      BY <1>1, <2>1, <2>2, <2>3 DEF Paired, Snapshot
    <3>2. (Inv /\ s = cache.of /\ ~cache.foreign /\ Paired(cache) /\ Chosen(s) = Snapshot(cache)
           => Entries(s) = Memory)'
      BY WrittenIsDurable, PTL
    <3> QED BY <2>3, <3>1, <3>2
  <2>5. \A r \in Session : r # s => Entries(r)' = Entries(r)
    BY <1>1, <1>2, <2>2, ReplaceCommits DEF Entries, Verdict
  <2>6. Durable' = [Durable EXCEPT ![s] = Memory]
    BY <1>1, <2>4, <2>5 DEF Durable, Memory
  <2> QED BY <1>1, <2>1, <2>2, <2>6 DEF Promise!Commit, Durable, Memory
<1>3. CASE Rotate
  <2>1. \A s \in Session : Entries(s)' = Entries(s)
    BY <1>3, RotateKeeps
  <2> QED BY <1>1, <2>1 DEF Promise!vars
<1>4. CASE UNCHANGED <<final, bak>>
  BY <1>1, <1>4, SameDurable DEF Promise!vars, Durable
<1> QED BY <1>2, <1>3, <1>4 DEF Write, TakeSnapshot, OpenTemporary, WriteTemporary, Finish,
                                Fail, fileVars

LEMMA CrashImplements ==
    ASSUME Crash
    PROVE  Promise!Crash
<1>1. UNCHANGED Durable /\ confirmed' = confirmed
  BY SameDurable DEF Crash, fileVars
<1>2. cache'.of = None /\ Memory' = NoEntries /\ blocked' = FALSE
  BY DEF Crash, NoCache, NoEntries, Memory
<1> QED BY <1>1, <1>2 DEF Promise!Crash, Promise!Blank, NoEntries, Durable, Memory

\* What a restart would load changes in one step, to what is in memory, and an
\* affirmative answer is given only once it has: the store keeps its promise.
THEOREM StoreIsAtomic == DistinctNames => (Spec => KeepsPromise)
<1> SUFFICES ASSUME DistinctNames PROVE Spec => KeepsPromise
  OBVIOUS
<1>1. Inv /\ NoBackup /\ [Next]_vars => [Promise!Next]_(Promise!vars)
  <2> SUFFICES ASSUME Inv, NoBackup, [Next]_vars
               PROVE  Promise!Next \/ UNCHANGED Promise!vars
    OBVIOUS
  <2>1. CASE UNCHANGED vars
    <3>1. UNCHANGED <<cache, blocked, confirmed, final, bak, legacy>>
      BY <2>1 DEF vars, cacheVars, fileVars
    <3> QED BY <3>1, SameDurable DEF Promise!vars, Durable
  <2>2. CASE Write
    BY <2>2, WriterImplements DEF Promise!Next
  <2>3. CASE StoreReturns
    BY <2>3, AnswerImplements DEF Promise!Next
  <2>4. CASE Crash
    BY <2>4, CrashImplements DEF Promise!Next
  <2> QED BY <2>1, <2>2, <2>3, <2>4, GameImplements DEF Next
<1>2. Spec => [](Inv /\ NoBackup)
  BY KeptAlways, PTL
<1> QED BY <1>1, <1>2, PromiseInit, PTL DEF Spec, KeepsPromise, Promise!Spec
=============================================================================
