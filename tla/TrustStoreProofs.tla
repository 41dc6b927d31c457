-------------------------- MODULE TrustStoreProofs --------------------------
(***************************************************************************)
(* Proofs about TrustStore, for any number of threads, atoms, hosts and    *)
(* hashes, any caps and any mix of faults the theorem at hand allows.      *)
(*                                                                         *)
(* A mutation owns the files from acquire_write_lock to its response, so   *)
(* what it read is what is on disk when it writes, and what it wrote is    *)
(* still there when it acknowledges.  Shape says this of each thread; the  *)
(* invariants of the files and the promises made to callers rest on it.    *)
(***************************************************************************)
EXTENDS TrustStore, FiniteSetTheorems, TLAPS

Loading == {"loadAtoms", "loadUrls", "loadTrust", "swap", "mark"}
Mutations == {"add", "remove", "sessionWrite"}

\* The labels between acquire_write_lock and the response.
Holding(t) ==
    \/ pc[t] \in {"read", "modify", "sync", "snap", "snapTrust", "clean"}
    \/ pc[t] \in Loading /\ req[t].op # "ensure"

\* A thread holds the write lock exactly there.
LockShape(t) == lock = t <=> Holding(t)

\* Which request a thread at a label works on, and on which file.
ReqShape(t) ==
    /\ pc[t] = "idle" => req[t] = NoRequest
    /\ pc[t] = "check" => req[t].op = "ensure"
    /\ pc[t] \in {"lock", "read", "modify", "sync"} => req[t].op \in Mutations
    /\ pc[t] \in {"snap", "snapTrust", "clean"} => req[t].op = "sessionWrite"
    /\ req[t].op \in {"add", "remove"} => file[t] = FileOf(req[t].item)
    /\ req[t].op = "sessionWrite" => file[t] \in {"urls", "trust"}
    /\ req[t].op = "sessionWrite" /\ pc[t] \in {"lock", "snap"} => file[t] = "urls"

\* A session write has snapped the part of the session its file is for.
SnapShape(t) ==
    req[t].op = "sessionWrite" /\ pc[t] \in {"read", "modify"} =>
        snap[t] \subseteq IF file[t] = "urls" THEN Blocks ELSE Hashes

\* What a mutation is about to modify is what is on disk.
BufShape(t) == pc[t] = "modify" => buf[t][file[t]] = disk[file[t]]

\* What a session write counts as saved is on disk.
DoneShape(t) ==
    /\ done[t] # {} => lock = t /\ req[t].op = "sessionWrite"
    /\ done[t] \subseteq OnAny(disk)

\* An addition that renamed its file is on disk, and from the sync on it
\* cannot be undone unless syncs fail.
WrittenShape(t) ==
    req[t].op = "add" =>
        /\ pc[t] \in {"sync"} \cup Loading => req[t].item \in disk[file[t]]
        /\ pc[t] \in Loading /\ ~SyncFails => req[t].item \in durable[file[t]]

Shape(t) == LockShape(t) /\ ReqShape(t) /\ SnapShape(t) /\ BufShape(t) /\ DoneShape(t) /\ WrittenShape(t)

StoreInv == TypeOK /\ \A t \in Threads : Shape(t)

\* Nothing that is promised or owed is contradicted by what is under way.
Uncontradicted(t) ==
    /\ promised \cap Contradicts(req[t]) = {} /\ owed \cap Contradicts(req[t]) = {}
    /\ req[t].op = "sessionWrite" /\ pc[t] \in {"read", "modify"} /\ file[t] = "urls" =>
         \A d \in snap[t] : Opposite(d) \notin promised

\* A rename that was not synced may be undone when the machine loses power;
\* write_atomic ignores a sync that fails.  Both together could take back what
\* was acknowledged.
SyncsHold == ~(SyncFails /\ PowerFails)

\* A promised item is in its file, also after a power loss unless syncs fail or
\* it was found there before it was synced.
Kept(i) ==
    SyncsHold => i \in disk[FileOf(i)] /\ (~SyncFails /\ i \notin lent => i \in durable[FileOf(i)])

PromiseInv ==
    /\ StoreInv
    /\ \A t \in Threads : Uncontradicted(t)
    /\ \A i \in promised : Kept(i)
    /\ SessionNotLost

\* What a load has read so far is what is on disk, unless it was overtaken; only
\* a lazy load can be.
LoadShape(t) ==
    /\ t \in crossed => req[t].op = "ensure"
    /\ t \notin crossed =>
         /\ pc[t] \in {"loadUrls", "loadTrust", "swap"} => buf[t]["atoms"] = disk["atoms"]
         /\ pc[t] \in {"loadTrust", "swap"} => buf[t]["urls"] = disk["urls"]
         /\ pc[t] = "swap" => buf[t]["trust"] = disk["trust"]

\* The memory layer counts, or is about to.
Live == loaded \/ \E t \in Threads : pc[t] = "mark"

\* A layer that counts and was not left behind is right, but for a mutation that
\* is about to reload it.
MemoryInv ==
    /\ StoreInv
    /\ \A t \in Threads : LoadShape(t)
    /\ Live /\ ~lagging /\ (\A t \in Threads : ~Behind(t)) => mem = disk

\* What a file may say: one decision per host, as many hashes as the cap.
FileOK(f, c) ==
    /\ f = "urls" => \A d \in c : Opposite(d) \notin c
    /\ f = "trust" => IsFiniteSet(c) /\ Cardinality(c) <= TrustCap

\* The session is finite, and so is what a session write copied of it.
SessionFinite == IsFiniteSet(session) /\ \A t \in Threads : IsFiniteSet(snap[t])

\* Both layers of the file system, whichever a power loss leaves.
FilesInv ==
    /\ StoreInv /\ SessionFinite
    /\ \A f \in Files : FileOK(f, disk[f]) /\ FileOK(f, durable[f])

-----------------------------------------------------------------------------
(* Items, decisions and the files they are kept in.                        *)

LEMMA KindsApart ==
    /\ Atoms \cap Decisions = {} /\ Atoms \cap Hashes = {} /\ Decisions \cap Hashes = {}
    /\ Blocks \subseteq Decisions
  <1>1. /\ Holds["atoms"] = Atoms /\ Holds["urls"] = Decisions /\ Holds["trust"] = Hashes
    BY DEF Holds
  <1> QED BY <1>1, KindsAssumption DEF Files, Blocks, Decisions

LEMMA FileOfItem ==
    ASSUME NEW i \in Items
    PROVE  /\ FileOf(i) \in Files /\ i \in Holds[FileOf(i)]
           /\ \A f \in Files : i \in Holds[f] => f = FileOf(i)
  <1>1. /\ Holds["atoms"] = Atoms /\ Holds["urls"] = Decisions /\ Holds["trust"] = Hashes
    BY DEF Holds
  <1>2. \E f \in Files : i \in Holds[f] BY <1>1 DEF Files, Items
  <1>3. FileOf(i) \in Files /\ i \in Holds[FileOf(i)] BY <1>2 DEF FileOf
  <1> QED BY <1>3, KindsAssumption

LEMMA OppositeOf ==
    ASSUME NEW d \in Decisions
    PROVE  /\ Opposite(d) \in Decisions /\ Opposite(Opposite(d)) = d /\ Opposite(d) # d
           /\ d \in Blocks => Opposite(d) \notin Blocks
  BY DEF Decisions, Blocks, Opposite

-----------------------------------------------------------------------------
(* TypeOK and the shape of the threads.                                    *)

FileTypes == disk \in Contents /\ durable \in Contents /\ rooted \in BOOLEAN
ThreadTypes ==
    /\ lock \in Threads \cup {NoThread}
    /\ pc \in [Threads -> Labels]
    /\ req \in [Threads -> Requests \cup {NoRequest}]
    /\ file \in [Threads -> Files]
    /\ buf \in [Threads -> Contents]
    /\ snap \in [Threads -> SUBSET (Blocks \cup Hashes)]
    /\ done \in [Threads -> SUBSET (Blocks \cup Hashes)]
    /\ crossed \subseteq Threads
RestTypes ==
    /\ mem \in Contents
    /\ known \in BOOLEAN /\ loaded \in BOOLEAN
    /\ session \subseteq Blocks \cup Hashes
    /\ promised \subseteq Items /\ lent \subseteq Items /\ owed \subseteq Blocks \cup Hashes
    /\ lagging \in BOOLEAN

LEMMA TypeParts == TypeOK <=> FileTypes /\ ThreadTypes /\ RestTypes
  BY Zenon DEF TypeOK, FileTypes, ThreadTypes, RestTypes

\* A step of t leaves the other threads as they are.
Alone(t) ==
    \A u \in Threads \ {t} :
        /\ pc'[u] = pc[u] /\ req'[u] = req[u] /\ file'[u] = file[u]
        /\ buf'[u] = buf[u] /\ snap'[u] = snap[u] /\ done'[u] = done[u]
        /\ lock' = u <=> lock = u

\* The shape of the other threads does not depend on what t does to the files
\* while it holds the write lock.
LEMMA OthersKeepShape ==
    ASSUME NEW t \in Threads, NEW u \in Threads \ {t}, Shape(u), Alone(t),
           UNCHANGED fileVars \/ lock = t
    PROVE  Shape(u)'
  <1>1. /\ pc'[u] = pc[u] /\ req'[u] = req[u] /\ file'[u] = file[u]
        /\ buf'[u] = buf[u] /\ snap'[u] = snap[u] /\ done'[u] = done[u]
        /\ lock' = u <=> lock = u
    BY DEF Alone
  <1>2. Holding(u)' = Holding(u) BY <1>1 DEF Holding
  <1>3. LockShape(u)' BY <1>1, <1>2 DEF LockShape, Shape
  <1>4. ReqShape(u)' /\ SnapShape(u)' BY <1>1 DEF ReqShape, SnapShape, Shape
  <1>5. BufShape(u)'
    BY <1>1 DEF BufShape, Shape, LockShape, Holding, fileVars
  <1>6. DoneShape(u)'
    BY <1>1 DEF DoneShape, Shape, OnAny, fileVars
  <1>7. WrittenShape(u)'
    BY <1>1 DEF WrittenShape, ReqShape, Shape, LockShape, Holding, fileVars
  <1> QED BY <1>3, <1>4, <1>5, <1>6, <1>7 DEF Shape

LEMMA StepKeepsStore ==
    ASSUME StoreInv, NEW t \in Threads, Alone(t), UNCHANGED fileVars \/ lock = t,
           FileTypes', ThreadTypes', RestTypes', Shape(t)'
    PROVE  StoreInv'
  <1>1. TypeOK' BY DEF TypeOK, FileTypes, ThreadTypes, RestTypes
  <1>2. \A u \in Threads \ {t} : Shape(u)' BY OthersKeepShape DEF StoreInv
  <1> QED BY <1>1, <1>2 DEF StoreInv

LEMMA EmptyContents == Empty \in Contents /\ OnAny(Empty) = {}
  BY DEF Empty, Contents, OnAny

LEMMA StoreInit == Init => StoreInv
  <1> SUFFICES ASSUME Init PROVE StoreInv OBVIOUS
  <1>1. FileTypes BY EmptyContents DEF Init, FileTypes
  <1>2. RestTypes BY EmptyContents DEF Init, RestTypes
  <1>3. ThreadTypes BY EmptyContents DEF Init, ThreadTypes, Labels, Files
  <1>4. ASSUME NEW t \in Threads PROVE Shape(t)
    <2>1. pc[t] = "idle" /\ req[t] = NoRequest /\ lock # t /\ done[t] = {}
      BY TrustStoreAssumption DEF Init
    <2>2. req[t].op = "none" BY <2>1 DEF NoRequest
    <2> QED
      BY <2>1, <2>2 DEF Shape, LockShape, Holding, ReqShape, SnapShape, BufShape, DoneShape,
         WrittenShape, Loading
  <1> QED BY <1>1, <1>2, <1>3, <1>4, TypeParts DEF StoreInv

\* The response of a request, whatever it did to the rest of the state.
LEMMA ReplyKeepsStore ==
    ASSUME StoreInv, NEW t \in Threads, Reply(t), UNCHANGED fileVars, RestTypes'
    PROVE  StoreInv'
  <1>0. FileTypes /\ ThreadTypes BY TypeParts DEF StoreInv
  <1>1. FileTypes' BY <1>0 DEF FileTypes, fileVars
  <1>2. ThreadTypes'
    BY <1>0, EmptyContents DEF ThreadTypes, Reply, Labels, Files
  <1>3. Alone(t) BY <1>0, TrustStoreAssumption DEF Alone, Reply, ThreadTypes
  <1>4. pc'[t] = "idle" /\ req'[t] = NoRequest /\ lock' # t /\ done'[t] = {}
    BY <1>0, TrustStoreAssumption DEF Reply, ThreadTypes
  <1>5. req'[t].op = "none" BY <1>4 DEF NoRequest
  <1>6. Shape(t)'
    BY <1>4, <1>5 DEF Shape, LockShape, Holding, ReqShape, SnapShape, BufShape, DoneShape,
       WrittenShape, Loading
  <1> QED BY <1>1, <1>2, <1>3, <1>6, StepKeepsStore

LEMMA FailKeepsStore ==
    ASSUME StoreInv, NEW t \in Threads, Fail(t), UNCHANGED <<fileVars, memVars>>
    PROVE  StoreInv'
  <1>1. RestTypes' BY TypeParts DEF StoreInv, RestTypes, Fail, Behind, memVars
  <1> QED BY <1>1, ReplyKeepsStore DEF Fail

\* A request is taken on.
LEMMA ReceiveKeepsStore ==
    ASSUME StoreInv, NEW t \in Threads, NEW r \in Requests, Receive(t, r)
    PROVE  StoreInv'
  <1>0. FileTypes /\ ThreadTypes /\ RestTypes /\ Shape(t) BY TypeParts DEF StoreInv
  <1>1. FileTypes' BY <1>0 DEF FileTypes, Receive, fileVars
  <1>2. RestTypes' BY <1>0 DEF RestTypes, Receive, memVars
  <1>3. r.op \in {"add", "remove", "ensure", "sessionWrite"}
        /\ (r.op \in {"add", "remove"} => r.item \in Items)
    BY DEF Requests, Adds, Removes, Items
  <1>4. r.op \in {"add", "remove"} => FileOf(r.item) \in Files
    BY <1>3, FileOfItem
  <1>5. ThreadTypes' BY <1>0, <1>3, <1>4 DEF ThreadTypes, Receive, Labels, Files
  <1>6. Alone(t) BY <1>0 DEF Alone, Receive, ThreadTypes
  <1>7. /\ pc[t] = "idle" /\ pc'[t] = IF r.op = "ensure" THEN "check" ELSE "lock"
        /\ req'[t] = r /\ lock' = lock /\ done'[t] = done[t]
        /\ file'[t] = IF r.op \in {"add", "remove"} THEN FileOf(r.item) ELSE "urls"
    BY <1>0 DEF Receive, ThreadTypes
  <1>8. lock # t BY <1>0, <1>7 DEF Shape, LockShape, Holding, Loading
  <1>9. Shape(t)'
    <2>1. LockShape(t)' BY <1>7, <1>8 DEF LockShape, Holding, Loading
    <2>2. ReqShape(t)' BY <1>3, <1>7 DEF ReqShape, Mutations
    <2>3. SnapShape(t)' /\ BufShape(t)' /\ WrittenShape(t)'
      BY <1>7 DEF SnapShape, BufShape, WrittenShape, Loading
    <2>4. DoneShape(t)' BY <1>0, <1>7, <1>8 DEF Shape, DoneShape
    <2> QED BY <2>1, <2>2, <2>3, <2>4 DEF Shape
  <1> QED BY <1>1, <1>2, <1>5, <1>6, <1>9, StepKeepsStore DEF Receive

\* A step of t that only moves it on and may take the lock.
LEMMA GotoKeepsStore ==
    ASSUME StoreInv, NEW t \in Threads, NEW l \in Labels, Goto(t, l),
           UNCHANGED fileVars, RestTypes',
           lock' = lock \/ (lock = NoThread /\ lock' = t),
           Shape(t)'
    PROVE  StoreInv'
  <1>0. FileTypes /\ ThreadTypes BY TypeParts DEF StoreInv
  <1>1. FileTypes' BY <1>0 DEF FileTypes, fileVars
  <1>2. ThreadTypes' BY <1>0 DEF ThreadTypes, Goto
  <1>3. Alone(t) BY <1>0, TrustStoreAssumption DEF Alone, Goto, ThreadTypes
  <1> QED BY <1>1, <1>2, <1>3, StepKeepsStore

LEMMA LockKeepsStore ==
    ASSUME StoreInv, NEW t \in Threads, Lock(t)
    PROVE  StoreInv'
  <1>0. ThreadTypes /\ RestTypes /\ Shape(t) BY TypeParts DEF StoreInv
  <1> DEFINE l == IF req[t].op = "sessionWrite" THEN "snap" ELSE "read"
  <1>1. /\ pc[t] = "lock" /\ lock = NoThread /\ lock' = t /\ Goto(t, l)
        /\ UNCHANGED <<fileVars, memVars, ghostVars>>
    BY DEF Lock
  <1>2. RestTypes' BY <1>0, <1>1 DEF RestTypes, memVars, ghostVars
  <1>3. /\ pc'[t] = l /\ req'[t] = req[t] /\ file'[t] = file[t] /\ done'[t] = done[t]
        /\ disk' = disk
    BY <1>0, <1>1 DEF Goto, ThreadTypes, fileVars
  <1>4. req[t].op \in Mutations BY <1>0, <1>1 DEF Shape, ReqShape
  <1>5. Shape(t)'
    <2>1. LockShape(t)' BY <1>1, <1>3 DEF LockShape, Holding
    <2>2. ReqShape(t)' BY <1>0, <1>1, <1>3, <1>4 DEF Shape, ReqShape, Mutations
    <2>3. SnapShape(t)' /\ BufShape(t)' /\ WrittenShape(t)'
      BY <1>3 DEF SnapShape, BufShape, WrittenShape, Loading
    <2>4. DoneShape(t)'
      BY <1>0, <1>1, <1>3, TrustStoreAssumption DEF Shape, DoneShape, OnAny
    <2> QED BY <2>1, <2>2, <2>3, <2>4 DEF Shape
  <1>6. l \in Labels BY DEF Labels
  <1> HIDE DEF l
  <1> QED BY <1>1, <1>2, <1>5, <1>6, GotoKeepsStore

LEMMA ReadKeepsStore ==
    ASSUME StoreInv, NEW t \in Threads, Read(t)
    PROVE  StoreInv'
  <1>1. CASE IoFails /\ Fail(t) /\ UNCHANGED <<fileVars, memVars>>
    BY <1>1, FailKeepsStore
  <1>2. CASE /\ pc[t] = "read"
             /\ pc' = [pc EXCEPT ![t] = "modify"]
             /\ buf' = [buf EXCEPT ![t][file[t]] = disk[file[t]]]
             /\ UNCHANGED <<lock, req, file, snap, done, crossed, ghostVars>>
             /\ UNCHANGED <<fileVars, memVars>>
    <2>0. FileTypes /\ ThreadTypes /\ RestTypes /\ Shape(t) BY TypeParts DEF StoreInv
    <2>1. FileTypes' BY <2>0, <1>2 DEF FileTypes, fileVars
    <2>2. RestTypes' BY <2>0, <1>2 DEF RestTypes, memVars, ghostVars
    <2>3. ThreadTypes'
      BY <2>0, <1>2 DEF ThreadTypes, FileTypes, Labels, Contents
    <2>4. Alone(t) BY <2>0, <1>2 DEF Alone, ThreadTypes
    <2>5. /\ pc'[t] = "modify" /\ req'[t] = req[t] /\ file'[t] = file[t] /\ snap'[t] = snap[t]
          /\ done'[t] = done[t] /\ disk' = disk /\ durable' = durable /\ lock' = lock
      BY <2>0, <1>2 DEF ThreadTypes, fileVars
    <2>6. buf'[t][file[t]] = disk[file[t]] BY <2>0, <1>2 DEF ThreadTypes, Contents
    <2>7. Shape(t)'
      <3>1. LockShape(t)' BY <2>0, <1>2, <2>5 DEF Shape, LockShape, Holding
      <3>2. ReqShape(t)' BY <2>0, <1>2, <2>5 DEF Shape, ReqShape
      <3>3. SnapShape(t)' BY <2>0, <1>2, <2>5 DEF Shape, SnapShape
      <3>4. BufShape(t)' BY <2>5, <2>6 DEF BufShape
      <3>5. DoneShape(t)' BY <2>0, <2>5 DEF Shape, DoneShape, OnAny
      <3>6. WrittenShape(t)' BY <2>5 DEF WrittenShape, Loading
      <3> QED BY <3>1, <3>2, <3>3, <3>4, <3>5, <3>6 DEF Shape
    <2> QED BY <1>2, <2>1, <2>2, <2>3, <2>4, <2>7, StepKeepsStore
  <1> QED BY <1>1, <1>2 DEF Read

\* write_atomic renames a file whose new content keeps what this request saved
\* before, and has what it is about.
LEMMA RenameKeepsStore ==
    ASSUME StoreInv, NEW t \in Threads, pc[t] = "modify",
           NEW content \in SUBSET Holds[file[t]], NEW saved \in SUBSET (Blocks \cup Hashes),
           Rename(t, content, saved), UNCHANGED memVars,
           saved # {} => req[t].op = "sessionWrite", saved \subseteq content,
           \A d \in done[t] : d \in disk[file[t]] => d \in content,
           req[t].op = "add" => req[t].item \in content
    PROVE  StoreInv'
  <1>1. CASE IoFails /\ Fail(t) /\ UNCHANGED fileVars
    BY <1>1, FailKeepsStore
  <1>2. CASE /\ disk' = [disk EXCEPT ![file[t]] = content]
             /\ pc' = [pc EXCEPT ![t] = "sync"]
             /\ done' = [done EXCEPT ![t] = @ \cup saved]
             /\ buf' = [buf EXCEPT ![t] = Empty]
             /\ snap' = [snap EXCEPT ![t] = {}]
             /\ crossed' = crossed \cup Overtaken
             /\ UNCHANGED <<durable, rooted, lock, req, file, ghostVars>>
    <2>0. FileTypes /\ ThreadTypes /\ RestTypes /\ Shape(t) BY TypeParts DEF StoreInv
    <2>1. file[t] \in Files /\ content \in SUBSET Items
      BY <2>0, KindsApart DEF ThreadTypes, Holds, Files, Items
    <2>2. FileTypes' BY <2>0, <2>1, <1>2 DEF FileTypes, Contents
    <2>3. RestTypes' BY <2>0, <1>2 DEF RestTypes, memVars, ghostVars
    <2>4. ThreadTypes'
      BY <2>0, <1>2, EmptyContents DEF ThreadTypes, Labels, Overtaken
    <2>5. Alone(t) BY <2>0, <1>2 DEF Alone, ThreadTypes
    <2>6. lock = t BY <2>0 DEF Shape, LockShape, Holding
    <2>7. /\ pc'[t] = "sync" /\ req'[t] = req[t] /\ file'[t] = file[t]
          /\ done'[t] = done[t] \cup saved /\ lock' = lock
      BY <2>0, <1>2 DEF ThreadTypes
    <2>8. /\ disk'[file[t]] = content
          /\ \A f \in Files : f # file[t] => disk'[f] = disk[f]
      BY <2>0, <2>1, <1>2 DEF FileTypes, Contents
    <2>9. Shape(t)'
      <3>1. LockShape(t)' BY <2>6, <2>7 DEF LockShape, Holding
      <3>2. ReqShape(t)' BY <2>0, <2>7 DEF Shape, ReqShape
      <3>3. SnapShape(t)' /\ BufShape(t)' BY <2>7 DEF SnapShape, BufShape
      <3>4. DoneShape(t)'
        <4>1. \A d \in done[t] : \E f \in Files : d \in disk[f]
          BY <2>0 DEF Shape, DoneShape, OnAny
        <4>2. \A d \in done[t] \cup saved : \E f \in Files : d \in disk'[f]
          BY <4>1, <2>1, <2>8
        <4>3. done'[t] \subseteq OnAny(disk)' BY <4>2, <2>7 DEF OnAny
        <4> QED BY <4>3, <2>0, <2>6, <2>7 DEF DoneShape, Shape
      <3>5. WrittenShape(t)' BY <2>7, <2>8 DEF WrittenShape, Loading
      <3> QED BY <3>1, <3>2, <3>3, <3>4, <3>5 DEF Shape
    <2> QED BY <2>2, <2>3, <2>4, <2>5, <2>6, <2>9, StepKeepsStore
  <1> QED BY <1>1, <1>2 DEF Rename

\* A response that promises what is there.
LEMMA PromiseItems ==
    ASSUME ThreadTypes, NEW t \in Threads
    PROVE  Promise(t) \subseteq Items
  BY DEF Promise, ThreadTypes, Requests, Adds, Removes, NoRequest, Items

LEMMA AlreadyThereKeepsStore ==
    ASSUME StoreInv, NEW t \in Threads, AlreadyThere(t), UNCHANGED <<fileVars, memVars>>
    PROVE  StoreInv'
  <1>0. ThreadTypes /\ RestTypes BY TypeParts DEF StoreInv
  <1>1. Promise(t) \subseteq Items BY <1>0, PromiseItems
  <1>2. RestTypes' BY <1>0, <1>1 DEF RestTypes, AlreadyThere, memVars
  <1> QED BY <1>2, ReplyKeepsStore DEF AlreadyThere

LEMMA AddItemKeepsStore ==
    ASSUME StoreInv, NEW t \in Threads, AddItem(t)
    PROVE  StoreInv'
  <1> DEFINE i == req[t].item
             content == buf[t][file[t]]
  <1>0. FileTypes /\ ThreadTypes /\ Shape(t) BY TypeParts DEF StoreInv
  <1>1. CASE (Fail(t) \/ AlreadyThere(t)) /\ UNCHANGED <<fileVars, memVars>>
    BY <1>1, FailKeepsStore, AlreadyThereKeepsStore
  <1>2. CASE Rename(t, With(content, i), {}) /\ UNCHANGED memVars
    <2>1. pc[t] = "modify" /\ req[t].op = "add" BY DEF AddItem
    <2>2. i \in Items /\ file[t] = FileOf(i)
      BY <1>0, <2>1 DEF ThreadTypes, Requests, NoRequest, Adds, Removes, Shape, ReqShape
    <2>3. content \subseteq Holds[file[t]] BY <1>0 DEF ThreadTypes, Contents
    <2>4. i \in Holds[file[t]] BY <2>2, FileOfItem
    <2>5. With(content, i) \in SUBSET Holds[file[t]] /\ i \in With(content, i)
      BY <2>3, <2>4 DEF With
    <2>6. done[t] = {} BY <1>0, <2>1 DEF Shape, DoneShape
    <2> QED BY <1>2, <2>1, <2>5, <2>6, RenameKeepsStore
  <1> QED BY <1>1, <1>2 DEF AddItem

LEMMA RemoveAtomKeepsStore ==
    ASSUME StoreInv, NEW t \in Threads, RemoveAtom(t)
    PROVE  StoreInv'
  <1> DEFINE content == buf[t]["atoms"]
  <1>0. FileTypes /\ ThreadTypes /\ Shape(t) BY TypeParts DEF StoreInv
  <1>1. CASE Fail(t) /\ UNCHANGED <<fileVars, memVars>> BY <1>1, FailKeepsStore
  <1>2. CASE Rename(t, content \ {req[t].item}, {}) /\ UNCHANGED memVars
    <2>1. pc[t] = "modify" /\ req[t].op = "remove" BY DEF RemoveAtom
    <2>2. req[t].item \in Atoms /\ file[t] = FileOf(req[t].item)
      BY <1>0, <2>1 DEF ThreadTypes, Requests, NoRequest, Adds, Removes, Shape, ReqShape
    <2>3. file[t] = "atoms" BY <2>2, FileOfItem DEF Items, Holds, Files
    <2>4. content \subseteq Holds[file[t]] BY <1>0, <2>3 DEF ThreadTypes, Contents, Files
    <2>5. done[t] = {} BY <1>0, <2>1 DEF Shape, DoneShape
    <2> QED BY <1>2, <2>1, <2>4, <2>5, RenameKeepsStore
  <1> QED BY <1>1, <1>2 DEF RemoveAtom

LEMMA SyncKeepsStore ==
    ASSUME StoreInv, NEW t \in Threads, Sync(t)
    PROVE  StoreInv'
  <1> DEFINE l == IF req[t].op = "sessionWrite" /\ file[t] = "urls" THEN "snapTrust" ELSE "loadAtoms"
  <1>0. FileTypes /\ ThreadTypes /\ RestTypes /\ Shape(t) BY TypeParts DEF StoreInv
  <1>1. /\ pc[t] = "sync" /\ Goto(t, l) /\ UNCHANGED <<disk, rooted, memVars, lock, ghostVars>>
        /\ \/ durable' = [durable EXCEPT ![file[t]] = disk[file[t]]]
           \/ SyncFails /\ UNCHANGED durable
    BY DEF Sync
  <1>2. FileTypes'
    <2>1. [durable EXCEPT ![file[t]] = disk[file[t]]] \in Contents
      BY <1>0 DEF FileTypes, ThreadTypes, Contents
    <2> QED BY <1>0, <1>1, <2>1 DEF FileTypes
  <1>3. RestTypes' BY <1>0, <1>1 DEF RestTypes, memVars, ghostVars
  <1>4. ThreadTypes'
    <2>1. l \in Labels BY DEF Labels
    <2> QED BY <1>0, <1>1, <2>1 DEF ThreadTypes, Goto
  <1>5. Alone(t) BY <1>0, <1>1 DEF Alone, Goto, ThreadTypes
  <1>6. /\ lock = t /\ req[t].op \in Mutations /\ file[t] \in Files
    BY <1>0, <1>1 DEF Shape, LockShape, Holding, ReqShape, ThreadTypes
  <1>7. /\ pc'[t] = l /\ req'[t] = req[t] /\ file'[t] = file[t] /\ done'[t] = done[t]
    BY <1>0, <1>1 DEF Goto, ThreadTypes
  <1>8. SyncFails \/ durable'[file[t]] = disk[file[t]]
    BY <1>0, <1>1, <1>6 DEF FileTypes, Contents
  <1>9. Shape(t)'
    <2>1. LockShape(t)' BY <1>1, <1>6, <1>7 DEF LockShape, Holding, Loading, Mutations
    <2>2. ReqShape(t)' BY <1>0, <1>7 DEF Shape, ReqShape, Mutations
    <2>3. SnapShape(t)' /\ BufShape(t)' BY <1>7 DEF SnapShape, BufShape
    <2>4. DoneShape(t)' BY <1>0, <1>1, <1>7 DEF Shape, DoneShape, OnAny
    <2>5. WrittenShape(t)'
      BY <1>0, <1>1, <1>7, <1>8 DEF Shape, WrittenShape, Loading, SyncFails
    <2> QED BY <2>1, <2>2, <2>3, <2>4, <2>5 DEF Shape
  <1> QED BY <1>2, <1>3, <1>4, <1>5, <1>6, <1>9, StepKeepsStore

LEMMA SnapUrlsKeepsStore ==
    ASSUME StoreInv, NEW t \in Threads, SnapUrls(t)
    PROVE  StoreInv'
  <1> DEFINE s == session \cap Blocks
  <1>1. CASE Fail(t) /\ UNCHANGED <<fileVars, memVars>> BY <1>1, FailKeepsStore
  <1>2. CASE /\ pc[t] = "snap" /\ snap' = [snap EXCEPT ![t] = s]
             /\ pc' = [pc EXCEPT ![t] = IF s = {} THEN "snapTrust" ELSE "read"]
             /\ promised' = promised \ {Opposite(d) : d \in s}
             /\ UNCHANGED <<lock, req, file, buf, done, crossed, lent, owed, lagging>>
             /\ UNCHANGED <<fileVars, memVars>>
    <2>0. FileTypes /\ ThreadTypes /\ RestTypes /\ Shape(t) BY TypeParts DEF StoreInv
    <2>1. FileTypes' BY <2>0, <1>2 DEF FileTypes, fileVars
    <2>2. RestTypes'
      <3>1. promised' \subseteq promised BY <1>2
      <3> QED BY <2>0, <1>2, <3>1 DEF RestTypes, memVars
    <2>3. ThreadTypes' BY <2>0, <1>2 DEF ThreadTypes, Labels
    <2>4. Alone(t) BY <2>0, <1>2 DEF Alone, ThreadTypes
    <2>5. /\ pc'[t] \in {"snapTrust", "read"} /\ req'[t] = req[t] /\ file'[t] = file[t]
          /\ snap'[t] = s /\ done'[t] = done[t] /\ disk' = disk /\ lock' = lock
      BY <2>0, <1>2 DEF ThreadTypes, fileVars
    <2>6. req[t].op = "sessionWrite" /\ file[t] = "urls"
      BY <2>0, <1>2 DEF Shape, ReqShape
    <2>7. Shape(t)'
      <3>1. LockShape(t)' BY <2>0, <1>2, <2>5 DEF Shape, LockShape, Holding
      <3>2. ReqShape(t)' BY <2>5, <2>6 DEF ReqShape, Mutations
      <3>3. SnapShape(t)' BY <2>5, <2>6 DEF SnapShape
      <3>4. BufShape(t)' BY <2>5 DEF BufShape
      <3>5. DoneShape(t)' BY <2>0, <2>5 DEF Shape, DoneShape, OnAny
      <3>6. WrittenShape(t)' BY <2>5, <2>6 DEF WrittenShape
      <3> QED BY <3>1, <3>2, <3>3, <3>4, <3>5, <3>6 DEF Shape
    <2> QED BY <1>2, <2>1, <2>2, <2>3, <2>4, <2>7, StepKeepsStore
  <1> QED BY <1>1, <1>2 DEF SnapUrls

LEMMA SnapTrustKeepsStore ==
    ASSUME StoreInv, NEW t \in Threads, SnapTrust(t)
    PROVE  StoreInv'
  <1> DEFINE s == session \cap Hashes
  <1>0. FileTypes /\ ThreadTypes /\ RestTypes /\ Shape(t) BY TypeParts DEF StoreInv
  <1>1. /\ pc[t] = "snapTrust" /\ snap' = [snap EXCEPT ![t] = s]
        /\ file' = [file EXCEPT ![t] = "trust"]
        /\ pc' = [pc EXCEPT ![t] = IF s = {} THEN "loadAtoms" ELSE "read"]
        /\ UNCHANGED <<fileVars, memVars, lock, req, buf, done, crossed, ghostVars>>
    BY DEF SnapTrust
  <1>2. FileTypes' BY <1>0, <1>1 DEF FileTypes, fileVars
  <1>3. RestTypes' BY <1>0, <1>1 DEF RestTypes, memVars, ghostVars
  <1>4. ThreadTypes' BY <1>0, <1>1 DEF ThreadTypes, Labels, Files
  <1>5. Alone(t) BY <1>0, <1>1 DEF Alone, ThreadTypes
  <1>6. /\ pc'[t] \in {"loadAtoms", "read"} /\ req'[t] = req[t] /\ file'[t] = "trust"
        /\ snap'[t] = s /\ done'[t] = done[t] /\ disk' = disk /\ lock' = lock
    BY <1>0, <1>1 DEF ThreadTypes, fileVars
  <1>7. req[t].op = "sessionWrite" BY <1>0, <1>1 DEF Shape, ReqShape
  <1>8. Shape(t)'
    <2>1. LockShape(t)' BY <1>0, <1>1, <1>6, <1>7 DEF Shape, LockShape, Holding, Loading
    <2>2. ReqShape(t)' BY <1>6, <1>7 DEF ReqShape, Mutations
    <2>3. SnapShape(t)' BY <1>6, <1>7 DEF SnapShape
    <2>4. BufShape(t)' BY <1>6 DEF BufShape
    <2>5. DoneShape(t)' BY <1>0, <1>6 DEF Shape, DoneShape, OnAny
    <2>6. WrittenShape(t)' BY <1>6, <1>7 DEF WrittenShape
    <2> QED BY <2>1, <2>2, <2>3, <2>4, <2>5, <2>6 DEF Shape
  <1> QED BY <1>1, <1>2, <1>3, <1>4, <1>5, <1>8, StepKeepsStore

\* A session write that has nothing to write to a file goes on with the next.
LEMMA SavedKeepsStore ==
    ASSUME StoreInv, NEW t \in Threads, pc[t] = "modify", req[t].op = "sessionWrite",
           NEW l \in {"snapTrust", "loadAtoms"}, pc' = [pc EXCEPT ![t] = l],
           NEW saved \in SUBSET (Blocks \cup Hashes), saved \subseteq disk[file[t]],
           done' = [done EXCEPT ![t] = @ \cup saved],
           UNCHANGED <<fileVars, lock, req, file, buf, snap, crossed, ghostVars, memVars>>
    PROVE  StoreInv'
  <1>0. FileTypes /\ ThreadTypes /\ RestTypes /\ Shape(t) BY TypeParts DEF StoreInv
  <1>1. FileTypes' BY <1>0 DEF FileTypes, fileVars
  <1>2. RestTypes' BY <1>0 DEF RestTypes, memVars, ghostVars
  <1>3. ThreadTypes' BY <1>0 DEF ThreadTypes, Labels
  <1>4. Alone(t) BY <1>0 DEF Alone, ThreadTypes
  <1>5. /\ pc'[t] = l /\ req'[t] = req[t] /\ file'[t] = file[t] /\ file[t] \in Files
        /\ done'[t] = done[t] \cup saved /\ disk' = disk /\ lock' = lock
    BY <1>0 DEF ThreadTypes, fileVars
  <1>6. lock = t BY <1>0 DEF Shape, LockShape, Holding
  <1>7. Shape(t)'
    <2>1. LockShape(t)' BY <1>5, <1>6 DEF LockShape, Holding, Loading
    <2>2. ReqShape(t)' BY <1>0, <1>5 DEF Shape, ReqShape
    <2>3. SnapShape(t)' /\ BufShape(t)' /\ WrittenShape(t)'
      BY <1>5 DEF SnapShape, BufShape, WrittenShape
    <2>4. DoneShape(t)'
      <3>1. saved \subseteq OnAny(disk) BY <1>5 DEF OnAny
      <3>2. OnAny(disk)' = OnAny(disk) BY <1>5 DEF OnAny
      <3> QED BY <1>0, <1>5, <1>6, <3>1, <3>2 DEF Shape, DoneShape
    <2> QED BY <2>1, <2>2, <2>3, <2>4 DEF Shape
  <1> QED BY <1>1, <1>2, <1>3, <1>4, <1>7, StepKeepsStore

LEMMA SaveUrlsKeepsStore ==
    ASSUME StoreInv, NEW t \in Threads, SaveUrls(t)
    PROVE  StoreInv'
  <1> DEFINE content == buf[t]["urls"]
             new == (content \ {Opposite(d) : d \in snap[t]}) \cup snap[t]
  <1>0. FileTypes /\ ThreadTypes /\ Shape(t) BY TypeParts DEF StoreInv
  <1>1. /\ pc[t] = "modify" /\ req[t].op = "sessionWrite" /\ file[t] = "urls"
        /\ UNCHANGED memVars
    BY DEF SaveUrls
  <1>2. snap[t] \subseteq Blocks /\ content = disk["urls"] /\ content \subseteq Decisions
    BY <1>0, <1>1 DEF Shape, SnapShape, BufShape, FileTypes, Contents, Holds, Files
  <1>3. CASE snap[t] \subseteq content
    BY <1>0, <1>1, <1>2, <1>3, SavedKeepsStore DEF SaveUrls
  <1>4. CASE ~(snap[t] \subseteq content)
    <2>1. Rename(t, new, snap[t]) BY <1>4 DEF SaveUrls
    <2>2. new \in SUBSET Holds[file[t]] BY <1>1, <1>2, KindsApart DEF Holds
    <2>3. \A d \in done[t] : d \in disk[file[t]] => d \in new
      <3>1. \A d \in snap[t] : Opposite(d) \in Decisions \ Blocks
        BY <1>2, OppositeOf, KindsApart
      <3>2. \A d \in done[t] : d \notin Decisions \ Blocks
        BY <1>0, KindsApart DEF ThreadTypes
      <3> QED BY <1>1, <1>2, <3>1, <3>2
    <2> HIDE DEF new
    <2>4. snap[t] \subseteq new BY DEF new
    <2> QED BY <1>1, <1>2, <2>1, <2>2, <2>3, <2>4, RenameKeepsStore
  <1> QED BY <1>3, <1>4

LEMMA SaveTrustKeepsStore ==
    ASSUME StoreInv, NEW t \in Threads, SaveTrust(t)
    PROVE  StoreInv'
  <1> DEFINE content == buf[t]["trust"]
             fresh == snap[t] \ content
  <1>0. FileTypes /\ ThreadTypes /\ Shape(t) BY TypeParts DEF StoreInv
  <1>1. /\ pc[t] = "modify" /\ req[t].op = "sessionWrite" /\ file[t] = "trust"
        /\ UNCHANGED memVars
    BY DEF SaveTrust
  <1>2. PICK room \in SUBSET fresh :
          IF room = {}
          THEN /\ pc' = [pc EXCEPT ![t] = "loadAtoms"]
               /\ done' = [done EXCEPT ![t] = @ \cup SavedTrust(t, room)]
               /\ UNCHANGED <<fileVars, lock, req, file, buf, snap, crossed, ghostVars>>
          ELSE Rename(t, content \cup room, SavedTrust(t, room))
    BY DEF SaveTrust
  <1>3. snap[t] \subseteq Hashes /\ content = disk["trust"] /\ content \subseteq Hashes
    BY <1>0, <1>1 DEF Shape, SnapShape, BufShape, FileTypes, Contents, Holds, Files
  <1>4. SavedTrust(t, room) \subseteq (content \cup room) \cap Hashes
    BY <1>3 DEF SavedTrust
  <1>5. CASE room = {}
    <2>1. SavedTrust(t, room) \subseteq disk[file[t]] BY <1>1, <1>3, <1>4, <1>5
    <2> QED BY <1>1, <1>2, <1>4, <1>5, <2>1, SavedKeepsStore
  <1>6. CASE room # {}
    <2>1. content \cup room \in SUBSET Holds[file[t]] BY <1>1, <1>3 DEF Holds
    <2> QED BY <1>1, <1>2, <1>3, <1>4, <1>6, <2>1, RenameKeepsStore
  <1> QED BY <1>5, <1>6

LEMMA CheckKeepsStore ==
    ASSUME StoreInv, NEW t \in Threads, Check(t)
    PROVE  StoreInv'
  <1>0. ThreadTypes /\ RestTypes /\ Shape(t) BY TypeParts DEF StoreInv
  <1>1. CASE loaded BY <1>1, FailKeepsStore DEF Check
  <1>2. CASE ~loaded
    <2>1. /\ pc[t] = "check" /\ Goto(t, "loadAtoms")
          /\ UNCHANGED <<lock, ghostVars, fileVars, memVars>>
      BY <1>2 DEF Check
    <2>2. RestTypes' BY <1>0, <2>1 DEF RestTypes, memVars, ghostVars
    <2>3. /\ pc'[t] = "loadAtoms" /\ req'[t] = req[t] /\ file'[t] = file[t]
          /\ done'[t] = done[t] /\ disk' = disk /\ lock' = lock
      BY <1>0, <2>1 DEF Goto, ThreadTypes, fileVars
    <2>4. req[t].op = "ensure" BY <1>0, <2>1 DEF Shape, ReqShape
    <2>5. Shape(t)'
      BY <1>0, <2>1, <2>3, <2>4 DEF Shape, LockShape, Holding, ReqShape, SnapShape, BufShape,
         DoneShape, WrittenShape, OnAny, Loading
    <2> QED BY <2>1, <2>2, <2>5, GotoKeepsStore DEF Labels
  <1> QED BY <1>1, <1>2

LEMMA LoadFileKeepsStore ==
    ASSUME StoreInv, NEW t \in Threads, NEW f \in Files,
           NEW l \in {"loadAtoms", "loadUrls", "loadTrust"},
           NEW next \in {"loadUrls", "loadTrust", "swap"}, LoadFile(t, l, f, next)
    PROVE  StoreInv'
  <1>1. CASE IoFails /\ Fail(t) /\ UNCHANGED <<fileVars, memVars>>
    BY <1>1, FailKeepsStore
  <1>2. CASE /\ pc[t] = l
             /\ pc' = [pc EXCEPT ![t] = next]
             /\ buf' = [buf EXCEPT ![t][f] = disk[f]]
             /\ UNCHANGED <<lock, req, file, snap, done, crossed, ghostVars>>
             /\ UNCHANGED <<fileVars, memVars>>
    <2>0. FileTypes /\ ThreadTypes /\ RestTypes /\ Shape(t) BY TypeParts DEF StoreInv
    <2>1. FileTypes' BY <2>0, <1>2 DEF FileTypes, fileVars
    <2>2. RestTypes' BY <2>0, <1>2 DEF RestTypes, memVars, ghostVars
    <2>3. ThreadTypes'
      <3>1. [buf[t] EXCEPT ![f] = disk[f]] \in Contents
        BY <2>0 DEF ThreadTypes, FileTypes, Contents
      <3> QED BY <2>0, <1>2, <3>1 DEF ThreadTypes, Labels
    <2>4. Alone(t) BY <2>0, <1>2 DEF Alone, ThreadTypes
    <2>5. /\ pc'[t] = next /\ req'[t] = req[t] /\ file'[t] = file[t]
          /\ done'[t] = done[t] /\ disk' = disk /\ durable' = durable /\ lock' = lock
      BY <2>0, <1>2 DEF ThreadTypes, fileVars
    <2>6. Shape(t)'
      <3>1. LockShape(t)' BY <2>0, <1>2, <2>5 DEF Shape, LockShape, Holding, Loading
      <3>2. ReqShape(t)' BY <2>0, <2>5 DEF Shape, ReqShape
      <3>3. SnapShape(t)' /\ BufShape(t)' BY <2>5 DEF SnapShape, BufShape
      <3>4. DoneShape(t)' BY <2>0, <2>5 DEF Shape, DoneShape, OnAny
      <3>5. WrittenShape(t)' BY <2>0, <1>2, <2>5 DEF Shape, WrittenShape, Loading
      <3> QED BY <3>1, <3>2, <3>3, <3>4, <3>5 DEF Shape
    <2> QED BY <1>2, <2>1, <2>2, <2>3, <2>4, <2>6, StepKeepsStore
  <1> QED BY <1>1, <1>2 DEF LoadFile

LEMMA SwapKeepsStore ==
    ASSUME StoreInv, NEW t \in Threads, Swap(t)
    PROVE  StoreInv'
  <1>0. ThreadTypes /\ RestTypes /\ Shape(t) BY TypeParts DEF StoreInv
  <1>1. /\ pc[t] = "swap" /\ mem' = buf[t] /\ known' = TRUE /\ Goto(t, "mark")
        /\ lagging' = (t \in crossed) /\ UNCHANGED <<fileVars, loaded, session, lock, promised, lent, owed>>
    BY DEF Swap
  <1>2. RestTypes' BY <1>0, <1>1 DEF RestTypes, ThreadTypes
  <1>3. /\ pc'[t] = "mark" /\ req'[t] = req[t] /\ file'[t] = file[t]
        /\ done'[t] = done[t] /\ disk' = disk /\ durable' = durable /\ lock' = lock
    BY <1>0, <1>1 DEF Goto, ThreadTypes, fileVars
  <1>4. Shape(t)'
    BY <1>0, <1>1, <1>3 DEF Shape, LockShape, Holding, ReqShape, SnapShape, BufShape,
       DoneShape, WrittenShape, OnAny, Loading
  <1> QED BY <1>1, <1>2, <1>4, GotoKeepsStore DEF Labels

\* The response to a request that wrote its file.
LEMMA AcknowledgeKeepsStore ==
    ASSUME StoreInv, NEW t \in Threads, Acknowledge(t), UNCHANGED fileVars,
           mem' \in Contents, known' \in BOOLEAN, loaded' \in BOOLEAN,
           session' \subseteq Blocks \cup Hashes
    PROVE  StoreInv'
  <1>0. ThreadTypes /\ RestTypes BY TypeParts DEF StoreInv
  <1>1. Reply(t) BY DEF Acknowledge
  <1>2. promised' \subseteq Items
    BY <1>0, PromiseItems DEF Acknowledge, RestTypes
  <1>3. RestTypes' BY <1>0, <1>2 DEF RestTypes, Acknowledge
  <1> QED BY <1>1, <1>3, ReplyKeepsStore

LEMMA MarkKeepsStore ==
    ASSUME StoreInv, NEW t \in Threads, Mark(t)
    PROVE  StoreInv'
  <1>0. ThreadTypes /\ RestTypes /\ Shape(t) BY TypeParts DEF StoreInv
  <1>1. pc[t] = "mark" /\ loaded' = TRUE /\ UNCHANGED <<fileVars, mem, known, session>>
    BY DEF Mark
  <1>2. CASE req[t].op = "sessionWrite"
    <2>1. Goto(t, "clean") /\ UNCHANGED <<lock, ghostVars>> BY <1>2 DEF Mark
    <2>2. RestTypes' BY <1>0, <1>1, <2>1 DEF RestTypes, ghostVars
    <2>3. /\ pc'[t] = "clean" /\ req'[t] = req[t] /\ file'[t] = file[t]
          /\ done'[t] = done[t] /\ disk' = disk /\ durable' = durable /\ lock' = lock
      BY <1>0, <1>1, <2>1 DEF Goto, ThreadTypes, fileVars
    <2>4. Shape(t)'
      BY <1>0, <1>1, <1>2, <2>3 DEF Shape, LockShape, Holding, ReqShape, SnapShape, BufShape,
         DoneShape, WrittenShape, OnAny, Loading
    <2> QED BY <1>1, <2>1, <2>2, <2>4, GotoKeepsStore DEF Labels
  <1>3. CASE req[t].op # "sessionWrite"
    <2>1. Acknowledge(t) BY <1>3 DEF Mark
    <2> QED BY <1>0, <1>1, <2>1, AcknowledgeKeepsStore DEF RestTypes
  <1> QED BY <1>2, <1>3

LEMMA CleanKeepsStore ==
    ASSUME StoreInv, NEW t \in Threads, Clean(t)
    PROVE  StoreInv'
  <1>0. RestTypes BY TypeParts DEF StoreInv
  <1>1. /\ Acknowledge(t) /\ session' = session \ done[t]
        /\ UNCHANGED <<fileVars, mem, known, loaded>>
    BY DEF Clean
  <1> QED BY <1>0, <1>1, AcknowledgeKeepsStore DEF RestTypes

LEMMA ThreadStepKeepsStore ==
    ASSUME StoreInv, NEW t \in Threads, Step(t)
    PROVE  StoreInv'
  <1>1. ASSUME Load(t) PROVE StoreInv'
    BY <1>1, LoadFileKeepsStore DEF Load, Files
  <1> QED
    BY <1>1, LockKeepsStore, ReadKeepsStore, AddItemKeepsStore, RemoveAtomKeepsStore,
       SyncKeepsStore, SnapUrlsKeepsStore, SaveUrlsKeepsStore, SnapTrustKeepsStore,
       SaveTrustKeepsStore, CleanKeepsStore, CheckKeepsStore, SwapKeepsStore, MarkKeepsStore
    DEF Step

\* The next daemon starts from the files alone.
LEMMA RestartKeepsStore ==
    ASSUME StoreInv, Restart, FileTypes', promised' \subseteq promised, lent' \subseteq lent
    PROVE  StoreInv'
  <1>0. RestTypes BY TypeParts DEF StoreInv
  <1>1. RestTypes' BY <1>0, EmptyContents DEF RestTypes, Restart
  <1>2. ThreadTypes' BY EmptyContents DEF Restart, ThreadTypes, Labels, Files
  <1>3. ASSUME NEW t \in Threads PROVE Shape(t)'
    <2>1. pc'[t] = "idle" /\ req'[t] = NoRequest /\ lock' # t /\ done'[t] = {}
      BY TrustStoreAssumption DEF Restart
    <2>2. req'[t].op = "none" BY <2>1 DEF NoRequest
    <2> QED
      BY <2>1, <2>2 DEF Shape, LockShape, Holding, ReqShape, SnapShape, BufShape, DoneShape,
         WrittenShape, Loading
  <1>4. TypeOK' BY <1>1, <1>2 DEF TypeOK, FileTypes, ThreadTypes, RestTypes
  <1> QED BY <1>3, <1>4 DEF StoreInv

LEMMA PowerLossFiles ==
    ASSUME StoreInv, PowerLoss
    PROVE  /\ durable' = disk' /\ FileTypes'
           /\ promised' \subseteq promised \ lent /\ lent' \subseteq lent
           /\ \A f \in Files : disk'[f] \in {disk[f], durable[f], {}}
           /\ promised' = {} \/ \A f \in Files : disk'[f] \in {disk[f], durable[f]}
  <1>0. FileTypes BY TypeParts DEF StoreInv
  <1>1. durable' = disk' /\ lent' = {} /\ rooted' = rooted BY DEF PowerLoss
  <1>2. CASE RenamesUndone
    <2>1. PICK undone \in SUBSET Files :
            disk' = [f \in Files |-> IF f \in undone THEN durable[f] ELSE disk[f]]
      BY <1>2 DEF RenamesUndone
    <2>2. disk' \in Contents BY <1>0, <2>1 DEF FileTypes, Contents
    <2> QED BY <1>0, <1>1, <1>2, <2>1, <2>2 DEF FileTypes, RenamesUndone
  <1>3. CASE DirectoryLost
    <2>1. disk' = Empty /\ promised' = {} BY <1>3 DEF DirectoryLost
    <2> QED BY <1>0, <1>1, <2>1, EmptyContents DEF FileTypes, Empty
  <1> QED BY <1>2, <1>3 DEF PowerLoss

\* The steps of the daemon as a whole and of its surroundings leave the
\* threads alone.
LEMMA OutsideKeepsStore ==
    ASSUME StoreInv, UNCHANGED <<disk, lock, threadVars>>, FileTypes', RestTypes',
           \A f \in Files : durable'[f] \in {durable[f], disk[f]}
    PROVE  StoreInv'
  <1>0. ThreadTypes BY TypeParts DEF StoreInv
  <1>1. ThreadTypes' BY <1>0 DEF ThreadTypes, threadVars
  <1>2. TypeOK' BY <1>1 DEF TypeOK, FileTypes, ThreadTypes, RestTypes
  <1>3. ASSUME NEW t \in Threads PROVE Shape(t)'
    <2>1. LockShape(t)' /\ ReqShape(t)' /\ SnapShape(t)' /\ BufShape(t)'
      BY DEF StoreInv, Shape, LockShape, Holding, ReqShape, SnapShape, BufShape, threadVars
    <2>2. DoneShape(t)' BY DEF StoreInv, Shape, DoneShape, OnAny, threadVars
    <2>3. WrittenShape(t)'
      BY <1>0 DEF StoreInv, Shape, WrittenShape, ThreadTypes, threadVars, Loading
    <2> QED BY <2>1, <2>2, <2>3 DEF Shape
  <1> QED BY <1>2, <1>3 DEF StoreInv

LEMMA StoreNext ==
    ASSUME StoreInv, [Next]_vars
    PROVE  StoreInv'
  <1>0. FileTypes /\ RestTypes BY TypeParts DEF StoreInv
  <1>1. ASSUME NEW t \in Threads, NEW r \in Arriving, Receive(t, r) PROVE StoreInv'
    BY <1>1, ReceiveKeepsStore DEF Arriving
  <1>2. ASSUME NEW t \in Threads, Step(t) PROVE StoreInv' BY <1>2, ThreadStepKeepsStore
  <1>3. ASSUME NEW i \in Blocks \cup Hashes, SessionAdd(i) PROVE StoreInv'
    <2>1. /\ session' = session \cup {i} /\ known' = TRUE
          /\ owed' \subseteq owed \cup {i}
          /\ UNCHANGED <<fileVars, mem, loaded, lock, threadVars, promised, lent, lagging>>
      BY <1>3 DEF SessionAdd
    <2>2. RestTypes' BY <1>0, <2>1 DEF RestTypes
    <2>3. FileTypes' BY <1>0, <2>1 DEF FileTypes, fileVars
    <2> QED BY <2>1, <2>2, <2>3, OutsideKeepsStore DEF fileVars
  <1>4. ASSUME SessionClear PROVE StoreInv'
    <2>1. RestTypes' BY <1>0, <1>4 DEF SessionClear, RestTypes
    <2>2. FileTypes' BY <1>0, <1>4 DEF SessionClear, FileTypes, fileVars
    <2> QED BY <1>4, <2>1, <2>2, OutsideKeepsStore DEF SessionClear, fileVars
  <1>5. ASSUME Kill PROVE StoreInv'
    BY <1>0, <1>5, RestartKeepsStore DEF Kill, fileVars, FileTypes
  <1>6. ASSUME PowerLoss PROVE StoreInv'
    BY <1>6, PowerLossFiles, RestartKeepsStore DEF PowerLoss
  <1>7. ASSUME NEW f \in Files, WriteBack(f) PROVE StoreInv'
    <2>1. durable' = [durable EXCEPT ![f] = disk[f]]
          /\ UNCHANGED <<disk, rooted, memVars, lock, threadVars, ghostVars>>
      BY <1>7 DEF WriteBack
    <2>2. RestTypes' BY <1>0, <2>1 DEF RestTypes, memVars, ghostVars
    <2>3. FileTypes' BY <1>0, <2>1 DEF FileTypes, Contents
    <2>4. \A g \in Files : durable'[g] \in {durable[g], disk[g]}
      BY <1>0, <2>1 DEF FileTypes, Contents
    <2> QED BY <2>1, <2>2, <2>3, <2>4, OutsideKeepsStore
  <1>8. ASSUME UNCHANGED vars PROVE StoreInv'
    <2>1. RestTypes' /\ FileTypes'
      BY <1>0, <1>8 DEF RestTypes, FileTypes, vars, fileVars, memVars, ghostVars
    <2> QED BY <1>8, <2>1, OutsideKeepsStore DEF vars, fileVars
  <1>9. ASSUME WriteBackParent PROVE StoreInv'
    <2>1. RestTypes' /\ FileTypes'
      BY <1>0, <1>9 DEF WriteBackParent, RestTypes, FileTypes, memVars, ghostVars
    <2> QED BY <1>9, <2>1, OutsideKeepsStore DEF WriteBackParent
  <1> QED BY <1>1, <1>2, <1>3, <1>4, <1>5, <1>6, <1>7, <1>8, <1>9 DEF Next

\* The write lock of the uid serialises the mutations, and no interleaving of
\* them with lazy loads, faults, kills and power losses takes a variable out of
\* its type.
THEOREM TrustStoreTypeCorrect == Spec => []TypeOK
  <1>1. Init => StoreInv BY StoreInit
  <1>2. StoreInv /\ [Next]_vars => StoreInv' BY StoreNext
  <1>3. StoreInv => TypeOK BY DEF StoreInv
  <1> QED BY <1>1, <1>2, <1>3, PTL DEF Spec

-----------------------------------------------------------------------------
(* What the files say.                                                     *)

\* The content c that the mutation of t gives the file it read.
Writes(t, c) ==
    LET i == req[t].item
        old == disk[file[t]]
    IN
    \/ /\ req[t].op = "add" /\ c = With(old, i)
       /\ i \notin old \/ i \in Decisions
       /\ ~(i \in Hashes /\ TrustFull(old))
    \/ /\ req[t].op = "remove" /\ c = old \ {i}
    \/ /\ req[t].op = "sessionWrite" /\ file[t] = "urls"
       /\ c = (old \ {Opposite(d) : d \in snap[t]}) \cup snap[t]
    \/ /\ req[t].op = "sessionWrite" /\ file[t] = "trust"
       /\ \E room \in SUBSET (snap[t] \ old) :
            /\ room # {} /\ c = old \cup room
            /\ \A h \in snap[t] \ old : h \notin room <=> TrustFull(old \cup (room \ {h}))

\* The rename of a mutation.
Renames(t) ==
    /\ pc[t] = "modify" /\ lock = t
    /\ UNCHANGED <<durable, mem, known, loaded, session, lock, req, file, ghostVars>>
    /\ pc' = [pc EXCEPT ![t] = "sync"] /\ crossed' = crossed \cup Overtaken
    /\ \E c : Writes(t, c) /\ disk' = [disk EXCEPT ![file[t]] = c]

\* Every step of a mutation on a file it has read ends it, moves it on with
\* the files as they are, or is the rename.
LEMMA ModifySteps ==
    ASSUME StoreInv, NEW t \in Threads,
           AddItem(t) \/ RemoveAtom(t) \/ SaveUrls(t) \/ SaveTrust(t)
    PROVE  \/ Fail(t) /\ UNCHANGED <<fileVars, memVars>>
           \/ /\ AlreadyThere(t) /\ UNCHANGED <<fileVars, memVars>>
              /\ req[t].op = "add" /\ req[t].item \in disk[file[t]] /\ lock = t
           \/ /\ UNCHANGED <<fileVars, memVars, lock, req, file, buf, snap, crossed, ghostVars>>
              /\ \/ SaveUrls(t) /\ pc' = [pc EXCEPT ![t] = "snapTrust"]
                 \/ SaveTrust(t) /\ pc' = [pc EXCEPT ![t] = "loadAtoms"]
           \/ Renames(t)
  <1>0. FileTypes /\ ThreadTypes /\ Shape(t) BY TypeParts DEF StoreInv
  <1>1. pc[t] = "modify" /\ UNCHANGED memVars
    BY DEF AddItem, RemoveAtom, SaveUrls, SaveTrust
  <1>2. lock = t /\ buf[t][file[t]] = disk[file[t]]
    BY <1>0, <1>1 DEF Shape, LockShape, Holding, BufShape
  <1>3. ASSUME NEW c, NEW saved, Rename(t, c, saved), Writes(t, c)
        PROVE  (IoFails /\ Fail(t) /\ UNCHANGED fileVars) \/ Renames(t)
    BY <1>1, <1>2, <1>3 DEF Rename, Renames, memVars, ghostVars
  <1>4. CASE AddItem(t)
    <2> DEFINE content == buf[t][file[t]]
    <2>1. \/ Fail(t) /\ UNCHANGED fileVars
          \/ AlreadyThere(t) /\ UNCHANGED fileVars /\ req[t].item \in content
          \/ /\ req[t].item \notin content \/ req[t].item \in Decisions
             /\ ~(req[t].item \in Hashes /\ TrustFull(content))
             /\ Rename(t, With(content, req[t].item), {})
      BY <1>4 DEF AddItem
    <2>2. req[t].op = "add" BY <1>4 DEF AddItem
    <2> QED BY <1>1, <1>2, <1>3, <1>4, <2>1, <2>2 DEF Writes
  <1>5. CASE RemoveAtom(t)
    <2>1. req[t].op = "remove" BY <1>5 DEF RemoveAtom
    <2>2. req[t].item \in Atoms /\ file[t] = FileOf(req[t].item)
      BY <1>0, <2>1 DEF ThreadTypes, Requests, NoRequest, Adds, Removes, Shape, ReqShape
    <2>3. file[t] = "atoms" BY <2>2, FileOfItem DEF Items, Holds, Files
    <2>4. \/ Fail(t) /\ UNCHANGED fileVars
          \/ Rename(t, disk[file[t]] \ {req[t].item}, {})
      BY <1>2, <1>5, <2>3 DEF RemoveAtom
    <2> QED BY <1>1, <1>3, <1>5, <2>1, <2>4 DEF Writes
  <1>6. CASE SaveUrls(t)
    <2>1. req[t].op = "sessionWrite" /\ file[t] = "urls" BY <1>6 DEF SaveUrls
    <2>2. \/ /\ pc' = [pc EXCEPT ![t] = "snapTrust"]
             /\ UNCHANGED <<fileVars, lock, req, file, buf, snap, crossed, ghostVars>>
          \/ Rename(t, (disk[file[t]] \ {Opposite(d) : d \in snap[t]}) \cup snap[t], snap[t])
      BY <1>2, <1>6, <2>1 DEF SaveUrls
    <2> QED BY <1>1, <1>3, <1>6, <2>1, <2>2 DEF Writes
  <1>7. CASE SaveTrust(t)
    <2>1. req[t].op = "sessionWrite" /\ file[t] = "trust" BY <1>7 DEF SaveTrust
    <2> DEFINE content == disk[file[t]]
    <2>2. PICK room \in SUBSET (snap[t] \ content) :
            /\ \A h \in snap[t] \ content : h \notin room <=> TrustFull(content \cup (room \ {h}))
            /\ IF room = {}
               THEN /\ pc' = [pc EXCEPT ![t] = "loadAtoms"]
                    /\ UNCHANGED <<fileVars, lock, req, file, buf, snap, crossed, ghostVars>>
               ELSE Rename(t, content \cup room, SavedTrust(t, room))
      BY <1>2, <1>7, <2>1 DEF SaveTrust
    <2>3. CASE room = {} BY <1>1, <1>7, <2>2, <2>3
    <2>4. CASE room # {}
      <3>1. Writes(t, content \cup room) BY <2>1, <2>2, <2>4 DEF Writes
      <3> QED BY <1>1, <1>3, <2>2, <2>4, <3>1
    <2> QED BY <2>3, <2>4
  <1> QED BY <1>4, <1>5, <1>6, <1>7

\* How the files change: by the rename of the thread that holds the lock, by a
\* power loss, or as the kernel writes a directory back.
LEMMA FileSteps ==
    ASSUME StoreInv, [Next]_vars
    PROVE  \/ disk' = disk /\ \A f \in Files : durable'[f] \in {durable[f], disk[f]}
           \/ PowerLoss
           \/ \E t \in Threads : Renames(t)
  <1>0. FileTypes /\ ThreadTypes BY TypeParts DEF StoreInv
  <1>1. ASSUME NEW t \in Threads, Step(t)
        PROVE  \/ disk' = disk /\ \A f \in Files : durable'[f] \in {durable[f], disk[f]}
               \/ Renames(t)
    <2>1. CASE AddItem(t) \/ RemoveAtom(t) \/ SaveUrls(t) \/ SaveTrust(t)
      BY <2>1, ModifySteps DEF fileVars
    <2>2. CASE Sync(t)
      BY <1>0, <2>2 DEF Sync, FileTypes, Contents
    <2>3. CASE Lock(t) \/ Read(t) \/ SnapUrls(t) \/ SnapTrust(t) \/ Clean(t) \/ Check(t)
               \/ Load(t) \/ Swap(t) \/ Mark(t)
      BY <2>3 DEF Lock, Read, SnapUrls, SnapTrust, Clean, Check, Load, LoadFile, Swap, Mark, fileVars
    <2> QED BY <1>1, <2>1, <2>2, <2>3 DEF Step
  <1>2. ASSUME NEW f \in Files, WriteBack(f)
        PROVE  disk' = disk /\ \A g \in Files : durable'[g] \in {durable[g], disk[g]}
    BY <1>0, <1>2 DEF WriteBack, FileTypes, Contents
  <1>3. ASSUME NEW t \in Threads, NEW r \in Arriving, Receive(t, r) PROVE UNCHANGED fileVars
    BY <1>3 DEF Receive
  <1>4. ASSUME NEW i \in Blocks \cup Hashes, SessionAdd(i) PROVE UNCHANGED fileVars
    BY <1>4 DEF SessionAdd
  <1> QED BY <1>1, <1>2, <1>3, <1>4 DEF Next, SessionClear, Kill, WriteBackParent, vars, fileVars

\* A mutation keeps what a file may say.
LEMMA WritesFileOK ==
    ASSUME FilesInv, NEW t \in Threads, pc[t] = "modify", NEW c, Writes(t, c)
    PROVE  FileOK(file[t], c)
  <1> DEFINE i == req[t].item
             old == disk[file[t]]
  <1>0. FileTypes /\ ThreadTypes /\ Shape(t) BY TypeParts DEF FilesInv, StoreInv
  <1>1. /\ file[t] \in Files /\ FileOK(file[t], old)
        /\ old \subseteq Holds[file[t]]
    BY <1>0 DEF FilesInv, FileTypes, ThreadTypes, Contents
  <1>2. CASE file[t] = "urls"
    <2>1. old \subseteq Decisions /\ \A d \in old : Opposite(d) \notin old
      BY <1>1, <1>2 DEF Holds, FileOK
    <2>2. CASE req[t].op = "add" /\ c = With(old, i)
      <3>1. i \in Decisions
        <4>1. i \in Items /\ file[t] = FileOf(i)
          BY <1>0, <2>2 DEF ThreadTypes, Requests, NoRequest, Adds, Removes, Shape, ReqShape
        <4> QED BY <1>2, <4>1, FileOfItem DEF Holds
      <3>2. c = (old \ {Opposite(i)}) \cup {i} BY <2>2, <3>1 DEF With
      <3> QED BY <1>2, <2>1, <3>1, <3>2, OppositeOf DEF FileOK
    <2>3. CASE req[t].op = "remove" /\ c = old \ {i}
      BY <1>2, <2>1, <2>3 DEF FileOK
    <2>4. CASE c = (old \ {Opposite(d) : d \in snap[t]}) \cup snap[t] /\ req[t].op = "sessionWrite"
      <3>1. snap[t] \subseteq Blocks BY <1>0, <1>2, <2>4 DEF Shape, SnapShape
      <3>2. \A d \in snap[t] : d \in Decisions /\ Opposite(d) \in Decisions \ Blocks
        BY <3>1, OppositeOf, KindsApart
      <3>3. ASSUME NEW d \in c PROVE Opposite(d) \notin c
        <4>1. CASE d \in snap[t]
          BY <2>4, <3>1, <3>2, <4>1
        <4>2. CASE d \in old /\ d \notin {Opposite(e) : e \in snap[t]}
          <5>1. Opposite(d) \notin old BY <2>1, <4>2
          <5>2. Opposite(d) \notin snap[t] BY <2>1, <4>2, OppositeOf
          <5> QED BY <2>4, <5>1, <5>2
        <4> QED BY <2>4, <4>1, <4>2
      <3> QED BY <1>2, <3>3 DEF FileOK
    <2> QED BY <1>2, <2>2, <2>3, <2>4 DEF Writes
  <1>3. CASE file[t] = "trust"
    <2>1. old \subseteq Hashes /\ IsFiniteSet(old) /\ Cardinality(old) <= TrustCap
      BY <1>1, <1>3 DEF Holds, FileOK
    <2>2. CASE /\ req[t].op = "add" /\ c = With(old, i)
               /\ ~(i \in Hashes /\ TrustFull(old))
      <3>1. i \in Hashes
        <4>1. i \in Items /\ file[t] = FileOf(i)
          BY <1>0, <2>2 DEF ThreadTypes, Requests, NoRequest, Adds, Removes, Shape, ReqShape
        <4> QED BY <1>3, <4>1, FileOfItem DEF Holds
      <3>2. c = old \cup {i} BY <2>2, <3>1, KindsApart DEF With
      <3>3. ~(Cardinality(old) >= TrustCap) /\ Cardinality(old) \in Nat
        BY <2>1, <2>2, <3>1, FS_CardinalityType DEF TrustFull
      <3>4. /\ IsFiniteSet(c)
            /\ Cardinality(c) = Cardinality(old) \/ Cardinality(c) = Cardinality(old) + 1
        BY <2>1, <3>2, FS_AddElement
      <3> QED BY <1>3, <3>3, <3>4, TrustStoreAssumption DEF FileOK
    <2>3. CASE req[t].op = "remove" /\ c = old \ {i}
      <3>1. IsFiniteSet(c) /\ Cardinality(c) <= Cardinality(old)
        BY <2>1, <2>3, FS_Subset
      <3>2. Cardinality(c) \in Nat /\ Cardinality(old) \in Nat
        BY <2>1, <3>1, FS_CardinalityType
      <3> QED BY <1>3, <2>1, <3>1, <3>2, TrustStoreAssumption DEF FileOK
    <2>4. CASE \E room \in SUBSET (snap[t] \ old) :
                 /\ room # {} /\ c = old \cup room
                 /\ \A h \in snap[t] \ old : h \notin room <=> TrustFull(old \cup (room \ {h}))
      <3>1. PICK room \in SUBSET (snap[t] \ old) :
                 /\ room # {} /\ c = old \cup room
                 /\ \A h \in snap[t] \ old : h \notin room <=> TrustFull(old \cup (room \ {h}))
        BY <2>4
      <3>2. PICK h \in room : TRUE BY <3>1
      <3> DEFINE rest == old \cup (room \ {h})
      <3>3. IsFiniteSet(room \ {h})
        <4>1. IsFiniteSet(snap[t]) BY DEF FilesInv, SessionFinite
        <4> QED BY <4>1, FS_Subset
      <3>4. IsFiniteSet(rest) BY <2>1, <3>3, FS_Union
      <3>5. c = rest \cup {h} BY <3>1, <3>2
      <3>6. ~(Cardinality(rest) >= TrustCap) BY <3>1, <3>2 DEF TrustFull
      <3>7. Cardinality(rest) \in Nat BY <3>4, FS_CardinalityType
      <3> HIDE DEF rest
      <3>8. /\ IsFiniteSet(c)
            /\ Cardinality(c) = Cardinality(rest) \/ Cardinality(c) = Cardinality(rest) + 1
        BY <3>4, <3>5, FS_AddElement
      <3> QED BY <1>3, <3>6, <3>7, <3>8, TrustStoreAssumption DEF FileOK
    <2> QED BY <1>3, <2>2, <2>3, <2>4 DEF Writes
  <1>4. CASE file[t] = "atoms" BY <1>4 DEF FileOK
  <1> QED BY <1>1, <1>2, <1>3, <1>4 DEF Files

LEMMA SessionFiniteNext ==
    ASSUME StoreInv, SessionFinite, [Next]_vars
    PROVE  SessionFinite'
  <1>0. ThreadTypes BY TypeParts DEF StoreInv
  <1>1. IsFiniteSet({}) BY FS_EmptySet
  <1>2. \A c : IsFiniteSet(session \cap c) /\ IsFiniteSet(session \ c)
    BY FS_Subset DEF SessionFinite
  <1>3. ASSUME NEW t \in Threads, Reply(t), session' = session \/ session' = session \ done[t]
        PROVE  SessionFinite'
    BY <1>0, <1>1, <1>2, <1>3 DEF SessionFinite, Reply, ThreadTypes
  <1>4. ASSUME session' = session, snap' = snap PROVE SessionFinite'
    BY <1>4 DEF SessionFinite
  <1>5. ASSUME NEW t \in Threads, Step(t) PROVE SessionFinite'
    <2>1. CASE AddItem(t) \/ RemoveAtom(t) \/ SaveUrls(t) \/ SaveTrust(t)
      <3>1. ASSUME NEW c, NEW saved, Rename(t, c, saved), UNCHANGED memVars
            PROVE  SessionFinite'
        BY <1>0, <1>1, <1>3, <3>1 DEF Rename, Fail, SessionFinite, ThreadTypes, memVars
      <3>2. CASE AddItem(t) BY <3>1, <3>2, <1>3 DEF AddItem, Fail, AlreadyThere, memVars
      <3>3. CASE RemoveAtom(t) BY <3>1, <3>3, <1>3 DEF RemoveAtom, Fail, memVars
      <3>4. CASE SaveUrls(t) BY <3>1, <3>4, <1>4 DEF SaveUrls, memVars
      <3>5. CASE SaveTrust(t) BY <3>1, <3>5, <1>4 DEF SaveTrust, memVars
      <3> QED BY <2>1, <3>2, <3>3, <3>4, <3>5
    <2>2. CASE SnapUrls(t)
      <3>1. CASE Fail(t) BY <1>3, <2>2, <3>1 DEF SnapUrls, Fail, memVars
      <3>2. CASE snap' = [snap EXCEPT ![t] = session \cap Blocks]
        BY <1>0, <1>2, <2>2, <3>2 DEF SnapUrls, SessionFinite, ThreadTypes, memVars
      <3> QED BY <2>2, <3>1, <3>2 DEF SnapUrls
    <2>3. CASE SnapTrust(t)
      BY <1>0, <1>2, <2>3 DEF SnapTrust, SessionFinite, ThreadTypes, memVars
    <2>4. CASE Read(t) \/ Load(t) \/ Check(t)
      BY <1>3, <1>4, <2>4 DEF Read, Load, LoadFile, Check, Fail, Goto, memVars
    <2>5. CASE Mark(t) \/ Clean(t)
      BY <1>3, <1>4, <2>5 DEF Mark, Clean, Acknowledge, Goto
    <2>6. CASE Lock(t) \/ Sync(t) \/ Swap(t)
      BY <1>4, <2>6 DEF Lock, Sync, Swap, Goto, memVars
    <2> QED BY <1>5, <2>1, <2>2, <2>3, <2>4, <2>5, <2>6 DEF Step
  <1>6. ASSUME NEW i \in Blocks \cup Hashes, SessionAdd(i) PROVE SessionFinite'
    BY <1>6, FS_AddElement DEF SessionAdd, SessionFinite, threadVars
  <1>7. ASSUME SessionClear \/ Kill \/ PowerLoss PROVE SessionFinite'
    BY <1>1, <1>7 DEF SessionClear, Kill, PowerLoss, Restart, SessionFinite, threadVars
  <1>8. ASSUME NEW t \in Threads, NEW r \in Arriving, Receive(t, r) PROVE SessionFinite'
    BY <1>4, <1>8 DEF Receive, memVars
  <1>9. ASSUME NEW f \in Files, WriteBack(f) PROVE SessionFinite'
    BY <1>4, <1>9 DEF WriteBack, memVars, threadVars
  <1>10. ASSUME UNCHANGED vars PROVE SessionFinite'
    BY <1>4, <1>10 DEF vars, memVars, threadVars
  <1>11. ASSUME WriteBackParent PROVE SessionFinite'
    BY <1>4, <1>11 DEF WriteBackParent, memVars, threadVars
  <1> QED BY <1>5, <1>6, <1>7, <1>8, <1>9, <1>10, <1>11 DEF Next

LEMMA FilesNext ==
    ASSUME FilesInv, [Next]_vars
    PROVE  FilesInv'
  <1>0. StoreInv /\ StoreInv' /\ SessionFinite'
    BY StoreNext, SessionFiniteNext DEF FilesInv
  <1>1. CASE disk' = disk /\ \A f \in Files : durable'[f] \in {durable[f], disk[f]}
    BY <1>0, <1>1 DEF FilesInv
  <1>2. CASE PowerLoss
    <2>1. durable' = disk' /\ \A f \in Files : disk'[f] \in {disk[f], durable[f], {}}
      BY <1>0, <1>2, PowerLossFiles
    <2>2. \A f \in Files : FileOK(f, {})
      BY FS_EmptySet, TrustStoreAssumption DEF FileOK
    <2> QED BY <1>0, <2>1, <2>2 DEF FilesInv
  <1>3. ASSUME NEW t \in Threads, Renames(t) PROVE FilesInv'
    <2>1. PICK c : Writes(t, c) /\ disk' = [disk EXCEPT ![file[t]] = c]
      BY <1>3 DEF Renames
    <2>2. pc[t] = "modify" /\ durable' = durable BY <1>3 DEF Renames
    <2>3. FileOK(file[t], c) BY <2>1, <2>2, WritesFileOK
    <2>4. \A f \in Files : disk'[f] = IF f = file[t] THEN c ELSE disk[f]
      BY <1>0, <2>1, TypeParts DEF StoreInv, FileTypes, Contents
    <2> QED BY <1>0, <2>2, <2>3, <2>4 DEF FilesInv
  <1> QED BY <1>0, <1>1, <1>2, <1>3, FileSteps

LEMMA FilesInit == Init => FilesInv
  <1> SUFFICES ASSUME Init PROVE FilesInv OBVIOUS
  <1>1. \A f \in Files : disk[f] = {} /\ durable[f] = {} BY DEF Init, Empty
  <1>2. IsFiniteSet({}) /\ Cardinality({}) = 0 BY FS_EmptySet
  <1>3. SessionFinite BY <1>2 DEF Init, SessionFinite
  <1>4. \A f \in Files : FileOK(f, {})
    BY <1>2, TrustStoreAssumption DEF FileOK
  <1> QED BY <1>1, <1>3, <1>4, StoreInit DEF FilesInv

LEMMA FilesAlways == Spec => []FilesInv
  <1>1. Init => FilesInv BY FilesInit
  <1>2. FilesInv /\ [Next]_vars => FilesInv' BY FilesNext
  <1> QED BY <1>1, <1>2, PTL DEF Spec

\* urls.decisions.txt never says both allow and block of a host, whatever
\* fails and whichever renames a power loss undoes.
THEOREM UrlsSayOneThing == Spec => []OneDecisionPerHost
  <1>1. FilesInv => OneDecisionPerHost
    BY DEF FilesInv, FileOK, OneDecisionPerHost, Files
  <1> QED BY <1>1, FilesAlways, PTL

\* commands.trusted.txt stays within its cap, filled by single additions and
\* by session writes of any size.
THEOREM TrustFileBounded == Spec => []TrustCapKept
  <1>1. FilesInv => TrustCapKept BY DEF FilesInv, FileOK, TrustCapKept, Files
  <1> QED BY <1>1, FilesAlways, PTL

-----------------------------------------------------------------------------
(* What callers were promised.                                             *)

LEMMA StepAlone ==
    ASSUME StoreInv, NEW t \in Threads, Step(t)
    PROVE  Alone(t)
  <1>0. ThreadTypes BY TypeParts DEF StoreInv
  <1>1. Reply(t) => Alone(t) BY <1>0, TrustStoreAssumption DEF Alone, Reply, ThreadTypes
  <1>2. ASSUME NEW l, Goto(t, l), lock' = lock \/ (lock = NoThread /\ lock' = t) PROVE Alone(t)
    BY <1>0, <1>2, TrustStoreAssumption DEF Alone, Goto, ThreadTypes
  <1>3. ASSUME NEW c, NEW saved, Rename(t, c, saved) PROVE Alone(t)
    BY <1>0, <1>1, <1>3 DEF Rename, Fail, Alone, ThreadTypes
  <1>4. CASE AddItem(t) \/ RemoveAtom(t)
    BY <1>1, <1>3, <1>4 DEF AddItem, RemoveAtom, Fail, AlreadyThere
  <1>5. CASE SaveUrls(t)
    BY <1>0, <1>3, <1>5 DEF SaveUrls, Alone, ThreadTypes
  <1>6. CASE SaveTrust(t)
    BY <1>0, <1>3, <1>6 DEF SaveTrust, Alone, ThreadTypes
  <1>7. CASE SnapUrls(t)
    <2>1. CASE Fail(t) BY <1>1, <2>1 DEF Fail
    <2>2. CASE ~Fail(t) BY <1>0, <1>7, <2>2 DEF SnapUrls, Alone, ThreadTypes
    <2> QED BY <2>1, <2>2
  <1>8. CASE SnapTrust(t) BY <1>0, <1>8 DEF SnapTrust, Alone, ThreadTypes
  <1>9. CASE Read(t)
    BY <1>0, <1>1, <1>9 DEF Read, Fail, Alone, ThreadTypes
  <1>10. CASE Load(t)
    <2>1. ASSUME NEW l, NEW f, NEW next, LoadFile(t, l, f, next) PROVE Alone(t)
      BY <1>0, <1>1, <2>1 DEF LoadFile, Fail, Alone, ThreadTypes
    <2> QED BY <1>10, <2>1 DEF Load
  <1>11. CASE Mark(t) \/ Clean(t) \/ Check(t)
    BY <1>1, <1>2, <1>11 DEF Mark, Clean, Check, Acknowledge, Fail
  <1>12. CASE Lock(t) \/ Sync(t) \/ Swap(t)
    BY <1>2, <1>12 DEF Lock, Sync, Swap
  <1> QED BY <1>4, <1>5, <1>6, <1>7, <1>8, <1>9, <1>10, <1>11, <1>12 DEF Step

\* A step that makes, breaks and takes back no promise.
LEMMA QuietKeepsPromises ==
    ASSUME PromiseInv, StoreInv', NEW t \in Threads, Alone(t), req'[t] = req[t],
           UNCHANGED <<disk, session, promised, lent, owed>>,
           \A f \in Files : durable'[f] \in {durable[f], disk[f]},
           req[t].op = "sessionWrite" /\ pc'[t] \in {"read", "modify"} /\ file'[t] = "urls" =>
               pc[t] \in {"read", "modify"} /\ file[t] = "urls" /\ snap'[t] = snap[t]
    PROVE  PromiseInv'
  <1>1. ASSUME NEW u \in Threads PROVE Uncontradicted(u)'
    BY DEF PromiseInv, Uncontradicted, Alone
  <1>2. ASSUME NEW i \in promised PROVE Kept(i)'
    <2>1. FileOf(i) \in Files
      BY FileOfItem, TypeParts DEF PromiseInv, StoreInv, RestTypes
    <2> QED BY <2>1 DEF PromiseInv, Kept, SyncsHold, SyncFails, PowerFails
  <1>3. SessionNotLost' BY DEF PromiseInv, SessionNotLost, OnAny
  <1> QED BY <1>1, <1>2, <1>3 DEF PromiseInv

\* A thread is done: it contradicts nothing any more.
LEMMA ReplyKeepsPromises ==
    ASSUME PromiseInv, StoreInv', NEW t \in Threads, Alone(t), Reply(t),
           UNCHANGED <<fileVars, owed>>, lent \subseteq lent',
           session \subseteq session' \cup OnAny(disk),
           \A i \in promised' \ promised :
               /\ Kept(i)' /\ lock = t
               /\ \A u \in Threads \ {t} : i \notin Contradicts(req[u])
    PROVE  PromiseInv'
  <1>0. ThreadTypes BY TypeParts DEF PromiseInv, StoreInv
  <1>1. ASSUME NEW u \in Threads PROVE Uncontradicted(u)'
    <2>1. CASE u = t
      <3>1. req'[t] = NoRequest BY <1>0 DEF Reply, ThreadTypes
      <3>2. req'[t].op = "none" /\ Contradicts(req'[t]) = {}
        BY <3>1 DEF NoRequest, Contradicts
      <3> QED BY <2>1, <3>2 DEF Uncontradicted
    <2>2. CASE u # t
      <3>1. /\ pc'[u] = pc[u] /\ req'[u] = req[u] /\ file'[u] = file[u] /\ snap'[u] = snap[u]
        BY <2>2 DEF Alone
      <3>2. pc[u] \in {"read", "modify"} => promised' \subseteq promised
        BY <2>2 DEF PromiseInv, StoreInv, Shape, LockShape, Holding
      <3> QED BY <2>2, <3>1, <3>2 DEF PromiseInv, Uncontradicted
    <2> QED BY <2>1, <2>2
  <1>2. ASSUME NEW i \in promised' PROVE Kept(i)'
    BY <1>2 DEF PromiseInv, Kept, fileVars, SyncsHold, SyncFails, PowerFails
  <1>3. SessionNotLost' BY DEF PromiseInv, SessionNotLost, OnAny, fileVars
  <1> QED BY <1>1, <1>2, <1>3 DEF PromiseInv

LEMMA FailKeepsPromises ==
    ASSUME PromiseInv, StoreInv', NEW t \in Threads, Alone(t), Fail(t),
           UNCHANGED <<fileVars, memVars>>
    PROVE  PromiseInv'
  BY ReplyKeepsPromises DEF Fail, memVars

LEMMA AcknowledgeKeepsPromises ==
    ASSUME PromiseInv, StoreInv', NEW t \in Threads, Alone(t), Acknowledge(t),
           UNCHANGED fileVars, pc[t] \in {"mark", "clean"},
           session \subseteq session' \cup OnAny(disk)
    PROVE  PromiseInv'
  <1>0. ThreadTypes /\ Shape(t) BY TypeParts DEF PromiseInv, StoreInv
  <1>1. ASSUME NEW i \in promised' \ promised
        PROVE  /\ Kept(i)' /\ lock = t
               /\ \A u \in Threads \ {t} : i \notin Contradicts(req[u])
    <2>1. /\ req[t].op = "add" /\ i = req[t].item
          /\ \A u \in Threads \ {t} : i \notin Contradicts(req[u])
      BY <1>1 DEF Acknowledge, Promise
    <2>2. pc[t] = "mark" BY <1>0, <2>1 DEF Shape, ReqShape
    <2>3. lock = t BY <1>0, <2>1, <2>2 DEF Shape, LockShape, Holding, Loading
    <2>4. Kept(i)'
      BY <1>0, <2>1, <2>2 DEF Shape, ReqShape, WrittenShape, Kept, Loading, fileVars, SyncFails
    <2> QED BY <2>1, <2>3, <2>4
  <1>2. Reply(t) /\ UNCHANGED <<lent, owed>> BY DEF Acknowledge
  <1> QED BY <1>1, <1>2, ReplyKeepsPromises

\* The Ok for an item that was there.
LEMMA AlreadyThereKeepsPromises ==
    ASSUME PromiseInv, StoreInv', NEW t \in Threads, Alone(t), AlreadyThere(t),
           UNCHANGED <<fileVars, memVars>>,
           req[t].op = "add", req[t].item \in disk[file[t]], lock = t
    PROVE  PromiseInv'
  <1>0. ThreadTypes /\ Shape(t) BY TypeParts DEF PromiseInv, StoreInv
  <1>1. ASSUME NEW i \in promised' \ promised
        PROVE  Kept(i)' /\ \A u \in Threads \ {t} : i \notin Contradicts(req[u])
    <2>1. /\ i \in Promise(t) /\ i = req[t].item
          /\ \A u \in Threads \ {t} : i \notin Contradicts(req[u])
      BY <1>1 DEF AlreadyThere, Promise
    <2>2. file[t] = FileOf(i) BY <1>0, <2>1 DEF Shape, ReqShape
    <2>3. i \notin lent' => i \in durable[file[t]] BY <2>1 DEF AlreadyThere
    <2> QED BY <2>1, <2>2, <2>3 DEF Kept, fileVars, SyncFails
  <1> QED BY <1>1, ReplyKeepsPromises DEF AlreadyThere, memVars

\* A mutation removes nothing from its file that is promised or owed.
LEMMA WritesKeepPromised ==
    ASSUME PromiseInv, NEW t \in Threads, pc[t] = "modify", NEW c, Writes(t, c),
           NEW i \in disk[file[t]], i \in promised \/ i \in owed
    PROVE  i \in c
  <1> DEFINE old == disk[file[t]]
  <1>0. RestTypes /\ ThreadTypes /\ Shape(t) BY TypeParts DEF PromiseInv, StoreInv
  <1>1. Uncontradicted(t) BY DEF PromiseInv
  <1>2. CASE req[t].op = "add" /\ c = With(old, req[t].item)
    <2>1. Contradicts(req[t]) = {Opposite(d) : d \in {req[t].item} \cap Decisions}
      BY <1>2 DEF Contradicts
    <2> QED BY <1>1, <1>2, <2>1 DEF Uncontradicted, With
  <1>3. CASE req[t].op = "remove" /\ c = old \ {req[t].item}
    <2>1. Contradicts(req[t]) = {req[t].item} BY <1>3 DEF Contradicts
    <2> QED BY <1>1, <1>3, <2>1 DEF Uncontradicted
  <1>4. CASE /\ req[t].op = "sessionWrite" /\ file[t] = "urls"
             /\ c = (old \ {Opposite(d) : d \in snap[t]}) \cup snap[t]
    <2>1. snap[t] \subseteq Blocks BY <1>0, <1>4 DEF Shape, SnapShape
    <2>2. \A d \in snap[t] : Opposite(d) \in Decisions \ Blocks
      BY <2>1, OppositeOf, KindsApart
    <2>3. i \in owed => i \in Blocks \cup Hashes BY <1>0 DEF RestTypes
    <2>4. \A d \in snap[t] : Opposite(d) # i
      BY <1>1, <1>4, <2>2, <2>3, KindsApart DEF Uncontradicted
    <2> QED BY <1>4, <2>4
  <1>5. CASE \E room \in SUBSET (snap[t] \ old) : c = old \cup room BY <1>5
  <1> QED BY <1>2, <1>3, <1>4, <1>5 DEF Writes

LEMMA RenamesKeepPromises ==
    ASSUME PromiseInv, StoreInv', NEW t \in Threads, Alone(t), Renames(t)
    PROVE  PromiseInv'
  <1>0. FileTypes /\ ThreadTypes /\ RestTypes BY TypeParts DEF PromiseInv, StoreInv
  <1>1. /\ pc[t] = "modify" /\ UNCHANGED <<durable, session, req, file, promised, lent, owed>>
        /\ pc'[t] = "sync"
    BY <1>0 DEF Renames, ThreadTypes, ghostVars
  <1>2. PICK c : Writes(t, c) /\ disk' = [disk EXCEPT ![file[t]] = c] BY DEF Renames
  <1>3. \A f \in Files : disk'[f] = IF f = file[t] THEN c ELSE disk[f]
    BY <1>0, <1>2 DEF FileTypes, Contents
  <1>4. \A i \in disk[file[t]] : i \in promised \/ i \in owed => i \in c
    BY <1>1, <1>2, WritesKeepPromised
  <1>5. ASSUME NEW u \in Threads PROVE Uncontradicted(u)'
    BY <1>1 DEF PromiseInv, Uncontradicted, Alone
  <1>6. ASSUME NEW i \in promised PROVE Kept(i)'
    <2>1. FileOf(i) \in Files BY <1>0, FileOfItem DEF RestTypes
    <2> QED BY <1>1, <1>3, <1>4, <2>1 DEF PromiseInv, Kept, SyncsHold, SyncFails, PowerFails
  <1>7. SessionNotLost'
    <2>1. ASSUME NEW i \in owed, i \notin session PROVE \E f \in Files : i \in disk'[f]
      <3>1. PICK f \in Files : i \in disk[f] BY <2>1 DEF PromiseInv, SessionNotLost, OnAny
      <3> QED BY <1>3, <1>4, <3>1
    <2> QED BY <1>1, <2>1 DEF SessionNotLost, OnAny
  <1> QED BY <1>1, <1>5, <1>6, <1>7 DEF PromiseInv

\* session_write copies the blocks: the promises they contradict are off.
LEMMA SnapUrlsKeepsPromises ==
    ASSUME PromiseInv, StoreInv', NEW t \in Threads, Alone(t), SnapUrls(t)
    PROVE  PromiseInv'
  <1> DEFINE s == session \cap Blocks
  <1>0. ThreadTypes BY TypeParts DEF PromiseInv, StoreInv
  <1>1. CASE Fail(t) /\ UNCHANGED <<fileVars, memVars>> BY <1>1, FailKeepsPromises
  <1>2. CASE /\ snap' = [snap EXCEPT ![t] = s]
             /\ promised' = promised \ {Opposite(d) : d \in s}
             /\ UNCHANGED <<lock, req, file, buf, done, crossed, lent, owed, lagging>>
             /\ UNCHANGED <<fileVars, memVars>>
    <2>1. snap'[t] = s BY <1>0, <1>2 DEF ThreadTypes
    <2>2. \A d \in s : Opposite(d) \notin promised' BY <1>2
    <2>3. promised' \subseteq promised BY <1>2
    <2>4. ASSUME NEW u \in Threads PROVE Uncontradicted(u)'
      <3>1. CASE u = t
        BY <1>2, <2>1, <2>2, <2>3, <3>1 DEF PromiseInv, Uncontradicted
      <3>2. CASE u # t
        BY <1>2, <2>3, <3>2 DEF PromiseInv, Uncontradicted, Alone
      <3> QED BY <3>1, <3>2
    <2>5. ASSUME NEW i \in promised' PROVE Kept(i)'
      BY <1>2, <2>3 DEF PromiseInv, Kept, fileVars, SyncsHold, SyncFails, PowerFails
    <2>6. SessionNotLost'
      BY <1>2 DEF PromiseInv, SessionNotLost, OnAny, fileVars, memVars
    <2> QED BY <2>4, <2>5, <2>6 DEF PromiseInv
  <1> QED BY <1>1, <1>2 DEF SnapUrls

LEMMA ThreadStepKeepsPromises ==
    ASSUME PromiseInv, NEW t \in Threads, Step(t)
    PROVE  PromiseInv'
  <1>0. StoreInv /\ StoreInv' /\ Alone(t)
    BY ThreadStepKeepsStore, StepAlone DEF PromiseInv
  <1>1. FileTypes /\ ThreadTypes /\ Shape(t) BY <1>0, TypeParts DEF StoreInv
  <1>2. CASE AddItem(t) \/ RemoveAtom(t) \/ SaveUrls(t) \/ SaveTrust(t)
    <2>1. CASE Fail(t) /\ UNCHANGED <<fileVars, memVars>>
      BY <1>0, <2>1, FailKeepsPromises
    <2>4. CASE /\ AlreadyThere(t) /\ UNCHANGED <<fileVars, memVars>>
               /\ req[t].op = "add" /\ req[t].item \in disk[file[t]] /\ lock = t
      BY <1>0, <2>4, AlreadyThereKeepsPromises
    <2>2. CASE /\ UNCHANGED <<fileVars, memVars, lock, req, file, buf, snap, ghostVars>>
               /\ \/ pc' = [pc EXCEPT ![t] = "snapTrust"]
                  \/ pc' = [pc EXCEPT ![t] = "loadAtoms"]
      <3>1. pc'[t] \notin {"read", "modify"} BY <1>1, <2>2 DEF ThreadTypes
      <3> QED BY <1>0, <2>2, <3>1, QuietKeepsPromises DEF fileVars, memVars, ghostVars
    <2>3. CASE Renames(t) BY <1>0, <2>3, RenamesKeepPromises
    <2> QED BY <1>0, <1>2, <2>1, <2>2, <2>3, <2>4, ModifySteps
  <1>3. CASE Sync(t)
    <2>1. /\ UNCHANGED <<disk, session, promised, lent, owed>> /\ req'[t] = req[t]
          /\ pc'[t] \notin {"read", "modify"}
      BY <1>1, <1>3 DEF Sync, Goto, memVars, ghostVars, ThreadTypes
    <2>2. \A f \in Files : durable'[f] \in {durable[f], disk[f]}
      BY <1>1, <1>3 DEF Sync, FileTypes, Contents
    <2> QED BY <1>0, <2>1, <2>2, QuietKeepsPromises
  <1>4. CASE Lock(t)
    <2>1. /\ UNCHANGED <<disk, durable, session, promised, lent, owed>> /\ req'[t] = req[t]
          /\ pc'[t] \in {"read", "modify"} => req[t].op # "sessionWrite"
      BY <1>1, <1>4 DEF Lock, Goto, fileVars, memVars, ghostVars, ThreadTypes
    <2> QED BY <1>0, <2>1, QuietKeepsPromises
  <1>5. CASE Read(t)
    <2>1. CASE Fail(t) BY <1>0, <1>5, <2>1, FailKeepsPromises DEF Read
    <2>2. CASE ~Fail(t)
      <3>1. /\ pc[t] = "read" /\ UNCHANGED <<disk, durable, session, promised, lent, owed, req, file, snap>>
        BY <1>5, <2>2 DEF Read, fileVars, memVars, ghostVars
      <3> QED BY <1>0, <3>1, QuietKeepsPromises
    <2> QED BY <2>1, <2>2
  <1>6. CASE SnapUrls(t) BY <1>0, <1>6, SnapUrlsKeepsPromises
  <1>7. CASE SnapTrust(t)
    <2>1. /\ UNCHANGED <<disk, durable, session, promised, lent, owed, req>> /\ file'[t] = "trust"
      BY <1>1, <1>7 DEF SnapTrust, fileVars, memVars, ghostVars, ThreadTypes
    <2> QED BY <1>0, <2>1, QuietKeepsPromises
  <1>8. CASE Check(t) \/ Load(t) \/ Swap(t)
    <2>1. CASE Fail(t)
      <3>1. UNCHANGED <<fileVars, memVars>> \/ Swap(t)
        BY <1>8 DEF Check, Load, LoadFile
      <3>2. ~Swap(t)
        BY <1>1, <2>1 DEF Swap, Goto, Fail, Reply, ThreadTypes
      <3> QED BY <1>0, <2>1, <3>1, <3>2, FailKeepsPromises
    <2>2. CASE ~Fail(t)
      <3>1. /\ UNCHANGED <<disk, durable, session, promised, lent, owed, req>>
            /\ pc'[t] \in Loading
        BY <1>1, <1>8, <2>2
        DEF Check, Load, LoadFile, Swap, Goto, fileVars, memVars, ghostVars, ThreadTypes, Loading
      <3> QED BY <1>0, <3>1, QuietKeepsPromises DEF Loading
    <2> QED BY <2>1, <2>2
  <1>9. CASE Mark(t)
    <2>1. pc[t] = "mark" /\ UNCHANGED <<fileVars, session>> BY <1>9 DEF Mark
    <2>2. CASE req[t].op = "sessionWrite"
      <3>1. /\ UNCHANGED <<disk, durable, session, promised, lent, owed, req>> /\ pc'[t] = "clean"
        BY <1>1, <1>9, <2>2 DEF Mark, Goto, fileVars, ghostVars, ThreadTypes
      <3> QED BY <1>0, <3>1, QuietKeepsPromises
    <2>3. CASE req[t].op # "sessionWrite"
      <3>1. Acknowledge(t) BY <1>9, <2>3 DEF Mark
      <3> QED BY <1>0, <2>1, <3>1, AcknowledgeKeepsPromises
    <2> QED BY <2>2, <2>3
  <1>10. CASE Clean(t)
    <2>1. /\ pc[t] = "clean" /\ Acknowledge(t) /\ session' = session \ done[t]
          /\ UNCHANGED fileVars
      BY <1>10 DEF Clean
    <2>2. session \subseteq session' \cup OnAny(disk)
      BY <1>1, <2>1 DEF Shape, DoneShape
    <2> QED BY <1>0, <2>1, <2>2, AcknowledgeKeepsPromises
  <1> QED BY <1>2, <1>3, <1>4, <1>5, <1>6, <1>7, <1>8, <1>9, <1>10 DEF Step

\* A restart keeps the promises if the files keep what is promised.
LEMMA RestartKeepsPromises ==
    ASSUME PromiseInv, StoreInv', Restart, promised' \subseteq promised,
           \A i \in promised' : Kept(i)'
    PROVE  PromiseInv'
  <1>1. owed' = {} BY DEF Restart
  <1>2. ASSUME NEW u \in Threads PROVE Uncontradicted(u)'
    <2>1. req'[u] = NoRequest BY DEF Restart
    <2>2. req'[u].op = "none" /\ Contradicts(req'[u]) = {} BY <2>1 DEF NoRequest, Contradicts
    <2> QED BY <1>1, <2>2 DEF Uncontradicted
  <1>3. SessionNotLost' BY <1>1 DEF SessionNotLost
  <1> QED BY <1>2, <1>3 DEF PromiseInv

LEMMA PromiseNext ==
    ASSUME PromiseInv, [Next]_vars
    PROVE  PromiseInv'
  <1>0. StoreInv /\ StoreInv' BY StoreNext DEF PromiseInv
  <1>00. FileTypes /\ ThreadTypes /\ RestTypes BY <1>0, TypeParts DEF StoreInv
  <1>1. ASSUME NEW t \in Threads, NEW r \in Arriving, Receive(t, r) PROVE PromiseInv'
    <2>1. /\ req' = [req EXCEPT ![t] = r] /\ pc'[t] \in {"check", "lock"}
          /\ promised' = promised \ Contradicts(r) /\ owed' = owed \ Contradicts(r)
          /\ lent' = lent \ Contradicts(r)
          /\ UNCHANGED <<disk, durable, session, snap>>
      BY <1>00, <1>1 DEF Receive, ThreadTypes, fileVars, memVars
    <2>2. \A u \in Threads \ {t} : /\ pc'[u] = pc[u] /\ req'[u] = req[u] /\ file'[u] = file[u]
      BY <1>00, <1>1 DEF Receive, ThreadTypes
    <2>3. ASSUME NEW u \in Threads PROVE Uncontradicted(u)'
      <3>1. CASE u = t BY <1>00, <2>1, <3>1 DEF Uncontradicted, ThreadTypes
      <3>2. CASE u # t BY <2>1, <2>2, <3>2 DEF PromiseInv, Uncontradicted
      <3> QED BY <3>1, <3>2
    <2>4. ASSUME NEW i \in promised' PROVE Kept(i)'
      BY <2>1 DEF PromiseInv, Kept, SyncsHold, SyncFails, PowerFails
    <2>5. SessionNotLost' BY <2>1 DEF PromiseInv, SessionNotLost, OnAny
    <2> QED BY <1>0, <2>3, <2>4, <2>5 DEF PromiseInv
  <1>2. ASSUME NEW t \in Threads, Step(t) PROVE PromiseInv'
    BY <1>2, ThreadStepKeepsPromises
  <1>3. ASSUME NEW i \in Blocks \cup Hashes, SessionAdd(i) PROVE PromiseInv'
    <2>1. /\ session' = session \cup {i}
          /\ owed' = owed \cup {d \in {i} : \A t \in Threads : d \notin Contradicts(req[t])}
          /\ UNCHANGED <<disk, durable, pc, req, file, snap, promised, lent>>
      BY <1>3 DEF SessionAdd, fileVars, threadVars
    <2>2. ASSUME NEW u \in Threads PROVE Uncontradicted(u)'
      BY <2>1 DEF PromiseInv, Uncontradicted
    <2>3. ASSUME NEW j \in promised' PROVE Kept(j)'
      BY <2>1 DEF PromiseInv, Kept, SyncsHold, SyncFails, PowerFails
    <2>4. SessionNotLost' BY <2>1 DEF PromiseInv, SessionNotLost, OnAny
    <2> QED BY <1>0, <2>2, <2>3, <2>4 DEF PromiseInv
  <1>4. ASSUME SessionClear PROVE PromiseInv'
    <2>1. owed' = {} /\ UNCHANGED <<disk, durable, pc, req, file, snap, promised, lent>>
      BY <1>4 DEF SessionClear, fileVars, threadVars
    <2>2. ASSUME NEW u \in Threads PROVE Uncontradicted(u)'
      BY <2>1 DEF PromiseInv, Uncontradicted
    <2>3. ASSUME NEW j \in promised' PROVE Kept(j)'
      BY <2>1 DEF PromiseInv, Kept, SyncsHold, SyncFails, PowerFails
    <2>4. SessionNotLost' BY <2>1 DEF SessionNotLost
    <2> QED BY <1>0, <2>2, <2>3, <2>4 DEF PromiseInv
  <1>5. ASSUME Kill PROVE PromiseInv'
    <2>1. Restart /\ UNCHANGED <<disk, durable, promised, lent>> BY <1>5 DEF Kill, fileVars
    <2>2. \A i \in promised' : Kept(i)' BY <2>1 DEF PromiseInv, Kept, SyncsHold, SyncFails, PowerFails
    <2> QED BY <1>0, <2>1, <2>2, RestartKeepsPromises
  <1>6. ASSUME PowerLoss PROVE PromiseInv'
    <2>1. /\ durable' = disk' /\ promised' \subseteq promised \ lent
          /\ promised' = {} \/ \A f \in Files : disk'[f] \in {disk[f], durable[f]}
      BY <1>0, <1>6, PowerLossFiles
    <2>2. Restart /\ PowerFails BY <1>6 DEF PowerLoss
    <2>3. ASSUME NEW i \in promised' PROVE Kept(i)'
      <3>1. FileOf(i) \in Files BY <1>00, <2>1, FileOfItem DEF RestTypes
      <3>2. Kept(i) /\ i \notin lent BY <2>1 DEF PromiseInv
      <3>3. \A f \in Files : disk'[f] \in {disk[f], durable[f]} BY <2>1
      <3> QED BY <2>1, <2>2, <3>1, <3>2, <3>3 DEF Kept, SyncsHold, SyncFails, PowerFails
    <2> QED BY <1>0, <2>1, <2>2, <2>3, RestartKeepsPromises
  <1>7. ASSUME NEW f \in Files, WriteBack(f) PROVE PromiseInv'
    <2>1. UNCHANGED <<disk, session, pc, req, file, snap, promised, lent, owed>>
      BY <1>7 DEF WriteBack, memVars, threadVars, ghostVars
    <2>2. \A g \in Files : durable'[g] \in {durable[g], disk[g]}
      BY <1>00, <1>7 DEF WriteBack, FileTypes, Contents
    <2>3. ASSUME NEW u \in Threads PROVE Uncontradicted(u)'
      BY <2>1 DEF PromiseInv, Uncontradicted
    <2>4. ASSUME NEW j \in promised' PROVE Kept(j)'
      <3>1. FileOf(j) \in Files BY <1>00, <2>1, FileOfItem DEF RestTypes
      <3> QED BY <2>1, <2>2, <3>1 DEF PromiseInv, Kept, SyncsHold, SyncFails, PowerFails
    <2>5. SessionNotLost' BY <2>1 DEF PromiseInv, SessionNotLost, OnAny
    <2> QED BY <1>0, <2>3, <2>4, <2>5 DEF PromiseInv
  <1>8. ASSUME UNCHANGED vars PROVE PromiseInv'
    BY <1>0, <1>8 DEF PromiseInv, Uncontradicted, Kept, SessionNotLost, OnAny, SyncsHold,
       SyncFails, PowerFails, vars, fileVars, memVars, threadVars, ghostVars
  <1>9. ASSUME WriteBackParent PROVE PromiseInv'
    BY <1>0, <1>9 DEF WriteBackParent, PromiseInv, Uncontradicted, Kept, SessionNotLost, OnAny,
       SyncsHold, SyncFails, PowerFails, memVars, threadVars, ghostVars
  <1> QED BY <1>1, <1>2, <1>3, <1>4, <1>5, <1>6, <1>7, <1>8, <1>9 DEF Next

LEMMA PromiseAlways == Spec => []PromiseInv
  <1>1. Init => PromiseInv
    <2> SUFFICES ASSUME Init PROVE PromiseInv OBVIOUS
    <2>1. promised = {} /\ owed = {} BY DEF Init
    <2>2. \A t \in Threads : Uncontradicted(t) BY <2>1 DEF Uncontradicted
    <2> QED BY <2>1, <2>2, StoreInit DEF PromiseInv, SessionNotLost
  <1>2. PromiseInv /\ [Next]_vars => PromiseInv' BY PromiseNext
  <1> QED BY <1>1, <1>2, PTL DEF Spec

\* write_atomic and the write lock: what was acknowledged as added is on disk
\* until someone asks for the contrary, through concurrent writers, failed
\* operations, kills and those power losses that leave the directory of the uid.
THEOREM AcknowledgedAdditionsPersist ==
    ASSUME SyncsHold
    PROVE  Spec => []AckedPersists
  <1>1. PromiseInv => AckedPersists
    <2> SUFFICES ASSUME PromiseInv, NEW i \in promised PROVE i \in OnAny(disk)
      BY DEF AckedPersists
    <2>1. FileOf(i) \in Files BY FileOfItem, TypeParts DEF PromiseInv, StoreInv, RestTypes
    <2> QED BY <2>1 DEF PromiseInv, Kept, OnAny
  <1> QED BY <1>1, PromiseAlways, PTL

\* session_write: a session decision that was acknowledged and not cleared is
\* in the session or on disk, also when the write stops half way or the trust
\* file is full.
THEOREM SessionDecisionsKept == Spec => []SessionNotLost
  <1>1. PromiseInv => SessionNotLost BY DEF PromiseInv
  <1> QED BY <1>1, PromiseAlways, PTL

-----------------------------------------------------------------------------
(* The memory layer.                                                       *)

\* A thread that stays where it is keeps what it has read: a rename overtakes the
\* lazy loads, and the others that load hold the lock the rename is made under.
LEMMA OthersKeepLoad ==
    ASSUME MemoryInv, NEW t \in Threads, Alone(t),
           \/ disk' = disk /\ crossed' \in {crossed, crossed \ {t}}
           \/ lock = t /\ crossed' = crossed \cup Overtaken,
           NEW u \in Threads \ {t}
    PROVE  LoadShape(u)'
  <1>0. LoadShape(u) /\ LockShape(u) BY DEF MemoryInv, StoreInv, Shape
  <1>1. pc'[u] = pc[u] /\ req'[u] = req[u] /\ buf'[u] = buf[u] BY DEF Alone
  <1>2. CASE disk' = disk /\ crossed' \in {crossed, crossed \ {t}}
    BY <1>0, <1>1, <1>2 DEF LoadShape
  <1>3. CASE lock = t /\ crossed' = crossed \cup Overtaken
    <2>1. u \in crossed' => req'[u].op = "ensure" BY <1>0, <1>1, <1>3 DEF LoadShape, Overtaken
    <2>2. pc[u] \in {"loadUrls", "loadTrust", "swap"} => u \in Overtaken
      BY <1>0, <1>3 DEF LockShape, Holding, Loading, Overtaken
    <2> QED BY <1>1, <1>3, <2>1, <2>2 DEF LoadShape
  <1> QED BY <1>2, <1>3

\* A step that touches neither the files nor the layer.
LEMMA QuietKeepsMemory ==
    ASSUME MemoryInv, StoreInv', NEW t \in Threads, Alone(t),
           UNCHANGED <<disk, mem>>, crossed' \in {crossed, crossed \ {t}},
           LoadShape(t)', pc'[t] # "mark", loaded' => Live,
           lagging => lagging', Behind(t) => Behind(t)' \/ lagging'
    PROVE  MemoryInv'
  <1>1. \A u \in Threads : LoadShape(u)' BY OthersKeepLoad
  <1>2. Live' => Live BY DEF Live, Alone
  <1>3. \A u \in Threads \ {t} : Behind(u)' <=> Behind(u) BY DEF Behind, Alone
  <1> QED BY <1>1, <1>2, <1>3 DEF MemoryInv

\* A response.  A mutation that has renamed a file and not reloaded only answers
\* with an error.
LEMMA ReplyKeepsMemory ==
    ASSUME MemoryInv, StoreInv', NEW t \in Threads, Alone(t), Reply(t),
           UNCHANGED <<disk, mem>>, loaded' => loaded \/ pc[t] = "mark",
           lagging => lagging', Behind(t) => lagging'
    PROVE  MemoryInv'
  <1>0. ThreadTypes BY TypeParts DEF MemoryInv, StoreInv
  <1>1. pc'[t] = "idle" /\ crossed' = crossed \ {t} BY <1>0 DEF Reply, ThreadTypes
  <1>2. LoadShape(t)' BY <1>1 DEF LoadShape
  <1>3. loaded' => Live BY DEF Live
  <1> QED BY <1>1, <1>2, <1>3, QuietKeepsMemory

LEMMA FailKeepsMemory ==
    ASSUME MemoryInv, StoreInv', NEW t \in Threads, Alone(t), Fail(t),
           UNCHANGED <<fileVars, memVars>>
    PROVE  MemoryInv'
  BY ReplyKeepsMemory DEF Fail, fileVars, memVars

\* A mutation on the file it has read.
LEMMA ModifyKeepsMemory ==
    ASSUME MemoryInv, StoreInv', NEW t \in Threads, Alone(t),
           AddItem(t) \/ RemoveAtom(t) \/ SaveUrls(t) \/ SaveTrust(t)
    PROVE  MemoryInv'
  <1>0. StoreInv /\ ThreadTypes /\ LoadShape(t) BY TypeParts DEF MemoryInv, StoreInv
  <1>1. pc[t] = "modify" BY DEF AddItem, RemoveAtom, SaveUrls, SaveTrust
  <1>2. CASE Fail(t) /\ UNCHANGED <<fileVars, memVars>> BY <1>2, FailKeepsMemory
  <1>3. CASE AlreadyThere(t) /\ UNCHANGED <<fileVars, memVars>> /\ req[t].op = "add"
    <2>1. ~Behind(t) BY <1>1, <1>3 DEF Behind
    <2> QED BY <1>3, <2>1, ReplyKeepsMemory DEF AlreadyThere, fileVars, memVars
  <1>4. CASE /\ UNCHANGED <<fileVars, memVars, lock, req, file, buf, snap, crossed, ghostVars>>
             /\ \/ SaveUrls(t) /\ pc' = [pc EXCEPT ![t] = "snapTrust"]
                \/ SaveTrust(t) /\ pc' = [pc EXCEPT ![t] = "loadAtoms"]
    <2>1. req[t].op = "sessionWrite" /\ pc'[t] \in {"snapTrust", "loadAtoms"}
      BY <1>0, <1>4 DEF SaveUrls, SaveTrust, ThreadTypes
    <2>2. Behind(t)' /\ LoadShape(t)' BY <1>0, <1>4, <2>1 DEF Behind, LoadShape
    <2>3. loaded' => Live BY <1>4 DEF Live, memVars
    <2> QED BY <1>4, <2>1, <2>2, <2>3, QuietKeepsMemory DEF fileVars, memVars, ghostVars
  <1>5. CASE Renames(t)
    <2>1. /\ pc'[t] = "sync" /\ req'[t] = req[t] /\ lock = t
          /\ crossed' = crossed \cup Overtaken
      BY <1>0, <1>5 DEF Renames, ThreadTypes
    <2>2. req[t].op \in Mutations BY <1>0, <1>1 DEF StoreInv, Shape, ReqShape
    <2>3. Behind(t)' BY <2>1, <2>2 DEF Behind, Mutations
    <2>4. t \notin crossed' BY <1>0, <2>1, <2>2 DEF LoadShape, Overtaken, Mutations
    <2>5. LoadShape(t)' BY <2>1, <2>4 DEF LoadShape
    <2>6. \A u \in Threads : LoadShape(u)' BY <2>1, <2>5, OthersKeepLoad
    <2> QED BY <2>3, <2>6 DEF MemoryInv
  <1> QED BY <1>0, <1>2, <1>3, <1>4, <1>5, ModifySteps

\* Reading the three files.
LEMMA LoadKeepsMemory ==
    ASSUME MemoryInv, StoreInv', NEW t \in Threads, Alone(t), Load(t)
    PROVE  MemoryInv'
  <1>0. ThreadTypes /\ LoadShape(t) BY TypeParts DEF MemoryInv, StoreInv
  <1>1. ASSUME NEW l, NEW f \in Files, NEW next, LoadFile(t, l, f, next)
        PROVE  \/ Fail(t) /\ UNCHANGED <<fileVars, memVars>>
               \/ /\ pc[t] = l /\ pc'[t] = next
                  /\ UNCHANGED <<fileVars, memVars, lagging, crossed, req, file>>
                  /\ \A g \in Files : buf'[t][g] = IF g = f THEN disk[f] ELSE buf[t][g]
    BY <1>0, <1>1 DEF LoadFile, ThreadTypes, Contents, ghostVars
  <1>2. ASSUME pc[t] \in {"loadAtoms", "loadUrls", "loadTrust"},
               pc'[t] \in {"loadUrls", "loadTrust", "swap"}, LoadShape(t)',
               UNCHANGED <<fileVars, memVars, lagging, crossed, req, file>>
        PROVE  MemoryInv'
    <2>1. Behind(t) => Behind(t)' BY <1>2 DEF Behind
    <2>2. loaded' => Live BY <1>2 DEF Live, memVars
    <2> QED BY <1>2, <2>1, <2>2, QuietKeepsMemory DEF fileVars, memVars
  <1>3. CASE LoadFile(t, "loadAtoms", "atoms", "loadUrls")
    <2>1. \/ Fail(t) /\ UNCHANGED <<fileVars, memVars>>
          \/ /\ pc[t] = "loadAtoms" /\ pc'[t] = "loadUrls"
             /\ UNCHANGED <<fileVars, memVars, lagging, crossed, req, file>>
             /\ buf'[t]["atoms"] = disk["atoms"]
      BY <1>1, <1>3 DEF Files
    <2>2. CASE ~Fail(t)
      <3>1. LoadShape(t)' BY <1>0, <2>1, <2>2 DEF LoadShape, fileVars
      <3> QED BY <1>2, <2>1, <2>2, <3>1
    <2> QED BY <2>1, <2>2, FailKeepsMemory
  <1>4. CASE LoadFile(t, "loadUrls", "urls", "loadTrust")
    <2>1. \/ Fail(t) /\ UNCHANGED <<fileVars, memVars>>
          \/ /\ pc[t] = "loadUrls" /\ pc'[t] = "loadTrust"
             /\ UNCHANGED <<fileVars, memVars, lagging, crossed, req, file>>
             /\ buf'[t]["urls"] = disk["urls"] /\ buf'[t]["atoms"] = buf[t]["atoms"]
      BY <1>1, <1>4 DEF Files
    <2>2. CASE ~Fail(t)
      <3>1. LoadShape(t)' BY <1>0, <2>1, <2>2 DEF LoadShape, fileVars
      <3> QED BY <1>2, <2>1, <2>2, <3>1
    <2> QED BY <2>1, <2>2, FailKeepsMemory
  <1>5. CASE LoadFile(t, "loadTrust", "trust", "swap")
    <2>1. \/ Fail(t) /\ UNCHANGED <<fileVars, memVars>>
          \/ /\ pc[t] = "loadTrust" /\ pc'[t] = "swap"
             /\ UNCHANGED <<fileVars, memVars, lagging, crossed, req, file>>
             /\ buf'[t]["trust"] = disk["trust"] /\ buf'[t]["atoms"] = buf[t]["atoms"]
             /\ buf'[t]["urls"] = buf[t]["urls"]
      BY <1>1, <1>5 DEF Files
    <2>2. CASE ~Fail(t)
      <3>1. LoadShape(t)' BY <1>0, <2>1, <2>2 DEF LoadShape, fileVars
      <3> QED BY <1>2, <2>1, <2>2, <3>1
    <2> QED BY <2>1, <2>2, FailKeepsMemory
  <1> QED BY <1>3, <1>4, <1>5 DEF Load

\* The layer is replaced: by what the files say, unless the load was overtaken.
LEMMA SwapKeepsMemory ==
    ASSUME MemoryInv, StoreInv', NEW t \in Threads, Alone(t), Swap(t)
    PROVE  MemoryInv'
  <1>0. FileTypes /\ ThreadTypes /\ LoadShape(t) BY TypeParts DEF MemoryInv, StoreInv
  <1>1. /\ pc[t] = "swap" /\ pc'[t] = "mark" /\ mem' = buf[t]
        /\ disk' = disk /\ req' = req /\ crossed' = crossed /\ lagging' = (t \in crossed)
    BY <1>0 DEF Swap, Goto, ThreadTypes, fileVars
  <1>2. LoadShape(t)' BY <1>0, <1>1 DEF LoadShape
  <1>3. \A u \in Threads : LoadShape(u)' BY <1>1, <1>2, OthersKeepLoad
  <1>4. CASE t \notin crossed
    <2>1. \A f \in Files : buf[t][f] = disk[f] BY <1>0, <1>1, <1>4 DEF LoadShape, Files
    <2>2. buf[t] = disk BY <1>0, <2>1 DEF ThreadTypes, FileTypes, Contents
    <2> QED BY <1>1, <1>3, <2>2 DEF MemoryInv
  <1> QED BY <1>1, <1>3, <1>4 DEF MemoryInv

LEMMA ThreadStepKeepsMemory ==
    ASSUME MemoryInv, NEW t \in Threads, Step(t)
    PROVE  MemoryInv'
  <1>0. StoreInv /\ StoreInv' /\ Alone(t)
    BY ThreadStepKeepsStore, StepAlone DEF MemoryInv
  <1>1. ThreadTypes /\ LoadShape(t) BY <1>0, TypeParts DEF StoreInv, MemoryInv
  <1>2. ASSUME pc'[t] \in {"read", "modify", "snap", "snapTrust", "loadAtoms", "clean"},
               UNCHANGED <<fileVars, mem, crossed, req, lagging>>, loaded' => Live,
               Behind(t) => Behind(t)'
        PROVE  MemoryInv'
    <2>1. LoadShape(t)' BY <1>1, <1>2 DEF LoadShape
    <2> QED BY <1>0, <1>2, <2>1, QuietKeepsMemory DEF fileVars
  <1>3. loaded => Live BY DEF Live
  <1>4. CASE Fail(t) /\ UNCHANGED <<fileVars, memVars>> BY <1>0, <1>4, FailKeepsMemory
  <1>5. CASE Lock(t)
    <2>1. /\ pc[t] = "lock" /\ pc'[t] \in {"read", "snap"}
          /\ UNCHANGED <<fileVars, memVars, crossed, req, file, ghostVars>>
      BY <1>1, <1>5 DEF Lock, Goto, ThreadTypes
    <2>2. ~Behind(t) BY <1>0, <2>1 DEF Behind, StoreInv, Shape, ReqShape
    <2> QED BY <1>2, <1>3, <2>1, <2>2 DEF memVars, ghostVars
  <1>6. CASE Check(t)
    <2>1. CASE ~Fail(t)
      <3>1. /\ pc[t] = "check" /\ pc'[t] = "loadAtoms"
            /\ UNCHANGED <<fileVars, memVars, crossed, req, file, ghostVars>>
        BY <1>1, <1>6, <2>1 DEF Check, Goto, ThreadTypes
      <3>2. ~Behind(t) BY <1>0, <3>1 DEF Behind, StoreInv, Shape, ReqShape
      <3> QED BY <1>2, <1>3, <3>1, <3>2 DEF memVars, ghostVars
    <2> QED BY <1>4, <1>6, <2>1 DEF Check
  <1>7. CASE Read(t)
    <2>1. CASE ~Fail(t)
      <3>1. /\ pc[t] = "read" /\ pc'[t] = "modify"
            /\ UNCHANGED <<fileVars, memVars, crossed, req, file, ghostVars>>
        BY <1>1, <1>7, <2>1 DEF Read, ThreadTypes
      <3>2. Behind(t) => Behind(t)' BY <3>1 DEF Behind
      <3> QED BY <1>2, <1>3, <3>1, <3>2 DEF memVars, ghostVars
    <2> QED BY <1>4, <1>7, <2>1 DEF Read
  <1>8. CASE Sync(t)
    <2>1. /\ pc[t] = "sync" /\ pc'[t] \in {"snapTrust", "loadAtoms"}
          /\ UNCHANGED <<disk, memVars, crossed, req, file, ghostVars>>
      BY <1>1, <1>8 DEF Sync, Goto, ThreadTypes
    <2>2. Behind(t)' /\ LoadShape(t)'
      BY <1>0, <1>1, <2>1 DEF Behind, LoadShape, StoreInv, Shape, ReqShape, Mutations
    <2> QED BY <1>0, <1>3, <2>1, <2>2, QuietKeepsMemory DEF memVars, ghostVars
  <1>9. CASE SnapUrls(t)
    <2>1. CASE ~Fail(t)
      <3>1. /\ pc[t] = "snap" /\ pc'[t] \in {"snapTrust", "read"}
            /\ UNCHANGED <<fileVars, memVars, crossed, req, file, lagging>>
        BY <1>1, <1>9, <2>1 DEF SnapUrls, ThreadTypes
      <3>2. ~Behind(t) BY <3>1 DEF Behind
      <3> QED BY <1>2, <1>3, <3>1, <3>2 DEF memVars
    <2> QED BY <1>4, <1>9, <2>1 DEF SnapUrls
  <1>10. CASE SnapTrust(t)
    <2>1. /\ pc[t] = "snapTrust" /\ pc'[t] \in {"loadAtoms", "read"} /\ file'[t] = "trust"
          /\ UNCHANGED <<fileVars, memVars, crossed, req, ghostVars>>
      BY <1>1, <1>10 DEF SnapTrust, ThreadTypes
    <2>2. Behind(t)' BY <1>0, <2>1 DEF Behind, StoreInv, Shape, ReqShape
    <2> QED BY <1>2, <1>3, <2>1, <2>2 DEF memVars, ghostVars
  <1>11. CASE Mark(t)
    <2>1. pc[t] = "mark" /\ UNCHANGED <<disk, mem, lagging>>
      BY <1>11 DEF Mark, Acknowledge, fileVars, ghostVars
    <2>2. ~Behind(t) /\ Live BY <2>1 DEF Behind, Live
    <2>3. CASE Reply(t) BY <1>0, <2>1, <2>2, <2>3, ReplyKeepsMemory
    <2>4. CASE ~Reply(t)
      <3>1. pc'[t] = "clean" /\ UNCHANGED <<fileVars, mem, crossed, req, lagging>>
        BY <1>1, <1>11, <2>4 DEF Mark, Goto, Acknowledge, ThreadTypes, ghostVars
      <3> QED BY <1>2, <2>2, <3>1
    <2> QED BY <2>3, <2>4
  <1>12. CASE Clean(t)
    <2>1. /\ pc[t] = "clean" /\ Reply(t) /\ UNCHANGED <<disk, mem, loaded, lagging>>
      BY <1>12 DEF Clean, Acknowledge, fileVars
    <2>2. ~Behind(t) BY <2>1 DEF Behind
    <2> QED BY <1>0, <2>1, <2>2, ReplyKeepsMemory
  <1> QED BY <1>0, <1>5, <1>6, <1>7, <1>8, <1>9, <1>10, <1>11, <1>12,
             ModifyKeepsMemory, LoadKeepsMemory, SwapKeepsMemory DEF Step

LEMMA MemoryNext ==
    ASSUME MemoryInv, [Next]_vars
    PROVE  MemoryInv'
  <1>0. StoreInv /\ StoreInv' BY StoreNext DEF MemoryInv
  <1>1. ThreadTypes BY <1>0, TypeParts DEF StoreInv
  <1>2. ASSUME NEW t \in Threads, NEW r \in Arriving, Receive(t, r) PROVE MemoryInv'
    <2>1. /\ pc[t] = "idle" /\ pc'[t] \in {"check", "lock"}
          /\ UNCHANGED <<disk, memVars, crossed, lagging>>
      BY <1>1, <1>2 DEF Receive, ThreadTypes, fileVars
    <2>2. req[t].op = "none" BY <1>0, <2>1 DEF StoreInv, Shape, ReqShape, NoRequest
    <2>3. t \notin crossed BY <2>2 DEF MemoryInv, LoadShape
    <2>4. LoadShape(t)' BY <2>1, <2>3 DEF LoadShape
    <2>5. ~Behind(t) BY <2>2 DEF Behind
    <2>6. Alone(t) BY <1>1, <1>2 DEF Alone, Receive, ThreadTypes
    <2>7. loaded' => Live BY <2>1 DEF Live, memVars
    <2> QED BY <1>0, <2>1, <2>4, <2>5, <2>6, <2>7, QuietKeepsMemory DEF memVars
  <1>3. ASSUME NEW t \in Threads, Step(t) PROVE MemoryInv' BY <1>3, ThreadStepKeepsMemory
  <1>4. ASSUME UNCHANGED <<mem, disk, loaded, threadVars, lagging>> PROVE MemoryInv'
    BY <1>0, <1>4 DEF MemoryInv, LoadShape, Live, Behind, threadVars
  <1>5. ASSUME Restart PROVE MemoryInv'
    <2>1. /\ loaded' = FALSE /\ crossed' = {}
          /\ \A t \in Threads : pc'[t] = "idle"
      BY <1>5 DEF Restart
    <2>2. \A t \in Threads : LoadShape(t)' BY <2>1 DEF LoadShape
    <2>3. ~Live' BY <2>1 DEF Live
    <2> QED BY <1>0, <2>2, <2>3 DEF MemoryInv
  <1> QED BY <1>2, <1>3, <1>4, <1>5
      DEF Next, Kill, PowerLoss, SessionAdd, SessionClear, WriteBack, WriteBackParent,
          vars, fileVars, memVars, ghostVars

\* The comment on ensure_loaded, with the lazy loads that take no lock, concurrent
\* mutations and session writes, kills, power losses, failing file operations
\* and failing syncs: between requests the loaded layer is what the files say
\* unless an overtaken lazy load or a mutation that failed was the last word on it.
THEOREM MemoryStaleOnlyBehind == Spec => []MemoryFollowsDisk
  <1>1. Init => MemoryInv
    <2> SUFFICES ASSUME Init PROVE MemoryInv OBVIOUS
    <2>1. loaded = FALSE /\ crossed = {} /\ \A t \in Threads : pc[t] = "idle" BY DEF Init
    <2>2. \A t \in Threads : LoadShape(t) BY <2>1 DEF LoadShape
    <2> QED BY <2>1, <2>2, StoreInit DEF MemoryInv, Live
  <1>2. MemoryInv /\ [Next]_vars => MemoryInv' BY MemoryNext
  <1>3. MemoryInv => MemoryFollowsDisk
    BY DEF MemoryInv, MemoryFollowsDisk, Live, Behind
  <1> QED BY <1>1, <1>2, <1>3, PTL DEF Spec

=============================================================================
