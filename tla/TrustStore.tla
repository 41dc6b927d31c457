----------------------------- MODULE TrustStore -----------------------------
(***************************************************************************)
(* The trust store of atty-guard, for one uid: three files on disk         *)
(* (atoms.user.txt, urls.decisions.txt, commands.trusted.txt), the copy of *)
(* them the daemon keeps in memory, and the session layer that lives in    *)
(* memory only until `session write' moves it to disk.                     *)
(*                                                                         *)
(* Connection threads run the operations concurrently.  A mutation holds   *)
(* the uid's write lock over its read-modify-write of a file and the       *)
(* reload that follows; the lazy load of the classify and list handlers    *)
(* (ensure_loaded) takes no lock.  Every file read, every rename, every    *)
(* directory sync and every critical section on the state mutex is a step, *)
(* and the daemon may be killed, or the machine lose power, between any    *)
(* two of them.                                                            *)
(***************************************************************************)
EXTENDS Naturals, FiniteSets

CONSTANTS Atoms, Hosts, Hashes,  \* user atoms, url hosts, trust hashes
          Threads,               \* connection threads of the daemon
          NoThread,              \* nobody holds the lock
          TrustCap,              \* PERSISTENT_TRUST_CAP
          SessionCap,            \* SESSION_PER_KIND_CAP
          LazyLoads,             \* do classify and list requests arrive?
          Faults                 \* what may go wrong: see below

ASSUME TrustStoreAssumption ==
    /\ NoThread \notin Threads
    /\ TrustCap \in Nat /\ SessionCap \in Nat
    /\ LazyLoads \in BOOLEAN
    /\ Faults \subseteq {"io", "sync", "power"}

\* "io": a file operation fails and the error is returned.  "sync": the sync
\* of a directory fails, which the code ignores.  "power": the machine goes
\* down: renames that were not synced may be undone, and a users/<uid>/ that
\* was made since may be gone.  The daemon being killed is always possible.
IoFails == "io" \in Faults
SyncFails == "sync" \in Faults
PowerFails == "power" \in Faults

\* A decision on a host, and the one that contradicts it.
Decisions == {"allow", "block"} \X Hosts
Opposite(d) == <<IF d[1] = "allow" THEN "block" ELSE "allow", d[2]>>
Blocks == {"block"} \X Hosts

\* The files, and what each may hold.
Files == {"atoms", "urls", "trust"}
Holds == [atoms |-> Atoms, urls |-> Decisions, trust |-> Hashes]
Items == Atoms \cup Decisions \cup Hashes

\* An atom, a decision and a hash are values of different types.
ASSUME KindsAssumption ==
    \A f, g \in Files : f # g => Holds[f] \cap Holds[g] = {}

Contents == {c \in [Files -> SUBSET Items] : \A f \in Files : c[f] \subseteq Holds[f]}
Empty == [f \in Files |-> {}]
OnAny(c) == UNION {c[f] : f \in Files}

\* The requests: add an item to its file, remove an atom, load lazily, and
\* `session write'.  The session operations are one critical section each.
NoRequest == [op |-> "none"]
Adds    == [op : {"add"}, item : Items]
Removes == [op : {"remove"}, item : Atoms]
Requests == Adds \cup Removes \cup {[op |-> "ensure"], [op |-> "sessionWrite"]}
Arriving == IF LazyLoads THEN Requests ELSE Requests \ {[op |-> "ensure"]}
\* Mutant: every item goes to the atoms file.
FileOf_Atoms(i) == "atoms"

\* The file an item belongs to.
FileOf(i) == CHOOSE f \in Files : i \in Holds[f]

VARIABLES
    disk,       \* the files as a reader sees them
    durable,    \* the files as a power loss would leave them
    rooted,     \* would a power loss leave users/<uid>/ itself?
    mem,        \* the persistent layer in memory
    known,      \* does the state map have an entry for the uid?
    loaded,     \* is the uid in `loaded'?
    session,    \* the session layer
    lock,       \* holder of the uid's write lock
    pc, req, file, buf, snap, done,   \* per thread
    crossed,    \* history: lazy loads that a rename has overtaken
    promised,   \* history: items whose addition was acknowledged
    lent,       \* history: of those, found in a file that was not synced
    owed,       \* history: session items acknowledged and not cleared
    lagging     \* history: was the memory layer last left to an overtaken
                \* lazy load, or by a mutation that failed?

fileVars   == <<disk, durable, rooted>>
memVars    == <<mem, known, loaded, session>>
threadVars == <<pc, req, file, buf, snap, done, crossed>>
ghostVars  == <<promised, lent, owed, lagging>>
vars == <<fileVars, memVars, lock, threadVars, ghostVars>>

-----------------------------------------------------------------------------
(* Steps common to the operations.                                         *)

\* What request r sets out to contradict on disk.
Contradicts(r) ==
    IF r.op = "remove" THEN {r.item}
    ELSE IF r.op = "add" THEN {Opposite(d) : d \in {r.item} \cap Decisions} ELSE {}

\* The response: the write lock, if held, is released.
Reply(t) ==
    /\ pc' = [pc EXCEPT ![t] = "idle"]
    /\ req' = [req EXCEPT ![t] = NoRequest]
    /\ file' = [file EXCEPT ![t] = "atoms"]
    /\ buf' = [buf EXCEPT ![t] = Empty]
    /\ snap' = [snap EXCEPT ![t] = {}]
    /\ done' = [done EXCEPT ![t] = {}]
    /\ crossed' = crossed \ {t}
    /\ lock' = IF lock = t THEN NoThread ELSE lock

\* A mutation that may have renamed a file and has not reloaded since.
Behind(t) ==
    /\ req[t].op \in {"add", "remove", "sessionWrite"}
    /\ \/ pc[t] \in {"sync", "snapTrust", "loadAtoms", "loadUrls", "loadTrust", "swap"}
       \/ req[t].op = "sessionWrite" /\ file[t] = "trust" /\ pc[t] \in {"read", "modify"}

\* The response of a request that stops here, on an error or with nothing to do.
Fail(t) ==
    /\ Reply(t)
    /\ lagging' = (lagging \/ Behind(t))
    /\ UNCHANGED <<promised, lent, owed>>

\* What the response to an addition promises: its item, unless a request that
\* contradicts it is under way.
Promise(t) ==
    IF req[t].op # "add" THEN {}
    ELSE {i \in {req[t].item} : \A u \in Threads \ {t} : i \notin Contradicts(req[u])}

\* The response of a mutation that went all the way, or of a lazy load.
Acknowledge(t) ==
    /\ Reply(t)
    /\ promised' = promised \cup Promise(t)
    /\ UNCHANGED <<lent, owed, lagging>>

\* The Ok for an item the file has already: it promises what the file keeps,
\* through a power loss only if the rename that brought the item was synced.
AlreadyThere(t) ==
    /\ Reply(t)
    /\ promised' = promised \cup Promise(t)
    /\ lent' = lent \cup (Promise(t) \ durable[file[t]])
    /\ UNCHANGED <<owed, lagging>>

Goto(t, l) == pc' = [pc EXCEPT ![t] = l] /\ UNCHANGED <<req, file, buf, snap, done, crossed>>

Receive(t, r) ==
    /\ pc[t] = "idle"
    /\ pc' = [pc EXCEPT ![t] = IF r.op = "ensure" THEN "check" ELSE "lock"]
    /\ req' = [req EXCEPT ![t] = r]
    /\ file' = [file EXCEPT ![t] = IF r.op \in {"add", "remove"} THEN FileOf(r.item) ELSE "urls"]
    /\ promised' = promised \ Contradicts(r)
    /\ lent' = lent \ Contradicts(r)
    /\ owed' = owed \ Contradicts(r)
    /\ UNCHANGED <<fileVars, memVars, lock, buf, snap, done, crossed, lagging>>

\* Mutant: the lock is not waited for.
Lock_NoWait(t) ==
    /\ pc[t] = "lock"
    /\ lock' = t
    /\ Goto(t, IF req[t].op = "sessionWrite" THEN "snap" ELSE "read")
    /\ UNCHANGED <<fileVars, memVars, ghostVars>>

\* acquire_write_lock, taken as the mutex per uid that it promises to be.
Lock(t) ==
    /\ pc[t] = "lock" /\ lock = NoThread
    /\ lock' = t
    /\ Goto(t, IF req[t].op = "sessionWrite" THEN "snap" ELSE "read")
    /\ UNCHANGED <<fileVars, memVars, ghostVars>>

\* Read the file to be modified.  A missing file reads as empty.
Read(t) ==
    /\ pc[t] = "read"
    /\ \/ /\ pc' = [pc EXCEPT ![t] = "modify"]
          /\ buf' = [buf EXCEPT ![t][file[t]] = disk[file[t]]]
          /\ UNCHANGED <<lock, req, file, snap, done, crossed, ghostVars>>
       \/ IoFails /\ Fail(t)
    /\ UNCHANGED <<fileVars, memVars>>

\* The lazy loads that a rename overtakes: they have read a file by now.
Overtaken == {u \in Threads : /\ req[u].op = "ensure"
                              /\ pc[u] \in {"loadUrls", "loadTrust", "swap"}}

\* write_atomic up to the rename: a temporary file is written, synced and
\* renamed over the old one, or removed again.
Rename(t, content, saved) ==
    \/ /\ disk' = [disk EXCEPT ![file[t]] = content]
       /\ pc' = [pc EXCEPT ![t] = "sync"]
       /\ done' = [done EXCEPT ![t] = @ \cup saved]
       /\ buf' = [buf EXCEPT ![t] = Empty]
       /\ snap' = [snap EXCEPT ![t] = {}]
       /\ crossed' = crossed \cup Overtaken
       /\ UNCHANGED <<durable, rooted, lock, req, file, ghostVars>>
    \/ IoFails /\ Fail(t) /\ UNCHANGED fileVars

\* Mutant: a single mutation is not followed by a reload.
Sync_NoReload(t) ==
    /\ pc[t] = "sync"
    /\ durable' = [durable EXCEPT ![file[t]] = disk[file[t]]]
    /\ IF req[t].op # "sessionWrite" THEN Acknowledge(t)
       ELSE /\ Goto(t, IF file[t] = "urls" THEN "snapTrust" ELSE "loadAtoms")
            /\ UNCHANGED <<lock, ghostVars>>
    /\ UNCHANGED <<disk, rooted, memVars>>

\* The rest of write_atomic: the directory is synced, if that succeeds.
Sync(t) ==
    /\ pc[t] = "sync"
    /\ \/ durable' = [durable EXCEPT ![file[t]] = disk[file[t]]]
       \/ SyncFails /\ UNCHANGED durable
    /\ Goto(t, IF req[t].op = "sessionWrite" /\ file[t] = "urls" THEN "snapTrust" ELSE "loadAtoms")
    /\ UNCHANGED <<disk, rooted, memVars, lock, ghostVars>>

-----------------------------------------------------------------------------
(* The mutations.                                                          *)

\* Mutant: the old decision stays.
With_KeepsOld(content, i) == content \cup {i}

\* A file's content with item i in it: a new decision replaces the old one.
With(content, i) == (content \ {Opposite(d) : d \in {i} \cap Decisions}) \cup {i}

\* Mutant: off by one.
TrustFull_OffByOne(content) == Cardinality(content) > TrustCap

\* persistent_add_atom, persistent_add_url and persistent_add_trust: an atom or
\* hash already there is Ok as it is, a full trust file has no room.
TrustFull(content) == Cardinality(content) >= TrustCap

AddItem(t) ==
    LET i == req[t].item
        content == buf[t][file[t]]
    IN
    /\ pc[t] = "modify" /\ req[t].op = "add"
    /\ \/ i \in content /\ i \notin Decisions /\ AlreadyThere(t) /\ UNCHANGED fileVars
       \/ /\ i \in Hashes /\ i \notin content /\ TrustFull(content)
          /\ Fail(t) /\ UNCHANGED fileVars
       \/ /\ i \notin content \/ i \in Decisions
          /\ ~(i \in Hashes /\ TrustFull(content))
          /\ Rename(t, With(content, i), {})
    /\ UNCHANGED memVars

\* persistent_remove_atom; removing an absent atom is refused.
RemoveAtom(t) ==
    LET content == buf[t]["atoms"] IN
    /\ pc[t] = "modify" /\ req[t].op = "remove"
    /\ IF req[t].item \in content THEN Rename(t, content \ {req[t].item}, {})
                                  ELSE Fail(t) /\ UNCHANGED fileVars
    /\ UNCHANGED memVars

\* session_write copies the url part of the session under the state mutex;
\* its block decisions are about to override what the file says.
SnapUrls(t) ==
    LET s == session \cap Blocks IN
    /\ pc[t] = "snap"
    /\ \/ ~known /\ Fail(t)
       \/ /\ known
          /\ snap' = [snap EXCEPT ![t] = s]
          /\ pc' = [pc EXCEPT ![t] = IF s = {} THEN "snapTrust" ELSE "read"]
          /\ promised' = promised \ {Opposite(d) : d \in s}
          /\ UNCHANGED <<lock, req, file, buf, done, crossed, lent, owed, lagging>>
    /\ UNCHANGED <<fileVars, memVars>>

\* Then the trust part, after the urls are on disk.
SnapTrust(t) ==
    LET s == session \cap Hashes IN
    /\ pc[t] = "snapTrust"
    /\ snap' = [snap EXCEPT ![t] = s]
    /\ file' = [file EXCEPT ![t] = "trust"]
    /\ pc' = [pc EXCEPT ![t] = IF s = {} THEN "loadAtoms" ELSE "read"]
    /\ UNCHANGED <<fileVars, memVars, lock, req, buf, done, crossed, ghostVars>>

\* Write the session's blocks; nothing is written if all are on disk already.
SaveUrls(t) ==
    LET content == buf[t]["urls"] IN
    /\ pc[t] = "modify" /\ req[t].op = "sessionWrite" /\ file[t] = "urls"
    /\ IF snap[t] \subseteq content
         THEN /\ pc' = [pc EXCEPT ![t] = "snapTrust"]
              /\ done' = [done EXCEPT ![t] = @ \cup snap[t]]
              /\ UNCHANGED <<fileVars, lock, req, file, buf, snap, crossed, ghostVars>>
         ELSE Rename(t, (content \ {Opposite(d) : d \in snap[t]}) \cup snap[t], snap[t])
    /\ UNCHANGED memVars

\* Mutant: a hash counts as saved whether or not the file had room for it.
SavedTrust_All(t, room) == snap[t]

\* The hashes the trust file ends up with are saved; the others stay in the
\* session.
SavedTrust(t, room) == room \cup (snap[t] \cap buf[t]["trust"])

\* Write the session's hashes, in the set's iteration order, while there is room.
SaveTrust(t) ==
    LET content == buf[t]["trust"]
        fresh == snap[t] \ content
    IN
    /\ pc[t] = "modify" /\ req[t].op = "sessionWrite" /\ file[t] = "trust"
    /\ \E room \in SUBSET fresh :
         /\ \A h \in fresh : h \notin room <=> TrustFull(content \cup (room \ {h}))
         /\ IF room = {}
              THEN /\ pc' = [pc EXCEPT ![t] = "loadAtoms"]
                   /\ done' = [done EXCEPT ![t] = @ \cup SavedTrust(t, room)]
                   /\ UNCHANGED <<fileVars, lock, req, file, buf, snap, crossed, ghostVars>>
              ELSE Rename(t, content \cup room, SavedTrust(t, room))
    /\ UNCHANGED memVars

-----------------------------------------------------------------------------
(* load_persistent: after a mutation with the write lock held, from         *)
(* ensure_loaded without it.                                                *)

\* ensure_loaded, the entry of the classify and list handlers.
Check(t) ==
    /\ pc[t] = "check"
    /\ IF loaded THEN Fail(t) ELSE Goto(t, "loadAtoms") /\ UNCHANGED <<lock, ghostVars>>
    /\ UNCHANGED <<fileVars, memVars>>

\* The files are read one after the other, without the state mutex.
LoadFile(t, l, f, next) ==
    /\ pc[t] = l
    /\ \/ /\ pc' = [pc EXCEPT ![t] = next]
          /\ buf' = [buf EXCEPT ![t][f] = disk[f]]
          /\ UNCHANGED <<lock, req, file, snap, done, crossed, ghostVars>>
       \/ IoFails /\ Fail(t)
    /\ UNCHANGED <<fileVars, memVars>>

Load(t) ==
    \/ LoadFile(t, "loadAtoms", "atoms", "loadUrls")
    \/ LoadFile(t, "loadUrls", "urls", "loadTrust")
    \/ LoadFile(t, "loadTrust", "trust", "swap")

\* The memory layer is replaced under the state mutex.
Swap(t) ==
    /\ pc[t] = "swap"
    /\ mem' = buf[t] /\ known' = TRUE
    /\ lagging' = (t \in crossed)
    /\ Goto(t, "mark")
    /\ UNCHANGED <<fileVars, loaded, session, lock, promised, lent, owed>>

\* The uid counts as loaded; that is the end of all but session_write.
Mark(t) ==
    /\ pc[t] = "mark"
    /\ loaded' = TRUE
    /\ IF req[t].op = "sessionWrite" THEN Goto(t, "clean") /\ UNCHANGED <<lock, ghostVars>>
                                      ELSE Acknowledge(t)
    /\ UNCHANGED <<fileVars, mem, known, session>>

\* Mutant: the whole session is dropped.
Clean_Everything(t) ==
    /\ pc[t] = "clean"
    /\ session' = {}
    /\ Acknowledge(t)
    /\ UNCHANGED <<fileVars, mem, known, loaded>>

\* session_write drops from the session what it saved, and only that.
Clean(t) ==
    /\ pc[t] = "clean"
    /\ session' = session \ done[t]
    /\ Acknowledge(t)
    /\ UNCHANGED <<fileVars, mem, known, loaded>>

-----------------------------------------------------------------------------
(* The session layer, and the end of the daemon.                           *)

\* session_add_trust and session_add_url_block; a full set still accepts
\* what it has.
SessionAdd(i) ==
    LET kind == IF i \in Hashes THEN Hashes ELSE Blocks IN
    /\ i \in session \/ Cardinality(session \cap kind) < SessionCap
    /\ session' = session \cup {i}
    /\ known' = TRUE
    /\ owed' = owed \cup {d \in {i} : \A t \in Threads : d \notin Contradicts(req[t])}
    /\ UNCHANGED <<fileVars, mem, loaded, lock, threadVars, promised, lent, lagging>>

SessionClear ==
    /\ session' = {}
    /\ owed' = {}
    /\ UNCHANGED <<fileVars, mem, known, loaded, lock, threadVars, promised, lent, lagging>>

\* The next daemon starts with nothing in memory and nothing under way.
Restart ==
    /\ mem' = Empty /\ known' = FALSE /\ loaded' = FALSE /\ session' = {}
    /\ lock' = NoThread
    /\ pc' = [t \in Threads |-> "idle"]
    /\ req' = [t \in Threads |-> NoRequest]
    /\ file' = [t \in Threads |-> "atoms"]
    /\ buf' = [t \in Threads |-> Empty]
    /\ snap' = [t \in Threads |-> {}]
    /\ done' = [t \in Threads |-> {}]
    /\ crossed' = {}
    /\ owed' = {} /\ lagging' = FALSE

\* The daemon is killed: the files stay as they are.
Kill == Restart /\ UNCHANGED <<fileVars, promised, lent>>

\* The machine loses power: a rename that was not synced may be undone.
RenamesUndone ==
    /\ rooted
    /\ \E undone \in SUBSET Files :
         disk' = [f \in Files |-> IF f \in undone THEN durable[f] ELSE disk[f]]
    /\ promised' = promised \ lent

\* ensure_parent_dir makes users/<uid>/ and nobody syncs users/: until the
\* kernel writes that back the directory goes with everything in it.
DirectoryLost ==
    /\ ~rooted
    /\ disk' = Empty
    /\ promised' = {}

PowerLoss ==
    /\ PowerFails
    /\ RenamesUndone \/ DirectoryLost
    /\ durable' = disk' /\ lent' = {}
    /\ Restart
    /\ UNCHANGED rooted

\* The kernel writes back a directory that nobody synced: users/<uid>/ with a
\* rename in it, or users/ with users/<uid>/ in it.
WriteBack(f) ==
    /\ durable[f] # disk[f]
    /\ durable' = [durable EXCEPT ![f] = disk[f]]
    /\ UNCHANGED <<disk, rooted, memVars, lock, threadVars, ghostVars>>

WriteBackParent ==
    /\ ~rooted /\ disk # Empty
    /\ rooted' = TRUE
    /\ UNCHANGED <<disk, durable, memVars, lock, threadVars, ghostVars>>

-----------------------------------------------------------------------------
Init ==
    /\ disk = Empty /\ durable = Empty /\ rooted \in BOOLEAN
    /\ mem = Empty /\ known = FALSE /\ loaded = FALSE /\ session = {}
    /\ lock = NoThread
    /\ pc = [t \in Threads |-> "idle"]
    /\ req = [t \in Threads |-> NoRequest]
    /\ file = [t \in Threads |-> "atoms"]
    /\ buf = [t \in Threads |-> Empty]
    /\ snap = [t \in Threads |-> {}]
    /\ done = [t \in Threads |-> {}]
    /\ crossed = {}
    /\ promised = {} /\ lent = {} /\ owed = {} /\ lagging = FALSE

Step(t) ==
    \/ Lock(t) \/ Read(t) \/ AddItem(t) \/ RemoveAtom(t) \/ Sync(t)
    \/ SnapUrls(t) \/ SaveUrls(t) \/ SnapTrust(t) \/ SaveTrust(t) \/ Clean(t)
    \/ Check(t) \/ Load(t) \/ Swap(t) \/ Mark(t)

Next ==
    \/ \E t \in Threads, r \in Arriving : Receive(t, r)
    \/ \E t \in Threads : Step(t)
    \/ \E i \in Blocks \cup Hashes : SessionAdd(i)
    \/ SessionClear
    \/ Kill
    \/ PowerLoss
    \/ \E f \in Files : WriteBack(f)
    \/ WriteBackParent

Spec == Init /\ [][Next]_vars

-----------------------------------------------------------------------------
(* Properties.                                                             *)

Labels == {"idle", "lock", "read", "modify", "sync", "snap", "snapTrust", "check",
           "loadAtoms", "loadUrls", "loadTrust", "swap", "mark", "clean"}

\* The values every variable may take.
TypeOK ==
    /\ disk \in Contents /\ durable \in Contents /\ rooted \in BOOLEAN /\ mem \in Contents
    /\ known \in BOOLEAN /\ loaded \in BOOLEAN
    /\ session \subseteq Blocks \cup Hashes
    /\ lock \in Threads \cup {NoThread}
    /\ pc \in [Threads -> Labels]
    /\ req \in [Threads -> Requests \cup {NoRequest}]
    /\ file \in [Threads -> Files]
    /\ buf \in [Threads -> Contents]
    /\ snap \in [Threads -> SUBSET (Blocks \cup Hashes)]
    /\ done \in [Threads -> SUBSET (Blocks \cup Hashes)]
    /\ crossed \subseteq Threads
    /\ promised \subseteq Items /\ lent \subseteq Items /\ owed \subseteq Blocks \cup Hashes
    /\ lagging \in BOOLEAN

\* atoms add, urls allow/block, trust add: once acknowledged, an addition is
\* on disk and survives concurrent writers and the death of the daemon until
\* someone asks for the contrary.  It survives a power loss if the directory
\* users/<uid>/ does and, where the Ok was for an item already there, if the
\* rename that brought the item had been synced by then.
AckedPersists == promised \subseteq OnAny(disk)

\* session write: a session decision that was acknowledged and not cleared is
\* in the session or on disk at every moment, also when the write fails half
\* way or the trust file is full.
SessionNotLost == owed \subseteq session \cup OnAny(disk)

\* urls.decisions.txt never says both allow and block of a host, whichever
\* mix of urls allow/block and session write produced it.
OneDecisionPerHost == \A d \in disk["urls"] : Opposite(d) \notin disk["urls"]

\* commands.trusted.txt never outgrows its cap, whether it is filled one hash
\* at a time or by session write.
TrustCapKept == Cardinality(disk["trust"]) <= TrustCap

\* The comment on ensure_loaded: mutating operations reload after writing,
\* which keeps the in-memory layer fresh.  Lazy loads take no lock, and a reload
\* may fail: between requests a loaded layer is what the files say unless the
\* last load was a lazy one that a rename had overtaken, or a mutation has failed
\* since; the next load that is not overtaken repairs it.
MemoryFollowsDisk ==
    (\A t \in Threads : pc[t] = "idle") /\ loaded /\ ~lagging => mem = disk

=============================================================================
