----------------------------- MODULE AtomFetch ------------------------------
(***************************************************************************)
(* The atom corpus atty-guard fetches: the refresh thread of the daemon    *)
(* and the one-shot `--update-atoms-now', the pin file that ties a source  *)
(* to a commit and a digest, the extraction of atoms from the tarballs,    *)
(* the publication of atoms.system.txt, the copy the classifier matches    *)
(* against, and the drift snapshot.                                        *)
(*                                                                         *)
(* The daemon and a one-shot fetch concurrently; the start-up and the      *)
(* first classify requests load the file while the refresh thread replaces *)
(* it.  Processes may be killed and the machine may lose power between two *)
(* steps; downloads and system calls may fail.                             *)
(***************************************************************************)
EXTENDS Naturals, FiniteSets, Sequences, SequencesExt

CONSTANTS
    SourceList, Revs,    \* the upstream repositories, in order; their revisions
    Tarball,             \* source -> revision -> its entries
    Pids,                \* process ids, reused after a process is gone
    MaxTotal, MaxEntry,  \* TOTAL_DECOMPRESSED_MAX, PER_ENTRY_MAX_BYTES
    MaxAtoms,            \* MAX_ATOMS_TOTAL
    MinLen, MaxLen,      \* ATOM_MIN_LEN, ATOM_MAX_LEN
    Broken,              \* a pin file that load_pins refuses
    StartHead, StartPins,    \* master and the pin file as the model starts
    PinFiles,            \* the pin files an operator may put in place
    MaxTicks,            \* bound: ticks of the refresh thread
    MaxEvents            \* bound: one-shots, signals, kills, losses of power, edits, pushes

Sources == Range(SourceList)
NoRev == "none"
NoPid == 0
Removed == [s \in {} |-> NoRev]     \* no pin file: every source is live
PinSets == UNION {[D -> Revs] : D \in SUBSET Sources}    \* Removed included

\* A tarball is a sequence of entries; an entry has a size, a path that may not
\* be one of the platform's, and a finite number of scalars that may be code.
IsTarball(t) ==
    /\ t \in Seq(Range(t))
    /\ \A e \in Range(t) : /\ e.size \in Nat /\ IsFiniteSet(e.codes)
                          /\ e.matches \in BOOLEAN /\ e.readable \in BOOLEAN
                          /\ e.named \in BOOLEAN /\ (e.matches => e.named)

ASSUME AtomFetchAssumption ==
    /\ SourceList \in Seq(Sources) /\ SourceList # <<>> /\ IsInjective(SourceList)
    /\ NoRev \notin Revs /\ "torn" \notin Revs /\ Broken \notin PinSets
    /\ \A s \in Sources : DOMAIN Tarball[s] = Revs
    /\ \A s \in Sources, r \in Revs : IsTarball(Tarball[s][r])
    /\ Pids \subseteq Nat \ {NoPid} /\ {MaxAtoms, MaxTotal, MaxEntry} \subseteq Nat
    /\ StartHead \in [Sources -> Revs]
    /\ StartPins \in PinSets \cup {Broken} /\ PinFiles \subseteq PinSets \cup {Broken}

VARIABLES
    head,            \* upstream: source -> the revision of its master branch
    pin_file,        \* /etc/atty-guard/atoms.pins.toml
    file, stable,    \* atoms.system.txt; what a power loss may leave of it
    tmp,             \* pid -> its temporary file: "none", "written", "synced"
    snapshot,        \* the drift file: source -> behind_since, 0 for null
    mem, loaded,     \* system_fetched_atoms, system_fetched_loaded
    pid, uid,        \* per fetcher: its process id, its user
    pc, pins,        \* per fetcher: control, cfg.pins
    todo, got,       \* per fetcher: the sources to go, what they gave
    load, copy,      \* per reader of the file: control, what it has read
    requested,       \* the daemon's SHUTDOWN flag
    now, events,     \* ticks of the refresh thread; the events so far
    lapsed, pinned,  \* history: sources that were live once; revisions pinned
    behind,          \* history: the first tick of the running drift, or 0
    misread,         \* history: did the last tick fail to read the snapshot?
    installed        \* history: has this daemon put a corpus it read in place?

diskVars == <<file, stable, tmp>>
memVars == <<mem, loaded, load, copy, installed>>
fetchVars == <<pid, uid, pc, pins, todo, got>>
pinVars == <<pin_file, lapsed, pinned>>
driftVars == <<snapshot, behind, misread>>
vars == <<head, pinVars, diskVars, driftVars, memVars, fetchVars, requested, now, events>>

Fetchers == {"daemon", "oneshot"}
Readers == {"server", "refresh"}
NoCorpus == [atoms |-> {}, from |-> [s \in Sources |-> NoRev]]
Torn == [atoms |-> {}, from |-> [s \in Sources |-> "torn"]]
NoFile == [corpus |-> NoCorpus, uid |-> "none", synced |-> TRUE]
Up == pid["daemon"] # NoPid

-----------------------------------------------------------------------------
(* From a tarball to atoms.                                                *)

\* is_low_value_atom: one word that is a common command, or a short one
\* without any shell structure.
LowValue(l) == l.words = 1 /\ (l.common \/ (l.len < 5 /\ ~l.structure))

\* atom_from_code: the first line that is not blank decides.  Its text and its
\* length are those without the trailing comment.
AtomFromCode(code) ==
    LET lines == SelectSeq(code, LAMBDA l : l.len > 0)
        l == Head(lines)
    IN IF lines = <<>> \/ l.len \notin MinLen..MaxLen \/ l.comment \/ l.placeholder \/ LowValue(l)
       THEN {} ELSE {l.text}

\* extract_gtfobins_atoms and extract_sigma_atoms: the scalars under the keys
\* they look at; nothing of an entry that does not parse.
Extract(e) == IF e.parses THEN UNION {AtomFromCode(c) : c \in e.codes} ELSE {}

\* What an entry counts for: one without a path is passed over at once.
Declared(e) == IF e.named THEN e.size ELSE 0

\* walk_tarball_atoms, one entry: the declared size of every entry that has a
\* path counts, an entry that is matched may not be too large, one that cannot
\* be read is skipped, and the atoms are counted as they come.
WalkEntry(acc, e) ==
    LET total == acc.total + Declared(e)
        atoms == acc.atoms \cup Extract(e)
        Refuse == [acc EXCEPT !.ok = FALSE]
    IN IF ~acc.ok THEN acc
       ELSE IF total > MaxTotal THEN Refuse
       ELSE IF ~e.matches THEN [acc EXCEPT !.total = total]
       ELSE IF e.size > MaxEntry THEN Refuse
       ELSE IF ~e.readable THEN [acc EXCEPT !.total = total]
       ELSE IF Cardinality(atoms) > MaxAtoms THEN Refuse
       ELSE [acc EXCEPT !.total = total, !.atoms = atoms]

\* The entries one after the other.
NothingRead == [ok |-> TRUE, total |-> 0, atoms |-> {}]
Walk(entries) ==
    LET after[i \in 0..Len(entries)] ==
            IF i = 0 THEN NothingRead ELSE WalkEntry(after[i - 1], entries[i])
    IN after[Len(entries)]
Walked == [s \in Sources |-> [r \in Revs |-> Walk(Tarball[s][r])]]

Event == events < MaxEvents /\ events' = events + 1

-----------------------------------------------------------------------------
(* Fetching.                                                               *)

Goto(f, l) == pc' = [pc EXCEPT ![f] = l]
NothingYet == [atoms |-> {}, from |-> [s \in Sources |-> NoRev], any |-> FALSE]

\* Mutant: a pin file that is refused counts as removed.
Reloaded_Lenient(known) == IF pin_file = Broken THEN Removed ELSE pin_file

\* Mutant: what the file says is used unchecked.
Reloaded_Raw(known) == pin_file

\* load_pins, as the refresh thread uses it: a file that is refused leaves the
\* pins of the last good load.
Reloaded(known) == IF pin_file = Broken THEN known ELSE pin_file

\* A tick of the refresh thread starts with the pin file.
Tick ==
    /\ now' = now + 1
    /\ pins' = [pins EXCEPT !["daemon"] = Reloaded(@)]
    /\ todo' = [todo EXCEPT !["daemon"] = SourceList]
    /\ Goto("daemon", "fetch")

\* The first tick comes before the first sleep.
FirstTick ==
    /\ pc["daemon"] = "tick" /\ Tick
    /\ UNCHANGED <<head, pinVars, diskVars, driftVars, memVars, pid, uid, got, requested, events>>

\* verify_digest: what the server sent for a pinned source is the pin's.
DigestOk(f, s, sent) == s \in DOMAIN pins[f] => sent = pins[f][s]

\* fetch_one: a live source gives its master branch; for a pinned one the
\* server may send anything.  A failed download, another digest and a tarball
\* that is refused cost the source its atoms and nothing else.
FetchOne(f) ==
    LET s == Head(todo[f]) IN
    /\ pc[f] = "fetch" /\ todo[f] # <<>>
    /\ todo' = [todo EXCEPT ![f] = Tail(@)]
    /\ \/ UNCHANGED got
       \/ \E sent \in IF s \in DOMAIN pins[f] THEN Revs ELSE {head[s]} :
            LET w == Walked[s][sent] IN
            /\ DigestOk(f, s, sent) /\ w.ok
            /\ got' = [got EXCEPT ![f] = [atoms |-> @.atoms \cup w.atoms,
                                          from |-> [@.from EXCEPT ![s] = sent],
                                          any |-> @.any \/ w.atoms # {}]]
    /\ UNCHANGED <<head, pinVars, diskVars, driftVars, memVars, pid, uid, pc, pins, requested, now, events>>

-----------------------------------------------------------------------------
(* The end of fetch_all, and write_atoms.                                  *)

writeUnchanged == <<head, pinVars, driftVars, mem, loaded, copy, installed, todo, requested, now, events>>

\* fetch_all is over, for better or worse: the one-shot process ends.
Done(f, next) ==
    /\ got' = [got EXCEPT ![f] = NothingYet]
    /\ IF f = "daemon"
       THEN Goto(f, next) /\ UNCHANGED <<pid, uid, pins>>
       ELSE /\ Goto(f, "down")
            /\ pid' = [pid EXCEPT ![f] = NoPid] /\ uid' = [uid EXCEPT ![f] = "none"]
            /\ pins' = [pins EXCEPT ![f] = Removed]
Fails(f) == Done(f, "sleep") /\ UNCHANGED load

\* Mutant: sync_all is left out.
Create_NoSync(f) ==
    /\ pc[f] = "fetch" /\ todo[f] = <<>>
    /\ got[f].any /\ Cardinality(got[f].atoms) <= MaxAtoms /\ tmp[pid[f]] = "none"
    /\ tmp' = [tmp EXCEPT ![pid[f]] = "written"]
    /\ Goto(f, "rename")
    /\ UNCHANGED <<file, stable, got, load, pid, uid, pins, writeUnchanged>>

\* With nothing from any source, or too much, the last good file stays.
\* Otherwise create_new, write_all, the chmod and sync_all: a temporary file
\* that is there already is an error; a later error removes it.
Create(f) ==
    /\ pc[f] = "fetch" /\ todo[f] = <<>>
    /\ UNCHANGED <<file, stable, writeUnchanged>>
    /\ \/ /\ got[f].any /\ Cardinality(got[f].atoms) <= MaxAtoms /\ tmp[pid[f]] = "none"
          /\ tmp' = [tmp EXCEPT ![pid[f]] = "synced"]
          /\ Goto(f, "rename")
          /\ UNCHANGED <<got, load, pid, uid, pins>>
       \/ UNCHANGED tmp /\ Fails(f)

\* rename, whose error leaves the temporary file, and fsync_parent_dir, whose
\* error nobody hears of.  The refresh thread goes on to load the file.
Rename(f) ==
    /\ pc[f] = "rename"
    /\ UNCHANGED writeUnchanged
    /\ \/ /\ file' = [corpus |-> [atoms |-> got[f].atoms, from |-> got[f].from],
                      uid |-> uid[f], synced |-> tmp[pid[f]] = "synced"]
          /\ stable' \in {{file'}, stable \cup {file'}}
          /\ tmp' = [tmp EXCEPT ![pid[f]] = "none"]
          /\ Done(f, "reload")
          /\ load' = IF f = "daemon" THEN [load EXCEPT !["refresh"] = "read"] ELSE load
       \/ Fails(f) /\ UNCHANGED diskVars

-----------------------------------------------------------------------------
(* reload_system_fetched: the start-up, the refresh thread, the classifier. *)

readUnchanged == <<head, pinVars, diskVars, driftVars, pid, uid, pins, todo, got, requested, now, events>>
Refused == file # NoFile /\ file.uid # "atty"
AfterLoad(r) == IF r = "refresh" THEN Goto("daemon", "drift") ELSE UNCHANGED pc

\* ensure_system_fetched_loaded: a classify request that finds no copy.
\* Requests are served once the load of the start-up is over.
Classify ==
    /\ Up /\ load["server"] = "idle" /\ ~loaded
    /\ load' = [load EXCEPT !["server"] = "read"]
    /\ UNCHANGED <<mem, loaded, installed, copy, pc, readUnchanged>>

\* Mutant: the copy counts as loaded when the file is refused.
Read_MarksLoaded(r) ==
    /\ load[r] = "read"
    /\ IF Refused THEN load' = [load EXCEPT ![r] = "idle"] /\ AfterLoad(r) /\ loaded' = TRUE /\ UNCHANGED copy
       ELSE /\ load' = [load EXCEPT ![r] = "install"] /\ copy' = [copy EXCEPT ![r] = file.corpus]
            /\ UNCHANGED <<loaded, pc>>
    /\ UNCHANGED <<mem, installed, readUnchanged>>

\* read_system_atoms_file_checked: a file of another user is refused and the
\* copy in memory stays.  No file is an empty corpus.
Read(r) ==
    /\ load[r] = "read"
    /\ IF Refused THEN load' = [load EXCEPT ![r] = "idle"] /\ AfterLoad(r) /\ UNCHANGED copy
       ELSE /\ load' = [load EXCEPT ![r] = "install"] /\ copy' = [copy EXCEPT ![r] = file.corpus]
            /\ UNCHANGED pc
    /\ UNCHANGED <<mem, loaded, installed, readUnchanged>>

Install(r) ==
    /\ load[r] = "install"
    /\ load' = [load EXCEPT ![r] = "idle"]
    /\ mem' = copy[r] /\ loaded' = TRUE /\ installed' = TRUE
    /\ copy' = [copy EXCEPT ![r] = NoCorpus]
    /\ AfterLoad(r)
    /\ UNCHANGED readUnchanged

-----------------------------------------------------------------------------
(* The drift snapshot and the pause between two ticks.                     *)

\* Mutant: a probe that fails clears the anchor.
DiffStep_Clears(prev, pin, upstream) ==
    IF pin = NoRev \/ pin = upstream \/ upstream = NoRev THEN 0
    ELSE IF prev # 0 THEN prev ELSE now

\* diff_step: since when the pin has been behind; NoRev for a source that is
\* live, and for a probe that failed.
DiffStep(prev, pin, upstream) ==
    IF pin = NoRev \/ pin = upstream THEN 0
    ELSE IF upstream = NoRev \/ prev # 0 THEN prev ELSE now

PinOf(s) == IF s \in DOMAIN pins["daemon"] THEN pins["daemon"][s] ELSE NoRev

\* read_snapshot, compute_snapshot and write_snapshot.  Each may fail: a snapshot
\* that cannot be read or parsed is taken for none, as on the first tick.
Drift ==
    /\ pc["daemon"] = "drift"
    /\ \E up \in [Sources -> Revs \cup {NoRev}], reads, writes \in BOOLEAN :
        LET Anchor(s) == DiffStep(IF reads THEN snapshot[s] ELSE 0, PinOf(s), up[s]) IN
        /\ \A s \in Sources : up[s] \in {head[s], NoRev}
        /\ snapshot' = IF writes THEN [s \in Sources |-> Anchor(s)] ELSE snapshot
        /\ misread' = ~reads
    /\ behind' = [s \in Sources |-> IF PinOf(s) \in {NoRev, head[s]} THEN 0
                                    ELSE IF behind[s] # 0 THEN behind[s] ELSE now]
    /\ Goto("daemon", "sleep")
    /\ UNCHANGED <<head, pinVars, diskVars, memVars, pid, uid, pins, todo, got, requested, now, events>>

\* Mutant: the flag is not looked at after the sleep.
Wake_NoCheck ==
    /\ pc["daemon"] = "sleep" /\ now < MaxTicks /\ Tick
    /\ UNCHANGED <<head, pinVars, diskVars, driftVars, memVars, pid, uid, got, requested, events>>

\* sleep_interruptible ends when the interval is over or the flag is set; the
\* flag ends the loop.
Wake ==
    /\ pc["daemon"] = "sleep"
    /\ IF requested THEN Goto("daemon", "stopped") /\ UNCHANGED <<now, pins, todo>>
                    ELSE now < MaxTicks /\ Tick
    /\ UNCHANGED <<head, pinVars, diskVars, driftVars, memVars, pid, uid, got, requested, events>>

\* SIGTERM, SIGINT or SIGHUP.
Signal ==
    /\ Up /\ ~requested /\ Event
    /\ requested' = TRUE
    /\ UNCHANGED <<head, pinVars, diskVars, driftVars, memVars, fetchVars, now>>

-----------------------------------------------------------------------------
(* Processes, the operator and upstream.                                   *)

Free == Pids \ {pid[f] : f \in Fetchers}

\* The daemon starts: with a pin file that is refused it runs without a
\* refresh thread.  The start-up loads the file while the thread runs.
StartDaemon(p) ==
    /\ ~Up /\ p \in Free /\ now < MaxTicks
    /\ pid' = [pid EXCEPT !["daemon"] = p]
    /\ uid' = [uid EXCEPT !["daemon"] = "atty"]
    /\ pins' = [pins EXCEPT !["daemon"] = Reloaded(Removed)]
    /\ Goto("daemon", IF pin_file = Broken THEN "stopped" ELSE "tick")
    /\ load' = [load EXCEPT !["server"] = "read"]
    /\ UNCHANGED <<head, pinVars, diskVars, driftVars, mem, loaded, installed, copy, todo, got, requested, now, events>>

\* --update-atoms-now, by the daemon's user or by root.
StartOneShot(p, u) ==
    /\ pid["oneshot"] = NoPid /\ p \in Free
    /\ Event
    /\ pin_file # Broken
    /\ pid' = [pid EXCEPT !["oneshot"] = p]
    /\ uid' = [uid EXCEPT !["oneshot"] = u]
    /\ pins' = [pins EXCEPT !["oneshot"] = pin_file]
    /\ todo' = [todo EXCEPT !["oneshot"] = SourceList]
    /\ Goto("oneshot", "fetch")
    /\ UNCHANGED <<head, pinVars, diskVars, driftVars, memVars, got, requested, now>>

Ended(F) ==
    /\ pid' = [f \in Fetchers |-> IF f \in F THEN NoPid ELSE pid[f]]
    /\ pc' = [f \in Fetchers |-> IF f \in F THEN "down" ELSE pc[f]]
    /\ uid' = [f \in Fetchers |-> IF f \in F THEN "none" ELSE uid[f]]
    /\ pins' = [f \in Fetchers |-> IF f \in F THEN Removed ELSE pins[f]]
    /\ todo' = [f \in Fetchers |-> IF f \in F THEN <<>> ELSE todo[f]]
    /\ got' = [f \in Fetchers |-> IF f \in F THEN NothingYet ELSE got[f]]
    /\ IF "daemon" \in F
       THEN /\ mem' = NoCorpus /\ loaded' = FALSE /\ installed' = FALSE /\ requested' = FALSE
            /\ load' = [r \in Readers |-> "idle"] /\ copy' = [r \in Readers |-> NoCorpus]
       ELSE UNCHANGED <<memVars, requested>>

\* A process is killed: its temporary file stays.
Crash(f) ==
    /\ pid[f] # NoPid /\ Event
    /\ Ended({f})
    /\ UNCHANGED <<head, pinVars, diskVars, driftVars, now>>

\* The power fails: a name may be back at what it was before the last rename,
\* and what was not synced may be torn.
AfterLoss(n) == IF n.synced THEN n ELSE [n EXCEPT !.corpus = Torn, !.synced = TRUE]
PowerLoss ==
    /\ Event
    /\ \E n \in stable : file' = AfterLoss(n) /\ stable' = {AfterLoss(n)}
    /\ Ended(Fetchers)
    /\ UNCHANGED <<head, pinVars, tmp, driftVars, now>>

\* The operator edits or removes the pin file, or runs `atoms pin-init', whose
\* template without an entry is refused until it is edited.
EditPins(x) ==
    /\ Event
    /\ x # pin_file
    /\ pin_file' = x
    /\ lapsed' = IF x = Broken THEN lapsed ELSE lapsed \cup (Sources \ DOMAIN x)
    /\ pinned' = IF x = Broken THEN pinned
                 ELSE [s \in Sources |-> IF s \in DOMAIN x THEN pinned[s] \cup {x[s]} ELSE pinned[s]]
    /\ UNCHANGED <<head, diskVars, driftVars, memVars, fetchVars, requested, now>>

\* The remedy the gate's message names: `sudo chown atty:atty'.
Chown ==
    /\ file # NoFile /\ file.uid = "root"
    /\ file' = [file EXCEPT !.uid = "atty"]
    /\ stable' = (stable \ {file}) \cup {file'}
    /\ UNCHANGED <<head, pinVars, tmp, driftVars, memVars, fetchVars, requested, now, events>>

Push(s, r) ==
    /\ Event
    /\ r # head[s]
    /\ head' = [head EXCEPT ![s] = r]
    /\ UNCHANGED <<pinVars, diskVars, driftVars, memVars, fetchVars, requested, now>>

Init ==
    /\ head = StartHead
    /\ pin_file = StartPins
    /\ lapsed = IF pin_file = Broken THEN {} ELSE Sources \ DOMAIN pin_file
    /\ pinned = [s \in Sources |-> IF pin_file # Broken /\ s \in DOMAIN pin_file
                                   THEN {pin_file[s]} ELSE {}]
    /\ file = NoFile /\ stable = {NoFile} /\ tmp = [p \in Pids |-> "none"]
    /\ snapshot = [s \in Sources |-> 0] /\ behind = [s \in Sources |-> 0]
    /\ misread = FALSE
    /\ mem = NoCorpus /\ loaded = FALSE /\ installed = FALSE
    /\ pid = [f \in Fetchers |-> NoPid] /\ uid = [f \in Fetchers |-> "none"]
    /\ pc = [f \in Fetchers |-> "down"] /\ pins = [f \in Fetchers |-> Removed]
    /\ todo = [f \in Fetchers |-> <<>>] /\ got = [f \in Fetchers |-> NothingYet]
    /\ load = [r \in Readers |-> "idle"] /\ copy = [r \in Readers |-> NoCorpus]
    /\ requested = FALSE /\ now = 0
    /\ events = 0

Fetching(f) == FetchOne(f) \/ Create(f) \/ Rename(f)
Loading(r) == Read(r) \/ Install(r)

Refresh == FirstTick \/ Fetching("daemon") \/ Loading("refresh") \/ Drift \/ Wake
Server == Classify \/ Loading("server")

Next ==
    \/ Refresh \/ Server \/ Signal
    \/ Fetching("oneshot")
    \/ \E f \in Fetchers : Crash(f)
    \/ PowerLoss \/ Chown
    \/ \E p \in Pids : StartDaemon(p) \/ \E u \in {"atty", "root"} : StartOneShot(p, u)
    \/ \E x \in PinFiles : EditPins(x)
    \/ \E s \in Sources, r \in Revs : Push(s, r)

\* The two threads of the daemon run when they can: downloads time out, and
\* the user keeps typing.
Fairness == WF_vars(Refresh) /\ WF_vars(Server)

Spec == Init /\ [][Next]_vars /\ Fairness

-----------------------------------------------------------------------------
(* Properties.                                                             *)

Corpora == [atoms : SUBSET UNION {Walked[s][r].atoms : s \in Sources, r \in Revs},
            from : [Sources -> Revs \cup {NoRev}]]

\* Every variable has its type: among others, a fetcher never runs with pins
\* that load_pins refuses, and two live processes never share a temporary name.
TypeOK ==
    /\ file.corpus \in Corpora \cup {Torn} /\ file \in stable
    /\ mem \in Corpora \cup {Torn}
    /\ pid \in [Fetchers -> Pids \cup {NoPid}]
    /\ (Up /\ pid["oneshot"] # NoPid) => pid["daemon"] # pid["oneshot"]
    /\ \A f \in Fetchers : pid[f] = NoPid <=> pc[f] = "down"
    /\ pins \in [Fetchers -> PinSets]
    /\ snapshot \in [Sources -> 0..now]
    /\ ~Up => ~loaded /\ mem = NoCorpus

\* The declared sizes of the entries that have a path, together.
Size(t) ==
    LET upTo[i \in 0..Len(t)] == IF i = 0 THEN 0 ELSE upTo[i - 1] + Declared(t[i])
    IN upTo[Len(t)]

\* What a tarball may give, in one piece: small enough, entry by entry and as
\* a whole, and the atoms of the entries that can be read.
Whole(t) ==
    LET read == {e \in Range(t) : e.matches /\ e.readable}
        atoms == UNION {Extract(e) : e \in read}
    IN [ok |-> /\ Size(t) <= MaxTotal
               /\ \A e \in Range(t) : e.matches => e.size <= MaxEntry
               /\ Cardinality(atoms) <= MaxAtoms,
        atoms |-> atoms]
Reference == [s \in Sources |-> [r \in Revs |-> Whole(Tarball[s][r])]]

\* "Reader (the AtomMatcher loader) never sees a half-written file"
\* (write_atoms): what is published, and what the classifier matches against,
\* is the whole extraction of acceptable tarballs, under concurrent writers, a
\* kill and a loss of power at any step, and within the cap on atoms.
PublishedWhole ==
    \A c \in {file.corpus, mem} :
        LET from == {s \in Sources : c.from[s] # NoRev} IN
        /\ c # Torn
        /\ \A s \in from : Reference[s][c.from[s]].ok
        /\ c.atoms = UNION {Reference[s][c.from[s]].atoms : s \in from}
        /\ Cardinality(c.atoms) <= MaxAtoms

\* "the operator opted in, silent fall-back to live tracking would defeat the
\* point" (load_pins): from a source that has never been live, only revisions
\* the operator has pinned are published, however the pin file was broken, the
\* daemon restarted or the server answered in between.
PinsHold ==
    \A s \in Sources \ lapsed, c \in {file.corpus, mem} : c.from[s] \in pinned[s] \cup {NoRev}

\* "losing the audit trail of `I've been behind for 3 weeks'" (diff_step): the
\* anchor of a drift stays for as long as the drift lasts, over failed probes,
\* failed writes, kills and restarts.  One thing loses it: a snapshot that is
\* there and cannot be read, after which the drift begins anew or not at all.
AnchorKept ==
    [][\A s \in Sources : (snapshot[s] > 0 /\ behind[s] > 0 /\ behind'[s] = behind[s])
                              => \/ snapshot'[s] = snapshot[s]
                                 \/ misread' /\ snapshot'[s] \in {0, now}]_vars

\* "a SIGTERM during a 6h sleep wakes the thread" (spawn_periodic_refresh): a
\* signal ends the refresh thread, wherever it finds it.
RefreshStops == requested ~> pc["daemon"] \in {"stopped", "down"}

\* "lets `sudo chown atty:atty atoms.system.txt` take effect on the very next
\* classify" (ensure_system_fetched_loaded): a corpus that passes the gate is
\* loaded, unless it is replaced by one that does not.
LoadRecovers == (Up /\ ~installed /\ ~Refused) ~> (installed \/ ~Up \/ Refused)

=============================================================================
