----------------------------- MODULE ThreatMap -----------------------------
(***************************************************************************)
(* The PID -> threat-level map of atty-guard and the requests that use it. *)
(*                                                                         *)
(* One thread per connection serves SetThreatLevel, GetThreatLevel,        *)
(* SetWatch and the threat upgrade of Classify.  A thread reads /proc      *)
(* several times, takes the map's mutex for one statement at a time and    *)
(* writes the kernel's BPF maps after releasing it, so every /proc read,   *)
(* every critical section and every BPF call is a step of its own and the  *)
(* steps of the threads interleave with each other and with processes      *)
(* being born, forking and dying under the daemon's feet.                  *)
(*                                                                         *)
(* A process is identified by its pid and its starttime; `born[p]' counts  *)
(* the occupants pid p has had, and stands for the starttime of the        *)
(* latest.  The kernel reuses pid numbers but never a (pid, starttime).    *)
(***************************************************************************)
EXTENDS Naturals, FiniteSets

CONSTANTS Pids,        \* pid numbers the kernel hands out
          Uids, Root,  \* real uids; Root is uid 0
          Threads,     \* connection threads of the daemon
          Mode,        \* how the BPF object was loaded
          Enforce,     \* enforcement depth of the LSM hook
          MapCap,      \* max_entries of each BPF hash map
          DeletesFail, \* may the deletion of a BPF entry fail?
          MaxBorn      \* bound: occupants per pid

ASSUME ThreatMapAssumption ==
    /\ Root \in Uids
    /\ Mode \in {"None", "Observe", "Warn", "Block"}
    /\ Enforce \in {"one_level", "ancestry", "propagate"}
    /\ MapCap \in Nat
    /\ DeletesFail \in BOOLEAN
    /\ MaxBorn \in Nat

Levels == {"Low", "High", "Critical"}
Kinds == {"Set", "Watch", "Get", "Classify"}

\* A map entry: the level, the starttime it was set for, and (history) who
\* set it.  A pid without an entry reads as Low.
Entries == [level : Levels, start : Nat, by : Uids]
NoEntry == [level |-> "Low", start |-> 0, by |-> Root]

\* Only SetThreatLevel carries a level; Low asks for eviction.
Requests == {r \in [kind : Kinds, uid : Uids, pid : Pids, level : Levels] :
               r.kind # "Set" => r.level = "Low"}
NoRequest == [kind |-> "None"]
Marks(r)  == r.kind = "Set" /\ r.level # "Low"
Clears(r) == r.kind = "Set" /\ r.level = "Low"

VARIABLES
    proc, born, owner,      \* process table: state of pid, its starttime, its uid
    owned,                  \* history: every <<pid, starttime, uid>> that existed
    inner,                  \* ThreatMap.inner, the in-memory map
    marked,                 \* history: every <<pid, starttime>> ever marked
    threat_map, warn_pids, watch_pids,      \* kernel maps
    pc, req,                \* per thread: control and the request served
    start, stored,          \* per thread: the starttime and the entry read
    answer                  \* per thread: the last response

procVars   == <<proc, born, owner, owned>>
memVars    == <<inner, marked>>
kernelVars == <<threat_map, warn_pids, watch_pids>>
threadVars == <<pc, req, start, stored, answer>>
vars == <<procVars, memVars, kernelVars, threadVars>>

-----------------------------------------------------------------------------
(* The process table and the kernel hooks that fire on fork and exit.      *)

\* A zombie keeps its pid and its /proc directory until it is reaped.
InProc(p) == proc[p] # "free"
Is(p, s) == InProc(p) /\ born[p] = s

\* A BPF hash map accepts a key it already has, or a new one below its capacity.
Fits(keys, p) == p \in keys \/ Cardinality(keys) < MapCap
Threats == {p \in Pids : threat_map[p] # "Low"}

\* A process is born on the free pid p, forked by `parents' (at most one
\* modelled process).  trace_fork copies the watch mark, and in propagate
\* mode the Critical mark, from the parent.
Fork(p, u, parents) ==
    /\ proc[p] = "free" /\ born[p] < MaxBorn
    /\ \A q \in parents : proc[q] = "running"
    /\ proc' = [proc EXCEPT ![p] = "running"]
    /\ born' = [born EXCEPT ![p] = @ + 1]
    /\ owner' = [owner EXCEPT ![p] = u]
    /\ owned' = owned \cup {<<p, born[p] + 1, u>>}
    /\ watch_pids' = IF parents \cap watch_pids # {} /\ Fits(watch_pids, p)
                       THEN watch_pids \cup {p} ELSE watch_pids
    /\ threat_map' =
         IF /\ Enforce = "propagate"
            /\ \E q \in parents : threat_map[q] = "Critical"
            /\ Fits(Threats, p)
           THEN [threat_map EXCEPT ![p] = "Critical"] ELSE threat_map
    /\ UNCHANGED <<memVars, warn_pids, threadVars>>

\* The process on pid p exits: trace_exit drops its watch mark and its
\* threat_map entry.  Nothing drops its warn_pids entry.
Exit(p) ==
    /\ proc[p] = "running"
    /\ proc' = [proc EXCEPT ![p] = "zombie"]
    /\ watch_pids' = watch_pids \ {p}
    /\ threat_map' = [threat_map EXCEPT ![p] = "Low"]
    /\ UNCHANGED <<born, owner, owned, memVars, warn_pids, threadVars>>

\* Its parent collects it and the pid is free again.
Reap(p) ==
    /\ proc[p] = "zombie"
    /\ proc' = [proc EXCEPT ![p] = "free"]
    /\ UNCHANGED <<born, owner, owned, memVars, kernelVars, threadVars>>

-----------------------------------------------------------------------------
(* Requests.                                                               *)

\* A response: its outcome and, if it is a level above Low, the process that
\* level is given for.
NoAnswer == [out |-> "none", of |-> <<>>]

\* The response is written and the request's locals are gone.
Reply(t, a) ==
    /\ pc' = [pc EXCEPT ![t] = "idle"]
    /\ req' = [req EXCEPT ![t] = NoRequest]
    /\ start' = [start EXCEPT ![t] = 0]
    /\ stored' = [stored EXCEPT ![t] = NoEntry]
    /\ answer' = [answer EXCEPT ![t] = a]
Answered(t, out) == Reply(t, [out |-> out, of |-> <<>>])

\* The request goes on at label l, with no new local, or with one.
Goto(t, l) == pc' = [pc EXCEPT ![t] = l] /\ UNCHANGED <<req, start, stored, answer>>
GotoStart(t, l, s) ==
    /\ pc' = [pc EXCEPT ![t] = l]
    /\ start' = [start EXCEPT ![t] = s]
    /\ UNCHANGED <<req, stored, answer>>

\* The first step a request takes after it has been parsed: root skips the gate.
FirstStep(r) ==
    IF r.uid = Root
      THEN IF Marks(r) THEN "setStart" ELSE IF Clears(r) THEN "evict"
           ELSE IF r.kind = "Watch" THEN "bpfWatch" ELSE "lookup"
      ELSE IF Marks(r) \/ r.kind = "Watch" THEN "start1" ELSE "owner"

Receive(t, r) ==
    /\ pc[t] = "idle"
    /\ pc' = [pc EXCEPT ![t] = FirstStep(r)]
    /\ req' = [req EXCEPT ![t] = r]
    /\ answer' = [answer EXCEPT ![t] = NoAnswer]
    /\ UNCHANGED <<procVars, memVars, kernelVars, start, stored>>

\* pid_starttime, before the ownership check.  The pid may be gone, and the
\* read may fail although it is not.
ReadStart1(t) ==
    /\ pc[t] = "start1"
    /\ \/ InProc(req[t].pid) /\ GotoStart(t, "owner", born[req[t].pid])
       \/ Answered(t, "error")
    /\ UNCHANGED <<procVars, memVars, kernelVars>>

\* Where an accepted ownership check leads.
AfterOwner(r) ==
    IF Marks(r) \/ r.kind = "Watch" THEN "start2" ELSE IF Clears(r) THEN "evict" ELSE "lookup"

\* A dead pid may be cleared or read, never marked, watched or classified by.
AllowsGone(r) == r.kind = "Get" \/ Clears(r)

\* pid_owner_uid: the pid's owner, gone, or a failed read.  Where the others
\* refuse the request, Classify goes on without the upgrade: both are "error".
CheckOwner(t) ==
    /\ pc[t] = "owner"
    /\ \/ /\ IF InProc(req[t].pid) THEN owner[req[t].pid] = req[t].uid
                                  ELSE AllowsGone(req[t])
          /\ Goto(t, AfterOwner(req[t]))
       \/ Answered(t, "error")
    /\ UNCHANGED <<procVars, memVars, kernelVars>>

\* Mutant: the second read only checks that the pid exists.
SameStart_Exists(t) == InProc(req[t].pid)

\* pid_starttime again: the request goes on only with the identity whose
\* owner was checked.
SameStart(t) == Is(req[t].pid, start[t])

ReadStart2(t) ==
    /\ pc[t] = "start2"
    /\ \/ SameStart(t) /\ Goto(t, IF req[t].kind = "Watch" THEN "bpfWatch" ELSE "commit")
       \/ Answered(t, "error")
    /\ UNCHANGED <<procVars, memVars, kernelVars>>

\* ThreatMap::set reads the starttime itself; only root reaches it with a mark.
SetReadStart(t) ==
    /\ pc[t] = "setStart"
    /\ \/ InProc(req[t].pid) /\ GotoStart(t, "commit", born[req[t].pid])
       \/ Answered(t, "error")
    /\ UNCHANGED <<procVars, memVars, kernelVars>>

\* set_with_starttime_inner, the insert under the mutex.
Commit(t) ==
    LET p == req[t].pid IN
    /\ pc[t] = "commit"
    /\ inner' = [inner EXCEPT ![p] = [level |-> req[t].level,
                                        start |-> start[t], by |-> req[t].uid]]
    /\ marked' = marked \cup {<<p, start[t]>>}
    /\ Goto(t, "bpfSet")
    /\ UNCHANGED <<procVars, kernelVars>>

\* The write-through after the mutex is released; a failed update is logged.
\* Warn mode keeps Critical in warn_pids, block mode in threat_map; both
\* keep High in threat_map.
BpfSet(t) ==
    LET p == req[t].pid
        l == req[t].level
    IN
    /\ pc[t] = "bpfSet"
    /\ threat_map' =
         IF /\ Mode = "Block" \/ (Mode = "Warn" /\ l = "High")
            /\ Fits(Threats, p)
           THEN [threat_map EXCEPT ![p] = l] ELSE threat_map
    /\ warn_pids' = IF Mode = "Warn" /\ l = "Critical" /\ Fits(warn_pids, p)
                      THEN warn_pids \cup {p} ELSE warn_pids
    /\ Answered(t, "ok")
    /\ UNCHANGED <<procVars, memVars, watch_pids>>

\* set_watch: fails without an attached eBPF object or when the map is full.
BpfWatch(t) ==
    LET p == req[t].pid IN
    /\ pc[t] = "bpfWatch"
    /\ IF Mode # "None" /\ Fits(watch_pids, p)
         THEN watch_pids' = watch_pids \cup {p} /\ Answered(t, "ok")
         ELSE UNCHANGED watch_pids /\ Answered(t, "error")
    /\ UNCHANGED <<procVars, memVars, threat_map, warn_pids>>

\* Mutant: the kernel is not told.
Evict_MemoryOnly(t) ==
    LET p == req[t].pid IN
    /\ pc[t] = "evict"
    /\ inner' = [inner EXCEPT ![p] = NoEntry]
    /\ Answered(t, "ok")
    /\ UNCHANGED <<procVars, marked, kernelVars>>

\* evict: whatever entry the pid has goes; the kernel is told only if there
\* was one.
Evict(t) ==
    LET p == req[t].pid IN
    /\ pc[t] = "evict"
    /\ inner' = [inner EXCEPT ![p] = NoEntry]
    /\ IF inner[p] # NoEntry /\ Mode # "None" THEN Goto(t, "clearThreat")
                                              ELSE Answered(t, "ok")
    /\ UNCHANGED <<procVars, marked, kernelVars>>

\* Mutant: the response carries the level asked for.
ClearAnswer_Level(t) == req[t].level

\* What a request whose BPF clear is over answers: Low, or Ok for a Set.
ClearAnswer(t) == IF req[t].kind = "Set" THEN "ok" ELSE "level"

\* clear_both, one map after the other.  A deletion that fails is ignored.
ClearThreat(t) ==
    /\ pc[t] = "clearThreat"
    /\ \/ threat_map' = [threat_map EXCEPT ![req[t].pid] = "Low"]
       \/ DeletesFail /\ UNCHANGED threat_map
    /\ Goto(t, "clearWarn")
    /\ UNCHANGED <<procVars, memVars, warn_pids, watch_pids>>

ClearWarn(t) ==
    /\ pc[t] = "clearWarn"
    /\ \/ warn_pids' = warn_pids \ {req[t].pid}
       \/ DeletesFail /\ UNCHANGED warn_pids
    /\ Answered(t, ClearAnswer(t))
    /\ UNCHANGED <<procVars, memVars, threat_map, watch_pids>>

\* ThreatMap::get copies the entry under the mutex.
Lookup(t) ==
    LET e == inner[req[t].pid] IN
    /\ pc[t] = "lookup"
    /\ \/ e = NoEntry /\ Answered(t, "level")
       \/ /\ e # NoEntry
          /\ pc' = [pc EXCEPT ![t] = "verify"]
          /\ stored' = [stored EXCEPT ![t] = e]
          /\ UNCHANGED <<req, start, answer>>
    /\ UNCHANGED <<procVars, memVars, kernelVars>>

\* An answer with the stored level: "level" when the pid was seen to be the
\* process marked, "unsure" when /proc could not be read.
Serve(t, out) ==
    Reply(t, [out |-> out, of |-> <<req[t].pid, born[req[t].pid]>>])

\* Mutant: the starttime is not compared.
StillSame_Exists(t) == InProc(req[t].pid)

\* The copied entry still speaks of the process that has the pid now.
StillSame(t) == Is(req[t].pid, stored[t].start)

\* Then get reads the starttime with the mutex released.
Verify(t) ==
    /\ pc[t] = "verify"
    /\ \/ StillSame(t) /\ Serve(t, "level")
       \/ ~StillSame(t) /\ Goto(t, "evictStale")
       \/ Serve(t, "unsure")
    /\ UNCHANGED <<procVars, memVars, kernelVars>>

\* Mutant: an unconditional removal.
StillStored_Any(t) == inner[req[t].pid] # NoEntry

\* evict_if_stale removes the entry only if it is still the one that was read.
StillStored(t) == inner[req[t].pid] # NoEntry /\ inner[req[t].pid].start = stored[t].start

EvictIfStale(t) ==
    /\ pc[t] = "evictStale"
    /\ IF StillStored(t)
         THEN /\ inner' = [inner EXCEPT ![req[t].pid] = NoEntry]
              /\ IF Mode # "None" THEN Goto(t, "clearThreat") ELSE Answered(t, "level")
         ELSE UNCHANGED inner /\ Answered(t, "level")
    /\ UNCHANGED <<procVars, marked, kernelVars>>

-----------------------------------------------------------------------------
Init ==
    /\ proc = [p \in Pids |-> "free"]
    /\ born = [p \in Pids |-> 0]
    /\ owner = [p \in Pids |-> Root]
    /\ owned = {}
    /\ inner = [p \in Pids |-> NoEntry]
    /\ marked = {}
    /\ threat_map = [p \in Pids |-> "Low"]
    /\ warn_pids = {}
    /\ watch_pids = {}
    /\ pc = [t \in Threads |-> "idle"]
    /\ req = [t \in Threads |-> NoRequest]
    /\ start = [t \in Threads |-> 0]
    /\ stored = [t \in Threads |-> NoEntry]
    /\ answer = [t \in Threads |-> NoAnswer]

Handle(t) ==
    \/ ReadStart1(t) \/ CheckOwner(t) \/ ReadStart2(t) \/ SetReadStart(t)
    \/ Commit(t) \/ BpfSet(t) \/ BpfWatch(t)
    \/ Evict(t) \/ ClearThreat(t) \/ ClearWarn(t)
    \/ Lookup(t) \/ Verify(t) \/ EvictIfStale(t)

Next ==
    \/ \E p \in Pids, u \in Uids, parents \in SUBSET Pids :
          Cardinality(parents) <= 1 /\ Fork(p, u, parents)
    \/ \E p \in Pids : Exit(p) \/ Reap(p)
    \/ \E t \in Threads, r \in Requests : Receive(t, r)
    \/ \E t \in Threads : Handle(t)

Spec == Init /\ [][Next]_vars

-----------------------------------------------------------------------------
(* Properties.                                                             *)

Labels == {"idle", "start1", "owner", "start2", "setStart", "commit", "bpfSet",
           "bpfWatch", "evict", "clearThreat", "clearWarn", "lookup", "verify",
           "evictStale"}
Outs == {"none", "ok", "error", "level", "unsure"}

\* The values every variable may take.
TypeOK ==
    /\ proc \in [Pids -> {"free", "running", "zombie"}]
    /\ born \in [Pids -> Nat]
    /\ owner \in [Pids -> Uids]
    /\ owned \subseteq Pids \X Nat \X Uids
    /\ inner \in [Pids -> Entries]
    /\ marked \subseteq Pids \X Nat
    /\ threat_map \in [Pids -> Levels]
    /\ warn_pids \subseteq Pids
    /\ watch_pids \subseteq Pids
    /\ pc \in [Threads -> Labels]
    /\ req \in [Threads -> Requests \cup {NoRequest}]
    /\ start \in [Threads -> Nat]
    /\ stored \in [Threads -> Entries]
    /\ answer \in [Threads -> [out : Outs, of : (Pids \X Nat) \cup {<<>>}]]

\* SetThreatLevel: whatever happens to the pid between the two starttime
\* reads, the ownership check and the insert, a mark that a non-root caller
\* got into the map names a process (pid and starttime) that caller owned.
MarksAuthorised ==
    \A p \in Pids : inner[p].by # Root => <<p, inner[p].start, inner[p].by>> \in owned

\* GetThreatLevel and Classify: a level above Low served after a successful
\* /proc read is the level of a process that was itself marked and that had
\* the pid at that read; an earlier occupant's mark is never served.
NoInheritedLevel ==
    \A t \in Threads :
        answer[t].out = "level" /\ answer[t].of # <<>> => answer[t].of \in marked

\* evict_if_stale: the clean-up of a recycled pid never removes the mark of
\* the process that lives on it now, even one set between the read that
\* found the old entry stale and the removal.  A live process loses its
\* mark only to a request to clear it.
LiveMarkKept ==
    [][\A p \in Pids :
         inner[p] # NoEntry /\ inner'[p] = NoEntry /\ Is(p, inner[p].start)
           => \E t \in Threads : pc[t] = "evict" /\ Clears(req[t]) /\ req[t].pid = p
      ]_vars

\* The level the LSM hook finds for pid p; warn mode keeps Critical apart.
Kernel(p) == IF Mode = "Warn" /\ p \in warn_pids THEN "Critical" ELSE threat_map[p]

\* The module comment of threat_map.rs: the kernel-side hook reads the same
\* record that was written to the in-memory map.  Between requests the hook
\* finds the level of the entry for every process that is alive and marked, and
\* nothing but the level of the entry, or none, for any pid at all (except for
\* what fork propagation marked).
KernelAgreesWhenQuiet ==
    (\A t \in Threads : pc[t] = "idle") =>
      \A p \in Pids :
        /\ Enforce # "propagate" => Kernel(p) \in {"Low", inner[p].level}
        /\ inner[p] # NoEntry /\ Is(p, inner[p].start) /\ proc[p] = "running"
             => Kernel(p) = inner[p].level

=============================================================================
