----------------------------- MODULE ExecGate ------------------------------
(***************************************************************************)
(* What happens when a process of the session calls execve: the LSM hook   *)
(* and the fork and exit tracepoints in the kernel, the ring buffer, its   *)
(* consumer, the bounded queue to the classify worker, and the worker,     *)
(* which reads the command line of the process, routes it by the live      *)
(* profile and may kill it.                                                *)
(*                                                                         *)
(* The kernel's hooks are atomic.  Around them processes fork, create      *)
(* threads, exit and exec, a pid is reused, and the worker is late: it     *)
(* finds whatever has the pid by then.                                     *)
(*                                                                         *)
(* How marks get into the maps is ThreatMap's subject, how deny rules and  *)
(* the profile change ProfileSwitch's, and how a warning reaches its       *)
(* subscribers GuardServer's.  A process whose last task has exited is      *)
(* reaped at once: its pid is free.                                        *)
(***************************************************************************)
EXTENDS Naturals, FiniteSets, Sequences

CONSTANTS
    Pids, InitPid,     \* task ids; the process that adopts orphans, not among them
    Cmds,              \* commands
    Verdict,           \* command -> what the classifier says of it
    Denied,            \* commands the strict profile denies in the kernel
    Interpreters,      \* commands whose comm is that of an interpreter
    Profiles, Profile, \* the profiles an operator switches between, the configured one
    Shell,             \* the command an unrelated process starts with
    Settings,          \* settings of the daemon: where a Critical mark goes, and
                       \* the mode and max_depth of enforce_cfg
    SmartCanFreeze,    \* [security] smart_can_freeze
    CanKill,           \* does the daemon have CAP_KILL?
    MapCap,            \* max_entries of the maps
    RingCap, QueueCap, \* events the ring and the classify queue hold
    MaxSteps           \* bound: new tasks, execs and requests in all

NoCmd == "none"
NoEvent == [verdict |-> "none", pid |-> InitPid, argv0 |-> NoCmd, comm |-> NoCmd, born |-> 0]
MaxAncestry == 16      \* MAX_ANCESTRY

ASSUME ExecGateAssumption ==
    /\ InitPid \notin Pids /\ NoCmd \notin Cmds
    /\ Verdict \in [Cmds -> {"safe", "warn", "block"}]
    /\ Shell \in Cmds /\ Profile \in Profiles
    /\ Settings \subseteq [mode : {"Warn", "Block"}, depth : {"one_level", "ancestry", "propagate"}, max : Nat]
    /\ MapCap \in Nat /\ RingCap \in Nat /\ QueueCap \in Nat /\ MaxSteps \in Nat

VARIABLES
    task,            \* pid -> "free", "process" (a leader), "thread", or "zombie":
                     \* a leader that has exited before its threads
    tgid, ppid,      \* pid -> its process; the process of its real parent
    born,            \* pid -> how many tasks have had it
    cmd, next,       \* process -> its command line; task -> the one it is about to get
    threat_map,      \* pids marked Critical
    warn_pids, watch_pids,
    ring, queue,     \* the events buffer, the classify channel
    worker,          \* the classify worker: control, event, profile, command read
    profile,         \* active_profile
    setting,         \* the daemon's setting, fixed at its start
    steps,           \* steps so far of those that MaxSteps bounds
    tainted, scoped, \* history: the processes marked or watched, and what they
                     \* forked, each until its first thread exits
    lineage,         \* history: as scoped, each until its id is free
    stray,           \* history: the watched ids that became free with no exit
                     \* of theirs, and what their later owners forked
    overflow         \* history: has a map refused an entry?

taskVars == <<task, tgid, ppid, born, cmd, next>>
mapVars == <<threat_map, warn_pids, watch_pids>>
eventVars == <<ring, queue, worker>>
ghostVars == <<tainted, scoped, lineage, stray, overflow>>
vars == <<taskVars, mapVars, eventVars, profile, setting, steps, ghostVars>>

Running(p) == task[p] \in {"process", "thread"}
Process(p) == task[p] \in {"process", "zombie"}
Alive(p) == task[p] = "process"

\* The running tasks of a process, and all the ids it holds.
Group(p) == {q \in Pids : Running(q) /\ tgid[q] = p}
Members(p) == {q \in Pids : task[q] # "free" /\ tgid[q] = p}

\* Is a task of the process inside execve?  One at a time can be.
Execs(p) == \E q \in Group(p) : next[q] # NoCmd

Bounded == steps < MaxSteps /\ steps' = steps + 1

Fits(keys, p) == p \in keys \/ Cardinality(keys) < MapCap
Put(keys, p) == IF Fits(keys, p) THEN keys \cup {p} ELSE keys

-----------------------------------------------------------------------------
(* Tasks and the tracepoints on them.                                      *)

\* Mutant: the id of the thread that forks is looked up, ctx->parent_pid.
ForkKey_Tid(q) == q

\* The key trace_fork looks its marks up with: the process of the task.
ForkKey(q) == tgid[q]

\* trace_fork, for a new process and for a new thread alike.
TraceFork(child, q) ==
    LET watch == ForkKey(q) \in watch_pids
        crit == setting.depth = "propagate" /\ ForkKey(q) \in threat_map
    IN /\ watch_pids' = IF watch THEN Put(watch_pids, child) ELSE watch_pids
       /\ threat_map' = IF crit THEN Put(threat_map, child) ELSE threat_map
       /\ overflow' = (overflow \/ (watch /\ ~Fits(watch_pids, child)) \/ (crit /\ ~Fits(threat_map, child)))

NewTask(p, kind, group, parent) ==
    /\ task[p] = "free" /\ Bounded
    /\ task' = [task EXCEPT ![p] = kind]
    /\ born' = [born EXCEPT ![p] = @ + 1]
    /\ tgid' = [tgid EXCEPT ![p] = group]
    /\ ppid' = [ppid EXCEPT ![p] = parent]
    /\ UNCHANGED <<warn_pids, eventVars, profile, setting>>

\* A process nobody here knows starts on a free pid.
Start(p) ==
    /\ NewTask(p, "process", p, InitPid)
    /\ cmd' = [cmd EXCEPT ![p] = Shell]
    /\ UNCHANGED <<next, threat_map, watch_pids, ghostVars>>

\* What a child of task q inherits of x: its process's membership.
Inherit(x, p, q) == IF tgid[q] \in x THEN x \cup {p} ELSE x

\* Task q forks; the child runs the same command.
Fork(p, q) ==
    /\ Running(q) /\ next[q] = NoCmd
    /\ NewTask(p, "process", p, tgid[q])
    /\ cmd' = [cmd EXCEPT ![p] = cmd[tgid[q]]]
    /\ TraceFork(p, q)
    /\ tainted' = Inherit(tainted, p, q) /\ scoped' = Inherit(scoped, p, q)
    /\ lineage' = Inherit(lineage, p, q) /\ stray' = Inherit(stray, p, q)
    /\ UNCHANGED next

\* Task q creates a thread.
Clone(p, q) ==
    /\ Running(q) /\ next[q] = NoCmd
    /\ NewTask(p, "thread", tgid[q], ppid[tgid[q]])
    /\ TraceFork(p, q)
    /\ stray' = Inherit(stray, p, q)
    /\ UNCHANGED <<cmd, next, tainted, scoped, lineage>>

\* Mutant: only a leader's exit is cleaned up after.
TraceExit_LeaderOnly(ps) ==
    /\ watch_pids' = watch_pids \ {p \in ps : tgid[p] = p}
    /\ threat_map' = threat_map \ {p \in ps : tgid[p] = p}

\* trace_exit of the tasks ps: watch_pids by task, threat_map for a leader only.
TraceExit(ps) ==
    /\ watch_pids' = watch_pids \ ps
    /\ threat_map' = threat_map \ {p \in ps : tgid[p] = p}

\* The tasks es have exited and the ids ps are free; the children of a process
\* among those are adopted.
Release(es, ps) ==
    /\ tgid' = [p \in Pids |-> IF p \in ps THEN p ELSE tgid[p]]
    /\ ppid' = [p \in Pids |-> IF {p, ppid[p]} \cap ps # {} THEN InitPid ELSE ppid[p]]
    /\ tainted' = tainted \ (es \cup ps) /\ scoped' = scoped \ (es \cup ps)
    /\ lineage' = lineage \ ps
    /\ stray' = (stray \ es) \cup ((ps \ es) \cap watch_pids)
    /\ UNCHANGED <<born, overflow>>

Without(f, ps, x) == [p \in Pids |-> IF p \in ps THEN x ELSE f[p]]

\* A task exits.  A leader's id stays taken until the last of its threads exits,
\* and that is no further exit of the leader.
Exit(p) ==
    LET g == tgid[p]
        ps == IF Group(g) = {p} THEN Members(g) ELSE {p} \ {g}
    IN /\ Running(p) /\ next[p] = NoCmd
       /\ TraceExit({p}) /\ Release({p}, ps)
       /\ task' = Without([task EXCEPT ![p] = "zombie"], ps, "free")
       /\ cmd' = Without(cmd, ps, NoCmd)
       /\ UNCHANGED <<next, warn_pids, eventVars, profile, setting, steps>>

-----------------------------------------------------------------------------
(* The execve hook.                                                        *)

\* The process and its real ancestors, nearest first: at most n of them.
Ancestors[p \in Pids, n \in 0..MaxAncestry] ==
    IF n = 0 \/ ppid[p] = InitPid THEN {} ELSE {ppid[p]} \cup Ancestors[ppid[p], n - 1]

\* critical_match
CriticalMatch(p) ==
    CASE setting.depth = "propagate" -> p \in threat_map
      [] setting.depth = "one_level" -> Ancestors[p, 1] \cap threat_map # {}
      [] OTHER -> Ancestors[p, IF setting.max < MaxAncestry THEN setting.max ELSE MaxAncestry] \cap threat_map # {}

\* Is the command denied by deny_bins or deny_basenames, empty but for strict?
DeniedNow(c) == profile = "strict" /\ c \in Denied

\* struct execve_event: comm is that of the image that calls execve.  born is
\* history, the event does not carry it.
Event(v, p, c) == [verdict |-> v, pid |-> p, argv0 |-> c, comm |-> cmd[p], born |-> born[p]]

\* bpf_ringbuf_reserve and submit: an event that does not fit is lost.
Submit(es) == ring' = SubSeq(ring \o es, 1, IF Len(ring \o es) < RingCap THEN Len(ring \o es) ELSE RingCap)

\* check_execve refuses the exec of task q, in the name of its process.
ExecRefused(q, c) ==
    LET p == tgid[q]
        warn == ~CriticalMatch(p) /\ ppid[p] \in warn_pids
    IN /\ Running(q) /\ ~Execs(p) /\ Bounded
       /\ CriticalMatch(p) \/ (p \in watch_pids /\ DeniedNow(c))
       /\ Submit((IF warn THEN <<Event("warn", p, c)>> ELSE <<>>) \o <<Event("block", p, c)>>)
       /\ UNCHANGED <<taskVars, mapVars, queue, worker, profile, setting, ghostVars>>

\* check_execve lets it through; the process still shows its old command line.
ExecAllowed(q, c) ==
    LET p == tgid[q] IN
    /\ Running(q) /\ ~Execs(p) /\ Bounded
    /\ ~CriticalMatch(p) /\ ~(p \in watch_pids /\ DeniedNow(c))
    /\ Submit((IF ppid[p] \in warn_pids THEN <<Event("warn", p, c)>> ELSE <<>>)
              \o (IF p \in watch_pids THEN <<Event("classify", p, c)>> ELSE <<>>))
    /\ next' = [next EXCEPT ![q] = c]
    /\ UNCHANGED <<task, tgid, ppid, born, cmd, mapVars, queue, worker, profile, setting, ghostVars>>

\* The new image, and with it the new command line, is in place.  The other tasks
\* of the process, its leader if that has not yet, have exited, and task q has the
\* leader's id: its own becomes free with no exit of a task that has it.
NewImage(q) ==
    LET p == tgid[q]
        others == Group(p) \ {q}
        ps == Members(p) \ {p}
    IN /\ next[q] # NoCmd
       /\ TraceExit(others) /\ Release(others, ps)
       /\ task' = Without([task EXCEPT ![p] = "process"], ps, "free")
       /\ cmd' = [cmd EXCEPT ![p] = next[q]]
       /\ next' = Without(next, Members(p), NoCmd)
       /\ UNCHANGED <<warn_pids, eventVars, profile, setting, steps>>

-----------------------------------------------------------------------------
(* The consumer and the worker.                                            *)

\* Mutant: an unbounded channel.
TrySend_Unbounded(e) == Append(queue, e)

\* try_send: an event that finds the queue full is dropped.
TrySend(e) == IF Len(queue) < QueueCap THEN Append(queue, e) ELSE queue

\* ringbuf_callback: a classify event is handed on, a warn event broadcast, a
\* block event ignored.
Consume ==
    /\ ring # <<>>
    /\ ring' = Tail(ring)
    /\ queue' = IF Head(ring).verdict = "classify" THEN TrySend(Head(ring)) ELSE queue
    /\ UNCHANGED <<taskVars, mapVars, worker, profile, setting, steps, ghostVars>>

\* The worker takes an event and reads the live profile.
Take ==
    /\ worker.pc = "idle" /\ queue # <<>>
    /\ worker' = [pc |-> "read", evt |-> Head(queue), profile |-> profile, live |-> NoCmd]
    /\ queue' = Tail(queue)
    /\ UNCHANGED <<taskVars, mapVars, ring, profile, setting, steps, ghostVars>>

\* read_proc_cmdline: what the task with that id shows; nothing if there is none
\* left, if it is a leader that has exited, or if its process is between two
\* images and stays so for all the attempts.
ReadCmdline ==
    LET p == worker.evt.pid IN
    /\ worker.pc = "read"
    /\ \/ Running(p) /\ worker' = [worker EXCEPT !.pc = "act", !.live = cmd[tgid[p]]]
       \/ (~Running(p) \/ Execs(tgid[p])) /\ worker' = [worker EXCEPT !.pc = "act"]
    /\ UNCHANGED <<taskVars, mapVars, ring, queue, profile, setting, steps, ghostVars>>

\* Mutant: only what is known to be bad is killed.
Decide_KnownBad(prof, v, interp) ==
    CASE v = "safe" \/ prof = "prompt" -> "Allow"
      [] prof = "audit" -> "WarnAsync"
      [] prof \in {"session", "strict"} -> IF v = "block" THEN "ClassifyAsyncThenKill" ELSE "WarnAsync"
      [] OTHER -> "BlockInKernel"

\* RoutingPolicy::decide and decide_smart, for an exec in the watch scope, whose
\* parent is never taken for the interactive shell, under normal load.
Decide(prof, v, interp) ==
    CASE v = "safe" \/ prof = "prompt" -> "Allow"
      [] prof = "audit" -> "WarnAsync"
      [] prof \in {"session", "strict"} -> "ClassifyAsyncThenKill"
      [] v = "block" -> "BlockInKernel"
      [] prof = "lockdown" -> "FreezeAndFrisk"
      [] ~interp -> "Allow"
      [] OTHER -> IF SmartCanFreeze THEN "FreezeAndFrisk" ELSE "ClassifyAsyncThenKill"

\* The command line the worker classifies: the event's path if it read none.
Seen == IF worker.live = NoCmd THEN worker.evt.argv0 ELSE worker.live

\* Does the worker kill?  Not without a command line.  The signal goes to the
\* process of whatever has the id by now.
Kills ==
    /\ Decide(worker.profile, Verdict[Seen], worker.evt.comm \in Interpreters) = "ClassifyAsyncThenKill"
    /\ worker.live # NoCmd /\ CanKill
    /\ task[worker.evt.pid] # "free"

\* The rest of dispatch_classify; a warning it broadcasts, for WarnAsync or a kill
\* that failed, is GuardServer's.
Act ==
    LET g == tgid[worker.evt.pid] IN
    /\ worker.pc = "act"
    /\ worker' = [pc |-> "idle", evt |-> NoEvent, profile |-> "prompt", live |-> NoCmd]
    /\ IF Kills
       THEN /\ TraceExit(Group(g)) /\ Release(Group(g), Members(g))
            /\ task' = Without(task, Members(g), "free")
            /\ cmd' = Without(cmd, Members(g), NoCmd) /\ next' = Without(next, Members(g), NoCmd)
       ELSE UNCHANGED <<taskVars, watch_pids, threat_map, ghostVars>>
    /\ UNCHANGED <<warn_pids, ring, queue, profile, setting, steps>>

-----------------------------------------------------------------------------
(* The daemon's requests, each one step here.                              *)

\* set_threat with Critical.
MarkCritical(p) ==
    /\ Bounded /\ Process(p)
    /\ IF setting.mode = "Block"
       THEN threat_map' = Put(threat_map, p) /\ UNCHANGED warn_pids /\ Fits(threat_map, p)
       ELSE warn_pids' = Put(warn_pids, p) /\ UNCHANGED threat_map /\ Fits(warn_pids, p)
    /\ tainted' = tainted \cup {p}
    /\ UNCHANGED <<taskVars, watch_pids, eventVars, profile, setting, scoped, lineage, stray, overflow>>

\* clear_both: the process, not what it has forked.
ClearMark(p) ==
    /\ Bounded /\ Process(p) /\ p \in threat_map \cup warn_pids
    /\ threat_map' = threat_map \ {p} /\ warn_pids' = warn_pids \ {p}
    /\ tainted' = tainted \ {p}
    /\ UNCHANGED <<taskVars, watch_pids, eventVars, profile, setting, scoped, lineage, stray, overflow>>

\* set_watch
SetWatch(p) ==
    /\ Bounded /\ Process(p) /\ Fits(watch_pids, p) /\ p \notin watch_pids \cap scoped
    /\ watch_pids' = watch_pids \cup {p}
    /\ scoped' = scoped \cup {p} /\ lineage' = lineage \cup {p} /\ stray' = stray \ {p}
    /\ UNCHANGED <<taskVars, threat_map, warn_pids, eventVars, profile, setting, tainted, overflow>>

SetProfile(x) ==
    /\ Bounded /\ profile' = x
    /\ UNCHANGED <<taskVars, mapVars, eventVars, setting, ghostVars>>

-----------------------------------------------------------------------------
Init ==
    /\ task = [p \in Pids |-> "free"]
    /\ tgid = [p \in Pids |-> p]
    /\ ppid = [p \in Pids |-> InitPid]
    /\ born = [p \in Pids |-> 0]
    /\ cmd = [p \in Pids |-> NoCmd]
    /\ next = [p \in Pids |-> NoCmd]
    /\ threat_map = {} /\ warn_pids = {} /\ watch_pids = {}
    /\ ring = <<>> /\ queue = <<>>
    /\ worker = [pc |-> "idle", evt |-> NoEvent, profile |-> "prompt", live |-> NoCmd]
    /\ profile = Profile /\ setting \in Settings
    /\ steps = 0
    /\ tainted = {} /\ scoped = {} /\ lineage = {} /\ stray = {} /\ overflow = FALSE

Worker == Take \/ ReadCmdline \/ Act

Next ==
    \/ \E p \in Pids, c \in Cmds : ExecRefused(p, c) \/ ExecAllowed(p, c)
    \/ \E p \in Pids, q \in Pids : Fork(p, q) \/ Clone(p, q)
    \/ \E p \in Pids : Start(p) \/ Exit(p) \/ NewImage(p) \/ MarkCritical(p) \/ ClearMark(p) \/ SetWatch(p)
    \/ \E x \in Profiles : SetProfile(x)
    \/ Consume \/ Worker

Spec == Init /\ [][Next]_vars /\ WF_vars(Consume) /\ WF_vars(Worker)

-----------------------------------------------------------------------------
(* Properties.                                                             *)

EventType == [verdict : {"warn", "block", "classify"}, pid : Pids, argv0 : Cmds, comm : Cmds, born : 1..MaxSteps]

\* Every variable has its type, and no buffer or map holds more than it can: the
\* queue is BOUNDED because "an unbounded queue would grow daemon RSS without
\* limit" (ebpf.rs, attach).
TypeOK ==
    /\ task \in [Pids -> {"free", "process", "thread", "zombie"}]
    /\ tgid \in [Pids -> Pids] /\ ppid \in [Pids -> Pids \cup {InitPid}]
    /\ born \in [Pids -> 0..MaxSteps]
    /\ cmd \in [Pids -> Cmds \cup {NoCmd}] /\ next \in [Pids -> Cmds \cup {NoCmd}]
    /\ \A m \in {threat_map, warn_pids, watch_pids} : m \subseteq Pids /\ Cardinality(m) <= MapCap
    /\ ring \in Seq(EventType) /\ Len(ring) <= RingCap
    /\ queue \in Seq(EventType) /\ Len(queue) <= QueueCap
    /\ worker.pc \in {"idle", "read", "act"} /\ worker.evt \in EventType \cup {NoEvent}
    /\ worker.live \in Cmds \cup {NoCmd}
    /\ profile \in Profiles /\ setting \in Settings /\ steps \in 0..MaxSteps
    /\ tainted \subseteq Pids /\ scoped \subseteq Pids /\ lineage \subseteq Pids
    /\ stray \subseteq Pids /\ overflow \in BOOLEAN

\* trace_fork copies the marks "BEFORE any double-fork/daemonize can reparent the
\* descendant away": as long as no map has been full, every process descended
\* from a watched one is watched, and with propagate every one descended from a
\* Critical one is refused its execs, whichever thread forked it, whoever of its
\* ancestors has died and whoever has adopted it.  That holds of a process until
\* its own first thread exits, by ending before the others or because another
\* thread execs: trace_exit takes the exit of one thread for that of the process,
\* and neither it nor what it forks afterwards is covered.
SubtreeCovered ==
    overflow \/ \A p \in Pids :
        /\ p \in scoped => p \in watch_pids
        /\ (p \in tainted /\ setting.depth = "propagate" /\ setting.mode = "Block") => CriticalMatch(p)

\* "only the marked session subtree" (check_execve): a task whose execs are
\* classified, and may be killed for it, belongs to a process that is watched
\* itself or descends from one that was, never to a later owner of the number.
\* The one way to a stranger is an id that became free while no task with that id
\* exited, and the entry with it: a thread's that has exec'd, or a leader's that
\* was watched after its exit.
NoStrangerWatched ==
    \A t \in watch_pids \ stray : task[t] # "free" /\ tgid[t] \in lineage

\* The effect of the session and strict profiles, "strict is session plus the
\* kernel deny-map": a process whose event has reached the queue and that still
\* runs an unsafe command is eventually killed, unless it execs again, its first
\* thread ends, or the profile changes.
BadExecDies ==
    \A p \in Pids :
        LET runsBad == /\ Alive(p) /\ ~Execs(p)
                       /\ Verdict[cmd[p]] # "safe" /\ profile \in {"session", "strict"}
        IN (runsBad /\ \E i \in DOMAIN queue : queue[i].pid = p /\ queue[i].born = born[p]) ~> ~runsBad

\* "propagated entries can't leak" (trace_exit): a process that is refused its
\* execs is marked itself or descends from one that was.
NoStrangerRefused ==
    \A p \in Pids : Alive(p) /\ CriticalMatch(p) =>
        p \in tainted \/ Ancestors[p, MaxAncestry] \cap tainted # {}

=============================================================================
