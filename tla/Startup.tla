------------------------------ MODULE Startup -------------------------------
(***************************************************************************)
(* The life of an atty-guard process: it reads its policy, takes the lock  *)
(* beside the socket, removes the socket a dead daemon left, attaches the  *)
(* eBPF programs, binds and serves.                                        *)
(*                                                                         *)
(* Several processes may be started against one socket, under the same     *)
(* name or under aliases, at the same time.  Any of them may be killed, or *)
(* fail a system call, between two steps: the kernel then drops its flock  *)
(* and the socket file stays behind.                                       *)
(***************************************************************************)
EXTENDS Naturals

CONSTANTS
    Procs, NoProc,
    Supervised,      \* the processes systemd restarts when they fail
    Commands,        \* process -> the command lines it may be started with
    MaxSecs,         \* u64::MAX, the width of the interval's arithmetic
    MaxManual,       \* bound: starts by hand
    MaxFaults        \* bound: kills and failed system calls

Unset == "unset"
Paths == {"real", "dir_alias", "link"}   \* the socket, the same through a link
                                         \* to its directory, a link to it
Backends == {"stub", "heuristic", "onnx"}
Depths == {"one_level", "ancestry", "propagate_on_fork"}
Modes == {"disabled", "observe", "warn", "block"}
Absent == "absent"
Stale == "stale"         \* a socket nobody listens on
Foreign == "foreign"     \* something that is not a socket

NotGiven == 256          \* no u8: --ancestry-max-depth is absent

Settings == [tier2 : Backends \cup {Unset, "invalid"},
             depth : Depths \cup {Unset, "invalid"},
             max_depth : 0..NotGiven]
FileSettings == {s \in Settings : s.depth # Unset /\ s.max_depth # NotGiven}
Command == [path : Paths, interval : [n : Nat, unit : {"s", "m", "h", "d", "?"}],
            enable_ebpf : BOOLEAN, mode : Modes, cli : Settings,
            config : {"omitted", "loaded", "rejected"}, file : FileSettings]

ASSUME StartupAssumption ==
    /\ NoProc \notin Procs /\ Supervised \subseteq Procs
    /\ {Absent, Stale, Foreign} \cap (Procs \cup {NoProc}) = {}
    /\ Commands \in [Procs -> SUBSET Command]
    /\ MaxSecs \in Nat /\ MaxManual \in Nat /\ MaxFaults \in Nat

VARIABLES
    pc, cmd,         \* per process: control, its command line
    policy,          \* per process: the policy it runs with
    lock_path,       \* per process: the lock file it computed
    flock,           \* lock file -> the process that holds it
    socket,          \* what the socket's path names: a process' socket, ...
    shutdown,        \* per process: the SHUTDOWN flag
    manual, faults   \* counters of the bounds

procVars == <<pc, cmd, policy, lock_path, shutdown>>
vars == <<procVars, flock, socket, manual, faults>>

Locks == {"real", "link"}
\* The depth and the hops are those of enforce_cfg, which is one_level when the
\* programs are loaded; refused is history: did the kernel refuse to write it?
NoPolicy == [tier2 |-> "stub", ebpf |-> FALSE, refused |-> FALSE,
             depth |-> "one_level", hops |-> 0, period |-> 0]
-----------------------------------------------------------------------------
(* The policy.                                                             *)

Seconds(unit) == CASE unit = "s" -> 1 [] unit = "m" -> 60
                   [] unit = "h" -> 3600 [] unit = "d" -> 86400

\* Mutant: the multiplication wraps.
ParseInterval_Wraps(i) ==
    IF i.n = 0 THEN [ok |-> TRUE, secs |-> 0]
    ELSE IF i.unit = "?" THEN [ok |-> FALSE, secs |-> 0]
    ELSE LET s == (i.n * Seconds(i.unit)) % (MaxSecs + 1)
         IN [ok |-> s >= 60, secs |-> s]

\* parse_interval: 0 means no refresh; an unknown suffix, an overflow and less
\* than a minute are errors.  (`0s' is below a minute, and only the bare 0 is
\* given as n = 0 here.)
ParseInterval(i) ==
    IF i.n = 0 THEN [ok |-> TRUE, secs |-> 0]
    ELSE IF i.unit = "?" THEN [ok |-> FALSE, secs |-> 0]
    ELSE LET s == i.n * Seconds(i.unit)
         IN [ok |-> s <= MaxSecs /\ s >= 60, secs |-> s]

Default == [tier2 |-> Unset, depth |-> "one_level", max_depth |-> 8]

\* The settings of the file; without --config the defaults.
File(c) == IF c.config = "loaded" THEN c.file ELSE Default

\* resolve_backend: the command line wins over the file, the file over `stub'.
ResolveBackend(c) ==
    IF c.cli.tier2 # Unset THEN [kind |-> c.cli.tier2, source |-> "cli"]
    ELSE IF File(c).tier2 # Unset THEN [kind |-> File(c).tier2, source |-> "config"]
    ELSE [kind |-> "stub", source |-> "default"]

\* The backend that runs: `opens' says whether the ONNX model can be loaded.
\* A backend the operator named is not replaced; the default falls back.
BuildBackend(b, opens) ==
    IF b.kind = "invalid" THEN Unset
    ELSE IF b.kind # "onnx" \/ opens THEN b.kind
    ELSE IF b.source = "default" THEN "stub" ELSE Unset

\* --enable-ebpf stands for --ebpf-mode=block; the two may not disagree.
EffectiveMode(c) ==
    IF ~c.enable_ebpf THEN c.mode
    ELSE IF c.mode \in {"disabled", "block"} THEN "block" ELSE Unset

Depth(c) == IF c.cli.depth # Unset THEN c.cli.depth ELSE File(c).depth
MaxDepth(c) ==
    LET d == IF c.cli.max_depth # NotGiven THEN c.cli.max_depth ELSE File(c).max_depth
    IN IF Depth(c) = "ancestry" /\ d = 0 THEN 1 ELSE d

-----------------------------------------------------------------------------
(* The process.                                                            *)

Goto(p, l) == pc' = [pc EXCEPT ![p] = l]

\* Start from the command line c; main installs the signal handlers first.
Start(p, c) ==
    /\ pc[p] = "down" /\ c \in Commands[p]
    /\ p \in Supervised \/ manual < MaxManual
    /\ manual' = IF p \in Supervised THEN manual ELSE manual + 1
    /\ cmd' = [cmd EXCEPT ![p] = c]
    /\ Goto(p, "policy")
    /\ UNCHANGED <<policy, lock_path, shutdown, flock, socket, faults>>

\* The process is gone.  The kernel drops its flock, its eBPF programs and its
\* listener; the socket file, if it is still there, is nobody's.
Gone(p) ==
    /\ Goto(p, "down")
    /\ flock' = [l \in Locks |-> IF flock[l] = p THEN NoProc ELSE flock[l]]
    /\ socket' = IF socket = p THEN Stale ELSE socket
    /\ policy' = [policy EXCEPT ![p] = NoPolicy]
    /\ shutdown' = [shutdown EXCEPT ![p] = FALSE]
    /\ UNCHANGED <<cmd, lock_path, manual>>

\* A kill (systemd's after a stop, an operator's, the kernel's), or the error
\* exit after a system call that failed.
Fault(p) ==
    /\ pc[p] # "down" /\ faults < MaxFaults
    /\ faults' = faults + 1
    /\ Gone(p)

\* --atoms-update-interval, --config, --tier2: an error ends the process
\* before it touches the lock or the socket.
ReadPolicy(p) ==
    LET c == cmd[p]
        i == ParseInterval(c.interval)
    IN
    /\ pc[p] = "policy"
    /\ UNCHANGED faults
    /\ \E opens \in BOOLEAN :
        LET b == BuildBackend(ResolveBackend(c), opens) IN
        IF i.ok /\ c.config # "rejected" /\ b # Unset
        THEN /\ policy' = [policy EXCEPT ![p].tier2 = b, ![p].period = i.secs]
             /\ Goto(p, "lock_path")
             /\ UNCHANGED <<cmd, lock_path, shutdown, flock, socket, manual>>
        ELSE Gone(p)

\* Mutant: the literal path, whatever it resolves to.
LockPath_Literal(p) ==
    /\ pc[p] = "lock_path"
    /\ lock_path' = [lock_path EXCEPT ![p] = IF cmd[p].path = "real" THEN "real" ELSE "link"]
    /\ Goto(p, "flock")
    /\ UNCHANGED <<cmd, policy, shutdown, flock, socket, manual, faults>>

\* lock_path_for_socket: the resolved path of a socket that exists; of one
\* that does not, the resolved directory and the name as given.
LockPath(p) ==
    /\ pc[p] = "lock_path"
    /\ lock_path' = [lock_path EXCEPT ![p] =
                        IF socket # Absent \/ cmd[p].path # "link" THEN "real" ELSE "link"]
    /\ Goto(p, "flock")
    /\ UNCHANGED <<cmd, policy, shutdown, flock, socket, manual, faults>>

\* acquire_single_instance_lock: LOCK_EX | LOCK_NB.
Flock(p) ==
    /\ pc[p] = "flock"
    /\ UNCHANGED faults
    /\ IF flock[lock_path[p]] = NoProc
       THEN /\ flock' = [flock EXCEPT ![lock_path[p]] = p]
            /\ Goto(p, "inspect")
            /\ UNCHANGED <<cmd, policy, lock_path, shutdown, socket, manual>>
       ELSE Gone(p)

\* Mutant: whatever is there is left for bind to replace.
Inspect_Keeps(p) ==
    /\ pc[p] = "inspect"
    /\ Goto(p, "attach")
    /\ UNCHANGED <<cmd, policy, lock_path, shutdown, flock, socket, manual, faults>>

\* remove_socket_if_safe, the checks.  A link without a target does not
\* resolve, which is an error; so is anything that is not a socket.
Inspect(p) ==
    /\ pc[p] = "inspect"
    /\ UNCHANGED faults
    /\ IF socket = Foreign \/ (socket = Absent /\ cmd[p].path = "link")
       THEN Gone(p)
       ELSE /\ Goto(p, IF socket = Absent THEN "attach" ELSE "unlink")
            /\ UNCHANGED <<cmd, policy, lock_path, shutdown, flock, socket, manual>>

\* remove_socket_if_safe, the unlink of the resolved path.
Unlink(p) ==
    /\ pc[p] = "unlink"
    /\ UNCHANGED faults
    /\ IF socket = Absent
       THEN Gone(p)
       ELSE /\ socket' = Absent
            /\ Goto(p, "attach")
            /\ UNCHANGED <<cmd, policy, lock_path, shutdown, flock, manual>>

\* Mutant: enforce_cfg is not written.
Attach_Unwritten(p) ==
    LET c == cmd[p] IN
    /\ pc[p] = "attach"
    /\ UNCHANGED faults
    /\ IF EffectiveMode(c) = Unset THEN Gone(p)
       ELSE \E ebpf \in BOOLEAN :
              /\ ebpf => EffectiveMode(c) # "disabled"
              /\ IF ebpf /\ Depth(c) = "invalid" THEN Gone(p)
                 ELSE /\ policy' = [policy EXCEPT ![p].ebpf = ebpf]
                      /\ Goto(p, "bind")
                      /\ UNCHANGED <<cmd, lock_path, shutdown, flock, socket, manual>>

\* The eBPF programs.  An attach that fails leaves the daemon without them; a
\* depth that is not one, found after the attach, ends the process; a write of
\* enforce_cfg that fails leaves the kernel at one_level.
Attach(p) ==
    LET c == cmd[p]
        Run(ebpf, refused, depth, hops) ==
            /\ policy' = [policy EXCEPT ![p] = [@ EXCEPT !.ebpf = ebpf, !.refused = refused,
                                                   !.depth = depth, !.hops = hops]]
            /\ Goto(p, "bind")
            /\ UNCHANGED <<cmd, lock_path, shutdown, flock, socket, manual>>
    IN
    /\ pc[p] = "attach"
    /\ UNCHANGED faults
    /\ IF EffectiveMode(c) = Unset THEN Gone(p)
       ELSE \/ Run(FALSE, FALSE, "one_level", 0)
            \/ /\ EffectiveMode(c) # "disabled"
               /\ IF Depth(c) = "invalid" THEN Gone(p)
                  ELSE \/ Run(TRUE, FALSE, Depth(c), MaxDepth(c))
                       \/ Run(TRUE, TRUE, "one_level", 0)

\* serve: bind creates the socket and listens.  It follows no link in the
\* last component and takes over no name that exists.
Bind(p) ==
    /\ pc[p] = "bind"
    /\ UNCHANGED faults
    /\ IF socket = Absent /\ cmd[p].path # "link"
       THEN /\ socket' = p
            /\ Goto(p, "serve")
            /\ UNCHANGED <<cmd, policy, lock_path, shutdown, flock, manual>>
       ELSE Gone(p)

\* SIGTERM, SIGINT or SIGHUP: the handler sets a flag, and the interrupted
\* accept is restarted.
Signal(p) ==
    /\ pc[p] # "down" /\ ~shutdown[p]
    /\ shutdown' = [shutdown EXCEPT ![p] = TRUE]
    /\ UNCHANGED <<pc, cmd, policy, lock_path, flock, socket, manual, faults>>

\* The operator moves a file that was in the way.
MoveForeign ==
    /\ socket = Foreign
    /\ socket' = Absent
    /\ UNCHANGED <<procVars, flock, manual, faults>>

Init ==
    /\ pc = [p \in Procs |-> "down"]
    /\ cmd \in [Procs -> UNION {Commands[p] : p \in Procs}]
    /\ \A p \in Procs : \E c \in Commands[p] : cmd[p] = c
    /\ policy = [p \in Procs |-> NoPolicy]
    /\ lock_path = [p \in Procs |-> "real"]
    /\ flock = [l \in Locks |-> NoProc]
    /\ socket \in {Absent, Stale, Foreign}
    /\ shutdown = [p \in Procs |-> FALSE]
    /\ manual = 0 /\ faults = 0

Step(p) == ReadPolicy(p) \/ LockPath(p) \/ Flock(p) \/ Inspect(p) \/ Unlink(p) \/ Attach(p) \/ Bind(p)
Next ==
    \/ \E p \in Procs : \/ \E c \in Commands[p] : Start(p, c)
                        \/ Step(p) \/ Signal(p) \/ Fault(p)
    \/ MoveForeign

Safe == Init /\ [][Next]_vars

\* A process that is started runs; systemd restarts its unit (Restart=on-failure).
Fairness ==
    /\ \A p \in Procs : WF_vars(Step(p))
    /\ \A p \in Supervised : WF_vars(\E c \in Commands[p] : Start(p, c))

Spec == Safe /\ Fairness

-----------------------------------------------------------------------------
(* Properties.                                                             *)

Serving == {p \in Procs : pc[p] = "serve"}
Reached == IF socket \in Procs THEN socket ELSE NoProc

\* "avoids the old race where unconditional `remove_file` could clobber a live
\* daemon's socket and let new clients connect to the wrong process" (main):
\* for its clients the start-up is the one-daemon specification, whatever is
\* started, killed and restarted beside it.
OneDaemon == INSTANCE SingleDaemon WITH serving <- Serving, reached <- Reached
ImplementsOneDaemon == OneDaemon!Spec

\* "explicit opt-in means the operator wants the policy enforced" (main): a
\* daemon that serves runs with the file it was given and the backend that was
\* named.  Its programs walk to the depth and the hops that were asked for, which
\* are never no hops; only a kernel that refused to be told stays at one_level.
\* Its refresh runs at the period asked for, not below a minute.
ServesAsAsked ==
    \A p \in Serving :
        LET c == cmd[p] IN
        /\ c.config # "rejected"
        /\ c.cli.tier2 # Unset => policy[p].tier2 = c.cli.tier2
        /\ (c.cli.tier2 = Unset /\ File(c).tier2 # Unset) => policy[p].tier2 = File(c).tier2
        /\ policy[p].ebpf /\ ~policy[p].refused => /\ policy[p].depth = Depth(c)
                                                   /\ policy[p].hops = MaxDepth(c)
        /\ policy[p].refused => policy[p].depth = "one_level"
        /\ policy[p].depth = "ancestry" => policy[p].hops > 0
        /\ c.interval.n > 0 => /\ policy[p].period >= 60
                               /\ policy[p].period = c.interval.n * Seconds(c.interval.unit)

\* "safe to unlink any STALE SOCKET left by a previous crashed instance"
\* (main): after the last fault, a supervised daemon is reached again, unless
\* a file that is not a socket is in its way.
AvailableAgain == <>[](socket = Foreign) \/ <>[](Reached # NoProc)

=============================================================================
