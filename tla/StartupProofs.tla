--------------------------- MODULE StartupProofs ----------------------------
(***************************************************************************)
(* Proofs about Startup, for any number of processes, any command lines    *)
(* and any number of faults: start-up implements SingleDaemon, and a       *)
(* daemon that serves runs with the policy it was asked for.               *)
(*                                                                         *)
(* The first rests on the flock: from the inspection of the socket on, a   *)
(* process holds the one lock file that stands for the socket, so nobody   *)
(* else is past that point, and a socket it removes is nobody's.  That     *)
(* every process computes the same lock file is what NoLinks is for.  The  *)
(* second is a fact about each process alone, collected step by step.      *)
(***************************************************************************)
EXTENDS Startup, TLAPS

\* Nobody names the socket through a link to it.  (A link to its directory is
\* resolved by lock_path_for_socket whether or not the socket exists.)
NoLinks == \A p \in Procs : \A c \in Commands[p] : c.path # "link"

Labels == {"down", "policy", "lock_path", "flock", "inspect", "unlink", "attach", "bind", "serve"}
Locked == {"inspect", "unlink", "attach", "bind", "serve"}
WithPolicy == Labels \ {"down", "policy"}

Policies == [tier2 : Backends, ebpf : BOOLEAN, refused : BOOLEAN,
             depth : Depths, hops : Nat, period : Nat]

-----------------------------------------------------------------------------
(* One daemon.                                                             *)

\* What the argument about the lock needs of the types.
LockTypes ==
    /\ pc \in [Procs -> Labels]
    /\ \A p \in Procs : cmd[p] \in Commands[p]
    /\ DOMAIN cmd = Procs
    /\ lock_path \in [Procs -> {"real"}]
    /\ flock \in [Locks -> Procs \cup {NoProc}]
    /\ socket \in Procs \cup {Absent, Stale, Foreign}

\* A process past the flock holds it.
LockHeld == \A p \in Procs : pc[p] \in Locked => flock["real"] = p

\* The socket is a process' exactly while the process serves.
SocketOwned == \A p \in Procs : socket = p <=> pc[p] = "serve"

LockInv == LockTypes /\ LockHeld /\ SocketOwned

LEMMA LockInit == Init => LockInv
  <1> SUFFICES ASSUME Init PROVE LockInv OBVIOUS
  <1>1. DOMAIN cmd = Procs /\ \A p \in Procs : cmd[p] \in Commands[p] BY DEF Init
  <1>2. LockTypes
    BY <1>1, StartupAssumption DEF Init, LockTypes, Labels, Locks, Absent, Stale, Foreign
  <1>3. LockHeld BY DEF Init, LockHeld, Locked
  <1>4. SocketOwned BY StartupAssumption DEF Init, SocketOwned, Absent, Stale, Foreign
  <1> QED BY <1>2, <1>3, <1>4 DEF LockInv

\* A process ends: it gives back the lock, and its socket is stale.
LEMMA GoneKeepsLock ==
    ASSUME LockInv, NEW p \in Procs, Gone(p)
    PROVE  LockInv'
  <1>1. LockTypes'
    BY StartupAssumption DEF LockInv, LockTypes, Gone, Goto, Labels, Locks
  <1>2. LockHeld'
    BY StartupAssumption DEF LockInv, LockTypes, LockHeld, Gone, Goto, Labels, Locked, Locks
  <1>3. SocketOwned'
    BY StartupAssumption DEF LockInv, LockTypes, SocketOwned, Gone, Goto, Labels
  <1> QED BY <1>1, <1>2, <1>3 DEF LockInv

\* A process moves on: to a label before the flock, or with it in its hands.
LEMMA MoveKeepsLock ==
    ASSUME LockInv, NEW p \in Procs, NEW l \in Labels \ {"serve"},
           Goto(p, l), l \in Locked => flock["real"] = p,
           pc[p] # "serve", UNCHANGED <<cmd, lock_path, flock, socket>>
    PROVE  LockInv'
  <1>1. LockTypes' BY DEF LockInv, LockTypes, Goto
  <1>2. LockHeld' BY DEF LockInv, LockTypes, LockHeld, Goto
  <1>3. SocketOwned' BY DEF LockInv, LockTypes, SocketOwned, Goto
  <1> QED BY <1>1, <1>2, <1>3 DEF LockInv

\* Every step of a process keeps the invariant.
LEMMA LockStep ==
    ASSUME NoLinks, LockInv, NEW p \in Procs, Step(p)
    PROVE  LockInv'
  <1>1. CASE ReadPolicy(p)
    BY <1>1, GoneKeepsLock, MoveKeepsLock DEF ReadPolicy, Labels, Locked
  <1>2. CASE LockPath(p)
    <2>1. lock_path' = lock_path
      BY <1>2 DEF LockPath, LockInv, LockTypes, NoLinks
    <2> QED BY <1>2, <2>1, MoveKeepsLock DEF LockPath, Labels, Locked
  <1>3. CASE Flock(p)
    <2>1. CASE flock[lock_path[p]] = NoProc
      <3>1. /\ pc[p] = "flock" /\ flock["real"] = NoProc
            /\ flock' = [flock EXCEPT !["real"] = p]
            /\ Goto(p, "inspect") /\ UNCHANGED <<cmd, lock_path, socket>>
        BY <1>3, <2>1 DEF Flock, LockInv, LockTypes
      <3>2. LockTypes' BY <3>1 DEF LockInv, LockTypes, Goto, Labels
      <3>3. LockHeld'
        BY <3>1, StartupAssumption DEF LockInv, LockTypes, LockHeld, Goto, Locks
      <3>4. SocketOwned' BY <3>1 DEF LockInv, LockTypes, SocketOwned, Goto
      <3> QED BY <3>2, <3>3, <3>4 DEF LockInv
    <2>2. CASE flock[lock_path[p]] # NoProc
      BY <1>3, <2>2, GoneKeepsLock DEF Flock
    <2> QED BY <2>1, <2>2
  <1>4. CASE Inspect(p)
    BY <1>4, GoneKeepsLock, MoveKeepsLock DEF Inspect, Labels, Locked, LockInv, LockHeld
  <1>5. CASE Unlink(p)
    <2>1. CASE socket = Absent BY <1>5, <2>1, GoneKeepsLock DEF Unlink
    <2>2. CASE socket # Absent
      <3>1. /\ pc[p] = "unlink" /\ socket' = Absent /\ Goto(p, "attach")
            /\ UNCHANGED <<cmd, lock_path, flock>>
        BY <1>5, <2>2 DEF Unlink
      <3>2. flock["real"] = p BY <3>1 DEF LockInv, LockHeld, Locked
      <3>3. \A q \in Procs : pc[q] # "serve"
        BY <3>1, <3>2 DEF LockInv, LockHeld, Locked
      <3>4. LockTypes' BY <3>1 DEF LockInv, LockTypes, Goto, Labels
      <3>5. LockHeld' BY <3>1, <3>2 DEF LockInv, LockTypes, LockHeld, Goto
      <3>6. SocketOwned'
        BY <3>1, <3>3, StartupAssumption DEF LockInv, LockTypes, SocketOwned, Goto
      <3> QED BY <3>4, <3>5, <3>6 DEF LockInv
    <2> QED BY <2>1, <2>2
  <1>6. CASE Attach(p)
    BY <1>6, GoneKeepsLock, MoveKeepsLock DEF Attach, Labels, Locked, LockInv, LockHeld
  <1>7. CASE Bind(p)
    <2>1. CASE socket = Absent /\ cmd[p].path # "link"
      <3>1. /\ pc[p] = "bind" /\ socket' = p /\ Goto(p, "serve")
            /\ UNCHANGED <<cmd, lock_path, flock>>
        BY <1>7, <2>1 DEF Bind
      <3>2. flock["real"] = p BY <3>1 DEF LockInv, LockHeld, Locked
      <3>3. \A q \in Procs : pc[q] # "serve"
        BY <3>1, <3>2 DEF LockInv, LockHeld, Locked
      <3>4. LockTypes' BY <3>1 DEF LockInv, LockTypes, Goto, Labels
      <3>5. LockHeld' BY <3>1, <3>2 DEF LockInv, LockTypes, LockHeld, Goto
      <3>6. SocketOwned'
        BY <3>1, <3>3 DEF LockInv, LockTypes, SocketOwned, Goto
      <3> QED BY <3>4, <3>5, <3>6 DEF LockInv
    <2>2. CASE ~(socket = Absent /\ cmd[p].path # "link")
      BY <1>7, <2>2, GoneKeepsLock DEF Bind
    <2> QED BY <2>1, <2>2
  <1> QED BY <1>1, <1>2, <1>3, <1>4, <1>5, <1>6, <1>7 DEF Step

LEMMA LockNext ==
    ASSUME NoLinks, LockInv, [Next]_vars
    PROVE  LockInv'
  <1>1. ASSUME NEW p \in Procs, NEW c \in Commands[p], Start(p, c) PROVE LockInv'
    <2>1. /\ pc[p] = "down" /\ Goto(p, "policy") /\ cmd' = [cmd EXCEPT ![p] = c]
          /\ UNCHANGED <<lock_path, flock, socket>>
      BY <1>1 DEF Start
    <2>2. LockTypes' BY <2>1 DEF LockInv, LockTypes, Goto, Labels
    <2>3. LockHeld' BY <2>1 DEF LockInv, LockTypes, LockHeld, Goto, Locked
    <2>4. SocketOwned' BY <2>1 DEF LockInv, LockTypes, SocketOwned, Goto
    <2> QED BY <2>2, <2>3, <2>4 DEF LockInv
  <1>2. ASSUME NEW p \in Procs, Step(p) PROVE LockInv' BY <1>2, LockStep
  <1>3. ASSUME NEW p \in Procs, Signal(p) PROVE LockInv'
    BY <1>3 DEF Signal, LockInv, LockTypes, LockHeld, SocketOwned
  <1>4. ASSUME NEW p \in Procs, Fault(p) PROVE LockInv' BY <1>4, GoneKeepsLock DEF Fault
  <1>5. ASSUME MoveForeign PROVE LockInv'
    BY <1>5, StartupAssumption DEF MoveForeign, procVars, LockInv, LockTypes, LockHeld, SocketOwned
  <1>6. ASSUME UNCHANGED vars PROVE LockInv'
    BY <1>6 DEF vars, procVars, LockInv, LockTypes, LockHeld, SocketOwned
  <1> QED BY <1>1, <1>2, <1>3, <1>4, <1>5, <1>6 DEF Next

\* A process that ends gives its clients the end of a daemon if it served, and
\* nothing otherwise.
LEMMA GoneRefines ==
    ASSUME LockInv, NEW p \in Procs, Gone(p)
    PROVE  [OneDaemon!Next]_OneDaemon!vars
  <1>1. /\ pc' = [pc EXCEPT ![p] = "down"]
        /\ socket' = IF socket = p THEN Stale ELSE socket
    BY DEF Gone, Goto
  <1>2. CASE pc[p] = "serve"
    <2>1. socket = p /\ Serving = {p} /\ Reached = p
      BY <1>2 DEF LockInv, LockHeld, SocketOwned, Locked, Serving, Reached
    <2>2. Serving' = {}
      BY <1>1, <2>1 DEF Serving, LockInv, LockTypes
    <2>3. Reached' = NoProc
      BY <1>1, <2>1, StartupAssumption DEF Reached
    <2> QED BY <2>1, <2>2, <2>3 DEF OneDaemon!Next, OneDaemon!End
  <1>3. CASE pc[p] # "serve"
    <2>1. socket' = socket BY <1>1, <1>3 DEF LockInv, SocketOwned
    <2>2. Serving' = Serving BY <1>1, <1>3 DEF Serving, LockInv, LockTypes
    <2> QED BY <2>1, <2>2 DEF OneDaemon!vars, Reached
  <1> QED BY <1>2, <1>3

\* Nothing changes for the clients while no process starts or stops serving
\* and the socket is not a process'.
LEMMA MoveRefines ==
    ASSUME LockInv, NEW p \in Procs, NEW l \in Labels \ {"serve"}, Goto(p, l),
           pc[p] # "serve", socket' = socket \/ {socket, socket'} \cap Procs = {}
    PROVE  [OneDaemon!Next]_OneDaemon!vars
  <1>1. Serving' = Serving BY DEF Serving, Goto, LockInv, LockTypes
  <1>2. Reached' = Reached BY DEF Reached
  <1> QED BY <1>1, <1>2 DEF OneDaemon!vars

\* Every step of a process is one of SingleDaemon or a stutter: bind begins a
\* daemon, the end of a process that serves ends one.
LEMMA StepRefines ==
    ASSUME NoLinks, LockInv, NEW p \in Procs, Step(p)
    PROVE  [OneDaemon!Next]_OneDaemon!vars
  <1>1. CASE ReadPolicy(p)
    BY <1>1, GoneRefines, MoveRefines DEF ReadPolicy, Labels
  <1>2. CASE LockPath(p)
    BY <1>2, MoveRefines DEF LockPath, Labels
  <1>3. CASE Flock(p)
    BY <1>3, GoneRefines, MoveRefines DEF Flock, Labels
  <1>4. CASE Inspect(p)
    BY <1>4, GoneRefines, MoveRefines DEF Inspect, Labels
  <1>5. CASE Unlink(p)
    <2>1. CASE socket = Absent BY <1>5, <2>1, GoneRefines DEF Unlink
    <2>2. CASE socket # Absent
      <3>1. pc[p] = "unlink" /\ socket' = Absent /\ Goto(p, "attach")
        BY <1>5, <2>2 DEF Unlink
      <3>2. socket \notin Procs
        BY <3>1 DEF LockInv, LockHeld, SocketOwned, Locked
      <3>3. Absent \notin Procs BY StartupAssumption
      <3> QED BY <3>1, <3>2, <3>3, MoveRefines DEF Labels
    <2> QED BY <2>1, <2>2
  <1>6. CASE Attach(p)
    BY <1>6, GoneRefines, MoveRefines DEF Attach, Labels
  <1>7. CASE Bind(p)
    <2>1. CASE socket = Absent /\ cmd[p].path # "link"
      <3>1. pc[p] = "bind" /\ socket' = p /\ Goto(p, "serve")
        BY <1>7, <2>1 DEF Bind
      <3>2. \A q \in Procs : pc[q] # "serve"
        BY <3>1 DEF LockInv, LockHeld, Locked
      <3>3. Serving = {} BY <3>2 DEF Serving
      <3>4. Serving' = {p} BY <3>1, <3>2 DEF Serving, Goto, LockInv, LockTypes
      <3>5. Reached' = p BY <3>1 DEF Reached
      <3> QED BY <3>3, <3>4, <3>5 DEF OneDaemon!Next, OneDaemon!Begin
    <2>2. CASE ~(socket = Absent /\ cmd[p].path # "link")
      BY <1>7, <2>2, GoneRefines DEF Bind
    <2> QED BY <2>1, <2>2
  <1> QED BY <1>1, <1>2, <1>3, <1>4, <1>5, <1>6, <1>7 DEF Step

LEMMA NextRefines ==
    ASSUME NoLinks, LockInv, [Next]_vars
    PROVE  [OneDaemon!Next]_OneDaemon!vars
  <1>1. ASSUME NEW p \in Procs, NEW c \in Commands[p], Start(p, c)
        PROVE  [OneDaemon!Next]_OneDaemon!vars
    BY <1>1, MoveRefines DEF Start, Labels
  <1>2. ASSUME NEW p \in Procs, Step(p) PROVE [OneDaemon!Next]_OneDaemon!vars
    BY <1>2, StepRefines
  <1>3. ASSUME NEW p \in Procs, Signal(p) PROVE [OneDaemon!Next]_OneDaemon!vars
    BY <1>3 DEF Signal, Serving, Reached, OneDaemon!vars
  <1>4. ASSUME NEW p \in Procs, Fault(p) PROVE [OneDaemon!Next]_OneDaemon!vars
    BY <1>4, GoneRefines DEF Fault
  <1>5. ASSUME MoveForeign PROVE [OneDaemon!Next]_OneDaemon!vars
    <2>1. Serving' = Serving BY <1>5 DEF MoveForeign, procVars, Serving
    <2>2. Reached' = Reached BY <1>5, StartupAssumption DEF MoveForeign, Reached
    <2> QED BY <2>1, <2>2 DEF OneDaemon!vars
  <1>6. ASSUME UNCHANGED vars PROVE [OneDaemon!Next]_OneDaemon!vars
    BY <1>6 DEF vars, procVars, Serving, Reached, OneDaemon!vars
  <1> QED BY <1>1, <1>2, <1>3, <1>4, <1>5, <1>6 DEF Next

\* "avoids the old race where unconditional `remove_file` could clobber a live
\* daemon's socket" (main): whatever processes are started against the socket,
\* killed and restarted, its clients see one daemon at a time, for as long as
\* it runs.
THEOREM StartupImplementsOneDaemon ==
    ASSUME NoLinks
    PROVE  Spec => ImplementsOneDaemon
  <1>1. Init => LockInv BY LockInit
  <1>2. LockInv /\ [Next]_vars => LockInv' BY LockNext
  <1>3. Init => OneDaemon!Init
    BY StartupAssumption DEF Init, OneDaemon!Init, Serving, Reached, Absent, Stale, Foreign
  <1>4. LockInv /\ [Next]_vars => [OneDaemon!Next]_OneDaemon!vars BY NextRefines
  <1> QED BY <1>1, <1>2, <1>3, <1>4, PTL DEF Spec, Safe, ImplementsOneDaemon, OneDaemon!Spec

-----------------------------------------------------------------------------
(* The policy that was asked for.                                          *)

\* The backend and the period of a process that has read its policy are those
\* of its command line.
PolicyRead(p) ==
    LET c == cmd[p] IN
    /\ c.config # "rejected"
    /\ c.cli.tier2 # Unset => policy[p].tier2 = c.cli.tier2
    /\ (c.cli.tier2 = Unset /\ File(c).tier2 # Unset) => policy[p].tier2 = File(c).tier2
    /\ c.interval.n > 0 => /\ policy[p].period >= 60
                           /\ policy[p].period = c.interval.n * Seconds(c.interval.unit)

\* The depth of a process that has attached its programs is its command line's
\* or the kernel's default.
DepthSet(p) ==
    /\ policy[p].ebpf /\ ~policy[p].refused => /\ policy[p].depth = Depth(cmd[p])
                                               /\ policy[p].hops = MaxDepth(cmd[p])
    /\ policy[p].refused => policy[p].depth = "one_level"
    /\ policy[p].depth = "ancestry" => policy[p].hops > 0

PolicyInv ==
    /\ pc \in [Procs -> Labels]
    /\ DOMAIN cmd = Procs /\ \A p \in Procs : cmd[p] \in Command
    /\ policy \in [Procs -> Policies]
    /\ \A p \in Procs : pc[p] \in WithPolicy => PolicyRead(p)
    /\ \A p \in Procs : pc[p] \in {"bind", "serve"} => DepthSet(p)

\* What resolve_backend and the construction of the backend make of a name: the
\* backend that was named, or none.
LEMMA BackendAsNamed ==
    ASSUME NEW c \in Command, NEW opens \in BOOLEAN, NEW b,
           b = BuildBackend(ResolveBackend(c), opens), b # Unset
    PROVE  /\ b \in Backends
           /\ c.cli.tier2 # Unset => b = c.cli.tier2
           /\ (c.cli.tier2 = Unset /\ File(c).tier2 # Unset) => b = File(c).tier2
  <1>1. /\ c.cli.tier2 \in Backends \cup {Unset, "invalid"}
        /\ File(c).tier2 \in Backends \cup {Unset, "invalid"}
    BY DEF Command, FileSettings, Settings, File, Default
  <1> QED BY <1>1 DEF BuildBackend, ResolveBackend, Backends, Unset

\* parse_interval: the period asked for, and not below a minute.
LEMMA IntervalAsAsked ==
    ASSUME NEW c \in Command, ParseInterval(c.interval).ok
    PROVE  LET secs == ParseInterval(c.interval).secs IN
           /\ secs \in Nat
           /\ c.interval.n > 0 => /\ secs >= 60
                                  /\ secs = c.interval.n * Seconds(c.interval.unit)
  <1>1. c.interval.n \in Nat /\ c.interval.unit \in {"s", "m", "h", "d", "?"}
    BY DEF Command
  <1>2. CASE c.interval.n = 0 BY <1>2 DEF ParseInterval
  <1>3. CASE c.interval.n # 0
    <2>1. c.interval.unit # "?" BY <1>3 DEF ParseInterval
    <2>2. Seconds(c.interval.unit) \in Nat BY <1>1, <2>1 DEF Seconds
    <2>3. c.interval.n * Seconds(c.interval.unit) \in Nat BY <1>1, <2>2
    <2> QED BY <1>3, <2>1, <2>3 DEF ParseInterval
  <1> QED BY <1>2, <1>3

\* --ebpf-ancestry-depth: a depth that is not `invalid' is one, and a walk
\* has at least one hop.
LEMMA DepthAsAsked ==
    ASSUME NEW c \in Command, Depth(c) # "invalid"
    PROVE  /\ Depth(c) \in Depths /\ MaxDepth(c) \in Nat
           /\ Depth(c) = "ancestry" => MaxDepth(c) > 0
  <1>1. c.cli \in Settings /\ File(c) \in FileSettings
    BY DEF Command, File, Default, FileSettings, Settings, Depths, NotGiven, Unset
  <1>2. Depth(c) \in Depths BY <1>1 DEF Depth, FileSettings, Settings
  <1>3. MaxDepth(c) \in Nat /\ (Depth(c) = "ancestry" => MaxDepth(c) > 0)
    BY <1>1 DEF MaxDepth, FileSettings, Settings, NotGiven
  <1> QED BY <1>2, <1>3

LEMMA PolicyInit == Init => PolicyInv
  <1> SUFFICES ASSUME Init PROVE PolicyInv OBVIOUS
  <1>1. pc \in [Procs -> Labels] BY DEF Init, Labels
  <1>2. DOMAIN cmd = Procs /\ \A p \in Procs : cmd[p] \in Command
    BY StartupAssumption DEF Init
  <1>3. policy \in [Procs -> Policies]
    BY DEF Init, NoPolicy, Policies, Backends, Depths
  <1>4. \A p \in Procs : pc[p] = "down" BY DEF Init
  <1> QED BY <1>1, <1>2, <1>3, <1>4 DEF PolicyInv, WithPolicy

LEMMA GoneKeepsPolicy ==
    ASSUME PolicyInv, NEW p \in Procs, Gone(p)
    PROVE  PolicyInv'
  <1>1. /\ pc' = [pc EXCEPT ![p] = "down"] /\ cmd' = cmd
        /\ policy' = [policy EXCEPT ![p] = NoPolicy]
    BY DEF Gone, Goto
  <1>2. policy' \in [Procs -> Policies]
    BY <1>1 DEF PolicyInv, NoPolicy, Policies, Backends, Depths
  <1>3. \A q \in Procs : q # p => pc'[q] = pc[q] /\ policy'[q] = policy[q]
    BY <1>1 DEF PolicyInv
  <1>4. pc'[p] = "down" /\ pc' \in [Procs -> Labels] BY <1>1 DEF PolicyInv, Labels
  <1>5. ASSUME NEW q \in Procs, pc'[q] \in WithPolicy PROVE PolicyRead(q)'
    BY <1>1, <1>3, <1>4, <1>5 DEF PolicyInv, WithPolicy, PolicyRead
  <1>6. ASSUME NEW q \in Procs, pc'[q] \in {"bind", "serve"} PROVE DepthSet(q)'
    BY <1>1, <1>3, <1>4, <1>6 DEF PolicyInv, DepthSet
  <1> QED BY <1>1, <1>2, <1>4, <1>5, <1>6 DEF PolicyInv

\* A step between two labels on the same side of ReadPolicy and Attach.
LEMMA MoveKeepsPolicy ==
    ASSUME PolicyInv, NEW p \in Procs, NEW l \in Labels, Goto(p, l),
           UNCHANGED <<cmd, policy>>,
           l \in WithPolicy => pc[p] \in WithPolicy,
           l \in {"bind", "serve"} => pc[p] \in {"bind", "serve"}
    PROVE  PolicyInv'
  <1>1. pc' = [pc EXCEPT ![p] = l] BY DEF Goto
  <1>2. ASSUME NEW q \in Procs, pc'[q] \in WithPolicy PROVE PolicyRead(q)'
    BY <1>1, <1>2 DEF PolicyInv, PolicyRead
  <1>3. ASSUME NEW q \in Procs, pc'[q] \in {"bind", "serve"} PROVE DepthSet(q)'
    BY <1>1, <1>3 DEF PolicyInv, DepthSet
  <1> QED BY <1>1, <1>2, <1>3 DEF PolicyInv

LEMMA ReadPolicyKeepsPolicy ==
    ASSUME PolicyInv, NEW p \in Procs, ReadPolicy(p)
    PROVE  PolicyInv'
  <1> DEFINE c == cmd[p]
             i == ParseInterval(c.interval)
  <1>1. PICK opens \in BOOLEAN :
          LET b == BuildBackend(ResolveBackend(c), opens) IN
          IF i.ok /\ c.config # "rejected" /\ b # Unset
          THEN /\ policy' = [policy EXCEPT ![p].tier2 = b, ![p].period = i.secs]
               /\ Goto(p, "lock_path")
               /\ UNCHANGED <<cmd, lock_path, shutdown, flock, socket, manual>>
          ELSE Gone(p)
    BY Zenon DEF ReadPolicy
  <1> DEFINE b == BuildBackend(ResolveBackend(c), opens)
  <1>2. CASE ~(i.ok /\ c.config # "rejected" /\ b # Unset)
    <2>1. Gone(p) BY <1>1, <1>2, Zenon
    <2> QED BY <2>1, GoneKeepsPolicy
  <1>3. CASE i.ok /\ c.config # "rejected" /\ b # Unset
    <2>0. c \in Command BY DEF PolicyInv
    <2>1. /\ policy' = [policy EXCEPT ![p].tier2 = b, ![p].period = i.secs]
          /\ Goto(p, "lock_path") /\ UNCHANGED cmd
      BY <1>1, <1>3, Zenon
    <2>2. /\ b \in Backends
          /\ c.cli.tier2 # Unset => b = c.cli.tier2
          /\ (c.cli.tier2 = Unset /\ File(c).tier2 # Unset) => b = File(c).tier2
      BY <1>3, <2>0, BackendAsNamed
    <2>3. /\ i.secs \in Nat
          /\ c.interval.n > 0 => /\ i.secs >= 60
                                 /\ i.secs = c.interval.n * Seconds(c.interval.unit)
      BY <1>3, <2>0, IntervalAsAsked
    <2> HIDE DEF b, i
    <2>4. policy'[p].tier2 = b /\ policy'[p].period = i.secs
      BY <2>1, Zenon DEF PolicyInv, Policies
    <2>5. policy' \in [Procs -> Policies]
      BY <2>1, <2>2, <2>3, ZenonT(60) DEF PolicyInv, Policies
    <2>6. \A q \in Procs : q # p => policy'[q] = policy[q]
      BY <2>1, Zenon DEF PolicyInv
    <2>7. pc' = [pc EXCEPT ![p] = "lock_path"] /\ cmd' = cmd
      BY <2>1 DEF Goto
    <2>8. PolicyRead(p)'
      BY <1>3, <2>2, <2>3, <2>4, <2>7 DEF PolicyRead
    <2>9. ASSUME NEW q \in Procs, pc'[q] \in WithPolicy PROVE PolicyRead(q)'
      BY <2>6, <2>7, <2>8, <2>9 DEF PolicyInv, PolicyRead
    <2>10. ASSUME NEW q \in Procs, pc'[q] \in {"bind", "serve"} PROVE DepthSet(q)'
      BY <2>6, <2>7, <2>10 DEF PolicyInv, DepthSet
    <2> QED BY <2>5, <2>7, <2>9, <2>10 DEF PolicyInv, Labels
  <1> QED BY <1>2, <1>3

LEMMA AttachKeepsPolicy ==
    ASSUME PolicyInv, NEW p \in Procs, Attach(p)
    PROVE  PolicyInv'
  <1> DEFINE c == cmd[p]
             Run(ebpf, refused, depth, hops) ==
                /\ policy' = [policy EXCEPT ![p] = [@ EXCEPT !.ebpf = ebpf, !.refused = refused,
                                                       !.depth = depth, !.hops = hops]]
                /\ Goto(p, "bind") /\ UNCHANGED cmd
  <1>1. pc[p] = "attach" /\ c \in Command BY DEF Attach, PolicyInv
  <1>2. \/ Gone(p) \/ Run(FALSE, FALSE, "one_level", 0) \/ Run(TRUE, TRUE, "one_level", 0)
        \/ Depth(c) # "invalid" /\ Run(TRUE, FALSE, Depth(c), MaxDepth(c))
    BY Zenon DEF Attach
  <1>3. ASSUME NEW ebpf \in BOOLEAN, NEW refused \in BOOLEAN, NEW depth \in Depths, NEW hops \in Nat,
               Run(ebpf, refused, depth, hops),
               ebpf /\ ~refused => depth = Depth(c) /\ hops = MaxDepth(c),
               refused => depth = "one_level", depth = "ancestry" => hops > 0
        PROVE  PolicyInv'
    <2> DEFINE new == [policy[p] EXCEPT !.ebpf = ebpf, !.refused = refused,
                                        !.depth = depth, !.hops = hops]
    <2>0. /\ new \in Policies
          /\ new.tier2 = policy[p].tier2 /\ new.period = policy[p].period
          /\ new.ebpf = ebpf /\ new.refused = refused /\ new.depth = depth /\ new.hops = hops
      BY Zenon DEF PolicyInv, Policies
    <2>1. policy' = [policy EXCEPT ![p] = new]
      BY <1>3
    <2> HIDE DEF new
    <2>2. /\ policy'[p].tier2 = policy[p].tier2 /\ policy'[p].period = policy[p].period
          /\ policy'[p].ebpf = ebpf /\ policy'[p].refused = refused
          /\ policy'[p].depth = depth /\ policy'[p].hops = hops
      BY <2>0, <2>1 DEF PolicyInv
    <2>3. policy' \in [Procs -> Policies]
      BY <2>0, <2>1 DEF PolicyInv
    <2>4. \A q \in Procs : q # p => policy'[q] = policy[q]
      BY <2>1, Zenon DEF PolicyInv
    <2>5. pc' = [pc EXCEPT ![p] = "bind"] /\ cmd' = cmd
      BY <1>3 DEF Goto
    <2>6. PolicyRead(p)' BY <1>1, <2>2, <2>5 DEF PolicyInv, PolicyRead, WithPolicy, Labels
    <2>7. DepthSet(p)' BY <1>3, <2>2, <2>5, Zenon DEF DepthSet
    <2>8. ASSUME NEW q \in Procs, pc'[q] \in WithPolicy PROVE PolicyRead(q)'
      BY <2>4, <2>5, <2>6, <2>8 DEF PolicyInv, PolicyRead
    <2>9. ASSUME NEW q \in Procs, pc'[q] \in {"bind", "serve"} PROVE DepthSet(q)'
      BY <2>4, <2>5, <2>7, <2>9 DEF PolicyInv, DepthSet
    <2> QED BY <2>3, <2>5, <2>8, <2>9 DEF PolicyInv, Labels
  <1> HIDE DEF Run
  <1>4. CASE Run(FALSE, FALSE, "one_level", 0) \/ Run(TRUE, TRUE, "one_level", 0)
    BY <1>3, <1>4 DEF Depths
  <1>5. CASE Depth(c) # "invalid" /\ Run(TRUE, FALSE, Depth(c), MaxDepth(c))
    BY <1>1, <1>3, <1>5, DepthAsAsked
  <1> QED BY <1>2, <1>4, <1>5, GoneKeepsPolicy

LEMMA PolicyNext ==
    ASSUME PolicyInv, [Next]_vars
    PROVE  PolicyInv'
  <1>1. ASSUME NEW p \in Procs, NEW c \in Commands[p], Start(p, c) PROVE PolicyInv'
    <2>1. /\ pc' = [pc EXCEPT ![p] = "policy"] /\ cmd' = [cmd EXCEPT ![p] = c]
          /\ policy' = policy
      BY <1>1 DEF Start, Goto
    <2>2. c \in Command BY StartupAssumption
    <2>3. \A q \in Procs : q # p => pc'[q] = pc[q] /\ cmd'[q] = cmd[q]
      BY <2>1 DEF PolicyInv
    <2>4. pc'[p] = "policy" BY <2>1 DEF PolicyInv
    <2>5. ASSUME NEW q \in Procs, pc'[q] \in WithPolicy PROVE PolicyRead(q)'
      BY <2>1, <2>3, <2>4, <2>5 DEF PolicyInv, PolicyRead, WithPolicy
    <2>6. ASSUME NEW q \in Procs, pc'[q] \in {"bind", "serve"} PROVE DepthSet(q)'
      BY <2>1, <2>3, <2>4, <2>6 DEF PolicyInv, DepthSet
    <2> QED BY <2>1, <2>2, <2>5, <2>6 DEF PolicyInv, Labels
  <1>2. ASSUME NEW p \in Procs, Step(p) PROVE PolicyInv'
    <2>1. CASE ReadPolicy(p) BY <2>1, ReadPolicyKeepsPolicy
    <2>2. CASE LockPath(p)
      BY <2>2, MoveKeepsPolicy DEF LockPath, Labels, WithPolicy
    <2>3. CASE Flock(p)
      BY <2>3, GoneKeepsPolicy, MoveKeepsPolicy DEF Flock, Labels, WithPolicy
    <2>4. CASE Inspect(p)
      BY <2>4, GoneKeepsPolicy, MoveKeepsPolicy DEF Inspect, Labels, WithPolicy
    <2>5. CASE Unlink(p)
      BY <2>5, GoneKeepsPolicy, MoveKeepsPolicy DEF Unlink, Labels, WithPolicy
    <2>6. CASE Attach(p) BY <2>6, AttachKeepsPolicy
    <2>7. CASE Bind(p)
      BY <2>7, GoneKeepsPolicy, MoveKeepsPolicy DEF Bind, Labels, WithPolicy
    <2> QED BY <1>2, <2>1, <2>2, <2>3, <2>4, <2>5, <2>6, <2>7 DEF Step
  <1>3. ASSUME NEW p \in Procs, Fault(p) PROVE PolicyInv'
    BY <1>3, GoneKeepsPolicy DEF Fault
  <1>4. ASSUME UNCHANGED <<pc, cmd, policy>> PROVE PolicyInv'
    BY <1>4 DEF PolicyInv, PolicyRead, DepthSet
  <1> QED BY <1>1, <1>2, <1>3, <1>4 DEF Next, Signal, MoveForeign, vars, procVars

\* "explicit opt-in means the operator wants the policy enforced" (main): of
\* any number of processes, started from any command lines and interrupted
\* anywhere, one that serves runs with the policy it was asked for.
THEOREM StartupServesAsAsked == Spec => []ServesAsAsked
  <1>1. Init => PolicyInv BY PolicyInit
  <1>2. PolicyInv /\ [Next]_vars => PolicyInv' BY PolicyNext
  <1>3. PolicyInv => ServesAsAsked
    BY DEF PolicyInv, PolicyRead, DepthSet, ServesAsAsked, Serving, WithPolicy, Labels
  <1> QED BY <1>1, <1>2, <1>3, PTL DEF Spec, Safe

=============================================================================
