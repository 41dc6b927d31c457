--------------------------- MODULE ExecGateProofs ---------------------------
(***************************************************************************)
(* Proofs about ExecGate, for any number of tasks that fork, create        *)
(* threads, exec and exit in any order, any reuse of ids, any sizes of the *)
(* maps and buffers, and a worker that is arbitrarily late.                *)
(*                                                                         *)
(* The invariant has three parts: what is true of the tasks (a task        *)
(* belongs to a process whose id is still taken), of the kernel's maps     *)
(* against the history of what was marked, and of the events on their way  *)
(* to the worker.                                                          *)
(***************************************************************************)
EXTENDS ExecGate, FiniteSetTheorems, SequenceTheorems, TLAPS

TasksOK ==
    /\ task \in [Pids -> {"free", "process", "thread", "zombie"}]
    /\ tgid \in [Pids -> Pids] /\ ppid \in [Pids -> Pids \cup {InitPid}]
    /\ born \in [Pids -> Nat]
    /\ cmd \in [Pids -> Cmds \cup {NoCmd}] /\ next \in [Pids -> Cmds \cup {NoCmd}]
    /\ steps \in 0..MaxSteps
    /\ \A p \in Pids : /\ born[p] <= steps
                       /\ task[p] # "free" => Process(tgid[p]) /\ born[p] >= 1
                       /\ Process(p) => tgid[p] = p /\ cmd[p] \in Cmds
                       /\ next[p] # NoCmd => Running(p)

\* A map the kernel can hold.
MapOK(m) == m \subseteq Pids /\ IsFiniteSet(m) /\ Cardinality(m) <= MapCap

\* What the marks of task p have to do with its history.
Covered(p) ==
    /\ p \in watch_pids \ stray => task[p] # "free" /\ tgid[p] \in lineage
    /\ p \in scoped \cup tainted \cup lineage => Process(p)
    /\ p \in scoped => overflow \/ p \in watch_pids
    /\ p \in tainted /\ setting.depth = "propagate" /\ setting.mode = "Block"
         => overflow \/ p \in threat_map

MapsOK ==
    /\ MapOK(threat_map) /\ MapOK(warn_pids) /\ MapOK(watch_pids)
    /\ setting \in Settings
    /\ tainted \subseteq Pids /\ scoped \subseteq Pids /\ lineage \subseteq Pids
    /\ stray \subseteq Pids /\ overflow \in BOOLEAN
    /\ \A p \in Pids : Covered(p)

EventsOK ==
    /\ ring \in Seq(EventType) /\ Len(ring) <= RingCap
    /\ queue \in Seq(EventType) /\ Len(queue) <= QueueCap
    /\ worker \in [pc : {"idle", "read", "act"}, evt : EventType \cup {NoEvent},
                   profile : Profiles \cup {"prompt"}, live : Cmds \cup {NoCmd}]
    /\ worker.pc # "idle" => worker.evt \in EventType
    /\ profile \in Profiles

ExecInv == TasksOK /\ MapsOK /\ EventsOK

LEMMA ExecInvImplies == ExecInv => TypeOK /\ SubtreeCovered /\ NoStrangerWatched
  <1> SUFFICES ASSUME ExecInv PROVE TypeOK /\ SubtreeCovered /\ NoStrangerWatched OBVIOUS
  <1>1. TypeOK
    <2>1. born \in [Pids -> 0..MaxSteps]
      BY ExecGateAssumption DEF ExecInv, TasksOK
    <2>2. \A m \in {threat_map, warn_pids, watch_pids} : m \subseteq Pids /\ Cardinality(m) <= MapCap
      BY DEF ExecInv, MapsOK, MapOK
    <2>3. /\ worker.pc \in {"idle", "read", "act"} /\ worker.evt \in EventType \cup {NoEvent}
          /\ worker.live \in Cmds \cup {NoCmd}
      BY DEF ExecInv, EventsOK
    <2> QED BY <2>1, <2>2, <2>3 DEF TypeOK, ExecInv, TasksOK, MapsOK, EventsOK
  <1>2. SubtreeCovered
    <2> SUFFICES ASSUME ~overflow, NEW p \in Pids
                 PROVE  /\ p \in scoped => p \in watch_pids
                        /\ p \in tainted /\ setting.depth = "propagate" /\ setting.mode = "Block"
                             => CriticalMatch(p)
      BY DEF SubtreeCovered
    <2>1. Covered(p) BY DEF ExecInv, MapsOK
    <2> QED BY <2>1 DEF Covered, CriticalMatch
  <1>3. NoStrangerWatched
    BY DEF ExecInv, MapsOK, MapOK, Covered, NoStrangerWatched
  <1> QED BY <1>1, <1>2, <1>3

LEMMA ExecInit == Init => ExecInv
  <1> SUFFICES ASSUME Init PROVE ExecInv OBVIOUS
  <1>1. TasksOK
    BY ExecGateAssumption DEF Init, TasksOK, Running, Process
  <1>2. MapsOK
    <2>1. MapOK({}) BY ExecGateAssumption, FS_EmptySet DEF MapOK
    <2>2. \A p \in Pids : Covered(p) BY DEF Init, Covered
    <2> QED BY <2>1, <2>2 DEF Init, MapsOK
  <1>3. EventsOK
    <2>1. <<>> \in Seq(EventType) /\ Len(<<>>) = 0 BY EmptySeq
    <2> QED BY <2>1, ExecGateAssumption DEF Init, EventsOK
  <1> QED BY <1>1, <1>2, <1>3 DEF ExecInv

-----------------------------------------------------------------------------
(* The parts that a step leaves alone.                                     *)

\* Counting a step changes nothing else about the tasks.
LEMMA TasksFrame ==
    ASSUME TasksOK, UNCHANGED <<task, tgid, ppid, born, cmd, next>>,
           Bounded \/ steps' = steps
    PROVE  TasksOK'
  <1>1. steps' \in 0..MaxSteps /\ steps' >= steps /\ steps \in Int
    BY ExecGateAssumption DEF TasksOK, Bounded
  <1>2. \A p \in Pids : born'[p] <= steps'
    BY <1>1 DEF TasksOK
  <1> QED BY <1>1, <1>2 DEF TasksOK, Running, Process

LEMMA MapsFrame ==
    ASSUME MapsOK, UNCHANGED <<task, tgid, threat_map, warn_pids, watch_pids, setting,
                               tainted, scoped, lineage, stray, overflow>>
    PROVE  MapsOK'
  BY DEF MapsOK, MapOK, Covered, Process

LEMMA EventsFrame ==
    ASSUME EventsOK, UNCHANGED <<ring, queue, worker>>, profile' \in Profiles
    PROVE  EventsOK'
  BY DEF EventsOK, EventType, NoEvent

-----------------------------------------------------------------------------
(* The maps.                                                               *)

LEMMA PutOK ==
    ASSUME NEW m, MapOK(m), NEW p \in Pids
    PROVE  /\ MapOK(Put(m, p)) /\ m \subseteq Put(m, p) /\ Put(m, p) \subseteq m \cup {p}
           /\ Fits(m, p) => p \in Put(m, p)
  <1>1. CASE Fits(m, p)
    <2>1. IsFiniteSet(m \cup {p}) /\ Cardinality(m) \in Nat
          /\ Cardinality(m \cup {p}) = IF p \in m THEN Cardinality(m) ELSE Cardinality(m) + 1
      BY FS_AddElement, FS_CardinalityType DEF MapOK
    <2>2. Cardinality(m \cup {p}) <= MapCap
      BY <1>1, <2>1, ExecGateAssumption DEF Fits, MapOK
    <2>3. Put(m, p) = m \cup {p} BY <1>1 DEF Put
    <2> QED BY <2>1, <2>2, <2>3 DEF MapOK
  <1>2. CASE ~Fits(m, p) BY <1>2 DEF Put
  <1> QED BY <1>1, <1>2

LEMMA RemoveOK ==
    ASSUME NEW m, MapOK(m), NEW S
    PROVE  MapOK(m \ S)
  <1>1. IsFiniteSet(m \ S) /\ Cardinality(m \ S) <= Cardinality(m) /\ Cardinality(m) \in Nat
        /\ Cardinality(m \ S) \in Nat
    BY FS_Subset, FS_CardinalityType DEF MapOK
  <1> QED BY <1>1, ExecGateAssumption DEF MapOK

-----------------------------------------------------------------------------
(* New tasks.                                                              *)

LEMMA NewTaskOK ==
    ASSUME TasksOK, NEW p \in Pids, NEW kind, NEW group, NEW parent \in Pids \cup {InitPid},
           NewTask(p, kind, group, parent),
           \/ kind = "process" /\ group = p /\ cmd'[p] \in Cmds
           \/ kind = "thread" /\ group \in Pids /\ Process(group),
           cmd' \in [Pids -> Cmds \cup {NoCmd}], \A u \in Pids \ {p} : cmd'[u] = cmd[u],
           next' = next
    PROVE  /\ TasksOK'
           /\ task[p] = "free" /\ task'[p] = kind /\ tgid'[p] = group
           /\ \A u \in Pids \ {p} : task'[u] = task[u] /\ tgid'[u] = tgid[u]
  <1>1. /\ task[p] = "free" /\ steps < MaxSteps /\ steps' = steps + 1
        /\ task' = [task EXCEPT ![p] = kind] /\ born' = [born EXCEPT ![p] = @ + 1]
        /\ tgid' = [tgid EXCEPT ![p] = group] /\ ppid' = [ppid EXCEPT ![p] = parent]
    BY DEF NewTask, Bounded
  <1>2. /\ task' \in [Pids -> {"free", "process", "thread", "zombie"}] /\ tgid' \in [Pids -> Pids]
        /\ ppid' \in [Pids -> Pids \cup {InitPid}] /\ born' \in [Pids -> Nat]
        /\ task'[p] = kind /\ tgid'[p] = group /\ born'[p] = born[p] + 1
        /\ \A u \in Pids \ {p} : task'[u] = task[u] /\ tgid'[u] = tgid[u] /\ born'[u] = born[u]
    BY <1>1 DEF TasksOK
  <1>3. steps \in Nat /\ steps' \in 0..MaxSteps BY <1>1, ExecGateAssumption DEF TasksOK
  <1>4. ASSUME NEW u \in Pids
        PROVE  /\ born'[u] <= steps'
               /\ task'[u] # "free" => Process(tgid[u])' /\ born'[u] >= 1
               /\ Process(u)' => tgid'[u] = u /\ cmd'[u] \in Cmds
               /\ next'[u] # NoCmd => Running(u)'
    <2>1. /\ born[u] \in Nat /\ born[u] <= steps
          /\ task[u] # "free" => Process(tgid[u]) /\ born[u] >= 1
          /\ Process(u) => tgid[u] = u /\ cmd[u] \in Cmds
          /\ next[u] # NoCmd => Running(u)
          /\ tgid[u] \in Pids
      BY DEF TasksOK
    <2>2. CASE u = p
      <3>1. Process(tgid[u])' BY <1>1, <1>2, <2>2 DEF Process
      <3> QED BY <1>1, <1>2, <1>3, <2>1, <2>2, <3>1 DEF Process, Running
    <2>3. CASE u # p
      <3>1. task[u] # "free" => tgid[u] # p BY <1>1, <2>1 DEF Process
      <3> QED BY <1>1, <1>2, <1>3, <2>1, <2>3, <3>1 DEF Process, Running
    <2> QED BY <2>2, <2>3
  <1>5. TasksOK' BY <1>2, <1>3, <1>4 DEF TasksOK
  <1> QED BY <1>1, <1>2, <1>5

LEMMA InheritOK ==
    ASSUME NEW x, x \subseteq Pids, NEW p \in Pids, NEW q \in Pids
    PROVE  /\ Inherit(x, p, q) \subseteq Pids /\ x \subseteq Inherit(x, p, q)
           /\ tgid[q] \in x => p \in Inherit(x, p, q)
           /\ \A u \in Pids \ {p} : u \in Inherit(x, p, q) <=> u \in x
  BY DEF Inherit

\* trace_fork gives the new task the marks of its parent's process: a process
\* that was watched or marked has passed its mark on, if the map had room.
LEMMA TraceForkOK ==
    ASSUME TasksOK, MapsOK, NEW p \in Pids, NEW q \in Pids, Running(q), task[p] = "free",
           TraceFork(p, q), warn_pids' = warn_pids, setting' = setting,
           task'[p] \in {"process", "thread"},
           \A u \in Pids \ {p} : task'[u] = task[u] /\ tgid'[u] = tgid[u],
           \/ /\ task'[p] = "process" /\ tgid'[p] = p
              /\ tainted' = Inherit(tainted, p, q) /\ scoped' = Inherit(scoped, p, q)
              /\ lineage' = Inherit(lineage, p, q)
           \/ /\ task'[p] = "thread" /\ tgid'[p] = tgid[q]
              /\ UNCHANGED <<tainted, scoped, lineage>>,
           stray' = Inherit(stray, p, q)
    PROVE  MapsOK'
  <1> DEFINE g == tgid[q]
             watch == g \in watch_pids
             crit == setting.depth = "propagate" /\ g \in threat_map
  <1>0. /\ watch_pids' = IF watch THEN Put(watch_pids, p) ELSE watch_pids
        /\ threat_map' = IF crit THEN Put(threat_map, p) ELSE threat_map
        /\ overflow' = (overflow \/ (watch /\ ~Fits(watch_pids, p))
                                 \/ (crit /\ ~Fits(threat_map, p)))
    BY DEF TraceFork, ForkKey
  <1>1. g \in Pids /\ Process(g) /\ tgid[g] = g /\ g # p
    BY DEF TasksOK, Running, Process
  <1>2. MapOK(threat_map) /\ MapOK(warn_pids) /\ MapOK(watch_pids) BY DEF MapsOK
  <1>3. /\ MapOK(Put(watch_pids, p)) /\ watch_pids \subseteq Put(watch_pids, p)
        /\ Put(watch_pids, p) \subseteq watch_pids \cup {p}
        /\ Fits(watch_pids, p) => p \in Put(watch_pids, p)
    BY <1>2, PutOK
  <1>4. /\ MapOK(Put(threat_map, p)) /\ threat_map \subseteq Put(threat_map, p)
        /\ Fits(threat_map, p) => p \in Put(threat_map, p)
    BY <1>2, PutOK
  <1>5. /\ MapOK(watch_pids') /\ watch_pids \subseteq watch_pids'
        /\ \A u \in Pids \ {p} : u \in watch_pids' => u \in watch_pids
        /\ p \in watch_pids' => watch \/ p \in watch_pids
        /\ watch => p \in watch_pids' \/ ~Fits(watch_pids, p)
    BY <1>0, <1>2, <1>3
  <1>6. /\ MapOK(threat_map') /\ threat_map \subseteq threat_map'
        /\ crit => p \in threat_map' \/ ~Fits(threat_map, p)
    BY <1>0, <1>2, <1>4
  <1>7. /\ overflow => overflow'
        /\ watch => overflow' \/ p \in watch_pids'
        /\ crit => overflow' \/ p \in threat_map'
        /\ overflow' \in BOOLEAN
    BY <1>0, <1>5, <1>6 DEF MapsOK
  <1>8. /\ tainted' \subseteq Pids /\ scoped' \subseteq Pids /\ lineage' \subseteq Pids
        /\ stray' \subseteq Pids /\ stray \subseteq stray' /\ lineage \subseteq lineage'
        /\ g \in stray => p \in stray'
        /\ \A u \in Pids \ {p} : /\ u \in scoped' <=> u \in scoped
                                 /\ u \in tainted' <=> u \in tainted
                                 /\ u \in lineage' <=> u \in lineage
                                 /\ u \in stray' <=> u \in stray
    <2>1. tainted \subseteq Pids /\ scoped \subseteq Pids /\ lineage \subseteq Pids /\ stray \subseteq Pids
      BY DEF MapsOK
    <2>2. /\ stray' \subseteq Pids /\ stray \subseteq stray'
          /\ g \in stray => p \in stray'
          /\ \A u \in Pids \ {p} : u \in stray' <=> u \in stray
      BY <2>1, InheritOK
    <2>3. tainted' = tainted \/ tainted' = Inherit(tainted, p, q) OBVIOUS
    <2>4. scoped' = scoped \/ scoped' = Inherit(scoped, p, q) OBVIOUS
    <2>5. lineage' = lineage \/ lineage' = Inherit(lineage, p, q) OBVIOUS
    <2>6. tainted' \subseteq Pids /\ \A u \in Pids \ {p} : u \in tainted' <=> u \in tainted
      BY <2>1, <2>3, InheritOK
    <2>7. scoped' \subseteq Pids /\ \A u \in Pids \ {p} : u \in scoped' <=> u \in scoped
      BY <2>1, <2>4, InheritOK
    <2>8. /\ lineage' \subseteq Pids /\ lineage \subseteq lineage'
          /\ \A u \in Pids \ {p} : u \in lineage' <=> u \in lineage
      BY <2>1, <2>5, InheritOK
    <2> QED BY <2>2, <2>6, <2>7, <2>8
  <1>9. Covered(g) /\ Covered(p) BY <1>1 DEF MapsOK
  <1>10. p \notin watch_pids \ stray /\ p \notin scoped /\ p \notin tainted /\ p \notin lineage
    BY <1>9 DEF Covered, Process
  <1>11. Covered(p)'
    <2>1. p \in watch_pids' \ stray' => g \in lineage
      <3>1. p \in watch_pids' \ stray' => g \in watch_pids \ stray BY <1>5, <1>8, <1>10
      <3> QED BY <1>1, <1>9, <3>1 DEF Covered
    <2>2. CASE /\ task'[p] = "process" /\ tgid'[p] = p
               /\ tainted' = Inherit(tainted, p, q) /\ scoped' = Inherit(scoped, p, q)
               /\ lineage' = Inherit(lineage, p, q)
      <3>1. p \in scoped' <=> g \in scoped BY <1>10, <2>2 DEF Inherit
      <3>2. p \in tainted' <=> g \in tainted BY <1>10, <2>2 DEF Inherit
      <3>3. p \in lineage' <=> g \in lineage BY <1>10, <2>2 DEF Inherit
      <3>4. p \in scoped' => overflow' \/ p \in watch_pids'
        BY <1>7, <1>9, <3>1 DEF Covered
      <3>5. p \in tainted' /\ setting'.depth = "propagate" /\ setting'.mode = "Block"
              => overflow' \/ p \in threat_map'
        BY <1>7, <1>9, <3>2 DEF Covered
      <3> QED BY <2>1, <2>2, <3>3, <3>4, <3>5 DEF Covered, Process
    <2>3. CASE task'[p] = "thread" /\ tgid'[p] = g /\ UNCHANGED <<tainted, scoped, lineage>>
      BY <1>10, <2>1, <2>3 DEF Covered, Process
    <2> QED BY <2>2, <2>3
  <1>12. ASSUME NEW u \in Pids \ {p} PROVE Covered(u)'
    <2>1. Covered(u) /\ task'[u] = task[u] /\ tgid'[u] = tgid[u] BY DEF MapsOK
    <2>2. u \in watch_pids' => u \in watch_pids BY <1>5
    <2>3. /\ u \in scoped' <=> u \in scoped
          /\ u \in tainted' <=> u \in tainted
          /\ u \in lineage' <=> u \in lineage
          /\ u \in stray' <=> u \in stray
      BY <1>8
    <2>4. tgid[u] \in lineage => tgid'[u] \in lineage' BY <1>8, <2>1
    <2> QED BY <1>5, <1>6, <1>7, <2>1, <2>2, <2>3, <2>4 DEF Covered, Process
  <1>13. MapOK(warn_pids') BY <1>2
  <1>14. MapOK(threat_map)' /\ MapOK(warn_pids)' /\ MapOK(watch_pids)'
    BY <1>5, <1>6, <1>13 DEF MapOK
  <1> QED BY <1>7, <1>8, <1>11, <1>12, <1>14 DEF MapsOK

LEMMA StartKeepsInv ==
    ASSUME ExecInv, NEW p \in Pids, Start(p)
    PROVE  ExecInv'
  <1>1. /\ NewTask(p, "process", p, InitPid) /\ cmd' = [cmd EXCEPT ![p] = Shell]
        /\ UNCHANGED <<next, threat_map, watch_pids, tainted, scoped, lineage, stray, overflow>>
    BY DEF Start, ghostVars
  <1>2. /\ cmd' \in [Pids -> Cmds \cup {NoCmd}] /\ cmd'[p] \in Cmds
        /\ \A u \in Pids \ {p} : cmd'[u] = cmd[u]
    BY <1>1, ExecGateAssumption DEF ExecInv, TasksOK
  <1>3. TasksOK BY DEF ExecInv
  <1>4. /\ TasksOK' /\ task[p] = "free" /\ task'[p] = "process" /\ tgid'[p] = p
        /\ \A u \in Pids \ {p} : task'[u] = task[u] /\ tgid'[u] = tgid[u]
    BY <1>1, <1>2, <1>3, NewTaskOK
  <1>5. UNCHANGED <<warn_pids, ring, queue, worker, profile, setting>>
    BY <1>1 DEF NewTask, eventVars
  <1>6. MapsOK'
    <2>1. Covered(p)'
      <3>1. Covered(p) BY DEF ExecInv, MapsOK
      <3> QED BY <1>1, <1>4, <1>5, <3>1 DEF Covered, Process
    <2>2. ASSUME NEW u \in Pids \ {p} PROVE Covered(u)'
      <3>1. Covered(u) BY DEF ExecInv, MapsOK
      <3> QED BY <1>1, <1>4, <1>5, <3>1 DEF Covered, Process
    <2> QED BY <1>1, <1>5, <2>1, <2>2 DEF ExecInv, MapsOK, MapOK
  <1>7. EventsOK' BY <1>5, EventsFrame DEF ExecInv, EventsOK
  <1> QED BY <1>4, <1>6, <1>7 DEF ExecInv

LEMMA ForkKeepsInv ==
    ASSUME ExecInv, NEW p \in Pids, NEW q \in Pids, Fork(p, q)
    PROVE  ExecInv'
  <1>1. /\ Running(q) /\ NewTask(p, "process", p, tgid[q])
        /\ cmd' = [cmd EXCEPT ![p] = cmd[tgid[q]]] /\ TraceFork(p, q) /\ next' = next
        /\ tainted' = Inherit(tainted, p, q) /\ scoped' = Inherit(scoped, p, q)
        /\ lineage' = Inherit(lineage, p, q) /\ stray' = Inherit(stray, p, q)
    BY DEF Fork
  <1>2. TasksOK /\ MapsOK BY DEF ExecInv
  <1>3. tgid[q] \in Pids /\ Process(tgid[q]) /\ cmd[tgid[q]] \in Cmds
    BY <1>1, <1>2 DEF TasksOK, Running
  <1>4. /\ cmd' \in [Pids -> Cmds \cup {NoCmd}] /\ cmd'[p] \in Cmds
        /\ \A u \in Pids \ {p} : cmd'[u] = cmd[u]
    BY <1>1, <1>2, <1>3 DEF TasksOK
  <1>5. /\ TasksOK' /\ task[p] = "free" /\ task'[p] = "process" /\ tgid'[p] = p
        /\ \A u \in Pids \ {p} : task'[u] = task[u] /\ tgid'[u] = tgid[u]
    BY <1>1, <1>2, <1>3, <1>4, NewTaskOK
  <1>6. UNCHANGED <<warn_pids, ring, queue, worker, profile, setting>>
    BY <1>1 DEF NewTask, eventVars
  <1>7. MapsOK' BY <1>1, <1>2, <1>5, <1>6, TraceForkOK
  <1>8. EventsOK' BY <1>6, EventsFrame DEF ExecInv, EventsOK
  <1> QED BY <1>5, <1>7, <1>8 DEF ExecInv

LEMMA CloneKeepsInv ==
    ASSUME ExecInv, NEW p \in Pids, NEW q \in Pids, Clone(p, q)
    PROVE  ExecInv'
  <1>1. /\ Running(q) /\ NewTask(p, "thread", tgid[q], ppid[tgid[q]])
        /\ TraceFork(p, q) /\ UNCHANGED <<cmd, next, tainted, scoped, lineage>>
        /\ stray' = Inherit(stray, p, q)
    BY DEF Clone
  <1>2. TasksOK /\ MapsOK BY DEF ExecInv
  <1>3. tgid[q] \in Pids /\ Process(tgid[q]) /\ ppid[tgid[q]] \in Pids \cup {InitPid}
    BY <1>1, <1>2 DEF TasksOK, Running
  <1>4. cmd' \in [Pids -> Cmds \cup {NoCmd}] /\ \A u \in Pids \ {p} : cmd'[u] = cmd[u]
    BY <1>1, <1>2 DEF TasksOK
  <1>5. /\ TasksOK' /\ task[p] = "free" /\ task'[p] = "thread" /\ tgid'[p] = tgid[q]
        /\ \A u \in Pids \ {p} : task'[u] = task[u] /\ tgid'[u] = tgid[u]
    BY <1>1, <1>2, <1>3, <1>4, NewTaskOK
  <1>6. UNCHANGED <<warn_pids, ring, queue, worker, profile, setting>>
    BY <1>1 DEF NewTask, eventVars
  <1>7. MapsOK' BY <1>1, <1>2, <1>5, <1>6, TraceForkOK
  <1>8. EventsOK' BY <1>6, EventsFrame DEF ExecInv, EventsOK
  <1> QED BY <1>5, <1>7, <1>8 DEF ExecInv

-----------------------------------------------------------------------------
(* Tasks that end.                                                         *)

\* The tasks es exit and the ids ps become free, with those of a process all
\* those of its threads: no task is left without its process, and an entry of
\* watch_pids stays behind only for an id that is free with no exit.
LEMMA ReleaseOK ==
    ASSUME TasksOK, MapsOK, NEW es \in SUBSET Pids, NEW ps \in SUBSET Pids,
           TraceExit(es), Release(es, ps),
           \A u \in Pids \ ps : task[u] # "free" => tgid[u] \notin ps,
           task' \in [Pids -> {"free", "process", "thread", "zombie"}],
           \A u \in ps : task'[u] = "free",
           \A u \in Pids \ ps : (task'[u] = "free" <=> task[u] = "free")
                               /\ (Process(u)' <=> Process(u)),
           cmd' \in [Pids -> Cmds \cup {NoCmd}],
           \A u \in Pids \ ps : Process(u) => cmd'[u] \in Cmds,
           next' \in [Pids -> Cmds \cup {NoCmd}],
           \A u \in Pids : next'[u] # NoCmd => Running(u)',
           UNCHANGED <<warn_pids, setting, steps>>
    PROVE  TasksOK' /\ MapsOK'
  <1>1. /\ tgid' = [p \in Pids |-> IF p \in ps THEN p ELSE tgid[p]]
        /\ ppid' = [p \in Pids |-> IF {p, ppid[p]} \cap ps # {} THEN InitPid ELSE ppid[p]]
        /\ tainted' = tainted \ (es \cup ps) /\ scoped' = scoped \ (es \cup ps)
        /\ lineage' = lineage \ ps
        /\ stray' = (stray \ es) \cup ((ps \ es) \cap watch_pids)
        /\ born' = born /\ overflow' = overflow
    BY DEF Release
  <1>2. watch_pids' = watch_pids \ es /\ threat_map' = threat_map \ {p \in es : tgid[p] = p}
    BY DEF TraceExit
  <1>3. TasksOK'
    <2>1. /\ tgid' \in [Pids -> Pids] /\ ppid' \in [Pids -> Pids \cup {InitPid}]
          /\ born' \in [Pids -> Nat] /\ steps' \in 0..MaxSteps
      BY <1>1 DEF TasksOK
    <2>2. ASSUME NEW u \in Pids
          PROVE  /\ born'[u] <= steps'
                 /\ task'[u] # "free" => Process(tgid[u])' /\ born'[u] >= 1
                 /\ Process(u)' => tgid'[u] = u /\ cmd'[u] \in Cmds
      <3>1. /\ born[u] <= steps
            /\ task[u] # "free" => Process(tgid[u]) /\ born[u] >= 1
            /\ Process(u) => tgid[u] = u
            /\ tgid[u] \in Pids
        BY DEF TasksOK
      <3>2. CASE u \in ps BY <1>1, <3>1, <3>2 DEF Process
      <3>3. CASE u \notin ps
        <4>1. tgid'[u] = tgid[u] /\ born'[u] = born[u] /\ steps' = steps BY <1>1, <3>3
        <4>2. task'[u] # "free" => Process(tgid[u])' BY <3>1, <3>3, <4>1
        <4> QED BY <3>1, <3>3, <4>1, <4>2
      <3> QED BY <3>2, <3>3
    <2> QED BY <2>1, <2>2 DEF TasksOK
  <1>4. MapOK(threat_map)' /\ MapOK(warn_pids)' /\ MapOK(watch_pids)'
    <2>1. MapOK(threat_map \ {p \in es : tgid[p] = p}) /\ MapOK(watch_pids \ es) /\ MapOK(warn_pids)
      BY RemoveOK DEF MapsOK
    <2> QED BY <1>2, <2>1 DEF MapOK
  <1>5. ASSUME NEW u \in Pids PROVE Covered(u)'
    <2>1. Covered(u) BY DEF MapsOK
    <2>2. CASE u \in ps BY <1>1, <1>2, <2>2 DEF Covered
    <2>3. CASE u \notin ps
      <3>1. tgid'[u] = tgid[u] BY <1>1, <2>3
      <3>2. u \in watch_pids' \ stray' => task'[u] # "free" /\ tgid'[u] \in lineage'
        <4>1. u \in watch_pids' \ stray' => u \in watch_pids \ stray BY <1>1, <1>2
        <4> QED BY <1>1, <2>1, <2>3, <3>1, <4>1 DEF Covered
      <3>3. u \in scoped' \cup tainted' \cup lineage' => Process(u)'
        BY <1>1, <2>1, <2>3 DEF Covered
      <3>4. u \in scoped' => overflow' \/ u \in watch_pids'
        BY <1>1, <1>2, <2>1 DEF Covered
      <3>5. u \in tainted' /\ setting'.depth = "propagate" /\ setting'.mode = "Block"
              => overflow' \/ u \in threat_map'
        BY <1>1, <1>2, <2>1 DEF Covered
      <3> QED BY <3>2, <3>3, <3>4, <3>5 DEF Covered
    <2> QED BY <2>2, <2>3
  <1>6. MapsOK' BY <1>1, <1>4, <1>5 DEF MapsOK
  <1> QED BY <1>3, <1>6

\* The ids of a process are those of its tasks: no other task has its process
\* among them.
LEMMA MembersClosed ==
    ASSUME TasksOK, NEW g \in Pids, NEW u \in Pids, task[u] # "free", tgid[u] \in Members(g)
    PROVE  tgid[u] = g /\ u \in Members(g)
  <1>1. tgid[u] \in Pids /\ Process(tgid[u]) BY DEF TasksOK
  <1>2. tgid[tgid[u]] = tgid[u] BY <1>1 DEF TasksOK
  <1>3. tgid[tgid[u]] = g BY DEF Members
  <1> QED BY <1>2, <1>3 DEF Members

LEMMA ExitKeepsInv ==
    ASSUME ExecInv, NEW p \in Pids, Exit(p)
    PROVE  ExecInv'
  <1> DEFINE g == tgid[p]
             ps == IF Group(g) = {p} THEN Members(g) ELSE {p} \ {g}
  <1>1. /\ Running(p) /\ next[p] = NoCmd
        /\ TraceExit({p}) /\ Release({p}, ps)
        /\ task' = Without([task EXCEPT ![p] = "zombie"], ps, "free")
        /\ cmd' = Without(cmd, ps, NoCmd)
        /\ UNCHANGED <<next, warn_pids, ring, queue, worker, profile, setting, steps>>
    BY DEF Exit, eventVars
  <1>2. TasksOK /\ MapsOK /\ EventsOK BY DEF ExecInv
  <1>3. g \in Pids /\ Process(g) /\ tgid[g] = g BY <1>1, <1>2 DEF TasksOK, Running
  <1>4. ps \in SUBSET Pids /\ (p \in ps \/ p = g)
    BY <1>1 DEF Members, Running
  <1>5. ASSUME NEW u \in Pids \ ps, task[u] # "free" PROVE tgid[u] \notin ps
    <2>1. CASE Group(g) = {p} BY <1>2, <1>3, <1>5, <2>1, MembersClosed
    <2>2. CASE Group(g) # {p}
      <3>1. Process(tgid[u]) /\ tgid[u] \in Pids BY <1>2, <1>5 DEF TasksOK
      <3>2. tgid[tgid[u]] = tgid[u] BY <1>2, <3>1 DEF TasksOK
      <3> QED BY <2>2, <3>2
    <2> QED BY <2>1, <2>2
  <1>6. ASSUME NEW u \in Pids, next[u] # NoCmd PROVE Running(u) /\ u # p /\ u \notin ps
    <2>1. Running(u) /\ u # p BY <1>1, <1>2, <1>6 DEF TasksOK
    <2> QED BY <2>1 DEF Group, Members
  <1> HIDE DEF ps
  <1>7. /\ task' \in [Pids -> {"free", "process", "thread", "zombie"}]
        /\ \A u \in ps : task'[u] = "free"
        /\ \A u \in Pids \ ps : task'[u] = IF u = p THEN "zombie" ELSE task[u]
    BY <1>1, <1>2, <1>4 DEF Without, TasksOK
  <1>8. \A u \in Pids \ ps : (task'[u] = "free" <=> task[u] = "free") /\ (Process(u)' <=> Process(u))
    BY <1>1, <1>3, <1>4, <1>7 DEF Process, Running
  <1>9. /\ cmd' \in [Pids -> Cmds \cup {NoCmd}]
        /\ \A u \in Pids \ ps : Process(u) => cmd'[u] \in Cmds
    BY <1>1, <1>2 DEF Without, TasksOK
  <1>10. /\ next' \in [Pids -> Cmds \cup {NoCmd}]
         /\ \A u \in Pids : next'[u] # NoCmd => Running(u)'
    BY <1>1, <1>2, <1>6, <1>7 DEF Running, TasksOK
  <1>11. {p} \in SUBSET Pids OBVIOUS
  <1>12. TasksOK' /\ MapsOK' BY <1>1, <1>2, <1>4, <1>5, <1>7, <1>8, <1>9, <1>10, <1>11, ReleaseOK
  <1>13. EventsOK' BY <1>1, <1>2, EventsFrame DEF EventsOK
  <1> QED BY <1>12, <1>13 DEF ExecInv

\* The exec of one thread ends the others and frees its own id.
LEMMA NewImageKeepsInv ==
    ASSUME ExecInv, NEW q \in Pids, NewImage(q)
    PROVE  ExecInv'
  <1> DEFINE p == tgid[q]
             others == Group(p) \ {q}
             ps == Members(p) \ {p}
  <1>1. /\ next[q] # NoCmd /\ TraceExit(others) /\ Release(others, ps)
        /\ task' = Without([task EXCEPT ![p] = "process"], ps, "free")
        /\ cmd' = [cmd EXCEPT ![p] = next[q]]
        /\ next' = Without(next, Members(p), NoCmd)
        /\ UNCHANGED <<warn_pids, ring, queue, worker, profile, setting, steps>>
    BY DEF NewImage, eventVars
  <1>2. TasksOK /\ MapsOK /\ EventsOK BY DEF ExecInv
  <1>3. p \in Pids /\ Process(p) /\ tgid[p] = p BY <1>1, <1>2 DEF TasksOK, Running
  <1>4. ps \in SUBSET Pids /\ others \in SUBSET Pids BY DEF Members, Group
  <1>5. \A u \in Pids \ ps : task[u] # "free" => tgid[u] \notin ps
    BY <1>2, <1>3, MembersClosed
  <1>6. p \in Members(p) /\ p \notin ps BY <1>3 DEF Members, Process
  <1> HIDE DEF p, others
  <1>7. /\ task' \in [Pids -> {"free", "process", "thread", "zombie"}]
        /\ \A u \in ps : task'[u] = "free"
        /\ \A u \in Pids \ ps : task'[u] = IF u = p THEN "process" ELSE task[u]
    BY <1>1, <1>2, <1>4 DEF Without, TasksOK
  <1>8. \A u \in Pids \ ps : (task'[u] = "free" <=> task[u] = "free") /\ (Process(u)' <=> Process(u))
    BY <1>3, <1>7 DEF Process
  <1>9. /\ cmd' \in [Pids -> Cmds \cup {NoCmd}]
        /\ \A u \in Pids \ ps : Process(u) => cmd'[u] \in Cmds
    BY <1>1, <1>2, <1>3 DEF TasksOK
  <1>10. /\ next' \in [Pids -> Cmds \cup {NoCmd}]
         /\ \A u \in Pids : next'[u] # NoCmd => Running(u)'
    <2>1. /\ next' \in [Pids -> Cmds \cup {NoCmd}]
          /\ \A u \in Pids : next'[u] # NoCmd => next[u] # NoCmd /\ u \notin Members(p)
      BY <1>1, <1>2 DEF Without, TasksOK
    <2>2. \A u \in Pids : next[u] # NoCmd => Running(u) BY <1>2 DEF TasksOK
    <2> QED BY <1>6, <1>7, <2>1, <2>2 DEF Running
  <1> HIDE DEF ps
  <1>11. TasksOK' /\ MapsOK' BY <1>1, <1>2, <1>4, <1>5, <1>7, <1>8, <1>9, <1>10, ReleaseOK
  <1>12. EventsOK' BY <1>1, <1>2, EventsFrame DEF EventsOK
  <1> QED BY <1>11, <1>12 DEF ExecInv

-----------------------------------------------------------------------------
(* Execs and events.                                                       *)

LEMMA EventOK ==
    ASSUME TasksOK, NEW v \in {"warn", "block", "classify"}, NEW p \in Pids, NEW c \in Cmds, Process(p)
    PROVE  Event(v, p, c) \in EventType
  <1>1. born[p] \in 1..MaxSteps /\ cmd[p] \in Cmds
    BY ExecGateAssumption DEF TasksOK, Process
  <1> QED BY <1>1 DEF Event, EventType

LEMMA SubmitOK ==
    ASSUME EventsOK, NEW es \in Seq(EventType), Submit(es)
    PROVE  ring' \in Seq(EventType) /\ Len(ring') <= RingCap
  <1> DEFINE all == ring \o es
             n == IF Len(all) < RingCap THEN Len(all) ELSE RingCap
  <1>1. all \in Seq(EventType) BY ConcatProperties DEF EventsOK
  <1>2. ring' = SubSeq(all, 1, n) BY DEF Submit
  <1> HIDE DEF all
  <1>3. Len(all) \in Nat /\ n \in Nat /\ n <= Len(all) /\ n <= RingCap
    BY <1>1, ExecGateAssumption
  <1> HIDE DEF n
  <1>4. \A i \in 1..n : all[i] \in EventType BY <1>1, <1>3
  <1>5. /\ SubSeq(all, 1, n) \in Seq(EventType)
        /\ Len(SubSeq(all, 1, n)) = IF 1 <= n THEN n - 1 + 1 ELSE 0
    BY <1>3, <1>4, SubSeqProperties
  <1>6. Len(ring') <= RingCap BY <1>2, <1>3, <1>5, ExecGateAssumption
  <1> QED BY <1>2, <1>5, <1>6

LEMMA ExecKeepsInv ==
    ASSUME ExecInv, NEW q \in Pids, NEW c \in Cmds, ExecRefused(q, c) \/ ExecAllowed(q, c)
    PROVE  ExecInv'
  <1> DEFINE p == tgid[q]
  <1>1. /\ Running(q) /\ Bounded
        /\ UNCHANGED <<task, tgid, ppid, born, cmd, threat_map, warn_pids, watch_pids, queue,
                       worker, profile, setting, tainted, scoped, lineage, stray, overflow>>
    BY DEF ExecRefused, ExecAllowed, taskVars, mapVars, ghostVars
  <1>2. TasksOK /\ MapsOK /\ EventsOK BY DEF ExecInv
  <1>0. p \in Pids /\ Process(p) BY <1>1, <1>2 DEF TasksOK, Running
  <1>3. /\ Event("warn", p, c) \in EventType /\ Event("block", p, c) \in EventType
        /\ Event("classify", p, c) \in EventType
    BY <1>0, <1>2, EventOK
  <1>4. \E es \in Seq(EventType) : Submit(es)
    <2>1. ASSUME NEW e \in EventType PROVE <<e>> \in Seq(EventType) OBVIOUS
    <2>2. <<>> \in Seq(EventType) BY EmptySeq
    <2>3. CASE ExecRefused(q, c)
      <3> DEFINE w == IF ~CriticalMatch(p) /\ ppid[p] \in warn_pids
                      THEN <<Event("warn", p, c)>> ELSE <<>>
      <3>1. Submit(w \o <<Event("block", p, c)>>) BY <2>3 DEF ExecRefused
      <3>2. w \in Seq(EventType) /\ <<Event("block", p, c)>> \in Seq(EventType)
        BY <1>3, <2>1, <2>2
      <3> HIDE DEF w
      <3>3. w \o <<Event("block", p, c)>> \in Seq(EventType) BY <3>2, ConcatProperties
      <3> QED BY <3>1, <3>3
    <2>4. CASE ExecAllowed(q, c)
      <3> DEFINE w == IF ppid[p] \in warn_pids THEN <<Event("warn", p, c)>> ELSE <<>>
                 k == IF p \in watch_pids THEN <<Event("classify", p, c)>> ELSE <<>>
      <3>1. Submit(w \o k) BY <2>4 DEF ExecAllowed
      <3>2. w \in Seq(EventType) /\ k \in Seq(EventType) BY <1>3, <2>1, <2>2
      <3> HIDE DEF w, k
      <3>3. w \o k \in Seq(EventType) BY <3>2, ConcatProperties
      <3> QED BY <3>1, <3>3
    <2> QED BY <2>3, <2>4
  <1>5. ring' \in Seq(EventType) /\ Len(ring') <= RingCap BY <1>2, <1>4, SubmitOK
  <1>6. EventsOK' BY <1>1, <1>2, <1>5 DEF EventsOK, EventType, NoEvent
  <1>7. MapsOK' BY <1>1, <1>2, MapsFrame
  <1>8. TasksOK'
    <2>1. /\ next' \in [Pids -> Cmds \cup {NoCmd}]
          /\ \A u \in Pids : next'[u] # NoCmd => Running(u)
      <3>1. /\ next \in [Pids -> Cmds \cup {NoCmd}]
            /\ \A u \in Pids : next[u] # NoCmd => Running(u)
        BY <1>2 DEF TasksOK
      <3>2. next' = next \/ next' = [next EXCEPT ![q] = c]
        BY DEF ExecRefused, ExecAllowed, taskVars
      <3> QED BY <1>1, <3>1, <3>2
    <2>2. steps' \in 0..MaxSteps /\ steps' >= steps /\ steps \in Int
      BY <1>1, <1>2, ExecGateAssumption DEF TasksOK, Bounded
    <2>3. \A u \in Pids : born'[u] <= steps' BY <1>1, <1>2, <2>2 DEF TasksOK
    <2> QED BY <1>1, <1>2, <2>1, <2>2, <2>3 DEF TasksOK, Running, Process
  <1> QED BY <1>6, <1>7, <1>8 DEF ExecInv

LEMMA ConsumeKeepsInv ==
    ASSUME ExecInv, Consume
    PROVE  ExecInv'
  <1>1. /\ ring # <<>> /\ ring' = Tail(ring)
        /\ queue' = IF Head(ring).verdict = "classify" THEN TrySend(Head(ring)) ELSE queue
        /\ UNCHANGED <<task, tgid, ppid, born, cmd, next, threat_map, warn_pids, watch_pids,
                       worker, profile, setting, steps, tainted, scoped, lineage, stray, overflow>>
    BY DEF Consume, taskVars, mapVars, ghostVars
  <1>2. TasksOK /\ MapsOK /\ EventsOK BY DEF ExecInv
  <1>3. /\ Head(ring) \in EventType /\ ring' \in Seq(EventType) /\ Len(ring') = Len(ring) - 1
        /\ Len(ring) \in Nat
    BY <1>1, <1>2, HeadTailProperties, LenProperties DEF EventsOK
  <1>4. Len(ring') <= RingCap BY <1>2, <1>3, ExecGateAssumption DEF EventsOK
  <1>5. queue' \in Seq(EventType) /\ Len(queue') <= QueueCap
    <2> DEFINE e == Head(ring)
    <2> HIDE DEF e
    <2>1. /\ Append(queue, e) \in Seq(EventType) /\ Len(Append(queue, e)) = Len(queue) + 1
          /\ Len(queue) \in Nat
      BY <1>2, <1>3 DEF EventsOK, e
    <2>2. TrySend(e) \in Seq(EventType) /\ Len(TrySend(e)) <= QueueCap
      BY <1>2, <2>1, ExecGateAssumption DEF EventsOK, TrySend
    <2> QED BY <1>1, <1>2, <2>2 DEF EventsOK, e
  <1>6. EventsOK' BY <1>1, <1>2, <1>3, <1>4, <1>5 DEF EventsOK, EventType, NoEvent
  <1>7. TasksOK' /\ MapsOK' BY <1>1, <1>2, TasksFrame, MapsFrame
  <1> QED BY <1>6, <1>7 DEF ExecInv

LEMMA TakeKeepsInv ==
    ASSUME ExecInv, Take
    PROVE  ExecInv'
  <1>1. /\ queue # <<>> /\ queue' = Tail(queue)
        /\ worker' = [pc |-> "read", evt |-> Head(queue), profile |-> profile, live |-> NoCmd]
        /\ UNCHANGED <<task, tgid, ppid, born, cmd, next, threat_map, warn_pids, watch_pids,
                       ring, profile, setting, steps, tainted, scoped, lineage, stray, overflow>>
    BY DEF Take, taskVars, mapVars, ghostVars
  <1>2. TasksOK /\ MapsOK /\ EventsOK BY DEF ExecInv
  <1>3. /\ Head(queue) \in EventType /\ queue' \in Seq(EventType) /\ Len(queue') = Len(queue) - 1
        /\ Len(queue) \in Nat
    BY <1>1, <1>2, HeadTailProperties, LenProperties DEF EventsOK
  <1>4. Len(queue') <= QueueCap BY <1>2, <1>3, ExecGateAssumption DEF EventsOK
  <1>5. EventsOK' BY <1>1, <1>2, <1>3, <1>4 DEF EventsOK, EventType, NoEvent
  <1>6. TasksOK' /\ MapsOK' BY <1>1, <1>2, TasksFrame, MapsFrame
  <1> QED BY <1>5, <1>6 DEF ExecInv

LEMMA ReadCmdlineKeepsInv ==
    ASSUME ExecInv, ReadCmdline
    PROVE  ExecInv'
  <1> DEFINE p == worker.evt.pid
  <1>1. /\ worker.pc = "read"
        /\ \/ worker' = [worker EXCEPT !.pc = "act", !.live = cmd[tgid[p]]]
           \/ worker' = [worker EXCEPT !.pc = "act"]
        /\ UNCHANGED <<task, tgid, ppid, born, cmd, next, threat_map, warn_pids, watch_pids,
                       ring, queue, profile, setting, steps, tainted, scoped, lineage, stray, overflow>>
    BY DEF ReadCmdline, taskVars, mapVars, ghostVars
  <1>2. TasksOK /\ MapsOK /\ EventsOK BY DEF ExecInv
  <1>3. worker.evt \in EventType /\ p \in Pids BY <1>1, <1>2 DEF EventsOK, EventType
  <1>4. cmd[tgid[p]] \in Cmds \cup {NoCmd} BY <1>2, <1>3 DEF TasksOK
  <1>5. /\ worker' \in [pc : {"idle", "read", "act"}, evt : EventType \cup {NoEvent},
                        profile : Profiles \cup {"prompt"}, live : Cmds \cup {NoCmd}]
        /\ worker'.evt = worker.evt
    <2> HIDE DEF p
    <2> QED BY <1>1, <1>2, <1>4 DEF EventsOK
  <1>6. EventsOK' BY <1>1, <1>2, <1>3, <1>5 DEF EventsOK, EventType, NoEvent
  <1>7. TasksOK' /\ MapsOK' BY <1>1, <1>2, TasksFrame, MapsFrame
  <1> QED BY <1>6, <1>7 DEF ExecInv

\* The worker kills a whole process.
LEMMA ActKeepsInv ==
    ASSUME ExecInv, Act
    PROVE  ExecInv'
  <1> DEFINE g == tgid[worker.evt.pid]
  <1>1. /\ worker.pc = "act"
        /\ worker' = [pc |-> "idle", evt |-> NoEvent, profile |-> "prompt", live |-> NoCmd]
        /\ IF Kills
           THEN /\ TraceExit(Group(g)) /\ Release(Group(g), Members(g))
                /\ task' = Without(task, Members(g), "free")
                /\ cmd' = Without(cmd, Members(g), NoCmd) /\ next' = Without(next, Members(g), NoCmd)
           ELSE UNCHANGED <<task, tgid, ppid, born, cmd, next, watch_pids, threat_map,
                                     tainted, scoped, lineage, stray, overflow>>
        /\ UNCHANGED <<warn_pids, ring, queue, profile, setting, steps>>
    BY DEF Act, taskVars, ghostVars
  <1>2. TasksOK /\ MapsOK /\ EventsOK BY DEF ExecInv
  <1>3. EventsOK' BY <1>1, <1>2 DEF EventsOK, EventType, NoEvent
  <1>4. CASE Kills
    <2>1. worker.evt.pid \in Pids /\ task[worker.evt.pid] # "free"
      BY <1>1, <1>2, <1>4 DEF EventsOK, EventType, Kills
    <2>2. g \in Pids BY <1>2, <2>1 DEF TasksOK
    <2> HIDE DEF g
    <2>3. \A u \in Pids \ Members(g) : task[u] # "free" => tgid[u] \notin Members(g)
      BY <1>2, <2>2, MembersClosed
    <2>4. Group(g) \in SUBSET Pids /\ Members(g) \in SUBSET Pids BY DEF Group, Members
    <2>5. /\ task' \in [Pids -> {"free", "process", "thread", "zombie"}]
          /\ \A u \in Members(g) : task'[u] = "free"
          /\ \A u \in Pids \ Members(g) : task'[u] = task[u]
      BY <1>1, <1>2, <1>4, <2>4 DEF Without, TasksOK
    <2>6. \A u \in Pids \ Members(g) : (task'[u] = "free" <=> task[u] = "free") /\ (Process(u)' <=> Process(u))
      BY <2>5 DEF Process
    <2>7. /\ cmd' \in [Pids -> Cmds \cup {NoCmd}]
          /\ \A u \in Pids \ Members(g) : Process(u) => cmd'[u] \in Cmds
      BY <1>1, <1>2, <1>4 DEF Without, TasksOK
    <2>8. /\ next' \in [Pids -> Cmds \cup {NoCmd}]
          /\ \A u \in Pids : next'[u] # NoCmd => Running(u)'
      BY <1>1, <1>2, <1>4, <2>5 DEF Without, TasksOK, Running
    <2>9. TraceExit(Group(g)) /\ Release(Group(g), Members(g)) /\ UNCHANGED <<warn_pids, setting, steps>>
      BY <1>1, <1>4
    <2>10. TasksOK' /\ MapsOK'
      BY <1>2, <2>3, <2>4, <2>5, <2>6, <2>7, <2>8, <2>9, ReleaseOK
    <2> QED BY <1>3, <2>10 DEF ExecInv
  <1>5. CASE ~Kills
    <2>1. TasksOK' /\ MapsOK' BY <1>1, <1>2, <1>5, TasksFrame, MapsFrame
    <2> QED BY <1>3, <2>1 DEF ExecInv
  <1> QED BY <1>4, <1>5

-----------------------------------------------------------------------------
(* The daemon's requests.                                                  *)

LEMMA MarkCriticalKeepsInv ==
    ASSUME ExecInv, NEW p \in Pids, MarkCritical(p)
    PROVE  ExecInv'
  <1>1. /\ Bounded /\ Process(p) /\ tainted' = tainted \cup {p}
        /\ UNCHANGED <<task, tgid, ppid, born, cmd, next, watch_pids, ring, queue, worker,
                       profile, setting, scoped, lineage, stray, overflow>>
    BY DEF MarkCritical, taskVars, eventVars
  <1>2. TasksOK /\ MapsOK /\ EventsOK BY DEF ExecInv
  <1>3. /\ MapOK(threat_map') /\ MapOK(warn_pids') /\ threat_map \subseteq threat_map'
        /\ setting.mode = "Block" => p \in threat_map'
    <2>1. MapOK(threat_map) /\ MapOK(warn_pids) BY <1>2 DEF MapsOK
    <2>2. CASE setting.mode = "Block"
      <3>1. threat_map' = Put(threat_map, p) /\ warn_pids' = warn_pids /\ Fits(threat_map, p)
        BY <2>2 DEF MarkCritical
      <3> QED BY <2>1, <3>1, PutOK
    <2>3. CASE setting.mode # "Block"
      <3>1. warn_pids' = Put(warn_pids, p) /\ threat_map' = threat_map
        BY <2>3 DEF MarkCritical
      <3> QED BY <2>1, <2>3, <3>1, PutOK
    <2> QED BY <2>2, <2>3
  <1>4. ASSUME NEW u \in Pids PROVE Covered(u)'
    <2>1. Covered(u) BY <1>2 DEF MapsOK
    <2> QED BY <1>1, <1>3, <2>1 DEF Covered, Process
  <1>5. MapsOK' BY <1>1, <1>2, <1>3, <1>4 DEF MapsOK, MapOK
  <1>6. TasksOK' /\ EventsOK' BY <1>1, <1>2, TasksFrame, EventsFrame DEF EventsOK
  <1> QED BY <1>5, <1>6 DEF ExecInv

LEMMA ClearMarkKeepsInv ==
    ASSUME ExecInv, NEW p \in Pids, ClearMark(p)
    PROVE  ExecInv'
  <1>1. /\ Bounded /\ threat_map' = threat_map \ {p} /\ warn_pids' = warn_pids \ {p}
        /\ tainted' = tainted \ {p}
        /\ UNCHANGED <<task, tgid, ppid, born, cmd, next, watch_pids, ring, queue, worker,
                       profile, setting, scoped, lineage, stray, overflow>>
    BY DEF ClearMark, taskVars, eventVars
  <1>2. TasksOK /\ MapsOK /\ EventsOK BY DEF ExecInv
  <1>3. MapOK(threat_map') /\ MapOK(warn_pids')
    BY <1>1, <1>2, RemoveOK DEF MapsOK
  <1>4. ASSUME NEW u \in Pids PROVE Covered(u)'
    <2>1. Covered(u) BY <1>2 DEF MapsOK
    <2> QED BY <1>1, <2>1 DEF Covered, Process
  <1>5. MapsOK' BY <1>1, <1>2, <1>3, <1>4 DEF MapsOK, MapOK
  <1>6. TasksOK' /\ EventsOK' BY <1>1, <1>2, TasksFrame, EventsFrame DEF EventsOK
  <1> QED BY <1>5, <1>6 DEF ExecInv

LEMMA SetWatchKeepsInv ==
    ASSUME ExecInv, NEW p \in Pids, SetWatch(p)
    PROVE  ExecInv'
  <1>1. /\ Bounded /\ Process(p) /\ Fits(watch_pids, p) /\ watch_pids' = watch_pids \cup {p}
        /\ scoped' = scoped \cup {p} /\ lineage' = lineage \cup {p} /\ stray' = stray \ {p}
        /\ UNCHANGED <<task, tgid, ppid, born, cmd, next, threat_map, warn_pids, ring, queue,
                       worker, profile, setting, tainted, overflow>>
    BY DEF SetWatch, taskVars, eventVars
  <1>2. TasksOK /\ MapsOK /\ EventsOK BY DEF ExecInv
  <1>3. MapOK(watch_pids')
    <2>1. watch_pids' = Put(watch_pids, p) BY <1>1 DEF Put
    <2> QED BY <1>2, <2>1, PutOK DEF MapsOK
  <1>4. tgid[p] = p BY <1>1, <1>2 DEF TasksOK
  <1>5. ASSUME NEW u \in Pids PROVE Covered(u)'
    <2>1. Covered(u) BY <1>2 DEF MapsOK
    <2> QED BY <1>1, <1>4, <2>1 DEF Covered, Process
  <1>6. MapsOK' BY <1>1, <1>2, <1>3, <1>5 DEF MapsOK, MapOK
  <1>7. TasksOK' /\ EventsOK' BY <1>1, <1>2, TasksFrame, EventsFrame DEF EventsOK
  <1> QED BY <1>6, <1>7 DEF ExecInv

LEMMA SetProfileKeepsInv ==
    ASSUME ExecInv, NEW x \in Profiles, SetProfile(x)
    PROVE  ExecInv'
  <1>1. /\ Bounded /\ profile' = x
        /\ UNCHANGED <<task, tgid, ppid, born, cmd, next, threat_map, warn_pids, watch_pids,
                       ring, queue, worker, setting, tainted, scoped, lineage, stray, overflow>>
    BY DEF SetProfile, taskVars, mapVars, eventVars, ghostVars
  <1> QED BY <1>1, TasksFrame, MapsFrame, EventsFrame DEF ExecInv

LEMMA ExecNext == ExecInv /\ [Next]_vars => ExecInv'
  <1> SUFFICES ASSUME ExecInv, [Next]_vars PROVE ExecInv' OBVIOUS
  <1>1. ASSUME NEW p \in Pids, NEW c \in Cmds, ExecRefused(p, c) \/ ExecAllowed(p, c)
        PROVE  ExecInv'
    BY <1>1, ExecKeepsInv
  <1>2. ASSUME NEW p \in Pids, NEW q \in Pids, Fork(p, q) PROVE ExecInv' BY <1>2, ForkKeepsInv
  <1>3. ASSUME NEW p \in Pids, NEW q \in Pids, Clone(p, q) PROVE ExecInv' BY <1>3, CloneKeepsInv
  <1>4. ASSUME NEW p \in Pids, Start(p) PROVE ExecInv' BY <1>4, StartKeepsInv
  <1>5. ASSUME NEW p \in Pids, Exit(p) PROVE ExecInv' BY <1>5, ExitKeepsInv
  <1>6. ASSUME NEW p \in Pids, NewImage(p) PROVE ExecInv' BY <1>6, NewImageKeepsInv
  <1>7. ASSUME NEW p \in Pids, MarkCritical(p) PROVE ExecInv' BY <1>7, MarkCriticalKeepsInv
  <1>8. ASSUME NEW p \in Pids, ClearMark(p) PROVE ExecInv' BY <1>8, ClearMarkKeepsInv
  <1>9. ASSUME NEW p \in Pids, SetWatch(p) PROVE ExecInv' BY <1>9, SetWatchKeepsInv
  <1>10. ASSUME NEW x \in Profiles, SetProfile(x) PROVE ExecInv' BY <1>10, SetProfileKeepsInv
  <1>11. CASE Consume BY <1>11, ConsumeKeepsInv
  <1>12. CASE Worker
    BY <1>12, TakeKeepsInv, ReadCmdlineKeepsInv, ActKeepsInv DEF Worker
  <1>13. CASE UNCHANGED vars
    <2>1. UNCHANGED <<task, tgid, ppid, born, cmd, next, threat_map, warn_pids, watch_pids,
                      ring, queue, worker, profile, setting, steps, tainted, scoped, lineage, stray, overflow>>
      BY <1>13 DEF vars, taskVars, mapVars, eventVars, ghostVars
    <2> QED BY <2>1, TasksFrame, MapsFrame, EventsFrame DEF ExecInv, EventsOK
  <1> QED
    BY <1>1, <1>2, <1>3, <1>4, <1>5, <1>6, <1>7, <1>8, <1>9, <1>10, <1>11, <1>12, <1>13
    DEF Next

LEMMA ExecInvariant == Spec => []ExecInv
  BY ExecInit, ExecNext, PTL DEF Spec

-----------------------------------------------------------------------------
(* Results.                                                                *)

\* Every variable keeps its type, and the maps, the ring and the classify queue
\* (the bounded channel of attach) never hold more than their capacity.
THEOREM ExecGateTypeCorrect == Spec => []TypeOK
  BY ExecInvariant, ExecInvImplies, PTL

\* trace_fork: as long as no map was full, no process descended from a watched
\* or, with propagate, from a Critical one escapes before its own first thread
\* exits, however it was forked, reparented or by which thread, whichever of its
\* ancestors has ended, lost its first thread or exec'd from another.
THEOREM SubtreeNeverEscapes == Spec => []SubtreeCovered
  BY ExecInvariant, ExecInvImplies, PTL

\* trace_exit: no reuse of an id makes a stranger a member of the watch scope,
\* full maps or not, but of an id that became free while no task with it exited.
THEOREM StrangersNeverWatched == Spec => []NoStrangerWatched
  BY ExecInvariant, ExecInvImplies, PTL

=============================================================================
