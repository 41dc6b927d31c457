-------------------------- MODULE ThreatMapProofs --------------------------
(***************************************************************************)
(* What ThreatMap guarantees for any number of pids, users, threads and    *)
(* process lifetimes: the type invariant, that a non-root caller only ever *)
(* marks a process it owned, that a level served is never one inherited    *)
(* from an earlier occupant of the pid, and that cleaning up a recycled    *)
(* pid never removes a live process's mark; and that, for requests that    *)
(* come one at a time, the kernel's maps agree with the one in memory      *)
(* whenever none is under way.                                             *)
(***************************************************************************)
EXTENDS ThreatMap, FiniteSetTheorems, TLAPS

\* A thread that serves a request has one.
Serving == \A t \in Threads : pc[t] # "idle" => req[t] \in Requests

TypeInv == TypeOK /\ Serving

\* The part of TypeInv about the threads' own variables.
ThreadInv ==
    /\ pc \in [Threads -> Labels]
    /\ req \in [Threads -> Requests \cup {NoRequest}]
    /\ start \in [Threads -> Nat]
    /\ stored \in [Threads -> Entries]
    /\ answer \in [Threads -> [out : Outs, of : (Pids \X Nat) \cup {<<>>}]]
    /\ Serving

\* The fields of a request are what the wire format says.
LEMMA RequestFields ==
    ASSUME NEW r \in Requests
    PROVE  /\ r.kind \in Kinds /\ r.uid \in Uids /\ r.pid \in Pids /\ r.level \in Levels
           /\ r.kind # "Set" => r.level = "Low"
BY DEF Requests

\* A request starts at one of the handlers' first steps.
LEMMA FirstStepLabel ==
    ASSUME NEW r \in Requests
    PROVE  /\ FirstStep(r) \in {"start1", "owner", "setStart", "bpfWatch", "evict", "lookup"}
           /\ FirstStep(r) = "setStart" => r.uid = Root /\ Marks(r)
           /\ FirstStep(r) = "evict" => Clears(r)
BY RequestFields DEF FirstStep, Marks, Clears, Kinds

\* Only a request to mark or to watch goes on to the second starttime read.
LEMMA AfterOwnerLabel ==
    ASSUME NEW r \in Requests
    PROVE  /\ AfterOwner(r) \in {"start2", "evict", "lookup"}
           /\ AfterOwner(r) = "evict" => Clears(r)
           /\ AfterOwner(r) = "start2" => ~AllowsGone(r) /\ (Marks(r) \/ r.kind = "Watch")
BY RequestFields DEF AfterOwner, AllowsGone, Marks, Clears, Kinds

\* A reply leaves the thread idle and its locals well-typed.
LEMMA ReplyType ==
    ASSUME TypeInv, NEW t \in Threads, NEW a, Reply(t, a),
           a \in [out : Outs, of : (Pids \X Nat) \cup {<<>>}]
    PROVE  ThreadInv'
<1>1. NoEntry \in Entries
  BY ThreatMapAssumption DEF NoEntry, Entries, Levels
<1>2. "idle" \in Labels
  BY DEF Labels
<1>3. QED
  BY <1>1, <1>2 DEF TypeInv, TypeOK, Serving, Reply, ThreadInv

\* An answer without a level is an answer.
LEMMA AnsweredType ==
    ASSUME NEW out \in Outs
    PROVE  [out |-> out, of |-> <<>>] \in [out : Outs, of : (Pids \X Nat) \cup {<<>>}]
OBVIOUS
\* The answers the handlers give without a level are answers.
LEMMA OutLabels == {"ok", "error", "level", "unsure"} \subseteq Outs
BY DEF Outs

\* Goto changes the thread's label and nothing else.
LEMMA GotoType ==
    ASSUME TypeInv, NEW t \in Threads, NEW l \in Labels, Goto(t, l), pc[t] # "idle"
    PROVE  ThreadInv'
BY DEF TypeInv, TypeOK, Serving, Goto, ThreadInv

\* A step of a thread keeps the thread variables well-typed as soon as it is a
\* reply, a jump or a read of the starttime.
LEMMA ThreadType ==
    ASSUME TypeInv, NEW t \in Threads, pc[t] # "idle",
           \/ \E out \in {"ok", "error", "level", "unsure"} : Answered(t, out)
           \/ \E l \in Labels : Goto(t, l)
           \/ \E l \in Labels, s \in Nat : GotoStart(t, l, s)
           \/ \E out \in {"level", "unsure"} : Serve(t, out)
    PROVE  ThreadInv'
<1>1. CASE \E out \in {"ok", "error", "level", "unsure"} : Answered(t, out)
  BY <1>1, ReplyType, AnsweredType, OutLabels DEF Answered
<1>2. CASE \E l \in Labels : Goto(t, l)
  BY <1>2, GotoType
<1>3. CASE \E l \in Labels, s \in Nat : GotoStart(t, l, s)
  BY <1>3 DEF TypeInv, TypeOK, Serving, GotoStart, ThreadInv
<1>4. CASE \E out \in {"level", "unsure"} : Serve(t, out)
  <2>1. PICK out \in {"level", "unsure"} : Serve(t, out)
    BY <1>4
  <2>2. req[t].pid \in Pids /\ born[req[t].pid] \in Nat
    BY RequestFields DEF TypeInv, TypeOK, Serving
  <2>3. [out |-> out, of |-> <<req[t].pid, born[req[t].pid]>>]
          \in [out : Outs, of : (Pids \X Nat) \cup {<<>>}]
    BY <2>2, OutLabels
  <2>4. QED
    BY <2>1, <2>3, ReplyType DEF Serve
<1>5. QED
  BY <1>1, <1>2, <1>3, <1>4
\* Every label but "idle" belongs to a thread that has a request, so its
\* fields can be used.
LEMMA ServedPid ==
    ASSUME TypeInv, NEW t \in Threads, pc[t] # "idle"
    PROVE  /\ req[t] \in Requests
           /\ req[t].pid \in Pids /\ req[t].uid \in Uids /\ req[t].level \in Levels
           /\ born[req[t].pid] \in Nat /\ inner[req[t].pid] \in Entries
BY RequestFields DEF TypeInv, TypeOK, Serving

\* Type correctness is inductive.
LEMMA TypeStep == TypeInv /\ [Next]_vars => TypeInv'
<1> SUFFICES ASSUME TypeInv, [Next]_vars PROVE TypeInv'
  OBVIOUS
<1> USE ThreatMapAssumption
<1>1. ASSUME NEW p \in Pids, NEW u \in Uids, NEW parents \in SUBSET Pids, Fork(p, u, parents)
      PROVE  TypeInv'
  BY <1>1 DEF Fork, TypeInv, TypeOK, Serving, threadVars, memVars, Levels
<1>2. ASSUME NEW p \in Pids, Exit(p) PROVE TypeInv'
  BY <1>2 DEF Exit, TypeInv, TypeOK, Serving, threadVars, memVars, Levels
<1>3. ASSUME NEW p \in Pids, Reap(p) PROVE TypeInv'
  BY <1>3 DEF Reap, TypeInv, TypeOK, Serving, threadVars, memVars, kernelVars
<1>4. ASSUME NEW t \in Threads, NEW r \in Requests, Receive(t, r) PROVE TypeInv'
  <2>1. FirstStep(r) \in Labels
    BY FirstStepLabel DEF Labels
  <2>2. NoAnswer \in [out : Outs, of : (Pids \X Nat) \cup {<<>>}]
    BY DEF NoAnswer, Outs
  <2>3. QED
    BY <1>4, <2>1, <2>2 DEF Receive, TypeInv, TypeOK, Serving, procVars, memVars, kernelVars
<1>5. ASSUME NEW t \in Threads, Handle(t) PROVE TypeInv'
  <2> DEFINE Rest == /\ proc \in [Pids -> {"free", "running", "zombie"}]
                     /\ born \in [Pids -> Nat]
                     /\ owner \in [Pids -> Uids]
                     /\ owned \subseteq Pids \X Nat \X Uids
                     /\ inner \in [Pids -> Entries]
                     /\ marked \subseteq Pids \X Nat
                     /\ threat_map \in [Pids -> Levels]
                     /\ warn_pids \subseteq Pids
                     /\ watch_pids \subseteq Pids
  <2> Rest
    BY DEF TypeInv, TypeOK
  <2> SUFFICES ThreadInv' /\ Rest'
    BY DEF ThreadInv, TypeInv, TypeOK
  <2> HIDE DEF Rest
  <2>0. /\ NoEntry \in Entries
        /\ {"owner", "start2", "commit", "bpfSet", "bpfWatch", "evict",
            "clearThreat", "clearWarn", "lookup", "verify", "evictStale"} \subseteq Labels
    BY DEF NoEntry, Entries, Levels, Labels
  <2>1. CASE ReadStart1(t)
    BY <2>0, <2>1, ServedPid, ThreadType DEF ReadStart1, procVars, memVars, kernelVars, Rest
  <2>2. CASE CheckOwner(t)
    <3>1. pc[t] # "idle" /\ AfterOwner(req[t]) \in Labels
      BY <2>0, <2>2, ServedPid, AfterOwnerLabel DEF CheckOwner
    <3>2. QED
      BY <2>2, <3>1, ThreadType DEF CheckOwner, procVars, memVars, kernelVars, Rest
  <2>3. CASE ReadStart2(t)
    BY <2>0, <2>3, ThreadType DEF ReadStart2, procVars, memVars, kernelVars, Rest
  <2>4. CASE SetReadStart(t)
    BY <2>0, <2>4, ServedPid, ThreadType DEF SetReadStart, procVars, memVars, kernelVars, Rest
  <2>5. CASE Commit(t)
    <3>1. start[t] \in Nat
      BY DEF TypeInv, TypeOK
    <3>2. [level |-> req[t].level, start |-> start[t], by |-> req[t].uid] \in Entries
      BY <2>5, <3>1, ServedPid DEF Commit, Entries
    <3>3. ThreadInv'
      BY <2>0, <2>5, ThreadType DEF Commit
    <3>4. Rest'
      BY <2>5, <3>1, <3>2, ServedPid DEF Commit, procVars, kernelVars, Rest
    <3>5. QED
      BY <3>3, <3>4
  <2>6. CASE BpfSet(t)
    <3>1. ThreadInv'
      BY <2>6, ThreadType DEF BpfSet
    <3>2. Rest'
      BY <2>6, ServedPid DEF BpfSet, procVars, memVars, Rest
    <3>3. QED
      BY <3>1, <3>2
  <2>7. CASE BpfWatch(t)
    <3>1. ThreadInv'
      BY <2>7, ThreadType DEF BpfWatch
    <3>2. Rest'
      BY <2>7, ServedPid DEF BpfWatch, procVars, memVars, Rest
    <3>3. QED
      BY <3>1, <3>2
  <2>8. CASE Evict(t)
    <3>1. ThreadInv'
      BY <2>0, <2>8, ThreadType DEF Evict
    <3>2. Rest'
      BY <2>0, <2>8, ServedPid DEF Evict, procVars, kernelVars, Rest
    <3>3. QED
      BY <3>1, <3>2
  <2>9. CASE ClearThreat(t)
    BY <2>0, <2>9, ServedPid, ThreadType DEF ClearThreat, procVars, memVars, Rest, Levels
  <2>10. CASE ClearWarn(t)
    BY <2>10, ThreadType DEF ClearWarn, ClearAnswer, procVars, memVars, Rest
  <2>11. CASE Lookup(t)
    <3>1. CASE Answered(t, "level")
      BY <2>11, <3>1, ThreadType DEF Lookup, procVars, memVars, kernelVars, Rest
    <3>2. CASE ~Answered(t, "level")
      BY <2>0, <2>11, <3>2, ServedPid, ZenonT(60)
         DEF Lookup, ThreadInv, TypeInv, TypeOK, Serving, procVars, memVars, kernelVars, Rest
    <3>3. QED
      BY <3>1, <3>2
  <2>12. CASE Verify(t)
    BY <2>0, <2>12, ThreadType DEF Verify, procVars, memVars, kernelVars, Rest
  <2>13. CASE EvictIfStale(t)
    <3>1. ThreadInv'
      BY <2>0, <2>13, ThreadType DEF EvictIfStale
    <3>2. Rest'
      BY <2>0, <2>13, ServedPid DEF EvictIfStale, procVars, kernelVars, Rest
    <3>3. QED
      BY <3>1, <3>2
  <2>14. QED
    BY <1>5, <2>1, <2>2, <2>3, <2>4, <2>5, <2>6, <2>7, <2>8, <2>9, <2>10, <2>11, <2>12, <2>13
       DEF Handle
<1>6. CASE UNCHANGED vars
  BY <1>6 DEF vars, procVars, memVars, kernelVars, threadVars, TypeInv, TypeOK, Serving
<1>7. QED
  BY <1>1, <1>2, <1>3, <1>4, <1>5, <1>6 DEF Next

\* It holds initially.
LEMMA TypeInit == Init => TypeInv
BY ThreatMapAssumption
   DEF Init, TypeInv, TypeOK, Serving, NoEntry, Entries, NoAnswer, Levels, Labels, Outs

\* Every variable keeps its type, whatever the numbers of pids, users and
\* threads.
THEOREM TypeCorrect == Spec => []TypeOK
<1>1. TypeInv => TypeOK
  BY DEF TypeInv
<1>2. QED
  BY <1>1, TypeInit, TypeStep, PTL DEF Spec

-----------------------------------------------------------------------------
(* The inductive invariant.  Starttimes only grow, so a starttime a thread  *)
(* has read never runs ahead of its pid's; this is what makes "read,        *)
(* check the owner, read the same again" mean that the process checked is   *)
(* the process named.                                                       *)

\* The process table knows the owner of the process on every taken pid.
OwnersKnown == \A p \in Pids : InProc(p) => <<p, born[p], owner[p]>> \in owned

\* An entry's starttime is not ahead of its pid's, the process it names was
\* marked, and whoever marked it owned it or is root.
EntryOK(p) ==
    /\ inner[p].start <= born[p]
    /\ inner[p] # NoEntry => <<p, inner[p].start>> \in marked
    /\ inner[p].by # Root => <<p, inner[p].start, inner[p].by>> \in owned

\* What a thread has established by the time it reaches a label: it starts
\* with clean locals, no starttime it read is ahead of its pid's, and
\*   - only root skips the gate, only a request to clear evicts and only a
\*     request to mark inserts;
\*   - if the pid has not been recycled since the first read, its owner was
\*     checked; at the insert the owner was checked, or the caller is root;
\*   - the entry copied was marked; an entry about to be evicted is stale.
Established(t) ==
    LET r == req[t] IN
    /\ pc[t] = "idle" => start[t] = 0 /\ stored[t].start = 0
    /\ pc[t] # "idle" => start[t] <= born[r.pid] /\ stored[t].start <= born[r.pid]
    /\ pc[t] = "setStart" => r.uid = Root /\ Marks(r)
    /\ pc[t] = "evict" => Clears(r)
    /\ pc[t] = "start2" /\ born[r.pid] = start[t] => <<r.pid, start[t], r.uid>> \in owned
    /\ pc[t] = "start2" => Marks(r) \/ r.kind = "Watch"
    /\ pc[t] = "commit" => Marks(r)
    /\ pc[t] = "commit" => r.uid = Root \/ <<r.pid, start[t], r.uid>> \in owned
    /\ pc[t] = "verify" => <<r.pid, stored[t].start>> \in marked
    /\ pc[t] = "evictStale" => ~Is(r.pid, stored[t].start)
    /\ answer[t].out = "level" /\ answer[t].of # <<>> => answer[t].of \in marked

IInv ==
    /\ TypeInv
    /\ OwnersKnown
    /\ \A p \in Pids : EntryOK(p)
    /\ \A t \in Threads : Established(t)

\* The locals of thread k do not change.
Still(k) ==
    /\ pc'[k] = pc[k] /\ req'[k] = req[k] /\ start'[k] = start[k]
    /\ stored'[k] = stored[k] /\ answer'[k] = answer[k]

\* What a thread has established survives steps of other threads: they change
\* neither its locals nor the process table, and `marked' only grows.
LEMMA StillEstablished ==
    ASSUME NEW k \in Threads, Established(k), Still(k), UNCHANGED procVars, marked \subseteq marked'
    PROVE  Established(k)'
BY DEF Established, Still, procVars, Is, InProc, Clears, Marks

\* A reply leaves nothing to establish but the answer, and touches no other thread.
LEMMA ReplyEstablished ==
    ASSUME TypeInv, NEW t \in Threads, NEW a, Reply(t, a),
           a.out = "level" /\ a.of # <<>> => a.of \in marked'
    PROVE  /\ Established(t)'
           /\ \A k \in Threads \ {t} : Still(k)
<1>1. pc'[t] = "idle" /\ answer'[t] = a /\ start'[t] = 0 /\ stored'[t].start = 0
  BY DEF TypeInv, TypeOK, Reply, NoEntry
<1>2. \A k \in Threads \ {t} : Still(k)
  BY DEF TypeInv, TypeOK, Reply, Still
<1>3. QED
  BY <1>1, <1>2 DEF Established

\* The same for an answer that carries no level.
LEMMA AnsweredEstablished ==
    ASSUME TypeInv, NEW t \in Threads, NEW out, Answered(t, out)
    PROVE  /\ Established(t)'
           /\ \A k \in Threads \ {t} : Still(k)
<1>1. PICK a : a = [out |-> out, of |-> <<>>]
  OBVIOUS
<1>2. Reply(t, a) /\ a.of = <<>>
  BY <1>1 DEF Answered
<1>3. QED
  BY <1>2, ReplyEstablished

\* A jump touches no other thread, and of its own locals only the label.
LEMMA GotoStill ==
    ASSUME TypeInv, NEW t \in Threads, NEW l, Goto(t, l)
    PROVE  /\ pc'[t] = l /\ req'[t] = req[t] /\ start'[t] = start[t]
           /\ stored'[t] = stored[t] /\ answer'[t] = answer[t]
           /\ \A k \in Threads \ {t} : Still(k)
BY DEF TypeInv, TypeOK, Goto, Still

\* The same for a jump that stores a starttime.
LEMMA GotoStartStill ==
    ASSUME TypeInv, NEW t \in Threads, NEW l, NEW s, GotoStart(t, l, s)
    PROVE  /\ pc'[t] = l /\ req'[t] = req[t] /\ start'[t] = s
           /\ stored'[t] = stored[t] /\ answer'[t] = answer[t]
           /\ \A k \in Threads \ {t} : Still(k)
BY DEF TypeInv, TypeOK, GotoStart, Still

\* IInv is inductive.
LEMMA IInvStep == IInv /\ [Next]_vars => IInv'
<1> SUFFICES ASSUME IInv, [Next]_vars PROVE IInv'
  OBVIOUS
<1>0. TypeInv /\ TypeInv'
  BY TypeStep DEF IInv
<1>1. ASSUME NEW p \in Pids, NEW u \in Uids, NEW parents \in SUBSET Pids, Fork(p, u, parents)
      PROVE  IInv'
  <2>1. /\ born[p] \in Nat /\ born'[p] = born[p] + 1 /\ owner'[p] = u
        /\ \A q \in Pids \ {p} : born'[q] = born[q] /\ owner'[q] = owner[q] /\ proc'[q] = proc[q]
        /\ owned' = owned \cup {<<p, born[p] + 1, u>>}
        /\ UNCHANGED <<inner, marked, pc, req, start, stored, answer>>
    BY <1>0, <1>1 DEF Fork, TypeInv, TypeOK, memVars, threadVars
  <2>2. OwnersKnown'
    BY <2>1 DEF IInv, OwnersKnown, InProc
  <2>3. ASSUME NEW q \in Pids PROVE EntryOK(q)'
    BY <1>0, <2>1 DEF IInv, EntryOK, TypeInv, TypeOK, Entries
  <2>4. ASSUME NEW t \in Threads PROVE Established(t)'
    <3>1. Established(t) /\ start[t] \in Nat /\ stored[t].start \in Nat
      BY <1>0 DEF IInv, TypeInv, TypeOK, Entries
    <3>2. pc[t] # "idle" => req[t].pid \in Pids
      BY <1>0, ServedPid
    <3>3. CASE pc[t] # "idle" /\ req[t].pid = p
      <4>1. start[t] <= born[p] /\ stored[t].start <= born[p]
        BY <3>1, <3>3 DEF Established
      <4>2. start'[t] # born'[p] /\ stored'[t].start # born'[p]
        BY <2>1, <3>1, <4>1
      <4>3. start'[t] <= born'[p] /\ stored'[t].start <= born'[p]
        BY <2>1, <3>1, <4>1
      <4>4. QED
        BY <2>1, <3>1, <3>3, <4>2, <4>3 DEF Established, Is
    <3>4. CASE pc[t] # "idle" /\ req[t].pid # p
      BY <2>1, <3>1, <3>2, <3>4 DEF Established, Is, InProc
    <3>5. CASE pc[t] = "idle"
      BY <2>1, <3>1, <3>5 DEF Established
    <3>6. QED
      BY <3>3, <3>4, <3>5
  <2>5. QED
    BY <1>0, <2>2, <2>3, <2>4 DEF IInv
<1>2. ASSUME NEW p \in Pids, Exit(p) PROVE IInv'
  <2>1. /\ \A q \in Pids : InProc(q)' = InProc(q)
        /\ UNCHANGED <<born, owner, owned, inner, marked, pc, req, start, stored, answer>>
    BY <1>0, <1>2 DEF Exit, InProc, TypeInv, TypeOK, memVars, threadVars
  <2>2. OwnersKnown' /\ \A q \in Pids : EntryOK(q)'
    BY <2>1 DEF IInv, OwnersKnown, EntryOK
  <2>3. ASSUME NEW t \in Threads PROVE Established(t)'
    BY <1>0, <2>1, ServedPid DEF IInv, Established, Is
  <2>4. QED
    BY <1>0, <2>2, <2>3 DEF IInv
<1>3. ASSUME NEW p \in Pids, Reap(p) PROVE IInv'
  <2>1. /\ \A q \in Pids : InProc(q)' => InProc(q)
        /\ UNCHANGED <<born, owner, owned, inner, marked, pc, req, start, stored, answer>>
    BY <1>0, <1>3 DEF Reap, InProc, TypeInv, TypeOK, memVars, threadVars
  <2>2. OwnersKnown' /\ \A q \in Pids : EntryOK(q)'
    BY <2>1 DEF IInv, OwnersKnown, EntryOK
  <2>3. ASSUME NEW t \in Threads PROVE Established(t)'
    BY <1>0, <2>1, ServedPid DEF IInv, Established, Is
  <2>4. QED
    BY <1>0, <2>2, <2>3 DEF IInv
<1>4. ASSUME NEW t \in Threads, NEW r \in Requests, Receive(t, r) PROVE IInv'
  <2>1. /\ pc'[t] = FirstStep(r) /\ req'[t] = r /\ answer'[t] = NoAnswer
        /\ start'[t] = start[t] /\ stored'[t] = stored[t] /\ pc[t] = "idle"
        /\ \A k \in Threads \ {t} : Still(k)
        /\ UNCHANGED procVars /\ UNCHANGED memVars
    BY <1>0, <1>4 DEF Receive, TypeInv, TypeOK, Still
  <2>2. Established(t)'
    <3>1. r.pid \in Pids /\ born'[r.pid] \in Nat
      BY <1>0, RequestFields DEF TypeInv, TypeOK
    <3>2. start'[t] = 0 /\ stored'[t].start = 0
      BY <2>1 DEF IInv, Established
    <3>3. QED
      BY <2>1, <3>1, <3>2, FirstStepLabel DEF Established, NoAnswer
  <2>3. OwnersKnown' /\ \A q \in Pids : EntryOK(q)'
    BY <2>1 DEF IInv, OwnersKnown, EntryOK, InProc, procVars, memVars
  <2>4. \A k \in Threads \ {t} : Established(k)'
    BY <2>1, StillEstablished DEF IInv, memVars
  <2>5. QED
    BY <1>0, <2>2, <2>3, <2>4 DEF IInv
<1>5. ASSUME NEW t \in Threads, Handle(t) PROVE IInv'
  <2>0. /\ pc[t] # "idle" => /\ req[t] \in Requests /\ req[t].pid \in Pids
                             /\ born[req[t].pid] \in Nat /\ inner[req[t].pid] \in Entries
        /\ Established(t)
    BY <1>0, ServedPid DEF IInv
  \* Most steps leave the process table and the map alone.
  <2>A. ASSUME UNCHANGED procVars, UNCHANGED memVars, Established(t)',
               \A k \in Threads \ {t} : Still(k)
        PROVE  IInv'
    <3>1. OwnersKnown' /\ \A q \in Pids : EntryOK(q)'
      BY <2>A DEF IInv, OwnersKnown, EntryOK, InProc, procVars, memVars
    <3>2. \A k \in Threads \ {t} : Established(k)'
      BY <2>A, StillEstablished DEF IInv, memVars
    <3>3. QED
      BY <1>0, <2>A, <3>1, <3>2 DEF IInv
  \* Evictions only empty the entry of one pid.
  <2>B. ASSUME UNCHANGED procVars, UNCHANGED marked, NEW p \in Pids,
               inner' = [inner EXCEPT ![p] = NoEntry] \/ UNCHANGED inner, Established(t)',
               \A k \in Threads \ {t} : Still(k)
        PROVE  IInv'
    <3>1. OwnersKnown'
      BY <2>B DEF IInv, OwnersKnown, InProc, procVars
    <3>2. ASSUME NEW q \in Pids PROVE EntryOK(q)'
      <4>1. inner'[q] = inner[q] \/ inner'[q] = NoEntry
        BY <1>0, <2>B DEF TypeInv, TypeOK
      <4>2. born'[q] = born[q] /\ born[q] \in Nat
        BY <1>0, <2>B DEF TypeInv, TypeOK, procVars
      <4>3. CASE inner'[q] = inner[q]
        BY <2>B, <4>2, <4>3 DEF IInv, EntryOK, procVars
      <4>4. CASE inner'[q] = NoEntry
        BY <4>2, <4>4 DEF EntryOK, NoEntry
      <4>5. QED
        BY <4>1, <4>3, <4>4
    <3>3. \A k \in Threads \ {t} : Established(k)'
      BY <2>B, StillEstablished DEF IInv
    <3>4. QED
      BY <1>0, <2>B, <3>1, <3>2, <3>3 DEF IInv
  <2>1. CASE ReadStart1(t)
    <3>1. CASE Answered(t, "error")
      BY <1>0, <2>1, <2>A, <3>1, AnsweredEstablished DEF ReadStart1
    <3>2. CASE GotoStart(t, "owner", born[req[t].pid])
      <4>1. Established(t)'
        BY <1>0, <2>0, <2>1, <3>2, GotoStartStill DEF ReadStart1, Established, procVars, memVars
      <4>2. QED
        BY <1>0, <2>1, <2>A, <3>2, <4>1, GotoStartStill DEF ReadStart1
    <3>3. QED
      BY <2>1, <3>1, <3>2 DEF ReadStart1
  <2>2. CASE CheckOwner(t)
    <3>1. CASE Answered(t, "error")
      BY <1>0, <2>2, <2>A, <3>1, AnsweredEstablished DEF CheckOwner
    <3>2. CASE ~Answered(t, "error")
      <4> DEFINE p == req[t].pid
      <4>1. /\ pc[t] = "owner" /\ Goto(t, AfterOwner(req[t]))
            /\ IF InProc(p) THEN owner[p] = req[t].uid ELSE AllowsGone(req[t])
        BY <2>2, <3>2 DEF CheckOwner
      <4>2. req[t] \in Requests /\ p \in Pids
        BY <2>0, <4>1
      <4>3. AfterOwner(req[t]) = "start2" => <<p, born[p], req[t].uid>> \in owned
        BY <4>1, <4>2, AfterOwnerLabel DEF IInv, OwnersKnown
      <4>4. UNCHANGED procVars /\ UNCHANGED memVars
        BY <2>2 DEF CheckOwner
      <4>5. Established(t)'
        BY <1>0, <2>0, <4>1, <4>2, <4>3, <4>4, AfterOwnerLabel, GotoStill
           DEF Established, procVars, memVars
      <4>6. QED
        BY <1>0, <2>A, <4>1, <4>4, <4>5, GotoStill
    <3>3. QED
      BY <3>1, <3>2
  <2>3. CASE ReadStart2(t)
    <3>1. CASE Answered(t, "error")
      BY <1>0, <2>3, <2>A, <3>1, AnsweredEstablished DEF ReadStart2
    <3>2. CASE ~Answered(t, "error")
      <4> DEFINE l == IF req[t].kind = "Watch" THEN "bpfWatch" ELSE "commit"
      <4>1. pc[t] = "start2" /\ born[req[t].pid] = start[t] /\ Goto(t, l)
        BY <2>3, <3>2 DEF ReadStart2, SameStart, Is
      <4>2. UNCHANGED procVars /\ UNCHANGED memVars
        BY <2>3 DEF ReadStart2
      <4>3. Established(t)'
        BY <1>0, <2>0, <4>1, <4>2, GotoStill DEF Established, procVars, memVars
      <4>4. QED
        BY <1>0, <2>A, <4>1, <4>2, <4>3, GotoStill
    <3>3. QED
      BY <3>1, <3>2
  <2>4. CASE SetReadStart(t)
    <3>1. CASE Answered(t, "error")
      BY <1>0, <2>4, <2>A, <3>1, AnsweredEstablished DEF SetReadStart
    <3>2. CASE GotoStart(t, "commit", born[req[t].pid])
      <4>1. Established(t)'
        BY <1>0, <2>0, <2>4, <3>2, GotoStartStill DEF SetReadStart, Established, procVars, memVars
      <4>2. QED
        BY <1>0, <2>4, <2>A, <3>2, <4>1, GotoStartStill DEF SetReadStart
    <3>3. QED
      BY <2>4, <3>1, <3>2 DEF SetReadStart
  <2>5. CASE Commit(t)
    <3> DEFINE p == req[t].pid
               e == [level |-> req[t].level, start |-> start[t], by |-> req[t].uid]
    <3>1. /\ pc[t] = "commit" /\ p \in Pids /\ Goto(t, "bpfSet")
          /\ inner' = [inner EXCEPT ![p] = e]
          /\ marked' = marked \cup {<<p, start[t]>>}
          /\ UNCHANGED procVars
      BY <2>0, <2>5 DEF Commit
    <3>2. e.start = start[t] /\ e.by = req[t].uid
      OBVIOUS
    <3>3. OwnersKnown'
      BY <3>1 DEF IInv, OwnersKnown, InProc, procVars
    <3>4. ASSUME NEW q \in Pids PROVE EntryOK(q)'
      <4>1. CASE q = p
        <5>1. inner'[q] = e
          BY <1>0, <3>1, <4>1 DEF TypeInv, TypeOK
        <5>2. /\ start[t] <= born[p]
              /\ req[t].uid = Root \/ <<p, start[t], req[t].uid>> \in owned
          BY <2>0, <3>1 DEF Established
        <5>3. QED
          BY <3>1, <3>2, <4>1, <5>1, <5>2 DEF EntryOK, procVars
      <4>2. CASE q # p
        <5>1. inner'[q] = inner[q]
          BY <1>0, <3>1, <4>2 DEF TypeInv, TypeOK
        <5>2. QED
          BY <3>1, <5>1 DEF IInv, EntryOK, procVars
      <4>3. QED
        BY <4>1, <4>2
    <3>5. Established(t)'
      BY <1>0, <2>0, <3>1, GotoStill DEF Established, procVars
    <3>6. \A k \in Threads \ {t} : Established(k)'
      BY <1>0, <3>1, GotoStill, StillEstablished DEF IInv
    <3>7. QED
      BY <1>0, <3>3, <3>4, <3>5, <3>6 DEF IInv
  <2>6. CASE BpfSet(t)
    BY <1>0, <2>6, <2>A, AnsweredEstablished DEF BpfSet
  <2>7. CASE BpfWatch(t)
    BY <1>0, <2>7, <2>A, AnsweredEstablished DEF BpfWatch
  <2>8. CASE Evict(t)
    <3>1. /\ pc[t] = "evict" /\ req[t].pid \in Pids
          /\ inner' = [inner EXCEPT ![req[t].pid] = NoEntry]
          /\ Goto(t, "clearThreat") \/ Answered(t, "ok")
          /\ UNCHANGED procVars /\ UNCHANGED marked
      BY <2>0, <2>8 DEF Evict
    <3>2. Established(t)' /\ \A k \in Threads \ {t} : Still(k)
      <4>1. CASE Goto(t, "clearThreat")
        BY <1>0, <2>0, <3>1, <4>1, GotoStill DEF Established, procVars
      <4>2. CASE Answered(t, "ok")
        BY <1>0, <4>2, AnsweredEstablished
      <4>3. QED
        BY <3>1, <4>1, <4>2
    <3>3. QED
      BY <2>B, <3>1, <3>2
  <2>9. CASE ClearThreat(t)
    <3>1. pc[t] = "clearThreat" /\ Goto(t, "clearWarn") /\ UNCHANGED procVars /\ UNCHANGED memVars
      BY <2>9 DEF ClearThreat
    <3>2. Established(t)'
      BY <1>0, <2>0, <3>1, GotoStill DEF Established, procVars, memVars
    <3>3. QED
      BY <1>0, <2>A, <3>1, <3>2, GotoStill
  <2>10. CASE ClearWarn(t)
    BY <1>0, <2>10, <2>A, AnsweredEstablished DEF ClearWarn
  <2>11. CASE Lookup(t)
    <3>1. CASE Answered(t, "level")
      BY <1>0, <2>11, <2>A, <3>1, AnsweredEstablished DEF Lookup
    <3>2. CASE ~Answered(t, "level")
      <4> DEFINE p == req[t].pid
      <4>1. /\ pc[t] = "lookup" /\ p \in Pids /\ inner[p] # NoEntry
            /\ pc' = [pc EXCEPT ![t] = "verify"]
            /\ stored' = [stored EXCEPT ![t] = inner[p]]
            /\ UNCHANGED <<req, start, answer>> /\ UNCHANGED procVars /\ UNCHANGED memVars
        BY <2>0, <2>11, <3>2 DEF Lookup
      <4>2. /\ pc'[t] = "verify" /\ stored'[t] = inner[p]
            /\ \A k \in Threads \ {t} : Still(k)
        BY <1>0, <4>1 DEF TypeInv, TypeOK, Still
      <4>3. inner[p].start <= born[p] /\ <<p, inner[p].start>> \in marked
        BY <4>1 DEF IInv, EntryOK
      <4>4. Established(t)'
        BY <2>0, <4>1, <4>2, <4>3 DEF Established, procVars, memVars
      <4>5. QED
        BY <2>A, <4>1, <4>2, <4>4
    <3>3. QED
      BY <3>1, <3>2
  <2>12. CASE Verify(t)
    <3> DEFINE of == <<req[t].pid, born[req[t].pid]>>
    <3>1. pc[t] = "verify" /\ UNCHANGED procVars /\ UNCHANGED memVars
      BY <2>12 DEF Verify
    <3>2. CASE StillSame(t) /\ Serve(t, "level")
      <4>1. of \in marked'
        BY <2>0, <3>1, <3>2 DEF StillSame, Is, Established, memVars
      <4>2. Reply(t, [out |-> "level", of |-> of])
        BY <3>2 DEF Serve
      <4>3. QED
        BY <1>0, <2>A, <3>1, <4>1, <4>2, ReplyEstablished
    <3>3. CASE ~StillSame(t) /\ Goto(t, "evictStale")
      <4>1. Established(t)'
        BY <1>0, <2>0, <3>1, <3>3, GotoStill DEF StillSame, Is, InProc, Established, procVars, memVars
      <4>2. QED
        BY <1>0, <2>A, <3>1, <3>3, <4>1, GotoStill
    <3>4. CASE Serve(t, "unsure")
      <4>1. Reply(t, [out |-> "unsure", of |-> of])
        BY <3>4 DEF Serve
      <4>2. QED
        BY <1>0, <2>A, <3>1, <4>1, ReplyEstablished
    <3>5. QED
      BY <2>12, <3>2, <3>3, <3>4 DEF Verify
  <2>13. CASE EvictIfStale(t)
    <3>1. /\ pc[t] = "evictStale" /\ req[t].pid \in Pids
          /\ inner' = [inner EXCEPT ![req[t].pid] = NoEntry] \/ UNCHANGED inner
          /\ Goto(t, "clearThreat") \/ Answered(t, "level")
          /\ UNCHANGED procVars /\ UNCHANGED marked
      BY <2>0, <2>13 DEF EvictIfStale
    <3>2. Established(t)' /\ \A k \in Threads \ {t} : Still(k)
      <4>1. CASE Goto(t, "clearThreat")
        BY <1>0, <2>0, <3>1, <4>1, GotoStill DEF Established, procVars
      <4>2. CASE Answered(t, "level")
        BY <1>0, <4>2, AnsweredEstablished
      <4>3. QED
        BY <3>1, <4>1, <4>2
    <3>3. QED
      BY <2>B, <3>1, <3>2
  <2>14. QED
    BY <1>5, <2>1, <2>2, <2>3, <2>4, <2>5, <2>6, <2>7, <2>8, <2>9, <2>10, <2>11, <2>12, <2>13
       DEF Handle
<1>6. CASE UNCHANGED vars
  <2>1. UNCHANGED procVars /\ UNCHANGED memVars /\ \A k \in Threads : Still(k)
    BY <1>6 DEF vars, threadVars, Still
  <2>2. OwnersKnown' /\ \A q \in Pids : EntryOK(q)'
    BY <2>1 DEF IInv, OwnersKnown, EntryOK, InProc, procVars, memVars
  <2>3. \A k \in Threads : Established(k)'
    BY <2>1, StillEstablished DEF IInv, memVars
  <2>4. QED
    BY <1>0, <2>2, <2>3 DEF IInv
<1>7. QED
  BY <1>1, <1>2, <1>3, <1>4, <1>5, <1>6 DEF Next

\* IInv holds initially.
LEMMA IInvInit == Init => IInv
<1> SUFFICES ASSUME Init PROVE IInv
  OBVIOUS
<1>1. TypeInv
  BY TypeInit
<1>2. OwnersKnown /\ \A p \in Pids : EntryOK(p)
  BY DEF Init, OwnersKnown, EntryOK, InProc, NoEntry
<1>3. \A t \in Threads : Established(t)
  BY DEF Init, Established, NoEntry, NoAnswer
<1>4. QED
  BY <1>1, <1>2, <1>3 DEF IInv

\* SetThreatLevel marks only processes the caller owned: the double read of
\* the starttime around the ownership check closes the race with pid reuse,
\* for any number of concurrent requests and recycled pids.
THEOREM MarkAuthorisation == Spec => []MarksAuthorised
<1>1. IInv => MarksAuthorised
  BY DEF IInv, EntryOK, MarksAuthorised
<1>2. QED
  BY <1>1, IInvInit, IInvStep, PTL DEF Spec

\* GetThreatLevel and Classify never serve the level of an earlier occupant
\* of a pid once /proc could be read.
THEOREM NoInheritance == Spec => []NoInheritedLevel
<1>1. IInv => NoInheritedLevel
  BY DEF IInv, Established, NoInheritedLevel
<1>2. QED
  BY <1>1, IInvInit, IInvStep, PTL DEF Spec

\* The clean-up of a recycled pid never removes the mark of the process that
\* has the pid now.
THEOREM LiveMarksKept == Spec => LiveMarkKept
<1> DEFINE Kept ==
      \A p \in Pids :
         inner[p] # NoEntry /\ inner'[p] = NoEntry /\ Is(p, inner[p].start)
           => \E t \in Threads : pc[t] = "evict" /\ Clears(req[t]) /\ req[t].pid = p
<1>1. IInv /\ [Next]_vars => [Kept]_vars
  <2> SUFFICES ASSUME IInv, Next, NEW p \in Pids,
                      inner[p] # NoEntry, inner'[p] = NoEntry, Is(p, inner[p].start)
               PROVE  \E t \in Threads : pc[t] = "evict" /\ Clears(req[t]) /\ req[t].pid = p
    OBVIOUS
  <2>0. inner \in [Pids -> Entries] /\ inner' # inner
    BY DEF IInv, TypeInv, TypeOK
  <2>1. PICK t \in Threads : Handle(t)
    BY <2>0 DEF Next, Fork, Exit, Reap, Receive, memVars
  <2>2. Commit(t) \/ Evict(t) \/ EvictIfStale(t)
    BY <2>0, <2>1 DEF Handle, ReadStart1, CheckOwner, ReadStart2, SetReadStart, BpfSet, BpfWatch,
                      ClearThreat, ClearWarn, Lookup, Verify, memVars
  <2>3. CASE Commit(t)
    <3>1. pc[t] = "commit" /\ req[t].level # "Low"
      BY <2>3 DEF Commit, IInv, Established, Marks
    <3>2. [level |-> req[t].level, start |-> start[t], by |-> req[t].uid] # NoEntry
      BY <3>1 DEF NoEntry
    <3>3. QED
      BY <2>0, <2>3, <3>2 DEF Commit
  <2>4. CASE Evict(t)
    BY <2>0, <2>4 DEF Evict, IInv, Established
  <2>5. CASE EvictIfStale(t)
    <3>1. /\ StillStored(t) /\ pc[t] = "evictStale"
          /\ inner' = [inner EXCEPT ![req[t].pid] = NoEntry]
      BY <2>0, <2>5 DEF EvictIfStale
    <3>2. req[t].pid = p
      BY <2>0, <3>1
    <3>3. QED
      BY <3>1, <3>2 DEF StillStored, IInv, Established
  <2>6. QED
    BY <2>2, <2>3, <2>4, <2>5
<1>2. QED
  BY <1>1, IInvInit, IInvStep, PTL DEF Spec, LiveMarkKept

-----------------------------------------------------------------------------
(* The kernel's maps and the daemon's.  They agree between requests if      *)
(* requests come one at a time, the object was loaded to block, its map has *)
(* room for every pid and no deletion fails; ThreatMapDiverge shows what    *)
(* two requests at a time do to them.                                       *)

Serial ==
    /\ \A s, t \in Threads : s = t
    /\ Mode = "Block" /\ ~DeletesFail
    /\ IsFiniteSet(Pids) /\ Cardinality(Pids) <= MapCap

\* A thread is at label l with a request about p.
Pending(p, l) == \E t \in Threads : pc[t] = l /\ req[t].pid = p

\* A write-through knows what was inserted, a clear that the entry is gone.
Writing(t) ==
    /\ pc[t] = "bpfSet" => Marks(req[t]) /\ inner[req[t].pid].level = req[t].level
    /\ pc[t] \in {"clearThreat", "clearWarn"} => inner[req[t].pid] = NoEntry

\* What the kernel has beyond the map is being overwritten or cleared ...
NoneLeft(p) ==
    Kernel(p) \notin {"Low", inner[p].level} => Pending(p, "bpfSet") \/ Pending(p, "clearThreat")

\* ... and what it lacks of the map is being written.
NoneMissing(p) ==
    inner[p] # NoEntry /\ Is(p, inner[p].start) /\ proc[p] = "running" /\ Kernel(p) # inner[p].level
      => Pending(p, "bpfSet")

AgreeInv ==
    /\ \A t \in Threads : Writing(t)
    /\ Enforce # "propagate" => \A p \in Pids : NoneLeft(p)
    /\ \A p \in Pids : NoneMissing(p)

\* A map that has room for every pid takes every pid.
LEMMA AlwaysFits ==
    ASSUME Serial, NEW keys \in SUBSET Pids, NEW p \in Pids
    PROVE  Fits(keys, p)
<1>1. CASE p \in keys
  BY <1>1 DEF Fits
<1>2. CASE p \notin keys
  <2>1. IsFiniteSet(keys) /\ IsFiniteSet(keys \cup {p}) /\ keys \cup {p} \subseteq Pids
    BY FS_Subset, FS_AddElement DEF Serial
  <2>2. Cardinality(keys \cup {p}) = Cardinality(keys) + 1 /\ Cardinality(keys) \in Nat
    BY <1>2, <2>1, FS_AddElement, FS_CardinalityType
  <2>3. Cardinality(keys \cup {p}) <= Cardinality(Pids) /\ Cardinality(Pids) \in Nat
    BY <2>1, FS_Subset, FS_CardinalityType DEF Serial
  <2>4. Cardinality(keys) < MapCap
    BY <2>2, <2>3, ThreatMapAssumption DEF Serial
  <2> QED BY <2>4 DEF Fits
<1> QED BY <1>1, <1>2

\* The only thread is the one that steps.
LEMMA Alone ==
    ASSUME Serial, NEW t \in Threads, NEW p, NEW l
    PROVE  /\ Pending(p, l) <=> pc[t] = l /\ req[t].pid = p
           /\ Pending(p, l)' <=> pc'[t] = l /\ req'[t].pid = p
BY DEF Serial, Pending

\* Labels at which nothing of the kernel's maps is outstanding.
Clean(l) == l \notin {"bpfSet", "clearThreat", "clearWarn"}

\* A step of the thread between two such labels that writes neither map.
LEMMA CleanStep ==
    ASSUME Serial, AgreeInv, NEW t \in Threads, Clean(pc[t]), Clean(pc'[t]),
           UNCHANGED <<proc, born, inner, threat_map, warn_pids>>
    PROVE  AgreeInv'
<1>1. ASSUME NEW s \in Threads PROVE Writing(s)'
  <2>1. s = t
    BY DEF Serial
  <2> QED BY <2>1 DEF Writing, Clean
<1>2. ASSUME NEW p \in Pids PROVE Kernel(p)' = Kernel(p)
  BY DEF Kernel
<1>3. ASSUME NEW p \in Pids, NoneLeft(p) PROVE NoneLeft(p)'
  BY <1>2, <1>3, Alone DEF NoneLeft, Clean
<1>4. ASSUME NEW p \in Pids, NoneMissing(p) PROVE NoneMissing(p)'
  BY <1>2, <1>4, Alone DEF NoneMissing, Clean, Is, InProc
<1> QED BY <1>1, <1>3, <1>4 DEF AgreeInv

\* Processes are born and die: the mark of a pid is about an occupant that is
\* older than the one that is born on it.
LEMMA ForkAgrees ==
    ASSUME IInv, AgreeInv, NEW p \in Pids, NEW u \in Uids, NEW parents \in SUBSET Pids, Fork(p, u, parents)
    PROVE  AgreeInv'
<1>1. /\ UNCHANGED <<inner, warn_pids, pc, req>>
      /\ born'[p] = born[p] + 1 /\ born[p] \in Nat /\ inner[p].start <= born[p] /\ inner[p].start \in Nat
      /\ \A q \in Pids \ {p} : proc'[q] = proc[q] /\ born'[q] = born[q] /\ threat_map'[q] = threat_map[q]
      /\ Enforce # "propagate" => threat_map' = threat_map
  BY DEF Fork, IInv, TypeInv, TypeOK, EntryOK, Entries, memVars, threadVars
<1>2. ASSUME NEW t \in Threads PROVE Writing(t)'
  BY <1>1 DEF AgreeInv, Writing, Marks
<1>3. ASSUME Enforce # "propagate", NEW q \in Pids PROVE NoneLeft(q)'
  BY <1>1, <1>3 DEF AgreeInv, NoneLeft, Kernel, Pending
<1>4. ASSUME NEW q \in Pids PROVE NoneMissing(q)'
  <2>1. CASE q = p
    <3>1. inner[p].start # born[p] + 1
      BY <1>1
    <3> QED BY <1>1, <2>1, <3>1 DEF NoneMissing, Is
  <2>2. CASE q # p
    BY <1>1, <2>2 DEF AgreeInv, NoneMissing, Is, InProc, Kernel, Pending
  <2> QED BY <2>1, <2>2
<1> QED BY <1>2, <1>3, <1>4 DEF AgreeInv

LEMMA ExitAgrees ==
    ASSUME Serial, IInv, AgreeInv, NEW p \in Pids, Exit(p) \/ Reap(p)
    PROVE  AgreeInv'
<1>1. /\ UNCHANGED <<inner, born, warn_pids, pc, req>>
      /\ proc'[p] # "running" /\ threat_map'[p] \in {threat_map[p], "Low"}
      /\ \A q \in Pids \ {p} : proc'[q] = proc[q] /\ threat_map'[q] = threat_map[q]
  BY DEF Exit, Reap, IInv, TypeInv, TypeOK, memVars, threadVars, kernelVars
<1>2. ASSUME NEW t \in Threads PROVE Writing(t)'
  BY <1>1 DEF AgreeInv, Writing, Marks
<1>3. ASSUME Enforce # "propagate", NEW q \in Pids PROVE NoneLeft(q)'
  <2>1. NoneLeft(q)
    BY <1>3 DEF AgreeInv
  <2>2. Kernel(q)' \in {Kernel(q), "Low"}
    BY <1>1 DEF Kernel, Serial
  <2> QED BY <1>1, <2>1, <2>2 DEF NoneLeft, Pending
<1>4. ASSUME NEW q \in Pids PROVE NoneMissing(q)'
  <2>1. CASE q = p
    BY <1>1, <2>1 DEF NoneMissing
  <2>2. CASE q # p
    BY <1>1, <2>2 DEF AgreeInv, NoneMissing, Is, InProc, Kernel, Pending
  <2> QED BY <2>1, <2>2
<1> QED BY <1>2, <1>3, <1>4 DEF AgreeInv

\* A step of the thread on the entry of one pid, at most.
LEMMA OtherPids ==
    ASSUME Serial, AgreeInv, NEW t \in Threads, NEW p \in Pids, NEW q \in Pids \ {p},
           pc[t] = "idle" \/ req[t].pid = p, pc'[t] = "idle" \/ req'[t].pid = p,
           inner'[q] = inner[q], threat_map'[q] = threat_map[q],
           q \in warn_pids' <=> q \in warn_pids, UNCHANGED <<proc, born>>
    PROVE  /\ Enforce # "propagate" => NoneLeft(q)'
           /\ NoneMissing(q)'
<1>1. \A l \in {"bpfSet", "clearThreat", "clearWarn"} : ~Pending(q, l) /\ ~Pending(q, l)'
  BY Alone
<1>2. Kernel(q)' = Kernel(q)
  BY DEF Kernel
<1>3. (Enforce # "propagate" => NoneLeft(q)) /\ NoneMissing(q)
  BY DEF AgreeInv
<1>4. Enforce # "propagate" => NoneLeft(q)'
  BY <1>1, <1>2, <1>3 DEF NoneLeft
<1>5. NoneMissing(q)'
  BY <1>1, <1>2, <1>3 DEF NoneMissing, Is, InProc
<1> QED BY <1>4, <1>5

\* The step is right if it is for the thread and for the pid.
LEMMA OnePid ==
    ASSUME Serial, AgreeInv, NEW t \in Threads, NEW p \in Pids,
           pc[t] = "idle" \/ req[t].pid = p, pc'[t] = "idle" \/ req'[t].pid = p,
           \A q \in Pids \ {p} : /\ inner'[q] = inner[q] /\ threat_map'[q] = threat_map[q]
                                 /\ q \in warn_pids' <=> q \in warn_pids,
           UNCHANGED <<proc, born>>,
           Writing(t)', Enforce # "propagate" => NoneLeft(p)', NoneMissing(p)'
    PROVE  AgreeInv'
<1>1. ASSUME NEW s \in Threads PROVE Writing(s)'
  <2>1. s = t
    BY DEF Serial
  <2> QED BY <2>1
<1>2. ASSUME NEW q \in Pids PROVE (Enforce # "propagate" => NoneLeft(q)') /\ NoneMissing(q)'
  <2>1. CASE q = p
    BY <2>1
  <2>2. CASE q # p
    BY <2>2, OtherPids
  <2> QED BY <2>1, <2>2
<1> QED BY <1>1, <1>2 DEF AgreeInv

LEMMA CommitAgrees ==
    ASSUME Serial, IInv, AgreeInv, NEW t \in Threads, Commit(t)
    PROVE  AgreeInv'
<1>0. PICK p \in Pids : p = req[t].pid
  BY ServedPid DEF Commit, IInv
<1>1. pc[t] = "commit" /\ p \in Pids /\ Marks(req[t])
  BY ServedPid DEF Commit, IInv, Established
<1>2. /\ inner'[p].level = req[t].level /\ \A q \in Pids \ {p} : inner'[q] = inner[q]
      /\ UNCHANGED <<proc, born, threat_map, warn_pids>>
  BY <1>0, <1>1 DEF Commit, IInv, TypeInv, TypeOK, procVars, kernelVars
<1>3. pc'[t] = "bpfSet" /\ req'[t] = req[t]
  BY <1>0, GotoStill DEF Commit, IInv
<1>4. Writing(t)'
  BY <1>0, <1>1, <1>2, <1>3 DEF Writing, Marks
<1>5. inner'[p] # NoEntry
  BY <1>0, <1>1, <1>2 DEF NoEntry, Marks
<1>6. NoneLeft(p)' /\ NoneMissing(p)'
  <2>1. NoneLeft(p)'
    BY <1>0, <1>3 DEF NoneLeft, Pending
  <2>2. NoneMissing(p)'
    BY <1>0, <1>3 DEF NoneMissing, Pending
  <2> QED BY <1>0, <2>1, <2>2
<1>7. req[t].pid = p /\ req'[t].pid = p
  BY <1>0, <1>3
<1> QED BY <1>0, <1>1, <1>2, <1>4, <1>6, <1>7, OnePid

LEMMA BpfSetAgrees ==
    ASSUME Serial, IInv, AgreeInv, NEW t \in Threads, BpfSet(t)
    PROVE  AgreeInv'
<1>0. PICK p \in Pids : p = req[t].pid
  BY ServedPid DEF BpfSet, IInv
<1> DEFINE l == req[t].level
<1>1. pc[t] = "bpfSet" /\ p \in Pids /\ Marks(req[t]) /\ inner[p].level = l
  BY <1>0, ServedPid DEF BpfSet, IInv, AgreeInv, Writing
<1>2. pc'[t] = "idle"
  BY <1>0 DEF BpfSet, Answered, Reply, IInv, TypeInv, TypeOK
<1>3. UNCHANGED <<proc, born, inner>>
  BY <1>0 DEF BpfSet, procVars, memVars
<1>4. Fits(Threats, p) /\ Fits(warn_pids, p)
  BY <1>0, <1>1, AlwaysFits DEF IInv, TypeInv, TypeOK, Threats
<1>5. /\ \A q \in Pids \ {p} : threat_map'[q] = threat_map[q] /\ (q \in warn_pids' <=> q \in warn_pids)
      /\ threat_map'[p] = l
  BY <1>0, <1>1, <1>4 DEF BpfSet, Serial, IInv, TypeInv, TypeOK
<1>6. Writing(t)'
  BY <1>0, <1>2 DEF Writing
<1>7. Kernel(p)' = inner'[p].level
  BY <1>0, <1>1, <1>3, <1>5 DEF Kernel, Serial
<1>8. NoneLeft(p)'
  BY <1>7 DEF NoneLeft
<1>9. NoneMissing(p)'
  BY <1>7 DEF NoneMissing
<1>10. req[t].pid = p
  BY <1>0
<1> QED BY <1>0, <1>1, <1>2, <1>3, <1>5, <1>6, <1>8, <1>9, <1>10, OnePid

\* The entry goes, and the clear begins.
LEMMA RemovalAgrees ==
    ASSUME Serial, IInv, AgreeInv, NEW t \in Threads, pc[t] \in {"evict", "evictStale"},
           inner' = [inner EXCEPT ![req[t].pid] = NoEntry], Goto(t, "clearThreat"),
           UNCHANGED <<proc, born, threat_map, warn_pids>>
    PROVE  AgreeInv'
<1>0. PICK p \in Pids : p = req[t].pid
  BY ServedPid DEF IInv
<1>1. p \in Pids
  BY ServedPid DEF IInv
<1>2. inner'[p] = NoEntry /\ \A q \in Pids \ {p} : inner'[q] = inner[q]
  BY <1>0, <1>1 DEF IInv, TypeInv, TypeOK
<1>3. pc'[t] = "clearThreat" /\ req'[t] = req[t]
  BY <1>0, GotoStill DEF IInv
<1>4. Writing(t)'
  BY <1>0, <1>2, <1>3 DEF Writing
<1>5. NoneLeft(p)' /\ NoneMissing(p)'
  <2>1. NoneLeft(p)'
    BY <1>0, <1>3 DEF NoneLeft, Pending
  <2>2. NoneMissing(p)'
    BY <1>0, <1>2 DEF NoneMissing, NoEntry
  <2> QED BY <1>0, <2>1, <2>2
<1>6. req[t].pid = p /\ req'[t].pid = p
  BY <1>0, <1>3
<1> QED BY <1>0, <1>1, <1>2, <1>4, <1>5, <1>6, OnePid

LEMMA ClearThreatAgrees ==
    ASSUME Serial, IInv, AgreeInv, NEW t \in Threads, ClearThreat(t)
    PROVE  AgreeInv'
<1>0. PICK p \in Pids : p = req[t].pid
  BY ServedPid DEF ClearThreat, IInv
<1>1. pc[t] = "clearThreat" /\ p \in Pids /\ inner[p] = NoEntry
  BY <1>0, ServedPid DEF ClearThreat, IInv, AgreeInv, Writing
<1>2. /\ threat_map'[p] = "Low" /\ \A q \in Pids \ {p} : threat_map'[q] = threat_map[q]
      /\ UNCHANGED <<proc, born, inner, warn_pids>>
  BY <1>0, <1>1 DEF ClearThreat, Serial, IInv, TypeInv, TypeOK, procVars, memVars
<1>3. pc'[t] = "clearWarn" /\ req'[t] = req[t]
  BY <1>0, GotoStill DEF ClearThreat, IInv
<1>4. Writing(t)'
  BY <1>0, <1>1, <1>2, <1>3 DEF Writing
<1>5. NoneLeft(p)' /\ NoneMissing(p)'
  <2>1. NoneLeft(p)'
    BY <1>2 DEF NoneLeft, Kernel, Serial
  <2>2. NoneMissing(p)'
    BY <1>0, <1>1, <1>2 DEF NoneMissing, NoEntry
  <2> QED BY <1>0, <2>1, <2>2
<1>6. req[t].pid = p /\ req'[t].pid = p
  BY <1>0, <1>3
<1> QED BY <1>0, <1>1, <1>2, <1>4, <1>5, <1>6, OnePid

LEMMA ClearWarnAgrees ==
    ASSUME Serial, IInv, AgreeInv, NEW t \in Threads, ClearWarn(t)
    PROVE  AgreeInv'
<1>0. PICK p \in Pids : p = req[t].pid
  BY ServedPid DEF ClearWarn, IInv
<1>1. pc[t] = "clearWarn" /\ p \in Pids /\ inner[p] = NoEntry
  BY <1>0, ServedPid DEF ClearWarn, IInv, AgreeInv, Writing
<1>2. /\ warn_pids' = warn_pids \ {p}
      /\ UNCHANGED <<proc, born, inner, threat_map>>
  BY <1>0 DEF ClearWarn, Serial, procVars, memVars
<1>3. pc'[t] = "idle"
  BY <1>0 DEF ClearWarn, Answered, Reply, IInv, TypeInv, TypeOK
<1>4. Writing(t)'
  BY <1>0, <1>3 DEF Writing
<1>5. Enforce # "propagate" => NoneLeft(p)'
  <2> SUFFICES ASSUME Enforce # "propagate" PROVE NoneLeft(p)'
    OBVIOUS
  <2>1. NoneLeft(p)
    BY <1>1 DEF AgreeInv
  <2>2. ~Pending(p, "clearThreat") /\ ~Pending(p, "bpfSet")
    BY <1>0, <1>1, Alone
  <2>3. Kernel(p) = "Low"
    BY <1>1, <2>1, <2>2 DEF NoneLeft, NoEntry
  <2> QED BY <1>2, <2>3 DEF NoneLeft, Kernel, Serial
<1>6. NoneMissing(p)'
  BY <1>0, <1>1, <1>2 DEF NoneMissing, NoEntry
<1>7. req[t].pid = p
  BY <1>0
<1>8. \A q \in Pids \ {p} : q \in warn_pids' <=> q \in warn_pids
  BY <1>0, <1>2
<1> QED BY <1>0, <1>1, <1>2, <1>3, <1>4, <1>5, <1>6, <1>7, <1>8, OnePid

\* Every step of the one thread, and of the processes.
LEMMA AgreeStep ==
    ASSUME Serial, IInv, AgreeInv, [Next]_vars
    PROVE  AgreeInv'
<1>1. ASSUME NEW p \in Pids, NEW u \in Uids, NEW parents \in SUBSET Pids, Fork(p, u, parents)
      PROVE  AgreeInv'
  BY <1>1, ForkAgrees
<1>2. ASSUME NEW p \in Pids, Exit(p) \/ Reap(p) PROVE AgreeInv'
  BY <1>2, ExitAgrees
<1>3. ASSUME NEW t \in Threads, NEW r \in Requests, Receive(t, r) PROVE AgreeInv'
  <2>1. pc[t] = "idle" /\ pc'[t] = FirstStep(r) /\ UNCHANGED <<proc, born, inner, threat_map, warn_pids>>
    BY <1>3 DEF Receive, IInv, TypeInv, TypeOK, procVars, memVars, kernelVars
  <2>2. Clean(pc[t]) /\ Clean(pc'[t])
    BY <2>1, FirstStepLabel DEF Clean
  <2> QED BY <2>1, <2>2, CleanStep
<1>4. ASSUME NEW t \in Threads, Handle(t) PROVE AgreeInv'
  <2>1. ASSUME NEW out, Answered(t, out) PROVE pc'[t] = "idle"
    BY <2>1 DEF Answered, Reply, IInv, TypeInv, TypeOK
  <2>2. CASE \/ ReadStart1(t) \/ CheckOwner(t) \/ ReadStart2(t) \/ SetReadStart(t)
             \/ BpfWatch(t) \/ Lookup(t) \/ Verify(t)
    <3>1. UNCHANGED <<proc, born, inner, threat_map, warn_pids>>
      BY <2>2 DEF ReadStart1, CheckOwner, ReadStart2, SetReadStart, BpfWatch, Lookup, Verify,
                  procVars, memVars, kernelVars
    <3>2. Clean(pc[t])
      BY <2>2 DEF ReadStart1, CheckOwner, ReadStart2, SetReadStart, BpfWatch, Lookup, Verify, Clean
    <3>3. req[t] \in Requests
      BY <2>2, ServedPid DEF ReadStart1, CheckOwner, ReadStart2, SetReadStart, BpfWatch, Lookup, Verify, IInv
    <3>4. Clean(pc'[t])
      <4>1. CASE ReadStart1(t)
        BY <2>1, <4>1, GotoStartStill DEF ReadStart1, IInv, Clean
      <4>2. CASE CheckOwner(t)
        BY <2>1, <3>3, <4>2, GotoStill, AfterOwnerLabel DEF CheckOwner, IInv, Clean
      <4>3. CASE ReadStart2(t)
        BY <2>1, <4>3, GotoStill DEF ReadStart2, IInv, Clean
      <4>4. CASE SetReadStart(t)
        BY <2>1, <4>4, GotoStartStill DEF SetReadStart, IInv, Clean
      <4>5. CASE BpfWatch(t)
        BY <2>1, <4>5 DEF BpfWatch, Clean
      <4>6. CASE Lookup(t)
        BY <2>1, <4>6 DEF Lookup, IInv, TypeInv, TypeOK, Clean
      <4>7. CASE Verify(t)
        BY <2>1, <4>7, GotoStill DEF Verify, Serve, Reply, IInv, TypeInv, TypeOK, Clean
      <4> QED BY <2>2, <4>1, <4>2, <4>3, <4>4, <4>5, <4>6, <4>7
    <3> QED BY <3>1, <3>2, <3>4, CleanStep
  <2>3. CASE Commit(t)
    BY <2>3, CommitAgrees
  <2>4. CASE BpfSet(t)
    BY <2>4, BpfSetAgrees
  <2>5. CASE ClearThreat(t)
    BY <2>5, ClearThreatAgrees
  <2>6. CASE ClearWarn(t)
    BY <2>6, ClearWarnAgrees
  <2>7. CASE Evict(t)
    <3>1. pc[t] = "evict" /\ UNCHANGED <<proc, born, threat_map, warn_pids>>
      BY <2>7 DEF Evict, procVars, kernelVars
    <3>2. CASE Goto(t, "clearThreat")
      BY <2>7, <3>1, <3>2, RemovalAgrees DEF Evict
    <3>3. CASE ~Goto(t, "clearThreat")
      <4>1. inner[req[t].pid] = NoEntry /\ Answered(t, "ok")
        BY <2>7, <3>3 DEF Evict, Serial
      <4>2. inner' = inner
        BY <2>7, <4>1 DEF Evict, IInv, TypeInv, TypeOK
      <4>3. Clean(pc[t]) /\ Clean(pc'[t])
        BY <2>1, <3>1, <4>1 DEF Clean
      <4> QED BY <3>1, <4>2, <4>3, CleanStep
    <3> QED BY <3>2, <3>3
  <2>8. CASE EvictIfStale(t)
    <3>1. pc[t] = "evictStale" /\ UNCHANGED <<proc, born, threat_map, warn_pids>>
      BY <2>8 DEF EvictIfStale, procVars, kernelVars
    <3>2. CASE StillStored(t)
      BY <2>8, <3>1, <3>2, RemovalAgrees DEF EvictIfStale, Serial
    <3>3. CASE ~StillStored(t)
      <4>1. inner' = inner /\ Answered(t, "level")
        BY <2>8, <3>3 DEF EvictIfStale
      <4>2. Clean(pc[t]) /\ Clean(pc'[t])
        BY <2>1, <3>1, <4>1 DEF Clean
      <4> QED BY <3>1, <4>1, <4>2, CleanStep
    <3> QED BY <3>2, <3>3
  <2> QED BY <1>4, <2>2, <2>3, <2>4, <2>5, <2>6, <2>7, <2>8 DEF Handle
<1>5. CASE UNCHANGED vars
  BY <1>5 DEF vars, procVars, memVars, kernelVars, threadVars, AgreeInv, Writing, Marks, NoneLeft,
              NoneMissing, Pending, Kernel, Is, InProc
<1> QED BY <1>1, <1>2, <1>3, <1>4, <1>5 DEF Next

LEMMA AgreeInit == Init => AgreeInv
BY DEF Init, AgreeInv, Writing, NoneLeft, NoneMissing, Kernel, NoEntry

\* The module comment of threat_map.rs, for requests that come one at a time,
\* any number of pids and processes and any length of the run: between
\* requests the hook finds the level of the entry for every live process that
\* is marked, and nothing but that level or none for any pid.
THEOREM KernelAgreesSerially ==
    ASSUME Serial
    PROVE  Spec => []KernelAgreesWhenQuiet
<1>1. IInv /\ AgreeInv /\ [Next]_vars => (IInv /\ AgreeInv)'
  BY IInvStep, AgreeStep
<1>2. Init => IInv /\ AgreeInv
  BY IInvInit, AgreeInit
<1>3. IInv /\ AgreeInv => KernelAgreesWhenQuiet
  <2> SUFFICES ASSUME AgreeInv, \A t \in Threads : pc[t] = "idle", NEW p \in Pids
               PROVE  /\ Enforce # "propagate" => Kernel(p) \in {"Low", inner[p].level}
                      /\ inner[p] # NoEntry /\ Is(p, inner[p].start) /\ proc[p] = "running"
                           => Kernel(p) = inner[p].level
    BY DEF KernelAgreesWhenQuiet
  <2>1. \A l \in {"bpfSet", "clearThreat", "clearWarn"} : ~Pending(p, l)
    BY DEF Pending
  <2> QED BY <2>1 DEF AgreeInv, NoneLeft, NoneMissing
<1> QED BY <1>1, <1>2, <1>3, PTL DEF Spec

=============================================================================
