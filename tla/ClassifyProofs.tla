--------------------------- MODULE ClassifyProofs ---------------------------
(***************************************************************************)
(* Proofs about Classify, for any number of threads and requests, any      *)
(* packages and answers of the OSV service, any sizes of the cache and of  *)
(* a request's fan-out, any TTL and timeout.                               *)
(*                                                                         *)
(* The invariant says of a thread that its result is the strictest of what *)
(* it has consulted and that what it still owes is left in its walk, of    *)
(* a query in flight how old it may be, and of a cache entry how much      *)
(* older than its date its contents may be.                                *)
(***************************************************************************)
EXTENDS Classify, FiniteSetTheorems, SequenceTheorems, WellFoundedInduction, TLAPS

\* The package arguments of the commands.
Installs == UNION {{c.install : c \in Commands[k]} : k \in Configs}

WorldOK ==
    /\ overlay \subseteq Atoms
    /\ upstream \in [Packages -> SUBSET Advisories]
    /\ proc \in [Pids -> [owner : Uids \cup {"nobody"}, level : {"low", "high", "critical"}]]
    /\ now \in 0..MaxTime /\ requests \in 0..MaxRequests /\ events \in 0..MaxEvents

\* What an entry of the cache may be at time n.
EntryOK(e, n) == e \in Entries /\ e.read <= e.when /\ e.when <= n /\ e.when - e.read <= Timeout

CacheOK ==
    /\ DOMAIN cache \subseteq Packages \ LongNames
    /\ IsFiniteSet(DOMAIN cache) /\ Cardinality(DOMAIN cache) <= MaxCache
    /\ \A p \in DOMAIN cache : EntryOK(cache[p], now)

Labels == {"idle", "overlay", "osv", "asked", "mark", "reply"}
Requests == [needles : SUBSET Atoms, install : Installs \cup {<<>>}, uid : Uids, pid : Pids \cup {NoPid}]

Sources == {"classifier", "overlay", "osv", "mark"}

ThreadTypes ==
    /\ pc \in [Threads -> Labels]
    /\ req \in [Threads -> Requests]
    /\ result \in [Threads -> Verdicts] 
    /\ consulted \in [Threads -> SUBSET [by : Sources, says : Verdicts]]
    /\ pkgs \in [Threads -> Seq(Packages)]
    /\ asked \in [Threads -> [verdict : Verdicts, at : 0..MaxTime]]
    /\ owed \in [Threads -> SUBSET Packages]

\* v is the strictest of the signals S, and one of them.
Strictest(v, S) == (\E s \in S : s.says = v) /\ (\A s \in S : Rank[s.says] <= Rank[v])

\* A command was not safe before its packages were looked up.
Early(S) == \E s \in S : s.by \in {"classifier", "overlay"} /\ s.says # "safe"

\* A thread at step l with these locals, at time n.
ThreadOK(l, r, v, S, ps, a, o, n) ==
    /\ l # "idle" => Strictest(v, S)
    /\ Len(ps) <= MaxProbed
    /\ l = "overlay" => /\ r.install \in Installs /\ o = Wanted(r.install)
                        /\ S = {[by |-> "classifier", says |-> v]}
    /\ l \in {"osv", "asked", "mark", "reply"} => o \subseteq Range(ps) \/ v = "block" \/ Early(S)
    /\ l \in {"mark", "reply"} => ps = <<>>
    /\ l = "asked" => ps # <<>> /\ a.at <= n /\ n - a.at <= Timeout

ThreadsOK ==
    \A t \in Threads : ThreadOK(pc[t], req[t], result[t], consulted[t], pkgs[t], asked[t], owed[t], now)

ClassifyInv == WorldOK /\ CacheOK /\ ThreadTypes /\ ThreadsOK

-----------------------------------------------------------------------------
(* The classifier.                                                         *)

\* A non-empty set of natural numbers has a least member.
LEMMA Least ==
    ASSUME NEW T, T \subseteq Nat, T # {}
    PROVE  \E x \in T : \A y \in T : x <= y
<1>1. \E x \in T : \A y \in T : ~ (<<y, x>> \in OpToRel(<, Nat))
  BY NatLessThanWellFounded, WFMin
<1>2. PICK x \in T : \A y \in T : ~ (<<y, x>> \in OpToRel(<, Nat))
  BY <1>1
<1>3. ASSUME NEW y \in T PROVE x <= y
  <2>1. ~ (y < x)
    BY <1>2 DEF OpToRel
  <2> QED BY <2>1
<1> QED BY <1>3

\* What a recursive function computes is shown by induction, which is put in terms
\* of a set: one that has 0 and the successor of each of its numbers has them all.
LEMMA InductiveSet ==
    ASSUME NEW S, 0 \in S, \A n \in Nat : n \in S => n + 1 \in S
    PROVE  \A n \in Nat : n \in S
<1> DEFINE T == Nat \ S
<1> SUFFICES ASSUME T # {} PROVE FALSE
  OBVIOUS
<1>1. PICK x \in T : \A y \in T : x <= y
  <2>1. T \subseteq Nat
    OBVIOUS
  <2> HIDE DEF T
  <2> QED BY <2>1, Least
<1>2. x \in Nat /\ x # 0
  OBVIOUS
<1>3. x - 1 \in Nat /\ (x - 1) + 1 = x /\ ~(x <= x - 1)
  BY <1>2
<1>4. x - 1 \in S
  BY <1>1, <1>3
<1> QED BY <1>1, <1>3, <1>4

-----------------------------------------------------------------------------
(* The verdict of several hits.                                            *)

Hits == [lo : Nat, hi : Nat, conf : 0..100, verdict : {"warn", "block"}]

\* One of several bounded numbers is the last of the greatest.
LEMMA LastOfGreatest ==
    ASSUME NEW n \in Nat \ {0}, NEW K \in Nat, NEW C \in [1..n -> 0..K]
    PROVE  \E k \in 1..n : \A j \in 1..n : C[j] <= C[k] /\ (j > k => C[j] < C[k])
<1>1. \A i \in 1..n : C[i] \in 0..K
  OBVIOUS
<1>2. PICK i \in 1..n : \A j \in 1..n : C[j] <= C[i]
  <2> DEFINE Gaps == {K - C[i] : i \in 1..n}
  <2>1. Gaps \subseteq Nat /\ Gaps # {}
    <3>1. \A i \in 1..n : K - C[i] \in Nat
      BY <1>1
    <3>2. 1 \in 1..n
      OBVIOUS
    <3> QED BY <3>1, <3>2
  <2>2. PICK g \in Gaps : \A y \in Gaps : g <= y
    <3> HIDE DEF Gaps
    <3> QED BY <2>1, Least
  <2>3. PICK i \in 1..n : g = K - C[i]
    BY <2>2
  <2>4. ASSUME NEW j \in 1..n PROVE C[j] <= C[i]
    <3>1. K - C[i] <= K - C[j]
      BY <2>2, <2>3
    <3> QED BY <1>1, <3>1
  <2> QED BY <2>4
<1>3. PICK k \in 1..n : C[k] = C[i] /\ \A j \in 1..n : C[j] = C[i] => j <= k
  <2> DEFINE Ends == {n - j : j \in {x \in 1..n : C[x] = C[i]}}
  <2>1. Ends \subseteq Nat /\ Ends # {}
    OBVIOUS
  <2>2. PICK e \in Ends : \A y \in Ends : e <= y
    <3> HIDE DEF Ends
    <3> QED BY <2>1, Least
  <2>3. PICK k \in 1..n : e = n - k /\ C[k] = C[i]
    BY <2>2
  <2>4. ASSUME NEW j \in 1..n, C[j] = C[i] PROVE j <= k
    <3>1. n - k <= n - j
      BY <2>2, <2>3, <2>4
    <3> QED BY <3>1
  <2> QED BY <2>3, <2>4
<1>4. ASSUME NEW j \in 1..n PROVE C[j] <= C[k] /\ (j > k => C[j] < C[k])
  <2>1. CASE C[j] = C[i]
    BY <1>1, <1>3, <2>1
  <2>2. CASE C[j] # C[i]
    BY <1>1, <1>2, <1>3, <2>2
  <2> QED BY <2>1, <2>2
<1> QED BY <1>4

\* Of several hits one is the primary one.
LEMMA PrimaryExists ==
    ASSUME NEW hits \in Seq(Hits), hits # <<>>
    PROVE  \E i \in DOMAIN hits : \A j \in DOMAIN hits :
              hits[j].conf <= hits[i].conf /\ (j > i => hits[j].conf < hits[i].conf)
<1>1. DOMAIN hits = 1..Len(hits) /\ Len(hits) \in Nat \ {0}
  OBVIOUS
<1>2. ASSUME NEW i \in 1..Len(hits) PROVE hits[i].conf \in 0..100
  <2>1. hits[i] \in Hits
    OBVIOUS
  <2> QED BY <2>1 DEF Hits
<1>3. PICK n \in Nat \ {0} : n = Len(hits)
  BY <1>1
<1>4. PICK C \in [1..n -> 0..100] : \A i \in 1..n : C[i] = hits[i].conf
  <2>1. [i \in 1..n |-> hits[i].conf] \in [1..n -> 0..100]
    BY <1>2, <1>3
  <2> QED BY <2>1
<1>5. PICK k \in 1..n : \A j \in 1..n : C[j] <= C[k] /\ (j > k => C[j] < C[k])
  <2>1. 100 \in Nat
    OBVIOUS
  <2> QED BY <2>1, LastOfGreatest
<1> QED BY <1>1, <1>3, <1>4, <1>5

\* combine_hits: nothing comes from nothing, too little confidence is safe, and a
\* block takes two distinct signals and a threshold, or a hit that says so.
LEMMA CombineHitsCases ==
    ASSUME NEW hits \in Seq(Hits), NEW threshold, NEW distinct,
           NEW v, v = CombineHits(hits, threshold, distinct)
    PROVE  /\ v \in Verdicts
           /\ v # "safe" => hits # <<>>
           /\ v = "safe" => hits = <<>> \/ CombinedConfidence(hits) < Percent(50)
           /\ v = "block" => \/ threshold # 0 /\ distinct >= 2
                             \/ \E i \in DOMAIN hits : hits[i].verdict = "block"
<1> DEFINE primary == CHOOSE i \in DOMAIN hits : \A j \in DOMAIN hits :
                         hits[j].conf <= hits[i].conf /\ (j > i => hits[j].conf < hits[i].conf)
           conf == CombinedConfidence(hits)
<1>0. v = IF hits = <<>> \/ conf < Percent(50) THEN "safe"
          ELSE IF threshold # 0 /\ distinct >= 2 /\ conf >= Percent(threshold) THEN "block"
          ELSE hits[primary].verdict
  BY DEF CombineHits
<1>1. CASE hits = <<>>
  BY <1>0, <1>1 DEF Verdicts
<1>2. CASE hits # <<>>
  <2>1. primary \in DOMAIN hits
    BY <1>2, PrimaryExists
  <2> HIDE DEF primary, conf
  <2>2. hits[primary].verdict \in {"warn", "block"}
    <3>1. hits[primary] \in Hits
      BY <2>1
    <3> QED BY <3>1 DEF Hits
  <2>3. CASE conf < Percent(50)
    BY <1>0, <1>2, <2>3 DEF Verdicts, conf
  <2>4. CASE ~(conf < Percent(50))
    BY <1>0, <1>2, <2>1, <2>2, <2>4 DEF Verdicts
  <2> QED BY <2>3, <2>4
<1> QED BY <1>1, <1>2

-----------------------------------------------------------------------------
(* The order of the hits.                                                  *)

IsOrder(p, key, n) ==
    p \in [1..n -> 1..n] /\ IsInjective(p) /\ \A i, j \in 1..n : i < j => key[p[i]] <= key[p[j]]

\* The numbers up to n can be put in the order of their keys.
LEMMA OrderExists ==
    ASSUME NEW n \in Nat, NEW key, key \in [1..n -> Nat]
    PROVE  \E p : IsOrder(p, key, n)
<1> DEFINE Ordered(p, m) == \A i, j \in 1..m : i < j => p[i] # p[j] /\ key[p[i]] <= key[p[j]]
           O == {m \in Nat : \A S \in SUBSET (1..n) : IsFiniteSet(S) /\ Cardinality(S) = m =>
                                \E p \in [1..m -> S] : Ordered(p, m)}
<1>1. 0 \in O
  <2> SUFFICES ASSUME NEW S \in SUBSET (1..n) PROVE \E p \in [1..0 -> S] : Ordered(p, 0)
    OBVIOUS
  <2>1. [i \in 1..0 |-> 0] \in [1..0 -> S]
    OBVIOUS
  <2>2. Ordered([i \in 1..0 |-> 0], 0)
    OBVIOUS
  <2> QED BY <2>1, <2>2
<1>2. ASSUME NEW m \in Nat, m \in O PROVE m + 1 \in O
  <2> SUFFICES ASSUME NEW S \in SUBSET (1..n), IsFiniteSet(S), Cardinality(S) = m + 1
               PROVE  \E p \in [1..(m + 1) -> S] : Ordered(p, m + 1)
    OBVIOUS
  <2>1. S # {}
    BY FS_EmptySet
  <2>2. PICK x \in S : \A y \in S : key[x] <= key[y]
    <3> DEFINE Keys == {key[y] : y \in S}
    <3>1. Keys \subseteq Nat /\ Keys # {}
      BY <2>1
    <3>2. PICK k \in Keys : \A y \in Keys : k <= y
      <4> HIDE DEF Keys
      <4> QED BY <3>1, Least
    <3> QED BY <3>2
  <2> DEFINE R == S \ {x}
  <2>3. IsFiniteSet(R) /\ Cardinality(R) = m /\ R \in SUBSET (1..n)
    <3>1. IsFiniteSet(R) /\ Cardinality(R) = Cardinality(S) - 1
      BY FS_RemoveElement
    <3> QED BY <3>1
  <2>4. PICK p \in [1..m -> R] : Ordered(p, m)
    <3> HIDE DEF R, Ordered
    <3> QED BY <1>2, <2>3
  <2> DEFINE q == [i \in 1..(m + 1) |-> IF i = 1 THEN x ELSE p[i - 1]]
  <2>5. \A i \in 1..m : p[i] \in S /\ p[i] # x
    OBVIOUS
  <2>6. q \in [1..(m + 1) -> S]
    <3>1. \A i \in 1..(m + 1) : i # 1 => i - 1 \in 1..m
      OBVIOUS
    <3> QED BY <2>5, <3>1
  <2>7. ASSUME NEW i \in 1..(m + 1), NEW j \in 1..(m + 1), i < j
        PROVE  q[i] # q[j] /\ key[q[i]] <= key[q[j]]
    <3>1. j - 1 \in 1..m /\ q[j] = p[j - 1]
      BY <2>7
    <3>2. CASE i = 1
      <4>1. q[i] = x
        BY <3>2
      <4> QED BY <2>2, <2>5, <3>1, <4>1
    <3>3. CASE i # 1
      <4>1. i - 1 \in 1..m /\ q[i] = p[i - 1] /\ i - 1 < j - 1
        BY <2>7, <3>3
      <4> QED BY <2>4, <3>1, <4>1
    <3> QED BY <3>2, <3>3
  <2> HIDE DEF q
  <2> QED BY <2>6, <2>7
<1>3. n \in O
  <2> HIDE DEF O
  <2> QED BY <1>1, <1>2, InductiveSet
<1>4. IsFiniteSet(1..n) /\ Cardinality(1..n) = n
  BY FS_Interval
<1>5. PICK p \in [1..n -> 1..n] : Ordered(p, n)
  <2> HIDE DEF Ordered
  <2> QED BY <1>3, <1>4
<1>6. IsInjective(p)
  BY <1>5 DEF IsInjective
<1> QED BY <1>5, <1>6 DEF IsOrder

\* sort_by_key gives the same hits, in the order of their starts.
LEMMA ByStartOrders ==
    ASSUME NEW n \in Nat, NEW hits \in [1..n -> Hits], Len(hits) = n
    PROVE  /\ ByStart(hits) \in [1..n -> Hits]
           /\ \A i, j \in 1..n : i < j => ByStart(hits)[i].lo <= ByStart(hits)[j].lo
           /\ \A x : (\E i \in 1..n : x = hits[i]) <=> (\E i \in 1..n : x = ByStart(hits)[i])
<1> DEFINE Sorted(p) == /\ IsInjective(p)
                        /\ \A i, j \in 1..n : i < j => hits[p[i]].lo <= hits[p[j]].lo
           p == CHOOSE p \in [1..n -> 1..n] : Sorted(p)
<1>1. p \in [1..n -> 1..n] /\ Sorted(p)
  <2> DEFINE key == [i \in 1..n |-> hits[i].lo]
  <2>1. key \in [1..n -> Nat]
    BY DEF Hits
  <2>2. PICK q : IsOrder(q, key, n)
    <3> HIDE DEF key
    <3> QED BY <2>1, OrderExists
  <2>3. q \in [1..n -> 1..n] /\ Sorted(q)
    BY <2>2 DEF IsOrder
  <2> HIDE DEF Sorted
  <2> QED BY <2>3
<1>2. ByStart(hits) = [i \in 1..n |-> hits[p[i]]]
  BY DEF ByStart
<1> HIDE DEF p
<1>3. \A y \in 1..n : \E i \in 1..n : p[i] = y
  <2>1. p \in Injection(1..n, 1..n)
    BY <1>1 DEF Injection
  <2>2. IsFiniteSet(1..n)
    BY FS_Interval
  <2>3. p \in Surjection(1..n, 1..n)
    BY <2>1, <2>2, FS_Injection
  <2> QED BY <2>3 DEF Surjection
<1>4. ByStart(hits) \in [1..n -> Hits]
  BY <1>1, <1>2
<1>5. \A i, j \in 1..n : i < j => ByStart(hits)[i].lo <= ByStart(hits)[j].lo
  BY <1>1, <1>2
<1>6. \A i \in 1..n : p[i] \in 1..n /\ ByStart(hits)[i] = hits[p[i]]
  BY <1>1, <1>2
<1>7. ASSUME NEW x PROVE (\E i \in 1..n : x = hits[i]) <=> (\E i \in 1..n : x = ByStart(hits)[i])
  <2>1. ASSUME NEW y \in 1..n, x = hits[y] PROVE \E i \in 1..n : x = ByStart(hits)[i]
    <3>1. PICK i \in 1..n : p[i] = y
      BY <1>3
    <3>2. x = ByStart(hits)[i]
      BY <1>6, <2>1, <3>1
    <3> QED BY <3>2
  <2>2. ASSUME NEW i \in 1..n, x = ByStart(hits)[i] PROVE \E y \in 1..n : x = hits[y]
    <3>1. x = hits[p[i]] /\ p[i] \in 1..n
      BY <1>6, <2>2
    <3> QED BY <3>1
  <2> QED BY <2>1, <2>2
<1> QED BY <1>4, <1>5, <1>7, Zenon

-----------------------------------------------------------------------------
(* The groups of spans.                                                    *)

\* What a recursion over the first n numbers computes, step by step.
IsStep(step, n, V) == step \in [(1..n) \X V -> V]
IsRun(f, n, V, base, step) ==
    f \in [0..n -> V] /\ f[0] = base /\ \A i \in 1..n : f[i] = step[<<i, f[i - 1]>>]

LEMMA Recursion ==
    ASSUME NEW n \in Nat, NEW V, NEW base \in V, NEW step, IsStep(step, n, V)
    PROVE  \E f : IsRun(f, n, V, base, step)
<1>0. step \in [(1..n) \X V -> V]
  BY DEF IsStep
<1> SUFFICES \E f \in [0..n -> V] : f[0] = base /\ \A i \in 1..n : f[i] = step[<<i, f[i - 1]>>]
  BY DEF IsRun
<1> DEFINE Upto(f, k) == f[0] = base /\ \A i \in 1..k : f[i] = step[<<i, f[i - 1]>>]
           S == {k \in Nat : k <= n => \E f \in [0..k -> V] : Upto(f, k)}
<1>1. 0 \in S
  <2>1. [i \in 0..0 |-> base] \in [0..0 -> V] /\ Upto([i \in 0..0 |-> base], 0)
    OBVIOUS
  <2> HIDE DEF Upto
  <2> QED BY <2>1
<1>2. ASSUME NEW k \in Nat, k \in S PROVE k + 1 \in S
  <2> SUFFICES ASSUME k + 1 <= n PROVE \E f \in [0..(k + 1) -> V] : Upto(f, k + 1)
    OBVIOUS
  <2>1. PICK f \in [0..k -> V] : Upto(f, k)
    <3> HIDE DEF Upto
    <3>1. k <= n
      OBVIOUS
    <3> QED BY <1>2, <3>1
  <2> DEFINE v == step[<<k + 1, f[k]>>]
             g == [i \in 0..(k + 1) |-> IF i <= k THEN f[i] ELSE v]
  <2>2. v \in V
    <3>1. f[k] \in V /\ k + 1 \in 1..n
      OBVIOUS
    <3> QED BY <1>0, <3>1
  <2>3. v = step[<<k + 1, f[k]>>]
    OBVIOUS
  <2> HIDE DEF v
  <2>4. g \in [0..(k + 1) -> V]
    BY <2>2
  <2>5. \A i \in 0..k : g[i] = f[i]
    OBVIOUS
  <2>6. g[k + 1] = v
    OBVIOUS
  <2> HIDE DEF g
  <2>7. ASSUME NEW i \in 1..(k + 1) PROVE g[i] = step[<<i, g[i - 1]>>]
    <3>1. CASE i <= k
      <4>1. i \in 1..k /\ i \in 0..k /\ i - 1 \in 0..k
        BY <3>1
      <4>2. g[i] = f[i] /\ g[i - 1] = f[i - 1]
        BY <2>5, <4>1
      <4> QED BY <2>1, <4>1, <4>2
    <3>2. CASE ~(i <= k)
      <4>1. i = k + 1 /\ i - 1 = k /\ k \in 0..k
        BY <3>2
      <4> QED BY <2>3, <2>5, <2>6, <4>1
    <3> QED BY <3>1, <3>2
  <2>8. Upto(g, k + 1)
    BY <2>1, <2>5, <2>7
  <2> HIDE DEF Upto
  <2> QED BY <2>4, <2>8
<1>3. n \in S
  <2> HIDE DEF S
  <2> QED BY <1>1, <1>2, InductiveSet
<1>4. n <= n
  OBVIOUS
<1> QED BY <1>3, <1>4

\* The signals of the first tier.
Signals == {h \in Hits : h.lo < h.hi /\ h.conf >= 60 /\ h.verdict = "warn"}
States == [n : Nat, end : Nat]

\* The groups are counted one span at a time.
LEMMA GroupsDefined ==
    ASSUME NEW n \in Nat, NEW hits \in [1..n -> Hits], Len(hits) = n
    PROVE  \E f \in [0..n -> States] :
              /\ f[0] = NoGroup /\ DistinctSpanGroups(hits) = f[n].n
              /\ \A i \in 1..n : f[i] = Extend(f[i - 1], ByStart(hits)[i])
<1> DEFINE spans == ByStart(hits)
           step == [x \in (1..n) \X States |-> Extend(x[2], spans[x[1]])]
<1>1. \A i \in 1..n : spans[i] \in Hits
  BY ByStartOrders
<1> HIDE DEF spans
<1>2. step \in [(1..n) \X States -> States]
  <2>1. ASSUME NEW i \in 1..n, NEW g \in States PROVE Extend(g, spans[i]) \in States
    <3>1. spans[i].lo \in Nat /\ spans[i].hi \in Nat /\ g.n \in Nat /\ g.end \in Nat
      BY <1>1 DEF Hits, States
    <3>2. Extend(g, spans[i]) = IF spans[i].lo < g.end
            THEN [g EXCEPT !.end = IF spans[i].hi > g.end THEN spans[i].hi ELSE g.end]
            ELSE [n |-> g.n + 1, end |-> spans[i].hi]
      BY Zenon DEF Extend
    <3> QED BY <3>1, <3>2 DEF States
  <2> QED BY <2>1
<1>3. NoGroup \in States
  BY DEF NoGroup, States
<1>4. \A i \in 1..n, g \in States : step[<<i, g>>] = Extend(g, spans[i])
  OBVIOUS
<1> HIDE DEF step
<1>5. PICK f \in [0..n -> States] : f[0] = NoGroup /\ \A i \in 1..n : f[i] = step[<<i, f[i - 1]>>]
  <2>1. IsStep(step, n, States)
    BY <1>2 DEF IsStep
  <2>2. \E f : IsRun(f, n, States, NoGroup, step)
    BY <1>3, <2>1, Recursion
  <2> QED BY <2>2 DEF IsRun
<1>6. ASSUME NEW i \in 1..n PROVE f[i] = Extend(f[i - 1], spans[i])
  <2>1. i - 1 \in 0..n
    OBVIOUS
  <2>2. f[i - 1] \in States
    BY <2>1
  <2> QED BY <1>4, <1>5, <2>2
<1> DEFINE F(g) == [i \in 0..n |-> IF i = 0 THEN NoGroup ELSE Extend(g[i - 1], spans[i])]
<1>7. f = F(f)
  <2>1. \A i \in 0..n : f[i] = IF i = 0 THEN NoGroup ELSE Extend(f[i - 1], spans[i])
    <3>1. \A i \in 0..n : i # 0 => i \in 1..n
      OBVIOUS
    <3> QED BY <1>5, <1>6, <3>1
  <2> QED BY <2>1
<1> DEFINE a == CHOOSE a : a = F(a)
<1>8. a = F(a)
  <2> HIDE DEF F
  <2> QED BY <1>7
<1>9. DistinctSpanGroups(hits) = a[n].n
  BY DEF DistinctSpanGroups, spans
<1> HIDE DEF a
<1>10. \A i \in 0..n : a[i] = IF i = 0 THEN NoGroup ELSE Extend(a[i - 1], spans[i])
  BY <1>8
<1>11. \A k \in Nat : k \in {i \in Nat : i <= n => a[i] = f[i]}
  <2> DEFINE E == {i \in Nat : i <= n => a[i] = f[i]}
  <2>1. 0 \in E
    BY <1>5, <1>10
  <2>2. ASSUME NEW k \in Nat, k \in E PROVE k + 1 \in E
    <3> SUFFICES ASSUME k + 1 <= n PROVE a[k + 1] = f[k + 1]
      OBVIOUS
    <3>1. k + 1 \in 1..n /\ k + 1 \in 0..n /\ (k + 1) - 1 = k /\ k + 1 # 0 /\ a[k] = f[k]
      BY <2>2
    <3>2. a[k + 1] = Extend(a[k], spans[k + 1])
      BY <1>10, <3>1
    <3>3. f[k + 1] = Extend(f[k], spans[k + 1])
      BY <1>6, <3>1
    <3> QED BY <3>1, <3>2, <3>3
  <2> HIDE DEF E
  <2>3. \A k \in Nat : k \in E
    BY <2>1, <2>2, InductiveSet
  <2> QED BY <2>3 DEF E
<1>12. a[n] = f[n]
  BY <1>11
<1> QED BY <1>5, <1>6, <1>9, <1>12 DEF spans

\* Two groups of spans lie apart: no span before some place in their order reaches
\* one after it.
LEMMA GroupsLieApart ==
    ASSUME NEW n \in Nat, NEW hits \in [1..n -> Signals], Len(hits) = n
    PROVE  /\ DistinctSpanGroups(hits) \in Nat
           /\ DistinctSpanGroups(hits) >= 1 => n >= 1
           /\ DistinctSpanGroups(hits) >= 2 =>
                \E k \in 2..n : \A j \in 1..(k - 1), i \in k..n : ByStart(hits)[j].hi <= ByStart(hits)[i].lo
<1> DEFINE spans == ByStart(hits)
<1>0. hits \in [1..n -> Hits]
  BY DEF Signals
<1>1. \A x : (\E i \in 1..n : x = hits[i]) <=> (\E i \in 1..n : x = spans[i])
  BY <1>0, ByStartOrders
<1>2. \A i \in 1..n : spans[i].lo \in Nat /\ spans[i].hi \in Nat /\ spans[i].lo < spans[i].hi
  <2> SUFFICES ASSUME NEW i \in 1..n PROVE spans[i] \in Signals
    BY DEF Signals, Hits
  <2>1. PICK j \in 1..n : spans[i] = hits[j]
    BY <1>1
  <2> QED BY <2>1
<1>3. \A i, j \in 1..n : i < j => spans[i].lo <= spans[j].lo
  BY <1>0, ByStartOrders
<1>4. PICK f \in [0..n -> States] : /\ f[0] = NoGroup /\ DistinctSpanGroups(hits) = f[n].n
                                    /\ \A i \in 1..n : f[i] = Extend(f[i - 1], spans[i])
  BY <1>0, GroupsDefined
<1> HIDE DEF spans
<1> DEFINE Apart(i) == \E k \in 2..i : \A j \in 1..(k - 1) : spans[j].hi <= spans[k].lo
           Good(i) == /\ \A j \in 1..i : spans[j].hi <= f[i].end
                      /\ f[i].n >= 1 => i >= 1
                      /\ f[i].n >= 2 => Apart(i)
           E == {i \in Nat : i <= n => Good(i)}
<1>5. 0 \in E
  BY <1>4 DEF NoGroup
<1>6. ASSUME NEW i \in Nat, i \in E PROVE i + 1 \in E
  <2> SUFFICES ASSUME i + 1 <= n PROVE Good(i + 1)
    <3> HIDE DEF Good
    <3> QED OBVIOUS
  <2>0. Good(i)
    <3> HIDE DEF Good
    <3>1. i <= n
      OBVIOUS
    <3> QED BY <1>6, <3>1
  <2>1. i + 1 \in 1..n /\ (i + 1) - 1 = i /\ i \in 0..n /\ i + 1 \in 0..n
    OBVIOUS
  <2> DEFINE s == spans[i + 1]
             g == f[i]
  <2>2. f[i + 1] = Extend(g, s)
    BY <1>4, <2>1
  <2>3. s.lo \in Nat /\ s.hi \in Nat /\ s.lo < s.hi /\ g.n \in Nat /\ g.end \in Nat
    BY <1>2, <2>1 DEF States
  <2>4. \A j \in 1..i : spans[j].hi \in Nat /\ spans[j].hi <= g.end
    <3>1. \A j \in 1..i : j \in 1..n
      BY <2>1
    <3> QED BY <1>2, <2>0, <3>1
  <2>5. \A j \in 1..(i + 1) : j \in 1..i \/ j = i + 1
    OBVIOUS
  <2>6. CASE s.lo < g.end
    <3>1. f[i + 1] = [g EXCEPT !.end = IF s.hi > g.end THEN s.hi ELSE g.end]
      BY <2>2, <2>6, Zenon DEF Extend
    <3>2. DOMAIN g = {"n", "end"}
      BY <2>1 DEF States
    <3>3. f[i + 1].n = g.n /\ f[i + 1].end = IF s.hi > g.end THEN s.hi ELSE g.end
      BY <3>1, <3>2
    <3>4. f[i + 1].n >= 2 => Apart(i + 1)
      <4> SUFFICES ASSUME f[i + 1].n >= 2 PROVE Apart(i + 1)
        OBVIOUS
      <4>1. Apart(i)
        BY <2>0, <3>3
      <4>2. PICK k \in 2..i : \A j \in 1..(k - 1) : spans[j].hi <= spans[k].lo
        BY <4>1
      <4>3. k \in 2..(i + 1)
        OBVIOUS
      <4> QED BY <4>2, <4>3
    <3>5. \A j \in 1..(i + 1) : spans[j].hi <= f[i + 1].end
      <4> SUFFICES ASSUME NEW j \in 1..(i + 1) PROVE spans[j].hi <= f[i + 1].end
        OBVIOUS
      <4>1. CASE j \in 1..i
        BY <2>3, <2>4, <3>3, <4>1
      <4>2. CASE j = i + 1
        BY <2>3, <3>3, <4>2
      <4> QED BY <2>5, <4>1, <4>2
    <3> HIDE DEF Apart
    <3> QED BY <3>4, <3>5
  <2>7. CASE ~(s.lo < g.end)
    <3>1. f[i + 1] = [n |-> g.n + 1, end |-> s.hi]
      BY <2>2, <2>7, Zenon DEF Extend
    <3>2. f[i + 1].n = g.n + 1 /\ f[i + 1].end = s.hi
      BY <3>1
    <3>3. \A j \in 1..i : spans[j].hi <= s.lo
      BY <2>3, <2>4, <2>7
    <3>4. f[i + 1].n >= 2 => Apart(i + 1)
      <4> SUFFICES ASSUME f[i + 1].n >= 2 PROVE Apart(i + 1)
        OBVIOUS
      <4>1. i >= 1
        BY <2>0, <2>3, <3>2
      <4>2. i + 1 \in 2..(i + 1)
        BY <4>1
      <4> QED BY <2>1, <3>3, <4>2
    <3>5. \A j \in 1..(i + 1) : spans[j].hi <= f[i + 1].end
      <4> SUFFICES ASSUME NEW j \in 1..(i + 1) PROVE spans[j].hi <= f[i + 1].end
        OBVIOUS
      <4>1. CASE j \in 1..i
        BY <2>3, <2>4, <3>2, <3>3, <4>1
      <4>2. CASE j = i + 1
        BY <2>3, <3>2, <4>2
      <4> QED BY <2>5, <4>1, <4>2
    <3> HIDE DEF Apart
    <3> QED BY <3>4, <3>5
  <2> QED BY <2>6, <2>7
<1>7. Good(n)
  <2> HIDE DEF E, Good
  <2>1. n \in E
    BY <1>5, <1>6, InductiveSet
  <2>2. n <= n
    OBVIOUS
  <2> QED BY <2>1, <2>2 DEF E
<1>8. f[n].n \in Nat
  <2>1. f[n] \in States
    OBVIOUS
  <2> QED BY <2>1 DEF States
<1>9. ASSUME f[n].n >= 2
      PROVE  \E k \in 2..n : \A j \in 1..(k - 1), i \in k..n : spans[j].hi <= spans[i].lo
  <2>1. PICK k \in 2..n : \A j \in 1..(k - 1) : spans[j].hi <= spans[k].lo
    BY <1>7, <1>9
  <2>2. ASSUME NEW j \in 1..(k - 1), NEW i \in k..n PROVE spans[j].hi <= spans[i].lo
    <3>1. j \in 1..n /\ i \in 1..n /\ k \in 1..n /\ (i = k \/ k < i)
      OBVIOUS
    <3>2. spans[k].lo <= spans[i].lo
      BY <1>2, <1>3, <3>1
    <3>3. spans[j].hi <= spans[k].lo
      BY <2>1
    <3> QED BY <1>2, <3>1, <3>2, <3>3
  <2> QED BY <2>2
<1> QED BY <1>4, <1>7, <1>8, <1>9 DEF spans

-----------------------------------------------------------------------------
(* The behaviours of a command.                                            *)

\* An isolated set of spans has a least one inside.
LEMMA LeastIsolated ==
    ASSUME NEW spans, NEW S, IsFiniteSet(S), Isolated(S, spans)
    PROVE  \E R \in SUBSET S : Isolated(R, spans) /\ \A Q \in (SUBSET R) \ {R} : ~Isolated(Q, spans)
<1> DEFINE Sizes == {Cardinality(R) : R \in {R \in SUBSET S : Isolated(R, spans)}}
<1>1. Sizes \subseteq Nat /\ Sizes # {}
  <2>1. \A R \in SUBSET S : Cardinality(R) \in Nat
    BY FS_Subset, FS_CardinalityType
  <2>2. Cardinality(S) \in Sizes
    OBVIOUS
  <2> QED BY <2>1, <2>2
<1>2. PICK m \in Sizes : \A y \in Sizes : m <= y
  <2> HIDE DEF Sizes
  <2> QED BY <1>1, Least
<1>3. PICK R \in SUBSET S : Isolated(R, spans) /\ m = Cardinality(R)
  BY <1>2
<1>4. ASSUME NEW Q \in (SUBSET R) \ {R}, Isolated(Q, spans) PROVE FALSE
  <2>1. IsFiniteSet(R) /\ Q \subseteq R /\ Q # R
    BY FS_Subset
  <2>2. Cardinality(Q) \in Nat /\ Cardinality(R) \in Nat /\ Cardinality(Q) < Cardinality(R)
    <3>1. IsFiniteSet(Q) /\ Cardinality(Q) <= Cardinality(R) /\ (Cardinality(Q) = Cardinality(R) => Q = R)
      BY <2>1, FS_Subset
    <3>2. Cardinality(Q) \in Nat /\ Cardinality(R) \in Nat
      BY <2>1, <3>1, FS_CardinalityType
    <3> QED BY <2>1, <3>1, <3>2
  <2>3. Cardinality(Q) \in Sizes
    BY <1>4
  <2>4. m <= Cardinality(Q)
    BY <1>2, <2>3
  <2> QED BY <1>3, <2>2, <2>4
<1> QED BY <1>3, <1>4

\* There is a behaviour if there is a span, and there are two if the spans fall
\* into two parts.
LEMMA BehavioursCounted ==
    ASSUME NEW spans, IsFiniteSet(spans)
    PROVE  /\ Behaviours(spans) \in Nat
           /\ spans # {} => Behaviours(spans) >= 1
           /\ \A S, T \in SUBSET spans :
                Isolated(S, spans) /\ Isolated(T, spans) /\ S \cap T = {} => Behaviours(spans) >= 2
<1> DEFINE IsLeast(S) == Isolated(S, spans) /\ \A R \in (SUBSET S) \ {S} : ~Isolated(R, spans)
           B == {S \in SUBSET spans : IsLeast(S)}
<1>1. Behaviours(spans) = Cardinality(B)
  BY DEF Behaviours
<1>2. IsFiniteSet(B)
  <2>1. IsFiniteSet(SUBSET spans)
    BY FS_SUBSET
  <2> QED BY <2>1, FS_Subset, Zenon
<1>3. \A S \in SUBSET spans : Isolated(S, spans) => \E R \in SUBSET S : R \in B
  <2> SUFFICES ASSUME NEW S \in SUBSET spans, Isolated(S, spans) PROVE \E R \in SUBSET S : R \in B
    OBVIOUS
  <2>1. IsFiniteSet(S)
    BY FS_Subset
  <2>2. \E R \in SUBSET S : IsLeast(R)
    BY <2>1, LeastIsolated, Zenon
  <2> HIDE DEF IsLeast
  <2> QED BY <2>2
<1>4. \A R \in B : R # {}
  BY DEF Isolated
<1> HIDE DEF B
<1>5. Cardinality(B) \in Nat
  BY <1>2, FS_CardinalityType
<1>6. ASSUME spans # {} PROVE Behaviours(spans) >= 1
  <2>1. Isolated(spans, spans)
    BY <1>6 DEF Isolated
  <2>2. B # {}
    BY <1>3, <2>1
  <2>3. Cardinality(B) # 0
    BY <1>2, <2>2, FS_EmptySet
  <2> QED BY <1>1, <1>5, <2>3
<1>7. ASSUME NEW S \in SUBSET spans, NEW T \in SUBSET spans,
             Isolated(S, spans), Isolated(T, spans), S \cap T = {}
      PROVE  Behaviours(spans) >= 2
  <2>1. PICK R \in SUBSET S : R \in B
    BY <1>3, <1>7
  <2>2. PICK Q \in SUBSET T : Q \in B
    BY <1>3, <1>7
  <2>3. R # Q
    BY <1>4, <1>7, <2>1, <2>2
  <2>4. IsFiniteSet(B \ {R}) /\ Cardinality(B \ {R}) = Cardinality(B) - 1
    BY <1>2, <2>1, FS_RemoveElement
  <2>5. Cardinality(B \ {R}) # 0 /\ Cardinality(B \ {R}) \in Nat
    <3>1. B \ {R} # {}
      BY <2>2, <2>3
    <3> QED BY <2>4, <3>1, FS_EmptySet, FS_CardinalityType
  <2> QED BY <1>1, <1>5, <2>4, <2>5
<1> QED BY <1>1, <1>5, <1>6, <1>7

\* distinct_span_groups never finds more than one signal in one behaviour.
LEMMA GroupsAreBehaviours ==
    ASSUME NEW n \in Nat, NEW hits \in [1..n -> Signals], Len(hits) = n,
           NEW spans, spans = {[lo |-> hits[i].lo, hi |-> hits[i].hi] : i \in 1..n}
    PROVE  /\ IsFiniteSet(spans) /\ DistinctSpanGroups(hits) \in Nat
           /\ DistinctSpanGroups(hits) >= 1 => Behaviours(spans) >= 1
           /\ DistinctSpanGroups(hits) >= 2 => Behaviours(spans) >= 2
<1> DEFINE order == ByStart(hits)
           d == DistinctSpanGroups(hits)
           Span(h) == [lo |-> h.lo, hi |-> h.hi]
<1>1. /\ d \in Nat
      /\ d >= 1 => n >= 1
      /\ d >= 2 => \E k \in 2..n : \A j \in 1..(k - 1), i \in k..n : order[j].hi <= order[i].lo
  BY GroupsLieApart
<1>2. \A x : (\E i \in 1..n : x = hits[i]) <=> (\E i \in 1..n : x = order[i])
  <2>1. hits \in [1..n -> Hits]
    BY DEF Signals
  <2> QED BY <2>1, ByStartOrders
<1> HIDE DEF order, d
<1>3. \A i \in 1..n : order[i].lo \in Nat /\ order[i].hi \in Nat /\ order[i].lo < order[i].hi
  <2> SUFFICES ASSUME NEW i \in 1..n PROVE order[i] \in Signals
    BY DEF Signals, Hits
  <2>1. PICK j \in 1..n : order[i] = hits[j]
    BY <1>2
  <2> QED BY <2>1
<1>4. spans = {Span(order[i]) : i \in 1..n}
  <2>1. ASSUME NEW i \in 1..n PROVE \E j \in 1..n : Span(hits[i]) = Span(order[j])
    <3>1. PICK j \in 1..n : hits[i] = order[j]
      BY <1>2
    <3> QED BY <3>1
  <2>2. ASSUME NEW i \in 1..n PROVE \E j \in 1..n : Span(order[i]) = Span(hits[j])
    <3>1. PICK j \in 1..n : order[i] = hits[j]
      BY <1>2
    <3> QED BY <3>1
  <2>3. spans = {Span(hits[i]) : i \in 1..n}
    OBVIOUS
  <2> HIDE DEF Span
  <2>4. ASSUME NEW x \in spans PROVE x \in {Span(order[i]) : i \in 1..n}
    <3>1. PICK i \in 1..n : x = Span(hits[i])
      BY <2>3
    <3>2. PICK j \in 1..n : Span(hits[i]) = Span(order[j])
      BY <2>1
    <3> QED BY <3>1, <3>2
  <2>5. ASSUME NEW x \in {Span(order[i]) : i \in 1..n} PROVE x \in spans
    <3>1. PICK i \in 1..n : x = Span(order[i])
      OBVIOUS
    <3>2. PICK j \in 1..n : Span(order[i]) = Span(hits[j])
      BY <2>2
    <3> QED BY <2>3, <3>1, <3>2
  <2> QED BY <2>4, <2>5
<1>5. IsFiniteSet(spans)
  <2>1. [i \in 1..n |-> Span(order[i])] \in Surjection(1..n, spans)
    <3> HIDE DEF Span
    <3> QED BY <1>4 DEF Surjection
  <2>2. IsFiniteSet(1..n)
    BY FS_Interval
  <2> QED BY <2>1, <2>2, FS_Surjection
<1>6. n >= 1 => spans # {}
  <2>1. n >= 1 => 1 \in 1..n
    OBVIOUS
  <2> HIDE DEF Span
  <2> QED BY <1>4, <2>1
<1>7. ASSUME d >= 2 PROVE Behaviours(spans) >= 2
  <2>1. PICK k \in 2..n : \A j \in 1..(k - 1), i \in k..n : order[j].hi <= order[i].lo
    BY <1>1, <1>7
  <2> DEFINE S == {Span(order[j]) : j \in 1..(k - 1)}
             T == {Span(order[i]) : i \in k..n}
  <2>2. 1..(k - 1) \subseteq 1..n /\ k..n \subseteq 1..n /\ 1 \in 1..(k - 1) /\ n \in k..n
    OBVIOUS
  <2>3. S \subseteq spans /\ T \subseteq spans /\ S # {} /\ T # {}
    <3> HIDE DEF Span
    <3>1. S \subseteq spans
      BY <1>4, <2>2
    <3>2. T \subseteq spans
      BY <1>4, <2>2
    <3>3. Span(order[1]) \in S /\ Span(order[n]) \in T
      BY <2>2
    <3> HIDE DEF S, T
    <3> QED BY <3>1, <3>2, <3>3
  <2>4. spans = S \cup T
    <3>1. \A i \in 1..n : i \in 1..(k - 1) \/ i \in k..n
      OBVIOUS
    <3>2. \A x \in spans : x \in S \/ x \in T
      <4> HIDE DEF Span
      <4> QED BY <1>4, <3>1
    <3> HIDE DEF S, T
    <3> QED BY <2>3, <3>2
  <2>5. ASSUME NEW a \in S, NEW b \in T PROVE a # b /\ ~Overlap(a, b) /\ ~Overlap(b, a)
    <3>1. PICK j \in 1..(k - 1) : a = Span(order[j])
      OBVIOUS
    <3>2. PICK i \in k..n : b = Span(order[i])
      OBVIOUS
    <3>3. a.lo = order[j].lo /\ a.hi = order[j].hi /\ b.lo = order[i].lo /\ b.hi = order[i].hi
      BY <3>1, <3>2
    <3>4. a.lo \in Nat /\ a.hi \in Nat /\ b.lo \in Nat /\ b.hi \in Nat /\ a.lo < a.hi /\ b.lo < b.hi
      BY <1>3, <2>2, <3>3
    <3>5. a.hi <= b.lo
      BY <2>1, <3>3
    <3> QED BY <3>4, <3>5 DEF Overlap
  <2> HIDE DEF S, T
  <2>6. Isolated(S, spans) /\ Isolated(T, spans) /\ S \cap T = {}
    BY <2>3, <2>4, <2>5 DEF Isolated
  <2> QED BY <1>5, <2>3, <2>6, BehavioursCounted
<1>8. ASSUME d >= 1 PROVE Behaviours(spans) >= 1
  <2>1. spans # {}
    BY <1>1, <1>6, <1>8
  <2> QED BY <1>5, <2>1, BehavioursCounted
<1>9. d = DistinctSpanGroups(hits)
  BY DEF d
<1> QED BY <1>1, <1>5, <1>7, <1>8, <1>9

-----------------------------------------------------------------------------
(* The confidence of several hits.                                         *)

\* A percent is a whole number of parts.
LEMMA Units ==
    \E w \in Nat : Unit = 100 * w /\ \A n : Percent(n) = n * w
<1>1. Unit \div 100 = 10000 /\ Unit = 100 * 10000
  BY SMT DEF Unit
<1>2. \A n : Percent(n) = n * 10000
  BY <1>1 DEF Percent
<1> QED BY <1>1, <1>2, SMT

\* What a hit leaves open is no more than was open before, and after one of the
\* first tier it is at most 0.4.
LEMMA MissShrinks ==
    ASSUME NEW m \in 0..Unit, NEW h \in Hits
    PROVE  LET left == (m * (100 - h.conf)) \div 100
           IN left \in 0..m /\ (h.conf >= 60 => left <= Percent(40))
<1> DEFINE d == 100 - h.conf
           left == (m * d) \div 100
<1>0. PICK w \in Nat : Unit = 100 * w /\ Percent(40) = 40 * w
  BY Units
<1>1. d \in 0..100 /\ (h.conf >= 60 => d \in 0..40) /\ m \in Nat /\ m <= 100 * w
  BY <1>0 DEF Hits
<1> HIDE DEF d
<1>2. m * d \in Nat /\ m * d <= m * 100
  BY <1>1
<1>3. left \in Nat /\ left * 100 <= m * d
  BY <1>2
<1>4. d \in 0..40 => m * d <= 4000 * w
  <2> SUFFICES ASSUME d \in 0..40 PROVE m * d <= 4000 * w
    OBVIOUS
  <2>1. m * d <= m * 40
    BY <1>1
  <2> QED BY <1>0, <1>1, <1>2, <2>1
<1> HIDE DEF left
<1>5. left <= m
  BY <1>1, <1>2, <1>3
<1>6. d \in 0..40 => left <= 40 * w
  BY <1>0, <1>2, <1>3, <1>4
<1>7. left \in 0..m /\ (h.conf >= 60 => left <= Percent(40))
  BY <1>0, <1>1, <1>3, <1>5, <1>6
<1> QED BY <1>7 DEF left, d

\* combined_confidence is at least that of any of the hits that is one of the
\* first tier.
LEMMA ConfidenceGrows ==
    ASSUME NEW n \in Nat, NEW hits \in [1..n -> Hits], Len(hits) = n
    PROVE  /\ CombinedConfidence(hits) \in 0..Unit
           /\ (\E i \in 1..n : hits[i].conf >= 60) => CombinedConfidence(hits) >= Percent(60)
<1> DEFINE V == 0..Unit
           Left(i, m) == (m * (100 - hits[i].conf)) \div 100
           step == [x \in (1..n) \X V |-> Left(x[1], x[2])]
<1>1. \A i \in 1..n, m \in V : Left(i, m) \in 0..m /\ (hits[i].conf >= 60 => Left(i, m) <= Percent(40))
  BY MissShrinks
<1>2. Unit \in V /\ Unit \in Nat /\ Percent(40) \in Nat /\ Percent(60) = Unit - Percent(40)
  <2>1. PICK w \in Nat : Unit = 100 * w /\ \A m : Percent(m) = m * w
    BY Units
  <2>2. Percent(40) = 40 * w /\ Percent(60) = 60 * w
    BY <2>1
  <2> QED BY <2>1, <2>2
<1> HIDE DEF Left
<1>3. step \in [(1..n) \X V -> V]
  <2>1. \A i \in 1..n, m \in V : Left(i, m) \in V
    BY <1>1, <1>2
  <2> HIDE DEF V
  <2> QED BY <2>1
<1>4. \A i \in 1..n, m \in V : step[<<i, m>>] = Left(i, m)
  <2> HIDE DEF V
  <2> QED OBVIOUS
<1> HIDE DEF step
<1>5. PICK f \in [0..n -> V] : f[0] = Unit /\ \A i \in 1..n : f[i] = step[<<i, f[i - 1]>>]
  <2> HIDE DEF V
  <2>1. IsStep(step, n, V)
    BY <1>3 DEF IsStep
  <2>2. \E f : IsRun(f, n, V, Unit, step)
    BY <1>2, <2>1, Recursion
  <2> QED BY <2>2 DEF IsRun
<1>6. ASSUME NEW i \in 1..n PROVE f[i - 1] \in V /\ f[i] = Left(i, f[i - 1])
  <2> HIDE DEF V
  <2>1. i - 1 \in 0..n
    OBVIOUS
  <2>2. f[i - 1] \in V
    BY <2>1
  <2> QED BY <1>4, <1>5, <2>2
<1> DEFINE F(g) == [i \in 0..n |-> IF i = 0 THEN Unit ELSE Left(i, g[i - 1])]
           a == CHOOSE a : a = F(a)
<1>7. f = F(f)
  <2>1. \A i \in 0..n : f[i] = IF i = 0 THEN Unit ELSE Left(i, f[i - 1])
    <3>1. \A i \in 0..n : i # 0 => i \in 1..n
      OBVIOUS
    <3> QED BY <1>5, <1>6, <3>1
  <2> QED BY <2>1
<1>8. a = F(a)
  <2> HIDE DEF F
  <2> QED BY <1>7
<1>9. CombinedConfidence(hits) = Unit - a[n]
  BY DEF CombinedConfidence, Left
<1> HIDE DEF a
<1>10. \A i \in 0..n : a[i] = IF i = 0 THEN Unit ELSE Left(i, a[i - 1])
  BY <1>8
<1> DEFINE E == {i \in Nat : i <= n => a[i] = f[i] /\ ((\E j \in 1..i : hits[j].conf >= 60) => f[i] <= Percent(40))}
<1>11. 0 \in E
  BY <1>5, <1>10
<1>12. ASSUME NEW k \in Nat, k \in E PROVE k + 1 \in E
  <2> SUFFICES ASSUME k + 1 <= n
               PROVE  /\ a[k + 1] = f[k + 1]
                      /\ (\E j \in 1..(k + 1) : hits[j].conf >= 60) => f[k + 1] <= Percent(40)
    OBVIOUS
  <2>1. /\ k + 1 \in 1..n /\ k + 1 \in 0..n /\ (k + 1) - 1 = k /\ k + 1 # 0
        /\ a[k] = f[k] /\ ((\E j \in 1..k : hits[j].conf >= 60) => f[k] <= Percent(40))
    BY <1>12
  <2>2. a[k + 1] = Left(k + 1, a[k])
    BY <1>10, <2>1
  <2>3. f[k] \in V /\ f[k + 1] = Left(k + 1, f[k])
    BY <1>6, <2>1
  <2>4. f[k + 1] \in 0..f[k] /\ (hits[k + 1].conf >= 60 => f[k + 1] <= Percent(40))
    BY <1>1, <2>1, <2>3
  <2>5. ASSUME NEW j \in 1..(k + 1), hits[j].conf >= 60 PROVE f[k + 1] <= Percent(40)
    <3>1. CASE j = k + 1
      BY <2>4, <2>5, <3>1
    <3>2. CASE j # k + 1
      <4>1. j \in 1..k
        BY <3>2
      <4>2. f[k] <= Percent(40)
        BY <2>1, <2>5, <4>1
      <4> QED BY <1>2, <2>3, <2>4, <4>2
    <3> QED BY <3>1, <3>2
  <2> QED BY <2>1, <2>2, <2>3, <2>5
<1>13. a[n] = f[n] /\ ((\E j \in 1..n : hits[j].conf >= 60) => f[n] <= Percent(40))
  <2> HIDE DEF E
  <2>1. n \in E
    BY <1>11, <1>12, InductiveSet
  <2> QED BY <2>1 DEF E
<1>14. f[n] \in V
  OBVIOUS
<1> QED BY <1>2, <1>9, <1>13, <1>14

-----------------------------------------------------------------------------
(* The hits of the two tiers.                                              *)

LEMMA HitType ==
    ASSUME NEW span \in Matches \cup {NoSpan}, NEW conf \in 0..100
    PROVE  Hit(span, conf) \in Hits
BY DEF Matches, NoSpan, Hit, Hits

LEMMA SignalType ==
    ASSUME NEW span \in Matches, NEW conf \in 60..100
    PROVE  Hit(span, conf) \in Signals
BY DEF Matches, Hit, Hits, Signals

\* A hit of the first tier has an extent, is at least 0.6 sure, and warns.
LEMMA ClassifyAllSignals ==
    ASSUME NEW c, IsCommand(c)
    PROVE  ClassifyAll(c) \in Seq(Signals)
<1>1. 60 \in 60..100 /\ 90 \in 60..100 /\ 100 \in 60..100
  OBVIOUS
<1> DEFINE urls == [i \in DOMAIN c.urls |-> Hit(c.urls[i], 90)]
           atoms == [i \in DOMAIN c.atoms |-> Hit(c.atoms[i], 60)]
           npm == c.npm # NoSpan /\ Range(Names(c.tail)) \cap FlaggedPackages # {}
           bash == c.bash # NoSpan /\ c.arg_len >= 40 /\ c.base64 >= 90
           s1 == IF c.curl # NoSpan THEN <<Hit(c.curl, 100)>> ELSE <<>>
           s3 == IF npm THEN <<Hit(c.npm, 100)>> ELSE <<>>
           s4 == IF bash THEN <<Hit(c.bash, 100)>> ELSE <<>>
<1>2. ASSUME NEW q \in Seq(Matches), NEW conf \in 60..100
      PROVE  [i \in DOMAIN q |-> Hit(q[i], conf)] \in Seq(Signals)
  <2>1. Len(q) \in Nat /\ DOMAIN q = 1..Len(q)
    OBVIOUS
  <2>2. ASSUME NEW i \in 1..Len(q) PROVE Hit(q[i], conf) \in Signals
    <3>1. q[i] \in Matches
      BY <2>1
    <3> QED BY <3>1, SignalType
  <2>3. [i \in 1..Len(q) |-> Hit(q[i], conf)] \in [1..Len(q) -> Signals]
    BY <2>2
  <2> QED BY <2>1, <2>3, SeqDef
<1>3. urls \in Seq(Signals) /\ atoms \in Seq(Signals)
  BY <1>1, <1>2 DEF IsCommand
<1>4. s1 \in Seq(Signals)
  <2>1. c.curl # NoSpan => Hit(c.curl, 100) \in Signals
    BY <1>1, SignalType DEF IsCommand
  <2> QED BY <2>1
<1>5. s3 \in Seq(Signals)
  <2>1. npm => Hit(c.npm, 100) \in Signals
    BY <1>1, SignalType DEF IsCommand
  <2> HIDE DEF npm
  <2> QED BY <2>1
<1>6. s4 \in Seq(Signals)
  <2>1. bash => Hit(c.bash, 100) \in Signals
    BY <1>1, SignalType DEF IsCommand
  <2> HIDE DEF bash
  <2> QED BY <2>1
<1>7. ClassifyAll(c) = s1 \o urls \o s3 \o s4 \o atoms
  BY DEF ClassifyAll
<1> HIDE DEF s1, urls, s3, s4, atoms
<1>8. s1 \o urls \in Seq(Signals)
  BY <1>3, <1>4
<1>9. s1 \o urls \o s3 \in Seq(Signals)
  BY <1>5, <1>8
<1>10. s1 \o urls \o s3 \o s4 \in Seq(Signals)
  BY <1>6, <1>9
<1> QED BY <1>3, <1>7, <1>10

\* A finite set is listed by SetToSeq.
LEMMA SetToSeqType ==
    ASSUME NEW S, IsFiniteSet(S)
    PROVE  SetToSeq(S) \in Seq(S) /\ IsInjective(SetToSeq(S))
<1> DEFINE n == Cardinality(S)
<1>1. n \in Nat /\ ExistsBijection(1..n, S)
  BY FS_CardinalityType
<1>2. \E f \in [1..n -> S] : IsInjective(f)
  BY <1>1 DEF ExistsBijection, Bijection, Injection, IsInjective
<1>3. SetToSeq(S) \in [1..n -> S] /\ IsInjective(SetToSeq(S))
  BY <1>2 DEF SetToSeq
<1> QED BY <1>1, <1>3, SeqDef

\* The hits of the second tier.
LEMMA Tier2Type ==
    ASSUME NEW k \in Configs, NEW c, IsCommand(c)
    PROVE  Tier2(k, c) \in Seq(Hits)
<1>1. NoSpan \in Matches \cup {NoSpan}
  OBVIOUS
<1>2. Heuristic(c) \in Seq(Hits)
  <2> DEFINE conf == CASE "process_substitution" \in c.shapes -> 85
                       [] "insecure_tls" \in c.shapes -> 70
                       [] "ip_address" \in c.shapes -> 60
                       [] "chmod_then_run" \in c.shapes -> 75
                       [] OTHER -> 0
  <2>1. conf \in 0..100
    OBVIOUS
  <2> HIDE DEF conf
  <2>2. (IF conf = 0 THEN <<>> ELSE <<Hit(NoSpan, conf)>>) \in Seq(Hits)
    <3>1. Hit(NoSpan, conf) \in Hits
      BY <1>1, <2>1, HitType
    <3> QED BY <3>1
  <2> USE DEF conf
  <2> QED BY <2>2 DEF Heuristic
<1>3. Onnx(k, c) \in Seq(Hits)
  <2> DEFINE flagged == {p \in c.harmful : p >= k.onnx_block \/ p >= k.onnx_warn}
             Verdict(p) == IF p >= k.onnx_block THEN "block" ELSE "warn"
             F(p) == [Hit(NoSpan, p) EXCEPT !.verdict = Verdict(p)]
             S == {F(p) : p \in flagged}
  <2>1. IsFiniteSet(flagged) /\ flagged \subseteq 0..100
    <3>1. IsFiniteSet(c.harmful) /\ flagged \subseteq c.harmful /\ c.harmful \subseteq 0..100
      BY DEF IsCommand
    <3> QED BY <3>1, FS_Subset
  <2>2. ASSUME NEW p \in flagged PROVE F(p) \in Hits
    <3>1. p \in 0..100 /\ Verdict(p) \in {"warn", "block"}
      BY <2>1
    <3> HIDE DEF Verdict
    <3> QED BY <3>1, <1>1 DEF Hit, Hits, NoSpan
  <2> HIDE DEF flagged, F
  <2>3. IsFiniteSet(S)
    <3>1. [p \in flagged |-> F(p)] \in Surjection(flagged, S)
      BY DEF Surjection
    <3> QED BY <3>1, <2>1, FS_Surjection
  <2>4. SetToSeq(S) \in Seq(S) /\ S \subseteq Hits
    BY <2>2, <2>3, SetToSeqType
  <2>5. SetToSeq(S) \in Seq(Hits)
    <3> HIDE DEF S
    <3> QED BY <2>4
  <2> USE DEF flagged, F
  <2> QED BY <2>5 DEF Onnx
<1>4. k.backend \in {"stub", "heuristic", "onnx"}
  BY ClassifyAssumption
<1> QED BY <1>2, <1>3, <1>4 DEF Tier2

\* No opinion of the second tier is counted twice.
LEMMA OpinionsCounted ==
    ASSUME NEW k \in Configs, NEW c, IsCommand(c)
    PROVE  /\ IsFiniteSet(Range(Tier2(k, c)))
           /\ Cardinality(Range(Tier2(k, c))) = Len(Tier2(k, c))
<1> DEFINE said == Tier2(k, c)
<1>1. said \in Seq(Hits)
  BY Tier2Type
<1>2. IsInjective(said)
  <2>1. IsInjective(<<>>)
    BY DEF IsInjective
  <2>2. IsInjective(Heuristic(c))
    <3>1. \E x : Heuristic(c) = <<>> \/ Heuristic(c) = <<x>>
      BY Zenon DEF Heuristic
    <3>2. \A x : IsInjective(<<x>>)
      BY DEF IsInjective
    <3> QED BY <2>1, <3>1, <3>2
  <2>3. IsInjective(Onnx(k, c))
    <3> DEFINE flagged == {p \in c.harmful : p >= k.onnx_block \/ p >= k.onnx_warn}
               Verdict(p) == IF p >= k.onnx_block THEN "block" ELSE "warn"
               F(p) == [Hit(NoSpan, p) EXCEPT !.verdict = Verdict(p)]
               S == {F(p) : p \in flagged}
    <3>1. IsFiniteSet(flagged)
      <4>1. IsFiniteSet(c.harmful) /\ flagged \subseteq c.harmful
        BY DEF IsCommand
      <4> QED BY <4>1, FS_Subset
    <3> HIDE DEF flagged, F
    <3>2. IsFiniteSet(S)
      <4>1. [p \in flagged |-> F(p)] \in Surjection(flagged, S)
        BY DEF Surjection
      <4> QED BY <3>1, <4>1, FS_Surjection
    <3> HIDE DEF S
    <3>3. IsInjective(SetToSeq(S))
      BY <3>2, SetToSeqType
    <3> USE DEF flagged, F, S
    <3> QED BY <3>3 DEF Onnx
  <2>4. k.backend \in {"stub", "heuristic", "onnx"}
    BY ClassifyAssumption
  <2> QED BY <2>1, <2>2, <2>3, <2>4 DEF Tier2
<1> HIDE DEF said
<1>3. PICK n \in Nat : n = Len(said) /\ DOMAIN said = 1..n
  BY <1>1
<1>4. said \in Bijection(1..n, Range(said))
  <2>1. Range(said) = {said[i] : i \in 1..n} /\ said \in [1..n -> Range(said)]
    BY <1>1, <1>3 DEF Range
  <2>2. said \in Surjection(1..n, Range(said))
    BY <2>1 DEF Surjection
  <2>3. said \in Injection(1..n, Range(said))
    BY <1>2, <2>1 DEF Injection
  <2> QED BY <2>2, <2>3 DEF Bijection
<1>5. IsFiniteSet(1..n) /\ Cardinality(1..n) = n
  BY FS_Interval
<1>6. IsFiniteSet(Range(said)) /\ Cardinality(Range(said)) = n
  <2>1. said \in Surjection(1..n, Range(said)) /\ said \in Injection(1..n, Range(said))
    BY <1>4 DEF Bijection
  <2> QED BY <1>5, <2>1, FS_Surjection
<1> QED BY <1>3, <1>6 DEF said

\* Classifier::classify is right about any command: it makes a verdict, and one of
\* those that the command's behaviours allow.
LEMMA ClassifierIsRight ==
    ASSUME NEW k \in Configs, NEW c \in Commands[k]
    PROVE  ClassifyCommand(k, c) \in Verdicts /\ ClassifyCommand(k, c) \in Allowed(k, c)
<1>1. IsCommand(c)
  BY ClassifyAssumption
<1> DEFINE tier1 == ClassifyAll(c)
           said == Tier2(k, c)
           slm == SecondOpinion(k, c)
           spans == {[lo |-> h.lo, hi |-> h.hi] : h \in Range(tier1)}
           d == DistinctSpanGroups(tier1)
           threshold == BlockThreshold(k)
           v == ClassifyCommand(k, c)
           shown == Behaviours(spans) + Cardinality(Range(slm))
<1>2. tier1 \in Seq(Signals) /\ said \in Seq(Hits) /\ Signals \subseteq Hits
  BY <1>1, ClassifyAllSignals, Tier2Type DEF Signals
<1>3. v = CombineHits(tier1 \o slm, threshold, d + Len(slm))
  BY DEF ClassifyCommand
<1>4. Allowed(k, c) = {w \in Verdicts :
          /\ w = "block" => \/ threshold # 0 /\ shown >= 2
                            \/ \E o \in Range(slm) : o.verdict = "block"
          /\ w = "safe" => spans = {}
          /\ w # "safe" => shown > 0}
  BY DEF Allowed
<1>5. slm = said \/ slm = <<>>
  BY DEF SecondOpinion
<1> HIDE DEF tier1, said, slm, d, threshold, v
<1>6. PICK n \in Nat : n = Len(tier1) /\ tier1 \in [1..n -> Signals] /\ DOMAIN tier1 = 1..n
  BY <1>2
<1>7. slm \in Seq(Hits) /\ Len(slm) \in Nat /\ Len(slm) <= Len(said) /\ Len(said) \in Nat
  <2>1. Len(said) \in Nat
    BY <1>2
  <2>2. CASE slm = said
    BY <1>2, <2>1, <2>2
  <2>3. CASE slm = <<>>
    BY <2>1, <2>3
  <2> QED BY <1>5, <2>2, <2>3
<1>8. Cardinality(Range(slm)) = Len(slm)
  <2>1. Cardinality(Range(said)) = Len(said)
    BY <1>1, OpinionsCounted DEF said
  <2>2. Range(<<>>) = {} /\ Cardinality({}) = 0 /\ Len(<<>>) = 0
    BY FS_EmptySet DEF Range
  <2> QED BY <1>5, <2>1, <2>2
<1>9. spans = {[lo |-> tier1[i].lo, hi |-> tier1[i].hi] : i \in 1..n}
  BY <1>6 DEF Range
<1>10. /\ IsFiniteSet(spans) /\ d \in Nat
       /\ d >= 1 => Behaviours(spans) >= 1
       /\ d >= 2 => Behaviours(spans) >= 2
  <2> HIDE DEF spans
  <2> QED BY <1>6, <1>9, GroupsAreBehaviours DEF d
<1>11. n >= 1 <=> spans # {}
  <2> HIDE DEF spans
  <2>1. ASSUME n >= 1 PROVE spans # {}
    <3>1. 1 \in 1..n
      BY <2>1
    <3>2. [lo |-> tier1[1].lo, hi |-> tier1[1].hi] \in spans
      BY <1>9, <3>1
    <3> QED BY <3>2
  <2>2. ASSUME spans # {} PROVE n >= 1
    <3>1. PICK i \in 1..n : TRUE
      BY <1>9, <2>2
    <3> QED BY <3>1
  <2> QED BY <2>1, <2>2
<1> HIDE DEF spans
<1>12. Behaviours(spans) \in Nat /\ (n >= 1 => Behaviours(spans) >= 1)
  BY <1>10, <1>11, BehavioursCounted
<1> DEFINE hits == tier1 \o slm
<1>13. hits \in Seq(Hits) /\ (\A i \in 1..n : i \in DOMAIN hits /\ hits[i] = tier1[i])
       /\ Len(hits) = n + Len(slm) /\ DOMAIN hits = 1..(n + Len(slm))
       /\ (\A i \in (n + 1)..(n + Len(slm)) : hits[i] = slm[i - n])
  <2>1. tier1 \in Seq(Hits)
    BY <1>2
  <2> QED BY <1>6, <1>7, <2>1
<1> HIDE DEF hits
<1>14. /\ v \in Verdicts
       /\ v # "safe" => hits # <<>>
       /\ v = "safe" => hits = <<>> \/ CombinedConfidence(hits) < Percent(50)
       /\ v = "block" => \/ threshold # 0 /\ d + Len(slm) >= 2
                         \/ \E i \in DOMAIN hits : hits[i].verdict = "block"
  <2>1. PICK e : e = d + Len(slm)
    OBVIOUS
  <2>2. v = CombineHits(hits, threshold, e)
    BY <1>3, <2>1 DEF hits
  <2> QED BY <1>13, <2>1, <2>2, CombineHitsCases
<1>15. ASSUME v = "block" PROVE \/ threshold # 0 /\ shown >= 2
                                \/ \E o \in Range(slm) : o.verdict = "block"
  <2>1. CASE threshold # 0 /\ d + Len(slm) >= 2
    <3>1. Behaviours(spans) + Len(slm) >= 2
      BY <1>7, <1>10, <1>12, <2>1
    <3> QED BY <1>8, <2>1, <3>1
  <2>2. ASSUME NEW i \in DOMAIN hits, hits[i].verdict = "block"
        PROVE  \E o \in Range(slm) : o.verdict = "block"
    <3>1. i \notin 1..n
      <4> SUFFICES ASSUME i \in 1..n PROVE FALSE
        OBVIOUS
      <4>1. hits[i] \in Signals
        BY <1>6, <1>13
      <4> QED BY <2>2, <4>1 DEF Signals
    <3>2. i \in (n + 1)..(n + Len(slm))
      BY <1>7, <1>13, <3>1
    <3>3. hits[i] = slm[i - n] /\ i - n \in 1..Len(slm)
      BY <1>7, <1>13, <3>2
    <3>5. hits[i] \in Range(slm)
      BY <1>7, <3>3 DEF Range
    <3> QED BY <2>2, <3>5
  <2> QED BY <1>14, <1>15, <2>1, <2>2
<1>16. ASSUME v = "safe" PROVE spans = {}
  <2> SUFFICES ASSUME n >= 1 PROVE FALSE
    BY <1>11
  <2>1. hits # <<>> /\ 1 \in DOMAIN hits /\ hits[1].conf >= 60
    <3>1. 1 \in 1..n /\ tier1[1] \in Signals
      BY <1>6
    <3>2. 1 \in DOMAIN hits /\ hits[1] = tier1[1]
      BY <1>13, <3>1
    <3> QED BY <3>1, <3>2 DEF Signals
  <2>2. CombinedConfidence(hits) >= Percent(60) /\ CombinedConfidence(hits) \in 0..Unit
    <3>1. PICK l \in Nat : l = Len(hits) /\ hits \in [1..l -> Hits] /\ DOMAIN hits = 1..l
      BY <1>13
    <3> QED BY <2>1, <3>1, ConfidenceGrows
  <2>3. PICK w \in Nat : Unit = 100 * w /\ Percent(60) = 60 * w /\ Percent(50) = 50 * w
    BY Units
  <2>4. CombinedConfidence(hits) < Percent(50)
    BY <1>14, <1>16, <2>1
  <2> HIDE DEF hits
  <2> QED BY <2>2, <2>3, <2>4
<1>17. ASSUME v # "safe" PROVE shown > 0
  <2>1. n + Len(slm) >= 1
    <3>1. Len(hits) # 0
      BY <1>13, <1>14, <1>17
    <3> QED BY <1>7, <1>13, <3>1
  <2>2. Behaviours(spans) + Len(slm) > 0
    BY <1>7, <1>12, <2>1
  <2> QED BY <1>8, <2>2
<1> HIDE DEF shown
<1>18. v \in Allowed(k, c)
  BY <1>4, <1>14, <1>15, <1>16, <1>17
<1> QED BY <1>14, <1>18 DEF v

-----------------------------------------------------------------------------
(* The cache.                                                              *)

\* A non-empty cache has an oldest entry.
LEMMA OldestExists ==
    ASSUME NEW c, DOMAIN c # {}, \A p \in DOMAIN c : c[p].when \in Nat
    PROVE  \E o \in DOMAIN c : Oldest(c) = {o}
<1> DEFINE Whens == {c[p].when : p \in DOMAIN c}
<1>1. Whens \subseteq Nat /\ Whens # {}
  OBVIOUS
<1>2. PICK w \in Whens : \A y \in Whens : w <= y
  <2> HIDE DEF Whens
  <2> QED BY <1>1, Least
<1>3. \E p \in DOMAIN c : \A q \in DOMAIN c : c[p].when <= c[q].when
  BY <1>2
<1> QED BY <1>3 DEF Oldest

\* cache_set never exceeds the cap, changes no entry and adds only the new one,
\* and only under a name that is not too long.
LEMMA CacheSetBounded ==
    ASSUME CacheOK, NEW p \in Packages, NEW entry, NEW c, c = CacheSet(p, entry)
    PROVE  /\ DOMAIN c \subseteq Packages \ LongNames
           /\ IsFiniteSet(DOMAIN c) /\ Cardinality(DOMAIN c) <= MaxCache
           /\ \A q \in DOMAIN c : c[q] = entry \/ (q \in DOMAIN cache /\ c[q] = cache[q])
<1> DEFINE unexpired == IF Cardinality(DOMAIN cache) < MaxCache THEN DOMAIN cache
                        ELSE {q \in DOMAIN cache : Fresh(cache[q])}
           kept == Restrict(cache, unexpired)
           room == IF Cardinality(unexpired) < MaxCache THEN kept
                   ELSE Restrict(kept, unexpired \ Oldest(kept))
<1>1. CASE p \in LongNames
  <2>1. c = cache
    BY <1>1 DEF CacheSet
  <2> QED BY <2>1 DEF CacheOK
<1>2. CASE p \notin LongNames
  <2>1. c = Insert(room, p, entry)
    BY <1>2 DEF CacheSet
  <2>2. MaxCache \in Nat /\ MaxCache >= 1
    BY ClassifyAssumption
  <2>3. /\ unexpired \subseteq DOMAIN cache /\ IsFiniteSet(unexpired)
        /\ Cardinality(unexpired) \in Nat /\ Cardinality(unexpired) <= MaxCache
    <3>1. unexpired \subseteq DOMAIN cache
      OBVIOUS
    <3>2. IsFiniteSet(DOMAIN cache) /\ Cardinality(DOMAIN cache) <= MaxCache
      BY DEF CacheOK
    <3> HIDE DEF unexpired
    <3>3. IsFiniteSet(unexpired) /\ Cardinality(unexpired) <= Cardinality(DOMAIN cache)
      BY <3>1, <3>2, FS_Subset
    <3>4. Cardinality(unexpired) \in Nat /\ Cardinality(DOMAIN cache) \in Nat
      BY <3>2, <3>3, FS_CardinalityType
    <3> QED BY <2>2, <3>1, <3>2, <3>3, <3>4
  <2> HIDE DEF unexpired
  <2>4. DOMAIN kept = unexpired /\ \A q \in unexpired : kept[q] = cache[q]
    BY DEF Restrict
  <2> HIDE DEF kept
  <2>5. /\ DOMAIN room \subseteq unexpired /\ IsFiniteSet(DOMAIN room)
        /\ Cardinality(DOMAIN room) \in Nat /\ Cardinality(DOMAIN room) + 1 <= MaxCache
        /\ \A q \in DOMAIN room : room[q] = cache[q]
    <3>1. CASE Cardinality(unexpired) < MaxCache
      <4>1. room = kept
        BY <3>1
      <4> HIDE DEF room
      <4> QED BY <2>2, <2>3, <2>4, <3>1, <4>1
    <3>2. CASE ~(Cardinality(unexpired) < MaxCache)
      <4>1. room = Restrict(kept, unexpired \ Oldest(kept))
        BY <3>2
      <4>2. unexpired # {}
        BY <2>2, <2>3, <3>2, FS_EmptySet
      <4>3. ASSUME NEW q \in unexpired PROVE kept[q].when \in Nat
        <5>1. kept[q] = cache[q] /\ q \in DOMAIN cache
          BY <2>3, <2>4
        <5>2. cache[q].when \in 0..MaxTime
          BY <5>1 DEF CacheOK, EntryOK, Entries
        <5> QED BY <5>1, <5>2, ClassifyAssumption
      <4>4. PICK o \in unexpired : Oldest(kept) = {o}
        BY <2>4, <4>2, <4>3, OldestExists
      <4>5. /\ IsFiniteSet(unexpired \ {o})
            /\ Cardinality(unexpired \ {o}) = Cardinality(unexpired) - 1
        BY <2>3, FS_RemoveElement
      <4>6. DOMAIN room = unexpired \ {o} /\ \A q \in unexpired \ {o} : room[q] = kept[q]
        BY <4>1, <4>4 DEF Restrict
      <4>7. Cardinality(unexpired \ {o}) \in Nat
        BY <4>5, FS_CardinalityType
      <4> HIDE DEF room
      <4> QED BY <2>2, <2>3, <2>4, <4>5, <4>6, <4>7
    <3> QED BY <3>1, <3>2
  <2> HIDE DEF room
  <2>6. /\ DOMAIN c = {p} \cup DOMAIN room
        /\ \A q \in DOMAIN c : IF q = p THEN c[q] = entry ELSE c[q] = room[q]
    BY <2>1 DEF Insert
  <2>7. IsFiniteSet(DOMAIN c) /\ Cardinality(DOMAIN c) <= Cardinality(DOMAIN room) + 1
    <3>1. /\ IsFiniteSet(DOMAIN room \cup {p})
          /\ Cardinality(DOMAIN room \cup {p}) =
               IF p \in DOMAIN room THEN Cardinality(DOMAIN room) ELSE Cardinality(DOMAIN room) + 1
      BY <2>5, FS_AddElement
    <3>2. DOMAIN c = DOMAIN room \cup {p}
      BY <2>6
    <3> QED BY <2>5, <3>1, <3>2
  <2>8. Cardinality(DOMAIN c) \in Nat
    BY <2>7, FS_CardinalityType
  <2>9. DOMAIN cache \subseteq Packages \ LongNames
    BY DEF CacheOK
  <2>10. Cardinality(DOMAIN c) <= MaxCache
    BY <2>2, <2>5, <2>7, <2>8
  <2>11. DOMAIN c \subseteq Packages \ LongNames
    BY <1>2, <2>3, <2>5, <2>6, <2>9
  <2>12. \A q \in DOMAIN c : c[q] = entry \/ (q \in DOMAIN cache /\ c[q] = cache[q])
    BY <2>3, <2>5, <2>6
  <2> QED BY <2>7, <2>10, <2>11, <2>12
<1> QED BY <1>1, <1>2

-----------------------------------------------------------------------------
(* The steps of a request.                                                 *)

\* osv_probe_pkgs gives at most so many packages, and all of the first ones.
LEMMA ProbeBounded ==
    ASSUME NEW toks, Names(toks) \in Seq(Packages)
    PROVE  /\ OsvProbePkgs(toks) \in Seq(Packages) /\ Len(OsvProbePkgs(toks)) <= MaxProbed
           /\ Wanted(toks) \subseteq Range(OsvProbePkgs(toks))
<1>1. ASSUME NEW s \in Seq(Packages), NEW n \in Nat
      PROVE  /\ First(s, n) \in Seq(Packages) /\ Len(First(s, n)) <= n
             /\ \A i \in DOMAIN s : i <= n => i \in DOMAIN First(s, n) /\ First(s, n)[i] = s[i]
  <2> DEFINE m == IF Len(s) < n THEN Len(s) ELSE n
  <2>1. m \in Nat /\ m <= Len(s) /\ m <= n
    OBVIOUS
  <2> HIDE DEF m
  <2>2. /\ SubSeq(s, 1, m) \in Seq(Packages) /\ Len(SubSeq(s, 1, m)) = m
        /\ \A i \in 1..m : SubSeq(s, 1, m)[i] = s[i]
    BY <2>1, SubSeqProperties
  <2>3. ASSUME NEW i \in DOMAIN s, i <= n
        PROVE  i \in DOMAIN SubSeq(s, 1, m) /\ SubSeq(s, 1, m)[i] = s[i]
    <3>1. i \in 1..m
      BY <2>3 DEF m
    <3>2. DOMAIN SubSeq(s, 1, m) = 1..m
      BY <2>2
    <3> QED BY <2>2, <3>1, <3>2
  <2>4. First(s, n) = SubSeq(s, 1, m)
    BY DEF First, m
  <2> QED BY <2>1, <2>2, <2>3, <2>4
<1> DEFINE s == Names(toks)
           e == ExtractPkgs(toks)
           ps == OsvProbePkgs(toks)
<1>0. MaxParsed \in Nat /\ MaxProbed \in Nat /\ MaxProbed <= MaxParsed
  BY ClassifyAssumption
<1>2. e = First(s, MaxParsed) /\ ps = First(e, MaxProbed)
  BY DEF ExtractPkgs, OsvProbePkgs
<1> HIDE DEF e, ps, s
<1>3. /\ e \in Seq(Packages)
      /\ \A i \in DOMAIN s : i <= MaxParsed => i \in DOMAIN e /\ e[i] = s[i]
  BY <1>0, <1>1, <1>2 DEF s
<1>4. /\ ps \in Seq(Packages) /\ Len(ps) <= MaxProbed
      /\ \A i \in DOMAIN e : i <= MaxProbed => i \in DOMAIN ps /\ ps[i] = e[i]
  BY <1>0, <1>1, <1>2, <1>3
<1>5. ASSUME NEW i \in DOMAIN s, i <= MaxProbed PROVE s[i] \in Range(ps)
  <2>1. i \in Nat
    BY DEF s
  <2>2. i \in DOMAIN ps /\ ps[i] = s[i]
    BY <1>0, <1>3, <1>4, <1>5, <2>1
  <2> QED BY <2>2 DEF Range
<1>6. Wanted(toks) \subseteq Range(ps)
  BY <1>5 DEF Wanted, s
<1> QED BY <1>4, <1>6 DEF ps

\* The verdict w after v came to r; the signals T with v of b added to S.
Worse(w, r, v) == w = IF VerdictStrictlyWorse(r, v) THEN v ELSE r
Added(T, S, b, v) == T = S \cup {[by |-> b, says |-> v]}

\* Keeping what is strictly worse keeps the strictest signal; a block stays one.
LEMMA StrictestIsKept ==
    ASSUME NEW r \in Verdicts, NEW v \in Verdicts, NEW S \in SUBSET [by : Sources, says : Verdicts],
           Strictest(r, S), NEW b \in Sources,
           NEW w, Worse(w, r, v), NEW T, Added(T, S, b, v)
    PROVE  /\ w \in Verdicts /\ Strictest(w, T) /\ T \in SUBSET [by : Sources, says : Verdicts]
           /\ r = "block" => w = "block"
           /\ Early(S) => Early(T)
<1>1. \A x \in Verdicts : Rank[x] \in 0..2
  BY DEF Verdicts, Rank
<1>2. w \in Verdicts /\ Rank[v] <= Rank[w] /\ Rank[r] <= Rank[w] /\ w \in {r, v}
  BY <1>1 DEF Worse, VerdictStrictlyWorse
<1>3. r = "block" => w = "block"
  BY DEF Worse, Verdicts, VerdictStrictlyWorse, Rank
<1>4. \A s \in T : s.says = v \/ s \in S
  BY DEF Added
<1>5. \A s \in T : Rank[s.says] <= Rank[w]
  <2>1. \A s \in S : s.says \in Verdicts /\ Rank[s.says] <= Rank[r]
    BY DEF Strictest
  <2> QED BY <1>1, <1>2, <1>4, <2>1
<1>6. \E s \in T : s.says = w
  <2>1. CASE w = r
    BY <2>1 DEF Added, Strictest
  <2>2. CASE w = v
    <3>1. [by |-> b, says |-> v] \in T /\ [by |-> b, says |-> v].says = w
      BY <2>2 DEF Added
    <3> QED BY <3>1
  <2> QED BY <1>2, <2>1, <2>2
<1>7. Early(S) => Early(T)
  BY DEF Added, Early
<1>8. Strictest(w, T)
  BY <1>5, <1>6 DEF Strictest
<1>9. T \in SUBSET [by : Sources, says : Verdicts]
  BY DEF Added
<1> QED BY <1>2, <1>3, <1>7, <1>8, <1>9

\* The other threads are where they were.
OthersSame(t) ==
    \A s \in Threads \ {t} :
        /\ pc'[s] = pc[s] /\ req'[s] = req[s] /\ result'[s] = result[s] /\ consulted'[s] = consulted[s]
        /\ pkgs'[s] = pkgs[s] /\ asked'[s] = asked[s] /\ owed'[s] = owed[s]

\* A step of one thread is right if it leaves that thread right.
LEMMA OneThread ==
    ASSUME NEW t \in Threads, ThreadsOK, OthersSame(t), now' = now,
           ThreadOK(pc'[t], req'[t], result'[t], consulted'[t], pkgs'[t], asked'[t], owed'[t], now)
    PROVE  ThreadsOK'
<1>1. ASSUME NEW s \in Threads
      PROVE  ThreadOK(pc'[s], req'[s], result'[s], consulted'[s], pkgs'[s], asked'[s], owed'[s], now')
  <2>1. CASE s = t
    BY <2>1
  <2>2. CASE s # t
    <3>1. ThreadOK(pc[s], req[s], result[s], consulted[s], pkgs[s], asked[s], owed[s], now)
      BY DEF ThreadsOK
    <3> QED BY <2>2, <3>1 DEF OthersSame
  <2> QED BY <2>1, <2>2
<1> QED BY <1>1 DEF ThreadsOK

\* What the steps of a thread leave alone.
LEMMA WorldKept == ASSUME WorldOK, UNCHANGED worldVars PROVE WorldOK'
BY DEF WorldOK, worldVars, envVars

LEMMA CacheKept == ASSUME CacheOK, UNCHANGED <<cache, now>> PROVE CacheOK'
BY DEF CacheOK

\* A command names packages.
LEMMA WantedPackages ==
    ASSUME NEW i \in Installs
    PROVE  Names(i) \in Seq(Packages) /\ Wanted(i) \in SUBSET Packages
<1>1. PICK k \in Configs : \E c \in Commands[k] : i = c.install
  BY DEF Installs
<1>2. Names(i) \in Seq(Packages)
  BY <1>1, ClassifyAssumption DEF IsCommand
<1>3. \A j \in DOMAIN Names(i) : Names(i)[j] \in Packages
  BY <1>2
<1> QED BY <1>2, <1>3 DEF Wanted

LEMMA ReceiveKeeps ==
    ASSUME ClassifyInv, NEW t \in Threads, NEW c \in Classified, NEW by \in Callers, Receive(t, c, by)
    PROVE  ClassifyInv'
<1>1. c.verdict \in Verdicts /\ c.needles \subseteq Atoms /\ c.install \in Installs
  <2>1. PICK k \in Configs : \E d \in Commands[k] :
           c = [verdict |-> ClassifyCommand(k, d), allowed |-> Allowed(k, d),
                needles |-> d.needles, install |-> d.install]
    BY DEF Classified
  <2>2. PICK d \in Commands[k] :
           c = [verdict |-> ClassifyCommand(k, d), allowed |-> Allowed(k, d),
                needles |-> d.needles, install |-> d.install]
    BY <2>1
  <2>3. IsCommand(d)
    BY ClassifyAssumption
  <2>4. d.install \in Installs
    BY DEF Installs
  <2>5. ClassifyCommand(k, d) \in Verdicts /\ d.needles \subseteq Atoms
    BY <2>3, ClassifierIsRight DEF IsCommand
  <2> QED BY <2>2, <2>4, <2>5
<1>2. by.uid \in Uids /\ by.pid \in Pids \cup {NoPid}
  BY ClassifyAssumption
<1>3. WorldOK'
  BY ClassifyAssumption DEF ClassifyInv, WorldOK, Receive, envVars
<1>4. CacheOK'
  BY CacheKept DEF ClassifyInv, Receive
<1>5. ThreadTypes'
  <2>1. {[by |-> "classifier", says |-> c.verdict]} \in SUBSET [by : Sources, says : Verdicts]
    BY <1>1 DEF Sources
  <2>2. Wanted(c.install) \in SUBSET Packages
    BY <1>1, WantedPackages
  <2> QED BY <1>1, <1>2, <2>1, <2>2 DEF ClassifyInv, ThreadTypes, Receive, Goto, Requests, Labels
<1>6. ThreadsOK'
  <2>1. ThreadOK(pc[t], req[t], result[t], consulted[t], pkgs[t], asked[t], owed[t], now)
    BY DEF ClassifyInv, ThreadsOK
  <2>2. /\ pc'[t] = "overlay" /\ req'[t].install = c.install
        /\ result'[t] = c.verdict /\ pkgs'[t] = pkgs[t]
        /\ consulted'[t] = {[by |-> "classifier", says |-> c.verdict]}
        /\ owed'[t] = Wanted(req'[t].install)
    BY DEF ClassifyInv, ThreadTypes, Receive, Goto
  <2>3. ThreadOK(pc'[t], req'[t], result'[t], consulted'[t], pkgs'[t], asked'[t], owed'[t], now)
    BY <1>1, <2>1, <2>2 DEF ThreadOK, Strictest, Verdicts, Rank
  <2>4. OthersSame(t) /\ now' = now
    BY DEF ClassifyInv, ThreadTypes, Receive, Goto, OthersSame
  <2> QED BY <2>3, <2>4, OneThread DEF ClassifyInv
<1> QED BY <1>3, <1>4, <1>5, <1>6 DEF ClassifyInv

LEMMA ScanOverlayKeeps ==
    ASSUME ClassifyInv, NEW t \in Threads, ScanOverlay(t)
    PROVE  ClassifyInv'
<1> DEFINE hit == result[t] = "safe" /\ req[t].needles \cap overlay # {}
           v == IF hit THEN "warn" ELSE result[t]
           ps == IF v = "safe" THEN OsvProbePkgs(req[t].install) ELSE <<>>
           S == IF hit THEN consulted[t] \cup {[by |-> "overlay", says |-> v]} ELSE consulted[t]
<1>1. /\ pc[t] = "overlay" /\ result[t] \in Verdicts
      /\ req[t].install \in Installs /\ owed[t] = Wanted(req[t].install)
      /\ consulted[t] = {[by |-> "classifier", says |-> result[t]]}
      /\ consulted[t] \in SUBSET [by : Sources, says : Verdicts]
  BY DEF ClassifyInv, ThreadsOK, ThreadOK, ThreadTypes, ScanOverlay
<1>2. v \in Verdicts /\ S \in SUBSET [by : Sources, says : Verdicts]
  BY <1>1 DEF Verdicts, Sources
<1>3. Strictest(v, S) /\ (v # "safe" => Early(S))
  <2>1. \A x \in Verdicts : Rank[x] \in 0..2 /\ Rank[x] <= Rank[x]
    BY DEF Verdicts, Rank
  <2>2. CASE hit
    <3>1. v = "warn" /\ S = {[by |-> "classifier", says |-> "safe"], [by |-> "overlay", says |-> "warn"]}
      BY <1>1, <2>2
    <3>2. Rank["safe"] <= Rank["warn"] /\ Rank["warn"] <= Rank["warn"]
      BY DEF Rank
    <3>3. \A s \in S : s.says \in {"safe", "warn"}
      BY <3>1
    <3>4. [by |-> "overlay", says |-> "warn"] \in S
      BY <3>1
    <3>5. Strictest(v, S)
      BY <3>1, <3>2, <3>3, <3>4 DEF Strictest
    <3> QED BY <3>4, <3>5 DEF Early
  <2>3. CASE ~hit
    <3>1. v = result[t] /\ S = {[by |-> "classifier", says |-> v]}
      BY <1>1, <2>3
    <3>2. [by |-> "classifier", says |-> v] \in S /\ \A s \in S : s.says = v
      BY <3>1
    <3>3. Strictest(v, S)
      BY <1>1, <2>1, <3>1, <3>2 DEF Strictest
    <3> QED BY <3>2, <3>3 DEF Early
  <2> QED BY <2>2, <2>3
<1>4. /\ ps \in Seq(Packages) /\ Len(ps) <= MaxProbed
      /\ v = "safe" => owed[t] \subseteq Range(ps)
  <2>1. Names(req[t].install) \in Seq(Packages)
    BY <1>1, WantedPackages
  <2>2. Len(<<>>) <= MaxProbed /\ <<>> \in Seq(Packages)
    BY ClassifyAssumption
  <2> HIDE DEF v
  <2> QED BY <1>1, <2>1, <2>2, ProbeBounded
<1>5. /\ result' = [result EXCEPT ![t] = v]
      /\ consulted' = [consulted EXCEPT ![t] = S]
      /\ pkgs' = [pkgs EXCEPT ![t] = ps]
      /\ pc' = [pc EXCEPT ![t] = "osv"]
      /\ UNCHANGED <<worldVars, cache, req, asked, owed>>
  <2>1. consulted' = IF hit THEN [consulted EXCEPT ![t] = @ \cup {[by |-> "overlay", says |-> v]}]
                     ELSE consulted
    BY DEF ScanOverlay, Signal
  <2>2. consulted = [consulted EXCEPT ![t] = consulted[t]]
    BY DEF ClassifyInv, ThreadTypes
  <2>3. consulted' = [consulted EXCEPT ![t] = S]
    BY <2>1, <2>2
  <2> QED BY <2>3 DEF ScanOverlay, Goto
<1> HIDE DEF hit, v, ps, S
<1>6. ThreadTypes'
  BY <1>2, <1>4, <1>5 DEF ClassifyInv, ThreadTypes, Labels
<1>7. ThreadsOK'
  <2>1. /\ pc'[t] = "osv" /\ result'[t] = v /\ consulted'[t] = S /\ pkgs'[t] = ps /\ owed'[t] = owed[t]
    BY <1>5 DEF ClassifyInv, ThreadTypes
  <2>2. ThreadOK(pc'[t], req'[t], result'[t], consulted'[t], pkgs'[t], asked'[t], owed'[t], now)
    BY <1>3, <1>4, <2>1 DEF ThreadOK
  <2>3. OthersSame(t) /\ now' = now
    BY <1>5 DEF ClassifyInv, ThreadTypes, OthersSame, worldVars
  <2> QED BY <2>2, <2>3, OneThread DEF ClassifyInv
<1>8. WorldOK' /\ CacheOK'
  BY <1>5, WorldKept, CacheKept DEF ClassifyInv, worldVars
<1> QED BY <1>6, <1>7, <1>8 DEF ClassifyInv

\* What is left of a walk after its first package.
LEMMA WalkOn ==
    ASSUME NEW ps \in Seq(Packages), ps # <<>>, Len(ps) <= MaxProbed
    PROVE  /\ Head(ps) \in Packages /\ Tail(ps) \in Seq(Packages) /\ Len(Tail(ps)) <= MaxProbed
           /\ \A o : o \subseteq Range(ps) => o \ {Head(ps)} \subseteq Range(Tail(ps))
<1>1. /\ Head(ps) \in Packages /\ Tail(ps) \in Seq(Packages) /\ Len(Tail(ps)) = Len(ps) - 1
      /\ Len(ps) \in Nat /\ DOMAIN ps = 1..Len(ps) /\ Head(ps) = ps[1]
      /\ DOMAIN Tail(ps) = 1..(Len(ps) - 1)
      /\ \A i \in 1..(Len(ps) - 1) : Tail(ps)[i] = ps[i + 1]
  OBVIOUS
<1>2. ASSUME NEW x \in Range(ps), x # Head(ps) PROVE x \in Range(Tail(ps))
  <2>1. PICK i \in 1..Len(ps) : ps[i] = x
    BY <1>1 DEF Range
  <2>2. i # 1
    BY <1>1, <1>2, <2>1
  <2>3. i - 1 \in 1..(Len(ps) - 1) /\ (i - 1) + 1 = i
    BY <1>1, <2>1, <2>2
  <2>4. Tail(ps)[i - 1] = x
    BY <1>1, <2>1, <2>3
  <2> QED BY <1>1, <2>3, <2>4 DEF Range
<1> QED BY <1>1, <1>2, ClassifyAssumption

\* A package that has been looked up is off the list; what it is worth counts.
LEMMA LearnKeeps ==
    ASSUME ClassifyInv, NEW t \in Threads, NEW v \in Verdicts, Learn(t, v),
           pc[t] \in {"osv", "asked"}, pkgs[t] # <<>>, now' = now, req' = req,
           asked' \in [Threads -> [verdict : Verdicts, at : 0..MaxTime]],
           \A s \in Threads \ {t} : asked'[s] = asked[s]
    PROVE  ThreadTypes' /\ ThreadsOK'
<1> DEFINE r == IF VerdictStrictlyWorse(result[t], v) THEN v ELSE result[t]
           ps == IF r = "block" THEN <<>> ELSE Tail(pkgs[t])
           S == consulted[t] \cup {[by |-> "osv", says |-> v]}
           o == owed[t] \ {Head(pkgs[t])}
<1>1. /\ result[t] \in Verdicts /\ Strictest(result[t], consulted[t])
      /\ consulted[t] \in SUBSET [by : Sources, says : Verdicts]
      /\ pkgs[t] \in Seq(Packages) /\ owed[t] \in SUBSET Packages
      /\ Len(pkgs[t]) <= MaxProbed
      /\ owed[t] \subseteq Range(pkgs[t]) \/ result[t] = "block" \/ Early(consulted[t])
  BY DEF ClassifyInv, ThreadsOK, ThreadOK, ThreadTypes
<1>2. /\ r \in Verdicts /\ (result[t] = "block" => r = "block")
      /\ Strictest(r, S) /\ S \in SUBSET [by : Sources, says : Verdicts]
      /\ Early(consulted[t]) => Early(S)
  <2>1. "osv" \in Sources
    BY DEF Sources
  <2>2. Worse(r, result[t], v) /\ Added(S, consulted[t], "osv", v)
    BY DEF Worse, Added
  <2> HIDE DEF r, S
  <2> QED BY <1>1, <2>1, <2>2, StrictestIsKept
<1>5. /\ result' = [result EXCEPT ![t] = r]
      /\ consulted' = [consulted EXCEPT ![t] = S]
      /\ pkgs' = [pkgs EXCEPT ![t] = IF result'[t] = "block" THEN <<>> ELSE Tail(pkgs[t])]
      /\ owed' = [owed EXCEPT ![t] = o]
      /\ pc' = [pc EXCEPT ![t] = "osv"]
  BY DEF Learn, Signal, Goto
<1> HIDE DEF r, S
<1>6. pkgs' = [pkgs EXCEPT ![t] = ps]
  BY <1>5 DEF ClassifyInv, ThreadTypes
<1>7. /\ ps \in Seq(Packages) /\ Len(ps) <= MaxProbed /\ o \in SUBSET Packages
      /\ o \subseteq Range(ps) \/ r = "block" \/ Early(S)
  <2>1. CASE r = "block"
    <3>1. ps = <<>>
      BY <2>1
    <3>2. Len(<<>>) = 0 /\ <<>> \in Seq(Packages) /\ MaxProbed \in Nat
      BY ClassifyAssumption
    <3> QED BY <1>1, <2>1, <3>1, <3>2
  <2>2. CASE r # "block"
    <3>1. ps = Tail(pkgs[t])
      BY <2>2
    <3>2. owed[t] \subseteq Range(pkgs[t]) \/ Early(S)
      BY <1>1, <1>2, <2>2
    <3> QED BY <1>1, <3>1, <3>2, WalkOn
  <2> QED BY <2>1, <2>2
<1> HIDE DEF ps, o
<1>8. ThreadTypes'
  BY <1>1, <1>2, <1>5, <1>6, <1>7 DEF ClassifyInv, ThreadTypes, Labels
<1>9. ThreadsOK'
  <2>1. /\ pc'[t] = "osv" /\ result'[t] = r /\ consulted'[t] = S /\ pkgs'[t] = ps /\ owed'[t] = o
    BY <1>5, <1>6 DEF ClassifyInv, ThreadTypes
  <2>2. ThreadOK(pc'[t], req'[t], result'[t], consulted'[t], pkgs'[t], asked'[t], owed'[t], now)
    BY <1>2, <1>7, <2>1 DEF ThreadOK
  <2>3. OthersSame(t)
    BY <1>5, <1>6 DEF ClassifyInv, ThreadTypes, OthersSame
  <2> QED BY <2>2, <2>3, OneThread DEF ClassifyInv
<1> QED BY <1>8, <1>9

LEMMA CacheHitKeeps ==
    ASSUME ClassifyInv, NEW t \in Threads, CacheHit(t)
    PROVE  ClassifyInv'
<1>1. /\ pc[t] = "osv" /\ pkgs[t] # <<>> /\ Head(pkgs[t]) \in DOMAIN cache
      /\ Learn(t, cache[Head(pkgs[t])].verdict)
      /\ UNCHANGED <<worldVars, cache, req, asked>>
  BY DEF CacheHit
<1>2. cache[Head(pkgs[t])].verdict \in Verdicts
  BY <1>1 DEF ClassifyInv, CacheOK, EntryOK, Entries
<1>3. ThreadTypes' /\ ThreadsOK'
  <2>1. now' = now /\ asked' \in [Threads -> [verdict : Verdicts, at : 0..MaxTime]]
    BY <1>1 DEF ClassifyInv, ThreadTypes, worldVars
  <2> QED BY <1>1, <1>2, <2>1, LearnKeeps
<1>4. WorldOK' /\ CacheOK'
  BY <1>1, WorldKept, CacheKept DEF ClassifyInv, worldVars
<1> QED BY <1>3, <1>4 DEF ClassifyInv

LEMMA QueryKeeps ==
    ASSUME ClassifyInv, NEW t \in Threads, Query(t)
    PROVE  ClassifyInv'
<1> DEFINE a == [verdict |-> OsvVerdict(upstream[Head(pkgs[t])]), at |-> now]
<1>1. /\ pc[t] = "osv" /\ pkgs[t] # <<>>
      /\ asked' = [asked EXCEPT ![t] = a]
      /\ pc' = [pc EXCEPT ![t] = "asked"]
      /\ UNCHANGED <<worldVars, cache, req, result, pkgs, consulted, owed>>
  BY DEF Query, Goto
<1>2. a \in [verdict : Verdicts, at : 0..MaxTime] /\ a.at = now /\ now \in Nat
  BY ClassifyAssumption DEF OsvVerdict, Verdicts, ClassifyInv, WorldOK
<1> HIDE DEF a
<1>3. ThreadTypes'
  BY <1>1, <1>2 DEF ClassifyInv, ThreadTypes, Labels
<1>4. ThreadsOK'
  <2>1. ThreadOK(pc[t], req[t], result[t], consulted[t], pkgs[t], asked[t], owed[t], now)
    BY DEF ClassifyInv, ThreadsOK
  <2>2. pc'[t] = "asked" /\ asked'[t] = a
    BY <1>1 DEF ClassifyInv, ThreadTypes
  <2>3. Timeout \in Nat
    BY ClassifyAssumption
  <2>4. ThreadOK(pc'[t], req'[t], result'[t], consulted'[t], pkgs'[t], asked'[t], owed'[t], now)
    BY <1>1, <1>2, <2>1, <2>2, <2>3 DEF ThreadOK
  <2>5. OthersSame(t) /\ now' = now
    BY <1>1 DEF ClassifyInv, ThreadTypes, OthersSame, worldVars
  <2> QED BY <2>4, <2>5, OneThread DEF ClassifyInv
<1>5. WorldOK' /\ CacheOK'
  BY <1>1, WorldKept, CacheKept DEF ClassifyInv, worldVars
<1> QED BY <1>3, <1>4, <1>5 DEF ClassifyInv

LEMMA AnswerKeeps ==
    ASSUME ClassifyInv, NEW t \in Threads, Answer(t)
    PROVE  ClassifyInv'
<1> DEFINE p == Head(pkgs[t])
           e == [verdict |-> asked[t].verdict, when |-> now, read |-> asked[t].at]
<1>1. /\ pc[t] = "asked" /\ cache' = CacheSet(p, e) /\ Learn(t, asked[t].verdict)
      /\ asked' = [asked EXCEPT ![t] = NotAsked]
      /\ UNCHANGED <<worldVars, req>>
  BY DEF Answer
<1>2. ThreadOK(pc[t], req[t], result[t], consulted[t], pkgs[t], asked[t], owed[t], now)
  BY DEF ClassifyInv, ThreadsOK
<1>3. /\ pkgs[t] # <<>> /\ asked[t].at <= now /\ now - asked[t].at <= Timeout
      /\ asked[t] \in [verdict : Verdicts, at : 0..MaxTime] /\ pkgs[t] \in Seq(Packages)
  BY <1>1, <1>2 DEF ThreadOK, ClassifyInv, ThreadTypes
<1>4. p \in Packages
  BY <1>3
<1>5. now \in 0..MaxTime /\ now' = now
  BY <1>1 DEF ClassifyInv, WorldOK, worldVars
<1>6. EntryOK(e, now)
  BY <1>3, <1>5 DEF EntryOK, Entries
<1>7. CacheOK'
  <2> HIDE DEF p, e
  <2>1. /\ DOMAIN cache' \subseteq Packages \ LongNames
        /\ IsFiniteSet(DOMAIN cache') /\ Cardinality(DOMAIN cache') <= MaxCache
        /\ \A q \in DOMAIN cache' : cache'[q] = e \/ (q \in DOMAIN cache /\ cache'[q] = cache[q])
    BY <1>1, <1>4, CacheSetBounded DEF ClassifyInv
  <2>2. \A q \in DOMAIN cache : EntryOK(cache[q], now)
    BY DEF ClassifyInv, CacheOK
  <2>3. \A q \in DOMAIN cache' : EntryOK(cache'[q], now)
    BY <1>6, <2>1, <2>2
  <2> QED BY <1>5, <2>1, <2>3 DEF CacheOK
<1>8. ThreadTypes' /\ ThreadsOK'
  <2>1. NotAsked \in [verdict : Verdicts, at : 0..MaxTime]
    BY ClassifyAssumption DEF NotAsked, Verdicts
  <2>2. /\ asked' \in [Threads -> [verdict : Verdicts, at : 0..MaxTime]]
        /\ \A s \in Threads \ {t} : asked'[s] = asked[s]
    BY <1>1, <2>1 DEF ClassifyInv, ThreadTypes
  <2>3. asked[t].verdict \in Verdicts /\ req' = req
    BY <1>1, <1>3
  <2> QED BY <1>1, <1>3, <1>5, <2>2, <2>3, LearnKeeps
<1>9. WorldOK'
  BY <1>1, WorldKept DEF ClassifyInv
<1> QED BY <1>7, <1>8, <1>9 DEF ClassifyInv

LEMMA QueryFailsKeeps ==
    ASSUME ClassifyInv, NEW t \in Threads, QueryFails(t)
    PROVE  ClassifyInv'
<1>1. /\ pc[t] = "asked"
      /\ pkgs' = [pkgs EXCEPT ![t] = Tail(pkgs[t])]
      /\ owed' = [owed EXCEPT ![t] = owed[t] \ {Head(pkgs[t])}]
      /\ asked' = [asked EXCEPT ![t] = NotAsked]
      /\ pc' = [pc EXCEPT ![t] = "osv"]
      /\ UNCHANGED <<worldVars, cache, req, result, consulted>>
  BY DEF QueryFails, Goto
<1>2. ThreadOK(pc[t], req[t], result[t], consulted[t], pkgs[t], asked[t], owed[t], now)
  BY DEF ClassifyInv, ThreadsOK
<1>3. /\ pkgs[t] # <<>> /\ pkgs[t] \in Seq(Packages) /\ owed[t] \in SUBSET Packages
      /\ owed[t] \subseteq Range(pkgs[t]) \/ result[t] = "block" \/ Early(consulted[t])
      /\ Len(pkgs[t]) <= MaxProbed /\ Strictest(result[t], consulted[t])
  BY <1>1, <1>2 DEF ThreadOK, ClassifyInv, ThreadTypes
<1>4. /\ Tail(pkgs[t]) \in Seq(Packages) /\ Len(Tail(pkgs[t])) <= MaxProbed
      /\ owed[t] \ {Head(pkgs[t])} \subseteq Range(Tail(pkgs[t])) \/ result[t] = "block" \/ Early(consulted[t])
  BY <1>3, WalkOn
<1>5. NotAsked \in [verdict : Verdicts, at : 0..MaxTime]
  BY ClassifyAssumption DEF NotAsked, Verdicts
<1>6. ThreadTypes'
  BY <1>1, <1>3, <1>4, <1>5 DEF ClassifyInv, ThreadTypes, Labels
<1>7. ThreadsOK'
  <2>1. /\ pc'[t] = "osv" /\ pkgs'[t] = Tail(pkgs[t]) /\ owed'[t] = owed[t] \ {Head(pkgs[t])}
    BY <1>1 DEF ClassifyInv, ThreadTypes
  <2>3. ThreadOK(pc'[t], req'[t], result'[t], consulted'[t], pkgs'[t], asked'[t], owed'[t], now)
    BY <1>1, <1>3, <1>4, <2>1 DEF ThreadOK
  <2>4. OthersSame(t) /\ now' = now
    BY <1>1 DEF ClassifyInv, ThreadTypes, OthersSame, worldVars
  <2> QED BY <2>3, <2>4, OneThread DEF ClassifyInv
<1>8. WorldOK' /\ CacheOK'
  BY <1>1, WorldKept, CacheKept DEF ClassifyInv, worldVars
<1> QED BY <1>6, <1>7, <1>8 DEF ClassifyInv

LEMMA CheckOwnerKeeps ==
    ASSUME ClassifyInv, NEW t \in Threads, CheckOwner(t)
    PROVE  ClassifyInv'
<1>1. PICK l \in {"mark", "reply"} : pc' = [pc EXCEPT ![t] = l]
  BY DEF CheckOwner, Goto
<1>2. /\ pc[t] = "osv" /\ pkgs[t] = <<>>
      /\ UNCHANGED <<worldVars, cache, req, result, pkgs, asked, consulted, owed>>
  BY DEF CheckOwner
<1>3. ThreadTypes'
  BY <1>1, <1>2 DEF ClassifyInv, ThreadTypes, Labels
<1>4. ThreadsOK'
  <2>1. ThreadOK(pc[t], req[t], result[t], consulted[t], pkgs[t], asked[t], owed[t], now)
    BY DEF ClassifyInv, ThreadsOK
  <2>2. pc'[t] = l
    BY <1>1 DEF ClassifyInv, ThreadTypes
  <2>3. ThreadOK(pc'[t], req'[t], result'[t], consulted'[t], pkgs'[t], asked'[t], owed'[t], now)
    BY <1>2, <2>1, <2>2 DEF ThreadOK
  <2>4. OthersSame(t) /\ now' = now
    BY <1>1, <1>2 DEF ClassifyInv, ThreadTypes, OthersSame, worldVars
  <2> QED BY <2>3, <2>4, OneThread DEF ClassifyInv
<1>5. WorldOK' /\ CacheOK'
  BY <1>2, WorldKept, CacheKept DEF ClassifyInv, worldVars
<1> QED BY <1>3, <1>4, <1>5 DEF ClassifyInv

LEMMA ReadMarkKeeps ==
    ASSUME ClassifyInv, NEW t \in Threads, ReadMark(t)
    PROVE  ClassifyInv'
<1> DEFINE v == Escalation(proc[req[t].pid].level)
           r == IF VerdictStrictlyWorse(result[t], v) THEN v ELSE result[t]
           S == consulted[t] \cup {[by |-> "mark", says |-> v]}
<1>1. v \in Verdicts
  BY DEF Escalation, Verdicts
<1>2. /\ pc[t] = "mark"
      /\ result' = [result EXCEPT ![t] = r]
      /\ consulted' = [consulted EXCEPT ![t] = S]
      /\ pc' = [pc EXCEPT ![t] = "reply"]
      /\ UNCHANGED <<worldVars, cache, req, pkgs, asked, owed>>
  BY DEF ReadMark, Signal, Goto
<1> HIDE DEF v
<1>3. /\ ThreadOK(pc[t], req[t], result[t], consulted[t], pkgs[t], asked[t], owed[t], now)
      /\ result[t] \in Verdicts /\ Strictest(result[t], consulted[t])
      /\ consulted[t] \in SUBSET [by : Sources, says : Verdicts]
  BY <1>2 DEF ClassifyInv, ThreadsOK, ThreadOK, ThreadTypes
<1>4. /\ r \in Verdicts /\ (result[t] = "block" => r = "block")
      /\ Strictest(r, S) /\ S \in SUBSET [by : Sources, says : Verdicts]
      /\ Early(consulted[t]) => Early(S)
  <2>1. "mark" \in Sources
    BY DEF Sources
  <2>2. Worse(r, result[t], v) /\ Added(S, consulted[t], "mark", v)
    BY DEF Worse, Added
  <2> HIDE DEF r, S
  <2> QED BY <1>1, <1>3, <2>1, <2>2, StrictestIsKept
<1> HIDE DEF r, S
<1>5. ThreadTypes'
  BY <1>2, <1>3, <1>4 DEF ClassifyInv, ThreadTypes, Labels
<1>6. ThreadsOK'
  <2>1. pc'[t] = "reply" /\ result'[t] = r /\ consulted'[t] = S
    BY <1>2, <1>3, <1>4 DEF ClassifyInv, ThreadTypes
  <2>2. ThreadOK(pc'[t], req'[t], result'[t], consulted'[t], pkgs'[t], asked'[t], owed'[t], now)
    BY <1>2, <1>3, <1>4, <2>1 DEF ThreadOK
  <2>3. OthersSame(t) /\ now' = now
    BY <1>2 DEF ClassifyInv, ThreadTypes, OthersSame, worldVars
  <2> QED BY <2>2, <2>3, OneThread DEF ClassifyInv
<1>7. WorldOK' /\ CacheOK'
  BY <1>2, WorldKept, CacheKept DEF ClassifyInv, worldVars
<1> QED BY <1>5, <1>6, <1>7 DEF ClassifyInv

LEMMA ReplyKeeps ==
    ASSUME ClassifyInv, NEW t \in Threads, Reply(t)
    PROVE  ClassifyInv'
<1>1. /\ pc' = [pc EXCEPT ![t] = "idle"]
      /\ req' = [req EXCEPT ![t] = NoRequest]
      /\ result' = [result EXCEPT ![t] = "safe"] 
      /\ consulted' = [consulted EXCEPT ![t] = {}] /\ owed' = [owed EXCEPT ![t] = {}]
      /\ UNCHANGED <<worldVars, cache, pkgs, asked>>
  BY DEF Reply, Goto
<1>2. NoRequest \in Requests
  BY ClassifyAssumption DEF NoRequest, Requests
<1>3. ThreadTypes'
  BY <1>1, <1>2 DEF ClassifyInv, ThreadTypes, Labels, Verdicts
<1>4. ThreadsOK'
  <2>1. ThreadOK(pc[t], req[t], result[t], consulted[t], pkgs[t], asked[t], owed[t], now)
    BY DEF ClassifyInv, ThreadsOK
  <2>2. pc'[t] = "idle"
    BY <1>1 DEF ClassifyInv, ThreadTypes
  <2>3. ThreadOK(pc'[t], req'[t], result'[t], consulted'[t], pkgs'[t], asked'[t], owed'[t], now)
    BY <1>1, <2>1, <2>2 DEF ThreadOK
  <2>4. OthersSame(t) /\ now' = now
    BY <1>1 DEF ClassifyInv, ThreadTypes, OthersSame, worldVars
  <2> QED BY <2>3, <2>4, OneThread DEF ClassifyInv
<1>5. WorldOK' /\ CacheOK'
  BY <1>1, WorldKept, CacheKept DEF ClassifyInv, worldVars
<1> QED BY <1>3, <1>4, <1>5 DEF ClassifyInv

-----------------------------------------------------------------------------
(* The rest of the world.                                                  *)

\* Time passes only while no query in flight is as old as the timeout.
LEMMA TickKeeps ==
    ASSUME ClassifyInv, Tick
    PROVE  ClassifyInv'
<1>1. /\ now \in 0..MaxTime /\ now' = now + 1 /\ now < MaxTime /\ MaxTime \in Nat /\ Timeout \in Nat
      /\ UNCHANGED <<overlay, upstream, proc, cache, requests, events>>
      /\ UNCHANGED <<pc, req, result, pkgs, asked, consulted, owed>>
  BY ClassifyAssumption DEF ClassifyInv, WorldOK, Tick, envVars, threadVars
<1>2. WorldOK'
  BY <1>1 DEF ClassifyInv, WorldOK
<1>3. CacheOK'
  <2>1. ASSUME NEW p \in DOMAIN cache PROVE EntryOK(cache[p], now + 1)
    <3>1. EntryOK(cache[p], now)
      BY DEF ClassifyInv, CacheOK
    <3>2. cache[p].when \in 0..MaxTime
      BY <3>1 DEF EntryOK, Entries
    <3> QED BY <1>1, <3>1, <3>2 DEF EntryOK
  <2> QED BY <1>1, <2>1 DEF ClassifyInv, CacheOK
<1>4. ThreadTypes'
  BY <1>1 DEF ClassifyInv, ThreadTypes
<1>5. ThreadsOK'
  <2>1. ASSUME NEW t \in Threads
        PROVE  ThreadOK(pc[t], req[t], result[t], consulted[t], pkgs[t], asked[t], owed[t], now + 1)
    <3>1. ThreadOK(pc[t], req[t], result[t], consulted[t], pkgs[t], asked[t], owed[t], now)
      BY DEF ClassifyInv, ThreadsOK
    <3>2. pc[t] = "asked" => now - asked[t].at < Timeout
      BY DEF Tick
    <3>3. asked[t].at \in 0..MaxTime
      BY DEF ClassifyInv, ThreadTypes
    <3> QED BY <1>1, <3>1, <3>2, <3>3 DEF ThreadOK
  <2> QED BY <1>1, <2>1 DEF ThreadsOK
<1> QED BY <1>2, <1>3, <1>4, <1>5 DEF ClassifyInv

\* What a change of the environment leaves alone.
LEMMA RequestsKept ==
    ASSUME ClassifyInv, UNCHANGED <<cache, now, threadVars>>
    PROVE  CacheOK' /\ ThreadTypes' /\ ThreadsOK'
<1>1. UNCHANGED <<pc, req, result, pkgs, asked, consulted, owed>>
  BY DEF threadVars
<1> QED BY <1>1, CacheKept DEF ClassifyInv, ThreadTypes, ThreadsOK

LEMMA EventCounted == ASSUME WorldOK, Event PROVE events' \in 0..MaxEvents
BY ClassifyAssumption DEF WorldOK, Event

LEMMA EnvironmentKeeps ==
    ASSUME ClassifyInv, Environment
    PROVE  ClassifyInv'
<1>1. CASE Tick
  BY <1>1, TickKeeps
<1>2. ASSUME NEW p \in Packages, NEW a \in {"advisory", "malicious", "none"}, Publish(p, a)
      PROVE  ClassifyInv'
  <2>1. /\ upstream' = [upstream EXCEPT ![p] = IF a = "none" THEN {} ELSE upstream[p] \cup {a}]
        /\ UNCHANGED <<overlay, proc, cache, now, requests, threadVars>> /\ Event
    BY <1>2 DEF Publish
  <2>2. (IF a = "none" THEN {} ELSE upstream[p] \cup {a}) \in SUBSET Advisories
    BY DEF ClassifyInv, WorldOK, Advisories
  <2>3. upstream' \in [Packages -> SUBSET Advisories]
    BY <2>1, <2>2 DEF ClassifyInv, WorldOK
  <2>4. WorldOK'
    BY <2>1, <2>3, EventCounted DEF ClassifyInv, WorldOK
  <2> QED BY <2>1, <2>4, RequestsKept DEF ClassifyInv
<1>3. ASSUME NEW as \in SUBSET Atoms, EditOverlay(as)
      PROVE  ClassifyInv'
  <2>1. overlay' = as /\ UNCHANGED <<upstream, proc, cache, now, requests, threadVars>> /\ Event
    BY <1>3 DEF EditOverlay
  <2>2. WorldOK'
    BY <2>1, EventCounted DEF ClassifyInv, WorldOK
  <2> QED BY <2>1, <2>2, RequestsKept DEF ClassifyInv
<1>4. ASSUME NEW p \in Pids, NEW l \in {"low", "high", "critical"}, Mark(p, l)
      PROVE  ClassifyInv'
  <2>1. /\ proc' = [proc EXCEPT ![p] = [proc[p] EXCEPT !.level = l]]
        /\ UNCHANGED <<overlay, upstream, cache, now, requests, threadVars>> /\ Event
    BY <1>4, Zenon DEF Mark
  <2>2. [proc[p] EXCEPT !.level = l] \in [owner : Uids \cup {"nobody"}, level : {"low", "high", "critical"}]
    BY DEF ClassifyInv, WorldOK
  <2>3. WorldOK'
    BY <2>1, <2>2, EventCounted DEF ClassifyInv, WorldOK
  <2> QED BY <2>1, <2>3, RequestsKept DEF ClassifyInv
<1>5. ASSUME NEW p \in Pids, NEW u \in Uids \cup {"nobody"}, NewProcess(p, u)
      PROVE  ClassifyInv'
  <2>1. /\ proc' = [proc EXCEPT ![p] = IF u = "nobody" THEN Gone ELSE [owner |-> u, level |-> "low"]]
        /\ UNCHANGED <<overlay, upstream, cache, now, requests, threadVars>> /\ Event
    BY <1>5 DEF NewProcess
  <2>2. WorldOK'
    BY <2>1, EventCounted DEF ClassifyInv, WorldOK, Gone
  <2> QED BY <2>1, <2>2, RequestsKept DEF ClassifyInv
<1> QED BY <1>1, <1>2, <1>3, <1>4, <1>5 DEF Environment

-----------------------------------------------------------------------------
(* The results.                                                            *)

LEMMA InitInv == Init => ClassifyInv
<1> SUFFICES ASSUME Init PROVE ClassifyInv
  OBVIOUS
<1>1. WorldOK
  BY ClassifyAssumption DEF Init, WorldOK, Advisories
<1>2. CacheOK
  <2>1. DOMAIN cache = {}
    BY DEF Init
  <2>2. Cardinality({}) = 0 /\ IsFiniteSet({})
    BY FS_EmptySet
  <2> QED BY <2>1, <2>2, ClassifyAssumption DEF CacheOK
<1>3. ThreadTypes
  <2>1. NoRequest \in Requests /\ NotAsked \in [verdict : Verdicts, at : 0..MaxTime]
    BY ClassifyAssumption DEF NoRequest, Requests, NotAsked, Verdicts
  <2> QED BY <2>1 DEF Init, ThreadTypes, Labels, Verdicts
<1>4. ThreadsOK
  BY ClassifyAssumption DEF Init, ThreadsOK, ThreadOK
<1> QED BY <1>1, <1>2, <1>3, <1>4 DEF ClassifyInv

LEMMA NextInv == ClassifyInv /\ [Next]_vars => ClassifyInv'
<1> SUFFICES ASSUME ClassifyInv, [Next]_vars PROVE ClassifyInv'
  OBVIOUS
<1>1. ASSUME NEW t \in Threads, Step(t) PROVE ClassifyInv'
  BY <1>1, ScanOverlayKeeps, CacheHitKeeps, QueryKeeps, AnswerKeeps, QueryFailsKeeps,
     CheckOwnerKeeps, ReadMarkKeeps, ReplyKeeps DEF Step
<1>2. ASSUME NEW t \in Threads, NEW c \in Classified, NEW by \in Callers, Receive(t, c, by)
      PROVE  ClassifyInv'
  BY <1>2, ReceiveKeeps
<1>3. CASE Environment
  BY <1>3, EnvironmentKeeps
<1>4. CASE UNCHANGED vars
  <2>1. UNCHANGED <<worldVars, cache, now, threadVars>>
    BY <1>4 DEF vars, worldVars
  <2> QED BY <2>1, WorldKept, RequestsKept DEF ClassifyInv
<1> QED BY <1>1, <1>2, <1>3, <1>4 DEF Next

\* The inductive invariant holds throughout.
LEMMA ClassifyInvariant == Spec => []ClassifyInv
BY InitInv, NextInv, PTL DEF Spec

\* Every variable keeps its type, and no time in the cache or in a query is
\* ahead of the clock: elapsed never runs backwards (osv.rs:215, 245).
THEOREM ClassifyTypeCorrect == Spec => []TypeOK
<1>1. ClassifyInv => TypeOK
  <2> SUFFICES ASSUME ClassifyInv PROVE TypeOK
    OBVIOUS
  <2>1. \A p \in DOMAIN cache : cache[p] \in Entries /\ cache[p].read <= cache[p].when /\ cache[p].when <= now
    BY DEF ClassifyInv, CacheOK, EntryOK
  <2>2. ASSUME NEW t \in Threads
        PROVE  /\ req[t].uid \in Uids /\ req[t].pid \in Pids \cup {NoPid} /\ req[t].needles \subseteq Atoms
               /\ pc[t] = "asked" => pkgs[t] # <<>> /\ asked[t].at <= now
               /\ Range(pkgs[t]) \subseteq Packages
               /\ asked[t].verdict \in Verdicts
    <3>1. req[t] \in Requests /\ asked[t].verdict \in Verdicts /\ pkgs[t] \in Seq(Packages)
      BY DEF ClassifyInv, ThreadTypes
    <3>2. pc[t] = "asked" => pkgs[t] # <<>> /\ asked[t].at <= now
      BY DEF ClassifyInv, ThreadsOK, ThreadOK
    <3>3. Range(pkgs[t]) \subseteq Packages
      BY <3>1 DEF Range
    <3>4. req[t].uid \in Uids /\ req[t].pid \in Pids \cup {NoPid} /\ req[t].needles \subseteq Atoms
      BY <3>1 DEF Requests
    <3> QED BY <3>1, <3>2, <3>3, <3>4
  <2> QED BY <2>1, <2>2 DEF ClassifyInv, WorldOK, CacheOK, ThreadTypes, Sources, Labels, TypeOK
<1> QED BY <1>1, ClassifyInvariant, PTL

\* The answer to a request is the strictest of the signals it consulted, and all
\* of the first packages that its command names, as many as a request may look
\* up, have been asked about, unless one blocks or the command was not safe
\* before (handle_classify).
THEOREM StrictestSignalWins == Spec => []StrictestWins
<1>1. ClassifyInv => StrictestWins
  <2> SUFFICES ASSUME ClassifyInv, NEW t \in Threads, pc[t] = "reply"
               PROVE  /\ Strictest(result[t], consulted[t])
                      /\ owed[t] = {} \/ result[t] = "block" \/ Early(consulted[t])
    BY DEF StrictestWins, Strictest, Early
  <2>1. ThreadOK(pc[t], req[t], result[t], consulted[t], pkgs[t], asked[t], owed[t], now)
    BY DEF ClassifyInv, ThreadsOK
  <2>2. Range(<<>>) = {}
    BY DEF Range
  <2> QED BY <2>1, <2>2 DEF ThreadOK
<1> QED BY <1>1, ClassifyInvariant, PTL

\* The cache never exceeds MAX_CACHE_ENTRIES, and no walk is longer than
\* OSV_MAX_PKGS_PER_CMD.
THEOREM CacheAndFanOutBounded == Spec => []WorkBounded
<1>1. ClassifyInv => WorkBounded
  BY DEF ClassifyInv, CacheOK, ThreadsOK, ThreadOK, WorkBounded
<1> QED BY <1>1, ClassifyInvariant, PTL

\* What the cache serves was read from the service less than a TTL and a
\* timeout ago, whichever of two answers for a package came last.
THEOREM CachedAnswersFresh == Spec => []AnswersFresh
<1>1. ClassifyInv => AnswersFresh
  <2> SUFFICES ASSUME ClassifyInv, NEW p \in DOMAIN cache, Fresh(cache[p])
               PROVE  now - cache[p].read < TTL + Timeout
    BY DEF AnswersFresh
  <2>1. EntryOK(cache[p], now) /\ now \in 0..MaxTime
    BY DEF ClassifyInv, CacheOK, WorldOK
  <2>2. cache[p].read \in 0..MaxTime /\ cache[p].when \in 0..MaxTime
    BY <2>1 DEF EntryOK, Entries
  <2> QED BY <2>1, <2>2, ClassifyAssumption DEF EntryOK, Fresh
<1> QED BY <1>1, ClassifyInvariant, PTL

\* What a thread has of the classifier, until it goes on to the overlay.
VerdictOK(t) == pc[t] = "overlay" => result[t] \in allowed[t]
ClassifierInv == DOMAIN allowed = Threads /\ \A t \in Threads : VerdictOK(t)

\* A thread that does not move keeps what it has.
LEMMA VerdictKept ==
    ASSUME NEW t, VerdictOK(t), pc'[t] = pc[t], result'[t] = result[t], allowed'[t] = allowed[t]
    PROVE  VerdictOK(t)'
BY DEF VerdictOK

LEMMA ReceiveAllowed ==
    ASSUME ClassifyInv, ClassifierInv,
           NEW t \in Threads, NEW c \in Classified, NEW by \in Callers, Receive(t, c, by)
    PROVE  ClassifierInv'
<1>1. c.verdict \in c.allowed
  <2>1. PICK k \in Configs : \E d \in Commands[k] :
           c = [verdict |-> ClassifyCommand(k, d), allowed |-> Allowed(k, d),
                needles |-> d.needles, install |-> d.install]
    BY DEF Classified
  <2>2. PICK d \in Commands[k] :
           c = [verdict |-> ClassifyCommand(k, d), allowed |-> Allowed(k, d),
                needles |-> d.needles, install |-> d.install]
    BY <2>1
  <2>3. ClassifyCommand(k, d) \in Allowed(k, d)
    BY ClassifierIsRight
  <2> QED BY <2>2, <2>3
<1>2. /\ pc' = [pc EXCEPT ![t] = "overlay"]
      /\ result' = [result EXCEPT ![t] = c.verdict]
      /\ allowed' = [allowed EXCEPT ![t] = c.allowed]
  BY DEF Receive, Goto
<1>3. DOMAIN pc = Threads /\ DOMAIN result = Threads /\ DOMAIN allowed = Threads
  BY DEF ClassifyInv, ThreadTypes, ClassifierInv
<1>4. VerdictOK(t)'
  BY <1>1, <1>2, <1>3 DEF VerdictOK
<1>5. ASSUME NEW u \in Threads, u # t PROVE VerdictOK(u)'
  <2>1. pc'[u] = pc[u] /\ result'[u] = result[u] /\ allowed'[u] = allowed[u]
    BY <1>2, <1>3, <1>5
  <2> QED BY <2>1, VerdictKept DEF ClassifierInv
<1> QED BY <1>2, <1>3, <1>4, <1>5 DEF ClassifierInv

LEMMA StepAllowed ==
    ASSUME ClassifyInv, ClassifierInv, NEW t \in Threads, Step(t)
    PROVE  ClassifierInv'
<1>1. DOMAIN pc = Threads /\ DOMAIN result = Threads /\ DOMAIN allowed = Threads
  BY DEF ClassifyInv, ThreadTypes, ClassifierInv
<1>2. \E l \in Labels \ {"overlay"} : pc' = [pc EXCEPT ![t] = l]
  BY DEF Step, ScanOverlay, CacheHit, Query, Answer, QueryFails, CheckOwner, ReadMark, Reply, Learn, Goto, Labels
<1>3. result' = result \/ \E v : result' = [result EXCEPT ![t] = v]
  BY DEF Step, ScanOverlay, CacheHit, Query, Answer, QueryFails, CheckOwner, ReadMark, Reply, Learn
<1>4. allowed' = allowed \/ allowed' = [allowed EXCEPT ![t] = Verdicts]
  BY DEF Step, ScanOverlay, CacheHit, Query, Answer, QueryFails, CheckOwner, ReadMark, Reply
<1>5. VerdictOK(t)'
  <2>1. pc'[t] # "overlay"
    BY <1>1, <1>2
  <2> QED BY <2>1 DEF VerdictOK
<1>6. ASSUME NEW u \in Threads, u # t PROVE VerdictOK(u)'
  <2>1. pc'[u] = pc[u] /\ result'[u] = result[u] /\ allowed'[u] = allowed[u]
    BY <1>1, <1>2, <1>3, <1>4, <1>6
  <2> QED BY <2>1, VerdictKept DEF ClassifierInv
<1> QED BY <1>1, <1>4, <1>5, <1>6 DEF ClassifierInv

\* Classifier::classify: the classifier blocks only if a threshold is set and the
\* command shows two behaviours, the opinion of a model that was asked being one,
\* or if that opinion is to block; it calls nothing safe in which the first tier
\* found a behaviour; and nothing comes from nothing.  For any spans, of any
\* number of detectors, however they overlap.
THEOREM VerdictsEarned == Spec => []VerdictEarned
<1>1. Init => ClassifierInv
  BY DEF Init, ClassifierInv, VerdictOK
<1>2. ClassifyInv /\ ClassifierInv /\ [Next]_vars => ClassifierInv'
  <2> SUFFICES ASSUME ClassifyInv, ClassifierInv, [Next]_vars PROVE ClassifierInv'
    OBVIOUS
  <2>1. ASSUME NEW t \in Threads, Step(t) PROVE ClassifierInv'
    BY <2>1, StepAllowed
  <2>2. ASSUME NEW t \in Threads, NEW c \in Classified, NEW by \in Callers, Receive(t, c, by)
        PROVE  ClassifierInv'
    BY <2>2, ReceiveAllowed
  <2>3. ASSUME UNCHANGED threadVars PROVE ClassifierInv'
    BY <2>3, VerdictKept DEF threadVars, ClassifierInv
  <2>4. CASE Environment
    BY <2>3, <2>4 DEF Environment, Tick, Publish, EditOverlay, Mark, NewProcess
  <2>5. CASE UNCHANGED vars
    BY <2>3, <2>5 DEF vars
  <2> QED BY <2>1, <2>2, <2>4, <2>5 DEF Next
<1>3. ClassifierInv => VerdictEarned
  BY DEF ClassifierInv, VerdictOK, VerdictEarned
<1> QED BY <1>1, <1>2, <1>3, ClassifyInvariant, PTL DEF Spec

=============================================================================
