----------------------------- MODULE Classify ------------------------------
(***************************************************************************)
(* The classify request of atty-guard: the detectors of the two tiers and  *)
(* the accumulator that makes one verdict of their hits, then the signals  *)
(* that may only make it worse: the atom overlay, the OSV lookups with     *)
(* their shared cache, and the threat mark of the caller's process.        *)
(*                                                                         *)
(* Each request runs on a thread of its own.  The classifier is immutable  *)
(* and is one step; the overlay, the cache, the answer of the OSV service, *)
(* the owner of the process and its mark are each read at a step of their  *)
(* own, and all of them change meanwhile.                                  *)
(*                                                                         *)
(* A command is a record of what the detectors find in it.  Confidences    *)
(* are percentages.                                                        *)
(***************************************************************************)
EXTENDS Naturals, FiniteSets, Sequences, SequencesExt

CONSTANTS
    Threads, Uids, Root,   \* connection threads; the uids, root among them
    Pids,                  \* process ids
    Callers,               \* who asks: a uid, and the process id it names, if any
    Commands,              \* per configuration: the commands, by what the detectors find
    Configs,               \* configurations: backend, block_threshold, onnx_warn, onnx_block
    Packages, LongNames,   \* package names; those above MAX_PACKAGE_KEY_LEN
    FlaggedPackages,       \* flagged_npm.txt
    Atoms,                 \* atoms that may come to be in the overlay
    MaxCache,              \* MAX_CACHE_ENTRIES
    MaxParsed, MaxProbed,  \* MAX_PKGS_PER_COMMAND, OSV_MAX_PKGS_PER_CMD
    TTL, Timeout,          \* cache_ttl, timeout, in ticks of the clock
    StartUpstream,         \* what the service may know as the model starts
    MaxTime,               \* bound: the clock
    MaxRequests,           \* bound: requests in all
    MaxEvents              \* bound: changes of the environment

NoSpan == [lo |-> 0, hi |-> 0]
NoPid == "none"
Verdicts == {"safe", "warn", "block"}
Rank == [safe |-> 0, warn |-> 1, block |-> 2]

\* The tokens that are not flags, without their version.
Names(toks) == LET pkgToks == SelectSeq(toks, LAMBDA k : ~k.flag)
               IN [i \in DOMAIN pkgToks |-> pkgToks[i].name]

\* What the detectors report of a command, and what a backend is configured with.
\* No pattern, URL or atom is empty, and so is no match.
Matches == {s \in [lo : Nat, hi : Nat] : s.lo < s.hi}
IsCommand(c) ==
    /\ {c.curl, c.npm, c.bash} \subseteq Matches \cup {NoSpan}
    /\ c.urls \in Seq(Matches) /\ c.atoms \in Seq(Matches)
    /\ c.harmful \subseteq 0..100 /\ IsFiniteSet(c.harmful)
    /\ c.needles \subseteq Atoms /\ Names(c.install) \in Seq(Packages)

ASSUME ClassifyAssumption ==
    /\ NoPid \notin Pids /\ Root \in Uids
    /\ Callers \subseteq [uid : Uids, pid : Pids \cup {NoPid}]
    /\ DOMAIN Commands = Configs
    /\ \A k \in Configs : \A c \in Commands[k] : IsCommand(c)
    /\ \A k \in Configs : k.backend \in {"stub", "heuristic", "onnx"}
    /\ LongNames \subseteq Packages
    /\ MaxCache \in Nat \ {0} /\ MaxParsed \in Nat /\ MaxProbed \in 0..MaxParsed
    /\ TTL \in Nat \ {0} /\ Timeout \in Nat
    /\ StartUpstream \subseteq [Packages -> SUBSET {"advisory", "malicious"}]
    /\ MaxTime \in Nat /\ MaxRequests \in Nat /\ MaxEvents \in Nat

VARIABLES
    overlay,           \* the atoms of the three scopes
    upstream,          \* package -> what the OSV service knows of it
    cache,             \* package -> [verdict, when, read]; read is history
    proc,              \* pid -> [owner, level] of its process, or Gone
    now,               \* the clock
    requests, events,  \* requests so far; changes of the environment so far
    pc, req, result,   \* per thread: control, request, verdict so far
    pkgs, asked,       \* per thread: packages to look up; the query in flight
    consulted,         \* history, per thread: the signals it consulted
    allowed,           \* history, per thread: what the classifier might say
    owed               \* history, per thread: packages it has yet to ask about

threadVars == <<pc, req, result, pkgs, asked, consulted, allowed, owed>>
envVars == <<overlay, upstream, proc>>
worldVars == <<envVars, now, requests, events>>
vars == <<worldVars, cache, threadVars>>

Goto(t, l) == pc' = [pc EXCEPT ![t] = l]

\* verdict_strictly_worse
VerdictStrictlyWorse(current, incoming) == Rank[current] < Rank[incoming]

NoRequest == [needles |-> {}, install |-> <<>>, uid |-> Root, pid |-> NoPid]
NotAsked == [verdict |-> "safe", at |-> 0]
Gone == [owner |-> "nobody", level |-> "low"]

-----------------------------------------------------------------------------
(* The detectors.                                                          *)

Hit(span, conf) == [lo |-> span.lo, hi |-> span.hi, conf |-> conf, verdict |-> "warn"]

\* Tier1::classify_all: a hit for the fetch-and-run shape, one for every flagged
\* URL, at most one for the install of a flagged package, one for a long
\* base64-like argument of `bash -c', and one for every atom of the corpus.
ClassifyAll(c) ==
    LET urls == [i \in DOMAIN c.urls |-> Hit(c.urls[i], 90)]
        npm == c.npm # NoSpan /\ Range(Names(c.tail)) \cap FlaggedPackages # {}
        bash == c.bash # NoSpan /\ c.arg_len >= 40 /\ c.base64 >= 90
        atoms == [i \in DOMAIN c.atoms |-> Hit(c.atoms[i], 60)]
    IN (IF c.curl # NoSpan THEN <<Hit(c.curl, 100)>> ELSE <<>>)
         \o urls
         \o (IF npm THEN <<Hit(c.npm, 100)>> ELSE <<>>)
         \o (IF bash THEN <<Hit(c.bash, 100)>> ELSE <<>>)
         \o atoms

\* HeuristicBackend: the first of its shapes that is found.
Heuristic(c) ==
    LET conf == CASE "process_substitution" \in c.shapes -> 85
                  [] "insecure_tls" \in c.shapes -> 70
                  [] "ip_address" \in c.shapes -> 60
                  [] "chmod_then_run" \in c.shapes -> 75
                  [] OTHER -> 0
    IN IF conf = 0 THEN <<>> ELSE <<Hit(NoSpan, conf)>>

\* OnnxBackend: the probability of harm against two thresholds; a failed
\* inference, the empty set, is no answer.
Onnx(k, c) ==
    LET flagged == {p \in c.harmful : p >= k.onnx_block \/ p >= k.onnx_warn}
        Verdict(p) == IF p >= k.onnx_block THEN "block" ELSE "warn"
    IN SetToSeq({[Hit(NoSpan, p) EXCEPT !.verdict = Verdict(p)] : p \in flagged})

\* The Tier-2 backend.
Tier2(k, c) == CASE k.backend = "stub" -> <<>>
                 [] k.backend = "heuristic" -> Heuristic(c)
                 [] k.backend = "onnx" -> Onnx(k, c)

-----------------------------------------------------------------------------
(* The accumulator.                                                        *)

Unit == 1000000
Percent(n) == n * (Unit \div 100)

\* combined_confidence: one minus the product of what each hit leaves open.
CombinedConfidence(hits) ==
    LET miss[i \in 0..Len(hits)] ==
            IF i = 0 THEN Unit ELSE (miss[i - 1] * (100 - hits[i].conf)) \div 100
    IN Unit - miss[Len(hits)]

\* sort_by_key: the hits in the order of their starts.
ByStart(hits) ==
    LET indices == 1..Len(hits)
        order == CHOOSE p \in [indices -> indices] :
                    /\ IsInjective(p)
                    /\ \A i, j \in indices : i < j => hits[p[i]].lo <= hits[p[j]].lo
    IN [i \in indices |-> hits[order[i]]]

NoGroup == [n |-> 0, end |-> 0]

\* Mutant: a group ends where its last span ends.
DistinctSpanGroups_LastEnd(hits) ==
    LET spans == ByStart(hits)
        Latest(g, s) == [n |-> IF s.lo < g.end THEN g.n ELSE g.n + 1, end |-> s.hi]
        groups[i \in 0..Len(hits)] ==
            IF i = 0 THEN NoGroup ELSE Latest(groups[i - 1], spans[i])
    IN groups[Len(hits)].n

\* distinct_span_groups: in the order of their starts, a span that begins before
\* the current group ends belongs to it; the first one opens a group.
Extend(g, s) ==
    IF s.lo < g.end THEN [g EXCEPT !.end = IF s.hi > @ THEN s.hi ELSE @]
    ELSE [n |-> g.n + 1, end |-> s.hi]
DistinctSpanGroups(hits) ==
    LET spans == ByStart(hits)
        groups[i \in 0..Len(hits)] ==
            IF i = 0 THEN NoGroup ELSE Extend(groups[i - 1], spans[i])
    IN groups[Len(hits)].n

\* Classifier::with_block_threshold: above the floor for a warning, at most 1;
\* 0 for no threshold.
BlockThreshold(k) ==
    IF k.block_threshold > 50 /\ k.block_threshold <= 100 THEN k.block_threshold ELSE 0

\* combine_hits: nothing below the floor; the verdict of the most confident hit,
\* the last of several, unless two distinct signals reach the threshold.
CombineHits(hits, threshold, distinct) ==
    LET conf == CombinedConfidence(hits)
        primary == CHOOSE i \in DOMAIN hits : \A j \in DOMAIN hits :
                      hits[j].conf <= hits[i].conf /\ (j > i => hits[j].conf < hits[i].conf)
    IN IF hits = <<>> \/ conf < Percent(50) THEN "safe"
       ELSE IF threshold # 0 /\ distinct >= 2 /\ conf >= Percent(threshold) THEN "block"
       ELSE hits[primary].verdict

\* The second tier is asked while the first is below 0.9 by itself.
SecondOpinion(k, c) ==
    IF CombinedConfidence(ClassifyAll(c)) < Percent(90) THEN Tier2(k, c) ELSE <<>>

\* Classifier::classify: what the second tier says counts as a distinct signal.
ClassifyCommand(k, c) ==
    LET tier1 == ClassifyAll(c)
        slm == SecondOpinion(k, c)
    IN CombineHits(tier1 \o slm, BlockThreshold(k), DistinctSpanGroups(tier1) + Len(slm))

-----------------------------------------------------------------------------
(* A request.                                                              *)

\* The thread takes a signal into account: what it comes from and what it says.
Signal(t, by, v) == consulted' = [consulted EXCEPT ![t] = @ \cup {[by |-> by, says |-> v]}]

\* The packages a request is to ask about: those that its command names first.
Wanted(toks) == {Names(toks)[i] : i \in {j \in DOMAIN Names(toks) : j <= MaxProbed}}

\* What a command shows, by definition and not by a sort: the least sets of
\* spans that no other span overlaps are its behaviours.
Overlap(a, b) == a.lo < b.hi /\ b.lo < a.hi
Isolated(S, spans) == S # {} /\ \A a \in S, b \in spans \ S : ~Overlap(a, b)
Behaviours(spans) ==
    Cardinality({S \in SUBSET spans : Isolated(S, spans) /\ \A R \in (SUBSET S) \ {S} : ~Isolated(R, spans)})

\* The verdicts that are right for a command: a block takes two behaviours and a
\* threshold, the opinion of a model that was asked being a behaviour, or that
\* opinion itself; a behaviour is at least worth a warning.
Allowed(k, c) ==
    LET spans == {[lo |-> h.lo, hi |-> h.hi] : h \in Range(ClassifyAll(c))}
        opinions == Range(SecondOpinion(k, c))
        shown == Behaviours(spans) + Cardinality(opinions)
    IN {v \in Verdicts :
          /\ v = "block" => \/ BlockThreshold(k) # 0 /\ shown >= 2
                            \/ \E o \in opinions : o.verdict = "block"
          /\ v = "safe" => spans = {}
          /\ v # "safe" => shown > 0}

\* The classifier has no state and is all that depends on the configuration: a
\* request begins with what it makes of one of the commands under one of them.
Classified ==
    UNION {{[verdict |-> ClassifyCommand(k, c), allowed |-> Allowed(k, c),
             needles |-> c.needles, install |-> c.install] :
               c \in Commands[k]} : k \in Configs}

\* handle_classify begins with the classifier.
Receive(t, c, by) ==
    /\ pc[t] = "idle" /\ requests < MaxRequests
    /\ requests' = requests + 1
    /\ req' = [req EXCEPT ![t] = [needles |-> c.needles, install |-> c.install, uid |-> by.uid, pid |-> by.pid]]
    /\ result' = [result EXCEPT ![t] = c.verdict]
    /\ consulted' = [consulted EXCEPT ![t] = {[by |-> "classifier", says |-> c.verdict]}]
    /\ owed' = [owed EXCEPT ![t] = Wanted(c.install)]
    /\ allowed' = [allowed EXCEPT ![t] = c.allowed]
    /\ Goto(t, "overlay")
    /\ UNCHANGED <<envVars, cache, now, events, pkgs, asked>>

\* The first n of a sequence, or all of a shorter one.
First(s, n) == SubSeq(s, 1, IF Len(s) < n THEN Len(s) ELSE n)

\* extract_npm_install_pkgs: the names after the install verb, without the
\* flags, up to a cap.
ExtractPkgs(toks) == First(Names(toks), MaxParsed)

\* Mutant: every package that was parsed is looked up.
OsvProbePkgs_Uncapped(toks) == ExtractPkgs(toks)

\* osv_probe_pkgs: the first few of them.
OsvProbePkgs(toks) == First(ExtractPkgs(toks), MaxProbed)

\* A command still safe is matched against the overlay; if it stays safe, its
\* packages are looked up.  (The three scopes are read one after the other, and
\* nothing moves between them.)
ScanOverlay(t) ==
    LET hit == result[t] = "safe" /\ req[t].needles \cap overlay # {}
        v == IF hit THEN "warn" ELSE result[t]
    IN /\ pc[t] = "overlay"
       /\ result' = [result EXCEPT ![t] = v]
       /\ IF hit THEN Signal(t, "overlay", v) ELSE UNCHANGED consulted
       /\ pkgs' = [pkgs EXCEPT ![t] = IF v = "safe" THEN OsvProbePkgs(req[t].install) ELSE <<>>]
       /\ allowed' = [allowed EXCEPT ![t] = Verdicts]
       /\ Goto(t, "osv")
       /\ UNCHANGED <<worldVars, cache, req, asked, owed>>

-----------------------------------------------------------------------------
(* OSV.                                                                    *)

\* parse_osv_response and osv_verdict_to_result: advisories warn, one with a
\* malicious marker blocks.
OsvVerdict(advisories) ==
    IF advisories = {} THEN "safe" ELSE IF "malicious" \in advisories THEN "block" ELSE "warn"

\* Mutant: an entry as old as the TTL still counts.
Fresh_Inclusive(entry) == now - entry.when <= TTL

\* An entry counts until it is as old as the TTL.
Fresh(entry) == now - entry.when < TTL

\* Mutant: the walk ends at the first package with an advisory.
Learn_FirstWins(t, v) ==
    /\ result' = [result EXCEPT ![t] = IF VerdictStrictlyWorse(@, v) THEN v ELSE @]
    /\ Signal(t, "osv", v)
    /\ pkgs' = [pkgs EXCEPT ![t] = IF v # "safe" THEN <<>> ELSE Tail(@)]
    /\ owed' = [owed EXCEPT ![t] = @ \ {Head(pkgs[t])}]
    /\ Goto(t, "osv")

\* An answer is kept if it is strictly worse, and the walk ends at a block.
Learn(t, v) ==
    /\ result' = [result EXCEPT ![t] = IF VerdictStrictlyWorse(@, v) THEN v ELSE @]
    /\ Signal(t, "osv", v)
    /\ pkgs' = [pkgs EXCEPT ![t] = IF result'[t] = "block" THEN <<>> ELSE Tail(@)]
    /\ owed' = [owed EXCEPT ![t] = @ \ {Head(pkgs[t])}]
    /\ Goto(t, "osv")

\* cache_get finds a fresh entry.
CacheHit(t) ==
    /\ pc[t] = "osv" /\ pkgs[t] # <<>>
    /\ LET p == Head(pkgs[t]) IN
         /\ p \in DOMAIN cache /\ Fresh(cache[p])
         /\ Learn(t, cache[p].verdict)
    /\ UNCHANGED <<worldVars, cache, req, asked, allowed>>

\* Otherwise the service is asked; it reads its data somewhere before it answers.
Query(t) ==
    /\ pc[t] = "osv" /\ pkgs[t] # <<>>
    /\ LET p == Head(pkgs[t]) IN
         /\ ~(p \in DOMAIN cache /\ Fresh(cache[p]))
         /\ asked' = [asked EXCEPT ![t] = [verdict |-> OsvVerdict(upstream[p]), at |-> now]]
    /\ Goto(t, "asked")
    /\ UNCHANGED <<worldVars, cache, req, result, pkgs, consulted, allowed, owed>>

Insert(c, p, entry) == [q \in DOMAIN c \cup {p} |-> IF q = p THEN entry ELSE c[q]]
Oldest(c) == {CHOOSE p \in DOMAIN c : \A q \in DOMAIN c : c[p].when <= c[q].when}

\* Mutant: every name is kept.
CacheSet_AnyName(p, entry) ==
    LET unexpired == IF Cardinality(DOMAIN cache) < MaxCache THEN DOMAIN cache
                     ELSE {q \in DOMAIN cache : Fresh(cache[q])}
        kept == Restrict(cache, unexpired)
        room == IF Cardinality(unexpired) < MaxCache THEN kept
                ELSE Restrict(kept, unexpired \ Oldest(kept))
    IN Insert(room, p, entry)

\* cache_set: a name too long is not kept; at the cap the expired entries go,
\* and then, if it is still full, the oldest.
CacheSet(p, entry) ==
    LET unexpired == IF Cardinality(DOMAIN cache) < MaxCache THEN DOMAIN cache
                     ELSE {q \in DOMAIN cache : Fresh(cache[q])}
        kept == Restrict(cache, unexpired)
        room == IF Cardinality(unexpired) < MaxCache THEN kept
                ELSE Restrict(kept, unexpired \ Oldest(kept))
    IN IF p \in LongNames THEN cache ELSE Insert(room, p, entry)

\* The answer comes in time.
Answer(t) ==
    /\ pc[t] = "asked"
    /\ LET a == asked[t] IN
         /\ cache' = CacheSet(Head(pkgs[t]), [verdict |-> a.verdict, when |-> now, read |-> a.at])
         /\ Learn(t, a.verdict)
    /\ asked' = [asked EXCEPT ![t] = NotAsked]
    /\ UNCHANGED <<worldVars, req, allowed>>

\* Mutant: the package is asked for again.
QueryFails_Retries(t) ==
    /\ pc[t] = "asked"
    /\ asked' = [asked EXCEPT ![t] = NotAsked]
    /\ Goto(t, "osv")
    /\ UNCHANGED <<worldVars, cache, req, result, pkgs, consulted, allowed, owed>>

\* No connection, no JSON, or the timeout: the package is skipped.
QueryFails(t) ==
    /\ pc[t] = "asked"
    /\ pkgs' = [pkgs EXCEPT ![t] = Tail(@)]
    /\ owed' = [owed EXCEPT ![t] = @ \ {Head(pkgs[t])}]
    /\ asked' = [asked EXCEPT ![t] = NotAsked]
    /\ Goto(t, "osv")
    /\ UNCHANGED <<worldVars, cache, req, result, consulted, allowed>>

-----------------------------------------------------------------------------
(* The mark of the caller's process.                                       *)

\* caller_owns_pid; a request may name no process.
CheckOwner(t) ==
    LET p == req[t].pid
        owns == p # NoPid /\ (req[t].uid = Root \/ proc[p].owner = req[t].uid)
    IN /\ pc[t] = "osv" /\ pkgs[t] = <<>>
       /\ Goto(t, IF owns THEN "mark" ELSE "reply")
       /\ UNCHANGED <<worldVars, cache, req, result, pkgs, asked, consulted, allowed, owed>>

Escalation(level) == CASE level = "critical" -> "block" [] level = "high" -> "warn" [] OTHER -> "safe"

\* The level of the process that has the pid now.
ReadMark(t) ==
    LET v == Escalation(proc[req[t].pid].level) IN
    /\ pc[t] = "mark"
    /\ result' = [result EXCEPT ![t] = IF VerdictStrictlyWorse(@, v) THEN v ELSE @]
    /\ Signal(t, "mark", v)
    /\ Goto(t, "reply")
    /\ UNCHANGED <<worldVars, cache, req, pkgs, asked, allowed, owed>>

\* The thread is done; what it remembers of the request goes with it.
Reply(t) ==
    /\ pc[t] = "reply"
    /\ Goto(t, "idle")
    /\ req' = [req EXCEPT ![t] = NoRequest]
    /\ result' = [result EXCEPT ![t] = "safe"]
    /\ consulted' = [consulted EXCEPT ![t] = {}] /\ owed' = [owed EXCEPT ![t] = {}]
    /\ UNCHANGED <<worldVars, cache, pkgs, asked, allowed>>

-----------------------------------------------------------------------------
(* The rest of the world.                                                  *)

\* Time passes; a query that is as old as the timeout fails first.
Tick ==
    /\ now < MaxTime
    /\ \A t \in Threads : pc[t] = "asked" => now - asked[t].at < Timeout
    /\ now' = now + 1
    /\ UNCHANGED <<envVars, cache, requests, events, threadVars>>

Event == events < MaxEvents /\ events' = events + 1 /\ envVars' # envVars

\* An advisory is published, or all of a package's are withdrawn.
Publish(p, a) ==
    /\ upstream' = [upstream EXCEPT ![p] = IF a = "none" THEN {} ELSE @ \cup {a}]
    /\ UNCHANGED <<overlay, proc, cache, now, requests, threadVars>>
    /\ Event

\* atoms add, atoms remove, or a reload of the fetched corpus.
EditOverlay(as) ==
    /\ overlay' = as
    /\ UNCHANGED <<upstream, proc, cache, now, requests, threadVars>>
    /\ Event

\* The process of a pid is marked.
Mark(p, l) ==
    /\ proc[p] # Gone
    /\ proc' = [proc EXCEPT ![p].level = l]
    /\ UNCHANGED <<overlay, upstream, cache, now, requests, threadVars>>
    /\ Event

\* The process of a pid ends, or another, unmarked, gets the pid.
NewProcess(p, u) ==
    /\ proc' = [proc EXCEPT ![p] = IF u = "nobody" THEN Gone ELSE [owner |-> u, level |-> "low"]]
    /\ UNCHANGED <<overlay, upstream, cache, now, requests, threadVars>>
    /\ Event

-----------------------------------------------------------------------------
Init ==
    /\ overlay = {} /\ upstream \in StartUpstream
    /\ cache = [p \in {} |-> 0]
    /\ proc \in [Pids -> [owner : Uids \ {Root}, level : {"low"}]]
    /\ now = 0 /\ requests = 0 /\ events = 0
    /\ pc = [t \in Threads |-> "idle"]
    /\ req = [t \in Threads |-> NoRequest]
    /\ result = [t \in Threads |-> "safe"]
    /\ pkgs = [t \in Threads |-> <<>>]
    /\ asked = [t \in Threads |-> NotAsked]
    /\ consulted = [t \in Threads |-> {}]
    /\ allowed = [t \in Threads |-> Verdicts]
    /\ owed = [t \in Threads |-> {}]

Step(t) ==
    \/ ScanOverlay(t) \/ CacheHit(t) \/ Query(t) \/ Answer(t) \/ QueryFails(t)
    \/ CheckOwner(t) \/ ReadMark(t) \/ Reply(t)

Environment ==
    \/ Tick
    \/ \E p \in Packages, a \in {"advisory", "malicious", "none"} : Publish(p, a)
    \/ \E as \in SUBSET Atoms : EditOverlay(as)
    \/ \E p \in Pids, l \in {"low", "high", "critical"} : Mark(p, l)
    \/ \E p \in Pids, u \in Uids \cup {"nobody"} : NewProcess(p, u)

Next ==
    \/ \E t \in Threads : Step(t)
    \/ \E t \in Threads, c \in Classified, by \in Callers : Receive(t, c, by)
    \/ Environment

Spec == Init /\ [][Next]_vars /\ \A t \in Threads : WF_vars(Step(t))

-----------------------------------------------------------------------------
(* Properties.                                                             *)

Working(t) == pc[t] # "idle"

Advisories == {"advisory", "malicious"}
Entries == [verdict : Verdicts, when : 0..MaxTime, read : 0..MaxTime]

\* The type invariant.  An entry of the cache, and a query in flight, carry a
\* time that has been: Instant::elapsed and duration_since never run backwards
\* (osv.rs:215, 245).
TypeOK ==
    /\ overlay \subseteq Atoms
    /\ upstream \in [Packages -> SUBSET Advisories]
    /\ \A p \in DOMAIN cache : cache[p] \in Entries /\ cache[p].read <= cache[p].when /\ cache[p].when <= now
    /\ DOMAIN cache \subseteq Packages \ LongNames
    /\ proc \in [Pids -> [owner : Uids \cup {"nobody"}, level : {"low", "high", "critical"}]]
    /\ now \in 0..MaxTime /\ requests \in 0..MaxRequests /\ events \in 0..MaxEvents
    /\ pc \in [Threads -> {"idle", "overlay", "osv", "asked", "mark", "reply"}]
    /\ result \in [Threads -> Verdicts] /\ owed \in [Threads -> SUBSET Packages]
    /\ consulted \in [Threads -> SUBSET [by : {"classifier", "overlay", "osv", "mark"}, says : Verdicts]]
    /\ \A t \in Threads :
         /\ req[t].uid \in Uids /\ req[t].pid \in Pids \cup {NoPid} /\ req[t].needles \subseteq Atoms
         /\ pc[t] = "asked" => pkgs[t] # <<>> /\ asked[t].at <= now
         /\ Range(pkgs[t]) \subseteq Packages
         /\ asked[t].verdict \in Verdicts

\* "the strictest signal wins" (server.rs:970): the answer to a request is the
\* worst of what it consulted on its way, overlay, packages, mark, and is one of
\* those.  "A prepended benign package can't shadow a later malicious one"
\* (server.rs:920): every one of the first MaxProbed packages that the command
\* names has been asked about, though the service may have failed to answer,
\* unless one of them blocks already or the command was not safe to begin with,
\* to the classifier or to the overlay.
StrictestWins ==
    \A t \in Threads : pc[t] = "reply" =>
        /\ \E s \in consulted[t] : s.says = result[t]
        /\ \A s \in consulted[t] : Rank[s.says] <= Rank[result[t]]
        /\ \/ owed[t] = {} \/ result[t] = "block"
           \/ \E s \in consulted[t] : s.by \in {"classifier", "overlay"} /\ s.says # "safe"

\* What a verdict of the classifier takes.  It blocks only if a threshold is set
\* and the command shows two behaviours, "distinct signals" (classifier.rs:323)
\* counted by definition and the opinion of a model that was asked as one, or if
\* that opinion is to block; a behaviour that the first tier sees is never lost,
\* and nothing comes from nothing.
VerdictEarned == \A t \in Threads : pc[t] = "overlay" => result[t] \in allowed[t]

\* The cache stays within its cap although lookups fill it concurrently, and one
\* request never sends more queries than "the fan-out is capped" allows
\* (server.rs:923, osv.rs:163).
WorkBounded ==
    /\ Cardinality(DOMAIN cache) <= MaxCache
    /\ \A t \in Threads : Len(pkgs[t]) <= MaxProbed

\* "respect new disclosures" (osv.rs:49): what a lookup may still take from the
\* cache was read from the service less than a TTL and a timeout ago, also when
\* a slow answer has overwritten a later one.
AnswersFresh == \A p \in DOMAIN cache : Fresh(cache[p]) => now - cache[p].read < TTL + Timeout

\* A request is answered, whatever the service does: each lookup ends, at the
\* latest by its timeout, and a failed one is not repeated.
EveryRequestAnswered == \A t \in Threads : Working(t) ~> ~Working(t)

=============================================================================
