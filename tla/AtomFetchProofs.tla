-------------------------- MODULE AtomFetchProofs ---------------------------
(***************************************************************************)
(* Proofs about AtomFetch, for any sources, revisions, tarballs and pin    *)
(* files, any number of ticks, one-shots, kills, losses of power, edits    *)
(* and pushes.                                                             *)
(*                                                                         *)
(* A corpus is right if it is what the walks of its revisions give and if  *)
(* the revisions are ones the operator allowed.  The invariant follows it  *)
(* through every place it passes: what a fetcher has gathered, the file    *)
(* and what a power loss may leave of it, the copies that are being read,  *)
(* and the one in memory.                                                  *)
(***************************************************************************)
EXTENDS AtomFetch, FiniteSetTheorems, SequenceTheorems, WellFoundedInduction, TLAPS

Froms == [Sources -> Revs \cup {NoRev}]

\* The atoms the walks of the revisions give.
AtomsOf(from) == UNION {Walked[s][from[s]].atoms : s \in {x \in Sources : from[x] # NoRev}}

\* The atoms are those of the walks of the revisions, which were all accepted.
Gathered(atoms, from) ==
    /\ from \in Froms
    /\ \A s \in Sources : from[s] # NoRev => Walked[s][from[s]].ok
    /\ atoms = AtomsOf(from)

\* The revisions are ones the operator pinned, or of sources once live.
Permitted(from, lap, pin) == \A s \in Sources \ lap : from[s] \in pin[s] \cup {NoRev}

Corpus(c, lap, pin) ==
    /\ c \in Corpora /\ Gathered(c.atoms, c.from)
    /\ Cardinality(c.atoms) <= MaxAtoms
    /\ Permitted(c.from, lap, pin)

\* Pins that name a permitted revision of every source that was never live.
Binding(x, lap, pin) == \A s \in Sources \ lap : s \in DOMAIN x /\ x[s] \in pin[s]

\* The sources of the list q are distinct and have not been fetched.
Unvisited(q, from) ==
    /\ q \in Seq(Sources)
    /\ \A i, j \in 1..Len(q) : q[i] = q[j] => i = j
    /\ \A i \in 1..Len(q) : from[q[i]] = NoRev

PinsOK ==
    /\ pin_file \in PinSets \cup {Broken}
    /\ pin_file # Broken => Binding(pin_file, lapsed, pinned)
    /\ lapsed \subseteq Sources /\ pinned \in [Sources -> SUBSET Revs]
    /\ head \in [Sources -> Revs]
    /\ now \in Nat /\ snapshot \in [Sources -> 0..now]

Names == [corpus : Corpora, uid : {"none", "atty", "root"}, synced : {TRUE}]

\* Every name a power loss may leave behind is that of a whole, synced file.
FilesOK ==
    /\ file \in stable /\ stable \subseteq Names
    /\ \A n \in stable : Corpus(n.corpus, lapsed, pinned)
    /\ tmp \in [Pids -> {"none", "written", "synced"}]

MemOK ==
    /\ Corpus(mem, lapsed, pinned)
    /\ copy \in [Readers -> Corpora] /\ \A r \in Readers : Corpus(copy[r], lapsed, pinned)
    /\ load \in [Readers -> {"idle", "read", "install"}]
    /\ \A r \in Readers : load[r] # "idle" => Up
    /\ load["refresh"] # "idle" => pc["daemon"] = "reload"
    /\ ~Up => ~loaded /\ mem = NoCorpus

Steps == {"down", "stopped", "tick", "fetch", "rename", "reload", "drift", "sleep"}
Gatherings == [atoms : SUBSET UNION {Walked[s][r].atoms : s \in Sources, r \in Revs},
               from : Froms, any : BOOLEAN]

FetchTypes ==
    /\ pid \in [Fetchers -> Pids \cup {NoPid}] /\ uid \in [Fetchers -> {"none", "atty", "root"}]
    /\ pc \in [Fetchers -> Steps] /\ pins \in [Fetchers -> PinSets]
    /\ todo \in [Fetchers -> Seq(Sources)] /\ got \in [Fetchers -> Gatherings]
    /\ \A f, g \in Fetchers : f # g /\ pid[f] # NoPid => pid[f] # pid[g]

FetcherOK(f) ==
    /\ pid[f] = NoPid <=> pc[f] = "down"
    /\ pc[f] \notin {"down", "stopped"} => Binding(pins[f], lapsed, pinned)
    /\ Gathered(got[f].atoms, got[f].from) /\ Permitted(got[f].from, lapsed, pinned)
    /\ pc[f] \notin {"fetch", "rename"} => got[f] = NothingYet
    /\ pc[f] = "fetch" => Unvisited(todo[f], got[f].from)
    /\ pc[f] = "rename" => tmp[pid[f]] = "synced" /\ Cardinality(got[f].atoms) <= MaxAtoms

FetchInv == PinsOK /\ FilesOK /\ MemOK /\ FetchTypes /\ \A f \in Fetchers : FetcherOK(f)

-----------------------------------------------------------------------------
(* Corpora.                                                                *)

LEMMA SourceFacts ==
    /\ Sources # {} /\ "torn" \notin Revs \cup {NoRev}
    /\ \A from \in Froms : (\A s \in Sources : from[s] = NoRev) => Unvisited(SourceList, from)
  <1>1. SourceList \in Seq(Sources) /\ SourceList # <<>> BY AtomFetchAssumption
  <1>2. Len(SourceList) \in Nat \ {0} /\ DOMAIN SourceList = 1..Len(SourceList)
    BY <1>1, EmptySeq, LenProperties
  <1>3. SourceList[1] \in Sources BY <1>1, <1>2, ElementOfSeq
  <1>4. \A i, j \in 1..Len(SourceList) : SourceList[i] = SourceList[j] => i = j
    BY <1>2, AtomFetchAssumption DEF IsInjective
  <1>5. \A i \in 1..Len(SourceList) : SourceList[i] \in Sources BY <1>1, ElementOfSeq
  <1>6. "torn" \notin Revs \cup {NoRev} BY AtomFetchAssumption DEF NoRev
  <1> QED BY <1>1, <1>3, <1>4, <1>5, <1>6 DEF Unvisited

LEMMA RemovedIsPins == Removed \in PinSets
  <1>1. Removed \in [{} -> Revs] BY DEF Removed
  <1>2. {} \in SUBSET Sources OBVIOUS
  <1> QED BY <1>1, <1>2 DEF PinSets

LEMMA EmptyCorpus ==
    /\ NoCorpus \in Corpora /\ NothingYet \in Gatherings
    /\ NothingYet.atoms = {} /\ NothingYet.from \in Froms
    /\ \A s \in Sources : NothingYet.from[s] = NoRev
    /\ Gathered(NothingYet.atoms, NothingYet.from)
    /\ \A lap, pin : Corpus(NoCorpus, lap, pin) /\ Permitted(NothingYet.from, lap, pin)
  <1> DEFINE none == [s \in Sources |-> NoRev]
  <1>1. none \in Froms /\ \A s \in Sources : none[s] = NoRev BY DEF Froms
  <1>2. /\ NoCorpus = [atoms |-> {}, from |-> none]
        /\ NothingYet = [atoms |-> {}, from |-> none, any |-> FALSE]
    BY DEF NoCorpus, NothingYet
  <1> HIDE DEF none
  <1>3. NoCorpus \in Corpora BY <1>1, <1>2 DEF Corpora, Froms
  <1>4. NothingYet \in Gatherings BY <1>1, <1>2 DEF Gatherings
  <1>5. Gathered({}, none)
    <2>1. AtomsOf(none) = {} BY <1>1 DEF AtomsOf
    <2> QED BY <1>1, <2>1 DEF Gathered
  <1>6. \A lap, pin : Permitted(none, lap, pin) BY <1>1 DEF Permitted
  <1>7. Cardinality({}) <= MaxAtoms BY FS_EmptySet, AtomFetchAssumption
  <1> QED BY <1>1, <1>2, <1>3, <1>4, <1>5, <1>6, <1>7 DEF Corpus

\* What was permitted stays permitted when sources lapse or pins are added.
LEMMA PermittedGrows ==
    ASSUME NEW lap, NEW pin, NEW lap2, NEW pin2, lap \subseteq lap2,
           \A s \in Sources : pin[s] \subseteq pin2[s]
    PROVE  /\ \A c : Corpus(c, lap, pin) => Corpus(c, lap2, pin2)
           /\ \A x : Binding(x, lap, pin) => Binding(x, lap2, pin2)
           /\ \A from : Permitted(from, lap, pin) => Permitted(from, lap2, pin2)
  <1>1. \A from : Permitted(from, lap, pin) => Permitted(from, lap2, pin2) BY DEF Permitted
  <1>2. \A x : Binding(x, lap, pin) => Binding(x, lap2, pin2) BY DEF Binding
  <1> QED BY <1>1, <1>2 DEF Corpus

LEMMA UnvisitedTail ==
    ASSUME NEW q, NEW from \in Froms, Unvisited(q, from), q # <<>>, NEW r
    PROVE  /\ Head(q) \in Sources /\ from[Head(q)] = NoRev
           /\ Unvisited(Tail(q), from) /\ Unvisited(Tail(q), [from EXCEPT ![Head(q)] = r])
  <1> DEFINE s == Head(q)
             u == Tail(q)
  <1>1. q \in Seq(Sources) /\ Len(q) \in Nat \ {0} BY EmptySeq DEF Unvisited
  <1>2. /\ s \in Sources /\ s = q[1] /\ u \in Seq(Sources) /\ Len(u) = Len(q) - 1
        /\ \A i \in 1..Len(u) : u[i] = q[i + 1]
    BY <1>1, HeadTailProperties
  <1> HIDE DEF s, u
  <1>3. 1 \in 1..Len(q) /\ \A i \in 1..Len(u) : i + 1 \in 1..Len(q) /\ i + 1 # 1 BY <1>1, <1>2
  <1>4. from[s] = NoRev BY <1>2, <1>3 DEF Unvisited
  <1>5. \A i \in 1..Len(u) : u[i] \in Sources /\ u[i] # s /\ from[u[i]] = NoRev
    BY <1>2, <1>3, ElementOfSeq DEF Unvisited
  <1>6. \A i, j \in 1..Len(u) : u[i] = u[j] => i = j
    <2> SUFFICES ASSUME NEW i \in 1..Len(u), NEW j \in 1..Len(u), u[i] = u[j] PROVE i = j
      OBVIOUS
    <2>1. i + 1 = j + 1 BY <1>2, <1>3 DEF Unvisited
    <2> QED BY <1>1, <1>2, <2>1
  <1>7. \A i \in 1..Len(u) : [from EXCEPT ![s] = r][u[i]] = NoRev BY <1>5 DEF Froms
  <1> QED BY <1>2, <1>4, <1>5, <1>6, <1>7 DEF Unvisited, s, u

LEMMA AtomsOfMember ==
    ASSUME NEW from
    PROVE  \A a : a \in AtomsOf(from)
             <=> \E x \in Sources : from[x] # NoRev /\ a \in Walked[x][from[x]].atoms
  BY DEF AtomsOf

\* A source that has not been fetched adds the atoms of its walk.
LEMMA GatherOne ==
    ASSUME NEW atoms, NEW from, Gathered(atoms, from), NEW s \in Sources, from[s] = NoRev,
           NEW r \in Revs, Walked[s][r].ok
    PROVE  Gathered(atoms \cup Walked[s][r].atoms, [from EXCEPT ![s] = r])
  <1> DEFINE from2 == [from EXCEPT ![s] = r]
             w == Walked[s][r].atoms
  <1>1. r # NoRev BY AtomFetchAssumption
  <1>2. from2 \in Froms /\ from2[s] = r /\ \A x \in Sources \ {s} : from2[x] = from[x]
    BY DEF Gathered, Froms
  <1> HIDE DEF from2
  <1>4. \A x \in Sources : from2[x] # NoRev => Walked[x][from2[x]].ok
    BY <1>2 DEF Gathered
  <1>5. \A a : a \in AtomsOf(from2) <=> a \in AtomsOf(from) \/ a \in w
    <2>1. \A a : a \in AtomsOf(from)
            <=> \E x \in Sources : from[x] # NoRev /\ a \in Walked[x][from[x]].atoms
      BY AtomsOfMember
    <2>2. \A a : a \in AtomsOf(from2)
            <=> \E x \in Sources : from2[x] # NoRev /\ a \in Walked[x][from2[x]].atoms
      BY AtomsOfMember
    <2> QED BY <1>1, <1>2, <2>1, <2>2
  <1> HIDE DEF w
  <1>6. AtomsOf(from2) = AtomsOf(from) \cup w BY <1>5
  <1>7. Gathered(atoms \cup w, from2) BY <1>2, <1>4, <1>6 DEF Gathered
  <1> QED BY <1>7 DEF from2, w

LEMMA FetchInit == Init => FetchInv
  <1> SUFFICES ASSUME Init PROVE FetchInv OBVIOUS
  <1>1. PinsOK
    <2>1. pin_file \in PinSets \cup {Broken} BY AtomFetchAssumption DEF Init
    <2>2. ASSUME pin_file # Broken
          PROVE  Binding(pin_file, lapsed, pinned) /\ pinned \in [Sources -> SUBSET Revs]
      <3>1. pin_file \in PinSets BY <2>1, <2>2
      <3>2. \A s \in DOMAIN pin_file : pin_file[s] \in Revs BY <3>1 DEF PinSets
      <3> QED BY <2>2, <3>2 DEF Init, Binding
    <2>3. lapsed \subseteq Sources /\ pinned \in [Sources -> SUBSET Revs] BY <2>2 DEF Init
    <2>4. now \in Nat /\ snapshot \in [Sources -> 0..now] BY DEF Init
    <2> QED BY <2>1, <2>2, <2>3, <2>4, AtomFetchAssumption DEF PinsOK, Init
  <1>2. FilesOK
    <2>1. NoFile \in Names /\ NoFile.corpus = NoCorpus BY EmptyCorpus DEF NoFile, Names
    <2> QED BY <2>1, EmptyCorpus DEF Init, FilesOK
  <1>3. MemOK BY EmptyCorpus DEF Init, MemOK, Up, Readers, Fetchers
  <1>4. FetchTypes
    <2>2. <<>> \in Seq(Sources) BY EmptySeq
    <2> QED BY <2>2, RemovedIsPins, EmptyCorpus DEF Init, FetchTypes, Steps
  <1>5. ASSUME NEW f \in Fetchers PROVE FetcherOK(f)
    <2>1. pc[f] = "down" /\ pid[f] = NoPid /\ got[f] = NothingYet BY DEF Init
    <2> QED BY <2>1, EmptyCorpus DEF FetcherOK
  <1> QED BY <1>1, <1>2, <1>3, <1>4, <1>5 DEF FetchInv

-----------------------------------------------------------------------------
(* What a step leaves alone.                                               *)

LEMMA PinsFrame ==
    ASSUME PinsOK, UNCHANGED <<pin_file, lapsed, pinned, head, now, snapshot>>
    PROVE  PinsOK'
  BY DEF PinsOK

LEMMA FilesFrame ==
    ASSUME FilesOK, UNCHANGED <<file, stable, tmp, lapsed, pinned>>
    PROVE  FilesOK'
  BY DEF FilesOK

LEMMA MemFrame ==
    ASSUME MemOK, UNCHANGED <<mem, loaded, load, copy, lapsed, pinned>>, Up' <=> Up,
           pc'["daemon"] = pc["daemon"] \/ pc["daemon"] # "reload"
    PROVE  MemOK'
  BY DEF MemOK

LEMMA FetcherFrame ==
    ASSUME NEW f, FetcherOK(f), pid'[f] = pid[f], pc'[f] = pc[f], pins'[f] = pins[f],
           todo'[f] = todo[f], got'[f] = got[f], UNCHANGED <<lapsed, pinned>>,
           pc[f] = "rename" => tmp'[pid[f]] = tmp[pid[f]]
    PROVE  FetcherOK(f)'
  BY DEF FetcherOK

-----------------------------------------------------------------------------
(* Fetching.                                                               *)

LEMMA TickKeepsInv ==
    ASSUME FetchInv, pc["daemon"] \in {"tick", "sleep"}, Tick,
           UNCHANGED <<head, pin_file, lapsed, pinned, file, stable, tmp, snapshot, mem, loaded,
                       load, copy, pid, uid, got>>
    PROVE  FetchInv'
  <1> DEFINE d == "daemon"
  <1>0. /\ now' = now + 1 /\ pins' = [pins EXCEPT ![d] = Reloaded(pins[d])]
        /\ todo' = [todo EXCEPT ![d] = SourceList] /\ pc' = [pc EXCEPT ![d] = "fetch"]
    BY DEF Tick, Goto
  <1>1. PinsOK /\ FilesOK /\ MemOK /\ FetchTypes /\ FetcherOK(d) /\ d \in Fetchers
    BY DEF FetchInv, Fetchers
  <1>2. Reloaded(pins[d]) \in PinSets /\ Binding(Reloaded(pins[d]), lapsed, pinned)
    BY <1>1 DEF Reloaded, PinsOK, FetchTypes, FetcherOK
  <1>3. got[d] = NothingYet BY <1>1 DEF FetcherOK
  <1>4. SourceList \in Seq(Sources) BY AtomFetchAssumption
  <1>5. FetchTypes' BY <1>0, <1>1, <1>2, <1>4 DEF FetchTypes, Steps
  <1>6. FetcherOK(d)'
    <2>1. /\ pc'[d] = "fetch" /\ pins'[d] = Reloaded(pins[d]) /\ todo'[d] = SourceList
          /\ got'[d] = NothingYet
      BY <1>0, <1>1, <1>3 DEF FetchTypes
    <2>2. Unvisited(SourceList, NothingYet.from) BY SourceFacts, EmptyCorpus
    <2>3. pid[d] # NoPid BY <1>1 DEF FetcherOK
    <2> QED BY <1>2, <2>1, <2>2, <2>3, EmptyCorpus DEF FetcherOK
  <1>7. ASSUME NEW g \in Fetchers, g # d PROVE FetcherOK(g)'
    <2>1. /\ pc'[g] = pc[g] /\ pins'[g] = pins[g] /\ todo'[g] = todo[g]
      BY <1>0, <1>1, <1>7 DEF FetchTypes
    <2> QED BY <2>1, FetcherFrame DEF FetchInv
  <1>8. FilesOK' /\ MemOK' BY <1>1, FilesFrame, MemFrame DEF Up
  <1>9. PinsOK' BY <1>0, <1>1 DEF PinsOK
  <1> QED BY <1>5, <1>6, <1>7, <1>8, <1>9 DEF FetchInv

LEMMA FirstTickKeepsInv == ASSUME FetchInv, FirstTick PROVE FetchInv'
  BY TickKeepsInv DEF FirstTick, pinVars, diskVars, driftVars, memVars

LEMMA WakeKeepsInv == ASSUME FetchInv, Wake PROVE FetchInv'
  <1> DEFINE d == "daemon"
  <1>1. /\ pc[d] = "sleep"
        /\ UNCHANGED <<head, pin_file, lapsed, pinned, file, stable, tmp, snapshot, mem, loaded,
                       load, copy, pid, uid, got>>
    BY DEF Wake, pinVars, diskVars, driftVars, memVars
  <1>2. CASE requested
    <2>1. pc' = [pc EXCEPT ![d] = "stopped"] /\ UNCHANGED <<now, pins, todo>>
      BY <1>2 DEF Wake, Goto
    <2>2. PinsOK /\ FilesOK /\ MemOK /\ FetchTypes /\ FetcherOK(d) /\ d \in Fetchers
      BY DEF FetchInv, Fetchers
    <2>3. FetchTypes' /\ pc'[d] = "stopped" /\ \A g \in Fetchers \ {d} : pc'[g] = pc[g]
      BY <1>1, <2>1, <2>2 DEF FetchTypes, Steps
    <2>4. FetcherOK(d)' BY <1>1, <2>1, <2>2, <2>3 DEF FetcherOK
    <2>5. ASSUME NEW g \in Fetchers, g # d PROVE FetcherOK(g)'
      BY <1>1, <2>1, <2>3, <2>5, FetcherFrame DEF FetchInv
    <2>6. FilesOK' /\ MemOK' /\ PinsOK'
      BY <1>1, <2>1, <2>2, FilesFrame, MemFrame, PinsFrame DEF Up
    <2> QED BY <2>3, <2>4, <2>5, <2>6 DEF FetchInv
  <1>3. CASE ~requested
    <2>1. Tick BY <1>3 DEF Wake
    <2> QED BY <1>1, <2>1, TickKeepsInv
  <1> QED BY <1>2, <1>3

LEMMA FetchOneKeepsInv == ASSUME FetchInv, NEW f \in Fetchers, FetchOne(f) PROVE FetchInv'
  <1> DEFINE s == Head(todo[f])
             G(sent) == [atoms |-> got[f].atoms \cup Walked[s][sent].atoms,
                         from |-> [got[f].from EXCEPT ![s] = sent],
                         any |-> got[f].any \/ Walked[s][sent].atoms # {}]
  <1>1. /\ pc[f] = "fetch" /\ todo[f] # <<>> /\ todo' = [todo EXCEPT ![f] = Tail(@)]
        /\ UNCHANGED <<head, pin_file, lapsed, pinned, file, stable, tmp, snapshot, mem, loaded,
                       load, copy, pid, uid, pc, pins, now>>
    BY DEF FetchOne, pinVars, diskVars, driftVars, memVars
  <1>2. \/ got' = got
        \/ \E sent \in IF s \in DOMAIN pins[f] THEN Revs ELSE {head[s]} :
             /\ DigestOk(f, s, sent) /\ Walked[s][sent].ok
             /\ got' = [got EXCEPT ![f] = G(sent)]
    BY DEF FetchOne
  <1>3. PinsOK /\ FilesOK /\ MemOK /\ FetchTypes /\ FetcherOK(f) BY DEF FetchInv
  <1>4. Unvisited(todo[f], got[f].from) /\ got[f].from \in Froms
    BY <1>1, <1>3 DEF FetcherOK, Gathered
  <1>5. /\ s \in Sources /\ got[f].from[s] = NoRev /\ Unvisited(Tail(todo[f]), got[f].from)
        /\ \A r : Unvisited(Tail(todo[f]), [got[f].from EXCEPT ![s] = r])
    BY <1>1, <1>4, UnvisitedTail
  <1> HIDE DEF s
  <1>6. /\ todo' \in [Fetchers -> Seq(Sources)] /\ todo'[f] = Tail(todo[f])
        /\ \A g \in Fetchers \ {f} : todo'[g] = todo[g]
    BY <1>1, <1>3, <1>5 DEF FetchTypes, Unvisited
  <1>7. PinsOK' /\ FilesOK' /\ MemOK' BY <1>1, <1>3, PinsFrame, FilesFrame, MemFrame DEF Up
  <1>8. ASSUME got' \in [Fetchers -> Gatherings],
               Gathered(got'[f].atoms, got'[f].from), Permitted(got'[f].from, lapsed, pinned),
               Unvisited(Tail(todo[f]), got'[f].from), \A g \in Fetchers \ {f} : got'[g] = got[g]
        PROVE  FetchInv'
    <2>1. FetchTypes' BY <1>1, <1>3, <1>6, <1>8 DEF FetchTypes
    <2>2. FetcherOK(f)' BY <1>1, <1>3, <1>6, <1>8 DEF FetcherOK
    <2>3. ASSUME NEW g \in Fetchers, g # f PROVE FetcherOK(g)'
      BY <1>1, <1>6, <1>8, <2>3, FetcherFrame DEF FetchInv
    <2> QED BY <1>7, <2>1, <2>2, <2>3 DEF FetchInv
  <1>9. CASE got' = got
    BY <1>3, <1>5, <1>8, <1>9 DEF FetchTypes, FetcherOK
  <1>10. ASSUME NEW sent \in IF s \in DOMAIN pins[f] THEN Revs ELSE {head[s]},
                DigestOk(f, s, sent), Walked[s][sent].ok, got' = [got EXCEPT ![f] = G(sent)]
         PROVE  FetchInv'
    <2> DEFINE w == Walked[s][sent].atoms
               from2 == [got[f].from EXCEPT ![s] = sent]
    <2>1. sent \in Revs BY <1>3, <1>5 DEF PinsOK
    <2>2. Gathered(got[f].atoms \cup w, from2)
      BY <1>3, <1>5, <1>10, <2>1, GatherOne DEF FetcherOK
    <2>3. s \in lapsed \/ sent \in pinned[s]
      <3>1. Binding(pins[f], lapsed, pinned) BY <1>1, <1>3 DEF FetcherOK
      <3> QED BY <1>5, <1>10, <3>1 DEF Binding, DigestOk
    <2>4. from2 \in Froms /\ from2[s] = sent /\ \A x \in Sources \ {s} : from2[x] = got[f].from[x]
      BY <1>4, <1>5, <2>1 DEF Froms
    <2>5. Unvisited(Tail(todo[f]), from2) BY <1>5
    <2>6. got[f].atoms \cup w \in SUBSET UNION {Walked[x][r].atoms : x \in Sources, r \in Revs}
      <3>1. w \subseteq UNION {Walked[x][r].atoms : x \in Sources, r \in Revs}
        BY <1>5, <2>1
      <3> QED BY <1>3, <3>1 DEF FetchTypes, Gatherings
    <2> HIDE DEF from2, w
    <2>7. Permitted(from2, lapsed, pinned)
      BY <1>3, <2>3, <2>4 DEF Permitted, FetcherOK
    <2>8. G(sent) = [atoms |-> got[f].atoms \cup w, from |-> from2,
                     any |-> got[f].any \/ Walked[s][sent].atoms # {}]
      BY DEF from2, w
    <2> HIDE DEF G
    <2>9. G(sent) \in Gatherings /\ G(sent).atoms = got[f].atoms \cup w /\ G(sent).from = from2
      <3>1. (got[f].any \/ Walked[s][sent].atoms # {}) \in BOOLEAN OBVIOUS
      <3> QED BY <2>4, <2>6, <2>8, <3>1 DEF Gatherings
    <2>10. /\ got' \in [Fetchers -> Gatherings] /\ got'[f] = G(sent)
           /\ \A g \in Fetchers \ {f} : got'[g] = got[g]
      BY <1>3, <1>10, <2>9 DEF FetchTypes
    <2> QED BY <1>8, <2>2, <2>5, <2>7, <2>9, <2>10
  <1> QED BY <1>2, <1>9, <1>10

\* The end of fetch_all, for whichever reason.
LEMMA DoneOK ==
    ASSUME FetchInv, NEW f \in Fetchers, pc[f] \in {"fetch", "rename"},
           NEW l \in {"sleep", "reload"}, Done(f, l), UNCHANGED <<todo, lapsed, pinned>>,
           \A g \in Fetchers \ {f} : pc[g] = "rename" => tmp'[pid[g]] = tmp[pid[g]]
    PROVE  /\ FetchTypes' /\ \A g \in Fetchers : FetcherOK(g)'
           /\ Up' <=> Up
           /\ f = "daemon" => pc'["daemon"] = l
           /\ f # "daemon" => pc'["daemon"] = pc["daemon"]
  <1>1. FetchTypes /\ FetcherOK(f) /\ "daemon" \in Fetchers BY DEF FetchInv, Fetchers
  <1>2. /\ got' = [got EXCEPT ![f] = NothingYet]
        /\ got' \in [Fetchers -> Gatherings] /\ got'[f] = NothingYet
        /\ \A g \in Fetchers \ {f} : got'[g] = got[g]
    BY <1>1, EmptyCorpus DEF Done, FetchTypes
  <1>3. CASE f = "daemon"
    <2>1. pc' = [pc EXCEPT ![f] = l] /\ UNCHANGED <<pid, uid, pins>>
      BY <1>3 DEF Done, Goto
    <2>2. /\ pc' \in [Fetchers -> Steps] /\ pc'[f] = l
          /\ \A g \in Fetchers \ {f} : pc'[g] = pc[g]
      BY <1>1, <2>1 DEF FetchTypes, Steps
    <2>3. FetchTypes' BY <1>1, <1>2, <2>1, <2>2 DEF FetchTypes
    <2>4. FetcherOK(f)' BY <1>1, <1>2, <2>1, <2>2, EmptyCorpus DEF FetcherOK
    <2>5. ASSUME NEW g \in Fetchers \ {f} PROVE FetcherOK(g)'
      BY <1>2, <2>1, <2>2, FetcherFrame DEF FetchInv
    <2> QED BY <1>3, <2>1, <2>2, <2>3, <2>4, <2>5 DEF Up
  <1>4. CASE f # "daemon"
    <2>1. /\ pc' = [pc EXCEPT ![f] = "down"] /\ pid' = [pid EXCEPT ![f] = NoPid]
          /\ uid' = [uid EXCEPT ![f] = "none"] /\ pins' = [pins EXCEPT ![f] = Removed]
      BY <1>4 DEF Done, Goto
    <2>3. /\ pc' \in [Fetchers -> Steps] /\ pc'[f] = "down"
          /\ pid' \in [Fetchers -> Pids \cup {NoPid}] /\ pid'[f] = NoPid
          /\ uid' \in [Fetchers -> {"none", "atty", "root"}] /\ pins' \in [Fetchers -> PinSets]
          /\ \A g \in Fetchers \ {f} :
               pc'[g] = pc[g] /\ pid'[g] = pid[g] /\ pins'[g] = pins[g]
      BY <1>1, <2>1, RemovedIsPins DEF FetchTypes, Steps
    <2>2. \A g, h \in Fetchers : g # h /\ pid'[g] # NoPid => pid'[g] # pid'[h]
      BY <1>1, <2>3 DEF FetchTypes
    <2>4. FetchTypes' BY <1>1, <1>2, <2>2, <2>3 DEF FetchTypes
    <2>5. FetcherOK(f)' BY <1>2, <2>3, EmptyCorpus DEF FetcherOK
    <2>6. ASSUME NEW g \in Fetchers \ {f} PROVE FetcherOK(g)'
      BY <1>2, <2>3, FetcherFrame DEF FetchInv
    <2> QED BY <1>1, <1>4, <2>3, <2>4, <2>5, <2>6 DEF Up
  <1> QED BY <1>3, <1>4

LEMMA CreateKeepsInv == ASSUME FetchInv, NEW f \in Fetchers, Create(f) PROVE FetchInv'
  <1>1. /\ pc[f] = "fetch"
        /\ UNCHANGED <<file, stable, head, pin_file, lapsed, pinned, snapshot, mem, loaded, copy,
                       todo, now>>
    BY DEF Create, writeUnchanged, pinVars, driftVars
  <1>2. PinsOK /\ FilesOK /\ MemOK /\ FetchTypes /\ FetcherOK(f) BY DEF FetchInv
  <1>3. PinsOK' BY <1>1, <1>2, PinsFrame
  <1>4. CASE /\ Cardinality(got[f].atoms) <= MaxAtoms
             /\ tmp' = [tmp EXCEPT ![pid[f]] = "synced"] /\ Goto(f, "rename")
             /\ UNCHANGED <<got, load, pid, uid, pins>>
    <2>1. pid[f] \in Pids /\ pid[f] # NoPid BY <1>1, <1>2 DEF FetcherOK, FetchTypes
    <2>2. /\ tmp' \in [Pids -> {"none", "written", "synced"}] /\ tmp'[pid[f]] = "synced"
          /\ \A p \in Pids \ {pid[f]} : tmp'[p] = tmp[p]
      BY <1>2, <1>4, <2>1 DEF FilesOK
    <2>3. /\ pc' \in [Fetchers -> Steps] /\ pc'[f] = "rename"
          /\ \A g \in Fetchers \ {f} : pc'[g] = pc[g]
      BY <1>2, <1>4 DEF FetchTypes, Steps, Goto
    <2>4. FilesOK' BY <1>1, <1>2, <2>2 DEF FilesOK
    <2>5. Up' <=> Up BY <1>4 DEF Up
    <2>6. MemOK'
      <3>1. pc'["daemon"] = pc["daemon"] \/ pc["daemon"] # "reload"
        BY <1>1, <2>3 DEF Fetchers
      <3> QED BY <1>1, <1>2, <1>4, <2>5, <3>1, MemFrame
    <2>7. FetchTypes' BY <1>1, <1>2, <1>4, <2>3 DEF FetchTypes
    <2>8. FetcherOK(f)' BY <1>1, <1>2, <1>4, <2>1, <2>2, <2>3 DEF FetcherOK
    <2>9. ASSUME NEW g \in Fetchers \ {f} PROVE FetcherOK(g)'
      <3>1. pc[g] = "rename" => pid[g] \in Pids \ {pid[f]}
        BY <1>2, <2>1 DEF FetchInv, FetchTypes, FetcherOK
      <3>2. pc[g] = "rename" => tmp'[pid[g]] = tmp[pid[g]] BY <2>2, <3>1
      <3> QED BY <1>1, <1>4, <2>3, <3>2, FetcherFrame DEF FetchInv
    <2> QED BY <1>3, <2>4, <2>6, <2>7, <2>8, <2>9 DEF FetchInv
  <1>5. CASE tmp' = tmp /\ Done(f, "sleep") /\ load' = load
    <2>1. /\ FetchTypes' /\ \A g \in Fetchers : FetcherOK(g)'
          /\ Up' <=> Up
          /\ pc'["daemon"] = pc["daemon"] \/ pc["daemon"] # "reload"
      BY <1>1, <1>5, DoneOK
    <2>2. FilesOK' BY <1>1, <1>2, <1>5, FilesFrame
    <2>3. MemOK' BY <1>1, <1>2, <1>5, <2>1, MemFrame
    <2> QED BY <1>3, <2>1, <2>2, <2>3 DEF FetchInv
  <1> QED BY <1>4, <1>5 DEF Create, Fails

LEMMA RenameKeepsInv == ASSUME FetchInv, NEW f \in Fetchers, Rename(f) PROVE FetchInv'
  <1>1. /\ pc[f] = "rename"
        /\ UNCHANGED <<head, pin_file, lapsed, pinned, snapshot, mem, loaded, copy, todo, now>>
    BY DEF Rename, writeUnchanged, pinVars, driftVars
  <1>2. PinsOK /\ FilesOK /\ MemOK /\ FetchTypes /\ FetcherOK(f) BY DEF FetchInv
  <1>3. PinsOK' BY <1>1, <1>2, PinsFrame
  <1>4. CASE /\ file' = [corpus |-> [atoms |-> got[f].atoms, from |-> got[f].from],
                         uid |-> uid[f], synced |-> tmp[pid[f]] = "synced"]
             /\ stable' \in {{file'}, stable \cup {file'}}
             /\ tmp' = [tmp EXCEPT ![pid[f]] = "none"] /\ Done(f, "reload")
             /\ load' = IF f = "daemon" THEN [load EXCEPT !["refresh"] = "read"] ELSE load
    <2> DEFINE c == [atoms |-> got[f].atoms, from |-> got[f].from]
    <2>1. pid[f] \in Pids /\ pid[f] # NoPid BY <1>1, <1>2 DEF FetcherOK, FetchTypes
    <2>2. /\ tmp' \in [Pids -> {"none", "written", "synced"}]
          /\ \A p \in Pids \ {pid[f]} : tmp'[p] = tmp[p]
      BY <1>2, <1>4, <2>1 DEF FilesOK
    <2>3. \A g \in Fetchers \ {f} : pc[g] = "rename" => tmp'[pid[g]] = tmp[pid[g]]
      BY <1>2, <2>1, <2>2 DEF FetchInv, FetchTypes, FetcherOK
    <2>4. /\ FetchTypes' /\ \A g \in Fetchers : FetcherOK(g)'
          /\ Up' <=> Up
          /\ f = "daemon" => pc'["daemon"] = "reload"
          /\ f # "daemon" => pc'["daemon"] = pc["daemon"]
      BY <1>1, <1>4, <2>3, DoneOK
    <2>5. c \in Corpora /\ c.atoms = got[f].atoms /\ c.from = got[f].from
      BY <1>2 DEF FetchTypes, Gatherings, Corpora, Froms
    <2> HIDE DEF c
    <2>6. Corpus(c, lapsed, pinned) BY <1>1, <1>2, <2>5 DEF Corpus, FetcherOK
    <2>7. file' = [corpus |-> c, uid |-> uid[f], synced |-> TRUE]
      BY <1>1, <1>2, <1>4 DEF c, FetcherOK
    <2>8. file' \in Names /\ file'.corpus = c BY <1>2, <2>5, <2>7 DEF Names, FetchTypes
    <2>9. FilesOK' BY <1>1, <1>2, <1>4, <2>2, <2>6, <2>8 DEF FilesOK
    <2>10. MemOK'
      <3>1. CASE f = "daemon"
        <4>1. Up /\ "refresh" \in Readers BY <2>1, <3>1 DEF Up, Readers
        <4>2. load' \in [Readers -> {"idle", "read", "install"}] BY <1>2, <1>4, <3>1 DEF MemOK
        <4> QED BY <1>1, <1>2, <2>4, <3>1, <4>1, <4>2 DEF MemOK
      <3>2. CASE f # "daemon" BY <1>1, <1>2, <1>4, <2>4, <3>2, MemFrame
      <3> QED BY <3>1, <3>2
    <2> QED BY <1>3, <2>4, <2>9, <2>10 DEF FetchInv
  <1>5. CASE Done(f, "sleep") /\ load' = load /\ UNCHANGED <<file, stable, tmp>>
    <2>1. /\ FetchTypes' /\ \A g \in Fetchers : FetcherOK(g)'
          /\ Up' <=> Up
          /\ pc'["daemon"] = pc["daemon"] \/ pc["daemon"] # "reload"
      BY <1>1, <1>5, DoneOK
    <2>2. FilesOK' BY <1>1, <1>2, <1>5, FilesFrame
    <2>3. MemOK' BY <1>1, <1>2, <1>5, <2>1, MemFrame
    <2> QED BY <1>3, <2>1, <2>2, <2>3 DEF FetchInv
  <1> QED BY <1>4, <1>5 DEF Rename, Fails, diskVars

-----------------------------------------------------------------------------
(* Loading and the drift.                                                  *)

LEMMA ClassifyKeepsInv == ASSUME FetchInv, Classify PROVE FetchInv'
  <1>1. /\ Up /\ load' = [load EXCEPT !["server"] = "read"]
        /\ UNCHANGED <<mem, loaded, copy, pc, head, pin_file, lapsed, pinned, file, stable, tmp,
                       snapshot, pid, uid, pins, todo, got, now>>
    BY DEF Classify, readUnchanged, pinVars, diskVars, driftVars
  <1>2. PinsOK /\ FilesOK /\ MemOK /\ FetchTypes BY DEF FetchInv
  <1>3. PinsOK' /\ FilesOK' BY <1>1, <1>2, PinsFrame, FilesFrame
  <1>4. FetchTypes' BY <1>1, <1>2 DEF FetchTypes
  <1>5. ASSUME NEW g \in Fetchers PROVE FetcherOK(g)' BY <1>1, FetcherFrame DEF FetchInv
  <1>6. load' \in [Readers -> {"idle", "read", "install"}] /\ load'["refresh"] = load["refresh"]
    BY <1>1, <1>2 DEF MemOK, Readers
  <1>7. MemOK' BY <1>1, <1>2, <1>6 DEF MemOK, Up
  <1> QED BY <1>3, <1>4, <1>5, <1>7 DEF FetchInv

\* A load that is over: the refresh thread goes on to the drift.
LEMMA AfterLoadOK ==
    ASSUME FetchInv, NEW r \in Readers, load[r] # "idle", AfterLoad(r),
           UNCHANGED <<lapsed, pinned, tmp, pid, uid, pins, todo, got>>
    PROVE  /\ FetchTypes' /\ \A g \in Fetchers : FetcherOK(g)'
           /\ r = "refresh" \/ pc' = pc
  <1>1. MemOK /\ FetchTypes /\ "daemon" \in Fetchers BY DEF FetchInv, Fetchers
  <1>2. CASE r = "refresh"
    <2>1. pc["daemon"] = "reload" /\ pc' = [pc EXCEPT !["daemon"] = "drift"]
      BY <1>1, <1>2 DEF MemOK, AfterLoad, Goto
    <2>2. /\ pc' \in [Fetchers -> Steps] /\ pc'["daemon"] = "drift"
          /\ \A g \in Fetchers \ {"daemon"} : pc'[g] = pc[g]
      BY <1>1, <2>1 DEF FetchTypes, Steps
    <2>3. FetchTypes' BY <1>1, <2>2 DEF FetchTypes
    <2>4. FetcherOK("daemon")' BY <1>1, <2>1, <2>2 DEF FetchInv, FetcherOK
    <2>5. ASSUME NEW g \in Fetchers, g # "daemon" PROVE FetcherOK(g)'
      BY <2>2, <2>5, FetcherFrame DEF FetchInv
    <2> QED BY <1>2, <2>3, <2>4, <2>5
  <1>3. CASE r # "refresh"
    <2>1. pc' = pc BY <1>3 DEF AfterLoad
    <2>2. FetchTypes' BY <1>1, <2>1 DEF FetchTypes
    <2>3. ASSUME NEW g \in Fetchers PROVE FetcherOK(g)' BY <2>1, FetcherFrame DEF FetchInv
    <2> QED BY <2>1, <2>2, <2>3
  <1> QED BY <1>2, <1>3

LEMMA ReadKeepsInv == ASSUME FetchInv, NEW r \in Readers, Read(r) PROVE FetchInv'
  <1>1. /\ load[r] = "read"
        /\ UNCHANGED <<mem, loaded, head, pin_file, lapsed, pinned, file, stable, tmp, snapshot,
                       pid, uid, pins, todo, got, now>>
    BY DEF Read, readUnchanged, pinVars, diskVars, driftVars
  <1>2. PinsOK /\ FilesOK /\ MemOK /\ FetchTypes BY DEF FetchInv
  <1>3. PinsOK' /\ FilesOK' BY <1>1, <1>2, PinsFrame, FilesFrame
  <1>4. Up /\ (Up' <=> Up) BY <1>1, <1>2 DEF MemOK, Up
  <1>5. CASE Refused
    <2>1. load' = [load EXCEPT ![r] = "idle"] /\ AfterLoad(r) /\ copy' = copy
      BY <1>5 DEF Read
    <2>2. /\ FetchTypes' /\ \A g \in Fetchers : FetcherOK(g)'
          /\ r = "refresh" \/ pc' = pc
      BY <1>1, <2>1, AfterLoadOK
    <2>3. load' \in [Readers -> {"idle", "read", "install"}] /\ load'[r] = "idle"
          /\ \A q \in Readers \ {r} : load'[q] = load[q]
      BY <1>2, <2>1 DEF MemOK
    <2>4. MemOK' BY <1>1, <1>2, <1>4, <2>1, <2>2, <2>3 DEF MemOK, Readers
    <2> QED BY <1>3, <2>2, <2>4 DEF FetchInv
  <1>6. CASE ~Refused
    <2>1. /\ load' = [load EXCEPT ![r] = "install"] /\ copy' = [copy EXCEPT ![r] = file.corpus]
          /\ pc' = pc
      BY <1>6 DEF Read
    <2>2. file.corpus \in Corpora /\ Corpus(file.corpus, lapsed, pinned)
      BY <1>2 DEF FilesOK, Corpus
    <2>3. /\ load' \in [Readers -> {"idle", "read", "install"}]
          /\ copy' \in [Readers -> Corpora] /\ copy'[r] = file.corpus
          /\ \A q \in Readers \ {r} : copy'[q] = copy[q] /\ load'[q] = load[q]
      BY <1>2, <2>1, <2>2 DEF MemOK
    <2>4. \A q \in Readers : Corpus(copy'[q], lapsed, pinned) BY <1>2, <2>2, <2>3 DEF MemOK
    <2>5. load'["refresh"] # "idle" => pc["daemon"] = "reload"
      BY <1>1, <1>2, <2>3 DEF MemOK, Readers
    <2>6. MemOK' BY <1>1, <1>2, <1>4, <2>1, <2>3, <2>4, <2>5 DEF MemOK
    <2>7. FetchTypes' BY <1>1, <1>2, <2>1 DEF FetchTypes
    <2>8. ASSUME NEW g \in Fetchers PROVE FetcherOK(g)' BY <1>1, <2>1, FetcherFrame DEF FetchInv
    <2> QED BY <1>3, <2>6, <2>7, <2>8 DEF FetchInv
  <1> QED BY <1>5, <1>6

LEMMA InstallKeepsInv == ASSUME FetchInv, NEW r \in Readers, Install(r) PROVE FetchInv'
  <1>1. /\ load[r] = "install" /\ load' = [load EXCEPT ![r] = "idle"] /\ mem' = copy[r]
        /\ copy' = [copy EXCEPT ![r] = NoCorpus] /\ AfterLoad(r)
        /\ UNCHANGED <<head, pin_file, lapsed, pinned, file, stable, tmp, snapshot,
                       pid, uid, pins, todo, got, now>>
    BY DEF Install, readUnchanged, pinVars, diskVars, driftVars
  <1>2. PinsOK /\ FilesOK /\ MemOK /\ FetchTypes BY DEF FetchInv
  <1>3. PinsOK' /\ FilesOK' BY <1>1, <1>2, PinsFrame, FilesFrame
  <1>4. Up /\ (Up' <=> Up) BY <1>1, <1>2 DEF MemOK, Up
  <1>5. /\ FetchTypes' /\ \A g \in Fetchers : FetcherOK(g)'
        /\ r = "refresh" \/ pc' = pc
    BY <1>1, AfterLoadOK
  <1>6. /\ load' \in [Readers -> {"idle", "read", "install"}] /\ load'[r] = "idle"
        /\ copy' \in [Readers -> Corpora] /\ copy'[r] = NoCorpus
        /\ \A q \in Readers \ {r} : copy'[q] = copy[q] /\ load'[q] = load[q]
    BY <1>1, <1>2, EmptyCorpus DEF MemOK
  <1>7. \A q \in Readers : Corpus(copy'[q], lapsed, pinned) BY <1>2, <1>6, EmptyCorpus DEF MemOK
  <1>8. load'["refresh"] # "idle" => pc'["daemon"] = "reload"
    BY <1>2, <1>5, <1>6 DEF MemOK, Readers
  <1>9. MemOK' BY <1>1, <1>2, <1>4, <1>6, <1>7, <1>8 DEF MemOK
  <1> QED BY <1>3, <1>5, <1>9 DEF FetchInv

LEMMA DriftKeepsInv == ASSUME FetchInv, Drift PROVE FetchInv'
  <1> DEFINE d == "daemon"
  <1>1. /\ pc[d] = "drift" /\ pc' = [pc EXCEPT ![d] = "sleep"]
        /\ UNCHANGED <<head, pin_file, lapsed, pinned, file, stable, tmp, mem, loaded, load, copy,
                       pid, uid, pins, todo, got, now>>
    BY DEF Drift, Goto, pinVars, diskVars, memVars
  <1>2. PinsOK /\ FilesOK /\ MemOK /\ FetchTypes /\ FetcherOK(d) /\ d \in Fetchers
    BY DEF FetchInv, Fetchers
  <1>3. snapshot' \in [Sources -> 0..now]
    <2>1. PICK up \in [Sources -> Revs \cup {NoRev}], reads \in BOOLEAN, writes \in BOOLEAN :
            snapshot' = IF writes
                        THEN [s \in Sources |-> DiffStep(IF reads THEN snapshot[s] ELSE 0, PinOf(s), up[s])]
                        ELSE snapshot
      BY DEF Drift
    <2>2. \A s \in Sources : DiffStep(IF reads THEN snapshot[s] ELSE 0, PinOf(s), up[s]) \in 0..now
      BY <1>2 DEF DiffStep, PinsOK
    <2> QED BY <1>2, <2>1, <2>2 DEF PinsOK
  <1>4. PinsOK' BY <1>1, <1>2, <1>3 DEF PinsOK
  <1>5. /\ pc' \in [Fetchers -> Steps] /\ pc'[d] = "sleep"
        /\ \A g \in Fetchers \ {d} : pc'[g] = pc[g]
    BY <1>1, <1>2 DEF FetchTypes, Steps
  <1>6. FetchTypes' BY <1>1, <1>2, <1>5 DEF FetchTypes
  <1>7. FetcherOK(d)' BY <1>1, <1>2, <1>5 DEF FetcherOK
  <1>8. ASSUME NEW g \in Fetchers, g # d PROVE FetcherOK(g)'
    BY <1>1, <1>5, <1>8, FetcherFrame DEF FetchInv
  <1>9. FilesOK' /\ MemOK' BY <1>1, <1>2, FilesFrame, MemFrame DEF Up
  <1> QED BY <1>4, <1>6, <1>7, <1>8, <1>9 DEF FetchInv

-----------------------------------------------------------------------------
(* Processes, the operator and upstream.                                   *)

LEMMA SignalKeepsInv == ASSUME FetchInv, Signal PROVE FetchInv'
  <1>1. UNCHANGED <<head, pin_file, lapsed, pinned, file, stable, tmp, snapshot, mem, loaded,
                    load, copy, pid, uid, pc, pins, todo, got, now>>
    BY DEF Signal, pinVars, diskVars, driftVars, memVars, fetchVars
  <1>2. PinsOK' /\ FilesOK' /\ MemOK'
    BY <1>1, PinsFrame, FilesFrame, MemFrame DEF FetchInv, Up
  <1>3. FetchTypes' BY <1>1 DEF FetchInv, FetchTypes
  <1>4. ASSUME NEW g \in Fetchers PROVE FetcherOK(g)' BY <1>1, FetcherFrame DEF FetchInv
  <1> QED BY <1>2, <1>3, <1>4 DEF FetchInv

LEMMA StartDaemonKeepsInv ==
    ASSUME FetchInv, NEW p \in Pids, StartDaemon(p) PROVE FetchInv'
  <1> DEFINE d == "daemon"
             l == IF pin_file = Broken THEN "stopped" ELSE "tick"
  <1>1. /\ ~Up /\ p \in Free /\ pid' = [pid EXCEPT ![d] = p] /\ uid' = [uid EXCEPT ![d] = "atty"]
        /\ pins' = [pins EXCEPT ![d] = Reloaded(Removed)] /\ pc' = [pc EXCEPT ![d] = l]
        /\ load' = [load EXCEPT !["server"] = "read"]
        /\ UNCHANGED <<head, pin_file, lapsed, pinned, file, stable, tmp, snapshot, mem, loaded,
                       copy, todo, got, now>>
    BY DEF StartDaemon, Goto, pinVars, diskVars, driftVars
  <1>2. PinsOK /\ FilesOK /\ MemOK /\ FetchTypes /\ FetcherOK(d) /\ d \in Fetchers /\ p # NoPid
    BY AtomFetchAssumption DEF FetchInv, Fetchers
  <1>3. /\ Reloaded(Removed) \in PinSets
        /\ pin_file # Broken => Binding(Reloaded(Removed), lapsed, pinned)
    BY <1>2, RemovedIsPins DEF Reloaded, PinsOK
  <1>4. pc[d] = "down" /\ got[d] = NothingYet BY <1>1, <1>2 DEF FetcherOK, Up
  <1>5. /\ pid' \in [Fetchers -> Pids \cup {NoPid}] /\ pid'[d] = p
        /\ uid' \in [Fetchers -> {"none", "atty", "root"}]
        /\ pins' \in [Fetchers -> PinSets] /\ pins'[d] = Reloaded(Removed)
        /\ pc' \in [Fetchers -> Steps] /\ pc'[d] = l
        /\ \A g \in Fetchers \ {d} : pc'[g] = pc[g] /\ pid'[g] = pid[g] /\ pins'[g] = pins[g]
    BY <1>1, <1>2, <1>3 DEF FetchTypes, Steps
  <1>6. \A g \in Fetchers : pid[g] # p BY <1>1 DEF Free
  <1>7. FetchTypes' BY <1>1, <1>2, <1>5, <1>6 DEF FetchTypes
  <1>8. FetcherOK(d)' BY <1>1, <1>2, <1>3, <1>4, <1>5 DEF FetcherOK
  <1>9. ASSUME NEW g \in Fetchers, g # d PROVE FetcherOK(g)'
    BY <1>1, <1>5, <1>9, FetcherFrame DEF FetchInv
  <1>10. load' \in [Readers -> {"idle", "read", "install"}] /\ load'["refresh"] = "idle"
    BY <1>1, <1>2, <1>4 DEF MemOK, Readers
  <1>11. Up' BY <1>2, <1>5 DEF Up
  <1>12. MemOK' BY <1>1, <1>2, <1>10, <1>11 DEF MemOK
  <1>13. PinsOK' /\ FilesOK' BY <1>1, <1>2, PinsFrame, FilesFrame
  <1> QED BY <1>7, <1>8, <1>9, <1>12, <1>13 DEF FetchInv

LEMMA StartOneShotKeepsInv ==
    ASSUME FetchInv, NEW p \in Pids, NEW u \in {"atty", "root"}, StartOneShot(p, u) PROVE FetchInv'
  <1> DEFINE o == "oneshot"
  <1>1. /\ pid[o] = NoPid /\ p \in Free /\ pin_file # Broken
        /\ pid' = [pid EXCEPT ![o] = p] /\ uid' = [uid EXCEPT ![o] = u]
        /\ pins' = [pins EXCEPT ![o] = pin_file] /\ todo' = [todo EXCEPT ![o] = SourceList]
        /\ pc' = [pc EXCEPT ![o] = "fetch"]
        /\ UNCHANGED <<head, pin_file, lapsed, pinned, file, stable, tmp, snapshot, mem, loaded,
                       load, copy, got, now>>
    BY DEF StartOneShot, Goto, pinVars, diskVars, driftVars, memVars
  <1>2. PinsOK /\ FilesOK /\ MemOK /\ FetchTypes /\ FetcherOK(o) /\ o \in Fetchers /\ p # NoPid
    BY AtomFetchAssumption DEF FetchInv, Fetchers
  <1>3. pin_file \in PinSets /\ Binding(pin_file, lapsed, pinned) BY <1>1, <1>2 DEF PinsOK
  <1>4. pc[o] = "down" /\ got[o] = NothingYet BY <1>1, <1>2 DEF FetcherOK
  <1>5. /\ pid' \in [Fetchers -> Pids \cup {NoPid}] /\ pid'[o] = p
        /\ uid' \in [Fetchers -> {"none", "atty", "root"}]
        /\ pins' \in [Fetchers -> PinSets] /\ pins'[o] = pin_file
        /\ pc' \in [Fetchers -> Steps] /\ pc'[o] = "fetch"
        /\ todo' \in [Fetchers -> Seq(Sources)] /\ todo'[o] = SourceList
        /\ \A g \in Fetchers \ {o} :
             pc'[g] = pc[g] /\ pid'[g] = pid[g] /\ pins'[g] = pins[g] /\ todo'[g] = todo[g]
    BY <1>1, <1>2, <1>3, AtomFetchAssumption DEF FetchTypes, Steps
  <1>6. \A g \in Fetchers : pid[g] # p BY <1>1 DEF Free
  <1>7. FetchTypes' BY <1>1, <1>2, <1>5, <1>6 DEF FetchTypes
  <1>8. Unvisited(SourceList, NothingYet.from) BY SourceFacts, EmptyCorpus
  <1>9. FetcherOK(o)' BY <1>1, <1>2, <1>3, <1>4, <1>5, <1>8 DEF FetcherOK
  <1>10. ASSUME NEW g \in Fetchers, g # o PROVE FetcherOK(g)'
    BY <1>1, <1>5, <1>10, FetcherFrame DEF FetchInv
  <1>11. (Up' <=> Up) /\ pc'["daemon"] = pc["daemon"] BY <1>5 DEF Up, Fetchers
  <1>12. PinsOK' /\ FilesOK' /\ MemOK' BY <1>1, <1>2, <1>11, PinsFrame, FilesFrame, MemFrame
  <1> QED BY <1>7, <1>9, <1>10, <1>12 DEF FetchInv

\* Processes end without a chance to clean up.
LEMMA EndedOK ==
    ASSUME FetchInv, NEW F \in SUBSET Fetchers, Ended(F), UNCHANGED <<lapsed, pinned, tmp>>
    PROVE  FetchTypes' /\ MemOK' /\ \A g \in Fetchers : FetcherOK(g)'
  <1>1. MemOK /\ FetchTypes /\ "daemon" \in Fetchers BY DEF FetchInv, Fetchers
  <1>2. ASSUME NEW g \in Fetchers
        PROVE  /\ g \in F => /\ pid'[g] = NoPid /\ pc'[g] = "down" /\ uid'[g] = "none"
                             /\ pins'[g] = Removed /\ todo'[g] = <<>> /\ got'[g] = NothingYet
               /\ g \notin F => /\ pid'[g] = pid[g] /\ pc'[g] = pc[g] /\ uid'[g] = uid[g]
                                /\ pins'[g] = pins[g] /\ todo'[g] = todo[g] /\ got'[g] = got[g]
    BY DEF Ended
  <1>3. <<>> \in Seq(Sources) /\ "none" \in {"none", "atty", "root"} /\ "down" \in Steps
    BY EmptySeq DEF Steps
  <1>4. FetchTypes'
    <2>1. pid' \in [Fetchers -> Pids \cup {NoPid}] /\ uid' \in [Fetchers -> {"none", "atty", "root"}]
      BY <1>1, <1>3 DEF Ended, FetchTypes
    <2>2. pc' \in [Fetchers -> Steps] /\ pins' \in [Fetchers -> PinSets]
      BY <1>1, <1>3, RemovedIsPins DEF Ended, FetchTypes
    <2>3. todo' \in [Fetchers -> Seq(Sources)] BY <1>1, <1>3 DEF Ended, FetchTypes
    <2>4. got' \in [Fetchers -> Gatherings] BY <1>1, EmptyCorpus DEF Ended, FetchTypes
    <2>5. \A f, g \in Fetchers : f # g /\ pid'[f] # NoPid => pid'[f] # pid'[g]
      BY <1>1, <1>2 DEF FetchTypes
    <2> QED BY <2>1, <2>2, <2>3, <2>4, <2>5 DEF FetchTypes
  <1>5. ASSUME NEW g \in Fetchers PROVE FetcherOK(g)'
    <2>1. CASE g \in F BY <1>2, <2>1, EmptyCorpus DEF FetcherOK
    <2>2. CASE g \notin F BY <1>2, <2>2, FetcherFrame DEF FetchInv
    <2> QED BY <2>1, <2>2
  <1>6. MemOK'
    <2>1. CASE "daemon" \in F
      <3>1. /\ mem' = NoCorpus /\ loaded' = FALSE /\ load' = [r \in Readers |-> "idle"]
            /\ copy' = [r \in Readers |-> NoCorpus]
        BY <2>1 DEF Ended
      <3>2. "refresh" \in Readers BY DEF Readers
      <3> QED BY <3>1, <3>2, EmptyCorpus DEF MemOK
    <2>2. CASE "daemon" \notin F
      <3>1. UNCHANGED <<mem, loaded, load, copy>> BY <2>2 DEF Ended, memVars
      <3>2. pc'["daemon"] = pc["daemon"] /\ (Up' <=> Up) BY <1>1, <1>2, <2>2 DEF Up
      <3> QED BY <1>1, <3>1, <3>2, MemFrame
    <2> QED BY <2>1, <2>2
  <1> QED BY <1>4, <1>5, <1>6

LEMMA CrashKeepsInv == ASSUME FetchInv, NEW f \in Fetchers, Crash(f) PROVE FetchInv'
  <1>1. /\ Ended({f})
        /\ UNCHANGED <<head, pin_file, lapsed, pinned, file, stable, tmp, snapshot, now>>
    BY DEF Crash, pinVars, diskVars, driftVars
  <1>2. FetchTypes' /\ MemOK' /\ \A g \in Fetchers : FetcherOK(g)' BY <1>1, EndedOK
  <1>3. PinsOK' /\ FilesOK' BY <1>1, PinsFrame, FilesFrame DEF FetchInv
  <1> QED BY <1>2, <1>3 DEF FetchInv

\* Every name is synced, so the power loss tears nothing.
LEMMA PowerLossKeepsInv == ASSUME FetchInv, PowerLoss PROVE FetchInv'
  <1>1. Ended(Fetchers) /\ UNCHANGED <<head, pin_file, lapsed, pinned, tmp, snapshot, now>>
    BY DEF PowerLoss, pinVars, driftVars
  <1>2. FetchTypes' /\ MemOK' /\ \A g \in Fetchers : FetcherOK(g)' BY <1>1, EndedOK
  <1>3. PICK n \in stable : file' = AfterLoss(n) /\ stable' = {AfterLoss(n)} BY DEF PowerLoss
  <1>4. FilesOK /\ n \in Names /\ Corpus(n.corpus, lapsed, pinned) BY DEF FetchInv, FilesOK
  <1>5. AfterLoss(n) = n BY <1>4 DEF AfterLoss, Names
  <1>6. FilesOK' BY <1>1, <1>3, <1>4, <1>5 DEF FilesOK
  <1>7. PinsOK' BY <1>1, PinsFrame DEF FetchInv
  <1> QED BY <1>2, <1>6, <1>7 DEF FetchInv

LEMMA ChownKeepsInv == ASSUME FetchInv, Chown PROVE FetchInv'
  <1>1. /\ file' = [file EXCEPT !.uid = "atty"] /\ stable' = (stable \ {file}) \cup {file'}
        /\ UNCHANGED <<head, pin_file, lapsed, pinned, tmp, snapshot, mem, loaded,
                       load, copy, pid, uid, pc, pins, todo, got, now>>
    BY DEF Chown, pinVars, driftVars, memVars, fetchVars
  <1>2. PinsOK /\ FilesOK /\ MemOK /\ FetchTypes BY DEF FetchInv
  <1>3. file \in Names /\ Corpus(file.corpus, lapsed, pinned) BY <1>2 DEF FilesOK
  <1>4. file' \in Names /\ file'.corpus = file.corpus BY <1>1, <1>3 DEF Names
  <1>5. FilesOK' BY <1>1, <1>2, <1>3, <1>4 DEF FilesOK
  <1>6. PinsOK' /\ MemOK' BY <1>1, <1>2, PinsFrame, MemFrame DEF Up
  <1>7. FetchTypes' BY <1>1, <1>2 DEF FetchTypes
  <1>8. ASSUME NEW g \in Fetchers PROVE FetcherOK(g)' BY <1>1, FetcherFrame DEF FetchInv
  <1> QED BY <1>5, <1>6, <1>7, <1>8 DEF FetchInv

LEMMA EditPinsKeepsInv == ASSUME FetchInv, NEW x \in PinFiles, EditPins(x) PROVE FetchInv'
  <1>1. /\ pin_file' = x
        /\ lapsed' = IF x = Broken THEN lapsed ELSE lapsed \cup (Sources \ DOMAIN x)
        /\ pinned' = IF x = Broken THEN pinned
                     ELSE [s \in Sources |-> IF s \in DOMAIN x THEN pinned[s] \cup {x[s]} ELSE pinned[s]]
        /\ UNCHANGED <<head, file, stable, tmp, snapshot, mem, loaded,
                       load, copy, pid, uid, pc, pins, todo, got, now>>
    BY DEF EditPins, diskVars, driftVars, memVars, fetchVars
  <1>2. PinsOK /\ FilesOK /\ MemOK /\ FetchTypes BY DEF FetchInv
  <1>3. x \in PinSets \cup {Broken} /\ (x # Broken => \A s \in DOMAIN x : x[s] \in Revs)
    BY AtomFetchAssumption DEF PinSets
  <1>4. /\ lapsed \subseteq lapsed' /\ lapsed' \subseteq Sources
        /\ \A s \in Sources : pinned[s] \subseteq pinned'[s]
        /\ pinned' \in [Sources -> SUBSET Revs]
    <2>1. CASE x = Broken BY <1>1, <1>2, <2>1 DEF PinsOK
    <2>2. CASE x # Broken BY <1>1, <1>2, <1>3, <2>2 DEF PinsOK
    <2> QED BY <2>1, <2>2
  <1>5. /\ \A c : Corpus(c, lapsed, pinned) => Corpus(c, lapsed', pinned')
        /\ \A y : Binding(y, lapsed, pinned) => Binding(y, lapsed', pinned')
        /\ \A from : Permitted(from, lapsed, pinned) => Permitted(from, lapsed', pinned')
    BY <1>4, PermittedGrows
  <1>6. x # Broken => Binding(x, lapsed', pinned') BY <1>1 DEF Binding
  <1>7. PinsOK' BY <1>1, <1>2, <1>3, <1>4, <1>6 DEF PinsOK
  <1>8. FilesOK' BY <1>1, <1>2, <1>5 DEF FilesOK
  <1>9. MemOK' BY <1>1, <1>2, <1>5 DEF MemOK, Up
  <1>10. FetchTypes' BY <1>1, <1>2 DEF FetchTypes
  <1>11. ASSUME NEW g \in Fetchers PROVE FetcherOK(g)'
    BY <1>1, <1>5 DEF FetchInv, FetcherOK
  <1> QED BY <1>7, <1>8, <1>9, <1>10, <1>11 DEF FetchInv

LEMMA PushKeepsInv ==
    ASSUME FetchInv, NEW s \in Sources, NEW r \in Revs, Push(s, r) PROVE FetchInv'
  <1>1. /\ head' = [head EXCEPT ![s] = r]
        /\ UNCHANGED <<pin_file, lapsed, pinned, file, stable, tmp, snapshot, mem, loaded,
                       load, copy, pid, uid, pc, pins, todo, got, now>>
    BY DEF Push, pinVars, diskVars, driftVars, memVars, fetchVars
  <1>2. PinsOK' BY <1>1 DEF FetchInv, PinsOK
  <1>3. FilesOK' /\ MemOK' BY <1>1, FilesFrame, MemFrame DEF FetchInv, Up
  <1>4. FetchTypes' BY <1>1 DEF FetchInv, FetchTypes
  <1>5. ASSUME NEW g \in Fetchers PROVE FetcherOK(g)' BY <1>1, FetcherFrame DEF FetchInv
  <1> QED BY <1>2, <1>3, <1>4, <1>5 DEF FetchInv

LEMMA FetchNext == FetchInv /\ [Next]_vars => FetchInv'
  <1> SUFFICES ASSUME FetchInv, [Next]_vars PROVE FetchInv' OBVIOUS
  <1>0. "daemon" \in Fetchers /\ "oneshot" \in Fetchers /\ "refresh" \in Readers /\ "server" \in Readers
    BY DEF Fetchers, Readers
  <1>1. ASSUME NEW f \in Fetchers, Fetching(f) PROVE FetchInv'
    BY <1>1, FetchOneKeepsInv, CreateKeepsInv, RenameKeepsInv DEF Fetching
  <1>2. ASSUME NEW r \in Readers, Loading(r) PROVE FetchInv'
    BY <1>2, ReadKeepsInv, InstallKeepsInv DEF Loading
  <1>3. CASE Refresh
    BY <1>0, <1>1, <1>2, <1>3, FirstTickKeepsInv, DriftKeepsInv, WakeKeepsInv DEF Refresh
  <1>4. CASE Server BY <1>0, <1>2, <1>4, ClassifyKeepsInv DEF Server
  <1>5. CASE Signal BY <1>5, SignalKeepsInv
  <1>6. CASE \E f \in Fetchers : Crash(f) BY <1>6, CrashKeepsInv
  <1>7. CASE PowerLoss \/ Chown BY <1>7, PowerLossKeepsInv, ChownKeepsInv
  <1>8. ASSUME NEW p \in Pids, StartDaemon(p) PROVE FetchInv' BY <1>8, StartDaemonKeepsInv
  <1>9. ASSUME NEW p \in Pids, NEW u \in {"atty", "root"}, StartOneShot(p, u) PROVE FetchInv'
    BY <1>9, StartOneShotKeepsInv
  <1>10. CASE \E x \in PinFiles : EditPins(x) BY <1>10, EditPinsKeepsInv
  <1>11. CASE \E s \in Sources, r \in Revs : Push(s, r) BY <1>11, PushKeepsInv
  <1>12. CASE UNCHANGED vars
    <2>1. UNCHANGED <<head, pin_file, lapsed, pinned, file, stable, tmp, snapshot, mem, loaded,
                      load, copy, pid, uid, pc, pins, todo, got, now>>
      BY <1>12 DEF vars, pinVars, diskVars, driftVars, memVars, fetchVars
    <2>2. PinsOK' /\ FilesOK' /\ MemOK'
      BY <2>1, PinsFrame, FilesFrame, MemFrame DEF FetchInv, Up
    <2>3. FetchTypes' BY <2>1 DEF FetchInv, FetchTypes
    <2>4. ASSUME NEW g \in Fetchers PROVE FetcherOK(g)' BY <2>1, FetcherFrame DEF FetchInv
    <2> QED BY <2>2, <2>3, <2>4 DEF FetchInv
  <1> QED
    BY <1>0, <1>1, <1>3, <1>4, <1>5, <1>6, <1>7, <1>8, <1>9, <1>10, <1>11, <1>12 DEF Next

LEMMA FetchInvariant == Spec => []FetchInv
  BY FetchInit, FetchNext, PTL DEF Spec

-----------------------------------------------------------------------------
(* Walks.  What a recursive function computes is shown by induction, which *)
(* is put in terms of a set: one that has 0 and the successor of each of   *)
(* its numbers has them all.                                               *)

LEMMA InductiveSet ==
    ASSUME NEW S, 0 \in S, \A n \in Nat : n \in S => n + 1 \in S
    PROVE  \A n \in Nat : n \in S
  <1> DEFINE T == Nat \ S
  <1> SUFFICES ASSUME T # {} PROVE FALSE OBVIOUS
  <1>1. \E x \in T : \A y \in T : ~(<<y, x>> \in OpToRel(<, Nat))
    BY NatLessThanWellFounded, WFMin
  <1>2. PICK x \in T : \A y \in T : ~(<<y, x>> \in OpToRel(<, Nat)) BY <1>1
  <1>3. x \in Nat /\ x \notin S /\ x # 0 OBVIOUS
  <1>4. x - 1 \in Nat /\ x - 1 < x /\ (x - 1) + 1 = x BY <1>3
  <1>5. x - 1 \in T BY <1>3, <1>4
  <1>6. <<x - 1, x>> \in OpToRel(<, Nat) BY <1>3, <1>4 DEF OpToRel
  <1> QED BY <1>2, <1>5, <1>6

\* The walk is defined for every tarball.
LEMMA WalkDefined ==
    ASSUME NEW t, Len(t) \in Nat
    PROVE  \E g : /\ g[0] = NothingRead /\ Walk(t) = g[Len(t)]
                  /\ \A i \in 1..Len(t) : g[i] = WalkEntry(g[i - 1], t[i])
  <1> DEFINE n == Len(t)
             F(g) == [i \in 0..n |-> IF i = 0 THEN NothingRead ELSE WalkEntry(g[i - 1], t[i])]
             Upto(g, k) == g[0] = NothingRead /\ \A i \in 1..k : g[i] = WalkEntry(g[i - 1], t[i])
             S == {k \in Nat : \E g : Upto(g, k)}
  <1>1. 0 \in S
    <2> DEFINE g == [i \in {0} |-> NothingRead]
    <2>1. Upto(g, 0) OBVIOUS
    <2> QED BY <2>1
  <1>2. ASSUME NEW k \in Nat, k \in S PROVE k + 1 \in S
    <2>1. PICK g : Upto(g, k) BY <1>2
    <2> DEFINE h == [i \in 0..(k + 1) |-> IF i <= k THEN g[i] ELSE WalkEntry(g[k], t[k + 1])]
    <2>2. h[0] = NothingRead BY <2>1
    <2>3. ASSUME NEW i \in 1..(k + 1) PROVE h[i] = WalkEntry(h[i - 1], t[i])
      <3>1. CASE i <= k
        <4>1. i \in 1..k /\ i \in 0..(k + 1) /\ i - 1 \in 0..(k + 1) /\ i - 1 <= k BY <3>1
        <4>2. h[i] = g[i] /\ h[i - 1] = g[i - 1] BY <3>1, <4>1
        <4> QED BY <2>1, <4>1, <4>2
      <3>2. CASE ~(i <= k)
        <4>1. i = k + 1 /\ i - 1 = k /\ k \in 0..(k + 1) /\ i \in 0..(k + 1) BY <3>2
        <4>2. h[i] = WalkEntry(g[k], t[k + 1]) /\ h[k] = g[k] BY <3>2, <4>1
        <4> QED BY <4>1, <4>2
      <3> QED BY <3>1, <3>2
    <2>4. Upto(h, k + 1) BY <2>2, <2>3
    <2> HIDE DEF h, Upto
    <2> QED BY <2>4
  <1>3. n \in S
    <2> HIDE DEF S
    <2> QED BY <1>1, <1>2, InductiveSet
  <1>4. PICK g : Upto(g, n) BY <1>3
  <1> DEFINE f == [i \in 0..n |-> g[i]]
  <1>5. f = F(f)
    <2>1. ASSUME NEW i \in 0..n
          PROVE  f[i] = IF i = 0 THEN NothingRead ELSE WalkEntry(f[i - 1], t[i])
      <3>1. CASE i = 0 BY <1>4, <3>1
      <3>2. CASE i # 0
        <4>1. i \in 1..n /\ i - 1 \in 0..n BY <3>2
        <4>2. f[i] = g[i] /\ f[i - 1] = g[i - 1] BY <4>1
        <4> QED BY <1>4, <3>2, <4>1, <4>2
      <3> QED BY <3>1, <3>2
    <2> QED BY <2>1
  <1> DEFINE a == CHOOSE a : a = F(a)
  <1>6. a = F(a)
    <2> HIDE DEF f, F
    <2> QED BY <1>5
  <1>7. Walk(t) = a[n] BY DEF Walk
  <1> HIDE DEF a
  <1>8. a[0] = NothingRead BY <1>6
  <1>9. ASSUME NEW i \in 1..n PROVE a[i] = WalkEntry(a[i - 1], t[i])
    <2>1. i \in 0..n /\ i # 0 OBVIOUS
    <2> QED BY <1>6, <2>1
  <1> QED BY <1>7, <1>8, <1>9

\* So is the size, which never shrinks.
LEMMA SizeDefined ==
    ASSUME NEW t, Len(t) \in Nat, \A i \in 1..Len(t) : Declared(t[i]) \in Nat
    PROVE  \E g : /\ g \in [0..Len(t) -> Nat] /\ g[0] = 0 /\ Size(t) = g[Len(t)]
                  /\ \A i \in 1..Len(t) : g[i] = g[i - 1] + Declared(t[i])
                  /\ \A i \in 0..Len(t) : g[i] <= g[Len(t)]
  <1> DEFINE n == Len(t)
             F(g) == [i \in 0..n |-> IF i = 0 THEN 0 ELSE g[i - 1] + Declared(t[i])]
             Upto(g, k) == /\ g[0] = 0 /\ \A i \in 0..k : g[i] \in Nat /\ g[i] <= g[k]
                           /\ \A i \in 1..k : g[i] = g[i - 1] + Declared(t[i])
             S == {k \in Nat : k <= n => \E g : Upto(g, k)}
  <1>1. 0 \in S
    <2> DEFINE g == [i \in {0} |-> 0]
    <2>1. Upto(g, 0) OBVIOUS
    <2> QED BY <2>1
  <1>2. ASSUME NEW k \in Nat, k \in S PROVE k + 1 \in S
    <2> SUFFICES ASSUME k + 1 <= n PROVE \E g : Upto(g, k + 1) OBVIOUS
    <2>1. PICK g : Upto(g, k) BY <1>2
    <2>0. Declared(t[k + 1]) \in Nat OBVIOUS
    <2> DEFINE z == Declared(t[k + 1])
               h == [i \in 0..(k + 1) |-> IF i <= k THEN g[i] ELSE g[k] + z]
    <2>5. \A i \in 0..k : h[i] = g[i] /\ g[i] \in Nat /\ g[i] <= g[k] BY <2>1
    <2>6. h[k + 1] = g[k] + z
      <3>1. k + 1 \in 0..(k + 1) /\ ~(k + 1 <= k) OBVIOUS
      <3> QED BY <3>1
    <2> HIDE DEF h, z
    <2>7. g[k] \in Nat BY <2>1
    <2>2. h[0] = 0 BY <2>1, <2>5
    <2>3. ASSUME NEW i \in 1..(k + 1) PROVE h[i] = h[i - 1] + Declared(t[i])
      <3>1. CASE i <= k
        <4>1. i \in 1..k /\ i \in 0..k /\ i - 1 \in 0..k BY <3>1
        <4>2. h[i] = g[i] /\ h[i - 1] = g[i - 1] BY <2>5, <4>1
        <4>3. g[i] = g[i - 1] + Declared(t[i]) BY <2>1, <4>1
        <4> QED BY <4>2, <4>3
      <3>2. CASE ~(i <= k)
        <4>1. i = k + 1 /\ i - 1 = k /\ k \in 0..k BY <3>2
        <4> QED BY <2>5, <2>6, <4>1 DEF z
      <3> QED BY <3>1, <3>2
    <2>4. ASSUME NEW i \in 0..(k + 1) PROVE h[i] \in Nat /\ h[i] <= h[k + 1]
      <3>1. CASE i <= k
        <4>1. i \in 0..k BY <3>1
        <4>2. h[i] = g[i] /\ g[i] \in Nat /\ g[i] <= g[k] BY <2>5, <4>1
        <4> QED BY <2>0, <2>6, <2>7, <4>2 DEF z
      <3>2. CASE ~(i <= k)
        <4>1. i = k + 1 BY <3>2
        <4> QED BY <2>0, <2>6, <2>7, <4>1 DEF z
      <3> QED BY <3>1, <3>2
    <2>8. Upto(h, k + 1) BY <2>2, <2>3, <2>4
    <2> HIDE DEF Upto
    <2> QED BY <2>8
  <1>3. n \in S
    <2> HIDE DEF S
    <2> QED BY <1>1, <1>2, InductiveSet
  <1>4. PICK g : Upto(g, n) BY <1>3
  <1> DEFINE f == [i \in 0..n |-> g[i]]
  <1>5. f = F(f)
    <2>1. ASSUME NEW i \in 0..n
          PROVE  f[i] = IF i = 0 THEN 0 ELSE f[i - 1] + Declared(t[i])
      <3>1. CASE i = 0 BY <1>4, <3>1
      <3>2. CASE i # 0
        <4>1. i \in 1..n /\ i - 1 \in 0..n BY <3>2
        <4>2. f[i] = g[i] /\ f[i - 1] = g[i - 1] BY <4>1
        <4>3. g[i] = g[i - 1] + Declared(t[i]) BY <1>4, <4>1
        <4> QED BY <3>2, <4>2, <4>3
      <3> QED BY <3>1, <3>2
    <2> QED BY <2>1
  <1> DEFINE a == CHOOSE a : a = F(a)
  <1>6. a = F(a)
    <2> HIDE DEF f, F
    <2> QED BY <1>5
  <1>7. Size(t) = a[n] BY DEF Size
  <1> HIDE DEF a
  <1>8. a[0] = 0 BY <1>6
  <1>9. ASSUME NEW i \in 1..n PROVE a[i] = a[i - 1] + Declared(t[i])
    <2>1. i \in 0..n /\ i # 0 OBVIOUS
    <2> QED BY <1>6, <2>1
  \* The two agree, so a has the type and the order of g.
  <1>10. \A k \in Nat : k <= n => a[k] = g[k]
    <2> DEFINE E == {k \in Nat : k <= n => a[k] = g[k]}
    <2>1. 0 \in E BY <1>4, <1>8
    <2>2. ASSUME NEW k \in Nat, k \in E PROVE k + 1 \in E
      <3> SUFFICES ASSUME k + 1 <= n PROVE a[k + 1] = g[k + 1] OBVIOUS
      <3>1. k + 1 \in 1..n /\ (k + 1) - 1 = k /\ a[k] = g[k] BY <2>2
      <3>2. a[k + 1] = a[k] + Declared(t[k + 1]) BY <1>9, <3>1
      <3>3. g[k + 1] = g[k] + Declared(t[k + 1]) BY <1>4, <3>1
      <3> QED BY <3>1, <3>2, <3>3
    <2>3. \A k \in Nat : k \in E
      <3> HIDE DEF E
      <3> QED BY <2>1, <2>2, InductiveSet
    <2> QED BY <2>3
  <1>11. \A i \in 0..n : a[i] \in Nat /\ a[i] <= a[n] BY <1>4, <1>10
  <1>12. a \in [0..n -> Nat]
    <2>1. DOMAIN a = 0..n /\ a = [i \in 0..n |-> a[i]] BY <1>6
    <2> HIDE DEF F
    <2> QED BY <1>11, <2>1
  <1> QED BY <1>7, <1>8, <1>9, <1>11, <1>12

Fields == {"ok", "total", "atoms"}

\* What one entry does to a walk that goes well so far.
EntryRefused(acc, e) ==
    \/ acc.total + Declared(e) > MaxTotal
    \/ e.matches /\ e.size > MaxEntry
    \/ e.matches /\ e.readable /\ Cardinality(acc.atoms \cup Extract(e)) > MaxAtoms
EntryTaken(acc, e, r) ==
    /\ r.ok = TRUE /\ r.total = acc.total + Declared(e)
    /\ r.atoms = IF e.matches /\ e.readable THEN acc.atoms \cup Extract(e) ELSE acc.atoms

Going(acc) == DOMAIN acc = Fields /\ acc.ok = TRUE
IsEntry(e) == e.matches \in BOOLEAN /\ e.readable \in BOOLEAN

LEMMA EntryWalked ==
    ASSUME NEW acc, Going(acc), NEW e, IsEntry(e)
    PROVE  /\ DOMAIN WalkEntry(acc, e) = Fields
           /\ EntryRefused(acc, e) => WalkEntry(acc, e).ok = FALSE
           /\ ~EntryRefused(acc, e) => EntryTaken(acc, e, WalkEntry(acc, e))
  <1>0. DOMAIN acc = Fields /\ acc.ok = TRUE /\ e.matches \in BOOLEAN /\ e.readable \in BOOLEAN
    BY DEF Going, IsEntry
  <1> DEFINE B == acc.atoms \cup Extract(e)
             m == acc.total + Declared(e)
             r == WalkEntry(acc, e)
             refused == [acc EXCEPT !.ok = FALSE]
             skipped == [acc EXCEPT !.total = m]
             taken == [acc EXCEPT !.total = m, !.atoms = B]
  <1> HIDE DEF m, B
  <1>2. refused.ok = FALSE /\ DOMAIN refused = Fields BY <1>0 DEF Fields
  <1>3. skipped.ok = TRUE /\ skipped.total = m /\ skipped.atoms = acc.atoms /\ DOMAIN skipped = Fields
    BY <1>0 DEF Fields
  <1>4. taken.ok = TRUE /\ taken.total = m /\ taken.atoms = B /\ DOMAIN taken = Fields
    BY <1>0 DEF Fields
  <1>5. r = IF m > MaxTotal THEN refused
            ELSE IF ~e.matches THEN skipped
            ELSE IF e.size > MaxEntry THEN refused
            ELSE IF ~e.readable THEN skipped
            ELSE IF Cardinality(B) > MaxAtoms THEN refused
            ELSE taken
    BY <1>0, Zenon DEF WalkEntry, m, B
  <1>1. EntryRefused(acc, e) <=> \/ m > MaxTotal
                                 \/ e.matches /\ e.size > MaxEntry
                                 \/ e.matches /\ e.readable /\ Cardinality(B) > MaxAtoms
    BY Zenon DEF EntryRefused, m, B
  <1>8. EntryTaken(acc, e, r) <=> /\ r.ok = TRUE /\ r.total = m
                                  /\ r.atoms = IF e.matches /\ e.readable THEN B ELSE acc.atoms
    BY Zenon DEF EntryTaken, m, B
  <1> SUFFICES /\ DOMAIN r = Fields
               /\ EntryRefused(acc, e) => r.ok = FALSE
               /\ ~EntryRefused(acc, e) => EntryTaken(acc, e, r)
    OBVIOUS
  <1> HIDE DEF refused, skipped, taken, r
  <1>6. CASE m > MaxTotal BY <1>0, <1>1, <1>2, <1>8, <1>5, <1>6
  <1>7. CASE ~(m > MaxTotal)
    <2>1. CASE ~e.matches BY <1>0, <1>1, <1>3, <1>8, <1>5, <1>7, <2>1
    <2>2. CASE e.matches
      <3>1. CASE e.size > MaxEntry BY <1>0, <1>1, <1>2, <1>8, <1>5, <1>7, <2>2, <3>1
      <3>2. CASE ~(e.size > MaxEntry)
        <4>1. CASE ~e.readable BY <1>0, <1>1, <1>3, <1>8, <1>5, <1>7, <2>2, <3>2, <4>1
        <4>2. CASE e.readable BY <1>0, <1>1, <1>2, <1>8, <1>4, <1>5, <1>7, <2>2, <3>2, <4>2
        <4> QED BY <4>1, <4>2
      <3> QED BY <3>1, <3>2
    <2> QED BY <2>1, <2>2
  <1> QED BY <1>6, <1>7

\* A scalar gives at most one atom.
LEMMA ExtractFinite ==
    ASSUME NEW e, IsFiniteSet(e.codes)
    PROVE  IsFiniteSet(Extract(e))
  <1> DEFINE G == {AtomFromCode(c) : c \in e.codes}
  <1>1. IsFiniteSet(G)
    <2> DEFINE f == [c \in e.codes |-> AtomFromCode(c)]
    <2>1. f \in Surjection(e.codes, G) BY DEF Surjection
    <2> QED BY <2>1, FS_Surjection
  <1>2. \A g \in G : IsFiniteSet(g)
    <2>1. ASSUME NEW c PROVE IsFiniteSet(AtomFromCode(c))
      <3>1. \E x : AtomFromCode(c) = {} \/ AtomFromCode(c) = {x}
        BY Zenon DEF AtomFromCode
      <3> QED BY <3>1, FS_EmptySet, FS_Singleton
    <2> QED BY <2>1
  <1>3. IsFiniteSet(UNION G) BY <1>1, <1>2, FS_UNION
  <1> QED BY <1>3, FS_EmptySet DEF Extract

\* walk_tarball_atoms, every tarball: the walk, which counts and refuses as the
\* entries come, accepts exactly the tarballs that are acceptable as a whole, and
\* of those it gives the whole extraction.
LEMMA WalkIsExtraction ==
    ASSUME NEW t, IsTarball(t)
    PROVE  /\ Walk(t).ok \in BOOLEAN
           /\ Walk(t).ok <=> Whole(t).ok
           /\ Walk(t).ok => Walk(t).atoms = Whole(t).atoms
  <1> DEFINE n == Len(t)
  <1>1. n \in Nat /\ DOMAIN t = 1..n BY DEF IsTarball
  <1>2. Range(t) = {t[i] : i \in 1..n} BY <1>1 DEF Range
  <1>3. \A i \in 1..n : /\ t[i].size \in Nat /\ IsFiniteSet(t[i].codes)
                        /\ t[i].matches \in BOOLEAN /\ t[i].readable \in BOOLEAN
                        /\ Declared(t[i]) \in Nat
    <2>1. \A e \in Range(t) : /\ e.size \in Nat /\ IsFiniteSet(e.codes)
                             /\ e.matches \in BOOLEAN /\ e.readable \in BOOLEAN
      BY DEF IsTarball
    <2>2. \A e \in Range(t) : Declared(e) \in Nat BY <2>1 DEF Declared
    <2> QED BY <1>2, <2>1, <2>2
  <1>4. {MaxAtoms, MaxTotal, MaxEntry} \subseteq Nat BY AtomFetchAssumption
  <1>5. PICK a : /\ a[0] = NothingRead /\ Walk(t) = a[n]
                 /\ \A i \in 1..n : a[i] = WalkEntry(a[i - 1], t[i])
    BY <1>1, WalkDefined
  <1>6. PICK s : /\ s \in [0..n -> Nat] /\ s[0] = 0 /\ Size(t) = s[n]
                 /\ \A i \in 1..n : s[i] = s[i - 1] + Declared(t[i])
                 /\ \A i \in 0..n : s[i] <= s[n]
    BY <1>1, <1>3, SizeDefined
  <1> HIDE DEF n
  <1> DEFINE Taken(j) == t[j].matches /\ t[j].readable
             At(k) == UNION {Extract(t[j]) : j \in {x \in 1..k : Taken(x)}}
             Goes(k) == /\ DOMAIN a[k] = Fields /\ a[k].ok = TRUE
                        /\ a[k].total = s[k] /\ a[k].atoms = At(k)
                        /\ s[k] <= MaxTotal /\ Cardinality(At(k)) <= MaxAtoms
                        /\ \A j \in 1..k : t[j].matches => t[j].size <= MaxEntry
             Large(j) == \/ s[j] > MaxTotal
                         \/ t[j].matches /\ t[j].size > MaxEntry
                         \/ Cardinality(At(j)) > MaxAtoms
             Stops(k) == a[k].ok = FALSE /\ \E j \in 1..k : Large(j)
             S == {k \in Nat : k <= n => Goes(k) \/ Stops(k)}
  <1>7. 0 \in S
    <2>1. At(0) = {} OBVIOUS
    <2>2. Cardinality(At(0)) <= MaxAtoms BY <1>4, <2>1, FS_EmptySet
    <2> HIDE DEF At
    <2>3. a[0] = NothingRead /\ s[0] = 0 /\ 0 <= MaxTotal BY <1>4, <1>5, <1>6
    <2>4. DOMAIN a[0] = Fields /\ a[0].ok = TRUE /\ a[0].total = 0 /\ a[0].atoms = {}
      BY <2>3 DEF NothingRead, Fields
    <2>5. Goes(0) BY <2>1, <2>2, <2>3, <2>4
    <2> HIDE DEF Goes, Stops
    <2> QED BY <2>5
  <1>8. ASSUME NEW k \in Nat, k \in S PROVE k + 1 \in S
    <2> SUFFICES ASSUME k + 1 <= n PROVE Goes(k + 1) \/ Stops(k + 1)
      <3> HIDE DEF Goes, Stops
      <3> QED OBVIOUS
    <2>0. k <= n => Goes(k) \/ Stops(k)
      <3> HIDE DEF Goes, Stops
      <3> QED BY <1>8
    <2>1. k + 1 \in 1..n /\ (k + 1) - 1 = k /\ k <= n /\ k + 1 \in 0..n /\ k \in 0..n BY <1>1
    <2>8. PICK e : e = t[k + 1] OBVIOUS
    <2>2. a[k + 1] = WalkEntry(a[k], e) BY <1>5, <2>1, <2>8
    <2>3. s[k + 1] = s[k] + Declared(e) /\ Declared(e) \in Nat /\ e.size \in Nat /\ s[k] \in Nat BY <1>3, <1>6, <2>1, <2>8
    <2>4. e.matches \in BOOLEAN /\ e.readable \in BOOLEAN BY <1>3, <2>1, <2>8
    <2>5. At(k + 1) = IF Taken(k + 1) THEN At(k) \cup Extract(e) ELSE At(k)
      <3>1. \A x : x \in 1..(k + 1) <=> x \in 1..k \/ x = k + 1 OBVIOUS
      <3> HIDE DEF Taken
      <3> QED BY <2>8, <3>1
    <2>6. CASE Stops(k)
      <3>1. WalkEntry(a[k], e) = a[k] BY <2>6 DEF WalkEntry
      <3>2. PICK j \in 1..k : Large(j) BY <2>6
      <3>3. j \in 1..(k + 1) OBVIOUS
      <3> HIDE DEF Large
      <3>4. Stops(k + 1) BY <2>2, <2>6, <3>1, <3>2, <3>3
      <3> QED BY <3>4
    <2>7. CASE Goes(k)
      <3> DEFINE m == a[k].total + Declared(e)
                 B == a[k].atoms \cup Extract(e)
                 r == WalkEntry(a[k], e)
      <3>0. Going(a[k]) /\ IsEntry(e) BY <2>4, <2>7 DEF Going, IsEntry
      <3>1. /\ DOMAIN r = Fields
            /\ EntryRefused(a[k], e) => r.ok = FALSE
            /\ ~EntryRefused(a[k], e) => EntryTaken(a[k], e, r)
        BY <3>0, EntryWalked, Zenon
      <3>10. EntryRefused(a[k], e) <=> \/ m > MaxTotal
                                       \/ e.matches /\ e.size > MaxEntry
                                       \/ Taken(k + 1) /\ Cardinality(B) > MaxAtoms
        BY <2>8, Zenon DEF EntryRefused
      <3>11. EntryTaken(a[k], e, r) => /\ r.ok = TRUE /\ r.total = m
                                       /\ r.atoms = IF Taken(k + 1) THEN B ELSE a[k].atoms
        BY <2>8, Zenon DEF EntryTaken
      <3>2. m = s[k + 1] BY <2>3, <2>7
      <3>3. At(k + 1) = IF Taken(k + 1) THEN B ELSE a[k].atoms
        <4> HIDE DEF At
        <4> QED BY <2>5, <2>7
      <3>4. a[k + 1] = r BY <2>2
      <3>8. a[k].atoms = At(k) /\ Cardinality(At(k)) <= MaxAtoms BY <2>7
      <3>9. \A j \in 1..k : t[j].matches => t[j].size <= MaxEntry BY <2>7
      <3> HIDE DEF m, B, r, At
      <3>5. CASE EntryRefused(a[k], e)
        <4>1. a[k + 1].ok = FALSE BY <3>1, <3>4, <3>5
        <4>2. Large(k + 1)
          <5>1. CASE m > MaxTotal BY <3>2, <5>1
          <5>2. CASE e.matches /\ e.size > MaxEntry BY <2>8, <5>2
          <5>3. CASE Taken(k + 1) /\ Cardinality(B) > MaxAtoms
            <6>1. At(k + 1) = B BY <3>3, <5>3
            <6> QED BY <5>3, <6>1
          <5> QED BY <3>10, <3>5, <5>1, <5>2, <5>3
        <4>3. k + 1 \in 1..(k + 1) OBVIOUS
        <4> HIDE DEF Large
        <4>4. Stops(k + 1) BY <4>1, <4>2, <4>3
        <4> QED BY <4>4
      <3>6. CASE ~EntryRefused(a[k], e)
        <4>1. a[k + 1].ok = TRUE /\ a[k + 1].total = s[k + 1] /\ DOMAIN a[k + 1] = Fields
          BY <3>1, <3>11, <3>2, <3>4, <3>6
        <4>2. a[k + 1].atoms = At(k + 1) BY <3>1, <3>11, <3>3, <3>4, <3>6
        <4>3. s[k + 1] <= MaxTotal
          <5>1. ~(s[k + 1] > MaxTotal) BY <3>10, <3>2, <3>6
          <5> QED BY <1>4, <2>3, <5>1
        <4>4. e.matches => e.size <= MaxEntry BY <1>4, <2>3, <3>10, <3>6
        <4>5. \A j \in 1..(k + 1) : t[j].matches => t[j].size <= MaxEntry
          <5> SUFFICES ASSUME NEW j \in 1..(k + 1), t[j].matches PROVE t[j].size <= MaxEntry OBVIOUS
          <5>1. CASE j = k + 1 BY <2>8, <4>4, <5>1
          <5>2. CASE j # k + 1
            <6>1. j \in 1..k BY <5>2
            <6> QED BY <3>9, <6>1
          <5> QED BY <5>1, <5>2
        <4>6. Cardinality(At(k + 1)) <= MaxAtoms
          <5>1. CASE Taken(k + 1)
            <6>1. At(k + 1) = B /\ ~(Cardinality(B) > MaxAtoms) BY <3>10, <3>3, <3>6, <5>1
            <6>2. IsFiniteSet(At(k + 1))
              <7> DEFINE G == {Extract(t[j]) : j \in {x \in 1..(k + 1) : Taken(x)}}
              <7>0. At(k + 1) = UNION G BY DEF At
              <7>1. IsFiniteSet({x \in 1..(k + 1) : Taken(x)})
                <8>1. IsFiniteSet(1..(k + 1)) BY FS_Interval
                <8> QED BY <8>1, FS_Subset, Zenon
              <7>2. IsFiniteSet(G)
                <8> DEFINE I == {x \in 1..(k + 1) : Taken(x)}
                           f == [j \in I |-> Extract(t[j])]
                <8>1. f \in Surjection(I, G) BY DEF Surjection
                <8> QED BY <7>1, <8>1, FS_Surjection
              <7>3. \A g \in G : IsFiniteSet(g)
                <8>1. ASSUME NEW j \in 1..(k + 1) PROVE IsFiniteSet(Extract(t[j]))
                  <9>1. j \in 1..n BY <1>1, <2>1
                  <9> QED BY <1>3, <9>1, ExtractFinite
                <8> QED BY <8>1
              <7> HIDE DEF G
              <7> QED BY <7>0, <7>2, <7>3, FS_UNION
            <6>3. Cardinality(At(k + 1)) \in Nat BY <6>2, FS_CardinalityType
            <6> QED BY <1>4, <6>1, <6>3
          <5>2. CASE ~Taken(k + 1) BY <3>3, <3>8, <5>2
          <5> QED BY <5>1, <5>2
        <4>7. Goes(k + 1) BY <4>1, <4>2, <4>3, <4>5, <4>6
        <4> QED BY <4>7
      <3> QED BY <3>5, <3>6
    <2> QED BY <2>0, <2>1, <2>6, <2>7
  <1>9. n \in S
    <2> HIDE DEF S
    <2> QED BY <1>1, <1>7, <1>8, InductiveSet DEF n
  <1>10. Goes(n) \/ Stops(n)
    <2> HIDE DEF Goes, Stops
    <2>1. n <= n /\ n \in Nat BY <1>1 DEF n
    <2> QED BY <1>9, <2>1
  <1> DEFINE A == UNION {Extract(e) : e \in {e \in Range(t) : e.matches /\ e.readable}}
             Ok == /\ Size(t) <= MaxTotal
                   /\ \A e \in Range(t) : e.matches => e.size <= MaxEntry
                   /\ Cardinality(A) <= MaxAtoms
  <1>11. Whole(t).ok = Ok /\ Whole(t).atoms = A BY Zenon DEF Whole
  <1>12. A = At(n) BY <1>2 DEF n
  <1>13. IsFiniteSet(A)
    <2> DEFINE R == {e \in Range(t) : e.matches /\ e.readable}
               G == {Extract(e) : e \in R}
    <2>1. IsFiniteSet(Range(t))
      <3>1. IsFiniteSet(1..n) BY <1>1, FS_Interval DEF n
      <3>2. t \in Surjection(1..n, Range(t)) BY <1>1, <1>2 DEF Surjection, IsTarball, n
      <3> QED BY <3>1, <3>2, FS_Surjection
    <2>2. IsFiniteSet(R) BY <2>1, FS_Subset, Zenon
    <2>3. IsFiniteSet(G)
      <3> DEFINE f == [e \in R |-> Extract(e)]
      <3>1. f \in Surjection(R, G) BY DEF Surjection
      <3> QED BY <2>2, <3>1, FS_Surjection
    <2>4. \A g \in G : IsFiniteSet(g) BY ExtractFinite DEF IsTarball
    <2> HIDE DEF G
    <2>5. IsFiniteSet(UNION G) BY <2>3, <2>4, FS_UNION
    <2> QED BY <2>5 DEF G
  <1>14. CASE Goes(n)
    <2>1. Walk(t).ok = TRUE /\ Walk(t).atoms = A BY <1>5, <1>12, <1>14
    <2>2. Size(t) <= MaxTotal BY <1>6, <1>14
    <2>3. \A e \in Range(t) : e.matches => e.size <= MaxEntry BY <1>2, <1>14 DEF n
    <2>4. Cardinality(A) <= MaxAtoms BY <1>12, <1>14
    <2> HIDE DEF A
    <2> QED BY <1>11, <2>1, <2>2, <2>3, <2>4
  <1>15. CASE Stops(n)
    <2>1. Walk(t).ok = FALSE BY <1>5, <1>15
    <2>2. PICK j \in 1..n : Large(j) BY <1>15
    <2>3. ~Ok
      <3>1. CASE s[j] > MaxTotal
        <4>1. j \in 0..n /\ n \in 0..n BY <1>1 DEF n
        <4>2. s[j] <= s[n] /\ s[j] \in Nat /\ s[n] \in Nat BY <1>6, <4>1
        <4>3. ~(Size(t) <= MaxTotal) BY <1>4, <1>6, <3>1, <4>2
        <4> QED BY <4>3
      <3>2. CASE t[j].matches /\ t[j].size > MaxEntry
        <4>1. t[j] \in Range(t) BY <1>2 DEF n
        <4>2. ~(t[j].size <= MaxEntry)
          <5>1. t[j].size \in Nat BY <1>3 DEF n
          <5> QED BY <1>4, <3>2, <5>1
        <4> QED BY <3>2, <4>1, <4>2
      <3>3. CASE Cardinality(At(j)) > MaxAtoms
        <4>1. At(j) \subseteq At(n)
          <5>1. 1..j \subseteq 1..n BY <1>1 DEF n
          <5> QED BY <5>1
        <4> HIDE DEF A, At
        <4>2. /\ Cardinality(At(j)) \in Nat /\ Cardinality(A) \in Nat
              /\ Cardinality(At(j)) <= Cardinality(A)
          <5>1. IsFiniteSet(At(j)) /\ Cardinality(At(j)) <= Cardinality(A)
            BY <1>12, <1>13, <4>1, FS_Subset
          <5> QED BY <1>13, <5>1, FS_CardinalityType
        <4>3. ~(Cardinality(A) <= MaxAtoms) BY <1>4, <3>3, <4>2
        <4> QED BY <4>3
      <3> QED BY <2>2, <3>1, <3>2, <3>3
    <2> HIDE DEF Ok, A
    <2> QED BY <1>11, <2>1, <2>3
  <1> QED BY <1>10, <1>14, <1>15

-----------------------------------------------------------------------------
(* Results.                                                                *)

\* Every variable keeps its type: no fetcher runs with pins that load_pins
\* refuses, and two live processes never share a temporary name.
THEOREM AtomFetchTypeCorrect == Spec => []TypeOK
  <1>1. FetchInv => TypeOK
    <2> SUFFICES ASSUME FetchInv PROVE TypeOK OBVIOUS
    <2>1. file \in stable /\ file.corpus \in Corpora BY DEF FetchInv, FilesOK, Names
    <2>2. mem \in Corpora BY DEF FetchInv, MemOK, Corpus
    <2>3. "daemon" \in Fetchers /\ "oneshot" \in Fetchers BY DEF Fetchers
    <2> QED
      BY <2>1, <2>2, <2>3
      DEF TypeOK, FetchInv, FetchTypes, FetcherOK, PinsOK, MemOK, Up
  <1> QED BY <1>1, FetchInvariant, PTL

\* load_pins and verify_digest: of a source that was never live only pinned
\* revisions are published and loaded, whatever happens to the pin file, the
\* processes and the server's answers.
THEOREM PinnedSourcesStayPinned == Spec => []PinsHold
  <1>1. FetchInv => PinsHold
    <2> SUFFICES ASSUME FetchInv, NEW s \in Sources \ lapsed, NEW c \in {file.corpus, mem}
                 PROVE  c.from[s] \in pinned[s] \cup {NoRev}
      BY DEF PinsHold
    <2>1. Corpus(file.corpus, lapsed, pinned) /\ Corpus(mem, lapsed, pinned)
      BY DEF FetchInv, FilesOK, MemOK
    <2> QED BY <2>1 DEF Corpus, Permitted
  <1> QED BY <1>1, FetchInvariant, PTL

\* walk_tarball_atoms: whatever a source has in a revision, the walk of its tarball
\* ends well just when the tarball as a whole is acceptable, and then it gives
\* the whole extraction.
THEOREM WalkExact ==
    \A s \in Sources, r \in Revs :
        /\ Walked[s][r].ok <=> Reference[s][r].ok
        /\ Walked[s][r].ok => Reference[s][r].atoms = Walked[s][r].atoms
  <1> SUFFICES ASSUME NEW s \in Sources, NEW r \in Revs
               PROVE  /\ Walked[s][r].ok <=> Reference[s][r].ok
                      /\ Walked[s][r].ok => Reference[s][r].atoms = Walked[s][r].atoms
    OBVIOUS
  <1>1. IsTarball(Tarball[s][r]) BY AtomFetchAssumption
  <1>2. Walked[s][r] = Walk(Tarball[s][r]) BY DEF Walked
  <1>3. Reference[s][r] = Whole(Tarball[s][r]) BY DEF Reference
  <1> QED BY <1>1, <1>2, <1>3, WalkIsExtraction

\* write_atoms and fetch_all: what is published and what the classifier matches
\* against is the whole extraction of acceptable tarballs, under concurrent
\* fetchers, kills and losses of power at any step.
THEOREM PublicationIsWhole == Spec => []PublishedWhole
  <1>1. ASSUME NEW c, NEW lap, NEW pin, Corpus(c, lap, pin)
        PROVE  LET from == {s \in Sources : c.from[s] # NoRev} IN
               /\ c # Torn
               /\ \A s \in from : Reference[s][c.from[s]].ok
               /\ c.atoms = UNION {Reference[s][c.from[s]].atoms : s \in from}
               /\ Cardinality(c.atoms) <= MaxAtoms
    <2> DEFINE from == {s \in Sources : c.from[s] # NoRev}
               R == UNION {Reference[s][c.from[s]].atoms : s \in from}
    <2>1. c.from \in Froms /\ c.atoms = AtomsOf(c.from) /\ Cardinality(c.atoms) <= MaxAtoms
          /\ \A s \in Sources : c.from[s] # NoRev => Walked[s][c.from[s]].ok
      BY <1>1 DEF Corpus, Gathered
    <2>2. c # Torn
      <3>1. PICK s \in Sources : TRUE BY SourceFacts
      <3>2. Torn.from[s] = "torn" BY DEF Torn
      <3>3. c.from[s] \in Revs \cup {NoRev} BY <2>1 DEF Froms
      <3> QED BY <3>2, <3>3, SourceFacts
    <2>3. \A s \in from : /\ Reference[s][c.from[s]].ok
                          /\ Reference[s][c.from[s]].atoms = Walked[s][c.from[s]].atoms
      BY <2>1, WalkExact DEF Froms
    <2>4. \A a : a \in R <=> \E s \in from : a \in Reference[s][c.from[s]].atoms OBVIOUS
    <2>5. \A a : a \in AtomsOf(c.from)
            <=> \E s \in Sources : c.from[s] # NoRev /\ a \in Walked[s][c.from[s]].atoms
      BY AtomsOfMember
    <2>6. \A a : a \in R <=> a \in AtomsOf(c.from)
      <3> HIDE DEF R
      <3> QED BY <2>3, <2>4, <2>5
    <2>7. c.atoms = R
      <3> HIDE DEF R
      <3> QED BY <2>1, <2>6
    <2> QED BY <2>1, <2>2, <2>3, <2>7, Zenon
  <1>2. FetchInv => PublishedWhole
    <2> SUFFICES ASSUME FetchInv, NEW c \in {file.corpus, mem}
                 PROVE  LET from == {s \in Sources : c.from[s] # NoRev} IN
                        /\ c # Torn
                        /\ \A s \in from : Reference[s][c.from[s]].ok
                        /\ c.atoms = UNION {Reference[s][c.from[s]].atoms : s \in from}
                        /\ Cardinality(c.atoms) <= MaxAtoms
      BY Zenon DEF PublishedWhole
    <2>1. Corpus(c, lapsed, pinned) BY DEF FetchInv, FilesOK, MemOK
    <2> QED BY <1>1, <2>1, Zenon
  <1> QED BY <1>2, FetchInvariant, PTL

\* diff_step: the anchor of a drift stays for as long as the drift lasts, but for
\* a tick that fails to read it.
THEOREM DriftAnchorStays == Spec => AnchorKept
  <1> DEFINE Kept == \A s \in Sources :
                       snapshot[s] > 0 /\ behind[s] > 0 /\ behind'[s] = behind[s]
                         => \/ snapshot'[s] = snapshot[s]
                            \/ misread' /\ snapshot'[s] \in {0, now}
  <1>1. ASSUME FetchInv, Drift PROVE Kept
    <2> SUFFICES ASSUME NEW s \in Sources, snapshot[s] > 0, behind[s] > 0, behind'[s] = behind[s]
                 PROVE  \/ snapshot'[s] = snapshot[s]
                        \/ misread' /\ snapshot'[s] \in {0, now}
      OBVIOUS
    <2>1. PICK up \in [Sources -> Revs \cup {NoRev}], reads \in BOOLEAN, writes \in BOOLEAN :
            /\ \A x \in Sources : up[x] \in {head[x], NoRev}
            /\ snapshot' = IF writes
                          THEN [x \in Sources |-> DiffStep(IF reads THEN snapshot[x] ELSE 0, PinOf(x), up[x])]
                          ELSE snapshot
            /\ misread' = ~reads
      BY <1>1 DEF Drift
    <2>2. behind'[s] = IF PinOf(s) \in {NoRev, head[s]} THEN 0
                       ELSE IF behind[s] # 0 THEN behind[s] ELSE now
      BY <1>1 DEF Drift
    <2>3. PinOf(s) # NoRev /\ PinOf(s) # head[s] BY <2>2
    <2>4. CASE reads
      <3>1. DiffStep(snapshot[s], PinOf(s), up[s]) = snapshot[s] BY <2>1, <2>3 DEF DiffStep
      <3> QED BY <2>1, <2>4, <3>1
    <2>5. CASE ~reads
      <3>1. DiffStep(0, PinOf(s), up[s]) \in {0, now} BY <2>1, <2>3 DEF DiffStep
      <3> QED BY <2>1, <2>5, <3>1
    <2> QED BY <2>4, <2>5
  <1>2. ASSUME [Next]_vars, ~Drift PROVE UNCHANGED snapshot
    BY <1>2
    DEF Next, Refresh, Server, FirstTick, Fetching, FetchOne, Create, Rename, Loading, Read, Install,
        Wake, Classify, Signal, Crash, PowerLoss, Chown, StartDaemon, StartOneShot, EditPins, Push,
        driftVars, writeUnchanged, readUnchanged, vars
  <1>3. FetchInv /\ [Next]_vars => Kept BY <1>1, <1>2
  <1>4. FetchInv /\ [Next]_vars => [Kept]_vars BY <1>3
  <1> QED BY <1>4, FetchInvariant, PTL DEF Spec, AnchorKept

=============================================================================
