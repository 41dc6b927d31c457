------------------------ MODULE ProfileSwitchProofs ------------------------
(***************************************************************************)
(* Proofs about ProfileSwitch, for any rules, profiles and number of       *)
(* threads, and for BPF calls that fail anywhere.                          *)
(*                                                                         *)
(* switch_lock leaves one thread between the swap of the profile and the   *)
(* store of the counts.  While it goes through the rules, the deny maps    *)
(* are described by its position in the list: the rules before it are      *)
(* settled, the others as the last switch left them.  The counts compare   *)
(* the entries before it with the maps; when the position reaches the end, *)
(* that is a comparison with the whole list.                               *)
(***************************************************************************)
EXTENDS ProfileSwitch, FiniteSetTheorems, SequenceTheorems, TLAPS

\* The rules of map m before position n of the list.
Settled(n, m) == {List[i].r : i \in {j \in 1..(n - 1) : List[j].m = m}}

\* The entries of S before position n.
Before(n, S) == {i \in S : i < n}

-----------------------------------------------------------------------------
(* The list of rules.                                                      *)

LEMMA ListEntries ==
    /\ Len(DenyBins) \in Nat /\ Len(DenyNames) \in Nat
    /\ Len(List) = Len(DenyBins) + Len(DenyNames)
    /\ \A i \in 1..Len(DenyBins) : List[i] = [m |-> "bins", r |-> DenyBins[i]]
    /\ \A i \in 1..Len(DenyNames) :
         List[Len(DenyBins) + i] = [m |-> "names", r |-> DenyNames[i]]
  <1> DEFINE bins == [i \in 1..Len(DenyBins) |-> [m |-> "bins", r |-> DenyBins[i]]]
             names == [i \in 1..Len(DenyNames) |-> [m |-> "names", r |-> DenyNames[i]]]
  <1>1. Len(DenyBins) \in Nat /\ Len(DenyNames) \in Nat BY ProfileSwitchAssumption
  <1>2. bins \in Seq(Rules) /\ Len(bins) = Len(DenyBins)
    BY <1>1, ProfileSwitchAssumption DEF Rules
  <1>3. names \in Seq(Rules) /\ Len(names) = Len(DenyNames)
    BY <1>1, ProfileSwitchAssumption DEF Rules
  <1>4. List = bins \o names BY DEF List
  <1>5. /\ \A i \in 1..Len(DenyBins) : bins[i] = [m |-> "bins", r |-> DenyBins[i]]
        /\ \A i \in 1..Len(DenyNames) : names[i] = [m |-> "names", r |-> DenyNames[i]]
    OBVIOUS
  <1> HIDE DEF bins, names
  <1>8. Len(bins \o names) = Len(bins) + Len(names) BY <1>2, <1>3, ConcatProperties
  <1>9. Len(List) = Len(bins \o names) BY <1>4
  <1>6. Len(List) = Len(DenyBins) + Len(DenyNames) BY <1>2, <1>3, <1>8, <1>9
  <1>7. /\ \A i \in 1..Len(DenyBins) : List[i] = bins[i]
        /\ \A i \in 1..Len(DenyNames) : List[Len(DenyBins) + i] = names[i]
    BY <1>1, <1>2, <1>3, <1>4, <1>6, ConcatProperties
  <1> QED BY <1>1, <1>5, <1>6, <1>7

\* The list has every rule.
LEMMA ListRules ==
    /\ Len(List) \in Nat
    /\ \A i \in 1..Len(List) : List[i] \in Rules /\ List[i].m \in Maps
    /\ \A x \in Rules : \E i \in 1..Len(List) : List[i] = x
  <1>0. /\ DOMAIN DenyBins = 1..Len(DenyBins) /\ DOMAIN DenyNames = 1..Len(DenyNames)
    BY ProfileSwitchAssumption
  <1>1. ASSUME NEW i \in 1..Len(List)
        PROVE  \/ /\ i \in 1..Len(DenyBins)
                  /\ List[i].m = "bins" /\ List[i].r = DenyBins[i] /\ List[i] \in Rules
               \/ /\ i - Len(DenyBins) \in 1..Len(DenyNames)
                  /\ List[i].m = "names" /\ List[i].r = DenyNames[i - Len(DenyBins)]
                  /\ List[i] \in Rules
    <2>0. i \in Int /\ i >= 1 /\ i <= Len(DenyBins) + Len(DenyNames) BY ListEntries
    <2>1. CASE i <= Len(DenyBins)
      <3>1. i \in 1..Len(DenyBins) BY <2>0, <2>1, ListEntries
      <3>2. List[i] = [m |-> "bins", r |-> DenyBins[i]] BY <3>1, ListEntries
      <3>3. DenyBins[i] \in Range(DenyBins) BY <1>0, <3>1 DEF Range
      <3> QED BY <3>1, <3>2, <3>3 DEF Rules
    <2>2. CASE i > Len(DenyBins)
      <3> DEFINE j == i - Len(DenyBins)
      <3>1. j \in 1..Len(DenyNames) /\ i = Len(DenyBins) + j BY <2>0, <2>2, ListEntries
      <3>2. List[Len(DenyBins) + j] = [m |-> "names", r |-> DenyNames[j]] BY <3>1, ListEntries
      <3>3. DenyNames[j] \in Range(DenyNames) BY <1>0, <3>1 DEF Range
      <3> QED BY <3>1, <3>2, <3>3 DEF Rules
    <2> QED BY <2>0, <2>1, <2>2, ListEntries
  <1>2. Len(List) \in Nat BY ListEntries
  <1>3. \A i \in 1..Len(List) : List[i] \in Rules /\ List[i].m \in Maps
    BY <1>1 DEF Maps
  <1>5. ASSUME NEW x \in Rules PROVE \E i \in 1..Len(List) : List[i] = x
    <2>1. CASE x \in [m : {"bins"}, r : Range(DenyBins)]
      <3>1. PICK i \in 1..Len(DenyBins) : x.r = DenyBins[i] BY <1>0, <2>1 DEF Range
      <3>2. x = [m |-> "bins", r |-> DenyBins[i]] BY <2>1, <3>1
      <3>3. i \in 1..Len(List) BY ListEntries
      <3> QED BY <3>2, <3>3, ListEntries
    <2>2. CASE x \in [m : {"names"}, r : Range(DenyNames)]
      <3>1. PICK i \in 1..Len(DenyNames) : x.r = DenyNames[i] BY <1>0, <2>2 DEF Range
      <3>2. x = [m |-> "names", r |-> DenyNames[i]] BY <2>2, <3>1
      <3>3. Len(DenyBins) + i \in 1..Len(List) BY ListEntries
      <3> QED BY <3>2, <3>3, ListEntries
    <2> QED BY <2>1, <2>2 DEF Rules
  <1> QED BY <1>2, <1>3, <1>5

LEMMA ArmableRules ==
    /\ \A x \in Rules : Encodes(x) <=> x.r \in Armable(x.m)
    /\ \A m \in Maps : \A r \in Armable(m) : \E i \in 1..Len(List) : List[i].m = m /\ List[i].r = r
  <1>1. ASSUME NEW x \in Rules PROVE Encodes(x) <=> x.r \in Armable(x.m)
    BY DEF Encodes, Armable, Rules
  <1>2. ASSUME NEW m \in Maps, NEW r \in Armable(m)
        PROVE  \E i \in 1..Len(List) : List[i].m = m /\ List[i].r = r
    <2>1. PICK x \in Rules : x.m = m /\ x.r = r BY DEF Armable
    <2> QED BY <2>1, ListRules
  <1> QED BY <1>1, <1>2

\* How the settled rules grow with the position.
LEMMA SettledRules ==
    /\ \A m \in Maps : Settled(1, m) = {}
    /\ \A m \in Maps : Armable(m) \subseteq Settled(Len(List) + 1, m)
    /\ \A n \in 1..Len(List) :
         /\ Settled(n + 1, List[n].m) = Settled(n, List[n].m) \cup {List[n].r}
         /\ \A m \in Maps \ {List[n].m} : Settled(n + 1, m) = Settled(n, m)
  <1>1. ASSUME NEW m \in Maps PROVE Settled(1, m) = {} BY DEF Settled
  <1>2. ASSUME NEW m \in Maps PROVE Armable(m) \subseteq Settled(Len(List) + 1, m)
    BY ArmableRules, ListRules DEF Settled
  <1>3. ASSUME NEW n \in 1..Len(List)
        PROVE  /\ Settled(n + 1, List[n].m) = Settled(n, List[n].m) \cup {List[n].r}
               /\ \A m \in Maps \ {List[n].m} : Settled(n + 1, m) = Settled(n, m)
    <2>1. n \in Nat /\ n <= Len(List) /\ Len(List) \in Nat BY ListRules
    <2>2. (n + 1) - 1 = n /\ 1..n = 1..(n - 1) \cup {n} BY <2>1, <1>3
    <2>4. \A m : Settled(n + 1, m) = {List[i].r : i \in {j \in 1..n : List[j].m = m}}
      BY <2>2 DEF Settled
    <2>5. Settled(n + 1, List[n].m) = Settled(n, List[n].m) \cup {List[n].r}
      BY <2>2, <2>4 DEF Settled
    <2>6. ASSUME NEW m \in Maps \ {List[n].m} PROVE Settled(n + 1, m) = Settled(n, m)
      BY <2>2, <2>4 DEF Settled
    <2> QED BY <2>5, <2>6
  <1> QED BY <1>1, <1>2, <1>3

\* The entries before a position, as it moves.
LEMMA BeforeStep ==
    ASSUME NEW S \in SUBSET (1..Len(List))
    PROVE  /\ IsFiniteSet(S) /\ Cardinality(Before(1, S)) = 0 /\ Before(Len(List) + 1, S) = S
           /\ \A n \in 1..(Len(List) + 1) : Cardinality(Before(n, S)) \in Nat
           /\ \A n \in 1..Len(List) :
                Cardinality(Before(n + 1, S)) = Cardinality(Before(n, S)) + (IF n \in S THEN 1 ELSE 0)
  <1>0. /\ Len(List) \in Nat
        /\ \A i \in S : i \in Nat /\ 1 <= i /\ i <= Len(List)
    BY ListRules
  <1>1. IsFiniteSet(S)
    <2>1. IsFiniteSet(1..Len(List)) BY <1>0, FS_Interval
    <2> QED BY <2>1, FS_Subset
  <1>2. \A n : IsFiniteSet(Before(n, S)) BY <1>1, FS_Subset DEF Before
  <1>3. \A n : Cardinality(Before(n, S)) \in Nat BY <1>2, FS_CardinalityType
  <1>4. Before(1, S) = {}
    <2>1. \A i \in S : ~(i < 1) BY <1>0
    <2> QED BY <2>1 DEF Before
  <1>5. Before(Len(List) + 1, S) = S
    <2>1. \A i \in S : i < Len(List) + 1 BY <1>0
    <2> QED BY <2>1 DEF Before
  <1>6. ASSUME NEW n \in 1..Len(List)
        PROVE  Cardinality(Before(n + 1, S)) = Cardinality(Before(n, S)) + (IF n \in S THEN 1 ELSE 0)
    <2>0. n \in Nat BY <1>0
    <2>1. n \notin Before(n, S) BY <2>0 DEF Before
    <2>2. CASE n \in S
      <3>0. \A i \in S : i < n + 1 <=> i < n \/ i = n BY <1>0, <2>0
      <3>1. Before(n + 1, S) = Before(n, S) \cup {n} BY <2>2, <3>0 DEF Before
      <3> QED BY <1>2, <2>1, <2>2, <3>1, FS_AddElement
    <2>3. CASE n \notin S
      <3>0. \A i \in S : i < n + 1 <=> i < n BY <1>0, <2>0, <2>3
      <3>1. Before(n + 1, S) = Before(n, S) BY <3>0 DEF Before
      <3> QED BY <1>3, <2>3, <3>1
    <2> QED BY <2>2, <2>3
  <1> QED BY <1>1, <1>3, <1>4, <1>5, <1>6, FS_EmptySet

\* A larger set has at least as many entries before a position.
LEMMA BeforeGrows ==
    ASSUME NEW S \in SUBSET (1..Len(List)), NEW T \in SUBSET S, NEW n
    PROVE  Cardinality(Before(n, T)) <= Cardinality(Before(n, S))
  <1>1. IsFiniteSet(Before(n, S)) BY BeforeStep, FS_Subset DEF Before
  <1>2. Before(n, T) \subseteq Before(n, S) BY DEF Before
  <1> QED BY <1>1, <1>2, FS_Subset

-----------------------------------------------------------------------------
(* The inductive invariant.                                                *)

Changing == {"arm", "clear", "store"}

\* A thread holds switch_lock from the swap to the response; before it goes
\* through the rules it is at their start.
ThreadShape(t) ==
    /\ switch_lock = t <=> pc[t] \in {"swap"} \cup Changing
    /\ pc[t] \notin Changing => at[t] = 1 /\ count[t] = Zero
    /\ pc[t] = "arm" => IsStrict
    /\ pc[t] = "clear" => ~IsStrict

\* Between switches: the maps and the gate follow the profile unless a call
\* failed, and the counts are honest.
Follows(c) ==
    ~failed =>
      /\ \A m \in Maps : deny[m] = IF IsStrict THEN Armable(m) ELSE {}
      /\ gate = (IsStrict /\ Armable("names") # {})
      /\ \A m \in Maps : c[m] = Cardinality(IF IsStrict THEN InForce(m) ELSE Repeats(m))
Honest(c) ==
    IF IsStrict
    THEN /\ c["bins"] <= Cardinality(InForce("bins"))
         /\ c["names"] <= IF gate THEN Cardinality(InForce("names")) ELSE 0
    ELSE \A m \in Maps : Cardinality(InForce(m)) <= c[m]

\* The counts of the start are not compared with the maps under strict.
AtRest ==
    /\ ~failed =>
         /\ \A m \in Maps : deny[m] = IF IsStrict THEN Armable(m) ELSE {}
         /\ gate = (IsStrict /\ Armable("names") # {})
    /\ ~seeded => Follows(armed)
    /\ ~(IsStrict /\ seeded) => Honest(armed)

\* Within a switch: the same of the entries before the position.
Arming(t) ==
    \A m \in Maps :
        /\ count[t][m] <= Cardinality(Before(at[t], InForce(m)))
        /\ ~failed => /\ deny[m] = Armable(m) \cap Settled(at[t], m)
                      /\ count[t][m] = Cardinality(Before(at[t], InForce(m)))
Clearing(t) ==
    \A m \in Maps :
        /\ Cardinality(Before(at[t], InForce(m))) <= count[t][m]
        /\ ~failed => /\ deny[m] = Armable(m) \ Settled(at[t], m)
                      /\ count[t][m] = Cardinality(Before(at[t], Repeats(m)))

Progress(t) ==
    /\ pc[t] = "arm" => Arming(t)
    /\ pc[t] = "clear" => Clearing(t)
    /\ pc[t] = "store" => Follows(count[t]) /\ Honest(count[t])

SwitchInv ==
    /\ TypeOK /\ DOMAIN deny = Maps
    /\ \A t \in Threads : ThreadShape(t) /\ Progress(t)
    /\ (\A t \in Threads : pc[t] \notin Changing) => AtRest

\* The entries in force and the repeated ones, before a position.
LEMMA ForceSets ==
    ASSUME NEW m
    PROVE  /\ InForce(m) \subseteq 1..Len(List) /\ Repeats(m) \subseteq 1..Len(List)
           /\ Cardinality(Before(1, InForce(m))) = 0 /\ Cardinality(Before(1, Repeats(m))) = 0
           /\ Before(Len(List) + 1, InForce(m)) = InForce(m)
           /\ Before(Len(List) + 1, Repeats(m)) = Repeats(m)
           /\ \A n \in 1..(Len(List) + 1) : /\ Cardinality(Before(n, InForce(m))) \in Nat
                                             /\ Cardinality(Before(n, Repeats(m))) \in Nat
  <1>1. InForce(m) \subseteq 1..Len(List) /\ Repeats(m) \subseteq 1..Len(List)
    BY DEF InForce, Repeats, Entries
  <1> QED BY <1>1, BeforeStep

LEMMA SwitchInit == Init => SwitchInv
  <1> SUFFICES ASSUME Init PROVE SwitchInv OBVIOUS
  <1>1. DOMAIN deny = Maps /\ \A m \in Maps : deny[m] \subseteq Armable(m) BY DEF Init
  <1>2. gate \in BOOLEAN BY DEF Init
  <1>3. armed \in [Maps -> Nat]
    BY ListEntries DEF Init, Zero, Maps
  <1>4. /\ active_profile \in Profiles /\ switch_lock = NoThread /\ seeded = TRUE
        /\ failed \in BOOLEAN
    BY DEF Init
  <1>5. /\ pc = [t \in Threads |-> "idle"] /\ to = [t \in Threads |-> Strict]
        /\ at = [t \in Threads |-> 1] /\ count = [t \in Threads |-> Zero]
    BY DEF Init
  <1>6. TypeOK
    <2>1. 1 \in 1..(Len(List) + 1) BY ListRules
    <2>2. Zero \in [Maps -> Nat] BY DEF Zero
    <2> QED
      BY <1>1, <1>2, <1>3, <1>4, <1>5, <2>1, <2>2, ProfileSwitchAssumption DEF TypeOK
  <1>7. ASSUME NEW t \in Threads PROVE ThreadShape(t) /\ Progress(t)
    BY <1>4, <1>5, ProfileSwitchAssumption DEF ThreadShape, Progress, Changing
  <1>8. AtRest
    <2>1. CASE IsStrict
      <3>1. ~failed => \A m \in Maps : deny[m] = Armable(m) BY <2>1 DEF Init
      <3>2. ~failed => gate = (deny["names"] # {}) BY <2>1 DEF Init
      <3>3. ~failed => gate = (IsStrict /\ Armable("names") # {})
        BY <2>1, <3>1, <3>2, Zenon DEF Maps
      <3> QED BY <1>4, <2>1, <3>1, <3>3, Zenon DEF AtRest
    <2>2. CASE ~IsStrict
      <3>1. (\A m \in Maps : deny[m] = {}) /\ gate = FALSE BY <2>2 DEF Init, Maps
      <3>2. \A m \in Maps : armed[m] = 0 BY <2>2 DEF Init, Zero
      <3>3. Cardinality({}) = 0 BY FS_EmptySet
      <3>4. gate = (IsStrict /\ Armable("names") # {}) BY <2>2, <3>1, Zenon
      <3>6. \A m \in Maps : InForce(m) = {} BY <3>1 DEF InForce
      <3>5. Honest(armed) BY <2>2, <3>2, <3>3, <3>6 DEF Honest
      <3> QED BY <1>4, <2>2, <3>1, <3>4, <3>5, Zenon DEF AtRest
    <2> QED BY <2>1, <2>2
  <1> QED BY <1>1, <1>6, <1>7, <1>8 DEF SwitchInv

\* A step of t leaves the other threads as they are.
Alone(t) ==
    \A u \in Threads \ {t} :
        /\ pc'[u] = pc[u] /\ at'[u] = at[u] /\ count'[u] = count[u]
        /\ switch_lock' = u <=> switch_lock = u

\* The holder of switch_lock may change what it likes: no other thread is
\* among the rules.
LEMMA OthersKeepShape ==
    ASSUME SwitchInv, NEW t \in Threads, Alone(t),
           switch_lock = t \/ UNCHANGED <<active_profile, deny, gate, failed>>,
           NEW u \in Threads \ {t}
    PROVE  /\ ThreadShape(u)' /\ Progress(u)'
           /\ switch_lock = t => pc'[u] \notin Changing
  <1>1. /\ pc'[u] = pc[u] /\ at'[u] = at[u] /\ count'[u] = count[u]
        /\ switch_lock' = u <=> switch_lock = u
    BY DEF Alone
  <1>2. ThreadShape(u) /\ Progress(u) BY DEF SwitchInv
  <1>3. CASE switch_lock = t
    <2>1. pc[u] \notin Changing BY <1>2, <1>3 DEF ThreadShape
    <2> QED BY <1>1, <1>2, <2>1 DEF ThreadShape, Progress, Changing
  <1>4. CASE switch_lock # t /\ UNCHANGED <<active_profile, deny, gate, failed>>
    <2>1. ThreadShape(u)' BY <1>1, <1>2, <1>4 DEF ThreadShape, IsStrict
    <2>2. Progress(u)'
      BY <1>1, <1>2, <1>4
      DEF Progress, Arming, Clearing, Follows, Honest, IsStrict, InForce
    <2> QED BY <1>4, <2>1, <2>2
  <1> QED BY <1>3, <1>4

\* A step within a switch.
LEMMA SwitchingKeepsInv ==
    ASSUME SwitchInv, TypeOK', DOMAIN deny' = Maps, NEW t \in Threads, Alone(t),
           switch_lock = t, pc'[t] \in Changing, ThreadShape(t)', Progress(t)'
    PROVE  SwitchInv'
  BY OthersKeepShape DEF SwitchInv

\* The response of a switch whose profile, maps and counts agree.
LEMMA ReplyKeepsInv ==
    ASSUME SwitchInv, NEW t \in Threads, Reply(t), switch_lock = t,
           active_profile' \in Profiles, armed' \in [Maps -> Nat], seeded' \in BOOLEAN,
           UNCHANGED <<deny, gate, failed>>, AtRest'
    PROVE  SwitchInv'
  <1>0. TypeOK BY DEF SwitchInv
  <1>1. /\ pc'[t] = "idle" /\ at'[t] = 1 /\ count'[t] = Zero /\ switch_lock' = NoThread
    BY <1>0 DEF Reply, TypeOK
  <1>2. Alone(t) BY <1>0, ProfileSwitchAssumption DEF Alone, Reply, TypeOK
  <1>3. 1 \in 1..(Len(List) + 1) /\ Zero \in [Maps -> Nat] BY ListRules DEF Zero
  <1>4. TypeOK'
    <2>1. \A m \in Maps : deny'[m] \subseteq Armable(m) BY <1>0 DEF TypeOK
    <2>2. /\ pc' \in [Threads -> {"idle", "lock", "swap", "arm", "clear", "store"}]
          /\ to' \in [Threads -> Profiles]
          /\ at' \in [Threads -> 1..(Len(List) + 1)]
          /\ count' \in [Threads -> [Maps -> Nat]]
      BY <1>0, <1>3, ProfileSwitchAssumption DEF TypeOK, Reply
    <2>3. gate' \in BOOLEAN /\ failed' \in BOOLEAN BY <1>0, Zenon DEF TypeOK
    <2> QED BY <1>1, <2>1, <2>2, <2>3 DEF TypeOK, Armable, List
  <1>5. ThreadShape(t)' /\ Progress(t)'
    BY <1>1, ProfileSwitchAssumption DEF ThreadShape, Progress, Changing
  <1>6. DOMAIN deny' = Maps BY DEF SwitchInv
  <1> QED BY <1>2, <1>4, <1>5, <1>6, OthersKeepShape DEF SwitchInv

LEMMA ReceiveKeepsInv ==
    ASSUME SwitchInv, NEW t \in Threads, NEW p \in Profiles, Receive(t, p)
    PROVE  SwitchInv'
  <1>0. TypeOK BY DEF SwitchInv
  <1>1. /\ pc[t] = "idle" /\ pc' = [pc EXCEPT ![t] = "lock"] /\ to' = [to EXCEPT ![t] = p]
        /\ UNCHANGED <<active_profile, deny, gate, armed, switch_lock, at, count, failed, seeded>>
    BY DEF Receive, kernelVars
  <1>2. TypeOK' BY <1>0, <1>1 DEF TypeOK, Armable, List
  <1>3. Alone(t) BY <1>0, <1>1 DEF Alone, TypeOK
  <1>4. pc'[t] = "lock" BY <1>0, <1>1 DEF TypeOK
  <1>5. ThreadShape(t)' /\ Progress(t)'
    BY <1>1, <1>4 DEF SwitchInv, ThreadShape, Progress, Changing
  <1>6. AtRest' = AtRest BY <1>1 DEF AtRest, Follows, Honest, IsStrict, InForce
  <1>7. (\A u \in Threads : pc'[u] \notin Changing) => (\A u \in Threads : pc[u] \notin Changing)
    BY <1>1, <1>3 DEF Alone, Changing
  <1> QED BY <1>1, <1>2, <1>3, <1>5, <1>6, <1>7, OthersKeepShape DEF SwitchInv

LEMMA LockKeepsInv ==
    ASSUME SwitchInv, NEW t \in Threads, Lock(t)
    PROVE  SwitchInv'
  <1>0. TypeOK BY DEF SwitchInv
  <1>1. /\ pc[t] = "lock" /\ pc' = [pc EXCEPT ![t] = "swap"] /\ switch_lock = NoThread
        /\ switch_lock' = t
        /\ UNCHANGED <<active_profile, deny, gate, armed, to, at, count, failed, seeded>>
    BY DEF Lock, kernelVars
  <1>2. TypeOK' BY <1>0, <1>1 DEF TypeOK, Armable, List
  <1>3. Alone(t) BY <1>0, <1>1, ProfileSwitchAssumption DEF Alone, TypeOK
  <1>4. pc'[t] = "swap" BY <1>0, <1>1 DEF TypeOK
  <1>5. ThreadShape(t)' /\ Progress(t)'
    BY <1>1, <1>4 DEF SwitchInv, ThreadShape, Progress, Changing
  <1>6. AtRest' = AtRest BY <1>1 DEF AtRest, Follows, Honest, IsStrict, InForce
  <1>7. (\A u \in Threads : pc'[u] \notin Changing) => (\A u \in Threads : pc[u] \notin Changing)
    BY <1>1, <1>3 DEF Alone, Changing
  <1> QED BY <1>1, <1>2, <1>3, <1>5, <1>6, <1>7, OthersKeepShape DEF SwitchInv

\* Before the swap the maps are at rest; after it they are the start of the
\* way through the rules, if the border of strict is crossed.
LEMMA SwapKeepsInv ==
    ASSUME SwitchInv, NEW t \in Threads, Swap(t)
    PROVE  SwitchInv'
  <1> DEFINE a == DenyAction(active_profile, to[t])
  <1>0. TypeOK /\ to[t] \in Profiles BY DEF SwitchInv, TypeOK
  <1>1. /\ pc[t] = "swap" /\ active_profile' = to[t]
        /\ UNCHANGED <<deny, gate, armed, failed, seeded>>
    BY DEF Swap, kernelVars
  <1>2. switch_lock = t /\ at[t] = 1 /\ count[t] = Zero
    BY <1>1 DEF SwitchInv, ThreadShape, Changing
  <1>3. AtRest
    BY <1>1, <1>2 DEF SwitchInv, ThreadShape, Changing
  <1>4. CASE a = "none"
    <2>1. Reply(t) BY <1>4 DEF Swap
    <2>2. IsStrict' = IsStrict BY <1>1, <1>4 DEF DenyAction, IsStrict
    <2>3. AtRest' BY <1>1, <1>3, <2>2 DEF AtRest, Follows, Honest, InForce
    <2>4. armed' \in [Maps -> Nat] /\ seeded' \in BOOLEAN BY <1>0, <1>1 DEF TypeOK
    <2> QED BY <1>0, <1>1, <1>2, <2>1, <2>3, <2>4, ReplyKeepsInv
  <1>5. CASE a # "none"
    <2>1. a \in {"arm", "clear"} BY <1>5 DEF DenyAction
    <2>2. pc' = [pc EXCEPT ![t] = a] /\ UNCHANGED <<to, at, count, switch_lock>>
      BY <1>5 DEF Swap
    <2>3. TypeOK' BY <1>0, <1>1, <2>1, <2>2 DEF TypeOK, Armable, List
    <2>4. Alone(t) BY <1>0, <2>2 DEF Alone, TypeOK
    <2>5. pc'[t] = a BY <1>0, <2>2 DEF TypeOK
    <2>6. /\ a = "arm" => IsStrict' /\ ~IsStrict
          /\ a = "clear" => ~IsStrict' /\ IsStrict
      BY <1>1 DEF DenyAction, IsStrict
    <2>7. ThreadShape(t)'
      BY <1>2, <2>1, <2>2, <2>5, <2>6 DEF ThreadShape, Changing
    <2>8. \A m \in Maps : /\ count'[t][m] = 0 /\ Settled(at'[t], m) = {}
                          /\ Cardinality(Before(at'[t], InForce(m))) = 0
                          /\ Cardinality(Before(at'[t], Repeats(m))) = 0
      BY <1>2, <2>2, SettledRules, ForceSets DEF Zero
    <2>9. \A m : InForce(m)' = InForce(m) BY <1>1 DEF InForce
    <2>10. ASSUME a = "arm" PROVE Arming(t)'
      <3>1. ~failed => \A m \in Maps : deny[m] = {} BY <1>3, <2>6, <2>10 DEF AtRest
      <3> QED BY <1>1, <2>8, <2>9, <3>1 DEF Arming
    <2>11. ASSUME a = "clear" PROVE Clearing(t)'
      <3>1. ~failed => \A m \in Maps : deny[m] = Armable(m) BY <1>3, <2>6, <2>11 DEF AtRest
      <3> QED BY <1>1, <2>8, <2>9, <3>1 DEF Clearing
    <2>12. Progress(t)' BY <2>1, <2>5, <2>10, <2>11 DEF Progress
    <2>13. DOMAIN deny' = Maps BY <1>1 DEF SwitchInv
    <2> QED BY <1>2, <2>1, <2>3, <2>4, <2>5, <2>7, <2>12, <2>13, SwitchingKeepsInv DEF Changing
  <1> QED BY <1>4, <1>5

\* What the steps at a rule have in common: the position moves past the rule.
LEMMA RuleStep ==
    ASSUME SwitchInv, NEW t \in Threads, pc[t] \in {"arm", "clear"}, at[t] <= Len(List),
           at' = [at EXCEPT ![t] = @ + 1],
           UNCHANGED <<active_profile, gate, armed, switch_lock, pc, to, seeded>>,
           DOMAIN deny' = Maps, \A m \in Maps : deny'[m] \subseteq Armable(m),
           count' \in [Threads -> [Maps -> Nat]],
           \A u \in Threads \ {t} : count'[u] = count[u],
           failed' \in BOOLEAN
    PROVE  /\ TypeOK' /\ Alone(t) /\ switch_lock = t /\ ThreadShape(t)'
           /\ at[t] \in 1..Len(List) /\ at'[t] = at[t] + 1
  <1>0. TypeOK /\ ThreadShape(t) BY DEF SwitchInv
  <1>1. at[t] \in 1..Len(List) /\ at[t] \in Nat /\ Len(List) \in Nat
    BY <1>0, ListRules DEF TypeOK
  <1>3. at'[t] = at[t] + 1 /\ at' \in [Threads -> 1..(Len(List) + 1)]
    BY <1>0, <1>1 DEF TypeOK
  <1>7. TypeOK' BY <1>0, <1>3 DEF TypeOK, Armable, List
  <1>8. Alone(t) BY <1>0 DEF Alone, TypeOK
  <1>9. switch_lock = t BY <1>0 DEF ThreadShape, Changing
  <1>10. ThreadShape(t)' BY <1>0 DEF ThreadShape, Changing, IsStrict
  <1> QED BY <1>1, <1>3, <1>7, <1>8, <1>9, <1>10

\* The step at rule n of map x.m: the maps of the others are left alone, and so
\* are their entries before the position.
LEMMA OtherMaps ==
    ASSUME NEW n \in 1..Len(List), NEW m \in Maps \ {List[n].m}, deny'[m] = deny[m]
    PROVE  /\ Before(n + 1, InForce(m)') = Before(n, InForce(m))
           /\ Before(n + 1, Repeats(m)) = Before(n, Repeats(m))
  <1>1. Len(List) \in Nat BY ListRules
  <1>2. n \notin InForce(m) /\ n \notin Repeats(m) BY DEF InForce, Repeats, Entries
  <1>3. InForce(m)' = InForce(m) BY DEF InForce
  <1>4. InForce(m) \subseteq 1..Len(List) /\ Repeats(m) \subseteq 1..Len(List) BY ForceSets
  <1> QED BY <1>1, <1>2, <1>3, <1>4 DEF Before

\* Arming rule n, which puts its key in force.
LEMMA ForceGrows ==
    ASSUME NEW n \in 1..Len(List), NEW m \in Maps, m = List[n].m,
           deny'[m] = deny[m] \cup {List[n].r}
    PROVE  /\ Cardinality(Before(n, InForce(m))) + 1 <= Cardinality(Before(n + 1, InForce(m)'))
           /\ (List[n].r \in Settled(n, m) => List[n].r \in deny[m]) =>
                Cardinality(Before(n + 1, InForce(m)')) = Cardinality(Before(n, InForce(m))) + 1
  <1>1. n \in Nat /\ Len(List) \in Nat BY ListRules
  <1>2. InForce(m)' = {i \in Entries(m) : List[i].r \in deny[m] \cup {List[n].r}} BY DEF InForce
  <1>3. n \in InForce(m)' /\ InForce(m)' \in SUBSET (1..Len(List)) BY <1>2 DEF Entries
  <1>4. InForce(m) \in SUBSET InForce(m)' BY <1>2 DEF InForce
  <1>5. Cardinality(Before(n + 1, InForce(m)')) = Cardinality(Before(n, InForce(m)')) + 1
    BY <1>3, BeforeStep
  <1>6. Cardinality(Before(n, InForce(m))) <= Cardinality(Before(n, InForce(m)'))
    BY <1>3, <1>4, BeforeGrows
  <1>7. /\ Cardinality(Before(n, InForce(m))) \in Nat
        /\ Cardinality(Before(n, InForce(m)')) \in Nat
    <2>1. n \in 1..(Len(List) + 1) BY <1>1
    <2> QED BY <1>3, <2>1, ForceSets, BeforeStep
  <1>8. ASSUME List[n].r \in Settled(n, m) => List[n].r \in deny[m]
        PROVE  Before(n, InForce(m)') = Before(n, InForce(m))
    <2>1. ASSUME NEW i \in Entries(m), i < n, List[i].r = List[n].r PROVE List[i].r \in deny[m]
      BY <1>1, <1>8, <2>1 DEF Entries, Settled
    <2>2. \A i \in Entries(m) : i < n =>
            (List[i].r \in deny[m] \cup {List[n].r} <=> List[i].r \in deny[m])
      BY <2>1
    <2> QED BY <1>2, <2>2 DEF Before, InForce
  <1>9. Cardinality(Before(n, InForce(m))) + 1 <= Cardinality(Before(n + 1, InForce(m)'))
    BY <1>5, <1>6, <1>7
  <1> QED BY <1>5, <1>8, <1>9

LEMMA ArmRuleKeepsInv ==
    ASSUME SwitchInv, NEW t \in Threads, ArmRule(t)
    PROVE  SwitchInv'
  <1> SUFFICES ASSUME NEW n, n = at[t], NEW x, x = List[n] PROVE SwitchInv' OBVIOUS
  <1> DEFINE S(m) == Settled(n, m)
  <1>0. TypeOK /\ DOMAIN deny = Maps BY DEF SwitchInv
  <1>1. /\ pc[t] = "arm" /\ at[t] <= Len(List) /\ at' = [at EXCEPT ![t] = @ + 1]
        /\ UNCHANGED <<active_profile, gate, armed, switch_lock, pc, to, seeded>>
    BY DEF ArmRule
  <1>2. Arming(t) BY <1>1 DEF SwitchInv, Progress
  <1>3. n \in 1..Len(List) /\ x \in Rules /\ x.m \in Maps
    BY <1>0, <1>1, ListRules DEF TypeOK
  <1>4. Encodes(x) <=> x.r \in Armable(x.m) BY <1>3, ArmableRules
  <1>5. deny[x.m] \subseteq Armable(x.m) /\ count[t][x.m] \in Nat /\ failed \in BOOLEAN
    BY <1>0, <1>3 DEF TypeOK
  <1>6. \A m \in Maps : Cardinality(Before(n, InForce(m))) \in Nat
    BY <1>3, ForceSets, ListRules
  \* What has to be shown of rule x's map, and what remains of the others'.
  <1>7. ASSUME DOMAIN deny' = Maps, deny'[x.m] \subseteq Armable(x.m),
               count' \in [Threads -> [Maps -> Nat]],
               \A u \in Threads \ {t} : count'[u] = count[u], failed' \in BOOLEAN,
               \A m \in Maps \ {x.m} : deny'[m] = deny[m] /\ count'[t][m] = count[t][m],
               ~failed' => ~failed,
               count'[t][x.m] <= Cardinality(Before(n + 1, InForce(x.m)')),
               ~failed' => /\ deny'[x.m] = Armable(x.m) \cap (S(x.m) \cup {x.r})
                           /\ count'[t][x.m] = Cardinality(Before(n + 1, InForce(x.m)'))
        PROVE  SwitchInv'
    <2>1. \A m \in Maps : deny'[m] \subseteq Armable(m) BY <1>0, <1>7 DEF TypeOK
    <2>2. /\ TypeOK' /\ Alone(t) /\ switch_lock = t /\ ThreadShape(t)'
          /\ Settled(at'[t], x.m) = S(x.m) \cup {x.r} /\ at'[t] = n + 1
          /\ \A m \in Maps \ {x.m} : Settled(at'[t], m) = S(m)
      <3>1. pc[t] \in {"arm", "clear"} BY <1>1
      <3>2. /\ TypeOK' /\ Alone(t) /\ switch_lock = t /\ ThreadShape(t)'
            /\ at'[t] = n + 1
        BY <1>1, <1>7, <2>1, <3>1, RuleStep
      <3>3. Settled(n + 1, List[n].m) = Settled(n, List[n].m) \cup {List[n].r}
        BY <1>3, SettledRules
      <3>4. \A m \in Maps \ {List[n].m} : Settled(n + 1, m) = Settled(n, m)
        BY <1>3, SettledRules, Zenon
      <3> QED BY <3>2, <3>3, <3>4
    <2>3. Arming(t)'
      <3> SUFFICES ASSUME NEW m \in Maps
                   PROVE  /\ count'[t][m] <= Cardinality(Before(at'[t], InForce(m)'))
                          /\ ~failed' => /\ deny'[m] = Armable(m) \cap Settled(at'[t], m)
                                         /\ count'[t][m] = Cardinality(Before(at'[t], InForce(m)'))
        BY Zenon DEF Arming, InForce
      <3>1. CASE m = x.m BY <1>7, <2>2, <3>1
      <3>2. CASE m # x.m
        <4>1. /\ deny'[m] = deny[m] /\ count'[t][m] = count[t][m] /\ Settled(at'[t], m) = S(m)
          BY <1>7, <2>2, <3>2
        <4>2. Before(n + 1, InForce(m)') = Before(n, InForce(m)) BY <1>3, <3>2, <4>1, OtherMaps
        <4> QED BY <1>2, <1>7, <2>2, <4>1, <4>2 DEF Arming
      <3> QED BY <3>1, <3>2
    <2> QED BY <1>1, <1>7, <2>2, <2>3, SwitchingKeepsInv DEF Progress, Changing
  <1>8. /\ count[t][x.m] <= Cardinality(Before(n, InForce(x.m)))
        /\ ~failed => /\ deny[x.m] = Armable(x.m) \cap S(x.m)
                      /\ count[t][x.m] = Cardinality(Before(n, InForce(x.m)))
    BY <1>2, <1>3 DEF Arming
  <1>9. CASE /\ Encodes(x) /\ deny' = [deny EXCEPT ![x.m] = @ \cup {x.r}]
             /\ count' = [count EXCEPT ![t][x.m] = @ + 1] /\ failed' = failed
    <2>1. /\ DOMAIN deny' = Maps /\ deny'[x.m] = deny[x.m] \cup {x.r}
          /\ \A m \in Maps \ {x.m} : deny'[m] = deny[m]
      BY <1>0, <1>3, <1>9
    <2>2. /\ count' \in [Threads -> [Maps -> Nat]] /\ count'[t][x.m] = count[t][x.m] + 1
          /\ \A m \in Maps \ {x.m} : count'[t][m] = count[t][m]
          /\ \A u \in Threads \ {t} : count'[u] = count[u]
      BY <1>0, <1>3, <1>9 DEF TypeOK
    <2>3. /\ Cardinality(Before(n, InForce(x.m))) + 1 <= Cardinality(Before(n + 1, InForce(x.m)'))
          /\ (x.r \in S(x.m) => x.r \in deny[x.m]) =>
               Cardinality(Before(n + 1, InForce(x.m)')) = Cardinality(Before(n, InForce(x.m))) + 1
      BY <1>3, <2>1, ForceGrows
    <2>4. count'[t][x.m] <= Cardinality(Before(n + 1, InForce(x.m)'))
      <3>1. Before(n + 1, InForce(x.m)') \in SUBSET InForce(x.m)' /\ InForce(x.m)' \subseteq 1..Len(List)
        BY DEF Before, InForce, Entries
      <3>2. Cardinality(Before(n + 1, InForce(x.m)')) \in Nat
        BY <3>1, BeforeStep, FS_Subset, FS_CardinalityType
      <3> QED BY <1>3, <1>5, <1>6, <1>8, <2>2, <2>3, <3>2
    <2>5. ASSUME ~failed
          PROVE  /\ deny'[x.m] = Armable(x.m) \cap (S(x.m) \cup {x.r})
                 /\ count'[t][x.m] = Cardinality(Before(n + 1, InForce(x.m)'))
      <3>1. x.r \in S(x.m) => x.r \in deny[x.m] BY <1>4, <1>8, <1>9, <2>5
      <3>0. x.r \in Armable(x.m) /\ deny[x.m] = Armable(x.m) \cap S(x.m) BY <1>4, <1>8, <1>9, <2>5
      <3>2. deny'[x.m] = Armable(x.m) \cap (S(x.m) \cup {x.r}) BY <2>1, <3>0
      <3> QED BY <1>8, <2>2, <2>3, <2>5, <3>1, <3>2
    <2>6. deny'[x.m] \subseteq Armable(x.m) BY <1>4, <1>5, <1>9, <2>1
    <2> QED BY <1>5, <1>7, <1>9, <2>1, <2>2, <2>4, <2>5, <2>6
  <1>10. CASE /\ deny' = deny /\ count' = count
              /\ \/ ~Encodes(x) /\ failed' = failed
                 \/ failed' = TRUE
    <2>1. InForce(x.m)' = InForce(x.m) BY <1>10 DEF InForce
    <2>2. /\ InForce(x.m) \in SUBSET (1..Len(List))
          /\ Cardinality(Before(n + 1, InForce(x.m))) =
               Cardinality(Before(n, InForce(x.m))) + (IF n \in InForce(x.m) THEN 1 ELSE 0)
      BY <1>3, ForceSets, BeforeStep
    <2>3. count[t][x.m] <= Cardinality(Before(n + 1, InForce(x.m)))
      BY <1>3, <1>5, <1>6, <1>8, <2>2
    <2>4. ASSUME ~failed'
          PROVE  /\ ~failed /\ deny[x.m] = Armable(x.m) \cap (S(x.m) \cup {x.r})
                 /\ count[t][x.m] = Cardinality(Before(n + 1, InForce(x.m)))
      <3>1. ~failed /\ x.r \notin Armable(x.m) BY <1>4, <1>10, <2>4
      <3>2. n \notin InForce(x.m) BY <1>5, <3>1 DEF InForce
      <3> QED BY <1>3, <1>6, <1>8, <2>2, <3>1, <3>2
    <2>5. count' \in [Threads -> [Maps -> Nat]] /\ failed' \in BOOLEAN
      BY <1>0, <1>5, <1>10 DEF TypeOK
    <2> QED BY <1>0, <1>5, <1>7, <1>10, <2>1, <2>3, <2>4, <2>5
  <1> QED BY <1>9, <1>10 DEF ArmRule

LEMMA ClearRuleKeepsInv ==
    ASSUME SwitchInv, NEW t \in Threads, ClearRule(t)
    PROVE  SwitchInv'
  <1> SUFFICES ASSUME NEW n, n = at[t], NEW x, x = List[n] PROVE SwitchInv' OBVIOUS
  <1> DEFINE S(m) == Settled(n, m)
  <1>0. TypeOK /\ DOMAIN deny = Maps BY DEF SwitchInv
  <1>1. /\ pc[t] = "clear" /\ at[t] <= Len(List) /\ at' = [at EXCEPT ![t] = @ + 1]
        /\ UNCHANGED <<active_profile, gate, armed, switch_lock, pc, to, seeded>>
    BY DEF ClearRule
  <1>2. Clearing(t) BY <1>1 DEF SwitchInv, Progress
  <1>3. n \in 1..Len(List) /\ n \in Nat /\ x \in Rules /\ x.m \in Maps
    BY <1>0, <1>1, ListRules DEF TypeOK
  <1>4. Encodes(x) <=> x.r \in Armable(x.m) BY <1>3, ArmableRules
  <1>5. deny[x.m] \subseteq Armable(x.m) /\ count[t][x.m] \in Nat /\ failed \in BOOLEAN
    BY <1>0, <1>3 DEF TypeOK
  \* What has to be shown of rule x's map, and what remains of the others'.
  <1>6. ASSUME DOMAIN deny' = Maps, deny'[x.m] \subseteq deny[x.m],
               count' \in [Threads -> [Maps -> Nat]],
               \A u \in Threads \ {t} : count'[u] = count[u], failed' \in BOOLEAN,
               \A m \in Maps \ {x.m} : deny'[m] = deny[m] /\ count'[t][m] = count[t][m],
               ~failed' => ~failed,
               Cardinality(Before(n + 1, InForce(x.m)')) <= count'[t][x.m],
               ~failed' => /\ deny'[x.m] = Armable(x.m) \ (S(x.m) \cup {x.r})
                           /\ count'[t][x.m] = Cardinality(Before(n + 1, Repeats(x.m)))
        PROVE  SwitchInv'
    <2>1. \A m \in Maps : deny'[m] \subseteq Armable(m) BY <1>0, <1>6 DEF TypeOK
    <2>2. /\ TypeOK' /\ Alone(t) /\ switch_lock = t /\ ThreadShape(t)'
          /\ Settled(at'[t], x.m) = S(x.m) \cup {x.r} /\ at'[t] = n + 1
          /\ \A m \in Maps \ {x.m} : Settled(at'[t], m) = S(m)
      <3>1. pc[t] \in {"arm", "clear"} BY <1>1
      <3>2. /\ TypeOK' /\ Alone(t) /\ switch_lock = t /\ ThreadShape(t)'
            /\ at'[t] = n + 1
        BY <1>1, <1>6, <2>1, <3>1, RuleStep
      <3>3. Settled(n + 1, List[n].m) = Settled(n, List[n].m) \cup {List[n].r}
        BY <1>3, SettledRules
      <3>4. \A m \in Maps \ {List[n].m} : Settled(n + 1, m) = Settled(n, m)
        BY <1>3, SettledRules, Zenon
      <3> QED BY <3>2, <3>3, <3>4
    <2>3. Clearing(t)'
      <3> SUFFICES ASSUME NEW m \in Maps
                   PROVE  /\ Cardinality(Before(at'[t], InForce(m)')) <= count'[t][m]
                          /\ ~failed' => /\ deny'[m] = Armable(m) \ Settled(at'[t], m)
                                         /\ count'[t][m] = Cardinality(Before(at'[t], Repeats(m)))
        BY Zenon DEF Clearing, InForce
      <3>1. CASE m = x.m BY <1>6, <2>2, <3>1
      <3>2. CASE m # x.m
        <4>1. /\ deny'[m] = deny[m] /\ count'[t][m] = count[t][m] /\ Settled(at'[t], m) = S(m)
          BY <1>6, <2>2, <3>2
        <4>2. /\ Before(n + 1, InForce(m)') = Before(n, InForce(m))
              /\ Before(n + 1, Repeats(m)) = Before(n, Repeats(m))
          BY <1>3, <3>2, <4>1, OtherMaps
        <4> QED BY <1>2, <1>6, <2>2, <4>1, <4>2 DEF Clearing
      <3> QED BY <3>1, <3>2
    <2> QED BY <1>1, <1>6, <2>2, <2>3, SwitchingKeepsInv DEF Progress, Changing
  <1>7. /\ Cardinality(Before(n, InForce(x.m))) <= count[t][x.m]
        /\ ~failed => /\ deny[x.m] = Armable(x.m) \ S(x.m)
                      /\ count[t][x.m] = Cardinality(Before(n, Repeats(x.m)))
    BY <1>2, <1>3 DEF Clearing
  <1>8. /\ InForce(x.m) \in SUBSET (1..Len(List))
        /\ Cardinality(Before(n, InForce(x.m))) \in Nat
        /\ Cardinality(Before(n + 1, InForce(x.m))) =
             Cardinality(Before(n, InForce(x.m))) + (IF n \in InForce(x.m) THEN 1 ELSE 0)
        /\ Cardinality(Before(n, Repeats(x.m))) \in Nat
        /\ Cardinality(Before(n + 1, Repeats(x.m))) =
             Cardinality(Before(n, Repeats(x.m))) + (IF n \in Repeats(x.m) THEN 1 ELSE 0)
    <2>1. InForce(x.m) \in SUBSET (1..Len(List)) /\ Repeats(x.m) \in SUBSET (1..Len(List))
      BY ForceSets
    <2>2. n \in 1..(Len(List) + 1) BY <1>3, ListRules
    <2> QED BY <1>3, <2>1, <2>2, BeforeStep
  <1>9. Encodes(x) => (n \in Repeats(x.m) <=> x.r \in S(x.m))
    BY <1>3 DEF Repeats, Entries, Settled
  <1>10. CASE /\ Encodes(x) /\ x.r \in deny[x.m] /\ deny' = [deny EXCEPT ![x.m] = @ \ {x.r}]
              /\ count' = count /\ failed' = failed
    <2>1. /\ DOMAIN deny' = Maps /\ deny'[x.m] = deny[x.m] \ {x.r}
          /\ \A m \in Maps \ {x.m} : deny'[m] = deny[m]
      BY <1>0, <1>3, <1>10
    <2>2. InForce(x.m)' = {i \in Entries(x.m) : List[i].r \in deny[x.m] \ {x.r}} BY <2>1 DEF InForce
    <2>3. InForce(x.m)' \in SUBSET InForce(x.m) /\ n \notin InForce(x.m)'
      BY <2>2 DEF InForce
    <2>4. Before(n + 1, InForce(x.m)') = Before(n, InForce(x.m)')
      BY <1>3, <1>8, <2>3 DEF Before
    <2>5. Cardinality(Before(n + 1, InForce(x.m)')) <= Cardinality(Before(n, InForce(x.m)))
      BY <1>8, <2>3, <2>4, BeforeGrows
    <2>6. Cardinality(Before(n + 1, InForce(x.m)')) \in Nat
      <3>1. Before(n + 1, InForce(x.m)') \subseteq InForce(x.m) BY <2>3 DEF Before
      <3> QED BY <1>8, <3>1, BeforeStep, FS_Subset, FS_CardinalityType
    <2>7. ASSUME ~failed
          PROVE  /\ deny'[x.m] = Armable(x.m) \ (S(x.m) \cup {x.r})
                 /\ count[t][x.m] = Cardinality(Before(n + 1, Repeats(x.m)))
      <3>1. x.r \notin S(x.m) BY <1>7, <1>10, <2>7
      <3>2. deny'[x.m] = Armable(x.m) \ (S(x.m) \cup {x.r}) BY <1>7, <2>1, <2>7
      <3>3. n \notin Repeats(x.m) BY <1>9, <1>10, <3>1
      <3> QED BY <1>7, <1>8, <2>7, <3>2, <3>3
    <2>8. count' \in [Threads -> [Maps -> Nat]] /\ failed' \in BOOLEAN
      BY <1>0, <1>10 DEF TypeOK
    <2>9. Cardinality(Before(n + 1, InForce(x.m)')) <= count'[t][x.m]
      BY <1>5, <1>7, <1>8, <1>10, <2>5, <2>6
    <2> QED BY <1>6, <1>10, <2>1, <2>7, <2>8, <2>9
  <1>11. CASE ~Encodes(x) /\ deny' = deny /\ count' = count /\ failed' = failed
    <2>1. InForce(x.m)' = InForce(x.m) BY <1>11 DEF InForce
    <2>2. n \notin InForce(x.m) /\ n \notin Repeats(x.m)
      BY <1>4, <1>5, <1>11 DEF InForce, Repeats
    <2>3. Armable(x.m) \ (S(x.m) \cup {x.r}) = Armable(x.m) \ S(x.m) BY <1>4, <1>11
    <2>4. count' \in [Threads -> [Maps -> Nat]] /\ failed' \in BOOLEAN
      BY <1>0, <1>11 DEF TypeOK
    <2>5. Cardinality(Before(n + 1, InForce(x.m)')) <= count'[t][x.m]
      BY <1>7, <1>8, <1>11, <2>1, <2>2
    <2>6. ~failed => count[t][x.m] = Cardinality(Before(n + 1, Repeats(x.m)))
      BY <1>7, <1>8, <2>2
    <2> QED BY <1>0, <1>6, <1>7, <1>11, <2>3, <2>4, <2>5, <2>6
  <1>12. CASE /\ Encodes(x) /\ count' = [count EXCEPT ![t][x.m] = @ + 1] /\ deny' = deny
              /\ failed' = (failed \/ x.r \in deny[x.m])
    <2>1. /\ count' \in [Threads -> [Maps -> Nat]] /\ count'[t][x.m] = count[t][x.m] + 1
          /\ \A m \in Maps \ {x.m} : count'[t][m] = count[t][m]
          /\ \A u \in Threads \ {t} : count'[u] = count[u]
      BY <1>0, <1>3, <1>12 DEF TypeOK
    <2>2. failed' \in BOOLEAN /\ (failed' <=> failed \/ x.r \in deny[x.m])
      BY <1>5, <1>12
    <2>3. InForce(x.m)' = InForce(x.m) BY <1>12 DEF InForce
    <2>4. Cardinality(Before(n + 1, InForce(x.m)')) <= count'[t][x.m]
      BY <1>5, <1>7, <1>8, <2>1, <2>3
    <2>5. ASSUME ~failed'
          PROVE  /\ deny'[x.m] = Armable(x.m) \ (S(x.m) \cup {x.r})
                 /\ count'[t][x.m] = Cardinality(Before(n + 1, Repeats(x.m)))
      <3>1. ~failed /\ x.r \notin deny[x.m] BY <2>2, <2>5
      <3>2. x.r \in S(x.m) BY <1>4, <1>7, <1>12, <3>1
      <3>3. deny'[x.m] = Armable(x.m) \ (S(x.m) \cup {x.r}) BY <1>7, <1>12, <3>1, <3>2
      <3>4. n \in Repeats(x.m) BY <1>9, <1>12, <3>2
      <3> QED BY <1>7, <1>8, <2>1, <3>1, <3>3, <3>4
    <2> QED BY <1>0, <1>6, <1>12, <2>1, <2>2, <2>4, <2>5
  <1> QED BY <1>10, <1>11, <1>12 DEF ClearRule

\* At the end of the list every rule that can be armed is settled, so the
\* counts are those of the whole maps.
LEMMA SetGateKeepsInv ==
    ASSUME SwitchInv, NEW t \in Threads, SetGate(t)
    PROVE  SwitchInv'
  <1>0. TypeOK /\ DOMAIN deny = Maps /\ ThreadShape(t) /\ Progress(t) BY DEF SwitchInv
  <1>1. /\ pc[t] \in {"arm", "clear"} /\ at[t] = Len(List) + 1
        /\ pc' = [pc EXCEPT ![t] = "store"]
        /\ UNCHANGED <<active_profile, deny, armed, switch_lock, to, at, seeded>>
    BY DEF SetGate
  <1>2. \A m \in Maps : /\ Before(at[t], InForce(m)) = InForce(m)
                        /\ Before(at[t], Repeats(m)) = Repeats(m)
                        /\ Armable(m) \cap Settled(at[t], m) = Armable(m)
                        /\ Armable(m) \ Settled(at[t], m) = {}
    BY <1>0, <1>1, SettledRules, ForceSets DEF TypeOK
  <1>3. \A m \in Maps : /\ IsFiniteSet(InForce(m)) /\ Cardinality(InForce(m)) \in Nat
                        /\ count[t][m] \in Nat
    BY <1>0, ForceSets, BeforeStep, FS_CardinalityType DEF TypeOK
  <1>4. "names" \in Maps /\ "bins" \in Maps BY DEF Maps
  <1>5. switch_lock = t BY <1>0, <1>1 DEF ThreadShape, Changing
  <1>6. /\ IsStrict' = IsStrict
        /\ pc[t] = "arm" => IsStrict
        /\ pc[t] = "clear" => ~IsStrict
    BY <1>0, <1>1 DEF ThreadShape, IsStrict
  <1>7. /\ pc[t] = "arm" => \A m \in Maps :
             /\ count[t][m] <= Cardinality(InForce(m))
             /\ ~failed => deny[m] = Armable(m) /\ count[t][m] = Cardinality(InForce(m))
        /\ pc[t] = "clear" => \A m \in Maps :
             /\ Cardinality(InForce(m)) <= count[t][m]
             /\ ~failed => deny[m] = {} /\ count[t][m] = Cardinality(Repeats(m))
    BY <1>0, <1>2 DEF Progress, Arming, Clearing
  <1>8. \A m : InForce(m)' = InForce(m) BY <1>1 DEF InForce
  <1>9. pc'[t] = "store" BY <1>0, <1>1 DEF TypeOK
  <1>10. ThreadShape(t)' BY <1>1, <1>5, <1>9 DEF ThreadShape, Changing
  <1>11. ASSUME gate' \in BOOLEAN, failed' \in BOOLEAN, count' \in [Threads -> [Maps -> Nat]],
                \A u \in Threads \ {t} : count'[u] = count[u],
                Follows(count[t])', Honest(count[t])'
         PROVE  SwitchInv'
    <2>1. TypeOK' BY <1>0, <1>1, <1>11 DEF TypeOK, Armable, List
    <2>2. Alone(t) BY <1>0, <1>1, <1>11 DEF Alone, TypeOK
    <2>3. Progress(t)' BY <1>9, <1>11 DEF Progress
    <2>4. DOMAIN deny' = Maps BY <1>0, <1>1
    <2> QED BY <1>5, <1>9, <1>10, <2>1, <2>2, <2>3, <2>4, SwitchingKeepsInv DEF Changing
  <1>12. CASE gate' = GateWanted(t) /\ count' = count /\ failed' = failed
    <2>1. gate' \in BOOLEAN /\ (gate' <=> pc[t] = "arm" /\ count[t]["names"] > 0)
      BY <1>12 DEF GateWanted
    <2>2. failed' \in BOOLEAN /\ count' \in [Threads -> [Maps -> Nat]]
      BY <1>0, <1>12 DEF TypeOK
    <2>3. Honest(count[t])'
      <3>1. CASE pc[t] = "arm"
        <4>1. /\ count'[t]["bins"] <= Cardinality(InForce("bins"))
              /\ count'[t]["names"] <= IF gate' THEN Cardinality(InForce("names")) ELSE 0
          BY <1>1, <1>3, <1>4, <1>7, <1>12, <2>1, <3>1
        <4> QED BY <1>6, <1>8, <3>1, <4>1 DEF Honest
      <3>2. CASE pc[t] = "clear" BY <1>1, <1>6, <1>7, <1>8, <1>12, <3>2 DEF Honest
      <3> QED BY <1>1, <3>1, <3>2
    <2>4. ASSUME ~failed PROVE gate' <=> IsStrict /\ Armable("names") # {}
      <3>1. CASE pc[t] = "arm"
        <4>1. /\ deny["names"] = Armable("names")
              /\ count[t]["names"] = Cardinality(InForce("names"))
          BY <1>4, <1>7, <2>4, <3>1
        <4>2. Cardinality(InForce("names")) = 0 <=> InForce("names") = {}
          BY <1>3, <1>4, FS_EmptySet
        <4>3. InForce("names") = {} <=> Armable("names") = {}
          BY <1>4, <4>1, ArmableRules DEF InForce, Entries
        <4> QED BY <1>3, <1>4, <1>6, <2>1, <3>1, <4>1, <4>2, <4>3
      <3>2. CASE pc[t] = "clear" BY <1>6, <2>1, <3>2
      <3> QED BY <1>1, <3>1, <3>2
    <2>5. ASSUME ~failed
          PROVE  /\ \A m \in Maps : deny[m] = IF IsStrict THEN Armable(m) ELSE {}
                 /\ \A m \in Maps :
                      count[t][m] = Cardinality(IF IsStrict THEN InForce(m) ELSE Repeats(m))
      BY <1>1, <1>6, <1>7, <2>5
    <2>6. ~failed => gate' = (IsStrict /\ Armable("names") # {}) BY <2>1, <2>4, Zenon
    <2>7. Follows(count[t])' BY <1>1, <1>6, <1>8, <1>12, <2>5, <2>6, Zenon DEF Follows
    <2> QED BY <1>11, <1>12, <2>1, <2>2, <2>3, <2>7
  <1>13. CASE count' = [count EXCEPT ![t] = Inert(t)] /\ failed' = TRUE /\ gate' = gate
    <2>1. Inert(t) \in [Maps -> Nat] BY <1>0, <1>4 DEF TypeOK, Inert
    <2>2. /\ count' \in [Threads -> [Maps -> Nat]] /\ count'[t] = Inert(t)
          /\ \A u \in Threads \ {t} : count'[u] = count[u]
      BY <1>0, <1>13, <2>1 DEF TypeOK
    <2>3. Follows(count[t])' BY <1>13 DEF Follows
    <2>4. Honest(count[t])'
      <3>1. CASE pc[t] = "arm"
        <4>1. count'[t]["bins"] = count[t]["bins"] /\ count'[t]["names"] = 0
          BY <1>0, <1>4, <2>2, <3>1 DEF TypeOK, Inert
        <4> QED BY <1>1, <1>3, <1>4, <1>6, <1>7, <1>8, <3>1, <4>1 DEF Honest
      <3>2. CASE pc[t] = "clear"
        <4>1. count'[t] = count[t] BY <2>2, <3>2 DEF Inert
        <4> QED BY <1>1, <1>6, <1>7, <1>8, <3>2, <4>1 DEF Honest
      <3> QED BY <1>1, <3>1, <3>2
    <2>5. gate' \in BOOLEAN /\ failed' \in BOOLEAN BY <1>0, <1>13, Zenon DEF TypeOK
    <2> QED BY <1>11, <2>2, <2>3, <2>4, <2>5
  <1> QED BY <1>12, <1>13 DEF SetGate

LEMMA StoreKeepsInv ==
    ASSUME SwitchInv, NEW t \in Threads, Store(t)
    PROVE  SwitchInv'
  <1>0. TypeOK /\ ThreadShape(t) /\ Progress(t) BY DEF SwitchInv
  <1>1. /\ pc[t] = "store" /\ armed' = count[t] /\ seeded' = FALSE /\ Reply(t)
        /\ UNCHANGED <<active_profile, deny, gate, failed>>
    BY DEF Store, kernelVars
  <1>2. switch_lock = t BY <1>0, <1>1 DEF ThreadShape, Changing
  <1>3. Follows(count[t]) /\ Honest(count[t]) BY <1>0, <1>1 DEF Progress
  <1>4. Follows(armed)' /\ Honest(armed)'
    BY <1>1, <1>3 DEF Follows, Honest, IsStrict, InForce
  <1>5. AtRest' BY <1>4 DEF AtRest, Follows
  <1>6. active_profile' \in Profiles /\ armed' \in [Maps -> Nat] /\ seeded' \in BOOLEAN
    BY <1>0, <1>1 DEF TypeOK
  <1> QED BY <1>1, <1>2, <1>5, <1>6, ReplyKeepsInv

LEMMA SwitchNext == SwitchInv /\ [Next]_vars => SwitchInv'
  <1> SUFFICES ASSUME SwitchInv, [Next]_vars PROVE SwitchInv' OBVIOUS
  <1>1. ASSUME NEW t \in Threads, NEW p \in Profiles, Receive(t, p) PROVE SwitchInv'
    BY <1>1, ReceiveKeepsInv
  <1>2. ASSUME NEW t \in Threads, Lock(t) PROVE SwitchInv' BY <1>2, LockKeepsInv
  <1>3. ASSUME NEW t \in Threads, Swap(t) PROVE SwitchInv' BY <1>3, SwapKeepsInv
  <1>4. ASSUME NEW t \in Threads, ArmRule(t) PROVE SwitchInv' BY <1>4, ArmRuleKeepsInv
  <1>5. ASSUME NEW t \in Threads, ClearRule(t) PROVE SwitchInv' BY <1>5, ClearRuleKeepsInv
  <1>6. ASSUME NEW t \in Threads, SetGate(t) PROVE SwitchInv' BY <1>6, SetGateKeepsInv
  <1>7. ASSUME NEW t \in Threads, Store(t) PROVE SwitchInv' BY <1>7, StoreKeepsInv
  <1>8. CASE UNCHANGED vars
    <2>0. /\ active_profile' = active_profile /\ deny' = deny /\ gate' = gate /\ armed' = armed
          /\ switch_lock' = switch_lock /\ pc' = pc /\ to' = to /\ at' = at /\ count' = count
          /\ failed' = failed /\ seeded' = seeded
      BY <1>8 DEF vars, kernelVars, threadVars
    <2>1. TypeOK' BY <2>0 DEF SwitchInv, TypeOK, Armable, List
    <2>2. ASSUME NEW t \in Threads PROVE ThreadShape(t)' /\ Progress(t)'
      <3>1. ThreadShape(t)' BY <2>0 DEF SwitchInv, ThreadShape, IsStrict
      <3>2. Progress(t)'
        <4>1. Progress(t) BY DEF SwitchInv
        <4> QED BY <2>0, <4>1 DEF Progress, Arming, Clearing, Follows, Honest, IsStrict, InForce
      <3> QED BY <3>1, <3>2
    <2>3. AtRest' = AtRest BY <2>0 DEF AtRest, Follows, Honest, IsStrict, InForce
    <2> QED BY <2>0, <2>1, <2>2, <2>3 DEF SwitchInv
  <1> QED BY <1>1, <1>2, <1>3, <1>4, <1>5, <1>6, <1>7, <1>8 DEF Next, Step

LEMMA SwitchInvariant == Spec => []SwitchInv
  BY SwitchInit, SwitchNext, PTL DEF Spec

-----------------------------------------------------------------------------
(* Results.                                                                *)

\* Every variable keeps its type: in particular no rule is in a deny map that
\* the configuration does not name and the map's key can hold (set_deny_bin,
\* set_deny_basename), whatever fails.
THEOREM ProfileSwitchTypeCorrect == Spec => []TypeOK
  <1>1. SwitchInv => TypeOK BY DEF SwitchInv
  <1> QED BY <1>1, SwitchInvariant, PTL

\* Nobody is among the rules while switch_lock is free.
LEMMA QuietAtRest == SwitchInv /\ Quiet => AtRest
  BY ProfileSwitchAssumption DEF SwitchInv, Quiet, ThreadShape

\* handle_set_profile: switches of any threads, in any order, leave the kernel
\* with all the rules under strict and none otherwise, as long as no BPF call
\* failed.
THEOREM SwitchesFollowProfile == Spec => []DenyMapFollowsProfile
  <1>1. SwitchInv => DenyMapFollowsProfile
    <2> SUFFICES ASSUME SwitchInv, Quiet, ~failed PROVE
          /\ \A m \in Maps : deny[m] = IF IsStrict THEN Armable(m) ELSE {}
          /\ gate = (IsStrict /\ Armable("names") # {})
          /\ ~seeded => \A m \in Maps :
               armed[m] = Cardinality(IF IsStrict THEN InForce(m) ELSE Repeats(m))
      BY Zenon DEF DenyMapFollowsProfile
    <2>1. AtRest BY QuietAtRest
    <2> QED BY <2>1, Zenon DEF AtRest, Follows
  <1> QED BY <1>1, SwitchInvariant, PTL

\* deny_path_armed and deny_basename_armed never hide a rule outside strict and
\* never overstate enforcement after a switch to strict, whichever BPF calls of
\* the switches failed.
THEOREM ReportedCountsHonest == Spec => []CountsHonest
  <1>1. SwitchInv => CountsHonest
    BY QuietAtRest DEF CountsHonest, AtRest, Honest
  <1> QED BY <1>1, SwitchInvariant, PTL

=============================================================================
