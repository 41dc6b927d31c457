--------------------------- MODULE ProfileSwitch ---------------------------
(***************************************************************************)
(* SetProfile of atty-guard: the daemon-global security profile, the deny  *)
(* rules that only the profile `strict' keeps in the kernel, the gate that *)
(* makes the kernel look at the basename rules, and the counts of armed    *)
(* rules the daemon reports.                                               *)
(*                                                                         *)
(* A switch swaps the profile and, when it crosses the border of strict,   *)
(* arms or clears the rules one BPF call at a time.  Any call may fail;    *)
(* the switch goes on with the next rule.  switch_lock serialises the      *)
(* switches of the connection threads, but not the kernel's reads.         *)
(***************************************************************************)
EXTENDS Naturals, Sequences, FiniteSets, SequencesExt

CONSTANTS Profiles, Strict,      \* security profiles; Strict arms the rules
          DenyBins, DenyNames,   \* deny_binaries, deny_basenames as configured
          Unencodable,           \* rules that fit no key: too long, empty, ...
          MapCap,                \* max_entries of each deny map
          CallsFail,             \* may a BPF call fail for another reason?
          Threads, NoThread      \* connection threads; nobody holds the lock

Rules == [m : {"bins"}, r : Range(DenyBins)] \cup [m : {"names"}, r : Range(DenyNames)]
Maps == {"bins", "names"}

ASSUME ProfileSwitchAssumption ==
    /\ Strict \in Profiles
    /\ DenyBins \in Seq(Range(DenyBins)) /\ DenyNames \in Seq(Range(DenyNames))
    /\ MapCap \in Nat
    /\ CallsFail \in BOOLEAN
    /\ NoThread \notin Threads

\* The rules in the order a switch goes through them.
List == [i \in 1..Len(DenyBins) |-> [m |-> "bins", r |-> DenyBins[i]]]
          \o [i \in 1..Len(DenyNames) |-> [m |-> "names", r |-> DenyNames[i]]]
Encodes(x) == x.r \notin Unencodable
Armable(m) == {x.r : x \in {y \in Rules : y.m = m /\ Encodes(y)}}

\* The entries of the list for map m, and those that name a key once more:
\* nothing removes duplicates from the configured lists.
Entries(m) == {i \in 1..Len(List) : List[i].m = m}
Repeats(m) == {i \in Entries(m) : /\ Encodes(List[i])
                                  /\ \E j \in Entries(m) : j < i /\ List[j].r = List[i].r}

VARIABLES
    active_profile,
    deny, gate,      \* kernel: the deny maps, basename_gate
    armed,           \* deny_path_armed and deny_basename_armed
    switch_lock,
    pc, to,          \* per thread: control, the profile asked for
    at, count,       \* per thread: position in the list, the switch's counters
    failed,          \* history: has a call failed that left the maps otherwise
                     \* than it should have?
    seeded           \* history: are the counts still those of the start?

kernelVars == <<deny, gate>>
threadVars == <<pc, to, at, count>>
vars == <<active_profile, kernelVars, armed, switch_lock, threadVars, failed, seeded>>

Zero == [m \in Maps |-> 0]
IsStrict == active_profile = Strict

\* The entries whose key the kernel has.
InForce(m) == {i \in Entries(m) : List[i].r \in deny[m]}

-----------------------------------------------------------------------------
\* An authorised SetProfile; one of another caller is answered with an error.
Receive(t, p) ==
    /\ pc[t] = "idle"
    /\ pc' = [pc EXCEPT ![t] = "lock"]
    /\ to' = [to EXCEPT ![t] = p]
    /\ UNCHANGED <<active_profile, kernelVars, armed, switch_lock, at, count, failed, seeded>>

\* Mutant: the switches are not serialised.
Lock_NoWait(t) ==
    /\ pc[t] = "lock"
    /\ switch_lock' = t
    /\ pc' = [pc EXCEPT ![t] = "swap"]
    /\ UNCHANGED <<active_profile, kernelVars, armed, to, at, count, failed, seeded>>

Lock(t) ==
    /\ pc[t] = "lock" /\ switch_lock = NoThread
    /\ switch_lock' = t
    /\ pc' = [pc EXCEPT ![t] = "swap"]
    /\ UNCHANGED <<active_profile, kernelVars, armed, to, at, count, failed, seeded>>

\* The response; the lock is released.
Reply(t) ==
    /\ pc' = [pc EXCEPT ![t] = "idle"]
    /\ to' = [to EXCEPT ![t] = Strict]
    /\ at' = [at EXCEPT ![t] = 1]
    /\ count' = [count EXCEPT ![t] = Zero]
    /\ switch_lock' = NoThread

\* deny_action: what crossing, or not crossing, the border of strict asks for.
DenyAction(old, new) ==
    IF new = Strict /\ old # Strict THEN "arm"
    ELSE IF old = Strict /\ new # Strict THEN "clear" ELSE "none"

\* The profile changes before the rules do.
Swap(t) ==
    LET a == DenyAction(active_profile, to[t]) IN
    /\ pc[t] = "swap"
    /\ active_profile' = to[t]
    /\ IF a = "none" THEN Reply(t)
                     ELSE pc' = [pc EXCEPT ![t] = a] /\ UNCHANGED <<to, at, count, switch_lock>>
    /\ UNCHANGED <<kernelVars, armed, failed, seeded>>

-----------------------------------------------------------------------------
(* Rule by rule.                                                           *)

\* A map takes a key it has, or a new one while it has room.
Fits(x) == x.r \in deny[x.m] \/ Cardinality(deny[x.m]) < MapCap

\* Mutant: a rule that does not encode is cut to a key that does.
ArmRule_Truncates(t) ==
    LET x == List[at[t]] IN
    /\ pc[t] = "arm" /\ at[t] <= Len(List) /\ Fits(x)
    /\ at' = [at EXCEPT ![t] = @ + 1]
    /\ deny' = [deny EXCEPT ![x.m] = @ \cup {x.r}]
    /\ count' = [count EXCEPT ![t][x.m] = @ + 1]
    /\ UNCHANGED <<active_profile, gate, armed, switch_lock, pc, to, failed, seeded>>

\* set_deny_bin and set_deny_basename: a rule that is armed is counted, one
\* that is not is skipped.
ArmRule(t) ==
    LET x == List[at[t]] IN
    /\ pc[t] = "arm" /\ at[t] <= Len(List)
    /\ at' = [at EXCEPT ![t] = @ + 1]
    /\ \/ /\ Encodes(x) /\ Fits(x)
          /\ deny' = [deny EXCEPT ![x.m] = @ \cup {x.r}]
          /\ count' = [count EXCEPT ![t][x.m] = @ + 1]
          /\ UNCHANGED failed
       \/ ~Encodes(x) /\ UNCHANGED <<deny, count, failed>>
       \/ /\ Encodes(x) /\ (CallsFail \/ ~Fits(x))
          /\ failed' = TRUE
          /\ UNCHANGED <<deny, count>>
    /\ UNCHANGED <<active_profile, gate, armed, switch_lock, pc, to, seeded>>

\* Mutant: a rule that could not be cleared is not counted.
ClearRule_NotCounted(t) ==
    LET x == List[at[t]] IN
    /\ pc[t] = "clear" /\ at[t] <= Len(List)
    /\ at' = [at EXCEPT ![t] = @ + 1]
    /\ \/ Encodes(x) /\ deny' = [deny EXCEPT ![x.m] = @ \ {x.r}] /\ UNCHANGED failed
       \/ CallsFail /\ failed' = TRUE /\ UNCHANGED deny
    /\ UNCHANGED <<active_profile, gate, armed, switch_lock, pc, to, count, seeded>>

\* clear_deny_bin and clear_deny_basename: the ones that fail are counted.
\* Nothing was armed for a rule that does not encode; deleting a key that is
\* not there is an error, and is counted too.
ClearRule(t) ==
    LET x == List[at[t]] IN
    /\ pc[t] = "clear" /\ at[t] <= Len(List)
    /\ at' = [at EXCEPT ![t] = @ + 1]
    /\ \/ /\ Encodes(x) /\ x.r \in deny[x.m]
          /\ deny' = [deny EXCEPT ![x.m] = @ \ {x.r}]
          /\ UNCHANGED <<count, failed>>
       \/ ~Encodes(x) /\ UNCHANGED <<deny, count, failed>>
       \/ /\ Encodes(x) /\ (CallsFail \/ x.r \notin deny[x.m])
          /\ count' = [count EXCEPT ![t][x.m] = @ + 1]
          /\ failed' = (failed \/ x.r \in deny[x.m])
          /\ UNCHANGED deny
    /\ UNCHANGED <<active_profile, gate, armed, switch_lock, pc, to, seeded>>

\* set_basename_gate: on if a basename was armed, off after a clear.
GateWanted(t) == pc[t] = "arm" /\ count[t]["names"] > 0

\* Basenames that the gate keeps out of sight do not count as armed; the ones
\* a clear left behind do.
Inert(t) == IF pc[t] = "arm" THEN [count[t] EXCEPT !["names"] = 0] ELSE count[t]

SetGate(t) ==
    /\ pc[t] \in {"arm", "clear"} /\ at[t] = Len(List) + 1
    /\ \/ gate' = GateWanted(t) /\ UNCHANGED <<count, failed>>
       \/ /\ CallsFail
          /\ count' = [count EXCEPT ![t] = Inert(t)]
          /\ failed' = TRUE
          /\ UNCHANGED gate
    /\ pc' = [pc EXCEPT ![t] = "store"]
    /\ UNCHANGED <<active_profile, deny, armed, switch_lock, to, at, seeded>>

\* The counts are stored and the switch is over.
Store(t) ==
    /\ pc[t] = "store"
    /\ armed' = count[t]
    /\ seeded' = FALSE
    /\ Reply(t)
    /\ UNCHANGED <<active_profile, kernelVars, failed>>

-----------------------------------------------------------------------------
\* main arms the rules before it serves if the configured profile is strict,
\* and seeds the counts with the configured numbers.
Init ==
    /\ active_profile \in Profiles
    /\ deny \in [Maps -> SUBSET (Range(DenyBins) \cup Range(DenyNames))]
    /\ \A m \in Maps :
         /\ deny[m] \subseteq Armable(m) /\ Cardinality(deny[m]) <= MapCap
         /\ ~IsStrict => deny[m] = {}
         /\ IsStrict /\ ~CallsFail => deny[m] = Armable(m) \/ Cardinality(deny[m]) = MapCap
    /\ gate \in IF CallsFail THEN {FALSE, deny["names"] # {}} ELSE {deny["names"] # {}}
    /\ armed = IF IsStrict THEN [bins |-> Len(DenyBins), names |-> Len(DenyNames)] ELSE Zero
    /\ failed = (IsStrict /\ (\/ \E m \in Maps : deny[m] # Armable(m)
                              \/ gate # (deny["names"] # {})))
    /\ seeded = TRUE
    /\ switch_lock = NoThread
    /\ pc = [t \in Threads |-> "idle"]
    /\ to = [t \in Threads |-> Strict]
    /\ at = [t \in Threads |-> 1]
    /\ count = [t \in Threads |-> Zero]

Step(t) == Lock(t) \/ Swap(t) \/ ArmRule(t) \/ ClearRule(t) \/ SetGate(t) \/ Store(t)

Next == \E t \in Threads : (\E p \in Profiles : Receive(t, p)) \/ Step(t)

Spec == Init /\ [][Next]_vars

-----------------------------------------------------------------------------
(* Properties.                                                             *)

\* The values every variable may take.
TypeOK ==
    /\ active_profile \in Profiles
    /\ \A m \in Maps : deny[m] \subseteq Armable(m)
    /\ gate \in BOOLEAN
    /\ armed \in [Maps -> Nat]
    /\ switch_lock \in Threads \cup {NoThread}
    /\ pc \in [Threads -> {"idle", "lock", "swap", "arm", "clear", "store"}]
    /\ to \in [Threads -> Profiles]
    /\ at \in [Threads -> 1..(Len(List) + 1)]
    /\ count \in [Threads -> [Maps -> Nat]]
    /\ failed \in BOOLEAN /\ seeded \in BOOLEAN

Quiet == switch_lock = NoThread

\* switch_lock: as long as no BPF call failed, the kernel has all the rules
\* under strict and none otherwise, whichever callers switched concurrently; the
\* counts are those of the entries in force, and outside strict of the entries
\* that name a key again, whose second deletion fails.
DenyMapFollowsProfile ==
    Quiet /\ ~failed =>
      /\ \A m \in Maps : deny[m] = IF IsStrict THEN Armable(m) ELSE {}
      /\ gate = (IsStrict /\ Armable("names") # {})
      /\ ~seeded => \A m \in Maps :
           armed[m] = Cardinality(IF IsStrict THEN InForce(m) ELSE Repeats(m))

\* What is reported is what is enforced.  Outside strict, "the reported armed
\* count must reflect them ... to avoid hiding an over-block": no configured rule
\* is in force that the counts do not show, after any sequence of failed and
\* successful calls.  After a switch to strict, "report 0 armed basenames rather
\* than overstate enforcement": as many configured rules as the counts show are
\* in force, a rule that is configured twice being two.
CountsHonest ==
    /\ Quiet /\ ~IsStrict => \A m \in Maps : Cardinality(InForce(m)) <= armed[m]
    /\ Quiet /\ IsStrict /\ ~seeded =>
         /\ armed["bins"] <= Cardinality(InForce("bins"))
         /\ armed["names"] <= IF gate THEN Cardinality(InForce("names")) ELSE 0

=============================================================================
