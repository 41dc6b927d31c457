------------------------- MODULE GuardServerProofs -------------------------
(***************************************************************************)
(* Proofs about GuardServer: for any number of connections, uids and slots *)
(* the counters count the slots that are held and the caps are kept; for   *)
(* any number of subscribers and events and any size of the channels, no   *)
(* event is lost without being counted.                                    *)
(*                                                                         *)
(* A counter and the set it counts change in the same step, by one and by  *)
(* one connection.  The proof has to know that the connection was not in   *)
(* the set (or was), which follows from where its handler is, and that a   *)
(* connection that is being turned away is in neither set.                 *)
(*                                                                         *)
(* What a queue is worth is given by the tallies of its prefixes.  They    *)
(* are carried along: one is added when a message joins the queue, and     *)
(* all shrink by the first when its head is delivered.                     *)
(***************************************************************************)
EXTENDS GuardServer, FiniteSetTheorems, SequenceTheorems, TLAPS

\* The connection the accept loop turns away is not served.
RejectedNotServed == rejecting # NoConn => pc[rejecting] = "refused"

\* What the accounting needs of the types.
SlotTypes ==
    /\ pc \in [Conns -> Labels]
    /\ uid \in [Conns -> Uids]
    /\ in_flight \in Nat /\ rejecting \in Conns \cup {NoConn}
    /\ total \in Nat /\ per_uid \in [Uids -> Nat]

IInv == SlotTypes /\ RejectedNotServed /\ SlotsExact /\ CapsKept

\* Sets of connections are finite, so each has a size, and a connection
\* changes it by one.
LEMMA Sizes ==
    ASSUME NEW S, S \subseteq Conns, NEW c \in Conns
    PROVE  /\ IsFiniteSet(S) /\ Cardinality(S) \in Nat
           /\ c \notin S => Cardinality(S \cup {c}) = Cardinality(S) + 1
           /\ c \in S => Cardinality(S \ {c}) = Cardinality(S) - 1 /\ Cardinality(S) > 0
  <1>1. IsFiniteSet(S) BY GuardServerAssumption, FS_Subset
  <1>2. Cardinality(S) \in Nat BY <1>1, FS_CardinalityType
  <1>3. c \notin S => Cardinality(S \cup {c}) = Cardinality(S) + 1
    BY <1>1, FS_AddElement
  <1>4. c \in S => Cardinality(S \ {c}) = Cardinality(S) - 1
    BY <1>1, FS_RemoveElement
  <1>5. c \in S => Cardinality(S) > 0
    <2>1. ASSUME c \in S, Cardinality(S) = 0 PROVE FALSE
      BY <2>1, <1>1, FS_EmptySet
    <2> QED BY <2>1, <1>2
  <1> QED BY <1>1, <1>2, <1>3, <1>4, <1>5


-----------------------------------------------------------------------------
\* The handler of connection c moves to label l: c enters or leaves the sets.
LEMMA Moves ==
    ASSUME SlotTypes, NEW c \in Conns, NEW l \in Labels,
           pc' = [pc EXCEPT ![c] = l], uid' = uid
    PROVE  /\ Requesting' = IF l \in {"serve", "upgrade"}
                              THEN Requesting \cup {c} ELSE Requesting \ {c}
           /\ Subscribed' = IF l \in {"upgrade", "register", "ack", "stream",
                                       "deregister", "drop"}
                              THEN Subscribed \cup {c} ELSE Subscribed \ {c}
           /\ \A u \in Uids : u # uid[c] => SubscribedBy(u)' = SubscribedBy(u)
           /\ SubscribedBy(uid[c])' = IF l \in {"upgrade", "register", "ack", "stream",
                                       "deregister", "drop"}
                              THEN SubscribedBy(uid[c]) \cup {c} ELSE SubscribedBy(uid[c]) \ {c}
  <1>1. Requesting' = IF l \in {"serve", "upgrade"}
                        THEN Requesting \cup {c} ELSE Requesting \ {c}
    BY DEF SlotTypes, Requesting
  <1>2. Subscribed' = IF l \in {"upgrade", "register", "ack", "stream",
                                  "deregister", "drop"}
                        THEN Subscribed \cup {c} ELSE Subscribed \ {c}
    BY DEF SlotTypes, Subscribed
  <1>3. \A u \in Uids : u # uid[c] => SubscribedBy(u)' = SubscribedBy(u)
    BY <1>2 DEF SubscribedBy
  <1>4. SubscribedBy(uid[c])' = IF l \in {"upgrade", "register", "ack", "stream",
                                  "deregister", "drop"}
                        THEN SubscribedBy(uid[c]) \cup {c} ELSE SubscribedBy(uid[c]) \ {c}
    BY <1>2 DEF SubscribedBy
  <1> QED BY <1>1, <1>2, <1>3, <1>4

\* The sets are sets of connections.
LEMMA SubsetsOfConns ==
    Requesting \subseteq Conns /\ Subscribed \subseteq Conns /\ \A u : SubscribedBy(u) \subseteq Conns
  BY DEF Requesting, Subscribed, SubscribedBy

\* A step that moves no connection in or out of a set, and no counter.
LEMMA NothingMoves ==
    ASSUME IInv, Requesting' = Requesting, Subscribed' = Subscribed,
           \A u \in Uids : SubscribedBy(u)' = SubscribedBy(u),
           UNCHANGED <<in_flight, rejecting, total, per_uid>>
    PROVE  SlotsExact' /\ CapsKept'
  BY DEF IInv, SlotsExact, CapsKept

\* A move between labels that hold the same slots.
LEMMA SameSlots ==
    ASSUME IInv, NEW c \in Conns, NEW l \in Labels,
           pc' = [pc EXCEPT ![c] = l], uid' = uid,
           c \in Requesting <=> l \in {"serve", "upgrade"},
           c \in Subscribed <=> l \in {"upgrade", "register", "ack", "stream",
                                       "deregister", "drop"},
           pc[c] # "refused", l # "refused",
           UNCHANGED <<in_flight, rejecting, total, per_uid>>
    PROVE  IInv'
  <1>1. Requesting' = Requesting /\ Subscribed' = Subscribed
    <2>1. Requesting' = Requesting BY DEF IInv, SlotTypes, Requesting
    <2>2. Subscribed' = Subscribed BY DEF IInv, SlotTypes, Subscribed
    <2> QED BY <2>1, <2>2
  <1>2. \A u \in Uids : SubscribedBy(u)' = SubscribedBy(u)
    BY <1>1 DEF SubscribedBy
  <1>3. SlotsExact' /\ CapsKept' BY <1>1, <1>2, NothingMoves
  <1>4. SlotTypes' BY DEF IInv, SlotTypes
  <1>5. RejectedNotServed' BY GuardServerAssumption DEF IInv, SlotTypes, RejectedNotServed
  <1> QED BY <1>3, <1>4, <1>5 DEF IInv

\* A step that leaves the handlers and the slots alone.
LEMMA SameHandlers ==
    ASSUME IInv, UNCHANGED <<pc, uid, in_flight, rejecting, total, per_uid>>
    PROVE  IInv'
  <1>1. Requesting' = Requesting BY DEF Requesting
  <1>2. Subscribed' = Subscribed BY DEF Subscribed
  <1>3. \A u \in Uids : SubscribedBy(u)' = SubscribedBy(u) BY <1>2 DEF SubscribedBy
  <1>4. SlotsExact' /\ CapsKept' BY <1>1, <1>2, <1>3, NothingMoves
  <1>5. SlotTypes' /\ RejectedNotServed' BY DEF IInv, SlotTypes, RejectedNotServed
  <1> QED BY <1>4, <1>5 DEF IInv

-----------------------------------------------------------------------------
\* A new connection holds nothing, whatever uid it has.
LEMMA ConnectStep ==
    ASSUME IInv, NEW c \in Conns, NEW u \in Uids, Connect(c, u)
    PROVE  IInv'
  <1>1. /\ pc[c] = "none" /\ pc' = [pc EXCEPT ![c] = "backlog"]
        /\ uid' = [uid EXCEPT ![c] = u]
        /\ UNCHANGED <<in_flight, rejecting, total, per_uid>>
    BY DEF Connect, Goto, slotVars
  <1>2. Requesting' = Requesting BY <1>1 DEF IInv, SlotTypes, Requesting
  <1>3. Subscribed' = Subscribed /\ c \notin Subscribed
    BY <1>1 DEF IInv, SlotTypes, Subscribed
  <1>4. \A v \in Uids : SubscribedBy(v)' = SubscribedBy(v)
    BY <1>1, <1>3, SubsetsOfConns DEF IInv, SlotTypes, SubscribedBy
  <1>5. SlotsExact' /\ CapsKept' BY <1>1, <1>2, <1>3, <1>4, NothingMoves
  <1>6. SlotTypes' BY <1>1 DEF IInv, SlotTypes, Labels
  <1>7. RejectedNotServed'
    BY <1>1, GuardServerAssumption DEF IInv, SlotTypes, RejectedNotServed
  <1> QED BY <1>5, <1>6, <1>7 DEF IInv

\* fetch_add and the test of what it returned.
LEMMA AcceptStep ==
    ASSUME IInv, NEW c \in Conns, Accept(c)
    PROVE  IInv'
  <1> DEFINE l == IF AtCap THEN "refused" ELSE "serve"
  <1>1. /\ pc[c] = "backlog" /\ rejecting = NoConn /\ pc' = [pc EXCEPT ![c] = l]
        /\ in_flight' = in_flight + 1 /\ rejecting' = IF AtCap THEN c ELSE NoConn
        /\ UNCHANGED <<uid, total, per_uid>>
    BY DEF Accept, Goto, slotVars
  <1>2. l \in Labels BY DEF Labels
  <1>3. c \notin Requesting /\ c \notin Subscribed /\ c \notin SubscribedBy(uid[c])
    BY <1>1 DEF Requesting, Subscribed, SubscribedBy
  <1>4. /\ Requesting' = IF AtCap THEN Requesting ELSE Requesting \cup {c}
        /\ Subscribed' = Subscribed
        /\ \A u \in Uids : SubscribedBy(u)' = SubscribedBy(u)
    <2>1. Requesting' = IF l = "serve" THEN Requesting \cup {c} ELSE Requesting \ {c}
      BY <1>1, <1>2, Moves DEF IInv
    <2>2. Subscribed' = Subscribed \ {c} BY <1>1, <1>2, Moves DEF IInv
    <2>3. Subscribed' = Subscribed BY <2>2, <1>3
    <2>4. \A u \in Uids : SubscribedBy(u)' = SubscribedBy(u) BY <2>3, <1>1 DEF SubscribedBy
    <2> QED BY <2>1, <2>3, <2>4, <1>3
  <1>5. /\ Cardinality(Requesting) \in Nat
        /\ Cardinality(Requesting \cup {c}) = Cardinality(Requesting) + 1
    BY <1>3, Sizes, SubsetsOfConns
  <1>6. in_flight = Cardinality(Requesting) BY <1>1, <1>5 DEF IInv, SlotsExact
  <1>7. SlotsExact'
    BY <1>1, <1>4, <1>5, <1>6, GuardServerAssumption DEF IInv, SlotsExact, SlotTypes
  <1>8. Cardinality(Requesting') <= Cap
    <2>1. Cap \in Nat BY GuardServerAssumption DEF Cap
    <2>2. CASE AtCap BY <2>2, <1>4 DEF IInv, CapsKept
    <2>3. CASE ~AtCap BY <2>1, <2>3, <1>4, <1>5, <1>6 DEF AtCap
    <2> QED BY <2>2, <2>3
  <1>9. CapsKept' BY <1>4, <1>8 DEF IInv, CapsKept, Cap
  <1>10. SlotTypes' BY <1>1, <1>2 DEF IInv, SlotTypes
  <1>11. RejectedNotServed'
    BY <1>1, GuardServerAssumption DEF IInv, SlotTypes, RejectedNotServed
  <1> QED BY <1>7, <1>9, <1>10, <1>11 DEF IInv

\* fetch_sub for a connection beyond the cap.
LEMMA RejectStep ==
    ASSUME IInv, NEW c \in Conns, Reject(c)
    PROVE  IInv'
  <1>1. /\ rejecting = c /\ pc' = [pc EXCEPT ![c] = "none"]
        /\ in_flight' = in_flight - 1 /\ rejecting' = NoConn
        /\ UNCHANGED <<uid, total, per_uid>>
    BY DEF Reject, Finish, Goto, slotVars
  <1>2. rejecting # NoConn /\ pc[c] = "refused"
    BY <1>1, GuardServerAssumption DEF IInv, RejectedNotServed
  <1>3. c \notin Requesting /\ c \notin Subscribed
    BY <1>2 DEF Requesting, Subscribed
  <1>4. /\ Requesting' = Requesting /\ Subscribed' = Subscribed
        /\ \A u \in Uids : SubscribedBy(u)' = SubscribedBy(u)
    <2>1. "none" \in Labels BY DEF Labels
    <2>2. Requesting' = Requesting \ {c} /\ Subscribed' = Subscribed \ {c}
      BY <1>1, <2>1, Moves DEF IInv
    <2>3. Requesting' = Requesting /\ Subscribed' = Subscribed BY <2>2, <1>3
    <2> QED BY <2>3, <1>1 DEF SubscribedBy
  <1>5. Cardinality(Requesting) \in Nat BY Sizes, SubsetsOfConns
  <1>6. in_flight = Cardinality(Requesting) + 1 BY <1>2 DEF IInv, SlotsExact
  <1>7. SlotsExact' BY <1>1, <1>4, <1>5, <1>6 DEF IInv, SlotsExact
  <1>8. CapsKept' BY <1>4 DEF IInv, CapsKept, Cap
  <1>9. SlotTypes' BY <1>1, <1>5, <1>6 DEF IInv, SlotTypes, Labels
  <1>10. RejectedNotServed' BY <1>1 DEF RejectedNotServed
  <1> QED BY <1>7, <1>8, <1>9, <1>10 DEF IInv

\* The slot of a request connection is given back.
LEMMA LeaveStep ==
    ASSUME IInv, NEW c \in Conns, Leave(c)
    PROVE  IInv'
  <1>1. /\ pc[c] = "serve" /\ pc' = [pc EXCEPT ![c] = "none"]
        /\ in_flight' = in_flight - 1
        /\ UNCHANGED <<uid, rejecting, total, per_uid>>
    BY DEF Leave, Finish, Goto, slotVars
  <1>2. c \in Requesting /\ c \notin Subscribed BY <1>1 DEF Requesting, Subscribed
  <1>3. /\ Requesting' = Requesting \ {c} /\ Subscribed' = Subscribed
        /\ \A u \in Uids : SubscribedBy(u)' = SubscribedBy(u)
    <2>1. "none" \in Labels BY DEF Labels
    <2>2. Requesting' = Requesting \ {c} /\ Subscribed' = Subscribed \ {c}
      BY <1>1, <2>1, Moves DEF IInv
    <2>3. Subscribed' = Subscribed BY <2>2, <1>2
    <2> QED BY <2>2, <2>3, <1>1 DEF SubscribedBy
  <1>4. /\ Cardinality(Requesting) \in Nat /\ Cardinality(Requesting) > 0
        /\ Cardinality(Requesting \ {c}) = Cardinality(Requesting) - 1
    BY <1>2, Sizes, SubsetsOfConns
  <1>5. SlotsExact' BY <1>1, <1>3, <1>4 DEF IInv, SlotsExact
  <1>6. Cap \in Nat BY GuardServerAssumption DEF Cap
  <1>7. CapsKept' BY <1>3, <1>4, <1>6 DEF IInv, CapsKept, Cap
  <1>8. SlotTypes' BY <1>1, <1>4 DEF IInv, SlotTypes, SlotsExact, Labels
  <1>9. RejectedNotServed'
    BY <1>1, GuardServerAssumption DEF IInv, SlotTypes, RejectedNotServed
  <1> QED BY <1>5, <1>7, <1>8, <1>9 DEF IInv

\* try_acquire takes a subscriber slot; the request slot is still held.
LEMMA SubscribeStep ==
    ASSUME IInv, NEW c \in Conns, Subscribe(c)
    PROVE  IInv'
  <1>1. /\ pc[c] = "serve" /\ pc' = [pc EXCEPT ![c] = "upgrade"]
        /\ total < TotalCap /\ per_uid[uid[c]] < PerUidCap
        /\ total' = total + 1
        /\ per_uid' = [per_uid EXCEPT ![uid[c]] = @ + 1]
        /\ UNCHANGED <<uid, in_flight, rejecting>>
    BY DEF Subscribe, Admits, Goto
  <1>2. uid[c] \in Uids BY DEF IInv, SlotTypes
  <1>3. c \in Requesting /\ c \notin Subscribed /\ c \notin SubscribedBy(uid[c])
    BY <1>1 DEF Requesting, Subscribed, SubscribedBy
  <1>4. /\ Requesting' = Requesting /\ Subscribed' = Subscribed \cup {c}
        /\ SubscribedBy(uid[c])' = SubscribedBy(uid[c]) \cup {c}
        /\ \A u \in Uids : u # uid[c] => SubscribedBy(u)' = SubscribedBy(u)
    <2>1. "upgrade" \in Labels BY DEF Labels
    <2>2. Requesting' = Requesting \cup {c} /\ Subscribed' = Subscribed \cup {c}
      BY <1>1, <2>1, Moves DEF IInv
    <2>3. Requesting' = Requesting BY <2>2, <1>3
    <2>4. SubscribedBy(uid[c])' = SubscribedBy(uid[c]) \cup {c}
      BY <1>1, <2>1, Moves DEF IInv
    <2>5. \A u \in Uids : u # uid[c] => SubscribedBy(u)' = SubscribedBy(u)
      BY <1>1, <2>1, Moves DEF IInv
    <2> QED BY <2>2, <2>3, <2>4, <2>5
  <1>5. /\ Cardinality(Subscribed) \in Nat
        /\ Cardinality(Subscribed \cup {c}) = Cardinality(Subscribed) + 1
        /\ Cardinality(SubscribedBy(uid[c])) \in Nat
        /\ Cardinality(SubscribedBy(uid[c]) \cup {c}) = Cardinality(SubscribedBy(uid[c])) + 1
    BY <1>3, Sizes, SubsetsOfConns
  <1>6. \A u \in Uids : per_uid'[u] = Cardinality(SubscribedBy(u)')
    <2> SUFFICES ASSUME NEW u \in Uids PROVE per_uid'[u] = Cardinality(SubscribedBy(u)')
      OBVIOUS
    <2>1. CASE u = uid[c]
      <3>1. per_uid'[u] = per_uid[u] + 1 BY <1>1, <2>1 DEF IInv, SlotTypes
      <3>2. Cardinality(SubscribedBy(uid[c])') = Cardinality(SubscribedBy(uid[c])) + 1
        BY <1>4, <1>5
      <3>3. per_uid[uid[c]] = Cardinality(SubscribedBy(uid[c])) BY <1>2 DEF IInv, SlotsExact
      <3> QED BY <3>1, <3>2, <3>3, <2>1, <1>1 DEF SubscribedBy
    <2>2. CASE u # uid[c]
      <3>1. per_uid'[u] = per_uid[u] BY <1>1, <2>2 DEF IInv, SlotTypes
      <3>2. SubscribedBy(u)' = SubscribedBy(u) BY <1>4, <2>2
      <3> QED BY <3>1, <3>2 DEF IInv, SlotsExact
    <2> QED BY <2>1, <2>2
  <1>7. SlotsExact' BY <1>1, <1>4, <1>5, <1>6 DEF IInv, SlotsExact
  <1>8. \A u \in Uids : per_uid'[u] <= PerUidCap
    BY <1>1, <1>2, GuardServerAssumption DEF IInv, SlotTypes, SlotsExact, CapsKept
  <1>9. CapsKept'
    BY <1>1, <1>4, <1>5, <1>6, <1>8, GuardServerAssumption DEF IInv, SlotsExact, CapsKept, Cap
  <1>10. SlotTypes' BY <1>1, <1>2 DEF IInv, SlotTypes, Labels
  <1>11. RejectedNotServed'
    BY <1>1, GuardServerAssumption DEF IInv, SlotTypes, RejectedNotServed
  <1> QED BY <1>7, <1>9, <1>10, <1>11 DEF IInv

\* release_now gives the request slot back; the subscriber slot is held.
LEMMA UpgradeStep ==
    ASSUME IInv, NEW c \in Conns, Upgrade(c)
    PROVE  IInv'
  <1>1. /\ pc[c] = "upgrade" /\ pc' = [pc EXCEPT ![c] = "register"]
        /\ in_flight' = in_flight - 1
        /\ UNCHANGED <<uid, rejecting, total, per_uid>>
    BY DEF Upgrade, Goto, slotVars
  <1>2. c \in Requesting /\ c \in Subscribed BY <1>1 DEF Requesting, Subscribed
  <1>3. /\ Requesting' = Requesting \ {c} /\ Subscribed' = Subscribed
        /\ \A u \in Uids : SubscribedBy(u)' = SubscribedBy(u)
    <2>1. "register" \in Labels BY DEF Labels
    <2>2. Requesting' = Requesting \ {c} /\ Subscribed' = Subscribed \cup {c}
      BY <1>1, <2>1, Moves DEF IInv
    <2>3. Subscribed' = Subscribed BY <2>2, <1>2
    <2> QED BY <2>2, <2>3, <1>1 DEF SubscribedBy
  <1>4. /\ Cardinality(Requesting) \in Nat /\ Cardinality(Requesting) > 0
        /\ Cardinality(Requesting \ {c}) = Cardinality(Requesting) - 1
    BY <1>2, Sizes, SubsetsOfConns
  <1>5. SlotsExact' BY <1>1, <1>3, <1>4 DEF IInv, SlotsExact
  <1>6. Cap \in Nat BY GuardServerAssumption DEF Cap
  <1>7. CapsKept' BY <1>3, <1>4, <1>6 DEF IInv, CapsKept, Cap
  <1>8. SlotTypes' BY <1>1, <1>4 DEF IInv, SlotTypes, SlotsExact, Labels
  <1>9. RejectedNotServed'
    BY <1>1, GuardServerAssumption DEF IInv, SlotTypes, RejectedNotServed
  <1> QED BY <1>5, <1>7, <1>8, <1>9 DEF IInv

\* SubscriberSlot's drop: the saturating subtractions never saturate.
LEMMA ReleaseStep ==
    ASSUME IInv, NEW c \in Conns, Release(c)
    PROVE  IInv'
  <1>1. /\ pc[c] = "drop" /\ pc' = [pc EXCEPT ![c] = "none"]
        /\ total' = IF total = 0 THEN 0 ELSE total - 1
        /\ per_uid' = [per_uid EXCEPT ![uid[c]] = IF @ = 0 THEN 0 ELSE @ - 1]
        /\ UNCHANGED <<uid, in_flight, rejecting>>
    BY DEF Release, Finish, Goto
  <1>2. uid[c] \in Uids BY DEF IInv, SlotTypes
  <1>3. c \notin Requesting /\ c \in Subscribed /\ c \in SubscribedBy(uid[c])
    BY <1>1 DEF Requesting, Subscribed, SubscribedBy
  <1>4. /\ Requesting' = Requesting /\ Subscribed' = Subscribed \ {c}
        /\ SubscribedBy(uid[c])' = SubscribedBy(uid[c]) \ {c}
        /\ \A u \in Uids : u # uid[c] => SubscribedBy(u)' = SubscribedBy(u)
    <2>1. "none" \in Labels BY DEF Labels
    <2>2. Requesting' = Requesting \ {c} /\ Subscribed' = Subscribed \ {c}
      BY <1>1, <2>1, Moves DEF IInv
    <2>3. Requesting' = Requesting BY <2>2, <1>3
    <2>4. SubscribedBy(uid[c])' = SubscribedBy(uid[c]) \ {c}
      BY <1>1, <2>1, Moves DEF IInv
    <2>5. \A u \in Uids : u # uid[c] => SubscribedBy(u)' = SubscribedBy(u)
      BY <1>1, <2>1, Moves DEF IInv
    <2> QED BY <2>2, <2>3, <2>4, <2>5
  <1>5. /\ Cardinality(Subscribed) \in Nat /\ Cardinality(Subscribed) > 0
        /\ Cardinality(Subscribed \ {c}) = Cardinality(Subscribed) - 1
        /\ Cardinality(SubscribedBy(uid[c])) \in Nat /\ Cardinality(SubscribedBy(uid[c])) > 0
        /\ Cardinality(SubscribedBy(uid[c]) \ {c}) = Cardinality(SubscribedBy(uid[c])) - 1
    BY <1>3, Sizes, SubsetsOfConns
  <1>6. \A u \in Uids : /\ per_uid'[u] = Cardinality(SubscribedBy(u)')
                        /\ per_uid'[u] <= per_uid[u]
    <2> SUFFICES ASSUME NEW u \in Uids
                 PROVE  /\ per_uid'[u] = Cardinality(SubscribedBy(u)')
                        /\ per_uid'[u] <= per_uid[u]
      OBVIOUS
    <2>1. CASE u = uid[c]
      <3>1. per_uid[uid[c]] = Cardinality(SubscribedBy(uid[c])) BY <1>2 DEF IInv, SlotsExact
      <3>2. per_uid'[u] = per_uid[u] - 1 BY <1>1, <1>5, <3>1, <2>1 DEF IInv, SlotTypes
      <3>3. Cardinality(SubscribedBy(uid[c])') = Cardinality(SubscribedBy(uid[c])) - 1
        BY <1>4, <1>5
      <3> QED BY <3>1, <3>2, <3>3, <2>1, <1>1, <1>5 DEF SubscribedBy
    <2>2. CASE u # uid[c]
      <3>1. per_uid'[u] = per_uid[u] /\ per_uid[u] \in Nat
        BY <1>1, <2>2 DEF IInv, SlotTypes
      <3>2. SubscribedBy(u)' = SubscribedBy(u) BY <1>4, <2>2
      <3> QED BY <3>1, <3>2 DEF IInv, SlotsExact
    <2> QED BY <2>1, <2>2
  <1>7. SlotsExact' BY <1>1, <1>4, <1>5, <1>6 DEF IInv, SlotsExact
  <1>8. SlotTypes' BY <1>1, <1>2 DEF IInv, SlotTypes, Labels
  <1>9. \A u \in Uids : per_uid'[u] <= PerUidCap
    BY <1>6, <1>8, GuardServerAssumption DEF IInv, SlotTypes, SlotsExact, CapsKept
  <1>10. CapsKept'
    BY <1>4, <1>5, <1>6, <1>9, GuardServerAssumption DEF IInv, CapsKept, Cap
  <1>11. RejectedNotServed'
    BY <1>1, GuardServerAssumption DEF IInv, SlotTypes, RejectedNotServed
  <1> QED BY <1>7, <1>8, <1>10, <1>11 DEF IInv

-----------------------------------------------------------------------------
\* No slots and no connections at the start.
LEMMA IInvInit == Init => IInv
  <1> SUFFICES ASSUME Init PROVE IInv OBVIOUS
  <1>1. Requesting = {} /\ Subscribed = {} BY DEF Init, Requesting, Subscribed
  <1>2. \A u \in Uids : SubscribedBy(u) = {} BY <1>1 DEF SubscribedBy
  <1>3. /\ Cardinality(Requesting) = 0 /\ Cardinality(Subscribed) = 0
        /\ \A u \in Uids : Cardinality(SubscribedBy(u)) = 0
    <2>1. Cardinality({}) = 0 BY FS_EmptySet
    <2>2. \A u \in Uids : Cardinality(SubscribedBy(u)) = 0
      <3> SUFFICES ASSUME NEW u \in Uids PROVE Cardinality(SubscribedBy(u)) = 0 OBVIOUS
      <3>1. SubscribedBy(u) = {} BY <1>2
      <3> QED BY <3>1, <2>1
    <2> QED BY <1>1, <2>1, <2>2
  <1>4. Cap \in Nat BY GuardServerAssumption DEF Cap
  <1>5. SlotsExact BY <1>3 DEF Init, SlotsExact
  <1>6. CapsKept BY <1>3, <1>4, GuardServerAssumption DEF CapsKept
  <1>7. SlotTypes /\ RejectedNotServed BY DEF Init, SlotTypes, RejectedNotServed, Labels
  <1> QED BY <1>5, <1>6, <1>7 DEF IInv

\* Every step of every thread keeps the accounting.
LEMMA IInvStep == IInv /\ [Next]_vars => IInv'
  <1> SUFFICES ASSUME IInv, [Next]_vars PROVE IInv' OBVIOUS
  <1> USE DEF connVars, slotVars
  <1>1. ASSUME NEW c \in Conns, Client(c) PROVE IInv'
    <2>1. ASSUME NEW u \in Uids, Connect(c, u) PROVE IInv' BY <2>1, ConnectStep
    <2>2. CASE Hangup(c) BY <2>2, SameHandlers DEF Hangup
    <2>3. CASE Chatter(c) BY <2>3, SameHandlers DEF Chatter
    <2> QED BY <1>1, <2>1, <2>2, <2>3 DEF Client
  <1>2. ASSUME NEW c \in Conns, Handler(c) PROVE IInv'
    <2>1. CASE Leave(c) BY <2>1, LeaveStep
    <2>2. CASE Subscribe(c) BY <2>2, SubscribeStep
    <2>3. CASE Upgrade(c) BY <2>3, UpgradeStep
    <2>4. CASE Register(c)
      BY <2>4, SameSlots DEF Register, Goto, Labels, Requesting, Subscribed
    <2>5. CASE Ack(c)
      <3>1. CASE peer[c] = "closed"
        BY <2>5, <3>1, SameSlots DEF Ack, Goto, Labels, Requesting, Subscribed
      <3>2. CASE peer[c] # "closed"
        BY <2>5, <3>2, SameSlots DEF Ack, Goto, Labels, Requesting, Subscribed
      <3> QED BY <3>1, <3>2
    <2>6. CASE Deliver(c) BY <2>6, SameHandlers DEF Deliver
    <2>7. CASE Poll(c)
      BY <2>7, SameSlots DEF Poll, Goto, Labels, Requesting, Subscribed
    <2>8. CASE Deregister(c)
      BY <2>8, SameSlots DEF Deregister, Goto, Labels, Requesting, Subscribed
    <2>9. CASE Release(c) BY <2>9, ReleaseStep
    <2> QED BY <1>2, <2>1, <2>2, <2>3, <2>4, <2>5, <2>6, <2>7, <2>8, <2>9 DEF Handler
  <1>3. CASE Cast
    <2>1. ASSUME NEW match \in SUBSET subs, StartCast(match) PROVE IInv'
      BY <2>1, SameHandlers DEF StartCast
    <2>2. ASSUME NEW c \in subs, SendNotice(c) PROVE IInv'
      BY <2>2, SameHandlers DEF SendNotice
    <2>3. ASSUME NEW c \in subs, SendEvent(c) PROVE IInv'
      BY <2>3, SameHandlers DEF SendEvent
    <2>4. CASE EndCast BY <2>4, SameHandlers DEF EndCast
    <2> QED BY <1>3, <2>1, <2>2, <2>3, <2>4 DEF Cast, Round
  <1>4. CASE UNCHANGED vars BY <1>4, SameHandlers DEF vars
  <1>5. ASSUME NEW c \in Conns, Accept(c) PROVE IInv' BY <1>5, AcceptStep
  <1>6. ASSUME NEW c \in Conns, Reject(c) PROVE IInv' BY <1>6, RejectStep
  <1> QED BY <1>1, <1>2, <1>3, <1>4, <1>5, <1>6 DEF Next

\* The inductive invariant holds throughout.
LEMMA Inductive == Spec => []IInv
  BY IInvInit, IInvStep, PTL DEF Spec

\* ConnGuard and SubscriberSlot: for any numbers of connections, uids and
\* slots, in_flight, total and per_uid count exactly the slots held.
THEOREM NoSlotLeaks == Spec => []SlotsExact
  <1>1. IInv => SlotsExact BY DEF IInv
  <1> QED BY <1>1, Inductive, PTL

\* The accept loop and try_acquire: the caps hold, whatever the interleaving
\* of accepts, rejections, upgrades and ends.
THEOREM CapsHold == Spec => []CapsKept
  <1>1. IInv => CapsKept BY DEF IInv
  <1> QED BY <1>1, Inductive, PTL

-----------------------------------------------------------------------------
(* The streams.                                                            *)

\* The list holds the connections between their registration and its end.
ListExact == \A c \in Conns : c \in subs <=> pc[c] \in {"ack", "stream", "deregister"}

StreamTypes ==
    /\ peer \in [Conns -> {"open", "chatty", "closed"}]
    /\ subs \subseteq Conns
    /\ inbox \in [Conns -> Seq(Messages)] /\ dropped \in [Conns -> Nat]
    /\ casting \in BOOLEAN /\ todo \subseteq Conns /\ current \in Conns \cup {NoConn}
    /\ offered \in [Conns -> Nat] /\ told \in [Conns -> Nat]

\* Tallies of a queue never decrease; k of n events are told or dropped.
Tally(s, q, n, k) ==
    /\ s \in [0..Len(q) -> 0..n] /\ Tallies(s, q)
    /\ \A i, j \in 0..Len(q) : i <= j => s[i] <= s[j]
    /\ n = k + s[Len(q)]
Accounted(q, n, k) == \E s : Tally(s, q, n, k)

AllAccounted == \A c \in Conns : Accounted(inbox[c], offered[c], told[c] + dropped[c])

StreamInv == ListExact /\ StreamTypes /\ AllAccounted

\* A message joins the queue: new events, or events that were dropped.
LEMMA AppendAccounted ==
    ASSUME NEW q \in Seq(Messages), NEW n \in Nat, NEW k \in Nat, Accounted(q, n, k),
           NEW m \in Messages, NEW n2 \in Nat, NEW k2 \in Nat,
           n <= n2, k2 + (n - k) + Worth(m) = n2
    PROVE  Accounted(Append(q, m), n2, k2)
  <1>1. PICK s : Tally(s, q, n, k) BY DEF Accounted
  <1> DEFINE l == Len(q)
             r == Append(q, m)
             s2 == [i \in 0..(l + 1) |-> IF i <= l THEN s[i] ELSE s[l] + Worth(m)]
  <1>2. l \in Nat /\ Len(r) = l + 1 /\ r[l + 1] = m /\ \A i \in 1..l : r[i] = q[i]
    OBVIOUS
  <1>3. Worth(m) \in Nat BY DEF Worth, Messages
  <1>4. /\ \A i \in 0..l : s[i] \in 0..n
        /\ s[0] = 0 /\ \A i \in 1..l : s[i] = s[i - 1] + Worth(q[i])
        /\ \A i, j \in 0..l : i <= j => s[i] <= s[j]
        /\ n = k + s[l]
    BY <1>1 DEF Tally, Tallies
  <1> HIDE DEF l, r
  <1>5. l \in 0..l /\ 0 \in 0..l BY <1>2
  <1>6. s[l] \in 0..n /\ s[l] + Worth(m) \in 0..n2
    <2>1. s[l] \in 0..n BY <1>4, <1>5
    <2>2. PICK x \in Nat : x = s[l] BY <2>1
    <2>3. PICK w \in Nat : w = Worth(m) BY <1>3
    <2>4. n = k + x /\ k2 + (n - k) + w = n2 BY <1>4, <2>2, <2>3
    <2>5. x + w \in 0..n2 BY <2>4
    <2> QED BY <2>1, <2>2, <2>3, <2>5
  <1>7. s2 \in [0..(l + 1) -> 0..n2]
    <2>1. ASSUME NEW i \in 0..(l + 1) PROVE s2[i] \in 0..n2
      <3>1. CASE i <= l
        <4>1. i \in 0..l BY <1>2, <3>1
        <4>2. s[i] \in 0..n BY <1>4, <4>1
        <4> QED BY <3>1, <4>2
      <3>2. CASE ~(i <= l) BY <1>6, <3>2
      <3> QED BY <3>1, <3>2
    <2> QED BY <2>1
  <1>8. \A i \in 0..l : s2[i] = s[i] BY <1>2
  <1>9. s2[l + 1] = s[l] + Worth(m)
    <2>1. l + 1 \in 0..(l + 1) /\ ~(l + 1 <= l) BY <1>2
    <2> QED BY <2>1
  <1> HIDE DEF s2
  <1>10. Tallies(s2, r)
    <2>1. ASSUME NEW i \in 1..(l + 1) PROVE s2[i] = s2[i - 1] + Worth(r[i])
      <3>1. CASE i <= l
        <4>1. i \in 1..l /\ i \in 0..l /\ i - 1 \in 0..l BY <1>2, <3>1
        <4> QED BY <1>2, <1>4, <1>8, <4>1
      <3>2. CASE ~(i <= l)
        <4>1. i = l + 1 /\ i - 1 = l BY <1>2, <3>2
        <4> QED BY <1>2, <1>5, <1>8, <1>9, <4>1
      <3> QED BY <3>1, <3>2
    <2> QED BY <1>2, <1>4, <1>5, <1>8, <2>1 DEF Tallies
  <1>11. ASSUME NEW i \in 0..(l + 1), NEW j \in 0..(l + 1), i <= j PROVE s2[i] <= s2[j]
    <2>1. CASE j <= l
      <3>1. i \in 0..l /\ j \in 0..l BY <1>2, <1>11, <2>1
      <3> QED BY <1>4, <1>8, <1>11, <3>1
    <2>2. CASE j = l + 1 /\ i <= l
      <3>1. i \in 0..l BY <1>2, <2>2
      <3>2. s[i] <= s[l] /\ s[i] \in 0..n BY <1>2, <1>4, <1>5, <3>1, SMTT(40)
      <3> QED BY <1>3, <1>6, <1>8, <1>9, <2>2, <3>1, <3>2
    <2>3. CASE j = l + 1 /\ i = l + 1
      <3>1. s2[l + 1] \in 0..n2 BY <1>6, <1>9
      <3>2. s2[l + 1] <= s2[l + 1] BY <3>1
      <3> QED BY <2>3, <3>2
    <2> QED BY <1>2, <2>1, <2>2, <2>3
  <1>12. n2 = k2 + s2[l + 1]
    <2>1. PICK x \in Nat : x = s[l] BY <1>6
    <2>2. PICK w \in Nat : w = Worth(m) BY <1>3
    <2>3. n = k + x /\ k2 + (n - k) + w = n2 BY <1>4, <2>1, <2>2
    <2>4. n2 = k2 + (x + w) BY <2>3
    <2> QED BY <1>9, <2>1, <2>2, <2>4
  <1>13. Tally(s2, r, n2, k2) BY <1>2, <1>7, <1>10, <1>11, <1>12 DEF Tally
  <1> QED BY <1>13 DEF Accounted, r

\* The head of the queue is told.
LEMMA TailAccounted ==
    ASSUME NEW q \in Seq(Messages), q # <<>>, NEW n \in Nat, NEW k \in Nat, Accounted(q, n, k)
    PROVE  Accounted(Tail(q), n, k + Worth(Head(q))) /\ Worth(Head(q)) \in Nat
  <1>1. PICK s : Tally(s, q, n, k) BY DEF Accounted
  <1> DEFINE l == Len(q)
             r == Tail(q)
             w == Worth(Head(q))
             s2 == [i \in 0..(l - 1) |-> s[i + 1] - w]
  <1>2. l \in Nat /\ l >= 1 /\ Len(r) = l - 1 /\ q[1] = Head(q) /\ \A i \in 1..(l - 1) : r[i] = q[i + 1]
    OBVIOUS
  <1>3. w \in Nat
    <2>1. Head(q) \in Messages OBVIOUS
    <2> QED BY <2>1 DEF Worth, Messages
  <1>4. /\ \A i \in 0..l : s[i] \in 0..n
        /\ s[0] = 0 /\ \A i \in 1..l : s[i] = s[i - 1] + Worth(q[i])
        /\ \A i, j \in 0..l : i <= j => s[i] <= s[j]
        /\ n = k + s[l]
    BY <1>1 DEF Tally, Tallies
  <1>5. s[1] = w
    <2>1. 1 \in 1..l /\ 1 - 1 = 0 BY <1>2
    <2>2. s[1] = s[0] + Worth(q[1]) BY <1>4, <2>1
    <2> QED BY <1>2, <1>3, <1>4, <2>2
  <1> HIDE DEF l, r, w
  <1>6. ASSUME NEW i \in 0..(l - 1)
        PROVE  i + 1 \in 0..l /\ s[i + 1] \in 0..n /\ w <= s[i + 1] /\ s2[i] = s[i + 1] - w
    <2>1. i + 1 \in 0..l /\ 1 \in 0..l /\ 1 <= i + 1 BY <1>2
    <2> QED BY <1>4, <1>5, <2>1
  <1>7. s2 \in [0..(l - 1) -> 0..n]
    <2>1. ASSUME NEW i \in 0..(l - 1) PROVE s[i + 1] - w \in 0..n BY <1>3, <1>6
    <2> QED BY <2>1
  <1> HIDE DEF s2
  <1>8. Tallies(s2, r)
    <2>1. 0 \in 0..(l - 1) /\ 0 + 1 = 1 BY <1>2
    <2>2. s2[0] = 0 BY <1>3, <1>5, <1>6, <2>1
    <2>3. ASSUME NEW i \in 1..(l - 1) PROVE s2[i] = s2[i - 1] + Worth(r[i])
      <3>1. /\ i \in 0..(l - 1) /\ i - 1 \in 0..(l - 1) /\ i + 1 \in 1..l /\ (i - 1) + 1 = i
            /\ (i + 1) - 1 = i
        BY <1>2
      <3>2. s[i + 1] = s[i] + Worth(q[i + 1]) BY <1>4, <3>1
      <3>3. s2[i] = s[i + 1] - w /\ s2[i - 1] = s[i] - w /\ s[i] \in 0..n /\ s[i + 1] \in 0..n
        BY <1>6, <3>1
      <3>4. r[i] = q[i + 1] /\ Worth(q[i + 1]) \in Nat
        <4>1. q[i + 1] \in Messages
          <5>1. \A j \in 1..Len(q) : q[j] \in Messages OBVIOUS
          <5> QED BY <3>1, <5>1 DEF l
        <4> QED BY <1>2, <4>1 DEF Worth, Messages
      <3> QED BY <1>3, <3>2, <3>3, <3>4
    <2> QED BY <1>2, <2>2, <2>3 DEF Tallies
  <1>9. ASSUME NEW i \in 0..(l - 1), NEW j \in 0..(l - 1), i <= j PROVE s2[i] <= s2[j]
    <2>1. s[i + 1] <= s[j + 1] BY <1>2, <1>4, <1>6, <1>9
    <2> QED BY <1>3, <1>6, <2>1
  <1>10. n = (k + w) + s2[l - 1]
    <2>1. l - 1 \in 0..(l - 1) /\ (l - 1) + 1 = l BY <1>2
    <2>2. s2[l - 1] = s[l] - w /\ s[l] \in 0..n BY <1>6, <2>1
    <2> QED BY <1>3, <1>4, <2>2
  <1>11. Tally(s2, r, n, k + w) BY <1>2, <1>7, <1>8, <1>9, <1>10 DEF Tally
  <1> QED BY <1>3, <1>11 DEF Accounted, r, w

\* An event is dropped: one more, and one more of them counted.
LEMMA DropAccounted ==
    ASSUME NEW q \in Seq(Messages), NEW n \in Nat, NEW k \in Nat, Accounted(q, n, k)
    PROVE  Accounted(q, n + 1, k + 1)
  <1>1. PICK s : Tally(s, q, n, k) BY DEF Accounted
  <1>2. Len(q) \in Nat /\ s[Len(q)] \in 0..n
    <2>1. Len(q) \in 0..Len(q) OBVIOUS
    <2> QED BY <1>1, <2>1 DEF Tally
  <1>3. s \in [0..Len(q) -> 0..(n + 1)]
    <2>1. 0..n \subseteq 0..(n + 1) OBVIOUS
    <2> QED BY <1>1, <2>1 DEF Tally
  <1>4. Tally(s, q, n + 1, k + 1) BY <1>1, <1>2, <1>3 DEF Tally
  <1> QED BY <1>4 DEF Accounted

LEMMA EmptyAccounted == Accounted(<<>>, 0, 0)
  <1> DEFINE s == [i \in 0..0 |-> 0]
  <1>1. Tally(s, <<>>, 0, 0) BY DEF Tally, Tallies
  <1> QED BY <1>1 DEF Accounted

\* A step that leaves the list and the channels alone, and moves a handler
\* without passing a registration or its end.
LEMMA SameStream ==
    ASSUME IInv, StreamInv, UNCHANGED <<subs, inbox, dropped, offered, told>>,
           peer' \in [Conns -> {"open", "chatty", "closed"}],
           casting' \in BOOLEAN, todo' \subseteq Conns, current' \in Conns \cup {NoConn},
           \A c \in Conns : pc[c] \in {"ack", "stream", "deregister"}
                              <=> pc'[c] \in {"ack", "stream", "deregister"}
    PROVE  StreamInv'
  <1>1. ListExact' BY DEF StreamInv, ListExact
  <1>2. StreamTypes' BY DEF StreamInv, StreamTypes
  <1>3. AllAccounted' BY DEF StreamInv, AllAccounted
  <1> QED BY <1>1, <1>2, <1>3 DEF StreamInv

\* A step on the channel of one subscriber.
LEMMA OneChannel ==
    ASSUME StreamInv, NEW c \in Conns, UNCHANGED <<pc, peer, subs, casting>>,
           todo' \subseteq Conns, current' \in Conns \cup {NoConn},
           NEW q \in Seq(Messages), inbox' = [inbox EXCEPT ![c] = q],
           NEW d \in Nat, dropped' = [dropped EXCEPT ![c] = d],
           NEW n \in Nat, offered' = [offered EXCEPT ![c] = n],
           NEW k \in Nat, told' = [told EXCEPT ![c] = k],
           Accounted(q, n, k + d)
    PROVE  StreamInv'
  <1>1. ListExact' BY DEF StreamInv, ListExact
  <1>2. StreamTypes' BY DEF StreamInv, StreamTypes
  <1>3. ASSUME NEW e \in Conns
        PROVE  Accounted(inbox'[e], offered'[e], told'[e] + dropped'[e])
    <2>1. CASE e = c
      <3>1. inbox'[e] = q /\ offered'[e] = n /\ told'[e] = k /\ dropped'[e] = d
        BY <2>1 DEF StreamInv, StreamTypes
      <3> QED BY <3>1
    <2>2. CASE e # c
      <3>1. /\ inbox'[e] = inbox[e] /\ offered'[e] = offered[e]
            /\ told'[e] = told[e] /\ dropped'[e] = dropped[e]
        BY <2>2 DEF StreamInv, StreamTypes
      <3> QED BY <3>1 DEF StreamInv, AllAccounted
    <2> QED BY <2>1, <2>2
  <1>4. AllAccounted' BY <1>3 DEF AllAccounted
  <1> QED BY <1>1, <1>2, <1>4 DEF StreamInv

LEMMA RegisterStream ==
    ASSUME IInv, StreamInv, NEW c \in Conns, Register(c)
    PROVE  StreamInv'
  <1>1. /\ pc' = [pc EXCEPT ![c] = "ack"] /\ subs' = subs \cup {c}
        /\ UNCHANGED <<peer, inbox, dropped, offered, told, casting, todo, current>>
    BY DEF Register, Goto, chanVars, castVars
  <1>2. ListExact' BY <1>1 DEF IInv, SlotTypes, StreamInv, ListExact
  <1>3. StreamTypes' BY <1>1 DEF StreamInv, StreamTypes
  <1>4. AllAccounted' BY <1>1 DEF StreamInv, AllAccounted
  <1> QED BY <1>2, <1>3, <1>4 DEF StreamInv

LEMMA DeregisterStream ==
    ASSUME IInv, StreamInv, NEW c \in Conns, Deregister(c)
    PROVE  StreamInv'
  <1>1. /\ pc' = [pc EXCEPT ![c] = "drop"] /\ subs' = subs \ {c}
        /\ inbox' = [inbox EXCEPT ![c] = <<>>] /\ dropped' = [dropped EXCEPT ![c] = 0]
        /\ offered' = [offered EXCEPT ![c] = 0] /\ told' = [told EXCEPT ![c] = 0]
        /\ UNCHANGED <<peer, casting, todo, current>>
    BY DEF Deregister, Goto, castVars
  <1>2. ListExact' BY <1>1 DEF IInv, SlotTypes, StreamInv, ListExact
  <1>3. StreamTypes' BY <1>1 DEF StreamInv, StreamTypes
  <1>4. ASSUME NEW e \in Conns
        PROVE  Accounted(inbox'[e], offered'[e], told'[e] + dropped'[e])
    <2>1. CASE e = c
      <3>1. inbox'[e] = <<>> /\ offered'[e] = 0 /\ told'[e] + dropped'[e] = 0
        BY <1>1, <2>1 DEF StreamInv, StreamTypes
      <3> QED BY <3>1, EmptyAccounted
    <2>2. CASE e # c
      <3>1. /\ inbox'[e] = inbox[e] /\ offered'[e] = offered[e]
            /\ told'[e] = told[e] /\ dropped'[e] = dropped[e]
        BY <1>1, <2>2 DEF StreamInv, StreamTypes
      <3> QED BY <3>1 DEF StreamInv, AllAccounted
    <2> QED BY <2>1, <2>2
  <1>5. AllAccounted' BY <1>4 DEF AllAccounted
  <1> QED BY <1>2, <1>3, <1>5 DEF StreamInv

\* What one subscriber's channel and counters are.
LEMMA Channel ==
    ASSUME StreamInv, NEW c \in Conns
    PROVE  /\ inbox[c] \in Seq(Messages) /\ dropped[c] \in Nat /\ offered[c] \in Nat /\ told[c] \in Nat
           /\ Accounted(inbox[c], offered[c], told[c] + dropped[c])
           /\ inbox = [inbox EXCEPT ![c] = inbox[c]]
           /\ dropped = [dropped EXCEPT ![c] = dropped[c]]
           /\ offered = [offered EXCEPT ![c] = offered[c]]
           /\ told = [told EXCEPT ![c] = told[c]]
  BY DEF StreamInv, StreamTypes, AllAccounted

LEMMA DeliverStream ==
    ASSUME IInv, StreamInv, NEW c \in Conns, Deliver(c)
    PROVE  StreamInv'
  <1> DEFINE w == Worth(Head(inbox[c]))
  <1>1. /\ inbox[c] # <<>> /\ inbox' = [inbox EXCEPT ![c] = Tail(inbox[c])]
        /\ told' = [told EXCEPT ![c] = told[c] + w]
        /\ UNCHANGED <<pc, peer, subs, dropped, offered, casting, todo, current>>
    BY DEF Deliver, connVars, castVars
  <1>2. /\ Accounted(Tail(inbox[c]), offered[c], (told[c] + dropped[c]) + w)
        /\ w \in Nat /\ Tail(inbox[c]) \in Seq(Messages)
    <2>1. told[c] + dropped[c] \in Nat BY Channel
    <2> QED BY <1>1, <2>1, Channel, TailAccounted
  <1> HIDE DEF w
  <1>3. told[c] + w \in Nat /\ (told[c] + dropped[c]) + w = (told[c] + w) + dropped[c]
    BY <1>2, Channel
  <1>4. Accounted(Tail(inbox[c]), offered[c], (told[c] + w) + dropped[c]) BY <1>2, <1>3
  <1>5. /\ dropped' = [dropped EXCEPT ![c] = dropped[c]] /\ offered' = [offered EXCEPT ![c] = offered[c]]
        /\ dropped[c] \in Nat /\ offered[c] \in Nat
    BY <1>1, Channel
  <1>6. todo' \subseteq Conns /\ current' \in Conns \cup {NoConn} BY <1>1 DEF StreamInv, StreamTypes
  <1> QED BY <1>1, <1>2, <1>3, <1>4, <1>5, <1>6, OneChannel

LEMMA SendNoticeStream ==
    ASSUME IInv, StreamInv, NEW c \in Conns, SendNotice(c)
    PROVE  StreamInv'
  <1>1. current' = c /\ UNCHANGED <<pc, peer, subs, offered, told, casting, todo>> /\ dropped[c] > 0
    BY DEF SendNotice, connVars
  <1>2. todo' \subseteq Conns /\ current' \in Conns \cup {NoConn} BY <1>1 DEF StreamInv, StreamTypes
  <1>3. CASE Full(c)
    BY <1>1, <1>2, <1>3, SameStream DEF SendNotice, StreamInv, StreamTypes
  <1>4. CASE ~Full(c)
    <2> DEFINE m == Notice(dropped[c])
    <2>1. inbox' = [inbox EXCEPT ![c] = Append(inbox[c], m)] /\ dropped' = [dropped EXCEPT ![c] = 0]
      BY <1>4 DEF SendNotice
    <2>2. m \in Messages /\ Worth(m) = dropped[c] BY Channel DEF Notice, Messages, Worth
    <2> HIDE DEF m
    <2>3. Append(inbox[c], m) \in Seq(Messages) BY <2>2, Channel
    <2>4. /\ told[c] + dropped[c] \in Nat /\ told[c] + 0 \in Nat /\ offered[c] \in Nat
          /\ (told[c] + 0) + (offered[c] - (told[c] + dropped[c])) + Worth(m) = offered[c]
      BY <2>2, Channel
    <2>5. Accounted(Append(inbox[c], m), offered[c], told[c] + 0)
      <3>1. offered[c] <= offered[c] BY <2>4
      <3> QED BY <2>2, <2>4, <3>1, Channel, AppendAccounted
    <2>6. /\ told' = [told EXCEPT ![c] = told[c]] /\ offered' = [offered EXCEPT ![c] = offered[c]]
          /\ told[c] \in Nat /\ offered[c] \in Nat /\ 0 \in Nat
      BY <1>1, Channel
    <2> QED BY <1>1, <1>2, <2>1, <2>3, <2>5, <2>6, OneChannel
  <1> QED BY <1>3, <1>4

LEMMA SendEventStream ==
    ASSUME IInv, StreamInv, NEW c \in Conns, SendEvent(c)
    PROVE  StreamInv'
  <1>1. /\ current' = NoConn /\ todo' = todo \ {c} /\ offered' = [offered EXCEPT ![c] = offered[c] + 1]
        /\ UNCHANGED <<pc, peer, subs, told, casting>>
    BY DEF SendEvent, connVars
  <1>2. todo' \subseteq Conns /\ current' \in Conns \cup {NoConn} BY <1>1 DEF StreamInv, StreamTypes
  <1>3. /\ told' = [told EXCEPT ![c] = told[c]] /\ told[c] \in Nat /\ dropped[c] \in Nat
        /\ offered[c] \in Nat /\ offered[c] + 1 \in Nat /\ told[c] + dropped[c] \in Nat
    BY <1>1, Channel
  <1>4. CASE Full(c)
    <2>1. /\ inbox' = [inbox EXCEPT ![c] = inbox[c]] /\ dropped' = [dropped EXCEPT ![c] = dropped[c] + 1]
          /\ inbox[c] \in Seq(Messages)
      BY <1>4, Channel DEF SendEvent
    <2>2. Accounted(inbox[c], offered[c] + 1, (told[c] + dropped[c]) + 1)
      BY <1>3, Channel, DropAccounted
    <2>3. (told[c] + dropped[c]) + 1 = told[c] + (dropped[c] + 1) /\ dropped[c] + 1 \in Nat BY <1>3
    <2>4. Accounted(inbox[c], offered[c] + 1, told[c] + (dropped[c] + 1)) BY <2>2, <2>3
    <2> QED BY <1>1, <1>2, <1>3, <2>1, <2>3, <2>4, OneChannel
  <1>5. CASE ~Full(c)
    <2> DEFINE m == Event(offered[c] + 1)
    <2>1. inbox' = [inbox EXCEPT ![c] = Append(inbox[c], m)] /\ dropped' = [dropped EXCEPT ![c] = dropped[c]]
      BY <1>5, Channel DEF SendEvent
    <2>2. m \in Messages /\ Worth(m) = 1 BY <1>3 DEF Event, Messages, Worth
    <2> HIDE DEF m
    <2>3. Append(inbox[c], m) \in Seq(Messages) BY <2>2, Channel
    <2>4. /\ offered[c] <= offered[c] + 1
          /\ (told[c] + dropped[c]) + (offered[c] - (told[c] + dropped[c])) + Worth(m) = offered[c] + 1
      BY <1>3, <2>2
    <2>5. Accounted(Append(inbox[c], m), offered[c] + 1, told[c] + dropped[c])
      BY <1>3, <2>2, <2>4, Channel, AppendAccounted
    <2> QED BY <1>1, <1>2, <1>3, <2>1, <2>3, <2>5, OneChannel
  <1> QED BY <1>4, <1>5

LEMMA StreamInit == Init => StreamInv
  <1> SUFFICES ASSUME Init PROVE StreamInv OBVIOUS
  <1>1. ListExact BY DEF Init, ListExact
  <1>2. StreamTypes
    <2>1. casting \in BOOLEAN BY Zenon DEF Init
    <2>2. inbox \in [Conns -> Seq(Messages)]
      <3>1. <<>> \in Seq(Messages) OBVIOUS
      <3> QED BY <3>1 DEF Init
    <2>3. peer \in [Conns -> {"open", "chatty", "closed"}] BY DEF Init
    <2>4. dropped \in [Conns -> Nat] /\ offered \in [Conns -> Nat] /\ told \in [Conns -> Nat]
      BY DEF Init
    <2>5. subs \subseteq Conns /\ todo \subseteq Conns /\ current \in Conns \cup {NoConn}
      BY DEF Init
    <2> QED BY <2>1, <2>2, <2>3, <2>4, <2>5 DEF StreamTypes
  <1>3. ASSUME NEW c \in Conns PROVE Accounted(inbox[c], offered[c], told[c] + dropped[c])
    <2>1. inbox[c] = <<>> /\ offered[c] = 0 /\ told[c] + dropped[c] = 0 BY DEF Init
    <2> QED BY <2>1, EmptyAccounted
  <1> QED BY <1>1, <1>2, <1>3 DEF StreamInv, AllAccounted

\* A handler that moves from l to m does not change the list if both or
\* neither is between registration and its end.
LEMMA MoveStream ==
    ASSUME IInv, StreamInv, NEW c \in Conns, NEW m, pc' = [pc EXCEPT ![c] = m],
           pc[c] \in {"ack", "stream", "deregister"} <=> m \in {"ack", "stream", "deregister"},
           peer' \in [Conns -> {"open", "chatty", "closed"}],
           UNCHANGED <<subs, inbox, dropped, offered, told, casting, todo, current>>
    PROVE  StreamInv'
  <1>1. \A e \in Conns : pc[e] \in {"ack", "stream", "deregister"}
                           <=> pc'[e] \in {"ack", "stream", "deregister"}
    BY DEF IInv, SlotTypes
  <1> QED BY <1>1, SameStream DEF StreamInv, StreamTypes

LEMMA StreamStep == IInv /\ StreamInv /\ [Next]_vars => StreamInv'
  <1> SUFFICES ASSUME IInv, StreamInv, [Next]_vars PROVE StreamInv' OBVIOUS
  <1> USE DEF connVars, slotVars, chanVars, castVars
  <1>1. ASSUME NEW c \in Conns PROVE [peer EXCEPT ![c] = "closed"] \in [Conns -> {"open", "chatty", "closed"}]
    BY DEF StreamInv, StreamTypes
  <1>2. peer \in [Conns -> {"open", "chatty", "closed"}] BY DEF StreamInv, StreamTypes
  <1>3. ASSUME NEW c \in Conns, Client(c) PROVE StreamInv'
    <2>1. ASSUME NEW u \in Uids, Connect(c, u) PROVE StreamInv'
      <3>1. peer' \in [Conns -> {"open", "chatty", "closed"}]
        BY <2>1, <1>2 DEF Connect
      <3> QED BY <2>1, <3>1, MoveStream DEF Connect, Goto
    <2>2. CASE Hangup(c)
      BY <1>1, <2>2, SameStream DEF Hangup, StreamInv, StreamTypes
    <2>3. CASE Chatter(c)
      <3>1. peer' \in [Conns -> {"open", "chatty", "closed"}]
        BY <2>3, <1>2 DEF Chatter
      <3> QED BY <2>3, <3>1, SameStream DEF Chatter, StreamInv, StreamTypes
    <2> QED BY <1>3, <2>1, <2>2, <2>3 DEF Client
  <1>4. ASSUME NEW c \in Conns, Handler(c) PROVE StreamInv'
    <2>1. CASE Leave(c) BY <1>1, <2>1, MoveStream DEF Leave, Finish, Goto
    <2>2. CASE Subscribe(c) BY <1>2, <2>2, MoveStream DEF Subscribe, Goto
    <2>3. CASE Upgrade(c) BY <1>2, <2>3, MoveStream DEF Upgrade, Goto
    <2>4. CASE Register(c) BY <2>4, RegisterStream
    <2>5. CASE Ack(c)
      <3>1. PICK m \in {"deregister", "stream"} : pc' = [pc EXCEPT ![c] = m]
        BY <2>5 DEF Ack, Goto
      <3> QED BY <1>2, <2>5, <3>1, MoveStream DEF Ack
    <2>6. CASE Deliver(c) BY <2>6, DeliverStream
    <2>7. CASE Poll(c) BY <1>2, <2>7, MoveStream DEF Poll, Goto
    <2>8. CASE Deregister(c) BY <2>8, DeregisterStream
    <2>9. CASE Release(c) BY <1>1, <2>9, MoveStream DEF Release, Finish, Goto
    <2> QED BY <1>4, <2>1, <2>2, <2>3, <2>4, <2>5, <2>6, <2>7, <2>8, <2>9 DEF Handler
  <1>5. CASE Cast
    <2>1. subs \subseteq Conns BY DEF StreamInv, StreamTypes
    <2>2. ASSUME NEW match \in SUBSET subs, StartCast(match) PROVE StreamInv'
      BY <2>1, <2>2, SameStream DEF StartCast, StreamInv, StreamTypes
    <2>3. ASSUME NEW c \in subs, SendNotice(c) PROVE StreamInv'
      BY <2>1, <2>3, SendNoticeStream
    <2>4. ASSUME NEW c \in subs, SendEvent(c) PROVE StreamInv'
      BY <2>1, <2>4, SendEventStream
    <2>5. CASE EndCast
      <3>1. casting' \in BOOLEAN BY <2>5 DEF EndCast
      <3> QED BY <2>5, <3>1, SameStream DEF EndCast, StreamInv, StreamTypes
    <2> QED BY <1>5, <2>2, <2>3, <2>4, <2>5 DEF Cast, Round
  <1>6. CASE UNCHANGED vars
    <2>1. UNCHANGED <<pc, peer, subs, inbox, dropped, offered, told, casting, todo, current>>
      BY <1>6 DEF vars
    <2> QED BY <2>1, SameStream DEF StreamInv, StreamTypes
  <1>7. ASSUME NEW c \in Conns, Accept(c) PROVE StreamInv'
    <2>1. PICK m \in {"refused", "serve"} : pc' = [pc EXCEPT ![c] = m]
      BY <1>7 DEF Accept, Goto
    <2> QED BY <1>2, <1>7, <2>1, MoveStream DEF Accept
  <1>8. ASSUME NEW c \in Conns, Reject(c) PROVE StreamInv'
    <2>1. pc[c] = "refused" BY <1>8, GuardServerAssumption DEF Reject, IInv, RejectedNotServed
    <2> QED BY <1>1, <1>8, <2>1, MoveStream DEF Reject, Finish, Goto
  <1> QED BY <1>3, <1>4, <1>5, <1>6, <1>7, <1>8 DEF Next

LEMMA StreamsInductive == Spec => [](IInv /\ StreamInv)
  BY IInvInit, StreamInit, IInvStep, StreamStep, PTL DEF Spec

\* Every variable keeps its type; the counters never run below zero.
THEOREM GuardServerTypeCorrect == Spec => []TypeOK
  <1>1. IInv /\ StreamInv => TypeOK BY DEF IInv, SlotTypes, StreamInv, StreamTypes, TypeOK
  <1> QED BY <1>1, StreamsInductive, PTL

\* stream_warn_events: an acknowledged subscriber is in the broadcast list, and
\* nothing stays in the list without a handler that takes it out.
THEOREM AckImpliesListed == Spec => []ListedWhileStreaming
  <1>1. StreamInv => ListedWhileStreaming BY DEF StreamInv, ListExact, ListedWhileStreaming
  <1> QED BY <1>1, StreamsInductive, PTL

\* Broadcast: for any number of subscribers and events and any size of the
\* channels, every event that matched a subscriber is delivered, queued, or in
\* the count of a notice that is delivered, queued or due.
THEOREM EveryEventAccountedFor == Spec => []NothingLostSilently
  <1>1. StreamInv => NothingLostSilently
    <2> SUFFICES ASSUME StreamInv, NEW c \in subs
                 PROVE  \E s \in [0..Len(inbox[c]) -> 0..offered[c]] :
                          /\ Tallies(s, inbox[c])
                          /\ offered[c] = told[c] + s[Len(inbox[c])] + dropped[c]
      BY DEF NothingLostSilently
    <2>1. c \in Conns BY DEF StreamInv, StreamTypes
    <2>2. PICK s : Tally(s, inbox[c], offered[c], told[c] + dropped[c])
      BY <2>1, Channel DEF Accounted
    <2>3. /\ inbox[c] \in Seq(Messages) /\ told[c] \in Nat /\ dropped[c] \in Nat /\ offered[c] \in Nat
      BY <2>1, Channel
    <2>4. s[Len(inbox[c])] \in 0..offered[c]
      <3>1. Len(inbox[c]) \in 0..Len(inbox[c]) BY <2>3
      <3> QED BY <2>2, <3>1 DEF Tally
    <2>5. offered[c] = told[c] + s[Len(inbox[c])] + dropped[c] BY <2>2, <2>3, <2>4 DEF Tally
    <2> QED BY <2>2, <2>5 DEF Tally
  <1> QED BY <1>1, StreamsInductive, PTL

=============================================================================
