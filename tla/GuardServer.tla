---------------------------- MODULE GuardServer ----------------------------
(***************************************************************************)
(* The connections of atty-guard: the accept loop and its cap on request   *)
(* connections, the handler thread each connection gets, the upgrade of a  *)
(* connection to a stream of warn events under a cap of its own, and the   *)
(* broadcast that feeds those streams from the kernel's ring buffer.       *)
(*                                                                         *)
(* Every atomic add on a counter, every critical section and every channel *)
(* operation is a step.  The broadcast holds the mutex of its list while   *)
(* it goes through the subscribers, but the other end of each channel, the *)
(* handler thread, keeps taking messages out meanwhile.                    *)
(*                                                                         *)
(* What a request answers is ThreatMap's and TrustStore's subject: here a  *)
(* request that is not an accepted subscription changes nothing.           *)
(***************************************************************************)
EXTENDS Naturals, Sequences, FiniteSets

CONSTANTS Conns, NoConn,   \* connections, and none of them
          Uids,            \* uids of the peers
          MaxConn,         \* max_concurrent_connections as configured
          TotalCap,        \* MAX_WARN_SUBSCRIBERS_TOTAL
          PerUidCap,       \* MAX_WARN_SUBSCRIBERS_PER_UID
          InboxCap,        \* SUBSCRIBER_INBOX
          MaxEvents        \* bound: events offered to one subscription

ASSUME GuardServerAssumption ==
    /\ NoConn \notin Conns
    /\ IsFiniteSet(Conns)
    /\ MaxConn \in Nat
    /\ TotalCap \in Nat \ {0} /\ PerUidCap \in Nat \ {0} /\ InboxCap \in Nat \ {0}
    /\ MaxEvents \in Nat

VARIABLES
    pc,               \* per connection: where its handler is
    peer, uid,        \* per connection: its other end
    in_flight,        \* the counter of request connections
    rejecting,        \* the connection the accept loop is turning away
    total, per_uid,   \* SubscriberCounts
    subs,             \* the broadcast list
    inbox, dropped,   \* per subscriber: its channel, dropped_since_notice
    casting, todo,    \* broadcast: holds the mutex; subscribers still to visit
    current,          \* the subscriber whose notice has been tried
    offered,          \* history: events that matched the subscriber
    told              \* history: events the client knows of

connVars   == <<pc, peer, uid, in_flight, rejecting>>
slotVars   == <<total, per_uid>>
chanVars   == <<inbox, dropped, offered, told>>
castVars   == <<casting, todo, current>>
vars == <<connVars, slotVars, subs, chanVars, castVars>>

Goto(c, l) == pc' = [pc EXCEPT ![c] = l]

\* The handler, or the accept loop, is done with the connection and closes it.
Finish(c) == Goto(c, "none") /\ peer' = [peer EXCEPT ![c] = "closed"]

-----------------------------------------------------------------------------
(* The clients.                                                            *)

Connect(c, u) ==
    /\ pc[c] = "none"
    /\ Goto(c, "backlog")
    /\ peer' = [peer EXCEPT ![c] = "open"]
    /\ uid' = [uid EXCEPT ![c] = u]
    /\ UNCHANGED <<in_flight, rejecting, slotVars, subs, chanVars, castVars>>

Hangup(c) ==
    /\ pc[c] # "none" /\ peer[c] # "closed"
    /\ peer' = [peer EXCEPT ![c] = "closed"]
    /\ UNCHANGED <<pc, uid, in_flight, rejecting, slotVars, subs, chanVars, castVars>>

\* A subscriber sends bytes although it has nothing to say.
Chatter(c) ==
    /\ pc[c] = "stream" /\ peer[c] = "open"
    /\ peer' = [peer EXCEPT ![c] = "chatty"]
    /\ UNCHANGED <<pc, uid, in_flight, rejecting, slotVars, subs, chanVars, castVars>>

-----------------------------------------------------------------------------
(* The accept loop and the request connections.                            *)

\* A cap of 0 would refuse everybody.
Cap == IF MaxConn = 0 THEN 1 ELSE MaxConn

\* Mutant: off by one.
AtCap_OffByOne == in_flight > Cap

\* The value fetch_add returned.
AtCap == in_flight >= Cap

\* accept: test and increment; beyond the cap, the connection is turned away.
Accept(c) ==
    /\ pc[c] = "backlog" /\ rejecting = NoConn
    /\ in_flight' = in_flight + 1
    /\ rejecting' = IF AtCap THEN c ELSE NoConn
    /\ Goto(c, IF AtCap THEN "refused" ELSE "serve")
    /\ UNCHANGED <<peer, uid, slotVars, subs, chanVars, castVars>>

\* Mutant: the counter keeps counting a connection that was turned away.
Reject_KeepsCount(c) ==
    /\ rejecting = c
    /\ rejecting' = NoConn
    /\ Finish(c)
    /\ UNCHANGED <<uid, in_flight, slotVars, subs, chanVars, castVars>>

Reject(c) ==
    /\ rejecting = c
    /\ in_flight' = in_flight - 1
    /\ rejecting' = NoConn
    /\ Finish(c)
    /\ UNCHANGED <<uid, slotVars, subs, chanVars, castVars>>

\* The handler of a request connection ends: the client hung up, said
\* nothing for idle_read_timeout, sent an oversized line, or a read or write
\* failed.  ConnGuard gives the slot back.
Leave(c) ==
    /\ pc[c] = "serve"
    /\ in_flight' = in_flight - 1
    /\ Finish(c)
    /\ UNCHANGED <<uid, rejecting, slotVars, subs, chanVars, castVars>>

-----------------------------------------------------------------------------
(* SubscribeWarnEvents.                                                    *)

\* try_acquire: room in total and for the uid.
Admits(u) == total < TotalCap /\ per_uid[u] < PerUidCap

\* An authorised subscription that finds a slot; one that does not is
\* answered with an error and the connection goes on serving requests.
Subscribe(c) ==
    /\ pc[c] = "serve" /\ Admits(uid[c])
    /\ total' = total + 1
    /\ per_uid' = [per_uid EXCEPT ![uid[c]] = @ + 1]
    /\ Goto(c, "upgrade")
    /\ UNCHANGED <<peer, uid, in_flight, rejecting, subs, chanVars, castVars>>

\* release_now: from here on the connection counts as a subscriber only.
Upgrade(c) ==
    /\ pc[c] = "upgrade"
    /\ in_flight' = in_flight - 1
    /\ Goto(c, "register")
    /\ UNCHANGED <<peer, uid, rejecting, slotVars, subs, chanVars, castVars>>

\* stream_warn_events registers first ...
Register(c) ==
    /\ pc[c] = "register" /\ ~casting
    /\ subs' = subs \cup {c}
    /\ Goto(c, "ack")
    /\ UNCHANGED <<peer, uid, in_flight, rejecting, slotVars, chanVars, castVars>>

\* Mutant: a bare `?' on the failed acknowledgement.
Ack_NoDeregister(c) ==
    /\ pc[c] = "ack"
    /\ Goto(c, IF peer[c] = "closed" THEN "drop" ELSE "stream")
    /\ UNCHANGED <<peer, uid, in_flight, rejecting, slotVars, subs, chanVars, castVars>>

\* ... and acknowledges second.
Ack(c) ==
    /\ pc[c] = "ack"
    /\ Goto(c, IF peer[c] = "closed" THEN "deregister" ELSE "stream")
    /\ UNCHANGED <<peer, uid, in_flight, rejecting, slotVars, subs, chanVars, castVars>>

\* A message is worth one event, or the events its notice counts.
Event(n) == [kind |-> "event", n |-> n]
Notice(n) == [kind |-> "notice", n |-> n]
Worth(m) == IF m.kind = "event" THEN 1 ELSE m.n

\* The next message is taken from the channel and written to the client.
Deliver(c) ==
    LET m == Head(inbox[c]) IN
    /\ pc[c] = "stream" /\ inbox[c] # <<>> /\ peer[c] # "closed"
    /\ inbox' = [inbox EXCEPT ![c] = Tail(@)]
    /\ told' = [told EXCEPT ![c] = @ + Worth(m)]
    /\ UNCHANGED <<connVars, slotVars, subs, dropped, offered, castVars>>

\* Mutant: a disconnected peer is only noticed when an event is written.
Poll_WriteOnly(c) ==
    /\ pc[c] = "stream" /\ peer[c] = "closed" /\ inbox[c] # <<>>
    /\ Goto(c, "deregister")
    /\ UNCHANGED <<peer, uid, in_flight, rejecting, slotVars, subs, chanVars, castVars>>

\* The write fails, or the poll of a quiet stream finds the peer gone or
\* talking.
Poll(c) ==
    /\ pc[c] = "stream"
    /\ IF inbox[c] = <<>> THEN peer[c] # "open" ELSE peer[c] = "closed"
    /\ Goto(c, "deregister")
    /\ UNCHANGED <<peer, uid, in_flight, rejecting, slotVars, subs, chanVars, castVars>>

\* The channel dies with the handler's end of it.
Deregister(c) ==
    /\ pc[c] = "deregister" /\ ~casting
    /\ subs' = subs \ {c}
    /\ inbox' = [inbox EXCEPT ![c] = <<>>]
    /\ dropped' = [dropped EXCEPT ![c] = 0]
    /\ offered' = [offered EXCEPT ![c] = 0]
    /\ told' = [told EXCEPT ![c] = 0]
    /\ Goto(c, "drop")
    /\ UNCHANGED <<peer, uid, in_flight, rejecting, slotVars, castVars>>

\* Mutant: release_now did not disarm the ConnGuard.
Release_StillArmed(c) ==
    /\ pc[c] = "drop"
    /\ in_flight' = in_flight - 1
    /\ total' = IF total = 0 THEN 0 ELSE total - 1
    /\ per_uid' = [per_uid EXCEPT ![uid[c]] = IF @ = 0 THEN 0 ELSE @ - 1]
    /\ Finish(c)
    /\ UNCHANGED <<uid, rejecting, subs, chanVars, castVars>>

\* SubscriberSlot is dropped; the ConnGuard is disarmed.
Release(c) ==
    /\ pc[c] = "drop"
    /\ total' = IF total = 0 THEN 0 ELSE total - 1
    /\ per_uid' = [per_uid EXCEPT ![uid[c]] = IF @ = 0 THEN 0 ELSE @ - 1]
    /\ Finish(c)
    /\ UNCHANGED <<uid, in_flight, rejecting, subs, chanVars, castVars>>

-----------------------------------------------------------------------------
(* Broadcast.broadcast, run by the ring buffer's consumer thread.           *)

\* An event comes that is in the process trees of the subscribers in `match'.
StartCast(match) ==
    /\ ~casting
    /\ \A c \in match : offered[c] < MaxEvents
    /\ casting' = TRUE
    /\ todo' = match
    /\ UNCHANGED <<connVars, slotVars, subs, chanVars, current>>

Full(c) == Len(inbox[c]) >= InboxCap

\* Mutant: the count is reset although the notice did not fit.
SendNotice_AlwaysReset(c) ==
    /\ c \in todo /\ current = NoConn /\ dropped[c] > 0
    /\ current' = c
    /\ inbox' = IF Full(c) THEN inbox ELSE [inbox EXCEPT ![c] = Append(@, Notice(dropped[c]))]
    /\ dropped' = [dropped EXCEPT ![c] = 0]
    /\ UNCHANGED <<connVars, slotVars, subs, offered, told, casting, todo>>

\* A pending WarnDropped notice is tried first.
SendNotice(c) ==
    /\ c \in todo /\ current = NoConn /\ dropped[c] > 0
    /\ current' = c
    /\ IF Full(c)
         THEN UNCHANGED <<inbox, dropped>>
         ELSE /\ inbox' = [inbox EXCEPT ![c] = Append(@, Notice(dropped[c]))]
              /\ dropped' = [dropped EXCEPT ![c] = 0]
    /\ UNCHANGED <<connVars, slotVars, subs, offered, told, casting, todo>>

\* Then the event itself, with whatever room there is by now.
SendEvent(c) ==
    /\ c \in todo
    /\ current = c \/ (current = NoConn /\ dropped[c] = 0)
    /\ IF Full(c)
         THEN dropped' = [dropped EXCEPT ![c] = @ + 1] /\ UNCHANGED inbox
         ELSE /\ inbox' = [inbox EXCEPT ![c] = Append(@, Event(offered[c] + 1))]
              /\ UNCHANGED dropped
    /\ offered' = [offered EXCEPT ![c] = @ + 1]
    /\ todo' = todo \ {c}
    /\ current' = NoConn
    /\ UNCHANGED <<connVars, slotVars, subs, told, casting>>

EndCast ==
    /\ casting /\ todo = {}
    /\ casting' = FALSE
    /\ UNCHANGED <<connVars, slotVars, subs, chanVars, todo, current>>

-----------------------------------------------------------------------------
Init ==
    /\ pc = [c \in Conns |-> "none"]
    /\ peer = [c \in Conns |-> "closed"]
    /\ uid \in [Conns -> Uids]
    /\ in_flight = 0 /\ rejecting = NoConn
    /\ total = 0 /\ per_uid = [u \in Uids |-> 0]
    /\ subs = {}
    /\ inbox = [c \in Conns |-> <<>>]
    /\ dropped = [c \in Conns |-> 0]
    /\ casting = FALSE /\ todo = {} /\ current = NoConn
    /\ offered = [c \in Conns |-> 0]
    /\ told = [c \in Conns |-> 0]

Client(c) == (\E u \in Uids : Connect(c, u)) \/ Hangup(c) \/ Chatter(c)

Handler(c) ==
    \/ Leave(c) \/ Subscribe(c) \/ Upgrade(c) \/ Register(c) \/ Ack(c)
    \/ Deliver(c) \/ Poll(c) \/ Deregister(c) \/ Release(c)

Round == (\E c \in subs : SendNotice(c) \/ SendEvent(c)) \/ EndCast
Cast == (\E match \in SUBSET subs : StartCast(match)) \/ Round

Next ==
    \/ \E c \in Conns : Client(c) \/ Accept(c) \/ Reject(c) \/ Handler(c)
    \/ Cast

\* The threads are scheduled: the accept loop goes on and takes connections
\* in the order they came, a handler whose peer is gone goes on, a broadcast
\* that began goes on.  The mutex of the list is released after every event,
\* and a handler that waits for it gets it in the end.
Fairness ==
    /\ \A c \in Conns :
         /\ SF_vars(Accept(c))
         /\ WF_vars(Reject(c) \/ (peer[c] = "closed" /\ Leave(c)) \/ Upgrade(c) \/ Ack(c)
                      \/ Poll(c) \/ Release(c))
         /\ SF_vars(Register(c) \/ Deregister(c))
    /\ WF_vars(Round)

Spec == Init /\ [][Next]_vars /\ Fairness

-----------------------------------------------------------------------------
(* Properties.                                                             *)

Labels == {"none", "backlog", "refused", "serve", "upgrade", "register", "ack",
           "stream", "deregister", "drop"}
Messages == [kind : {"event", "notice"}, n : Nat]

\* The values every variable may take.
TypeOK ==
    /\ pc \in [Conns -> Labels]
    /\ peer \in [Conns -> {"open", "chatty", "closed"}]
    /\ uid \in [Conns -> Uids]
    /\ in_flight \in Nat /\ rejecting \in Conns \cup {NoConn}
    /\ total \in Nat /\ per_uid \in [Uids -> Nat]
    /\ subs \subseteq Conns
    /\ inbox \in [Conns -> Seq(Messages)]
    /\ dropped \in [Conns -> Nat]
    /\ casting \in BOOLEAN /\ todo \subseteq Conns /\ current \in Conns \cup {NoConn}
    /\ offered \in [Conns -> Nat] /\ told \in [Conns -> Nat]

\* The connections that hold a slot of the request cap, and of the
\* subscriber cap.
Requesting == {c \in Conns : pc[c] \in {"serve", "upgrade"}}
Subscribed == {c \in Conns : pc[c] \in {"upgrade", "register", "ack", "stream",
                                         "deregister", "drop"}}
SubscribedBy(u) == {c \in Subscribed : uid[c] = u}

\* ConnGuard, SubscriberSlot: whichever way connections end, upgrade or are
\* turned away, the counters count the slots that are held, so no slot leaks
\* and none is given back twice.
SlotsExact ==
    /\ in_flight = Cardinality(Requesting) + (IF rejecting = NoConn THEN 0 ELSE 1)
    /\ total = Cardinality(Subscribed)
    /\ \A u \in Uids : per_uid[u] = Cardinality(SubscribedBy(u))

\* The caps hold: request handlers, subscribers, and subscribers of one uid.
CapsKept ==
    /\ Cardinality(Requesting) <= Cap
    /\ Cardinality(Subscribed) <= TotalCap
    /\ \A u \in Uids : Cardinality(SubscribedBy(u)) <= PerUidCap

\* stream_warn_events, "the ack provably implies the subscriber is in the
\* broadcast list"; and an entry of the list always has a handler that will
\* take it out again.
ListedWhileStreaming ==
    \A c \in Conns :
        /\ pc[c] = "stream" => c \in subs
        /\ c \in subs => pc[c] \in {"ack", "stream", "deregister"}

\* s[i] is what the first i messages of q are worth.
Tallies(s, q) == s[0] = 0 /\ \A i \in 1..Len(q) : s[i] = s[i - 1] + Worth(q[i])

\* broadcast: an event that matches a subscriber is on its way to it or
\* counted in a WarnDropped notice that is sent, on its way or due.  A full
\* channel loses no count, also when the notice takes the last place.
NothingLostSilently ==
    \A c \in subs : \E s \in [0..Len(inbox[c]) -> 0..offered[c]] :
        /\ Tallies(s, inbox[c])
        /\ offered[c] = told[c] + s[Len(inbox[c])] + dropped[c]

\* The poll of a quiet stream, and every early return: a connection whose
\* peer is gone gives everything back, with or without events flowing.
DeadPeersReleased == \A c \in Conns : peer[c] = "closed" ~> pc[c] = "none"

=============================================================================
