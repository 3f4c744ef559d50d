----------------------------- MODULE MeshRouter -----------------------------
(***************************************************************************)
(* Outbound delivery in kerykeion: MeshRouter over its three parts, the    *)
(* OutboundQueue (pending, inflight), the StoreForward queues of offline   *)
(* destinations and the DeliveryTracker (records, dest_stats), together    *)
(* with the two tasks of the collector that share it behind one mutex: the *)
(* flush task (run_router_flush) and the packet loop, which applies every  *)
(* ACK and NAK (dispatch_routing).                                         *)
(*                                                                         *)
(* The flush task holds the router's lock while it handles timeouts, runs  *)
(* the maintenance passes and collects the batch to send; it holds no lock *)
(* while it transmits, and takes it again for each track_sent.  Everything *)
(* another task may do in between is an action that needs the lock free.   *)
(*                                                                         *)
(* Clocks are abstracted to the three comparisons the code makes: a        *)
(* message's TTL has passed (expired), an inflight message's ACK timeout   *)
(* has passed (its field late), a record's max age has passed (aged).      *)
(* Packet ids are unique: PacketIdGenerator hands out each one once.       *)
(* The retry counters and latency sums, which no guard reads, are left     *)
(* out.                                                                    *)
(***************************************************************************)
EXTENDS Integers, Sequences, FiniteSets, SequencesExt, FiniteSetsExt

CONSTANTS
    Packet,            \* packet ids
    Node,              \* destination nodes
    Dest,              \* Dest[id]: the packet's `to` field
    OptionPriority,    \* OptionPriority[id]: SendOptions::priority
    PacketPriority,    \* PacketPriority[id]: the packet's own `priority` field
    MaxInflight,       \* OutboundConfig::max_inflight
    MaxPending,        \* OutboundConfig::max_pending
    MaxRetries,        \* OutboundConfig::max_retries
    MaxQueuePerDest,   \* StoreForwardConfig::max_queue_per_dest
    MaxDestinations,   \* store_forward::MAX_DESTINATIONS
    MaxReplies         \* bound: ACKs and NAKs the mesh delivers

ASSUME PacketAssumption ==
    /\ IsFiniteSet(Packet)
    /\ Dest \in [Packet -> Node]
    /\ OptionPriority \in [Packet -> Int]
    /\ PacketPriority \in [Packet -> Int]

ASSUME LimitAssumption ==
    /\ MaxInflight \in Nat \ {0}
    /\ MaxPending \in Nat \ {0}
    /\ MaxRetries \in Nat
    /\ MaxQueuePerDest \in Nat \ {0}
    /\ MaxDestinations \in Nat \ {0}
    /\ MaxReplies \in Nat

VARIABLES
    pending,       \* OutboundQueue::pending, front first
    inflight,      \* OutboundQueue::inflight, keyed by the id of its messages
    stored,        \* StoreForward::queues; no messages, no key
    status,        \* DeliveryTracker::records, "None" where there is no record
    stats,         \* DeliveryTracker::dest_stats
    expired,       \* packets whose TTL has passed
    aged,          \* packets whose record is older than record_max_age
    flush,         \* run_router_flush: where it is, its timed_out and its batch
    sent,          \* ghost: packets that MeshRouter::send accepted
    transmissions, \* ghost: how often each packet was handed to the radio
    aired,         \* ghost: packets a node on the mesh may answer
    stray,         \* ghost: packets answered while not inflight (see ack, nak)
    replies        \* ghost: how many answers have been delivered

router == <<pending, inflight, stored, status, stats>>
clocks == <<expired, aged>>
ghosts == <<sent, transmissions, aired, stray, replies>>
vars == <<router, clocks, flush, ghosts>>

PendingMessage == [id : Packet, retries : Nat, priority : Int]
InflightMessage == [id : Packet, retries : Nat, late : BOOLEAN]
DeliveryStatus == {"None", "Queued", "Sent", "Acknowledged", "Failed", "Expired"}
DestStats == [attempted : Nat, acknowledged : Nat, failed : Nat]
FlushTask ==
    [pc : {"idle", "timeouts", "drain", "send", "track"},
     due : SUBSET Packet, batch : Seq(PendingMessage)]

Ids(messages) == {m.id : m \in messages}
IdsIn(queue) == Ids(Range(queue))
Active(s) == s \in {"Queued", "Sent"}

\* The router's mutex is free: the flush task holds it from the tick until the
\* batch is collected.
Unlocked == flush.pc \notin {"timeouts", "drain"}

-----------------------------------------------------------------------------
(* OutboundQueue *)

remaining_capacity == MaxPending - Len(pending)

\* Mutant: the comparison with its operands swapped.
InsertByPriority_reversed(queue, msg) ==
    LET i == SelectInSeq(queue, LAMBDA m : m.priority > msg.priority)
    IN IF i = 0 THEN Append(queue, msg) ELSE InsertAt(queue, i, msg)

\* Ahead of the first message of lower priority, behind all others.
InsertByPriority(queue, msg) ==
    LET i == SelectInSeq(queue, LAMBDA m : m.priority < msg.priority)
    IN IF i = 0 THEN Append(queue, msg) ELSE InsertAt(queue, i, msg)

\* Mutant: the capacity check is gone.
enqueue_unbounded(msg) ==
    pending' = InsertByPriority(pending, msg)

enqueue(msg) ==
    /\ remaining_capacity > 0
    /\ pending' = InsertByPriority(pending, msg)

\* Mutant: a lookup that leaves the message inflight.
InflightWithout_get(id) ==
    inflight

\* inflight.remove(&id)
InflightWithout(id) ==
    {m \in inflight : m.id # id}

\* Mutant: the retry limit is off by one.
Retriable_extra(id) ==
    {m \in inflight : m.id = id /\ m.retries <= MaxRetries /\ remaining_capacity > 0}

\* The message that retry(id) will put back, if any: it is inflight, has a
\* retry left, and the queue has room.
Retriable(id) ==
    {m \in inflight : m.id = id /\ m.retries < MaxRetries /\ remaining_capacity > 0}

\* The message leaves inflight in every case; it is enqueued again with the
\* packet's own priority, not the one it was sent with.
retry(id) ==
    /\ inflight' = InflightWithout(id)
    /\ \/ \E m \in Retriable(id) :
            enqueue([id |-> id, retries |-> m.retries + 1,
                     priority |-> PacketPriority[id]])
       \/ Retriable(id) = {} /\ UNCHANGED pending

-----------------------------------------------------------------------------
(* StoreForward.  A stored message keeps the priority it was sent with. *)

Destinations == {d \in Node : stored[d] # << >>}

\* The first message of the lowest priority in a queue.
Lowest(queue) ==
    SelectInSeq(queue, LAMBDA id :
        \A other \in Range(queue) : OptionPriority[id] <= OptionPriority[other])

\* A new destination needs a free key; a full queue makes room only for a
\* message of strictly higher priority than its lowest one.
CanStore(d, id) ==
    /\ stored[d] # << >> \/ Cardinality(Destinations) < MaxDestinations
    /\ \/ Len(stored[d]) < MaxQueuePerDest
       \/ \E other \in Range(stored[d]) : OptionPriority[id] > OptionPriority[other]

store(d, id) ==
    /\ CanStore(d, id)
    /\ LET queue == IF Len(stored[d]) < MaxQueuePerDest
                      THEN stored[d]
                      ELSE RemoveAt(stored[d], Lowest(stored[d]))
       IN stored' = [stored EXCEPT ![d] = Append(queue, id)]

prune_expired ==
    stored' = [d \in Node |-> SelectSeq(stored[d], LAMBDA id : id \notin expired)]

-----------------------------------------------------------------------------
(* DeliveryTracker *)

track(id) ==
    /\ status' = [status EXCEPT ![id] = "Queued"]
    /\ stats' = [stats EXCEPT ![Dest[id]].attempted = @ + 1]

\* Whatever the record's status is, a missing record apart.
mark_sent(id) ==
    status' = [status EXCEPT ![id] = IF @ = "None" THEN "None" ELSE "Sent"]

\* Mutant: the failure a late ACK disproves is not taken back.
Reconciled_never(id) ==
    0

\* Mutant: a failure is taken back whether or not one was counted.
Reconciled_always(id) ==
    1

\* A late ACK of a Failed or Expired record takes back its failure, saturating.
Reconciled(id) ==
    IF Active(status[id]) \/ stats[Dest[id]].failed = 0 THEN 0 ELSE 1

\* Duplicate ACKs of an Acknowledged record change nothing.
mark_acknowledged(id) ==
    IF status[id] \in {"None", "Acknowledged"}
      THEN UNCHANGED <<status, stats>>
      ELSE /\ status' = [status EXCEPT ![id] = "Acknowledged"]
           /\ stats' = [stats EXCEPT ![Dest[id]] =
                          [@ EXCEPT !.acknowledged = @ + 1,
                                    !.failed = @ - Reconciled(id)]]

mark_failed(id) ==
    IF status[id] = "None"
      THEN UNCHANGED <<status, stats>>
      ELSE /\ status' = [status EXCEPT ![id] = "Failed"]
           /\ stats' = [stats EXCEPT ![Dest[id]].failed = @ + 1]

\* Mutant: prune_completed alone, which keeps every active record (#244).
expire_and_prune_completed ==
    /\ status' = [id \in Packet |->
                    IF id \in aged /\ ~Active(status[id]) THEN "None" ELSE status[id]]
    /\ UNCHANGED stats

\* expire_stale counts the active records at their max age as failed; then
\* prune_completed, with the same max age, releases those together with the
\* other completed ones.
expire_and_prune ==
    /\ status' = [id \in Packet |-> IF id \in aged THEN "None" ELSE status[id]]
    /\ stats' = [d \in Node |->
                   [stats[d] EXCEPT !.failed = @ + Cardinality(
                      {id \in aged : Dest[id] = d /\ Active(status[id])})]]

-----------------------------------------------------------------------------
(* MeshRouter and its callers *)

\* send with reachable = true.  A full queue is reported and changes nothing.
send_reachable(id) ==
    /\ Unlocked
    /\ id \notin sent
    /\ enqueue([id |-> id, retries |-> 0, priority |-> OptionPriority[id]])
    /\ track(id)
    /\ sent' = sent \cup {id}
    /\ UNCHANGED <<inflight, stored, clocks, flush, transmissions, aired, stray, replies>>

\* send with reachable = false.  A refused store is reported and changes nothing.
send_unreachable(id) ==
    /\ Unlocked
    /\ id \notin sent
    /\ store(Dest[id], id)
    /\ track(id)
    /\ sent' = sent \cup {id}
    /\ UNCHANGED <<pending, inflight, clocks, flush, transmissions, aired, stray, replies>>

\* Mutant: everything is drained, and what the queue refuses is dropped.
Deferred_dropped(queue, n) ==
    << >>

\* Mutant: what is drained also stays.
Deferred_kept(queue, n) ==
    queue

\* What split_off leaves for store-and-forward.
Deferred(queue, n) ==
    SubSeq(queue, n + 1, Len(queue))

\* As many messages as fit move to pending with a fresh TTL, oldest first; the
\* rest are stored again.
node_came_online(d) ==
    LET n == Min({Len(stored[d]), remaining_capacity})
        moved == SubSeq(stored[d], 1, n)
        Enqueue(queue, id) ==
            InsertByPriority(queue, [id |-> id, retries |-> 0,
                                     priority |-> OptionPriority[id]])
    IN /\ Unlocked
       /\ stored[d] # << >>
       /\ pending' = FoldLeft(Enqueue, pending, moved)
       /\ stored' = [stored EXCEPT ![d] = Deferred(@, n)]
       /\ expired' = expired \ Range(moved)
       /\ UNCHANGED <<inflight, status, stats, aged, flush, ghosts>>

\* The packet loop's dispatch_routing for an ACK.  It is stray when the message
\* is queued for (another) transmission, or on its way to track_sent.
ack(id) ==
    /\ Unlocked
    /\ id \in aired
    /\ replies < MaxReplies
    /\ replies' = replies + 1
    /\ inflight' = InflightWithout(id)
    /\ mark_acknowledged(id)
    /\ stray' = IF id \in IdsIn(pending) \cup IdsIn(flush.batch)
                  THEN stray \cup {id} ELSE stray
    /\ UNCHANGED <<pending, stored, clocks, flush, sent, transmissions, aired>>

\* The same for a NAK, or for a routing error code this build does not know.
\* It is stray when the message is not inflight.
nak(id) ==
    /\ Unlocked
    /\ id \in aired
    /\ replies < MaxReplies
    /\ replies' = replies + 1
    /\ retry(id)
    /\ IF Retriable(id) # {} THEN UNCHANGED <<status, stats>> ELSE mark_failed(id)
    /\ stray' = IF id \in Ids(inflight) THEN stray ELSE stray \cup {id}
    /\ UNCHANGED <<stored, clocks, flush, sent, transmissions, aired>>

-----------------------------------------------------------------------------
(* run_router_flush *)

\* The interval ticks: the lock is taken and check_timeouts lists what is late.
tick ==
    /\ flush.pc = "idle"
    /\ flush' = [flush EXCEPT !.pc = "timeouts", !.due = Ids({m \in inflight : m.late})]
    /\ UNCHANGED <<router, clocks, ghosts>>

\* process_timeouts, one of the listed ids at a time, in any order.
process_timeout(id) ==
    /\ flush.pc = "timeouts"
    /\ id \in flush.due
    /\ flush' = [flush EXCEPT !.due = @ \ {id}]
    /\ retry(id)
    /\ IF Retriable(id) # {} THEN UNCHANGED <<status, stats>> ELSE mark_failed(id)
    /\ UNCHANGED <<stored, clocks, ghosts>>

drain_expired ==
    /\ pending' = SelectSeq(pending, LAMBDA m : m.id \notin expired)
    /\ inflight' = {m \in inflight : m.id \notin expired}

\* Whatever has expired or aged is gone afterwards, and so are its clocks.
run_maintenance ==
    /\ flush.pc = "timeouts"
    /\ flush.due = {}
    /\ flush' = [flush EXCEPT !.pc = "drain"]
    /\ expire_and_prune
    /\ prune_expired
    /\ drain_expired
    /\ expired' = {}
    /\ aged' = {}
    /\ UNCHANGED ghosts

AtInflightLimit ==
    Cardinality(inflight) >= MaxInflight

\* One next_to_send of the collecting loop: the first message that has not
\* expired joins the batch, the expired ones before it are dropped.
next_to_send ==
    LET i == SelectInSeq(pending, LAMBDA m : m.id \notin expired)
    IN /\ flush.pc = "drain"
       /\ ~AtInflightLimit
       /\ i # 0
       /\ pending' = SubSeq(pending, i + 1, Len(pending))
       /\ flush' = [flush EXCEPT !.batch = Append(@, pending[i])]
       /\ mark_sent(pending[i].id)
       /\ UNCHANGED <<inflight, stored, stats, clocks, ghosts>>

\* The next_to_send that returns None: inflight is full, or nothing unexpired is
\* pending and what has expired is dropped.  The lock is released.
nothing_to_send ==
    /\ flush.pc = "drain"
    /\ \/ AtInflightLimit /\ UNCHANGED pending
       \/ /\ ~AtInflightLimit
          /\ IdsIn(pending) \subseteq expired
          /\ pending' = << >>
    /\ flush' = [flush EXCEPT !.pc = IF flush.batch = << >> THEN "idle" ELSE "send"]
    /\ UNCHANGED <<inflight, stored, status, stats, clocks, ghosts>>

\* conn.send of the first message of the batch, without the router's lock.
\* After an error the radio may have sent the packet or not.
transmit ==
    /\ flush.pc = "send"
    /\ LET id == Head(flush.batch).id
       IN /\ transmissions' = [transmissions EXCEPT ![id] = @ + 1]
          /\ aired' \in {aired, aired \cup {id}}
    /\ flush' = [flush EXCEPT !.pc = "track"]
    /\ UNCHANGED <<router, clocks, sent, stray, replies>>

\* track_sent, after a send error too; the next message, or the end of the tick.
track_sent ==
    /\ flush.pc = "track"
    /\ LET msg == Head(flush.batch)
       IN inflight' = InflightWithout(msg.id)
                        \cup {[id |-> msg.id, retries |-> msg.retries, late |-> FALSE]}
    /\ flush' = [flush EXCEPT !.batch = Tail(@),
                              !.pc = IF Len(flush.batch) = 1 THEN "idle" ELSE "send"]
    /\ UNCHANGED <<pending, stored, status, stats, clocks, ghosts>>

-----------------------------------------------------------------------------
(* The clocks.  An ACK timeout that passes while the flush task holds the     *)
(* lock is seen after it: process_timeouts has listed what is late already.   *)

Queued == IdsIn(pending) \cup IdsIn(flush.batch) \cup UNION {Range(stored[d]) : d \in Node}
Held == Queued \cup Ids(inflight)

ttl_passes(id) ==
    /\ id \in Held \ expired
    /\ expired' = expired \cup {id}
    /\ UNCHANGED <<router, aged, flush, ghosts>>

ack_timeout_passes(id) ==
    /\ Unlocked
    /\ \E m \in inflight :
        /\ m.id = id
        /\ ~m.late
        /\ inflight' = InflightWithout(id) \cup {[m EXCEPT !.late = TRUE]}
    /\ UNCHANGED <<pending, stored, status, stats, clocks, flush, ghosts>>

record_ages(id) ==
    /\ status[id] # "None"
    /\ id \notin aged
    /\ aged' = aged \cup {id}
    /\ UNCHANGED <<router, expired, flush, ghosts>>

-----------------------------------------------------------------------------
Init ==
    /\ pending = << >>
    /\ inflight = {}
    /\ stored = [d \in Node |-> << >>]
    /\ status = [id \in Packet |-> "None"]
    /\ stats = [d \in Node |-> [attempted |-> 0, acknowledged |-> 0, failed |-> 0]]
    /\ expired = {}
    /\ aged = {}
    /\ flush = [pc |-> "idle", due |-> {}, batch |-> << >>]
    /\ sent = {}
    /\ transmissions = [id \in Packet |-> 0]
    /\ aired = {}
    /\ stray = {}
    /\ replies = 0

Flush ==
    \/ tick
    \/ \E id \in Packet : process_timeout(id)
    \/ run_maintenance
    \/ next_to_send
    \/ nothing_to_send
    \/ transmit
    \/ track_sent

Next ==
    \/ \E id \in Packet : send_reachable(id)
    \/ \E id \in Packet : send_unreachable(id)
    \/ \E d \in Node : node_came_online(d)
    \/ \E id \in Packet : ack(id)
    \/ \E id \in Packet : nak(id)
    \/ Flush
    \/ \E id \in Packet : ttl_passes(id)
    \/ \E id \in Packet : ack_timeout_passes(id)
    \/ \E id \in Packet : record_ages(id)

\* The flush task is driven by a tokio interval and never waits for ever (the
\* connection's send returns or fails), and time passes.
Fairness ==
    /\ WF_vars(Flush)
    /\ \A id \in Packet : WF_vars(ttl_passes(id)) /\ WF_vars(record_ages(id))

Spec == Init /\ [][Next]_vars

FairSpec == Spec /\ Fairness

-----------------------------------------------------------------------------
(* Properties *)

\* Every variable has its type: the statistics, which a late ACK decrements,
\* never leave the naturals.
TypeOK ==
    /\ pending \in Seq(PendingMessage)
    /\ inflight \in SUBSET InflightMessage
    /\ stored \in [Node -> Seq(Packet)]
    /\ status \in [Packet -> DeliveryStatus]
    /\ stats \in [Node -> DestStats]
    /\ expired \in SUBSET Packet
    /\ aged \in SUBSET Packet
    /\ flush \in FlushTask
    /\ sent \in SUBSET Packet
    /\ transmissions \in [Packet -> Nat]
    /\ aired \in SUBSET Packet
    /\ stray \in SUBSET Packet
    /\ replies \in 0..MaxReplies

\* Every queue keeps to its limit: pending to max_pending, a destination's queue
\* to max_queue_per_dest, the destinations to MAX_DESTINATIONS; and messages
\* awaiting an ACK, or collected to be sent, to what one flush can add: the
\* pending queue on top of fewer than max_inflight.
QueueBounds ==
    /\ Len(pending) <= MaxPending
    /\ \A d \in Node : Len(stored[d]) <= MaxQueuePerDest
    /\ Cardinality(Destinations) <= MaxDestinations
    /\ Cardinality(inflight) + Len(flush.batch) < MaxInflight + MaxPending

\* A packet has at most one copy in the router: it is stored, pending, in the
\* batch being sent or inflight, never in two of these, although timeouts, NAKs,
\* node_came_online and the flush task all move it while ACKs arrive.
OneCopy ==
    LET copies == pending \o flush.batch
    IN /\ \A i, j \in DOMAIN copies : copies[i].id = copies[j].id => i = j
       /\ \A m, n \in inflight : m.id = n.id => m = n
       /\ IdsIn(copies) \cap Ids(inflight) = {}
       /\ \A d \in Node :
            /\ IsInjective(stored[d])
            /\ Range(stored[d]) \cap (IdsIn(copies) \cup Ids(inflight)) = {}
            /\ \A e \in Node \ {d} : Range(stored[d]) \cap Range(stored[e]) = {}

\* No packet is handed to the radio more than 1 + max_retries times, whatever
\* the mesh answers and whenever the answers arrive.
RetryBound ==
    \A id \in Packet : transmissions[id] <= MaxRetries + 1

\* Pending messages leave by priority: enqueue keeps the queue sorted under
\* retries, which may change a message's priority, and under node_came_online, and
\* next_to_send and drain_expired preserve it.
PrioritySorted ==
    \A i, j \in DOMAIN pending : i < j => pending[i].priority >= pending[j].priority

\* The statistics of a destination add up as long as no answer was stray: every
\* attempted message is acknowledged, failed or has an active record, late ACKs
\* of failed messages included.
StatsAddUp ==
    \A d \in Node :
        (\A id \in stray : Dest[id] # d) =>
            stats[d].attempted = stats[d].acknowledged + stats[d].failed
                + Cardinality({id \in Packet : Dest[id] = d /\ Active(status[id])})

\* A message leaves the router only for a reason its sender can learn or has
\* asked for: it is acknowledged or failed, its TTL has passed, its record is
\* gone, or a message of higher priority took its place in a full queue.
\* node_came_online "delays delivery rather than losing it".
NoSilentLoss ==
    [][\A id \in Held :
         id \notin Held' =>
            \/ id \in expired
            \/ status'[id] \in {"Acknowledged", "Failed"}
            \/ status[id] = "None"
            \/ \E other \in Packet :
                 /\ Dest[other] = Dest[id]
                 /\ OptionPriority[other] > OptionPriority[id]
                 /\ other \in Held' \ Held]_vars

\* Nothing is kept for ever (#244): every message the router accepts leaves its
\* queues, and its delivery record is released, whether or not it is answered.
EverythingReleased ==
    \A id \in Packet : (id \in sent) ~> [](id \notin Held /\ status[id] = "None")

\* What DestStats::success_rate documents: a fraction between 0 and 1.
SuccessRateIsFraction ==
    \A d \in Node : stats[d].acknowledged <= stats[d].attempted

\* What OutboundConfig::max_inflight documents: the maximum number of concurrent
\* inflight messages.
InflightLimit ==
    Cardinality(inflight) <= MaxInflight

=============================================================================
