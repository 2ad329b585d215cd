--------------------------- MODULE OutboxDelivery ---------------------------
(***************************************************************************)
(* queueing/outbox.py and queueing/worker.py: the path of a job from the   *)
(* outbox row that its creation commits, through the publishers and the    *)
(* broker, to the one committed execution of its handler.                  *)
(*                                                                         *)
(* A publisher leases rows in one transaction and publishes each in a      *)
(* later one; it can crash anywhere, be slower than its lease, and be      *)
(* refused by the broker.  A worker reads the receipt, runs the handler    *)
(* and commits handler and receipt together; it can die before or after    *)
(* that commit, and the broker then delivers again.                        *)
(***************************************************************************)
EXTENDS Naturals, FiniteSets

CONSTANTS
    OutboxEvent,    \* the outbox rows, one per job
    Publisher,      \* processes that run publish_batch
    Worker,         \* Celery worker processes
    NoEvent,
    MaxRetry,       \* Celery's max_retries for one message (5)
    MaxFaults       \* bound: slow leases, unclear refusals, crashes

ASSUME OutboxAssumption ==
    /\ MaxRetry \in Nat /\ MaxFaults \in Nat
    /\ NoEvent \notin OutboxEvent

VARIABLES
    \* the outbox row of an event
    created,    \* the events whose job and row are committed
    published,  \* the events with published_at set
    due,        \* the events with available_at in the past
    lease,      \* lease[e]: locked_until, "none", "held" or "expired"
    \* the publishers
    pub,        \* pub[p]: where p is in publish_batch
    \* the broker and its workers
    queue,      \* queue[e][r]: copies of e's message waiting, in their r-th retry
    worker,     \* worker[w]: where w is in execute_once
    dropped,    \* events of which a message ran out of retries
    \* the worker's side of the database
    receipts,   \* the events with a worker_deliveries row
    effects,    \* effects[e]: how often a handler's writes for e committed
    \* bookkeeping of the environment
    faults,     \* how many faults have happened
    overrun     \* the events a publisher kept working on past its lease

outbox == <<created, published, due, lease>>
delivery == <<queue, worker, dropped, receipts, effects>>
vars == <<outbox, pub, delivery, faults, overrun>>

Idle == [pc |-> "idle", batch |-> {}, event |-> NoEvent, locked |-> FALSE]
Resting == [pc |-> "idle", event |-> NoEvent, retry |-> 0]

Works(p, e) == e \in pub[p].batch

Init ==
    /\ created = {} /\ published = {} /\ due = {}
    /\ lease = [e \in OutboxEvent |-> "none"]
    /\ pub = [p \in Publisher |-> Idle]
    /\ queue = [e \in OutboxEvent |-> [r \in 0..MaxRetry |-> 0]]
    /\ worker = [w \in Worker |-> Resting]
    /\ dropped = {} /\ receipts = {}
    /\ effects = [e \in OutboxEvent |-> 0]
    /\ faults = 0 /\ overrun = {}

Fault == faults < MaxFaults /\ faults' = faults + 1
-----------------------------------------------------------------------------
(* create_job_with_outbox(): the job and its event commit together.        *)
CreateJob(e) ==
    /\ e \notin created
    /\ created' = created \cup {e}
    /\ due' = due \cup {e}
    /\ UNCHANGED <<published, lease, pub, delivery, faults, overrun>>

(* The backoff of a refused event runs out.                                *)
BecomesDue(e) ==
    /\ e \in created \ due
    /\ due' = due \cup {e}
    /\ UNCHANGED <<created, published, lease, pub, delivery, faults, overrun>>

(* The lease of an event runs out.  It takes a fault for that to happen    *)
(* while a publisher still works on the event.                             *)
LeaseExpires(e) ==
    /\ lease[e] = "held"
    /\ lease' = [lease EXCEPT ![e] = "expired"]
    /\ IF \E p \in Publisher : Works(p, e)
       THEN Fault /\ overrun' = overrun \cup {e}
       ELSE UNCHANGED <<faults, overrun>>
    /\ UNCHANGED <<created, published, due, pub, delivery>>

(* Fault: a row whose lease ran out is never taken again.                  *)
StuckAvailable == {e \in created : e \notin published /\ e \in due /\ lease[e] = "none"}

Available == {e \in created : e \notin published /\ e \in due /\ lease[e] # "held"}

(* A publisher that has these events still before it.                      *)
With(batch) == [pc |-> IF batch = {} THEN "idle" ELSE "batch", batch |-> batch,
                event |-> NoEvent, locked |-> FALSE]

(* The first transaction of publish_batch(): lease every available row.    *)
SelectBatch(p) ==
    /\ pub[p].pc = "idle"
    /\ Available # {}
    /\ pub' = [pub EXCEPT ![p] = With(Available)]
    /\ lease' = [e \in OutboxEvent |-> IF e \in Available THEN "held" ELSE lease[e]]
    /\ UNCHANGED <<created, published, due, delivery, faults, overrun>>

(* p is through with the event; with an empty batch it is idle again.      *)
Without(p, e) == With(pub[p].batch \ {e})

(* The next event of the batch is read again, without a lock.              *)
SkipPublished(p, e) ==
    /\ pub[p].pc = "batch" /\ e \in pub[p].batch
    /\ e \in published
    /\ pub' = [pub EXCEPT ![p] = Without(p, e)]
    /\ UNCHANGED <<outbox, delivery, faults, overrun>>

ReadEvent(p, e) ==
    /\ pub[p].pc = "batch" /\ e \in pub[p].batch
    /\ e \notin published
    /\ pub' = [pub EXCEPT ![p] = [pc |-> "publish", batch |-> @.batch, event |-> e,
                                  locked |-> lease[e] # "none"]]
    /\ UNCHANGED <<outbox, delivery, faults, overrun>>

(* dispatcher.publish() returns, or raises; an exception does not always   *)
(* mean that the broker did not take the message.                          *)
Publish(p) ==
    /\ pub[p].pc = "publish"
    /\ queue' = [queue EXCEPT ![pub[p].event][0] = @ + 1]
    /\ pub' = [pub EXCEPT ![p].pc = "sent"]
    /\ UNCHANGED <<outbox, worker, dropped, receipts, effects, faults, overrun>>

PublishRaises(p) ==
    /\ pub[p].pc = "publish"
    /\ pub' = [pub EXCEPT ![p].pc = "refused"]
    /\ \/ UNCHANGED <<queue, faults>>
       \/ Fault /\ queue' = [queue EXCEPT ![pub[p].event][0] = @ + 1]
    /\ UNCHANGED <<outbox, worker, dropped, receipts, effects, overrun>>

(* The lease is cleared if the row carried one when it was read: the unit  *)
(* of work writes the columns that differ from what it loaded.             *)
Unlocked(p) ==
    IF pub[p].locked THEN [lease EXCEPT ![pub[p].event] = "none"] ELSE lease

(* Fault: the row is marked as published whatever the broker answered.     *)
FaultyCommitRefused(p) ==
    /\ pub[p].pc = "refused"
    /\ published' = published \cup {pub[p].event}
    /\ lease' = Unlocked(p)
    /\ pub' = [pub EXCEPT ![p] = Without(p, pub[p].event)]
    /\ UNCHANGED <<created, due, delivery, faults, overrun>>

(* The event is put off by its backoff and unlocked for the next batch.    *)
CommitRefused(p) ==
    /\ pub[p].pc = "refused"
    /\ due' = due \ {pub[p].event}
    /\ lease' = Unlocked(p)
    /\ pub' = [pub EXCEPT ![p] = Without(p, pub[p].event)]
    /\ UNCHANGED <<created, published, delivery, faults, overrun>>

CommitSent(p) ==
    /\ pub[p].pc = "sent"
    /\ published' = published \cup {pub[p].event}
    /\ lease' = Unlocked(p)
    /\ pub' = [pub EXCEPT ![p] = Without(p, pub[p].event)]
    /\ UNCHANGED <<created, due, delivery, faults, overrun>>

(* The process dies; whatever it had leased stays leased.                  *)
PublisherCrash(p) ==
    /\ pub[p].pc # "idle"
    /\ Fault
    /\ pub' = [pub EXCEPT ![p] = Idle]
    /\ UNCHANGED <<outbox, delivery, overrun>>
-----------------------------------------------------------------------------
(* The broker hands a message to a worker and keeps it until it is         *)
(* acknowledged (late acknowledgement, prefetch of one).                   *)
Deliver(w, e, r) ==
    /\ worker[w].pc = "idle"
    /\ queue[e][r] > 0
    /\ queue' = [queue EXCEPT ![e][r] = @ - 1]
    /\ worker' = [worker EXCEPT ![w] = [pc |-> "received", event |-> e, retry |-> r]]
    /\ UNCHANGED <<outbox, pub, dropped, receipts, effects, faults, overrun>>

(* execute_once() reads the receipt; without one it runs the handler.      *)
ReadReceipt(w) ==
    /\ worker[w].pc = "received"
    /\ worker' = [worker EXCEPT ![w].pc =
                     IF worker[w].event \in receipts THEN "done" ELSE "handling"]
    /\ UNCHANGED <<outbox, pub, queue, dropped, receipts, effects, faults, overrun>>

(* Fault: the unique constraint on (event_id, consumer) is missing.        *)
FaultyFirstCommit(e) == TRUE
FirstCommit(e) == e \notin receipts

(* The handler's writes and the receipt commit together, or the unique     *)
(* constraint on the receipt rolls both back.                              *)
CommitHandler(w) ==
    LET e == worker[w].event IN
    /\ worker[w].pc = "handling"
    /\ receipts' = receipts \cup {e}
    /\ effects' = IF FirstCommit(e) THEN [effects EXCEPT ![e] = @ + 1] ELSE effects
    /\ worker' = [worker EXCEPT ![w].pc = "done"]
    /\ UNCHANGED <<outbox, pub, queue, dropped, faults, overrun>>

(* The handler raises: its writes are rolled back and Celery sends the     *)
(* message again, until max_retries; after that the message is rejected    *)
(* without being queued again.                                             *)
HandlerRaises(w) ==
    LET e == worker[w].event
        r == worker[w].retry IN
    /\ worker[w].pc = "handling"
    /\ IF r < MaxRetry
       THEN queue' = [queue EXCEPT ![e][r + 1] = @ + 1] /\ UNCHANGED dropped
       ELSE dropped' = dropped \cup {e} /\ UNCHANGED queue
    /\ worker' = [worker EXCEPT ![w] = Resting]
    /\ UNCHANGED <<outbox, pub, receipts, effects, faults, overrun>>

Acknowledge(w) ==
    /\ worker[w].pc = "done"
    /\ worker' = [worker EXCEPT ![w] = Resting]
    /\ UNCHANGED <<outbox, pub, queue, dropped, receipts, effects, faults, overrun>>

(* Fault: the message is acknowledged on receipt, so the broker forgets it. *)
FaultyRequeued(w) == queue
Requeued(w) == [queue EXCEPT ![worker[w].event][worker[w].retry] = @ + 1]

(* The worker process is lost before it acknowledged.                      *)
WorkerLost(w) ==
    /\ worker[w].pc # "idle"
    /\ Fault
    /\ queue' = Requeued(w)
    /\ worker' = [worker EXCEPT ![w] = Resting]
    /\ UNCHANGED <<outbox, pub, dropped, receipts, effects, overrun>>
-----------------------------------------------------------------------------
PublisherStep(p) ==
    \/ SelectBatch(p)
    \/ \E e \in OutboxEvent : SkipPublished(p, e) \/ ReadEvent(p, e)
    \/ Publish(p) \/ CommitRefused(p) \/ CommitSent(p)

WorkerStep(w) ==
    \/ \E e \in OutboxEvent, r \in 0..MaxRetry : Deliver(w, e, r)
    \/ ReadReceipt(w) \/ CommitHandler(w) \/ Acknowledge(w)

Clock(e) == BecomesDue(e) \/ LeaseExpires(e)

Next ==
    \/ \E e \in OutboxEvent : CreateJob(e) \/ Clock(e)
    \/ \E p \in Publisher : PublisherStep(p) \/ PublishRaises(p) \/ PublisherCrash(p)
    \/ \E w \in Worker : WorkerStep(w) \/ HandlerRaises(w) \/ WorkerLost(w)

Spec == Init /\ [][Next]_vars

(* Publishers and workers are restarted and keep taking steps, time        *)
(* passes, and a broker that is asked again and again answers some day.    *)
(* Nothing makes a handler succeed or a publisher call in time.            *)
Fairness ==
    /\ \A e \in OutboxEvent : WF_vars(Clock(e))
    /\ \A p \in Publisher : WF_vars(PublisherStep(p)) /\ SF_vars(Publish(p))
    /\ \A w \in Worker : WF_vars(WorkerStep(w))

FairSpec == Spec /\ Fairness
-----------------------------------------------------------------------------
TypeOK ==
    /\ created \subseteq OutboxEvent /\ published \subseteq created
    /\ due \subseteq created
    /\ lease \in [OutboxEvent -> {"none", "held", "expired"}]
    /\ pub \in [Publisher -> [pc : {"idle", "batch", "publish", "sent", "refused"},
                              batch : SUBSET OutboxEvent,
                              event : OutboxEvent \cup {NoEvent},
                              locked : BOOLEAN]]
    /\ queue \in [OutboxEvent -> [0..MaxRetry -> Nat]]
    /\ worker \in [Worker -> [pc : {"idle", "received", "handling", "done"},
                              event : OutboxEvent \cup {NoEvent},
                              retry : 0..MaxRetry]]
    /\ dropped \subseteq OutboxEvent /\ receipts \subseteq OutboxEvent
    /\ effects \in [OutboxEvent -> Nat]
    /\ faults \in 0..MaxFaults /\ overrun \subseteq OutboxEvent

(* A repeated delivery "does not create double results" (BE-06 PLAN.md):   *)
(* with duplicates from publishers and from the broker in several workers  *)
(* at once, the handler's writes commit once, together with the receipt.   *)
ExecutedOnce ==
    \A e \in OutboxEvent : effects[e] = IF e \in receipts THEN 1 ELSE 0

(* No job is lost between the database and the broker: an event marked as  *)
(* published was executed, or a message of it is waiting or with a worker, *)
(* or one ran out of retries.                                              *)
Underway(e) ==
    \/ \E r \in 0..MaxRetry : queue[e][r] > 0
    \/ \E w \in Worker : worker[w].pc # "idle" /\ worker[w].event = e

NothingVanishes ==
    \A e \in published : e \in receipts \/ e \in dropped \/ Underway(e)

(* The leases keep publishers apart: as long as no publisher has overrun   *)
(* its lease on an event, only one of them has the event in its batch, and *)
(* the row says so.                                                        *)
LeaseExcludes ==
    \A e \in OutboxEvent \ overrun :
        /\ \A p, q \in Publisher : Works(p, e) /\ Works(q, e) => p = q
        /\ \A p \in Publisher : Works(p, e) => lease[e] = "held" \/ e \in published

(* "The outbox survives a temporary outage of RabbitMQ" (BE-06 PLAN.md):   *)
(* every committed event is published, through refusals, overrun leases    *)
(* and crashed publishers.                                                 *)
EventuallyPublished == \A e \in OutboxEvent : e \in created ~> e \in published

(* Every published event is executed, or given up after its retries.       *)
EventuallyHandled ==
    \A e \in OutboxEvent : e \in published ~> e \in receipts \cup dropped
=============================================================================
