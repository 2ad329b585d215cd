------------------------- MODULE OutboxDelivery_proofs -------------------------
(***************************************************************************)
(* Theorems about queueing/outbox.py and queueing/worker.py for any number *)
(* of events, publishers, workers, retries and faults: the handler of an   *)
(* event commits once, a published event does not vanish, and the leases   *)
(* keep publishers apart.                                                  *)
(***************************************************************************)
EXTENDS OutboxDelivery, TLAPS

USE OutboxAssumption DEF OutboxAssumption

(* An event is executed, out of retries, or a message of it is underway.   *)
Traced(e) == e \in receipts \/ e \in dropped \/ Underway(e)

(* A publisher at work on an event has it in its batch of committed events *)
(* and no batch when it is idle; a worker at work has an event, and is     *)
(* done only with an event whose receipt exists.                           *)
PublishersKnow ==
    \A p \in Publisher :
        /\ pub[p].batch \subseteq created
        /\ pub[p].pc = "idle" => pub[p].batch = {}
        /\ pub[p].pc \in {"publish", "sent", "refused"} => pub[p].event \in pub[p].batch
WorkersKnow ==
    \A w \in Worker :
        /\ worker[w].pc # "idle" => worker[w].event \in OutboxEvent
        /\ worker[w].pc = "done" => worker[w].event \in receipts

(* Between the broker's answer and the commit the row does not say yet     *)
(* that the event is published, but its message is there already.          *)
SentIsTraced == \A p \in Publisher : pub[p].pc = "sent" => Traced(pub[p].event)

IInv == TypeOK /\ PublishersKnow /\ WorkersKnow /\ SentIsTraced /\ NothingVanishes

PubRow == [pc : {"idle", "batch", "publish", "sent", "refused"}, batch : SUBSET OutboxEvent,
           event : OutboxEvent \cup {NoEvent}, locked : BOOLEAN]
WorkerRow == [pc : {"idle", "received", "handling", "done"},
              event : OutboxEvent \cup {NoEvent}, retry : 0..MaxRetry]

LEMMA InitIInv == Init => IInv
BY DEF Init, IInv, TypeOK, PublishersKnow, WorkersKnow, SentIsTraced, NothingVanishes, Idle, Resting

LEMMA WithTyped ==
    ASSUME NEW S \in SUBSET OutboxEvent
    PROVE  /\ With(S) \in PubRow
           /\ With(S).batch = S /\ With(S).pc \in {"idle", "batch"}
           /\ With(S).pc = "idle" => With(S).batch = {}
BY DEF With, PubRow

(* One more copy of a message, or one less, keeps the queues well typed.   *)
Queues == [OutboxEvent -> [0..MaxRetry -> Nat]]
LEMMA QueueTyped ==
    ASSUME queue \in Queues, NEW e \in OutboxEvent, NEW r \in 0..MaxRetry, NEW n \in Nat
    PROVE  [queue EXCEPT ![e][r] = n] \in Queues
BY DEF Queues

LEMMA MoreQueued ==
    ASSUME queue \in Queues, NEW e \in OutboxEvent, NEW r \in 0..MaxRetry
    PROVE  /\ [queue EXCEPT ![e][r] = @ + 1] \in Queues
           /\ [queue EXCEPT ![e][r] = @ + 1][e][r] > 0
           /\ \A f \in OutboxEvent, s \in 0..MaxRetry :
                   queue[f][s] > 0 => [queue EXCEPT ![e][r] = @ + 1][f][s] > 0
<1>1. queue[e][r] \in Nat
  BY DEF Queues
<1> QED
  BY <1>1, QueueTyped DEF Queues

(* The publishers' steps keep the types.                                   *)
LEMMA PublisherTypeOK ==
    ASSUME TypeOK, PublishersKnow, NEW p \in Publisher,
           PublisherStep(p) \/ PublishRaises(p) \/ PublisherCrash(p)
    PROVE  TypeOK' /\ PublishersKnow'
<1> USE DEF TypeOK, PublishersKnow, outbox, delivery
<1>0. created' = created
  BY DEF PublisherStep, SelectBatch, SkipPublished, ReadEvent, Publish, PublishRaises,
         CommitRefused, CommitSent, PublisherCrash
<1>a. ASSUME NEW row \in PubRow, pub' = [pub EXCEPT ![p] = row],
             row.batch \subseteq created, row.pc = "idle" => row.batch = {},
             row.pc \in {"publish", "sent", "refused"} => row.event \in row.batch
      PROVE  pub' \in [Publisher -> PubRow] /\ PublishersKnow'
  BY <1>0, <1>a DEF PubRow
<1>b. ASSUME NEW pc \in {"sent", "refused"}, pub[p].pc = "publish",
             pub' = [pub EXCEPT ![p].pc = pc]
      PROVE  pub' \in [Publisher -> PubRow] /\ PublishersKnow'
  <2> DEFINE row == [pub[p] EXCEPT !.pc = pc]
  <2>1. pub[p] \in PubRow
    BY DEF PubRow
  <2>2. row \in PubRow /\ row.pc = pc /\ row.batch = pub[p].batch
        /\ row.event = pub[p].event
    BY <2>1 DEF PubRow
  <2>3. pub' = [pub EXCEPT ![p] = row]
    BY <1>b
  <2> HIDE DEF row
  <2> QED
    BY <1>b, <2>2, <2>3, <1>a
<1>c. ASSUME NEW e \in OutboxEvent, pub' = [pub EXCEPT ![p] = Without(p, e)]
      PROVE  pub' \in [Publisher -> PubRow] /\ PublishersKnow'
  <2>1. pub[p].batch \ {e} \in SUBSET OutboxEvent /\ pub[p].batch \ {e} \subseteq created
    OBVIOUS
  <2>2. /\ Without(p, e) \in PubRow
        /\ Without(p, e).batch = pub[p].batch \ {e} /\ Without(p, e).pc \in {"idle", "batch"}
        /\ Without(p, e).pc = "idle" => Without(p, e).batch = {}
    BY <2>1, WithTyped DEF Without
  <2> QED
    BY <1>c, <1>a, <2>1, <2>2
<1>1. CASE SelectBatch(p)
  <2>1. Available \in SUBSET OutboxEvent /\ Available \subseteq created
    BY DEF Available
  <2>2. pub' \in [Publisher -> PubRow] /\ PublishersKnow'
    BY <1>1, <2>1, <1>a, WithTyped DEF SelectBatch
  <2> QED
    BY <1>1, <2>2 DEF SelectBatch, PubRow
<1>2. ASSUME NEW e \in OutboxEvent, SkipPublished(p, e) PROVE TypeOK' /\ PublishersKnow'
  <2>1. pub' \in [Publisher -> PubRow] /\ PublishersKnow'
    BY <1>2, <1>c DEF SkipPublished
  <2> QED
    BY <1>2, <2>1 DEF SkipPublished, PubRow
<1>3. ASSUME NEW e \in OutboxEvent, ReadEvent(p, e) PROVE TypeOK' /\ PublishersKnow'
  <2> DEFINE row == [pc |-> "publish", batch |-> pub[p].batch, event |-> e,
                     locked |-> lease[e] # "none"]
  <2>1. pub' = [pub EXCEPT ![p] = row]
    BY <1>3 DEF ReadEvent
  <2>2. row \in PubRow /\ row.event \in row.batch /\ row.batch \subseteq created
        /\ row.pc = "publish"
    BY <1>3 DEF PubRow, ReadEvent
  <2> HIDE DEF row
  <2>3. pub' \in [Publisher -> PubRow] /\ PublishersKnow'
    BY <2>1, <2>2, <1>a
  <2> QED
    BY <1>3, <2>3 DEF ReadEvent, PubRow
<1>4. CASE Publish(p)
  <2>1. pub[p].event \in OutboxEvent
    BY <1>4 DEF Publish
  <2>2. queue' = [queue EXCEPT ![pub[p].event][0] = @ + 1]
    BY <1>4 DEF Publish
  <2>4. queue' \in Queues
    BY <2>1, <2>2, MoreQueued DEF Queues
  <2>3. pub' \in [Publisher -> PubRow] /\ PublishersKnow'
    BY <1>4, <1>b DEF Publish
  <2> QED
    BY <1>4, <2>3, <2>4 DEF Publish, PubRow, Queues
<1>5. CASE PublishRaises(p)
  <2>1. pub[p].event \in OutboxEvent
    BY <1>5 DEF PublishRaises
  <2>2. CASE UNCHANGED <<queue, faults>>
    BY <1>5, <2>2, <1>b DEF PublishRaises, PubRow
  <2>3. CASE Fault /\ queue' = [queue EXCEPT ![pub[p].event][0] = @ + 1]
    <3>1. queue' \in Queues
      BY <2>1, <2>3, MoreQueued DEF Queues
    <3>2. faults' \in 0..MaxFaults
      BY <2>3 DEF Fault
    <3>3. pub' \in [Publisher -> PubRow] /\ PublishersKnow'
      BY <1>5, <1>b DEF PublishRaises
    <3> QED
      BY <1>5, <3>1, <3>2, <3>3 DEF PublishRaises, PubRow, Queues
  <2> QED
    BY <1>5, <2>2, <2>3 DEF PublishRaises
<1>6. CASE CommitRefused(p) \/ CommitSent(p)
  <2>1. pub[p].event \in created /\ pub[p].event \in OutboxEvent
    BY <1>6 DEF CommitRefused, CommitSent
  <2>2. pub' \in [Publisher -> PubRow] /\ PublishersKnow'
    BY <1>6, <2>1, <1>c DEF CommitRefused, CommitSent
  <2>3. lease' \in [OutboxEvent -> {"none", "held", "expired"}]
    BY <1>6 DEF CommitRefused, CommitSent, Unlocked
  <2>4. CASE CommitRefused(p)
    BY <2>4, <2>1, <2>2, <2>3 DEF CommitRefused, PubRow
  <2>5. CASE CommitSent(p)
    BY <2>5, <2>1, <2>2, <2>3 DEF CommitSent, PubRow
  <2> QED
    BY <1>6, <2>4, <2>5
<1>7. CASE PublisherCrash(p)
  BY <1>7 DEF PublisherCrash, Fault, Idle
<1> QED
  BY <1>1, <1>2, <1>3, <1>4, <1>5, <1>6, <1>7 DEF PublisherStep

(* The workers' steps keep the types.                                      *)
LEMMA WorkerTypeOK ==
    ASSUME TypeOK, WorkersKnow, NEW w \in Worker,
           WorkerStep(w) \/ HandlerRaises(w) \/ WorkerLost(w)
    PROVE  TypeOK' /\ WorkersKnow'
<1> USE DEF TypeOK, WorkersKnow, outbox, delivery
<1> DEFINE e == worker[w].event
           r == worker[w].retry
<1>0. worker[w].pc # "idle" => e \in OutboxEvent /\ r \in 0..MaxRetry
  OBVIOUS
<1>a. ASSUME NEW row \in WorkerRow, worker' = [worker EXCEPT ![w] = row],
             receipts \subseteq receipts',
             row.pc # "idle" => row.event \in OutboxEvent,
             row.pc = "done" => row.event \in receipts'
      PROVE  worker' \in [Worker -> WorkerRow] /\ WorkersKnow'
  BY <1>a DEF WorkerRow
<1>b. ASSUME NEW pc \in {"handling", "done"}, worker[w].pc # "idle",
             worker' = [worker EXCEPT ![w].pc = pc], receipts \subseteq receipts',
             pc = "done" => e \in receipts'
      PROVE  worker' \in [Worker -> WorkerRow] /\ WorkersKnow'
  <2> DEFINE row == [worker[w] EXCEPT !.pc = pc]
  <2>1. worker[w] \in WorkerRow
    BY DEF WorkerRow
  <2>2. row \in WorkerRow /\ row.pc = pc /\ row.event = e
    BY <2>1 DEF WorkerRow
  <2>3. worker' = [worker EXCEPT ![w] = row]
    BY <1>b
  <2> HIDE DEF row
  <2> QED
    BY <1>b, <2>2, <2>3, <1>a
<1>c. ASSUME worker' = [worker EXCEPT ![w] = Resting], receipts' = receipts
      PROVE  worker' \in [Worker -> WorkerRow] /\ WorkersKnow'
  <2>1. Resting \in WorkerRow /\ Resting.pc = "idle"
    BY DEF Resting, WorkerRow
  <2> QED
    BY <1>c, <2>1, <1>a
<1>1. ASSUME NEW f \in OutboxEvent, NEW s \in 0..MaxRetry, Deliver(w, f, s)
      PROVE  TypeOK' /\ WorkersKnow'
  <2> DEFINE row == [pc |-> "received", event |-> f, retry |-> s]
  <2>1. row \in WorkerRow /\ row.pc = "received" /\ row.event = f
    BY DEF WorkerRow
  <2>2. worker' = [worker EXCEPT ![w] = row] /\ receipts' = receipts
    BY <1>1 DEF Deliver
  <2> HIDE DEF row
  <2>3. worker' \in [Worker -> WorkerRow] /\ WorkersKnow'
    BY <2>1, <2>2, <1>a
  <2>4. queue[f][s] \in Nat /\ queue[f][s] > 0
    BY <1>1 DEF Deliver
  <2>5. queue[f][s] - 1 \in Nat /\ queue' = [queue EXCEPT ![f][s] = queue[f][s] - 1]
    BY <1>1, <2>4 DEF Deliver
  <2>6. queue' \in Queues
    BY <2>5, QueueTyped DEF Queues
  <2> QED
    BY <1>1, <2>3, <2>6 DEF Deliver, WorkerRow, Queues
<1>2. CASE ReadReceipt(w)
  <2>1. worker' \in [Worker -> WorkerRow] /\ WorkersKnow'
    <3>1. CASE e \in receipts
      BY <1>2, <3>1, <1>b DEF ReadReceipt
    <3>2. CASE e \notin receipts
      BY <1>2, <3>2, <1>b DEF ReadReceipt
    <3> QED
      BY <3>1, <3>2
  <2> QED
    BY <1>2, <2>1 DEF ReadReceipt, WorkerRow
<1>3. CASE CommitHandler(w)
  <2>1. worker' \in [Worker -> WorkerRow] /\ WorkersKnow'
    BY <1>3, <1>b DEF CommitHandler
  <2>2. effects' \in [OutboxEvent -> Nat] /\ receipts' \subseteq OutboxEvent
    BY <1>0, <1>3 DEF CommitHandler
  <2> QED
    BY <1>3, <2>1, <2>2 DEF CommitHandler, WorkerRow
<1>4. CASE HandlerRaises(w)
  <2>1. worker' \in [Worker -> WorkerRow] /\ WorkersKnow'
    BY <1>4, <1>c DEF HandlerRaises
  <2>2. e \in OutboxEvent /\ r \in 0..MaxRetry
    BY <1>0, <1>4 DEF HandlerRaises
  <2>3. CASE r < MaxRetry
    <3>1. r + 1 \in 0..MaxRetry /\ queue' = [queue EXCEPT ![e][r + 1] = @ + 1]
      BY <1>4, <2>2, <2>3 DEF HandlerRaises
    <3>2. queue \in Queues
      BY DEF Queues
    <3>3. [queue EXCEPT ![e][r + 1] = @ + 1] \in Queues
      BY <2>2, <3>1, <3>2, MoreQueued
    <3>4. queue' \in Queues
      BY <3>1, <3>3, Zenon
    <3> QED
      BY <1>4, <2>1, <2>3, <3>4 DEF HandlerRaises, WorkerRow, Queues
  <2>4. CASE ~(r < MaxRetry)
    <3>1. queue' = queue /\ dropped' = dropped \cup {e}
      BY <1>4, <2>4 DEF HandlerRaises
    <3> QED
      BY <1>4, <2>1, <2>2, <3>1 DEF HandlerRaises, WorkerRow
  <2> QED
    BY <2>3, <2>4
<1>5. CASE Acknowledge(w)
  BY <1>5, <1>c DEF Acknowledge, WorkerRow
<1>6. CASE WorkerLost(w)
  <2>1. worker' \in [Worker -> WorkerRow] /\ WorkersKnow'
    BY <1>6, <1>c DEF WorkerLost
  <2>2. queue' \in Queues /\ faults' \in 0..MaxFaults
    BY <1>0, <1>6, MoreQueued DEF WorkerLost, Requeued, Fault, Queues
  <2> QED
    BY <1>6, <2>1, <2>2 DEF WorkerLost, WorkerRow, Queues
<1> QED
  BY <1>1, <1>2, <1>3, <1>4, <1>5, <1>6 DEF WorkerStep

LEMMA StepTypeOK ==
    ASSUME TypeOK, PublishersKnow, WorkersKnow, [Next]_vars
    PROVE  TypeOK' /\ PublishersKnow' /\ WorkersKnow'
<1>1. ASSUME NEW e \in OutboxEvent, CreateJob(e) \/ Clock(e)
      PROVE  TypeOK' /\ PublishersKnow' /\ WorkersKnow'
  <2> USE DEF TypeOK, delivery
  <2>1. UNCHANGED <<pub, worker, receipts>> /\ created \subseteq created'
    BY <1>1 DEF CreateJob, Clock, BecomesDue, LeaseExpires
  <2>2. PublishersKnow' /\ WorkersKnow'
    BY <2>1 DEF PublishersKnow, WorkersKnow
  <2>3. CASE CreateJob(e)
    BY <2>2, <2>3 DEF CreateJob
  <2>4. CASE BecomesDue(e)
    BY <2>2, <2>4 DEF BecomesDue
  <2>5. CASE LeaseExpires(e)
    BY <2>2, <2>5 DEF LeaseExpires, Fault
  <2> QED
    BY <1>1, <2>3, <2>4, <2>5 DEF Clock
<1>2. ASSUME NEW p \in Publisher, PublisherStep(p) \/ PublishRaises(p) \/ PublisherCrash(p)
      PROVE  TypeOK' /\ PublishersKnow' /\ WorkersKnow'
  <2>1. UNCHANGED <<worker, receipts>>
    BY <1>2 DEF PublisherStep, SelectBatch, SkipPublished, ReadEvent, Publish, PublishRaises,
         CommitRefused, CommitSent, PublisherCrash, delivery
  <2> QED
    BY <1>2, <2>1, PublisherTypeOK DEF WorkersKnow
<1>3. ASSUME NEW w \in Worker, WorkerStep(w) \/ HandlerRaises(w) \/ WorkerLost(w)
      PROVE  TypeOK' /\ PublishersKnow' /\ WorkersKnow'
  <2>1. UNCHANGED <<created, pub>>
    BY <1>3 DEF WorkerStep, Deliver, ReadReceipt, CommitHandler, HandlerRaises, Acknowledge,
         WorkerLost, outbox
  <2> QED
    BY <1>3, <2>1, WorkerTypeOK DEF PublishersKnow
<1>4. CASE UNCHANGED vars
  BY <1>4 DEF vars, outbox, delivery, TypeOK, PublishersKnow, WorkersKnow
<1> QED
  BY <1>1, <1>2, <1>3, <1>4 DEF Next

(* An event that is underway or handled stays so: a worker takes a message *)
(* over from the queue, and gives it back, gives it up, or leaves a        *)
(* receipt.                                                                *)
LEMMA TracedStays ==
    ASSUME TypeOK, PublishersKnow, WorkersKnow, [Next]_vars, NEW f \in OutboxEvent, Traced(f)
    PROVE  Traced(f)'
<1> USE DEF TypeOK, WorkersKnow, outbox, delivery, Traced, Underway
<1>0. queue \in Queues
  BY DEF Queues
<1>1. ASSUME UNCHANGED <<worker, receipts, dropped>>,
             \A r \in 0..MaxRetry : queue[f][r] > 0 => queue'[f][r] > 0
      PROVE  Traced(f)'
  BY <1>1
<1>2. ASSUME NEW e \in OutboxEvent, CreateJob(e) \/ Clock(e) PROVE Traced(f)'
  BY <1>2 DEF CreateJob, Clock, BecomesDue, LeaseExpires
<1>3. ASSUME NEW p \in Publisher,
             PublisherStep(p) \/ PublishRaises(p) \/ PublisherCrash(p)
      PROVE  Traced(f)'
  <2>1. UNCHANGED <<worker, receipts, dropped>>
    BY <1>3 DEF PublisherStep, SelectBatch, SkipPublished, ReadEvent, Publish, PublishRaises,
         CommitRefused, CommitSent, PublisherCrash
  <2>2. CASE queue' = queue
    BY <2>1, <2>2, <1>1
  <2>3. CASE queue' # queue
    <3>1. pub[p].pc = "publish" /\ queue' = [queue EXCEPT ![pub[p].event][0] = @ + 1]
      BY <1>3, <2>3 DEF PublisherStep, SelectBatch, SkipPublished, ReadEvent, Publish,
           PublishRaises, CommitRefused, CommitSent, PublisherCrash
    <3>2. pub[p].event \in OutboxEvent
      BY <1>3, <3>1 DEF PublishersKnow
    <3>3. \A r \in 0..MaxRetry : queue[f][r] > 0 => queue'[f][r] > 0
      BY <1>0, <3>1, <3>2, MoreQueued
    <3> QED
      BY <2>1, <3>3, <1>1
  <2> QED
    BY <2>2, <2>3
<1>4. ASSUME NEW w \in Worker, WorkerStep(w) \/ HandlerRaises(w) \/ WorkerLost(w)
      PROVE  Traced(f)'
  <2> DEFINE e == worker[w].event
             r == worker[w].retry
  <2>1. receipts \subseteq receipts' /\ dropped \subseteq dropped'
    BY <1>4 DEF WorkerStep, Deliver, ReadReceipt, CommitHandler, HandlerRaises, Acknowledge,
         WorkerLost
  <2>2. worker[w].pc # "idle" => e \in OutboxEvent /\ r \in 0..MaxRetry
    OBVIOUS
  <2>3. \A v \in Worker \ {w} : worker'[v] = worker[v]
    BY <1>4 DEF WorkerStep, Deliver, ReadReceipt, CommitHandler, HandlerRaises, Acknowledge,
         WorkerLost
  <2>4. CASE f \in receipts \/ f \in dropped
    BY <2>1, <2>4
  <2>5. ASSUME NEW v \in Worker \ {w}, worker[v].pc # "idle" /\ worker[v].event = f
        PROVE  Traced(f)'
    BY <2>3, <2>5
  <2>6. ASSUME NEW s \in 0..MaxRetry, queue[f][s] > 0 PROVE Traced(f)'
    <3>1. CASE queue'[f][s] > 0
      BY <3>1
    <3>2. CASE Deliver(w, f, s)
      <4>1. worker'[w] = [pc |-> "received", event |-> f, retry |-> s]
        BY <3>2 DEF Deliver
      <4>2. worker'[w].pc # "idle" /\ worker'[w].event = f
        BY <4>1
      <4> QED
        BY <4>2
    <3>3. ASSUME NEW g \in OutboxEvent, NEW t \in 0..MaxRetry, Deliver(w, g, t),
                 ~(g = f /\ t = s)
          PROVE  queue'[f][s] = queue[f][s]
      <4>1. queue' = [queue EXCEPT ![g][t] = @ - 1]
        BY <3>3 DEF Deliver
      <4> QED
        BY <1>0, <3>3, <4>1 DEF Queues
    <3>4. CASE ReadReceipt(w) \/ CommitHandler(w) \/ Acknowledge(w)
      <4>1. queue' = queue
        BY <3>4 DEF ReadReceipt, CommitHandler, Acknowledge
      <4> QED
        BY <2>6, <4>1
    <3>5. CASE HandlerRaises(w)
      <4>1. CASE queue' = queue
        BY <2>6, <4>1
      <4>2. CASE queue' # queue
        <5> DEFINE n == r + 1
        <5>1. worker[w].pc # "idle" /\ r < MaxRetry
          BY <3>5, <4>2 DEF HandlerRaises
        <5>2. e \in OutboxEvent /\ n \in 0..MaxRetry
          BY <2>2, <5>1
        <5>3. queue' = [queue EXCEPT ![e][n] = @ + 1]
          BY <3>5, <5>1 DEF HandlerRaises
        <5> HIDE DEF n
        <5>4. [queue EXCEPT ![e][n] = @ + 1][f][s] > 0
          BY <1>0, <2>6, <5>2, MoreQueued
        <5> QED
          BY <3>1, <5>3, <5>4, Zenon
      <4> QED
        BY <4>1, <4>2
    <3>6. CASE WorkerLost(w)
      <4>1. e \in OutboxEvent /\ r \in 0..MaxRetry /\ queue' = [queue EXCEPT ![e][r] = @ + 1]
        BY <2>2, <3>6 DEF WorkerLost, Requeued
      <4>2. [queue EXCEPT ![e][r] = @ + 1][f][s] > 0
        BY <1>0, <2>6, <4>1, MoreQueued
      <4> QED
        BY <3>1, <4>1, <4>2, Zenon
    <3> QED
      BY <1>4, <2>6, <3>1, <3>2, <3>3, <3>4, <3>5, <3>6 DEF WorkerStep
  <2>7. CASE worker[w].pc # "idle" /\ e = f
    <3>1. CASE ReadReceipt(w)
      <4>1. worker'[w].pc # "idle" /\ worker'[w].event = f
        BY <2>7, <3>1 DEF ReadReceipt
      <4> QED
        BY <4>1
    <3>2. CASE CommitHandler(w)
      BY <2>7, <3>2 DEF CommitHandler
    <3>3. CASE Acknowledge(w)
      BY <2>7, <3>3, <2>1 DEF Acknowledge
    <3>4. CASE HandlerRaises(w) /\ r < MaxRetry
      <4>1. r \in 0..MaxRetry /\ r + 1 \in 0..MaxRetry
            /\ queue' = [queue EXCEPT ![f][r + 1] = @ + 1]
        BY <2>2, <2>7, <3>4 DEF HandlerRaises
      <4>2. [queue EXCEPT ![f][r + 1] = @ + 1][f][r + 1] > 0
        BY <1>0, <4>1, MoreQueued
      <4>3. queue'[f][r + 1] > 0
        BY <4>1, <4>2, Zenon
      <4> QED
        BY <4>1, <4>3
    <3>5. CASE HandlerRaises(w) /\ ~(r < MaxRetry)
      BY <2>7, <3>5 DEF HandlerRaises
    <3>6. CASE WorkerLost(w)
      <4>1. r \in 0..MaxRetry /\ queue' = [queue EXCEPT ![f][r] = @ + 1]
        BY <2>2, <2>7, <3>6 DEF WorkerLost, Requeued
      <4>2. [queue EXCEPT ![f][r] = @ + 1][f][r] > 0
        BY <1>0, <4>1, MoreQueued
      <4>3. queue'[f][r] > 0
        BY <4>1, <4>2, Zenon
      <4> QED
        BY <4>1, <4>3
    <3>7. ~(\E g \in OutboxEvent, t \in 0..MaxRetry : Deliver(w, g, t))
      BY <2>7 DEF Deliver
    <3> QED
      BY <1>4, <3>1, <3>2, <3>3, <3>4, <3>5, <3>6, <3>7 DEF WorkerStep
  <2> QED
    BY <2>4, <2>5, <2>6, <2>7
<1>5. CASE UNCHANGED vars
  BY <1>5 DEF vars
<1> QED
  BY <1>2, <1>3, <1>4, <1>5 DEF Next

(* What is on its way to being marked as published is traced, and so is    *)
(* what is marked.                                                         *)
LEMMA StepIInv == IInv /\ [Next]_vars => IInv'
<1> SUFFICES ASSUME IInv, [Next]_vars PROVE IInv'
  OBVIOUS
<1> USE DEF IInv
<1>1. TypeOK' /\ PublishersKnow' /\ WorkersKnow'
  BY StepTypeOK
<1>2. \A f \in OutboxEvent : Traced(f) => Traced(f)'
  BY TracedStays
<1>3. \A p \in Publisher : pub[p].pc = "sent" => pub[p].event \in OutboxEvent /\ Traced(pub[p].event)
  BY DEF TypeOK, PublishersKnow, SentIsTraced
<1>4. \A f \in published : f \in OutboxEvent /\ Traced(f)
  BY DEF TypeOK, NothingVanishes, Traced
<1>5. ASSUME NEW p \in Publisher, pub'[p].pc = "sent" PROVE Traced(pub[p].event)'
             /\ pub'[p].event = pub[p].event
  <2>1. CASE pub'[p] = pub[p]
    BY <1>2, <1>3, <1>5, <2>1
  <2>2. CASE Publish(p)
    <3>1. pub'[p].event = pub[p].event
      BY <2>2 DEF Publish, TypeOK
    <3>2. pub[p].event \in OutboxEvent
      BY <2>2 DEF Publish, TypeOK, PublishersKnow
    <3>3. queue \in Queues /\ queue' = [queue EXCEPT ![pub[p].event][0] = @ + 1]
      BY <2>2 DEF Publish, TypeOK, Queues
    <3>4. [queue EXCEPT ![pub[p].event][0] = @ + 1][pub[p].event][0] > 0
      BY <3>2, <3>3, MoreQueued
    <3>5. queue'[pub[p].event][0] > 0
      BY <3>3, <3>4, Zenon
    <3> QED
      BY <3>1, <3>5 DEF Traced, Underway
  <2>3. CASE ~Publish(p) /\ pub'[p] # pub[p]
    <3>1. pub'[p].pc # "sent"
      <4>1. ASSUME NEW q \in Publisher, PublisherStep(q) \/ PublishRaises(q) \/ PublisherCrash(q)
            PROVE  pub'[p].pc # "sent"
        <5>1. \A S : With(S).pc # "sent"
          BY DEF With
        <5>2. Idle.pc # "sent"
          BY DEF Idle
        <5>3. ASSUME SelectBatch(q) PROVE pub'[p].pc # "sent"
          <6>1. pub' = [pub EXCEPT ![q] = With(Available)]
            BY <5>3 DEF SelectBatch
          <6>2. pub'[p] = With(Available)
            BY <2>3, <6>1 DEF TypeOK
          <6> QED
            BY <5>1, <6>2
        <5>4. ASSUME NEW e \in OutboxEvent, SkipPublished(q, e) \/ ReadEvent(q, e)
              PROVE  pub'[p].pc # "sent"
          <6> DEFINE row == [pc |-> "publish", batch |-> pub[q].batch, event |-> e,
                             locked |-> lease[e] # "none"]
          <6>1. row.pc # "sent"
            OBVIOUS
          <6>2. ReadEvent(q, e) => pub' = [pub EXCEPT ![q] = row]
            BY DEF ReadEvent
          <6>3. SkipPublished(q, e) => pub' = [pub EXCEPT ![q] = Without(q, e)]
            BY DEF SkipPublished
          <6>4. Without(q, e).pc # "sent"
            BY <5>1 DEF Without
          <6> HIDE DEF row
          <6> QED
            BY <2>3, <5>4, <6>1, <6>2, <6>3, <6>4 DEF TypeOK
        <5>5. CASE PublishRaises(q) \/ Publish(q)
          <6>1. q = p
            BY <2>3, <5>5 DEF PublishRaises, Publish, TypeOK
          <6>2. pub' = [pub EXCEPT ![p].pc = "refused"]
            BY <2>3, <5>5, <6>1 DEF PublishRaises
          <6> QED
            BY <6>2 DEF TypeOK
        <5>6. ASSUME CommitRefused(q) \/ CommitSent(q) \/ PublisherCrash(q)
              PROVE  pub'[p].pc # "sent"
          <6>1. pub' = [pub EXCEPT ![q] = With(pub[q].batch \ {pub[q].event})]
                \/ pub' = [pub EXCEPT ![q] = Idle]
            BY <5>6 DEF CommitRefused, CommitSent, PublisherCrash, Without
          <6>2. pub'[p] = With(pub[q].batch \ {pub[q].event}) \/ pub'[p] = Idle
            BY <2>3, <6>1 DEF TypeOK
          <6> QED
            BY <5>1, <5>2, <6>2
        <5> QED
          BY <4>1, <5>3, <5>4, <5>5, <5>6 DEF PublisherStep
      <4>2. (\E e \in OutboxEvent : CreateJob(e) \/ Clock(e)) => pub' = pub
        BY DEF CreateJob, Clock, BecomesDue, LeaseExpires
      <4>3. (\E w \in Worker : WorkerStep(w) \/ HandlerRaises(w) \/ WorkerLost(w)) => pub' = pub
        BY DEF WorkerStep, Deliver, ReadReceipt, CommitHandler, HandlerRaises, Acknowledge, WorkerLost
      <4>4. UNCHANGED vars => pub' = pub
        BY DEF vars
      <4> QED
        BY <2>3, <4>1, <4>2, <4>3, <4>4 DEF Next
    <3> QED
      BY <1>5, <3>1
  <2> QED
    BY <2>1, <2>2, <2>3
<1>6. SentIsTraced'
  BY <1>5 DEF SentIsTraced, Traced, Underway
<1>7. published' \subseteq published \cup {pub[p].event : p \in {q \in Publisher : pub[q].pc = "sent"}}
  <2>1. (\E e \in OutboxEvent : CreateJob(e) \/ Clock(e)) => published' = published
    BY DEF CreateJob, Clock, BecomesDue, LeaseExpires
  <2>2. (\E w \in Worker : WorkerStep(w) \/ HandlerRaises(w) \/ WorkerLost(w)) => published' = published
    BY DEF WorkerStep, Deliver, ReadReceipt, CommitHandler, HandlerRaises, Acknowledge, WorkerLost, outbox
  <2>3. UNCHANGED vars => published' = published
    BY DEF vars, outbox
  <2>4. ASSUME NEW q \in Publisher, PublisherStep(q) \/ PublishRaises(q) \/ PublisherCrash(q)
        PROVE  published' = published \/ CommitSent(q)
    BY <2>4 DEF PublisherStep, SelectBatch, SkipPublished, ReadEvent, Publish, PublishRaises,
         CommitRefused, PublisherCrash, outbox
  <2>5. ASSUME NEW q \in Publisher, CommitSent(q)
        PROVE  published' = published \cup {pub[q].event} /\ pub[q].pc = "sent"
    BY <2>5 DEF CommitSent
  <2> QED
    BY <2>1, <2>2, <2>3, <2>4, <2>5 DEF Next
<1>8. NothingVanishes'
  BY <1>2, <1>3, <1>4, <1>7 DEF NothingVanishes, Traced
<1> QED
  BY <1>1, <1>6, <1>8

LEMMA Inductive == Spec => []IInv
<1> QED
  BY InitIInv, StepIInv, PTL DEF Spec

(* The outbox, the publishers and the workers keep their types, and the    *)
(* bounds of retries and faults hold.                                      *)
THEOREM Typing == Spec => []TypeOK
<1>1. IInv => TypeOK
  BY DEF IInv
<1> QED
  BY <1>1, Inductive, PTL

(* No job is lost between the database and the broker: an event marked as  *)
(* published was executed, ran out of retries, or has a message underway.  *)
THEOREM PublishedIsNotLost == Spec => []NothingVanishes
<1>1. IInv => NothingVanishes
  BY DEF IInv
<1> QED
  BY <1>1, Inductive, PTL

(* Only a commit of a handler touches the effects, and the unique          *)
(* constraint lets the first one through.                                  *)
LEMMA StepExecutedOnce == IInv /\ ExecutedOnce /\ [Next]_vars => ExecutedOnce'
<1> SUFFICES ASSUME IInv, ExecutedOnce, [Next]_vars PROVE ExecutedOnce'
  OBVIOUS
<1> USE DEF IInv, outbox, delivery
<1>1. ASSUME UNCHANGED <<effects, receipts>> PROVE ExecutedOnce'
  BY <1>1 DEF ExecutedOnce
<1>2. ASSUME NEW e \in OutboxEvent, CreateJob(e) \/ Clock(e) PROVE UNCHANGED <<effects, receipts>>
  BY <1>2 DEF CreateJob, Clock, BecomesDue, LeaseExpires
<1>3. ASSUME NEW p \in Publisher, PublisherStep(p) \/ PublishRaises(p) \/ PublisherCrash(p)
      PROVE  UNCHANGED <<effects, receipts>>
  BY <1>3 DEF PublisherStep, SelectBatch, SkipPublished, ReadEvent, Publish, PublishRaises,
       CommitRefused, CommitSent, PublisherCrash
<1>4. ASSUME NEW w \in Worker, WorkerStep(w) \/ HandlerRaises(w) \/ WorkerLost(w), ~CommitHandler(w)
      PROVE  UNCHANGED <<effects, receipts>>
  BY <1>4 DEF WorkerStep, Deliver, ReadReceipt, HandlerRaises, Acknowledge, WorkerLost
<1>5. ASSUME NEW w \in Worker, CommitHandler(w) PROVE ExecutedOnce'
  <2> DEFINE e == worker[w].event
  <2>1. e \in OutboxEvent /\ receipts' = receipts \cup {e}
    BY <1>5 DEF CommitHandler, WorkersKnow
  <2>2. CASE e \in receipts
    BY <1>5, <2>1, <2>2 DEF CommitHandler, FirstCommit, ExecutedOnce
  <2>3. CASE e \notin receipts
    <3>1. effects' = [effects EXCEPT ![e] = @ + 1] /\ effects[e] = 0
      BY <1>5, <2>1, <2>3 DEF CommitHandler, FirstCommit, ExecutedOnce
    <3> QED
      BY <2>1, <3>1 DEF ExecutedOnce, TypeOK
  <2> QED
    BY <2>2, <2>3
<1>6. UNCHANGED vars => UNCHANGED <<effects, receipts>>
  BY DEF vars
<1> QED
  BY <1>1, <1>2, <1>3, <1>4, <1>5, <1>6 DEF Next

(* A repeated delivery "does not create double results" (BE-06 PLAN.md):   *)
(* whatever duplicates publishers and broker make, the handler's writes    *)
(* for an event commit once, together with its receipt.                    *)
THEOREM HandlerExecutesOnce == Spec => []ExecutedOnce
<1>1. Init => ExecutedOnce
  BY DEF Init, ExecutedOnce
<1> QED
  BY <1>1, Inductive, StepExecutedOnce, PTL DEF Spec

(* A lease ends while its holder is at work only by a counted overrun; a   *)
(* batch takes only rows that nobody holds; and a row is unlocked by the   *)
(* one publisher that works on it, which then leaves it.                   *)
LEMMA StepLeaseExcludes == IInv /\ LeaseExcludes /\ [Next]_vars => LeaseExcludes'
<1> SUFFICES ASSUME IInv, LeaseExcludes, [Next]_vars PROVE LeaseExcludes'
  OBVIOUS
<1> USE DEF IInv, outbox, delivery, Works
<1>1. ASSUME UNCHANGED <<lease, overrun>>, published \subseteq published',
             \A p \in Publisher : pub'[p].batch \subseteq pub[p].batch
      PROVE  LeaseExcludes'
  BY <1>1 DEF LeaseExcludes
<1>2. ASSUME NEW e \in OutboxEvent, CreateJob(e) \/ BecomesDue(e) PROVE LeaseExcludes'
  BY <1>1, <1>2 DEF CreateJob, BecomesDue
<1>3. ASSUME NEW e \in OutboxEvent, LeaseExpires(e) PROVE LeaseExcludes'
  <2>1. \A f \in OutboxEvent : f # e => lease'[f] = lease[f]
    BY <1>3 DEF LeaseExpires, TypeOK
  <2> QED
    BY <1>3, <2>1 DEF LeaseExpires, LeaseExcludes
<1>4. ASSUME NEW w \in Worker, WorkerStep(w) \/ HandlerRaises(w) \/ WorkerLost(w)
      PROVE  LeaseExcludes'
  <2>1. UNCHANGED <<lease, overrun, published, pub>>
    BY <1>4 DEF WorkerStep, Deliver, ReadReceipt, CommitHandler, HandlerRaises, Acknowledge,
         WorkerLost
  <2> QED
    BY <2>1, <1>1
<1>5. ASSUME NEW p \in Publisher, SelectBatch(p) PROVE LeaseExcludes'
  <2>1. pub' = [pub EXCEPT ![p] = With(Available)] /\ With(Available).batch = Available
    BY <1>5 DEF SelectBatch, With
  <2>2. pub'[p].batch = Available /\ \A q \in Publisher \ {p} : pub'[q] = pub[q]
    BY <2>1 DEF TypeOK
  <2>3. ASSUME NEW e \in OutboxEvent \ overrun, NEW q \in Publisher, Works(q, e)
        PROVE  e \notin Available
    BY <2>3 DEF LeaseExcludes, Available
  <2>4. UNCHANGED <<published, overrun>>
        /\ \A e \in OutboxEvent : lease'[e] = IF e \in Available THEN "held" ELSE lease[e]
    BY <1>5 DEF SelectBatch
  <2> QED
    BY <2>2, <2>3, <2>4 DEF LeaseExcludes
<1>6. ASSUME NEW p \in Publisher, NEW e \in OutboxEvent, SkipPublished(p, e) PROVE LeaseExcludes'
  <2>1. pub' = [pub EXCEPT ![p] = Without(p, e)] /\ Without(p, e).batch = pub[p].batch \ {e}
    BY <1>6 DEF SkipPublished, Without, With
  <2>2. UNCHANGED <<lease, overrun, published>>
    BY <1>6 DEF SkipPublished
  <2> QED
    BY <2>1, <2>2, <1>1 DEF TypeOK
<1>7. ASSUME NEW p \in Publisher, NEW e \in OutboxEvent, ReadEvent(p, e) PROVE LeaseExcludes'
  <2> DEFINE row == [pc |-> "publish", batch |-> pub[p].batch, event |-> e,
                     locked |-> lease[e] # "none"]
  <2>1. pub' = [pub EXCEPT ![p] = row] /\ row.batch = pub[p].batch
    BY <1>7 DEF ReadEvent
  <2>2. UNCHANGED <<lease, overrun, published>>
    BY <1>7 DEF ReadEvent
  <2> HIDE DEF row
  <2> QED
    BY <2>1, <2>2, <1>1 DEF TypeOK
<1>8. ASSUME NEW p \in Publisher, Publish(p) \/ PublishRaises(p) PROVE LeaseExcludes'
  <2>1. \E pc \in {"sent", "refused"} : pub' = [pub EXCEPT ![p].pc = pc]
    BY <1>8 DEF Publish, PublishRaises
  <2>2. \A q \in Publisher : pub'[q].batch = pub[q].batch
    BY <2>1 DEF TypeOK
  <2>3. UNCHANGED <<lease, overrun, published>>
    BY <1>8 DEF Publish, PublishRaises
  <2> QED
    BY <2>2, <2>3, <1>1
<1>9. ASSUME NEW p \in Publisher, CommitRefused(p) \/ CommitSent(p) PROVE LeaseExcludes'
  <2> DEFINE e == pub[p].event
  <2>1. pub'[p].batch = pub[p].batch \ {e} /\ \A q \in Publisher \ {p} : pub'[q] = pub[q]
    BY <1>9 DEF CommitRefused, CommitSent, Without, With, TypeOK
  <2>2. /\ overrun' = overrun /\ published \subseteq published'
        /\ \A f \in OutboxEvent : f # e => lease'[f] = lease[f]
    BY <1>9 DEF CommitRefused, CommitSent, Unlocked, TypeOK
  <2>3. e \in OutboxEvent /\ Works(p, e)
    BY <1>9 DEF CommitRefused, CommitSent, PublishersKnow, TypeOK
  <2> QED
    BY <2>1, <2>2, <2>3 DEF LeaseExcludes
<1>10. ASSUME NEW p \in Publisher, PublisherCrash(p) PROVE LeaseExcludes'
  BY <1>1, <1>10 DEF PublisherCrash, Idle, TypeOK
<1>11. CASE UNCHANGED vars
  BY <1>1, <1>11 DEF vars
<1> QED
  BY <1>2, <1>3, <1>4, <1>5, <1>6, <1>7, <1>8, <1>9, <1>10, <1>11 DEF Next, PublisherStep, Clock

(* The leases keep publishers apart: as long as no publisher has overrun   *)
(* its lease on an event, only one of them has the event in its batch, and *)
(* the row says so.                                                        *)
THEOREM LeasesExclude == Spec => []LeaseExcludes
<1>1. Init => LeaseExcludes
  BY DEF Init, LeaseExcludes, Works, Idle
<1> QED
  BY <1>1, Inductive, StepLeaseExcludes, PTL DEF Spec
=============================================================================
