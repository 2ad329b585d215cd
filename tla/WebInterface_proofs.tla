-------------------------- MODULE WebInterface_proofs --------------------------
(***************************************************************************)
(* Theorems about the two pages of the web interface, for any number of    *)
(* jobs, changes, answers under way, errors, runs and requests: the event  *)
(* stream of a job is current, the jobs page never loses sight of an       *)
(* active job, and the live page never shows an unfinished text as a       *)
(* result.                                                                 *)
(***************************************************************************)
EXTENDS WebInterface, SequenceTheorems, WellFoundedInduction, TLAPS

-----------------------------------------------------------------------------
(* The event stream and the jobs page.                                     *)
USE JobEventStreamAssumption DEF JobEventStreamAssumption

LEMMA LeastPosition ==
    ASSUME NEW S \in SUBSET Nat, S # {}
    PROVE  Min(S) \in S /\ \A m \in S : Min(S) <= m
<1> DEFINE less == OpToRel(<, Nat)
<1>1. ASSUME NEW m \in Nat, NEW n \in Nat, m < n PROVE <<m, n>> \in less
  BY <1>1 DEF OpToRel
<1>2. IsWellFoundedOn(less, Nat)
  BY NatLessThanWellFounded, Zenon
<1> HIDE DEF less
<1>3. PICK n \in S : \A m \in S : <<m, n>> \notin less
  BY <1>2, WFMin
<1>4. n \in Nat /\ \A m \in S : m \in Nat /\ ~(m < n)
  BY <1>1, <1>3
<1>5. n \in S /\ \A m \in S : n <= m
  BY <1>4
<1> QED
  BY <1>5 DEF Min

(* What the loop has still before it are rows, and the first is new.       *)
LEMMA FromIsNew ==
    ASSUME NEW rows \in Seq(Nat), NEW seen
    PROVE  /\ From(rows, seen) \in Seq(Nat)
           /\ \A i \in 1..Len(From(rows, seen)) : \E k \in 1..Len(rows) : From(rows, seen)[i] = rows[k]
           /\ From(rows, seen) # <<>> => From(rows, seen)[1] \notin seen
<1>1. CASE Unseen(rows, seen) = {}
  BY <1>1 DEF From
<1>2. CASE Unseen(rows, seen) # {}
  <2> DEFINE m == Min(Unseen(rows, seen))
  <2>1. Unseen(rows, seen) \in SUBSET Nat /\ \A i \in Unseen(rows, seen) : i \in 1..Len(rows) /\ rows[i] \notin seen
    BY DEF Unseen
  <2>2. m \in 1..Len(rows) /\ rows[m] \notin seen
    BY <1>2, <2>1, LeastPosition
  <2>3. From(rows, seen) = SubSeq(rows, m, Len(rows))
    BY <1>2 DEF From
  <2> HIDE DEF m
  <2>4. \A i \in m..Len(rows) : rows[i] \in Nat
    BY <2>2
  <2>5. /\ SubSeq(rows, m, Len(rows)) \in Seq(Nat) /\ Len(SubSeq(rows, m, Len(rows))) = Len(rows) - m + 1
        /\ \A i \in 1..(Len(rows) - m + 1) : SubSeq(rows, m, Len(rows))[i] = rows[m + i - 1]
    BY <2>2, <2>4, SubSeqProperties
  <2>6. \A i \in 1..(Len(rows) - m + 1) : m + i - 1 \in 1..Len(rows)
    BY <2>2
  <2>7. SubSeq(rows, m, Len(rows))[1] = rows[m]
    BY <2>2, <2>5
  <2> QED
    BY <2>2, <2>3, <2>5, <2>6, <2>7
<1> QED
  BY <1>1, <1>2

(* Rows are the versions of their job, in some order.                      *)
DatabaseTyped ==
    /\ history \in [Job -> Seq(JobStatus)] /\ listed \in [Job -> Seq(Nat)]
    /\ \A j \in Job : Version(j) >= 1 /\ Len(listed[j]) = Version(j)
                      /\ \A i \in 1..Len(listed[j]) : listed[j][i] \in 1..Version(j)

(* What the client shows are versions that there are, and what is selected *)
(* is shown; so are the answers under way.                                 *)
IsAnswer(a) ==
    /\ a.of \in Job \cup {NoJob} /\ a.versions \in [Job -> Nat]
    /\ \A j \in Job : a.versions[j] <= Version(j) /\ (a.of \in {j, NoJob} => a.versions[j] # 0)

ClientTyped ==
    /\ selected \in Job \cup {NoJob} /\ view \in [Job -> Nat]
    /\ \A j \in Job : view[j] <= Version(j)
    /\ selected # NoJob => view[selected] # 0
    /\ \A a \in answers : IsAnswer(a)

RowOf == [job : Job, n : Nat]
IsStream == [pc : {"closed", "new", "polling", "sending"}, job : Job \cup {NoJob}, resume : RowOf \cup {NoEvent},
             seen : SUBSET Nat, batch : Seq(Nat), loaded : Nat, polled : BOOLEAN]

(* A stream is of the selected job.                                        *)
StreamTyped ==
    /\ stream \in IsStream /\ wire \in Seq([event : RowOf, version : Nat])
    /\ lastEvent \in RowOf \cup {NoEvent}
    /\ IF stream.pc = "closed" THEN stream = Closed /\ wire = <<>>
                               ELSE stream.job = selected /\ selected \in Job
    /\ retrying => stream = Closed

(* The generator: the job was read since the rows were, so it is at least  *)
(* as new as every row before it.                                          *)
BatchIsCovered ==
    /\ IF stream.pc = "sending" THEN stream.batch # <<>> /\ stream.batch[1] \notin stream.seen
                                ELSE stream.loaded = 0
    /\ stream.pc # "closed" => stream.loaded <= Version(stream.job)
    /\ \A i \in 1..Len(stream.batch) :
          /\ stream.batch[i] \in 1..Version(stream.job)
          /\ stream.loaded # 0 => stream.batch[i] <= stream.loaded

(* The messages: they were sent by this stream, with what it knew.         *)
MessagesAreSeen ==
    \A i \in 1..Len(wire) :
        /\ wire[i].event.n \in stream.seen
        /\ wire[i].version \in 1..Version(stream.job)
        /\ stream.loaded # 0 => wire[i].version <= stream.loaded

JobsInv ==
    /\ DatabaseTyped /\ ClientTyped /\ StreamTyped
    /\ BatchIsCovered /\ MessagesAreSeen /\ StreamIsCurrent /\ ClientKeepsWatch

LEMMA FreshIs ==
    /\ Closed \in IsStream /\ Closed.pc = "closed" /\ Closed.job = NoJob /\ Closed.loaded = 0
    /\ Closed.batch = <<>> /\ Closed.seen = {}
    /\ \A j \in Job, e \in RowOf \cup {NoEvent} :
          LET new == Fresh("new", j, e)
          IN  /\ new \in IsStream /\ new.pc = "new" /\ new.job = j /\ new.loaded = 0
              /\ new.batch = <<>> /\ new.seen = {}
<1>1. NoEvent \in RowOf \cup {NoEvent} /\ <<>> \in Seq(Nat)
  OBVIOUS
<1>2. \A pc \in {"closed", "new"}, j \in Job \cup {NoJob}, e \in RowOf \cup {NoEvent} :
         Fresh(pc, j, e) \in IsStream
  BY <1>1 DEF Fresh, IsStream
<1> QED
  BY <1>1, <1>2 DEF Closed, Fresh

LEMMA InitJobs == Init => JobsInv
<1> SUFFICES ASSUME Init PROVE JobsInv
  OBVIOUS
<1>1. DatabaseTyped
  <2>1. \A j \in Job : history[j] = <<"PENDING">> /\ listed[j] = <<1>>
    BY DEF Init
  <2>2. <<"PENDING">> \in Seq(JobStatus) /\ <<1>> \in Seq(Nat)
    BY DEF JobStatus
  <2>3. history \in [Job -> Seq(JobStatus)] /\ listed \in [Job -> Seq(Nat)]
    BY <2>2 DEF Init
  <2>4. Len(<<"PENDING">>) = 1 /\ Len(<<1>>) = 1 /\ <<1>>[1] = 1
    OBVIOUS
  <2>5. \A j \in Job : Version(j) = 1 /\ Len(listed[j]) = 1 /\ listed[j][1] = 1
    BY <2>1, <2>4, Zenon DEF Version
  <2>6. ASSUME NEW j \in Job
        PROVE  /\ Version(j) >= 1 /\ Len(listed[j]) = Version(j)
               /\ \A i \in 1..Len(listed[j]) : listed[j][i] \in 1..Version(j)
    <3>1. PICK v : v = Version(j)
      OBVIOUS
    <3>2. v = 1 /\ Len(listed[j]) = 1 /\ listed[j][1] = 1
      BY <2>5, <3>1
    <3>3. v >= 1 /\ Len(listed[j]) = v /\ \A i \in 1..Len(listed[j]) : listed[j][i] \in 1..v
      BY <3>2
    <3> QED
      BY <3>1, <3>3
  <2> QED
    BY <2>3, <2>6 DEF DatabaseTyped
<1>2. ClientTyped
  <2>1. selected = NoJob /\ view \in [Job -> Nat] /\ answers = {} /\ \A j \in Job : view[j] = 0 /\ Version(j) >= 1
    BY <1>1 DEF Init, DatabaseTyped
  <2>2. \A j \in Job : Version(j) \in Nat
    BY <1>1 DEF DatabaseTyped, Version
  <2> QED
    BY <2>1, <2>2 DEF ClientTyped
<1>3. StreamTyped
  <2>1. stream = Closed /\ wire = <<>> /\ lastEvent = NoEvent /\ retrying = FALSE
    BY DEF Init
  <2> QED
    BY <2>1, FreshIs DEF StreamTyped
<1>4. BatchIsCovered /\ MessagesAreSeen /\ StreamIsCurrent /\ ClientKeepsWatch
  <2>1. stream = Closed /\ wire = <<>> /\ selected = NoJob /\ polling = FALSE /\ retrying = FALSE
    BY DEF Init
  <2>2. Len(wire) = 0 /\ DOMAIN wire = {} /\ stream.pc = "closed" /\ stream.loaded = 0 /\ Len(stream.batch) = 0
    BY <2>1, FreshIs
  <2>3. BatchIsCovered /\ MessagesAreSeen /\ StreamIsCurrent
    BY <2>2 DEF BatchIsCovered, MessagesAreSeen, StreamIsCurrent
  <2>4. ClientKeepsWatch
    BY <2>1 DEF ClientKeepsWatch, Active
  <2> QED
    BY <2>3, <2>4
<1> QED
  BY <1>1, <1>2, <1>3, <1>4 DEF JobsInv

LEMMA ThreeParts ==
    ASSUME NEW S, NEW a \in Seq(S), NEW b \in Seq(S), NEW c \in Seq(S)
    PROVE  (a \o b) \o c \in Seq(S) /\ Len((a \o b) \o c) = Len(a) + Len(b) + Len(c)
<1>1. a \o b \in Seq(S) /\ Len(a \o b) = Len(a) + Len(b)
  BY ConcatProperties
<1>2. (a \o b) \o c \in Seq(S) /\ Len((a \o b) \o c) = Len(a \o b) + Len(c)
  BY <1>1, ConcatProperties
<1> QED
  BY <1>1, <1>2

LEMMA NumbersOf ==
    ASSUME NEW n \in Nat, NEW s \in Seq(1..n), Len(s) = n
    PROVE  s \in Seq(Nat) /\ \A k \in 1..n : s[k] \in 1..n
<1>1. \A k \in 1..n : s[k] \in 1..n
  BY ElementOfSeq
<1>2. 1..n \subseteq Nat
  OBVIOUS
<1> QED
  BY <1>1, <1>2, SeqMonotonic

(* An event may be listed before the one that was committed last.          *)
LEMMA InsertedRow ==
    ASSUME NEW n \in Nat, NEW rows \in Seq(Nat), Len(rows) = n, \A k \in 1..n : rows[k] \in 1..n,
           NEW i \in 1..(n + 1)
    PROVE  /\ InsertAt(rows, i, n + 1) \in Seq(Nat) /\ Len(InsertAt(rows, i, n + 1)) = n + 1
           /\ \A k \in 1..(n + 1) : InsertAt(rows, i, n + 1)[k] \in 1..(n + 1)
<1>a. PICK S : S = 1..(n + 1)
  OBVIOUS
<1>b. PICK a, b, c : a = SubSeq(rows, 1, i - 1) /\ b = <<n + 1>> /\ c = SubSeq(rows, i, n)
  OBVIOUS
<1>1. a \in Seq(S) /\ Len(a) = i - 1
  <2>1. \A k \in 1..(i - 1) : rows[k] \in S
    BY <1>a
  <2> QED
    BY <1>b, <2>1, SubSeqProperties
<1>2. c \in Seq(S) /\ Len(c) = n - i + 1
  <2>1. \A k \in i..n : rows[k] \in S
    BY <1>a
  <2>2. Len(c) = IF i <= n THEN n - i + 1 ELSE 0
    BY <1>b, <2>1, SubSeqProperties
  <2> QED
    BY <1>b, <2>1, <2>2, SubSeqProperties
<1>3. b \in Seq(S) /\ Len(b) = 1
  BY <1>a, <1>b
<1>4. (a \o b) \o c \in Seq(S) /\ Len((a \o b) \o c) = n + 1
  <2>1. (a \o b) \o c \in Seq(S) /\ Len((a \o b) \o c) = Len(a) + Len(b) + Len(c)
    <3>1. \A x, y, z \in Seq(S) : (x \o y) \o z \in Seq(S) /\ Len((x \o y) \o z) = Len(x) + Len(y) + Len(z)
      BY ThreeParts
    <3> QED
      BY <1>1, <1>2, <1>3, <3>1, Zenon
  <2> QED
    BY <1>1, <1>2, <1>3, <2>1
<1>5. InsertAt(rows, i, n + 1) = (a \o b) \o c
  BY <1>b DEF InsertAt
<1>6. n + 1 \in Nat
  OBVIOUS
<1> QED
  BY <1>a, <1>4, <1>5, <1>6, NumbersOf

LEMMA CommitKeeps ==
    ASSUME JobsInv, NEW j \in Job, Commit(j)
    PROVE  JobsInv'
<1> PICK n : n = Version(j)
  OBVIOUS
<1>1. PICK status \in JobStatus : history' = [history EXCEPT ![j] = Append(@, status)]
  BY DEF Commit
<1>2. PICK i \in {n, n + 1} : listed' = [listed EXCEPT ![j] = InsertAt(@, i, n + 1)]
  BY DEF Commit
<1>3. /\ n \in Nat /\ n >= 1 /\ history[j] \in Seq(JobStatus) /\ Len(history[j]) = n
      /\ listed[j] \in Seq(Nat) /\ Len(listed[j]) = n /\ \A k \in 1..n : listed[j][k] \in 1..n
      /\ history \in [Job -> Seq(JobStatus)] /\ listed \in [Job -> Seq(Nat)]
  BY DEF JobsInv, DatabaseTyped, Version
<1>4. /\ stream' = stream /\ wire' = wire /\ live' = live /\ polling' = polling /\ retrying' = retrying
      /\ selected' = selected /\ view' = view /\ lastEvent' = lastEvent /\ answers' = answers
  BY DEF Commit, connection, client
<1>5. /\ Append(history[j], status) \in Seq(JobStatus) /\ Len(Append(history[j], status)) = n + 1
      /\ \A k \in 1..n : Append(history[j], status)[k] = history[j][k]
  BY <1>3, AppendProperties
<1>6. /\ history' \in [Job -> Seq(JobStatus)] /\ history'[j] = Append(history[j], status)
      /\ \A k \in Job \ {j} : history'[k] = history[k]
  BY <1>1, <1>3, <1>5
<1>7. /\ \A k \in Job : Version(k) \in Nat /\ Version(k)' \in Nat /\ Version(k) <= Version(k)'
      /\ Version(j)' = n + 1 /\ \A k \in Job \ {j} : Version(k)' = Version(k)
  <2>1. \A k \in Job : Len(history[k]) \in Nat /\ Len(history'[k]) \in Nat
    BY <1>3, <1>6
  <2>2. Len(history'[j]) = n + 1 /\ \A k \in Job \ {j} : Len(history'[k]) = Len(history[k])
    BY <1>5, <1>6
  <2>3. \A k \in Job : Len(history[k]) <= Len(history'[k])
    BY <1>3, <2>1, <2>2
  <2> QED
    BY <2>1, <2>2, <2>3 DEF Version
<1>8. /\ InsertAt(listed[j], i, n + 1) \in Seq(Nat) /\ Len(InsertAt(listed[j], i, n + 1)) = n + 1
      /\ \A k \in 1..(n + 1) : InsertAt(listed[j], i, n + 1)[k] \in 1..(n + 1)
  <2>1. i \in 1..(n + 1)
    BY <1>2, <1>3
  <2> QED
    BY <1>3, <2>1, InsertedRow
<1>9. DatabaseTyped'
  <2>1. /\ listed' \in [Job -> Seq(Nat)] /\ listed'[j] = InsertAt(listed[j], i, n + 1)
        /\ \A k \in Job \ {j} : listed'[k] = listed[k]
    BY <1>2, <1>3, <1>8
  <2>2. ASSUME NEW k \in Job
        PROVE  /\ Version(k)' >= 1 /\ Len(listed'[k]) = Version(k)'
               /\ \A m \in 1..Len(listed'[k]) : listed'[k][m] \in 1..Version(k)'
    <3>1. CASE k = j
      BY <1>3, <1>7, <1>8, <2>1, <3>1
    <3>2. CASE k # j
      BY <1>7, <2>1, <3>2 DEF JobsInv, DatabaseTyped
    <3> QED
      BY <3>1, <3>2
  <2> QED
    BY <1>6, <2>1, <2>2 DEF DatabaseTyped
<1>10. ClientTyped'
  <2>1. \A k \in Job : view[k] \in Nat /\ view[k] <= Version(k)'
    BY <1>7 DEF JobsInv, ClientTyped
  <2>2. ASSUME NEW a \in answers PROVE IsAnswer(a)'
    <3>1. IsAnswer(a)
      BY DEF JobsInv, ClientTyped
    <3> QED
      BY <1>7, <3>1 DEF IsAnswer
  <2> QED
    BY <1>4, <2>1, <2>2 DEF JobsInv, ClientTyped
<1>11. StreamTyped' /\ StreamIsCurrent'
  BY <1>4 DEF JobsInv, StreamTyped, StreamIsCurrent
<1>12. stream.pc # "closed" => stream.job \in Job
  BY DEF JobsInv, StreamTyped
<1>13. stream.pc = "closed" => Len(wire) = 0 /\ Len(stream.batch) = 0
  BY FreshIs DEF JobsInv, StreamTyped
<1>14. BatchIsCovered' /\ MessagesAreSeen'
  <2>1. CASE stream.pc = "closed"
    BY <1>4, <1>13, <2>1 DEF JobsInv, BatchIsCovered, MessagesAreSeen
  <2>2. CASE stream.pc # "closed"
    <3> PICK v, w : v = Version(stream.job) /\ w = Version(stream.job)'
      OBVIOUS
    <3>1. v \in Nat /\ w \in Nat /\ v <= w
      BY <1>4, <1>7, <1>12, <2>2
    <3>2. stream.loaded \in Nat
      BY DEF JobsInv, StreamTyped, IsStream
    <3>3. BatchIsCovered'
      BY <1>4, <2>2, <3>1, <3>2 DEF JobsInv, BatchIsCovered
    <3>4. MessagesAreSeen'
      BY <1>4, <2>2, <3>1, <3>2 DEF JobsInv, MessagesAreSeen
    <3> QED
      BY <3>3, <3>4
  <2> QED
    BY <2>1, <2>2
<1>15. ClientKeepsWatch'
  <2>1. selected # NoJob => Shown(selected, view)' = Shown(selected, view)
    <3>1. ASSUME selected # NoJob PROVE history'[selected][view[selected]] = history[selected][view[selected]]
      <4>1. selected \in Job /\ view[selected] \in 1..Version(selected)
        BY <1>7, <3>1 DEF JobsInv, ClientTyped
      <4> QED
        <5>1. CASE selected = j
          BY <1>3, <1>5, <1>6, <4>1, <5>1
        <5>2. CASE selected # j
          BY <1>6, <4>1, <5>2
        <5> QED
          BY <5>1, <5>2
    <3> QED
      BY <1>4, <3>1 DEF Shown
  <2>2. Active(selected, view)' <=> Active(selected, view)
    BY <1>4, <2>1 DEF Active
  <2> QED
    BY <1>4, <2>2 DEF JobsInv, ClientKeepsWatch
<1> QED
  BY <1>9, <1>10, <1>11, <1>14, <1>15 DEF JobsInv

(* The generator's poll.                                                   *)
LEMMA PolledSeen ==
    ASSUME NEW rows \in Seq(Nat), stream \in IsStream
    PROVE  /\ SeenBefore(rows) \in SUBSET Nat /\ stream.seen \subseteq SeenBefore(rows)
           /\ ResumeAfter(rows) \in RowOf \cup {NoEvent}
<1>1. stream.seen \in SUBSET Nat /\ stream.resume \in RowOf \cup {NoEvent}
  BY DEF IsStream
<1>2. \A i \in 1..Len(rows) : rows[i] \in Nat
  OBVIOUS
<1>3. ToSet(rows) \in SUBSET Nat
  BY <1>2 DEF ToSet
<1>4. ResumeAt(rows) # 0 => ToSet(SubSeq(rows, 1, ResumeAt(rows))) \in SUBSET Nat
  <2>1. SUFFICES ASSUME ResumeAt(rows) # 0 PROVE ToSet(SubSeq(rows, 1, ResumeAt(rows))) \in SUBSET Nat
    OBVIOUS
  <2>2. stream.resume.n \in ToSet(rows)
    BY <2>1 DEF ResumeAt
  <2>3. PICK i \in DOMAIN rows : rows[i] = stream.resume.n
    BY <2>2 DEF ToSet
  <2>4. (CHOOSE k \in DOMAIN rows : rows[k] = stream.resume.n) \in DOMAIN rows
    BY <2>3
  <2>5. ResumeAt(rows) \in DOMAIN rows
    BY <2>1, <2>4 DEF ResumeAt
  <2>6. PICK m : m = ResumeAt(rows)
    OBVIOUS
  <2>7. m \in 1..Len(rows) /\ \A k \in 1..m : rows[k] \in Nat
    BY <1>2, <2>5, <2>6
  <2>8. SubSeq(rows, 1, m) \in Seq(Nat)
    BY <2>7, SubSeqProperties
  <2>9. ToSet(SubSeq(rows, 1, m)) \in SUBSET Nat
    BY <2>8 DEF ToSet
  <2> QED
    BY <2>6, <2>9
<1>5. stream.seen = {} \/ stream.seen # {}
  OBVIOUS
<1> QED
  BY <1>1, <1>3, <1>4, <1>5 DEF SeenBefore, ResumeAfter

LEMMA PollKeeps ==
    ASSUME JobsInv, Poll
    PROVE  JobsInv'
<1>1. /\ stream \in IsStream /\ stream.pc \in {"new", "polling"} /\ stream.job = selected /\ selected \in Job
      /\ stream # Closed /\ stream.loaded = 0
  BY FreshIs DEF JobsInv, StreamTyped, BatchIsCovered, Poll
<1>2. PICK rows, seen, batch : rows = listed[stream.job] /\ seen = SeenBefore(rows) /\ batch = From(rows, seen)
  OBVIOUS
<1>3. PICK v : v = Version(stream.job)
  OBVIOUS
<1>4. rows \in Seq(Nat) /\ v \in Nat /\ v >= 1 /\ Len(rows) = v /\ \A i \in 1..Len(rows) : rows[i] \in 1..v
  BY <1>1, <1>2, <1>3 DEF JobsInv, DatabaseTyped, Version
<1>5. seen \in SUBSET Nat /\ stream.seen \subseteq seen /\ ResumeAfter(rows) \in RowOf \cup {NoEvent}
  BY <1>1, <1>2, <1>4, PolledSeen
<1>6. /\ batch \in Seq(Nat) /\ (batch # <<>> => batch[1] \notin seen)
      /\ \A i \in 1..Len(batch) : \E k \in 1..Len(rows) : batch[i] = rows[k]
  <2>1. /\ From(rows, seen) \in Seq(Nat) /\ (From(rows, seen) # <<>> => From(rows, seen)[1] \notin seen)
        /\ \A i \in 1..Len(From(rows, seen)) : \E k \in 1..Len(rows) : From(rows, seen)[i] = rows[k]
    BY <1>4, FromIsNew
  <2> QED
    BY <1>2, <2>1
<1>7. PICK p \in {"polling", "sending"} : p = IF batch = <<>> THEN "polling" ELSE "sending"
  OBVIOUS
<1>8. /\ stream' = [stream EXCEPT !.pc = p, !.resume = ResumeAfter(rows), !.seen = seen, !.batch = batch, !.polled = TRUE]
      /\ history' = history /\ listed' = listed /\ wire' = wire /\ live' = live /\ polling' = polling
      /\ retrying' = retrying /\ selected' = selected /\ view' = view /\ lastEvent' = lastEvent /\ answers' = answers
  BY <1>2, <1>7 DEF Poll, database, client
<1>9. /\ stream' \in IsStream /\ stream'.pc = p /\ stream'.job = stream.job /\ stream'.seen = seen
      /\ stream'.batch = batch /\ stream'.loaded = 0
  <2>1. PICK s, t, e : s = stream /\ t = stream' /\ e = ResumeAfter(rows)
    OBVIOUS
  <2>2. t = [s EXCEPT !.pc = p, !.resume = e, !.seen = seen, !.batch = batch, !.polled = TRUE]
    BY <1>8, <2>1
  <2>3. /\ t \in IsStream /\ t.pc = p /\ t.job = s.job /\ t.seen = seen /\ t.batch = batch
        /\ t.loaded = s.loaded
    <3>1. s \in IsStream /\ seen \in SUBSET Nat /\ batch \in Seq(Nat) /\ e \in RowOf \cup {NoEvent}
      BY <1>1, <1>5, <1>6, <2>1
    <3> QED
      BY <2>2, <3>1 DEF IsStream
  <2> QED
    BY <1>1, <2>1, <2>3
<1>10. DatabaseTyped' /\ ClientTyped'
  BY <1>8 DEF JobsInv, DatabaseTyped, ClientTyped, IsAnswer, Version
<1>11. StreamTyped'
  BY <1>1, <1>8, <1>9 DEF JobsInv, StreamTyped
<1>12. Version(stream.job)' = v
  BY <1>3, <1>8, <1>9 DEF Version
<1>13. BatchIsCovered'
  <2>1. \A i \in 1..Len(batch) : batch[i] \in 1..v
    BY <1>4, <1>6
  <2>2. IF p = "sending" THEN batch # <<>> /\ batch[1] \notin seen ELSE TRUE
    BY <1>6, <1>7
  <2> QED
    BY <1>4, <1>9, <1>12, <2>1, <2>2 DEF BatchIsCovered
<1>14. MessagesAreSeen'
  BY <1>3, <1>5, <1>8, <1>9, <1>12 DEF JobsInv, MessagesAreSeen
<1>15. StreamIsCurrent'
  BY <1>8, <1>9 DEF JobsInv, StreamIsCurrent
<1>16. ClientKeepsWatch'
  <2>1. Active(selected, view)' <=> Active(selected, view)
    BY <1>8 DEF Active, Shown
  <2> QED
    BY <1>1, <1>8, <1>9, <2>1 DEF JobsInv, ClientKeepsWatch
<1> QED
  BY <1>10, <1>11, <1>13, <1>14, <1>15, <1>16 DEF JobsInv

(* What is sent was not seen before, and no message shows a newer job.     *)
LEMMA SendKeeps ==
    ASSUME JobsInv, Send
    PROVE  JobsInv'
<1>1. /\ stream \in IsStream /\ stream.pc = "sending" /\ stream.job = selected /\ selected \in Job
      /\ stream # Closed /\ stream.batch # <<>> /\ stream.batch[1] \notin stream.seen
  BY FreshIs DEF JobsInv, StreamTyped, BatchIsCovered, Send
<1>2. PICK v, L, n : v = Version(stream.job) /\ L = Loaded /\ n = Head(stream.batch)
  OBVIOUS
<1>3. v \in Nat /\ v >= 1
  BY <1>1, <1>2 DEF JobsInv, DatabaseTyped, Version
<1>4. stream.loaded \in Nat /\ stream.loaded <= v /\ stream.batch \in Seq(Nat) /\ stream.seen \in SUBSET Nat
  BY <1>1, <1>2 DEF JobsInv, BatchIsCovered, IsStream
<1>5. /\ \A i \in 1..Len(stream.batch) : stream.batch[i] \in 1..v /\ (stream.loaded # 0 => stream.batch[i] <= stream.loaded)
      /\ \A i \in 1..Len(wire) : /\ wire[i].event.n \in stream.seen /\ wire[i].version \in 1..v
                                 /\ stream.loaded # 0 => wire[i].version <= stream.loaded
  BY <1>1, <1>2 DEF JobsInv, BatchIsCovered, MessagesAreSeen
<1>6. /\ L \in 1..v /\ L # 0 /\ \A i \in 1..Len(stream.batch) : stream.batch[i] <= L
      /\ \A i \in 1..Len(wire) : wire[i].version <= L
  BY <1>2, <1>3, <1>4, <1>5 DEF Loaded
<1>7. /\ n \in Nat /\ n = stream.batch[1] /\ n \notin stream.seen /\ n <= L /\ n \in 1..v
      /\ Tail(stream.batch) \in Seq(Nat)
      /\ \A i \in 1..Len(Tail(stream.batch)) : \E k \in 1..Len(stream.batch) : Tail(stream.batch)[i] = stream.batch[k]
  <2>1. /\ Tail(stream.batch) \in Seq(Nat) /\ Len(Tail(stream.batch)) = Len(stream.batch) - 1
        /\ \A i \in 1..Len(Tail(stream.batch)) : Tail(stream.batch)[i] = stream.batch[i + 1]
    BY <1>1, <1>4, HeadTailProperties
  <2>2. \A i \in 1..Len(Tail(stream.batch)) : i + 1 \in 1..Len(stream.batch)
    BY <1>4, <2>1
  <2>3. 1 \in 1..Len(stream.batch) /\ n = stream.batch[1]
    BY <1>1, <1>2, <1>4
  <2> QED
    BY <1>1, <1>5, <1>6, <2>1, <2>2, <2>3
<1>8. PICK seen, rest : seen = stream.seen \cup {n} /\ rest = From(Tail(stream.batch), seen)
  OBVIOUS
<1>9. /\ rest \in Seq(Nat) /\ (rest # <<>> => rest[1] \notin seen)
      /\ \A i \in 1..Len(rest) : rest[i] \in 1..v /\ rest[i] <= L
  <2>1. PICK tail : tail = Tail(stream.batch)
    OBVIOUS
  <2>2. /\ From(tail, seen) \in Seq(Nat) /\ (From(tail, seen) # <<>> => From(tail, seen)[1] \notin seen)
        /\ \A i \in 1..Len(From(tail, seen)) : \E h \in 1..Len(tail) : From(tail, seen)[i] = tail[h]
    <3>1. tail \in Seq(Nat)
      BY <1>7, <2>1
    <3> QED
      BY <3>1, FromIsNew
  <2>3. /\ rest \in Seq(Nat) /\ (rest # <<>> => rest[1] \notin seen)
        /\ \A i \in 1..Len(rest) : \E h \in 1..Len(tail) : rest[i] = tail[h]
    BY <1>8, <2>1, <2>2
  <2>4. \A h \in 1..Len(tail) : tail[h] \in 1..v /\ tail[h] <= L
    BY <1>5, <1>6, <1>7, <2>1
  <2> QED
    BY <2>3, <2>4
<1>10. PICK p \in {"polling", "sending"}, k \in Nat :
          p = (IF rest = <<>> THEN "polling" ELSE "sending") /\ k = IF rest = <<>> THEN 0 ELSE L
  BY <1>6
<1>11. PICK m : m = [event |-> [job |-> stream.job, n |-> n], version |-> L]
  OBVIOUS
<1>12. /\ stream' = [stream EXCEPT !.pc = p, !.seen = seen, !.batch = rest, !.loaded = k]
       /\ wire' = Append(wire, m)
       /\ history' = history /\ listed' = listed /\ live' = live /\ polling' = polling
       /\ retrying' = retrying /\ selected' = selected /\ view' = view /\ lastEvent' = lastEvent /\ answers' = answers
  BY <1>2, <1>8, <1>10, <1>11 DEF Send, Kept, database, client
<1>13. /\ stream' \in IsStream /\ stream'.pc = p /\ stream'.job = stream.job /\ stream'.seen = seen
       /\ stream'.batch = rest /\ stream'.loaded = k
  <2>1. seen \in SUBSET Nat
    BY <1>4, <1>7, <1>8
  <2> QED
    <3>1. PICK s, t : s = stream /\ t = stream'
      OBVIOUS
    <3>2. t = [s EXCEPT !.pc = p, !.seen = seen, !.batch = rest, !.loaded = k]
      BY <1>12, <3>1
    <3>3. /\ t \in IsStream /\ t.pc = p /\ t.job = s.job /\ t.seen = seen /\ t.batch = rest
          /\ t.loaded = k
      <4>1. s \in IsStream /\ rest \in Seq(Nat)
        BY <1>1, <1>9, <3>1
      <4> QED
        BY <2>1, <3>2, <4>1 DEF IsStream
    <3> QED
      BY <3>1, <3>3
<1>14. /\ m.event.job = stream.job /\ m.event.n = n /\ m.version = L
       /\ m \in [event : RowOf, version : Nat]
  BY <1>1, <1>3, <1>6, <1>7, <1>11 DEF RowOf
<1>15. wire \in Seq([event : RowOf, version : Nat])
  BY DEF JobsInv, StreamTyped
<1>16. /\ wire' \in Seq([event : RowOf, version : Nat]) /\ Len(wire') = Len(wire) + 1 /\ Len(wire) \in Nat
       /\ \A i \in 1..Len(wire) : wire'[i] = wire[i]
       /\ wire'[Len(wire) + 1] = m
  BY <1>12, <1>14, <1>15, AppendProperties
<1>17. DatabaseTyped' /\ ClientTyped'
  BY <1>12 DEF JobsInv, DatabaseTyped, ClientTyped, IsAnswer, Version
<1>18. StreamTyped'
  BY <1>1, <1>12, <1>13, <1>16 DEF JobsInv, StreamTyped
<1>19. Version(stream.job)' = v
  BY <1>2, <1>12, <1>13 DEF Version
<1>20. BatchIsCovered'
  <2>1. IF p = "sending" THEN rest # <<>> /\ rest[1] \notin seen ELSE k = 0
    BY <1>9, <1>10
  <2>2. k <= v /\ (k # 0 => k = L)
    BY <1>3, <1>6, <1>10
  <2> QED
    BY <1>9, <1>13, <1>19, <2>1, <2>2 DEF BatchIsCovered
<1>21. MessagesAreSeen'
  <2>1. k # 0 => k = L
    BY <1>10
  <2>2. \A i \in 1..Len(wire) : wire'[i].event.n \in seen /\ wire'[i].version \in 1..v /\ (k # 0 => wire'[i].version <= k)
    BY <1>5, <1>6, <1>8, <1>16, <2>1
  <2>3. m.event.n \in seen /\ m.version \in 1..v /\ (k # 0 => m.version <= k)
    BY <1>6, <1>8, <1>14, <2>1
  <2>4. \A i \in 1..Len(wire') : i \in 1..Len(wire) \/ i = Len(wire) + 1
    BY <1>16
  <2> QED
    BY <1>13, <1>16, <1>19, <2>2, <2>3, <2>4 DEF MessagesAreSeen
<1>22. StreamIsCurrent'
  <2>1. SUFFICES ASSUME NEW i \in 1..Len(wire')
                 PROVE  /\ wire'[i].event.job = stream'.job /\ wire'[i].version >= wire'[i].event.n
                        /\ \A h \in 1..(i - 1) : wire'[h].event # wire'[i].event /\ wire'[h].version <= wire'[i].version
    BY <1>16 DEF StreamIsCurrent
  <2>2. CASE i \in 1..Len(wire)
    <3>1. \A h \in 1..(i - 1) : h \in 1..Len(wire)
      BY <1>16, <2>2
    <3> QED
      <4>1. DOMAIN wire = 1..Len(wire)
        BY <1>15
      <4>2. /\ wire[i].event.job = stream.job /\ wire[i].version >= wire[i].event.n
            /\ \A h \in 1..(i - 1) : wire[h].event # wire[i].event /\ wire[h].version <= wire[i].version
        BY <2>2, <4>1 DEF JobsInv, StreamIsCurrent
      <4> QED
        BY <1>13, <1>16, <2>2, <3>1, <4>2
  <2>3. CASE i = Len(wire) + 1
    <3>1. \A h \in 1..(i - 1) : h \in 1..Len(wire) /\ wire[h].event # m.event /\ wire[h].version <= m.version
      BY <1>5, <1>6, <1>7, <1>14, <1>16, <2>3
    <3> QED
      BY <1>7, <1>6, <1>13, <1>14, <1>16, <2>3, <3>1
  <2> QED
    BY <1>16, <2>2, <2>3
<1>23. ClientKeepsWatch'
  <2>1. Active(selected, view)' <=> Active(selected, view)
    BY <1>12 DEF Active, Shown
  <2> QED
    BY <1>1, <1>12, <1>13, <2>1 DEF JobsInv, ClientKeepsWatch
<1> QED
  BY <1>17, <1>18, <1>20, <1>21, <1>22, <1>23 DEF JobsInv

(* The server answers with the versions that there are.                    *)
LEMMA ServeKeeps ==
    ASSUME JobsInv, NEW x \in Job \cup {NoJob}, Serve(x)
    PROVE  JobsInv'
<1>1. /\ history' = history /\ listed' = listed /\ stream' = stream /\ wire' = wire /\ live' = live
      /\ polling' = polling /\ retrying' = retrying /\ selected' = selected /\ view' = view /\ lastEvent' = lastEvent
  BY DEF Serve, database, connection
<1>2. PICK read : read = [of |-> x, versions |-> [j \in Job |-> IF x \in {j, NoJob} THEN Version(j) ELSE 0]]
  OBVIOUS
<1>3. answers' = answers \cup {read}
  BY <1>2 DEF Serve
<1>4. \A j \in Job : Version(j) \in Nat /\ Version(j) >= 1 /\ Version(j)' = Version(j)
  BY <1>1 DEF JobsInv, DatabaseTyped, Version
<1>5. read.of = x /\ read.versions \in [Job -> Nat]
      /\ \A j \in Job : read.versions[j] = IF x \in {j, NoJob} THEN Version(j) ELSE 0
  BY <1>2, <1>4
<1>6. \A a : IsAnswer(a) => IsAnswer(a)'
  BY <1>4 DEF IsAnswer
<1>7. IsAnswer(read)
  BY <1>4, <1>5 DEF IsAnswer
<1>8. ClientTyped'
  <2>1. \A a \in answers' : IsAnswer(a)'
    BY <1>3, <1>6, <1>7 DEF JobsInv, ClientTyped
  <2> QED
    BY <1>1, <1>4, <2>1 DEF JobsInv, ClientTyped
<1>9. DatabaseTyped' /\ StreamTyped' /\ BatchIsCovered' /\ MessagesAreSeen' /\ StreamIsCurrent' /\ ClientKeepsWatch'
  BY <1>1 DEF JobsInv, DatabaseTyped, StreamTyped, BatchIsCovered, MessagesAreSeen, StreamIsCurrent,
              ClientKeepsWatch, Active, Shown, Version
<1> QED
  BY <1>8, <1>9 DEF JobsInv

(* A connection that is given up and made anew, if the job is active.      *)
LEMMA RenderKeeps ==
    ASSUME JobsInv, NEW sel \in Job \cup {NoJob}, NEW v \in [Job -> Nat], Render(sel, v),
           \A j \in Job : v[j] <= Version(j), sel # NoJob => v[sel] # 0,
           UNCHANGED database, answers' \subseteq answers, lastEvent' \in RowOf \cup {NoEvent}
    PROVE  JobsInv'
<1>1. history' = history /\ listed' = listed /\ selected' = sel /\ view' = v
  BY DEF Render, database
<1>2. \A j \in Job : Version(j)' = Version(j)
  BY <1>1 DEF Version
<1>3. DatabaseTyped'
  BY <1>1 DEF JobsInv, DatabaseTyped, Version
<1>4. ClientTyped'
  <2>1. \A a \in answers' : IsAnswer(a)'
    BY <1>2 DEF JobsInv, ClientTyped, IsAnswer
  <2> QED
    BY <1>1, <1>2, <2>1 DEF ClientTyped
<1>5. Shown(selected, view)' = Shown(sel, v) /\ (Active(selected, view)' <=> Active(sel, v))
  BY <1>1 DEF Shown, Active
<1>6. CASE sel = selected /\ Shown(sel, v) = Shown(selected, view)
  <2>1. stream' = stream /\ wire' = wire /\ live' = live /\ polling' = polling /\ retrying' = retrying
    BY <1>6 DEF Render, connection
  <2>2. StreamTyped' /\ BatchIsCovered' /\ MessagesAreSeen' /\ StreamIsCurrent'
    BY <1>1, <1>6, <2>1 DEF JobsInv, StreamTyped, BatchIsCovered, MessagesAreSeen, StreamIsCurrent, Version
  <2>3. Active(sel, v) <=> Active(selected, view)
    BY <1>6 DEF Active
  <2>4. ClientKeepsWatch'
    BY <1>1, <1>5, <1>6, <2>1, <2>3 DEF JobsInv, ClientKeepsWatch
  <2> QED
    BY <1>3, <1>4, <2>2, <2>4 DEF JobsInv
<1>7. CASE ~(sel = selected /\ Shown(sel, v) = Shown(selected, view))
  <2>1. wire' = <<>> /\ polling' = FALSE /\ retrying' = FALSE
    BY <1>7 DEF Render
  <2>2. MessagesAreSeen' /\ StreamIsCurrent'
    BY <2>1 DEF MessagesAreSeen, StreamIsCurrent
  <2>3. CASE Active(sel, v)
    <3>1. stream' = Fresh("new", sel, lastEvent') /\ sel \in Job
      BY <1>7, <2>3 DEF Render, Connect, Active
    <3>2. /\ stream' \in IsStream /\ stream'.pc = "new" /\ stream'.job = sel /\ stream'.loaded = 0
          /\ stream'.batch = <<>>
      BY <3>1, FreshIs
    <3>3. StreamTyped'
      BY <1>1, <2>1, <3>1, <3>2 DEF StreamTyped
    <3>4. BatchIsCovered'
      BY <1>1, <3>1, <3>2, <1>3 DEF BatchIsCovered, DatabaseTyped, Version
    <3>5. ClientKeepsWatch'
      BY <1>1, <1>5, <2>3, <3>2 DEF ClientKeepsWatch
    <3> QED
      BY <1>3, <1>4, <2>2, <3>3, <3>4, <3>5 DEF JobsInv
  <2>4. CASE ~Active(sel, v)
    <3>1. stream' = Closed
      BY <1>7, <2>4 DEF Render
    <3>2. StreamTyped' /\ BatchIsCovered'
      BY <2>1, <3>1, FreshIs DEF StreamTyped, BatchIsCovered
    <3>3. ClientKeepsWatch'
      BY <1>5, <2>1, <2>4, <3>1 DEF ClientKeepsWatch
    <3> QED
      BY <1>3, <1>4, <2>2, <3>2, <3>3 DEF JobsInv
  <2> QED
    BY <2>3, <2>4
<1> QED
  BY <1>6, <1>7

LEMMA SelectKeeps ==
    ASSUME JobsInv, NEW j \in Job, Select(j)
    PROVE  JobsInv'
<1>1. /\ Render(j, view) /\ view[j] # 0 /\ view \in [Job -> Nat] /\ UNCHANGED database
      /\ answers' = answers /\ lastEvent' = lastEvent
  BY DEF Select, JobsInv, ClientTyped
<1>2. lastEvent' \in RowOf \cup {NoEvent} /\ answers' \subseteq answers /\ \A k \in Job : view[k] <= Version(k)
  BY <1>1 DEF JobsInv, StreamTyped, ClientTyped
<1> QED
  BY <1>1, <1>2, RenderKeeps

LEMMA ReceiveAnswerKeeps ==
    ASSUME JobsInv, NEW a \in answers, ReceiveAnswer(a)
    PROVE  JobsInv'
<1>1. UNCHANGED database /\ answers' \subseteq answers /\ lastEvent' \in RowOf \cup {NoEvent}
  BY DEF ReceiveAnswer, JobsInv, StreamTyped
<1>2. /\ a.of \in Job \cup {NoJob} /\ a.versions \in [Job -> Nat] /\ view \in [Job -> Nat]
      /\ \A j \in Job : a.versions[j] <= Version(j) /\ (a.of \in {j, NoJob} => a.versions[j] # 0)
      /\ \A j \in Job : view[j] <= Version(j)
  BY DEF JobsInv, ClientTyped, IsAnswer
<1>3. CASE a.of = NoJob
  <2>1. PICK j \in Job : Render(j, a.versions)
    BY <1>3 DEF ReceiveAnswer
  <2>2. a.versions[j] # 0
    BY <1>2, <1>3
  <2> QED
    BY <1>1, <1>2, <2>1, <2>2, RenderKeeps
<1>4. CASE a.of # NoJob
  <2>1. PICK v : v = [view EXCEPT ![a.of] = a.versions[a.of]]
    OBVIOUS
  <2>2. Render(a.of, v)
    BY <1>4, <2>1 DEF ReceiveAnswer
  <2>3. a.of \in Job /\ v \in [Job -> Nat] /\ v[a.of] # 0 /\ \A j \in Job : v[j] <= Version(j)
    BY <1>2, <1>4, <2>1
  <2> QED
    BY <1>1, <2>2, <2>3, RenderKeeps
<1> QED
  BY <1>3, <1>4

LEMMA OnMessageKeeps ==
    ASSUME JobsInv, OnMessage
    PROVE  JobsInv'
<1>1. PICK m, v : m = Head(wire) /\ v = [view EXCEPT ![m.event.job] = m.version]
  OBVIOUS
<1>2. /\ wire # <<>> /\ wire \in Seq([event : RowOf, version : Nat]) /\ stream.job = selected /\ selected \in Job
      /\ stream.pc # "closed" /\ stream \in IsStream
  BY DEF OnMessage, JobsInv, StreamTyped
<1>3. 1 \in 1..Len(wire) /\ m = wire[1] /\ DOMAIN wire = 1..Len(wire) /\ m \in [event : RowOf, version : Nat]
  <2>1. PICK Sent : Sent = [event : RowOf, version : Nat]
    OBVIOUS
  <2>2. wire \in Seq(Sent) /\ wire # <<>>
    BY <1>2, <2>1
  <2>3. 1 \in 1..Len(wire) /\ DOMAIN wire = 1..Len(wire) /\ Head(wire) = wire[1]
    BY <2>2
  <2>4. wire[1] \in Sent
    BY <2>2, <2>3, ElementOfSeq
  <2> QED
    BY <1>1, <2>1, <2>3, <2>4
<1>4. /\ m.event.job = selected /\ m.version \in 1..Version(selected) /\ m.version \in Nat
      /\ m.event \in RowOf
  BY <1>2, <1>3 DEF JobsInv, StreamIsCurrent, MessagesAreSeen
<1>5. /\ view \in [Job -> Nat] /\ view[selected] # 0 /\ \A j \in Job : view[j] <= Version(j) /\ Version(j) \in Nat
  BY <1>2 DEF JobsInv, ClientTyped, DatabaseTyped, Version
<1>6. v \in [Job -> Nat] /\ v[selected] # 0 /\ \A j \in Job : v[j] <= Version(j)
  BY <1>1, <1>2, <1>4, <1>5
<1>7. UNCHANGED database /\ answers' = answers /\ lastEvent' \in RowOf \cup {NoEvent}
  BY <1>1, <1>4 DEF OnMessage
<1>8. CASE m.event # lastEvent /\ Shown(selected, v) # Shown(selected, view)
  <2>1. Render(selected, v)
    BY <1>1, <1>8 DEF OnMessage
  <2> QED
    BY <1>2, <1>6, <1>7, <2>1, RenderKeeps
<1>9. CASE ~(m.event # lastEvent /\ Shown(selected, v) # Shown(selected, view))
  <2>1. /\ wire' = Tail(wire) /\ stream' = stream /\ polling' = polling /\ retrying' = retrying
        /\ selected' = selected /\ view' \in {view, v} /\ Shown(selected, view') = Shown(selected, view)
        /\ history' = history /\ listed' = listed
    BY <1>1, <1>7, <1>9 DEF OnMessage, database
  <2>2. DatabaseTyped'
    BY <2>1 DEF JobsInv, DatabaseTyped, Version
  <2>3. ClientTyped'
    BY <1>2, <1>5, <1>6, <1>7, <2>1 DEF JobsInv, ClientTyped, IsAnswer, Version
  <2>4. /\ Tail(wire) \in Seq([event : RowOf, version : Nat]) /\ Len(Tail(wire)) = Len(wire) - 1
        /\ \A i \in 1..Len(Tail(wire)) : Tail(wire)[i] = wire[i + 1]
    BY <1>2, HeadTailProperties
  <2>5. \A i \in 1..Len(Tail(wire)) : i + 1 \in 1..Len(wire)
    BY <1>2, <2>4
  <2>6. StreamTyped'
    BY <1>2, <1>7, <2>1, <2>4 DEF JobsInv, StreamTyped
  <2>7. BatchIsCovered'
    BY <2>1 DEF JobsInv, BatchIsCovered, Version
  <2>8. MessagesAreSeen'
    BY <2>1, <2>4, <2>5 DEF JobsInv, MessagesAreSeen, Version
  <2>9. StreamIsCurrent'
    <3>1. DOMAIN wire' = 1..Len(Tail(wire))
      BY <2>1, <2>4
    <3>2. ASSUME NEW i \in 1..Len(Tail(wire))
          PROVE  /\ wire'[i].event.job = stream'.job /\ wire'[i].version >= wire'[i].event.n
                 /\ \A h \in 1..(i - 1) : wire'[h].event # wire'[i].event /\ wire'[h].version <= wire'[i].version
      <4>1. i + 1 \in DOMAIN wire /\ \A h \in 1..(i - 1) : h \in 1..Len(Tail(wire)) /\ h + 1 \in 1..((i + 1) - 1)
        BY <1>3, <2>4, <2>5
      <4>2. /\ wire[i + 1].event.job = stream.job /\ wire[i + 1].version >= wire[i + 1].event.n
            /\ \A h \in 1..((i + 1) - 1) : wire[h].event # wire[i + 1].event /\ wire[h].version <= wire[i + 1].version
        BY <4>1 DEF JobsInv, StreamIsCurrent
      <4> QED
        BY <2>1, <2>4, <4>1, <4>2
    <3> QED
      BY <3>1, <3>2 DEF StreamIsCurrent
  <2>10. ClientKeepsWatch'
    <3>1. Active(selected, view)' <=> Active(selected, view)
      BY <2>1 DEF Active, Shown
    <3> QED
      BY <2>1, <3>1 DEF JobsInv, ClientKeepsWatch
  <2> QED
    BY <2>2, <2>3, <2>6, <2>7, <2>8, <2>9, <2>10 DEF JobsInv
<1> QED
  BY <1>8, <1>9

(* A lost stream is closed, and connected again when the timer fires.      *)
LEMMA OnErrorKeeps ==
    ASSUME JobsInv, OnError
    PROVE  JobsInv'
<1>1. /\ stream' = Closed /\ wire' = <<>> /\ polling' = TRUE /\ retrying' = TRUE /\ history' = history
      /\ listed' = listed /\ selected' = selected /\ view' = view /\ lastEvent' = lastEvent /\ answers' = answers
  BY DEF OnError, database
<1>2. DatabaseTyped' /\ ClientTyped'
  BY <1>1 DEF JobsInv, DatabaseTyped, ClientTyped, IsAnswer, Version
<1>3. StreamTyped' /\ BatchIsCovered' /\ MessagesAreSeen' /\ StreamIsCurrent'
  BY <1>1, FreshIs DEF JobsInv, StreamTyped, BatchIsCovered, MessagesAreSeen, StreamIsCurrent
<1>4. ClientKeepsWatch'
  <2>1. stream.pc # "closed" /\ stream # Closed
    BY FreshIs DEF OnError
  <2>2. Active(selected, view)
    BY <2>1 DEF JobsInv, ClientKeepsWatch
  <2>3. Active(selected, view)'
    BY <1>1, <2>2 DEF Active, Shown
  <2> QED
    BY <1>1, <2>3 DEF ClientKeepsWatch
<1> QED
  BY <1>2, <1>3, <1>4 DEF JobsInv

LEMMA RetryKeeps ==
    ASSUME JobsInv, Retry
    PROVE  JobsInv'
<1>1. /\ stream' = Fresh("new", selected, lastEvent) /\ wire' = wire /\ polling' = polling /\ retrying' = FALSE
      /\ history' = history /\ listed' = listed /\ selected' = selected /\ view' = view
      /\ lastEvent' = lastEvent /\ answers' = answers
  BY DEF Retry, Connect, database
<1>2. retrying /\ stream = Closed /\ wire = <<>> /\ lastEvent \in RowOf \cup {NoEvent}
  BY FreshIs DEF Retry, JobsInv, StreamTyped
<1>3. Active(selected, view) /\ selected \in Job
  BY <1>2 DEF JobsInv, ClientKeepsWatch, ClientTyped, Active
<1>4. /\ stream' \in IsStream /\ stream'.pc = "new" /\ stream'.job = selected /\ stream'.loaded = 0
      /\ stream'.batch = <<>>
  BY <1>1, <1>2, <1>3, FreshIs
<1>5. DatabaseTyped' /\ ClientTyped'
  BY <1>1 DEF JobsInv, DatabaseTyped, ClientTyped, IsAnswer, Version
<1>6. StreamTyped' /\ MessagesAreSeen' /\ StreamIsCurrent'
  BY <1>1, <1>2, <1>3, <1>4 DEF StreamTyped, MessagesAreSeen, StreamIsCurrent
<1>7. BatchIsCovered'
  BY <1>1, <1>3, <1>4, <1>5 DEF BatchIsCovered, DatabaseTyped, Version
<1>8. ClientKeepsWatch'
  <2>1. Active(selected, view)'
    BY <1>1, <1>3 DEF Active, Shown
  <2> QED
    BY <1>1, <1>4, <2>1 DEF ClientKeepsWatch
<1> QED
  BY <1>5, <1>6, <1>7, <1>8 DEF JobsInv

(* The other steps change the requests and what the timers say.            *)
LEMMA OthersKeep ==
    ASSUME JobsInv, \/ TryAgain \/ OnOpen \/ PollTimer \/ \E x \in Job \cup {NoJob} : RequestFails(x)
    PROVE  JobsInv'
<1>1. /\ stream' = stream /\ wire' = wire /\ retrying' = retrying /\ history' = history /\ listed' = listed
      /\ selected' = selected /\ view' = view /\ lastEvent' = lastEvent /\ answers' = answers
  BY DEF TryAgain, OnOpen, PollTimer, RequestFails, database, connection, client
<1>2. polling' = polling \/ stream.pc # "closed"
  BY DEF TryAgain, OnOpen, PollTimer, RequestFails, connection
<1>3. DatabaseTyped' /\ ClientTyped'
  BY <1>1 DEF JobsInv, DatabaseTyped, ClientTyped, IsAnswer, Version
<1>4. StreamTyped' /\ BatchIsCovered' /\ MessagesAreSeen' /\ StreamIsCurrent'
  BY <1>1 DEF JobsInv, StreamTyped, BatchIsCovered, MessagesAreSeen, StreamIsCurrent, Version
<1>5. ClientKeepsWatch'
  <2>1. Active(selected, view)' <=> Active(selected, view)
    BY <1>1 DEF Active, Shown
  <2>2. stream.pc # "closed" => stream.job = selected /\ stream # Closed
    BY FreshIs DEF JobsInv, StreamTyped
  <2> QED
    BY <1>1, <1>2, <2>1, <2>2 DEF JobsInv, ClientKeepsWatch
<1> QED
  BY <1>3, <1>4, <1>5 DEF JobsInv

LEMMA JobsStep == JobsInv /\ [Next]_vars => JobsInv'
<1> SUFFICES ASSUME JobsInv, [Next]_vars PROVE JobsInv'
  OBVIOUS
<1>1. CASE \E j \in Job : Commit(j) \/ Select(j)
  BY <1>1, CommitKeeps, SelectKeeps
<1>2. CASE \E x \in Job \cup {NoJob} : Serve(x) \/ RequestFails(x)
  BY <1>2, ServeKeeps, OthersKeep
<1>3. CASE \E a \in answers : ReceiveAnswer(a)
  BY <1>3, ReceiveAnswerKeeps
<1>4. CASE Poll \/ Send \/ OnMessage \/ OnError \/ Retry
  BY <1>4, PollKeeps, SendKeeps, OnMessageKeeps, OnErrorKeeps, RetryKeeps
<1>5. CASE TryAgain \/ OnOpen \/ PollTimer
  BY <1>5, OthersKeep
<1>6. CASE UNCHANGED vars
  BY <1>6 DEF vars, database, connection, client, JobsInv, DatabaseTyped, ClientTyped, IsAnswer, StreamTyped,
              BatchIsCovered, MessagesAreSeen, StreamIsCurrent, ClientKeepsWatch, Active, Shown, Version
<1> QED
  BY <1>1, <1>2, <1>3, <1>4, <1>5, <1>6 DEF Next
-----------------------------------------------------------------------------
(* The live page.                                                          *)
USE LivePageAssumption DEF LivePageAssumption

Requests == Slot \cup {Starter}

(* What the server publishes as completed is a result until the next run   *)
(* begins; so an answer whose status was read as completed gets a result,  *)
(* or names another run than the one whose status it has.                  *)
ResultIsPublished == current.status = "COMPLETED" => current.text.stage = "final"

AnswersAreWhole ==
    \A q \in Requests :
        LET answer == request[q].answer
        IN  /\ request[q].pc = "reading" =>
                  /\ answer.of <= current.run
                  /\ answer.status = "COMPLETED" /\ answer.of = current.run => current.text.stage = "final"
            /\ request[q].pc = "answered" /\ answer.status = "COMPLETED" /\ answer.of = answer.run
                  => answer.text.stage = "final"

PageIsWhole == page.status = "COMPLETED" /\ page.of = page.run => page.text.stage = "final"

(* A start that the page has posted finds a run left for it.               *)
StartHasRun == starting = "posted" => current.run < MaxRuns

PageInv == PageTypeOK /\ ResultIsPublished /\ AnswersAreWhole /\ PageIsWhole /\ StartHasRun

USE DEF Requests

LEMMA Answers ==
    /\ \A status \in RunStatus \cup {"STARTING"} : Empty(status) \in Answer
    /\ current \in [status : RunStatus, run : 0..MaxRuns, text : Text] => Payload \in Answer
    /\ Free = [pc |-> "free", answer |-> Empty("IDLE")]
    /\ Asked = [pc |-> "asked", answer |-> Empty("IDLE")]
    /\ Free \in [pc : {"free", "asked", "reading", "answered"}, answer : Answer]
    /\ Asked \in [pc : {"free", "asked", "reading", "answered"}, answer : Answer]
BY DEF Empty, Payload, Free, Asked, Draft, Answer, Text, RunStatus

LEMMA InitPageInv == InitPage => PageInv
<1> SUFFICES ASSUME InitPage PROVE PageInv
  OBVIOUS
<1>1. /\ current = [status |-> "IDLE", run |-> 0, text |-> Draft(0)] /\ starting = "no" /\ incidents = 0
      /\ thread = [r \in Run |-> "none"] /\ page = Empty("IDLE") /\ sse = FALSE
      /\ request \in [Requests -> {Free, Asked}]
  BY DEF InitPage
<1>2. PageTypeOK
  <2>1. request \in [Requests -> [pc : {"free", "asked", "reading", "answered"}, answer : Answer]]
    BY <1>1, Answers
  <2>2. page \in Answer /\ current \in [status : RunStatus, run : 0..MaxRuns, text : Text]
    BY <1>1, Answers DEF Draft, Text, RunStatus
  <2>0. sse \in BOOLEAN
    BY <1>1, Zenon
  <2>3. /\ starting \in {"no", "posted", "accepted", "refused"}
        /\ incidents \in 0..MaxIncidents
        /\ thread \in [Run -> {"none", "executing", "completing", "saving", "ended"}]
    BY <1>1
  <2> QED
    BY <2>0, <2>1, <2>2, <2>3 DEF PageTypeOK
<1>3. ResultIsPublished /\ PageIsWhole /\ StartHasRun
  BY <1>1 DEF ResultIsPublished, PageIsWhole, StartHasRun, Empty
<1>4. AnswersAreWhole
  BY <1>1, Answers DEF AnswersAreWhole
<1> QED
  BY <1>2, <1>3, <1>4 DEF PageInv

IsCurrent(c) == c \in [status : RunStatus, run : 0..MaxRuns, text : Text]
IsRequest == [Requests -> [pc : {"free", "asked", "reading", "answered"}, answer : Answer]]

(* A step of the server: the page rests.  The text of a result stays one   *)
(* unless the run is another one.                                          *)
LEMMA ServerSteps ==
    ASSUME PageInv, UNCHANGED <<page, sse, request, starting, incidents>>,
           IsCurrent(current'), thread' \in [Run -> {"none", "executing", "completing", "saving", "ended"}],
           \/ /\ current'.run = current.run
              /\ current.text.stage = "final" => current'.text.stage = "final"
              /\ current'.status = "COMPLETED" => current'.text.stage = "final"
           \/ /\ current'.run = current.run + 1 /\ current'.status = "RUNNING"
              /\ starting = "posted" => current.run + 1 < MaxRuns
    PROVE  PageInv'
<1>1. current.run \in 0..MaxRuns /\ current'.run \in 0..MaxRuns
  BY DEF PageInv, PageTypeOK, IsCurrent
<1>2. PageTypeOK'
  BY DEF PageInv, PageTypeOK, IsCurrent
<1>3. ResultIsPublished' /\ PageIsWhole' /\ StartHasRun'
  BY <1>1 DEF PageInv, ResultIsPublished, PageIsWhole, StartHasRun
<1>4. AnswersAreWhole'
  <2> SUFFICES ASSUME NEW q \in Requests, NEW answer, answer = request[q].answer
               PROVE  /\ request[q].pc = "reading" =>
                           /\ answer.of <= current'.run
                           /\ answer.status = "COMPLETED" /\ answer.of = current'.run
                                 => current'.text.stage = "final"
                      /\ request[q].pc = "answered" /\ answer.status = "COMPLETED" /\ answer.of = answer.run
                            => answer.text.stage = "final"
    BY DEF AnswersAreWhole
  <2>1. answer.of \in 0..MaxRuns
    BY DEF PageInv, PageTypeOK, Answer
  <2>2. /\ request[q].pc = "reading" =>
              /\ answer.of <= current.run
              /\ answer.status = "COMPLETED" /\ answer.of = current.run => current.text.stage = "final"
        /\ request[q].pc = "answered" /\ answer.status = "COMPLETED" /\ answer.of = answer.run
              => answer.text.stage = "final"
    BY DEF PageInv, AnswersAreWhole
  <2> QED
    BY <1>1, <2>1, <2>2
<1> QED
  BY <1>2, <1>3, <1>4 DEF PageInv

LEMMA RunSteps ==
    ASSUME PageInv, NEW r \in Run, BeginsElsewhere \/ Completes(r) \/ Stops(r) \/ SavesRecord(r)
    PROVE  PageInv'
<1>1. /\ current.run \in 0..MaxRuns /\ current.status \in RunStatus /\ current.text \in Text
      /\ IsCurrent(current)
      /\ thread \in [Run -> {"none", "executing", "completing", "saving", "ended"}]
  BY DEF PageInv, PageTypeOK, IsCurrent
<1>2. CASE BeginsElsewhere
  <2>1. /\ current' = [status |-> "RUNNING", run |-> current.run + 1, text |-> Draft(current.run + 1)]
        /\ thread' = [thread EXCEPT ![current.run + 1] = "executing"]
        /\ current.run < MaxRuns /\ (starting = "posted" => current.run + 1 < MaxRuns)
    BY <1>1, <1>2 DEF BeginsElsewhere, Begins
  <2>2. IsCurrent(current')
    BY <1>1, <2>1 DEF IsCurrent, Draft, Text, RunStatus
  <2>3. thread' \in [Run -> {"none", "executing", "completing", "saving", "ended"}]
    BY <1>1, <2>1
  <2>4. current'.run = current.run + 1 /\ current'.status = "RUNNING"
    BY <2>1
  <2> QED
    BY <1>2, <2>1, <2>2, <2>3, <2>4, ServerSteps DEF BeginsElsewhere
<1>3. CASE Completes(r) \/ Stops(r) \/ SavesRecord(r)
  <2>0. UNCHANGED <<page, sse, request, starting, incidents>>
    BY <1>3 DEF Completes, Stops, SavesRecord
  <2>1. CASE Completes(r)
    <3>1. /\ current' = [current EXCEPT !.status = "COMPLETED", !.text = Final(r)]
          /\ thread' = [thread EXCEPT ![r] = "saving"]
      BY <2>1 DEF Completes
    <3>2. Final(r) \in Text /\ "COMPLETED" \in RunStatus
      BY DEF Final, Text, Run, RunStatus
    <3>3. /\ IsCurrent(current') /\ current'.run = current.run
          /\ current'.text = Final(r) /\ current'.status = "COMPLETED"
      BY <1>1, <3>1, <3>2 DEF IsCurrent
    <3> QED
      BY <1>1, <2>0, <3>1, <3>3, ServerSteps DEF Final
  <2>2. CASE Stops(r) \/ SavesRecord(r)
    <3>1. PICK status \in {"FAILED", current.status} : current' = [current EXCEPT !.status = status]
      BY <2>2 DEF Stops, SavesRecord
    <3>2. /\ IsCurrent(current') /\ current'.run = current.run
          /\ current'.text = current.text /\ current'.status = status
      BY <1>1, <3>1 DEF IsCurrent, RunStatus
    <3>3. thread' \in [Run -> {"none", "executing", "completing", "saving", "ended"}]
      BY <1>1, <2>2 DEF Stops, SavesRecord
    <3>4. current'.status = "COMPLETED" => current'.text.stage = "final"
      BY <3>2 DEF PageInv, ResultIsPublished
    <3> QED
      BY <2>0, <3>2, <3>3, <3>4, ServerSteps
  <2> QED
    BY <1>3, <2>1, <2>2
<1> QED
  BY <1>2, <1>3

(* The page shows what it is told.  A step of the page or of a request     *)
(* leaves the server alone.                                                *)
LEMMA ShownIsTyped ==
    ASSUME PageInv, NEW answer \in Answer, Show(answer)
    PROVE  page' = answer /\ page' \in Answer /\ sse' \in BOOLEAN
BY DEF Show, PageInv, PageTypeOK

LEMMA PageSteps ==
    ASSUME PageInv, UNCHANGED serverVars, page' \in Answer, sse' \in BOOLEAN, incidents' \in 0..MaxIncidents,
           starting' \in {"no", "posted", "accepted", "refused"},
           starting' = "posted" => current.run < MaxRuns,
           page'.status = "COMPLETED" /\ page'.of = page'.run => page'.text.stage = "final",
           NEW q \in Requests, NEW now \in [pc : {"free", "asked", "reading", "answered"}, answer : Answer],
           request' = request \/ request' = [request EXCEPT ![q] = now],
           now.pc = "reading" =>
              /\ now.answer.of <= current.run
              /\ now.answer.status = "COMPLETED" /\ now.answer.of = current.run => current.text.stage = "final",
           now.pc = "answered" /\ now.answer.status = "COMPLETED" /\ now.answer.of = now.answer.run
              => now.answer.text.stage = "final"
    PROVE  PageInv'
<1>1. current' = current /\ thread' = thread
  BY DEF serverVars
<1>2. request \in IsRequest
  BY DEF PageInv, PageTypeOK, IsRequest
<1>3. /\ request' \in IsRequest
      /\ \A p \in Requests : request'[p] = request[p] \/ request'[p] = now
  BY <1>2 DEF IsRequest
<1>4. PageTypeOK'
  BY <1>1, <1>3 DEF PageInv, PageTypeOK, IsRequest
<1>5. AnswersAreWhole'
  <2> SUFFICES ASSUME NEW p \in Requests, NEW r, r = request'[p], NEW answer, answer = r.answer
               PROVE  /\ r.pc = "reading" =>
                           /\ answer.of <= current.run
                           /\ answer.status = "COMPLETED" /\ answer.of = current.run
                                 => current.text.stage = "final"
                      /\ r.pc = "answered" /\ answer.status = "COMPLETED" /\ answer.of = answer.run
                            => answer.text.stage = "final"
    BY <1>1 DEF AnswersAreWhole
  <2>1. CASE r = now
    BY <2>1
  <2>2. CASE r = request[p]
    BY <2>2 DEF PageInv, AnswersAreWhole
  <2> QED
    BY <1>3, <2>1, <2>2
<1>6. ResultIsPublished' /\ PageIsWhole' /\ StartHasRun'
  BY <1>1 DEF PageInv, ResultIsPublished, PageIsWhole, StartHasRun
<1> QED
  BY <1>4, <1>5, <1>6 DEF PageInv

RequestRow == [pc : {"free", "asked", "reading", "answered"}, answer : Answer]

LEMMA RequestSteps ==
    ASSUME PageInv, NEW q \in Requests, ReadStatus(q) \/ ReadRest(q) \/ RequestIsLost(q)
    PROVE  PageInv'
<1>1. /\ request \in [Requests -> RequestRow] /\ request[q] \in RequestRow /\ request[q].answer \in Answer
      /\ page \in Answer /\ sse \in BOOLEAN
      /\ current.run \in 0..MaxRuns /\ current.status \in RunStatus /\ current.text \in Text
      /\ starting \in {"no", "posted", "accepted", "refused"} /\ incidents \in 0..MaxIncidents
  BY DEF PageInv, PageTypeOK, RequestRow
<1>2. /\ page.status = "COMPLETED" /\ page.of = page.run => page.text.stage = "final"
      /\ starting = "posted" => current.run < MaxRuns
  BY DEF PageInv, PageIsWhole, StartHasRun
<1>3. CASE ReadStatus(q)
  <2> DEFINE answer == [status |-> current.status, of |-> current.run, text |-> Draft(0), run |-> 0]
             now == [pc |-> "reading", answer |-> answer]
  <2>1. [Empty(current.status) EXCEPT !.of = current.run] = answer
    BY DEF Empty
  <2>2. answer \in Answer
    BY <1>1 DEF Answer, Text, Draft
  <2>3. now \in RequestRow
    BY <2>2 DEF RequestRow
  <2>4. /\ now.pc = "reading" /\ now.answer.of <= current.run
        /\ now.answer.status = "COMPLETED" => current.text.stage = "final"
    BY <1>1 DEF PageInv, ResultIsPublished
  <2> HIDE DEF now
  <2>5. request' = [request EXCEPT ![q] = now] /\ UNCHANGED <<serverVars, page, sse, starting, incidents>>
    BY <1>3, <2>1 DEF ReadStatus, now
  <2> QED
    BY <1>1, <1>2, <2>3, <2>4, <2>5, PageSteps DEF RequestRow
<1>4. CASE ReadRest(q)
  <2> DEFINE old == request[q].answer
             answer == [status |-> old.status, of |-> old.of, text |-> current.text, run |-> current.run]
             now == [pc |-> "answered", answer |-> answer]
  <2>2. answer \in Answer
    BY <1>1 DEF Answer
  <2>3. now \in RequestRow
    BY <2>2 DEF RequestRow
  <2>4. /\ now.pc = "answered"
        /\ now.answer.status = "COMPLETED" /\ now.answer.of = now.answer.run => now.answer.text.stage = "final"
    BY <1>4 DEF PageInv, AnswersAreWhole, ReadRest
  <2> HIDE DEF now
  <2>5. request' = [request EXCEPT ![q] = now] /\ UNCHANGED <<serverVars, page, sse, starting, incidents>>
    BY <1>4 DEF ReadRest, now
  <2> QED
    BY <1>1, <1>2, <2>3, <2>4, <2>5, PageSteps DEF RequestRow
<1>5. CASE RequestIsLost(q)
  <2>1. /\ request' = [request EXCEPT ![q] = Free] /\ UNCHANGED serverVars
        /\ Free \in RequestRow /\ Free.pc = "free"
    BY <1>5, Answers DEF RequestIsLost, RequestRow
  <2>2. incidents' \in 0..MaxIncidents
    BY <1>1, <1>5 DEF RequestIsLost, Incident
  <2>3. CASE q # Starter
    <3>1. UNCHANGED <<page, sse, starting>>
      BY <1>5, <2>3 DEF RequestIsLost
    <3> QED
      BY <1>1, <1>2, <2>1, <2>2, <3>1, PageSteps DEF RequestRow
  <2>4. CASE q = Starter
    <3>1. starting' = "no" /\ Show([page EXCEPT !.status = "RUNNING"])
      BY <1>5, <2>4 DEF RequestIsLost, ShowStarted
    <3>2. [page EXCEPT !.status = "RUNNING"] \in Answer
      BY <1>1 DEF Answer, RunStatus
    <3>3. page' = [page EXCEPT !.status = "RUNNING"] /\ page' \in Answer /\ sse' \in BOOLEAN
      BY <3>1, <3>2, ShownIsTyped
    <3>4. page'.status = "RUNNING"
      BY <1>1, <3>3 DEF Answer
    <3> QED
      BY <1>1, <2>1, <2>2, <3>1, <3>3, <3>4, PageSteps DEF RequestRow
  <2> QED
    BY <2>3, <2>4
<1> QED
  BY <1>3, <1>4, <1>5

LEMMA OtherPageSteps ==
    ASSUME PageInv,
           \/ \E q \in Slot : ReceiveAnswerTo(q) \/ PollStatus(q)
           \/ ReceiveStatus \/ StreamIsLost \/ SwitchLanguage
           \/ PressStart \/ StartFails \/ ReceiveStarted \/ StartIsLost
    PROVE  PageInv'
<1>1. /\ request \in [Requests -> RequestRow] /\ IsCurrent(current)
      /\ page \in Answer /\ sse \in BOOLEAN
      /\ current.run \in 0..MaxRuns /\ current.status \in RunStatus /\ current.text \in Text
      /\ starting \in {"no", "posted", "accepted", "refused"} /\ incidents \in 0..MaxIncidents
  BY DEF PageInv, PageTypeOK, RequestRow, IsCurrent
<1>2. /\ page.status = "COMPLETED" /\ page.of = page.run => page.text.stage = "final"
      /\ starting = "posted" => current.run < MaxRuns
  BY DEF PageInv, PageIsWhole, StartHasRun
<1>3. /\ Free \in RequestRow /\ Free.pc = "free" /\ Asked \in RequestRow /\ Asked.pc = "asked"
      /\ Payload \in Answer
  BY <1>1, Answers DEF RequestRow, IsCurrent
<1>4. ASSUME NEW q \in Slot, ReceiveAnswerTo(q) PROVE PageInv'
  <2>1. /\ Show(request[q].answer) /\ request' = [request EXCEPT ![q] = Free]
        /\ UNCHANGED <<serverVars, starting, incidents>>
    BY <1>4 DEF ReceiveAnswerTo
  <2>2. request[q].answer \in Answer
    BY <1>1 DEF RequestRow
  <2>3. page' = request[q].answer /\ page' \in Answer /\ sse' \in BOOLEAN
    BY <2>1, <2>2, ShownIsTyped
  <2>4. page'.status = "COMPLETED" /\ page'.of = page'.run => page'.text.stage = "final"
    BY <1>4, <2>3 DEF PageInv, AnswersAreWhole, ReceiveAnswerTo
  <2> QED
    BY <1>1, <1>2, <1>3, <2>1, <2>3, <2>4, PageSteps DEF RequestRow
<1>5. ASSUME NEW q \in Slot, PollStatus(q) PROVE PageInv'
  <2>1. request' = [request EXCEPT ![q] = Asked] /\ UNCHANGED <<serverVars, page, sse, starting, incidents>>
    BY <1>5 DEF PollStatus
  <2> QED
    BY <1>1, <1>2, <1>3, <2>1, PageSteps DEF RequestRow
<1>6. CASE ReceiveStatus
  <2>1. Show(Payload) /\ UNCHANGED <<serverVars, request, starting, incidents>>
    BY <1>6 DEF ReceiveStatus
  <2>2. page' = Payload /\ page' \in Answer /\ sse' \in BOOLEAN
    BY <1>3, <2>1, ShownIsTyped
  <2>3. page'.status = "COMPLETED" => page'.text.stage = "final"
    BY <2>2 DEF PageInv, ResultIsPublished, Payload
  <2> QED
    BY <1>1, <1>2, <1>3, <2>1, <2>2, <2>3, PageSteps DEF RequestRow
<1>7. CASE StreamIsLost \/ SwitchLanguage
  <2>1. sse' \in BOOLEAN
    BY <1>7 DEF StreamIsLost, SwitchLanguage
  <2>2. UNCHANGED <<serverVars, page, request, starting>> /\ incidents' \in 0..MaxIncidents
    BY <1>1, <1>7 DEF StreamIsLost, SwitchLanguage, Incident
  <2> QED
    BY <1>1, <1>2, <1>3, <2>1, <2>2, PageSteps DEF RequestRow
<1>8. CASE PressStart
  <2>1. /\ Show(Empty("STARTING")) /\ starting' = "posted" /\ current.run < MaxRuns
        /\ UNCHANGED <<serverVars, request, incidents>>
    BY <1>8 DEF PressStart
  <2>2. page' = Empty("STARTING") /\ page' \in Answer /\ sse' \in BOOLEAN
    BY <2>1, Answers, ShownIsTyped
  <2>3. page'.status = "STARTING"
    BY <2>2 DEF Empty
  <2> QED
    BY <1>1, <1>3, <2>1, <2>2, <2>3, PageSteps DEF RequestRow
<1>9. CASE StartFails \/ StartIsLost
  <2>1. /\ Show([page EXCEPT !.status = "FAILED"]) /\ starting' = "no" /\ UNCHANGED serverVars
        /\ request' = request \/ request' = [request EXCEPT ![Starter] = Free]
        /\ incidents' \in 0..MaxIncidents
    BY <1>1, <1>9 DEF StartFails, StartIsLost, Incident
  <2>2. [page EXCEPT !.status = "FAILED"] \in Answer
    BY <1>1 DEF Answer, RunStatus
  <2>3. page' = [page EXCEPT !.status = "FAILED"] /\ page' \in Answer /\ sse' \in BOOLEAN
    BY <2>1, <2>2, ShownIsTyped
  <2>4. page'.status = "FAILED"
    BY <1>1, <2>3 DEF Answer
  <2> QED
    BY <1>1, <1>3, <2>1, <2>3, <2>4, PageSteps DEF RequestRow
<1>10. CASE ReceiveStarted
  <2> PICK answer : answer = request[Starter].answer
    OBVIOUS
  <2>1. /\ Show([answer EXCEPT !.status = "RUNNING"]) /\ starting' = "no"
        /\ request' = [request EXCEPT ![Starter] = Free] /\ UNCHANGED <<serverVars, incidents>>
    BY <1>10 DEF ReceiveStarted, ShowStarted
  <2>2. answer \in Answer
    BY <1>1 DEF RequestRow
  <2>3. [answer EXCEPT !.status = "RUNNING"] \in Answer
    BY <2>2 DEF Answer, RunStatus
  <2>4. page' = [answer EXCEPT !.status = "RUNNING"] /\ page' \in Answer /\ sse' \in BOOLEAN
    BY <2>1, <2>3, ShownIsTyped
  <2>5. page'.status = "RUNNING"
    BY <2>2, <2>4 DEF Answer
  <2> QED
    BY <1>1, <1>3, <2>1, <2>4, <2>5, PageSteps DEF RequestRow
<1> QED
  BY <1>4, <1>5, <1>6, <1>7, <1>8, <1>9, <1>10

LEMMA ServeStartKeeps ==
    ASSUME PageInv, ServeStart
    PROVE  PageInv'
<1>1. /\ request \in [Requests -> RequestRow] /\ page \in Answer /\ sse \in BOOLEAN
      /\ incidents \in 0..MaxIncidents /\ current.run \in 0..MaxRuns
      /\ thread \in [Run -> {"none", "executing", "completing", "saving", "ended"}]
      /\ Asked \in RequestRow /\ Asked.pc = "asked"
  BY Answers DEF PageInv, PageTypeOK, RequestRow
<1>2. CASE current.status = "RUNNING"
  <2>1. starting' = "refused" /\ UNCHANGED <<serverVars, page, sse, request, incidents>>
    BY <1>2 DEF ServeStart
  <2> QED
    BY <1>1, <2>1, PageSteps DEF PageInv, PageIsWhole, RequestRow
<1>3. CASE current.status # "RUNNING"
  <2>1. /\ current' = [status |-> "RUNNING", run |-> current.run + 1, text |-> Draft(current.run + 1)]
        /\ thread' = [thread EXCEPT ![current.run + 1] = "executing"]
        /\ request' = [request EXCEPT ![Starter] = Asked]
        /\ starting = "posted" /\ starting' = "accepted" /\ UNCHANGED <<page, sse, incidents>>
    BY <1>3 DEF ServeStart, Begins
  <2>2. current.run < MaxRuns
    BY <2>1 DEF PageInv, StartHasRun
  <2>3. IsCurrent(current') /\ current'.run = current.run + 1 /\ current'.status = "RUNNING"
    BY <1>1, <2>1, <2>2 DEF IsCurrent, Draft, Text, RunStatus
  <2>4. /\ request' \in [Requests -> RequestRow]
        /\ \A q \in Requests : request'[q] = request[q] \/ request'[q] = Asked
    BY <1>1, <2>1
  <2>5. PageTypeOK'
    BY <1>1, <2>1, <2>2, <2>3, <2>4 DEF PageInv, PageTypeOK, IsCurrent, RequestRow
  <2>6. AnswersAreWhole'
    <3> SUFFICES ASSUME NEW q \in Requests, NEW r, r = request'[q], NEW answer, answer = r.answer
                 PROVE  /\ r.pc = "reading" =>
                             /\ answer.of <= current'.run
                             /\ answer.status = "COMPLETED" /\ answer.of = current'.run
                                   => current'.text.stage = "final"
                        /\ r.pc = "answered" /\ answer.status = "COMPLETED" /\ answer.of = answer.run
                              => answer.text.stage = "final"
      BY DEF AnswersAreWhole
    <3>1. CASE r = Asked
      BY <1>1, <3>1
    <3>2. CASE r = request[q]
      <4>1. answer.of \in 0..MaxRuns /\ (r.pc = "reading" => answer.of <= current.run)
        BY <1>1, <3>2 DEF RequestRow, Answer, PageInv, AnswersAreWhole
      <4>2. r.pc = "answered" /\ answer.status = "COMPLETED" /\ answer.of = answer.run
               => answer.text.stage = "final"
        BY <3>2 DEF PageInv, AnswersAreWhole
      <4> QED
        BY <1>1, <2>3, <4>1, <4>2
    <3> QED
      BY <2>4, <3>1, <3>2
  <2>7. ResultIsPublished' /\ PageIsWhole' /\ StartHasRun'
    BY <2>1, <2>3 DEF PageInv, ResultIsPublished, PageIsWhole, StartHasRun
  <2> QED
    BY <2>5, <2>6, <2>7 DEF PageInv
<1> QED
  BY <1>2, <1>3

LEMMA PageRests ==
    ASSUME PageInv, UNCHANGED pageVars
    PROVE  PageInv'
BY DEF PageInv, PageTypeOK, ResultIsPublished, AnswersAreWhole, PageIsWhole, StartHasRun, pageVars, serverVars

LEMMA StepPageInv == PageInv /\ NextPage => PageInv'
<1> SUFFICES ASSUME PageInv, NextPage PROVE PageInv'
  OBVIOUS
<1>1. CASE BeginsElsewhere
  <2>1. 1 \in Run
    BY <1>1 DEF BeginsElsewhere, PageInv, PageTypeOK, Run
  <2> QED
    BY <1>1, <2>1, RunSteps
<1>2. ASSUME NEW r \in Run, Completes(r) \/ Stops(r) \/ SavesRecord(r) PROVE PageInv'
  BY <1>2, RunSteps
<1>3. ASSUME NEW q \in Requests, ReadStatus(q) \/ ReadRest(q) \/ RequestIsLost(q) PROVE PageInv'
  BY <1>3, RequestSteps
<1>4. CASE ServeStart
  BY <1>4, ServeStartKeeps
<1> QED
  BY <1>1, <1>2, <1>3, <1>4, OtherPageSteps DEF NextPage

(* The pages move one at a time.                                           *)
LEMMA OnePage == WebSpec => WebInit /\ [][WebNext]_webVars
  BY PTL DEF WebSpec

(* An unfinished text is never shown as a result, for any number of runs,  *)
(* windows and requests under way.                                         *)
THEOREM CompletedIsAlwaysWhole == WebSpec => []CompletedIsWhole
<1>1. WebInit => PageInv
  BY InitPageInv DEF WebInit
<1>2. PageInv /\ [WebNext]_webVars => PageInv'
  BY StepPageInv, PageRests DEF WebNext, webVars
<1>3. PageInv => CompletedIsWhole
  BY DEF PageInv, PageIsWhole, CompletedIsWhole, Draft
<1> QED
  BY <1>1, <1>2, <1>3, OnePage, PTL

(* "Events are always tied to one job" (FE-03 PLAN.md): for any number of  *)
(* jobs, changes, errors and answers under way, and in whatever order the  *)
(* rows of a job are listed, a message shows the job of its stream, at     *)
(* least as new as its event, once, and never older than the one before.   *)
THEOREM StreamIsAlwaysCurrent == WebSpec => []StreamIsCurrent
<1>1. WebInit => JobsInv
  BY InitJobs DEF WebInit
<1>2. JobsInv /\ [WebNext]_webVars => JobsInv'
  BY JobsStep DEF WebNext, webVars
<1>3. JobsInv => StreamIsCurrent
  BY DEF JobsInv
<1> QED
  BY <1>1, <1>2, <1>3, OnePage, PTL

(* The client follows the selected job while it is active: on a stream of  *)
(* that job, or polling until the timer connects again; and nothing that   *)
(* it was given up for is left running.                                    *)
THEOREM ClientAlwaysWatches == WebSpec => []ClientKeepsWatch
<1>1. WebInit => JobsInv
  BY InitJobs DEF WebInit
<1>2. JobsInv /\ [WebNext]_webVars => JobsInv'
  BY JobsStep DEF WebNext, webVars
<1>3. JobsInv => ClientKeepsWatch
  BY DEF JobsInv
<1> QED
  BY <1>1, <1>2, <1>3, OnePage, PTL
=============================================================================
