--------------------------- MODULE RunServer_proofs ---------------------------
(***************************************************************************)
(* Theorems about server.py for any number of runs, revisions and          *)
(* archivers: the status RUNNING is always held by a thread that will      *)
(* replace it, and the generated text of a document survives every         *)
(* interleaving of the writers of its metadata file.  And theorems about   *)
(* the history it keeps, for any number of runs, records, threads and      *)
(* crashes: the registry mirrors the metadata files, a finished run stays  *)
(* listed, and a reset is final.                                           *)
(***************************************************************************)
EXTENDS RunServer, RunHistory, SequenceTheorems, TLAPS

USE RunServerAssumption DEF RunServerAssumption

(* The status, the published orchestrator and the places of the threads.   *)
ServerTyped ==
    /\ status \in Status /\ orchestrator \in Run \cup {Nobody} /\ asked \subseteq Run
    /\ pc \in [Client -> Places]

(* What the pipelines and the archivers do changes nobody else's place.    *)
PipelineSteps(r) == PostRun(r) \/ PipelineThread(r)
RevisionSteps(v) == CreateRevision(v) \/ RevisionThread(v)

LEMMA OnlyOwnPlace ==
    ASSUME ServerTyped, NEW c \in Client,
           \/ c \in Run /\ PipelineSteps(c)
           \/ c \in Revision /\ RevisionSteps(c)
           \/ c \in Archiver /\ ArchiveItem(c)
    PROVE  \E place \in Places : pc' = [pc EXCEPT ![c] = place]
<1> USE DEF Goes, Places
<1>1. CASE c \in Run /\ PipelineSteps(c)
  BY <1>1 DEF PipelineSteps, PostRun, PipelineThread, StoreOrchestrator, Completes, IsCancelled,
       Fails, SaveMetadata, CleanUp
<1>2. CASE c \in Revision /\ RevisionSteps(c)
  <2>1. CASE CreateRevision(c)
    BY <2>1 DEF CreateRevision, CheckIdle, RefuseRevision, ReadHistory, QueueRevision, AnnounceRevision
  <2>2. CASE RevisionThread(c)
    BY <2>2 DEF RevisionThread, ReadPending, MarkRunning, FinishRevision, ReportRevision,
         RevisionFails, ReadForFailure, RecordFailure, ReportFailure
  <2> QED
    BY <1>2, <2>1, <2>2 DEF RevisionSteps
<1>3. CASE c \in Archiver /\ ArchiveItem(c)
  BY <1>3 DEF ArchiveItem, ReadForArchive, WriteArchived
<1> QED
  BY <1>1, <1>2, <1>3

LEMMA StepServerTyped == ServerTyped /\ [Next]_vars => ServerTyped'
<1> SUFFICES ASSUME ServerTyped, [Next]_vars PROVE ServerTyped'
  OBVIOUS
<1> USE DEF ServerTyped
<1>1. ASSUME NEW c \in Client,
             \/ c \in Run /\ PipelineSteps(c)
             \/ c \in Revision /\ RevisionSteps(c)
             \/ c \in Archiver /\ ArchiveItem(c)
      PROVE  pc' \in [Client -> Places]
  BY <1>1, OnlyOwnPlace
<1>2. ASSUME NEW r \in Run, PipelineSteps(r) PROVE ServerTyped'
  <2>1. pc' \in [Client -> Places]
    BY <1>1, <1>2 DEF Client
  <2>2. status' \in Status /\ orchestrator' \in Run \cup {Nobody} /\ asked' = asked
    BY <1>2 DEF PipelineSteps, PostRun, PipelineThread, StoreOrchestrator, Completes, IsCancelled,
         Fails, SaveMetadata, CleanUp, Status
  <2> QED
    BY <2>1, <2>2
<1>3. ASSUME NEW v \in Revision, RevisionSteps(v) PROVE ServerTyped'
  <2>1. pc' \in [Client -> Places]
    BY <1>1, <1>3 DEF Client
  <2>2. UNCHANGED <<orchestrator, asked>>
    BY <1>3 DEF RevisionSteps, CreateRevision, CheckIdle, RefuseRevision, ReadHistory, QueueRevision,
         AnnounceRevision, RevisionThread, ReadPending, MarkRunning, FinishRevision, ReportRevision,
         RevisionFails, ReadForFailure, RecordFailure, ReportFailure
  <2>3. status' \in Status
    BY <1>3 DEF RevisionSteps, CreateRevision, CheckIdle, RefuseRevision, ReadHistory, QueueRevision,
         AnnounceRevision, RevisionThread, ReadPending, MarkRunning, FinishRevision, ReportRevision,
         RevisionFails, ReadForFailure, RecordFailure, ReportFailure, Status
  <2> QED
    BY <2>1, <2>2, <2>3
<1>4. ASSUME NEW a \in Archiver, ArchiveItem(a) PROVE ServerTyped'
  <2>1. pc' \in [Client -> Places]
    BY <1>1, <1>4 DEF Client
  <2> QED
    BY <1>4, <2>1 DEF ArchiveItem, ReadForArchive, WriteArchived
<1>5. ASSUME NEW r \in Run, DeleteHistory(r) PROVE ServerTyped'
  BY <1>5 DEF DeleteHistory
<1>6. CASE CancelPipeline
  BY <1>6 DEF CancelPipeline
<1>7. CASE UNCHANGED vars
  BY <1>7 DEF vars
<1> QED
  BY <1>2, <1>3, <1>4, <1>5, <1>6, <1>7 DEF Next, PipelineSteps, RevisionSteps
-----------------------------------------------------------------------------
(* Every thread that sets the status to RUNNING is active, an active       *)
(* thread stays active or sets another status, and an orchestrator is      *)
(* published by a run that executes and taken back by every end.           *)
LEMMA StepStatusIsHeld == ServerTyped /\ StatusIsHeld /\ [Next]_vars => StatusIsHeld'
<1> SUFFICES ASSUME ServerTyped, StatusIsHeld, [Next]_vars PROVE StatusIsHeld'
  OBVIOUS
<1> USE DEF ServerTyped, StatusIsHeld, Client
<1>1. ASSUME UNCHANGED <<status, orchestrator, pc>> PROVE StatusIsHeld'
  BY <1>1 DEF Active
<1>2. ASSUME NEW c \in Client, NEW place \in Places, pc' = [pc EXCEPT ![c] = place],
             status' = "RUNNING" => status = "RUNNING",
             status' = "RUNNING" /\ Active(c) => Active(c)',
             orchestrator' # Nobody => orchestrator' = orchestrator,
             c = orchestrator' => place \in {"executing", "saving", "cleanup"}
      PROVE  StatusIsHeld'
  <2>1. \A d \in Client \ {c} : Active(d)' = Active(d)
    BY <1>2 DEF Active
  <2>2. status' = "RUNNING" => \E d \in Client : Active(d)'
    BY <1>2, <2>1
  <2>3. orchestrator' # Nobody => pc'[orchestrator'] \in {"executing", "saving", "cleanup"}
    BY <1>2
  <2> QED
    BY <2>2, <2>3
<1>3. ASSUME NEW r \in Run, PipelineSteps(r) PROVE StatusIsHeld'
  <2>1. CASE PostRun(r)
    <3>1. status' = "RUNNING" /\ orchestrator' = orchestrator /\ pc' = [pc EXCEPT ![r] = "starting"]
          /\ pc[r] = "new"
      BY <2>1 DEF PostRun, Goes
    <3> QED
      BY <3>1 DEF Active
  <2>2. CASE StoreOrchestrator(r)
    <3>1. status' = status /\ orchestrator' = r /\ pc' = [pc EXCEPT ![r] = "executing"]
          /\ pc[r] = "starting"
      BY <2>2 DEF StoreOrchestrator, Goes
    <3>2. \A d \in Client \ {r} : Active(d)' = Active(d)
      BY <3>1 DEF Active
    <3>3. Active(r)'
      BY <3>1 DEF Active
    <3> QED
      BY <3>1, <3>2, <3>3
  <2>3. CASE Completes(r)
    BY <2>3, <1>2 DEF Completes, Goes, Places
  <2>4. CASE IsCancelled(r)
    BY <2>4, <1>2 DEF IsCancelled, Goes, Places
  <2>5. CASE Fails(r)
    BY <2>5, <1>2 DEF Fails, Goes, Places
  <2>6. CASE SaveMetadata(r)
    <3>1. ~Active(r)
      BY <2>6 DEF SaveMetadata, Active
    <3> QED
      BY <2>6, <3>1, <1>2 DEF SaveMetadata, Goes, Places
  <2>7. CASE CleanUp(r)
    <3>1. ~Active(r)
      BY <2>7 DEF CleanUp, Active
    <3> QED
      BY <2>7, <3>1, <1>2 DEF CleanUp, Goes, Places
  <2> QED
    BY <1>3, <2>1, <2>2, <2>3, <2>4, <2>5, <2>6, <2>7 DEF PipelineSteps, PipelineThread
<1>4. ASSUME NEW v \in Revision, RevisionSteps(v) PROVE StatusIsHeld'
  <2>0. v \in Client /\ v \notin Run /\ (orchestrator # Nobody => v # orchestrator)
    OBVIOUS
  <2>1. CASE AnnounceRevision(v)
    <3>1. status' = "RUNNING" /\ orchestrator' = orchestrator /\ pc' = [pc EXCEPT ![v] = "announced"]
      BY <2>1 DEF AnnounceRevision, Goes
    <3> QED
      BY <2>0, <3>1 DEF Active
  <2>2. CASE ReportRevision(v) \/ ReportFailure(v)
    <3>1. status' # "RUNNING" /\ orchestrator' = orchestrator /\ pc' = [pc EXCEPT ![v] = "ended"]
      BY <2>2 DEF ReportRevision, ReportFailure, Goes
    <3> QED
      BY <2>0, <3>1
  <2>3. CASE CreateRevision(v) /\ ~AnnounceRevision(v)
    <3>1. UNCHANGED <<status, orchestrator>> /\ ~Active(v)
      BY <2>0, <2>3 DEF CreateRevision, CheckIdle, RefuseRevision, ReadHistory, QueueRevision, Active
    <3>2. PICK place \in Places : pc' = [pc EXCEPT ![v] = place]
      BY <1>4, <2>0, OnlyOwnPlace DEF ServerTyped
    <3>3. \A d \in Client \ {v} : Active(d)' = Active(d)
      BY <3>2 DEF Active
    <3> QED
      BY <2>0, <3>1, <3>2, <3>3
  <2>4. CASE RevisionThread(v) /\ ~ReportRevision(v) /\ ~ReportFailure(v)
    <3>1. UNCHANGED <<status, orchestrator>>
      BY <2>4 DEF RevisionThread, ReadPending, MarkRunning, FinishRevision, RevisionFails,
                  ReadForFailure, RecordFailure
    <3>2. PICK place \in {"marking", "executing", "reporting", "failing", "recording", "failed"} :
              pc' = [pc EXCEPT ![v] = place]
      BY <2>4 DEF RevisionThread, ReadPending, MarkRunning, FinishRevision, RevisionFails,
                  ReadForFailure, RecordFailure, Goes
    <3>3. Active(v)' /\ \A d \in Client \ {v} : Active(d)' = Active(d)
      BY <2>0, <3>2 DEF Active
    <3> QED
      BY <2>0, <3>1, <3>2, <3>3
  <2> QED
    BY <1>4, <2>1, <2>2, <2>3, <2>4 DEF RevisionSteps
<1>5. ASSUME NEW a \in Archiver, ArchiveItem(a) PROVE StatusIsHeld'
  <2>1. UNCHANGED <<status, orchestrator>> /\ a \notin Run /\ ~Active(a)
    BY <1>5 DEF ArchiveItem, ReadForArchive, WriteArchived, Active
  <2>2. PICK place \in Places : pc' = [pc EXCEPT ![a] = place]
    BY <1>5, OnlyOwnPlace DEF ServerTyped
  <2>3. \A d \in Client \ {a} : Active(d)' = Active(d)
    BY <2>2 DEF Active
  <2> QED
    BY <2>1, <2>2, <2>3
<1>6. CASE (\E r \in Run : DeleteHistory(r)) \/ CancelPipeline \/ UNCHANGED vars
  BY <1>6, <1>1 DEF DeleteHistory, CancelPipeline, vars
<1> QED
  BY <1>3, <1>4, <1>5, <1>6 DEF Next, PipelineSteps, RevisionSteps

(* The server never refuses work for the sake of a thread that is gone,    *)
(* and a cancellation is never delivered to a run that has ended.          *)
THEOREM RunningIsHeld == Spec => []StatusIsHeld
<1>1. Init => ServerTyped /\ StatusIsHeld
  BY DEF Init, ServerTyped, StatusIsHeld, Status, Places
<1> QED
  BY <1>1, StepServerTyped, StepStatusIsHeld, PTL DEF Spec
-----------------------------------------------------------------------------
Document == [archived : BOOLEAN, versions : Seq(Version)]

(* A metadata file that begins with the generated text of run d.           *)
BeginsWith(d, h) ==
    /\ h \in Document /\ Len(h.versions) >= 1
    /\ h.versions[1] = [status |-> "ready", by |-> d]

(* Whoever holds a copy of the metadata holds one that begins so, and a    *)
(* revision has a number behind the first; so no write can replace it.     *)
Holds(c) ==
    /\ document[c] \in Run /\ BeginsWith(document[c], copy[c])
    /\ c \in Revision => number[c] \in Nat /\ number[c] >= 2
FilesBegin == record \in [Run -> Record] /\ \A d \in Run : record[d] # NoRecord => BeginsWith(d, record[d])
CopiesBegin ==
    /\ document \in [Editor -> Run \cup {Nobody}] /\ copy \in [Editor -> Record]
    /\ number \in [Revision -> Nat]
    /\ \A c \in Editor :
          /\ pc[c] \notin {"new", "checked", "ended"} => Holds(c)
          /\ pc[c] = "checked" => document[c] \in Run
          /\ pc[c] = "marking" => c \in Revision /\ number[c] \in 1..Len(copy[c].versions)
IInv == ServerTyped /\ FilesBegin /\ CopiesBegin

(* The appended or replaced entry leaves the first one alone.              *)
LEMMA AppendKeepsFirst ==
    ASSUME NEW d \in Run, NEW h, BeginsWith(d, h), NEW n \in Nat, n >= 2, NEW version \in Version
    PROVE  BeginsWith(d, AppendRevision(h, n, version))
<1> DEFINE s == h.versions
           t == IF n <= Len(s) THEN [s EXCEPT ![n] = version] ELSE Append(s, version)
<1>1. s \in Seq(Version) /\ Len(s) >= 1 /\ s[1] = [status |-> "ready", by |-> d] /\ h \in Document
  BY DEF BeginsWith, Document
<1>2. t \in Seq(Version) /\ Len(t) >= 1 /\ t[1] = s[1]
  <2>1. CASE n <= Len(s)
    <3>1. t = [s EXCEPT ![n] = version]
      BY <2>1
    <3>2. n \in 1..Len(s)
      BY <1>1, <2>1
    <3>3. t \in Seq(Version) /\ Len(t) = Len(s)
      BY <1>1, <3>1, <3>2, ExceptSeq
    <3>4. t[1] = s[1]
      BY <1>1, <3>1, <3>2
    <3> QED
      BY <1>1, <3>3, <3>4
  <2>2. CASE ~(n <= Len(s))
    BY <1>1, <2>2, AppendProperties
  <2> QED
    BY <2>1, <2>2
<1>3. AppendRevision(h, n, version) = [h EXCEPT !.versions = t]
  BY DEF AppendRevision
<1> HIDE DEF s, t
<1>4. [h EXCEPT !.versions = t] \in Document /\ [h EXCEPT !.versions = t].versions = t
  BY <1>1, <1>2 DEF Document
<1> QED
  BY <1>1, <1>2, <1>3, <1>4 DEF BeginsWith

LEMMA DocumentIsRecord == Document \subseteq Record
BY DEF Document, Record

LEMMA WriteKeepsFiles ==
    ASSUME IInv, NEW c \in Editor, document[c] \in Run, NEW h, BeginsWith(document[c], h), Write(c, h)
    PROVE  FilesBegin'
<1>1. h \in Record
  BY DocumentIsRecord DEF BeginsWith
<1>2. record' = [record EXCEPT ![document[c]] = h]
  BY DEF Write
<1> QED
  BY <1>1, <1>2 DEF IInv, FilesBegin, BeginsWith

(* The step of an editor that keeps its own part of CopiesBegin.           *)
LEMMA OwnCopy ==
    ASSUME IInv, NEW c \in Editor, NEW place, NEW d \in Run \cup {Nobody}, NEW h \in Record,
           pc' = [pc EXCEPT ![c] = place], document' = [document EXCEPT ![c] = d],
           copy' = [copy EXCEPT ![c] = h],
           number' \in [Revision -> Nat], \A e \in Revision \ {c} : number'[e] = number[e],
           place \notin {"new", "checked", "ended"} =>
               /\ d \in Run /\ BeginsWith(d, h)
               /\ c \in Revision => number'[c] >= 2,
           place = "checked" => d \in Run,
           place = "marking" => c \in Revision /\ number'[c] \in 1..Len(h.versions)
    PROVE  CopiesBegin'
<1>1. c \in Client /\ pc \in [Client -> Places]
  BY DEF Editor, Client, IInv, ServerTyped
<1>2. \A e \in Editor \ {c} : pc'[e] = pc[e] /\ document'[e] = document[e] /\ copy'[e] = copy[e]
  BY DEF IInv, CopiesBegin
<1>3. pc'[c] = place /\ document'[c] = d /\ copy'[c] = h
  BY <1>1 DEF IInv, CopiesBegin
<1>4. document' \in [Editor -> Run \cup {Nobody}] /\ copy' \in [Editor -> Record]
  BY DEF IInv, CopiesBegin
<1>5. \A e \in Editor \ {c} : (Holds(e) => Holds(e)')
  BY <1>2 DEF Holds
<1>6. place \notin {"new", "checked", "ended"} => Holds(c)'
  BY <1>3 DEF Holds
<1> QED
  BY <1>2, <1>3, <1>4, <1>5, <1>6 DEF IInv, CopiesBegin

LEMMA RevisionKeepsFiles ==
    ASSUME IInv, NEW v \in Revision, RevisionSteps(v)
    PROVE  FilesBegin' /\ CopiesBegin'
<1> DEFINE h == copy[v]
           n == number[v]
           d == document[v]
<1>1. v \in Editor /\ v \in Client /\ d \in Run \cup {Nobody} /\ h \in Record /\ n \in Nat
      /\ document = [document EXCEPT ![v] = d] /\ copy = [copy EXCEPT ![v] = h]
      /\ number \in [Revision -> Nat]
  BY DEF Editor, Client, IInv, CopiesBegin
<1>2. pc[v] \notin {"new", "checked", "ended"} => d \in Run /\ BeginsWith(d, h) /\ n >= 2
  BY <1>1 DEF IInv, CopiesBegin, Holds
<1>3. ASSUME record' = record PROVE FilesBegin'
  BY <1>3 DEF IInv, FilesBegin
<1>4. ASSUME NEW place, pc' = [pc EXCEPT ![v] = place], UNCHANGED <<document, copy, number>>,
             place # "checked", place # "marking",
             pc[v] \notin {"new", "checked", "ended"} \/ place = "ended"
      PROVE  CopiesBegin'
  BY <1>1, <1>2, <1>4, OwnCopy
<1>5. ASSUME NEW x \in Run, CheckIdle(v, x) PROVE FilesBegin' /\ CopiesBegin'
  BY <1>1, <1>3, <1>5, OwnCopy DEF CheckIdle, Goes
<1>6. CASE RefuseRevision(v)
  BY <1>3, <1>4, <1>6 DEF RefuseRevision, Goes
<1>7. CASE ReadHistory(v)
  <2> DEFINE g == record[d]
  <2>1. d \in Run /\ g # NoRecord /\ pc' = [pc EXCEPT ![v] = "queueing"]
        /\ copy' = [copy EXCEPT ![v] = g] /\ UNCHANGED <<document, record>>
        /\ number' = [number EXCEPT ![v] = NextRevision(g)]
    BY <1>1, <1>7 DEF ReadHistory, Goes, IInv, CopiesBegin
  <2>2. BeginsWith(d, g) /\ g \in Record
    BY <2>1, DocumentIsRecord DEF IInv, FilesBegin, BeginsWith
  <2>3. NextRevision(g) \in Nat /\ NextRevision(g) >= 2
    BY <2>2 DEF NextRevision, BeginsWith, Document
  <2> HIDE DEF g
  <2>4. number' \in [Revision -> Nat] /\ number'[v] >= 2 /\ \A e \in Revision \ {v} : number'[e] = number[e]
    BY <1>1, <2>1, <2>3
  <2> QED
    BY <1>1, <1>3, <2>1, <2>2, <2>4, OwnCopy
<1>8. CASE QueueRevision(v)
  <2>1. [status |-> "queued", by |-> v] \in Version
    BY DEF Version
  <2>2. BeginsWith(d, AppendRevision(h, n, [status |-> "queued", by |-> v])) /\ d \in Run
    BY <1>1, <1>2, <1>8, <2>1, AppendKeepsFirst DEF QueueRevision
  <2> QED
    BY <1>1, <1>4, <1>8, <2>2, WriteKeepsFiles DEF QueueRevision, Goes
<1>9. CASE AnnounceRevision(v)
  BY <1>3, <1>4, <1>9 DEF AnnounceRevision, Goes
<1>10. CASE ReadPending(v)
  <2>1. d \in Run /\ n >= 2 /\ BeginsWith(d, h) /\ UNCHANGED <<record, document, number>>
    BY <1>2, <1>10 DEF ReadPending
  <2>2. CASE pc' = [pc EXCEPT ![v] = "failing"] /\ copy' = copy
    BY <1>3, <1>4, <1>10, <2>1, <2>2 DEF ReadPending
  <2>3. CASE record[d] # NoRecord /\ HasStatus(record[d], n, {"queued"})
             /\ copy' = [copy EXCEPT ![v] = record[d]] /\ pc' = [pc EXCEPT ![v] = "marking"]
    <3>1. BeginsWith(d, record[d]) /\ record[d] \in Record
      BY <2>1, <2>3, DocumentIsRecord DEF IInv, FilesBegin, BeginsWith
    <3>2. n \in 1..Len(record[d].versions)
      BY <2>3 DEF HasStatus
    <3> QED
      BY <1>1, <1>3, <2>1, <2>3, <3>1, <3>2, OwnCopy
  <2> QED
    BY <1>10, <2>2, <2>3 DEF ReadPending, Goes
<1>11. CASE MarkRunning(v)
  <2> DEFINE version == [h.versions[n] EXCEPT !.status = "running"]
             g == AppendRevision(h, n, version)
  <2>1. BeginsWith(d, h) /\ d \in Run /\ n >= 2 /\ n \in 1..Len(h.versions)
    BY <1>1, <1>2, <1>11 DEF MarkRunning, IInv, CopiesBegin
  <2>2. h.versions[n] \in Version
    BY <2>1 DEF BeginsWith, Document
  <2>3. version \in Version
    BY <2>2 DEF Version
  <2>4. Write(v, g) /\ copy' = [copy EXCEPT ![v] = g] /\ pc' = [pc EXCEPT ![v] = "executing"]
        /\ UNCHANGED <<document, number>>
    BY <1>11 DEF MarkRunning, Goes
  <2> HIDE DEF version
  <2>5. BeginsWith(d, g)
    BY <1>1, <2>1, <2>3, AppendKeepsFirst
  <2> HIDE DEF g
  <2>6. g \in Record
    BY <2>5, DocumentIsRecord DEF BeginsWith
  <2> QED
    BY <1>1, <2>1, <2>4, <2>5, <2>6, WriteKeepsFiles, OwnCopy
<1>12. CASE FinishRevision(v)
  <2>1. [status |-> "ready", by |-> v] \in Version
    BY DEF Version
  <2>2. BeginsWith(d, AppendRevision(h, n, [status |-> "ready", by |-> v])) /\ d \in Run
    BY <1>1, <1>2, <1>12, <2>1, AppendKeepsFirst DEF FinishRevision
  <2> QED
    BY <1>1, <1>4, <1>12, <2>2, WriteKeepsFiles DEF FinishRevision, Goes
<1>13. CASE ReportRevision(v) \/ RevisionFails(v) \/ ReportFailure(v)
  BY <1>3, <1>4, <1>13 DEF ReportRevision, RevisionFails, ReportFailure, Goes
<1>14. CASE ReadForFailure(v)
  <2>1. d \in Run /\ n >= 2 /\ BeginsWith(d, h) /\ UNCHANGED <<record, document, number>>
    BY <1>2, <1>14 DEF ReadForFailure
  <2>2. CASE pc' = [pc EXCEPT ![v] = "failed"] /\ copy' = copy
    BY <1>3, <1>4, <1>14, <2>1, <2>2 DEF ReadForFailure
  <2>3. CASE record[d] # NoRecord /\ copy' = [copy EXCEPT ![v] = record[d]]
             /\ pc' = [pc EXCEPT ![v] = "recording"]
    <3>1. BeginsWith(d, record[d]) /\ record[d] \in Record
      BY <2>1, <2>3, DocumentIsRecord DEF IInv, FilesBegin, BeginsWith
    <3> QED
      BY <1>1, <1>3, <2>1, <2>3, <3>1, OwnCopy
  <2> QED
    BY <1>14, <2>2, <2>3 DEF ReadForFailure, Goes
<1>15. CASE RecordFailure(v)
  <2>1. d \in Run /\ n >= 2 /\ BeginsWith(d, h)
    BY <1>2, <1>15 DEF RecordFailure
  <2> DEFINE version == [h.versions[n] EXCEPT !.status = "failed"]
             g == IF HasStatus(h, n, {"queued", "running"}) THEN AppendRevision(h, n, version) ELSE h
  <2>2. Write(v, g) /\ pc' = [pc EXCEPT ![v] = "failed"] /\ UNCHANGED <<document, copy, number>>
    BY <1>15 DEF RecordFailure, Goes
  <2>3. BeginsWith(d, g)
    <3>1. CASE HasStatus(h, n, {"queued", "running"})
      <4>1. h.versions[n] \in Version
        BY <2>1, <3>1 DEF HasStatus, BeginsWith, Document
      <4>2. version \in Version
        BY <4>1 DEF Version
      <4> HIDE DEF version
      <4> QED
        BY <1>1, <2>1, <3>1, <4>2, AppendKeepsFirst
    <3> QED
      BY <2>1, <3>1
  <2> HIDE DEF g
  <2> QED
    BY <1>1, <1>4, <1>15, <2>1, <2>2, <2>3, WriteKeepsFiles DEF RecordFailure
<1> QED
  BY <1>5, <1>6, <1>7, <1>8, <1>9, <1>10, <1>11, <1>12, <1>13, <1>14, <1>15
     DEF RevisionSteps, CreateRevision, RevisionThread

LEMMA StepIInv == IInv /\ [Next]_vars => IInv'
<1> SUFFICES ASSUME IInv, [Next]_vars PROVE FilesBegin' /\ CopiesBegin'
  BY StepServerTyped DEF IInv
<1>1. ASSUME UNCHANGED <<document, copy, number>>, \A c \in Editor : pc'[c] = pc[c] PROVE CopiesBegin'
  BY <1>1 DEF IInv, CopiesBegin, Holds
<1>2. ASSUME NEW r \in Run, PipelineSteps(r) PROVE FilesBegin' /\ CopiesBegin'
  <2>1. \A c \in Editor : c # r /\ c \in Client
    BY DEF Editor, Client
  <2>2. \A c \in Editor : pc'[c] = pc[c]
    BY <1>2, <2>1, OnlyOwnPlace DEF IInv, ServerTyped, Client
  <2>3. UNCHANGED <<document, copy, number>>
    BY <1>2 DEF PipelineSteps, PostRun, PipelineThread, StoreOrchestrator, Completes, IsCancelled,
         Fails, SaveMetadata, CleanUp
  <2>4. CASE ~SaveMetadata(r)
    <3>1. record' = record
      BY <1>2, <2>4 DEF PipelineSteps, PostRun, PipelineThread, StoreOrchestrator, Completes,
           IsCancelled, Fails, CleanUp
    <3> QED
      BY <1>1, <2>2, <2>3, <3>1 DEF IInv, FilesBegin
  <2>5. CASE SaveMetadata(r)
    <3> DEFINE h == [archived |-> FALSE, versions |-> <<InitialRevision(r)>>]
    <3>1. record' = [record EXCEPT ![r] = h]
      BY <2>5 DEF SaveMetadata
    <3>2. InitialRevision(r) \in Version /\ InitialRevision(r) = [status |-> "ready", by |-> r]
      BY DEF InitialRevision, Version
    <3>3. h \in Document /\ Len(h.versions) >= 1 /\ h.versions[1] = InitialRevision(r)
      BY <3>2 DEF Document
    <3>4. BeginsWith(r, h)
      BY <3>2, <3>3 DEF BeginsWith
    <3> HIDE DEF h
    <3> QED
      BY <1>1, <2>2, <2>3, <3>1, <3>3, <3>4, DocumentIsRecord DEF IInv, FilesBegin
  <2> QED
    BY <2>4, <2>5
<1>3. ASSUME NEW v \in Revision, RevisionSteps(v) PROVE FilesBegin' /\ CopiesBegin'
  BY <1>3, RevisionKeepsFiles
<1>4. ASSUME NEW a \in Archiver, NEW d \in Run, ReadForArchive(a, d) PROVE FilesBegin' /\ CopiesBegin'
  <2>1. a \in Editor /\ a \notin Revision /\ BeginsWith(d, record[d]) /\ record[d] \in Record
    BY <1>4 DEF Editor, ReadForArchive, IInv, FilesBegin
  <2> QED
    BY <1>4, <2>1, OwnCopy DEF ReadForArchive, Goes, IInv, FilesBegin, CopiesBegin
<1>5. ASSUME NEW a \in Archiver, NEW flag \in BOOLEAN, WriteArchived(a, flag)
      PROVE  FilesBegin' /\ CopiesBegin'
  <2> DEFINE h == [copy[a] EXCEPT !.archived = flag]
  <2>1. a \in Editor /\ a \notin Revision /\ document[a] \in Run /\ BeginsWith(document[a], copy[a])
    BY <1>5 DEF Editor, WriteArchived, IInv, CopiesBegin, Holds
  <2>2. h \in Document /\ h.versions = copy[a].versions
    BY <2>1 DEF BeginsWith, Document
  <2>3. BeginsWith(document[a], h)
    BY <2>1, <2>2 DEF BeginsWith
  <2>4. Write(a, h) /\ pc' = [pc EXCEPT ![a] = "ended"] /\ UNCHANGED <<document, copy, number>>
    BY <1>5 DEF WriteArchived, Goes
  <2> HIDE DEF h
  <2>5. FilesBegin'
    BY <2>1, <2>3, <2>4, WriteKeepsFiles
  <2>6. document = [document EXCEPT ![a] = document[a]] /\ copy = [copy EXCEPT ![a] = copy[a]]
        /\ document[a] \in Run \cup {Nobody} /\ copy[a] \in Record /\ number \in [Revision -> Nat]
    BY <2>1 DEF IInv, CopiesBegin
  <2> QED
    BY <2>1, <2>4, <2>5, <2>6, OwnCopy
<1>6. ASSUME NEW d \in Run, DeleteHistory(d) PROVE FilesBegin' /\ CopiesBegin'
  <2>1. record' = [record EXCEPT ![d] = NoRecord] /\ NoRecord \in Record
    BY <1>6 DEF DeleteHistory, Record
  <2>2. FilesBegin'
    BY <2>1 DEF IInv, FilesBegin
  <2> QED
    BY <1>1, <1>6, <2>2 DEF DeleteHistory
<1>7. CASE CancelPipeline \/ UNCHANGED vars
  BY <1>1, <1>7 DEF CancelPipeline, vars, IInv, FilesBegin
<1> QED
  BY <1>2, <1>3, <1>4, <1>5, <1>6, <1>7 DEF Next, PipelineSteps, RevisionSteps, ArchiveItem

LEMMA Inductive == Spec => []IInv
<1>1. Init => ServerTyped
  BY DEF Init, ServerTyped, Status, Places
<1>2. Init => FilesBegin /\ CopiesBegin
  BY DEF Init, FilesBegin, CopiesBegin, Record, Editor, Client
<1> QED
  BY <1>1, <1>2, StepIInv, PTL DEF Spec, IInv

(* The generated text of a document survives as its ready version 1, in    *)
(* whatever order any number of revisions, their failures, archivers and   *)
(* deletions rewrite the file that holds it.                               *)
THEOREM FirstVersionIsKept == Spec => []FirstVersionKept
<1>1. IInv => FirstVersionKept
  <2> SUFFICES ASSUME IInv, NEW d \in Run, record[d] # NoRecord
               PROVE  HasStatus(record[d], 1, {"ready"}) /\ record[d].versions[1].by = d
    BY DEF FirstVersionKept
  <2>1. BeginsWith(d, record[d])
    BY DEF IInv, FilesBegin
  <2> QED
    BY <2>1 DEF BeginsWith, HasStatus, DocumentName
<1> QED
  BY <1>1, Inductive, PTL
-----------------------------------------------------------------------------
(* The history of the server (RunHistory): the metadata files, the rows    *)
(* imported from them and the directories.  First what the operations of   *)
(* the registry do to the one run that they are about.                     *)
HIDE RunServerAssumption DEF RunServerAssumption
USE HistoryAssumption DEF HistoryAssumption

RowType == [exists : BOOLEAN, status : RowStatus \cup {"none"}, file : Nat, archived : BOOLEAN]
Counts == [Kind -> Nat]
Row(d, r) == d.rows[r]
Rels(d, r) == d.rels[r]

IsRegistry(d) ==
    /\ d \in [rows : [RunId -> RowType], rels : [RunId -> Counts]]
    /\ \A r \in RunId : ~Row(d, r).exists => Row(d, r) = NoRow /\ Rels(d, r) = NoRelations

(* Registry e is d, but for run r.                                         *)
OnlyIn(r, d, e) == IsRegistry(e) /\ \A s \in RunId \ {r} : Row(e, s) = Row(d, s) /\ Rels(e, s) = Rels(d, s)

LEMMA RowsAre ==
    /\ NoRow \in RowType /\ ~NoRow.exists /\ NoRow.file = 0
    /\ RunningRow \in RowType /\ RunningRow.exists /\ RunningRow.file = 0
    /\ NoRelations \in Counts /\ \A k \in Kind : NoRelations[k] = 0
    /\ "docx" \in Kind
BY DEF NoRow, RunningRow, RowType, RowStatus, NoRelations, Counts, Kind, ArtifactType

LEMMA EmptyIs ==
    IsRegistry(EmptyDatabase) /\ \A r \in RunId : Row(EmptyDatabase, r) = NoRow /\ Rels(EmptyDatabase, r) = NoRelations
BY RowsAre DEF EmptyDatabase, IsRegistry, Row, Rels

(* What a run's row and relations become, when only they are changed.      *)
LEMMA Assigned ==
    ASSUME NEW d, IsRegistry(d), NEW r \in RunId, NEW row \in RowType, NEW rel \in Counts,
           row.exists \/ (row = NoRow /\ rel = NoRelations),
           NEW e, e = [rows |-> [d.rows EXCEPT ![r] = row], rels |-> [d.rels EXCEPT ![r] = rel]]
    PROVE  OnlyIn(r, d, e) /\ Row(e, r) = row /\ Rels(e, r) = rel
<1>1. d.rows \in [RunId -> RowType] /\ d.rels \in [RunId -> Counts]
  BY DEF IsRegistry
<1>2. PICK rows, rels : rows = [d.rows EXCEPT ![r] = row] /\ rels = [d.rels EXCEPT ![r] = rel]
  OBVIOUS
<1>3. e = [rows |-> rows, rels |-> rels] /\ e.rows = rows /\ e.rels = rels
  BY <1>2
<1>4. rows \in [RunId -> RowType] /\ rels \in [RunId -> Counts] /\ rows[r] = row /\ rels[r] = rel
  BY <1>1, <1>2
<1>5. \A s \in RunId \ {r} : rows[s] = d.rows[s] /\ rels[s] = d.rels[s]
  BY <1>1, <1>2
<1>6. e \in [rows : [RunId -> RowType], rels : [RunId -> Counts]]
  BY <1>3, <1>4
<1>7. \A s \in RunId : ~rows[s].exists => rows[s] = NoRow /\ rels[s] = NoRelations
  BY <1>4, <1>5 DEF IsRegistry, Row, Rels
<1> QED
  BY <1>3, <1>4, <1>5, <1>6, <1>7 DEF OnlyIn, IsRegistry, Row, Rels

(* A database is its two tables.                                           *)
LEMMA Tables ==
    ASSUME NEW d, IsRegistry(d), NEW r \in RunId
    PROVE  /\ \A row : [d EXCEPT !.rows[r] = row] = [rows |-> [d.rows EXCEPT ![r] = row], rels |-> [d.rels EXCEPT ![r] = Rels(d, r)]]
           /\ \A rel : [d EXCEPT !.rels[r] = rel] = [rows |-> [d.rows EXCEPT ![r] = Row(d, r)], rels |-> [d.rels EXCEPT ![r] = rel]]
           /\ Row(d, r) \in RowType /\ Rels(d, r) \in Counts
           /\ Row(d, r).exists \/ (Row(d, r) = NoRow /\ Rels(d, r) = NoRelations)
<1>1. d \in [rows : [RunId -> RowType], rels : [RunId -> Counts]]
  BY DEF IsRegistry
<1>2. d.rows = [d.rows EXCEPT ![r] = Row(d, r)] /\ d.rels = [d.rels EXCEPT ![r] = Rels(d, r)]
  BY <1>1 DEF Row, Rels
<1>3. Row(d, r) \in RowType /\ Rels(d, r) \in Counts
  BY <1>1 DEF Row, Rels
<1>4. \A row : [d EXCEPT !.rows[r] = row] = [rows |-> [d.rows EXCEPT ![r] = row], rels |-> d.rels]
  BY <1>1
<1>5. \A rel : [d EXCEPT !.rels[r] = rel] = [rows |-> d.rows, rels |-> [d.rels EXCEPT ![r] = rel]]
  BY <1>1
<1> QED
  BY <1>2, <1>3, <1>4, <1>5 DEF IsRegistry

LEMMA CreateRunIs ==
    ASSUME NEW d, IsRegistry(d), NEW r \in RunId, NEW row \in RowType, row.exists
    PROVE  /\ OnlyIn(r, d, CreateRun(d, r, row)) /\ Row(CreateRun(d, r, row), r).exists
           /\ ~Row(d, r).exists => /\ Row(CreateRun(d, r, row), r) = row
                                   /\ Rels(CreateRun(d, r, row), r) = NoRelations
<1> PICK e : e = CreateRun(d, r, row)
  OBVIOUS
<1>1. CASE Row(d, r).exists
  <2>1. e = d
    BY <1>1 DEF CreateRun, Has, GetRun, Row
  <2> QED
    BY <1>1, <2>1 DEF OnlyIn
<1>2. CASE ~Row(d, r).exists
  <2>1. e = [d EXCEPT !.rows[r] = row]
    BY <1>2 DEF CreateRun, Has, GetRun, Row
  <2>2. e = [rows |-> [d.rows EXCEPT ![r] = row], rels |-> [d.rels EXCEPT ![r] = Rels(d, r)]]
    BY <2>1, Tables
  <2>3. Rels(d, r) \in Counts /\ Rels(d, r) = NoRelations
    BY <1>2, Tables
  <2>4. OnlyIn(r, d, e) /\ Row(e, r) = row /\ Rels(e, r) = Rels(d, r)
    BY <2>2, <2>3, Assigned
  <2> QED
    BY <2>3, <2>4
<1> QED
  BY <1>1, <1>2

LEMMA UpdateRunIs ==
    ASSUME NEW d, IsRegistry(d), NEW r \in RunId, NEW row \in RowType, row.exists
    PROVE  /\ OnlyIn(r, d, UpdateRun(d, r, row))
           /\ Row(d, r).exists => Row(UpdateRun(d, r, row), r) = row
<1> PICK e : e = UpdateRun(d, r, row)
  OBVIOUS
<1>1. CASE ~Row(d, r).exists
  BY <1>1 DEF UpdateRun, Has, GetRun, Row, OnlyIn
<1>2. CASE Row(d, r).exists
  <2>1. e = [d EXCEPT !.rows[r] = row]
    BY <1>2 DEF UpdateRun, Has, GetRun, Row
  <2>2. e = [rows |-> [d.rows EXCEPT ![r] = row], rels |-> [d.rels EXCEPT ![r] = Rels(d, r)]]
    BY <2>1, Tables
  <2>3. Rels(d, r) \in Counts
    BY Tables
  <2>4. OnlyIn(r, d, e) /\ Row(e, r) = row
    BY <2>2, <2>3, Assigned
  <2> QED
    BY <2>4
<1> QED
  BY <1>1, <1>2

LEMMA UpdateRunStatusIs ==
    ASSUME NEW d, IsRegistry(d), NEW r \in RunId, NEW some \in RowStatus
    PROVE  /\ OnlyIn(r, d, UpdateRunStatus(d, r, some))
           /\ Row(UpdateRunStatus(d, r, some), r).exists = Row(d, r).exists
           /\ Row(UpdateRunStatus(d, r, some), r).file = Row(d, r).file
           /\ Row(UpdateRunStatus(d, r, some), r).archived = Row(d, r).archived
           /\ Rels(UpdateRunStatus(d, r, some), r) = Rels(d, r)
<1> PICK e : e = UpdateRunStatus(d, r, some)
  OBVIOUS
<1>1. CASE ~Row(d, r).exists
  BY <1>1 DEF UpdateRunStatus, Has, GetRun, Row, OnlyIn
<1>2. CASE Row(d, r).exists
  <2>1. PICK row : row = [Row(d, r) EXCEPT !.status = some]
    OBVIOUS
  <2>2. Row(d, r) \in RowType /\ Rels(d, r) \in Counts
    BY Tables
  <2>3. /\ row \in RowType /\ row.exists = Row(d, r).exists /\ row.file = Row(d, r).file
        /\ row.archived = Row(d, r).archived
    BY <2>1, <2>2 DEF RowType
  <2>4. e = [d EXCEPT !.rows[r] = row]
    <3>1. e = [d EXCEPT !.rows[r].status = some]
      BY <1>2 DEF UpdateRunStatus, Has, GetRun, Row
    <3>2. [d EXCEPT !.rows[r].status = some] = [d EXCEPT !.rows[r] = [@ EXCEPT !.status = some]]
      OBVIOUS
    <3> QED
      BY <2>1, <3>1, <3>2 DEF Row
  <2>5. e = [rows |-> [d.rows EXCEPT ![r] = row], rels |-> [d.rels EXCEPT ![r] = Rels(d, r)]]
    BY <2>4, Tables
  <2>6. row.exists
    BY <1>2, <2>3
  <2>7. OnlyIn(r, d, e) /\ Row(e, r) = row /\ Rels(e, r) = Rels(d, r)
    BY <2>2, <2>3, <2>5, <2>6, Assigned
  <2> QED
    BY <2>3, <2>7
<1> QED
  BY <1>1, <1>2

LEMMA InsertIs ==
    ASSUME NEW d, IsRegistry(d), NEW r \in RunId, NEW k \in Kind
    PROVE  /\ OnlyIn(r, d, Insert(d, r, k)) /\ Row(Insert(d, r, k), r) = Row(d, r)
           /\ \A j \in Kind \ {k} : Rels(Insert(d, r, k), r)[j] = Rels(d, r)[j]
           /\ Row(d, r).exists => Rels(Insert(d, r, k), r)[k] = Rels(d, r)[k] + 1
<1> PICK e : e = Insert(d, r, k)
  OBVIOUS
<1>1. CASE ~Row(d, r).exists
  BY <1>1 DEF Insert, Has, GetRun, Row, OnlyIn
<1>2. CASE Row(d, r).exists
  <2>1. PICK rel : rel = [Rels(d, r) EXCEPT ![k] = Rels(d, r)[k] + 1]
    OBVIOUS
  <2>2. Row(d, r) \in RowType /\ Rels(d, r) \in Counts
    BY Tables
  <2>3. rel \in Counts /\ rel[k] = Rels(d, r)[k] + 1 /\ \A j \in Kind \ {k} : rel[j] = Rels(d, r)[j]
    BY <2>1, <2>2 DEF Counts
  <2>4. e = [d EXCEPT !.rels[r] = rel]
    <3>1. e = [d EXCEPT !.rels[r] = [@ EXCEPT ![k] = Rels(d, r)[k] + 1]]
      BY <1>2 DEF Insert, Has, GetRun, Row, Relations, Rels
    <3> QED
      BY <2>1, <3>1 DEF Rels
  <2>5. e = [rows |-> [d.rows EXCEPT ![r] = Row(d, r)], rels |-> [d.rels EXCEPT ![r] = rel]]
    BY <2>4, Tables
  <2>6. OnlyIn(r, d, e) /\ Row(e, r) = Row(d, r) /\ Rels(e, r) = rel
    BY <1>2, <2>2, <2>3, <2>5, Assigned
  <2> QED
    BY <2>3, <2>6
<1> QED
  BY <1>1, <1>2

LEMMA ClearIs ==
    ASSUME NEW d, IsRegistry(d), NEW r \in RunId, NEW kinds \in SUBSET Kind
    PROVE  /\ OnlyIn(r, d, Clear(d, r, kinds)) /\ Row(Clear(d, r, kinds), r) = Row(d, r)
           /\ \A k \in Kind : Rels(Clear(d, r, kinds), r)[k] = IF k \in kinds THEN 0 ELSE Rels(d, r)[k]
<1>1. PICK e : e = Clear(d, r, kinds)
  OBVIOUS
<1>2. PICK rel : rel = [k \in Kind |-> IF k \in kinds THEN 0 ELSE Rels(d, r)[k]]
  OBVIOUS
<1>3. Row(d, r) \in RowType /\ Rels(d, r) \in Counts
  BY Tables
<1>4. rel \in Counts
  BY <1>2, <1>3 DEF Counts
<1>5. e = [d EXCEPT !.rels[r] = rel]
  BY <1>1, <1>2 DEF Clear, Rels
<1>6. e = [rows |-> [d.rows EXCEPT ![r] = Row(d, r)], rels |-> [d.rels EXCEPT ![r] = rel]]
  BY <1>5, Tables
<1>7. Row(d, r).exists \/ (Row(d, r) = NoRow /\ rel = NoRelations)
  <2>1. CASE ~Row(d, r).exists
    <3>1. Row(d, r) = NoRow /\ Rels(d, r) = NoRelations
      BY <2>1, Tables
    <3>2. rel = NoRelations
      BY <1>2, <3>1 DEF NoRelations
    <3> QED
      BY <3>1, <3>2
  <2> QED
    BY <2>1
<1>8. OnlyIn(r, d, e) /\ Row(e, r) = Row(d, r) /\ Rels(e, r) = rel
  BY <1>3, <1>4, <1>6, <1>7, Assigned
<1> QED
  BY <1>1, <1>2, <1>8

LEMMA DeleteRunIs ==
    ASSUME NEW d, IsRegistry(d), NEW r \in RunId
    PROVE  OnlyIn(r, d, DeleteRun(d, r)) /\ Row(DeleteRun(d, r), r) = NoRow /\ Rels(DeleteRun(d, r), r) = NoRelations
<1>1. PICK b, e : b = [d EXCEPT !.rows[r] = NoRow] /\ e = DeleteRun(d, r)
  OBVIOUS
<1>2. d \in [rows : [RunId -> RowType], rels : [RunId -> Counts]]
  BY DEF IsRegistry
<1>3. b = [rows |-> [d.rows EXCEPT ![r] = NoRow], rels |-> d.rels]
  BY <1>1, <1>2
<1>4. e = [b EXCEPT !.rels[r] = NoRelations]
  BY <1>1 DEF DeleteRun, Clear, NoRelations
<1>5. e = [rows |-> [d.rows EXCEPT ![r] = NoRow], rels |-> [d.rels EXCEPT ![r] = NoRelations]]
  BY <1>3, <1>4
<1>6. OnlyIn(r, d, e) /\ Row(e, r) = NoRow /\ Rels(e, r) = NoRelations
  BY <1>5, RowsAre, Assigned
<1> QED
  BY <1>1, <1>6

-----------------------------------------------------------------------------
(* The state of the history, and what is true of a run at every place of   *)
(* the one request that works on it.                                       *)
Threads == Thread \cup {Boot}
ImportPlaces == {"open", "lookup", "store"}
ResetPlaces == {"reset_tables", "reset_files", "reset_dirs"}
DeletePlaces == {"delete_assets", "delete_row", "delete_dir", "delete_file"}
PipelinePlaces == {"register", "attach", "generate", "finish", "complete", "fail", "save", "tidy", "discard"}
ExportPlaces == {"render", "describe", "link", "rewrite"}
HistoryPlaces == {"idle"} \cup ImportPlaces \cup ResetPlaces \cup DeletePlaces \cup PipelinePlaces \cup ExportPlaces
Operations == {"update", "create", "clear_artifacts", "clear_snapshots", "clear_sources",
               "snapshot", "docx", "pdf", "json"}

Request == [pc : HistoryPlaces, run : RunId \cup {0}, file : 0..MaxFiles, data : Content,
            kind : {"none", "docx", "pdf"}, topic : RunId \cup {0}, op : Operations \cup {"none"},
            then : {"idle", "tidy", "own", "page"}]

IsRequest(q) ==
    /\ q \in Request
    /\ IF q.pc \in ResetPlaces THEN q.run = 0 ELSE q.pc = "idle" \/ q.run \in RunId
    /\ q.pc \in ImportPlaces \cup {"rewrite"} => q.file \in FileNo
    /\ q.pc \in ImportPlaces => q.then \in {"idle", "tidy"}
    /\ q.pc = "store" => q.op \in Operations

MetadataFile == [exists : BOOLEAN, data : Content]

DataTyped ==
    /\ files \in [RunId -> [FileNo -> MetadataFile]] /\ named \in [RunId -> Nat]
    /\ IsRegistry(db)
    /\ current \in [run : RunId \cup {0}, docx : DocumentName, pdf : DocumentName]
    /\ now \in RunId /\ todo \subseteq RunId \X FileNo

HistoryTyped == DataTyped /\ req \in [Threads -> Request] /\ \A t \in Threads : IsRequest(req[t])

(* A name is used before its file exists.                                  *)
NamesAreUsed == \A r \in RunId, n \in FileNo : files[r][n].exists => n <= named[r]

(* Registry d agrees with the record that the row of r names.              *)
Mirror(d, r) ==
    IF Row(d, r).file = 0
    THEN Rels(d, r)["docx"] = 0
    ELSE LET n == Row(d, r).file
         IN  /\ n \in FileNo /\ files[r][n].exists
             /\ Row(d, r).archived = files[r][n].data.archived
             /\ \A k \in ImportedKind : Rels(d, r)[k] = RelationsOf(files[r][n].data)[k]

(* The progress of the import q, which is going to perform op: what was    *)
(* cleared is empty, and what was added is there once.                     *)
One(b) == IF b THEN 1 ELSE 0
Progress(d, q, op) ==
    /\ op \in Operations
    /\ op = "update" => Row(d, q.run).exists
    /\ op = "create" => ~Row(d, q.run).exists
    /\ op \notin {"update", "create"} => Row(d, q.run) = ImportedRow(q)
    /\ op \notin {"update", "create", "clear_artifacts"} =>
          /\ Rels(d, q.run)["attachment"] = 0 /\ Rels(d, q.run)["json"] = 0
          /\ Rels(d, q.run)["docx"] = (IF op \in {"pdf", "json"} THEN One(Names(q.data, "docx")) ELSE 0)
          /\ Rels(d, q.run)["pdf"] = (IF op = "json" THEN One(Names(q.data, "pdf")) ELSE 0)
    /\ op \notin {"update", "create", "clear_artifacts", "clear_snapshots"} =>
          Rels(d, q.run)["snapshot"] = One(op \in {"docx", "pdf", "json"})
    /\ op \notin {"update", "create", "clear_artifacts", "clear_snapshots", "clear_sources"} =>
          Rels(d, q.run)["source"] = 0
    /\ op = "docx" => Names(q.data, "docx")
    /\ op = "pdf" => Names(q.data, "pdf")

Importable(d, q) ==
    /\ files[q.run][q.file].exists
    /\ q.pc \in {"lookup", "store"} => q.data = files[q.run][q.file].data
    /\ q.pc = "store" => Progress(d, q, q.op)

LEMMA ImportedRowIs ==
    ASSUME NEW q, IsRequest(q), q.pc \in ImportPlaces
    PROVE  /\ ImportedRow(q) \in RowType /\ ImportedRow(q).exists /\ ImportedRow(q).file = q.file
           /\ ImportedRow(q).archived = q.data.archived
<1>1. q.file \in Nat /\ q.data \in Content
  BY DEF IsRequest, Request, FileNo
<1> QED
  BY <1>1 DEF ImportedRow, RowType, RowStatus, Content

LEMMA Kinds ==
    /\ ArtifactType \in SUBSET Kind /\ {"snapshot"} \in SUBSET Kind /\ {"source"} \in SUBSET Kind
    /\ \A k \in {"docx", "pdf", "json", "attachment", "snapshot", "source", "agent", "section", "evaluation"} : k \in Kind
    /\ ImportedKind = {"docx", "pdf", "json", "attachment", "snapshot", "source"}
    /\ ArtifactType = {"docx", "pdf", "json", "attachment"}
BY DEF Kind, ArtifactType, ImportedKind

(* An import that nobody disturbs is never refused; each operation leaves  *)
(* what the next one needs, and the last one the registry in agreement.    *)
LEMMA StoreStepIs ==
    ASSUME HistoryTyped, NEW q, IsRequest(q), q.pc = "store", Importable(db, q),
           NEW e, e = Perform(q), NEW next, next = NextOp(q.op, q.data)
    PROVE  /\ OnlyIn(q.run, db, e) /\ ~Refused(q)
           /\ IF next = "none" THEN Mirror(e, q.run) /\ Row(e, q.run).exists ELSE Progress(e, q, next)
<1>1. PICK r, op, data : r = q.run /\ op = q.op /\ data = q.data
  OBVIOUS
<1>2. /\ r \in RunId /\ IsRegistry(db) /\ op \in Operations /\ data \in Content /\ Progress(db, q, op)
      /\ q.file \in FileNo /\ files[r][q.file].exists /\ data = files[r][q.file].data /\ q.pc \in ImportPlaces
  BY <1>1 DEF HistoryTyped, DataTyped, IsRequest, Request, Importable, ImportPlaces, ResetPlaces
<1>3. r \in RunId /\ IsRegistry(db)
  BY <1>2
<1>4. PICK row : row = ImportedRow(q)
  OBVIOUS
<1>5. row \in RowType /\ row.exists /\ row.file = q.file /\ row.archived = data.archived
  BY <1>1, <1>2, <1>4, ImportedRowIs
<1>6. Rels(db, r) \in Counts /\ (~Row(db, r).exists => Rels(db, r) = NoRelations)
  BY <1>2, Tables
<1>7. Names(data, "docx") \in BOOLEAN /\ Names(data, "pdf") \in BOOLEAN
  BY DEF Names
<1>8. CASE op = "update"
  <2>1. Row(db, r).exists /\ e = UpdateRun(db, r, row) /\ next = "clear_artifacts"
    BY <1>1, <1>2, <1>4, <1>8 DEF Progress, Perform, NextOp
  <2>2. OnlyIn(r, db, e) /\ Row(e, r) = row
    BY <1>2, <1>5, <2>1, UpdateRunIs
  <2>3. ~Refused(q)
    BY <1>1, <1>8 DEF Refused, Kind, ArtifactType
  <2> QED
    BY <1>1, <1>4, <2>1, <2>2, <2>3 DEF Progress, Operations
<1>9. CASE op = "create"
  <2>1. ~Row(db, r).exists /\ e = CreateRun(db, r, row) /\ next = "snapshot"
    BY <1>1, <1>2, <1>4, <1>9 DEF Progress, Perform, NextOp
  <2>2. OnlyIn(r, db, e) /\ Row(e, r) = row /\ Rels(e, r) = NoRelations
    BY <1>2, <1>5, <2>1, CreateRunIs
  <2>3. ~Refused(q)
    BY <1>1, <1>9, <2>1 DEF Refused, Has, GetRun, Row
  <2>4. \A k \in ImportedKind : Rels(e, r)[k] = 0
    BY <2>2, RowsAre, Kinds
  <2> QED
    BY <1>1, <1>4, <2>1, <2>2, <2>3, <2>4, Kinds DEF Progress, Operations, One
<1>10. ASSUME op \notin {"update", "create"}
      PROVE  Row(db, r) = row /\ ~Refused(q)
  <2>1. Row(db, r) = row
    BY <1>1, <1>2, <1>4, <1>10 DEF Progress
  <2> QED
    BY <1>1, <1>5, <1>10, <2>1 DEF Refused, Has, GetRun, Row
<1>11. CASE op = "clear_artifacts"
  <2>1. e = Clear(db, r, ArtifactType) /\ next = "clear_snapshots"
    BY <1>1, <1>2, <1>4, <1>11 DEF Perform, NextOp, DeleteRunArtifacts
  <2>2. /\ OnlyIn(r, db, e) /\ Row(e, r) = Row(db, r)
        /\ \A k \in Kind : Rels(e, r)[k] = IF k \in ArtifactType THEN 0 ELSE Rels(db, r)[k]
    BY <1>3, <2>1, Kinds, ClearIs
  <2>3. \A k \in {"docx", "pdf", "json", "attachment"} : Rels(e, r)[k] = 0
    BY <2>2, Kinds
  <2> QED
    BY <1>1, <1>4, <1>10, <1>11, <2>1, <2>2, <2>3 DEF Progress, Operations
<1>12. CASE op = "clear_snapshots"
  <2>1. e = Clear(db, r, {"snapshot"}) /\ next = "clear_sources"
    BY <1>1, <1>2, <1>4, <1>12 DEF Perform, NextOp, DeleteRunSnapshots
  <2>2. /\ OnlyIn(r, db, e) /\ Row(e, r) = Row(db, r)
        /\ \A k \in Kind : Rels(e, r)[k] = IF k \in {"snapshot"} THEN 0 ELSE Rels(db, r)[k]
    <3>1. PICK kinds : kinds = {"snapshot"} /\ kinds \in SUBSET Kind
      BY Kinds
    <3>2. e = Clear(db, r, kinds)
      BY <2>1, <3>1
    <3> QED
      BY <1>3, <3>1, <3>2, ClearIs
  <2>3. Rels(e, r)["snapshot"] = 0 /\ \A k \in {"docx", "pdf", "json", "attachment"} : Rels(e, r)[k] = Rels(db, r)[k]
    BY <2>2, Kinds
  <2> QED
    BY <1>1, <1>2, <1>4, <1>10, <1>12, <2>1, <2>2, <2>3 DEF Progress, Operations, One
<1>13. CASE op = "clear_sources"
  <2>1. e = Clear(db, r, {"source"}) /\ next = "snapshot"
    BY <1>1, <1>2, <1>4, <1>13 DEF Perform, NextOp, DeleteRunSources
  <2>2. /\ OnlyIn(r, db, e) /\ Row(e, r) = Row(db, r)
        /\ \A k \in Kind : Rels(e, r)[k] = IF k \in {"source"} THEN 0 ELSE Rels(db, r)[k]
    <3>1. PICK kinds : kinds = {"source"} /\ kinds \in SUBSET Kind
      BY Kinds
    <3>2. e = Clear(db, r, kinds)
      BY <2>1, <3>1
    <3> QED
      BY <1>3, <3>1, <3>2, ClearIs
  <2>3. Rels(e, r)["source"] = 0 /\ \A k \in {"docx", "pdf", "json", "attachment", "snapshot"} : Rels(e, r)[k] = Rels(db, r)[k]
    BY <2>2, Kinds
  <2> QED
    BY <1>1, <1>2, <1>4, <1>10, <1>13, <2>1, <2>2, <2>3 DEF Progress, Operations, One
<1>14. CASE op \in {"snapshot", "docx", "pdf", "json"}
  <2>1. e = Insert(db, r, op) /\ op \in Kind /\ Row(db, r).exists
    BY <1>1, <1>4, <1>5, <1>10, <1>14, Kinds DEF Perform, AddRuntimeSnapshot, AddArtifact
  <2>2. /\ OnlyIn(r, db, e) /\ Row(e, r) = row
        /\ \A k \in Kind \ {op} : Rels(e, r)[k] = Rels(db, r)[k]
        /\ Rels(e, r)[op] = Rels(db, r)[op] + 1
    BY <1>2, <1>10, <1>14, <2>1, InsertIs
  <2>3. \A k \in ImportedKind \ {op} : Rels(e, r)[k] = Rels(db, r)[k]
    BY <2>2, Kinds DEF ImportedKind, Kind
  <2>4. CASE op = "snapshot"
    <3>1. Rels(e, r)["snapshot"] = 1 /\ \A k \in ImportedKind \ {"snapshot"} : Rels(e, r)[k] = 0
      BY <1>1, <1>2, <2>2, <2>3, <2>4, Kinds DEF Progress, One
    <3>2. next = (IF Names(data, "docx") THEN "docx" ELSE IF Names(data, "pdf") THEN "pdf" ELSE "json")
      BY <1>1, <2>4 DEF NextOp, Addition
    <3> QED
      BY <1>1, <1>4, <1>7, <1>10, <2>2, <2>4, <3>1, <3>2, Kinds DEF Progress, Operations, One
  <2>5. CASE op = "docx"
    <3>1. /\ Rels(e, r)["docx"] = 1 /\ Rels(e, r)["snapshot"] = 1 /\ Names(data, "docx")
          /\ \A k \in ImportedKind \ {"snapshot", "docx"} : Rels(e, r)[k] = 0
      BY <1>1, <1>2, <2>2, <2>3, <2>5, Kinds DEF Progress, One
    <3>2. next = (IF Names(data, "pdf") THEN "pdf" ELSE "json")
      BY <1>1, <2>5 DEF NextOp
    <3> QED
      BY <1>1, <1>4, <1>7, <1>10, <2>2, <2>5, <3>1, <3>2, Kinds DEF Progress, Operations, One
  <2>6. CASE op = "pdf"
    <3>1. /\ Rels(e, r)["docx"] = One(Names(data, "docx")) /\ Rels(e, r)["snapshot"] = 1 /\ Rels(e, r)["pdf"] = 1 /\ Names(data, "pdf")
          /\ \A k \in {"json", "attachment", "source"} : Rels(e, r)[k] = 0
      BY <1>1, <1>2, <2>2, <2>3, <2>6, Kinds DEF Progress, One
    <3>2. next = "json"
      BY <1>1, <2>6 DEF NextOp
    <3> QED
      BY <1>1, <1>4, <1>7, <1>10, <2>2, <2>6, <3>1, <3>2 DEF Progress, Operations, One
  <2>7. CASE op = "json"
    <3>1. /\ Rels(e, r)["docx"] = One(Names(data, "docx")) /\ Rels(e, r)["snapshot"] = 1 /\ Rels(e, r)["pdf"] = One(Names(data, "pdf"))
          /\ Rels(e, r)["json"] = 1 /\ \A k \in {"attachment", "source"} : Rels(e, r)[k] = 0
      BY <1>1, <1>2, <2>2, <2>3, <2>7, Kinds DEF Progress, One
    <3>2. next = "none"
      BY <1>1, <2>7 DEF NextOp
    <3>3. Row(e, r) = row /\ row.file = q.file /\ q.file # 0
      BY <1>2, <1>5, <1>10, <2>2, <2>7 DEF FileNo
    <3>4. \A k \in ImportedKind : Rels(e, r)[k] = RelationsOf(data)[k]
      BY <1>7, <3>1, Kinds DEF RelationsOf, One, Format
    <3>5. Mirror(e, r)
      BY <1>2, <1>5, <3>3, <3>4 DEF Mirror
    <3> QED
      BY <1>1, <1>5, <1>10, <2>2, <2>7, <3>2, <3>3, <3>5
  <2> QED
    BY <1>14, <2>4, <2>5, <2>6, <2>7
<1> QED
  BY <1>2, <1>8, <1>9, <1>11, <1>12, <1>13, <1>14 DEF Operations

(* Whatever the import finds, it changes only what belongs to its run.     *)
LEMMA PerformIs ==
    ASSUME HistoryTyped, NEW q, IsRequest(q), q.pc = "store"
    PROVE  OnlyIn(q.run, db, Perform(q))
<1>1. q.run \in RunId /\ IsRegistry(db) /\ q.op \in Operations /\ ImportedRow(q) \in RowType /\ ImportedRow(q).exists
  BY ImportedRowIs DEF HistoryTyped, DataTyped, IsRequest, ImportPlaces, ResetPlaces
<1>2. CASE q.op = "update"
  BY <1>1, <1>2, UpdateRunIs DEF Perform
<1>3. CASE q.op = "create"
  BY <1>1, <1>3, CreateRunIs DEF Perform
<1>4. CASE q.op \in {"clear_artifacts", "clear_snapshots", "clear_sources"}
  <2>1. PICK kinds \in SUBSET Kind : Perform(q) = Clear(db, q.run, kinds)
    BY <1>4, Kinds DEF Perform, DeleteRunArtifacts, DeleteRunSnapshots, DeleteRunSources
  <2>2. PICK r : r = q.run
    OBVIOUS
  <2>3. OnlyIn(r, db, Clear(db, r, kinds))
    BY <1>1, <2>2, ClearIs
  <2> QED
    BY <2>1, <2>2, <2>3
<1>5. CASE q.op \in {"snapshot", "docx", "pdf", "json"}
  <2>1. q.op \in Kind /\ Perform(q) = Insert(db, q.run, q.op)
    BY <1>5, Kinds DEF Perform, AddRuntimeSnapshot, AddArtifact
  <2>2. PICK r, k : r = q.run /\ k = q.op
    OBVIOUS
  <2>3. OnlyIn(r, db, Insert(db, r, k))
    BY <1>1, <2>1, <2>2, InsertIs
  <2> QED
    BY <2>1, <2>2, <2>3
<1> QED
  BY <1>1, <1>2, <1>3, <1>4, <1>5 DEF Operations

LEMMA IdleIs == Idle \in Request /\ IsRequest(Idle) /\ Idle.pc = "idle" /\ Idle.run = 0 /\ NoContent \in Content
                  /\ NoName \in DocumentName
<1>0. NoName \in DocumentName
  BY DEF NoName, DocumentName
<1>1. NoContent \in Content
  BY <1>0 DEF NoContent, Content
<1>2. Idle \in Request /\ Idle.pc = "idle" /\ Idle.run = 0
  BY <1>1 DEF Idle, Request, HistoryPlaces
<1> QED
  BY <1>0, <1>1, <1>2 DEF IsRequest, ImportPlaces, ResetPlaces

LEMMA GoOnIs ==
    ASSUME NEW q \in Request, q.run \in RunId, q.then \in {"idle", "tidy"}
    PROVE  IsRequest(GoOn(q)) /\ GoOn(q).pc = q.then /\ GoOn(q).run = q.run
<1>1. PICK r, then, p : r = q.run /\ then = q.then /\ p = GoOn(q)
  OBVIOUS
<1>2. then \in HistoryPlaces /\ r \in RunId /\ p = [Idle EXCEPT !.pc = then, !.run = r]
  BY <1>1 DEF GoOn, HistoryPlaces, PipelinePlaces
<1>3. p \in Request /\ p.pc = then /\ p.run = r
  BY <1>2, IdleIs DEF Request
<1> QED
  BY <1>1, <1>2, <1>3 DEF IsRequest, ImportPlaces, ResetPlaces

LEMMA ImportingIs ==
    ASSUME NEW r \in RunId, NEW n \in FileNo, NEW then \in {"idle", "tidy"}, NEW p, p = Importing(r, n, then)
    PROVE  IsRequest(p) /\ p.pc = "open" /\ p.run = r /\ p.file = n /\ p.then = then
<1>1. "open" \in HistoryPlaces /\ n \in 0..MaxFiles
  BY DEF HistoryPlaces, ImportPlaces, FileNo
<1>2. p = [Idle EXCEPT !.pc = "open", !.run = r, !.file = n, !.then = then]
  BY DEF Importing
<1>3. p \in Request /\ p.pc = "open" /\ p.run = r /\ p.file = n /\ p.then = then
  BY <1>1, <1>2, IdleIs DEF Request
<1> QED
  BY <1>3 DEF IsRequest, ImportPlaces, ResetPlaces

(* A step of an import goes on with it or ends it.                         *)
GoesOn(p, q) == /\ p.pc \in ImportPlaces /\ p.then = q.then
                /\ Importable(db, q) => files'[q.run][p.file].exists /\ Importable(db, p)'
Ends(p, q) == p.pc = q.then /\ (Importable(db, q) => Mirror(db, q.run)' /\ Row(db', q.run).exists)

LEMMA ImportStep ==
    ASSUME HistoryTyped, NEW t \in Threads, Import(t), NEW q, q = req[t]
    PROVE  /\ \E p : /\ IsRequest(p) /\ p.run = q.run /\ req' = [req EXCEPT ![t] = p]
                     /\ GoesOn(p, q) \/ Ends(p, q)
           /\ q.pc \in ImportPlaces /\ OnlyIn(q.run, db, db') /\ UNCHANGED <<disk, process, notes>>
<1>1. IsRequest(q) /\ q \in Request /\ IsRegistry(db)
  BY DEF HistoryTyped, DataTyped
<1>2. CASE OpenFile(t)
  <2>1. q.pc = "open" /\ q.run \in RunId /\ q.file \in FileNo /\ q.then \in {"idle", "tidy"}
    BY <1>1, <1>2 DEF OpenFile, IsRequest, ImportPlaces, ResetPlaces
  <2>2. OnlyIn(q.run, db, db') /\ db' = db /\ UNCHANGED <<disk, process, notes>> /\ files' = files
    BY <1>1, <1>2 DEF OpenFile, OnlyIn, disk
  <2>3. CASE files[q.run][q.file].exists
    <3>1. PICK data : data = files[q.run][q.file].data
      OBVIOUS
    <3>2. data \in Content
      <4>1. files \in [RunId -> [FileNo -> MetadataFile]]
        BY DEF HistoryTyped, DataTyped
      <4>2. files[q.run][q.file] \in MetadataFile
        BY <2>1, <4>1
      <4> QED
        BY <3>1, <4>2 DEF MetadataFile
    <3>3. PICK p : p = [q EXCEPT !.pc = "lookup", !.data = data]
      OBVIOUS
    <3>4. /\ p \in Request /\ p.pc = "lookup" /\ p.data = data /\ p.run = q.run /\ p.file = q.file
          /\ p.then = q.then
      BY <1>1, <3>2, <3>3 DEF Request, HistoryPlaces, ImportPlaces
    <3>5. IsRequest(p)
      BY <2>1, <3>4 DEF IsRequest, ImportPlaces, ResetPlaces
    <3>6. req' = [req EXCEPT ![t] = p]
      BY <1>2, <2>1, <2>3, <3>1, <3>3 DEF OpenFile, Exists
    <3>7. GoesOn(p, q)
      BY <2>2, <3>1, <3>4 DEF GoesOn, Importable, ImportPlaces
    <3> QED
      BY <2>1, <2>2, <3>4, <3>5, <3>6, <3>7 DEF ImportPlaces
  <2>4. CASE ~files[q.run][q.file].exists
    <3>1. PICK p : p = GoOn(q)
      OBVIOUS
    <3>2. IsRequest(p) /\ p.pc = q.then /\ p.run = q.run
      BY <1>1, <2>1, <3>1, GoOnIs
    <3>3. req' = [req EXCEPT ![t] = p]
      BY <1>2, <2>1, <2>4, <3>1 DEF OpenFile, Exists
    <3>4. Ends(p, q)
      BY <2>4, <3>2 DEF Ends, Importable
    <3> QED
      BY <2>1, <2>2, <3>2, <3>3, <3>4 DEF ImportPlaces
  <2> QED
    BY <2>3, <2>4
<1>3. CASE LookUp(t)
  <2>1. q.pc = "lookup" /\ q.run \in RunId /\ q.file \in FileNo /\ q.then \in {"idle", "tidy"}
    BY <1>1, <1>3 DEF LookUp, IsRequest, ImportPlaces, ResetPlaces
  <2>2. OnlyIn(q.run, db, db') /\ db' = db /\ UNCHANGED <<disk, process, notes>> /\ files' = files
    BY <1>1, <1>3 DEF LookUp, OnlyIn, disk
  <2>3. PICK op \in {"update", "create"} : op = FirstOp(Has(db, q.run))
    BY DEF FirstOp
  <2>4. PICK p : p = [q EXCEPT !.pc = "store", !.op = op]
    OBVIOUS
  <2>5. /\ p \in Request /\ p.pc = "store" /\ p.data = q.data /\ p.run = q.run /\ p.file = q.file
        /\ p.then = q.then /\ p.op = op
    BY <1>1, <2>3, <2>4 DEF Request, HistoryPlaces, ImportPlaces, Operations
  <2>6. IsRequest(p)
    BY <2>1, <2>3, <2>5 DEF IsRequest, ImportPlaces, ResetPlaces, Operations
  <2>7. req' = [req EXCEPT ![t] = p]
    BY <1>3, <2>3, <2>4 DEF LookUp
  <2>8. Progress(db, p, op)
    BY <2>3, <2>5 DEF Progress, Operations, FirstOp, Has, GetRun, Row
  <2>9. GoesOn(p, q)
    BY <2>1, <2>2, <2>5, <2>8 DEF GoesOn, Importable, ImportPlaces, Progress
  <2> QED
    BY <2>1, <2>2, <2>5, <2>6, <2>7, <2>9 DEF ImportPlaces
<1>4. CASE StoreStep(t)
  <2>1. q.pc = "store" /\ q.run \in RunId /\ q.file \in FileNo /\ q.then \in {"idle", "tidy"}
    BY <1>1, <1>4 DEF StoreStep, IsRequest, ImportPlaces, ResetPlaces
  <2>2. PICK next : next = NextOp(q.op, q.data)
    OBVIOUS
  <2>3. db' = Perform(q) /\ UNCHANGED <<disk, process, notes>> /\ files' = files
    BY <1>4 DEF StoreStep, disk
  <2>4. OnlyIn(q.run, db, db')
    BY <1>1, <2>1, <2>3, PerformIs
  <2>5. Importable(db, q) =>
           /\ ~Refused(q)
           /\ IF next = "none" THEN Mirror(db', q.run) /\ Row(db', q.run).exists ELSE Progress(db', q, next)
    BY <1>1, <2>1, <2>2, <2>3, StoreStepIs
  <2>6. CASE Refused(q) \/ next = "none"
    <3>1. PICK p : p = GoOn(q)
      OBVIOUS
    <3>2. IsRequest(p) /\ p.pc = q.then /\ p.run = q.run
      BY <1>1, <2>1, <3>1, GoOnIs
    <3>3. req' = [req EXCEPT ![t] = p]
      BY <1>4, <2>2, <2>6, <3>1 DEF StoreStep
    <3>4. Ends(p, q)
      BY <2>3, <2>5, <2>6, <3>2 DEF Ends, Mirror
    <3> QED
      BY <2>1, <2>3, <2>4, <3>2, <3>3, <3>4 DEF ImportPlaces
  <2>7. CASE ~Refused(q) /\ next # "none"
    <3>1. next \in Operations
      BY <1>1, <2>1, <2>2, <2>7 DEF IsRequest, NextOp, Addition, Operations
    <3>2. PICK p : p = [q EXCEPT !.op = next]
      OBVIOUS
    <3>3. /\ p \in Request /\ p.pc = "store" /\ p.data = q.data /\ p.run = q.run /\ p.file = q.file
          /\ p.then = q.then /\ p.op = next
      BY <1>1, <2>1, <3>1, <3>2 DEF Request, HistoryPlaces, ImportPlaces, Operations
    <3>4. IsRequest(p)
      BY <2>1, <3>1, <3>3 DEF IsRequest, ImportPlaces, ResetPlaces
    <3>5. req' = [req EXCEPT ![t] = p]
      BY <1>4, <2>2, <2>7, <3>2 DEF StoreStep
    <3>6. Progress(db', q, next) => Progress(db', p, next)
      BY <3>3 DEF Progress, ImportedRow
    <3>7. GoesOn(p, q)
      BY <2>1, <2>3, <2>5, <2>7, <3>3, <3>6 DEF GoesOn, Importable, ImportPlaces, Progress
    <3> QED
      BY <2>1, <2>3, <2>4, <3>3, <3>4, <3>5, <3>7 DEF ImportPlaces
  <2> QED
    BY <2>6, <2>7
<1> QED
  BY <1>2, <1>3, <1>4 DEF Import

(* A run with a record or at work has a row, unless it was deleted.        *)
HasRecord(r) == \E n \in FileNo : files[r][n].exists
Kept(r) == r \notin deleted /\ (HasRecord(r) \/ current.run = r) => Row(db, r).exists

(* What holds of run r while the only request that works on it is at q.    *)
Fits(q, r) ==
    IF q.pc \in ImportPlaces
    THEN Importable(db, q)
    ELSE /\ Mirror(db, r)
         /\ IF q.pc = "register" THEN r \notin deleted /\ HasRecord(r) => Row(db, r).exists ELSE Kept(r)
         /\ q.pc \in {"render", "describe"} => r \in deleted \/ Row(db, r).exists
         /\ q.pc \in {"attach", "generate", "finish"} => Row(db, r).file = 0
         /\ q.pc \in {"attach", "generate", "finish", "complete", "fail", "save"} => Row(db, r).exists
         /\ q.pc \in DeletePlaces \cup ResetPlaces => r \in deleted
         /\ q.pc \in {"delete_dir", "delete_file", "reset_files", "reset_dirs"} => ~Row(db, r).exists
         /\ q.pc = "reset_dirs" => ~HasRecord(r)

Works(t, r) == req[t].pc # "idle" /\ req[t].run \in {r, 0}

(* Nothing is said of a run whose requests overlapped, and while the       *)
(* server starts.                                                          *)
Fitting(r) ==
    server # "starting" /\ r \notin damaged =>
        /\ \A t, u \in Thread : Works(t, r) /\ Works(u, r) => t = u
        /\ (\A t \in Thread : ~Works(t, r)) => Mirror(db, r) /\ Kept(r)
        /\ \A t \in Thread : Works(t, r) => Fits(req[t], r)

(* The start imports every record, the last one of a run stays imported.   *)
Waiting(r) == \E n \in FileNo : <<r, n>> \in todo
BootFits(r) ==
    IF req[Boot].pc # "idle" /\ req[Boot].run = r
    THEN Importable(db, req[Boot])
    ELSE /\ HasRecord(r) /\ ~Waiting(r) => Mirror(db, r) /\ Row(db, r).exists
         /\ ~HasRecord(r) /\ r \notin damaged => Mirror(db, r)

Booting ==
    /\ server = "starting" => (\A r \in RunId : BootFits(r)) /\ \A x \in todo : files[x[1]][x[2]].exists
    /\ server # "starting" => req[Boot].pc = "idle" /\ todo = {}
    /\ req[Boot].pc # "idle" => req[Boot].then = "idle" /\ req[Boot].pc \in ImportPlaces
    /\ server # "up" => current.run = 0 /\ \A t \in Thread : req[t].pc = "idle"

Wiped ==
    wiped => /\ todo = {} /\ \A t \in Threads : req[t].pc = "idle"
             /\ \A r \in RunId : ~Row(db, r).exists /\ ~HasRecord(r) /\ ~dirs[r].exists

(* A record is only written back under a name that was used.               *)
WritesAreNamed == \A t \in Thread : req[t].pc = "rewrite" => req[t].file <= named[req[t].run]

HistoryInv == HistoryTyped /\ NamesAreUsed /\ WritesAreNamed /\ (\A r \in RunId : Fitting(r)) /\ Booting /\ Wiped

LEMMA FitsStays ==
    ASSUME NEW s \in RunId, NEW w, IsRequest(w), w.pc = "idle" \/ w.run \in {s, 0}, Fits(w, s),
           Row(db', s) = Row(db, s), Rels(db', s) = Rels(db, s), files'[s] = files[s],
           s \in deleted' <=> s \in deleted, current'.run = s => current.run = s
    PROVE  Fits(w, s)'
<1>1. w.pc \in ImportPlaces => w.run = s
  BY DEF IsRequest, ImportPlaces, ResetPlaces
<1>2. HasRecord(s)' <=> HasRecord(s)
  BY DEF HasRecord
<1>3. Mirror(db, s) => Mirror(db, s)'
  BY DEF Mirror
<1>4. Kept(s) => Kept(s)'
  BY <1>2 DEF Kept
<1>5. CASE w.pc \in ImportPlaces
  BY <1>1, <1>5 DEF Fits, Importable, Progress
<1>6. CASE w.pc \notin ImportPlaces
  BY <1>2, <1>3, <1>4, <1>6 DEF Fits
<1> QED
  BY <1>5, <1>6

(* A step of a request at q, which goes on at p: it has to say only what   *)
(* becomes of the runs that it works on.                                   *)
Local(q, s) == Row(db', s) = Row(db, s) /\ Rels(db', s) = Rels(db, s) /\ files'[s] = files[s]

LEMMA ThreadStep ==
    ASSUME HistoryInv, NEW t \in Thread, NEW q, q = req[t], q.pc # "idle",
           NEW p, IsRequest(p), req' = [req EXCEPT ![t] = p], p.pc = "idle" \/ p.run = q.run,
           server' = server, todo' = todo, DataTyped', NamesAreUsed', current'.run = current.run,
           damaged \subseteq damaged', deleted' = deleted, wiped' => wiped \/ Wiped',
           \A s \in RunId : named[s] <= named'[s], p.pc = "rewrite" => p.file <= named[p.run],
           \A s \in RunId : IF q.run \in {s, 0} THEN s \notin damaged' /\ Fits(q, s) => Fits(p, s)' ELSE Local(q, s)
    PROVE  HistoryInv'
<1>1. server = "up" /\ ~wiped /\ t \in Threads /\ t # Boot /\ Boot \in Threads
  BY DEF HistoryInv, Booting, Wiped, Threads
<1>2. req \in [Threads -> Request] /\ \A u \in Threads : IsRequest(req[u])
  BY DEF HistoryInv, HistoryTyped
<1>3. p \in Request /\ req'[t] = p /\ \A u \in Threads \ {t} : req'[u] = req[u]
  BY <1>1, <1>2 DEF IsRequest
<1>4. HistoryTyped'
  BY <1>2, <1>3 DEF HistoryTyped
<1>5. Booting' /\ Wiped'
  BY <1>1, <1>3 DEF HistoryInv, Booting, Wiped
<1>6. WritesAreNamed'
  <2>1. SUFFICES ASSUME NEW u \in Thread, req'[u].pc = "rewrite"
                 PROVE  req'[u].file <= named'[req'[u].run]
    BY DEF WritesAreNamed
  <2>2. PICK w : w = req'[u]
    OBVIOUS
  <2>3. IsRequest(w) /\ w.pc = "rewrite" /\ w.file <= named[w.run]
    <3>1. CASE u = t
      BY <1>3, <2>1, <2>2, <3>1
    <3>2. CASE u # t
      BY <1>2, <1>3, <2>1, <2>2, <3>2 DEF HistoryInv, WritesAreNamed, Threads
    <3> QED
      BY <3>1, <3>2
  <2>4. w.run \in RunId /\ w.file \in Nat
    BY <2>3 DEF IsRequest, ResetPlaces, FileNo
  <2>5. named[w.run] \in Nat /\ named'[w.run] \in Nat /\ named[w.run] <= named'[w.run]
    BY <2>4 DEF HistoryInv, HistoryTyped, DataTyped
  <2> QED
    BY <2>2, <2>3, <2>4, <2>5
<1>7. ASSUME NEW s \in RunId PROVE Fitting(s)'
  <2>1. SUFFICES ASSUME s \notin damaged'
                 PROVE  /\ \A a, b \in Thread : Works(a, s)' /\ Works(b, s)' => a = b
                        /\ (\A a \in Thread : ~Works(a, s)') => Mirror(db, s)' /\ Kept(s)'
                        /\ \A a \in Thread : Works(a, s)' => Fits(req[a], s)'
    BY DEF Fitting
  <2>2. /\ \A a, b \in Thread : Works(a, s) /\ Works(b, s) => a = b
        /\ (\A a \in Thread : ~Works(a, s)) => Mirror(db, s) /\ Kept(s)
        /\ \A a \in Thread : Works(a, s) => Fits(req[a], s)
    BY <1>1, <2>1 DEF HistoryInv, Fitting
  <2>3. \A a \in Thread \ {t} : req'[a] = req[a] /\ (Works(a, s)' <=> Works(a, s))
    BY <1>3 DEF Threads, Works
  <2>4. CASE q.run \in {s, 0}
    <3>1. Works(t, s) /\ Fits(q, s)
      BY <2>2, <2>4 DEF Works
    <3>2. Fits(p, s)'
      BY <2>1, <2>4, <3>1
    <3>3. \A a \in Thread \ {t} : ~Works(a, s)'
      BY <2>2, <2>3, <3>1
    <3>4. Works(t, s)' <=> p.pc # "idle"
      BY <1>3, <2>4 DEF Works
    <3>5. p.pc = "idle" => Mirror(db, s)' /\ Kept(s)'
      BY <3>2 DEF Fits, ImportPlaces
    <3> QED
      BY <1>3, <3>2, <3>3, <3>4, <3>5
  <2>5. CASE q.run \notin {s, 0}
    <3>1. ~Works(t, s) /\ ~Works(t, s)' /\ Local(q, s)
      BY <1>3, <2>5 DEF Works
    <3>2. Mirror(db, s) /\ Kept(s) => Mirror(db, s)' /\ Kept(s)'
      <4>1. HasRecord(s)' <=> HasRecord(s)
        BY <3>1 DEF HasRecord, Local
      <4> QED
        BY <3>1, <4>1 DEF Mirror, Kept, Local
    <3>3. ASSUME NEW a \in Thread, Works(a, s)' PROVE Fits(req[a], s)'
      <4>1. PICK w : w = req[a]
        OBVIOUS
      <4>2. a # t /\ Works(a, s) /\ req'[a] = w /\ IsRequest(w) /\ w.run \in {s, 0} /\ Fits(w, s)
        BY <1>2, <2>2, <2>3, <3>1, <3>3, <4>1 DEF Works, Threads
      <4>3. Fits(w, s)'
        BY <3>1, <4>2, FitsStays DEF Local
      <4> QED
        BY <4>2, <4>3
    <3> QED
      BY <2>2, <2>3, <3>1, <3>2, <3>3
  <2> QED
    BY <2>4, <2>5
<1> QED
  BY <1>4, <1>5, <1>7, <1>6 DEF HistoryInv

-----------------------------------------------------------------------------
(* The requests, one action after the other.                               *)
LEMMA AtWork ==
    ASSUME HistoryInv, NEW t \in Thread, NEW q, q = req[t], q.pc # "idle"
    PROVE  /\ q \in Request /\ IsRequest(q) /\ DataTyped /\ NamesAreUsed /\ IsRegistry(db)
           /\ server = "up" /\ t \in Threads
           /\ q.pc \notin ResetPlaces => q.run \in RunId /\ q.run # 0
BY DEF HistoryInv, HistoryTyped, DataTyped, Booting, Threads, IsRequest, ResetPlaces

LEMMA GotoIs ==
    ASSUME HistoryInv, NEW t \in Thread, NEW q, q = req[t], q.pc # "idle",
           NEW place \in HistoryPlaces \ (ImportPlaces \cup {"idle", "rewrite"}),
           place \in ResetPlaces <=> q.pc \in ResetPlaces, Goto(t, place)
    PROVE  \E p : /\ IsRequest(p) /\ req' = [req EXCEPT ![t] = p] /\ p.pc = place
                  /\ p.run = q.run /\ p.file = q.file /\ p.data = q.data
<1>1. q \in Request /\ IsRequest(q)
  BY AtWork
<1>2. PICK p : p = [q EXCEPT !.pc = place]
  OBVIOUS
<1>3. p \in Request /\ p.pc = place /\ p.run = q.run /\ p.file = q.file /\ p.data = q.data
  BY <1>1, <1>2 DEF Request
<1>4. IsRequest(p)
  BY <1>1, <1>3 DEF IsRequest, ImportPlaces
<1>5. req' = [req EXCEPT ![t] = p]
  <2>1. req' = [req EXCEPT ![t].pc = place]
    BY DEF Goto
  <2>2. [req EXCEPT ![t].pc = place] = [req EXCEPT ![t] = [@ EXCEPT !.pc = place]]
    OBVIOUS
  <2> QED
    BY <1>2, <2>1, <2>2
<1> QED
  BY <1>3, <1>4, <1>5

SameRun == current' \in [run : RunId \cup {0}, docx : DocumentName, pdf : DocumentName] /\ current'.run = current.run

(* A step that changes no record, and of the registry only its own run.    *)
LEMMA RegistryStep ==
    ASSUME HistoryInv, NEW t \in Thread, NEW q, q = req[t], q.pc # "idle", q.pc \notin ResetPlaces,
           NEW p, IsRequest(p), req' = [req EXCEPT ![t] = p], p.pc = "idle" \/ p.run = q.run,
           UNCHANGED <<files, named, server, todo, now, deleted, wiped>>, SameRun,
           damaged \subseteq damaged', OnlyIn(q.run, db, db'), p.pc = "rewrite" => p.file <= named[p.run],
           q.run \notin damaged' /\ Fits(q, q.run) => Fits(p, q.run)'
    PROVE  HistoryInv'
<1>1. DataTyped /\ NamesAreUsed /\ q.run \in RunId /\ q.run # 0
  BY AtWork
<1>2. DataTyped'
  BY <1>1 DEF DataTyped, OnlyIn, SameRun
<1>3. NamesAreUsed'
  BY <1>1 DEF NamesAreUsed
<1>4. \A s \in RunId : named[s] <= named'[s]
  BY <1>1 DEF DataTyped
<1>5. \A s \in RunId : IF q.run \in {s, 0} THEN s \notin damaged' /\ Fits(q, s) => Fits(p, s)' ELSE Local(q, s)
  BY <1>1 DEF OnlyIn, Local
<1> QED
  BY <1>2, <1>3, <1>5, <1>4, ThreadStep DEF SameRun

LEMMA OnlyInItself == \A d, r : IsRegistry(d) => OnlyIn(r, d, d)
BY DEF OnlyIn

(* A relation is added that no record speaks of.                           *)
Plain(r, d, e) == OnlyIn(r, d, e) /\ Row(e, r) = Row(d, r) /\ Rels(e, r)["docx"] = Rels(d, r)["docx"]

LEMMA PlainInsert ==
    ASSUME NEW d, IsRegistry(d), NEW r \in RunId, NEW k \in Kind \ {"docx"}
    PROVE  Plain(r, d, Insert(d, r, k)) /\ IsRegistry(Insert(d, r, k))
BY InsertIs, Kinds DEF Plain, OnlyIn

LEMMA PlainThen == \A r, d, e, f : Plain(r, d, e) /\ Plain(r, e, f) => Plain(r, d, f)
BY DEF Plain, OnlyIn

LEMMA RegisterKeeps == ASSUME HistoryInv, NEW t \in Thread, Register(t) PROVE HistoryInv'
<1>1. PICK q, r : q = req[t] /\ r = q.run
  OBVIOUS
<1>2. q.pc = "register" /\ q.pc # "idle" /\ q.pc \notin ResetPlaces \cup ImportPlaces
  BY <1>1 DEF Register, ResetPlaces, ImportPlaces
<1>3. r \in RunId /\ IsRegistry(db)
  BY <1>1, <1>2, AtWork
<1>4. Goto(t, "attach") /\ "attach" \in HistoryPlaces \ (ImportPlaces \cup {"idle", "rewrite"}) /\ "attach" \notin ResetPlaces
  BY DEF Register, HistoryPlaces, PipelinePlaces, ImportPlaces, ResetPlaces
<1>5. PICK p : /\ IsRequest(p) /\ req' = [req EXCEPT ![t] = p] /\ p.pc = "attach" /\ p.run = r
  BY <1>1, <1>2, <1>4, GotoIs
<1>6. PICK b, e : b = CreateRun(db, r, RunningRow) /\ e = Insert(b, r, "agent")
  OBVIOUS
<1>7. db' = e /\ UNCHANGED <<files, named, server, todo, now, deleted, wiped>> /\ current' = current
  BY <1>1, <1>6 DEF Register, AddAgent, disk, process
<1>8. damaged \subseteq damaged' /\ (r \notin damaged' => ~Row(db, r).exists)
  BY <1>1 DEF Register, Has, GetRun, Row
<1>9. /\ OnlyIn(r, db, b) /\ Row(b, r).exists
      /\ ~Row(db, r).exists => Row(b, r) = RunningRow /\ Rels(b, r) = NoRelations
  BY <1>3, <1>6, RowsAre, CreateRunIs
<1>10. Plain(r, b, e)
  BY <1>3, <1>6, <1>9, Kinds, PlainInsert DEF OnlyIn
<1>11. OnlyIn(r, db, e) /\ Row(e, r).exists
  BY <1>9, <1>10 DEF OnlyIn, Plain
<1>12. r \notin damaged' => Row(e, r).file = 0 /\ Rels(e, r)["docx"] = 0
  BY <1>8, <1>9, <1>10, RowsAre DEF Plain
<1>13. r \notin damaged' => Fits(p, r)'
  BY <1>5, <1>7, <1>11, <1>12 DEF Fits, Mirror, Kept, ImportPlaces, DeletePlaces, ResetPlaces
<1>14. SameRun
  BY <1>7 DEF HistoryInv, HistoryTyped, DataTyped, SameRun
<1> QED
  BY <1>1, <1>2, <1>5, <1>7, <1>8, <1>11, <1>13, <1>14, RegistryStep

LEMMA AttachKeeps == ASSUME HistoryInv, NEW t \in Thread, Attach(t) \/ Generate(t) PROVE HistoryInv'
<1>1. PICK q, r : q = req[t] /\ r = q.run
  OBVIOUS
<1>2. PICK place \in {"generate", "finish"} : Goto(t, place)
  BY DEF Attach, Generate
<1>3. q.pc \in {"attach", "generate"} /\ q.pc # "idle" /\ q.pc \notin ResetPlaces \cup ImportPlaces
  BY <1>1 DEF Attach, Generate, ResetPlaces, ImportPlaces
<1>4. r \in RunId /\ IsRegistry(db)
  BY <1>1, <1>3, AtWork
<1>5. place \in HistoryPlaces \ (ImportPlaces \cup {"idle", "rewrite"}) /\ place \notin ResetPlaces
  BY DEF HistoryPlaces, PipelinePlaces, ImportPlaces, ResetPlaces
<1>6. PICK p : IsRequest(p) /\ req' = [req EXCEPT ![t] = p] /\ p.pc = place /\ p.run = r
  BY <1>1, <1>2, <1>3, <1>5, GotoIs
<1>7. Plain(r, db, db')
  <2>1. PICK a, b, c : a = Insert(db, r, "snapshot") /\ b = Insert(a, r, "source") /\ c = Insert(b, r, "attachment")
    OBVIOUS
  <2>2. Plain(r, db, a) /\ IsRegistry(a)
    BY <1>4, <2>1, Kinds, PlainInsert
  <2>3. Plain(r, a, b) /\ IsRegistry(b)
    BY <1>4, <2>1, <2>2, Kinds, PlainInsert
  <2>4. Plain(r, b, c)
    BY <1>4, <2>1, <2>3, Kinds, PlainInsert
  <2>5. CASE Attach(t)
    <3>1. db' = a \/ db' = c
      BY <1>1, <2>1, <2>5 DEF Attach, AddRuntimeSnapshot, AddArtifact, AddSource
    <3> QED
      BY <2>2, <2>3, <2>4, <3>1, PlainThen
  <2>6. CASE Generate(t)
    <3>1. PICK f, g : f = Insert(db, r, "section") /\ g = Insert(f, r, "evaluation")
      OBVIOUS
    <3>2. Plain(r, db, f) /\ IsRegistry(f)
      BY <1>4, <3>1, Kinds, PlainInsert
    <3>3. Plain(r, f, g)
      BY <1>4, <3>1, <3>2, Kinds, PlainInsert
    <3>4. db' = g
      BY <1>1, <3>1, <2>6 DEF Generate, AddSection, AddEvaluation
    <3> QED
      BY <3>2, <3>3, <3>4, PlainThen
  <2> QED
    BY <2>5, <2>6
<1>8. UNCHANGED <<files, named, server, todo, now, deleted, wiped>> /\ current' = current /\ damaged \subseteq damaged'
  BY DEF Attach, Generate, disk, process, notes
<1>9. Fits(q, r) => Fits(p, r)'
  BY <1>3, <1>6, <1>7, <1>8 DEF Plain, Fits, Mirror, Kept, HasRecord, ImportPlaces, DeletePlaces, ResetPlaces
<1>10. SameRun
  BY <1>8 DEF HistoryInv, HistoryTyped, DataTyped, SameRun
<1> QED
  BY <1>1, <1>3, <1>6, <1>7, <1>8, <1>9, <1>10, RegistryStep DEF Plain

LEMMA FinishKeeps ==
    ASSUME HistoryInv, NEW t \in Thread, NEW some \in {"succeeded", "failed"}, Finish(t, some)
    PROVE  HistoryInv'
<1>1. PICK q, r : q = req[t] /\ r = q.run
  OBVIOUS
<1>2. PICK place \in {"complete", "fail"} : Goto(t, place)
  BY DEF Finish
<1>3. q.pc \in {"attach", "generate", "finish"} /\ q.pc # "idle" /\ q.pc \notin ResetPlaces \cup ImportPlaces
  BY <1>1 DEF Finish, ResetPlaces, ImportPlaces
<1>4. r \in RunId /\ IsRegistry(db)
  BY <1>1, <1>3, AtWork
<1>5. place \in HistoryPlaces \ (ImportPlaces \cup {"idle", "rewrite"}) /\ place \notin ResetPlaces
  BY DEF HistoryPlaces, PipelinePlaces, ImportPlaces, ResetPlaces
<1>6. PICK p : IsRequest(p) /\ req' = [req EXCEPT ![t] = p] /\ p.pc = place /\ p.run = r
  BY <1>1, <1>2, <1>3, <1>5, GotoIs
<1>7. db' = UpdateRunStatus(db, r, some) /\ some \in RowStatus
  BY <1>1 DEF Finish, RowStatus
<1>8. /\ OnlyIn(r, db, db') /\ Row(db', r).exists = Row(db, r).exists /\ Row(db', r).file = Row(db, r).file
      /\ Row(db', r).archived = Row(db, r).archived /\ Rels(db', r) = Rels(db, r)
  BY <1>4, <1>7, UpdateRunStatusIs
<1>9. UNCHANGED <<files, named, server, todo, now, deleted, wiped>> /\ current' = current /\ damaged \subseteq damaged'
  BY DEF Finish, disk, process, notes
<1>10. Fits(q, r) => Fits(p, r)'
  BY <1>3, <1>6, <1>8, <1>9 DEF Fits, Mirror, Kept, HasRecord, ImportPlaces, DeletePlaces, ResetPlaces
<1>11. SameRun
  BY <1>9 DEF HistoryInv, HistoryTyped, DataTyped, SameRun
<1>12. OnlyIn(r, db, db')
  BY <1>8
<1> QED
  BY <1>1, <1>3, <1>6, <1>9, <1>10, <1>11, <1>12, RegistryStep

LEMMA AnnounceKeeps == ASSUME HistoryInv, NEW t \in Thread, Announce(t) PROVE HistoryInv'
<1>1. PICK q, r : q = req[t] /\ r = q.run
  OBVIOUS
<1>2. PICK place \in {"save", "discard"} : Goto(t, place) /\ place = IF q.pc = "complete" THEN "save" ELSE "discard"
  BY <1>1 DEF Announce
<1>3. q.pc \in {"complete", "fail"} /\ q.pc # "idle" /\ q.pc \notin ResetPlaces \cup ImportPlaces
  BY <1>1 DEF Announce, ResetPlaces, ImportPlaces
<1>4. r \in RunId /\ IsRegistry(db)
  BY <1>1, <1>3, AtWork
<1>5. place \in HistoryPlaces \ (ImportPlaces \cup {"idle", "rewrite"}) /\ place \notin ResetPlaces
  BY DEF HistoryPlaces, PipelinePlaces, ImportPlaces, ResetPlaces
<1>6. PICK p : IsRequest(p) /\ req' = [req EXCEPT ![t] = p] /\ p.pc = place /\ p.run = r
  BY <1>1, <1>2, <1>3, <1>5, GotoIs
<1>7. UNCHANGED <<files, named, server, todo, now, deleted, wiped>> /\ current' = current /\ damaged \subseteq damaged' /\ db' = db
  BY DEF Announce, disk, notes
<1>8. Fits(q, r) => Fits(p, r)'
  BY <1>2, <1>3, <1>6, <1>7 DEF Fits, Mirror, Kept, HasRecord, ImportPlaces, DeletePlaces, ResetPlaces
<1>9. SameRun
  BY <1>7 DEF HistoryInv, HistoryTyped, DataTyped, SameRun
<1>10. OnlyIn(r, db, db')
  BY <1>4, <1>7, OnlyInItself
<1> QED
  BY <1>1, <1>3, <1>6, <1>7, <1>8, <1>9, <1>10, RegistryStep

(* The files: one of them is written or removed, and the others are not.   *)
OneFile(r, n, f) ==
    /\ files' \in [RunId -> [FileNo -> MetadataFile]] /\ files'[r][n] = f
    /\ \A m \in FileNo \ {n} : files'[r][m] = files[r][m]
    /\ \A s \in RunId \ {r} : files'[s] = files[s]

LEMMA OneFileIs ==
    ASSUME DataTyped, NEW r \in RunId, NEW n \in FileNo, NEW f \in MetadataFile,
           files' = [files EXCEPT ![r][n] = f]
    PROVE  OneFile(r, n, f)
<1>1. files \in [RunId -> [FileNo -> MetadataFile]] /\ files[r] \in [FileNo -> MetadataFile]
  BY DEF DataTyped
<1>2. PICK g : g = [files[r] EXCEPT ![n] = f]
  OBVIOUS
<1>3. g \in [FileNo -> MetadataFile] /\ g[n] = f /\ \A m \in FileNo \ {n} : g[m] = files[r][m]
  BY <1>1, <1>2
<1>4. files' = [files EXCEPT ![r] = g]
  <2>1. [files EXCEPT ![r][n] = f] = [files EXCEPT ![r] = [@ EXCEPT ![n] = f]]
    OBVIOUS
  <2> QED
    BY <1>2, <2>1
<1> QED
  BY <1>1, <1>3, <1>4 DEF OneFile

LEMMA CreateFileIs ==
    ASSUME DataTyped, NamesAreUsed, NEW r \in RunId, NEW data \in Content, NEW n, n = named[r] + 1,
           CreateFile(r, data)
    PROVE  /\ n \in FileNo /\ ~files[r][n].exists /\ OneFile(r, n, File(data))
           /\ named' \in [RunId -> Nat] /\ NamesAreUsed' /\ \A s \in RunId : named[s] <= named'[s]
<1>1. named \in [RunId -> Nat] /\ named[r] \in Nat /\ named[r] < MaxFiles
  BY DEF DataTyped, CreateFile
<1>2. n \in FileNo /\ ~files[r][n].exists
  <2>1. n \in FileNo /\ ~(n <= named[r])
    BY <1>1 DEF FileNo
  <2> QED
    BY <2>1 DEF NamesAreUsed
<1>3. File(data) \in MetadataFile
  BY DEF File, MetadataFile
<1>4. files' = [files EXCEPT ![r][n] = File(data)]
  BY DEF CreateFile, WriteFile
<1>5. OneFile(r, n, File(data))
  BY <1>2, <1>3, <1>4, OneFileIs
<1>6. named' = [named EXCEPT ![r] = n]
  BY DEF CreateFile
<1>7. named' \in [RunId -> Nat] /\ named'[r] = n /\ \A s \in RunId \ {r} : named'[s] = named[s]
  BY <1>1, <1>6
<1>8. \A s \in RunId : named[s] <= named'[s]
  BY <1>1, <1>7
<1>9. ASSUME NEW s \in RunId, NEW m \in FileNo, files'[s][m].exists PROVE m <= named'[s]
  <2>1. CASE s # r
    BY <1>5, <1>7, <1>9, <2>1 DEF OneFile, NamesAreUsed
  <2>2. CASE s = r /\ m = n
    BY <1>1, <1>7, <2>2
  <2>3. CASE s = r /\ m # n
    <3>1. m <= named[r] /\ m \in Nat
      BY <1>5, <1>9, <2>3 DEF OneFile, NamesAreUsed, FileNo
    <3> QED
      BY <1>1, <1>7, <2>3, <3>1
  <2> QED
    BY <2>1, <2>2, <2>3
<1> QED
  BY <1>2, <1>5, <1>7, <1>9, <1>8 DEF NamesAreUsed

(* A step of a request that changes a file of its run, and nothing of the  *)
(* registry.                                                               *)
LEMMA FileStep ==
    ASSUME HistoryInv, NEW t \in Thread, NEW q, q = req[t], q.pc # "idle", q.pc \notin ResetPlaces,
           NEW p, IsRequest(p), req' = [req EXCEPT ![t] = p], p.pc = "idle" \/ p.run = q.run,
           NEW n, NEW f, OneFile(q.run, n, f), named' \in [RunId -> Nat], NamesAreUsed',
           \A s \in RunId : named[s] <= named'[s], p.pc # "rewrite",
           UNCHANGED <<db, process, notes>>,
           Fits(q, q.run) => Fits(p, q.run)'
    PROVE  HistoryInv'
<1>1. DataTyped /\ q.run \in RunId /\ q.run # 0
  BY AtWork
<1>2. /\ db' = db /\ server' = server /\ todo' = todo /\ current' = current /\ now' = now
      /\ damaged' = damaged /\ deleted' = deleted /\ wiped' = wiped
  BY DEF process, notes
<1>3. DataTyped'
  BY <1>1, <1>2 DEF DataTyped, OneFile
<1>4. \A s \in RunId : IF q.run \in {s, 0} THEN s \notin damaged' /\ Fits(q, s) => Fits(p, s)' ELSE Local(q, s)
  BY <1>1, <1>2 DEF OneFile, Local
<1> QED
  BY <1>2, <1>3, <1>4, ThreadStep

LEMMA SaveRecordKeeps == ASSUME HistoryInv, NEW t \in Thread, SaveRecord(t) PROVE HistoryInv'
<1>1. PICK q, r, n : q = req[t] /\ r = q.run /\ n = named[r] + 1
  OBVIOUS
<1>2. q.pc = "save" /\ q.pc # "idle" /\ q.pc \notin ResetPlaces \cup ImportPlaces
  BY <1>1 DEF SaveRecord, ResetPlaces, ImportPlaces
<1>3. r \in RunId /\ DataTyped /\ NamesAreUsed
  BY <1>1, <1>2, AtWork
<1>4. PICK data \in Content : CreateFile(r, data)
  <2>1. [NoContent EXCEPT !.main = TRUE] \in Content
    BY IdleIs DEF Content
  <2> QED
    BY <1>1, <2>1 DEF SaveRecord
<1>5. /\ n \in FileNo /\ OneFile(r, n, File(data)) /\ named' \in [RunId -> Nat] /\ NamesAreUsed'
      /\ \A s \in RunId : named[s] <= named'[s]
  BY <1>1, <1>3, <1>4, CreateFileIs
<1>6. PICK p : p = Importing(r, n, "tidy")
  OBVIOUS
<1>7. IsRequest(p) /\ p.pc = "open" /\ p.run = r /\ p.file = n
  BY <1>3, <1>5, <1>6, ImportingIs
<1>8. req' = [req EXCEPT ![t] = p] /\ UNCHANGED <<db, process, notes>>
  BY <1>1, <1>6 DEF SaveRecord
<1>9. files'[r][n].exists
  BY <1>5 DEF OneFile, File
<1>10. Fits(q, r) => Fits(p, r)'
  BY <1>7, <1>9 DEF Fits, Importable, ImportPlaces
<1> QED
  <2>1. PICK f : f = File(data)
    OBVIOUS
  <2>2. /\ q = req[t] /\ q.pc # "idle" /\ q.pc \notin ResetPlaces /\ p.pc # "rewrite" /\ p.run = q.run
        /\ OneFile(q.run, n, f) /\ (Fits(q, q.run) => Fits(p, q.run)')
    BY <1>1, <1>2, <1>5, <1>7, <1>10, <2>1
  <2> QED
    BY <1>5, <1>7, <1>8, <2>2, FileStep

LEMMA CleanUpKeeps == ASSUME HistoryInv, NEW t \in Thread, CleanUpDirectory(t) PROVE HistoryInv'
<1>1. PICK q, r : q = req[t] /\ r = q.run
  OBVIOUS
<1>2. q.pc \in {"tidy", "discard"} /\ q.pc # "idle" /\ q.pc \notin ResetPlaces \cup ImportPlaces
  BY <1>1 DEF CleanUpDirectory, ResetPlaces, ImportPlaces
<1>3. r \in RunId /\ IsRegistry(db)
  BY <1>1, <1>2, AtWork
<1>4. PICK p : p = Idle
  OBVIOUS
<1>5. IsRequest(p) /\ req' = [req EXCEPT ![t] = p] /\ p.pc = "idle"
  BY <1>4, IdleIs DEF CleanUpDirectory, Done
<1>6. /\ UNCHANGED <<files, named, server, todo, now, deleted, wiped>> /\ current' = current
      /\ damaged \subseteq damaged' /\ db' = db
  BY DEF CleanUpDirectory, process, notes
<1>7. Fits(q, r) => Fits(p, r)'
  BY <1>2, <1>5, <1>6 DEF Fits, Mirror, Kept, HasRecord, ImportPlaces, DeletePlaces, ResetPlaces
<1>8. SameRun
  BY <1>6 DEF HistoryInv, HistoryTyped, DataTyped, SameRun
<1>9. OnlyIn(r, db, db')
  BY <1>3, <1>6, OnlyInItself
<1> QED
  BY <1>1, <1>2, <1>5, <1>6, <1>7, <1>8, <1>9, RegistryStep

LEMMA RenderExportKeeps == ASSUME HistoryInv, NEW t \in Thread, RenderExport(t) PROVE HistoryInv'
<1>1. PICK q, r : q = req[t] /\ r = q.run
  OBVIOUS
<1>2. q.pc = "render" /\ q.pc # "idle" /\ q.pc \notin ResetPlaces \cup ImportPlaces
  BY <1>1 DEF RenderExport, ResetPlaces, ImportPlaces
<1>3. r \in RunId /\ IsRegistry(db)
  BY <1>1, <1>2, AtWork
<1>4. Goto(t, "describe") /\ "describe" \in HistoryPlaces \ (ImportPlaces \cup {"idle", "rewrite"}) /\ "describe" \notin ResetPlaces
  BY DEF RenderExport, HistoryPlaces, ExportPlaces, ImportPlaces, ResetPlaces
<1>5. PICK p : IsRequest(p) /\ req' = [req EXCEPT ![t] = p] /\ p.pc = "describe" /\ p.run = r
  BY <1>1, <1>2, <1>4, GotoIs
<1>6. /\ UNCHANGED <<files, named, server, todo, now, deleted, wiped>>
      /\ damaged \subseteq damaged' /\ db' = db
  BY DEF RenderExport, notes
<1>7. SameRun
  <2>1. current \in [run : RunId \cup {0}, docx : DocumentName, pdf : DocumentName]
    BY DEF HistoryInv, HistoryTyped, DataTyped
  <2>2. PICK named_here : named_here = [dir |-> q.run, topic |-> q.topic]
    OBVIOUS
  <2>3. named_here \in DocumentName
    <3>1. q \in Request
      BY <1>1, <1>2, AtWork
    <3>2. q.run \in RunId \cup {0} /\ q.topic \in RunId \cup {0}
      BY <3>1 DEF Request
    <3> QED
      BY <2>2, <3>2 DEF DocumentName
  <2>4. current' = current \/ current' = [current EXCEPT ![q.kind] = named_here]
    BY <1>1, <2>2 DEF RenderExport
  <2>5. q.kind \in {"none", "docx", "pdf"}
    BY <1>1, <1>2, AtWork DEF Request
  <2> QED
    BY <2>1, <2>3, <2>4, <2>5 DEF SameRun
<1>8. Fits(q, r) => Fits(p, r)'
  BY <1>2, <1>5, <1>6, <1>7 DEF SameRun, Fits, Mirror, Kept, HasRecord, ImportPlaces, DeletePlaces, ResetPlaces
<1>9. OnlyIn(r, db, db')
  BY <1>3, <1>6, OnlyInItself
<1> QED
  BY <1>1, <1>2, <1>5, <1>6, <1>7, <1>8, <1>9, RegistryStep

LEMMA DescribeExportKeeps == ASSUME HistoryInv, NEW t \in Thread, DescribeExport(t) PROVE HistoryInv'
<1>1. PICK q, r, n : q = req[t] /\ r = q.run /\ n = named[r] + 1
  OBVIOUS
<1>2. q.pc = "describe" /\ q.pc # "idle" /\ q.pc \notin ResetPlaces \cup ImportPlaces
  BY <1>1 DEF DescribeExport, ResetPlaces, ImportPlaces
<1>3. r \in RunId /\ DataTyped /\ NamesAreUsed /\ q \in Request
  BY <1>1, <1>2, AtWork
<1>4. PICK data \in Content : CreateFile(r, data)
  <2>1. PICK a, b : /\ a = NamedDocument(q, "docx") /\ b = NamedDocument(q, "pdf")
                    /\ a \in DocumentName /\ b \in DocumentName
    <3>1. q.run \in RunId \cup {0} /\ q.topic \in RunId \cup {0}
      BY <1>3 DEF Request
    <3>2. current.docx \in DocumentName /\ current.pdf \in DocumentName
      BY <1>3 DEF DataTyped
    <3>3. [dir |-> q.run, topic |-> q.topic] \in DocumentName
      BY <3>1 DEF DocumentName
    <3> QED
      BY <3>2, <3>3 DEF NamedDocument
  <2>2. [NoContent EXCEPT !.docx = a, !.pdf = b] \in Content
    BY <2>1, IdleIs DEF Content
  <2>3. CreateFile(r, [NoContent EXCEPT !.docx = a, !.pdf = b])
    BY <1>1, <2>1 DEF DescribeExport
  <2> QED
    BY <2>2, <2>3
<1>5. /\ n \in FileNo /\ ~files[r][n].exists /\ OneFile(r, n, File(data))
      /\ named' \in [RunId -> Nat] /\ NamesAreUsed' /\ \A s \in RunId : named[s] <= named'[s]
  BY <1>1, <1>3, <1>4, CreateFileIs
<1>6. PICK p : /\ IsRequest(p) /\ req' = [req EXCEPT ![t] = p]
               /\ p.pc = "idle" \/ (p.pc = "link" /\ p.run = r)
  <2>1. CASE Exists(r, Latest(r))
    <3>1. PICK m \in FileNo : m = Latest(r)
      BY <2>1 DEF Exists
    <3>2. m \in 0..MaxFiles /\ "link" \in HistoryPlaces
      BY DEF FileNo, HistoryPlaces, ExportPlaces
    <3>3. PICK p : p = [Idle EXCEPT !.pc = "link", !.run = r, !.file = m]
      OBVIOUS
    <3>4. p \in Request /\ p.pc = "link" /\ p.run = r
      BY <1>3, <3>2, <3>3, IdleIs DEF Request
    <3>5. IsRequest(p)
      BY <1>3, <3>4 DEF IsRequest, ImportPlaces, ResetPlaces
    <3>6. req' = [req EXCEPT ![t] = p]
      BY <1>1, <2>1, <3>1, <3>3 DEF DescribeExport
    <3> QED
      BY <3>4, <3>5, <3>6
  <2>2. CASE ~Exists(r, Latest(r))
    <3>1. req' = [req EXCEPT ![t] = Idle]
      BY <1>1, <2>2 DEF DescribeExport
    <3> QED
      BY <3>1, IdleIs
  <2> QED
    BY <2>1, <2>2
<1>7. UNCHANGED <<db, process, notes>> /\ db' = db /\ deleted' = deleted /\ current' = current
  BY DEF DescribeExport, process, notes
<1>8. Mirror(db, r) => Mirror(db, r)'
  BY <1>5, <1>7 DEF OneFile, Mirror
<1>9. Fits(q, r) => Fits(p, r)'
  BY <1>2, <1>6, <1>7, <1>8 DEF Fits, Kept, ImportPlaces, DeletePlaces, ResetPlaces
<1> QED
  BY <1>1, <1>2, <1>5, <1>6, <1>7, <1>9, FileStep

LEMMA ReadLinkedKeeps == ASSUME HistoryInv, NEW t \in Thread, ReadLinked(t) PROVE HistoryInv'
<1>1. PICK q, r : q = req[t] /\ r = q.run
  OBVIOUS
<1>2. q.pc = "link" /\ q.pc # "idle" /\ q.pc \notin ResetPlaces \cup ImportPlaces
  BY <1>1 DEF ReadLinked, ResetPlaces, ImportPlaces
<1>3. r \in RunId /\ IsRegistry(db) /\ q \in Request /\ DataTyped /\ NamesAreUsed
  BY <1>1, <1>2, AtWork
<1>4. PICK p : /\ IsRequest(p) /\ req' = [req EXCEPT ![t] = p]
               /\ p.pc = "idle" \/ (p.pc = "rewrite" /\ p.run = r /\ p.file <= named[r])
  <2>1. CASE Exists(r, q.file)
    <3>1. PICK data : data = files[r][q.file].data
      OBVIOUS
    <3>2. q.file \in FileNo /\ data \in Content
      <4>1. q.file \in FileNo /\ files \in [RunId -> [FileNo -> MetadataFile]]
        BY <1>3, <2>1 DEF Exists, DataTyped
      <4>2. files[r][q.file] \in MetadataFile
        BY <1>3, <4>1
      <4> QED
        BY <3>1, <4>1, <4>2 DEF MetadataFile
    <3>3. PICK p : p = [q EXCEPT !.pc = "rewrite", !.data = data]
      OBVIOUS
    <3>4. p \in Request /\ p.pc = "rewrite" /\ p.run = r /\ p.file = q.file
      BY <1>1, <1>3, <3>2, <3>3 DEF Request, HistoryPlaces, ExportPlaces
    <3>5. IsRequest(p)
      BY <1>3, <3>2, <3>4 DEF IsRequest, ImportPlaces, ResetPlaces
    <3>6. req' = [req EXCEPT ![t] = p]
      BY <1>1, <2>1, <3>1, <3>3 DEF ReadLinked
    <3>7. q.file <= named[r]
      BY <1>3, <2>1 DEF Exists, NamesAreUsed
    <3> QED
      BY <3>4, <3>5, <3>6, <3>7
  <2>2. CASE ~Exists(r, q.file)
    <3>1. req' = [req EXCEPT ![t] = Idle]
      BY <1>1, <2>2 DEF ReadLinked
    <3> QED
      BY <3>1, IdleIs
  <2> QED
    BY <2>1, <2>2
<1>5. /\ UNCHANGED <<files, named, server, todo, now, deleted, wiped>> /\ current' = current
      /\ damaged \subseteq damaged' /\ db' = db
  BY DEF ReadLinked, disk, process, notes
<1>6. Fits(q, r) => Fits(p, r)'
  BY <1>2, <1>4, <1>5 DEF Fits, Mirror, Kept, HasRecord, ImportPlaces, DeletePlaces, ResetPlaces
<1>7. SameRun
  BY <1>5 DEF HistoryInv, HistoryTyped, DataTyped, SameRun
<1>8. OnlyIn(r, db, db')
  BY <1>3, <1>5, OnlyInItself
<1> QED
  BY <1>1, <1>2, <1>4, <1>5, <1>6, <1>7, <1>8, RegistryStep

LEMMA RewriteKeeps == ASSUME HistoryInv, NEW t \in Thread, Rewrite(t) PROVE HistoryInv'
<1>1. PICK q, r, n : q = req[t] /\ r = q.run /\ n = q.file
  OBVIOUS
<1>2. q.pc = "rewrite" /\ q.pc # "idle" /\ q.pc \notin ResetPlaces \cup ImportPlaces
  BY <1>1 DEF Rewrite, ResetPlaces, ImportPlaces
<1>3. r \in RunId /\ DataTyped /\ NamesAreUsed /\ q \in Request /\ n \in FileNo /\ q.data \in Content
  BY <1>1, <1>2, AtWork DEF IsRequest, Request
<1>4. OneFile(r, n, File(q.data))
  <2>1. File(q.data) \in MetadataFile
    BY <1>3 DEF File, MetadataFile
  <2>2. files' = [files EXCEPT ![r][n] = File(q.data)]
    BY <1>1 DEF Rewrite, WriteFile
  <2> QED
    BY <1>3, <2>1, <2>2, OneFileIs
<1>5. named' = named /\ named' \in [RunId -> Nat] /\ \A s \in RunId : named[s] <= named'[s]
  BY <1>3 DEF Rewrite, DataTyped
<1>6. NamesAreUsed'
  <2>1. n <= named[r]
    BY <1>1, <1>2 DEF HistoryInv, WritesAreNamed
  <2> QED
    BY <1>3, <1>4, <1>5, <2>1 DEF NamesAreUsed, OneFile
<1>7. PICK p : p = Importing(r, n, "idle")
  OBVIOUS
<1>8. IsRequest(p) /\ p.pc = "open" /\ p.run = r /\ p.file = n
  BY <1>3, <1>7, ImportingIs
<1>9. req' = [req EXCEPT ![t] = p] /\ UNCHANGED <<db, process, notes>>
  BY <1>1, <1>7 DEF Rewrite
<1>10. files'[r][n].exists
  BY <1>4 DEF OneFile, File
<1>11. Fits(q, r) => Fits(p, r)'
  BY <1>8, <1>10 DEF Fits, Importable, ImportPlaces
<1> QED
  <2>1. PICK f : f = File(q.data)
    OBVIOUS
  <2>2. /\ q = req[t] /\ q.pc # "idle" /\ q.pc \notin ResetPlaces /\ p.pc # "rewrite" /\ p.run = q.run
        /\ OneFile(q.run, n, f) /\ (Fits(q, q.run) => Fits(p, q.run)')
    BY <1>1, <1>2, <1>4, <1>8, <1>11, <2>1
  <2> QED
    BY <1>5, <1>6, <1>8, <1>9, <2>2, FileStep

(* Deleting.                                                               *)
LEMMA DeleteAssetsKeeps == ASSUME HistoryInv, NEW t \in Thread, DeleteAssets(t) \/ DeleteDir(t) PROVE HistoryInv'
<1>1. PICK q, r : q = req[t] /\ r = q.run
  OBVIOUS
<1>2. PICK place \in {"delete_row", "delete_file"} :
         Goto(t, place) /\ (place = "delete_row" \/ q.pc = "delete_dir")
  BY <1>1 DEF DeleteAssets, DeleteDir
<1>3. q.pc \in {"delete_assets", "delete_dir"} /\ q.pc # "idle" /\ q.pc \notin ResetPlaces \cup ImportPlaces
  BY <1>1 DEF DeleteAssets, DeleteDir, ResetPlaces, ImportPlaces
<1>4. r \in RunId /\ IsRegistry(db)
  BY <1>1, <1>3, AtWork
<1>5. place \in HistoryPlaces \ (ImportPlaces \cup {"idle", "rewrite"}) /\ place \notin ResetPlaces
  BY DEF HistoryPlaces, DeletePlaces, ImportPlaces, ResetPlaces
<1>6. PICK p : IsRequest(p) /\ req' = [req EXCEPT ![t] = p] /\ p.pc = place /\ p.run = r
  BY <1>1, <1>2, <1>3, <1>5, GotoIs
<1>7. /\ UNCHANGED <<files, named, server, todo, now, deleted, wiped>> /\ current' = current
      /\ damaged \subseteq damaged' /\ db' = db
  BY DEF DeleteAssets, DeleteDir, process, notes
<1>8. Fits(q, r) => Fits(p, r)'
  BY <1>2, <1>3, <1>6, <1>7 DEF Fits, Mirror, Kept, HasRecord, ImportPlaces, DeletePlaces, ResetPlaces
<1>9. SameRun
  BY <1>7 DEF HistoryInv, HistoryTyped, DataTyped, SameRun
<1>10. OnlyIn(r, db, db')
  BY <1>4, <1>7, OnlyInItself
<1> QED
  BY <1>1, <1>3, <1>6, <1>7, <1>8, <1>9, <1>10, RegistryStep

LEMMA DeleteRowKeeps == ASSUME HistoryInv, NEW t \in Thread, DeleteRow(t) PROVE HistoryInv'
<1>1. PICK q, r : q = req[t] /\ r = q.run
  OBVIOUS
<1>2. PICK place \in {"delete_dir", "delete_file"} : Goto(t, place)
  BY DEF DeleteRow
<1>3. q.pc = "delete_row" /\ q.pc # "idle" /\ q.pc \notin ResetPlaces \cup ImportPlaces
  BY <1>1 DEF DeleteRow, ResetPlaces, ImportPlaces
<1>4. r \in RunId /\ IsRegistry(db)
  BY <1>1, <1>3, AtWork
<1>5. place \in HistoryPlaces \ (ImportPlaces \cup {"idle", "rewrite"}) /\ place \notin ResetPlaces
  BY DEF HistoryPlaces, DeletePlaces, ImportPlaces, ResetPlaces
<1>6. PICK p : IsRequest(p) /\ req' = [req EXCEPT ![t] = p] /\ p.pc = place /\ p.run = r
  BY <1>1, <1>2, <1>3, <1>5, GotoIs
<1>7. /\ UNCHANGED <<files, named, server, todo, now, deleted, wiped>> /\ current' = current
      /\ damaged \subseteq damaged'
  BY DEF DeleteRow, disk, process, notes
<1>8. OnlyIn(r, db, db') /\ Row(db', r) = NoRow /\ Rels(db', r) = NoRelations
  BY <1>1, <1>4, DeleteRunIs DEF DeleteRow
<1>9. ~Row(db', r).exists /\ Row(db', r).file = 0 /\ Rels(db', r)["docx"] = 0
  BY <1>8, RowsAre
<1>10. Fits(q, r) => Fits(p, r)'
  BY <1>3, <1>6, <1>7, <1>9 DEF Fits, Mirror, Kept, ImportPlaces, DeletePlaces, ResetPlaces
<1>11. SameRun
  BY <1>7 DEF HistoryInv, HistoryTyped, DataTyped, SameRun
<1>12. OnlyIn(r, db, db')
  BY <1>8
<1> QED
  BY <1>1, <1>3, <1>6, <1>7, <1>10, <1>11, <1>12, RegistryStep

LEMMA DeleteFileKeeps == ASSUME HistoryInv, NEW t \in Thread, DeleteFile(t) PROVE HistoryInv'
<1>1. PICK q, r, n : q = req[t] /\ r = q.run /\ n = q.file
  OBVIOUS
<1>2. q.pc = "delete_file" /\ q.pc # "idle" /\ q.pc \notin ResetPlaces \cup ImportPlaces
  BY <1>1 DEF DeleteFile, ResetPlaces, ImportPlaces
<1>3. r \in RunId /\ DataTyped /\ NamesAreUsed /\ IsRegistry(db)
  BY <1>1, <1>2, AtWork
<1>4. PICK p : p = Idle
  OBVIOUS
<1>5. IsRequest(p) /\ req' = [req EXCEPT ![t] = p] /\ p.pc = "idle" /\ p.pc # "rewrite"
  BY <1>4, IdleIs DEF DeleteFile, Done
<1>6. /\ UNCHANGED <<db, process, notes>> /\ db' = db /\ deleted' = deleted /\ current' = current
      /\ named' = named /\ named' \in [RunId -> Nat] /\ \A s \in RunId : named[s] <= named'[s]
  BY <1>3 DEF DeleteFile, process, notes, DataTyped
<1>7. CASE Exists(r, n)
  <2>1. n \in FileNo /\ NoFile \in MetadataFile /\ ~NoFile.exists
    BY <1>7, IdleIs DEF Exists, NoFile, MetadataFile
  <2>2. files' = [files EXCEPT ![r][n] = NoFile]
    BY <1>1, <1>7 DEF DeleteFile, RemoveFile
  <2>3. PICK f : f = NoFile
    OBVIOUS
  <2>4. OneFile(r, n, f) /\ ~f.exists
    BY <1>3, <2>1, <2>2, <2>3, OneFileIs
  <2>5. NamesAreUsed'
    BY <1>3, <1>6, <2>4 DEF NamesAreUsed, OneFile
  <2>6. Fits(q, r) => Fits(p, r)'
    <3>1. ASSUME Fits(q, r) PROVE r \in deleted /\ ~Row(db, r).exists /\ Mirror(db, r)
      BY <1>2, <3>1 DEF Fits, DeletePlaces, ImportPlaces
    <3>2. ~Row(db, r).exists => Row(db, r).file = 0
      BY <1>3, RowsAre DEF IsRegistry
    <3>3. ASSUME Fits(q, r) PROVE r \in deleted' /\ Mirror(db, r)'
      BY <1>6, <3>1, <3>2, <3>3 DEF Mirror
    <3>4. ASSUME Fits(q, r) PROVE Fits(p, r)'
      BY <1>5, <3>3, <3>4 DEF Fits, Kept, ImportPlaces, DeletePlaces, ResetPlaces
    <3> QED
      BY <3>4
  <2> QED
    BY <1>1, <1>2, <1>5, <1>6, <2>4, <2>5, <2>6, FileStep
<1>8. CASE ~Exists(r, n)
  <2>1. files' = files
    BY <1>1, <1>8 DEF DeleteFile
  <2>2. /\ UNCHANGED <<files, named, server, todo, now, deleted, wiped>> /\ current' = current
        /\ damaged \subseteq damaged'
    BY <1>6, <2>1 DEF process, notes
  <2>3. Fits(q, r) => Fits(p, r)'
    BY <1>2, <1>5, <1>6, <2>1 DEF Fits, Mirror, Kept, HasRecord, ImportPlaces, DeletePlaces, ResetPlaces
  <2>4. SameRun
    BY <1>6 DEF HistoryInv, HistoryTyped, DataTyped, SameRun
  <2>5. OnlyIn(r, db, db')
    BY <1>3, <1>6, OnlyInItself
  <2> QED
    BY <1>1, <1>2, <1>5, <2>2, <2>3, <2>4, <2>5, RegistryStep
<1> QED
  BY <1>7, <1>8

(* Resetting.                                                              *)
LEMMA ResetTablesKeeps == ASSUME HistoryInv, NEW t \in Thread, ResetTables(t) PROVE HistoryInv'
<1>1. PICK q : q = req[t]
  OBVIOUS
<1>2. q.pc = "reset_tables" /\ q.pc # "idle" /\ q.pc \in ResetPlaces /\ q.pc \notin ImportPlaces
  BY <1>1 DEF ResetTables, ResetPlaces, ImportPlaces
<1>3. DataTyped /\ NamesAreUsed /\ q.run = 0
  BY <1>1, <1>2, AtWork DEF IsRequest
<1>4. Goto(t, "reset_files") /\ "reset_files" \in HistoryPlaces \ (ImportPlaces \cup {"idle", "rewrite"}) /\ "reset_files" \in ResetPlaces
  BY DEF ResetTables, HistoryPlaces, ImportPlaces, ResetPlaces
<1>5. PICK p : IsRequest(p) /\ req' = [req EXCEPT ![t] = p] /\ p.pc = "reset_files" /\ p.run = q.run
  BY <1>1, <1>2, <1>4, GotoIs
<1>6. /\ files' = files /\ named' = named /\ server' = server /\ todo' = todo /\ now' = now /\ current' = current
      /\ damaged' = damaged /\ deleted' = deleted /\ wiped' = wiped /\ db' = EmptyDatabase
  BY DEF ResetTables, disk, process, notes
<1>7. IsRegistry(db') /\ \A s \in RunId : Row(db', s) = NoRow /\ Rels(db', s) = NoRelations
  BY <1>6, EmptyIs
<1>8. DataTyped' /\ NamesAreUsed' /\ \A s \in RunId : named[s] <= named'[s]
  BY <1>3, <1>6, <1>7 DEF DataTyped, NamesAreUsed
<1>9. ASSUME NEW s \in RunId PROVE Fits(q, s) => Fits(p, s)'
  <2>1. ~Row(db', s).exists /\ Row(db', s).file = 0 /\ Rels(db', s)["docx"] = 0
    BY <1>7, RowsAre
  <2> QED
    BY <1>2, <1>5, <1>6, <2>1 DEF Fits, Mirror, Kept, ImportPlaces, DeletePlaces, ResetPlaces
<1> QED
  BY <1>1, <1>2, <1>3, <1>5, <1>6, <1>8, <1>9, ThreadStep

LEMMA ResetFilesKeeps == ASSUME HistoryInv, NEW t \in Thread, ResetFiles(t) PROVE HistoryInv'
<1>1. PICK q : q = req[t]
  OBVIOUS
<1>2. q.pc = "reset_files" /\ q.pc # "idle" /\ q.pc \in ResetPlaces /\ q.pc \notin ImportPlaces
  BY <1>1 DEF ResetFiles, ResetPlaces, ImportPlaces
<1>3. DataTyped /\ NamesAreUsed /\ q.run = 0 /\ IsRegistry(db)
  BY <1>1, <1>2, AtWork DEF IsRequest
<1>4. Goto(t, "reset_dirs") /\ "reset_dirs" \in HistoryPlaces \ (ImportPlaces \cup {"idle", "rewrite"}) /\ "reset_dirs" \in ResetPlaces
  BY DEF ResetFiles, HistoryPlaces, ImportPlaces, ResetPlaces
<1>5. PICK p : IsRequest(p) /\ req' = [req EXCEPT ![t] = p] /\ p.pc = "reset_dirs" /\ p.run = q.run
  BY <1>1, <1>2, <1>4, GotoIs
<1>6. /\ db' = db /\ named' = named /\ server' = server /\ todo' = todo /\ now' = now /\ current' = current
      /\ damaged' = damaged /\ deleted' = deleted /\ wiped' = wiped
  BY DEF ResetFiles, process, notes
<1>7. files' \in [RunId -> [FileNo -> MetadataFile]] /\ \A s \in RunId, n \in FileNo : ~files'[s][n].exists
  <2>1. NoFile \in MetadataFile /\ ~NoFile.exists
    BY IdleIs DEF NoFile, MetadataFile
  <2>2. PICK f : f = NoFile
    OBVIOUS
  <2>3. files' = [r \in RunId |-> [n \in FileNo |-> f]]
    BY <2>2 DEF ResetFiles
  <2> QED
    BY <2>1, <2>2, <2>3
<1>8. DataTyped' /\ NamesAreUsed' /\ \A s \in RunId : named[s] <= named'[s]
  BY <1>3, <1>6, <1>7 DEF DataTyped, NamesAreUsed
<1>9. ASSUME NEW s \in RunId PROVE Fits(q, s) => Fits(p, s)'
  <2>1. ~Row(db, s).exists => Row(db, s).file = 0
    BY <1>3, RowsAre DEF IsRegistry
  <2> QED
    BY <1>2, <1>5, <1>6, <1>7, <2>1 DEF Fits, Mirror, Kept, HasRecord, ImportPlaces, DeletePlaces, ResetPlaces
<1> QED
  BY <1>1, <1>2, <1>3, <1>5, <1>6, <1>8, <1>9, ThreadStep

LEMMA ResetDirsKeeps == ASSUME HistoryInv, NEW t \in Thread, ResetDirs(t) PROVE HistoryInv'
<1>1. PICK q : q = req[t]
  OBVIOUS
<1>2. q.pc = "reset_dirs" /\ q.pc # "idle" /\ q.pc \in ResetPlaces /\ q.pc \notin ImportPlaces
  BY <1>1 DEF ResetDirs, ResetPlaces, ImportPlaces
<1>3. DataTyped /\ NamesAreUsed /\ q.run = 0 /\ server = "up" /\ t \in Threads
  BY <1>1, <1>2, AtWork DEF IsRequest
<1>4. PICK p : p = Idle
  OBVIOUS
<1>5. IsRequest(p) /\ req' = [req EXCEPT ![t] = p] /\ p.pc = "idle"
  BY <1>4, IdleIs DEF ResetDirs, Done
<1>6. /\ files' = files /\ db' = db /\ named' = named /\ server' = server /\ todo' = todo /\ now' = now
      /\ current' = current /\ damaged' = damaged /\ deleted' = deleted
      /\ wiped' = (damaged = {} /\ \A u \in Thread \ {t} : req[u].pc = "idle")
      /\ \A r \in RunId : dirs'[r] = NoDirectory
  BY DEF ResetDirs, process
<1>7. DataTyped' /\ NamesAreUsed' /\ \A s \in RunId : named[s] <= named'[s]
  BY <1>3, <1>6 DEF DataTyped, NamesAreUsed
<1>8. ASSUME NEW s \in RunId PROVE Fits(q, s) => Fits(p, s)'
  BY <1>2, <1>5, <1>6 DEF Fits, Mirror, Kept, HasRecord, ImportPlaces, DeletePlaces, ResetPlaces
<1>9. wiped' => Wiped'
  <2>1. SUFFICES ASSUME damaged = {}, \A u \in Thread \ {t} : req[u].pc = "idle" PROVE Wiped'
    BY <1>6
  <2>2. todo' = {} /\ req[Boot].pc = "idle"
    BY <1>3, <1>6 DEF HistoryInv, Booting
  <2>3. \A u \in Threads : req'[u].pc = "idle"
    <3>1. req \in [Threads -> Request]
      BY DEF HistoryInv, HistoryTyped
    <3> QED
      BY <1>3, <1>5, <2>1, <2>2, <3>1 DEF Threads
  <2>4. ASSUME NEW s \in RunId PROVE ~Row(db, s).exists /\ ~HasRecord(s)
    <3>1. Works(t, s) /\ Fitting(s)
      BY <1>1, <1>2, <1>3 DEF HistoryInv, Works
    <3>2. Fits(q, s)
      BY <1>1, <1>3, <2>1, <3>1 DEF Fitting
    <3> QED
      BY <1>2, <3>2 DEF Fits
  <2>5. \A s \in RunId : HasRecord(s)' <=> HasRecord(s)
    BY <1>6 DEF HasRecord
  <2>6. \A s \in RunId : ~dirs'[s].exists
    BY <1>6 DEF NoDirectory
  <2> QED
    BY <1>6, <2>2, <2>3, <2>4, <2>5, <2>6 DEF Wiped
<1>10. p.pc # "rewrite" /\ (p.pc = "idle" \/ p.run = q.run) /\ damaged \subseteq damaged' /\ current'.run = current.run
  BY <1>5, <1>6
<1> QED
  BY <1>1, <1>2, <1>3, <1>5, <1>6, <1>7, <1>8, <1>9, <1>10, ThreadStep

(* Importing.                                                              *)
LEMMA ThreadImportKeeps == ASSUME HistoryInv, NEW t \in Thread, Import(t) PROVE HistoryInv'
<1>1. PICK q, r : q = req[t] /\ r = q.run
  OBVIOUS
<1>2. HistoryTyped /\ t \in Threads
  BY DEF HistoryInv, Threads
<1>3. PICK p : /\ IsRequest(p) /\ p.run = r /\ req' = [req EXCEPT ![t] = p]
               /\ GoesOn(p, q) \/ Ends(p, q)
  BY <1>1, <1>2, ImportStep
<1>4. q.pc \in ImportPlaces /\ OnlyIn(r, db, db') /\ UNCHANGED <<disk, process, notes>>
  BY <1>1, <1>2, ImportStep
<1>5. q.pc # "idle" /\ q.pc \notin ResetPlaces
  BY <1>4 DEF ImportPlaces, ResetPlaces
<1>6. IsRequest(q) /\ r \in RunId
  BY <1>1, <1>5, AtWork
<1>7. /\ UNCHANGED <<files, named, server, todo, now, deleted, wiped>> /\ current' = current
      /\ damaged \subseteq damaged'
  BY <1>4 DEF disk, process, notes
<1>8. p.pc # "rewrite"
  BY <1>3, <1>4, <1>6 DEF GoesOn, Ends, ImportPlaces, IsRequest
<1>9. ASSUME Fits(q, r) PROVE Fits(p, r)'
  <2>1. Importable(db, q)
    BY <1>4, <1>9 DEF Fits
  <2>2. CASE GoesOn(p, q)
    BY <2>1, <2>2 DEF GoesOn, Fits
  <2>3. CASE Ends(p, q)
    <3>1. p.pc \in {"idle", "tidy"} /\ Mirror(db, r)' /\ Row(db', r).exists
      BY <1>1, <1>4, <1>6, <2>1, <2>3 DEF Ends, IsRequest
    <3> QED
      BY <3>1 DEF Fits, Kept, ImportPlaces, DeletePlaces, ResetPlaces
  <2> QED
    BY <1>3, <2>2, <2>3
<1>10. SameRun
  BY <1>7 DEF HistoryInv, HistoryTyped, DataTyped, SameRun
<1> QED
  BY <1>1, <1>3, <1>4, <1>5, <1>7, <1>8, <1>9, <1>10, RegistryStep

-----------------------------------------------------------------------------
(* A request arrives: the runs that it shares with another are damaged,    *)
(* and of the others it has to say what holds when it starts.              *)
LEMMA AskKeeps ==
    ASSUME HistoryInv, NEW t \in Thread, NEW r \in RunId \cup {0}, NEW p, Ask(t, r, p),
           IsRequest(p), p.pc # "idle", p.run = r, p.pc = "rewrite" => p.file <= named[p.run],
           UNCHANGED <<files, named, db, server, todo, now>>,
           current' \in [run : RunId \cup {0}, docx : DocumentName, pdf : DocumentName],
           \A s \in RunId : IF r \in {s, 0} THEN Mirror(db, s) /\ Kept(s) => Fits(p, s)'
                            ELSE (s \in deleted' <=> s \in deleted) /\ (current'.run = s => current.run = s)
    PROVE  HistoryInv'
<1>1. server = "up" /\ req[t].pc = "idle" /\ wiped' = FALSE /\ req' = [req EXCEPT ![t] = p]
  BY DEF Ask
<1>2. t \in Threads /\ t # Boot /\ Boot \in Threads
  BY DEF Threads
<1>3. /\ files' = files /\ named' = named /\ db' = db /\ server' = server /\ todo' = todo /\ now' = now
      /\ DataTyped /\ NamesAreUsed /\ req \in [Threads -> Request] /\ \A u \in Threads : IsRequest(req[u])
  BY DEF HistoryInv, HistoryTyped
<1>4. p \in Request /\ req'[t] = p /\ \A u \in Threads \ {t} : req'[u] = req[u]
  BY <1>1, <1>2, <1>3 DEF IsRequest
<1>5. HistoryTyped' /\ NamesAreUsed'
  BY <1>1, <1>3, <1>4 DEF HistoryTyped, DataTyped, NamesAreUsed
<1>6. WritesAreNamed'
  BY <1>3, <1>4 DEF HistoryInv, WritesAreNamed, Threads
<1>7. Booting' /\ Wiped'
  BY <1>1, <1>2, <1>3, <1>4 DEF HistoryInv, Booting, Wiped
<1>8. ASSUME NEW s \in RunId PROVE Fitting(s)'
  <2>1. SUFFICES ASSUME s \notin damaged'
                 PROVE  /\ \A a, b \in Thread : Works(a, s)' /\ Works(b, s)' => a = b
                        /\ (\A a \in Thread : ~Works(a, s)') => Mirror(db, s)' /\ Kept(s)'
                        /\ \A a \in Thread : Works(a, s)' => Fits(req[a], s)'
    BY DEF Fitting
  <2>2. s \notin damaged /\ (r \in {s, 0} => Busy(s) = {})
    BY <2>1 DEF Ask
  <2>3. /\ \A a, b \in Thread : Works(a, s) /\ Works(b, s) => a = b
        /\ (\A a \in Thread : ~Works(a, s)) => Mirror(db, s) /\ Kept(s)
        /\ \A a \in Thread : Works(a, s) => Fits(req[a], s)
    BY <1>1, <2>2 DEF HistoryInv, Fitting
  <2>4. \A a \in Thread \ {t} : req'[a] = req[a] /\ (Works(a, s)' <=> Works(a, s))
    BY <1>4 DEF Threads, Works
  <2>5. ~Works(t, s)
    BY <1>1 DEF Works
  <2>6. CASE r \in {s, 0}
    <3>1. \A a \in Thread : ~Works(a, s)
      BY <2>2, <2>6 DEF Busy, Works
    <3>2. Fits(p, s)' /\ Works(t, s)'
      BY <1>4, <2>3, <2>6, <3>1 DEF Works
    <3> QED
      BY <1>4, <2>4, <3>1, <3>2
  <2>7. CASE r \notin {s, 0}
    <3>1. ~Works(t, s)' /\ (s \in deleted' <=> s \in deleted) /\ (current'.run = s => current.run = s)
      BY <1>4, <2>7 DEF Works
    <3>2. Mirror(db, s) /\ Kept(s) => Mirror(db, s)' /\ Kept(s)'
      BY <1>3, <3>1 DEF Mirror, Kept, HasRecord
    <3>3. ASSUME NEW a \in Thread, Works(a, s)' PROVE Fits(req[a], s)'
      <4>1. PICK w : w = req[a]
        OBVIOUS
      <4>2. a # t /\ Works(a, s) /\ req'[a] = w /\ IsRequest(w) /\ w.run \in {s, 0} /\ Fits(w, s)
        BY <1>3, <2>3, <2>4, <3>1, <3>3, <4>1 DEF Works, Threads
      <4>3. Row(db', s) = Row(db, s) /\ Rels(db', s) = Rels(db, s) /\ files'[s] = files[s]
        BY <1>3
      <4>4. Fits(w, s)'
        BY <3>1, <4>2, <4>3, FitsStays
      <4> QED
        BY <4>2, <4>4
    <3> QED
      BY <2>3, <2>4, <2>5, <3>1, <3>2, <3>3
  <2> QED
    BY <2>6, <2>7
<1> QED
  BY <1>5, <1>6, <1>7, <1>8 DEF HistoryInv

(* How a request starts.                                                   *)
LEMMA NewRequest ==
    ASSUME NEW r \in RunId, NEW place \in HistoryPlaces \ (ImportPlaces \cup ResetPlaces \cup {"idle"}),
           NEW n \in 0..MaxFiles, NEW data \in Content, NEW k \in {"none", "docx", "pdf"},
           NEW topic \in RunId \cup {0}, NEW then \in {"idle", "own", "page"}, place = "rewrite" => n \in FileNo,
           NEW p, p = [pc |-> place, run |-> r, file |-> n, data |-> data, kind |-> k, topic |-> topic,
                       op |-> "none", then |-> then]
    PROVE  IsRequest(p) /\ p.pc = place /\ p.run = r /\ p.file = n /\ p.pc # "idle"
BY DEF IsRequest, Request, ImportPlaces, ResetPlaces

LEMMA RequestRunKeeps == ASSUME HistoryInv, NEW t \in Thread, RequestRun(t) PROVE HistoryInv'
<1>1. now \in RunId /\ NoContent \in Content /\ 0 \in 0..MaxFiles
  BY IdleIs DEF HistoryInv, HistoryTyped, DataTyped
<1>2. PICK p : p = [Idle EXCEPT !.pc = "register", !.run = now]
  OBVIOUS
<1>3. p = [pc |-> "register", run |-> now, file |-> 0, data |-> NoContent, kind |-> "none", topic |-> 0,
          op |-> "none", then |-> "idle"]
  BY <1>2 DEF Idle
<1>4. "register" \in HistoryPlaces \ (ImportPlaces \cup ResetPlaces \cup {"idle"}) /\ "register" # "rewrite"
  BY DEF HistoryPlaces, PipelinePlaces, ImportPlaces, ResetPlaces
<1>5. IsRequest(p) /\ p.pc = "register" /\ p.run = now /\ p.pc # "idle" /\ p.pc # "rewrite"
  BY <1>1, <1>3, <1>4, NewRequest
<1>6. Ask(t, now, p) /\ UNCHANGED <<files, named, db, server, todo, now>> /\ deleted' = deleted
  BY <1>2 DEF RequestRun, disk
<1>7. current' \in [run : RunId \cup {0}, docx : DocumentName, pdf : DocumentName] /\ current'.run = now
  BY <1>1, IdleIs DEF RequestRun, NobodysRun
<1>8. ASSUME NEW s \in RunId
      PROVE  IF now \in {s, 0} THEN Mirror(db, s) /\ Kept(s) => Fits(p, s)'
             ELSE (s \in deleted' <=> s \in deleted) /\ (current'.run = s => current.run = s)
  <2>1. Mirror(db, s) /\ Kept(s) => Fits(p, s)'
    BY <1>5, <1>6 DEF Fits, Mirror, Kept, HasRecord, ImportPlaces, DeletePlaces, ResetPlaces
  <2> QED
    BY <1>6, <1>7, <2>1
<1>9. PICK r \in RunId : r = now
  BY <1>1
<1> QED
  BY <1>5, <1>6, <1>7, <1>8, <1>9, AskKeeps

LEMMA PostExportKeeps ==
    ASSUME HistoryInv, NEW t \in Thread, NEW r \in RunId, NEW k \in Format, NEW own \in BOOLEAN,
           PostExport(t, r, k, own)
    PROVE  HistoryInv'
<1>1. PICK topic, then : /\ topic = (IF own THEN current.run ELSE r)
                         /\ then = IF own THEN "own" ELSE "page"
  OBVIOUS
<1>2. topic \in RunId \cup {0} /\ then \in {"idle", "own", "page"} /\ NoContent \in Content /\ 0 \in 0..MaxFiles
  BY <1>1, IdleIs DEF HistoryInv, HistoryTyped, DataTyped
<1>3. PICK p : p = [Idle EXCEPT !.pc = "render", !.run = r, !.kind = k, !.topic = topic, !.then = then]
  OBVIOUS
<1>4. p = [pc |-> "render", run |-> r, file |-> 0, data |-> NoContent, kind |-> k, topic |-> topic,
           op |-> "none", then |-> then]
  BY <1>3 DEF Idle
<1>5. "render" \in HistoryPlaces \ (ImportPlaces \cup ResetPlaces \cup {"idle"}) /\ "render" # "rewrite" /\ k \in {"none", "docx", "pdf"}
  BY DEF HistoryPlaces, ExportPlaces, ImportPlaces, ResetPlaces, Format
<1>6. IsRequest(p) /\ p.pc = "render" /\ p.run = r /\ p.pc # "idle" /\ p.pc # "rewrite"
  BY <1>2, <1>4, <1>5, NewRequest
<1>7. /\ Ask(t, r, p) /\ UNCHANGED <<files, named, db, server, todo, now>> /\ deleted' = deleted
      /\ current' = current
  BY <1>1, <1>3 DEF PostExport, disk, process
<1>8. current' \in [run : RunId \cup {0}, docx : DocumentName, pdf : DocumentName]
  BY <1>7 DEF HistoryInv, HistoryTyped, DataTyped
<1>9. ASSUME NEW s \in RunId
      PROVE  IF r \in {s, 0} THEN Mirror(db, s) /\ Kept(s) => Fits(p, s)'
             ELSE (s \in deleted' <=> s \in deleted) /\ (current'.run = s => current.run = s)
  <2>1. r = current.run \/ Row(db, r).exists \/ HasRecord(r) \/ r \in deleted
    BY DEF PostExport, InHistory, Has, GetRun, Row, Written, Exists, HasRecord
  <2>2. r = s /\ Mirror(db, s) /\ Kept(s) => Fits(p, s)'
    BY <1>6, <1>7, <2>1 DEF Fits, Mirror, Kept, HasRecord, ImportPlaces, DeletePlaces, ResetPlaces
  <2>3. r # 0
    OBVIOUS
  <2> QED
    BY <1>7, <2>2, <2>3
<1>10. r \in RunId \cup {0}
  OBVIOUS
<1> QED
  BY <1>6, <1>7, <1>8, <1>9, <1>10, AskKeeps

LEMMA PostArchiveKeeps ==
    ASSUME HistoryInv, NEW t \in Thread, NEW r \in RunId, NEW n \in FileNo, NEW value \in BOOLEAN, PostArchive(t, r, n, value)
    PROVE  HistoryInv'
<1>1. files[r][n] \in MetadataFile /\ files[r][n].data \in Content /\ n <= named[r] /\ n \in 0..MaxFiles
  <2>1. files \in [RunId -> [FileNo -> MetadataFile]] /\ files[r][n].exists
    BY DEF PostArchive, Exists, HistoryInv, HistoryTyped, DataTyped
  <2>2. files[r][n] \in MetadataFile
    BY <2>1
  <2> QED
    BY <2>1, <2>2 DEF MetadataFile, HistoryInv, NamesAreUsed, FileNo
<1>2. PICK data : data = [files[r][n].data EXCEPT !.archived = value]
  OBVIOUS
<1>3. data \in Content
  BY <1>1, <1>2 DEF Content
<1>4. PICK p : p = [Idle EXCEPT !.pc = "rewrite", !.run = r, !.file = n, !.data = data]
  OBVIOUS
<1>5. p = [pc |-> "rewrite", run |-> r, file |-> n, data |-> data, kind |-> "none", topic |-> 0,
          op |-> "none", then |-> "idle"]
  BY <1>4 DEF Idle
<1>6. "rewrite" \in HistoryPlaces \ (ImportPlaces \cup ResetPlaces \cup {"idle"})
  BY DEF HistoryPlaces, ExportPlaces, ImportPlaces, ResetPlaces
<1>7. IsRequest(p) /\ p.pc = "rewrite" /\ p.run = r /\ p.file = n /\ p.pc # "idle"
  BY <1>1, <1>3, <1>5, <1>6, NewRequest
<1>8. /\ Ask(t, r, p) /\ UNCHANGED <<files, named, db, server, todo, now>> /\ deleted' = deleted
      /\ current' = current
  BY <1>2, <1>4 DEF PostArchive, disk, process
<1>9. current' \in [run : RunId \cup {0}, docx : DocumentName, pdf : DocumentName]
  BY <1>8 DEF HistoryInv, HistoryTyped, DataTyped
<1>10. ASSUME NEW s \in RunId
       PROVE  IF r \in {s, 0} THEN Mirror(db, s) /\ Kept(s) => Fits(p, s)'
              ELSE (s \in deleted' <=> s \in deleted) /\ (current'.run = s => current.run = s)
  <2>1. Mirror(db, s) /\ Kept(s) => Fits(p, s)'
    BY <1>7, <1>8 DEF Fits, Mirror, Kept, HasRecord, ImportPlaces, DeletePlaces, ResetPlaces
  <2> QED
    BY <1>8, <2>1
<1>11. r \in RunId \cup {0} /\ (p.pc = "rewrite" => p.file <= named[p.run])
  BY <1>1, <1>7
<1> QED
  BY <1>7, <1>8, <1>9, <1>10, <1>11, AskKeeps

LEMMA PostDeleteKeeps ==
    ASSUME HistoryInv, NEW t \in Thread, NEW r \in RunId, NEW n \in 0..MaxFiles, PostDelete(t, r, n)
    PROVE  HistoryInv'
<1>1. PICK data : data = IF n = 0 THEN [NoContent EXCEPT !.main = TRUE] ELSE files[r][n].data
  OBVIOUS
<1>2. data \in Content
  <2>1. CASE n = 0
    BY <1>1, <2>1, IdleIs DEF Content
  <2>2. CASE n # 0
    <3>1. files \in [RunId -> [FileNo -> MetadataFile]] /\ n \in FileNo
      BY <2>2 DEF FileNo, HistoryInv, HistoryTyped, DataTyped
    <3>2. files[r][n] \in MetadataFile
      BY <3>1
    <3> QED
      BY <1>1, <2>2, <3>2 DEF MetadataFile
  <2> QED
    BY <2>1, <2>2
<1>3. PICK p : p = [Idle EXCEPT !.pc = "delete_assets", !.run = r, !.file = n, !.data = data]
  OBVIOUS
<1>4. p = [pc |-> "delete_assets", run |-> r, file |-> n, data |-> data, kind |-> "none", topic |-> 0,
          op |-> "none", then |-> "idle"]
  BY <1>3 DEF Idle
<1>5. "delete_assets" \in HistoryPlaces \ (ImportPlaces \cup ResetPlaces \cup {"idle"}) /\ "delete_assets" # "rewrite"
  BY DEF HistoryPlaces, DeletePlaces, ImportPlaces, ResetPlaces
<1>6. IsRequest(p) /\ p.pc = "delete_assets" /\ p.run = r /\ p.pc # "idle" /\ p.pc # "rewrite"
  BY <1>2, <1>4, <1>5, NewRequest
<1>7. /\ Ask(t, r, p) /\ UNCHANGED <<files, named, db, server, todo, now>> /\ deleted' = deleted \cup {r}
      /\ current' = current
  BY <1>1, <1>3 DEF PostDelete, disk, process
<1>8. current' \in [run : RunId \cup {0}, docx : DocumentName, pdf : DocumentName]
  BY <1>7 DEF HistoryInv, HistoryTyped, DataTyped
<1>9. ASSUME NEW s \in RunId
       PROVE  IF r \in {s, 0} THEN Mirror(db, s) /\ Kept(s) => Fits(p, s)'
              ELSE (s \in deleted' <=> s \in deleted) /\ (current'.run = s => current.run = s)
  <2>1. s = r /\ Mirror(db, s) /\ Kept(s) => Fits(p, s)'
    BY <1>6, <1>7 DEF Fits, Mirror, Kept, HasRecord, ImportPlaces, DeletePlaces, ResetPlaces
  <2>2. r # 0
    OBVIOUS
  <2> QED
    BY <1>7, <2>1, <2>2
<1>10. r \in RunId \cup {0}
  OBVIOUS
<1> QED
  BY <1>6, <1>7, <1>8, <1>9, <1>10, AskKeeps

LEMMA PostResetKeeps == ASSUME HistoryInv, NEW t \in Thread, PostReset(t) PROVE HistoryInv'
<1>1. PICK p : p = [Idle EXCEPT !.pc = "reset_tables"]
  OBVIOUS
<1>2. p \in Request /\ p.pc = "reset_tables" /\ p.run = 0 /\ p.pc # "idle" /\ p.pc # "rewrite"
  BY <1>1, IdleIs DEF Request, HistoryPlaces, ResetPlaces
<1>3. IsRequest(p)
  BY <1>2 DEF IsRequest, ImportPlaces, ResetPlaces
<1>4. /\ Ask(t, 0, p) /\ UNCHANGED <<files, named, db, server, todo, now>> /\ deleted' = RunId
      /\ current' = current
  BY <1>1 DEF PostReset, disk, process
<1>5. current' \in [run : RunId \cup {0}, docx : DocumentName, pdf : DocumentName]
  BY <1>4 DEF HistoryInv, HistoryTyped, DataTyped
<1>6. ASSUME NEW s \in RunId
      PROVE  IF 0 \in {s, 0} THEN Mirror(db, s) /\ Kept(s) => Fits(p, s)'
             ELSE (s \in deleted' <=> s \in deleted) /\ (current'.run = s => current.run = s)
  BY <1>2, <1>4 DEF Fits, Mirror, Kept, HasRecord, ImportPlaces, DeletePlaces, ResetPlaces
<1>7. PICK r \in RunId \cup {0} : r = 0
  OBVIOUS
<1> QED
  BY <1>2, <1>3, <1>4, <1>5, <1>6, <1>7, AskKeeps

-----------------------------------------------------------------------------
(* Crashes and restarts.                                                   *)
LEMMA CrashKeeps == ASSUME HistoryInv, Crash PROVE HistoryInv'
<1>1. /\ files' = files /\ named' = named /\ db' = db /\ now' = now /\ dirs' = dirs /\ deleted' = deleted /\ wiped' = wiped
      /\ server' = "down" /\ todo' = {} /\ current'.run = 0
      /\ current' \in [run : RunId \cup {0}, docx : DocumentName, pdf : DocumentName]
  BY IdleIs DEF Crash, disk, NobodysRun
<1>2. PICK p : p = Idle
  OBVIOUS
<1>3. IsRequest(p) /\ p \in Request /\ p.pc = "idle" /\ req' = [u \in Threads |-> p]
  BY <1>2, IdleIs DEF Crash, Threads
<1>4. \A u \in Threads : req'[u] = p
  BY <1>3
<1>5. HistoryTyped' /\ NamesAreUsed' /\ WritesAreNamed'
  BY <1>1, <1>3, <1>4 DEF HistoryInv, HistoryTyped, DataTyped, NamesAreUsed, WritesAreNamed, Threads
<1>6. Booting'
  BY <1>1, <1>3, <1>4 DEF Booting, Threads
<1>7. \A s \in RunId : HasRecord(s)' <=> HasRecord(s)
  BY <1>1 DEF HasRecord
<1>8. Wiped'
  BY <1>1, <1>3, <1>4, <1>7 DEF HistoryInv, Wiped
<1>9. ASSUME NEW s \in RunId PROVE Fitting(s)'
  <2>1. SUFFICES ASSUME s \notin damaged' PROVE Mirror(db, s)' /\ Kept(s)'
    BY <1>3, <1>4 DEF Fitting, Works, Threads
  <2>2. server # "starting" /\ s \notin damaged /\ Busy(s) = {}
    BY <2>1 DEF Crash
  <2>3. \A a \in Thread : ~Works(a, s)
    BY <2>2 DEF Busy, Works
  <2>4. Mirror(db, s) /\ Kept(s)
    BY <2>2, <2>3 DEF HistoryInv, Fitting
  <2> QED
    BY <1>1, <1>7, <2>4 DEF Mirror, Kept
<1> QED
  BY <1>5, <1>6, <1>8, <1>9 DEF HistoryInv

LEMMA StartKeeps == ASSUME HistoryInv, Start PROVE HistoryInv'
<1>1. /\ files' = files /\ named' = named /\ db' = db /\ now' = now /\ deleted' = deleted /\ wiped' = wiped
      /\ server = "down" /\ server' = "starting" /\ current' = current /\ req' = req /\ damaged' = damaged
  BY DEF Start, notes
<1>2. /\ todo' = {x \in RunId \X FileNo : Exists(x[1], x[2])}
      /\ dirs' = [r \in RunId |-> IF IsEmpty(dirs[r]) THEN NoDirectory ELSE dirs[r]]
  BY DEF Start
<1>3. HistoryTyped' /\ NamesAreUsed' /\ WritesAreNamed'
  BY <1>1, <1>2 DEF HistoryInv, HistoryTyped, DataTyped, NamesAreUsed, WritesAreNamed
<1>4. \A s \in RunId : HasRecord(s)' <=> HasRecord(s)
  BY <1>1 DEF HasRecord
<1>5. Wiped'
  <2>1. SUFFICES ASSUME wiped PROVE todo' = {} /\ \A r \in RunId : ~dirs'[r].exists
    BY <1>1, <1>4 DEF HistoryInv, Wiped
  <2>2. \A r \in RunId : ~HasRecord(r) /\ ~dirs[r].exists
    BY <2>1 DEF HistoryInv, Wiped
  <2>3. \A x \in RunId \X FileNo : ~Exists(x[1], x[2])
    BY <2>2 DEF HasRecord, Exists
  <2>4. ~NoDirectory.exists
    BY DEF NoDirectory
  <2> QED
    BY <1>2, <2>2, <2>3, <2>4
<1>6. ASSUME NEW s \in RunId PROVE BootFits(s)'
  <2>1. req'[Boot].pc = "idle" /\ \A a \in Thread : ~Works(a, s)
    BY <1>1 DEF HistoryInv, Booting, Works
  <2>2. ASSUME HasRecord(s) PROVE Waiting(s)'
    <3>1. PICK n \in FileNo : files[s][n].exists
      BY <2>2 DEF HasRecord
    <3>2. <<s, n>> \in RunId \X FileNo /\ <<s, n>>[1] = s /\ <<s, n>>[2] = n
      OBVIOUS
    <3>3. <<s, n>> \in todo'
      BY <1>2, <3>1, <3>2 DEF Exists
    <3> QED
      BY <3>3 DEF Waiting
  <2>3. ASSUME s \notin damaged PROVE Mirror(db, s)'
    <3>1. Mirror(db, s)
      BY <1>1, <2>1, <2>3 DEF HistoryInv, Fitting
    <3> QED
      BY <1>1, <3>1 DEF Mirror
  <2> QED
    BY <1>1, <1>4, <2>1, <2>2, <2>3 DEF BootFits
<1>7. \A x \in todo' : files'[x[1]][x[2]].exists
  BY <1>1, <1>2 DEF Exists
<1>8. Booting'
  BY <1>1, <1>6, <1>7 DEF HistoryInv, Booting
<1>9. \A s \in RunId : Fitting(s)'
  BY <1>1 DEF Fitting
<1> QED
  BY <1>3, <1>5, <1>8, <1>9 DEF HistoryInv

LEMMA ImportNextKeeps ==
    ASSUME HistoryInv, NEW r \in RunId, NEW n \in FileNo, ImportNext(r, n)
    PROVE  HistoryInv'
<1>1. /\ files' = files /\ named' = named /\ db' = db /\ now' = now /\ deleted' = deleted /\ wiped' = wiped
      /\ server = "starting" /\ server' = "starting" /\ current' = current /\ damaged' = damaged
      /\ todo' = todo \ {<<r, n>>} /\ <<r, n>> \in todo /\ req[Boot].pc = "idle"
  BY DEF ImportNext, disk, notes
<1>2. PICK p : p = Importing(r, n, "idle")
  OBVIOUS
<1>3. IsRequest(p) /\ p.pc = "open" /\ p.run = r /\ p.file = n /\ p.then = "idle" /\ p \in Request
  BY <1>2, ImportingIs DEF IsRequest
<1>4. req' = [req EXCEPT ![Boot] = p] /\ Boot \in Threads
  BY <1>2 DEF ImportNext, Threads
<1>5. /\ req'[Boot] = p /\ \A u \in Threads \ {Boot} : req'[u] = req[u]
      /\ req \in [Threads -> Request] /\ \A u \in Threads : IsRequest(req[u])
  BY <1>4 DEF HistoryInv, HistoryTyped
<1>6. HistoryTyped' /\ NamesAreUsed'
  BY <1>1, <1>3, <1>4, <1>5 DEF HistoryInv, HistoryTyped, DataTyped, NamesAreUsed
<1>7. \A u \in Thread : req'[u] = req[u]
  BY <1>5 DEF Threads
<1>8. WritesAreNamed' /\ \A s \in RunId : Fitting(s)'
  BY <1>1, <1>7 DEF HistoryInv, WritesAreNamed, Fitting
<1>9. ~wiped
  BY <1>1 DEF HistoryInv, Wiped
<1>10. ASSUME NEW s \in RunId PROVE BootFits(s)'
  <2>1. CASE s = r
    <3>1. files[r][n].exists
      <4>1. <<r, n>>[1] = r /\ <<r, n>>[2] = n
        OBVIOUS
      <4>2. \A x \in todo : files[x[1]][x[2]].exists
        BY <1>1 DEF HistoryInv, Booting
      <4> QED
        BY <1>1, <4>1, <4>2
    <3> QED
      BY <1>1, <1>3, <1>5, <2>1, <3>1 DEF BootFits, Importable
  <2>2. CASE s # r
    <3>1. Waiting(s)' <=> Waiting(s)
      BY <1>1, <2>2 DEF Waiting
    <3>2. BootFits(s)
      BY <1>1 DEF HistoryInv, Booting
    <3>3. HasRecord(s)' <=> HasRecord(s)
      BY <1>1 DEF HasRecord
    <3>4. Mirror(db, s) => Mirror(db, s)'
      BY <1>1 DEF Mirror
    <3> QED
      BY <1>1, <1>3, <1>5, <2>2, <3>1, <3>2, <3>3, <3>4 DEF BootFits
  <2> QED
    BY <2>1, <2>2
<1>11. Booting'
  BY <1>1, <1>3, <1>5, <1>7, <1>10 DEF HistoryInv, Booting, ImportPlaces
<1> QED
  BY <1>1, <1>6, <1>8, <1>9, <1>11 DEF HistoryInv, Wiped

LEMMA ServeKeeps == ASSUME HistoryInv, Serve PROVE HistoryInv'
<1>1. /\ files' = files /\ named' = named /\ db' = db /\ now' = now /\ wiped' = wiped /\ dirs' = dirs
      /\ server = "starting" /\ server' = "up" /\ current' = current /\ req' = req /\ todo' = todo
      /\ todo = {} /\ req[Boot].pc = "idle"
      /\ damaged' = {r \in damaged : Written(r) = {}} /\ deleted' = {r \in deleted : Written(r) = {}}
  BY DEF Serve, disk
<1>2. \A s \in RunId : Written(s) = {} <=> ~HasRecord(s)
  BY DEF Written, Exists, HasRecord
<1>3. \A s \in RunId : HasRecord(s)' <=> HasRecord(s)
  BY <1>1 DEF HasRecord
<1>4. HistoryTyped' /\ NamesAreUsed' /\ WritesAreNamed' /\ Wiped' /\ Booting'
  BY <1>1, <1>3 DEF HistoryInv, HistoryTyped, DataTyped, NamesAreUsed, WritesAreNamed, Wiped, Booting
<1>5. ASSUME NEW s \in RunId PROVE Fitting(s)'
  <2>1. SUFFICES ASSUME s \notin damaged' PROVE Mirror(db, s)' /\ Kept(s)'
    BY <1>1 DEF HistoryInv, Booting, Fitting, Works
  <2>2. BootFits(s) /\ current.run = 0 /\ s # 0
    BY <1>1 DEF HistoryInv, Booting
  <2>3. HasRecord(s) \/ s \notin damaged
    BY <1>1, <1>2, <2>1
  <2>4. ~Waiting(s)
    BY <1>1 DEF Waiting
  <2>5. Mirror(db, s) /\ (HasRecord(s) => Row(db, s).exists)
    BY <1>1, <2>2, <2>3, <2>4 DEF BootFits
  <2> QED
    BY <1>1, <1>3, <2>2, <2>5 DEF Mirror, Kept
<1> QED
  BY <1>4, <1>5 DEF HistoryInv

LEMMA BootImportKeeps == ASSUME HistoryInv, Import(Boot) PROVE HistoryInv'
<1>1. PICK q, r : q = req[Boot] /\ r = q.run
  OBVIOUS
<1>2. HistoryTyped /\ Boot \in Threads
  BY DEF HistoryInv, Threads
<1>3. PICK p : /\ IsRequest(p) /\ p.run = r /\ req' = [req EXCEPT ![Boot] = p]
               /\ GoesOn(p, q) \/ Ends(p, q)
  BY <1>1, <1>2, ImportStep
<1>4. q.pc \in ImportPlaces /\ OnlyIn(r, db, db') /\ UNCHANGED <<disk, process, notes>>
  BY <1>1, <1>2, ImportStep
<1>5. q.pc # "idle" /\ q.pc \notin ResetPlaces
  BY <1>4 DEF ImportPlaces, ResetPlaces
<1>6. IsRequest(q) /\ r \in RunId /\ q.then = "idle" /\ server = "starting"
  BY <1>1, <1>2, <1>5 DEF HistoryTyped, HistoryInv, Booting, IsRequest
<1>7. /\ files' = files /\ named' = named /\ now' = now /\ deleted' = deleted /\ wiped' = wiped /\ dirs' = dirs
      /\ server' = server /\ current' = current /\ damaged' = damaged /\ todo' = todo
  BY <1>4 DEF disk, process, notes
<1>8. /\ req'[Boot] = p /\ \A u \in Threads \ {Boot} : req'[u] = req[u]
      /\ req \in [Threads -> Request] /\ \A u \in Threads : IsRequest(req[u])
  BY <1>2, <1>3 DEF HistoryTyped
<1>9. HistoryTyped'
  BY <1>2, <1>3, <1>4, <1>7, <1>8 DEF HistoryTyped, DataTyped, OnlyIn, IsRequest
<1>10. \A u \in Thread : req'[u] = req[u]
  BY <1>8 DEF Threads
<1>11. NamesAreUsed' /\ WritesAreNamed' /\ \A s \in RunId : Fitting(s)'
  BY <1>6, <1>7, <1>10 DEF HistoryInv, NamesAreUsed, WritesAreNamed, Fitting
<1>12. ~wiped
  BY <1>1, <1>2, <1>5 DEF HistoryInv, Wiped
<1>13. \A s \in RunId : (HasRecord(s)' <=> HasRecord(s)) /\ (Waiting(s)' <=> Waiting(s))
  BY <1>7 DEF HasRecord, Waiting
<1>14. p.pc = "idle" \/ (p.pc \in ImportPlaces /\ p.then = "idle")
  BY <1>3, <1>6 DEF GoesOn, Ends
<1>15. Importable(db, q)
  BY <1>1, <1>5, <1>6 DEF HistoryInv, Booting, BootFits
<1>16. ASSUME NEW s \in RunId PROVE BootFits(s)'
  <2>1. CASE s = r
    <3>1. CASE GoesOn(p, q)
      BY <1>3, <1>8, <1>15, <2>1, <3>1 DEF GoesOn, BootFits, ImportPlaces
    <3>2. CASE Ends(p, q)
      BY <1>1, <1>6, <1>8, <1>15, <2>1, <3>2 DEF Ends, BootFits
    <3> QED
      BY <1>3, <3>1, <3>2
  <2>2. CASE s # r
    <3>1. BootFits(s) /\ Row(db', s) = Row(db, s) /\ Rels(db', s) = Rels(db, s)
      BY <1>4, <1>6, <2>2 DEF HistoryInv, Booting, OnlyIn
    <3>2. Mirror(db, s) => Mirror(db, s)'
      BY <1>7, <3>1 DEF Mirror
    <3>3. HasRecord(s) /\ ~Waiting(s) => Mirror(db, s) /\ Row(db, s).exists
      BY <1>1, <2>2, <3>1 DEF BootFits
    <3>4. ~HasRecord(s) /\ s \notin damaged => Mirror(db, s)
      BY <1>1, <2>2, <3>1 DEF BootFits
    <3> QED
      BY <1>3, <1>7, <1>8, <1>13, <2>2, <3>1, <3>2, <3>3, <3>4 DEF BootFits
  <2> QED
    BY <2>1, <2>2
<1>17. Booting'
  <2>1. \A x \in todo' : files'[x[1]][x[2]].exists
    BY <1>6, <1>7 DEF HistoryInv, Booting
  <2>2. current'.run = 0 /\ \A u \in Thread : req'[u].pc = "idle"
    BY <1>6, <1>7, <1>10 DEF HistoryInv, Booting
  <2> QED
    BY <1>6, <1>7, <1>8, <1>14, <1>16, <2>1, <2>2 DEF Booting
<1> QED
  BY <1>7, <1>9, <1>11, <1>12, <1>17 DEF HistoryInv, Wiped

LEMMA NothingKeeps ==
    ASSUME HistoryInv, UNCHANGED historyVars \/ Tick
    PROVE  HistoryInv'
<1>1. /\ files' = files /\ named' = named /\ db' = db /\ deleted' = deleted /\ wiped' = wiped /\ dirs' = dirs
      /\ server' = server /\ current' = current /\ damaged' = damaged /\ todo' = todo /\ req' = req
  BY DEF Tick, historyVars, disk, process, notes
<1>2. now' \in RunId
  BY DEF Tick, historyVars, process, HistoryInv, HistoryTyped, DataTyped
<1>3. HistoryTyped' /\ NamesAreUsed' /\ WritesAreNamed'
  BY <1>1, <1>2 DEF HistoryInv, HistoryTyped, DataTyped, NamesAreUsed, WritesAreNamed
<1>4. \A s \in RunId : HasRecord(s)' <=> HasRecord(s)
  BY <1>1 DEF HasRecord
<1>5. Wiped'
  BY <1>1, <1>4 DEF HistoryInv, Wiped
<1>6. \A s \in RunId : /\ Waiting(s)' <=> Waiting(s)
                       /\ \A t \in Thread : Works(t, s)' <=> Works(t, s)
                       /\ Mirror(db, s) => Mirror(db, s)'
                       /\ Kept(s) => Kept(s)'
  BY <1>1, <1>4 DEF Waiting, Works, Mirror, Kept
<1>7. ASSUME NEW s \in RunId PROVE Fitting(s)'
  <2>1. ASSUME NEW a \in Thread, Works(a, s), Fits(req[a], s) PROVE Fits(req[a], s)'
    <3>1. PICK w : w = req[a]
      OBVIOUS
    <3>2. IsRequest(w) /\ w.run \in {s, 0} /\ Fits(w, s) /\ req'[a] = w
      BY <1>1, <2>1, <3>1 DEF HistoryInv, HistoryTyped, Threads, Works
    <3>3. /\ Row(db', s) = Row(db, s) /\ Rels(db', s) = Rels(db, s) /\ files'[s] = files[s]
          /\ (s \in deleted' <=> s \in deleted) /\ (current'.run = s => current.run = s)
      BY <1>1
    <3>4. Fits(w, s)'
      BY <3>2, <3>3, FitsStays
    <3> QED
      BY <3>2, <3>4
  <2>2. Fitting(s)
    BY DEF HistoryInv
  <2> QED
    BY <1>1, <1>6, <2>1, <2>2 DEF Fitting
<1>8. ASSUME NEW s \in RunId, BootFits(s) PROVE BootFits(s)'
  <2>1. PICK q : q = req[Boot] /\ q = req'[Boot]
    BY <1>1
  <2>2. ASSUME q.run = s, Importable(db, q) PROVE Importable(db, q)'
    BY <1>1, <2>2 DEF Importable, Progress
  <2> QED
    BY <1>1, <1>4, <1>6, <1>8, <2>1, <2>2 DEF BootFits
<1>9. Booting'
  BY <1>1, <1>8 DEF HistoryInv, Booting
<1> QED
  BY <1>3, <1>5, <1>7, <1>9 DEF HistoryInv

-----------------------------------------------------------------------------
(* The inductive invariant of the history.                                 *)
LEMMA HistoryStarts == InitHistory => HistoryInv
<1> SUFFICES ASSUME InitHistory PROVE HistoryInv
  OBVIOUS
<1>1. PICK f, p : f = NoFile /\ p = Idle
  OBVIOUS
<1>2. f \in MetadataFile /\ ~f.exists /\ IsRequest(p) /\ p \in Request /\ p.pc = "idle"
  BY <1>1, IdleIs DEF NoFile, MetadataFile
<1>3. /\ files = [r \in RunId |-> [n \in FileNo |-> f]] /\ named = [r \in RunId |-> 0]
      /\ dirs = [r \in RunId |-> NoDirectory] /\ db = EmptyDatabase
      /\ server = "up" /\ todo = {} /\ now \in RunId /\ req = [t \in Threads |-> p]
      /\ current = [run |-> 0, docx |-> NoName, pdf |-> NoName] /\ wiped = FALSE
  BY <1>1 DEF InitHistory, Threads, NobodysRun
<1>4. files \in [RunId -> [FileNo -> MetadataFile]] /\ \A r \in RunId, n \in FileNo : ~files[r][n].exists
  BY <1>2, <1>3
<1>5. IsRegistry(db) /\ \A r \in RunId : Row(db, r).file = 0 /\ Rels(db, r)["docx"] = 0
  BY <1>3, EmptyIs, RowsAre
<1>6. HistoryTyped
  BY <1>2, <1>3, <1>4, <1>5, IdleIs DEF HistoryTyped, DataTyped
<1>7. NamesAreUsed /\ WritesAreNamed
  BY <1>2, <1>3, <1>4 DEF NamesAreUsed, WritesAreNamed, Threads
<1>8. \A r \in RunId : Mirror(db, r) /\ Kept(r)
  BY <1>3, <1>4, <1>5 DEF Mirror, Kept, HasRecord
<1>9. \A r \in RunId : Fitting(r)
  BY <1>2, <1>3, <1>8 DEF Fitting, Works, Threads
<1>10. Booting /\ Wiped
  BY <1>2, <1>3 DEF Booting, Wiped, Threads
<1> QED
  BY <1>6, <1>7, <1>9, <1>10 DEF HistoryInv

LEMMA HistorySteps == HistoryInv /\ [NextHistory]_historyVars => HistoryInv'
<1> SUFFICES ASSUME HistoryInv, [NextHistory]_historyVars PROVE HistoryInv'
  OBVIOUS
<1>1. CASE UNCHANGED historyVars
  BY <1>1, NothingKeeps
<1>2. ASSUME NEW t \in Thread,
             \/ RequestRun(t) \/ Pipeline(t) \/ PostReset(t) \/ Reset(t) \/ Delete(t)
             \/ RenderExport(t) \/ DescribeExport(t) \/ ReadLinked(t) \/ Rewrite(t)
             \/ \E r \in RunId, k \in Format, own \in BOOLEAN : PostExport(t, r, k, own)
             \/ \E r \in RunId, n \in FileNo, value \in BOOLEAN : PostArchive(t, r, n, value)
             \/ \E r \in RunId, n \in 0..MaxFiles : PostDelete(t, r, n)
      PROVE  HistoryInv'
  <2>1. CASE Pipeline(t)
    BY <2>1, RegisterKeeps, AttachKeeps, FinishKeeps, AnnounceKeeps, SaveRecordKeeps, CleanUpKeeps DEF Pipeline
  <2>2. CASE Reset(t) \/ Delete(t)
    BY <2>2, ResetTablesKeeps, ResetFilesKeeps, ResetDirsKeeps, DeleteAssetsKeeps, DeleteRowKeeps, DeleteFileKeeps
       DEF Reset, Delete
  <2>3. CASE RenderExport(t) \/ DescribeExport(t) \/ ReadLinked(t) \/ Rewrite(t)
    BY <2>3, RenderExportKeeps, DescribeExportKeeps, ReadLinkedKeeps, RewriteKeeps
  <2>4. CASE RequestRun(t) \/ PostReset(t)
    BY <2>4, RequestRunKeeps, PostResetKeeps
  <2>5. CASE \E r \in RunId, k \in Format, own \in BOOLEAN : PostExport(t, r, k, own)
    BY <2>5, PostExportKeeps
  <2>6. CASE \E r \in RunId, n \in FileNo, value \in BOOLEAN : PostArchive(t, r, n, value)
    BY <2>6, PostArchiveKeeps
  <2>7. CASE \E r \in RunId, n \in 0..MaxFiles : PostDelete(t, r, n)
    BY <2>7, PostDeleteKeeps
  <2> QED
    BY <1>2, <2>1, <2>2, <2>3, <2>4, <2>5, <2>6, <2>7
<1>3. ASSUME NEW t \in Thread \cup {Boot}, Import(t) PROVE HistoryInv'
  BY <1>3, ThreadImportKeeps, BootImportKeeps
<1>4. CASE Crash \/ Start \/ Serve \/ Tick
  BY <1>4, CrashKeeps, StartKeeps, ServeKeeps, NothingKeeps
<1>5. ASSUME NEW r \in RunId, NEW n \in FileNo, ImportNext(r, n) PROVE HistoryInv'
  BY <1>5, ImportNextKeeps
<1> QED
  BY <1>1, <1>2, <1>3, <1>4, <1>5 DEF NextHistory

LEMMA HistoryIsKept == HistorySpec => []HistoryInv
BY HistoryStarts, HistorySteps, PTL DEF HistorySpec

LEMMA SettledIs ==
    ASSUME HistoryInv, NEW r \in RunId, Settled(r)
    PROVE  Mirror(db, r) /\ Kept(r)
<1>1. server # "starting" /\ r \notin damaged /\ \A t \in Thread : ~Works(t, r)
  BY DEF Settled, Busy, Works
<1> QED
  BY <1>1 DEF HistoryInv, Fitting

(* The registry of the server agrees with the metadata files, whatever     *)
(* crashes and requests came before: the row of a run that nobody is       *)
(* working on, and whose requests did not overlap, names a record that is  *)
(* on the disk, is archived as that record is, and has its relations and   *)
(* no other, each of them once (import_metadata_json(), lifespan()).       *)
THEOREM RegistryAlwaysMirrors == HistorySpec => []RegistryMirrorsFiles
<1>1. HistoryInv => RegistryMirrorsFiles
  <2> SUFFICES ASSUME HistoryInv, NEW r \in RunId, Settled(r), GetRun(db, r).file # 0,
                      NEW n, n = GetRun(db, r).file
               PROVE  /\ Exists(r, n)
                      /\ GetRun(db, r).archived = files[r][n].data.archived
                      /\ \A k \in ImportedKind : Relations(db, r, k) = RelationsOf(files[r][n].data)[k]
    BY DEF RegistryMirrorsFiles
  <2>1. Mirror(db, r)
    BY SettledIs
  <2> QED
    BY <2>1 DEF Mirror, Exists, GetRun, Relations, Row, Rels
<1> QED
  BY <1>1, HistoryIsKept, PTL

(* No finished run disappears from the history: a run with its records and *)
(* their documents on the disk is listed by get_history(), also when the   *)
(* server died while it saved them, unless a record of it was deleted.     *)
THEOREM FinishedIsAlwaysListed == HistorySpec => []FinishedIsListed
<1>1. HistoryInv => FinishedIsListed
  <2> SUFFICES ASSUME HistoryInv, NEW r \in RunId, Settled(r), r \notin deleted, Complete(r) PROVE Listed(r)
    BY DEF FinishedIsListed
  <2>1. Mirror(db, r) /\ Kept(r)
    BY SettledIs
  <2>2. HasRecord(r)
    BY DEF Complete, Written, Exists, HasRecord
  <2>3. r \in ListRuns(db)
    BY <2>1, <2>2 DEF Kept, ListRuns, Has, GetRun, Row
  <2>4. ASSUME Rels(db, r)["docx"] > 0 PROVE InDirectory(r, Imported(r), "docx")
    <3>1. PICK n : n = Row(db, r).file
      OBVIOUS
    <3>2. n # 0
      BY <2>1, <2>4, <3>1 DEF Mirror
    <3>3. /\ n \in FileNo /\ files[r][n].exists
          /\ Rels(db, r)["docx"] = RelationsOf(files[r][n].data)["docx"]
      BY <2>1, <3>1, <3>2, Kinds DEF Mirror
    <3>4. Names(files[r][n].data, "docx")
      BY <2>4, <3>3, Kinds DEF RelationsOf, Format
    <3>5. n \in Written(r) /\ Imported(r) = files[r][n].data
      BY <3>1, <3>3 DEF Written, Exists, Imported, GetRun, Row
    <3> QED
      BY <3>4, <3>5 DEF Complete
  <2> QED
    BY <2>3, <2>4 DEF Listed, Relations, Rels
<1> QED
  BY <1>1, HistoryIsKept, PTL

(* After a reset that met no other request nothing is left of any run, and *)
(* no crash and no restart brings a row, a record or a directory back      *)
(* before something new is asked (reset_history(), lifespan()).            *)
THEOREM ResetIsAlwaysFinal == HistorySpec => []ResetIsFinal
<1>1. HistoryInv => ResetIsFinal
  <2>1. \A r \in RunId : Written(r) = {} <=> ~HasRecord(r)
    BY DEF Written, Exists, HasRecord
  <2> QED
    BY <2>1 DEF HistoryInv, Wiped, ResetIsFinal, ListRuns, Has, GetRun, Row
<1> QED
  BY <1>1, HistoryIsKept, PTL
=============================================================================
