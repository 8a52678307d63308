----------------------- MODULE MediaEngineProgressProofs -----------------------
(***************************************************************************)
(* The safety side of progress: at no stage is a job forgotten, if the     *)
(* faults that make the code forget it stay away.  Each theorem names the  *)
(* fewest faults it must exclude; all others may happen.                   *)
(***************************************************************************)
EXTENDS MediaEngineSafetyProofs

\* No worker is being stopped, and all are in their queue groups.
AllRun == stopping = {} /\ \A w \in Workers : subscribed[w]

LEMMA AllRunNext ==
    ASSUME "stop" \notin Faults, TypeOK, AllRun, [Next]_vars
    PROVE  AllRun'
<1> USE DEF AllRun
<1>1. CASE Worker
    <2>1. ASSUME NEW w \in Workers, Restart(w) PROVE AllRun'
        BY <2>1 DEF Restart, Resubscribe, TypeOK, BusTypeOK
    <2>2. ASSUME NEW w \in Workers, DeliverToWorker(w) PROVE AllRun'
        BY <2>2 DEF DeliverToWorker, Deliver, workerVars
    <2>3. ASSUME NEW w \in Workers, HandlerStep(w) PROVE AllRun'
        BY <2>3
           DEF HandlerStep, FetchJob, ClaimJob, OpenSource, SaveArtifact, PersistArtifact,
               CompleteJob, FailJob, Announce, busVars
    <2>4. DropMessage => AllRun'
        BY DEF DropMessage, Drop, workerVars
    <2> QED BY <1>1, <2>1, <2>2, <2>3, <2>4
            DEF Worker, WorkerNext, StopWorker, ExitWorker, WorkerCrash
<1>2. CASE Gateway
    BY <1>2
       DEF Gateway, UploadNext, RejectUpload, UploadStep, UploadCrash, SaveUpload,
           RegisterUpload, PublishUpload, UndoRow, UndoFile, busVars, workerVars
<1>3. CASE Janitor \/ Tick \/ UNCHANGED vars
    BY <1>3 DEF Janitor, Tick, vars, busVars, workerVars
<1> QED BY <1>1, <1>2, <1>3 DEF Next

LEMMA AllRunInit == Init => AllRun
BY DEF Init, WorkerInit, BusInit, AllRun

-----------------------------------------------------------------------------
(* What a step does *)

\* A handler moves by its own steps, or its process is started again.
LEMMA HandlerMoves ==
    ASSUME TypeOK, [Next]_vars, NEW w \in Workers,
           ~(at'[w] = at[w] /\ job'[w] = job[w] /\ count'[w] = count[w])
    PROVE  \/ HandlerStep(w)
           \/ Restart(w) /\ (w \in stopping \/ "crash" \in Faults)
<1>0. /\ at \in [Workers -> Places]
      /\ job \in [Workers -> Jobs \cup {NoJob}]
      /\ count \in [Workers -> Nat]
    BY DEF TypeOK, WorkerTypeOK
<1>1. CASE Gateway \/ Janitor \/ Tick \/ UNCHANGED vars
    BY <1>1 DEF Gateway, Janitor, Tick, vars, workerVars
<1>2. CASE Worker
    <2>1. ASSUME NEW v \in Workers, HandlerStep(v) \/ Restart(v) PROVE v = w
        <3>1. \E p, i, n : Handle(v, p, i, n)
            BY <2>1
               DEF HandlerStep, FetchJob, ClaimJob, OpenSource, SaveArtifact,
                   PersistArtifact, CompleteJob, FailJob, Announce, Restart, Go, Return,
                   GoOn
        <3> QED BY <1>0, <3>1 DEF Handle
    <2>2. \/ UNCHANGED <<at, job, count>>
          \/ \E v \in Workers : \/ HandlerStep(v)
                                \/ Restart(v) /\ (v \in stopping \/ "crash" \in Faults)
        BY <1>2 DEF Worker, WorkerNext, DeliverToWorker, StopWorker, ExitWorker,
                    WorkerCrash, DropMessage, workerVars
    <2> QED BY <2>1, <2>2
<1> QED BY <1>1, <1>2 DEF Next

LEMMA UpdateMoves ==
    ASSUME TypeOK, NEW i \in Jobs, NEW j \in Jobs, NEW s, NEW ok \in BOOLEAN,
           UpdateJobStatus(i, s, ok), row'[j] # row[j]
    PROVE  /\ i = j /\ row'[j] = s /\ CanTransitionTo(row[j], s)
           /\ ok \/ "ack" \in Faults
BY DEF UpdateJobStatus, Failed, Applied, TypeOK, StorageTypeOK

\* A row is inserted by its upload, moved along by a handler of its job, which
\* knows it unless the answer is lost, or removed.
LEMMA RowMoves ==
    ASSUME TypeOK, RowFollowsUpload, [Next]_vars, NEW j \in Jobs, row'[j] # row[j]
    PROVE  \/ row'[j] = Deleted
           \/ /\ RegisterUpload(j) /\ row[j] = Absent /\ row'[j] = "pending"
              /\ UNCHANGED workerVars
           \/ \E w \in Workers :
                 /\ job[w] = j
                 /\ \/ /\ ClaimJob(w) /\ row[j] = "pending" /\ row'[j] = "processing"
                       /\ Go(w, "open") \/ "ack" \in Faults
                    \/ /\ CompleteJob(w) /\ row'[j] = "completed"
                       /\ Go(w, "completed") \/ "ack" \in Faults
                    \/ FailJob(w) /\ row'[j] = "failed" /\ Go(w, "failed")
<1>1. CASE Gateway
    <2>1. PICK i \in Jobs : RejectUpload(i) \/ UploadStep(i) \/ UploadCrash(i)
        BY <1>1 DEF Gateway, UploadNext
    <2>2. CASE RegisterUpload(i)
        <3>1. i = j /\ row'[j] = "pending"
            BY <2>2 DEF RegisterUpload, CreateJob, Failed, NewJobStatus, TypeOK,
                        StorageTypeOK
        <3> QED BY <1>1, <2>2, <3>1 DEF RegisterUpload, RowFollowsUpload, Gateway
    <2>3. CASE UndoRow(i)
        BY <2>3 DEF UndoRow, DeleteJob, TypeOK, StorageTypeOK
    <2> QED BY <2>1, <2>2, <2>3
            DEF UploadStep, RejectUpload, UploadCrash, SaveUpload, PublishUpload, UndoFile,
                storageVars
<1>2. CASE Worker
    <2>1. PICK w \in Workers : ClaimJob(w) \/ CompleteJob(w) \/ FailJob(w)
        BY <1>2
           DEF Worker, WorkerNext, HandlerStep, FetchJob, OpenSource, SaveArtifact,
               PersistArtifact, Announce, DeliverToWorker, StopWorker, ExitWorker,
               WorkerCrash, Restart, DropMessage, storageVars
    <2>2. job[w] \in Jobs
        BY <2>1 DEF TypeOK, WorkerTypeOK, ClaimJob, CompleteJob, FailJob
    <2>3. CASE ClaimJob(w)
        <3>1. PICK ok \in BOOLEAN : /\ UpdateJobStatus(job[w], "processing", ok)
                                   /\ IF ok THEN Go(w, "open") ELSE Return(w)
            BY <2>3 DEF ClaimJob
        <3>2. /\ job[w] = j /\ row'[j] = "processing" /\ (ok \/ "ack" \in Faults)
              /\ CanTransitionTo(row[j], "processing")
            BY <2>2, <3>1, UpdateMoves
        <3>3. row[j] = "pending"
            BY <3>2 DEF CanTransitionTo
        <3> QED BY <2>3, <3>1, <3>2, <3>3
    <2>4. CASE CompleteJob(w)
        <3>1. PICK ok \in BOOLEAN : /\ UpdateJobStatus(job[w], "completed", ok)
                                   /\ IF ok THEN Go(w, "completed") ELSE Return(w)
            BY <2>4 DEF CompleteJob
        <3>2. job[w] = j /\ row'[j] = "completed" /\ (ok \/ "ack" \in Faults)
            BY <2>2, <3>1, UpdateMoves
        <3> QED BY <2>4, <3>1, <3>2
    <2>5. CASE FailJob(w)
        <3>1. PICK ok \in BOOLEAN : UpdateJobStatus(job[w], "failed", ok)
            BY <2>5 DEF FailJob
        <3>2. job[w] = j /\ row'[j] = "failed"
            BY <2>2, <3>1, UpdateMoves
        <3> QED BY <2>5, <3>2 DEF FailJob
    <2> QED BY <2>1, <2>3, <2>4, <2>5
<1>3. CASE Janitor
    BY <1>3, JanitorRow, SameStatuses
       DEF TypeOK, StorageTypeOK, Lifecycle!Remove
<1>4. CASE Tick \/ UNCHANGED vars
    BY <1>4 DEF Tick, vars, storageVars
<1> QED BY <1>1, <1>2, <1>3, <1>4 DEF Next

-----------------------------------------------------------------------------
(* Owned *)

\* An owner goes on to own its job until it has written the outcome.
LEMMA OwnerGoesOn ==
    ASSUME Faults \cap {"db", "ack"} = {}, TypeOK, NEW w \in Workers, HandlerStep(w),
           at[w] \in Owning, NEW j \in Jobs, job[w] = j, row[j] = "processing",
           row'[j] = "processing"
    PROVE  Owns(w, j)'
<1>0. at \in [Workers -> Places] /\ job \in [Workers -> Jobs \cup {NoJob}]
    BY DEF TypeOK, WorkerTypeOK
<1>1. CASE OpenSource(w)
    BY <1>0, <1>1, PlaceFacts DEF OpenSource, Go, Handle, Owns
<1>2. CASE SaveArtifact(w)
    BY <1>0, <1>2, PlaceFacts DEF SaveArtifact, GoOn, Go, Handle, Owns
<1>3. CASE PersistArtifact(w)
    BY <1>0, <1>3, PlaceFacts DEF PersistArtifact, GoOn, Go, Handle, Owns
<1>4. ASSUME NEW s \in Outcomes, NEW ok \in BOOLEAN, UpdateJobStatus(j, s, ok)
      PROVE  FALSE
    BY <1>4 DEF UpdateJobStatus, CanTransitionTo, Outcomes, Failed, TypeOK, StorageTypeOK
<1>5. ~CompleteJob(w) /\ ~FailJob(w)
    BY <1>4 DEF CompleteJob, FailJob, Outcomes
<1> QED BY <1>1, <1>2, <1>3, <1>5
        DEF HandlerStep, FetchJob, ClaimJob, Announce, Owning, Outcomes

\* If the database answers and no worker dies or is stopped, a job that is in
\* processing has an owner, which will write its outcome.
THEOREM ProcessingHasOwner ==
  ASSUME Faults \cap {"db", "ack", "crash", "stop"} = {}
  PROVE  Safety => []ProcessingIsOwned
<1>1. Init => ProcessingIsOwned
    BY DEF Init, StorageInit, ProcessingIsOwned, Absent
<1>2. TypeOK /\ RowFollowsUpload /\ AllRun /\ ProcessingIsOwned /\ [Next]_vars
          => ProcessingIsOwned'
    <2> SUFFICES ASSUME TypeOK, RowFollowsUpload, AllRun, ProcessingIsOwned, [Next]_vars,
                        NEW j \in Jobs, row'[j] = "processing"
                 PROVE  \E w \in Workers : Owns(w, j)'
        BY DEF ProcessingIsOwned
    <2>1. CASE row[j] = "processing"
        <3>1. PICK w \in Workers : at[w] \in Owning /\ job[w] = j
            BY <2>1 DEF ProcessingIsOwned, Owns
        <3>2. CASE HandlerStep(w)
            BY <2>1, <3>1, <3>2, OwnerGoesOn
        <3>3. CASE ~HandlerStep(w)
            BY <3>1, <3>3, HandlerMoves DEF AllRun, Owns
        <3> QED BY <3>2, <3>3
    <2>2. CASE row[j] # "processing"
        <3>1. PICK w \in Workers : job[w] = j /\ Go(w, "open")
            BY <2>2, RowMoves DEF Deleted
        <3> QED BY <3>1, PlaceFacts DEF Go, Handle, Owns, TypeOK, WorkerTypeOK
    <2> QED BY <2>1, <2>2
<1>3. TypeOK /\ AllRun /\ [Next]_vars => AllRun'
    BY AllRunNext
<1> QED BY <1>1, <1>2, <1>3, AllRunInit, TypeInit, TypeNext, RowFollowsUploadInit,
           RowFollowsUploadNext, PTL DEF Safety

-----------------------------------------------------------------------------
(* Announced *)

LEMMA AnnouncedStays ==
    ASSUME [Next]_vars PROVE announced \subseteq announced'
<1>1. CASE Gateway \/ Janitor \/ Tick \/ UNCHANGED vars
    BY <1>1 DEF Gateway, Janitor, Tick, vars, workerVars
<1>2. CASE Worker
    BY <1>2
       DEF Worker, WorkerNext, HandlerStep, FetchJob, ClaimJob, OpenSource, SaveArtifact,
           PersistArtifact, CompleteJob, FailJob, Announce, DeliverToWorker, StopWorker,
           ExitWorker, WorkerCrash, Restart, DropMessage, workerVars
<1> QED BY <1>1, <1>2 DEF Next

\* If events are published, answers come back, and no worker dies or is
\* stopped, every outcome in a row was announced or is about to be.
THEOREM SettledGetsAnnounced ==
  ASSUME Faults \cap {"ack", "bus", "crash", "stop"} = {}
  PROVE  Safety => []SettledIsAnnounced
<1>1. Init => SettledIsAnnounced
    BY DEF Init, StorageInit, SettledIsAnnounced, IsTerminal, Absent
<1>2. TypeOK /\ RowFollowsUpload /\ AllRun /\ SettledIsAnnounced /\ [Next]_vars
          => SettledIsAnnounced'
    <2> SUFFICES ASSUME TypeOK, RowFollowsUpload, AllRun, SettledIsAnnounced, [Next]_vars,
                        NEW j \in Jobs, IsTerminal(row'[j])
                 PROVE  \/ <<j, row'[j]>> \in announced'
                        \/ \E w \in Workers : job'[w] = j /\ at'[w] = row'[j]
        BY DEF SettledIsAnnounced, IsTerminal
    <2>0. at \in [Workers -> Places] /\ job \in [Workers -> Jobs \cup {NoJob}]
        BY DEF TypeOK, WorkerTypeOK
    <2>1. CASE row'[j] = row[j]
        <3>1. CASE <<j, row[j]>> \in announced
            BY <2>1, <3>1, AnnouncedStays
        <3>2. ASSUME NEW w \in Workers, job[w] = j, at[w] = row[j]
              PROVE  \/ <<j, row'[j]>> \in announced'
                     \/ job'[w] = j /\ at'[w] = row'[j]
            <4>1. CASE HandlerStep(w)
                <5>1. at[w] \in Outcomes
                    BY <2>1, <3>2 DEF IsTerminal, Outcomes
                <5>2. Announce(w)
                    BY <4>1, <5>1
                       DEF HandlerStep, FetchJob, ClaimJob, OpenSource, SaveArtifact,
                           PersistArtifact, CompleteJob, FailJob, Outcomes
                <5> QED BY <2>1, <3>2, <5>2 DEF Announce, AllRun
            <4>2. CASE ~HandlerStep(w)
                BY <2>1, <3>2, <4>2, HandlerMoves DEF AllRun
            <4> QED BY <4>1, <4>2
        <3> QED BY <2>1, <3>1, <3>2 DEF SettledIsAnnounced
    <2>2. CASE row'[j] # row[j]
        <3>1. PICK w \in Workers : job[w] = j /\ Go(w, row'[j])
            BY <2>2, RowMoves DEF IsTerminal, Deleted
        <3> QED BY <2>0, <3>1 DEF Go, Handle
    <2> QED BY <2>1, <2>2
<1>3. TypeOK /\ AllRun /\ [Next]_vars => AllRun'
    BY AllRunNext
<1> QED BY <1>1, <1>2, <1>3, AllRunInit, TypeInit, TypeNext, RowFollowsUploadInit,
           RowFollowsUploadNext, PTL DEF Safety

-----------------------------------------------------------------------------
(* Complete *)

\* The artifacts that are recorded when a worker is at a place of its handler.
Recorded(place, j, n) == CASE place = "persist"  -> 1 .. n
                           [] place = "complete" -> Outputs(j)
                           [] OTHER              -> {}

\* Before its claim a job has no artifacts; then it has those its owner recorded.
ArtifactsCounted ==
    /\ \A j \in Jobs : row[j] \in {Absent, "pending"} => artRows[j] = {}
    /\ \A w \in Workers : at[w] \in Owning /\ row[job[w]] = "processing" =>
            artRows[job[w]] = Recorded(at[w], job[w], count[w])

\* The artifacts of a job change with its removal, or by its worker.
LEMMA RecordMoves ==
    ASSUME TypeOK, [Next]_vars, NEW j \in Jobs, artRows'[j] # artRows[j]
    PROVE  \/ artRows'[j] = {} /\ (row'[j] = Deleted \/ (row'[j] = row[j] /\ ~HasRow(j)))
           \/ \E w \in Workers : PersistArtifact(w) /\ job[w] = j
<1>0. artRows \in [Jobs -> SUBSET Nat] /\ row \in [Jobs -> Statuses \cup {Absent, Deleted}]
    BY DEF TypeOK, StorageTypeOK
<1>1. ASSUME NEW i \in Jobs, NEW ok, DeleteJob(i, ok)
      PROVE  artRows'[j] = {} /\ (row'[j] = Deleted \/ (row'[j] = row[j] /\ ~HasRow(j)))
    BY <1>0, <1>1 DEF DeleteJob, HasRow, Statuses, Deleted
<1>2. CASE Gateway
    BY <1>1, <1>2
       DEF Gateway, UploadNext, RejectUpload, UploadStep, UploadCrash, SaveUpload,
           RegisterUpload, PublishUpload, UndoRow, UndoFile, storageVars
<1>3. CASE Worker
    <2>1. CASE \E w \in Workers : PersistArtifact(w)
        <3>1. PICK w \in Workers : PersistArtifact(w)
            BY <2>1
        <3>2. job[w] = j
            BY <1>0, <3>1 DEF PersistArtifact, AddArtifact
        <3> QED BY <3>1, <3>2
    <2>2. CASE ~\E w \in Workers : PersistArtifact(w)
        BY <1>3, <2>2
           DEF Worker, WorkerNext, HandlerStep, FetchJob, ClaimJob, OpenSource,
               SaveArtifact, CompleteJob, FailJob, Announce, DeliverToWorker, StopWorker,
               ExitWorker, WorkerCrash, Restart, DropMessage, storageVars
    <2> QED BY <2>1, <2>2
<1>4. CASE Janitor
    <2>1. PICK s \in Sweepers : SweepStep(s) \/ SweepCrash(s)
        BY <1>4 DEF Janitor, JanitorNext
    <2>2. CASE PruneRow(s)
        <3>1. Head(todo[s]) \in Jobs
            BY <2>2, HeadTailProperties DEF PruneRow, TypeOK, JanitorTypeOK
        <3> QED BY <1>1, <2>2, <3>1 DEF PruneRow
    <2>3. CASE ~PruneRow(s)
        BY <2>1, <2>3
           DEF SweepStep, SweepCrash, ListExpired, FetchArtifacts, PruneFiles, storageVars
    <2> QED BY <2>2, <2>3
<1>5. CASE Tick \/ UNCHANGED vars
    BY <1>5 DEF Tick, vars, storageVars
<1> QED BY <1>2, <1>3, <1>4, <1>5 DEF Next

\* The owner of a processing job keeps count of what it recorded.
LEMMA CountGoesOn ==
    ASSUME "db" \notin Faults, TypeOK, ArtifactsCounted, NEW w \in Workers,
           HandlerStep(w), at'[w] \in Owning, NEW j \in Jobs, job'[w] = j,
           row'[j] = "processing"
    PROVE  artRows'[j] = Recorded(at'[w], j, count'[w])
<1>0. /\ at \in [Workers -> Places]
      /\ job \in [Workers -> Jobs \cup {NoJob}]
      /\ count \in [Workers -> Nat]
      /\ artRows \in [Jobs -> SUBSET Nat]
    BY DEF TypeOK, WorkerTypeOK, StorageTypeOK
<1>1. CASE ClaimJob(w)
    <2>1. PICK ok \in BOOLEAN : /\ UpdateJobStatus(job[w], "processing", ok)
                               /\ IF ok THEN Go(w, "open") ELSE Return(w)
        BY <1>1 DEF ClaimJob
    <2>2. at'[w] = "open" /\ job[w] = j /\ ok
        BY <1>0, <2>1, PlaceFacts DEF Go, Return, Handle
    <2>3. row[j] = "pending"
        BY <2>1, <2>2 DEF UpdateJobStatus, CanTransitionTo, Failed
    <2>4. artRows'[j] = {}
        BY <1>1, <2>3 DEF ClaimJob, ArtifactsCounted
    <2> QED BY <2>2, <2>4 DEF Recorded
<1>2. CASE OpenSource(w)
    <2>1. /\ at'[w] \in {"save", "fail"} /\ job[w] = j /\ at[w] = "open"
          /\ UNCHANGED <<row, artRows>>
        BY <1>0, <1>2 DEF OpenSource, Go, Handle, storageVars
    <2> QED BY <2>1, PlaceFacts DEF ArtifactsCounted, Recorded
<1>3. CASE SaveArtifact(w)
    <2>1. /\ at'[w] \in {"save", "fail"} \/ (at'[w] = "persist" /\ count'[w] = 0)
          /\ job[w] = j /\ at[w] = "save" /\ UNCHANGED <<row, artRows>>
        <3>1. \/ Handle(w, "save", job[w], count[w] + 1)
              \/ Handle(w, "persist", job[w], 0)
              \/ Handle(w, "fail", job[w], 0)
            BY <1>3 DEF SaveArtifact, GoOn, Go
        <3>2. at[w] = "save" /\ UNCHANGED <<row, artRows>>
            BY <1>3 DEF SaveArtifact
        <3> QED BY <1>0, <3>1, <3>2 DEF Handle
    <2>2. artRows'[j] = {}
        BY <2>1, PlaceFacts DEF ArtifactsCounted, Recorded
    <2>3. 1 .. 0 = {}
        OBVIOUS
    <2> QED BY <2>1, <2>2, <2>3 DEF Recorded
<1>4. CASE PersistArtifact(w)
    <2>1. job[w] = j /\ at[w] = "persist" /\ UNCHANGED row
        BY <1>0, <1>4 DEF PersistArtifact, GoOn, Go, Handle
    <2>2. artRows[j] = 1 .. count[w]
        BY <2>1, PlaceFacts DEF ArtifactsCounted, Recorded
    <2>3. artRows'[j] = artRows[j] \cup {Artifact(w)}
        BY <1>0, <1>4, <2>1 DEF PersistArtifact, AddArtifact, HasRow, Statuses, Failed
    <2>4. artRows'[j] = 1 .. count[w] + 1
        BY <1>0, <2>2, <2>3 DEF Artifact
    <2>5. OutputCount(j) \in Nat /\ count[w] + 1 <= OutputCount(j)
        BY <2>1, OutputCountType DEF TypeOK, WorkerTypeOK, Outputs
    <2>6. CASE count[w] + 1 < OutputCount(j)
        <3>1. at'[w] = "persist" /\ count'[w] = count[w] + 1
            BY <1>0, <1>4, <2>1, <2>6 DEF PersistArtifact, GoOn, Handle
        <3> QED BY <2>4, <3>1 DEF Recorded
    <2>7. CASE ~(count[w] + 1 < OutputCount(j))
        <3>1. at'[w] = "complete" /\ count[w] + 1 = OutputCount(j)
            BY <1>0, <1>4, <2>1, <2>5, <2>7 DEF PersistArtifact, GoOn, Go, Handle
        <3> QED BY <2>4, <3>1 DEF Recorded, Outputs
    <2> QED BY <2>6, <2>7
<1>5. CASE FetchJob(w) \/ CompleteJob(w) \/ FailJob(w) \/ Announce(w)
    BY <1>0, <1>5 DEF FetchJob, CompleteJob, FailJob, Announce, Go, Return, Handle, Owning
<1> QED BY <1>1, <1>2, <1>3, <1>4, <1>5 DEF HandlerStep

LEMMA CountNext ==
    ASSUME "db" \notin Faults, TypeOK, RowFollowsUpload, ClaimInv, ArtifactsCounted,
           CompletedIsComplete, [Next]_vars
    PROVE  ArtifactsCounted' /\ CompletedIsComplete'
<1>0. /\ at \in [Workers -> Places]
      /\ job \in [Workers -> Jobs \cup {NoJob}]
      /\ count \in [Workers -> Nat]
    BY DEF TypeOK, WorkerTypeOK
<1>1. ASSUME NEW j \in Jobs, row'[j] \in {Absent, "pending"} PROVE artRows'[j] = {}
    <2>1. row[j] \in {Absent, "pending"}
        BY <1>1, RowMoves DEF Absent, Deleted
    <2>2. CASE artRows'[j] = artRows[j]
        BY <2>1, <2>2 DEF ArtifactsCounted
    <2>3. ASSUME NEW w \in Workers, PersistArtifact(w), job[w] = j PROVE FALSE
        BY <2>1, <2>3, PlaceFacts, ExpectedRows
           DEF PersistArtifact, ClaimInv, RowAgrees, Claimed, Absent, Deleted
    <2> QED BY <2>2, <2>3, RecordMoves
<1>2. ASSUME NEW w \in Workers, at'[w] \in Owning, NEW j \in Jobs, job'[w] = j,
             row'[j] = "processing"
      PROVE  artRows'[j] = Recorded(at'[w], j, count'[w])
    <2>1. CASE HandlerStep(w)
        BY <1>2, <2>1, CountGoesOn
    <2>2. CASE ~HandlerStep(w)
        <3>1. at'[w] = at[w] /\ job'[w] = job[w] /\ count'[w] = count[w]
            <4>1. Restart(w) => at'[w] = "idle"
                BY <1>0 DEF Restart, Return, Handle
            <4> QED BY <1>2, <2>2, <4>1, HandlerMoves DEF Owning
        <3>2. Claimed(w) /\ row[j] \in {"processing", Deleted}
            BY <1>2, <3>1, ExpectedRows DEF ClaimInv, RowAgrees, Claimed
        <3>3. row[j] = "processing"
            BY <1>2, <3>2, RowMoves DEF Deleted
        <3>4. ASSUME NEW v \in Workers, PersistArtifact(v), job[v] = j PROVE FALSE
            <4>1. Claimed(v) /\ HandlerStep(v)
                BY <3>4, PlaceFacts DEF PersistArtifact, Claimed, HandlerStep
            <4> QED BY <1>2, <2>2, <3>1, <3>2, <3>4, <4>1 DEF ClaimInv, OneClaim
        <3>5. artRows'[j] = artRows[j]
            BY <1>2, <3>3, <3>4, RecordMoves DEF HasRow, Statuses, Deleted
        <3> QED BY <1>2, <3>1, <3>3, <3>5 DEF ArtifactsCounted
    <2> QED BY <2>1, <2>2
<1>3. ArtifactsCounted'
    <2>1. ASSUME NEW w \in Workers, at'[w] \in Owning PROVE job'[w] \in Jobs
        BY <2>1, TypeNext DEF TypeOK, WorkerTypeOK, Owning
    <2> QED BY <1>1, <1>2, <2>1 DEF ArtifactsCounted, Recorded, Outputs, OutputCount
<1>4. ASSUME NEW j \in Jobs, row'[j] = "completed" PROVE artRows'[j] = Outputs(j)
    <2>1. CASE row[j] = "completed"
        <3>1. ASSUME NEW w \in Workers, PersistArtifact(w), job[w] = j PROVE FALSE
            BY <2>1, <3>1, PlaceFacts, ExpectedRows
               DEF PersistArtifact, ClaimInv, RowAgrees, Claimed, Deleted
        <3>2. artRows'[j] = artRows[j]
            BY <1>4, <2>1, <3>1, RecordMoves DEF HasRow, Statuses, Deleted
        <3> QED BY <2>1, <3>2 DEF CompletedIsComplete
    <2>2. CASE row[j] # "completed"
        <3>1. PICK w \in Workers : job[w] = j /\ CompleteJob(w)
            BY <1>4, <2>2, RowMoves DEF Deleted
        <3>2. at[w] = "complete" /\ UNCHANGED artRows
            BY <3>1 DEF CompleteJob
        <3>3. CanTransitionTo(row[j], "completed")
            BY <1>4, <2>2, <3>1 DEF CompleteJob, UpdateJobStatus, Failed
        <3>4. row[j] = "processing"
            BY <3>3 DEF CanTransitionTo
        <3> QED BY <3>1, <3>2, <3>4, PlaceFacts DEF ArtifactsCounted, Recorded
    <2> QED BY <2>1, <2>2
<1> QED BY <1>3, <1>4 DEF CompletedIsComplete, Outputs, OutputCount

\* If no statement fails, a completed job lists every artifact of it, whatever
\* else happens: crashes, lost answers, sweeps in between, repeated events.
THEOREM CompletedHasAll ==
  ASSUME "db" \notin Faults
  PROVE  Safety => []CompletedIsComplete
<1> DEFINE Base == TypeOK /\ RowFollowsUpload /\ ClaimInv
<1>1. Init => ArtifactsCounted /\ CompletedIsComplete
    BY DEF Init, StorageInit, WorkerInit, ArtifactsCounted, CompletedIsComplete, Absent,
           Owning
<1>2. Base /\ ArtifactsCounted /\ CompletedIsComplete /\ [Next]_vars
          => ArtifactsCounted' /\ CompletedIsComplete'
    BY CountNext
<1>3. Safety => []Base
    BY Invariance, PTL
<1> QED BY <1>1, <1>2, <1>3, PTL DEF Safety

-----------------------------------------------------------------------------
(* MediaEngine implements JobFeed *)

\* What a job without a row, and a worker about to announce a failure, rest on.
RowlessHasNone   == \A j \in Jobs : ~HasRow(j) => artRows[j] = {}
FailureIsWritten == \A w \in Workers : at[w] = "failed" => row[job[w]] \in {"failed", Deleted}

FeedInv == /\ TypeOK
           /\ RowFollowsUpload
           /\ ClaimInv
           /\ RowlessHasNone
           /\ "db" \notin Faults => ArtifactsCounted /\ FailureIsWritten

\* JobFeed speaks of the same statuses, and sees a stutter in what it does not name.
LEMMA FeedTerms ==
    /\ Feed!Statuses = Statuses /\ Feed!Absent = Absent /\ Feed!Deleted = Deleted
    /\ Feed!NewJobStatus = NewJobStatus
    /\ \A s : Feed!IsTerminal(s) <=> IsTerminal(s)
    /\ \A j \in Jobs : [i \in Jobs |-> OutputCount(i)][j] = OutputCount(j)
    /\ UNCHANGED <<row, artRows, announced>> => UNCHANGED Feed!vars
BY DEF Feed!Statuses, Statuses, Feed!Absent, Absent, Feed!Deleted, Deleted,
       Feed!NewJobStatus, NewJobStatus, Feed!IsTerminal, IsTerminal, Feed!vars

LEMMA FirstsOfMore ==
    ASSUME NEW A, NEW x, NEW y
    PROVE  {m[1] : m \in A \cup {<<x, y>>}} = {m[1] : m \in A} \cup {x}
<1>1. <<x, y>>[1] = x
    OBVIOUS
<1>2. \A z : z \in {m[1] : m \in A \cup {<<x, y>>}} <=> z \in {m[1] : m \in A} \cup {x}
    BY <1>1
<1> QED BY <1>2

LEMMA FeedDelete ==
    ASSUME TypeOK, RowlessHasNone, NEW j \in Jobs, NEW ok, DeleteJob(j, ok),
           UNCHANGED announced
    PROVE  UNCHANGED Feed!vars \/ Feed!Remove(j)
<1>1. CASE HasRow(j) /\ row' = [row EXCEPT ![j] = Deleted]
                     /\ artRows' = [artRows EXCEPT ![j] = {}]
    BY <1>1, FeedTerms DEF Feed!Remove, HasRow
<1>2. CASE UNCHANGED <<row, artRows>>
    BY <1>2, FeedTerms
<1>3. CASE ~HasRow(j) /\ row' = [row EXCEPT ![j] = @]
                      /\ artRows' = [artRows EXCEPT ![j] = {}]
    BY <1>2, <1>3 DEF RowlessHasNone, TypeOK, StorageTypeOK
<1> QED BY <1>1, <1>2, <1>3 DEF DeleteJob

\* A job is not announced before it is claimed, nor while a worker has it.
LEMMA NotAnnounced ==
    ASSUME TypeOK, ClaimInv, NEW j \in Jobs,
           row[j] \in {Absent, "pending"} \/ \E w \in Workers : Claimed(w) /\ job[w] = j
    PROVE  j \notin {m[1] : m \in announced}
<1>1. ASSUME NEW m \in announced PROVE m[1] # j
    <2>1. CASE row[j] \in {Absent, "pending"}
        BY <1>1, <2>1, ExpectedRows DEF ClaimInv, AnnouncedAgrees, Absent
    <2>2. CASE \E w \in Workers : Claimed(w) /\ job[w] = j
        BY <1>1, <2>2 DEF ClaimInv, NotYetAnnounced
    <2> QED BY <2>1, <2>2
<1> QED BY <1>1

LEMMA FeedGateway ==
    ASSUME TypeOK, RowFollowsUpload, ClaimInv, RowlessHasNone, Gateway
    PROVE  [Feed!Next]_(Feed!vars)
<1> PICK j \in Jobs : RejectUpload(j) \/ UploadStep(j) \/ UploadCrash(j)
    BY DEF Gateway, UploadNext
<1>1. UNCHANGED announced
    BY DEF Gateway, workerVars
<1>2. CASE RegisterUpload(j)
    <2>1. row[j] = Absent /\ UNCHANGED artRows
        BY <1>2 DEF RegisterUpload, RowFollowsUpload
    <2>2. UNCHANGED row \/ row' = [row EXCEPT ![j] = NewJobStatus]
        BY <1>2 DEF RegisterUpload, CreateJob
    <2>3. j \notin {m[1] : m \in announced}
        BY <2>1, NotAnnounced
    <2>4. UNCHANGED Feed!vars \/ Feed!Move(j, Feed!Absent, Feed!NewJobStatus)
        BY <1>1, <2>1, <2>2, <2>3, FeedTerms DEF Feed!Move
    <2> QED BY <2>4 DEF Feed!Next, Feed!JobStep
<1>3. CASE UndoRow(j)
    <2>1. UNCHANGED Feed!vars \/ Feed!Remove(j)
        BY <1>1, <1>3, FeedDelete DEF UndoRow
    <2> QED BY <2>1 DEF Feed!Next, Feed!JobStep
<1>4. CASE ~RegisterUpload(j) /\ ~UndoRow(j)
    <2>1. UNCHANGED <<row, artRows>>
        BY <1>4 DEF UploadStep, RejectUpload, UploadCrash, SaveUpload, PublishUpload,
                    UndoFile, storageVars
    <2> QED BY <1>1, <2>1, FeedTerms
<1> QED BY <1>2, <1>3, <1>4

LEMMA FeedJanitor ==
    ASSUME TypeOK, RowlessHasNone, Janitor
    PROVE  [Feed!Next]_(Feed!vars)
<1> PICK s \in Sweepers : SweepStep(s) \/ SweepCrash(s)
    BY DEF Janitor, JanitorNext
<1>1. UNCHANGED announced
    BY DEF Janitor, workerVars
<1>2. CASE PruneRow(s)
    <2>1. Head(todo[s]) \in Jobs
        BY <1>2, HeadTailProperties DEF PruneRow, TypeOK, JanitorTypeOK
    <2>2. UNCHANGED Feed!vars \/ Feed!Remove(Head(todo[s]))
        BY <1>1, <1>2, <2>1, FeedDelete DEF PruneRow
    <2> QED BY <2>1, <2>2 DEF Feed!Next, Feed!JobStep
<1>3. CASE ~PruneRow(s)
    <2>1. UNCHANGED <<row, artRows>>
        BY <1>3 DEF SweepStep, SweepCrash, ListExpired, FetchArtifacts, PruneFiles,
                    storageVars
    <2> QED BY <1>1, <2>1, FeedTerms
<1> QED BY <1>2, <1>3

\* The handlers: each write is the step of the feed that the row allows.
LEMMA FeedHandler ==
    ASSUME FeedInv, NEW w \in Workers, HandlerStep(w)
    PROVE  [Feed!Next]_(Feed!vars)
<1> DEFINE j == job[w]
<1> USE DEF FeedInv
<1>0. at[w] # "idle" => j \in Jobs
    BY DEF TypeOK, WorkerTypeOK
<1>1. ASSUME NEW s \in Statuses, NEW ok, j \in Jobs, UpdateJobStatus(j, s, ok),
             UNCHANGED <<artRows, announced>>,
             row[j] = "pending" \/ Claimed(w)
      PROVE  \/ UNCHANGED Feed!vars
             \/ CanTransitionTo(row[j], s) /\ Feed!Move(j, row[j], s)
    <2>1. j \notin {m[1] : m \in announced}
        BY <1>1, NotAnnounced
    <2> QED BY <1>1, <2>1, FeedTerms DEF UpdateJobStatus, Feed!Move
<1>2. Claimed(w) => row[j] \in Expected(at[w])
    BY DEF ClaimInv, RowAgrees
<1>3. CASE ClaimJob(w)
    <2>1. j \in Jobs /\ UNCHANGED <<artRows, announced>>
        BY <1>0, <1>3 DEF ClaimJob
    <2>2. PICK ok \in BOOLEAN : UpdateJobStatus(j, "processing", ok)
        BY <1>3 DEF ClaimJob
    <2>3. CASE row[j] = "pending"
        BY <1>1, <2>1, <2>2, <2>3, PlaceFacts DEF CanTransitionTo, Feed!Next, Feed!JobStep
    <2>4. CASE row[j] # "pending"
        <3>1. UNCHANGED row
            BY <2>2, <2>4 DEF UpdateJobStatus, CanTransitionTo
        <3> QED BY <2>1, <3>1, FeedTerms
    <2> QED BY <2>3, <2>4
<1>4. CASE PersistArtifact(w)
    <2>1. /\ at[w] = "persist" /\ j \in Jobs /\ UNCHANGED <<row, announced>>
          /\ \E ok \in BOOLEAN : AddArtifact(j, Artifact(w), ok)
        BY <1>0, <1>4 DEF PersistArtifact
    <2>2. CASE UNCHANGED artRows
        BY <2>1, <2>2, FeedTerms
    <2>3. CASE HasRow(j) /\ artRows' = [artRows EXCEPT ![j] = @ \cup {Artifact(w)}]
        <3>1. row[j] = "processing"
            BY <1>2, <2>1, <2>3, PlaceFacts, ExpectedRows
               DEF Claimed, HasRow, Statuses, Deleted
        <3>2. Artifact(w) \in 1 .. OutputCount(j)
            BY <2>1 DEF TypeOK, WorkerTypeOK, Artifact, Outputs
        <3>3. CASE Artifact(w) \in artRows[j]
            <4>1. UNCHANGED artRows
                BY <2>1, <2>3, <3>3 DEF TypeOK, StorageTypeOK
            <4> QED BY <2>1, <4>1, FeedTerms
        <3>4. CASE Artifact(w) \notin artRows[j]
            <4>1. j \notin {m[1] : m \in announced}
                BY <2>1, NotAnnounced DEF Claimed, Owning
            <4>2. Feed!Record(j)
                BY <2>1, <2>3, <3>1, <3>2, <3>4, <4>1, FeedTerms DEF Feed!Record
            <4> QED BY <2>1, <4>2 DEF Feed!Next, Feed!JobStep
        <3> QED BY <3>3, <3>4
    <2> QED BY <2>1, <2>2, <2>3 DEF AddArtifact
<1>5. CASE CompleteJob(w)
    <2>1. at[w] = "complete" /\ j \in Jobs /\ UNCHANGED <<artRows, announced>>
        BY <1>0, <1>5 DEF CompleteJob
    <2>2. PICK ok \in BOOLEAN : UpdateJobStatus(j, "completed", ok)
        BY <1>5 DEF CompleteJob
    <2>3. UNCHANGED Feed!vars \/ (row[j] = "processing" /\ Feed!Move(j, row[j], "completed"))
        BY <1>1, <2>1, <2>2, PlaceFacts DEF CanTransitionTo, Claimed
    <2>4. row[j] = "processing" => "db" \in Faults \/ artRows[j] = 1 .. OutputCount(j)
        BY <2>1, PlaceFacts DEF ArtifactsCounted, Recorded, Outputs
    <2>5. UNCHANGED Feed!vars \/ Feed!Complete(j)
        BY <2>1, <2>3, <2>4, FeedTerms DEF Feed!Complete
    <2> QED BY <2>1, <2>5 DEF Feed!Next, Feed!JobStep
<1>6. CASE FailJob(w)
    <2>1. at[w] = "fail" /\ j \in Jobs /\ UNCHANGED <<artRows, announced>>
        BY <1>0, <1>6 DEF FailJob
    <2>2. PICK ok \in BOOLEAN : UpdateJobStatus(j, "failed", ok)
        BY <1>6 DEF FailJob
    <2>3. row[j] \in {"processing", Deleted}
        BY <1>2, <2>1, PlaceFacts, ExpectedRows DEF Claimed
    <2>4. UNCHANGED Feed!vars \/ Feed!Move(j, "processing", "failed")
        BY <1>1, <2>1, <2>2, <2>3, PlaceFacts DEF CanTransitionTo, Deleted, Claimed
    <2> QED BY <2>1, <2>4 DEF Feed!Next, Feed!JobStep
<1>7. CASE Announce(w)
    <2>1. at[w] \in Outcomes /\ j \in Jobs /\ UNCHANGED <<row, artRows>>
        BY <1>0, <1>7 DEF Announce, storageVars, Outcomes
    <2>2. CASE UNCHANGED announced
        BY <2>1, <2>2, FeedTerms
    <2>3. CASE announced' = announced \cup {<<j, at[w]>>}
        <3>1. \/ IsTerminal(row[j]) \/ row[j] = Deleted
              \/ "db" \in Faults /\ row[j] = "processing"
            BY <1>2, <2>1, PlaceFacts, ExpectedRows
               DEF Claimed, FailureIsWritten, IsTerminal, Outcomes
        <3>2. j \notin {m[1] : m \in announced}
            BY <2>1 DEF ClaimInv, NotYetAnnounced, Claimed
        <3>3. {m[1] : m \in announced'} = {m[1] : m \in announced} \cup {j}
            BY <2>3, FirstsOfMore
        <3> QED BY <2>1, <3>1, <3>2, <3>3, FeedTerms
                DEF Feed!Next, Feed!JobStep, Feed!Announce
    <2> QED BY <1>7, <2>2, <2>3 DEF Announce
<1>8. CASE FetchJob(w) \/ OpenSource(w) \/ SaveArtifact(w)
    <2>1. UNCHANGED <<row, artRows, announced>>
        BY <1>8 DEF FetchJob, OpenSource, SaveArtifact, storageVars
    <2> QED BY <2>1, FeedTerms
<1> QED BY <1>3, <1>4, <1>5, <1>6, <1>7, <1>8 DEF HandlerStep

LEMMA FeedStep ==
    ASSUME FeedInv, [Next]_vars
    PROVE  [Feed!Next]_(Feed!vars)
<1>1. CASE Gateway
    BY <1>1, FeedGateway DEF FeedInv
<1>2. CASE Janitor
    BY <1>2, FeedJanitor DEF FeedInv
<1>3. CASE Worker
    <2>1. ASSUME ~\E w \in Workers : HandlerStep(w)
          PROVE  UNCHANGED <<row, artRows, announced>>
        BY <1>3, <2>1
           DEF Worker, WorkerNext, DeliverToWorker, StopWorker, ExitWorker, WorkerCrash,
               Restart, DropMessage, storageVars, workerVars
    <2> QED BY <2>1, FeedHandler, FeedTerms
<1>4. CASE Tick \/ UNCHANGED vars
    BY <1>4, FeedTerms DEF Tick, vars, storageVars, workerVars
<1> QED BY <1>1, <1>2, <1>3, <1>4 DEF Next

\* Only an inserted job gains artifacts, and a removal takes them all.
LEMMA RowlessNext ==
    ASSUME TypeOK, RowlessHasNone, [Feed!Next]_(Feed!vars)
    PROVE  RowlessHasNone'
<1>0. /\ row \in [Jobs -> Statuses \cup {Absent, Deleted}]
      /\ artRows \in [Jobs -> SUBSET Nat]
    BY DEF TypeOK, StorageTypeOK
<1> USE FeedTerms DEF RowlessHasNone, HasRow
<1>1. CASE UNCHANGED Feed!vars
    BY <1>1 DEF Feed!vars
<1>2. ASSUME NEW i \in Jobs, NEW from, NEW to \in Statuses, Feed!Move(i, from, to),
             from = Absent \/ from \in Statuses
      PROVE  RowlessHasNone'
    BY <1>0, <1>2 DEF Feed!Move
<1>3. ASSUME NEW i \in Jobs, Feed!Record(i) PROVE RowlessHasNone'
    BY <1>0, <1>3, PlaceFacts DEF Feed!Record
<1>4. ASSUME NEW i \in Jobs, Feed!Remove(i) PROVE RowlessHasNone'
    BY <1>0, <1>4 DEF Feed!Remove
<1>5. ASSUME NEW i \in Jobs, Feed!Announce(i) PROVE RowlessHasNone'
    BY <1>5 DEF Feed!Announce
<1>6. NewJobStatus \in Statuses /\ "pending" \in Statuses
    BY DEF NewJobStatus, Statuses
<1> QED BY <1>1, <1>2, <1>3, <1>4, <1>5, <1>6, PlaceFacts
        DEF Feed!Next, Feed!JobStep, Feed!Complete

\* FailJob writes "failed", or the row is gone; neither is ever undone.
LEMMA FailureNext ==
    ASSUME "db" \notin Faults, TypeOK, RowFollowsUpload, ClaimInv, FailureIsWritten,
           [Next]_vars
    PROVE  FailureIsWritten'
<1> SUFFICES ASSUME NEW w \in Workers, at'[w] = "failed"
             PROVE  row'[job'[w]] \in {"failed", Deleted}
    BY DEF FailureIsWritten
<1>0. /\ at \in [Workers -> Places]
      /\ job \in [Workers -> Jobs \cup {NoJob}]
      /\ row \in [Jobs -> Statuses \cup {Absent, Deleted}]
    BY DEF TypeOK, WorkerTypeOK, StorageTypeOK
<1>1. CASE at'[w] = at[w] /\ job'[w] = job[w]
    <2>1. job[w] \in Jobs /\ row[job[w]] \in {"failed", Deleted}
        BY <1>1 DEF FailureIsWritten, TypeOK, WorkerTypeOK
    <2>2. ASSUME NEW i \in Jobs, NEW s \in Statuses, Lifecycle!Advance(i, s)
          PROVE  row'[job[w]] \in {"failed", Deleted}
        BY <1>0, <2>1, <2>2, SameStatuses DEF Lifecycle!Advance, CanTransitionTo, Deleted
    <2>3. ASSUME NEW i \in Jobs, Lifecycle!Insert(i) \/ Lifecycle!Remove(i)
          PROVE  row'[job[w]] \in {"failed", Deleted}
        BY <1>0, <2>1, <2>3, SameStatuses
           DEF Lifecycle!Insert, Lifecycle!Remove, Deleted, Absent
    <2> QED BY <1>1, <2>1, <2>2, <2>3, LifecycleStep, SameStatuses DEF Lifecycle!Next
<1>2. CASE ~(at'[w] = at[w] /\ job'[w] = job[w])
    <2>1. HandlerStep(w)
        BY <1>0, <1>2, HandlerMoves DEF Restart, Return, Handle
    <2>2. FailJob(w)
        BY <1>0, <2>1
           DEF HandlerStep, FetchJob, ClaimJob, OpenSource, SaveArtifact, PersistArtifact,
               CompleteJob, Announce, GoOn, Go, Return, Handle
    <2>3. /\ at[w] = "fail" /\ job'[w] = job[w] /\ job[w] \in Jobs
          /\ \E ok \in BOOLEAN : UpdateJobStatus(job[w], "failed", ok)
        BY <1>0, <2>2 DEF FailJob, Go, Handle, TypeOK, WorkerTypeOK
    <2>4. row[job[w]] \in {"processing", Deleted}
        BY <2>3, PlaceFacts, ExpectedRows DEF ClaimInv, RowAgrees, Claimed
    <2> QED BY <1>0, <2>3, <2>4 DEF UpdateJobStatus, CanTransitionTo, Failed
<1> QED BY <1>1, <1>2

\* Whatever fails, whoever follows a job may rely on JobFeed: its status moves
\* forward, its artifacts are recorded while it is processed and only its removal
\* takes them away, and its outcome is published once, with nothing but its removal
\* to come; if no statement fails, it is completed with all its artifacts, and its
\* outcome was written before it is published.
THEOREM ImplementsFeed == Safety => FeedSpec
<1>1. Init => Feed!Init
    BY FeedTerms DEF Init, StorageInit, WorkerInit, Feed!Init
<1>2. Init => /\ RowlessHasNone
              /\ ArtifactsCounted /\ CompletedIsComplete /\ FailureIsWritten
    BY DEF Init, StorageInit, WorkerInit, ArtifactsCounted, CompletedIsComplete, Absent,
           Owning, RowlessHasNone, FailureIsWritten
<1> DEFINE Written == "db" \notin Faults =>
                          ArtifactsCounted /\ CompletedIsComplete /\ FailureIsWritten
<1>3. TypeOK /\ RowFollowsUpload /\ ClaimInv /\ Written /\ [Next]_vars => Written'
    BY CountNext, FailureNext
<1>4. /\ TypeOK /\ RowFollowsUpload /\ ClaimInv /\ Written /\ RowlessHasNone
      /\ [Next]_vars
      => RowlessHasNone' /\ [Feed!Next]_(Feed!vars)
    BY FeedStep, RowlessNext DEF FeedInv
<1>5. Init => Written
    BY <1>2
<1> HIDE DEF Written
<1> QED BY <1>1, <1>2, <1>3, <1>4, <1>5, Invariance, PTL DEF Safety, FeedSpec, Feed!Spec

-----------------------------------------------------------------------------
(* Queued *)

\* An event stays on the bus until a worker fetches it.
LEMMA EventStays ==
    ASSUME Faults \cap {"drop", "crash", "stop"} = {}, TypeOK, AllRun, [Next]_vars,
           NEW j \in Jobs, InBus(j)
    PROVE  \/ InBus(j)'
           \/ \E w \in Workers : FetchJob(w) /\ Head(pending[w]) = j
<1>0. pending \in [Workers -> Seq(Jobs)] /\ inTransit \subseteq Groups \X Jobs
    BY DEF TypeOK, BusTypeOK
<1>1. Groups' = Groups
    BY DEF Groups
<1>2. CASE UNCHANGED <<inTransit, pending>>
    BY <1>1, <1>2 DEF InBus
<1>3. ASSUME NEW i \in Jobs, Publish(i), UNCHANGED pending PROVE InBus(j)'
    BY <1>1, <1>3 DEF InBus, Publish
<1>4. ASSUME NEW v \in Workers, NEW i \in Jobs, Deliver(v, i) PROVE InBus(j)'
    <2>1. /\ inTransit' = inTransit \ {<<QueueGroup[v], i>>}
          /\ pending' = [pending EXCEPT ![v] = Append(@, i)]
        BY <1>4 DEF Deliver
    <2>2. CASE \E g \in Groups : <<g, j>> \in inTransit
        <3>1. PICK g \in Groups : <<g, j>> \in inTransit
            BY <2>2
        <3>2. CASE i = j
            <4>1. /\ pending[v] \in Seq(Jobs)
                  /\ pending'[v] = Append(pending[v], j)
                BY <1>0, <2>1, <3>2
            <4>2. /\ Len(pending[v]) + 1 \in DOMAIN pending'[v]
                  /\ pending'[v][Len(pending[v]) + 1] = j
                BY <4>1
            <4> QED BY <4>2 DEF InBus
        <3>3. CASE i # j
            <4>1. <<g, j>> \in inTransit'
                BY <2>1, <3>1, <3>3
            <4> QED BY <1>1, <4>1 DEF InBus
        <3> QED BY <3>2, <3>3
    <2>3. ASSUME NEW w \in Workers, NEW n \in DOMAIN pending[w], pending[w][n] = j
          PROVE  InBus(j)'
        <3>1. pending[w] \in Seq(Jobs) /\ pending'[w] \in {pending[w], Append(pending[w], i)}
            BY <1>0, <2>1
        <3>2. n \in DOMAIN pending'[w] /\ pending'[w][n] = j
            BY <2>3, <3>1
        <3> QED BY <3>2 DEF InBus
    <2> QED BY <2>2, <2>3 DEF InBus
<1>5. ASSUME NEW v \in Workers, FetchJob(v), Head(pending[v]) # j PROVE InBus(j)'
    <2>1. /\ pending[v] \in Seq(Jobs) /\ pending[v] # <<>> /\ UNCHANGED inTransit
          /\ pending' = [pending EXCEPT ![v] = Tail(@)]
        BY <1>0, <1>5 DEF FetchJob
    <2>2. CASE \E g \in Groups : <<g, j>> \in inTransit
        BY <1>1, <2>1, <2>2 DEF InBus
    <2>3. ASSUME NEW w \in Workers, NEW n \in DOMAIN pending[w], pending[w][n] = j
          PROVE  InBus(j)'
        <3>1. CASE w = v
            <4>1. pending'[w] = Tail(pending[v])
                BY <1>0, <2>1, <3>1
            <4>2. n # 1
                BY <1>5, <2>1, <2>3, <3>1
            <4>3. n - 1 \in DOMAIN Tail(pending[v]) /\ Tail(pending[v])[n - 1] = j
                BY <2>1, <2>3, <3>1, <4>2
            <4> QED BY <4>1, <4>3 DEF InBus
        <3>2. CASE w # v
            <4>1. pending'[w] = pending[w]
                BY <1>0, <2>1, <3>2
            <4> QED BY <2>3, <4>1 DEF InBus
        <3> QED BY <3>1, <3>2
    <2> QED BY <2>2, <2>3 DEF InBus
<1>6. ~DropMessage
    BY DEF DropMessage, Drop, Groups, AllRun
<1>7. CASE Gateway
    <2>1. \/ UNCHANGED <<inTransit, pending>>
          \/ \E i \in Jobs : Publish(i) /\ UNCHANGED pending
        BY <1>7
           DEF Gateway, UploadNext, RejectUpload, UploadStep, UploadCrash, SaveUpload,
               RegisterUpload, PublishUpload, UndoRow, UndoFile, busVars
    <2> QED BY <1>2, <1>3, <2>1
<1>8. CASE Worker
    <2>1. \/ UNCHANGED <<inTransit, pending>>
          \/ \E w \in Workers : FetchJob(w)
          \/ \E w \in Workers, i \in Jobs : Deliver(w, i)
        BY <1>6, <1>8
           DEF Worker, WorkerNext, HandlerStep, ClaimJob, OpenSource, SaveArtifact,
               PersistArtifact, CompleteJob, FailJob, Announce, DeliverToWorker,
               StopWorker, ExitWorker, WorkerCrash, AllRun, busVars
    <2> QED BY <1>2, <1>4, <1>5, <2>1
<1>9. CASE Janitor \/ Tick \/ UNCHANGED vars
    BY <1>2, <1>9 DEF Janitor, Tick, vars, busVars
<1> QED BY <1>7, <1>8, <1>9 DEF Next

\* A worker about to claim a pending job does so.
LEMMA ClaimFollows ==
    ASSUME Faults \cap {"db", "crash", "stop"} = {}, TypeOK, AllRun, [Next]_vars,
           NEW j \in Jobs, NEW w \in Workers, at[w] = "claim", job[w] = j,
           row[j] = "pending", row'[j] = "pending"
    PROVE  at'[w] = "claim" /\ job'[w] = j
<1>1. CASE HandlerStep(w)
    <2>1. ClaimJob(w)
        BY <1>1
           DEF HandlerStep, FetchJob, OpenSource, SaveArtifact, PersistArtifact,
               CompleteJob, FailJob, Announce, Outcomes
    <2>2. PICK ok \in BOOLEAN : UpdateJobStatus(j, "processing", ok)
        BY <2>1 DEF ClaimJob
    <2> QED BY <2>2 DEF UpdateJobStatus, CanTransitionTo, Failed, TypeOK, StorageTypeOK
<1>2. CASE ~HandlerStep(w)
    BY <1>2, HandlerMoves DEF AllRun
<1> QED BY <1>1, <1>2

\* If there are workers, the database answers, NATS loses nothing and no worker
\* dies or is stopped, an accepted job that is pending is on its way to one.
THEOREM PendingGetsQueued ==
  ASSUME Workers # {}, Faults \cap {"db", "drop", "crash", "stop"} = {}
  PROVE  Safety => []PendingIsQueued
<1>1. Init => PendingIsQueued
    BY DEF Init, UploadInit, PendingIsQueued
<1>2. TypeOK /\ RowFollowsUpload /\ AllRun /\ PendingIsQueued /\ [Next]_vars
          => PendingIsQueued'
    <2> SUFFICES ASSUME TypeOK, RowFollowsUpload, AllRun, PendingIsQueued, [Next]_vars,
                        NEW j \in Jobs, up'[j] = "accepted", row'[j] = "pending"
                 PROVE  \/ InBus(j)'
                        \/ \E w \in Workers : at'[w] = "claim" /\ job'[w] = j
        BY DEF PendingIsQueued, InBus, Groups
    <2>0. /\ at \in [Workers -> Places] /\ job \in [Workers -> Jobs \cup {NoJob}]
          /\ up \in [Jobs -> UploadStates]
        BY DEF TypeOK, WorkerTypeOK, UploadTypeOK
    <2>1. CASE up[j] = "accepted"
        <3>1. row[j] = "pending"
            <4>1. ~RegisterUpload(j)
                BY <2>1 DEF RegisterUpload
            <4> QED BY <4>1, RowMoves DEF Deleted
        <3>2. ASSUME NEW w \in Workers, at[w] = "claim", job[w] = j
              PROVE  at'[w] = "claim" /\ job'[w] = j
            BY <3>1, <3>2, ClaimFollows
        <3>3. ASSUME NEW w \in Workers, FetchJob(w), Head(pending[w]) = j
              PROVE  at'[w] = "claim" /\ job'[w] = j
            BY <2>0, <3>1, <3>3 DEF FetchJob, Handle, HasRow, Statuses
        <3>4. CASE InBus(j)
            BY <3>3, <3>4, EventStays
        <3> QED BY <2>1, <3>1, <3>2, <3>4 DEF PendingIsQueued
    <2>2. CASE up[j] # "accepted"
        <3>1. Gateway
            BY <2>2 DEF Next, Worker, Janitor, Tick, vars
        <3>2. PICK i \in Jobs : RejectUpload(i) \/ UploadStep(i) \/ UploadCrash(i)
            BY <3>1 DEF Gateway, UploadNext
        <3>3. PublishUpload(i)
            BY <2>0, <2>2, <3>2
               DEF RejectUpload, UploadStep, UploadCrash, SaveUpload, RegisterUpload,
                   UndoRow, UndoFile, Goto
        <3>4. i = j /\ Publish(j)
            BY <2>0, <2>2, <3>3 DEF PublishUpload, Goto
        <3>5. PICK w \in Workers : TRUE
            OBVIOUS
        <3>6. QueueGroup[w] \in Groups /\ <<QueueGroup[w], j>> \in inTransit'
            BY <3>4, <3>5 DEF Publish, Groups
        <3> QED BY <3>6 DEF InBus, Groups
    <2> QED BY <2>1, <2>2
<1>3. TypeOK /\ AllRun /\ [Next]_vars => AllRun'
    BY AllRunNext
<1> QED BY <1>1, <1>2, <1>3, AllRunInit, TypeInit, TypeNext, RowFollowsUploadInit,
           RowFollowsUploadNext, PTL DEF Safety

-----------------------------------------------------------------------------
(* Undone *)

\* What a rollback has undone, stage by stage.
Undone ==
    \A j \in Jobs :
        /\ up[j] = "idle" => Source(j) \notin files
        /\ up[j] \in {"undoFile", "rejected"} => ~HasRow(j)
        /\ up[j] = "rejected" => Source(j) \notin files

\* The uploads are written by SaveUpload only.
LEMMA SourceMade ==
    ASSUME TypeOK, [Next]_vars, NEW j \in Jobs, Source(j) \in files', Source(j) \notin files
    PROVE  SaveUpload(j)
<1>1. CASE Gateway
    <2>1. PICK i \in Jobs : RejectUpload(i) \/ UploadStep(i) \/ UploadCrash(i)
        BY <1>1 DEF Gateway, UploadNext
    <2>2. SaveUpload(i)
        BY <2>1
           DEF RejectUpload, UploadStep, UploadCrash, RegisterUpload, PublishUpload,
               UndoRow, UndoFile, DeleteFile, storageVars
    <2>3. i = j
        BY <2>2 DEF SaveUpload, SaveFile, Source
    <2> QED BY <2>2, <2>3
<1>2. CASE Worker
    <2>1. PICK w \in Workers : SaveArtifact(w)
        BY <1>2
           DEF Worker, WorkerNext, HandlerStep, FetchJob, ClaimJob, OpenSource,
               PersistArtifact, CompleteJob, FailJob, Announce, DeliverToWorker,
               StopWorker, ExitWorker, WorkerCrash, Restart, DropMessage, storageVars
    <2>2. <<j, 0>> = <<job[w], Artifact(w)>>
        BY <2>1 DEF SaveArtifact, SaveFile, Source
    <2>3. count[w] \in Nat
        BY DEF TypeOK, WorkerTypeOK
    <2> QED BY <2>2, <2>3 DEF Artifact
<1>3. CASE Janitor
    BY <1>3
       DEF Janitor, JanitorNext, SweepStep, SweepCrash, ListExpired, FetchArtifacts,
           PruneFiles, PruneRow, storageVars
<1>4. CASE Tick \/ UNCHANGED vars
    BY <1>4 DEF Tick, vars, storageVars
<1> QED BY <1>1, <1>2, <1>3, <1>4 DEF Next

LEMMA UndoneNext ==
    ASSUME Faults \cap {"db", "ack", "fs"} = {}, TypeOK, RowFollowsUpload, Undone,
           [Next]_vars
    PROVE  Undone'
<1> SUFFICES ASSUME NEW j \in Jobs
             PROVE  /\ up'[j] = "idle" => Source(j) \notin files'
                    /\ up'[j] \in {"undoFile", "rejected"} => ~HasRow(j)'
                    /\ up'[j] = "rejected" => Source(j) \notin files'
    BY DEF Undone, Source
<1>0. /\ up \in [Jobs -> UploadStates]
      /\ row \in [Jobs -> Statuses \cup {Absent, Deleted}]
    BY DEF TypeOK, UploadTypeOK, StorageTypeOK
<1>1. CASE up'[j] = up[j]
    <2>1. ~RegisterUpload(j) /\ ~SaveUpload(j)
        BY <1>0, <1>1 DEF RegisterUpload, SaveUpload, Goto
    <2>2. HasRow(j)' => HasRow(j)
        <3>1. ASSUME NEW w \in Workers, job[w] = j,
                     ClaimJob(w) \/ CompleteJob(w) \/ FailJob(w), row'[j] # row[j]
              PROVE  HasRow(j)
            <4>1. PICK s \in Statuses, ok \in BOOLEAN : UpdateJobStatus(j, s, ok)
                BY <3>1, PlaceFacts DEF ClaimJob, CompleteJob, FailJob
            <4>2. CanTransitionTo(row[j], s)
                BY <3>1, <4>1, UpdateMoves
            <4> QED BY <4>2 DEF CanTransitionTo, HasRow, Statuses
        <3>2. CASE row'[j] = row[j]
            BY <3>2 DEF HasRow
        <3>3. CASE row'[j] # row[j]
            BY <2>1, <3>1, <3>3, RowMoves DEF HasRow, Statuses, Deleted
        <3> QED BY <3>2, <3>3
    <2>3. Source(j) \in files' => Source(j) \in files
        BY <2>1, SourceMade
    <2> QED BY <1>1, <2>2, <2>3 DEF Undone
<1>2. CASE up'[j] # up[j]
    <2>1. Gateway
        BY <1>2 DEF Next, Worker, Janitor, Tick, vars
    <2>2. PICK i \in Jobs : RejectUpload(i) \/ UploadStep(i) \/ UploadCrash(i)
        BY <2>1 DEF Gateway, UploadNext
    <2>3. \E pc : Goto(i, pc)
        BY <2>2 DEF RejectUpload, UploadStep, UploadCrash, SaveUpload, RegisterUpload,
                    PublishUpload, UndoRow, UndoFile
    <2>4. i = j
        BY <1>0, <1>2, <2>3 DEF Goto
    <2>5. CASE RejectUpload(j)
        BY <1>0, <2>5 DEF RejectUpload, Goto, Undone, RowFollowsUpload, HasRow, Statuses,
                         Absent, storageVars
    <2>6. CASE SaveUpload(j)
        BY <1>0, <2>6 DEF SaveUpload, SaveFile, Goto
    <2>7. CASE RegisterUpload(j)
        BY <1>0, <2>7 DEF RegisterUpload, CreateJob, Applied, Failed, Goto
    <2>8. CASE PublishUpload(j) \/ UploadCrash(j)
        BY <1>0, <2>8 DEF PublishUpload, UploadCrash, Goto
    <2>9. CASE UndoRow(j)
        <3>1. up'[j] = "undoFile"
            BY <1>0, <2>9 DEF UndoRow, Goto
        <3>2. row'[j] \notin Statuses
            BY <1>0, <2>9 DEF UndoRow, DeleteJob, Failed, HasRow, Statuses, Deleted
        <3> QED BY <3>1, <3>2 DEF HasRow
    <2>10. CASE UndoFile(j)
        BY <1>0, <2>10 DEF UndoFile, DeleteFile, Goto, Undone, HasRow
    <2> QED BY <2>2, <2>4, <2>5, <2>6, <2>7, <2>8, <2>9, <2>10 DEF UploadStep
<1> QED BY <1>1, <1>2

\* If database and volume answer, an upload that was refused leaves neither row
\* nor file, also if NATS refused its event and workers and sweeps go on.
THEOREM RejectionsLeaveNothing ==
  ASSUME Faults \cap {"db", "ack", "fs"} = {}
  PROVE  Safety => []RejectedLeavesNothing
<1>1. Init => Undone
    BY DEF Init, StorageInit, UploadInit, Undone
<1>2. TypeOK /\ RowFollowsUpload /\ Undone /\ [Next]_vars => Undone'
    BY UndoneNext
<1>3. Undone => RejectedLeavesNothing
    BY DEF Undone, RejectedLeavesNothing
<1> QED BY <1>1, <1>2, <1>3, TypeInit, TypeNext, RowFollowsUploadInit,
           RowFollowsUploadNext, PTL DEF Safety
=============================================================================
