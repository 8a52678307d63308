--------------------------- MODULE MediaEngineProofs ---------------------------
(***************************************************************************)
(* What holds of MediaEngine for any number of jobs, workers, queue groups *)
(* and sweepers, and whatever fails.                                       *)
(***************************************************************************)
EXTENDS MediaEngine, FiniteSetTheorems, SequenceTheorems, TLAPS

-----------------------------------------------------------------------------
(* The calls of the ports *)

LEMMA OutputCountType == ASSUME NEW j \in Jobs PROVE OutputCount(j) \in Nat
BY DEF OutputCount

LEMMA SourceIsFile == ASSUME NEW j \in Jobs PROVE Source(j) \in AllFiles
BY DEF AllFiles, FilesOf, Source

LEMMA OutputIsFile ==
    ASSUME NEW j \in Jobs, NEW k \in Outputs(j)
    PROVE  <<j, k>> \in AllFiles
<1>1. <<j, k>> \in FilesOf(j)
    BY DEF FilesOf
<1> QED BY <1>1 DEF AllFiles

\* What a statement of the repository or a call of the file store may do to
\* the type of what it writes.
LEMMA SaveFileType ==
    ASSUME files \subseteq AllFiles, NEW f \in AllFiles, NEW ok, SaveFile(f, ok)
    PROVE  files' \subseteq AllFiles
BY DEF SaveFile

LEMMA DeleteFileType ==
    ASSUME files \subseteq AllFiles, NEW f, NEW ok, DeleteFile(f, ok)
    PROVE  files' \subseteq AllFiles
BY DEF DeleteFile

LEMMA CreateJobType ==
    ASSUME StorageTypeOK, NEW j \in Jobs, NEW ok, CreateJob(j, ok)
    PROVE  /\ row' \in [Jobs -> Statuses \cup {Absent, Deleted}]
           /\ expiresAt' \in [Jobs -> Nat]
BY StorageAssumption DEF StorageTypeOK, CreateJob, NewJobStatus, Statuses

LEMMA UpdateJobStatusType ==
    ASSUME StorageTypeOK, NEW j \in Jobs, NEW s \in Statuses, NEW ok,
           UpdateJobStatus(j, s, ok)
    PROVE  row' \in [Jobs -> Statuses \cup {Absent, Deleted}]
BY DEF StorageTypeOK, UpdateJobStatus

LEMMA AddArtifactType ==
    ASSUME StorageTypeOK, NEW j \in Jobs, NEW k \in Nat, NEW ok,
           AddArtifact(j, k, ok)
    PROVE  artRows' \in [Jobs -> SUBSET Nat]
BY DEF StorageTypeOK, AddArtifact

LEMMA DeleteJobType ==
    ASSUME StorageTypeOK, NEW j \in Jobs, NEW ok, DeleteJob(j, ok)
    PROVE  /\ row' \in [Jobs -> Statuses \cup {Absent, Deleted}]
           /\ artRows' \in [Jobs -> SUBSET Nat]
BY DEF StorageTypeOK, DeleteJob

-----------------------------------------------------------------------------
LEMMA TypeInit == Init => TypeOK
<1> SUFFICES ASSUME Init PROVE TypeOK
    OBVIOUS
<1> USE DEF Init
<1>1. StorageTypeOK
    BY DEF StorageInit, StorageTypeOK, Statuses
<1>2. BusTypeOK(Jobs)
    BY DEF BusInit, BusTypeOK
<1>3. UploadTypeOK
    BY DEF UploadInit, UploadTypeOK, UploadStates
<1>4. WorkerTypeOK
    BY DEF WorkerInit, WorkerTypeOK, Places
<1>5. JanitorTypeOK
    BY DEF JanitorInit, JanitorTypeOK
<1> QED BY <1>1, <1>2, <1>3, <1>4, <1>5 DEF TypeOK

LEMMA GatewayType == TypeOK /\ Gateway => TypeOK'
<1> SUFFICES ASSUME TypeOK, Gateway PROVE TypeOK'
    OBVIOUS
<1>0. UNCHANGED <<workerVars, janitorVars>> /\ WorkerTypeOK' /\ JanitorTypeOK'
    BY DEF Gateway, TypeOK, WorkerTypeOK, JanitorTypeOK, workerVars, janitorVars
<1> SUFFICES ASSUME NEW j \in Jobs,
                    RejectUpload(j) \/ UploadStep(j) \/ UploadCrash(j)
             PROVE  StorageTypeOK' /\ BusTypeOK(Jobs)' /\ UploadTypeOK'
    BY <1>0 DEF Gateway, UploadNext, TypeOK
<1> USE DEF TypeOK, BusTypeOK, UploadTypeOK, UploadStates, Goto, storageVars, busVars
<1>1. CASE RejectUpload(j) \/ UploadCrash(j)
    BY <1>1 DEF RejectUpload, UploadCrash, StorageTypeOK
<1>2. CASE SaveUpload(j)
    <2>1. files' \subseteq AllFiles
        BY <1>2, SourceIsFile, SaveFileType DEF SaveUpload, StorageTypeOK
    <2> QED BY <1>2, <2>1 DEF SaveUpload, StorageTypeOK
<1>3. CASE RegisterUpload(j)
    BY <1>3, CreateJobType DEF RegisterUpload, StorageTypeOK
<1>4. CASE PublishUpload(j)
    BY <1>4 DEF PublishUpload, Publish, StorageTypeOK
<1>5. CASE UndoRow(j)
    BY <1>5, DeleteJobType DEF UndoRow, StorageTypeOK
<1>6. CASE UndoFile(j)
    BY <1>6, DeleteFileType DEF UndoFile, StorageTypeOK
<1> QED BY <1>1, <1>2, <1>3, <1>4, <1>5, <1>6 DEF UploadStep

\* The handler moves on without touching anything but its own place.
LEMMA HandleType ==
    ASSUME WorkerTypeOK, NEW w \in Workers, NEW place \in Places,
           NEW j \in Jobs \cup {NoJob}, NEW n \in Nat,
           place = "idle" <=> j = NoJob,
           place \in {"save", "persist"} => n + 1 \in Outputs(j),
           Handle(w, place, j, n)
    PROVE  /\ at' \in [Workers -> Places]
           /\ job' \in [Workers -> Jobs \cup {NoJob}]
           /\ count' \in [Workers -> Nat]
           /\ \A v \in Workers :
                 /\ at'[v] = "idle" <=> job'[v] = NoJob
                 /\ at'[v] \in {"save", "persist"} =>
                        count'[v] + 1 \in Outputs(job'[v])
BY DEF WorkerTypeOK, Handle

LEMMA GoType ==
    ASSUME WorkerTypeOK, NEW w \in Workers, at[w] # "idle",
           NEW place \in Places \ {"idle"},
           place \in {"save", "persist"} => OutputCount(job[w]) > 0,
           Go(w, place), UNCHANGED <<stopping, announced>>
    PROVE  WorkerTypeOK'
<1>1. job[w] \in Jobs
    BY DEF WorkerTypeOK
<1>2. place \in {"save", "persist"} => 0 + 1 \in Outputs(job[w])
    BY <1>1, OutputCountType DEF Outputs
<1> QED BY <1>1, <1>2, HandleType, WorkerAssumption DEF Go, WorkerTypeOK

LEMMA GoOnType ==
    ASSUME WorkerTypeOK, NEW w \in Workers, at[w] # "idle",
           NEW stage \in Places \ {"idle"}, NEW next \in Places \ {"idle"},
           next = "persist" => OutputCount(job[w]) > 0,  next # "save",
           GoOn(w, stage, next), UNCHANGED <<stopping, announced>>
    PROVE  WorkerTypeOK'
<1>1. job[w] \in Jobs /\ count[w] \in Nat
    BY DEF WorkerTypeOK
<1>2. CASE count[w] + 1 < OutputCount(job[w])
    <2>1. (count[w] + 1) + 1 \in Outputs(job[w])
        BY <1>1, <1>2, OutputCountType DEF Outputs
    <2>2. Handle(w, stage, job[w], count[w] + 1)
        BY <1>2 DEF GoOn
    <2> QED BY <1>1, <2>1, <2>2, HandleType, WorkerAssumption DEF WorkerTypeOK
<1>3. CASE ~(count[w] + 1 < OutputCount(job[w]))
    BY <1>3, GoType DEF GoOn
<1> QED BY <1>2, <1>3

LEMMA ReturnType ==
    ASSUME WorkerTypeOK, NEW w \in Workers, Return(w)
    PROVE  /\ at' \in [Workers -> Places]
           /\ job' \in [Workers -> Jobs \cup {NoJob}]
           /\ count' \in [Workers -> Nat]
           /\ \A v \in Workers :
                 /\ at'[v] = "idle" <=> job'[v] = NoJob
                 /\ at'[v] \in {"save", "persist"} =>
                        count'[v] + 1 \in Outputs(job'[v])
BY HandleType DEF Return, Places

LEMMA HandlerType ==
    ASSUME TypeOK, NEW w \in Workers, HandlerStep(w)
    PROVE  StorageTypeOK' /\ BusTypeOK(Jobs)' /\ WorkerTypeOK'
<1> USE DEF TypeOK
<1>0. /\ at[w] # "idle" => job[w] \in Jobs
      /\ count[w] \in Nat
    BY DEF WorkerTypeOK
<1>1. CASE FetchJob(w)
    <2>1. UNCHANGED <<storageVars, inTransit, subscribed, stopping, announced>>
        BY <1>1 DEF FetchJob
    <2>2. Head(pending[w]) \in Jobs /\ Tail(pending[w]) \in Seq(Jobs)
        BY <1>1, HeadTailProperties DEF FetchJob, BusTypeOK
    <2>3. BusTypeOK(Jobs)'
        BY <1>1, <2>2 DEF FetchJob, BusTypeOK, Groups
    <2>4. ASSUME Return(w) PROVE WorkerTypeOK'
        BY <2>1, <2>4, ReturnType DEF WorkerTypeOK
    <2>5. ASSUME Handle(w, "claim", Head(pending[w]), 0) PROVE WorkerTypeOK'
        BY <2>1, <2>2, <2>5, HandleType, WorkerAssumption DEF WorkerTypeOK, Places
    <2>6. StorageTypeOK'
        BY <2>1 DEF StorageTypeOK, storageVars
    <2>7. WorkerTypeOK'
        BY <1>1, <2>4, <2>5 DEF FetchJob
    <2> QED BY <2>3, <2>6, <2>7
<1>2. CASE ClaimJob(w)
    <2>1. PICK ok \in BOOLEAN : /\ UpdateJobStatus(job[w], "processing", ok)
                               /\ IF ok THEN Go(w, "open") ELSE Return(w)
        BY <1>2 DEF ClaimJob
    <2>2. WorkerTypeOK'
        BY <1>2, <2>1, GoType, ReturnType DEF ClaimJob, WorkerTypeOK, Places, Owning
    <2>3. row' \in [Jobs -> Statuses \cup {Absent, Deleted}]
        BY <1>0, <1>2, <2>1, UpdateJobStatusType DEF ClaimJob, Statuses
    <2> QED BY <1>2, <2>2, <2>3 DEF ClaimJob, StorageTypeOK, BusTypeOK, busVars
<1>3. CASE OpenSource(w)
    <2>1. WorkerTypeOK'
        BY <1>3, GoType DEF OpenSource, Places, Owning
    <2> QED BY <1>3, <2>1 DEF OpenSource, StorageTypeOK, BusTypeOK, storageVars, busVars
<1>4. CASE SaveArtifact(w)
    <2>1. /\ job[w] \in Jobs
          /\ Artifact(w) \in Outputs(job[w])
          /\ OutputCount(job[w]) > 0
        BY <1>0, <1>4, OutputCountType DEF SaveArtifact, WorkerTypeOK, Artifact, Outputs
    <2>2. WorkerTypeOK'
        BY <1>4, <2>1, GoType, GoOnType DEF SaveArtifact, Places, Owning
    <2>3. files' \subseteq AllFiles
        BY <1>4, <2>1, SaveFileType, OutputIsFile DEF SaveArtifact, StorageTypeOK
    <2> QED BY <1>4, <2>2, <2>3 DEF SaveArtifact, StorageTypeOK, BusTypeOK, busVars
<1>5. CASE PersistArtifact(w)
    <2>1. WorkerTypeOK'
        BY <1>5, GoOnType DEF PersistArtifact, Places, Owning
    <2>2. artRows' \in [Jobs -> SUBSET Nat]
        BY <1>0, <1>5, AddArtifactType DEF PersistArtifact, Artifact
    <2> QED BY <1>5, <2>1, <2>2 DEF PersistArtifact, StorageTypeOK, BusTypeOK, busVars
<1>6. CASE CompleteJob(w)
    <2>1. PICK ok \in BOOLEAN : /\ UpdateJobStatus(job[w], "completed", ok)
                               /\ IF ok THEN Go(w, "completed") ELSE Return(w)
        BY <1>6 DEF CompleteJob
    <2>2. WorkerTypeOK'
        BY <1>6, <2>1, GoType, ReturnType
           DEF CompleteJob, WorkerTypeOK, Places, Outcomes
    <2>3. row' \in [Jobs -> Statuses \cup {Absent, Deleted}]
        BY <1>0, <1>6, <2>1, UpdateJobStatusType DEF CompleteJob, Statuses
    <2> QED BY <1>6, <2>2, <2>3 DEF CompleteJob, StorageTypeOK, BusTypeOK, busVars
<1>7. CASE FailJob(w)
    <2>1. WorkerTypeOK'
        BY <1>7, GoType DEF FailJob, Places, Outcomes
    <2>2. row' \in [Jobs -> Statuses \cup {Absent, Deleted}]
        BY <1>0, <1>7, UpdateJobStatusType DEF FailJob, Statuses
    <2> QED BY <1>7, <2>1, <2>2 DEF FailJob, StorageTypeOK, BusTypeOK, busVars
<1>8. CASE Announce(w)
    <2>1. announced' \subseteq Jobs \X Outcomes
        BY <1>0, <1>8 DEF Announce, WorkerTypeOK, Outcomes
    <2>2. WorkerTypeOK'
        BY <1>8, <2>1, ReturnType DEF Announce, WorkerTypeOK
    <2> QED BY <1>8, <2>2 DEF Announce, StorageTypeOK, BusTypeOK, storageVars, busVars
<1> QED BY <1>1, <1>2, <1>3, <1>4, <1>5, <1>6, <1>7, <1>8 DEF HandlerStep

LEMMA WorkerType == TypeOK /\ Worker => TypeOK'
<1> SUFFICES ASSUME TypeOK, Worker PROVE TypeOK'
    OBVIOUS
<1> USE DEF TypeOK
<1>0. UploadTypeOK' /\ JanitorTypeOK'
    BY DEF Worker, UploadTypeOK, JanitorTypeOK, janitorVars
<1>1. ASSUME NEW w \in Workers, HandlerStep(w)
      PROVE  StorageTypeOK' /\ BusTypeOK(Jobs)' /\ WorkerTypeOK'
    BY <1>1, HandlerType
<1>2. ASSUME NEW w \in Workers, DeliverToWorker(w)
      PROVE  StorageTypeOK' /\ BusTypeOK(Jobs)' /\ WorkerTypeOK'
    BY <1>2
       DEF DeliverToWorker, Deliver, StorageTypeOK, BusTypeOK, WorkerTypeOK,
           storageVars, workerVars
<1>3. ASSUME DropMessage
      PROVE  StorageTypeOK' /\ BusTypeOK(Jobs)' /\ WorkerTypeOK'
    BY <1>3
       DEF DropMessage, Drop, StorageTypeOK, BusTypeOK, WorkerTypeOK, storageVars,
           workerVars
<1>4. ASSUME NEW w \in Workers, StopWorker(w)
      PROVE  StorageTypeOK' /\ BusTypeOK(Jobs)' /\ WorkerTypeOK'
    BY <1>4
       DEF StopWorker, Unsubscribe, StorageTypeOK, BusTypeOK, WorkerTypeOK, storageVars
<1>5. ASSUME NEW w \in Workers, Restart(w)
      PROVE  StorageTypeOK' /\ BusTypeOK(Jobs)' /\ WorkerTypeOK'
    <2>1. WorkerTypeOK'
        BY <1>5, ReturnType DEF Restart, WorkerTypeOK
    <2> QED BY <1>5, <2>1 DEF Restart, Resubscribe, StorageTypeOK, BusTypeOK, storageVars
<1>6. StorageTypeOK' /\ BusTypeOK(Jobs)' /\ WorkerTypeOK'
    BY <1>1, <1>2, <1>3, <1>4, <1>5 DEF Worker, WorkerNext, ExitWorker, WorkerCrash
<1> QED BY <1>0, <1>6

\* ListExpiredJobs returns a non-empty list of the jobs it was asked about.
LEMMA SoonestProperties ==
    ASSUME NEW cand \in SUBSET Jobs, cand # {}, NEW limit \in Nat \ {0},
           NEW list \in Soonest(cand, limit)
    PROVE  /\ list \in Seq(cand)
           /\ list \in Seq(Jobs)
           /\ Len(list) \in Nat \ {0}
<1> DEFINE n == IF Cardinality(cand) < limit THEN Cardinality(cand) ELSE limit
<1>1. IsFiniteSet(cand)
    BY StorageAssumption, FS_Subset
<1>2. n \in Nat \ {0}
    BY <1>1, FS_CardinalityType, FS_EmptySet
<1>3. list \in [1..n -> cand]
    BY DEF Soonest
<1> HIDE DEF n
<1>4. list \in Seq(cand) /\ Len(list) = n
    BY <1>2, <1>3
<1> QED BY <1>2, <1>4, SeqMonotonic

LEMMA ListLimitType ==
    ASSUME NEW s \in Sweepers, Jobs # {} PROVE ListLimit(s) \in Nat \ {0}
BY StorageAssumption, JanitorAssumption, FS_CardinalityType, FS_EmptySet
   DEF ListLimit

LEMMA LongTail ==
    ASSUME NEW S, NEW q \in Seq(S), NEW t \in Seq(S), Len(t) = Len(q) - 1, Len(q) > 1
    PROVE  t # <<>>
<1>1. Len(q) \in Nat /\ Len(t) \in Nat
    BY LenProperties
<1>2. Len(t) # 0
    BY <1>1
<1>3. t = <<>> => Len(t) = 0
    BY EmptySeq, Zenon
<1> QED BY <1>2, <1>3

LEMMA SweepType ==
    ASSUME JanitorTypeOK, NEW s \in Sweepers,
           NEW place \in {"idle", "fetch", "files", "row"},
           NEW jobs \in Seq(Jobs), NEW artSets \in Seq(SUBSET Nat),
           place = "fetch" => Len(artSets) < Len(jobs),
           place \in {"files", "row"} => jobs # <<>> /\ Len(artSets) = Len(jobs),
           Sweep(s, place, jobs, artSets)
    PROVE  JanitorTypeOK'
<1>1. /\ sweep' \in [Sweepers -> {"idle", "fetch", "files", "row"}]
      /\ todo' \in [Sweepers -> Seq(Jobs)]
      /\ arts' \in [Sweepers -> Seq(SUBSET Nat)]
    BY DEF JanitorTypeOK, Sweep
<1>2. ASSUME NEW r \in Sweepers
      PROVE  /\ sweep'[r] = "fetch" => Len(arts'[r]) < Len(todo'[r])
             /\ sweep'[r] \in {"files", "row"} =>
                    todo'[r] # <<>> /\ Len(arts'[r]) = Len(todo'[r])
    BY DEF JanitorTypeOK, Sweep
<1> QED BY <1>1, <1>2 DEF JanitorTypeOK

LEMMA FinishedType ==
    ASSUME JanitorTypeOK, NEW s \in Sweepers, Finished(s) PROVE JanitorTypeOK'
<1>1. <<>> \in Seq(Jobs) /\ <<>> \in Seq(SUBSET Nat)
    BY EmptySeq
<1> QED BY <1>1, SweepType DEF Finished

LEMMA SweepStepType ==
    ASSUME TypeOK, NEW s \in Sweepers, SweepStep(s)
    PROVE  StorageTypeOK' /\ JanitorTypeOK'
<1> USE DEF TypeOK
<1>1. CASE ListExpired(s)
    <2>1. PICK list \in Soonest(Listed(s), ListLimit(s)) : Sweep(s, "fetch", list, <<>>)
        BY <1>1 DEF ListExpired
    <2>2. Listed(s) \subseteq Jobs /\ Listed(s) # {}
        BY <1>1 DEF ListExpired, Listed
    <2>3. list \in Seq(Jobs) /\ Len(list) \in Nat \ {0}
        BY <2>2, SoonestProperties, ListLimitType
    <2>4. JanitorTypeOK'
        BY <2>1, <2>3 DEF JanitorTypeOK, Sweep
    <2> QED BY <1>1, <2>4 DEF ListExpired, StorageTypeOK, storageVars
<1>2. CASE FetchArtifacts(s)
    <2> DEFINE n == Len(arts[s]) + 1
               read == Append(arts[s], artRows[todo[s][n]])
    <2>1. /\ todo[s] \in Seq(Jobs)
          /\ arts[s] \in Seq(SUBSET Nat)
          /\ n \in 1 .. Len(todo[s])
        BY <1>2 DEF FetchArtifacts, JanitorTypeOK
    <2>2. artRows[todo[s][n]] \in SUBSET Nat
        <3>1. todo[s][n] \in Jobs
            BY <2>1, ElementOfSeq
        <3> QED BY <3>1 DEF StorageTypeOK
    <2>3. read \in Seq(SUBSET Nat) /\ Len(read) = n
        BY <2>1, <2>2
    <2>4. todo[s] # <<>>
        BY <2>1
    <2>5. \/ Sweep(s, IF n = Len(todo[s]) THEN "files" ELSE "fetch", todo[s], read)
          \/ Finished(s)
        BY <1>2 DEF FetchArtifacts
    <2> HIDE DEF n, read
    <2>6. JanitorTypeOK'
        <3>1. CASE Finished(s)
            BY <3>1, FinishedType
        <3>2. CASE n = Len(todo[s]) /\ Sweep(s, "files", todo[s], read)
            BY <2>1, <2>3, <2>4, <3>2, SweepType
        <3>3. CASE n # Len(todo[s]) /\ Sweep(s, "fetch", todo[s], read)
            <4>1. Len(read) < Len(todo[s])
                BY <2>1, <2>3, <3>3
            <4> QED BY <2>1, <2>3, <3>3, <4>1, SweepType
        <3> QED BY <2>5, <3>1, <3>2, <3>3
    <2> QED BY <1>2, <2>6 DEF FetchArtifacts, StorageTypeOK, storageVars
<1>3. CASE PruneFiles(s)
    <2>1. JanitorTypeOK'
        BY <1>3 DEF PruneFiles, Sweep, JanitorTypeOK
    <2> QED BY <1>3, <2>1 DEF PruneFiles, StorageTypeOK
<1>4. CASE PruneRow(s)
    <2>1. /\ todo[s] \in Seq(Jobs) /\ todo[s] # <<>>
          /\ arts[s] \in Seq(SUBSET Nat)
          /\ Len(arts[s]) = Len(todo[s])
        BY <1>4 DEF PruneRow, JanitorTypeOK
    <2>2. arts[s] # <<>>
        BY <2>1
    <2>3. /\ Head(todo[s]) \in Jobs
          /\ Tail(todo[s]) \in Seq(Jobs) /\ Len(Tail(todo[s])) = Len(todo[s]) - 1
        BY <2>1, HeadTailProperties
    <2>4. Tail(arts[s]) \in Seq(SUBSET Nat) /\ Len(Tail(arts[s])) = Len(arts[s]) - 1
        BY <2>1, <2>2, HeadTailProperties
    <2>5. ASSUME Len(todo[s]) > 1 PROVE Tail(todo[s]) # <<>>
        BY <2>1, <2>3, <2>5, LongTail
    <2>6. JanitorTypeOK'
        <3>1. CASE Finished(s)
            BY <3>1, FinishedType
        <3>2. CASE Len(todo[s]) > 1 /\ Sweep(s, "files", Tail(todo[s]), Tail(arts[s]))
            BY <2>1, <2>3, <2>4, <2>5, <3>2, SweepType
        <3> QED BY <1>4, <3>1, <3>2 DEF PruneRow
    <2> QED BY <1>4, <2>3, <2>6, DeleteJobType DEF PruneRow, StorageTypeOK
<1> QED BY <1>1, <1>2, <1>3, <1>4 DEF SweepStep

LEMMA JanitorType == TypeOK /\ Janitor => TypeOK'
<1> SUFFICES ASSUME TypeOK, Janitor PROVE TypeOK'
    OBVIOUS
<1> USE DEF TypeOK
<1>1. BusTypeOK(Jobs)' /\ UploadTypeOK' /\ WorkerTypeOK'
    BY DEF Janitor, BusTypeOK, UploadTypeOK, WorkerTypeOK, busVars, workerVars
<1>2. ASSUME NEW s \in Sweepers, SweepCrash(s) PROVE StorageTypeOK' /\ JanitorTypeOK'
    <2>1. JanitorTypeOK'
        BY <1>2 DEF SweepCrash, Finished, Sweep, JanitorTypeOK
    <2> QED BY <1>2, <2>1 DEF SweepCrash, StorageTypeOK
<1> QED BY <1>1, <1>2, SweepStepType DEF Janitor, JanitorNext

LEMMA TickType == TypeOK /\ Tick => TypeOK'
BY DEF Tick, TypeOK, StorageTypeOK, BusTypeOK, UploadTypeOK, WorkerTypeOK,
       JanitorTypeOK, busVars, workerVars, janitorVars

LEMMA TypeNext == TypeOK /\ [Next]_vars => TypeOK'
<1>1. TypeOK /\ UNCHANGED vars => TypeOK'
    BY DEF TypeOK, StorageTypeOK, BusTypeOK, UploadTypeOK, WorkerTypeOK,
           JanitorTypeOK, vars, storageVars, busVars, workerVars, janitorVars
<1> QED BY <1>1, GatewayType, WorkerType, JanitorType, TickType DEF Next

\* Type correctness of the whole engine; it includes that a sweep never runs off
\* its list and that a worker never asks for an artifact that is not there.
THEOREM TypeCorrect == Safety => []TypeOK
BY TypeInit, TypeNext, PTL DEF Safety
=============================================================================
