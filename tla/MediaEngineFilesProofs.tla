------------------------ MODULE MediaEngineFilesProofs ------------------------
(***************************************************************************)
(* The files.  No job that lives loses one, if no cleanup is forced:       *)
(* LiveFilesKept, and LinksWork of GatewayQueries, which rests on it.      *)
(*                                                                         *)
(* Files are deleted by the rollback of an upload and by sweeps.  A sweep  *)
(* works on a list it read before, so the argument is that what it holds   *)
(* never comes back to life (TodoIsExpired); and files are made before     *)
(* what points at them, by processes that remember what they made          *)
(* (SourceKept, WorkKept).                                                 *)
(*                                                                         *)
(* And a sweep removes the files that a page lists before its row          *)
(* (FilesGoFirst), because nothing touches an expired job that is not in   *)
(* hand (ExpiredIsLeft): what the sweep read of it stays true.  So nothing *)
(* is left of a job that was announced as completed.                       *)
(***************************************************************************)
EXTENDS MediaEngineProgressProofs, GatewayQueries

Live(j) == HasRow(j) /\ ~IsExpired(j)

\* From its request on, until it expires, a job has its upload.
SourceKept ==
    \A j \in Jobs :
        \/ up[j] = "saved"
        \/ up[j] \in {"created", "accepted"} /\ Live(j)
        => Source(j) \in files

\* What is recorded of a live job is on the volume.
ArtifactsKept ==
    \A j \in Jobs : /\ artRows[j] \subseteq Outputs(j)
                    /\ row[j] = Absent => artRows[j] = {}
                    /\ Live(j) => ArtFiles(j, artRows[j]) \subseteq files

\* So is what its worker has made and not yet recorded.
WorkKept ==
    \A w \in Workers :
        /\ at[w] = "save" /\ Live(job[w]) =>
                ArtFiles(job[w], 1 .. count[w]) \subseteq files
        /\ at[w] = "persist" /\ Live(job[w]) =>
                ArtFiles(job[w], Outputs(job[w])) \subseteq files

FilesInv == SourceKept /\ ArtifactsKept /\ WorkKept

-----------------------------------------------------------------------------
(* What a step does *)

\* A job comes to life by the insert of its row, and only so.
LEMMA LifeBegins ==
    ASSUME TypeOK, RowFollowsUpload, [Next]_vars, NEW j \in Jobs, Live(j)', ~Live(j)
    PROVE  up[j] = "saved" /\ row[j] = Absent /\ RegisterUpload(j)
<1>1. CASE Gateway
    <2>1. PICK i \in Jobs : RejectUpload(i) \/ UploadStep(i) \/ UploadCrash(i)
        BY <1>1 DEF Gateway, UploadNext
    <2>2. UNCHANGED clock
        BY <2>1
           DEF RejectUpload, UploadStep, UploadCrash, SaveUpload, RegisterUpload,
               PublishUpload, UndoRow, UndoFile, storageVars
    <2>3. CASE RegisterUpload(i)
        <3>1. i = j
            BY <2>2, <2>3 DEF RegisterUpload, CreateJob, TypeOK, StorageTypeOK, Live,
                              HasRow, IsExpired
        <3> QED BY <2>3, <3>1 DEF RegisterUpload, RowFollowsUpload
    <2>4. CASE UndoRow(i)
        BY <2>2, <2>4 DEF UndoRow, DeleteJob, TypeOK, StorageTypeOK, Live, HasRow,
                          IsExpired, Statuses, Deleted
    <2>5. CASE ~RegisterUpload(i) /\ ~UndoRow(i)
        <3>1. UNCHANGED <<row, expiresAt, clock>>
            BY <2>1, <2>5
               DEF RejectUpload, UploadStep, UploadCrash, SaveUpload, PublishUpload,
                   UndoFile, storageVars
        <3> QED BY <3>1 DEF Live, HasRow, IsExpired
    <2> QED BY <2>3, <2>4, <2>5
<1>2. CASE Worker
    <2>1. UNCHANGED <<clock, expiresAt>>
        BY <1>2
           DEF Worker, WorkerNext, HandlerStep, FetchJob, ClaimJob, OpenSource,
               SaveArtifact, PersistArtifact, CompleteJob, FailJob, Announce,
               DeliverToWorker, StopWorker, ExitWorker, WorkerCrash, Restart, DropMessage,
               storageVars
    <2>2. ASSUME NEW i \in Jobs, NEW s \in Statuses, Lifecycle!Advance(i, s)
          PROVE  HasRow(j)' => HasRow(j)
        BY <2>2, SameStatuses
           DEF Lifecycle!Advance, CanTransitionTo, TypeOK, StorageTypeOK, HasRow, Statuses
    <2>3. HasRow(j)' => HasRow(j)
        BY <1>2, <2>2, WorkerRow DEF HasRow
    <2> QED BY <2>1, <2>3 DEF Live, IsExpired
<1>3. CASE Janitor
    <2>1. UNCHANGED <<clock, expiresAt>>
        BY <1>3
           DEF Janitor, JanitorNext, SweepStep, SweepCrash, ListExpired, FetchArtifacts,
               PruneFiles, PruneRow, storageVars
    <2>2. ASSUME NEW i, Lifecycle!Remove(i) PROVE HasRow(j)' => HasRow(j)
        BY <2>2, SameStatuses
           DEF Lifecycle!Remove, TypeOK, StorageTypeOK, HasRow, Statuses, Deleted
    <2>3. HasRow(j)' => HasRow(j)
        BY <1>3, <2>2, JanitorRow DEF HasRow
    <2> QED BY <2>1, <2>3 DEF Live, IsExpired
<1>4. CASE Tick
    BY <1>4 DEF Tick, Live, HasRow, IsExpired, TypeOK, StorageTypeOK
<1>5. CASE UNCHANGED vars
    BY <1>5 DEF vars, storageVars, Live, HasRow, IsExpired
<1> QED BY <1>1, <1>2, <1>3, <1>4, <1>5 DEF Next

\* A file goes away with a job that is not live, or with the end of a rollback.
LEMMA FileLoss ==
    ASSUME TypeOK, RowFollowsUpload, TodoIsExpired, Forced = {}, [Next]_vars,
           NEW j \in Jobs, NEW k, <<j, k>> \in files, <<j, k>> \notin files'
    PROVE  \/ ~Live(j) /\ up[j] # "saved" /\ UNCHANGED up
           \/ k = 0 /\ up'[j] = "rejected"
<1>1. CASE Gateway
    <2>1. PICK i \in Jobs : RejectUpload(i) \/ UploadStep(i) \/ UploadCrash(i)
        BY <1>1 DEF Gateway, UploadNext
    <2>2. UndoFile(i)
        BY <2>1
           DEF RejectUpload, UploadStep, UploadCrash, SaveUpload, SaveFile, RegisterUpload,
               PublishUpload, UndoRow, storageVars
    <2>3. <<j, k>> = <<i, 0>>
        BY <2>2 DEF UndoFile, DeleteFile, Source
    <2> QED BY <2>2, <2>3 DEF UndoFile, Goto, TypeOK, UploadTypeOK
<1>2. CASE Worker
    <2>1. files \subseteq files'
        BY <1>2
           DEF Worker, WorkerNext, HandlerStep, FetchJob, ClaimJob, OpenSource,
               SaveArtifact, SaveFile, PersistArtifact, CompleteJob, FailJob, Announce,
               DeliverToWorker, StopWorker, ExitWorker, WorkerCrash, Restart, DropMessage,
               storageVars
    <2> QED BY <2>1
<1>3. CASE Janitor
    <2>1. PICK s \in Sweepers : SweepStep(s) \/ SweepCrash(s)
        BY <1>3 DEF Janitor, JanitorNext
    <2>2. /\ sweep[s] \in {"files", "row"}
          /\ <<j, k>> \in Known(s)
        BY <2>1
           DEF SweepStep, SweepCrash, ListExpired, FetchArtifacts, PruneFiles, PruneRow,
               storageVars
    <2>3. todo[s] \in Seq(Jobs) /\ todo[s] # <<>>
        BY <2>2 DEF TypeOK, JanitorTypeOK
    <2>4. Head(todo[s]) = todo[s][1] /\ 1 \in DOMAIN todo[s]
        BY <2>3, HeadTailProperties
    <2>5. j = Head(todo[s])
        BY <2>2 DEF Known, Source, ArtFiles
    <2>6. row[j] # Absent /\ IsExpired(j)
        BY <2>4, <2>5 DEF TodoIsExpired
    <2> QED BY <1>3, <2>6 DEF Janitor, Live, RowFollowsUpload
<1>4. CASE Tick \/ UNCHANGED vars
    BY <1>4 DEF Tick, vars, storageVars
<1> QED BY <1>1, <1>2, <1>3, <1>4 DEF Next

\* How an upload moves.
LEMMA UploadMoves ==
    ASSUME TypeOK, [Next]_vars, NEW j \in Jobs, up'[j] # up[j]
    PROVE  \/ up'[j] = "saved" /\ Source(j) \in files'
           \/ up[j] = "saved" /\ up'[j] = "created"
           \/ up[j] = "created" /\ up'[j] = "accepted"
           \/ up'[j] \in {"undoRow", "undoFile", "rejected", "crashed"}
<1>1. CASE Gateway
    <2>1. PICK i \in Jobs : RejectUpload(i) \/ UploadStep(i) \/ UploadCrash(i)
        BY <1>1 DEF Gateway, UploadNext
    <2>2. up \in [Jobs -> UploadStates]
        BY DEF TypeOK, UploadTypeOK
    <2>3. \E pc : Goto(i, pc)
        BY <2>1 DEF RejectUpload, UploadStep, UploadCrash, SaveUpload, RegisterUpload,
                    PublishUpload, UndoRow, UndoFile
    <2>4. i = j
        BY <2>2, <2>3 DEF Goto
    <2>5. CASE SaveUpload(j)
        BY <2>2, <2>5 DEF SaveUpload, SaveFile, Goto
    <2>6. CASE RegisterUpload(j)
        BY <2>2, <2>6 DEF RegisterUpload, Goto
    <2>7. CASE PublishUpload(j)
        BY <2>2, <2>7 DEF PublishUpload, Goto, storageVars
    <2>8. CASE RejectUpload(j) \/ UndoRow(j) \/ UndoFile(j) \/ UploadCrash(j)
        BY <2>2, <2>8 DEF RejectUpload, UndoRow, UndoFile, UploadCrash, Goto
    <2> QED BY <2>1, <2>4, <2>5, <2>6, <2>7, <2>8 DEF UploadStep
<1>2. CASE Worker \/ Janitor \/ Tick \/ UNCHANGED vars
    BY <1>2 DEF Worker, Janitor, Tick, vars
<1> QED BY <1>1, <1>2 DEF Next

LEMMA SourceNext ==
    ASSUME TypeOK, RowFollowsUpload, TodoIsExpired, Forced = {}, SourceKept, [Next]_vars
    PROVE  SourceKept'
<1> SUFFICES ASSUME NEW j \in Jobs,
                    \/ up'[j] = "saved"
                    \/ up'[j] \in {"created", "accepted"} /\ Live(j)'
             PROVE  <<j, 0>> \in files'
    BY DEF SourceKept, Source
<1>1. <<j, 0>> \in files \/ <<j, 0>> \in files'
    BY LifeBegins, UploadMoves DEF SourceKept, Source, RegisterUpload
<1>2. ASSUME <<j, 0>> \in files PROVE <<j, 0>> \in files'
    <2>1. SUFFICES ASSUME <<j, 0>> \notin files' PROVE FALSE
        OBVIOUS
    <2>2. ~Live(j) /\ up[j] # "saved" /\ UNCHANGED up
        BY <1>2, <2>1, FileLoss
    <2> QED BY <2>2, LifeBegins
<1> QED BY <1>1, <1>2

\* How the recorded artifacts of a job change.
LEMMA ArtifactMoves ==
    ASSUME TypeOK, [Next]_vars, NEW j \in Jobs
    PROVE  \/ artRows'[j] = artRows[j]
           \/ artRows'[j] = {}
           \/ \E w \in Workers : /\ at[w] = "persist" /\ job[w] = j
                                 /\ artRows'[j] = artRows[j] \cup {Artifact(w)}
                                 /\ HasRow(j)
                                 /\ UNCHANGED <<row, expiresAt, clock, files>>
<1>0. artRows \in [Jobs -> SUBSET Nat]
    BY DEF TypeOK, StorageTypeOK
<1>1. ASSUME NEW i \in Jobs, NEW ok, DeleteJob(i, ok)
      PROVE  artRows'[j] = artRows[j] \/ artRows'[j] = {}
    BY <1>0, <1>1 DEF DeleteJob
<1>2. CASE Gateway
    BY <1>1, <1>2
       DEF Gateway, UploadNext, RejectUpload, UploadStep, UploadCrash, SaveUpload,
           RegisterUpload, PublishUpload, UndoRow, UndoFile, storageVars
<1>3. CASE Worker
    <2>1. CASE \E w \in Workers : PersistArtifact(w)
        <3>1. PICK w \in Workers : PersistArtifact(w)
            BY <2>1
        <3>2. job[w] \in Jobs
            BY <3>1 DEF PersistArtifact, TypeOK, WorkerTypeOK
        <3> QED BY <1>0, <3>1, <3>2 DEF PersistArtifact, AddArtifact
    <2>2. CASE ~\E w \in Workers : PersistArtifact(w)
        BY <1>3, <2>2
           DEF Worker, WorkerNext, HandlerStep, FetchJob, ClaimJob, OpenSource,
               SaveArtifact, CompleteJob, FailJob, Announce, DeliverToWorker, StopWorker,
               ExitWorker, WorkerCrash, Restart, DropMessage, storageVars
    <2> QED BY <2>1, <2>2
<1>4. CASE Janitor
    <2>1. PICK s \in Sweepers : SweepStep(s) \/ SweepCrash(s)
        BY <1>4 DEF Janitor, JanitorNext
    <2>2. CASE PruneRow(s)
        <3>1. Head(todo[s]) \in Jobs
            BY <2>2, HeadTailProperties DEF PruneRow, TypeOK, JanitorTypeOK
        <3> QED BY <1>1, <2>2, <3>1 DEF PruneRow
    <2>3. CASE ~PruneRow(s)
        BY <2>1, <2>3
           DEF SweepStep, SweepCrash, ListExpired, FetchArtifacts, PruneFiles, storageVars
    <2> QED BY <2>2, <2>3
<1>5. CASE Tick \/ UNCHANGED vars
    BY <1>5 DEF Tick, vars, storageVars
<1> QED BY <1>2, <1>3, <1>4, <1>5 DEF Next

LEMMA ArtifactsNext ==
    ASSUME TypeOK, RowFollowsUpload, TodoIsExpired, Forced = {}, ArtifactsKept, WorkKept,
           [Next]_vars
    PROVE  ArtifactsKept'
<1> SUFFICES ASSUME NEW j \in Jobs
             PROVE  /\ artRows'[j] \subseteq Outputs(j)
                    /\ row'[j] = Absent => artRows'[j] = {}
                    /\ Live(j)' => \A k \in artRows'[j] : <<j, k>> \in files'
    BY DEF ArtifactsKept, ArtFiles, Outputs, OutputCount
<1>1. artRows'[j] \subseteq Outputs(j)
    BY ArtifactMoves DEF ArtifactsKept, TypeOK, WorkerTypeOK, Artifact
<1>2. row'[j] = Absent => artRows'[j] = {}
    <2>1. ASSUME Gateway PROVE row'[j] = Absent => row[j] = Absent
        BY <2>1, GatewayRow, SameStatuses
           DEF TypeOK, StorageTypeOK, Lifecycle!Insert, Lifecycle!Remove, Absent, Deleted
    <2>2. ASSUME Worker \/ Janitor \/ Tick PROVE row'[j] = Absent => row[j] = Absent
        BY <2>2, PresenceKept
    <2>3. row'[j] = Absent => row[j] = Absent
        BY <2>1, <2>2 DEF Next, vars, storageVars
    <2> QED BY <2>3, ArtifactMoves DEF ArtifactsKept, HasRow, Statuses, Absent
<1>3. ASSUME Live(j)', NEW k \in artRows'[j] PROVE <<j, k>> \in files'
    <2>1. CASE Live(j)
        <3>1. <<j, k>> \in files
            BY <2>1, <1>1, ArtifactMoves
               DEF ArtifactsKept, WorkKept, ArtFiles, TypeOK, WorkerTypeOK, Artifact
        <3>2. k # 0
            BY <1>1, OutputCountType DEF Outputs
        <3> QED BY <2>1, <3>1, <3>2, FileLoss
    <2>2. CASE ~Live(j)
        BY <1>3, <2>2, LifeBegins DEF ArtifactsKept, RegisterUpload
    <2> QED BY <2>1, <2>2
<1> QED BY <1>1, <1>2, <1>3

\* How a worker that is saving or recording artifacts came there.
LEMMA WorkMoves ==
    ASSUME TypeOK, [Next]_vars, NEW w \in Workers, at'[w] \in {"save", "persist"}
    PROVE  \/ at'[w] = at[w] /\ job'[w] = job[w] /\ count'[w] = count[w]
           \/ at'[w] = "save" /\ count'[w] = 0
           \/ /\ at[w] = "save" /\ job'[w] = job[w]
              /\ <<job[w], Artifact(w)>> \in files'
              /\ \/ at'[w] = "save" /\ count'[w] = Artifact(w)
                 \/ at'[w] = "persist" /\ Artifact(w) = OutputCount(job[w])
           \/ at[w] = "persist" /\ at'[w] = "persist" /\ job'[w] = job[w]
<1>0. /\ at \in [Workers -> Places]
      /\ job \in [Workers -> Jobs \cup {NoJob}]
      /\ count \in [Workers -> Nat]
    BY DEF TypeOK, WorkerTypeOK
<1>1. CASE Gateway \/ Janitor \/ Tick \/ UNCHANGED vars
    BY <1>1 DEF Gateway, Janitor, Tick, vars, workerVars
<1>2. CASE Worker
    <2>1. CASE UNCHANGED <<at, job, count>>
        BY <2>1
    <2>2. ASSUME NEW v \in Workers, HandlerStep(v) \/ Restart(v), v # w
          PROVE  at'[w] = at[w] /\ job'[w] = job[w] /\ count'[w] = count[w]
        <3>1. \E p, i, n : Handle(v, p, i, n)
            BY <2>2
               DEF HandlerStep, FetchJob, ClaimJob, OpenSource, SaveArtifact,
                   PersistArtifact, CompleteJob, FailJob, Announce, Restart, Go, Return,
                   GoOn
        <3> QED BY <1>0, <2>2, <3>1 DEF Handle
    <2>3. CASE SaveArtifact(w)
        <3>1. Artifact(w) \in Outputs(job[w]) /\ job[w] \in Jobs
            BY <2>3 DEF SaveArtifact, TypeOK, WorkerTypeOK, Artifact
        <3>2. Artifact(w) \in Nat /\ Artifact(w) <= OutputCount(job[w])
            BY <3>1, OutputCountType DEF Outputs
        <3> QED BY <1>0, <2>3, <3>2, OutputCountType, <3>1
                DEF SaveArtifact, SaveFile, GoOn, Go, Handle, Artifact
    <2>4. CASE PersistArtifact(w)
        BY <1>0, <2>4 DEF PersistArtifact, GoOn, Go, Handle
    <2>5. CASE \/ FetchJob(w) \/ ClaimJob(w) \/ OpenSource(w) \/ CompleteJob(w)
               \/ FailJob(w) \/ Announce(w) \/ Restart(w)
        BY <1>0, <2>5
           DEF FetchJob, ClaimJob, OpenSource, CompleteJob, FailJob, Announce, Restart,
               Go, Return, Handle
    <2>6. \/ UNCHANGED <<at, job, count>>
          \/ \E v \in Workers : HandlerStep(v) \/ Restart(v)
        BY <1>2 DEF Worker, WorkerNext, DeliverToWorker, StopWorker, ExitWorker,
                    WorkerCrash, DropMessage, workerVars
    <2> QED BY <2>1, <2>2, <2>3, <2>4, <2>5, <2>6 DEF HandlerStep
<1> QED BY <1>1, <1>2 DEF Next

LEMMA WorkNext ==
    ASSUME TypeOK, RowFollowsUpload, EventsOfAccepted, TodoIsExpired, Forced = {},
           WorkKept, [Next]_vars
    PROVE  WorkKept'
<1> SUFFICES ASSUME NEW w \in Workers, at'[w] \in {"save", "persist"},
                    NEW i, i = job'[w], Live(i)',
                    NEW k \in IF at'[w] = "save" THEN 1 .. count'[w] ELSE Outputs(i)
             PROVE  <<i, k>> \in files'
    BY DEF WorkKept, ArtFiles, Live, HasRow, IsExpired, Outputs, OutputCount
<1>1. TypeOK'
    BY TypeNext
<1>2. i \in Jobs /\ OutputCount(i) \in Nat /\ count'[w] \in Nat
    BY <1>1, OutputCountType DEF TypeOK, WorkerTypeOK
<1>3. k \in Nat \ {0}
    BY <1>2 DEF Outputs
<1>4. ASSUME at[w] # "idle", job[w] = i PROVE Live(i)
    BY <1>2, <1>4, LifeBegins DEF EventsOfAccepted
<1>5. \/ <<i, k>> \in files'
      \/ job[w] = i /\ at[w] # "idle" /\ <<i, k>> \in files
    <2>1. CASE at'[w] = at[w] /\ job'[w] = job[w] /\ count'[w] = count[w]
        BY <2>1, <1>4 DEF WorkKept, ArtFiles
    <2>2. CASE at'[w] = "save" /\ count'[w] = 0
        BY <2>2
    <2>3. CASE /\ at[w] = "save" /\ job'[w] = job[w]
               /\ <<job[w], Artifact(w)>> \in files'
               /\ \/ at'[w] = "save" /\ count'[w] = Artifact(w)
                  \/ at'[w] = "persist" /\ Artifact(w) = OutputCount(job[w])
        <3>1. k \in 1 .. count[w] \/ k = Artifact(w)
            BY <2>3, <1>2, <1>3 DEF Artifact, TypeOK, WorkerTypeOK, Outputs
        <3> QED BY <2>3, <3>1, <1>4 DEF WorkKept, ArtFiles
    <2>4. CASE at[w] = "persist" /\ at'[w] = "persist" /\ job'[w] = job[w]
        BY <2>4, <1>4 DEF WorkKept, ArtFiles
    <2> QED BY <2>1, <2>2, <2>3, <2>4, WorkMoves
<1> QED BY <1>2, <1>3, <1>4, <1>5, FileLoss

-----------------------------------------------------------------------------
LEMMA FilesInit == Init => FilesInv
<1> SUFFICES ASSUME Init PROVE FilesInv
    OBVIOUS
<1>1. SourceKept
    BY DEF Init, UploadInit, SourceKept
<1>2. ArtifactsKept
    BY DEF Init, StorageInit, ArtifactsKept, Live, HasRow, Absent, Statuses
<1>3. WorkKept
    BY DEF Init, WorkerInit, WorkKept
<1> QED BY <1>1, <1>2, <1>3 DEF FilesInv

\* If no cleanup is forced, a job that was accepted keeps its upload and every
\* artifact recorded of it until it expires, whatever fails.
THEOREM LiveFilesStay ==
  ASSUME Forced = {}
  PROVE  Safety => []LiveFilesKept
<1> DEFINE Base == TypeOK /\ RowFollowsUpload /\ EventsOfAccepted /\ TodoIsExpired
<1>1. Safety => []Base
    BY TypeInit, TypeNext, RowFollowsUploadInit, RowFollowsUploadNext, EventsInit,
       EventsNext, TodoInit, TodoNext, PTL DEF Safety
<1>2. FilesInv /\ Base /\ [Next]_vars => FilesInv'
    BY SourceNext, ArtifactsNext, WorkNext DEF FilesInv
<1>3. FilesInv => LiveFilesKept
    BY DEF FilesInv, SourceKept, ArtifactsKept, Live, LiveFilesKept
<1> QED BY <1>1, <1>2, <1>3, FilesInit, PTL DEF Safety

-----------------------------------------------------------------------------
(* Downloads *)

\* A job is on every list that is long enough for those that expire no later.
LEMMA SoonestHolds ==
    ASSUME NEW cand \in SUBSET Jobs, NEW limit \in Nat \ {0}, NEW j \in cand,
           NEW list \in Soonest(cand, limit), expiresAt \in [Jobs -> Nat],
           Cardinality({i \in cand : expiresAt[i] <= expiresAt[j]}) <= limit
    PROVE  \E a \in DOMAIN list : list[a] = j
<1> DEFINE n     == IF Cardinality(cand) < limit THEN Cardinality(cand) ELSE limit
           sooner == {i \in cand : expiresAt[i] <= expiresAt[j]}
           range == {list[a] : a \in 1 .. n}
<1>1. IsFiniteSet(cand) /\ Cardinality(cand) \in Nat
    BY StorageAssumption, FS_Subset, FS_CardinalityType
<1>2. n \in Nat /\ n <= limit /\ n <= Cardinality(cand)
      /\ (n < limit => n = Cardinality(cand))
    BY <1>1
<1>3. /\ list \in [1 .. n -> cand]
      /\ \A a, b \in 1 .. n : a < b => list[a] # list[b]
      /\ \A i \in cand \ range, a \in 1 .. n : expiresAt[list[a]] <= expiresAt[i]
    BY DEF Soonest
<1> HIDE DEF n
<1>4. SUFFICES ASSUME j \notin range PROVE FALSE
    BY <1>3
<1>5. range \subseteq sooner \ {j}
    BY <1>3, <1>4
<1>6. /\ IsFiniteSet(sooner \ {j})
      /\ Cardinality(sooner \ {j}) = Cardinality(sooner) - 1
      /\ Cardinality(sooner) \in Nat
      /\ Cardinality(sooner) <= Cardinality(cand)
    <2>1. IsFiniteSet(sooner) /\ Cardinality(sooner) <= Cardinality(cand)
        BY <1>1, FS_Subset
    <2>2. j \in sooner
        OBVIOUS
    <2> QED BY <2>1, <2>2, FS_RemoveElement, FS_CardinalityType
<1>7. \A a, b \in 1 .. n : a # b => list[a] # list[b]
    <2>1. \A a, b \in 1 .. n : a # b => a < b \/ b < a
        BY <1>2
    <2> QED BY <1>3, <2>1
<1>8. list \in Injection(1 .. n, sooner \ {j})
    BY <1>3, <1>5, <1>7 DEF Injection, IsInjective
<1>9. Cardinality(1 .. n) <= Cardinality(sooner \ {j})
    BY <1>6, <1>8, FS_Injection
<1>10. Cardinality(1 .. n) = n
    BY <1>2, FS_Interval
<1> QED BY <1>1, <1>2, <1>6, <1>9, <1>10

\* If no cleanup is forced, the links on the page of a live job work whenever
\* the search is long enough for the rows that expire no later than it.
THEOREM LinksKeepWorking ==
  ASSUME Forced = {}
  PROVE  Safety => []LinksWork
<1>1. TypeOK /\ LiveFilesKept => LinksWork
    <2> SUFFICES ASSUME TypeOK, LiveFilesKept, NEW j \in Jobs,
                        up[j] = "accepted", HasRow(j), ~IsExpired(j),
                        Cardinality({i \in Rows : expiresAt[i] <= expiresAt[j]})
                            <= DownloadLimit,
                        NEW k \in artRows[j], NEW list \in Soonest(Rows, DownloadLimit)
                 PROVE  Downloads(list, j, k)
        BY DEF LinksWork, Links, Searched
    <2>1. <<j, k>> \in files
        BY DEF LiveFilesKept, ArtFiles
    <2>2. \E a \in DOMAIN list : list[a] = j
        BY SoonestHolds, QueriesAssumption DEF Rows, TypeOK, StorageTypeOK
    <2> QED BY <2>1, <2>2 DEF Downloads, Found
<1> QED BY <1>1, LiveFilesStay, TypeCorrect, PTL

-----------------------------------------------------------------------------
(* What is left alone stays as it is *)

\* No expired job is in hand.
ExpiredIsLeft == \A j \in Jobs : HasRow(j) /\ IsExpired(j) => ~InHand(j)

\* Only the insert of its row takes a job in hand.
LEMMA HandBegins ==
    ASSUME TypeOK, [Next]_vars, NEW j \in Jobs, ~InHand(j), InHand(j)'
    PROVE  RegisterUpload(j)
<1>0. /\ pending \in [Workers -> Seq(Jobs)]
      /\ job \in [Workers -> Jobs \cup {NoJob}]
      /\ up \in [Jobs -> UploadStates]
      /\ up[j] \notin {"created", "undoRow"} /\ ~InBus(j) /\ ~Handled(j)
    BY DEF TypeOK, BusTypeOK, WorkerTypeOK, UploadTypeOK, InHand
<1>9. Groups' = Groups
    BY DEF Groups
<1>1. CASE Gateway
    <2>1. PICK i \in Jobs : RejectUpload(i) \/ UploadStep(i) \/ UploadCrash(i)
        BY <1>1 DEF Gateway, UploadNext
    <2>2. ~Handled(j)' /\ UNCHANGED pending
        BY <1>0, <1>1, <2>1
           DEF Gateway, Handled, workerVars, RejectUpload, UploadStep, UploadCrash,
               SaveUpload, RegisterUpload, PublishUpload, UndoRow, UndoFile, busVars
    <2>3. UNCHANGED inTransit \/ (i # j /\ inTransit' = inTransit \cup (Groups \X {i}))
        BY <1>0, <2>1
           DEF RejectUpload, UploadStep, UploadCrash, SaveUpload, RegisterUpload,
               PublishUpload, Publish, UndoRow, UndoFile, busVars
    <2>4. ~InBus(j)'
        <3>1. ASSUME NEW g \in Groups PROVE <<g, j>> \notin inTransit'
            <4>1. <<g, j>> \notin inTransit
                BY <1>0 DEF InBus
            <4> QED BY <2>3, <4>1
        <3>2. \A w \in Workers : \A n \in DOMAIN pending'[w] : pending'[w][n] # j
            BY <1>0, <2>2 DEF InBus
        <3> QED BY <1>9, <3>1, <3>2 DEF InBus
    <2>5. up'[j] \in {"created", "undoRow"}
        BY <2>2, <2>4 DEF InHand
    <2>6. \E pc : Goto(i, pc)
        BY <2>1 DEF RejectUpload, UploadStep, UploadCrash, SaveUpload, RegisterUpload,
                    PublishUpload, UndoRow, UndoFile
    <2>7. i = j
        BY <1>0, <2>5, <2>6 DEF Goto
    <2> QED BY <1>0, <2>1, <2>5, <2>7
            DEF RejectUpload, UploadStep, UploadCrash, SaveUpload, PublishUpload, UndoRow,
                UndoFile, Goto
<1>2. CASE Worker
    <2>1. UNCHANGED up
        BY <1>2 DEF Worker
    <2>2. \/ \E w \in Workers, i \in Jobs : Deliver(w, i) /\ UNCHANGED job
          \/ \E w \in Workers : FetchJob(w)
          \/ /\ inTransit' \subseteq inTransit
             /\ \A w \in Workers : /\ pending'[w] \in {pending[w], <<>>}
                                   /\ job'[w] \in {job[w], NoJob}
        BY <1>0, <1>2
           DEF Worker, WorkerNext, HandlerStep, ClaimJob, OpenSource, SaveArtifact,
               PersistArtifact, CompleteJob, FailJob, Announce, GoOn, Go, Return, Handle,
               DeliverToWorker, StopWorker, Unsubscribe, ExitWorker, WorkerCrash, Restart,
               Resubscribe, DropMessage, Drop, busVars, workerVars
    <2>3. ASSUME NEW w \in Workers, NEW i \in Jobs, Deliver(w, i), UNCHANGED job
          PROVE  ~InBus(j)' /\ ~Handled(j)'
        <3>1. /\ <<QueueGroup[w], i>> \in inTransit /\ inTransit' \subseteq inTransit
              /\ pending' = [pending EXCEPT ![w] = Append(@, i)]
            BY <2>3 DEF Deliver
        <3>2. i # j
            BY <1>0, <3>1 DEF InBus, Groups
        <3>3. ASSUME NEW v \in Workers, NEW n \in DOMAIN pending'[v] PROVE pending'[v][n] # j
            BY <1>0, <3>1, <3>2 DEF InBus
        <3> QED BY <1>0, <2>3, <3>1, <3>3 DEF InBus, Groups, Handled
    <2>4. ASSUME NEW w \in Workers, FetchJob(w) PROVE ~InBus(j)' /\ ~Handled(j)'
        <3>1. /\ pending[w] \in Seq(Jobs) /\ pending[w] # <<>> /\ UNCHANGED inTransit
              /\ pending' = [pending EXCEPT ![w] = Tail(@)]
            BY <1>0, <2>4 DEF FetchJob
        <3>2. /\ Head(pending[w]) = pending[w][1] /\ 1 \in DOMAIN pending[w]
              /\ Len(Tail(pending[w])) = Len(pending[w]) - 1
              /\ Tail(pending[w]) \in Seq(Jobs)
              /\ \A i \in 1 .. Len(Tail(pending[w])) : Tail(pending[w])[i] = pending[w][i + 1]
            BY <3>1, HeadTailProperties
        <3>3. Head(pending[w]) # j
            BY <1>0, <3>2 DEF InBus
        <3>4. \A v \in Workers : job'[v] \in {job[v], NoJob, Head(pending[w])}
            BY <1>0, <2>4 DEF FetchJob, Return, Handle
        <3>5. ASSUME NEW v \in Workers, NEW n \in DOMAIN pending'[v] PROVE pending'[v][n] # j
            <4>1. CASE v = w
                <5>1. n + 1 \in DOMAIN pending[w] /\ pending'[v][n] = pending[w][n + 1]
                    BY <1>0, <3>1, <3>2, <4>1
                <5> QED BY <1>0, <5>1 DEF InBus
            <4>2. CASE v # w
                BY <1>0, <3>1, <4>2 DEF InBus
            <4> QED BY <4>1, <4>2
        <3> QED BY <1>0, <3>1, <3>3, <3>4, <3>5, WorkerAssumption DEF InBus, Groups, Handled
    <2>5. ASSUME inTransit' \subseteq inTransit,
                 \A w \in Workers : /\ pending'[w] \in {pending[w], <<>>}
                                    /\ job'[w] \in {job[w], NoJob}
          PROVE  ~InBus(j)' /\ ~Handled(j)'
        <3>1. \A w \in Workers : \A n \in DOMAIN pending'[w] : pending'[w][n] # j
            BY <1>0, <2>5 DEF InBus
        <3> QED BY <1>0, <1>9, <2>5, <3>1, WorkerAssumption DEF InBus, Handled
    <2> QED BY <1>0, <2>1, <2>2, <2>3, <2>4, <2>5 DEF InHand
<1>3. CASE Janitor \/ Tick \/ UNCHANGED vars
    BY <1>0, <1>3 DEF Janitor, Tick, vars, busVars, workerVars, InHand, InBus, Groups,
                      Handled
<1> QED BY <1>1, <1>2, <1>3 DEF Next

LEMMA ExpiryStays ==
    ASSUME TypeOK, RowFollowsUpload, [Next]_vars, NEW j \in Jobs, row[j] # Absent
    PROVE  expiresAt'[j] = expiresAt[j]
<1>1. CASE \E i \in Jobs : RegisterUpload(i)
    BY <1>1 DEF RegisterUpload, CreateJob, RowFollowsUpload, TypeOK, StorageTypeOK
<1>2. CASE ~\E i \in Jobs : RegisterUpload(i)
    BY <1>2
       DEF Next, vars, storageVars, Gateway, UploadNext, RejectUpload, UploadStep,
           UploadCrash, SaveUpload, PublishUpload, UndoRow, UndoFile,
           Worker, WorkerNext, HandlerStep, FetchJob, ClaimJob, OpenSource, SaveArtifact,
           PersistArtifact, CompleteJob, FailJob, Announce, DeliverToWorker, StopWorker,
           ExitWorker, WorkerCrash, Restart, DropMessage, Janitor, JanitorNext, SweepStep,
           SweepCrash, ListExpired, FetchArtifacts, PruneFiles, PruneRow, Tick
<1> QED BY <1>1, <1>2

LEMMA ClockMoves ==
    ASSUME [Next]_vars PROVE Tick \/ UNCHANGED clock
BY DEF Next, vars, storageVars, Gateway, UploadNext, RejectUpload, UploadStep,
       UploadCrash, SaveUpload, RegisterUpload, PublishUpload, UndoRow, UndoFile,
       Worker, WorkerNext, HandlerStep, FetchJob, ClaimJob, OpenSource, SaveArtifact,
       PersistArtifact, CompleteJob, FailJob, Announce, DeliverToWorker, StopWorker,
       ExitWorker, WorkerCrash, Restart, DropMessage, Janitor, JanitorNext, SweepStep,
       SweepCrash, ListExpired, FetchArtifacts, PruneFiles, PruneRow

LEMMA DeletedStays ==
    ASSUME TypeOK, RowFollowsUpload, [Next]_vars, NEW j \in Jobs, row[j] = Deleted
    PROVE  row'[j] = Deleted
<1>0. row \in [Jobs -> Statuses \cup {Absent, Deleted}]
    BY DEF TypeOK, StorageTypeOK
<1>1. ASSUME NEW i \in Jobs, NEW s \in Statuses, Lifecycle!Advance(i, s)
      PROVE  row'[j] = Deleted
    BY <1>0, <1>1, SameStatuses DEF Lifecycle!Advance, CanTransitionTo, Deleted
<1>2. ASSUME NEW i \in Jobs, Lifecycle!Insert(i) \/ Lifecycle!Remove(i)
      PROVE  row'[j] = Deleted
    BY <1>0, <1>2, SameStatuses DEF Lifecycle!Insert, Lifecycle!Remove, Absent, Deleted
<1> QED BY <1>1, <1>2, LifecycleStep, SameStatuses DEF Lifecycle!Next

LEMMA ExpiredNext ==
    ASSUME LongTTL, TypeOK, RowFollowsUpload, ExpiredIsLeft, [Next]_vars
    PROVE  ExpiredIsLeft'
<1> SUFFICES ASSUME NEW j \in Jobs, HasRow(j)', IsExpired(j)', InHand(j)' PROVE FALSE
    BY DEF ExpiredIsLeft
<1>1. CASE row[j] = Absent
    <2>1. row'[j] # row[j] /\ row'[j] # Deleted
        BY <1>1 DEF HasRow, Statuses, Absent, Deleted
    <2>2. RegisterUpload(j)
        <3>1. Gateway
            BY <1>1, <2>1, PresenceKept DEF Next, vars, storageVars
        <3>2. PICK i \in Jobs : RejectUpload(i) \/ UploadStep(i) \/ UploadCrash(i)
            BY <3>1 DEF Gateway, UploadNext
        <3> QED BY <1>1, <2>1, <3>2
                DEF TypeOK, StorageTypeOK, RejectUpload, UploadStep, UploadCrash, SaveUpload,
                    RegisterUpload, CreateJob, PublishUpload, UndoRow, DeleteJob, UndoFile,
                    storageVars
    <2> QED BY <2>1, <2>2, StorageAssumption
            DEF RegisterUpload, CreateJob, TypeOK, StorageTypeOK, IsExpired
<1>2. CASE row[j] # Absent
    <2>1. HasRow(j)
        BY <1>2, DeletedStays DEF HasRow, TypeOK, StorageTypeOK, Statuses, Deleted
    <2>2. InHand(j)
        BY <1>2, HandBegins DEF RegisterUpload, RowFollowsUpload
    <2>3. ~Tick
        BY <2>1, <2>2 DEF Tick, IsExpired, TypeOK, StorageTypeOK
    <2>4. IsExpired(j)
        BY <1>2, <2>3, ClockMoves, ExpiryStays DEF IsExpired
    <2> QED BY <2>1, <2>2, <2>4 DEF ExpiredIsLeft
<1> QED BY <1>1, <1>2

\* New files come from new uploads and from workers that process the job.
LEMMA FilesMade ==
    ASSUME TypeOK, [Next]_vars, NEW j \in Jobs, NEW k, <<j, k>> \in files',
           <<j, k>> \notin files
    PROVE  \/ up[j] = "idle"
           \/ \E w \in Workers : at[w] \in Owning /\ job[w] = j
<1>1. CASE Gateway
    <2>1. PICK i \in Jobs : RejectUpload(i) \/ UploadStep(i) \/ UploadCrash(i)
        BY <1>1 DEF Gateway, UploadNext
    <2>2. SaveUpload(i)
        BY <2>1
           DEF RejectUpload, UploadStep, UploadCrash, RegisterUpload, PublishUpload,
               UndoRow, UndoFile, DeleteFile, storageVars
    <2> QED BY <2>2 DEF SaveUpload, SaveFile, Source
<1>2. CASE Worker
    <2>1. PICK w \in Workers : SaveArtifact(w)
        BY <1>2
           DEF Worker, WorkerNext, HandlerStep, FetchJob, ClaimJob, OpenSource,
               PersistArtifact, CompleteJob, FailJob, Announce, DeliverToWorker,
               StopWorker, ExitWorker, WorkerCrash, Restart, DropMessage, storageVars
    <2> QED BY <2>1 DEF SaveArtifact, SaveFile, Owning
<1>3. CASE Janitor
    BY <1>3
       DEF Janitor, JanitorNext, SweepStep, SweepCrash, ListExpired, FetchArtifacts,
           PruneFiles, PruneRow, storageVars
<1>4. CASE Tick \/ UNCHANGED vars
    BY <1>4 DEF Tick, vars, storageVars
<1> QED BY <1>1, <1>2, <1>3, <1>4 DEF Next

\* What has expired and is left alone only loses files, and then its row.
LEMMA ExpiredIsQuiet ==
    ASSUME TypeOK, RowFollowsUpload, ExpiredIsLeft, [Next]_vars, NEW j \in Jobs,
           row[j] # Absent, IsExpired(j), HasRow(j)'
    PROVE  /\ HasRow(j)
           /\ artRows'[j] = artRows[j]
           /\ \A k : <<j, k>> \in files' => <<j, k>> \in files
<1>1. HasRow(j)
    BY DeletedStays DEF HasRow, TypeOK, StorageTypeOK, Statuses, Deleted
<1>2. \A w \in Workers : job[w] # j
    BY <1>1 DEF ExpiredIsLeft, InHand, Handled
<1>3. artRows'[j] = artRows[j]
    BY <1>1, <1>2, RecordMoves DEF HasRow, Statuses, Deleted
<1>4. \A k : <<j, k>> \in files' => <<j, k>> \in files
    BY <1>2, FilesMade DEF RowFollowsUpload
<1> QED BY <1>1, <1>3, <1>4

-----------------------------------------------------------------------------
(* Sweeps *)

\* The files that the page of a job lists.
PageFiles(j) == {Source(j)} \cup ArtFiles(j, artRows[j])

\* A list of jobs and of their artifacts that a sweep may work on.
WellRead(jobs, artSets) ==
    \A i \in DOMAIN jobs :
        /\ jobs[i] \in Jobs
        /\ i \in DOMAIN artSets /\ HasRow(jobs[i]) => artSets[i] = artRows[jobs[i]]

\* A sweep knows all files that the pages of its jobs list, as long as there are such
\* pages, and removes them before the row.
SweepsKnow ==
    \A s \in Sweepers \ Forced :
        /\ WellRead(todo[s], arts[s])
        /\ sweep[s] = "row" /\ HasRow(Head(todo[s])) =>
                PageFiles(Head(todo[s])) \cap files = {}

\* How a sweep moves, before the effects on rows and files are considered.
LEMMA SweepMoves ==
    ASSUME TypeOK, [Next]_vars, NEW s \in Sweepers
    PROVE  \/ /\ sweep'[s] = sweep[s] /\ todo'[s] = todo[s] /\ arts'[s] = arts[s]
           \/ SweepStep(s)
           \/ SweepCrash(s)
<1>1. CASE Janitor
    <2>1. PICK r \in Sweepers : SweepStep(r) \/ SweepCrash(r)
        BY <1>1 DEF Janitor, JanitorNext
    <2>2. \E p, q, a : Sweep(r, p, q, a)
        BY <2>1 DEF SweepStep, SweepCrash, ListExpired, FetchArtifacts, PruneFiles,
                    PruneRow, Finished
    <2> QED BY <2>1, <2>2 DEF Sweep, TypeOK, JanitorTypeOK
<1>2. CASE Gateway \/ Worker \/ Tick \/ UNCHANGED vars
    BY <1>2 DEF Gateway, Worker, Tick, vars, janitorVars
<1> QED BY <1>1, <1>2 DEF Next

LEMMA SweepKnowsOn ==
    ASSUME "fs" \notin Faults, TypeOK, SweepsKnow, NEW s \in Sweepers \ Forced,
           SweepStep(s) \/ SweepCrash(s)
    PROVE  /\ WellRead(todo'[s], arts'[s])
           /\ sweep'[s] = "row" /\ HasRow(Head(todo'[s])) =>
                    PageFiles(Head(todo'[s])) \cap files' = {}
<1>0. /\ sweep \in [Sweepers -> {"idle", "fetch", "files", "row"}]
      /\ todo \in [Sweepers -> Seq(Jobs)]
      /\ arts \in [Sweepers -> Seq(SUBSET Nat)]
    BY DEF TypeOK, JanitorTypeOK
<1>1. WellRead(todo[s], arts[s])
    BY DEF SweepsKnow
<1>2. WellRead(<<>>, <<>>)
    BY DEF WellRead
<1>3. CASE ListExpired(s)
    <2>1. PICK q \in Soonest(Listed(s), ListLimit(s)) : Sweep(s, "fetch", q, <<>>)
        BY <1>3 DEF ListExpired
    <2>2. Listed(s) \subseteq Jobs /\ Listed(s) # {}
        BY <1>3 DEF ListExpired, Listed
    <2>3. q \in Seq(Listed(s))
        BY <2>2, SoonestProperties, ListLimitType
    <2>4. \A i \in DOMAIN q : q[i] \in Jobs
        BY <2>2, <2>3
    <2>5. WellRead(q, <<>>)
        BY <2>4 DEF WellRead
    <2> QED BY <1>0, <2>1, <2>5 DEF Sweep
<1>4. CASE FetchArtifacts(s)
    <2> DEFINE n == Len(arts[s]) + 1
               read == Append(arts[s], artRows[todo[s][n]])
    <2>1. /\ Len(arts[s]) \in Nat /\ Len(arts[s]) < Len(todo[s])
          /\ todo[s] \in Seq(Jobs) /\ arts[s] \in Seq(SUBSET Nat)
        BY <1>0, <1>4 DEF FetchArtifacts, TypeOK, JanitorTypeOK
    <2>2. n \in DOMAIN todo[s] /\ todo[s][n] \in Jobs /\ artRows[todo[s][n]] \in SUBSET Nat
        BY <2>1 DEF TypeOK, StorageTypeOK
    <2>3. /\ Len(read) = n /\ DOMAIN read = 1 .. n
          /\ read[n] = artRows[todo[s][n]]
          /\ \A i \in 1 .. Len(arts[s]) : read[i] = arts[s][i]
        BY <2>1, <2>2, AppendProperties
    <2> HIDE DEF read
    <2>4. WellRead(todo[s], read)
        <3> SUFFICES ASSUME NEW i \in DOMAIN todo[s], i \in DOMAIN read, HasRow(todo[s][i])
                     PROVE  read[i] = artRows[todo[s][i]]
            BY <1>1 DEF WellRead
        <3>1. CASE i # n
            <4>1. i \in DOMAIN arts[s] /\ read[i] = arts[s][i]
                BY <2>1, <2>3, <3>1
            <4> QED BY <1>1, <4>1 DEF WellRead
        <3> QED BY <2>3, <3>1
    <2>5. \E place \in {"files", "fetch", "idle"} :
             \/ Sweep(s, place, todo[s], read)
             \/ Sweep(s, place, <<>>, <<>>)
        BY <1>4 DEF FetchArtifacts, Finished, read
    <2> QED BY <1>0, <1>2, <2>4, <2>5 DEF Sweep
<1>5. CASE PruneFiles(s)
    <2> DEFINE j == Head(todo[s])
    <2>1. /\ todo[s] \in Seq(Jobs) /\ todo[s] # <<>> /\ arts[s] \in Seq(SUBSET Nat)
          /\ Len(arts[s]) = Len(todo[s])
        BY <1>0, <1>5 DEF PruneFiles, TypeOK, JanitorTypeOK
    <2>2. /\ j = todo[s][1] /\ 1 \in DOMAIN todo[s] /\ j \in Jobs
          /\ Head(arts[s]) = arts[s][1] /\ 1 \in DOMAIN arts[s]
        <3>1. Len(todo[s]) \in Nat \ {0}
            BY <2>1, EmptySeq
        <3> QED BY <2>1, <3>1, HeadTailProperties, EmptySeq
    <2>3. files' = files \ Known(s) /\ Sweep(s, "row", todo[s], arts[s])
        BY <1>5 DEF PruneFiles
    <2>4. ASSUME HasRow(j) PROVE PageFiles(j) \cap files' = {}
        <3>1. Head(arts[s]) = artRows[j]
            BY <1>1, <2>2, <2>4 DEF WellRead
        <3> QED BY <2>3, <3>1 DEF Known, PageFiles
    <2> QED BY <1>0, <1>1, <2>3, <2>4 DEF Sweep
<1>6. CASE PruneRow(s)
    <2>1. /\ todo[s] \in Seq(Jobs) /\ todo[s] # <<>> /\ arts[s] \in Seq(SUBSET Nat)
          /\ Len(arts[s]) = Len(todo[s])
        BY <1>0, <1>6 DEF PruneRow, TypeOK, JanitorTypeOK
    <2>2. arts[s] # <<>> /\ Len(todo[s]) \in Nat \ {0}
        BY <2>1, EmptySeq
    <2>3. /\ Tail(todo[s]) \in Seq(Jobs)
          /\ Len(Tail(todo[s])) = Len(todo[s]) - 1
          /\ \A i \in 1 .. Len(Tail(todo[s])) : Tail(todo[s])[i] = todo[s][i + 1]
        BY <2>1, HeadTailProperties
    <2>4. /\ Tail(arts[s]) \in Seq(SUBSET Nat)
          /\ Len(Tail(arts[s])) = Len(arts[s]) - 1
          /\ \A i \in 1 .. Len(Tail(arts[s])) : Tail(arts[s])[i] = arts[s][i + 1]
        BY <2>1, <2>2, HeadTailProperties
    <2>5. ASSUME NEW i \in DOMAIN Tail(todo[s])
          PROVE  /\ i + 1 \in DOMAIN todo[s] /\ Tail(todo[s])[i] = todo[s][i + 1]
                 /\ i + 1 \in DOMAIN arts[s] /\ Tail(arts[s])[i] = arts[s][i + 1]
        BY <2>1, <2>2, <2>3, <2>4
    <2>6. WellRead(Tail(todo[s]), Tail(arts[s]))
        BY <1>1, <2>5 DEF WellRead
    <2>7. \/ Sweep(s, "files", Tail(todo[s]), Tail(arts[s]))
          \/ Sweep(s, "idle", <<>>, <<>>)
        BY <1>6 DEF PruneRow, Finished
    <2> QED BY <1>0, <1>2, <2>6, <2>7 DEF Sweep
<1>7. CASE SweepCrash(s)
    BY <1>0, <1>2, <1>7 DEF SweepCrash, Finished, Sweep
<1> QED BY <1>3, <1>4, <1>5, <1>6, <1>7 DEF SweepStep

SweepBase == TypeOK /\ RowFollowsUpload /\ TodoIsExpired

LEMMA SweepsNext ==
    ASSUME "fs" \notin Faults, SweepBase, ExpiredIsLeft, SweepsKnow, [Next]_vars
    PROVE  SweepsKnow'
<1> USE DEF SweepBase
<1> SUFFICES ASSUME NEW s \in Sweepers \ Forced
             PROVE  /\ WellRead(todo[s], arts[s])'
                    /\ sweep'[s] = "row" /\ HasRow(Head(todo[s]))' =>
                            PageFiles(Head(todo[s]))' \cap files' = {}
    BY DEF SweepsKnow
<1>0. todo[s] \in Seq(Jobs) /\ todo'[s] \in Seq(Jobs)
    BY TypeNext DEF TypeOK, JanitorTypeOK
<1>1. ASSUME NEW i \in DOMAIN todo'[s]
      PROVE  todo'[s][i] \in Jobs /\ row[todo'[s][i]] # Absent /\ IsExpired(todo'[s][i])
    <2>1. CASE SweepStep(s) \/ SweepCrash(s)
        BY <2>1, SweepStepTodo
    <2>2. CASE todo'[s] = todo[s]
        BY <1>0, <2>2 DEF TodoIsExpired
    <2> QED BY <2>1, <2>2, SweepMoves
<1>2. WellRead(todo'[s], arts'[s])
    BY SweepMoves, SweepKnowsOn DEF SweepsKnow
<1>3. WellRead(todo[s], arts[s])'
    <2> SUFFICES ASSUME NEW i \in DOMAIN todo'[s]
                 PROVE  /\ todo'[s][i] \in Jobs
                        /\ i \in DOMAIN arts'[s] /\ HasRow(todo[s][i])' =>
                                arts'[s][i] = artRows'[todo'[s][i]]
        BY DEF WellRead
    <2> DEFINE j == todo'[s][i]
    <2>1. j \in Jobs /\ row[j] # Absent /\ IsExpired(j)
        BY <1>1
    <2>2. ASSUME row'[j] \in Statuses, i \in DOMAIN arts'[s] PROVE arts'[s][i] = artRows'[j]
        <3>1. HasRow(j) /\ artRows'[j] = artRows[j]
            BY <2>1, <2>2, ExpiredIsQuiet DEF HasRow
        <3> QED BY <1>2, <2>2, <3>1 DEF WellRead
    <2> QED BY <2>1, <2>2 DEF HasRow
<1>4. ASSUME sweep'[s] = "row", HasRow(Head(todo[s]))'
      PROVE  PageFiles(Head(todo[s]))' \cap files' = {}
    <2> DEFINE j == Head(todo'[s])
    <2>1. todo'[s] # <<>>
        BY <1>4, TypeNext DEF TypeOK, JanitorTypeOK
    <2>2. j = todo'[s][1] /\ 1 \in DOMAIN todo'[s]
        BY <1>0, <2>1, HeadTailProperties
    <2>3. j \in Jobs /\ row[j] # Absent /\ IsExpired(j) /\ row'[j] \in Statuses
        BY <1>1, <1>4, <2>2 DEF HasRow
    <2> HIDE DEF j
    <2>4. /\ HasRow(j) /\ artRows'[j] = artRows[j]
          /\ \A k : <<j, k>> \in files' => <<j, k>> \in files
        BY <2>3, ExpiredIsQuiet DEF HasRow
    <2>5. PageFiles(j) \cap files' = {}
        <3>1. CASE SweepStep(s) \/ SweepCrash(s)
            BY <1>4, <2>4, <3>1, SweepKnowsOn DEF j
        <3>2. CASE sweep'[s] = sweep[s] /\ todo'[s] = todo[s]
            <4>1. PageFiles(j) \cap files = {}
                BY <1>4, <2>4, <3>2 DEF SweepsKnow, j
            <4> QED BY <2>4, <4>1 DEF PageFiles, Source, ArtFiles
        <3> QED BY <3>1, <3>2, SweepMoves
    <2> QED BY <2>4, <2>5 DEF j, PageFiles, Source, ArtFiles
<1> QED BY <1>3, <1>4

\* A row that is not rolled back is removed by a sweep that works on it.
LEMMA RemovedBySweep ==
    ASSUME TypeOK, RowFollowsUpload, [Next]_vars, NEW j \in Jobs, HasRow(j),
           row'[j] = Deleted, up[j] # "undoRow"
    PROVE  \E s \in Sweepers :
               sweep[s] = "row" /\ Head(todo[s]) = j /\ UNCHANGED files
<1>0. row[j] \notin {Absent, Deleted} /\ row \in [Jobs -> Statuses \cup {Absent, Deleted}]
    BY DEF HasRow, Statuses, Absent, Deleted, TypeOK, StorageTypeOK
<1>1. CASE Gateway
    BY <1>0, <1>1, GatewayRow, SameStatuses DEF Lifecycle!Insert, Lifecycle!Remove, Deleted
<1>2. CASE Worker
    BY <1>0, <1>2, WorkerRow, SameStatuses DEF Lifecycle!Advance, Statuses, Deleted
<1>3. CASE Janitor
    <2>1. PICK s \in Sweepers : PruneRow(s)
        BY <1>0, <1>3
           DEF Janitor, JanitorNext, SweepStep, SweepCrash, ListExpired, FetchArtifacts,
               PruneFiles, storageVars
    <2>2. Head(todo[s]) \in Jobs
        BY <2>1, HeadTailProperties DEF PruneRow, TypeOK, JanitorTypeOK
    <2>3. Head(todo[s]) = j
        BY <1>0, <2>1, <2>2 DEF PruneRow, DeleteJob
    <2> QED BY <2>1, <2>3 DEF PruneRow
<1>4. CASE Tick \/ UNCHANGED vars
    BY <1>0, <1>4 DEF Tick, vars, storageVars
<1> QED BY <1>1, <1>2, <1>3, <1>4 DEF Next

LEMMA SweepInit == Init => ExpiredIsLeft /\ SweepsKnow
<1> SUFFICES ASSUME Init PROVE ExpiredIsLeft /\ SweepsKnow
    OBVIOUS
<1>1. ExpiredIsLeft
    BY DEF Init, StorageInit, ExpiredIsLeft, HasRow, Statuses, Absent
<1>2. SweepsKnow
    BY DEF Init, JanitorInit, SweepsKnow, WellRead
<1> QED BY <1>1, <1>2

LEMMA SweepsRemember ==
    ASSUME LongTTL, "fs" \notin Faults
    PROVE  Safety => [](SweepBase /\ ExpiredIsLeft /\ SweepsKnow)
<1>1. SweepBase /\ ExpiredIsLeft /\ SweepsKnow /\ [Next]_vars => ExpiredIsLeft' /\ SweepsKnow'
    BY ExpiredNext, SweepsNext DEF SweepBase
<1>2. Safety => []SweepBase
    BY Invariance, TodoInit, TodoNext, PTL DEF Safety, SweepBase
<1> QED BY <1>1, <1>2, SweepInit, PTL DEF Safety

\* If time does not pass the expiry of a job in hand and no file operation fails, a
\* sweep that removes a row, whether or not other sweeps overlap with it, are forced or
\* die, has removed every file that the page of the job lists; and so whatever else
\* fails, crashes or gets lost.
THEOREM FilesAreFirst ==
  ASSUME LongTTL, "fs" \notin Faults
  PROVE  Safety => FilesGoFirst
<1>1. SweepBase /\ SweepsKnow /\ [Next]_vars
        => [\A j \in Jobs :
                HasRow(j) /\ row'[j] = Deleted =>
                    \/ ({Source(j)} \cup ArtFiles(j, artRows[j])) \cap files' = {}
                    \/ up[j] = "undoRow"
                    \/ \E s \in Forced : todo[s] # <<>> /\ Head(todo[s]) = j]_vars
    <2> SUFFICES ASSUME SweepBase, SweepsKnow, [Next]_vars, NEW j \in Jobs, HasRow(j),
                        row'[j] = Deleted, up[j] # "undoRow",
                        ~\E s \in Forced : todo[s] # <<>> /\ Head(todo[s]) = j
                 PROVE  PageFiles(j) \cap files' = {}
        BY DEF PageFiles
    <2>1. PICK s \in Sweepers : sweep[s] = "row" /\ Head(todo[s]) = j /\ UNCHANGED files
        BY RemovedBySweep DEF SweepBase
    <2>2. s \notin Forced
        BY <2>1 DEF SweepBase, TypeOK, JanitorTypeOK
    <2> QED BY <2>1, <2>2 DEF SweepsKnow
<1> QED BY <1>1, SweepsRemember, PTL DEF Safety, FilesGoFirst

-----------------------------------------------------------------------------
(* Completed jobs *)

\* The success of job j was written, its worker knows it, and announces it now or has
\* done so.
Succeeded(j) == \/ <<j, "completed">> \in announced
                \/ \E w \in Workers : at[w] = "completed" /\ job[w] = j

SuccessIsClean ==
    \A j \in Jobs : Succeeded(j) => /\ up[j] = "accepted"
                                    /\ HasRow(j) \/ FilesOf(j) \cap files = {}

\* What succeeded is completed, and nobody works on it.
LEMMA SuccessIsSettled ==
    ASSUME TypeOK, ClaimInv, NEW j \in Jobs, Succeeded(j)
    PROVE  /\ row[j] \in {"completed", Deleted}
           /\ \A w \in Workers : job[w] = j => at[w] \notin Owning
<1> USE DEF ClaimInv
<1>1. ASSUME <<j, "completed">> \in announced
      PROVE  /\ row[j] \in {"completed", Deleted}
             /\ \A w \in Workers : job[w] = j => at[w] \notin Owning
    BY <1>1, ExpectedRows DEF AnnouncedAgrees, NotYetAnnounced, Claimed
<1>2. ASSUME NEW w \in Workers, at[w] = "completed", job[w] = j
      PROVE  /\ row[j] \in {"completed", Deleted}
             /\ \A v \in Workers : job[v] = j => at[v] \notin Owning
    <2>1. Claimed(w) /\ "completed" \notin Owning
        BY <1>2, PlaceFacts DEF Claimed, Owning
    <2> QED BY <1>2, <2>1, ExpectedRows DEF RowAgrees, OneClaim, Claimed
<1> QED BY <1>1, <1>2 DEF Succeeded

\* A job succeeds by the write of its worker.
LEMMA SuccessBegins ==
    ASSUME TypeOK, EventsOfAccepted, [Next]_vars, NEW j \in Jobs, ~Succeeded(j),
           Succeeded(j)'
    PROVE  up[j] = "accepted" /\ row'[j] = "completed"
<1>0. /\ at \in [Workers -> Places] /\ job \in [Workers -> Jobs \cup {NoJob}]
      /\ row \in [Jobs -> Statuses \cup {Absent, Deleted}]
    BY DEF TypeOK, WorkerTypeOK, StorageTypeOK
<1>1. ASSUME <<j, "completed">> \in announced' PROVE FALSE
    <2>1. PICK w \in Workers : Announce(w)
        BY <1>1 DEF Succeeded, Next, vars, workerVars, Gateway, Janitor, Tick, Worker,
                    WorkerNext, HandlerStep, FetchJob, ClaimJob, OpenSource, SaveArtifact,
                    PersistArtifact, CompleteJob, FailJob, DeliverToWorker, StopWorker,
                    ExitWorker, WorkerCrash, Restart, DropMessage
    <2> QED BY <1>1, <2>1 DEF Succeeded, Announce
<1>2. PICK w \in Workers : at'[w] = "completed" /\ job'[w] = j
    BY <1>1 DEF Succeeded
<1>3. HandlerStep(w)
    BY <1>0, <1>2, HandlerMoves DEF Succeeded, Restart, Return, Handle
<1>4. CompleteJob(w)
    BY <1>0, <1>2, <1>3
       DEF HandlerStep, FetchJob, ClaimJob, OpenSource, SaveArtifact, PersistArtifact,
           FailJob, Announce, GoOn, Go, Return, Handle
<1>5. /\ job[w] = j /\ at[w] = "complete"
      /\ UpdateJobStatus(job[w], "completed", TRUE)
    BY <1>0, <1>2, <1>4 DEF CompleteJob, Go, Return, Handle
<1>6. row'[j] = "completed"
    BY <1>0, <1>5 DEF UpdateJobStatus, Failed
<1> QED BY <1>5, <1>6 DEF EventsOfAccepted

LEMMA SuccessNext ==
    ASSUME Forced = {}, SweepBase, SweepsKnow, EventsOfAccepted, ClaimInv,
           CompletedIsComplete, SuccessIsClean, [Next]_vars
    PROVE  SuccessIsClean'
<1> USE DEF SweepBase
<1> SUFFICES ASSUME NEW j \in Jobs, Succeeded(j)'
             PROVE  /\ up'[j] = "accepted"
                    /\ HasRow(j)' \/ FilesOf(j) \cap files' = {}
    BY DEF SuccessIsClean, FilesOf, Outputs, OutputCount
<1>1. CASE ~Succeeded(j)
    BY <1>1, SuccessBegins, AcceptedStays DEF HasRow, Statuses
<1>2. CASE Succeeded(j)
    <2>1. up[j] = "accepted" /\ up'[j] = "accepted"
        BY <1>2, AcceptedStays DEF SuccessIsClean
    <2>2. /\ row[j] \in {"completed", Deleted}
          /\ \A w \in Workers : job[w] = j => at[w] \notin Owning
        BY <1>2, SuccessIsSettled
    <2>3. \A k : <<j, k>> \in files' => <<j, k>> \in files
        BY <2>1, <2>2, FilesMade
    <2>4. CASE HasRow(j) /\ row'[j] = Deleted
        <3>1. PICK s \in Sweepers : sweep[s] = "row" /\ Head(todo[s]) = j /\ UNCHANGED files
            BY <2>1, <2>4, RemovedBySweep
        <3>2. PageFiles(j) \cap files = {}
            BY <2>4, <3>1 DEF SweepsKnow
        <3>3. artRows[j] = Outputs(j)
            BY <2>2, <2>4 DEF CompletedIsComplete, HasRow, Statuses, Deleted
        <3> QED BY <2>1, <3>1, <3>2, <3>3 DEF PageFiles, FilesOf, Source, ArtFiles
    <2>5. CASE HasRow(j) /\ row'[j] # Deleted
        <3>1. row'[j] # Absent
            BY <2>5, RowMoves DEF HasRow, Statuses, Absent, Deleted
        <3> QED BY <2>1, <2>5, <3>1, TypeNext DEF TypeOK, StorageTypeOK, HasRow
    <2>6. CASE ~HasRow(j)
        BY <1>2, <2>1, <2>3, <2>6 DEF SuccessIsClean, FilesOf
    <2> QED BY <2>4, <2>5, <2>6
<1> QED BY <1>1, <1>2

\* If cleanups are not forced, time does not pass the expiry of a job in hand and
\* statements and file operations do not fail, nothing is left of a job that was
\* announced as completed once its row is gone, whatever crashes, stops or gets lost.
THEOREM CompletedJobsLeaveNothing ==
  ASSUME LongTTL, Forced = {}, Faults \cap {"fs", "db"} = {}
  PROVE  Safety => []CompletedLeavesNothing
<1>1. Safety => [](SweepBase /\ ExpiredIsLeft /\ SweepsKnow)
    BY SweepsRemember
<1>2. Safety => [](EventsOfAccepted /\ ClaimInv)
    BY Invariance, EventsInit, EventsNext, PTL DEF Safety
<1>3. Safety => []CompletedIsComplete
    BY CompletedHasAll
<1>4. Init => SuccessIsClean
    BY DEF Init, WorkerInit, SuccessIsClean, Succeeded
<1>5. SuccessIsClean => CompletedLeavesNothing
    BY DEF SuccessIsClean, Succeeded, CompletedLeavesNothing, HasRow, Statuses, Deleted
<1>6. /\ SweepBase /\ SweepsKnow /\ EventsOfAccepted /\ ClaimInv /\ CompletedIsComplete
      /\ SuccessIsClean /\ [Next]_vars
      => SuccessIsClean'
    BY SuccessNext
<1> QED BY <1>1, <1>2, <1>3, <1>4, <1>5, <1>6, PTL DEF Safety
=============================================================================
