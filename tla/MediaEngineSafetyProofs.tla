------------------------ MODULE MediaEngineSafetyProofs ------------------------
(***************************************************************************)
(* The safety invariants of MediaEngine, whatever fails.                   *)
(*                                                                         *)
(* ClaimIsExclusive is not inductive: that two workers do not claim one    *)
(* job rests on the row having left "pending" for good, hence on the row   *)
(* agreeing with the place of every worker until it returns (RowAgrees),   *)
(* on one claim per job (OneClaim) and, for what is announced, on nothing  *)
(* having been announced of a job while it has an owner (NotYetAnnounced). *)
(***************************************************************************)
EXTENDS MediaEngineProofs

\* The row follows the upload that makes it.
RowFollowsUpload ==
    \A j \in Jobs :
        /\ up[j] \in {"idle", "saved"} => row[j] = Absent
        /\ up[j] \in {"created", "accepted", "undoRow"} => row[j] # Absent

\* Every event, waiting or in a handler, is about an accepted upload.
EventsOfAccepted ==
    /\ \A m \in inTransit : up[m[2]] = "accepted"
    /\ \A w \in Workers : \A i \in DOMAIN pending[w] : up[pending[w][i]] = "accepted"
    /\ \A w \in Workers : at[w] # "idle" => up[job[w]] = "accepted"

\* From its claim to its last step, a handler has a claim on its job.
Claimed(w) == at[w] \in Owning \cup Outcomes

\* What the row may say while a worker is at a place, or once it announced
\* the outcome of that name.
Expected(place) ==
    IF place \in Owning THEN {"processing", Deleted}
    ELSE IF place = "completed" THEN {"completed", Deleted}
    ELSE {"processing", "failed", Deleted}

RowAgrees == \A w \in Workers : Claimed(w) => row[job[w]] \in Expected(at[w])

OneClaim ==
    \A v, w \in Workers : v # w /\ Claimed(v) /\ Claimed(w) => job[v] # job[w]

NotYetAnnounced ==
    \A w \in Workers : Claimed(w) => \A m \in announced : m[1] # job[w]

AnnouncedAgrees == \A m \in announced : row[m[1]] \in Expected(m[2])

AnnouncedOnce == \A m, n \in announced : m[1] = n[1] => m[2] = n[2]

ClaimInv == /\ RowAgrees
            /\ OneClaim
            /\ NotYetAnnounced
            /\ AnnouncedAgrees
            /\ AnnouncedOnce

-----------------------------------------------------------------------------
(* What a step does to the jobs table *)

\* JobLifecycle speaks of the same statuses and the same transitions.
LEMMA SameStatuses ==
    /\ Lifecycle!Statuses = Statuses
    /\ Lifecycle!Absent = Absent
    /\ Lifecycle!Deleted = Deleted
    /\ \A s, next : Lifecycle!CanTransitionTo(s, next) <=> CanTransitionTo(s, next)
BY DEF Lifecycle!Statuses, Lifecycle!Absent, Lifecycle!Deleted,
       Lifecycle!CanTransitionTo, Statuses, Absent, Deleted, CanTransitionTo

LEMMA UpdateRow ==
    ASSUME NEW j \in Jobs, NEW s \in Statuses, NEW ok, UpdateJobStatus(j, s, ok)
    PROVE  UNCHANGED row \/ Lifecycle!Advance(j, s)
BY SameStatuses DEF UpdateJobStatus, Lifecycle!Advance

LEMMA DeleteRow ==
    ASSUME StorageTypeOK, NEW j \in Jobs, NEW ok, DeleteJob(j, ok)
    PROVE  UNCHANGED row \/ Lifecycle!Remove(j)
BY SameStatuses DEF StorageTypeOK, DeleteJob, HasRow, Lifecycle!Remove

LEMMA GatewayRow ==
    ASSUME TypeOK, RowFollowsUpload, Gateway
    PROVE  \/ UNCHANGED row
           \/ \E j \in Jobs : up[j] = "saved" /\ Lifecycle!Insert(j)
           \/ \E j \in Jobs : up[j] = "undoRow" /\ Lifecycle!Remove(j)
<1> PICK j \in Jobs : RejectUpload(j) \/ UploadStep(j) \/ UploadCrash(j)
    BY DEF Gateway, UploadNext
<1>1. ASSUME RegisterUpload(j) PROVE UNCHANGED row \/ Lifecycle!Insert(j)
    BY <1>1, SameStatuses
       DEF RegisterUpload, CreateJob, RowFollowsUpload, Lifecycle!Insert,
           NewJobStatus
<1>2. ASSUME UndoRow(j) PROVE UNCHANGED row \/ Lifecycle!Remove(j)
    BY <1>2, DeleteRow DEF UndoRow, TypeOK
<1>3. \/ UNCHANGED row
      \/ RegisterUpload(j) /\ up[j] = "saved"
      \/ UndoRow(j) /\ up[j] = "undoRow"
    BY DEF UploadStep, RejectUpload, UploadCrash, SaveUpload, PublishUpload, UndoFile,
           RegisterUpload, UndoRow, storageVars
<1> QED BY <1>1, <1>2, <1>3

LEMMA WorkerRow ==
    ASSUME TypeOK, Worker
    PROVE  \/ UNCHANGED row
           \/ \E j \in Jobs, s \in Statuses : Lifecycle!Advance(j, s)
<1>1. ASSUME NEW w \in Workers, NEW s \in Statuses, NEW ok, job[w] \in Jobs,
             UpdateJobStatus(job[w], s, ok)
      PROVE  \/ UNCHANGED row
             \/ \E j \in Jobs, t \in Statuses : Lifecycle!Advance(j, t)
    BY <1>1, UpdateRow
<1>2. {"processing", "completed", "failed"} \subseteq Statuses
    BY DEF Statuses
<1>3. ASSUME NEW w \in Workers, ClaimJob(w) \/ CompleteJob(w) \/ FailJob(w)
      PROVE  \/ UNCHANGED row
             \/ \E j \in Jobs, s \in Statuses : Lifecycle!Advance(j, s)
    <2>1. job[w] \in Jobs
        BY <1>3 DEF TypeOK, WorkerTypeOK, ClaimJob, CompleteJob, FailJob
    <2> QED BY <1>1, <1>2, <1>3, <2>1 DEF ClaimJob, CompleteJob, FailJob
<1>4. ASSUME NEW w \in Workers, FetchJob(w) \/ OpenSource(w) \/ SaveArtifact(w)
                                \/ PersistArtifact(w) \/ Announce(w)
      PROVE  UNCHANGED row
    BY <1>4 DEF FetchJob, OpenSource, SaveArtifact, PersistArtifact, Announce,
                storageVars
<1>5. ASSUME NEW w \in Workers, DeliverToWorker(w) \/ StopWorker(w) \/ Restart(w)
      PROVE  UNCHANGED row
    BY <1>5 DEF DeliverToWorker, StopWorker, Restart, storageVars
<1>6. DropMessage => UNCHANGED row
    BY DEF DropMessage, storageVars
<1> QED BY <1>3, <1>4, <1>5, <1>6
        DEF Worker, WorkerNext, HandlerStep, ExitWorker, WorkerCrash

LEMMA JanitorRow ==
    ASSUME TypeOK, Janitor
    PROVE  \/ UNCHANGED row
           \/ \E s \in Sweepers : sweep[s] = "row" /\ Lifecycle!Remove(Head(todo[s]))
<1> PICK s \in Sweepers : SweepStep(s) \/ SweepCrash(s)
    BY DEF Janitor, JanitorNext
<1>1. ASSUME PruneRow(s) PROVE UNCHANGED row \/ Lifecycle!Remove(Head(todo[s]))
    <2>1. Head(todo[s]) \in Jobs
        BY <1>1, HeadTailProperties DEF PruneRow, TypeOK, JanitorTypeOK
    <2> QED BY <1>1, <2>1, DeleteRow DEF PruneRow, TypeOK
<1>2. UNCHANGED row \/ (PruneRow(s) /\ sweep[s] = "row")
    BY DEF SweepStep, SweepCrash, ListExpired, FetchArtifacts, PruneFiles, PruneRow,
           storageVars
<1> QED BY <1>1, <1>2

\* Only an upload inserts a row, and a removed row does not become absent.
LEMMA PresenceKept ==
    ASSUME TypeOK, Worker \/ Janitor \/ Tick, NEW j \in Jobs
    PROVE  row'[j] = Absent <=> row[j] = Absent
<1>1. ASSUME NEW i \in Jobs, NEW s \in Statuses, Lifecycle!Advance(i, s)
      PROVE  row'[j] = Absent <=> row[j] = Absent
    BY <1>1, SameStatuses
       DEF TypeOK, StorageTypeOK, Lifecycle!Advance, CanTransitionTo, Absent, Statuses
<1>2. ASSUME NEW i, Lifecycle!Remove(i)
      PROVE  row'[j] = Absent <=> row[j] = Absent
    BY <1>2, SameStatuses
       DEF TypeOK, StorageTypeOK, Lifecycle!Remove, Absent, Deleted, Statuses
<1>3. Tick => UNCHANGED row
    BY DEF Tick
<1> QED BY <1>1, <1>2, <1>3, WorkerRow, JanitorRow

LEMMA NewJobIsPresent == NewJobStatus # Absent
BY DEF NewJobStatus, Absent

LEMMA RowFollowsUploadNext ==
    TypeOK /\ RowFollowsUpload /\ [Next]_vars => RowFollowsUpload'
<1> SUFFICES ASSUME TypeOK, RowFollowsUpload, [Next]_vars PROVE RowFollowsUpload'
    OBVIOUS
<1>1. CASE Gateway
    <2> PICK j \in Jobs : RejectUpload(j) \/ UploadStep(j) \/ UploadCrash(j)
        BY <1>1 DEF Gateway, UploadNext
    <2> USE DEF TypeOK, StorageTypeOK, UploadTypeOK, RowFollowsUpload, Goto
    <2>1. CASE RegisterUpload(j)
        BY <2>1, NewJobIsPresent DEF RegisterUpload, CreateJob, Failed
    <2>2. CASE UndoRow(j)
        BY <2>2, DeleteRow, SameStatuses DEF UndoRow, Lifecycle!Remove
    <2>3. CASE RejectUpload(j) \/ UploadCrash(j) \/ SaveUpload(j) \/ PublishUpload(j)
                    \/ UndoFile(j)
        BY <2>3 DEF RejectUpload, UploadCrash, SaveUpload, PublishUpload, UndoFile,
                    storageVars
    <2> QED BY <2>1, <2>2, <2>3 DEF UploadStep
<1>2. CASE Worker \/ Janitor \/ Tick
    <2>1. UNCHANGED up
        BY <1>2 DEF Worker, Janitor, Tick
    <2> QED BY <1>2, <2>1, PresenceKept DEF RowFollowsUpload
<1>3. CASE UNCHANGED vars
    BY <1>3 DEF vars, storageVars, RowFollowsUpload
<1> QED BY <1>1, <1>2, <1>3 DEF Next

-----------------------------------------------------------------------------
(* MediaEngine implements JobLifecycle *)

LEMMA LifecycleInit == Init => Lifecycle!Init
BY SameStatuses DEF Init, StorageInit, Lifecycle!Init

LEMMA LifecycleStep == TypeOK /\ RowFollowsUpload /\ [Next]_vars => [Lifecycle!Next]_row
<1> SUFFICES ASSUME TypeOK, RowFollowsUpload, [Next]_vars PROVE [Lifecycle!Next]_row
    OBVIOUS
<1> USE SameStatuses DEF Lifecycle!Next
<1>1. CASE Gateway
    BY <1>1, GatewayRow
<1>2. CASE Worker
    BY <1>2, WorkerRow
<1>3. CASE Janitor
    <2>1. ASSUME NEW s \in Sweepers, sweep[s] = "row" PROVE Head(todo[s]) \in Jobs
        BY <2>1, HeadTailProperties DEF TypeOK, JanitorTypeOK
    <2> QED BY <1>3, <2>1, JanitorRow
<1>4. CASE Tick \/ UNCHANGED vars
    BY <1>4 DEF Tick, vars, storageVars
<1> QED BY <1>1, <1>2, <1>3, <1>4 DEF Next

LEMMA RowFollowsUploadInit == Init => RowFollowsUpload
BY DEF Init, StorageInit, UploadInit, RowFollowsUpload

\* The services, whatever fails and however they interleave, use the jobs table
\* as the abstract one: one insertion, legal transitions, no resurrection.
THEOREM ImplementsLifecycle == Safety => LifecycleSpec
<1>1. Safety => [](TypeOK /\ RowFollowsUpload)
    BY TypeInit, TypeNext, RowFollowsUploadInit, RowFollowsUploadNext, PTL DEF Safety
<1> QED BY <1>1, LifecycleInit, LifecycleStep, PTL
        DEF Safety, LifecycleSpec, Lifecycle!Spec

\* So an outcome, once written, stays until the row is removed, and a removed
\* job never comes back, whatever fails.
THEOREM OutcomesAreFinal ==
  Safety => Lifecycle!TerminalIsFinal /\ Lifecycle!NoResurrection
<1> DEFINE Kept(j) == /\ IsTerminal(row[j]) => row'[j] \in {row[j], Deleted}
                      /\ row[j] = Deleted => row'[j] = Deleted
                      /\ row[j] # Absent => row'[j] # Absent
<1>1. Safety => [](TypeOK /\ RowFollowsUpload)
    BY TypeInit, TypeNext, RowFollowsUploadInit, RowFollowsUploadNext, PTL DEF Safety
<1>2. ASSUME TypeOK, RowFollowsUpload, [Next]_vars, NEW j \in Jobs PROVE Kept(j)
    <2>0. row \in [Jobs -> Statuses \cup {Absent, Deleted}]
        BY <1>2 DEF TypeOK, StorageTypeOK
    <2>1. ASSUME NEW i \in Jobs, NEW s \in Statuses, Lifecycle!Advance(i, s) PROVE Kept(j)
        BY <2>0, <2>1, SameStatuses
           DEF Lifecycle!Advance, CanTransitionTo, IsTerminal, Statuses, Absent, Deleted
    <2>2. ASSUME NEW i \in Jobs, Lifecycle!Insert(i) \/ Lifecycle!Remove(i) PROVE Kept(j)
        BY <2>0, <2>2, SameStatuses
           DEF Lifecycle!Insert, Lifecycle!Remove, IsTerminal, Statuses, Absent, Deleted
    <2> QED BY <1>2, <2>1, <2>2, LifecycleStep, SameStatuses DEF Lifecycle!Next
<1>3. Safety => Lifecycle!TerminalIsFinal
    <2>1. TypeOK /\ RowFollowsUpload /\ [Next]_vars =>
            [\A j \in Jobs : Lifecycle!IsTerminal(row[j]) =>
                row'[j] \in {row[j], Lifecycle!Deleted}]_row
        BY <1>2, SameStatuses DEF Lifecycle!IsTerminal, IsTerminal
    <2> QED BY <1>1, <2>1, PTL DEF Safety, Lifecycle!TerminalIsFinal
<1>4. Safety => Lifecycle!NoResurrection
    <2>1. TypeOK /\ RowFollowsUpload /\ [Next]_vars =>
            [\A j \in Jobs : /\ row[j] = Lifecycle!Deleted => row'[j] = Lifecycle!Deleted
                             /\ row[j] # Lifecycle!Absent => row'[j] # Lifecycle!Absent]_row
        BY <1>2, SameStatuses
    <2> QED BY <1>1, <2>1, PTL DEF Safety, Lifecycle!NoResurrection
<1> QED BY <1>3, <1>4

-----------------------------------------------------------------------------
(* Events *)

LEMMA EventsInit == Init => EventsOfAccepted
<1> SUFFICES ASSUME Init PROVE EventsOfAccepted
    OBVIOUS
<1>1. ASSUME NEW w \in Workers PROVE pending[w] = <<>> /\ at[w] = "idle"
    BY DEF Init, BusInit, WorkerInit
<1>2. inTransit = {}
    BY DEF Init, BusInit
<1> QED BY <1>1, <1>2 DEF EventsOfAccepted

\* An accepted upload stays accepted.
LEMMA AcceptedStays ==
    ASSUME TypeOK, [Next]_vars, NEW j \in Jobs, up[j] = "accepted"
    PROVE  up'[j] = "accepted"
<1>1. ASSUME NEW i \in Jobs, RejectUpload(i) \/ UploadStep(i) \/ UploadCrash(i)
      PROVE  up'[j] = "accepted"
    BY <1>1
       DEF TypeOK, UploadTypeOK, RejectUpload, UploadStep, UploadCrash, SaveUpload,
           RegisterUpload, PublishUpload, UndoRow, UndoFile, Goto
<1>2. CASE UNCHANGED up
    BY <1>2
<1> QED BY <1>1, <1>2 DEF Next, Gateway, UploadNext, Worker, Janitor, Tick, vars

LEMMA EventsHandler ==
    ASSUME TypeOK, EventsOfAccepted, NEW w \in Workers, UNCHANGED up,
           HandlerStep(w) \/ Restart(w)
    PROVE  EventsOfAccepted'
<1> USE DEF TypeOK, EventsOfAccepted
<1>1. CASE FetchJob(w)
    <2>1. /\ pending[w] \in Seq(Jobs)
          /\ pending[w] # <<>>
        BY <1>1 DEF FetchJob, BusTypeOK
    <2>2. /\ Len(Tail(pending[w])) = Len(pending[w]) - 1
          /\ Tail(pending[w]) \in Seq(Jobs)
          /\ \A i \in 1 .. Len(Tail(pending[w])) : Tail(pending[w])[i] = pending[w][i + 1]
        BY <2>1, HeadTailProperties
    <2>3. Len(pending[w]) \in Nat \ {0} /\ Head(pending[w]) = pending[w][1]
        BY <2>1, EmptySeq
    <2>4. up[Head(pending[w])] = "accepted"
        BY <2>1, <2>3
    <2>5. \A i \in DOMAIN Tail(pending[w]) : up[Tail(pending[w])[i]] = "accepted"
        <3> SUFFICES ASSUME NEW i \in 1 .. Len(Tail(pending[w]))
                     PROVE  up[Tail(pending[w])[i]] = "accepted"
            BY <2>2, LenProperties
        <3>1. i + 1 \in 1 .. Len(pending[w])
            BY <2>2, <2>3
        <3> QED BY <2>1, <2>2, <3>1
    <2>6. \A v \in Workers : \A i \in DOMAIN pending'[v] : up'[pending'[v][i]] = "accepted"
        BY <1>1, <2>5 DEF FetchJob, BusTypeOK
    <2>7. \A v \in Workers : at'[v] # "idle" => up'[job'[v]] = "accepted"
        BY <1>1, <2>4 DEF FetchJob, Handle, Return, WorkerTypeOK
    <2> QED BY <1>1, <2>6, <2>7 DEF FetchJob
<1>2. CASE Restart(w)
    <2>1. \A v \in Workers : \A i \in DOMAIN pending'[v] : up'[pending'[v][i]] = "accepted"
        BY <1>2 DEF Restart, Resubscribe, BusTypeOK
    <2>2. \A v \in Workers : at'[v] # "idle" => up'[job'[v]] = "accepted"
        BY <1>2 DEF Restart, Return, Handle, WorkerTypeOK
    <2> QED BY <1>2, <2>1, <2>2 DEF Restart
<1>3. CASE HandlerStep(w) /\ ~FetchJob(w)
    <2>1. at[w] # "idle" /\ UNCHANGED busVars
        BY <1>3
           DEF HandlerStep, ClaimJob, OpenSource, SaveArtifact, PersistArtifact,
               CompleteJob, FailJob, Announce, Outcomes
    <2>2. \A v \in Workers : at'[v] # "idle" => at[v] # "idle" /\ job'[v] = job[v]
        BY <1>3
           DEF HandlerStep, ClaimJob, OpenSource, SaveArtifact, PersistArtifact,
               CompleteJob, FailJob, Announce, Outcomes, Go, GoOn, Return, Handle,
               WorkerTypeOK
    <2> QED BY <2>1, <2>2 DEF busVars
<1> QED BY <1>1, <1>2, <1>3

LEMMA EventsNext == TypeOK /\ EventsOfAccepted /\ [Next]_vars => EventsOfAccepted'
<1> SUFFICES ASSUME TypeOK, EventsOfAccepted, [Next]_vars PROVE EventsOfAccepted'
    OBVIOUS
<1>1. CASE Gateway
    <2>1. PICK j \in Jobs : \/ UNCHANGED inTransit
                            \/ Publish(j) /\ up'[j] = "accepted"
        BY <1>1
           DEF Gateway, UploadNext, RejectUpload, UploadStep, UploadCrash, SaveUpload,
               RegisterUpload, PublishUpload, UndoRow, UndoFile, Goto, busVars, TypeOK,
               UploadTypeOK
    <2>2. UNCHANGED <<pending, at, job>>
        BY <1>1
           DEF Gateway, UploadNext, RejectUpload, UploadStep, UploadCrash, SaveUpload,
               RegisterUpload, PublishUpload, UndoRow, UndoFile, busVars, workerVars
    <2>3. \A m \in inTransit' : up'[m[2]] = "accepted"
        BY <2>1, AcceptedStays DEF Publish, EventsOfAccepted, TypeOK, BusTypeOK
    <2>4. \A w \in Workers : \A i \in DOMAIN pending[w] : pending[w][i] \in Jobs
        BY DEF TypeOK, BusTypeOK
    <2>5. \A w \in Workers : at[w] # "idle" => job[w] \in Jobs
        BY DEF TypeOK, WorkerTypeOK
    <2> QED BY <2>2, <2>3, <2>4, <2>5, AcceptedStays DEF EventsOfAccepted
<1>2. CASE Worker
    <2>1. UNCHANGED up
        BY <1>2 DEF Worker
    <2>2. ASSUME NEW w \in Workers, DeliverToWorker(w) PROVE EventsOfAccepted'
        <3>1. PICK j \in Jobs : Deliver(w, j)
            BY <2>2 DEF DeliverToWorker
        <3>2. up[j] = "accepted"
            BY <3>1 DEF Deliver, EventsOfAccepted
        <3>3. pending[w] \in Seq(Jobs) /\ pending'[w] = Append(pending[w], j)
            BY <3>1 DEF Deliver, TypeOK, BusTypeOK
        <3>4. \A i \in DOMAIN pending'[w] : up[pending'[w][i]] = "accepted"
            BY <3>2, <3>3 DEF EventsOfAccepted
        <3>5. \A v \in Workers : \A i \in DOMAIN pending'[v] : up[pending'[v][i]] = "accepted"
            BY <3>1, <3>4 DEF Deliver, EventsOfAccepted, TypeOK, BusTypeOK
        <3> QED BY <2>1, <2>2, <3>1, <3>5
                DEF DeliverToWorker, Deliver, EventsOfAccepted, workerVars
    <2>3. ASSUME NEW w \in Workers, StopWorker(w) PROVE EventsOfAccepted'
        BY <2>1, <2>3 DEF StopWorker, Unsubscribe, EventsOfAccepted, TypeOK, BusTypeOK
    <2>4. ASSUME DropMessage PROVE EventsOfAccepted'
        BY <2>1, <2>4 DEF DropMessage, Drop, EventsOfAccepted, workerVars
    <2> QED BY <1>2, <2>1, <2>2, <2>3, <2>4, EventsHandler
            DEF Worker, WorkerNext, ExitWorker, WorkerCrash
<1>3. CASE Janitor \/ Tick \/ UNCHANGED vars
    BY <1>3 DEF Janitor, Tick, vars, busVars, workerVars, EventsOfAccepted
<1> QED BY <1>1, <1>2, <1>3 DEF Next

\* No event runs ahead of the row it is about.
THEOREM EventsFollow == Safety => []EventsFollowRows
<1>1. TypeOK /\ RowFollowsUpload /\ EventsOfAccepted => EventsFollowRows
    <2> SUFFICES ASSUME TypeOK, RowFollowsUpload, EventsOfAccepted, NEW j \in Jobs,
                        InBus(j) \/ Handled(j)
                 PROVE  row[j] # Absent /\ up[j] = "accepted"
        BY DEF EventsFollowRows
    <2>1. ASSUME Handled(j) PROVE up[j] = "accepted"
        BY <2>1, WorkerAssumption DEF Handled, EventsOfAccepted, TypeOK, WorkerTypeOK
    <2>2. ASSUME InBus(j) PROVE up[j] = "accepted"
        BY <2>2 DEF InBus, EventsOfAccepted
    <2> QED BY <2>1, <2>2 DEF RowFollowsUpload
<1>2. Safety => [](TypeOK /\ RowFollowsUpload /\ EventsOfAccepted)
    BY TypeInit, TypeNext, RowFollowsUploadInit, RowFollowsUploadNext, EventsInit,
       EventsNext, PTL DEF Safety
<1> QED BY <1>1, <1>2, PTL

-----------------------------------------------------------------------------
(* Claims *)

LEMMA ExpectedRows ==
    /\ \A place : Deleted \in Expected(place) /\ Absent \notin Expected(place)
    /\ \A place : "pending" \notin Expected(place)
    /\ \A place \in Owning : Expected(place) = {"processing", Deleted}
    /\ Expected("completed") = {"completed", Deleted}
    /\ Expected("failed") = {"processing", "failed", Deleted}
BY DEF Expected, Absent, Deleted, Owning

LEMMA ClaimInit == Init => ClaimInv
<1> SUFFICES ASSUME Init PROVE ClaimInv
    OBVIOUS
<1>1. announced = {} /\ \A w \in Workers : at[w] = "idle"
    BY DEF Init, WorkerInit
<1>2. \A w \in Workers : ~Claimed(w)
    BY <1>1 DEF Claimed, Owning, Outcomes
<1> QED BY <1>1, <1>2
        DEF ClaimInv, RowAgrees, OneClaim, NotYetAnnounced, AnnouncedAgrees, AnnouncedOnce

\* No worker moves, and rows are only inserted or removed.
LEMMA QuietStep ==
    ASSUME TypeOK, ClaimInv, UNCHANGED <<at, job, announced>>,
           \A j \in Jobs : row'[j] \in {row[j], Deleted} \/ row[j] = Absent
    PROVE  ClaimInv'
<1> USE DEF ClaimInv
<1>1. \A w \in Workers : Claimed(w)' <=> Claimed(w)
    BY DEF Claimed
<1>2. \A w \in Workers : Claimed(w) => job[w] \in Jobs
    BY DEF Claimed, Owning, Outcomes, TypeOK, WorkerTypeOK
<1>3. \A m \in announced : m[1] \in Jobs
    BY DEF TypeOK, WorkerTypeOK
<1>4. RowAgrees'
    BY <1>1, <1>2, ExpectedRows DEF RowAgrees, Expected
<1>5. AnnouncedAgrees'
    BY <1>3, ExpectedRows DEF AnnouncedAgrees, Expected
<1> QED BY <1>1, <1>4, <1>5 DEF OneClaim, NotYetAnnounced, AnnouncedOnce

\* One worker gives up its claim, or keeps it from one owning place to the next.
LEMMA KeepClaim ==
    ASSUME TypeOK, ClaimInv, NEW w \in Workers, UNCHANGED <<row, announced>>,
           NEW place \in Places, NEW j, NEW n, Handle(w, place, j, n),
           \/ place \notin Owning \cup Outcomes
           \/ Claimed(w) /\ j = job[w] /\ Expected(place) = Expected(at[w])
    PROVE  ClaimInv'
<1> USE DEF ClaimInv
<1>1. /\ at' = [at EXCEPT ![w] = place]
      /\ job' = [job EXCEPT ![w] = j]
    BY DEF Handle
<1>2. at \in [Workers -> Places] /\ job \in [Workers -> Jobs \cup {NoJob}]
    BY DEF TypeOK, WorkerTypeOK
<1>3. ASSUME NEW v \in Workers, Claimed(v)'
      PROVE  Claimed(v) /\ job'[v] = job[v] /\ Expected(at'[v]) = Expected(at[v])
    BY <1>1, <1>2, <1>3 DEF Claimed
<1>4. RowAgrees'
    BY <1>3 DEF RowAgrees, Expected
<1>5. AnnouncedAgrees'
    BY DEF AnnouncedAgrees, Expected
<1>6. OneClaim'
    BY <1>3 DEF OneClaim
<1> QED BY <1>3, <1>4, <1>5, <1>6 DEF NotYetAnnounced, AnnouncedOnce

\* One worker moves the row of its job along: it claims a pending one, or it
\* writes the outcome of one it owns.
LEMMA OwnerStep ==
    ASSUME TypeOK, ClaimInv, NEW w \in Workers, UNCHANGED announced, job[w] \in Jobs,
           NEW place \in Places, NEW s \in Statuses,
           Handle(w, place, job[w], 0) \/ Return(w),
           row[job[w]] = "pending" \/ Claimed(w),
           row' = [row EXCEPT ![job[w]] = s],
           Handle(w, place, job[w], 0) => s \in Expected(place)
    PROVE  ClaimInv'
<1> USE DEF ClaimInv
<1>1. at \in [Workers -> Places] /\ job \in [Workers -> Jobs \cup {NoJob}]
    BY DEF TypeOK, WorkerTypeOK
<1>2. /\ row \in [Jobs -> Statuses \cup {Absent, Deleted}]
      /\ row'[job[w]] = s
      /\ \A j \in Jobs \ {job[w]} : row'[j] = row[j]
    BY DEF TypeOK, StorageTypeOK
<1>3. \A m \in announced : m[1] \in Jobs /\ m[1] # job[w]
    BY ExpectedRows DEF NotYetAnnounced, AnnouncedAgrees, TypeOK, WorkerTypeOK
<1>4. \A v \in Workers \ {w} :
          /\ at'[v] = at[v] /\ job'[v] = job[v]
          /\ Claimed(v)' <=> Claimed(v)
    BY <1>1 DEF Handle, Return, Claimed
<1>5. \A v \in Workers \ {w} : Claimed(v) => job[v] \in Jobs /\ job[v] # job[w]
    BY ExpectedRows
       DEF OneClaim, RowAgrees, Claimed, Owning, Outcomes, TypeOK, WorkerTypeOK
<1>6. Claimed(w)' => at'[w] = place /\ job'[w] = job[w] /\ s \in Expected(place)
    BY <1>1 DEF Handle, Return, Claimed, Owning, Outcomes
<1>7. RowAgrees'
    <2> SUFFICES ASSUME NEW v \in Workers, Claimed(v)'
                 PROVE  row'[job'[v]] \in Expected(at'[v])
        BY DEF RowAgrees, Expected
    <2> QED BY <1>2, <1>4, <1>5, <1>6 DEF RowAgrees
<1>8. AnnouncedAgrees'
    BY <1>2, <1>3 DEF AnnouncedAgrees, Expected
<1>9. OneClaim'
    BY <1>4, <1>5, <1>6 DEF OneClaim
<1>10. NotYetAnnounced'
    BY <1>3, <1>4, <1>6 DEF NotYetAnnounced
<1> QED BY <1>7, <1>8, <1>9, <1>10 DEF AnnouncedOnce

\* A write of the status either leaves the rows alone or moves a legal one.
LEMMA UpdateOutcome ==
    ASSUME NEW j \in Jobs, NEW s \in Statuses, NEW ok, UpdateJobStatus(j, s, ok)
    PROVE  \/ UNCHANGED row /\ ~ok
           \/ CanTransitionTo(row[j], s) /\ row' = [row EXCEPT ![j] = s]
BY DEF UpdateJobStatus, Failed

LEMMA PlaceFacts ==
    /\ Owning \cup Outcomes \subseteq Places
    /\ {"open", "save", "persist", "complete", "fail"} \subseteq Owning
    /\ "completed" \in Outcomes /\ "failed" \in Outcomes
    /\ {"processing", "completed", "failed"} \subseteq Statuses
    /\ {"idle", "claim"} \subseteq Places \ (Owning \cup Outcomes)
BY DEF Owning, Outcomes, Places, Statuses

\* FailJob goes on to "failed" even if nothing was written.
LEMMA FailUnwritten ==
    ASSUME TypeOK, ClaimInv, NEW w \in Workers, at[w] = "fail", Go(w, "failed"),
           UNCHANGED <<row, announced>>
    PROVE  ClaimInv'
<1> USE DEF ClaimInv
<1>1. at \in [Workers -> Places] /\ job \in [Workers -> Jobs \cup {NoJob}]
    BY DEF TypeOK, WorkerTypeOK
<1>2. at' = [at EXCEPT ![w] = "failed"] /\ \A v \in Workers : job'[v] = job[v]
    BY <1>1 DEF Go, Handle
<1>3. \A v \in Workers : Claimed(v)' => Claimed(v)
    BY <1>1, <1>2, PlaceFacts DEF Claimed
<1>4. \A v \in Workers : Claimed(v)' => Expected(at[v]) \subseteq Expected(at'[v])
    BY <1>1, <1>2, PlaceFacts, ExpectedRows
<1>5. RowAgrees'
    BY <1>2, <1>3, <1>4 DEF RowAgrees, Expected
<1>6. AnnouncedAgrees'
    BY DEF AnnouncedAgrees, Expected
<1> QED BY <1>2, <1>3, <1>5, <1>6 DEF OneClaim, NotYetAnnounced, AnnouncedOnce

\* What is announced is what the row says, and its worker gives up the claim.
LEMMA AnnounceStep ==
    ASSUME TypeOK, ClaimInv, NEW w \in Workers, Announce(w)
    PROVE  ClaimInv'
<1> USE DEF ClaimInv
<1> DEFINE m == <<job[w], at[w]>>
<1>1. /\ at[w] \in Outcomes
      /\ announced' \in {announced, announced \cup {m}}
      /\ Return(w) /\ UNCHANGED row
    BY DEF Announce, storageVars
<1>2. Claimed(w)
    BY <1>1 DEF Claimed
<1>3. at \in [Workers -> Places] /\ job \in [Workers -> Jobs \cup {NoJob}]
    BY DEF TypeOK, WorkerTypeOK
<1>4. ~Claimed(w)' /\ \A v \in Workers \ {w} : at'[v] = at[v] /\ job'[v] = job[v]
    BY <1>1, <1>3, PlaceFacts DEF Return, Handle, Claimed
<1>5. \A v \in Workers : Claimed(v)' => v # w /\ Claimed(v)
    BY <1>4 DEF Claimed
<1>6. RowAgrees'
    BY <1>1, <1>4, <1>5 DEF RowAgrees, Expected
<1>7. OneClaim'
    BY <1>4, <1>5 DEF OneClaim
<1>8. NotYetAnnounced'
    BY <1>1, <1>2, <1>4, <1>5 DEF NotYetAnnounced, OneClaim
<1>9. AnnouncedAgrees'
    BY <1>1, <1>2 DEF AnnouncedAgrees, RowAgrees, Expected
<1>10. AnnouncedOnce'
    BY <1>1, <1>2 DEF AnnouncedOnce, NotYetAnnounced
<1> QED BY <1>6, <1>7, <1>8, <1>9, <1>10

LEMMA ClaimHandler ==
    ASSUME TypeOK, ClaimInv, NEW w \in Workers, HandlerStep(w)
    PROVE  ClaimInv'
<1>0. at[w] # "idle" => job[w] \in Jobs
    BY DEF TypeOK, WorkerTypeOK
<1> USE PlaceFacts, ExpectedRows
<1>1. CASE FetchJob(w)
    BY <1>1, KeepClaim DEF FetchJob, Return, storageVars
<1>2. CASE ClaimJob(w)
    <2>1. PICK ok \in BOOLEAN : /\ UpdateJobStatus(job[w], "processing", ok)
                               /\ IF ok THEN Go(w, "open") ELSE Return(w)
        BY <1>2 DEF ClaimJob
    <2>2. job[w] \in Jobs /\ UNCHANGED announced
        BY <1>0, <1>2 DEF ClaimJob
    <2>3. CASE UNCHANGED row /\ ~ok
        BY <2>1, <2>2, <2>3, KeepClaim DEF Return
    <2>4. CASE /\ CanTransitionTo(row[job[w]], "processing")
               /\ row' = [row EXCEPT ![job[w]] = "processing"]
        <3>1. row[job[w]] = "pending"
            BY <2>4 DEF CanTransitionTo
        <3> QED BY <2>1, <2>2, <2>4, <3>1, OwnerStep DEF Go
    <2> QED BY <2>1, <2>2, <2>3, <2>4, UpdateOutcome
<1>3. CASE OpenSource(w)
    BY <1>3, KeepClaim DEF OpenSource, Go, Claimed, storageVars
<1>4. CASE SaveArtifact(w)
    BY <1>4, KeepClaim DEF SaveArtifact, GoOn, Go, Claimed
<1>5. CASE PersistArtifact(w)
    BY <1>5, KeepClaim DEF PersistArtifact, GoOn, Go, Claimed
<1>6. CASE CompleteJob(w)
    <2>1. PICK ok \in BOOLEAN : /\ UpdateJobStatus(job[w], "completed", ok)
                               /\ IF ok THEN Go(w, "completed") ELSE Return(w)
        BY <1>6 DEF CompleteJob
    <2>2. job[w] \in Jobs /\ UNCHANGED announced /\ Claimed(w)
        BY <1>0, <1>6 DEF CompleteJob, Claimed
    <2>3. CASE UNCHANGED row /\ ~ok
        BY <2>1, <2>2, <2>3, KeepClaim DEF Return
    <2>4. CASE row' = [row EXCEPT ![job[w]] = "completed"]
        BY <2>1, <2>2, <2>4, OwnerStep DEF Go
    <2> QED BY <2>1, <2>2, <2>3, <2>4, UpdateOutcome
<1>7. CASE FailJob(w)
    <2>1. PICK ok \in BOOLEAN : UpdateJobStatus(job[w], "failed", ok)
        BY <1>7 DEF FailJob
    <2>2. /\ job[w] \in Jobs /\ UNCHANGED announced /\ Claimed(w)
          /\ Go(w, "failed") /\ at[w] = "fail"
        BY <1>0, <1>7 DEF FailJob, Claimed
    <2>3. CASE UNCHANGED row
        BY <2>2, <2>3, FailUnwritten
    <2>4. CASE row' = [row EXCEPT ![job[w]] = "failed"]
        BY <2>2, <2>4, OwnerStep DEF Go
    <2> QED BY <2>1, <2>2, <2>3, <2>4, UpdateOutcome
<1>8. CASE Announce(w)
    BY <1>8, AnnounceStep
<1> QED BY <1>1, <1>2, <1>3, <1>4, <1>5, <1>6, <1>7, <1>8 DEF HandlerStep

LEMMA ClaimNext == TypeOK /\ RowFollowsUpload /\ ClaimInv /\ [Next]_vars => ClaimInv'
<1> SUFFICES ASSUME TypeOK, RowFollowsUpload, ClaimInv, [Next]_vars PROVE ClaimInv'
    OBVIOUS
<1>1. CASE Gateway
    <2>1. UNCHANGED <<at, job, announced>>
        BY <1>1 DEF Gateway, workerVars
    <2>2. \A j \in Jobs : row'[j] \in {row[j], Deleted} \/ row[j] = Absent
        BY <1>1, GatewayRow, SameStatuses
           DEF TypeOK, StorageTypeOK, Lifecycle!Insert, Lifecycle!Remove
    <2> QED BY <2>1, <2>2, QuietStep
<1>2. CASE Worker
    <2>1. ASSUME NEW w \in Workers, HandlerStep(w) PROVE ClaimInv'
        BY <2>1, ClaimHandler
    <2>2. ASSUME NEW w \in Workers, Restart(w) PROVE ClaimInv'
        BY <2>2, KeepClaim, PlaceFacts DEF Restart, Return, storageVars
    <2>3. ASSUME DropMessage \/ \E w \in Workers : DeliverToWorker(w) \/ StopWorker(w)
          PROVE  ClaimInv'
        <3>1. UNCHANGED <<at, job, announced, row>>
            BY <2>3 DEF DropMessage, DeliverToWorker, StopWorker, workerVars, storageVars
        <3> QED BY <3>1, QuietStep
    <2> QED BY <1>2, <2>1, <2>2, <2>3
            DEF Worker, WorkerNext, ExitWorker, WorkerCrash
<1>3. CASE Janitor
    <2>1. UNCHANGED <<at, job, announced>>
        BY <1>3 DEF Janitor, workerVars
    <2>2. \A j \in Jobs : row'[j] \in {row[j], Deleted}
        BY <1>3, JanitorRow, SameStatuses DEF TypeOK, StorageTypeOK, Lifecycle!Remove
    <2> QED BY <2>1, <2>2, QuietStep
<1>4. CASE Tick \/ UNCHANGED vars
    <2>1. UNCHANGED <<at, job, announced, row>>
        BY <1>4 DEF Tick, vars, workerVars, storageVars
    <2> QED BY <2>1, QuietStep
<1> QED BY <1>1, <1>2, <1>3, <1>4 DEF Next

LEMMA Invariance == Safety => [](TypeOK /\ RowFollowsUpload /\ ClaimInv)
BY TypeInit, TypeNext, RowFollowsUploadInit, RowFollowsUploadNext, ClaimInit, ClaimNext,
   PTL DEF Safety

\* No job is ever processed by two workers, whatever the queue groups, the lost
\* and repeated deliveries and the crashes.
THEOREM ClaimsAreExclusive == Safety => []ClaimIsExclusive
<1>1. ClaimInv => ClaimIsExclusive
    <2> SUFFICES ASSUME ClaimInv, NEW w \in Workers, at[w] \in Owning
                 PROVE  /\ row[job[w]] \in {"processing", Deleted}
                        /\ \A v \in Workers \ {w} : ~Owns(v, job[w])
        BY DEF ClaimIsExclusive
    <2>1. row[job[w]] \in {"processing", Deleted}
        BY ExpectedRows DEF ClaimInv, RowAgrees, Claimed
    <2>2. \A v \in Workers \ {w} : ~Owns(v, job[w])
        BY DEF ClaimInv, OneClaim, Claimed, Owns
    <2> QED BY <2>1, <2>2
<1> QED BY <1>1, Invariance, PTL

\* What the workers published agrees with the rows, and is published one way.
THEOREM OutcomesAgreeWithRows == Safety => []OutcomesAgree
<1>1. TypeOK /\ ClaimInv => OutcomesAgree
    <2> SUFFICES ASSUME TypeOK, ClaimInv, NEW j \in Jobs
                 PROVE  /\ <<j, "completed">> \in announced =>
                                row[j] \in {"completed", Deleted}
                        /\ <<j, "failed">> \in announced =>
                                row[j] \in {"processing", "failed", Deleted}
                        /\ ~({j} \X Outcomes \subseteq announced)
        BY DEF OutcomesAgree
    <2>1. \A s \in Outcomes : <<j, s>> \in announced => row[j] \in Expected(s)
        BY DEF ClaimInv, AnnouncedAgrees
    <2>2. \A s, t \in Outcomes :
              <<j, s>> \in announced /\ <<j, t>> \in announced => s = t
        BY DEF ClaimInv, AnnouncedOnce
    <2> QED BY <2>1, <2>2, ExpectedRows DEF Outcomes
<1> QED BY <1>1, Invariance, PTL

-----------------------------------------------------------------------------
(* MediaEngine implements JobOwnership *)

Claimable == {j \in Jobs : row[j] \in {Absent, "pending"}}
Owners    == [j \in Jobs |-> {w \in Workers : Owns(w, j)}]

\* A handler that neither gains nor loses a job leaves the owners alone.
LEMMA OwnersKept ==
    ASSUME TypeOK, NEW w \in Workers, NEW place \in Places, NEW j, NEW n,
           Handle(w, place, j, n),
           \/ place \notin Owning /\ at[w] \notin Owning
           \/ place \in Owning /\ at[w] \in Owning /\ j = job[w]
    PROVE  UNCHANGED Owners
<1>1. \A v \in Workers, i \in Jobs : Owns(v, i)' <=> Owns(v, i)
    BY DEF TypeOK, WorkerTypeOK, Handle, Owns
<1> QED BY <1>1 DEF Owners

\* The only owner of a job stops owning it.
LEMMA OwnerGone ==
    ASSUME TypeOK, ClaimInv, NEW w \in Workers, NEW place \in Places \ Owning,
           NEW j, NEW n, at[w] \in Owning, Handle(w, place, j, n)
    PROVE  /\ job[w] \in Jobs
           /\ Owners[job[w]] # {}
           /\ Owners' = [Owners EXCEPT ![job[w]] = {}]
<1>1. /\ job[w] \in Jobs
      /\ Claimed(w)
      /\ Owns(w, job[w])
    BY DEF TypeOK, WorkerTypeOK, Owning, Claimed, Owns
<1>2. \A v \in Workers : Owns(v, job[w]) => v = w
    BY <1>1 DEF Owns, ClaimInv, OneClaim, Claimed
<1>3. \A v \in Workers, i \in Jobs : Owns(v, i)' <=> Owns(v, i) /\ v # w
    BY DEF TypeOK, WorkerTypeOK, Handle, Owns
<1>4. \A i \in Jobs : i # job[w] => {v \in Workers : Owns(v, i)'} = Owners[i]
    BY <1>3 DEF Owners, Owns
<1>5. \A i \in Jobs : i = job[w] => {v \in Workers : Owns(v, i)'} = {}
    BY <1>1, <1>2, <1>3
<1>6. w \in Owners[job[w]]
    BY <1>1 DEF Owners
<1>7. Owners' = [i \in Jobs |-> {v \in Workers : Owns(v, i)'}]
    BY DEF Owners
<1>8. Owners' = [Owners EXCEPT ![job[w]] = {}]
    BY <1>1, <1>4, <1>5, <1>7 DEF Owners
<1> QED BY <1>1, <1>6, <1>8

\* The claim makes one owner of a job that had none.
LEMMA OwnerMade ==
    ASSUME TypeOK, ClaimInv, NEW w \in Workers, at[w] = "claim",
           row[job[w]] = "pending", Go(w, "open")
    PROVE  /\ Owners[job[w]] = {}
           /\ Owners' = [Owners EXCEPT ![job[w]] = {w}]
<1>1. job[w] \in Jobs
    BY DEF TypeOK, WorkerTypeOK
<1>2. \A v \in Workers : ~Owns(v, job[w])
    BY ExpectedRows DEF Owns, ClaimInv, RowAgrees, Claimed
<1>3. \A v \in Workers, i \in Jobs :
          Owns(v, i)' <=> Owns(v, i) \/ (v = w /\ i = job[w])
    BY <1>2 DEF TypeOK, WorkerTypeOK, Go, Handle, Owns, Owning
<1>4. \A i \in Jobs : i # job[w] => {v \in Workers : Owns(v, i)'} = Owners[i]
    BY <1>3 DEF Owners
<1>5. \A i \in Jobs : i = job[w] => {v \in Workers : Owns(v, i)'} = {w}
    BY <1>1, <1>2, <1>3
<1>6. Owners' = [i \in Jobs |-> {v \in Workers : Owns(v, i)'}]
    BY DEF Owners
<1>7. Owners' = [Owners EXCEPT ![job[w]] = {w}]
    BY <1>1, <1>4, <1>5, <1>6 DEF Owners
<1> QED BY <1>1, <1>2, <1>7 DEF Owners

\* Rows that are not claimable stay so, one that is may be withdrawn.
LEMMA ClaimableKept ==
    ASSUME TypeOK, \A j \in Jobs : row'[j] \in {Absent, "pending"} <=>
                                   row[j] \in {Absent, "pending"}
    PROVE  UNCHANGED Claimable
BY DEF Claimable

LEMMA ClaimableLess ==
    ASSUME TypeOK, NEW j \in Jobs, NEW s \in Statuses \cup {Absent, Deleted},
           s \notin {Absent, "pending"}, row' = [row EXCEPT ![j] = s]
    PROVE  Claimable' = Claimable \ {j}
BY DEF Claimable, TypeOK, StorageTypeOK

\* In the terms of JobOwnership.
LEMMA OwnershipTerms ==
    /\ Ownership!vars = <<Claimable, Owners, announced>>
    /\ Ownership!vars' = <<Claimable', Owners', announced'>>
    /\ \A j \in Jobs, w \in Workers :
          (/\ j \in Claimable /\ Owners[j] = {} /\ Claimable' = Claimable \ {j}
           /\ Owners' = [Owners EXCEPT ![j] = {w}] /\ UNCHANGED announced)
              => Ownership!Next
    /\ \A j \in Jobs :
          j \in Claimable /\ Claimable' = Claimable \ {j} /\ UNCHANGED <<Owners, announced>>
              => Ownership!Next
    /\ \A j \in Jobs :
          (/\ Owners[j] # {} /\ Owners' = [Owners EXCEPT ![j] = {}]
           /\ UNCHANGED <<Claimable, announced>>)
              => Ownership!Next
    /\ \A j \in Jobs, s \in Outcomes :
          (/\ j \notin Claimable /\ Owners[j] = {} /\ \A m \in announced : m[1] # j
           /\ announced' = announced \cup {<<j, s>>} /\ UNCHANGED <<Claimable, Owners>>)
              => Ownership!Next
BY DEF Ownership!vars, Ownership!Next, Ownership!Claim, Ownership!Withdraw,
       Ownership!Release, Ownership!Announce, Claimable, Owners, Outcomes

LEMMA OwnershipInit == Init => Ownership!Init
<1> SUFFICES ASSUME Init PROVE Ownership!Init
    OBVIOUS
<1>1. /\ announced = {}
      /\ \A w \in Workers : at[w] = "idle"
      /\ \A j \in Jobs : row[j] = Absent
    BY DEF Init, WorkerInit, StorageInit
<1>2. \A w \in Workers, j \in Jobs : ~Owns(w, j)
    BY <1>1 DEF Owns, Owning
<1> QED BY <1>1, <1>2 DEF Ownership!Init

\* A step of somebody else: at most one row is inserted or removed.
LEMMA OwnershipQuiet ==
    ASSUME TypeOK, UNCHANGED <<at, job, announced>>,
           \/ UNCHANGED row
           \/ \E j \in Jobs : Lifecycle!Insert(j) \/ Lifecycle!Remove(j)
    PROVE  [Ownership!Next]_Ownership!vars
<1>1. UNCHANGED Owners
    BY DEF Owners, Owns
<1>2. CASE UNCHANGED row
    BY <1>1, <1>2, OwnershipTerms DEF Claimable
<1>3. ASSUME NEW j \in Jobs, Lifecycle!Insert(j) PROVE [Ownership!Next]_Ownership!vars
    <2>1. UNCHANGED Claimable
        BY <1>3, SameStatuses, ClaimableKept DEF Lifecycle!Insert, TypeOK, StorageTypeOK
    <2> QED BY <1>1, <2>1, OwnershipTerms
<1>4. ASSUME NEW j \in Jobs, Lifecycle!Remove(j) PROVE [Ownership!Next]_Ownership!vars
    <2>1. /\ row[j] \in Statuses
          /\ row' = [row EXCEPT ![j] = Deleted]
          /\ Deleted \notin {Absent, "pending"}
        BY <1>4, SameStatuses DEF Lifecycle!Remove, Deleted, Absent
    <2>2. Claimable' = Claimable \ {j}
        BY <2>1, ClaimableLess
    <2> QED BY <1>1, <2>2, OwnershipTerms
<1> QED BY <1>2, <1>3, <1>4

LEMMA OwnershipHandler ==
    ASSUME TypeOK, ClaimInv, NEW w \in Workers, HandlerStep(w) \/ Restart(w)
    PROVE  [Ownership!Next]_Ownership!vars
<1>0. at[w] # "idle" => job[w] \in Jobs
    BY DEF TypeOK, WorkerTypeOK
<1> USE PlaceFacts, OwnershipTerms
<1>a. {"idle", "claim", "completed", "failed"} \subseteq Places \ Owning
    BY DEF Places, Owning, Outcomes
<1>1. CASE FetchJob(w)
    <2>1. UNCHANGED Owners
        BY <1>1, <1>a, OwnersKept DEF FetchJob, Return
    <2> QED BY <1>1, <2>1 DEF FetchJob, storageVars, Claimable
<1>2. CASE ClaimJob(w)
    <2>1. PICK ok \in BOOLEAN : /\ UpdateJobStatus(job[w], "processing", ok)
                               /\ IF ok THEN Go(w, "open") ELSE Return(w)
        BY <1>2 DEF ClaimJob
    <2>2. at[w] = "claim" /\ job[w] \in Jobs /\ UNCHANGED announced
        BY <1>0, <1>2 DEF ClaimJob
    <2>3. ASSUME ~ok PROVE UNCHANGED Owners
        BY <1>a, <2>1, <2>2, <2>3, OwnersKept DEF Return
    <2>4. CASE UNCHANGED row /\ ~ok
        BY <2>2, <2>3, <2>4 DEF Claimable
    <2>5. CASE /\ CanTransitionTo(row[job[w]], "processing")
               /\ row' = [row EXCEPT ![job[w]] = "processing"]
        <3>1. row[job[w]] = "pending"
            BY <2>5 DEF CanTransitionTo
        <3>2. Claimable' = Claimable \ {job[w]} /\ job[w] \in Claimable
            <4>1. "processing" \notin {Absent, "pending"}
                BY DEF Absent
            <4> QED BY <2>2, <2>5, <3>1, <4>1, ClaimableLess DEF Claimable
        <3>3. CASE ok
            BY <2>1, <2>2, <3>1, <3>2, <3>3, OwnerMade
        <3>4. CASE ~ok
            BY <2>2, <2>3, <3>2, <3>4
        <3> QED BY <3>3, <3>4
    <2> QED BY <2>1, <2>2, <2>4, <2>5, UpdateOutcome
<1>3. CASE OpenSource(w) \/ SaveArtifact(w) \/ PersistArtifact(w)
    <2>1. /\ UNCHANGED <<row, announced>>
          /\ at[w] \in Owning
          /\ \E place \in Owning : \E n : Handle(w, place, job[w], n)
        BY <1>3 DEF OpenSource, SaveArtifact, PersistArtifact, GoOn, Go, storageVars
    <2>2. UNCHANGED Owners
        BY <2>1, OwnersKept
    <2> QED BY <2>1, <2>2 DEF Claimable
<1>4. CASE CompleteJob(w) \/ FailJob(w)
    <2>1. PICK s \in {"completed", "failed"}, ok \in BOOLEAN :
              UpdateJobStatus(job[w], s, ok)
        BY <1>4 DEF CompleteJob, FailJob
    <2>2. /\ at[w] \in Owning /\ UNCHANGED announced
          /\ \E place \in {"completed", "failed", "idle"} :
                \E j, n : Handle(w, place, j, n)
        BY <1>4 DEF CompleteJob, FailJob, Go, Return
    <2>3. /\ job[w] \in Jobs
          /\ Owners[job[w]] # {}
          /\ Owners' = [Owners EXCEPT ![job[w]] = {}]
        BY <1>a, <2>2, OwnerGone
    <2>4. row[job[w]] \notin {Absent, "pending"}
        BY <2>2, ExpectedRows DEF ClaimInv, RowAgrees, Claimed
    <2>5. UNCHANGED Claimable
        <3>1. row' = [row EXCEPT ![job[w]] = s] => Claimable' = Claimable \ {job[w]}
            BY <2>3, ClaimableLess DEF Absent
        <3>2. job[w] \notin Claimable
            BY <2>4 DEF Claimable
        <3>3. UNCHANGED row => UNCHANGED Claimable
            BY DEF Claimable
        <3> QED BY <2>1, <2>3, <3>1, <3>2, <3>3, UpdateOutcome
    <2> QED BY <2>2, <2>3, <2>5
<1>5. CASE Announce(w)
    <2>1. /\ at[w] \in Outcomes /\ at[w] \notin Owning /\ job[w] \in Jobs
          /\ UNCHANGED row
          /\ announced' \in {announced, announced \cup {<<job[w], at[w]>>}}
        BY <1>0, <1>5 DEF Announce, storageVars, Outcomes, Owning
    <2>2. UNCHANGED Claimable
        BY <2>1 DEF Claimable
    <2>3. UNCHANGED Owners
        BY <1>5, <1>a, <2>1, OwnersKept DEF Announce, Return
    <2>4. Claimed(w)
        BY <2>1 DEF Claimed
    <2>5. job[w] \notin Claimable
        BY <2>4, ExpectedRows DEF Claimable, ClaimInv, RowAgrees
    <2>6. Owners[job[w]] = {}
        <3>1. \A v \in Workers : ~Owns(v, job[w])
            BY <2>1, <2>4 DEF Owns, ClaimInv, OneClaim, Claimed
        <3> QED BY <2>1, <3>1 DEF Owners
    <2>7. \A m \in announced : m[1] # job[w]
        BY <2>4 DEF ClaimInv, NotYetAnnounced
    <2> QED BY <2>1, <2>2, <2>3, <2>5, <2>6, <2>7
<1>6. CASE Restart(w)
    <2>1. UNCHANGED <<row, announced>> /\ Handle(w, "idle", NoJob, 0)
        BY <1>6 DEF Restart, Return, storageVars
    <2>2. UNCHANGED Claimable
        BY <2>1 DEF Claimable
    <2>3. CASE at[w] \in Owning
        BY <1>a, <2>1, <2>2, <2>3, OwnerGone
    <2>4. CASE at[w] \notin Owning
        <3>1. UNCHANGED Owners
            BY <1>a, <2>1, <2>4, OwnersKept
        <3> QED BY <2>1, <2>2, <3>1
    <2> QED BY <2>3, <2>4
<1> QED BY <1>1, <1>2, <1>3, <1>4, <1>5, <1>6 DEF HandlerStep

LEMMA OwnershipStep ==
    TypeOK /\ RowFollowsUpload /\ ClaimInv /\ [Next]_vars => [Ownership!Next]_Ownership!vars
<1> SUFFICES ASSUME TypeOK, RowFollowsUpload, ClaimInv, [Next]_vars
             PROVE  [Ownership!Next]_Ownership!vars
    OBVIOUS
<1>1. CASE Gateway
    <2>1. UNCHANGED <<at, job, announced>>
        BY <1>1 DEF Gateway, workerVars
    <2> QED BY <1>1, <2>1, GatewayRow, OwnershipQuiet
<1>2. CASE Worker
    <2>1. ASSUME NEW w \in Workers, HandlerStep(w) \/ Restart(w)
          PROVE  [Ownership!Next]_Ownership!vars
        BY <2>1, OwnershipHandler
    <2>2. ASSUME DropMessage \/ \E w \in Workers : DeliverToWorker(w) \/ StopWorker(w)
          PROVE  [Ownership!Next]_Ownership!vars
        <3>1. UNCHANGED <<at, job, announced, row>>
            BY <2>2 DEF DropMessage, DeliverToWorker, StopWorker, workerVars, storageVars
        <3> QED BY <3>1, OwnershipQuiet
    <2> QED BY <1>2, <2>1, <2>2 DEF Worker, WorkerNext, ExitWorker, WorkerCrash
<1>3. CASE Janitor
    <2>1. UNCHANGED <<at, job, announced>>
        BY <1>3 DEF Janitor, workerVars
    <2>2. ASSUME NEW s \in Sweepers, sweep[s] = "row" PROVE Head(todo[s]) \in Jobs
        BY <2>2, HeadTailProperties DEF TypeOK, JanitorTypeOK
    <2> QED BY <1>3, <2>1, <2>2, JanitorRow, OwnershipQuiet
<1>4. CASE Tick \/ UNCHANGED vars
    <2>1. UNCHANGED <<at, job, announced, row>>
        BY <1>4 DEF Tick, vars, workerVars, storageVars
    <2> QED BY <2>1, OwnershipQuiet
<1> QED BY <1>1, <1>2, <1>3, <1>4 DEF Next

\* For any number of workers, queue groups and jobs, and whatever fails, a job
\* is owned once, by one worker, and announced once, after that.
THEOREM ImplementsOwnership == Safety => OwnershipSpec
BY Invariance, OwnershipInit, OwnershipStep, PTL
   DEF Safety, OwnershipSpec, Ownership!Spec

-----------------------------------------------------------------------------
(* Removals *)

\* A sweep, unless forced, works on expired jobs only; none comes back to life,
\* because nothing moves the expiry of a row that is there.
TodoIsExpired ==
    \A s \in Sweepers : \A i \in DOMAIN todo[s] :
        /\ row[todo[s][i]] # Absent
        /\ s \notin Forced => IsExpired(todo[s][i])

LEMMA TodoInit == Init => TodoIsExpired
<1> SUFFICES ASSUME Init PROVE TodoIsExpired
    OBVIOUS
<1>1. \A s \in Sweepers : todo[s] = <<>>
    BY DEF Init, JanitorInit
<1> QED BY <1>1 DEF TodoIsExpired

LEMMA SweepStepTodo ==
    ASSUME TypeOK, TodoIsExpired, NEW s \in Sweepers, SweepStep(s) \/ SweepCrash(s)
    PROVE  /\ \A r \in Sweepers \ {s} : todo'[r] = todo[r]
           /\ \A i \in DOMAIN todo'[s] : /\ todo'[s][i] \in Jobs
                                         /\ row[todo'[s][i]] # Absent
                                         /\ s \notin Forced => IsExpired(todo'[s][i])
<1> DEFINE Fine(q) == \A i \in DOMAIN q : /\ q[i] \in Jobs
                                          /\ row[q[i]] # Absent
                                          /\ s \notin Forced => IsExpired(q[i])
<1>1. todo \in [Sweepers -> Seq(Jobs)]
    BY DEF TypeOK, JanitorTypeOK
<1>2. Fine(todo[s]) /\ Fine(<<>>)
    BY <1>1 DEF TodoIsExpired
<1>3. ASSUME NEW place, NEW q, NEW a, Sweep(s, place, q, a), Fine(q)
      PROVE  Fine(todo'[s]) /\ \A r \in Sweepers \ {s} : todo'[r] = todo[r]
    BY <1>1, <1>3 DEF Sweep
<1>4. CASE ListExpired(s)
    <2>1. PICK q \in Soonest(Listed(s), ListLimit(s)) : Sweep(s, "fetch", q, <<>>)
        BY <1>4 DEF ListExpired
    <2>2. Listed(s) \subseteq Jobs /\ Listed(s) # {}
        BY <1>4 DEF ListExpired, Listed
    <2>3. q \in Seq(Listed(s))
        BY <2>2, SoonestProperties, ListLimitType
    <2>4. \A i \in DOMAIN q : q[i] \in Listed(s)
        BY <2>3
    <2>5. Fine(q)
        BY <2>4 DEF Listed, HasRow, Statuses, Absent
    <2> QED BY <1>3, <2>1, <2>5
<1>5. CASE FetchArtifacts(s) \/ PruneFiles(s) \/ SweepCrash(s)
    <2>1. \/ \E place, a : Sweep(s, place, todo[s], a)
          \/ Sweep(s, "idle", <<>>, <<>>)
        BY <1>5 DEF FetchArtifacts, PruneFiles, SweepCrash, Finished
    <2> QED BY <1>2, <1>3, <2>1
<1>6. CASE PruneRow(s)
    <2>1. todo[s] \in Seq(Jobs) /\ todo[s] # <<>>
        BY <1>6 DEF PruneRow, TypeOK, JanitorTypeOK
    <2>2. /\ Tail(todo[s]) \in Seq(Jobs)
          /\ Len(Tail(todo[s])) = Len(todo[s]) - 1
          /\ \A i \in 1 .. Len(Tail(todo[s])) : Tail(todo[s])[i] = todo[s][i + 1]
        BY <2>1, HeadTailProperties
    <2>3. ASSUME NEW i \in DOMAIN Tail(todo[s])
          PROVE  i + 1 \in DOMAIN todo[s] /\ Tail(todo[s])[i] = todo[s][i + 1]
        BY <2>1, <2>2
    <2>4. Fine(Tail(todo[s]))
        BY <1>2, <2>3
    <2>5. \/ Sweep(s, "files", Tail(todo[s]), Tail(arts[s]))
          \/ Sweep(s, "idle", <<>>, <<>>)
        BY <1>6 DEF PruneRow, Finished
    <2> QED BY <1>2, <1>3, <2>4, <2>5
<1> QED BY <1>4, <1>5, <1>6 DEF SweepStep

LEMMA TodoNext ==
    TypeOK /\ RowFollowsUpload /\ TodoIsExpired /\ [Next]_vars => TodoIsExpired'
<1> SUFFICES ASSUME TypeOK, RowFollowsUpload, TodoIsExpired, [Next]_vars
             PROVE  TodoIsExpired'
    OBVIOUS
<1>0. \A s \in Sweepers : \A i \in DOMAIN todo[s] : todo[s][i] \in Jobs
    BY DEF TypeOK, JanitorTypeOK
<1>1. CASE Gateway
    <2>1. UNCHANGED <<todo, clock>>
        BY <1>1
           DEF Gateway, UploadNext, RejectUpload, UploadStep, UploadCrash, SaveUpload,
               RegisterUpload, PublishUpload, UndoRow, UndoFile, storageVars, janitorVars
    <2>2. ASSUME NEW j \in Jobs, row[j] # Absent
          PROVE  row'[j] # Absent /\ expiresAt'[j] = expiresAt[j]
        <3>1. row'[j] # Absent
            BY <1>1, <2>2, GatewayRow, SameStatuses
               DEF TypeOK, StorageTypeOK, Lifecycle!Insert, Lifecycle!Remove, Absent,
                   Deleted
        <3>2. PICK i \in Jobs : RejectUpload(i) \/ UploadStep(i) \/ UploadCrash(i)
            BY <1>1 DEF Gateway, UploadNext
        <3>3. CASE RegisterUpload(i)
            <4>1. i # j
                BY <2>2, <3>3 DEF RegisterUpload, RowFollowsUpload
            <4>2. expiresAt'[j] = expiresAt[j]
                BY <3>3, <4>1 DEF RegisterUpload, CreateJob, TypeOK, StorageTypeOK
            <4> QED BY <3>1, <4>2
        <3>4. CASE ~RegisterUpload(i)
            BY <3>1, <3>2, <3>4
               DEF RejectUpload, UploadStep, UploadCrash, SaveUpload, PublishUpload,
                   UndoRow, UndoFile, storageVars
        <3> QED BY <3>1, <3>3, <3>4
    <2> QED BY <1>0, <2>1, <2>2 DEF TodoIsExpired, IsExpired
<1>2. CASE Worker
    <2>1. UNCHANGED <<todo, clock, expiresAt>>
        BY <1>2
           DEF Worker, WorkerNext, HandlerStep, FetchJob, ClaimJob, OpenSource,
               SaveArtifact, PersistArtifact, CompleteJob, FailJob, Announce,
               DeliverToWorker, StopWorker, ExitWorker, WorkerCrash, Restart, DropMessage,
               storageVars, janitorVars
    <2> QED BY <1>0, <1>2, <2>1, PresenceKept DEF TodoIsExpired, IsExpired
<1>3. CASE Janitor
    <2>1. PICK s \in Sweepers : SweepStep(s) \/ SweepCrash(s)
        BY <1>3 DEF Janitor, JanitorNext
    <2>2. UNCHANGED <<clock, expiresAt>>
        BY <2>1
           DEF SweepStep, SweepCrash, ListExpired, FetchArtifacts, PruneFiles, PruneRow,
               storageVars
    <2>3. ASSUME NEW r \in Sweepers, NEW i \in DOMAIN todo'[r]
          PROVE  /\ todo'[r][i] \in Jobs
                 /\ row[todo'[r][i]] # Absent
                 /\ r \notin Forced => IsExpired(todo'[r][i])
        BY <1>0, <2>1, SweepStepTodo DEF TodoIsExpired
    <2> QED BY <1>3, <2>2, <2>3, PresenceKept DEF TodoIsExpired, IsExpired
<1>4. CASE Tick
    BY <1>4 DEF Tick, TodoIsExpired, IsExpired, TypeOK, StorageTypeOK, JanitorTypeOK,
                janitorVars
<1>5. CASE UNCHANGED vars
    BY <1>5 DEF vars, storageVars, janitorVars, TodoIsExpired, IsExpired
<1> QED BY <1>1, <1>2, <1>3, <1>4, <1>5 DEF Next

LEMMA RemovalStep ==
    ASSUME TypeOK, RowFollowsUpload, TodoIsExpired, [Next]_vars, NEW j \in Jobs,
           HasRow(j), row'[j] = Deleted
    PROVE  \/ IsExpired(j)
           \/ up[j] = "undoRow"
           \/ \E s \in Forced : todo[s] # <<>> /\ Head(todo[s]) = j
<1>1. row[j] # Deleted
    BY DEF HasRow, Statuses, Deleted
<1>2. ASSUME NEW i \in Jobs, Lifecycle!Remove(i) PROVE i = j
    BY <1>1, <1>2 DEF Lifecycle!Remove, TypeOK, StorageTypeOK
<1>3. ASSUME NEW i \in Jobs, Lifecycle!Insert(i) PROVE FALSE
    BY <1>1, <1>3 DEF Lifecycle!Insert, TypeOK, StorageTypeOK, Deleted
<1>4. ASSUME NEW i \in Jobs, NEW s \in Statuses, Lifecycle!Advance(i, s) PROVE FALSE
    BY <1>1, <1>4 DEF Lifecycle!Advance, TypeOK, StorageTypeOK, Deleted, Statuses
<1>5. CASE Gateway
    BY <1>1, <1>2, <1>3, <1>5, GatewayRow
<1>6. CASE Worker
    BY <1>1, <1>4, <1>6, WorkerRow
<1>7. CASE Janitor
    <2>1. PICK s \in Sweepers : sweep[s] = "row" /\ Lifecycle!Remove(Head(todo[s]))
        BY <1>1, <1>7, JanitorRow
    <2>2. todo[s] \in Seq(Jobs) /\ todo[s] # <<>>
        BY <2>1 DEF TypeOK, JanitorTypeOK
    <2>3. Head(todo[s]) \in Jobs /\ Head(todo[s]) = todo[s][1] /\ 1 \in DOMAIN todo[s]
        BY <2>2, HeadTailProperties
    <2>4. Head(todo[s]) = j
        BY <1>2, <2>1, <2>3
    <2> QED BY <2>2, <2>3, <2>4 DEF TodoIsExpired
<1>8. CASE Tick \/ UNCHANGED vars
    BY <1>1, <1>8 DEF Tick, vars, storageVars
<1> QED BY <1>5, <1>6, <1>7, <1>8 DEF Next

\* A job that is neither expired, nor rolled back, nor taken by the forced
\* cleanup keeps its row, however sweeps, uploads and workers interleave.
THEOREM RemovalsAreDue == Safety => OnlyExpiredRemoved
<1>1. Safety => [](TypeOK /\ RowFollowsUpload /\ TodoIsExpired)
    BY TypeInit, TypeNext, RowFollowsUploadInit, RowFollowsUploadNext, TodoInit,
       TodoNext, PTL DEF Safety
<1>2. TypeOK /\ RowFollowsUpload /\ TodoIsExpired /\ [Next]_vars
        => [\A j \in Jobs :
                HasRow(j) /\ row'[j] = Deleted =>
                    \/ IsExpired(j)
                    \/ up[j] = "undoRow"
                    \/ \E s \in Forced : todo[s] # <<>> /\ Head(todo[s]) = j]_vars
    BY RemovalStep
<1> QED BY <1>1, <1>2, PTL DEF Safety, OnlyExpiredRemoved
=============================================================================
