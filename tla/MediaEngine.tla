------------------------------ MODULE MediaEngine ------------------------------
(***************************************************************************)
(* The media engine: gateway, workers and janitor over one database, one   *)
(* volume and one NATS server.                                             *)
(***************************************************************************)
EXTENDS UploadService, WorkerService, JanitorService

CONSTANTS Horizon,          \* bound of the model: the clock stops here
          LongTTL           \* no job expires while it is in hand

ASSUME EngineAssumption == Horizon \in Nat /\ LongTTL \in BOOLEAN

vars == <<storageVars, busVars, up, workerVars, janitorVars>>

Init == /\ StorageInit
        /\ BusInit
        /\ UploadInit
        /\ WorkerInit
        /\ JanitorInit

\* Some message or handler of the workers is about job j.
InBus(j)   == \/ \E g \in Groups : <<g, j>> \in inTransit
              \/ \E w \in Workers : \E i \in DOMAIN pending[w] : pending[w][i] = j
Handled(j) == \E w \in Workers : job[w] = j

\* Somebody is still to act on job j.  One whose gateway or worker died, or whose
\* event was lost, is not in hand: nothing but its expiry happens to it.
InHand(j) == up[j] \in {"created", "undoRow"} \/ InBus(j) \/ Handled(j)

Tick ==
    /\ clock < Horizon
    /\ LongTTL => \A j \in Jobs : HasRow(j) /\ InHand(j) => expiresAt[j] > clock + 1
    /\ clock' = clock + 1
    /\ UNCHANGED <<row, expiresAt, artRows, files, busVars, up, workerVars,
                   janitorVars>>

Gateway == UploadNext  /\ UNCHANGED <<workerVars, janitorVars>>
Worker  == WorkerNext  /\ UNCHANGED <<up, janitorVars>>
Janitor == JanitorNext /\ UNCHANGED <<busVars, up, workerVars>>

Next == Gateway \/ Worker \/ Janitor \/ Tick

Safety == Init /\ [][Next]_vars

-----------------------------------------------------------------------------
\* Every component keeps its types; a worker is idle exactly when it has no
\* job, never makes an artifact its processor does not have, and a sweep never
\* runs off the end of its list or mixes up whose artifacts it read.
TypeOK ==
    /\ StorageTypeOK
    /\ BusTypeOK(Jobs)
    /\ UploadTypeOK
    /\ WorkerTypeOK
    /\ JanitorTypeOK

Owns(w, j)     == at[w] \in Owning /\ job[w] = j
BeingPruned(j) == \E s \in Sweepers : \E i \in DOMAIN todo[s] : todo[s][i] = j

-----------------------------------------------------------------------------
(* Whatever fails *)

\* No worker is ever sent to a job that is not there yet: an event is on the
\* bus, or in a handler, only after its row was committed and its upload
\* accepted (the order of ProcessUpload).
EventsFollowRows ==
    \A j \in Jobs :
        InBus(j) \/ Handled(j) => row[j] # Absent /\ up[j] = "accepted"

\* Two workers never process one job, even in different queue groups, and the
\* row of a claimed job says so until its owner writes the outcome.
ClaimIsExclusive ==
    \A w \in Workers : at[w] \in Owning =>
        /\ row[job[w]] \in {"processing", Deleted}
        /\ \A v \in Workers \ {w} : ~Owns(v, job[w])

\* What was published about a job agrees with its row: "completed" never runs
\* ahead of the commit, and no job is announced both ways.
OutcomesAgree ==
    \A j \in Jobs :
        /\ <<j, "completed">> \in announced => row[j] \in {"completed", Deleted}
        /\ <<j, "failed">> \in announced =>
                row[j] \in {"processing", "failed", Deleted}
        /\ ~({j} \X Outcomes \subseteq announced)

\* Until it expires, an accepted job keeps its upload and every artifact that
\* its page lists (unless the cleanup is forced).
LiveFilesKept ==
    \A j \in Jobs :
        up[j] = "accepted" /\ HasRow(j) /\ ~IsExpired(j) =>
            {Source(j)} \cup ArtFiles(j, artRows[j]) \subseteq files

\* A row goes away only because its time is over, its upload is rolled back or
\* the operator forced it.
OnlyExpiredRemoved ==
    [][\A j \in Jobs :
          HasRow(j) /\ row'[j] = Deleted =>
              \/ IsExpired(j)
              \/ up[j] = "undoRow"
              \/ \E s \in Forced : todo[s] # <<>> /\ Head(todo[s]) = j]_vars

Lifecycle == INSTANCE JobLifecycle

\* The services together use the jobs table as JobLifecycle says.
LifecycleSpec == Lifecycle!Spec

Ownership == INSTANCE JobOwnership
                 WITH claimable <- {j \in Jobs : row[j] \in {Absent, "pending"}},
                      owners    <- [j \in Jobs |-> {w \in Workers : Owns(w, j)}]

\* The workers share the jobs as JobOwnership says: no job is ever claimed a
\* second time, also not after its worker died or its claim was lost, and its
\* outcome is announced at most once, by a worker that has let it go.
OwnershipSpec == Ownership!Spec

Feed == INSTANCE JobFeed
            WITH Total     <- [j \in Jobs |-> OutputCount(j)],
                 Failing   <- "db" \in Faults,
                 recorded  <- artRows,
                 announced <- {m[1] : m \in announced}

\* Whoever follows a job may rely on JobFeed: its artifacts are recorded while it is
\* processed and only a removal takes them away, its outcome is published once, and
\* then nothing but its removal comes.  If no statement fails, it is completed with
\* all its artifacts, and its outcome published only after it was written.
FeedSpec == Feed!Spec

-----------------------------------------------------------------------------
(* When some faults are excluded *)

\* A rejected upload leaves nothing behind.
RejectedLeavesNothing ==
    \A j \in Jobs : up[j] = "rejected" => ~HasRow(j) /\ Source(j) \notin files

\* A job in processing has a worker that will write its outcome.
ProcessingIsOwned ==
    \A j \in Jobs : row[j] = "processing" => \E w \in Workers : Owns(w, j)

\* A job in pending has an event that will reach a worker.
PendingIsQueued ==
    \A j \in Jobs :
        up[j] = "accepted" /\ row[j] = "pending" =>
            InBus(j) \/ \E w \in Workers : at[w] = "claim" /\ job[w] = j

\* A settled job was announced, or its worker is about to.
SettledIsAnnounced ==
    \A j \in Jobs :
        IsTerminal(row[j]) => \/ <<j, row[j]>> \in announced
                              \/ \E w \in Workers : job[w] = j /\ at[w] = row[j]

\* A completed job lists every artifact its processor makes.
CompletedIsComplete ==
    \A j \in Jobs : row[j] = "completed" => artRows[j] = Outputs(j)

\* A sweep removes a row only when none of the files that its page lists is left:
\* whoever crashed or failed on the way, and however sweeps overlap, what could not be
\* cleaned up is still listed.
FilesGoFirst ==
    [][\A j \in Jobs :
          HasRow(j) /\ row'[j] = Deleted =>
              \/ ({Source(j)} \cup ArtFiles(j, artRows[j])) \cap files' = {}
              \/ up[j] = "undoRow"
              \/ \E s \in Forced : todo[s] # <<>> /\ Head(todo[s]) = j]_vars

\* Of a job that was announced as completed nothing is left once its row is gone.
CompletedLeavesNothing ==
    \A j \in Jobs :
        <<j, "completed">> \in announced /\ row[j] = Deleted => FilesOf(j) \cap files = {}

\* What the specification of the janitor promises: once an expired job is gone and
\* nobody works on it, so are its files.
ReapedIsClean ==
    \A j \in Jobs :
        row[j] = Deleted /\ up[j] = "accepted" /\ ~Handled(j) /\ ~BeingPruned(j)
            => FilesOf(j) \cap files = {}

-----------------------------------------------------------------------------
(* Progress *)

\* A worker keeps taking and handling events, and the janitor keeps sweeping;
\* uploads, crashes and the passing of time may stop.
WorkerFairness ==
    \A w \in Workers :
        /\ WF_vars(HandlerStep(w) /\ UNCHANGED <<up, janitorVars>>)
        /\ WF_vars(DeliverToWorker(w) /\ UNCHANGED <<up, janitorVars>>)

JanitorFairness ==
    \A s \in Sweepers :
        WF_vars(SweepStep(s) /\ UNCHANGED <<busVars, up, workerVars>>)

Spec == Safety /\ WorkerFairness /\ JanitorFairness

\* Every accepted job is settled, or expires first and is removed.
AcceptedIsSettled ==
    \A j \in Jobs : up[j] = "accepted" ~> IsTerminal(row[j]) \/ row[j] = Deleted

\* Every expired job is removed, whatever the limit of a sweep.
ExpiredIsRemoved ==
    \A j \in Jobs : HasRow(j) /\ IsExpired(j) ~> row[j] = Deleted
=============================================================================
