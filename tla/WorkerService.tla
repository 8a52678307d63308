----------------------------- MODULE WorkerService -----------------------------
(***************************************************************************)
(* The worker processes: internal/core/worker.go, the processors of        *)
(* internal/handlers/media and the shutdown of cmd/worker/main.go.  A      *)
(* worker handles one event at a time; at[w] is where it is in             *)
(* HandleJobCreated:                                                       *)
(*                                                                         *)
(*   idle -> claim -> open -> save -> persist -> complete -> completed     *)
(*                      |      |                                           *)
(*                      +------+--> fail -> failed                         *)
(*                                                                         *)
(* At "completed" and "failed" it is about to publish that outcome.  The   *)
(* "processing" events, which only a stream in the gateway reads, are not  *)
(* here.                                                                   *)
(***************************************************************************)
EXTENDS Storage, EventBus

CONSTANT NoJob

ASSUME WorkerAssumption == NoJob \notin Jobs

VARIABLES
    at,                 \* at[w]: the place of w in its handler
    job,                \* job[w]: the job it handles, NoJob when idle
    count,              \* count[w]: artifacts saved, or persisted, so far
    stopping,           \* the workers told to terminate, still running
    announced           \* <<j, s>>: outcome s of job j was published

workerVars == <<at, job, count, stopping, announced>>

\* From the claim to the write of the outcome.
Owning   == {"open", "save", "persist", "complete", "fail"}
Outcomes == {"completed", "failed"}
Places   == {"idle", "claim"} \cup Owning \cup Outcomes

WorkerTypeOK ==
    /\ at \in [Workers -> Places]
    /\ job \in [Workers -> Jobs \cup {NoJob}]
    /\ count \in [Workers -> Nat]
    /\ \A w \in Workers :
          /\ at[w] = "idle" <=> job[w] = NoJob
          /\ at[w] \in {"save", "persist"} => count[w] + 1 \in Outputs(job[w])
    /\ stopping \subseteq Workers
    /\ announced \subseteq Jobs \X Outcomes

WorkerInit ==
    /\ at        = [w \in Workers |-> "idle"]
    /\ job       = [w \in Workers |-> NoJob]
    /\ count     = [w \in Workers |-> 0]
    /\ stopping  = {}
    /\ announced = {}

Handle(w, place, j, n) ==
    /\ at'    = [at EXCEPT ![w] = place]
    /\ job'   = [job EXCEPT ![w] = j]
    /\ count' = [count EXCEPT ![w] = n]

Go(w, place) == Handle(w, place, job[w], 0)
Return(w)    == Handle(w, "idle", NoJob, 0)

\* After artifact count[w] + 1: the next one, or the next stage.
GoOn(w, stage, next) ==
    IF count[w] + 1 < OutputCount(job[w])
    THEN Handle(w, stage, job[w], count[w] + 1)
    ELSE Go(w, next)

Artifact(w) == count[w] + 1

-----------------------------------------------------------------------------
\* The next message: GetJobByID.  If the job is gone or cannot be read the
\* handler returns, and the message is spent.
FetchJob(w) ==
    /\ at[w] = "idle"
    /\ pending[w] # <<>>
    /\ pending' = [pending EXCEPT ![w] = Tail(@)]
    /\ LET j == Head(pending[w])
       IN  \/ HasRow(j) /\ Handle(w, "claim", j, 0)
           \/ (~HasRow(j) \/ "db" \in Faults) /\ Return(w)
    /\ UNCHANGED <<storageVars, inTransit, subscribed, stopping, announced>>

\* Mutant: the error of the claim is ignored.
ClaimAnyway(w) ==
    /\ at[w] = "claim"
    /\ \E ok \in BOOLEAN : UpdateJobStatus(job[w], "processing", ok)
    /\ Go(w, "open")
    /\ UNCHANGED <<expiresAt, artRows, files, clock, busVars, stopping, announced>>

\* The transition to processing, which at most one handler of a job makes.
ClaimJob(w) ==
    /\ at[w] = "claim"
    /\ \E ok \in BOOLEAN :
          /\ UpdateJobStatus(job[w], "processing", ok)
          /\ IF ok THEN Go(w, "open") ELSE Return(w)
    /\ UNCHANGED <<expiresAt, artRows, files, clock, busVars, stopping, announced>>

\* Mutant: a missing or broken upload is returned as an error, without FailJob.
OpenOrReturn(w) ==
    /\ at[w] = "open"
    /\ \/ Source(job[w]) \in files /\ Go(w, "save")
       \/ (Source(job[w]) \notin files \/ "media" \in Faults) /\ Return(w)
    /\ UNCHANGED <<storageVars, busVars, stopping, announced>>

\* The matching processor opens and decodes the upload.
OpenSource(w) ==
    /\ at[w] = "open"
    /\ LET j == job[w]
       IN  \/ OutputCount(j) > 0 /\ Source(j) \in files /\ Go(w, "save")
           \/ /\ \/ OutputCount(j) = 0
                 \/ Source(j) \notin files
                 \/ Faults \cap {"fs", "media"} # {}
              /\ Go(w, "fail")
    /\ UNCHANGED <<storageVars, busVars, stopping, announced>>

\* Process encodes and saves its next artifact.  On an error, or a panic that
\* HandleJobCreated recovers, what was saved before stays on the volume.
SaveArtifact(w) ==
    /\ at[w] = "save"
    /\ \/ \E ok \in BOOLEAN :
             /\ SaveFile(<<job[w], Artifact(w)>>, ok)
             /\ IF ok THEN GoOn(w, "save", "persist") ELSE Go(w, "fail")
       \/ "media" \in Faults /\ Go(w, "fail") /\ UNCHANGED files
    /\ UNCHANGED <<row, expiresAt, artRows, clock, busVars, stopping, announced>>

\* Mutant: the loop stops one artifact early.
PersistAllButOne(w) ==
    /\ at[w] = "persist"
    /\ IF Artifact(w) < OutputCount(job[w])
       THEN /\ AddArtifact(job[w], Artifact(w), TRUE)
            /\ GoOn(w, "persist", "complete")
       ELSE Go(w, "complete") /\ UNCHANGED artRows
    /\ UNCHANGED <<row, expiresAt, files, clock, busVars, stopping, announced>>

\* A failure of AddArtifact is only logged.
PersistArtifact(w) ==
    /\ at[w] = "persist"
    /\ \E ok \in BOOLEAN : AddArtifact(job[w], Artifact(w), ok)
    /\ GoOn(w, "persist", "complete")
    /\ UNCHANGED <<row, expiresAt, files, clock, busVars, stopping, announced>>

\* Mutant: success is announced whether or not it could be written.
CompleteAnyway(w) ==
    /\ at[w] = "complete"
    /\ \E ok \in BOOLEAN : UpdateJobStatus(job[w], "completed", ok)
    /\ Go(w, "completed")
    /\ UNCHANGED <<expiresAt, artRows, files, clock, busVars, stopping, announced>>

CompleteJob(w) ==
    /\ at[w] = "complete"
    /\ \E ok \in BOOLEAN :
          /\ UpdateJobStatus(job[w], "completed", ok)
          /\ IF ok THEN Go(w, "completed") ELSE Return(w)
    /\ UNCHANGED <<expiresAt, artRows, files, clock, busVars, stopping, announced>>

\* The error of this write is ignored.
FailJob(w) ==
    /\ at[w] = "fail"
    /\ \E ok \in BOOLEAN : UpdateJobStatus(job[w], "failed", ok)
    /\ Go(w, "failed")
    /\ UNCHANGED <<expiresAt, artRows, files, clock, busVars, stopping, announced>>

\* Mutant: the publishing of a failure is left out.
AnnounceCompleted(w) ==
    /\ at[w] \in Outcomes
    /\ announced' = announced \cup ({<<job[w], at[w]>>} \ {<<job[w], "failed">>})
    /\ Return(w)
    /\ UNCHANGED <<storageVars, busVars, stopping>>

\* publishSuccessEvent, publishFailureEvent; their errors are ignored.  A
\* worker that is stopping drains its connection, which refuses new messages.
Announce(w) ==
    /\ at[w] \in Outcomes
    /\ \/ announced' = announced \cup {<<job[w], at[w]>>}
       \/ ("bus" \in Faults \/ w \in stopping) /\ UNCHANGED announced
    /\ Return(w)
    /\ UNCHANGED <<storageVars, busVars, stopping>>

-----------------------------------------------------------------------------
\* SIGTERM: Stop unsubscribes, Drain closes the connection to new messages.
\* The handler that is running goes on until the process exits.
StopWorker(w) ==
    /\ "stop" \in Faults
    /\ w \notin stopping
    /\ stopping' = stopping \cup {w}
    /\ Unsubscribe(w)
    /\ UNCHANGED <<storageVars, inTransit, at, job, count, announced>>

Restart(w) ==
    /\ Return(w)
    /\ stopping' = stopping \ {w}
    /\ Resubscribe(w)
    /\ UNCHANGED <<storageVars, inTransit, announced>>

\* The 15 seconds are over, wherever the handler is; the worker is started
\* again (restart: unless-stopped, or the next deployment).
ExitWorker(w) == w \in stopping /\ Restart(w)

WorkerCrash(w) == "crash" \in Faults /\ Restart(w)

DeliverToWorker(w) ==
    /\ \E j \in Jobs : Deliver(w, j)
    /\ UNCHANGED <<storageVars, workerVars>>

DropMessage ==
    /\ \E g \in Groups, j \in Jobs : Drop(g, j, "drop" \in Faults)
    /\ UNCHANGED <<storageVars, workerVars>>

HandlerStep(w) == \/ FetchJob(w)
                  \/ ClaimJob(w)
                  \/ OpenSource(w)
                  \/ SaveArtifact(w)
                  \/ PersistArtifact(w)
                  \/ CompleteJob(w)
                  \/ FailJob(w)
                  \/ Announce(w)

WorkerNext ==
    \/ \E w \in Workers : \/ DeliverToWorker(w)
                          \/ HandlerStep(w)
                          \/ StopWorker(w)
                          \/ ExitWorker(w)
                          \/ WorkerCrash(w)
    \/ DropMessage
=============================================================================
