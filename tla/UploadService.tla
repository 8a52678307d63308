----------------------------- MODULE UploadService -----------------------------
(***************************************************************************)
(* The intake of an upload in the gateway: ProcessUpload in internal/core/ *)
(* upload.go, as handleUpload and handleDemoUpload call it.  Every call    *)
(* makes a job of its own, so up[j] is the progress of the one call that   *)
(* makes job j:                                                            *)
(*                                                                         *)
(*    idle -> saved -> created -> accepted       (HTTP 202)                *)
(*              |         |                                                *)
(*              |      undoRow -> undoFile -> rejected   (HTTP 4xx, 5xx)   *)
(*              +---------------->                                         *)
(***************************************************************************)
EXTENDS Storage, EventBus

VARIABLE up

UploadStates == {"idle", "saved", "created", "accepted", "undoRow", "undoFile",
                 "rejected", "crashed"}

UploadTypeOK == up \in [Jobs -> UploadStates]

UploadInit == up = [j \in Jobs |-> "idle"]

\* supportedMediaTypes
Supported(j) == MediaType[j] \in {"image", "pdf"}

Goto(j, pc) == up' = [up EXCEPT ![j] = pc]

RejectUpload(j) ==
    /\ up[j] = "idle"
    /\ ~Supported(j)
    /\ Goto(j, "rejected")
    /\ UNCHANGED <<storageVars, busVars>>

\* If Save fails, ProcessUpload returns without cleaning up.
SaveUpload(j) ==
    /\ up[j] = "idle"
    /\ Supported(j)
    /\ \E ok \in BOOLEAN :
          /\ SaveFile(Source(j), ok)
          /\ Goto(j, IF ok THEN "saved" ELSE "rejected")
    /\ UNCHANGED <<row, expiresAt, artRows, clock, busVars>>

\* Mutant: the event is published before the row is inserted.
PublishFirst(j) ==
    /\ up[j] = "saved"
    /\ Publish(j)
    /\ Goto(j, "accepted")
    /\ UNCHANGED <<storageVars, pending, subscribed>>

\* Mutant: the request is answered as soon as its row is inserted.
AcceptUnpublished(j) ==
    /\ up[j] = "saved"
    /\ \E ok \in BOOLEAN :
          /\ CreateJob(j, ok)
          /\ Goto(j, IF ok THEN "accepted" ELSE "undoFile")
    /\ UNCHANGED <<artRows, files, clock, busVars>>

\* NewJob and CreateJob.
RegisterUpload(j) ==
    /\ up[j] = "saved"
    /\ \E ok \in BOOLEAN :
          /\ CreateJob(j, ok)
          /\ Goto(j, IF ok THEN "created" ELSE "undoFile")
    /\ UNCHANGED <<artRows, files, clock, busVars>>

PublishUpload(j) ==
    /\ up[j] = "created"
    /\ \/ Publish(j) /\ Goto(j, "accepted")
       \/ "bus" \in Faults /\ Goto(j, "undoRow") /\ UNCHANGED inTransit
    /\ UNCHANGED <<storageVars, pending, subscribed>>

\* Mutant: the rollback of a refused event forgets the file.
UndoRowOnly(j) ==
    /\ up[j] = "undoRow"
    /\ \E ok \in BOOLEAN : DeleteJob(j, ok)
    /\ Goto(j, "rejected")
    /\ UNCHANGED <<expiresAt, files, clock, busVars>>

\* The errors of the rollback itself are ignored.
UndoRow(j) ==
    /\ up[j] = "undoRow"
    /\ \E ok \in BOOLEAN : DeleteJob(j, ok)
    /\ Goto(j, "undoFile")
    /\ UNCHANGED <<expiresAt, files, clock, busVars>>

UndoFile(j) ==
    /\ up[j] = "undoFile"
    /\ \E ok \in BOOLEAN : DeleteFile(Source(j), ok)
    /\ Goto(j, "rejected")
    /\ UNCHANGED <<row, expiresAt, artRows, clock, busVars>>

\* The gateway dies in the middle of the request.
UploadCrash(j) ==
    /\ "crash" \in Faults
    /\ up[j] \in {"saved", "created", "undoRow", "undoFile"}
    /\ Goto(j, "crashed")
    /\ UNCHANGED <<storageVars, busVars>>

UploadStep(j) == \/ SaveUpload(j)
                 \/ RegisterUpload(j)
                 \/ PublishUpload(j)
                 \/ UndoRow(j)
                 \/ UndoFile(j)

UploadNext == \E j \in Jobs : RejectUpload(j) \/ UploadStep(j) \/ UploadCrash(j)
=============================================================================
