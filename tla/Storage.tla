------------------------------- MODULE Storage -------------------------------
(***************************************************************************)
(* What the services share: the jobs and job_artifacts tables, the storage *)
(* volume and the clock that expires_at is compared with.  Each operator   *)
(* is one call of a port (internal/ports), as an action over its outcome:  *)
(* ok says whether the caller got a nil error.  JobRepository shows that   *)
(* concurrent UpdateJobStatus transactions behave as the atomic one here.  *)
(*                                                                         *)
(* Faults names what may go wrong in an instance:                          *)
(*   "db"    a statement fails and nothing is applied                      *)
(*   "ack"   a statement is applied, its caller sees an error              *)
(*   "fs"    a file is written partly or not at all, or cannot be deleted  *)
(*   "bus"   Publish fails                                                 *)
(*   "drop"  NATS loses a message                                          *)
(*   "media" a processor rejects the file, or panics                       *)
(*   "crash" a process dies and comes back                                 *)
(*   "stop"  a worker is told to terminate, and comes back                 *)
(***************************************************************************)
EXTENDS Integers, FiniteSets, JobStatus

CONSTANTS Jobs,
          MediaType,    \* MediaType[j]: "image", "pdf" or "other"
          TTL,          \* the gateway's defaultTTL, in clock ticks
          Faults

FaultKinds == {"db", "ack", "fs", "bus", "drop", "media", "crash", "stop"}
MediaTypes == {"image", "pdf", "other"}

ASSUME StorageAssumption ==
    /\ IsFiniteSet(Jobs)
    /\ MediaType \in [Jobs -> MediaTypes]
    /\ TTL \in Nat \ {0}
    /\ Faults \subseteq FaultKinds

VARIABLES
    row,            \* row[j]: the row of job j, or Absent, or Deleted
    expiresAt,      \* expiresAt[j]: its expires_at column
    artRows,        \* artRows[j]: the artifacts of j in job_artifacts
    files,          \* the files on the volume
    clock

storageVars == <<row, expiresAt, artRows, files, clock>>

-----------------------------------------------------------------------------
\* The artifacts the matching processor makes of an upload: thumbnail, medium
\* and optimized image; extracted text and cover of a PDF.
OutputCount(j) == CASE MediaType[j] = "image" -> 3
                    [] MediaType[j] = "pdf"   -> 2
                    [] OTHER                  -> 0

Outputs(j) == 1 .. OutputCount(j)

\* <<j, 0>> is the upload of j, <<j, k>> its artifact k.  Names are unique: they
\* are built from the UUID of the upload.
Source(j)      == <<j, 0>>
FilesOf(j)     == {<<j, k>> : k \in {0} \cup Outputs(j)}
AllFiles       == UNION {FilesOf(j) : j \in Jobs}
ArtFiles(j, A) == {<<j, k>> : k \in A}

HasRow(j) == row[j] \in Statuses

\* domain.Job.IsExpired, and the WHERE clause of ListExpiredJobs.
IsExpired(j) == expiresAt[j] <= clock

StorageTypeOK ==
    /\ row \in [Jobs -> Statuses \cup {Absent, Deleted}]
    /\ expiresAt \in [Jobs -> Nat]
    /\ artRows \in [Jobs -> SUBSET Nat]
    /\ files \subseteq AllFiles
    /\ clock \in Nat

StorageInit ==
    /\ row       = [j \in Jobs |-> Absent]
    /\ expiresAt = [j \in Jobs |-> 0]
    /\ artRows   = [j \in Jobs |-> {}]
    /\ files     = {}
    /\ clock     = 0

-----------------------------------------------------------------------------
(* The file store *)

\* A failing io.Copy leaves the created file behind; nothing removes it here.
SaveFile(f, ok) ==
    \/ ok /\ files' = files \cup {f}
    \/ ~ok /\ "fs" \in Faults /\ files' \in {files, files \cup {f}}

\* os.Remove; a missing file is not an error.
DeleteFile(f, ok) ==
    \/ ok /\ files' = files \ {f}
    \/ ~ok /\ "fs" \in Faults /\ UNCHANGED files

-----------------------------------------------------------------------------
(* The repository *)

\* Whether a statement takes effect, and whether its caller sees an error.
Applied(ok) == ok \/ "ack" \in Faults
Failed(ok)  == ~ok /\ "db" \in Faults

CreateJob(j, ok) ==
    \/ /\ Applied(ok)
       /\ row' = [row EXCEPT ![j] = NewJobStatus]
       /\ expiresAt' = [expiresAt EXCEPT ![j] = clock + TTL]
    \/ Failed(ok) /\ UNCHANGED <<row, expiresAt>>

\* Mutant: the status is written without judging the transition.
UpdateUnchecked(j, next, ok) ==
    \/ ok /\ HasRow(j) /\ row' = [row EXCEPT ![j] = next]
    \/ ~ok /\ ~HasRow(j) /\ UNCHANGED row

UpdateJobStatus(j, next, ok) ==
    \/ /\ Applied(ok)
       /\ CanTransitionTo(row[j], next)
       /\ row' = [row EXCEPT ![j] = next]
    \/ ~ok /\ ~CanTransitionTo(row[j], next) /\ UNCHANGED row
    \/ Failed(ok) /\ UNCHANGED row

\* The foreign key of job_artifacts rejects an artifact without its job.
AddArtifact(j, k, ok) ==
    \/ /\ Applied(ok)
       /\ HasRow(j)
       /\ artRows' = [artRows EXCEPT ![j] = @ \cup {k}]
    \/ ~ok /\ ~HasRow(j) /\ UNCHANGED artRows
    \/ Failed(ok) /\ UNCHANGED artRows

\* Mutant: the foreign key does not cascade, the artifacts stay.
DeleteRowOnly(j, ok) ==
    \/ /\ Applied(ok)
       /\ row' = [row EXCEPT ![j] = IF HasRow(j) THEN Deleted ELSE @]
       /\ UNCHANGED artRows
    \/ Failed(ok) /\ UNCHANGED <<row, artRows>>

\* ON DELETE CASCADE; no error if there is no such row.
DeleteJob(j, ok) ==
    \/ /\ Applied(ok)
       /\ row' = [row EXCEPT ![j] = IF HasRow(j) THEN Deleted ELSE @]
       /\ artRows' = [artRows EXCEPT ![j] = {}]
    \/ Failed(ok) /\ UNCHANGED <<row, artRows>>

\* The results ListExpiredJobs may return for the jobs in cand: the limit
\* soonest to expire (ORDER BY expires_at LIMIT), as a sequence.
Soonest(cand, limit) ==
    LET n == IF Cardinality(cand) < limit THEN Cardinality(cand) ELSE limit
    IN  {s \in [1..n -> cand] :
            /\ \A a, b \in 1..n : a < b => /\ s[a] # s[b]
                                           /\ expiresAt[s[a]] <= expiresAt[s[b]]
            /\ \A j \in cand \ {s[a] : a \in 1..n}, a \in 1..n :
                    expiresAt[s[a]] <= expiresAt[j]}
=============================================================================
