------------------------------ MODULE JobStatus ------------------------------
(***************************************************************************)
(* The statuses of a job and the transitions the domain permits            *)
(* (internal/domain/status.go).  A row of the jobs table holds one of      *)
(* Statuses; Absent and Deleted stand for a row that was never inserted    *)
(* and for one that was removed.  Job ids are fresh UUIDs, so a deleted    *)
(* job is never inserted again.                                            *)
(***************************************************************************)

Statuses == {"pending", "processing", "completed", "failed"}

Absent  == "absent"
Deleted == "deleted"

IsTerminal(s) == s \in {"completed", "failed"}

\* Mutant: a retry of the claim is let through.
CanTransitionToRepeat(s, next) ==
    \/ s = "pending"    /\ next \in {"processing", "failed"}
    \/ s = "processing" /\ next \in {"processing", "completed", "failed"}

CanTransitionTo(s, next) ==
    \/ s = "pending"    /\ next \in {"processing", "failed"}
    \/ s = "processing" /\ next \in {"completed", "failed"}

\* Mutant: NewJob leaves the status at its zero value.
NewJobStatusUnset == ""

\* The status NewJob gives a job (internal/domain/job.go).
NewJobStatus == "pending"
=============================================================================
