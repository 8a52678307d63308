-------------------------------- MODULE JobFeed --------------------------------
(***************************************************************************)
(* What a page that follows a job may rely on: its status moves forward,   *)
(* its artifacts are recorded while it is processed, only a removal takes  *)
(* them away, its outcome is published once, and nothing but its removal   *)
(* comes after that.  If no statement fails, a completed job has all its   *)
(* artifacts and what is published was written before.  MediaEngine        *)
(* implements this, and the streams of EventStream need no more of a       *)
(* worker.                                                                 *)
(***************************************************************************)
EXTENDS Integers, JobStatus

CONSTANTS Jobs,
          Total,            \* Total[j]: artifacts its processor makes of j
          Failing           \* statements may fail, and nothing is applied

VARIABLES
    row,                    \* row[j]: the row of job j, or Absent, or Deleted
    recorded,               \* recorded[j]: its artifacts, by number
    announced               \* the jobs whose outcome was published

vars == <<row, recorded, announced>>

Init ==
    /\ row \in [Jobs -> {Absent, NewJobStatus}]
    /\ recorded = [j \in Jobs |-> {}]
    /\ announced = {}

Move(j, from, to) ==
    /\ row[j] = from
    /\ j \notin announced
    /\ row' = [row EXCEPT ![j] = to]
    /\ UNCHANGED <<recorded, announced>>

Record(j) ==
    /\ row[j] = "processing"
    /\ j \notin announced
    /\ \E k \in (1 .. Total[j]) \ recorded[j] :
          recorded' = [recorded EXCEPT ![j] = @ \cup {k}]
    /\ UNCHANGED <<row, announced>>

\* A worker does not notice an artifact that could not be recorded.
Complete(j) ==
    /\ Failing \/ recorded[j] = 1 .. Total[j]
    /\ Move(j, "processing", "completed")

Remove(j) ==
    /\ row[j] \in Statuses
    /\ row' = [row EXCEPT ![j] = Deleted]
    /\ recorded' = [recorded EXCEPT ![j] = {}]
    /\ UNCHANGED announced

\* The row may be gone by then; or it still says "processing", if the failure of
\* the job could not be written.
Announce(j) ==
    /\ \/ IsTerminal(row[j]) \/ row[j] = Deleted
       \/ Failing /\ row[j] = "processing"
    /\ j \notin announced
    /\ announced' = announced \cup {j}
    /\ UNCHANGED <<row, recorded>>

JobStep(j) ==
    \/ Move(j, Absent, NewJobStatus)
    \/ Move(j, "pending", "processing")
    \/ Record(j)
    \/ Complete(j)
    \/ Move(j, "processing", "failed")
    \/ Remove(j)
    \/ Announce(j)

Next == \E j \in Jobs : JobStep(j)

Spec == Init /\ [][Next]_vars
=============================================================================
