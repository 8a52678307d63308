----------------------------- MODULE JobLifecycle -----------------------------
(***************************************************************************)
(* What the job table promises to everyone who shares it: a job is         *)
(* inserted once, its status moves only along CanTransitionTo, one whole   *)
(* step at a time, and a removed job stays removed.  JobRepository (the    *)
(* transactions) and MediaEngine (the services) both implement it.         *)
(***************************************************************************)
EXTENDS JobStatus

CONSTANT Jobs

VARIABLE row            \* row[j]: the committed row of job j

RowValues == Statuses \cup {Absent, Deleted}

TypeOK == row \in [Jobs -> RowValues]

Init == row = [j \in Jobs |-> Absent]

Insert(j) ==
    /\ row[j] = Absent
    /\ row' = [row EXCEPT ![j] = "pending"]

\* The transition that UpdateJobStatus judges on the row and writes.
Advance(j, next) ==
    /\ CanTransitionTo(row[j], next)
    /\ row' = [row EXCEPT ![j] = next]

Remove(j) ==
    /\ row[j] \in Statuses
    /\ row' = [row EXCEPT ![j] = Deleted]

Next == \E j \in Jobs :
            \/ Insert(j)
            \/ \E next \in Statuses : Advance(j, next)
            \/ Remove(j)

Spec == Init /\ [][Next]_row

-----------------------------------------------------------------------------
\* A settled job keeps its outcome until its row is removed.
TerminalIsFinal ==
    [][\A j \in Jobs : IsTerminal(row[j]) => row'[j] \in {row[j], Deleted}]_row

\* No job comes back: neither a removed one, nor one to "never inserted".
NoResurrection ==
    [][\A j \in Jobs : /\ row[j] = Deleted => row'[j] = Deleted
                       /\ row[j] # Absent  => row'[j] # Absent]_row
=============================================================================
