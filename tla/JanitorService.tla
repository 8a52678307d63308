---------------------------- MODULE JanitorService ----------------------------
(***************************************************************************)
(* The sweeps that remove expired jobs: PruneExpired in internal/core/     *)
(* janitor.go, run by the ticker of the janitor process and by POST        *)
(* /admin/janitor/cleanup in the gateway, and the forced cleanup of that   *)
(* handler, which takes every job.  Sweeps may overlap; each works on the   *)
(* head of its own list, todo[s].                                          *)
(***************************************************************************)
EXTENDS Storage, Sequences

CONSTANTS Sweepers,         \* sources of sweeps, one at a time each
          Forced,           \* those that run the forced cleanup
          Limit             \* the limit of PruneExpired: 100 in the code

ASSUME JanitorAssumption ==
    /\ Forced \subseteq Sweepers
    /\ Limit \in Nat \ {0}

VARIABLES
    sweep,                  \* sweep[s]: "idle", "fetch", "files" or "row"
    todo,                   \* todo[s]: the jobs listed and not yet removed
    arts                    \* arts[s]: for each of them, its artifacts as read

janitorVars == <<sweep, todo, arts>>

JanitorTypeOK ==
    /\ sweep \in [Sweepers -> {"idle", "fetch", "files", "row"}]
    /\ todo \in [Sweepers -> Seq(Jobs)]
    /\ arts \in [Sweepers -> Seq(SUBSET Nat)]
    /\ \A s \in Sweepers :
          /\ sweep[s] = "fetch" => Len(arts[s]) < Len(todo[s])
          /\ sweep[s] \in {"files", "row"} =>
                todo[s] # <<>> /\ Len(arts[s]) = Len(todo[s])

JanitorInit ==
    /\ sweep = [s \in Sweepers |-> "idle"]
    /\ todo  = [s \in Sweepers |-> <<>>]
    /\ arts  = [s \in Sweepers |-> <<>>]

Sweep(s, place, jobs, artSets) ==
    /\ sweep' = [sweep EXCEPT ![s] = place]
    /\ todo'  = [todo EXCEPT ![s] = jobs]
    /\ arts'  = [arts EXCEPT ![s] = artSets]

Finished(s) == Sweep(s, "idle", <<>>, <<>>)

\* Mutant: every job with a row is listed, expired or not.
ListedAll(s) == {j \in Jobs : HasRow(j)}

\* Mutant: only settled jobs are listed.
ListedSettled(s) == {j \in Jobs : IsTerminal(row[j]) /\ IsExpired(j)}

\* The jobs of the WHERE clause; the forced cleanup asks for a year ahead.
Listed(s) == {j \in Jobs : HasRow(j) /\ (s \in Forced \/ IsExpired(j))}

\* The forced cleanup asks for 1000 jobs: here, more than there are.
ListLimit(s) == IF s \in Forced THEN Cardinality(Jobs) ELSE Limit

-----------------------------------------------------------------------------
\* The first query of ListExpiredJobs.
ListExpired(s) ==
    /\ sweep[s] = "idle"
    /\ Listed(s) # {}
    /\ \E jobs \in Soonest(Listed(s), ListLimit(s)) : Sweep(s, "fetch", jobs, <<>>)
    /\ UNCHANGED storageVars

\* Its loop: one query for the artifacts of each job.
FetchArtifacts(s) ==
    /\ sweep[s] = "fetch"
    /\ LET n == Len(arts[s]) + 1
           read == Append(arts[s], artRows[todo[s][n]])
       IN  \/ Sweep(s, IF n = Len(todo[s]) THEN "files" ELSE "fetch", todo[s], read)
           \/ "db" \in Faults /\ Finished(s)
    /\ UNCHANGED storageVars

\* The files of the job at the head, as far as the sweep knows.
Known(s) == {Source(Head(todo[s]))} \cup ArtFiles(Head(todo[s]), Head(arts[s]))

\* Mutant: the artifact files are forgotten.
PruneSource(s) ==
    /\ sweep[s] = "files"
    /\ files' = files \ {Source(Head(todo[s]))}
    /\ Sweep(s, "row", todo[s], arts[s])
    /\ UNCHANGED <<row, expiresAt, artRows, clock>>

\* Delete for each file; a failure is only logged.
PruneFiles(s) ==
    /\ sweep[s] = "files"
    /\ \E kept \in IF "fs" \in Faults THEN SUBSET Known(s) ELSE {{}} :
          files' = files \ (Known(s) \ kept)
    /\ Sweep(s, "row", todo[s], arts[s])
    /\ UNCHANGED <<row, expiresAt, artRows, clock>>

\* DeleteJob; if it fails the loop goes on, and a later sweep tries again.
PruneRow(s) ==
    /\ sweep[s] = "row"
    /\ \E ok \in BOOLEAN : DeleteJob(Head(todo[s]), ok)
    /\ IF Len(todo[s]) > 1 THEN Sweep(s, "files", Tail(todo[s]), Tail(arts[s]))
                           ELSE Finished(s)
    /\ UNCHANGED <<expiresAt, files, clock>>

\* The process dies, somewhere in the list or among the files of a job.
SweepCrash(s) ==
    /\ "crash" \in Faults
    /\ sweep[s] # "idle"
    /\ \E gone \in IF sweep[s] = "files" THEN SUBSET Known(s) ELSE {{}} :
          files' = files \ gone
    /\ Finished(s)
    /\ UNCHANGED <<row, expiresAt, artRows, clock>>

SweepStep(s) == \/ ListExpired(s)
                \/ FetchArtifacts(s)
                \/ PruneFiles(s)
                \/ PruneRow(s)

JanitorNext == \E s \in Sweepers : SweepStep(s) \/ SweepCrash(s)
=============================================================================
