---------------------------- MODULE GatewayQueries ----------------------------
(***************************************************************************)
(* What the gateway reads for a browser: the links on the page of a job    *)
(* (handleGetJob) and the download behind a link (handleDownloadArtifact), *)
(* which the repository cannot look up by its id, so that the handler       *)
(* searches the list that the janitor's query gives for a year ahead.      *)
(* Reads change no state; each is an operator on the state it finds.       *)
(***************************************************************************)
EXTENDS MediaEngine

CONSTANT DownloadLimit      \* of that search: 100 in the code

ASSUME QueriesAssumption == DownloadLimit \in Nat \ {0}

\* The artifacts that the page of job j links to.
Links(j) == IF HasRow(j) THEN artRows[j] ELSE {}

Rows == {j \in Jobs : HasRow(j)}

\* Mutant: the search asks for what has expired by now.
SearchedExpired == Soonest({j \in Rows : IsExpired(j)}, DownloadLimit)

\* The lists it may search.  TTLs are far below a year: no row is too young.
Searched == Soonest(Rows, DownloadLimit)

\* The two loops over the jobs and their artifacts.
Found(list, j, k) == \E i \in DOMAIN list : list[i] = j /\ k \in artRows[j]

\* The artifact is found and its file can be opened: not a 404.
Downloads(list, j, k) == Found(list, j, k) /\ <<j, k>> \in files

-----------------------------------------------------------------------------
\* Until a job expires every link on its page works, unless more rows than the
\* search sees, live or expired and not yet swept, expire no later than it.
LinksWork ==
    \A j \in Jobs :
        /\ up[j] = "accepted" /\ HasRow(j) /\ ~IsExpired(j)
        /\ Cardinality({i \in Rows : expiresAt[i] <= expiresAt[j]}) <= DownloadLimit
        => \A k \in Links(j), list \in Searched : Downloads(list, j, k)
=============================================================================
