----------------------------- MODULE MCMediaEngine -----------------------------
\* TLC instances of MediaEngine and its queries.  A job is a pair of a name and its media type.
EXTENDS GatewayQueries, TLC

CONSTANTS Images, Pdfs, Others, GroupA, GroupB, g1, g2

MCJobs    == Images \cup Pdfs \cup Others
MCMedia   == [j \in MCJobs |-> IF j \in Images THEN "image"
                               ELSE IF j \in Pdfs THEN "pdf" ELSE "other"]
MCWorkers == GroupA \cup GroupB
MCQueues  == [w \in MCWorkers |-> IF w \in GroupA THEN g1 ELSE g2]

\* Jobs of one type, workers of one group and sweepers of one kind are alike.
Symmetry ==
    Permutations(Images) \cup Permutations(Pdfs) \cup Permutations(GroupA)
        \cup Permutations(Forced) \cup Permutations(Sweepers \ Forced)
=============================================================================
