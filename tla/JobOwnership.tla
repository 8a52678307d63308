----------------------------- MODULE JobOwnership -----------------------------
(***************************************************************************)
(* What the workers promise about who processes a job: it can be claimed   *)
(* once, by one worker; whoever lets it go, by finishing, failing or       *)
(* dying, lets it go for good; and its outcome is announced at most once,  *)
(* after that.  MediaEngine implements this whatever fails.                *)
(***************************************************************************)
CONSTANTS Jobs, Workers

VARIABLES
    claimable,          \* the jobs nobody has claimed yet
    owners,             \* owners[j]: the workers that process j
    announced           \* <<j, s>>: outcome s of job j was announced

vars == <<claimable, owners, announced>>

Init ==
    /\ claimable = Jobs
    /\ owners = [j \in Jobs |-> {}]
    /\ announced = {}

Claim(w, j) ==
    /\ j \in claimable
    /\ owners[j] = {}
    /\ claimable' = claimable \ {j}
    /\ owners' = [owners EXCEPT ![j] = {w}]
    /\ UNCHANGED announced

\* The job goes away unclaimed, or its claim is lost before it is used.
Withdraw(j) ==
    /\ j \in claimable
    /\ claimable' = claimable \ {j}
    /\ UNCHANGED <<owners, announced>>

Release(j) ==
    /\ owners[j] # {}
    /\ owners' = [owners EXCEPT ![j] = {}]
    /\ UNCHANGED <<claimable, announced>>

Announce(j, s) ==
    /\ j \notin claimable
    /\ owners[j] = {}
    /\ \A m \in announced : m[1] # j
    /\ announced' = announced \cup {<<j, s>>}
    /\ UNCHANGED <<claimable, owners>>

Next == \E j \in Jobs :
            \/ \E w \in Workers : Claim(w, j)
            \/ Withdraw(j)
            \/ Release(j)
            \/ \E s \in {"completed", "failed"} : Announce(j, s)

Spec == Init /\ [][Next]_vars
=============================================================================
