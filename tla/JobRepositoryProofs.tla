------------------------- MODULE JobRepositoryProofs -------------------------
(***************************************************************************)
(* What holds of JobRepository for any number of jobs and connections.     *)
(*                                                                         *)
(* EachStatusOnce is not inductive: a commit adds to a count, so one needs *)
(* to know that the row has not been through that status (NothingAhead),   *)
(* that the status the transaction judged is still the row's               *)
(* (ReadIsCurrent), that the verdict was positive (WriteIsLegal), and, for *)
(* ReadIsCurrent itself, that a lock has exactly one owner, which is in a  *)
(* transaction on that row (LockHasOwner).                                 *)
(***************************************************************************)
EXTENDS JobRepository, TLAPS

LockHasOwner ==
    \A j \in Jobs : \A c \in Conns :
        holder[j] = c => tx[c].pc \in {"locked", "updated"} /\ tx[c].job = j

WriteIsLegal ==
    \A c \in Conns :
        tx[c].pc = "updated" => CanTransitionTo(tx[c].read, tx[c].next)

NothingAhead ==
    \A j \in Jobs :
        /\ row[j] \in {Absent, "pending"} => \A s \in Statuses : commits[j][s] = 0
        /\ row[j] = "processing" =>
                commits[j]["completed"] = 0 /\ commits[j]["failed"] = 0

IInv == /\ TypeOK
        /\ ReadIsCurrent
        /\ LockHasOwner
        /\ WriteIsLegal
        /\ NothingAhead
        /\ EachStatusOnce

-----------------------------------------------------------------------------
\* A connection's call has the fields that its stage needs.
LEMMA CallFields ==
    ASSUME TypeOK, NEW c \in Conns
    PROVE  /\ tx[c].pc \in {"idle", "begun", "locked", "updated"}
           /\ tx[c].pc = "idle" => tx[c] = Idle
           /\ tx[c].pc # "idle" => tx[c].job \in Jobs /\ tx[c].next \in Statuses
           /\ tx[c].pc \in {"locked", "updated"} => tx[c].read \in Statuses
           /\ tx[c].pc = "begun" =>
                tx[c] \in [pc : {"begun"}, job : Jobs, next : Statuses]
           /\ tx[c].pc \in {"locked", "updated"} =>
                tx[c] \in [pc : {"locked", "updated"}, job : Jobs,
                           next : Statuses, read : Statuses]
BY DEF TypeOK, Calls, Idle

\* Type correctness: every row has a status, or is absent or deleted, and every
\* transaction has the fields of its stage.
LEMMA TypeInit == Init => TypeOK
BY DEF Init, TypeOK, RowValues, Calls

LEMMA TypeNext == TypeOK /\ [Next]_vars => TypeOK'
<1> SUFFICES ASSUME TypeOK, [Next]_vars PROVE TypeOK'
    OBVIOUS
<1> USE DEF TypeOK, RowValues
<1>1. ASSUME NEW j \in Jobs, CreateJob(j) PROVE TypeOK'
    BY <1>1 DEF CreateJob, NewJobStatus, Statuses
<1>2. ASSUME NEW j \in Jobs, DeleteJob(j) PROVE TypeOK'
    BY <1>2 DEF DeleteJob
<1>3. ASSUME NEW c \in Conns, NEW j \in Jobs, NEW next \in Statuses,
             Begin(c, j, next)
      PROVE  TypeOK'
    BY <1>3 DEF Begin, Calls
<1>4. ASSUME NEW c \in Conns, Finish(c) PROVE (tx' \in [Conns -> Calls])
                                           /\ (holder' \in [Jobs -> Conns \cup {None}])
    BY <1>4 DEF Finish, Calls
<1>5. ASSUME NEW c \in Conns, SelectForUpdate(c) PROVE TypeOK'
    <2>1. tx[c].job \in Jobs /\ tx[c].next \in Statuses
        BY <1>5, CallFields DEF SelectForUpdate
    <2>2. Locked(c) \in Calls
        BY <2>1, <1>5 DEF SelectForUpdate, Locked, Calls
    <2> QED BY <2>1, <2>2, <1>5 DEF SelectForUpdate
<1>6. ASSUME NEW c \in Conns, NotFound(c) \/ Reject(c) \/ Abort(c) PROVE TypeOK'
    BY <1>4, <1>6 DEF NotFound, Reject, Abort
<1>7. ASSUME NEW c \in Conns, ExecUpdate(c) PROVE TypeOK'
    <2>1. [tx[c] EXCEPT !.pc = "updated"] \in Calls
        BY <1>7, CallFields DEF ExecUpdate, Calls
    <2> QED BY <2>1, <1>7 DEF ExecUpdate
<1>8. ASSUME NEW c \in Conns, Commit(c) PROVE TypeOK'
    <2>1. tx[c].job \in Jobs /\ tx[c].next \in Statuses
        BY <1>8, CallFields DEF Commit
    <2> QED BY <2>1, <1>4, <1>8 DEF Commit
<1>9. CASE UNCHANGED vars
    BY <1>9 DEF vars
<1> QED BY <1>1, <1>2, <1>3, <1>5, <1>6, <1>7, <1>8, <1>9 DEF Next, Call

\* Type correctness of JobRepository.
THEOREM TypeCorrect == Spec => []TypeOK
<1>1. Spec => Init /\ [][Next]_vars
    BY DEF Spec
<1> QED BY <1>1, TypeInit, TypeNext, PTL

-----------------------------------------------------------------------------
LEMMA InvInit == Init => IInv
<1> SUFFICES ASSUME Init PROVE IInv
    OBVIOUS
<1>1. ReadIsCurrent /\ LockHasOwner /\ WriteIsLegal
    BY RepositoryAssumption
       DEF Init, Idle, ReadIsCurrent, LockHasOwner, WriteIsLegal
<1>2. \A j \in Jobs : \A s \in Statuses : commits[j][s] = 0
    BY DEF Init
<1>3. NothingAhead /\ EachStatusOnce
    BY <1>2 DEF NothingAhead, EachStatusOnce, Statuses
<1> QED BY <1>1, <1>3, TypeInit DEF IInv

\* The end of a call frees its own lock only, and leaves the other calls alone.
LEMMA FinishKeepsLocks ==
    ASSUME IInv, NEW c \in Conns, Finish(c), UNCHANGED row
    PROVE  ReadIsCurrent' /\ LockHasOwner' /\ WriteIsLegal'
BY RepositoryAssumption, CallFields
   DEF IInv, TypeOK, Calls, Finish, Idle, ReadIsCurrent, LockHasOwner, WriteIsLegal

LEMMA InvNext == IInv /\ [Next]_vars => IInv'
<1> SUFFICES ASSUME IInv, [Next]_vars PROVE IInv'
    OBVIOUS
<1>0. TypeOK /\ TypeOK'
    BY TypeNext DEF IInv
<1> USE DEF IInv
<1>1. ASSUME NEW j \in Jobs, CreateJob(j) PROVE IInv'
    <2>1. ReadIsCurrent' /\ LockHasOwner' /\ WriteIsLegal'
        BY <1>0, <1>1, CallFields
           DEF CreateJob, TypeOK, ReadIsCurrent, LockHasOwner, WriteIsLegal,
               Absent, Statuses
    <2>2. NothingAhead' /\ EachStatusOnce'
        BY <1>0, <1>1
           DEF CreateJob, TypeOK, NothingAhead, EachStatusOnce, NewJobStatus
    <2> QED BY <1>0, <2>1, <2>2
<1>2. ASSUME NEW j \in Jobs, DeleteJob(j) PROVE IInv'
    <2>1. ReadIsCurrent' /\ LockHasOwner' /\ WriteIsLegal'
        BY <1>0, <1>2, CallFields, RepositoryAssumption
           DEF DeleteJob, TypeOK, ReadIsCurrent, LockHasOwner, WriteIsLegal
    <2>2. NothingAhead' /\ EachStatusOnce'
        BY <1>0, <1>2
           DEF DeleteJob, TypeOK, NothingAhead, EachStatusOnce, Deleted, Absent
    <2> QED BY <1>0, <2>1, <2>2
<1>3. ASSUME NEW c \in Conns, NEW j \in Jobs, NEW next \in Statuses,
             Begin(c, j, next)
      PROVE  IInv'
    <2>1. ReadIsCurrent' /\ LockHasOwner' /\ WriteIsLegal'
        BY <1>0, <1>3
           DEF Begin, TypeOK, ReadIsCurrent, LockHasOwner, WriteIsLegal
    <2> QED BY <1>0, <1>3, <2>1 DEF Begin, NothingAhead, EachStatusOnce
<1>4. ASSUME NEW c \in Conns, SelectForUpdate(c) PROVE IInv'
    <2>1. tx[c].job \in Jobs
        BY <1>0, <1>4, CallFields DEF SelectForUpdate
    <2>2. ReadIsCurrent' /\ LockHasOwner' /\ WriteIsLegal'
        BY <1>0, <1>4, <2>1, RepositoryAssumption, CallFields
           DEF SelectForUpdate, Locked, TypeOK, ReadIsCurrent, LockHasOwner,
               WriteIsLegal
    <2> QED BY <1>0, <1>4, <2>2 DEF SelectForUpdate, NothingAhead, EachStatusOnce
<1>5. ASSUME NEW c \in Conns, NotFound(c) \/ Reject(c) \/ Abort(c) PROVE IInv'
    <2>1. Finish(c) /\ UNCHANGED <<row, commits>>
        BY <1>5 DEF NotFound, Reject, Abort
    <2> QED BY <1>0, <2>1, FinishKeepsLocks DEF NothingAhead, EachStatusOnce
<1>6. ASSUME NEW c \in Conns, ExecUpdate(c) PROVE IInv'
    <2>1. ReadIsCurrent' /\ LockHasOwner' /\ WriteIsLegal'
        BY <1>0, <1>6, CallFields
           DEF ExecUpdate, TypeOK, ReadIsCurrent, LockHasOwner, WriteIsLegal
    <2> QED BY <1>0, <1>6, <2>1 DEF ExecUpdate, NothingAhead, EachStatusOnce
<1>7. ASSUME NEW c \in Conns, Commit(c) PROVE IInv'
    <2> DEFINE j == tx[c].job
               s == tx[c].next
    <2>1. j \in Jobs /\ s \in Statuses /\ holder[j] = c /\ CanTransitionTo(row[j], s)
        BY <1>0, <1>7, CallFields
           DEF Commit, ReadIsCurrent, WriteIsLegal
    <2>2. /\ row' = [row EXCEPT ![j] = s]
          /\ commits' = [commits EXCEPT ![j][s] = @ + 1]
        BY <1>7 DEF Commit
    <2> HIDE DEF j, s
    <2>3. ASSUME NEW d \in Conns, tx'[d].pc \in {"locked", "updated"}
          PROVE  d # c /\ tx'[d] = tx[d] /\ tx[d].job # j
        BY <1>0, <1>7, <2>1, <2>3 DEF Commit, Finish, Idle, TypeOK, ReadIsCurrent
    <2>4. ReadIsCurrent' /\ WriteIsLegal'
        BY <1>0, <1>7, <2>2, <2>3, CallFields, RepositoryAssumption
           DEF Commit, Finish, TypeOK, ReadIsCurrent, WriteIsLegal
    <2>5. LockHasOwner'
        BY <1>0, <1>7, RepositoryAssumption
           DEF Commit, Finish, TypeOK, LockHasOwner
    <2>6. NothingAhead' /\ EachStatusOnce'
        BY <1>0, <2>1, <2>2
           DEF TypeOK, NothingAhead, EachStatusOnce, CanTransitionTo, Statuses,
               Absent
    <2> QED BY <1>0, <2>4, <2>5, <2>6
<1>8. CASE UNCHANGED vars
    BY <1>8, <1>0
       DEF vars, TypeOK, ReadIsCurrent, LockHasOwner, WriteIsLegal, NothingAhead,
           EachStatusOnce
<1> QED BY <1>1, <1>2, <1>3, <1>4, <1>5, <1>6, <1>7, <1>8 DEF Next, Call

LEMMA Invariance == Spec => []IInv
<1>1. Spec => Init /\ [][Next]_vars
    BY DEF Spec
<1> QED BY <1>1, InvInit, InvNext, PTL

\* The status a transaction judged stays the row's until it commits: what the
\* FOR UPDATE clause of UpdateJobStatus is for.
THEOREM ReadsStayCurrent == Spec => []ReadIsCurrent
<1>1. IInv => ReadIsCurrent
    BY DEF IInv
<1> QED BY <1>1, Invariance, PTL

\* However many callers race for a job, each status is entered at most once and
\* only one of the two outcomes is.
THEOREM StatusesOnce == Spec => []EachStatusOnce
<1>1. IInv => EachStatusOnce
    BY DEF IInv
<1> QED BY <1>1, Invariance, PTL

-----------------------------------------------------------------------------
(* JobRepository implements JobLifecycle *)

\* The instance of JobStatus under Lifecycle is the JobStatus of this module.
LEMMA SameStatuses ==
    /\ Lifecycle!Statuses = Statuses
    /\ Lifecycle!Absent = Absent
    /\ Lifecycle!Deleted = Deleted
    /\ \A s, next : Lifecycle!CanTransitionTo(s, next) <=> CanTransitionTo(s, next)
BY DEF Lifecycle!Statuses, Statuses, Lifecycle!Absent, Absent, Lifecycle!Deleted,
       Deleted, Lifecycle!CanTransitionTo, CanTransitionTo

LEMMA LifecycleInit == Init => Lifecycle!Init
BY SameStatuses DEF Init, Lifecycle!Init

\* A commit is an Advance of the abstract table, because what it judged is
\* still the row's status; every other step of a transaction is a stutter.
LEMMA LifecycleStep == IInv /\ [Next]_vars => [Lifecycle!Next]_row
<1> SUFFICES ASSUME IInv, [Next]_vars PROVE [Lifecycle!Next]_row
    OBVIOUS
<1> USE DEF IInv
<1>1. ASSUME NEW j \in Jobs, CreateJob(j) PROVE Lifecycle!Insert(j)
    BY <1>1, SameStatuses DEF CreateJob, Lifecycle!Insert, NewJobStatus
<1>2. ASSUME NEW j \in Jobs, DeleteJob(j) PROVE Lifecycle!Remove(j)
    BY <1>2, SameStatuses DEF DeleteJob, Lifecycle!Remove
<1>3. ASSUME NEW c \in Conns, Commit(c)
      PROVE  Lifecycle!Advance(tx[c].job, tx[c].next)
    BY <1>3, SameStatuses
       DEF Commit, Lifecycle!Advance, ReadIsCurrent, WriteIsLegal
<1>4. ASSUME NEW c \in Conns, Commit(c)
      PROVE  tx[c].job \in Jobs /\ tx[c].next \in Statuses
    BY <1>4, CallFields DEF Commit
<1>5. ASSUME NEW c \in Conns,
             NotFound(c) \/ Reject(c) \/ Abort(c) \/ SelectForUpdate(c)
                \/ ExecUpdate(c) \/ \E j \in Jobs, next \in Statuses : Begin(c, j, next)
      PROVE  UNCHANGED row
    BY <1>5 DEF NotFound, Reject, Abort, SelectForUpdate, ExecUpdate, Begin
<1>6. CASE UNCHANGED vars
    BY <1>6 DEF vars
<1> QED BY <1>1, <1>2, <1>3, <1>4, <1>5, <1>6, SameStatuses
        DEF Next, Call, Lifecycle!Next

\* The transactions of the repository implement the abstract job table.
THEOREM ImplementsLifecycle == Spec => LifecycleSpec
<1>1. Spec => Init /\ [][Next]_vars
    BY DEF Spec
<1> QED BY <1>1, Invariance, LifecycleInit, LifecycleStep, PTL
        DEF LifecycleSpec, Lifecycle!Spec

-----------------------------------------------------------------------------
(* The calls are atomic *)

LEMMA SameTransitions ==
    \A s, next : Whole!CanTransitionTo(s, next) <=> CanTransitionTo(s, next)
BY DEF Whole!CanTransitionTo, CanTransitionTo

\* For any number of callers, a transaction that is not broken off does, at its
\* end, what Storage says UpdateJobStatus does in one step: the services may be
\* modelled over atomic calls.
THEOREM CallsLookAtomic == Spec => CallsAreAtomic
<1>1. ASSUME IInv, NEW c \in Conns, Commit(c)
      PROVE  Whole!UpdateJobStatus(tx[c].job, tx[c].next, TRUE)
    <2>1. CanTransitionTo(row[tx[c].job], tx[c].next)
        BY <1>1 DEF IInv, Commit, ReadIsCurrent, WriteIsLegal
    <2> QED BY <1>1, <2>1, SameTransitions
            DEF Commit, Whole!UpdateJobStatus, Whole!Applied
<1>2. ASSUME IInv, NEW c \in Conns, NotFound(c) \/ Reject(c)
      PROVE  Whole!UpdateJobStatus(tx[c].job, tx[c].next, FALSE)
    <2>1. ~CanTransitionTo(row[tx[c].job], tx[c].next)
        <3>1. CASE NotFound(c)
            BY <3>1 DEF NotFound, CanTransitionTo, Statuses
        <3>2. CASE Reject(c)
            BY <1>2, <3>2 DEF IInv, Reject, ReadIsCurrent
        <3> QED BY <1>2, <3>1, <3>2
    <2>2. UNCHANGED row
        BY <1>2 DEF NotFound, Reject
    <2> QED BY <2>1, <2>2, SameTransitions DEF Whole!UpdateJobStatus
<1>3. IInv => [\A c \in Conns :
                  /\ Commit(c) => Whole!UpdateJobStatus(tx[c].job, tx[c].next, TRUE)
                  /\ NotFound(c) \/ Reject(c) =>
                        Whole!UpdateJobStatus(tx[c].job, tx[c].next, FALSE)]_vars
    BY <1>1, <1>2
<1> QED BY <1>3, Invariance, PTL DEF CallsAreAtomic
=============================================================================
