---------------------------- MODULE JobRepository ----------------------------
(***************************************************************************)
(* The jobs table under concurrent callers: internal/adapters/postgres/    *)
(* repository.go.  UpdateJobStatus is a read-committed transaction that    *)
(* locks the row (SELECT ... FOR UPDATE), judges the transition on what it *)
(* read, writes, and commits; CreateJob and DeleteJob are single           *)
(* statements.  A transaction may lose its connection at any step, and a   *)
(* commit may succeed without its caller learning so.                      *)
(*                                                                         *)
(* Artifacts are not here (module Storage has them): the insert of one     *)
(* locks the row of its job for the foreign key, but it is one statement   *)
(* that commits by itself, so nobody waits for it longer than that.        *)
(***************************************************************************)
EXTENDS Integers, FiniteSets, JobStatus

CONSTANTS Jobs,         \* job ids
          Conns,        \* pooled connections, one transaction each
          None          \* no transaction

ASSUME RepositoryAssumption == None \notin Conns

VARIABLES
    row,                \* row[j]: the committed version of the row
    holder,             \* holder[j]: the transaction that locked the row
    tx,                 \* tx[c]: the UpdateJobStatus call of connection c
    commits             \* commits[j][s]: how often j was moved to s

vars == <<row, holder, tx, commits>>

RowValues == Statuses \cup {Absent, Deleted}

Idle == [pc |-> "idle"]
Calls == {Idle}
    \cup [pc : {"begun"}, job : Jobs, next : Statuses]
    \cup [pc : {"locked", "updated"}, job : Jobs, next : Statuses,
          read : Statuses]

TypeOK ==
    /\ row \in [Jobs -> RowValues]
    /\ holder \in [Jobs -> Conns \cup {None}]
    /\ tx \in [Conns -> Calls]
    /\ commits \in [Jobs -> [Statuses -> Nat]]

Init ==
    /\ row = [j \in Jobs |-> Absent]
    /\ holder = [j \in Jobs |-> None]
    /\ tx = [c \in Conns |-> Idle]
    /\ commits = [j \in Jobs |-> [s \in Statuses |-> 0]]

-----------------------------------------------------------------------------
\* The end of call c, deferred Rollback included: its lock, if any, is freed.
Finish(c) ==
    /\ tx' = [tx EXCEPT ![c] = Idle]
    /\ holder' = [j \in Jobs |-> IF holder[j] = c THEN None ELSE holder[j]]

CreateJob(j) ==
    /\ row[j] = Absent
    /\ row' = [row EXCEPT ![j] = NewJobStatus]
    /\ UNCHANGED <<holder, tx, commits>>

\* DELETE waits for the row lock; it is not an error if there is no row.
DeleteJob(j) ==
    /\ row[j] \in Statuses
    /\ holder[j] = None
    /\ row' = [row EXCEPT ![j] = Deleted]
    /\ UNCHANGED <<holder, tx, commits>>

Begin(c, j, next) ==
    /\ tx[c].pc = "idle"
    /\ tx' = [tx EXCEPT ![c] = [pc |-> "begun", job |-> j, next |-> next]]
    /\ UNCHANGED <<row, holder, commits>>

Locked(c) == [pc   |-> "locked", job |-> tx[c].job, next |-> tx[c].next,
              read |-> row[tx[c].job]]

\* Mutant: a plain SELECT, which takes no lock and waits for none.
SelectWithoutLock(c) ==
    /\ tx[c].pc = "begun"
    /\ row[tx[c].job] \in Statuses
    /\ tx' = [tx EXCEPT ![c] = Locked(c)]
    /\ UNCHANGED <<row, holder, commits>>

\* SELECT status ... FOR UPDATE: waits until nobody holds the row.
SelectForUpdate(c) ==
    /\ tx[c].pc = "begun"
    /\ row[tx[c].job] \in Statuses
    /\ holder[tx[c].job] = None
    /\ tx' = [tx EXCEPT ![c] = Locked(c)]
    /\ holder' = [holder EXCEPT ![tx[c].job] = c]
    /\ UNCHANGED <<row, commits>>

\* pgx.ErrNoRows: ErrJobNotFound.
NotFound(c) ==
    /\ tx[c].pc = "begun"
    /\ row[tx[c].job] \notin Statuses
    /\ Finish(c)
    /\ UNCHANGED <<row, commits>>

\* Mutant: the early return leaves the transaction open.
RejectWithoutRollback(c) ==
    /\ tx[c].pc = "locked"
    /\ ~CanTransitionTo(tx[c].read, tx[c].next)
    /\ tx' = [tx EXCEPT ![c] = Idle]
    /\ UNCHANGED <<row, holder, commits>>

\* ErrInvalidStateTransition.
Reject(c) ==
    /\ tx[c].pc = "locked"
    /\ ~CanTransitionTo(tx[c].read, tx[c].next)
    /\ Finish(c)
    /\ UNCHANGED <<row, commits>>

ExecUpdate(c) ==
    /\ tx[c].pc = "locked"
    /\ CanTransitionTo(tx[c].read, tx[c].next)
    /\ tx' = [tx EXCEPT ![c].pc = "updated"]
    /\ UNCHANGED <<row, holder, commits>>

\* The server applies the update; whether the caller is told (nil) or sees a
\* failed commit is the same step for the database.
Commit(c) ==
    /\ tx[c].pc = "updated"
    /\ row' = [row EXCEPT ![tx[c].job] = tx[c].next]
    /\ commits' = [commits EXCEPT ![tx[c].job][tx[c].next] = @ + 1]
    /\ Finish(c)

\* A failed statement, a cancelled context or a broken connection.
Abort(c) ==
    /\ tx[c].pc # "idle"
    /\ Finish(c)
    /\ UNCHANGED <<row, commits>>

Call(c) == \/ SelectForUpdate(c)
           \/ NotFound(c)
           \/ Reject(c)
           \/ ExecUpdate(c)
           \/ Commit(c)

Next ==
    \/ \E j \in Jobs : CreateJob(j) \/ DeleteJob(j)
    \/ \E c \in Conns :
          \/ \E j \in Jobs, next \in Statuses : Begin(c, j, next)
          \/ Call(c)
          \/ Abort(c)

\* The server runs what it was sent, and queues the waiters of a row lock, so
\* a waiter that sees the row free again and again gets it.
Fairness ==
    \A c \in Conns : /\ WF_vars(NotFound(c) \/ Reject(c))
                     /\ WF_vars(ExecUpdate(c) \/ Commit(c))
                     /\ SF_vars(SelectForUpdate(c))

Spec == Init /\ [][Next]_vars /\ Fairness

-----------------------------------------------------------------------------
\* Whoever holds a row decides on its present status: what a transaction read
\* cannot go stale before it commits (the FOR UPDATE clause).
ReadIsCurrent ==
    \A c \in Conns :
        tx[c].pc \in {"locked", "updated"} =>
            /\ holder[tx[c].job] = c
            /\ row[tx[c].job] = tx[c].read

\* However many callers race, each status is entered at most once and a job
\* gets one outcome: two workers never both claim a job, and "completed" and
\* "failed" are never both written.
EachStatusOnce ==
    \A j \in Jobs :
        /\ \A s \in Statuses : commits[j][s] <= 1
        /\ commits[j]["completed"] + commits[j]["failed"] <= 1

Lifecycle == INSTANCE JobLifecycle

\* The transactions implement the abstract job table: every committed change
\* is one step of it (the early returns and rollbacks of UpdateJobStatus leave
\* no trace).
LifecycleSpec == Lifecycle!Spec

\* A call as the services see it; of the rest of Storage it touches nothing.
Whole == INSTANCE Storage
             WITH MediaType <- [j \in Jobs |-> "pdf"], TTL <- 1, Faults <- {},
                  expiresAt <- [j \in Jobs |-> 0], artRows <- [j \in Jobs |-> {}],
                  files <- {}, clock <- 0

\* The transactions do what UpdateJobStatus of Storage does in one step, at their
\* end: what is committed was legal in the row that it replaces, and a caller is
\* told ErrJobNotFound or ErrInvalidStateTransition only if that is so by then.
CallsAreAtomic ==
    [][\A c \in Conns :
          /\ Commit(c) => Whole!UpdateJobStatus(tx[c].job, tx[c].next, TRUE)
          /\ NotFound(c) \/ Reject(c) =>
                Whole!UpdateJobStatus(tx[c].job, tx[c].next, FALSE)]_vars

\* No call of UpdateJobStatus waits for ever on the lock of another one: every
\* way out of the function ends its transaction (the deferred Rollback).
EveryCallReturns ==
    \A c \in Conns : tx[c].pc # "idle" ~> tx[c].pc = "idle"
=============================================================================
