---------------------------- MODULE GatewayProcess ----------------------------
(***************************************************************************)
(* The life of a gateway process: cmd/gateway/main.go with its HTTP server *)
(* and the ticker loop of internal/core/janitor.go.  On a signal main      *)
(* stops the loop, shuts the server down and closes what both use:         *)
(*                                                                         *)
(*   serving -> signalled -> stopping (Stop waits) -> shutdown             *)
(*           -> drain -> closePool -> poolWait -> exited                   *)
(*                                                                         *)
(* cmd/janitor/main.go is the same process without a server: Conns = {}.   *)
(* What the handlers and the sweeps do to jobs is in MediaEngine; here     *)
(* they only run, wait for a statement, or are done.                       *)
(***************************************************************************)
EXTENDS Integers

CONSTANTS Conns,            \* connections that clients may open
          Backlog,          \* bound of the model: jobs a sweep finds expired
          JanitorOn         \* JANITOR_INTERVAL is positive

ASSUME ProcessAssumption == Backlog \in Nat /\ JanitorOn \in BOOLEAN

VARIABLES
    main,                   \* the place of the main goroutine
    late,                   \* the 15 seconds since the signal are over
    cancelled,              \* the loop's context
    loop,                   \* the place of the janitor's goroutine
    left,                   \* the jobs its sweep has yet to remove
    ticked,                 \* a tick waits in the ticker's channel
    conn,                   \* conn[c]: what the server does for c
    busOpen,
    poolOpen

loopVars == <<cancelled, loop, left, ticked>>
vars     == <<main, late, loopVars, conn, busOpen, poolOpen>>

Places    == {"serving", "signalled", "stopping", "shutdown", "drain", "closePool",
              "poolWait", "exited"}
Listening == main \in {"serving", "signalled", "stopping"}

\* An idle connection waits for a request; "query" is a handler whose statement
\* runs on a connection of the pool.
ConnStates == {"none", "idle", "handler", "query", "closed"}
Busy       == {"handler", "query"}

\* The places of the loop where a statement of its sweep runs.
LoopPlaces  == {"off", "waiting", "listing", "files", "row", "done"}
LoopQueries == {"listing", "row"}

TypeOK ==
    /\ main \in Places
    /\ late \in BOOLEAN /\ cancelled \in BOOLEAN /\ ticked \in BOOLEAN
    /\ busOpen \in BOOLEAN /\ poolOpen \in BOOLEAN
    /\ loop \in LoopPlaces
    /\ left \in 0 .. Backlog
    /\ loop \in {"files", "row"} => left > 0
    /\ conn \in [Conns -> ConnStates]

\* Start is called once, before the server serves.
Init ==
    /\ main = "serving"
    /\ late = FALSE
    /\ cancelled = FALSE
    /\ loop = IF JanitorOn THEN "waiting" ELSE "off"
    /\ left = 0
    /\ ticked = FALSE
    /\ conn = [c \in Conns |-> "none"]
    /\ busOpen = TRUE
    /\ poolOpen = TRUE

-----------------------------------------------------------------------------
(* The loop of the janitor *)

\* time.Ticker drops a tick that the channel of one has no room for.
TickerFires ==
    /\ loop \notin {"off", "done"}
    /\ ~ticked
    /\ ticked' = TRUE
    /\ UNCHANGED <<main, late, cancelled, loop, left, conn, busOpen, poolOpen>>

LoopGoes(place, n) ==
    /\ loop' = place
    /\ left' = n
    /\ UNCHANGED <<main, late, cancelled, conn, busOpen, poolOpen>>

\* select takes any of its ready cases, so a tick may still win after the
\* cancel; the first statement then fails at once.
BeginSweep ==
    /\ loop = "waiting"
    /\ ticked
    /\ ticked' = FALSE
    /\ LoopGoes(IF cancelled THEN "waiting" ELSE "listing", 0)

\* Mutant: an empty list is worked on.
EndAnyList ==
    /\ loop = "listing"
    /\ \E n \in 0 .. Backlog : LoopGoes("files", n)
    /\ UNCHANGED ticked

\* ListExpiredJobs answers, or fails; a statement that the cancel overtakes may
\* do either.
EndList ==
    /\ loop = "listing"
    /\ \/ \E n \in 1 .. Backlog : LoopGoes("files", n)
       \/ LoopGoes("waiting", 0)
    /\ UNCHANGED ticked

\* Deleting files does not look at the context.
DeleteFiles ==
    /\ loop = "files"
    /\ LoopGoes("row", left)
    /\ UNCHANGED ticked

\* DeleteJob, failed or not: the sweep goes on to the next job.
EndRow ==
    /\ loop = "row"
    /\ LoopGoes(IF left > 1 THEN "files" ELSE "waiting", left - 1)
    /\ UNCHANGED ticked

LoopExit ==
    /\ loop = "waiting"
    /\ cancelled
    /\ LoopGoes("done", 0)
    /\ UNCHANGED ticked

SweepRuns == BeginSweep \/ EndList \/ DeleteFiles \/ EndRow

-----------------------------------------------------------------------------
(* The server *)

ConnGoes(c, state) ==
    /\ conn' = [conn EXCEPT ![c] = state]
    /\ UNCHANGED <<main, late, loopVars, busOpen, poolOpen>>

Connect(c) == conn[c] = "none" /\ Listening /\ ConnGoes(c, "idle")

\* A request on a connection that is open, also while the server shuts down.
BeginRequest(c) == conn[c] = "idle" /\ main # "exited" /\ ConnGoes(c, "handler")

\* A handler asks the pool for a connection; a closed pool answers an error.
BeginQuery(c) ==
    conn[c] = "handler" /\ poolOpen /\ main # "exited" /\ ConnGoes(c, "query")

EndQuery(c) == conn[c] = "query" /\ main # "exited" /\ ConnGoes(c, "handler")

\* A server that shuts down closes the connection with the answer.
EndRequest(c) ==
    /\ conn[c] = "handler"
    /\ main # "exited"
    /\ ConnGoes(c, IF Listening THEN "idle" ELSE "closed")

Disconnect(c) == conn[c] = "idle" /\ main # "exited" /\ ConnGoes(c, "closed")

-----------------------------------------------------------------------------
(* main *)

Signal ==
    /\ main = "serving"
    /\ main' = "signalled"
    /\ UNCHANGED <<late, loopVars, conn, busOpen, poolOpen>>

\* shutdownCtx, which is made before the janitor is stopped.
Deadline ==
    /\ main \notin {"serving", "exited"}
    /\ ~late
    /\ late' = TRUE
    /\ UNCHANGED <<main, loopVars, conn, busOpen, poolOpen>>

\* Mutant: Stop waits for the loop without cancelling it.
StopUncancelled ==
    /\ main = "signalled"
    /\ main' = "stopping"
    /\ UNCHANGED <<late, loopVars, conn, busOpen, poolOpen>>

\* Stop: a loop that was never started has no cancel function.
StopJanitor ==
    /\ main = "signalled"
    /\ main' = "stopping"
    /\ cancelled' = JanitorOn
    /\ UNCHANGED <<late, loop, left, ticked, conn, busOpen, poolOpen>>

\* Mutant: Stop returns without waiting for the loop.
StopAtOnce ==
    /\ main = "stopping"
    /\ main' = "shutdown"
    /\ UNCHANGED <<late, loopVars, conn, busOpen, poolOpen>>

\* wg.Wait; the server then closes its listeners.
AwaitJanitor ==
    /\ main = "stopping"
    /\ loop \in {"off", "done"}
    /\ main' = "shutdown"
    /\ UNCHANGED <<late, loopVars, conn, busOpen, poolOpen>>

\* Mutant: the server is closed, not shut down.
CloseServer ==
    /\ main = "shutdown"
    /\ main' = "drain"
    /\ UNCHANGED <<late, loopVars, conn, busOpen, poolOpen>>

\* Shutdown closes idle connections, again and again until none is left or its
\* context ends.
PollShutdown ==
    /\ main = "shutdown"
    /\ conn' = [c \in Conns |-> IF conn[c] = "idle" THEN "closed" ELSE conn[c]]
    /\ IF late \/ \A c \in Conns : conn[c] \notin Busy
       THEN main' = "drain"
       ELSE UNCHANGED main
    /\ UNCHANGED <<late, loopVars, busOpen, poolOpen>>

\* Drain starts to close the NATS connection, and the deferred Close ends it.
DrainBus ==
    /\ main = "drain"
    /\ main' = "closePool"
    /\ busOpen' = FALSE
    /\ UNCHANGED <<late, loopVars, conn, poolOpen>>

\* The pool refuses new statements, and waits for those that run.
ClosePool ==
    /\ main = "closePool"
    /\ main' = "poolWait"
    /\ poolOpen' = FALSE
    /\ UNCHANGED <<late, loopVars, conn, busOpen>>

Exit ==
    /\ main = "poolWait"
    /\ \A c \in Conns : conn[c] # "query"
    /\ loop \notin LoopQueries
    /\ main' = "exited"
    /\ UNCHANGED <<late, loopVars, conn, busOpen, poolOpen>>

MainStep == \/ StopJanitor
            \/ AwaitJanitor
            \/ PollShutdown
            \/ DrainBus
            \/ ClosePool
            \/ Exit

Next == \/ TickerFires \/ SweepRuns \/ LoopExit
        \/ \E c \in Conns : \/ Connect(c) \/ Disconnect(c)
                            \/ BeginRequest(c) \/ EndRequest(c)
                            \/ BeginQuery(c) \/ EndQuery(c)
        \/ Signal \/ Deadline \/ MainStep

\* The goroutines and the clock go on, and the database answers; handlers and
\* clients owe nothing.  A select that finds its Done case ready again and again
\* takes it some time (SF): it chooses at random.
Fairness ==
    /\ WF_vars(MainStep) /\ WF_vars(Deadline)
    /\ WF_vars(SweepRuns) /\ SF_vars(LoopExit)
    /\ \A c \in Conns : WF_vars(EndQuery(c))

Spec == Init /\ [][Next]_vars /\ Fairness
-----------------------------------------------------------------------------
\* What main has left behind.
Stopped  == main \notin {"serving", "signalled", "stopping"}
ShutDown == Stopped /\ main # "shutdown"

\* When Stop has returned no sweep of the loop runs, and none starts.
StopEndsSweeps == Stopped => loop \in {"off", "done"}

\* NATS and the pool are taken away from a request only if it has used up the
\* deadline: no request starts or goes on behind a Shutdown that succeeded.
OnlyDeadlineCuts ==
    ~busOpen \/ ~poolOpen => late \/ \A c \in Conns : conn[c] \in {"none", "closed"}

\* After a signal the process exits, although streams may stay open and ticks
\* keep coming.
ShutdownCompletes == main = "signalled" ~> main = "exited"
=============================================================================
