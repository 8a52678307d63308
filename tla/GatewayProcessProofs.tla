------------------------- MODULE GatewayProcessProofs -------------------------
(***************************************************************************)
(* The safety properties of a gateway process, for any number of           *)
(* connections and any backlog.                                            *)
(*                                                                         *)
(* What Stop and Shutdown have achieved must last: a loop that is done     *)
(* stays done (StopEndsSweeps is inductive), and no connection opens       *)
(* behind closed listeners, so that what a successful Shutdown found       *)
(* stays true until the exit (Quiet).                                      *)
(***************************************************************************)
EXTENDS GatewayProcess, TLAPS

\* Past Shutdown no connection waits for a request any more, and unless the
\* deadline has passed none is served either.
Quiet == ShutDown =>
    /\ \A c \in Conns : conn[c] # "idle"
    /\ ~late => \A c \in Conns : conn[c] \notin Busy

\* Bus and pool are closed by main alone, in this order.
ClosedInOrder ==
    /\ ~busOpen <=> main \in {"closePool", "poolWait", "exited"}
    /\ ~poolOpen <=> main \in {"poolWait", "exited"}

IInv == TypeOK /\ StopEndsSweeps /\ Quiet /\ ClosedInOrder

-----------------------------------------------------------------------------
LEMMA IInvInit == Init => IInv
<1> SUFFICES ASSUME Init PROVE IInv
    OBVIOUS
<1>1. TypeOK
    <2>1. /\ main \in Places /\ loop \in LoopPlaces /\ left \in 0 .. Backlog
          /\ loop \notin {"files", "row"}
          /\ conn \in [Conns -> ConnStates]
        BY ProcessAssumption DEF Init, Places, LoopPlaces, ConnStates
    <2> QED BY <2>1 DEF Init, TypeOK
<1>2. StopEndsSweeps /\ Quiet /\ ClosedInOrder
    BY DEF Init, StopEndsSweeps, Quiet, ClosedInOrder, Stopped, ShutDown
<1> QED BY <1>1, <1>2 DEF IInv

LEMMA TypeNext == TypeOK /\ [Next]_vars => TypeOK'
<1> SUFFICES ASSUME TypeOK, [Next]_vars PROVE TypeOK'
    OBVIOUS
<1> USE ProcessAssumption DEF TypeOK
<1>1. CASE TickerFires \/ SweepRuns \/ LoopExit
    <2>1. /\ loop' \in LoopPlaces /\ left' \in 0 .. Backlog
          /\ loop' \in {"files", "row"} => left' > 0
        BY <1>1 DEF TickerFires, SweepRuns, BeginSweep, EndList, DeleteFiles, EndRow,
                    LoopExit, LoopGoes, LoopPlaces
    <2>2. /\ UNCHANGED <<main, late, cancelled, conn, busOpen, poolOpen>>
          /\ ticked' \in BOOLEAN
        BY <1>1 DEF TickerFires, SweepRuns, BeginSweep, EndList, DeleteFiles, EndRow,
                    LoopExit, LoopGoes
    <2> QED BY <2>1, <2>2
<1>2. ASSUME NEW c \in Conns, NEW s \in ConnStates, ConnGoes(c, s) PROVE TypeOK'
    BY <1>2 DEF ConnGoes, loopVars
<1>3. ASSUME NEW c \in Conns,
             \/ Connect(c) \/ Disconnect(c) \/ BeginRequest(c) \/ EndRequest(c)
             \/ BeginQuery(c) \/ EndQuery(c)
      PROVE  TypeOK'
    BY <1>2, <1>3 DEF Connect, Disconnect, BeginRequest, EndRequest, BeginQuery,
                      EndQuery, ConnStates
<1>4. CASE Signal \/ Deadline \/ MainStep
    BY <1>4 DEF Signal, Deadline, MainStep, StopJanitor, AwaitJanitor, PollShutdown,
                DrainBus, ClosePool, Exit, loopVars, Places, ConnStates
<1>5. CASE UNCHANGED vars
    BY <1>5 DEF vars, loopVars
<1> QED BY <1>1, <1>3, <1>4, <1>5 DEF Next

\* No step of the loop or of main starts a loop that has ended.
LEMMA StopNext == TypeOK /\ StopEndsSweeps /\ [Next]_vars => StopEndsSweeps'
<1> SUFFICES ASSUME TypeOK, StopEndsSweeps, [Next]_vars PROVE StopEndsSweeps'
    OBVIOUS
<1> USE DEF StopEndsSweeps, Stopped
<1>1. CASE TickerFires \/ SweepRuns \/ LoopExit
    BY <1>1 DEF TickerFires, SweepRuns, BeginSweep, EndList, DeleteFiles, EndRow,
                LoopExit, LoopGoes
<1>2. ASSUME NEW c \in Conns,
             \/ Connect(c) \/ Disconnect(c) \/ BeginRequest(c) \/ EndRequest(c)
             \/ BeginQuery(c) \/ EndQuery(c)
      PROVE  UNCHANGED <<main, loop>>
    BY <1>2 DEF Connect, Disconnect, BeginRequest, EndRequest, BeginQuery, EndQuery,
                ConnGoes, loopVars
<1>3. CASE Signal \/ Deadline \/ MainStep
    BY <1>3 DEF Signal, Deadline, MainStep, StopJanitor, AwaitJanitor, PollShutdown,
                DrainBus, ClosePool, Exit, loopVars
<1> QED BY <1>1, <1>2, <1>3 DEF Next, vars, loopVars

\* Behind closed listeners connections only end.
LEMMA QuietNext == TypeOK /\ Quiet /\ [Next]_vars => Quiet'
<1> SUFFICES ASSUME TypeOK, Quiet, [Next]_vars, ShutDown'
             PROVE  /\ \A c \in Conns : conn'[c] # "idle"
                    /\ ~late' => \A c \in Conns : conn'[c] \notin Busy
    BY DEF Quiet
<1> USE DEF Quiet, ShutDown, Stopped, Busy, TypeOK
<1>1. CASE TickerFires \/ SweepRuns \/ LoopExit
    BY <1>1 DEF TickerFires, SweepRuns, BeginSweep, EndList, DeleteFiles, EndRow,
                LoopExit, LoopGoes
<1>2. ASSUME NEW c \in Conns,
             \/ Connect(c) \/ Disconnect(c) \/ BeginRequest(c) \/ EndRequest(c)
             \/ BeginQuery(c) \/ EndQuery(c)
      PROVE  /\ \A d \in Conns : conn'[d] # "idle"
             /\ ~late' => \A d \in Conns : conn'[d] \notin Busy
    BY <1>2 DEF Connect, Disconnect, BeginRequest, EndRequest, BeginQuery, EndQuery,
                ConnGoes, Listening
<1>3. CASE PollShutdown
    BY <1>3 DEF PollShutdown
<1>4. CASE Signal \/ Deadline \/ (MainStep /\ ~PollShutdown)
    BY <1>4 DEF Signal, Deadline, MainStep, StopJanitor, AwaitJanitor, DrainBus,
                ClosePool, Exit
<1>5. CASE UNCHANGED vars
    BY <1>5 DEF vars
<1> QED BY <1>1, <1>2, <1>3, <1>4, <1>5 DEF Next

LEMMA ClosedNext == ClosedInOrder /\ [Next]_vars => ClosedInOrder'
<1> SUFFICES ASSUME ClosedInOrder, [Next]_vars PROVE ClosedInOrder'
    OBVIOUS
<1> USE DEF ClosedInOrder
<1>1. CASE TickerFires \/ SweepRuns \/ LoopExit
    BY <1>1 DEF TickerFires, SweepRuns, BeginSweep, EndList, DeleteFiles, EndRow,
                LoopExit, LoopGoes
<1>2. ASSUME NEW c \in Conns,
             \/ Connect(c) \/ Disconnect(c) \/ BeginRequest(c) \/ EndRequest(c)
             \/ BeginQuery(c) \/ EndQuery(c)
      PROVE  UNCHANGED <<main, busOpen, poolOpen>>
    BY <1>2 DEF Connect, Disconnect, BeginRequest, EndRequest, BeginQuery, EndQuery,
                ConnGoes
<1>3. CASE Signal \/ Deadline \/ MainStep
    BY <1>3 DEF Signal, Deadline, MainStep, StopJanitor, AwaitJanitor, PollShutdown,
                DrainBus, ClosePool, Exit
<1> QED BY <1>1, <1>2, <1>3 DEF Next, vars

LEMMA Invariance == Spec => []IInv
<1>1. IInv /\ [Next]_vars => IInv'
    BY TypeNext, StopNext, QuietNext, ClosedNext DEF IInv
<1> QED BY <1>1, IInvInit, PTL DEF Spec

-----------------------------------------------------------------------------
\* The state of the process keeps its types.
THEOREM TypeCorrect == Spec => []TypeOK
<1>1. IInv => TypeOK
    BY DEF IInv
<1> QED BY <1>1, Invariance, PTL

\* However ticks, sweeps and the cancel interleave, no sweep of the loop runs
\* or starts after Stop has returned.
THEOREM SweepsEnd == Spec => []StopEndsSweeps
<1>1. IInv => StopEndsSweeps
    BY DEF IInv
<1> QED BY <1>1, Invariance, PTL

\* Requests lose the bus or the pool only after the deadline.
THEOREM RequestsAreKept == Spec => []OnlyDeadlineCuts
<1>1. IInv => OnlyDeadlineCuts
    BY DEF IInv, TypeOK, ConnStates, Quiet, ShutDown, Stopped, Busy, ClosedInOrder,
           OnlyDeadlineCuts
<1> QED BY <1>1, Invariance, PTL
=============================================================================
