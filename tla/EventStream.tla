------------------------------ MODULE EventStream ------------------------------
(***************************************************************************)
(* The pages that follow one job: handleSSEEvents in internal/handlers/    *)
(* http/handler.go.  A stream reads the job, sends its card, subscribes to *)
(* jobs.status.<id>, and then reads and sends again at every event until   *)
(* it has sent an outcome:                                                 *)
(*                                                                         *)
(*    query -> artifacts -> subscribe -> wait -> query -> artifacts -> ... *)
(*                                                                         *)
(* What the event says is never used, so events are only counted.  The     *)
(* worker is here as far as a stream can see it: the row, the artifacts    *)
(* and the order in which it writes and publishes (WorkerService has it    *)
(* whole).                                                                 *)
(***************************************************************************)
EXTENDS Integers, JobStatus

CONSTANTS Streams,          \* open requests for the job
          ChanCap,          \* capacity of eventChan: 10 in the code
          ArtifactCount,    \* artifacts the processor makes of the job
          Faults

ASSUME StreamAssumption ==
    /\ ChanCap \in Nat \ {0}
    /\ ArtifactCount \in Nat
    /\ Faults \subseteq {"read", "db", "bus", "media", "crash", "expire"}

VARIABLES
    row,                    \* the row of the job
    artRows,                \* its artifacts in job_artifacts, by number
    worker,                 \* what the worker of the job does next
    tried,                  \* how many AddArtifact calls the worker has made
    pc,                     \* pc[s]: where stream s is in its handler
    read,                   \* read[s]: the status its first query returned
    shown,                  \* shown[s]: the card it sent last
    sub,                    \* sub[s]: its subscription
    inFlight,               \* inFlight[s]: events on their way to s
    queued,                 \* queued[s]: events in its eventChan
    told                    \* told[s]: the outcome was published to s

workerSide == <<row, artRows, worker, tried>>
streamSide == <<pc, read, shown>>
eventSide  == <<sub, inFlight, queued, told>>
vars == <<workerSide, streamSide, eventSide>>

HasRow == row \in Statuses
Artifacts == 1 .. ArtifactCount
NoCard    == [status |-> Absent, artifacts |-> {}]
Cards     == [status : Statuses \cup {Absent}, artifacts : SUBSET Artifacts]

Places == {"query", "artifacts", "subscribe", "wait", "ended", "left"}
Open(s) == pc[s] \notin {"ended", "left"}

TypeOK ==
    /\ row \in Statuses \cup {Deleted}
    /\ artRows \subseteq Artifacts
    /\ worker \in {"claim", "progress10", "progress50", "work", "announce", "done"}
    /\ tried \in 0 .. ArtifactCount
    /\ pc \in [Streams -> Places]
    /\ read \in [Streams -> Statuses \cup {Absent}]
    /\ shown \in [Streams -> Cards]
    /\ sub \in [Streams -> {"none", "sent", "active"}]
    /\ inFlight \in [Streams -> Nat]
    /\ queued \in [Streams -> 0..ChanCap]
    /\ told \in [Streams -> BOOLEAN]

Init ==
    /\ row      = NewJobStatus
    /\ artRows  = {}
    /\ worker   = "claim"
    /\ tried    = 0
    /\ pc       = [s \in Streams |-> "query"]
    /\ read     = [s \in Streams |-> Absent]
    /\ shown    = [s \in Streams |-> NoCard]
    /\ sub      = [s \in Streams |-> "none"]
    /\ inFlight = [s \in Streams |-> 0]
    /\ queued   = [s \in Streams |-> 0]
    /\ told     = [s \in Streams |-> FALSE]

-----------------------------------------------------------------------------
(* The worker, and the janitor *)

\* The server knows of the subscription; the handler unsubscribes when it ends.
Listening(s) == sub[s] = "active" /\ Open(s)

\* Core NATS: a copy for each subscription.
Publish == inFlight' = [s \in Streams |->
                            IF Listening(s) THEN inFlight[s] + 1 ELSE inFlight[s]]

\* A statement may fail with nothing applied.  (One that is applied and whose
\* answer is lost leaves what it leaves, to a stream, when the worker dies next.)
Failing == "db" \in Faults

Claim ==
    /\ worker = "claim"
    /\ \/ HasRow /\ row' = "processing" /\ worker' = "progress10"
       \/ (~HasRow \/ Failing) /\ worker' = "done" /\ UNCHANGED row
    /\ UNCHANGED <<artRows, tried, streamSide, eventSide>>

\* The two progress events, before and after the processor is chosen.
PublishProgress ==
    /\ \/ worker = "progress10" /\ worker' = "progress50"
       \/ worker = "progress50" /\ worker' = "work"
    /\ Publish \/ ("bus" \in Faults /\ UNCHANGED inFlight)
    /\ UNCHANGED <<row, artRows, tried, streamSide, sub, queued, told>>

\* AddArtifact, one by one.  An error, also that of a foreign key whose row is
\* gone, is only logged.
Persist ==
    /\ worker = "work"
    /\ tried < ArtifactCount
    /\ tried' = tried + 1
    /\ \/ HasRow /\ artRows' = artRows \cup {tried + 1}
       \/ (~HasRow \/ Failing) /\ UNCHANGED artRows
    /\ UNCHANGED <<row, worker, streamSide, eventSide>>

\* Mutant: the status is written before the artifacts.
CompleteEarly ==
    /\ worker = "work"
    /\ \/ tried = 0 /\ HasRow /\ row' = "completed" /\ UNCHANGED worker
       \/ tried = ArtifactCount /\ worker' = "announce" /\ UNCHANGED row
    /\ UNCHANGED <<artRows, tried, streamSide, eventSide>>

\* UpdateJobStatus; nothing is announced if it fails or the row is gone.
Complete ==
    /\ worker = "work"
    /\ tried = ArtifactCount
    /\ \/ HasRow /\ row' = "completed" /\ worker' = "announce"
       \/ (~HasRow \/ Failing) /\ worker' = "done" /\ UNCHANGED row
    /\ UNCHANGED <<artRows, tried, streamSide, eventSide>>

\* A processor that fails does so before any artifact is recorded.  The error of
\* the write is ignored: the failure is announced also if the row is gone or
\* still says "processing".
Fail ==
    /\ "media" \in Faults
    /\ worker = "work"
    /\ tried = 0
    /\ \/ HasRow /\ row' = "failed"
       \/ (~HasRow \/ Failing) /\ UNCHANGED row
    /\ worker' = "announce"
    /\ UNCHANGED <<artRows, tried, streamSide, eventSide>>

Announce ==
    /\ worker = "announce"
    /\ worker' = "done"
    /\ \/ Publish /\ told' = [s \in Streams |-> told[s] \/ Listening(s)]
       \/ "bus" \in Faults /\ UNCHANGED <<inFlight, told>>
    /\ UNCHANGED <<row, artRows, tried, streamSide, sub, queued>>

WorkerDies ==
    /\ "crash" \in Faults
    /\ worker # "done"
    /\ worker' = "done"
    /\ UNCHANGED <<row, artRows, tried, streamSide, eventSide>>

\* A sweep; the artifacts go with the row.
Remove ==
    /\ "expire" \in Faults
    /\ HasRow
    /\ row' = Deleted
    /\ artRows' = {}
    /\ UNCHANGED <<worker, tried, streamSide, eventSide>>

-----------------------------------------------------------------------------
(* The streams *)

Goto(s, place) == pc' = [pc EXCEPT ![s] = place]

\* An error of GetJobByID ends a stream that has not subscribed yet; later the
\* handler goes back to waiting.
ReadFails(s) == Goto(s, IF sub[s] = "none" THEN "ended" ELSE "wait")

QueryJob(s) ==
    /\ pc[s] = "query"
    /\ \/ HasRow /\ Goto(s, "artifacts") /\ read' = [read EXCEPT ![s] = row]
       \/ (~HasRow \/ "read" \in Faults) /\ ReadFails(s) /\ UNCHANGED read
    /\ UNCHANGED <<workerSide, shown, eventSide>>

\* The second statement of GetJobByID, and the card made of both.
QueryArtifacts(s) ==
    /\ pc[s] = "artifacts"
    /\ \/ /\ shown' = [shown EXCEPT ![s] = [status |-> read[s], artifacts |-> artRows]]
          /\ Goto(s, CASE IsTerminal(read[s]) -> "ended"
                       [] sub[s] = "none"     -> "subscribe"
                       [] OTHER               -> "wait")
       \/ "read" \in Faults /\ ReadFails(s) /\ UNCHANGED shown
    /\ UNCHANGED <<workerSide, read, eventSide>>

Subscribe(s) ==
    /\ pc[s] = "subscribe"
    /\ \/ Goto(s, "wait") /\ sub' = [sub EXCEPT ![s] = "sent"]
       \/ "bus" \in Faults /\ Goto(s, "ended") /\ UNCHANGED sub
    /\ UNCHANGED <<workerSide, read, shown, inFlight, queued, told>>

\* The client sends its SUB asynchronously: Subscribe returns before the server
\* knows of it.
Register(s) ==
    /\ sub[s] = "sent"
    /\ Open(s)
    /\ sub' = [sub EXCEPT ![s] = "active"]
    /\ UNCHANGED <<workerSide, streamSide, inFlight, queued, told>>

\* Mutant: make(chan ports.Event), which only a waiting handler receives from.
OfferUnbuffered(s) ==
    /\ inFlight[s] > 0
    /\ Open(s)
    /\ inFlight' = [inFlight EXCEPT ![s] = @ - 1]
    /\ queued' = [queued EXCEPT ![s] = IF pc[s] = "wait" /\ @ = 0 THEN 1 ELSE @]
    /\ UNCHANGED <<workerSide, streamSide, sub, told>>

\* The callback of the subscription; an event the channel has no room for is
\* dropped.
Offer(s) ==
    /\ inFlight[s] > 0
    /\ Open(s)
    /\ inFlight' = [inFlight EXCEPT ![s] = @ - 1]
    /\ queued' = [queued EXCEPT ![s] = IF @ < ChanCap THEN @ + 1 ELSE @]
    /\ UNCHANGED <<workerSide, streamSide, sub, told>>

\* Mutant: the job of the last read is sent again.
TakeWithoutRead(s) ==
    /\ pc[s] = "wait"
    /\ queued[s] > 0
    /\ queued' = [queued EXCEPT ![s] = @ - 1]
    /\ Goto(s, "artifacts")
    /\ UNCHANGED <<workerSide, read, shown, sub, inFlight, told>>

TakeEvent(s) ==
    /\ pc[s] = "wait"
    /\ queued[s] > 0
    /\ queued' = [queued EXCEPT ![s] = @ - 1]
    /\ Goto(s, "query")
    /\ UNCHANGED <<workerSide, read, shown, sub, inFlight, told>>

\* The client closes the page; a handler that waits, or whose read is
\* cancelled, returns.
Leave(s) ==
    /\ Open(s)
    /\ Goto(s, "left")
    /\ UNCHANGED <<workerSide, read, shown, eventSide>>

StreamStep(s) == \/ QueryJob(s)
                 \/ QueryArtifacts(s)
                 \/ Subscribe(s)
                 \/ TakeEvent(s)

StreamsNext == \E s \in Streams : \/ StreamStep(s)
                                 \/ Register(s)
                                 \/ Offer(s)
                                 \/ Leave(s)

Next ==
    \/ Claim
    \/ PublishProgress
    \/ Persist
    \/ Complete
    \/ Fail
    \/ Announce
    \/ WorkerDies
    \/ Remove
    \/ StreamsNext

\* The gateway's goroutines run: the handler, and the callback of the client.
\* The worker, NATS and the clients owe nothing.
Fairness == \A s \in Streams : WF_vars(StreamStep(s)) /\ WF_vars(Offer(s))

Spec == Init /\ [][Next]_vars /\ Fairness

-----------------------------------------------------------------------------
\* A stream that was told an outcome which the row has never waits without a
\* wake-up on its way: it may be reading, or sending a card, when the outcome is
\* published, and eventChan drops what it has no room for, but a read of the row is
\* still to come.
WakeUpIsComing ==
    \A s \in Streams :
        told[s] /\ pc[s] = "wait" /\ IsTerminal(row) => inFlight[s] + queued[s] > 0

\* The card of a completed job is its last word: it lists every artifact that the
\* job has, and the job never gets another, although GetJobByID reads row and
\* artifacts by two statements while the worker writes; only a sweep in between
\* can take them away.
CompletedCardIsFinal ==
    \A s \in Streams :
        shown[s].status = "completed" => shown[s].artifacts = artRows \/ row = Deleted

\* If no statement fails these are all the artifacts that the processor made.
CompletedCardIsComplete ==
    \A s \in Streams :
        shown[s].status = "completed" => shown[s].artifacts = Artifacts \/ row = Deleted

\* A page that was told an outcome which the row has shows it, unless it is closed
\* or the job expires first.
OutcomeIsShown ==
    \A s \in Streams :
        told[s] /\ IsTerminal(row) ~>
            IsTerminal(shown[s].status) \/ pc[s] = "left" \/ row = Deleted

\* The one job here, as JobFeed sees it: an outcome that no stream hears is as good
\* as none.
Feed == INSTANCE JobFeed
            WITH Jobs      <- {"job"},
                 Total     <- [j \in {"job"} |-> ArtifactCount],
                 row       <- [j \in {"job"} |-> row],
                 recorded  <- [j \in {"job"} |-> artRows],
                 announced <- {j \in {"job"} : \E s \in Streams : told[s]}

\* Whatever a worker and the janitor do that keeps to JobFeed, with an event now and
\* then.
AnyWorker ==
    /\ Feed!Next \/ UNCHANGED <<row, artRows, told>>
    /\ \/ UNCHANGED <<inFlight, told>>
       \/ Publish /\ told' \in {told, [s \in Streams |-> told[s] \/ Listening(s)]}
    /\ UNCHANGED <<streamSide, sub, queued>>

\* The streams, over any such worker.
OpenSpec == Init /\ [][AnyWorker \/ StreamsNext]_vars

\* What the specification of the gateway promises: a stream that is open when
\* the worker is done with the job still gets its final result.
NoPageForgotten ==
    \A s \in Streams :
        worker = "done" /\ IsTerminal(row) /\ pc[s] = "wait" =>
            inFlight[s] + queued[s] > 0
=============================================================================
