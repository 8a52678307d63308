--------------------------- MODULE EventStreamProofs ---------------------------
(***************************************************************************)
(* Safety of EventStream for any number of streams, any capacity of the    *)
(* channel and any number of artifacts.  What the streams promise is shown *)
(* over any worker that keeps to JobFeed; then, that the worker here does. *)
(***************************************************************************)
EXTENDS EventStream, TLAPS

-----------------------------------------------------------------------------
(* Types *)

\* TypeOK as far as a stream can see.
PageTypeOK ==
    /\ row \in Statuses \cup {Deleted}
    /\ artRows \subseteq Artifacts
    /\ pc \in [Streams -> Places]
    /\ read \in [Streams -> Statuses \cup {Absent}]
    /\ shown \in [Streams -> Cards]
    /\ sub \in [Streams -> {"none", "sent", "active"}]
    /\ inFlight \in [Streams -> Nat]
    /\ queued \in [Streams -> 0..ChanCap]
    /\ told \in [Streams -> BOOLEAN]

LEMMA PageTypeInit == Init => PageTypeOK
  BY StreamAssumption DEF Init, PageTypeOK, NewJobStatus, Statuses, NoCard, Cards, Places

LEMMA PublishType ==
  ASSUME PageTypeOK, Publish
  PROVE  /\ inFlight' \in [Streams -> Nat]
         /\ \A s \in Streams : inFlight'[s] >= inFlight[s]
         /\ \A s \in Streams : Listening(s) => inFlight'[s] > 0
  BY DEF PageTypeOK, Publish

LEMMA GotoType ==
  ASSUME PageTypeOK, NEW s \in Streams, NEW place \in Places, Goto(s, place)
  PROVE  pc' \in [Streams -> Places]
  BY DEF PageTypeOK, Goto

LEMMA PageTypeStream == PageTypeOK /\ StreamsNext => PageTypeOK'
<1> SUFFICES ASSUME PageTypeOK, StreamsNext PROVE PageTypeOK'
    OBVIOUS
<1>1. ASSUME NEW s \in Streams, QueryJob(s) PROVE PageTypeOK'
  <2>1. pc' \in [Streams -> Places]
      BY <1>1, GotoType DEF QueryJob, ReadFails, Places
  <2>2. read' \in [Streams -> Statuses \cup {Absent}]
      BY <1>1 DEF QueryJob, PageTypeOK, HasRow
  <2> QED BY <1>1, <2>1, <2>2 DEF QueryJob, PageTypeOK, workerSide, eventSide
<1>2. ASSUME NEW s \in Streams, QueryArtifacts(s) PROVE PageTypeOK'
  <2>1. pc' \in [Streams -> Places]
      BY <1>2, GotoType DEF QueryArtifacts, ReadFails, Places
  <2>2. shown' \in [Streams -> Cards]
      BY <1>2 DEF QueryArtifacts, PageTypeOK, Cards
  <2> QED BY <1>2, <2>1, <2>2 DEF QueryArtifacts, PageTypeOK, workerSide, eventSide
<1>3. ASSUME NEW s \in Streams, Subscribe(s) PROVE PageTypeOK'
  <2>1. pc' \in [Streams -> Places]
      BY <1>3, GotoType DEF Subscribe, Places
  <2> QED BY <1>3, <2>1 DEF Subscribe, PageTypeOK, workerSide
<1>4. ASSUME NEW s \in Streams, TakeEvent(s) PROVE PageTypeOK'
  <2>1. pc' \in [Streams -> Places]
      BY <1>4, GotoType DEF TakeEvent, Places
  <2>2. queued[s] - 1 \in 0..ChanCap
      BY <1>4, StreamAssumption DEF TakeEvent, PageTypeOK
  <2>3. queued' \in [Streams -> 0..ChanCap]
      BY <1>4, <2>2 DEF TakeEvent, PageTypeOK
  <2> QED BY <1>4, <2>1, <2>3 DEF TakeEvent, PageTypeOK, workerSide
<1>5. ASSUME NEW s \in Streams, Register(s) PROVE PageTypeOK'
    BY <1>5 DEF Register, PageTypeOK, workerSide, streamSide
<1>6. ASSUME NEW s \in Streams, Offer(s) PROVE PageTypeOK'
    BY <1>6, StreamAssumption DEF Offer, PageTypeOK, workerSide, streamSide
<1>7. ASSUME NEW s \in Streams, Leave(s) PROVE PageTypeOK'
  <2>1. pc' \in [Streams -> Places]
      BY <1>7, GotoType DEF Leave, Places
  <2> QED BY <1>7, <2>1 DEF Leave, PageTypeOK, workerSide, eventSide
<1> QED BY <1>1, <1>2, <1>3, <1>4, <1>5, <1>6, <1>7 DEF StreamsNext, StreamStep

-----------------------------------------------------------------------------
(* What a worker that keeps to JobFeed does *)

\* JobFeed speaks of the same statuses.
LEMMA SameStatuses ==
    /\ Feed!Statuses = Statuses /\ Feed!Absent = Absent /\ Feed!Deleted = Deleted
    /\ Feed!NewJobStatus = NewJobStatus
    /\ \A s : Feed!IsTerminal(s) <=> IsTerminal(s)
  BY DEF Feed!Statuses, Statuses, Feed!Absent, Absent, Feed!Deleted, Deleted,
         Feed!NewJobStatus, NewJobStatus, Feed!IsTerminal, IsTerminal

\* The mapped variables, at the one job there is.
LEMMA TheJob ==
    /\ \A x, y : [[j \in {"job"} |-> x] EXCEPT !["job"] = y] = [j \in {"job"} |-> y]
    /\ \A x, y : [j \in {"job"} |-> x] = [j \in {"job"} |-> y] => x = y
    /\ \A x : [j \in {"job"} |-> x]["job"] = x
<1>1. \A x : [j \in {"job"} |-> x]["job"] = x
    OBVIOUS
<1>2. \A x, y : [[j \in {"job"} |-> x] EXCEPT !["job"] = y] = [j \in {"job"} |-> y]
    OBVIOUS
<1>3. ASSUME NEW x, NEW y, [j \in {"job"} |-> x] = [j \in {"job"} |-> y] PROVE x = y
  <2>1. [j \in {"job"} |-> x]["job"] = [j \in {"job"} |-> y]["job"]
      BY <1>3
  <2> QED BY <1>1, <2>1
<1> QED BY <1>1, <1>2, <1>3

\* What a step of the worker or the janitor does to the row and the artifacts.
Advanced(old, new) ==
    \/ old = "pending"    /\ new = "processing"
    \/ old = "processing" /\ new \in {"completed", "failed"}
    \/ old \in Statuses   /\ new = Deleted

\* A job is completed with the artifacts it has, all of them if no statement fails;
\* once an outcome was told, nothing but its removal comes.
Moved ==
    /\ row' = row \/ Advanced(row, row')
    /\ artRows' \subseteq Artifacts
    /\ row' = "completed" =>
          /\ artRows' = artRows
          /\ row = "completed" \/ Failing \/ artRows = Artifacts
    /\ (\E s \in Streams : told[s]) => row' \in {row, Deleted}
    /\ (\E s \in Streams : told'[s]) /\ (\A s \in Streams : ~told[s]) => row' = row

LEMMA FeedMoves == PageTypeOK /\ AnyWorker => Moved
<1> SUFFICES ASSUME PageTypeOK, AnyWorker PROVE Moved
    OBVIOUS
<1> USE DEF Moved
<1>1. CASE UNCHANGED <<row, artRows, told>>
    BY <1>1 DEF PageTypeOK
<1>2. ASSUME Feed!JobStep("job") PROVE Moved
  <2> DEFINE A == {j \in {"job"} : \E s \in Streams : told[s]}
             R == [j \in {"job"} |-> row]
             N == [j \in {"job"} |-> artRows]
  <2>0. row \in Statuses \cup {Deleted} /\ artRows \subseteq Artifacts
      BY DEF PageTypeOK
  <2>1. /\ "job" \in A <=> \E s \in Streams : told[s]
        /\ "job" \in A' <=> \E s \in Streams : told'[s]
      OBVIOUS
  <2>2. N' = N => artRows' = artRows
      BY TheJob
  <2>3. R' = R => row' = row
      BY TheJob
  <2>4. R["job"] = row /\ N["job"] = artRows
      BY TheJob
  <2>5. ASSUME NEW from, NEW to, Feed!Move("job", from, to)
        PROVE  /\ row = from /\ row' = to /\ artRows' = artRows
               /\ \A s \in Streams : ~told[s] /\ ~told'[s]
    <3>1. /\ R["job"] = from /\ R' = [R EXCEPT !["job"] = to] /\ N' = N /\ A' = A
          /\ "job" \notin A
        BY <2>5 DEF Feed!Move
    <3>2. row' = to
        BY <3>1, TheJob
    <3> QED BY <2>1, <2>2, <2>4, <3>1, <3>2
  <2>6. CASE Feed!Move("job", Feed!Absent, Feed!NewJobStatus)
      BY <2>0, <2>5, <2>6, SameStatuses DEF Absent, Deleted, Statuses
  <2>7. CASE Feed!Move("job", "pending", "processing")
      BY <2>0, <2>5, <2>7 DEF Advanced
  <2>8. CASE Feed!Record("job")
    <3>1. /\ R["job"] = "processing" /\ R' = R /\ A' = A /\ "job" \notin A
          /\ \E k \in 1 .. [j \in {"job"} |-> ArtifactCount]["job"] :
                N' = [N EXCEPT !["job"] = @ \cup {k}]
        BY <2>8 DEF Feed!Record
    <3>2. PICK k \in Artifacts : N' = [N EXCEPT !["job"] = N["job"] \cup {k}]
        BY <3>1, TheJob DEF Artifacts
    <3>3. artRows' = artRows \cup {k}
        BY <2>4, <3>2, TheJob
    <3> QED BY <2>0, <2>1, <2>3, <2>4, <3>1, <3>3
  <2>9. CASE Feed!Complete("job")
    <3>1. /\ Failing \/ N["job"] = 1 .. [j \in {"job"} |-> ArtifactCount]["job"]
          /\ Feed!Move("job", "processing", "completed")
        BY <2>9 DEF Feed!Complete
    <3>2. Failing \/ artRows = Artifacts
        BY <2>4, <3>1, TheJob DEF Artifacts
    <3> QED BY <2>0, <2>5, <3>1, <3>2 DEF Advanced
  <2>10. CASE Feed!Move("job", "processing", "failed")
      BY <2>0, <2>5, <2>10 DEF Advanced
  <2>11. CASE Feed!Remove("job")
    <3>1. /\ R["job"] \in Feed!Statuses /\ R' = [R EXCEPT !["job"] = Feed!Deleted] /\ A' = A
          /\ N' = [N EXCEPT !["job"] = {}]
        BY <2>11 DEF Feed!Remove
    <3>2. row' = Deleted /\ artRows' = {}
        BY <3>1, TheJob, SameStatuses
    <3>3. row \in Statuses /\ row' # "completed"
        BY <2>4, <3>1, <3>2, SameStatuses DEF Deleted
    <3> QED BY <2>1, <3>1, <3>2, <3>3 DEF Advanced
  <2>12. CASE Feed!Announce("job")
    <3>1. "job" \notin A /\ R' = R /\ N' = N
        BY <2>12 DEF Feed!Announce
    <3> QED BY <2>0, <2>1, <2>2, <2>3, <3>1
  <2> QED BY <1>2, <2>6, <2>7, <2>8, <2>9, <2>10, <2>11, <2>12 DEF Feed!JobStep
<1> QED BY <1>1, <1>2 DEF AnyWorker, Feed!Next

LEMMA FeedType == PageTypeOK /\ AnyWorker => PageTypeOK'
<1> SUFFICES ASSUME PageTypeOK, AnyWorker PROVE PageTypeOK'
    OBVIOUS
<1>1. row' \in Statuses \cup {Deleted} /\ artRows' \subseteq Artifacts
    BY FeedMoves DEF Moved, Advanced, PageTypeOK, Statuses
<1>2. inFlight' \in [Streams -> Nat]
    BY PublishType DEF AnyWorker, PageTypeOK
<1>3. told' \in [Streams -> BOOLEAN]
    BY DEF AnyWorker, PageTypeOK, Listening, Open
<1> QED BY <1>1, <1>2, <1>3 DEF AnyWorker, PageTypeOK, streamSide

LEMMA PageTypeNext == PageTypeOK /\ [AnyWorker \/ StreamsNext]_vars => PageTypeOK'
<1>1. PageTypeOK /\ UNCHANGED vars => PageTypeOK'
    BY DEF vars, workerSide, streamSide, eventSide, PageTypeOK
<1> QED BY <1>1, FeedType, PageTypeStream

-----------------------------------------------------------------------------
(* Cards *)

\* A status that was read or shown as completed is still completed, with the
\* artifacts of then, or gone; if no statement fails they are all there.
CardInv ==
    /\ row = "completed" => Failing \/ artRows = Artifacts
    /\ \A s \in Streams : read[s] = "completed" => row \in {"completed", Deleted}
    /\ \A s \in Streams :
          shown[s].status = "completed" =>
              /\ row \in {"completed", Deleted}
              /\ shown[s].artifacts = artRows \/ row = Deleted

LEMMA CardInit == Init => CardInv
  BY DEF Init, CardInv, NewJobStatus, NoCard, Absent

LEMMA CardNext == PageTypeOK /\ CardInv /\ [AnyWorker \/ StreamsNext]_vars => CardInv'
<1> SUFFICES ASSUME PageTypeOK, CardInv, [AnyWorker \/ StreamsNext]_vars PROVE CardInv'
    OBVIOUS
<1>1. CASE AnyWorker
  <2>1. /\ row = "completed" => row' \in {"completed", Deleted}
        /\ row = Deleted => row' = Deleted
      BY <1>1, FeedMoves DEF Moved, Advanced, Statuses, Deleted
  <2>2. row' = "completed" => artRows' = artRows /\ (Failing \/ artRows' = Artifacts)
      BY <1>1, FeedMoves DEF Moved, CardInv
  <2> QED BY <1>1, <2>1, <2>2 DEF AnyWorker, CardInv, streamSide, Failing, Artifacts
<1>2. ASSUME NEW s \in Streams, QueryJob(s) PROVE CardInv'
    BY <1>2 DEF QueryJob, CardInv, PageTypeOK, workerSide, Failing, Artifacts
<1>3. ASSUME NEW s \in Streams, QueryArtifacts(s) PROVE CardInv'
  <2>1. \A t \in Streams :
           shown'[t] = shown[t] \/ shown'[t] = [status |-> read[t], artifacts |-> artRows]
      BY <1>3 DEF QueryArtifacts, PageTypeOK
  <2>2. UNCHANGED <<row, artRows, read>>
      BY <1>3 DEF QueryArtifacts, workerSide
  <2>3. ASSUME NEW t \in Streams, shown'[t].status = "completed"
        PROVE  /\ row \in {"completed", Deleted}
               /\ shown'[t].artifacts = artRows \/ row = Deleted
    <3>1. CASE shown'[t] = shown[t]
        BY <2>3, <3>1 DEF CardInv
    <3>2. CASE shown'[t] = [status |-> read[t], artifacts |-> artRows]
        BY <2>3, <3>2 DEF CardInv
    <3> QED BY <2>1, <3>1, <3>2
  <2> QED BY <2>2, <2>3 DEF CardInv, Failing, Artifacts
<1>4. CASE /\ UNCHANGED <<workerSide, read, shown>>
    BY <1>4 DEF CardInv, workerSide, Failing, Artifacts
<1>5. ASSUME NEW s \in Streams,
              Subscribe(s) \/ TakeEvent(s) \/ Register(s) \/ Offer(s) \/ Leave(s)
       PROVE  UNCHANGED <<workerSide, read, shown>>
    BY <1>5 DEF Subscribe, TakeEvent, Register, Offer, Leave, streamSide
<1>6. CASE UNCHANGED vars
    BY <1>6, <1>4 DEF vars, streamSide
<1> QED BY <1>1, <1>2, <1>3, <1>4, <1>5, <1>6 DEF StreamsNext, StreamStep

\* Whatever worker keeps to JobFeed: a card that says "completed" lists the
\* artifacts that the job will ever have, although row and artifacts are read by two
\* statements.
THEOREM CardsAreFinalForAll == OpenSpec => []CompletedCardIsFinal
<1>1. CardInv => CompletedCardIsFinal
    BY DEF CardInv, CompletedCardIsFinal
<1> QED BY <1>1, PageTypeInit, PageTypeNext, CardInit, CardNext, PTL DEF OpenSpec

\* Whatever worker keeps to JobFeed: if no statement fails, these are all that its
\* processor made.
THEOREM CardsAreCompleteForAll ==
  ASSUME "db" \notin Faults
  PROVE  OpenSpec => []CompletedCardIsComplete
<1>1. CardInv => CompletedCardIsComplete
    BY DEF CardInv, CompletedCardIsComplete, Failing, Deleted
<1> QED BY <1>1, PageTypeInit, PageTypeNext, CardInit, CardNext, PTL DEF OpenSpec

-----------------------------------------------------------------------------
(* Wake-ups *)

\* Stream s waits, or is about to after a read that came before the outcome.
NeedsWakeUp(s) == \/ pc[s] = "wait"
                  \/ pc[s] = "artifacts" /\ ~IsTerminal(read[s])

Coming(s) == inFlight[s] + queued[s] > 0

\* A stream that an outcome was announced to either reads a settled row or has a
\* wake-up coming.  No stream subscribes twice.
WakeInv ==
    /\ \A s \in Streams : pc[s] = "subscribe" => sub[s] = "none"
    /\ \A s \in Streams : told[s] =>
          /\ sub[s] = "active"
          /\ IsTerminal(row) /\ NeedsWakeUp(s) => Coming(s)

LEMMA WakeInit == Init => WakeInv
  BY DEF Init, WakeInv

\* A step of stream s that leaves the worker's side alone and no wake-up behind.
LEMMA StreamKeepsWake ==
  ASSUME PageTypeOK, WakeInv, NEW s \in Streams,
         UNCHANGED <<workerSide, told>>,
         \A t \in Streams \ {s} :
            /\ pc'[t] = pc[t]
            /\ read'[t] = read[t]
            /\ sub'[t] = sub[t]
            /\ inFlight'[t] = inFlight[t]
            /\ queued'[t] = queued[t],
         told[s] => sub'[s] = "active",
         pc'[s] = "subscribe" => sub'[s] = "none",
         told[s] /\ IsTerminal(row) /\ NeedsWakeUp(s)' => Coming(s)'
  PROVE  WakeInv'
<1>1. \A t \in Streams \ {s} : NeedsWakeUp(t)' = NeedsWakeUp(t) /\ Coming(t)' = Coming(t)
    BY DEF NeedsWakeUp, Coming
<1> QED BY <1>1 DEF WakeInv, workerSide

LEMMA WakeStream ==
  ASSUME "read" \notin Faults, PageTypeOK, WakeInv, NEW s \in Streams,
         StreamStep(s) \/ Register(s) \/ Offer(s) \/ Leave(s)
  PROVE  WakeInv'
<1> USE DEF workerSide, streamSide, eventSide
<1>1. CASE QueryJob(s)
  <2>1. IsTerminal(row) => HasRow
      BY DEF IsTerminal, HasRow, Statuses
  <2>2. told[s] /\ IsTerminal(row) => ~NeedsWakeUp(s)'
      BY <1>1, <2>1 DEF QueryJob, NeedsWakeUp, Goto, WakeInv, PageTypeOK
  <2> QED BY <1>1, <2>2, StreamKeepsWake DEF QueryJob, Goto, ReadFails, PageTypeOK, WakeInv
<1>2. CASE QueryArtifacts(s)
  <2>1. told[s] /\ IsTerminal(row) /\ NeedsWakeUp(s)' => NeedsWakeUp(s)
      BY <1>2 DEF QueryArtifacts, NeedsWakeUp, Goto, WakeInv, PageTypeOK
  <2>2. Coming(s)' = Coming(s)
      BY <1>2 DEF QueryArtifacts, Coming
  <2>3. told[s] /\ IsTerminal(row) /\ NeedsWakeUp(s)' => Coming(s)'
      BY <2>1, <2>2 DEF WakeInv
  <2> QED BY <1>2, <2>3, StreamKeepsWake DEF QueryArtifacts, Goto, PageTypeOK, WakeInv
<1>3. CASE Subscribe(s)
  <2>1. ~told[s]
      BY <1>3 DEF Subscribe, WakeInv
  <2> QED BY <1>3, <2>1, StreamKeepsWake DEF Subscribe, Goto, PageTypeOK
<1>4. CASE TakeEvent(s)
  <2>1. ~NeedsWakeUp(s)'
      BY <1>4 DEF TakeEvent, Goto, NeedsWakeUp, PageTypeOK
  <2> QED BY <1>4, <2>1, StreamKeepsWake DEF TakeEvent, Goto, PageTypeOK, WakeInv
<1>5. CASE Register(s)
  <2>1. NeedsWakeUp(s)' = NeedsWakeUp(s) /\ Coming(s)' = Coming(s)
      BY <1>5 DEF Register, NeedsWakeUp, Coming
  <2> QED BY <1>5, <2>1, StreamKeepsWake DEF Register, PageTypeOK, WakeInv
<1>6. CASE Offer(s)
  <2>1. Coming(s)'
      BY <1>6, StreamAssumption DEF Offer, Coming, PageTypeOK
  <2> QED BY <1>6, <2>1, StreamKeepsWake DEF Offer, PageTypeOK, WakeInv
<1>7. CASE Leave(s)
  <2>1. ~NeedsWakeUp(s)'
      BY <1>7 DEF Leave, Goto, NeedsWakeUp, PageTypeOK
  <2> QED BY <1>7, <2>1, StreamKeepsWake DEF Leave, Goto, PageTypeOK, WakeInv
<1> QED BY <1>1, <1>2, <1>3, <1>4, <1>5, <1>6, <1>7 DEF StreamStep

LEMMA WakeWorker == PageTypeOK /\ WakeInv /\ AnyWorker => WakeInv'
<1> SUFFICES ASSUME PageTypeOK, WakeInv, AnyWorker PROVE WakeInv'
    OBVIOUS
<1>1. UNCHANGED <<pc, read, sub, queued>>
    BY DEF AnyWorker, streamSide
<1>2. ASSUME NEW s \in Streams, told'[s], IsTerminal(row') PROVE row' = row
  <2>1. row' \in {row, Deleted}
      BY <1>2, FeedMoves DEF Moved
  <2> QED BY <1>2, <2>1 DEF IsTerminal, Deleted
<1>4. ASSUME NEW s \in Streams, told'[s]
      PROVE  /\ sub'[s] = "active"
             /\ IsTerminal(row') /\ NeedsWakeUp(s)' => Coming(s)'
  <2>1. NeedsWakeUp(s)' = NeedsWakeUp(s)
      BY <1>1 DEF NeedsWakeUp
  <2>2. CASE UNCHANGED <<inFlight, told>>
      BY <1>1, <1>2, <1>4, <2>1, <2>2 DEF WakeInv, Coming
  <2>3. CASE Publish /\ told' \in {told, [t \in Streams |-> told[t] \/ Listening(t)]}
    <3>1. inFlight' \in [Streams -> Nat] /\ inFlight'[s] >= inFlight[s]
          /\ (Listening(s) => inFlight'[s] > 0)
        BY <2>3, PublishType
    <3>2. queued[s] \in Nat /\ inFlight[s] \in Nat
        BY StreamAssumption DEF PageTypeOK
    <3>3. CASE told[s]
      <4>1. Coming(s) => Coming(s)'
          BY <1>1, <3>1, <3>2 DEF Coming
      <4> QED BY <1>1, <1>2, <1>4, <2>1, <3>3, <4>1 DEF WakeInv
    <3>4. CASE ~told[s]
      <4>1. Listening(s)
          BY <1>4, <2>3, <3>4
      <4>2. Coming(s)' /\ sub[s] = "active"
          BY <1>1, <3>1, <3>2, <4>1 DEF Coming, Listening
      <4> QED BY <1>1, <4>2
    <3> QED BY <3>3, <3>4
  <2> QED BY <2>2, <2>3 DEF AnyWorker
<1> QED BY <1>1, <1>4 DEF WakeInv

LEMMA WakeNext ==
  ASSUME "read" \notin Faults
  PROVE  PageTypeOK /\ WakeInv /\ [AnyWorker \/ StreamsNext]_vars => WakeInv'
<1> SUFFICES ASSUME PageTypeOK, WakeInv, [AnyWorker \/ StreamsNext]_vars PROVE WakeInv'
    OBVIOUS
<1>1. CASE UNCHANGED vars
    BY <1>1 DEF vars, workerSide, streamSide, eventSide, WakeInv, NeedsWakeUp, Coming
<1> QED BY <1>1, WakeWorker, WakeStream DEF StreamsNext

\* Whatever worker keeps to JobFeed: if reads of the job do not fail, a stream that was
\* told an outcome never waits without a wake-up on its way.
THEOREM WakeUpsComeForAll ==
  ASSUME "read" \notin Faults
  PROVE  OpenSpec => []WakeUpIsComing
<1>1. WakeInv => WakeUpIsComing
    BY DEF WakeInv, WakeUpIsComing, NeedsWakeUp, Coming
<1> QED BY <1>1, PageTypeInit, PageTypeNext, WakeInit, WakeNext, PTL DEF OpenSpec

-----------------------------------------------------------------------------
(* The worker *)

\* What the row says while the worker is at a place; a failure that could not be
\* written is announced all the same.
RowsAt(place) ==
    CASE place = "claim"                                -> {"pending", Deleted}
      [] place \in {"progress10", "progress50", "work"} -> {"processing", Deleted}
      [] place = "announce" -> {"completed", "failed", Deleted}
                                    \cup IF Failing THEN {"processing"} ELSE {}
      [] OTHER              -> Statuses \cup {Deleted}

WorkerInv ==
    /\ worker \in {"claim", "progress10", "progress50", "work", "announce", "done"}
    /\ row \in RowsAt(worker)
    /\ tried \in 0 .. ArtifactCount
    /\ artRows \subseteq 1 .. tried
    /\ worker \notin {"announce", "done"} /\ row # Deleted =>
          Failing \/ artRows = 1 .. tried
    /\ told \in [Streams -> BOOLEAN]
    /\ worker # "done" => \A s \in Streams : ~told[s]

LEMMA WorkerInit == Init => WorkerInv
  BY StreamAssumption DEF Init, WorkerInv, RowsAt, NewJobStatus

LEMMA WorkerNext == WorkerInv /\ [Next]_vars => WorkerInv'
<1> SUFFICES ASSUME WorkerInv, [Next]_vars PROVE WorkerInv'
    OBVIOUS
<1> USE DEF WorkerInv, RowsAt, streamSide, eventSide, HasRow, Statuses, Deleted,
           Failing
<1>1. CASE Claim
    BY <1>1 DEF Claim
<1>2. CASE PublishProgress
    BY <1>2 DEF PublishProgress
<1>3. CASE Persist
  <2>1. tried \in Nat /\ tried' = tried + 1 /\ tried' \in 0 .. ArtifactCount
      BY <1>3, StreamAssumption DEF Persist
  <2>2. 1 .. tried' = (1 .. tried) \cup {tried + 1}
      BY <2>1
  <2> QED BY <1>3, <2>1, <2>2 DEF Persist
<1>4. CASE Complete
    BY <1>4 DEF Complete
<1>5. CASE Fail
    BY <1>5 DEF Fail
<1>6. CASE Announce
    BY <1>6 DEF Announce, Listening, Open
<1>7. CASE WorkerDies
    BY <1>7 DEF WorkerDies
<1>8. CASE Remove
    BY <1>8, StreamAssumption DEF Remove
<1>9. CASE UNCHANGED <<workerSide, told>>
    BY <1>9 DEF workerSide
<1>10. CASE StreamsNext
    BY <1>9, <1>10 DEF StreamsNext, StreamStep, QueryJob, QueryArtifacts, Subscribe,
       TakeEvent, Register, Offer, Leave
<1>11. CASE UNCHANGED vars
    BY <1>9, <1>11 DEF vars
<1> QED BY <1>1, <1>2, <1>3, <1>4, <1>5, <1>6, <1>7, <1>8, <1>10, <1>11 DEF Next

\* The step of the job that a step of the worker is; the events follow.
LEMMA WorkerKeeps ==
    ASSUME WorkerInv, [Next]_vars
    PROVE  [AnyWorker \/ StreamsNext]_vars
<1> DEFINE R == [j \in {"job"} |-> row]
           N == [j \in {"job"} |-> artRows]
           A == {j \in {"job"} : \E s \in Streams : told[s]}
<1>1. /\ tried \in 0 .. ArtifactCount /\ ArtifactCount \in Nat
      /\ artRows \subseteq 1 .. tried
      /\ R["job"] = row /\ N["job"] = artRows
    BY TheJob, StreamAssumption DEF WorkerInv
<1>2. ASSUME NEW from, NEW to, row = from, row' = to, UNCHANGED <<artRows, told>>,
             worker # "done"
      PROVE  Feed!Move("job", from, to)
  <2>1. R["job"] = from /\ N' = N /\ A' = A
      BY <1>1, <1>2
  <2>2. R' = [R EXCEPT !["job"] = to]
      BY <1>2, TheJob
  <2>3. "job" \notin A
      BY <1>2 DEF WorkerInv
  <2> QED BY <2>1, <2>2, <2>3 DEF Feed!Move
<1>3. ASSUME Feed!JobStep("job"), UNCHANGED <<streamSide, sub, inFlight, queued, told>>
      PROVE  AnyWorker
    BY <1>3 DEF AnyWorker, Feed!Next
<1>4. ASSUME UNCHANGED <<row, artRows, streamSide, eventSide>> PROVE AnyWorker
    BY <1>4 DEF AnyWorker, eventSide
<1>5. CASE Claim
  <2>1. CASE HasRow /\ row' = "processing"
    <3>1. row = "pending" /\ row' = "processing"
        BY <1>5, <2>1 DEF Claim, WorkerInv, RowsAt, HasRow, Statuses, Deleted
    <3>2. Feed!Move("job", "pending", "processing")
        BY <1>2, <1>5, <3>1 DEF Claim, eventSide
    <3> QED BY <1>3, <1>5, <3>2 DEF Claim, eventSide, Feed!JobStep
  <2>2. CASE UNCHANGED row
      BY <1>4, <1>5, <2>2 DEF Claim
  <2> QED BY <1>5, <2>1, <2>2 DEF Claim
<1>6. CASE PublishProgress
    BY <1>6 DEF PublishProgress, AnyWorker
<1>7. CASE Persist
  <2> DEFINE k == tried + 1
  <2>1. CASE HasRow /\ artRows' = artRows \cup {k}
    <3>1. row = "processing" /\ row' = row /\ told' = told
        BY <1>7, <2>1 DEF Persist, WorkerInv, RowsAt, HasRow, Statuses, Deleted, eventSide
    <3>2. k \in (1 .. ArtifactCount) \ artRows
        BY <1>1, <1>7 DEF Persist
    <3>3. k \in (1 .. [j \in {"job"} |-> ArtifactCount]["job"]) \ N["job"]
        BY <1>1, <3>2, TheJob
    <3> HIDE DEF k
    <3>4. N' = [N EXCEPT !["job"] = N["job"] \cup {k}]
        BY <1>1, <2>1, TheJob
    <3>5. R["job"] = "processing" /\ R' = R /\ A' = A /\ "job" \notin A
        BY <1>1, <1>7, <3>1 DEF Persist, WorkerInv
    <3>6. Feed!Record("job")
        BY <3>3, <3>4, <3>5 DEF Feed!Record
    <3> QED BY <1>3, <1>7, <3>6 DEF Persist, eventSide, Feed!JobStep
  <2>2. CASE UNCHANGED artRows
      BY <1>4, <1>7, <2>2 DEF Persist
  <2> QED BY <1>7, <2>1, <2>2 DEF Persist
<1>8. CASE Complete
  <2>1. CASE HasRow /\ row' = "completed"
    <3>1. row = "processing" /\ (Failing \/ artRows = 1 .. ArtifactCount)
        BY <1>8, <2>1 DEF Complete, WorkerInv, RowsAt, HasRow, Statuses, Deleted
    <3>2. Feed!Move("job", "processing", "completed")
        BY <1>2, <1>8, <2>1, <3>1 DEF Complete, eventSide
    <3>3. Failing \/ N["job"] = 1 .. [j \in {"job"} |-> ArtifactCount]["job"]
        BY <1>1, <3>1, TheJob
    <3>4. Feed!Complete("job")
        BY <3>2, <3>3 DEF Feed!Complete
    <3> QED BY <1>3, <1>8, <3>4 DEF Complete, eventSide, Feed!JobStep
  <2>2. CASE UNCHANGED row
      BY <1>4, <1>8, <2>2 DEF Complete
  <2> QED BY <1>8, <2>1, <2>2 DEF Complete
<1>9. CASE Fail
  <2>1. CASE HasRow /\ row' = "failed"
    <3>1. row = "processing" /\ row' = "failed"
        BY <1>9, <2>1 DEF Fail, WorkerInv, RowsAt, HasRow, Statuses, Deleted
    <3>2. Feed!Move("job", "processing", "failed")
        BY <1>2, <1>9, <3>1 DEF Fail, eventSide
    <3> QED BY <1>3, <1>9, <3>2 DEF Fail, eventSide, Feed!JobStep
  <2>2. CASE UNCHANGED row
      BY <1>4, <1>9, <2>2 DEF Fail
  <2> QED BY <1>9, <2>1, <2>2 DEF Fail
<1>10. CASE Announce
  <2>1. UNCHANGED <<row, artRows, streamSide, sub, queued>>
      BY <1>10 DEF Announce
  <2>2. /\ \A s \in Streams : ~told[s]
        /\ row \in {"completed", "failed", Deleted} \/ (Failing /\ row = "processing")
      BY <1>10 DEF Announce, WorkerInv, RowsAt
  <2>3. \/ UNCHANGED <<inFlight, told>>
        \/ Publish /\ told' = [s \in Streams |-> told[s] \/ Listening(s)]
      BY <1>10 DEF Announce
  <2>4. Feed!Next \/ UNCHANGED <<row, artRows, told>>
    <3>1. CASE UNCHANGED told
        BY <2>1, <3>1
    <3>2. CASE told' # told
      <4>1. told' = [s \in Streams |-> told[s] \/ Listening(s)] /\ told # told'
          BY <2>3, <3>2
      <4>2. CASE \E s \in Streams : told'[s]
        <5>1. A = {} /\ A' = {"job"}
            BY <2>2, <4>2
        <5>2. "job" \notin A /\ A' = A \cup {"job"} /\ R' = R /\ N' = N
            BY <2>1, <5>1
        <5>3. \/ Feed!IsTerminal(R["job"]) \/ R["job"] = Feed!Deleted
              \/ Failing /\ R["job"] = "processing"
            BY <1>1, <2>2, SameStatuses DEF IsTerminal
        <5>4. Feed!Announce("job")
            BY <5>2, <5>3 DEF Feed!Announce
        <5> QED BY <5>4 DEF Feed!Next, Feed!JobStep
      <4>3. CASE ~\E s \in Streams : told'[s]
        <5>1. told \in [Streams -> BOOLEAN]
            BY DEF WorkerInv
        <5>2. told' = told
            BY <2>2, <4>1, <4>3, <5>1
        <5> QED BY <4>1, <5>2
      <4> QED BY <4>2, <4>3
    <3> QED BY <3>1, <3>2
  <2> QED BY <2>1, <2>3, <2>4 DEF AnyWorker
<1>11. CASE WorkerDies
    BY <1>4, <1>11 DEF WorkerDies
<1>12. CASE Remove
  <2>1. /\ row \in Statuses /\ row' = Deleted /\ artRows' = {}
        /\ UNCHANGED <<streamSide, sub, inFlight, queued, told>>
      BY <1>12 DEF Remove, HasRow, eventSide
  <2>2. R["job"] \in Feed!Statuses /\ A' = A
      BY <1>1, <2>1, SameStatuses
  <2>3. R' = [R EXCEPT !["job"] = Feed!Deleted]
      BY <2>1, TheJob, SameStatuses
  <2>4. N' = [N EXCEPT !["job"] = {}]
      BY <2>1, TheJob
  <2>5. Feed!Remove("job")
      BY <2>2, <2>3, <2>4 DEF Feed!Remove
  <2> QED BY <1>3, <2>1, <2>5 DEF Feed!JobStep
<1> QED BY <1>5, <1>6, <1>7, <1>8, <1>9, <1>10, <1>11, <1>12 DEF Next

\* The worker and the janitor of EventStream keep to JobFeed, whatever fails, so that
\* the streams here are those over any such worker.
THEOREM ImplementsFeed == Spec => OpenSpec
<1> QED BY WorkerInit, WorkerNext, WorkerKeeps, PTL DEF Spec, OpenSpec

\* No stream, channel or card leaves its type, and eventChan never holds more
\* than its capacity.
THEOREM TypeCorrect == Spec => []TypeOK
<1>1. PageTypeOK /\ WorkerInv => TypeOK
    BY DEF PageTypeOK, WorkerInv, TypeOK
<1> QED BY <1>1, WorkerInit, WorkerNext, PageTypeInit, PageTypeNext, ImplementsFeed, PTL
        DEF Spec, OpenSpec

\* A card that says "completed" lists the artifacts that the job will ever have,
\* although row and artifacts are read by two statements, whatever fails.
THEOREM CardsAreFinal == Spec => []CompletedCardIsFinal
  BY ImplementsFeed, CardsAreFinalForAll, PTL

\* If no statement of the worker fails, it lists all the artifacts that were made.
THEOREM CardsAreComplete ==
  ASSUME "db" \notin Faults
  PROVE  Spec => []CompletedCardIsComplete
  BY ImplementsFeed, CardsAreCompleteForAll, PTL

\* If reads of the job do not fail, a stream that was told an outcome which the row
\* has never waits without a wake-up on its way, whatever the capacity of its channel.
THEOREM WakeUpsCome ==
  ASSUME "read" \notin Faults
  PROVE  Spec => []WakeUpIsComing
  BY ImplementsFeed, WakeUpsComeForAll, PTL
================================================================================
