------------------------------- MODULE EventBus -------------------------------
(***************************************************************************)
(* jobs.created on core NATS, as internal/adapters/nats/eventbus.go uses   *)
(* it: at most once, to one member of every queue group.  A subscription   *)
(* runs its handler on one goroutine, so its messages wait in a queue of   *)
(* the client, which is lost with the process and on Unsubscribe.          *)
(***************************************************************************)
EXTENDS Integers, Sequences

CONSTANTS Workers,
          QueueGroup        \* QueueGroup[w]: WORKER_QUEUE_GROUP of worker w

VARIABLES
    inTransit,              \* <<g, j>>: the event of job j, to queue group g
    pending,                \* pending[w]: received by w, not yet handled
    subscribed              \* subscribed[w]: w is in its queue group

busVars == <<inTransit, pending, subscribed>>

Groups == {QueueGroup[w] : w \in Workers}

BusTypeOK(ids) ==
    /\ inTransit \subseteq Groups \X ids
    /\ pending \in [Workers -> Seq(ids)]
    /\ subscribed \in [Workers -> BOOLEAN]

BusInit ==
    /\ inTransit  = {}
    /\ pending    = [w \in Workers |-> <<>>]
    /\ subscribed = [w \in Workers |-> TRUE]

\* Publish on jobs.created: the server makes one copy per queue group.
Publish(j) == inTransit' = inTransit \cup (Groups \X {j})

\* The server picks w among the members of its group.
Deliver(w, j) ==
    /\ subscribed[w]
    /\ <<QueueGroup[w], j>> \in inTransit
    /\ inTransit' = inTransit \ {<<QueueGroup[w], j>>}
    /\ pending' = [pending EXCEPT ![w] = Append(@, j)]
    /\ UNCHANGED subscribed

\* Core NATS keeps nothing: a lost connection, or a group without members.
Drop(g, j, lossy) ==
    /\ lossy \/ \A w \in Workers : QueueGroup[w] = g => ~subscribed[w]
    /\ <<g, j>> \in inTransit
    /\ inTransit' = inTransit \ {<<g, j>>}
    /\ UNCHANGED <<pending, subscribed>>

\* Unsubscribe: what the client has queued is not handled any more.
Unsubscribe(w) ==
    /\ subscribed' = [subscribed EXCEPT ![w] = FALSE]
    /\ pending' = [pending EXCEPT ![w] = <<>>]

\* A new process of the same worker: SubscribeQueue with an empty queue.
Resubscribe(w) ==
    /\ subscribed' = [subscribed EXCEPT ![w] = TRUE]
    /\ pending' = [pending EXCEPT ![w] = <<>>]
=============================================================================
