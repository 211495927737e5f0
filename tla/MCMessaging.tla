---------------------------- MODULE MCMessaging ----------------------------
(***************************************************************************)
(* The parts that pass messages on, one of them running per behaviour: the *)
(* dead letter queue, the RabbitMQ connection, a confirmable publisher on  *)
(* one channel of it, and webhook delivery.  They share no state, and the  *)
(* others stand in an initial state.                                       *)
(***************************************************************************)
EXTENDS DeadLetterQueue, ConfirmablePublisher, WebhookDelivery, TLC

CONSTANTS m1, m2, m3, copy, t1, c1, c2

VARIABLE focus

-----------------------------------------------------------------------------
Homes == (m1 :> t1) @@ (m2 :> t1) @@ (m3 :> Global) @@ (copy :> t1)

(* Two consumers, a tenant's message and one without a tenant.             *)
Pair ==
    [consumers |-> {c1, c2}, messages |-> {m1, m3, copy}, spares |-> {copy}, astray |-> {},
     spent |-> {m3},
     maxRetries |-> 1, batchSize |-> 1, maxFaults |-> 1, maxPrunes |-> 0, maxStops |-> 1]

(* One consumer and a pruner, and two messages of one tenant; one of them  *)
(* lies in the list of another tenant or of none.                          *)
Solo ==
    [consumers |-> {c1}, messages |-> {m1, m2, copy}, spares |-> {copy}, astray |-> {m2},
     spent |-> {},
     maxRetries |-> 2, batchSize |-> 2, maxFaults |-> 1, maxPrunes |-> 1, maxStops |-> 0]

Queues == {Pair, Solo}

-----------------------------------------------------------------------------
Calls(x, y) == [a |-> x, b |-> y]

TwoCallers ==
    {Calls("ensure", "ensure"), Calls("getNew", "close"), Calls("open", "ensure"),
     Calls("connect", "connect"), Calls("connect", "ensure")}

(* Automatic recovery, and one reconnection by the application without it. *)
Recovers   == [recovery |-> TRUE, reconnects |-> 0, close |-> TRUE]
Publishers == {Recovers, [recovery |-> FALSE, reconnects |-> 1, close |-> TRUE]}

-----------------------------------------------------------------------------
Endpoint(a, t, x, s, c) == [active |-> a, target |-> t, encrypted |-> x, signs |-> s, check |-> c]

(* Version 1 signatures, one endpoint at a time; version 0 with an         *)
(* endpoint that is switched off and one that is blocked, or one signed    *)
(* with a secret of its own.                                               *)
Versioned ==
    [endpoints |-> <<Endpoint(TRUE, "safe", FALSE, "shared", "strictFresh"),
                     Endpoint(TRUE, "safe", TRUE, "shared", "none")>>,
     version |-> "v1", results |-> TRUE, maxConc |-> 1]

Events ==
    {Versioned,
     [endpoints |-> <<Endpoint(TRUE, "safe", FALSE, "shared", "fresh"),
                      Endpoint(FALSE, "safe", FALSE, "shared", "none"),
                      Endpoint(TRUE, "blocked", FALSE, "shared", "none")>>,
      version |-> "v0", results |-> FALSE, maxConc |-> 2],
     [endpoints |-> <<Endpoint(TRUE, "safe", FALSE, "other", "signature"),
                      Endpoint(TRUE, "safe", FALSE, "shared", "strictFresh")>>,
      version |-> "v0", results |-> FALSE, maxConc |-> 2]}

-----------------------------------------------------------------------------
MCInit ==
    /\ focus \in {"deadletters", "connection", "publisher", "webhook"}
    /\ QueueInit /\ (focus # "deadletters" => cfg = Pair)
    /\ ConnectionInit /\ (focus # "connection" => plan = Calls("connect", "connect") /\ dialled = 0)
    /\ PublisherInit /\ (focus # "publisher" => setup = Recovers)
    /\ WebhookInit /\ (focus # "webhook" => hook = Versioned)

MCNext ==
    /\ UNCHANGED focus
    /\ \/ focus = "deadletters" /\ QueueNext /\ UNCHANGED <<cvars, pvars, wvars>>
       \/ focus = "connection" /\ ConnectionNext /\ UNCHANGED <<queueVars, pvars, wvars>>
       \/ focus = "publisher" /\ PublisherNext /\ UNCHANGED <<queueVars, cvars, wvars>>
       \/ focus = "webhook" /\ WebhookNext /\ UNCHANGED <<queueVars, cvars, pvars>>

slots == <<focus, queueVars, cvars, pvars, wvars>>

(* What is assumed of each part is assumed of the one that runs.           *)
Queue(A)     == focus = "deadletters" /\ A /\ UNCHANGED <<focus, cfg, cvars, pvars, wvars>>
Publisher(A) == focus = "publisher" /\ A /\ UNCHANGED <<focus, queueVars, cvars, wvars>>
Webhook(A)   == focus = "webhook" /\ A /\ UNCHANGED <<focus, queueVars, cvars, pvars>>

(* Running consumers are scheduled, their ticker fires, retry functions    *)
(* return and time passes; the pruner finishes what it began.  Nobody has  *)
(* to start or stop a consumer.                                            *)
QueueFairness ==
    /\ \A c \in {c1, c2} : WF_slots(Queue(c \in Consumers /\ Step(c)))
    /\ \A m \in DOMAIN Homes : WF_slots(Queue(m \in Messages /\ Elapse(m)))
    /\ WF_slots(Queue(PruneEnqueue))

(* Publishes, monitors and a Reconnect under way go on: their waits have   *)
(* timeouts.  The broker need not answer, and nobody need close.           *)
PublisherFairness ==
    /\ \A m \in Publishes : WF_slots(Publisher(MessageStep(m)))
    /\ \A c \in Channels : WF_slots(Publisher(MonitorStep(c)))
    /\ WF_slots(Publisher(Reconnect))

(* Requests end by an answer or by the client's timeout.                   *)
WebhookFairness ==
    /\ \A e \in 1 .. 3 : WF_slots(Webhook(e \in DOMAIN hook.endpoints /\ EndpointStep(e)))
    /\ WF_slots(Webhook(CallStep))

MCSpec ==
    /\ MCInit /\ [][MCNext]_slots
    /\ QueueFairness /\ PublisherFairness /\ WebhookFairness

-----------------------------------------------------------------------------
(* Every message leaves the dead letter queue while a consumer runs; every *)
(* publish, recovery and webhook call returns, whether or not the other    *)
(* side answers (processSource, PublishAndWaitConfirm, fanOut).            *)
MessagingSettles ==
    []<>(/\ focus = "deadletters" => QueueSettled
         /\ focus = "publisher" => PublisherQuiet
         /\ focus = "webhook" => WebhookQuiet)
=============================================================================
