----------------------------- MODULE WebhookDelivery -----------------------------
(***************************************************************************)
(* From an audit event to an institution's webhook: the event is stored,   *)
(* a dispatch nobody awaits queues one job per subscribed webhook, and a   *)
(* worker runs the jobs, each attempt with a row of webhook_deliveries.    *)
(*                                                                         *)
(* The queue is BullMQ on Redis, and survives the server: a job that fails *)
(* is run again up to config.webhook.maxRetries times, and a job whose     *)
(* server went away is put back once.  Backoff is the delay between steps. *)
(***************************************************************************)
EXTENDS Integers, Sequences, FiniteSets

CONSTANTS
    Events,         \* audit events that may be logged
    Webhooks,       \* webhooks that may be registered
    Subscribers,    \* Subscribers[e]: those of e's institution that ask for e's type
    Notified,       \* the events of a type in WEBHOOK_EVENT_TYPES
    MaxAttempts,    \* attempts of a job
    Concurrency,    \* jobs a worker runs at a time
    MaxCrashes,     \* stops of the server, in one behaviour
    MaxThrows       \* database and queue calls that fail, in one behaviour

ASSUME SubscribersAreWebhooks == Subscribers \in [Events -> SUBSET Webhooks]

ASSUME DeliveryBounds ==
    /\ Notified \subseteq Events
    /\ MaxAttempts \in Nat \ {0} /\ Concurrency \in Nat \ {0}
    /\ MaxCrashes \in Nat /\ MaxThrows \in Nat

InProgress == 1
Delivered == 2
Failed == 3

Jobs == Events \X Webhooks

JobSteps == {"none", "waiting", "inserting", "posting", "marking-delivered",
             "marking-failed", "catching", "completed", "failed"}

Running == {"inserting", "posting", "marking-delivered", "marking-failed", "catching"}

VARIABLES
    auditLog,       \* the events stored
    webhooks,       \* webhooks[w]: "none", "active", or "deleted"
    dispatch,       \* dispatch[e]: the step, and the webhooks still to queue for
    jobs,           \* jobs[<<e, w>>]: step, attempts made, times put back
    deliveries,     \* deliveries[<<e, w>>]: the status of its rows, in order
    posts,          \* posts[<<e, w>>]: requests that the receiver got
    answered,       \* answered[<<e, w>>]: rows whose request was answered 2xx
    crashes, throws

deliveryVars == <<auditLog, webhooks, dispatch, jobs, deliveries, posts, answered,
                  crashes, throws>>
receiver == <<posts, answered>>

DeliveryInit ==
    /\ auditLog = {}
    /\ webhooks = [w \in Webhooks |-> "none"]
    /\ dispatch = [e \in Events |-> [step |-> "none", todo |-> {}]]
    /\ jobs = [p \in Jobs |-> [step |-> "none", attemptsMade |-> 0, stalled |-> 0]]
    /\ deliveries = [p \in Jobs |-> <<>>]
    /\ posts = [p \in Jobs |-> 0]
    /\ answered = [p \in Jobs |-> {}]
    /\ crashes = 0 /\ throws = 0

\* A call to Postgres or Redis may throw.
CallThrows == throws < MaxThrows /\ throws' = throws + 1

CallReturns == UNCHANGED throws
-----------------------------------------------------------------------------
(* The routes: POST and DELETE /v1/webhooks.                               *)

CreateWebhook(w) ==
    /\ webhooks[w] = "none"
    /\ webhooks' = [webhooks EXCEPT ![w] = "active"]
    /\ UNCHANGED <<auditLog, dispatch, jobs, deliveries, receiver, crashes, throws>>

Rows(w) == {p \in Jobs : p[2] = w /\ deliveries[p] # <<>>}

\* A mutant of Deletable: the foreign key is ON DELETE CASCADE.
DeletableAlways(w) == webhooks[w] = "active"

\* webhook_deliveries refers to webhooks: a row left behind refuses it.
Deletable(w) == webhooks[w] = "active" /\ Rows(w) = {}

DeleteWebhook(w) ==
    /\ Deletable(w)
    /\ webhooks' = [webhooks EXCEPT ![w] = "deleted"]
    /\ UNCHANGED <<auditLog, dispatch, jobs, deliveries, receiver, crashes, throws>>
-----------------------------------------------------------------------------
(* logAuditEvent awaits the insert, and only starts the dispatch.          *)

LogAuditEvent(e) ==
    /\ e \notin auditLog
    /\ auditLog' = auditLog \cup {e}
    /\ dispatch' = [dispatch EXCEPT ![e].step = IF e \in Notified THEN "selecting" ELSE "done"]
    /\ UNCHANGED <<webhooks, jobs, deliveries, receiver, crashes, throws>>

Dispatching(e, todo) ==
    dispatch' = [dispatch EXCEPT ![e] =
                    [step |-> IF todo = {} THEN "done" ELSE "queueing", todo |-> todo]]

\* Those active now; a webhook deleted later is queued for all the same.
SelectWebhooks(e) ==
    /\ dispatch[e].step = "selecting"
    /\ Dispatching(e, {w \in Subscribers[e] : webhooks[w] = "active"})
    /\ UNCHANGED <<auditLog, webhooks, jobs, deliveries, receiver, crashes, throws>>

AddJob(e) ==
    /\ dispatch[e].step = "queueing"
    /\ \E w \in dispatch[e].todo :
        /\ jobs' = [jobs EXCEPT ![<<e, w>>].step = "waiting"]
        /\ Dispatching(e, dispatch[e].todo \ {w})
    /\ UNCHANGED <<auditLog, webhooks, deliveries, receiver, crashes, throws>>

\* The error is written to the console; the rest of the loop is not done.
DispatchFails(e) ==
    /\ dispatch[e].step \in {"selecting", "queueing"}
    /\ dispatch' = [dispatch EXCEPT ![e] = [step |-> "done", todo |-> {}]]
    /\ CallThrows
    /\ UNCHANGED <<auditLog, webhooks, jobs, deliveries, receiver, crashes>>
-----------------------------------------------------------------------------
(* The worker's processor.                                                 *)

JobGoes(p, step) == jobs' = [jobs EXCEPT ![p].step = step]

\* Mutants of JobAttemptFails: the attempt is not counted; a job out of
\* attempts is removed from the queue.
AttemptUncounted(p) == JobGoes(p, "waiting")

AttemptRemoved(p) ==
    LET made == jobs[p].attemptsMade + 1
    IN  jobs' = [jobs EXCEPT ![p].attemptsMade = made,
                             ![p].step = IF made < MaxAttempts THEN "waiting" ELSE "none"]

JobAttemptFails(p) ==
    LET made == jobs[p].attemptsMade + 1
    IN  jobs' = [jobs EXCEPT ![p].attemptsMade = made,
                             ![p].step = IF made < MaxAttempts THEN "waiting" ELSE "failed"]

Mark(p, status) ==
    deliveries' = [deliveries EXCEPT ![p][Len(deliveries[p])] = status]

StartJob(p) ==
    /\ jobs[p].step = "waiting"
    /\ Cardinality({j \in Jobs : jobs[j].step \in Running}) < Concurrency
    /\ JobGoes(p, "inserting")
    /\ UNCHANGED <<auditLog, webhooks, dispatch, deliveries, receiver, crashes, throws>>

\* Outside the try: no row, no request, when the insert throws.
InsertDelivery(p) ==
    /\ jobs[p].step = "inserting"
    /\ \/ /\ webhooks[p[2]] = "active"
          /\ deliveries' = [deliveries EXCEPT ![p] = Append(@, InProgress)]
          /\ JobGoes(p, "posting")
          /\ CallReturns
       \/ /\ webhooks[p[2]] # "active"
          /\ JobAttemptFails(p)
          /\ CallReturns /\ UNCHANGED deliveries
       \/ /\ JobAttemptFails(p)
          /\ CallThrows /\ UNCHANGED deliveries
    /\ UNCHANGED <<auditLog, webhooks, dispatch, receiver, crashes>>

AfterAnswer(ok) == IF ok THEN "marking-delivered" ELSE "marking-failed"

\* A request without an answer in 10 s may still have reached the receiver.
Post(p) ==
    /\ jobs[p].step = "posting"
    /\ \/ \E ok \in BOOLEAN :
            /\ posts' = [posts EXCEPT ![p] = @ + 1]
            /\ answered' = IF ok THEN [answered EXCEPT ![p] = @ \cup {Len(deliveries[p])}]
                           ELSE answered
            /\ JobGoes(p, AfterAnswer(ok))
       \/ /\ posts' = [posts EXCEPT ![p] = @ + 1] \/ UNCHANGED posts
          /\ JobGoes(p, "catching")
          /\ UNCHANGED answered
    /\ UNCHANGED <<auditLog, webhooks, dispatch, deliveries, crashes, throws>>

\* The catch clause also gets an error of this update.
MarkDelivered(p) ==
    /\ jobs[p].step = "marking-delivered"
    /\ \/ Mark(p, Delivered) /\ JobGoes(p, "completed") /\ CallReturns
       \/ JobGoes(p, "catching") /\ CallThrows /\ UNCHANGED deliveries
    /\ UNCHANGED <<auditLog, webhooks, dispatch, receiver, crashes>>

\* The error for a bad status is thrown into the function's own catch.
MarkFailed(p) ==
    /\ jobs[p].step = "marking-failed"
    /\ \/ Mark(p, Failed) /\ CallReturns
       \/ CallThrows /\ UNCHANGED deliveries
    /\ JobGoes(p, "catching")
    /\ UNCHANGED <<auditLog, webhooks, dispatch, receiver, crashes>>

CatchError(p) ==
    /\ jobs[p].step = "catching"
    /\ \/ Mark(p, Failed) /\ CallReturns
       \/ CallThrows /\ UNCHANGED deliveries
    /\ JobAttemptFails(p)
    /\ UNCHANGED <<auditLog, webhooks, dispatch, receiver, crashes>>

\* BullMQ puts a stalled job back once.
PutBack(job) ==
    IF job.step \in Running
    THEN IF job.stalled = 0 THEN [job EXCEPT !.step = "waiting", !.stalled = 1]
                            ELSE [job EXCEPT !.step = "failed"]
    ELSE job

\* A dispatch is lost with the process, on SIGTERM too, which waits for the
\* jobs but not for it.
Crash ==
    /\ crashes < MaxCrashes
    /\ crashes' = crashes + 1
    /\ dispatch' = [e \in Events |->
          IF e \in auditLog THEN [step |-> "done", todo |-> {}] ELSE dispatch[e]]
    /\ jobs' = [p \in Jobs |-> PutBack(jobs[p])]
    /\ UNCHANGED <<auditLog, webhooks, deliveries, receiver, throws>>
-----------------------------------------------------------------------------
RunJob(p) ==
    \/ InsertDelivery(p) \/ Post(p) \/ MarkDelivered(p)
    \/ MarkFailed(p) \/ CatchError(p)

DeliveryNext ==
    \/ \E w \in Webhooks : CreateWebhook(w) \/ DeleteWebhook(w)
    \/ \E e \in Events :
        LogAuditEvent(e) \/ SelectWebhooks(e) \/ AddJob(e) \/ DispatchFails(e)
    \/ \E p \in Jobs : StartJob(p) \/ RunJob(p)
    \/ Crash

\* A worker takes jobs from the queue in turn, and every await ends.
DeliveryFairness ==
    \A p \in Jobs : WF_deliveryVars(RunJob(p)) /\ SF_deliveryVars(StartJob(p))

DeliverySpec == DeliveryInit /\ [][DeliveryNext]_deliveryVars /\ DeliveryFairness
-----------------------------------------------------------------------------
(* Webhooks, dispatches, jobs and rows keep to their types.                *)
DeliveryTypeOK ==
    /\ auditLog \subseteq Events
    /\ webhooks \in [Webhooks -> {"none", "active", "deleted"}]
    /\ dispatch \in [Events ->
          [step : {"none", "selecting", "queueing", "done"}, todo : SUBSET Webhooks]]
    /\ jobs \in [Jobs -> [step : JobSteps, attemptsMade : 0..MaxAttempts, stalled : 0..1]]
    /\ deliveries \in [Jobs -> Seq({InProgress, Delivered, Failed})]
    /\ posts \in [Jobs -> Nat]
    /\ answered \in [Jobs -> SUBSET (Nat \ {0})]
    /\ crashes \in 0..MaxCrashes /\ throws \in 0..MaxThrows

(* A webhook deleted while events are selected, queued or retried for it   *)
(* has never been called and never will be: the row comes before the call, *)
(* and needs its webhook.                                                  *)
DeletedIsNeverCalled ==
    \A p \in Jobs : webhooks[p[2]] = "deleted" => posts[p] = 0

(* Every call has a row of its own, and there are no more of them than     *)
(* attempts that failed, attempts cut off by a crash, and the last one.    *)
(* A row says delivered only of a call that was answered with success, and *)
(* a job is complete only with such a row, its last.                       *)
CallsAreRecorded ==
    \A p \in Jobs :
        LET job == jobs[p]
        IN  /\ posts[p] <= Len(deliveries[p])
            /\ Len(deliveries[p]) <= job.attemptsMade + crashes
                    + (IF job.step \in Running \cup {"completed"} THEN 1 ELSE 0)
            /\ \A k \in 1..Len(deliveries[p]) :
                  deliveries[p][k] = Delivered => k \in answered[p]
            /\ job.step = "completed" => deliveries[p][Len(deliveries[p])] = Delivered

(* A job as the receiver's notice.  It is run MaxAttempts times, and once  *)
(* more when an attempt was cut off and put back.                          *)
NoticeOf(job) ==
    IF job.step = "none" THEN "none"
    ELSE IF job.step = "completed" THEN "delivered"
    ELSE IF job.step = "failed" THEN "abandoned"
    ELSE "pending"

Channel == INSTANCE NotificationChannel WITH
    Notices <- Jobs, MaxCalls <- MaxAttempts + 1,
    notice <- [p \in Jobs |-> NoticeOf(jobs[p])],
    calls <- posts,
    acknowledged <- {p \in Jobs : answered[p] # {}}

(* The pipeline implements the channel, through failing calls, bad         *)
(* answers, silence and crashes: no event is queued twice, called for too  *)
(* often or after its job ended, or said to be delivered unanswered, and   *)
(* what is queued is settled.                                              *)
ImplementsChannel == Channel!ChannelSpec
=============================================================================
