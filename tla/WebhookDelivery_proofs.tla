------------------------- MODULE WebhookDelivery_proofs -------------------------
(***************************************************************************)
(* Theorems about WebhookDelivery: for any events, webhooks, retries and   *)
(* crashes, every call has its row, a delivered row was answered with      *)
(* success, a deleted webhook is never called, and the pipeline implements *)
(* NotificationChannel up to its liveness.                                 *)
(***************************************************************************)
EXTENDS WebhookDelivery, TLAPS

Statuses == {InProgress, Delivered, Failed}

(* Steps at which the last attempt has its row.                            *)
Rowed == {"posting", "marking-delivered", "marking-failed", "catching", "completed"}

(* How many rows and calls a job has, by the step it is at.                *)
CountInv(p) ==
    LET job == jobs[p]
        n == Len(deliveries[p])
    IN  /\ job.step \in Running \cup {"none", "waiting"} => job.attemptsMade < MaxAttempts
        /\ n <= job.attemptsMade + crashes + 1
        /\ job.step \notin Rowed => n <= job.attemptsMade + crashes
        /\ job.step \in Rowed => n >= 1
        /\ posts[p] <= n
        /\ job.step = "posting" => posts[p] < n

(* What the rows say, and what was answered.                               *)
RowsInv(p) ==
    LET n == Len(deliveries[p])
    IN  /\ jobs[p].step = "marking-delivered" => n \in answered[p]
        /\ \A k \in 1..n : deliveries[p][k] = Delivered => k \in answered[p]
        /\ jobs[p].step = "completed" => deliveries[p][n] = Delivered

(* A webhook with a row is not deleted.                                    *)
KeptInv(p) == webhooks[p[2]] = "deleted" => deliveries[p] = << >>

JobInv(p) == CountInv(p) /\ RowsInv(p) /\ KeptInv(p)

(* A job is queued once: what is still to queue has no job yet.            *)
DispatchInv(e) ==
    /\ e \notin auditLog => dispatch[e].step = "none"
    /\ dispatch[e].step \in {"none", "selecting"} =>
          \A w \in Webhooks : jobs[<<e, w>>].step = "none"
    /\ \A w \in dispatch[e].todo : jobs[<<e, w>>].step = "none"

DeliveryInv ==
    /\ DeliveryTypeOK
    /\ \A p \in Jobs : JobInv(p)
    /\ \A e \in Events : DispatchInv(e)

JobRecord == [step : JobSteps, attemptsMade : 0..MaxAttempts, stalled : 0..1]

-----------------------------------------------------------------------------
LEMMA TypeParts ==
    ASSUME DeliveryTypeOK
    PROVE  /\ jobs \in [Jobs -> JobRecord] /\ deliveries \in [Jobs -> Seq(Statuses)]
           /\ posts \in [Jobs -> Nat] /\ answered \in [Jobs -> SUBSET (Nat \ {0})]
           /\ crashes \in Nat /\ MaxAttempts \in Nat
           /\ \A p \in Jobs : /\ jobs[p].attemptsMade \in Nat /\ posts[p] \in Nat
                               /\ Len(deliveries[p]) \in Nat
           /\ dispatch \in [Events ->
                [step : {"none", "selecting", "queueing", "done"}, todo : SUBSET Webhooks]]
BY DeliveryBounds DEF DeliveryTypeOK, JobRecord, Statuses

LEMMA TypeWhole ==
    ASSUME jobs \in [Jobs -> JobRecord], deliveries \in [Jobs -> Seq(Statuses)],
           posts \in [Jobs -> Nat], answered \in [Jobs -> SUBSET (Nat \ {0})],
           crashes \in 0..MaxCrashes, throws \in 0..MaxThrows, auditLog \subseteq Events,
           webhooks \in [Webhooks -> {"none", "active", "deleted"}],
           dispatch \in [Events ->
              [step : {"none", "selecting", "queueing", "done"}, todo : SUBSET Webhooks]]
    PROVE  DeliveryTypeOK
BY DEF DeliveryTypeOK, JobRecord, Statuses

(* A call that may throw keeps to the bound on those that do.              *)
LEMMA ThrowsType ==
    ASSUME DeliveryTypeOK, CallThrows \/ CallReturns
    PROVE  throws' \in 0..MaxThrows
BY DeliveryBounds DEF DeliveryTypeOK, CallThrows, CallReturns

(* What one element appended, or replaced at the end, makes of the rows.   *)
LEMMA AppendRow ==
    ASSUME DeliveryTypeOK, NEW p \in Jobs, NEW status \in Statuses,
           deliveries' = [deliveries EXCEPT ![p] = Append(@, status)]
    PROVE  /\ deliveries' \in [Jobs -> Seq(Statuses)]
           /\ Len(deliveries'[p]) = Len(deliveries[p]) + 1
           /\ deliveries'[p][Len(deliveries'[p])] = status
           /\ \A k \in 1..Len(deliveries[p]) : deliveries'[p][k] = deliveries[p][k]
           /\ \A q \in Jobs \ {p} : deliveries'[q] = deliveries[q]
<1>1. deliveries \in [Jobs -> Seq(Statuses)]
  BY DEF DeliveryTypeOK, Statuses
<1> QED
  BY <1>1

LEMMA MarkRow ==
    ASSUME DeliveryTypeOK, NEW p \in Jobs, Len(deliveries[p]) >= 1,
           NEW status \in Statuses, Mark(p, status)
    PROVE  /\ deliveries' \in [Jobs -> Seq(Statuses)]
           /\ Len(deliveries'[p]) = Len(deliveries[p])
           /\ deliveries'[p][Len(deliveries[p])] = status
           /\ \A k \in 1..Len(deliveries[p]) :
                 k # Len(deliveries[p]) => deliveries'[p][k] = deliveries[p][k]
           /\ \A q \in Jobs \ {p} : deliveries'[q] = deliveries[q]
<1>1. deliveries \in [Jobs -> Seq(Statuses)]
  BY DEF DeliveryTypeOK, Statuses
<1> DEFINE rows == deliveries[p]
           marked == [rows EXCEPT ![Len(rows)] = status]
<1>2. rows \in Seq(Statuses) /\ Len(rows) \in Nat
  BY <1>1
<1>3. /\ marked \in Seq(Statuses) /\ Len(marked) = Len(rows)
      /\ marked[Len(rows)] = status
      /\ \A k \in 1..Len(rows) : k # Len(rows) => marked[k] = rows[k]
  BY <1>2
<1>4. deliveries' = [deliveries EXCEPT ![p] = marked]
  BY DEF Mark
<1> HIDE DEF marked
<1> QED
  BY <1>1, <1>3, <1>4

(* A job that goes on, and one whose attempt failed, stays of its type.    *)
LEMMA JobGoesType ==
    ASSUME DeliveryTypeOK, NEW p \in Jobs, NEW step \in JobSteps, JobGoes(p, step)
    PROVE  /\ jobs' \in [Jobs -> JobRecord]
           /\ jobs'[p].step = step /\ jobs'[p].attemptsMade = jobs[p].attemptsMade
           /\ \A q \in Jobs \ {p} : jobs'[q] = jobs[q]
BY DEF JobGoes, DeliveryTypeOK, JobRecord

LEMMA AttemptFailsType ==
    ASSUME DeliveryInv, NEW p \in Jobs, jobs[p].step \in Running, JobAttemptFails(p)
    PROVE  /\ jobs' \in [Jobs -> JobRecord]
           /\ jobs'[p].attemptsMade = jobs[p].attemptsMade + 1
           /\ \/ jobs'[p].step = "waiting" /\ jobs'[p].attemptsMade < MaxAttempts
              \/ jobs'[p].step = "failed"
           /\ \A q \in Jobs \ {p} : jobs'[q] = jobs[q]
<1>1. jobs \in [Jobs -> JobRecord]
  BY DEF DeliveryInv, DeliveryTypeOK, JobRecord
<1>2. jobs[p].attemptsMade < MaxAttempts /\ jobs[p].attemptsMade \in 0..MaxAttempts
  BY <1>1 DEF DeliveryInv, JobInv, CountInv, JobRecord
<1> DEFINE made == jobs[p].attemptsMade + 1
           new == [jobs[p] EXCEPT !.attemptsMade = made,
                     !.step = IF made < MaxAttempts THEN "waiting" ELSE "failed"]
<1>3. /\ new \in JobRecord /\ new.attemptsMade = made
      /\ new.step = (IF made < MaxAttempts THEN "waiting" ELSE "failed")
  <2>1. made \in 0..MaxAttempts
    BY <1>2, DeliveryBounds
  <2>2. jobs[p] \in JobRecord
    BY <1>1
  <2> HIDE DEF made
  <2> QED
    BY <2>1, <2>2 DEF JobRecord, JobSteps
<1>4. jobs' = [jobs EXCEPT ![p] = new]
  BY <1>1 DEF JobAttemptFails
<1> HIDE DEF new
<1> QED
  BY <1>1, <1>3, <1>4

-----------------------------------------------------------------------------
(* The worker's step of one job leaves the others and the queueing alone.  *)
LEMMA WorkerFrame ==
    ASSUME DeliveryInv, NEW p \in Jobs, StartJob(p) \/ RunJob(p)
    PROVE  /\ UNCHANGED <<auditLog, webhooks, dispatch, crashes>>
           /\ jobs[p].step \in Running \cup {"waiting"}
           /\ \A q \in Jobs \ {p} : /\ jobs'[q] = jobs[q] /\ deliveries'[q] = deliveries[q]
                                    /\ posts'[q] = posts[q] /\ answered'[q] = answered[q]
BY DEF StartJob, RunJob, InsertDelivery, Post, MarkDelivered, MarkFailed, CatchError, JobGoes,
       JobAttemptFails, Mark, Running, DeliveryInv, DeliveryTypeOK, receiver

LEMMA WorkerKeepsDispatch ==
    ASSUME DeliveryInv, NEW p \in Jobs, StartJob(p) \/ RunJob(p)
    PROVE  \A e \in Events : DispatchInv(e)'
<1>1. /\ UNCHANGED <<auditLog, dispatch>>
      /\ \A q \in Jobs : jobs[q].step = "none" => jobs'[q].step = "none"
  BY WorkerFrame DEF Running
<1> QED
  BY <1>1 DEF DeliveryInv, DispatchInv, Jobs, DeliveryTypeOK

LEMMA TypeOfInsert ==
    ASSUME DeliveryInv, NEW p \in Jobs, InsertDelivery(p)
    PROVE  DeliveryTypeOK' /\ JobInv(p)'
<1>1. /\ DeliveryTypeOK /\ CountInv(p) /\ RowsInv(p) /\ KeptInv(p) /\ jobs[p].step = "inserting"
      /\ UNCHANGED <<auditLog, webhooks, dispatch, posts, answered, crashes>>
      /\ CallThrows \/ CallReturns
  BY DEF InsertDelivery, DeliveryInv, JobInv, receiver
<1>2. /\ Len(deliveries[p]) \in Nat /\ posts[p] \in Nat /\ crashes \in Nat
      /\ jobs[p].attemptsMade \in Nat /\ throws' \in 0..MaxThrows /\ MaxAttempts \in Nat
  BY <1>1, TypeParts, ThrowsType
<1>3. /\ jobs[p].attemptsMade < MaxAttempts
      /\ Len(deliveries[p]) <= jobs[p].attemptsMade + crashes
      /\ posts[p] <= Len(deliveries[p])
  BY <1>1 DEF CountInv, Rowed, Running
<1>4. CASE /\ webhooks[p[2]] = "active"
           /\ deliveries' = [deliveries EXCEPT ![p] = Append(@, InProgress)]
           /\ JobGoes(p, "posting")
  <2>1. /\ deliveries' \in [Jobs -> Seq(Statuses)]
        /\ Len(deliveries'[p]) = Len(deliveries[p]) + 1
        /\ deliveries'[p][Len(deliveries[p]) + 1] = InProgress
        /\ \A k \in 1..Len(deliveries[p]) : deliveries'[p][k] = deliveries[p][k]
    <3>1. InProgress \in Statuses
      BY DEF Statuses
    <3> QED
      BY <1>1, <1>4, <3>1, AppendRow
  <2>2. /\ jobs' \in [Jobs -> JobRecord]
        /\ jobs'[p].step = "posting" /\ jobs'[p].attemptsMade = jobs[p].attemptsMade
    BY <1>1, <1>4, JobGoesType DEF JobSteps
  <2>3. DeliveryTypeOK'
    BY <1>1, <1>2, <2>1, <2>2 DEF DeliveryTypeOK, JobRecord, Statuses
  <2>4. CountInv(p)'
    BY <1>1, <1>2, <1>3, <1>4, <2>1, <2>2 DEF CountInv, Rowed
  <2>5. RowsInv(p)'
    <3>1. InProgress # Delivered
      BY DEF InProgress, Delivered
    <3>2. \A k \in 1..(Len(deliveries[p]) + 1) :
            k \in 1..Len(deliveries[p]) \/ k = Len(deliveries[p]) + 1
      BY <1>2
    <3> QED
      BY <1>1, <2>1, <2>2, <3>1, <3>2 DEF RowsInv
  <2>6. KeptInv(p)'
    BY <1>1, <1>4 DEF KeptInv
  <2> QED
    BY <2>3, <2>4, <2>5, <2>6 DEF JobInv
<1>5. CASE JobAttemptFails(p) /\ UNCHANGED deliveries
  <2>1. /\ jobs' \in [Jobs -> JobRecord]
        /\ jobs'[p].attemptsMade = jobs[p].attemptsMade + 1
        /\ \/ jobs'[p].step = "waiting" /\ jobs'[p].attemptsMade < MaxAttempts
           \/ jobs'[p].step = "failed"
    BY <1>1, <1>5, AttemptFailsType DEF Running
  <2>2. DeliveryTypeOK'
    BY <1>1, <1>2, <1>5, <2>1 DEF DeliveryTypeOK, JobRecord
  <2>3. CountInv(p)'
    <3>1. jobs'[p].step \notin Rowed
      BY <2>1 DEF Rowed
    <3>2. jobs'[p].step \in Running \cup {"none", "waiting"} => jobs'[p].attemptsMade < MaxAttempts
      BY <2>1 DEF Running
    <3>3. jobs'[p].step # "posting"
      BY <2>1
    <3> QED
      BY <1>1, <1>2, <1>3, <1>5, <2>1, <3>1, <3>2, <3>3 DEF CountInv
  <2>4. RowsInv(p)'
    BY <1>1, <1>5, <2>1 DEF RowsInv
  <2>5. KeptInv(p)'
    BY <1>1, <1>5 DEF KeptInv
  <2> QED
    BY <2>2, <2>3, <2>4, <2>5 DEF JobInv
<1> QED
  BY <1>4, <1>5 DEF InsertDelivery

LEMMA TypeOfPost ==
    ASSUME DeliveryInv, NEW p \in Jobs, Post(p)
    PROVE  DeliveryTypeOK' /\ JobInv(p)'
<1>1. /\ DeliveryTypeOK /\ CountInv(p) /\ RowsInv(p) /\ KeptInv(p) /\ jobs[p].step = "posting"
      /\ UNCHANGED <<auditLog, webhooks, dispatch, deliveries, crashes, throws>>
  BY DEF Post, DeliveryInv, JobInv
<1>2. /\ Len(deliveries[p]) \in Nat /\ posts[p] \in Nat /\ crashes \in Nat
      /\ jobs[p].attemptsMade \in Nat /\ MaxAttempts \in Nat
      /\ posts \in [Jobs -> Nat]
  BY <1>1, TypeParts
<1>3. /\ jobs[p].attemptsMade < MaxAttempts
      /\ Len(deliveries[p]) <= jobs[p].attemptsMade + crashes + 1
      /\ posts[p] < Len(deliveries[p]) /\ Len(deliveries[p]) >= 1
  BY <1>1 DEF CountInv, Rowed, Running
<1>4. PICK step \in {"marking-delivered", "marking-failed", "catching"} :
        /\ JobGoes(p, step)
        /\ posts' = [posts EXCEPT ![p] = @ + 1] \/ UNCHANGED posts
        /\ \/ UNCHANGED answered /\ step # "marking-delivered"
           \/ answered' = [answered EXCEPT ![p] = @ \cup {Len(deliveries[p])}]
  BY DEF Post, AfterAnswer
<1>5. /\ jobs' \in [Jobs -> JobRecord]
      /\ jobs'[p].step = step /\ jobs'[p].attemptsMade = jobs[p].attemptsMade
  BY <1>1, <1>4, JobGoesType DEF JobSteps
<1>6. /\ posts' \in [Jobs -> Nat] /\ posts'[p] \in {posts[p], posts[p] + 1}
  <2>1. CASE UNCHANGED posts
    BY <1>2, <2>1
  <2>2. CASE posts' = [posts EXCEPT ![p] = @ + 1]
    BY <1>2, <2>2
  <2> QED
    BY <1>4, <2>1, <2>2
<1>7. /\ answered' \in [Jobs -> SUBSET (Nat \ {0})]
      /\ answered[p] \subseteq answered'[p]
      /\ step = "marking-delivered" => Len(deliveries[p]) \in answered'[p]
  <2> DEFINE n == Len(deliveries[p])
  <2>1. n \in Nat /\ n >= 1
    BY <1>2, <1>3
  <2>2. answered \in [Jobs -> SUBSET (Nat \ {0})]
    BY <1>1, TypeParts
  <2>3. \/ UNCHANGED answered /\ step # "marking-delivered"
        \/ answered' = [answered EXCEPT ![p] = @ \cup {n}]
    BY <1>4
  <2> HIDE DEF n
  <2>4. n \in Nat \ {0}
    BY <2>1
  <2>5. /\ answered' \in [Jobs -> SUBSET (Nat \ {0})]
        /\ answered[p] \subseteq answered'[p]
        /\ step = "marking-delivered" => n \in answered'[p]
    BY <2>2, <2>3, <2>4
  <2> QED
    BY <2>5 DEF n
<1>8. DeliveryTypeOK'
  BY <1>1, <1>5, <1>6, <1>7 DEF DeliveryTypeOK, JobRecord
<1>9. CountInv(p)'
  BY <1>1, <1>2, <1>3, <1>5, <1>6 DEF CountInv, Rowed, Running
<1>10. RowsInv(p)'
  BY <1>1, <1>5, <1>7 DEF RowsInv
<1>11. KeptInv(p)'
  BY <1>1 DEF KeptInv
<1> QED
  BY <1>8, <1>9, <1>10, <1>11 DEF JobInv

(* The three steps that update the row of the attempt.                     *)
LEMMA TypeOfMarks ==
    ASSUME DeliveryInv, NEW p \in Jobs, MarkDelivered(p) \/ MarkFailed(p) \/ CatchError(p)
    PROVE  DeliveryTypeOK' /\ JobInv(p)'
<1> DEFINE n == Len(deliveries[p])
<1>1. /\ DeliveryTypeOK /\ CountInv(p) /\ RowsInv(p) /\ KeptInv(p)
      /\ jobs[p].step \in {"marking-delivered", "marking-failed", "catching"}
      /\ UNCHANGED <<auditLog, webhooks, dispatch, posts, answered, crashes>>
      /\ CallThrows \/ CallReturns
  BY DEF MarkDelivered, MarkFailed, CatchError, DeliveryInv, JobInv, receiver
<1>2. /\ n \in Nat /\ posts[p] \in Nat /\ crashes \in Nat
      /\ jobs[p].attemptsMade \in Nat /\ throws' \in 0..MaxThrows /\ MaxAttempts \in Nat
      /\ deliveries \in [Jobs -> Seq(Statuses)]
  BY <1>1, TypeParts, ThrowsType
<1>3. /\ jobs[p].attemptsMade < MaxAttempts
      /\ n <= jobs[p].attemptsMade + crashes + 1
      /\ posts[p] <= n /\ n >= 1
      /\ jobs[p].step = "marking-delivered" => n \in answered[p]
      /\ \A k \in 1..n : deliveries[p][k] = Delivered => k \in answered[p]
  BY <1>1 DEF CountInv, RowsInv, Rowed, Running
<1>4. ASSUME NEW status \in Statuses, Mark(p, status),
             status = Delivered => jobs[p].step = "marking-delivered"
      PROVE  /\ deliveries' \in [Jobs -> Seq(Statuses)] /\ Len(deliveries'[p]) = n
             /\ deliveries'[p][n] = status
             /\ \A k \in 1..n : deliveries'[p][k] = Delivered => k \in answered[p]
  <2>1. /\ deliveries' \in [Jobs -> Seq(Statuses)] /\ Len(deliveries'[p]) = n
        /\ deliveries'[p][n] = status
        /\ \A k \in 1..n : k # n => deliveries'[p][k] = deliveries[p][k]
    BY <1>1, <1>3, <1>4, MarkRow
  <2> HIDE DEF n
  <2> QED
    BY <1>3, <1>4, <2>1
<1>5. /\ deliveries' \in [Jobs -> Seq(Statuses)]
      /\ Len(deliveries'[p]) = n
      /\ \A k \in 1..n : deliveries'[p][k] = Delivered => k \in answered[p]
      /\ \/ deliveries'[p][n] = Delivered /\ JobGoes(p, "completed")
         \/ JobGoes(p, "catching")
         \/ JobAttemptFails(p)
  <2>1. CASE /\ UNCHANGED deliveries
             /\ JobGoes(p, "catching") \/ JobAttemptFails(p)
    BY <1>2, <1>3, <2>1
  <2>2. CASE MarkDelivered(p) /\ Mark(p, Delivered) /\ JobGoes(p, "completed")
    <3>1. Delivered \in Statuses /\ jobs[p].step = "marking-delivered"
      BY <2>2 DEF Statuses, MarkDelivered
    <3> QED
      BY <1>4, <2>2, <3>1
  <2>3. CASE Mark(p, Failed) /\ (JobGoes(p, "catching") \/ JobAttemptFails(p))
    <3>1. Failed \in Statuses /\ Failed # Delivered
      BY DEF Statuses, Failed, Delivered
    <3> QED
      BY <1>4, <2>3, <3>1
  <2> QED
    BY <2>1, <2>2, <2>3 DEF MarkDelivered, MarkFailed, CatchError
<1> HIDE DEF n
<1>6. ASSUME jobs' \in [Jobs -> JobRecord]
      PROVE  DeliveryTypeOK'
  BY <1>1, <1>2, <1>5, <1>6 DEF DeliveryTypeOK, JobRecord, Statuses
<1>7. ASSUME jobs'[p].step # "marking-delivered",
             jobs'[p].step = "completed" => deliveries'[p][n] = Delivered
      PROVE  RowsInv(p)'
  BY <1>1, <1>5, <1>7 DEF RowsInv
<1>8. KeptInv(p)'
  BY <1>1, <1>2, <1>3 DEF KeptInv, n
<1>9. CASE deliveries'[p][n] = Delivered /\ JobGoes(p, "completed")
  <2>1. /\ jobs' \in [Jobs -> JobRecord]
        /\ jobs'[p].step = "completed" /\ jobs'[p].attemptsMade = jobs[p].attemptsMade
    BY <1>1, <1>9, JobGoesType DEF JobSteps
  <2>2. CountInv(p)'
    BY <1>1, <1>2, <1>3, <1>5, <2>1 DEF CountInv, Running, Rowed
  <2> QED
    BY <1>6, <1>7, <1>8, <1>9, <2>1, <2>2 DEF JobInv
<1>10. CASE JobGoes(p, "catching")
  <2>1. /\ jobs' \in [Jobs -> JobRecord]
        /\ jobs'[p].step = "catching" /\ jobs'[p].attemptsMade = jobs[p].attemptsMade
    BY <1>1, <1>10, JobGoesType DEF JobSteps
  <2>2. CountInv(p)'
    BY <1>1, <1>2, <1>3, <1>5, <2>1 DEF CountInv, Running, Rowed
  <2> QED
    BY <1>6, <1>7, <1>8, <2>1, <2>2 DEF JobInv
<1>11. CASE JobAttemptFails(p)
  <2>1. /\ jobs' \in [Jobs -> JobRecord]
        /\ jobs'[p].attemptsMade = jobs[p].attemptsMade + 1
        /\ \/ jobs'[p].step = "waiting" /\ jobs'[p].attemptsMade < MaxAttempts
           \/ jobs'[p].step = "failed"
    BY <1>1, <1>11, AttemptFailsType DEF Running
  <2>2. CountInv(p)'
    BY <1>1, <1>2, <1>3, <1>5, <2>1 DEF CountInv, Running, Rowed
  <2> QED
    BY <1>6, <1>7, <1>8, <2>1, <2>2 DEF JobInv
<1> QED
  BY <1>5, <1>9, <1>10, <1>11

LEMMA WorkerKeepsInv ==
    ASSUME DeliveryInv, NEW p \in Jobs, StartJob(p) \/ RunJob(p)
    PROVE  DeliveryInv'
<1>1. DeliveryTypeOK' /\ JobInv(p)'
  <2>1. CASE StartJob(p)
    <3>1. /\ jobs' \in [Jobs -> JobRecord]
          /\ jobs'[p].step = "inserting" /\ jobs'[p].attemptsMade = jobs[p].attemptsMade
      BY <2>1, JobGoesType DEF StartJob, JobSteps, DeliveryInv
    <3>2. /\ jobs[p].step = "waiting" /\ JobInv(p) /\ DeliveryTypeOK
          /\ UNCHANGED <<auditLog, webhooks, dispatch, deliveries, posts, answered, crashes, throws>>
      BY <2>1 DEF StartJob, DeliveryInv, receiver
    <3>3. DeliveryTypeOK'
      BY <3>1, <3>2 DEF DeliveryTypeOK, JobRecord
    <3> QED
      BY <3>1, <3>2, <3>3 DEF JobInv, CountInv, RowsInv, KeptInv, Running, Rowed
  <2> QED
    BY <2>1, TypeOfInsert, TypeOfPost, TypeOfMarks DEF RunJob
<1>2. ASSUME NEW q \in Jobs \ {p}
      PROVE  JobInv(q)'
  <2>1. /\ jobs'[q] = jobs[q] /\ deliveries'[q] = deliveries[q]
        /\ posts'[q] = posts[q] /\ answered'[q] = answered[q]
        /\ UNCHANGED <<webhooks, crashes>> /\ JobInv(q)
    BY WorkerFrame DEF DeliveryInv
  <2> QED
    BY <2>1 DEF JobInv, CountInv, RowsInv, KeptInv
<1> QED
  BY <1>1, <1>2, WorkerKeepsDispatch DEF DeliveryInv

-----------------------------------------------------------------------------
(* The routes: a webhook is deleted only while it has no row.              *)
LEMMA RoutesKeepInv ==
    ASSUME DeliveryInv, NEW w \in Webhooks, CreateWebhook(w) \/ DeleteWebhook(w)
    PROVE  DeliveryInv'
<1>1. /\ UNCHANGED <<auditLog, dispatch, jobs, deliveries, posts, answered, crashes, throws>>
      /\ DeliveryTypeOK
  BY DEF CreateWebhook, DeleteWebhook, receiver, DeliveryInv
<1>2. DeliveryTypeOK'
  BY <1>1 DEF CreateWebhook, DeleteWebhook, DeliveryTypeOK
<1>3. ASSUME NEW p \in Jobs
      PROVE  JobInv(p)'
  <2>1. JobInv(p) /\ p[2] \in Webhooks
    BY DEF DeliveryInv, Jobs
  <2>2. webhooks'[p[2]] = "deleted" => webhooks[p[2]] = "deleted" \/ deliveries[p] = <<>>
    BY <1>1, <2>1 DEF CreateWebhook, DeleteWebhook, Deletable, Rows, DeliveryTypeOK
  <2> QED
    BY <1>1, <2>1, <2>2 DEF JobInv, CountInv, RowsInv, KeptInv
<1>4. ASSUME NEW e \in Events
      PROVE  DispatchInv(e)'
  BY <1>1 DEF DispatchInv, DeliveryInv
<1> QED
  BY <1>2, <1>3, <1>4 DEF DeliveryInv

(* The dispatcher's steps touch a job only to queue it, once.              *)
LEMMA DispatcherKeepsInv ==
    ASSUME DeliveryInv, NEW e \in Events,
           LogAuditEvent(e) \/ SelectWebhooks(e) \/ AddJob(e) \/ DispatchFails(e)
    PROVE  DeliveryInv'
<1>1. /\ UNCHANGED <<webhooks, deliveries, posts, answered, crashes>>
      /\ DeliveryTypeOK /\ DispatchInv(e)
      /\ \A d \in Events \ {e} : dispatch'[d] = dispatch[d] /\ DispatchInv(d)
      /\ auditLog \subseteq auditLog' /\ auditLog' \subseteq auditLog \cup {e}
      /\ e \in auditLog'
  BY DEF LogAuditEvent, SelectWebhooks, AddJob, DispatchFails, Dispatching, receiver, DeliveryInv,
         DeliveryTypeOK, DispatchInv
<1>2. CASE AddJob(e)
  <2>1. PICK w \in dispatch[e].todo :
          /\ jobs' = [jobs EXCEPT ![<<e, w>>].step = "waiting"]
          /\ Dispatching(e, dispatch[e].todo \ {w})
    BY <1>2 DEF AddJob
  <2> DEFINE p == <<e, w>>
  <2>2. p \in Jobs /\ jobs[p].step = "none" /\ w \in Webhooks
    BY <1>1, <2>1 DEF Jobs, DispatchInv, DeliveryTypeOK
  <2>3. /\ jobs' \in [Jobs -> JobRecord]
        /\ jobs'[p].step = "waiting" /\ jobs'[p].attemptsMade = jobs[p].attemptsMade
        /\ \A q \in Jobs \ {p} : jobs'[q] = jobs[q]
    BY <1>1, <2>1, <2>2, JobGoesType DEF JobGoes, JobSteps
  <2>4. /\ dispatch'[e].todo = dispatch[e].todo \ {w}
        /\ dispatch'[e].step \in {"done", "queueing"}
        /\ dispatch' \in [Events ->
              [step : {"none", "selecting", "queueing", "done"}, todo : SUBSET Webhooks]]
    <3>1. dispatch[e].todo \ {w} \in SUBSET Webhooks
      BY <1>1, TypeParts
    <3> QED
      BY <1>1, <2>1, <3>1, TypeParts DEF Dispatching
  <2>5. DeliveryTypeOK'
    BY <1>1, <1>2, <2>3, <2>4 DEF AddJob, DeliveryTypeOK, JobRecord
  <2>6. ASSUME NEW q \in Jobs
        PROVE  JobInv(q)'
    <3>1. JobInv(q)
      BY DEF DeliveryInv
    <3>2. CASE q = p
      BY <1>1, <2>2, <2>3, <3>1, <3>2 DEF JobInv, CountInv, RowsInv, KeptInv, Running, Rowed
    <3>3. CASE q # p
      BY <1>1, <2>3, <3>1, <3>3 DEF JobInv, CountInv, RowsInv, KeptInv
    <3> QED
      BY <3>2, <3>3
  <2>7. DispatchInv(e)'
    <3>1. \A v \in dispatch'[e].todo : <<e, v>> \in Jobs \ {p} /\ jobs[<<e, v>>].step = "none"
      BY <1>1, <2>4 DEF DispatchInv, DeliveryTypeOK, Jobs
    <3> QED
      BY <1>1, <2>3, <2>4, <3>1 DEF DispatchInv
  <2>8. ASSUME NEW d \in Events \ {e}
        PROVE  DispatchInv(d)'
    <3>1. \A v \in Webhooks : jobs'[<<d, v>>] = jobs[<<d, v>>]
      BY <2>3 DEF Jobs
    <3>2. dispatch'[d] = dispatch[d] /\ dispatch[d].todo \subseteq Webhooks /\ DispatchInv(d)
      BY <1>1 DEF DeliveryTypeOK
    <3>3. d \notin auditLog' => d \notin auditLog
      BY <1>1
    <3> QED
      BY <3>1, <3>2, <3>3 DEF DispatchInv
  <2> QED
    BY <2>5, <2>6, <2>7, <2>8 DEF DeliveryInv
<1>3. CASE LogAuditEvent(e) \/ SelectWebhooks(e) \/ DispatchFails(e)
  <2>1. UNCHANGED jobs
    BY <1>3 DEF LogAuditEvent, SelectWebhooks, DispatchFails
  <2>2. /\ dispatch' \in [Events ->
              [step : {"none", "selecting", "queueing", "done"}, todo : SUBSET Webhooks]]
        /\ dispatch'[e].step # "none"
        /\ \/ LogAuditEvent(e) /\ dispatch'[e].todo = dispatch[e].todo /\ dispatch[e].step = "none"
           \/ SelectWebhooks(e) /\ dispatch[e].step = "selecting" /\ dispatch'[e].step # "selecting"
           \/ dispatch'[e].todo = {} /\ dispatch'[e].step = "done"
    <3>1. CASE LogAuditEvent(e)
      <4>1. e \notin auditLog /\ dispatch[e].step = "none"
        BY <1>1, <3>1 DEF LogAuditEvent, DispatchInv
      <4>2. \E step \in {"selecting", "done"} : dispatch' = [dispatch EXCEPT ![e].step = step]
        BY <3>1 DEF LogAuditEvent
      <4>3. dispatch \in [Events ->
              [step : {"none", "selecting", "queueing", "done"}, todo : SUBSET Webhooks]]
        BY <1>1, TypeParts
      <4> QED
        BY <3>1, <4>1, <4>2, <4>3
    <3>2. CASE SelectWebhooks(e)
      <4> DEFINE todo == {w \in Subscribers[e] : webhooks[w] = "active"}
      <4>1. todo \in SUBSET Webhooks
        BY SubscribersAreWebhooks
      <4>2. dispatch[e].step = "selecting" /\ Dispatching(e, todo)
        BY <3>2 DEF SelectWebhooks
      <4> HIDE DEF todo
      <4> QED
        BY <1>1, <3>2, <4>1, <4>2, TypeParts DEF Dispatching
    <3>3. CASE DispatchFails(e)
      BY <1>1, <3>3 DEF DispatchFails, DeliveryTypeOK
    <3> QED
      BY <1>3, <3>1, <3>2, <3>3
  <2>3. DeliveryTypeOK'
    <3>1. throws' \in 0..MaxThrows
      BY <1>1, <1>3, DeliveryBounds
      DEF LogAuditEvent, SelectWebhooks, DispatchFails, CallThrows, DeliveryTypeOK
    <3> QED
      BY <1>1, <2>1, <2>2, <3>1 DEF DeliveryTypeOK
  <2>4. ASSUME NEW q \in Jobs
        PROVE  JobInv(q)'
    BY <1>1, <2>1 DEF JobInv, CountInv, RowsInv, KeptInv, DeliveryInv
  <2>5. DispatchInv(e)'
    <3>1. dispatch'[e].todo \subseteq Webhooks
      BY <2>2
    <3>2. (LogAuditEvent(e) \/ SelectWebhooks(e)) => \A v \in Webhooks : jobs[<<e, v>>].step = "none"
      BY <1>1, <2>2 DEF DispatchInv, LogAuditEvent, SelectWebhooks
    <3> QED
      BY <1>1, <2>1, <2>2, <3>1, <3>2 DEF DispatchInv
  <2>6. ASSUME NEW d \in Events \ {e}
        PROVE  DispatchInv(d)'
    <3>1. dispatch'[d] = dispatch[d] /\ DispatchInv(d) /\ (d \notin auditLog' => d \notin auditLog)
      BY <1>1
    <3> QED
      BY <2>1, <3>1 DEF DispatchInv
  <2> QED
    BY <2>3, <2>4, <2>5, <2>6 DEF DeliveryInv
<1> QED
  BY <1>2, <1>3

(* A crash puts a job back, or fails it; its attempt, if any, has its row. *)
LEMMA PutBackType ==
    ASSUME NEW job \in JobRecord
    PROVE  /\ PutBack(job) \in JobRecord /\ PutBack(job).attemptsMade = job.attemptsMade
           /\ job.step \notin Running => PutBack(job) = job
           /\ job.step \in Running => PutBack(job).step \in {"waiting", "failed"}
<1>1. [job EXCEPT !.step = "waiting", !.stalled = 1] \in JobRecord
  <2>1. 1 \in 0..1 /\ "waiting" \in JobSteps
    BY DEF JobSteps
  <2> QED
    BY <2>1 DEF JobRecord
<1>2. [job EXCEPT !.step = "failed"] \in JobRecord
  BY DEF JobRecord, JobSteps
<1> QED
  BY <1>1, <1>2 DEF PutBack, JobRecord

LEMMA CrashKeepsInv ==
    ASSUME DeliveryInv, Crash
    PROVE  DeliveryInv'
<1>1. /\ UNCHANGED <<auditLog, webhooks, deliveries, posts, answered, throws>>
      /\ DeliveryTypeOK /\ crashes < MaxCrashes /\ crashes' = crashes + 1
      /\ jobs' = [p \in Jobs |-> PutBack(jobs[p])]
      /\ dispatch' = [e \in Events |-> IF e \in auditLog THEN [step |-> "done", todo |-> {}]
                                       ELSE dispatch[e]]
  BY DEF Crash, DeliveryInv, receiver
<1>2. jobs \in [Jobs -> JobRecord] /\ crashes \in Nat /\ MaxAttempts \in Nat
  BY <1>1, TypeParts
<1>3. ASSUME NEW p \in Jobs
      PROVE  /\ jobs'[p] \in JobRecord
             /\ jobs'[p].attemptsMade = jobs[p].attemptsMade
             /\ \/ jobs'[p] = jobs[p] /\ jobs[p].step \notin Running
                \/ jobs[p].step \in Running /\ jobs'[p].step \in {"waiting", "failed"}
  <2>1. jobs'[p] = PutBack(jobs[p]) /\ jobs[p] \in JobRecord
    BY <1>1, <1>2
  <2> QED
    BY <2>1, PutBackType
<1>4. jobs' \in [Jobs -> JobRecord]
  BY <1>1, <1>2, PutBackType
<1>5. dispatch' \in [Events ->
          [step : {"none", "selecting", "queueing", "done"}, todo : SUBSET Webhooks]]
  BY <1>1, TypeParts
<1>6. DeliveryTypeOK'
  <2>1. crashes' \in 0..MaxCrashes
    BY <1>1, <1>2, DeliveryBounds
  <2> QED
    BY <1>1, <1>4, <1>5, <2>1 DEF DeliveryTypeOK, JobRecord
<1>7. ASSUME NEW p \in Jobs
      PROVE  JobInv(p)'
  <2>1. /\ CountInv(p) /\ RowsInv(p) /\ jobs[p].attemptsMade \in Nat
        /\ Len(deliveries[p]) \in Nat
    BY <1>1, TypeParts DEF DeliveryInv, JobInv
  <2>2. RowsInv(p)'
    BY <1>1, <1>3, <2>1 DEF RowsInv
  <2>3. CountInv(p)'
    <3>1. CASE jobs'[p] = jobs[p] /\ jobs[p].step \notin Running
      BY <1>1, <1>2, <2>1, <3>1 DEF CountInv, Running, Rowed
    <3>2. CASE jobs[p].step \in Running /\ jobs'[p].step \in {"waiting", "failed"}
      BY <1>1, <1>2, <1>3, <2>1, <3>2 DEF CountInv, Running, Rowed
    <3> QED
      BY <1>3, <3>1, <3>2
  <2>4. KeptInv(p)'
    BY <1>1 DEF KeptInv, DeliveryInv, JobInv
  <2> QED
    BY <2>2, <2>3, <2>4 DEF JobInv
<1>8. ASSUME NEW e \in Events
      PROVE  DispatchInv(e)'
  <2>1. DispatchInv(e) /\ dispatch[e].todo \subseteq Webhooks
    BY <1>1, TypeParts DEF DeliveryInv
  <2>2. \A w \in Webhooks : jobs[<<e, w>>].step = "none" => jobs'[<<e, w>>].step = "none"
    BY <1>3 DEF Jobs, Running
  <2> QED
    BY <1>1, <2>1, <2>2 DEF DispatchInv
<1> QED
  BY <1>6, <1>7, <1>8 DEF DeliveryInv

LEMMA DeliveryInitInv == DeliveryInit => DeliveryInv
<1> SUFFICES ASSUME DeliveryInit
             PROVE  DeliveryInv
  OBVIOUS
<1>1. DeliveryTypeOK
  <2>1. << >> \in Seq({InProgress, Delivered, Failed})
    OBVIOUS
  <2> QED
    BY <2>1, DeliveryBounds DEF DeliveryInit, DeliveryTypeOK, JobSteps
<1>2. ASSUME NEW p \in Jobs
      PROVE  JobInv(p)
  <2>1. /\ jobs[p].step = "none" /\ jobs[p].attemptsMade = 0
        /\ deliveries[p] = << >> /\ posts[p] = 0 /\ crashes = 0
    BY DEF DeliveryInit
  <2> QED
    BY <2>1, DeliveryBounds DEF JobInv, CountInv, RowsInv, KeptInv, Rowed
<1>3. ASSUME NEW e \in Events
      PROVE  DispatchInv(e)
  BY DEF DeliveryInit, DispatchInv, Jobs
<1> QED
  BY <1>1, <1>2, <1>3 DEF DeliveryInv

LEMMA DeliveryStepInv == DeliveryInv /\ [DeliveryNext]_deliveryVars => DeliveryInv'
<1> SUFFICES ASSUME DeliveryInv, [DeliveryNext]_deliveryVars
             PROVE  DeliveryInv'
  OBVIOUS
<1>1. CASE UNCHANGED deliveryVars
  BY <1>1 DEF deliveryVars, receiver, DeliveryInv, DeliveryTypeOK, JobInv, CountInv, RowsInv,
               KeptInv, DispatchInv
<1> QED
  BY <1>1, WorkerKeepsInv, RoutesKeepInv, DispatcherKeepsInv, CrashKeepsInv DEF DeliveryNext

-----------------------------------------------------------------------------
LEMMA DeliveryInvariant == DeliverySpec => []DeliveryInv
BY DeliveryInitInv, DeliveryStepInv, PTL DEF DeliverySpec

(* Webhooks, dispatches, jobs and rows keep to their types.                *)
THEOREM DeliveryTypeCorrect == DeliverySpec => []DeliveryTypeOK
<1>1. DeliveryInv => DeliveryTypeOK
  BY DEF DeliveryInv
<1> QED
  BY <1>1, DeliveryInvariant, PTL

(* What the invariant says of a deleted webhook, and of a job's calls.     *)
LEMMA DeletedFollows == DeliveryInv => DeletedIsNeverCalled
<1> SUFFICES ASSUME DeliveryInv, NEW p \in Jobs, webhooks[p[2]] = "deleted"
             PROVE  posts[p] = 0
  BY DEF DeletedIsNeverCalled
<1>1. posts[p] \in Nat /\ deliveries[p] = << >> /\ posts[p] <= Len(deliveries[p])
  BY TypeParts DEF DeliveryInv, JobInv, CountInv, KeptInv
<1> QED
  BY <1>1

LEMMA CallsFollow == DeliveryInv => CallsAreRecorded
<1> SUFFICES ASSUME DeliveryInv, NEW p \in Jobs
             PROVE  LET job == jobs[p]
                    IN  /\ posts[p] <= Len(deliveries[p])
                        /\ Len(deliveries[p]) <= job.attemptsMade + crashes
                             + (IF job.step \in Running \cup {"completed"} THEN 1 ELSE 0)
                        /\ \A k \in 1..Len(deliveries[p]) :
                              deliveries[p][k] = Delivered => k \in answered[p]
                        /\ job.step = "completed" => deliveries[p][Len(deliveries[p])] = Delivered
  BY DEF CallsAreRecorded
<1>1. /\ CountInv(p) /\ RowsInv(p)
      /\ jobs[p].attemptsMade \in Nat /\ crashes \in Nat /\ Len(deliveries[p]) \in Nat
  BY TypeParts DEF DeliveryInv, JobInv
<1>2. Rowed \subseteq Running \cup {"completed"}
  BY DEF Rowed, Running
<1>3. jobs[p].step \notin Running \cup {"completed"} =>
        Len(deliveries[p]) <= jobs[p].attemptsMade + crashes
  BY <1>1, <1>2 DEF CountInv
<1> QED
  BY <1>1, <1>3 DEF CountInv, RowsInv

(* A webhook that could be deleted was never called, nor ever will be.     *)
THEOREM DeletedCorrect == DeliverySpec => []DeletedIsNeverCalled
BY DeletedFollows, DeliveryInvariant, PTL

(* Calls, rows and attempts agree in number, and a row says delivered only *)
(* of a call answered with success.                                        *)
THEOREM CallsCorrect == DeliverySpec => []CallsAreRecorded
BY CallsFollow, DeliveryInvariant, PTL

-----------------------------------------------------------------------------
(* A job that is not given up has a row for each attempt that failed, one  *)
(* for the attempt that was cut off, and that of the attempt it is at.     *)
CallsBounded(p) ==
    LET job == jobs[p]
        n == Len(deliveries[p])
    IN  /\ job.step \notin Rowed \cup {"failed"} => n <= job.attemptsMade + job.stalled
        /\ job.step \in Rowed => n <= job.attemptsMade + job.stalled + 1

ChannelInv == DeliveryInv /\ \A p \in Jobs : CallsBounded(p)

(* Only a crash counts a job as stalled.                                   *)
LEMMA StalledKept ==
    ASSUME DeliveryInv, NEW p \in Jobs
    PROVE  /\ \A step \in JobSteps : JobGoes(p, step) => jobs'[p].stalled = jobs[p].stalled
           /\ JobAttemptFails(p) => jobs'[p].stalled = jobs[p].stalled
           /\ jobs[p].stalled \in Nat /\ jobs[p].stalled <= 1
<1>1. jobs \in [Jobs -> JobRecord]
  BY TypeParts DEF DeliveryInv
<1> QED
  BY <1>1 DEF JobGoes, JobAttemptFails, JobRecord

(* The lengths and counters of one job.                                    *)
LEMMA JobNumbers ==
    ASSUME DeliveryInv, NEW p \in Jobs
    PROVE  /\ jobs[p].attemptsMade \in Nat /\ Len(deliveries[p]) \in Nat
           /\ posts[p] \in Nat /\ MaxAttempts \in Nat /\ CountInv(p) /\ RowsInv(p)
BY TypeParts DEF DeliveryInv, JobInv

(* A step of a job adds a row only for an attempt that it starts.          *)
LEMMA WorkerBounds ==
    ASSUME ChannelInv, NEW p \in Jobs, StartJob(p) \/ RunJob(p)
    PROVE  CallsBounded(p)'
<1>1. /\ DeliveryInv /\ CallsBounded(p) /\ CountInv(p) /\ DeliveryTypeOK
      /\ Len(deliveries[p]) \in Nat /\ jobs[p].attemptsMade \in Nat
      /\ jobs[p].stalled \in Nat
  BY JobNumbers, StalledKept DEF ChannelInv, DeliveryInv
<1>2. CASE StartJob(p)
  <2>1. /\ jobs[p].step = "waiting" /\ jobs'[p].step = "inserting"
        /\ jobs'[p].attemptsMade = jobs[p].attemptsMade /\ jobs'[p].stalled = jobs[p].stalled
        /\ UNCHANGED deliveries
    BY <1>1, <1>2, JobGoesType, StalledKept DEF StartJob, JobSteps
  <2> QED
    BY <1>1, <2>1 DEF CallsBounded, Rowed
<1>3. ASSUME NEW step \in JobSteps, JobGoes(p, step), step \in Rowed,
             jobs[p].step \in Rowed, Len(deliveries'[p]) = Len(deliveries[p])
      PROVE  CallsBounded(p)'
  <2>1. /\ jobs'[p].step = step /\ jobs'[p].attemptsMade = jobs[p].attemptsMade
        /\ jobs'[p].stalled = jobs[p].stalled
    BY <1>1, <1>3, JobGoesType, StalledKept
  <2> QED
    BY <1>1, <1>3, <2>1 DEF CallsBounded
<1>4. ASSUME JobAttemptFails(p), jobs[p].step \in Running,
             Len(deliveries'[p]) = Len(deliveries[p])
      PROVE  CallsBounded(p)'
  <2>1. /\ jobs'[p].step \in {"waiting", "failed"}
        /\ jobs'[p].attemptsMade = jobs[p].attemptsMade + 1
        /\ jobs'[p].stalled = jobs[p].stalled
    BY <1>1, <1>4, AttemptFailsType, StalledKept
  <2>2. Len(deliveries[p]) <= jobs[p].attemptsMade + jobs[p].stalled + 1
    BY <1>1, <1>4 DEF CallsBounded, Running, Rowed
  <2> QED
    BY <1>1, <1>4, <2>1, <2>2 DEF CallsBounded, Rowed
<1>5. CASE InsertDelivery(p)
  <2>1. CASE JobGoes(p, "posting") /\ deliveries' = [deliveries EXCEPT ![p] = Append(@, InProgress)]
    <3>1. Len(deliveries'[p]) = Len(deliveries[p]) + 1
      BY <1>1, <2>1, AppendRow DEF Statuses
    <3>2. /\ jobs'[p].step = "posting" /\ jobs'[p].attemptsMade = jobs[p].attemptsMade
          /\ jobs'[p].stalled = jobs[p].stalled /\ jobs[p].step = "inserting"
      BY <1>1, <1>5, <2>1, JobGoesType, StalledKept DEF JobSteps, InsertDelivery
    <3> QED
      BY <1>1, <3>1, <3>2 DEF CallsBounded, Rowed
  <2>2. CASE JobAttemptFails(p) /\ UNCHANGED deliveries
    BY <1>4, <1>5, <2>2 DEF InsertDelivery, Running
  <2> QED
    BY <1>5, <2>1, <2>2 DEF InsertDelivery
<1>6. CASE Post(p)
  <2>1. \E step \in {"marking-delivered", "marking-failed", "catching"} : JobGoes(p, step)
    BY <1>6 DEF Post, AfterAnswer
  <2>2. jobs[p].step = "posting" /\ UNCHANGED deliveries
    BY <1>6 DEF Post
  <2> QED
    BY <1>3, <2>1, <2>2 DEF JobSteps, Rowed
<1>7. CASE MarkDelivered(p) \/ MarkFailed(p) \/ CatchError(p)
  <2>1. /\ jobs[p].step \in Rowed /\ jobs[p].step \in Running
        /\ (\E step \in {"completed", "catching"} : JobGoes(p, step)) \/ JobAttemptFails(p)
        /\ UNCHANGED deliveries \/ Mark(p, Delivered) \/ Mark(p, Failed)
    BY <1>7 DEF MarkDelivered, MarkFailed, CatchError, Rowed, Running
  <2>2. Len(deliveries[p]) >= 1
    BY <1>1, <2>1 DEF CountInv
  <2>3. Len(deliveries'[p]) = Len(deliveries[p])
    <3>1. Delivered \in Statuses /\ Failed \in Statuses
      BY DEF Statuses
    <3> QED
      BY <1>1, <2>1, <2>2, <3>1, MarkRow
  <2> QED
    BY <1>3, <1>4, <2>1, <2>3 DEF JobSteps, Rowed
<1> QED
  BY <1>2, <1>5, <1>6, <1>7 DEF RunJob

(* A crash accounts for the row of the attempt it cuts off, or ends it.     *)
LEMMA CrashBounds ==
    ASSUME ChannelInv, NEW p \in Jobs, Crash
    PROVE  CallsBounded(p)'
<1>1. /\ CallsBounded(p) /\ Len(deliveries[p]) \in Nat /\ jobs[p].attemptsMade \in Nat
      /\ jobs[p] \in JobRecord /\ UNCHANGED deliveries /\ jobs'[p] = PutBack(jobs[p])
  BY JobNumbers, TypeParts DEF ChannelInv, DeliveryInv, Crash
<1>2. CASE jobs[p].step \notin Running
  BY <1>1, <1>2, PutBackType DEF CallsBounded
<1>3. CASE jobs[p].step \in Running /\ jobs[p].stalled = 0
  <2>1. /\ jobs'[p].step = "waiting" /\ jobs'[p].stalled = 1
        /\ jobs'[p].attemptsMade = jobs[p].attemptsMade
    BY <1>1, <1>3 DEF PutBack, JobRecord
  <2> QED
    BY <1>1, <1>3, <2>1 DEF CallsBounded, Running, Rowed
<1>4. CASE jobs[p].step \in Running /\ jobs[p].stalled # 0
  <2>1. jobs'[p].step = "failed"
    BY <1>1, <1>4 DEF PutBack, JobRecord
  <2> QED
    BY <2>1 DEF CallsBounded, Rowed
<1> QED
  BY <1>2, <1>3, <1>4

(* What a step that only queues does to a job.                             *)
LEMMA DispatcherFrame ==
    ASSUME DeliveryInv, NEW e \in Events,
           LogAuditEvent(e) \/ SelectWebhooks(e) \/ AddJob(e) \/ DispatchFails(e)
    PROVE  /\ UNCHANGED <<deliveries, posts, answered>>
           /\ \/ UNCHANGED jobs
              \/ \E p \in Jobs : /\ jobs[p].step = "none"
                                 /\ jobs' = [jobs EXCEPT ![p].step = "waiting"]
<1>1. UNCHANGED <<deliveries, posts, answered>>
  BY DEF LogAuditEvent, SelectWebhooks, AddJob, DispatchFails, receiver
<1>2. CASE AddJob(e)
  <2>1. PICK w \in dispatch[e].todo : jobs' = [jobs EXCEPT ![<<e, w>>].step = "waiting"]
    BY <1>2 DEF AddJob
  <2>2. <<e, w>> \in Jobs /\ jobs[<<e, w>>].step = "none"
    BY <2>1, TypeParts DEF DeliveryInv, DispatchInv, Jobs
  <2> QED
    BY <1>1, <2>1, <2>2
<1> QED
  BY <1>1, <1>2 DEF LogAuditEvent, SelectWebhooks, DispatchFails

(* The bound on the rows is kept by every step.                            *)
LEMMA ChannelInvKept == ChannelInv /\ [DeliveryNext]_deliveryVars => ChannelInv'
<1> SUFFICES ASSUME ChannelInv, [DeliveryNext]_deliveryVars
             PROVE  ChannelInv'
  OBVIOUS
<1>1. DeliveryInv' /\ DeliveryInv
  BY DeliveryStepInv DEF ChannelInv
<1>2. ASSUME NEW p \in Jobs
      PROVE  CallsBounded(p)'
  <2>1. CallsBounded(p)
    BY DEF ChannelInv
  <2>2. CASE UNCHANGED <<jobs, deliveries>>
    BY <2>1, <2>2 DEF CallsBounded
  <2>3. ASSUME NEW q \in Jobs, StartJob(q) \/ RunJob(q)
        PROVE  CallsBounded(p)'
    <3>1. CASE q = p
      BY <2>3, <3>1, WorkerBounds
    <3>2. CASE q # p
      <4>1. jobs'[p] = jobs[p] /\ deliveries'[p] = deliveries[p]
        BY <1>1, <2>3, <3>2, WorkerFrame
      <4> QED
        BY <2>1, <4>1 DEF CallsBounded
    <3> QED
      BY <3>1, <3>2
  <2>4. ASSUME NEW q \in Jobs, jobs[q].step = "none",
               jobs' = [jobs EXCEPT ![q].step = "waiting"], UNCHANGED deliveries
        PROVE  CallsBounded(p)'
    <3>1. CASE q = p
      <4>1. /\ jobs'[p].step = "waiting" /\ jobs'[p].attemptsMade = jobs[p].attemptsMade
            /\ jobs'[p].stalled = jobs[p].stalled
        BY <1>1, <2>4, <3>1, JobGoesType, StalledKept DEF JobGoes, JobSteps, DeliveryInv
      <4> QED
        BY <2>1, <2>4, <3>1, <4>1 DEF CallsBounded, Rowed
    <3>2. CASE q # p
      <4>1. jobs'[p] = jobs[p]
        BY <1>1, <2>4, <3>2, TypeParts DEF DeliveryInv
      <4> QED
        BY <2>1, <2>4, <4>1 DEF CallsBounded
    <3> QED
      BY <3>1, <3>2
  <2>5. ASSUME NEW e \in Events,
               LogAuditEvent(e) \/ SelectWebhooks(e) \/ AddJob(e) \/ DispatchFails(e)
        PROVE  CallsBounded(p)'
    BY <1>1, <2>2, <2>4, <2>5, DispatcherFrame
  <2>6. ASSUME NEW w \in Webhooks, CreateWebhook(w) \/ DeleteWebhook(w)
        PROVE  CallsBounded(p)'
    BY <2>2, <2>6 DEF CreateWebhook, DeleteWebhook
  <2>7. CASE UNCHANGED deliveryVars
    BY <2>2, <2>7 DEF deliveryVars
  <2> QED
    BY <2>3, <2>5, <2>6, <2>7, CrashBounds DEF DeliveryNext
<1> QED
  BY <1>1, <1>2 DEF ChannelInv

-----------------------------------------------------------------------------
(* The channel's variables, under the mapping.                             *)
Notice == [p \in Jobs |-> NoticeOf(jobs[p])]

Acknowledged == {p \in Jobs : answered[p] # {}}

NoticeAt(p, status) == Notice' = [Notice EXCEPT ![p] = status]

(* A step of one job changes one notice at most.                           *)
LEMMA OneNotice ==
    ASSUME NEW p \in Jobs, \A q \in Jobs \ {p} : jobs'[q] = jobs[q]
    PROVE  /\ NoticeAt(p, NoticeOf(jobs'[p]))
           /\ NoticeOf(jobs'[p]) = NoticeOf(jobs[p]) => Notice' = Notice
<1>1. \A q \in Jobs \ {p} : NoticeOf(jobs'[q]) = NoticeOf(jobs[q])
  BY DEF NoticeOf
<1>2. NoticeOf(jobs[p])' = NoticeOf(jobs'[p])
  BY DEF NoticeOf
<1>3. Notice' = [q \in Jobs |-> NoticeOf(jobs'[q])]
  BY DEF Notice, NoticeOf
<1> QED
  BY <1>1, <1>3 DEF Notice, NoticeAt

(* A job queued or run has a pending notice.                               *)
LEMMA PendingJob ==
    ASSUME NEW p \in Jobs
    PROVE  /\ Notice[p] = NoticeOf(jobs[p])
           /\ jobs[p].step \in Running \cup {"waiting"} =>
                Notice[p] = "pending" /\ p \in Channel!Pending
BY DEF Notice, NoticeOf, Running, Channel!Pending

(* What leaves notices, calls and answers alone is no step of the channel. *)
LEMMA ChannelStutters ==
    ASSUME Notice' = Notice, UNCHANGED posts, Acknowledged' = Acknowledged
    PROVE  UNCHANGED Channel!channelVars
BY DEF Channel!channelVars, Notice, Acknowledged

(* A job that goes on has a notice that stays pending.                     *)
LEMMA GoingOn ==
    ASSUME DeliveryInv, NEW p \in Jobs, jobs[p].step \in Running \cup {"waiting"},
           jobs'[p].step \in Running \cup {"waiting"},
           \A q \in Jobs \ {p} : jobs'[q] = jobs[q]
    PROVE  Notice' = Notice
<1>1. NoticeOf(jobs'[p]) = NoticeOf(jobs[p])
  BY DEF NoticeOf, Running
<1> QED
  BY <1>1, OneNotice

(* An attempt that fails is another to come, or the notice abandoned.      *)
LEMMA FailingAbandons ==
    ASSUME DeliveryInv, NEW p \in Jobs, jobs[p].step \in Running, JobAttemptFails(p),
           UNCHANGED <<posts, answered>>
    PROVE  Channel!ChannelNext \/ UNCHANGED Channel!channelVars
<1>1. /\ jobs'[p].step \in {"waiting", "failed"}
      /\ \A q \in Jobs \ {p} : jobs'[q] = jobs[q]
  BY AttemptFailsType
<1>2. Acknowledged' = Acknowledged
  BY DEF Acknowledged
<1>3. CASE jobs'[p].step = "waiting"
  BY <1>1, <1>2, <1>3, GoingOn, ChannelStutters
<1>4. CASE jobs'[p].step = "failed"
  <2>1. NoticeAt(p, "abandoned")
    <3>1. NoticeOf(jobs'[p]) = "abandoned"
      BY <1>4 DEF NoticeOf
    <3> QED
      BY <1>1, <3>1, OneNotice
  <2>2. Notice' = [q \in Jobs |-> IF q \in {p} THEN "abandoned" ELSE Notice[q]]
    BY <2>1 DEF NoticeAt, Notice
  <2>3. Channel!Abandon({p})
    BY <1>2, <2>2 DEF Channel!Abandon, Notice, Acknowledged
  <2>4. {p} \in SUBSET Channel!Pending
    BY PendingJob
  <2> QED
    BY <2>3, <2>4 DEF Channel!ChannelNext, Channel!Settle
<1> QED
  BY <1>1, <1>3, <1>4

(* A request that reaches the receiver is a call that is still allowed:    *)
(* its row is there already, and rows are bounded.                         *)
LEMMA PostCalls ==
    ASSUME ChannelInv, NEW p \in Jobs, Post(p)
    PROVE  Channel!ChannelNext \/ UNCHANGED Channel!channelVars
<1>1. DeliveryInv /\ jobs[p].step = "posting" /\ CallsBounded(p)
  BY DEF ChannelInv, Post
<1>2. PICK step \in {"marking-delivered", "marking-failed", "catching"} : JobGoes(p, step)
  BY DEF Post, AfterAnswer
<1>3. /\ jobs'[p].step \in Running \cup {"waiting"}
      /\ \A q \in Jobs \ {p} : jobs'[q] = jobs[q]
  BY <1>1, <1>2, JobGoesType DEF JobSteps, Running, DeliveryInv
<1>4. Notice' = Notice
  BY <1>1, <1>3, GoingOn DEF Running
<1>5. CASE UNCHANGED <<posts, answered>>
  BY <1>4, <1>5, ChannelStutters DEF Acknowledged
<1>6. CASE posts' = [posts EXCEPT ![p] = @ + 1]
  <2>1. posts[p] < MaxAttempts + 1
    <3>1. /\ jobs[p].attemptsMade \in Nat /\ Len(deliveries[p]) \in Nat /\ posts[p] \in Nat
          /\ MaxAttempts \in Nat /\ jobs[p].stalled \in Nat /\ jobs[p].stalled <= 1
          /\ posts[p] < Len(deliveries[p]) /\ jobs[p].attemptsMade < MaxAttempts
      BY <1>1, JobNumbers, StalledKept DEF CountInv, Running
    <3>2. Len(deliveries[p]) <= jobs[p].attemptsMade + jobs[p].stalled + 1
      BY <1>1 DEF CallsBounded, Rowed
    <3> QED
      BY <3>1, <3>2
  <2>2. Acknowledged' \in {Acknowledged, Acknowledged \cup {p}}
    <3>1. \/ UNCHANGED answered
          \/ answered' = [answered EXCEPT ![p] = @ \cup {Len(deliveries[p])}]
      BY DEF Post
    <3>2. CASE UNCHANGED answered
      BY <3>2 DEF Acknowledged
    <3>3. ASSUME NEW k, answered' = [answered EXCEPT ![p] = @ \cup {k}]
          PROVE  Acknowledged' = Acknowledged \cup {p}
      <4>1. answered \in [Jobs -> SUBSET (Nat \ {0})]
        BY <1>1, TypeParts DEF DeliveryInv
      <4> QED
        BY <3>3, <4>1 DEF Acknowledged
    <3> QED
      BY <3>1, <3>2, <3>3
  <2>3. p \in Channel!Pending
    BY <1>1, PendingJob DEF Running
  <2>4. Channel!Call(p)
    BY <1>4, <1>6, <2>1, <2>2, <2>3 DEF Channel!Call, Notice, Acknowledged
  <2> QED
    BY <2>4 DEF Channel!ChannelNext
<1> QED
  BY <1>5, <1>6 DEF Post

(* A job is completed after an answer with success, its row's.             *)
LEMMA MarkingConfirms ==
    ASSUME ChannelInv, NEW p \in Jobs, MarkDelivered(p)
    PROVE  Channel!ChannelNext \/ UNCHANGED Channel!channelVars
<1>1. /\ DeliveryInv /\ jobs[p].step = "marking-delivered"
      /\ UNCHANGED <<posts, answered>> /\ RowsInv(p)
  BY DEF ChannelInv, MarkDelivered, receiver, DeliveryInv, JobInv
<1>2. Acknowledged' = Acknowledged
  BY <1>1 DEF Acknowledged
<1>3. CASE JobGoes(p, "catching")
  <2>1. jobs'[p].step = "catching" /\ \A q \in Jobs \ {p} : jobs'[q] = jobs[q]
    BY <1>1, <1>3, JobGoesType DEF JobSteps, DeliveryInv
  <2> QED
    BY <1>1, <1>2, <2>1, GoingOn, ChannelStutters DEF Running
<1>4. CASE JobGoes(p, "completed")
  <2>1. jobs'[p].step = "completed" /\ \A q \in Jobs \ {p} : jobs'[q] = jobs[q]
    BY <1>1, <1>4, JobGoesType DEF JobSteps, DeliveryInv
  <2>2. NoticeAt(p, "delivered")
    <3>1. NoticeOf(jobs'[p]) = "delivered"
      BY <2>1 DEF NoticeOf
    <3> QED
      BY <2>1, <3>1, OneNotice
  <2>3. p \in Acknowledged
    BY <1>1 DEF RowsInv, Acknowledged
  <2>4. p \in Channel!Pending
    BY <1>1, PendingJob DEF Running
  <2>5. Channel!Confirm(p)
    BY <1>1, <1>2, <2>2, <2>3, <2>4 DEF Channel!Confirm, NoticeAt, Notice, Acknowledged
  <2> QED
    BY <2>5 DEF Channel!ChannelNext, Channel!Settle
<1> QED
  BY <1>3, <1>4 DEF MarkDelivered

(* The steps of a worker.                                                  *)
LEMMA WorkerImplements ==
    ASSUME ChannelInv, NEW p \in Jobs, StartJob(p) \/ RunJob(p)
    PROVE  Channel!ChannelNext \/ UNCHANGED Channel!channelVars
<1>1. DeliveryInv /\ \A q \in Jobs \ {p} : jobs'[q] = jobs[q]
  BY WorkerFrame DEF ChannelInv
<1>2. ASSUME NEW step \in Running, JobGoes(p, step), jobs[p].step \in Running \cup {"waiting"},
             UNCHANGED <<posts, answered>>
      PROVE  UNCHANGED Channel!channelVars
  <2>1. jobs'[p].step \in Running \cup {"waiting"}
    BY <1>1, <1>2, JobGoesType DEF Running, JobSteps, DeliveryInv
  <2> QED
    BY <1>1, <1>2, <2>1, GoingOn, ChannelStutters DEF Acknowledged
<1>3. CASE StartJob(p)
  BY <1>2, <1>3 DEF StartJob, Running, receiver
<1>4. CASE InsertDelivery(p)
  <2>1. /\ jobs[p].step \in Running /\ UNCHANGED <<posts, answered>>
        /\ JobGoes(p, "posting") \/ JobAttemptFails(p)
    BY <1>4 DEF InsertDelivery, Running, receiver
  <2> QED
    BY <1>1, <1>2, <2>1, FailingAbandons DEF Running
<1>5. CASE MarkFailed(p)
  BY <1>2, <1>5 DEF MarkFailed, Running, receiver
<1>6. CASE CatchError(p)
  BY <1>1, <1>6, FailingAbandons DEF CatchError, Running, receiver
<1> QED
  BY <1>3, <1>4, <1>5, <1>6, PostCalls, MarkingConfirms DEF RunJob

(* A crash abandons the jobs it has stalled for the second time.           *)
LEMMA CrashAbandons ==
    ASSUME ChannelInv, Crash
    PROVE  Channel!ChannelNext \/ UNCHANGED Channel!channelVars
<1> DEFINE lost == {p \in Jobs : jobs[p].step \in Running /\ PutBack(jobs[p]).step = "failed"}
<1>1. /\ UNCHANGED <<posts, answered>> /\ jobs' = [p \in Jobs |-> PutBack(jobs[p])]
      /\ jobs \in [Jobs -> JobRecord]
  BY TypeParts DEF Crash, receiver, ChannelInv, DeliveryInv
<1>2. Acknowledged' = Acknowledged
  BY <1>1 DEF Acknowledged
<1>3. ASSUME NEW p \in Jobs
      PROVE  NoticeOf(PutBack(jobs[p])) = IF p \in lost THEN "abandoned" ELSE NoticeOf(jobs[p])
  <2>1. /\ jobs[p].step \notin Running => PutBack(jobs[p]) = jobs[p]
        /\ jobs[p].step \in Running => PutBack(jobs[p]).step \in {"waiting", "failed"}
    BY <1>1, PutBackType
  <2>2. CASE jobs[p].step \notin Running
    BY <2>1, <2>2
  <2>3. CASE jobs[p].step \in Running
    <3>1. NoticeOf(jobs[p]) = "pending"
      BY <2>3 DEF NoticeOf, Running
    <3>2. NoticeOf(PutBack(jobs[p])) =
            IF PutBack(jobs[p]).step = "failed" THEN "abandoned" ELSE "pending"
      BY <2>1, <2>3 DEF NoticeOf
    <3> QED
      BY <2>3, <3>1, <3>2
  <2> QED
    BY <2>2, <2>3
<1>4. Notice' = [p \in Jobs |-> IF p \in lost THEN "abandoned" ELSE Notice[p]]
  <2>1. Notice' = [p \in Jobs |-> NoticeOf(PutBack(jobs[p]))]
    BY <1>1 DEF Notice, NoticeOf
  <2>2. \A p \in Jobs : Notice[p] = NoticeOf(jobs[p])
    BY DEF Notice
  <2> HIDE DEF lost
  <2> QED
    BY <1>3, <2>1, <2>2
<1>5. lost \in SUBSET Channel!Pending
  BY PendingJob
<1>6. Channel!Abandon(lost)
  <2> HIDE DEF lost
  <2> QED
    BY <1>1, <1>2, <1>4 DEF Channel!Abandon, Notice, Acknowledged
<1>7. CASE lost = {}
  <2> HIDE DEF lost
  <2>1. Notice' = Notice
    BY <1>4, <1>7 DEF Notice
  <2> QED
    BY <1>1, <1>2, <2>1, ChannelStutters
<1>8. CASE lost # {}
  <2> HIDE DEF lost
  <2>1. PICK p \in lost : p \in Jobs
    BY <1>5, <1>8 DEF Channel!Pending
  <2>2. Channel!Settle(p)
    BY <1>5, <1>6, <2>1 DEF Channel!Settle
  <2> QED
    BY <2>1, <2>2 DEF Channel!ChannelNext
<1> QED
  BY <1>7, <1>8

(* Queueing takes a notice up; the other steps of a dispatch say nothing.  *)
LEMMA DispatchTakesUp ==
    ASSUME ChannelInv, NEW e \in Events,
           LogAuditEvent(e) \/ SelectWebhooks(e) \/ AddJob(e) \/ DispatchFails(e)
    PROVE  Channel!ChannelNext \/ UNCHANGED Channel!channelVars
<1>1. DeliveryInv /\ UNCHANGED <<posts, answered>>
  BY DispatcherFrame DEF ChannelInv
<1>2. Acknowledged' = Acknowledged
  BY <1>1 DEF Acknowledged
<1>3. CASE UNCHANGED jobs
  BY <1>1, <1>2, <1>3, ChannelStutters DEF Notice
<1>4. ASSUME NEW p \in Jobs, jobs[p].step = "none", jobs' = [jobs EXCEPT ![p].step = "waiting"]
      PROVE  Channel!TakeUp(p)
  <2>1. jobs'[p].step = "waiting" /\ \A q \in Jobs \ {p} : jobs'[q] = jobs[q]
    BY <1>1, <1>4, JobGoesType DEF JobGoes, JobSteps, DeliveryInv
  <2>2. NoticeAt(p, "pending") /\ Notice[p] = "none"
    <3>1. NoticeOf(jobs'[p]) = "pending" /\ NoticeOf(jobs[p]) = "none"
      BY <1>4, <2>1 DEF NoticeOf
    <3> QED
      BY <2>1, <3>1, OneNotice, PendingJob
  <2> QED
    BY <1>1, <1>2, <2>2 DEF Channel!TakeUp, NoticeAt, Notice, Acknowledged
<1> QED
  BY <1>1, <1>3, <1>4, DispatcherFrame DEF Channel!ChannelNext

(* Every step of the pipeline is one of the channel, or none.              *)
LEMMA DeliveryStepImplements ==
    ChannelInv /\ [DeliveryNext]_deliveryVars => [Channel!ChannelNext]_Channel!channelVars
<1> SUFFICES ASSUME ChannelInv, [DeliveryNext]_deliveryVars
             PROVE  [Channel!ChannelNext]_Channel!channelVars
  OBVIOUS
<1>1. CASE UNCHANGED <<jobs, posts, answered>>
  BY <1>1, ChannelStutters DEF Notice, Acknowledged
<1>2. ASSUME NEW w \in Webhooks, CreateWebhook(w) \/ DeleteWebhook(w)
      PROVE  UNCHANGED <<jobs, posts, answered>>
  BY <1>2 DEF CreateWebhook, DeleteWebhook, receiver
<1>3. CASE UNCHANGED deliveryVars
  BY <1>1, <1>3 DEF deliveryVars, receiver
<1> QED
  BY <1>1, <1>2, <1>3, WorkerImplements, CrashAbandons, DispatchTakesUp DEF DeliveryNext

(* Nothing is taken up at first.                                           *)
LEMMA ChannelInitially == DeliveryInit => ChannelInv /\ Channel!ChannelInit
<1> SUFFICES ASSUME DeliveryInit
             PROVE  ChannelInv /\ Channel!ChannelInit
  OBVIOUS
<1>1. \A p \in Jobs : jobs[p].step = "none" /\ jobs[p].attemptsMade = 0
                      /\ jobs[p].stalled = 0 /\ deliveries[p] = << >> /\ answered[p] = {}
  BY DEF DeliveryInit
<1>2. Channel!ChannelInit
  BY <1>1 DEF DeliveryInit, Channel!ChannelInit, NoticeOf
<1>3. \A p \in Jobs : CallsBounded(p)
  BY <1>1 DEF CallsBounded, Rowed
<1> QED
  BY <1>2, <1>3, DeliveryInitInv DEF ChannelInv

(* The invariant of the refinement, over whole behaviours.                 *)
LEMMA ChannelInvariant == DeliverySpec => []ChannelInv
BY ChannelInitially, ChannelInvKept, PTL DEF DeliverySpec

(* The pipeline implements the channel, whatever throws, fails to answer   *)
(* or crashes: an event is taken up once for a webhook, its receiver is    *)
(* called while it is pending only and at most MaxAttempts + 1 times, and  *)
(* it is delivered only when the receiver answered with success.  That a   *)
(* notice taken up is settled, the rest of ImplementsChannel, is liveness. *)
THEOREM ChannelImplemented ==
    DeliverySpec => Channel!ChannelInit /\ [][Channel!ChannelNext]_Channel!channelVars
BY ChannelInitially, ChannelInvariant, DeliveryStepImplements, PTL DEF DeliverySpec
=============================================================================
