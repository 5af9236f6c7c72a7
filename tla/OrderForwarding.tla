-------------------------- MODULE OrderForwarding --------------------------
(***************************************************************************)
(* One order of a webhook that is forwarded to the URL of its application: *)
(* the webhook persists a delivery, queues a job for it and thinks no more *)
(* of it; a worker posts the payload and writes the result; every thirty   *)
(* seconds each backend queues again what has no job.                      *)
(***************************************************************************)
EXTENDS Naturals

CONSTANTS
  Workers,    \* workers of the queue
  Attempts,   \* attempts of a job
  MaxFaults   \* bound: deaths, lost locks, calls that fail

VARIABLES
  delivery,   \* the row: its status, whether it still has its payload
  current,    \* the target is enabled, and as it was when the row was created
  publisher,  \* the webhook: "persisting", "publishing", "done"
  job, tries, \* the BullMQ job of the delivery, its failed attempts
  worker,     \* where each worker is
  received,   \* the endpoint has got the order
  strayed,    \* history: a worker outlived the lock of its job
  faults      \* bounded faults so far

vars == <<delivery, current, publisher, job, tries, worker, received, strayed, faults>>

Final == {"delivered", "failed"}
Idle == [at |-> "idle"]

Init ==
  /\ delivery = [status |-> "none", payload |-> FALSE]
  /\ current = TRUE
  /\ publisher = "persisting"
  /\ job = "absent" /\ tries = 0
  /\ worker = [w \in Workers |-> Idle]
  /\ received = FALSE /\ strayed = FALSE /\ faults = 0

Fault == faults < MaxFaults /\ faults' = faults + 1

Queued == [status |-> "queued", payload |-> TRUE]
Moves(w, at) == worker' = [worker EXCEPT ![w].at = at]

\* The worker is through: with its job, if it still is its own.
Leaves(w, state) ==
  /\ worker' = [worker EXCEPT ![w] = Idle]
  /\ job' = IF worker[w].own THEN state ELSE job

Returns(w) == Leaves(w, "completed") /\ UNCHANGED tries

\* BullMQ tries a failed job again, some seconds later.
Throws(w) ==
  /\ Leaves(w, IF tries + 1 < Attempts THEN "waiting" ELSE "failed")
  /\ tries' = IF worker[w].own THEN tries + 1 ELSE tries

-----------------------------------------------------------------------------
(* The webhook and the settings.                                           *)

Persist ==
  /\ publisher = "persisting"
  /\ \/ current /\ delivery' = Queued /\ publisher' = "publishing"
     \/ ~ current /\ publisher' = "done" /\ UNCHANGED delivery
  /\ UNCHANGED <<current, job, tries, worker, received, strayed, faults>>

\* publishDelivery logs an error and leaves the row to the recovery.
Publish ==
  /\ publisher = "publishing"
  /\ publisher' = "done"
  /\ \/ job' = (IF job = "absent" THEN "waiting" ELSE job) /\ UNCHANGED faults
     \/ Fault /\ UNCHANGED job
  /\ UNCHANGED <<delivery, current, tries, worker, received, strayed>>

\* updateOrderWebhookForwarding: any change of it is a new revision.
ChangeTarget ==
  /\ current
  /\ current' = FALSE
  /\ UNCHANGED <<delivery, publisher, job, tries, worker, received, strayed, faults>>

-----------------------------------------------------------------------------
(* A worker: process.                                                      *)

Take(w) ==
  /\ worker[w] = Idle /\ job = "waiting"
  /\ job' = "active"
  /\ worker' = [worker EXCEPT ![w] = 
                  [at |-> "read", own |-> TRUE, last |-> tries + 1 >= Attempts, good |-> FALSE, retry |-> FALSE]]
  /\ UNCHANGED <<delivery, current, publisher, tries, received, strayed, faults>>

\* The delivery is read with its target.
Read(w) ==
  /\ worker[w].at = "read"
  /\ \/ delivery.status \in Final /\ Returns(w)
     \/ /\ delivery.status \notin Final
        /\ worker' = [worker EXCEPT ![w].at = "mark", ![w].good = current /\ delivery.payload]
        /\ UNCHANGED <<job, tries>>
  /\ UNCHANGED <<delivery, current, publisher, received, strayed, faults>>

Mark(w) ==
  /\ worker[w].at = "mark"
  /\ delivery' = [delivery EXCEPT !.status = "processing"]
  /\ Moves(w, "send")
  /\ UNCHANGED <<current, publisher, job, tries, received, strayed, faults>>

\* The target was disabled or changed, the payload is gone, the URL is refused.
Refuse(w) ==
  /\ worker[w].at = "send"
  /\ Moves(w, "fail")
  /\ UNCHANGED <<delivery, current, publisher, job, tries, received, strayed, faults>>

\* The endpoint takes the order, or not; its status is a success, a failure for
\* good or one for now, as it is when nothing is heard of it.
Send(w) ==
  /\ worker[w].at = "send" /\ worker[w].good
  /\ received' \in {received, TRUE}
  /\ \/ received' /\ Moves(w, "succeed")
     \/ \E retry \in BOOLEAN : worker' = [worker EXCEPT ![w].at = "fail", ![w].retry = retry]
  /\ UNCHANGED <<delivery, current, publisher, job, tries, strayed, faults>>

Succeed(w) ==
  /\ worker[w].at = "succeed"
  /\ delivery' = [status |-> "delivered", payload |-> FALSE]
  /\ Returns(w)
  /\ UNCHANGED <<current, publisher, received, strayed, faults>>

\* The catch: the row is queued for the next attempt, or failed.
Fail(w) ==
  LET again == worker[w].retry /\ ~ worker[w].last IN
  /\ worker[w].at = "fail"
  /\ delivery' = IF again THEN [delivery EXCEPT !.status = "queued"]
                 ELSE [status |-> "failed", payload |-> FALSE]
  /\ IF worker[w].retry THEN Throws(w) ELSE Returns(w)
  /\ UNCHANGED <<current, publisher, received, strayed, faults>>

\* A query fails: in the attempt it counts as a failure for now, elsewhere the
\* job fails and leaves the row as it is.
QueryFails(w) ==
  /\ worker[w].at \in {"read", "mark", "succeed", "fail"} /\ Fault
  /\ IF worker[w].at = "succeed"
     THEN /\ worker' = [worker EXCEPT ![w].at = "fail", ![w].retry = TRUE]
          /\ UNCHANGED <<job, tries>>
     ELSE Throws(w)
  /\ UNCHANGED <<delivery, current, publisher, received, strayed>>

-----------------------------------------------------------------------------
(* Faults of the queue, and the recovery.                                  *)

Die(w) ==
  /\ worker[w] # Idle /\ Fault
  /\ worker' = [worker EXCEPT ![w] = Idle]
  /\ UNCHANGED <<delivery, current, publisher, job, tries, received, strayed>>

\* A worker that is alive cannot renew the lock of its job.
LoseLock(w) ==
  /\ worker[w] # Idle /\ worker[w].own /\ Fault
  /\ worker' = [worker EXCEPT ![w].own = FALSE]
  /\ strayed' = TRUE
  /\ UNCHANGED <<delivery, current, publisher, job, tries, received>>

\* A job without its worker is delivered once more, or fails.
Stalled ==
  /\ job = "active" /\ \A w \in Workers : worker[w] # Idle => ~ worker[w].own
  /\ job' \in {"waiting", "failed"}
  /\ UNCHANGED <<delivery, current, publisher, tries, worker, received, strayed, faults>>

\* Mutant: the rows that are being processed are left to their workers.
RecoverQueued ==
  /\ delivery.payload /\ delivery.status = "queued"
  /\ job \in {"absent", "completed", "failed"}
  /\ job' = "waiting" /\ tries' = 0
  /\ UNCHANGED <<delivery, current, publisher, worker, received, strayed, faults>>

\* recoverPendingDeliveries: what is queued, or has been in processing for two
\* minutes, gets a new job unless it has one that is not over.
Recover ==
  /\ delivery.payload /\ delivery.status \in {"queued", "processing"}
  /\ job \in {"absent", "completed", "failed"}
  /\ job' = "waiting" /\ tries' = 0
  /\ UNCHANGED <<delivery, current, publisher, worker, received, strayed, faults>>

-----------------------------------------------------------------------------

Work(w) == Read(w) \/ Mark(w) \/ Refuse(w) \/ Send(w) \/ Succeed(w) \/ Fail(w)

Next ==
  \/ Persist \/ Publish \/ ChangeTarget \/ Stalled \/ Recover
  \/ \E w \in Workers : Take(w) \/ Work(w) \/ QueryFails(w) \/ Die(w) \/ LoseLock(w)

\* The timer of the recovery and the workers go on.
Fairness ==
  /\ WF_vars(\E w \in Workers : Take(w)) /\ WF_vars(Stalled) /\ WF_vars(Recover)
  /\ \A w \in Workers : WF_vars(Work(w))

Spec == Init /\ [][Next]_vars /\ Fairness

-----------------------------------------------------------------------------
(* Properties.                                                             *)

\* Type correctness of the row, the job and the workers.
TypeOK ==
  /\ delivery \in [status : {"none", "queued", "processing"} \cup Final, payload : BOOLEAN]
  /\ current \in BOOLEAN /\ received \in BOOLEAN /\ strayed \in BOOLEAN
  /\ publisher \in {"persisting", "publishing", "done"}
  /\ job \in {"absent", "waiting", "active", "completed", "failed"}
  /\ tries \in 0..Attempts /\ faults \in 0..MaxFaults
  /\ \A w \in Workers : worker[w].at \in {"idle", "read", "mark", "send", "succeed", "fail"}

\* What is persisted is delivered or failed in the end, though nobody waits for
\* the job and the job, its worker or its result may be lost.  A worker that
\* outlives the lock of its job is excepted: it may queue a row whose payload
\* another worker has cleared, which nobody finds again.
ForwardingEnds ==
  delivery.status \in {"queued", "processing"} ~> (delivery.status \in Final \/ strayed)

\* An order that is recorded as delivered has been received, and stays delivered.
DeliveredStays ==
  [][delivery.status = "delivered" /\ ~ strayed' => delivery'.status = "delivered" /\ received]_vars
=============================================================================
