-------------------------- MODULE UpcActivityPrice --------------------------
(***************************************************************************)
(* One live execution of a UPC activity-price rule, for its one store: the *)
(* menu is exported, an upload with the new prices is prepared, submitted, *)
(* polled until DiDi has ended it and verified by another export, and what *)
(* is left is uploaded again.  Each step is written down under the fence of *)
(* the lease of the execution, so that another worker can go on from there; *)
(* an upload of which nobody knows whether DiDi took it is left to a human. *)
(***************************************************************************)
EXTENDS UpcUploads

CONSTANTS
  Workers,     \* workers of the queue 'upc-activity-price'
  MaxEvents    \* bound: deaths, lost leases and locks, calls that fail

VARIABLES
  review,  \* manualReviewRequired
  saved,   \* the checkpoint: the last upload, and whether the store is done
  owner,   \* who holds the lease of the execution
  job,     \* the BullMQ jobs of the execution
  worker,  \* where each worker is, and its progress
  events   \* events so far

vars == <<exec, cancel, review, saved, owner, job, worker, upload, events>>

Active == {"pending", "running"}
Jobs == {"primary", "recovery"}
NoOne == "no one"
Orphan == "a worker that died"
Idle == [at |-> "idle"]

\* The marks of the lease are no workers, and an upload may be tried.
UpcConstants ==
  /\ NoOne \notin Workers /\ Orphan \notin Workers
  /\ MaxUploads \in Nat \ {0}

\* The state of the last upload, its number, whether items are left to upload;
\* whether the result of the store is recorded.
NoUpload == [state |-> "none", n |-> 0, left |-> FALSE, shop |-> FALSE]

\* The execution was created, and its job may not have reached the queue.
Init ==
  /\ exec = "pending" /\ cancel = FALSE /\ review = FALSE
  /\ saved = NoUpload
  /\ owner = NoOne
  /\ \E first \in {"absent", "waiting"} : job = [j \in Jobs |-> IF j = "primary" THEN first ELSE "absent"]
  /\ worker = [w \in Workers |-> Idle]
  /\ upload = [n \in Uploads |-> "unused"]
  /\ events = 0

Spend == events < MaxEvents /\ events' = events + 1

-----------------------------------------------------------------------------
(* A worker.                                                               *)

Goes(w, state) == worker' = [worker EXCEPT ![w] = state]
Moves(w, at) == Goes(w, [worker[w] EXCEPT !.at = at])

\* The worker has a new state of the upload, which nobody knows yet; or has
\* written it down.
Knows(w, at, state) ==
  Goes(w, [worker[w] EXCEPT !.at = at, !.progress.state = state, !.menu = FALSE])
Saves(w, at, progress) ==
  /\ saved' = progress
  /\ Goes(w, [worker[w] EXCEPT !.at = at, !.progress = progress])

\* It leaves the lease and its job, as far as they are its own.
Leaves(w, jobState) ==
  /\ Goes(w, Idle)
  /\ owner' = IF owner = w THEN NoOne ELSE owner
  /\ job' = IF worker[w].own THEN [job EXCEPT ![worker[w].job] = jobState] ELSE job

Completes(w) == Leaves(w, "completed")

\* BullMQ tries a failed job again, at most twice.
FailsJob(w) == \E state \in {"waiting", "failed"} : Leaves(w, state)

Take(w, j) ==
  /\ worker[w] = Idle /\ job[j] = "waiting"
  /\ job' = [job EXCEPT ![j] = "active"]
  /\ Goes(w, [at |-> "acquire", job |-> j, own |-> TRUE, menu |-> FALSE, progress |-> NoUpload])
  /\ UNCHANGED <<exec, cancel, review, saved, owner, upload, events>>

\* A delivery that finds the lease taken is a duplicate.
Acquire(w) ==
  /\ worker[w].at = "acquire"
  /\ \/ owner = NoOne /\ owner' = w /\ Moves(w, "claim") /\ UNCHANGED job
     \/ owner # NoOne /\ Completes(w)
  /\ UNCHANGED <<exec, cancel, review, saved, upload, events>>

\* What follows is done under the fence of the lease.
Fenced(w, at) == worker[w].at = at /\ owner = w

Claim(w) ==
  /\ Fenced(w, "claim")
  /\ \/ /\ exec \in Active /\ ~ review
        /\ exec' = "running"
        /\ Goes(w, [worker[w] EXCEPT !.at = "shop", !.progress = saved])
        /\ UNCHANGED <<owner, job>>
     \/ (exec \notin Active \/ review) /\ Completes(w) /\ UNCHANGED exec
  /\ UNCHANGED <<cancel, review, saved, upload, events>>

Shop(w) ==
  /\ Fenced(w, "shop")
  /\ Moves(w, IF worker[w].progress.shop THEN "finish" ELSE "catalog")
  /\ UNCHANGED <<exec, cancel, review, saved, owner, job, upload, events>>

\* ensureCanSubmit: the execution is stopped, or goes on.
Stopped == cancel \/ exec # "running"
Ensures(w, at) == Moves(w, IF Stopped THEN "stopping" ELSE at)

\* The lease of the store is had; an upload that was begun is taken up again.
Catalog(w) ==
  /\ Fenced(w, "catalog")
  /\ Ensures(w, IF worker[w].progress.state = "none" THEN "export" ELSE "loop")
  /\ UNCHANGED <<exec, cancel, review, saved, owner, job, upload, events>>

\* The menu: nothing is to be changed in it, or the worker has what to upload.
Export(w) ==
  /\ Fenced(w, "export")
  /\ \/ Ensures(w, "save")
     \/ ~ Stopped /\ Goes(w, [worker[w] EXCEPT !.at = "prepare", !.menu = TRUE])
  /\ UNCHANGED <<exec, cancel, review, saved, owner, job, upload, events>>

-----------------------------------------------------------------------------
(* The upload: runUploadLifecycle.                                         *)

\* Where the state of the last upload leads.
NextOf(w) ==
  LET p == worker[w].progress IN
  CASE p.state = "rejected"                      -> "save"
    [] p.state \in {"submitting", "unconfirmed"} -> "review"
    [] p.state = "submitted"                     -> "poll"
    [] p.state = "terminal"                      -> IF cancel THEN "save" ELSE "verify"
    [] p.state = "verified"                      ->
         IF ~ p.left \/ cancel \/ p.n = MaxUploads THEN "save"
         ELSE IF worker[w].menu THEN "prepare" ELSE "verify"
    [] OTHER                                     -> "prepare"

Loop(w) ==
  /\ Fenced(w, "loop")
  /\ Moves(w, NextOf(w))
  /\ UNCHANGED <<exec, cancel, review, saved, owner, job, upload, events>>

\* A menu without anything to upload ends the store.
Prepare(w) ==
  LET p == worker[w].progress
      n == IF p.state = "prepared" THEN p.n ELSE p.n + 1
  IN
  /\ Fenced(w, "prepare")
  /\ \/ Ensures(w, "save") /\ UNCHANGED saved
     \/ ~ Stopped /\ Saves(w, "token", [p EXCEPT !.state = "prepared", !.n = n, !.left = TRUE])
  /\ UNCHANGED <<exec, cancel, review, owner, job, upload, events>>

\* Mutant: the submission is not written down before it is made.
TokenUnsaved(w) ==
  /\ Fenced(w, "token")
  /\ IF Stopped THEN Moves(w, "stopping") ELSE Knows(w, "boundary", "submitting")
  /\ UNCHANGED <<exec, cancel, review, saved, owner, job, upload, events>>

Token(w) ==
  /\ Fenced(w, "token")
  /\ \/ Stopped /\ Moves(w, "stopping") /\ UNCHANGED saved
     \/ ~ Stopped /\ Saves(w, "boundary", [worker[w].progress EXCEPT !.state = "submitting"])
  /\ UNCHANGED <<exec, cancel, review, owner, job, upload, events>>

\* The last check before the POST; what was not submitted is prepared again.
Boundary(w) ==
  /\ Fenced(w, "boundary")
  /\ \/ Stopped /\ Saves(w, "stopping", [worker[w].progress EXCEPT !.state = "prepared"])
     \/ ~ Stopped /\ Moves(w, "post") /\ UNCHANGED saved
  /\ UNCHANGED <<exec, cancel, review, owner, job, upload, events>>

\* The POST waits for no lease: DiDi takes the upload and says so, refuses it,
\* or is not heard.
Post(w) ==
  LET n == worker[w].progress.n
      Fate(f) == upload' = [upload EXCEPT ![n] = f]
  IN
  /\ worker[w].at = "post"
  /\ \/ Fate("running") /\ Knows(w, "answer", "submitted") /\ UNCHANGED events
     \/ Fate("refused") /\ Knows(w, "answer", "rejected") /\ UNCHANGED events
     \/ \E f \in {"running", "refused"} : Fate(f) /\ Knows(w, "answer", "unconfirmed") /\ Spend
  /\ UNCHANGED <<exec, cancel, review, saved, owner, job>>

\* Mutant: an answer that was not heard is a rejection.
AnswerTrusting(w) ==
  /\ Fenced(w, "answer")
  /\ Saves(w, IF worker[w].progress.state = "submitted" THEN "loop" ELSE "save", worker[w].progress)
  /\ UNCHANGED <<exec, cancel, review, owner, job, upload, events>>

Answer(w) ==
  /\ Fenced(w, "answer")
  /\ Saves(w, "loop", worker[w].progress)
  /\ UNCHANGED <<exec, cancel, review, owner, job, upload, events>>

\* Before it asks DiDi the worker asks for its leases, and that of the store
\* asks whether the execution is stopped.
Poll(w) ==
  /\ Fenced(w, "poll")
  /\ Ensures(w, "check")
  /\ UNCHANGED <<exec, cancel, review, saved, owner, job, upload, events>>

Check(w) ==
  LET p == worker[w].progress IN
  /\ Fenced(w, "check")
  /\ IF upload[p.n] = "ended" THEN Saves(w, "loop", [p EXCEPT !.state = "terminal"])
     ELSE Moves(w, "poll") /\ UNCHANGED saved
  /\ UNCHANGED <<exec, cancel, review, owner, job, upload, events>>

\* Another export shows what is left.
Verify(w) ==
  /\ Fenced(w, "verify")
  /\ \/ Stopped /\ Moves(w, "stopping") /\ UNCHANGED saved
     \/ /\ ~ Stopped
        /\ \E left \in BOOLEAN :
             LET p == [worker[w].progress EXCEPT !.state = "verified", !.left = left] IN
             saved' = p /\ Goes(w, [worker[w] EXCEPT !.at = "loop", !.progress = p, !.menu = TRUE])
  /\ UNCHANGED <<exec, cancel, review, owner, job, upload, events>>

-----------------------------------------------------------------------------
(* The end.                                                                *)

\* blockForManualReview
Review(w) ==
  /\ Fenced(w, "review")
  /\ IF exec = "running" THEN cancel' = TRUE /\ review' = TRUE ELSE UNCHANGED <<cancel, review>>
  /\ saved' = worker[w].progress
  /\ Completes(w)
  /\ UNCHANGED <<exec, upload, events>>

Save(w) ==
  /\ Fenced(w, "save")
  /\ Saves(w, "finish", [worker[w].progress EXCEPT !.shop = TRUE])
  /\ UNCHANGED <<exec, cancel, review, owner, job, upload, events>>

Finish(w) ==
  /\ Fenced(w, "finish")
  /\ Ensures(w, "close")
  /\ UNCHANGED <<exec, cancel, review, saved, owner, job, upload, events>>

Close(w) ==
  /\ Fenced(w, "close")
  /\ exec' = "finished" /\ review' = FALSE
  /\ Completes(w)
  /\ UNCHANGED <<cancel, saved, upload, events>>

\* finishCancelled
Stopping(w) ==
  /\ Fenced(w, "stopping")
  /\ IF exec = "running" /\ cancel
     THEN exec' = "cancelled" /\ saved' = [NoUpload EXCEPT !.shop = worker[w].progress.shop]
     ELSE UNCHANGED <<exec, saved>>
  /\ Completes(w)
  /\ UNCHANGED <<cancel, review, upload, events>>

-----------------------------------------------------------------------------
(* What goes wrong.                                                        *)

Holding == {"claim", "shop", "catalog", "export", "loop", "prepare", "token", "boundary", "answer", "poll",
            "check", "verify", "review", "save", "finish", "close", "stopping"}

\* hasRecoverableRemoteWork, when something was uploaded.
Recoverable(p) ==
  p.state \in {"prepared", "submitting", "submitted", "terminal", "unconfirmed"} \/ (p.state = "verified" /\ p.left)

\* A worker that has lost the lease writes nothing more.
LosesLease(w) ==
  /\ worker[w].at \in Holding /\ owner # w
  /\ Completes(w)
  /\ UNCHANGED <<exec, cancel, review, saved, upload, events>>

\* markRecoveryPending: another delivery goes on from the checkpoint.
Parks(w, progress) ==
  /\ saved' = progress
  /\ FailsJob(w) \/ Completes(w)
  /\ UNCHANGED exec

\* A call fails before the store is done, or its lease is lost or not had.
Breaks(w) ==
  LET p == worker[w].progress IN
  /\ \E at \in {"shop", "catalog", "export", "prepare", "token", "boundary", "poll", "verify"} : Fenced(w, at)
  /\ Spend
  /\ \/ Parks(w, IF worker[w].at = "boundary" THEN [p EXCEPT !.state = "prepared"] ELSE p)
     \/ /\ ~ Recoverable(p) /\ worker[w].at \notin {"shop", "catalog"}
        /\ Moves(w, "save") /\ UNCHANGED <<exec, saved, owner, job>>
     \/ /\ ~ Recoverable(p) /\ worker[w].at \in {"shop", "catalog"}
        /\ exec' = "failed" /\ saved' = [NoUpload EXCEPT !.shop = p.shop]
        /\ FailsJob(w)
  /\ UNCHANGED <<cancel, review, upload>>

\* A write fails when the store is done: the execution fails, unless that is not
\* written either.
BreaksLate(w) ==
  /\ \E at \in {"save", "finish", "close", "stopping"} : Fenced(w, at)
  /\ Spend
  /\ exec' \in {exec, IF exec \in Active THEN "failed" ELSE exec}
  /\ FailsJob(w)
  /\ UNCHANGED <<cancel, review, saved, upload>>

Die(w) ==
  /\ worker[w] # Idle /\ Spend
  /\ Goes(w, Idle)
  /\ owner' = IF owner = w THEN Orphan ELSE owner
  /\ UNCHANGED <<exec, cancel, review, saved, job, upload>>

\* The lease of a worker that is dead expires, or that of one that cannot renew it.
Expire ==
  /\ owner # NoOne
  /\ IF owner = Orphan THEN UNCHANGED events ELSE Spend
  /\ owner' = NoOne
  /\ UNCHANGED <<exec, cancel, review, saved, job, worker, upload>>

\* A worker that is alive cannot renew the lock of its job.
LoseLock(w) ==
  /\ worker[w] # Idle /\ worker[w].own /\ Spend
  /\ worker' = [worker EXCEPT ![w].own = FALSE]
  /\ UNCHANGED <<exec, cancel, review, saved, owner, job, upload>>

\* A job without its worker is delivered once more, or fails.
Stalled(j) ==
  /\ job[j] = "active" /\ \A w \in Workers : worker[w] # Idle /\ worker[w].job = j => ~ worker[w].own
  /\ \E state \in {"waiting", "failed"} : job' = [job EXCEPT ![j] = state]
  /\ UNCHANGED <<exec, cancel, review, saved, owner, worker, upload, events>>

-----------------------------------------------------------------------------
(* DiDi, the rule's page and the timer.                                    *)

UploadEnds(n) ==
  /\ upload[n] = "running"
  /\ upload' = [upload EXCEPT ![n] = "ended"]
  /\ UNCHANGED <<exec, cancel, review, saved, owner, job, worker, events>>

\* What has not begun or waits for a human is cancelled, what runs is asked to
\* stop; of a cancelled execution the waiting jobs are removed.
Stop ==
  /\ exec \in Active /\ (cancel => review)
  /\ cancel' = TRUE /\ review' = FALSE
  /\ \/ /\ exec = "pending" \/ review
        /\ exec' = "cancelled"
        /\ job' = [j \in Jobs |-> IF job[j] = "waiting" THEN "absent" ELSE job[j]]
     \/ exec = "running" /\ ~ review /\ UNCHANGED <<exec, job>>
  /\ UNCHANGED <<saved, owner, worker, upload, events>>

\* Mutant: a recovery job that is over is left in the queue, which ignores another.
RecoverOnce ==
  /\ exec \in Active /\ ~ review
  /\ \A j \in Jobs : job[j] \notin {"waiting", "active"}
  /\ job["recovery"] = "absent" /\ job' = [job EXCEPT !["recovery"] = "waiting"]
  /\ UNCHANGED <<exec, cancel, review, saved, owner, worker, upload, events>>

\* ensureExecutionQueued, every minute: an execution that is active and not left
\* to a human gets a new job, unless it has one that is not over.
Recover ==
  /\ exec \in Active /\ ~ review
  /\ \A j \in Jobs : job[j] \notin {"waiting", "active"}
  /\ job' = [job EXCEPT !["recovery"] = "waiting"]
  /\ UNCHANGED <<exec, cancel, review, saved, owner, worker, upload, events>>

-----------------------------------------------------------------------------

Work(w) ==
  \/ Acquire(w) \/ Claim(w) \/ Shop(w) \/ Catalog(w) \/ Export(w) \/ Loop(w) \/ Prepare(w) \/ Token(w)
  \/ Boundary(w) \/ Post(w) \/ Answer(w) \/ Poll(w) \/ Check(w) \/ Verify(w) \/ Review(w) \/ Save(w)
  \/ Finish(w) \/ Close(w) \/ Stopping(w) \/ LosesLease(w)

Next ==
  \/ \E w \in Workers : Work(w) \/ Breaks(w) \/ BreaksLate(w) \/ Die(w) \/ LoseLock(w)
  \/ \E w \in Workers, j \in Jobs : Take(w, j)
  \/ \E j \in Jobs : Stalled(j)
  \/ \E n \in Uploads : UploadEnds(n)
  \/ Expire \/ Stop \/ Recover

\* Workers and the timer go on, a lease without its owner expires, DiDi ends what
\* it has taken.
Fairness ==
  /\ \A w \in Workers : WF_vars(Work(w))
  /\ \A j \in Jobs : WF_vars(\E w \in Workers : Take(w, j)) /\ WF_vars(Stalled(j))
  /\ \A n \in Uploads : WF_vars(UploadEnds(n))
  /\ WF_vars(owner = Orphan /\ Expire) /\ WF_vars(Recover)

Spec == Init /\ [][Next]_vars /\ Fairness

-----------------------------------------------------------------------------
(* Properties.                                                             *)

\* An execution that is stopped while it runs is recorded as cancelled only when
\* DiDi has ended every upload it has taken.
StopWaits == [][exec = "running" /\ ~ review /\ exec' = "cancelled" => Uploading = {}]_vars

\* Every execution ends, or waits for a human, though jobs, workers, leases and
\* answers are lost.
PricesEnd == <>[](exec \notin Active \/ review)
=============================================================================
