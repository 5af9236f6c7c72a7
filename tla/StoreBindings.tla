--------------------------- MODULE StoreBindings ---------------------------
(***************************************************************************)
(* One mass execution of Bind or Unbind: a request has created it with one *)
(* item per store and queues its job; a worker takes the items through     *)
(*                                                                         *)
(*     pending -> processing -> submitting -> success, failed, unconfirmed *)
(*                                                                         *)
(* in batches (Bind) or pages (Unbind), under a lock that is held in the   *)
(* memory of its process.  'processing' may be repeated; 'submitting' is   *)
(* written before the POST, and what is found there is never sent again.   *)
(* Workers and processes die, jobs stall under workers that are alive.     *)
(***************************************************************************)
EXTENDS Naturals, FiniteSets

CONSTANTS
  Shops, Batches,      \* the stores, and how they are cut into batches or pages
  Workers, Processes,  \* workers of the queue, and the backends they run in
  Creator, Canceller,  \* the request that creates the execution; one that cancels it
  Attempts,            \* attempts of the job
  Patience,            \* failures in a row after which the execution is stopped
  MaxEvents            \* bound: deaths, lost locks, calls that fail

Actors == Workers \cup {Creator, Canceller}
NoOne == "no one"

\* Finitely many stores; the requests are two, no workers, and nobody's lock is not one's.
ASSUME BindingConstants ==
  /\ IsFiniteSet(Shops)
  /\ Creator # Canceller /\ Creator \notin Workers /\ Canceller \notin Workers
  /\ NoOne \notin Workers

VARIABLES
  action,   \* "bind" or "unbind"
  exec,     \* DidiStoreBindingExecution.status
  cancel,   \* cancelRequested
  item,     \* the status of the item of each store it is asked for
  job, tries, stalls,  \* the BullMQ job, its failed attempts, its stalls
  actor,    \* where each worker and request is
  host,     \* the process of each
  up, lock, \* processes that run; who holds activeApplications of each
  posted,   \* POSTs sent for each store, without those refused for throttling
  applied,  \* stores for which DiDi has done what was asked
  orphan,   \* history: the execution is active and may have no job, see Orphaned
  events    \* events so far, or that will not come

queue == <<job, tries, stalls>>
world == <<posted, applied>>
vars == <<action, exec, cancel, item, queue, actor, host, up, lock, world, orphan, events>>

Active == {"pending", "running"}
Settled == {"success", "failed", "unconfirmed", "cancelled"}

Idle == [at |-> "idle"]

\* The processes in which something of this happens.
Backends == {host[x] : x \in Actors}

\* One backend runs the workers and the requests: its lock keeps them apart.
OneProcess == \A x, y \in Actors : host[x] = host[y]

Init ==
  /\ action \in {"bind", "unbind"}
  /\ exec = "pending" /\ cancel = FALSE
  /\ \E S \in SUBSET Shops \ {{}} : item = [s \in S |-> "pending"]
  /\ job = "absent" /\ tries = 0 /\ stalls = 0
  /\ actor = [x \in Actors |-> IF x = Creator THEN [at |-> "adding"] ELSE Idle]
  /\ host \in [Actors -> Processes]
  /\ up = Backends /\ lock = [p \in Processes |-> NoOne]
  /\ posted = [s \in Shops |-> 0] /\ applied = {}
  /\ orphan = FALSE /\ events \in 0..MaxEvents

Spend == events < MaxEvents /\ events' = events + 1

Items == DOMAIN item
With(S) == {s \in Items : item[s] \in S}

\* updateMany: the items of S whose status is in From become To.
Marked(S, From, To) ==
  [s \in Items |-> IF s \in S /\ item[s] \in From THEN To ELSE item[s]]

\* What is safe fails; what was submitted is in doubt.
SafelyFailed(Safe) ==
  [s \in Items |-> IF item[s] \in Safe THEN "failed"
                   ELSE IF item[s] = "submitting" THEN "unconfirmed" ELSE item[s]]

-----------------------------------------------------------------------------
(* Actors.                                                                 *)

Goes(x, state) == actor' = [actor EXCEPT ![x] = state]
Moves(x, at) == Goes(x, [actor[x] EXCEPT !.at = at])

\* Recalculates, and then goes on as the second argument says.
Counts(x, then) == Goes(x, [actor[x] EXCEPT !.at = "count", !.then = then])

\* A request that has to recalculate.
Clerk(then) == [at |-> "count", then |-> then, status |-> "none", doubt |-> FALSE]

\* A worker: whether the job is still its own and whether it is in the try of
\* process, the page and the unit it works on, the stores of the page that are
\* left, the answer, the stores that it accepts and those of which it does not
\* say, or not clearly, what became of them, failures in a row.
Fresh ==
  [at |-> "read", own |-> TRUE, try |-> FALSE, page |-> {}, rest |-> {}, unit |-> {},
   reply |-> "none", ok |-> {}, mute |-> {}, misses |-> 0,
   then |-> "none", status |-> "none", doubt |-> FALSE]

\* A worker that calls onFailed has no job any more.
Handler == [Fresh EXCEPT !.at = "onFailed", !.own = FALSE]

\* History: an execution that had ended is made active again by x, a request or a
\* worker that does not own the job, so that nobody need end it; or it ends.
Orphaned(x) ==
  orphan' = (exec' \in Active /\ (orphan \/ (exec \notin Active /\ ~ (x \in Workers /\ actor[x].own))))

\* The worker leaves the lock, when it has it, and its job, when it is its own.
Leaves(w, state, jobState) ==
  /\ lock' = [lock EXCEPT ![host[w]] = IF @ = w THEN NoOne ELSE @]
  /\ Goes(w, state)
  /\ job' = IF actor[w].own THEN jobState ELSE job

Completes(w) == Leaves(w, Idle, "completed") /\ UNCHANGED <<tries, stalls>>

\* The attempt fails: after the last one onFailed is called.
FailsJob(w) ==
  LET last == actor[w].own /\ tries + 1 >= Attempts IN
  /\ Leaves(w, IF last THEN Handler ELSE Idle,
            IF last THEN "failed" ELSE "waiting")
  /\ tries' = IF actor[w].own THEN tries + 1 ELSE tries
  /\ UNCHANGED stalls

-----------------------------------------------------------------------------
(* recalculate, in two steps: it reads the row and the items, then writes   *)
(* the status, whatever the row has become.                                 *)

Verdict ==
  IF With(Settled) # Items THEN exec
  ELSE IF cancel \/ With({"cancelled"}) # {} THEN "cancelled"
  ELSE IF With({"success"}) = Items THEN "done"
  ELSE IF With({"success"}) # {} THEN "partial_success" ELSE "failed"

Count(x) ==
  /\ actor[x].at = "count"
  /\ Goes(x, [actor[x] EXCEPT !.at = "write", !.status = Verdict,
                              !.doubt = With({"unconfirmed"}) # {}])
  /\ UNCHANGED <<action, exec, cancel, item, queue, host, up, lock, world, orphan, events>>

\* Mutant: an execution with items in doubt goes on.
WhatNextTrusting(x) ==
  LET status == actor[x].status IN
  IF status \notin Active THEN "done" ELSE IF cancel THEN "cancel" ELSE "allow"

\* Where a worker goes on after it has recovered the execution.
WhatNext(x) ==
  IF actor[x].status \notin Active THEN "done"
  ELSE IF actor[x].doubt THEN "stop"
  ELSE IF cancel THEN "cancel" ELSE "allow"

Write(x) ==
  LET then == actor[x].then IN
  /\ actor[x].at = "write"
  /\ exec' = actor[x].status
  /\ Goes(x, IF then = "idle" THEN Idle
             ELSE [actor[x] EXCEPT !.at = IF then = "decide" THEN WhatNext(x) ELSE then,
                                   !.then = "none", !.status = "none", !.doubt = FALSE])
  /\ Orphaned(x)
  /\ UNCHANGED <<action, cancel, item, queue, host, up, lock, world, events>>

-----------------------------------------------------------------------------
(* The requests.                                                           *)

Enqueue ==
  /\ actor[Creator].at = "adding"
  /\ job' = IF job = "absent" THEN "waiting" ELSE job
  /\ \/ Goes(Creator, Idle) /\ UNCHANGED events
     \/ Moves(Creator, "failing") /\ Spend
  /\ UNCHANGED <<action, exec, cancel, item, tries, stalls, host, up, lock, world, orphan>>

EnqueueFails ==
  /\ actor[Creator].at = "adding" /\ Spend
  /\ Moves(Creator, "failing")
  /\ UNCHANGED <<action, exec, cancel, item, queue, host, up, lock, world, orphan>>

\* queue.add has thrown: what is pending fails, and so does the execution,
\* whatever became of the job.
GiveUp ==
  /\ actor[Creator].at = "failing"
  /\ item' = Marked(Items, {"pending"}, "failed")
  /\ exec' = "failed"
  /\ Goes(Creator, Clerk("idle"))
  /\ Orphaned(Creator)
  /\ UNCHANGED <<action, cancel, queue, host, up, lock, world, events>>

\* An execution that has not begun is cancelled at once; one that runs is asked
\* to stop.
Cancel ==
  /\ actor[Canceller] = Idle /\ host[Canceller] \in up /\ exec \in Active /\ ~ cancel
  /\ cancel' = TRUE
  /\ \/ /\ exec = "pending"
        /\ exec' = "cancelled" /\ item' = Marked(Items, {"pending"}, "cancelled")
        /\ Goes(Canceller, Clerk("unqueue"))
     \/ exec = "running" /\ UNCHANGED <<exec, item, actor>>
  /\ Orphaned(Canceller)
  /\ UNCHANGED <<action, queue, host, up, lock, world, events>>

\* (A job of the recovery has another id and is not found.)
Unqueue ==
  /\ actor[Canceller].at = "unqueue"
  /\ \/ job = "waiting" /\ job' = "absent" /\ orphan' = (orphan \/ exec \in Active)
     \/ UNCHANGED <<job, orphan>>
  /\ Goes(Canceller, Idle)
  /\ UNCHANGED <<action, exec, cancel, item, tries, stalls, host, up, lock, world, events>>

-----------------------------------------------------------------------------
(* A worker begins: process.                                               *)

Take(w) ==
  /\ actor[w] = Idle /\ host[w] \in up /\ job = "waiting"
  /\ job' = "active" /\ Goes(w, Fresh)
  /\ UNCHANGED <<action, exec, cancel, item, tries, stalls, host, up, lock, world, orphan, events>>

\* withLock does not wait: while another works on the application it throws.
Lock(w) ==
  /\ actor[w].at = "read"
  /\ \/ exec \notin Active /\ Completes(w)
     \/ /\ exec \in Active /\ lock[host[w]] = NoOne
        /\ lock' = [lock EXCEPT ![host[w]] = w]
        /\ Moves(w, "recover") /\ UNCHANGED queue
     \/ exec \in Active /\ lock[host[w]] # NoOne /\ FailsJob(w)
  /\ UNCHANGED <<action, exec, cancel, item, host, up, world, orphan, events>>

\* Mutant: what was submitted is tried again.
RecoverAll(w) ==
  /\ actor[w].at = "recover" /\ exec \in Active
  /\ item' = Marked(Items, {"processing", "submitting"}, "pending")
  /\ Counts(w, "decide") /\ UNCHANGED <<queue, lock>>
  /\ UNCHANGED <<action, exec, cancel, host, up, world, orphan, events>>

\* What another worker left in processing is pending again; what it had
\* submitted is in doubt.
Recover(w) ==
  /\ actor[w].at = "recover"
  /\ \/ exec \notin Active /\ Completes(w) /\ UNCHANGED item
     \/ /\ exec \in Active
        /\ item' = [s \in Items |-> CASE item[s] = "processing" -> "pending"
                                    [] item[s] = "submitting" -> "unconfirmed"
                                    [] OTHER -> item[s]]
        /\ Counts(w, "decide") /\ UNCHANGED <<queue, lock>>
  /\ UNCHANGED <<action, exec, cancel, host, up, world, orphan, events>>

\* assertDurableRuntimeAllowed: the application or a switch has changed.
Allow(w) ==
  /\ actor[w].at = "allow"
  /\ \/ exec' = "running" /\ Goes(w, [actor[w] EXCEPT !.at = "loop", !.try = TRUE]) /\ UNCHANGED item
     \/ item' = SafelyFailed({"pending", "processing"}) /\ Counts(w, "done") /\ UNCHANGED exec
  /\ Orphaned(w)
  /\ UNCHANGED <<action, cancel, queue, host, up, lock, world, events>>

\* stopSafeRemaining
Stop(w) ==
  /\ actor[w].at = "stop"
  /\ item' = Marked(Items, {"pending", "processing"}, "failed")
  /\ Counts(w, "done")
  /\ UNCHANGED <<action, exec, cancel, queue, host, up, lock, world, orphan, events>>

\* cancelRemaining
CancelRest(w) ==
  /\ actor[w].at = "cancel"
  /\ item' = Marked(Items, {"pending", "processing"}, "cancelled")
  /\ Counts(w, "done")
  /\ UNCHANGED <<action, exec, cancel, queue, host, up, lock, world, orphan, events>>

\* The delivery is over: with two backends a worker of the other one may still
\* have items, or have ended what this one has just made active.
Done(w) ==
  /\ actor[w].at = "done"
  /\ Completes(w)
  /\ orphan' = (orphan \/ (~ OneProcess /\ actor[w].own /\ exec \in Active))
  /\ UNCHANGED <<action, exec, cancel, item, host, up, world, events>>

-----------------------------------------------------------------------------
(* A worker works: processBind, processUnbind.                             *)

\* cancelIfRequested, and then the pending items of a batch or a page are read.
\* (Bind goes up and Unbind goes down: the order is left open.)
Select(w) ==
  /\ actor[w].at = "loop"
  /\ \/ cancel /\ Moves(w, "cancel")
     \/ ~ cancel /\ With({"pending"}) = {} /\ Counts(w, "done")
     \/ /\ ~ cancel
        /\ \E B \in Batches :
             LET page == B \cap With({"pending"}) IN
             /\ page # {}
             /\ Goes(w, [actor[w] EXCEPT !.at = "claim", !.page = page,
                                         !.unit = IF action = "bind" THEN page ELSE {}])
  /\ UNCHANGED <<action, exec, cancel, item, queue, host, up, lock, world, orphan, events>>

Claim(w) ==
  /\ actor[w].at = "claim"
  /\ item' = Marked(actor[w].page, {"pending"}, "processing")
  /\ Moves(w, IF action = "bind" THEN "submit" ELSE "verify")
  /\ UNCHANGED <<action, exec, cancel, queue, host, up, lock, world, orphan, events>>

\* Where the worker goes after n more failures.
After(w, n, then) == IF actor[w].misses + n >= Patience THEN "stop" ELSE then

\* verifyDurableUnbindPage: the page cannot be read, or some stores of it are
\* not bound as they should be.
Verify(w) ==
  LET page == actor[w].page IN
  /\ actor[w].at = "verify"
  /\ \E good \in SUBSET page :
       /\ item' = Marked(page \ good, {"processing"}, "failed")
       /\ \/ Goes(w, [actor[w] EXCEPT !.at = "next", !.rest = good])
          \/ /\ good = {}
             /\ Goes(w, [actor[w] EXCEPT !.at = "count", !.page = {}, !.misses = @ + Cardinality(page),
                                         !.then = After(w, Cardinality(page), "loop")])
  /\ UNCHANGED <<action, exec, cancel, queue, host, up, lock, world, orphan, events>>

\* The next store of the page to unbind; at its end nothing is left in processing.
NextStore(w) ==
  /\ actor[w].at = "next"
  /\ \/ cancel /\ Moves(w, "cancel") /\ UNCHANGED item
     \/ /\ ~ cancel /\ UNCHANGED item
        /\ \E s \in actor[w].rest :
             Goes(w, [actor[w] EXCEPT !.at = "submit", !.unit = {s}, !.rest = @ \ {s}])
     \/ /\ actor[w].rest = {}
        /\ item' = Marked(actor[w].page, {"processing"}, "failed")
        /\ Goes(w, [actor[w] EXCEPT !.at = "count", !.then = "loop", !.page = {}])
  /\ UNCHANGED <<action, exec, cancel, queue, host, up, lock, world, orphan, events>>

\* The service refuses before it has begun: the mappings or a switch changed.
Refused(w) ==
  /\ actor[w].at = "submit"
  /\ item' = Marked(actor[w].unit, {"processing"}, "failed")
  /\ LET failed == [actor[w] EXCEPT !.unit = {}, !.misses = @ + 1] IN
     Goes(w, IF action = "bind" THEN [failed EXCEPT !.at = "count", !.then = After(w, 1, "loop")]
             ELSE [failed EXCEPT !.at = After(w, 1, "next")])
  /\ UNCHANGED <<action, exec, cancel, queue, host, up, lock, world, orphan, events>>

\* beforeSubmit: all items of the unit go from processing to submitting, or no
\* POST is sent; a token or a mapping may be missing before that.
Submit(w) ==
  LET unit == actor[w].unit IN
  /\ actor[w].at = "submit"
  /\ \/ /\ item' = Marked(unit, {"processing"}, "submitting")
        /\ IF unit \subseteq With({"processing"}) THEN Moves(w, "post")
           ELSE Goes(w, [actor[w] EXCEPT !.at = "persist", !.reply = "unsent"])
     \/ Goes(w, [actor[w] EXCEPT !.at = "persist", !.reply = "unsent"]) /\ UNCHANGED item
  /\ UNCHANGED <<action, exec, cancel, queue, host, up, lock, world, orphan, events>>

\* The POST: DiDi does some of it, and says what it has done, of all stores, of
\* some, or of none.  Or it asks to wait, which changes nothing: the service is
\* not patient for ever, or, for Bind, may not ask again.
Post(w) ==
  LET unit == actor[w].unit IN
  /\ actor[w].at = "post"
  /\ \/ /\ posted' = [s \in Shops |-> posted[s] + (IF s \in unit THEN 1 ELSE 0)]
        /\ \E done, mute \in SUBSET unit :
             /\ applied' = applied \cup done
             /\ Goes(w, [actor[w] EXCEPT !.at = "persist", !.reply = "told",
                                         !.ok = done \ mute, !.mute = mute])
     \/ /\ \E reply \in {"throttled", "unsent"} :
             /\ reply = "unsent" => action = "bind"
             /\ Goes(w, [actor[w] EXCEPT !.at = "persist", !.reply = reply])
        /\ UNCHANGED world
  /\ UNCHANGED <<action, exec, cancel, item, queue, host, up, lock, orphan, events>>

\* Mutant: a store that the answer leaves out has failed.
ResultHarsh(w, s) == IF s \in actor[w].ok THEN "success" ELSE "failed"

\* What becomes of a store: of one that the answer leaves out, or names twice,
\* nothing is known.
Result(w, s) ==
  IF s \in actor[w].mute THEN "unconfirmed"
  ELSE IF s \in actor[w].ok THEN "success" ELSE "failed"

\* persistResults
Persist(w) ==
  /\ actor[w].at = "persist"
  /\ item' = [s \in Items |-> IF s \in actor[w].unit /\ item[s] = "submitting"
                              THEN Result(w, s) ELSE item[s]]
  /\ Moves(w, "dangling")
  /\ UNCHANGED <<action, exec, cancel, queue, host, up, lock, world, orphan, events>>

\* finalizeDanglingBoundaries
Dangling(w) ==
  LET unit == actor[w].unit IN
  /\ actor[w].at = "dangling"
  /\ item' = [s \in Items |-> CASE s \in unit /\ item[s] = "processing" -> "failed"
                                [] s \in unit /\ item[s] = "submitting" -> "unconfirmed"
                                [] OTHER -> item[s]]
  /\ Counts(w, "judge")
  /\ UNCHANGED <<action, exec, cancel, queue, host, up, lock, world, orphan, events>>

\* Mutant: only when nothing was heard of the whole unit.
DoubtfulWhole(w) == actor[w].mute = actor[w].unit

\* Some store of the unit is in doubt.
Doubtful(w) == actor[w].mute # {}

\* After a unit: stop when DiDi throttles or a store of it is in doubt, and after
\* too many failures in a row.
Judge(w) ==
  LET a    == actor[w]
      then == IF action = "bind" THEN "loop" ELSE "next"
      well == IF action = "bind" THEN a.ok # {} ELSE a.reply = "told"
      rest == [a EXCEPT !.unit = {}, !.reply = "none", !.ok = {}, !.mute = {}]
  IN
  /\ a.at = "judge"
  /\ IF a.reply = "throttled" \/ Doubtful(w) THEN Goes(w, [rest EXCEPT !.at = "stop"])
     ELSE IF well THEN Goes(w, [rest EXCEPT !.at = then, !.misses = 0])
     ELSE Goes(w, [rest EXCEPT !.at = After(w, 1, then), !.misses = @ + 1])
  /\ UNCHANGED <<action, exec, cancel, item, queue, host, up, lock, world, orphan, events>>

-----------------------------------------------------------------------------
(* What goes wrong.                                                        *)

\* Its own recalculation, after the catch or in onFailed, is not tried again.
Counting(w) == actor[w].at \in {"count", "write"}
Closing(w) == actor[w].at = "onFailed" \/ (Counting(w) /\ actor[w].then = "idle")

\* A call fails: in the try, process writes down what is safe and what is in
\* doubt, and throws; before it, or when that fails as well, it only throws.  A
\* call of onFailed that fails leaves the execution as it is, without a job.
Throws(w) ==
  /\ actor[w].at \notin {"idle", "read", "done", "throw"} /\ Spend
  /\ \/ /\ actor[w].try
        /\ item' = SafelyFailed({"processing"})
        /\ Goes(w, [actor[w] EXCEPT !.at = "count", !.then = "throw", !.try = FALSE])
        /\ UNCHANGED <<queue, lock>>
     \/ FailsJob(w) /\ UNCHANGED item
  /\ orphan' = (orphan \/ (Closing(w) /\ exec \in Active))
  /\ UNCHANGED <<action, exec, cancel, host, up, world>>

Thrown(w) ==
  /\ actor[w].at = "throw"
  /\ FailsJob(w)
  /\ UNCHANGED <<action, exec, cancel, item, host, up, world, orphan, events>>

\* onFailed, when the job will not be tried again: failSafeItems.
OnFailed(w) ==
  /\ actor[w].at = "onFailed"
  /\ item' = SafelyFailed({"pending", "processing"})
  /\ Counts(w, "idle")
  /\ UNCHANGED <<action, exec, cancel, queue, host, up, lock, world, orphan, events>>

\* A worker cannot renew the lock of its job, and does not know.
LoseLock(w) ==
  /\ actor[w].at \notin {"idle", "onFailed"} /\ actor[w].own /\ Spend
  /\ Goes(w, [actor[w] EXCEPT !.own = FALSE])
  /\ UNCHANGED <<action, exec, cancel, item, queue, host, up, lock, world, orphan>>

Owned == \E w \in Workers : actor[w] # Idle /\ actor[w].own

\* A job without its worker is delivered once more; the next time it fails, and
\* the worker that finds it calls onFailed.
Stalled ==
  /\ job = "active" /\ ~ Owned
  /\ IF stalls = 0
     THEN job' = "waiting" /\ stalls' = 1 /\ UNCHANGED actor
     ELSE /\ job' = "failed" /\ UNCHANGED stalls
          /\ \E w \in Workers : /\ actor[w] = Idle /\ host[w] \in up
                                /\ Goes(w, Handler)
  /\ UNCHANGED <<action, exec, cancel, item, tries, host, up, lock, world, orphan, events>>

\* A process dies with the workers, the requests and the lock that are in it.
Die(p) ==
  /\ p \in up /\ Spend
  /\ up' = up \ {p} /\ lock' = [lock EXCEPT ![p] = NoOne]
  /\ actor' = [x \in Actors |-> IF host[x] = p THEN Idle ELSE actor[x]]
  /\ UNCHANGED <<action, exec, cancel, item, queue, host, world, orphan>>

\* Mutant: an execution that has not begun is left to its request.
RestartRunning(p) ==
  /\ p \in Backends \ up
  /\ up' = up \cup {p}
  /\ IF exec = "running" /\ job \in {"absent", "completed", "failed"}
     THEN job' = "waiting" /\ tries' = 0 /\ stalls' = 0 /\ orphan' = FALSE
     ELSE UNCHANGED <<queue, orphan>>
  /\ UNCHANGED <<action, exec, cancel, item, actor, host, lock, world, events>>

\* onModuleInit: an execution that is active gets a job, unless it has one that
\* is not over.
Restart(p) ==
  /\ p \in Backends \ up
  /\ up' = up \cup {p}
  /\ IF exec \in Active /\ job \in {"absent", "completed", "failed"}
     THEN job' = "waiting" /\ tries' = 0 /\ stalls' = 0 /\ orphan' = FALSE
     ELSE UNCHANGED <<queue, orphan>>
  /\ UNCHANGED <<action, exec, cancel, item, actor, host, lock, world, events>>

-----------------------------------------------------------------------------

Ask == Enqueue \/ GiveUp \/ Unqueue \/ Count(Creator) \/ Write(Creator) \/ Count(Canceller) \/ Write(Canceller)

Work(w) ==
  \/ Lock(w) \/ Recover(w) \/ Count(w) \/ Write(w) \/ Allow(w) \/ Stop(w) \/ CancelRest(w) \/ Done(w)
  \/ Select(w) \/ Claim(w) \/ Verify(w) \/ NextStore(w) \/ Refused(w) \/ Submit(w) \/ Post(w)
  \/ Persist(w) \/ Dangling(w) \/ Judge(w) \/ Thrown(w) \/ OnFailed(w)

Next ==
  \/ Ask \/ EnqueueFails \/ Cancel
  \/ \E w \in Workers : Take(w) \/ Work(w) \/ Throws(w) \/ LoseLock(w)
  \/ Stalled
  \/ \E p \in Processes : Die(p) \/ Restart(p)

\* Requests and workers go on, jobs are delivered, processes are started again.
Fairness ==
  /\ WF_vars(Enqueue \/ GiveUp \/ Count(Creator) \/ Write(Creator))
  /\ WF_vars(Unqueue \/ Count(Canceller) \/ Write(Canceller))
  /\ WF_vars(\E w \in Workers : Take(w)) /\ WF_vars(Stalled)
  /\ \A w \in Workers : WF_vars(Work(w))
  /\ \A p \in Processes : WF_vars(Restart(p))

Spec == Init /\ [][Next]_vars /\ Fairness

-----------------------------------------------------------------------------
(* Properties.                                                             *)

Trying == {"loop", "claim", "verify", "next", "submit", "post", "persist", "dangling", "judge", "stop",
           "cancel"}
Places == Trying \cup {"idle", "read", "recover", "count", "write", "allow", "done", "throw", "onFailed",
                       "adding", "failing", "unqueue"}

\* Type correctness of the rows, the job and the actors.
TypeOK ==
  /\ action \in {"bind", "unbind"} /\ cancel \in BOOLEAN
  /\ exec \in Active \cup {"done", "partial_success", "failed", "cancelled"}
  /\ Items \subseteq Shops
  /\ item \in [Items -> {"pending", "processing", "submitting"} \cup Settled]
  /\ job \in {"absent", "waiting", "active", "completed", "failed"}
  /\ tries \in 0..Attempts /\ stalls \in 0..1 /\ events \in 0..MaxEvents
  /\ \A x \in Actors : actor[x].at \in Places
  /\ host \in [Actors -> Processes] /\ up \subseteq Backends
  /\ lock \in [Processes -> Workers \cup {NoOne}]
  /\ posted \in [Shops -> Nat] /\ applied \subseteq Shops /\ orphan \in BOOLEAN

\* No store is submitted to DiDi twice, whoever dies or is delivered again, not
\* even by workers of two processes that share no lock.
PostedOnce == \A s \in Shops : posted[s] <= 1

\* The record is true: what is recorded as done was done by DiDi, and what is
\* recorded as failed or cancelled was not, though jobs stall under workers that
\* go on, answers are lost in whole or in part and the process dies.
RecordIsTrue ==
  OneProcess =>
    \A s \in Items : /\ item[s] = "success" => s \in applied
                     /\ item[s] \in {"failed", "cancelled"} => s \notin applied

\* Once a store is in doubt no other store is submitted, in this delivery of the
\* job or a later one.
DoubtStops ==
  [][\A s \in Items : OneProcess /\ item'[s] = "submitting" /\ item[s] # "submitting" =>
       With({"unconfirmed"}) = {}]_vars

\* The execution ends for good, with every item settled.
AlwaysEnds == <>[](exec \notin Active /\ With(Settled) = Items)

\* Every execution ends for good, though its job, its worker or its process is
\* lost, and with every item settled unless it has failed.  Excepted is one that is
\* active with no job that need end it, until a backend starts and queues it:
\*  - a request, or a worker that had lost its job, has made it active again with a
\*    status read before it ended, also after onFailed has ended it;
\*  - the cancelling request removes its job when it is active again;
\*  - a call of onFailed fails;
\*  - of two backends, a worker of one completes the job while it is active, and
\*    what is left is with a worker of the other that may have lost its job.
BindingEnds ==
  \/ <>[](exec \notin Active /\ (With(Settled) = Items \/ exec = "failed"))
  \/ <>[]orphan
=============================================================================
