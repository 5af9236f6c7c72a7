------------------------ MODULE StoreEmergencyProofs ------------------------
(***************************************************************************)
(* Proofs about StoreEmergency: what its invariants rest on, that they     *)
(* hold, and that it implements GuardedStores.                             *)
(*                                                                         *)
(* The invariant says of each emergency what its row, its targets and the  *)
(* request behind it have to do with each other (Emergency), of each job   *)
(* what its worker may rely on (Worked), and of the brand's lock that      *)
(* nobody who holds it to open a store does so against a live emergency    *)
(* (Permits).                                                              *)
(***************************************************************************)
EXTENDS StoreEmergency, TLAPS

Actions == {"offline", "restore"}
Statuses == {"none"} \cup LiveStatus \cup Ended

EmergencyRow == [status : Statuses, all : BOOLEAN, finished : BOOLEAN, due : BOOLEAN, fresh : BOOLEAN]
Waiting == [phase : {"queued", "claimed"}, em : Emergencies, action : Actions]
Working == [phase : {"working"}, em : Emergencies, action : Actions, todo : SUBSET Shops]
Ending == [phase : {"settling"}, em : Emergencies, action : Actions, status : Statuses]
Steps == {"idle", "claimed", "writing", "confirmed", "refused"}

Types ==
  /\ known \subseteq Shops /\ later \subseteq Shops \ known
  /\ em \in [Emergencies -> EmergencyRow]
  /\ target \in [Emergencies -> [Shops -> TargetRow]]
  /\ job \in [Jobs -> {Free} \cup Waiting \cup Working \cup Ending]
  /\ at \in [Jobs -> [Shops -> Steps]]
  /\ used \subseteq Emergencies
  /\ recon \in [Emergencies -> [step : {"idle", "owned", "writing"}, shop : Shops \cup {Nobody}]]
  /\ opener \in [Openers -> Shops \cup {Nobody}]
  /\ store \in [Shops -> [open : BOOLEAN, by : Emergencies \cup {Staff, Opener}]]
  /\ closedBy \in [Shops -> Emergencies \cup {Nobody}]
  /\ events \in 0..MaxEvents
  /\ DOMAIN request = Emergencies

-----------------------------------------------------------------------------
(* The invariant.                                                          *)

Closing == InShutdown \cup InPlace
Giving == {"restoring", "restored", "partial_restored", "restore_failed"}

\* Nobody but the staff of the store has opened it.
Shut(s) == ~ store[s].open \/ store[s].by = Staff

\* The target says that its store has to be reopened.
Owns(t) == Owned(t) \/ (t.offline = "done" /\ t.restore = "pending")

\* A transition that may still be taken back: to the state before a shutdown
\* that closed nothing, to the one before a restoration, or before its retry.
Hopeful(e) == em[e].fresh /\ \/ request[e].kind = "create"
                             \/ request[e].kind = "retry" /\ request[e].before = "failed"
Returning(e) == em[e].fresh /\ request[e].kind = "restore"
Again(e) == em[e].fresh /\ request[e].kind = "retry" /\ request[e].action = "restore"

\* What a request knows of its transition as long as nobody has written the row.
Asked(e) ==
  LET r == request[e]  st == em[e].status IN
  /\ r # NoRequest => /\ r.kind \in {"create", "restore", "retry"} /\ r.action \in Actions
                      /\ r.kind = "retry" => r.taken \subseteq Shops /\ r.was \subseteq Shops
                      /\ st # "none"
  /\ em[e].fresh =>
       \/ r.kind = "create" /\ st = "pending"
       \/ r.kind = "restore" /\ st = "restoring" /\ r.before \in InPlace
       \/ /\ r.kind = "retry" /\ r.action = "offline" /\ st = "pending"
          /\ \/ r.before = "failed" /\ r.ended = TRUE
             \/ r.before = "partial_success" /\ r.ended = FALSE
       \/ /\ r.kind = "retry" /\ r.action = "restore" /\ st = "restoring"
          /\ r.before \in {"restore_failed", "partial_restored"} /\ r.ended = TRUE
          /\ \A s \in Shops : s \in r.was => target[e][s].offline = "done" \/ target[e][s].tried

\* The row and its targets.
Marked(e, s) ==
  LET t == target[e][s]  st == em[e].status IN
  /\ IF t.offline = "absent" THEN t.restore = "not_required" ELSE s \in known /\ st # "none"
  /\ t.offline = "running" => st \in InShutdown /\ ~ em[e].fresh
  /\ t.restore = "running" => t.tried
  /\ st = "failed" \/ Hopeful(e) => t.offline # "done"
  /\ (st \in Closing \/ Returning(e)) /\ t.offline = "done" => Shut(s)

\* What is known of a store that the emergency has closed.
Closes(e, s) ==
  LET t == target[e][s]  st == em[e].status IN
  closedBy[s] = e =>
    /\ t.offline # "absent"
    /\ st \notin {"none", "failed", "restored"} /\ ~ Hopeful(e)
    /\ Owns(t) \/ (t.restore = "failed" /\ (t.offline = "done" \/ t.tried))
    /\ st \in Closing \/ Returning(e) => Owns(t)
    /\ st \in Ended \/ Again(e) => t.restore # "pending"

\* A reconciliation writes what it has marked.
Reconciles(e) ==
  LET s == recon[e].shop IN
  /\ recon[e].step # "idle" => s \in Shops /\ target[e][s].offline # "absent"
  /\ recon[e].step = "writing" => /\ em[e].status \in InPlace
                                  /\ target[e][s].restore = "required" /\ target[e][s].lease = "recon"

Emergency(e) ==
  /\ em[e].finished <=> em[e].status \in Ended
  /\ Asked(e)
  /\ \A s \in Shops : Marked(e, s) /\ Closes(e, s)

Started(j) == job[j].phase \in {"claimed", "working", "settling"}

\* The job and its emergency.
Worked(j) ==
  LET e == job[j].em  st == em[e].status IN
  /\ job[j].phase # "free" => st # "none"
  /\ Started(j) /\ job[j].action = "restore" => st \in Giving /\ ~ Returning(e)
  /\ job[j].phase = "settling" /\ job[j].action = "offline" /\ st \in InShutdown =>
       /\ \A s \in Shops : target[e][s].offline \notin InShutdown
       /\ job[j].status = ShutdownStatus(target[e])
  /\ job[j].phase = "settling" /\ job[j].action = "restore" /\ st = "restoring" =>
       /\ \A s \in Shops : ~ Reopens(target[e][s]) /\ target[e][s].restore # "running"
       /\ job[j].status = RestoreStatus(target[e])

\* Where its worker is with a target.
Handles(j, s) ==
  LET e == job[j].em  t == target[e][s]  st == em[e].status IN
  /\ at[j][s] # "idle" => job[j].phase = "working"
  /\ at[j][s] = "writing" /\ job[j].action = "offline" =>
       st = "running" /\ t.offline = "running" /\ t.restore = "required" /\ t.lease = j
  /\ at[j][s] = "writing" /\ job[j].action = "restore" =>
       st = "restoring" /\ ~ em[e].fresh /\ t.restore = "running" /\ t.lease = j
  /\ at[j][s] = "confirmed" /\ job[j].action = "offline" =>
       (t.offline = "running" /\ t.lease = j => Shut(s))
  /\ at[j][s] = "confirmed" /\ job[j].action = "restore" => closedBy[s] # e

\* No live emergency but its own stands against an opening.
Permits ==
  /\ \A o \in Openers, d \in Emergencies : opener[o] # Nobody /\ Live(d) => ~ Covers(d, opener[o])
  /\ \A j \in Jobs, s \in Shops, d \in Emergencies :
       at[j][s] = "writing" /\ job[j].action = "restore" /\ d # job[j].em /\ Live(d) => ~ Covers(d, s)

EmergencyInv ==
  /\ Types
  /\ \A e \in Emergencies : Emergency(e) /\ Reconciles(e)
  /\ \A j \in Jobs : Worked(j) /\ \A s \in Shops : Handles(j, s)
  /\ Permits

-----------------------------------------------------------------------------
(* What a step leaves alone.                                               *)

\* The row of d is at most looked at: its status stays, a request behind it is
\* at most forgotten.
Calm(d) ==
  /\ target'[d] = target[d]
  /\ em'[d].status = em[d].status /\ em'[d].finished = em[d].finished
  /\ em'[d].fresh => em[d].fresh /\ request'[d] = request[d]
  /\ request'[d] = request[d] \/ request'[d] = NoRequest

\* No store is opened, and none is closed by d.
Quiet(d) ==
  /\ known \subseteq known'
  /\ \A s \in Shops : /\ Shut(s) => Shut(s)'
                      /\ closedBy'[s] = d => closedBy[s] = d

LEMMA CalmEmergency ==
  ASSUME EmergencyInv, NEW d \in Emergencies, Calm(d), Quiet(d)
  PROVE  Emergency(d)'
<1>1. Emergency(d)
  BY DEF EmergencyInv
<1>2. /\ (em[d].finished <=> em[d].status \in Ended)'
      /\ Hopeful(d)' => Hopeful(d)
      /\ Returning(d)' => Returning(d)
      /\ Again(d)' => Again(d)
  BY <1>1 DEF Emergency, Calm, Hopeful, Returning, Again
<1>3. Asked(d)'
  BY <1>1 DEF Emergency, Calm, Asked
<1>4. ASSUME NEW s \in Shops PROVE Marked(d, s)' /\ Closes(d, s)'
  <2>1. Marked(d, s) /\ Closes(d, s)
    BY <1>1 DEF Emergency
  <2>2. Marked(d, s)'
    BY <1>2, <2>1 DEF Calm, Quiet, Marked
  <2>3. Closes(d, s)'
    BY <1>2, <2>1 DEF Calm, Quiet, Closes
  <2> QED
    BY <2>2, <2>3
<1> QED
  BY <1>2, <1>3, <1>4 DEF Emergency

LEMMA JobOf ==
  ASSUME Types, NEW j \in Jobs, job[j].phase # "free"
  PROVE  job[j].em \in Emergencies /\ job[j].action \in Actions
BY DEF Types, Free, Waiting, Working, Ending

LEMMA CalmWorked ==
  ASSUME EmergencyInv, NEW j \in Jobs, job'[j] = job[j], job[j].phase # "free" => Calm(job[j].em)
  PROVE  Worked(j)'
<1>1. CASE job[j].phase = "free"
  BY <1>1 DEF Worked, Started
<1>2. CASE job[j].phase # "free"
  <2>1. Worked(j) /\ Calm(job[j].em)
    BY <1>2 DEF EmergencyInv
  <2>2. Returning(job[j].em)' => Returning(job[j].em)
    BY <2>1 DEF Calm, Returning
  <2> QED
    BY <2>1, <2>2 DEF Worked, Started, Calm, Returning
<1> QED
  BY <1>1, <1>2

LEMMA CalmHandles ==
  ASSUME EmergencyInv, NEW j \in Jobs, NEW s \in Shops, job'[j] = job[j], at'[j][s] = at[j][s],
         job[j].phase # "free" => Calm(job[j].em) /\ Quiet(job[j].em)
  PROVE  Handles(j, s)'
<1>1. Handles(j, s)
  BY DEF EmergencyInv
<1>2. CASE at[j][s] = "idle"
  BY <1>1, <1>2 DEF Handles
<1>3. CASE at[j][s] # "idle"
  <2>1. job[j].phase = "working"
    BY <1>1, <1>3 DEF Handles
  <2>2. Calm(job[j].em) /\ Quiet(job[j].em)
    BY <2>1
  <2> QED
    BY <1>1, <2>1, <2>2 DEF Handles, Calm, Quiet
<1> QED
  BY <1>2, <1>3

LEMMA CalmReconciles ==
  ASSUME EmergencyInv, NEW d \in Emergencies, Calm(d), recon'[d] = recon[d] \/ recon'[d] = NoRecon
  PROVE  Reconciles(d)'
BY DEF EmergencyInv, Reconciles, Calm, NoRecon

\* Nobody comes to protect a store, and nobody comes to open one.
LEMMA PermitsStay ==
  ASSUME EmergencyInv,
         \A d \in Emergencies : (em'[d].status \in LiveStatus /\ ~ em'[d].finished)
                                  => em[d].status \in LiveStatus /\ ~ em[d].finished,
         \A d \in Emergencies, s \in Shops : em'[d].all \/ target'[d][s].offline # "absent"
                                  => em[d].all \/ target[d][s].offline # "absent",
         \A o \in Openers : opener'[o] = opener[o] \/ opener'[o] = Nobody,
         \A j \in Jobs, s \in Shops : at'[j][s] = "writing" /\ job'[j].action = "restore" =>
            at[j][s] = "writing" /\ job[j].action = "restore" /\ job'[j].em = job[j].em
  PROVE  Permits'
<1>1. \A d \in Emergencies : Live(d)' => Live(d)
  BY DEF Live
<1>2. \A d \in Emergencies, s \in Shops : Covers(d, s)' => Covers(d, s)
  BY DEF Covers, Targets
<1>3. Permits /\ opener \in [Openers -> Shops \cup {Nobody}]
  BY DEF EmergencyInv, Types
<1> QED
  BY <1>1, <1>2, <1>3 DEF Permits

\* An emergency is live while its status says so.
LEMMA LiveStatuses ==
  ASSUME EmergencyInv, NEW d \in Emergencies
  PROVE  Live(d) <=> em[d].status \in LiveStatus
<1>1. em[d].finished <=> em[d].status \in Ended
  BY DEF EmergencyInv, Emergency
<1> QED
  BY <1>1 DEF Live, LiveStatus, Ended, InShutdown, InPlace

LEMMA ShutdownStatuses ==
  ASSUME NEW T
  PROVE  /\ ShutdownStatus(T) \in {"offline", "partial_success", "failed"}
         /\ ShutdownStatus(T) = "failed" =>
              \A s \in Shops : T[s].offline # "absent" => T[s].offline # "done" /\ ~ Owned(T[s])
BY DEF ShutdownStatus

LEMMA RestoreStatuses ==
  ASSUME NEW T
  PROVE  /\ RestoreStatus(T) \in {"restored", "partial_restored", "restore_failed"}
         /\ RestoreStatus(T) = "restored" =>
              \A s \in Shops : T[s].restore \in {"required", "running", "failed"} => FALSE
BY DEF RestoreStatus

-----------------------------------------------------------------------------
(* Steps that only look at the rows.                                       *)

LEMMA HeartbeatCalms ==
  ASSUME EmergencyInv, NEW j \in Jobs, job[j].phase # "free", Heartbeat(j)
  PROVE  /\ em' \in [Emergencies -> EmergencyRow]
         /\ \A d \in Emergencies : /\ em'[d].status = em[d].status
                                   /\ em'[d].finished = em[d].finished
                                   /\ em'[d].all = em[d].all
                                   /\ em'[d].fresh => em[d].fresh
<1>1. em \in [Emergencies -> EmergencyRow] /\ job[j].em \in Emergencies
  BY JobOf DEF EmergencyInv, Types
<1> QED
  BY <1>1, ZenonT(60) DEF Heartbeat, EmergencyRow

\* A step in which nothing of a row changes but that it was looked at.
LEMMA Looks ==
  ASSUME EmergencyInv, Types',
         target' = target, known' = known, store' = store, closedBy' = closedBy,
         \A d \in Emergencies : /\ em'[d].status = em[d].status
                                /\ em'[d].finished = em[d].finished
                                /\ em'[d].all = em[d].all
                                /\ em'[d].fresh => em[d].fresh /\ request'[d] = request[d]
                                /\ request'[d] = request[d] \/ request'[d] = NoRequest
  PROVE  /\ \A d \in Emergencies : Calm(d) /\ Quiet(d) /\ Emergency(d)'
         /\ \A d \in Emergencies : recon'[d] = recon[d] \/ recon'[d] = NoRecon => Reconciles(d)'
         /\ \A j \in Jobs : job'[j] = job[j] => Worked(j)'
         /\ \A j \in Jobs, s \in Shops : job'[j] = job[j] /\ at'[j][s] = at[j][s] => Handles(j, s)'
<1>1. \A d \in Emergencies : Calm(d) /\ Quiet(d)
  BY DEF Calm, Quiet, Shut
<1>2. \A d \in Emergencies : Emergency(d)'
  BY <1>1, CalmEmergency
<1>3. ASSUME NEW j \in Jobs, job[j].phase # "free" PROVE Calm(job[j].em) /\ Quiet(job[j].em)
  BY <1>1, <1>3, JobOf DEF EmergencyInv
<1> QED
  BY <1>1, <1>2, <1>3, CalmReconciles, CalmWorked, CalmHandles

\* A job that ends, or waits in the queue.
LEMMA FreeJob ==
  ASSUME NEW j \in Jobs, job'[j] = Free, \A s \in Shops : at'[j][s] = "idle"
  PROVE  Worked(j)' /\ \A s \in Shops : Handles(j, s)'
BY DEF Worked, Handles, Started, Free

LEMMA QueuedJob ==
  ASSUME NEW j \in Jobs, job'[j].phase = "queued", em'[job'[j].em].status # "none",
         \A s \in Shops : at'[j][s] = "idle"
  PROVE  Worked(j)' /\ \A s \in Shops : Handles(j, s)'
BY DEF Worked, Handles, Started

LEMMA IdleAt ==
  ASSUME EmergencyInv, NEW j \in Jobs, job[j].phase # "working"
  PROVE  \A s \in Shops : at[j][s] = "idle"
BY DEF EmergencyInv, Handles

LEMMA FreePhase == ASSUME Types, NEW j \in Jobs PROVE job[j].phase = "free" <=> job[j] = Free
<1>1. job[j] \in {Free} \cup Waiting \cup Working \cup Ending
  BY DEF Types
<1>2. \A q \in Waiting \cup Working \cup Ending : q.phase # "free"
  BY DEF Waiting, Working, Ending
<1>3. Free.phase = "free"
  BY DEF Free
<1> HIDE DEF Free
<1> QED
  BY <1>1, <1>2, <1>3

\* What queue.add leaves: at most one more job, of this emergency.
LEMMA StoresJob ==
  ASSUME EmergencyInv, NEW e \in Emergencies, request[e] # NoRequest,
         Stored(e) \/ UNCHANGED <<job, used>>
  PROVE  /\ job' \in [Jobs -> {Free} \cup Waiting \cup Working \cup Ending]
         /\ used' \subseteq Emergencies
         /\ \A j \in Jobs : \/ job'[j] = job[j]
                            \/ job[j] = Free /\ job'[j].phase = "queued" /\ job'[j].em = e
<1>1. /\ job \in [Jobs -> {Free} \cup Waiting \cup Working \cup Ending] /\ used \subseteq Emergencies
      /\ request[e].action \in Actions
  BY DEF EmergencyInv, Types, Emergency, Asked
<1>2. CASE UNCHANGED <<job, used>>
  BY <1>1, <1>2
<1>3. CASE Stored(e) /\ ~ UNCHANGED <<job, used>>
  <2>1. used' \subseteq Emergencies
    BY <1>1, <1>3 DEF Stored
  <2>2. PICK j \in Jobs : /\ job[j] = Free
          /\ job' = [job EXCEPT ![j] = [phase |-> "queued", em |-> e, action |-> request[e].action]]
    BY <1>3 DEF Stored
  <2>3. [phase |-> "queued", em |-> e, action |-> request[e].action] \in Waiting
    BY <1>1 DEF Waiting
  <2> QED
    BY <1>1, <2>1, <2>2, <2>3
<1> QED
  BY <1>2, <1>3

\* The permits after a step that starts no write.
LEMMA PermitsKept ==
  ASSUME EmergencyInv, \A d \in Emergencies : em'[d].status = em[d].status /\ em'[d].finished = em[d].finished /\ em'[d].all = em[d].all,
         target' = target, \A o \in Openers : opener'[o] = opener[o] \/ opener'[o] = Nobody,
         \A j \in Jobs, s \in Shops : at'[j][s] = "writing" =>
            at[j][s] = "writing" /\ job'[j].action = job[j].action /\ job'[j].em = job[j].em
  PROVE  Permits'
BY PermitsStay

LEMMA QueuedInv == ASSUME EmergencyInv, NEW e \in Emergencies, Queued(e) PROVE EmergencyInv'
<1>1. /\ request[e] # NoRequest /\ Stored(e) /\ request' = [request EXCEPT ![e] = NoRequest]
      /\ em' = [em EXCEPT ![e].fresh = FALSE]
      /\ UNCHANGED <<known, later, target, at, recon, opener, store, closedBy, events>>
  BY DEF Queued
<1>2. em \in [Emergencies -> EmergencyRow] /\ DOMAIN request = Emergencies
  BY DEF EmergencyInv, Types
<1>3. /\ \A d \in Emergencies : /\ em'[d].status = em[d].status
                                /\ em'[d].finished = em[d].finished
                                /\ em'[d].all = em[d].all
                                /\ em'[d].fresh => em[d].fresh /\ request'[d] = request[d]
                                /\ request'[d] = request[d] \/ request'[d] = NoRequest
      /\ em' \in [Emergencies -> EmergencyRow] /\ DOMAIN request' = Emergencies
  BY <1>1, <1>2 DEF EmergencyRow
<1>4. Types'
  BY <1>1, <1>3, StoresJob DEF EmergencyInv, Types
<1>5. ASSUME NEW j \in Jobs PROVE Worked(j)' /\ \A s \in Shops : Handles(j, s)'
  <2>1. CASE job'[j] = job[j]
    BY <1>1, <1>3, <1>4, <2>1, Looks
  <2>2. CASE job[j] = Free /\ job'[j].phase = "queued" /\ job'[j].em = e
    <3>1. \A s \in Shops : at'[j][s] = "idle"
      BY <1>1, <2>2, IdleAt DEF Free
    <3>2. em'[e].status # "none"
      BY <1>1, <1>3 DEF EmergencyInv, Emergency, Asked
    <3> QED
      BY <2>2, <3>1, <3>2, QueuedJob
  <2> QED
    BY <1>1, <2>1, <2>2, StoresJob
<1>6. Permits'
  <2>1. ASSUME NEW j \in Jobs, NEW s \in Shops, at'[j][s] = "writing"
        PROVE  at[j][s] = "writing" /\ job'[j] = job[j]
    BY <1>1, <2>1, StoresJob, IdleAt DEF Free
  <2> QED
    BY <1>1, <1>3, <2>1, PermitsKept
<1> QED
  BY <1>1, <1>3, <1>4, <1>5, <1>6, Looks DEF EmergencyInv

LEMMA Spends == ASSUME EmergencyInv, Spend PROVE events' \in 0..MaxEvents
<1>1. events \in 0..MaxEvents /\ events' = events + 1 /\ events < MaxEvents /\ MaxEvents \in Nat
  BY EmergencyConstants DEF EmergencyConstants, EmergencyInv, Types, Spend
<1> QED
  BY <1>1

\* Requests that end, and rows that are looked at.
LEMMA RequestDiesInv == ASSUME EmergencyInv, NEW e \in Emergencies, RequestDies(e) PROVE EmergencyInv'
<1>1. /\ request' = [request EXCEPT ![e] = NoRequest]
      /\ em' = [em EXCEPT ![e].fresh = FALSE] /\ events' \in 0..MaxEvents
      /\ UNCHANGED <<known, later, target, job, at, used, recon, opener, store, closedBy>>
  BY Spends DEF RequestDies
<1>2. em \in [Emergencies -> EmergencyRow] /\ DOMAIN request = Emergencies
  BY DEF EmergencyInv, Types
<1>3. /\ \A d \in Emergencies : /\ em'[d].status = em[d].status
                                /\ em'[d].finished = em[d].finished
                                /\ em'[d].all = em[d].all
                                /\ em'[d].fresh => em[d].fresh /\ request'[d] = request[d]
                                /\ request'[d] = request[d] \/ request'[d] = NoRequest
      /\ em' \in [Emergencies -> EmergencyRow] /\ DOMAIN request' = Emergencies
  BY <1>1, <1>2 DEF EmergencyRow
<1>4. Types'
  BY <1>1, <1>3 DEF EmergencyInv, Types
<1>5. Permits'
  BY <1>1, <1>3, PermitsKept
<1> QED
  BY <1>1, <1>3, <1>4, <1>5, Looks DEF EmergencyInv

LEMMA DueInv ==
  ASSUME EmergencyInv, NEW e \in Emergencies, Expire(e) \/ UpdateReopening(e)
  PROVE  EmergencyInv'
<1>1. /\ \/ em' = [em EXCEPT ![e].due = TRUE]
         \/ em' = [em EXCEPT ![e].due = FALSE, ![e].fresh = FALSE]
      /\ events' \in 0..MaxEvents
      /\ UNCHANGED <<known, later, target, request, job, at, used, recon, opener, store, closedBy>>
  BY Spends DEF Expire, UpdateReopening, EmergencyInv, Types
<1>2. em \in [Emergencies -> EmergencyRow]
  BY DEF EmergencyInv, Types
<1>3. /\ \A d \in Emergencies : /\ em'[d].status = em[d].status
                                /\ em'[d].finished = em[d].finished
                                /\ em'[d].all = em[d].all
                                /\ em'[d].fresh => em[d].fresh /\ request'[d] = request[d]
                                /\ request'[d] = request[d] \/ request'[d] = NoRequest
      /\ em' \in [Emergencies -> EmergencyRow]
  <2>1. PICK r \in EmergencyRow :
          /\ em' = [em EXCEPT ![e] = r]
          /\ r.status = em[e].status /\ r.finished = em[e].finished /\ r.all = em[e].all
          /\ r.fresh => em[e].fresh
    <3>1. CASE em' = [em EXCEPT ![e].due = TRUE]
      <4> DEFINE r == [em[e] EXCEPT !.due = TRUE]
      <4>1. r \in EmergencyRow /\ r.status = em[e].status /\ r.finished = em[e].finished
            /\ r.all = em[e].all /\ r.fresh = em[e].fresh
        BY <1>2 DEF EmergencyRow
      <4>2. em' = [em EXCEPT ![e] = r]
        BY <3>1
      <4> QED
        BY <4>1, <4>2
    <3>2. CASE em' = [em EXCEPT ![e].due = FALSE, ![e].fresh = FALSE]
      <4> DEFINE r == [em[e] EXCEPT !.due = FALSE, !.fresh = FALSE]
      <4>1. r \in EmergencyRow /\ r.status = em[e].status /\ r.finished = em[e].finished
            /\ r.all = em[e].all /\ ~ r.fresh
        BY <1>2 DEF EmergencyRow
      <4>2. em' = [em EXCEPT ![e] = r]
        BY <1>2, <3>2
      <4> QED
        BY <4>1, <4>2
    <3> QED
      BY <1>1, <3>1, <3>2
  <2> QED
    BY <1>1, <1>2, <2>1
<1>4. Types'
  BY <1>1, <1>3 DEF EmergencyInv, Types
<1>5. Permits'
  BY <1>1, <1>3, PermitsKept
<1> QED
  BY <1>1, <1>3, <1>4, <1>5, Looks DEF EmergencyInv

\* A step of one job that only looks at the rows, has no write under way, and
\* leaves the job Worked and where it is.
LEMMA JobLooks ==
  ASSUME EmergencyInv, NEW j \in Jobs, job[j].phase # "free", Heartbeat(j) \/ em' = em,
         job' \in [Jobs -> {Free} \cup Waiting \cup Working \cup Ending],
         at' \in [Jobs -> [Shops -> Steps]],
         \A k \in Jobs \ {j} : job'[k] = job[k] /\ at'[k] = at[k],
         UNCHANGED <<known, later, target, request, used, recon, opener, store, closedBy>>,
         events' \in 0..MaxEvents,
         \A s \in Shops : at'[j][s] = "writing" =>
            at[j][s] = "writing" /\ job'[j].action = job[j].action /\ job'[j].em = job[j].em,
         Worked(j)', \A s \in Shops : Handles(j, s)'
  PROVE  EmergencyInv'
<1>1. /\ em' \in [Emergencies -> EmergencyRow]
      /\ \A d \in Emergencies : /\ em'[d].status = em[d].status
                                /\ em'[d].finished = em[d].finished
                                /\ em'[d].all = em[d].all
                                /\ em'[d].fresh => em[d].fresh
  BY HeartbeatCalms DEF EmergencyInv, Types
<1>2. Types'
  BY <1>1 DEF EmergencyInv, Types
<1>3. Permits'
  BY <1>1, PermitsKept
<1>4. \A k \in Jobs : Worked(k)' /\ \A s \in Shops : Handles(k, s)'
  BY <1>1, <1>2, Looks
<1> QED
  BY <1>1, <1>2, <1>3, <1>4, Looks DEF EmergencyInv

LEMMA ReadTargetsInv == ASSUME EmergencyInv, NEW j \in Jobs, ReadTargets(j) PROVE EmergencyInv'
<1>1. PICK S \in SUBSET Shops :
        job' = [job EXCEPT ![j] = [phase |-> "working", em |-> job[j].em, action |-> job[j].action, todo |-> S]]
  BY DEF ReadTargets, Targets
<1>2. /\ job[j].phase = "claimed" /\ Heartbeat(j)
      /\ UNCHANGED <<known, later, target, request, at, used, recon, opener, store, closedBy, events>>
  BY DEF ReadTargets
<1>3. job[j].em \in Emergencies /\ job[j].action \in Actions
  BY <1>2, JobOf DEF EmergencyInv
<1>4. job' \in [Jobs -> {Free} \cup Waiting \cup Working \cup Ending]
  <2>1. [phase |-> "working", em |-> job[j].em, action |-> job[j].action, todo |-> S] \in Working
    BY <1>3 DEF Working
  <2> QED
    BY <1>1, <2>1 DEF EmergencyInv, Types
<1>5. /\ job'[j].phase = "working" /\ job'[j].em = job[j].em /\ job'[j].action = job[j].action
      /\ \A k \in Jobs \ {j} : job'[k] = job[k]
  BY <1>1 DEF EmergencyInv, Types
<1>6. \A s \in Shops : at'[j][s] = "idle"
  BY <1>2, IdleAt
<1>7. Worked(j)'
  <2>1. Worked(j) /\ Started(j)
    BY <1>2 DEF EmergencyInv, Started
  <2>2. em'[job[j].em].status = em[job[j].em].status /\ (Returning(job[j].em)' => Returning(job[j].em))
    BY <1>2, <1>3, <1>5, HeartbeatCalms DEF Returning
  <2> QED
    BY <1>2, <1>5, <2>1, <2>2 DEF Worked, Started
<1>8. \A s \in Shops : Handles(j, s)'
  BY <1>6 DEF Handles
<1> QED
  BY <1>2, <1>4, <1>5, <1>6, <1>7, <1>8, JobLooks DEF EmergencyInv, Types

LEMMA SummarizeInv == ASSUME EmergencyInv, NEW j \in Jobs, Summarize(j) PROVE EmergencyInv'
<1> DEFINE e == job[j].em
           offline == job[j].action = "offline"
           deferred == \E s \in Shops : IF offline THEN target[e][s].offline \in InShutdown
                                        ELSE Reopens(target[e][s]) \/ target[e][s].restore = "running"
           status == IF offline THEN ShutdownStatus(target[e]) ELSE RestoreStatus(target[e])
           next == [phase |-> "settling", em |-> e, action |-> job[j].action, status |-> status]
<1>1. /\ job[j].phase = "working" /\ \A s \in Shops : at[j][s] = "idle"
      /\ job' = [job EXCEPT ![j] = IF deferred THEN Free ELSE next]
      /\ UNCHANGED <<known, later, em, target, request, at, used, recon, opener, store, closedBy, events>>
  BY DEF Summarize
<1>2. e \in Emergencies /\ job[j].action \in Actions
  BY <1>1, JobOf DEF EmergencyInv
<1>3. next \in Ending
  <2>1. status \in Statuses
    BY ShutdownStatuses, RestoreStatuses DEF Statuses, LiveStatus, InPlace, Ended
  <2> QED
    BY <1>2, <2>1 DEF Ending
<1>4. /\ job' \in [Jobs -> {Free} \cup Waiting \cup Working \cup Ending]
      /\ \A k \in Jobs \ {j} : job'[k] = job[k]
      /\ job'[j] = IF deferred THEN Free ELSE next
  BY <1>1, <1>3 DEF EmergencyInv, Types
<1>5. Worked(j)' /\ \A s \in Shops : Handles(j, s)'
  <2>1. CASE deferred
    BY <1>1, <1>4, <2>1, FreeJob
  <2>2. CASE ~ deferred
    <3>1. /\ job'[j].phase = "settling" /\ job'[j].em = e /\ job'[j].action = job[j].action
          /\ job'[j].status = status
      BY <1>4, <2>2
    <3>2. Worked(j) /\ Started(j)
      BY <1>1, SMTT(30) DEF EmergencyInv, Started
    <3>3. em'[e] = em[e] /\ target'[e] = target[e] /\ (Returning(e)' <=> Returning(e))
      BY <1>1, <3>1, ZenonT(60) DEF Returning
    <3>4. Worked(j)'
      BY <1>1, <1>2, <2>2, <3>1, <3>2, <3>3, ZenonT(60) DEF Worked, Started, Returning, Actions
    <3>5. \A s \in Shops : at'[j][s] = "idle"
      BY <1>1
    <3> HIDE DEF next, status, deferred, offline
    <3> QED
      BY <3>4, <3>5 DEF Handles
  <2> QED
    BY <2>1, <2>2, SMTT(30)
<1>6. /\ job[j].phase # "free" /\ at' \in [Jobs -> [Shops -> Steps]] /\ events' \in 0..MaxEvents
      /\ \A s \in Shops : at'[j][s] # "writing"
      /\ \A k \in Jobs : at'[k] = at[k]
  BY <1>1 DEF EmergencyInv, Types
<1> HIDE DEF next, status, deferred, offline, e
<1> QED
  BY <1>1, <1>4, <1>5, <1>6, JobLooks

LEMMA WorkerDiesInv == ASSUME EmergencyInv, NEW j \in Jobs, WorkerDies(j) PROVE EmergencyInv'
<1> DEFINE again == [phase |-> "queued", em |-> job[j].em, action |-> job[j].action]
<1>1. /\ job[j].phase \notin {"free", "queued"} /\ events' \in 0..MaxEvents
      /\ job' = [job EXCEPT ![j] = Free] \/ job' = [job EXCEPT ![j] = again]
      /\ at' = [at EXCEPT ![j] = [s \in Shops |-> "idle"]]
      /\ UNCHANGED <<known, later, em, target, request, used, recon, opener, store, closedBy>>
  BY Spends DEF WorkerDies
<1>2. job[j].em \in Emergencies /\ again \in Waiting
  BY <1>1, JobOf DEF EmergencyInv, Waiting
<1>3. /\ job' \in [Jobs -> {Free} \cup Waiting \cup Working \cup Ending]
      /\ at' \in [Jobs -> [Shops -> Steps]]
      /\ \A k \in Jobs \ {j} : job'[k] = job[k] /\ at'[k] = at[k]
      /\ job'[j] = Free \/ job'[j] = again
      /\ \A s \in Shops : at'[j][s] = "idle"
  BY <1>1, <1>2 DEF EmergencyInv, Types, Steps
<1>4. em'[job[j].em].status # "none"
  BY <1>1 DEF EmergencyInv, Worked
<1>5. Worked(j)' /\ \A s \in Shops : Handles(j, s)'
  BY <1>3, <1>4, FreeJob, QueuedJob
<1> QED
  BY <1>1, <1>3, <1>5, JobLooks

LEMMA NotAuthorizedInv ==
  ASSUME EmergencyInv, NEW j \in Jobs, NEW s \in Shops, NotAuthorized(j, s) PROVE EmergencyInv'
<1>1. /\ at[j][s] = "claimed" /\ at' = [at EXCEPT ![j][s] = "refused"]
      /\ UNCHANGED <<known, later, em, target, request, job, used, recon, opener, store, closedBy, events>>
  BY DEF NotAuthorized, Moves
<1>2. /\ at' \in [Jobs -> [Shops -> Steps]]
      /\ \A k \in Jobs \ {j} : at'[k] = at[k]
      /\ at'[j][s] = "refused" /\ \A r \in Shops \ {s} : at'[j][r] = at[j][r]
  BY <1>1 DEF EmergencyInv, Types, Steps
<1>3. job[j].phase = "working"
  BY <1>1 DEF EmergencyInv, Handles
<1>4. Types'
  BY <1>1, <1>2 DEF EmergencyInv, Types
<1>5. Worked(j)' /\ \A r \in Shops \ {s} : Handles(j, r)'
  BY <1>1, <1>2, <1>4, Looks
<1>6. Handles(j, s)'
  BY <1>1, <1>2, <1>3 DEF Handles
<1> QED
  BY <1>1, <1>2, <1>3, <1>5, <1>6, JobLooks DEF EmergencyInv, Types

LEMMA ReconcileStepInv ==
  ASSUME EmergencyInv, NEW e \in Emergencies, BeginReconcile(e) \/ ReconcilerDies(e)
  PROVE  EmergencyInv'
<1>1. /\ UNCHANGED <<known, later, em, target, request, job, at, used, opener, store, closedBy>>
      /\ events' \in 0..MaxEvents
      /\ \/ recon' = [recon EXCEPT ![e] = NoRecon]
         \/ /\ recon[e].step = "owned"
            /\ StillLive(e) /\ target[e][recon[e].shop].restore = "required"
            /\ target[e][recon[e].shop].lease = "recon"
            /\ recon' = [recon EXCEPT ![e] = [step |-> "writing", shop |-> recon[e].shop]]
  BY Spends DEF BeginReconcile, ReconcilerDies, EmergencyInv, Types
<1>2. /\ recon' \in [Emergencies -> [step : {"idle", "owned", "writing"}, shop : Shops \cup {Nobody}]]
      /\ \A d \in Emergencies \ {e} : recon'[d] = recon[d]
      /\ \/ recon'[e] = NoRecon
         \/ /\ recon[e].step = "owned"
            /\ StillLive(e) /\ target[e][recon[e].shop].restore = "required"
            /\ target[e][recon[e].shop].lease = "recon"
            /\ recon'[e] = [step |-> "writing", shop |-> recon[e].shop]
  <2>1. NoRecon \in [step : {"idle", "owned", "writing"}, shop : Shops \cup {Nobody}]
    BY DEF NoRecon
  <2>2. [step |-> "writing", shop |-> recon[e].shop] \in [step : {"idle", "owned", "writing"}, shop : Shops \cup {Nobody}]
    BY DEF EmergencyInv, Types
  <2>3. recon \in [Emergencies -> [step : {"idle", "owned", "writing"}, shop : Shops \cup {Nobody}]]
    BY DEF EmergencyInv, Types
  <2> QED
    BY <1>1, <2>1, <2>2, <2>3
<1>3. Types'
  BY <1>1, <1>2 DEF EmergencyInv, Types
<1>4. Permits'
  BY <1>1, PermitsKept
<1>5. Reconciles(e)'
  BY <1>1, <1>2 DEF EmergencyInv, Reconciles, StillLive, NoRecon
<1> QED
  BY <1>1, <1>2, <1>3, <1>4, <1>5, Looks DEF EmergencyInv

LEMMA TakePermitInv ==
  ASSUME EmergencyInv, NEW o \in Openers, NEW s \in Shops, TakePermit(o, s) PROVE EmergencyInv'
<1>1. /\ opener' = [opener EXCEPT ![o] = s]
      /\ \A e \in Emergencies : Live(e) => ~ Covers(e, s)
      /\ UNCHANGED <<known, later, em, target, request, job, at, used, recon, store, closedBy, events>>
  BY DEF TakePermit
<1>2. Types'
  BY <1>1 DEF EmergencyInv, Types
<1>3. Permits'
  <2>1. /\ \A d \in Emergencies : Live(d)' = Live(d)
        /\ \A d \in Emergencies, r \in Shops : Covers(d, r)' = Covers(d, r)
    BY <1>1 DEF Live, Covers, Targets
  <2>2. \A p \in Openers : opener'[p] = IF p = o THEN s ELSE opener[p]
    BY <1>1 DEF EmergencyInv, Types
  <2>3. Permits /\ opener \in [Openers -> Shops \cup {Nobody}]
    BY DEF EmergencyInv, Types
  <2> QED
    BY <1>1, <2>1, <2>2, <2>3 DEF Permits
<1> QED
  BY <1>1, <1>2, <1>3, Looks DEF EmergencyInv

LEMMA RegisterInv == ASSUME EmergencyInv, NEW s \in Shops, Register(s) PROVE EmergencyInv'
<1>1. /\ s \in later /\ known' = known \cup {s} /\ later' = later \ {s}
      /\ UNCHANGED <<em, target, request, job, at, used, recon, opener, store, closedBy, events>>
  BY DEF Register
<1>2. Types'
  BY <1>1 DEF EmergencyInv, Types
<1>3. \A d \in Emergencies : Calm(d) /\ Quiet(d)
  BY <1>1 DEF Calm, Quiet, Shut
<1>4. Permits'
  BY <1>1, PermitsKept
<1>5. ASSUME NEW j \in Jobs, job[j].phase # "free" PROVE Calm(job[j].em) /\ Quiet(job[j].em)
  BY <1>3, <1>5, JobOf DEF EmergencyInv
<1> QED
  BY <1>1, <1>2, <1>3, <1>4, <1>5, CalmEmergency, CalmReconciles, CalmWorked, CalmHandles DEF EmergencyInv

-----------------------------------------------------------------------------
(* Steps that write a store and no row.                                    *)

\* A live emergency that does not reopen has the store in its care.
Guards(d, s) ==
  /\ em[d].status \in LiveStatus /\ target[d][s].offline # "absent"
  /\ em[d].status # "restoring" \/ Returning(d)

LEMMA StoreWritten ==
  ASSUME EmergencyInv, UNCHANGED <<known, em, target, request>>, NEW d \in Emergencies, NEW s \in Shops,
         Guards(d, s) /\ Shut(s) => Shut(s)'
  PROVE  /\ (em[d].finished <=> em[d].status \in Ended)' /\ Asked(d)'
         /\ Marked(d, s)'
         /\ (closedBy'[s] = d => closedBy[s] = d) => Closes(d, s)'
         /\ recon' = recon => Reconciles(d)'
<1>1. Emergency(d) /\ Marked(d, s) /\ Closes(d, s) /\ Reconciles(d)
  BY DEF EmergencyInv, Emergency
<1>2. (em[d].finished <=> em[d].status \in Ended)' /\ Asked(d)'
  BY <1>1 DEF Emergency, Asked
<1>3. Marked(d, s)'
  <2>1. (Returning(d)' <=> Returning(d)) /\ (Hopeful(d)' <=> Hopeful(d))
    BY DEF Returning, Hopeful
  <2>2. Returning(d) => em[d].status = "restoring"
    BY <1>1 DEF Returning, Emergency, Asked
  <2>3. em[d].status \in Closing \/ Returning(d) => em[d].status \in LiveStatus /\ (em[d].status # "restoring" \/ Returning(d))
    BY <2>2 DEF Closing, InShutdown, InPlace, LiveStatus
  <2> QED
    BY <1>1, <2>1, <2>3 DEF Marked, Guards
<1>4. (closedBy'[s] = d => closedBy[s] = d) => Closes(d, s)'
  BY <1>1 DEF Closes, Hopeful, Returning, Again
<1>5. recon' = recon => Reconciles(d)'
  BY <1>1 DEF Reconciles
<1> QED
  BY <1>2, <1>3, <1>4, <1>5

LEMMA StoreWrittenJobs ==
  ASSUME EmergencyInv, UNCHANGED <<known, em, target, request>>, NEW j \in Jobs, job'[j] = job[j]
  PROVE  /\ Worked(j)'
         /\ \A s \in Shops :
              /\ at'[j][s] = at[j][s]
              /\ \A d \in Emergencies : /\ Guards(d, s) /\ Shut(s) => Shut(s)'
                                        /\ closedBy'[s] = d => \/ closedBy[s] = d
                                                               \/ em[d].status \in Closing
              => Handles(j, s)'
<1>1. Worked(j)'
  BY CalmWorked DEF Calm
<1>2. ASSUME NEW s \in Shops, at'[j][s] = at[j][s],
             \A d \in Emergencies : /\ Guards(d, s) /\ Shut(s) => Shut(s)'
                                    /\ closedBy'[s] = d => \/ closedBy[s] = d
                                                           \/ em[d].status \in Closing
      PROVE  Handles(j, s)'
  <2>1. Handles(j, s) /\ Worked(j)
    BY DEF EmergencyInv
  <2>2. CASE at[j][s] = "idle"
    BY <1>2, <2>2 DEF Handles
  <2>3. CASE at[j][s] # "idle"
    <3>1. job[j].phase = "working" /\ job[j].em \in Emergencies /\ job[j].action \in Actions
      BY <2>1, <2>3, JobOf DEF Handles, EmergencyInv
    <3>2. Marked(job[j].em, s)
      BY <3>1 DEF EmergencyInv, Emergency
    <3>3. target[job[j].em][s].offline = "running" => Guards(job[j].em, s)
      BY <3>2 DEF Marked, Guards, InShutdown, LiveStatus
    <3>4. job[j].action = "restore" => em[job[j].em].status \notin Closing
      BY <2>1, <3>1 DEF Worked, Started, Giving, Closing, InShutdown, InPlace
    <3> QED
      BY <1>2, <2>1, <3>1, <3>3, <3>4 DEF Handles
  <2> QED
    BY <2>2, <2>3
<1> QED
  BY <1>1, <1>2

\* A live emergency covers its targets.
LEMMA GuardsCovers ==
  ASSUME EmergencyInv, NEW d \in Emergencies, NEW s \in Shops, Guards(d, s)
  PROVE  Live(d) /\ Covers(d, s)
BY LiveStatuses DEF Guards, Covers, Targets

\* One entry of a table changes.
LEMMA StoreSet ==
  ASSUME Types, NEW s \in Shops, NEW b \in BOOLEAN, NEW x \in Emergencies \cup {Staff, Opener},
         store' = [store EXCEPT ![s] = [open |-> b, by |-> x]]
  PROVE  /\ store' \in [Shops -> [open : BOOLEAN, by : Emergencies \cup {Staff, Opener}]]
         /\ store'[s] = [open |-> b, by |-> x]
         /\ \A r \in Shops : r # s => store'[r] = store[r]
BY DEF Types

LEMMA StepSet ==
  ASSUME Types, NEW j \in Jobs, NEW s \in Shops, NEW x \in Steps, at' = [at EXCEPT ![j][s] = x]
  PROVE  /\ at' \in [Jobs -> [Shops -> Steps]]
         /\ at'[j][s] = x
         /\ \A k \in Jobs, r \in Shops : k # j \/ r # s => at'[k][r] = at[k][r]
BY DEF Types

LEMMA OpenStoreInv == ASSUME EmergencyInv, NEW o \in Openers, OpenStore(o) PROVE EmergencyInv'
<1> DEFINE s == opener[o]
<1>1. /\ s # Nobody /\ opener' = [opener EXCEPT ![o] = Nobody]
      /\ \/ /\ store' = [store EXCEPT ![s] = [open |-> TRUE, by |-> Opener]]
            /\ closedBy' = [closedBy EXCEPT ![s] = Nobody]
         \/ UNCHANGED <<store, closedBy>>
      /\ UNCHANGED <<known, later, em, target, request, job, at, used, recon, events>>
  BY DEF OpenStore
<1>2. s \in Shops /\ \A d \in Emergencies : ~ Guards(d, s)
  BY <1>1, GuardsCovers DEF EmergencyInv, Types, Permits
<1>3. /\ store' \in [Shops -> [open : BOOLEAN, by : Emergencies \cup {Staff, Opener}]]
      /\ \A r \in Shops : r # s => store'[r] = store[r]
  BY <1>1, <1>2, StoreSet DEF EmergencyInv, Types
<1>4. /\ closedBy' \in [Shops -> Emergencies \cup {Nobody}]
      /\ \A r \in Shops : r # s => closedBy'[r] = closedBy[r]
      /\ opener' \in [Openers -> Shops \cup {Nobody}]
      /\ closedBy'[s] = Nobody \/ closedBy'[s] = closedBy[s]
      /\ \A p \in Openers : opener'[p] = opener[p] \/ opener'[p] = Nobody
  BY <1>1, <1>2 DEF EmergencyInv, Types
<1>5. \A d \in Emergencies, r \in Shops : /\ Guards(d, r) /\ Shut(r) => Shut(r)'
                                          /\ closedBy'[r] = d => closedBy[r] = d
  <2>1. \A d \in Emergencies : closedBy'[s] = d => closedBy[s] = d
    BY <1>4, EmergencyConstants DEF EmergencyConstants
  <2>2. \A r \in Shops : r # s => (Shut(r)' <=> Shut(r))
    BY <1>3 DEF Shut
  <2> QED
    BY <1>2, <1>4, <2>1, <2>2
<1>6. Permits'
  BY <1>1, <1>4, PermitsKept
<1> HIDE DEF s
<1>7. \A d \in Emergencies : Emergency(d)' /\ Reconciles(d)'
  BY <1>1, <1>2, <1>5, StoreWritten DEF Emergency
<1>8. \A j \in Jobs : Worked(j)' /\ \A r \in Shops : Handles(j, r)'
  BY <1>1, <1>5, StoreWrittenJobs
<1>9. Types'
  BY <1>1, <1>3, <1>4 DEF EmergencyInv, Types
<1> QED
  BY <1>6, <1>7, <1>8, <1>9 DEF EmergencyInv

LEMMA OperateInv == ASSUME EmergencyInv, NEW s \in Shops, Operate(s) PROVE EmergencyInv'
<1>1. /\ store' = [store EXCEPT ![s] = [open |-> ~ store[s].open, by |-> Staff]]
      /\ closedBy' = [closedBy EXCEPT ![s] = Nobody] /\ events' \in 0..MaxEvents
      /\ UNCHANGED <<known, later, em, target, request, job, at, used, recon, opener>>
  BY Spends DEF Operate
<1>2. Types'
  BY <1>1 DEF EmergencyInv, Types
<1>3. \A d \in Emergencies, r \in Shops : /\ Shut(r) => Shut(r)'
                                          /\ closedBy'[r] = d => closedBy[r] = d
  BY <1>1, EmergencyConstants DEF EmergencyConstants, EmergencyInv, Types, Shut
<1>4. Permits'
  BY <1>1, PermitsKept
<1>5. \A d \in Emergencies : Emergency(d)' /\ Reconciles(d)'
  BY <1>1, <1>3, StoreWritten DEF Emergency
<1>6. \A j \in Jobs : Worked(j)' /\ \A r \in Shops : Handles(j, r)'
  BY <1>1, <1>3, StoreWrittenJobs
<1> QED
  BY <1>2, <1>4, <1>5, <1>6 DEF EmergencyInv

LEMMA WriteInv ==
  ASSUME EmergencyInv, NEW j \in Jobs, NEW s \in Shops, Write(j, s) PROVE EmergencyInv'
<1> DEFINE e == job[j].em
           opens == job[j].action = "restore"
<1>1. /\ at[j][s] = "writing"
      /\ \/ /\ store' = [store EXCEPT ![s] = [open |-> opens, by |-> e]]
            /\ closedBy' = [closedBy EXCEPT ![s] = IF opens THEN Nobody ELSE e]
            /\ at' = [at EXCEPT ![j][s] = "confirmed"] \/ at' = [at EXCEPT ![j][s] = "refused"]
         \/ at' = [at EXCEPT ![j][s] = "refused"] /\ UNCHANGED <<store, closedBy>>
      /\ UNCHANGED <<known, later, em, target, request, job, used, recon, opener, events>>
  BY DEF Write, Moves
<1>2. /\ job[j].phase = "working" /\ e \in Emergencies /\ job[j].action \in Actions
      /\ Handles(j, s)
  BY <1>1, JobOf DEF EmergencyInv, Handles
<1>3. /\ at' \in [Jobs -> [Shops -> Steps]]
      /\ at'[j][s] \in {"confirmed", "refused"}
      /\ \A k \in Jobs, r \in Shops : k # j \/ r # s => at'[k][r] = at[k][r]
  BY <1>1, StepSet DEF EmergencyInv, Steps
<1>4. /\ store' \in [Shops -> [open : BOOLEAN, by : Emergencies \cup {Staff, Opener}]]
      /\ closedBy' \in [Shops -> Emergencies \cup {Nobody}]
      /\ \A r \in Shops : r # s => store'[r] = store[r] /\ closedBy'[r] = closedBy[r]
      /\ \/ store'[s] = store[s] /\ closedBy'[s] = closedBy[s] /\ at'[j][s] = "refused"
         \/ store'[s] = [open |-> opens, by |-> e] /\ closedBy'[s] = IF opens THEN Nobody ELSE e
  <2> HIDE DEF opens, e
  <2>0. opens \in BOOLEAN
    BY DEF opens
  <2>1. CASE UNCHANGED <<store, closedBy>> /\ at' = [at EXCEPT ![j][s] = "refused"]
    BY <2>1, StepSet DEF EmergencyInv, Types, Steps
  <2>2. CASE /\ store' = [store EXCEPT ![s] = [open |-> opens, by |-> e]]
             /\ closedBy' = [closedBy EXCEPT ![s] = IF opens THEN Nobody ELSE e]
    <3>1. /\ closedBy' \in [Shops -> Emergencies \cup {Nobody}]
          /\ closedBy'[s] = IF opens THEN Nobody ELSE e
          /\ \A r \in Shops : r # s => closedBy'[r] = closedBy[r]
      BY <1>2, <2>2 DEF EmergencyInv, Types
    <3> QED
      BY <1>2, <2>0, <2>2, <3>1, StoreSet DEF EmergencyInv
  <2> QED
    BY <1>1, <2>1, <2>2
<1>5. Types'
  BY <1>1, <1>3, <1>4 DEF EmergencyInv, Types
<1>6. opens => \A d \in Emergencies : ~ Guards(d, s)
  <2>1. ASSUME opens, NEW d \in Emergencies, d # e PROVE ~ Guards(d, s)
    BY <1>1, <2>1, GuardsCovers DEF EmergencyInv, Permits
  <2>2. opens => ~ Guards(e, s)
    BY <1>1, <1>2 DEF Handles, Guards, Returning
  <2> QED
    BY <2>1, <2>2
<1>7. ~ opens => em[e].status = "running" /\ target[e][s].offline = "running" /\ target[e][s].restore = "required"
  BY <1>1, <1>2 DEF Handles, Actions
<1> HIDE DEF opens, e
<1>8. \A d \in Emergencies, r \in Shops : Guards(d, r) /\ Shut(r) => Shut(r)'
  BY <1>4, <1>6 DEF Shut
<1>9. \A d \in Emergencies, r \in Shops : closedBy'[r] = d => closedBy[r] = d \/ (~ opens /\ d = e /\ r = s)
  BY <1>4, EmergencyConstants DEF EmergencyConstants
<1>10. ~ opens => Closes(e, s)'
  <2> SUFFICES ASSUME ~ opens PROVE Closes(e, s)'
    OBVIOUS
  <2>1. ~ em[e].fresh
    BY <1>2, <1>7 DEF EmergencyInv, Emergency, Asked
  <2>2. em'[e] = em[e] /\ target'[e] = target[e] /\ e' = e
    BY <1>1 DEF e
  <2> QED
    BY <1>7, <2>1, <2>2 DEF Closes, Owns, Owned, Hopeful, Returning, Again, Closing, InShutdown, Ended
<1>11. \A d \in Emergencies : Emergency(d)' /\ Reconciles(d)'
  <2>1. ASSUME NEW d \in Emergencies, NEW r \in Shops PROVE Closes(d, r)'
    <3>1. CASE ~ opens /\ d = e /\ r = s
      <4>1. e' = e
        BY <1>1 DEF e
      <4> QED
        BY <1>10, <3>1, <4>1
    <3>2. CASE ~ (~ opens /\ d = e /\ r = s)
      BY <1>1, <1>8, <1>9, <3>2, StoreWritten
    <3> QED
      BY <3>1, <3>2
  <2> QED
    BY <1>1, <1>2, <1>8, <2>1, StoreWritten DEF Emergency
<1>12. Handles(j, s)'
  <2>1. e' = e /\ opens' = opens /\ job'[j] = job[j] /\ closedBy'[s] \in Emergencies \cup {Nobody}
    BY <1>1, <1>4 DEF e, opens
  <2>2. at'[j][s] = "confirmed" /\ ~ opens => Shut(s)'
    BY <1>3, <1>4 DEF Shut
  <2>3. at'[j][s] = "confirmed" /\ opens => closedBy'[s] # e
    BY <1>2, <1>4, EmergencyConstants DEF EmergencyConstants
  <2> QED
    BY <1>2, <1>3, <2>1, <2>2, <2>3 DEF Handles, opens, e, Actions
<1>13. \A k \in Jobs : Worked(k)' /\ \A r \in Shops : Handles(k, r)'
  <2>1. ~ opens => em[e].status \in Closing
    BY <1>7 DEF Closing, InShutdown
  <2> QED
    BY <1>1, <1>3, <1>8, <1>9, <1>12, <2>1, StoreWrittenJobs
<1>14. Permits'
  <2>1. \A k \in Jobs, r \in Shops : at'[k][r] = "writing" => at[k][r] = "writing"
    BY <1>3
  <2> QED
    BY <1>1, <2>1, PermitsKept
<1> QED
  BY <1>5, <1>11, <1>13, <1>14 DEF EmergencyInv

-----------------------------------------------------------------------------
(* Steps that rewrite one emergency.                                       *)

LEMMA Bystander ==
  ASSUME EmergencyInv, NEW e \in Emergencies, UNCHANGED <<known, store, closedBy>>,
         \A s \in Shops : ~ MidWrite(e, s),
         em'[e].status # "none",
         \A s \in Shops : target'[e][s].offline = "running" /\ target'[e][s].lease \in Jobs =>
            target[e][s].offline = "running" /\ target[e][s].lease = target'[e][s].lease,
         NEW j \in Jobs, job[j].phase # "free", job[j].em = e, job'[j] = job[j], at'[j] = at[j],
         Started(j) /\ job[j].action = "restore" => em'[e].status \in Giving /\ ~ Returning(e)',
         job[j].phase = "settling" =>
            \/ /\ job[j].action = "offline" => em'[e].status \notin InShutdown
               /\ job[j].action = "restore" => em'[e].status # "restoring"
            \/ /\ target'[e] = target[e]
               /\ em'[e].status \in InShutdown /\ em[e].status \in InShutdown
  PROVE  Worked(j)' /\ \A s \in Shops : Handles(j, s)'
<1>1. Worked(j) /\ job[j].action \in Actions
  BY JobOf DEF EmergencyInv
<1>2. Worked(j)'
  BY <1>1 DEF Worked, Started, InShutdown, Actions
<1>3. ASSUME NEW s \in Shops PROVE Handles(j, s)'
  <2>1. Handles(j, s) /\ at[j][s] # "writing"
    BY DEF EmergencyInv, MidWrite
  <2>2. Shut(s)' = Shut(s)
    BY DEF Shut
  <2> QED
    BY <2>1, <2>2 DEF Handles
<1> QED
  BY <1>2, <1>3

\* The emergency is rewritten while nobody has a write of it under way.
LEMMA Rewrites ==
  ASSUME EmergencyInv, Types', Permits', NEW e \in Emergencies, UNCHANGED <<known, store, closedBy, at>>,
         \A d \in Emergencies : d # e => /\ em'[d] = em[d] /\ target'[d] = target[d]
                                         /\ request'[d] = request[d] /\ recon'[d] = recon[d],
         Emergency(e)', Reconciles(e)',
         \A s \in Shops : ~ MidWrite(e, s),
         em'[e].status # "none",
         \A s \in Shops : target'[e][s].offline = "running" /\ target'[e][s].lease \in Jobs =>
            target[e][s].offline = "running" /\ target[e][s].lease = target'[e][s].lease,
         \A j \in Jobs :
            \/ Worked(j)' /\ \A s \in Shops : Handles(j, s)'
            \/ job'[j] = job[j] /\
               (job[j].phase # "free" /\ job[j].em = e =>
                 /\ Started(j) /\ job[j].action = "restore" => em'[e].status \in Giving /\ ~ Returning(e)'
                 /\ job[j].phase = "settling" =>
                      \/ /\ job[j].action = "offline" => em'[e].status \notin InShutdown
                         /\ job[j].action = "restore" => em'[e].status # "restoring"
                      \/ /\ target'[e] = target[e]
                         /\ em'[e].status \in InShutdown /\ em[e].status \in InShutdown)
  PROVE  EmergencyInv'
<1>1. \A d \in Emergencies : d # e => Calm(d)
  BY DEF Calm
<1>2. \A d \in Emergencies : Quiet(d)
  BY DEF Quiet, Shut
<1>3. \A d \in Emergencies : Emergency(d)' /\ Reconciles(d)'
  BY <1>1, <1>2, CalmEmergency, CalmReconciles
<1>4. ASSUME NEW j \in Jobs PROVE Worked(j)' /\ \A s \in Shops : Handles(j, s)'
  <2>1. CASE job'[j] = job[j] /\ job[j].phase # "free" /\ job[j].em = e
    <3> SUFFICES ASSUME ~ (Worked(j)' /\ \A s \in Shops : Handles(j, s)') PROVE FALSE
      OBVIOUS
    <3> QED
      BY <2>1, Bystander
  <2>2. CASE job'[j] = job[j] /\ (job[j].phase = "free" \/ job[j].em # e)
    <3>1. job[j].phase # "free" => Calm(job[j].em) /\ Quiet(job[j].em)
      BY <1>1, <1>2, <2>2, JobOf DEF EmergencyInv
    <3> QED
      BY <2>2, <3>1, CalmWorked, CalmHandles
  <2> QED
    BY <2>1, <2>2
<1> QED
  BY <1>3, <1>4 DEF EmergencyInv

\* A worker moves one target of a transition under way.
LEMMA Moved ==
  ASSUME EmergencyInv, Types', Permits', NEW j \in Jobs, NEW s \in Shops, NEW e \in Emergencies,
         job[j].phase = "working", job[j].em = e,
         UNCHANGED <<known, store, closedBy, request, recon>>,
         \A d \in Emergencies : /\ em'[d].status = em[d].status /\ em'[d].finished = em[d].finished
                                /\ em'[d].fresh => em[d].fresh,
         \A d \in Emergencies : d # e => target'[d] = target[d],
         \A r \in Shops : r # s => target'[e][r] = target[e][r],
         \A k \in Jobs : k # j => job'[k] = job[k],
         job'[j].phase = "working", job'[j].em = e, job'[j].action = job[j].action,
         \A k \in Jobs, r \in Shops : k # j \/ r # s => at'[k][r] = at[k][r],
         \/ em[e].status = "running" /\ target[e][s].offline \in InShutdown
         \/ em[e].status = "restoring" /\ (Reopens(target[e][s]) \/ target[e][s].restore = "running"),
         \A k \in Jobs : k # j /\ at[k][s] = "writing" => job[k].em # e,
         target'[e][s].lease \in {j, Nobody},
         target'[e][s].offline # "absent",
         target[e][s].offline = "done" \/ target[e][s].tried
            => target'[e][s].offline = "done" \/ target'[e][s].tried,
         Marked(e, s)', Closes(e, s)', Handles(j, s)'
  PROVE  EmergencyInv'
<1>1. \A d \in Emergencies : Quiet(d) /\ (d # e => Calm(d))
  BY DEF Calm, Quiet, Shut
<1>2. Emergency(e) /\ Reconciles(e)
  BY DEF EmergencyInv
<1>3. /\ (em[e].finished <=> em[e].status \in Ended)'
      /\ Hopeful(e)' => Hopeful(e)
      /\ Returning(e)' => Returning(e)
      /\ Again(e)' => Again(e)
  BY <1>2 DEF Emergency, Hopeful, Returning, Again
<1>4. Emergency(e)'
  <2>1. Asked(e)'
    <3>1. \A r \in Shops : target[e][r].offline = "done" \/ target[e][r].tried
            => target'[e][r].offline = "done" \/ target'[e][r].tried
      OBVIOUS
    <3> QED
      BY <1>2, <3>1 DEF Emergency, Asked
  <2>2. ASSUME NEW r \in Shops, r # s PROVE Marked(e, r)' /\ Closes(e, r)'
    <3>1. Marked(e, r) /\ Closes(e, r)
      BY <1>2 DEF Emergency
    <3>2. Shut(r)' = Shut(r)
      BY DEF Shut
    <3> QED
      BY <1>3, <2>2, <3>1, <3>2 DEF Marked, Closes
  <2> QED
    BY <1>3, <2>1, <2>2 DEF Emergency
<1>5. \A d \in Emergencies : Emergency(d)'
  BY <1>1, <1>4, CalmEmergency
<1>6. \A d \in Emergencies : Reconciles(d)'
  <2>1. Reconciles(e)'
    BY <1>2 DEF Reconciles, InPlace
  <2> QED
    BY <1>1, <2>1, CalmReconciles
<1>7. ASSUME NEW k \in Jobs, k # j \/ job'[j] = job[j] \/ job'[j].phase = "working" PROVE Worked(k)'
  <2>1. CASE job[k].phase = "free" \/ job[k].em # e
    <3>1. k # j
      BY <2>1
    <3> QED
      BY <1>1, <2>1, <3>1, CalmWorked, JobOf DEF EmergencyInv
  <2>2. CASE job[k].phase # "free" /\ job[k].em = e
    <3>1. Worked(k) /\ job[k].action \in Actions
      BY <2>2, JobOf DEF EmergencyInv
    <3>2. ~ (job[k].phase = "settling" /\ job[k].action = "offline" /\ em[e].status \in InShutdown)
      BY <2>2, <3>1 DEF Worked, InShutdown
    <3>3. ~ (job[k].phase = "settling" /\ job[k].action = "restore" /\ em[e].status = "restoring")
      BY <2>2, <3>1 DEF Worked, InShutdown
    <3>4. /\ job'[k].phase = job[k].phase /\ job'[k].em = e /\ job'[k].action = job[k].action
          /\ Started(k)' = Started(k)
      BY <2>2 DEF Started
    <3> QED
      BY <1>3, <2>2, <3>1, <3>2, <3>3, <3>4 DEF Worked
  <2> QED
    BY <2>1, <2>2
<1>8. ASSUME NEW k \in Jobs, NEW r \in Shops, k # j \/ r # s PROVE Handles(k, r)'
  <2>1. CASE job[k].phase = "free" \/ job[k].em # e
    <3>1. k # j
      BY <2>1
    <3> QED
      BY <1>1, <1>8, <2>1, <3>1, CalmHandles, JobOf DEF EmergencyInv
  <2>2. CASE job[k].phase # "free" /\ job[k].em = e
    <3>1. Handles(k, r) /\ at'[k][r] = at[k][r] /\ Shut(r)' = Shut(r)
      BY <1>8 DEF EmergencyInv, Shut
    <3>2. /\ job'[k].phase = job[k].phase /\ job'[k].em = e /\ job'[k].action = job[k].action
      BY <2>2
    <3>3. CASE r # s
      BY <2>2, <3>1, <3>2, <3>3 DEF Handles
    <3>4. CASE r = s
      <4>1. at[k][s] # "writing" /\ k # j /\ target'[e][s].lease # k
        BY <1>8, <2>2, <3>4, EmergencyConstants DEF EmergencyConstants
      <4> QED
        BY <2>2, <3>1, <3>2, <3>4, <4>1 DEF Handles
    <3> QED
      BY <3>3, <3>4
  <2> QED
    BY <2>1, <2>2
<1> QED
  BY <1>5, <1>6, <1>7, <1>8 DEF EmergencyInv

LEMMA PermitsUnasked ==
  ASSUME NoPermit, UNCHANGED <<at, opener>>, Types,
         \A j \in Jobs, s \in Shops : at[j][s] = "writing" => job'[j].action = job[j].action
  PROVE  Permits'
BY DEF NoPermit, Permits

\* The row of one target is replaced.
LEMMA RowSet ==
  ASSUME Types, NEW e \in Emergencies, NEW s \in Shops, NEW row \in TargetRow,
         target' = [target EXCEPT ![e][s] = row]
  PROVE  /\ target' \in [Emergencies -> [Shops -> TargetRow]]
         /\ target'[e][s] = row
         /\ \A r \in Shops : r # s => target'[e][r] = target[e][r]
         /\ \A d \in Emergencies : d # e => target'[d] = target[d]
BY DEF Types

LEMMA ClaimTargetInv ==
  ASSUME EmergencyInv, NEW j \in Jobs, NEW s \in Shops, ClaimTarget(j, s) PROVE EmergencyInv'
<1>1. job[j].phase = "working"
  BY DEF ClaimTarget
<1>2. PICK e \in Emergencies : e = job[j].em
  BY <1>1, JobOf DEF EmergencyInv
<1>3. PICK t \in TargetRow : t = target[e][s]
  BY DEF EmergencyInv, Types
<1> DEFINE offline == job[j].action = "offline"
           claimed == IF offline THEN t.offline = "pending" /\ em[e].status = "running" /\ ~ em[e].finished
                      ELSE Reopens(t) /\ em[e].status = "restoring" /\ ~ em[e].finished
           taken == IF offline THEN [t EXCEPT !.offline = "running", !.lease = j]
                    ELSE [t EXCEPT !.restore = "running", !.lease = j, !.tried = TRUE]
           left == [job[j] EXCEPT !.todo = job[j].todo \ {s}]
<1>4. /\ job' = [job EXCEPT ![j] = left]
      /\ IF claimed THEN at' = [at EXCEPT ![j][s] = "claimed"] /\ target' = [target EXCEPT ![e][s] = taken]
                    ELSE UNCHANGED <<at, target>>
      /\ UNCHANGED <<known, later, em, request, used, recon, opener, store, closedBy, events>>
  BY <1>2, <1>3 DEF ClaimTarget, Moves
<1>5. job[j] \in Working
  <2>1. job[j] \in {Free} \cup Waiting \cup Working \cup Ending
    BY DEF EmergencyInv, Types
  <2> QED
    BY <1>1, <2>1 DEF Free, Waiting, Working, Ending
<1>6. /\ left \in Working /\ left.phase = "working" /\ left.em = e /\ left.action = job[j].action
      /\ job[j].action \in Actions
  BY <1>1, <1>2, <1>5 DEF Working
<1>7. /\ job' \in [Jobs -> {Free} \cup Waiting \cup Working \cup Ending]
      /\ job'[j] = left
      /\ \A k \in Jobs : k # j => job'[k] = job[k]
  <2> HIDE DEF left
  <2> QED
    BY <1>4, <1>6 DEF EmergencyInv, Types
<1>8. Worked(j) /\ Handles(j, s) /\ Marked(e, s) /\ Closes(e, s) /\ Asked(e)
  BY DEF EmergencyInv, Emergency
<1> HIDE DEF left
<1>9. CASE claimed
  <2>1. PICK row \in TargetRow : row = taken
    BY DEF TargetRow
  <2>2. /\ target' \in [Emergencies -> [Shops -> TargetRow]]
        /\ target'[e][s] = row
        /\ \A r \in Shops : r # s => target'[e][r] = target[e][r]
        /\ \A d \in Emergencies : d # e => target'[d] = target[d]
    <3> HIDE DEF taken
    <3> QED
      BY <1>4, <1>9, <2>1, RowSet DEF EmergencyInv
  <2>3. /\ at' \in [Jobs -> [Shops -> Steps]]
        /\ at'[j][s] = "claimed"
        /\ \A k \in Jobs, r \in Shops : k # j \/ r # s => at'[k][r] = at[k][r]
    BY <1>4, <1>9, StepSet DEF EmergencyInv, Steps
  <2>4. \/ /\ offline /\ t.offline = "pending" /\ em[e].status = "running"
           /\ row.offline = "running" /\ row.restore = t.restore /\ row.tried = t.tried
        \/ /\ ~ offline /\ Reopens(t) /\ em[e].status = "restoring"
           /\ row.offline = t.offline /\ row.restore = "running" /\ row.tried
    BY <1>9, <2>1 DEF TargetRow
  <2>5. row.lease = j
    BY <2>1 DEF TargetRow
  <2>6. em[e].status = "running" => ~ em[e].fresh
    BY <1>8 DEF Asked
  <2>7. em'[e] = em[e] /\ request'[e] = request[e] /\ Shut(s)' = Shut(s) /\ known' = known /\ closedBy' = closedBy
    BY <1>4 DEF Shut
  <2>8. row.offline # "absent" /\ s \in known
    BY <1>3, <1>8, <2>4 DEF Reopens, Marked
  <2>9. \/ em[e].status = "running" /\ t.offline \in InShutdown
        \/ em[e].status = "restoring" /\ (Reopens(t) \/ t.restore = "running")
    BY <2>4 DEF InShutdown
  <2>10. t.offline = "done" \/ t.tried => row.offline = "done" \/ row.tried
    BY <2>4
  <2>11. ASSUME NEW k \in Jobs, k # j, at[k][s] = "writing", job[k].em = e PROVE FALSE
    <3>1. Handles(k, s) /\ job[k].phase = "working" /\ job[k].action \in Actions
      BY <2>11, JobOf DEF EmergencyInv, Handles
    <3>2. t.offline = "running" \/ t.restore = "running"
      BY <1>3, <2>11, <3>1 DEF Handles, Actions
    <3>3. (em[e].status = "running" => t.offline = "running") /\ (em[e].status = "restoring" => t.restore = "running")
      BY <1>3, <2>11, <3>1 DEF Handles, Actions
    <3> QED
      BY <2>4, <3>3 DEF Reopens
  <2>12. Marked(e, s)'
    <3>1. (Returning(e)' <=> Returning(e)) /\ (Hopeful(e)' <=> Hopeful(e))
      BY <2>7 DEF Returning, Hopeful
    <3>2. Hopeful(e) => em[e].status # "running"
      BY <2>6 DEF Hopeful
    <3> QED
      BY <1>3, <1>8, <2>2, <2>4, <2>6, <2>7, <2>8, <3>1, <3>2 DEF Marked, InShutdown
  <2>13. Closes(e, s)'
    <3>1. (Returning(e)' <=> Returning(e)) /\ (Hopeful(e)' <=> Hopeful(e)) /\ (Again(e)' <=> Again(e))
      BY <2>7 DEF Returning, Hopeful, Again
    <3> QED
      BY <1>3, <1>8, <2>2, <2>4, <2>7, <2>8, <3>1 DEF Closes, Owns, Owned, Reopens, Closing, InShutdown, InPlace
  <2>14. Handles(j, s)'
    BY <1>6, <1>7, <2>3 DEF Handles
  <2>15. Types'
    BY <1>4, <1>7, <2>2, <2>3 DEF EmergencyInv, Types
  <2>16. Permits'
    <3>1. \A d \in Emergencies, r \in Shops : target'[d][r].offline # "absent" => target[d][r].offline # "absent"
      BY <1>3, <1>8, <2>2, <2>4 DEF Reopens, Marked
    <3>2. \A k \in Jobs, r \in Shops : at'[k][r] = "writing" => at[k][r] = "writing" /\ (k # j \/ r # s)
      BY <2>3
    <3> QED
      BY <1>2, <1>4, <1>6, <1>7, <3>1, <3>2, PermitsStay
  <2>17. /\ target'[e][s].lease \in {j, Nobody} /\ target'[e][s].offline # "absent"
         /\ target[e][s].offline = "done" \/ target[e][s].tried
              => target'[e][s].offline = "done" \/ target'[e][s].tried
         /\ \/ em[e].status = "running" /\ target[e][s].offline \in InShutdown
            \/ em[e].status = "restoring" /\ (Reopens(target[e][s]) \/ target[e][s].restore = "running")
    BY <1>3, <2>2, <2>5, <2>8, <2>9, <2>10
  <2>18. /\ job'[j].phase = "working" /\ job'[j].em = e /\ job'[j].action = job[j].action
         /\ \A k \in Jobs : k # j => job'[k] = job[k]
         /\ \A k \in Jobs : k # j /\ at[k][s] = "writing" => job[k].em # e
    BY <1>6, <1>7, <2>11
  <2>19. /\ \A d \in Emergencies : /\ em'[d].status = em[d].status /\ em'[d].finished = em[d].finished
                                   /\ em'[d].fresh => em[d].fresh
         /\ UNCHANGED <<known, store, closedBy, request, recon>>
    BY <1>4
  <2> HIDE DEF taken, offline
  <2> QED
    BY <1>1, <1>2, <2>2, <2>3, <2>12, <2>13, <2>14, <2>15, <2>16, <2>17, <2>18, <2>19, Moved
<1>10. CASE ~ claimed
  <2>1. UNCHANGED <<at, target, em>>
    BY <1>4, <1>10
  <2>2. Worked(j)'
    BY <1>1, <1>2, <1>4, <1>6, <1>7, <1>8, <2>1 DEF Worked, Started, Returning
  <2>3. \A r \in Shops : Handles(j, r)'
    <3>1. \A r \in Shops : Handles(j, r)
      BY DEF EmergencyInv
    <3> QED
      BY <1>1, <1>2, <1>4, <1>6, <1>7, <2>1, <3>1 DEF Handles, Shut
  <2> QED
    BY <1>1, <1>2, <1>4, <1>6, <1>7, <2>1, <2>2, <2>3, JobLooks DEF EmergencyInv, Types
<1> QED
  BY <1>9, <1>10

\* A worker at a target: the row, and what a lease says of it.
LEMMA Leased ==
  ASSUME EmergencyInv, NEW j \in Jobs, NEW s \in Shops, NEW e \in Emergencies, e = job[j].em,
         job[j].phase = "working", LeaseHeld(j, s), Heartbeat(j)
  PROVE  /\ target[e][s].lease = j /\ target[e][s].offline # "absent" /\ s \in known
         /\ job[j].action = "offline" => em[e].status = "running" /\ target[e][s].offline = "running"
         /\ job[j].action = "restore" => em[e].status = "restoring" /\ target[e][s].restore = "running"
                                         /\ target[e][s].tried
         /\ ~ em'[e].fresh
         /\ \A k \in Jobs : k # j /\ at[k][s] = "writing" => job[k].em # e
<1>1. /\ target[e][s].lease = j /\ ~ em[e].finished
      /\ job[j].action = "offline" => em[e].status = "running" /\ target[e][s].offline = "running"
      /\ job[j].action = "restore" => em[e].status = "restoring" /\ target[e][s].restore = "running"
  BY DEF LeaseHeld
<1>2. job[j].action \in Actions /\ Marked(e, s)
  BY JobOf DEF EmergencyInv, Emergency
<1>3. target[e][s].offline # "absent" /\ s \in known
  BY <1>1, <1>2 DEF Marked, Actions
<1>4. job[j].action = "restore" => target[e][s].tried
  BY <1>1, <1>2 DEF Marked
<1>5. ~ em'[e].fresh
  <2>1. em' = [em EXCEPT ![e].fresh = FALSE] /\ em \in [Emergencies -> EmergencyRow]
    BY <1>1, <1>2 DEF Heartbeat, Actions, EmergencyInv, Types
  <2> QED
    BY <2>1 DEF EmergencyRow
<1>6. ASSUME NEW k \in Jobs, k # j, at[k][s] = "writing", job[k].em = e PROVE FALSE
  <2>1. Handles(k, s) /\ job[k].action \in Actions
    BY <1>6, JobOf DEF EmergencyInv, Handles
  <2> QED
    BY <1>1, <1>6, <2>1 DEF Handles, Actions
<1> QED
  BY <1>1, <1>3, <1>4, <1>5, <1>6

LEMMA RenewInv ==
  ASSUME EmergencyInv, NEW j \in Jobs, NEW s \in Shops, Renew(j, s) PROVE EmergencyInv'
<1>1. /\ at[j][s] = "claimed" /\ Heartbeat(j)
      /\ UNCHANGED <<known, later, request, job, used, recon, opener, store, closedBy, events>>
  BY DEF Renew
<1>2. Handles(j, s) /\ job[j].phase = "working"
  BY <1>1 DEF EmergencyInv, Handles
<1>3. PICK e \in Emergencies : e = job[j].em
  BY <1>2, JobOf DEF EmergencyInv
<1>4. job[j].action \in Actions
  BY <1>2, JobOf DEF EmergencyInv
<1>5. /\ em' \in [Emergencies -> EmergencyRow]
      /\ \A d \in Emergencies : /\ em'[d].status = em[d].status
                                /\ em'[d].finished = em[d].finished
                                /\ em'[d].all = em[d].all
                                /\ em'[d].fresh => em[d].fresh
  BY <1>1, <1>2, HeartbeatCalms
<1>6. CASE Moves(j, s, "idle") /\ UNCHANGED target
  <2>1. /\ at' \in [Jobs -> [Shops -> Steps]]
        /\ at'[j][s] = "idle"
        /\ \A k \in Jobs, r \in Shops : k # j \/ r # s => at'[k][r] = at[k][r]
    BY <1>6, StepSet DEF EmergencyInv, Steps, Moves
  <2>2. Types'
    BY <1>1, <1>5, <1>6, <2>1 DEF EmergencyInv, Types
  <2>3. Permits'
    <3>1. \A k \in Jobs, r \in Shops : at'[k][r] = "writing" => at[k][r] = "writing"
      BY <2>1
    <3> QED
      BY <1>1, <1>5, <1>6, <3>1, PermitsKept
  <2>4. Handles(j, s)'
    BY <2>1 DEF Handles
  <2> QED
    BY <1>1, <1>5, <1>6, <2>1, <2>2, <2>3, <2>4, Looks DEF EmergencyInv
<1>7. CASE /\ LeaseHeld(j, s) /\ job[j].action = "restore"
           /\ Moves(j, s, IF Conflict(e, {s}) THEN "refused" ELSE "writing") /\ UNCHANGED target
  <2>1. PICK step \in {"refused", "writing"} :
          at' = [at EXCEPT ![j][s] = step] /\ (step = "writing" => ~ Conflict(e, {s}))
    BY <1>7 DEF Moves
  <2>0. step \in Steps
    BY DEF Steps
  <2>2. /\ at' \in [Jobs -> [Shops -> Steps]]
        /\ at'[j][s] = step
        /\ \A k \in Jobs, r \in Shops : k # j \/ r # s => at'[k][r] = at[k][r]
    BY <2>0, <2>1, StepSet, ZenonT(60) DEF EmergencyInv
  <2>3. Types'
    BY <1>1, <1>5, <1>7, <2>2 DEF EmergencyInv, Types
  <2>4. Permits'
    <3>1. /\ \A d \in Emergencies : Live(d)' = Live(d)
          /\ \A d \in Emergencies, r \in Shops : Covers(d, r)' = Covers(d, r)
      BY <1>5, <1>7 DEF Live, Covers, Targets
    <3>2. Permits /\ job' = job /\ opener' = opener
      BY <1>1 DEF EmergencyInv
    <3>3. \A d \in Emergencies : step = "writing" /\ d # e /\ Live(d) => ~ Covers(d, s)
      BY <2>1 DEF Conflict, Covers
    <3>4. \A o \in Openers, d \in Emergencies : (opener[o] # Nobody /\ Live(d) => ~ Covers(d, opener[o]))'
      BY <3>1, <3>2 DEF Permits, Types, EmergencyInv
    <3>5. ASSUME NEW k \in Jobs, NEW r \in Shops, NEW d \in Emergencies,
                 at'[k][r] = "writing", job'[k].action = "restore", d # job'[k].em, Live(d)'
          PROVE  ~ Covers(d, r)'
      <4>1. CASE k = j /\ r = s
        BY <1>3, <2>2, <3>1, <3>2, <3>3, <3>5, <4>1
      <4>2. CASE k # j \/ r # s
        BY <2>2, <3>1, <3>2, <3>5, <4>2 DEF Permits
      <4> QED
        BY <4>1, <4>2
    <3> QED
      BY <3>4, <3>5 DEF Permits
  <2>5. Handles(j, s)'
    <3>1. /\ em[e].status = "restoring" /\ target[e][s].restore = "running" /\ target[e][s].lease = j
          /\ ~ em'[e].fresh
      BY <1>1, <1>2, <1>3, <1>7, Leased
    <3>2. job'[j] = job[j] /\ target' = target /\ em'[e].status = em[e].status
      BY <1>1, <1>5, <1>7
    <3> QED
      BY <1>2, <1>3, <1>7, <2>2, <3>1, <3>2 DEF Handles
  <2> QED
    BY <1>1, <1>5, <1>7, <2>2, <2>3, <2>4, <2>5, Looks DEF EmergencyInv
<1>8. CASE /\ LeaseHeld(j, s) /\ job[j].action = "offline"
           /\ target' = [target EXCEPT ![e][s].restore = "required"] /\ Moves(j, s, "writing")
  <2>1. PICK t \in TargetRow : t = target[e][s]
    BY DEF EmergencyInv, Types
  <2>2. PICK row \in TargetRow : row = [t EXCEPT !.restore = "required"]
    BY DEF TargetRow
  <2>3. /\ row.offline = t.offline /\ row.restore = "required" /\ row.lease = t.lease /\ row.tried = t.tried
    BY <2>2 DEF TargetRow
  <2>4. /\ target' \in [Emergencies -> [Shops -> TargetRow]]
        /\ target'[e][s] = row
        /\ \A r \in Shops : r # s => target'[e][r] = target[e][r]
        /\ \A d \in Emergencies : d # e => target'[d] = target[d]
    <3>1. target' = [target EXCEPT ![e][s] = row]
      BY <1>8, <2>1, <2>2
    <3> QED
      BY <3>1, RowSet DEF EmergencyInv
  <2>5. /\ at' \in [Jobs -> [Shops -> Steps]]
        /\ at'[j][s] = "writing"
        /\ \A k \in Jobs, r \in Shops : k # j \/ r # s => at'[k][r] = at[k][r]
    BY <1>8, StepSet DEF EmergencyInv, Steps, Moves
  <2>6. /\ t.lease = j /\ t.offline = "running" /\ em[e].status = "running" /\ s \in known /\ ~ em'[e].fresh
        /\ \A k \in Jobs : k # j /\ at[k][s] = "writing" => job[k].em # e
    BY <1>1, <1>2, <1>3, <1>8, <2>1, Leased
  <2>7. Marked(e, s) /\ Closes(e, s)
    BY DEF EmergencyInv, Emergency
  <2>8. em'[e].status = "running" /\ known' = known /\ closedBy' = closedBy /\ Shut(s)' = Shut(s)
    BY <1>1, <1>5, <2>6 DEF Shut
  <2>9. Marked(e, s)'
    BY <2>1, <2>3, <2>4, <2>6, <2>7, <2>8 DEF Marked, Hopeful, Returning, Closing, InShutdown
  <2>10. Closes(e, s)'
    BY <2>3, <2>4, <2>6, <2>8 DEF Closes, Owns, Owned, Hopeful, Returning, Again, Ended
  <2>11. Handles(j, s)'
    <3>1. job'[j] = job[j]
      BY <1>1
    <3> QED
      BY <1>2, <1>3, <1>8, <2>3, <2>4, <2>5, <2>6, <2>8, <3>1, ZenonT(60) DEF Handles
  <2>12. Types'
    BY <1>1, <1>5, <2>4, <2>5 DEF EmergencyInv, Types
  <2>13. Permits'
    <3>1. \A d \in Emergencies, r \in Shops : target'[d][r].offline # "absent" => target[d][r].offline # "absent"
      BY <2>1, <2>3, <2>4
    <3>2. \A k \in Jobs, r \in Shops : at'[k][r] = "writing" /\ job'[k].action = "restore"
            => at[k][r] = "writing" /\ job[k].action = "restore" /\ job'[k].em = job[k].em
      BY <1>1, <1>8, <2>5
    <3> QED
      BY <1>1, <1>5, <3>1, <3>2, PermitsStay
  <2>14. /\ target'[e][s].lease \in {j, Nobody} /\ target'[e][s].offline # "absent"
         /\ target[e][s].offline = "done" \/ target[e][s].tried
              => target'[e][s].offline = "done" \/ target'[e][s].tried
         /\ \/ em[e].status = "running" /\ target[e][s].offline \in InShutdown
            \/ em[e].status = "restoring" /\ (Reopens(target[e][s]) \/ target[e][s].restore = "running")
    BY <2>1, <2>3, <2>4, <2>6 DEF InShutdown
  <2>15. /\ job'[j].phase = "working" /\ job'[j].em = e /\ job'[j].action = job[j].action
         /\ \A k \in Jobs : k # j => job'[k] = job[k]
    BY <1>1, <1>2, <1>3
  <2> QED
    BY <1>1, <1>2, <1>3, <1>5, <2>4, <2>5, <2>6, <2>9, <2>10, <2>11, <2>12, <2>13, <2>14, <2>15, Moved
<1> QED
  BY <1>3, <1>6, <1>7, <1>8 DEF Renew

LEMMA ReportInv ==
  ASSUME EmergencyInv, NEW j \in Jobs, NEW s \in Shops, Report(j, s) PROVE EmergencyInv'
<1>1. /\ at[j][s] \in {"confirmed", "refused"} /\ Heartbeat(j)
      /\ UNCHANGED <<known, later, request, job, used, recon, opener, store, closedBy, events>>
      /\ at' = [at EXCEPT ![j][s] = "idle"]
  BY DEF Report, Moves
<1>2. Handles(j, s) /\ job[j].phase = "working"
  BY <1>1 DEF EmergencyInv, Handles
<1>3. PICK e \in Emergencies : e = job[j].em
  BY <1>2, JobOf DEF EmergencyInv
<1>4. job[j].action \in Actions
  BY <1>2, JobOf DEF EmergencyInv
<1>5. /\ em' \in [Emergencies -> EmergencyRow]
      /\ \A d \in Emergencies : /\ em'[d].status = em[d].status
                                /\ em'[d].finished = em[d].finished
                                /\ em'[d].all = em[d].all
                                /\ em'[d].fresh => em[d].fresh
  BY <1>1, <1>2, HeartbeatCalms
<1>6. /\ at' \in [Jobs -> [Shops -> Steps]]
      /\ at'[j][s] = "idle"
      /\ \A k \in Jobs, r \in Shops : k # j \/ r # s => at'[k][r] = at[k][r]
  BY <1>1, StepSet DEF EmergencyInv, Steps
<1>7. Handles(j, s)' /\ \A k \in Jobs, r \in Shops : at'[k][r] = "writing" => at[k][r] = "writing"
  BY <1>6 DEF Handles
<1>8. CASE ~ LeaseHeld(j, s)
  <2>1. target' = target
    BY <1>8 DEF Report
  <2>2. Types'
    BY <1>1, <1>5, <1>6, <2>1 DEF EmergencyInv, Types
  <2>3. Permits'
    BY <1>1, <1>5, <1>7, <2>1, PermitsKept
  <2> QED
    BY <1>1, <1>5, <1>6, <1>7, <2>1, <2>2, <2>3, Looks DEF EmergencyInv
<1>9. CASE LeaseHeld(j, s)
  <2>1. PICK t \in TargetRow : t = target[e][s]
    BY DEF EmergencyInv, Types
  <2> DEFINE offline == job[j].action = "offline"
             confirmed == at[j][s] = "confirmed"
  <2>2. PICK row \in TargetRow : row = Outcome(t, offline, confirmed)
    <3>1. Outcome(t, offline, confirmed) \in TargetRow
      BY DEF TargetRow, Outcome
    <3> QED
      BY <3>1
  <2>3. /\ offline /\ confirmed => row.offline = "done" /\ row.restore = "pending"
        /\ offline /\ ~ confirmed => row.offline = "failed" /\ row.restore = t.restore
        /\ ~ offline => row.offline = t.offline /\ row.restore = IF confirmed THEN "done" ELSE "failed"
        /\ row.lease = Nobody /\ row.tried = t.tried
    BY <2>2 DEF TargetRow, Outcome
  <2>4. /\ target' \in [Emergencies -> [Shops -> TargetRow]]
        /\ target'[e][s] = row
        /\ \A r \in Shops : r # s => target'[e][r] = target[e][r]
        /\ \A d \in Emergencies : d # e => target'[d] = target[d]
    <3>1. target' = [target EXCEPT ![e][s] = row]
      BY <1>3, <1>9, <2>1, <2>2 DEF Report
    <3> QED
      BY <3>1, RowSet DEF EmergencyInv
  <2>5. /\ t.lease = j /\ t.offline # "absent" /\ s \in known
        /\ offline => em[e].status = "running" /\ t.offline = "running"
        /\ ~ offline => em[e].status = "restoring" /\ t.restore = "running" /\ t.tried
        /\ ~ em'[e].fresh
        /\ \A k \in Jobs : k # j /\ at[k][s] = "writing" => job[k].em # e
    <3>1. ~ offline => job[j].action = "restore"
      BY <1>4 DEF Actions
    <3> QED
      BY <1>1, <1>2, <1>3, <1>9, <2>1, <3>1, Leased
  <2>6. Marked(e, s) /\ Closes(e, s)
    BY DEF EmergencyInv, Emergency
  <2>7. em'[e].status = em[e].status /\ known' = known /\ closedBy' = closedBy /\ Shut(s)' = Shut(s)
    BY <1>1, <1>5 DEF Shut
  <2>8. (offline /\ confirmed => Shut(s)) /\ (~ offline /\ confirmed => closedBy[s] # e)
    BY <1>2, <1>3, <1>4, <2>1, <2>5 DEF Handles, Actions
  <2> HIDE DEF offline, confirmed
  <2>9. Marked(e, s)'
    BY <2>1, <2>3, <2>4, <2>5, <2>6, <2>7, <2>8 DEF Marked, Hopeful, Returning, Closing, InShutdown, InPlace
  <2>10. Closes(e, s)'
    BY <2>1, <2>3, <2>4, <2>5, <2>6, <2>7, <2>8
       DEF Closes, Owns, Owned, Hopeful, Returning, Again, Ended, Closing, InShutdown, InPlace
  <2>11. Types'
    BY <1>1, <1>5, <1>6, <2>4 DEF EmergencyInv, Types
  <2>12. /\ target'[e][s].lease \in {j, Nobody} /\ target'[e][s].offline # "absent"
         /\ target[e][s].offline = "done" \/ target[e][s].tried
              => target'[e][s].offline = "done" \/ target'[e][s].tried
         /\ \/ em[e].status = "running" /\ target[e][s].offline \in InShutdown
            \/ em[e].status = "restoring" /\ (Reopens(target[e][s]) \/ target[e][s].restore = "running")
    BY <2>1, <2>3, <2>4, <2>5 DEF InShutdown
  <2>13. Permits'
    <3>1. \A d \in Emergencies, r \in Shops : target'[d][r].offline # "absent" => target[d][r].offline # "absent"
      BY <2>4, <2>5, <2>1
    <3> QED
      BY <1>1, <1>5, <1>7, <3>1, PermitsStay
  <2>14. /\ job'[j].phase = "working" /\ job'[j].em = e /\ job'[j].action = job[j].action
         /\ \A k \in Jobs : k # j => job'[k] = job[k]
    BY <1>1, <1>2, <1>3
  <2> QED
    BY <1>1, <1>2, <1>3, <1>5, <1>6, <1>7, <2>4, <2>5, <2>9, <2>10, <2>11, <2>12, <2>13, <2>14, Moved, SMTT(30)
<1> QED
  BY <1>8, <1>9

\* No worker writes for an emergency that is not in transition, or only just.
LEMMA NoWrites ==
  ASSUME EmergencyInv, NEW e \in Emergencies, em[e].fresh \/ em[e].status \notin {"running", "restoring"}
  PROVE  \A s \in Shops : ~ MidWrite(e, s) /\ (em[e].status # "pending" => target[e][s].offline # "running")
                          /\ (em[e].fresh => target[e][s].offline # "running")
<1>1. Asked(e)
  BY DEF EmergencyInv, Emergency
<1>2. ASSUME NEW s \in Shops, NEW j \in Jobs, job[j].phase # "free", job[j].em = e, at[j][s] = "writing" PROVE FALSE
  <2>1. Handles(j, s) /\ job[j].action \in Actions
    BY <1>2, JobOf DEF EmergencyInv
  <2> QED
    BY <1>1, <1>2, <2>1 DEF Handles, Asked, Actions
<1>3. ASSUME NEW s \in Shops
      PROVE  (em[e].status # "pending" => target[e][s].offline # "running")
             /\ (em[e].fresh => target[e][s].offline # "running")
  <2>1. Marked(e, s)
    BY DEF EmergencyInv, Emergency
  <2> QED
    BY <1>1, <2>1 DEF Marked, Asked, InShutdown
<1> QED
  BY <1>2, <1>3 DEF MidWrite

LEMMA NotReconciling ==
  ASSUME EmergencyInv, NEW e \in Emergencies, recon'[e] = recon[e],
         recon[e].step # "writing",
         \A s \in Shops : target[e][s].offline # "absent" => target'[e][s].offline # "absent"
  PROVE  Reconciles(e)'
BY DEF EmergencyInv, Reconciles, Types

\* The row of an emergency is replaced.
LEMMA EmSet ==
  ASSUME Types, NEW e \in Emergencies, NEW row \in EmergencyRow, em' = [em EXCEPT ![e] = row]
  PROVE  /\ em' \in [Emergencies -> EmergencyRow]
         /\ em'[e] = row
         /\ \A d \in Emergencies : d # e => em'[d] = em[d]
BY DEF Types

LEMMA RequestSet ==
  ASSUME Types, NEW e \in Emergencies, NEW r, request' = [request EXCEPT ![e] = r]
  PROVE  /\ DOMAIN request' = Emergencies
         /\ request'[e] = r
         /\ \A d \in Emergencies : d # e => request'[d] = request[d]
BY DEF Types

\* Some of its targets are written.
Writes(e, rows) == target' = [target EXCEPT ![e] = Written(e, rows)]

LEMMA RowsSet ==
  ASSUME Types, NEW e \in Emergencies, NEW S, NEW rows, S \subseteq Shops, rows \in [S -> TargetRow], Writes(e, rows)
  PROVE  /\ target' \in [Emergencies -> [Shops -> TargetRow]]
         /\ \A d \in Emergencies : d # e => target'[d] = target[d]
         /\ \A s \in Shops : s \notin S => target'[e][s] = target[e][s]
         /\ \A s \in S : /\ target'[e][s].lease = Nobody
                         /\ target'[e][s].offline = rows[s].offline
                         /\ target'[e][s].restore = rows[s].restore
                         /\ target'[e][s].tried = rows[s].tried
<1>1. target \in [Emergencies -> [Shops -> TargetRow]] /\ DOMAIN rows = S
  BY DEF Types
<1>2. \A s \in S : /\ [rows[s] EXCEPT !.lease = Nobody] \in TargetRow
                   /\ [rows[s] EXCEPT !.lease = Nobody].lease = Nobody
                   /\ [rows[s] EXCEPT !.lease = Nobody].offline = rows[s].offline
                   /\ [rows[s] EXCEPT !.lease = Nobody].restore = rows[s].restore
                   /\ [rows[s] EXCEPT !.lease = Nobody].tried = rows[s].tried
  BY DEF TargetRow
<1>3. /\ target'[e] = Written(e, rows)
      /\ \A d \in Emergencies : d # e => target'[d] = target[d]
      /\ DOMAIN target' = Emergencies
  BY <1>1 DEF Writes
<1>4. target'[e] = [s \in Shops |-> IF s \in S THEN [rows[s] EXCEPT !.lease = Nobody] ELSE target[e][s]]
  BY <1>1, <1>3 DEF Written
<1>5. target'[e] \in [Shops -> TargetRow]
  BY <1>1, <1>2, <1>4
<1>6. target' \in [Emergencies -> [Shops -> TargetRow]]
  <2>1. \A d \in Emergencies : target'[d] \in [Shops -> TargetRow]
    BY <1>1, <1>3, <1>5
  <2>2. target' = [d \in Emergencies |-> target'[d]]
    BY <1>1 DEF Writes
  <2> QED
    BY <2>1, <2>2
<1> QED
  BY <1>2, <1>3, <1>4, <1>6

-----------------------------------------------------------------------------
(* Requests.                                                               *)

LEMMA CreateInv ==
  ASSUME EmergencyInv, NEW e \in Emergencies, NEW all \in BOOLEAN, NEW S \in SUBSET Shops, Create(e, all, S)
  PROVE  EmergencyInv'
<1>1. /\ em[e].status = "none" /\ NoPermit /\ S \subseteq known
      /\ em' = [em EXCEPT ![e] = [status |-> "pending", all |-> all, finished |-> FALSE,
                                  due |-> FALSE, fresh |-> TRUE]]
      /\ target' = [target EXCEPT ![e] = [s \in Shops |-> IF s \in S THEN Fresh ELSE Absent]]
      /\ request' = [request EXCEPT ![e] = [kind |-> "create", action |-> "offline"]]
      /\ UNCHANGED <<known, later, job, at, used, recon, opener, store, closedBy, events>>
  BY DEF Create
<1>2. PICK row \in EmergencyRow : /\ em' = [em EXCEPT ![e] = row]
                                  /\ row.status = "pending" /\ ~ row.finished /\ row.fresh
  <2> DEFINE row == [status |-> "pending", all |-> all, finished |-> FALSE, due |-> FALSE, fresh |-> TRUE]
  <2>1. row \in EmergencyRow /\ row.status = "pending" /\ ~ row.finished /\ row.fresh
    BY DEF EmergencyRow, Statuses, LiveStatus, InShutdown
  <2>2. em' = [em EXCEPT ![e] = row]
    BY <1>1
  <2> HIDE DEF row
  <2> QED
    BY <2>1, <2>2
<1>3. /\ em' \in [Emergencies -> EmergencyRow]
      /\ em'[e].status = "pending" /\ ~ em'[e].finished /\ em'[e].fresh
      /\ \A d \in Emergencies : d # e => em'[d] = em[d]
  BY <1>2, EmSet DEF EmergencyInv
<1>4. /\ DOMAIN request' = Emergencies
      /\ request'[e] = [kind |-> "create", action |-> "offline"]
      /\ \A d \in Emergencies : d # e => request'[d] = request[d]
  BY <1>1, RequestSet DEF EmergencyInv
<1>5. Fresh \in TargetRow /\ Absent \in TargetRow
  BY DEF Fresh, Absent, TargetRow
<1>6. /\ target' \in [Emergencies -> [Shops -> TargetRow]]
      /\ \A d \in Emergencies : d # e => target'[d] = target[d]
      /\ \A s \in Shops : target'[e][s] = IF s \in S THEN Fresh ELSE Absent
  <2> DEFINE rows == [s \in Shops |-> IF s \in S THEN Fresh ELSE Absent]
  <2>1. rows \in [Shops -> TargetRow]
    BY <1>5
  <2>2. target' = [target EXCEPT ![e] = rows]
    BY <1>1
  <2>3. \A s \in Shops : rows[s] = IF s \in S THEN Fresh ELSE Absent
    OBVIOUS
  <2> HIDE DEF rows
  <2> QED
    BY <2>1, <2>2, <2>3 DEF EmergencyInv, Types
<1>7. Types'
  BY <1>1, <1>3, <1>4, <1>6 DEF EmergencyInv, Types
<1>8. \A s \in Shops : /\ target[e][s].offline = "absent"
                       /\ target'[e][s].offline \in {"absent", "pending"}
                       /\ target'[e][s].offline = "absent" => target'[e][s].restore = "not_required"
                       /\ target'[e][s].offline # "absent" => s \in known
                       /\ target'[e][s].restore \in {"not_required", "pending"}
                       /\ closedBy[s] # e
  <2>1. ASSUME NEW s \in Shops PROVE target[e][s].offline = "absent" /\ closedBy[s] # e
    <3>1. Marked(e, s) /\ Closes(e, s)
      BY DEF EmergencyInv, Emergency
    <3> QED
      BY <1>1, <3>1 DEF Marked, Closes
  <2> QED
    BY <1>1, <1>6, <2>1 DEF Fresh, Absent
<1>9. Emergency(e)'
  <2>1. Asked(e)'
    BY <1>3, <1>4 DEF Asked, Actions, NoRequest
  <2>2. ASSUME NEW s \in Shops PROVE Marked(e, s)' /\ Closes(e, s)'
    BY <1>1, <1>3, <1>8 DEF Marked, Closes
  <2> QED
    BY <1>3, <2>1, <2>2 DEF Emergency, Ended
<1>10. Reconciles(e)'
  BY <1>1, <1>8, NotReconciling DEF NoPermit
<1>11. Permits'
  BY <1>1, PermitsUnasked DEF EmergencyInv
<1>12. \A j \in Jobs : job[j].phase # "free" => job[j].em # e
  BY <1>1 DEF EmergencyInv, Worked
<1> QED
  BY <1>1, <1>3, <1>4, <1>6, <1>7, <1>8, <1>9, <1>10, <1>11, <1>12, Rewrites DEF MidWrite

LEMMA RestoreInv ==
  ASSUME EmergencyInv, NEW e \in Emergencies, RestoreNow(e) \/ RestoreExpired(e) PROVE EmergencyInv'
<1>1. /\ em[e].status \in InPlace /\ NoPermit
      /\ em' = [em EXCEPT ![e].status = "restoring", ![e].fresh = TRUE]
      /\ request' = [request EXCEPT ![e] = [kind |-> "restore", action |-> "restore", before |-> em[e].status]]
      /\ events' \in 0..MaxEvents
      /\ UNCHANGED <<known, later, target, job, at, used, recon, opener, store, closedBy>>
  BY Spends DEF RestoreNow, RestoreExpired, Restore, EmergencyInv, Types
<1>2. ~ em[e].finished
  BY <1>1 DEF EmergencyInv, Emergency, InPlace, Ended
<1>3. PICK row \in EmergencyRow : /\ em' = [em EXCEPT ![e] = row]
                                  /\ row.status = "restoring" /\ ~ row.finished /\ row.fresh
  <2> DEFINE row == [em[e] EXCEPT !.status = "restoring", !.fresh = TRUE]
  <2>1. row \in EmergencyRow /\ row.status = "restoring" /\ ~ row.finished /\ row.fresh
    <3>1. em[e] \in EmergencyRow
      BY DEF EmergencyInv, Types
    <3> QED
      BY <1>2, <3>1 DEF EmergencyRow, Statuses, LiveStatus
  <2>2. em' = [em EXCEPT ![e] = row]
    BY <1>1
  <2> QED
    BY <2>1, <2>2
<1>4. /\ em' \in [Emergencies -> EmergencyRow]
      /\ em'[e].status = "restoring" /\ ~ em'[e].finished /\ em'[e].fresh
      /\ \A d \in Emergencies : d # e => em'[d] = em[d]
  BY <1>3, EmSet DEF EmergencyInv
<1>5. /\ DOMAIN request' = Emergencies
      /\ request'[e] = [kind |-> "restore", action |-> "restore", before |-> em[e].status]
      /\ \A d \in Emergencies : d # e => request'[d] = request[d]
  BY <1>1, RequestSet DEF EmergencyInv
<1>6. Types'
  BY <1>1, <1>4, <1>5 DEF EmergencyInv, Types
<1>7. Emergency(e)'
  <2>1. Asked(e)'
    BY <1>1, <1>4, <1>5 DEF Asked, Actions, NoRequest
  <2>2. ASSUME NEW s \in Shops PROVE Marked(e, s)' /\ Closes(e, s)'
    <3>1. Marked(e, s) /\ Closes(e, s) /\ Shut(s)' = Shut(s)
      BY <1>1 DEF EmergencyInv, Emergency, Shut
    <3>2. ~ Hopeful(e)' /\ ~ Again(e)'
      BY <1>5 DEF Hopeful, Again
    <3>3. em[e].status \in Closing /\ target[e][s].offline # "running"
      BY <1>1, NoWrites DEF Closing, InPlace
    <3>4. Marked(e, s)'
      BY <1>1, <1>4, <3>1, <3>2, <3>3 DEF Marked, InPlace
    <3>5. Closes(e, s)'
      BY <1>1, <1>4, <3>1, <3>2, <3>3 DEF Closes, Ended
    <3> QED
      BY <3>4, <3>5
  <2> QED
    BY <1>4, <2>1, <2>2 DEF Emergency, Ended
<1>8. Reconciles(e)'
  BY <1>1, NotReconciling DEF NoPermit
<1>9. Permits'
  BY <1>1, PermitsUnasked DEF EmergencyInv
<1>10. \A s \in Shops : ~ MidWrite(e, s)
  BY <1>1, NoWrites DEF InPlace
<1>11. \A j \in Jobs : Started(j) /\ job[j].em = e => job[j].action # "restore"
  BY <1>1 DEF EmergencyInv, Worked, InPlace, Giving
<1> QED
  BY <1>1, <1>4, <1>5, <1>6, <1>7, <1>8, <1>9, <1>10, <1>11, Rewrites DEF Started, InShutdown

LEMMA EmEnds ==
  ASSUME Types, NEW e \in Emergencies, NEW x \in Statuses, NEW f \in BOOLEAN, NEW y \in BOOLEAN,
         em' = [em EXCEPT ![e].status = x, ![e].finished = f, ![e].fresh = y]
  PROVE  /\ em' \in [Emergencies -> EmergencyRow]
         /\ em'[e].status = x /\ em'[e].finished = f /\ em'[e].fresh = y /\ em'[e].all = em[e].all
         /\ \A d \in Emergencies : d # e => em'[d] = em[d]
<1>1. em \in [Emergencies -> EmergencyRow] /\ em[e] \in EmergencyRow
  BY DEF Types
<1> DEFINE row == [em[e] EXCEPT !.status = x, !.finished = f, !.fresh = y]
<1>2. row \in EmergencyRow /\ row.status = x /\ row.finished = f /\ row.fresh = y /\ row.all = em[e].all
  BY <1>1 DEF EmergencyRow
<1>3. em' = [em EXCEPT ![e] = row]
  OBVIOUS
<1> HIDE DEF row
<1> QED
  BY <1>2, <1>3, EmSet

LEMMA EmTurns ==
  ASSUME Types, NEW e \in Emergencies, NEW x \in Statuses, NEW y \in BOOLEAN,
         em' = [em EXCEPT ![e].status = x, ![e].fresh = y]
  PROVE  /\ em' \in [Emergencies -> EmergencyRow]
         /\ em'[e].status = x /\ em'[e].finished = em[e].finished /\ em'[e].fresh = y
         /\ em'[e].all = em[e].all
         /\ \A d \in Emergencies : d # e => em'[d] = em[d]
<1>1. em \in [Emergencies -> EmergencyRow] /\ em[e] \in EmergencyRow
  BY DEF Types
<1> DEFINE row == [em[e] EXCEPT !.status = x, !.fresh = y]
<1>2. /\ row \in EmergencyRow /\ row.status = x /\ row.fresh = y
      /\ row.finished = em[e].finished /\ row.all = em[e].all
  BY <1>1 DEF EmergencyRow
<1>3. em' = [em EXCEPT ![e] = row]
  OBVIOUS
<1> HIDE DEF row
<1> QED
  BY <1>2, <1>3, EmSet

LEMMA RetryFailuresInv == ASSUME EmergencyInv, NEW e \in Emergencies, RetryFailures(e) PROVE EmergencyInv'
<1> DEFINE st == em[e].status
           again == st \in {"failed", "partial_success"}
<1>1. PICK S \in SUBSET Shops, was \in SUBSET Shops :
        /\ S = {s \in Targets(e) : IF again THEN target[e][s].offline = "failed" ELSE Retryable(target[e][s])}
        /\ was = {s \in S : target[e][s].restore = "failed"}
        /\ target' = [target EXCEPT ![e] = Written(e, [s \in S |->
                      IF again THEN [target[e][s] EXCEPT !.offline = "pending"]
                      ELSE [target[e][s] EXCEPT !.restore = "required"]])]
        /\ request' = [request EXCEPT ![e] =
                       [kind |-> "retry", action |-> IF again THEN "offline" ELSE "restore",
                        before |-> st, ended |-> em[e].finished, taken |-> S, was |-> was]]
  BY DEF RetryFailures, Targets
<1>2. /\ st \in {"failed", "partial_success", "restore_failed", "partial_restored"}
      /\ NoPermit /\ ~ Settling(e) /\ events' \in 0..MaxEvents
      /\ em' = [em EXCEPT ![e].status = IF again THEN "pending" ELSE "restoring",
                          ![e].finished = FALSE, ![e].fresh = TRUE]
      /\ UNCHANGED <<known, later, job, at, used, recon, opener, store, closedBy>>
  BY Spends DEF RetryFailures
<1>3. PICK next \in {"pending", "restoring"} : next = IF again THEN "pending" ELSE "restoring"
  OBVIOUS
<1>4. /\ em' \in [Emergencies -> EmergencyRow]
      /\ em'[e].status = next /\ ~ em'[e].finished /\ em'[e].fresh
      /\ \A d \in Emergencies : d # e => em'[d] = em[d]
  <2>1. next \in Statuses
    BY DEF Statuses, LiveStatus, InShutdown
  <2>2. em' = [em EXCEPT ![e].status = next, ![e].finished = FALSE, ![e].fresh = TRUE]
    BY <1>2, <1>3
  <2> HIDE DEF again, st
  <2> QED
    BY <2>1, <2>2, EmEnds, ZenonT(60) DEF EmergencyInv
<1>5. PICK rows \in [S -> TargetRow] :
        rows = [s \in S |-> IF again THEN [target[e][s] EXCEPT !.offline = "pending"]
                            ELSE [target[e][s] EXCEPT !.restore = "required"]]
  <2>1. \A s \in S : target[e][s] \in TargetRow
    BY DEF EmergencyInv, Types
  <2>2. \A s \in S : /\ [target[e][s] EXCEPT !.offline = "pending"] \in TargetRow
                     /\ [target[e][s] EXCEPT !.restore = "required"] \in TargetRow
    BY <2>1 DEF TargetRow
  <2> QED
    BY <2>2
<1>6. \A s \in S : /\ rows[s].offline = IF again THEN "pending" ELSE target[e][s].offline
                   /\ rows[s].restore = IF again THEN target[e][s].restore ELSE "required"
                   /\ rows[s].tried = target[e][s].tried
  <2>1. \A s \in S : target[e][s] \in TargetRow
    BY DEF EmergencyInv, Types
  <2> QED
    BY <1>5, <2>1 DEF TargetRow
<1>7. /\ target' \in [Emergencies -> [Shops -> TargetRow]]
      /\ \A d \in Emergencies : d # e => target'[d] = target[d]
      /\ \A s \in Shops : s \notin S => target'[e][s] = target[e][s]
      /\ \A s \in S : /\ target'[e][s].lease = Nobody
                      /\ target'[e][s].offline = IF again THEN "pending" ELSE target[e][s].offline
                      /\ target'[e][s].restore = IF again THEN target[e][s].restore ELSE "required"
                      /\ target'[e][s].tried = target[e][s].tried
  <2>1. Writes(e, rows)
    BY <1>1, <1>5 DEF Writes
  <2>2. Types /\ S \subseteq Shops /\ rows \in [S -> TargetRow]
    BY <1>1, <1>5 DEF EmergencyInv
  <2>3. /\ target' \in [Emergencies -> [Shops -> TargetRow]]
        /\ \A d \in Emergencies : d # e => target'[d] = target[d]
        /\ \A s \in Shops : s \notin S => target'[e][s] = target[e][s]
        /\ \A s \in S : /\ target'[e][s].lease = Nobody
                        /\ target'[e][s].offline = rows[s].offline
                        /\ target'[e][s].restore = rows[s].restore
                        /\ target'[e][s].tried = rows[s].tried
    BY <2>1, <2>2, RowsSet
  <2> HIDE DEF again, st
  <2> QED
    BY <1>6, <2>3
<1>8. /\ DOMAIN request' = Emergencies
      /\ request'[e] = [kind |-> "retry", action |-> IF again THEN "offline" ELSE "restore",
                        before |-> st, ended |-> em[e].finished, taken |-> S, was |-> was]
      /\ \A d \in Emergencies : d # e => request'[d] = request[d]
  BY <1>1, RequestSet DEF EmergencyInv
<1>9. Types'
  BY <1>2, <1>4, <1>7, <1>8 DEF EmergencyInv, Types
<1>10. \A s \in Shops : ~ MidWrite(e, s) /\ target[e][s].offline # "running"
  BY <1>2, NoWrites
<1>11. em[e].finished <=> st \in Ended
  BY DEF EmergencyInv, Emergency
<1>12. \A s \in S : target[e][s].offline # "absent" /\ (again => target[e][s].offline = "failed")
                    /\ (~ again => Retryable(target[e][s]))
  BY <1>1 DEF Targets
<1>13. \A s \in was : s \in S /\ target[e][s].restore = "failed"
  BY <1>1
<1>14. Emergency(e)'
  <2>1. Asked(e)'
    <3>1. ~ again => \A s \in was : target'[e][s].offline = "done" \/ target'[e][s].tried
      BY <1>7, <1>12, <1>13 DEF Retryable
    <3>2. CASE again
      BY <1>2, <1>3, <1>4, <1>8, <1>11, <3>2 DEF Asked, Actions, NoRequest, Ended
    <3>3. CASE ~ again
      BY <1>2, <1>3, <1>4, <1>8, <1>11, <3>1, <3>3 DEF Asked, Actions, NoRequest, Ended
    <3> QED
      BY <3>2, <3>3
  <2>2. /\ ~ Returning(e)'
        /\ Hopeful(e)' => st = "failed"
        /\ Again(e)' => ~ again
    BY <1>8 DEF Returning, Hopeful, Again
  <2>3. ASSUME NEW s \in Shops PROVE Marked(e, s)' /\ Closes(e, s)'
    <3>1. Marked(e, s) /\ Closes(e, s) /\ Shut(s)' = Shut(s) /\ known' = known /\ closedBy' = closedBy
      BY <1>2 DEF EmergencyInv, Emergency, Shut
    <3>2. /\ target'[e][s].offline = target[e][s].offline
             \/ (s \in S /\ again /\ target[e][s].offline = "failed" /\ target'[e][s].offline = "pending")
          /\ target'[e][s].restore = target[e][s].restore
             \/ (s \in S /\ ~ again /\ target'[e][s].restore = "required")
          /\ target'[e][s].tried = target[e][s].tried
          /\ s \in S => target[e][s].offline # "absent"
      BY <1>7, <1>12
    <3> HIDE DEF again
    <3>3. /\ again => st \in {"failed", "partial_success"} /\ next = "pending"
          /\ ~ again => st \in {"restore_failed", "partial_restored"} /\ next = "restoring"
      BY <1>2, <1>3 DEF again
    <3>4. Marked(e, s)'
      BY <1>4, <1>10, <2>2, <3>1, <3>2, <3>3 DEF Marked, Closing, InShutdown, InPlace
    <3>5. Closes(e, s)'
      BY <1>4, <2>2, <3>1, <3>2, <3>3 DEF Closes, Owns, Owned, Closing, InShutdown, InPlace, Ended
    <3> QED
      BY <3>4, <3>5
  <2> QED
    BY <1>3, <1>4, <2>1, <2>3 DEF Emergency, Ended
<1>15. Reconciles(e)'
  <2>1. \A s \in Shops : target[e][s].offline # "absent" => target'[e][s].offline # "absent"
    BY <1>7
  <2> QED
    BY <1>2, <2>1, NotReconciling DEF NoPermit
<1>16. Permits'
  BY <1>2, PermitsUnasked DEF EmergencyInv
<1>17. \A s \in Shops : target'[e][s].offline = "running" /\ target'[e][s].lease \in Jobs =>
            target[e][s].offline = "running" /\ target[e][s].lease = target'[e][s].lease
  BY <1>7, EmergencyConstants DEF EmergencyConstants
<1>18. \A j \in Jobs : job[j].phase # "free" /\ job[j].em = e =>
          /\ Started(j) /\ job[j].action = "restore" => em'[e].status \in Giving /\ ~ Returning(e)'
          /\ job[j].phase # "settling"
  <2>1. ASSUME NEW j \in Jobs, Started(j), job[j].em = e, job[j].action = "restore"
        PROVE  em'[e].status \in Giving
    <3>1. st \in Giving
      BY <2>1 DEF EmergencyInv, Worked
    <3> QED
      BY <1>2, <1>3, <1>4, <3>1 DEF Giving
  <2>2. ~ Returning(e)'
    BY <1>8 DEF Returning
  <2> QED
    BY <1>2, <2>1, <2>2 DEF Settling
<1>19. em'[e].status # "none"
  BY <1>4
<1> HIDE DEF again, st
<1> QED
  BY <1>2, <1>4, <1>7, <1>8, <1>9, <1>10, <1>14, <1>15, <1>16, <1>17, <1>18, <1>19, Rewrites

\* The requests whose transition may be taken back, and what is written then.
LEMMA NotQueuedCases ==
  ASSUME EmergencyInv, NEW e \in Emergencies, NotQueued(e), em[e].fresh
  PROVE  \/ /\ request[e].kind = "create"
            /\ em' = [em EXCEPT ![e].status = "failed", ![e].finished = TRUE, ![e].fresh = FALSE]
            /\ target' = [target EXCEPT ![e] = Written(e,
                 [s \in {x \in Shops : target[e][x].offline = "pending"} |->
                    [target[e][s] EXCEPT !.offline = "failed"]])]
         \/ /\ request[e].kind = "restore"
            /\ em' = [em EXCEPT ![e].status = request[e].before, ![e].fresh = FALSE]
            /\ UNCHANGED target
         \/ /\ request[e].kind = "retry" /\ request[e].action = "offline"
            /\ em' = [em EXCEPT ![e].status = request[e].before, ![e].finished = request[e].ended, ![e].fresh = FALSE]
            /\ target' = [target EXCEPT ![e] = Written(e,
                 [s \in {x \in request[e].taken : target[e][x].offline = "pending"} |->
                    [target[e][s] EXCEPT !.offline = "failed"]])]
         \/ /\ request[e].kind = "retry" /\ request[e].action = "restore"
            /\ em' = [em EXCEPT ![e].status = request[e].before, ![e].finished = request[e].ended, ![e].fresh = FALSE]
            /\ target' = [target EXCEPT ![e] = Written(e,
                 [s \in {x \in request[e].was : target[e][x].restore = "required"} |->
                    [target[e][s] EXCEPT !.restore = "failed"]])]
<1>1. request[e].action \in Actions
  BY DEF NotQueued, EmergencyInv, Emergency, Asked
<1>2. CASE request[e].action = "offline"
  BY <1>2 DEF NotQueued
<1>3. CASE request[e].action = "restore"
  BY <1>3 DEF NotQueued
<1> QED
  BY <1>1, <1>2, <1>3 DEF Actions

\* What the request that is taken back leaves.
TakenBack(e) ==
  /\ em' \in [Emergencies -> EmergencyRow]
  /\ target' \in [Emergencies -> [Shops -> TargetRow]]
  /\ \A d \in Emergencies : d # e => em'[d] = em[d] /\ target'[d] = target[d]
  /\ ~ em'[e].fresh /\ em'[e].all = em[e].all
  /\ em'[e].finished <=> em'[e].status \in Ended
  /\ \A s \in Shops :
       /\ target'[e][s].tried = target[e][s].tried
       /\ \/ target'[e][s] = target[e][s]
          \/ target'[e][s].lease = Nobody
       /\ \/ target'[e][s].offline = target[e][s].offline
          \/ target[e][s].offline = "pending" /\ target'[e][s].offline = "failed"
  /\ \/ /\ Hopeful(e) /\ em'[e].status = "failed"
        /\ \A s \in Shops : target'[e][s].restore = target[e][s].restore
     \/ Returning(e) /\ em'[e].status \in InPlace /\ target' = target
     \/ /\ em[e].status = "pending" /\ em'[e].status = "partial_success"
        /\ \A s \in Shops : target'[e][s].restore = target[e][s].restore
     \/ /\ Again(e) /\ em'[e].status \in {"restore_failed", "partial_restored"}
        /\ \A s \in Shops : /\ target'[e][s].offline = target[e][s].offline
                            /\ \/ target'[e][s].restore = target[e][s].restore
                               \/ /\ target[e][s].restore = "required" /\ target'[e][s].restore = "failed"
                                  /\ target[e][s].offline = "done" \/ target[e][s].tried

LEMMA NotQueuedTakesBack ==
  ASSUME EmergencyInv, NEW e \in Emergencies, NotQueued(e), em[e].fresh
  PROVE  TakenBack(e)
<1>1. /\ Types /\ Asked(e) /\ request[e] # NoRequest
      /\ em[e].finished <=> em[e].status \in Ended
  BY DEF EmergencyInv, Emergency, NotQueued
<1>2. \A s \in Shops : /\ target[e][s] \in TargetRow
                       /\ [target[e][s] EXCEPT !.offline = "failed"] \in TargetRow
                       /\ [target[e][s] EXCEPT !.offline = "failed"].offline = "failed"
                       /\ [target[e][s] EXCEPT !.offline = "failed"].restore = target[e][s].restore
                       /\ [target[e][s] EXCEPT !.offline = "failed"].tried = target[e][s].tried
                       /\ [target[e][s] EXCEPT !.restore = "failed"] \in TargetRow
                       /\ [target[e][s] EXCEPT !.restore = "failed"].restore = "failed"
                       /\ [target[e][s] EXCEPT !.restore = "failed"].offline = target[e][s].offline
                       /\ [target[e][s] EXCEPT !.restore = "failed"].tried = target[e][s].tried
  <2>1. \A s \in Shops : target[e][s] \in TargetRow
    BY <1>1 DEF Types
  <2> QED
    BY <2>1 DEF TargetRow
<1>3. ASSUME NEW S \in SUBSET Shops, \A s \in S : target[e][s].offline = "pending",
             Writes(e, [s \in S |-> [target[e][s] EXCEPT !.offline = "failed"]])
      PROVE  /\ target' \in [Emergencies -> [Shops -> TargetRow]]
             /\ \A d \in Emergencies : d # e => target'[d] = target[d]
             /\ \A s \in Shops :
                  /\ target'[e][s].tried = target[e][s].tried
                  /\ target'[e][s] = target[e][s] \/ target'[e][s].lease = Nobody
                  /\ \/ target'[e][s].offline = target[e][s].offline
                     \/ target[e][s].offline = "pending" /\ target'[e][s].offline = "failed"
                  /\ target'[e][s].restore = target[e][s].restore
  <2>1. PICK rows : rows = [s \in S |-> [target[e][s] EXCEPT !.offline = "failed"]]
    OBVIOUS
  <2>2. rows \in [S -> TargetRow] /\ S \subseteq Shops /\ Writes(e, rows)
    BY <1>2, <1>3, <2>1
  <2>3. \A s \in S : /\ rows[s].offline = "failed" /\ rows[s].restore = target[e][s].restore
                     /\ rows[s].tried = target[e][s].tried
    BY <1>2, <2>1
  <2> QED
    BY <1>1, <1>3, <2>2, <2>3, RowsSet
<1>4. ASSUME NEW S \in SUBSET Shops, \A s \in S : target[e][s].restore = "required",
             Writes(e, [s \in S |-> [target[e][s] EXCEPT !.restore = "failed"]])
      PROVE  /\ target' \in [Emergencies -> [Shops -> TargetRow]]
             /\ \A d \in Emergencies : d # e => target'[d] = target[d]
             /\ \A s \in Shops :
                  /\ target'[e][s].tried = target[e][s].tried
                  /\ target'[e][s] = target[e][s] \/ target'[e][s].lease = Nobody
                  /\ target'[e][s].offline = target[e][s].offline
                  /\ \/ target'[e][s].restore = target[e][s].restore
                     \/ s \in S /\ target[e][s].restore = "required" /\ target'[e][s].restore = "failed"
  <2>1. PICK rows : rows = [s \in S |-> [target[e][s] EXCEPT !.restore = "failed"]]
    OBVIOUS
  <2>2. rows \in [S -> TargetRow] /\ S \subseteq Shops /\ Writes(e, rows)
    BY <1>2, <1>4, <2>1
  <2>3. \A s \in S : /\ rows[s].restore = "failed" /\ rows[s].offline = target[e][s].offline
                     /\ rows[s].tried = target[e][s].tried
    BY <1>2, <2>1
  <2> QED
    BY <1>1, <1>4, <2>2, <2>3, RowsSet
<1>5. CASE request[e].kind = "create"
  <2>1. em' = [em EXCEPT ![e].status = "failed", ![e].finished = TRUE, ![e].fresh = FALSE]
    BY <1>5, NotQueuedCases, ZenonT(60)
  <2>2. /\ em' \in [Emergencies -> EmergencyRow]
        /\ em'[e].status = "failed" /\ em'[e].finished = TRUE /\ em'[e].fresh = FALSE
        /\ em'[e].all = em[e].all
        /\ \A d \in Emergencies : d # e => em'[d] = em[d]
    BY <1>1, <2>1, EmEnds, ZenonT(60) DEF Statuses, Ended
  <2>3. PICK S \in SUBSET Shops : S = {x \in Shops : target[e][x].offline = "pending"}
    BY ZenonT(60)
  <2>4. Writes(e, [s \in S |-> [target[e][s] EXCEPT !.offline = "failed"]])
    BY <1>5, <2>3, NotQueuedCases, ZenonT(60) DEF Writes
  <2>5. Hopeful(e)
    BY <1>5 DEF Hopeful
  <2> QED
    BY <1>3, <2>2, <2>3, <2>4, <2>5 DEF TakenBack, Ended
<1>6. CASE request[e].kind = "restore"
  <2>1. request[e].before \in InPlace /\ em[e].status = "restoring"
    BY <1>1, <1>6, SMTT(30) DEF Asked
  <2>2. em' = [em EXCEPT ![e].status = request[e].before, ![e].fresh = FALSE] /\ target' = target
    BY <1>6, NotQueuedCases, ZenonT(60)
  <2>3. request[e].before \in Statuses
    BY <2>1 DEF Statuses, LiveStatus
  <2>4. /\ em' \in [Emergencies -> EmergencyRow]
        /\ em'[e].status = request[e].before /\ em'[e].finished = em[e].finished /\ em'[e].fresh = FALSE
        /\ em'[e].all = em[e].all
        /\ \A d \in Emergencies : d # e => em'[d] = em[d]
    BY <1>1, <2>2, <2>3, EmTurns
  <2>5. Returning(e)
    BY <1>6 DEF Returning
  <2>6. em'[e].finished <=> em'[e].status \in Ended
    BY <1>1, <2>1, <2>4 DEF InPlace, Ended
  <2> QED
    BY <1>1, <2>1, <2>2, <2>4, <2>5, <2>6 DEF TakenBack, Types
<1>7. CASE request[e].kind = "retry"
  <2>1. \/ /\ request[e].action = "offline" /\ em[e].status = "pending"
           /\ \/ request[e].before = "failed" /\ request[e].ended = TRUE
              \/ request[e].before = "partial_success" /\ request[e].ended = FALSE
        \/ /\ request[e].action = "restore"
           /\ request[e].before \in {"restore_failed", "partial_restored"} /\ request[e].ended = TRUE
           /\ \A s \in Shops : s \in request[e].was => target[e][s].offline = "done" \/ target[e][s].tried
    BY <1>1, <1>7 DEF Asked
  <2>2. request[e].taken \subseteq Shops /\ request[e].was \subseteq Shops
    BY <1>1, <1>7 DEF Asked
  <2>3. request[e].before \in Statuses /\ request[e].ended \in BOOLEAN
    BY <2>1, ZenonT(60) DEF Statuses, LiveStatus, InPlace, Ended
  <2>4. em' = [em EXCEPT ![e].status = request[e].before, ![e].finished = request[e].ended, ![e].fresh = FALSE]
    BY <1>7, NotQueuedCases, ZenonT(60)
  <2>5. /\ em' \in [Emergencies -> EmergencyRow]
        /\ em'[e].status = request[e].before /\ em'[e].finished = request[e].ended /\ em'[e].fresh = FALSE
        /\ em'[e].all = em[e].all
        /\ \A d \in Emergencies : d # e => em'[d] = em[d]
    BY <1>1, <2>3, <2>4, EmEnds, ZenonT(60)
  <2>6. em'[e].finished <=> em'[e].status \in Ended
    BY <2>1, <2>5 DEF Ended
  <2>7. CASE request[e].action = "offline"
    <3>1. PICK S \in SUBSET Shops : S = {x \in request[e].taken : target[e][x].offline = "pending"}
      BY <2>2, ZenonT(60)
    <3>2. Writes(e, [s \in S |-> [target[e][s] EXCEPT !.offline = "failed"]])
      BY <1>7, <2>7, <3>1, NotQueuedCases, ZenonT(60) DEF Writes
    <3>3. request[e].before = "failed" => Hopeful(e)
      BY <1>7 DEF Hopeful
    <3> QED
      BY <1>3, <2>1, <2>5, <2>6, <2>7, <3>1, <3>2, <3>3 DEF TakenBack
  <2>8. CASE request[e].action = "restore"
    <3>1. PICK S \in SUBSET Shops : S = {x \in request[e].was : target[e][x].restore = "required"}
      BY <2>2, ZenonT(60)
    <3>2. Writes(e, [s \in S |-> [target[e][s] EXCEPT !.restore = "failed"]])
      BY <1>7, <2>8, <3>1, NotQueuedCases, ZenonT(60) DEF Writes
    <3>3. Again(e)
      BY <1>7, <2>8 DEF Again
    <3> QED
      BY <1>4, <2>1, <2>5, <2>6, <2>8, <3>1, <3>2, <3>3 DEF TakenBack
  <2> QED
    BY <2>1, <2>7, <2>8
<1> QED
  BY <1>1, <1>5, <1>6, <1>7 DEF Asked

LEMMA NotQueuedInv == ASSUME EmergencyInv, NEW e \in Emergencies, NotQueued(e) PROVE EmergencyInv'
<1>1. /\ request[e] # NoRequest /\ events' \in 0..MaxEvents
      /\ Stored(e) \/ UNCHANGED <<job, used>>
      /\ request' = [request EXCEPT ![e] = NoRequest]
      /\ UNCHANGED <<known, later, at, recon, opener, store, closedBy>>
  BY Spends DEF NotQueued
<1>2. /\ DOMAIN request' = Emergencies
      /\ request'[e] = NoRequest
      /\ \A d \in Emergencies : d # e => request'[d] = request[d]
  BY <1>1, RequestSet DEF EmergencyInv
<1>3. ASSUME NEW j \in Jobs, NEW s \in Shops, at'[j][s] = "writing"
      PROVE  at[j][s] = "writing" /\ job'[j] = job[j]
  BY <1>1, <1>3, StoresJob, IdleAt DEF Free
<1>4. ASSUME NEW j \in Jobs, job'[j] # job[j], em'[e].status # "none"
      PROVE  Worked(j)' /\ \A s \in Shops : Handles(j, s)'
  <2>1. job[j] = Free /\ job'[j].phase = "queued" /\ job'[j].em = e
    BY <1>1, <1>4, StoresJob
  <2>2. \A s \in Shops : at'[j][s] = "idle"
    BY <1>1, <2>1, IdleAt DEF Free
  <2> QED
    BY <1>4, <2>1, <2>2, QueuedJob
<1>5. em[e].status # "none"
  BY <1>1 DEF EmergencyInv, Emergency, Asked
<1>6. CASE ~ em[e].fresh
  <2>1. UNCHANGED <<em, target>>
    BY <1>6 DEF NotQueued
  <2>2. Types'
    BY <1>1, <1>2, <2>1, StoresJob DEF EmergencyInv, Types
  <2>3. Permits'
    BY <1>1, <1>3, <2>1, PermitsKept
  <2>4. \A d \in Emergencies : /\ request'[d] = request[d] \/ request'[d] = NoRequest
                               /\ em'[d].fresh => request'[d] = request[d]
    BY <1>2, <1>6, <2>1
  <2> QED
    BY <1>1, <1>4, <1>5, <2>1, <2>2, <2>3, <2>4, Looks DEF EmergencyInv
<1>7. CASE em[e].fresh
  <2>1. TakenBack(e)
    BY <1>7, NotQueuedTakesBack
  <2>2. Types'
    BY <1>1, <1>2, <2>1, StoresJob DEF EmergencyInv, Types, TakenBack
  <2>3. Emergency(e) /\ Asked(e) /\ em[e].status \in {"pending", "restoring"}
    BY <1>7 DEF EmergencyInv, Emergency, Asked
  <2>4. \A s \in Shops : ~ MidWrite(e, s) /\ target[e][s].offline # "running"
    BY <1>7, NoWrites
  <2>5. Permits'
    <3>1. \A d \in Emergencies : (em'[d].status \in LiveStatus /\ ~ em'[d].finished)
                                  => em[d].status \in LiveStatus /\ ~ em[d].finished
      <4>1. ~ em[e].finished /\ em[e].status \in LiveStatus
        BY <2>3 DEF Emergency, Ended, LiveStatus, InShutdown
      <4> QED
        BY <2>1, <4>1 DEF TakenBack
    <3>2. \A d \in Emergencies, s \in Shops : em'[d].all \/ target'[d][s].offline # "absent"
                                  => em[d].all \/ target[d][s].offline # "absent"
      BY <2>1 DEF TakenBack
    <3> QED
      BY <1>1, <1>3, <3>1, <3>2, PermitsStay
  <2>6. Asked(e)'
    BY <1>2, <2>1 DEF Asked, TakenBack
  <2>7. ~ Hopeful(e)' /\ ~ Returning(e)' /\ ~ Again(e)'
    BY <2>1 DEF TakenBack, Hopeful, Returning, Again
  <2>8. ASSUME NEW s \in Shops PROVE Marked(e, s)' /\ Closes(e, s)'
    <3>1. Marked(e, s) /\ Closes(e, s) /\ Shut(s)' = Shut(s) /\ known' = known /\ closedBy' = closedBy
      BY <1>1, <2>3 DEF Emergency, Shut
    <3>2. target[e][s].offline # "running"
      BY <2>4
    <3>3. Marked(e, s)'
      BY <2>1, <2>3, <2>7, <3>1, <3>2 DEF TakenBack, Marked, Closing, InShutdown, InPlace
    <3>4. Closes(e, s)'
      BY <2>1, <2>3, <2>7, <3>1, <3>2 DEF TakenBack, Closes, Owns, Owned, Closing, InShutdown, InPlace, Ended
    <3> QED
      BY <3>3, <3>4
  <2>9. Emergency(e)'
    BY <2>1, <2>6, <2>8 DEF Emergency, TakenBack
  <2>10. Reconciles(e)'
    <3>1. em[e].status \notin InPlace
      BY <2>3 DEF InPlace
    <3>2. recon[e].step # "writing"
      BY <3>1 DEF EmergencyInv, Reconciles
    <3>3. \A s \in Shops : target[e][s].offline # "absent" => target'[e][s].offline # "absent"
      BY <2>1 DEF TakenBack
    <3> QED
      BY <1>1, <3>2, <3>3, NotReconciling
  <2>11. /\ em'[e].status \notin {"none", "restoring"} \cup InShutdown
         /\ em'[e].status \in Giving \/ Returning(e) \/ em[e].status = "pending" \/ Hopeful(e)
    BY <2>1 DEF TakenBack, InPlace, InShutdown, Giving
  <2>12. Hopeful(e) => em[e].status = "pending"
    BY <2>3 DEF Hopeful, Asked
  <2>13. ASSUME NEW j \in Jobs, Started(j), job[j].em = e, job[j].action = "restore"
         PROVE  em'[e].status \in Giving
    <3>1. em[e].status \in Giving /\ ~ Returning(e)
      BY <2>13 DEF EmergencyInv, Worked
    <3> QED
      BY <2>11, <2>12, <3>1 DEF Giving
  <2>14. \A s \in Shops : target'[e][s].offline = "running" /\ target'[e][s].lease \in Jobs =>
            target[e][s].offline = "running" /\ target[e][s].lease = target'[e][s].lease
    BY <2>1, EmergencyConstants DEF EmergencyConstants, TakenBack
  <2>15. \A d \in Emergencies : d # e => /\ em'[d] = em[d] /\ target'[d] = target[d]
                                         /\ request'[d] = request[d] /\ recon'[d] = recon[d]
    BY <1>1, <1>2, <2>1 DEF TakenBack
  <2> QED
    BY <1>1, <1>4, <2>2, <2>4, <2>5, <2>7, <2>9, <2>10, <2>11, <2>13, <2>14, <2>15, Rewrites
<1> QED
  BY <1>6, <1>7

-----------------------------------------------------------------------------
(* The jobs settle an emergency.                                           *)

LEMMA StartInv == ASSUME EmergencyInv, NEW j \in Jobs, Start(j) PROVE EmergencyInv'
<1>1. job[j].phase = "queued"
  BY DEF Start
<1>2. PICK e \in Emergencies : e = job[j].em
  BY <1>1, JobOf DEF EmergencyInv
<1> DEFINE claims == IF job[j].action = "offline" THEN em[e].status = "pending" /\ ~ em[e].finished
                     ELSE em[e].status = "restoring" /\ ~ em[e].finished
           mine == [job[j] EXCEPT !.phase = "claimed"]
           next == IF em[e].status = "pending" THEN "running" ELSE em[e].status
<1>3. /\ IF claims THEN /\ job' = [job EXCEPT ![j] = mine]
                        /\ em' = [em EXCEPT ![e].status = next, ![e].fresh = FALSE]
                   ELSE job' = [job EXCEPT ![j] = Free] /\ UNCHANGED em
      /\ UNCHANGED <<known, later, target, request, at, used, recon, opener, store, closedBy, events>>
  BY <1>2 DEF Start
<1>4. \A s \in Shops : at[j][s] = "idle"
  BY <1>1, IdleAt
<1>5. job[j].action \in Actions
  BY <1>1, JobOf DEF EmergencyInv
<1>6. CASE ~ claims
  <2>1. /\ job' \in [Jobs -> {Free} \cup Waiting \cup Working \cup Ending]
        /\ \A k \in Jobs \ {j} : job'[k] = job[k]
        /\ job'[j] = Free
    BY <1>3, <1>6 DEF EmergencyInv, Types
  <2>2. Worked(j)' /\ \A s \in Shops : Handles(j, s)'
    BY <1>3, <1>4, <2>1, FreeJob
  <2> QED
    BY <1>1, <1>3, <1>4, <1>6, <2>1, <2>2, JobLooks DEF EmergencyInv, Types
<1>7. CASE claims
  <2>1. job[j] \in {Free} \cup Waiting \cup Working \cup Ending
    BY DEF EmergencyInv, Types
  <2>2. job[j] \in Waiting
    BY <1>1, <2>1 DEF Free, Waiting, Working, Ending
  <2>3. mine \in Waiting /\ mine.phase = "claimed" /\ mine.em = e /\ mine.action = job[j].action
    BY <1>2, <2>2 DEF Waiting
  <2>4. /\ job' \in [Jobs -> {Free} \cup Waiting \cup Working \cup Ending]
        /\ \A k \in Jobs \ {j} : job'[k] = job[k]
        /\ job'[j].phase = "claimed" /\ job'[j].em = e /\ job'[j].action = job[j].action
    <3>1. job' = [job EXCEPT ![j] = mine]
      BY <1>3, <1>7
    <3> HIDE DEF mine
    <3> QED
      BY <2>3, <3>1 DEF EmergencyInv, Types
  <2>5. /\ em' \in [Emergencies -> EmergencyRow]
        /\ em'[e].status = next /\ em'[e].finished = em[e].finished /\ em'[e].fresh = FALSE
        /\ em'[e].all = em[e].all
        /\ \A d \in Emergencies : d # e => em'[d] = em[d]
    <3>1. next \in Statuses /\ FALSE \in BOOLEAN
      BY DEF EmergencyInv, Types, EmergencyRow, Statuses, LiveStatus, InShutdown
    <3>2. em' = [em EXCEPT ![e].status = next, ![e].fresh = FALSE]
      BY <1>3, <1>7
    <3> HIDE DEF next
    <3> QED
      BY <3>1, <3>2, EmTurns DEF EmergencyInv
  <2>6. Types'
    BY <1>3, <2>4, <2>5 DEF EmergencyInv, Types
  <2>7. Permits'
    <3>1. \A k \in Jobs, s \in Shops : at'[k][s] = "writing" => at[k][s] = "writing" /\ k # j
      BY <1>3, <1>4
    <3>2. \A d \in Emergencies : (em'[d].status \in LiveStatus /\ ~ em'[d].finished)
                                  => em[d].status \in LiveStatus /\ ~ em[d].finished
      BY <2>5 DEF LiveStatus, InShutdown
    <3> QED
      BY <1>3, <2>4, <2>5, <3>1, <3>2, PermitsStay
  <2>8. \A s \in Shops : Handles(j, s)'
    BY <1>3, <1>4 DEF Handles
  <2>9. CASE em[e].status # "pending"
    <3>1. \A d \in Emergencies : /\ em'[d].status = em[d].status
                                 /\ em'[d].finished = em[d].finished
                                 /\ em'[d].all = em[d].all
                                 /\ em'[d].fresh => em[d].fresh /\ request'[d] = request[d]
                                 /\ request'[d] = request[d] \/ request'[d] = NoRequest
      BY <1>3, <2>5, <2>9
    <3>2. Worked(j)'
      BY <1>7, <2>4, <2>5, <2>9 DEF Worked, Started, Giving, Returning
    <3> QED
      BY <1>3, <2>4, <2>6, <2>7, <2>8, <3>1, <3>2, Looks DEF EmergencyInv
  <2>10. CASE em[e].status = "pending"
    <3>1. em'[e].status = "running" /\ job[j].action = "offline" /\ Emergency(e)
      BY <1>5, <1>7, <2>5, <2>10 DEF EmergencyInv, Actions
    <3>2. Worked(j)'
      BY <2>4, <3>1 DEF Worked, Started
    <3>3. ~ Hopeful(e)' /\ ~ Returning(e)' /\ ~ Again(e)'
      BY <2>5 DEF Hopeful, Returning, Again
    <3>4. ASSUME NEW s \in Shops PROVE Marked(e, s)' /\ Closes(e, s)'
      <4>1. /\ Marked(e, s) /\ Closes(e, s) /\ Shut(s)' = Shut(s) /\ known' = known /\ closedBy' = closedBy
            /\ target' = target /\ em'[e].fresh = FALSE
        BY <1>3, <2>5, <3>1 DEF Emergency, Shut
      <4>2. Marked(e, s)'
        BY <2>10, <3>1, <3>3, <4>1 DEF Marked, Closing, InShutdown
      <4>3. Closes(e, s)'
        BY <2>10, <3>1, <3>3, <4>1 DEF Closes, Closing, InShutdown, Ended
      <4> QED
        BY <4>2, <4>3
    <3>5. Emergency(e)'
      <4>1. Asked(e)'
        BY <1>3, <2>5, <3>1 DEF Emergency, Asked
      <4> QED
        BY <2>5, <2>10, <3>1, <3>4, <4>1 DEF Emergency, Ended
    <3>6. Reconciles(e)'
      <4>1. recon[e].step # "writing"
        BY <2>10 DEF EmergencyInv, Reconciles, InPlace
      <4> QED
        BY <1>3, <4>1, NotReconciling
    <3>7. \A s \in Shops : ~ MidWrite(e, s)
      BY <2>10, NoWrites
    <3>8. \A k \in Jobs : Started(k) /\ job[k].em = e => job[k].action # "restore"
      BY <2>10 DEF EmergencyInv, Worked, Giving
    <3>9. \A s \in Shops : target'[e][s].offline = "running" /\ target'[e][s].lease \in Jobs =>
            target[e][s].offline = "running" /\ target[e][s].lease = target'[e][s].lease
      BY <1>3
    <3>10. em'[e].status \in InShutdown /\ em[e].status \in InShutdown /\ em'[e].status # "none"
      BY <2>10, <3>1 DEF InShutdown
    <3>11. \A d \in Emergencies : d # e => /\ em'[d] = em[d] /\ target'[d] = target[d]
                                           /\ request'[d] = request[d] /\ recon'[d] = recon[d]
      BY <1>3, <2>5
    <3> QED
      BY <1>3, <2>4, <2>6, <2>7, <2>8, <3>2, <3>5, <3>6, <3>7, <3>8, <3>9, <3>10, <3>11, Rewrites
  <2> QED
    BY <2>9, <2>10
<1> QED
  BY <1>6, <1>7

LEMMA FinalizeInv == ASSUME EmergencyInv, NEW j \in Jobs, Finalize(j) PROVE EmergencyInv'
<1>1. job[j].phase = "settling"
  BY DEF Finalize
<1>2. PICK e \in Emergencies : e = job[j].em
  BY <1>1, JobOf DEF EmergencyInv
<1>3. job[j].action \in Actions
  BY <1>1, JobOf DEF EmergencyInv
<1> DEFINE turns == ~ em[e].finished
                    /\ em[e].status = (IF job[j].action = "offline" THEN "running" ELSE "restoring")
<1>4. /\ em' = IF turns THEN [em EXCEPT ![e].status = job[j].status, ![e].finished = job[j].status \in Ended,
                                        ![e].fresh = FALSE]
               ELSE em
      /\ job' = [job EXCEPT ![j] = Free]
      /\ UNCHANGED <<known, later, target, request, at, used, recon, opener, store, closedBy, events>>
  BY <1>2 DEF Finalize
<1>5. /\ job' \in [Jobs -> {Free} \cup Waiting \cup Working \cup Ending]
      /\ \A k \in Jobs \ {j} : job'[k] = job[k]
      /\ job'[j] = Free
  BY <1>4 DEF EmergencyInv, Types
<1>6. \A s \in Shops : at[j][s] = "idle"
  BY <1>1, IdleAt
<1>7. Worked(j)' /\ \A s \in Shops : Handles(j, s)'
  BY <1>4, <1>5, <1>6, FreeJob
<1>8. CASE ~ turns
  BY <1>1, <1>4, <1>5, <1>6, <1>7, <1>8, JobLooks DEF EmergencyInv, Types
<1>9. CASE turns
  <2>1. Worked(j) /\ Emergency(e) /\ Asked(e)
    BY DEF EmergencyInv, Emergency
  <2>2. PICK st \in Statuses : st = job[j].status
    <3>1. job[j] \in {Free} \cup Waiting \cup Working \cup Ending
      BY DEF EmergencyInv, Types
    <3>2. job[j] \in Ending
      BY <1>1, <3>1 DEF Free, Waiting, Working, Ending
    <3> QED
      BY <3>2 DEF Ending
  <2>3. /\ em' \in [Emergencies -> EmergencyRow]
        /\ em'[e].status = st /\ (em'[e].finished <=> st \in Ended) /\ em'[e].fresh = FALSE
        /\ em'[e].all = em[e].all
        /\ \A d \in Emergencies : d # e => em'[d] = em[d]
    <3>1. em' = [em EXCEPT ![e].status = st, ![e].finished = st \in Ended, ![e].fresh = FALSE]
      BY <1>4, <1>9, <2>2
    <3>2. (st \in Ended) \in BOOLEAN
      OBVIOUS
    <3> QED
      BY <3>1, <3>2, EmEnds, ZenonT(60) DEF EmergencyInv
  <2>4. \/ /\ em[e].status = "running" /\ st = ShutdownStatus(target[e])
           /\ \A s \in Shops : target[e][s].offline \notin InShutdown
        \/ /\ em[e].status = "restoring" /\ st = RestoreStatus(target[e])
           /\ \A s \in Shops : ~ Reopens(target[e][s]) /\ target[e][s].restore # "running"
    BY <1>1, <1>2, <1>3, <1>9, <2>1, <2>2 DEF Worked, Actions, InShutdown
  <2>5. \/ /\ em[e].status = "running" /\ st \in {"offline", "partial_success", "failed"}
           /\ \A s \in Shops : target[e][s].offline \notin {"pending", "running"}
           /\ st = "failed" => \A s \in Shops : target[e][s].offline # "absent" =>
                 target[e][s].offline # "done" /\ ~ Owned(target[e][s])
        \/ /\ em[e].status = "restoring" /\ st \in {"restored", "partial_restored", "restore_failed"}
           /\ \A s \in Shops : ~ Reopens(target[e][s]) /\ target[e][s].restore # "running"
           /\ st = "restored" => \A s \in Shops : target[e][s].restore \notin {"required", "running", "failed"}
    BY <2>4, ShutdownStatuses, RestoreStatuses DEF InShutdown
  <2>6. ~ Hopeful(e)' /\ ~ Returning(e)' /\ ~ Again(e)' /\ (~ em[e].fresh \/ em[e].status = "restoring")
    BY <2>1, <2>3, <2>5 DEF Hopeful, Returning, Again, Asked
  <2>7. ASSUME NEW s \in Shops PROVE Marked(e, s)' /\ Closes(e, s)'
    <3>1. /\ Marked(e, s) /\ Closes(e, s) /\ Shut(s)' = Shut(s) /\ known' = known /\ closedBy' = closedBy
          /\ target' = target /\ em'[e].fresh = FALSE
      BY <1>4, <2>1, <2>3 DEF Emergency, Shut
    <3>2. CASE em[e].status = "running"
      <4>1. st \in {"offline", "partial_success", "failed"} /\ target[e][s].offline \notin {"pending", "running"}
            /\ (st = "failed" => target[e][s].offline = "absent"
                                 \/ (target[e][s].offline # "done" /\ ~ Owned(target[e][s])))
        BY <2>5, <3>2
      <4>2. Marked(e, s)'
        BY <2>3, <2>6, <3>1, <3>2, <4>1 DEF Marked, Closing, InShutdown, InPlace
      <4>3. Closes(e, s)'
        BY <2>3, <2>6, <3>1, <3>2, <4>1 DEF Closes, Closing, Owns, InShutdown, InPlace, Ended
      <4> QED
        BY <4>2, <4>3
    <3>3. CASE em[e].status = "restoring"
      <4>1. /\ st \in {"restored", "partial_restored", "restore_failed"}
            /\ ~ Reopens(target[e][s]) /\ target[e][s].restore # "running"
            /\ st = "restored" => target[e][s].restore \notin {"required", "running", "failed"}
        BY <2>5, <3>3
      <4>2. Marked(e, s)'
        BY <2>3, <2>6, <3>1, <3>3, <4>1 DEF Marked, Closing, InShutdown, InPlace
      <4>3. Closes(e, s)'
        BY <2>3, <2>6, <3>1, <3>3, <4>1 DEF Closes, Closing, Owns, Owned, Reopens, InShutdown, InPlace, Ended
      <4> QED
        BY <4>2, <4>3
    <3> QED
      BY <2>5, <3>2, <3>3
  <2>8. Emergency(e)'
    <3>1. Asked(e)'
      BY <1>4, <2>1, <2>3, <2>5 DEF Asked
    <3> QED
      BY <2>3, <2>7, <3>1 DEF Emergency
  <2>9. Reconciles(e)'
    <3>1. recon[e].step # "writing"
      BY <2>5 DEF EmergencyInv, Reconciles, InPlace
    <3> QED
      BY <1>4, <3>1, NotReconciling
  <2>10. \A s \in Shops : ~ MidWrite(e, s)
    <3>1. ASSUME NEW s \in Shops, NEW k \in Jobs, job[k].phase # "free", job[k].em = e, at[k][s] = "writing"
          PROVE FALSE
      <4>1. Handles(k, s) /\ job[k].action \in Actions
        BY <3>1, JobOf DEF EmergencyInv
      <4> QED
        BY <2>5, <3>1, <4>1 DEF Handles, Actions
    <3> QED
      BY <3>1 DEF MidWrite
  <2>11. \A k \in Jobs : Started(k) /\ job[k].em = e /\ job[k].action = "restore" => st \in Giving
    <3>1. \A k \in Jobs : Started(k) /\ job[k].em = e /\ job[k].action = "restore" => em[e].status \in Giving
      BY DEF EmergencyInv, Worked
    <3> QED
      BY <2>5, <3>1 DEF Giving
  <2>12. st \notin InShutdown \cup {"none", "restoring"}
    BY <2>5 DEF InShutdown
  <2>13. Types'
    BY <1>4, <1>5, <2>3 DEF EmergencyInv, Types
  <2>14. Permits'
    <3>1. em[e].status \in LiveStatus /\ ~ em[e].finished
      BY <1>9, <2>5 DEF LiveStatus, InShutdown
    <3>2. \A k \in Jobs, s \in Shops : at'[k][s] = "writing" => at[k][s] = "writing" /\ k # j
      BY <1>4, <1>6
    <3> QED
      BY <1>4, <1>5, <2>3, <3>1, <3>2, PermitsStay
  <2>15. \A s \in Shops : target'[e][s].offline = "running" /\ target'[e][s].lease \in Jobs =>
            target[e][s].offline = "running" /\ target[e][s].lease = target'[e][s].lease
    BY <1>4
  <2>16. \A d \in Emergencies : d # e => /\ em'[d] = em[d] /\ target'[d] = target[d]
                                         /\ request'[d] = request[d] /\ recon'[d] = recon[d]
    BY <1>4, <2>3
  <2> QED
    BY <1>4, <1>5, <1>7, <2>3, <2>6, <2>8, <2>9, <2>10, <2>11, <2>12, <2>13, <2>14, <2>15, <2>16, Rewrites
<1> QED
  BY <1>8, <1>9

\* The targets of an emergency that fails, and its row once it is settled.
FailedRows(e, offline) ==
  Written(e, [s \in {x \in Shops : IF offline THEN target[e][x].offline \in InShutdown
                                   ELSE Reopens(target[e][x]) \/ target[e][x].restore = "running"} |->
                IF offline THEN [target[e][s] EXCEPT !.offline = "failed"]
                ELSE [target[e][s] EXCEPT !.restore = IF target[e][s].offline = "done" THEN "failed" ELSE "required"]])
FailedStatus(e, offline) == IF offline THEN ShutdownStatus(FailedRows(e, offline)) ELSE RestoreStatus(FailedRows(e, offline))
Settles(e, st) == em' = [em EXCEPT ![e].status = st, ![e].finished = st \in Ended, ![e].fresh = FALSE]
Replaces(e, rows) == target' = [target EXCEPT ![e] = rows]

LEMMA FailEmergencyWrites ==
  ASSUME NEW j \in Jobs, FailEmergency(j)
  PROVE  IF ~ em[job[j].em].finished
            /\ em[job[j].em].status \in (IF job[j].action = "offline" THEN InShutdown ELSE {"restoring"})
         THEN /\ Replaces(job[j].em, FailedRows(job[j].em, job[j].action = "offline"))
              /\ Settles(job[j].em, FailedStatus(job[j].em, job[j].action = "offline"))
         ELSE UNCHANGED <<em, target>>
BY Zenon DEF FailEmergency, FailedRows, FailedStatus, Settles, Replaces

LEMMA FailEmergencyInv == ASSUME EmergencyInv, NEW j \in Jobs, FailEmergency(j) PROVE EmergencyInv'
<1>1. job[j].phase = "claimed"
  BY ZenonT(60) DEF FailEmergency
<1>2. PICK e \in Emergencies : e = job[j].em
  BY <1>1, JobOf DEF EmergencyInv
<1>3. job[j].action \in Actions
  BY <1>1, JobOf DEF EmergencyInv
<1> DEFINE offline == job[j].action = "offline"
           rewritten(s) == IF offline THEN [target[e][s] EXCEPT !.offline = "failed"]
                           ELSE [target[e][s] EXCEPT !.restore = IF target[e][s].offline = "done" THEN "failed"
                                                                 ELSE "required"]
           fails == ~ em[e].finished /\ em[e].status \in (IF offline THEN InShutdown ELSE {"restoring"})
<1>4. PICK S \in SUBSET Shops :
        S = {s \in Shops : IF offline THEN target[e][s].offline \in InShutdown
                           ELSE Reopens(target[e][s]) \/ target[e][s].restore = "running"}
  OBVIOUS
<1>5. PICK rows : rows = [s \in S |-> rewritten(s)]
  OBVIOUS
<1>6. PICK failed : failed = Written(e, rows)
  OBVIOUS
<1>7. PICK st : st = IF offline THEN ShutdownStatus(failed) ELSE RestoreStatus(failed)
  OBVIOUS
<1>8. /\ \A s \in Shops : ~ MidWrite(e, s)
      /\ IF fails THEN /\ target' = [target EXCEPT ![e] = failed]
                       /\ em' = [em EXCEPT ![e].status = st, ![e].finished = st \in Ended, ![e].fresh = FALSE]
                  ELSE UNCHANGED <<em, target>>
      /\ job' = [job EXCEPT ![j] = Free] /\ events' \in 0..MaxEvents
      /\ UNCHANGED <<known, later, request, at, used, recon, opener, store, closedBy>>
  <2>1. failed = FailedRows(e, offline)
    BY <1>4, <1>5, <1>6, SMTT(30) DEF FailedRows
  <2>2. \A s \in Shops : ~ MidWrite(e, s)
    BY <1>2, ZenonT(60) DEF FailEmergency
  <2>3. events' \in 0..MaxEvents
    BY Spends, ZenonT(60) DEF FailEmergency
  <2>4. /\ job' = [job EXCEPT ![j] = Free]
        /\ UNCHANGED <<known, later, request, at, used, recon, opener, store, closedBy>>
    BY ZenonT(60) DEF FailEmergency
  <2>5. IF fails THEN /\ target' = [target EXCEPT ![e] = failed]
                      /\ em' = [em EXCEPT ![e].status = st, ![e].finished = st \in Ended, ![e].fresh = FALSE]
                 ELSE UNCHANGED <<em, target>>
    <3>1. st = FailedStatus(e, offline)
      BY <1>7, <2>1 DEF FailedStatus
    <3>2. IF fails THEN Replaces(e, failed) /\ Settles(e, st) ELSE UNCHANGED <<em, target>>
      BY <1>2, <2>1, <3>1, FailEmergencyWrites
    <3> QED
      BY <3>2 DEF Replaces, Settles
  <2> QED
    BY <2>2, <2>3, <2>4, <2>5
<1>9. /\ job' \in [Jobs -> {Free} \cup Waiting \cup Working \cup Ending]
      /\ \A k \in Jobs \ {j} : job'[k] = job[k]
      /\ job'[j] = Free
  BY <1>8 DEF EmergencyInv, Types
<1>10. \A s \in Shops : at[j][s] = "idle"
  BY <1>1, IdleAt
<1>11. Worked(j)' /\ \A s \in Shops : Handles(j, s)'
  BY <1>8, <1>9, <1>10, FreeJob
<1>12. CASE ~ fails
  BY <1>1, <1>8, <1>9, <1>10, <1>11, <1>12, JobLooks DEF EmergencyInv, Types
<1>13. CASE fails
  <2>1. Types /\ Emergency(e) /\ Asked(e)
    BY DEF EmergencyInv, Emergency
  <2>2. \A s \in Shops : target[e][s] \in TargetRow
    BY <2>1 DEF Types
  <2>3. rows \in [S -> TargetRow] /\ S \subseteq Shops
    <3>1. \A s \in S : rewritten(s) \in TargetRow
      BY <2>2 DEF TargetRow
    <3> QED
      BY <1>4, <1>5, <3>1
  <2>4. \A s \in S : /\ rows[s].offline = IF offline THEN "failed" ELSE target[e][s].offline
                     /\ rows[s].restore = IF offline THEN target[e][s].restore
                                          ELSE IF target[e][s].offline = "done" THEN "failed" ELSE "required"
                     /\ rows[s].tried = target[e][s].tried
    BY <1>5, <2>2 DEF TargetRow
  <2>5. Writes(e, rows)
    BY <1>6, <1>8, <1>13 DEF Writes
  <2>6. /\ target' \in [Emergencies -> [Shops -> TargetRow]]
        /\ \A d \in Emergencies : d # e => target'[d] = target[d]
        /\ \A s \in Shops : s \notin S => target'[e][s] = target[e][s]
        /\ \A s \in S : /\ target'[e][s].lease = Nobody
                        /\ target'[e][s].offline = rows[s].offline
                        /\ target'[e][s].restore = rows[s].restore
                        /\ target'[e][s].tried = rows[s].tried
    BY <2>1, <2>3, <2>5, RowsSet
  <2>7. target'[e] = failed
    BY <1>8, <1>13, <2>1 DEF Types
  <2>8. st = IF offline THEN ShutdownStatus(target'[e]) ELSE RestoreStatus(target'[e])
    BY <1>7, <2>7
  <2>9. /\ offline => /\ em[e].status \in InShutdown /\ st \in {"offline", "partial_success", "failed"}
                      /\ st = "failed" => \A s \in Shops : target'[e][s].offline # "absent" =>
                           target'[e][s].offline # "done" /\ ~ Owned(target'[e][s])
        /\ ~ offline => /\ em[e].status = "restoring" /\ st \in {"restored", "partial_restored", "restore_failed"}
                        /\ st = "restored" =>
                             \A s \in Shops : target'[e][s].restore \notin {"required", "running", "failed"}
    <3>1. PICK T : T = target'[e]
      OBVIOUS
    <3>2. /\ ShutdownStatus(T) \in {"offline", "partial_success", "failed"}
          /\ ShutdownStatus(T) = "failed" =>
               \A s \in Shops : T[s].offline # "absent" => T[s].offline # "done" /\ ~ Owned(T[s])
      BY ShutdownStatuses
    <3>3. /\ RestoreStatus(T) \in {"restored", "partial_restored", "restore_failed"}
          /\ RestoreStatus(T) = "restored" => \A s \in Shops : T[s].restore \notin {"required", "running", "failed"}
      BY RestoreStatuses
    <3>4. st = IF offline THEN ShutdownStatus(T) ELSE RestoreStatus(T)
      BY <2>8, <3>1
    <3>5. /\ offline => em[e].status \in InShutdown
          /\ ~ offline => em[e].status = "restoring"
      BY <1>13
    <3> HIDE DEF offline
    <3> QED
      BY <3>1, <3>2, <3>3, <3>4, <3>5
  <2> HIDE DEF rewritten
  <2>10. /\ em' \in [Emergencies -> EmergencyRow]
         /\ em'[e].status = st /\ (em'[e].finished <=> st \in Ended) /\ em'[e].fresh = FALSE
         /\ em'[e].all = em[e].all
         /\ \A d \in Emergencies : d # e => em'[d] = em[d]
    <3>1. em' = [em EXCEPT ![e].status = st, ![e].finished = st \in Ended, ![e].fresh = FALSE]
      BY <1>8, <1>13
    <3>2. (st \in Ended) \in BOOLEAN /\ st \in Statuses
      BY <2>9 DEF Statuses, LiveStatus, InPlace, Ended
    <3> QED
      BY <2>1, <3>1, <3>2, EmEnds, ZenonT(60)
  <2>11. ~ Hopeful(e)' /\ ~ Returning(e)' /\ ~ Again(e)'
    BY <2>10 DEF Hopeful, Returning, Again
  <2>12. ASSUME NEW s \in Shops PROVE Marked(e, s)' /\ Closes(e, s)'
    <3>1. /\ Marked(e, s) /\ Closes(e, s) /\ Shut(s)' = Shut(s) /\ known' = known /\ closedBy' = closedBy
          /\ em'[e].fresh = FALSE /\ em'[e].status = st /\ target[e][s] \in TargetRow
      BY <1>8, <2>1, <2>2, <2>10 DEF Emergency, Shut
    <3>2. CASE offline
      <4>1. em[e].status \in InShutdown /\ st \in {"offline", "partial_success", "failed"}
            /\ (st = "failed" => target'[e][s].offline = "absent"
                                 \/ (target'[e][s].offline # "done" /\ ~ Owned(target'[e][s])))
        BY <2>9, <3>2
      <4>2. \/ /\ target[e][s].offline \in InShutdown /\ target'[e][s].offline = "failed"
               /\ target'[e][s].restore = target[e][s].restore /\ target'[e][s].tried = target[e][s].tried
            \/ target[e][s].offline \notin InShutdown /\ target'[e][s] = target[e][s]
        BY <1>4, <2>4, <2>6, <3>2
      <4>3. Marked(e, s)'
        BY <2>11, <3>1, <4>1, <4>2 DEF Marked, Closing, InShutdown, InPlace
      <4>4. Closes(e, s)'
        BY <2>11, <3>1, <4>1, <4>2 DEF Closes, Closing, Owns, Owned, InShutdown, InPlace, Ended
      <4> QED
        BY <4>3, <4>4
    <3>3. CASE ~ offline
      <4>1. /\ em[e].status = "restoring" /\ st \in {"restored", "partial_restored", "restore_failed"}
            /\ st = "restored" => target'[e][s].restore \notin {"required", "running", "failed"}
        BY <2>9, <3>3
      <4>2. \/ /\ Owns(target[e][s]) /\ target'[e][s].offline = target[e][s].offline
               /\ target'[e][s].tried = target[e][s].tried
               /\ target'[e][s].restore = IF target[e][s].offline = "done" THEN "failed" ELSE "required"
            \/ ~ Owns(target[e][s]) /\ target'[e][s] = target[e][s]
        BY <1>4, <2>4, <2>6, <3>3 DEF Owns, Owned, Reopens
      <4>3. Marked(e, s)'
        BY <2>11, <3>1, <4>1, <4>2 DEF Marked, Closing, Owns, Owned, InShutdown, InPlace
      <4>4. Closes(e, s)'
        BY <2>11, <3>1, <4>1, <4>2 DEF Closes, Closing, Owns, Owned, InShutdown, InPlace, Ended
      <4> QED
        BY <4>3, <4>4
    <3> QED
      BY <3>2, <3>3
  <2>13. Emergency(e)'
    <3>1. Asked(e)'
      BY <1>8, <2>1, <2>9, <2>10 DEF Asked
    <3> QED
      BY <2>10, <2>12, <3>1 DEF Emergency
  <2>14. \A s \in Shops : target[e][s].offline # "absent" <=> target'[e][s].offline # "absent"
    <3>1. \A s \in Shops : Marked(e, s)
      BY <2>1 DEF Emergency
    <3> QED
      BY <1>4, <2>4, <2>6, <3>1 DEF Marked, Reopens, InShutdown
  <2>15. em[e].status \in InShutdown \cup {"restoring"}
    BY <2>9
  <2>16. Reconciles(e)'
    <3>1. recon[e].step # "writing"
      BY <2>15 DEF EmergencyInv, Reconciles, InPlace, InShutdown
    <3> QED
      BY <1>8, <2>14, <3>1, NotReconciling
  <2>17. \A k \in Jobs : Started(k) /\ job[k].em = e /\ job[k].action = "restore" => st \in Giving
    <3>1. \A k \in Jobs : Started(k) /\ job[k].em = e /\ job[k].action = "restore" => em[e].status \in Giving
      BY DEF EmergencyInv, Worked
    <3> QED
      BY <2>9, <3>1 DEF Giving, InShutdown
  <2>18. st \notin InShutdown \cup {"none", "restoring"}
    BY <2>9 DEF InShutdown
  <2>19. Types'
    BY <1>8, <1>9, <2>6, <2>10 DEF EmergencyInv, Types
  <2>20. Permits'
    <3>1. em[e].status \in LiveStatus /\ ~ em[e].finished
      BY <1>13, <2>15 DEF LiveStatus
    <3>2. \A k \in Jobs, s \in Shops : at'[k][s] = "writing" => at[k][s] = "writing" /\ k # j
      BY <1>8, <1>10
    <3>3. \A d \in Emergencies, s \in Shops : target'[d][s].offline # "absent" => target[d][s].offline # "absent"
      BY <2>6, <2>14
    <3> QED
      BY <1>8, <1>9, <2>10, <3>1, <3>2, <3>3, PermitsStay
  <2>21. \A s \in Shops : target'[e][s].offline = "running" /\ target'[e][s].lease \in Jobs =>
            target[e][s].offline = "running" /\ target[e][s].lease = target'[e][s].lease
    BY <2>6, EmergencyConstants DEF EmergencyConstants
  <2>22. \A d \in Emergencies : d # e => /\ em'[d] = em[d] /\ target'[d] = target[d]
                                         /\ request'[d] = request[d] /\ recon'[d] = recon[d]
    BY <1>8, <2>6, <2>10
  <2> HIDE DEF offline, fails
  <2> QED
    BY <1>8, <1>9, <1>11, <2>10, <2>11, <2>13, <2>16, <2>17, <2>18, <2>19, <2>20, <2>21, <2>22, Rewrites
<1> QED
  BY <1>12, <1>13, SMTT(30)

-----------------------------------------------------------------------------
(* The watchdog.                                                           *)

LEMMA WatchdogInv == ASSUME EmergencyInv, NEW e \in Emergencies, Watchdog(e) PROVE EmergencyInv'
<1> DEFINE offline == em[e].status \in InShutdown
           next == IF offline THEN "pending" ELSE "restoring"
           rewritten(s) == IF offline THEN [target[e][s] EXCEPT !.offline = "pending"]
                           ELSE [target[e][s] EXCEPT !.restore = "required"]
<1>1. /\ Transition(e) /\ ~ Settling(e)
      /\ \A s \in Shops : ~ MidWrite(e, s)
      /\ em' = [em EXCEPT ![e].status = next]
      /\ UNCHANGED <<known, later, request, at, used, recon, opener, store, closedBy>>
  BY DEF Watchdog
<1>2. events' \in 0..MaxEvents
  BY Spends DEF Watchdog, EmergencyInv, Types
<1>3. PICK S \in SUBSET Shops :
        /\ \A s \in S : IF offline THEN target[e][s].offline = "running" ELSE target[e][s].restore = "running"
        /\ target' = [target EXCEPT ![e] = Written(e, [s \in S |-> rewritten(s)])]
  <2>1. PICK S \in SUBSET {s \in Shops : IF offline THEN target[e][s].offline = "running"
                                         ELSE target[e][s].restore = "running"} :
          target' = [target EXCEPT ![e] = Written(e, [s \in S |-> rewritten(s)])]
    BY DEF Watchdog
  <2> QED
    BY <2>1
<1>4. PICK w \in Jobs :
        /\ job[w] = Free
        /\ job' = [job EXCEPT ![w] = [phase |-> "queued", em |-> e,
                                      action |-> IF offline THEN "offline" ELSE "restore"]]
  BY DEF Watchdog
<1>5. /\ job' \in [Jobs -> {Free} \cup Waiting \cup Working \cup Ending]
      /\ job'[w].phase = "queued" /\ job'[w].em = e
      /\ \A k \in Jobs : k # w => job'[k] = job[k]
  <2>1. [phase |-> "queued", em |-> e, action |-> IF offline THEN "offline" ELSE "restore"] \in Waiting
    BY DEF Waiting, Actions
  <2> QED
    BY <1>4, <2>1 DEF EmergencyInv, Types
<1>6. PICK rows : rows = [s \in S |-> rewritten(s)]
  OBVIOUS
<1>7. Types /\ Emergency(e) /\ Asked(e) /\ \A s \in Shops : target[e][s] \in TargetRow
  BY DEF EmergencyInv, Emergency, Types
<1>8. rows \in [S -> TargetRow] /\ S \subseteq Shops
  <2>1. \A s \in S : rewritten(s) \in TargetRow
    BY <1>7 DEF TargetRow
  <2> QED
    BY <1>6, <2>1
<1>9. \A s \in S : /\ rows[s].offline = IF offline THEN "pending" ELSE target[e][s].offline
                   /\ rows[s].restore = IF offline THEN target[e][s].restore ELSE "required"
                   /\ rows[s].tried = target[e][s].tried
  BY <1>6, <1>7 DEF TargetRow
<1>10. Writes(e, rows)
  BY <1>3, <1>6 DEF Writes
<1>11. /\ target' \in [Emergencies -> [Shops -> TargetRow]]
       /\ \A d \in Emergencies : d # e => target'[d] = target[d]
       /\ \A s \in Shops : s \notin S => target'[e][s] = target[e][s]
       /\ \A s \in S : /\ target'[e][s].lease = Nobody
                       /\ target'[e][s].offline = rows[s].offline
                       /\ target'[e][s].restore = rows[s].restore
                       /\ target'[e][s].tried = rows[s].tried
  BY <1>7, <1>8, <1>10, RowsSet
<1>12. /\ em' \in [Emergencies -> EmergencyRow]
       /\ em'[e].status = next /\ em'[e].finished = em[e].finished /\ em'[e].fresh = em[e].fresh
       /\ em'[e].all = em[e].all
       /\ \A d \in Emergencies : d # e => em'[d] = em[d]
  <2>1. em[e] \in EmergencyRow /\ next \in Statuses
    BY <1>7 DEF Types, Statuses, LiveStatus, InShutdown
  <2> DEFINE row == [em[e] EXCEPT !.status = next]
  <2>2. /\ row \in EmergencyRow /\ row.status = next /\ row.finished = em[e].finished
        /\ row.fresh = em[e].fresh /\ row.all = em[e].all
    BY <2>1 DEF EmergencyRow
  <2>3. em' = [em EXCEPT ![e] = row]
    BY <1>1
  <2> HIDE DEF row, next
  <2> QED
    BY <1>7, <2>2, <2>3, EmSet
<1>13. /\ offline => em[e].status \in InShutdown /\ em'[e].status = "pending"
       /\ ~ offline => em[e].status = "restoring" /\ em'[e].status = "restoring"
  BY <1>1, <1>12 DEF Transition
<1> HIDE DEF rewritten, next
<1>14. em[e].fresh => em'[e].status = em[e].status
  BY <1>7, <1>13 DEF Asked, InShutdown
<1>15. /\ Hopeful(e)' <=> Hopeful(e)
       /\ Returning(e)' <=> Returning(e)
       /\ Again(e)' <=> Again(e)
  BY <1>1, <1>12 DEF Hopeful, Returning, Again
<1>16. \A s \in Shops : \/ target'[e][s] = target[e][s]
                        \/ /\ offline /\ target[e][s].offline = "running" /\ target'[e][s].offline = "pending"
                           /\ target'[e][s].restore = target[e][s].restore
                           /\ target'[e][s].tried = target[e][s].tried
                        \/ /\ ~ offline /\ target'[e][s].offline = target[e][s].offline
                           /\ target[e][s].restore = "running" /\ target'[e][s].restore = "required"
                           /\ target'[e][s].tried = target[e][s].tried
  BY <1>3, <1>9, <1>11
<1> HIDE DEF offline
<1>17. ASSUME NEW s \in Shops PROVE Marked(e, s)' /\ Closes(e, s)'
  <2>1. /\ Marked(e, s) /\ Closes(e, s) /\ Shut(s)' = Shut(s) /\ known' = known /\ closedBy' = closedBy
        /\ em'[e].fresh = em[e].fresh
    BY <1>1, <1>7, <1>12 DEF Emergency, Shut
  <2>2. Marked(e, s)'
    BY <1>13, <1>15, <1>16, <2>1 DEF Marked, Closing, InShutdown, InPlace
  <2>3. Closes(e, s)'
    BY <1>13, <1>15, <1>16, <2>1 DEF Closes, Closing, Owns, Owned, InShutdown, InPlace, Ended
  <2> QED
    BY <2>2, <2>3
<1>18. Asked(e)'
  <2>1. \A s \in Shops : target[e][s].offline = "done" \/ target[e][s].tried
          => target'[e][s].offline = "done" \/ target'[e][s].tried
    BY <1>16
  <2>2. request' = request /\ em'[e].fresh = em[e].fresh /\ em'[e].status # "none"
    BY <1>1, <1>12, <1>13
  <2> QED
    BY <1>7, <1>14, <2>1, <2>2 DEF Asked
<1>19. Emergency(e)'
  <2>1. (em[e].finished <=> em[e].status \in Ended)'
    BY <1>7, <1>12, <1>13 DEF Emergency, Ended, InShutdown
  <2> QED
    BY <1>17, <1>18, <2>1 DEF Emergency
<1>20. \A s \in Shops : target[e][s].offline # "absent" <=> target'[e][s].offline # "absent"
  BY <1>16
<1>21. Reconciles(e)'
  <2>1. recon[e].step # "writing"
    BY <1>13 DEF EmergencyInv, Reconciles, InPlace, InShutdown
  <2> QED
    BY <1>1, <1>20, <2>1, NotReconciling
<1>22. \A s \in Shops : at[w][s] = "idle"
  BY <1>4, IdleAt DEF Free
<1>23. Worked(w)' /\ \A s \in Shops : Handles(w, s)'
  BY <1>1, <1>5, <1>13, <1>22, QueuedJob
<1>24. Types'
  BY <1>1, <1>2, <1>5, <1>11, <1>12 DEF EmergencyInv, Types
<1>25. Permits'
  <2>1. em[e].status \in LiveStatus
    BY <1>13 DEF LiveStatus
  <2>2. \A k \in Jobs, s \in Shops : at'[k][s] = "writing" => at[k][s] = "writing" /\ k # w
    BY <1>1, <1>22
  <2>3. \A d \in Emergencies, s \in Shops : target'[d][s].offline # "absent" => target[d][s].offline # "absent"
    BY <1>11, <1>20
  <2> QED
    BY <1>1, <1>5, <1>12, <2>1, <2>2, <2>3, PermitsStay
<1>26. \A s \in Shops : target'[e][s].offline = "running" /\ target'[e][s].lease \in Jobs =>
          target[e][s].offline = "running" /\ target[e][s].lease = target'[e][s].lease
  BY <1>11, EmergencyConstants DEF EmergencyConstants
<1>27. \A d \in Emergencies : d # e => /\ em'[d] = em[d] /\ target'[d] = target[d]
                                       /\ request'[d] = request[d] /\ recon'[d] = recon[d]
  BY <1>1, <1>11, <1>12
<1>28. \A k \in Jobs : Started(k) /\ job[k].em = e /\ job[k].action = "restore" =>
          em'[e].status \in Giving /\ ~ Returning(e)'
  <2>1. \A k \in Jobs : Started(k) /\ job[k].em = e /\ job[k].action = "restore" =>
          em[e].status \in Giving /\ ~ Returning(e)
    BY DEF EmergencyInv, Worked
  <2> QED
    BY <1>13, <1>15, <2>1 DEF Giving, InShutdown
<1>29. \A k \in Jobs : job[k].phase = "settling" => job[k].em # e
  BY <1>1 DEF Settling
<1>30. em'[e].status # "none"
  BY <1>13
<1> QED
  BY <1>1, <1>5, <1>19, <1>21, <1>23, <1>24, <1>25, <1>26, <1>27, <1>28, <1>29, <1>30, Rewrites

-----------------------------------------------------------------------------
(* The reconciliation of an emergency in place.                            *)

\* Nothing else is under way for an emergency in place.
LEMMA PlaceIsCalm ==
  ASSUME EmergencyInv, NEW e \in Emergencies, em[e].status \in InPlace
  PROVE  /\ Emergency(e) /\ Asked(e) /\ ~ em[e].fresh /\ em[e].status \in Closing
         /\ em[e].status \notin InShutdown \cup Ended \cup {"none", "failed", "restored", "restoring"}
         /\ ~ Hopeful(e) /\ ~ Returning(e) /\ ~ Again(e)
         /\ \A s \in Shops : ~ MidWrite(e, s) /\ target[e][s].offline # "running"
         /\ \A j \in Jobs : Started(j) /\ job[j].em = e => job[j].action # "restore"
<1>1. Emergency(e) /\ Asked(e)
  BY DEF EmergencyInv, Emergency
<1>2. ~ em[e].fresh
  BY <1>1 DEF Asked, InPlace
<1>3. \A s \in Shops : ~ MidWrite(e, s) /\ target[e][s].offline # "running"
  BY NoWrites DEF InPlace
<1>4. \A j \in Jobs : Started(j) /\ job[j].em = e => job[j].action # "restore"
  BY DEF EmergencyInv, Worked, InPlace, Giving
<1> QED
  BY <1>1, <1>2, <1>3, <1>4 DEF Hopeful, Returning, Again, Closing, InPlace, InShutdown, Ended

LEMMA AppendStoresInv == ASSUME EmergencyInv, NEW e \in Emergencies, AppendStores(e) PROVE EmergencyInv'
<1>1. /\ em[e].status \in InPlace /\ NoPermit
      /\ target' = [target EXCEPT ![e] = [s \in Shops |-> IF s \in known \ Targets(e) THEN Appended
                                                           ELSE target[e][s]]]
      /\ UNCHANGED <<known, later, em, request, job, at, used, recon, opener, store, closedBy, events>>
  BY DEF AppendStores, StillLive
<1>2. Appended \in TargetRow /\ Appended.offline = "pending" /\ Appended.restore = "not_required"
      /\ Appended.lease = Nobody
  BY DEF Appended, Absent, TargetRow
<1>3. /\ target' \in [Emergencies -> [Shops -> TargetRow]]
      /\ \A d \in Emergencies : d # e => target'[d] = target[d]
      /\ \A s \in Shops : target'[e][s] = IF s \in known \ Targets(e) THEN Appended ELSE target[e][s]
  BY <1>1, <1>2 DEF EmergencyInv, Types
<1>4. Types'
  BY <1>1, <1>3 DEF EmergencyInv, Types
<1>5. Permits'
  BY <1>1, PermitsUnasked DEF EmergencyInv
<1>6. ASSUME NEW s \in Shops PROVE Marked(e, s)' /\ Closes(e, s)'
  <2>1. Marked(e, s) /\ Closes(e, s)
    BY DEF EmergencyInv, Emergency
  <2>2. Shut(s)' = Shut(s) /\ em' = em /\ request' = request /\ known' = known /\ closedBy' = closedBy
    BY <1>1 DEF Shut
  <2>3. CASE s \in known \ Targets(e)
    <3>1. target[e][s].offline = "absent"
      BY <2>3 DEF Targets
    <3>2. closedBy[s] # e
      BY <2>1, <3>1 DEF Closes
    <3>3. Marked(e, s)'
      BY <1>1, <1>2, <1>3, <2>2, <2>3, PlaceIsCalm DEF Marked
    <3> QED
      BY <2>2, <3>2, <3>3 DEF Closes
  <2>4. CASE s \notin known \ Targets(e)
    BY <1>3, <2>1, <2>2, <2>4 DEF Marked, Closes, Hopeful, Returning, Again
  <2> QED
    BY <2>3, <2>4
<1>7. Emergency(e)'
  <2>1. Asked(e)'
    BY <1>1, PlaceIsCalm DEF Asked
  <2>2. (em[e].finished <=> em[e].status \in Ended)'
    BY <1>1 DEF EmergencyInv, Emergency
  <2> QED
    BY <1>6, <2>1, <2>2 DEF Emergency
<1>8. Reconciles(e)'
  <2>1. \A s \in Shops : target[e][s].offline # "absent" => target'[e][s].offline # "absent"
    BY <1>2, <1>3
  <2> QED
    BY <1>1, <2>1, NotReconciling DEF NoPermit
<1>9. /\ \A s \in Shops : ~ MidWrite(e, s)
      /\ em'[e].status \notin InShutdown \cup {"none", "restoring"}
      /\ \A j \in Jobs : Started(j) /\ job[j].em = e => job[j].action # "restore"
  BY <1>1, PlaceIsCalm
<1>10. \A s \in Shops : target'[e][s].offline = "running" /\ target'[e][s].lease \in Jobs =>
          target[e][s].offline = "running" /\ target[e][s].lease = target'[e][s].lease
  BY <1>2, <1>3
<1> QED
  BY <1>1, <1>3, <1>4, <1>5, <1>7, <1>8, <1>9, <1>10, Rewrites

\* A reconciliation writes the row of one target.
LEMMA Reconciled ==
  ASSUME EmergencyInv, NEW e \in Emergencies, em[e].status \in InPlace, NEW s \in Shops, NEW row \in TargetRow,
         target[e][s].offline # "absent", row.offline \notin {"absent", "running"},
         target' = [target EXCEPT ![e][s] = row],
         recon' \in [Emergencies -> [step : {"idle", "owned", "writing"}, shop : Shops \cup {Nobody}]],
         \A d \in Emergencies : d # e => recon'[d] = recon[d],
         events' \in 0..MaxEvents,
         UNCHANGED <<known, later, em, request, job, at, used, opener, store, closedBy>>,
         row.restore = "running" => row.tried,
         row.offline = "done" => Shut(s),
         closedBy[s] = e => Owns(row),
         Reconciles(e)'
  PROVE  EmergencyInv'
<1>1. /\ target' \in [Emergencies -> [Shops -> TargetRow]]
      /\ target'[e][s] = row
      /\ \A r \in Shops : r # s => target'[e][r] = target[e][r]
      /\ \A d \in Emergencies : d # e => target'[d] = target[d]
  BY RowSet DEF EmergencyInv
<1>2. Types'
  BY <1>1 DEF EmergencyInv, Types
<1>3. Permits'
  <2>1. \A d \in Emergencies, r \in Shops : target'[d][r].offline # "absent" => target[d][r].offline # "absent"
    BY <1>1
  <2> QED
    BY <2>1, PermitsStay
<1>4. ASSUME NEW r \in Shops PROVE Marked(e, r)' /\ Closes(e, r)'
  <2>1. Marked(e, r) /\ Closes(e, r) /\ Shut(r)' = Shut(r)
    BY DEF EmergencyInv, Emergency, Shut
  <2>2. CASE r # s
    BY <1>1, <2>1, <2>2 DEF Marked, Closes, Hopeful, Returning, Again
  <2>3. CASE r = s
    <3>1. ~ Hopeful(e)' /\ ~ Returning(e)' /\ ~ Again(e)'
      BY PlaceIsCalm DEF Hopeful, Returning, Again
    <3>2. Marked(e, s) /\ s \in known /\ em[e].status \notin {"none", "failed"}
      BY <2>1, <2>3, PlaceIsCalm DEF Marked
    <3>3. Marked(e, s)'
      BY <1>1, <2>1, <2>3, <3>1, <3>2, PlaceIsCalm DEF Marked
    <3>4. Closes(e, s)'
      BY <1>1, <3>1, PlaceIsCalm DEF Closes
    <3> QED
      BY <2>3, <3>3, <3>4
  <2> QED
    BY <2>2, <2>3
<1>5. Emergency(e)'
  <2>1. Asked(e)'
    BY PlaceIsCalm DEF Asked
  <2>2. (em[e].finished <=> em[e].status \in Ended)'
    BY DEF EmergencyInv, Emergency
  <2> QED
    BY <1>4, <2>1, <2>2 DEF Emergency
<1>6. /\ \A r \in Shops : ~ MidWrite(e, r)
      /\ em'[e].status \notin InShutdown \cup {"none", "restoring"}
      /\ \A j \in Jobs : Started(j) /\ job[j].em = e => job[j].action # "restore"
  BY PlaceIsCalm
<1>7. \A r \in Shops : target'[e][r].offline = "running" /\ target'[e][r].lease \in Jobs =>
          target[e][r].offline = "running" /\ target[e][r].lease = target'[e][r].lease
  BY <1>1
<1> QED
  BY <1>1, <1>2, <1>3, <1>5, <1>6, <1>7, Rewrites

LEMMA InspectInv ==
  ASSUME EmergencyInv, NEW e \in Emergencies, NEW s \in Shops, Inspect(e, s) PROVE EmergencyInv'
<1>1. /\ em[e].status \in InPlace /\ recon[e] = NoRecon /\ target[e][s].offline # "absent"
      /\ UNCHANGED <<known, later, em, request, job, at, used, opener, store, closedBy, events>>
  BY DEF Inspect, StillLive, Targets
<1>2. PICK t \in TargetRow : t = target[e][s]
  BY DEF EmergencyInv, Types
<1>3. /\ Marked(e, s) /\ Closes(e, s) /\ t.offline # "running" /\ em[e].status \in Closing
      /\ recon \in [Emergencies -> [step : {"idle", "owned", "writing"}, shop : Shops \cup {Nobody}]]
      /\ events \in 0..MaxEvents
  BY <1>1, <1>2, PlaceIsCalm DEF EmergencyInv, Emergency, Types
<1>4. CASE /\ store[s].open
           /\ target' = [target EXCEPT ![e][s] = [t EXCEPT !.restore = "required", !.lease = "recon"]]
           /\ recon' = [recon EXCEPT ![e] = [step |-> "owned", shop |-> s]]
  <2>1. PICK row \in TargetRow : row = [t EXCEPT !.restore = "required", !.lease = "recon"]
    BY DEF TargetRow
  <2>2. /\ row.offline = t.offline /\ row.restore = "required" /\ row.tried = t.tried
        /\ target' = [target EXCEPT ![e][s] = row]
    BY <1>4, <2>1 DEF TargetRow
  <2>3. /\ recon' \in [Emergencies -> [step : {"idle", "owned", "writing"}, shop : Shops \cup {Nobody}]]
        /\ recon'[e].step = "owned" /\ recon'[e].shop = s
        /\ \A d \in Emergencies : d # e => recon'[d] = recon[d]
    BY <1>3, <1>4
  <2>4. target'[e][s] = row
    BY <2>2 DEF EmergencyInv, Types
  <2>5. Reconciles(e)'
    BY <1>1, <1>2, <2>2, <2>3, <2>4 DEF Reconciles
  <2>6. row.offline = "done" => Shut(s)
    BY <1>2, <1>3, <2>2 DEF Marked
  <2> QED
    BY <1>1, <1>2, <1>3, <2>2, <2>3, <2>5, <2>6, Reconciled DEF Owns, Owned
<1>5. CASE /\ ~ store[s].open
           /\ target' = [target EXCEPT ![e][s] =
                [t EXCEPT !.offline = "done", !.doubt = FALSE, !.lease = Nobody,
                          !.restore = IF Owned(t) \/ (t.offline = "done" /\ t.restore = "pending")
                                      THEN "pending" ELSE "not_required"]]
           /\ UNCHANGED recon
  <2>1. PICK back \in {"pending", "not_required"} : back = IF Owns(t) THEN "pending" ELSE "not_required"
    OBVIOUS
  <2>2. PICK row \in TargetRow : row = [t EXCEPT !.offline = "done", !.doubt = FALSE, !.lease = Nobody, !.restore = back]
    BY DEF TargetRow
  <2>3. /\ row.offline = "done" /\ row.restore = back
        /\ target' = [target EXCEPT ![e][s] = row]
    BY <1>5, <2>1, <2>2 DEF TargetRow, Owns
  <2>4. target'[e][s] = row
    BY <2>3 DEF EmergencyInv, Types
  <2>5. Reconciles(e)'
    BY <1>1, <1>5 DEF Reconciles, NoRecon
  <2>6. Shut(s)
    BY <1>5 DEF Shut
  <2>7. closedBy[s] = e => Owns(row)
    BY <1>2, <1>3, <2>1, <2>3 DEF Closes, Owns
  <2> QED
    BY <1>1, <1>2, <1>3, <1>5, <2>1, <2>3, <2>5, <2>6, <2>7, Reconciled
<1> QED
  BY <1>2, <1>4, <1>5 DEF Inspect

LEMMA InspectFailsInv ==
  ASSUME EmergencyInv, NEW e \in Emergencies, NEW s \in Shops, InspectFails(e, s) PROVE EmergencyInv'
<1>1. /\ em[e].status \in InPlace /\ recon[e] = NoRecon /\ target[e][s].offline # "absent"
      /\ events' \in 0..MaxEvents
      /\ UNCHANGED <<known, later, em, request, job, at, used, recon, opener, store, closedBy>>
  BY Spends DEF InspectFails, StillLive, Targets
<1>2. PICK t \in TargetRow : t = target[e][s]
  BY DEF EmergencyInv, Types
<1>3. /\ Marked(e, s) /\ Closes(e, s) /\ t.offline # "running" /\ em[e].status \in Closing
      /\ recon \in [Emergencies -> [step : {"idle", "owned", "writing"}, shop : Shops \cup {Nobody}]]
  BY <1>1, <1>2, PlaceIsCalm DEF EmergencyInv, Emergency, Types
<1> DEFINE row == IF t.offline = "done" THEN [t EXCEPT !.doubt = TRUE] ELSE [t EXCEPT !.offline = "failed"]
<1>4. /\ row \in TargetRow /\ row.restore = t.restore /\ row.tried = t.tried
      /\ row.offline = IF t.offline = "done" THEN "done" ELSE "failed"
  <2>1. CASE t.offline = "done"
    BY <2>1 DEF TargetRow
  <2>2. CASE t.offline # "done"
    BY <2>2 DEF TargetRow
  <2> QED
    BY <2>1, <2>2
<1>5. target' = [target EXCEPT ![e][s] = row]
  BY <1>2 DEF InspectFails
<1>6. Reconciles(e)'
  BY <1>1 DEF Reconciles, NoRecon
<1>7. row.offline = "done" => Shut(s)
  BY <1>2, <1>3, <1>4 DEF Marked
<1>8. closedBy[s] = e => Owns(row)
  BY <1>2, <1>3, <1>4 DEF Closes, Owns, Owned
<1>9. row.restore = "running" => row.tried
  BY <1>2, <1>3, <1>4 DEF Marked
<1>10. /\ recon' \in [Emergencies -> [step : {"idle", "owned", "writing"}, shop : Shops \cup {Nobody}]]
       /\ \A d \in Emergencies : d # e => recon'[d] = recon[d]
       /\ row.offline \notin {"absent", "running"}
  BY <1>1, <1>3, <1>4
<1> HIDE DEF row
<1> QED
  BY <1>1, <1>4, <1>5, <1>6, <1>7, <1>8, <1>9, <1>10, Reconciled

LEMMA RefreshSummaryInv ==
  ASSUME EmergencyInv, NEW e \in Emergencies, RefreshSummary(e) \/ ReconciliationFails(e)
  PROVE  EmergencyInv'
<1>1. PICK st \in InPlace : em' = [em EXCEPT ![e].status = st, ![e].fresh = FALSE]
  BY DEF RefreshSummary, ReconciliationFails, InPlace
<1>2. /\ em[e].status \in InPlace
      /\ UNCHANGED <<known, later, target, request, job, at, used, recon, opener, store, closedBy, events>>
  BY DEF RefreshSummary, ReconciliationFails, StillLive
<1>3. /\ em' \in [Emergencies -> EmergencyRow]
      /\ em'[e].status = st /\ em'[e].finished = em[e].finished /\ em'[e].fresh = FALSE
      /\ em'[e].all = em[e].all
      /\ \A d \in Emergencies : d # e => em'[d] = em[d]
  BY <1>1, EmTurns DEF EmergencyInv, Statuses, LiveStatus
<1>4. Types'
  BY <1>2, <1>3 DEF EmergencyInv, Types
<1>5. Permits'
  BY <1>2, <1>3, PermitsStay DEF LiveStatus
<1>6. st \in Closing /\ st \notin InShutdown \cup Ended \cup {"none", "failed", "restored", "restoring"}
  BY DEF Closing, InPlace, InShutdown, Ended
<1>7. ~ Hopeful(e)' /\ ~ Returning(e)' /\ ~ Again(e)'
  BY <1>3 DEF Hopeful, Returning, Again
<1>8. Emergency(e)'
  <2>1. ASSUME NEW s \in Shops PROVE Marked(e, s)' /\ Closes(e, s)'
    <3>1. /\ Marked(e, s) /\ Closes(e, s) /\ Shut(s)' = Shut(s) /\ target[e][s].offline # "running"
          /\ em[e].status \in Closing
      BY <1>2, PlaceIsCalm DEF Emergency, Shut
    <3>2. Marked(e, s)'
      BY <1>2, <1>3, <1>6, <1>7, <3>1 DEF Marked
    <3>3. Closes(e, s)'
      BY <1>2, <1>3, <1>6, <1>7, <3>1 DEF Closes
    <3> QED
      BY <3>2, <3>3
  <2>2. Asked(e)'
    BY <1>2, <1>3, <1>6, PlaceIsCalm DEF Asked
  <2>3. (em[e].finished <=> em[e].status \in Ended)'
    BY <1>2, <1>3, <1>6, PlaceIsCalm DEF Emergency
  <2> QED
    BY <2>1, <2>2, <2>3 DEF Emergency
<1>9. Reconciles(e)'
  BY <1>2, <1>3 DEF EmergencyInv, Reconciles
<1>10. /\ \A s \in Shops : ~ MidWrite(e, s)
       /\ \A j \in Jobs : Started(j) /\ job[j].em = e => job[j].action # "restore"
  BY <1>2, PlaceIsCalm
<1> QED
  BY <1>2, <1>3, <1>4, <1>5, <1>6, <1>8, <1>9, <1>10, Rewrites

LEMMA EndReconcileInv == ASSUME EmergencyInv, NEW e \in Emergencies, EndReconcile(e) PROVE EmergencyInv'
<1>1. recon[e].step = "writing"
  BY DEF EndReconcile
<1>2. PICK s \in Shops : s = recon[e].shop
  BY <1>1 DEF EmergencyInv, Reconciles
<1>3. /\ em[e].status \in InPlace /\ target[e][s].restore = "required" /\ target[e][s].lease = "recon"
      /\ target[e][s].offline \in {"pending", "failed", "done"}
  <2>1. em[e].status \in InPlace /\ target[e][s].restore = "required" /\ target[e][s].lease = "recon"
        /\ target[e][s].offline # "absent"
    BY <1>1, <1>2 DEF EmergencyInv, Reconciles
  <2>2. target[e][s].offline # "running"
    BY <2>1, PlaceIsCalm
  <2> QED
    BY <2>1, <2>2 DEF EmergencyInv, Types, TargetRow
<1>4. PICK t \in TargetRow : t = target[e][s]
  BY DEF EmergencyInv, Types
<1>5. PICK row \in TargetRow :
        /\ \/ row.offline = "done" /\ row.restore = "pending"
           \/ row.offline \in {"pending", "failed", "done"} /\ row.restore = "required"
        /\ target' = [target EXCEPT ![e][s] = row]
        /\ \/ /\ store' = [store EXCEPT ![s] = [open |-> FALSE, by |-> e]]
              /\ closedBy' = [closedBy EXCEPT ![s] = e]
           \/ row.offline = "failed" /\ UNCHANGED <<store, closedBy>>
  <2> DEFINE done == [t EXCEPT !.offline = "done", !.restore = "pending", !.doubt = FALSE, !.lease = Nobody]
             failed == [t EXCEPT !.offline = "failed"]
  <2>1. /\ done \in TargetRow /\ done.offline = "done" /\ done.restore = "pending"
        /\ failed \in TargetRow /\ failed.offline = "failed" /\ failed.restore = "required"
    BY <1>3, <1>4 DEF TargetRow
  <2>2. \/ /\ store' = [store EXCEPT ![s] = [open |-> FALSE, by |-> e]]
           /\ closedBy' = [closedBy EXCEPT ![s] = e]
           /\ \/ target' = [target EXCEPT ![e][s] = done]
              \/ target' = [target EXCEPT ![e][s] = failed]
              \/ target' = [target EXCEPT ![e][s] = t]
        \/ target' = [target EXCEPT ![e][s] = failed] /\ UNCHANGED <<store, closedBy>>
    <3>1. target = [target EXCEPT ![e][s] = t]
      BY <1>4 DEF EmergencyInv, Types
    <3> QED
      BY <1>2, <1>3, <1>4, <3>1 DEF EndReconcile
  <2> HIDE DEF done, failed
  <2> QED
    BY <1>3, <1>4, <2>1, <2>2
<1>6. /\ recon' = [recon EXCEPT ![e] = NoRecon]
      /\ UNCHANGED <<known, later, em, request, job, at, used, opener, events>>
  BY DEF EndReconcile
<1>7. /\ target' \in [Emergencies -> [Shops -> TargetRow]]
      /\ target'[e][s] = row
      /\ \A r \in Shops : r # s => target'[e][r] = target[e][r]
      /\ \A d \in Emergencies : d # e => target'[d] = target[d]
  BY <1>5, RowSet DEF EmergencyInv
<1>8. /\ recon' \in [Emergencies -> [step : {"idle", "owned", "writing"}, shop : Shops \cup {Nobody}]]
      /\ recon'[e] = NoRecon
      /\ \A d \in Emergencies : d # e => recon'[d] = recon[d]
  <2>1. NoRecon \in [step : {"idle", "owned", "writing"}, shop : Shops \cup {Nobody}]
    BY DEF NoRecon
  <2> QED
    BY <1>6, <2>1 DEF EmergencyInv, Types
<1>9. /\ store' \in [Shops -> [open : BOOLEAN, by : Emergencies \cup {Staff, Opener}]]
      /\ closedBy' \in [Shops -> Emergencies \cup {Nobody}]
      /\ \A r \in Shops : Shut(r) => Shut(r)'
      /\ \A r \in Shops : r # s => closedBy'[r] = closedBy[r]
      /\ closedBy'[s] = closedBy[s] \/ closedBy'[s] = e
      /\ row.offline = "done" => Shut(s)'
  <2>1. CASE row.offline = "failed" /\ UNCHANGED <<store, closedBy>>
    BY <2>1 DEF EmergencyInv, Types, Shut
  <2>2. CASE /\ store' = [store EXCEPT ![s] = [open |-> FALSE, by |-> e]]
             /\ closedBy' = [closedBy EXCEPT ![s] = e]
    <3>1. /\ store' \in [Shops -> [open : BOOLEAN, by : Emergencies \cup {Staff, Opener}]]
          /\ store'[s] = [open |-> FALSE, by |-> e]
          /\ \A r \in Shops : r # s => store'[r] = store[r]
      BY <2>2, StoreSet DEF EmergencyInv
    <3>2. /\ closedBy' \in [Shops -> Emergencies \cup {Nobody}] /\ closedBy'[s] = e
          /\ \A r \in Shops : r # s => closedBy'[r] = closedBy[r]
      BY <2>2 DEF EmergencyInv, Types
    <3> QED
      BY <3>1, <3>2 DEF Shut
  <2> QED
    BY <1>5, <2>1, <2>2
<1>10. Types'
  BY <1>6, <1>7, <1>8, <1>9 DEF EmergencyInv, Types
<1>11. Permits'
  <2>1. \A d \in Emergencies, r \in Shops : target'[d][r].offline # "absent" => target[d][r].offline # "absent"
    BY <1>3, <1>7
  <2> QED
    BY <1>6, <2>1, PermitsStay
<1>12. \A d \in Emergencies : d # e => Calm(d) /\ Quiet(d)
  BY <1>6, <1>7, <1>9 DEF Calm, Quiet
<1>13. ~ Hopeful(e)' /\ ~ Returning(e)' /\ ~ Again(e)'
  BY <1>3, <1>6, PlaceIsCalm DEF Hopeful, Returning, Again
<1>14. Emergency(e)'
  <2>1. ASSUME NEW r \in Shops PROVE Marked(e, r)' /\ Closes(e, r)'
    <3>1. Marked(e, r) /\ Closes(e, r) /\ em' = em /\ known' = known
      BY <1>6 DEF EmergencyInv, Emergency
    <3>2. CASE r # s
      BY <1>3, <1>7, <1>9, <1>13, <3>1, <3>2, PlaceIsCalm DEF Marked, Closes
    <3>3. CASE r = s
      <4>1. Marked(e, s)'
        BY <1>3, <1>5, <1>7, <1>9, <1>13, <3>1, <3>3, PlaceIsCalm DEF Marked
      <4>2. Closes(e, s)'
        BY <1>3, <1>5, <1>7, <1>13, <3>1, PlaceIsCalm DEF Closes, Owns, Owned
      <4> QED
        BY <3>3, <4>1, <4>2
    <3> QED
      BY <3>2, <3>3
  <2>2. Asked(e)'
    BY <1>3, <1>6, PlaceIsCalm DEF Asked
  <2>3. (em[e].finished <=> em[e].status \in Ended)'
    BY <1>3, <1>6, PlaceIsCalm DEF Emergency
  <2> QED
    BY <2>1, <2>2, <2>3 DEF Emergency
<1>15. \A d \in Emergencies : Emergency(d)' /\ Reconciles(d)'
  <2>1. Reconciles(e)'
    BY <1>8 DEF Reconciles, NoRecon
  <2> QED
    BY <1>8, <1>12, <1>14, <2>1, CalmEmergency, CalmReconciles
<1>16. ASSUME NEW j \in Jobs PROVE Worked(j)' /\ \A r \in Shops : Handles(j, r)'
  <2>1. CASE job[j].phase = "free" \/ job[j].em # e
    <3>1. job[j].phase # "free" => Calm(job[j].em) /\ Quiet(job[j].em)
      BY <1>12, <2>1, JobOf DEF EmergencyInv
    <3> QED
      BY <1>6, <3>1, CalmWorked, CalmHandles
  <2>2. CASE job[j].phase # "free" /\ job[j].em = e
    <3>1. Started(j) => job[j].action = "offline"
      BY <1>3, <2>2, PlaceIsCalm, JobOf DEF EmergencyInv, Actions
    <3>2. Worked(j)'
      BY <1>3, <1>6, <2>2, <3>1, PlaceIsCalm DEF Worked, Started
    <3>3. ASSUME NEW r \in Shops PROVE Handles(j, r)'
      <4>1. Handles(j, r) /\ ~ MidWrite(e, r)
        BY <1>3, PlaceIsCalm DEF EmergencyInv
      <4>2. at[j][r] # "writing" /\ at'[j][r] = at[j][r] /\ job'[j] = job[j]
        BY <1>6, <2>2, <4>1 DEF MidWrite
      <4>3. at[j][r] # "idle" => job[j].phase = "working" /\ job[j].action = "offline"
        BY <3>1, <4>1 DEF Handles, Started
      <4>4. target'[e][r].offline # "running"
        BY <1>3, <1>5, <1>7, PlaceIsCalm
      <4> QED
        BY <2>2, <4>1, <4>2, <4>3, <4>4 DEF Handles
    <3> QED
      BY <3>2, <3>3
  <2> QED
    BY <2>1, <2>2
<1> QED
  BY <1>10, <1>11, <1>15, <1>16 DEF EmergencyInv

-----------------------------------------------------------------------------
(* The invariant holds.                                                    *)

LEMMA InitInv == ASSUME Init PROVE EmergencyInv
<1>1. PICK past \in SUBSET Emergencies :
       /\ em = [e \in Emergencies |->
                  IF e \in past
                  THEN [status |-> "restored", all |-> FALSE, finished |-> TRUE, due |-> TRUE, fresh |-> FALSE]
                  ELSE [status |-> "none", all |-> FALSE, finished |-> FALSE, due |-> FALSE, fresh |-> FALSE]]
       /\ target = [e \in Emergencies |-> [s \in Shops |-> IF e \in past /\ s \in known THEN Closed ELSE Absent]]
  BY DEF Init
<1>2. /\ known \subseteq Shops /\ later \subseteq Shops \ known
      /\ request = [e \in Emergencies |-> NoRequest]
      /\ job = [j \in Jobs |-> Free]
      /\ at = [j \in Jobs |-> [s \in Shops |-> "idle"]]
      /\ used = {}
      /\ recon = [e \in Emergencies |-> NoRecon]
      /\ opener = [o \in Openers |-> Nobody]
      /\ store = [s \in Shops |-> [open |-> TRUE, by |-> Staff]]
      /\ closedBy = [s \in Shops |-> Nobody]
      /\ events \in 0..MaxEvents
  BY DEF Init
<1>3. Closed \in TargetRow /\ Absent \in TargetRow /\ NoRecon.step = "idle" /\ Free.phase = "free"
      /\ NoRecon \in [step : {"idle", "owned", "writing"}, shop : Shops \cup {Nobody}]
  BY DEF Closed, Absent, TargetRow, NoRecon, Free
<1>4. \A e \in Emergencies :
         /\ em[e] \in EmergencyRow /\ ~ em[e].fresh
         /\ \/ em[e].status = "restored" /\ em[e].finished
               /\ \A s \in Shops : target[e][s] = IF s \in known THEN Closed ELSE Absent
            \/ em[e].status = "none" /\ ~ em[e].finished /\ \A s \in Shops : target[e][s] = Absent
  BY <1>1 DEF EmergencyRow, Statuses, Ended
<1>5. Types
  <2>1. em \in [Emergencies -> EmergencyRow]
    BY <1>1, <1>4
  <2>2. target \in [Emergencies -> [Shops -> TargetRow]]
    BY <1>1, <1>3
  <2>3. store \in [Shops -> [open : BOOLEAN, by : Emergencies \cup {Staff, Opener}]]
    BY <1>2 DEF Staff, Opener
  <2>4. at \in [Jobs -> [Shops -> Steps]]
    BY <1>2 DEF Steps
  <2>5. recon \in [Emergencies -> [step : {"idle", "owned", "writing"}, shop : Shops \cup {Nobody}]]
    BY <1>2, <1>3
  <2> QED
    BY <1>2, <2>1, <2>2, <2>3, <2>4, <2>5 DEF Types
<1>6. ASSUME NEW e \in Emergencies PROVE Emergency(e) /\ Reconciles(e)
  <2>1. ASSUME NEW s \in Shops PROVE Marked(e, s) /\ Closes(e, s)
    <3>1. closedBy[s] # e
      BY <1>2, EmergencyConstants DEF EmergencyConstants
    <3>2. Marked(e, s)
      BY <1>4, <2>1 DEF Marked, Closed, Absent, Hopeful, Returning, Closing, InShutdown, InPlace
    <3> QED
      BY <3>1, <3>2 DEF Closes
  <2>2. Asked(e)
    BY <1>2, <1>4 DEF Asked
  <2>3. em[e].finished <=> em[e].status \in Ended
    BY <1>4 DEF Ended
  <2>4. Reconciles(e)
    BY <1>2, <1>3 DEF Reconciles
  <2> QED
    BY <2>1, <2>2, <2>3, <2>4 DEF Emergency
<1>7. ASSUME NEW j \in Jobs PROVE Worked(j) /\ \A s \in Shops : Handles(j, s)
  BY <1>2, <1>3 DEF Worked, Handles, Started
<1>8. Permits
  BY <1>2 DEF Permits
<1> QED
  BY <1>5, <1>6, <1>7, <1>8 DEF EmergencyInv

LEMMA StutterInv == ASSUME EmergencyInv, UNCHANGED vars PROVE EmergencyInv'
<1>1. /\ Types' /\ Permits'
      /\ \A e \in Emergencies : Emergency(e)' /\ Reconciles(e)'
      /\ \A j \in Jobs : Worked(j)' /\ \A s \in Shops : Handles(j, s)'
  <2>1. Types'
    BY DEF vars, EmergencyInv, Types
  <2>2. Permits'
    BY PermitsKept DEF vars
  <2> QED
    BY <2>1, <2>2, Looks DEF vars
<1> QED
  BY <1>1 DEF EmergencyInv

LEMMA NextInv == ASSUME EmergencyInv, [Next]_vars PROVE EmergencyInv'
<1>1. ASSUME NEW e \in Emergencies, Requests(e) PROVE EmergencyInv'
  <2>1. ASSUME NEW all \in BOOLEAN, NEW S \in SUBSET Shops, Create(e, all, S) PROVE EmergencyInv'
    BY <2>1, CreateInv
  <2>2. CASE RestoreNow(e) \/ RestoreExpired(e)
    BY <2>2, RestoreInv
  <2>3. CASE RetryFailures(e)
    BY <2>3, RetryFailuresInv
  <2>4. CASE Queued(e)
    BY <2>4, QueuedInv
  <2>5. CASE NotQueued(e)
    BY <2>5, NotQueuedInv
  <2>6. CASE RequestDies(e)
    BY <2>6, RequestDiesInv
  <2>7. CASE Expire(e) \/ UpdateReopening(e)
    BY <2>7, DueInv
  <2> QED
    BY <1>1, <2>1, <2>2, <2>3, <2>4, <2>5, <2>6, <2>7 DEF Requests
<1>2. ASSUME NEW e \in Emergencies, Watchdog(e) PROVE EmergencyInv'
  BY <1>2, WatchdogInv
<1>3. ASSUME NEW e \in Emergencies, Reconciling(e) PROVE EmergencyInv'
  <2>1. CASE AppendStores(e)
    BY <2>1, AppendStoresInv
  <2>2. CASE BeginReconcile(e) \/ ReconcilerDies(e)
    BY <2>2, ReconcileStepInv
  <2>3. CASE EndReconcile(e)
    BY <2>3, EndReconcileInv
  <2>4. CASE RefreshSummary(e) \/ ReconciliationFails(e)
    BY <2>4, RefreshSummaryInv
  <2>5. ASSUME NEW s \in Shops, Inspect(e, s) PROVE EmergencyInv'
    BY <2>5, InspectInv
  <2>6. ASSUME NEW s \in Shops, InspectFails(e, s) PROVE EmergencyInv'
    BY <2>6, InspectFailsInv
  <2> QED
    BY <1>3, <2>1, <2>2, <2>3, <2>4, <2>5, <2>6 DEF Reconciling
<1>4. ASSUME NEW j \in Jobs, Processing(j) PROVE EmergencyInv'
  <2>1. CASE Start(j)
    BY <2>1, StartInv
  <2>2. CASE ReadTargets(j)
    BY <2>2, ReadTargetsInv
  <2>3. CASE FailEmergency(j)
    BY <2>3, FailEmergencyInv
  <2>4. CASE Summarize(j)
    BY <2>4, SummarizeInv
  <2>5. CASE Finalize(j)
    BY <2>5, FinalizeInv
  <2>6. CASE WorkerDies(j)
    BY <2>6, WorkerDiesInv
  <2>7. ASSUME NEW s \in Shops, ClaimTarget(j, s) PROVE EmergencyInv'
    BY <2>7, ClaimTargetInv
  <2>8. ASSUME NEW s \in Shops, Renew(j, s) PROVE EmergencyInv'
    BY <2>8, RenewInv
  <2>9. ASSUME NEW s \in Shops, NotAuthorized(j, s) PROVE EmergencyInv'
    BY <2>9, NotAuthorizedInv
  <2>10. ASSUME NEW s \in Shops, Write(j, s) PROVE EmergencyInv'
    BY <2>10, WriteInv
  <2>11. ASSUME NEW s \in Shops, Report(j, s) PROVE EmergencyInv'
    BY <2>11, ReportInv
  <2> QED
    BY <1>4, <2>1, <2>2, <2>3, <2>4, <2>5, <2>6, <2>7, <2>8, <2>9, <2>10, <2>11 DEF Processing
<1>5. CASE Opening
  <2>1. ASSUME NEW o \in Openers, OpenStore(o) PROVE EmergencyInv'
    BY <2>1, OpenStoreInv
  <2>2. ASSUME NEW o \in Openers, NEW s \in Shops, TakePermit(o, s) PROVE EmergencyInv'
    BY <2>2, TakePermitInv
  <2> QED
    BY <1>5, <2>1, <2>2 DEF Opening
<1>6. CASE Outside
  <2>1. ASSUME NEW s \in Shops, Operate(s) PROVE EmergencyInv'
    BY <2>1, OperateInv
  <2>2. ASSUME NEW s \in Shops, Register(s) PROVE EmergencyInv'
    BY <2>2, RegisterInv
  <2> QED
    BY <1>6, <2>1, <2>2 DEF Outside
<1>7. CASE UNCHANGED vars
  BY <1>7, StutterInv
<1> QED
  BY <1>1, <1>2, <1>3, <1>4, <1>5, <1>6, <1>7 DEF Next

\* Every state satisfies the invariant: the rows of an emergency, the request
\* behind it, the jobs at work and the stores fit together at every step of
\* StoreEmergencyService, its processor, its scheduler and the opening guard.
THEOREM EmergencyInvariant == Spec => []EmergencyInv
<1>1. Init => EmergencyInv
  BY InitInv
<1>2. EmergencyInv /\ [Next]_vars => EmergencyInv'
  BY NextInv
<1> QED
  BY <1>1, <1>2, PTL DEF Spec

\* The rows, the jobs and the stores have the types of their columns, and
\* finishedAt is set exactly in the states that end an emergency.
THEOREM TypesHold == Spec => []TypeOK
<1>1. EmergencyInv => TypeOK
  <2> SUFFICES ASSUME EmergencyInv PROVE TypeOK
    OBVIOUS
  <2>1. Types /\ \A e \in Emergencies : em[e].finished <=> em[e].status \in Ended
    BY DEF EmergencyInv, Emergency
  <2>2. \A j \in Jobs : job[j] # Free => job[j].em \in Emergencies /\ job[j].action \in Actions
    BY <2>1, JobOf, FreePhase
  <2> QED
    BY <2>1, <2>2 DEF TypeOK, Types, EmergencyRow, Statuses, Steps, Ended, Actions
<1> QED
  BY <1>1, EmergencyInvariant, PTL

\* A store an emergency closed and nobody has opened since is still on the
\* emergency's list, or a person can retry its restoration: a shutdown that is
\* interrupted, taken over or settled by a stale job never forgets it.
THEOREM RememberedHolds == Spec => []Remembered
<1>1. EmergencyInv => Remembered
  <2> SUFFICES ASSUME EmergencyInv, NEW s \in Shops, closedBy[s] # Nobody
               PROVE  LET e == closedBy[s]  t == target[e][s] IN
                      /\ t.restore \in {"required", "pending", "running", "failed"}
                      /\ \/ Live(e)
                         \/ /\ em[e].status \in {"partial_restored", "restore_failed"}
                            /\ Retryable(t) \/ t.restore = "running"
    BY DEF Remembered
  <2>1. PICK e \in Emergencies : e = closedBy[s]
    BY DEF EmergencyInv, Types
  <2>2. /\ Closes(e, s) /\ (em[e].finished <=> em[e].status \in Ended)
        /\ em[e].status \in Statuses
    BY DEF EmergencyInv, Emergency, Types, EmergencyRow
  <2>3. Live(e) \/ em[e].status \in {"partial_restored", "restore_failed"}
    BY <2>1, <2>2, LiveStatuses DEF Closes, Statuses, Ended
  <2>4. em[e].status \in Ended => Retryable(target[e][s]) \/ target[e][s].restore = "running"
    BY <2>1, <2>2 DEF Closes, Owns, Owned, Retryable
  <2> QED
    BY <2>1, <2>2, <2>3, <2>4 DEF Closes, Owns, Owned, Ended
<1> QED
  BY <1>1, EmergencyInvariant, PTL

\* An emergency that says its stores are offline has closed those it says are
\* done: the worker, the reconciliation and the opening guard leave them closed.
THEOREM OfflineMeansClosedHolds == Spec => []OfflineMeansClosed
<1>1. EmergencyInv => OfflineMeansClosed
  <2> SUFFICES ASSUME EmergencyInv, NEW e \in Emergencies, em[e].status = "offline",
                      NEW s \in Targets(e), target[e][s].offline = "done"
               PROVE  ~ store[s].open \/ store[s].by = Staff
    BY DEF OfflineMeansClosed
  <2>1. s \in Shops
    BY DEF Targets
  <2>2. Marked(e, s)
    BY <2>1 DEF EmergencyInv, Emergency
  <2> QED
    BY <2>2 DEF Marked, Closing, InPlace, Shut
<1> QED
  BY <1>1, EmergencyInvariant, PTL

-----------------------------------------------------------------------------
(* The refinement.  What the abstract state is made of, and the two ways in *)
(* which a step that writes no store reaches it: nothing of it changes, or  *)
(* one emergency's own hold does.                                           *)

Begun == {e \in Emergencies : em[e].status # "none"}
Holders == [s \in Shops |-> {e \in Emergencies : Holds(e, s)}]
Restoring == {e \in Emergencies : Live(e) /\ em[e].status = "restoring"}

\* The step leaves of the row of d all that its hold on a store depends on.
Untouched(d) ==
  /\ em'[d].status = em[d].status /\ em'[d].finished = em[d].finished /\ em'[d].all = em[d].all
  /\ target'[d] = target[d]

LEMMA HoldersOf ==
  /\ \A s \in Shops, e \in Emergencies : e \in Holders[s] <=> Holds(e, s)
  /\ \A s \in Shops : Holders[s] \subseteq Emergencies
BY DEF Holders

LEMMA HoldersThen ==
  /\ \A s \in Shops, e \in Emergencies : e \in Holders'[s] <=> Holds(e, s)'
  /\ \A s \in Shops : Holders'[s] \subseteq Emergencies
BY DEF Holders

LEMMA UntouchedHolds ==
  ASSUME NEW d \in Emergencies, Untouched(d)
  PROVE  /\ d \in Begun' <=> d \in Begun
         /\ d \in Restoring' <=> d \in Restoring
         /\ \A s \in Shops : Holds(d, s)' <=> Holds(d, s)
<1>1. Live(d)' <=> Live(d)
  BY DEF Untouched, Live
<1>2. \A s \in Shops : Covers(d, s)' <=> Covers(d, s)
  BY DEF Untouched, Covers, Targets
<1> QED
  BY <1>1, <1>2 DEF Untouched, Begun, Restoring, Holds

LEMMA StepStutters ==
  ASSUME \A d \in Emergencies : Untouched(d)
  PROVE  Begun' = Begun /\ Holders' = Holders /\ Restoring' = Restoring
<1>1. \A d \in Emergencies : /\ d \in Begun' <=> d \in Begun
                             /\ d \in Restoring' <=> d \in Restoring
                             /\ \A s \in Shops : Holds(d, s)' <=> Holds(d, s)
  BY UntouchedHolds
<1>2. Begun' = Begun /\ Restoring' = Restoring
  BY <1>1 DEF Begun, Restoring
<1>3. \A s \in Shops : {d \in Emergencies : Holds(d, s)'} = {d \in Emergencies : Holds(d, s)}
  BY <1>1
<1>4. Holders' = Holders
  BY <1>3 DEF Holders
<1> QED
  BY <1>2, <1>4

LEMMA StepChanges ==
  ASSUME NEW e \in Emergencies, em[e].status # "none", em'[e].status # "none", store' = store,
         \A d \in Emergencies : d # e => Untouched(d)
  PROVE  Guarded!Change(e)
<1>1. \A d \in Emergencies : d # e => /\ d \in Begun' <=> d \in Begun
                                      /\ d \in Restoring' <=> d \in Restoring
                                      /\ \A s \in Shops : Holds(d, s)' <=> Holds(d, s)
  BY UntouchedHolds
<1>2. e \in Begun /\ Begun' = Begun
  BY <1>1 DEF Begun
<1>3. Restoring' \ {e} = Restoring \ {e}
  BY <1>1 DEF Restoring
<1>4. \A s \in Shops : Holders'[s] \ {e} = Holders[s] \ {e}
  BY <1>1, HoldersOf, HoldersThen
<1> QED
  BY <1>2, <1>3, <1>4 DEF Guarded!Change, Begun, Holders, Restoring

\* A step of the code, seen as a step of GuardedStores.
Implements == [Guarded!Next]_(Guarded!vars)

LEMMA Stutters ==
  ASSUME store' = store, \A d \in Emergencies : Untouched(d)
  PROVE  Implements
<1>1. Begun' = Begun /\ Holders' = Holders /\ Restoring' = Restoring
  BY StepStutters
<1> QED
  BY <1>1 DEF Implements, Guarded!vars, Begun, Holders, Restoring

LEMMA Changes ==
  ASSUME NEW e \in Emergencies, em[e].status # "none", em'[e].status # "none", store' = store,
         \A d \in Emergencies : d # e => Untouched(d)
  PROVE  Implements
BY StepChanges DEF Implements, Guarded!Next

\* Only what the worker or the request says of itself changes.
LEMMA Notices ==
  ASSUME EmergencyInv, store' = store, target' = target,
         \A d \in Emergencies : /\ em'[d].status = em[d].status /\ em'[d].finished = em[d].finished
                                /\ em'[d].all = em[d].all
  PROVE  Implements
BY Stutters DEF Untouched

\* Requests.
LEMMA CreateImplements ==
  ASSUME EmergencyInv, NEW e \in Emergencies, NEW all \in BOOLEAN, NEW S \in SUBSET Shops, Create(e, all, S)
  PROVE  Implements
<1>1. /\ em[e].status = "none" /\ (all => S = known) /\ ~ Conflict(e, S)
      /\ em' = [em EXCEPT ![e] = [status |-> "pending", all |-> all, finished |-> FALSE,
                                  due |-> FALSE, fresh |-> TRUE]]
      /\ target' = [target EXCEPT ![e] = [s \in Shops |-> IF s \in S THEN Fresh ELSE Absent]]
      /\ store' = store
  BY DEF Create
<1>2. /\ em'[e].status = "pending" /\ ~ em'[e].finished /\ em'[e].all = all
      /\ \A s \in Shops : target'[e][s] = IF s \in S THEN Fresh ELSE Absent
      /\ \A d \in Emergencies : d # e => em'[d] = em[d] /\ target'[d] = target[d]
  BY <1>1 DEF EmergencyInv, Types
<1>3. \A d \in Emergencies : d # e => Untouched(d)
  BY <1>2 DEF Untouched
<1>4. \A d \in Emergencies : d # e => /\ d \in Begun' <=> d \in Begun
                                      /\ d \in Restoring' <=> d \in Restoring
                                      /\ \A s \in Shops : Holds(d, s)' <=> Holds(d, s)
  BY <1>3, UntouchedHolds
<1>5. e \notin Begun /\ e \in Begun' /\ e \notin Restoring /\ e \notin Restoring'
  BY <1>1, <1>2 DEF Begun, Restoring
<1>6. Begun' = Begun \cup {e} /\ Restoring' = Restoring
  BY <1>4, <1>5 DEF Begun, Restoring
<1>7. ASSUME NEW s \in Shops
      PROVE  \/ Holders'[s] = Holders[s]
             \/ Holders[s] = {} /\ Holders'[s] = {e}
  <2>1. e \notin Holders[s]
    BY <1>1, HoldersOf DEF Holds, Live, LiveStatus, InShutdown, InPlace
  <2>2. CASE ~ Holds(e, s)'
    <3>1. \A d \in Emergencies : d \in Holders'[s] <=> d \in Holders[s]
      BY <1>4, <2>1, <2>2, HoldersOf, HoldersThen
    <3> QED
      BY <3>1, HoldersOf, HoldersThen
  <2>3. CASE Holds(e, s)'
    <3>1. all \/ s \in S
      BY <1>2, <2>3 DEF Holds, Covers, Targets, Absent
    <3>2. ASSUME NEW d \in Emergencies, d # e, Holds(d, s) PROVE FALSE
      <4>1. Live(d) /\ ~ em[d].all /\ target[d][s].offline # "absent"
        BY <1>1, <3>2 DEF Holds, Conflict, Covers, Targets
      <4>2. S \cap Targets(d) = {}
        BY <1>1, <3>2, <4>1 DEF Conflict
      <4>3. s \notin S
        BY <4>1, <4>2 DEF Targets
      <4>4. s \in known
        BY <4>1 DEF EmergencyInv, Emergency, Marked
      <4> QED
        BY <1>1, <3>1, <4>3, <4>4
    <3>3. \A d \in Emergencies : d \notin Holders[s] /\ (d \in Holders'[s] <=> d = e)
      BY <1>4, <2>1, <2>3, <3>2, HoldersOf, HoldersThen
    <3> QED
      BY <3>3, HoldersOf, HoldersThen
  <2> QED
    BY <2>2, <2>3
<1>8. Guarded!Begin(e)
  BY <1>1, <1>5, <1>6, <1>7 DEF Guarded!Begin, Begun, Holders, Restoring
<1> QED
  BY <1>8 DEF Implements, Guarded!Next

LEMMA RestoreImplements ==
  ASSUME EmergencyInv, NEW e \in Emergencies, RestoreNow(e) \/ RestoreExpired(e) PROVE Implements
<1>1. /\ em[e].status \in InPlace
      /\ em' = [em EXCEPT ![e].status = "restoring", ![e].fresh = TRUE]
      /\ UNCHANGED <<target, store>>
  BY DEF RestoreNow, RestoreExpired, Restore
<1>2. em'[e].status = "restoring" /\ \A d \in Emergencies : d # e => em'[d] = em[d]
  <2>1. "restoring" \in Statuses /\ TRUE \in BOOLEAN
    BY DEF Statuses, LiveStatus
  <2> QED
    BY <1>1, <2>1, EmTurns DEF EmergencyInv
<1> QED
  BY <1>1, <1>2, Changes DEF Untouched, InPlace

LEMMA RetryFailuresImplements ==
  ASSUME EmergencyInv, NEW e \in Emergencies, RetryFailures(e) PROVE Implements
<1>1. PICK next \in {"pending", "restoring"} :
        em' = [em EXCEPT ![e].status = next, ![e].finished = FALSE, ![e].fresh = TRUE]
  BY DEF RetryFailures
<1>2. PICK rows : target' = [target EXCEPT ![e] = rows]
  BY DEF RetryFailures
<1>3. em[e].status # "none" /\ store' = store
  BY DEF RetryFailures
<1>4. em'[e].status = next /\ \A d \in Emergencies : d # e => em'[d] = em[d]
  <2>1. next \in Statuses /\ TRUE \in BOOLEAN /\ FALSE \in BOOLEAN
    BY DEF Statuses, LiveStatus, InShutdown
  <2> QED
    BY <1>1, <2>1, EmEnds, ZenonT(60) DEF EmergencyInv
<1>5. \A d \in Emergencies : d # e => target'[d] = target[d]
  BY <1>2 DEF EmergencyInv, Types
<1> QED
  BY <1>3, <1>4, <1>5, Changes DEF Untouched

LEMMA NotQueuedImplements ==
  ASSUME EmergencyInv, NEW e \in Emergencies, NotQueued(e) PROVE Implements
<1>1. request[e] # NoRequest /\ store' = store
  BY DEF NotQueued
<1>2. CASE em[e].fresh
  <2>1. TakenBack(e)
    BY <1>2, NotQueuedTakesBack
  <2>2. em[e].status # "none" /\ em'[e].status # "none"
    BY <1>1, <2>1 DEF TakenBack, EmergencyInv, Emergency, Asked, InPlace
  <2> QED
    BY <1>1, <2>1, <2>2, Changes DEF TakenBack, Untouched
<1>3. CASE ~ em[e].fresh
  <2>1. em' = em /\ target' = target
    BY <1>3 DEF NotQueued
  <2> QED
    BY <1>1, <2>1, Notices
<1> QED
  BY <1>2, <1>3

LEMMA RequestStepImplements ==
  ASSUME EmergencyInv, NEW e \in Emergencies,
         Queued(e) \/ RequestDies(e) \/ Expire(e) \/ UpdateReopening(e)
  PROVE  Implements
<1>1. /\ UNCHANGED <<target, store>>
      /\ \/ em' = [em EXCEPT ![e].fresh = FALSE]
         \/ em' = [em EXCEPT ![e].due = TRUE]
         \/ em' = [em EXCEPT ![e].due = FALSE, ![e].fresh = FALSE]
  BY DEF Queued, RequestDies, Expire, UpdateReopening
<1>2. em \in [Emergencies -> EmergencyRow]
  BY DEF EmergencyInv, Types
<1>3. \A d \in Emergencies : /\ em'[d].status = em[d].status /\ em'[d].finished = em[d].finished
                             /\ em'[d].all = em[d].all
  BY <1>1, <1>2 DEF EmergencyRow
<1> QED
  BY <1>1, <1>3, Notices

\* The jobs.
LEMMA StartImplements == ASSUME EmergencyInv, NEW j \in Jobs, Start(j) PROVE Implements
<1>1. job[j].phase = "queued" /\ UNCHANGED <<target, store>>
  BY DEF Start
<1>2. PICK e \in Emergencies : e = job[j].em
  BY <1>1, JobOf DEF EmergencyInv
<1>3. em[e].status # "none"
  BY <1>1, <1>2 DEF EmergencyInv, Worked
<1>4. \/ em' = em
      \/ em' = [em EXCEPT ![e].status = IF em[e].status = "pending" THEN "running" ELSE em[e].status, ![e].fresh = FALSE]
  BY <1>2 DEF Start
<1>5. CASE em' = em
  BY <1>1, <1>5, Notices
<1>6. CASE em' = [em EXCEPT ![e].status = IF em[e].status = "pending" THEN "running" ELSE em[e].status, ![e].fresh = FALSE]
  <2>1. PICK st \in Statuses : st = IF em[e].status = "pending" THEN "running" ELSE em[e].status
    BY DEF EmergencyInv, Types, EmergencyRow, Statuses, LiveStatus, InShutdown
  <2>2. em' = [em EXCEPT ![e].status = st, ![e].fresh = FALSE]
    BY <1>6, <2>1
  <2>3. em'[e].status = st /\ \A d \in Emergencies : d # e => em'[d] = em[d]
    BY <2>2, EmTurns DEF EmergencyInv
  <2> QED
    BY <1>1, <1>3, <2>1, <2>3, Changes DEF Untouched
<1> QED
  BY <1>4, <1>5, <1>6

LEMMA JobStepImplements ==
  ASSUME EmergencyInv, NEW j \in Jobs, ReadTargets(j) \/ Summarize(j) \/ WorkerDies(j) PROVE Implements
<1>1. UNCHANGED <<target, store>>
  BY DEF ReadTargets, Summarize, WorkerDies
<1>2. CASE ReadTargets(j)
  <2>1. job[j].phase # "free" /\ Heartbeat(j)
    BY <1>2 DEF ReadTargets
  <2> QED
    BY <1>1, <2>1, HeartbeatCalms, Notices
<1>3. CASE Summarize(j) \/ WorkerDies(j)
  <2>1. em' = em
    BY <1>3 DEF Summarize, WorkerDies
  <2> QED
    BY <1>1, <2>1, Notices, SMTT(30)
<1> QED
  BY <1>2, <1>3

LEMMA FailEmergencyImplements == ASSUME EmergencyInv, NEW j \in Jobs, FailEmergency(j) PROVE Implements
<1>1. job[j].phase = "claimed" /\ store' = store
  BY ZenonT(60) DEF FailEmergency
<1>2. PICK e \in Emergencies : e = job[j].em
  BY <1>1, JobOf DEF EmergencyInv
<1>3. em[e].status # "none"
  BY <1>1, <1>2 DEF EmergencyInv, Worked
<1>4. CASE UNCHANGED <<em, target>>
  BY <1>1, <1>4, Notices
<1>5. CASE ~ UNCHANGED <<em, target>>
  <2>1. PICK rows, st : /\ Replaces(e, rows) /\ Settles(e, st)
                        /\ st = FailedStatus(e, job[j].action = "offline")
    BY <1>2, <1>5, FailEmergencyWrites
  <2>2. st \in Statuses /\ st # "none"
    BY <2>1, ShutdownStatuses, RestoreStatuses
       DEF FailedStatus, Statuses, LiveStatus, InPlace, Ended
  <2>3. em' = [em EXCEPT ![e].status = st, ![e].finished = st \in Ended, ![e].fresh = FALSE]
    BY <2>1 DEF Settles
  <2>4. em'[e].status = st /\ \A d \in Emergencies : d # e => em'[d] = em[d]
    <3>1. (st \in Ended) \in BOOLEAN /\ FALSE \in BOOLEAN
      OBVIOUS
    <3> QED
      BY <2>2, <2>3, <3>1, EmEnds, ZenonT(60) DEF EmergencyInv
  <2>5. \A d \in Emergencies : d # e => target'[d] = target[d]
    BY <2>1 DEF Replaces, EmergencyInv, Types
  <2> QED
    BY <1>1, <1>3, <2>2, <2>4, <2>5, Changes DEF Untouched
<1> QED
  BY <1>4, <1>5, SMTT(30)

LEMMA FinalizeImplements == ASSUME EmergencyInv, NEW j \in Jobs, Finalize(j) PROVE Implements
<1>1. job[j].phase = "settling" /\ UNCHANGED <<target, store>>
  BY DEF Finalize
<1>2. PICK e \in Emergencies : e = job[j].em
  BY <1>1, JobOf DEF EmergencyInv
<1>3. job[j].action \in Actions
  BY <1>1, JobOf DEF EmergencyInv
<1>4. CASE em' = em
  BY <1>1, <1>4, Notices
<1>5. CASE em' # em
  <2>1. /\ em[e].status = (IF job[j].action = "offline" THEN "running" ELSE "restoring")
        /\ em' = [em EXCEPT ![e].status = job[j].status, ![e].finished = job[j].status \in Ended,
                            ![e].fresh = FALSE]
    BY <1>2, <1>5, SMTT(30) DEF Finalize
  <2>2. job[j].status = ShutdownStatus(target[e]) \/ job[j].status = RestoreStatus(target[e])
    BY <1>1, <1>2, <1>3, <2>1 DEF EmergencyInv, Worked, Actions, InShutdown
  <2>3. PICK st \in Statuses : st = job[j].status /\ st # "none"
    BY <2>2, ShutdownStatuses, RestoreStatuses DEF Statuses, LiveStatus, InPlace, Ended
  <2>4. em' = [em EXCEPT ![e].status = st, ![e].finished = st \in Ended, ![e].fresh = FALSE]
    BY <2>1, <2>3
  <2>5. em'[e].status = st /\ \A d \in Emergencies : d # e => em'[d] = em[d]
    <3>1. (st \in Ended) \in BOOLEAN /\ FALSE \in BOOLEAN
      OBVIOUS
    <3> QED
      BY <2>4, <3>1, EmEnds, ZenonT(60) DEF EmergencyInv
  <2>6. em[e].status # "none"
    BY <2>1
  <2> QED
    BY <1>1, <2>3, <2>5, <2>6, Changes DEF Untouched
<1> QED
  BY <1>4, <1>5

LEMMA ClaimTargetImplements ==
  ASSUME EmergencyInv, NEW j \in Jobs, NEW s \in Shops, ClaimTarget(j, s) PROVE Implements
<1>1. job[j].phase = "working" /\ UNCHANGED <<em, store>>
  BY DEF ClaimTarget
<1>2. PICK e \in Emergencies : e = job[j].em
  BY <1>1, JobOf DEF EmergencyInv
<1>3. em[e].status # "none"
  BY <1>1, <1>2 DEF EmergencyInv, Worked
<1>4. target' = target \/ \E row : target' = [target EXCEPT ![e][s] = row]
  BY <1>2 DEF ClaimTarget
<1>5. \A d \in Emergencies : d # e => target'[d] = target[d]
  BY <1>4 DEF EmergencyInv, Types
<1> QED
  BY <1>1, <1>3, <1>5, Changes DEF Untouched

LEMMA RenewImplements ==
  ASSUME EmergencyInv, NEW j \in Jobs, NEW s \in Shops, Renew(j, s) \/ Report(j, s) PROVE Implements
<1>1. at[j][s] # "idle" /\ store' = store /\ Heartbeat(j)
  BY DEF Renew, Report
<1>2. job[j].phase = "working"
  BY <1>1 DEF EmergencyInv, Handles
<1>3. PICK e \in Emergencies : e = job[j].em
  BY <1>2, JobOf DEF EmergencyInv
<1>4. em[e].status # "none"
  BY <1>2, <1>3 DEF EmergencyInv, Worked
<1>5. target' = target \/ \E row : target' = [target EXCEPT ![e][s] = row]
  <2>1. CASE Renew(j, s)
    <3>1. \/ target' = target
          \/ target' = [target EXCEPT ![e][s].restore = "required"]
      BY <1>3, <2>1 DEF Renew
    <3>2. [target EXCEPT ![e][s].restore = "required"]
            = [target EXCEPT ![e][s] = [target[e][s] EXCEPT !.restore = "required"]]
      OBVIOUS
    <3> QED
      BY <3>1, <3>2
  <2>2. CASE Report(j, s)
    <3>1. \/ target' = target
          \/ target' = [target EXCEPT ![e][s] =
                          Outcome(target[e][s], job[j].action = "offline", at[j][s] = "confirmed")]
      BY <1>3, <2>2 DEF Report
    <3> QED
      BY <3>1
  <2> QED
    BY <1>1, <2>1, <2>2
<1>6. \A d \in Emergencies : d # e => target'[d] = target[d]
  BY <1>5 DEF EmergencyInv, Types
<1>7. \A d \in Emergencies : /\ em'[d].status = em[d].status /\ em'[d].finished = em[d].finished
                             /\ em'[d].all = em[d].all
  BY <1>1, <1>2, HeartbeatCalms
<1> QED
  BY <1>1, <1>4, <1>6, <1>7, Changes DEF Untouched

LEMMA WriteImplements ==
  ASSUME EmergencyInv, NEW j \in Jobs, NEW s \in Shops, Write(j, s) PROVE Implements
<1>1. at[j][s] = "writing" /\ UNCHANGED <<em, target>>
  BY DEF Write
<1>2. Handles(j, s) /\ job[j].phase = "working"
  BY <1>1 DEF EmergencyInv, Handles
<1>3. PICK e \in Emergencies : e = job[j].em
  BY <1>2, JobOf DEF EmergencyInv
<1>4. job[j].action \in Actions
  BY <1>2, JobOf DEF EmergencyInv
<1>5. \A d \in Emergencies : Untouched(d)
  BY <1>1 DEF Untouched
<1>6. CASE store' = store
  BY <1>5, <1>6, Stutters
<1>7. CASE job[j].action = "offline" /\ store' # store
  <2>1. store' = [store EXCEPT ![s] = [open |-> FALSE, by |-> e]]
    BY <1>3, <1>7 DEF Write
  <2>2. em[e].status = "running" /\ target[e][s].offline = "running"
    BY <1>1, <1>2, <1>3, <1>7 DEF Handles
  <2>3. Live(e)
    BY <2>2, LiveStatuses DEF LiveStatus, InShutdown
  <2>4. e \in Holders[s] /\ e \notin Restoring
    BY <2>2, <2>3, HoldersOf DEF Holds, Covers, Targets, Restoring
  <2>5. Guarded!Close(e)
    BY <1>5, <2>1, <2>4, StepStutters DEF Guarded!Close, Begun, Holders, Restoring
  <2> QED
    BY <2>5 DEF Implements, Guarded!Next
<1>8. CASE job[j].action = "restore" /\ store' # store
  <2>1. store' = [store EXCEPT ![s] = [open |-> TRUE, by |-> e]]
    BY <1>3, <1>8 DEF Write
  <2>2. em[e].status = "restoring" /\ target[e][s].restore = "running"
    BY <1>1, <1>2, <1>3, <1>8 DEF Handles
  <2>3. Live(e) /\ Marked(e, s)
    BY <2>2, LiveStatuses DEF LiveStatus, EmergencyInv, Emergency
  <2>4. Holds(e, s) /\ e \in Restoring
    BY <2>2, <2>3 DEF Marked, Holds, Covers, Targets, Restoring
  <2>5. \A d \in Emergencies : d # e => ~ Holds(d, s)
    BY <1>1, <1>3, <1>8 DEF EmergencyInv, Permits, Holds
  <2>6. Holders[s] = {e}
    BY <2>4, <2>5, HoldersOf
  <2>7. Guarded!GiveBack(e)
    BY <1>5, <2>1, <2>4, <2>6, StepStutters DEF Guarded!GiveBack, Begun, Holders, Restoring
  <2> QED
    BY <2>7 DEF Implements, Guarded!Next
<1> QED
  BY <1>4, <1>6, <1>7, <1>8 DEF Actions

\* The watchdog and the reconciliation.
LEMMA WatchdogImplements == ASSUME EmergencyInv, NEW e \in Emergencies, Watchdog(e) PROVE Implements
<1>1. /\ em[e].status \in InShutdown \cup {"restoring"} /\ store' = store
      /\ em' = [em EXCEPT ![e].status = IF em[e].status \in InShutdown THEN "pending" ELSE "restoring"]
  BY DEF Watchdog, Transition
<1>2. \E rows : target' = [target EXCEPT ![e] = rows]
  BY DEF Watchdog
<1>3. /\ em'[e].status \in {"pending", "restoring"}
      /\ \A d \in Emergencies : d # e => em'[d] = em[d] /\ target'[d] = target[d]
  BY <1>1, <1>2 DEF EmergencyInv, Types, EmergencyRow
<1> QED
  BY <1>1, <1>3, Changes DEF Untouched, InShutdown

LEMMA ReconcileStepImplements ==
  ASSUME EmergencyInv, NEW e \in Emergencies, BeginReconcile(e) \/ ReconcilerDies(e) PROVE Implements
<1>1. UNCHANGED <<em, target, store>>
  BY DEF BeginReconcile, ReconcilerDies
<1> QED
  BY <1>1, Notices

LEMMA TargetsImplement ==
  ASSUME EmergencyInv, NEW e \in Emergencies,
         AppendStores(e) \/ \E s \in Shops : Inspect(e, s) \/ InspectFails(e, s)
  PROVE  Implements
<1>1. em[e].status # "none" /\ UNCHANGED <<em, store>>
  BY ZenonT(60) DEF AppendStores, Inspect, InspectFails, StillLive, InPlace
<1>2. (\E rows : target' = [target EXCEPT ![e] = rows]) \/ (\E s \in Shops : \E row : target' = [target EXCEPT ![e][s] = row])
  BY ZenonT(60) DEF AppendStores, Inspect, InspectFails
<1>3. \A d \in Emergencies : d # e => target'[d] = target[d]
  BY <1>2 DEF EmergencyInv, Types
<1> QED
  BY <1>1, <1>3, Changes DEF Untouched

LEMMA EndReconcileImplements ==
  ASSUME EmergencyInv, NEW e \in Emergencies, EndReconcile(e) PROVE Implements
<1>1. recon[e].step = "writing" /\ em' = em
  BY DEF EndReconcile
<1>2. PICK s \in Shops : s = recon[e].shop
  BY <1>1 DEF EmergencyInv, Reconciles
<1>3. em[e].status \in InPlace /\ target[e][s].offline # "absent"
  BY <1>1, <1>2 DEF EmergencyInv, Reconciles
<1>4. store' = store \/ store' = [store EXCEPT ![s] = [open |-> FALSE, by |-> e]]
  BY <1>2 DEF EndReconcile
<1>5. PICK row : target' = [target EXCEPT ![e][s] = row] /\ row.offline # "absent"
  <2> DEFINE t == target[e][s]
             held == t.restore = "required" /\ t.lease = "recon"
             done == [t EXCEPT !.offline = "done", !.restore = "pending", !.doubt = FALSE, !.lease = Nobody]
             failed == [t EXCEPT !.offline = "failed"]
  <2>1. t \in TargetRow
    BY DEF EmergencyInv, Types
  <2>2. done.offline = "done" /\ failed.offline = "failed"
    BY <2>1, SMTT(30) DEF TargetRow
  <2>3. \/ target' = [target EXCEPT ![e][s] = IF held THEN done ELSE t]
        \/ target' = [target EXCEPT ![e][s] = IF held THEN failed ELSE t]
        \/ target' = [target EXCEPT ![e][s] = t]
    <3>1. target = [target EXCEPT ![e][s] = t]
      BY DEF EmergencyInv, Types
    <3> QED
      BY <1>2, <3>1 DEF EndReconcile
  <2> HIDE DEF done, failed, held
  <2> QED
    BY <1>3, <2>2, <2>3
<1>6. /\ \A d \in Emergencies : d # e => target'[d] = target[d]
      /\ \A r \in Shops : target'[e][r].offline # "absent" <=> target[e][r].offline # "absent"
  BY <1>3, <1>5 DEF EmergencyInv, Types
<1>7. \A d \in Emergencies : /\ d \in Begun' <=> d \in Begun
                             /\ d \in Restoring' <=> d \in Restoring
                             /\ \A r \in Shops : Holds(d, r)' <=> Holds(d, r)
  <2>1. \A d \in Emergencies : d # e => Untouched(d)
    BY <1>1, <1>6 DEF Untouched
  <2>2. \A r \in Shops : Holds(e, r)' <=> Holds(e, r)
    <3>1. Live(e)' <=> Live(e)
      BY <1>1 DEF Live
    <3>2. \A r \in Shops : Covers(e, r)' <=> Covers(e, r)
      BY <1>1, <1>6 DEF Covers, Targets
    <3>3. em[e].status # "restoring" /\ em'[e].status # "restoring"
      BY <1>1, <1>3 DEF InPlace
    <3> QED
      BY <3>1, <3>2, <3>3 DEF Holds
  <2>3. /\ e \in Begun' <=> e \in Begun
        /\ e \in Restoring' <=> e \in Restoring
    BY <1>1, <1>3 DEF Begun, Restoring, Live, InPlace
  <2> QED
    BY <2>1, <2>2, <2>3, UntouchedHolds
<1>8. Begun' = Begun /\ Restoring' = Restoring
  BY <1>7 DEF Begun, Restoring
<1>9. Holders' = Holders
  <2>1. \A r \in Shops : {d \in Emergencies : Holds(d, r)'} = {d \in Emergencies : Holds(d, r)}
    BY <1>7
  <2> QED
    BY <2>1 DEF Holders
<1>10. CASE store' = store
  BY <1>8, <1>9, <1>10 DEF Implements, Guarded!vars, Begun, Holders, Restoring
<1>11. CASE store' = [store EXCEPT ![s] = [open |-> FALSE, by |-> e]]
  <2>1. Live(e)
    BY <1>3, LiveStatuses DEF LiveStatus
  <2>2. e \in Holders[s] /\ e \notin Restoring
    BY <1>3, <2>1, HoldersOf DEF Holds, Covers, Targets, Restoring, InPlace
  <2>3. Guarded!Close(e)
    BY <1>8, <1>9, <1>11, <2>2 DEF Guarded!Close, Begun, Holders, Restoring
  <2> QED
    BY <2>3 DEF Implements, Guarded!Next
<1> QED
  BY <1>4, <1>10, <1>11

LEMMA RefreshSummaryImplements ==
  ASSUME EmergencyInv, NEW e \in Emergencies, RefreshSummary(e) \/ ReconciliationFails(e)
  PROVE  Implements
<1>1. PICK st \in InPlace : em' = [em EXCEPT ![e].status = st, ![e].fresh = FALSE]
  BY DEF RefreshSummary, ReconciliationFails, InPlace
<1>2. em[e].status \in InPlace /\ UNCHANGED <<target, store>>
  BY DEF RefreshSummary, ReconciliationFails, StillLive
<1>3. em'[e].status = st /\ \A d \in Emergencies : d # e => em'[d] = em[d]
  <2>1. st \in Statuses /\ FALSE \in BOOLEAN
    BY DEF Statuses, LiveStatus
  <2> QED
    BY <1>1, <2>1, EmTurns DEF EmergencyInv
<1> QED
  BY <1>2, <1>3, Changes DEF Untouched, InPlace

\* Those who open stores, and the people at the stores.
LEMMA OpenStoreImplements == ASSUME EmergencyInv, NEW o \in Openers, OpenStore(o) PROVE Implements
<1>1. PICK s \in Shops : s = opener[o]
  BY DEF OpenStore, EmergencyInv, Types
<1>2. /\ UNCHANGED <<em, target>>
      /\ store' = store \/ store' = [store EXCEPT ![s] = [open |-> TRUE, by |-> Opener]]
      /\ opener[o] # Nobody
  BY <1>1 DEF OpenStore
<1>3. \A d \in Emergencies : Untouched(d)
  BY <1>2 DEF Untouched
<1>4. CASE store' = store
  BY <1>3, <1>4, Stutters
<1>5. CASE store' = [store EXCEPT ![s] = [open |-> TRUE, by |-> Opener]]
  <2>1. \A d \in Emergencies : ~ Holds(d, s)
    BY <1>1, <1>2 DEF EmergencyInv, Permits, Holds
  <2>2. Holders[s] = {}
    BY <2>1, HoldersOf
  <2>3. Guarded!Open(s)
    BY <1>3, <1>5, <2>2, StepStutters DEF Guarded!Open, Guarded!Opener, Opener, Begun, Holders, Restoring
  <2> QED
    BY <2>3 DEF Implements, Guarded!Next
<1> QED
  BY <1>2, <1>4, <1>5

LEMMA OperateImplements == ASSUME EmergencyInv, NEW s \in Shops, Operate(s) PROVE Implements
<1>1. /\ UNCHANGED <<em, target>>
      /\ store' = [store EXCEPT ![s] = [open |-> ~ store[s].open, by |-> Staff]]
  BY DEF Operate
<1>2. \A d \in Emergencies : Untouched(d)
  BY <1>1 DEF Untouched
<1>3. Guarded!Operate(s)
  BY <1>1, <1>2, StepStutters DEF Guarded!Operate, Guarded!Staff, Staff, Begun, Holders, Restoring
<1> QED
  BY <1>3 DEF Implements, Guarded!Next

LEMMA QuietImplements ==
  ASSUME EmergencyInv,
         \/ \E j \in Jobs, s \in Shops : NotAuthorized(j, s)
         \/ \E o \in Openers, s \in Shops : TakePermit(o, s)
         \/ \E s \in Shops : Register(s)
         \/ UNCHANGED vars
  PROVE  Implements
<1>1. UNCHANGED <<em, target, store>>
  BY DEF NotAuthorized, TakePermit, Register, vars
<1> QED
  BY <1>1, Notices

LEMMA NextImplements == ASSUME EmergencyInv, [Next]_vars PROVE Implements
<1>1. ASSUME NEW e \in Emergencies, Requests(e) PROVE Implements
  BY <1>1, CreateImplements, RestoreImplements, RetryFailuresImplements, NotQueuedImplements,
     RequestStepImplements DEF Requests
<1>2. ASSUME NEW e \in Emergencies, Reconciling(e) PROVE Implements
  BY <1>2, TargetsImplement, ReconcileStepImplements, EndReconcileImplements, RefreshSummaryImplements
     DEF Reconciling
<1>3. ASSUME NEW j \in Jobs, Processing(j) PROVE Implements
  BY <1>3, StartImplements, JobStepImplements, FailEmergencyImplements, FinalizeImplements,
     ClaimTargetImplements, RenewImplements, WriteImplements, QuietImplements DEF Processing
<1>4. ASSUME Opening \/ Outside PROVE Implements
  BY <1>4, OpenStoreImplements, OperateImplements, QuietImplements DEF Opening, Outside
<1> QED
  BY <1>1, <1>2, <1>3, <1>4, WatchdogImplements, QuietImplements DEF Next

LEMMA InitImplements == ASSUME Init PROVE Guarded!Init
<1>1. EmergencyInv
  BY InitInv
<1>2. \A e \in Emergencies : em[e].status \notin LiveStatus
  BY DEF Init, LiveStatus, InShutdown, InPlace
<1>3. \A e \in Emergencies : ~ Live(e)
  BY <1>2 DEF Live
<1>4. Begun \in SUBSET Emergencies /\ Restoring = {}
  BY <1>3 DEF Begun, Restoring
<1>5. \A s \in Shops : {e \in Emergencies : Holds(e, s)} = {}
  BY <1>3 DEF Holds
<1>6. Holders = [s \in Shops |-> {}]
  BY <1>5 DEF Holders
<1>7. store \in [Shops -> [open : BOOLEAN, by : {Guarded!Staff}]]
  BY DEF Init, Guarded!Staff, Staff
<1> QED
  BY <1>4, <1>6, <1>7 DEF Guarded!Init, Begun, Holders, Restoring

\* The emergencies of a brand and the opening guard implement GuardedStores: a
\* store is closed only by an emergency that holds it, reopened only by the one
\* that holds it alone, and opened by anybody else only while nobody holds it.
THEOREM ImplementsGuardedStoresHolds == Spec => ImplementsGuardedStores
<1>1. Init => Guarded!Init
  BY InitImplements
<1>2. EmergencyInv /\ [Next]_vars => [Guarded!Next]_(Guarded!vars)
  BY NextImplements DEF Implements
<1> QED
  BY <1>1, <1>2, EmergencyInvariant, PTL DEF Spec, ImplementsGuardedStores, Guarded!Spec
=============================================================================
