-------------------------- MODULE DidiWritesProofs --------------------------
(* Proofs about the two programs that tell DiDi to change something and may   *)
(* not hear the answer.                                                       *)
(*                                                                            *)
(* UpcActivityPrice: DiDi never has two uploads of an execution under way and *)
(* none is forgotten, for any workers, uploads and events.  A worker that has *)
(* lost its lease may still POST, so the invariant speaks of every worker     *)
(* that is about to (OnePost), ties what DiDi may have to the checkpoint      *)
(* (Tracked), and says what the holder of the lease knows at each place of    *)
(* its program (Owners).                                                      *)
(*                                                                            *)
(* GoLive: who may tell DiDi to open a store and what is settled, for any     *)
(* requests, recoveries, attempts and faults.  Who waits for DiDi holds the   *)
(* locks (Held), so that nothing it has read changes meanwhile.  An attempt   *)
(* belongs to one request (Owned), which a recovery meets only when it is     *)
(* slow (Late).                                                               *)
EXTENDS MCDidiWrites, FiniteSetTheorems, TLAPS

-----------------------------------------------------------------------------
(* Activity prices: the invariant.                                            *)

States == {"none", "prepared", "submitting", "submitted", "unconfirmed", "rejected", "terminal", "verified"}
Progress == [state : States, n : Nat, left : BOOLEAN, shop : BOOLEAN]
Places == Upc!Holding \cup {"acquire", "post"}
Busy == [at : Places, job : Upc!Jobs, own : BOOLEAN, menu : BOOLEAN, progress : Progress]

Types ==
  /\ exec \in {"pending", "running", "finished", "failed", "cancelled"}
  /\ cancel \in BOOLEAN /\ review \in BOOLEAN
  /\ saved \in Progress
  /\ owner \in Workers \cup {Upc!NoOne, Upc!Orphan}
  /\ job \in [Upc!Jobs -> {"absent", "waiting", "active", "completed", "failed"}]
  /\ worker \in [Workers -> {Upc!Idle} \cup Busy]
  /\ upload \in [Uploads -> {"unused", "running", "refused", "ended"}]

\* Nothing is submitted that DiDi may not have ended.
Quiet == {"none", "prepared", "rejected", "terminal", "verified"}

\* About to POST, whether the lease is still its own or not.
Posters == {w \in Workers : worker[w].at = "post"}

\* At most one worker is about to POST: it finds its upload unused and none running.
OnePost ==
  /\ \A v, w \in Posters : v = w
  /\ \A w \in Posters : Uploading = {} /\ \A n \in Uploads : n = worker[w].progress.n => upload[n] = "unused"
  /\ \A m, n \in Uploading : m = n

\* While the execution is active the checkpoint knows every upload that DiDi has
\* or may yet get: it is the last one, and is written down as submitted or worse.
Tracked ==
  exec \in Upc!Active =>
    /\ saved.state \in Quiet => Uploading = {} /\ Posters = {}
    /\ \A n \in Uploading : n = saved.n
    /\ \A w \in Posters : worker[w].progress.n = saved.n /\ saved.state = "submitting"
    /\ \A n \in Uploads : n > saved.n => upload[n] = "unused"
    /\ saved.state = "prepared" => \A n \in Uploads : n = saved.n => upload[n] = "unused"
    /\ saved.shop => saved.state \in Quiet
    /\ exec = "pending" => saved = Upc!NoUpload

\* An execution that has ended by itself leaves no upload, and nobody who would
\* still POST one.
Closed == exec \in {"finished", "failed"} /\ ~ cancel => Uploading = {} /\ Posters = {}

\* What a worker that has the lease may rely on at a place of its program, with
\* progress p: after the POST its progress is ahead of the checkpoint.
At(place, p) ==
  /\ place # "answer" => p = saved
  /\ place \notin {"shop", "finish", "close", "stopping"} => ~ p.shop
  /\ CASE place = "answer"   -> /\ p.n = saved.n /\ saved.state = "submitting" /\ Posters = {}
                                /\ p.state \in {"submitted", "rejected", "unconfirmed"}
                                /\ p.state = "rejected" => Uploading = {}
       [] place = "export"   -> p.state = "none"
       [] place = "prepare"  -> p.state \in {"none", "prepared", "verified"}
       [] place = "token"    -> p.state = "prepared"
       [] place = "boundary" -> /\ p.state = "submitting" /\ Uploading = {} /\ Posters = {}
                                /\ \A n \in Uploads : n = p.n => upload[n] = "unused"
       [] place = "post"     -> p.state = "submitting"
       [] place \in {"poll", "check"} -> p.state = "submitted"
       [] place = "verify"   -> p.state \in {"terminal", "verified"}
       [] place = "review"   -> p.state \in {"submitting", "unconfirmed"}
       [] place \in {"save", "finish", "close"} -> p.state \in Quiet
       [] place = "stopping" -> cancel
       [] OTHER              -> place \in {"shop", "catalog", "loop"}

\* The worker has only just taken the lease, or the execution is its own to run.
Abreast(w) ==
  \/ worker[w].at = "claim"
  \/ exec = "running" /\ ~ review /\ At(worker[w].at, worker[w].progress)

Owners == \A w \in Workers : owner = w => Abreast(w)

UpcInv == Types /\ OnePost /\ Tracked /\ Closed /\ Owners

-----------------------------------------------------------------------------

(* Where a step takes a worker.                                               *)

WorkerType == worker \in [Workers -> {Upc!Idle} \cup Busy]

Others(w) == \A v \in Workers \ {w} : worker'[v] = worker[v]

LEMMA BusyWorker ==
  ASSUME WorkerType, NEW w \in Workers, worker[w].at \in Places
  PROVE  worker[w] \in Busy
  BY DEF WorkerType, Places, Upc!Holding, Upc!Idle

LEMMA GoesSomewhere ==
  ASSUME WorkerType, NEW w \in Workers, NEW s \in {Upc!Idle} \cup Busy, Upc!Goes(w, s)
  PROVE  WorkerType' /\ worker'[w] = s /\ Others(w)
  BY DEF WorkerType, Upc!Goes, Others

LEMMA MovesTo ==
  ASSUME WorkerType, NEW w \in Workers, worker[w].at \in Places, NEW a \in Places, Upc!Moves(w, a)
  PROVE  /\ WorkerType' /\ Others(w)
         /\ worker'[w] \in Busy /\ worker'[w].at = a /\ worker'[w].progress = worker[w].progress
<1>1. worker[w] \in Busy
  BY BusyWorker
<1> DEFINE s == [worker[w] EXCEPT !.at = a]
<1>2. s \in Busy /\ s.at = a /\ s.progress = worker[w].progress
  BY <1>1 DEF Busy
<1> QED
  BY <1>2, GoesSomewhere DEF Upc!Moves

LEMMA SavesTo ==
  ASSUME WorkerType, NEW w \in Workers, worker[w].at \in Places, NEW a \in Places,
         NEW p \in Progress, Upc!Saves(w, a, p)
  PROVE  /\ WorkerType' /\ Others(w) /\ saved' = p
         /\ worker'[w] \in Busy /\ worker'[w].at = a /\ worker'[w].progress = p
<1>1. worker[w] \in Busy
  BY BusyWorker
<1> DEFINE s == [worker[w] EXCEPT !.at = a, !.progress = p]
<1>2. s \in Busy /\ s.at = a /\ s.progress = p
  BY <1>1 DEF Busy
<1> QED
  BY <1>2, GoesSomewhere DEF Upc!Saves

LEMMA KnowsThat ==
  ASSUME WorkerType, NEW w \in Workers, worker[w].at \in Places, NEW a \in Places,
         NEW st \in States, Upc!Knows(w, a, st)
  PROVE  /\ WorkerType' /\ Others(w)
         /\ worker'[w] \in Busy /\ worker'[w].at = a
         /\ worker'[w].progress = [worker[w].progress EXCEPT !.state = st]
<1>1. worker[w] \in Busy
  BY BusyWorker
<1> DEFINE s == [worker[w] EXCEPT !.at = a, !.progress.state = st, !.menu = FALSE]
<1>2. worker[w].progress \in Progress
  BY <1>1 DEF Busy
<1>3. [worker[w].progress EXCEPT !.state = st] \in Progress
  BY <1>2 DEF Progress
<1>4. s \in Busy /\ s.at = a /\ s.progress = [worker[w].progress EXCEPT !.state = st]
  BY <1>1, <1>3 DEF Busy
<1> QED
  BY <1>4, GoesSomewhere DEF Upc!Knows

LEMMA LeavesAll ==
  ASSUME WorkerType, NEW w \in Workers, NEW state, Upc!Leaves(w, state)
  PROVE  /\ WorkerType' /\ Others(w) /\ worker'[w] = Upc!Idle
         /\ owner' = IF owner = w THEN Upc!NoOne ELSE owner
         /\ job' = IF worker[w].own THEN [job EXCEPT ![worker[w].job] = state] ELSE job
  BY GoesSomewhere DEF Upc!Leaves

-----------------------------------------------------------------------------

(* What a step leaves as it is.                                               *)

\* A step that does not lead to the POST takes nobody there.
LEMMA Frame ==
  ASSUME UpcInv, NEW w \in Workers, Others(w), worker'[w].at # "post", UNCHANGED upload
  PROVE  /\ Uploading' = Uploading /\ Posters' = Posters \ {w}
         /\ \A v \in Posters' : worker'[v] = worker[v]
  BY DEF Uploading, Posters, Others

\* Nor does it disturb what relates DiDi to the checkpoint, when it changes neither.
LEMMA Quieter ==
  ASSUME UpcInv, NEW w \in Workers, Others(w), worker'[w].at # "post",
         UNCHANGED <<upload, exec, saved>>, cancel => cancel'
  PROVE  OnePost' /\ Tracked' /\ Closed'
<1> USE Frame DEF UpcInv
<1>1. OnePost'
  BY DEF OnePost
<1>2. Tracked'
  BY DEF Tracked
<1>3. Closed'
  BY DEF Closed
<1> QED
  BY <1>1, <1>2, <1>3

\* A worker without the lease does not disturb the one that has it.
LEMMA Bystander ==
  ASSUME UpcInv, NEW w \in Workers, Others(w), worker'[w].at # "post",
         UNCHANGED <<upload, exec, saved, review, owner>>, cancel => cancel', owner # w
  PROVE  Owners'
<1> SUFFICES ASSUME NEW v \in Workers, owner = v PROVE Abreast(v)'
  BY DEF Owners
<1>1. v # w /\ worker'[v] = worker[v] /\ Abreast(v)
  BY DEF UpcInv, Owners, Others
<1>2. At(worker[v].at, worker[v].progress) => At(worker[v].at, worker[v].progress)'
  BY Frame, <1>1 DEF At
<1> QED
  BY <1>1, <1>2 DEF Abreast

\* The owner goes to a place of which it may rely on what it knows.
LEMMA GoesOn ==
  ASSUME UpcInv, NEW w \in Workers, owner = w, worker[w].at # "claim",
         NEW a \in Upc!Holding, Others(w), WorkerType', worker'[w].at = a,
         UNCHANGED <<exec, cancel, review, owner, job, upload, saved>>,
         worker'[w].progress = worker[w].progress,
         At(a, worker[w].progress)
  PROVE  UpcInv'
<1>1. Types'
  BY DEF UpcInv, Types, WorkerType
<1>2. OnePost' /\ Tracked' /\ Closed'
  BY Quieter DEF Upc!Holding
<1>3. At(a, worker[w].progress) => At(worker[w].at, worker[w].progress)'
  BY Frame DEF At, Upc!Holding
<1>4. Owners'
  BY <1>3 DEF Owners, Abreast, UpcInv
<1> QED
  BY <1>1, <1>2, <1>4 DEF UpcInv

\* A worker that leaves the queue leaves the lease.
LEMMA LeavesWell ==
  ASSUME Upc!UpcConstants, UpcInv, NEW w \in Workers, NEW state \in {"waiting", "completed", "failed"},
         Upc!Leaves(w, state), UNCHANGED upload,
         exec' \in {"pending", "running", "finished", "failed", "cancelled"},
         cancel' \in BOOLEAN, review' \in BOOLEAN, saved' \in Progress,
         OnePost' /\ Tracked' /\ Closed',
         owner # w => UNCHANGED <<exec, cancel, review, saved>>
  PROVE  UpcInv'
<1>1. /\ WorkerType' /\ Others(w) /\ worker'[w] = Upc!Idle
      /\ owner' = IF owner = w THEN Upc!NoOne ELSE owner
      /\ job' = IF worker[w].own THEN [job EXCEPT ![worker[w].job] = state] ELSE job
  BY LeavesAll DEF UpcInv, Types, WorkerType
<1>2. Types'
  BY <1>1 DEF UpcInv, Types, WorkerType
<1>3. Owners'
  <2>1. CASE owner = w
    BY <1>1, <2>1 DEF Owners, Upc!UpcConstants
  <2>2. CASE owner # w
    BY <1>1, <2>2, Bystander DEF Upc!Idle
  <2> QED
    BY <2>1, <2>2
<1> QED
  BY <1>2, <1>3 DEF UpcInv

\* A worker that leaves and changes nothing else.
LEMMA LeavesAlone ==
  ASSUME Upc!UpcConstants, UpcInv, NEW w \in Workers, NEW state \in {"waiting", "completed", "failed"},
         Upc!Leaves(w, state), UNCHANGED <<exec, cancel, review, saved, upload>>
  PROVE  UpcInv'
<1>1. /\ WorkerType' /\ Others(w) /\ worker'[w] = Upc!Idle
  BY LeavesAll DEF UpcInv, Types, WorkerType
<1>2. OnePost' /\ Tracked' /\ Closed'
  BY <1>1, Quieter DEF Upc!Idle
<1> QED
  BY <1>2, LeavesWell DEF UpcInv, Types

-----------------------------------------------------------------------------
(* The steps of a worker, one by one.                                         *)

LEMMA InitInv == ASSUME Upc!UpcConstants, Upc!Init PROVE UpcInv
<1>1. Types
  BY DEF Upc!UpcConstants, Upc!Init, Types, Upc!NoUpload, Progress, States, Upc!Idle,
     Upc!Jobs, Uploads, Upc!Uploads
<1>2. OnePost /\ Tracked /\ Closed /\ Owners
  BY DEF Upc!UpcConstants, Upc!Init, OnePost, Tracked, Closed, Owners, Posters, Uploading,
     Upc!Idle, Upc!Active, Upc!NoUpload, Quiet, Uploads, Upc!Uploads
<1> QED
  BY <1>1, <1>2 DEF UpcInv

\* The steps of the owner that change nothing but its place.
LEMMA MovesOn ==
  ASSUME UpcInv, NEW w \in Workers, NEW a \in Upc!Holding, worker[w].at \in Places \ {"claim", "answer"},
         owner = w, Upc!Moves(w, a), At(a, worker[w].progress),
         UNCHANGED <<exec, cancel, review, saved, owner, job, upload>>
  PROVE  UpcInv'
<1>1. /\ WorkerType' /\ Others(w) /\ worker'[w].at = a
      /\ worker'[w].progress = worker[w].progress
  BY MovesTo DEF UpcInv, Types, WorkerType, Places
<1> QED
  BY <1>1, GoesOn

\* What the owner knows once it has claimed the execution.
LEMMA OwnerKnows ==
  ASSUME UpcInv, NEW w \in Workers, owner = w, worker[w].at # "claim"
  PROVE  /\ exec = "running" /\ ~ review /\ At(worker[w].at, worker[w].progress)
         /\ worker[w].at \in Places /\ worker[w] \in Busy /\ worker[w].progress \in Progress
<1>1. exec = "running" /\ ~ review /\ At(worker[w].at, worker[w].progress)
  BY DEF UpcInv, Owners, Abreast
<1>2. worker[w].at \in Places
  BY <1>1 DEF At, Places, Upc!Holding
<1>3. worker[w] \in Busy
  BY <1>2, BusyWorker DEF UpcInv, Types, WorkerType
<1> QED
  BY <1>1, <1>2, <1>3 DEF Busy

LEMMA SimpleInv ==
  ASSUME UpcInv, NEW w \in Workers, Upc!Shop(w) \/ Upc!Catalog(w) \/ Upc!Loop(w) \/ Upc!Poll(w) \/ Upc!Finish(w)
  PROVE  UpcInv'
<1> USE OwnerKnows, MovesOn DEF Upc!Fenced, Upc!Ensures, Upc!Stopped
<1>1. CASE Upc!Shop(w)
  BY SMTT(30), <1>1 DEF Upc!Shop, At, Upc!Holding, Places, Tracked, UpcInv, Upc!Active
<1>2. CASE Upc!Catalog(w)
  BY <1>2 DEF Upc!Catalog, At, Upc!Holding, Places
<1>3. CASE Upc!Loop(w)
  <2>1. owner = w /\ worker[w].at = "loop"
    BY <1>3 DEF Upc!Loop
  <2>2. worker[w].progress \in Progress /\ worker[w].progress = saved /\ ~ worker[w].progress.shop
    BY <2>1, OwnerKnows DEF At
  <2>3. Upc!NextOf(w) \in Upc!Holding \ {"finish", "close", "stopping", "shop", "claim", "answer", "loop"}
    BY <2>2 DEF Upc!NextOf, Upc!Holding, Progress, States
  <2>4. At(Upc!NextOf(w), worker[w].progress)
    BY SMTT(30), <2>2, <2>3 DEF Upc!NextOf, At, Progress, States, Quiet, Upc!Holding
  <2> QED
    BY <1>3, <2>1, <2>3, <2>4, MovesOn DEF Upc!Loop, Places, Upc!Holding
<1>4. CASE Upc!Poll(w)
  BY <1>4 DEF Upc!Poll, At, Upc!Holding, Places
<1>5. CASE Upc!Finish(w)
  BY <1>5 DEF Upc!Finish, At, Upc!Holding, Places
<1> QED
  BY <1>1, <1>2, <1>3, <1>4, <1>5

LEMMA AcquireInv == ASSUME Upc!UpcConstants, UpcInv, NEW w \in Workers, Upc!Acquire(w) PROVE UpcInv'
<1> USE DEF Upc!Acquire
<1>1. CASE owner = Upc!NoOne
  <2>1. /\ WorkerType' /\ Others(w) /\ worker'[w].at = "claim" /\ owner' = w
        /\ UNCHANGED <<exec, cancel, review, saved, job, upload>>
    BY <1>1, MovesTo DEF UpcInv, Types, WorkerType, Places, Upc!Holding
  <2>2. Types'
    BY <2>1 DEF UpcInv, Types, WorkerType
  <2>3. OnePost' /\ Tracked' /\ Closed'
    BY <2>1, Quieter
  <2>4. Owners'
    BY <2>1 DEF Owners, Abreast
  <2> QED
    BY <2>2, <2>3, <2>4 DEF UpcInv
<1>2. CASE owner # Upc!NoOne
  BY <1>2, LeavesAlone DEF Upc!Completes
<1> QED
  BY <1>1, <1>2

LEMMA ClaimInv == ASSUME Upc!UpcConstants, UpcInv, NEW w \in Workers, Upc!Claim(w) PROVE UpcInv'
<1> USE DEF Upc!Claim, Upc!Fenced
<1>1. CASE exec \in Upc!Active /\ ~ review
  <2>1. worker[w] \in Busy
    BY BusyWorker DEF UpcInv, Types, WorkerType, Places, Upc!Holding
  <2> DEFINE next == [worker[w] EXCEPT !.at = "shop", !.progress = saved]
  <2>2. next \in Busy /\ next.at = "shop" /\ next.progress = saved
    BY <2>1 DEF Busy, Places, Upc!Holding, UpcInv, Types
  <2>3. /\ WorkerType' /\ Others(w) /\ worker'[w] = next
        /\ exec' = "running" /\ owner = w
        /\ UNCHANGED <<cancel, review, saved, owner, job, upload>>
    BY <1>1, <2>2, GoesSomewhere DEF UpcInv, Types, WorkerType
  <2>4. Types'
    BY <2>3 DEF UpcInv, Types, WorkerType
  <2>5. /\ Uploading' = Uploading /\ Posters' = Posters \ {w}
        /\ \A v \in Posters' : worker'[v] = worker[v]
    BY <2>2, <2>3, Frame
  <2>6. OnePost' /\ Tracked' /\ Closed'
    <3>1. OnePost' /\ Closed'
      BY <2>3, <2>5 DEF UpcInv, OnePost, Closed
    <3>2. Tracked'
      BY <1>1, <2>3, <2>5 DEF UpcInv, Tracked, Upc!Active
    <3> QED
      BY <3>1, <3>2
  <2>7. Owners'
    <3>1. worker'[w].at = "shop" /\ worker'[w].progress = saved'
      BY <2>2, <2>3
    <3>2. At("shop", saved)'
      BY DEF At
    <3>3. At("shop", saved)' => At(worker[w].at, worker[w].progress)'
      BY <3>1 DEF At
    <3>4. exec' = "running" /\ ~ review' /\ \A v \in Workers : owner' = v => v = w
      BY <1>1, <2>3
    <3>5. Abreast(w)'
      BY <3>2, <3>3, <3>4 DEF Abreast
    <3> QED
      BY <3>4, <3>5 DEF Owners
  <2> QED
    BY <2>4, <2>6, <2>7 DEF UpcInv
<1>2. CASE exec \notin Upc!Active \/ review
  BY <1>2, LeavesAlone DEF Upc!Completes
<1> QED
  BY <1>1, <1>2

LEMMA ExportInv == ASSUME Upc!UpcConstants, UpcInv, NEW w \in Workers, Upc!Export(w) PROVE UpcInv'
<1> USE DEF Upc!Export, Upc!Fenced
<1>1. CASE Upc!Ensures(w, "save")
  BY SMTT(30), <1>1, OwnerKnows, MovesOn DEF Upc!Ensures, Upc!Stopped, At, Quiet,
     Upc!Holding, Places
<1>2. CASE Upc!Goes(w, [worker[w] EXCEPT !.at = "prepare", !.menu = TRUE])
  <2>1. /\ worker[w] \in Busy /\ worker[w].progress = saved
        /\ saved.state = "none" /\ ~ saved.shop
    BY OwnerKnows DEF At
  <2> DEFINE next == [worker[w] EXCEPT !.at = "prepare", !.menu = TRUE]
  <2>2. next \in Busy /\ next.at = "prepare" /\ next.progress = saved
    BY <2>1 DEF Busy, Places, Upc!Holding
  <2>3. /\ WorkerType' /\ Others(w) /\ worker'[w] = next
    BY <1>2, <2>2, GoesSomewhere DEF UpcInv, Types, WorkerType
  <2>4. At("prepare", saved)
    BY <2>1 DEF At
  <2> QED
    BY <2>1, <2>2, <2>3, <2>4, GoesOn DEF Upc!Holding
<1> QED
  BY <1>1, <1>2

\* The owner writes its progress down.
LEMMA Writes ==
  ASSUME UpcInv, NEW w \in Workers, NEW a \in Upc!Holding, NEW p \in Progress,
         owner = w, worker[w].at # "claim", WorkerType', Others(w), saved' = p,
         worker'[w].at = a, worker'[w].progress = p,
         UNCHANGED <<exec, cancel, review, owner, job, upload>>,
         At(a, saved)', Tracked'
  PROVE  UpcInv'
<1>1. exec = "running" /\ ~ review
  BY OwnerKnows
<1>2. /\ WorkerType' /\ Others(w) /\ saved' = p
      /\ worker'[w].at = a /\ worker'[w].progress = p
  OBVIOUS
<1>3. Types'
  BY <1>2 DEF UpcInv, Types, WorkerType
<1>4. /\ Uploading' = Uploading /\ Posters' = Posters \ {w}
      /\ \A v \in Posters' : worker'[v] = worker[v]
  BY <1>2, Frame DEF Upc!Holding
<1>5. OnePost' /\ Closed'
  BY <1>1, <1>4 DEF UpcInv, OnePost, Closed
<1>6. Owners'
  <2>1. At(a, saved)' => At(worker[w].at, worker[w].progress)'
    BY <1>2 DEF At
  <2> QED
    BY <1>1, <2>1 DEF Owners, Abreast
<1> QED
  BY <1>3, <1>5, <1>6 DEF UpcInv

\* The same for a step of the form Saves.
LEMMA WritesOn ==
  ASSUME UpcInv, NEW w \in Workers, NEW a \in Upc!Holding, NEW p \in Progress,
         owner = w, worker[w].at # "claim", Upc!Saves(w, a, p),
         UNCHANGED <<exec, cancel, review, owner, job, upload>>,
         At(a, saved)', Tracked'
  PROVE  UpcInv'
<1>1. worker[w].at \in Places
  BY OwnerKnows
<1>2. /\ WorkerType' /\ Others(w) /\ saved' = p
      /\ worker'[w].at = a /\ worker'[w].progress = p
  BY <1>1, SavesTo DEF UpcInv, Types, WorkerType, Places
<1> QED
  BY <1>2, Writes

\* What the owner may write: nothing is under way, or it was under way already.
LEMMA Follows ==
  ASSUME UpcInv, exec = "running", NEW w \in Workers, Others(w), worker'[w].at # "post",
         UNCHANGED <<upload, exec>>,
         saved' \in Progress, saved'.shop => saved'.state \in Quiet,
         Posters = {}, saved'.n >= saved.n,
         saved'.state \in Quiet => Uploading = {},
         saved'.n = saved.n \/ Uploading = {},
         saved'.state = "prepared" => \A n \in Uploads : n = saved'.n => upload[n] = "unused"
  PROVE  Tracked'
<1>1. Uploading' = Uploading /\ Posters' = {}
  BY Frame
<1>2. \A n \in Uploads : n > saved'.n => upload[n] = "unused"
  BY DEF UpcInv, Tracked, Upc!Active, Types, Progress, Uploads
<1> QED
  BY <1>1, <1>2 DEF UpcInv, Tracked, Upc!Active

LEMMA PrepareInv == ASSUME Upc!UpcConstants, UpcInv, NEW w \in Workers, Upc!Prepare(w) PROVE UpcInv'
<1> USE DEF Upc!Fenced
<1> DEFINE p == worker[w].progress
           n == IF p.state = "prepared" THEN p.n ELSE p.n + 1
           q == [p EXCEPT !.state = "prepared", !.n = n, !.left = TRUE]
<1>1. /\ owner = w /\ worker[w].at = "prepare" /\ exec = "running" /\ p = saved /\ p \in Progress
      /\ ~ saved.shop /\ saved.state \in {"none", "prepared", "verified"}
  BY OwnerKnows DEF Upc!Prepare, At
<1>2. CASE Upc!Ensures(w, "save") /\ UNCHANGED saved
  BY SMTT(30), <1>1, <1>2, OwnerKnows, MovesOn DEF Upc!Prepare, Upc!Ensures, Upc!Stopped,
     At, Quiet, Upc!Holding, Places
<1>3. CASE ~ Upc!Stopped /\ Upc!Saves(w, "token", q)
  <2>0. n \in Nat
    BY <1>1 DEF Progress
  <2>1. q \in Progress /\ q.state = "prepared" /\ q.n = n /\ ~ q.shop
    BY <1>1, <2>0 DEF Progress, States
  <2>2. Posters = {} /\ Uploading = {}
    BY <1>1 DEF UpcInv, Tracked, Upc!Active, Quiet
  <2>3. saved' = q /\ Others(w) /\ worker'[w].at = "token"
    BY <1>1, <1>3, <2>1, SavesTo DEF UpcInv, Types, WorkerType, Places, Upc!Holding
  <2>4. n >= saved.n /\ \A m \in Uploads : m = n => upload[m] = "unused"
    BY <1>1 DEF UpcInv, Tracked, Upc!Active, Progress, Uploads, Quiet
  <2>5. Tracked'
    BY <1>1, <2>0, <2>1, <2>2, <2>3, <2>4, Follows DEF Upc!Prepare
  <2>6. At("token", saved)'
    BY <2>1, <2>3 DEF At
  <2> QED
    BY <1>1, <1>3, <2>1, <2>3, <2>5, <2>6, WritesOn DEF Upc!Prepare, Upc!Holding
<1> QED
  BY <1>2, <1>3 DEF Upc!Prepare

LEMMA TokenInv == ASSUME Upc!UpcConstants, UpcInv, NEW w \in Workers, Upc!Token(w) PROVE UpcInv'
<1> USE DEF Upc!Fenced
<1> DEFINE p == worker[w].progress
           q == [p EXCEPT !.state = "submitting"]
<1>1. /\ owner = w /\ worker[w].at = "token" /\ exec = "running" /\ p = saved /\ p \in Progress
      /\ ~ saved.shop /\ saved.state = "prepared"
  BY OwnerKnows DEF Upc!Token, At
<1>2. CASE Upc!Stopped /\ Upc!Moves(w, "stopping") /\ UNCHANGED saved
  BY <1>1, <1>2, OwnerKnows, MovesOn DEF Upc!Token, Upc!Stopped, At, Upc!Holding, Places
<1>3. CASE ~ Upc!Stopped /\ Upc!Saves(w, "boundary", q)
  <2>1. q \in Progress /\ q.state = "submitting" /\ q.n = p.n /\ ~ q.shop /\ p.n \in Nat
    BY <1>1 DEF Progress, States
  <2>2. Posters = {} /\ Uploading = {} /\ \A m \in Uploads : m = p.n => upload[m] = "unused"
    BY <1>1 DEF UpcInv, Tracked, Upc!Active, Quiet
  <2>3. saved' = q /\ Others(w) /\ worker'[w].at = "boundary" /\ UNCHANGED upload
    BY <1>1, <1>3, <2>1, SavesTo DEF Upc!Token, UpcInv, Types, WorkerType, Places,
       Upc!Holding
  <2>4. Tracked'
    BY <1>1, <2>1, <2>2, <2>3, Follows DEF Upc!Token, Quiet
  <2>5. Posters' = {} /\ Uploading' = {}
    BY <2>2, <2>3, Frame
  <2>6. At("boundary", saved)'
    BY <2>1, <2>2, <2>3, <2>5 DEF At
  <2> QED
    BY <1>1, <1>3, <2>1, <2>4, <2>6, WritesOn DEF Upc!Token, Upc!Holding
<1> QED
  BY <1>2, <1>3 DEF Upc!Token

LEMMA BoundaryInv == ASSUME Upc!UpcConstants, UpcInv, NEW w \in Workers, Upc!Boundary(w) PROVE UpcInv'
<1> USE DEF Upc!Fenced
<1> DEFINE p == worker[w].progress
           q == [p EXCEPT !.state = "prepared"]
<1>1. /\ owner = w /\ worker[w].at = "boundary" /\ exec = "running" /\ p = saved /\ p \in Progress
      /\ ~ review /\ ~ saved.shop /\ saved.state = "submitting" /\ Uploading = {} /\ Posters = {}
      /\ \A m \in Uploads : m = p.n => upload[m] = "unused"
  BY OwnerKnows DEF Upc!Boundary, At
<1>2. CASE Upc!Stopped /\ Upc!Saves(w, "stopping", q)
  <2>1. q \in Progress /\ q.state = "prepared" /\ q.n = p.n /\ ~ q.shop /\ p.n \in Nat
    BY <1>1 DEF Progress, States
  <2>2. saved' = q /\ Others(w) /\ worker'[w].at = "stopping" /\ UNCHANGED upload
    BY <1>1, <1>2, <2>1, SavesTo DEF Upc!Boundary, UpcInv, Types, WorkerType, Places,
       Upc!Holding
  <2>3. Tracked'
    BY <1>1, <2>1, <2>2, Follows DEF Upc!Boundary, Quiet
  <2>4. At("stopping", saved)'
    BY <1>1, <1>2 DEF At, Upc!Boundary, Upc!Stopped
  <2> QED
    BY <1>1, <1>2, <2>1, <2>3, <2>4, WritesOn DEF Upc!Boundary, Upc!Holding
<1>3. CASE ~ Upc!Stopped /\ Upc!Moves(w, "post") /\ UNCHANGED saved
  <2>1. /\ WorkerType' /\ Others(w) /\ worker'[w].at = "post" /\ worker'[w].progress = saved
        /\ UNCHANGED <<exec, cancel, review, saved, owner, job, upload>>
    BY <1>1, <1>3, MovesTo DEF Upc!Boundary, UpcInv, Types, WorkerType, Places, Upc!Holding
  <2>2. Types'
    BY <2>1 DEF UpcInv, Types, WorkerType
  <2>3. Uploading' = {} /\ Posters' = {w}
    BY <1>1, <2>1 DEF Uploading, Posters, Others
  <2>4. OnePost'
    BY <1>1, <2>1, <2>3 DEF OnePost
  <2>5. Tracked' /\ Closed'
    BY <1>1, <2>1, <2>3 DEF Tracked, Closed, UpcInv, Upc!Active, Quiet
  <2>6. At(worker[w].at, worker[w].progress)'
    BY <1>1, <2>1 DEF At
  <2>7. Owners'
    BY <1>1, <2>1, <2>6 DEF Owners, Abreast
  <2> QED
    BY <2>2, <2>4, <2>5, <2>7 DEF UpcInv
<1> QED
  BY <1>2, <1>3 DEF Upc!Boundary

LEMMA AnswerInv == ASSUME Upc!UpcConstants, UpcInv, NEW w \in Workers, Upc!Answer(w) PROVE UpcInv'
<1> USE DEF Upc!Fenced
<1> DEFINE p == worker[w].progress
<1>1. /\ owner = w /\ worker[w].at = "answer" /\ exec = "running" /\ p \in Progress
      /\ ~ p.shop /\ p.n = saved.n /\ p.state \in {"submitted", "rejected", "unconfirmed"} /\ Posters = {}
      /\ p.state = "rejected" => Uploading = {}
  BY OwnerKnows DEF Upc!Answer, At
<1>2. saved' = p /\ Others(w) /\ worker'[w].at = "loop" /\ UNCHANGED upload
  BY <1>1, SavesTo DEF Upc!Answer, UpcInv, Types, WorkerType, Places, Upc!Holding
<1>3. Tracked'
  BY <1>1, <1>2, Follows DEF Upc!Answer, Quiet, Progress
<1>4. At("loop", saved)'
  BY <1>1, <1>2 DEF At
<1> QED
  BY <1>1, <1>3, <1>4, WritesOn DEF Upc!Answer, Upc!Holding

LEMMA CheckInv == ASSUME Upc!UpcConstants, UpcInv, NEW w \in Workers, Upc!Check(w) PROVE UpcInv'
<1> USE DEF Upc!Fenced
<1> DEFINE p == worker[w].progress
           q == [p EXCEPT !.state = "terminal"]
<1>1. /\ owner = w /\ worker[w].at = "check" /\ exec = "running" /\ p = saved /\ p \in Progress
      /\ ~ saved.shop /\ saved.state = "submitted"
  BY OwnerKnows DEF Upc!Check, At
<1>2. CASE upload[p.n] = "ended"
  <2>1. q \in Progress /\ q.state = "terminal" /\ q.n = p.n /\ ~ q.shop /\ p.n \in Nat
    BY <1>1 DEF Progress, States
  <2>2. Posters = {} /\ Uploading = {}
    BY <1>1, <1>2 DEF UpcInv, Tracked, Upc!Active, Uploading, Posters
  <2>3. saved' = q /\ Others(w) /\ worker'[w].at = "loop" /\ UNCHANGED upload
    BY <1>1, <1>2, <2>1, SavesTo DEF Upc!Check, UpcInv, Types, WorkerType, Places,
       Upc!Holding
  <2>4. Tracked'
    BY <1>1, <2>1, <2>2, <2>3, Follows DEF Upc!Check, Quiet
  <2>5. At("loop", saved)'
    BY <2>1, <2>3 DEF At
  <2> QED
    BY <1>1, <1>2, <2>1, <2>4, <2>5, WritesOn DEF Upc!Check, Upc!Holding
<1>3. CASE upload[p.n] # "ended"
  BY <1>1, <1>3, OwnerKnows, MovesOn DEF Upc!Check, At, Upc!Holding, Places
<1> QED
  BY <1>2, <1>3

LEMMA VerifyInv == ASSUME Upc!UpcConstants, UpcInv, NEW w \in Workers, Upc!Verify(w) PROVE UpcInv'
<1> USE DEF Upc!Fenced
<1> DEFINE p == worker[w].progress
<1>1. /\ owner = w /\ worker[w].at = "verify" /\ exec = "running" /\ p = saved /\ p \in Progress
      /\ worker[w] \in Busy /\ ~ saved.shop /\ saved.state \in {"terminal", "verified"}
  BY OwnerKnows DEF Upc!Verify, At
<1>2. CASE Upc!Stopped /\ Upc!Moves(w, "stopping") /\ UNCHANGED saved
  BY <1>1, <1>2, OwnerKnows, MovesOn DEF Upc!Verify, Upc!Stopped, At, Upc!Holding, Places
<1>3. ASSUME NEW left \in BOOLEAN, ~ Upc!Stopped,
             saved' = [p EXCEPT !.state = "verified", !.left = left],
             Upc!Goes(w, [worker[w] EXCEPT !.at = "loop", !.progress = [p EXCEPT !.state = "verified", !.left = left],
                                       !.menu = TRUE])
      PROVE  UpcInv'
  <2> DEFINE q == [p EXCEPT !.state = "verified", !.left = left]
             next == [worker[w] EXCEPT !.at = "loop", !.progress = q, !.menu = TRUE]
  <2>1. q \in Progress /\ q.state = "verified" /\ q.n = p.n /\ ~ q.shop /\ p.n \in Nat
    BY <1>1 DEF Progress, States
  <2>2. next \in Busy /\ next.at = "loop" /\ next.progress = q
    BY <1>1, <2>1 DEF Busy, Places, Upc!Holding
  <2>3. WorkerType' /\ Others(w) /\ worker'[w] = next
    BY <1>3, <2>2, GoesSomewhere DEF UpcInv, Types, WorkerType
  <2>4. Posters = {} /\ Uploading = {}
    BY <1>1 DEF UpcInv, Tracked, Upc!Active, Quiet
  <2>5. Tracked'
    <3>1. /\ Others(w) /\ worker'[w].at # "post" /\ UNCHANGED <<exec, upload>>
          /\ saved' \in Progress /\ saved'.state = "verified" /\ saved'.n = saved.n /\ saved.n \in Nat
      BY <1>1, <1>3, <2>1, <2>2, <2>3 DEF Upc!Verify
    <3> HIDE DEF q, next
    <3> QED
      BY <1>1, <2>4, <3>1, Follows DEF Quiet
  <2>6. At("loop", saved)'
    BY <1>3, <2>1 DEF At
  <2> QED
    BY <1>1, <1>3, <2>1, <2>2, <2>3, <2>5, <2>6, Writes DEF Upc!Verify, Upc!Holding
<1> QED
  BY <1>2, <1>3 DEF Upc!Verify

LEMMA SaveInv == ASSUME Upc!UpcConstants, UpcInv, NEW w \in Workers, Upc!Save(w) PROVE UpcInv'
<1> USE DEF Upc!Fenced
<1> DEFINE p == worker[w].progress
           q == [p EXCEPT !.shop = TRUE]
<1>1. /\ owner = w /\ worker[w].at = "save" /\ exec = "running" /\ p = saved /\ p \in Progress
      /\ saved.state \in Quiet
  BY OwnerKnows DEF Upc!Save, At
<1>2. q \in Progress /\ q.state = p.state /\ q.n = p.n /\ q.shop /\ p.n \in Nat
  BY <1>1 DEF Progress
<1>3. Posters = {} /\ Uploading = {}
  BY <1>1 DEF UpcInv, Tracked, Upc!Active
<1>4. saved' = q /\ Others(w) /\ worker'[w].at = "finish" /\ UNCHANGED upload
  BY <1>1, <1>2, SavesTo DEF Upc!Save, UpcInv, Types, WorkerType, Places, Upc!Holding
<1>5. saved'.state = "prepared" => \A m \in Uploads : m = saved'.n => upload[m] = "unused"
  BY <1>1, <1>2, <1>4 DEF UpcInv, Tracked, Upc!Active
<1>6. Tracked'
  <2>1. /\ Others(w) /\ worker'[w].at # "post" /\ UNCHANGED <<exec, upload>>
        /\ saved' \in Progress /\ saved'.state = saved.state /\ saved'.n = saved.n /\ saved.n \in Nat
    BY <1>1, <1>2, <1>4 DEF Upc!Save
  <2> HIDE DEF q
  <2> QED
    BY <1>1, <1>3, <1>5, <2>1, Follows
<1>7. At("finish", saved)'
  BY <1>1, <1>2, <1>4 DEF At
<1> QED
  BY <1>1, <1>2, <1>6, <1>7, WritesOn DEF Upc!Save, Upc!Holding

-----------------------------------------------------------------------------

\* The POST, by the owner or by a worker that has lost the lease since.
LEMMA PostInv == ASSUME Upc!UpcConstants, UpcInv, NEW w \in Workers, Upc!Post(w) PROVE UpcInv'
<1> DEFINE p == worker[w].progress
<1>1. worker[w].at = "post" /\ w \in Posters /\ worker[w] \in Busy /\ p \in Progress
  BY BusyWorker DEF Upc!Post, Posters, Busy, Places, UpcInv, Types, WorkerType
<1>2. /\ Posters = {w} /\ Uploading = {}
      /\ \A n \in Uploads : n = p.n => upload[n] = "unused"
  BY <1>1 DEF UpcInv, OnePost
<1>3. PICK st \in {"submitted", "rejected", "unconfirmed"}, f \in {"running", "refused"} :
        /\ Upc!Knows(w, "answer", st) /\ upload' = [upload EXCEPT ![p.n] = f]
        /\ st = "rejected" => f = "refused"
  BY DEF Upc!Post
<1>4. /\ WorkerType' /\ Others(w) /\ worker'[w].at = "answer"
      /\ worker'[w].progress = [p EXCEPT !.state = st]
      /\ UNCHANGED <<exec, cancel, review, saved, owner, job>>
  <2>1. WorkerType /\ worker[w].at \in Places /\ "answer" \in Places /\ st \in States
    BY <1>1 DEF UpcInv, Types, WorkerType, Places, Upc!Holding, States
  <2>2. UNCHANGED <<exec, cancel, review, saved, owner, job>>
    BY DEF Upc!Post
  <2> QED
    BY <1>3, <2>1, <2>2, KnowsThat
<1>5. worker'[w].progress.n = p.n /\ worker'[w].progress.state = st /\ worker'[w].progress.shop = p.shop
  BY <1>1, <1>4 DEF Progress
<1>6. Types'
  BY <1>3, <1>4 DEF UpcInv, Types, WorkerType
<1>7. Posters' = {} /\ Uploading' \subseteq {p.n} /\ (f = "refused" => Uploading' = {})
  BY <1>2, <1>3, <1>4 DEF Posters, Uploading, Others, UpcInv, Types
<1>8. OnePost'
  BY <1>7 DEF OnePost
<1>9. Tracked'
  <2>1. SUFFICES ASSUME exec \in Upc!Active PROVE Tracked'
    BY <1>4 DEF Tracked
  <2>2. p.n = saved.n /\ saved.state = "submitting"
    BY <1>1, <2>1 DEF UpcInv, Tracked
  <2>3. \A n \in Uploads : n > saved.n => upload'[n] = "unused"
    BY <1>1, <1>3, <2>1, <2>2 DEF UpcInv, Tracked, Types, Progress, Uploads
  <2> QED
    BY <1>4, <1>7, <2>1, <2>2, <2>3 DEF UpcInv, Tracked, Quiet
<1>10. Closed'
  BY <1>1, <1>4 DEF UpcInv, Closed
<1>11. Owners'
  <2> SUFFICES ASSUME NEW v \in Workers, owner = v PROVE Abreast(v)'
    BY <1>4 DEF Owners
  <2>1. CASE v = w
    <3>1. exec = "running" /\ ~ review /\ p = saved /\ saved.state = "submitting" /\ ~ p.shop
      BY <1>1, <2>1, OwnerKnows DEF At
    <3>2. At(worker[w].at, worker[w].progress)'
      BY <1>3, <1>4, <1>5, <1>7, <3>1 DEF At
    <3> QED
      BY <1>4, <2>1, <3>1, <3>2 DEF Abreast
  <2>2. CASE v # w
    <3>1. worker'[v] = worker[v]
      BY <1>4, <2>2 DEF Others
    <3>2. CASE worker[v].at = "claim"
      BY <3>1, <3>2 DEF Abreast
    <3>3. CASE worker[v].at # "claim"
      <4>1. exec = "running" /\ ~ review /\ At(worker[v].at, worker[v].progress)
        BY <3>3, OwnerKnows
      <4>2. saved.state = "submitting"
        BY <1>1, <4>1 DEF UpcInv, Tracked, Upc!Active
      <4>3. worker[v].at \notin {"answer", "boundary", "post"}
        BY <1>2, <2>2, <4>1 DEF At, Posters
      <4>4. At(worker[v].at, worker[v].progress)'
        BY <1>4, <3>1, <4>1, <4>2, <4>3 DEF At, Quiet
      <4> QED
        BY <1>4, <4>1, <4>4 DEF Abreast
    <3> QED
      BY <3>2, <3>3
  <2> QED
    BY <2>1, <2>2
<1> QED
  BY <1>6, <1>8, <1>9, <1>10, <1>11 DEF UpcInv

-----------------------------------------------------------------------------

LEMMA ReviewInv == ASSUME Upc!UpcConstants, UpcInv, NEW w \in Workers, Upc!Review(w) PROVE UpcInv'
<1> USE DEF Upc!Fenced
<1>1. owner = w /\ exec = "running" /\ worker[w].progress = saved
  BY OwnerKnows DEF Upc!Review, At
<1>2. /\ Upc!Leaves(w, "completed") /\ Others(w) /\ worker'[w] = Upc!Idle
      /\ cancel' /\ UNCHANGED <<exec, saved, upload>>
  BY <1>1, LeavesAll DEF Upc!Review, Upc!Completes, UpcInv, Types, WorkerType
<1>3. OnePost' /\ Tracked' /\ Closed'
  BY <1>2, Quieter DEF Upc!Idle
<1> QED
  BY <1>1, <1>2, <1>3, LeavesWell DEF Upc!Review, UpcInv, Types

LEMMA CloseInv == ASSUME Upc!UpcConstants, UpcInv, NEW w \in Workers, Upc!Close(w) PROVE UpcInv'
<1> USE DEF Upc!Fenced
<1>1. owner = w /\ exec = "running" /\ saved.state \in Quiet
  BY OwnerKnows DEF Upc!Close, At
<1>2. /\ Upc!Leaves(w, "completed") /\ Others(w) /\ worker'[w] = Upc!Idle
      /\ exec' = "finished" /\ review' = FALSE /\ UNCHANGED <<cancel, saved, upload>>
  BY LeavesAll DEF Upc!Close, Upc!Completes, UpcInv, Types, WorkerType
<1>3. Uploading' = {} /\ Posters' = {}
  BY <1>1, <1>2, Frame DEF Upc!Idle, UpcInv, Tracked, Upc!Active
<1>4. OnePost' /\ Tracked' /\ Closed'
  BY <1>2, <1>3 DEF OnePost, Tracked, Closed, Upc!Active
<1> QED
  BY <1>1, <1>2, <1>4, LeavesWell DEF UpcInv, Types

LEMMA StoppingInv == ASSUME Upc!UpcConstants, UpcInv, NEW w \in Workers, Upc!Stopping(w) PROVE UpcInv'
<1> USE DEF Upc!Fenced
<1>1. owner = w /\ exec = "running" /\ cancel /\ worker[w].progress \in Progress
  BY OwnerKnows DEF Upc!Stopping, At
<1>2. /\ Upc!Leaves(w, "completed") /\ Others(w) /\ worker'[w] = Upc!Idle
      /\ exec' = "cancelled" /\ saved' = [Upc!NoUpload EXCEPT !.shop = worker[w].progress.shop]
      /\ UNCHANGED <<cancel, review, upload>>
  BY <1>1, LeavesAll DEF Upc!Stopping, Upc!Completes, UpcInv, Types, WorkerType
<1>3. saved' \in Progress
  BY <1>1, <1>2 DEF Progress, Upc!NoUpload, States
<1>4. OnePost'
  BY <1>2, Frame DEF Upc!Idle, UpcInv, OnePost
<1>5. Tracked' /\ Closed'
  BY <1>2 DEF Tracked, Closed, Upc!Active
<1> QED
  BY <1>1, <1>2, <1>3, <1>4, <1>5, LeavesWell DEF UpcInv, Types

LEMMA BreaksInv == ASSUME Upc!UpcConstants, UpcInv, NEW w \in Workers, Upc!Breaks(w) PROVE UpcInv'
<1> USE DEF Upc!Fenced
<1> DEFINE p == worker[w].progress
           q == IF worker[w].at = "boundary" THEN [p EXCEPT !.state = "prepared"] ELSE p
<1>1. /\ owner = w /\ exec = "running" /\ p = saved /\ p \in Progress
      /\ worker[w].at \in {"shop", "catalog", "export", "prepare", "token", "boundary", "poll", "verify"}
      /\ UNCHANGED <<cancel, review, upload>>
  BY OwnerKnows DEF Upc!Breaks, At
<1>2. ASSUME ~ Upc!Recoverable(p) PROVE p.state \in Quiet
  BY <1>1, <1>2 DEF Upc!Recoverable, Quiet, Progress, States
<1>3. CASE Upc!Parks(w, q)
  <2>1. PICK state \in {"waiting", "completed", "failed"} : Upc!Leaves(w, state)
    BY <1>3 DEF Upc!Parks, Upc!FailsJob, Upc!Completes
  <2>2. Others(w) /\ worker'[w] = Upc!Idle /\ saved' = q /\ UNCHANGED exec
    BY <1>3, <2>1, LeavesAll DEF Upc!Parks, UpcInv, Types, WorkerType
  <2>3. OnePost' /\ Tracked' /\ Closed' /\ q \in Progress
    <3>1. CASE worker[w].at = "boundary"
      <4>1. /\ Posters = {} /\ Uploading = {} /\ ~ p.shop
            /\ \A n \in Uploads : n = p.n => upload[n] = "unused"
        BY <1>1, <3>1, OwnerKnows DEF At
      <4>2. q \in Progress /\ q.state = "prepared" /\ q.n = p.n /\ ~ q.shop /\ p.n \in Nat
        BY <1>1, <3>1, <4>1 DEF Progress, States
      <4>3. Tracked'
        BY <1>1, <2>2, <4>1, <4>2, Follows DEF Quiet, Upc!Idle
      <4>4. OnePost' /\ Closed'
        BY <1>1, <2>2, <4>1, Frame DEF OnePost, Closed, Upc!Idle
      <4> QED
        BY <4>2, <4>3, <4>4
    <3>2. CASE worker[w].at # "boundary"
      BY <1>1, <2>2, <3>2, Quieter DEF Upc!Idle
    <3> QED
      BY <3>1, <3>2
  <2> QED
    BY <1>1, <2>1, <2>2, <2>3, LeavesWell DEF UpcInv, Types
<1>4. CASE /\ ~ Upc!Recoverable(p) /\ worker[w].at \notin {"shop", "catalog"}
           /\ Upc!Moves(w, "save") /\ UNCHANGED <<exec, saved, owner, job>>
  <2>1. At("save", p)
    BY <1>1, <1>2, <1>4, OwnerKnows DEF At
  <2> QED
    BY <1>1, <1>4, <2>1, MovesOn DEF Upc!Holding, Places
<1>5. CASE /\ ~ Upc!Recoverable(p) /\ exec' = "failed" /\ saved' = [Upc!NoUpload EXCEPT !.shop = p.shop]
           /\ Upc!FailsJob(w)
  <2>1. PICK state \in {"waiting", "failed"} : Upc!Leaves(w, state)
    BY <1>5 DEF Upc!FailsJob
  <2>2. Others(w) /\ worker'[w] = Upc!Idle
    BY <2>1, LeavesAll DEF UpcInv, Types, WorkerType
  <2>3. Uploading' = {} /\ Posters' = {}
    BY <1>1, <1>2, <1>5, <2>2, Frame DEF Upc!Idle, UpcInv, Tracked, Upc!Active
  <2>4. OnePost' /\ Tracked' /\ Closed'
    BY <1>5, <2>3 DEF OnePost, Tracked, Closed, Upc!Active
  <2>5. saved' \in Progress
    BY <1>1, <1>5 DEF Progress, Upc!NoUpload, States
  <2> QED
    BY <1>1, <1>5, <2>1, <2>4, <2>5, LeavesWell DEF UpcInv, Types
<1> QED
  BY <1>3, <1>4, <1>5 DEF Upc!Breaks

LEMMA BreaksLateInv == ASSUME Upc!UpcConstants, UpcInv, NEW w \in Workers, Upc!BreaksLate(w) PROVE UpcInv'
<1> USE DEF Upc!Fenced
<1>1. /\ owner = w /\ exec = "running"
      /\ cancel \/ saved.state \in Quiet
      /\ UNCHANGED <<cancel, review, saved, upload>> /\ exec' \in {exec, "failed"}
  BY OwnerKnows DEF Upc!BreaksLate, At
<1>2. PICK state \in {"waiting", "failed"} : Upc!Leaves(w, state)
  BY DEF Upc!BreaksLate, Upc!FailsJob
<1>3. Others(w) /\ worker'[w] = Upc!Idle
  BY <1>2, LeavesAll DEF UpcInv, Types, WorkerType
<1>4. OnePost' /\ Tracked' /\ Closed'
  <2>1. CASE exec' = exec
    BY <1>1, <1>3, <2>1, Quieter DEF Upc!Idle
  <2>2. CASE exec' = "failed"
    <3>1. /\ Uploading' = Uploading /\ Posters' = Posters \ {w}
          /\ \A v \in Posters' : worker'[v] = worker[v]
      BY <1>1, <1>3, Frame DEF Upc!Idle
    <3>2. ~ cancel => Uploading = {} /\ Posters = {}
      BY <1>1 DEF UpcInv, Tracked, Upc!Active
    <3> QED
      BY <1>1, <2>2, <3>1, <3>2 DEF UpcInv, OnePost, Tracked, Closed, Upc!Active
  <2> QED
    BY <1>1, <2>1, <2>2
<1> QED
  BY <1>1, <1>2, <1>4, LeavesWell DEF UpcInv, Types

LEMMA DieInv == ASSUME Upc!UpcConstants, UpcInv, NEW w \in Workers, Upc!Die(w) PROVE UpcInv'
<1>1. WorkerType' /\ Others(w) /\ worker'[w] = Upc!Idle
  BY GoesSomewhere DEF Upc!Die, UpcInv, Types, WorkerType
<1>2. Types'
  BY <1>1 DEF Upc!Die, UpcInv, Types, WorkerType
<1>3. OnePost' /\ Tracked' /\ Closed'
  BY <1>1, Quieter DEF Upc!Die, Upc!Idle
<1>4. Owners'
  <2>1. CASE owner = w
    BY <2>1 DEF Upc!Die, Owners, Upc!UpcConstants
  <2>2. CASE owner # w
    BY <1>1, <2>2, Bystander DEF Upc!Die, Upc!Idle
  <2> QED
    BY <2>1, <2>2
<1> QED
  BY <1>2, <1>3, <1>4 DEF UpcInv

LEMMA TakeInv == ASSUME Upc!UpcConstants, UpcInv, NEW w \in Workers, NEW j \in Upc!Jobs, Upc!Take(w, j) PROVE UpcInv'
<1> DEFINE next == [at |-> "acquire", job |-> j, own |-> TRUE, menu |-> FALSE, progress |-> Upc!NoUpload]
<1>1. next \in Busy /\ next.at = "acquire"
  BY DEF Busy, Places, Progress, Upc!NoUpload, States
<1>2. WorkerType' /\ Others(w) /\ worker'[w] = next
  BY <1>1, GoesSomewhere DEF Upc!Take, UpcInv, Types, WorkerType
<1>3. Types'
  BY <1>2 DEF Upc!Take, UpcInv, Types, WorkerType
<1>4. OnePost' /\ Tracked' /\ Closed'
  BY <1>1, <1>2, Quieter DEF Upc!Take
<1>5. owner # w
  BY OwnerKnows DEF Upc!Take, Upc!Idle, Places, Upc!Holding
<1>6. Owners'
  BY <1>1, <1>2, <1>5, Bystander DEF Upc!Take
<1> QED
  BY <1>3, <1>4, <1>6 DEF UpcInv

\* A step that leaves the workers where they are.
LEMMA Still ==
  ASSUME UpcInv, Types', UNCHANGED <<exec, cancel, review, saved, upload>>, owner' \in {owner, Upc!NoOne},
         Upc!UpcConstants,
         \A v \in Workers : worker'[v].at = worker[v].at /\ worker'[v].progress = worker[v].progress
  PROVE  UpcInv'
<1>1. Uploading' = Uploading /\ Posters' = Posters
  BY DEF Uploading, Posters
<1>2. OnePost' /\ Tracked' /\ Closed'
  BY <1>1 DEF UpcInv, OnePost, Tracked, Closed, Posters
<1>3. Owners'
  <2> SUFFICES ASSUME NEW v \in Workers, owner' = v PROVE Abreast(v)'
    BY DEF Owners
  <2>1. owner = v /\ Abreast(v)
    BY DEF UpcInv, Owners, Upc!UpcConstants
  <2>2. At(worker[v].at, worker[v].progress) => At(worker[v].at, worker[v].progress)'
    BY <1>1 DEF At
  <2> QED
    BY <2>1, <2>2 DEF Abreast
<1> QED
  BY <1>2, <1>3 DEF UpcInv

LEMMA LoseLockInv == ASSUME Upc!UpcConstants, UpcInv, NEW w \in Workers, Upc!LoseLock(w) PROVE UpcInv'
<1> DEFINE next == [worker[w] EXCEPT !.own = FALSE]
<1>1. worker[w] \in Busy
  BY DEF Upc!LoseLock, UpcInv, Types
<1>2. next \in Busy /\ next.at = worker[w].at /\ next.progress = worker[w].progress
  BY <1>1 DEF Busy
<1>3. WorkerType' /\ Others(w) /\ worker'[w] = next
  BY <1>2, GoesSomewhere DEF Upc!LoseLock, Upc!Goes, UpcInv, Types, WorkerType
<1>4. Types'
  BY <1>3 DEF Upc!LoseLock, UpcInv, Types, WorkerType
<1> QED
  BY <1>2, <1>3, <1>4, Still DEF Upc!LoseLock, Others

LEMMA UploadEndsInv == ASSUME Upc!UpcConstants, UpcInv, NEW n \in Uploads, Upc!UploadEnds(n) PROVE UpcInv'
<1> USE DEF Upc!UploadEnds
<1>1. Types'
  BY DEF UpcInv, Types
<1>2. Uploading' \subseteq Uploading /\ Posters' = Posters
  BY DEF Uploading, Posters, UpcInv, Types
<1>3. \A m \in Uploads : upload[m] = "unused" => upload'[m] = "unused"
  BY DEF UpcInv, Types
<1>4. OnePost' /\ Tracked' /\ Closed'
  BY <1>2, <1>3 DEF UpcInv, OnePost, Tracked, Closed
<1>5. Owners'
  <2> SUFFICES ASSUME NEW v \in Workers, owner = v PROVE Abreast(v)'
    BY DEF Owners
  <2>1. At(worker[v].at, worker[v].progress) => At(worker[v].at, worker[v].progress)'
    BY <1>2, <1>3 DEF At
  <2> QED
    BY <2>1 DEF Abreast, UpcInv, Owners
<1> QED
  BY <1>1, <1>4, <1>5 DEF UpcInv

LEMMA StopInv == ASSUME Upc!UpcConstants, UpcInv, Upc!Stop PROVE UpcInv'
<1>1. /\ cancel' = TRUE /\ review' = FALSE
      /\ exec' = "cancelled" \/ (exec = "running" /\ ~ review /\ exec' = exec)
      /\ (exec' = "cancelled" /\ (exec = "pending" \/ review)) \/ exec' = exec
      /\ UNCHANGED <<saved, owner, worker, upload>>
  BY DEF Upc!Stop
<1>2. Types'
  BY <1>1 DEF Upc!Stop, UpcInv, Types
<1>3. Uploading' = Uploading /\ Posters' = Posters
  BY <1>1 DEF Uploading, Posters
<1>4. OnePost' /\ Tracked' /\ Closed'
  BY <1>1, <1>3 DEF UpcInv, OnePost, Tracked, Closed, Upc!Active
<1>5. Owners'
  <2> SUFFICES ASSUME NEW v \in Workers, owner = v PROVE Abreast(v)'
    BY <1>1 DEF Owners
  <2>1. At(worker[v].at, worker[v].progress) => At(worker[v].at, worker[v].progress)'
    BY <1>1, <1>3 DEF At
  <2> QED
    BY <1>1, <2>1 DEF Abreast, UpcInv, Owners
<1> QED
  BY <1>2, <1>4, <1>5 DEF UpcInv

-----------------------------------------------------------------------------

LEMMA WorkInv == ASSUME Upc!UpcConstants, UpcInv, NEW w \in Workers, Upc!Work(w) PROVE UpcInv'
<1>1. CASE Upc!LosesLease(w)
  BY <1>1, LeavesAlone DEF Upc!LosesLease, Upc!Completes
<1> QED
  BY <1>1, AcquireInv, ClaimInv, SimpleInv, ExportInv, PrepareInv, TokenInv, BoundaryInv,
     PostInv, AnswerInv,
     CheckInv, VerifyInv, ReviewInv, SaveInv, CloseInv, StoppingInv DEF Upc!Work

LEMMA StepInv == ASSUME Upc!UpcConstants, UpcInv, [Upc!Next]_Upc!vars PROVE UpcInv'
<1>1. CASE \E w \in Workers : Upc!Work(w) \/ Upc!Breaks(w) \/ Upc!BreaksLate(w) \/ Upc!Die(w) \/ Upc!LoseLock(w)
  BY <1>1, WorkInv, BreaksInv, BreaksLateInv, DieInv, LoseLockInv
<1>2. CASE \E w \in Workers, j \in Upc!Jobs : Upc!Take(w, j)
  BY <1>2, TakeInv
<1>3. CASE \E j \in Upc!Jobs : Upc!Stalled(j)
  <2>1. Types'
    BY <1>3 DEF Upc!Stalled, UpcInv, Types
  <2> QED
    BY <1>3, <2>1, Still DEF Upc!Stalled
<1>4. CASE \E n \in Uploads : Upc!UploadEnds(n)
  BY <1>4, UploadEndsInv
<1>5. CASE Upc!Expire
  <2>1. Types'
    BY <1>5 DEF Upc!Expire, UpcInv, Types
  <2> QED
    BY <1>5, <2>1, Still DEF Upc!Expire
<1>6. CASE Upc!Stop
  BY <1>6, StopInv
<1>7. CASE Upc!Recover
  <2>1. Types'
    BY <1>7 DEF Upc!Recover, UpcInv, Types, Upc!Jobs
  <2> QED
    BY <1>7, <2>1, Still DEF Upc!Recover
<1>8. CASE UNCHANGED Upc!vars
  <2>1. Types'
    BY <1>8 DEF Upc!vars, UpcInv, Types
  <2> QED
    BY <1>8, <2>1, Still DEF Upc!vars
<1> QED
  BY <1>1, <1>2, <1>3, <1>4, <1>5, <1>6, <1>7, <1>8 DEF Upc!Next, Uploads, Upc!Uploads

\* In every execution DiDi has at most the upload that the checkpoint names, at
\* most one worker is about to submit, and the holder of the lease is abreast of
\* the checkpoint, whoever dies, is slow or loses its lease.
THEOREM UpcInvariant == Upc!Spec => []UpcInv
<1>1. Upc!Init => UpcInv
  BY PricingConstants, InitInv
<1>2. UpcInv /\ [Upc!Next]_Upc!vars => UpcInv'
  BY PricingConstants, StepInv
<1> QED
  BY <1>1, <1>2, PTL DEF Upc!Spec

-----------------------------------------------------------------------------
(* What follows from it.                                                      *)

LEMMA SingleUpload == ASSUME UpcInv PROVE OneUpload
<1>1. CASE Uploading = {}
  BY <1>1, FS_EmptySet DEF OneUpload
<1>2. CASE Uploading # {}
  <2>1. PICK n : Uploading = {n}
    BY <1>2 DEF UpcInv, OnePost
  <2>2. Cardinality(Uploading) = 1
    BY <2>1, FS_Singleton
  <2> QED
    BY <2>2 DEF OneUpload
<1> QED
  BY <1>1, <1>2

\* DiDi never has two uploads of an execution under way, although a worker whose
\* lease has expired still sends the POST it was about to send.
THEOREM OneUploadHolds == Upc!Spec => []OneUpload
<1>1. UpcInv => OneUpload
  BY SingleUpload
<1> QED
  BY <1>1, UpcInvariant, PTL

\* An execution that is recorded as finished or failed, and was not asked to stop,
\* has no upload left at DiDi, not even one whose answer was never heard.
THEOREM AccountedHolds == Upc!Spec => []Accounted
<1>1. UpcInv => Accounted
  BY DEF UpcInv, Closed, Accounted
<1> QED
  BY <1>1, UpcInvariant, PTL

\* An upload reaches DiDi only if it has never been sent before and no other is
\* under way; DiDi then ends it and it is not sent again, in no later delivery.
SentOnce ==
  [][\A n \in Uploads : upload'[n] # upload[n] =>
       \/ upload[n] = "unused" /\ Uploading = {}
       \/ upload[n] = "running" /\ upload'[n] = "ended"]_Upc!vars

LEMMA StepSends ==
  ASSUME UpcInv, [Upc!Next]_Upc!vars, NEW n \in Uploads, upload'[n] # upload[n]
  PROVE  \/ upload[n] = "unused" /\ Uploading = {}
         \/ upload[n] = "running" /\ upload'[n] = "ended"
<1>1. upload \in [Uploads -> {"unused", "running", "refused", "ended"}]
  BY DEF UpcInv, Types
<1>2. CASE \E w \in Workers : Upc!Post(w)
  <2>1. PICK w \in Workers : Upc!Post(w)
    BY <1>2
  <2>2. w \in Posters /\ \E f : upload' = [upload EXCEPT ![worker[w].progress.n] = f]
    BY <2>1 DEF Upc!Post, Posters
  <2> QED
    BY <1>1, <2>2 DEF UpcInv, OnePost
<1>3. CASE \E m \in Uploads : Upc!UploadEnds(m)
  BY <1>1, <1>3 DEF Upc!UploadEnds
<1>4. CASE UNCHANGED upload
  BY <1>4
<1> QED
  <2>1. ASSUME NEW w \in Workers, Upc!Work(w) PROVE Upc!Post(w) \/ UNCHANGED upload
    BY <2>1 DEF Upc!Work, Upc!Acquire, Upc!Claim, Upc!Shop, Upc!Catalog, Upc!Export,
       Upc!Loop, Upc!Prepare, Upc!Token, Upc!Boundary, Upc!Answer, Upc!Poll,
       Upc!Check, Upc!Verify, Upc!Review, Upc!Save, Upc!Finish, Upc!Close, Upc!Stopping, Upc!LosesLease
  <2>2. ASSUME NEW w \in Workers, Upc!Breaks(w) \/ Upc!BreaksLate(w) \/ Upc!Die(w) \/ Upc!LoseLock(w) PROVE UNCHANGED upload
    BY <2>2 DEF Upc!Breaks, Upc!BreaksLate, Upc!Die, Upc!LoseLock
  <2>3. ASSUME \/ \E w \in Workers, j \in Upc!Jobs : Upc!Take(w, j)
               \/ \E j \in Upc!Jobs : Upc!Stalled(j)
               \/ Upc!Expire \/ Upc!Stop \/ Upc!Recover \/ UNCHANGED Upc!vars
        PROVE  UNCHANGED upload
    BY <2>3 DEF Upc!Take, Upc!Stalled, Upc!Expire, Upc!Stop, Upc!Recover, Upc!vars
  <2> QED
    BY <1>2, <1>3, <1>4, <2>1, <2>2, <2>3 DEF Upc!Next, Uploads, Upc!Uploads

\* No upload is sent twice, and none beside another, whoever sends it.
THEOREM SentOnceHolds == Upc!Spec => SentOnce
<1>1. UpcInv /\ [Upc!Next]_Upc!vars =>
        [\A n \in Uploads : upload'[n] # upload[n] =>
           \/ upload[n] = "unused" /\ Uploading = {}
           \/ upload[n] = "running" /\ upload'[n] = "ended"]_Upc!vars
  BY StepSends
<1> QED
  BY <1>1, UpcInvariant, PTL DEF Upc!Spec, SentOnce

-----------------------------------------------------------------------------
(* Go-Live: the invariant.                                                    *)

\* Request r is telling DiDi to open the store, or is about to record that it did.
Tells(r) == pc[r] \in {"posting", "confirmed"}

\* What the locks of a transaction protect while DiDi is waited for.
Held ==
  /\ \A r \in Request : Tells(r) => gate /\ ~emergency /\ Running(mine[r])
  /\ \A p \in Recovery : at[p] = "verifying" => gate /\ Running(target[p])

\* Only one transaction at a time holds them.
Alone ==
  /\ \A r, s \in Request : Tells(r) /\ Tells(s) => r = s
  /\ \A p, q \in Recovery : at[p] = "verifying" /\ at[q] = "verifying" => p = q
  /\ \A r \in Request, p \in Recovery : ~(Tells(r) /\ at[p] = "verifying")

\* An attempt has one request, and is neither old nor posted when it is created.
Owned ==
  /\ \A r, s \in Request : mine[r] # NoAttempt /\ mine[r] = mine[s] => r = s
  /\ \A r \in Request : mine[r] \in Attempt => attempt[mine[r]] # "none"
  /\ \A a \in aged \cup doubt : attempt[a] # "none"

\* A recovery works on old attempts, whose requests are over unless they are slow.
Late ==
  /\ \A r \in Request : mine[r] \in aged => mine[r] \in slow
  /\ \A p \in Recovery : at[p] # "idle" => target[p] \in aged

\* Who may fail an attempt knows that there is no doubt.
Known ==
  /\ \A r \in Request :
       pc[r] \in {"created", "prepared", "finishing"} => mine[r] \notin doubt
  /\ \A p \in Recovery : at[p] = "offline" => target[p] \notin doubt \ slow

LockInv  == OneAttempt /\ Held /\ Alone
DoubtInv == Owned /\ Late /\ Known
GoLiveInv == TypeOK /\ LockInv /\ DoubtInv

-----------------------------------------------------------------------------
(* Go-Live: types.                                                            *)

LEMMA LiveInit == Init => GoLiveInv
<1> SUFFICES ASSUME Init PROVE GoLiveInv
  OBVIOUS
<1>1. TypeOK
  BY GoLiveConstants DEF Init, TypeOK, Stage, Status
<1>2. LockInv
  BY DEF Init, LockInv, OneAttempt, Held, Alone, Tells
<1>3. DoubtInv
  BY GoLiveConstants DEF Init, DoubtInv, Owned, Late, Known
<1> QED
  BY <1>1, <1>2, <1>3 DEF GoLiveInv

LEMMA NextTypeOK == TypeOK /\ [Next]_vars => TypeOK'
<1> SUFFICES ASSUME TypeOK, [Next]_vars PROVE TypeOK'
  OBVIOUS
<1> USE GoLiveConstants DEF TypeOK, Stage, Status, world, unit, didi, Go, Leave, Return, Settle
<1>1. ASSUME NEW r \in Request, Create(r) PROVE TypeOK'
  BY <1>1 DEF Create
<1>2. ASSUME NEW r \in Request, Prepare(r) \/ Post(r) \/ PostFails(r) PROVE TypeOK'
  BY <1>2 DEF Prepare, Post, PostFails
<1>3. ASSUME NEW r \in Request, Answer(r) PROVE TypeOK'
  BY ZenonT(60), <1>3 DEF Answer, Confirm, Deny, Ambiguous
<1>4. ASSUME NEW r \in Request, Record(r) \/ FinishFailed(r) \/ Die(r) PROVE TypeOK'
  BY <1>4 DEF Record, FinishFailed, Die
<1>5. ASSUME NEW p \in Recovery, List(p) \/ Verify(p) \/ VerifyPends(p) PROVE TypeOK'
  BY <1>5 DEF List, Verify, VerifyPends
<1>6. ASSUME NEW p \in Recovery, Verdict(p) \/ FailOffline(p) \/ RecoveryDies(p)
      PROVE  TypeOK'
  BY <1>6 DEF Verdict, VerifyOnline, VerifyOffline, FailOffline, RecoveryDies
<1>7. ASSUME NEW a \in Attempt, Ages(a) \/ Apply(a) PROVE TypeOK'
  BY <1>7 DEF Ages, Apply
<1>8. CASE TransitionUnit \/ ReconcileOnline
  BY <1>8 DEF TransitionUnit, ReconcileOnline
<1>9. CASE TurnSwitch \/ TurnEmergency \/ LinkApplication \/ OpenOrClose
  BY <1>9 DEF TurnSwitch, TurnEmergency, LinkApplication, OpenOrClose
<1>10. CASE UNCHANGED vars
  BY <1>10 DEF vars
<1> QED
  BY <1>1, <1>2, <1>3, <1>4, <1>5, <1>6, <1>7, <1>8, <1>9, <1>10 DEF Next, Work, Recover

-----------------------------------------------------------------------------
(* Go-Live: locks.                                                            *)

\* Who has what a transaction of its own needs meets nobody who waits for DiDi.
LEMMA NobodyWaits ==
  ASSUME Unlocked
  PROVE  /\ \A r \in Request : ~Tells(r)
         /\ \A p \in Recovery : at[p] # "verifying"
BY DEF Unlocked, Posting, Verifying, Tells

\* Only one attempt is running while somebody waits for DiDi.
LEMMA NextLocks == TypeOK /\ LockInv /\ [Next]_vars => LockInv'
<1> SUFFICES ASSUME TypeOK, LockInv, [Next]_vars PROVE LockInv'
  OBVIOUS
<1> USE GoLiveConstants, NobodyWaits
    DEF TypeOK, LockInv, OneAttempt, Held, Alone, Tells, Running, world, unit, didi,
        Go, Leave, Return, Settle
<1>1. ASSUME NEW r \in Request, Create(r) PROVE LockInv'
  BY <1>1 DEF Create, Ready
<1>2. ASSUME NEW r \in Request, Prepare(r) \/ PostFails(r) PROVE LockInv'
  BY <1>2 DEF Prepare, PostFails
<1>3. ASSUME NEW r \in Request, Post(r) PROVE LockInv'
  BY <1>3 DEF Post
<1>4. ASSUME NEW r \in Request, Answer(r) PROVE LockInv'
  BY <1>4 DEF Answer, Confirm, Deny, Ambiguous
<1>5. ASSUME NEW r \in Request, Record(r) PROVE LockInv'
  BY <1>5 DEF Record
<1>6. ASSUME NEW r \in Request, FinishFailed(r) PROVE LockInv'
  BY <1>6 DEF FinishFailed
<1>7. ASSUME NEW r \in Request, Die(r) PROVE LockInv'
  BY <1>7 DEF Die
<1>8. ASSUME NEW p \in Recovery, List(p) \/ VerifyPends(p) \/ RecoveryDies(p)
      PROVE  LockInv'
  BY <1>8 DEF List, VerifyPends, RecoveryDies
<1>9. ASSUME NEW p \in Recovery, Verify(p) PROVE LockInv'
  BY <1>9 DEF Verify
<1>10. ASSUME NEW p \in Recovery, Verdict(p) PROVE LockInv'
  BY <1>10 DEF Verdict, VerifyOnline, VerifyOffline
<1>11. ASSUME NEW p \in Recovery, FailOffline(p) PROVE LockInv'
  BY <1>11 DEF FailOffline
<1>12. ASSUME NEW a \in Attempt, Ages(a) \/ Apply(a) PROVE LockInv'
  BY <1>12 DEF Ages, Apply
<1>13. CASE TransitionUnit \/ ReconcileOnline
  BY <1>13 DEF TransitionUnit, ReconcileOnline
<1>14. CASE TurnSwitch \/ TurnEmergency \/ LinkApplication \/ OpenOrClose
  BY <1>14 DEF TurnSwitch, TurnEmergency, LinkApplication, OpenOrClose, Posting
<1>15. CASE UNCHANGED vars
  BY <1>15 DEF vars
<1> QED
  BY <1>1, <1>2, <1>3, <1>4, <1>5, <1>6, <1>7, <1>8, <1>9, <1>10, <1>11, <1>12, <1>13,
     <1>14, <1>15 DEF Next, Work, Recover

-----------------------------------------------------------------------------
(* Go-Live: doubt.                                                            *)

LEMMA NextDoubt == TypeOK /\ LockInv /\ DoubtInv /\ [Next]_vars => DoubtInv'
<1> SUFFICES ASSUME TypeOK, LockInv, DoubtInv, [Next]_vars PROVE DoubtInv'
  OBVIOUS
<1> USE GoLiveConstants
    DEF TypeOK, LockInv, Held, Alone, Tells, Running, DoubtInv, Owned, Late, Known,
        world, unit, didi, Go, Leave, Return, Settle
<1>1. ASSUME NEW r \in Request, Create(r) PROVE DoubtInv'
  BY <1>1 DEF Create
<1>2. ASSUME NEW r \in Request, Prepare(r) \/ PostFails(r) PROVE DoubtInv'
  BY <1>2 DEF Prepare, PostFails
<1>3. ASSUME NEW r \in Request, Post(r) PROVE DoubtInv'
  BY <1>3 DEF Post
<1>4. ASSUME NEW r \in Request, Answer(r) PROVE DoubtInv'
  BY <1>4 DEF Answer, Confirm, Deny, Ambiguous
<1>5. ASSUME NEW r \in Request, Record(r) \/ FinishFailed(r) \/ Die(r) PROVE DoubtInv'
  BY <1>5 DEF Record, FinishFailed, Die
<1>6. ASSUME NEW p \in Recovery, List(p) \/ VerifyPends(p) \/ RecoveryDies(p)
      PROVE  DoubtInv'
  BY <1>6 DEF List, VerifyPends, RecoveryDies
<1>7. ASSUME NEW p \in Recovery, Verify(p) PROVE DoubtInv'
  BY <1>7 DEF Verify
<1>8. ASSUME NEW p \in Recovery, Verdict(p) PROVE DoubtInv'
  BY <1>8 DEF Verdict, VerifyOnline, VerifyOffline
<1>9. ASSUME NEW p \in Recovery, FailOffline(p) PROVE DoubtInv'
  BY <1>9 DEF FailOffline
<1>10. ASSUME NEW a \in Attempt, Ages(a) PROVE DoubtInv'
  BY <1>10 DEF Ages
<1>11. ASSUME NEW a \in Attempt, Apply(a) PROVE DoubtInv'
  BY <1>11 DEF Apply
<1>12. CASE TransitionUnit \/ ReconcileOnline
  BY <1>12 DEF TransitionUnit, ReconcileOnline
<1>13. CASE TurnSwitch \/ TurnEmergency \/ LinkApplication \/ OpenOrClose
  BY <1>13 DEF TurnSwitch, TurnEmergency, LinkApplication, OpenOrClose
<1>14. CASE UNCHANGED vars
  BY <1>14 DEF vars
<1> QED
  BY <1>1, <1>2, <1>3, <1>4, <1>5, <1>6, <1>7, <1>8, <1>9, <1>10, <1>11, <1>12, <1>13,
     <1>14 DEF Next, Work, Recover

-----------------------------------------------------------------------------
(* Go-Live: the theorems.                                                     *)

\* The inductive invariant: locks, owners of attempts, and who knows what of them.
THEOREM GoLiveInvariant == Spec => []GoLiveInv
<1>1. GoLiveInv /\ [Next]_vars => GoLiveInv'
  BY NextTypeOK, NextLocks, NextDoubt DEF GoLiveInv
<1> QED
  BY LiveInit, <1>1, PTL DEF Spec

\* Every variable keeps its type.
THEOREM TypeCorrect == Spec => []TypeOK
<1>1. GoLiveInv => TypeOK
  BY DEF GoLiveInv
<1> QED
  BY <1>1, GoLiveInvariant, PTL

\* A unit is going online exactly while one of its attempts, and no other, is running.
THEOREM OneAttemptHolds == Spec => []OneAttempt
<1>1. GoLiveInv => OneAttempt
  BY DEF GoLiveInv, LockInv
<1> QED
  BY <1>1, GoLiveInvariant, PTL

\* DiDi is told to open the store only with the switch on, outside emergencies, for
\* an attempt that is running, and by one request at a time.
THEOREM PermittedHolds == Spec => []Permitted
<1>1. GoLiveInv => Permitted
  BY DEF GoLiveInv, LockInv, Held, Alone, Tells, Permitted
<1> QED
  BY <1>1, GoLiveInvariant, PTL

\* Nothing happens to the unit and its attempts while the switch is off.
THEOREM FrozenWhenOffHolds == Spec => FrozenWhenOff
<1>1. ASSUME GoLiveInv, Next, ~gate PROVE UNCHANGED <<stage, attempt>>
  <2> USE <1>1 DEF GoLiveInv, LockInv, Held, Tells, world, unit
  <2>1. ASSUME NEW r \in Request, Create(r) \/ Work(r) \/ Die(r)
        PROVE  UNCHANGED <<stage, attempt>>
    BY <2>1 DEF Create, Work, Prepare, Post, PostFails, Answer, Confirm, Deny, Ambiguous,
                Record, FinishFailed, Die
  <2>2. ASSUME NEW p \in Recovery, Recover(p) \/ RecoveryDies(p)
        PROVE  UNCHANGED <<stage, attempt>>
    BY <2>2 DEF Recover, List, Verify, Verdict, VerifyOnline, VerifyOffline, VerifyPends,
                FailOffline, RecoveryDies
  <2>3. ASSUME NEW a \in Attempt, Ages(a) \/ Apply(a) PROVE UNCHANGED <<stage, attempt>>
    BY <2>3 DEF Ages, Apply
  <2>4. CASE TransitionUnit \/ ReconcileOnline
    BY <2>4 DEF TransitionUnit, ReconcileOnline
  <2>5. CASE TurnSwitch \/ TurnEmergency \/ LinkApplication \/ OpenOrClose
    BY <2>5 DEF TurnSwitch, TurnEmergency, LinkApplication, OpenOrClose
  <2> QED
    BY <2>1, <2>2, <2>3, <2>4, <2>5 DEF Next
<1>2. GoLiveInv /\ [Next]_vars => [~gate => UNCHANGED <<stage, attempt>>]_vars
  BY <1>1
<1> QED
  BY <1>2, GoLiveInvariant, PTL DEF Spec, FrozenWhenOff

\* How a step may change an attempt: a running one is settled while its unit goes
\* online, a new one is created for a unit that is not online.
Headway ==
  \/ UNCHANGED attempt /\ (stage = "online" => stage' = "online")
  \/ \E a \in Attempt, s \in Status :
       /\ attempt' = [attempt EXCEPT ![a] = s]
       /\ attempt[a] \in {"none", "running"}
       /\ stage # "online"

LEMMA NextHeadway == GoLiveInv /\ Next => Headway
<1> SUFFICES ASSUME GoLiveInv, Next PROVE Headway
  OBVIOUS
<1> USE DEF GoLiveInv, TypeOK, LockInv, Held, Tells, Running, Headway, Status, Settle,
            world, unit
<1>1. ASSUME NEW r \in Request, Create(r) PROVE Headway
  BY <1>1 DEF Create, Ready
<1>2. ASSUME NEW r \in Request, Prepare(r) \/ Post(r) \/ PostFails(r) \/ Answer(r) \/ Die(r)
      PROVE  Headway
  BY <1>2 DEF Prepare, Post, PostFails, Answer, Confirm, Deny, Ambiguous, Die
<1>3. ASSUME NEW r \in Request, Record(r) PROVE Headway
  <2>1. mine[r] \in Attempt
    BY <1>3 DEF Record
  <2> QED
    BY <1>3, <2>1 DEF Record
<1>4. ASSUME NEW r \in Request, FinishFailed(r) PROVE Headway
  <2>1. mine[r] \in Attempt
    BY <1>4 DEF FinishFailed
  <2> QED
    BY <1>4, <2>1 DEF FinishFailed
<1>5. ASSUME NEW p \in Recovery, Recover(p) \/ RecoveryDies(p) PROVE Headway
  <2>1. at[p] # "idle" => target[p] \in Attempt
    OBVIOUS
  <2> QED
    BY <1>5, <2>1 DEF Recover, List, Verify, Verdict, VerifyOnline, VerifyOffline,
                      VerifyPends, FailOffline, RecoveryDies
<1>6. ASSUME NEW a \in Attempt, Ages(a) \/ Apply(a) PROVE Headway
  BY <1>6 DEF Ages, Apply
<1>7. CASE TransitionUnit \/ ReconcileOnline
  BY <1>7 DEF TransitionUnit, ReconcileOnline
<1>8. CASE TurnSwitch \/ TurnEmergency \/ LinkApplication \/ OpenOrClose
  BY <1>8 DEF TurnSwitch, TurnEmergency, LinkApplication, OpenOrClose
<1> QED
  BY <1>1, <1>2, <1>3, <1>4, <1>5, <1>6, <1>7, <1>8 DEF Next, Work

\* A settled attempt stays as it is, and a unit that is online stays online.
THEOREM SettledForGoodHolds == Spec => SettledForGood
<1>1. ASSUME GoLiveInv, Headway
      PROVE  /\ \A a \in Attempt : attempt[a] \in {"done", "failed"} => attempt'[a] = attempt[a]
             /\ stage = "online" => stage' = "online"
  BY <1>1 DEF Headway, GoLiveInv, TypeOK
<1>2. GoLiveInv /\ [Next]_vars =>
        [/\ \A a \in Attempt : attempt[a] \in {"done", "failed"} => attempt'[a] = attempt[a]
         /\ stage = "online" => stage' = "online"]_vars
  BY <1>1, NextHeadway
<1> QED
  BY <1>2, GoLiveInvariant, PTL DEF Spec, SettledForGood

\* An attempt that DiDi may have taken is not failed before DiDi was asked since,
\* unless there is nothing to ask with or its request was slow.
THEOREM NoFailureInDoubtHolds == Spec => NoFailureInDoubt
<1>1. ASSUME GoLiveInv, Next, NEW a \in doubt \ slow,
             attempt[a] = "running", attempt'[a] = "failed"
      PROVE  ~linked
  <2> USE <1>1 DEF GoLiveInv, TypeOK, DoubtInv, Known, LockInv, Held, Tells, Running, Settle,
                   world, unit
  <2>1. ASSUME NEW r \in Request, Create(r) \/ Work(r) \/ Die(r) PROVE FALSE
    <3>1. CASE FinishFailed(r)
      BY <3>1 DEF FinishFailed
    <3>2. CASE Create(r) \/ Record(r)
      BY <3>2 DEF Create, Record
    <3>3. CASE Prepare(r) \/ Post(r) \/ PostFails(r) \/ Answer(r) \/ Die(r)
      BY <3>3 DEF Prepare, Post, PostFails, Answer, Confirm, Deny, Ambiguous, Die
    <3> QED
      BY <2>1, <3>1, <3>2, <3>3 DEF Work
  <2>2. ASSUME NEW p \in Recovery, Recover(p) \/ RecoveryDies(p) PROVE ~linked
    <3>1. CASE Verify(p)
      BY <3>1 DEF Verify
    <3>2. CASE FailOffline(p)
      BY <3>2 DEF FailOffline
    <3>3. CASE VerifyOnline(p)
      BY <3>3 DEF VerifyOnline
    <3>4. CASE List(p) \/ VerifyOffline(p) \/ VerifyPends(p) \/ RecoveryDies(p)
      BY <3>4 DEF List, VerifyOffline, VerifyPends, RecoveryDies
    <3> QED
      BY <2>2, <3>1, <3>2, <3>3, <3>4 DEF Recover, Verdict
  <2>3. ASSUME NEW b \in Attempt, Ages(b) \/ Apply(b) PROVE FALSE
    BY <2>3 DEF Ages, Apply
  <2>4. CASE TransitionUnit \/ ReconcileOnline
    BY <2>4 DEF TransitionUnit, ReconcileOnline
  <2>5. CASE TurnSwitch \/ TurnEmergency \/ LinkApplication \/ OpenOrClose
    BY <2>5 DEF TurnSwitch, TurnEmergency, LinkApplication, OpenOrClose
  <2> QED
    BY <2>1, <2>2, <2>3, <2>4, <2>5 DEF Next
<1>2. GoLiveInv /\ [Next]_vars =>
        [\A a \in doubt \ slow :
           attempt[a] = "running" /\ attempt'[a] = "failed" => ~linked]_vars
  BY <1>1
<1> QED
  BY <1>2, GoLiveInvariant, PTL DEF Spec, NoFailureInDoubt
=============================================================================
