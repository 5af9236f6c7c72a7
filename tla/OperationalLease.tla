-------------------------- MODULE OperationalLease --------------------------
(***************************************************************************)
(* The database-backed lease that serialises operational work on one       *)
(* resource (backend/src/prisma/operational-lease.service.ts): the row of  *)
(* operational_lease, the SQL statements that touch it, and runExclusive   *)
(* with its heartbeat, its ownership checks and its fenced transactions.   *)
(* The statements name one resource_key, so one row is modelled.           *)
(*                                                                         *)
(* Time is the PostgreSQL clock.  left is expires_at minus that clock; a   *)
(* statement evaluates CURRENT_TIMESTAMP when its transaction starts and   *)
(* reaches the row up to Stall ticks later (it may wait for the row lock), *)
(* so it sees the expiry d ticks late, for some d in 0..Stall.             *)
(***************************************************************************)
EXTENDS Integers

CONSTANTS
  Worker,    \* concurrent callers of runExclusive, in any process
  Token,     \* owner tokens (randomUUID)
  NoToken,   \* owner_token IS NULL
  NoWorker,  \* nobody holds the row lock
  Upc,       \* the workers whose ownerKind is 'upc-activity-price'
  Reserved,  \* TRUE: the resource is reserved to them by the live allowlist
  Ttl,       \* lease duration in ticks
  Stall,     \* longest delay of a statement in ticks
  MaxCalls,  \* bound: calls of runExclusive per worker
  MaxTries   \* waitTimeoutMs, as a number of failed attempts

ASSUME LeaseConstants ==
  /\ Upc \subseteq Worker
  /\ Reserved \in BOOLEAN
  /\ NoToken \notin Token
  /\ NoWorker \notin Worker
  /\ Ttl \in Nat \ {0}
  /\ Stall \in Nat
  /\ MaxCalls \in Nat
  /\ MaxTries \in Nat

VARIABLES
  \* the row
  owner,     \* owner_token
  fence,     \* fencing_token (0 before the row exists)
  left,      \* expires_at - now, no lower than -Stall
  lock,      \* the worker whose open transaction locked the row
  \* each call of runExclusive
  pc, calls, tries,
  token,     \* handle.ownerToken
  term,      \* handle.fencingToken
  heart,     \* the heartbeat: "off", "armed" (timer set), "renewing" (in flight)
  stop,      \* leaseLoss / callerFailed: "none", "lost", "caller"
  active,    \* what the caller's own ensureActive guard answers
  asking,    \* ensureActive passed that guard; assertOwned is in flight
  \* what the calls wrote
  committed  \* fencing token of the last checkpoint committed under the lease

row    == <<owner, fence, left>>
loop   == <<calls, tries>>
handle == <<token, term>>
vars   == <<row, lock, pc, loop, handle, heart, stop, active, asking, committed>>

PC == {"idle", "try", "held", "running", "cleared", "tx", "returned",
       "unwinding", "releasing"}

TypeOK ==
  /\ owner \in Token \cup {NoToken}
  /\ fence \in Nat
  /\ left \in (-Stall)..Ttl
  /\ lock \in Worker \cup {NoWorker}
  /\ pc \in [Worker -> PC]
  /\ calls \in [Worker -> 0..MaxCalls]
  /\ tries \in [Worker -> 0..MaxTries]
  /\ token \in [Worker -> Token \cup {NoToken}]
  /\ term \in [Worker -> Nat]
  /\ heart \in [Worker -> {"off", "armed", "renewing"}]
  /\ stop \in [Worker -> {"none", "lost", "caller"}]
  /\ active \in [Worker -> BOOLEAN]
  /\ asking \in [Worker -> BOOLEAN]
  /\ committed \in Nat

Init ==
  /\ owner = NoToken /\ fence = 0 /\ left = 0 /\ lock = NoWorker
  /\ pc = [w \in Worker |-> "idle"]
  /\ calls = [w \in Worker |-> 0]
  /\ tries = [w \in Worker |-> 0]
  /\ token = [w \in Worker |-> NoToken]
  /\ term = [w \in Worker |-> 0]
  /\ heart = [w \in Worker |-> "off"]
  /\ stop = [w \in Worker |-> "none"]
  /\ active = [w \in Worker |-> TRUE]
  /\ asking = [w \in Worker |-> FALSE]
  /\ committed = 0

-----------------------------------------------------------------------------
(* The conditions of the SQL statements, evaluated d ticks late.           *)

\* Mutant: an expired lease is not up for grabs.
FreeWhenReleased(d) == owner = NoToken

\* acquire: ON CONFLICT ... DO UPDATE WHERE owner IS NULL OR expires_at <= now.
Free(d) == owner = NoToken \/ left <= -d

\* renew, assertOwned and the fenced SELECT ... FOR UPDATE.
Owned(w, d) ==
  /\ token[w] # NoToken
  /\ owner = token[w]
  /\ fence = term[w]
  /\ left > -d

\* A UUID nobody uses: neither the row nor any handle refers to it.
FreshTokens == Token \ ({owner} \cup {token[w] : w \in Worker})

\* assertCatalogReservation: non-UPC writers keep out of a reserved store.
Admitted(w) == Reserved => w \in Upc

\* stopHeartbeat: the timer is cleared, a renewal in flight is awaited.
Stopping(h) == IF h = "renewing" THEN h ELSE "off"

Stopped(w) == pc[w] \in {"returned", "unwinding", "releasing"}

-----------------------------------------------------------------------------
(* runExclusive: the acquisition loop.                                     *)

Call(w) ==
  /\ pc[w] = "idle"
  /\ calls[w] < MaxCalls
  /\ calls' = [calls EXCEPT ![w] = @ + 1]
  /\ tries' = [tries EXCEPT ![w] = 0]
  /\ stop' = [stop EXCEPT ![w] = "none"]
  /\ active' = [active EXCEPT ![w] = TRUE]
  /\ pc' = [pc EXCEPT ![w] = "try"]
  /\ UNCHANGED <<row, lock, handle, heart, asking, committed>>

\* The caller's guard fails, or the store is reserved for another kind.
Refuse(w) ==
  /\ pc[w] = "try"
  /\ ~active[w] \/ ~Admitted(w)
  /\ pc' = [pc EXCEPT ![w] = "idle"]
  /\ UNCHANGED <<row, lock, loop, handle, heart, stop, active, asking, committed>>

\* Mutant: a takeover keeps the fencing token.
AcquireSameFence(w) ==
  /\ pc[w] = "try" /\ active[w] /\ Admitted(w) /\ lock = NoWorker
  /\ \E d \in 0..Stall, t \in FreshTokens :
       /\ Free(d)
       /\ owner' = t /\ left' = Ttl - d
       /\ fence' = IF fence = 0 THEN 1 ELSE fence
       /\ token' = [token EXCEPT ![w] = t]
       /\ term' = [term EXCEPT ![w] = fence']
  /\ pc' = [pc EXCEPT ![w] = "held"]
  /\ heart' = [heart EXCEPT ![w] = "armed"]
  /\ UNCHANGED <<lock, loop, stop, active, asking, committed>>

Acquire(w) ==
  /\ pc[w] = "try"
  /\ active[w]
  /\ Admitted(w)
  /\ lock = NoWorker
  /\ \E d \in 0..Stall, t \in FreshTokens :
       /\ Free(d)
       /\ owner' = t
       /\ fence' = fence + 1
       /\ left' = Ttl - d
       /\ token' = [token EXCEPT ![w] = t]
       /\ term' = [term EXCEPT ![w] = fence + 1]
  /\ pc' = [pc EXCEPT ![w] = "held"]
  /\ heart' = [heart EXCEPT ![w] = "armed"]
  /\ UNCHANGED <<lock, loop, stop, active, asking, committed>>

\* The lease is taken: wait and try again, until the wait times out.
AcquireBusy(w) ==
  /\ pc[w] = "try"
  /\ active[w]
  /\ Admitted(w)
  /\ lock = NoWorker
  /\ \E d \in 0..Stall : ~Free(d)
  /\ IF tries[w] < MaxTries
     THEN /\ tries' = [tries EXCEPT ![w] = @ + 1]
          /\ UNCHANGED pc
     ELSE /\ pc' = [pc EXCEPT ![w] = "idle"]
          /\ UNCHANGED tries
  /\ UNCHANGED <<row, lock, calls, handle, heart, stop, active, asking, committed>>

-----------------------------------------------------------------------------
(* runExclusive: ensureActive, before the action, before each effect of    *)
(* the action, and once more after the heartbeat has stopped.              *)

AfterEnsure ==
  [held |-> "running", running |-> "cleared", returned |-> "releasing"]

MayEnsure(w) ==
  /\ pc[w] \in DOMAIN AfterEnsure
  /\ pc[w] = "returned" => heart[w] = "off"

\* No flag is up and the caller's guard answers: ask the database.
EnsureAsk(w) ==
  /\ MayEnsure(w)
  /\ ~asking[w]
  /\ stop[w] = "none"
  /\ active[w]
  /\ asking' = [asking EXCEPT ![w] = TRUE]
  /\ UNCHANGED <<row, lock, pc, loop, handle, heart, stop, active, committed>>

\* Mutant: leaseLoss is not looked at again after the query.
EnsureActiveUnflagged(w) ==
  /\ MayEnsure(w) /\ asking[w] /\ Owned(w, 0)
  /\ asking' = [asking EXCEPT ![w] = FALSE]
  /\ pc' = [pc EXCEPT ![w] = AfterEnsure[@]]
  /\ UNCHANGED <<row, lock, loop, handle, heart, stop, active, committed>>

\* The row is ours.  A heartbeat may have raised a flag meanwhile: leaseLoss is
\* looked at again here, callerFailed is not.
EnsureActive(w) ==
  /\ MayEnsure(w)
  /\ asking[w]
  /\ stop[w] # "lost"
  /\ Owned(w, 0)
  /\ asking' = [asking EXCEPT ![w] = FALSE]
  /\ pc' = [pc EXCEPT ![w] = AfterEnsure[@]]
  /\ UNCHANGED <<row, lock, loop, handle, heart, stop, active, committed>>

\* A flag is up, the caller is no longer active, the row is not ours any more
\* or a query failed: ensureActive throws.  Before and after the action the
\* error goes to the finally block; inside it the action may throw or swallow
\* it (Throw, or Return).
EnsureFails(w) ==
  /\ MayEnsure(w)
  /\ stop' = [stop EXCEPT ![w] =
       IF @ # "none" THEN @ ELSE IF asking[w] THEN "lost" ELSE "caller"]
  /\ asking' = [asking EXCEPT ![w] = FALSE]
  /\ pc' = [pc EXCEPT ![w] = IF @ = "running" THEN @ ELSE "unwinding"]
  /\ heart' = [heart EXCEPT ![w] = IF pc[w] = "held" THEN Stopping(@) ELSE @]
  /\ UNCHANGED <<row, lock, loop, handle, active, committed>>

\* The action's remote call: it follows an ensureActive, with no lock held.
Effect(w) ==
  /\ pc[w] = "cleared"
  /\ pc' = [pc EXCEPT ![w] = "running"]
  /\ UNCHANGED <<row, lock, loop, handle, heart, stop, active, asking, committed>>

\* withFencedTransaction: lock the row and check it in the same transaction...
FencedBegin(w) ==
  /\ pc[w] = "cleared"
  /\ lock = NoWorker
  /\ \E d \in 0..Stall : Owned(w, d)
  /\ lock' = w
  /\ pc' = [pc EXCEPT ![w] = "tx"]
  /\ UNCHANGED <<row, loop, handle, heart, stop, active, asking, committed>>

\* ... then run the callback's writes and commit.
FencedCommit(w) ==
  /\ pc[w] = "tx"
  /\ committed' = term[w]
  /\ lock' = NoWorker
  /\ pc' = [pc EXCEPT ![w] = "running"]
  /\ UNCHANGED <<row, loop, handle, heart, stop, active, asking>>

\* The fenced SELECT finds no row, a callback throws, or the action throws.
Throw(w) ==
  /\ pc[w] \in {"running", "cleared", "tx"}
  /\ ~asking[w]
  /\ lock' = IF lock = w THEN NoWorker ELSE lock
  /\ pc' = [pc EXCEPT ![w] = "unwinding"]
  /\ heart' = [heart EXCEPT ![w] = Stopping(@)]
  /\ UNCHANGED <<row, loop, handle, stop, active, asking, committed>>

Return(w) ==
  /\ pc[w] = "running"
  /\ ~asking[w]
  /\ pc' = [pc EXCEPT ![w] = "returned"]
  /\ heart' = [heart EXCEPT ![w] = Stopping(@)]
  /\ UNCHANGED <<row, lock, loop, handle, stop, active, asking, committed>>

-----------------------------------------------------------------------------
(* The heartbeat.                                                          *)

\* The timer fires; the caller's guard is consulted before the renewal, and
\* may answer no or fail.
HeartbeatFire(w) ==
  /\ heart[w] = "armed"
  /\ \/ /\ active[w]
        /\ heart' = [heart EXCEPT ![w] = "renewing"]
        /\ UNCHANGED stop
     \/ /\ heart' = [heart EXCEPT ![w] = "off"]
        /\ stop' = [stop EXCEPT ![w] = IF @ = "none" THEN "caller" ELSE @]
  /\ UNCHANGED <<row, lock, pc, loop, handle, active, asking, committed>>

\* Mutant: the heartbeat re-arms itself after stopHeartbeat.
RenewForever(w) ==
  /\ heart[w] = "renewing" /\ lock = NoWorker
  /\ \E d \in 0..Stall : Owned(w, d) /\ left' = Ttl - d
  /\ heart' = [heart EXCEPT ![w] = IF stop[w] # "none" THEN "off" ELSE "armed"]
  /\ UNCHANGED <<owner, fence, lock, pc, loop, handle, stop, active, asking, committed>>

Renew(w) ==
  /\ heart[w] = "renewing"
  /\ lock = NoWorker
  /\ \E d \in 0..Stall : Owned(w, d) /\ left' = Ttl - d
  /\ heart' = [heart EXCEPT ![w] =
       IF Stopped(w) \/ stop[w] # "none" THEN "off" ELSE "armed"]
  /\ UNCHANGED <<owner, fence, lock, pc, loop, handle, stop, active, asking, committed>>

\* No row matched, or the query failed.
RenewFails(w) ==
  /\ heart[w] = "renewing"
  /\ stop' = [stop EXCEPT ![w] = IF @ = "none" THEN "lost" ELSE @]
  /\ heart' = [heart EXCEPT ![w] = "off"]
  /\ UNCHANGED <<row, lock, pc, loop, handle, active, asking, committed>>

-----------------------------------------------------------------------------
(* The end of a call, a crash of its process, and the environment.         *)

Release(w) ==
  /\ pc[w] \in {"releasing", "unwinding"}
  /\ heart[w] = "off"
  /\ lock = NoWorker
  /\ IF owner = token[w] /\ fence = term[w]
     THEN owner' = NoToken /\ left' = 0
     ELSE UNCHANGED <<owner, left>>
  /\ pc' = [pc EXCEPT ![w] = "idle"]
  /\ token' = [token EXCEPT ![w] = NoToken]
  /\ UNCHANGED <<fence, lock, loop, term, heart, stop, active, asking, committed>>

\* The release query failed: the row keeps its owner until it expires.
ReleaseFails(w) ==
  /\ pc[w] \in {"releasing", "unwinding"}
  /\ heart[w] = "off"
  /\ pc' = [pc EXCEPT ![w] = "idle"]
  /\ token' = [token EXCEPT ![w] = NoToken]
  /\ UNCHANGED <<row, lock, loop, term, heart, stop, active, asking, committed>>

\* The process dies: its memory and its open transaction are gone.
Crash(w) ==
  /\ pc[w] # "idle"
  /\ pc' = [pc EXCEPT ![w] = "idle"]
  /\ token' = [token EXCEPT ![w] = NoToken]
  /\ heart' = [heart EXCEPT ![w] = "off"]
  /\ asking' = [asking EXCEPT ![w] = FALSE]
  /\ lock' = IF lock = w THEN NoWorker ELSE lock
  /\ UNCHANGED <<row, loop, term, stop, active, committed>>

\* The execution behind the call is cancelled: its guard answers false from
\* now on, or its abort signal fires, which marks the lease lost at once.
Cancel(w) ==
  /\ pc[w] # "idle"
  /\ active[w]
  /\ active' = [active EXCEPT ![w] = FALSE]
  /\ \/ UNCHANGED stop
     \/ /\ pc[w] # "try"
        /\ stop' = [stop EXCEPT ![w] = IF @ = "none" THEN "lost" ELSE @]
  /\ UNCHANGED <<row, lock, pc, loop, handle, heart, asking, committed>>

Tick ==
  /\ left > -Stall
  /\ left' = left - 1
  /\ UNCHANGED <<owner, fence, lock, pc, loop, handle, heart, stop, active, asking, committed>>

\* What runExclusive does by itself, and what its heartbeat does.
CallStep(w) ==
  \/ Refuse(w) \/ Acquire(w) \/ AcquireBusy(w)
  \/ EnsureAsk(w) \/ EnsureActive(w) \/ EnsureFails(w)
  \/ Effect(w) \/ FencedBegin(w) \/ FencedCommit(w)
  \/ Release(w) \/ ReleaseFails(w)

BeatStep(w) == Renew(w) \/ RenewFails(w)

Next ==
  \/ \E w \in Worker :
       CallStep(w) \/ BeatStep(w) \/ HeartbeatFire(w)
         \/ Call(w) \/ Throw(w) \/ Return(w) \/ Crash(w) \/ Cancel(w)
  \/ Tick

Spec == Init /\ [][Next]_vars

\* The event loop and the database keep answering, time passes, and the action
\* of every call returns or throws in the end, however many effects it has.
Fairness ==
  /\ \A w \in Worker : WF_vars(CallStep(w)) /\ WF_vars(BeatStep(w))
  /\ \A w \in Worker : SF_vars(Return(w) \/ Throw(w))
  /\ WF_vars(Tick)

FairSpec == Spec /\ Fairness

-----------------------------------------------------------------------------
(* Properties.                                                             *)

\* While a fenced transaction is open, its lease cannot change hands: the
\* checkpoint is written by the owner even if the lease expires meanwhile
\* (withFencedTransaction, SELECT ... FOR UPDATE).
FencedOwnership ==
  \A w \in Worker :
    pc[w] = "tx" => owner = token[w] /\ fence = term[w]

\* Checkpoints are committed in the order of their fencing tokens: once a new
\* owner has written, a delayed former owner can no longer write.
CommitsInOrder == [][committed' >= committed]_vars

\* The token in the row and the fencing token identify one and the same
\* acquisition, and no two calls hold handles of the same one (acquire,
\* release and the retained row).
HandlesDistinct ==
  \A w \in Worker : token[w] # NoToken =>
    /\ term[w] <= fence
    /\ (owner = token[w]) <=> (owner # NoToken /\ term[w] = fence)
    /\ \A v \in Worker \ {w} : token[v] # NoToken =>
         token[v] # token[w] /\ term[v] # term[w]

\* A live lease is never stolen, and it is only given up by its own holder:
\* neither a takeover nor a late release of a former owner touches it.
NeverStolen ==
  [][\A t \in Token : (owner = t /\ owner' # t) =>
       \/ owner' # NoToken /\ left <= 0
       \/ owner' = NoToken /\ \E w \in Worker : token[w] = t /\ pc'[w] = "idle"]_vars

\* Once a heartbeat, an abort signal or an ownership check has found the lease
\* lost, the call clears no further effect, even if the row still names it and
\* the answer to an earlier question is still to come (leaseLoss).
SilentAfterLoss ==
  [][\A w \in Worker : (stop[w] = "lost" /\ pc[w] \notin {"cleared", "idle"})
       => pc'[w] # "cleared"]_vars

\* A heartbeat never outlives its call: a call has released the lease only
\* after its last renewal has come back (stopHeartbeat before release).
NoStrayHeartbeat == \A w \in Worker : pc[w] \in {"idle", "try"} => heart[w] = "off"

\* Every call of runExclusive comes back, whatever the other callers do.
CallsReturn == \A w \in Worker : pc[w] # "idle" ~> pc[w] = "idle"

\* A lease whose owner died or could not release it becomes free again.
OrphansExpire ==
  (owner # NoToken /\ \A w \in Worker : token[w] # owner) ~> Free(0)

\* The lease implements the abstract fenced resource: the fencing token is the
\* term, and the row's owner is its holder.
Abstract == INSTANCE FencedResource WITH
  term <- fence,
  holder <- IF owner = NoToken THEN 0 ELSE fence,
  lastCommit <- committed

ImplementsFencedResource == Abstract!Spec
=============================================================================
