----------------------- MODULE OperationalLeaseProofs -----------------------
(***************************************************************************)
(* Proofs about OperationalLease, for any number of callers, tokens, calls *)
(* and any lease duration.  The safety invariants are not inductive by     *)
(* themselves: LeaseInv adds who holds the row lock, which calls have a    *)
(* handle, and that no checkpoint is ahead of the row's fencing token.     *)
(***************************************************************************)
EXTENDS OperationalLease, TLAPS

\* The row lock belongs to the call inside a fenced transaction.
LockedByTx ==
  /\ \A w \in Worker : pc[w] = "tx" => lock = w
  /\ lock # NoWorker => pc[lock] = "tx"

\* A call has a handle from its acquisition until it ends.
HoldersHaveHandles ==
  \A w \in Worker : token[w] = NoToken <=> pc[w] \in {"idle", "try"}

\* Nothing was written under a fencing token the row has not reached.
CommitsReached ==
  /\ committed <= fence
  /\ owner # NoToken => fence # 0

LeaseInv ==
  /\ TypeOK
  /\ LockedByTx
  /\ HoldersHaveHandles
  /\ CommitsReached
  /\ FencedOwnership
  /\ HandlesDistinct
  /\ NoStrayHeartbeat

-----------------------------------------------------------------------------
(* Type correctness.                                                       *)

\* The initial state has the right types.
LEMMA InitTypeOK == Init => TypeOK
BY LeaseConstants DEF LeaseConstants, Init, TypeOK, PC

\* Every step keeps the types.
LEMMA NextTypeOK == TypeOK /\ [Next]_vars => TypeOK'
<1> SUFFICES ASSUME TypeOK, [Next]_vars PROVE TypeOK'
  OBVIOUS
<1> USE LeaseConstants DEF LeaseConstants, TypeOK, PC, row, loop, handle
<1>1. ASSUME NEW w \in Worker, Call(w) PROVE TypeOK'
  BY <1>1 DEF Call
<1>2. ASSUME NEW w \in Worker, Refuse(w) PROVE TypeOK'
  BY <1>2 DEF Refuse
<1>3. ASSUME NEW w \in Worker, Acquire(w) PROVE TypeOK'
  BY <1>3 DEF Acquire, FreshTokens
<1>4. ASSUME NEW w \in Worker, AcquireBusy(w) PROVE TypeOK'
  BY <1>4 DEF AcquireBusy
<1>5. ASSUME NEW w \in Worker, EnsureAsk(w) PROVE TypeOK'
  BY <1>5 DEF EnsureAsk
<1>6. ASSUME NEW w \in Worker, EnsureActive(w) PROVE TypeOK'
  BY <1>6 DEF EnsureActive, AfterEnsure, MayEnsure
<1>7. ASSUME NEW w \in Worker, EnsureFails(w) PROVE TypeOK'
  BY <1>7 DEF EnsureFails, Stopping
<1>8. ASSUME NEW w \in Worker, Effect(w) \/ FencedBegin(w) \/ FencedCommit(w)
      PROVE TypeOK'
  BY <1>8 DEF Effect, FencedBegin, FencedCommit
<1>9. ASSUME NEW w \in Worker, Throw(w) \/ Return(w) PROVE TypeOK'
  BY <1>9 DEF Throw, Return, Stopping
<1>10. ASSUME NEW w \in Worker, HeartbeatFire(w) PROVE TypeOK'
  BY <1>10 DEF HeartbeatFire
<1>11. ASSUME NEW w \in Worker, Renew(w) \/ RenewFails(w) PROVE TypeOK'
  BY <1>11 DEF Renew, RenewFails
<1>12. ASSUME NEW w \in Worker, Release(w) \/ ReleaseFails(w) PROVE TypeOK'
  BY <1>12 DEF Release, ReleaseFails
<1>13. ASSUME NEW w \in Worker, Crash(w) \/ Cancel(w) PROVE TypeOK'
  BY ZenonT(60), <1>13 DEF Crash, Cancel
<1>14. CASE Tick
  BY <1>14 DEF Tick
<1>15. CASE UNCHANGED vars
  BY <1>15 DEF vars
<1> QED
  BY <1>1, <1>2, <1>3, <1>4, <1>5, <1>6, <1>7, <1>8, <1>9, <1>10, <1>11, <1>12,
     <1>13, <1>14, <1>15 DEF Next, CallStep, BeatStep

\* Every variable of the lease keeps its type in every behaviour, whatever the
\* number of callers and tokens and the bounds on calls and retries.
THEOREM TypeCorrect == Spec => []TypeOK
<1>1. Init => TypeOK
  BY InitTypeOK
<1>2. TypeOK /\ [Next]_vars => TypeOK'
  BY NextTypeOK
<1> QED
  BY <1>1, <1>2, PTL DEF Spec

-----------------------------------------------------------------------------
(* The inductive invariant.                                                *)

\* The initial state satisfies it.
LEMMA InitInv == Init => LeaseInv
BY InitTypeOK, LeaseConstants
   DEF LeaseConstants, Init, LeaseInv, LockedByTx, HoldersHaveHandles,
       CommitsReached, FencedOwnership, HandlesDistinct, NoStrayHeartbeat

\* The lock, the handles, the heartbeats and the reach of the checkpoints.
LEMMA NextControl ==
  LeaseInv /\ [Next]_vars
    => LockedByTx' /\ HoldersHaveHandles' /\ CommitsReached' /\ NoStrayHeartbeat'
<1> SUFFICES ASSUME LeaseInv, [Next]_vars
             PROVE LockedByTx' /\ HoldersHaveHandles' /\ CommitsReached'
                   /\ NoStrayHeartbeat'
  OBVIOUS
<1> DEFINE Goal == LockedByTx /\ HoldersHaveHandles /\ CommitsReached
                   /\ NoStrayHeartbeat
<1> USE LeaseConstants
        DEF LeaseConstants, LeaseInv, TypeOK, PC, row, loop, handle, LockedByTx,
            HoldersHaveHandles, CommitsReached, NoStrayHeartbeat
<1>1. ASSUME NEW w \in Worker, Call(w) \/ Refuse(w) \/ AcquireBusy(w) PROVE Goal'
  BY <1>1 DEF Call, Refuse, AcquireBusy
<1>2. ASSUME NEW w \in Worker, Acquire(w) PROVE Goal'
  BY <1>2 DEF Acquire, FreshTokens
<1>3. ASSUME NEW w \in Worker, EnsureAsk(w) \/ EnsureActive(w) PROVE Goal'
  BY <1>3 DEF EnsureAsk, EnsureActive, AfterEnsure, MayEnsure
<1>4. ASSUME NEW w \in Worker, EnsureFails(w) PROVE Goal'
  BY <1>4 DEF EnsureFails, AfterEnsure, MayEnsure, Stopping
<1>5. ASSUME NEW w \in Worker, Effect(w) \/ FencedBegin(w) PROVE Goal'
  BY <1>5 DEF Effect, FencedBegin
<1>6. ASSUME NEW w \in Worker, FencedCommit(w) PROVE Goal'
  BY <1>6 DEF FencedCommit, FencedOwnership
<1>7. ASSUME NEW w \in Worker, Throw(w) \/ Return(w) PROVE Goal'
  BY <1>7 DEF Throw, Return, Stopping
<1>8. ASSUME NEW w \in Worker, HeartbeatFire(w) \/ Renew(w) \/ RenewFails(w)
      PROVE Goal'
  BY <1>8 DEF HeartbeatFire, Renew, RenewFails
<1>9. ASSUME NEW w \in Worker, Release(w) \/ ReleaseFails(w) PROVE Goal'
  BY <1>9 DEF Release, ReleaseFails
<1>10. ASSUME NEW w \in Worker, Crash(w) \/ Cancel(w) PROVE Goal'
  BY <1>10 DEF Crash, Cancel
<1>11. CASE Tick
  BY <1>11 DEF Tick
<1>12. CASE UNCHANGED vars
  BY <1>12 DEF vars
<1> QED
  BY <1>1, <1>2, <1>3, <1>4, <1>5, <1>6, <1>7, <1>8, <1>9, <1>10, <1>11, <1>12
     DEF Next, CallStep, BeatStep

\* The identity of the handles and the ownership of an open transaction: only
\* an acquisition, a release and the end of a call can disturb them.
LEMMA NextOwnership ==
  LeaseInv /\ [Next]_vars => FencedOwnership' /\ HandlesDistinct'
<1> SUFFICES ASSUME LeaseInv, [Next]_vars
             PROVE FencedOwnership' /\ HandlesDistinct'
  OBVIOUS
<1> USE LeaseConstants
        DEF LeaseConstants, LeaseInv, TypeOK, PC, row, loop, handle
<1>1. ASSUME NEW w \in Worker, Acquire(w)
      PROVE FencedOwnership' /\ HandlesDistinct'
  <2>1. PICK t \in FreshTokens : /\ owner' = t
                                 /\ token' = [token EXCEPT ![w] = t]
                                 /\ term' = [term EXCEPT ![w] = fence + 1]
                                 /\ fence' = fence + 1
    BY <1>1 DEF Acquire
  <2>2. t # NoToken /\ t \in Token /\ \A v \in Worker : token[v] # t
    BY <2>1 DEF FreshTokens
  <2>3. FencedOwnership'
    BY <1>1, <2>1 DEF Acquire, FencedOwnership, LockedByTx
  <2>4. HandlesDistinct'
    BY <2>1, <2>2 DEF HandlesDistinct
  <2> QED
    BY <2>3, <2>4
<1>2. ASSUME NEW w \in Worker, Release(w)
      PROVE FencedOwnership' /\ HandlesDistinct'
  <2>1. FencedOwnership'
    BY <1>2 DEF Release, FencedOwnership, LockedByTx
  <2>2. HandlesDistinct'
    BY <1>2 DEF Release, HandlesDistinct
  <2> QED
    BY <2>1, <2>2
<1>3. ASSUME NEW w \in Worker, ReleaseFails(w) \/ Crash(w)
      PROVE FencedOwnership' /\ HandlesDistinct'
  BY <1>3 DEF ReleaseFails, Crash, FencedOwnership, HandlesDistinct
<1>4. ASSUME NEW w \in Worker, FencedBegin(w)
      PROVE FencedOwnership' /\ HandlesDistinct'
  BY <1>4 DEF FencedBegin, Owned, FencedOwnership, HandlesDistinct
<1>5. ASSUME NEW w \in Worker,
             Call(w) \/ Refuse(w) \/ AcquireBusy(w) \/ EnsureAsk(w)
      PROVE FencedOwnership' /\ HandlesDistinct'
  BY <1>5 DEF Call, Refuse, AcquireBusy, EnsureAsk, FencedOwnership,
              HandlesDistinct
<1>6. ASSUME NEW w \in Worker,
             EnsureActive(w) \/ EnsureFails(w) \/ Effect(w) \/ FencedCommit(w)
      PROVE FencedOwnership' /\ HandlesDistinct'
  BY <1>6 DEF EnsureActive, EnsureFails, MayEnsure, AfterEnsure, Effect,
              FencedCommit, FencedOwnership, HandlesDistinct
<1>7. ASSUME NEW w \in Worker,
             Throw(w) \/ Return(w) \/ HeartbeatFire(w) \/ Renew(w)
               \/ RenewFails(w) \/ Cancel(w)
      PROVE FencedOwnership' /\ HandlesDistinct'
  BY <1>7 DEF Throw, Return, HeartbeatFire, Renew, RenewFails, Cancel,
              FencedOwnership, HandlesDistinct
<1>8. CASE Tick
  BY <1>8 DEF Tick, FencedOwnership, HandlesDistinct
<1>9. CASE UNCHANGED vars
  BY <1>9 DEF vars, FencedOwnership, HandlesDistinct
<1> QED
  BY <1>1, <1>2, <1>3, <1>4, <1>5, <1>6, <1>7, <1>8, <1>9
     DEF Next, CallStep, BeatStep

\* LeaseInv holds in every reachable state.
THEOREM LeaseInvariant == Spec => []LeaseInv
<1>1. Init => LeaseInv
  BY InitInv
<1>2. LeaseInv /\ [Next]_vars => LeaseInv'
  BY NextTypeOK, NextControl, NextOwnership DEF LeaseInv
<1> QED
  BY <1>1, <1>2, PTL DEF Spec

\* A lease cannot change hands while one of its fenced transactions is open.
THEOREM FencedOwnershipHolds == Spec => []FencedOwnership
BY LeaseInvariant, PTL DEF LeaseInv

\* Owner token and fencing token always identify the same acquisition, and no
\* two calls share one.
THEOREM HandlesDistinctHolds == Spec => []HandlesDistinct
BY LeaseInvariant, PTL DEF LeaseInv

\* No heartbeat survives the call it belongs to.
THEOREM NoStrayHeartbeatHolds == Spec => []NoStrayHeartbeat
BY LeaseInvariant, PTL DEF LeaseInv

-----------------------------------------------------------------------------
(* What a step may not do.                                                 *)

\* Checkpoints follow the order of the fencing tokens: a delayed former owner
\* never writes after a newer one (withFencedTransaction).
THEOREM CommitsStayInOrder == Spec => CommitsInOrder
<1>1. LeaseInv /\ [Next]_vars => committed' >= committed
  <2> SUFFICES ASSUME LeaseInv, [Next]_vars PROVE committed' >= committed
    OBVIOUS
  <2>1. ASSUME NEW w \in Worker, FencedCommit(w) PROVE committed' >= committed
    BY <2>1 DEF FencedCommit, LeaseInv, FencedOwnership, CommitsReached, TypeOK
  <2>2. CASE ~ \E w \in Worker : FencedCommit(w)
    <3>1. committed' = committed
      BY <2>2 DEF Next, CallStep, BeatStep, Call, Refuse, Acquire, AcquireBusy,
         EnsureAsk, EnsureActive, EnsureFails, Effect, FencedBegin, Throw, Return,
         HeartbeatFire, Renew, RenewFails, Release, ReleaseFails, Crash, Cancel,
         Tick, vars
    <3> QED
      BY <3>1 DEF LeaseInv, TypeOK
  <2> QED
    BY <2>1, <2>2
<1> QED
  BY <1>1, LeaseInvariant, PTL DEF Spec, CommitsInOrder

\* A live lease is given up only by its holder, and taken over only once it
\* has expired (acquire and release).
THEOREM LeaseNeverStolen == Spec => NeverStolen
<1> DEFINE Kept(t) == (owner = t /\ owner' # t) =>
      \/ owner' # NoToken /\ left <= 0
      \/ owner' = NoToken /\ \E w \in Worker : token[w] = t /\ pc'[w] = "idle"
<1>1. LeaseInv /\ [Next]_vars => \A t \in Token : Kept(t)
  <2> SUFFICES ASSUME LeaseInv, [Next]_vars, NEW t \in Token PROVE Kept(t)
    OBVIOUS
  <2>1. ASSUME NEW w \in Worker, Acquire(w) PROVE Kept(t)
    <3>1. PICK d \in 0..Stall : Free(d) /\ owner' \in FreshTokens
      BY <2>1 DEF Acquire
    <3> QED
      BY <3>1, LeaseConstants
         DEF LeaseConstants, Free, FreshTokens, LeaseInv, TypeOK
  <2>2. ASSUME NEW w \in Worker, Release(w) PROVE Kept(t)
    BY <2>2 DEF Release, LeaseInv, TypeOK
  <2>3. CASE ~ \E w \in Worker : Acquire(w) \/ Release(w)
    <3>1. owner' = owner
      BY <2>3 DEF Next, CallStep, BeatStep, Call, Refuse, AcquireBusy,
         EnsureAsk, EnsureActive, EnsureFails, Effect, FencedBegin, FencedCommit,
         Throw, Return, HeartbeatFire, Renew, RenewFails, ReleaseFails, Crash,
         Cancel, Tick, vars, row
    <3> QED
      BY <3>1
  <2> QED
    BY <2>1, <2>2, <2>3
<1> QED
  BY <1>1, LeaseInvariant, PTL DEF Spec, NeverStolen, Kept

\* A call that knows its lease is lost clears no further effect: the one step
\* to "cleared" looks at the flag again after the database has answered
\* (ensureActive and leaseLoss).
THEOREM SilentAfterLossHolds == Spec => SilentAfterLoss
<1> DEFINE Silent(w) ==
      (stop[w] = "lost" /\ pc[w] \notin {"cleared", "idle"}) => pc'[w] # "cleared"
<1>1. LeaseInv /\ [Next]_vars => \A w \in Worker : Silent(w)
  <2> SUFFICES ASSUME LeaseInv, [Next]_vars, NEW w \in Worker PROVE Silent(w)
    OBVIOUS
  <2>1. pc \in [Worker -> PC]
    BY DEF LeaseInv, TypeOK
  <2>2. ASSUME NEW v \in Worker, EnsureActive(v) PROVE Silent(w)
    BY <2>1, <2>2 DEF EnsureActive
  <2>3. ASSUME NEW v \in Worker, ~ EnsureActive(v), CallStep(v) PROVE Silent(w)
    BY <2>1, <2>3 DEF CallStep, Refuse, Acquire, AcquireBusy, EnsureAsk, EnsureFails,
       Effect, FencedBegin, FencedCommit, Release, ReleaseFails, PC
  <2>4. ASSUME NEW v \in Worker, \/ BeatStep(v) \/ HeartbeatFire(v) \/ Call(v) \/ Throw(v)
                                 \/ Return(v) \/ Crash(v) \/ Cancel(v)
        PROVE  Silent(w)
    BY <2>1, <2>4 DEF BeatStep, Renew, RenewFails, HeartbeatFire, Call, Throw, Return,
       Crash, Cancel
  <2>5. CASE Tick \/ UNCHANGED vars
    BY <2>5 DEF Tick, vars
  <2> QED
    BY <2>2, <2>3, <2>4, <2>5 DEF Next
<1> QED
  BY <1>1, LeaseInvariant, PTL DEF Spec, SilentAfterLoss, Silent

-----------------------------------------------------------------------------
(* Refinement.                                                             *)

\* The lease implements the abstract fenced resource: an acquisition grants a
\* fresh term, a release of the current owner withdraws it, a fenced commit
\* writes under it, and every other step stutters.
THEOREM LeaseRefines == Spec => ImplementsFencedResource
<1> USE DEF Abstract!fvars, Abstract!Next
<1>1. Init => Abstract!Init
  BY DEF Init, Abstract!Init
<1>2. LeaseInv /\ [Next]_vars => [Abstract!Next]_Abstract!fvars
  <2> SUFFICES ASSUME LeaseInv, [Next]_vars
               PROVE [Abstract!Next]_Abstract!fvars
    OBVIOUS
  <2>1. ASSUME NEW w \in Worker, Acquire(w) PROVE Abstract!Grant
    <3>1. owner' # NoToken /\ fence' = fence + 1 /\ committed' = committed
      BY <2>1, LeaseConstants DEF Acquire, FreshTokens, LeaseConstants
    <3> QED
      BY <3>1 DEF Abstract!Grant
  <2>2. ASSUME NEW w \in Worker, Release(w)
        PROVE Abstract!Withdraw \/ UNCHANGED Abstract!fvars
    <3>1. CASE owner = token[w] /\ fence = term[w]
      <4>1. token[w] # NoToken
        BY <2>2 DEF Release, LeaseInv, HoldersHaveHandles
      <4>2. owner' = NoToken /\ fence' = fence /\ committed' = committed
        BY <2>2, <3>1 DEF Release
      <4> QED
        BY <3>1, <4>1, <4>2 DEF Abstract!Withdraw, LeaseInv, CommitsReached
    <3>2. CASE ~(owner = token[w] /\ fence = term[w])
      BY <2>2, <3>2 DEF Release
    <3> QED
      BY <3>1, <3>2
  <2>3. ASSUME NEW w \in Worker, FencedCommit(w) PROVE Abstract!Commit
    <3>1. owner = token[w] /\ fence = term[w] /\ token[w] # NoToken
      BY <2>3 DEF FencedCommit, LeaseInv, FencedOwnership, HoldersHaveHandles
    <3> QED
      BY <2>3, <3>1 DEF FencedCommit, Abstract!Commit, LeaseInv, CommitsReached, row
  <2>4. CASE ~ \E w \in Worker : Acquire(w) \/ Release(w) \/ FencedCommit(w)
    <3>1. UNCHANGED <<owner, fence, committed>>
      BY <2>4 DEF Next, CallStep, BeatStep, Call, Refuse, AcquireBusy,
         EnsureAsk, EnsureActive, EnsureFails, Effect, FencedBegin,
         Throw, Return, HeartbeatFire, Renew, RenewFails, ReleaseFails, Crash,
         Cancel, Tick, vars, row
    <3> QED
      BY <3>1
  <2> QED
    BY <2>1, <2>2, <2>3, <2>4
<1> QED
  BY <1>1, <1>2, LeaseInvariant, PTL
     DEF Spec, ImplementsFencedResource, Abstract!Spec
=============================================================================
