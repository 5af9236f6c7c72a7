------------------------------- MODULE GoLive -------------------------------
(***************************************************************************)
(* Taking one unit of Store Onboarding live (StoreOnboardingService): an   *)
(* admin asks for it, DiDi is told to open the store in a transaction that *)
(* holds the switch, the request and the brand, and a cron job recovers    *)
(* what was left under way.  It asks DiDi and never tells it again.        *)
(*                                                                         *)
(* Transactions that wait for nobody are one action.  Two wait for DiDi    *)
(* while they hold their locks: the one that posts and the one that        *)
(* verifies.  What was posted may be applied by DiDi at any later time.    *)
(***************************************************************************)
EXTENDS Integers

CONSTANTS
  Request,    \* the goLive requests that may be handled at once
  Recovery,   \* the processes that run recoverGoingOnlineAttempts
  Attempt,    \* bound: the ids of the attempts of the unit
  NoAttempt,  \* neither a request nor a recovery has one
  Faults      \* what may go wrong

\* A process dies or loses its transaction; a request takes longer than 90 s.
Fault == {"death", "stall"}

ASSUME GoLiveConstants ==
  /\ NoAttempt \notin Attempt
  /\ Faults \subseteq Fault

VARIABLES
  gate,       \* the switch (globalEnabled)
  emergency,  \* an emergency of the brand is live
  linked,     \* the brand has application credentials
  stage,      \* of the unit
  attempt,    \* status of each attempt, "none": there is no row
  aged, slow, \* the attempts begun 90 seconds ago, and those whose request lived
  pc, mine,   \* what a request is doing, and its attempt
  at, target, \* what a recovery is doing, and with which attempt
  open,       \* DiDi says that the store is open (external)
  wire,       \* the posts that DiDi may still apply (external)
  doubt       \* the attempts posted without a final answer since

world == <<gate, emergency, linked>>
unit  == <<stage, attempt, aged, slow>>
didi  == <<open, wire>>
vars  == <<world, unit, pc, mine, at, target, didi, doubt>>

Stage  == {"rtbo", "awaiting_go_live", "going_online", "online", "online_failed"}
Status == {"none", "running", "done", "failed"}

TypeOK ==
  /\ gate \in BOOLEAN /\ emergency \in BOOLEAN /\ linked \in BOOLEAN
  /\ stage \in Stage
  /\ attempt \in [Attempt -> Status]
  /\ aged \subseteq Attempt /\ slow \subseteq aged
  /\ pc \in [Request -> {"idle", "created", "prepared", "posting", "confirmed", "finishing"}]
  /\ mine \in [Request -> Attempt \cup {NoAttempt}]
  /\ \A r \in Request : pc[r] = "idle" <=> mine[r] = NoAttempt
  /\ at \in [Recovery -> {"idle", "listed", "verifying", "offline"}]
  /\ target \in [Recovery -> Attempt \cup {NoAttempt}]
  /\ \A p \in Recovery : at[p] = "idle" <=> target[p] = NoAttempt
  /\ open \in BOOLEAN
  /\ wire \subseteq Attempt /\ doubt \subseteq Attempt

Init ==
  /\ gate = TRUE /\ emergency = FALSE /\ linked = TRUE
  /\ stage = "rtbo"
  /\ attempt = [a \in Attempt |-> "none"]
  /\ aged = {} /\ slow = {}
  /\ pc = [r \in Request |-> "idle"] /\ mine = [r \in Request |-> NoAttempt]
  /\ at = [p \in Recovery |-> "idle"] /\ target = [p \in Recovery |-> NoAttempt]
  /\ open = FALSE
  /\ wire = {} /\ doubt = {}

-----------------------------------------------------------------------------
(* Locks, and what a transaction does to the unit.                         *)

Posting   == \E r \in Request : pc[r] \in {"posting", "confirmed"}
Verifying == \E p \in Recovery : at[p] = "verifying"

\* The row of the onboarding request is free, and so are the brand's row and the
\* switch for those who change them.
Unlocked == ~Posting /\ ~Verifying

\* The attempt is still to be settled.
Running(a) == attempt[a] = "running" /\ stage = "going_online"

Settle(a, status, to) ==
  /\ attempt' = [attempt EXCEPT ![a] = status]
  /\ stage' = to
  /\ UNCHANGED <<aged, slow>>

Go(r, to) == pc' = [pc EXCEPT ![r] = to]

\* The request is over; so is the recovery's work on an attempt.
Leave(r) == Go(r, "idle") /\ mine' = [mine EXCEPT ![r] = NoAttempt]
Return(p) ==
  /\ at' = [at EXCEPT ![p] = "idle"]
  /\ target' = [target EXCEPT ![p] = NoAttempt]

-----------------------------------------------------------------------------
(* goLive.                                                                 *)

\* The stages a unit can go live from.
Ready == {"rtbo", "awaiting_go_live", "online_failed"}

\* The first transaction: a new attempt, and the unit is going online.
Create(r) ==
  /\ pc[r] = "idle"
  /\ gate /\ Unlocked
  /\ stage \in Ready
  /\ \E a \in Attempt :
       /\ attempt[a] = "none"
       /\ Settle(a, "running", "going_online")
       /\ mine' = [mine EXCEPT ![r] = a]
  /\ Go(r, "created")
  /\ UNCHANGED <<world, at, target, didi, doubt>>

\* Credentials and a token, without any lock.
Prepare(r) ==
  /\ pc[r] = "created"
  /\ \/ linked /\ Go(r, "prepared")
     \/ Go(r, "finishing")
  /\ UNCHANGED <<world, unit, mine, at, target, didi, doubt>>

\* The second transaction: under all locks the permit is checked and DiDi is told
\* to open the store.
Post(r) ==
  /\ pc[r] = "prepared"
  /\ gate /\ Unlocked
  /\ Running(mine[r])
  /\ ~emergency /\ linked
  /\ wire' = wire \cup {mine[r]}
  /\ doubt' = doubt \cup {mine[r]}
  /\ Go(r, "posting")
  /\ UNCHANGED <<world, unit, mine, at, target, open>>

\* There is no permit, or the transaction fails before the post.  When the switch
\* is off the attempt is paused.
PostFails(r) ==
  /\ pc[r] = "prepared"
  /\ \/ Go(r, "finishing") /\ UNCHANGED mine
     \/ ~gate /\ Leave(r)
  /\ UNCHANGED <<world, unit, at, target, didi, doubt>>

\* DiDi has accepted the post, and says that the store is open.
Confirm(r) ==
  LET a == mine[r]
  IN /\ pc[r] = "posting"
     /\ a \in wire \/ open
     /\ open' = TRUE
     /\ wire' = wire \ {a} /\ doubt' = doubt \ {a}
     /\ Go(r, "confirmed")
     /\ UNCHANGED <<world, unit, mine, at, target>>

\* DiDi has rejected the post, or accepted it and says that the store is closed.
Deny(r) ==
  LET a == mine[r]
  IN /\ pc[r] = "posting"
     /\ \/ a \in wire /\ wire' = wire \ {a}
        \/ ~open /\ UNCHANGED wire
     /\ doubt' = doubt \ {a}
     /\ Go(r, "finishing")
     /\ UNCHANGED <<world, unit, mine, at, target, open>>

\* Mutant: an ambiguous answer is a failure.
AmbiguousFails(r) ==
  /\ pc[r] = "posting"
  /\ Go(r, "finishing")
  /\ UNCHANGED <<world, unit, mine, at, target, didi, doubt>>

\* StoreOnboardingAmbiguousGoLiveError: the attempt is left to the recovery.
Ambiguous(r) ==
  /\ pc[r] = "posting"
  /\ Leave(r)
  /\ UNCHANGED <<world, unit, at, target, didi, doubt>>

\* The second transaction commits.
Record(r) ==
  /\ pc[r] = "confirmed"
  /\ Settle(mine[r], "done", "online")
  /\ Leave(r)
  /\ UNCHANGED <<world, at, target, didi, doubt>>

\* finishFailedGoLive, unless the switch is off or the attempt is settled.
FinishFailed(r) ==
  /\ pc[r] = "finishing"
  /\ gate => Unlocked
  /\ IF gate /\ Running(mine[r]) THEN Settle(mine[r], "failed", "online_failed")
     ELSE UNCHANGED unit
  /\ Leave(r)
  /\ UNCHANGED <<world, at, target, didi, doubt>>

\* The request dies or its transaction is lost, from wherever it was.
Die(r) ==
  /\ "death" \in Faults
  /\ pc[r] # "idle"
  /\ Leave(r)
  /\ UNCHANGED <<world, unit, at, target, didi, doubt>>

-----------------------------------------------------------------------------
(* recoverGoingOnlineAttempts.                                             *)

\* An attempt of 90 seconds ago is found to be running.
List(p) ==
  /\ at[p] = "idle"
  /\ gate
  /\ \E a \in aged :
       /\ Running(a)
       /\ target' = [target EXCEPT ![p] = a]
  /\ at' = [at EXCEPT ![p] = "listed"]
  /\ UNCHANGED <<world, unit, pc, mine, didi, doubt>>

\* The first transaction asks DiDi, or fails the attempt for want of credentials,
\* or finds it settled or the switch off.
Verify(p) ==
  LET a == target[p]
  IN /\ at[p] = "listed"
     /\ gate => Unlocked
     /\ \/ /\ gate /\ Running(a) /\ linked
           /\ at' = [at EXCEPT ![p] = "verifying"]
           /\ UNCHANGED <<unit, target>>
        \/ /\ gate /\ Running(a) /\ ~linked
           /\ Settle(a, "failed", "online_failed")
           /\ Return(p)
        \/ /\ ~(gate /\ Running(a))
           /\ Return(p)
           /\ UNCHANGED unit
     /\ UNCHANGED <<world, pc, mine, didi, doubt>>

\* DiDi says that the store is open.
VerifyOnline(p) ==
  LET a == target[p]
  IN /\ at[p] = "verifying"
     /\ open
     /\ Settle(a, "done", "online")
     /\ doubt' = doubt \ {a}
     /\ Return(p)
     /\ UNCHANGED <<world, pc, mine, didi>>

\* Mutant: a store that is closed is asked for again.
VerifyForEver(p) ==
  /\ at[p] = "verifying"
  /\ ~open
  /\ Return(p)
  /\ UNCHANGED <<world, unit, pc, mine, didi, doubt>>

\* DiDi says that it is closed: the transaction is given up, and another follows.
VerifyOffline(p) ==
  /\ at[p] = "verifying"
  /\ ~open
  /\ doubt' = doubt \ {target[p]}
  /\ at' = [at EXCEPT ![p] = "offline"]
  /\ UNCHANGED <<world, unit, pc, mine, target, didi>>

\* DiDi does not answer, or the transaction fails: later.
VerifyPends(p) ==
  /\ at[p] = "verifying"
  /\ Return(p)
  /\ UNCHANGED <<world, unit, pc, mine, didi, doubt>>

\* The second transaction, unless the switch is off or the attempt is settled.
FailOffline(p) ==
  LET a == target[p]
  IN /\ at[p] = "offline"
     /\ gate => Unlocked
     /\ IF gate /\ Running(a) THEN Settle(a, "failed", "online_failed")
        ELSE UNCHANGED unit
     /\ Return(p)
     /\ UNCHANGED <<world, pc, mine, didi, doubt>>

RecoveryDies(p) ==
  /\ "death" \in Faults
  /\ at[p] # "idle"
  /\ Return(p)
  /\ UNCHANGED <<world, unit, pc, mine, didi, doubt>>

-----------------------------------------------------------------------------
(* Everybody else.                                                         *)

\* transitionUnit: back to the stage a unit goes live from.
TransitionUnit ==
  /\ gate /\ Unlocked
  /\ stage \in {"rtbo", "online_failed"}
  /\ stage' = "awaiting_go_live"
  /\ UNCHANGED <<world, attempt, aged, slow, pc, mine, at, target, didi, doubt>>

\* reconcileOnline: some other opener says that the store is online.
ReconcileOnline ==
  /\ gate /\ Unlocked
  /\ stage \in {"awaiting_go_live", "online_failed"}
  /\ \E a \in Attempt : attempt[a] = "none" /\ Settle(a, "done", "online")
  /\ UNCHANGED <<world, pc, mine, at, target, didi, doubt>>

\* Mutant: the exclusive lock is not taken.
TurnSwitchUnlocked ==
  /\ gate' = ~gate
  /\ UNCHANGED <<emergency, linked, unit, pc, mine, at, target, didi, doubt>>

\* updateControl waits for the transactions that hold the switch.
TurnSwitch ==
  /\ Unlocked
  /\ gate' = ~gate
  /\ UNCHANGED <<emergency, linked, unit, pc, mine, at, target, didi, doubt>>

\* An emergency is created under the brand's exclusive lock, and ends some day.
TurnEmergency ==
  /\ ~emergency => ~Posting
  /\ emergency' = ~emergency
  /\ UNCHANGED <<gate, linked, unit, pc, mine, at, target, didi, doubt>>

\* Credentials are given to the brand or taken from it, whose row is locked.
LinkApplication ==
  /\ Unlocked
  /\ linked' = ~linked
  /\ UNCHANGED <<gate, emergency, unit, pc, mine, at, target, didi, doubt>>

\* A request takes less than 90 seconds, unless it is very slow.
Ages(a) ==
  /\ attempt[a] = "running" /\ a \notin aged
  /\ LET alive == {r \in Request : mine[r] = a}
     IN /\ alive # {} => "stall" \in Faults
        /\ slow' = IF alive # {} THEN slow \cup {a} ELSE slow
  /\ aged' = aged \cup {a}
  /\ UNCHANGED <<world, stage, attempt, pc, mine, at, target, didi, doubt>>

\* DiDi applies a post, late perhaps.
Apply(a) ==
  /\ a \in wire
  /\ wire' = wire \ {a}
  /\ open' = TRUE
  /\ UNCHANGED <<world, unit, pc, mine, at, target, doubt>>

\* Others open the store, or close it.
OpenOrClose ==
  /\ open' = ~open
  /\ UNCHANGED <<world, unit, pc, mine, at, target, wire, doubt>>

-----------------------------------------------------------------------------

Answer(r) == Confirm(r) \/ Deny(r) \/ Ambiguous(r)
Work(r) == Prepare(r) \/ Post(r) \/ PostFails(r) \/ Answer(r) \/ Record(r) \/ FinishFailed(r)
Verdict(p) == VerifyOnline(p) \/ VerifyOffline(p)
Recover(p) == List(p) \/ Verify(p) \/ Verdict(p) \/ VerifyPends(p) \/ FailOffline(p)

Next ==
  \/ \E r \in Request : Create(r) \/ Work(r) \/ Die(r)
  \/ \E p \in Recovery : Recover(p) \/ RecoveryDies(p)
  \/ \E a \in Attempt : Ages(a) \/ Apply(a)
  \/ TransitionUnit \/ ReconcileOnline \/ TurnSwitch \/ TurnEmergency
  \/ LinkApplication \/ OpenOrClose

Spec == Init /\ [][Next]_vars

\* Requests go on and the cron job runs for ever.  A recovery may die, be locked
\* out and get no answer from DiDi often, but not always at the same point.
Fairness ==
  /\ \A r \in Request : WF_vars(Work(r))
  /\ \A a \in Attempt : WF_vars(Ages(a))
  /\ \A p \in Recovery :
       /\ WF_vars(Recover(p)) /\ SF_vars(Verify(p))
       /\ SF_vars(Verdict(p)) /\ SF_vars(FailOffline(p))

FairSpec == Spec /\ Fairness

-----------------------------------------------------------------------------
(* What Go-Live promises.                                                  *)

\* A unit is going online exactly while one of its attempts is running, and there
\* is one at most: requests, the recovery and other openers never cross.
OneAttempt ==
  /\ stage = "going_online" <=> \E a \in Attempt : attempt[a] = "running"
  /\ \A a, b \in Attempt : attempt[a] = "running" /\ attempt[b] = "running" => a = b

\* goLive: while DiDi is being told to open the store, the switch is on, no
\* emergency is live, the attempt is not settled, and nobody else tells it.
Permitted ==
  \A r \in Request : pc[r] \in {"posting", "confirmed"} =>
    /\ gate /\ ~emergency /\ Running(mine[r])
    /\ \A s \in Request \ {r} : pc[s] \notin {"posting", "confirmed"}

\* assertEnabledInTransaction: while the switch is off nothing happens to the
\* unit and its attempts, whatever was under way when it was turned.
FrozenWhenOff == [][~gate => UNCHANGED <<stage, attempt>>]_vars

\* A settled attempt stays as it is and a unit that is online stays online, though
\* a slow request or an outdated verdict of a recovery comes back to it.
SettledForGood ==
  [][/\ \A a \in Attempt : attempt[a] \in {"done", "failed"} => attempt'[a] = attempt[a]
     /\ stage = "online" => stage' = "online"]_vars

\* StoreOnboardingAmbiguousGoLiveError: an attempt that DiDi may have taken is not
\* failed before DiDi was asked since, unless there are no credentials left to ask
\* with or its request took longer than the recovery waits.
NoFailureInDoubt ==
  [][\A a \in doubt \ slow :
       attempt[a] = "running" /\ attempt'[a] = "failed" => ~linked]_vars

\* recoverGoingOnlineAttempts: a running attempt is settled in the end, while the
\* switch is on.
Settled ==
  \A a \in Attempt :
    (gate /\ attempt[a] = "running") ~> (~gate \/ attempt[a] # "running")
=============================================================================
