---------------------------- MODULE MCDeliveries ----------------------------
(* Instances for TLC of two programs that deliver to a webhook what has been *)
(* written down for it, each by itself: the notifications of Store           *)
(* Onboarding, and an order that is forwarded.                               *)
EXTENDS NotificationOutbox

CONSTANTS
  Workers, Attempts, MaxCalls  \* of OrderForwarding, with its bound

VARIABLES
  program,  \* the one that runs
  row, current, publisher, job, attempts, worker, received, strayed, faults

Forwarding ==
  INSTANCE OrderForwarding WITH delivery <- row, tries <- attempts, MaxFaults <- MaxCalls

forwardingVars == <<row, current, publisher, job, attempts, worker, received, strayed, faults>>

\* All events belong to one digest.
OneDigest == [e \in Event |-> 1]

\* An order whose application forwards nothing.
NoDelivery ==
  /\ row = [status |-> "none", payload |-> FALSE] /\ current = FALSE /\ publisher = "done"
  /\ job = "absent" /\ attempts = 0
  /\ worker = [w \in Workers |-> Forwarding!Idle]
  /\ received = FALSE /\ strayed = FALSE /\ faults = MaxCalls

EitherInit ==
  /\ Init
  /\ \/ program = "outbox" /\ NoDelivery
     \/ program = "forwarding" /\ Forwarding!Init

EitherNext ==
  \/ program = "outbox" /\ Next /\ UNCHANGED <<program, forwardingVars>>
  \/ program = "forwarding" /\ Forwarding!Next /\ UNCHANGED <<program, vars>>

\* The program that does not run has nothing to do that is owed fairness.
EitherSpec ==
  /\ EitherInit /\ [][EitherNext]_<<program, vars, forwardingVars>>
  /\ PollFairness /\ Forwarding!Fairness

\* What is persisted ends: OrderForwarding.
ForwardingEnds == Forwarding!ForwardingEnds
=============================================================================
