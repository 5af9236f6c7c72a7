------------------------- MODULE NotificationOutbox -------------------------
(***************************************************************************)
(* The notifications of Store Onboarding: domain events are written to an  *)
(* outbox, a dispatcher turns each into a delivery and posts the due ones  *)
(* of a group to a webhook in one message, under an Idempotency-Key.       *)
(*                                                                         *)
(* A dispatcher claims deliveries in one transaction and posts them in a   *)
(* second one, which holds the switch; in between it may die or be slow.   *)
(* The transaction that expands the outbox takes an event from pending to  *)
(* its end, so that nobody ever sees it in processing.                     *)
(***************************************************************************)
EXTENDS Integers, FiniteSets

CONSTANTS
  Event,       \* the domain events, numbered in the order of their deliveries
  group,       \* the group of each: profile, request and digest window
  Long,        \* those whose text leaves no room for another
  Dispatcher,  \* the processes that poll
  MaxBundle,   \* DELIVERY_GROUP_MAX_EVENTS
  MaxAttempts, \* MAX_DELIVERY_ATTEMPTS
  Faults       \* what may go wrong

\* A dispatcher dies; a claim outlives its lease though its dispatcher lives.
Fault == {"death", "stall"}

ASSUME OutboxConstants ==
  /\ Event \subseteq Nat /\ IsFiniteSet(Event)
  /\ Long \subseteq Event
  /\ MaxBundle \in Nat \ {0}
  /\ MaxAttempts \in Nat \ {0}
  /\ Faults \subseteq Fault

VARIABLES
  on,       \* globalEnabled and notificationsEnabled
  profile,  \* the latest revision of the profile is enabled
  outbox,   \* status of the outbox event
  del,      \* status of its delivery
  due,      \* next_attempt_at of the delivery has passed
  bundle,   \* the deliveries its group key was frozen with, {}: not frozen
  tries,    \* attempts of the delivery, as far as they are told apart
  pc, held, \* what a dispatcher is doing, and with which deliveries
  taken     \* what the receiver has taken: <<key, deliveries>>

delivery == <<del, due, bundle, tries>>
vars     == <<on, profile, outbox, delivery, pc, held, taken>>

OutboxStatus   == {"none", "pending", "dispatched", "suppressed", "failed"}
DeliveryStatus == {"none", "pending", "processing", "retry_wait", "delivered",
                   "failed", "suppressed"}

TypeOK ==
  /\ on \in BOOLEAN /\ profile \in BOOLEAN
  /\ outbox \in [Event -> OutboxStatus]
  /\ del \in [Event -> DeliveryStatus]
  /\ due \in [Event -> BOOLEAN]
  /\ bundle \in [Event -> SUBSET Event]
  /\ tries \in [Event -> 0..MaxAttempts]
  /\ pc \in [Dispatcher -> {"idle", "claimed", "posting"}]
  /\ held \in [Dispatcher -> SUBSET Event]

Init ==
  /\ on = TRUE /\ profile = TRUE
  /\ outbox = [e \in Event |-> "none"]
  /\ del = [e \in Event |-> "none"]
  /\ due = [e \in Event |-> FALSE]
  /\ bundle = [e \in Event |-> {}]
  /\ tries = [e \in Event |-> 0]
  /\ pc = [d \in Dispatcher |-> "idle"]
  /\ held = [d \in Dispatcher |-> {}]
  /\ taken = {}

-----------------------------------------------------------------------------
(* The switch, the profile and the events.                                 *)

Waiting == {"pending", "retry_wait"}
Live    == Waiting \cup {"processing"}

\* The shared lock is held while a message is posted.
Unlocked == \A d \in Dispatcher : pc[d] # "posting"

\* Mutant: the exclusive lock is not taken.
TurnOffUnlocked ==
  /\ on' = FALSE
  /\ outbox' = [e \in Event |-> IF outbox[e] = "pending" THEN "suppressed" ELSE outbox[e]]
  /\ del' = [e \in Event |-> IF del[e] \in Live THEN "suppressed" ELSE del[e]]
  /\ UNCHANGED <<profile, due, bundle, tries, pc, held, taken>>

\* updateControl: OFF suppresses all that is under way.
TurnOff ==
  /\ Unlocked
  /\ on' = FALSE
  /\ outbox' = [e \in Event |-> IF outbox[e] = "pending" THEN "suppressed" ELSE outbox[e]]
  /\ del' = [e \in Event |-> IF del[e] \in Live THEN "suppressed" ELSE del[e]]
  /\ UNCHANGED <<profile, due, bundle, tries, pc, held, taken>>

TurnOn ==
  /\ Unlocked
  /\ on' = TRUE
  /\ UNCHANGED <<profile, outbox, delivery, pc, held, taken>>

\* A revision of the profile is activated.
PutNotificationProfile ==
  /\ Unlocked
  /\ profile' = ~profile
  /\ UNCHANGED <<on, outbox, delivery, pc, held, taken>>

\* Within the transaction of the domain change, and only while the switch is on.
EnqueueDomainEvent(e) ==
  /\ on
  /\ outbox[e] = "none"
  /\ outbox' = [outbox EXCEPT ![e] = "pending"]
  /\ UNCHANGED <<on, profile, delivery, pc, held, taken>>

\* How expandOneEvent ends: with a delivery; without, as no enabled profile
\* applies; without, as it fails or finds no template.
Outcome == {"dispatched", "suppressed", "failed"}

\* The oldest pending events are expanded, in one transaction.
ExpandOutboxBatch ==
  /\ on
  /\ \E batch \in SUBSET {e \in Event : outbox[e] = "pending"} :
       /\ batch # {}
       /\ \E out \in [batch -> Outcome] :
            LET born == {e \in batch : out[e] = "dispatched" /\ del[e] = "none"}
            IN /\ outbox' = [e \in Event |-> IF e \in batch THEN out[e] ELSE outbox[e]]
               /\ del' = [e \in Event |-> IF e \in born THEN "pending" ELSE del[e]]
  /\ UNCHANGED <<on, profile, due, bundle, tries, pc, held, taken>>

-----------------------------------------------------------------------------
(* Group keys.                                                             *)

\* Mutant: the key of each attempt is another one.
KeyOfAttempt(e) == <<group[e], bundle[e], tries[e]>>

\* The group key, and with it the Idempotency-Key, of a delivery.
Key(e) == <<group[e], bundle[e]>>

\* freezeStoreOnboardingDeliveryGroup
Freeze(e, B) == IF bundle[e] = {} THEN B ELSE bundle[e]

\* One message has room for B; B are the first of K that fit.
Fits(B) == Cardinality(B) <= MaxBundle /\ (B \cap Long # {} => Cardinality(B) = 1)
Selects(B, K) ==
  /\ B # {} /\ B \subseteq K /\ Fits(B)
  /\ \A e \in B, f \in K \ B : e < f
  /\ \/ B = K
     \/ \E n \in K \ B : (\A f \in K \ B : n <= f) /\ ~Fits(B \cup {n})

\* next_attempt_at passes: it is the same for all of a group or bundle that wait.
ComesDue(e) ==
  LET mates == {f \in Event : Key(f) = Key(e) /\ del[f] \in Waiting}
  IN /\ e \in mates /\ ~due[e]
     /\ due' = [f \in Event |-> due[f] \/ f \in mates]
     /\ UNCHANGED <<on, profile, outbox, del, bundle, tries, pc, held, taken>>

-----------------------------------------------------------------------------
(* deliverDueBatch.                                                        *)

\* The first transaction: the due deliveries of e's group are claimed and their
\* group key frozen.  It does not look at the switch.
ClaimDue(d, e) ==
  LET K == {f \in Event : Key(f) = Key(e) /\ del[f] \in Waiting /\ due[f]}
  IN /\ pc[d] = "idle"
     /\ e \in K
     /\ \E B \in SUBSET K :
          /\ Selects(B, K)
          /\ del' = [f \in Event |-> IF f \in B THEN "processing" ELSE del[f]]
          /\ bundle' = [f \in Event |-> IF f \in B THEN Freeze(e, B) ELSE bundle[f]]
          /\ tries' = [f \in Event |->
               IF f \in B /\ tries[f] < MaxAttempts THEN tries[f] + 1 ELSE tries[f]]
          /\ held' = [held EXCEPT ![d] = B]
     /\ pc' = [pc EXCEPT ![d] = "claimed"]
     /\ UNCHANGED <<on, profile, outbox, due, taken>>

\* The deliveries a dispatcher claimed that are still to be posted.
Active(d) == {e \in held[d] : del[e] = "processing"}

Done(d) ==
  /\ pc' = [pc EXCEPT ![d] = "idle"]
  /\ held' = [held EXCEPT ![d] = {}]

\* The second transaction begins to post, and keeps the shared lock.
Begin(d) ==
  /\ pc[d] = "claimed"
  /\ on /\ profile
  /\ Active(d) # {}
  /\ pc' = [pc EXCEPT ![d] = "posting"]
  /\ held' = [held EXCEPT ![d] = Active(d)]
  /\ UNCHANGED <<on, profile, outbox, delivery, taken>>

\* It finds nothing to post, or the switch or the profile disabled.
Suppress(d) ==
  /\ pc[d] = "claimed"
  /\ ~on \/ ~profile \/ Active(d) = {}
  /\ del' = [e \in Event |-> IF e \in Active(d) THEN "suppressed" ELSE del[e]]
  /\ Done(d)
  /\ UNCHANGED <<on, profile, outbox, due, bundle, tries, taken>>

\* The receiver takes a message unless it knows its key.
Receive(d) ==
  \E first \in held[d] :
    /\ \A e \in held[d] : first <= e
    /\ taken' = IF \E m \in taken : m[1] = Key(first) THEN taken
                ELSE taken \cup {<<Key(first), held[d]>>}

\* The receiver may have taken a message that was not answered well.
MayReceive(d) == Receive(d) \/ UNCHANGED taken

\* A 2xx answer.
Deliver(d) ==
  /\ pc[d] = "posting"
  /\ Receive(d)
  /\ del' = [e \in Event |-> IF e \in Active(d) THEN "delivered" ELSE del[e]]
  /\ Done(d)
  /\ UNCHANGED <<on, profile, outbox, due, bundle, tries>>

\* attemptCount of the message: the greatest of its deliveries.
LastTry(d) == \E e \in held[d] : tries[e] >= MaxAttempts

\* Mutant: the attempts are not counted.
RetryForEver(d) ==
  /\ pc[d] = "posting"
  /\ MayReceive(d)
  /\ del' = [e \in Event |-> IF e \in Active(d) THEN "retry_wait" ELSE del[e]]
  /\ due' = [e \in Event |-> due[e] /\ e \notin Active(d)]
  /\ Done(d)
  /\ UNCHANGED <<on, profile, outbox, bundle, tries>>

\* No answer, or one that allows to try again later.
RetryLater(d) ==
  /\ pc[d] = "posting"
  /\ ~LastTry(d)
  /\ MayReceive(d)
  /\ del' = [e \in Event |-> IF e \in Active(d) THEN "retry_wait" ELSE del[e]]
  /\ due' = [e \in Event |-> due[e] /\ e \notin Active(d)]
  /\ Done(d)
  /\ UNCHANGED <<on, profile, outbox, bundle, tries>>

\* A permanent error, or the last attempt.
GiveUp(d) ==
  /\ pc[d] = "posting"
  /\ MayReceive(d)
  /\ del' = [e \in Event |-> IF e \in Active(d) THEN "failed" ELSE del[e]]
  /\ Done(d)
  /\ UNCHANGED <<on, profile, outbox, due, bundle, tries>>

\* The dispatcher dies or its transaction fails: the deliveries stay claimed,
\* though the receiver may have taken them.
Die(d) ==
  /\ "death" \in Faults
  /\ \/ pc[d] = "claimed" /\ UNCHANGED taken
     \/ pc[d] = "posting" /\ MayReceive(d)
  /\ Done(d)
  /\ UNCHANGED <<on, profile, outbox, delivery>>

\* Mutant: the deliveries of a bundle are released one by one.
ReleaseOne(e) ==
  /\ on
  /\ del[e] = "processing"
  /\ "stall" \in Faults \/ \A d \in Dispatcher : e \notin held[d]
  /\ del' = [del EXCEPT ![e] = "retry_wait"]
  /\ due' = [due EXCEPT ![e] = TRUE]
  /\ UNCHANGED <<on, profile, outbox, bundle, tries, pc, held, taken>>

\* The lease of e's claim is over: its dispatcher is gone, or very slow.
ReleaseExpiredLeases(e) ==
  LET mates == {f \in Event : Key(f) = Key(e) /\ del[f] = "processing"}
  IN /\ on
     /\ e \in mates
     /\ "stall" \in Faults \/ \A d \in Dispatcher : e \notin held[d]
     /\ del' = [f \in Event |-> IF f \in mates THEN "retry_wait" ELSE del[f]]
     /\ due' = [f \in Event |-> due[f] \/ f \in mates]
     /\ UNCHANGED <<on, profile, outbox, bundle, tries, pc, held, taken>>

-----------------------------------------------------------------------------

PostEnds(d) == Deliver(d) \/ RetryLater(d) \/ GiveUp(d)

Next ==
  \/ TurnOff \/ TurnOn \/ PutNotificationProfile \/ ExpandOutboxBatch
  \/ \E e \in Event : EnqueueDomainEvent(e) \/ ComesDue(e) \/ ReleaseExpiredLeases(e)
  \/ \E d \in Dispatcher :
       \/ \E e \in Event : ClaimDue(d, e)
       \/ Begin(d) \/ Suppress(d) \/ PostEnds(d) \/ Die(d)

Spec == Init /\ [][Next]_vars

\* The dispatchers poll for ever, the oldest due group first, and get on with
\* what they claimed.  They may die or be too slow often, but not at every
\* attempt of the same delivery.
PollFairness ==
  /\ WF_vars(ExpandOutboxBatch)
  /\ \A d \in Dispatcher : WF_vars(Begin(d) \/ Suppress(d)) /\ WF_vars(PostEnds(d))
  /\ \A e \in Event :
       /\ WF_vars(ComesDue(e))
       /\ WF_vars(ReleaseExpiredLeases(e))
       /\ SF_vars(\E d \in Dispatcher : ClaimDue(d, e))
       /\ SF_vars(\E d \in Dispatcher : e \in Active(d) /\ (Begin(d) \/ Suppress(d)))
       /\ SF_vars(\E d \in Dispatcher : e \in Active(d) /\ PostEnds(d))

FairSpec == Spec /\ PollFairness

-----------------------------------------------------------------------------
(* What the outbox promises.                                               *)

\* deliverDueBatch, updateControl: no message is being posted while the switch
\* or the profile is off, however late the deliveries were claimed.
SilentWhenOff == \A d \in Dispatcher : pc[d] = "posting" => on /\ profile

\* updateControl: OFF leaves nothing that could be sent once it is ON again,
\* whatever was claimed or expanded at that moment.
OffLeavesNothing ==
  ~on => \A e \in Event : outbox[e] # "pending" /\ del[e] \notin Live

\* freezeStoreOnboardingDeliveryGroup: a message holds all of its bundle, at
\* each attempt, by whichever dispatcher.
WholeBundle ==
  \A d \in Dispatcher : pc[d] = "posting" =>
    held[d] # {} /\ \A e \in held[d] : bundle[e] = held[d]

\* A receiver that drops a message whose Idempotency-Key it knows takes each
\* delivery once, however often it is posted.
TakenOnce ==
  \A m, n \in taken : m[2] \cap n[2] # {} => m = n

\* ... and has taken all that is marked delivered.
DeliveredMeansTaken ==
  \A e \in Event : del[e] = "delivered" => \E m \in taken : e \in m[2]

\* A delivery that has ended is never touched again, though a dispatcher that
\* was slow comes back with it.
Ended == {"delivered", "failed", "suppressed"}
EndsForGood ==
  [][\A e \in Event : del[e] \in Ended => del'[e] = del[e]]_vars

\* Every notification ends: delivered, given up or suppressed.
NotificationEnds ==
  \A e \in Event : (outbox[e] = "pending" \/ del[e] \in Live)
                     ~> (outbox[e] # "pending" /\ del[e] \notin Live)
=============================================================================
