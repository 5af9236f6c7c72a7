---------------------- MODULE NotificationOutboxProofs ----------------------
(* Proofs about NotificationOutbox: what is posted and taken, for any        *)
(* events, groups, dispatchers, bounds and faults.                           *)
(*                                                                           *)
(* The invariants say little of how bundles are kept, so OutboxInv adds that *)
(* the deliveries of a bundle stay together: they share group, status and    *)
(* due date (Together), a dispatcher holds whole bundles (HeldWhole), and    *)
(* what the receiver took are bundles (TakenBundles).                        *)
EXTENDS NotificationOutbox, FiniteSetTheorems, TLAPS

-----------------------------------------------------------------------------
(* Messages and what fits them.                                              *)

\* What fits one message still fits when some of it is left out.
LEMMA FitsLess ==
  ASSUME NEW A, NEW B, A \subseteq B, A # {}, B \subseteq Event, Fits(B)
  PROVE  Fits(A)
<1>1. IsFiniteSet(B)
  BY OutboxConstants, FS_Subset
<1>2. /\ IsFiniteSet(A)
      /\ Cardinality(A) <= Cardinality(B)
      /\ Cardinality(A) \in Nat /\ Cardinality(B) \in Nat
      /\ Cardinality(A) # 0
  BY <1>1, FS_Subset, FS_CardinalityType, FS_EmptySet
<1>3. A \cap Long # {} => B \cap Long # {}
  OBVIOUS
<1>4. MaxBundle \in Nat
  BY OutboxConstants
<1> QED
  BY <1>2, <1>3, <1>4 DEF Fits

\* What fits one message is selected as a whole.
LEMMA SelectsWhole ==
  ASSUME NEW K, NEW B, K \subseteq Event, Fits(K), Selects(B, K)
  PROVE  B = K
<1>1. ASSUME NEW n \in K \ B, ~Fits(B \cup {n}) PROVE FALSE
  <2>1. B \cup {n} \subseteq K /\ B \cup {n} # {}
    BY DEF Selects
  <2> QED
    BY <1>1, <2>1, FitsLess
<1> QED
  BY <1>1 DEF Selects

-----------------------------------------------------------------------------
(* Types.                                                                    *)

LEMMA InitTypeOK == Init => TypeOK
BY OutboxConstants DEF Init, TypeOK, OutboxStatus, DeliveryStatus

LEMMA NextTypeOK == TypeOK /\ [Next]_vars => TypeOK'
<1> SUFFICES ASSUME TypeOK, [Next]_vars PROVE TypeOK'
  OBVIOUS
<1> USE OutboxConstants DEF TypeOK, OutboxStatus, DeliveryStatus, delivery
<1>1. ASSUME TurnOff \/ TurnOn \/ PutNotificationProfile PROVE TypeOK'
  BY ZenonT(60), <1>1 DEF TurnOff, TurnOn, PutNotificationProfile
<1>2. ASSUME ExpandOutboxBatch PROVE TypeOK'
  <2>1. PICK batch \in SUBSET Event :
          \E out \in [batch -> Outcome] :
            LET born == {e \in batch : out[e] = "dispatched" /\ del[e] = "none"}
            IN /\ outbox' = [e \in Event |-> IF e \in batch THEN out[e] ELSE outbox[e]]
               /\ del' = [e \in Event |-> IF e \in born THEN "pending" ELSE del[e]]
    BY <1>2 DEF ExpandOutboxBatch
  <2> QED
    BY <1>2, <2>1 DEF ExpandOutboxBatch, Outcome
<1>3. ASSUME NEW e \in Event, EnqueueDomainEvent(e) PROVE TypeOK'
  BY <1>3 DEF EnqueueDomainEvent
<1>4. ASSUME NEW e \in Event, ComesDue(e) PROVE TypeOK'
  BY <1>4 DEF ComesDue
<1>5. ASSUME NEW e \in Event, ReleaseExpiredLeases(e) PROVE TypeOK'
  BY <1>5 DEF ReleaseExpiredLeases
<1>6. ASSUME NEW d \in Dispatcher, NEW e \in Event, ClaimDue(d, e) PROVE TypeOK'
  <2>1. PICK B \in SUBSET Event :
          /\ del' = [f \in Event |-> IF f \in B THEN "processing" ELSE del[f]]
          /\ bundle' = [f \in Event |-> IF f \in B THEN Freeze(e, B) ELSE bundle[f]]
          /\ tries' = [f \in Event |->
               IF f \in B /\ tries[f] < MaxAttempts THEN tries[f] + 1 ELSE tries[f]]
          /\ held' = [held EXCEPT ![d] = B]
    BY <1>6 DEF ClaimDue
  <2>2. Freeze(e, B) \in SUBSET Event
    BY DEF Freeze
  <2>3. tries' \in [Event -> 0..MaxAttempts]
    BY <2>1
  <2> QED
    BY <1>6, <2>1, <2>2, <2>3 DEF ClaimDue
<1>7. ASSUME NEW d \in Dispatcher, Begin(d) PROVE TypeOK'
  BY <1>7 DEF Begin, Active
<1>8. ASSUME NEW d \in Dispatcher, Suppress(d) \/ Deliver(d) \/ GiveUp(d) PROVE TypeOK'
  BY <1>8 DEF Suppress, Deliver, GiveUp, Done
<1>9. ASSUME NEW d \in Dispatcher, RetryLater(d) PROVE TypeOK'
  BY <1>9 DEF RetryLater, Done
<1>10. ASSUME NEW d \in Dispatcher, Die(d) PROVE TypeOK'
  BY <1>10 DEF Die, Done
<1>11. CASE UNCHANGED vars
  BY <1>11 DEF vars
<1> QED
  BY <1>1, <1>2, <1>3, <1>4, <1>5, <1>6, <1>7, <1>8, <1>9, <1>10, <1>11 DEF Next, PostEnds

\* TypeOK: every variable keeps its type.
THEOREM TypeCorrect == Spec => []TypeOK
BY InitTypeOK, NextTypeOK, PTL DEF Spec

-----------------------------------------------------------------------------
(* Bundles.                                                                  *)

\* The deliveries of a bundle share what decides their next step.
Together ==
  \A e \in Event : bundle[e] # {} =>
    /\ e \in bundle[e]
    /\ Fits(bundle[e])
    /\ \A f \in bundle[e] : /\ bundle[f] = bundle[e] /\ group[f] = group[e]
                            /\ del[f] = del[e] /\ (due[f] <=> due[e])

\* A delivery has a bundle since its first claim.
Frozen ==
  \A e \in Event :
    /\ del[e] \in {"none", "pending"} => bundle[e] = {}
    /\ del[e] \in {"processing", "retry_wait"} => bundle[e] # {}

\* A dispatcher holds a whole bundle.
HeldWhole ==
  \A d \in Dispatcher : pc[d] # "idle" =>
    held[d] # {} /\ \A e \in held[d] : bundle[e] = held[d]

\* The receiver has taken whole bundles, each under its own key.
TakenBundles ==
  \A m \in taken :
    /\ m[2] # {} /\ m[2] \subseteq Event
    /\ \A e \in m[2] : bundle[e] = m[2] /\ m = <<Key(e), m[2]>>

Bundles == Together /\ Frozen /\ HeldWhole /\ TakenBundles

\* Bundles that are kept stay together when what happens to one of their
\* deliveries happens to all.
LEMMA StayTogether ==
  ASSUME Together, bundle' = bundle,
         \A e \in Event : \A f \in bundle[e] :
           del'[f] = del'[e] /\ (due'[f] <=> due'[e])
  PROVE  Together'
BY DEF Together

\* What a claim does: it takes a bundle again as a whole, or makes a new one.
LEMMA ClaimFacts ==
  ASSUME TypeOK, Bundles, NEW d \in Dispatcher, NEW e \in Event, ClaimDue(d, e)
  PROVE  \E B \in SUBSET Event :
           /\ B # {} /\ Fits(B)
           /\ \A f \in B : /\ bundle'[f] = B /\ bundle[f] \in {{}, B}
                          /\ group[f] = group[e] /\ due[f]
           /\ \A f \in Event \ B : bundle'[f] = bundle[f] /\ bundle[f] \cap B = {}
           /\ del' = [f \in Event |-> IF f \in B THEN "processing" ELSE del[f]]
           /\ held' = [held EXCEPT ![d] = B]
<1> DEFINE K == {f \in Event : Key(f) = Key(e) /\ del[f] \in Waiting /\ due[f]}
<1>1. PICK B \in SUBSET K :
        /\ Selects(B, K)
        /\ del' = [f \in Event |-> IF f \in B THEN "processing" ELSE del[f]]
        /\ bundle' = [f \in Event |-> IF f \in B THEN Freeze(e, B) ELSE bundle[f]]
        /\ held' = [held EXCEPT ![d] = B]
  BY DEF ClaimDue
<1>2. e \in K /\ B \in SUBSET Event /\ B # {} /\ Fits(B)
  BY <1>1 DEF ClaimDue, Selects
<1>3. \A f \in K : bundle[f] = bundle[e] /\ group[f] = group[e] /\ due[f]
  BY DEF Key
<1>4. CASE bundle[e] = {}
  <2>1. \A f \in B : bundle'[f] = B /\ bundle[f] = {}
    BY <1>1, <1>2, <1>3, <1>4 DEF Freeze
  <2>2. \A f \in Event \ B : bundle[f] \cap B = {}
    BY <2>1 DEF Bundles, Together
  <2> QED
    BY <1>1, <1>2, <1>3, <2>1, <2>2
<1>5. CASE bundle[e] # {}
  <2>1. K = bundle[e]
    <3>1. \A f \in K : f \in bundle[e]
      BY <1>3, <1>5 DEF Bundles, Together
    <3>2. \A f \in bundle[e] : f \in K
      BY <1>2, <1>5 DEF Bundles, Together, Key, TypeOK
    <3> QED
      BY <3>1, <3>2
  <2>2. Fits(K) /\ K \subseteq Event
    BY <1>5, <2>1 DEF Bundles, Together
  <2>3. B = K
    <3> HIDE DEF K
    <3> QED
      BY <1>1, <2>2, SelectsWhole
  <2>4. \A f \in B : bundle'[f] = B /\ bundle[f] = B
    BY <1>1, <1>2, <1>3, <1>5, <2>1, <2>3 DEF Freeze
  <2>5. \A f \in Event \ B : bundle[f] \cap B = {}
    BY <2>4 DEF Bundles, Together
  <2> QED
    BY <1>1, <1>2, <1>3, <2>4, <2>5
<1> QED
  BY <1>4, <1>5

LEMMA ClaimBundles ==
  ASSUME TypeOK, Bundles, NEW d \in Dispatcher, NEW e \in Event, ClaimDue(d, e)
  PROVE  Bundles'
<1>1. PICK B \in SUBSET Event :
        /\ B # {} /\ Fits(B)
        /\ \A f \in B : /\ bundle'[f] = B /\ bundle[f] \in {{}, B}
                       /\ group[f] = group[e] /\ due[f]
        /\ \A f \in Event \ B : bundle'[f] = bundle[f] /\ bundle[f] \cap B = {}
        /\ del' = [f \in Event |-> IF f \in B THEN "processing" ELSE del[f]]
        /\ held' = [held EXCEPT ![d] = B]
  BY ClaimFacts
<1>2. due' = due /\ taken' = taken /\ pc' = [pc EXCEPT ![d] = "claimed"]
  BY DEF ClaimDue
<1>3. Together'
  <2> SUFFICES ASSUME NEW f \in Event, bundle'[f] # {}
               PROVE  /\ f \in bundle'[f] /\ Fits(bundle'[f])
                      /\ \A g \in bundle'[f] : /\ bundle'[g] = bundle'[f] /\ group[g] = group[f]
                                              /\ del'[g] = del'[f] /\ (due'[g] <=> due'[f])
    BY DEF Together
  <2>1. CASE f \in B
    BY <1>1, <1>2, <2>1
  <2>2. CASE f \notin B
    <3>1. bundle'[f] = bundle[f] /\ bundle[f] \in SUBSET Event /\ bundle[f] \cap B = {}
      BY <1>1, <2>2 DEF TypeOK
    <3>2. \A g \in bundle[f] : bundle'[g] = bundle[g] /\ del'[g] = del[g]
      BY <1>1, <3>1
    <3>3. del'[f] = del[f]
      BY <1>1, <2>2
    <3> QED
      BY <1>2, <3>1, <3>2, <3>3 DEF Bundles, Together
  <2> QED
    BY <2>1, <2>2
<1>4. Frozen'
  BY <1>1 DEF Bundles, Frozen
<1>5. ASSUME NEW f \in Event, bundle[f] # {} PROVE bundle'[f] = bundle[f]
  BY <1>1, <1>5
<1>6. HeldWhole'
  <2> SUFFICES ASSUME NEW c \in Dispatcher, pc'[c] # "idle"
               PROVE  held'[c] # {} /\ \A f \in held'[c] : bundle'[f] = held'[c]
    BY DEF HeldWhole
  <2>1. CASE c = d
    BY <1>1, <2>1 DEF TypeOK
  <2>2. CASE c # d
    BY <1>1, <1>2, <1>5, <2>2 DEF Bundles, HeldWhole, TypeOK
  <2> QED
    BY <2>1, <2>2
<1>7. TakenBundles'
  <2> SUFFICES ASSUME NEW m \in taken
               PROVE  /\ m[2] # {} /\ m[2] \subseteq Event
                      /\ \A f \in m[2] : bundle'[f] = m[2] /\ m = <<Key(f)', m[2]>>
    BY <1>2 DEF TakenBundles
  <2>1. /\ m[2] # {} /\ m[2] \subseteq Event
        /\ \A f \in m[2] : bundle[f] = m[2] /\ m = <<Key(f), m[2]>>
    BY DEF Bundles, TakenBundles
  <2>2. \A f \in m[2] : bundle'[f] = bundle[f]
    BY <1>5, <2>1
  <2> QED
    BY <2>1, <2>2 DEF Key
<1> QED
  BY <1>3, <1>4, <1>6, <1>7 DEF Bundles

\* Steps that change nothing of a bundle but what all of it shares.
LEMMA KeptBundles ==
  ASSUME TypeOK, Bundles, bundle' = bundle, HeldWhole', TakenBundles',
         \A e \in Event : \A f \in bundle[e] :
           del'[f] = del'[e] /\ (due'[f] <=> due'[e]),
         \A e \in Event :
           \/ del'[e] = del[e] \/ del'[e] \in Ended
           \/ del'[e] = "retry_wait" /\ bundle[e] # {}
           \/ del'[e] = "pending" /\ bundle[e] = {}
  PROVE  Bundles'
<1>1. Together'
  BY StayTogether DEF Bundles
<1>2. Frozen'
  BY DEF Bundles, Frozen, Ended
<1> QED
  BY <1>1, <1>2 DEF Bundles

LEMMA SameTaken ==
  ASSUME Bundles, bundle' = bundle, taken' = taken
  PROVE  TakenBundles'
BY DEF Bundles, TakenBundles, Key

LEMMA SameHeld ==
  ASSUME Bundles, bundle' = bundle, pc' = pc, held' = held
  PROVE  HeldWhole'
BY DEF Bundles, HeldWhole

\* A dispatcher that is done holds nothing.
LEMMA DoneHeld ==
  ASSUME TypeOK, Bundles, bundle' = bundle, NEW d \in Dispatcher, Done(d)
  PROVE  HeldWhole'
BY DEF TypeOK, Bundles, HeldWhole, Done

\* A dispatcher holds all of a bundle or none of it as what is to be posted.
LEMMA ActiveWhole ==
  ASSUME TypeOK, Bundles, NEW d \in Dispatcher, pc[d] # "idle"
  PROVE  /\ Active(d) \in {held[d], {}}
         /\ \A e \in Event : \A f \in bundle[e] : f \in Active(d) <=> e \in Active(d)
<1>1. held[d] # {} /\ held[d] \subseteq Event /\ \A e \in held[d] : bundle[e] = held[d]
  BY DEF Bundles, HeldWhole, TypeOK
<1>2. \A e, f \in held[d] : del[f] = del[e]
  BY <1>1 DEF Bundles, Together
<1>3. Active(d) \in {held[d], {}}
  BY <1>2 DEF Active
<1>4. ASSUME NEW e \in Event, NEW f \in bundle[e] PROVE f \in held[d] <=> e \in held[d]
  <2>1. bundle[f] = bundle[e] /\ e \in bundle[e]
    BY <1>4 DEF Bundles, Together
  <2> QED
    BY <1>1, <1>4, <2>1
<1> QED
  BY <1>3, <1>4

\* What the receiver takes is a whole bundle under its key.
LEMMA ReceiveBundles ==
  ASSUME TypeOK, Bundles, NEW d \in Dispatcher, pc[d] = "posting",
         Receive(d), bundle' = bundle
  PROVE  TakenBundles' /\ \E m \in taken' : m[2] = held[d]
<1>1. held[d] # {} /\ held[d] \subseteq Event /\ \A e \in held[d] : bundle[e] = held[d]
  BY DEF Bundles, HeldWhole, TypeOK
<1>2. PICK first \in held[d] :
        taken' = IF \E m \in taken : m[1] = Key(first) THEN taken
                 ELSE taken \cup {<<Key(first), held[d]>>}
  BY DEF Receive
<1>3. \A e \in held[d] : Key(e) = Key(first)
  BY <1>1, <1>2 DEF Bundles, Together, Key
<1>4. \A m \in taken : /\ m[2] # {} /\ m[2] \subseteq Event
                       /\ \A e \in m[2] : bundle[e] = m[2] /\ m = <<Key(e), m[2]>>
  BY DEF Bundles, TakenBundles
<1>5. CASE \E m \in taken : m[1] = Key(first)
  <2>1. PICK m \in taken : m[1] = Key(first)
    BY <1>5
  <2>2. PICK e \in m[2] : bundle[e] = m[2] /\ m = <<Key(e), m[2]>>
    BY <1>4
  <2>3. bundle[e] = bundle[first]
    BY <2>1, <2>2 DEF Key
  <2>4. m[2] = held[d]
    BY <1>1, <1>2, <2>2, <2>3
  <2> QED
    BY <1>2, <1>4, <1>5, <2>4 DEF TakenBundles, Key
<1>6. CASE ~\E m \in taken : m[1] = Key(first)
  <2>1. taken' = taken \cup {<<Key(first), held[d]>>}
    BY <1>2, <1>6
  <2>2. TakenBundles'
    <3> SUFFICES ASSUME NEW m \in taken'
                 PROVE  /\ m[2] # {} /\ m[2] \subseteq Event
                        /\ \A e \in m[2] : bundle[e] = m[2] /\ m = <<Key(e), m[2]>>
      BY DEF TakenBundles, Key
    <3>1. CASE m \in taken
      BY <1>4, <3>1
    <3>2. CASE m = <<Key(first), held[d]>>
      BY <1>1, <1>3, <3>2
    <3> QED
      BY <2>1, <3>1, <3>2
  <2>3. <<Key(first), held[d]>> \in taken' /\ <<Key(first), held[d]>>[2] = held[d]
    BY <2>1
  <2>4. \E m \in taken' : m[2] = held[d]
    BY <2>3
  <2> QED
    BY <2>2, <2>4
<1> QED
  BY <1>5, <1>6

\* What a dispatcher does with all it has claimed.
LEMMA ActiveBundles ==
  ASSUME TypeOK, Bundles, NEW d \in Dispatcher, pc[d] # "idle", Done(d),
         bundle' = bundle, TakenBundles', NEW s \in Ended \cup {"retry_wait"},
         del' = [e \in Event |-> IF e \in Active(d) THEN s ELSE del[e]],
         \/ due' = due
         \/ due' = [e \in Event |-> due[e] /\ e \notin Active(d)]
  PROVE  Bundles'
<1>1. \A e \in Event : \A f \in bundle[e] : f \in Active(d) <=> e \in Active(d)
  BY ActiveWhole
<1>2. \A e \in Event : \A f \in bundle[e] : f \in Event /\ del[f] = del[e] /\ (due[f] <=> due[e])
  BY DEF Bundles, Together, TypeOK
<1>3. \A e \in Event : \A f \in bundle[e] : del'[f] = del'[e] /\ (due'[f] <=> due'[e])
  BY <1>1, <1>2
<1>4. \A e \in Active(d) : bundle[e] # {}
  BY DEF Bundles, HeldWhole, Active, TypeOK
<1>5. \A e \in Event :
        \/ del'[e] = del[e] \/ del'[e] \in Ended
        \/ del'[e] = "retry_wait" /\ bundle[e] # {}
  BY <1>4
<1>6. HeldWhole'
  BY DoneHeld
<1> QED
  BY <1>3, <1>5, <1>6, KeptBundles

\* Bundles that wait or are claimed move as a whole.
LEMMA MatesMove ==
  ASSUME TypeOK, Bundles, NEW e \in Event, NEW f \in bundle[e]
  PROVE  f \in Event /\ Key(f) = Key(e) /\ del[f] = del[e] /\ (due[f] <=> due[e])
BY DEF TypeOK, Bundles, Together, Key

LEMMA SwitchBundles ==
  ASSUME TypeOK, Bundles, TurnOff \/ TurnOn \/ PutNotificationProfile
  PROVE  Bundles'
<1>1. HeldWhole' /\ TakenBundles' /\ bundle' = bundle /\ due' = due
  BY SameHeld, SameTaken DEF TurnOff, TurnOn, PutNotificationProfile, delivery
<1>2. \A g \in Event : \/ del' = del
                       \/ del'[g] = IF del[g] \in Live THEN "suppressed" ELSE del[g]
  BY DEF TurnOff, TurnOn, PutNotificationProfile, delivery
<1>3. CASE del' = del
  BY <1>1, <1>3, MatesMove, KeptBundles
<1>4. CASE \A g \in Event : del'[g] = IF del[g] \in Live THEN "suppressed" ELSE del[g]
  <2>1. \A e \in Event : \A f \in bundle[e] : del'[f] = del'[e] /\ (due'[f] <=> due'[e])
    BY <1>1, <1>4, MatesMove
  <2>2. \A e \in Event : del'[e] = del[e] \/ del'[e] \in Ended
    BY <1>4 DEF Ended
  <2> QED
    BY <1>1, <2>1, <2>2, KeptBundles
<1> QED
  BY <1>2, <1>3, <1>4

LEMMA ExpandBundles ==
  ASSUME TypeOK, Bundles, ExpandOutboxBatch
  PROVE  Bundles'
<1>1. PICK born \in SUBSET Event :
        /\ \A e \in born : del[e] = "none"
        /\ del' = [e \in Event |-> IF e \in born THEN "pending" ELSE del[e]]
  BY DEF ExpandOutboxBatch
<1>2. HeldWhole' /\ TakenBundles' /\ bundle' = bundle /\ due' = due
  BY SameHeld, SameTaken DEF ExpandOutboxBatch
<1>3. \A e \in born : bundle[e] = {}
  BY <1>1 DEF Bundles, Frozen
<1>4. \A e \in Event : \A f \in bundle[e] : f \notin born /\ e \notin born
  <2> TAKE e \in Event
  <2> TAKE f \in bundle[e]
  <2>1. f \in Event /\ del[f] = del[e]
    BY MatesMove
  <2>2. del[e] # "none"
    BY DEF Bundles, Frozen
  <2> QED
    BY <1>1, <2>1, <2>2
<1>5. \A e \in Event : \A f \in bundle[e] : del'[f] = del'[e] /\ (due'[f] <=> due'[e])
  BY <1>1, <1>2, <1>4, MatesMove
<1>6. \A e \in Event : del'[e] = del[e] \/ (del'[e] = "pending" /\ bundle[e] = {})
  BY <1>1, <1>3
<1> QED
  BY <1>2, <1>5, <1>6, KeptBundles

LEMMA WaitBundles ==
  ASSUME TypeOK, Bundles, NEW e \in Event,
         EnqueueDomainEvent(e) \/ ComesDue(e) \/ ReleaseExpiredLeases(e)
  PROVE  Bundles'
<1>1. HeldWhole' /\ TakenBundles' /\ bundle' = bundle
  BY SameHeld, SameTaken DEF EnqueueDomainEvent, ComesDue, ReleaseExpiredLeases, delivery
<1>2. CASE EnqueueDomainEvent(e)
  BY <1>1, <1>2, MatesMove, KeptBundles DEF EnqueueDomainEvent, delivery
<1>3. CASE ComesDue(e)
  <2> DEFINE mates == {f \in Event : Key(f) = Key(e) /\ del[f] \in Waiting}
  <2>1. /\ \A f \in Event : f \in mates <=> Key(f) = Key(e) /\ del[f] \in Waiting
        /\ due' = [f \in Event |-> due[f] \/ f \in mates]
        /\ del' = del
    BY <1>3 DEF ComesDue
  <2> HIDE DEF mates
  <2>2. \A g \in Event : \A f \in bundle[g] : del'[f] = del'[g] /\ (due'[f] <=> due'[g])
    <3> TAKE g \in Event
    <3> TAKE f \in bundle[g]
    <3>1. f \in Event /\ Key(f) = Key(g) /\ del[f] = del[g] /\ (due[f] <=> due[g])
      BY MatesMove
    <3>2. f \in mates <=> g \in mates
      BY <2>1, <3>1
    <3> QED
      BY <2>1, <3>1, <3>2
  <2> QED
    BY <1>1, <2>1, <2>2, KeptBundles
<1>4. CASE ReleaseExpiredLeases(e)
  <2>1. PICK mates \in SUBSET Event :
          /\ \A f \in Event : f \in mates <=> Key(f) = Key(e) /\ del[f] = "processing"
          /\ due' = [f \in Event |-> due[f] \/ f \in mates]
          /\ del' = [f \in Event |-> IF f \in mates THEN "retry_wait" ELSE del[f]]
    BY <1>4 DEF ReleaseExpiredLeases
  <2>2. \A g \in Event : \A f \in bundle[g] : del'[f] = del'[g] /\ (due'[f] <=> due'[g])
    BY <2>1, MatesMove
  <2>3. \A g \in Event : del'[g] = del[g] \/ (del'[g] = "retry_wait" /\ bundle[g] # {})
    BY <2>1 DEF Bundles, Frozen
  <2> QED
    BY <1>1, <2>2, <2>3, KeptBundles
<1> QED
  BY <1>2, <1>3, <1>4

LEMMA PostBundles ==
  ASSUME TypeOK, Bundles, NEW d \in Dispatcher,
         Begin(d) \/ Suppress(d) \/ PostEnds(d) \/ Die(d)
  PROVE  Bundles'
<1>1. CASE Begin(d)
  <2>1. HeldWhole'
    BY <1>1, ActiveWhole DEF Begin, TypeOK, Bundles, HeldWhole, delivery
  <2>2. TakenBundles'
    BY <1>1, SameTaken DEF Begin, delivery
  <2> QED
    BY <1>1, <2>1, <2>2, MatesMove, KeptBundles DEF Begin, delivery
<1>2. ASSUME pc[d] = "posting", MayReceive(d), bundle' = bundle PROVE TakenBundles'
  BY <1>2, ReceiveBundles, SameTaken DEF MayReceive
<1>3. CASE Suppress(d)
  <2>1. TakenBundles'
    BY <1>3, SameTaken DEF Suppress
  <2> QED
    BY <1>3, <2>1, ActiveBundles DEF Suppress, Ended
<1>4. CASE Deliver(d)
  <2>1. TakenBundles'
    BY <1>4, <1>2 DEF Deliver, MayReceive
  <2> QED
    BY <1>4, <2>1, ActiveBundles DEF Deliver, Ended
<1>5. CASE RetryLater(d)
  <2>1. TakenBundles'
    BY <1>5, <1>2 DEF RetryLater
  <2> QED
    BY <1>5, <2>1, ActiveBundles DEF RetryLater
<1>6. CASE GiveUp(d)
  <2>1. TakenBundles'
    BY <1>6, <1>2 DEF GiveUp
  <2> QED
    BY <1>6, <2>1, ActiveBundles DEF GiveUp, Ended
<1>7. CASE Die(d)
  <2>1. TakenBundles'
    BY <1>7, <1>2, SameTaken DEF Die, delivery
  <2>2. HeldWhole'
    BY <1>7, DoneHeld DEF Die, delivery
  <2> QED
    BY <1>7, <2>1, <2>2, MatesMove, KeptBundles DEF Die, delivery
<1> QED
  BY <1>1, <1>3, <1>4, <1>5, <1>6, <1>7 DEF PostEnds

-----------------------------------------------------------------------------
(* The invariant.                                                            *)

OutboxInv ==
  /\ TypeOK /\ Bundles
  /\ SilentWhenOff /\ OffLeavesNothing /\ DeliveredMeansTaken

LEMMA InitOutboxInv == Init => OutboxInv
<1> SUFFICES ASSUME Init PROVE OutboxInv
  OBVIOUS
<1>1. TypeOK
  BY InitTypeOK
<1>2. Bundles
  BY DEF Init, Bundles, Together, Frozen, HeldWhole, TakenBundles
<1>3. SilentWhenOff /\ OffLeavesNothing /\ DeliveredMeansTaken
  BY DEF Init, SilentWhenOff, OffLeavesNothing, DeliveredMeansTaken
<1> QED
  BY <1>1, <1>2, <1>3 DEF OutboxInv

LEMMA NextBundles == TypeOK /\ Bundles /\ [Next]_vars => Bundles'
<1> SUFFICES ASSUME TypeOK, Bundles, [Next]_vars PROVE Bundles'
  OBVIOUS
<1>1. CASE UNCHANGED vars
  BY <1>1, SameHeld, SameTaken, MatesMove, KeptBundles DEF vars, delivery
<1>2. CASE Next
  BY <1>2, SwitchBundles, ExpandBundles, WaitBundles, ClaimBundles, PostBundles DEF Next
<1> QED
  BY <1>1, <1>2

LEMMA NextSilent == TypeOK /\ SilentWhenOff /\ [Next]_vars => SilentWhenOff'
<1> SUFFICES ASSUME TypeOK, SilentWhenOff, [Next]_vars PROVE SilentWhenOff'
  OBVIOUS
<1> USE DEF TypeOK, SilentWhenOff, delivery
<1>1. CASE TurnOff \/ TurnOn \/ PutNotificationProfile
  BY <1>1 DEF TurnOff, TurnOn, PutNotificationProfile, Unlocked
<1>2. CASE ExpandOutboxBatch
  BY <1>2 DEF ExpandOutboxBatch
<1>3. ASSUME NEW e \in Event, EnqueueDomainEvent(e) \/ ComesDue(e) \/ ReleaseExpiredLeases(e)
      PROVE  SilentWhenOff'
  BY <1>3 DEF EnqueueDomainEvent, ComesDue, ReleaseExpiredLeases
<1>4. ASSUME NEW d \in Dispatcher, NEW e \in Event, ClaimDue(d, e) PROVE SilentWhenOff'
  BY <1>4 DEF ClaimDue
<1>5. ASSUME NEW d \in Dispatcher, Begin(d) PROVE SilentWhenOff'
  BY <1>5 DEF Begin
<1>6. ASSUME NEW d \in Dispatcher, Suppress(d) \/ PostEnds(d) \/ Die(d) PROVE SilentWhenOff'
  BY <1>6 DEF Suppress, PostEnds, Deliver, RetryLater, GiveUp, Die, Done
<1>7. CASE UNCHANGED vars
  BY <1>7 DEF vars
<1> QED
  BY <1>1, <1>2, <1>3, <1>4, <1>5, <1>6, <1>7 DEF Next

LEMMA NextOff ==
  TypeOK /\ SilentWhenOff /\ OffLeavesNothing /\ [Next]_vars => OffLeavesNothing'
<1> SUFFICES ASSUME TypeOK, SilentWhenOff, OffLeavesNothing, [Next]_vars
             PROVE  OffLeavesNothing'
  OBVIOUS
<1> USE DEF TypeOK, OffLeavesNothing, Live, Waiting, delivery
<1>1. CASE TurnOff \/ TurnOn \/ PutNotificationProfile
  BY <1>1 DEF TurnOff, TurnOn, PutNotificationProfile
<1>2. CASE ExpandOutboxBatch
  BY <1>2 DEF ExpandOutboxBatch
<1>3. ASSUME NEW e \in Event, EnqueueDomainEvent(e) \/ ComesDue(e) \/ ReleaseExpiredLeases(e)
      PROVE  OffLeavesNothing'
  BY <1>3 DEF EnqueueDomainEvent, ComesDue, ReleaseExpiredLeases
<1>4. ASSUME NEW d \in Dispatcher, NEW e \in Event, ClaimDue(d, e) PROVE OffLeavesNothing'
  <2>1. on /\ on' = on
    BY <1>4 DEF ClaimDue
  <2> QED
    BY <2>1
<1>5. ASSUME NEW d \in Dispatcher, Begin(d) \/ Suppress(d) \/ Deliver(d) \/ GiveUp(d) \/ Die(d)
      PROVE  OffLeavesNothing'
  BY <1>5 DEF Begin, Suppress, Deliver, GiveUp, Die, Done
<1>6. ASSUME NEW d \in Dispatcher, RetryLater(d) PROVE OffLeavesNothing'
  BY <1>6 DEF RetryLater, SilentWhenOff
<1>7. CASE UNCHANGED vars
  BY <1>7 DEF vars
<1> QED
  BY <1>1, <1>2, <1>3, <1>4, <1>5, <1>6, <1>7 DEF Next, PostEnds

LEMMA NextTaken ==
  TypeOK /\ Bundles /\ DeliveredMeansTaken /\ [Next]_vars => DeliveredMeansTaken'
<1> SUFFICES ASSUME TypeOK, Bundles, DeliveredMeansTaken, [Next]_vars
             PROVE  DeliveredMeansTaken'
  OBVIOUS
<1> USE DEF DeliveredMeansTaken
<1>1. ASSUME taken \subseteq taken',
             \A e \in Event : del'[e] = "delivered" => del[e] = "delivered"
      PROVE  DeliveredMeansTaken'
  BY <1>1
<1>2. CASE TurnOff \/ TurnOn \/ PutNotificationProfile \/ ExpandOutboxBatch
  <2>1. \A e \in Event : del'[e] = "delivered" => del[e] = "delivered"
    BY <1>2 DEF TurnOff, TurnOn, PutNotificationProfile, ExpandOutboxBatch, delivery
  <2>2. taken' = taken
    BY <1>2 DEF TurnOff, TurnOn, PutNotificationProfile, ExpandOutboxBatch
  <2> QED
    BY <1>1, <2>1, <2>2
<1>3. ASSUME NEW e \in Event, EnqueueDomainEvent(e) \/ ComesDue(e) \/ ReleaseExpiredLeases(e)
      PROVE  DeliveredMeansTaken'
  <2>1. \A f \in Event : del'[f] = "delivered" => del[f] = "delivered"
    BY <1>3 DEF EnqueueDomainEvent, ComesDue, ReleaseExpiredLeases, delivery
  <2>2. taken' = taken
    BY <1>3 DEF EnqueueDomainEvent, ComesDue, ReleaseExpiredLeases
  <2> QED
    BY <1>1, <2>1, <2>2
<1>4. ASSUME NEW d \in Dispatcher, NEW e \in Event, ClaimDue(d, e)
      PROVE  DeliveredMeansTaken'
  <2>1. \A f \in Event : del'[f] = "delivered" => del[f] = "delivered"
    BY <1>4 DEF ClaimDue
  <2>2. taken' = taken
    BY <1>4 DEF ClaimDue
  <2> QED
    BY <1>1, <2>1, <2>2
<1>5. ASSUME NEW d \in Dispatcher, Receive(d) PROVE taken \subseteq taken'
  BY <1>5 DEF Receive
<1>6. ASSUME NEW d \in Dispatcher,
             Begin(d) \/ Suppress(d) \/ RetryLater(d) \/ GiveUp(d) \/ Die(d)
      PROVE  DeliveredMeansTaken'
  <2>1. \A e \in Event : del'[e] = "delivered" => del[e] = "delivered"
    BY <1>6 DEF Begin, Suppress, RetryLater, GiveUp, Die, delivery
  <2>2. taken \subseteq taken'
    BY <1>5, <1>6 DEF Begin, Suppress, RetryLater, GiveUp, Die, MayReceive
  <2> QED
    BY <1>1, <2>1, <2>2
<1>7. ASSUME NEW d \in Dispatcher, Deliver(d) PROVE DeliveredMeansTaken'
  <2>1. PICK m \in taken' : m[2] = held[d]
    BY <1>7, ReceiveBundles DEF Deliver
  <2>2. taken \subseteq taken'
    BY <1>5, <1>7 DEF Deliver
  <2>3. \A e \in Event : del'[e] = "delivered" => del[e] = "delivered" \/ e \in held[d]
    BY <1>7 DEF Deliver, Active
  <2> QED
    BY <2>1, <2>2, <2>3
<1>8. CASE UNCHANGED vars
  BY <1>8 DEF vars, delivery
<1> QED
  BY <1>2, <1>3, <1>4, <1>6, <1>7, <1>8 DEF Next, PostEnds

LEMMA NextOutboxInv == OutboxInv /\ [Next]_vars => OutboxInv'
BY NextTypeOK, NextBundles, NextSilent, NextOff, NextTaken DEF OutboxInv

\* OutboxInv holds always.
THEOREM OutboxInvariant == Spec => []OutboxInv
BY InitOutboxInv, NextOutboxInv, PTL DEF Spec

-----------------------------------------------------------------------------
(* What the outbox promises.                                                 *)

\* deliverDueBatch, updateControl: no message is being posted while the switch
\* or the profile is off.
THEOREM SilentWhenOffHolds == Spec => []SilentWhenOff
<1>1. OutboxInv => SilentWhenOff
  BY DEF OutboxInv
<1> QED
  BY <1>1, OutboxInvariant, PTL

\* updateControl: OFF leaves nothing that could be sent once it is ON again.
THEOREM OffLeavesNothingHolds == Spec => []OffLeavesNothing
<1>1. OutboxInv => OffLeavesNothing
  BY DEF OutboxInv
<1> QED
  BY <1>1, OutboxInvariant, PTL

\* freezeStoreOnboardingDeliveryGroup: a message holds all of its bundle, at
\* each attempt.
THEOREM WholeBundleHolds == Spec => []WholeBundle
<1>1. OutboxInv => WholeBundle
  BY DEF OutboxInv, Bundles, HeldWhole, WholeBundle
<1> QED
  BY <1>1, OutboxInvariant, PTL

\* A receiver that drops a message whose Idempotency-Key it knows takes each
\* delivery once.
THEOREM TakenOnceHolds == Spec => []TakenOnce
<1>1. OutboxInv => TakenOnce
  BY DEF OutboxInv, Bundles, TakenBundles, TakenOnce
<1> QED
  BY <1>1, OutboxInvariant, PTL

\* What is marked delivered was taken.
THEOREM DeliveredMeansTakenHolds == Spec => []DeliveredMeansTaken
<1>1. OutboxInv => DeliveredMeansTaken
  BY DEF OutboxInv
<1> QED
  BY <1>1, OutboxInvariant, PTL

\* A delivery that has ended is never touched again.
THEOREM EndsForGoodHolds == Spec => EndsForGood
<1>1. TypeOK /\ [Next]_vars => [\A e \in Event : del[e] \in Ended => del'[e] = del[e]]_vars
  <2> SUFFICES ASSUME TypeOK, Next, NEW e \in Event, del[e] \in Ended
               PROVE  del'[e] = del[e]
    OBVIOUS
  <2> USE DEF TypeOK, Ended, Live, Waiting, delivery
  <2>1. CASE TurnOff \/ TurnOn \/ PutNotificationProfile \/ ExpandOutboxBatch
    BY <2>1 DEF TurnOff, TurnOn, PutNotificationProfile, ExpandOutboxBatch
  <2>2. ASSUME NEW f \in Event, EnqueueDomainEvent(f) \/ ComesDue(f) \/ ReleaseExpiredLeases(f)
        PROVE  del'[e] = del[e]
    BY <2>2 DEF EnqueueDomainEvent, ComesDue, ReleaseExpiredLeases
  <2>3. ASSUME NEW d \in Dispatcher, NEW f \in Event, ClaimDue(d, f)
        PROVE  del'[e] = del[e]
    BY <2>3 DEF ClaimDue
  <2>4. ASSUME NEW d \in Dispatcher,
               Begin(d) \/ Suppress(d) \/ Deliver(d) \/ RetryLater(d) \/ GiveUp(d) \/ Die(d)
        PROVE  del'[e] = del[e]
    BY <2>4 DEF Begin, Suppress, Deliver, RetryLater, GiveUp, Die, Active
  <2> QED
    BY <2>1, <2>2, <2>3, <2>4 DEF Next, PostEnds
<1> QED
  BY <1>1, TypeCorrect, PTL DEF Spec, EndsForGood
=============================================================================
