------------------------ MODULE StoreBindingsProofs ------------------------
(* Proofs about the stores of an application and of a brand.                  *)
(*                                                                            *)
(* StoreBindings: no store is submitted twice, what is recorded is true and a *)
(* store in doubt stops the execution, for any stores, workers, processes,    *)
(* attempts and events.  That nothing is submitted twice needs no lock: an    *)
(* item is submitted only by the worker that has taken it out of              *)
(* 'processing', and never returns (Sent).  The rest is true where one        *)
(* process runs: the worker that has its lock knows which items it has        *)
(* submitted, and whether any is in doubt (Holds).                            *)
(*                                                                            *)
(* BrandProvisioning: no store is created before its brand, for any tasks,    *)
(* hooks and bounds.  What a transaction has read may be old when it writes,  *)
(* but it was written once (Sees), and "there was no brand task" is written   *)
(* once and for all by who holds the lock of the brand (Onlooker).            *)
EXTENDS MCStoreBindings, Sequences, FiniteSetTheorems, WellFoundedInduction, TLAPS

-----------------------------------------------------------------------------
(* The invariant.                                                             *)

\* What has not been submitted.
Unsent == {"pending", "processing"}

Left == With(Unsent)
Submitted == With({"submitting"})
InDoubt == With({"unconfirmed"})

Statuses == Unsent \cup {"submitting"} \cup Settled
Execs == Active \cup {"done", "partial_success", "failed", "cancelled"}

Thens == {"none", "decide", "done", "throw", "judge", "loop", "stop", "next", "idle"}

Fields ==
  [at : Trying \cup {"read", "recover", "count", "write", "allow", "done", "throw", "onFailed"},
   own : BOOLEAN, try : BOOLEAN, page : SUBSET Items, rest : SUBSET Items, unit : SUBSET Items,
   reply : {"none", "unsent", "told", "throttled"}, ok : SUBSET Items, mute : SUBSET Items, misses : Nat,
   then : Thens, status : Execs \cup {"none"}, doubt : BOOLEAN]

Working ==
  {a \in Fields : /\ a.at \in {"count", "write"} => a.then # "none"
                  /\ a.at = "write" => a.status \in Execs
                  /\ a.at = "read" => a.ok = {} /\ a.mute = {} /\ a.reply = "none"
                  /\ a.try /\ a.at \in {"count", "write"} => a.then # "idle"
                  /\ a.try => a.at \notin {"read", "onFailed"}}

\* A request, which recalculates at last.
Recounting ==
  [at : {"count", "write", "unqueue"}, then : {"none", "idle", "unqueue"},
   status : Execs \cup {"none"}, doubt : BOOLEAN]

Asking ==
  {Idle} \cup [at : {"adding", "failing"}] \cup
  {a \in Recounting : /\ a.at # "unqueue" => a.then # "none"
                      /\ a.at = "write" => a.status \in Execs}

Types ==
  /\ Items \subseteq Shops
  /\ item \in [Items -> Statuses]
  /\ actor = [x \in Actors |-> actor[x]]
  /\ \A w \in Workers : actor[w] \in {Idle} \cup Working
  /\ \A x \in {Creator, Canceller} : actor[x] \in Asking
  /\ host \in [Actors -> Processes]
  /\ lock = [p \in Processes |-> lock[p]]
  /\ exec \in Execs
  /\ posted \in [Shops -> Nat] /\ applied \subseteq Shops

Posting == {w \in Workers : actor[w].at = "post"}

\* What was submitted once never returns to 'pending' or 'processing', and
\* belongs to at most one worker that is about to POST it.
Sent ==
  /\ \A s \in Shops : /\ posted[s] <= 1
                      /\ posted[s] = 1 => s \in Items /\ item[s] \notin Unsent
  /\ \A s \in applied : posted[s] = 1
  /\ \A w \in Posting : \A s \in actor[w].unit : item[s] \notin Unsent /\ posted[s] = 0
  /\ \A v, w \in Posting : v # w => actor[v].unit \cap actor[w].unit = {}

\* The record of the stores is true.
Honest ==
  \A s \in Items : /\ item[s] = "success" => s \in applied
                   /\ item[s] \in {"failed", "cancelled"} => s \notin applied

\* Between the lock and its release; onFailed is called without it.
Inside(w) ==
  /\ actor[w].at \notin {"idle", "read", "onFailed"}
  /\ ~ (Counting(w) /\ actor[w].then = "idle")

\* Nothing more is submitted in this delivery.
Ending(w) ==
  \/ actor[w].at \in {"stop", "cancel", "done", "throw"}
  \/ Counting(w) /\ actor[w].then \in {"done", "throw", "stop"}

\* A unit has been answered and the answer not yet judged.
Judging(w) ==
  \/ actor[w].at \in {"persist", "dangling", "judge"}
  \/ Counting(w) /\ actor[w].then = "judge"

\* The execution is taken up again, and what was in doubt not yet considered.
Resuming(w) ==
  \/ actor[w].at = "recover"
  \/ actor[w].then = "decide" /\ (actor[w].at = "count" \/ (actor[w].at = "write" /\ actor[w].doubt))

\* What the worker inside the lock knows.
Knows(w) ==
  LET a == actor[w] IN
  /\ a.at \in {"post", "persist"} => Submitted \subseteq a.unit
  /\ a.at \notin {"recover", "post", "persist"} => Submitted = {}
  /\ a.at = "post" => \A s \in a.unit : item[s] \in {"submitting", "unconfirmed"}
  /\ ~ Ending(w) /\ ~ Judging(w) => a.ok = {} /\ a.mute = {} /\ a.reply = "none"
  /\ a.at = "persist" => \A s \in Submitted \ a.mute : s \in a.ok <=> s \in applied
  /\ ~ Ending(w) /\ ~ Resuming(w) /\ a.mute = {} => InDoubt = {} \/ Left = {}

Holds == \A w \in Workers : Inside(w) => lock[host[w]] = w /\ Knows(w)

BindInv == Types /\ Sent /\ (OneProcess => Honest /\ Holds)

-----------------------------------------------------------------------------
(* What a step leaves as it is.                                               *)

\* Only x goes anywhere.
Only(x) ==
  /\ actor' = [y \in Actors |-> actor'[y]]
  /\ \A y \in Actors \ {x} : actor'[y] = actor[y]

\* No item returns, and none is settled that DiDi has heard of, except in doubt.
Fades ==
  /\ item' \in [Items -> Statuses]
  /\ \A s \in Items :
       \/ item'[s] = item[s]
       \/ item[s] \in Unsent /\ item'[s] \in Unsent \cup {"failed", "cancelled"}
       \/ item[s] = "submitting" /\ item'[s] = "unconfirmed"

LEMMA Records ==
  /\ Idle.at = "idle"
  /\ Fresh \in Working /\ Fresh.at = "read"
  /\ Handler \in Working /\ Handler.at = "onFailed"
<1>1. Fresh \in Working /\ Fresh.at = "read"
  BY DEF Fresh, Working, Fields, Thens
<1>2. Handler \in Working /\ Handler.at = "onFailed"
  BY <1>1 DEF Handler, Working, Fields
<1> QED
  BY <1>1, <1>2 DEF Idle

LEMMA GoesTo ==
  ASSUME Types, NEW x \in Actors, NEW next, Goes(x, next)
  PROVE  actor'[x] = next /\ Only(x)
  BY DEF Types, Goes, Only

LEMMA Same == ASSUME Types, UNCHANGED item PROVE Fades /\ Left' = Left /\ Submitted' = Submitted /\ InDoubt' = InDoubt
  BY DEF Types, Fades, Left, Submitted, InDoubt, With, Items

LEMMA Fading ==
  ASSUME Types, Fades
  PROVE  Items' = Items /\ Working' = Working /\ Left' \subseteq Left /\ Submitted' \subseteq Submitted
<1>1. Items' = Items
  BY DEF Fades, Items
<1> QED
  BY <1>1 DEF Fades, Left, Submitted, With, Unsent, Working, Fields

LEMMA Marking ==
  ASSUME Types, NEW S, NEW From \in SUBSET Unsent, NEW To \in Unsent \cup {"failed", "cancelled"},
         item' = Marked(S, From, To)
  PROVE  Fades /\ Submitted' = Submitted /\ InDoubt' = InDoubt
<1>1. Fades
  BY DEF Types, Fades, Marked, Unsent, Statuses, Settled, Items
<1>2. Items' = Items
  BY <1>1, Fading
<1> QED
  BY <1>1, <1>2 DEF Marked, Submitted, InDoubt, With, Unsent

LEMMA Failing ==
  ASSUME Types, NEW Safe \in SUBSET Unsent, item' = SafelyFailed(Safe)
  PROVE  Fades /\ Submitted' = {} /\ (Safe = Unsent => Left' = {})
<1>1. Fades
  BY DEF Types, Fades, SafelyFailed, Unsent, Statuses, Settled, Items
<1>2. Items' = Items
  BY <1>1, Fading
<1> QED
  BY <1>1, <1>2 DEF SafelyFailed, Submitted, Left, With, Unsent

LEMMA SentStays ==
  ASSUME Types, Sent, Fades, UNCHANGED world, Posting' \subseteq Posting,
         \A v \in Posting' : actor'[v] = actor[v]
  PROVE  Sent'
<1>1. Items' = Items
  BY Fading
<1>2. \A s \in Items : item[s] \notin Unsent => item'[s] \notin Unsent
  BY DEF Fades, Unsent
<1>3. ASSUME NEW v \in Posting PROVE actor[v].unit \subseteq Items
  <2>1. actor[v] # Idle /\ v \in Workers
    BY <1>3 DEF Posting, Idle
  <2>2. actor[v] \in Working
    BY <2>1 DEF Types
  <2> QED
    BY <2>2 DEF Working, Fields
<1> QED
  BY <1>1, <1>2, <1>3 DEF Sent, world

LEMMA HonestStays ==
  ASSUME Types, Sent, Honest, Fades, UNCHANGED world
  PROVE  Honest'
<1>1. Items' = Items
  BY Fading
<1>2. \A s \in applied : item[s] \notin Unsent
  BY DEF Sent, Types
<1> QED
  BY <1>1, <1>2 DEF Honest, Fades, Unsent, world

LEMMA Alone ==
  ASSUME Holds, OneProcess, NEW w \in Workers, Inside(w)
  PROVE  \A v \in Workers : Inside(v) => v = w
  BY DEF Holds, OneProcess, Actors

\* A worker inside the lock goes on.
LEMMA Ahead ==
  ASSUME BindInv, NEW w \in Workers, Inside(w), NEW next \in Working, Goes(w, next), next.at # "post",
         Fades, UNCHANGED <<host, world, lock>>, exec' \in Execs,
         OneProcess => Knows(w)'
  PROVE  BindInv'
<1>1. actor'[w] = next /\ Only(w)
  BY GoesTo DEF BindInv, Actors
<1>2. Types'
  BY <1>1, Fading, BindingConstants DEF BindInv, Types, Only, world, Actors, Fades
<1>3. Sent'
  <2>1. Posting' \subseteq Posting /\ \A v \in Posting' : actor'[v] = actor[v]
    BY <1>1 DEF Posting, Only, Actors
  <2> QED
    BY <2>1, SentStays DEF BindInv
<1>4. ASSUME OneProcess PROVE Honest' /\ Holds'
  <2>1. Honest'
    BY <1>4, HonestStays DEF BindInv
  <2>2. \A v \in Workers : Inside(v) => v = w
    BY <1>4, Alone DEF BindInv
  <2>3. \A v \in Workers \ {w} : ~ Inside(v)'
    BY <1>1, <2>2 DEF Inside, Counting, Only, Actors
  <2>4. lock'[host'[w]] = w
    BY <1>4 DEF BindInv, Holds
  <2> QED
    BY <1>4, <2>1, <2>3, <2>4 DEF Holds
<1> QED
  BY <1>2, <1>3, <1>4 DEF BindInv, OneProcess

\* A worker outside the lock, or a request, goes on.
LEMMA Beside ==
  ASSUME BindInv, NEW x \in Actors, NEW next, Goes(x, next),
         x \in Workers => next \in {Idle} \cup Working /\ next.at # "post" /\ ~ Inside(x)',
         x \notin Workers => next \in Asking,
         Fades, UNCHANGED <<host, world>>, exec' \in Execs,
         lock' = [p \in Processes |-> lock'[p]],
         \A v \in Workers \ {x} : lock[host[v]] = v => lock'[host[v]] = v,
         InDoubt' \subseteq InDoubt \/ Left' = {}
  PROVE  BindInv'
<1>1. actor'[x] = next /\ Only(x)
  BY GoesTo DEF BindInv
<1>2. Types'
  BY <1>1, Fading, BindingConstants DEF BindInv, Types, Only, world, Actors, Fades
<1>3. Sent'
  <2>1. Posting' \subseteq Posting /\ \A v \in Posting' : actor'[v] = actor[v]
    BY <1>1 DEF Posting, Only, Actors
  <2> QED
    BY <2>1, SentStays DEF BindInv
<1>4. ASSUME OneProcess PROVE Honest' /\ Holds'
  <2>1. Honest'
    BY <1>4, HonestStays DEF BindInv
  <2>2. ASSUME NEW v \in Workers, Inside(v)' PROVE lock'[host'[v]] = v /\ Knows(v)'
    <3>1. v # x /\ actor'[v] = actor[v]
      BY <1>1, <2>2 DEF Only, Actors
    <3>2. Inside(v)
      BY <2>2, <3>1 DEF Inside, Counting
    <3>3. lock[host[v]] = v /\ Knows(v)
      BY <1>4, <3>2 DEF BindInv, Holds
    <3>4. Knows(v)'
      <4>1. actor[v].at = "post" => \A s \in actor[v].unit : item'[s] \in {"submitting", "unconfirmed"}
        <5>1. SUFFICES ASSUME actor[v].at = "post" PROVE \A s \in actor[v].unit : item'[s] \in {"submitting", "unconfirmed"}
          OBVIOUS
        <5>2. actor[v] \in Working /\ actor[v].unit \subseteq Items
          BY <5>1, Records DEF BindInv, Types, Working, Fields
        <5> QED
          BY <3>3, <5>1, <5>2 DEF Knows, Fades, Unsent
      <4> QED
        BY <3>1, <3>3, <4>1, Fading DEF BindInv, Knows, Ending, Judging, Resuming, Counting, world
    <3> QED
      BY <3>1, <3>3, <3>4
  <2> QED
    BY <2>1, <2>2 DEF Holds
<1> QED
  BY <1>2, <1>3, <1>4 DEF BindInv, OneProcess

\* A worker leaves the lock and its job.
LEMMA Leaving ==
  ASSUME BindInv, NEW w \in Workers, NEW next \in {Idle, Handler}, NEW j, Leaves(w, next, j),
         UNCHANGED <<exec, item, host, world>>
  PROVE  BindInv'
<1>1. actor'[w] = next /\ Goes(w, next)
  BY GoesTo DEF BindInv, Leaves, Actors
<1>2. next \in {Idle} \cup Working /\ next.at # "post" /\ ~ Inside(w)'
  BY <1>1, Records DEF Idle, Inside
<1>3. Fades /\ InDoubt' = InDoubt
  BY Same DEF BindInv
<1>4. lock' = [p \in Processes |-> lock'[p]] /\ \A v \in Workers \ {w} : lock[host[v]] = v => lock'[host[v]] = v
  BY DEF Leaves, BindInv, Types, Actors
<1> QED
  BY <1>1, <1>2, <1>3, <1>4, Beside DEF BindInv, Types, Actors

LEMMA Completing ==
  ASSUME BindInv, NEW w \in Workers, Completes(w) \/ FailsJob(w), UNCHANGED <<exec, item, host, world>>
  PROVE  BindInv'
  BY Leaving DEF Completes, FailsJob

-----------------------------------------------------------------------------
(* The requests.                                                              *)

LEMMA InitInv == Init => BindInv
<1> SUFFICES ASSUME Init PROVE BindInv
  OBVIOUS
<1>1. Types
  BY BindingConstants DEF Init, Types, Asking, Statuses, Unsent, Execs, Active, Idle, Actors, Items
<1>2. \A w \in Workers : actor[w] = Idle
  BY BindingConstants DEF Init, Actors
<1> QED
  BY <1>1, <1>2 DEF BindInv, Init, Sent, Posting, Honest, Holds, Inside, Idle, Items

\* A request goes on, and fails or cancels what has not been submitted at most.
LEMMA Requests ==
  ASSUME BindInv, NEW x \in {Creator, Canceller}, NEW next \in Asking, Goes(x, next), exec' \in Execs,
         UNCHANGED <<host, world, lock>>, Fades, InDoubt' = InDoubt
  PROVE  BindInv'
<1>1. x \in Actors /\ x \notin Workers /\ lock' = [p \in Processes |-> lock'[p]]
  BY BindingConstants DEF Actors, BindInv, Types
<1> QED
  BY <1>1, Beside

LEMMA EnqueueInv == ASSUME BindInv, Enqueue \/ EnqueueFails \/ Unqueue PROVE BindInv'
<1> DEFINE failing == [actor[Creator] EXCEPT !.at = "failing"]
<1>1. UNCHANGED <<exec, item, host, world, lock>>
  BY DEF Enqueue, EnqueueFails, Unqueue
<1>2. CASE Enqueue \/ EnqueueFails
  <2>1. actor[Creator] \in [at : {"adding", "failing"}]
    BY <1>2 DEF Enqueue, EnqueueFails, BindInv, Types, Asking, Recounting, Idle
  <2>2. failing \in Asking /\ Idle \in Asking
    BY <2>1 DEF Asking
  <2>3. Goes(Creator, failing) \/ Goes(Creator, Idle)
    BY <1>2 DEF Enqueue, EnqueueFails, Moves
  <2> QED
    BY <1>1, <2>2, <2>3, Requests, Same DEF BindInv, Types
<1>3. CASE Unqueue
  BY <1>1, <1>3, Requests, Same DEF Unqueue, Asking, BindInv, Types
<1> QED
  BY <1>2, <1>3

LEMMA GiveUpInv == ASSUME BindInv, GiveUp PROVE BindInv'
<1>1. Fades /\ InDoubt' = InDoubt
  BY Marking DEF GiveUp, BindInv, Unsent
<1>2. Clerk("idle") \in Asking
  BY DEF Clerk, Asking, Recounting
<1> QED
  BY <1>1, <1>2, Requests DEF GiveUp, Execs

LEMMA CancelInv == ASSUME BindInv, Cancel PROVE BindInv'
<1>1. CASE exec' = "cancelled" /\ item' = Marked(Items, {"pending"}, "cancelled") /\ Goes(Canceller, Clerk("unqueue"))
  <2>1. Fades /\ InDoubt' = InDoubt
    BY <1>1, Marking DEF BindInv, Unsent
  <2>2. Clerk("unqueue") \in Asking
    BY DEF Clerk, Asking, Recounting
  <2> QED
    BY <1>1, <2>1, <2>2, Requests DEF Cancel, Execs
<1>2. CASE UNCHANGED <<exec, item, actor>>
  <2>1. actor' = [actor EXCEPT ![Canceller] = actor[Canceller]]
    BY <1>2 DEF BindInv, Types
  <2> QED
    BY <1>2, <2>1, Requests, Same DEF Cancel, Goes, BindInv, Types
<1> QED
  BY <1>1, <1>2 DEF Cancel

LEMMA VerdictType == ASSUME Types PROVE Verdict \in Execs
  BY DEF Verdict, Types, Execs


LEMMA AtWork == ASSUME BindInv, NEW w \in Workers, actor[w].at # "idle" PROVE actor[w] \in Working
  BY Records DEF BindInv, Types

LEMMA AtWorkInside ==
  ASSUME BindInv, NEW w \in Workers, actor[w].at \notin {"idle", "read", "onFailed", "count", "write"}
  PROVE  /\ actor[w] \in Working /\ Inside(w)
         /\ OneProcess => Knows(w)
  BY AtWork DEF Inside, Counting, BindInv, Holds

\* The worker recalculates next.
LEMMA Counted ==
  ASSUME BindInv, NEW w \in Workers, actor[w] \in Working, NEW then \in Thens \ {"none"}, Counts(w, then),
         then = "idle" => ~ actor[w].try
  PROVE  \E next \in Working : /\ Goes(w, next) /\ actor'[w] = next
                               /\ next.at = "count" /\ next.then = then
                               /\ next.ok = actor[w].ok /\ next.reply = actor[w].reply /\ next.mute = actor[w].mute
<1> DEFINE next == [actor[w] EXCEPT !.at = "count", !.then = then]
<1>1. next \in Working /\ next.at = "count" /\ next.then = then /\ next.ok = actor[w].ok /\ next.reply = actor[w].reply /\ next.mute = actor[w].mute
  BY DEF Working, Fields
<1> QED
  BY <1>1, GoesTo DEF Counts, BindInv, Actors

LEMMA CountInv == ASSUME BindInv, NEW x \in Actors, Count(x) PROVE BindInv'
<1>1. UNCHANGED <<exec, item, host, world, lock>> /\ exec' \in Execs /\ Verdict \in Execs
  BY VerdictType DEF Count, BindInv, Types
<1>2. Fades /\ InDoubt' = InDoubt /\ Submitted' = Submitted /\ Left' = Left
  BY <1>1, Same DEF BindInv
<1>3. CASE x \notin Workers
  <2> DEFINE next == [actor[x] EXCEPT !.at = "write", !.status = Verdict, !.doubt = With({"unconfirmed"}) # {}]
  <2>1. x \in {Creator, Canceller} /\ actor[x] \in Asking /\ actor[x].at = "count"
    BY <1>3 DEF Count, Actors, BindInv, Types
  <2>2. actor[x] \in Recounting /\ actor[x].then # "none"
    BY <2>1 DEF Asking, Idle
  <2>3. next \in Recounting /\ next.at = "write" /\ next.status = Verdict /\ next.then = actor[x].then
    BY <1>1, <2>2 DEF Recounting
  <2>4. next \in Asking
    BY <1>1, <2>2, <2>3 DEF Asking
  <2> QED
    BY <1>1, <1>2, <2>1, <2>4, Requests DEF Count
<1>4. CASE x \in Workers
  <2> DEFINE next == [actor[x] EXCEPT !.at = "write", !.status = Verdict, !.doubt = With({"unconfirmed"}) # {}]
  <2>1. actor[x] \in Working /\ actor[x].at = "count"
    BY <1>4, AtWork DEF Count
  <2>2. /\ next \in Working /\ next.at = "write" /\ next.then = actor[x].then
        /\ next.ok = actor[x].ok /\ next.reply = actor[x].reply /\ next.mute = actor[x].mute /\ next.doubt = (InDoubt # {})
    <3> DEFINE Written(v, d) == [actor[x] EXCEPT !.at = "write", !.status = v, !.doubt = d]
    <3>1. ASSUME NEW v \in Execs, NEW d \in BOOLEAN
          PROVE /\ Written(v, d) \in Working
                /\ Written(v, d).at = "write" /\ Written(v, d).then = actor[x].then
                /\ Written(v, d).ok = actor[x].ok /\ Written(v, d).reply = actor[x].reply
                /\ Written(v, d).mute = actor[x].mute
                /\ Written(v, d).doubt = d
      BY <2>1 DEF Working, Fields
    <3>2. next = Written(Verdict, With({"unconfirmed"}) # {})
      OBVIOUS
    <3> HIDE DEF next, Written
    <3> QED
      BY <1>1, <3>1, <3>2 DEF InDoubt
  <2> HIDE DEF next
  <2>3. Goes(x, next) /\ actor'[x] = next
    BY GoesTo DEF next, Count, BindInv
  <2>4. CASE actor[x].then = "idle"
    <3>1. ~ Inside(x)'
      BY <2>2, <2>3, <2>4 DEF Inside, Counting
    <3> QED
      BY <1>1, <1>2, <1>4, <2>2, <2>3, <3>1, Beside DEF BindInv, Types
  <2>5. CASE actor[x].then # "idle"
    <3>1. Inside(x)
      BY <2>1, <2>5 DEF Inside, Counting
    <3>2. ASSUME OneProcess PROVE Knows(x)'
      <4>1. Knows(x)
        BY <1>4, <3>1, <3>2 DEF BindInv, Holds
      <4> QED
        BY <1>1, <1>2, <2>1, <2>2, <2>3, <4>1 DEF Knows, Ending, Judging, Resuming, Counting
    <3> QED
      BY <1>1, <1>2, <1>4, <2>2, <2>3, <3>1, <3>2, Ahead
  <2> QED
    BY <2>4, <2>5
<1> QED
  BY <1>3, <1>4

LEMMA WriteInv == ASSUME BindInv, NEW x \in Actors, Write(x) PROVE BindInv'
<1>1. UNCHANGED <<item, host, world, lock>> /\ exec' \in Execs
  <2>1. CASE x \in Workers
    BY <2>1, AtWork DEF Write, Working
  <2>2. CASE x \notin Workers
    BY <2>2 DEF Write, Actors, BindInv, Types, Asking, Recounting, Idle
  <2> QED
    BY <2>1, <2>2 DEF Write
<1>2. Fades /\ InDoubt' = InDoubt /\ Submitted' = Submitted /\ Left' = Left
  BY <1>1, Same DEF BindInv
<1>3. CASE x \notin Workers
  <2> DEFINE next == [actor[x] EXCEPT !.at = "unqueue", !.then = "none", !.status = "none", !.doubt = FALSE]
  <2>1. x \in {Creator, Canceller} /\ actor[x] \in Asking /\ actor[x].at = "write"
    BY <1>3 DEF Write, Actors, BindInv, Types
  <2>2. next \in Asking /\ Idle \in Asking /\ actor[x].then \in {"idle", "unqueue"}
    <3>1. actor[x] \in Recounting /\ actor[x].then # "none"
      BY <2>1 DEF Asking, Idle
    <3>2. next \in Recounting /\ next.at = "unqueue"
      BY <3>1 DEF Recounting
    <3> QED
      BY <3>1, <3>2 DEF Asking, Recounting
  <2>3. Goes(x, next) \/ Goes(x, Idle)
    BY <2>2 DEF Write
  <2> QED
    BY <1>1, <1>2, <2>1, <2>2, <2>3, Requests
<1>4. CASE x \in Workers
  <2>1. actor[x] \in Working /\ actor[x].at = "write"
    BY <1>4, AtWork DEF Write
  <2>2. CASE actor[x].then = "idle"
    <3>1. Goes(x, Idle) /\ actor'[x] = Idle
      BY <2>2, GoesTo DEF Write, BindInv
    <3>2. ~ Inside(x)'
      BY <3>1, Records DEF Inside
    <3> QED
      BY <1>1, <1>2, <1>4, <3>1, <3>2, Records, Beside DEF BindInv, Types
  <2>3. CASE actor[x].then # "idle"
    <3> DEFINE at == IF actor[x].then = "decide" THEN WhatNext(x) ELSE actor[x].then
               next == [actor[x] EXCEPT !.at = at, !.then = "none", !.status = "none", !.doubt = FALSE]
    <3>1. at \in {"done", "throw", "judge", "loop", "stop", "next", "cancel", "allow"}
      BY <2>1, <2>3 DEF WhatNext, Working, Fields, Thens
    <3>2. /\ next \in Working /\ next.at = at /\ next.then = "none"
          /\ next.ok = actor[x].ok /\ next.reply = actor[x].reply /\ next.mute = actor[x].mute
      <4> HIDE DEF at
      <4> QED
        BY <2>1, <3>1 DEF Working, Fields, Thens, Trying
    <3> HIDE DEF next
    <3>3. Goes(x, next) /\ actor'[x] = next
      BY <2>3, GoesTo DEF next, Write, BindInv
    <3>4. Inside(x)
      BY <2>1, <2>3 DEF Inside, Counting
    <3>5. ASSUME OneProcess PROVE Knows(x)'
      <4>1. Knows(x)
        BY <1>4, <3>4, <3>5 DEF BindInv, Holds
      <4>2. actor[x].then = "decide" /\ at = "allow" => ~ actor[x].doubt
        BY DEF WhatNext
      <4>3. actor[x].then = "decide" => at \in {"done", "stop", "cancel", "allow"}
        BY DEF WhatNext
      <4> HIDE DEF at
      <4> QED
        BY <1>1, <1>2, <2>1, <2>3, <3>1, <3>2, <3>3, <4>1, <4>2, <4>3 DEF Knows, Ending, Judging, Resuming, Counting, at
    <3> QED
      BY <1>1, <1>2, <1>4, <3>1, <3>2, <3>3, <3>4, <3>5, Ahead
  <2> QED
    BY <2>2, <2>3
<1> QED
  BY <1>3, <1>4


-----------------------------------------------------------------------------
(* The steps of a worker, one by one.                                         *)

LEMMA TakeInv == ASSUME BindInv, NEW w \in Workers, Take(w) PROVE BindInv'
<1>1. Goes(w, Fresh) /\ actor'[w] = Fresh
  BY GoesTo DEF Take, BindInv, Actors
<1>2. ~ Inside(w)'
  BY <1>1, Records DEF Inside
<1> QED
  BY <1>1, <1>2, Records, Same, Beside DEF Take, BindInv, Types, Actors

LEMMA LockInv == ASSUME BindInv, NEW w \in Workers, Lock(w) PROVE BindInv'
<1>1. CASE Completes(w) \/ FailsJob(w)
  BY <1>1, Completing DEF Lock
<1>2. CASE lock[host[w]] = NoOne /\ lock' = [lock EXCEPT ![host[w]] = w] /\ Moves(w, "recover")
  <2> DEFINE next == [actor[w] EXCEPT !.at = "recover"]
  <2>1. actor[w] \in Working /\ actor[w].at = "read"
    BY AtWork DEF Lock
  <2>2. next \in Working /\ next.at = "recover" /\ next.ok = {} /\ next.mute = {} /\ next.reply = "none"
    BY <2>1 DEF Working, Fields, Trying
  <2>3. actor'[w] = next /\ Only(w) /\ UNCHANGED <<exec, item, host, world>>
    BY <1>2, GoesTo DEF Lock, Moves, BindInv, Actors
  <2> HIDE DEF next
  <2>4. Fades /\ Submitted' = Submitted /\ Left' = Left /\ InDoubt' = InDoubt
    BY <2>3, Same DEF BindInv
  <2>5. Types'
    BY <1>2, <2>2, <2>3, <2>4, Fading, BindingConstants DEF BindInv, Types, Only, world, Actors, Fades
  <2>6. Sent'
    <3>1. Posting' \subseteq Posting /\ \A v \in Posting' : actor'[v] = actor[v]
      BY <2>2, <2>3 DEF Posting, Only, Actors
    <3> QED
      BY <2>3, <2>4, <3>1, SentStays DEF BindInv
  <2>7. ASSUME OneProcess PROVE Honest' /\ Holds'
    <3>1. Honest'
      BY <2>3, <2>4, <2>7, HonestStays DEF BindInv
    <3>2. \A v \in Workers : ~ Inside(v)
      BY <1>2, <2>7, BindingConstants DEF BindInv, Holds, OneProcess, Actors
    <3>3. \A v \in Workers \ {w} : ~ Inside(v)'
      BY <2>3, <3>2 DEF Inside, Counting, Only, Actors
    <3>4. lock'[host'[w]] = w
      BY <1>2, <2>3 DEF BindInv, Types, Actors
    <3>5. Knows(w)'
      BY <2>2, <2>3 DEF Knows, Resuming
    <3> QED
      BY <3>1, <3>3, <3>4, <3>5 DEF Holds
  <2> QED
    BY <2>3, <2>5, <2>6, <2>7 DEF BindInv, OneProcess
<1> QED
  BY <1>1, <1>2 DEF Lock

\* A worker inside the lock that has nothing more to submit recalculates.
LEMMA Ends ==
  ASSUME BindInv, NEW w \in Workers, Inside(w), actor[w] \in Working, NEW then \in {"done", "throw"},
         Counts(w, then), Fades, Submitted' = {}, UNCHANGED <<exec, host, world, lock>>
  PROVE  BindInv'
<1>1. PICK next \in Working : Goes(w, next) /\ actor'[w] = next /\ next.at = "count" /\ next.then = then
  BY Counted DEF Thens
<1>2. Knows(w)'
  BY <1>1 DEF Knows, Ending, Counting
<1> QED
  BY <1>1, <1>2, Ahead DEF BindInv, Types

LEMMA RecoverInv == ASSUME BindInv, NEW w \in Workers, Recover(w) PROVE BindInv'
<1>1. CASE Completes(w) /\ UNCHANGED item
  BY <1>1, Completing DEF Recover
<1>2. CASE /\ item' = [s \in Items |-> CASE item[s] = "processing" -> "pending"
                                      [] item[s] = "submitting" -> "unconfirmed"
                                      [] OTHER -> item[s]]
           /\ Counts(w, "decide") /\ UNCHANGED <<queue, lock>>
  <2>1. actor[w] \in Working /\ Inside(w) /\ actor[w].at = "recover" /\ (OneProcess => Knows(w))
    BY AtWorkInside DEF Recover
  <2>2. Fades
    BY <1>2 DEF BindInv, Types, Fades, Unsent, Statuses, Settled, Items
  <2>3. Items' = Items
    BY <2>2, Fading DEF BindInv
  <2>4. Submitted' = {}
    BY <1>2, <2>3 DEF Submitted, With
  <2>5. PICK next \in Working : /\ Goes(w, next) /\ actor'[w] = next
                               /\ next.at = "count" /\ next.then = "decide"
                               /\ next.ok = actor[w].ok /\ next.reply = actor[w].reply /\ next.mute = actor[w].mute
    BY <1>2, <2>1, Counted DEF Thens
  <2>6. ASSUME OneProcess PROVE Knows(w)'
    BY <2>1, <2>4, <2>5, <2>6 DEF Knows, Ending, Judging, Resuming, Counting
  <2> QED
    BY <1>2, <2>1, <2>2, <2>5, <2>6, Ahead DEF Recover, BindInv, Types
<1> QED
  BY <1>1, <1>2 DEF Recover

LEMMA AllowInv == ASSUME BindInv, NEW w \in Workers, Allow(w) PROVE BindInv'
<1>1. actor[w] \in Working /\ Inside(w) /\ actor[w].at = "allow" /\ (OneProcess => Knows(w))
  BY AtWorkInside DEF Allow
<1>2. CASE exec' = "running" /\ Goes(w, [actor[w] EXCEPT !.at = "loop", !.try = TRUE]) /\ UNCHANGED item
  <2> DEFINE next == [actor[w] EXCEPT !.at = "loop", !.try = TRUE]
  <2>1. next \in Working /\ next.at = "loop" /\ next.ok = actor[w].ok /\ next.reply = actor[w].reply /\ next.mute = actor[w].mute
    BY <1>1 DEF Working, Fields, Trying
  <2>2. Goes(w, next) /\ actor'[w] = next
    BY <1>2, GoesTo DEF BindInv, Actors
  <2> HIDE DEF next
  <2>3. Fades /\ Submitted' = Submitted /\ Left' = Left /\ InDoubt' = InDoubt
    BY <1>2, Same DEF BindInv
  <2>4. ASSUME OneProcess PROVE Knows(w)'
    BY <1>1, <2>1, <2>2, <2>3, <2>4 DEF Knows, Ending, Judging, Resuming, Counting
  <2> QED
    BY <1>1, <1>2, <2>1, <2>2, <2>3, <2>4, Ahead DEF Allow, Execs, Active
<1>3. CASE item' = SafelyFailed({"pending", "processing"}) /\ Counts(w, "done") /\ UNCHANGED exec
  BY <1>1, <1>3, Failing, Ends DEF Allow, BindInv, Unsent
<1> QED
  BY <1>2, <1>3 DEF Allow

LEMMA StopInv == ASSUME BindInv, NEW w \in Workers, Stop(w) \/ CancelRest(w) PROVE BindInv'
<1>1. actor[w] \in Working /\ Inside(w) /\ actor[w].at \in {"stop", "cancel"} /\ (OneProcess => Knows(w))
  BY AtWorkInside DEF Stop, CancelRest
<1>2. Fades /\ Submitted' = Submitted /\ Counts(w, "done") /\ UNCHANGED <<exec, host, world, lock>>
  BY Marking DEF Stop, CancelRest, BindInv, Unsent
<1>3. PICK next \in Working : Goes(w, next) /\ actor'[w] = next /\ next.at = "count" /\ next.then = "done"
  BY <1>1, <1>2, Counted DEF Thens
<1>4. ASSUME OneProcess PROVE Knows(w)'
  BY <1>1, <1>2, <1>3, <1>4 DEF Knows, Ending, Counting
<1> QED
  BY <1>1, <1>2, <1>3, <1>4, Ahead DEF BindInv, Types

LEMMA DoneInv == ASSUME BindInv, NEW w \in Workers, Done(w) \/ Thrown(w) PROVE BindInv'
  BY Completing DEF Done, Thrown


\* Where a worker may be when all it has submitted is settled.
Open == {"loop", "claim", "verify", "next", "submit"}

\* The worker goes on from such a place, and the items are as they were or fail.
LEMMA GoesOn ==
  ASSUME BindInv, NEW w \in Workers, actor[w].at \in Open, NEW next \in Working, Goes(w, next),
         Fades, Submitted' = Submitted, InDoubt' = InDoubt, UNCHANGED <<exec, host, world, lock>>,
         next.ok = actor[w].ok, next.reply = actor[w].reply, next.mute = actor[w].mute,
         \/ next.at \in Open \cup {"stop", "cancel"}
         \/ next.at = "count" /\ next.then \in {"loop", "done", "stop"}
  PROVE  BindInv'
<1>1. actor[w] \in Working /\ Inside(w) /\ (OneProcess => Knows(w))
  BY AtWorkInside DEF Open
<1>2. actor'[w] = next /\ Left' \subseteq Left
  BY GoesTo, Fading DEF BindInv, Actors
<1>3. ASSUME OneProcess PROVE Knows(w)'
  BY <1>1, <1>2, <1>3 DEF Knows, Ending, Judging, Resuming, Counting, Open
<1> QED
  BY <1>1, <1>3, Ahead DEF Open, BindInv, Types

LEMMA SelectInv == ASSUME BindInv, NEW w \in Workers, Select(w) PROVE BindInv'
<1>1. actor[w] \in Working /\ actor[w].at \in Open
  BY AtWork DEF Select, Open
<1>2. Fades /\ Submitted' = Submitted /\ InDoubt' = InDoubt /\ UNCHANGED <<exec, host, world, lock>>
  BY Same DEF Select, BindInv
<1>3. CASE Moves(w, "cancel")
  <2> DEFINE next == [actor[w] EXCEPT !.at = "cancel"]
  <2>1. next \in Working /\ next.at = "cancel" /\ next.ok = actor[w].ok /\ next.reply = actor[w].reply /\ next.mute = actor[w].mute
    BY <1>1 DEF Working, Fields, Trying
  <2> QED
    BY <1>1, <1>2, <1>3, <2>1, GoesOn DEF Moves
<1>4. CASE Counts(w, "done")
  BY <1>1, <1>2, <1>4, Counted, GoesOn DEF Thens
<1>5. ASSUME NEW page \in SUBSET Items, NEW unit \in SUBSET Items,
             Goes(w, [actor[w] EXCEPT !.at = "claim", !.page = page, !.unit = unit])
      PROVE  BindInv'
  <2> DEFINE next == [actor[w] EXCEPT !.at = "claim", !.page = page, !.unit = unit]
  <2>1. next \in Working /\ next.at = "claim" /\ next.ok = actor[w].ok /\ next.reply = actor[w].reply /\ next.mute = actor[w].mute
    BY <1>1 DEF Working, Fields, Trying
  <2> QED
    BY <1>1, <1>2, <1>5, <2>1, GoesOn DEF Open
<1> QED
  <2>1. \A B : B \cap With({"pending"}) \subseteq Items
    BY DEF With
  <2> QED
    BY <1>3, <1>4, <1>5, <2>1 DEF Select

LEMMA ClaimInv == ASSUME BindInv, NEW w \in Workers, Claim(w) PROVE BindInv'
<1> DEFINE at == IF action = "bind" THEN "submit" ELSE "verify"
           next == [actor[w] EXCEPT !.at = at]
<1>1. actor[w] \in Working /\ actor[w].at \in Open
  BY AtWork DEF Claim, Open
<1>2. Fades /\ Submitted' = Submitted /\ InDoubt' = InDoubt /\ UNCHANGED <<exec, host, world, lock>>
  BY Marking DEF Claim, BindInv, Unsent
<1>3. next \in Working /\ next.at \in Open /\ next.ok = actor[w].ok /\ next.reply = actor[w].reply /\ next.mute = actor[w].mute
  BY <1>1 DEF Working, Fields, Trying, Open
<1> QED
  BY <1>1, <1>2, <1>3, GoesOn DEF Claim, Moves

LEMMA VerifyInv == ASSUME BindInv, NEW w \in Workers, Verify(w) PROVE BindInv'
<1> DEFINE page == actor[w].page
<1>1. actor[w] \in Working /\ actor[w].at \in Open
  BY AtWork DEF Verify, Open
<1>2. Fades /\ Submitted' = Submitted /\ InDoubt' = InDoubt /\ UNCHANGED <<exec, host, world, lock>>
  BY Marking DEF Verify, BindInv, Unsent
<1>3. page \subseteq Items /\ Cardinality(page) \in Nat /\ actor[w].misses \in Nat
  <2>1. page \subseteq Items /\ actor[w].misses \in Nat
    BY <1>1 DEF Working, Fields
  <2>2. IsFiniteSet(page)
    BY <2>1, BindingConstants, FS_Subset DEF BindInv, Types
  <2> QED
    BY <2>1, <2>2, FS_CardinalityType
<1>4. ASSUME NEW good \in SUBSET page, Goes(w, [actor[w] EXCEPT !.at = "next", !.rest = good])
      PROVE  BindInv'
  <2> DEFINE next == [actor[w] EXCEPT !.at = "next", !.rest = good]
  <2>1. next \in Working /\ next.at \in Open /\ next.ok = actor[w].ok /\ next.reply = actor[w].reply /\ next.mute = actor[w].mute
    BY <1>1, <1>3 DEF Working, Fields, Trying, Open
  <2> QED
    BY <1>1, <1>2, <1>4, <2>1, GoesOn
<1>5. ASSUME NEW n \in Nat, NEW then \in {"stop", "loop"},
             Goes(w, [actor[w] EXCEPT !.at = "count", !.page = {}, !.misses = n, !.then = then])
      PROVE  BindInv'
  <2> DEFINE next == [actor[w] EXCEPT !.at = "count", !.page = {}, !.misses = n, !.then = then]
  <2>1. /\ next \in Working /\ next.at = "count" /\ next.then = then
        /\ next.ok = actor[w].ok /\ next.reply = actor[w].reply /\ next.mute = actor[w].mute
    BY <1>1 DEF Working, Fields, Thens
  <2> QED
    BY <1>1, <1>2, <1>5, <2>1, GoesOn
<1> QED
  <2>1. actor[w].misses + Cardinality(page) \in Nat
    BY <1>3
  <2>2. After(w, Cardinality(page), "loop") \in {"stop", "loop"}
    BY DEF After
  <2> QED
    BY <1>4, <1>5, <2>1, <2>2 DEF Verify

LEMMA NextStoreInv == ASSUME BindInv, NEW w \in Workers, NextStore(w) PROVE BindInv'
<1>1. actor[w] \in Working /\ actor[w].at \in Open
  BY AtWork DEF NextStore, Open
<1>2. Fades /\ Submitted' = Submitted /\ InDoubt' = InDoubt /\ UNCHANGED <<exec, host, world, lock>>
  BY Same, Marking DEF NextStore, BindInv, Unsent
<1>3. CASE Moves(w, "cancel")
  <2> DEFINE next == [actor[w] EXCEPT !.at = "cancel"]
  <2>1. next \in Working /\ next.at = "cancel" /\ next.ok = actor[w].ok /\ next.reply = actor[w].reply /\ next.mute = actor[w].mute
    BY <1>1 DEF Working, Fields, Trying
  <2> QED
    BY <1>1, <1>2, <1>3, <2>1, GoesOn DEF Moves
<1>4. ASSUME NEW s \in actor[w].rest,
             Goes(w, [actor[w] EXCEPT !.at = "submit", !.unit = {s}, !.rest = actor[w].rest \ {s}])
      PROVE  BindInv'
  <2> DEFINE next == [actor[w] EXCEPT !.at = "submit", !.unit = {s}, !.rest = actor[w].rest \ {s}]
  <2>1. next \in Working /\ next.at \in Open /\ next.ok = actor[w].ok /\ next.reply = actor[w].reply /\ next.mute = actor[w].mute
    BY ZenonT(60), <1>1 DEF Working, Fields, Trying, Open
  <2> QED
    BY <1>1, <1>2, <1>4, <2>1, GoesOn
<1>5. CASE Goes(w, [actor[w] EXCEPT !.at = "count", !.then = "loop", !.page = {}])
  <2> DEFINE next == [actor[w] EXCEPT !.at = "count", !.then = "loop", !.page = {}]
  <2>1. /\ next \in Working /\ next.at = "count" /\ next.then = "loop"
        /\ next.ok = actor[w].ok /\ next.reply = actor[w].reply /\ next.mute = actor[w].mute
    BY <1>1 DEF Working, Fields, Thens
  <2> QED
    BY <1>1, <1>2, <1>5, <2>1, GoesOn
<1> QED
  BY <1>3, <1>4, <1>5 DEF NextStore

LEMMA RefusedInv == ASSUME BindInv, NEW w \in Workers, Refused(w) PROVE BindInv'
<1>1. actor[w] \in Working /\ actor[w].at \in Open
  BY AtWork DEF Refused, Open
<1>2. Fades /\ Submitted' = Submitted /\ InDoubt' = InDoubt /\ UNCHANGED <<exec, host, world, lock>>
  BY Marking DEF Refused, BindInv, Unsent
<1> DEFINE more == actor[w].misses + 1
           failed == [actor[w] EXCEPT !.unit = {}, !.misses = more]
<1>3. failed \in Working /\ failed.ok = actor[w].ok /\ failed.reply = actor[w].reply /\ failed.mute = actor[w].mute
  <2>1. more \in Nat
    BY <1>1 DEF Working, Fields
  <2> HIDE DEF more
  <2> QED
    BY <1>1, <2>1 DEF Working, Fields
<1>4. After(w, 1, "loop") \in {"stop", "loop"} /\ After(w, 1, "next") \in {"stop", "next"}
  BY DEF After
<1>5. \/ Goes(w, [failed EXCEPT !.at = "count", !.then = After(w, 1, "loop")])
      \/ Goes(w, [failed EXCEPT !.at = After(w, 1, "next")])
  BY DEF Refused
<1> HIDE DEF failed
<1>6. ASSUME NEW then \in {"stop", "loop"}, Goes(w, [failed EXCEPT !.at = "count", !.then = then])
      PROVE  BindInv'
  <2> DEFINE next == [failed EXCEPT !.at = "count", !.then = then]
  <2>1. /\ next \in Working /\ next.at = "count" /\ next.then = then
        /\ next.ok = actor[w].ok /\ next.reply = actor[w].reply /\ next.mute = actor[w].mute
    BY <1>3 DEF Working, Fields, Thens
  <2> QED
    BY <1>1, <1>2, <1>6, <2>1, GoesOn
<1>7. ASSUME NEW at \in {"stop", "next"}, Goes(w, [failed EXCEPT !.at = at])
      PROVE  BindInv'
  <2> DEFINE next == [failed EXCEPT !.at = at]
  <2>1. next \in Working /\ next.at = at /\ next.ok = actor[w].ok /\ next.reply = actor[w].reply /\ next.mute = actor[w].mute
    BY <1>3 DEF Working, Fields, Trying
  <2> QED
    BY <1>1, <1>2, <1>7, <2>1, GoesOn DEF Open
<1> QED
  BY <1>4, <1>5, <1>6, <1>7

-----------------------------------------------------------------------------
(* A unit is submitted, answered and judged.                                  *)

LEMMA SubmitInv == ASSUME BindInv, NEW w \in Workers, Submit(w) PROVE BindInv'
<1> DEFINE a == actor[w]
           unsent == [a EXCEPT !.at = "persist", !.reply = "unsent"]
           sends == [a EXCEPT !.at = "post"]
<1>1. /\ a \in Working /\ Inside(w) /\ a.at = "submit" /\ a.unit \subseteq Items
      /\ OneProcess => Knows(w)
  BY AtWorkInside DEF Submit, Working, Fields
<1>2. OneProcess => Submitted = {} /\ a.ok = {} /\ a.mute = {} /\ a.reply = "none" /\ (InDoubt = {} \/ Left = {})
  BY <1>1 DEF Knows, Ending, Judging, Resuming, Counting
<1>3. /\ unsent \in Working /\ unsent.at = "persist" /\ unsent.reply = "unsent"
      /\ unsent.ok = a.ok /\ unsent.mute = a.mute /\ unsent.unit = a.unit /\ unsent.then = a.then
  BY <1>1 DEF Working, Fields, Trying
<1>4. /\ sends \in Working /\ sends.at = "post" /\ sends.reply = a.reply
      /\ sends.ok = a.ok /\ sends.mute = a.mute /\ sends.unit = a.unit /\ sends.then = a.then
  BY <1>1 DEF Working, Fields, Trying
<1>5. UNCHANGED <<exec, host, world, lock>>
  BY DEF Submit
<1>6. CASE Goes(w, unsent) /\ UNCHANGED item
  <2>1. Fades /\ Submitted' = Submitted /\ InDoubt' = InDoubt /\ Left' = Left /\ actor'[w] = unsent
    BY <1>6, Same, GoesTo DEF BindInv, Actors
  <2> HIDE DEF unsent
  <2>2. ASSUME OneProcess PROVE Knows(w)'
    BY <1>2, <1>3, <2>1, <2>2 DEF Knows, Ending, Judging, Resuming, Counting
  <2> QED
    BY <1>1, <1>3, <1>5, <1>6, <2>1, <2>2, Ahead DEF BindInv, Types
<1>7. ASSUME NEW next \in {unsent, sends}, Goes(w, next), item' = Marked(a.unit, {"processing"}, "submitting"),
             next = sends => a.unit \subseteq With({"processing"})
      PROVE  BindInv'
  <2> HIDE DEF sends, unsent
  <2>1. actor'[w] = next /\ Only(w) /\ next \in Working /\ next.unit = a.unit /\ next.ok = a.ok
        /\ next.mute = a.mute /\ next.then = a.then
    BY <1>3, <1>4, <1>7, GoesTo DEF BindInv, Actors
  <2>2. \/ next.at = "persist" /\ next.reply = "unsent"
        \/ next.at = "post" /\ next.reply = a.reply
    BY <1>3, <1>4, <1>7
  <2>3. Items' = Items /\ item' \in [Items -> Statuses] /\ Working' = Working
    <3>1. item' \in [Items -> Statuses]
      BY <1>7 DEF Marked, BindInv, Types, Statuses
    <3>2. Items' = Items
      BY <3>1 DEF Items
    <3> QED
      BY <3>1, <3>2 DEF Working, Fields
  <2>4. /\ \A s \in Items : item'[s] = IF s \in a.unit /\ item[s] = "processing" THEN "submitting" ELSE item[s]
        /\ next.at = "post" => \A s \in a.unit : item[s] = "processing"
    BY <1>3, <1>4, <1>7 DEF Marked, With
  <2>5. Types'
    BY <1>5, <2>1, <2>3, BindingConstants DEF BindInv, Types, Only, world, Actors
  <2>6. Sent'
    <3>1. Posting' \subseteq Posting \cup {w} /\ \A v \in Posting' \ {w} : v \in Posting /\ actor'[v] = actor[v]
      BY <2>1 DEF Posting, Only, Actors
    <3>2. \A s \in Items : item[s] \notin Unsent => item'[s] = item[s]
      BY <2>4 DEF Unsent
    <3>3. ASSUME w \in Posting'
          PROVE  \A s \in a.unit : item'[s] = "submitting" /\ posted[s] = 0 /\ item[s] \in Unsent
      <4>1. \A s \in a.unit : s \in Shops /\ item[s] = "processing" /\ item'[s] = "submitting"
        BY <1>1, <2>1, <2>4, <3>3 DEF Posting, BindInv, Types
      <4>2. \A s \in Shops : posted[s] \in Nat /\ posted[s] <= 1 /\ (posted[s] = 1 => item[s] \notin Unsent)
        BY DEF BindInv, Types, Sent
      <4> QED
        BY <4>1, <4>2 DEF Unsent
    <3>4. \A v \in Posting : actor[v].unit \subseteq Items /\ \A s \in actor[v].unit : item[s] \notin Unsent /\ posted[s] = 0
      <4> SUFFICES ASSUME NEW v \in Posting
                   PROVE  actor[v].unit \subseteq Items /\ \A s \in actor[v].unit : item[s] \notin Unsent /\ posted[s] = 0
        OBVIOUS
      <4>1. actor[v] \in Working
        BY AtWork DEF Posting
      <4> QED
        BY <4>1 DEF Working, Fields, BindInv, Sent
    <3>5. /\ \A s \in Shops : posted[s] <= 1 /\ (posted[s] = 1 => s \in Items' /\ item'[s] \notin Unsent)
          /\ \A s \in applied : posted[s] = 1
      BY <2>3, <3>2 DEF BindInv, Sent
    <3>6. \A v \in Posting' : \A s \in actor'[v].unit : item'[s] \notin Unsent /\ posted[s] = 0
      BY <2>1, <3>1, <3>2, <3>3, <3>4 DEF Unsent
    <3>7. \A v, u \in Posting' : v # u => actor'[v].unit \cap actor'[u].unit = {}
      BY <2>1, <3>1, <3>3, <3>4 DEF BindInv, Sent
    <3> QED
      BY <1>5, <3>5, <3>6, <3>7 DEF Sent, world
  <2>7. ASSUME OneProcess PROVE Honest' /\ Holds'
    <3>1. Honest'
      BY <1>5, <2>3, <2>4, <2>7 DEF BindInv, Honest, world
    <3>2. \A v \in Workers \ {w} : ~ Inside(v)'
      BY <1>1, <2>1, <2>7, Alone DEF BindInv, Inside, Counting, Only, Actors
    <3>3. lock'[host'[w]] = w
      BY <1>1, <1>5, <2>7 DEF BindInv, Holds
    <3>4. /\ Submitted' \subseteq a.unit /\ InDoubt' = InDoubt /\ Left' \subseteq Left
          /\ \A s \in Submitted' : s \notin applied
      <4>1. \A s \in applied : item[s] \notin Unsent
        BY DEF BindInv, Types, Sent
      <4> QED
        BY <1>2, <2>3, <2>4, <2>7, <4>1 DEF Submitted, InDoubt, Left, With, Unsent
    <3>5. next.at = "post" => \A s \in a.unit : item'[s] = "submitting"
      BY <1>1, <2>4
    <3>6. Knows(w)'
      BY <1>1, <1>2, <1>5, <2>1, <2>2, <2>7, <3>4, <3>5 DEF Knows, Ending, Judging, Resuming, Counting, world
    <3> QED
      BY <3>1, <3>2, <3>3, <3>6 DEF Holds
  <2> QED
    BY <1>5, <2>5, <2>6, <2>7 DEF BindInv, OneProcess
<1>8. \/ item' = Marked(a.unit, {"processing"}, "submitting") /\ a.unit \subseteq With({"processing"}) /\ Goes(w, sends)
      \/ item' = Marked(a.unit, {"processing"}, "submitting") /\ Goes(w, unsent)
      \/ Goes(w, unsent) /\ UNCHANGED item
  BY DEF Submit, Moves
<1>9. unsent # sends
  BY <1>3, <1>4
<1> HIDE DEF unsent, sends
<1> QED
  BY <1>6, <1>7, <1>8, <1>9


LEMMA PostInv == ASSUME BindInv, NEW w \in Workers, Post(w) PROVE BindInv'
<1> DEFINE a == actor[w]
<1>1. /\ a \in Working /\ Inside(w) /\ a.at = "post" /\ a.unit \subseteq Items /\ a.unit \subseteq Shops
      /\ OneProcess => Knows(w)
  BY AtWorkInside DEF Post, Working, Fields, BindInv, Types
<1>2. OneProcess => /\ Submitted \subseteq a.unit /\ a.ok = {} /\ a.mute = {} /\ a.reply = "none" /\ (InDoubt = {} \/ Left = {})
                    /\ \A s \in a.unit : item[s] \in {"submitting", "unconfirmed"}
  BY <1>1 DEF Knows, Ending, Judging, Resuming, Counting
<1>3. UNCHANGED <<exec, item, host, lock>>
  BY DEF Post
<1>4. Fades /\ Submitted' = Submitted /\ InDoubt' = InDoubt /\ Left' = Left /\ Items' = Items
  BY <1>3, Same, Fading DEF BindInv
<1>5. ASSUME NEW reply \in {"throttled", "unsent"}, Goes(w, [a EXCEPT !.at = "persist", !.reply = reply]), UNCHANGED world
      PROVE  BindInv'
  <2> DEFINE next == [a EXCEPT !.at = "persist", !.reply = reply]
  <2>1. /\ next \in Working /\ next.at = "persist" /\ next.reply = reply
        /\ next.ok = a.ok /\ next.mute = a.mute /\ next.unit = a.unit
    BY <1>1 DEF Working, Fields, Trying
  <2>2. Goes(w, next) /\ actor'[w] = next
    BY <1>5, GoesTo DEF BindInv, Actors
  <2> HIDE DEF next
  <2>3. ASSUME OneProcess PROVE Knows(w)'
    <3>1. \A s \in Submitted : s \notin applied
      BY <1>1, <1>2, <2>3 DEF BindInv, Types, Sent, Posting
    <3> QED
      BY <1>2, <1>4, <1>5, <2>1, <2>2, <2>3, <3>1 DEF Knows, Ending, Judging, Resuming, Counting, world
  <2> QED
    BY <1>1, <1>3, <1>4, <1>5, <2>1, <2>2, <2>3, Ahead DEF BindInv, Types
<1>6. ASSUME posted' = [s \in Shops |-> posted[s] + (IF s \in a.unit THEN 1 ELSE 0)],
             NEW done \in SUBSET a.unit, NEW mute \in SUBSET a.unit, applied' = applied \cup done,
             Goes(w, [a EXCEPT !.at = "persist", !.reply = "told", !.ok = done \ mute, !.mute = mute])
      PROVE  BindInv'
  <2> DEFINE ok == done \ mute
             next == [a EXCEPT !.at = "persist", !.reply = "told", !.ok = ok, !.mute = mute]
  <2>1. /\ next \in Working /\ next.at = "persist" /\ next.unit = a.unit
        /\ next.reply = "told" /\ next.ok = ok /\ next.mute = mute
    BY <1>1, <1>6 DEF Working, Fields, Trying
  <2>2. actor'[w] = next /\ Only(w)
    BY <1>6, GoesTo DEF BindInv, Actors
  <2>3. \A s \in a.unit : s \in Shops /\ posted[s] = 0 /\ item[s] \notin Unsent
    BY <1>1 DEF BindInv, Sent, Posting
  <2>4. \A s \in Shops : posted[s] \in Nat /\ posted'[s] = IF s \in a.unit THEN 1 ELSE posted[s]
    BY <1>6, <2>3 DEF BindInv, Types
  <2>5. Types'
    <3>1. posted' \in [Shops -> Nat]
      BY <1>6, <2>4
    <3>2. applied' \subseteq Shops
      BY <1>1, <1>6 DEF BindInv, Types
    <3> QED
      BY <1>3, <1>4, <2>1, <2>2, <3>1, <3>2, Fading, BindingConstants DEF BindInv, Types, Only, Actors
  <2> HIDE DEF next, ok
  <2>6. Posting' = Posting \ {w} /\ \A v \in Posting' : actor'[v] = actor[v] /\ actor[v].unit \cap a.unit = {}
    <3>1. Posting' = Posting \ {w} /\ \A v \in Posting' : actor'[v] = actor[v]
      BY <1>1, <2>1, <2>2 DEF Posting, Only, Actors
    <3>2. w \in Posting
      BY <1>1 DEF Posting
    <3> QED
      BY <3>1, <3>2 DEF BindInv, Sent
  <2>7. Sent'
    <3>1. \A s \in Shops : posted'[s] <= 1 /\ (posted'[s] = 1 => s \in Items /\ item[s] \notin Unsent)
      BY <1>1, <2>3, <2>4 DEF BindInv, Sent
    <3>2. \A s \in applied' : posted'[s] = 1
      BY <1>1, <1>6, <2>3, <2>4 DEF BindInv, Sent, Types
    <3>3. \A v \in Posting' : \A s \in actor[v].unit : item[s] \notin Unsent /\ posted'[s] = 0
      <4> SUFFICES ASSUME NEW v \in Posting', NEW s \in actor[v].unit
                   PROVE  item[s] \notin Unsent /\ posted'[s] = 0
        OBVIOUS
      <4>1. actor[v] \in Working /\ v \in Posting
        BY <2>6, AtWork DEF Posting
      <4>2. s \in Shops
        BY <4>1 DEF Working, Fields, BindInv, Types
      <4> QED
        BY <2>4, <2>6, <4>1, <4>2 DEF BindInv, Sent
    <3>4. \A v, u \in Posting' : v # u => actor[v].unit \cap actor[u].unit = {}
      BY <2>6 DEF BindInv, Sent
    <3> QED
      BY <1>3, <1>4, <2>6, <3>1, <3>2, <3>3, <3>4 DEF Sent
  <2>8. ASSUME OneProcess PROVE Honest' /\ Holds'
    <3>1. Honest'
      BY <1>2, <1>3, <1>4, <1>6, <2>8 DEF BindInv, Honest
    <3>2. \A v \in Workers \ {w} : ~ Inside(v)'
      BY <1>1, <2>2, <2>8, Alone DEF BindInv, Inside, Counting, Only, Actors
    <3>3. lock'[host'[w]] = w
      BY <1>1, <1>3, <2>8 DEF BindInv, Holds
    <3>4. \A s \in Submitted \ mute : s \in ok <=> s \in applied'
      <4>1. \A s \in a.unit : s \notin applied
        BY <2>3 DEF BindInv, Sent
      <4> QED
        BY <1>2, <1>6, <2>1, <2>8, <4>1 DEF ok
    <3>5. Knows(w)'
      BY <1>2, <1>4, <2>1, <2>2, <2>8, <3>4 DEF Knows, Ending, Judging, Resuming, Counting
    <3> QED
      BY <3>1, <3>2, <3>3, <3>5 DEF Holds
  <2> QED
    BY <1>3, <2>5, <2>7, <2>8 DEF BindInv, OneProcess
<1> QED
  BY <1>5, <1>6 DEF Post

LEMMA PersistInv == ASSUME BindInv, NEW w \in Workers, Persist(w) PROVE BindInv'
<1> DEFINE a == actor[w]
           next == [a EXCEPT !.at = "dangling"]
<1>1. a \in Working /\ Inside(w) /\ a.at = "persist" /\ (OneProcess => Knows(w))
  BY AtWorkInside DEF Persist
<1>2. /\ next \in Working /\ next.at = "dangling" /\ next.mute = a.mute /\ next.then = a.then
  BY <1>1 DEF Working, Fields, Trying
<1>3. Goes(w, next) /\ actor'[w] = next /\ Only(w) /\ UNCHANGED <<exec, host, lock, world>>
  BY GoesTo DEF Persist, Moves, BindInv, Actors
<1> HIDE DEF next
<1>4. item' \in [Items -> Statuses] /\ Items' = Items /\ Working' = Working
  <2>1. item' \in [Items -> Statuses]
    BY DEF Persist, Result, BindInv, Types, Statuses, Settled
  <2>2. Items' = Items
    BY <2>1 DEF Items
  <2> QED
    BY <2>1, <2>2 DEF Working, Fields
<1>5. \A s \in Items : item'[s] = IF s \in a.unit /\ item[s] = "submitting" THEN Result(w, s) ELSE item[s]
  BY DEF Persist
<1>6. Types'
  BY <1>2, <1>3, <1>4, BindingConstants DEF BindInv, Types, Only, world, Actors
<1>7. Sent'
  <2>1. Posting' \subseteq Posting /\ \A v \in Posting' : actor'[v] = actor[v]
    BY <1>2, <1>3 DEF Posting, Only, Actors
  <2>2. \A s \in Items : item[s] \notin Unsent => item'[s] \notin Unsent
    BY <1>5 DEF Result, Unsent
  <2>3. \A v \in Posting : actor[v].unit \subseteq Items
    BY AtWork DEF Posting, Working, Fields
  <2> QED
    BY <1>3, <1>4, <2>1, <2>2, <2>3 DEF BindInv, Sent, world
<1>8. ASSUME OneProcess PROVE Honest' /\ Holds'
  <2>1. /\ Submitted \subseteq a.unit
        /\ a.mute = {} => InDoubt = {} \/ Left = {}
        /\ \A s \in Submitted \ a.mute : s \in a.ok <=> s \in applied
    BY <1>1, <1>8 DEF Knows, Ending, Resuming, Counting
  <2>2. Honest'
    <3> SUFFICES ASSUME NEW s \in Items
                 PROVE  /\ item'[s] = "success" => s \in applied
                        /\ item'[s] \in {"failed", "cancelled"} => s \notin applied
      BY <1>3, <1>4 DEF Honest, world
    <3>1. CASE s \in a.unit /\ item[s] = "submitting"
      <4>1. s \in Submitted /\ item'[s] = Result(w, s)
        BY <1>5, <3>1 DEF Submitted, With
      <4>2. s \in a.mute => Result(w, s) = "unconfirmed"
        BY DEF Result
      <4>3. s \notin a.mute => /\ s \in a.ok <=> s \in applied
                              /\ Result(w, s) = IF s \in a.ok THEN "success" ELSE "failed"
        BY <2>1, <4>1 DEF Result
      <4> QED
        BY <4>1, <4>2, <4>3
    <3>2. CASE ~ (s \in a.unit /\ item[s] = "submitting")
      BY <1>5, <1>8, <3>2 DEF BindInv, Honest
    <3> QED
      BY <3>1, <3>2
  <2>3. \A v \in Workers \ {w} : ~ Inside(v)'
    BY <1>1, <1>3, <1>8, Alone DEF BindInv, Inside, Counting, Only, Actors
  <2>4. lock'[host'[w]] = w
    BY <1>1, <1>3, <1>8 DEF BindInv, Holds
  <2>5. Submitted' = {} /\ Left' = Left /\ (a.mute = {} => InDoubt' = InDoubt)
    BY <1>4, <1>5, <2>1 DEF Submitted, Left, InDoubt, With, Result, Unsent
  <2>6. Knows(w)'
    BY <1>2, <1>3, <2>1, <2>5 DEF Knows, Ending, Judging, Resuming, Counting
  <2> QED
    BY <2>2, <2>3, <2>4, <2>6 DEF Holds
<1> QED
  BY <1>3, <1>6, <1>7, <1>8 DEF BindInv, OneProcess

LEMMA DanglingInv == ASSUME BindInv, NEW w \in Workers, Dangling(w) PROVE BindInv'
<1>1. actor[w] \in Working /\ Inside(w) /\ actor[w].at = "dangling" /\ (OneProcess => Knows(w))
  BY AtWorkInside DEF Dangling
<1>2. Fades
  BY DEF Dangling, BindInv, Types, Fades, Unsent, Statuses, Settled, Items
<1>3. Items' = Items /\ Left' \subseteq Left /\ Submitted' \subseteq Submitted
  BY <1>2, Fading DEF BindInv
<1>4. Submitted = {} => InDoubt' = InDoubt
  BY <1>3 DEF Dangling, Submitted, InDoubt, With
<1>5. PICK next \in Working : /\ Goes(w, next) /\ actor'[w] = next
                             /\ next.at = "count" /\ next.then = "judge"
                             /\ next.ok = actor[w].ok /\ next.reply = actor[w].reply /\ next.mute = actor[w].mute
  BY <1>1, Counted DEF Dangling, Thens
<1>6. ASSUME OneProcess PROVE Knows(w)'
  BY <1>1, <1>3, <1>4, <1>5, <1>6 DEF Knows, Ending, Judging, Resuming, Counting
<1> QED
  BY <1>1, <1>2, <1>5, <1>6, Ahead DEF Dangling, BindInv, Types

LEMMA JudgeInv == ASSUME BindInv, NEW w \in Workers, Judge(w) PROVE BindInv'
<1> DEFINE a == actor[w]
           then == IF action = "bind" THEN "loop" ELSE "next"
           more == a.misses + 1
<1>1. a \in Working /\ Inside(w) /\ a.at = "judge" /\ (OneProcess => Knows(w)) /\ more \in Nat
  BY AtWorkInside DEF Judge, Working, Fields
<1>2. /\ Fades /\ Submitted' = Submitted /\ InDoubt' = InDoubt /\ Left' = Left
      /\ UNCHANGED <<exec, host, world, lock>>
  BY Same DEF Judge, BindInv
<1>3. PICK at \in {"stop", "loop", "next"}, n \in Nat :
        /\ Goes(w, [a EXCEPT !.unit = {}, !.reply = "none", !.ok = {}, !.mute = {}, !.at = at, !.misses = n])
        /\ a.mute # {} => at = "stop"
  <2>1. After(w, 1, then) \in {"stop", "loop", "next"}
    BY DEF After
  <2> QED
    BY ZenonT(60), <1>1, <2>1 DEF Judge, Doubtful, Working, Fields
<1> DEFINE next == [a EXCEPT !.unit = {}, !.reply = "none", !.ok = {}, !.mute = {}, !.at = at, !.misses = n]
<1>4. next \in Working /\ next.at = at /\ next.ok = {} /\ next.mute = {} /\ next.reply = "none" /\ next.then = a.then
  BY <1>1 DEF Working, Fields, Trying
<1>5. actor'[w] = next
  BY <1>3, GoesTo DEF BindInv, Actors
<1> HIDE DEF next
<1>6. ASSUME OneProcess PROVE Knows(w)'
  BY <1>1, <1>2, <1>3, <1>4, <1>5, <1>6 DEF Knows, Ending, Judging, Resuming, Counting
<1> QED
  BY <1>1, <1>2, <1>3, <1>4, <1>6, Ahead DEF next, BindInv, Types


-----------------------------------------------------------------------------
(* What goes wrong.                                                           *)

LEMMA ThrowsInv == ASSUME BindInv, NEW w \in Workers, Throws(w) PROVE BindInv'
<1>1. CASE /\ actor[w].try /\ item' = SafelyFailed({"processing"}) /\ UNCHANGED <<queue, lock>>
           /\ Goes(w, [actor[w] EXCEPT !.at = "count", !.then = "throw", !.try = FALSE])
  <2> DEFINE next == [actor[w] EXCEPT !.at = "count", !.then = "throw", !.try = FALSE]
  <2>1. actor[w] \in Working /\ actor[w].at # "idle"
    BY AtWork DEF Throws
  <2>2. Inside(w)
    BY <1>1, <2>1 DEF Working, Inside, Counting
  <2>3. next \in Working /\ next.at = "count" /\ next.then = "throw"
    BY <2>1 DEF Working, Fields, Thens
  <2>4. Goes(w, next) /\ actor'[w] = next
    BY <1>1, GoesTo DEF BindInv, Actors
  <2> HIDE DEF next
  <2>5. Fades /\ Submitted' = {}
    BY <1>1, Failing DEF BindInv, Unsent
  <2>6. Knows(w)'
    BY <2>3, <2>4, <2>5 DEF Knows, Ending, Counting
  <2> QED
    BY <1>1, <2>2, <2>3, <2>4, <2>5, <2>6, Ahead DEF Throws, BindInv, Types
<1>2. CASE FailsJob(w) /\ UNCHANGED item
  BY <1>2, Completing DEF Throws
<1> QED
  BY <1>1, <1>2 DEF Throws

LEMMA OnFailedInv == ASSUME BindInv, NEW w \in Workers, OnFailed(w) PROVE BindInv'
<1>1. actor[w] \in Working /\ ~ actor[w].try
  BY AtWork DEF OnFailed, Working
<1>2. PICK next \in Working : Goes(w, next) /\ actor'[w] = next /\ next.at = "count" /\ next.then = "idle"
  BY <1>1, Counted DEF OnFailed, Thens
<1>3. ~ Inside(w)'
  BY <1>2 DEF Inside, Counting
<1>4. Fades /\ Left' = {}
  BY Failing DEF OnFailed, BindInv, Unsent
<1> QED
  BY <1>2, <1>3, <1>4, Beside DEF OnFailed, BindInv, Types, Actors

\* A step that leaves the items, and the workers where they are.
LEMMA Still ==
  ASSUME BindInv, UNCHANGED <<exec, item, host, lock, world>>, Types',
         \A v \in Workers : /\ actor'[v].at = actor[v].at /\ actor'[v].then = actor[v].then
                            /\ actor'[v].unit = actor[v].unit /\ actor'[v].reply = actor[v].reply
                            /\ actor'[v].ok = actor[v].ok /\ actor'[v].mute = actor[v].mute
                            /\ actor'[v].doubt = actor[v].doubt
  PROVE  BindInv'
<1>1. Submitted' = Submitted /\ Left' = Left /\ InDoubt' = InDoubt /\ Items' = Items
  BY Same, Fading DEF BindInv
<1>2. Sent'
  BY <1>1 DEF BindInv, Sent, Posting, world
<1>3. ASSUME OneProcess PROVE Honest' /\ Holds'
  <2>1. Honest'
    BY <1>1, <1>3 DEF BindInv, Honest, world
  <2>2. ASSUME NEW v \in Workers, Inside(v)' PROVE lock'[host'[v]] = v /\ Knows(v)'
    <3>1. Inside(v)
      BY <2>2 DEF Inside, Counting
    <3>2. lock[host[v]] = v /\ Knows(v)
      BY <1>3, <3>1 DEF BindInv, Holds
    <3> QED
      BY <1>1, <3>2 DEF Knows, Ending, Judging, Resuming, Counting, world
  <2> QED
    BY <2>1, <2>2 DEF Holds
<1> QED
  BY <1>2, <1>3 DEF BindInv, OneProcess

LEMMA LoseLockInv == ASSUME BindInv, NEW w \in Workers, LoseLock(w) PROVE BindInv'
<1> DEFINE next == [actor[w] EXCEPT !.own = FALSE]
<1>1. actor[w] \in Working
  BY AtWork DEF LoseLock
<1>2. /\ next \in Working /\ next.at = actor[w].at /\ next.then = actor[w].then /\ next.unit = actor[w].unit
      /\ next.reply = actor[w].reply /\ next.mute = actor[w].mute /\ next.ok = actor[w].ok /\ next.doubt = actor[w].doubt
  BY <1>1 DEF Working, Fields
<1>3. actor'[w] = next /\ Only(w) /\ UNCHANGED <<exec, item, host, lock, world>>
  BY GoesTo DEF LoseLock, BindInv, Actors
<1> HIDE DEF next
<1>4. Types'
  BY <1>2, <1>3, Same, Fading, BindingConstants DEF BindInv, Types, Only, world, Actors, Fades
<1> QED
  BY <1>2, <1>3, <1>4, Still DEF Only, Actors

LEMMA StalledInv == ASSUME BindInv, Stalled PROVE BindInv'
<1>1. UNCHANGED <<exec, item, host, lock, world>>
  BY DEF Stalled
<1>2. CASE UNCHANGED actor
  <2>1. Types'
    BY <1>1, <1>2, Same, Fading DEF BindInv, Types, world, Fades
  <2> QED
    BY <1>1, <1>2, <2>1, Still
<1>3. ASSUME NEW w \in Workers, Goes(w, Handler) PROVE BindInv'
  <2>1. actor'[w] = Handler
    BY <1>3, GoesTo DEF BindInv, Actors
  <2>2. ~ Inside(w)'
    BY <2>1, Records DEF Inside
  <2> QED
    BY <1>1, <1>3, <2>2, Records, Same, Beside DEF BindInv, Types, Actors
<1> QED
  BY <1>2, <1>3 DEF Stalled

LEMMA DieInv == ASSUME BindInv, NEW p \in Processes, Die(p) PROVE BindInv'
<1>1. /\ UNCHANGED <<exec, item, host, world>> /\ lock' = [lock EXCEPT ![p] = NoOne]
      /\ actor' = [x \in Actors |-> IF host[x] = p THEN Idle ELSE actor[x]]
  BY DEF Die
<1>2. \A v \in Workers : \/ actor'[v] = Idle
                         \/ actor'[v] = actor[v] /\ lock'[host[v]] = lock[host[v]]
  BY <1>1 DEF BindInv, Types, Actors
<1>3. Fades /\ Submitted' = Submitted /\ Left' = Left /\ InDoubt' = InDoubt
  BY <1>1, Same DEF BindInv
<1>4. Types'
  <2>1. \A x \in {Creator, Canceller} : actor'[x] \in Asking
    BY <1>1 DEF BindInv, Types, Actors, Asking
  <2>2. lock' = [q \in Processes |-> lock'[q]]
    BY <1>1 DEF BindInv, Types
  <2>3. actor' = [x \in Actors |-> actor'[x]]
    BY <1>1
  <2> QED
    BY <1>1, <1>2, <1>3, <2>1, <2>2, <2>3, Fading DEF BindInv, Types, world, Fades
<1>5. Sent'
  <2>1. Posting' \subseteq Posting /\ \A v \in Posting' : actor'[v] = actor[v]
    BY <1>2, Records DEF Posting
  <2> QED
    BY <1>1, <1>3, <2>1, SentStays DEF BindInv
<1>6. ASSUME OneProcess PROVE Honest' /\ Holds'
  <2>1. Honest'
    BY <1>1, <1>3, <1>6, HonestStays DEF BindInv
  <2>2. ASSUME NEW v \in Workers, Inside(v)' PROVE lock'[host'[v]] = v /\ Knows(v)'
    <3>1. actor'[v] = actor[v] /\ lock'[host'[v]] = lock[host[v]]
      BY <1>1, <1>2, <2>2, Records DEF Inside
    <3>2. Inside(v)
      BY <2>2, <3>1 DEF Inside, Counting
    <3>3. lock[host[v]] = v /\ Knows(v)
      BY <1>6, <3>2 DEF BindInv, Holds
    <3> QED
      BY <1>1, <1>3, <3>1, <3>3 DEF Knows, Ending, Judging, Resuming, Counting, world
  <2> QED
    BY <2>1, <2>2 DEF Holds
<1> QED
  BY <1>1, <1>4, <1>5, <1>6 DEF BindInv, OneProcess

LEMMA RestartInv == ASSUME BindInv, (\E p \in Processes : Restart(p)) \/ UNCHANGED vars PROVE BindInv'
<1>1. UNCHANGED <<exec, item, host, lock, world, actor>>
  BY DEF Restart, vars
<1>2. Types'
  BY <1>1, Same, Fading DEF BindInv, Types, world, Fades
<1> QED
  BY <1>1, <1>2, Still

-----------------------------------------------------------------------------

LEMMA WorkInv == ASSUME BindInv, NEW w \in Workers, Work(w) PROVE BindInv'
<1>1. w \in Actors
  BY DEF Actors
<1> QED
  BY <1>1, LockInv, RecoverInv, CountInv, WriteInv, AllowInv, StopInv, DoneInv, SelectInv, ClaimInv, VerifyInv,
     NextStoreInv, RefusedInv, SubmitInv, PostInv, PersistInv, DanglingInv, JudgeInv, OnFailedInv DEF Work

LEMMA StepInv == ASSUME BindInv, [Next]_vars PROVE BindInv'
<1>1. CASE Ask \/ EnqueueFails \/ Cancel
  <2>1. Creator \in Actors /\ Canceller \in Actors
    BY DEF Actors
  <2> QED
    BY <1>1, <2>1, EnqueueInv, GiveUpInv, CancelInv, CountInv, WriteInv DEF Ask
<1>2. CASE \E w \in Workers : Take(w) \/ Work(w) \/ Throws(w) \/ LoseLock(w)
  BY <1>2, TakeInv, WorkInv, ThrowsInv, LoseLockInv
<1>3. CASE Stalled
  BY <1>3, StalledInv
<1>4. CASE \E p \in Processes : Die(p)
  BY <1>4, DieInv
<1>5. CASE (\E p \in Processes : Restart(p)) \/ UNCHANGED vars
  BY <1>5, RestartInv
<1> QED
  BY <1>1, <1>2, <1>3, <1>4, <1>5 DEF Next

\* Whoever dies, is slow or is delivered again: an item that was submitted never
\* returns, and belongs to one worker; and where one process runs, its lock is
\* held by the one worker that works, which knows what it has submitted.
THEOREM BindingInvariant == Spec => []BindInv
<1>1. BindInv /\ [Next]_vars => BindInv'
  BY StepInv
<1> QED
  BY <1>1, InitInv, PTL DEF Spec

-----------------------------------------------------------------------------
(* What follows from it.                                                      *)

\* No store is submitted to DiDi twice, though jobs are delivered again and
\* workers of several processes share no lock.
THEOREM PostedOnceHolds == Spec => []PostedOnce
<1>1. BindInv => PostedOnce
  BY DEF BindInv, Sent, PostedOnce
<1> QED
  BY <1>1, BindingInvariant, PTL

\* In one backend every store recorded as done was done by DiDi, and none that is
\* recorded as failed or cancelled was.
THEOREM RecordIsTrueHolds == Spec => []RecordIsTrue
<1>1. BindInv => RecordIsTrue
  BY DEF BindInv, Honest, RecordIsTrue
<1> QED
  BY <1>1, BindingInvariant, PTL

\* Only Submit puts an item into 'submitting'.
LEMMA OnlySubmits ==
  ASSUME Types, [Next]_vars, NEW s \in Items, item'[s] = "submitting", item[s] # "submitting"
  PROVE  \E w \in Workers : Submit(w)
<1>1. CASE UNCHANGED item
  BY <1>1
<1>2. ASSUME Fades PROVE FALSE
  BY <1>2 DEF Fades, Unsent
<1>3. ASSUME NEW x \in Actors, Count(x) \/ Write(x) PROVE UNCHANGED item
  BY <1>3 DEF Count, Write
<1>4. ASSUME Ask \/ EnqueueFails \/ Cancel PROVE UNCHANGED item \/ Fades
  <2>1. Enqueue \/ EnqueueFails \/ Unqueue => UNCHANGED item
    BY DEF Enqueue, EnqueueFails, Unqueue
  <2>2. GiveUp => Fades
    BY Marking DEF GiveUp, Unsent
  <2>3. Cancel => Fades \/ UNCHANGED item
    BY Marking DEF Cancel, Unsent
  <2> QED
    BY <1>3, <1>4, <2>1, <2>2, <2>3 DEF Ask, Actors
<1>5. ASSUME NEW w \in Workers, Work(w), ~ Submit(w) PROVE UNCHANGED item \/ Fades
  <2>1. Lock(w) \/ Done(w) \/ Select(w) \/ Post(w) \/ Judge(w) \/ Thrown(w) => UNCHANGED item
    BY DEF Lock, Done, Select, Post, Judge, Thrown
  <2>2. Allow(w) \/ OnFailed(w) => UNCHANGED item \/ Fades
    BY Failing DEF Allow, OnFailed, Unsent
  <2>3. Stop(w) \/ CancelRest(w) \/ Claim(w) \/ Verify(w) \/ NextStore(w) \/ Refused(w) => UNCHANGED item \/ Fades
    BY Marking DEF Stop, CancelRest, Claim, Verify, NextStore, Refused, Unsent
  <2>4. ASSUME Recover(w) \/ Dangling(w) \/ Persist(w) PROVE FALSE
    BY <2>4 DEF Recover, Dangling, Persist, Result
  <2> QED
    BY <1>3, <1>5, <2>1, <2>2, <2>3, <2>4 DEF Work, Actors
<1>6. ASSUME NEW w \in Workers, Take(w) \/ Throws(w) \/ LoseLock(w) PROVE UNCHANGED item \/ Fades
  BY <1>6, Failing DEF Take, Throws, LoseLock, Unsent
<1>7. Stalled \/ (\E p \in Processes : Die(p) \/ Restart(p)) \/ UNCHANGED vars => UNCHANGED item
  BY DEF Stalled, Die, Restart, vars
<1> QED
  BY <1>1, <1>2, <1>4, <1>5, <1>6, <1>7 DEF Next

\* In one backend no store is submitted while another is in doubt, in this
\* delivery of the job or a later one.
THEOREM DoubtStopsHolds == Spec => DoubtStops
<1>1. ASSUME BindInv, [Next]_vars, NEW s \in Items, OneProcess, item'[s] = "submitting", item[s] # "submitting"
      PROVE  With({"unconfirmed"}) = {}
  <2>1. PICK w \in Workers : Submit(w)
    BY <1>1, OnlySubmits DEF BindInv
  <2>2. Inside(w) /\ Knows(w) /\ actor[w].at = "submit"
    BY <1>1, <2>1, AtWorkInside DEF Submit
  <2>3. InDoubt = {} \/ Left = {}
    BY <2>2 DEF Knows, Ending, Judging, Resuming, Counting
  <2>4. item[s] = "processing"
    BY <1>1, <2>1 DEF Submit, Marked
  <2> QED
    BY <2>3, <2>4 DEF InDoubt, Left, With, Unsent
<1>2. BindInv /\ [Next]_vars =>
        [\A s \in Items : OneProcess /\ item'[s] = "submitting" /\ item[s] # "submitting" =>
           With({"unconfirmed"}) = {}]_vars
  BY <1>1
<1> QED
  BY <1>2, BindingInvariant, PTL DEF Spec, DoubtStops

-----------------------------------------------------------------------------
(* Store tasks and their brand: the invariant.                                *)

Known == {"open"} \cup Brand!Ended

Proven == \E m \in Brand!BrandTasks : maker[m] = "done"

\* The brand is there, or was taken to be there.
Founded == (prov.status = "ready" /\ prov.source = 0) \/ Proven

Rows ==
  /\ maker \in Seq(Known)
  /\ store \in [StoreTasks -> Brand!Status]
  /\ dep \in [StoreTasks -> {"none", "waiting", "failed", "satisfied"}]
  /\ stale \in BOOLEAN

\* A provisioning that was written at some time.
Sound(p) ==
  /\ p \in [status : {"none", "pending", "ready", "failed"}, source : 0..Len(maker)]
  /\ p.source = 0 => p.status \in {"none", "ready"}
  /\ p.status = "none" => p.source = 0
  /\ p.status = "ready" => Founded

\* What a transaction has read may be old, but not if there was no brand task.
Sees(t) ==
  /\ "seen" \in DOMAIN t /\ Sound(t.seen)
  /\ (prov.source = 0 \/ t.seen.source = 0) => t.seen = prov

Locker == {"decided", "locked"}

Creating(t) ==
  /\ t.at \in {"creating", "decided"} =>
       "newest" \in DOMAIN t /\ t.newest \in 0..Len(maker)
  /\ t.at = "decided" =>
       /\ Sees(t)
       /\ "status" \in DOMAIN t
       /\ t.status \in {"none"} \cup Known
       /\ (t.newest = 0) <=> (t.status = "none")
       /\ t.status = "done" => Proven

Hooking(t) ==
  /\ t.at \in {"called", "found", "searching", "locked"} =>
       "task" \in DOMAIN t /\ t.task \in StoreTasks \cup Brand!BrandTasks
  /\ t.at \in {"found", "searching", "locked"} =>
       /\ "status" \in DOMAIN t
       /\ t.task \notin StoreTasks =>
            t.status \in Known /\ (t.status = "done" => Proven)
  /\ t.at \in {"found", "locked"} => Sees(t)
  /\ t.at = "found" => t.seen.source # 0

Fits(t) ==
  /\ t.at \in {"idle", "creating", "decided", "called", "found", "searching", "locked"}
  /\ Creating(t) /\ Hooking(t)

Txs ==
  /\ tx = [x \in Hooks \cup StoreTasks |-> tx[x]]
  /\ \A x \in Hooks \cup StoreTasks : Fits(tx[x])
  /\ \A x, y \in Hooks \cup StoreTasks : (tx[x].at \in Locker /\ tx[y].at \in Locker) => x = y

Deps ==
  /\ prov.status = "none" => \A s \in StoreTasks : dep[s] = "none"
  /\ ~ stale => \A s \in StoreTasks : dep[s] # "none" => dep[s] = Brand!DependencyStatus(prov.status)
  /\ \A s \in StoreTasks :
       (dep[s] = "satisfied" \/ store[s] \in ({"active"} \cup Brand!Ended)) => Founded

BrandInv == Rows /\ Sound(prov) /\ Txs /\ Deps

-----------------------------------------------------------------------------
(* Store tasks and their brand: lemmas.                                       *)

\* A brand task that is done stays so, and there are never fewer.
Grows == Len(maker) <= Len(maker') /\ (Proven => Proven')

\* A transaction that does nothing still fits, if the provisioning stays.
LEMMA Bystander ==
  ASSUME Rows, Rows', Grows, prov' = prov, NEW x, tx'[x] = tx[x], Fits(tx[x])
  PROVE  Fits(tx[x])'
<1>1. /\ DOMAIN maker = 1..Len(maker) /\ Len(maker) \in Nat
      /\ DOMAIN maker' = 1..Len(maker') /\ Len(maker') \in Nat
  BY DEF Rows
<1>2. 0..Len(maker) \subseteq 0..Len(maker') /\ Brand!BrandTasks \subseteq Brand!BrandTasks'
  BY <1>1 DEF Grows, Brand!BrandTasks
<1>3. ASSUME Sees(tx[x]) PROVE Sees(tx[x])'
  BY <1>2, <1>3 DEF Sees, Sound, Founded, Grows
<1>4. Creating(tx[x])'
  BY <1>2, <1>3 DEF Fits, Creating, Grows
<1>5. Hooking(tx[x])'
  BY <1>2, <1>3 DEF Fits, Hooking, Grows
<1> QED
  BY <1>4, <1>5 DEF Fits

\* Nor does it matter to it that another settles the provisioning.
LEMMA Onlooker ==
  ASSUME Rows, maker' = maker, Founded => Founded',
         NEW x, tx'[x] = tx[x], Fits(tx[x]),
         \/ prov.source # 0 /\ prov'.source # 0
         \/ prov.status = "none" /\ prov.source = 0 /\ tx[x].at \notin Locker
  PROVE  Fits(tx[x])'
<1>1. Proven' <=> Proven
  BY DEF Proven, Brand!BrandTasks
<1>2. tx[x].at \in {"decided", "found", "locked"} => Sees(tx[x]) /\ Sees(tx[x])'
  <2>1. tx[x].at \in {"decided", "found", "locked"} => Sees(tx[x])
    BY DEF Fits, Creating, Hooking
  <2>2. tx[x].at \in {"decided", "found", "locked"} => prov.source # 0 /\ prov'.source # 0
    BY <2>1 DEF Fits, Hooking, Sees, Locker
  <2> QED
    BY <2>1, <2>2 DEF Sees, Sound
<1>3. Creating(tx[x])'
  BY <1>1, <1>2 DEF Fits, Creating
<1>4. Hooking(tx[x])'
  BY <1>1, <1>2 DEF Fits, Hooking, Brand!BrandTasks
<1> QED
  BY <1>3, <1>4 DEF Fits

\* One transaction goes on, and fits.
LEMMA Turns ==
  ASSUME Txs, NEW x \in Hooks \cup StoreTasks, tx' = [tx EXCEPT ![x] = tx'[x]], Fits(tx[x])',
         tx'[x].at \in Locker => tx[x].at \in Locker \/ Brand!BrandUnlocked,
         \A y \in Hooks \cup StoreTasks : tx'[y] = tx[y] => Fits(tx[y])'
  PROVE  Txs'
<1>1. \A y \in Hooks \cup StoreTasks : y # x => tx'[y] = tx[y]
  BY DEF Txs
<1>2. \A y \in Hooks \cup StoreTasks : Fits(tx[y])'
  BY <1>1
<1>3. DOMAIN tx = Hooks \cup StoreTasks
  BY DEF Txs
<1>4. \A y, z \in Hooks \cup StoreTasks : (tx'[y].at \in Locker /\ tx'[z].at \in Locker) => y = z
  BY <1>1, <1>3 DEF Txs, Brand!BrandUnlocked, Locker
<1>5. tx' = [y \in Hooks \cup StoreTasks |-> tx'[y]]
  BY DEF Txs
<1> QED
  BY <1>2, <1>4, <1>5 DEF Txs

\* What concerns the rows is kept where the provisioning and the dependencies are.
LEMMA RowsKept ==
  ASSUME Rows, Rows', Sound(prov), Deps, Grows, UNCHANGED <<prov, dep, stale>>,
         \A s \in StoreTasks :
           store'[s] \in ({"active"} \cup Brand!Ended) =>
             dep[s] = "satisfied" \/ store[s] \in ({"active"} \cup Brand!Ended)
  PROVE  Sound(prov)' /\ Deps'
<1>1. Len(maker) \in Nat /\ Len(maker') \in Nat
  BY DEF Rows
<1>2. Founded => Founded'
  BY DEF Founded, Grows
<1>3. 0..Len(maker) \subseteq 0..Len(maker')
  BY <1>1 DEF Grows
<1>4. Sound(prov)'
  BY <1>2, <1>3 DEF Sound
<1>5. Deps'
  BY <1>2 DEF Deps
<1> QED
  BY <1>4, <1>5

\* A step of one transaction that changes no row.
LEMMA Reads ==
  ASSUME BrandInv, UNCHANGED <<maker, prov, store, dep, stale>>,
         NEW x \in Hooks \cup StoreTasks, tx' = [tx EXCEPT ![x] = tx'[x]], Fits(tx[x])',
         tx'[x].at \in Locker => tx[x].at \in Locker \/ Brand!BrandUnlocked
  PROVE  BrandInv'
<1>1. Rows' /\ Grows
  BY DEF BrandInv, Rows, Grows, Proven, Brand!BrandTasks
<1>2. Sound(prov)' /\ Deps'
  BY <1>1, RowsKept DEF BrandInv
<1>3. \A y \in Hooks \cup StoreTasks : tx'[y] = tx[y] => Fits(tx[y])'
  BY <1>1, Bystander DEF BrandInv, Txs
<1>4. Txs'
  BY <1>3, Turns DEF BrandInv
<1> QED
  BY <1>1, <1>2, <1>4 DEF BrandInv

\* What Resolve does to the dependencies and the store tasks.
LEMMA Resolving ==
  ASSUME Rows, NEW S \in SUBSET StoreTasks, NEW v \in {"waiting", "failed", "satisfied"},
         Brand!Resolve(S, v)
  PROVE  /\ store' \in [StoreTasks -> Brand!Status]
         /\ dep' \in [StoreTasks -> {"none", "waiting", "failed", "satisfied"}]
         /\ \A s \in StoreTasks : dep'[s] = IF s \in S THEN v ELSE dep[s]
         /\ \A s \in StoreTasks : store'[s] \in ({"active"} \cup Brand!Ended) => store'[s] = store[s]
  BY DEF Brand!Resolve, Rows, Brand!Status, Brand!Ended

\* Of some brand tasks one is the newest.
LEMMA Newest ==
  ASSUME NEW n \in Nat, NEW S \in SUBSET (1..n), S # {}
  PROVE  Brand!Max(S) \in S
<1> DEFINE N == {n - m : m \in S}
<1>0. \A m \in S : m \in Nat /\ n - m \in Nat
  OBVIOUS
<1>1. N \subseteq Nat /\ N # {}
  BY <1>0
<1>2. PICK k \in N : \A i \in N : ~(<<i, k>> \in OpToRel(<, Nat))
  <2> HIDE DEF N
  <2> QED
    BY <1>1, NatLessThanWellFounded, WFMin
<1>3. \A i \in N : ~(i < k)
  BY <1>1, <1>2 DEF OpToRel
<1>4. PICK m \in S : k = n - m
  OBVIOUS
<1>5. \A j \in S : m >= j
  <2> TAKE j \in S
  <2>1. ~(n - j < n - m)
    BY <1>3, <1>4
  <2> QED
    BY <1>0, <2>1
<1> QED
  BY <1>5 DEF Brand!Max

-----------------------------------------------------------------------------
(* Store tasks and their brand: each step.                                    *)

\* A task, or nobody, is called about.
LEMMA Calling ==
  ASSUME BrandInv, Rows', Grows, prov' = prov,
         NEW t \in StoreTasks \cup Brand!BrandTasks, Brand!Calls(t)
  PROVE  Txs'
<1>1. \A y \in Hooks \cup StoreTasks : tx'[y] = tx[y] => Fits(tx[y])'
  BY Bystander DEF BrandInv, Txs
<1>2. CASE UNCHANGED tx
  BY <1>1, <1>2 DEF BrandInv, Txs
<1>3. CASE \E h \in Hooks : tx[h].at = "idle" /\ Brand!Goes(h, [at |-> "called", task |-> t])
  <2>1. PICK h \in Hooks : Brand!Goes(h, [at |-> "called", task |-> t])
    BY <1>3
  <2>2. tx'[h] = [at |-> "called", task |-> t] /\ tx' = [tx EXCEPT ![h] = tx'[h]]
    BY <2>1 DEF Brand!Goes, BrandInv, Txs
  <2>3. /\ DOMAIN maker = 1..Len(maker) /\ Len(maker) \in Nat
        /\ DOMAIN maker' = 1..Len(maker') /\ Len(maker') \in Nat
    BY DEF BrandInv, Rows
  <2>4. t \in StoreTasks \cup Brand!BrandTasks'
    BY <2>3 DEF Grows, Brand!BrandTasks
  <2>5. Fits(tx[h])'
    BY <2>2, <2>4 DEF Fits, Creating, Hooking
  <2> QED
    BY <1>1, <2>2, <2>5, Turns DEF BrandInv, Locker
<1> QED
  BY <1>2, <1>3 DEF Brand!Calls

LEMMA CreateKeeps == ASSUME BrandInv, NEW s \in StoreTasks, Brand!Create(s) PROVE BrandInv'
<1>1. tx'[s] = [at |-> "creating", newest |-> Len(maker)] /\ tx' = [tx EXCEPT ![s] = tx'[s]]
  BY DEF Brand!Create, Brand!Goes, BrandInv, Txs
<1>2. UNCHANGED <<maker, prov, store, dep, stale>>
  BY DEF Brand!Create, Brand!rows, Brand!history
<1>3. Len(maker)' \in 0..Len(maker)'
  BY <1>2 DEF BrandInv, Rows
<1>4. Fits(tx[s])'
  BY <1>1, <1>2, <1>3 DEF Fits, Creating, Hooking
<1> QED
  BY <1>1, <1>2, <1>4, Reads DEF Locker

LEMMA DecideKeeps == ASSUME BrandInv, NEW s \in StoreTasks, Brand!Decide(s) PROVE BrandInv'
<1> DEFINE m == tx[s].newest
           status == IF m = 0 THEN "none" ELSE maker[m]
<1>1. /\ tx'[s] = [at |-> "decided", newest |-> m, seen |-> prov, status |-> status]
      /\ tx' = [tx EXCEPT ![s] = tx'[s]]
  BY DEF Brand!Decide, Brand!Goes, BrandInv, Txs
<1>2. UNCHANGED <<maker, prov, store, dep, stale>>
  BY DEF Brand!Decide, Brand!rows, Brand!history
<1>3. m \in 0..Len(maker)
  BY DEF Brand!Decide, BrandInv, Txs, Fits, Creating
<1>4. /\ status \in {"none"} \cup Known
      /\ m = 0 <=> status = "none"
      /\ status = "done" => Proven
  <2>1. CASE m = 0
    BY <2>1
  <2>2. CASE m # 0
    <3>1. m \in Brand!BrandTasks
      BY <1>3, <2>2 DEF BrandInv, Rows, Brand!BrandTasks
    <3>2. maker[m] \in Known
      BY <3>1 DEF BrandInv, Rows, Brand!BrandTasks
    <3> QED
      BY <2>2, <3>1, <3>2 DEF Known, Brand!Ended, Proven
  <2> QED
    BY <2>1, <2>2
<1>5. Sound(prov)' /\ Proven' = Proven
  BY <1>2 DEF BrandInv, Sound, Founded, Proven, Brand!BrandTasks
<1> HIDE DEF m, status
<1>6. Fits(tx[s])'
  BY <1>1, <1>2, <1>3, <1>4, <1>5 DEF Fits, Creating, Hooking, Sees
<1> QED
  BY <1>1, <1>2, <1>6, Reads DEF Brand!Decide

LEMMA ReadTaskKeeps == ASSUME BrandInv, NEW h \in Hooks, Brand!ReadTask(h) PROVE BrandInv'
<1> DEFINE t == tx[h].task
           status == IF t \in StoreTasks THEN store[t] ELSE maker[t]
           found == t \notin StoreTasks /\ prov.source = t
           next == IF ~ gate THEN Brand!Idle
                   ELSE IF found THEN [at |-> "found", task |-> t, status |-> status, seen |-> prov]
                   ELSE [at |-> "searching", task |-> t, status |-> status]
<1>1. tx'[h] = next /\ tx' = [tx EXCEPT ![h] = tx'[h]]
  BY DEF Brand!ReadTask, Brand!Goes, BrandInv, Txs
<1>2. UNCHANGED <<maker, prov, store, dep, stale>>
  BY DEF Brand!ReadTask, Brand!rows, Brand!history
<1>3. t \in StoreTasks \cup Brand!BrandTasks
  BY DEF Brand!ReadTask, BrandInv, Txs, Fits, Hooking
<1>4. t \notin StoreTasks => status \in Known /\ (status = "done" => Proven)
  BY <1>3 DEF BrandInv, Rows, Brand!BrandTasks, Proven
<1>5. found => prov.source # 0
  BY <1>3 DEF BrandInv, Rows, Brand!BrandTasks
<1>6. Sound(prov)' /\ Proven' = Proven /\ Brand!BrandTasks' = Brand!BrandTasks
  BY <1>2 DEF BrandInv, Sound, Founded, Proven, Brand!BrandTasks
<1>7. Fits(tx[h])'
  <2> HIDE DEF t, status, found
  <2> QED
    BY <1>1, <1>2, <1>3, <1>4, <1>5, <1>6 DEF Fits, Creating, Hooking, Sees, Brand!Idle
<1> QED
  BY <1>1, <1>2, <1>7, Reads DEF Locker, Brand!Idle

LEMMA ReadProvisioningKeeps == ASSUME BrandInv, NEW h \in Hooks, Brand!ReadProvisioning(h) PROVE BrandInv'
<1>1. /\ tx'[h] = [at |-> "locked", task |-> tx[h].task, status |-> tx[h].status, seen |-> prov]
      /\ tx' = [tx EXCEPT ![h] = tx'[h]]
  BY DEF Brand!ReadProvisioning, Brand!Goes, BrandInv, Txs
<1>2. UNCHANGED <<maker, prov, store, dep, stale>>
  BY DEF Brand!ReadProvisioning, Brand!rows, Brand!history
<1>3. Hooking(tx[h]) /\ tx[h].at = "searching"
  BY DEF Brand!ReadProvisioning, BrandInv, Txs, Fits
<1>4. Sound(prov)' /\ Proven' = Proven /\ Brand!BrandTasks' = Brand!BrandTasks
  BY <1>2 DEF BrandInv, Sound, Founded, Proven, Brand!BrandTasks
<1>5. Fits(tx[h])'
  BY <1>1, <1>2, <1>3, <1>4 DEF Fits, Creating, Hooking, Sees
<1> QED
  BY <1>1, <1>2, <1>5, Reads DEF Brand!ReadProvisioning

LEMMA RecoverProvisioningKeeps == ASSUME BrandInv, NEW h \in Hooks, Brand!RecoverProvisioning(h) PROVE BrandInv'
<1>1. PICK m \in Brand!Recoverable : Brand!Goes(h, [at |-> "called", task |-> m])
  BY DEF Brand!RecoverProvisioning
<1>2. UNCHANGED <<maker, prov, store, dep, stale>>
  BY DEF Brand!RecoverProvisioning, Brand!rows, Brand!history
<1>3. DOMAIN maker = 1..Len(maker) /\ Len(maker) \in Nat
  BY DEF BrandInv, Rows
<1>4. Brand!Later \subseteq 1..Len(maker)
  BY <1>3 DEF Brand!Later, Brand!BrandTasks
<1>5. Brand!SourceEnded => prov.source \in Brand!BrandTasks
  BY <1>3 DEF Brand!SourceEnded, BrandInv, Sound, Brand!BrandTasks
<1>6. m \in Brand!BrandTasks
  <2>1. Brand!Later # {} => Brand!Max(Brand!Later) \in Brand!BrandTasks
    BY <1>3, <1>4, Newest DEF Brand!BrandTasks
  <2> QED
    BY <1>1, <1>5, <2>1 DEF Brand!Recoverable
<1>7. tx'[h] = [at |-> "called", task |-> m] /\ tx' = [tx EXCEPT ![h] = tx'[h]]
  BY <1>1 DEF Brand!Goes, BrandInv, Txs
<1>8. Fits(tx[h])'
  BY <1>2, <1>6, <1>7 DEF Fits, Creating, Hooking, Brand!BrandTasks
<1> QED
  BY <1>2, <1>7, <1>8, Reads DEF Locker

LEMMA RecoverRequestKeeps ==
  ASSUME BrandInv, NEW h \in Hooks, NEW s \in StoreTasks, Brand!RecoverRequest(h, s) PROVE BrandInv'
<1>1. tx'[h] = [at |-> "called", task |-> s] /\ tx' = [tx EXCEPT ![h] = tx'[h]]
  BY DEF Brand!RecoverRequest, Brand!Goes, BrandInv, Txs
<1>2. UNCHANGED <<maker, prov, store, dep, stale>>
  BY DEF Brand!RecoverRequest, Brand!rows, Brand!history
<1>3. Fits(tx[h])'
  BY <1>1 DEF Fits, Creating, Hooking
<1> QED
  BY <1>1, <1>2, <1>3, Reads DEF Locker

LEMMA DieKeeps == ASSUME BrandInv, NEW x \in Hooks \cup StoreTasks, Brand!Die(x) PROVE BrandInv'
<1>1. tx'[x] = Brand!Idle /\ tx' = [tx EXCEPT ![x] = tx'[x]]
  BY DEF Brand!Die, Brand!Goes, BrandInv, Txs
<1>2. UNCHANGED <<maker, prov, store, dep, stale>>
  BY DEF Brand!Die, Brand!rows, Brand!history
<1>3. Fits(tx[x])'
  BY <1>1 DEF Fits, Creating, Hooking, Brand!Idle
<1> QED
  BY <1>1, <1>2, <1>3, Reads DEF Locker, Brand!Idle

\* A transaction that changes rows makes way for those that wait.
LEMMA Writes ==
  ASSUME BrandInv, NEW x \in Hooks \cup StoreTasks, Brand!Goes(x, Brand!Idle), maker' = maker,
         Rows', Sound(prov)', Deps', Founded => Founded',
         \/ prov' = prov
         \/ prov.source # 0 /\ prov'.source # 0
         \/ prov.status = "none" /\ prov.source = 0 /\ tx[x].at \in Locker
  PROVE  BrandInv'
<1>1. tx'[x] = Brand!Idle /\ tx' = [tx EXCEPT ![x] = tx'[x]]
  BY DEF Brand!Goes, BrandInv, Txs
<1>2. Fits(tx[x])'
  BY <1>1 DEF Fits, Creating, Hooking, Brand!Idle
<1>3. Grows
  BY DEF Grows, Proven, Brand!BrandTasks, BrandInv, Rows
<1>4. ASSUME NEW y \in Hooks \cup StoreTasks, tx'[y] = tx[y] PROVE Fits(tx[y])'
  <2>1. CASE y = x
    BY <1>2, <2>1
  <2>2. CASE y # x
    <3>1. CASE prov' = prov
      BY <1>3, <1>4, <3>1, Bystander DEF BrandInv, Txs
    <3>2. CASE prov.source # 0 /\ prov'.source # 0
      BY <1>4, <3>2, Onlooker DEF BrandInv, Txs
    <3>3. CASE prov.status = "none" /\ prov.source = 0 /\ tx[x].at \in Locker
      <4>1. tx[y].at \notin Locker
        BY <2>2, <3>3 DEF BrandInv, Txs
      <4> QED
        BY <1>4, <3>3, <4>1, Onlooker DEF BrandInv, Txs
    <3> QED
      BY <3>1, <3>2, <3>3
  <2> QED
    BY <2>1, <2>2
<1>5. Txs'
  BY <1>1, <1>2, <1>4, Turns DEF BrandInv, Locker, Brand!Idle
<1> QED
  BY <1>5 DEF BrandInv

\* A settled provisioning is worth what the transaction knows.
LEMMA Verdicts ==
  ASSUME BrandInv, NEW v \in Known \cup {"none"}
  PROVE  /\ Brand!ProvisioningStatus(v) \in {"pending", "ready", "failed"}
         /\ Brand!ProvisioningStatus(v) = "ready" <=> v \in {"none", "done"}
         /\ Brand!DependencyStatus(Brand!ProvisioningStatus(v)) \in {"waiting", "failed", "satisfied"}
         /\ Brand!DependencyStatus(Brand!ProvisioningStatus(v)) = "satisfied" <=> v \in {"none", "done"}
  BY DEF Brand!ProvisioningStatus, Brand!DependencyStatus, Known, Brand!Ended

LEMMA RegisterKeeps == ASSUME BrandInv, NEW s \in StoreTasks, Brand!Register(s) PROVE BrandInv'
<1> DEFINE d == tx[s]
           adopts == Brand!Adopts(d.newest, d.seen)
           new == adopts \/ d.seen.status = "none"
           mine == IF new THEN [status |-> Brand!ProvisioningStatus(d.status), source |-> d.newest]
                   ELSE d.seen
           S == {s} \cup (IF adopts THEN Brand!Affected(TRUE) ELSE {})
           v == Brand!DependencyStatus(mine.status)
<1>1. /\ Brand!Settles(IF mine = d.seen THEN prov ELSE mine, d.seen)
      /\ Brand!Resolve(S, v)
      /\ Brand!Goes(s, Brand!Idle) /\ maker' = maker /\ d.at = "decided"
  BY DEF Brand!Register
<1>2. /\ d.newest \in 0..Len(maker) /\ Sees(d) /\ d.status \in {"none"} \cup Known
      /\ (d.newest = 0) <=> (d.status = "none")
      /\ d.status = "done" => Proven
  BY <1>1 DEF BrandInv, Txs, Fits, Creating
<1>3. Proven' = Proven /\ Len(maker)' = Len(maker) /\ Len(maker) \in Nat
  BY <1>1 DEF Proven, Brand!BrandTasks, BrandInv, Rows
<1>4. /\ mine \in [status : {"pending", "ready", "failed"}, source : 0..Len(maker)]
      /\ mine.source = 0 => mine.status = "ready"
      /\ mine.status = "ready" => mine.source = 0 \/ Proven
  <2>1. CASE new
    <3>1. Brand!ProvisioningStatus(d.status) \in {"pending", "ready", "failed"}
      BY <1>2, Verdicts
    <3>2. Brand!ProvisioningStatus(d.status) = "ready" <=> d.status \in {"none", "done"}
      BY <1>2, Verdicts
    <3>3. mine.status = Brand!ProvisioningStatus(d.status) /\ mine.source = d.newest
      BY <2>1
    <3>4. mine \in [status : {"pending", "ready", "failed"}, source : 0..Len(maker)]
      BY <2>1, <3>1, <1>2
    <3> HIDE DEF mine
    <3> QED
      BY <1>2, <3>2, <3>3, <3>4
  <2>2. CASE ~ new
    <3>1. mine = d.seen /\ d.seen.status # "none"
      BY <2>2
    <3>2. Sound(d.seen) /\ (prov.source = 0 => d.seen = prov)
      BY <1>2 DEF Sees
    <3> HIDE DEF mine, d
    <3>3. mine \in [status : {"pending", "ready", "failed"}, source : 0..Len(maker)]
      BY <3>1, <3>2 DEF Sound
    <3>4. /\ mine.source = 0 => mine.status = "ready"
          /\ mine.status = "ready" => mine.source = 0 \/ Proven
      BY <3>1, <3>2 DEF Sound, Founded
    <3> QED
      BY <3>3, <3>4
  <2> QED
    BY <2>1, <2>2
<1>5. mine # d.seen => new
  OBVIOUS
<1>6. prov' = prov \/ (prov' = mine /\ new)
  BY <1>1, <1>5 DEF Brand!Settles
<1>7. new => \/ prov.source # 0 /\ mine.source # 0
             \/ prov.status = "none" /\ prov.source = 0
  <2>1. CASE adopts
    <3>1. d.seen.status = "failed" /\ d.newest > d.seen.source
      BY <2>1 DEF Brand!Adopts
    <3>2. d.seen.source # 0 /\ prov.source # 0 /\ d.seen.source \in Nat
      BY <1>2, <3>1 DEF Sees, Sound
    <3>3. mine.source = d.newest
      BY <2>1
    <3> QED
      BY <1>2, <3>1, <3>2, <3>3
  <2>2. CASE d.seen.status = "none"
    BY <1>2, <2>2 DEF Sees, Sound
  <2> QED
    BY <2>1, <2>2
<1>8. S \in SUBSET StoreTasks /\ s \in S
  BY DEF Brand!Affected
<1>9. v \in {"waiting", "failed", "satisfied"} /\ (v = "satisfied" <=> mine.status = "ready")
  <2> HIDE DEF mine
  <2> QED
    BY <1>4 DEF Brand!DependencyStatus
<1>10. /\ ~ stale' => ~ stale /\ prov = d.seen
       /\ stale' \in BOOLEAN
  BY <1>1 DEF Brand!Settles, BrandInv, Rows
<1>11. ~ stale' => prov' = mine
  BY <1>1, <1>10 DEF Brand!Settles
<1>12. ~ stale' => \A r \in StoreTasks : r \notin S => dep[r] \in {"none", v}
  <2> SUFFICES ASSUME ~ stale', NEW r \in StoreTasks, r \notin S PROVE dep[r] \in {"none", v}
    OBVIOUS
  <2>1. ~ stale /\ prov = d.seen
    BY <1>10
  <2>2. dep[r] # "none" => dep[r] = Brand!DependencyStatus(prov.status)
    BY <2>1 DEF BrandInv, Deps
  <2>3. CASE adopts
    BY <2>1, <2>2, <2>3 DEF Brand!Adopts, Brand!DependencyStatus, Brand!Affected
  <2>4. CASE d.seen.status = "none"
    BY <2>1, <2>4 DEF BrandInv, Deps
  <2>5. CASE ~ new
    BY <2>1, <2>2, <2>5
  <2> QED
    BY <2>3, <2>4, <2>5
<1>13. d.seen.status # "none" => prov.status # "none"
  BY <1>2 DEF Sees, BrandInv, Sound
<1> HIDE DEF d, adopts, new, mine, S, v
<1>14. /\ store' \in [StoreTasks -> Brand!Status]
       /\ dep' \in [StoreTasks -> {"none", "waiting", "failed", "satisfied"}]
       /\ \A r \in StoreTasks : dep'[r] = IF r \in S THEN v ELSE dep[r]
       /\ \A r \in StoreTasks : store'[r] \in ({"active"} \cup Brand!Ended) => store'[r] = store[r]
  BY <1>1, <1>8, <1>9, Resolving DEF BrandInv
<1>15. Rows'
  BY <1>1, <1>10, <1>14 DEF BrandInv, Rows
<1>16. Founded => Founded'
  BY <1>3, <1>6, <1>7 DEF Founded
<1>17. prov'.status # "none" /\ (v = "satisfied" => Founded')
  <2>1. CASE prov' = mine
    BY <1>3, <1>4, <1>9, <2>1 DEF Founded
  <2>2. CASE prov' = prov /\ mine = d.seen
    <3>1. d.seen.status # "none" /\ Sound(d.seen)
      BY <1>2, <1>4, <2>2 DEF Sees
    <3>2. v = "satisfied" => Founded
      BY <1>9, <2>2, <3>1 DEF Sound
    <3> QED
      BY <1>13, <1>16, <2>2, <3>1, <3>2
  <2> QED
    BY <1>1, <2>1, <2>2 DEF Brand!Settles
<1>18. Sound(prov)'
  <2>1. CASE prov' = prov
    BY <1>3, <1>16, <2>1 DEF BrandInv, Sound
  <2>2. CASE prov' = mine
    BY <1>3, <1>4, <2>2 DEF Sound, Founded
  <2> QED
    BY <1>6, <2>1, <2>2
<1>19. Deps'
  <2>1. ~ stale' => \A r \in StoreTasks : dep'[r] # "none" => dep'[r] = Brand!DependencyStatus(prov'.status)
    BY <1>11, <1>12, <1>14 DEF v
  <2>2. \A r \in StoreTasks :
          (dep'[r] = "satisfied" \/ store'[r] \in ({"active"} \cup Brand!Ended)) => Founded'
    BY <1>14, <1>16, <1>17 DEF BrandInv, Deps
  <2> QED
    BY <1>17, <2>1, <2>2 DEF Deps
<1>20. d.at \in Locker
  BY <1>1 DEF Locker
<1> QED
  BY <1>1, <1>6, <1>7, <1>15, <1>16, <1>18, <1>19, <1>20, Writes DEF d

LEMMA CommitKeeps == ASSUME BrandInv, NEW h \in Hooks, Brand!Commit(h) PROVE BrandInv'
<1> DEFINE x == tx[h]
           adopts == x.at = "locked" /\ Brand!Adopts(x.task, x.seen)
           verdict == IF x.status \in Brand!Ended THEN Brand!ProvisioningStatus(x.status) ELSE "pending"
           settles == x.at = "found" /\ x.seen.status = "pending" /\ x.status \in Brand!Ended
           source == IF adopts THEN x.task ELSE prov.source
           S == Brand!Affected(adopts)
           v == Brand!DependencyStatus(verdict)
<1>1. x.at \in {"found", "locked"} /\ Brand!Goes(h, Brand!Idle) /\ maker' = maker
  BY DEF Brand!Commit
<1>2. Proven' = Proven /\ Len(maker)' = Len(maker) /\ Len(maker) \in Nat
  BY <1>1 DEF Proven, Brand!BrandTasks, BrandInv, Rows
<1>3. ASSUME UNCHANGED <<prov, store, dep, stale>> PROVE BrandInv'
  <2>1. Rows' /\ Grows
    BY <1>1, <1>2, <1>3 DEF Grows, BrandInv, Rows
  <2>2. Sound(prov)' /\ Deps'
    BY <1>3, <2>1, RowsKept DEF BrandInv
  <2>3. Founded => Founded'
    BY <1>2, <1>3 DEF Founded
  <2> QED
    BY <1>1, <1>3, <2>1, <2>2, <2>3, Writes
<1>4. CASE x.task \in StoreTasks
  BY <1>3, <1>4 DEF Brand!Commit, Brand!SettleRequest
<1>5. CASE x.task \notin StoreTasks /\ ~(adopts \/ settles)
  BY <1>3, <1>5 DEF Brand!Commit, Brand!SettleProvisioning, Brand!rows
<1>6. CASE x.task \notin StoreTasks /\ (adopts \/ settles)
  <2>1. /\ Brand!Settles([status |-> verdict, source |-> source], x.seen)
        /\ Brand!Resolve(S, v)
    BY <1>6 DEF Brand!Commit, Brand!SettleProvisioning
  <2>2. /\ x.task \in 1..Len(maker) /\ x.status \in Known
        /\ x.status = "done" => Proven
        /\ Sees(x)
    <3>1. Hooking(x)
      BY DEF BrandInv, Txs, Fits
    <3>2. Brand!BrandTasks = 1..Len(maker)
      BY DEF BrandInv, Rows, Brand!BrandTasks
    <3> HIDE DEF x
    <3> QED
      BY <1>1, <1>6, <3>1, <3>2 DEF Hooking
  <2>3. x.seen.status \in {"pending", "failed"} /\ x.seen.source # 0
    BY <1>6, <2>2 DEF Brand!Adopts, Sees, Sound
  <2>4. prov.source # 0 /\ prov.source \in 0..Len(maker)
    BY <2>2, <2>3 DEF Sees, BrandInv, Sound
  <2>5. source \in 1..Len(maker)
    BY <1>2, <2>2, <2>4
  <2>6. verdict \in {"pending", "ready", "failed"} /\ (verdict = "ready" => Proven)
    BY <2>2 DEF Brand!ProvisioningStatus, Brand!Ended, Known
  <2>7. prov' = [status |-> verdict, source |-> source]
    BY <2>1 DEF Brand!Settles
  <2>8. /\ ~ stale' => ~ stale /\ prov = x.seen
        /\ stale' \in BOOLEAN
    BY <2>1 DEF Brand!Settles, BrandInv, Rows
  <2>9. v \in {"waiting", "failed", "satisfied"} /\ (v = "satisfied" <=> verdict = "ready")
    <3> HIDE DEF verdict
    <3> QED
      BY <2>6 DEF Brand!DependencyStatus
  <2>10. S \in SUBSET StoreTasks
    BY DEF Brand!Affected
  <2>11. ~ stale' => \A r \in StoreTasks : r \notin S => dep[r] \in {"none", v}
    BY <1>6, <2>8 DEF Brand!Adopts, Brand!DependencyStatus, Brand!Affected, BrandInv, Deps
  <2> HIDE DEF x, adopts, settles, verdict, source, S, v
  <2>12. /\ store' \in [StoreTasks -> Brand!Status]
         /\ dep' \in [StoreTasks -> {"none", "waiting", "failed", "satisfied"}]
         /\ \A r \in StoreTasks : dep'[r] = IF r \in S THEN v ELSE dep[r]
         /\ \A r \in StoreTasks : store'[r] \in ({"active"} \cup Brand!Ended) => store'[r] = store[r]
    BY <2>1, <2>9, <2>10, Resolving DEF BrandInv
  <2>13. Rows'
    BY <1>1, <2>8, <2>12 DEF BrandInv, Rows
  <2>14. Founded => Founded'
    BY <1>2, <2>4 DEF Founded
  <2>15. Sound(prov)'
    BY <1>2, <2>5, <2>6, <2>7 DEF Sound, Founded
  <2>16. Deps'
    <3>1. ~ stale' => \A r \in StoreTasks : dep'[r] # "none" => dep'[r] = Brand!DependencyStatus(prov'.status)
      BY <2>7, <2>11, <2>12 DEF v
    <3>2. \A r \in StoreTasks :
            (dep'[r] = "satisfied" \/ store'[r] \in ({"active"} \cup Brand!Ended)) => Founded'
      BY <1>2, <2>6, <2>9, <2>12, <2>14 DEF BrandInv, Deps, Founded
    <3>3. prov'.status # "none"
      BY <2>6, <2>7
    <3> QED
      BY <3>1, <3>2, <3>3 DEF Deps
  <2>17. prov.source # 0 /\ prov'.source # 0
    BY <2>4, <2>5, <2>7
  <2> QED
    BY <1>1, <2>13, <2>14, <2>15, <2>16, <2>17, Writes
<1> QED
  BY <1>4, <1>5, <1>6

\* A step of a brand task.
LEMMA Making ==
  ASSUME BrandInv, Rows', Grows, UNCHANGED <<prov, store, dep, stale>>,
         tx' = tx \/ \E t \in StoreTasks \cup Brand!BrandTasks : Brand!Calls(t)
  PROVE  BrandInv'
<1>1. Sound(prov)' /\ Deps'
  BY RowsKept DEF BrandInv
<1>2. CASE tx' = tx
  <2>1. \A x \in Hooks \cup StoreTasks : Fits(tx[x])'
    BY <1>2, Bystander DEF BrandInv, Txs
  <2> QED
    BY <1>1, <1>2, <2>1 DEF BrandInv, Txs
<1>3. CASE \E t \in StoreTasks \cup Brand!BrandTasks : Brand!Calls(t)
  BY <1>1, <1>3, Calling DEF BrandInv
<1> QED
  BY <1>2, <1>3

LEMMA BrandTaskKeeps ==
  ASSUME BrandInv,
         \/ Brand!CreateBrandTask
         \/ \E m \in Brand!BrandTasks : Brand!BrandTaskEnds(m) \/ Brand!RetryBrandTask(m)
  PROVE  BrandInv'
<1>1. UNCHANGED <<prov, store, dep, stale>>
  BY DEF Brand!CreateBrandTask, Brand!BrandTaskEnds, Brand!RetryBrandTask, Brand!rows, Brand!history
<1>2. maker \in Seq(Known) /\ DOMAIN maker = 1..Len(maker) /\ Len(maker) \in Nat
  BY DEF BrandInv, Rows
<1>3. CASE Brand!CreateBrandTask
  <2>1. maker' = Append(maker, "open") /\ tx' = tx
    BY <1>3 DEF Brand!CreateBrandTask
  <2>2. /\ maker' \in Seq(Known) /\ Len(maker') = Len(maker) + 1
        /\ \A m \in Brand!BrandTasks : m \in Brand!BrandTasks' /\ maker'[m] = maker[m]
    BY <1>2, <2>1 DEF Known, Brand!BrandTasks
  <2>3. Grows
    BY <1>2, <2>2 DEF Grows, Proven
  <2> QED
    BY <1>1, <2>1, <2>2, <2>3, Making DEF BrandInv, Rows
<1>4. ASSUME NEW m \in Brand!BrandTasks, Brand!BrandTaskEnds(m) \/ Brand!RetryBrandTask(m) PROVE BrandInv'
  <2>1. PICK v \in Known : maker' = [maker EXCEPT ![m] = v]
    BY <1>4 DEF Brand!BrandTaskEnds, Brand!RetryBrandTask, Known
  <2>2. maker[m] # "done"
    BY <1>4 DEF Brand!BrandTaskEnds, Brand!RetryBrandTask
  <2>3. /\ maker' \in Seq(Known) /\ Len(maker') = Len(maker)
        /\ \A n \in Brand!BrandTasks : n \in Brand!BrandTasks' /\ (n # m => maker'[n] = maker[n])
    BY <1>2, <2>1 DEF Brand!BrandTasks
  <2>4. Grows
    BY <1>2, <2>2, <2>3 DEF Grows, Proven
  <2>5. tx' = tx \/ \E t \in StoreTasks \cup Brand!BrandTasks : Brand!Calls(t)
    BY <1>4 DEF Brand!BrandTaskEnds, Brand!RetryBrandTask
  <2> QED
    BY <1>1, <2>3, <2>4, <2>5, Making DEF BrandInv, Rows
<1> QED
  BY <1>3, <1>4

LEMMA StoreTaskKeeps ==
  ASSUME BrandInv, NEW s \in StoreTasks, Brand!StoreTaskGoesOn(s) \/ Brand!StoreTaskEnds(s) PROVE BrandInv'
<1>1. UNCHANGED <<maker, prov, dep, stale>> /\ dep[s] = "satisfied"
  BY DEF Brand!StoreTaskGoesOn, Brand!StoreTaskEnds, Brand!CanActivate, Brand!history
<1>2. PICK v \in Brand!Status : store' = [store EXCEPT ![s] = v]
  BY DEF Brand!StoreTaskGoesOn, Brand!StoreTaskEnds, Brand!Status, Brand!Ended
<1>3. Rows' /\ Grows
  BY <1>1, <1>2 DEF BrandInv, Rows, Grows, Proven, Brand!BrandTasks
<1>4. \A r \in StoreTasks : r # s => store'[r] = store[r]
  BY <1>2 DEF BrandInv, Rows
<1>5. Sound(prov)' /\ Deps'
  BY <1>1, <1>3, <1>4, RowsKept DEF BrandInv
<1>6. Txs'
  <2>1. CASE tx' = tx
    <3>1. \A x \in Hooks \cup StoreTasks : Fits(tx[x])'
      BY <1>1, <1>3, <2>1, Bystander DEF BrandInv, Txs
    <3> QED
      BY <2>1, <3>1 DEF BrandInv, Txs
  <2>2. CASE Brand!Calls(s)
    BY <1>1, <1>3, <2>2, Calling
  <2> QED
    BY <2>1, <2>2 DEF Brand!StoreTaskGoesOn, Brand!StoreTaskEnds
<1> QED
  BY <1>3, <1>5, <1>6 DEF BrandInv

LEMMA NothingKeeps == ASSUME BrandInv, UNCHANGED <<maker, prov, store, dep, tx, stale>> PROVE BrandInv'
<1>1. Rows' /\ Grows
  BY DEF BrandInv, Rows, Grows, Proven, Brand!BrandTasks
<1> QED
  BY <1>1, Making DEF BrandInv

LEMMA BrandInit == Brand!Init => BrandInv
<1> SUFFICES ASSUME Brand!Init PROVE BrandInv
  OBVIOUS
<1>1. maker = <<>> /\ Brand!BrandTasks = {} /\ Len(maker) = 0
  BY DEF Brand!Init, Brand!BrandTasks
<1>2. Rows
  <2>1. maker \in Seq(Known)
    BY <1>1
  <2> QED
    BY <2>1 DEF Brand!Init, Rows, Brand!Status
<1>3. Sound(prov)
  BY <1>1 DEF Brand!Init, Sound
<1>4. Txs
  BY DEF Brand!Init, Txs, Fits, Creating, Hooking, Locker, Brand!Idle
<1>5. Deps
  BY DEF Brand!Init, Deps, Brand!Ended
<1> QED
  BY <1>2, <1>3, <1>4, <1>5 DEF BrandInv

\* The invariant is kept by every step.
LEMMA BrandNext == BrandInv /\ [Brand!Next]_Brand!vars => BrandInv'
<1> SUFFICES ASSUME BrandInv, [Brand!Next]_Brand!vars PROVE BrandInv'
  OBVIOUS
<1>1. ASSUME NEW s \in StoreTasks, Brand!Create(s) \/ Brand!Decide(s) \/ Brand!Register(s) PROVE BrandInv'
  BY <1>1, CreateKeeps, DecideKeeps, RegisterKeeps
<1>2. ASSUME NEW s \in StoreTasks, Brand!StoreTaskGoesOn(s) \/ Brand!StoreTaskEnds(s) PROVE BrandInv'
  BY <1>2, StoreTaskKeeps
<1>3. CASE \/ Brand!CreateBrandTask
           \/ \E m \in Brand!BrandTasks : Brand!BrandTaskEnds(m) \/ Brand!RetryBrandTask(m)
  BY <1>3, BrandTaskKeeps
<1>4. ASSUME NEW h \in Hooks, Brand!ReadTask(h) \/ Brand!ReadProvisioning(h) \/ Brand!Commit(h) PROVE BrandInv'
  BY <1>4, ReadTaskKeeps, ReadProvisioningKeeps, CommitKeeps
<1>5. ASSUME NEW h \in Hooks, Brand!RecoverProvisioning(h) \/ \E s \in StoreTasks : Brand!RecoverRequest(h, s) PROVE BrandInv'
  BY <1>5, RecoverProvisioningKeeps, RecoverRequestKeeps
<1>6. ASSUME NEW x \in DOMAIN tx, Brand!Die(x) PROVE BrandInv'
  <2>1. x \in Hooks \cup StoreTasks
    BY DEF BrandInv, Txs
  <2> QED
    BY <1>6, <2>1, DieKeeps
<1>7. CASE Brand!Switch \/ UNCHANGED Brand!vars
  BY <1>7, NothingKeeps DEF Brand!Switch, Brand!vars, Brand!rows, Brand!history
<1> QED
  BY <1>1, <1>2, <1>3, <1>4, <1>5, <1>6, <1>7 DEF Brand!Next

\* recoverTerminalBrandProvisionings, ensureBrandProvisioning: the dependencies of
\* the store tasks say what the provisioning says, unless a late transaction wrote
\* over it, and no store is created before the brand.
THEOREM BrandFirstHolds == Brand!Spec => []BrandFirst
<1>1. BrandInv => BrandFirst
  BY DEF BrandInv, Deps, Founded, Proven, BrandFirst, Brand!BrandFirst
<1> QED
  BY <1>1, BrandInit, BrandNext, PTL DEF Brand!Spec
=============================================================================
