--------------------------- MODULE OrderAcceptance ---------------------------
(***************************************************************************)
(* The order webhook: DiDi announces an order, again and again if it likes *)
(* and to several requests at once; Guaro has to confirm it, a second time *)
(* ten seconds later, and never a third, though an answer may be lost.     *)
(*                                                                         *)
(* There is one order, i.e. one row of didi_order_webhook_event, for no    *)
(* step touches two.  A request reads the row, then changes it by updates  *)
(* that compare it with what was read; in between other requests come.  A  *)
(* confirmation is reserved in the row before it is posted, and given back *)
(* only when DiDi has said no.                                             *)
(***************************************************************************)
EXTENDS Integers, FiniteSets

CONSTANTS
  Request,          \* the requests that may be handled at once
  NamesShop,        \* those whose payload has a shop_id
  MaxAlternatives,  \* other shops to try: local, inventory, remote
  Faults            \* what may go wrong

\* A request dies, or fails to write; a request is slower than its deadline.
Fault == {"death", "stall"}

ASSUME AcceptanceConstants ==
  /\ IsFiniteSet(Request) /\ NamesShop \subseteq Request
  /\ MaxAlternatives \in Nat
  /\ Faults \subseteq Fault

VARIABLES
  status,             \* of the row, "none": there is no row
  acceptedCount, confirmationCalls,
  acceptedAgo,        \* accepted_at is ten seconds old
  failedAgo,          \* failed_at is ten seconds old
  stale,              \* started_at is DIDI_ORDER_WEBHOOK_STALE_PROCESSING_MS old
  pc,                 \* what a request is doing
  event,              \* the row as a request has read or claimed it
  call,               \* the confirmation call it has reserved
  automatic,          \* the request is at its automatic second confirmation
  alternatives,       \* the shops it may still try
  confirmed,          \* the confirmations DiDi has taken (external)
  profits,            \* the requests that recognized the profit of the order
  fresh,              \* DiDi may have taken one less than ten seconds ago
  overran             \* some request has been slower than its deadline

row   == <<status, acceptedCount, confirmationCalls, acceptedAgo, failedAgo, stale>>
mine  == <<call, automatic, alternatives>>
world == <<confirmed, profits, fresh, overran>>
vars  == <<row, pc, event, mine, world>>

Status == {"none", "processing", "accepted", "failed"}
Event  == [status : Status, acceptedCount : 0..2, confirmationCalls : 0..2]
PC     == {"idle", "barrier", "resolving", "claiming", "claimed", "authenticated",
           "posting", "refused", "taken", "failing", "waiting"}

TypeOK ==
  /\ status \in Status
  /\ acceptedCount \in 0..2 /\ confirmationCalls \in 0..2
  /\ acceptedAgo \in BOOLEAN /\ failedAgo \in BOOLEAN /\ stale \in BOOLEAN
  /\ pc \in [Request -> PC]
  /\ event \in [Request -> Event]
  /\ call \in [Request -> 0..2]
  /\ automatic \in [Request -> BOOLEAN]
  /\ alternatives \in [Request -> 0..MaxAlternatives]
  /\ confirmed \in Nat /\ profits \in Nat
  /\ fresh \in BOOLEAN /\ overran \in BOOLEAN

Row == [status |-> status, acceptedCount |-> acceptedCount,
        confirmationCalls |-> confirmationCalls]

NoRow == [status |-> "none", acceptedCount |-> 0, confirmationCalls |-> 0]

Init ==
  /\ status = "none" /\ acceptedCount = 0 /\ confirmationCalls = 0
  /\ acceptedAgo = FALSE /\ failedAgo = FALSE /\ stale = FALSE
  /\ pc = [r \in Request |-> "idle"]
  /\ event = [r \in Request |-> NoRow]
  /\ call = [r \in Request |-> 0]
  /\ automatic = [r \in Request |-> FALSE]
  /\ alternatives = [r \in Request |-> 0]
  /\ confirmed = 0 /\ profits = 0 /\ fresh = FALSE /\ overran = FALSE

\* Math.max(confirmationCalls, acceptedCount) of a row that was read.
Used(e) == IF e.confirmationCalls > e.acceptedCount THEN e.confirmationCalls
           ELSE e.acceptedCount

\* A confirmation whose outcome is unknown keeps its reservation.
Ambiguous(e) == e.confirmationCalls > e.acceptedCount

Go(r, to) == pc' = [pc EXCEPT ![r] = to]

\* The request needs no more what it has read and reserved.
Forget(r, to) ==
  /\ Go(r, to)
  /\ event' = [event EXCEPT ![r] = NoRow]
  /\ call' = [call EXCEPT ![r] = 0]
  /\ automatic' = [automatic EXCEPT ![r] = FALSE]
  /\ alternatives' = [alternatives EXCEPT ![r] = 0]

-----------------------------------------------------------------------------
(* Duplicates and claims.                                                  *)

\* The conditions of claimSecondAcceptance.
SecondDue ==
  /\ status = "accepted" /\ acceptedCount = 1
  /\ Used(Row) < 2
  /\ acceptedAgo

\* findResolvedDuplicate: a delivery is answered as a duplicate, which changes
\* nothing, or goes on.
Receive(r) ==
  /\ pc[r] = "idle"
  /\ \/ /\ status = "failed" /\ Used(Row) < 2
        /\ Go(r, IF Ambiguous(Row) THEN "barrier" ELSE "resolving")
     \/ /\ status # "failed"
        /\ \/ r \notin NamesShop \/ status = "none" \/ SecondDue
           \/ status = "processing" /\ stale
        /\ Go(r, "resolving")
  /\ UNCHANGED <<row, event, mine, world>>

\* waitForAmbiguousRetryBarrier
BarrierPasses(r) ==
  /\ pc[r] = "barrier"
  /\ status = "failed" => failedAgo
  /\ Go(r, "resolving")
  /\ UNCHANGED <<row, event, mine, world>>

\* The request has claimed the row e for a first, or automatic, confirmation.
Claims(r, e, to, auto) ==
  /\ Go(r, to)
  /\ status' = "processing" /\ stale' = FALSE
  /\ event' = [event EXCEPT ![r] = e]
  /\ automatic' = [automatic EXCEPT ![r] = auto]
  /\ alternatives' = [alternatives EXCEPT ![r] = IF auto THEN 0 ELSE MaxAlternatives]
  /\ UNCHANGED <<acceptedCount, confirmationCalls, call, world>>

\* claimEvent: there is no row yet.
ClaimNew(r) ==
  /\ pc[r] = "resolving"
  /\ status = "none"
  /\ Claims(r, NoRow, "claimed", FALSE)
  /\ UNCHANGED <<acceptedAgo, failedAgo>>

\* claimEvent: the row is read.
ReadEvent(r) ==
  /\ pc[r] = "resolving"
  /\ status # "none" /\ Used(Row) < 2
  /\ event' = [event EXCEPT ![r] = Row]
  /\ Go(r, "claiming")
  /\ UNCHANGED <<row, mine, world>>

\* It is left alone once both confirmations are used.
AllUsed(r) ==
  /\ pc[r] = "resolving"
  /\ Used(Row) >= 2
  /\ Go(r, "idle")
  /\ UNCHANGED <<row, event, mine, world>>

\* Mutants: the ten seconds are not waited for; only failed rows are claimed.
ReclaimableAtOnce(e) ==
  IF e.status = "failed" THEN Row = e
  ELSE status = "processing" /\ confirmationCalls < 2 /\ stale
ReclaimableFailed(e) ==
  e.status = "failed" /\ Row = e /\ (Ambiguous(e) => failedAgo)

\* reclaimableWhere, for the row e that was read.
Reclaimable(e) ==
  IF e.status = "failed" THEN Row = e /\ (Ambiguous(e) => failedAgo)
  ELSE /\ status = "processing" /\ stale
       /\ acceptedCount < 2 /\ confirmationCalls < 2

\* claimEvent: a failed row, or one whose request is gone, is claimed again.  The
\* claim keeps the counts that were read.
Reclaim(r) ==
  LET e == event[r]
  IN /\ pc[r] = "claiming"
     /\ e.status \in {"failed", "processing"}
     /\ Reclaimable(e)
     /\ Claims(r, e, "claimed", FALSE)
     /\ acceptedAgo' = (acceptedAgo /\ e.acceptedCount > 0)
     /\ failedAgo' = FALSE

\* claimEvent: claimSecondAcceptance by a later delivery.
ClaimSecond(r) ==
  /\ pc[r] = "claiming"
  /\ event[r].status = "accepted"
  /\ SecondDue
  /\ Claims(r, Row, "claimed", FALSE)
  /\ UNCHANGED <<acceptedAgo, failedAgo>>

\* claimEvent: the row has changed, or it is too early.
ClaimMisses(r) ==
  /\ pc[r] = "claiming"
  /\ IF event[r].status = "accepted" THEN ~SecondDue ELSE ~Reclaimable(event[r])
  /\ Forget(r, "idle")
  /\ UNCHANGED <<row, world>>

-----------------------------------------------------------------------------
(* Confirmations.                                                          *)

\* authenticateAvailableCandidate: a token for the shop, or for another one.
Authenticate(r) ==
  /\ pc[r] = "claimed"
  /\ \E n \in 0..alternatives[r] :
       alternatives' = [alternatives EXCEPT ![r] = n]
  /\ Go(r, "authenticated")
  /\ UNCHANGED <<row, event, call, automatic, world>>

\* No shop has a token, or the deadline is over.
NoToken(r) ==
  /\ pc[r] \in {"claimed", "authenticated"}
  /\ Go(r, "failing")
  /\ UNCHANGED <<row, event, mine, world>>

\* reserveConfirmationCall, whereupon the confirmation is posted.
Reserve(r) ==
  /\ pc[r] = "authenticated"
  /\ status = "processing" /\ Used(Row) < 2
  /\ confirmationCalls' = Used(Row) + 1
  /\ call' = [call EXCEPT ![r] = confirmationCalls']
  /\ Go(r, "posting")
  /\ UNCHANGED <<status, acceptedCount, acceptedAgo, failedAgo, stale, event, automatic,
                 alternatives, world>>

\* confirmReservedOrder: the budget is exhausted, or the row is another's.
ReserveFails(r) ==
  /\ pc[r] = "authenticated"
  /\ status # "processing" \/ Used(Row) >= 2
  /\ Go(r, "failing")
  /\ UNCHANGED <<row, event, mine, world>>

\* DiDi says yes.
AnswerYes(r) ==
  /\ pc[r] = "posting"
  /\ Go(r, "taken")
  /\ confirmed' = confirmed + 1 /\ fresh' = TRUE
  /\ UNCHANGED <<row, event, mine, profits, overran>>

\* DiDi says no, with an errno and no server error.
AnswerNo(r) ==
  /\ pc[r] = "posting"
  /\ Go(r, "refused")
  /\ UNCHANGED <<row, event, mine, world>>

\* DiDi may have taken a confirmation that was not answered.
MayBeTaken ==
  /\ fresh' = TRUE
  /\ confirmed' \in {confirmed, confirmed + 1}

\* Mutant: any failure counts as a refusal.
AnswerLostRefused(r) ==
  /\ pc[r] = "posting"
  /\ Go(r, "refused")
  /\ MayBeTaken
  /\ UNCHANGED <<row, event, mine, profits, overran>>

\* A timeout, a network or server error, an answer that is no JSON.
AnswerLost(r) ==
  /\ pc[r] = "posting"
  /\ Go(r, "failing")
  /\ MayBeTaken
  /\ UNCHANGED <<row, event, mine, profits, overran>>

\* releaseConfirmationCall, then another shop, if there is one.
Release(r) ==
  /\ pc[r] = "refused"
  /\ IF status = "processing" /\ confirmationCalls = call[r] /\ confirmationCalls > acceptedCount
     THEN /\ confirmationCalls' = confirmationCalls - 1
          /\ \/ /\ alternatives[r] > 0
                /\ alternatives' = [alternatives EXCEPT ![r] = @ - 1]
                /\ Go(r, "claimed")
             \/ Go(r, "failing") /\ UNCHANGED alternatives
     ELSE Go(r, "failing") /\ UNCHANGED <<confirmationCalls, alternatives>>
  /\ UNCHANGED <<status, acceptedCount, acceptedAgo, failedAgo, stale, event, call,
                 automatic, world>>

\* The conditions of markEventAccepted.
HasSlot(r) ==
  /\ status = "processing"
  /\ acceptedCount = event[r].acceptedCount
  /\ acceptedCount < 2 /\ confirmationCalls > acceptedCount

\* acceptEventAndCompleteRequest: row and request in one transaction.  The first
\* acceptance recognizes the profit; the request then waits for the second one.
Accept(r) ==
  /\ pc[r] = "taken" /\ HasSlot(r)
  /\ status' = "accepted"
  /\ acceptedCount' = acceptedCount + 1
  /\ acceptedAgo' = FALSE
  /\ profits' = IF event[r].acceptedCount = 0 THEN profits + 1 ELSE profits
  /\ Forget(r, IF Used(event[r]) = 0 THEN "waiting" ELSE "idle")
  /\ UNCHANGED <<confirmationCalls, failedAgo, stale, confirmed, fresh, overran>>

\* The slot is lost: the request ends and leaves the row alone, if it is not at
\* its automatic second confirmation.
AcceptFails(r) ==
  /\ pc[r] = "taken" /\ ~HasSlot(r)
  /\ IF automatic[r] THEN Go(r, "failing") /\ UNCHANGED <<event, mine>>
     ELSE Forget(r, "idle")
  /\ UNCHANGED <<row, world>>

\* markEventAttemptFailed
Fail(r) ==
  /\ pc[r] = "failing"
  /\ IF status = "processing" /\ acceptedCount = event[r].acceptedCount
     THEN IF acceptedCount > 0
          THEN status' = "accepted" /\ UNCHANGED failedAgo
          ELSE status' = "failed" /\ failedAgo' = FALSE
     ELSE UNCHANGED <<status, failedAgo>>
  /\ Forget(r, "idle")
  /\ UNCHANGED <<acceptedCount, confirmationCalls, acceptedAgo, stale, world>>

\* tryAutomaticSecondConfirmation: the row is claimed again after ten seconds.
SecondConfirmation(r) ==
  /\ pc[r] = "waiting"
  /\ SecondDue
  /\ Claims(r, Row, "authenticated", TRUE)
  /\ UNCHANGED <<acceptedAgo, failedAgo>>

\* Another delivery has claimed it, or the deadline is too near.
NoSecondConfirmation(r) ==
  /\ pc[r] = "waiting"
  /\ Go(r, "idle")
  /\ UNCHANGED <<row, event, mine, world>>

-----------------------------------------------------------------------------
(* Faults and time.                                                        *)

\* The request is gone, from wherever it was.
Die(r) ==
  /\ "death" \in Faults
  /\ pc[r] # "idle"
  /\ Forget(r, "idle")
  /\ IF pc[r] = "posting" THEN MayBeTaken ELSE UNCHANGED <<confirmed, fresh>>
  /\ UNCHANGED <<row, profits, overran>>

TenSecondsPass ==
  /\ fresh \/ (status = "accepted" /\ ~acceptedAgo) \/ (status = "failed" /\ ~failedAgo)
  /\ fresh' = FALSE
  /\ acceptedAgo' = (acceptedAgo \/ acceptedCount > 0)
  /\ failedAgo' = (failedAgo \/ status = "failed")
  /\ UNCHANGED <<status, acceptedCount, confirmationCalls, stale, pc, event, mine,
                 confirmed, profits, overran>>

\* The requests that have claimed the row and are not done with it.
Holds(r) == pc[r] \in {"claimed", "authenticated", "posting", "refused", "taken", "failing"}

\* A claim gets stale.  A request lives less long than that, so it is gone, and so
\* are those that read an older state of the row, unless one is too slow.
ClaimGetsStale ==
  LET slow == \E r \in Request :
        Holds(r) \/ (pc[r] = "claiming" /\ event[r].acceptedCount # acceptedCount)
  IN /\ status = "processing" /\ ~stale /\ ~fresh
     /\ slow => "stall" \in Faults
     /\ stale' = TRUE
     /\ overran' = (overran \/ slow)
     /\ UNCHANGED <<status, acceptedCount, confirmationCalls, acceptedAgo, failedAgo, pc,
                    event, mine, confirmed, profits, fresh>>

-----------------------------------------------------------------------------

Claim(r) ==
  ClaimNew(r) \/ ReadEvent(r) \/ AllUsed(r) \/ Reclaim(r) \/ ClaimSecond(r) \/ ClaimMisses(r)
Prepare(r) == Authenticate(r) \/ NoToken(r) \/ Reserve(r) \/ ReserveFails(r)
Answer(r) == AnswerYes(r) \/ AnswerNo(r) \/ AnswerLost(r)
Settle(r) == Release(r) \/ Accept(r) \/ AcceptFails(r) \/ Fail(r)
Second(r) == SecondConfirmation(r) \/ NoSecondConfirmation(r)

Work(r) == BarrierPasses(r) \/ Claim(r) \/ Prepare(r) \/ Answer(r) \/ Settle(r) \/ Second(r)

Next ==
  \/ \E r \in Request : Receive(r) \/ Work(r) \/ Die(r)
  \/ TenSecondsPass \/ ClaimGetsStale

Spec == Init /\ [][Next]_vars

\* DiDi announces the order for ever, and requests go on.  They may die, and DiDi
\* may say no, often, but not whenever a request is at the same point.
Fairness ==
  /\ \A r \in Request : WF_vars(Receive(r)) /\ WF_vars(Work(r))
  /\ WF_vars(TenSecondsPass) /\ WF_vars(ClaimGetsStale)
  /\ SF_vars(\E r \in Request : BarrierPasses(r))
  /\ SF_vars(\E r \in Request : ReadEvent(r))
  /\ SF_vars(\E r \in Request : ClaimNew(r) \/ Reclaim(r))
  /\ SF_vars(\E r \in Request : status = "processing" /\ Authenticate(r))
  /\ SF_vars(\E r \in Request : Reserve(r))
  /\ SF_vars(\E r \in Request : AnswerYes(r))

FairSpec == Spec /\ Fairness

-----------------------------------------------------------------------------
(* What the webhook promises.                                              *)

\* confirmReservedOrder: DiDi never takes more than two confirmations, whatever
\* is lost, repeated, overtaken or late.
AtMostTwo == confirmed <= 2

\* markEventAccepted: what is counted as accepted was confirmed by DiDi.
NothingInvented == acceptedCount <= confirmed

\* The profit of an order is recognized once, by its first acceptance.
ProfitOnce == profits = IF acceptedCount > 0 THEN 1 ELSE 0

\* claimEvent: a request that keeps its deadline never loses the row it claimed,
\* so that the confirmation DiDi took is recorded.
KeepsSlot ==
  ~overran => \A r \in Request : Holds(r) =>
    /\ status = "processing" /\ acceptedCount = event[r].acceptedCount
    /\ pc[r] \in {"posting", "refused", "taken"} => confirmationCalls = call[r]

\* Confirmations DiDi may both take are posted ten seconds apart.
Separated ==
  [][\A r \in Request : ~overran /\ pc[r] # "posting" /\ pc'[r] = "posting" =>
       ~fresh /\ \A s \in Request : pc[s] # "posting"]_vars

\* findResolvedDuplicate: a failed order whose confirmations are used up is final.
FailedForGood ==
  [][status = "failed" /\ confirmationCalls = 2 =>
       status' = "failed" /\ confirmationCalls' = 2]_vars

\* An order that DiDi announces again and again is confirmed, or its confirmations
\* are used up.
Confirmed == <>(confirmed > 0 \/ confirmationCalls = 2)
=============================================================================
