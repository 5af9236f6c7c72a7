------------------------ MODULE OrderAcceptanceProofs ------------------------
(* Proofs about OrderAcceptance: how often DiDi takes a confirmation, and     *)
(* when, for any requests, shops and faults.                                  *)
(*                                                                            *)
(* The row counts each confirmation that DiDi may have taken before it is     *)
(* posted, and each acceptance after it is answered (Counts).  What holds as  *)
(* long as no request overruns its deadline needs who holds the row           *)
(* (Exclusive) and what a recent confirmation rules out (Cooling).            *)
EXTENDS OrderAcceptance, FiniteSetTheorems, TLAPS

-----------------------------------------------------------------------------
(* Types.                                                                     *)

\* The variables of the row and the world, and those of the requests.
CountTypes ==
  /\ acceptedCount \in 0..2 /\ confirmationCalls \in 0..2
  /\ confirmed \in Nat /\ profits \in Nat

FlagTypes ==
  /\ status \in Status
  /\ acceptedAgo \in BOOLEAN /\ failedAgo \in BOOLEAN /\ stale \in BOOLEAN
  /\ fresh \in BOOLEAN /\ overran \in BOOLEAN

RowTypes == CountTypes /\ FlagTypes

RequestTypes ==
  /\ pc \in [Request -> PC]
  /\ event \in [Request -> Event]
  /\ call \in [Request -> 0..2]
  /\ automatic \in [Request -> BOOLEAN]
  /\ alternatives \in [Request -> 0..MaxAlternatives]

LEMMA Types == TypeOK <=> RowTypes /\ RequestTypes
BY DEF TypeOK, RowTypes, CountTypes, FlagTypes, RequestTypes

LEMMA TypesPrimed == RowTypes' /\ RequestTypes' => TypeOK'
BY DEF TypeOK, RowTypes, CountTypes, FlagTypes, RequestTypes

LEMMA RowEvent == NoRow \in Event /\ (TypeOK => Row \in Event /\ Used(Row) \in 0..2)
<1>1. NoRow \in Event
  BY DEF NoRow, Event, Status
<1>2. ASSUME TypeOK PROVE Row \in Event
  BY <1>2 DEF TypeOK, Row, Event
<1>3. ASSUME TypeOK PROVE Used(Row) \in 0..2
  BY <1>3 DEF TypeOK, Row, Used
<1> QED
  BY <1>1, <1>2, <1>3

LEMMA InitTypeOK == Init => TypeOK
<1> SUFFICES ASSUME Init PROVE TypeOK
  OBVIOUS
<1>1. CountTypes
  BY DEF Init, CountTypes
<1>4. FlagTypes
  BY DEF Init, FlagTypes, Status
<1>2. 0 \in 0..MaxAlternatives /\ "idle" \in PC /\ 0 \in 0..2
  BY AcceptanceConstants DEF PC
<1>3. RequestTypes
  BY <1>2, RowEvent DEF Init, RequestTypes
<1> QED
  BY <1>1, <1>3, <1>4, Types DEF RowTypes

\* What a request does with what it knows.
LEMMA GoTypes ==
  ASSUME TypeOK, NEW r \in Request, NEW to \in PC, Go(r, to)
  PROVE  pc' \in [Request -> PC]
BY DEF TypeOK, Go

LEMMA ForgetTypes ==
  ASSUME TypeOK, NEW r \in Request, NEW to \in PC, Forget(r, to)
  PROVE  RequestTypes'
<1>1. 0 \in 0..MaxAlternatives
  BY AcceptanceConstants
<1> QED
  BY <1>1, RowEvent, GoTypes DEF Forget, TypeOK, RequestTypes

LEMMA ClaimsTypes ==
  ASSUME TypeOK, NEW r \in Request, NEW e \in Event, NEW to \in PC, NEW auto \in BOOLEAN,
         Claims(r, e, to, auto), acceptedAgo' \in BOOLEAN, failedAgo' \in BOOLEAN
  PROVE  TypeOK'
<1>1. (IF auto THEN 0 ELSE MaxAlternatives) \in 0..MaxAlternatives
  BY AcceptanceConstants
<1>2. RequestTypes'
  BY <1>1, GoTypes DEF Claims, TypeOK, RequestTypes
<1>3. RowTypes'
  BY DEF Claims, TypeOK, RowTypes, CountTypes, FlagTypes, Status, world
<1> QED
  BY <1>2, <1>3, TypesPrimed

LEMMA NextTypeOK == TypeOK /\ [Next]_vars => TypeOK'
<1> SUFFICES ASSUME TypeOK, [Next]_vars PROVE TypeOK'
  OBVIOUS
<1> USE Types, TypesPrimed DEF row, mine, world
<1>1. PC = {"idle", "barrier", "resolving", "claiming", "claimed", "authenticated",
            "posting", "refused", "taken", "failing", "waiting"}
  BY DEF PC
<1>2. ASSUME NEW r \in Request, NEW to \in PC, Go(r, to), UNCHANGED <<event, mine>>
      PROVE  RequestTypes'
  BY <1>2, GoTypes DEF RequestTypes
<1>3. ASSUME UNCHANGED <<row, world>> PROVE RowTypes'
  BY <1>3 DEF RowTypes, CountTypes, FlagTypes
<1>4. ASSUME NEW r \in Request,
             Receive(r) \/ BarrierPasses(r) \/ AllUsed(r) \/ NoToken(r) \/ ReserveFails(r)
             \/ AnswerNo(r) \/ NoSecondConfirmation(r)
      PROVE  TypeOK'
  <2>1. UNCHANGED <<row, event, mine, world>>
    BY <1>4 DEF Receive, BarrierPasses, AllUsed, NoToken, ReserveFails, AnswerNo,
                NoSecondConfirmation
  <2>2. \E to \in PC : Go(r, to)
    BY <1>1, <1>4 DEF Receive, BarrierPasses, AllUsed, NoToken, ReserveFails, AnswerNo,
                      NoSecondConfirmation
  <2> QED
    BY <1>2, <1>3, <2>1, <2>2
<1>5. ASSUME NEW r \in Request, ClaimNew(r) \/ ClaimSecond(r) \/ SecondConfirmation(r)
      PROVE  TypeOK'
  <2>1. acceptedAgo' \in BOOLEAN /\ failedAgo' \in BOOLEAN
    BY <1>5 DEF ClaimNew, ClaimSecond, SecondConfirmation, RowTypes, FlagTypes
  <2> QED
    BY <1>1, <1>5, <2>1, RowEvent, ClaimsTypes DEF ClaimNew, ClaimSecond, SecondConfirmation
<1>6. ASSUME NEW r \in Request, Reclaim(r) PROVE TypeOK'
  <2>1. acceptedAgo' \in BOOLEAN /\ failedAgo' \in BOOLEAN /\ event[r] \in Event
    BY <1>6 DEF Reclaim, RowTypes, FlagTypes, RequestTypes
  <2> QED
    BY <1>1, <1>6, <2>1, ClaimsTypes DEF Reclaim
<1>7. ASSUME NEW r \in Request, ReadEvent(r) PROVE TypeOK'
  <2>1. RequestTypes'
    BY <1>1, <1>7, RowEvent, GoTypes DEF ReadEvent, RequestTypes
  <2> QED
    BY <1>3, <1>7, <2>1 DEF ReadEvent
<1>8. ASSUME NEW r \in Request, ClaimMisses(r) PROVE TypeOK'
  BY <1>1, <1>3, <1>8, ForgetTypes DEF ClaimMisses
<1>9. ASSUME NEW r \in Request, Authenticate(r) PROVE TypeOK'
  <2>1. PICK n \in 0..alternatives[r] : alternatives' = [alternatives EXCEPT ![r] = n]
    BY <1>9 DEF Authenticate
  <2>2. n \in 0..MaxAlternatives
    BY AcceptanceConstants DEF RequestTypes
  <2>3. RequestTypes'
    BY <1>1, <1>9, <2>1, <2>2, GoTypes DEF Authenticate, RequestTypes
  <2> QED
    BY <1>3, <1>9, <2>3 DEF Authenticate
<1>10. ASSUME NEW r \in Request, Reserve(r) PROVE TypeOK'
  <2>1. Used(Row) + 1 \in 0..2
    BY <1>10, RowEvent DEF Reserve
  <2>2. RequestTypes'
    BY <1>1, <1>10, <2>1, GoTypes DEF Reserve, RequestTypes
  <2>3. RowTypes'
    BY <1>10, <2>1 DEF Reserve, RowTypes, CountTypes, FlagTypes
  <2> QED
    BY <2>2, <2>3
<1>11. ASSUME NEW r \in Request, AnswerYes(r) \/ AnswerLost(r) PROVE TypeOK'
  <2>1. RequestTypes'
    BY <1>1, <1>2, <1>11 DEF AnswerYes, AnswerLost
  <2>2. CountTypes'
    BY <1>11 DEF AnswerYes, AnswerLost, MayBeTaken, RowTypes, CountTypes
  <2>3. FlagTypes'
    BY <1>11 DEF AnswerYes, AnswerLost, MayBeTaken, RowTypes, FlagTypes
  <2> QED
    BY <2>1, <2>2, <2>3 DEF RowTypes
<1>12. ASSUME NEW r \in Request, Release(r) PROVE TypeOK'
  <2>1. RowTypes'
    BY <1>12 DEF Release, RowTypes, CountTypes, FlagTypes
  <2>2. alternatives' \in [Request -> 0..MaxAlternatives]
    BY <1>12, AcceptanceConstants DEF Release, RequestTypes
  <2>3. \E to \in PC : Go(r, to)
    BY <1>1, <1>12 DEF Release
  <2>4. RequestTypes'
    BY <1>12, <2>2, <2>3, GoTypes DEF Release, RequestTypes
  <2> QED
    BY <2>1, <2>4
<1>13. ASSUME NEW r \in Request, Accept(r) PROVE TypeOK'
  <2>2. CountTypes'
    BY <1>13 DEF Accept, HasSlot, RowTypes, CountTypes
  <2>3. FlagTypes'
    BY <1>13 DEF Accept, HasSlot, RowTypes, FlagTypes, Status
  <2> QED
    BY <1>1, <1>13, <2>2, <2>3, ForgetTypes DEF Accept, RowTypes
<1>14. ASSUME NEW r \in Request, AcceptFails(r) PROVE TypeOK'
  BY <1>1, <1>2, <1>3, <1>14, ForgetTypes DEF AcceptFails
<1>15. ASSUME NEW r \in Request, Fail(r) PROVE TypeOK'
  <2>2. CountTypes'
    BY <1>15 DEF Fail, RowTypes, CountTypes
  <2>3. FlagTypes'
    BY <1>15 DEF Fail, RowTypes, FlagTypes, Status
  <2> QED
    BY <1>1, <1>15, <2>2, <2>3, ForgetTypes DEF Fail, RowTypes
<1>16. ASSUME NEW r \in Request, Die(r) PROVE TypeOK'
  <2>2. CountTypes'
    BY <1>16 DEF Die, MayBeTaken, RowTypes, CountTypes
  <2>3. FlagTypes'
    BY <1>16 DEF Die, MayBeTaken, RowTypes, FlagTypes
  <2> QED
    BY <1>1, <1>16, <2>2, <2>3, ForgetTypes DEF Die, RowTypes
<1>17. CASE TenSecondsPass \/ ClaimGetsStale
  BY <1>17 DEF TenSecondsPass, ClaimGetsStale, RowTypes, CountTypes, FlagTypes, RequestTypes
<1>18. CASE UNCHANGED vars
  BY <1>18 DEF vars, RowTypes, CountTypes, FlagTypes, RequestTypes
<1> QED
  BY <1>4, <1>5, <1>6, <1>7, <1>8, <1>9, <1>10, <1>11, <1>12, <1>13, <1>14, <1>15, <1>16,
     <1>17, <1>18 DEF Next, Work, Claim, Prepare, Answer, Settle, Second

\* TypeOK: every variable keeps its type; neither count exceeds two.
THEOREM TypeCorrect == Spec => []TypeOK
BY InitTypeOK, NextTypeOK, PTL DEF Spec

-----------------------------------------------------------------------------
(* Counts.                                                                    *)

\* The requests whose confirmation is reserved and not known to be taken, and
\* those whose confirmation is taken and not yet recorded.
Outstanding == {r \in Request : pc[r] \in {"posting", "refused"}}
Unrecorded  == {r \in Request : pc[r] = "taken"}

Counts ==
  /\ confirmed + Cardinality(Outstanding) <= confirmationCalls
  /\ acceptedCount + Cardinality(Unrecorded) <= confirmed

LEMMA Finite ==
  /\ IsFiniteSet(Outstanding) /\ Cardinality(Outstanding) \in Nat
  /\ IsFiniteSet(Unrecorded) /\ Cardinality(Unrecorded) \in Nat
<1>1. Outstanding \subseteq Request /\ Unrecorded \subseteq Request
  BY DEF Outstanding, Unrecorded
<1> QED
  BY <1>1, AcceptanceConstants, FS_Subset, FS_CardinalityType

LEMMA FinitePrimed ==
  /\ IsFiniteSet(Outstanding') /\ Cardinality(Outstanding') \in Nat
  /\ IsFiniteSet(Unrecorded') /\ Cardinality(Unrecorded') \in Nat
<1>1. Outstanding' \subseteq Request /\ Unrecorded' \subseteq Request
  BY DEF Outstanding, Unrecorded
<1> QED
  BY <1>1, AcceptanceConstants, FS_Subset, FS_CardinalityType

\* A step that neither counts nor begins anything.
LEMMA KeptCounts ==
  ASSUME TypeOK, Counts, UNCHANGED <<acceptedCount, confirmationCalls, confirmed>>,
         Outstanding' \subseteq Outstanding, Unrecorded' \subseteq Unrecorded
  PROVE  Counts'
<1>1. Cardinality(Outstanding') <= Cardinality(Outstanding)
  BY Finite, FS_Subset
<1>2. Cardinality(Unrecorded') <= Cardinality(Unrecorded)
  BY Finite, FS_Subset
<1> QED
  BY <1>1, <1>2, Finite, FinitePrimed DEF Counts, TypeOK

\* A request that gets to a point where nothing of it is counted.
LEMMA GoneCounts ==
  ASSUME TypeOK, Counts, UNCHANGED <<acceptedCount, confirmationCalls, confirmed>>,
         NEW r \in Request, NEW to \in PC \ {"posting", "refused", "taken"}, Go(r, to)
  PROVE  Counts'
<1>1. Outstanding' \subseteq Outstanding /\ Unrecorded' \subseteq Unrecorded
  BY DEF Go, TypeOK, Outstanding, Unrecorded
<1> QED
  BY <1>1, KeptCounts

\* A request whose confirmation is not outstanding any more.
LEMMA OneLess ==
  ASSUME TypeOK, NEW r \in Request, NEW to \in PC \ {"posting", "refused"}, Go(r, to),
         pc[r] \in {"posting", "refused"}
  PROVE  /\ Cardinality(Outstanding') = Cardinality(Outstanding) - 1
         /\ Cardinality(Unrecorded') = IF to = "taken" THEN Cardinality(Unrecorded) + 1
                                       ELSE Cardinality(Unrecorded)
<1>1. r \in Outstanding /\ Outstanding' = Outstanding \ {r}
  BY DEF Go, TypeOK, Outstanding
<1>2. r \notin Unrecorded
      /\ Unrecorded' = IF to = "taken" THEN Unrecorded \cup {r} ELSE Unrecorded
  BY DEF Go, TypeOK, Unrecorded
<1>3. Cardinality(Outstanding') = Cardinality(Outstanding) - 1
  BY <1>1, Finite, FS_RemoveElement
<1>4. Cardinality(Unrecorded \cup {r}) = Cardinality(Unrecorded) + 1
  BY <1>2, Finite, FS_AddElement
<1> QED
  BY <1>2, <1>3, <1>4

LEMMA NextCounts == TypeOK /\ Counts /\ [Next]_vars => Counts'
<1> SUFFICES ASSUME TypeOK, Counts, [Next]_vars PROVE Counts'
  OBVIOUS
<1> USE DEF row, mine, world
<1>1. ASSUME NEW r \in Request, Receive(r) \/ BarrierPasses(r) \/ Claim(r) \/ Second(r)
      PROVE  Counts'
  <2>1. \E to \in PC \ {"posting", "refused", "taken"} : Go(r, to)
    BY <1>1 DEF Receive, BarrierPasses, Claim, ClaimNew, ReadEvent, AllUsed, Reclaim,
                ClaimSecond, ClaimMisses, Claims, Second, SecondConfirmation,
                NoSecondConfirmation, Forget, PC
  <2>2. UNCHANGED <<acceptedCount, confirmationCalls, confirmed>>
    BY <1>1 DEF Receive, BarrierPasses, Claim, ClaimNew, ReadEvent, AllUsed, Reclaim,
                ClaimSecond, ClaimMisses, Claims, Second, SecondConfirmation,
                NoSecondConfirmation
  <2> QED
    BY <2>1, <2>2, GoneCounts
<1>2. ASSUME NEW r \in Request,
             Authenticate(r) \/ NoToken(r) \/ ReserveFails(r) \/ AcceptFails(r) \/ Fail(r)
      PROVE  Counts'
  <2>1. \E to \in PC \ {"posting", "refused", "taken"} : Go(r, to)
    BY <1>2 DEF Authenticate, NoToken, ReserveFails, AcceptFails, Fail, Forget, PC
  <2>2. UNCHANGED <<acceptedCount, confirmationCalls, confirmed>>
    BY <1>2 DEF Authenticate, NoToken, ReserveFails, AcceptFails, Fail
  <2> QED
    BY <2>1, <2>2, GoneCounts
<1>3. ASSUME NEW r \in Request, Reserve(r) PROVE Counts'
  <2>1. r \notin Outstanding /\ Outstanding' = Outstanding \cup {r} /\ Unrecorded' = Unrecorded
    BY <1>3 DEF Reserve, Go, TypeOK, Outstanding, Unrecorded
  <2>2. Cardinality(Outstanding') = Cardinality(Outstanding) + 1
    BY <2>1, Finite, FS_AddElement
  <2>3. confirmationCalls' = confirmationCalls + 1
    BY <1>3, Finite DEF Reserve, Used, Row, Counts, TypeOK
  <2>4. acceptedCount' = acceptedCount /\ confirmed' = confirmed
    BY <1>3 DEF Reserve
  <2> QED
    BY <2>1, <2>2, <2>3, <2>4, Finite DEF Counts, TypeOK
<1>4. ASSUME NEW r \in Request, AnswerYes(r) PROVE Counts'
  <2>1. /\ Cardinality(Outstanding') = Cardinality(Outstanding) - 1
        /\ Cardinality(Unrecorded') = Cardinality(Unrecorded) + 1
    BY <1>4, OneLess DEF AnswerYes, PC
  <2> QED
    BY <1>4, <2>1, Finite DEF AnswerYes, Counts, TypeOK
<1>5. ASSUME NEW r \in Request, AnswerNo(r) PROVE Counts'
  <2>1. Outstanding' = Outstanding /\ Unrecorded' = Unrecorded
    BY <1>5 DEF AnswerNo, Go, TypeOK, Outstanding, Unrecorded
  <2> QED
    BY <1>5, <2>1, KeptCounts DEF AnswerNo
<1>6. ASSUME NEW r \in Request, AnswerLost(r) PROVE Counts'
  <2>1. /\ Cardinality(Outstanding') = Cardinality(Outstanding) - 1
        /\ Cardinality(Unrecorded') = Cardinality(Unrecorded)
    BY <1>6, OneLess DEF AnswerLost, PC
  <2> QED
    BY <1>6, <2>1, Finite DEF AnswerLost, MayBeTaken, Counts, TypeOK
<1>7. ASSUME NEW r \in Request, Release(r) PROVE Counts'
  <2>1. PICK to \in {"claimed", "failing"} : Go(r, to)
    BY <1>7 DEF Release
  <2>2. /\ Cardinality(Outstanding') = Cardinality(Outstanding) - 1
        /\ Cardinality(Unrecorded') = Cardinality(Unrecorded)
    BY <1>7, <2>1, OneLess DEF Release, PC
  <2>3. confirmationCalls' \in {confirmationCalls, confirmationCalls - 1}
    BY <1>7 DEF Release
  <2>4. acceptedCount' = acceptedCount /\ confirmed' = confirmed
    BY <1>7 DEF Release
  <2> QED
    BY <2>2, <2>3, <2>4, Finite DEF Counts, TypeOK
<1>8. ASSUME NEW r \in Request, Accept(r) PROVE Counts'
  <2>1. r \in Unrecorded /\ Unrecorded' = Unrecorded \ {r} /\ Outstanding' = Outstanding
    BY <1>8 DEF Accept, Forget, Go, TypeOK, Outstanding, Unrecorded
  <2>2. Cardinality(Unrecorded') = Cardinality(Unrecorded) - 1
    BY <2>1, Finite, FS_RemoveElement
  <2> QED
    BY <1>8, <2>1, <2>2, Finite DEF Accept, Counts, TypeOK
<1>9. ASSUME NEW r \in Request, Die(r) PROVE Counts'
  <2>1. Go(r, "idle") /\ UNCHANGED <<acceptedCount, confirmationCalls>>
    BY <1>9 DEF Die, Forget
  <2>2. CASE pc[r] = "posting"
    <3>1. /\ Cardinality(Outstanding') = Cardinality(Outstanding) - 1
          /\ Cardinality(Unrecorded') = Cardinality(Unrecorded)
      BY <2>1, <2>2, OneLess DEF PC
    <3> QED
      BY <1>9, <2>1, <2>2, <3>1, Finite DEF Die, MayBeTaken, Counts, TypeOK
  <2>3. CASE pc[r] # "posting"
    BY <1>9, <2>1, <2>3, GoneCounts DEF Die, PC
  <2> QED
    BY <2>2, <2>3
<1>10. CASE TenSecondsPass \/ ClaimGetsStale \/ UNCHANGED vars
  <2>1. UNCHANGED <<acceptedCount, confirmationCalls, confirmed, pc>>
    BY <1>10 DEF TenSecondsPass, ClaimGetsStale, vars
  <2>2. Outstanding' = Outstanding /\ Unrecorded' = Unrecorded
    BY <2>1 DEF Outstanding, Unrecorded
  <2> QED
    BY <2>1, <2>2, KeptCounts
<1> QED
  BY <1>1, <1>2, <1>3, <1>4, <1>5, <1>6, <1>7, <1>8, <1>9, <1>10
     DEF Next, Work, Prepare, Answer, Settle

-----------------------------------------------------------------------------
(* Profits, and what was read.                                                *)

LEMMA NextProfit == TypeOK /\ ProfitOnce /\ [Next]_vars => ProfitOnce'
<1> SUFFICES ASSUME TypeOK, ProfitOnce, [Next]_vars PROVE ProfitOnce'
  OBVIOUS
<1> USE DEF ProfitOnce, row, mine, world
<1>1. ASSUME UNCHANGED <<profits, acceptedCount>> PROVE ProfitOnce'
  BY <1>1
<1>2. ASSUME NEW r \in Request, Receive(r) \/ BarrierPasses(r) \/ Claim(r) \/ Second(r)
      PROVE  ProfitOnce'
  BY <1>1, <1>2 DEF Receive, BarrierPasses, Claim, ClaimNew, ReadEvent, AllUsed, Reclaim,
       ClaimSecond, ClaimMisses, Claims, Second, SecondConfirmation, NoSecondConfirmation
<1>3. ASSUME NEW r \in Request, Prepare(r) \/ Answer(r) \/ Die(r) PROVE ProfitOnce'
  BY <1>1, <1>3 DEF Prepare, Authenticate, NoToken, Reserve, ReserveFails, Answer,
                    AnswerYes, AnswerNo, AnswerLost, Die
<1>4. ASSUME NEW r \in Request, Release(r) \/ AcceptFails(r) \/ Fail(r) PROVE ProfitOnce'
  BY <1>1, <1>4 DEF Release, AcceptFails, Fail
<1>5. ASSUME NEW r \in Request, Accept(r) PROVE ProfitOnce'
  BY <1>5 DEF Accept, HasSlot, TypeOK
<1>6. CASE TenSecondsPass \/ ClaimGetsStale \/ UNCHANGED vars
  BY <1>1, <1>6 DEF TenSecondsPass, ClaimGetsStale, vars
<1> QED
  BY <1>2, <1>3, <1>4, <1>5, <1>6 DEF Next, Work, Settle

\* What is accepted has a row.
NoneAccepted == status = "none" => acceptedCount = 0

LEMMA NextNoneAccepted == NoneAccepted /\ [Next]_vars => NoneAccepted'
<1> SUFFICES ASSUME NoneAccepted, [Next]_vars PROVE NoneAccepted'
  OBVIOUS
<1> USE DEF NoneAccepted, row, mine, world
<1>1. ASSUME NEW r \in Request, Receive(r) \/ BarrierPasses(r) \/ Claim(r) \/ Second(r)
      PROVE  NoneAccepted'
  BY <1>1 DEF Receive, BarrierPasses, Claim, ClaimNew, ReadEvent, AllUsed, Reclaim,
       ClaimSecond, ClaimMisses, Claims, Second, SecondConfirmation, NoSecondConfirmation
<1>2. ASSUME NEW r \in Request, Prepare(r) \/ Answer(r) \/ Settle(r) \/ Die(r)
      PROVE  NoneAccepted'
  BY <1>2 DEF Prepare, Authenticate, NoToken, Reserve, ReserveFails, Answer, AnswerYes,
              AnswerNo, AnswerLost, Settle, Release, Accept, AcceptFails, Fail, Die
<1>3. CASE TenSecondsPass \/ ClaimGetsStale \/ UNCHANGED vars
  BY <1>3 DEF TenSecondsPass, ClaimGetsStale, vars
<1> QED
  BY <1>1, <1>2, <1>3 DEF Next, Work

\* A request that is about to claim has read a row with a confirmation left.
Readers ==
  \A r \in Request : pc[r] = "claiming" => Used(event[r]) < 2

LEMMA NextReaders == TypeOK /\ Readers /\ [Next]_vars => Readers'
<1> SUFFICES ASSUME TypeOK, Readers, [Next]_vars PROVE Readers'
  OBVIOUS
<1> USE DEF Readers, row, mine, world
<1>1. ASSUME NEW r \in Request, NEW to \in PC \ {"claiming"}, Go(r, to),
             \A s \in Request \ {r} : event'[s] = event[s]
      PROVE  Readers'
  BY <1>1 DEF Go, TypeOK
<1>2. ASSUME NEW r \in Request, NEW to \in PC \ {"claiming"}, Forget(r, to)
      PROVE  Readers'
  BY <1>1, <1>2 DEF Forget, TypeOK
<1>3. ASSUME NEW r \in Request, NEW e, NEW to \in PC \ {"claiming"}, NEW auto,
             Claims(r, e, to, auto)
      PROVE  Readers'
  BY <1>1, <1>3 DEF Claims, TypeOK
<1>4. ASSUME NEW r \in Request,
             Receive(r) \/ BarrierPasses(r) \/ AllUsed(r) \/ Prepare(r) \/ Answer(r)
             \/ Release(r) \/ NoSecondConfirmation(r)
      PROVE  Readers'
  <2>1. event' = event
    BY <1>4 DEF Receive, BarrierPasses, AllUsed, Prepare, Authenticate, NoToken, Reserve,
                ReserveFails, Answer, AnswerYes, AnswerNo, AnswerLost, Release,
                NoSecondConfirmation
  <2>2. \E to \in PC \ {"claiming"} : Go(r, to)
    BY <1>4 DEF Receive, BarrierPasses, AllUsed, Prepare, Authenticate, NoToken, Reserve,
                ReserveFails, Answer, AnswerYes, AnswerNo, AnswerLost, Release,
                NoSecondConfirmation, PC
  <2> QED
    BY <1>1, <2>1, <2>2
<1>5. ASSUME NEW r \in Request, ReadEvent(r) PROVE Readers'
  <2>1. event'[r] = Row /\ Used(Row) < 2
    BY <1>5 DEF ReadEvent, TypeOK
  <2>2. \A s \in Request \ {r} : event'[s] = event[s] /\ pc'[s] = pc[s]
    BY <1>5 DEF ReadEvent, Go, TypeOK
  <2>3. Used(event'[r]) < 2
    BY <2>1
  <2> QED
    BY <2>2, <2>3
<1>6. ASSUME NEW r \in Request,
             ClaimNew(r) \/ Reclaim(r) \/ ClaimSecond(r) \/ SecondConfirmation(r)
      PROVE  Readers'
  BY <1>3, <1>6 DEF ClaimNew, Reclaim, ClaimSecond, SecondConfirmation, PC
<1>7. ASSUME NEW r \in Request,
             ClaimMisses(r) \/ Accept(r) \/ AcceptFails(r) \/ Fail(r) \/ Die(r)
      PROVE  Readers'
  BY <1>1, <1>2, <1>7 DEF ClaimMisses, Accept, AcceptFails, Fail, Die, PC
<1>8. CASE TenSecondsPass \/ ClaimGetsStale \/ UNCHANGED vars
  BY <1>8 DEF TenSecondsPass, ClaimGetsStale, vars
<1> QED
  BY <1>4, <1>5, <1>6, <1>7, <1>8 DEF Next, Work, Claim, Settle, Second

-----------------------------------------------------------------------------
(* Who holds the row, as long as no request overruns.                         *)

Reserved == {"posting", "refused", "taken"}

Exclusive ==
  ~overran =>
    /\ \A r \in Request : Holds(r) =>
         /\ status = "processing" /\ ~stale
         /\ acceptedCount = event[r].acceptedCount
         /\ pc[r] \in Reserved => confirmationCalls = call[r]
    /\ \A r, s \in Request : Holds(r) /\ Holds(s) => r = s
    /\ stale => \A r \in Request : pc[r] = "claiming" =>
                  event[r].acceptedCount = acceptedCount

\* Steps that leave the row alone and let nobody claim it.
LEMMA KeptExclusive ==
  ASSUME Exclusive, UNCHANGED <<status, acceptedCount, confirmationCalls, stale, overran>>,
         \A s \in Request : Holds(s)' =>
           /\ Holds(s) /\ event'[s] = event[s] /\ call'[s] = call[s]
           /\ pc'[s] \in Reserved => pc[s] \in Reserved,
         \A s \in Request : pc'[s] = "claiming" => pc[s] = "claiming" /\ event'[s] = event[s]
  PROVE  Exclusive'
BY DEF Exclusive

\* The one request that claims the row while nobody else holds it.
LEMMA ClaimExclusive ==
  ASSUME TypeOK, NEW r \in Request, NEW e \in Event, NEW to \in {"claimed", "authenticated"},
         NEW auto, Claims(r, e, to, auto), e.acceptedCount = acceptedCount,
         ~overran => \A s \in Request : ~Holds(s)
  PROVE  Exclusive'
<1>1. /\ status' = "processing" /\ stale' = FALSE /\ acceptedCount' = acceptedCount
      /\ overran' = overran /\ event'[r] = e /\ pc'[r] = to
      /\ \A s \in Request \ {r} : pc'[s] = pc[s]
  BY DEF Claims, Go, TypeOK, world
<1>2. \A s \in Request \ {r} : ~overran => ~Holds(s)'
  BY <1>1 DEF Holds
<1> QED
  BY <1>1, <1>2 DEF Exclusive, Reserved

\* What the request that holds the row does with it: the others are not concerned.
LEMMA HolderExclusive ==
  ASSUME TypeOK, Exclusive, NEW r \in Request, Holds(r), overran' = overran,
         \A s \in Request \ {r} : pc'[s] = pc[s], stale' = stale,
         Holds(r)' => /\ status' = "processing" /\ acceptedCount' = event'[r].acceptedCount
                      /\ pc'[r] \in Reserved => confirmationCalls' = call'[r]
  PROVE  Exclusive'
<1> SUFFICES ASSUME ~overran PROVE Exclusive'
  BY DEF Exclusive
<1>1. \A s \in Request \ {r} : ~Holds(s)
  BY DEF Exclusive
<1>2. \A s \in Request \ {r} : ~Holds(s)'
  BY <1>1 DEF Holds
<1>3. ~stale'
  BY DEF Exclusive
<1> QED
  BY <1>2, <1>3 DEF Exclusive

LEMMA NextExclusive == TypeOK /\ NoneAccepted /\ Exclusive /\ [Next]_vars => Exclusive'
<1> SUFFICES ASSUME TypeOK, NoneAccepted, Exclusive, [Next]_vars PROVE Exclusive'
  OBVIOUS
<1> USE DEF row, mine, world
<1>1. ASSUME NEW r \in Request,
             Receive(r) \/ BarrierPasses(r) \/ AllUsed(r) \/ Authenticate(r) \/ NoToken(r)
             \/ ReserveFails(r) \/ Answer(r) \/ NoSecondConfirmation(r)
      PROVE  Exclusive'
  <2>1. UNCHANGED <<status, acceptedCount, confirmationCalls, stale, overran, event, call>>
    BY <1>1 DEF Receive, BarrierPasses, AllUsed, Authenticate, NoToken, ReserveFails, Answer,
                AnswerYes, AnswerNo, AnswerLost, NoSecondConfirmation
  <2>2. \E to \in PC : /\ Go(r, to) /\ to # "claiming"
                       /\ to \in Reserved => pc[r] \in Reserved
                       /\ to \in Reserved \cup {"failing", "authenticated"} => Holds(r)
                       /\ to # "claimed"
    BY <1>1 DEF Receive, BarrierPasses, AllUsed, Authenticate, NoToken, ReserveFails, Answer,
                AnswerYes, AnswerNo, AnswerLost, NoSecondConfirmation, PC, Reserved, Holds
  <2>3. \A s \in Request :
          /\ Holds(s)' => Holds(s) /\ (pc'[s] \in Reserved => pc[s] \in Reserved)
          /\ pc'[s] = "claiming" => pc[s] = "claiming"
    BY <2>2 DEF Go, TypeOK, Holds, Reserved
  <2> QED
    BY <2>1, <2>3, KeptExclusive
<1>2. ASSUME NEW r \in Request, NEW to \in {"idle", "waiting"}, Forget(r, to),
             UNCHANGED <<status, acceptedCount, confirmationCalls, stale, overran>>
      PROVE  Exclusive'
  <2>1. \A s \in Request \ {r} : pc'[s] = pc[s] /\ event'[s] = event[s] /\ call'[s] = call[s]
    BY <1>2 DEF Forget, Go, TypeOK
  <2>2. pc'[r] = to /\ ~Holds(r)'
    BY <1>2 DEF Forget, Go, TypeOK, Holds
  <2>3. \A s \in Request : Holds(s)' =>
           /\ Holds(s) /\ event'[s] = event[s] /\ call'[s] = call[s]
           /\ pc'[s] \in Reserved => pc[s] \in Reserved
    BY <2>1, <2>2 DEF Holds
  <2>4. \A s \in Request : pc'[s] = "claiming" => pc[s] = "claiming" /\ event'[s] = event[s]
    BY <2>1, <2>2
  <2> QED
    BY <1>2, <2>3, <2>4, KeptExclusive
<1>3. ASSUME NEW r \in Request, ClaimMisses(r) \/ Die(r) PROVE Exclusive'
  BY <1>2, <1>3 DEF ClaimMisses, Die
<1>4. ASSUME NEW r \in Request, ReadEvent(r) PROVE Exclusive'
  <2>1. /\ \A s \in Request \ {r} : pc'[s] = pc[s] /\ event'[s] = event[s]
        /\ pc'[r] = "claiming" /\ event'[r] = Row
    BY <1>4 DEF ReadEvent, Go, TypeOK
  <2>2. event'[r].acceptedCount = acceptedCount
    BY <2>1 DEF Row
  <2>3. UNCHANGED <<status, acceptedCount, confirmationCalls, stale, overran, call>>
    BY <1>4 DEF ReadEvent
  <2>4. \A s \in Request : Holds(s)' => s # r /\ Holds(s)
    BY <2>1 DEF Holds
  <2> QED
    BY <2>1, <2>2, <2>3, <2>4 DEF Exclusive
<1>5. ASSUME NEW r \in Request, ClaimNew(r) PROVE Exclusive'
  <2>1. ~overran => \A s \in Request : ~Holds(s)
    BY <1>5 DEF ClaimNew, Exclusive
  <2>2. NoRow.acceptedCount = acceptedCount
    BY <1>5 DEF ClaimNew, NoRow, NoneAccepted
  <2> QED
    BY <1>5, <2>1, <2>2, RowEvent, ClaimExclusive DEF ClaimNew
<1>6. ASSUME NEW r \in Request, ClaimSecond(r) \/ SecondConfirmation(r) PROVE Exclusive'
  <2>1. ~overran => \A s \in Request : ~Holds(s)
    BY <1>6 DEF ClaimSecond, SecondConfirmation, SecondDue, Exclusive
  <2> QED
    BY <1>6, <2>1, RowEvent, ClaimExclusive DEF ClaimSecond, SecondConfirmation, Row
<1>7. ASSUME NEW r \in Request, Reclaim(r) PROVE Exclusive'
  <2>1. ~overran => \A s \in Request : ~Holds(s)
    BY <1>7 DEF Reclaim, Reclaimable, Row, Exclusive
  <2>2. ~overran => event[r].acceptedCount = acceptedCount
    BY <1>7 DEF Reclaim, Reclaimable, Row, Exclusive
  <2>3. CASE overran
    BY <1>7, <2>3 DEF Reclaim, Claims, Exclusive
  <2> QED
    BY <1>7, <2>1, <2>2, <2>3, ClaimExclusive DEF Reclaim, TypeOK
<1>8. ASSUME NEW r \in Request, Reserve(r) PROVE Exclusive'
  <2>1. Holds(r) /\ UNCHANGED <<status, acceptedCount, stale, overran, event>>
    BY <1>8 DEF Reserve, Holds
  <2>2. confirmationCalls' = call'[r] /\ \A s \in Request \ {r} : pc'[s] = pc[s]
    BY <1>8 DEF Reserve, Go, TypeOK
  <2>3. CASE ~overran
    BY <2>1, <2>2, <2>3, HolderExclusive DEF Exclusive
  <2>4. CASE overran
    BY <2>1, <2>4 DEF Exclusive
  <2> QED
    BY <2>3, <2>4
<1>9. ASSUME NEW r \in Request, Release(r) PROVE Exclusive'
  <2>1. Holds(r) /\ UNCHANGED <<status, acceptedCount, stale, overran, event>>
    BY <1>9 DEF Release, Holds
  <2>2. pc'[r] \notin Reserved /\ \A s \in Request \ {r} : pc'[s] = pc[s]
    BY <1>9 DEF Release, Go, TypeOK, Reserved
  <2>3. CASE ~overran
    BY <2>1, <2>2, <2>3, HolderExclusive DEF Exclusive
  <2>4. CASE overran
    BY <2>1, <2>4 DEF Exclusive
  <2> QED
    BY <2>3, <2>4
<1>10. ASSUME NEW r \in Request, Accept(r) \/ Fail(r) PROVE Exclusive'
  <2>1. Holds(r) /\ UNCHANGED <<stale, overran>>
    BY <1>10 DEF Accept, Fail, Holds
  <2>2. ~Holds(r)' /\ \A s \in Request \ {r} : pc'[s] = pc[s]
    BY <1>10 DEF Accept, Fail, Forget, Go, TypeOK, Holds
  <2> QED
    BY <2>1, <2>2, HolderExclusive
<1>11. ASSUME NEW r \in Request, AcceptFails(r) PROVE Exclusive'
  <2>1. ~HasSlot(r) /\ Holds(r) /\ UNCHANGED <<status, acceptedCount, confirmationCalls, stale, overran>>
    BY <1>11 DEF AcceptFails, Holds
  <2>2. CASE automatic[r]
    <3>1. UNCHANGED <<event, call>> /\ pc' = [pc EXCEPT ![r] = "failing"]
      BY <1>11, <2>2 DEF AcceptFails, Go
    <3>2. \A s \in Request :
            /\ Holds(s)' => Holds(s) /\ (pc'[s] \in Reserved => pc[s] \in Reserved)
            /\ pc'[s] = "claiming" => pc[s] = "claiming"
      BY <2>1, <3>1 DEF TypeOK, Holds, Reserved
    <3> QED
      BY <2>1, <3>1, <3>2, KeptExclusive
  <2>3. CASE ~automatic[r]
    BY <1>2, <1>11, <2>1, <2>3 DEF AcceptFails
  <2> QED
    BY <2>2, <2>3
<1>12. CASE TenSecondsPass
  BY <1>12, KeptExclusive DEF TenSecondsPass, Holds
<1>13. CASE ClaimGetsStale
  BY <1>13 DEF ClaimGetsStale, Exclusive, Holds, TypeOK
<1>14. CASE UNCHANGED vars
  BY <1>14, KeptExclusive DEF vars, Holds
<1> QED
  BY <1>1, <1>3, <1>4, <1>5, <1>6, <1>7, <1>8, <1>9, <1>10, <1>11, <1>12, <1>13, <1>14
     DEF Next, Work, Claim, Prepare, Settle, Second

-----------------------------------------------------------------------------
(* What a confirmation of the last ten seconds rules out.                     *)

Cooling ==
  ~overran /\ fresh =>
    /\ status # "none" /\ ~stale
    /\ \A r \in Request : pc[r] \notin {"claimed", "authenticated", "posting", "refused"}
    /\ status \in {"processing", "failed"} => confirmationCalls > acceptedCount
    /\ status = "failed" => ~failedAgo
    /\ status = "accepted" => ~acceptedAgo \/ confirmationCalls = 2

\* Nobody can claim the row.
LEMMA NoClaim ==
  ASSUME TypeOK, Cooling, ~overran, fresh, NEW r \in Request
  PROVE  ~(ClaimNew(r) \/ Reclaim(r) \/ ClaimSecond(r) \/ SecondConfirmation(r))
<1>1. ~ClaimNew(r)
  BY DEF ClaimNew, Cooling
<1>2. ~SecondDue
  BY DEF SecondDue, Cooling, Used, Row, TypeOK
<1>3. ~Reclaim(r)
  <2> SUFFICES ASSUME Reclaim(r) PROVE FALSE
    OBVIOUS
  <2>1. status = "failed" /\ Row = event[r] /\ (Ambiguous(event[r]) => failedAgo)
    BY DEF Reclaim, Reclaimable, Cooling, Row
  <2>2. Ambiguous(event[r])
    BY <2>1 DEF Ambiguous, Row, Cooling
  <2> QED
    BY <2>1, <2>2 DEF Cooling
<1> QED
  BY <1>1, <1>2, <1>3 DEF ClaimSecond, SecondConfirmation

\* A step that leaves the row alone, while the requests go on.
LEMMA KeptCooling ==
  ASSUME Cooling, UNCHANGED <<row, fresh, overran>>,
         \A s \in Request : pc'[s] \in {"claimed", "authenticated", "posting", "refused"} =>
                              pc[s] \in {"claimed", "authenticated", "posting", "refused"}
  PROVE  Cooling'
BY DEF Cooling, row

\* A confirmation that may have been taken: its request held the row.
LEMMA PostedCooling ==
  ASSUME TypeOK, Counts, Exclusive, NEW r \in Request, pc[r] = "posting",
         NEW to \in {"taken", "failing", "idle"}, Go(r, to), UNCHANGED <<row, overran>>
  PROVE  Cooling'
<1> SUFFICES ASSUME ~overran PROVE Cooling'
  BY DEF Cooling
<1>1. status = "processing" /\ ~stale /\ \A s \in Request \ {r} : ~Holds(s)
  BY DEF Exclusive, Holds
<1>2. confirmationCalls > acceptedCount
  <2>1. r \in Outstanding
    BY DEF Outstanding
  <2>2. Cardinality(Outstanding) # 0
    BY <2>1, Finite, FS_EmptySet
  <2> QED
    BY <2>2, Finite DEF Counts, TypeOK
<1>3. \A s \in Request : pc'[s] \notin {"claimed", "authenticated", "posting", "refused"}
  BY <1>1 DEF Go, TypeOK, Holds
<1> QED
  BY <1>1, <1>2, <1>3 DEF Cooling, row

LEMMA NextCooling ==
  TypeOK /\ Counts /\ Exclusive /\ Cooling /\ [Next]_vars => Cooling'
<1> SUFFICES ASSUME TypeOK, Counts, Exclusive, Cooling, [Next]_vars PROVE Cooling'
  OBVIOUS
<1> USE DEF mine, world
<1>1. ASSUME NEW r \in Request, NEW to \in PC, Go(r, to), UNCHANGED <<row, fresh, overran>>,
             \/ to \notin {"claimed", "authenticated", "posting", "refused"}
             \/ pc[r] \in {"claimed", "authenticated", "posting", "refused"}
      PROVE  Cooling'
  BY <1>1, KeptCooling DEF Go, TypeOK
<1>2. ASSUME NEW r \in Request,
             Receive(r) \/ BarrierPasses(r) \/ ReadEvent(r) \/ AllUsed(r) \/ ClaimMisses(r)
             \/ Authenticate(r) \/ NoToken(r) \/ ReserveFails(r) \/ AnswerNo(r)
             \/ AcceptFails(r) \/ NoSecondConfirmation(r)
      PROVE  Cooling'
  <2>1. UNCHANGED <<row, fresh, overran>>
    BY <1>2 DEF Receive, BarrierPasses, ReadEvent, AllUsed, ClaimMisses, Authenticate,
                NoToken, ReserveFails, AnswerNo, AcceptFails, NoSecondConfirmation
  <2>2. \E to \in PC :
          /\ Go(r, to)
          /\ \/ to \notin {"claimed", "authenticated", "posting", "refused"}
             \/ pc[r] \in {"claimed", "authenticated", "posting", "refused"}
    BY <1>2 DEF Receive, BarrierPasses, ReadEvent, AllUsed, ClaimMisses, Authenticate,
                NoToken, ReserveFails, AnswerNo, AcceptFails, NoSecondConfirmation, Forget, PC
  <2> QED
    BY <1>1, <2>1, <2>2
<1>3. ASSUME NEW r \in Request,
             ClaimNew(r) \/ Reclaim(r) \/ ClaimSecond(r) \/ SecondConfirmation(r)
      PROVE  Cooling'
  <2>1. fresh' = fresh /\ overran' = overran
    BY <1>3 DEF ClaimNew, Reclaim, ClaimSecond, SecondConfirmation, Claims
  <2> QED
    BY <1>3, <2>1, NoClaim DEF Cooling
<1>4. ASSUME NEW r \in Request, Reserve(r) \/ Release(r) PROVE Cooling'
  <2>1. fresh' = fresh /\ overran' = overran
    BY <1>4 DEF Reserve, Release
  <2> QED
    BY <1>4, <2>1 DEF Reserve, Release, Cooling
<1>5. ASSUME NEW r \in Request, AnswerYes(r) \/ AnswerLost(r) PROVE Cooling'
  BY <1>5, PostedCooling DEF AnswerYes, AnswerLost
<1>6. ASSUME NEW r \in Request, Accept(r) PROVE Cooling'
  <2>1. /\ UNCHANGED <<stale, fresh, overran>>
        /\ status' = "accepted" /\ acceptedAgo' = FALSE
    BY <1>6 DEF Accept
  <2>2. pc'[r] \in {"idle", "waiting"} /\ \A s \in Request \ {r} : pc'[s] = pc[s]
    BY <1>6 DEF Accept, Forget, Go, TypeOK
  <2> QED
    BY <2>1, <2>2 DEF Cooling
<1>7. ASSUME NEW r \in Request, Fail(r) PROVE Cooling'
  <2>1. UNCHANGED <<acceptedCount, confirmationCalls, acceptedAgo, stale, fresh, overran>>
    BY <1>7 DEF Fail
  <2>2. pc'[r] = "idle" /\ \A s \in Request \ {r} : pc'[s] = pc[s]
    BY <1>7 DEF Fail, Forget, Go, TypeOK
  <2>3. \/ UNCHANGED <<status, failedAgo>>
        \/ status = "processing" /\ status' = "accepted" /\ acceptedCount > 0
        \/ status = "processing" /\ status' = "failed" /\ ~failedAgo'
    BY <1>7 DEF Fail
  <2> QED
    BY <2>1, <2>2, <2>3 DEF Cooling, TypeOK
<1>8. ASSUME NEW r \in Request, Die(r) PROVE Cooling'
  <2>1. CASE pc[r] = "posting"
    BY <1>8, <2>1, PostedCooling DEF Die, Forget
  <2>2. CASE pc[r] # "posting"
    BY <1>1, <1>8, <2>2 DEF Die, Forget, PC
  <2> QED
    BY <2>1, <2>2
<1>9. CASE TenSecondsPass
  BY <1>9 DEF TenSecondsPass, Cooling
<1>10. CASE ClaimGetsStale
  BY <1>10 DEF ClaimGetsStale, Cooling
<1>11. CASE UNCHANGED vars
  BY <1>11, KeptCooling DEF vars, row
<1> QED
  BY <1>2, <1>3, <1>4, <1>5, <1>6, <1>7, <1>8, <1>9, <1>10, <1>11
     DEF Next, Work, Claim, Prepare, Answer, Settle, Second

-----------------------------------------------------------------------------
(* The invariant, and what follows from it.                                   *)

OrderInv ==
  /\ TypeOK /\ Counts /\ ProfitOnce /\ NoneAccepted
  /\ Readers /\ Exclusive /\ Cooling

LEMMA InitOrderInv == Init => OrderInv
<1> SUFFICES ASSUME Init PROVE OrderInv
  OBVIOUS
<1>1. TypeOK
  BY InitTypeOK
<1>2. Counts
  <2>1. Outstanding = {} /\ Unrecorded = {}
    BY DEF Init, Outstanding, Unrecorded
  <2>2. Cardinality(Outstanding) = 0 /\ Cardinality(Unrecorded) = 0
    BY <2>1, FS_EmptySet
  <2> QED
    BY <2>2 DEF Init, Counts
<1>3. ProfitOnce /\ NoneAccepted /\ Readers
  BY DEF Init, ProfitOnce, NoneAccepted, Readers
<1>4. Exclusive /\ Cooling
  BY DEF Init, Exclusive, Holds, Cooling
<1> QED
  BY <1>1, <1>2, <1>3, <1>4 DEF OrderInv

LEMMA NextOrderInv == OrderInv /\ [Next]_vars => OrderInv'
BY NextTypeOK, NextCounts, NextProfit, NextNoneAccepted, NextReaders, NextExclusive,
   NextCooling DEF OrderInv

\* The inductive invariant: counts before and after the confirmations in flight,
\* one holder of the row, and what a confirmation of the last ten seconds rules out.
THEOREM OrderInvariant == Spec => []OrderInv
BY InitOrderInv, NextOrderInv, PTL DEF Spec

\* AtMostTwo: DiDi takes no more confirmations than the row has counted.
THEOREM AtMostTwoHolds == Spec => []AtMostTwo
<1>1. OrderInv => AtMostTwo
  BY Finite DEF OrderInv, Counts, TypeOK, AtMostTwo
<1> QED
  BY <1>1, OrderInvariant, PTL

\* NothingInvented: what the row counts as accepted was taken by DiDi.
THEOREM NothingInventedHolds == Spec => []NothingInvented
<1>1. OrderInv => NothingInvented
  BY Finite DEF OrderInv, Counts, TypeOK, NothingInvented
<1> QED
  BY <1>1, OrderInvariant, PTL

\* ProfitOnce: the first acceptance, and only it, recognizes the profit.
THEOREM ProfitOnceHolds == Spec => []ProfitOnce
BY OrderInvariant, PTL DEF OrderInv

\* KeepsSlot: who claimed the row finds it as it left it.
THEOREM KeepsSlotHolds == Spec => []KeepsSlot
<1>1. OrderInv => KeepsSlot
  BY DEF OrderInv, Exclusive, KeepsSlot, Reserved
<1> QED
  BY <1>1, OrderInvariant, PTL

\* Only reserveConfirmationCall posts.
LEMMA OnlyReservePosts ==
  ASSUME TypeOK, [Next]_vars, NEW r \in Request, pc[r] # "posting", pc'[r] = "posting"
  PROVE  Reserve(r)
<1> USE DEF row, mine, world
<1>1. ASSUME NEW s \in Request, NEW to \in PC \ {"posting"}, Go(s, to) PROVE FALSE
  BY <1>1 DEF Go, TypeOK
<1>2. ASSUME NEW s \in Request, Receive(s) \/ BarrierPasses(s) \/ Claim(s) \/ Second(s)
      PROVE  FALSE
  <2>1. \E to \in PC \ {"posting"} : Go(s, to)
    BY <1>2 DEF Receive, BarrierPasses, Claim, ClaimNew, ReadEvent, AllUsed, Reclaim,
                ClaimSecond, ClaimMisses, Claims, Second, SecondConfirmation,
                NoSecondConfirmation, Forget, PC
  <2> QED
    BY <1>1, <2>1
<1>3. ASSUME NEW s \in Request,
             Authenticate(s) \/ NoToken(s) \/ ReserveFails(s) \/ Answer(s) \/ Settle(s)
             \/ Die(s)
      PROVE  FALSE
  <2>1. \E to \in PC \ {"posting"} : Go(s, to)
    BY <1>3 DEF Authenticate, NoToken, ReserveFails, Answer, AnswerYes, AnswerNo,
                AnswerLost, Settle, Release, Accept, AcceptFails, Fail, Die, Forget, PC
  <2> QED
    BY <1>1, <2>1
<1>4. ASSUME NEW s \in Request, Reserve(s) PROVE s = r
  BY <1>4 DEF Reserve, Go, TypeOK
<1>5. ASSUME TenSecondsPass \/ ClaimGetsStale \/ UNCHANGED vars PROVE FALSE
  BY <1>5 DEF TenSecondsPass, ClaimGetsStale, vars
<1> QED
  BY <1>2, <1>3, <1>4, <1>5 DEF Next, Work, Prepare

\* Separated: while a confirmation is posted, or may have been taken within ten
\* seconds, no request that keeps its deadline posts another.
THEOREM SeparatedHolds == Spec => Separated
<1>1. ASSUME OrderInv, [Next]_vars, NEW r \in Request, ~overran, pc[r] # "posting",
             pc'[r] = "posting"
      PROVE  ~fresh /\ \A s \in Request : pc[s] # "posting"
  <2>1. pc[r] = "authenticated"
    BY <1>1, OnlyReservePosts DEF OrderInv, Reserve
  <2>2. ~fresh
    BY <1>1, <2>1 DEF OrderInv, Cooling
  <2>3. ASSUME NEW s \in Request, pc[s] = "posting" PROVE FALSE
    BY <1>1, <2>1, <2>3 DEF OrderInv, Exclusive, Holds
  <2> QED
    BY <2>2, <2>3
<1>2. OrderInv /\ [Next]_vars =>
        [\A r \in Request : ~overran /\ pc[r] # "posting" /\ pc'[r] = "posting" =>
           ~fresh /\ \A s \in Request : pc[s] # "posting"]_vars
  BY <1>1
<1> QED
  BY <1>2, OrderInvariant, PTL DEF Spec, Separated

\* FailedForGood: a row that failed with both confirmations used stays as it is.
THEOREM FailedForGoodHolds == Spec => FailedForGood
<1>1. ASSUME OrderInv, Next, status = "failed", confirmationCalls = 2
      PROVE  status' = "failed" /\ confirmationCalls' = 2
  <2> USE DEF row, mine, world
  <2>1. ASSUME NEW r \in Request, Reclaim(r) PROVE FALSE
    <3>1. Row = event[r] /\ Used(event[r]) < 2
      BY <1>1, <2>1 DEF Reclaim, Reclaimable, Row, OrderInv, Readers
    <3>2. Used(Row) < 2
      BY <3>1
    <3> QED
      BY <1>1, <3>2 DEF Used, Row, OrderInv, TypeOK
  <2>2. ASSUME NEW r \in Request,
               ClaimNew(r) \/ ClaimSecond(r) \/ SecondConfirmation(r)
        PROVE  FALSE
    BY <1>1, <2>2 DEF ClaimNew, ClaimSecond, SecondConfirmation, SecondDue
  <2>3. ASSUME NEW r \in Request,
               Receive(r) \/ BarrierPasses(r) \/ ReadEvent(r) \/ AllUsed(r) \/ ClaimMisses(r)
               \/ Prepare(r) \/ Answer(r) \/ NoSecondConfirmation(r) \/ Die(r)
        PROVE  status' = "failed" /\ confirmationCalls' = 2
    BY <1>1, <2>3 DEF Receive, BarrierPasses, ReadEvent, AllUsed, ClaimMisses, Prepare,
         Authenticate, NoToken, Reserve, ReserveFails, Answer, AnswerYes, AnswerNo,
         AnswerLost, NoSecondConfirmation, Die
  <2>4. ASSUME NEW r \in Request, Settle(r)
        PROVE  status' = "failed" /\ confirmationCalls' = 2
    BY <1>1, <2>4 DEF Settle, Release, Accept, HasSlot, AcceptFails, Fail
  <2>5. CASE TenSecondsPass \/ ClaimGetsStale
    BY <1>1, <2>5 DEF TenSecondsPass, ClaimGetsStale
  <2> QED
    BY <1>1, <2>1, <2>2, <2>3, <2>4, <2>5 DEF Next, Work, Claim, Second
<1>2. OrderInv /\ [Next]_vars =>
        [status = "failed" /\ confirmationCalls = 2 =>
           status' = "failed" /\ confirmationCalls' = 2]_vars
  BY <1>1
<1> QED
  BY <1>2, OrderInvariant, PTL DEF Spec, FailedForGood
=============================================================================
