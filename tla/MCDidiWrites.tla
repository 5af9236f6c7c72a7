---------------------------- MODULE MCDidiWrites ----------------------------
(* Instances for TLC of two programs that tell DiDi to change something and   *)
(* may not hear the answer, each by itself: a unit that goes live, and an     *)
(* execution of UPC activity prices.                                          *)
EXTENDS GoLive, UpcUploads

CONSTANTS
  Workers, MaxEvents  \* of UpcActivityPrice, with its bound

VARIABLES
  program,  \* the one that runs
  review, saved, owner, job, worker, events

Upc == INSTANCE UpcActivityPrice

ASSUME PricingConstants == Upc!UpcConstants

pricingVars == <<exec, cancel, review, saved, owner, job, worker, upload, events>>

\* An execution that was stopped before it began.
OldPricing ==
  /\ exec = "cancelled" /\ cancel = TRUE /\ review = FALSE
  /\ saved = Upc!NoUpload
  /\ owner = Upc!NoOne
  /\ job = [j \in Upc!Jobs |-> "absent"]
  /\ worker = [w \in Workers |-> Upc!Idle]
  /\ upload = [n \in Uploads |-> "unused"]
  /\ events = MaxEvents

EitherInit ==
  /\ Init
  /\ \/ program = "go-live" /\ OldPricing
     \/ program = "pricing" /\ Upc!Init

EitherNext ==
  \/ program = "go-live" /\ Next /\ UNCHANGED <<program, pricingVars>>
  \/ program = "pricing" /\ Upc!Next /\ UNCHANGED <<program, vars>>

\* The program that does not run has nothing to do that is owed fairness.
EitherSpec ==
  EitherInit /\ [][EitherNext]_<<program, vars, pricingVars>> /\ Fairness /\ Upc!Fairness

\* Every execution ends: UpcActivityPrice.
PricesEnd == Upc!PricesEnd
=============================================================================
