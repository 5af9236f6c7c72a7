----------------------------- MODULE MCOpenings -----------------------------
(* Instances for TLC of three programs that go through many stores in the    *)
(* background, each by itself: the executions of Auto Open, the emergencies, *)
(* and the executions that turn products off.                                *)
EXTENDS AutoOpen

CONSTANTS
  Emergencies, Shops, Jobs, Openers, Nobody,  \* of StoreEmergency
  EmergencyEvents,                            \* its bound
  Stores, Deferred, TurnOffEvents             \* Shops, Deferred and MaxEvents of AutoTurnOff

VARIABLES
  program,  \* the one that runs
  \* of StoreEmergency
  known, later, em, target, request, work, at, used, recon, opener, store, closedBy, accidents,
  \* of AutoTurnOff
  asker, turnOff, shop, queue, worker, calls, faults

Emergency ==
  INSTANCE StoreEmergency WITH job <- work, events <- accidents, MaxEvents <- EmergencyEvents
TurnOff ==
  INSTANCE AutoTurnOff WITH Shops <- Stores, MaxEvents <- TurnOffEvents,
    caller <- asker, exec <- turnOff, job <- queue, events <- faults

emergencyVars ==
  <<known, later, em, target, request, work, at, used, recon, opener, store, closedBy, accidents>>
turnOffVars == <<asker, turnOff, shop, queue, worker, calls, faults>>

\* From the request on, with one brand or none.
FromTheRequest ==
  /\ Init /\ events = 0
  /\ pool \in {{}, {CHOOSE b \in Brands : TRUE}}

\* Two brands whose jobs are queued, and no more events.
Underway ==
  /\ pool = Brands /\ exec = "running" /\ caller = "done"
  /\ run = [b \in Brands |-> "pending"]
  /\ job = [i \in Ids |-> IF i = Prepare THEN "ended" ELSE "waiting"]
  /\ actor = [a \in Actors |-> Idle]
  /\ sent = 0 /\ strayed = FALSE /\ events = MaxEvents

NoExecution == Init /\ pool = {} /\ events = MaxEvents
NewEmergency ==
  Emergency!Init /\ later = {} /\ \A e \in Emergencies : em[e].status = "none"

NoEmergency == NewEmergency /\ accidents = EmergencyEvents

\* An execution that was stopped before anything was done.
NoTurnOff ==
  /\ asker = "done" /\ turnOff = "cancelled"
  /\ shop = [s \in Stores |-> "none"]
  /\ queue = [j \in TurnOff!JobIds |-> "absent"]
  /\ worker = [w \in Workers |-> TurnOff!Idle]
  /\ calls = [s \in Stores |-> 0]
  /\ faults = TurnOffEvents

OneInit ==
  \/ program = "auto-open" /\ (FromTheRequest \/ Underway) /\ NoEmergency /\ NoTurnOff
  \/ program = "emergency" /\ NoExecution /\ NewEmergency /\ accidents = 0 /\ NoTurnOff
  \/ program = "turn-off" /\ NoExecution /\ NoEmergency /\ TurnOff!Init

OneNext ==
  \/ program = "auto-open" /\ Next /\ UNCHANGED <<program, emergencyVars, turnOffVars>>
  \/ program = "emergency" /\ Emergency!Next /\ UNCHANGED <<program, vars, turnOffVars>>
  \/ program = "turn-off" /\ TurnOff!Next /\ UNCHANGED <<program, vars, emergencyVars>>

\* The programs that do not run have nothing to do that is owed fairness.
OneSpec ==
  /\ OneInit /\ [][OneNext]_<<program, vars, emergencyVars, turnOffVars>>
  /\ Fairness /\ Emergency!Fairness /\ TurnOff!Fairness

\* Whichever job, worker, request or publication is lost, the execution of Auto
\* Open, the transition of the emergency and the execution that turns products off
\* end: ExecutionEnds, EmergencyEnds and TurnOffEnds of the program that runs.
Busy ==
  \/ exec \in {"pending", "running"}
  \/ \E e \in Emergencies : Emergency!Live(e)
  \/ turnOff \in TurnOff!Active
AllEnds == Busy ~> ~ Busy

\* One call per store, and "done" when all is off: AutoTurnOff.
CalledOnce == TurnOff!CalledOnce
DoneMeansOff == TurnOff!DoneMeansOff
=============================================================================
