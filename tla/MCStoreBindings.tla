--------------------------- MODULE MCStoreBindings ---------------------------
(* Instances for TLC of two programs on the stores of an application or a    *)
(* brand, each by itself: an execution that binds or unbinds stores, and the *)
(* tasks that create stores and wait for their brand.                        *)
EXTENDS StoreBindings

CONSTANTS
  s1, w2,  \* one of the stores, one of the workers
  p1, p2,  \* the two backends
  StoreTasks, Hooks, MaxBrandTasks, MaxDeaths  \* of BrandProvisioning, with its bounds

VARIABLES
  program,  \* the one that runs
  gate, maker, prov, store, dep, stage, tx, stale, retried, deaths

Brand ==
  INSTANCE BrandProvisioning WITH MaxEvents <- MaxDeaths, revived <- retried, events <- deaths

brandVars == <<gate, maker, prov, store, dep, stage, tx, stale, retried, deaths>>

OneBackend == host = [x \in Actors |-> p1]

\* One backend with all the stores to bind, or a page of them to unbind; or, for
\* two events, with one store; or one store, and the worker w2 in a backend of its
\* own.
Asked == IF action = "bind" THEN Shops ELSE CHOOSE B \in Batches : s1 \in B
NewExecution ==
  /\ Init
  /\ \/ OneBackend /\ Items = Asked /\ events = 1
     \/ OneBackend /\ Items = {s1} /\ events = 0
     \/ host = [x \in Actors |-> IF x = w2 THEN p2 ELSE p1] /\ Items = {s1} /\ events = 1

\* An execution that was cancelled before its job was queued.
OldExecution ==
  /\ action = "bind" /\ exec = "cancelled" /\ cancel = TRUE
  /\ item = [s \in {s1} |-> "cancelled"]
  /\ job = "absent" /\ tries = 0 /\ stalls = 0
  /\ actor = [x \in Actors |-> Idle]
  /\ host = [x \in Actors |-> p1] /\ up = Backends /\ lock = [p \in Processes |-> NoOne]
  /\ posted = [s \in Shops |-> 0] /\ applied = {}
  /\ orphan = FALSE /\ events = MaxEvents

EitherInit ==
  \/ program = "bindings" /\ NewExecution /\ Brand!Init
  \/ program = "brand" /\ OldExecution /\ Brand!Init

EitherNext ==
  \/ program = "bindings" /\ Next /\ UNCHANGED <<program, brandVars>>
  \/ program = "brand" /\ Brand!Next /\ UNCHANGED <<program, vars>>

\* The program that does not run has nothing to do that is owed fairness.
EitherSpec ==
  EitherInit /\ [][EitherNext]_<<program, vars, brandVars>> /\ Fairness /\ Brand!Fairness

\* The dependencies agree with the brand: BrandProvisioning.
BrandFirst == Brand!BrandFirst

\* Whatever request, worker, job, hook or backend is lost, the execution ends for
\* good and no store task is kept waiting: BindingEnds, with its exceptions, and
\* BrandReleases of the program that runs.
Finished ==
  /\ exec \notin Active
  /\ With(Settled) = Items \/ exec = "failed"
  /\ \A s \in StoreTasks : ~ Brand!Owed(s)
WorkEnds == <>[]Finished \/ <>[]orphan
=============================================================================
