------------------------------ MODULE MCEngine ------------------------------
(***************************************************************************)
(* MatchingEngine and BlockingConcurrentQueue for TLC: two systems that    *)
(* are checked each on its own, in one run.  A behaviour is one of the     *)
(* part it starts with, with that part's fairness.  (No symmetry: the run  *)
(* checks liveness.)                                                       *)
(***************************************************************************)
EXTENDS MatchingEngine, BlockingConcurrentQueue

VARIABLE part

mcVars == << part, engineVars, blockingVars >>

MCInit == /\ part \in {"engine", "blocking"}
          /\ EngineInit /\ BlockingInit

InEngine == part = "engine" /\ UNCHANGED << part, blockingVars >>
InBlocking == part = "blocking" /\ UNCHANGED << part, engineVars >>

MCNext ==
  \/ part = "engine" /\ EngineNext /\ UNCHANGED << part, blockingVars >>
  \/ part = "blocking" /\ BlockingNext /\ UNCHANGED << part, engineVars >>

\* The fairness of FairEngineSpec and of FairBlockingSpec.
MCSpec ==
  /\ MCInit /\ [][MCNext]_mcVars
  /\ \A c \in Clients : WF_mcVars(Proceed(c) /\ InEngine)
  /\ \A p \in Processors : WF_mcVars(Worker(p) /\ InEngine)
  /\ \A t \in Threads : WF_mcVars(Step(t) /\ InBlocking)
=============================================================================
