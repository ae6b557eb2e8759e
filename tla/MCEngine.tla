------------------------------ MODULE MCEngine ------------------------------
(***************************************************************************)
(* Instances of CognitiveEngine and of the CircuitBreaker its requests go  *)
(* through.  The engine leaves open what the breaker makes of a request,   *)
(* so they share no variable: a behaviour of this module is a behaviour of *)
(* one of them, its focus, with the other in one initial state.            *)
(***************************************************************************)
EXTENDS CognitiveEngine, CircuitBreaker

VARIABLE focus

mcVars == <<focus, engineVars, vars>>

MCInit ==
  /\ focus \in {"engine", "breaker"}
  /\ Init
  /\ EngineInit
  /\ focus # "engine" => \A c \in Evaluations : eval[c].tokens = 1

MCNext ==
  \/ focus = "engine" /\ EngineNext /\ UNCHANGED <<focus, vars>>
  \/ focus = "breaker" /\ Next /\ UNCHANGED <<focus, engineVars>>

(* EngineFairness, when the engine is in focus.                            *)
MCFairness ==
  /\ \A c \in Evaluations :
       /\ WF_engineVars(focus = "engine" /\ EvalStep(c))
       /\ WF_engineVars(focus = "engine" /\ Begin(c))
  /\ \A k \in ApiKeys : WF_engineVars(focus = "engine" /\ KeyCools(k))

MCSpec == MCInit /\ [][MCNext]_mcVars /\ MCFairness
=============================================================================
