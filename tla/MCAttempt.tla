----------------------------- MODULE MCAttempt -----------------------------
(***************************************************************************)
(* Instances of BatchRun, the inside of an attempt, and of StatusStream,   *)
(* what a client sees of it.  They share no variable: a behaviour of this  *)
(* module is a behaviour of one of them, its focus, with the other in its  *)
(* initial state, so that one run explores the two graphs side by side and *)
(* not their product.                                                      *)
(***************************************************************************)
EXTENDS BatchRun, StatusStream

VARIABLE focus

attemptVars == <<focus, batchVars, streamVars>>

AttemptInit == focus \in {"batch", "stream"} /\ BatchInit /\ StreamInit

AttemptNext ==
  \/ focus = "batch" /\ BatchNext /\ UNCHANGED <<focus, streamVars>>
  \/ focus = "stream" /\ StreamNext /\ UNCHANGED <<focus, batchVars>>

(* BatchFairness and StreamFairness, asked of the module in focus.         *)
AttemptFairness ==
  /\ \A i \in Papers :
       WF_batchVars(focus = "batch" /\ loop.pc \notin Left /\ JobStep(i))
  /\ WF_batchVars(focus = "batch" /\ LoopStep)
  /\ \A s \in Streams :
       /\ WF_streamVars(focus = "stream" /\ StreamStep(s))
       /\ WF_streamVars(focus = "stream" /\ TimePasses(s))

AttemptSpec == AttemptInit /\ [][AttemptNext]_attemptVars /\ AttemptFairness

(* Both states stay within their types; progress never exceeds its bound.  *)
AttemptTypeOK == BatchTypeOK /\ StreamTypeOK
=============================================================================
