------------------------------ MODULE Breaker ------------------------------
(***************************************************************************)
(* A circuit breaker as its users understand it: it opens after            *)
(* FailureThreshold failures in a row, lets no probe through before the    *)
(* recovery timeout has passed, and closes after SuccessThreshold          *)
(* successful probes in a row.                                             *)
(***************************************************************************)
EXTENDS Naturals

CONSTANTS FailureThreshold, SuccessThreshold

VARIABLES
  state,      \* closed, open or half_open
  failures,   \* failures in a row while closed
  successes,  \* successful probes in a row while half open
  cooling     \* open, and the recovery timeout has not passed yet

vars == <<state, failures, successes, cooling>>

CircuitStates == {"closed", "open", "half_open"}

Init == state = "closed" /\ failures = 0 /\ successes = 0 /\ cooling = FALSE

Become(s, f, n, c) ==
  state' = s /\ failures' = f /\ successes' = n /\ cooling' = c

Success == state = "closed" /\ Become("closed", 0, 0, FALSE)

Failure ==
  /\ state = "closed"
  /\ IF failures + 1 < FailureThreshold
     THEN Become("closed", failures + 1, 0, FALSE)
     ELSE Become("open", 0, 0, TRUE)

Cool == state = "open" /\ Become("open", 0, 0, FALSE)

Probe == state = "open" /\ ~cooling /\ Become("half_open", 0, 0, FALSE)

ProbeSuccess ==
  /\ state = "half_open"
  /\ IF successes + 1 < SuccessThreshold
     THEN Become("half_open", 0, successes + 1, FALSE)
     ELSE Become("closed", 0, 0, FALSE)

ProbeFailure == state = "half_open" /\ Become("open", 0, 0, TRUE)

Reset == Become("closed", 0, 0, FALSE)

Next ==
  Success \/ Failure \/ Cool \/ Probe \/ ProbeSuccess \/ ProbeFailure \/ Reset

Spec == Init /\ [][Next]_vars
=============================================================================
