--------------------------- MODULE CircuitBreaker ---------------------------
(***************************************************************************)
(* What a circuit breaker promises whoever reads its state from one run of *)
(* a job to the next: three states, a rest after every trip and after      *)
(* every full round of trials, and no way back to CLOSED but a trial.      *)
(***************************************************************************)
EXTENDS Naturals

CONSTANT Trials  \* how many trials a HALF_OPEN circuit permits

VARIABLES
  state,
  rested,  \* a cooldown has passed since the trip, or since the last trial began
  taken    \* the trials taken since the circuit became HALF_OPEN

circuit == <<state, rested, taken>>

\* A circuit is new, or was left with a trial nobody can date.
Init ==
  /\ rested = TRUE
  /\ \/ state = "CLOSED" /\ taken = 0
     \/ state = "HALF_OPEN" /\ taken \in 1 .. Trials

Rest ==
  /\ ~rested
  /\ rested' = TRUE
  /\ UNCHANGED <<state, taken>>

Trip ==
  /\ state \in {"CLOSED", "HALF_OPEN"}
  /\ state' = "OPEN" /\ rested' = FALSE /\ taken' = 0

\* The first trial after a rest, or another one of the same round.
Try ==
  /\ \/ state \in {"OPEN", "HALF_OPEN"} /\ rested /\ taken' = 1
     \/ state = "HALF_OPEN" /\ taken < Trials /\ taken' = taken + 1
  /\ state' = "HALF_OPEN" /\ rested' = FALSE

Close ==
  /\ state = "HALF_OPEN"
  /\ state' = "CLOSED" /\ rested' = TRUE /\ taken' = 0

Next == Rest \/ Trip \/ Try \/ Close

Spec == Init /\ [][Next]_circuit
=============================================================================
