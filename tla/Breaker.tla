------------------------------ MODULE Breaker -------------------------------
(***************************************************************************)
(* The circuit breaker around a provider (providers/circuit_breaker.py).   *)
(***************************************************************************)
EXTENDS Naturals

CONSTANT Threshold   \* failure_threshold

ASSUME BreakerAssumption == Threshold \in Nat \ {0}

VARIABLES circuit,   \* _state
          failures,  \* _failure_count, up to Threshold: more makes no difference
          probing,   \* _probe_active
          rested     \* reset_timeout has passed since _opened_at

bvars == <<circuit, failures, probing, rested>>

Circuits == {"closed", "open", "half_open"}

BreakerInit == circuit = "closed" /\ failures = 0 /\ probing = FALSE /\ rested = FALSE

(* The clock. *)
ResetTimeout ==
  /\ circuit = "open" /\ ~rested
  /\ rested' = TRUE
  /\ UNCHANGED <<circuit, failures, probing>>

(* _maybe_half_open, which allow_request starts with. *)
Reopens == circuit = "open" /\ rested
Now == IF Reopens THEN "half_open" ELSE circuit
Probing == IF Reopens THEN FALSE ELSE probing

(* allow_request returns True, or raises CircuitOpenError.                 *)
Allowed == Now = "closed" \/ (Now = "half_open" /\ ~Probing)
Allow ==
  /\ Allowed
  /\ circuit' = Now
  /\ probing' = IF Now = "half_open" THEN TRUE ELSE Probing
  /\ UNCHANGED <<failures, rested>>
Refuse == ~Allowed /\ UNCHANGED bvars

Success == circuit' = "closed" /\ failures' = 0 /\ probing' = FALSE /\ UNCHANGED rested

Failure ==
  /\ failures' = IF failures < Threshold THEN failures + 1 ELSE failures
  /\ probing' = FALSE
  /\ rested' = FALSE
  /\ circuit' = IF failures' >= Threshold THEN "open" ELSE circuit
=============================================================================
