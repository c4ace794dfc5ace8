----------------------------- MODULE TurboLength -----------------------------
(***************************************************************************)
(* What TurboTrustRegion (ennx/src/trust_region.rs) says of its length and *)
(* its tolerances whoever owns it: an optimizer with one objective         *)
(* (AskTell) or MORBO's scalarization of several (MorboTell).              *)
(***************************************************************************)
EXTENDS Integers, FiniteSetsExt

CONSTANTS
    NumInit,      \* num_init of the hybrid strategy
    Dim,          \* failure_tolerance_dim, or num_dim
    LengthInit, LengthMin, LengthMax   \* TRLengthConfig, in a common unit

ASSUME LengthAssumption ==
    /\ {LengthInit, LengthMin, LengthMax} \subseteq Nat \ {0}
    /\ LengthMin <= LengthInit /\ LengthInit <= LengthMax
ASSUME DesignAssumption == {NumInit, Dim} \subseteq Nat

\* compute_failure_tolerance for n arms.
FailureTolerance(n) == Max({1, (Max({4, Dim}) + n - 1) \div n})

\* Mutant: `>` in the place of `>=`.
SuccessToleranceExceeded == 4

SuccessTolerance == 3

=============================================================================
