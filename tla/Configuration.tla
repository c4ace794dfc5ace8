--------------------------- MODULE Configuration ---------------------------
(***************************************************************************)
(* What an optimizer is built with (ennx/src/config.rs,                    *)
(* optimizer_factory.rs, ennx-py/src/py_optimizer.rs).  Overrides are a    *)
(* function from the names that are given; none of the others is None.     *)
(* Lengths are steps of the grid candidates lie on.                        *)
(***************************************************************************)
EXTENDS Candidates, TLC

CONSTANT LengthInit \* TRLengthConfig::default().length_init

ASSUME LengthInitAssumption == LengthInit \in Nat \ {0}

Given(overrides, name, otherwise) ==
    IF name \in DOMAIN overrides THEN overrides[name] ELSE otherwise

\* What the Python frontend can read; it ignores names it does not know.
Readable(overrides) ==
    /\ Given(overrides, "acquisition", "ucb") \in {"ucb", "thompson", "random", "pareto"}
    /\ Given(overrides, "candidate_rv", "uniform") \in {"sobol", "uniform", "raasp"}
    /\ Given(overrides, "trust_region", "turbo") \in {"turbo", "morbo"}

\* Kinds of create_optimizer.
Kinds == {"enn", "enn_multi_tr", "zero", "lhd", "gp"}

\* turbo_enn_config, turbo_zero_config and lhd_only_config
Factory(kind) ==
    LET zero == [acquisition |-> "random", rv |-> "uniform", pert |-> 20, morbo |-> FALSE,
                 metrics |-> 1, length |-> LengthInit,
                 counts |-> [factor |-> 1000, min |-> 100, max |-> -1, perArm |-> -1]]
    IN  CASE kind \in {"enn", "enn_multi_tr"} -> [zero EXCEPT !.acquisition = "ucb"]
          [] kind \in {"zero", "gp"}          -> zero
          [] kind = "lhd"                     -> [zero EXCEPT !.counts.factor = 1, !.counts.min = 1]

\* apply_trust_region_overrides: with a kind of region given, the length
\* counts for MORBO only.
WithRegion(config, overrides) ==
    LET kind == Given(overrides, "trust_region", "none")
    IN  CASE kind = "turbo" -> config
          [] kind = "none"  -> [config EXCEPT !.length = Given(overrides, "length_init", @)]
          [] kind = "morbo" -> [config EXCEPT !.length = Given(overrides, "length_init", LengthInit),
                                              !.metrics = Given(overrides, "num_metrics", 2),
                                              !.morbo = TRUE]

\* ConfigOverrides::apply_to
Applied(config, overrides) ==
    LET counts == [factor |-> Given(overrides, "num_candidates_factor", config.counts.factor),
                   min    |-> Given(overrides, "min_candidates", config.counts.min),
                   max    |-> Given(overrides, "max_candidates", config.counts.max),
                   perArm |-> Given(overrides, "num_candidates_per_arm", config.counts.perArm)]
    IN  WithRegion([config EXCEPT !.acquisition = Given(overrides, "acquisition", @),
                                  !.rv = Given(overrides, "candidate_rv", @),
                                  !.counts = counts,
                                  !.pert = Max({Given(overrides, "num_pert", @), 1})],
                   overrides)

\* What asks after the other: the design, then TuRBO or the regions.
Strategies(kind) ==
    CASE kind = "lhd"          -> {"lhd"}
      [] kind = "enn_multi_tr" -> {"lhd", "regions"}
      [] OTHER                 -> {"lhd", "turbo"}

\* The surrogate, and how tells may have left it: without rows, with rows
\* but no fit, or fitted.
Surrogates(kind) ==
    CASE kind \in {"enn", "enn_multi_tr"} -> {"empty", "unfitted", "fitted"}
      [] kind = "gp"                      -> {"python"}
      [] OTHER                            -> {"none"}

\* Optimizer::new_inner refuses MORBO with one metric.
Buildable(config) == config.morbo => config.metrics >= 2

\* build_optimizer.  Several regions start with the default length, whatever
\* the configuration says.
Configured(kind, overrides) ==
    LET config == Applied(Factory(kind), overrides)
    IN  {[config EXCEPT !.length = IF s = "regions" THEN LengthInit ELSE @]
            @@ [strategy |-> s, surrogate |-> model] :
            s \in IF Readable(overrides) /\ Buildable(config) THEN Strategies(kind) ELSE {},
            model \in Surrogates(kind)}
=============================================================================
