--------------------------- MODULE MCMonitoring -----------------------------
(* Monitoring.tla for TLC: names for the model values of the cfg files, and *)
(* the offers and policies of the small instances.                         *)
EXTENDS Monitoring

CONSTANTS w1, cheap, dear

\* Nothing, or two candidates of which the first may need approval: then the
\* recommendation and the first executable candidate differ.
SomeOffers == {<<>>, <<dear, cheap>>}

Plan(mode, guarded) == [mode |-> mode, guarded |-> guarded]

\* One policy of each mode.
SomePolicies == {Plan("MONITOR_ONLY", {dear}), Plan("REQUIRE_APPROVAL", {dear}),
                 Plan("AUTONOMOUS", {dear})}

\* The owner only moves the approval threshold.
TwoThresholds == {Plan("AUTONOMOUS", {dear}), Plan("AUTONOMOUS", {})}
=============================================================================
