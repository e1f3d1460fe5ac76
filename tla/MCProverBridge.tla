--------------------------- MODULE MCProverBridge ---------------------------
(* Small instances of ProverBridge for TLC: two totals from two sources and *)
(* one call that fetches no events.                                         *)
EXTENDS ProverBridge, TLC

CONSTANTS a, b, x, memory, simulation

AllCalls == {a, b, x}
TotalCalls == {a, b}
ATotalAndACall == {a, x}
OneTotal == {a}
OneSource == a :> memory
TwoSources == (a :> memory) @@ (b :> simulation)
=============================================================================
