------------------------------- MODULE MCExprGen -------------------------------
(* Values of the constants of ExprGen for TLC. *)
EXTENDS ExprGen, TLC

\* f is called without an argument, g with one, h with two; six fills the registers, and
\* the seventh argument of many does not fit.
MC_AritySmall == ("f" :> 0) @@ ("g" :> 1)
MC_ArityCalls == ("g" :> 1) @@ ("h" :> 2)
MC_ArityDeep  == MC_AritySmall @@ MC_ArityCalls @@ ("six" :> 6) @@ ("many" :> 7)
================================================================================
