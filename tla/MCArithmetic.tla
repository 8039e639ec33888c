------------------------------ MODULE MCArithmetic ------------------------------
(* Words of five bits with bytes of two: all words on both sides. *)
EXTENDS Arithmetic

MC_Words  == 0..31
MC_Before == {0, 17}
================================================================================
