-------------------------- MODULE MCArithmeticCoder --------------------------
(***************************************************************************)
(* Bytes of two bits, a ring of four bytes; the first programs are long    *)
(* enough for their models to be updated and halved, the last mixes kinds. *)
(***************************************************************************)
EXTENDS ArithmeticCoder

CoderPrograms ==
  { [symbols |-> 2, kinds |-> {"bit"}, calls |-> 10],
    [symbols |-> 2, kinds |-> {"symbol"}, calls |-> 10],
    [symbols |-> 3, kinds |-> {"symbol"}, calls |-> 6],
    [symbols |-> 6, kinds |-> {"symbol"}, calls |-> 4],
    [symbols |-> 2, kinds |-> {"raw"}, calls |-> 6],
    [symbols |-> 3, kinds |-> {"bit", "symbol", "raw"}, calls |-> 4] }
==============================================================================
