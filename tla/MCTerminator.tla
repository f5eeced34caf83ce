---------------------------- MODULE MCTerminator ----------------------------
(* Small instance of Terminator: rates in sixteenths against eight draws, so *)
(* that one valid rate rounds to threshold 0 and 1.0 saturates.              *)
EXTENDS Terminator

MCRates == {-1, 0, 1, 8, 16, 17}
=============================================================================
