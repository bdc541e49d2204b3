------------------------------- MODULE MCCoin -------------------------------
(* ParseCoin on every trimmed gas price with a number from 0 to 2.         *)
EXTENDS Coin

=============================================================================
