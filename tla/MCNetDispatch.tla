---------------------------- MODULE MCNetDispatch ----------------------------
(* One peer, a code with a topic from each group and one without.          *)
EXTENDS NetDispatch

MCCodes == {3, 7, 10}

=============================================================================
