---------------------------- MODULE MCKeyStore ----------------------------
(* Model-checking instance of KeyStore: two keys, two passwords, unlocks   *)
(* that last 1 second, a clock of 2 seconds, 3 AccountInfo objects.       *)
EXTENDS KeyStore

MCDurations == {1}

=============================================================================
