\* Two consoles c1, c2 with the key of account a1, two sendtx each, nonces
\* up to 3: enough for both consoles to read the same nonce, for a given
\* nonce to collide with a pending one and for a block to commit in between.
CONSTANTS
    Clients = {c1, c2}
    Accounts = {a1}
    Key <- MCKey
    MaxNonce = 3
    MaxSends = 2
SPECIFICATION Spec
\* Every console stops once it has sent MaxSends transactions and the pool
\* has drained what it can; a console waiting for the user is not a fault.
CHECK_DEADLOCK FALSE
INVARIANT ConsoleOkMeansPooled
