\* The nonce Gx_nonce hands out against a transaction still in the pool.
CONSTANTS
    Clients = {c1, c2}
    Accounts = {a1}
    Key <- MCKey
    MaxNonce = 3
    MaxSends = 2
SPECIFICATION Spec
CHECK_DEADLOCK FALSE
PROPERTY AutoNonceUsable
