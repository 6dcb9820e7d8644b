\* A handshake of two flights, a renegotiation, three items typed, three data
\* records of the peer, of which a read may bring two.
CONSTANTS
    Flights = 2
    MaxFlights = 4
    MaxTyped = 3
    MaxPeerData = 3
    BufSize = 4
SPECIFICATION Spec
INVARIANTS TypeOK OutputQueued InputProcessed CiphertextInOrder PlaintextInOrder
INVARIANT RecordsInOrder
CHECK_DEADLOCK FALSE
