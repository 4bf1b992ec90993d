SPECIFICATION Spec
CONSTANTS
    Addr = {1, 2}
    DestQpn <- MCDestQpn
    Ttl = {32, 255}
    Tos = {137, 194}
    Room = {0, 59, 60, 61}
    None = None
INVARIANTS TypeOK WireIcrcValid SentIsCnp
