SPECIFICATION Spec
CONSTANTS
    Mbuf = {m1}
    DynSlot = {s1, s2}
    None = None
    Packets <- ShortMads
INVARIANT MadInsideDatagram
