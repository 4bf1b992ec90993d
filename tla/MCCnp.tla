------------------------------- MODULE MCCnp -------------------------------
(* Cnp with QPNs at and beyond the edge of 24 bits, and mbufs too short. *)
EXTENDS Cnp

MCDestQpn == {1, 2^24 - 1, 2^24 + 2}
=============================================================================
