-------------------------------- MODULE Bth --------------------------------
(***************************************************************************)
(* The Base Transport Header and its accessors (rxe_hdr.h).                *)
(*                                                                         *)
(* A header is a record of the struct's words, by their value in host byte *)
(* order (every accessor converts).  A mask of the code is the pair <<lo,  *)
(* n>> of its lowest bit and its length.  The 32-bit words are kept as     *)
(* their top byte and their low 24 bits, which no mask of this header      *)
(* straddles.                                                              *)
(***************************************************************************)
EXTENDS Naturals

SE == <<7, 1>>      \* BTH_SE_MASK, and so on, in flags
MIG == <<6, 1>>
PAD == <<4, 2>>
TVER == <<0, 4>>
FECN == <<7, 1>>    \* in the top byte of qpn
BECN == <<6, 1>>
RESV6A == <<0, 6>>
ACK == <<7, 1>>     \* in the top byte of apsn
RESV7 == <<0, 7>>

\* Unsigned integers of n bits.
Unsigned(n) == {x \in Nat : x < 2^n}

Word32 == [top: Unsigned(8), low: Unsigned(24)]

rxe_bth == [opcode: Unsigned(8), flags: Unsigned(8), pkey: Unsigned(16),
            qpn: Word32, apsn: Word32]

\* (mask & w) >> lo
Get(m, w) == (w \div 2^m[1]) % 2^m[2]

\* (mask & (v << lo)) | (~mask & w)
Put(m, w, v) == w - Get(m, w) * 2^m[1] + (v % 2^m[2]) * 2^m[1]

\* if (v) w |= mask; else w &= ~mask;
PutFlag(m, w, v) == Put(m, w, IF v # 0 THEN 1 ELSE 0)

bth_opcode(b) == b.opcode
bth_se(b) == Get(SE, b.flags)
bth_mig(b) == Get(MIG, b.flags)
bth_pad(b) == Get(PAD, b.flags)
bth_tver(b) == Get(TVER, b.flags)
bth_pkey(b) == b.pkey
bth_qpn(b) == b.qpn.low
bth_fecn(b) == Get(FECN, b.qpn.top)
bth_becn(b) == Get(BECN, b.qpn.top)
bth_resv6a(b) == Get(RESV6A, b.qpn.top)
bth_ack(b) == Get(ACK, b.apsn.top)
bth_psn(b) == b.apsn.low

bth_set_opcode(b, v) == [b EXCEPT !.opcode = v]
bth_set_se(b, v) == [b EXCEPT !.flags = PutFlag(SE, @, v)]
bth_set_mig(b, v) == [b EXCEPT !.flags = PutFlag(MIG, @, v % 2^8)]   \* v is a u8

\* Mutant: the value is not masked before it is merged.
bth_set_pad_unmasked(b, v) ==
    [b EXCEPT !.flags = (Put(PAD, @, 0) + v * 2^4) % 2^8]

bth_set_pad(b, v) == [b EXCEPT !.flags = Put(PAD, @, v)]
bth_set_tver(b, v) == [b EXCEPT !.flags = Put(TVER, @, v)]
bth_set_pkey(b, v) == [b EXCEPT !.pkey = v]

\* Mutants: the rest of the word is not kept; the QPN is not masked.
bth_set_qpn_clears(b, v) == [b EXCEPT !.qpn = [top |-> 0, low |-> v % 2^24]]
bth_set_qpn_unmasked(b, v) == [b EXCEPT !.qpn.low = v]

bth_set_qpn(b, v) == [b EXCEPT !.qpn.low = v % 2^24]
bth_set_fecn(b, v) == [b EXCEPT !.qpn.top = PutFlag(FECN, @, v)]
bth_set_becn(b, v) == [b EXCEPT !.qpn.top = PutFlag(BECN, @, v)]

\* Stores ~BTH_RESV6A_MASK into the word: every other bit of it becomes 1.
bth_set_resv6a(b) ==
    [b EXCEPT !.qpn = [top |-> 255 - (2^6 - 1), low |-> 2^24 - 1]]

bth_set_ack(b, v) == [b EXCEPT !.apsn.top = PutFlag(ACK, @, v)]
bth_set_resv7(b) == [b EXCEPT !.apsn.top = Put(RESV7, @, 0)]
bth_set_psn(b, v) == [b EXCEPT !.apsn.low = v % 2^24]

bth_init(b, opcode, se, mig, pad, pkey, qpn, ack_req, psn) ==
    [opcode |-> opcode,
     flags |-> PutFlag(MIG, PutFlag(SE, Put(PAD, 0, pad), se), mig),
     pkey |-> pkey,
     qpn |-> [top |-> 0, low |-> qpn % 2^24],
     apsn |-> [top |-> PutFlag(ACK, 0, ack_req), low |-> psn % 2^24]]
=============================================================================
