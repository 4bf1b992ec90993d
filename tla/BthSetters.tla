----------------------------- MODULE BthSetters -----------------------------
(***************************************************************************)
(* A header under any sequence of setters, next to the values a caller of  *)
(* the setters believes its fields to have.                                *)
(***************************************************************************)
EXTENDS Bth

CONSTANTS
    Flag,       \* arguments for one-bit fields; any non-zero value means 1
    MigArg,     \* arguments for mig, of which bth_set_mig takes 8 bits
    Small,      \* arguments for pad and tver, wider than the fields
    Opcode,     \* opcodes
    Pkey,       \* partition keys
    Qp,         \* arguments for qpn and psn, wider than the fields
    Start       \* headers the setters may find: zeroed or recycled memory

VARIABLES bth, val

bth_vars == <<bth, val>>

\* What the getters return.
Fields(b) ==
    [opcode |-> bth_opcode(b), se |-> bth_se(b), mig |-> bth_mig(b),
     pad |-> bth_pad(b), tver |-> bth_tver(b), pkey |-> bth_pkey(b),
     qpn |-> bth_qpn(b), fecn |-> bth_fecn(b), becn |-> bth_becn(b),
     resv6a |-> bth_resv6a(b), ack |-> bth_ack(b), psn |-> bth_psn(b)]

SettersInit == bth \in Start /\ val = Fields(bth)

Bit(v) == IF v # 0 THEN 1 ELSE 0

SetOpcode == \E v \in Opcode :
    bth' = bth_set_opcode(bth, v) /\ val' = [val EXCEPT !.opcode = v]
SetSe == \E v \in Flag :
    bth' = bth_set_se(bth, v) /\ val' = [val EXCEPT !.se = Bit(v)]
SetMig == \E v \in MigArg :
    bth' = bth_set_mig(bth, v) /\ val' = [val EXCEPT !.mig = Bit(v % 2^8)]
SetPad == \E v \in Small :
    bth' = bth_set_pad(bth, v) /\ val' = [val EXCEPT !.pad = v % 4]
SetTver == \E v \in Small :
    bth' = bth_set_tver(bth, v) /\ val' = [val EXCEPT !.tver = v % 16]
SetPkey == \E v \in Pkey :
    bth' = bth_set_pkey(bth, v) /\ val' = [val EXCEPT !.pkey = v]
SetQpn == \E v \in Qp :
    bth' = bth_set_qpn(bth, v) /\ val' = [val EXCEPT !.qpn = v % 2^24]
SetFecn == \E v \in Flag :
    bth' = bth_set_fecn(bth, v) /\ val' = [val EXCEPT !.fecn = Bit(v)]
SetBecn == \E v \in Flag :
    bth' = bth_set_becn(bth, v) /\ val' = [val EXCEPT !.becn = Bit(v)]
SetAck == \E v \in Flag :
    bth' = bth_set_ack(bth, v) /\ val' = [val EXCEPT !.ack = Bit(v)]
SetPsn == \E v \in Qp :
    bth' = bth_set_psn(bth, v) /\ val' = [val EXCEPT !.psn = v % 2^24]

\* The bits it clears have no getter.
SetResv7 == bth' = bth_set_resv7(bth) /\ UNCHANGED val

\* The one setter that is not confined to its field; nothing calls it.
SetResv6a ==
    /\ bth' = bth_set_resv6a(bth)
    /\ val' = [val EXCEPT !.resv6a = 0, !.fecn = 1, !.becn = 1, !.qpn = 2^24 - 1]

BthInit ==
    \E op \in Opcode, se, mig, ack \in Flag, pad \in Small, k \in Pkey, q, n \in Qp :
       /\ bth' = bth_init(bth, op, se, mig, pad, k, q, ack, n)
       /\ val' = [opcode |-> op, se |-> Bit(se), mig |-> Bit(mig),
                  pad |-> pad % 4, tver |-> 0, pkey |-> k, qpn |-> q % 2^24,
                  fecn |-> 0, becn |-> 0, resv6a |-> 0, ack |-> Bit(ack),
                  psn |-> n % 2^24]

SettersNext ==
    \/ SetOpcode \/ SetSe \/ SetMig \/ SetPad \/ SetTver \/ SetPkey \/ SetQpn
    \/ SetFecn \/ SetBecn \/ SetResv6a \/ SetAck \/ SetResv7 \/ SetPsn
    \/ BthInit

SettersSpec == SettersInit /\ [][SettersNext]_bth_vars

\* No setter carries into a neighbouring byte or word, whatever it is given.
BthTypeOK == bth \in rxe_bth

\* Every getter returns what was last set, cut to the field's width, however
\* many setters of fields in the same byte or word ran in between.
SettersIndependent == Fields(bth) = val
=============================================================================
