---------------------------- MODULE HeaderProofs ----------------------------
(***************************************************************************)
(* The setters of the Base Transport Header, and the CNPs they are used    *)
(* for: for every header, every argument and any sequence of calls.        *)
(***************************************************************************)
EXTENDS Cnp, BthSetters, TLAPS

-----------------------------------------------------------------------------
(* Fields of one byte *)

\* Bits that are cut out of a byte and put into it, by the weight of the lowest
\* one and the number of values.
Cut(w, lo, n) == (w \div lo) % n
Paste(w, lo, n, a) == w - Cut(w, lo, n) * lo + a * lo

\* The four fields of the flags byte.
LEMMA FlagGets ==
    ASSUME NEW w \in Nat
    PROVE  /\ Get(SE, w) = Cut(w, 128, 2) /\ Get(MIG, w) = Cut(w, 64, 2)
           /\ Get(PAD, w) = Cut(w, 16, 4) /\ Get(TVER, w) = Cut(w, 1, 16)
<1>1. 2^7 = 128 /\ 2^6 = 64 /\ 2^4 = 16 /\ 2^0 = 1 /\ 2^1 = 2 /\ 2^2 = 4
  OBVIOUS
<1>. QED
  BY <1>1 DEF Get, Cut, SE, MIG, PAD, TVER

\* What a setter of the flags puts into them.
LEMMA FlagPuts ==
    ASSUME NEW w \in Nat, NEW v \in Nat
    PROVE  /\ Put(SE, w, v) = Paste(w, 128, 2, v % 2)
           /\ Put(MIG, w, v) = Paste(w, 64, 2, v % 2)
           /\ Put(PAD, w, v) = Paste(w, 16, 4, v % 4)
           /\ Put(TVER, w, v) = Paste(w, 1, 16, v % 16)
<1>1. 2^7 = 128 /\ 2^6 = 64 /\ 2^4 = 16 /\ 2^0 = 1 /\ 2^1 = 2 /\ 2^2 = 4
  OBVIOUS
<1>. QED
  BY <1>1 DEF Get, Put, Cut, Paste, SE, MIG, PAD, TVER

\* The fields of the top bytes of qpn and of apsn.
LEMMA TopGets ==
    ASSUME NEW w \in Nat
    PROVE  /\ Get(FECN, w) = Cut(w, 128, 2) /\ Get(BECN, w) = Cut(w, 64, 2)
           /\ Get(RESV6A, w) = Cut(w, 1, 64)
           /\ Get(ACK, w) = Cut(w, 128, 2) /\ Get(RESV7, w) = Cut(w, 1, 128)
<1>1. 2^7 = 128 /\ 2^6 = 64 /\ 2^0 = 1 /\ 2^1 = 2
  OBVIOUS
<1>. QED
  BY <1>1 DEF Get, Cut, FECN, BECN, RESV6A, ACK, RESV7

\* What a setter of the top bytes puts into them.
LEMMA TopPuts ==
    ASSUME NEW w \in Nat, NEW v \in Nat
    PROVE  /\ Put(FECN, w, v) = Paste(w, 128, 2, v % 2)
           /\ Put(BECN, w, v) = Paste(w, 64, 2, v % 2)
           /\ Put(ACK, w, v) = Paste(w, 128, 2, v % 2)
           /\ Put(RESV7, w, v) = Paste(w, 1, 128, v % 128)
<1>1. 2^7 = 128 /\ 2^6 = 64 /\ 2^0 = 1 /\ 2^1 = 2
  OBVIOUS
<1>. QED
  BY <1>1 DEF Get, Put, Cut, Paste, FECN, BECN, RESV6A, ACK, RESV7

\* Each of the fields of a byte takes the value it is given, and leaves the
\* others alone.
LEMMA PasteBit7 ==
    ASSUME NEW w \in Unsigned(8), NEW a \in Nat, a < 2
    PROVE  /\ Paste(w, 128, 2, a) \in Unsigned(8) /\ Cut(Paste(w, 128, 2, a), 128, 2) = a
           /\ Cut(Paste(w, 128, 2, a), 64, 2) = Cut(w, 64, 2)
           /\ Cut(Paste(w, 128, 2, a), 16, 4) = Cut(w, 16, 4)
           /\ Cut(Paste(w, 128, 2, a), 1, 16) = Cut(w, 1, 16)
           /\ Cut(Paste(w, 128, 2, a), 1, 64) = Cut(w, 1, 64)
BY DEF Paste, Cut, Unsigned

\* The same for bit 6,
LEMMA PasteBit6 ==
    ASSUME NEW w \in Unsigned(8), NEW a \in Nat, a < 2
    PROVE  /\ Paste(w, 64, 2, a) \in Unsigned(8) /\ Cut(Paste(w, 64, 2, a), 64, 2) = a
           /\ Cut(Paste(w, 64, 2, a), 128, 2) = Cut(w, 128, 2)
           /\ Cut(Paste(w, 64, 2, a), 16, 4) = Cut(w, 16, 4)
           /\ Cut(Paste(w, 64, 2, a), 1, 16) = Cut(w, 1, 16)
           /\ Cut(Paste(w, 64, 2, a), 1, 64) = Cut(w, 1, 64)
BY DEF Paste, Cut, Unsigned

\* for bits 4 and 5,
LEMMA PasteBits4 ==
    ASSUME NEW w \in Unsigned(8), NEW a \in Nat, a < 4
    PROVE  /\ Paste(w, 16, 4, a) \in Unsigned(8) /\ Cut(Paste(w, 16, 4, a), 16, 4) = a
           /\ Cut(Paste(w, 16, 4, a), 128, 2) = Cut(w, 128, 2)
           /\ Cut(Paste(w, 16, 4, a), 64, 2) = Cut(w, 64, 2)
           /\ Cut(Paste(w, 16, 4, a), 1, 16) = Cut(w, 1, 16)
BY DEF Paste, Cut, Unsigned

\* for the low four bits,
LEMMA PasteBits0 ==
    ASSUME NEW w \in Unsigned(8), NEW a \in Nat, a < 16
    PROVE  /\ Paste(w, 1, 16, a) \in Unsigned(8) /\ Cut(Paste(w, 1, 16, a), 1, 16) = a
           /\ Cut(Paste(w, 1, 16, a), 128, 2) = Cut(w, 128, 2)
           /\ Cut(Paste(w, 1, 16, a), 64, 2) = Cut(w, 64, 2)
           /\ Cut(Paste(w, 1, 16, a), 16, 4) = Cut(w, 16, 4)
BY DEF Paste, Cut, Unsigned

\* and for the low seven bits.
LEMMA PasteLow7 ==
    ASSUME NEW w \in Unsigned(8), NEW a \in Nat, a < 128
    PROVE  /\ Paste(w, 1, 128, a) \in Unsigned(8) /\ Cut(Paste(w, 1, 128, a), 1, 128) = a
           /\ Cut(Paste(w, 1, 128, a), 128, 2) = Cut(w, 128, 2)
BY DEF Paste, Cut, Unsigned

-----------------------------------------------------------------------------
(* Any sequence of setters *)

\* The arguments of the setters have the width of the C types, or more.
SetterArguments ==
    /\ Flag \subseteq Nat /\ MigArg \subseteq Nat /\ Small \subseteq Nat /\ Qp \subseteq Nat
    /\ Opcode \subseteq Unsigned(8) /\ Pkey \subseteq Unsigned(16)
    /\ Start \subseteq rxe_bth

\* A flag is put into a word as one bit.
LEMMA FlagIsBit ==
    /\ \A v : Bit(v) = IF v # 0 THEN 1 ELSE 0
    /\ \A m, w, v : PutFlag(m, w, v) = Put(m, w, Bit(v))
BY DEF Put, PutFlag, Bit

\* A caller's values, and the bits they have to be.
FieldValues ==
    [opcode: Nat, se: Nat, mig: Nat, pad: Nat, tver: Nat, pkey: Nat, qpn: Nat,
     fecn: Nat, becn: Nat, resv6a: Nat, ack: Nat, psn: Nat]

FlagsAgree(w, v) ==
    /\ v.se = Cut(w, 128, 2) /\ v.mig = Cut(w, 64, 2)
    /\ v.pad = Cut(w, 16, 4) /\ v.tver = Cut(w, 1, 16)
QpnAgrees(q, v) ==
    /\ v.qpn = q.low
    /\ v.fecn = Cut(q.top, 128, 2) /\ v.becn = Cut(q.top, 64, 2) /\ v.resv6a = Cut(q.top, 1, 64)
PsnAgrees(a, v) == v.psn = a.low /\ v.ack = Cut(a.top, 128, 2)

Agrees(b, v) ==
    /\ b \in rxe_bth /\ v \in FieldValues
    /\ v.opcode = b.opcode /\ v.pkey = b.pkey
    /\ FlagsAgree(b.flags, v) /\ QpnAgrees(b.qpn, v) /\ PsnAgrees(b.apsn, v)

\* The words of a header.
LEMMA Words ==
    ASSUME NEW b \in rxe_bth
    PROVE  /\ b.opcode \in Unsigned(8) /\ b.flags \in Unsigned(8) /\ b.pkey \in Unsigned(16)
           /\ b.qpn \in Word32 /\ b.qpn.top \in Unsigned(8) /\ b.qpn.low \in Unsigned(24)
           /\ b.apsn \in Word32 /\ b.apsn.top \in Unsigned(8) /\ b.apsn.low \in Unsigned(24)
BY DEF rxe_bth, Word32

\* The words are numbers.
LEMMA UnsignedNat ==
    /\ \A w \in Unsigned(8) : w \in Nat
    /\ \A w \in Unsigned(16) : w \in Nat
    /\ \A w \in Unsigned(24) : w \in Nat
BY DEF Unsigned

\* The getters read these bits.
LEMMA GettersRead ==
    ASSUME NEW b \in rxe_bth
    PROVE  /\ bth_opcode(b) = b.opcode /\ bth_pkey(b) = b.pkey
           /\ bth_qpn(b) = b.qpn.low /\ bth_psn(b) = b.apsn.low
           /\ bth_se(b) = Cut(b.flags, 128, 2) /\ bth_mig(b) = Cut(b.flags, 64, 2)
           /\ bth_pad(b) = Cut(b.flags, 16, 4) /\ bth_tver(b) = Cut(b.flags, 1, 16)
           /\ bth_fecn(b) = Cut(b.qpn.top, 128, 2) /\ bth_becn(b) = Cut(b.qpn.top, 64, 2)
           /\ bth_resv6a(b) = Cut(b.qpn.top, 1, 64) /\ bth_ack(b) = Cut(b.apsn.top, 128, 2)
<1>1. b.flags \in Nat /\ b.qpn.top \in Nat /\ b.apsn.top \in Nat
  BY Words, UnsignedNat
<1>2. /\ bth_se(b) = Cut(b.flags, 128, 2) /\ bth_mig(b) = Cut(b.flags, 64, 2)
      /\ bth_pad(b) = Cut(b.flags, 16, 4) /\ bth_tver(b) = Cut(b.flags, 1, 16)
  BY Zenon, <1>1, FlagGets DEF bth_se, bth_mig, bth_pad, bth_tver
<1>3. /\ bth_fecn(b) = Cut(b.qpn.top, 128, 2) /\ bth_becn(b) = Cut(b.qpn.top, 64, 2)
      /\ bth_resv6a(b) = Cut(b.qpn.top, 1, 64) /\ bth_ack(b) = Cut(b.apsn.top, 128, 2)
  BY <1>1, TopGets DEF bth_fecn, bth_becn, bth_resv6a, bth_ack
<1>. QED
  BY <1>2, <1>3 DEF bth_opcode, bth_pkey, bth_qpn, bth_psn

\* A caller is right if and only if the bits are.
LEMMA AgreesFields ==
    /\ \A b \in rxe_bth : Agrees(b, Fields(b))
    /\ \A b, v : Agrees(b, v) => Fields(b) = v
<1>1. ASSUME NEW b \in rxe_bth PROVE Agrees(b, Fields(b))
  <2>1. Fields(b) \in FieldValues
    <3>1. /\ b.opcode \in Nat /\ b.flags \in Nat /\ b.pkey \in Nat
          /\ b.qpn.top \in Nat /\ b.qpn.low \in Nat /\ b.apsn.top \in Nat /\ b.apsn.low \in Nat
      BY Words, UnsignedNat
    <3>2. /\ bth_opcode(b) \in Nat /\ bth_se(b) \in Nat /\ bth_mig(b) \in Nat
          /\ bth_pad(b) \in Nat /\ bth_tver(b) \in Nat /\ bth_pkey(b) \in Nat
          /\ bth_qpn(b) \in Nat /\ bth_fecn(b) \in Nat /\ bth_becn(b) \in Nat
          /\ bth_resv6a(b) \in Nat /\ bth_ack(b) \in Nat /\ bth_psn(b) \in Nat
      <4>1. /\ Cut(b.flags, 128, 2) \in Nat /\ Cut(b.flags, 64, 2) \in Nat
            /\ Cut(b.flags, 16, 4) \in Nat /\ Cut(b.flags, 1, 16) \in Nat
        BY <3>1 DEF Cut
      <4>2. /\ Cut(b.qpn.top, 128, 2) \in Nat /\ Cut(b.qpn.top, 64, 2) \in Nat
            /\ Cut(b.qpn.top, 1, 64) \in Nat /\ Cut(b.apsn.top, 128, 2) \in Nat
        BY <3>1 DEF Cut
      <4>3. /\ bth_se(b) \in Nat /\ bth_mig(b) \in Nat /\ bth_pad(b) \in Nat
            /\ bth_tver(b) \in Nat
        BY <4>1, GettersRead
      <4>4. /\ bth_fecn(b) \in Nat /\ bth_becn(b) \in Nat /\ bth_resv6a(b) \in Nat
            /\ bth_ack(b) \in Nat
        BY <4>2, GettersRead
      <4>5. /\ bth_opcode(b) \in Nat /\ bth_pkey(b) \in Nat /\ bth_qpn(b) \in Nat
            /\ bth_psn(b) \in Nat
        BY <3>1, GettersRead
      <4>. QED
        BY <4>3, <4>4, <4>5
    <3>. QED
      BY <3>2 DEF Fields, FieldValues
  <2>. QED
    BY <2>1, GettersRead DEF Fields, Agrees, FlagsAgree, QpnAgrees, PsnAgrees
<1>2. ASSUME NEW b, NEW v, Agrees(b, v) PROVE Fields(b) = v
  <2>1. b \in rxe_bth /\ v \in FieldValues
    BY <1>2 DEF Agrees
  <2>2. /\ v.opcode = bth_opcode(b) /\ v.se = bth_se(b) /\ v.mig = bth_mig(b)
        /\ v.pad = bth_pad(b) /\ v.tver = bth_tver(b) /\ v.pkey = bth_pkey(b)
        /\ v.qpn = bth_qpn(b) /\ v.fecn = bth_fecn(b) /\ v.becn = bth_becn(b)
        /\ v.resv6a = bth_resv6a(b) /\ v.ack = bth_ack(b) /\ v.psn = bth_psn(b)
    BY <1>2, <2>1, GettersRead DEF Agrees, FlagsAgree, QpnAgrees, PsnAgrees
  <2>3. v = [opcode |-> v.opcode, se |-> v.se, mig |-> v.mig, pad |-> v.pad, tver |-> v.tver,
             pkey |-> v.pkey, qpn |-> v.qpn, fecn |-> v.fecn, becn |-> v.becn,
             resv6a |-> v.resv6a, ack |-> v.ack, psn |-> v.psn]
    BY <2>1 DEF FieldValues
  <2>. QED
    BY <2>2, <2>3 DEF Fields
<1>. QED
  BY <1>1, <1>2

\* What a caller believes of the words that a setter leaves alone.
SameFlags(u, v) == u.se = v.se /\ u.mig = v.mig /\ u.pad = v.pad /\ u.tver = v.tver
SameQpn(u, v) == u.qpn = v.qpn /\ u.fecn = v.fecn /\ u.becn = v.becn /\ u.resv6a = v.resv6a
SamePsn(u, v) == u.psn = v.psn /\ u.ack = v.ack
SameWords(u, v) == u.opcode = v.opcode /\ u.pkey = v.pkey

\* Setting one word of a header.
LEMMA SetFlagsWord ==
    ASSUME NEW b, NEW v, Agrees(b, v), NEW u \in FieldValues, NEW f \in Unsigned(8),
           FlagsAgree(f, u), SameQpn(u, v), SamePsn(u, v), SameWords(u, v)
    PROVE  Agrees([b EXCEPT !.flags = f], u)
<1>. DEFINE c == [b EXCEPT !.flags = f]
<1>1. b \in rxe_bth
  BY DEF Agrees
<1>2. /\ c \in rxe_bth /\ c.flags = f /\ c.opcode = b.opcode /\ c.pkey = b.pkey
      /\ c.qpn = b.qpn /\ c.apsn = b.apsn
  BY <1>1 DEF rxe_bth
<1>. QED
  BY <1>2 DEF Agrees, SameQpn, SamePsn, SameWords, QpnAgrees, PsnAgrees

\* The same for a setter of the QPN word,
LEMMA SetQpnWord ==
    ASSUME NEW b, NEW v, Agrees(b, v), NEW u \in FieldValues, NEW q \in Word32,
           QpnAgrees(q, u), SameFlags(u, v), SamePsn(u, v), SameWords(u, v)
    PROVE  Agrees([b EXCEPT !.qpn = q], u)
<1>. DEFINE c == [b EXCEPT !.qpn = q]
<1>1. b \in rxe_bth
  BY DEF Agrees
<1>2. /\ c \in rxe_bth /\ c.qpn = q /\ c.opcode = b.opcode /\ c.pkey = b.pkey
      /\ c.flags = b.flags /\ c.apsn = b.apsn
  BY <1>1 DEF rxe_bth
<1>. QED
  BY <1>2 DEF Agrees, SameFlags, SamePsn, SameWords, FlagsAgree, PsnAgrees

\* and of the PSN word.
LEMMA SetPsnWord ==
    ASSUME NEW b, NEW v, Agrees(b, v), NEW u \in FieldValues, NEW a \in Word32,
           PsnAgrees(a, u), SameFlags(u, v), SameQpn(u, v), SameWords(u, v)
    PROVE  Agrees([b EXCEPT !.apsn = a], u)
<1>. DEFINE c == [b EXCEPT !.apsn = a]
<1>1. b \in rxe_bth
  BY DEF Agrees
<1>2. /\ c \in rxe_bth /\ c.apsn = a /\ c.opcode = b.opcode /\ c.pkey = b.pkey
      /\ c.flags = b.flags /\ c.qpn = b.qpn
  BY <1>1 DEF rxe_bth
<1>. QED
  BY <1>2 DEF Agrees, SameFlags, SameQpn, SameWords, FlagsAgree, QpnAgrees

\* A flag's value is a bit.
LEMMA BitWidth ==
    ASSUME NEW x
    PROVE  Bit(x) \in Nat /\ Bit(x) < 2 /\ Bit(x) % 2 = Bit(x)
BY DEF Bit

\* The setters of the flags byte.
LEMMA SetSeAgrees ==
    ASSUME NEW b, NEW v, Agrees(b, v), NEW x \in Nat
    PROVE  Agrees(bth_set_se(b, x), [v EXCEPT !.se = Bit(x)])
<1>. DEFINE w == b.flags
            f == Paste(w, 128, 2, Bit(x))
            u == [v EXCEPT !.se = Bit(x)]
<1>1. w \in Unsigned(8) /\ w \in Nat /\ v \in FieldValues /\ FlagsAgree(w, v)
  BY Words, UnsignedNat DEF Agrees
<1>2. Bit(x) \in Nat /\ Bit(x) < 2 /\ Bit(x) % 2 = Bit(x)
  BY BitWidth
<1>3. bth_set_se(b, x) = [b EXCEPT !.flags = f]
  <2>1. Put(SE, w, Bit(x)) = Paste(w, 128, 2, Bit(x) % 2)
    <3>. HIDE DEF w
    <3>. QED
      BY <1>1, BitWidth, FlagPuts
  <2>. QED
    BY <1>2, <2>1, FlagIsBit DEF bth_set_se
<1>4. /\ f \in Unsigned(8) /\ Cut(f, 128, 2) = Bit(x)
      /\ Cut(f, 64, 2) = Cut(w, 64, 2) /\ Cut(f, 16, 4) = Cut(w, 16, 4)
      /\ Cut(f, 1, 16) = Cut(w, 1, 16)
  <2>. HIDE DEF w
  <2>. QED
    BY <1>1, <1>2, PasteBit7
<1>5. /\ u \in FieldValues /\ u.se = Bit(x) /\ SameQpn(u, v) /\ SamePsn(u, v) /\ SameWords(u, v)
      /\ u.mig = v.mig /\ u.pad = v.pad /\ u.tver = v.tver
  BY <1>1, <1>2 DEF FieldValues, SameQpn, SamePsn, SameWords
<1>6. FlagsAgree(f, u)
  <2>. HIDE DEF w, f, u
  <2>. QED
    BY <1>1, <1>4, <1>5 DEF FlagsAgree
<1>7. Agrees([b EXCEPT !.flags = f], u)
  <2>. HIDE DEF w, f, u
  <2>. QED
    BY <1>4, <1>5, <1>6, SetFlagsWord
<1>. QED
  BY <1>3, <1>7

\* bth_set_mig changes its field only.
LEMMA SetMigAgrees ==
    ASSUME NEW b, NEW v, Agrees(b, v), NEW z \in Nat
    PROVE  Agrees(bth_set_mig(b, z), [v EXCEPT !.mig = Bit(z % 2^8)])
<1>. DEFINE w == b.flags
            x == z % 2^8
            f == Paste(w, 64, 2, Bit(x))
            u == [v EXCEPT !.mig = Bit(x)]
<1>1. w \in Unsigned(8) /\ w \in Nat /\ v \in FieldValues /\ FlagsAgree(w, v)
  BY Words, UnsignedNat DEF Agrees
<1>2. Bit(x) \in Nat /\ Bit(x) < 2 /\ Bit(x) % 2 = Bit(x)
  BY BitWidth
<1>3. bth_set_mig(b, z) = [b EXCEPT !.flags = f]
  <2>1. Put(MIG, w, Bit(x)) = Paste(w, 64, 2, Bit(x) % 2)
    <3>. HIDE DEF w
    <3>. QED
      BY <1>1, BitWidth, FlagPuts
  <2>. QED
    BY <1>2, <2>1, FlagIsBit DEF bth_set_mig
<1>4. /\ f \in Unsigned(8) /\ Cut(f, 64, 2) = Bit(x)
      /\ Cut(f, 128, 2) = Cut(w, 128, 2) /\ Cut(f, 16, 4) = Cut(w, 16, 4)
      /\ Cut(f, 1, 16) = Cut(w, 1, 16)
  <2>. HIDE DEF w
  <2>. QED
    BY <1>1, <1>2, PasteBit6
<1>5. /\ u \in FieldValues /\ u.mig = Bit(x) /\ SameQpn(u, v) /\ SamePsn(u, v)
      /\ SameWords(u, v)
      /\ u.se = v.se /\ u.pad = v.pad /\ u.tver = v.tver
  BY <1>1, <1>2 DEF FieldValues, SameQpn, SamePsn, SameWords
<1>6. FlagsAgree(f, u)
  <2>. HIDE DEF w, f, u
  <2>. QED
    BY <1>1, <1>4, <1>5 DEF FlagsAgree
<1>7. Agrees([b EXCEPT !.flags = f], u)
  <2>. HIDE DEF w, f, u
  <2>. QED
    BY <1>4, <1>5, <1>6, SetFlagsWord
<1>. QED
  BY <1>3, <1>7

\* bth_set_pad changes its field only.
LEMMA SetPadAgrees ==
    ASSUME NEW b, NEW v, Agrees(b, v), NEW x \in Nat
    PROVE  Agrees(bth_set_pad(b, x), [v EXCEPT !.pad = x % 4])
<1>. DEFINE w == b.flags
            f == Paste(w, 16, 4, x % 4)
            u == [v EXCEPT !.pad = x % 4]
<1>1. w \in Unsigned(8) /\ w \in Nat /\ v \in FieldValues /\ FlagsAgree(w, v)
  BY Words, UnsignedNat DEF Agrees
<1>2. x % 4 \in Nat /\ x % 4 < 4 /\ x % 4 = x % 4
  OBVIOUS
<1>3. bth_set_pad(b, x) = [b EXCEPT !.flags = f]
  <2>1. Put(PAD, w, x) = Paste(w, 16, 4, x % 4)
    <3>1. w \in Nat
      BY <1>1
    <3>. HIDE DEF w
    <3>. QED
      BY ZenonT(30), <3>1, FlagPuts
  <2>. QED
    BY <1>2, <2>1, FlagIsBit DEF bth_set_pad
<1>4. /\ f \in Unsigned(8) /\ Cut(f, 16, 4) = x % 4
      /\ Cut(f, 128, 2) = Cut(w, 128, 2) /\ Cut(f, 64, 2) = Cut(w, 64, 2)
      /\ Cut(f, 1, 16) = Cut(w, 1, 16)
  <2>. HIDE DEF w
  <2>. QED
    BY <1>1, <1>2, PasteBits4
<1>5. /\ u \in FieldValues /\ u.pad = x % 4 /\ SameQpn(u, v) /\ SamePsn(u, v) /\ SameWords(u, v)
      /\ u.se = v.se /\ u.mig = v.mig /\ u.tver = v.tver
  BY <1>1, <1>2 DEF FieldValues, SameQpn, SamePsn, SameWords
<1>6. FlagsAgree(f, u)
  <2>. HIDE DEF w, f, u
  <2>. QED
    BY <1>1, <1>4, <1>5 DEF FlagsAgree
<1>7. Agrees([b EXCEPT !.flags = f], u)
  <2>. HIDE DEF w, f, u
  <2>. QED
    BY <1>4, <1>5, <1>6, SetFlagsWord
<1>. QED
  BY <1>3, <1>7

\* bth_set_tver changes its field only.
LEMMA SetTverAgrees ==
    ASSUME NEW b, NEW v, Agrees(b, v), NEW x \in Nat
    PROVE  Agrees(bth_set_tver(b, x), [v EXCEPT !.tver = x % 16])
<1>. DEFINE w == b.flags
            f == Paste(w, 1, 16, x % 16)
            u == [v EXCEPT !.tver = x % 16]
<1>1. w \in Unsigned(8) /\ w \in Nat /\ v \in FieldValues /\ FlagsAgree(w, v)
  BY Words, UnsignedNat DEF Agrees
<1>2. x % 16 \in Nat /\ x % 16 < 16 /\ x % 16 = x % 16
  OBVIOUS
<1>3. bth_set_tver(b, x) = [b EXCEPT !.flags = f]
  <2>1. Put(TVER, w, x) = Paste(w, 1, 16, x % 16)
    <3>1. w \in Nat
      BY <1>1
    <3>. HIDE DEF w
    <3>. QED
      BY ZenonT(30), <3>1, FlagPuts
  <2>. QED
    BY <1>2, <2>1, FlagIsBit DEF bth_set_tver
<1>4. /\ f \in Unsigned(8) /\ Cut(f, 1, 16) = x % 16
      /\ Cut(f, 128, 2) = Cut(w, 128, 2) /\ Cut(f, 64, 2) = Cut(w, 64, 2)
      /\ Cut(f, 16, 4) = Cut(w, 16, 4)
  <2>. HIDE DEF w
  <2>. QED
    BY <1>1, <1>2, PasteBits0
<1>5. /\ u \in FieldValues /\ u.tver = x % 16 /\ SameQpn(u, v) /\ SamePsn(u, v) /\ SameWords(u, v)
      /\ u.se = v.se /\ u.mig = v.mig /\ u.pad = v.pad
  BY <1>1, <1>2 DEF FieldValues, SameQpn, SamePsn, SameWords
<1>6. FlagsAgree(f, u)
  <2>. HIDE DEF w, f, u
  <2>. QED
    BY <1>1, <1>4, <1>5 DEF FlagsAgree
<1>7. Agrees([b EXCEPT !.flags = f], u)
  <2>. HIDE DEF w, f, u
  <2>. QED
    BY <1>4, <1>5, <1>6, SetFlagsWord
<1>. QED
  BY <1>3, <1>7


\* The setters of the qpn word.
LEMMA SetQpnAgrees ==
    ASSUME NEW b, NEW v, Agrees(b, v), NEW x \in Nat
    PROVE  Agrees(bth_set_qpn(b, x), [v EXCEPT !.qpn = x % 2^24])
<1>. DEFINE q == [top |-> b.qpn.top, low |-> x % 2^24]
            u == [v EXCEPT !.qpn = x % 2^24]
<1>1. /\ b.qpn.top \in Unsigned(8) /\ b \in rxe_bth /\ b.qpn \in Word32
      /\ v \in FieldValues /\ QpnAgrees(b.qpn, v)
  BY Words DEF Agrees
<1>2. x % 2^24 \in Unsigned(24) /\ x % 2^24 \in Nat
  BY DEF Unsigned
<1>3. bth_set_qpn(b, x) = [b EXCEPT !.qpn = q]
  BY <1>1 DEF bth_set_qpn, rxe_bth, Word32
<1>4. /\ u \in FieldValues /\ u.qpn = x % 2^24 /\ SameFlags(u, v) /\ SamePsn(u, v)
      /\ SameWords(u, v)
      /\ u.fecn = v.fecn /\ u.becn = v.becn /\ u.resv6a = v.resv6a
  BY <1>1, <1>2 DEF FieldValues, SameFlags, SamePsn, SameWords
<1>5. q \in Word32 /\ QpnAgrees(q, u)
  <2>1. q \in Word32 /\ q.top = b.qpn.top /\ q.low = x % 2^24
    BY <1>1, <1>2 DEF Word32
  <2>. HIDE DEF u, q
  <2>. QED
    BY <1>1, <1>4, <2>1 DEF QpnAgrees
<1>6. Agrees([b EXCEPT !.qpn = q], u)
  <2>. HIDE DEF q, u
  <2>. QED
    BY <1>4, <1>5, SetQpnWord
<1>. QED
  BY <1>3, <1>6

\* bth_set_fecn changes its field only.
LEMMA SetFecnAgrees ==
    ASSUME NEW b, NEW v, Agrees(b, v), NEW x \in Nat
    PROVE  Agrees(bth_set_fecn(b, x), [v EXCEPT !.fecn = Bit(x)])
<1>. DEFINE w == b.qpn.top
            f == Paste(w, 128, 2, Bit(x))
            q == [top |-> f, low |-> b.qpn.low]
            u == [v EXCEPT !.fecn = Bit(x)]
<1>1. /\ w \in Unsigned(8) /\ w \in Nat /\ b.qpn.low \in Unsigned(24)
      /\ b \in rxe_bth /\ b.qpn \in Word32 /\ v \in FieldValues /\ QpnAgrees(b.qpn, v)
  BY Words, UnsignedNat DEF Agrees
<1>2. Bit(x) \in Nat /\ Bit(x) < 2 /\ Bit(x) % 2 = Bit(x)
  BY BitWidth
<1>3. bth_set_fecn(b, x) = [b EXCEPT !.qpn = q]
  <2>1. Put(FECN, w, Bit(x)) = Paste(w, 128, 2, Bit(x) % 2)
    <3>. HIDE DEF w
    <3>. QED
      BY <1>1, BitWidth, TopPuts
  <2>2. PutFlag(FECN, w, x) = f
    BY <1>2, <2>1, FlagIsBit
  <2>. QED
    BY <1>1, <2>2 DEF bth_set_fecn, rxe_bth, Word32
<1>4. /\ f \in Unsigned(8) /\ Cut(f, 128, 2) = Bit(x)
      /\ Cut(f, 64, 2) = Cut(w, 64, 2) /\ Cut(f, 1, 64) = Cut(w, 1, 64)
  <2>. HIDE DEF w
  <2>. QED
    BY <1>1, <1>2, PasteBit7
<1>5. /\ u \in FieldValues /\ u.fecn = Bit(x) /\ SameFlags(u, v) /\ SamePsn(u, v)
      /\ SameWords(u, v)
      /\ u.qpn = v.qpn /\ u.becn = v.becn /\ u.resv6a = v.resv6a
  BY <1>1, <1>2 DEF FieldValues, SameFlags, SamePsn, SameWords
<1>6. q \in Word32 /\ QpnAgrees(q, u)
  <2>1. q \in Word32 /\ q.top = f /\ q.low = b.qpn.low
    BY <1>1, <1>4 DEF Word32
  <2>. HIDE DEF f, u, q
  <2>. QED
    BY <1>1, <1>4, <1>5, <2>1 DEF QpnAgrees
<1>7. Agrees([b EXCEPT !.qpn = q], u)
  <2>. HIDE DEF q, u
  <2>. QED
    BY <1>5, <1>6, SetQpnWord
<1>. QED
  BY <1>3, <1>7

\* bth_set_becn changes its field only.
LEMMA SetBecnAgrees ==
    ASSUME NEW b, NEW v, Agrees(b, v), NEW x \in Nat
    PROVE  Agrees(bth_set_becn(b, x), [v EXCEPT !.becn = Bit(x)])
<1>. DEFINE w == b.qpn.top
            f == Paste(w, 64, 2, Bit(x))
            q == [top |-> f, low |-> b.qpn.low]
            u == [v EXCEPT !.becn = Bit(x)]
<1>1. /\ w \in Unsigned(8) /\ w \in Nat /\ b.qpn.low \in Unsigned(24)
      /\ b \in rxe_bth /\ b.qpn \in Word32 /\ v \in FieldValues /\ QpnAgrees(b.qpn, v)
  BY Words, UnsignedNat DEF Agrees
<1>2. Bit(x) \in Nat /\ Bit(x) < 2 /\ Bit(x) % 2 = Bit(x)
  BY BitWidth
<1>3. bth_set_becn(b, x) = [b EXCEPT !.qpn = q]
  <2>1. Put(BECN, w, Bit(x)) = Paste(w, 64, 2, Bit(x) % 2)
    <3>. HIDE DEF w
    <3>. QED
      BY <1>1, BitWidth, TopPuts
  <2>2. PutFlag(BECN, w, x) = f
    BY <1>2, <2>1, FlagIsBit
  <2>. QED
    BY <1>1, <2>2 DEF bth_set_becn, rxe_bth, Word32
<1>4. /\ f \in Unsigned(8) /\ Cut(f, 64, 2) = Bit(x)
      /\ Cut(f, 128, 2) = Cut(w, 128, 2) /\ Cut(f, 1, 64) = Cut(w, 1, 64)
  <2>. HIDE DEF w
  <2>. QED
    BY <1>1, <1>2, PasteBit6
<1>5. /\ u \in FieldValues /\ u.becn = Bit(x) /\ SameFlags(u, v) /\ SamePsn(u, v)
      /\ SameWords(u, v)
      /\ u.qpn = v.qpn /\ u.fecn = v.fecn /\ u.resv6a = v.resv6a
  BY <1>1, <1>2 DEF FieldValues, SameFlags, SamePsn, SameWords
<1>6. q \in Word32 /\ QpnAgrees(q, u)
  <2>1. q \in Word32 /\ q.top = f /\ q.low = b.qpn.low
    BY <1>1, <1>4 DEF Word32
  <2>. HIDE DEF f, u, q
  <2>. QED
    BY <1>1, <1>4, <1>5, <2>1 DEF QpnAgrees
<1>7. Agrees([b EXCEPT !.qpn = q], u)
  <2>. HIDE DEF q, u
  <2>. QED
    BY <1>5, <1>6, SetQpnWord
<1>. QED
  BY <1>3, <1>7

\* The setters of the apsn word.
LEMMA SetPsnAgrees ==
    ASSUME NEW b, NEW v, Agrees(b, v), NEW x \in Nat
    PROVE  Agrees(bth_set_psn(b, x), [v EXCEPT !.psn = x % 2^24])
<1>. DEFINE q == [top |-> b.apsn.top, low |-> x % 2^24]
            u == [v EXCEPT !.psn = x % 2^24]
<1>1. /\ b.apsn.top \in Unsigned(8) /\ b \in rxe_bth /\ b.apsn \in Word32
      /\ v \in FieldValues /\ PsnAgrees(b.apsn, v)
  BY Words DEF Agrees
<1>2. x % 2^24 \in Unsigned(24) /\ x % 2^24 \in Nat
  BY DEF Unsigned
<1>3. bth_set_psn(b, x) = [b EXCEPT !.apsn = q]
  BY <1>1 DEF bth_set_psn, rxe_bth, Word32
<1>4. /\ u \in FieldValues /\ u.psn = x % 2^24 /\ SameFlags(u, v) /\ SameQpn(u, v)
      /\ SameWords(u, v)
      /\ u.ack = v.ack
  BY <1>1, <1>2 DEF FieldValues, SameFlags, SameQpn, SameWords
<1>5. q \in Word32 /\ PsnAgrees(q, u)
  <2>1. q \in Word32 /\ q.top = b.apsn.top /\ q.low = x % 2^24
    BY <1>1, <1>2 DEF Word32
  <2>. HIDE DEF u, q
  <2>. QED
    BY <1>1, <1>4, <2>1 DEF PsnAgrees
<1>6. Agrees([b EXCEPT !.apsn = q], u)
  <2>. HIDE DEF q, u
  <2>. QED
    BY <1>4, <1>5, SetPsnWord
<1>. QED
  BY <1>3, <1>6

\* bth_set_ack changes its field only.
LEMMA SetAckAgrees ==
    ASSUME NEW b, NEW v, Agrees(b, v), NEW x \in Nat
    PROVE  Agrees(bth_set_ack(b, x), [v EXCEPT !.ack = Bit(x)])
<1>. DEFINE w == b.apsn.top
            f == Paste(w, 128, 2, Bit(x))
            q == [top |-> f, low |-> b.apsn.low]
            u == [v EXCEPT !.ack = Bit(x)]
<1>1. /\ w \in Unsigned(8) /\ w \in Nat /\ b.apsn.low \in Unsigned(24)
      /\ b \in rxe_bth /\ b.apsn \in Word32 /\ v \in FieldValues /\ PsnAgrees(b.apsn, v)
  BY Words, UnsignedNat DEF Agrees
<1>2. Bit(x) \in Nat /\ Bit(x) < 2 /\ Bit(x) % 2 = Bit(x)
  BY BitWidth
<1>3. bth_set_ack(b, x) = [b EXCEPT !.apsn = q]
  <2>1. Put(ACK, w, Bit(x)) = Paste(w, 128, 2, Bit(x) % 2)
    <3>1. w \in Nat /\ Bit(x) \in Nat
      BY <1>1, <1>2
    <3>. HIDE DEF w
    <3>. QED
      BY <3>1, TopPuts
  <2>2. PutFlag(ACK, w, x) = f
    BY <1>2, <2>1, FlagIsBit
  <2>. QED
    BY <1>1, <2>2 DEF bth_set_ack, rxe_bth, Word32
<1>4. /\ f \in Unsigned(8) /\ Cut(f, 128, 2) = Bit(x)
  <2>. HIDE DEF w
  <2>. QED
    BY <1>1, <1>2, PasteBit7
<1>5. /\ u \in FieldValues /\ u.ack = Bit(x) /\ SameFlags(u, v) /\ SameQpn(u, v)
      /\ SameWords(u, v)
      /\ u.psn = v.psn
  BY <1>1, <1>2 DEF FieldValues, SameFlags, SameQpn, SameWords
<1>6. q \in Word32 /\ PsnAgrees(q, u)
  <2>1. q \in Word32 /\ q.top = f /\ q.low = b.apsn.low
    BY <1>1, <1>4 DEF Word32
  <2>. HIDE DEF f, u, q
  <2>. QED
    BY <1>1, <1>4, <1>5, <2>1 DEF PsnAgrees
<1>7. Agrees([b EXCEPT !.apsn = q], u)
  <2>. HIDE DEF q, u
  <2>. QED
    BY <1>5, <1>6, SetPsnWord
<1>. QED
  BY <1>3, <1>7

\* bth_set_resv7 changes its field only.
LEMMA SetResv7Agrees ==
    ASSUME NEW b, NEW v, Agrees(b, v)
    PROVE  Agrees(bth_set_resv7(b), v)
<1>. DEFINE w == b.apsn.top
            f == Paste(w, 1, 128, 0)
            q == [top |-> f, low |-> b.apsn.low]
<1>1. /\ w \in Unsigned(8) /\ w \in Nat /\ b.apsn.low \in Unsigned(24)
      /\ b \in rxe_bth /\ b.apsn \in Word32 /\ v \in FieldValues /\ PsnAgrees(b.apsn, v)
  BY Words, UnsignedNat DEF Agrees
<1>2. bth_set_resv7(b) = [b EXCEPT !.apsn = q]
  <2>1. Put(RESV7, w, 0) = f
    BY <1>1, TopPuts
  <2>. QED
    BY <1>1, <2>1 DEF bth_set_resv7, rxe_bth, Word32
<1>3. f \in Unsigned(8) /\ Cut(f, 128, 2) = Cut(w, 128, 2)
  <2>. HIDE DEF w
  <2>. QED
    BY <1>1, PasteLow7
<1>4. q \in Word32 /\ PsnAgrees(q, v)
  BY <1>1, <1>3 DEF Word32, PsnAgrees
<1>5. Agrees([b EXCEPT !.apsn = q], v)
  <2>. HIDE DEF q
  <2>. QED
    BY <1>1, <1>4, SetPsnWord DEF SameFlags, SameQpn, SameWords
<1>. QED
  BY <1>2, <1>5

\* The setter that is not confined to its field has the effect the module says.
LEMMA SetResv6aAgrees ==
    ASSUME NEW b, NEW v, Agrees(b, v)
    PROVE  Agrees(bth_set_resv6a(b),
                  [v EXCEPT !.resv6a = 0, !.fecn = 1, !.becn = 1, !.qpn = 2^24 - 1])
<1>. DEFINE q == [top |-> 192, low |-> 2^24 - 1]
            u == [v EXCEPT !.resv6a = 0, !.fecn = 1, !.becn = 1, !.qpn = 2^24 - 1]
<1>1. b \in rxe_bth /\ v \in FieldValues
  BY DEF Agrees
<1>2. bth_set_resv6a(b) = [b EXCEPT !.qpn = q]
  BY DEF bth_set_resv6a
<1>3. 192 \in Unsigned(8) /\ 2^24 - 1 \in Unsigned(24) /\ 2^24 - 1 \in Nat
  BY DEF Unsigned
<1>4. Cut(192, 128, 2) = 1 /\ Cut(192, 64, 2) = 1 /\ Cut(192, 1, 64) = 0
  BY DEF Cut
<1>5. /\ u \in FieldValues /\ u.resv6a = 0 /\ u.fecn = 1 /\ u.becn = 1 /\ u.qpn = 2^24 - 1
      /\ SameFlags(u, v) /\ SamePsn(u, v) /\ SameWords(u, v)
  BY Zenon, <1>1, <1>3 DEF FieldValues, SameFlags, SamePsn, SameWords
<1>6. q \in Word32 /\ QpnAgrees(q, u)
  <2>1. q \in Word32 /\ q.top = 192 /\ q.low = 2^24 - 1
    BY <1>3 DEF Word32
  <2>. HIDE DEF u, q
  <2>. QED
    BY <1>4, <1>5, <2>1 DEF QpnAgrees
<1>7. Agrees([b EXCEPT !.qpn = q], u)
  <2>. HIDE DEF q, u
  <2>. QED
    BY <1>5, <1>6, SetQpnWord
<1>. QED
  BY <1>2, <1>7

\* The setters of whole words.
LEMMA SetWordAgrees ==
    ASSUME NEW b, NEW v, Agrees(b, v)
    PROVE  /\ \A x \in Unsigned(8) : Agrees(bth_set_opcode(b, x), [v EXCEPT !.opcode = x])
           /\ \A x \in Unsigned(16) : Agrees(bth_set_pkey(b, x), [v EXCEPT !.pkey = x])
<1>1. b \in rxe_bth /\ v \in FieldValues
  BY DEF Agrees
<1>2. ASSUME NEW x \in Unsigned(8)
      PROVE  Agrees([b EXCEPT !.opcode = x], [v EXCEPT !.opcode = x])
  <2>. DEFINE c == [b EXCEPT !.opcode = x]
              u == [v EXCEPT !.opcode = x]
  <2>1. c \in rxe_bth /\ c.opcode = x /\ c.pkey = b.pkey /\ c.flags = b.flags
        /\ c.qpn = b.qpn /\ c.apsn = b.apsn
    BY <1>1 DEF rxe_bth
  <2>2. /\ u \in FieldValues /\ u.opcode = x /\ u.pkey = v.pkey
        /\ SameFlags(u, v) /\ SameQpn(u, v) /\ SamePsn(u, v)
    BY <1>1, UnsignedNat DEF FieldValues, SameFlags, SameQpn, SamePsn
  <2>. HIDE DEF c, u
  <2>3. Agrees(c, u)
    BY <2>1, <2>2 DEF Agrees, SameFlags, SameQpn, SamePsn, FlagsAgree, QpnAgrees, PsnAgrees
  <2>. QED
    BY <2>3 DEF c, u
<1>3. ASSUME NEW x \in Unsigned(16)
      PROVE  Agrees([b EXCEPT !.pkey = x], [v EXCEPT !.pkey = x])
  <2>. DEFINE c == [b EXCEPT !.pkey = x]
              u == [v EXCEPT !.pkey = x]
  <2>1. c \in rxe_bth /\ c.pkey = x /\ c.opcode = b.opcode /\ c.flags = b.flags
        /\ c.qpn = b.qpn /\ c.apsn = b.apsn
    BY <1>1 DEF rxe_bth
  <2>2. /\ u \in FieldValues /\ u.pkey = x /\ u.opcode = v.opcode
        /\ SameFlags(u, v) /\ SameQpn(u, v) /\ SamePsn(u, v)
    BY <1>1, UnsignedNat DEF FieldValues, SameFlags, SameQpn, SamePsn
  <2>. HIDE DEF c, u
  <2>3. Agrees(c, u)
    BY <2>1, <2>2 DEF Agrees, SameFlags, SameQpn, SamePsn, FlagsAgree, QpnAgrees, PsnAgrees
  <2>. QED
    BY <2>3 DEF c, u
<1>. QED
  BY <1>2, <1>3 DEF bth_set_opcode, bth_set_pkey

\* bth_init sets every field there is, and leaves nothing of the header it is
\* given: the memory of a recycled packet buffer cannot show.
LEMMA InitAgrees ==
    ASSUME NEW b, NEW op \in Unsigned(8), NEW k \in Unsigned(16), NEW se, NEW mig, NEW ack,
           NEW pad \in Nat, NEW qn \in Nat, NEW n \in Nat
    PROVE  Agrees(bth_init(b, op, se, mig, pad, k, qn, ack, n),
                  [opcode |-> op, se |-> Bit(se), mig |-> Bit(mig),
                   pad |-> pad % 4, tver |-> 0, pkey |-> k, qpn |-> qn % 2^24,
                   fecn |-> 0, becn |-> 0, resv6a |-> 0, ack |-> Bit(ack),
                   psn |-> n % 2^24])
<1>. DEFINE f1 == Paste(0, 16, 4, pad % 4)
            f2 == Paste(f1, 128, 2, Bit(se))
            f3 == Paste(f2, 64, 2, Bit(mig))
            a3 == Paste(0, 128, 2, Bit(ack))
            q == [top |-> 0, low |-> qn % 2^24]
            a == [top |-> a3, low |-> n % 2^24]
            c == [opcode |-> op, flags |-> f3, pkey |-> k, qpn |-> q, apsn |-> a]
            u == [opcode |-> op, se |-> Bit(se), mig |-> Bit(mig),
                  pad |-> pad % 4, tver |-> 0, pkey |-> k, qpn |-> qn % 2^24,
                  fecn |-> 0, becn |-> 0, resv6a |-> 0, ack |-> Bit(ack),
                  psn |-> n % 2^24]
<1>1. /\ 0 \in Unsigned(8) /\ 0 \in Nat /\ pad % 4 \in Nat /\ pad % 4 < 4
      /\ qn % 2^24 \in Unsigned(24) /\ qn % 2^24 \in Nat
      /\ n % 2^24 \in Unsigned(24) /\ n % 2^24 \in Nat /\ op \in Nat /\ k \in Nat
  BY DEF Unsigned
<1>2. /\ Cut(0, 128, 2) = 0 /\ Cut(0, 64, 2) = 0 /\ Cut(0, 16, 4) = 0
      /\ Cut(0, 1, 16) = 0 /\ Cut(0, 1, 64) = 0
  BY DEF Cut
<1>3. /\ f1 \in Unsigned(8) /\ f1 \in Nat /\ Cut(f1, 16, 4) = pad % 4 /\ Cut(f1, 1, 16) = 0
      /\ Put(PAD, 0, pad) = f1
  <2>1. Put(PAD, 0, pad) = f1
    <3>1. 2^4 = 16 /\ 2^2 = 4
      OBVIOUS
    <3>. QED
      BY <1>1, <3>1 DEF Put, Get, PAD, Paste, Cut
  <2>2. f1 \in Unsigned(8) /\ Cut(f1, 16, 4) = pad % 4 /\ Cut(f1, 1, 16) = 0
    BY <1>1, <1>2, PasteBits4
  <2>. HIDE DEF f1
  <2>. QED
    BY <2>1, <2>2, UnsignedNat
<1>4. /\ f2 \in Unsigned(8) /\ f2 \in Nat /\ Cut(f2, 128, 2) = Bit(se)
      /\ Cut(f2, 16, 4) = pad % 4 /\ Cut(f2, 1, 16) = 0
      /\ PutFlag(SE, f1, se) = f2
  <2>. HIDE DEF f1
  <2>1. Put(SE, f1, Bit(se)) = f2
    BY <1>3, BitWidth, FlagPuts
  <2>2. /\ f2 \in Unsigned(8) /\ Cut(f2, 128, 2) = Bit(se)
        /\ Cut(f2, 16, 4) = pad % 4 /\ Cut(f2, 1, 16) = 0
    BY <1>3, BitWidth, PasteBit7
  <2>. HIDE DEF f2
  <2>. QED
    BY <2>1, <2>2, FlagIsBit, UnsignedNat
<1>5. /\ f3 \in Unsigned(8) /\ Cut(f3, 128, 2) = Bit(se) /\ Cut(f3, 64, 2) = Bit(mig)
      /\ Cut(f3, 16, 4) = pad % 4 /\ Cut(f3, 1, 16) = 0
      /\ PutFlag(MIG, f2, mig) = f3
  <2>. HIDE DEF f2
  <2>1. Put(MIG, f2, Bit(mig)) = f3
    BY <1>4, BitWidth, FlagPuts
  <2>. QED
    BY <1>4, <2>1, BitWidth, PasteBit6, FlagIsBit
<1>6. a3 \in Unsigned(8) /\ Cut(a3, 128, 2) = Bit(ack) /\ PutFlag(ACK, 0, ack) = a3
  <2>1. Put(ACK, 0, Bit(ack)) = a3
    BY <1>1, BitWidth, TopPuts
  <2>. QED
    BY <1>1, <2>1, BitWidth, PasteBit7, FlagIsBit
<1>7. bth_init(b, op, se, mig, pad, k, qn, ack, n) = c
  <2>1. Put(PAD, 0, pad) = f1
    BY <1>3
  <2>. HIDE DEF f1, f2, f3, a3
  <2>. QED
    BY <1>4, <1>5, <1>6, <2>1 DEF bth_init
<1>8. /\ q \in Word32 /\ a \in Word32
      /\ q.top = 0 /\ q.low = qn % 2^24 /\ a.top = a3 /\ a.low = n % 2^24
  BY <1>1, <1>6 DEF Word32
<1>9. /\ c \in rxe_bth /\ c.opcode = op /\ c.flags = f3 /\ c.pkey = k /\ c.qpn = q /\ c.apsn = a
  <2>. HIDE DEF f3, q, a
  <2>. QED
    BY <1>5, <1>8 DEF rxe_bth
<1>10. u \in FieldValues
  BY <1>1, BitWidth DEF FieldValues
<1>11. FlagsAgree(f3, u) /\ QpnAgrees(q, u) /\ PsnAgrees(a, u)
  <2>1. FlagsAgree(f3, u)
    <3>. HIDE DEF f3
    <3>. QED
      BY <1>5 DEF FlagsAgree
  <2>2. QpnAgrees(q, u)
    BY <1>2, <1>8 DEF QpnAgrees
  <2>3. PsnAgrees(a, u)
    <3>. HIDE DEF a3
    <3>. QED
      BY <1>6, <1>8 DEF PsnAgrees
  <2>. QED
    BY <2>1, <2>2, <2>3
<1>12. u.opcode = op /\ u.pkey = k
  OBVIOUS
<1>13. Agrees(c, u)
  <2>. HIDE DEF c, u, q, a, f3
  <2>. QED
    BY <1>9, <1>10, <1>11, <1>12 DEF Agrees
<1>. QED
  BY <1>7, <1>13

\* Every sequence of setters, from whatever the memory held.
LEMMA SettersAgree ==
    ASSUME SetterArguments
    PROVE  SettersSpec => []Agrees(bth, val)
<1>1. SettersInit => Agrees(bth, val)
  BY AgreesFields DEF SettersInit, SetterArguments
<1>2. ASSUME Agrees(bth, val), SettersNext PROVE Agrees(bth, val)'
  <2>1. CASE SetOpcode \/ SetPkey
    BY <1>2, <2>1, SetWordAgrees DEF SetOpcode, SetPkey, SetterArguments
  <2>2. CASE SetSe
    BY <1>2, <2>2, SetSeAgrees DEF SetSe, SetterArguments
  <2>3. CASE SetMig
    BY <1>2, <2>3, SetMigAgrees DEF SetMig, SetterArguments
  <2>4. CASE SetPad
    BY <1>2, <2>4, SetPadAgrees DEF SetPad, SetterArguments
  <2>5. CASE SetTver
    BY <1>2, <2>5, SetTverAgrees DEF SetTver, SetterArguments
  <2>6. CASE SetQpn
    BY <1>2, <2>6, SetQpnAgrees DEF SetQpn, SetterArguments
  <2>7. CASE SetFecn
    BY <1>2, <2>7, SetFecnAgrees DEF SetFecn, SetterArguments
  <2>8. CASE SetBecn
    BY <1>2, <2>8, SetBecnAgrees DEF SetBecn, SetterArguments
  <2>9. CASE SetAck
    BY <1>2, <2>9, SetAckAgrees DEF SetAck, SetterArguments
  <2>10. CASE SetPsn
    BY <1>2, <2>10, SetPsnAgrees DEF SetPsn, SetterArguments
  <2>11. CASE SetResv7
    BY <1>2, <2>11, SetResv7Agrees DEF SetResv7
  <2>12. CASE SetResv6a
    BY Zenon, <1>2, <2>12, SetResv6aAgrees DEF SetResv6a
  <2>13. CASE BthInit
    BY <2>13, InitAgrees DEF BthInit, SetterArguments
  <2>. QED
    BY <1>2, <2>1, <2>2, <2>3, <2>4, <2>5, <2>6, <2>7, <2>8, <2>9, <2>10, <2>11, <2>12, <2>13
       DEF SettersNext
<1>3. ASSUME Agrees(bth, val), UNCHANGED bth_vars PROVE Agrees(bth, val)'
  BY <1>3 DEF bth_vars, Agrees
<1>. QED
  BY <1>1, <1>2, <1>3, PTL DEF SettersSpec

\* No setter carries into a neighbouring field, byte or word, whatever it is
\* given, and every getter returns what was last set, cut to the field's width,
\* after any sequence of setters, on zeroed or recycled memory.
THEOREM SettersKeepApart ==
    ASSUME SetterArguments
    PROVE  SettersSpec => [](BthTypeOK /\ SettersIndependent)
<1>1. Agrees(bth, val) => BthTypeOK /\ SettersIndependent
  BY AgreesFields DEF Agrees, BthTypeOK, SettersIndependent
<1>. QED
  BY <1>1, SettersAgree, PTL

-----------------------------------------------------------------------------
(* CNPs *)

\* A packet that says it is a CNP and how long it is.
CnpBth(b) == b.opcode = 129 /\ b.pkey = 65535 /\ Cut(b.qpn.top, 64, 2) = 1
CnpIp(i) == i.ihl = 5 /\ i.tot_len = 60
IsCnp(p) == p \in Packet /\ CnpBth(p.bth) /\ CnpIp(p.ip) /\ p.udp.ulen = 40

Valid(p) == p.icrc = receiver_icrc(p)

\* The bytes in the mbuf are a CNP from the template on; they carry their own
\* ICRC while the application may send them, and so does what it has sent.
CnpInv ==
    /\ room \in Nat
    /\ cnp \in [ptype: {"unknown", "ipv4_udp"}, l3_len: Nat, l4_len: Nat,
                data: Packet \cup {None}]
    /\ cnp.data # None => IsCnp(cnp.data)
    /\ ready => cnp.data # None /\ Valid(cnp.data)
    /\ wire # None => IsCnp(wire) /\ Valid(wire)

\* The template is a CNP.
LEMMA TemplateIsCnp == IsCnp(Template)
<1>1. Zeroed \in rxe_bth /\ Zeroed.qpn.top = 0 /\ Zeroed.qpn.low = 0
  BY DEF Zeroed, rxe_bth, Word32, Unsigned
<1>. DEFINE f == Paste(0, 64, 2, 1)
<1>2. f \in Unsigned(8) /\ Cut(f, 64, 2) = 1
  BY DEF Cut, Paste, Unsigned
<1>3. PutFlag(BECN, 0, 1) = f
  BY TopPuts DEF PutFlag
<1>4. TemplateBth = [opcode |-> 129, flags |-> 0, pkey |-> 65535,
                     qpn |-> [top |-> f, low |-> 0], apsn |-> [top |-> 0, low |-> 0]]
  <2>. HIDE DEF f
  <2>. DEFINE z == [top |-> 0, low |-> 0]
  <2>1. bth_set_opcode(Zeroed, 129) =
           [opcode |-> 129, flags |-> 0, pkey |-> 0, qpn |-> z, apsn |-> z]
    BY DEF Zeroed, bth_set_opcode
  <2>2. bth_set_becn(bth_set_opcode(Zeroed, 129), 1)
          = [opcode |-> 129, flags |-> 0, pkey |-> 0, qpn |-> [top |-> f, low |-> 0], apsn |-> z]
    BY <1>3, <2>1 DEF bth_set_becn
  <2>. QED
    BY <2>2 DEF TemplateBth, bth_set_pkey
<1>5. TemplateBth \in rxe_bth
  <2>1. /\ 0 \in Unsigned(8) /\ 129 \in Unsigned(8) /\ 65535 \in Unsigned(16)
        /\ 0 \in Unsigned(24)
    BY DEF Unsigned
  <2>. HIDE DEF f
  <2>. QED
    BY <1>2, <1>4, <2>1 DEF rxe_bth, Word32
<1>6. /\ TemplateBth.opcode = 129 /\ TemplateBth.pkey = 65535
      /\ Cut(TemplateBth.qpn.top, 64, 2) = 1
  <2>. HIDE DEF f
  <2>. QED
    BY <1>2, <1>4
<1>7. /\ IpLength \div 4 = 5 /\ TemplateLength = 60 /\ UdpLength + CTCM_CNP_TOTAL_LENGTH = 40
  BY DEF IpLength, TemplateLength, UdpLength, CTCM_CNP_TOTAL_LENGTH, CTCM_BTH_LENGTH,
         CTCM_CNP_LENGTH, CTCM_ICRC_LENGTH
<1>. DEFINE i == [version |-> 4, ihl |-> 5, ttl |-> 255, protocol |-> 17, frag_off |-> 16384,
                  tos |-> 194, tot_len |-> 60, check |-> 0, saddr |-> 0, daddr |-> 0]
            d == [sport |-> 61440, dport |-> 4791, ulen |-> 40, check |-> 0]
<1>8. Template = [ip |-> i, udp |-> d, bth |-> TemplateBth, icrc |-> None]
  BY <1>7 DEF Template
<1>9. i \in IpHdr /\ i.ihl = 5 /\ i.tot_len = 60 /\ d \in UdpHdr /\ d.ulen = 40
  BY DEF IpHdr, UdpHdr
<1>. HIDE DEF i, d
<1>10. /\ Template \in Packet /\ Template.ip = i /\ Template.udp = d
       /\ Template.bth = TemplateBth
  BY <1>5, <1>8, <1>9 DEF Packet
<1>. QED
  BY <1>6, <1>9, <1>10 DEF IsCnp, CnpBth, CnpIp

\* The bytes of the ICRC, by header.
SetIp(i, ttl, tos, ch) == [i EXCEPT !.ttl = ttl, !.tos = tos, !.check = ch]
PseudoIp(i) == SetIp(i, 255, 255, 65535)
SetUdp(u, ch) == [u EXCEPT !.check = ch]
PseudoUdp(u) == SetUdp(u, 65535)
PseudoBth(b) == [b EXCEPT !.qpn.top = 255]
Pseudo(i, u, b) == [ip |-> PseudoIp(i), udp |-> PseudoUdp(u), bth |-> PseudoBth(b)]

\* The congestion bits and the QPN can be written without harm to the rest.
SetQpnOk(b, x) ==
    LET c == bth_set_qpn(b, x) IN c \in rxe_bth /\ (CnpBth(b) => CnpBth(c))
SetFecnOk(b, x) ==
    LET c == bth_set_fecn(b, x)
    IN  c \in rxe_bth /\ (CnpBth(b) => CnpBth(c)) /\ PseudoBth(c) = PseudoBth(b)

\* bth_set_qpn and bth_set_fecn keep the BTH of a CNP.
LEMMA BthForCnp ==
    ASSUME NEW b \in rxe_bth
    PROVE  (\A x \in Nat : SetQpnOk(b, x)) /\ (\A x \in {0, 1} : SetFecnOk(b, x))
<1>. DEFINE w == b.qpn.top
<1>1. w \in Unsigned(8) /\ w \in Nat
  BY Words, UnsignedNat
<1>2. ASSUME NEW x \in Nat PROVE SetQpnOk(b, x)
  <2>. DEFINE c == bth_set_qpn(b, x)
  <2>1. x % 2^24 \in Unsigned(24)
    BY DEF Unsigned
  <2>2. /\ c \in rxe_bth /\ c.opcode = b.opcode /\ c.pkey = b.pkey
        /\ c.qpn.top = b.qpn.top
    BY <2>1 DEF bth_set_qpn, rxe_bth, Word32
  <2>. HIDE DEF c
  <2>3. CnpBth(b) => CnpBth(c)
    BY <2>2 DEF CnpBth
  <2>. QED
    BY <2>2, <2>3 DEF SetQpnOk, c
<1>3. ASSUME NEW x \in {0, 1} PROVE SetFecnOk(b, x)
  <2>. DEFINE f == Paste(w, 128, 2, x)
  <2>1. x \in Nat /\ x < 2 /\ x % 2 = x /\ (IF x # 0 THEN 1 ELSE 0) = x
    OBVIOUS
  <2>2. PutFlag(FECN, w, x) = f
    BY <1>1, <2>1, TopPuts DEF PutFlag
  <2>3. f \in Unsigned(8) /\ Cut(f, 64, 2) = Cut(w, 64, 2)
    <3>. HIDE DEF w
    <3>1. \A a \in Nat : a < 2 => /\ Paste(w, 128, 2, a) \in Unsigned(8)
                                 /\ Cut(Paste(w, 128, 2, a), 64, 2) = Cut(w, 64, 2)
      BY <1>1, PasteBit7
    <3>. QED
      BY <2>1, <3>1
  <2>. DEFINE q == [top |-> f, low |-> b.qpn.low]
              c == [opcode |-> b.opcode, flags |-> b.flags, pkey |-> b.pkey, qpn |-> q,
                    apsn |-> b.apsn]
  <2>. HIDE DEF f
  <2>4. bth_set_fecn(b, x) = c
    BY <2>2 DEF bth_set_fecn, rxe_bth, Word32
  <2>5. c \in rxe_bth
    BY <2>3 DEF rxe_bth, Word32
  <2>6. PseudoBth(c) = PseudoBth(b)
    BY DEF rxe_bth, Word32, PseudoBth
  <2>7. c.opcode = b.opcode /\ c.pkey = b.pkey /\ c.qpn.top = f
    OBVIOUS
  <2>. HIDE DEF c
  <2>8. CnpBth(b) => CnpBth(c)
    BY <2>3, <2>7 DEF CnpBth
  <2>. QED
    BY <2>4, <2>5, <2>6, <2>8 DEF SetFecnOk
<1>. QED
  BY <1>2, <1>3

\* The parts of a packet.
LEMMA PacketParts ==
    ASSUME NEW p \in Packet
    PROVE  /\ p.ip \in IpHdr /\ p.udp \in UdpHdr /\ p.bth \in rxe_bth
           /\ p.icrc \in IcrcBytes \cup {None}
BY DEF Packet

\* A CNP from its headers.
LEMMA Rebuilt ==
    ASSUME NEW i \in IpHdr, CnpIp(i), NEW u \in UdpHdr, u.ulen = 40,
           NEW b \in rxe_bth, CnpBth(b), NEW x \in IcrcBytes \cup {None}
    PROVE  IsCnp([ip |-> i, udp |-> u, bth |-> b, icrc |-> x])
<1>. DEFINE r == [ip |-> i, udp |-> u, bth |-> b, icrc |-> x]
<1>1. r \in Packet /\ r.ip = i /\ r.udp = u /\ r.bth = b
  BY DEF Packet
<1>. HIDE DEF r
<1>2. IsCnp(r)
  BY <1>1 DEF IsCnp
<1>. QED
  BY <1>2 DEF r

\* Changes to the IPv4 header.
LEMMA IpForCnp ==
    ASSUME NEW i \in IpHdr, NEW ttl \in Nat, NEW tos \in Nat, NEW ch \in Nat
    PROVE  /\ SetIp(i, ttl, tos, ch) \in IpHdr
           /\ \A s, d \in Addr :
                 [i EXCEPT !.saddr = s, !.daddr = d, !.ttl = ttl, !.tos = tos] \in IpHdr
BY Zenon DEF IpHdr, SetIp

\* Changes to the UDP header.
LEMMA UdpForCnp ==
    ASSUME NEW u \in UdpHdr, NEW ch \in Nat
    PROVE  /\ SetUdp(u, ch) \in UdpHdr /\ SetUdp(u, ch).ulen = u.ulen
           /\ PseudoUdp(u) \in UdpHdr /\ PseudoUdp(SetUdp(u, ch)) = PseudoUdp(u)
<1>. DEFINE c == 65535
<1>1. c \in Nat
  OBVIOUS
<1>. HIDE DEF c
<1>2. \A x \in Nat : SetUdp(u, x) \in UdpHdr
  BY Zenon DEF UdpHdr, SetUdp
<1>3. SetUdp(u, ch).ulen = u.ulen
  BY Zenon DEF UdpHdr, SetUdp
<1>4. SetUdp(SetUdp(u, ch), c) = SetUdp(u, c)
  BY Zenon DEF UdpHdr, SetUdp
<1>. QED
  BY <1>1, <1>2, <1>3, <1>4 DEF PseudoUdp, c

\* The pseudo packet that the ICRC covers, by its parts.
LEMMA PseudoPacket ==
    /\ \A p : /\ cnp_icrc_pseudo_packet(p) = Pseudo(p.ip, p.udp, p.bth)
              /\ receiver_icrc(p) = Pseudo(p.ip, p.udp, p.bth)
    /\ \A i \in IpHdr : PseudoIp(i) \in IpHdr
    /\ \A b \in rxe_bth : PseudoBth(b) \in rxe_bth
    /\ \A i \in IpHdr : \A t, u, v \in Nat :
          PseudoIp(SetIp(i, t, u, v)) = PseudoIp(i)
<1>1. ASSUME NEW p
      PROVE  /\ cnp_icrc_pseudo_packet(p) = Pseudo(p.ip, p.udp, p.bth)
             /\ receiver_icrc(p) = Pseudo(p.ip, p.udp, p.bth)
  BY DEF cnp_icrc_pseudo_packet, receiver_icrc, Pseudo, PseudoIp, PseudoUdp, PseudoBth,
         SetIp, SetUdp
<1>2. \A i \in IpHdr : PseudoIp(i) \in IpHdr
  <2>. DEFINE a == 255
              c == 65535
  <2>1. a \in Nat /\ c \in Nat
    OBVIOUS
  <2>. HIDE DEF a, c
  <2>2. \A i \in IpHdr : SetIp(i, a, a, c) \in IpHdr
    BY Zenon, <2>1, IpForCnp
  <2>. QED
    BY <2>2 DEF PseudoIp, a, c
<1>3. \A b \in rxe_bth : PseudoBth(b) \in rxe_bth
  <2>1. 255 \in Unsigned(8)
    BY DEF Unsigned
  <2>. QED
    BY <2>1 DEF rxe_bth, Word32, PseudoBth
<1>4. \A i \in IpHdr : \A t, u, v \in Nat :
         PseudoIp(SetIp(i, t, u, v)) = PseudoIp(i)
  <2>. DEFINE a == 255
              c == 65535
  <2>1. a \in Nat /\ c \in Nat
    OBVIOUS
  <2>. HIDE DEF a, c
  <2>2. ASSUME NEW i \in IpHdr, NEW t \in Nat, NEW u \in Nat, NEW v \in Nat
        PROVE  SetIp(SetIp(i, t, u, v), a, a, c) = SetIp(i, a, a, c)
    BY Zenon DEF IpHdr, SetIp
  <2>. QED
    BY <2>2 DEF PseudoIp, a, c
<1>. QED
  BY <1>1, <1>2, <1>3, <1>4, Zenon

\* ctcm_generate_cnp makes a valid CNP of any packet made from the template.
LEMMA GeneratedValid ==
    ASSUME NEW d, IsCnp(d), NEW qn \in Nat
    PROVE  LET p == [d EXCEPT !.bth = bth_set_qpn(@, qn)]
               r == [p EXCEPT !.icrc = cnp_icrc_pseudo_packet(p)]
           IN  IsCnp(r) /\ Valid(r)
<1>. DEFINE b == bth_set_qpn(d.bth, qn)
            p == [d EXCEPT !.bth = b]
            x == cnp_icrc_pseudo_packet(p)
            r == [p EXCEPT !.icrc = x]
<1>1. /\ d \in Packet /\ d.ip \in IpHdr /\ d.udp \in UdpHdr /\ CnpIp(d.ip)
      /\ d.udp.ulen = 40 /\ d.bth \in rxe_bth /\ CnpBth(d.bth)
  BY PacketParts DEF IsCnp
<1>2. b \in rxe_bth /\ CnpBth(b)
  BY <1>1, BthForCnp DEF SetQpnOk
<1>. HIDE DEF b
<1>3. p = [ip |-> d.ip, udp |-> d.udp, bth |-> b, icrc |-> d.icrc]
  BY <1>1 DEF Packet
<1>4. x = Pseudo(d.ip, d.udp, b)
  <2>. HIDE DEF p
  <2>. QED
    BY Zenon, <1>3, PseudoPacket
<1>5. x \in IcrcBytes
  <2>1. PseudoIp(d.ip) \in IpHdr /\ PseudoBth(b) \in rxe_bth
    BY <1>1, <1>2, PseudoPacket
  <2>2. PseudoUdp(d.udp) \in UdpHdr
    BY <1>1, UdpForCnp
  <2>. HIDE DEF x
  <2>. QED
    BY <1>4, <2>1, <2>2 DEF IcrcBytes, Pseudo
<1>. HIDE DEF x, p
<1>6. r = [ip |-> d.ip, udp |-> d.udp, bth |-> b, icrc |-> x]
  BY <1>3
<1>7. IsCnp(r)
  <2>. HIDE DEF r
  <2>. QED
    BY <1>1, <1>2, <1>5, <1>6, Rebuilt
<1>8. Valid(r)
  <2>. HIDE DEF r
  <2>1. r.icrc = x /\ r.ip = d.ip /\ r.udp = d.udp /\ r.bth = b
    BY <1>6
  <2>. QED
    BY <1>4, <2>1, PseudoPacket DEF Valid
<1>. QED
  BY <1>7, <1>8 DEF b, p, x, r

\* The application completes the IPv4 header.
LEMMA CompletedIsCnp ==
    ASSUME NEW d, IsCnp(d), NEW s \in Addr, NEW e \in Addr, NEW ttl \in Nat, NEW tos \in Nat
    PROVE  IsCnp([d EXCEPT !.ip = [@ EXCEPT !.saddr = s, !.daddr = e, !.ttl = ttl, !.tos = tos]])
<1>. DEFINE i == [d.ip EXCEPT !.saddr = s, !.daddr = e, !.ttl = ttl, !.tos = tos]
<1>1. /\ d \in Packet /\ d.ip \in IpHdr /\ CnpIp(d.ip) /\ d.udp \in UdpHdr /\ d.udp.ulen = 40
      /\ d.bth \in rxe_bth /\ CnpBth(d.bth) /\ d.icrc \in IcrcBytes \cup {None}
  BY PacketParts DEF IsCnp
<1>2. i \in IpHdr
  BY Zenon, <1>1, IpForCnp
<1>3. CnpIp(i)
  BY <1>1 DEF IpHdr, CnpIp
<1>. HIDE DEF i
<1>4. [d EXCEPT !.ip = i] = [ip |-> i, udp |-> d.udp, bth |-> d.bth, icrc |-> d.icrc]
  BY <1>1 DEF Packet
<1>5. IsCnp([ip |-> i, udp |-> d.udp, bth |-> d.bth, icrc |-> d.icrc])
  BY <1>1, <1>2, <1>3, Rebuilt
<1>. QED
  BY <1>4, <1>5 DEF i

\* A router changes nothing the ICRC is about.
LEMMA RoutedValid ==
    ASSUME NEW d, IsCnp(d), Valid(d), NEW ttl \in Nat, NEW tos \in Nat, NEW fecn \in {0, 1}
    PROVE  LET r == [d EXCEPT !.ip = [@ EXCEPT !.ttl = ttl, !.tos = tos, !.check = ttl],
                              !.udp = [@ EXCEPT !.check = fecn],
                              !.bth = bth_set_fecn(@, fecn)]
           IN  IsCnp(r) /\ Valid(r)
<1>. DEFINE i == SetIp(d.ip, ttl, tos, ttl)
            u == SetUdp(d.udp, fecn)
            b == bth_set_fecn(d.bth, fecn)
            r == [ip |-> i, udp |-> u, bth |-> b, icrc |-> d.icrc]
<1>1. /\ d \in Packet /\ d.ip \in IpHdr /\ CnpIp(d.ip) /\ d.udp \in UdpHdr /\ d.udp.ulen = 40
      /\ d.bth \in rxe_bth /\ CnpBth(d.bth) /\ d.icrc \in IcrcBytes \cup {None}
  BY PacketParts DEF IsCnp
<1>2. b \in rxe_bth /\ CnpBth(b) /\ PseudoBth(b) = PseudoBth(d.bth)
  BY <1>1, BthForCnp DEF SetFecnOk
<1>3. i \in IpHdr /\ PseudoIp(i) = PseudoIp(d.ip)
  <2>1. i \in IpHdr
    BY Zenon, <1>1, IpForCnp
  <2>2. \A j \in IpHdr : PseudoIp(SetIp(j, ttl, tos, ttl)) = PseudoIp(j)
    BY PseudoPacket
  <2>. QED
    BY <1>1, <2>1, <2>2
<1>4. CnpIp(i)
  BY <1>1 DEF IpHdr, CnpIp, SetIp
<1>5. u \in UdpHdr /\ u.ulen = 40 /\ PseudoUdp(u) = PseudoUdp(d.udp)
  BY <1>1, UdpForCnp
<1>. HIDE DEF i, u, b
<1>6. [d EXCEPT !.ip = i, !.udp = u, !.bth = b] = r
  <2>. DEFINE m == [d EXCEPT !.ip = i]
              n == [m EXCEPT !.udp = u]
  <2>1. m = [ip |-> i, udp |-> d.udp, bth |-> d.bth, icrc |-> d.icrc]
    BY <1>1 DEF Packet
  <2>. HIDE DEF m
  <2>2. n = [ip |-> i, udp |-> u, bth |-> d.bth, icrc |-> d.icrc]
    BY <2>1
  <2>. HIDE DEF n
  <2>3. [n EXCEPT !.bth = b] = r
    BY <2>2
  <2>. QED
    BY <2>3 DEF n, m
<1>7. IsCnp(r)
  BY <1>1, <1>2, <1>3, <1>4, <1>5, Rebuilt
<1>8. Valid(r)
  <2>1. r.icrc = d.icrc /\ r.ip = i /\ r.udp = u /\ r.bth = b
    OBVIOUS
  <2>2. Pseudo(i, u, b) = Pseudo(d.ip, d.udp, d.bth)
    BY Zenon, <1>2, <1>3, <1>5 DEF Pseudo
  <2>. HIDE DEF r
  <2>. QED
    BY Zenon, <2>1, <2>2, PseudoPacket DEF Valid
<1>. QED
  BY <1>6, <1>7, <1>8 DEF i, u, b, SetIp, SetUdp

\* Every step of the library, the application and the routers keeps the
\* packets what they are.
LEMMA CnpInductive ==
    ASSUME CnpInv, [Next]_vars
    PROVE  CnpInv'
<1>. DEFINE Mbuf == [ptype: {"unknown", "ipv4_udp"}, l3_len: Nat, l4_len: Nat,
                     data: Packet \cup {None}]
<1>. USE DEF CnpInv
<1>1. Ttl \subseteq Nat /\ Tos \subseteq Nat /\ DestQpn \subseteq Nat /\ Room \subseteq Nat
  BY CnpAssumption DEF Unsigned
<1>2. CASE ctcm_fill_cnp_template
  <2>1. IsCnp(Template) /\ Template \in Packet
    BY TemplateIsCnp DEF IsCnp
  <2>2. TemplateLength \in Nat /\ IpLength \in Nat /\ UdpLength \in Nat
    BY DEF TemplateLength, IpLength, UdpLength, CTCM_CNP_TOTAL_LENGTH, CTCM_BTH_LENGTH,
           CTCM_CNP_LENGTH, CTCM_ICRC_LENGTH
  <2>3. room' \in Nat
    BY <1>2, <2>2 DEF ctcm_fill_cnp_template
  <2>4. /\ cnp' \in Mbuf /\ (cnp'.data # None => IsCnp(cnp'.data))
        /\ ~ready /\ ready' = ready /\ wire' = wire
    <3>. HIDE DEF CnpInv
    <3>1. cnp.data = None /\ ready' = ready /\ wire' = wire
      BY <1>2 DEF ctcm_fill_cnp_template
    <3>2. ~ready
      BY <3>1 DEF CnpInv
    <3>3. \/ cnp' = [ptype |-> "ipv4_udp", l3_len |-> IpLength, l4_len |-> UdpLength,
                     data |-> Template]
          \/ cnp' = [ptype |-> "ipv4_udp", l3_len |-> IpLength, l4_len |-> UdpLength,
                     data |-> None]
      BY <1>2 DEF ctcm_fill_cnp_template
    <3>. QED
      BY <2>1, <2>2, <3>1, <3>2, <3>3
  <2>. QED
    BY <2>3, <2>4
<1>3. CASE NewMbuf
  <2>1. cnp' \in Mbuf /\ cnp'.data = None
    BY <1>3 DEF NewMbuf, EmptyMbuf
  <2>. QED
    BY <1>1, <1>3, <2>1 DEF NewMbuf
<1>4. CASE Complete
  <2>1. PICK s \in Addr, e \in Addr, ttl \in Ttl, tos \in Tos :
           cnp' = [cnp EXCEPT !.data.ip =
                      [@ EXCEPT !.saddr = s, !.daddr = e, !.ttl = ttl, !.tos = tos]]
    BY Zenon, <1>4 DEF Complete
  <2>. DEFINE r == [cnp.data EXCEPT !.ip =
                      [@ EXCEPT !.saddr = s, !.daddr = e, !.ttl = ttl, !.tos = tos]]
  <2>2. cnp.data # None /\ IsCnp(cnp.data) /\ cnp \in Mbuf
    BY <1>4 DEF Complete
  <2>3. IsCnp(r)
    BY Zenon, <1>1, <2>2, CompletedIsCnp
  <2>4. cnp' = [cnp EXCEPT !.data = r]
    BY <2>1
  <2>. HIDE DEF r
  <2>5. cnp' \in Mbuf /\ cnp'.data = r
    <3>. HIDE DEF CnpInv
    <3>. QED
      BY <2>2, <2>3, <2>4 DEF IsCnp
  <2>. QED
    BY <1>4, <2>3, <2>5 DEF Complete
<1>5. CASE ctcm_generate_cnp
  <2>1. PICK qn \in DestQpn :
           LET p == [cnp.data EXCEPT !.bth = bth_set_qpn(@, qn)]
           IN  cnp' = [cnp EXCEPT !.data = [p EXCEPT !.icrc = cnp_icrc_pseudo_packet(p)]]
    BY Zenon, <1>5 DEF ctcm_generate_cnp
  <2>. DEFINE p == [cnp.data EXCEPT !.bth = bth_set_qpn(@, qn)]
              r == [p EXCEPT !.icrc = cnp_icrc_pseudo_packet(p)]
  <2>2. cnp.data # None /\ IsCnp(cnp.data) /\ cnp \in Mbuf
    BY <1>5 DEF ctcm_generate_cnp
  <2>3. IsCnp(r) /\ Valid(r)
    BY <1>1, <2>2, GeneratedValid, Zenon
  <2>4. cnp' = [cnp EXCEPT !.data = r]
    BY <2>1
  <2>. HIDE DEF r
  <2>5. cnp' \in Mbuf /\ cnp'.data = r
    <3>. HIDE DEF CnpInv
    <3>. QED
      BY <2>2, <2>3, <2>4 DEF IsCnp
  <2>6. r # None
    BY <2>3, CnpAssumption DEF IsCnp
  <2>. QED
    BY <1>5, <2>3, <2>5, <2>6 DEF ctcm_generate_cnp
<1>6. CASE Send
  BY <1>6 DEF Send
<1>7. CASE Route
  <2>1. PICK ttl \in Ttl, tos \in Tos, fecn \in {0, 1} :
          wire' = [wire EXCEPT !.ip = [@ EXCEPT !.ttl = ttl, !.tos = tos, !.check = ttl],
                               !.udp = [@ EXCEPT !.check = fecn],
                               !.bth = bth_set_fecn(@, fecn)]
    BY Zenon, <1>7 DEF Route
  <2>2. IsCnp(wire) /\ Valid(wire)
    BY <1>7 DEF Route
  <2>3. IsCnp(wire') /\ Valid(wire')
    BY <1>1, <2>1, <2>2, RoutedValid, Zenon
  <2>. QED
    BY <1>7, <2>3 DEF Route
<1>8. CASE UNCHANGED vars
  BY <1>8 DEF vars, Valid, IsCnp
<1>. QED
  BY <1>2, <1>3, <1>4, <1>5, <1>6, <1>7, <1>8 DEF Next

\* The invariant holds throughout.
LEMMA CnpInvariant == Spec => []CnpInv
<1>1. Init => CnpInv
  BY CnpAssumption DEF Init, CnpInv, EmptyMbuf
<1>. QED
  BY <1>1, CnpInductive, PTL DEF Spec

\* The bytes of the mbuf and of what was sent are absent or a packet with
\* well-formed headers, whatever the tailroom and the arguments, and the append of
\* ctcm_fill_cnp_template never takes more than the tailroom.
THEOREM CnpTypeCorrect == Spec => []TypeOK
<1>1. ASSUME CnpInv PROVE cnp.data \in Packet \cup {None}
  BY <1>1 DEF CnpInv
<1>2. CnpInv => TypeOK
  BY <1>1 DEF CnpInv, TypeOK, IsCnp
<1>. QED
  BY <1>2, CnpInvariant, PTL

\* For all addresses, QPNs, TTLs and ToS values: the ICRC that ctcm_generate_cnp has
\* put into a packet is the one a receiver computes behind any number of routers.
THEOREM IcrcValidOnWire == Spec => []WireIcrcValid
<1>1. CnpInv => WireIcrcValid
  BY DEF CnpInv, WireIcrcValid, Valid
<1>. QED
  BY <1>1, CnpInvariant, PTL

\* However often ctcm_generate_cnp is called on one template, and with whatever
\* QPN, what is sent is a CNP with BECN set and consistent lengths.
THEOREM OnlyCnpsSent == Spec => []SentIsCnp
<1>1. ASSUME CnpInv, wire # None PROVE SentIsCnp
  <2>1. /\ wire \in Packet /\ wire.bth \in rxe_bth /\ CnpBth(wire.bth) /\ CnpIp(wire.ip)
        /\ wire.udp.ulen = 40
    BY <1>1, PacketParts DEF CnpInv, IsCnp
  <2>2. bth_opcode(wire.bth) = 129 /\ bth_pkey(wire.bth) = 65535
    BY <2>1 DEF CnpBth, bth_opcode, bth_pkey
  <2>3. bth_becn(wire.bth) = 1
    BY <2>1, Words, UnsignedNat, TopGets DEF CnpBth, bth_becn
  <2>4. 60 = 5 * 4 + 40 /\ UdpLength + CTCM_CNP_TOTAL_LENGTH = 40
    BY DEF UdpLength, CTCM_CNP_TOTAL_LENGTH, CTCM_BTH_LENGTH, CTCM_CNP_LENGTH, CTCM_ICRC_LENGTH
  <2>5. wire.ip.tot_len = wire.ip.ihl * 4 + wire.udp.ulen
    BY <2>1 DEF CnpIp
  <2>. QED
    BY <2>1, <2>2, <2>3, <2>4, <2>5 DEF SentIsCnp
<1>2. CnpInv => SentIsCnp
  BY <1>1 DEF SentIsCnp
<1>. QED
  BY <1>2, CnpInvariant, PTL
=============================================================================
