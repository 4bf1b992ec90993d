----------------------------- MODULE BitFields ------------------------------
(***************************************************************************)
(* Bit fields of words in memory: the type_encode_bits, type_replace_bits  *)
(* and type_get_bits families of bitfield.h, and the accessors of ib_mad.h *)
(* for words that two fields share (ClassPortInfo and the RMPP header).    *)
(*                                                                         *)
(* A word is the set of its bits that are one; "be" words are stored with  *)
(* their bytes swapped, the host being little-endian.  The state machine   *)
(* is a caller that sets fields of one word in any order.                  *)
(***************************************************************************)
EXTENDS Naturals

CONSTANTS Types     \* word types: a name of Width

VARIABLES
    type,       \* type of the word
    mem,        \* the word in memory
    want        \* what each field should read as

vars == <<type, mem, want>>

Width == [u8 |-> 8, u16 |-> 16, le16 |-> 16, be16 |-> 16, u32 |-> 32, le32 |-> 32,
          be32 |-> 32, u64 |-> 64, le64 |-> 64, be64 |-> 64, cpi |-> 32, rmpp |-> 8]
BigEndian == {"be16", "be32", "be64", "cpi"}

Bits(t) == 0 .. Width[t] - 1

\* cpu_to_be and be_to_cpu; nothing to do for the other types.
Swapped(t, s) ==
    IF t \in BigEndian THEN {8 * (Width[t] \div 8 - 1 - (b \div 8)) + (b % 8) : b \in s} ELSE s

\* Shifts within the word: what leaves it is lost.
Shl(t, s, n) == {b + n : b \in s} \cap Bits(t)
Shr(t, s, n) == {b - n : b \in {c \in s : c >= n}}

\* __bf_shf, and the multiplier of a mask as the place of its lowest bit.
bf_shf(field) == CHOOSE b \in field : \A c \in field : b <= c
field_mask(t, field) == Shr(t, field, bf_shf(field))

\* FIELD_PREP and FIELD_GET, in the type of the mask.
FIELD_PREP(t, field, v) == Shl(t, v, bf_shf(field)) \cap field
FIELD_GET(t, field, w) == Shr(t, w \cap field, bf_shf(field))

\* Mutant: the argument is not cut to the width of the field.
encode_bits_unmasked(t, v, field) == Swapped(t, Shl(t, v, bf_shf(field)))
encode_bits(t, v, field) == Swapped(t, Shl(t, v \cap field_mask(t, field), bf_shf(field)))

replace_bits(t, old, v, field) == (old \ Swapped(t, field)) \cup encode_bits(t, v, field)
get_bits(t, w, field) == Shr(t, Swapped(t, w) \cap field, bf_shf(field))

-----------------------------------------------------------------------------
(* ib_mad.h *)

IB_CLASS_PORT_INFO_RESP_TIME_FIELD_SIZE == 5
IB_CLASS_PORT_INFO_RESP_TIME_MASK == 0 .. 4

ib_get_cpi_resp_time(w) == Swapped("cpi", w) \cap IB_CLASS_PORT_INFO_RESP_TIME_MASK
ib_set_cpi_resp_time(w, rtime) ==
    (w \cap Swapped("cpi", Bits("cpi") \ IB_CLASS_PORT_INFO_RESP_TIME_MASK))
       \cup Swapped("cpi", rtime \cap IB_CLASS_PORT_INFO_RESP_TIME_MASK)
ib_get_cpi_capmask2(w) == Shr("cpi", Swapped("cpi", w), IB_CLASS_PORT_INFO_RESP_TIME_FIELD_SIZE)
\* Mutant: the mask is applied in the byte order of the host.
ib_set_cpi_capmask2_host_mask(w, capmask2) ==
    (w \cap IB_CLASS_PORT_INFO_RESP_TIME_MASK)
       \cup Swapped("cpi", Shl("cpi", capmask2, IB_CLASS_PORT_INFO_RESP_TIME_FIELD_SIZE))
ib_set_cpi_capmask2(w, capmask2) ==
    (w \cap Swapped("cpi", IB_CLASS_PORT_INFO_RESP_TIME_MASK))
       \cup Swapped("cpi", Shl("cpi", capmask2, IB_CLASS_PORT_INFO_RESP_TIME_FIELD_SIZE))

ib_get_rmpp_resptime(w) == Shr("rmpp", w, 3)
ib_get_rmpp_flags(w) == w \cap 0 .. 2
ib_set_rmpp_resptime(w, rtime) == ib_get_rmpp_flags(w) \cup Shl("rmpp", rtime, 3)
ib_set_rmpp_flags(w, flags) == (w \cap 3 .. 7) \cup (flags \cap 0 .. 2)

-----------------------------------------------------------------------------
(* The state machine *)

\* The fields of a word.  The masks of the callers of bitfield.h are any that
\* cover the word, some of them across bytes.
FieldsOf(t) ==
    CASE t = "cpi" -> [resp_time |-> 0 .. 4, capmask2 |-> 5 .. 31]
      [] t = "rmpp" -> [flags |-> 0 .. 2, resptime |-> 3 .. 7]
      [] OTHER -> [low |-> 0 .. 2, middle |-> 3 .. Width[t] - 5,
                   high |-> Width[t] - 4 .. Width[t] - 1]

Get(t, w, f) ==
    CASE f = "resp_time" -> ib_get_cpi_resp_time(w)
      [] f = "capmask2" -> ib_get_cpi_capmask2(w)
      [] f = "resptime" -> ib_get_rmpp_resptime(w)
      [] f = "flags" -> ib_get_rmpp_flags(w)
      [] OTHER -> get_bits(t, w, FieldsOf(t)[f])

Put(t, w, f, v) ==
    CASE f = "resp_time" -> ib_set_cpi_resp_time(w, v)
      [] f = "capmask2" -> ib_set_cpi_capmask2(w, v)
      [] f = "resptime" -> ib_set_rmpp_resptime(w, v)
      [] f = "flags" -> ib_set_rmpp_flags(w, v)
      [] OTHER -> replace_bits(t, w, v, FieldsOf(t)[f])

\* The argument of ib_set_cpi_resp_time is a u8.
Argument(t, f) == IF f = "resp_time" THEN 0 .. 7 ELSE Bits(t)

\* Arguments: none, one bit, alternate bits, and all, which no field holds.
Values(t, f) == {{}, {0}, {b \in Argument(t, f) : b % 2 = 1}, Argument(t, f)}

Init ==
    /\ type \in Types
    /\ mem \in {{}, Bits(type)}
    /\ want = [f \in DOMAIN FieldsOf(type) |-> Get(type, mem, f)]

Set(f, v) ==
    /\ mem' = Put(type, mem, f, v)
    /\ want' = [want EXCEPT ![f] = v \cap field_mask(type, FieldsOf(type)[f])]
    /\ UNCHANGED type

Next == \E f \in DOMAIN FieldsOf(type) : \E v \in Values(type, f) : Set(f, v)

Spec == Init /\ [][Next]_vars

-----------------------------------------------------------------------------
(* Properties *)

\* Whatever was set before and whatever was in memory: each field reads as the
\* bits of the last argument that fit into it.  An argument that is too wide
\* does not reach the neighbouring field, and the masks, which the setters
\* apply to the word in memory, are in the byte order of the memory.
FieldsIndependent == \A f \in DOMAIN want : Get(type, mem, f) = want[f]

\* bitfield.h has two ways to write a field, FIELD_PREP into the word of the
\* host and encode_bits into a word of any byte order; they agree, and so do
\* FIELD_GET and get_bits.
FamiliesAgree ==
    \A f \in DOMAIN want :
       LET field == FieldsOf(type)[f]
       IN  /\ get_bits(type, mem, field) = FIELD_GET(type, field, Swapped(type, mem))
           /\ \A v \in Values(type, f) :
                 replace_bits(type, mem, v, field)
                    = Swapped(type, (Swapped(type, mem) \ field) \cup FIELD_PREP(type, field, v))
=============================================================================
