------------------------------ MODULE MCFields ------------------------------
(***************************************************************************)
(* Bit fields in memory for TLC: a CM message under CmMsg, or a word under *)
(* BitFields.  The two never meet in a behaviour: type is None in those of *)
(* CmMsg, and the message stays empty in those of BitFields.               *)
(***************************************************************************)
EXTENDS CmMsg

CONSTANT Types              \* of BitFields

VARIABLES type, mem, want   \* of BitFields

W == INSTANCE BitFields

allVars == <<msg, mad, last, sets, type, mem, want>>

IsWord == type # None

FieldsInit ==
    \/ Init /\ type = None /\ mem = {} /\ want = <<>>
    \/ W!Init /\ msg = "REQ" /\ mad = {} /\ last = None /\ sets = 0

FieldsNext ==
    \/ ~IsWord /\ Next /\ UNCHANGED <<type, mem, want>>
    \/ IsWord /\ W!Next /\ UNCHANGED vars

FieldsSpec == FieldsInit /\ [][FieldsNext]_allVars

\* Each field of a word reads as what was last put into it, whatever its
\* neighbours were given (stated in BitFields).
FieldsIndependent == IsWord => W!FieldsIndependent

\* The two families of accessors of bitfield.h agree (stated in BitFields).
FamiliesAgree == IsWord => W!FamiliesAgree
=============================================================================
