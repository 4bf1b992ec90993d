----------------------------- MODULE CtcmProofs -----------------------------
(***************************************************************************)
(* The interface and the parser, for every pool of mbufs, every number of  *)
(* dynamic fields and all datagrams of every length.                       *)
(*                                                                         *)
(* The invariants of Ctcm speak of the fields dyn names, of the context's  *)
(* and of the application's copies.  What makes them hold is that DPDK's   *)
(* registry never moves a field: all three agree wherever they are defined *)
(* (Fields), and the two fields are distinct, so that the second write of  *)
(* parse_packet does not overwrite the first.                              *)
(***************************************************************************)
EXTENDS Ctcm, TLAPS

\* The offsets o are the registered ones.
Registered(o) == o.bth = dyn["BTH"] /\ o.mad = dyn["IB_MAD_HDR"]

Fields ==
    /\ \A n \in {"BTH", "IB_MAD_HDR"} : dyn[n] # None => dyn[n] \in used
    /\ dyn["BTH"] # None => dyn["BTH"] # dyn["IB_MAD_HDR"]
    /\ ctx # None => Registered(ctx)
    /\ app # None => Registered(app)
    /\ parsed # {} => dyn["BTH"] # None /\ dyn["IB_MAD_HDR"] # None

\* The two offsets bth and mad describe the packet p.
Describes(p, bth, mad) ==
    /\ mad \in {0, MadOffset} /\ bth \in {0, BthOffset}
    /\ mad # 0 => IsCm(p) /\ bth # 0
    /\ bth # 0 <=> p.roce /\ p.udp_len >= UdpHdr + RxeBth + Icrc
    /\ IsCm(p) /\ p.udp_len >= WholeMad => mad # 0

CtcmInv == TypeOK /\ Fields /\ ParsedFieldsFresh /\ OnlyCmTracked

\* ParsedFieldsFresh, by Describes.
LEMMA FreshDescribes ==
    ParsedFieldsFresh <=>
       \A m \in parsed : Describes(mbuf[m].pkt, mbuf[m].field[dyn["BTH"]],
                                   mbuf[m].field[dyn["IB_MAD_HDR"]])
BY DEF ParsedFieldsFresh, Describes

\* What parse_packet writes describes the packet, whatever its length, and
\* whatever the fields held before.
LEMMA ParseDescribes ==
    ASSUME NEW p \in Packets, NEW field \in [DynSlot -> {0, BthOffset, MadOffset}],
           NEW o \in [bth: DynSlot, mad: DynSlot], o.bth # o.mad,
           NEW b, b = [pkt |-> p, field |-> field]
    PROVE  /\ parse_packet(b, o) \in
                [pkt: Packets \cup {None}, field: [DynSlot -> {0, BthOffset, MadOffset}]]
           /\ parse_packet(b, o).pkt = p
           /\ Describes(p, parse_packet(b, o).field[o.bth], parse_packet(b, o).field[o.mad])
<1>. DEFINE x == IF extract_bth_ok(p, p.udp_len) THEN BthOffset ELSE 0
            y == IF HasMad(p) THEN MadOffset ELSE 0
            c == parse_packet(b, o)
<1>1. c = [pkt |-> p, field |-> [[field EXCEPT ![o.bth] = x] EXCEPT ![o.mad] = y]]
  <2>1. b.pkt = p /\ b.field = field /\ DOMAIN b = {"pkt", "field"}
    OBVIOUS
  <2>2. c = [b EXCEPT !.field[o.bth] = x, !.field[o.mad] = y]
    BY <2>1 DEF parse_packet
  <2>. HIDE DEF x, y, c
  <2>. QED
    BY Zenon, <2>1, <2>2
<1>2. x \in {0, BthOffset} /\ y \in {0, MadOffset}
  OBVIOUS
<1>3. Describes(p, x, y)
  <2>1. p.udp_len \in Nat /\ p.roce \in BOOLEAN
    BY PacketsAssumption
  <2>. QED
    BY <2>1 DEF Describes, IsCm, HasMad, extract_bth_ok, extract_deth_ok, extract_mad_ok,
       WholeMad, BthOffset, MadOffset, UdpHdr, RxeBth, RxeDeth, IbMadHdr, Icrc, L2, L3
<1>. HIDE DEF x, y, c
<1>4. c.pkt = p /\ c.field[o.bth] = x /\ c.field[o.mad] = y
  BY <1>1
<1>5. c.field \in [DynSlot -> {0, BthOffset, MadOffset}]
  BY <1>1, <1>2
<1>6. c = [pkt |-> p, field |-> c.field]
  BY <1>1
<1>. QED
  BY <1>3, <1>4, <1>5, <1>6 DEF c

\* ctcm_create never moves a field, and keeps the two apart.
LEMMA CreateStep ==
    ASSUME CtcmInv, ctcm_create
    PROVE  CtcmInv'
<1>. DEFINE B == "BTH"
            M == "IB_MAD_HDR"
<1>1. /\ dyn \in [{B, M} -> DynSlot \cup {None}] /\ used \subseteq DynSlot
      /\ \A n \in {B, M} : dyn[n] # None => dyn[n] \in used
      /\ dyn[B] # None => dyn[B] # dyn[M]
  BY DEF CtcmInv, TypeOK, Fields
<1>2. /\ dyn' \in [{B, M} -> DynSlot \cup {None}] /\ used' \subseteq DynSlot
      /\ \A n \in {B, M} : dyn'[n] # None => dyn'[n] \in used'
      /\ dyn'[B] # None => dyn'[B] # dyn'[M]
      /\ \A n \in {B, M} : dyn[n] # None => dyn'[n] = dyn[n]
      /\ ctx' # None => /\ ctx' \in [bth: DynSlot, mad: DynSlot]
                        /\ ctx'.bth = dyn'[B] /\ ctx'.mad = dyn'[M]
  <2>1. ctx = None
    BY DEF ctcm_create
  <2>2. CASE UNCHANGED <<dyn, used, ctx>>
    BY <1>1, <2>1, <2>2
  <2>3. ASSUME NEW b \in Register(B, used),
               dyn' = [dyn EXCEPT ![B] = b], used' = used \cup {b}, ctx' = ctx,
               Register(M, used \cup {b}) = {}
        PROVE  /\ dyn' \in [{B, M} -> DynSlot \cup {None}] /\ used' \subseteq DynSlot
               /\ \A n \in {B, M} : dyn'[n] # None => dyn'[n] \in used'
               /\ dyn'[B] # None => dyn'[B] # dyn'[M]
               /\ \A n \in {B, M} : dyn[n] # None => dyn'[n] = dyn[n]
    <3>1. b \in DynSlot /\ (dyn[B] # None => b = dyn[B]) /\ (dyn[B] = None => b \notin used)
      BY <1>1, <2>3 DEF Register
    <3>2. dyn[M] = None
      BY <2>3 DEF Register
    <3>. QED
      BY <1>1, <2>3, <3>1, <3>2, NoneAssumption
  <2>4. ASSUME NEW b \in Register(B, used), NEW m \in Register(M, used \cup {b}),
               dyn' = [dyn EXCEPT ![B] = b, ![M] = m], used' = used \cup {b, m},
               ctx' = [bth |-> b, mad |-> m]
        PROVE  /\ dyn' \in [{B, M} -> DynSlot \cup {None}] /\ used' \subseteq DynSlot
               /\ \A n \in {B, M} : dyn'[n] # None => dyn'[n] \in used'
               /\ dyn'[B] # None => dyn'[B] # dyn'[M]
               /\ \A n \in {B, M} : dyn[n] # None => dyn'[n] = dyn[n]
               /\ ctx' \in [bth: DynSlot, mad: DynSlot]
               /\ ctx'.bth = dyn'[B] /\ ctx'.mad = dyn'[M]
    <3>1. b \in DynSlot /\ (dyn[B] # None => b = dyn[B]) /\ (dyn[B] = None => b \notin used)
      BY <1>1, <2>4 DEF Register
    <3>2. /\ m \in DynSlot /\ (dyn[M] # None => m = dyn[M])
          /\ dyn[M] = None => m \notin used \cup {b}
      BY <1>1, <2>4 DEF Register
    <3>3. b # m
      BY <1>1, <3>1, <3>2
    <3>4. dyn'[B] = b /\ dyn'[M] = m
      BY <1>1, <2>4
    <3>. QED
      BY <1>1, <2>4, <3>1, <3>2, <3>3, <3>4
  <2>. QED
    BY Zenon, <2>1, <2>2, <2>3, <2>4 DEF ctcm_create
<1>3. UNCHANGED <<app, mbuf, parsed, seen, abort>>
  BY DEF ctcm_create
<1>4. TypeOK'
  BY <1>2, <1>3 DEF CtcmInv, TypeOK
<1>5. Fields'
  <2>1. app # None => app.bth = dyn[B] /\ app.mad = dyn[M] /\ dyn[B] # None /\ dyn[M] # None
    BY NoneAssumption DEF CtcmInv, TypeOK, Fields, Registered
  <2>2. parsed # {} => dyn[B] # None /\ dyn[M] # None
    BY DEF CtcmInv, Fields
  <2>. QED
    BY <1>2, <1>3, <2>1, <2>2 DEF Fields, Registered
<1>6. ParsedFieldsFresh'
  <2>1. ASSUME NEW m \in parsed PROVE dyn'[B] = dyn[B] /\ dyn'[M] = dyn[M]
    BY <1>2, <2>1 DEF CtcmInv, Fields
  <2>. QED
    BY <1>3, <2>1 DEF CtcmInv, ParsedFieldsFresh
<1>7. OnlyCmTracked'
  BY <1>3 DEF CtcmInv, OnlyCmTracked, IsCm
<1>. QED
  BY <1>4, <1>5, <1>6, <1>7 DEF CtcmInv

\* A parsed packet is described by its fields.
LEMMA ParseStep ==
    ASSUME CtcmInv, ctcm_parse_packet
    PROVE  CtcmInv'
<1>1. PICK m \in Mbuf :
         /\ mbuf[m].pkt # None
         /\ abort' \in BOOLEAN
         /\ mbuf' = IF abort' THEN mbuf ELSE [mbuf EXCEPT ![m] = parse_packet(mbuf[m], ctx)]
         /\ parsed' = IF abort' THEN parsed ELSE parsed \cup {m}
  BY Zenon DEF ctcm_parse_packet
<1>2. ctx # None /\ UNCHANGED <<dyn, used, ctx, app, seen>>
  BY DEF ctcm_parse_packet
<1>3. CASE abort' = TRUE
  BY <1>1, <1>2, <1>3
     DEF CtcmInv, TypeOK, Fields, Registered, ParsedFieldsFresh, OnlyCmTracked, IsCm
<1>4. CASE abort' = FALSE
  <2>. DEFINE b == mbuf[m]
              c == parse_packet(b, ctx)
              Mb == [pkt: Packets \cup {None}, field: [DynSlot -> {0, BthOffset, MadOffset}]]
  <2>1. mbuf \in [Mbuf -> Mb] /\ b \in Mb
    BY DEF CtcmInv, TypeOK
  <2>2. /\ b.pkt \in Packets /\ b.field \in [DynSlot -> {0, BthOffset, MadOffset}]
        /\ b = [pkt |-> b.pkt, field |-> b.field]
    BY <1>1, <2>1
  <2>3. /\ ctx \in [bth: DynSlot, mad: DynSlot]
        /\ ctx.bth = dyn["BTH"] /\ ctx.mad = dyn["IB_MAD_HDR"] /\ ctx.bth # ctx.mad
        /\ ctx.bth # None /\ ctx.mad # None
    BY <1>2, NoneAssumption DEF CtcmInv, TypeOK, Fields, Registered
  <2>4. c \in Mb /\ c.pkt = b.pkt /\ Describes(b.pkt, c.field[ctx.bth], c.field[ctx.mad])
    BY <2>2, <2>3, ParseDescribes
  <2>. HIDE DEF c
  <2>5. mbuf' = [mbuf EXCEPT ![m] = c] /\ parsed' = parsed \cup {m}
    BY <1>1, <1>4 DEF c
  <2>6. mbuf' \in [Mbuf -> Mb] /\ mbuf'[m] = c /\ \A n \in Mbuf : n # m => mbuf'[n] = mbuf[n]
    BY <2>1, <2>4, <2>5
  <2>7. TypeOK'
    BY <1>1, <1>2, <1>4, <2>2, <2>4, <2>5, <2>6 DEF CtcmInv, TypeOK
  <2>8. Fields'
    BY <1>2, <2>3, <2>5 DEF CtcmInv, Fields, Registered
  <2>9. ASSUME NEW n \in parsed'
        PROVE  Describes(mbuf'[n].pkt, mbuf'[n].field[dyn["BTH"]],
                         mbuf'[n].field[dyn["IB_MAD_HDR"]])
    <3>1. CASE n = m
      BY <2>3, <2>4, <2>6, <3>1
    <3>2. CASE n # m
      <4>1. n \in parsed /\ n \in Mbuf
        BY <2>5, <3>2, <2>9 DEF CtcmInv, TypeOK
      <4>. QED
        BY <2>6, <3>2, <4>1, FreshDescribes DEF CtcmInv
    <3>. QED
      BY <3>1, <3>2
  <2>10. ParsedFieldsFresh'
    BY <1>2, <2>9 DEF ParsedFieldsFresh, Describes
  <2>11. OnlyCmTracked'
    BY <1>2 DEF CtcmInv, OnlyCmTracked, IsCm
  <2>. QED
    BY <2>7, <2>8, <2>10, <2>11 DEF CtcmInv
<1>. QED
  BY Zenon, <1>1, <1>3, <1>4

\* The tracker is given what the fields describe, read through any context.
LEMMA ProcessStep ==
    ASSUME CtcmInv, ctcm_process_packet
    PROVE  CtcmInv'
<1>1. PICK m \in parsed :
         /\ abort' \in BOOLEAN
         /\ seen' = IF ~abort' /\ mbuf[m].field[ctx.mad] # 0 THEN mbuf[m].pkt ELSE seen
  BY DEF ctcm_process_packet
<1>2. ctx # None /\ UNCHANGED <<dyn, used, ctx, app, mbuf, parsed>>
  BY DEF ctcm_process_packet
<1>3. m \in Mbuf /\ mbuf[m].pkt \in Packets
  BY DEF CtcmInv, TypeOK
<1>4. mbuf[m].field[ctx.mad] # 0 => IsCm(mbuf[m].pkt)
  BY <1>2 DEF CtcmInv, Fields, Registered, ParsedFieldsFresh
<1>5. OnlyCmTracked'
  BY <1>1, <1>4 DEF CtcmInv, OnlyCmTracked, IsCm
<1>6. seen' \in Packets \cup {None}
  BY <1>1, <1>3 DEF CtcmInv, TypeOK
<1>7. TypeOK'
  BY <1>1, <1>2, <1>6 DEF CtcmInv, TypeOK
<1>. QED
  BY <1>2, <1>5, <1>7 DEF CtcmInv, Fields, Registered, ParsedFieldsFresh

\* The remaining steps leave parsed mbufs alone.
LEMMA OtherStep ==
    ASSUME CtcmInv,
           \/ ctcm_destroy \/ ctcm_dynfield_offsets \/ OtherRegister
           \/ Receive \/ Recycle \/ UNCHANGED vars
    PROVE  CtcmInv'
<1>1. CASE ctcm_destroy
  BY <1>1
     DEF ctcm_destroy, CtcmInv, TypeOK, Fields, Registered, ParsedFieldsFresh, OnlyCmTracked, IsCm
<1>2. CASE ctcm_dynfield_offsets
  BY <1>2 DEF ctcm_dynfield_offsets, CtcmInv, TypeOK, Fields, Registered, ParsedFieldsFresh,
     OnlyCmTracked, IsCm
<1>3. CASE OtherRegister
  BY <1>3 DEF OtherRegister, CtcmInv, TypeOK, Fields, Registered, ParsedFieldsFresh,
     OnlyCmTracked, IsCm
<1>4. CASE Receive
  <2>1. PICK m \in Mbuf, p \in Packets : mbuf[m].pkt = None /\ mbuf' = [mbuf EXCEPT ![m].pkt = p]
    BY Zenon, <1>4 DEF Receive
  <2>2. UNCHANGED <<dyn, used, ctx, app, parsed, seen, abort>>
    BY <1>4 DEF Receive
  <2>3. m \notin parsed
    BY <2>1 DEF CtcmInv, TypeOK
  <2>4. TypeOK'
    BY <2>1, <2>2, <2>3 DEF CtcmInv, TypeOK
  <2>5. \A n \in parsed : mbuf'[n] = mbuf[n]
    BY <2>1, <2>3 DEF CtcmInv, TypeOK
  <2>6. Fields' /\ OnlyCmTracked'
    BY <2>2 DEF CtcmInv, Fields, Registered, OnlyCmTracked, IsCm
  <2>7. ParsedFieldsFresh'
    <3>1. dyn' = dyn /\ parsed' = parsed
      BY <2>2
    <3>2. ParsedFieldsFresh' <=>
            \A n \in parsed' : Describes(mbuf'[n].pkt, mbuf'[n].field[dyn'["BTH"]],
                                         mbuf'[n].field[dyn'["IB_MAD_HDR"]])
      BY DEF ParsedFieldsFresh, Describes, IsCm
    <3>. QED
      BY <2>5, <3>1, <3>2, FreshDescribes DEF CtcmInv
  <2>. QED
    BY <2>4, <2>6, <2>7 DEF CtcmInv
<1>5. CASE Recycle
  <2>1. PICK m \in Mbuf : mbuf' = [mbuf EXCEPT ![m].pkt = None] /\ parsed' = parsed \ {m}
    BY Zenon, <1>5 DEF Recycle
  <2>2. UNCHANGED <<dyn, used, ctx, app, seen, abort>>
    BY <1>5 DEF Recycle
  <2>3. TypeOK'
    BY <2>1, <2>2 DEF CtcmInv, TypeOK
  <2>4. \A n \in parsed' : n \in parsed /\ mbuf'[n] = mbuf[n]
    BY <2>1 DEF CtcmInv, TypeOK
  <2>5. Fields' /\ OnlyCmTracked'
    BY <2>2, <2>4 DEF CtcmInv, Fields, Registered, OnlyCmTracked, IsCm
  <2>6. ParsedFieldsFresh'
    BY <2>2, <2>4 DEF CtcmInv, ParsedFieldsFresh, IsCm
  <2>. QED
    BY <2>3, <2>5, <2>6 DEF CtcmInv
<1>6. CASE UNCHANGED vars
  BY <1>6 DEF vars, CtcmInv, TypeOK, Fields, Registered, ParsedFieldsFresh, OnlyCmTracked, IsCm
<1>. QED
  BY <1>1, <1>2, <1>3, <1>4, <1>5, <1>6

\* The inductive invariant holds in every reachable state.
THEOREM CtcmInvariant == Spec => []CtcmInv
<1>1. Init => CtcmInv
  <2>. SUFFICES ASSUME Init PROVE CtcmInv
    OBVIOUS
  <2>1. dyn["BTH"] = None /\ dyn["IB_MAD_HDR"] = None
    BY DEF Init
  <2>2. TypeOK
    BY Zenon DEF Init, TypeOK
  <2>3. Fields /\ ParsedFieldsFresh /\ OnlyCmTracked
    BY <2>1 DEF Init, Fields, ParsedFieldsFresh, OnlyCmTracked
  <2>. QED
    BY <2>2, <2>3 DEF CtcmInv
<1>2. CtcmInv /\ [Next]_vars => CtcmInv'
  BY CreateStep, ParseStep, ProcessStep, OtherStep DEF Next
<1>. QED
  BY <1>1, <1>2, PTL DEF Spec

\* Registry, context, mbufs and the application's offsets keep their types over all
\* creations, failed registrations, parses and recycled mbufs.
THEOREM InterfaceTypeCorrect == Spec => []TypeOK
BY CtcmInvariant, PTL DEF CtcmInv

\* For all datagrams: the two fields of a parsed mbuf describe the packet it
\* holds now, under whichever context it was parsed.
THEOREM ParseResultsFresh == Spec => []ParsedFieldsFresh
BY CtcmInvariant, PTL DEF CtcmInv

\* For all datagrams: only CM MADs reach the tracker.
THEOREM TrackerSeesCmOnly == Spec => []OnlyCmTracked
BY CtcmInvariant, PTL DEF CtcmInv

\* However often contexts are replaced, the application's offsets are valid.
THEOREM AppOffsetsValid == Spec => []AppReadsParserFields
<1>1. CtcmInv => AppReadsParserFields
  BY DEF CtcmInv, TypeOK, Fields, Registered, AppReadsParserFields
<1>. QED
  BY <1>1, CtcmInvariant, PTL
=============================================================================
