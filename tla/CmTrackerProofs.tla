-------------------------- MODULE CmTrackerProofs --------------------------
(***************************************************************************)
(* Proofs about CmTracker for every set of ids, addresses, QPNs and        *)
(* packets.  A handler is a composition of a few operators on the tracker  *)
(* record, so there is one lemma per operator (it takes a sound tracker to *)
(* a sound tracker), and one step per handler that chains them.            *)
(***************************************************************************)
EXTENDS CmTracker, TLAPS

\* The inductive invariant, as a predicate of the tracker record.
Sound(t) == t \in TrackerType /\ Indexed(t) /\ Exact(t)

\* Types of what add_new_flow chooses, and: a flow in the query table is held
\* by local_map, so the allocator never returns its address.
LEMMA FreshNotMapped ==
    ASSUME NEW t, Sound(t), NEW new \in Free(t)
    PROVE  new \in Ptr /\ ~t.flow[new].in_qpn_map
<1>1. new \in Ptr
  BY DEF Free
<1>2. SUFFICES ASSUME t.flow[new].in_qpn_map PROVE FALSE
  BY <1>1
<1>3. t.local_map[t.flow[new].local_id] = new
  BY <1>1, <1>2 DEF Sound, Exact, Answers
<1>4. t.flow[new].local_id \in Id0(HostId)
  BY <1>1 DEF Sound, TrackerType, FlowState
<1>. QED
  BY <1>1, <1>3, <1>4 DEF Free, Live

\* Removing map entries, and changing no flow's ids, keeps the maps consistent.
LEMMA IndexedKept ==
    ASSUME NEW t \in TrackerType, Indexed(t), NEW u,
           \A l \in Id0(HostId) : u.local_map[l] \in {t.local_map[l], NULL},
           \A k \in CmFlowKey : u.remote_map[k] \in {t.remote_map[k], NULL},
           \A f \in Ptr : /\ u.flow[f].local_id = t.flow[f].local_id
                          /\ u.flow[f].remote_id = t.flow[f].remote_id
    PROVE  Indexed(u)
BY DEF Indexed, TrackerType

\* Giving a flow other contents keeps the tracker sound as long as the ids
\* stay, and, if the flow is mapped, its QPNs stay and it remains connected.
LEMMA UpdateSound ==
    ASSUME NEW t, Sound(t), NEW f \in Ptr, NEW s \in FlowState,
           s.local_id = t.flow[f].local_id,
           s.remote_id = t.flow[f].remote_id,
           s.in_qpn_map = t.flow[f].in_qpn_map,
           s.in_qpn_map => /\ s.local_qpn = t.flow[f].local_qpn
                           /\ s.remote_qpn = t.flow[f].remote_qpn
                           /\ s.state \in {"ESTABLISHED", "DREQ_SENT", "DREQ_RCVD"}
    PROVE  Sound([t EXCEPT !.flow[f] = s])
<1>. DEFINE u == [t EXCEPT !.flow[f] = s]
<1>1. u \in TrackerType
  BY DEF Sound, TrackerType
<1>2. /\ u.local_map = t.local_map
      /\ u.remote_map = t.remote_map
      /\ u.qpn_map = t.qpn_map
      /\ \A g \in Ptr : u.flow[g] = IF g = f THEN s ELSE t.flow[g]
  BY DEF Sound, TrackerType
<1>. HIDE DEF u
<1>3. Indexed(u)
  BY <1>1, <1>2 DEF Sound, Indexed, TrackerType
<1>4. \A g \in Ptr : /\ u.flow[g].in_qpn_map = t.flow[g].in_qpn_map
                     /\ t.flow[g].in_qpn_map =>
                          \A k : Answers(t, g, k) => Answers(u, g, k)
                     /\ t.flow[g].in_qpn_map =>
                          get_flow_key(u.flow[g]) = get_flow_key(t.flow[g])
  <2>. SUFFICES ASSUME NEW g \in Ptr
                PROVE  /\ u.flow[g].in_qpn_map = t.flow[g].in_qpn_map
                       /\ t.flow[g].in_qpn_map =>
                            \A k : Answers(t, g, k) => Answers(u, g, k)
                       /\ t.flow[g].in_qpn_map =>
                            get_flow_key(u.flow[g]) = get_flow_key(t.flow[g])
    BY Zenon
  <2>1. CASE g # f
    BY <1>2, <2>1 DEF Answers
  <2>2. CASE g = f
    <3>1. u.flow[f] = s
      BY <1>2
    <3>. QED
      BY <1>2, <2>2, <3>1 DEF Answers, get_flow_key
  <2>. QED
    BY <2>1, <2>2
<1>5. Exact(u)
  <2>1. Exact(t)
    BY DEF Sound
  <2>2. \A g \in Ptr : \A k : Answers(t, g, k) => Answers(u, g, k)
    BY <1>4 DEF Answers
  <2>3. \A k \in FlowKey : u.qpn_map[k] # Absent => \E g \in Ptr : Answers(u, g, k)
    BY <1>2, <2>1, <2>2 DEF Exact
  <2>4. \A g \in Ptr : u.flow[g].in_qpn_map => Answers(u, g, get_flow_key(u.flow[g]))
    BY <1>4, <2>1, <2>2 DEF Exact
  <2>5. ASSUME NEW g \in Ptr, NEW h \in Ptr,
               u.flow[g].in_qpn_map, u.flow[h].in_qpn_map,
               get_flow_key(u.flow[g]) = get_flow_key(u.flow[h])
        PROVE  g = h
    BY <1>4, <2>1, <2>5 DEF Exact
  <2>. QED
    BY <2>3, <2>4, <2>5 DEF Exact
<1>. QED
  BY <1>1, <1>3, <1>5 DEF Sound, u

\* What add_new_flow does to the fields of the tracker.
AddNewFlowEffect(t, l, r, new) ==
    LET f == target(t, l, r, new)
        u == add_new_flow(t, l, r, new)
        addLocal == t.local_map[l] = NULL /\ l # 0
        addRemote == t.remote_map[r] = NULL /\ IsKey(r)
        s == IF t.local_map[l] = NULL /\ t.remote_map[r] = NULL
             THEN NewFlowState ELSE t.flow[f]
    IN  /\ f \in Ptr
        /\ u \in TrackerType
        /\ u.qpn_map = t.qpn_map
        /\ u.local_map = [t.local_map EXCEPT ![l] = IF addLocal THEN f ELSE @]
        /\ u.remote_map = [t.remote_map EXCEPT ![r] = IF addRemote THEN f ELSE @]
        /\ \A g \in Ptr : g # f => u.flow[g] = t.flow[g]
        /\ u.flow[f].local_id = IF addLocal THEN l ELSE s.local_id
        /\ u.flow[f].remote_id = IF addRemote THEN r ELSE s.remote_id
        /\ u.flow[f].state = s.state
        /\ u.flow[f].local_qpn = s.local_qpn
        /\ u.flow[f].remote_qpn = s.remote_qpn
        /\ u.flow[f].in_qpn_map = s.in_qpn_map

\* add_new_flow has that effect on any well-typed tracker.
LEMMA AddNewFlowFields ==
    ASSUME NEW t \in TrackerType, NEW l \in Id0(HostId), NEW r \in CmFlowKey,
           NEW new \in Ptr
    PROVE  AddNewFlowEffect(t, l, r, new)
<1>. DEFINE f == target(t, l, r, new)
            addLocal == t.local_map[l] = NULL /\ l # 0
            addRemote == t.remote_map[r] = NULL /\ IsKey(r)
            s == IF t.local_map[l] = NULL /\ t.remote_map[r] = NULL
                 THEN NewFlowState ELSE t.flow[f]
            v == [s EXCEPT !.local_id = IF addLocal THEN l ELSE @,
                           !.remote_id = IF addRemote THEN r ELSE @]
            u == add_new_flow(t, l, r, new)
<1>1. f \in Ptr
  BY DEF target, TrackerType
<1>2. NewFlowState \in FlowState
  BY DEF NewFlowState, FlowState, FLOW_STATES, Id0, CmFlowKey, NoKey
<1>3. s \in FlowState
  BY <1>1, <1>2 DEF TrackerType
<1>4. u = [t EXCEPT !.flow[f] = v,
                    !.local_map[l] = IF addLocal THEN f ELSE @,
                    !.remote_map[r] = IF addRemote THEN f ELSE @]
  BY DEF add_new_flow
<1>. HIDE DEF f, s, addLocal, addRemote
<1>5. /\ v \in FlowState
      /\ v.local_id = IF addLocal THEN l ELSE s.local_id
      /\ v.remote_id = IF addRemote THEN r ELSE s.remote_id
      /\ v.state = s.state
      /\ v.local_qpn = s.local_qpn
      /\ v.remote_qpn = s.remote_qpn
      /\ v.in_qpn_map = s.in_qpn_map
  BY Zenon, <1>3 DEF FlowState
<1>. HIDE DEF u, v
<1>6. /\ u.flow = [t.flow EXCEPT ![f] = v]
      /\ u.local_map = [t.local_map EXCEPT ![l] = IF addLocal THEN f ELSE @]
      /\ u.remote_map = [t.remote_map EXCEPT ![r] = IF addRemote THEN f ELSE @]
      /\ u.qpn_map = t.qpn_map
  BY <1>4 DEF TrackerType
<1>7. u \in TrackerType
  BY Zenon, <1>1, <1>4, <1>5 DEF TrackerType
<1>8. u.flow[f] = v /\ \A g \in Ptr : g # f => u.flow[g] = t.flow[g]
  BY <1>1, <1>6 DEF TrackerType
<1>. QED
  BY <1>1, <1>5, <1>6, <1>7, <1>8 DEF f, s, addLocal, addRemote, u, AddNewFlowEffect

\* A change of one unmapped flow, and additions to the maps, do not touch the
\* correspondence between qpn_map and the mapped flows.
LEMMA UnmappedChangeSound ==
    ASSUME NEW t, Sound(t), NEW u \in TrackerType, NEW f \in Ptr,
           Indexed(u),
           u.qpn_map = t.qpn_map,
           \A k \in Id0(HostId) : t.local_map[k] \notin {NULL, f} =>
              u.local_map[k] = t.local_map[k],
           \A g \in Ptr : g # f => u.flow[g] = t.flow[g],
           ~t.flow[f].in_qpn_map, ~u.flow[f].in_qpn_map
    PROVE  Sound(u)
<1>1. \A g \in Ptr : t.flow[g].in_qpn_map => g # f /\ u.flow[g] = t.flow[g]
  OBVIOUS
<1>2. \A g \in Ptr : u.flow[g].in_qpn_map => g # f /\ u.flow[g] = t.flow[g]
  OBVIOUS
<1>3. ASSUME NEW g \in Ptr, t.flow[g].in_qpn_map
      PROVE  u.local_map[u.flow[g].local_id] = g
  <2>1. t.local_map[t.flow[g].local_id] = g
    BY <1>3 DEF Sound, Exact, Answers
  <2>2. t.flow[g].local_id \in Id0(HostId)
    BY DEF Sound, TrackerType, FlowState
  <2>. QED
    BY <1>1, <1>3, <2>1, <2>2, MarkersAssumption DEF Sound, TrackerType
<1>4. \A g \in Ptr : \A k : Answers(t, g, k) => Answers(u, g, k)
  BY <1>1, <1>3 DEF Answers
<1>5. Exact(u)
  BY <1>1, <1>2, <1>4 DEF Sound, Exact
<1>. QED
  BY <1>5 DEF Sound

\* add_new_flow keeps the tracker sound when its asserts hold and the flow it
\* extends is not in the query table.
LEMMA AddNewFlowSound ==
    ASSUME NEW t, Sound(t), NEW l \in Id0(HostId), NEW r \in CmFlowKey,
           NEW new \in Ptr, add_new_flow_ok(t, l, r),
           t.local_map[l] = NULL /\ t.remote_map[r] = NULL => new \in Free(t),
           ~t.flow[target(t, l, r, new)].in_qpn_map
    PROVE  Sound(add_new_flow(t, l, r, new))
<1>. DEFINE f == target(t, l, r, new)
            u == add_new_flow(t, l, r, new)
            addLocal == t.local_map[l] = NULL /\ l # 0
            addRemote == t.remote_map[r] = NULL /\ IsKey(r)
            s == IF t.local_map[l] = NULL /\ t.remote_map[r] = NULL
                 THEN NewFlowState ELSE t.flow[f]
<1>0. t \in TrackerType
  BY DEF Sound
<1>1. /\ f \in Ptr
      /\ u \in TrackerType
      /\ u.qpn_map = t.qpn_map
      /\ u.local_map = [t.local_map EXCEPT ![l] = IF addLocal THEN f ELSE @]
      /\ u.remote_map = [t.remote_map EXCEPT ![r] = IF addRemote THEN f ELSE @]
      /\ \A g \in Ptr : g # f => u.flow[g] = t.flow[g]
      /\ u.flow[f].local_id = IF addLocal THEN l ELSE s.local_id
      /\ u.flow[f].remote_id = IF addRemote THEN r ELSE s.remote_id
      /\ u.flow[f].in_qpn_map = s.in_qpn_map
  <2>1. AddNewFlowEffect(t, l, r, new)
    BY <1>0, AddNewFlowFields
  <2>. QED
    BY <2>1 DEF AddNewFlowEffect
<1>2. ~s.in_qpn_map
  BY DEF NewFlowState
<1>3. \A k \in Id0(HostId) : t.local_map[k] \notin {NULL, f} =>
         u.local_map[k] = t.local_map[k]
  BY <1>1, <1>0 DEF TrackerType
<1>4. Indexed(u)
  <2>1. CASE t.local_map[l] = NULL /\ t.remote_map[r] = NULL
    \* A new flow: no map held it.
    <3>1. f = new
      BY <2>1 DEF target
    <3>2. /\ \A k \in Id0(HostId) : t.local_map[k] # f
          /\ \A k \in CmFlowKey : t.remote_map[k] # f
      BY <2>1, <3>1 DEF Free, Live
    <3>. HIDE DEF f, u, s
    <3>3. ASSUME NEW k \in Id0(HostId), u.local_map[k] # NULL
          PROVE  k # 0 /\ u.flow[u.local_map[k]].local_id = k
      <4>1. CASE u.local_map[k] = t.local_map[k]
        <5>1. t.local_map[k] \in Ptr /\ t.local_map[k] # f /\ t.local_map[k] # NULL
          BY <1>0, <3>2, <3>3, <4>1 DEF TrackerType
        <5>2. u.flow[t.local_map[k]] = t.flow[t.local_map[k]]
          BY <1>1, <5>1
        <5>. QED
          BY <4>1, <5>1, <5>2 DEF Sound, Indexed
      <4>2. CASE u.local_map[k] # t.local_map[k]
        BY <1>0, <1>1, <4>2 DEF TrackerType
      <4>. QED
        BY <4>1, <4>2
    <3>4. ASSUME NEW k \in CmFlowKey, u.remote_map[k] # NULL
          PROVE  IsKey(k) /\ u.flow[u.remote_map[k]].remote_id = k
      <4>1. CASE u.remote_map[k] = t.remote_map[k]
        <5>1. t.remote_map[k] \in Ptr /\ t.remote_map[k] # f /\ t.remote_map[k] # NULL
          BY <1>0, <3>2, <3>4, <4>1 DEF TrackerType
        <5>2. u.flow[t.remote_map[k]] = t.flow[t.remote_map[k]]
          BY <1>1, <5>1
        <5>. QED
          BY <4>1, <5>1, <5>2 DEF Sound, Indexed
      <4>2. CASE u.remote_map[k] # t.remote_map[k]
        BY <1>0, <1>1, <4>2 DEF TrackerType
      <4>. QED
        BY <4>1, <4>2
    <3>. QED
      BY <3>3, <3>4 DEF Indexed
  <2>2. CASE ~(t.local_map[l] = NULL /\ t.remote_map[r] = NULL)
    \* An indexed flow: the asserts say it lacked the id it is given.
    <3>1. s = t.flow[f]
      BY <2>2
    <3>2. /\ addLocal => t.flow[f].local_id = 0
          /\ addRemote => ~IsKey(t.flow[f].remote_id)
      BY <2>2 DEF add_new_flow_ok, target
    <3>. HIDE DEF f, u, s
    <3>3. f # NULL
      BY <1>1, MarkersAssumption
    <3>4. addLocal => \A k \in Id0(HostId) : t.local_map[k] # f
      BY <3>2, <3>3 DEF Sound, Indexed
    <3>5. addRemote => \A k \in CmFlowKey : t.remote_map[k] # f
      BY <3>2, <3>3 DEF Sound, Indexed
    <3>6. ASSUME NEW k \in Id0(HostId), u.local_map[k] # NULL
          PROVE  k # 0 /\ u.flow[u.local_map[k]].local_id = k
      <4>1. CASE u.local_map[k] = t.local_map[k]
        BY <1>0, <1>1, <3>1, <3>4, <3>6, <4>1 DEF Sound, Indexed, TrackerType
      <4>2. CASE u.local_map[k] # t.local_map[k]
        BY <1>0, <1>1, <4>2 DEF TrackerType
      <4>. QED
        BY <4>1, <4>2
    <3>7. ASSUME NEW k \in CmFlowKey, u.remote_map[k] # NULL
          PROVE  IsKey(k) /\ u.flow[u.remote_map[k]].remote_id = k
      <4>1. CASE u.remote_map[k] = t.remote_map[k]
        BY <1>0, <1>1, <3>1, <3>5, <3>7, <4>1 DEF Sound, Indexed, TrackerType
      <4>2. CASE u.remote_map[k] # t.remote_map[k]
        BY <1>0, <1>1, <4>2 DEF TrackerType
      <4>. QED
        BY <4>1, <4>2
    <3>. QED
      BY <3>6, <3>7 DEF Indexed
  <2>. QED
    BY <2>1, <2>2
<1>5. Sound(u)
  <2>. HIDE DEF f, u, s
  <2>1. ~t.flow[f].in_qpn_map
    BY DEF f
  <2>2. /\ f \in Ptr /\ u \in TrackerType
        /\ u.qpn_map = t.qpn_map
        /\ \A g \in Ptr : g # f => u.flow[g] = t.flow[g]
        /\ ~u.flow[f].in_qpn_map
    BY <1>1, <1>2
  <2>. QED
    BY <1>3, <1>4, <2>1, <2>2, UnmappedChangeSound
<1>. QED
  BY <1>5

\* get_flow never extends a mapped flow: found by its remote key only, it would
\* have a local id, which the asserts exclude.
LEMMA GetFlowTarget ==
    ASSUME NEW t, Sound(t), NEW l \in Id0(HostId), NEW r \in CmFlowKey,
           NEW new \in Free(t), get_flow_abort(t, l, r) = "none",
           lookup(t, l, r) = NULL
    PROVE  ~t.flow[target(t, l, r, new)].in_qpn_map
<1>1. t \in TrackerType /\ new \in Ptr /\ ~t.flow[new].in_qpn_map
  BY FreshNotMapped DEF Sound
<1>2. add_new_flow_ok(t, l, r)
  BY DEF get_flow_abort
<1>3. t.local_map[l] = NULL
  BY DEF lookup, Sound, Indexed
<1>4. CASE t.remote_map[r] = NULL
  BY <1>1, <1>3, <1>4 DEF target
<1>5. CASE t.remote_map[r] # NULL
  <2>1. l # 0 /\ target(t, l, r, new) = t.remote_map[r]
    BY <1>3, <1>5 DEF lookup, target
  <2>2. t.flow[t.remote_map[r]].local_id = 0
    BY <1>2, <1>3, <1>5, <2>1 DEF add_new_flow_ok
  <2>3. t.remote_map[r] \in Ptr /\ 0 \in Id0(HostId)
    BY <1>1, <1>5 DEF TrackerType, Id0
  <2>4. t.local_map[0] = NULL
    BY <2>3 DEF Sound, Indexed
  <2>5. t.remote_map[r] # NULL
    BY <1>5
  <2>6. ~t.flow[t.remote_map[r]].in_qpn_map
    BY <2>2, <2>3, <2>4, <2>5 DEF Sound, Exact, Answers
  <2>. QED
    BY <2>1, <2>6
<1>. QED
  BY <1>4, <1>5

\* get_flow, when it fails no assert, returns a flow of a sound tracker.
LEMMA GetFlowSound ==
    ASSUME NEW t, Sound(t), NEW l \in Id0(HostId), NEW r \in CmFlowKey,
           NEW new \in Free(t), get_flow_abort(t, l, r) = "none"
    PROVE  LET g == get_flow(t, l, r, new)
           IN  Sound(g) /\ lookup(g, l, r) \in Ptr
<1>. DEFINE g == get_flow(t, l, r, new)
<1>1. l # 0 \/ IsKey(r)
  BY DEF get_flow_abort
<1>2. t \in TrackerType /\ new \in Ptr /\ ~t.flow[new].in_qpn_map
  BY FreshNotMapped DEF Sound
<1>3. CASE lookup(t, l, r) # NULL
  BY <1>2, <1>3 DEF get_flow, lookup, TrackerType
<1>4. CASE lookup(t, l, r) = NULL
  <2>1. g = add_new_flow(t, l, r, new)
    BY <1>4 DEF get_flow
  <2>2. add_new_flow_ok(t, l, r)
    BY <1>1, <1>4 DEF get_flow_abort
  <2>3. AddNewFlowEffect(t, l, r, new)
    BY <1>2, AddNewFlowFields
  <2>4. t.local_map[l] = NULL
    BY <1>4 DEF lookup, Sound, Indexed
  <2>5. ~t.flow[target(t, l, r, new)].in_qpn_map
    BY <1>4, GetFlowTarget
  <2>6. Sound(g)
    BY <1>2, <2>1, <2>2, <2>5, AddNewFlowSound
  <2>. HIDE DEF g
  <2>7. lookup(g, l, r) \in Ptr
    <3>1. /\ target(t, l, r, new) \in Ptr
          /\ g.local_map =
               [t.local_map EXCEPT ![l] =
                  IF t.local_map[l] = NULL /\ l # 0 THEN target(t, l, r, new) ELSE @]
          /\ g.remote_map =
               [t.remote_map EXCEPT ![r] =
                  IF t.remote_map[r] = NULL /\ IsKey(r) THEN target(t, l, r, new) ELSE @]
      BY <2>1, <2>3 DEF AddNewFlowEffect
    <3>. QED
      BY <1>1, <1>2, <1>4, <2>4, <3>1 DEF lookup, TrackerType
  <2>. QED
    BY <2>6, <2>7 DEF g
<1>. QED
  BY <1>3, <1>4

\* on_established keeps the tracker sound when the flow is established, not
\* yet mapped, and indexed by its local id.
LEMMA OnEstablishedSound ==
    ASSUME NEW t, Sound(t), NEW f \in Ptr, ~t.flow[f].in_qpn_map,
           t.flow[f].state = "ESTABLISHED",
           t.local_map[t.flow[f].local_id] = f
    PROVE  Sound(on_established(t, f))
<1>. DEFINE k == get_flow_key(t.flow[f])
            u == [t EXCEPT !.qpn_map[k] = t.flow[f].local_qpn,
                           !.flow[f].in_qpn_map = TRUE]
<1>1. SUFFICES ASSUME t.flow[f].local_qpn # 0, t.flow[f].remote_qpn # 0,
                      t.qpn_map[k] = Absent
               PROVE  Sound(u)
  BY DEF on_established
<1>2. t \in TrackerType /\ t.flow[f] \in FlowState
  BY DEF Sound, TrackerType
<1>3. k \in FlowKey
  BY <1>2 DEF FlowState, CmFlowKey, FlowKey, get_flow_key
<1>. HIDE DEF k
<1>4. /\ u \in TrackerType
      /\ u.local_map = t.local_map /\ u.remote_map = t.remote_map
      /\ u.qpn_map = [t.qpn_map EXCEPT ![k] = t.flow[f].local_qpn]
      /\ \A g \in Ptr : g # f => u.flow[g] = t.flow[g]
      /\ u.flow[f] = [t.flow[f] EXCEPT !.in_qpn_map = TRUE]
  BY Zenon, <1>2, <1>3 DEF TrackerType, FlowState
<1>. HIDE DEF u
<1>5. /\ u.flow[f].in_qpn_map
      /\ u.flow[f].local_id = t.flow[f].local_id
      /\ u.flow[f].remote_id = t.flow[f].remote_id
      /\ u.flow[f].local_qpn = t.flow[f].local_qpn
      /\ u.flow[f].remote_qpn = t.flow[f].remote_qpn
      /\ u.flow[f].state = t.flow[f].state
  BY <1>2, <1>4 DEF FlowState
<1>6. Indexed(u)
  <2>1. \A g \in Ptr : /\ u.flow[g].local_id = t.flow[g].local_id
                       /\ u.flow[g].remote_id = t.flow[g].remote_id
    BY Zenon, <1>4, <1>5
  <2>2. u.local_map = t.local_map /\ u.remote_map = t.remote_map
    BY <1>4
  <2>. QED
    BY <1>2, <2>1, <2>2, IndexedKept DEF Sound
<1>7. Answers(u, f, k) /\ get_flow_key(u.flow[f]) = k
  BY <1>1, <1>2, <1>3, <1>4, <1>5 DEF Answers, get_flow_key, k, TrackerType
<1>8. ASSUME NEW g \in Ptr, t.flow[g].in_qpn_map
      PROVE  /\ g # f /\ get_flow_key(t.flow[g]) # k
             /\ u.flow[g] = t.flow[g]
             /\ Answers(u, g, get_flow_key(t.flow[g]))
  <2>1. g # f /\ u.flow[g] = t.flow[g]
    BY <1>4, <1>8
  <2>2. Answers(t, g, get_flow_key(t.flow[g]))
    BY <1>8 DEF Sound, Exact
  <2>3. t.flow[g].local_qpn # Absent /\ get_flow_key(t.flow[g]) \in FlowKey
    BY <1>2, MarkersAssumption
    DEF TrackerType, FlowState, FlowKey, CmFlowKey, get_flow_key
  <2>4. get_flow_key(t.flow[g]) # k
    BY <1>1, <2>2, <2>3 DEF Answers
  <2>. QED
    BY <1>2, <1>3, <1>4, <2>1, <2>2, <2>3, <2>4 DEF Answers, TrackerType
<1>9. Exact(u)
  <2>1. ASSUME NEW x \in FlowKey, u.qpn_map[x] # Absent
        PROVE  \E g \in Ptr : Answers(u, g, x)
    <3>1. CASE x = k
      BY <1>7, <3>1
    <3>2. CASE x # k
      <4>1. t.qpn_map[x] # Absent
        BY <1>2, <1>4, <2>1, <3>2 DEF TrackerType
      <4>2. PICK g \in Ptr : Answers(t, g, x)
        BY <4>1 DEF Sound, Exact
      <4>. QED
        BY <1>8, <4>2 DEF Answers
    <3>. QED
      BY <3>1, <3>2
  <2>2. \A g \in Ptr : u.flow[g].in_qpn_map => g = f \/ t.flow[g].in_qpn_map
    BY <1>4
  <2>3. \A g \in Ptr : u.flow[g].in_qpn_map => Answers(u, g, get_flow_key(u.flow[g]))
    BY <1>7, <1>8, <2>2
  <2>4. ASSUME NEW g \in Ptr, NEW h \in Ptr,
               u.flow[g].in_qpn_map, u.flow[h].in_qpn_map,
               get_flow_key(u.flow[g]) = get_flow_key(u.flow[h])
        PROVE  g = h
    BY <1>7, <1>8, <2>2, <2>4 DEF Sound, Exact
  <2>. QED
    BY <2>1, <2>3, <2>4 DEF Exact
<1>. QED
  BY <1>4, <1>6, <1>9 DEF Sound

\* Taking a mapped flow out of the query table keeps the tracker sound, and
\* on_disconnected does take it out.
LEMMA OnDisconnectedSound ==
    ASSUME NEW t, Sound(t), NEW f \in Ptr, t.flow[f].in_qpn_map
    PROVE  LET u == on_disconnected(t, f)
           IN  /\ Sound(u) /\ ~u.flow[f].in_qpn_map
               /\ u.local_map = t.local_map /\ u.remote_map = t.remote_map
<1>. DEFINE k == get_flow_key(t.flow[f])
            u == [t EXCEPT !.qpn_map[k] = Absent, !.flow[f].in_qpn_map = FALSE]
<1>1. t \in TrackerType /\ t.flow[f] \in FlowState
  BY DEF Sound, TrackerType
<1>2. k \in FlowKey
  BY <1>1 DEF FlowState, CmFlowKey, FlowKey, get_flow_key
<1>3. Answers(t, f, k)
  BY DEF Sound, Exact
<1>4. on_disconnected(t, f) = u
  <2>1. t.qpn_map[k] # Absent
    BY <1>1, <1>3, MarkersAssumption DEF Answers, FlowState
  <2>. QED
    BY <1>3, <2>1 DEF on_disconnected, Answers
<1>. HIDE DEF k
<1>5. /\ u \in TrackerType
      /\ u.local_map = t.local_map /\ u.remote_map = t.remote_map
      /\ u.qpn_map = [t.qpn_map EXCEPT ![k] = Absent]
      /\ \A g \in Ptr : g # f => u.flow[g] = t.flow[g]
      /\ u.flow[f] = [t.flow[f] EXCEPT !.in_qpn_map = FALSE]
  BY Zenon, <1>1, <1>2 DEF TrackerType, FlowState, Id0
<1>. HIDE DEF u
<1>6. /\ ~u.flow[f].in_qpn_map
      /\ u.flow[f].local_id = t.flow[f].local_id
      /\ u.flow[f].remote_id = t.flow[f].remote_id
  BY <1>1, <1>5 DEF FlowState
<1>7. Indexed(u)
  BY Zenon, <1>1, <1>5, <1>6, IndexedKept DEF Sound
<1>8. ASSUME NEW g \in Ptr, NEW x \in FlowKey, g # f, Answers(t, g, x)
      PROVE  x # k /\ Answers(u, g, x)
  <2>1. x # k
    BY <1>3, <1>8 DEF Answers, Sound, Exact
  <2>. QED
    BY <1>1, <1>5, <1>8, <2>1 DEF Answers, TrackerType
<1>9. Exact(u)
  <2>1. ASSUME NEW x \in FlowKey, u.qpn_map[x] # Absent
        PROVE  \E g \in Ptr : Answers(u, g, x)
    <3>1. x # k /\ t.qpn_map[x] # Absent
      BY <1>1, <1>5, <2>1 DEF TrackerType
    <3>2. PICK g \in Ptr : Answers(t, g, x)
      BY <3>1 DEF Sound, Exact
    <3>3. g # f
      BY <3>1, <3>2, <1>3 DEF Answers
    <3>. QED
      BY <1>8, <3>2, <3>3
  <2>2. ASSUME NEW g \in Ptr, u.flow[g].in_qpn_map
        PROVE  /\ g # f /\ u.flow[g] = t.flow[g]
               /\ Answers(u, g, get_flow_key(u.flow[g]))
    <3>1. g # f /\ u.flow[g] = t.flow[g]
      BY Zenon, <1>5, <1>6, <2>2
    <3>2. get_flow_key(t.flow[g]) \in FlowKey
      BY <1>1 DEF TrackerType, FlowState, FlowKey, CmFlowKey, get_flow_key
    <3>. QED
      BY <1>8, <2>2, <3>1, <3>2 DEF Sound, Exact
  <2>. QED
    BY <2>1, <2>2 DEF Sound, Exact
<1>. QED
  BY <1>4, <1>5, <1>6, <1>7, <1>9 DEF Sound

\* The last two statements of erase_flow.
Unindex(t, l, r) == [t EXCEPT !.local_map[l] = NULL, !.remote_map[r] = NULL]

\* Removing map entries that no mapped flow needs keeps the tracker sound.
LEMMA UnindexSound ==
    ASSUME NEW t, Sound(t), NEW l \in Id0(HostId), NEW r \in CmFlowKey,
           t.local_map[l] # NULL => ~t.flow[t.local_map[l]].in_qpn_map
    PROVE  Sound(Unindex(t, l, r))
<1>. DEFINE u == Unindex(t, l, r)
<1>1. t \in TrackerType
  BY DEF Sound
<1>2. /\ u \in TrackerType
      /\ u.flow = t.flow /\ u.qpn_map = t.qpn_map
      /\ u.local_map = [t.local_map EXCEPT ![l] = NULL]
      /\ u.remote_map = [t.remote_map EXCEPT ![r] = NULL]
  BY Zenon, <1>1 DEF TrackerType, Unindex
<1>. HIDE DEF u
<1>3. Indexed(u)
  <2>1. /\ \A x \in Id0(HostId) : u.local_map[x] \in {t.local_map[x], NULL}
        /\ \A x \in CmFlowKey : u.remote_map[x] \in {t.remote_map[x], NULL}
    BY <1>1, <1>2 DEF TrackerType
  <2>. QED
    BY Zenon, <1>1, <1>2, <2>1, IndexedKept DEF Sound
<1>4. ASSUME NEW g \in Ptr, NEW k, Answers(t, g, k)
      PROVE  Answers(u, g, k)
  <2>1. t.flow[g].local_id \in Id0(HostId)
    BY <1>1 DEF TrackerType, FlowState
  <2>2. t.flow[g].local_id # l
    BY <1>4, MarkersAssumption DEF Answers
  <2>. QED
    BY <1>1, <1>2, <1>4, <2>1, <2>2 DEF Answers, TrackerType
<1>5. Exact(u)
  BY <1>2, <1>4 DEF Sound, Exact
<1>. QED
  BY <1>2, <1>3, <1>5 DEF Sound, u

\* erase_flow keeps the tracker sound, whichever ids the message carries.
LEMMA EraseFlowSound ==
    ASSUME NEW t, Sound(t), NEW l \in Id0(HostId), NEW r \in CmFlowKey,
           lookup(t, l, r) \in Ptr
    PROVE  Sound(erase_flow(t, l, r))
<1>. DEFINE f == lookup(t, l, r)
            d == IF t.flow[f].in_qpn_map THEN on_disconnected(t, f) ELSE t
<1>1. erase_flow(t, l, r) = Unindex(d, l, r)
  BY MarkersAssumption DEF erase_flow, Unindex
<1>2. /\ Sound(d) /\ ~d.flow[f].in_qpn_map
      /\ d.local_map = t.local_map
  BY OnDisconnectedSound
<1>3. d.local_map[l] # NULL => d.local_map[l] = f
  BY Zenon, <1>2 DEF lookup, Sound, Indexed
<1>. HIDE DEF d, f
<1>. QED
  BY <1>1, <1>2, <1>3, UnindexSound

\* Freeing the flows no map holds keeps the tracker sound.
LEMMA ReleaseSound ==
    ASSUME NEW t, Sound(t)
    PROVE  /\ Sound(Release(t))
           /\ Release(t).local_map = t.local_map
           /\ Release(t).remote_map = t.remote_map
           /\ Release(t).qpn_map = t.qpn_map
<1>. DEFINE u == Release(t)
<1>1. t \in TrackerType
  BY DEF Sound
<1>2. NewFlowState \in FlowState
  BY DEF NewFlowState, FlowState, FLOW_STATES, Id0, CmFlowKey, NoKey
<1>3. /\ u \in TrackerType
      /\ u.local_map = t.local_map /\ u.remote_map = t.remote_map
      /\ u.qpn_map = t.qpn_map
      /\ u.flow = [f \in Ptr |-> IF f \in Live(t) THEN t.flow[f] ELSE NewFlowState]
  BY Zenon, <1>1, <1>2 DEF Release, TrackerType
<1>. HIDE DEF u
<1>4. Indexed(u)
  <2>1. /\ \A l \in Id0(HostId) : t.local_map[l] # NULL => t.local_map[l] \in Live(t)
        /\ \A k \in CmFlowKey : t.remote_map[k] # NULL => t.remote_map[k] \in Live(t)
    BY <1>1 DEF Live, TrackerType
  <2>2. \A f \in Live(t) : u.flow[f] = t.flow[f]
    BY Zenon, <1>3 DEF Live
  <2>3. u.local_map = t.local_map /\ u.remote_map = t.remote_map
    BY <1>3
  <2>. QED
    BY <2>1, <2>2, <2>3 DEF Sound, Indexed
<1>5. \A f \in Ptr : t.flow[f].in_qpn_map => f \in Live(t)
  <2>. SUFFICES ASSUME NEW f \in Ptr, t.flow[f].in_qpn_map PROVE f \in Live(t)
    OBVIOUS
  <2>1. t.local_map[t.flow[f].local_id] = f
    BY DEF Sound, Exact, Answers
  <2>2. t.flow[f].local_id \in Id0(HostId)
    BY <1>1 DEF TrackerType, FlowState
  <2>. QED
    BY <2>1, <2>2 DEF Live
<1>6. \A f \in Ptr : u.flow[f].in_qpn_map => u.flow[f] = t.flow[f]
  <2>1. ~NewFlowState.in_qpn_map
    BY DEF NewFlowState
  <2>. QED
    BY <1>3, <2>1
<1>7. \A f \in Ptr : \A k : Answers(t, f, k) => Answers(u, f, k)
  BY <1>3, <1>5 DEF Answers
<1>8. Exact(u)
  BY <1>3, <1>6, <1>7 DEF Sound, Exact
<1>. QED
  BY <1>3, <1>4, <1>8 DEF Sound, u

\* u is t but for the state and the QPNs of the flow f.
Touches(t, u, f) ==
    /\ u.local_map = t.local_map
    /\ u.remote_map = t.remote_map
    /\ \A g \in Ptr : g # f => u.flow[g] = t.flow[g]
    /\ u.flow[f].local_id = t.flow[f].local_id
    /\ u.flow[f].remote_id = t.flow[f].remote_id
    /\ u.flow[f].in_qpn_map = t.flow[f].in_qpn_map

\* Only a connected flow is in the query table.
LEMMA NotConnectedNotMapped ==
    ASSUME NEW t, Sound(t), NEW f \in Ptr,
           t.flow[f].state \notin {"ESTABLISHED", "DREQ_SENT", "DREQ_RCVD"}
    PROVE  ~t.flow[f].in_qpn_map
BY DEF Sound, Exact, Answers

\* A new state keeps the tracker sound, unless it disconnects a mapped flow.
LEMMA SetStateSound ==
    ASSUME NEW t, Sound(t), NEW f \in Ptr, NEW st \in FLOW_STATES,
           t.flow[f].in_qpn_map => st \in {"ESTABLISHED", "DREQ_SENT", "DREQ_RCVD"}
    PROVE  LET u == SetState(t, f, st)
           IN  Sound(u) /\ Touches(t, u, f) /\ u.flow[f].state = st
<1>1. t \in TrackerType /\ t.flow[f] \in FlowState
  BY DEF Sound, TrackerType
<1>. DEFINE s == [t.flow[f] EXCEPT !.state = st]
            u == [t EXCEPT !.flow[f] = s]
<1>2. /\ s \in FlowState /\ s.state = st
      /\ s.local_id = t.flow[f].local_id /\ s.remote_id = t.flow[f].remote_id
      /\ s.local_qpn = t.flow[f].local_qpn /\ s.remote_qpn = t.flow[f].remote_qpn
      /\ s.in_qpn_map = t.flow[f].in_qpn_map
  BY <1>1 DEF FlowState
<1>3. SetState(t, f, st) = u
  BY <1>1 DEF SetState, TrackerType
<1>. HIDE DEF s
<1>4. Sound(u)
  BY <1>2, UpdateSound
<1>5. Touches(t, u, f) /\ u.flow[f].state = st
  BY <1>1, <1>2 DEF Touches, TrackerType
<1>. QED
  BY <1>3, <1>4, <1>5

\* A new QPN keeps the tracker sound if the flow is not mapped.
LEMMA SetQpnSound ==
    ASSUME NEW t, Sound(t), NEW f \in Ptr, NEW q \in Id0(Qpn),
           ~t.flow[f].in_qpn_map
    PROVE  /\ Sound(SetLocalQpn(t, f, q)) /\ Touches(t, SetLocalQpn(t, f, q), f)
           /\ Sound(SetRemoteQpn(t, f, q)) /\ Touches(t, SetRemoteQpn(t, f, q), f)
<1>1. t \in TrackerType /\ t.flow[f] \in FlowState
  BY DEF Sound, TrackerType
<1>2. ASSUME NEW s \in FlowState,
             s.local_id = t.flow[f].local_id, s.remote_id = t.flow[f].remote_id,
             s.in_qpn_map = t.flow[f].in_qpn_map
      PROVE  Sound([t EXCEPT !.flow[f] = s]) /\ Touches(t, [t EXCEPT !.flow[f] = s], f)
  <2>1. Sound([t EXCEPT !.flow[f] = s])
    BY <1>2, UpdateSound
  <2>2. Touches(t, [t EXCEPT !.flow[f] = s], f)
    BY <1>1, <1>2 DEF Touches, TrackerType
  <2>. QED
    BY <2>1, <2>2
<1>. DEFINE a == [t.flow[f] EXCEPT !.local_qpn = q]
            b == [t.flow[f] EXCEPT !.remote_qpn = q]
<1>3. /\ a \in FlowState /\ b \in FlowState
      /\ a.local_id = t.flow[f].local_id /\ a.remote_id = t.flow[f].remote_id
      /\ a.in_qpn_map = t.flow[f].in_qpn_map
      /\ b.local_id = t.flow[f].local_id /\ b.remote_id = t.flow[f].remote_id
      /\ b.in_qpn_map = t.flow[f].in_qpn_map
  BY <1>1 DEF FlowState
<1>4. /\ SetLocalQpn(t, f, q) = [t EXCEPT !.flow[f] = a]
      /\ SetRemoteQpn(t, f, q) = [t EXCEPT !.flow[f] = b]
  BY <1>1 DEF SetLocalQpn, SetRemoteQpn, TrackerType
<1>. HIDE DEF a, b
<1>. QED
  BY <1>2, <1>3, <1>4

\* add_new_flow's asserts and its choice of a flow do not look at what Touches
\* lets change.
LEMMA TouchesSameChoice ==
    ASSUME NEW t \in TrackerType, NEW u, NEW f \in Ptr, Touches(t, u, f),
           NEW l \in Id0(HostId), NEW r \in CmFlowKey, NEW new
    PROVE  /\ add_new_flow_ok(t, l, r) => add_new_flow_ok(u, l, r)
           /\ target(u, l, r, new) = target(t, l, r, new)
<1>1. \A g \in Ptr : /\ u.flow[g].local_id = t.flow[g].local_id
                     /\ u.flow[g].remote_id = t.flow[g].remote_id
  BY Zenon DEF Touches
<1>2. u.local_map = t.local_map /\ u.remote_map = t.remote_map
  BY DEF Touches
<1>3. /\ t.local_map[l] # NULL => t.local_map[l] \in Ptr
      /\ t.remote_map[r] # NULL => t.remote_map[r] \in Ptr
  BY DEF TrackerType
<1>. QED
  BY <1>1, <1>2, <1>3 DEF add_new_flow_ok, target

\* get_flow(local_id), as most handlers call it.
LEMMA GetFlowByLocalId ==
    ASSUME NEW t, Sound(t), NEW l \in Id0(HostId), NEW new \in Free(t),
           get_flow_abort(t, l, NoKey) = "none"
    PROVE  LET g == get_flow(t, l, NoKey, new)
               f == lookup(g, l, NoKey)
           IN  /\ Sound(g) /\ f \in Ptr /\ l # 0
               /\ g.local_map[l] = f /\ g.flow[f].local_id = l
<1>. DEFINE g == get_flow(t, l, NoKey, new)
            f == lookup(g, l, NoKey)
<1>1. NoKey \in CmFlowKey
  BY DEF NoKey, CmFlowKey, Id0
<1>2. l # 0
  BY DEF get_flow_abort, NoKey, IsKey
<1>3. Sound(g) /\ f \in Ptr
  BY <1>1, GetFlowSound
<1>. HIDE DEF g
<1>4. g.local_map[l] = f
  BY <1>2 DEF lookup
<1>. HIDE DEF f
<1>5. g.flow[f].local_id = l
  <2>1. g.local_map[l] # NULL
    BY <1>3, <1>4, MarkersAssumption
  <2>. QED
    BY <1>3, <1>4, <2>1 DEF Sound, Indexed
<1>. QED
  BY <1>2, <1>3, <1>4, <1>5 DEF f, g

\* The step of rtu_sent and rtu_received.
LEMMA EstablishSound ==
    ASSUME NEW g, Sound(g), NEW f \in Ptr, g.local_map[g.flow[f].local_id] = f,
           g.flow[f].state \notin {"ESTABLISHED", "DREQ_SENT", "DREQ_RCVD"}
    PROVE  Sound(on_established(SetState(g, f, "ESTABLISHED"), f))
<1>. DEFINE u == SetState(g, f, "ESTABLISHED")
<1>1. ~g.flow[f].in_qpn_map
  BY NotConnectedNotMapped
<1>2. Sound(u) /\ Touches(g, u, f) /\ u.flow[f].state = "ESTABLISHED"
  BY <1>1, SetStateSound DEF FLOW_STATES
<1>. HIDE DEF u
<1>3. ~u.flow[f].in_qpn_map /\ u.local_map[u.flow[f].local_id] = f
  BY <1>1, <1>2 DEF Touches
<1>4. Sound(on_established(u, f))
  BY <1>2, <1>3, OnEstablishedSound
<1>. QED
  BY <1>4 DEF u

\* The step of req_sent and req_received.
LEMMA RequestSound ==
    ASSUME NEW g, Sound(g), NEW f \in Ptr, NEW q \in Id0(Qpn),
           g.flow[f].state \notin {"ESTABLISHED", "DREQ_SENT", "DREQ_RCVD"},
           NEW st \in FLOW_STATES
    PROVE  /\ Sound(SetLocalQpn(SetState(g, f, st), f, q))
           /\ Sound(SetRemoteQpn(SetState(g, f, st), f, q))
           /\ Touches(g, SetRemoteQpn(SetState(g, f, st), f, q), f)
<1>. DEFINE u == SetState(g, f, st)
<1>1. ~g.flow[f].in_qpn_map
  BY NotConnectedNotMapped
<1>2. Sound(u) /\ Touches(g, u, f)
  BY <1>1, SetStateSound
<1>. HIDE DEF u
<1>3. ~u.flow[f].in_qpn_map
  BY <1>1, <1>2 DEF Touches
<1>4. /\ Sound(SetLocalQpn(u, f, q))
      /\ Sound(SetRemoteQpn(u, f, q)) /\ Touches(u, SetRemoteQpn(u, f, q), f)
  BY <1>2, <1>3, SetQpnSound
<1>5. Touches(g, SetRemoteQpn(u, f, q), f)
  BY <1>2, <1>4 DEF Touches
<1>. QED
  BY <1>4, <1>5 DEF u

\* The step of rep_sent and rep_received: linking the second id to a flow.
LEMMA LinkSound ==
    ASSUME NEW g, Sound(g), NEW f \in Ptr, NEW u, Sound(u), Touches(g, u, f),
           NEW l \in Id0(HostId), NEW r \in CmFlowKey, NEW new \in Ptr,
           lookup(g, l, r) = f, ~g.flow[f].in_qpn_map, add_new_flow_ok(g, l, r)
    PROVE  LET v == add_new_flow(u, l, r, new)
           IN  Sound(v) /\ ~v.flow[f].in_qpn_map
<1>. DEFINE v == add_new_flow(u, l, r, new)
<1>1. g \in TrackerType /\ u \in TrackerType
  BY DEF Sound
<1>2. l = 0 => g.local_map[l] = NULL
  BY DEF Sound, Indexed
<1>3. /\ target(g, l, r, new) = f
      /\ ~(g.local_map[l] = NULL /\ g.remote_map[r] = NULL)
  BY <1>2, MarkersAssumption DEF lookup, target
<1>4. add_new_flow_ok(u, l, r) /\ target(u, l, r, new) = f
  BY <1>1, <1>3, TouchesSameChoice
<1>5. /\ ~(u.local_map[l] = NULL /\ u.remote_map[r] = NULL)
      /\ ~u.flow[f].in_qpn_map
  BY <1>3 DEF Touches
<1>6. Sound(v)
  BY <1>4, <1>5, AddNewFlowSound
<1>7. ~v.flow[f].in_qpn_map
  <2>1. AddNewFlowEffect(u, l, r, new)
    BY <1>1, AddNewFlowFields
  <2>. HIDE DEF v
  <2>2. v.flow[f].in_qpn_map = u.flow[f].in_qpn_map
    BY Zenon, <1>4, <1>5, <2>1 DEF AddNewFlowEffect, v
  <2>. QED
    BY <1>5, <2>2
<1>. QED
  BY <1>6, <1>7

\* Every handler for packets of the host that fails no assert takes a sound
\* tracker to a sound tracker.
LEMMA HostHandlersSound ==
    ASSUME NEW t, Sound(t), NEW p \in AnyHostPacket, NEW new \in Free(t),
           host_abort(t, p, new) = "none"
    PROVE  Sound(host_handlers(t, p, new))
<1>. DEFINE l == p.local_comm_id
            r == <<p.daddr, p.remote_comm_id>>
            g == get_flow(t, l, NoKey, new)
            f == lookup(g, l, NoKey)
            gr == get_flow(t, l, r, new)
            fr == lookup(gr, l, r)
<1>1. /\ l \in Id0(HostId) /\ r \in CmFlowKey /\ p.local_qpn \in Id0(Qpn)
      /\ p.attr \in Attr /\ new \in Ptr
  BY DEF AnyHostPacket, Packet, CmFlowKey, Id0, Free
<1>2. from_dest(p, p.remote_comm_id) = r
  BY DEF from_dest
<1>. HIDE DEF l, r
<1>3. ASSUME p.attr \in {"REQ", "RTU", "DREQ", "DREP"}
      PROVE  /\ Sound(g) /\ f \in Ptr /\ l # 0
             /\ g.local_map[g.flow[f].local_id] = f
  <2>1. get_flow_abort(t, l, NoKey) = "none"
    BY <1>3 DEF host_abort, l
  <2>2. /\ Sound(g) /\ f \in Ptr /\ l # 0
        /\ g.local_map[l] = f /\ g.flow[f].local_id = l
    BY <1>1, <2>1, GetFlowByLocalId, Zenon
  <2>. HIDE DEF g, f
  <2>. QED
    BY <2>2
<1>4. ASSUME p.attr \in {"REJ", "REP"}
      PROVE  Sound(gr) /\ fr \in Ptr
  <2>1. get_flow_abort(t, l, r) = "none"
    BY <1>2, <1>4 DEF host_abort, rej_sent_abort, rep_sent_abort, l
  <2>. QED
    BY <1>1, <2>1, GetFlowSound
<1>5. CASE p.attr = "REQ"
  <2>1. host_handlers(t, p, new) =
          IF g.flow[f].state \in {"IDLE", "REQ_SENT"}
          THEN SetLocalQpn(SetState(g, f, "REQ_SENT"), f, p.local_qpn) ELSE g
    BY <1>5 DEF host_handlers, req_sent, l
  <2>. HIDE DEF g, f
  <2>. QED
    BY <1>1, <1>3, <1>5, <2>1, RequestSound DEF FLOW_STATES
<1>6. CASE p.attr = "RTU"
  <2>1. host_handlers(t, p, new) =
          IF g.flow[f].state \in {"REP_RCVD", "MRA_REP_SENT"}
          THEN on_established(SetState(g, f, "ESTABLISHED"), f) ELSE g
    BY <1>6 DEF host_handlers, rtu_sent, l
  <2>. HIDE DEF g, f
  <2>. QED
    BY <1>3, <1>6, <2>1, EstablishSound
<1>7. CASE p.attr = "DREQ"
  <2>1. host_handlers(t, p, new) =
          IF g.flow[f].state \in {"IDLE", "ESTABLISHED", "DREQ_SENT", "DREQ_RCVD"}
          THEN SetState(g, f, "DREQ_SENT") ELSE g
    BY <1>7 DEF host_handlers, dreq_sent, l
  <2>2. Sound(g) /\ f \in Ptr
    BY <1>3, <1>7
  <2>. HIDE DEF g, f
  <2>3. Sound(SetState(g, f, "DREQ_SENT"))
    BY <2>2, SetStateSound DEF FLOW_STATES
  <2>. QED
    BY <2>1, <2>2, <2>3
<1>8. CASE p.attr = "DREP"
  <2>1. host_handlers(t, p, new) =
          IF g.flow[f].state \in {"DREQ_SENT", "DREQ_RCVD"}
          THEN erase_flow(g, l, r) ELSE g
    BY <1>2, <1>8 DEF host_handlers, drep_sent, l
  <2>2. lookup(g, l, r) = f
    BY <1>3, <1>8 DEF lookup
  <2>. HIDE DEF g, f
  <2>. QED
    BY <1>1, <1>3, <1>8, <2>1, <2>2, EraseFlowSound
<1>9. CASE p.attr = "REJ"
  <2>1. host_handlers(t, p, new) \in {erase_flow(gr, l, r), gr}
    BY <1>2, <1>9 DEF host_handlers, rej_sent, l
  <2>. HIDE DEF gr
  <2>. QED
    BY <1>1, <1>4, <1>9, <2>1, EraseFlowSound
<1>10. CASE p.attr = "REP"
  <2>. DEFINE u == SetState(gr, fr, "REP_SENT")
              v == add_new_flow(u, l, r, new)
  <2>1. host_handlers(t, p, new) =
          IF gr.flow[fr].state \in {"REQ_RCVD", "MRA_REQ_SENT"}
          THEN SetLocalQpn(v, fr, p.local_qpn) ELSE gr
    BY <1>2, <1>10 DEF host_handlers, rep_sent, l
  <2>2. SUFFICES ASSUME gr.flow[fr].state \in {"REQ_RCVD", "MRA_REQ_SENT"}
                 PROVE  Sound(SetLocalQpn(v, fr, p.local_qpn))
    BY <1>4, <1>10, <2>1
  <2>3. add_new_flow_ok(gr, l, r)
    BY <1>2, <1>10, <2>2 DEF host_abort, rep_sent_abort, l
  <2>. HIDE DEF gr, fr
  <2>4. ~gr.flow[fr].in_qpn_map
    BY <1>4, <1>10, <2>2, NotConnectedNotMapped
  <2>5. Sound(u) /\ Touches(gr, u, fr)
    <3>1. "REP_SENT" \in FLOW_STATES
      BY DEF FLOW_STATES
    <3>2. Sound(gr) /\ fr \in Ptr
      BY <1>4, <1>10
    <3>. QED
      BY <2>4, <3>1, <3>2, SetStateSound, Zenon
  <2>. HIDE DEF u
  <2>6. lookup(gr, l, r) = fr
    BY DEF fr
  <2>7. Sound(v) /\ ~v.flow[fr].in_qpn_map
    BY <1>1, <1>4, <1>10, <2>3, <2>4, <2>5, <2>6, LinkSound
  <2>. HIDE DEF v
  <2>. QED
    BY <1>1, <1>4, <1>10, <2>7, SetQpnSound
<1>11. CASE p.attr \notin Handled
  BY <1>11 DEF host_handlers, Handled
<1>. QED
  BY <1>1, <1>5, <1>6, <1>7, <1>8, <1>9, <1>10, <1>11 DEF Handled, Attr

\* The same for packets of the network.
LEMMA NetHandlersSound ==
    ASSUME NEW t, Sound(t), NEW p \in AnyNetPacket, NEW new \in Free(t),
           net_abort(t, p, new) = "none"
    PROVE  Sound(net_handlers(t, p, new))
<1>. DEFINE l == p.remote_comm_id
            r == <<p.saddr, p.local_comm_id>>
            g == get_flow(t, l, NoKey, new)
            f == lookup(g, l, NoKey)
            gr == get_flow(t, l, r, new)
            fr == lookup(gr, l, r)
            g0 == get_flow(t, 0, r, new)
            f0 == lookup(g0, 0, r)
<1>1. /\ l \in Id0(HostId) /\ r \in CmFlowKey /\ p.local_qpn \in Id0(Qpn)
      /\ p.attr \in Attr /\ new \in Ptr /\ 0 \in Id0(HostId)
  BY DEF AnyNetPacket, Packet, CmFlowKey, Id0, Free
<1>2. from_src(p, p.local_comm_id) = r
  BY DEF from_src
<1>. HIDE DEF l, r
<1>3. ASSUME p.attr \in {"REP", "RTU", "DREQ", "DREP"}
      PROVE  /\ Sound(g) /\ f \in Ptr /\ l # 0
             /\ g.local_map[g.flow[f].local_id] = f
  <2>1. get_flow_abort(t, l, NoKey) = "none"
    BY <1>2, <1>3 DEF net_abort, rep_received_abort, l
  <2>2. /\ Sound(g) /\ f \in Ptr /\ l # 0
        /\ g.local_map[l] = f /\ g.flow[f].local_id = l
    BY <1>1, <2>1, GetFlowByLocalId, Zenon
  <2>. HIDE DEF g, f
  <2>. QED
    BY <2>2
<1>4. CASE p.attr = "REQ"
  <2>1. net_handlers(t, p, new) =
          IF g0.flow[f0].state \in {"REQ_RCVD", "IDLE"}
          THEN SetRemoteQpn(SetState(g0, f0, "REQ_RCVD"), f0, p.local_qpn) ELSE g0
    BY <1>2, <1>4 DEF net_handlers, req_received
  <2>2. get_flow_abort(t, 0, r) = "none"
    BY <1>2, <1>4 DEF net_abort, req_received_abort
  <2>3. Sound(g0) /\ f0 \in Ptr
    BY <1>1, <2>2, GetFlowSound
  <2>. HIDE DEF g0, f0
  <2>. QED
    BY <1>1, <2>1, <2>3, RequestSound DEF FLOW_STATES
<1>5. CASE p.attr = "REJ"
  <2>1. net_handlers(t, p, new) \in {erase_flow(gr, l, r), gr}
    BY <1>2, <1>5 DEF net_handlers, rej_received, l
  <2>2. get_flow_abort(t, l, r) = "none"
    BY <1>2, <1>5 DEF net_abort, rej_received_abort, l
  <2>3. Sound(gr) /\ fr \in Ptr
    BY <1>1, <2>2, GetFlowSound
  <2>. HIDE DEF gr
  <2>. QED
    BY <1>1, <2>1, <2>3, EraseFlowSound
<1>6. CASE p.attr = "REP"
  <2>. DEFINE u == SetRemoteQpn(SetState(g, f, "REP_RCVD"), f, p.local_qpn)
              v == add_new_flow(u, l, r, new)
  <2>1. net_handlers(t, p, new) =
          IF g.flow[f].state \in {"REQ_SENT", "MRA_REQ_RCVD"} THEN v ELSE g
    BY <1>2, <1>6 DEF net_handlers, rep_received, l
  <2>2. SUFFICES ASSUME g.flow[f].state \in {"REQ_SENT", "MRA_REQ_RCVD"}
                 PROVE  Sound(v)
    BY Zenon, <1>3, <1>6, <2>1
  <2>3. add_new_flow_ok(g, l, r)
    BY <1>2, <1>6, <2>2 DEF net_abort, rep_received_abort, l
  <2>4. lookup(g, l, r) = f
    BY <1>3, <1>6 DEF lookup
  <2>. HIDE DEF g, f
  <2>5. ~g.flow[f].in_qpn_map
    BY <1>3, <1>6, <2>2, NotConnectedNotMapped
  <2>6. Sound(u) /\ Touches(g, u, f)
    BY <1>1, <1>3, <1>6, <2>2, RequestSound DEF FLOW_STATES
  <2>. HIDE DEF u
  <2>. QED
    BY <1>1, <1>3, <1>6, <2>3, <2>4, <2>5, <2>6, LinkSound
<1>7. CASE p.attr = "RTU"
  <2>1. net_handlers(t, p, new) =
          IF g.flow[f].state \in {"REP_SENT", "MRA_REP_RCVD"}
          THEN on_established(SetState(g, f, "ESTABLISHED"), f) ELSE g
    BY <1>7 DEF net_handlers, rtu_received, l
  <2>. HIDE DEF g, f
  <2>. QED
    BY <1>3, <1>7, <2>1, EstablishSound
<1>8. CASE p.attr = "DREQ"
  <2>1. net_handlers(t, p, new) \in {SetState(g, f, "DREQ_RCVD"), g}
    BY <1>8 DEF net_handlers, dreq_received, l
  <2>2. Sound(g) /\ f \in Ptr
    BY <1>3, <1>8
  <2>. HIDE DEF g, f
  <2>3. Sound(SetState(g, f, "DREQ_RCVD"))
    BY <2>2, SetStateSound DEF FLOW_STATES
  <2>. QED
    BY <2>1, <2>2, <2>3
<1>9. CASE p.attr = "DREP"
  <2>1. net_handlers(t, p, new) \in {erase_flow(g, l, r), g}
    BY <1>2, <1>9 DEF net_handlers, drep_received, l
  <2>2. lookup(g, l, r) = f
    BY <1>3, <1>9 DEF lookup
  <2>. HIDE DEF g, f
  <2>. QED
    BY <1>1, <1>3, <1>9, <2>1, <2>2, EraseFlowSound
<1>10. CASE p.attr \notin Handled
  BY <1>10 DEF net_handlers, Handled
<1>. QED
  BY <1>1, <1>4, <1>5, <1>6, <1>7, <1>8, <1>9, <1>10 DEF Handled, Attr

\* The inductive invariant of the specification.
IInv ==
    /\ Sound(Tracker)
    /\ abort \in {"none", "get_flow", "add_new_flow", "req_received"}

\* A handler that returns leaves a sound tracker, one that fails an assert
\* leaves the tracker as it was.
LEMMA FinishSound ==
    ASSUME Sound(Tracker), NEW a, NEW t, Finish(a, t), a = "none" => Sound(t)
    PROVE  Sound(Tracker)'
<1>1. CASE a # "none"
  BY <1>1 DEF Finish, Tracker
<1>2. CASE a = "none"
  <2>1. /\ Sound(Release(t))
        /\ Release(t).local_map = t.local_map
        /\ Release(t).remote_map = t.remote_map
        /\ Release(t).qpn_map = t.qpn_map
    BY <1>2, ReleaseSound
  <2>. DEFINE u == Release(t)
  <2>2. /\ flow' = u.flow /\ local_map' = u.local_map
        /\ remote_map' = u.remote_map /\ qpn_map' = u.qpn_map
    BY <1>2, <2>1 DEF Finish
  <2>3. u \in TrackerType
    BY <2>1 DEF Sound
  <2>. HIDE DEF u
  <2>4. u = [flow |-> u.flow, local_map |-> u.local_map,
             remote_map |-> u.remote_map, qpn_map |-> u.qpn_map]
    BY <2>3 DEF TrackerType
  <2>5. Tracker' = u
    BY <2>2, <2>4 DEF Tracker
  <2>6. Sound(Tracker')
    BY <2>1, <2>5 DEF u
  <2>. QED
    BY <2>6
<1>. QED
  BY <1>1, <1>2

\* An empty tracker is sound.
LEMMA EmptySound ==
    ASSUME NEW t, t = [flow |-> [f \in Ptr |-> NewFlowState],
                       local_map |-> [l \in Id0(HostId) |-> NULL],
                       remote_map |-> [k \in CmFlowKey |-> NULL],
                       qpn_map |-> [k \in FlowKey |-> Absent]]
    PROVE  Sound(t)
<1>1. NewFlowState \in FlowState /\ ~NewFlowState.in_qpn_map
  BY DEF NewFlowState, FlowState, FLOW_STATES, Id0, CmFlowKey, NoKey
<1>2. t \in TrackerType
  BY <1>1 DEF TrackerType
<1>3. Indexed(t)
  BY DEF Indexed
<1>4. Exact(t)
  BY <1>1 DEF Exact
<1>. QED
  BY <1>2, <1>3, <1>4 DEF Sound

\* The initial tracker is sound.
LEMMA InitSound == Init => IInv
BY EmptySound DEF Init, Tracker, IInv

\* Handling a packet from the host preserves the inductive invariant.
LEMMA HostPacketSound ==
    ASSUME IInv, NEW p \in AnyHostPacket, NEW new \in Free(Tracker),
           Finish(host_abort(Tracker, p, new), host_handlers(Tracker, p, new))
    PROVE  IInv'
<1>. USE DEF IInv
<1>1. host_abort(Tracker, p, new) = "none" => Sound(host_handlers(Tracker, p, new))
  BY HostHandlersSound
<1>2. Sound(Tracker)'
  BY <1>1, FinishSound
<1>3. abort' \in {"none", "get_flow", "add_new_flow", "req_received"}
  <2>1. \A l, r : get_flow_abort(Tracker, l, r) \in {"none", "get_flow", "add_new_flow"}
    BY DEF get_flow_abort
  <2>2. host_abort(Tracker, p, new) \in {"none", "get_flow", "add_new_flow"}
    BY <2>1 DEF host_abort, rej_sent_abort, rep_sent_abort
  <2>. QED
    BY <2>2 DEF Finish
<1>. QED
  BY <1>2, <1>3

\* Handling a packet from the network preserves the inductive invariant.
LEMMA NetPacketSound ==
    ASSUME IInv, NEW p \in AnyNetPacket, NEW new \in Free(Tracker),
           Finish(net_abort(Tracker, p, new), net_handlers(Tracker, p, new))
    PROVE  IInv'
<1>. USE DEF IInv
<1>1. net_abort(Tracker, p, new) = "none" => Sound(net_handlers(Tracker, p, new))
  BY NetHandlersSound
<1>2. Sound(Tracker)'
  BY <1>1, FinishSound
<1>3. abort' \in {"none", "get_flow", "add_new_flow", "req_received"}
  <2>1. \A l, r : get_flow_abort(Tracker, l, r) \in {"none", "get_flow", "add_new_flow"}
    BY DEF get_flow_abort
  <2>2. net_abort(Tracker, p, new) \in {"none", "get_flow", "add_new_flow", "req_received"}
    BY <2>1 DEF net_abort, req_received_abort, rej_received_abort, rep_received_abort
  <2>. QED
    BY <2>2 DEF Finish
<1>. QED
  BY <1>2, <1>3

\* Every step, by whichever handler, preserves the inductive invariant.
LEMMA NextSound == IInv /\ [Next]_vars => IInv'
<1>. SUFFICES ASSUME IInv, [Next]_vars PROVE IInv'
  OBVIOUS
<1>1. ASSUME NEW A, FromHost(A) PROVE IInv'
  <2>1. PICK p \in HostPackets, new \in Free(Tracker) :
          Finish(host_abort(Tracker, p, new), host_handlers(Tracker, p, new))
    BY <1>1 DEF FromHost
  <2>. QED
    BY <2>1, HostPacketSound, PacketsAssumption
<1>2. ASSUME NEW A, FromNet(A) PROVE IInv'
  <2>1. PICK p \in NetPackets, new \in Free(Tracker) :
          Finish(net_abort(Tracker, p, new), net_handlers(Tracker, p, new))
    BY <1>2 DEF FromNet
  <2>. QED
    BY <2>1, NetPacketSound, PacketsAssumption
<1>3. CASE UNCHANGED vars
  BY <1>3 DEF vars, Tracker, IInv
<1>4. CASE Next
  BY <1>1, <1>2, <1>4 DEF Next, ReqSent, RejSent, RepSent, RtuSent, DreqSent,
     DrepSent, UnknownSent, ReqReceived, RejReceived, RepReceived, RtuReceived,
     DreqReceived, DrepReceived, UnknownReceived
<1>. QED
  BY <1>3, <1>4

\* The invariant holds in every reachable state.
THEOREM TrackerInvariant == Spec => []IInv
BY InitSound, NextSound, PTL DEF Spec

\* The tracker's data is well typed in every reachable state.
THEOREM TypeCorrect == Spec => []TypeOK
<1>1. IInv => TypeOK
  BY DEF IInv, Sound, TypeOK
<1>. QED
  BY <1>1, TrackerInvariant, PTL

\* local_map and remote_map hold a flow only under the flow's own ids, whatever
\* ids the messages that created, linked and erased flows carried.
THEOREM IndexesConsistent == Spec => []IndexConsistent
<1>1. IInv => IndexConsistent
  BY DEF IInv, Sound, IndexConsistent
<1>. QED
  BY <1>1, TrackerInvariant, PTL

\* The query table is exactly the QPN pairs of the mapped flows, each of them
\* connected, alive and unique, for any packets in any order.
THEOREM QueryTableExact == Spec => []QpnMapExact
<1>1. IInv => QpnMapExact
  BY DEF IInv, Sound, QpnMapExact
<1>. QED
  BY <1>1, TrackerInvariant, PTL
=============================================================================
