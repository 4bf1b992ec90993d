# libconntrack-cm in TLA+

libconntrack-cm watches the RDMA CM datagrams that pass between a host and its
network and answers one question: which host queue pair (QP) does a flow to a
given destination address and QP come from (`ctcm_query_ipv4`). It also
generates congestion notification packets (CNPs) for such flows. This directory
holds a model of the library, the TLC runs that check it on small instances, and
TLAPS proofs for instances of any size: of the connection tracker, alone and among
endpoints, of the query service, the interface, the BTH setters and the CNPs.

## The system and its modules

| Part | Source | Module | Model checked by | Proved in |
|---|---|---|---|---|
| Connection tracker | `src/cm_connection_tracker.{cpp,h}` | `CmTracker` | `MCCmTracker` | `CmTrackerProofs`, `CmStepProofs` |
| Query service, abstractly | (what the tracker promises) | `ConnTable` | `MCCmTracker` | `CmStepProofs` |
| The tracker among CM endpoints | the tracker; hosts and network external | `CmSystem` | `MCCmSystem` | `CmSystemProofs`, `CmAnswerProofs`, `CmFlowProofs`, `CmSyncProofs` |
| Interface, context, parser, mbuf fields | `src/main.cpp`, `src/parser.{cpp,h}`, `include/libconntrack-cm.h` | `Ctcm` | `MCCtcm` | `CtcmProofs` |
| CNP generation | `src/cnp.cpp` | `Cnp` (with `Bth`) | `MCCnp` | `HeaderProofs` |
| BTH accessors | `src/rxe_hdr.h` | `Bth`, `BthSetters` | `MCHeaders` | `HeaderProofs` |
| Extended transport headers | `src/rxe_hdr.h`, opcodes of `src/ib_pack.h` | `RxeHdr` | `MCHeaders` | |
| CM message layout, field accessors | `src/ibta_vol1_c12.h`, `src/iba.h`, `src/bitfield.h` | `CmMsg` | `MCFields` | |
| Fields of words | `src/bitfield.h`, `src/ib_mad.h` | `BitFields` | `MCFields` | |

A packet goes through `ctcm_parse_packet` (Ctcm), which stores the offset of a CM
MAD in the mbuf, and `ctcm_process_packet` (Ctcm), which hands packets with such
an offset to the tracker (CmTracker). The tracker's handlers read ids and QPNs
through the accessors of CmMsg. CNP generation uses the BTH setters of Bth.

The library has no threads, timers or files. What makes it hard is its
environment: CM datagrams are lost, repeated and reordered, ids and QPNs are
reused, mbufs are recycled with old metadata, contexts are replaced.

### CmTracker

The variables are the tracker's members: `flow` (the `flow_state` objects by
address), `local_map`, `remote_map`, `qpn_map`; `abort` names an assert that has
failed. A handler runs to completion on one packet, so each is one action
(`ReqSent` ... `DrepReceived`; `UnknownSent` and `UnknownReceived` for attributes
without a handler). It is written as an operator on the record of all four data
(`req_sent(t, p, new)` and so on) in the order of the code's calls; `new` is the
address `make_shared` would return, any address no map holds. When the handler
returns, objects no map holds are freed (`Release`).

A packet is what the handlers read of it: attribute, addresses, the two ids and
the QPN. `HostPackets` and `NetPackets` are arbitrary sets of packets, and any
member may arrive at any time. This covers loss, duplication, reordering, reused
ids and peers that break the protocol.

The asserts are compiled in (meson's `b_ndebug` is not set), so a failing assert
ends the process: `abort` is set and no action is enabled afterwards.

### ConnTable

What a caller of `ctcm_query_ipv4` may rely on, without CM states, maps or
objects: a set of connections (host id, flow key, host QPN) that enter and leave
whole, one per step, where the first connection keeps the key. The refinement
mapping takes the flows marked `in_qpn_map` to their connections (`Conns` in
CmTracker). `ImplementsConnTable` is the abstract specification under this
mapping; `QueryServed` says that `get_source_qpn` returns what the abstract table
returns.

### CmSystem

CmTracker lets any packet arrive. CmSystem asks what happens when the packets come
from endpoints that follow the protocol. A host and its peers connect, accept,
confirm, reject and disconnect; each endpoint (`<<address, id>>`) has the state its
own CM would have. The tracker sees a packet of the host as it is sent and a packet
for the host just before it arrives; each of these steps contains the whole handler
of CmTracker (`host_handlers`, `net_handlers`, `Finish`). `net` is the set of
packets that may still be delivered: in any order, again, or never. A packet that the
host's CM discards, a repeated REQ or one nobody waits for, has passed the tracker all
the same.

The endpoints and the network are not code of the library and are marked external.
What may go wrong is chosen by constants, so that a run states its assumptions:

- `MayFail`: `"giveup"` (an endpoint times out: it sends a REJ, or drops the
  connection after an unanswered DREQ), `"drop"` (a packet passes the tracker but
  not the host), `"restart"` (`ctcm_destroy` and `ctcm_create`: an empty tracker,
  once).
- `Reusable`: ids that are used for more than one connection. `Recycle` is the end
  of TIMEWAIT: both sides are done and no packet with the id is left.
- `Callers`: the nodes that connect.

`faults` records drops and restarts that have happened.

### Ctcm

`mbuf` is a pool of packet buffers, each with a packet and the contents of its
dynamic fields, which survive when the buffer is recycled. `dyn` and `used` are
DPDK's registry of dynamic fields, `ctx` the library context's two offsets, `app`
the application's copy of them. A packet is two lengths (the UDP length field and
the mbuf's) and the outcome of the parser's tests on the bytes. The application is
assumed to process only packets it has parsed since they arrived, as the header
asks ("Requires that the l3 and mad offset fields are valid"). `Register`,
`OtherRegister`, `Receive` and `Recycle` are external.

### Cnp, Bth, BthSetters

`Bth` has the header's words as integers and each accessor as arithmetic on them,
32-bit words split into top byte and low 24 bits. `BthSetters` runs any sequence
of setters next to the values a caller expects. `Cnp` fills one mbuf with the
template, completes and generates it repeatedly, and sends copies through routers.
The ICRC is modelled by the bytes it covers, so two ICRCs are equal exactly when
these bytes are. What a receiver expects is a definition of its own, so a field that
the library masks and the receiver does not would show as well as one it forgets to
mask. Fields that the template leaves 0 and nobody sets are left out.

### RxeHdr

The headers behind the BTH: a packet is a buffer of bytes and the members of
`rxe_pkt_info` that say where it starts and which opcode it has. A header is a
record of fields with their place, width, mask and byte order; one getter and one
setter operator stand for the accessors, which differ only in these. The table
`rxe_opcode[]` is declared `extern` in the repository and defined nowhere in it, so
its contents are external; they follow the headers each opcode has.

### CmMsg, BitFields

In `CmMsg` a MAD is a set of bit positions; the tables of the eleven messages are
records from field names to locations, computed by the macros as in the code. A
sender sets fields in any order. Nothing in the library calls the setters; its peers
do, through the same layout. `BitFields` does the same for one word of each type
`bitfield.h` generates accessors for, in either byte order, and for the two words of
`ib_mad.h` that two fields share.

## Runs

| Run | Configuration | Shows | States |
|---|---|---|---|
| `tracker` | `MCCmTracker` | The properties of CmTracker below | 4723 |
| `system` | `SystemFresh` | Two peers, timeouts, every id used once | 88189 |
| `system_reuse` | `SystemReuse` | Ids and QPNs used again, context replaced | 29204 |
| `system_live` | `SystemLive` | Closed connections are withdrawn at last | 2398 |
| `interface` | `MCCtcm` | Parse results are never stale, only CM MADs reach the tracker, the application's offsets stay valid | 12420 |
| `cnp` | `MCCnp` | Reused templates give valid CNPs | 85456 |
| `headers` | `MCHeaders` | Setters of BTH and extended headers are independent, payload bounds are exact | 55740 |
| `fields` | `MCFields` | Fields of CM messages and of words do not overlap | 8047 |
| `mad_length`, `system_cancelled`, `system_idle_flow`, `system_stale` | | The findings below (expected violations) | |

**tracker**

- `TypeOK`.
- `IndexConsistent`: the maps hold a flow only under its own ids. It is not
  obvious because `erase_flow` removes the ids of the message.
- `QpnMapExact`: table entries and flows marked `in_qpn_map` correspond one to
  one, and the flow is connected and reachable by its local id.
- `ImplementsConnTable`, `QueryServed`: the refinement above.
- `RetransmissionHarmless`: handling a packet twice in a row is handling it once,
  except that a repeated DREP leaves a new idle flow.
- `PhaseNeverRegresses`: a flow never goes back to an earlier phase and never
  changes between the active and passive role.
- `AnswerWithdrawnByEraseOnly`: an answer is never overwritten, and is withdrawn
  only by erasing the flow it came from.
- `MappedFlowFrozen`: ids and QPNs of a flow in the table do not change.
- `EstablishedIsAnswered`: if REQs and REPs carry QPNs, establishing a flow leaves
  an answer for its peer.

Bounds: two host ids, one peer id, one peer address, host QPNs `q1`, `q2` and peer
QPNs `q3`, `q4`. Two host ids are enough for two flows to compete for a peer id and
for a table key, and for messages whose ids belong to different flows. A second QPN
on each side lets a connection be replaced by another one under the same ids, and
the asserts of `add_new_flow` and `req_received` fail in this instance (that of `get_flow` needs
a message with id 0, which only the proofs cover). There is one
more address than flows that can be live (two by host id, one by peer key), so
allocation never fails. Addresses, host ids and the QPNs of each side are only
compared for equality, hence the symmetry set. The packet alphabet has the ids the
protocol puts into each message and fixes fields no handler reads. Deadlock is not
checked: the process stops at a failed assert.

**system, system_reuse, system_live**

- `SysTypeOK`: also, every packet endpoints send is one the handlers are written for.
- `NoAssertFails`: no assert of the tracker fails.
- `Answered`: a connection both sides consider established is answered with its own
  host QPN, unless the tracker was replaced or is ahead of the host.
- `NeverWrong`: an open connection is never answered with another one's QPN.
- `ClosedWithdrawn`: once the host's side is in TIMEWAIT, the answer is gone.
- `EventuallyWithdrawn`: once either side has sent a DREQ, the answer is withdrawn
  for good.

These hold only under the assumptions of the run; the findings show which of them
are needed. `system` has two peers that use the same id and QPN at the same time,
callers on both sides, and timeouts (`giveup`), but no id is used twice.
`system_reuse` has ids and QPNs that are used again and a context replaced at any
moment, but only the host connects and nobody times out. `system_live` has drops and
a replaced context with callers on both sides, but no timeouts and no reuse.

Bounds: two host ids and two host QPNs for two connections at a time (one of each in
`system_live`); two peers, or one peer with two ids. The
tracker never holds all flow objects of an instance at once, so allocation never
blocks a step. One replaced context is enough to have every suffix of every exchange
seen by an empty tracker. The network is a set, so its size is bounded by the packets
there are. Objects are symmetric (no symmetry in `system_live`). Deadlock is not
checked: all connections may be over.

Fairness (`system_live` only): weak fairness of the answer to a DREQ, and of the
arrival of some DREQ, DREP, REJ or RTU at a node that can take it. A CM endpoint
answers a DREQ without asking the application, and repeats a packet until it is
answered, so a packet that is repeated arrives at last. Nobody has to connect,
disconnect or reject, and REQs and REPs may be lost forever. The library itself only
reacts, so nothing is assumed of it.

**interface**: two mbufs, four slots (room for two contexts with fields of their own, if the
registry did not give them the same ones) of which other libraries may take some, one
packet for every reason the parser has to stop, and one truncated packet, on which
`ctcm_mbuf_set_bth` asserts (so deadlock is not checked). `ParsedFieldsFresh`,
`OnlyCmTracked` and `AppReadsParserFields` are stated in `Ctcm`.

**cnp**: QPNs at and above 24 bits, mbufs with too little, just enough and more
room. `WireIcrcValid` and `SentIsCnp` are stated in `Cnp`. Changes the
application makes after `ctcm_generate_cnp` are followed by another call, as the
repository's README describes.

**headers**: a behaviour is about a BTH or about a packet with extended headers.
BTH: arguments at the edge of each field and beyond (256 for the `u8` of `bth_set_mig`), on zeroed and all-ones memory;
`bth_set_resv6a` overwrites its whole word, as in the source, and nothing calls it.
Packets: every opcode `ib_pack.h` defines, payloads of 0, 1 and 4 bytes (no padding,
most padding, a whole word), a BTH that is not at the start of the buffer, arguments
whose bytes differ and arguments of all ones. `PayloadExact` is about packets whose
`paylen` covers their headers; a smaller one makes the subtraction of `payload_size` wrap
around, which the function leaves to its callers. Opcodes without extended headers have
no setters, so deadlock is not checked.

**fields**: a behaviour is about a CM message or about a word. Messages:
`MaxSets = 2`, which has every ordered pair of fields of a message. `IBA_SET_MEM` is
called with all bytes of the field, with one byte, with none and with a null pointer;
more bytes than the field has, on which it warns, are the caller's error and left out.
`ReadsBack` is about fields set as a whole: after a partial set the trailing bytes keep
their old values, while the FIXME at `iba.h:72` says that they should be zeroed. The
library never calls the macro, so this is noted here only. Words: all ten
types of `bitfield.h` split into three fields, one of them across bytes in the wider
types, on memory of zeros and ones, without a bound on the number of sets.

### Findings

- `mad_length`: `extract_bth` compares the UDP length with BTH + UDP header + ICRC,
  then subtracts only BTH + ICRC (`parser.cpp:22`). The 8 bytes of the UDP header
  remain counted, so datagrams of UDP length 48 to 55 are reported to hold a MAD
  header that they do not contain in full. `parser.h:43` says "Return the MAD header
  if the UDP packet contains a CM MAD."
- `system_cancelled`: a peer cancels a REQ with a REJ before it is answered;
  `rej_received` has no case for `REQ_RCVD` and keeps the flow. When the peer uses
  the id for another QP, the assert of `req_received` (`cm_connection_tracker.cpp:173`)
  fails. With `MayFail = {"giveup", "drop"}`, both sides calling and no reuse, the
  same property fails at the assert of `add_new_flow` (line 121): the tracker saw a
  REP the host did not, the host's REJ removes the flow from one map only, and the
  peer's next packet with both ids finds it through the other.
- `system_idle_flow`: a repeated DREQ or DREP of a closed connection leaves an idle
  flow under its ids. A connection the host later accepts with this id is ignored by
  `rep_sent` and never answered (`cm_connection_tracker.cpp:60`).
- `system_stale`: the tracker sees the host's DREQ but never a DREP, as both sides give
  up; `dreq_sent` keeps the entry for the DREP and there is no timeout. The next connection to the same peer QP is answered
  with the old host QP (`cm_connection_tracker.cpp:475`).

## Proofs

**CmTrackerProofs**, for all sets of ids, addresses, QPNs, packets and objects:

- `TypeCorrect`: `Spec => []TypeOK`
- `IndexesConsistent`: `Spec => []IndexConsistent`
- `QueryTableExact`: `Spec => []QpnMapExact`

The assumptions are those of `CmTracker`: packets are records of the right type,
the markers `NULL` and `Absent` are not values, and 0 is not an id, address or QPN.

The argument: the inductive invariant is `Sound(t)`, the conjunction of the type,
`Indexed` and `Exact`. None of the three is inductive alone. `Exact` needs
`Indexed` where `erase_flow` finds a flow by its id and must remove all of its
entries. It also says that a mapped flow is held by `local_map`, so the allocator
never hands out its address, and that it is connected, so the handshake handlers do
not change its ids and QPNs. There is one lemma per operator that the handlers are
made of (`AddNewFlowSound`, `EraseFlowSound`, `OnEstablishedSound`, ...): it takes
sound trackers to sound trackers. `HostHandlersSound` and `NetHandlersSound` have
one step per handler that chains them; `FinishSound` adds the release of objects.

**CmStepProofs**, under the same assumptions, about the steps of the tracker. In each
part there is one lemma per operator that the handlers are made of, and the two lemmas
about `host_handlers` and `net_handlers` chain them handler by handler.

- `NoPhaseRegression`: `Spec => PhaseNeverRegresses`. A handler gets a flow, which
  leaves the states of tracked flows alone (`Gets`), moves at most one flow from a state
  its `switch` admits to a later one of the same side (`Moves`), and whatever it calls
  afterwards keeps all states (`StatesKept`). The invariant added to `Sound` is that no
  flow is in an MRA state or in TIMEWAIT (`AllReached`): the handlers have cases for
  them, but none assigns them.
- `TrackerImplementsConnTable`: `Spec => ImplementsConnTable`, `QueriesServed`:
  `Spec => []QueryServed`, `MappedFlowsFrozen`: `Spec => MappedFlowFrozen`. Every step is
  a `TableStep`: no flow in the table changes its ids or QPNs, and none, one that enters,
  or one that leaves changes its mark. A handler is a chain with at most one operator
  that does not keep the table (`KeptThenStep`, `StepThenKept`). `TableStepRefines` takes
  a `TableStep` between sound trackers to a step of ConnTable or a stutter: `Exact` gives
  that the entering flow's key and id are free, and that different flows are different
  connections, so that a leaving flow takes its own connection away and no other.
- `AnswersWithdrawnByErase`: `Spec => AnswerWithdrawnByEraseOnly`. A `TableStep` also
  says that a flow that stays in the table gets no index entry it did not have, and that
  one that leaves it has lost an entry (`Unindexed`). As table entries and marked flows
  correspond (`Exact`), a changed answer belongs to a flow that leaves (`AnswerLeaves`).
- `EstablishedFlowsAnswered`: `Spec => EstablishedIsAnswered`. The added invariant is
  `QpnsKept`: if REQs and REPs carry QPNs, every flow in a handshake has those its
  packets have brought (`Ready`). Then a handler establishes no flow (`Quiet`), or the
  one it establishes enters the table or finds its key taken (`Answering`).
- `RetransmissionsHarmless`: `Spec => []RetransmissionHarmless`. The second call of a
  handler finds what the first has left. If the first kept the flow, it is under both
  ids of the packet (`Holds`, `FoundAgain`) in a state the `switch` ignores, or the same
  values are written again. If it erased the flow, the second one makes a new flow and
  erases it or leaves it idle (`ErasedAgain`, `CreatedAgain`). Objects freed between
  the two calls make no difference (`ReleaseTwice`).

**CmSystemProofs**, for any number of endpoints, any `MayFail`, `Reusable`, `Callers`:

- `SystemTypeCorrect`: `SysSpec => []SysTypeOK`
- `SystemTableExact`: `SysSpec => [](QpnMapExact /\ IndexConsistent)`

The argument: the invariant `SysInv` is `Sound` together with the types of endpoints and
network. What endpoints send is in `AnyHostPacket` or `AnyNetPacket`
(`SendOK`, `HandleOK`), for which the lemmas of CmTrackerProofs hold; a replaced
context is an empty tracker, which is sound (`EmptySound`). The added assumption is
`SystemAssumption`: the host is not one of its peers, and endpoints use known QPNs. The
second half of the module defines what the next three modules share, below.

**CmAnswerProofs**, for any number of endpoints and connections, with drops, timeouts and
replaced contexts, if no id is used twice (`Reusable = {}`):

- `AnswersNeverWrong`: `SysSpec => []NeverWrong`

The argument: whether an answer is right depends on endpoints the tracker has never
seen together, so the invariant `TruthInv` has three parts. `SysInv`, as above.
`PairInv`: what endpoints know of each other and what packets say is true of the
endpoints (`EndFits`, `PacketFits`), a QPN belongs to one endpoint of a node and a
request is taken once (`Unique`). `Truthful`: the QPNs of a flow are those of the
endpoints it is filed under, and if it is filed under two, they belong together
(`FlowTrue`). It holds of every flow, also of those a new context has pieced together
from late packets, because the ids and QPNs of a packet stay true (`Grows`): an
endpoint never forgets what it has chosen or learned, unless its id is recycled. Then a
wrong answer would need two endpoints with one QPN.

**CmFlowProofs** (packets for the host) and **CmSyncProofs** (packets of the host, the
composed system), if no id is used twice:

- `EveryOpenAnswered`: `SysSpec => []Answered`
- `FaultlessSafe`: `SysSpec => [](faults = {} => NoAssertFails /\ ClosedWithdrawn)`
- `AssertsAndWithdrawal`: if `MayFail \subseteq {"giveup"}`, then
  `SysSpec => [](NoAssertFails /\ ClosedWithdrawn)`

The argument: truth is not enough here, the tracker must also keep up. The invariant
`SyncInv` is `TruthInv`, and as long as the host has received what the tracker has seen
and the context is the first one, `Sync`: the flow of each host endpoint is in the state
that the endpoint is in, and in the table when it is established (`Follows`); it is
filed under the endpoint's far end and no other (`LocalFiled`); what is under a key is a
request of that peer or the flow of a host endpoint (`RemoteFiled`, `RequestFiled`).
`Leftover` lists what late packets may leave when a connection is over, and none of it is
in the table. A handler's effect is put as an `Edit`, one flow and one entry of each map,
and `EditStep` gives when such an edit keeps `Sync`; each handler and state of the endpoint
is then one case. The asserts of `get_flow` and `add_new_flow` cannot fail because both ids
of a packet lead to one flow, that of `req_received` because a repeated REQ has the same QPN.

The hypotheses are needed: without `Reusable = {}` the runs `system_cancelled`,
`system_idle_flow` and `system_stale` are counterexamples to `NoAssertFails`, `Answered`
and `NeverWrong`; with drops an assert of `add_new_flow` fails (see the findings).

**CtcmProofs**, for any pool of mbufs, any slots and all datagrams of any length:

- `InterfaceTypeCorrect`: `Spec => []TypeOK`
- `ParseResultsFresh`: `Spec => []ParsedFieldsFresh`
- `TrackerSeesCmOnly`: `Spec => []OnlyCmTracked`
- `AppOffsetsValid`: `Spec => []AppReadsParserFields`

The assumptions are the types of packets and that `None` is not a packet, a slot or a
pair of offsets. The argument: the properties speak of three copies of the fields'
places, the registry's, the context's and the application's. The invariant `Fields`
says that they agree wherever they are defined, that registered slots are taken, and
that the two are distinct: otherwise `parse_packet`'s second write would destroy the
first. `ParseDescribes` is the length arithmetic of the parser for every length.

**HeaderProofs**, for all QPNs, addresses and values, wider than their fields or not:

- `SettersKeepApart`: `SettersSpec => [](BthTypeOK /\ SettersIndependent)`
- `CnpTypeCorrect`: `Spec => []TypeOK`
- `IcrcValidOnWire`: `Spec => []WireIcrcValid`
- `OnlyCnpsSent`: `Spec => []SentIsCnp`

The assumptions are that arguments are naturals, of 8 or 16 bits where the C parameter
has that width (`SetterArguments`, `CnpAssumption`). The argument: the lemmas about `Cut`
and `Paste` say that a field pasted into a word reads back cut to its width, that the
fields beside it read as before and that the word keeps its width. `Agrees` says that the
header is well formed and every getter returns the expected value; there is one lemma per
setter. `CnpInv` says of a template in use that it is a CNP, that it carries its own ICRC
while the application may send it, and the same of what was sent. The receiver computes
the ICRC the library has stored, as both cover the fields with those masked that routers
change, so a hop keeps it.

Only model-checked:

- `EventuallyWithdrawn`, which is liveness under fairness and out of the prover's reach.
- `NoAssertFails`, `Answered` and `NeverWrong` when ids are used again after TIMEWAIT
  (`system_reuse`): the invariants above rest on endpoints that forget nothing.
- `ClosedWithdrawn` after a drop or a replaced context (`system_live`), and
  `NoAssertFails` after a replaced context (`system_reuse`): there the tracker is not in
  step with the host, and `Sync` says nothing.
- `HeadersTypeOK`, `FieldsReadBack`, `PayloadExact` and `OutsideKept` of RxeHdr: sums over
  a table of headers per opcode, by folds; the run has every opcode.
- The properties of CmMsg and BitFields: finite tables of field layouts; the run has every
  ordered pair of fields.

## Not modelled

- Declarations and constants of `ib_mad.h`, `ib_pack.h` and `rxe_opcode.h` other
  than the opcodes and the accessors of shared words; `linux-compat.h` and
  `build_bug.h`; the compile-time checks of `bitfield.h` and its `FIELD_FIT`, which
  nothing calls.
- Logging, build files, the CRC computation (DPDK).
- The handlers' reads beyond the MAD header of a datagram that is too short.
- The asserts on `packet_type` and `l3_len` in `parser.h`, which the caller must
  satisfy.
- In CmSystem: MRA, LAP, APR and SIDR messages, which the tracker ignores (CmTracker
  has them as attributes without a handler), and more than one replaced context.

## Plan

1. Ctcm composed with CmSystem: packets processed in other orders than they were
   received.
2. The proofs about CmSystem with ids used again. `Recycle` forgets what an endpoint
   knew, so `Pairing` has to speak of the connections of an id in turn.
