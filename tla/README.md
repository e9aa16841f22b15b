# TLA+ models of the MOTION2NX gate execution core

This directory holds TLA+ models of the source under `src/`, the TLC configurations
that check them, and `PROJECT.json` (components, runs, mutants, the map from
definitions to source lines, findings and hazards).

## 1. Inventory

The repository's sources are three files:

| file | content |
|---|---|
| `src/unnamed/part_000` | `MOTION::proto::beavy`: the Boolean BEAVY gates (Input sender/receiver, Output, INV, XOR, AND); arithmetic input gates commented out |
| `src/src/abyncore/abynparty/abynbackend.cpp` | `ABYNBackend`: communication handlers, hello handshake, `Send`, input gate registration, evaluation entry points (TODO stubs) |
| `src/src/motioncore/gate/bmr_gate.h` | BMR gate class declarations only (no method bodies) |

### Components, their state and operations

* **Wire** (class not under `src/`, spec 3 and 4.1). State per party: secret share δ,
  public share Δ, one-shot `setup_ready` and `online_ready` events. Operations: write a
  field, fire an event, wait on an event.
* **BEAVY Input gate, sender side** (`part_000:95-180`). Setup: δ random, fires
  setup-ready, Δ := δ ⊕ PRG(toward peer, input id). Online: waits for the clear input,
  Δ ⊕= input, fires online-ready, broadcasts Δ.
* **BEAVY Input gate, receiver side** (`part_000:182-249`). Constructor registers a
  future for the owner's Δ. Setup: δ := PRG(owner toward me, input id). Online: awaits
  Δ, fires online-ready.
* **BEAVY Output gate** (`part_000:251-327`). Constructor registers a future per other
  party if it is a recipient. Setup: nothing. Online: collects own δ, sends it to the
  owner (or broadcasts for ALL) unless it is the owner, and the recipient awaits the
  other δ's, XORs them with Δ and fulfils the output promise. **It never waits on its
  input wires.**
* **BEAVY XOR / INV** (`part_000:329-388`). Local arithmetic; INV's designated party
  (`is_my_job`) complements δ and copies Δ, the other party re-uses the input wire
  object as output.
* **BEAVY AND** (`part_000:390-489`). Constructor registers the peer's share future and
  one XCOT-bit sender and receiver. Setup: fresh δ_c (output setup-ready), wait for the
  inputs' setup, OT choices δ_a / correlations δ_b, ComputeOutputs, Δ_y share :=
  δ_c ⊕ δ_a δ_b ⊕ OT outputs. Online: reads Δ_a, Δ_b (**without waiting**), adds the
  public terms (the Δ_aΔ_b term by the designated party only), broadcasts, awaits the
  peer's share, publishes Δ_y.
* **Provider facade / message registry** (not under `src/`, spec 4.5). Futures keyed by
  (sender, gate id); frames resolve them.
* **OT provider** (not under `src/`): correlated bit OT, consumed by AND.
* **Gate executor** (not under `src/`; the backend's `EvaluateSequential` /
  `EvaluateParallel` are TODO stubs): runs each gate's setup and online as fibers,
  optionally with the `online_after_setup` barrier.
* **ABYN backend** (`abynbackend.cpp`): the constructor seeds one "my" generator per
  peer; `InitializeCommunicationHandlers` creates one handler per peer;
  `SendHelloToOthers` sends each peer a hello carrying its seed only when
  `share_inputs_`, through `Send`, which throws on a send to self; `VerifyHelloMessages`
  ANDs every handler's verification and only logs a failure; `RegisterInputGate`;
  `EvaluateSequential`/`EvaluateParallel` are TODO stubs; `TerminateCommunication` and
  `WaitForConnectionEnd` close every handler.
* **BMR gates** (`bmr_gate.h`): class declarations only. Their members fix what each
  gate waits for. The input gate has a future for the owner's public values and one
  key future per party. The AND gate has OT sender/receiver vectors toward every party
  and a garbled-row future per party. The output gate has a GMW output delegate, the
  `is_my_output_` flag and a mutex. XOR and INV have no member for a message or an OT.

### Interactions and what is hard

Two parties run the same circuit. Inside a party, gates interact through shared wire
objects and their readiness events; across parties, through gate-id-keyed bit messages
and the OT pairs. What is hard: the interleaving of every gate's setup and online fibers
at two parties; reads of wire fields that are not guarded by the readiness events; the
OT and share exchanges, where each side must send before it waits; the agreement of the
two parties on `is_my_job`, input ids and message registrations; the one-shot nature of
wire fields when INV aliases wires.

### Properties that make the components correct

* Clear reconstruction: Δ ⊕ δ₀ ⊕ δ₁ equals the circuit's clear value on every wire.
* Both parties hold the same Δ on every wire.
* AND setup: the XOR of the two Δ_y shares is δ_c ⊕ δ_a·δ_b (OT correctness).
* Output promise holds the clear output value, and only after the inputs exist.
* Message accounting: every frame meets exactly one registered future; every future is
  resolved by the end.
* Wire fields are final once their readiness event fired.
* Termination: every task of both parties ends.
* BMR: no frame meets no future; no party waits forever.
* Backend: every party's "their
  generator" for a peer carries that peer's "my generator" seed (or none when the peer
  does not share inputs); every backend returns from `WaitForConnectionEnd`. Whether
  a failed hello verification stops a party is asked of builds of two versions, and
  it does not (a finding).
* The gate engine and the BMR gates both implement the ideal functionality
  `BeavyAbstract`.
* Layout: when a gate packs several wires of several SIMD lanes into one frame, the
  receiver's slicing returns every lane to its wire and position. The frame has the
  size the receiver registered for.
* Input ids: both parties' PRG reads for a wire of an input gate coincide, and no PRG
  block masks two wires.

## 2. Modules

### `BeavyGates.tla` — the BEAVY gate engine (two parties, one circuit)

Constants: `Parties = {0,1}`, the circuit (`Gates`, `Kind`, `InA`, `InB`, `Owner`),
`Scheduler` (`"fibers"` or `"sequential"`), `OnlineAfterSetup`, and `Rand` (the bits
the random sampler and the PRG may produce).

State, per party: `pc[p][g]` (where gate g's setup/online fiber is), wire fields `sec`,
`pub`, `sready`, `oready`, the AND members `dA`, `dB`, `dY`, the XCOT sender pad `pad`,
the output gate's `mySec` and `result` (the promise). Shared: `tape` (the PRG stream of
each input gate, identical for "my generator toward P" and P's "their generator"),
`inval` (clear inputs), `net` (frames in transit), `box` (resolved futures), `stray`
(frames with no registered future).

Actions: one per atomic segment of each `evaluate_setup` / `evaluate_online` between
suspension points (`InputSenderSetup`, ..., `AndSetupOutputs`, `AndSetupOT`,
`AndSetupFinish`, `AndOnlineSend`, `AndOnlineFinish`), plus `Deliver(m)`. A wait in
the code is a guard; a read the code performs *without* waiting returns the final value
if the event fired and any bit otherwise (`SecSeen`, `PubSeen`): that is the
undefined read of a field another fiber may still write. `Wire(p, g)` resolves INV
forwarding. `AND`'s `inputs_a_` is the circuit's second operand because the binary gate
constructor takes `(in_b, in_a)` (`part_000:47`).

Abstractions: one wire of one SIMD lane per gate (the per-wire loops and BitVector
flattening are data layout); the XCOT-bit OT is its ideal functionality (sender output
a random pad, receiver output pad ⊕ choice·correlation); `is_my_job(g)` is `g % 2 = p`.

Scheduler (spec 2, 5): under `"fibers"` every gate's fiber may step whenever its guards
hold, each gate's online running after its own setup; under `"sequential"` a party
runs its gate tasks one at a time in gate-id order (a topological order, since ids are
assigned at construction). `OnlineAfterSetup` adds the barrier.

Fairness: `WF_vars(Next)`. The fiber pool runs a runnable task and the transport
delivers a frame whenever one can (the spec's non-goals exclude aborting parties); as
every task has finitely many steps and each frame is sent once, this is enough for every
task and frame to progress.

`MCBeavyGates.tla` defines three circuits: `MCGates` (a∧b, INV, XOR with a, output to
ALL), `MCGatesOwned` (¬(a∧b) to party 1 only, spec scenario 5) and `MCGatesAnd`
(a∧b to ALL, spec scenario 1).

### `Backend.tla` — the ABYN backend of N parties

Constants: `N` (parties `0..N-1`), `Seeds` (the seeds a generator may draw), `NoSeed`,
`Versions` (the `ABYN_VERSION` a party's build may carry), `ShareInputs` (each party's
`share_inputs_`), `MaxInputGates`.

State per party: `phase` (how far the caller has driven the backend), `version`,
`mySeed[p][q]` (seed of p's generator toward q, none for p itself, lines 16-20),
`theirSeed[p][q]`, `handlers[p]` (the non-null entries of `communication_handlers_`),
`helloIn`, `endIn` (what p's handler for q has received), `verifyOk[p]` (the
`success` of line 97-100) and `inputGates[p]`. Shared: `chan[p][q]`, the FIFO channel
from p to q (spec 5: in order within a channel).

Actions: `InitializeCommunicationHandlers`, `RegisterInputGate`, `SendHelloToOthers`
(the loop with `Send`; a destination equal to my id would throw after the sends to the
smaller ids and leave the party `"failed"`), `VerifyHelloMessages`, `Evaluate` (the TODO
entry points), `TerminateCommunication`, `WaitForConnectionEnd`, and `Receive(p, q)`,
the handler's receive thread. The handler (`PartyCommunicationHandler`, not under
`src/`) is modelled from spec 6: `VerifyHelloMessage` waits for the peer's hello, checks
sender, recipient and version, and installs the seed it carries. The party-count field is
left out: all parties read it from the same configuration. The caller (the party
object, not under `src/`) calls the backend in the order of spec 6. Fairness:
`WF_vars(Next)`, as every call returns once what it waits for arrived and the channels
are reliable.

### `BMR.tla` — the BMR gates of N parties

Constants: `N`, the circuit (`Gates`, `Kind`, `InA`, `InB`, `Owner`), `ALL`, `NoVal`,
and `RandParties` (the parties whose permutation shares range over both bits; the
others' are 0).

State per party: `at`/`st` (the gate and stage it runs; each party runs its gates in
gate-id order, as in the BEAVY sequential scheduler), `lam` (permutation shares),
`pubv` (public values), `key[p][w][i]` (which of party i's two keys of w p holds),
`posted` (AND gates whose OTs p has run), `table` (assembled garbled tables),
`result`, `inbox`. Shared: `inval`, `net`, `stray`.

Correspondence. `RegisteredInput` and `RegisteredAnd` translate the futures the header
declares (lines 64-65, 159); the output gate's futures belong to its GMW delegate
`out_`, which is not in the repository, so `RegisteredOutput` follows spec 4.4. The XOR/INV actions send and await nothing, because those
classes declare no such member. The steps themselves follow spec 4.4 (marked
spec_modelled in the map):
* the input owner broadcasts x ⊕ λ and its key;
* the others await that value, then forward their key for it;
* everyone awaits all keys;
* an AND gate runs its OTs with every party, broadcasts its row share and awaits
  everyone's;
* online, an AND gate decrypts the row indexed by the public values;
* the output gate sends λ-shares to the recipients.

The OTs and the garbling are ideal functionalities. The garbled table is the function
its rows encrypt, and a row opens only under every party's keys of its index; under
other keys it yields arbitrary bits. Spec 4.4 says the AND gate forwards keys online,
but the header declares no online future for it, so the model's AND online step is
local. Fairness: `WF_vars(Next)`, as for BEAVY.

`MCBMR.tla` has two circuits of three parties:
* scenario 4 of spec 8, AND(AND(P0,P1),P2) to ALL;
* AND(¬(a⊕b), a) to party 2 only.

### `BeavyAbstract.tla` — what an evaluation promises

The ideal functionality: `ProvideInput(g)` sets each input once and `Reveal(p, g)` fulfils
a recipient's output promise once with the circuit's value, after every input exists.
It has weak fairness on every input and every reveal. `BeavyGates` and `BMR` both
instantiate it with the identity mapping on `inval` and `result`
(`Abstract == INSTANCE BeavyAbstract WITH ...`). Each checks `ImplementsAbstract ==
Abstract!Spec` as a temporal property. The shares, keys, garbled tables and frames are
hidden by the mapping.

### `BeavyLayout.tla` — SIMD lanes of several wires in one frame

One exchange of an Input, AND or Output gate between a sending and a receiving party,
for every number of wires up to `MaxWires` and every SIMD width up to `MaxSimd`. An
Input gate has one width for all wires because its constructor takes a single
`num_simd`; an AND gate has one because `BasicBooleanBEAVYBinaryGate` throws otherwise.
The Output gate takes any width per wire. A bit is symbolic: the set of source bits it
is the XOR of, so `^=` is symmetric difference (`XorBit`, `XorInto`). A lane that lands
in the wrong wire or position therefore carries the wrong symbols.

* `Send` is the sender's Append loop (`Packed`, e.g. `part_000:160-171`, 287-299).
* `InputReceive` slices with `Subset(wire_i*num_simd, (wire_i+1)*num_simd)` (238).
* `ANDReceive` XORs the peer's frame into the own Δ_y share and slices the same way
  (480-488).
* `OutputReceive` XORs every share in, slices with the running `bit_offset` and XORs
  each wire's Δ (300-317).
* `reg` is the `num_bits` the receiver's constructor registered: `num_wires *
  num_simd` (197) or `count_bits` (39-43, 259).

`BitVector::Subset` and `^=` are not under `src/`. `Subset(from, to)` is taken as the
bits at positions `from .. to-1`; a read past the end yields `Garbage`.

### `BeavyInputIds.tla` — input ids and PRG blocks

Two parties build the same circuit of input gates, each with its own provider. Each
constructor (`part_000:96-107`, 182-198) takes `input_id_` from
`get_next_input_id(num_wires)`, a per-party counter (spec 3). The sender's setup
(120-133) reads `GetBits(input_id_ + wire_i, num_simd_)` from its generator toward each
peer. The receiver's setup (209-215) reads the same id from its generator of the owner.
Construction runs in circuit order; setups run in any order and interleave across the
two parties. The circuit is any sequence of up to `MaxGates` input gates of any owner,
width and SIMD size.

## 3. Runs

| run | cfg | circuit / bounds | checks | result |
|---|---|---|---|---|
| `beavy_fibers` | `MCBeavyFibers.cfg` | Owned circuit, parallel fibers, no barrier, `Rand = {FALSE}` (inputs free) | `PublicShareAgreement`, `NoStrayMessage`, `WireFinal` | pass, 525k states |
| `beavy_termination` | `MCBeavyLiveness.cfg` | And circuit, parallel fibers, `Rand = {FALSE}` | `Termination` | pass, 238k states |
| `beavy_sequential` | `MCBeavySequential.cfg` | 6-gate circuit, sequential, all bits free | `TypeOK`, `SetupCorrelation`, `ShareCorrectness`, `ImplementsAbstract` | pass, 124k states |
| `beavy_output_race` | `MCBeavyRace.cfg` | Owned circuit, parallel fibers with the barrier | `OutputCorrect` | **violation** |
| `backend_handshake` | `MCBackend.cfg` | 3 parties, 2 seeds, one build version, party 2 without `share_inputs_` | `SeedAgreement`, `SessionEnds` | pass, 481k states |
| `bmr_free` | `MCBMRFree.cfg` | XOR/INV/AND circuit to party 2, parties 0 and 1 sample freely | `NoStrayMessage` | pass, 736k states |
| `bmr_termination` | `MCBMRLiveness.cfg` | scenario 4, shares fixed | `Termination`, `ImplementsAbstract` | pass, 30k states |
| `beavy_layout` | `MCBeavyLayout.cfg` | every Input/AND/Output gate of ≤3 wires of ≤3 lanes | `LanesRoundTrip`, `FrameFitsFuture` | pass, 171 states |
| `beavy_input_ids` | `MCBeavyInputIds.cfg` | every circuit of ≤3 input gates, ≤2 wires, ≤2 lanes | `PrgCorrelated`, `FreshPrgBlocks` | pass, 118k states |
| `backend_version_mismatch` | `MCBackendVersion.cfg` | as above, builds of two versions | `EvaluateOnlyAfterVerifiedHello` | **violation** |

Bounds. Two parties is the protocol. The circuits contain every gate kind, both output
modes and an INV whose designated and non-designated parties differ, so every action
and both INV/Output branches fire. The fibers runs fix random bits to FALSE: their
properties are about control (agreement, message matching, wire finality, termination)
and the nondeterministic racy reads plus the free inputs still produce differing
values; with all bits free the fibers state space exceeds several million states. The
data-path properties are checked in the sequential run with every random, PRG and input
bit free (all 2^10 combinations). CHECK_DEADLOCK is off because the evaluation really
stops when every task is done; a stop anywhere else violates `Termination`.

Finding (`beavy_output_race`): `BooleanBEAVYOutputGate::evaluate_online` reads its input
wire's δ (line 291) and Δ (line 315), and `BooleanBEAVYANDGate::evaluate_online` reads
Δ_a, Δ_b (lines 466-471), without `wait_setup`/`wait_online`, contrary to spec 4.2. TLC
shows party 1's output promise fulfilled (with a wrong bit) before either input was
given, even with `online_after_setup`. With a scheduler that runs gates in topological
order (`beavy_sequential`) the reconstruction is correct.

Backend bounds. Three parties is the smallest number at which one party's hellos and
terminations interleave with two others'. It also lets a hello carry the seed of the
wrong peer's generator. Two seeds tell generators apart. Party 2 does not share inputs, so
both seed branches of `SendHelloToOthers` occur. With two versions, every mix of builds
is an initial state.

BMR bounds. Three parties is the smallest number at which a party waits on two others.
It is also the smallest at which garbled rows, keys and λ-shares come from more than one
peer. With free permutation shares the public values, and with them the frames a party
sends, take every value. The liveness run fixes the shares, because what a party waits
for does not depend on them; the inputs stay free.

Layout and input-id bounds. Three wires of three lanes is the smallest size at which
`num_wires` and `num_simd` differ in both directions. A slice that uses the wrong one,
or ends one lane early, then moves lanes. The Output gate gets every per-wire width
combination, so a registration that assumes one width meets a frame of another size.
For input ids, three gates of up to two wires and two lanes place gates of different
widths before and after one another. Ids reserved per wire and ids reserved per bit
then differ, at either owner. Both runs stop when the exchange or the setups are done,
so CHECK_DEADLOCK is off.

Finding (`backend_version_mismatch`): `VerifyHelloMessages` (lines 96-104) returns
`void` and on failure only logs "Hello message verification failed". No caller can
abort on it, while spec 6 says a failed verification aborts the session. TLC shows a
party whose peer runs another version reach evaluation with `verifyOk = FALSE`. With
one build (`backend_handshake`) no verification fails.

Refinement (`beavy_sequential`): under the sequential scheduler the gate engine
implements `BeavyAbstract`. This includes liveness: every input and every
recipient's output eventually happen. Under parallel fibers it does not. That is the
`beavy_output_race` finding, since an output promise can be fulfilled before an input
exists.

Every property of a passing run has a mutant in `PROJECT.json` (dropped peer share in
Δ_y, owner sending to itself, inverted INV forward flag, output recipient awaiting
itself, broadcast replaced by a send to ALL, missing OT receiver output, the
Δ_aΔ_b term added by both parties, missing Δ in output reconstruction; in the backend
the seed of the next peer's generator, a
`TerminateCommunication` loop that skips the last party; in BMR output shares sent to every party, garbled rows not sent to the last party, the `ALL`
default of `is_my_output_` dropped; in the layout a slice ending one lane early and an
Output registration that assumes one width for all wires; in the input ids a receiver
reserving `num_wires * num_simd` ids and wires reading `input_id_` without `+ wire_i`)
that TLC finds.

## 4. Not modelled, and why

* Arithmetic BEAVY input gates: commented out in the source.
* BMR method bodies: not in the repository. The BMR model takes each gate's futures
  from the header and its steps from spec 4.4. The output promise mutex (line 93) and the
  key derivation inside the garbled rows are not modelled; OT and garbling are ideal.
* The OT provider's id counters: not under `src/`. `BeavyGates` pairs each AND gate's
  OT sender with the peer's receiver of the same gate. `get_next_input_id` is modelled
  in `BeavyInputIds` as the counter spec 3 describes. `GetBits(id, n)` is taken as the
  n-bit block at `id`. Under a per-bit reading, wires with `num_simd > 1` would overlap;
  that reading is not checked (hazard `part_000:130`).
* The hello's party-count and `online_after_setup` fields: all parties read them from
  the same configuration, and the verification of spec 6 does not check the flag.
* PRG/AES and the packing of bits into bytes: cryptography and data layout. BitVector
  `Append`, `Subset` and `^=` are modelled symbolically in `BeavyLayout`; elsewhere
  a wire is one bit.
* Exceptions (size mismatches, wire poisoning), PeerGone and abort: not in the source
  under `src/` beyond the `throw`s for size checks, which the abstraction to single
  bits makes unreachable.

## 5. Further work

1. Compose `Backend` with `BeavyGates`: the seeds installed by the handshake as the
   PRG tape the input gates read. The backend is the older `ABYN` code and the BEAVY
   gates read generators from the MOTION base provider. Neither the provider nor the
   link between the two is under `src/`, so such a composition would be invented
   rather than translated.
2. Refinement of the backend's handshake to an abstract "session established"
   specification.
3. BMR with several SIMD lanes. The header gives no layout, so there is nothing to
   translate.
