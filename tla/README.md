# A TLA+ verification of akroasis

This directory models the stateful parts of the akroasis workspace in TLA+,
model-checks them with TLC on small instances and proves the most important of
their properties with TLAPS for every value of the constants. `PROJECT.json` is
the index: the components, the runs, the map from definitions to source lines,
the hazards, the mutants and the theorems.

## The system and its parts

| Part | Code | State that changes | Module |
|---|---|---|---|
| Tamper-evident audit log | `tekmerion/src/tamper_log*.rs` | log file, seal, lock, writer handle | `TamperLog` |
| Effect gate and effect receipts | `akroasis/src/caller.rs`, `tekmerion/src/effect_receipt*.rs` | receipt ledger, linear handles | `EffectGate` |
| Outbound mesh delivery | `kerykeion/src/{router,outbound,delivery,store_forward}.rs`, flush task and reply handling of `collector.rs`, `processor.rs` | pending, inflight and stored queues, delivery records, statistics | `MeshRouter` |
| Signal pipeline | `semaino/src/*.rs` | three tasks, four channels, grid, suppression map | `SemainoPipeline` |
| Credential vault | `kryphos/src/storage.rs` | directory, lock, header, keyspace, audit log | `Vault` |
| Radio programming | `syntonia/src/baofeng/protocol.rs`, `akroasis/src/radio/program.rs` | serial exchange, radio memory | planned |
| Gateway bridge, collector, handshake, node database | `kerykeion/src/*.rs` | health, connection, tasks | planned |
| Caller resolution, codecs, CLI, HTTP routes, vocabulary | the rest of `crates/` | none | not modelled |

The vault writes every mutation to the tamper log before it touches the store.
Effect receipts are written for a ledger that the application is to bind to the
tamper log. The mesh collector feeds the router with replies and is meant to
feed the signal pipeline, which the application does not wire yet. Nothing else
in the workspace shares state.

## The modules

### TamperLog

`file[s]` and `seal[s]` are the log and the seal in slot `s`: slot 0 is the live
path, slot n the segment that was rotated away n-th. `log[p]` is the
`TamperLog` of process `p` with a program counter, since the log and its seal
are two files without a common transaction: `append` writes and flushes the
entry, `write_seal` replaces the seal, and a rotation is `rotate_rename`,
`rename_seal`, `rotate_create` and another `write_seal`. `open_inner` is
one step (it holds the lock and changes nothing on disk before its last
`write_seal`). The verifiers `verify_chain`, `check_tip` and
`verify_segment_chain` are operators over the files.

Faults fall between any two steps: the process dies (`crash`), dies inside
`write` (`crash_in_write`), a write, a seal or a rotation step fails, the machine
loses power (`power_loss`: the log is never synced, the seal is), a closed log is
truncated or a rotated one deleted. The ghost `harm` records which kinds have
happened, and the properties say under which of them they hold. A keyed hash is
the sequence of events it commits to. A signed tip names the process that signed
it: `check_tip` answers `ForeignInstallation` to every other one. Its
`SignatureInvalid` is not reached, since nobody forges a seal in the model.

### MeshRouter

One action per method of `MeshRouter` that a task calls. The flush task holds
the router's mutex through `tick`, `process_timeout`, `run_maintenance` and
`next_to_send`, and then alternates `transmit` without it and `track_sent` with
it; everything else needs the mutex free. ACKs and NAKs (`ack`, `nak`) arrive
for any packet that was ever on the air, any number of times up to
`MaxReplies`. The ghosts `aired`, `transmissions` and `stray` count what the
properties speak of; `stray` is the set of packets that were answered when no
answer was expected.

### SemainoPipeline

The fan task, the main loop of `SemainoPipeline::run` and the aggregator are
three processes whose steps end at an `await`. `Room` is what a channel accepts:
`agg_tx` is unbounded, the others are not. The grid keeps one timestamp for each
cell and domain, as `DomainSlots` does; the suppression map and its sweep are
those of `AlertPipeline`. What the aggregator's baselines score a signal is
chosen by the model.

### EffectGate

`gate` is the call of `execute_effect` in progress; `intents`, `tickets` and
`authorities` count, by digest, the `PersistedIntent`s, `RecoveryTicket`s and
`RecoveryAuthorization`s the application holds; and `ledger` is what the sink
accepted. A digest is a position in it. Every clock reading is an arbitrary time,
and the process may die with all its handles.

The application may claim receipts from the ledger at any time. For
`from_verified_unmatched` the ledger vouches that the intent has no outcome, and
for `from_verified` nothing but that the receipt is there; neither knows whether a
handle of the receipt is still held, so neither does `claim_intent` or
`claim_recovery`. (`akroasis/tests/caller_recovery.rs` claims an intent while its
ticket is held.) A claimed `PersistedIntent` becomes any outcome
(`report_outcome`) or a ticket (`into_recovery_ticket`). Two ghosts delimit what
the properties can promise then: `doubled` are the digests that were claimed while
held or, for a requirement, after it was recovered; two handles of such a receipt
can give it two children, and `OneChild` speaks of all others. `reported` are the
outcomes the application recorded itself, which say what it chose to say;
`OutcomeMatchesEffect` compares the others with what ran. That an effect runs at
most once for an intent holds without exception. The ghost `dropped` are the
receipts whose handle was lost by a death or a refused request: `NothingForgotten`
speaks of the rest.

### Vault

`vault[h]` is a handle on its way through `create` or `open`: the check of the
path, the directory, the lock, the truncated and then written header, and the
keyspace are separate steps, since another process may run or the machine may stop
between any two. `call[t]` is the mutating call of thread `t`, which takes
`write_lock`, reads and checks the entry, and then goes through `commit_audited`:
`append_vault_audit`, `mutate`, `persist`. An entry is its status and its history,
and an event of the history is the serial number of the call that made it, so that
the properties can say which call the log must account for. Calls that are refused
by their checks change nothing and are not actions. `EntryStatus::Expired` is left
out: no code sets it.

The audit log is coarser than in `TamperLog`: one step opens it, appends, seals,
and rotates it once it holds more than `MaxFileBytes` entries. `Accepted` is when
`open_inner` resumes the live segment, and `Leftovers` is what an append that fails
or is interrupted may leave, after any of its steps and any of the four steps of
`rotate`. Of a hash chain the model keeps whether a segment continues the one
before it. `verify_segment_chain`, which the vault does not call, is there for what
`LossIsDetected` says of it. `tamper_log_guard` is not modelled: it is only taken
under `write_lock`. The keyspace is external: an insert is in a journal until
`persist`, and of a journal that was not persisted any prefix may survive. A loss
of power also takes any suffix of every segment and the content of the header,
neither of which is ever synced; the directory and the seals stay.

## The runs

| Run | Properties | States |
|---|---|---|
| `tamper_log` | `TypeOK`, `SingleWriter`, `Recoverable`, `SegmentsProvable`, `NoFork`, `AckedDurable`, `LossDetected`, `IntactTipIsCurrent`, `AppendOnly` | 1.4 million |
| `router_queues` | `QueueBounds`, `PrioritySorted`, `OneCopy`, `NoSilentLoss` | 430,000 |
| `router_replies` | `TypeOK`, `OneCopy`, `RetryBound`, `StatsAddUp`, `QueueBounds`, `NoSilentLoss`, `EverythingReleased` | 185,000 |
| `semaino_pipeline` | `TypeOK`, `IngestedBeforeScored`, `SingleLossPoint`, `ConvergenceIsReal`, `SuppressionExact`, `Terminates` | 330,000 |
| `effect_gate` | `TypeOK`, `ChainValid`, `OneChild`, `OutcomeMatchesEffect`, `NothingForgotten`, `RecoveryHasRequirement` | 1.4 million |
| `vault` | `TypeOK`, `LossIsDetected`, `NoLostUpdate`, `RevokedForGood`, `PathIsUsable`, `AckedIsReachable` | 540,000 |

Six runs show where the code does not do what a comment says of it:

- `tamper_log_rotate`: a rotation that is cut short leaves a segment set that
  `verify_segment_chain` rejects although nobody tampered with it;
- `tamper_log_torn`: a writer that dies inside the write of an entry leaves a
  log that no later `open` accepts;
- `router_rate`: an acknowledged message can be retried, and an ACK that arrives
  after that counts again, so that `success_rate` exceeds 1;
- `router_inflight`: one flush sends the whole pending queue, past
  `max_inflight`;
- `semaino_slots`: ingesting an older signal again replaces a newer hit of its
  domain, so that the domain leaves the window;
- `vault_power`: the audit entry of a mutation is flushed and not synced before the
  mutation is synced, so that a loss of power can leave a stored entry that the
  log does not have. While the entry was in the live segment, its seal, which is
  synced, makes the vault refuse every later mutation. Once the log has been
  rotated nothing does: `open_inner` verifies only the live segment, and mutations
  go on (`FailsClosed`). The seal of the rotated segment still gives the loss away
  to whoever runs `verify_segment_chain` (`LossIsDetected`).

`AckedIsReachable` names one exception that the model reaches: two creates that
both pass the check of the path before either makes the directory. The second needs
only the lock, and when the first has filled its vault and closed it, replaces the
header, and with it the salt that every entry of the first depends on.

### Bounds

- `tamper_log`: two processes, one signing, so that a log changes hands between
  signed and unsigned writers; segments of more than one entry and up to five
  events, so that the log rotates twice; three faults, so that a crash can fall
  on the recovery from another one.
- `router_queues`: three packets of two priorities for two nodes, of which one
  loses its rank when it is sent again; a pending queue of two, stored queues of
  two and one destination, and one retry, so that every queue overflows, a retry
  meets a full pending queue, and `node_came_online` drains part of a stored queue;
  no replies. Its `VIEW` leaves out the statistics and the ghosts of the radio,
  which no guard and none of its properties read without replies.
  `router_replies`: two packets, one retry and two replies, so that each may be
  late, repeated or contradict the other, through queues of one, so that a NAK's
  or a timeout's retry finds the queue full as well.
- `semaino_pipeline`: four signals of three domains, two of one domain, one cell,
  channels of capacity one; a clock of three ticks over windows of one and two, so
  that hits expire and suppression ends.
- `effect_gate`: two operations and five receipts: an intent, its outcome, the
  recovery, its outcome, and one more; one claim of any receipt, held or not
  (`MaxClaims`; the proofs are for any number). The clock shows three times: before
  the caller was authenticated, while its context is valid, and after it has
  expired, so that every check of authority can succeed or fail and the clock can
  go back.
- `vault`: two handles, so that a create meets another create or an open; two
  threads, two names and three calls, so that two calls race for an entry that a
  third has made, and so that an entry is added, revoked or removed, and touched
  again; segments of more than one entry, so that the log rotates between two calls;
  two faults, so that a death or a loss of power can follow a failed step.

`semaino_pipeline`, `effect_gate` and `vault` do not check deadlock: `run` returns, an
application whose operations are settled may make no further request, and a create
that is cut short before its header leaves a path that `create` and `open` both
refuse until somebody deletes it.

### Fairness

`EverythingReleased` assumes that the flush task keeps ticking (a `tokio`
interval) and finishes its ticks, that time passes for messages, timeouts and
records, and nothing of the mesh: no reply need ever arrive. `Terminates`
assumes that each of the three tasks keeps running (`tokio` schedules a task
that is ready) and nothing of the caller except that it closes its broadcast.
No assumption is strong fairness.

## The proofs

`TamperLogProofs` proves for any set of processes and any bounds

- `TypeCorrect`: `TypeOK` always holds;
- `WritersExclude`: `SingleWriter` always holds;
- `CrashRecovery`: `Recoverable` always holds.

The assumptions are those of the model: `BoundsAssumption` and
`SignedAssumption`. `Recoverable` speaks of a log that nobody has open, and is not
inductive: it says nothing of the states in which a writer is about to
leave the log. The invariant `CrashSafe` strengthens it. As long as faults are
benign, a live log that nobody holds is sound (`LiveSound`): its entries are whole,
they are linked from where the seal says the segment starts, and the seal counts
no more of them than there are; or it has neither entry nor seal, or does not
exist. The handle of a writer is sound as well (`HandleSound`): between appends its
`prev_hash` and `sequence` are the end of the live file (`AtEnd`), and wherever a
seal is about to be written, what `refresh_seal` authenticates is what that file
holds (`Sealed`). A rotation moves a sound log away whole and starts an empty one
from its end.

`EffectGateHandles`, `EffectGateProofs` and `EffectGateOutcomes`, each extending the
one before, prove for any set of effects, any validity of the caller's context, any
clock readings, any number of claims and any bounds

- `TypeCorrect`, `ReceiptsChain` and `HandlesAreLinear`: `TypeOK`, `ChainValid` and
  `OneChild` always hold;
- `RecoveryJustified`: `RecoveryHasRequirement` always holds;
- `EffectsRunOnce`: `OutcomeMatchesEffect` always holds;
- `UnsettledIsHeld`: `NothingForgotten` always holds.

The assumptions are `EffectAssumption` and `TimeAssumption`. None of these
properties is inductive: a chain that is valid so far says nothing of the receipt
a call is about to append, nor of the handles that could add another. The
invariant `Sound` adds how events and recovery relations go together
(`WellShaped`), that the receipt the gate has pending continues the chain
(`GateSound`), and that whatever is held is in the ledger and of the kind its handle
says (`HandlesValid`). `EffectGateHandles` states it, with the two shapes a step can
have: the ledger stays (`Steady`) or grows by one receipt (`Grown`), and
`LedgerStep` shows that the new receipt is one that `validate_child_of` accepts.
For `OneChild` the invariant `HandlesLinear` says that outside `doubled` a receipt
has at most one handle, and no child while it has one. `EffectsRunOnce` adds how
often the effect of the current call has run (`CallRan`); `RecoveryJustified` and
`UnsettledIsHeld` are inductive once `Sound` is there.

What stays with TLC: the liveness properties and their fairness;
`SegmentsProvable`, `LossDetected` and `NoFork`, which need an induction over the
segments; and the properties of `MeshRouter`, `SemainoPipeline` and `Vault`.

## What is not modelled

Hashing, encryption, signatures, CBOR, protobuf and the serial image formats are
conversions of values without state. The floating-point statistics of the
baselines are out of TLC's reach, and scores are free choices instead. The wall
clock of semaino only advances. The HTTP server and the CLI keep no state. The
crates the repository's README marks as planned have no code.

## Plan

1. `AuditLog`, the abstract specification of a log (append-only, what was
   acknowledged stays), implemented by `TamperLog` under benign faults, in place of
   what `Vault` states of the log by itself.
2. `GatewayBridge`: health transitions, failover and the monitor task; the active
   gateway is available whenever one is.
3. `BaofengProtocol`: block reads and writes with retries over a serial line that
   delivers late, and `radio program` with its readback.
4. `MeshCollector`: handshake, supervision of the background tasks, node database
   and packet ids, which discharges what `MeshRouter` assumes of them.
5. Proofs: `QueueBounds`, `OneCopy` and `RetryBound` of `MeshRouter`;
   `IngestedBeforeScored` of `SemainoPipeline`; the refinement of `AuditLog`; the
   vault's invariants.
