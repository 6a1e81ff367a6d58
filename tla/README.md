# Node-Lightning in TLA+

TLA+ specifications of [node-lightning](../src/README.md), the TLC runs that
check them on small instances, and theorems about them whose proofs TLAPS
checks. Every definition is written from the TypeScript source; `PROJECT.json`
maps each one to its lines. Paths below are relative to `src/packages/`, and to
`lightning/lib/` where no package is named.

## 1. The system and its parts

Node-Lightning is a set of packages from which a Lightning node is put together.
There is one thread: everything runs to completion up to an `await`, a callback
or a timer, and these are the places where its parts interleave.

```
 bitcoind --poll--> BlockWatcher --callback--> LightningEvent (block) ----+
                                                                          v
 remote <-TCP-> NoiseSocket <--> Peer --readable/ready/close--> LightningEventQueue
                 (NoiseState)    (PingPongState)   (PeerManager)          |
                                                              LightningEventMuxer
                                                               |               |
                                              GossipManager <--+               +--> ChannelManager
                                     (filter, stores, relay, queries)      (state machine, storage,
                                               |                            wallet, Bitcoin node)
                                             Graph
```

| Part | State | Operations | What makes it correct | Module |
|---|---|---|---|---|
| ChannelManager, StateMachine, TransitionFactory, Channel (`channels/`) | list of channels, each with its state, funding, commitment numbers; storage | openChannel, onAcceptChannelMessage, onFundingSignedMessage, onChannelReadyMessage, onBlockConnected, onPeerDisconnected | no funds are locked without a way out; storage is at most one transition behind; `channel_ready` is neither early nor lost; the dead stay dead | `ChannelManager` |
| Helpers, TxFactory, ScriptFactory, ChannelKeys (`channels/`) | the channel they fill | validate requests and messages, derive keys, build and sign commitments and HTLC transactions | both nodes build the same commitments; each output can be claimed by its owner and punished; a channel that is opened pays somebody | `OpeningRules`, `CommitmentKeys`, `Commitments`, `ChannelLedger`; that they may refuse, in `ChannelManager` |
| NoiseSocket, NoiseState (`noise/`) | keys, nonces, handshake and read state, buffer | three acts, encrypt, decrypt, rotate keys, read, write | authentic, no nonce reused, in step, bounded read-ahead | `Noise` |
| Peer, PingPongState | connection state, read buffer, timers | connect, attach, disconnect, reconnect, init exchange, messages, pings | ready only after init; silence is bounded; a lost connection is dialed again, one that was left is not | `Peer`, `PeerSession` |
| PeerManager, LightningEventQueue, LightningEventMuxer | FIFO of events, flag `processing` | push, process, route | one event at a time, no message forgotten, peers announced first | `EventQueue` |
| BlockWatcher (`lightning-bitcoind/`) | hash known, flag `syncing`, timer | start, stop, poll, sync | the user hears of the best chain, block by block, and of what left it | `Chains`, `BlockWatcher`, `ChainFollower` |
| GossipManager, GossipPeer, GossipQueriesSync, ChannelRangeQuery, ChannelsQuery, GossipSyncWatcher, GossipQueriesReceiver (`gossip/`) | sync state, peers with their sync task and receiver | start, onPeerReady, onPeerClose, replies, timeout | one sync at a time, that ends and asks for everything; peers are enabled after it, the relay rests during it | `GossipSync` |
| GossipRelay (`gossip/`) | queue of hot messages, an index per peer | addPeer, removePeer, enqueue, timer | each peer gets what is new, once and in order | `GossipRelay` |
| GossipFilter, stores (`gossip/`, `gossip-rocksdb/`) | stores, pending stores | validate, save, flush, delete, restore | nothing without its channel; the last update is not lost; crashes leave nothing dangling | `GossipStore` |
| Graph, GraphManager (`graph/`) | channels and nodes | add, remove, update | symmetric, whatever it is told | `RoutingGraph` in `GossipStore` |
| CommitmentNumber, CommitmentSecret, CommitmentSecretStore (`channels/`) | 49 secrets | obscure, reveal, insert, derive | every revoked commitment can be punished | `CommitmentKeys`, `ChannelLedger` |
| Queue, LinkedList, AsyncProcessingQueue, AsyncStreamAggregator | lists, flags | enqueue, remove, flush | behave as sequences | not modelled: used by nothing else |
| BlockDiffer, TxWatcher, ChannelWallet, RetryPolicy (`lightning-bitcoind/`, `bitcoind/`) | a map of watched outpoints | diff, watch, fund, retry | shortest path between two tips; funded or refused; bounded retries | not modelled but for the failures others see |
| Messages, BitField, addresses, records (`messages/`, `serialize/`, `deserialize/`), bufio | cursors | read, write, sign over bytes | round trips, cuts noticed, unknown records as their type says, signed bytes relayed unchanged | `Bufio`, `WireData`, `Messages`, `MessageWire` |
| Scripts, transactions, blocks, TxBuilder (`bitcoin/`) | a builder with cached hashes | parse, serialize, size, id, build, sign | round trips alone and in a block; signatures hold for what is sent | `Transactions`, `TxBuilder`, in `MessageWire` |
| the rest of bitcoin, invoice, onion, crypto, secp256k1, checksum, logger | values | encode, decode, hash | test vectors | left to unit tests |

Hard behaviour, with the lines where it bites, is listed under `hazards` in
`PROJECT.json`: handlers cut by awaits while the user calls `openChannel`,
failures half way through a handler, messages out of order or repeated, timers
that race answers, back pressure, reorganizations during a sync, flags that an
exception leaves set.

## 2. The modules

### ChannelManager

The opening of channels by the funder. `chan` holds the Channel objects with the
fields that the state machine reads or writes, `disk` what IChannelStorage holds.
A handler is cut where it awaits something another party can observe: the
transition function is one action (`AcceptValid`, `SignedValid`, `ReadyValid`,
`FundingConfirmed`, ...), `transitionState` is `Commit`, the loops of
`onBlockConnected` and `onPeerDisconnected` go on channel by channel
(`BlockBegin`, `BlockSkip`, `LoopEnd`, `GoneBegin`, `Abandon`, `GoneSkip`).
`openChannel` is called by the user and runs beside the queue in three steps
(`OpenBegin`, `OpenSend`, `OpenDone`). A call of the wallet, of the Bitcoin node
or of the storage that is rejected, a send to a peer that is not Ready, and a
lookup that dereferences a missing id throw: what was assigned before stays, and
nothing is handled any more (`pc = "stalled"`), as in LightningEventQueue.

The fundee (`PeerAccepts`, `PeerSigns`, `PeerReady`), the connection and the
chain are the environment; so is any other peer that sends `funding_signed` or
`channel_ready` with the id of a channel (`PeerStrays`): the code finds the channel by its
id and does not compare the sender. Such a peer has no signature of the fundee's, but
any point will do. The chain only grows, as no event for a disconnected
block is routed to ChannelManager. `onPeerDisconnected` is modelled as the class
has it, although LightningEventMuxer routes no such event today (see
`EventQueue`), and its handler would be called by whoever wires it.

### Noise

Both ends of an encrypted connection. Cryptography is symbolic: a chaining key
is the sequence of everything mixed into it, a key is its half of the HKDF's
output and the chaining key it came from, and a sealed text opens only with the
key, nonce and associated data it was sealed with. Two keys of the model are
equal exactly if those of the program are, so that disagreement, reuse of a
nonce and an impostor are visible. `OnData` is one turn of the loop of `_onData`
in the state it is in; `Write`, `Consume` (the reader), `Close` are the rest.

### Peer and PeerSession

A Peer with its PingPongState, in units of 15 seconds. Time passes (`Tick`) only
when no timer is due. Each handler is one action; what the remote node sends is
chosen when it is read. The behaviour of the socket is that of Node.js 14 and
later, which the repository is tested with: a write after `end()` destroys the
socket. `PeerSession` is the abstract session a Peer implements.

### EventQueue

LightningEventQueue with the peers and the block producer that push to it. As
JavaScript runs to completion, nothing is pushed between two turns of `process`
that do not wait (`Quiet`). A Peer emits one "readable" for all messages pushed
in a turn. A message of a type MessageFactory does not know is `undefined`, which
`process` takes for an empty buffer (`ReadUnknown`).

### Chains, BlockWatcher and ChainFollower

`Chains` says what blocks there may be, and keeps the history of the best chain. A block is the sequence of the branches taken since the first one, so that its
ancestors, reorganizations and orphans need no further structure. bitcoind may
extend or reorganize its best chain, always to a longer one, between any two
answers. Each `await` of `_sync` is a value of `pc`, and may be rejected (`Fail`).
`ChainFollower` is what the class comment promises the user.

### GossipSync

The synchronization of GossipManager, from the PeerReady event of its first peer
to the end of the gossip that answers the queries. `tasks` lists every
GossipQueriesSync there was, `syncTask` says which of them hears the messages of
a peer: a peer that is ready once more gets a new GossipPeer, and its older task
is not heard of again. Handlers (`OnPeerReady`, `ReplyChannelRange`,
`ReplyShortChannelIdsEnd`) run one at a time and stall the queue when they throw;
the promises and the timer of a sync (`OnTimeout`) go on. Each action takes in
what is awaited and already settled: a send that fails fails the sync before the
next event is handled. Channels are counted, heights are steps, and what gossip
does to the filter and the relay is left to their modules.

A remote node answers `query_channel_range` in parts that are all marked
complete and end at the target height, or that are marked incomplete but for the
last (`Style`, `MayReply`, `IsLast`); or it knows nothing. It sends nothing it
was not asked for.

### GossipRelay

The queue of hot messages with the index of each peer. A message is a subject (a
channel, an end of a channel, a node) with a timestamp; it is numbered when it
enters the queue, so that order, repetition and loss can be told. `Enqueue` with
`EnqueueFirst` and `Replace` is `enqueue`, `OnTimer` the flush of all peers and
the pruning, `OnTimerThrows` a flush that meets a peer that is not Ready.

### OpeningRules, CommitmentKeys, Commitments and ChannelLedger

What `ChannelManager` takes as a verdict, computed. `OpeningRules` holds Value
(a number of satoshis and one of milli-satoshis, with its roundings) and the rules
of `createChannel` and `validateAcceptChannel` in the order of the code.
`CommitmentKeys` derives keys and secrets in a group of small prime order: a
secret is a number, a point its multiple, SHA-256 a mixing function on numbers; it
also has the 49 slots of CommitmentSecretStore, over `Bits` bits instead of 48.
`Commitments` builds the commitment of a side and the transaction that claims an
HTLC. A script is a record of the keys it names and on which terms.
`ChannelLedger` opens a channel between the program and a counterpart that
follows BOLT 2 and 3, whose view (`peer`) is kept beside the program's
(`channel`), then adds HTLCs, rotates commitments and lets the counterpart reveal
secrets, of its seed or of another (`Revoke`). Nothing in the repository adds
HTLCs or calls `revokeLocalCommitment` and `insert` yet: the ledger does as their
comments say they will be (`AddHtlc`, `Revoke`; `DepthReached` both with and
without the rotation).

### GossipStore and RoutingGraph

GossipFilter over one of two stores, chosen in `Init`: GossipMemoryStore, whose
operations are atomic, or RocksdbGossipStore, each of whose reads and writes is
awaited. A handler is the sequence of what it still has to do (`todo`), for the
filter, for the monitor of spent outputs and for `start()`, and each action takes the
head of one of them: the three interleave at every await. A failing write ends a handler
(`WriteFails`), a crash ends all and is followed by `_restoreState`
(`CrashAndRestart`), whose loop over the stored channels asks for one output after the
other and removes what is spent (`_validateUtxos`), with the monitor and the filter beside
it, as `onWireMessage` does not wait for `start()`. What the filter accepts goes to
`RoutingGraph` at the point at which GossipManager emits it. The history
variables name the last update received (`last`), the channels on which, each of them,
two handlers were at work at once (`raced`), those whose handler was cut off (`cut`), and the
links that the write of a list read earlier undid for another channel (`lost`).

### Bufio, WireData, Messages, Transactions, TxBuilder and MessageWire

Bytes in, bytes out. A reader or writer is a record, an operation returns the
object it leaves, `ok = FALSE` when it threw; a number is the sequence of its
bytes, so no width is lost. In `Messages` a class is the list of fields it reads
(`...Read`) and the list it writes (`...Written`), written down apart, as the two
methods are, so that a field that is read otherwise than written is visible;
records, optional fields, encoded lists and the bytes that signatures are over
are as in the code. `Transactions` has scripts, stack numbers, sequences,
transactions with and without witnesses, ids, sizes and blocks; `TxBuilder` is
the builder with the hashes it caches, an action per method. `MessageWire` is a
user of all of them: it chooses a job in `Init`, writes, lets the bytes arrive
whole, cut, padded or with records of another implementation, and reads. These
modules use LET RECURSIVE and hold no theorems.

## 3. The runs

Each run is a `.cfg`; those that pass also show that every action can happen
(TLC's coverage), and each of their properties is broken by a mutant of the
model, listed in `PROJECT.json`. CHECK_DEADLOCK is off everywhere, as all bounded
instances come to rest when their messages, blocks or connections are used up.

| Run | Shows | Bounds |
|---|---|---|
| `channel_open` | safety of funds and storage, and depth (`BroadcastIsStored`: at a broadcast a valid signature is in memory and the funding transaction in storage, the signature is stored but for the channel under way; `StoredUpToReady`: what a restart finds is what memory has, or for one channel the state before; `ReadyIsDeep`, `DeadStaysDead`) with failing calls, invalid messages, lost connections | 2 channels with a fundee each, which may be exchanged (`Swaps`), a minimum depth of 3 (the block after the confirming one already gives depth 2, so that only from 3 on the comparison decides; 1 and 2 are in `channel_live`), 3 blocks, 1 lost connection, 1 message of the other peer: a `channel_ready`, or a `funding_signed` without the signature |
| `channel_live` | a confirmed channel becomes usable or is failed (`BecomesNormal`) | 2 channels with one fundee, no failing calls, 1 message of another peer |
| `noise_transport` | `ReadyIsAuthentic`, `NonceIsFresh`, `OnlyCrossingRotationsFail`, `WrittenIsRead` | keys rotate after 3 uses instead of 1000, 4 messages each way: two rotations per direction, one of them inside a message |
| `peer_session` | `SilenceIsBounded`, `LostIsRetried`, and that Peer implements PeerSession (`IsSession`) | the real timeouts in units of 15 s; flood threshold 2 instead of 10; 2 messages unread |
| `blocks_follow` | `IsFollower`, `Follows` | all trees with 2 branches per block up to height 3: reorganizations of depth 1 and 2 |
| `queue_messages` | `NoLostWakeup`, `ReadyFirst`, `MessagesHandled` | 2 peers (buffer of 1 with unknown messages, buffer of 2 without), 2 messages each, 1 block, 1 connection each |
| `gossip_sync` | `OneSync`, `RelayFollows`, `AllAsked`, `EnabledWhenSynced`, `SyncEnds` | a peer of each kind, 3 connections among them, 2 channels asked for one at a time, parts of at most one channel |
| `gossip_relay` | `OnceInOrder`, `OneMissPerReplacement` | 2 peers added up to twice each, a subject that is replaced and one that is not, 4 messages, 3 timestamps, a queue pruned to 1 |
| `gossip_store` | `NothingDangles`, `AnnouncedIsLinked`, `LastIsHeld`, `GraphIsWhole` | both stores; 2 channels that share a node, 3 nodes; both directions of one channel, one of them also by an older update with a wrong signature; an announcement of the shared node; 4 messages, 1 removal, 1 crash or failing write; filter, monitor and `start()` side by side, 2.9 million states: the loss of a link happens, and without its exception either property fails |
| `channel_ledger` | `MirroredCommitments`, `FirstCommitmentsPay`, `OutputsAreClaimable`, `HeldSigIsValid`, `RevokedIsPunishable`; both nodes sign for the output `createFundingTx` makes (in `FirstCommitmentsPay`) | requests and answers at each limit of the rules and one beyond; 2 HTLCs of equal hash in every direction, with two expiries and values that are equal or differ by a millisatoshi; 12 rotations, enough to fill several slots of the secret store with 6 bits; the seed may change once |
| `channel_second_point` | violated: `SecondPointIsProvided` | as above, without HTLCs |
| `wire_formats` | `WhatIsWrittenIsRead`, `CutIsNoticed`, `RelayedUnchangedOrNotCanonical`, `RecordsAreStrict`, `ValuesReadBack`, `TransactionsReadBack`, `SignaturesHold` | 21 message classes (the stored announcement included) in 3 fillings, with lists of 0, 1 and 2; flags of a query that are 0, one byte, 252, 253 or two bytes, of which the one-byte ones up to 252 are read back and no others; cuts at every byte; 1 or 2 extra records; numbers around every limit of the codecs; hosts with every set of zero groups; data of 0 to 521 bytes; transactions of up to 3 parts (2 inputs or outputs, blocks and times as delays), a witness item, 2 signatures, alone and in a block at heights around the opcodes and a byte more |

The bounds are the least at which every interleaving of interest occurs: two of
everything that can be confused with another (channels, peers, directions,
branches), one more step than the counter that resets or the buffer that fills.
The theorems of section 4 have none of them.

Fairness. Liveness is claimed under weak fairness of what the runtime guarantees:
`process()` goes on with what it has started and takes what is queued, timers
fire, awaited calls answer or fail, data that is in a socket is read. Nothing is
assumed of users, of remote nodes (but in `channel_live`, which is about a fundee
that keeps its part, and in `SyncEnds` of GossipSync, about a node that ends its
answers while it is connected) or of the network.

### What the violated run says

`channel_second_point`: nothing calls `revokeLocalCommitment` before `channel_ready`
is made, which then carries the first per-commitment point, that of open_channel.

### Deviations met on the way

Behaviour of the code that differs from what its docs or comments say, or that a
reader would not expect. The models have it; no property claims otherwise.

*Opening a channel.* A `channel_ready` that comes before the funder sees the
confirmation has no transition (StateMachineFactory.ts:45; docs/transitions2/
transition_4.2.md:3,13 has it captured), and the channel waits for ever; one that is
repeated while the depth is awaited rotates the fundee's commitment again
(`ReadyValid`). `ChannelId.equals` throws when a channel in the list has no
channel id yet (domain/ChannelId.ts:57). ChannelWallet.getFeeRatePerKw takes BTC/kvB
for sats/kvB (ChannelWallet.ts:90-93); `fundTx` stops selecting before fees and locks
no UTXO. Comments of the fee rule divide by 100, the code by 1000. The secret store and HTLC
lists are not wired.
The transition that broadcasts the funding transaction ends before `transitionState`
saves the channel (TransitionFactory.ts:83, ChannelManager.ts:113): a crash in between, or a
save that fails, loses the fundee's signature of the commitment with which the funds could
be claimed; the funding transaction is stored by then. The comments of the abandoning
transitions say that they remove the channel from disk (TransitionFactory.ts:159-165, :187-192);
they do, and `transitionState` then saves it again as abandoned, which
`StoredUpToReady` therefore leaves open. `funding_signed` and `channel_ready` are taken from any peer
(ChannelManager.ts:190-201, :222-231): a `funding_signed` of another peer
fails the channel, and a `channel_ready` of another peer counts as the fundee's, with its point.
`validateFundingTx`, which nothing calls, compares the output's script, a P2WSH lock, with
`Channel.fundingScript`, the bare 2-of-2 script inside it (Helpers.ts:893-899, Channel.ts:196-199,
TxFactory.ts:28): it refuses the output that `createFundingTx` makes, contrary to its comment
(:884-888). Its unit test passes as the helper of the tests makes a bare output
(`__tests__/_test-utils.ts:277`).

*Noise, Peer, queue, blocks.* Both directions of NoiseState rotate with one
chaining key (noise-state.ts:450-464): rotations that cross break the connection, and
`OnlyCrossingRotationsFail` says that nothing else does. `disconnect()` before the
socket is ready, or during the back-off, has no effect (Peer.ts:250, :298). A ping
that is due while a Peer disconnects throws out of its timer (`PingDue`, bounded by
`OnlyLeavingThrows`). Peer emits "close" only after `disconnect()`. The queue holds
one read event per message that arrives while a handler waits. `stop()` during a sync of
BlockWatcher is undone when the sync ends, and the sync asks for headers without a
pause while the block it set out for is orphaned. Unknown messages hide what is behind
them in a buffer larger than one (`NoWakeupIsLost` is proved without that case).
The flag `syncing` of BlockWatcher is not reset when a call fails, and no block is reported any
more (`SyncInv`: `failed => syncing`). PeerManager pushes PeerDisconnected, which
LightningEventMuxer does not route: the queue stops.

*Gossip.* A newer update moves the relay's queue under the indices of the peers
(GossipRelay.ts:188), which miss a message each time (`OneMissPerReplacement` bounds
what they miss); a peer that is not Ready makes the relay's timer throw, in front of the
peers behind it; a lost connection leaves a sync waiting for ever, with the relay stopped
(`Interrupted`); a sync counts as failed when one of the other peers is not Ready
at its end (GossipManager.ts:295-300), as does an answer of a node that marks an empty first
part as incomplete; a first peer without gossip_queries makes the state Synced
without any sync; a peer that is ready during a sync is enabled at once, where the comment
(GossipManager.ts:92) has "already synced"; `start()` that ends during a sync turns the
relay on; a message is relayed even if the filter refused it (GossipManager.ts:269).
GossipMemoryStore.deleteChannelAnnouncement deletes direction 0 twice (:106-108), so the
update of direction 1 stays; RocksdbGossipStore reads the list of a node and writes it
back in two awaited calls (rocksdb-gossip-store.ts:185-214), so that of two handlers whose
channels share the node the later write undoes the earlier: an announced channel loses its link,
or the link of a removed one comes back (`lost`); it never deletes the outpoint key, and a save that was
cut is not repaired; a flush that fails leaves the rest pending for ever; of two pending
updates the one received last is kept, were it the older one; a plain announcement in
RocksDB is read back as an extended one without its outpoint, and `start()` with a chain
client throws on it; the graph hears of updates before announcements, contrary to
graph-manager.ts:94-95, and never finds a plain channel by outpoint.

*Messages.* The flags of `query_short_channel_ids` are written as the bytes of their
number (QueryShortChannelIdsMessage.ts:91-94) and read as BigSizes (:42-46): a zero flag has no
byte and is dropped, one above 252 is read as something else or not at all. `BitField.flags()` misses a lone flag (BitField.ts:60-71, which Peer.ts:377
and :411 read features with); ChannelUpdateMessage.checksum writes the flags as 0;
`lastReadBytes` after a varint is the width of its last part; signature
hashes are over a serialization of what was read, which `RelayedUnchangedOrNotCanonical`
qualifies; an address of unknown type is read as undefined and cannot be written
again; StreamReader.readBigSize accepts encodings that are not the least; ChannelId.fromOutPoint combines the
low byte of the id with the high byte of the index.

*Transactions.* Tx.safeDecode reads a transaction without inputs, whose first value ends in a
zero byte, as one with witnesses, and leaves bytes unread (`TakenForWitness`; Tx.ts:26-29
expects an error). The comment of LockTime says 0xffffffff disables it, and that it is the default;
a Sequence is in time mode only if its upper bits are exactly those; bip69InputSorter
compares one txid reversed with one that is not; the height of a block up to 16 cannot be
read; empty data makes `serializeCmds` throw "Data too long"; hashes of `hashSegwitv0` are cached at the first
signature, and those of a builder that is changed after it do not hold (`SignaturesHold` says
which do).

## 4. The theorems

Eight modules hold proofs. Each states an inductive invariant `IInv`, proves that
it holds initially (`Initially`), that every action keeps it (`Consecution`, with
a lemma or step per action), and draws the properties from it. The runs check
`IInv` first where it is stated in the component's module. Assumptions are those
named in the modules: sizes are natural numbers, highWaterMark and the rotation
interval are positive, the pong timeout is below the ping interval.

* `ChannelManagerProofs`: `Invariance`, `TypeCorrect`, `FundsAreSafe`,
  `DepthIsAwaited`, `UseIsMutual`, `StorageFollows`, `TheDeadStayDead`. The
  invariant says what the handler that is not done has established, where each
  channel stands between memory and storage, that no two are behind, and what the messages in
  flight were sent for: without it `SignedValid` could broadcast for a channel that was
  never funded, and `Commit` could revive a dead one.
* In the same module, about the BlockWatcher that tells ChannelManager of the blocks
  (`Watcher`, an INSTANCE of its module over variables of its own):
  `WatcherInvariance`, `KnownIsTold`, `WatcherFollows`. The block that is being disconnected is stale, the one being connected is a child of the
  one known, so every step of the watcher is a step of ChainFollower or none.
* `NoiseProofs`: `Invariance`, `NoncesAreFresh`, `BackPressureWorks`. A key's
  next nonce is above those used with it, and a chaining key only grows, so a
  rotated key is new. `SessionInvariance`, `HandshakeAuthenticates`,
  `OnlyCrossingFails`: the invariant `SessionInv` says, state of the handshake by state,
  what each end has hashed and mixed and what can be under way. That act one opens makes the
  responder's hash the initiator's, hence the key that was dialed its own. From act
  three on, the units under way are a chain (`InStep`): each is sealed with the nonce after
  that of the one before, or with nonce zero and the key next rotated to
  (`NextKey`), up to what the sender will seal with. `SameRotation` is the heart of it:
  if the chaining keys agree after the reader rotates, then between two rotations of one direction
  both ends have mixed in the same rotations of the other, so the key the reader gets
  is that of the next unit. Chaining keys only grow, so ends that agree have always
  agreed, and ends that do not never will. `TypeCorrect`: messages are numbered upwards
  on the wire, so that no more are received than were written.
* `PeerProofs`: `Invariance`, `TypeCorrect`, `ReadyAfterInit`, `SilenceBound`,
  `OnlyLeavingPeersThrow`, `PeerIsSession`. The invariant bounds the silence by
  the interval and the pong timer that are running.
* `EventQueueProofs`: `Invariance`, `TypeCorrect`, `ReadyComesFirst` and, for
  peers whose reads leave nothing behind, `NoWakeupIsLost`. The invariant says
  that a read in the queue has the PeerReady event of its peer in front of it,
  unless that was taken: proved for pushing, taking and requeueing an event.

* `GossipRelayProofs`: `Invariance`, `TypeCorrect`, `SentOnceInOrder`,
  `MissesAreReplacements`. The queue is in the order of entry and what waits for a
  peer is newer than what it was sent; the set of messages a peer missed grows by
  at most one with a replacement, and with no other step.
* `GossipSyncProofs`: `Invariance`, `TypeCorrect`, `SyncsDoNotOverlap`,
  `RelayRests`, `NoChannelIsForgotten`, `AllAreEnabled`. The invariant counts what
  each task has asked for and has yet to ask for against what was reported.

* `GossipStoreProofs`: `Invariance`, `TypeCorrect`, `StoreHasNothingDangling`,
  `ChannelsStayLinked`, `NoUpdateIsLost`, `TheGraphIsWhole`. None of the properties is
  inductive: between two awaits the store is not consistent, and what it lacks is
  made up for by what the handlers have yet to do. The invariant says so part by part:
  the order of the operations of a handler (`Before`, `InOrder`); that a handler which
  saves or deletes still has all of its writes (`HandlersAreWhole`); that what
  stands behind an announcement is not written before it (`SavesAreAnnounced`); that a
  list which was read is right about the channel it was read for (`ListsAreRight`), though
  what it says of other channels may be old: what its write undoes becomes `lost`;
  that what a deletion has not reached is still in front of it (`DeletesAreWhole`), a link
  that is missing is still to come (`LinksAreComing`), both but for what is `lost`, and the
  last update is pending,
  stored or in the hands of the filter (`LastIsAtHand`). There is one lemma on the invariant
  for each kind of step, one per action that connects it to such a step, and one per
  operation on the graph. That two handlers do not work on a channel at once is no
  assumption: such channels are in `raced`, and the parts do not speak of them. Handlers of
  different channels of one node are not in `raced`: what they do to each other's links is `lost`.

* `ChannelLedgerProofs`: `Invariance`, `SignaturesStayValid`, `TheChecksSuffice`,
  `TheNodesAgree`, `CommitmentsAreMirrored`, `ClaimInvariance`, `CommitmentsAreClaimable`,
  `TheSecretsRevoke`, `StoreInvariance`, `TheRevokedArePunishable`, for
  any amounts, rates, limits, keys, seeds, HTLCs and number of bits (`LedgerAssumption` gives the fields of a request, an answer and an HTLC their
  types). The invariant says how far the opening is (`PhaseInv`), that the two nodes'
  records are of one channel, side by side, and agree on the counterpart's next commitment
  (`AgreeInv`; on ours they may not, as nothing calls `revokeLocalCommitment`), which
  signatures are held (`SigInv`), that the terms are those that were checked
  (`TermsInv`), and that each point the counterpart gave has its secret (`KeysInv`).
  `TheChecksSuffice` is arithmetic over the rules: `FunderPays` draws from the reserve
  that can be reached, the push amount and the dust limits that one output of either
  commitment is above the dust limit when the fee is paid. `TheNodesAgree` says that the
  arguments of `createCommitment` are the same for both; `CommitmentsAreMirrored` that so is
  what it makes of them, in four steps. The outputs of one list are those of the other with
  the places exchanged (`OutputsTurned`, through the places at which `Picked` finds an item).
  A stable sort of the same items listed two ways differs in the places of ties only
  (`SortedAlike`: both count, for each output, those that are before it, and a place
  that differs would leave the first of the differing ones with too few). For that, the order must be one
  (`Sorts`: asymmetric, and what is before one of two is before the other or the other is before
  it), which it is as long as an output that pays an HTLC and one that does not have
  different scripts: `HashesDiffer`, the hypothesis that `Sha256` does not collide on the scripts
  of that commitment, which a hash of small order does not give. Outputs that tie then have one script and one
  value, hence one transaction and HTLCs that are the same to the satoshi: `createCommitment`
  orders by what an output pays, so that of two HTLCs that differ by a few millisatoshis either may
  stand first. Last, the number is read back: `xor` of a number with what it was obscured with
  is the number, bit by bit (`NumberRevealed`), of any width. `NumberInvariance` gives
  the types this needs: the numbers in use stay below `MAX_COMMITMENT_NUMBER`.
  `CommitmentsAreClaimable` is `OutputsAreClaimable`, under the same hypothesis on the scripts. Its
  invariant (`ClaimInv`, which TLC checked first) says that the keys of either side are those of its
  node's secrets, that our next point is that of our seed, and that the balances and the HTLCs,
  in thousandths, sum up to the funding: a payment takes from a balance what it adds to the list
  (`PaymentClaims`). Then each output of a commitment has a source, an HTLC or one of the balances,
  and no two have the same (`OutputsSourced`); the sort keeps that, as each place has one output
  (`SortedSourced`). An output has no more than its source is worth (`OutputWorth`), and numbers at
  distinct places of a list sum up to no more than the list (`TotalOfSome`), so that the outputs
  take no more than the funding (`WorthInAll`). Which key opens an output follows from its
  source (`OutputOwned`, with `DerivedKeysMatch` and `RevocationKeysMatch`), and the list of HTLCs
  beside the transaction is picked at the very places of the outputs that pay an HTLC, so that each
  is claimed from its own output (`HtlcsClaimed`). `TheSecretsRevoke` is half of `RevokedIsPunishable`: the secrets given fit the
  commitments that were signed. The other half is the store, whose invariant (`StoreInv`)
  says that each slot holds the lowest index received with that many low bits clear, from
  whose secret `derive` gives the secrets of the indices that share its other bits. Two facts
  keep it: what `insert` checks is exactly that a new secret is such a prefix of those in the
  slots below its own (`Inserted`, by `DeriveThrough`: a derivation may stop where the
  remaining bits of an index are clear and go on from there), and each index received is
  behind the one in some slot (`Covered`: the smallest number of low bits that takes it below
  all that were received). The inductions over bits are over sets of numbers (`Induct`, from
  the least counterexample, `Least`), which need no operator as a parameter.

Properties that hold proofs and no run of their own (`TypeOK`, `IInv`,
`NormalIsMutual`, `ReadAheadIsBounded`, `ReadyIsInitialized`,
`OnlyLeavingThrows`, `KnownIsView`) were checked by TLC before they were proved; the theorems
cover every instance, so that the runs are spent on what is not proved.

Only model-checked: the liveness properties (`BecomesNormal`, `WrittenIsRead`,
`LostIsRetried`, `Follows`, `SyncEnds`, `MessagesHandled`), which TLAPS does not reach
under fairness; and the codecs of MessageWire and TxBuilder, which recurse over data
TLAPS cannot induct over here.

## 5. Not modelled

* Derivation and encodings of keys and addresses (HdPrivateKey, HdPublicKey, Mnemonic and its word lists,
  Base58, Bech32, WIF), invoices, onion packets, DNS records, checksums, secp256k1,
  ChaCha20-Poly1305: functions of bytes without state, specified by published
  vectors, which the unit tests run. TLC would evaluate the same vectors, slowly.
* AsyncProcessingQueue, AsyncStreamAggregator, Queue, LinkedList, BlockDiffer: no other part
  of the node constructs them.
* Coin selection of ChannelWallet and the retry policy of the bitcoind client: one
  pass over one answer; their callers see success or failure, which is modelled.
* Opening and closing of databases, servers and sockets; `bootstrapPeers`; logging.
* The fundee: the repository has no code for it. It is the environment of
  `ChannelManager` and `ChannelLedger`.

## 6. Plan

A composition of EventQueue with GossipSync and GossipRelay, and of Peer, EventQueue
and ChannelManager.
