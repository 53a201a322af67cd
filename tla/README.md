# A verification project for rectangle-device

rectangle-device turns a video into a stream that peers and gateways of IPFS can
serve: ffmpeg in a container cuts the video into MPEG-TS segments, an *ingest
thread* cuts those into blocks of a bounded size and duration, and a *node* thread
stores the blocks, builds HLS playlists and player pages around them, offers every
block to HTTP gateways (the *warmer*) and every finished player to pinning services
(the *pinner*), and answers the wants of bitswap peers.

This directory holds TLA+ modules that model those parts, TLC configurations that
check them on small instances, and TLAPS proofs of the results that should hold for
every value of the parameters.

- [The system](#the-system): the inventory of components
- [The modules](#the-modules): which module stands for which code
- [What the runs check](#what-the-runs-check), with bounds and fairness
- [What is proved](#what-is-proved)
- [Disagreements with the code's own words](#disagreements-with-the-codes-own-words)
- [What is not modelled](#what-is-not-modelled)
- [The plan](#the-plan)

Run `tlc -config MCWarmer.cfg Warmer.tla` for a run, `tlapm WarmerProofs.tla` for
the proofs of a module.

## The system

Paths are relative to `src/` of the repository.

| component | code | state | operations |
|---|---|---|---|
| main program | `src/main.rs` | the two threads and the bus they share | start both, wait for the node |
| ffmpeg sandbox | `sandbox/src/*.rs` | an image in the local store, a socket directory, a child process | check, pull and verify the image; create a socket pool; start ffmpeg |
| video ingest | `media/src/ingest.rs` | the container so far, the block being written, three clocks, the last PAT | accept a segment, inspect a packet, split, push a block, publish a container |
| media update bus | `media/src/lib.rs` | a bounded channel of `MediaUpdate` | blocking send, non-blocking receive |
| HLS and HTML packaging | `media/src/hls.rs`, `html.rs` | none | turn a container into a playlist, a directory, a page, a player directory |
| blocks | `blocks/src/*.rs` | none | encode raw and UnixFS blocks, directories and files of several blocks, cids |
| p2p node | `network/src/p2p/node.rs` | the warmer, the pinner, the configured peers, the swarm | `poll`: send a wanted block, drain the bus, poll the swarm |
| block store | `network/src/p2p/storage.rs` | `data` (cid to block) and `send_queue` (an ordered set) | insert, enqueue a want, take the next |
| network behaviour | `network/src/p2p/behaviour.rs` | bitswap, two DHTs, identify, mdns, gossipsub, ping | one handler per event |
| configured peers | `network/src/p2p/peers.rs`, `config.rs` | address and id maps | save a peer, find router addresses, add an address |
| gateway warmer | `network/src/warmer.rs` | a bounded channel and a pool of tasks | `send` (drops when full), HEAD request, retry |
| pinner | `network/src/pinner.rs` | a bounded channel and a pool of tasks | `send` (drops when full), POST request |
| web player, keys, image names | `player/`, `network/src/keypair.rs`, `sandbox/src/types.rs` | none | build-time bundling, key generation, regular expressions |

**How they interact.** ffmpeg writes each segment to a fresh connection of a Unix
socket; the ingest thread accepts them one at a time and reads each to its end. A
second thread waits for ffmpeg to exit and then connects once without writing, which
the ingest thread takes as the end. The ingest thread pushes each block into its
container and then sends it on the bus; a container follows a block when the publish
interval has passed, and a last one ends the stream. The node's `poll` drains the bus
between two looks at the network. It stores each block under its cid, announces the
cid to the DHT, offers it to gateways, and, when it is a player directory, asks the
pinning services for it. A bitswap want is queued when the block is stored, by the
block's usage, and one queued want is answered per poll.

**What is hard, component by component, and what makes it correct.**

- *Warmer*: its tasks are both ends of one bounded channel. An item must be in one
  place at a time, tried exactly `NUM_RETRIES + 1` times before it is given up, and
  settled in the end; the tasks must not all wait for each other.
- *Ingest*: each block must fit in `BLOCK_MAX_BYTES` and `SEGMENT_MAX_SEC` although
  the size is tested before a packet is written, the time after its clock is read,
  and a split reinserts a PAT. The input's clock may jump. No packet may be lost or
  repeated at a split. The block enters the container before its blocking send.
- *Bus*: order across two threads. A container must not be seen before its blocks.
- *Node and store*: what is published must be complete and a prefix of the stream; a
  pinned player must have been warmed; a queued want must be for a stored block, and
  be answered unless more urgent wants keep coming; equal bytes that are ingested
  again change a stored block's usage while a request for it waits; a full provider
  store or a peer that is gone ends the process in the middle of it.
- *Configured peers*: a second address of one peer overwrites the first entry.
- *Pinner*: like the warmer's queue, without retries: a failed or dropped pin is lost.
- *Sandbox and socket*: the exit notifier's connection races ffmpeg's last segment.

The components with their status are in `PROJECT.json`, and so are the hazards, each
at its line with the properties that would catch it.

## The modules

| module | models | uses |
|---|---|---|
| `WarmService` | what the warmer and the pinner promise | |
| `Warmer` | `network/src/warmer.rs` | `INSTANCE WarmService` |
| `Pinner` | `network/src/pinner.rs` | `INSTANCE WarmService` |
| `IngestSession` | the thread, podman, ffmpeg and the status notifier around one socket: `sandbox/src`, the accept loop of `ingest.rs` | |
| `MediaSource` | the bus, and what a source may put on it | |
| `Ingest` | `VideoIngest::task`, from a segment to the bus | `INSTANCE MediaSource` |
| `ConfiguredPeers` | `network/src/p2p/peers.rs`, the start of the node, the identify handler | |
| `Node` | `P2PVideoNode::poll`, the store, the handlers that change state | |
| `Pipeline` | the program: a source, the bus and the node | `EXTENDS Node`, `INSTANCE MediaSource` |
| `Wants` | `Pipeline` with a history of the wants peers made | `EXTENDS Pipeline` |
| `Packaging` | `blocks/src`, `media/src/hls.rs`, `media/src/html.rs` | |
| `MCPeers` | constants for TLC | `EXTENDS` the component |
| `WarmerProofs`, `PinnerProofs`, `SessionProofs`, `PipelineProofs` | theorems | `EXTENDS` the component and `TLAPS` |
| `IngestProofs`, `ConfiguredPeersProofs`, `PackagingProofs` | theorems about folds and recursive functions too | `EXTENDS` the component and `Recursion` |
| `Recursion` | lemmas: induction, recursive functions, folds, sums, flattening | `EXTENDS` the library and `TLAPS` |

`PROJECT.json` maps each definition to its lines.

### Warmer

`queue` is the channel, `pc[w]` and `item[w]` are a pool task's place in
`pool_task` and the item it holds, `outcome` and `attempts` record what became of
an offer. `Send` is `Warmer::send`, `Recv` the delivery together with the HEAD
request leaving, `HeadOk` and `HeadErr` the two arms of the answer, `Resend` the
blocking send. A URL is an *offer*: the node may offer the same address twice, and
then the two do not know of each other; two members of `Urls` say the same.

The service it implements says only that an offer is dropped at the door or stays
pending until it is loaded, or given up after `MaxTries` requests. Under the mapping
an offer is pending while it is in the channel *or* in a task's hands, so `Resend`
is a stutter and an item lost or doubled on the way is not. A URL gets
`NUM_RETRIES + 1` requests; the log at `warmer.rs:74-79` says "after 10 tries" where 11
requests were made.

### Pinner

The pinner is the warmer without retries. A task takes a pin (`Recv`) and its request
leaves later (`Request`): an address must be resolved and a connection made, and other
tasks run on meanwhile, so the requests of two pins may leave in either order.

It has a way to die: `item.api.join` is unwrapped, so a service whose address cannot be a base (`mailto:`) panics the task
that takes its pin. `RecvBad` is that panic. `Pinner::task` awaits its first task
only (`Awaited`), so a panic of another goes unnoticed, and a panic of the first
unwinds the thread and ends the pool with whatever it was posting (`PoolEnds`). Both
ends of the channel are held by the node as well, so it never disconnects: after the
pool has ended, pins fill the channel and are dropped. It implements `WarmService`
with one try; a pin that is lost with its task stays pending for good.

### IngestSession

`Ingest` starts where a segment has been read; `IngestSession` is what comes before
and after. `Pull` may find that the name resolves to another image now, and
panics the thread if its digest differs. After `Run` there are four actors: the
thread, podman, ffmpeg in podman's container, and the status notifier. They meet at
one listening socket: `made` is every connection in order, `accepted` how many the
thread has taken, and the difference is the accept queue, which holds `Backlog`. A
connection is how much was written, how much was read, and whether it is still open.

- ffmpeg waits when the backlog is full; its last segment must have bytes, because
  the muxer writes its tables first. When it dies, what it wrote remains and ends there.
- podman exits after its container, or is killed and leaves the container running, so
  the notifier may connect between two segments or in the middle of one.
- `Notify` connects *without waiting*: async-io makes a non-blocking `connect`, which
  on a Unix socket with a full backlog fails at once, and the result is unwrapped.
- the loop ends with an empty segment or with an accept error alike. After an accept
  error the thread may wait for a podman whose ffmpeg waits for the thread: the model has
  that deadlock, and `NoMutualWait` is about a loop that an empty segment ended.

### MediaSource and Ingest

`MediaSource` is what the node may rely on: blocks are numbered in order, a
container lists exactly the blocks sent before it, a periodic container comes right
after a block, only a source that ends well sends a last one, and a source that
panics just stops. `Ingest` implements it, `Pipeline` is built on it, so what is
shown of `Pipeline` holds of the node with the real thread.

In `Ingest` sizes are counted in packets (188 bytes; `BLOCK_MAX_BYTES` holds 5577 of
them) and durations in ticks of the program clock. Packets are numbered; `-n` is a
reinserted copy of packet `n`. Each loop iteration is one action: `KeepPacket`,
`SplitBlock` (up to the blocking send, which is `SendSplit`), `ClockPanic`, or
`WriteFails` when `write_ts_packet` returns an error. Every
blocking send is a step of its own, because a send that waits is where the thread's
view and the node's view differ.

- `latest_segment_duration` subtracts two `u64`. A debug build (`cargo run`, as in
  `bug-zone.sh`) panics when the clock went back; a release build (the Docker image)
  wraps, which the split test sees as a very long block. The model allows both at
  each underflow, which covers both builds.
- `Modulus` stands for 2^64. `IngestAssumption` asks that a wrapped difference of two
  clocks be at least `SegmentMax`, which a 27 MHz clock of 42 bits always satisfies.
- The input's clock may jump; each packet's record notes whether it went back, for
  the one property that holds only while it does not.

Three things a reader might not expect are true of the code and kept: the time test
can split before the first packet of a segment, and a segment that does not parse is
still pushed, so a block may be *empty*; a packet that does not parse silently ends its
segment (`EndSegment` covers it); the segment's clock starts at the *latest* clock, or
at the first one seen if there was none.

### ConfiguredPeers

An address is a sequence of protocols; only those that some code looks at have names.
`ReadRouter` and `ReadAdditional` are the two loops of `new`, one address per step.
`WithEntry` is `save_new_peer` followed by `save_known_address`: an insert, so a peer
that is listed twice loses what the first entry said. `Start` is the part of
`P2PVideoNode::new` that reads the map, with the unwrapped bootstrap that fails when
the map is empty. `Identify` is the handler: an address is saved for a configured peer
only, and given to the DHT for any. `Scan` is the loop over the protocols of an
address, a fold whose reference is `DialsSecurely`. `Node` sees the result as the set
`known` of addresses that a player can be given.

### Packaging

Blocks are records of what they hold, which block each link names, and an encoded
length; the record plays the cid. Lengths are linear in the number of links and
entries, with constants for the parts. `Chunks` is `slice::chunks`; names are digits
in base `Base`, so that the number of digits grows within a short stream. `main_js` is
what the build embeds, kept beside the file made from it. A segment may have no bytes,
as one without a packet does. `NewDist`
and `Publish` run the packages and panic where a constructor's assertion does.
The properties have their own reference definitions: `SizesExact` recomputes the size
below each block by a recursive function over the blocks held, `PlayerComplete` says
that those blocks are closed under links, `NamesInPlayOrder` compares names digit by
digit, and `ScriptReadsBack` concatenates the parts and compares them with `main_js`.

### Node and Pipeline

A cid is a tuple that holds what the block is made from, so equal contents have equal
cids as they do under a hash. `data` is a function from cids to usages, a usage a pair
of the variant's rank in `BlockUsage` and its sequence number: the derived order.
`Links` gives the blocks a block names: directory entries, parts of a file, and the
cids written into the page, which the player fetches too.

`poll` is three phases, `pc` says which. `SendWanted` takes one request;
`ReceiveBlock`, `PublishContainer` and `DropContainer` each handle one update,
`StoreFile` stores one file of a published container, and the drain ends when the bus
is empty, while the other thread may keep filling it; `Want`, `Identify`,
`AddProvider`, `Connect` and `Disconnect` are swarm events. Details that matter:

- `ContainerTooLong` is the assertion of `DirectoryBlock::new`, with `MaxFiles` for
  the 10000 to 20000 files of its comment: it ends the process on the node's thread.
- `PublishContainer` packages a container into four blocks, in the order of
  `into_blocks`; they wait in `storing`, and `StoreFile` stores one, announces it, and
  offers it to gateways and pinning services. Nothing else of the node runs between two
  of them, but the ingest thread and the pools do, and the provider store may run full
  at any of them.
- `PrintFails` is the unwrapped `print_qr`, which ends the process before anything of
  the container is stored.
- The player page depends on the gateway that `configure_player` picks at random and
  on the router addresses known at the time, so it is part of the page's cid.
- Each cid is provided in both DHTs. Both stores have the same limit and are
  unwrapped alike, so they are one count: our keys plus `remote_keys`, what other
  peers announced.
- `BTreeSet::insert` keeps the element it has. Since `BlockSendRequest` compares
  usages only, `Want` drops a request when any of that usage waits. That the queue
  holds one request per usage (`QueueSound`) is therefore what the code does, not what
  its comment says; `Wants` keeps a record of the wants and shows what gets lost.
- Sending to a peer that is gone panics inside bitswap (`notes.md:13`); that is
  external code, modelled from how `send_block` calls it and what the note reports.
- A panic of the node ends the process (`main.rs` runs it on the main thread); a
  panic of the ingest thread leaves the node running, and the node does not notice.

## What the runs check

| run | cfg | distinct states | result |
|---|---|---|---|
| `warmer` | `MCWarmer` | 74.7 thousand | holds |
| `warmer_wedge` | `MCWarmerWedge` | 17 thousand | violated: a finding |
| `pinner` | `MCPinner` | 143 thousand | holds |
| `session` | `MCSession` | 13.6 thousand | holds |
| `session_full` | `MCSessionFull` | 2.2 thousand | violated: a finding |
| `session_accept` | `MCSessionAccept` | 0.6 thousand | violated: a finding |
| `ingest` | `MCIngest` | 2.02 million | holds |
| `peers` | `MCPeers` | 471 thousand | holds |
| `peers_routers` | `MCPeersRouters` | 3 thousand | violated: a finding |
| `pipeline` | `MCPipeline` | 258 thousand | holds |
| `wants` | `MCWants` | about 50 | violated: a finding |
| `packaging` | `MCPackaging` | 75.5 thousand | holds |

**warmer.** Four offers, two tasks, three places in the channel, two retries: the
channel fills, offers are dropped, retries wait for room, both tasks wait at once.
One offer fewer than channel and pool hold together, which is the exact limit below
which the pool never waits on itself (`NeverWedged`); the run `warmer_wedge`, with as
many, shows that the limit is sharp. `OneCopy` and `TriesAgree` tie the channel, the
tasks and the request counts together across retries; `ImplementsWarmService` is the
refinement, and `EveryOfferSettles` the liveness property. Fairness: weak fairness of
each pool task. The tasks run on an async runtime that polls every ready task, and
the HTTP client's timeout of 4000 ms bounds each request, so a task that has
something to do does it. Nothing is assumed of what gateways answer or of the node.

**pinner.** Five pins, two of them to bad addresses, three tasks and two places: the
channel fills, a pin is dropped, tasks die one after the other, the awaited one first
or last, with requests of others in flight. `FewOvertaken`: the requests may leave in
any order, but a pin is overtaken by a newer one only in the hands of a task, so never
more than one pin fewer than there are tasks at a time; `DamageContained` what
a bad pin may cost. `EveryPinSettles`, as for the warmer, needs only that tasks keep
running: these tasks never wait for room, so no number of pins wedges them.

**session.** Four segments of up to two units against a backlog of two and a socket
that holds one unless it is read: the backlog is full when ffmpeg wants to connect and
when the notifier does, ffmpeg is blocked in the middle of a write, podman is killed in
any state, accepting or reading fails, the image is replaced between two starts.
`SuccessIsWhole` and `NoMutualWait` are about a loop left by an empty segment;
`SentinelBreaksLoop` says that the thread ends once podman and ffmpeg have, unless the
notifier panicked. Fairness: weak fairness of the thread's own steps and of the
notifier; reads end because the writer has. Nothing is assumed of podman or ffmpeg. The
two other runs drop the two conditions, and each is violated.

**ingest.** Five packets, three blocks of up to three packets, a bus of two, clocks
0, 1 and 3 with a target of 2 ticks and wrap-around at 16. These are the least sizes at
which a block can fill up with and without a reinserted PAT, split by time on the
first, a middle and the last packet of a segment, carry a PAT over two segments, wrap
the clock, and wait for the bus at each of its sends. `BlocksFit` is what
`RawBlockFile::new` asserts (a failure would kill the thread); `DurationsBelowTarget`
is what the playlist's `EXT-X-TARGETDURATION` promises; `PacketsConserved` and
`StartsWithPat` are about splits. `SubtractionsSafe`: of the three subtractions, the
two that no test guards never underflow, because the test meets the backward clock
first, on the packet that carries it. `TimelineNotAhead`: while the clock has not gone
back, the durations published add up to at most the time that passed, so
`segment_clock` is moved wherever it must be. `ImplementsMediaSource` is the
refinement, with the sender waiting at a full bus.

**peers.** Every pair of lists of at most two of five addresses: two addresses of one
peer, a peer in both lists, an address without a peer id and one with a bad hash, no
usable address at all; then any sequence of identify messages from configured and
unknown peers, with addresses that a browser refuses, may dial, or may dial but for
what comes after a relay.

**pipeline.** Two block contents and up to three blocks, so that the same bytes come
twice with others between; a bus of two, so that the source runs ahead of the node and
waits for it; a peer that connects, disconnects and wants stored and not yet stored
blocks; a router whose address is learned late, so that containers are dropped first;
a directory that the last block overfills; a provider store small enough to run full.
`DagClosed` is the main one: whoever follows links from anything the node has
stored never meets a block the node lacks. `PinnedDagWarmed` is about the order of four
blocks, each stored, warmed and pinned in turn; it, `PublishedArePrefixes`, `QueueSound` and the action property `BlocksNeverForgotten`
are described where they are defined. `FinalPublished`: when a stream ends well and a
player can be configured while updates still wait, the whole stream is published or
the process has ended. It excepts the panics (a full provider store, a peer that is gone,
a directory too long, a terminal that fails) and a last container that is dropped for
want of a delegate: all of these happen in the model. `WaitsOnlyForUrgent`: a request
that waits forever waits behind more urgent ones, again and again. Such starvation is
what the order by usage allows, and this property allows it too. Fairness: weak
fairness of the node's poll. The node is polled in a loop and registers a waker with the swarm, whose gossipsub heartbeat
wakes it every second when nothing else does, and the swarm's `poll` returns. Nothing
is assumed of ffmpeg, of the ingest thread or of the peers.

**wants.** Two peers, one block and a script of two parts, and the actions of
`pipeline`. `asked` holds each want for a stored block until a request for it leaves.

**packaging.** A block limit of 14 bytes; scripts of one byte, one below, at and one
above the limit, at its double, the longest whose root fits (six parts and a root of
14), and one byte more (seven parts and a root of 16, where the constructor panics);
segments of no byte, of one and of a whole block; streams of up to six segments in base
2, so that names grow to three digits and a directory of more than
five segments no longer fits and ends the node. Each published player is compared
with the reference definitions.

Bounds, all of them constants: `MaxPackets`, `MaxBlocks`, `MaxQueue`,
`MaxRemoteKeys`, `MaxUnits`, `MaxSegments`, `Lists`, `Announced`. Containers need no
bound, because each one follows a new block or ends the source. `MaxQueue` bounds what
peers ask for, not what the code keeps: `send_queue` has no limit in the code.

Deadlock is not checked where the system may really stop: the ingest thread ends, the
node may panic, and the warmer and the pinner have nothing left to do when every offer
is settled.

## What is proved

`WarmerProofs`, for all finite sets of offers and tasks, any capacity and any number
of retries (`WarmerAssumption`):

- `TypeCorrect`, `OneCopyCorrect`, `TriesCorrect`: the invariants of the run.
- `NeverWedgedCorrect`: if there are fewer offers than the channel and the pool hold
  together, the pool never waits on itself. It follows from `OneCopy` by counting:
  in a wedged state the channel's positions and the tasks would hold that many
  different offers.
- `Refinement`: the warmer implements `WarmService`.

The inductive invariant is the type invariant with `OneCopy` and `TriesAgree`.
`OneCopy` alone is inductive, but an item's `try_num` says nothing of the requests
made for it unless it is the only copy, so `TriesAgree` needs `OneCopy`; and the
refinement needs both, as "given up after exactly `MaxTries` requests" is `TriesAgree`
and "a settled offer is nowhere" is `OneCopy`.

`PipelineProofs`, for any sets of blocks, peers, gateways and addresses, any bus and
any limits (`NodeAssumption`, `PipelineAssumption`):

- `TypeCorrect`: the type invariant, with the types of the bus and of the stream.
- `DagClosedCorrect` and `PublishedPrefixesCorrect`.

`DagClosed` is not inductive: publishing a container needs every block it lists to be
stored. The strengthening is `BusCarries`: a block that was ever sent, or is listed by
a container in the bus, is stored or waits in the bus ahead of that container. It
holds until the process has ended, and says exactly what the order of the ingest
thread's sends and the bus together give the node. `BusPrefixes` does the same for
prefixes and `DistStored` for the player's script, which the page links to.
`FilesInOrder` is the same idea within a container: what waits in `storing` links only to
what is stored or comes before it.

What the store and its queue hold has an invariant of its own, `HoldInv`:

- `QueueSoundCorrect` and `BlocksNeverForgottenCorrect`: the second needs that the
  numbers of blocks still in the bus lie above those of every stored segment.
- `PinnedDagWarmedCorrect`: from `DagClosed`, which holds after each single block, and
  from the fact that whatever is stored was offered when it was.

Liveness itself is out of reach, but what one step does for it is not:

- `LeastUsageLeavesCorrect`: a waiting usage leaves the queue only in a poll and only
  when nothing more urgent waits, and in such a poll it does leave. With a node that is
  polled again and again this is `WaitsOnlyForUrgent`.
- `FinalApproaches`: once the stream has ended well and a player can be configured,
  there is a distance to the publication of the final container (counted by the updates
  in the bus, the files still to be stored and the phase of the poll) that every poll makes smaller
  and that nothing else makes larger, until the whole stream is published or the
  process panics. It rests on `EndedCorrect`, that the bus then ends with the container
  of the whole stream. With fairness of the poll this is `FinalPublished`.

`IngestProofs`, for any limits, clocks and streams (`IngestAssumption`):

- `TypeCorrect`, `BlocksFitCorrect`, `DurationsCorrect` and `SubtractionsCorrect`. The
  invariant adds `ReadInv`, that while packets are read the open block is not yet too
  long, and `SplitInv`, what is known between a split's push and its send.
- `PacketsConservedCorrect`, `StartsWithPatCorrect` and `TimelineCorrect`: what the
  blocks hold. The first and the last are sums over a container that grows by one
  block, so the proofs are about what one more block adds to a fold (`Recursion`). The
  invariant `HeldInv` adds that the saved PAT is the last one parsed (`LastPat`), that
  each block begins with the PAT in force at its first packet (`StartsInv`), and where
  on the timeline the next block starts (`TimelineInv`): at the segment clock while
  packets are read, at the latest clock while a block waits to be sent.
- `Refinement`: the thread implements `MediaSource`.

`PinnerProofs`, for any pins, tasks and capacity (`PinnerAssumption`): `TypeCorrect`,
`FewOvertakenCorrect`, `OnePlaceCorrect` (a pin is in one place),
`DamageContainedCorrect`, and `Refinement` to `WarmService`. `DamageContained` counts:
it needs that a lost pin was lost by a task of its own. So does `FewOvertaken`: each
overtaken pin is held by a task of its own, and one task at least (`Spare`) holds none
of them.

`SessionProofs`, for any backlog, buffer and number of segments (`SessionAssumption`):
`TypeCorrect`, `RunsApprovedImageCorrect`, `ReadInOrderCorrect`, `NoMutualWaitCorrect`
and `SuccessCorrect`. The last rests on `OnlySentinel`: as long as neither podman nor
ffmpeg has failed, the only connection that closes without a byte is the notifier's,
and it is the last one made.

`ConfiguredPeersProofs`, for any peers, lists and announcements (`PeersAssumption`):
`TypeCorrect`, `LastEntryDecidesCorrect`, `AllPeersBootstrapCorrect`;
`KadKnowsMapCorrect`, that every address in the map is known to the DHT; and
`EntriesOnlyGrowCorrect`, that identify messages only ever add addresses. For addresses
of any length `PlayersDialSecurelyCorrect` shows, by induction along the scan, that
`Scan` accepts exactly what `DialsSecurely` says a browser may dial.

`PackagingProofs`, for any base, any limit and any lengths (`PackagingAssumption`: a
base of at least two, positive lengths of the packages' parts, a script of any length,
and segments of any length that fits a block, which is `BlocksFit`; a segment may be
empty): `ScriptReadsBackCorrect`, `PlaylistResolvesCorrect`,
`NamesInPlayOrderCorrect`, `SizesExactCorrect` and `PlayerCompleteCorrect`, all the
run's invariants. The state machine is simple and so is the invariant `PackInv`: the
script is one of those given, cut; the container numbers its segments from zero; and
what was published is made from the first segments of the container. The work is in
the operators:

- *Names.* Two numbers of the same width compare as their digits do: at the highest
  place where the quotients by powers of the base differ, the digits before it agree,
  and the digit there decides. The width is that of the highest number, so no number
  is cut.
- *Script.* By induction over the parts, what the first n pieces hold together is the
  first part of the script, up to where the n-th piece ends; all but the last are full.
- *Sizes.* A recursive function over a set of blocks is well defined only if the links
  do not go round. Here they go three levels down, so such a function is given level by level
  (`SizeExists`), and whichever satisfies the equation gives the stated sizes.

`Recursion` has what these proofs share. Induction is stated about sets of numbers,
and proved from the pigeonhole principle of `FiniteSetTheorems`: a set that holds 0
and successors misses no number, or the numbers below the missing one would map into
fewer. From it follow that a function defined by recursion over an interval exists and
satisfies its equation, which TLAPS does not grant of `f[i \in S] == ...`, and the
equations of the folds of the community modules, of `FlattenSeq` and of sums.

Only model-checked: the liveness properties `EveryOfferSettles`, `EveryPinSettles`,
`FinalPublished`, `WaitsOnlyForUrgent` and `SentinelBreaksLoop`. They depend on
fairness, and so on ENABLED, which the installed provers cannot handle. Every invariant
and action property that a passing run checks is a theorem.

## Disagreements with the code's own words

1. *The pool can stop for good* (`warmer_wedge`). A retry awaits room in the channel
   that only the pool drains (`warmer.rs:82`). With the channel full and every task
   holding a failed item nothing moves again. The comment at `node.rs:204` says "Load this
   block into all gateways that we expect to pin this block eventually": "eventually" is
   said of the pin, but the load it promises is never made either. With 10000 places it takes as many pending offers:
   a long stream with gateways that are down. New offers are then dropped.
2. *Deduplication drops other requests* (`wants`). "Ignore blocks we don't have, sort
   blocks we do by their BlockUsage, and dedupe" (`behaviour.rs:115`), but two requests
   are equal when their usages are. In the run one peer wants the script and then another
   peer does: the second want is for a stored block, is not a duplicate, and nothing
   waits for it (`WantsQueued`). The parts of the script share one usage and shut each
   other out in the same way.
3. *A router that is listed twice is no router* (`peers_routers`). `save_new_peer`
   inserts, so an additional peer that is also a router becomes `BootstrapOnly`: no
   circuit address is listened on for it, although "listen" addresses are added "via
   our configured routers" (`node.rs:68`), and no player is given it as a delegate.
4. *The sentinel may be lost* (`session_full`). The zero-length segment is to "break
   out of the incoming connection loop when the child process exits"
   (`ingest.rs:163-164`). When the backlog is full at that moment, because the thread
   waits for the node or for a long segment, the notifier panics; the thread then reads
   what waits and waits for a next connection for good. It takes 128 connections, so
   many short segments or a killed podman with a thread that stands still.
5. *An error passes for success* (`session_accept`). `while let Some(Ok(..))` leaves the
   loop on an accept error as on the sentinel; with podman's success the thread logs
   "ingest stream ended successfully, final container" (`ingest.rs:227`), and publishes
   it, while segments wait unread.

## What is not modelled

- Gossip, ping and most DHT events: the code only logs them.
- URLs, HTML, command lines and the UnixFS encoding as strings or bytes; playlists
  and pages are records of what they name, and a block's encoding is its length.
- `BitswapEvent::ReceivedCancel`: the code only logs it, so a cancelled request stays
  queued. The model has no action for it, and none is needed.
- Image names and digests (`types.rs`): two regular expressions over characters, with
  the repository's own tests; `IngestSession` compares digests as values.
- The argument parser of `main.rs`, key generation and the web player: no state, or not
  this language.
- A gateway's address that cannot be joined (`node.rs:207`, `216`) panics the node when it
  stores the player's script, before it runs (`P2PVideoNode::new`), and so never later.
- Failures to start a thread, a runtime or an HTTP client, which end the program or the
  task at its start.
- A warm-up's way through a gateway and back to the node's bitswap: the gateway is
  outside the code, which promises nothing of it.

## The plan

Done, in this order: `Warmer` with its service and proofs; `MediaSource` and
`Ingest`; `Node` and `Pipeline` with their proofs; `Pinner`, `ConfiguredPeers`,
`IngestSession` with theirs; `Packaging`; the proofs of the store and of `Ingest`;
`Recursion`, and with it the proofs about folds and of `Packaging`.

Every component that keeps state is modelled. The node, the warmer and the pinner are
not composed in one module: the two offer the node nothing back (`try_send` never waits
and its result is only logged), so what the node does is independent of them, and what
they do is checked for every order of offers.

Every invariant, action property and refinement of the runs is now proved, and the
steps behind the two liveness properties of `Pipeline`.

Next: the same kind of statement for the three other liveness properties, a distance
to the end that each fair step makes smaller (`EveryOfferSettles` below the limit of
`NeverWedged`, `EveryPinSettles`, `SentinelBreaksLoop`).
