# TLA+ models of Kuiper (emqx/kuiper)

This directory holds the models of the Kuiper stream engine's concurrent parts,
their TLC configurations and their TLAPS proofs. `PROJECT.json` lists every
component, run, mutant, finding, hazard and theorem. It also maps each
definition to the source lines it translates.

## 1. The system

A rule is a topology with three kinds of node:

- **Source nodes** (`src/internal/topo/node/source_node.go`). Each runs
  `concurrency` workers. A worker selects over the cancellation, the source's
  error channel and its record buffer. It broadcasts each tuple, which may
  block. For a rewindable source it then stores the offset in the rule's state.
- **Operators**, built in a fixed order by
  `src/xsql/processors/xsql_processor.go`: preprocessor, window, join, filter,
  aggregate, having, order, project. The aggregate operator
  (`src/internal/topo/operators/aggregate_operator.go`) groups tuples by a
  string key.
- **Sinks**. A sink node may keep a durable **cache** in front of the sink
  (`src/xstream/nodes/sink_cache.go`). The node's delivery worker reads the
  cache's `Out` channel, calls the sink's `Collect`, and sends the tuple's
  index back on `Complete`. The cache keeps the not-yet-completed tuples in a
  `LinkedQueue` and saves it to a `SimpleKVStore` (`src/common/util.go`).
  That store is shared by every cache under the same directory.

The parts interact in these places:

- through channels: input to cache, `Out` to worker, `Complete` back to the
  cache;
- through the shared key-value store: the cache's saves, and the source
  offsets in the rule state;
- through the context: cancelling a rule must stop every goroutine.

### Inventory

| Component | State | Operations | Hard behaviour |
|---|---|---|---|
| Sink cache | pending map + Tail, Out channel, changed, saved, stored value, in-flight saves | loadCache replay; select over input / Complete / ticker / Done; async saveCache; restart | blocking send vs unbuffered Complete; unjoined saves; cancel while blocked; index reset |
| Key-value store | per-path singleton map, in-memory cache, file | Open (load), Close (save + flush), Set, Get, Delete, Keys | shared between caches; Close flushes another session's data |
| Source node | sources list (mutex), per-worker buffer, stored offset | worker select: Done / error / record; close; drainError | close per worker; offset runs ahead of forwarded tuples; data race on sources |
| Aggregate operator | none (pure) | Apply: group by the `%v,` concatenation | key collisions |
| MQTT sink | qos, version, conn | Configure, Open, Collect, Close | qos truncated by byte(); conn written by the lost-connection handler |
| File / EdgeX sources | file contents, connection | Open, Load, interval reload | continues after a failed connect |
| Topology build | operator list | createTopoWithSources | operator order, join only after a window |

Properties wanted per component:

- Cache: at-least-once delivery; the in-flight tuples mirror the map; the
  backlog survives a stop and a restart; a cancel stops the goroutine.
- KV store: a save of one key never loses another key.
- Source node: each source is closed once; the stored offset never runs ahead
  of the forwarded tuples.
- Grouping key: same key iff equal values.
- MQTT sink: only qos 0, 1 and 2 are accepted.
- Topology: the operators come in the documented order.

## 2. What is modelled

### SinkCache (`SinkCache.tla`, instantiated by `MCSinkCache.tla`)

Constants:

| Constant | What it stands for |
|---|---|
| `Limit` | the `limit` given to `NewCache`, which is the capacity of `Out` |
| `Threshold` | `THRESHOLD` |
| `MaxItems` | how many items the upstream node sends in the whole behaviour |
| `MaxRestarts` | how many times the rule is cancelled and started again |

Variables:

- `pending` is `c.pending`: a record of a sparse map `Data` and its `Tail`.
- `out` is `c.Out`, as a sequence of at most `Limit` tuples.
- `changed` and `saved` are the fields of the same name.
- `cpc` is the Cache goroutine's program counter: replaying, in the loop,
  blocked sending, or returned.
- `loadKeys` are the keys loadCache still has to replay.
- `sending` is the tuple the input branch is sending.
- `sinkPc` and `held` are the delivery worker's state and the tuple it holds.
- `saving` is the set of clones handed to saveCache goroutines and not yet
  written.
- `stored` is the cache key's value in the store.
- `done` is `ctx.Done()`.
- `nextItem`, `restarts`, `delivered` and `finalSaved` are counters and
  history variables.

Actions, one per branch of the code:

| Action | Code (`sink_cache.go`) |
|---|---|
| `LoadReplay`, `LoadFinish` | `loadCache` 153-182 and `run` 97-104 |
| `CacheAccept` | 105-108 |
| `CacheSendOut` | 109-113. Blocks while `Out` is full. |
| `CacheComplete` | 114-116. A rendezvous with the worker, because `Complete` is unbuffered. |
| `CacheTick` | 117-138. The reset, the save decision, the asynchronous clone, `saved`, and the clearing of `changed`. |
| `CacheDone` | 139-143 |
| `SaveLand` | one `saveCache` goroutine writing its clone, 185-192 |
| `SinkTake`, `SinkDeliver`, `SinkExit` | the delivery worker. It is not under `src/`, so it is modelled from spec 4.6. |
| `Cancel` | the rule is stopped |
| `Restart` | a new `NewCache`/`run`, which loads what the store holds |

Abstractions:

- An item is a fresh number, so every item is distinct.
- One `saveCache` (Open, Replace, Close) is one atomic step. The interleaving
  of two saves inside the store is the KVStore hazard, which is not modelled
  yet.
- Store errors are not modelled.
- A restart waits until the old Cache goroutine and the old worker have
  returned.

Fairness (`FairSpec`):

- Go's `select` picks at random among the ready cases. A case that is ready
  infinitely often is therefore taken eventually, so `CacheComplete`,
  `CacheTick` and `CacheDone` get strong fairness.
- Steps that stay enabled until taken get weak fairness: the replay, the send
  on `Out`, a save goroutine, and each worker step.
- The upstream node, `Cancel` and `Restart` get no fairness. Nothing in the
  code makes them happen.

### GroupKey (`GroupKey.tla`, `MCGroupKey.tla`)

`AggregateOp.Apply` of `aggregate_operator.go` as a pure operator `Apply`. The
state is the last input and what `Apply` returned, and `Receive` applies it to
any input of the bounded set `Inputs`.

- The input kinds follow the type switch: an error, one tuple, a window's
  tuple set (one list per emitter) and a join's tuple set. A value that is
  none of these is also an input.
- A dimension value is a record of its Go kind and the characters `%v`
  prints for it. `Key(row)` concatenates those characters with a comma after
  each, as a recursive function over the dimensions.
- `GroupBy` files each tuple under its key. The Go map of groups is a set.

### FileSource (`FileSource.tla`, `MCFileSource.tla`)

The file source of `xstream/extensions/file_source.go` read by one source
node worker (`source_node.go`, the select at lines 105-137).

- `Configure` is an operator over a configuration record: whether the
  properties decode, the `fileType`, the `Path` (absolute, relative or
  empty), the file name, whether `GetLoc` finds a relative path, and what
  `os.Stat` returns. Its checks come in the code's order. A Stat error
  other than not-exist leaves `fi` nil, so `fi.Mode()` panics; a successful
  Stat is not checked further, so a directory is accepted.
- The Open goroutine (`spc`): the first `Load`, its read that succeeds
  only on a regular file and may fail on any, the selects that send each
  record and the EOF tuple or take `ctx.Done()`, the bare `errCh <- err`
  after a failed load (`ErrSend`), and with an interval the ticker loop
  (`Tick`, `TickDone`), bounded by `MaxLoads`.
- The worker (`wpc`): it takes a tuple from the buffer, takes `ctx.Done()`
  and returns, or receives the source's error and returns.
- `Cancel` stops the rule.

### KVStore (`KVStore.tla`, `MCKVStore.tla`)

The `SimpleKVStore` of `common/util.go` as the sink cache uses it. All the
sessions of one path share one in-memory go-cache in front of one file.

- `Open` loads the file into the shared cache.
- `Replace` sets one key and saves the file.
- `Get` reads.
- `Close` saves the shared cache to the file, then flushes it.

A session is a `saveCache` or `loadCache` goroutine between its `Open` and
its `Close`. Each method is one step, because go-cache locks inside every
call.

### SourceNode (`SourceNode.tla`, `MCSourceNode.tla`)

One worker of `SourceNode.Open` (`source_node.go`) over the rewindable
`MockSource` (`mock_source.go`).

- The source's goroutine skips the records below its offset. For each other
  record it takes its mutex, sets `offset = i + 1`, sends into the buffer
  (which blocks while the buffer is full) and unlocks.
- The worker receives, broadcasts, then calls `GetOffset` (under the same
  mutex) and `PutState`.
- `Cancel` closes `ctx.Done()`.
- `Restart` is a crash at any point. The new instance is rewound to the
  stored offset.
- History variables record what each incarnation forwarded.

`ReplayLog.tla` is what such a node promises downstream (spec 4.3), with
workers, buffer and mutex abstracted away: `Forward` forwards the record
after the resume point and those already forwarded, `Commit` commits an
offset at or after the committed one, `Resume` starts again from the
committed offset. `SourceNode` instantiates it with the identity mapping
on the committed offset (`stored`), the resume point (`base`) and the
incarnation's history (`run`), and `ImplementsReplayLog` is its `Spec`.
A broadcast is a `Forward`, an offset save a `Commit`, a restart a
`Resume`; every other step is a stutter. `Commit` accepts any offset at or
after the committed one, because the code commits `GetOffset`, which may
count records still in the buffer. So the refinement does not exclude the
loss that source_offset finds; it adds to `ReplayResumesAtOffset` only
that commits never go back.

### RuleProcessor (`RuleProcessor.tla`, `MCRuleProcessor.tla`)

The stream and rule processors of `xsql/processors/xsql_processor.go`, with
`NewMqttSink` of `xstream/sinks/mqtt_sink.go` and `StartUp` of
`server.go`.

State:

- `streamDb` is the set of stream names the stream store holds. Only a
  `CREATE STREAM` that parsed stores a text, so every stored text parses back.
- `ruleDb` maps each rule id to its JSON.
- `reply` is what the last call returned.

The actions:

- `Exec`: every statement case of `StreamProcessor.Exec`.
- `ExecCreate`: `getRuleByJson`, then `DbSet`.
- `ExecDesc`, `ExecShow` and `ExecDrop`.
- `StartRule`: `StartUp`'s `GetRuleByName` and `ExecInitRule` for a stored
  rule.
- `ExecQuery`.
- `BuildWithSources`: `createTopoWithSources` with mock sources, the way the
  tests call it.

The build is modelled as the code does it:

- Each check returns its error: the option types, parse, select, the number
  of sources, the store, each stream in FROM order, the window.
- Each FROM stream gets a source node and a preprocessor fed by it.
- Then come the seven `if` blocks of the code, in their order: window, join,
  filter, aggregate, having, order and project (`Operators`, one `Step`
  each). Each adds its operator on the current `inputs` and moves `inputs`
  on to it. A join is added only when there is a window.
- Node ids number sources and preprocessors from 1 by stream, for any number
  of streams. Two assumptions on the constants say what the parser
  guarantees: a SELECT's FROM list is a list of stream names
  (`StreamsAssumption`), and a statement that parsed names a stream
  (`StmtsAssumption`). TLC evaluates both on every run.
- In `ExecInitRule` the actions of one map are met in Go's random map order
  (`ActionOrders`). The first bad action errors or panics.

Abstractions:

- The parser, `NewPreprocessor`, `NewMQTTSource`, `NewWindowOp` and `DbOpen`
  are not under `src/`. Their failures are a choice (`Failures`, the
  `opened` flag).
- A SELECT is its FROM list and the set of clauses it has.
- Each processor call is one step: it opens the store, works on it and closes
  it before it returns.

## 3. Runs

| Run | Module | Expect | Checks | What it shows |
|---|---|---|---|---|
| cache_safety | MCSinkCache | pass | `TypeOK`, `QueueMirrorsPending`, `PendingNeverOverwritten` | Across a cancel, the Tail reset and a restart, the tuples between the loop and the sink are exactly the pending map. They are in strictly increasing index order, with the replayed keys after them. So every Complete deletes the item that was delivered. Within one run, no step changes the item under an index that stays pending (an action property). |
| cache_quiescent | MCSinkCache | violation | `BacklogEventuallyPersisted` | An item is saved, delivered and completed. The next tick finds an empty map with `changed` set and sets `saved` to 0, and every later tick finds `saved = l = 0`. The empty map is never saved, so the store keeps the delivered item and the next start sends it again, against spec 4.6's "eventual durability of a quiescent backlog". |
| cache_stop | MCSinkCache | violation | `StopPersistsBacklog` | A tick that does not save still clears `changed`, so the Done branch skips its final save and the backlog is lost. |
| cache_final | MCSinkCache | violation | `FinalSaveDurable` | An older asynchronous save lands after the final save and overwrites it. |
| cache_deadlock | MCSinkCache | violation | `AcceptedEventuallyDelivered` | With `Limit = 1` the loop blocks on `Out` and the worker blocks on `Complete`. |
| group_collision | MCGroupKey | violation | `GroupIffEqualValues` | The integer 1 and the string "1" share a group, against spec 8. |
| kv_lost | MCKVStore | violation | `SavedKeysKept` | A `loadCache` that opened before a `saveCache` closes later, and its `Close` writes the flushed (empty) cache over the saved key. |
| source_safety | MCSourceNode | pass | `TypeOK`, `ReplayResumesAtOffset`, `ImplementsReplayLog` | Across two crashes at any point, each incarnation forwards exactly the records after the offset it was rewound to, in order, and the node refines `ReplayLog` (which, like the code, admits committing records still in the buffer). |
| source_offset | MCSourceNode | violation | `OffsetCountsForwarded` | The stored offset counts records still in the buffer, so a crash loses them (against spec 4.3). |
| file_leak | MCFileSource | violation | `OpenReturnsAfterCancel` | A load fails, the rule is stopped, the worker returns on `ctx.Done()`, and `Open`'s bare `errCh <- err` blocks forever: the goroutine leaks, against spec 5. |
| rule_safety | MCRuleProcessor | pass | `TypeOK`, `StoredRulesValid`, `PipelineIsChain` | Over every sequence of stream and rule calls (every clause combination of a SELECT), every stored rule passes `getRuleByJson`. Every topology built is one chain in the documented order, with its sinks on the last node. |
| rule_panic | MCRuleProcessor | violation | `StartNeverPanics` | `ExecCreate` stores a rule whose mqtt action has a non-string server, topic or clientId. Starting it panics in `NewMqttSink`, and `StartUp` starts every stored rule. |

Why the bounds are enough:

- **SinkCache.** In cache_safety three items fill `Out` (`Limit = 2`) with one
  tuple left for the worker to hold, so the loop really blocks on its send.
  One restart replays a stored map with a gap, because some items were
  already completed. `Threshold = 1` makes both sides of the save decision
  reachable with two items. The Out/Complete deadlock needs `Limit + 2` items
  in flight (the worker's, `Limit` in `Out`, the one being sent), so
  cache_deadlock uses `Limit = 1`. No passing run claims delivery: with
  enough items the code deadlocks. cache_quiescent needs only one item
  saved and then completed, and no cancellation, so the ticks alone decide
  what the store ends up with.
- **GroupKey.** One dimension and two tuples suffice for a collision. The
  value set holds the two printings that collide (`1`, `"1"`) and the comma
  case (`"a"`, `"a,"`).
- **KVStore.** Two sessions of one key are the smallest case where one
  session's `Close` flushes what the other loaded.
- **SourceNode.** Three records with a buffer of two let the source run
  ahead of the worker by two records. Two crashes put a rewind after a
  rewind.
- **FileSource.** One record and a buffer of one make both a send and a
  blocked send reachable; one reload reaches the ticker loop's error path;
  the configuration set enumerates every branch of `Configure`. The leak
  takes four steps (load fails, cancel, worker returns), so it is reached.
- **RuleProcessor.** All 128 clause sets of a one-stream SELECT are built.
  Two-stream SELECTs exercise the preprocessor fan-in and the join. The rule
  set reaches every check of `getRuleByJson`, the option checks,
  `NewMqttSink`'s errors and panics, and a map of two actions in both
  orders.

Deadlock:

- The SinkCache and SourceNode safety runs stop checking deadlock because
  those models stop for good after `MaxRestarts`.
- In SourceNode the model also stops in a blocked state. `MockSource.Open`
  holds its mutex across the blocking send, and the worker's `GetOffset`
  waits for that mutex while the buffer is full. That deadlock is in the test
  double, so it is listed as a hazard and has no run.
- cache_quiescent checks deadlock: the loop is never blocked there and a
  tick is always possible. cache_deadlock does not, because its blocked
  send leaves no step at all; the liveness property reports the same stop
  with the trace that reaches it.
- The KVStore run stops checking deadlock because its writes are bounded.
- The FileSource run checks a liveness property only; its model stops
  once both goroutines have returned.
- RuleProcessor checks deadlock.

Each property of a passing run has a mutant in `PROJECT.json` that breaks it:

- a send that ignores the capacity of `Out`;
- a reset without the emptiness check (breaks `QueueMirrorsPending` and
  `PendingNeverOverwritten`);
- a send into a full source buffer;
- a rewind one record past the offset;
- a rewind to the start instead of the offset (breaks the refinement);
- a preprocessor wired to the source of Go's 0-based stream index;
- a rule stored before it is validated;
- a stage that does not move `inputs` on to its operator.

## 4. Proofs

`SinkCacheProofs.tla` proves `TypeCorrect`, that `Spec => []TypeOK`, for every
value of the constants satisfying the `ASSUME`s.

`TypeOK` is not inductive by itself, so the proof uses a stronger invariant
`TypeInv`. It adds these facts:

- `Tail` of the pending map, of the stored map and of every in-flight clone
  is at most `nextItem`. This is what keeps `Tail + 1` inside the index set
  when an item is accepted.
- `loadKeys` are keys of the pending map, and are empty outside the replay
  phase.
- The worker holds exactly one tuple while it is busy or completing.

The proof has these parts:

- lemmas for the `LinkedQueue` operators (append, delete, reset), stating what
  each keeps in the type;
- `InitTypeInv`;
- `NextTypeInv`, with one step per action;
- the temporal step, `PTL`.

`SourceNodeProofs.tla` proves three theorems for every `NRecords`,
`BufCap` and `MaxRestarts` satisfying the `ASSUME`s:

- `TypeCorrect`: `Spec => []TypeOK`;
- `ReplayCorrect`: `Spec => []ReplayResumesAtOffset`;
- `Refinement`: `Spec => ImplementsReplayLog`.

`ReplayResumesAtOffset` is not inductive: it says nothing of the records
in the buffer or held by the worker, nor of where the source's counter is.
The strengthening `ReplayInv` states the whole pipeline as one sequence:
the forwarded run is `base+1, base+2, ...`; the record the worker holds is
the next one; the buffer holds the ones after that; the source's counter
is the resume point plus everything sent (or still below the resume point,
skipping); the lock is held exactly while sending; the source's offset is
the counter (plus one while sending), and the committed offset is at or
below it; once the worker has stopped, `close` has reset the offset to 0.
`NextReplayInv` has one case per action. The refinement rests on the same
invariant: `NextRefines` maps each step to `Forward`, `Commit`, `Resume` or
a stutter, and the last step combines it with `ReplayInvariant` by `PTL`.

`SinkCacheProofs.tla` also proves `QueueMirrorsPendingCorrect`,
`Spec => []QueueMirrorsPending`. The invariant only speaks of the tuples in
flight; a step's effect on it depends on facts it does not state. The
strengthening `MirrorInv` adds them:

- `PipeMirrors`: the whole pipe (the tuple the worker holds, then `Out`, then
  the tuple being sent) lists pending entries in strictly increasing index
  order, with the data stored under each index. The keys still to be
  replayed are above every index in the pipe. The pending map's keys are
  exactly the pipe's indices and the replay keys.
- `QueuesWellFormed`: every key of the pending map, of the stored map and of
  each in-flight clone is below its `Tail`. This is why an accepted item,
  stored under `Tail`, is above every index in the pipe.
- `IdleHoldsNothing`: no tuple is being sent outside the send state, and the
  worker holds none while idle.

Lemmas for the sequence operators (`ConsProperties`, `HeadConsTail`) and for
`Mirror` (`MirrorAccept`, `MirrorComplete`, `MirrorReplay`, `MirrorEmpty`)
carry the argument. `NextMirrorInv` has one case per action. On the same
invariant, `PendingNeverOverwrittenCorrect` proves the action property
`[][NoOverwrite]_vars`. An accepted item goes under a fresh index, above
every key. A Complete or the reset removes entries or keeps them. Only a
restart, which is a new run, may replace the map.

`RuleProcessorProofs.tla` proves three theorems for all sets of rule ids,
streams, statements and rule texts satisfying the two assumptions:

- `TypeCorrect`: `Spec => []TypeOK`;
- `StoredRulesValidCorrect`: `Spec => []StoredRulesValid`;
- `PipelineIsChainCorrect`: `Spec => []PipelineIsChain`, for SELECTs with
  any number of streams.

The chain is proved one `if` at a time. `ChainUpTo(b, n, m)` says what the
build of `n` streams is after the first `m` ifs:

- the `n` preprocessors come first, each on its own source;
- then come operators of the first `m` stages, in increasing rank;
- the first operator is fed by every preprocessor, and each later one by
  the one before it;
- `inputs` is the last node.

`PreprocessorsChain` starts the chain and `StepChain` extends it by one
`if`. `OperatorsChain` chains the seven ifs. `TopoShape` shows that every
result of `createTopoWithSources` is an error or such a chain. The reply
lemmas cover the sinks that `ExecInitRule` and `ExecQuery` add. The
invariant `Inv` (the three properties together) is inductive, with one
case per action. The build is written as the code's seven `if` blocks
rather than a fold, because `FoldLeft` is a `CHOOSE`-based recursion that
the provers cannot unfold.

What stays with TLC:

- The liveness properties, `AcceptedEventuallyDelivered` and
  `BacklogEventuallyPersisted`. TLAPS does not reason about fairness or
  `ENABLED`, and the code breaks both anyway.
- The properties of the violation runs: `StopPersistsBacklog`,
  `FinalSaveDurable`, `AcceptedEventuallyDelivered`,
  `BacklogEventuallyPersisted`,
  `GroupIffEqualValues`, `SavedKeysKept`, `OffsetCountsForwarded`,
  `StartNeverPanics` and `OpenReturnsAfterCancel`. The code breaks each of
  them, and TLC's trace is the result.
- GroupKey could not be proved about in any case. Its key is a recursive
  function over the dimensions, and what that computes for every input
  needs induction over data, which the installed provers cannot
  instantiate.
- `ActionOrders`, Go's random map order of a rule's sinks, is only
  enumerated by TLC. The chain proof does not need it, because every sink
  is on the same outputs.

## 5. Not modelled, and the plan

These parts are not modelled:

- the server's RPC, REST and Prometheus listeners (pure I/O);
- the template functions (formatting);
- the docker configuration rewriting;
- the tests and example programs;
- the EdgeX source: decoding and the message bus client are I/O. Reading
  it found that `fetchAllDataDescriptors` keys `valueDescs` by descriptor
  Id (line 204) while `getType` looks it up by reading name (line 216),
  and that `Open` goes on after a failed `Connect` (lines 90-92); both are
  sequential and reached by a unit test with a mocked client;
- the internal MQTT sink (`internal/topo/sink/mqtt_sink.go`): `Configure`
  is sequential validation, and its `byte(v)` cast of qos before the check
  (256 accepted as 0) is a unit-test case, listed as a hazard;
- the source instance pool, which this version of the code does not have
  (only its test is under `src/`).

The next steps, in order:

1. **KVStore and SinkCache composed.** Two caches on one store, with the
   atomic-save model of SinkCache as the abstract specification and a
   refinement mapping.
2. **SourceNode.** Several workers and `close`. Property: each source is
   closed once.
3. **RuleProcessor action property.** A rule's stored text changes only
   through `ExecCreate` under its id or `ExecDrop`.
