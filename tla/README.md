# MicroFi, a verification project

MicroFi is a data-flow agent for the ESP32: a small MiNiFi.  A *flow* is a graph
of processors and connections that a C2 server pushes to the device; an engine
task triggers the processors once a second and moves FlowFiles along the
connections; a FlowFile waiting in a connection is also a record on a LittleFS
partition, so that it comes back after a power loss.  This directory holds
TLA+ models of that program, the TLC runs that check them, and TLAPS proofs.

Paths are those of the repository: `src/flow_engine.cpp` is
`src/src/flow_engine.cpp` in `PROJECT.json`, headers are in `include/microfi/`.

## 1. Inventory

Three tasks matter.  The **engine task** (priority idle+2) ticks.  The **main
task** boots the agent and ends after replay.  The **C2 task** (idle+1) talks to
the server.  The chip has two cores, so all of them really run at once.  Other
tasks belong to ESP-IDF and call back: the Wi-Fi event task, the MQTT client
task, the HTTP server task, the display task, the audio recorder task.

| component | state | operations | talks to |
|---|---|---|---|
| Flow engine (`flow_engine.cpp`) | `nodes_`, `connections_`, `queues_`, `pending_def_`, `pending_apply_`, `flow_id_` | `prime`, `start`, `apply`, `run_loop`, `run_tick`, `rebuild_graph`, `replay_from_repository` | queues, repository, processors |
| Queue and session (`queue.cpp`, `session.cpp`) | ring of eight FlowFiles under a mutex | `try_push` (persist, enqueue, erase if full), `try_pop`, `transfer` | repository |
| FlowFile repository (`littlefs_repository.cpp`) | one file per record, `next_id_`, `used_bytes_`, `record_count_`, a mutex | `mount`, `write`, `read`, `erase`, `oldest`, `next`, `stats`, eviction | LittleFS |
| C2 client (`c2_client.cpp`) | `s_need_send_manifest`, response and flow buffers | heartbeat, `process_response` (DESCRIBE, UPDATE), choice of the URL and the id in it, fetch, acknowledge | server, engine, flow store |
| Flow store (`flow_store.cpp`) | the file of the flow, the file of its id | save and load of each | LittleFS |
| Agent boot (`agent.cpp`) | - | storage, Wi-Fi, load of the flow, engine, replay, C2 | all |
| Wi-Fi (`wifi.cpp`) | attempts, connected, ever connected | event handler, start and wait | ESP-IDF |
| Processors (`processors/`) | a state slab per node | `on_trigger`, `on_stop`, callbacks of other tasks | engine, peripherals, MQTT, HTTP |
| Parsers (`flow_parser.cpp`, `flow_yaml_parser.cpp`), serialisation (`flowfile*.cpp`) | none | text to `FlowDefinition`, FlowFile to bytes and back | - |
| Registry, manifest, agent id, LED, display mailbox | small | - | - |

What makes it hard:

* **Replay runs while the engine ticks** (`agent.cpp:119` starts the engine,
  `:127` replays).  The main task walks the directory by record id while the
  engine creates, erases and evicts records, and both push into the same queues.
* **The repository's mutex does not cover its files.**  A write gives it back
  before it creates its file, an erase takes it after the file is gone; sizes are
  read before a file is removed and subtracted later.
* **Power loss anywhere**: between the write of a record and its entry into the
  queue, between the trigger and the erase, between the two files of a flow.
* **Record ids are copied, reused and cached**: a FlowFile passed on carries the
  id of its input's record; after a boot ids start above the largest file *left*,
  so an erased id is handed out again.
* **A flow is handed over through one slot** (`pending_def_`) that the C2 task
  may overwrite while the engine rebuilds, and is acknowledged before it runs.
* **Messages to and from the server are lost**, and the server pushes again.
* **What is read was cut off somewhere else**: a flow by the buffer it was received
  in, a line of it by the line buffer, a record by a power loss or a full partition.
* **Processors share their state with tasks of libraries**, and a new flow stops
  and zeroes them while those tasks may be calling back.

`PROJECT.json` lists each of these at its line under `hazards`, with the
properties that would catch it.

## 2. Modules

| module | models | uses |
|---|---|---|
| `RecordStore` | what `IRepository` promises: an abstract store of records | - |
| `LittleFSRepository` | the implementation, one step per system call and critical section | implements `RecordStore` |
| `FlowEngine` | engine task, queues, sessions, replay, hand-over of flows, power loss | extends `RecordStore` |
| `C2Client` | C2 task, hand-over, flow store, boot, an unreliable network and a server | - |
| `FlowUrl` | which URL a flow is fetched from, and the scan for a UUID in it | - |
| `FlowParser` | `flow_parse`: from a body to a `FlowDef`, YAML or JSON | - |
| `FlowFile` | attributes, content, serialisation of a FlowFile, UpdateAttribute | - |
| `CaptureAudio`, `CaptureImage`, `GetTouch`, `ListenHTTP`, `PublishMQTT`, `PublishSparkplug`, `Wifi` | a component each that shares state with a callback of another task | `GetTouch` implements `RecentQueue` |
| `MCComponents` | the three and the seven, each run by itself | extends them |
| `MC*` | the small flows, payloads and C2 flows the runs use | |
| `*_proofs` | theorems | |
| `FiniteSums` | lemmas about finite sets, sums and folds | - |

### RecordStore and LittleFSRepository

In `RecordStore` a record is one file: absent, torn (created and not complete) or
holding a payload.  `Reserve` is the part of `write` up to `fopen`, `Commit`,
`Abort` and `Tear` its three ends, `Burn` a write that took an id and could not
create its file; `Erase`; `Remount` a power loss and the `mount` after it.
Eviction under `DropOldest` is a set of possible extents, as the store does not
promise how much it evicts.

`LittleFSRepository` refines it.  Each task has a program counter per call
(`create`, `store`, `count`, `unlink`, `uncount`, ...), the mutex is held exactly
from the watermark check to the choice of the id, and `used`, `count` are
`used_bytes_` and `record_count_`.  A file held open cannot be removed: that is
what LittleFS does (external), be it the one the engine writes or one that replay,
between two erases, has open to read it (`MayRefuse`).  The refinement maps `nextId` to the id in hand
between the choice of an id and the creation of the file.  Only the engine task
calls `write`: that is so in the program, and the model relies on it.

### FlowEngine

A FlowFile is which FlowFile it is (`origin`) and its record id (0: none); a
record is a pair of origin and connection id.  `pc` says where the engine task
is; each step of it is one piece of the code between points where another task
can interfere: `StartTick`/`ApplyPending` at the head of `run_loop`,
`BeginNode`/`Emit`/`Pop`/`Drained`/`TriggerWorks`/`TriggerFails`/`EraseProcessed`
for `run_tick`, `WriteBegins`/`WriteCompletes`/`Enqueue`/`EnqueueFull` and their
failures for `try_push` below `Session::transfer`.  `rpc` does the same for
`replay_from_repository`; an erase of the record it is reading is refused.  `Apply` waits until replay is over, as `agent.cpp`
starts the C2 task after it.  A processor is reduced to what the engine can see:
a source emits FlowFiles, any other node returns Ok, having passed its input on
or not, or something else.  `log`, `restored` and `bootId` are history variables:
what happened to which copy, what replay pushed, the next id at boot.

### C2Client

A flow and its id are one model value; sets say which flows carry their id in the
body (`InBody`, JSON), have none at all (`Anonymous`), are refused (`Rejected`),
or use no processor the device knows (`Unknown`, which empties the graph and
leaves the reported id, though the flow was acknowledged).  `pc` walks through
heartbeat, response, and for each operation fetch, apply, save of the body, save
of the id, acknowledge.  A save is two steps: the file is opened, which empties it
(`SaveFlowOpens`, `SaveIdOpens`), and it is written and closed (`SaveFlowCloses`,
`SaveIdCloses`).  Either may fail, which sets `faulted`; power that is lost between
them leaves an empty or a short file.  A short body does not load
(`flow_store.cpp:115`), so it is no flow; of a short id a boot uses what there is,
as `flow_store.cpp:179` has filled the array before it is refused and
`agent.cpp:97` ignores the refusal (`Torn`).  `lastSave` is a history variable: how
the last save of a body ended.
The engine replaces its graph (`Rebuild`) and then copies the id (`SetId`); a
heartbeat reads it without the mutex, so it may send the old id, the new one or,
between the two, a mixture (`Torn`), which the server takes for another flow.
`Describe` is the set of the operations other than updates: one, or none.
The server is external and modelled from what the code and its comments say of
it: a response holds every operation that is due, an update that is not
acknowledged in time is given up, and a heartbeat that reports another id than
the one wanted has the flow pushed again.  Assumed: no flow is published twice,
and the operations of a response are those listed in `c2_client.cpp`.

### Readers of what was written elsewhere

They run to their end within one step of the C2 client or of replay; a step of the
model is one line, one item, one jump of the cursor or one call.

* `FlowParser`: `section`, `within`, `proc`, `conn` are `sec`, `sub`, `cur_proc`,
  `cur_conn`.  `Yaml` and `Json` are what a server writes of a document; values are
  told apart by numbers, so a value stored in the wrong place shows.  `BodyIsCut`
  ends the body anywhere in the next line.  `LineIsLong` breaks the next line in two:
  of the first part any beginning may be left, the rest is a line of any kind with
  any key the reader knows (`Rest`: a section, an item with an id, a field, a
  property, an entry of a list, any indentation), and may be too long itself;
  `pieces` counts the breaks, `doc.longs` bounds them, `intact` is how many
  processors and connections were complete before the first.  The two formats differ on purpose: JSON keeps no
  cleared property, no processor without a type, no connection without an end.
* `FlowUrl`: a URL is a sequence of digits, dashes and other characters; `cursor`
  is `p`.  The scan looks up to 36 characters ahead, past the array if the URL
  ends near its end, where it may see anything (`ScanStrays`).
* `FlowFile`: `SetAttribute` with its three refusals; a record is known by the
  sizes of its parts, and `Refuses` are the checks of `flowfile_deserialize` on the
  first `written` bytes of it.

### Components with callbacks

Each shares a few variables between the engine task and a task of the system,
and nothing with the others: the engine triggers its nodes one after the other,
and Wi-Fi belongs to the boot.  `MCComponents` therefore picks one of these and of
the readers at the start and runs it alone, in one state space.

* `CaptureAudio`: the recorder task claims a part of the clip buffer under a
  spinlock, copies outside it and then declares the clip ready (`callback`); the
  engine begins a clip, waits, publishes or gives up (`mic`).  `buf` says of each
  part which clip its sound belongs to.  A clip is a number of slices.
* `GetTouch`: `ring`, `head`, `count` and `dropped` with the modulo arithmetic of
  the code; `Held`, the ring read from its tail, is the queue of `RecentQueue`.
* `ListenHTTP`: the handler (`request`) and the engine (`http`) with the inbox
  between them; `fate` says what became of each POST.
* `PublishMQTT`: `client` and `event` belong to the library, `online` is the flag
  they share with the engine; stopping the client waits for its task.
* `CaptureImage`: as `PublishMQTT`, with a camera (`camera`, external) that owns
  one frame buffer, lent to the engine between `GrabFrame` and `ReturnFrame`.
* `PublishSparkplug`: the MQTT task (`mqtt`, `flag`), the edges the engine sees
  (`edge`), and the vendored node that makes a birth or data from them.  The
  node's `mqtt_connected` always equals `was_connected`, so one variable is both.
* `Wifi`: boot task (`station`), event task and driver (`link`, external) with a
  queue of events between driver and event task; adopt mode is chosen at the
  start.

## 3. Runs

| run | instance | shows |
|---|---|---|
| `EngineBoots` | source and sink, 3 FlowFiles, 3 record ids, queue of 2, DropOldest, 2 power losses | replay misses nothing, keeps the order, no record changes |
| `EngineFlows` | chain of three nodes and a flow without nodes applied in turn, 2 FlowFiles, 2 record ids, queue of 1, DropOldest, 1 power loss, fair | types, duplicates only through replay, stamps are true, flows are taken up, queues drain |
| `EngineFaults` | one source and two sinks, or the boot default; BackPressure; file faults, 1 power loss | nothing vanishes |
| `LittleFSAccounts` | two tasks, payloads of 1 and 2 bytes, BackPressure, a power loss whose mount may fail | no underflow, the count covers, the watermark holds |
| `LittleFSFaults` | DropOldest on a partition that fills up and fails, fair | the usage covers, `RecordStore` is implemented, calls return |
| `C2Updates` | two of six flows of every kind, 1 power loss, also inside a save, ids read while they are copied; symmetry of the two plain YAML flows | no hand-over lost, acknowledged is durable, synchronised is true, DESCRIBE kept |
| `C2Converges` | two flows, a buffer of one operation, 1 power loss, fair | the last flow published ends up running |
| `Components` | clips of 2 slices, ring of 3 drained by 2, inbox of 2, 2 frames, sequence numbers modulo 4, 2 attempts, 2 attributes, 2 processors and connections, 1 property, up to two breaks of long lines, URLs of 80 bytes; fair | a published clip is whole, the camera is left usable, the ring is a queue, the inbox outlives its handler and POSTs are taken, no client is used after it is gone, the Wi-Fi flag is true and a lost link comes back; a flow cut off is a part of the one sent and a whole one is read whole, the first UUID is found, a record reads back whole or not at all |
| `EngineTornRead`, `EngineFullQueue`, `C2Reports`, `SparkplugBirth` | small | a sentence of the sources that the code does not keep; see Findings |

**Bounds.** Two slices are a first and a last one, and three clips are enough
for a slice of one to meet the buffer of the next; six gestures overrun a ring of
three; four POSTs overrun an inbox of two; three sessions show a birth, a session
without one and a birth again; two frames use the one buffer twice.  The documents
have up to one processor, connection and property more than fit, and a second
relationship; the URLs put up to three tokens of four or eight digits, which is
where the dashes of a UUID would be, before a UUID or a beginning of one; the
sizes of a record are those of small parts, and every first part of it is read.
Two breaks make a section header or an item of one rest meet the field or property
of the next.  Two FlowFiles and two ids are enough for the id of a record that was
evicted to be handed out, after a power loss, to the other FlowFile.
Queues of one or two slots are full with one or
two FlowFiles; three record ids are enough for one record of an earlier boot, one being written and
one evicted; two power losses are needed for an id to be handed out again after
the boot that erased it; two flows in a response are needed for one hand-over to
overwrite another; payloads of one and two bytes make sizes taken early differ
from sizes subtracted.  Every property is violated by the mutant of an action that
`PROJECT.json` lists for it, under the same bounds.

**Fairness.** The engine and the main task are ready tasks under a preemptive
scheduler on two cores and sleep for bounded times: weak fairness.  A task that
waits for the repository mutex gets it in the end, since the engine sleeps
between two ticks: strong fairness of an erase.  For `Converges` the network may
lose any message but not every one for ever, and the server gives up what is not
answered: strong fairness of a heartbeat that arrives, an update that arrives and
a fetch, weak fairness of the time-out.  The link is assumed up.  In `Components`
engine, server and event task are scheduled (weak fairness); an access point that
answers is joined in the end and gives an address in the end (strong fairness).

## 4. Findings

* `PowerLossLeavesRecord` (`flow_engine.cpp:218`): replay takes the file the
  engine is writing for a damaged one and erases it when it is complete.
* `FullQueueLosesNothing` (`flow_engine.cpp:224`): replay into a queue that the
  source has filled deletes the record.
* `ReportsWhatItRuns` (`c2_client.cpp:681`): a power loss between the two saves
  boots one flow and reports the id of another.
* `DataFollowsBirth` (`publish_sparkplug.cpp:330`): a session lost and opened
  again between two triggers gets data and no birth.

The models also reproduce, without a run of their own: an acknowledged flow is
lost when power fails while the body of the next one is being written, as the save
begins by emptying the file (`flow_store.cpp:56`; `flow_store.h:37` admits it, the
repository's `README.md:149` says the agent survives a power cycle with its
last-known flow) -- `AckedIsDurable` names the case; nothing bounds the replay
walk while a source keeps adding records ahead of it (`flow_engine.cpp:237`) --
record ids are bounded in a run, so no property says that it ends; downstream of a processor
that passes its input on FlowFiles have no record, as they carry the id of the
one the engine erases (`flow_engine.cpp:495`, where `queue.cpp:4-7` promises a
record); an erase that overlaps the write of the same record leaves `used_bytes_`
and `record_count_` wrong for good (`littlefs_repository.cpp:256`); when
CaptureAudio runs the encoder itself it does not wait for data before a clip, so
the end of a clip that timed out may complete the next one at once, which the
engine then publishes while it is still being recorded (`capture_audio.cpp:324`,
where `:35` says it never touches the buffer then) -- `PublishedIsWhole` is
stated for the other case; an NBIRTH that fails is not repeated, since the rebirth
flag is cleared before (`SparkplugNode.c:250`); without an address after eight
attempts the station never tries again (`wifi.cpp:70`, where `agent.cpp:73` waits
"until link comes up"), so `LinkComesBack` is stated from the first address on; in
adopt mode the connected flag may stay set after a loss (`wifi.cpp:143`);
delivery is at least once and not exactly once (`flow_engine.cpp:495`); under BackPressure a refused write
leaves the FlowFile queued without a record (`queue.cpp:63`) where `retention.h:43`
says upstream is throttled; a DropOldest write may fail, as the watermark is taken
from counters and not from free space (`littlefs_repository.cpp:159`); eviction
may delete more than it must, as the counters overestimate (`:347`); ids go back
after a power loss when the newest records were erased (`:127`), and to 1 when the
directory cannot be listed (`:118`).

## 5. Proofs

| theorem | module | states |
|---|---|---|
| `StoreInvariant`, `StoreImmutable` | `FlowEngine_proofs` | ids handed out are fresh, open files are torn; records never change |
| `RepositoryImplementsStore` | `LittleFSRepository_proofs` | `Spec => ImplementsStore`, if mount can list the directory |
| `RepositoryTypes`, `WatermarkIsKept` | `LittleFSRepository_proofs` | `TypeOK`, `WatermarkHolds` |
| `CountIsKept` | `LittleFSRepository_proofs` | `CountCoversStored`, as long as no write fails after it has created its file |
| `UsageIsCovered` | `LittleFSRepository_proofs` | `UsedCoversStored`, if mount can list the directory |
| `TypeCorrect`, `EngineRecordsAreImmutable` | `FlowEngine_proofs` | types; records never change |
| `RepeatsAreReplays` | `FlowEngine_proofs` | `DuplicatesComeFromReplay`, in flows that are trees |
| `StampsTrue`, `NothingEverVanishes`, `ReplayIsComplete`, `ReplayKeepsOrder` | `FlowEngineRecords_proofs` | `StampsAreTrue`, `NothingVanishes`, `ReplayMissesNothing`, `OldestFirst` |
| `C2TypeCorrect`, `NoApplyLost`, `DescribeKept`, `AckedDurable`, `SynchronizedTrue` | `C2Client_proofs` | types, `NoApplyIsLost`, `DescribeIsKept`, `AckedIsDurable`, `SynchronizedIsTrue` |
| `InboxOutlives`, `ConnectedClient`, `CameraLeftUsable` | `Components_proofs` | `InboxOutlivesHandler`, `ConnectedHasClient`, `CameraIsLeftUsable` |
| `ConnectedTells`, `ClipsAreWhole`, `RingQueues` | `Components_proofs` | `ConnectedIsTrue`, `PublishedIsWhole`; `TouchSpec => RingIsQueue`, a refinement |
| `UrlTypeCorrect`, `ScanFindsFirst`, `RecordsReadBack` | `Readers_proofs` | the cursor stays in the text; `FirstUuidIsFound`, `ReadsBackWhole` |
| `FlowIsPart`, `FlowIsRead` | `FlowParser_proofs` | `CutFlowIsPart`, `WholeFlowIsRead` |
| `ComponentTypes` | `Components_proofs` | `TypeOK` of all components, in the composition `MCComponents` |

They hold for every set of flows, queue capacity, number of records and power
losses, both policies and with or without faults, from the assumptions named in
the modules (`StoreAssumption`, `EngineAssumption`, `RepositoryAssumption`,
`UrlAssumption`, `C2Assumption`, `FlowFileAssumption`, `ParserAssumption` and those
of the components with callbacks); those about `FlowUrl` for every set of URLs and array size, those
about `FlowParser` for every set of documents, both formats and all capacities, those
about `C2Client` for any number of publications and any length of a response, those
about the other components for every ring, inbox, clip and record.  A theorem about
a component speaks of its own specification (`AudioSpec`, `WifiSpec`, ...); as the
composition only picks one of them (the lemma `EachRunsItsOwn`), it holds in the run
`Components`.

Three theorems have a hypothesis of their own, and none is a convenience.
`UsageIsCovered` and the refinement need a mount that lists the directory: one that
cannot starts from zero over a full partition.  `CountIsKept` needs that no write
fails after it has created its file, since until that file is removed again it is on
the partition and nobody has counted it.
`RepeatsAreReplays` needs flows without joining paths (`IsTree`): where two paths
join, the node is handed the FlowFile once per path, by design; the flow of a device
that has none saved is a tree.

* `FlowEngine`: `Inv == StoreInv /\ TypeOK /\ Control` is inductive.  `Control`
  says what is in hand at each `pc` (a write's record is the open one, the first
  connection in `todo` exists).  `StampsAreTrue` is not inductive: a stamp is
  copied from the popped FlowFile to the one transferred and into the next queue,
  and is cached by replay, so `Stamped` says the same of `in`, `out`, `copy` and
  `cur`.  `NothingVanishes` needs `PersistedAreCopies` and that every step that
  removes a record logs why.  `ReplayMissesNothing` follows from `ReplayCovers`:
  at any point of the walk, every old record is restored, at `cur`, or ahead of it.
  `OldestFirst` says that the old records of a queue are in order; its invariant
  (`QueueInv`, `SourceInv`) adds that replay has passed all of them, so that what it
  pushes next belongs at the end, and that nothing a source transfers is that old.
* `DuplicatesComeFromReplay` rests on `Single`: in a tree a FlowFile that replay has
  not pushed is at most once on each connection, not there any more once the node
  behind it has returned Ok, and only where the node before has returned Ok for it;
  the connections it is still to be sent to have not seen it.
* `RecordStore`: `StoreInv` adds to the types that the next id is above every
  file and that an open file is torn: without the first a write would truncate a
  record, without the second its `Commit` could overwrite a complete one.
* `LittleFSRepository`: for the refinement, the invariant ties the one open file to
  the engine's `pc` and the id in hand to `nextId`.  The properties of the counters
  are not inductive, as the two tasks subtract what they found before: the invariants
  (`CountInv`, `UsedInv`) put what each call has yet to add or to subtract on its
  side of the inequality.  For the usage this needs `SizesInv`: ids are not handed out
  twice between two boots, so the file a call has found is gone, or no smaller than it
  was found to be.  `HandedOut` is the next id, or the id in hand until its file
  is created.
* `FiniteSums`: the usage is compared with a sum over records, so the proof needs that
  a sum changes by what one summand does.  The library's induction theorems cannot be
  used here, since they take an operator; instead the recursive functions behind a sum
  and a fold are shown to exist, and statements about all subsets are proved by taking
  a smallest counterexample (`LeastNumber`, `SmallestSet`).
* `FlowUrl`: a jump of the cursor lands behind a dash it has seen.  A UUID that began
  in between would have a hexadecimal digit in the place of that dash
  (`DashIsNoDigit`), so nothing is jumped over (`JumpSkipsNone`), and behind the end
  of the text there is no dash to jump to (`JumpStaysInside`).
* `FlowFile`: `Refuses` holds of exactly the proper first parts of a record
  (`RefusesWhatIsCut`).  That the attributes come back is not obvious, as the reader
  sets them with `set_attribute`, which drops and merges: `Kept`, an invariant, says
  that it left none it would drop or merge again, and `SetAllRebuilds` that setting
  such attributes one by one puts each in its place.
* `C2Client`: `Inv` adds to the types that nothing is anywhere that was not
  published.  `AckedIsDurable` rests on `Written`: between the save of a body and
  its acknowledgement the file holds the flow in hand, as nobody else writes it.
  After a power loss inside a save the file holds nothing until the next save ends.
  `SynchronizedIsTrue` rests on `InOrder`: flows pass from the server's queue
  through the response, the hand-over and the engine to the reported id in the
  order they were published, so once the flow wanted (the last) has passed a
  point, whatever has yet to pass it is that flow and cannot undo it; the graph is
  replaced before the id, the body saved before the id.
* `Components_proofs`: each property is inductive once it says what holds in
  between: the server runs only while there is an inbox, the engine knows of the
  client as long as there is one, the frame is lent exactly from its grab to its
  return.  For the Wi-Fi flag, that the last event on its way says how the
  link stands (`LinkInv`); for a clip, that no callback of an earlier one is under way
  once data has been seen, and that the buffer as far as it is claimed is of this clip
  but for the slice being copied (`ClipInv`).  The ring
  implements `RecentQueue` by `Held`, read from its tail: `RingModulo` has the
  arithmetic, `HeldEnters` and `HeldPops` say what a callback and a drain do to it.
  The types of the components are more than declarations where an index is computed:
  that a slice lies in the buffer needs that a recording ends with its last slice,
  and that a POST has a number that one is awaited.
* `FlowParser`: nothing is read into a processor, a connection or a property beyond
  the arrays (`ArraysStay`), whatever document is sent, wherever it is cut off and
  however its lines are broken: every place that names a current processor is reset
  with it (`PlacesStay`), and every line still unread is a line the server may write,
  a shortened one or the rest of a long one (`UnreadStays`).
  What has been read (`FlowIsPart`, `FlowIsRead`) needs more, `FlowOK`: `SoFarOK`
  until the first line that is too long, `LongOK` from there on.  `SoFarOK` says
  where in the document the reader is.  A place is a number of complete processors
  `i` and of lines `t` read of the next one.  At a place the unread lines are the
  rest of that processor followed by
  the next ones and the connections (`ProcUnread`), the array holds the first `i`
  processors and of the next one what its first `t` lines say (`Placed`, `Exact`),
  and `proc`, `within` and the section are what those lines leave (`CurrentAt`); likewise
  for the connections (`ConnHere`).  Each kind of line is then one lemma: if it is the
  line at a place, reading it leads to the next place.  The cut leaves at most one
  shortened line, after which there is no more to read: so `Like`, a line or what is
  left of it, is carried through the same lemmas.  `FlattenSeq` is a recursive
  function, and where the `i`-th processor's lines are in the flattened document
  (`Left`, `Following`) is shown with smallest counterexamples, as for the sums
  (`FirstToLast`).  In JSON the items are numbered and one may be skipped for
  what it lacks, so `Begins` says that the arrays hold the first of what is said, and
  `CountsNext` how many there are after each item.
  When a line is broken (`LongBegins`), all but the current item is complete
  (`CompleteSoFar`); from then on the reader may believe anything about the current
  one and what follows, but `LongOK` says that the item it writes to, if any, is
  behind those that were complete, and arrays only grow (`LongLineStep`).

Only model-checked: liveness (`PendingIsTaken`, `QueuesDrain`,
`CallsReturn`, `Converges`, `PostsAreTaken`, `LinkComesBack`), as fairness is about
`ENABLED`, which is out of the prover's reach.  Every safety invariant and
every action property that a passing run checks is stated by a theorem.

## 6. Plan

1. Done: `RecordStore`, `FlowEngine`, `LittleFSRepository`, `C2Client`, and
   theorems about every safety property of all four.
2. Done: the components shared with other tasks: `Wifi`, `ListenHTTP`,
   `PublishMQTT`, `PublishSparkplug`, `CaptureAudio`, `CaptureImage`, `GetTouch`,
   with theorems about all but `PublishSparkplug`, whose run is a finding.
3. Done: the readers of what was written elsewhere: `FlowParser`, `FlowFile`,
   `FlowUrl`, with theorems about every safety property of the three; the types of
   all components, in their composition.
4. With the source: a handler that gains a call or a guard changes its action, its
   line in the map, and the step of the proof that bears the action's name.

## 7. Not modelled

* Registry, manifest, agent id and LED are sequential and have no state that
  changes after boot.
* The mailbox of DisplayMessage: each access is one critical section that copies
  everything at once, so there is nothing to interleave.
* GetIMU, GetGPIO, SetGPIO, PlayAudio, LogAttribute, GenerateFlowFile: each works
  within one trigger, on a sensor, a pin or a log, without a callback.  `FlowEngine`
  has what their triggers mean to the engine.
* The text of messages, logs and statistics; the copying and unquoting of strings
  in the parsers; cJSON, nanopb, the Sparkplug encoder and ESP-IDF.
* `flow_def_clear` and `stop` have no caller.
* In `C2Client` a flow is taken up whole or refused.  What is left of one that was
  cut off is a smaller flow under the same id: `FlowParser` says what it can be.
