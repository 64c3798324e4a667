# TLA+ models of go-nvme

This directory holds TLA+ models of the go-nvme NVMe-over-TCP target and
client, the TLC configurations that check them, and `PROJECT.json`, which
lists each component, run, mutant, finding and hazard and maps every
definition to the source lines it models.

## The system

| Part | Source | What it does |
|---|---|---|
| Controller | `src/controller*.go`, `src/nvme_request.go`, `src/nvme_response.go` | One per accepted TCP connection. Three goroutines share it: the **receive loop** (`Serve`/`HandleCapsule`), the **CompletionHandler**, and the storage **backend**. |
| Buffer pool | `src/internal/buffers` | A channel of 128 payload buffers. `Get` blocks when the pool is empty. |
| PDU framer | `src/stream` | `Dequeue`/`Receive`/`ReceiveData` read PDUs. `Flush` writes the header, then the payload. |
| Wire codec | `src/internal/serialize`, `src/protocol` | Descriptor-driven little-endian (de)serialisation of the PDU records. |
| Subsystems | `src/subsys_*.go` | `InitSubsystem` is used before Connect: it fails Identify, GetLogPage and QueueIO. `TargetSubsystem` forwards IO to a target. `DiscoverySubsystem` lists the server's subsystems. |
| Targets | `src/targets` | Storage backends. Each completes an `IORequest` through its completion callback. `WorkQueue` is a pool of worker goroutines. |
| Server | `src/server.go` | Accepts connections (`startController`) and keeps the subsystem and session maps under one lock. |
| Client queue | `src/client/queue.go`, `queue_io.go`, `queue_admin.go`, `client.go` | Host side. A transmitter and a receiver goroutine share a CID→request map. IO queues keep a pool of 128 descriptors. |
| Tracer | `src/pkg/tracer` | Logging. `tracer.Fatal` prints and calls `os.Exit`. |
| nvmed | `src/cmd/nvmed` | The daemon. At start it registers the subsystems of `targets.yaml` and reloads every volume found in `./data`. Its HTTP API creates a volume (an image file, a `.json` state file, a file target, a subsystem) and deletes one. |
| API client / CLIs | `src/api`, `src/cmd/nvmectl`, `src/cmd/profile`, `src/cmd/synthetic` | The REST client and command-line tools. |

### How the controller's parts interact

1. `startController` fills the `waiting` channel with all 64 request slots.
2. For each capsule, the receive loop takes a slot from `waiting` (this blocking is the flow control) and advances SQHD. It then reads the capsule, plus a pool buffer if the capsule carries data, and dispatches it:
   - **Admin queue** (queue id 0): fabric and admin commands are handled inline, and the request is completed at once.
   - **IO queue**: the request is queued to the subsystem. The target later calls `Complete` from its own goroutine.
3. `Complete` pushes the request onto `completions`.
4. The CompletionHandler writes the C2HData PDUs and the CapsuleResp. It then puts the buffer back, resets the response, and returns the slot to `waiting`.
5. When the connection ends, the deferred drain in `Serve` takes all 64 slots back, then closes `completions`. The CompletionHandler then returns and closes the connection.

### How the client and the registry interact

**On the host**, an IOQueue operation goes through these steps:
1. It takes a descriptor from `q.ready`.
2. It queues the descriptor on `requestQueue`.
3. It blocks in `Wait`.

Meanwhile the transmitter assigns a CID under `c.lock`, records the request in `c.requests` and flushes it. The receiver looks each CapsuleResp up by CID, removes the request and calls `Done`.

When the connection ends, two things clean up:
- The receiver's deferred drain signals every request left in the map.
- The monitor goroutine of `Queue.init` waits for both goroutines, then empties the map.

**On the target**, every controller registers its session in the `Server` under `Server.Lock` and looks subsystems up there on Connect. The management API adds and removes subsystems. `RemoveSubSystem` closes the controllers bound to the subsystem and waits for each one, while holding the lock.

## Modules

### `NvmeController` (the controller, buffer pool and backend)

The state follows the code:

| Code | Model |
|---|---|
| `c.waiting` | `waiting`, a FIFO of slot numbers |
| `c.completions` | `completions`, plus `complClosed` for `close(c.completions)` |
| The `Queue` array of `NVMERequest`s | `req`: per-slot command number, opcode, payload flag, scatter list, NoReply, status, SQHD and FabricResponse value |
| The pool | `freeBuffers` |
| Controller fields | `QueueID`, `QueueSize`, `SQHD`, `REGCtrlStatus`, `REGCtrlConfig`, `ControllerID`, `FlowControlDisabled`, `Subsystem`, `AEC`, `NumQueues` |
| What reaches the host | `wire`, the sequence of PDUs written |
| `os.Exit` reached through `tracer.Fatal` | `exited` |

Data is abstracted:
- A command is named by the number of the PDU that carried it.
- A data buffer is named by the command that filled it.

The actions are:
- **Receive loop:** one action per branch of `Serve`, `HandleCapsule` and the handlers:
  - `RecvHeader`, `RecvEOF`, `HandleICReq`, `HandleTermReq`, `TakeSlot` and `RecvFail`;
  - the dispatches `DispatchConnect`, `DispatchConnectUnknown`, `DispatchPropertySet`, `DispatchSetFeatures`, `DispatchAdmin`, `DispatchQueueIO`, `DispatchDSM` and `DispatchFatal`;
  - the drain, `DrainOne`.
- **CompletionHandler / `ProcessResponse`:** `TakeCompletion`, `SendData`, `SendDataFails` (→ `tracer.Fatal`), `SendResponse` and `HandlerExit`.
- **Backend:** `BackendComplete(s, e)`, the target calling `Complete(e)`.
- **Host:** `RecvHeader` (it sends a PDU) and `CloseConn`.

A write on a closed connection either fails or is lost, the two outcomes the kernel can give.

### `MCNvmeController`

This module defines the host's capsules as records and the sets of capsules each run may send.

### `NvmeClientQueue` (the host-side queue and IOQueue callers)

| Code | Model |
|---|---|
| An application goroutine calling `IOQueue.Read` (and the other IOQueue operations, which have the same shape) | `callerPc`, `callerDesc`, `result` |
| `q.ready`, the pool of descriptors | `pool` |
| `CapsuleRequest.Response` status of each descriptor | `status` |
| `c.requestQueue` (capacity 32) and its `close` | `requestQueue`, `rqClosed` |
| `c.cid` (uint16) and `c.requests` | `cid` (mod 65536) and `requests`, a set of ⟨CID, descriptor⟩ |
| `c.lock`, when it is held across a blocking step | `lock` |
| The transmitter, the receiver and the monitor goroutine of `Queue.init` | `txPc`, `rxPc`, `monPc` |
| The socket | `conn` (open, closed by the peer, closed locally), `toTarget`, `toHost` |

`Done` is a send on the unbuffered `ready` channel, so it is modelled as a rendezvous with the caller waiting on that descriptor. It blocks while nobody waits. Two ghost variables (`mine`, `woken`) record which CID the caller's command got and which response woke it. `ResultIsOwn` uses them.

The actions:
- **Caller:** `StartCall`, `Acquire`, `QueueCapsule`, `QueueOnClosed` (panic), `Release`, `Return`.
- **Transmitter:** `TxTake` (the CID assignment under the lock), `TxFlush`, `TxFlushFail`, `TxDone`, `TxExit`.
- **Receiver:** `RxResponse`, `RxDone`, `RxData` and `RxEOF`, then the deferred drain: `RxDrainLock`, `RxDrainNext`, `RxDrainDone`, `RxDrainEnd`.
- **Monitor:** `MonCleanup`.
- **Environment:** `TargetAnswer` (the controller answers a capsule, possibly after data, in any order), `PeerClose` and `Close`.

Two code details the model keeps:
- `SetStatus` has a value receiver, so the model leaves `status` unchanged.
- The Flush-failure path deletes `c.cid` after the increment.

### `NvmeServer` (the registry)

| Code | Model |
|---|---|
| `s.SubSystems`, `s.SessionInfo`, `s.Lock` | `subsystems`, `sessions`, `lock` |
| One `startController` goroutine per accepted connection | `connPc`: register → serve → unregister → done, or serve → hung |
| Connect's `GetSubSystem` and the unlocked `c.Subsystem = subsys` | `GetSubSystem`, `BindSubsystem` and `sub` |
| `RemoveSubSystem`: the range over the sessions and `Ctrl.Close` under the lock | `RemoveSubSystem`, `RemoveVisit`, `RemoveCloseDone`, `RemoveReturn` |
| `Server.Close` | `ServerClose`, `ServerClosed` |

A controller is reduced to what the registry sees of it. Once its connection is closed, Serve either returns (`ServeExit`: the read of a PDU header failed) or never returns (`ServeHang`). The second case is a close that lands between a capsule's header and its body. `HandleCapsule` then returns holding its slot (controller.go:227-231), and the deferred range over `c.waiting` never counts `cap(c.waiting)` slots. The close may be the host's, or RemoveSubSystem's own `conn.Close` in `Controller.Close` (controller.go:295). In that case RemoveSubSystem waits forever under Server.Lock. The constant `HostReconnects` allows a second Connect on a bound connection.

### `WireCodec` (the tag codec, the layouts and the Connect codecs)

A Go struct type is a **layout**, a sequence of field descriptors built from its struct tags and field types (`Field`, `StrField`, `ArrField`, `RecSliceField`, `Unexported`). A buffer is a function from the positions written so far to bytes; unwritten positions read 0, as `make([]byte, n)` does.

| Code | Model |
|---|---|
| `Serializer.Serialize` and `serialize` (serialize.go) | `SerializeFields`, `SerializeValue` and `SerializeElems`: mutually RECURSIVE operators that return `[st, buf]`, where `st` is "ok", "err" (a returned error) or "panic" (a Go runtime index panic) |
| The bounds checks of serialize.go:128-134 | `OutsideView`: only the field's start, and start + length tag, are checked |
| `Deserializer.Deserialize` and `deserialize` | `DeserializeFields`, `DeserializeValue` and `DeserializeElems`. A field error is `log.Panicf`; slices start empty and are not read |
| `marshalString`, `unmarshalString`, `MarshalPaddedString` | `Truncate`, `CString`, `MarshalPaddedString` |
| `binary.LittleEndian` | `LittleEndian`, `Uint` |
| `ConnectData`, `ConnectCommand`, `CapsuleCommand`, `DiscoveryLogPage*` | the `...Layout` definitions, from the struct tags |
| `ConnectCommand.Marshal`, `CapsuleCommand.Unmarshal`, `NVMERequest.ReinterpretCapsule` | `ConnectMarshal`, `CapsuleUnmarshal`, `ReinterpretCapsule` |
| `Client.openQueue`'s Connect, and the controller's decoding of it | `ClientConnect`, `ClientConnectData`, `ReceiveConnect` |

TLC's integers are 32-bit, so `LittleEndian` writes 0 for bytes 4 to 7. Every value in the models is below 2^31.

### `DiscoveryLog` (a discovery session and the server's subsystem map)

| Code | Model |
|---|---|
| `s.Server.SubSystems` | `subsystems`. `AddSubSystem` and `RemoveSubSystem` change it at any time |
| The Connect case of `handleFabricCommand` | `Connect(r)` (decode, with `conn` as the handler's locals), then `Bind` (`GetSubSystem`; an unknown name leaves the `InitSubsystem`) |
| The Get Log Page case of `handleAdminCommand` | `Dispatch(c)`. A log id other than 0x70, or any page of the `InitSubsystem`, is `tracer.Fatal` |
| The unlocked `range` over the map, the skip of the discovery NQN and the sort | `RangeSubSystems`. `seen` is the map when the range starts and `during` the keys written meanwhile. A write during the range may crash the process or mix old and new keys |
| Building and serializing `DiscoveryLogPage` (offset 0) or `DiscoveryLogPageData` (entries from `offset/1024 - 1`), and `w.Write` | `LogPage` and `Serve`. A panic is `pc = "exit"` |

`ReplyIsLogSlice` compares each reply with `RefLog`, a reference written from the NVMe discovery log page format rather than from the code: the record count at byte 8, entry *i* at 1024·*i*, and the fields at their NVMe offsets. `RefSlice` cuts it at the offset and length the host asked for.

### `MCDiscoveryLog`

This module defines the following:
- three target NQNs and the discovery NQN, with 1- and 2-byte names;
- the host reads: 1, 2 and 4 KiB at offsets 0, 1024, 2048 and 4096, plus offset 512 and log page 2;
- the Connects: queue ids 0, 1 and 300, CIDs 0 and 65535, host NQNs of 0, 3 and 256 bytes, to the discovery NQN or to an unknown 256-byte name.

### `Targets` and `TargetService` (the storage targets)

| Code | Model |
|---|---|
| `w.queue`, a channel of capacity 8, and `close(w.queue)` | `queue[t]` (a sequence, bounded by `QueueCap`) and `qclosed[t]` |
| The `cap(w.queue)` goroutines of `WorkQueue.Start` | `worker[t][w]` ("recv", "run", "exit") and `held[t][w]` |
| `WorkQueue.Queue` (`w.queue <- r`) | `SubmitQueued(r)` and `Unblock(r)` through `Send`: buffered, blocked on a full channel, or a panic on a closed one |
| `WorkQueue.Work` | `Receive(t, w)` (a request, or nil on a closed empty channel and return) and `Run(t, w)` (the wrapped target's Queue) |
| `WorkQueue.Close` | `CloseQueue(t)`, `Drain(t)` (each received request completed Aborted) and `CloseHandler(t)` (`FileTarget.Close`, `RBDTarget.Close`); only targets in `Closable` are closed |
| `TargetSubsystem.QueueIO` on a memory, null or testable target | `SubmitDirect(r)`: Queue runs on the caller's goroutine |
| The Queue of each target | `MemCrashes` (slice bounds), `TestableStatus` (range check, first matching region), `FileStatus`/`FileSize` (closed file, EOF, growth), `RbdStatus` (closed image, no growth, a possible crash when the image is closed under a running call), `HandlerStatus` (sleepy), `DirectStatus` (null) |
| A Go panic | `crashed` |

A request is abstracted to its target, command, first LBA and block count, and a target to its size in blocks and whether its file is open. Each request has its own submitting goroutine, as requests of different connections do. The owner closes a target only after every Queue call on it has returned.

`TargetService` is the Target contract of spec.md §6, written from the spec. Each request goes from "new" to "pending" (or straight to a status, when Queue completes it before returning) and then to one status. It may complete as Aborted only once its target's Close has begun. The process never stops (`up`), and every pending request is eventually completed (weak fairness). `Targets.TargetContract` instantiates it with a refinement mapping: `result` from `phase` and `status`, `closing` from Close having begun, and `up` from `~crashed`.

### `MCTargets`

This module defines a 4-block file target and a 4-block rbd image, each behind a WorkQueue, a 16-block memory target and the testable target with the 1 GiB size and regions of `NewTestableTarget`. The file target gets five requests:
- a read running past the end of the image;
- a write of block 4, which grows it;
- a read of block 4;
- a trim;
- a flush.

The testable target writes into its failing-write region, and the rbd image gets a write of block 4, past its end, which fails where the file grows. The memory target gets no request: its in-range read added nothing the testable target's direct path does not show, and the rbd request took its place within the run's time.

Only the file target is closed (`Closable = {f1}`). No code of the repository calls a target's `Close`: DeleteVolume panics before it. Closing the rbd image under a running worker may crash the process, which the contract forbids, so that race is recorded as a hazard and not checked here.

### `Nvmed` (the nvmed daemon over the registry)

Nvmed EXTENDS NvmeServer. It adds the volume API's handler goroutines, the two files each volume leaves in `./data`, and a process restart.

| Code | Model |
|---|---|
| `data/<id>.raw`, `data/<id>.raw.json` | `img[v]` (absent, created, sized) and `meta[v]` (absent, torn, ok) |
| CreateVolume: `os.Create`, `os.Truncate`, `json.Marshal` + `os.WriteFile`, `targets.New("file")` + `Start`, `s.AddSubSystem` + respond | `CreateImage`, `TruncateImage`, `WriteMeta`, `OpenTarget`, `Register`. Every step but the last may fail; `Fail` answers 400 and leaves the files made so far. A failed `WriteFile` may leave no file or one that does not parse. |
| DeleteVolume: `s.ListSubSystems()` and the UUID match, `s.RemoveSubSystem`, the `*FileTarget` assertion | `DeleteList`, `DeleteRemove` (NvmeServer's `RemoveSubSystem`), `DeletePanic` |
| The process exits; `main` runs again: `os.ReadDir("./data")`, `json.Unmarshal`, `targets.New("file")`, `AddSubSystem` | `Restart`: the goroutines, sessions and connections are gone; the volumes of `OnDisk` whose image opens are registered, and the others are recorded in `skipped` |
| `s.Serve()` and `http.ListenAndServe` waiting | `Waiting` |

A volume is its NQN: `uuid.New` gives every CreateVolume request its own id. The client's view is `answer[v]`, and `deleted` records every volume a DeleteVolume removed. The process exits and restarts in one step, because nothing is served before the startup loop ends. Both `tracer.Fatal` (see `fatal_on_disconnect`) and a kill make the exit real. The subsystems of `targets.yaml` are not volumes and are left out. nvmed never calls `Server.Close`, so Nvmed's next-state relation leaves it out.

## Runs

The controller runs use NumSlots = 2 and NumBuffers = 4. Two slots are enough for a slot to be reused while another is in flight, and for completions to be reordered. The code's 64:128 ratio of slots to buffers is kept.

The client runs use one or two descriptors and a requestQueue of capacity 1:
- One descriptor shared by two callers makes descriptor reuse happen.
- Two descriptors let two commands be outstanding at once.

The 16-bit CID is kept at its width. Outstanding CIDs are bounded by the pool, so the CID wrap never collides and is not a hazard.

`server_remove_race` uses one connection and one subsystem NQN; a Connect racing RemoveSubSystem needs no more.

`nvmed_volumes` uses:
- one connection (which may Connect again: `HostReconnects = TRUE`), two volumes and two DeleteVolume requests;
- one restart;
- MaxAdminOps = 4, one AddSubSystem per volume and one RemoveSubSystem per delete, so the bound never blocks a handler.

Two volumes let a connection be bound to one volume while the other is removed, so RemoveVisit both closes a session and skips one. Two deletes let both find the same volume, with the second one's RemoveSubSystem failing. The restart can hit every step of either CreateVolume and of either DeleteVolume. Two connections would take the run to about 10 minutes (23 million states); the registry's races between connections are checked in `server_remove_race`.

The targets run uses a channel capacity (and worker count) of 2 instead of 8. Five requests then keep both workers busy, fill the channel and block one sender, while Close can start with requests both buffered and running. Eight would need seventeen requests for the same cases.

The discovery runs use three target names. Two are enough for the sort to matter. Three give a page with an entry past the first 1 KiB of a 2 KiB read and a write racing the range. The reads cover both page forms, entry-boundary offsets past the end of the list, the -1 index and an unserved log id. The Connect NQNs of 0 and 256 bytes are the string field's edges.

| Run | Expect | Properties | What it shows |
|---|---|---|---|
| `session` | pass | TypeOK, ResponseIntegrity, PoolConservation | The host sends any mix of admin and IO capsules, up to 4 PDUs, on one connection: connect, enable/shutdown, identify, log page, features, AER, fatal registers, reads, writes, flush, DSM and an R2T write. Backends fail and complete out of order, and the connection may close mid-PDU. Every response stays matched to its command and carries its own data, SQHD stays in range, and every buffer is accounted for. |
| `live` | pass | EveryCommandAnswered, CloseDrains | While the connection is up, every command but AER is answered. Once it closes, the drain finishes and both goroutines stop. No read fails between a header and its body in this run. |
| `fatal_on_disconnect` | violation | NoProcessExit | A host that disconnects during Identify data makes the target process exit (controller.go:97). |
| `client_faults` | pass | TypeOK, NoUnknownCid | Two callers share one descriptor while the peer drops the connection, flushes fail and the queue is closed mid-operation. The receiver never reads a PDU whose CID is missing from the map. |
| `client_live` | pass | EveryCallReturns | On a healthy connection that is closed only when idle, every IOQueue operation returns. |
| `client_status_after_release` | violation | ResultIsOwn | The status is read after the descriptor went back to the pool. An operation returns the status of the next caller's command (queue_io.go:79). |
| `client_monitor_race` | violation | EveryCallReturns | The monitor empties the map before the receiver's drain signals it, and a caller waits forever after `Close` (queue.go:93/235). |
| `nvmed_volumes` | pass | NvmedTypeOK, RegisteredIsDurable, AnsweredIsServed | Two volumes are created and deleted through the nvmed API while a host connects and reconnects to them. Any file step of CreateVolume may fail, a controller that RemoveSubSystem closes may never finish, and the process may restart at any point. A registered volume always has a sized image and a `.json` that parses. A volume the API answered stays registered, across the restart, until it is deleted (unless the startup cannot open its image). |
| `server_remove_race` | violation | RemovedIsUnbound | A Connect that looked the subsystem up just before RemoveSubSystem binds it just after. The controller keeps serving the removed subsystem (server.go:101). |
| `discovery_pages` | pass | TypeOK, ReplyIsLogSlice, ConnectRoundTrip | While subsystems are added and removed, every discovery Get Log Page reply is the requested slice of the NVMe discovery log page. Every Connect arrives with the fields and NQNs the client sent. |
| `targets_contract` | pass | TypeOK, TargetContract | A file target and an rbd image behind WorkQueues and the testable target serve requests while the file target's WorkQueue is closed. The targets implement the Target contract: each callback runs exactly once and eventually, Aborted only after Close, and nothing panics. |
| `discovery_short_read` | violation | NoCrash | A 12-byte read of the page header panics in `PutUint64`, because Serialize checks only a field's start (serialize.go:128). The target process dies; spec.md 4.1 promises an out-of-bounds error. |

Other disagreements met while modelling are listed as hazards in PROJECT.json. They are modelled, but have no run of their own:
- **A Read with in-capsule data leaks a pool buffer** (controller_capsule_io.go:20). `PoolConservation` states what such a Read breaks, but the `session` host sends its Reads without in-capsule data, so the run does not reach the leak.
- **A rejected IO-queue Connect still switches the queue id**, so the next IO command reaches `tracer.Fatal` (controller_fabric.go:54). The `NoProcessExit` property catches it.
- **The last data PDU is never flagged** (controller.go:80), and **SQHD wraps one step late** (controller.go:222). Neither needs an interleaving.
- **The value-receiver `SetStatus`** (queue.go:29) makes a failed Flush return success. `ResultIsOwn` catches it on a connection the peer closes.
- **`Close` while an operation is submitting panics** (queue.go:70). `QueueOnClosed` models it.
- **RemoveSubSystem can wait forever under Server.Lock** (server.go:105). This happens when a controller it closes is in a second Connect (blocked on the same lock), or when its own `conn.Close` cut a capsule in two (`ServeHang`). `nvmed_volumes` reaches both, with `HostReconnects = TRUE`. Every later AddSubSystem and RemoveSubSystem then blocks, including CreateVolume's (main.go:294), after its files are written. No passing run states that RemoveSubSystem returns, because it may not; the safety properties hold in the states the run reaches.
- **A failed Flush deletes the wrong CID** (queue.go:174). The exit drain then calls `Done` a second time and blocks holding `c.lock`. With `PeerMayClose = TRUE`, `EveryCallReturns` fails; `client_monitor_race` is the violation run kept for that property.
- **Discovery reads `s.SubSystems` without the lock** (subsys_discovery.go:68). DiscoveryLog models the overlapping writes, and `discovery_pages` reaches the process exit. That run does not check `NoCrash`, and `discovery_short_read`, which does, has no subsystems, so no property checks this race.
- **A discovery read at an offset below 1024** indexes `subsys[-1]` and panics (subsys_discovery.go:112).
- **A read length that cuts a string field** silently drops that field's bytes, because GetLogPage ignores Serialize's error (subsys_discovery.go:107). A 1300-byte read violates `ReplyIsLogSlice`.
- **NUMDU is ORed into NUMDL, not shifted** (log_pages.go:150). A read of NUMDU = 1 violates `ReplyIsLogSlice`; the bounded pages never need it.
- **`CommandsSupportedLogPage` puts IOCS at byte 256**, inside ACS (log_pages.go:206).
- **A close between a capsule header and its body leaks the request slot** (controller.go:227), and the drain in the Serve defer waits forever. `CloseDrains` fails when `MidPduClose = TRUE`; `live` checks it with `MidPduClose = FALSE`.
- **WorkQueue.Close's drain competes with the workers** for buffered requests (work_queue.go:18). `TargetContract` checks that each request is completed exactly once, by one of them.
- **WorkQueue.Close closes the file without waiting for the workers** (work_queue.go:22). An in-range request still running then completes with Unsupported or Internal, which the contract allows after Close.
- **WorkQueue.Close closes the rbd image under a running worker** (rbd.go:89). `image.Close` and `ioctx.Destroy` can free what a `ReadAt` or `WriteAt` inside librbd is using; `RbdStatus` makes the outcome an error or a crash. `TargetContract` would reject the crash, but no code path closes a target, so the run does not close the rbd image.
- **MemTarget has no LBA range check**, and the controller passes the host's LBA through (mem.go:29). A request past the buffer panics the process. `TargetContract` catches this at once when a memory request past the buffer is added, so the run sends the memory target none.
- **TestableTarget rejects a request that ends at its last block** (`>=`, testable.go:46), and **FileTarget grows the image on a write past its end** (file.go:50), where an rbd image refuses it. The model reproduces both; no property claims a bound the spec does not state.
- **The DeleteVolume API asserts the target is a `*FileTarget`** after RemoveSubSystem (cmd/nvmed/main.go:330). The assertion panics, because the target is a `*WorkQueue`. net/http recovers the panic, so the process keeps running, but the target is never closed and the volume's files stay in `./data`. Nvmed reaches the consequence: after `DeletePanic`, a `Restart` registers the deleted volume again. Even without the panic, the image would not be removed: the loop looks for the key "image" and the target reports "Image". No property claims that a deleted volume stays deleted, since spec.md leaves the volume API out of scope.
- **CreateVolume persists before it registers** (main.go:271). A failure or an exit between its steps leaves an image with no `.json`, or a torn `.json`. It can also leave a volume that the next start registers although the call was answered 400, or not at all. `RegisteredIsDurable` and `AnsweredIsServed` check that the order of the steps keeps the registry and the files consistent.

Deadlock checking is off only in these runs:
- `session`, which includes the mid-PDU close: the controller then really stops, with the drain blocked forever.
- `client_faults` and `client_monitor_race`, where the bugs above really block goroutines forever.
- `server_remove_race`, a safety check, and `nvmed_volumes`: `ServeHang` and a second Connect leave RemoveSubSystem holding Server.Lock forever, and every handler that needs the lock then really stops.

The `live` and `client_live` runs check deadlock. Their only stopping states are the `Terminated` stutter, reached after every goroutine has returned (or after `os.Exit`). The discovery runs also check deadlock; their only stopping state is the `Exited` stutter after a crash. `targets_contract` checks deadlock too: its only stopping state is the `Quiet` stutter, once every request is completed.

### Fairness

- **Controller:** weak fairness on the receive loop and on the CompletionHandler. Each is a goroutine the Go scheduler runs whenever it is not blocked.
- **Backend:** weak fairness on `Backend(s)` for each slot. Every target in `src/targets` calls `Complete` for every request it accepts.
- **Client:** weak fairness on each caller, the transmitter, the receiver and the monitor, for the same reason.
  - `TargetAnswer` is also weakly fair. The controller answers every command it receives, which is what `EveryCommandAnswered` checks.
- **Targets:** weak fairness on each worker's `Receive` and `Run`, on a blocked sender's `Unblock`, and on Close's `Drain` and `CloseHandler`. These are goroutines that proceed whenever the channel lets them.
- **Server:** weak fairness on each session goroutine, on RemoveSubSystem's steps and on `Server.Close`'s wait. No run checks a liveness property of the server: RemoveSubSystem may really never return (see the hazards above).
- **nvmed:** weak fairness on the steps of a CreateVolume or DeleteVolume handler once its request has arrived. Each handler is a net/http goroutine. Requests arriving and the process restarting are not fair.
- **No fairness** for hosts, the application or the API. They may stay idle, keep a connection open, or never call Close.

### Mutants

Each property of a passing run is broken by one plausible bug in a mapped definition:

| Mutant | Property it breaks |
|---|---|
| SQHD without wrap | TypeOK (controller) |
| Reset keeps the scatter list | ResponseIntegrity |
| Recycle without `Put` | PoolConservation |
| Reset keeps NoReply | EveryCommandAnswered |
| EOF retried instead of `break` | CloseDrains |
| QueueCapsule ignores the channel capacity | TypeOK (client) |
| CID recorded after the increment | NoUnknownCid |
| Release does not put the descriptor back | EveryCallReturns |
| UnRegisterSession without the lock | NvmedTypeOK |
| The range does not skip the discovery subsystem | TypeOK (discovery) |
| The entry index without the `- 1` | ReplyIsLogSlice |
| `CapsuleCommand.Unmarshal` reads D10 as two bytes | ConnectRoundTrip |
| The channel send buffers past its capacity | TypeOK (targets) |
| `Work` receives once, before its loop, and re-runs the same request | TargetContract |
| CreateVolume ignores the error of `os.WriteFile` | RegisteredIsDurable |
| The startup does not reload `./data` | AnsweredIsServed |

## Not modelled (yet)

- **Payload contents, identify data and the target's log pages.** NvmeController abstracts them to tags. WireCodec models the codec and the Connect and discovery layouts. The PDU header, IC and transport records, the identify layouts and `serialize_counted.go` are not modelled. Nothing calls `NewSerializer`.
- **Client connection setup, AdminQueue round trips and the C2HTermReq branch.** These run before the goroutines start, or are single request/response exchanges through the same queue.
- **The targets' constructors** (option parsing, `rbdConnect`) are setup I/O before a target exists. Target data contents, `GetSize` and `GetRuntimeDetails` are read-only or data. In NvmeController a target is still the `BackendComplete` step; Targets models the targets on their own, against the contract.
- **Logging, the API client and the CLIs** (`src/api`, nvmectl, profile, synthetic). These are output, configuration and request glue.
- **nvmed's read-only handlers and targets.yaml.** ListVolume, GetVolume and the HTML pages only read the registry under the lock. The configured subsystems are registered once, before anything is served. A configured target that fails to open panics the process there (main.go:131), before any volume is reloaded or any request is served, so no state is left for a property to relate.

## Plan

1. **`NvmeSession`.** The client queue and the controller over one connection, with an abstract command-service specification (each submitted command answered once, with its own data) shown implemented through `INSTANCE ... WITH`.
2. **Targets under the controller.** Compose Targets with NvmeController, so that a blocked `WorkQueue.Queue` blocks the receive loop.
3. **The target subsystem's identify and log pages** through WireCodec, including the CommandsSupported overlap.
4. **More controller properties:**
   - the negotiated queue depth (SQSIZE 0xFFFF wraps to 0);
   - re-enable after shutdown;
   - FabricResponse of value-less commands.
5. **The PDU framer's byte layout** (header, padding, data offsets) through WireCodec.
