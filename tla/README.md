# TLA+ verification of the tri-fusion camera

The repository is the software of a camera with a visible-light sensor and a
combined low-light/thermal sensor on a Rockchip board. This directory holds
TLA+ models of the parts of it that are concurrent, that talk to unreliable
hardware, or that keep state over long sequences of calls, TLC runs on small
instances, and proofs checked by TLAPS.

    tlc -workers 2 -config MCMode.cfg MCModeSwitch
    tlapm MainStreamProofs.tla

`PROJECT.json` lists the components, the runs, the source lines behind each
definition, a mutation per property, the findings, the hazards and the
theorems.

## 1. The system

Two programs share the lower layers:

* the **board-side control program**
  (`tests/l8_private_gstreamer_control_probe.cpp`, the one the repository's
  `README.md` describes): an HTTP control port, a `gst-launch` child that
  carries the video, and the serial line to the composite sensor;
* the **layered program** (`src/main.cpp`): configuration -> devices -> mode
  manager -> media pipeline -> cameras, with a main stream from which a UDP
  publisher takes frames. Protocols, command bus, RTSP server and event bus
  belong to its layers and are exercised by the repository's probes.

| Component | State | Operations | Interacts by | Correct when |
|---|---|---|---|---|
| Main stream (`media/stream`) | bounded deque, running flag, counters | push, waitFrame, start, stop, clear | shared by the worker and the publishers, mutex and condition variable | newest frames kept, none repeated, every one accounted for, no waiter forgotten |
| Sensor controller (`device_control`), serial port | port, cached mode, error counters | register read and write with retry | bytes on a serial line | success means applied, a read is of the register asked for, calls return |
| Video child (`media/gstreamer`) | pid, exit code | start, stop, isRunning | fork, signals, waitpid | one child at most, never lost, stop tells the truth |
| Private control server (`protocol/private`) | running flag, socket, cached status | accept loop, five requests | callbacks into the program | answers match what was done; it stops |
| Control program (probe) | mode, configuration, mutex | main loop, signal, three callbacks | the three above | a switch is complete or undone; Ctrl+C ends it |
| Main program (`main.cpp`) | what is initialised, `g_stop` | nine steps of start, loop, shutdown | calls the components | every failure undoes what was done, in order; listed modes start; Ctrl+C ends it |
| Mode manager, executor, planner (`mode`) | stage, current mode, pipeline | switchTo, stop | under `mutex_`, calls the layers below | what it reports is what runs |
| Media pipeline (`media/pipeline`) | worker thread, stop flag | init, start, stop, loop | cameras, encoder, main stream | the worker ends before its pipeline |
| Cameras, V4L2 (`device`, `hardware/v4l2`) | descriptor, streaming flag, buffers | open, start, readFrame, stop | driver ioctls | streaming exactly when used; a read returns |
| MPP encoder (`hardware/mpp`) | context, buffers, extra data | init, encode, release | vendor library | nothing leaked, key frames decodable, packets labelled as their picture |
| Command bus and handlers, services | counters | submit | called in the protocols' threads | a command returns |
| Protocol ownership (`protocol`, `service`) | active protocol, owner, endpoints | acquire, release, start, stop, execute | mutex | one protocol at a time; ownership has a reason |
| Protocol configuration store | configuration, files | load, update, save | mutex, files written outside it | memory and file agree, a crash leaves a usable store |
| UDP publisher | thread, ffmpeg child, pipe | start, stop, sender loop | main stream, fork, pipe | whole frames in order; it stops; ffmpeg is not left |
| RTSP server | accept and client threads, sockets | start, stop, session requests, streaming | sockets, shared frames | no thread and no socket left after stop; packets carry the picture's scan, tables and size |
| Event bus, thread pool, blocking queue | subscribers, queue, threads | subscribe, publish, shutdown | callbacks outside the lock | each callback once, and overtaken only by what another thread had popped; shutdown returns |
| Frame queue and synchroniser | deques | push, pop, close; trySync | two threads; none yet | newest kept, no wake-up lost; pairs within the bound, closest, in order |
| Configuration manager, YAML reader (`foundation/config`) | flat keys, five sections | loadAll | files, at startup | keys are paths; what is accepted is valid and of one directory |
| Fusion, MPP decoder, RGA, codec nodes, GB28181, ONVIF, UVC, network, RKNN, status services | | | | not modelled, see section 7 |

Hard to test here: a publisher that sleeps while the stream changes; answers
on the serial line that come after their timeout; a child process that ends
between two looks; a mode switch that fails half-way; threads joined with a
mutex held; buffers the driver hands back; a frame cut in the middle of a pipe;
clients accepted while the server stops; a crash between emptying a file and
writing it; an encoder whose packet comes late. The list with lines is in
`PROJECT.json` under `hazards`.

## 2. Modules

| Module | What it models |
|---|---|
| `FrameFeed` | abstract: what publishers may rely on (frames newer each time; only the newest in low latency) |
| `MainStream` | the main stream; implements `FrameFeed` |
| `SensorLink` | sensor controller, serial line and (external) sensor |
| `GstProcess` | the `gst-launch` child and its handle; also what `PrivateGateway` is proved to implement |
| `PrivateGateway` | the control program: main thread, server thread, `GstProcess` (EXTENDS), sensor by contract |
| `ModeSwitch` | commands, mode manager, executor, pipeline worker, cameras, buffers |
| `UdpPublisher` | sender thread, pipe, ffmpeg children |
| `MainProgram` | `main.cpp` around the publisher (EXTENDS `UdpPublisher`) |
| `RtspServer`, `RtpJpeg` | the server's threads; the JPEG parser and the RTP packets |
| `EventBus` | event bus, thread pool, blocking queue |
| `FrameBuffers` | frame queue and frame synchroniser |
| `MppEncoder` | the hardware encoder over the (external) library |
| `ProtocolAccess` | protocol manager, service and adapters: who owns the device |
| `ConfigStore` | the protocols' configurations in memory and on disk |
| `SystemConfig` | YAML reader and `loadAll` |
| `MainStreamProofs`, `SensorLinkProofs`, `ModeSwitchProofs` | theorems about the module of that name |
| `PrivateGatewayProofs` | theorems about `GstProcess` and `PrivateGateway` |
| `MainProgramProofs` | theorems about `UdpPublisher` and `MainProgram` |
| `ThreadsProofs` | theorems about `RtspServer` and `EventBus` |
| `ConfigurationProofs` | theorems about `ProtocolAccess`, `ConfigStore` and `SystemConfig` |
| `MediaProofs` | theorems about `FrameBuffers`, `MppEncoder` and `RtpJpeg` |
| `MC*` | instances for TLC; `MCThreads` and `MCData` put independent components into one run |

### MainStream

Every method of the class holds `mutex_` for its whole body and is one action.
`waitFrame` gives the mutex up while it sleeps, so it is split into
`WaitFrame` (test the predicate, take a frame or sleep), `Wake` (a notified
thread tests again) and `Timeout`. The condition variable is explicit: only
`NotifyAll` moves a thread from asleep to notified, so a missing
`notify_all` is a lost wake-up in the model. A frame is its number in push
order. `delivered`, `taken`, `cleared`, `stopMark` and `staleTaken` are
history variables.

### SensorLink

One call at a time (the callers hold `pipelineMutex` or the mode manager's
mutex): `Begin`, then `Send`/`SendFail` and `ReadDone`/`ReadFails` per attempt.
Bytes are modelled one by one: a byte is a pair of the answer it belongs to
and its place in it, so that a read of 10 bytes can end inside an answer of
12 and everything after it is out of step. Parsing compares header, length,
command, status and checksum, which accepts exactly one whole undamaged
positive answer of the right kind; answers carry no register address. The
sensor (`Device`, `CommandLost`, `Arrive`) is external: it executes or
rejects, and its answer may be damaged, short or lost. `CleanLine` restricts
`ReadFails` to lines on which nothing is still under way, that is, no answer
is late.

### GstProcess

`pid_` and the kernel's view of each child (`alive`, `ended`, `reaped`). The
operations are split at their waits (100 ms after fork, the bounded waits
between SIGINT, SIGTERM and SIGKILL); a child may end at any time and may
survive every signal within the wait.

### PrivateGateway

Program counters for the main and the server thread, `pipelineMutex`,
`running_`, the listening socket, the mode as the probe, the server's status
and the sensor know it. Callbacks are split at every call that waits, so the
main thread, the signal, clients and the child act in between. The socket
follows the system's behaviour: `close` does not wake a thread in `accept`.
The sensor is used by its contract: a call that succeeded is applied
(`SuccessIsApplied`), one that failed may be. Four of the seven modes are
used: both sources and the three outputs of the sensor. The source of a mode
is the built-in map of `GStreamerPipelineConfigManager`. The program counters
`stopDead`, `closeDead`, `joinDead` are the exit with the mutex held after the
video has died. `VideoFollowsMode` also says that `start()` is never called
over a running child; `OrderlyShutdown` joins three parts: the controller
outlives the callbacks, at most one request is served after `stop()` began,
and one thread at a time operates on the video.

### ModeSwitch

Threads of the protocols submit `SET_WORK_MODE`, `START_STREAM` and
`STOP_STREAM`. A switch runs under `mutex_` through plan, stop (`Halt`,
`Join`), fusion mode, sensor, cameras (`Open`), pipeline (`Build`, `Start`),
and can fail at each; `Fail` is `markError`. Deleting a pipeline that did not
start runs its `stop()`, so these failures stop cameras and stream too. The
handlers' own start and stop of the stream happen outside the mutex
(`Stream`). The worker loops through `WorkerLoop`, `WorkerRead`,
`WorkerPush`. Each camera has its count of buffers in the driver and a flag
that STREAMOFF handed them back. The V4L2 behaviour is the documented one of
videobuf2: STREAMOFF dequeues all buffers, and until one is queued again
`poll` returns at once with POLLERR while a blocking VIDIOC_DQBUF waits. The
planner's configuration can override the sensor output of a mode; the model
has the defaults.

### UdpPublisher and MainProgram

The sender thread (`SenderLoop`, `SenderPull`, `SenderWrite`) and the control
thread (`PubStart`, `PubCheck`, `PubStop`, `PubJoin`) share `running_`,
`childPid_` and `writeFd_` without a lock, as the code does. A frame is written
in pieces, since `write()` takes what fits; a pipe is the sequence of pieces
its child has not read. A child is `unborn`, `running`, `zombie` or `reaped`,
and keeps the last piece it has read, which is what `WholeFrames` looks at.
ffmpeg itself (`FfmpegReads`, `EndOfInput`, `FfmpegEnds`) is external.
`MainProgram` adds `main()`: its nine steps, for each the list its failure path
shuts down, the signal, the loop and the shutdown; the components other than
the publisher are up or not. `told` is the part of ffmpeg's arguments that
depends on the mode and on the cameras' formats.

### RtspServer and RtpJpeg

The thread that owns the server (`keeper`), the accept thread and one thread
per connection. `stop()` shuts the listening socket down, which wakes
`accept`, and then joins every thread of `clientThreads_`; a client's socket it
does not know. `TEARDOWN` closes the socket on its own way out.
`RtpJpeg` walks over the markers of a picture, one per step
(`ParseSegment`), then sends the scan in packets (`SendPacket`). A picture is a
sequence of bytes built from the segments a camera writes, with padding, gaps
and a truncated end; `touched` records the furthest byte read. A packet has its
sequence number and marker, the fields of the JPEG payload header (offset, type,
Q, width and height in blocks of 8, cut to a byte each), the tables if it has
them, and its piece of the scan. The version, the timestamp and the SSRC, the
same in all packets of a frame, are left out.

What `RtpSafe` claims is that the picture's scan, its tables and, where it is a
whole number of blocks below 2048, its size arrive in the packets, and that the
packets of a frame agree with each other. It does not claim that a receiver
decodes the picture, because of what the code puts into three fields:

* type is 0 for 2x2 sampling and 1 for all else, the reverse of the types of the
  RFC 2435 that the code names (`RtspServer.cpp:615`);
* Q is 128 (tables follow) in the first packet and 75 (standard tables) in the
  others of the same frame;
* a width or a height of 2048 and more wraps (one of the pictures of the run is
  2056 wide), and so does an offset of 2^24.

For TLC the sizes are scaled: tables of 2 bytes for 64, packets of 28 for 1400,
sequence numbers modulo 4 for 2^16, offsets modulo 8 for 2^24. All are
constants, and the proofs are about any table of 1 to 64 bytes, any packet size,
any moduli and any scan. `RtpAssumption` asks of a scan only that its bytes are
no end-of-image marker, as JPEG's byte stuffing ensures.

### EventBus and FrameBuffers

Callbacks are copied under the lock and called, or queued for the pool, after
it is released (`Publish`, `Deliver`); the pool's threads take tasks from the
blocking queue, which is closed by `stop()` and never opened again, as in the
code. Taking a task (`WorkerPops`, under the queue's mutex) and beginning its
call (`CallBegins`, without a lock) are two steps, so two threads of a pool can
begin two callbacks of one event in the other order. `called` records for each
event which callbacks were begun, in order, and by whom. `SubscriptionOrder`
says what is left of the order of subscription: one caller keeps it, so a bus
without a pool (`eventBus.init(false, 1)` in `main.cpp`) and one with a pool of
one thread do; and in a larger pool a callback can be overtaken only while it is
between `pop()` and its call, never while it is still queued or has still to be
published.

In `FrameBuffers` the queue's `push`, `pop` (with and without timeout), `close`
and `clear` are actions over an explicit wait: `asleep` is set when the consumer
finds nothing to pop, and only a notification (or the timeout) lets it look
again, so a missing `notify_all` in `close()` would be a consumer that sleeps on
a closed queue (`SleepsOnlyWhileEmpty`, a part of `QueueSafe`). The
synchroniser's `trySync` is translated with its choice of the closest pair and
its dropping of fronts.

### ProtocolAccess, ConfigStore, SystemConfig

The owner of the device is one name, not a count: the manager acquires it for
a session, each command acquires it again and its `ScopedProtocolOwner`
releases it for both. `ConfigStore` keeps memory and files apart: `load()`
reads and an update writes its file outside `mutex_`, opening a file empties
it, and `Restart` may come between any two steps. `apart` is the history of
endpoints whose updates overlapped. Texts are sequences of characters, of the
five kinds the code tells apart (a space, a quote, a `#`, a line break, any
other), and go through what the code does to them: `quote()` puts quotes around
a text without escaping anything, `parseSimpleYaml` cuts the line at the first
`#` and trims it, `unquote` takes the quotes if both are still there. A text
with a `#` therefore comes back cut, with its opening quote, or empty if it
began with a quote; a text with a line break makes further lines, which can set
any key of the file, so what such a file is read as is a constant (`Spilled`).
Both pass `checkNotEmpty`. `AlwaysUsable` promises a file that loads for texts
without them, and the instance has texts of both kinds that make the next
`load()` fail.
`SystemConfig` reads a file line by line
with its stack of sections, and loads five sections one after the other,
stopping at the first that is missing or invalid.

### MppEncoder

`init`, `encode` and `release` with every library call that may fail, counts
of the library's objects, the pictures put and not yet got, and the search for
NAL units by start codes. A missed packet stays in the hardware, and labels
are off from then on until the next `init`; `missed` records it.

## 3. Runs

| Run | Checks | Bounds |
|---|---|---|
| `mainstream_buf` | types, no lost wake-up, queue is newest, stale frames bounded, waiters released by stop, implements `FrameFeed` | a timed and an untimed publisher, five pushes, two frames per second of capacity: enough for a full queue, drops, and stop with both asleep |
| `sensor_clean` | success is applied, reads are faithful, the cached mode mirrors the sensor, calls return | two modes, one more register, two attempts, three calls, all faults; two modes tell a stale answer from a right one |
| `sensor_stale` (violation) | success is applied, with late answers | two calls, so that one inherits the other's answer |
| `gateway` | a switch answered with ok is complete, video follows the mode, no orphaned child, stop tells the truth, shutdown order; Ctrl+C ends the program when clients go on connecting | three children (the first, a switch, its restore), two requests before the shutdown and any after, the video may crash |
| `gateway_ctrlc` (violation) | Ctrl+C ends the program | two children, one request |
| `gateway_dead_video` (violation) | the program ends when the video has died | the same |
| `gateway_sensor` (violation) | a composite video runs with the sensor in its mode | the same |
| `mode` | worker never without its pipeline, cameras stream exactly for the pipeline, the reported stage is true, every command returns | two threads, two switches, two stream commands, two buffers; one mode of each kind and one disabled |
| `mode_restart` (violation) | `readFrame` returns | two switches, so that a camera is used twice |
| `threads` | publisher: whole frames, pipes, sender confined, stop returns, ffmpeg noticed and not left; main program: components go up and down in order, ffmpeg is told what is pushed, Ctrl+C; RTSP: nothing left after stop, sockets closed once, stop returns; bus: called once, overtaken only between pop and call, shutdown returns; frame queue: newest kept, no wake-up lost | two children (a restart), three frames of two pieces in a pipe of three (a partial write); two connections and two starts (accept during stop, and again); one publisher, two subscriptions and events, pools of 0 and 2 threads (callbacks in the publisher, callbacks that overtake each other), two inits; capacity 2 |
| `data` | RTP packets carry the picture's scan, tables and size, and nothing outside the frame is read; one protocol at a time; store usable after a crash and its memory kept, if its texts are plain; YAML keys are paths; accepted settings are whole; encoder leaks nothing and labels rightly; pairs are the closest | pictures with empty, stuffed and two-packet scans, one too wide for a byte, and three kinds of truncation; two callers; two writers, two endpoints, four calls, eight texts with each special character; four lines at three indentations; two loads; four pictures, two inits; capacity 3, times to 5 |
| `main_modes` (violation) | the modes `main` lists can start | the publisher's bounds; camera formats the program understands |

In `threads` and `data` the first state chooses one part and only that part
moves, so the state space is the sum, not the product, of the parts. A
component's properties are a conjunction of named parts (for instance
`PublisherSafe == PubTypeOK /\ WholeFrames /\ PipeOfChild /\ SenderConfined`).

One publisher is enough for the event bus in `threads`: publishers share the
subscribers, which each copies under a mutex, and the queue, which each appends
to under another; what two events can do to each other in the queue and the pool
one publisher that publishes twice does as well. The theorem is for any number.

`mode` starts with the sensor in one fixed mode when the sensor switch is
skipped by the environment variable: nothing looks at the sensor then.

Deadlock checking is off where the program ends (`gateway_*`, the main program)
or the bounded commands run out (`mode*`, `threads`, `data`, `main_modes`).

### What the violations show

1. `sensor_stale`: a late acknowledgement is taken for the answer to the next
   command (`CompositeSensorController.cpp:337`): nothing discards old bytes
   before a command is sent. `README.md:120` promises success according to the
   returned status.
2. `gateway_ctrlc`: `PrivateControlServer::stop` closes the socket and joins a
   thread that is blocked in `accept` (or in `recv` of a silent client).
3. `gateway_dead_video`: when the child has died, the main thread joins the
   server thread with `pipelineMutex` held; a callback waiting for that mutex
   never returns.
4. `gateway_sensor`: the first video is started without switching the sensor.
5. `mode_restart`: buffers are queued only when the device is opened; after
   STREAMOFF and STREAMON `readFrame` blocks for ever, and the next switch or
   stop joins the worker with `mutex_` held.
6. `main_modes`: `main.cpp:153` gives the pipelines no encoder, so of the modes
   its usage text lists only VISIBLE_ONLY can start. With the `yuy2` that
   `configs/camera.yaml` names for the composite camera, `main` fails earlier
   still, since `makeCaptureFormat` does not know that spelling; the run leaves
   it out to show the encoder.

## 4. Fairness

* `MainStream`: a notified thread runs, and a timeout expires (weak fairness
  of `Wake` and `Timeout`). Nobody has to push, start or stop.
* `SensorLink`: the calling thread goes on (its reads have timeouts), and a
  byte under way arrives or is lost. Nothing else is assumed of the sensor.
* `PrivateGateway`: the two threads go on, waits of the child end by timeout.
  Strong fairness for the acquisitions of `pipelineMutex`: the main thread
  sleeps 300 ms between two of them, so a waiting thread gets the mutex.
  Nothing is assumed of clients or of the signal; `BusyFairSpec` adds clients
  that connect and finish what they began.
* `ModeSwitch`: threads and worker go on, and the mutex is given to a thread
  that waits for it again and again. `CommandsReturn` has a premise: the worker
  is not for ever in a `readFrame` that does not return, which `mode_restart`
  shows it can be.
* `UdpPublisher`: both threads go on; an ffmpeg reads its input up to the end
  of file and ends then. Without it `stop()` does block, as `writeAll` has no
  timeout. The stream service need not deliver.
* `MainProgram`: `main` goes on, and its loop ends once the signal is there;
  the signal itself need not come.
* `RtspServer`: the server's threads go on; a peer the server waits for does
  not stay silent for ever, but sends, reads or goes away. With a client that
  stays silent, `stop()` waits: the code has no timeout on a client's socket.
  No frame need ever come.
* `EventBus`: the threads go on and callbacks return.

## 5. Proofs

The theorems hold for every value of the constants allowed by the modules'
assumptions: any set of publishers, any capacity, any registers, modes and
number of attempts, any number of children, threads, requests or connections.

* **MainStreamProofs.** The inductive invariant is the conjunction of the
  types, `NoLostWakeup`, `QueueIsNewest`, `FramesAccounted` (which is proved,
  and therefore no property of a run), and two links: what was delivered is
  older than everything queued (for the refinement), and the stale frames
  handed out plus the stale frames still queued are at most the capacity
  (`StaleBounded` alone says nothing of what is still in the queue, so it is
  not inductive). `QueueIsNewest` ties the contents of the queue to `framesIn`,
  from which the order of deliveries follows. `ImplementsFeed` maps each step
  to `Publish`, `Deliver` or a stutter.
* **SensorLinkProofs.** `LinkTypeCorrect` needs no assumption on the line.
  The other three assume `CleanLine`. The invariant says what a clean line
  looks like in each phase: idle and before a send, line and buffer are empty;
  during a read, there is the command, or an answer (whole, damaged or a
  prefix) of the command under way, and a positive answer on the line implies
  that the command's effect is in the registers. An answer never outlives its
  attempt, which is what `AppliedOnSuccess` needs and does not say itself.
  Retries are harmless since a command carried out twice changes nothing
  (`EffectFacts`).
* **PrivateGatewayProofs.** For the child alone, `NoOrphan` is inductive with
  the types and the fact that children not yet forked do not exist, and
  `StopTrueMeansGone` follows from it step by step. Every step of the control
  program is a step of
  `GstProcess` or leaves its variables alone (`UsesGstProcess`), so `NoOrphan`
  and `StopTrueMeansGone` carry over without being proved again. The invariant
  for the rest adds to the types: who holds `pipelineMutex` at which program
  counter (`MutexOK`), when the server thread is there at all (`ServerOK`),
  which mode the video shows at each point of a switch and of its restore
  (`VideoOK`), and what has already been applied when a callback is about to
  answer ok (`SwitchOK`). The properties speak of the ends of a switch only;
  these say what holds inside it.
* **ModeSwitchProofs.** At most one thread is between lock and unlock
  (`MutexOK`). With the mutex free, pipeline, worker and cameras agree
  (`Between`); the thread that holds it is at a label at which a stated part
  of the old or the new pipeline is left (`During(t)`). `WorkerHasPipeline` and
  `CamerasMatchPipeline` follow in both cases, through every failing step.
* **MainProgramProofs.** `WholeFrames` is about what a child reads; the
  publisher's invariant adds `InStep`, that the last piece in the open pipe is
  the one before the piece the sender writes next, and that only an unborn child
  has nothing behind it. The sequences are handled by lemmas on appending and
  taking one piece. `MainInv` extends this to `main()`: a height is assigned to
  each place of the program and the components that are up are those below it
  (`UpAt`, `DownFrom`), while an exit goes on with exactly the list that is left
  (`GoingUp`, `Looping`, `GoingDown`, `Gone`). `MainSafe` looks at what is up
  and at the exit, never at the list, so it cannot tell that the list still
  names everything that is up. For
  `ToldWhatIsPushed` the invariant keeps the arguments next to the child that
  was started with them (`Argued`, `Piped`).
* **ThreadsProofs.** RTSP: a connection in the state of being accepted belongs
  to an accept thread that has not been joined, and every live client thread is
  in `clientThreads_` or about to be put there; so joining both leaves nothing.
  Event bus: what was called, what threads have popped, what is queued and what
  a publisher still has to deliver follow each other. Queue and publishers are
  each in the order of subscription (`Increasing`, `StagesInOrder`), and a
  publisher has events of its own (`OwnEvents`). `TakenInOrder` is the stage
  between `pop()` and the call: what a thread holds there is before all that is
  queued, after all that this thread called, and different from what any other
  thread holds or has called; nothing orders it against the others. `BusSafe`
  speaks of the calls made only. A running pool belongs to an initialised bus
  (`PoolOwned`), which gives that no thread is left after `shutdown()`.
* **ConfigurationProofs.** Ownership: all commands under way belong to the
  active protocol (also where several may be online), and an owner is a
  protocol that runs or has a command under way. The owner being a name and not
  a count does no harm beyond early release.
  Configuration store: besides the types, whoever is inside a save is the one
  that holds the lock (`SaverAlone`), and for each endpoint whose updates did
  not overlap the file agrees with the memory unless a thread is on its way to
  write just this (`Settled`, with `OneWrites`). That a restart finds what is in
  memory rests on two lemmas about the conversion: whatever was written, what is
  read is plain and has a port (`ReadSettles`, from `TextIsRead` for one text),
  and what is plain and has a port comes back as it was put in (`ReadPlain`), so
  reading twice gives the same as reading once.
  YAML: `StackRight` says that the stack holds the enclosing lines of the last
  line, with their indentations strictly growing; `ListRight` that the counter
  of a list is the number of its items so far; `FlatRight` that the keys given
  so far are the dotted paths. `KeysArePaths` is the third, and no step
  preserves it without the other two.
  Settings: `AcceptedIsWhole` is inductive with the types, since every load
  that `loadAll()` accepts sets all five sections anew.
* **MediaProofs.** `QueueSafe` as for the main stream (the wake-ups included), by adding to the order of
  the queue that what was popped is older than everything queued. `PairsRight`
  by the order in time of both queues: fronts that were dropped cannot be
  nearer to anything that comes.
  Encoder: `ScanTellsTypes` proves that the search by start codes finds exactly
  the NAL units that were put together, for any number and kind of units; the
  invariant adds that the hardware holds as many pictures as packets were
  missed, so a packet that arrives when none was missed is that of its picture.
  RTP: `Layout` says where each part of an encoded picture stands in its bytes.
  The invariant has three parts. `RtpTyped` holds for any frame, cut or broken,
  and bounds what the parser reads. `Understood` says for a complete baseline
  picture which part the parser stands at and what it has learnt by then, in
  the stages of the walk: the first table, the second, the gap, the frame
  header, the scan. `PacketsRight` says that the data sent so far are a prefix
  of the scan, cut at the packets' offsets, with consecutive numbers, and that
  every packet has the header that follows from what was parsed (`HeaderRight`).
  `Carried` joins the last two: what `Understood` gives at the scan is what the
  packets of a sent frame carry.

Sequences put together by `FlattenSeq`, a recursive function of the community
modules, are unfolded through its least counterexample: among the lengths for
which an equation failed there would be a smallest one (`LeastNumber`), which
contradicts the step from one length to the next (`FlatExists`, `FlattenIs`,
`FlatUnique`). In this form induction needs no theorem with an operator as its
parameter.

## 6. Only model-checked

Every invariant of a passing run is stated by a theorem. Left to TLC are:

* liveness (`StopReleasesWaiters`, `CallReturns`, `CtrlCExitsWithClients`,
  `CommandsReturn`, `PublisherEnds`, `InterruptEnds`, `RtspEnds`, `BusEnds`),
  which is outside the prover's fragment;
* the violations of section 3: counterexamples of one instance are all that is
  needed;
* that the contract by which `PrivateGateway` uses the sensor is the one
  `SensorLink` keeps: both sides have theorems, the composition has no module.

## 7. Not modelled

* The MPP decoder is a stub and RGA a wrapper of one library call; the codec
  and conversion nodes are functions of one frame: the pipeline sees success or
  failure.
* Fusion algorithms work on pixels, and no pipeline calls them in this version.
* GB28181 and ONVIF are skeletons of start and stop flags.
* `Worker` and `Timer` of the foundation are used by nothing in the program.
* UVC metadata, the network wrappers and RKNN are thin wrappers or stubs; the
  device and status services only read.
* The texts of RTSP and HTTP requests and responses, values in configuration
  files, formatting, logging.
* Unlocked reads of `ModeManager::state()`: a data race of strings that a model
  at this level does not add anything to.
* The wire checksum as arithmetic (a damaged answer is one the checksum
  rejects).

Two hazards have no property: the disagreement of the probe's mode and the
server's status after a failed start of the video, and the second stop of the
stream by STOP_STREAM outside the mutex. Both are what the code does and the
models have them, but nothing in the repository promises otherwise.

## 8. Plan

What is left, in this order:

1. Composition of `ModeSwitch` with `FrameFeed`: frames pushed by the worker
   across a switch, with STOP_STREAM's second stop.
2. An abstract specification of the configuration store (a map with atomic
   updates) and the conditions under which `ConfigStore` implements it, proved
   over `StoreInv`.
3. The safety half of liveness: from each waiting place the step that leads on
   is enabled, as an invariant over the program counters.
4. Closing and reopening of cameras in `ModeSwitch`, and saving the sensor's
   configuration in `SensorLink`.
