# Verification of the NDcode3 traffic relay

TLA+ models of the relay in `src/src` (the crate; the files at the top of `src/` with
the same names are byte-identical copies), TLC configurations that check them on
small instances, and TLAPS proofs for every value of the constants.

    tlc -config Upstream.cfg MCUpstreamPipeline      # and so on, see "Runs"
    tlapm PipelineProofs.tla                          # and so on, see "Proofs"

## 1. The system

The client reads IP packets from a TUN device, compresses and obfuscates them, and
writes them as length-prefixed frames to a TCP connection. The server accepts
connections, verifies a signed handshake header, reads frames, removes obfuscation,
decompresses, and hands packets to a writer (at present `tokio::io::sink()`).

| part | source | state it keeps | operations | what is hard | what makes it correct |
|---|---|---|---|---|---|
| upstream pipeline | `pipeline/mod.rs:24-84`, `net_transport.rs:5-16` | two bounded channels, three tasks, TCP write half | read TUN, encode, write frame, shut down | shutdown task by task, back-pressure, write error or codec panic at any await, torn frames | TCP gets a prefix of the TUN stream; loss is bounded; no loss without a fault; it returns; a stalled peer stops the intake |
| downstream pipeline | `pipeline/mod.rs:86-162`, `net_transport.rs:18-29` | as above, TCP read half | read frame, apply feedback, unwrap or fall back, decode, write TUN | three kinds of frame told apart by trial, ordering of feedback and data, shutdown | order; late frames stay out; feedback once; it returns |
| key manager | `pipeline/key_manager.rs` | primary id and keyring, each behind a lock of its own | register, rotate, revoke, get primary, get by id | two-lock operations interleave | the primary key is in the keyring |
| handshake | `pipeline/auth.rs` | none | client signs and writes, server reads and verifies | keys change between any two steps at either end, no answer, no timeout | refusal only for cause; no session on the empty key |
| gradient mesh | `pipeline/gradient_mesh.rs` | peer table behind one lock | register, unregister, make and apply feedback, select | signed values in unsigned fields, limits, several reporting peers, clients of one id | limits, direction of every move |
| obfuscator, engine | `pipeline/obfuscation.rs`, `ndcode_tun_engine.rs` | none | pad, stamp, verify, class of a packet | quantised clocks, 16-bit length, block boundaries, fallback | timely frames restored, late ones not |
| client mode | `main.rs:223-272` | one socket, both pipelines | connect, handshake, relay, join | both ends wait for each other's close; the network fails; the engine refuses; frames grow old in the client's own queues | neither waits for ever; frames read at a sufficient pace are in time |
| server mode | `main.rs:274-315` | accept loop, a task per connection, shared engines | accept, verify, register, relay | silent clients, socket limit, errors of accept and of a connection | clients are independent; nothing unverified gets in |
| startup, wizard, Wintun loader, service | `main.rs:24-221`, `config.rs`, `disclaimer.rs`, `win_wintun.rs`, `script/ntors.service` | configuration file, wintun.dll, OS settings, executable's capabilities | disclaimer, loader, wizard, parse, TUN | killed in the wizard or in the middle of a write, no terminal, restarts | nothing before consent; wizard and loader passed over only for a file that exists |

The parts interact by channels (stages of a pipeline), by the TCP stream and its
closing (client and server; the server never sends a byte), by shared engines behind
locks (mesh, keys), and by what a start leaves on disk for the next one.

`PROJECT.json` lists every part under "components" and everything that is hard to
test, at its line, under "hazards", with the properties that would catch it.

## 2. The modules

    PrefixFifo (abstract)          one direction of the relay
      ^ implemented by UpstreamPipeline, DownstreamPipeline (both extend PipelineStages)
      ^ implemented by RelayPath = two PrefixFifos and the queue of frames between them
    Keyring (abstract)             keys with atomic operations
      ^ implemented by KeyManager until two administrators race on one key
      ^ used by Handshake, one for each end
    GradientMesh   FrameCodec   RelayServer   RelaySession   Startup

| module | stands for | how state and actions correspond |
|---|---|---|
| `PipelineStages` | the loops that `mod.rs` writes twice | `pc[s]` is the await at which task s is suspended, `hand[s]` its local packet, `first`/`second` the mpsc channels, `out` what the egress task has written. One action per stretch between two awaits. A channel end lives as long as the task that owns it, so "receiver gone" is `pc[s] = "done"`. `dropped` is what was kept back by decision: refused by the engine, or applied as feedback. |
| `UpstreamPipeline` | `spawn_upstream_pipeline`, `send_framed_payload` | the steps of `PipelineStages` that it takes; a frame is three awaits: length, payload, flush |
| `DownstreamPipeline` | `spawn_downstream_pipeline`, `recv_framed_payload` | adds the frames read, of three forms. A wrapped frame has an age when it is read, and whether it is unwrapped or handed on as it is follows from it |
| `PrefixFifo` | the promise of one direction | accept, drop one, deliver the oldest |
| `KeyManager` | `DynamicKeyManager` | one action per lock taken: `RotateChecks` / `RotateSets`, `RevokeChecks` / `RevokeRemoves`, `ReadsPrimaryId` / `ReadsPrimaryKey`; what was read under the first lock is in `arg` |
| `Keyring` | what a caller relies on | install, promote, retire, each one step |
| `Handshake` | `client_handshake`, `server_handshake` | each end has a Keyring that may change at any time; a signature is the key it was made with |
| `GradientMesh` | `GradientMeshEngine` | one action per method, because each holds the only lock throughout; a packet names its sender (`node_id`) and moves the peer of that name, whatever connection (`Links`) it came on; real numbers are exact thousandths; gradients travel in 16-bit fields |
| `FrameCodec` | engine + obfuscator + reader | a packet's length, class and header through both ends, with two clocks that differ |
| `RelayPath` | client -> TCP -> server | the two pipelines replaced by the PrefixFifo that each implements; between them one bounded queue of stamped frames with their ages: the rest of the client's pipeline behind `obfuscate`, and the socket buffers |
| `RelayServer` | `run_server_mode` | accept loop, task per connection, clients that stop anywhere; accept, a handshake and the codec may fail at any time |
| `RelaySession` | `run_client_mode` and its server task | how closing travels through both pipelines and the socket; packets are counted; the engine may refuse or panic, and the network may fail the connection at any time, after which either end may get an error or wait for ever |
| `Startup` | `main` up to the relay, the loader, the service unit | a start as a program counter, by a user or by the service manager; file, DLL, sysctl and capabilities persist between starts |

`PacketSequences` says what all pipelines need to say of a sequence of packets
(`Increasing`; what it holds is its `Range`, from the community modules). `MC*` modules give the constants of the runs. Operators introduced by a
comment "Slip:" are plausible mistakes in the definition after them; they are in no
specification and serve to show that the properties can fail.

### Abstractions

- A packet, a key, a connection is a number or a model value. Contents matter only
  in `FrameCodec` (lengths, class, header) and `GradientMesh` (fixed-point numbers;
  the rounding of `f32` is left out).
- tokio tasks interleave at awaits only, which is where the actions are cut; mpsc
  channels are bounded queues whose ends vanish with their owners. Dropping a task's
  channel end drops what is queued in it.
- The codec restores what it encoded, refuses, or panics, at any packet.
- HMAC: a signature verifies against exactly the key that made it. Nonces are
  written and never looked at by the code, and are left out.
- TCP is reliable and ordered until it breaks. A write cut short inside the length
  prefix or inside the payload leaves the reader as stuck as one cut before it.
- `RelayPath` counts time in ticks. Between `TimelyAge` (6 windows) and `LateAge` (7) the
  verdict on a frame depends on where in its window it was stamped, and is a choice.
- A file write (wintun.dll, `ndcode_config.json`) is two steps, creation and filling;
  a start may be killed and the write may fail in between. The program only ever asks
  whether either file exists.
- A panic of the codec ends one task, as in a build that unwinds. The release profile
  sets `panic = "abort"` (`Cargo.toml:44`): there it ends the process, which is
  `ServerStops` at the server and `ClientKilled` at the client; to `PipelineStages`,
  whose pipeline is gone with it, that is a stop.

## 3. Runs

All passing runs finish within two minutes. Deadlock is checked except where the
system may really stop: `RelayPath` (the session is over and the bound on packets
reached), `RelayServer` (every connection has ended or the process has), `RelaySession`
(both ends are closed), `Startup` (the last start allowed has ended). The two pipelines
have a `Terminated` step after their result instead, so that a deadlock before it shows.

| run | instance | what it shows |
|---|---|---|
| `upstream` | capacity 2, 8 packets | `IInv`; `BoundedLoss` (a stall or a fault costs at most what two channels and three tasks hold); refinement of `PrefixFifo`; `ReturnsAfterInputEnds`, `EveryPacketSettles` |
| `upstream_any_stage` | capacity 1, 3 packets | violated: `ReturnsWhenAnyStageEnds` |
| `downstream` | capacity 1, 5 frames, ages 6 and 7 windows | `FramesInv`, `NothingLateDelivered`, `FeedbackOnceInOrder`, `CleanReturn`, refinement of `PrefixFifo`; `ReturnsAfterInputEnds`, `EveryPacketSettles` |
| `key_manager` | two administrators, a reader, two ids, one key | `PrimaryLostOnlyInRace`, `EmptyKeyOnlyForOldPrimary`, `KeyringUnlessRaced` |
| `key_manager_two_admins` | the same | violated: `PrimaryInKeyring` |
| `gradient_mesh` | two ids, three connections (two of one id), three ratios, three packets, learning rate 5 | limits, `FeedbackKeepsItsSign` |
| `frame_codec` | block 64, 40 s, clock skews -2, 0, 31 s | `DataIsNotFeedback`, `TimelyRestored`, `LateRefused`, `PlainRestored` |
| `handshake` | one connection, two ids, two keys | `RefusedForCause`, `NoSessionOnEmptyKey` |
| `relay_path` | four packets, room for two frames, ages up to 6 ticks | client, stream and server together implement `PrefixFifo`; `NothingLateAtPace` |
| `relay_server` | three clients, two sockets | `NothingUnverified` (in `IInv`), `ValidClientDecided`, `ClosedIsReleased` |
| `relay_session` | capacity 2 | `BothEndAfterTun`, `ReturnsAfterServerEnds`, no return before the server unless the network fails (in `SessionInv`) |
| `startup` | three starts | `WizardUntilFile`, `LoaderUntilFile`, `ChangedWithConsent` (in `StartupInv`), `NothingBeforeConsent`, `StartSettles` |

### Why the bounds are enough

- `upstream`: with capacity 2 both channels and all three hands full are 7 packets, so
  with 8 a sender waits at a full channel while one packet is already written, and
  `BoundedLoss` has its bound reached. `downstream` needs 5 frames for the same with
  capacity 1. Ages 6 and 7 are the last tolerated distance and the first one beyond it.
- `key_manager`: a lost primary needs two administrators and two ids; the reader adds
  the torn read. One key is enough, since only its presence matters there; `handshake`,
  where two ends may differ in a key, has two.
- `gradient_mesh`: ratios outside of 0..1000 exercise the clamps, 800 is the boundary
  from which redundancy is throttled. The run uses a learning rate of 5 instead of 1/20,
  so that three packets reach both limits of the weight; the proofs hold for any rate.
  Two connections share an id, as the server's clients do (1001), and one has its own.
- `frame_codec`: body sizes 57 and 58 give frames of exactly one block and one byte
  more; 65534 and 65535 are on both sides of the length field's limit; 40 s are eight
  windows. `StampLimit` is 2^31 - 1 in the run, because TLC's integers end there; in
  the proofs it is any number above the clock.
- `relay_server`: three clients on two sockets reach the failed accept; one of them may
  be silent, one valid, one closed.
- `relay_path`: capacity 2, one read every 2 ticks and frames in time up to 4 ticks is
  exactly the pace `Capacity * ReadInterval = TimelyAge`; one frame more in the queue
  breaks it. Unsteady readers and frames of every age up to late ones occur as well.
  Both ends read one clock here: a skew between them takes its share of the tolerance,
  which is what `frame_codec` varies.
- `startup`: a start that was killed in the wizard, its repetition, and one after that; likewise a
  write of wintun.dll or of the settings that was cut short, and what later starts make of it.
- `upstream_any_stage`: one packet on which the write fails is enough; the others only
  show that it is not the first.

### Fairness

- tokio polls every task that can run: weak fairness of each task's step at which it
  waits for nothing but the other tasks of the process.
- A TCP or TUN write completes or fails in the end. Nothing in the code guarantees
  that (no write has a timeout), so it is an assumption about the environment
  (`WF` of `SendsFramed` and of `WritesTun`).
- A network that is not broken delivers packets, the handshake header and the end of
  the stream; nothing is assumed of a broken one (`FairSessionSpec`), and the two
  liveness properties of `RelaySession` let it off.
- `RelayServer`: accept returns while a connection is queued, with an error if no socket
  is free. No other error has to happen, and none is excluded.
- Nothing is assumed of the TUN device (it may be idle for ever), of a client (it may
  connect and stay silent, and the server waits for its header without a timeout), of an
  administrator, of a user who starts the program. `ReturnsAfterServerEnds` names the one
  exception as its premise: a TUN device that keeps delivering, and an engine that
  accepts some of it (`BusyTun`). Without it the client stays (`upstream_any_stage`).
- `StartSettles` assumes that a user answers or closes the terminal.

## 4. Proofs

Every theorem holds for all values of the constants that satisfy the named
assumptions (capacity at least 1, the empty key is no key, tasks administer or
read, and so on). The bounds of the runs (`MaxPackets`, `MaxReports`, `MaxTime`) are
arbitrary natural numbers in the proofs.

| module | theorems | argument |
|---|---|---|
| `PipelineProofs` | `UpstreamInvariant`, `UpstreamCleanReturn`, `UpstreamRefinement`, `UpstreamBoundedLoss`, `UpstreamNeverStuck`, `DownstreamInvariant`, `DownstreamFeedback`, `DownstreamNothingLate`, `DownstreamCleanReturn`, `DownstreamBoundedLoss`, `DownstreamNeverStuck`, `DownstreamRefinement` | `IInv` speaks of the line: all packets alive, from what is written back to the ingress task's hand, as one sequence. A step moves the border between two parts of the line, cuts a part out (a task dies), takes one packet out (the engine refuses it, feedback is applied), or appends one. `Ordered` (the line increases) survives all four. `GapFree` says that there are no holes in what is past the engine as long as the egress task can still write it: a panic cuts the line behind that part and a write error before it, so what is written never gets a hole. `Closing` is needed for `NoSilentLoss`: without a fault a task ends only after the one in front of it, with an empty channel between them. `Accounted` carries `BoundedLoss`, which is not inductive: what is taken and neither written nor dropped is at most what the live tasks hold in hand and channel, plus, for each task that is over, as much as it could have held (capacity + 1). A step moves a packet from one account to the next, settles one, opens one, or closes a task's account at its full size. `NoCircularWait` needs only the types and a capacity of at least 1: a full channel is not an empty one. Both pipelines take steps of `StagesNext` only, so this is proved once; `FramesInv` adds what each frame is: what is past the decoder was bare, and bare is neither feedback nor late. The order of what is written is not inductive by itself, because it says nothing of what the egress task will write next. |
| `PacketSequenceLemmas` | lemmas | elements and order of concatenations, cutting a segment, head and tail, appending |
| `KeyManagerProofs` | `TypeCorrect`, `Invariant`, `LostOnlyInRace`, `EmptyOnlyForOld`, `AtomicUntilRace`, `OneAdminKeepsPrimary`, `OneAdminRefinement` | `ChecksHold`: what an administrator saw under its first lock still holds under its second, unless the history variable `race` has the id; `RacesNoted`: two pending operations on one id are in `race`. The refinement takes each two-lock operation to take effect at its second lock. With one administrator `race` stays empty. |
| `GradientMeshProofs` | `TypeCorrect`, `FeedbackSign` | every measurement fits its 16-bit field, each update is clamped. `LinkMeasured` (a packet on a link was made from a measurement) is what the sign needs: the field restores a gradient in -32768..32767 with its sign, and an update clamps monotonically, in either direction. Only taking a packet off a link shortens it, so the step in the property is the one that applies the packet. |
| `FrameCodecProofs` | `Invariant`, `NotFeedback`, `Timely`, `Late`, `PlainWorks` | what is under way is `obfuscate` of a payload or the payload; quantising two clocks changes their distance by less than a window, so a distance of up to 6 windows is accepted and one of 7 is refused, wherever the clocks are in their windows; a padded frame is a multiple of the block, so it is longer than feedback if the block is |
| `HandshakeProofs` | `Invariant`, `RefusalHasCause`, `NoEmptyKeySession` | as long as both ends have agreed on the announced key since it was announced, the header is signed with it: `SignedWithShared` ties the client's two reads to the server's one |
| `RelayPathProofs` | `PathInvariant`, `PathNothingLate`, `PathRefinement`, `PathDelivers` | `Leg` is what `PrefixFifo` keeps, in one formula, and holds of both legs. Frame n carries packet `stamped[n]`, and `stamped` increases, so order, uniqueness and gaps of frames are those of packets: writing frame n delivers packet `stamped[n]`, refusing it drops that packet, and stamping, time, reading and the session's states are invisible. For the ages: at the pace, position i of the queue has seen at most `Capacity - i` reads, so what is read is at most `Capacity * ReadInterval` old. |
| `EndpointProofs` | `ServerInvariant`, `SessionInvariant`, `StartupInvariant`, `ConsentFirst` | `ServerInvariant` adds to the checked invariant that the open sockets are finitely many, which makes counting them meaningful when the set of clients is infinite. `StartupInv` is inductive: `AskedFirst` carries `ChangedWithConsent` and `ConsentFirst`; what is said of the two steps of a write carries that a file exists behind the wizard and the loader. `SessionInvariant`: `Closing` says what an end, a reset and a return tell of the other side, or of the network. |

`EndpointProofs` extends `RelayServer`, `RelaySession` and `Startup` together: the three
share no variable, and the definitions of the last two carry their module's name where
the first has one of its own (`SessionInit`, `StartupInv`, ...). Its theorems rest on the
assumptions the three make of their constants, and on nothing else: `SocketLimit` and
`PIPELINE_BUFFER_SIZE` are positive, `MaxStarts` is a natural number, `NoConn` is no
connection.

### Only model-checked

Every invariant and every safety property of the passing runs is the statement of a
theorem. What is left to the runs is liveness, since the prover has neither `ENABLED` nor
fairness: `ReturnsAfterInputEnds`, `EveryPacketSettles`, `ValidClientDecided`,
 `ClosedIsReleased`, `BothEndAfterTun`, `ReturnsAfterServerEnds`,
`StartSettles`. `UpstreamNeverStuck` and `DownstreamNeverStuck` are the part of it that is
a state formula. That `RelayPath` may replace each pipeline by a `PrefixFifo` is proved for
either pipeline alone; that the client's queue of `Capacity` frames is what the upstream
pipeline has behind `obfuscate` is an abstraction, described above.

## 5. Where the code and its documentation disagree

Shown by a run:

- `key_manager.rs:81` says that revoke_key must not remove the primary key. Between
  its two locks another administrator may rotate to it (`key_manager_two_admins`).
  For the same reason `get_primary_key` can return an id with an empty key; the
  server finds no key under such an id, so the handshake fails rather than passes
  (`NoSessionOnEmptyKey`).
- `mod.rs:78` says "wait for any one stage of the pipeline to close"; `join!` waits for
  all three. After a write error the egress task is over, the ingress task waits for a
  packet, and the caller with it, for as long as the TUN device is idle
  (`upstream_any_stage`). This is why `ReturnsAfterInputEnds` starts from the end of TUN
  and `ReturnsAfterServerEnds` has the premise `BusyTun`.

Met while modelling and described by the models as the code has it:

- `gradient_mesh.rs:133` says that a growing loss lowers the weight. When the rank
  defect dominates, the gradient is negative and the weight rises with the loss: a peer
  that decodes badly gets more traffic. `FeedbackKeepsItsSign` is about the direction the
  gradient gives, not about the loss.
- `gradient_mesh.rs:78` says "register or update"; a registered peer is left as it is,
  with its old address (`register_peer`). No property is stated of it: the documented
  one fails at the first reconnection, and the code's own is the definition. The server
  registers every client under id 1001, which every client also gives itself
  (`main.rs:241`, `303`): their packets move one peer, the one that came first.
- `obfuscation.rs:40` speaks of one window of tolerance where the caller passes 6.
- `main.rs:248` reports the handshake as verified before the server has looked at it;
  the server never answers.
- `config.rs:8` says that the server restores packets to its TUN device; it writes
  them to a sink (`main.rs:308`).
- `src/README.md:54` (and `src/PRIVACY.md:29`) describe a marker file
  (`.ndcode3_eula_accepted`) and an environment variable (`NDCODE3_ACCEPT_EULA`) that
  stand for the consent; the code has neither. `disclaimer.rs:45` always asks, and takes
  the end of the input for a refusal: in `Startup` every start by the service unit ends
  at the disclaimer, and `Restart=on-failure` repeats it. What the documents promise, a
  service that relays once somebody has consented, is false at its first start.
- `main.rs:209` asks for a number for ever, also at the end of its input. `StartSettles`
  counts a start that hangs there as settled, because nothing else is to be had of it.
- `main.rs:35` says that the wizard runs when there is no configuration; a start that is
  killed, or has no space left, while `fs::write` (`main.rs:111`) fills the file leaves
  one that exists, and the next start passes the wizard over (`WizardUntilFile` says
  what is left: a file). Nothing reads it, so nothing worse comes of it.
- `ntors.service:10` restarts after failures; a client whose connection is lost returns
  Ok (`mod.rs:72`, `main.rs:268`), which is none. `ntors.service:9` names the program by a
  relative path, which systemd does not accept for `ExecStart`; the models take it as
  started.
- `mod.rs:61` stamps a frame before it is queued, and up to 1024 frames and more wait
  behind it. On a link of fewer than about 34 frames a second a full queue is older
  than the 30 s of `obfuscation.rs:102`: every frame is then refused as a replay for as
  long as the load lasts, and the fallback hands it on undecodable. `NothingLateAtPace`
  is the condition under which this does not happen.
- `win_wintun.rs:46` says "if the file exists and can be read"; only existence is asked.
  A wintun.dll that a killed start has written in part stays, and no later start gets
  beyond the TUN device (`DllFound`, `TunCreated`).
- `main.rs:76` lets the wizard choose the mode; nothing reads the file it writes.
- `main.rs:35` takes `--setup` for a parameter; the parser of `config.rs` does not know
  it and ends the program after the wizard (`ParseFails`).

## 6. What is not modelled

- The NDcode3 codec, xz, HMAC, tun and tokio: external; modelled by how they are used.
- `metrics.rs` and `src/src/pipeline.rs`: not compiled, no file declares them.
- Which commands the wizard tunes each operating system with.
- Addresses, names, output; the mode, which the command line alone decides (nothing
  reads `ndcode_config.json`, so that there is no state to relate them to); the delay
  between two starts by the service manager.
- `get_peer_state`: a snapshot that nothing depends on.
- Rounding of `f32` in the mesh, and tokio's cooperative budget.

## 7. Plan

Done: the pipelines and their abstract relay, key manager and handshake, codec and
mesh, composition (path with its queue and time, server, session), startup with loader
and service; proofs of every invariant and safety property that the runs check, and of
all three refinements (`PrefixFifo` by both pipelines and by the path, `Keyring` by the key
manager).

Next:

1. The key manager and the handshake together: that the header is refused for cause
   with `DynamicKeyManager` in the place of either `Keyring`, races excepted.
2. What a session loses: a bound on the packets taken and not written at either end,
   from `BoundedLoss` of both pipelines and the queue between them.
