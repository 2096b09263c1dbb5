# A formal model of RtpPlayer

RtpPlayer is an Android player for RTP streams. Its native library
(`src/RtpPlayer/app/src/main/jni`, about 7,700 lines of C++) receives VP8 or
H.264 video and Opus audio over UDP, puts frames together, decodes them with
the codec wrappers of `src/MediaCodec/jni`, synchronises them and renders them
with OpenGL ES and OpenSL ES. This directory holds TLA+ models of its core
logic, what TLC checks of them on small instances, and what TLAPS proves of
them for all values of their parameters. Paths below are relative to
`src/RtpPlayer/app/src/main/jni` unless they begin with `src/`.

Run everything from this directory: `tlc -config <run>.cfg <Module>.tla` for a
row of [Runs](#runs), `tlapm <Module>Proofs.tla` for a row of [Proofs](#proofs).


## Inventory

    UDP --> RtpClient --> RtpStream/VideoStream --> depacketizer     network thread
                                  |                                  (one per stream)
                                  | media frame (CProFunctorCommandTask)
                                  v
            BasePlayer::on_media_frame --> decoder --> AVSync::push  command task
                                                          |          (one per stream)
              Renderer (AVOutBase::Svc) <-- AVSync::*_frame          renderer thread
                  |        \-- AudioOut is the clock of AVSync       (one per stream)
            OpenGL ES / OpenSL ES (callback thread)

    Java UI thread: create, add_stream, destroy;  Java poll thread: *_info, get_play_time

| Component | State | Operations | Hard behaviour | What makes it correct |
|---|---|---|---|---|
| **AVSync** (`Player/AVSync.cc`) | two frame queues, `m_buffering`, `m_last_video_ts`, `m_video_duration`, `m_clock` | `push_video/audio` (command tasks), `video/audio_frame` (renderers), `set_clock` (UI) | `push_video` locks three times; the clock is written by another thread under no lock and is replaced while it is in use; arithmetic in `uint32_t` | a frame is owned as often as it is counted; frames in order and at most once; buffering ends when enough is queued; video is paced by the clock and never stuck |
| **VP8 depacketizer** | `m_frame`, `m_frame_len`, `m_packets`, `m_frame_type`, `m_key_required` | `parse`, `set_sync_point` | lost packets, lost markers, malformed descriptors, frames that are too large | never overruns `m_frame`; frames come out whole after the damage of a loss; begins with a key frame |
| **H.264 depacketizer** | `m_nalu`, `m_frame`, lengths, `m_packets`, three sentries | `parse`, `set_sync_point` | the same, with three packetisations and two buffers | the same |
| **Frames** (`Common/AVFrame.h`, `RefCount.h`) | reference count, reference on the decoder | `add_ref`, `release` from any thread | who releases last | no use after the count is 0, no leak |
| **Decoders** (`Decoders/`) | codec handle | `build`, `decode`, `tear`, output callbacks | frames outlive `tear` and hold the decoder | the codec is destroyed after the last of its frames |
| **Renderers** (`Renders/`) | thread, raw `AVSync*`, device; `AudioOut`: buffers shared with the OpenSL callback, `m_render_time`; `VideoOut`: EGL context | `start`, `stop`, `on_frame` | wait for a callback without a lock; device reopened for a new format; EGL context rebuilt for a new size | no lost wake-up; the clock only moves with what is played |
| **Players** (`Player/`) | stream, decoder, renderer, `AVSync` under `m_lock` | `build`, `tear`, `on_media_frame`, `on_decoder_output`, info | tear-down while all threads of the stream run; a step of `build` that fails | every thread is joined before what it uses is deleted |
| **Streams** (`Streams/`) | depacketizer, command task, statistics | `on_rtp_packet`, `send_frame`, `on_client_opened/closed` | the task stops while frames are queued | every media frame is decoded or freed |
| **RTP client, sessions** (`Rtp/`, `Networks/`) | io_service thread, receive buffer | `build`, `read`, `on_network_read`, `tear` | the chain of reads ends when a handler does not start the next | one read is always pending while the session lives |
| **Event bus** (`Events/`) | module table, queue, worker | `register`, `deregister`, `post`, `Svc` | modules deleted while events for them are queued | an event is never delivered to a deleted module |
| **JNI and Java** (`RtpPlayer_jni.cc`, `src/RtpPlayer/app/src/main/java`) | handle of the native player | `create`, `add_stream`, `*_info`, `destroy` | `destroy` while the poll thread uses the handle | no call on a destroyed handle |
| **Codec wrappers** (`src/MediaCodec/jni`) | pool of images, list of PCM frames | decode/encode callbacks | release from another thread | no frame is reused while it is in use |

Third-party code (ffmpeg, libvpx, libx264, opus, asio) and the closed library
behind `pro/` (threads, locks, command tasks) are outside the project; TCP
sessions are compiled but never created. `PROJECT.json` has the status of each
component and, under `hazards`, the places where the code is hard to test,
with the properties that watch them or the reason why none does.


## Modules

| Module | Models | Role |
|---|---|---|
| `AVTime` | the timestamp arithmetic of `AVSync.cc` in `uint32_t` | operators |
| `AVSync` | `AVSync` with its four threads, frame ownership, both clocks | the core component |
| `PlayoutBuffer` | what `AVSync` promises for video, each operation atomic | abstract specification, implemented by `AVSync` |
| `VideoPacing` | the accumulated arithmetic of `video_frame` over many frames | component, long runs |
| `RtpDepacketizerVp8`, `RtpDepacketizerH264` | the depacketizers behind a lossy network | components |
| `RtpPacket` | where `parse` finds the payload, what `create_instance` refuses | operators |
| `ReceivePath` | `RtpClient`, its UDP session, `RtpStream` and its command task | composition, one stream |
| `PlayerLifecycle` | `RtpPlayer`, both players and everything they own, built and torn down against all threads | composition, both streams |
| `AudioOut` | the audio renderer with the OpenSL device and its callback | component |
| `VideoOut` | the video renderer's EGL surface, context and textures | component |
| `EventBus` | `EventBus` with its worker, the modules' lives and their counts | component |
| `Activity` | `MainActivity` and the JNI calls: the handle, and what the calls return | component |
| `OpusEnc` | the frame lists and times of `src/MediaCodec/jni/opusenc.c` | component |
| `MCAVSync`, `MCVp8`, `MCH264`, `MCReceivePath`, `MCPlayerLifecycle`, `MCRenderers`, `MCEventBus` | instances: frames, packets, datagrams, formats, modules | model checking |
| `AVSyncProofs` (with `AVTime` and `VideoPacing`), `RtpDepacketizerVp8Proofs`, `RtpDepacketizerH264Proofs`, `ReceivePathProofs`, `PlayerLifecycleProofs`, `RendererProofs` (`AudioOut` and `VideoOut`), `EventBusProofs`, `OpusEncProofs` | theorems | proofs |

The two compositions abstract from what the component modules show: in
`ReceivePath` any packet may complete a media frame, in `PlayerLifecycle` frames
are numbers and packets may or may not yield one.

### AVSync

The four threads are `vdec` and `adec` (the command tasks, in the decoder
callbacks `VideoPlayer::on_decoded_image`, `AudioPlayer::on_decoded_pcm`) and
`vout` and `aout` (the renderers, in `AVOutBase::Svc`). `pc` says where each is,
`held` which frame it owns a reference to. A step is one region under
`AVSync::m_lock`, or one access to state that no lock protects.

| Model | Code |
|---|---|
| `videoQ`, `audioQ`, `buffering`, `lastTs`, `videoDuration` | `m_video_frames`, `m_audio_frames`, `m_buffering`, `m_last_video_ts`, `m_video_duration` |
| `clock`, `timer`, `renderTime` | which `AVClock` `m_clock` is; the time of `AVTimer`; `AudioOut::m_render_time` |
| `refs` | `RefCount::m_ref_count` of every frame, 0 once deleted |
| `PushVideo`, `ReadLatency`, `StopBuffering` | the three critical sections of `push_video` |
| `PushAudio` | `push_audio` |
| `StartPacing`, `TakeVideo` | `video_frame` on the first frame; when the front frame is due |
| `TakeAudio` | `audio_frame` |
| `SetClock` | `set_clock` at the end of `RtpPlayer::play_audio` |
| `DecodeImage`, `DecodePcm`, `DecoderRelease`, `RendererRelease` | creation of a frame in a decoder; the releases in the callbacks and in `Svc` |
| `device` | `AudioOut` has a device open: `m_channels` is not 0 |
| `CloseDevice`, `OpenDevice` | `AudioOut::on_frame` with a frame that is not in the device's format: `clear`, and an `init` that succeeds or fails. With no device every frame comes this way |
| `LoadRenderTime`, `StoreRenderTime` | `m_render_time += ...`, a read and a write under no lock |
| `Tick` | time passes for `AVTimer` |

A call of `video_frame` that returns no frame and changes nothing is a stutter.
`video_frame` that finds the first frame and restarts the clock returns nothing
in the same call unless 40 ms pass between two of its lines; that outcome is
`StartPacing`, `Tick`, `TakeVideo`.

### Depacketizers

`Stream` is what the sender sends, as a sequence of packet records; `next`
moves along it, and each packet is either parsed (`Receive`) or lost (`Lose`).
`frame` (and `nalu`) hold the numbers of the packets whose payloads are in the
buffer, which is all the properties need to tell payloads apart; the byte counts
are kept beside them because they decide every overflow. `offset`, `Sent`,
`received` and `lastOut` are history or the sender's knowledge, used in
properties only.

* `RtpDepacketizerVp8`: one disjunct of `Parse` per outcome (`Refuse`,
  `Overflow`, `Collect`, `EndFrame`). The descriptor helpers keep their names
  and count the bytes left, as the code does.
* `RtpDepacketizerH264`: `Receive` is the head of `parse`; `Single`, `StapA`,
  `FuA`, `Refuse` are the branches of its switch; `DecodeNalu` and `Passes` are
  `decode_nalu` and `check_random_access_unit`; `GiveUp` and `Fail` are
  `CHECK_SIZE` and the label `fail`. The loop over an aggregation packet takes a
  step per unit, since each can deliver a frame (the last one wins, as in the
  code).

### ReceivePath

One stream from `set_media` to its destructor. `ui` is the thread that calls
both, `net` the thread of `RtpClient::Svc`, `task` that of `m_task`.

| Model | Code |
|---|---|
| `exit`, `service`, `udpSession` | `m_exit`; `m_service` and whether it is stopped; `m_udp_session` |
| `pending`, `waiting` | reads started by `UdpSession::read` and not completed; datagrams in the socket |
| `commands`, `inTask`, `frames` | commands in `m_task`; the one it works on; `MediaFrame`s that are allocated |
| `Build`, `SeeType` | `RtpClient::build` and `UdpServer::accept`, which may fail to bind; the later assignment of `m_payload_type` becoming visible |
| `ReadFails` | a read that completes with an error: `Session::on_read` with no bytes, which starts no other read |
| `Complete`, `Read`, `OnRtpPacket`, `SendFrame`, `Rearm` | one completed read: `Session::on_read`, `on_network_read` with `parse` and `create_instance`, `RtpStream::on_rtp_packet`, `send_frame`, `RtpClient::read` |
| `SetExit`, `StopService`, `Join`, `JoinTask`, `ResetSession`, `ResetService` | the lines of `RtpClient::tear` |
| `NetworkEnds`, `TakeCommand`, `OnSendFrame`, `TaskEnds` | `Svc` returns; the task takes a command, frees its frame, ends |

`Sent` are the datagrams, as records of the header fields that `parse` reads.
They may be lost, and arrive in any order.

### PlayerLifecycle

The objects are `alive` (players), `members` and `local` (what a player owns,
and what `BasePlayer::clear` has moved to its locals), `stream`, `renderer`, and
`refs` (the counts of `AVSync` and of the decoders, 0 once deleted). `frameRefs`
counts the references of each decoded frame.

* The user interface thread is `ui.pc`: `Play`, `BuildRenderer`, `BuildDecoder`,
  `BuildStream`, `Built` are `RtpPlayer::play_*` and the steps of
  `VideoPlayer::build`, each of which may fail; `Clear` to `ReleaseSync` are
  `BasePlayer::clear`, with the destructor of the stream and its client in
  `StopClient`, `JoinClient`, `JoinTask`; `Destroy`, `Remove`, `TakeSync` are
  `~RtpPlayer`, `remove_*`, `tear`.
* Each stream has its network thread (`Packet`, `Parsed`), its task thread
  (`MediaFrame` to `TaskReleasesDecoder`: `on_media_frame`, the decoder and its
  callback, with every reference taken and given back) and its renderer thread
  (`Test`, `GetFrame`, `Render`: the loop of `AVOutBase::Svc`).
* The polling thread calls `video_info` and `audio_info`: `PollCalls` takes
  `RtpPlayer::m_lock`, `PollAsks` the player's.
* `crashed` says that the program did something undefined; from there on the
  model stops.

### VideoPacing

The same arithmetic as in `AVSync`, for one stream whose clock is not replaced,
so that drift over many frames can be seen and proved. `lastVideoTs` and
`playedMs` are `m_last_video_ts` and `m_video_duration`; the latter is not reduced
modulo 2^32 here: it would take 49 days.

### AudioOut

The renderer thread is `audioPc`: `svc` in the loop of `AVOutBase::Svc`, else a
line of `on_frame`. The samples copied since the device was opened are numbered,
so a buffer's content says where each sample came from.

| Model | Code |
|---|---|
| `format`, `block`, `buffer`, `current`, `index` | `m_channels` and `m_sample_rate`, `m_outBufSamples`, `m_outputBuffer`, `m_currentOutputBuffer`, `m_currentOutputIndex` |
| `playing`, `played` | the device's buffer queue; what it has played, read from the buffers at that moment |
| `signalled` | `m_cond`: `CProThreadMutexCondition` keeps one signal until a wait takes it |
| `Refuse`, `Accept`, `Reopen`, `ReopenFails` | `on_frame` up to the copying: samples that are not 16 bits wide, the open format, another format with `clear` and `init`, and an `init` that fails |
| `Copy`, `Enqueue`, `BeginWait`, `Wait` | the copying loop, up to the end of the buffer or the frame |
| `BufferFinished` | `buffer_queue_callback` and `buffer_available` |
| `ComputeGap`, `AddTime`, `StopClock` | the read and the update of `m_render_time`, and `reset_time` from the video renderer in between |
| `Stop`, `Ends`, `Delete` | `AVOutBase::stop`, the end of `Svc`, the destructor |

### VideoOut

`videoPc` is where the renderer thread is; the members `m_egl_*` are `display`,
`surface`, `context`; `surfaces`, `contexts`, `bound` are what EGL itself keeps.
`ClearEgl` is `egl_destroy_display`. `NoDisplay` to `MakesCurrent` are the
returns of `egl_init_display` in order, `InitGlFails` and `InitGl` the rest of
`init`, and `AfterFailure` its label `fail`. The two renderers share nothing, and
`MCRenderers` checks both in one run.

### EventBus

A step is one region under `EventBus::m_lock` or one access under none. `life`
is the life of each module: `live` with its owner, `released` when the owner has
let go and the worker has not, `dying` between the beginning of the destructor
and `deregister_module`, `freed`. `Take` is what `Svc` does under the lock with
an event, `Unlocks`, `BeginsWait` and `Woken` are `m_cond.Wait(&m_lock)`, which
gives up the lock before it looks for a signal. `Counted` are the modules that
end with `release`; depacketizers, and players that could not be built, end with
`delete`.

### Activity

`ui` is the user interface thread (`surfaceCreated`, `surfaceDestroyed`), `poll`
the thread that `onCreate` starts. `handle` and `exit` are the fields of
`MainActivity`, which no lock protects and which are not volatile, so the polling
thread may see an old handle. `native` says which players are allocated and
`plays` which of their streams were built. A JNI call is a `Call` and a `Return`.

### OpusEnc

`frames`, `free` and `next` are the two lists as the code links them. A step is
one pass of the loop of `write_audio_frame` or of `opus_enc_encode`. Samples are
numbered as they are handed over, and a frame holds the numbers written to it.
`Listed` is what a walk along `next` meets, stated as the least set of frames that
holds the head and with each frame the next one.


## Runs

TLC's integers have 32 bits, so the video clock of the instances ticks 90 times
a second instead of 90,000 and unsigned numbers have 17 or 20 bits; a frame of 45
ticks lasts 500 ms as one of 45,000 ticks does. Audio is sampled 100 or 150 times
a second, so that a block of 20 ms has two to four samples. The constants are
parameters, and the proofs hold for the real ones.

| Run | Checks | Bounds, and why they are enough |
|---|---|---|
| `avsync` | types, `RefsCountOwners`, `BufferingHasVideo`, `PacedByTimer`, `ResumesWhenFilled`, `OldestIsShown`, and that `AVSync` implements `PlayoutBuffer` | three video frames, half a second to a second and a half apart, across a wrap of the timestamp, the third possibly out of order; an audio frame that is freed and reused; a clock change at any moment, an audio device that fails, closes and opens again any number of times; unsigned numbers of 17 bits. The clocks reach 2.5 s, beyond the time of the last frame in order, so that every frame becomes due. `OldestIsShown` is about behaviours in which the clock goes on from some point (see Findings). The queue fills, passes the threshold, runs dry and fills again, under every interleaving |
| `pacing` | `DriftBounded` | six frames of 3 to 90 ticks in any mixture, from both ends of the timestamp range |
| `vp8` | types, no overrun, `WholeFrames`, `SyncPointHonoured` | 17 packets, any of them lost, one `set_sync_point` at any moment; key and delta frames, a frame that is too large, packets refused for each reason, among them a key frame without its header |
| `h264` | types, no overrun of `m_nalu` and `m_frame`, `WholeFrames` | 23 packets, any of them lost, one `set_sync_point`: a slice before the random access point, parameter sets aggregated or alone, frames of one unit, several, fragments and an aggregation; packets refused for each reason, a broken aggregation, a unit and a frame that are too long |
| `receive` | types and one buffer, `OneRead`, `InUseExists`, `FramesOwned`, `AllRead`, `TearEnds` | six datagrams, one for each way through `on_network_read` (two accepted, one with all a header can have; wrong payload type; nothing but padding; broken extension; empty); two fit in the socket; a read may fail; the stream is deleted at any moment |
| `lifecycle` | types, `RefsCountOwners`, `ContextOutlivesFrames`, `InUseExists`, `ClockExists`, `NothingLeft`, `DestroyEnds` | two media frames in all, at most one of them audio, so that one is queued while the next is decoded; each step of `build` may fail, players may be built again, the player is destroyed at any moment |
| `renderers` | audio: types and buffer bounds, `PlayedInOrder`, `NothingPlaysBetweenFrames`, `ClockFollowsStream`, `StopReturns`; video: `OneContext`, `DrawnWhole` | audio: three frames out of five kinds, shorter and longer than a block, mono and stereo, one that is refused; three gaps, one of them a frame out of order; the device opened twice or failing to open; one reset of the clock at any moment. Video: five frames of two sizes, enough for a failed change of size, a frame of the old size, and a change that succeeds |
| `eventbus` | types, `RecipientsExist`, `EventsDispatched`, `BusEnds` | three modules, one of them deleted without its count and one registered for only one of two types; three events, so that one is queued while another is dispatched and a third posted; the bus destroyed at any moment |
| `opusenc` | `EachFrameListed`, `FramesInOrder`, `NtpOfFirstSample` | four calls with blocks of 1, 4, 5 or 14 samples, frames of 6 samples, 3 samples in a millisecond: blocks inside a frame, across one, and over more than two frames; three frames can be allocated, then allocation fails |
| `lifecycle_sync`, `lifecycle_stream`, `activity` | refute `SyncIsTested`, `ParsesWithDepacketizer`, `InfoIsNullOrValid` | see Findings; `activity` has two surfaces, one after the other |

All configurations say `CHECK_DEADLOCK FALSE`: the streams of the instances are
finite, a player may be destroyed, and then nothing is left to do.

The bounds that are constants of the modules are `MaxClock` (no clock is
advanced from there on), `MaxSyncs`, `MaxShown`, `MaxWaiting` (a
socket's buffer is finite, so this one is of the system), `MediaBound` and
`MediaTotal` (media frames of a stream, and of both), `MaxFrames`, `MaxResets` and
`MaxImages` (frames taken, resets of the clock), `MaxEvents`, `MaxPlayers` and
`MaxCalls`.

**Fairness.**
* `AVSync!FairSpec` (`avsync`): weak fairness of the two renderers, because
  `Svc` polls in a loop; of time; and of the audio decoder, because
  `OldestIsShown` can hold on the audio clock only if audio keeps coming.
  Nothing is assumed of the video decoder, of `SetClock`, of the formats of audio
  frames, or of whether the device can be opened: that its clock goes on is the
  condition of `OldestIsShown` and no fairness.
* `ReceivePath!FairSpec` (`receive`): weak fairness of the network thread, of the
  task and of the thread in `tear`, which the system schedules. Nothing makes a
  datagram arrive, a read fail or a stream be deleted.
* `PlayerLifecycle!FairSpec` (`lifecycle`): weak fairness of threads that
  wait for no lock; strong fairness of the user interface and the tasks, which
  wait for a mutex that the polling thread takes again and again: that thread
  sleeps a second between its calls, so the waiter gets it.
* `AudioFairness` (`renderers`): the renderer thread runs, and the device plays
  what it was given and calls back. Nothing makes a frame come or the clock stop.
* `BusFairness` (`eventbus`): the worker and the destructor of the bus run.
  Nothing makes an event come, a module die or the bus close.


## Proofs

TLAPS checks these for every value of the constants that satisfies the named
assumptions of the modules (frames are numbered, packets are records of the
stated shape, sizes are natural numbers). TLC evaluates each assumption on the
instances. Two speak of what senders do: `OffsetAssumption` of both depacketizer
modules says what the field `offset` of the packets means, that it counts at
least the bytes sent before in the same frame; a `WholeFrames` for frames that
fit the buffer cannot be said without it. Each inductive
invariant was checked by TLC on the run's instance before it was proved.

| Theorem | Module | Says | Rests on |
|---|---|---|---|
| `FramesAreOwned` | `AVSyncProofs` | `[]RefsCountOwners` | `OwnershipInv`: types, which steps of a thread own a frame, and that no frame is queued twice. Without `QueuedOnce`, taking a frame would not change its number of owners by what the count changes |
| `TypesHold`, `TimerPaces` | `AVSyncProofs` | `[]TypeOK`, `[]PacedByTimer` | the types; `PacedByTimer` is inductive with them (`PacingStep`), since only a frame that is due moves the position on |
| `BufferingNeedsVideo`, `ResumesFilled` | `AVSyncProofs` | `[]BufferingHasVideo`, `ResumesWhenFilled` | `BufferingInv`: while buffering, the latency read earlier is still the latency, because nobody takes video then and only this thread adds any |
| `PlayoutRefinement` | `AVSyncProofs` | `Spec => PB!Spec` | both invariants; each step maps to a step of `PlayoutBuffer` or a stutter |
| `DriftTheorem` | `AVSyncProofs` | `[]DriftBounded` | the division lemmas (`DivMod`): each truncation loses less than a millisecond |
| `DescriptorParsed` | `RtpDepacketizerVp8Proofs` | the helpers take exactly the bytes of the descriptor's layout | case analysis over its bits |
| `BufferBounded` | `RtpDepacketizerVp8Proofs` | `[]TypeOK`: `m_frame_len` stays in the buffer | the type invariant is inductive |
| `DeliveredWhole` | `RtpDepacketizerVp8Proofs` | `[]WholeFrames` | `CollectInv`: what `m_frame` holds after a received marker is what was received since, without gaps |
| `StartsWithKeyFrame` | `RtpDepacketizerVp8Proofs` | `SyncPointHonoured` | `AwaitInv`: while the key frame is awaited, the frame type says key only if the buffer holds a key frame's first packet |
| `BuffersBounded` | `RtpDepacketizerH264Proofs` | `[]TypeOK`: `m_nalu_len`, `m_frame_len` stay in their buffers | the type invariant is inductive |
| `DeliveredWhole` | `RtpDepacketizerH264Proofs` | `WholeFrames` | `CollectInv`: while a frame arrives of which nothing is lost (`Running`), `m_frame` and `m_nalu` together hold its pieces so far, in order, `m_packets` is right, and what is to come still fits (`Collected`). It begins with empty buffers because the packet that completed the frame before left nothing behind (`StartInv`); that needs this packet not to be broken, since a broken aggregation may leave units behind |
| `ReadsGoOn`, `OneBuffer`, `TearIsSafe` | `ReceivePathProofs` | `[]OneRead`, `[]TypeOK` (at most one read pending), `[]InUseExists` | `ReceiveInv`. `OneRead` is not inductive alone: a handler that rearms must know that no read is pending and that its own datagram broke nothing (`HandlerInv`), and deleting a session must know that the network thread has ended (`PlaceInv`) |
| `EachFrameHasAnOwner` | `ReceivePathProofs` | `[]FramesOwned` | `FrameInv`: a datagram is read at most once, so that the frame it gives is new (`SocketInv`), and the frame of `send_frame`, those of the commands and the task's are all different (`OwnerInv`) |
| `UsedObjectsExist`, `ContextKept`, `CountsAreOwners`, `ClockKept`, `NothingStays`, `TypeCorrect` | `PlayerLifecycleProofs` | `[]InUseExists`, `[]ContextOutlivesFrames`, `[]RefsCountOwners`, `[]ClockExists`, `[]NothingLeft`, `[]TypeOK` | `LifecycleInv`. Whether an object is still there is decided by where the user interface thread is, so the invariant says for each of its places who holds which lock (`LockInv`), what the player and the locals of `clear` own (`MemberInv`), that the threads of a stream have ended before it is closed (`StreamInv`), that a renderer is not deleted under its thread (`RendererInv`), and that the audio renderer is the clock only while its player exists or is being removed (`ClockInv`). That a reference count is the number of owners is inductive only with the order of frames: no frame is queued twice or both queued and shown (`QueueInv`), as for `AVSync` |
| `BlocksBounded`, `HeardInOrder`, `DeviceIsIdle`, `ClockFollows` | `RendererProofs` | `[]AudioTypeOK`, `[]PlayedInOrder`, `[]NothingPlaysBetweenFrames`, `[]ClockFollowsStream` | `AudioInv`. That blocks are heard in order needs to know where every sample is: `HandOver` says that a buffer is with the device exactly between `Enqueue` and the callback and that the signal stands for a callback not yet waited for, `Copies` that the current buffer holds the samples that follow those played. The clock needs what a reset between its two lines leaves behind (`ClockInv`) |
| `ContextIsOne`, `DrawnIsWhole` | `RendererProofs` | `[]OneContext`, `[]DrawnWhole` | `VideoInv`: what EGL keeps is at most what `m_egl_*` name, and nothing after `clear` (`EglInv`); a context that is bound was set up for the size that the textures have (`SizeInv`) |
| `ReferencesProtect`, `BusTypes` | `EventBusProofs` | `[]RecipientsExist`, `[]BusTypeOK` | `BusInv`: a module's count is the number of its holders, its owner and the worker; one that is registered has not been freed (`LifeInv`). The worker's reference protects a module that ends with release and was found with a count above 0; `RecipientsExist` also says that freed memory is used for other modules only, and the specification does reach `broken` with those |
| `ListsAreWhole`, `EncodedInOrder`, `TimesAreNear` | `OpusEncProofs` | `[]EachFrameListed`, `[]FramesInOrder`, `[]NtpOfFirstSample` | `EncInv`. Moving a frame from one list to the other is safe only if it is reached once, that is, if the lists have no cycle. `OrderInv` rules that out by the samples: along the list of frames they get later, along the free list earlier, and every free frame is earlier than every other. What is encoded is then in order too (`OutInv`). `TimeInv` bounds the truncations. Since the frames of a list are the least set closed under `next`, the lemmas about lists (`ReachedUnfold`, `ReachedAppend`, `OneTail`) need no induction |

Only model-checked are the liveness properties, which are beyond the prover
(`OldestIsShown`, `AllRead`, `TearEnds`, `DestroyEnds`, `StopReturns`,
`EventsDispatched`, `BusEnds`). Every safety property of a passing run is a theorem.
`Activity` has no theorem: the one property it is about does not hold.


## Findings

Each is a run that TLC refutes; the counterexample follows the code.

* `lifecycle_sync`: `on_decoded_image` and `on_decoded_pcm` use `m_av_sync` for
  the first frame before they test it (`Player/VideoPlayer.cc:141` and 147); a
  player destroyed at that moment uses a NULL pointer.
* `lifecycle_stream`: `~VideoStream` deletes the depacketizer
  (`Streams/VideoStream.cc:30`) before `~RtpStream` ends the network thread that
  parses packets with it.
* `activity`: `video_info` and `audio_info` return their variable `object` without
  a value when there are no statistics (`RtpPlayer_jni.cc:139`, 144, 173, 178),
  where the activity expects null (`MainActivity.java:97`). The same run reaches
  calls on a player that has been deleted.

Seen on the way, without a run of their own:

* The VP8 `set_sync_point` keeps `m_frame_type`, so the rest of a broken key
  frame counts as the key frame asked for. Its only caller is compiled out, so
  `SyncPointHonoured` is about the constructor's request.
* A VP8 delta frame that has lost its first packet inherits
  `FRAME_IS_SYNC_POINT` from the key frame before it, and the H.264 `m_packets`
  counts packets of units that the sentries dropped. Nothing reads either.
* An empty datagram, one that is not RTP, or a read that completes with an error
  ends a stream's chain of reads for good (`Rtp/RtpClient.cc:82`,
  `Networks/Session.cc:25`); nothing says that it should not, so `OneRead` and
  `AllRead` are stated with these exceptions.
* While the audio device cannot be opened every audio frame is dropped
  (`Renders/AudioOut.cc:124`) and `m_render_time` stands still; each new format
  sets it back to 0. If that never ends, and the audio renderer is the clock, video
  stands still for ever. `OldestIsShown` is therefore stated for behaviours in
  which the clock goes on from some point.
* `set_clock` and a reopened audio device put the clock back but not
  `m_video_duration`, so video stands still until the clock has caught up;
  `PacedByTimer` is therefore stated for the internal timer.
* `video_frame` accumulates truncated milliseconds: at 15 frames a second playout
  is early after some sixty frames, and keeps getting earlier. `DriftBounded` is
  the exact bound.
* A frame out of order moves the audio clock on by the wrapped difference, more
  than a minute (`Renders/AudioOut.cc:158`), so `ClockFollowsStream` excludes it.
* `AudioOut::init` does not free the output buffers of the format before, and each
  `eglInitialize` and window reference is given back at most once.
* A frame of the old size after a failed change of size is drawn without a context;
  nothing comes to the screen until the next change of size that succeeds.
* The bus's worker may take a reference to a module whose count is 0 and whose
  destructor waits for the bus's lock, or to a player that is being deleted whatever
  its count is; the worker may then use freed memory. `RecipientsExist` says that it
  does so in no other case. Nobody posts events today, and `Singleton::destroy` is
  never called, so neither is among the hazards.
* `add_stream` returns 0 although the stream could not be built
  (`RtpPlayer.java:37` says "-1 for failure"), and the polling thread does not come
  back after a surface has been destroyed and created again, since `exit` stays set.
* `opus_enc_destroy` follows `next` of frames it has freed (`opusenc.c:384`).


## Assumptions and what is left out

* **The closed library behind `pro/`**: `CProFunctorCommandTask::Stop` joins its
  thread; commands still queued are carried out or dropped. A media frame whose
  command is dropped is never freed (`FramesOwned` lists it).
* **asio**: a stopped service calls no handler any more; handlers that were never
  called are destroyed with it, and the session they hold with them. Allocation
  does not fail in `build`.
* **Calls after `destroy`** are in `Activity`, not in `PlayerLifecycle`.
* **OpenSL and EGL**: the device plays the buffers it is given in order, from their
  memory, and calls back once for each. `Enqueue` does not fail: the code does not
  look at its result, and would wait for a callback that never comes. EGL ignores handles of what no longer
  exists, and destroys only what it is told to.
* **`CProThreadMutexCondition`** keeps one signal until a wait takes it, as the
  library `libpro_util.a` implements it.
* **One media frame gives at most one decoded frame**, in `PlayerLifecycle`.
* **Reordered and duplicated packets** in the depacketizer modules:
  `VideoStream::on_rtp_packet` passes packets to `parse` as they come and there
  is no jitter buffer, so a reordered packet is a lost one plus a stray one;
  only loss is modelled. `ReceivePath` has reordering.
* **Header fields nobody reads**: picture ids, layers, sizes.
* **Zero-length NAL units** (`DEC_NALU` on them would read behind the data) are
  not among the inputs of the H.264 model.
* **`audio_latency_ms`, the jitter estimate, `m_max_latency`**: computed or set,
  never used. The code that drops late frames is compiled out.
* **The decoders' wrappers** (`vp8dec.c`, `avcdec.c`, `opusdec.c`) pass each call on
  to a codec library; who holds a decoder and when it dies is in
  `PlayerLifecycle`. The video encoders and `ivfwriter.c` are not used by the
  player and keep no state of their own.
* **The depacketizer factory** is a switch over the media type; **TCP and client
  sessions** are compiled but never created; `UdpSession::write` is never called.
* Drawing, codecs, logging, statistics: no state that the properties are about.
* The repository also holds ffmpeg, libvpx, x264, opus and other libraries in
  source, most of its 8,536 files. They are third-party code and not modelled.


## Plan

1. *Done*: `AVSync` with its abstract buffer, both depacketizers, their proofs.
2. *Done*: the player lifecycle.
3. *Done*: the receive path with its proofs.
4. *Done*: the event bus, the JNI layer, both renderers with the proofs of the
   audio renderer, the Opus encoder.
5. *Done*: the safety properties of every passing run as theorems.
6. An abstract specification of the player (play, stop, nothing left) that
   `PlayerLifecycle` implements, and one of the receive path (a queue that may
   lose datagrams).
