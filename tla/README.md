# A TLA+ model of audioboo-android

Audioboo is an Android program for recording short audio clips ("boos"), playing
them back and publishing them. This directory holds TLA+ modules for the parts of
it in which threads, callbacks, files and the network meet, the TLC
configurations that check them, and proofs for TLAPS. `PROJECT.json` lists the
components, the runs, the source lines behind every definition, the hazards and
the theorems.

Paths below are relative to `src/src/fm/audioboo/` unless they begin with `jni/`,
which is `src/jni/jni/`.

## 1. The system

Everything runs in one process. The main thread runs the activities, the binder
calls of the service, the callbacks of `MediaPlayer` and all `Handler`s. Beside
it there are the playback thread, a thread per local file being played, a timer
thread, the upload queue's thread, the API requester, the image fetcher, the
recording thread, and the native writer thread of each encoder.

| Component | State it keeps | Operations | Talks to |
|---|---|---|---|
| FLAC encoder `jni/FLACStreamEncoder.cpp` | write buffer, FIFO, kill flag, writer thread | init, write, flush, deinit | recorder, `Boo.flattenAudio`; libFLAC |
| FLAC decoder `jni/FLACStreamDecoder.cpp` | frame buffer, end state | init, read, seek, deinit | `FLACPlayer`, `flattenAudio` |
| Playback machine `service/BooPlayer.java`, `APIPlayer`, `FLACPlayerWrapper`, `application/FLACPlayer.java` | actual and pending state, boo, player, timer | play, stop, pause, resume, seekTo; callbacks of the players | service (notification), `MediaPlayer`, decoder |
| Service `service/AudiobooService.java` | player, uploader, notification | onCreate, onDestroy, binder calls | playback machine, upload queue |
| Upload queue `service/UploadManager.java`, `data/UploadInfo.java` | current boo, chunk size; saved: stage, attachment ids, offsets | processQueue, process, results | API, boo files |
| Service clients `service/BooPlayerClient.java`, `UploadClient.java` | stub, listeners, polling | bind, unbind, calls | service |
| API requester `application/API.java` | request queue, status, keys, host | schedule; status, then the request, up to four times | server; handlers of its callers |
| Session `application/Globals.java` | account, status, location, polling | create, destroy, credentials | API, clients |
| Boo files `application/Boo.java`, `BooManager.java` | one file per boo, its recordings, the index | write, construct, delete, flatten, rebuildIndex | everybody |
| Recorder `FLACRecorder.java`, `BooRecorder.java`, `RecordActivity.java` | thread, recordings, amplitudes | start, stop; messages | encoder, boo files |
| Lists `BooListPaginator.java`, `ObjectMemoryCache.java` | page, requests, cache | refresh, next page, received | API |
| Image cache `ImageCache.java` | queue, memory and disk entries | get, fetch, cancel, store | network, file system |

The hard behaviours, and what must hold for each component:

* *Encoder*: producer and writer share a FIFO under a mutex and a condition
  variable. Samples reach the file once and in order; what fails is accounted
  for; flush and release get somewhere.
* *Playback machine*: callers set a pending state, callbacks arrive late, a timer
  task outlives its timer. State, player, timer and notification agree; a
  requested playback happens.
* *Upload queue*: the network loses, repeats and delays; the process dies. What is
  saved of an upload is true of the server; a boo is deleted only once published;
  every upload ends.
* *Requester*: a success is the last word on a request and is handled with the
  data it came with; whoever waits for the status is told; a stored key survives
  until the retries are used up.
* *Decoder and local player*: frames are heard once and in order, a seek lands
  where it should, playback ends.
* *Boo files*: nothing saved is lost, nothing deleted comes back, a flattened file
  has every recording.
* *Recorder*: a stop ends the recording, also right after a start; the last
  messages of one recording are not taken for the next; nothing recorded is
  recorded over.
* *Lists*: a page is shown and cached under the key it was requested with.
* *Image cache*: everybody who asks is told; what is being used is not evicted.
* *Clients, session*: calls only while connected; polling only with an account.

## 2. Plan

| # | Modules | Question | Status |
|---|---|---|---|
| 1 | `RecordedStream`, `StreamEncoder`, `StreamEncoderProofs` | Does the encoder write what it is given? | modelled, checked, safety proved |
| 2 | `BooPlayer`, `BooPlayerProofs` | Do state, player and notification agree? | modelled, checked, safety proved |
| 3 | `UploadManager`, `UploadManagerProofs` | Is what is saved true of the server? | modelled, checked, safety proved |
| 4 | `Requester`, `RequesterProofs` | Is a success final, and are keys kept while they should be? | modelled, checked, safety proved |
| 5 | `StreamDecoder`, `FLACPlayer`, `FLACPlayerProofs` | Is a recording heard in order and to its end? | modelled, checked, safety proved |
| 6 | `Recorder`, `RecorderProofs` | Do durations, statistics and the limit follow what was recorded? | modelled, checked, safety proved |
| 7 | `BooFile`, `BooFileProofs` | Is a boo lost, revived or flattened incompletely? | modelled, checked, that nothing is lost proved |

The modules meet at their interfaces, each keeping of the other what its own
properties need: `FLACPlayer` extends `StreamDecoder`; `BooPlayer` knows a
`FLACPlayer` by when its thread ends and what it reports; `UploadManager` takes a
request to be answered as `Requester` may answer it (errors of the attempts, then
a success, a failure, or silence); `BooFile` has of `Recorder`, `BooPlayer` and
`UploadManager` what they do to the file of a boo. `StreamEncoder` is shown to
implement the abstract `RecordedStream`.

Every safety property that a passing run checks is stated by a theorem, but for
three of `BooFile` (`DeletedStaysDeleted`, `FlattenedWhole`, `RecordingsStay`),
which are only model-checked; the liveness properties stay with TLC. What is left
of the plan: proofs of these three, and facts about the abstractions by which the
modules meet, such as the answers `UploadManager` expects of a `Requester`.

## 3. The modules

**`RecordedStream`** is what an encoder promises: samples are accepted in order,
settled in order, each either on disk or dropped, and after the end nothing is.

**`StreamEncoder`** is the native code. A sample is its number in the stream.
`jpc` is where the calling thread is within a call, `wpc` where the writer is; a
critical section of `m_fifo_mutex` is one step, each signal and each test made
outside it a step of its own. `pthread_cond_signal` wakes a writer that waits and
is lost otherwise; `SpuriousWakeup` is allowed by POSIX. An entry has the
numbers it holds and the room of its buffer, so a read behind the end can be
told. An encode that fails may have written a part. `failed` is history: by their
first samples, the entries whose encodes failed, one for each attempt. The
amplitudes are left out.

**`BooPlayer`** has the thread's loop (`IterateReset`, `Iterate`, `Exit`), the
decision matrix, the two kinds of player, and callbacks in two steps: one begins
(on the main thread or on the thread of a `FLACPlayer`), later it gets the lock,
by when its player may have been replaced. `crossed`, `late`, `jumped` and
`meant` are history variables: an `onPrepared` was taken for that of another
player, a timer task outlived its timer, a seek was carried out; and what the
target would be if only calls and the player at work had set it, callbacks of
replaced players (`Stale`) left out. `made` numbers the players. Positions
are reduced to those that are asked for; `getPlayerState()` changes nothing. Not
modelled: that `MediaPlayer` throws when it is told to pause in its error state,
and a timer that cannot be created.

**`UploadManager`** has `process()` as one step (it holds `mUploadLock`), entered
by the queue thread (`Wake`) or by the handler (`Handle`). Offsets are in units,
files a few units long. Since every change of an upload's info is saved before
`process()` returns, memory and file are one variable. `Serve` is one request:
errors of the attempts to get a status (or none), then success, a lost answer, or
a failure; of the last two there may be no message at all. The server is external: it has
attachments and clips. `Kill` is the death and restart of the process. `strayed`
is a history variable: a result was used by another boo or stage than the one it
answers. `crashed` is the exception `FilePartBody` throws for an offset behind
the end of a file. A save is atomic here; torn files belong to `BooFile`.

**`Requester`** is the thread of `API.java` and the session in `Globals.java` that
lives off its answers. The thread is at one place of `run()` at a time: asleep,
polling, registering the source, getting the status, making the request.
`Outcomes` are what a fetch may find: an HTTP code that is stored, or none (an
exception, a 405), an error that is sent, data or not. A message names its
request, whose slot for the data (`mBaton`) all its messages share; it is
handled later, by the main thread, in the order of sending. `Globals`' callbacks
post on to its own handlers, one message each. The status may expire or be
dropped at any time. `sent`, `silent`, `refused`, `exhausted` and `crashed` are
history: what was sent of a request, whether one was given up without a message,
whether the server ever answered 401, how many status requests ended in
ERR_AUTHENTICATION, whether a handler threw. Requests are `status`, `account`,
`unlink` or any other.

**`StreamDecoder`** is the native decoder and the part of libFLAC that drives it.
A file is a header and frames of equal size in units; the last may be shorter in
samples or cut off. `Consume` is the bit reader: it refills by `Capacity` units,
asks the end-of-file callback first, and `cb_read` sets `m_finished` on a short
`fread()`. `DecodeFrame` is one frame, `SeekProbe` one round of
`seek_to_absolute_sample_`. Frames are known by their place; their content, read
errors and corruption are left out. `read()` is one step for each frame decoded.
How large a buffer AudioTrack wants comes with the recording (`buffer`);
`FLACPlayer` takes the larger of that and the decoder's least size, which is one
block, so that a `read()` may decode several frames, or a part of one too many.

**`FLACPlayer`** adds the thread of `FLACPlayer.java`: the loop with pause, seek
and read, the steps between reading `mSeekPos` and clearing it, and the owner that
pauses, resumes, seeks and stops through volatile fields. Positions are samples.

**`Recorder`** is the record button with its countdown and the back key, the
`BooRecorder` that makes a `FLACRecorder` thread for each recording, and the main
thread's queue with the messages of both. Time is counted in chunks, `Second` of
them to a second; the position shown and the limit are in whole seconds, as they
are in `updateRecordingState()`. A countdown that elapses (`CountdownElapses`)
posts to the main thread like the rest, and recording starts when that is taken
(`StartRecording`). Amplitudes are reduced to their position and to whether the
overall and the last ones are one object, since `accumulate()` changes it in place.
`stop()` blocks the main thread (`mpc`). `reported` and `captured` are history: what
a thread told and what the file holds. So are `heard`, `hasty`, `odd` and `behind`:
the amplitudes of the recorder at work have been handled; it began before the END
of the last was handled; the recordings of which a recorder delivered nothing, or
one was hasty; a position shown was less than what was recorded.

**`BooFile`** is the file of one boo and three threads at it: activities and
results, the player that flattens what it plays, the upload queue, which flattens
before the audio and before the image; the main thread flattens too, when a
result brings the image's turn. A save truncates and then writes; it may fail
before or within, as a read may; a reader that finds the file torn deletes it
(`constructFromFile()`). Every holder (`mem`) has its object of the boo, which may
be out of date. The boo the player has been `given` is another matter than the
one its thread is at work on (`player`), since it may be given the next before it
is done; `shared` says which of the two are the activity's own object.
Recordings and flattened files (`files`) are numbered together, and each takes
the number after the highest that is there; `flattenAudio()` deletes the old file
first, so that its number may be taken again. `now` is the file system's coarse
clock; a file that is being written has its last write as its time, complete or
not. `Restart` deletes the boo and goes on with another, `Refresh` rebuilds the
index, and an activity left with RESULT_CANCELED leaves the list below as it was
(`outdated`). `Die` and `Start` are the death of the process at any step and its
restart, which builds the index. `raced`, `disturbed`, `overtaken` and `stale` are
history: accesses that overlapped or failed, a flattening during which something
else began or which was cut short or left recordings out, a boo opened, left or
deleted with another thread at work on it or a draft clicked in an outdated list,
and a flattened file that was taken for complete and is not.

Definitions commented "Mutated form" are not part of the specifications: each is
a plausible mistake in the definition after it, and shows that a property can
tell the difference.

## 4. The runs

| Run | Bounds | Shows |
|---|---|---|
| `stream_encoder` | buffer of 2, writes of 1 to 3 samples, 5 samples, 4 failures | order, accounting, no overrun, nothing given up before it was retried, refinement of `RecordedStream`, release and flush terminate |
| `stream_encoder_release` | 2 samples, no failure | **violated**: a broadcast before the writer's first wait is lost and the join hangs |
| `boo_player` | a remote, a local and an odd boo, positions 0 and 1, 3 calls | the seven properties of `BooPlayer` |
| `boo_player_seek` | same | **violated**: a seek while nothing plays is applied later |
| `upload_manager` | 2 boos, one with image; audio of 3 units, image of 1, chunks of 1 or 2; one failure or death, up to 2 error messages for a request; no wake-up with 2 or more requests and messages pending | the six properties of `UploadManager` |
| `upload_manager_loss` | same | **violated**: a boo is deleted that is not published |
| `requester` | 1 attempt for the status, 2 for the request, 2 retries, 1 call, 2 failures | a success is final and keeps its data, credentials outlive the retries, who waits is told |
| `requester_drop` | 2 attempts each, 2 retries, no call, 4 failures | **violated**: with the network down the credentials are dropped although nothing was refused |
| `flac_player` | recordings of up to 5 frames of 1, 2 or 4 units, whole, cut off or without totals; read-ahead of 3 units; buffers of 1, 1 1/2 and 2 blocks; seeks to 0, 1, 8, 12; 3 calls | what is decoded is in order, a seek lands within a frame, what is lost at the end is bounded, playback ends |
| `flac_player_tail` | same, 1 call | **violated**: the frames in the bit reader when the file ends are not played |
| `recorder` | a second of 2 chunks, limit of 2 seconds, 6 clicks, 2 chunks for each recorder, 1 failure | statistics and durations add up, the position does not lag, nothing is recorded over, a stop returns |
| `boo_file` | audio files numbered up to 3, 2 files of the boo's name, 1 tick of the clock, 4 steps of the user, the network or death | what may be lost, come back, be flattened incompletely or lose a recording |

Why the bounds are enough. *Encoder*: a write that fits, one that fills the
buffer, one that spills and one that is larger than the buffer all occur, with
two entries in the FIFO and two batches; four failures exceed the three retries.
*Player*: three calls suffice to start a boo, replace it while callbacks of its
player are under way and call once more before the thread has looked. *Uploads*:
two requests at once are what it takes for a duplicate, chunks of two sizes let
an attachment be complete with its first, middle or last chunk, and the second
boo is the one results can go astray to. *Requester*: a request that fails once
and is tried again, a status request that sends two errors, a round of retries
that is exhausted and one that begins while messages of the last are under way
all occur; the run would not end with the four attempts of the code, and
`RequesterProofs` shows the safety properties for any number.
*Decoder*: with a read-ahead of three units the end of the file is met with none,
one or two frames still to be decoded, and with part of one; five frames let a
search go in either direction, and buffers of one block, one and a half and two
let a `read()` end with a frame, within one, or after two. *Recorder*: six clicks
are two recordings and more, or one that begins during another's countdown; the
limit is reached by the second, or by the double count of the first. *Boo
file*: three numbers are two recordings and a flattened file, or one recording
whose flattened file is made again and takes its own number or the next; four
steps record, stop, submit and get a result, or record twice (creating a boo,
drawing it and all that threads do on their own cost no step).

Deadlock checking is off in all runs: an encoder is released, calls and clicks run
out, a player or the queue is done. That the systems do not stop too early is what the liveness
properties say.

### Fairness

* *Encoder*: weak fairness of the calling thread within a call and of the writer
  when it can run, which a preemptive scheduler gives. Calls are not fair, nor
  are spurious wake-ups. `ReleaseReturns` excludes the lost broadcast that
  `stream_encoder_release` exhibits.
* *Player*: weak fairness of the playback thread (its sleeps end), of callbacks
  that wait for the lock and of FLAC threads told to stop. Strong fairness of
  `MediaPlayer`'s answer to `prepareAsync()`: it answers, but waits for the main
  thread among other messages. No fairness of the user.
* *Uploads*: weak fairness of the five-minute wake-up, of the handler and of the
  requester. Failures are bounded, so `UploadsEnd` speaks of a network that
  recovers.
* *Requester*: weak fairness of the thread (a fetch times out) and of the main
  thread's messages. Nobody has to call and the status need not expire.
* *Local player*: weak fairness of its thread; the owner does what it likes.
  `PlaybackEnds` speaks of a player that is not left paused.
* *Recorder*: weak fairness of the main thread and of the recorder's thread; no
  fairness of the user. *Boo file*: safety only.

### What disagrees with the code's own words

Five findings, with quotations in `PROJECT.json`:

* the destructor of the encoder that may hang;
* a seek that is not dropped while nothing plays;
* the upload that is deleted unpublished. It has a second face, which
  `UploadsEnd` excludes by `strayed`: the image stage may adopt the audio's
  attachment from a duplicate result, after which server and phone disagree on
  the offset for good;
* credentials that are dropped although nothing was refused: every failure to get
  a status ends in ERR_AUTHENTICATION;
* the end of every recording, up to a read-ahead (8 KB), that is neither played
  nor flattened: `cb_read` says END_OF_STREAM with data delivered.

Six more disagreements are what exceptions in the properties of the passing runs
stand for. Each is a property of its own, which TLC refutes with the
configuration named (`tlc -config RecorderStop.cfg MCRecorder`, and so on); they
are not among the runs of `PROJECT.json`.

| Configuration | Property | What the code says, and does |
|---|---|---|
| `BooPlayerReplaced.cfg` | `PlayIsNotForgotten` | `play()` "[s]tarts playback immediately" (`BooPlayer.java:158-159`). The thread of the last `FLACPlayer`, told to stop for its sake, reports its end afterwards; `FLACPlayerWrapper.java:79` then stops whoever is to play, and the boo never does. |
| `FLACPlayerOverwrite.cfg` | `StoredSideBySide` | `read()` "[r]eads data from the decoder, and writes it into the provided buffer" (`FLACStreamDecoder.java:105`). `write_internal` takes its address before it adds what is in the buffer (`jni/FLACStreamDecoder.cpp:438-439`): where AudioTrack wants more than a block, the second frame is stored over the first. |
| `FLACPlayerCut.cfg` | `EveryFrameFits` | "Should never happen, if the buffer [...] is large enough" (`jni/FLACStreamDecoder.cpp:451-452`). `read()` goes on while the buffer is not full, also when less than a block is left; the frame does not fit, and playback ends. |
| `RecorderOverwrite.cfg` | `RecordsToNewFile` | `start()` will "record to a new file" (`BooRecorder.java:131-132`). One that begins before the END of the last recorder was handled takes its file, which the encoder empties. |
| `RecorderStatistics.cfg` | `LastAmplitudesCount` | "mLastAmp should really be the last set of amplitudes we got from the recorder" (`BooRecorder.java:101-102`). If it delivered none they are an earlier one's, and become the duration of an empty file. |
| `RecorderStop.cfg` | `StopKillsRecorder` | "Pause recording & kill recorder" (`BooRecorder.java:157`). `run()` sets `mShouldRun` (`FLACRecorder.java:280`) after `stop()` has cleared it, and the main thread waits in `join()` for good. |

### What the exceptions in the properties mean

Some properties hold up to an exception that the code really meets; the exception
is a history variable, so the run shows that nothing else breaks the property.

* `OnwardsTold` excepts requests given up in silence (a 401 to the last attempt,
  or an answer without a body) and a handler that throws because the status it was
  told of is gone.
* `PlayStarts` excepts a target set by a callback of a replaced player (`Misled`, see
  `BooPlayerReplaced.cfg`), and `PausedIsPrepared` an `onPrepared` taken for that of
  another player (`crossed`).
* `NotificationCleared` excepts a timer task that outlives its timer (`late`).
* The properties of `UploadManager` except what follows a result that was used by
  another boo or stage (`strayed`); `AttachmentKept` does not.
* `StatisticsAddUp` and `NeverRecordedOver` except a recorder that began before the
  END of the last was handled (`hasty`): the back key during a countdown makes
  that possible, and the recorder then takes the file of the last. The first also
  excepts recordings of which a recorder delivered nothing (`odd` has both). Only
  what concerns such recordings is excepted, and the sum; `RecorderOverwrite.cfg` and
  `RecorderStatistics.cfg` exhibit the cases. `NeverBehind` has no exception: what is
  counted twice makes up for what is counted late.
* `StopReturns` begins once `run()` has set `mShouldRun`; before that there is
  `RecorderStop.cfg`.
* `LossBounded` allows for the frames of an unfinished `read()` and excepts a frame
  that does not fit (`FLACPlayerCut.cfg`).
* `LostOnlyByRace` excepts accesses that overlap with a save, a death within
  one, and an access that fails (`raced`): writing swallows the IOException and
  leaves a torn file, reading deletes what it could not read. So the comment that
  an upload which is not on disk is "completed" (`BooListAdapter.java:243`) is not
  true after such an access.
* `DeletedStaysDeleted` excepts a boo that another thread was at work on when an
  activity was opened or left or the boo deleted, and a draft clicked in a list
  that an activity left with RESULT_CANCELED had not refreshed (`overtaken`): an
  object of the deleted boo is saved, and the file is there again.
* `FlattenedWhole` and `RecordingsStay` except recordings and flattenings that began
  during one, and flattenings cut short by a death or that left recordings out
  (`disturbed`): since the number of the old file is taken again, a partial file
  may carry the name that the saved boo has for a complete one.

## 5. What is proved

`StreamEncoderProofs`, for every buffer size, number of channels and of samples,
and without bound on failures other than the constant:

* `TypeCorrect`, from the inductive `TypeAndControl`. The type alone is not
  inductive: that an encode has a head of the batch to encode, that a big buffer
  is in `pending`, and that the buffer is allocated where it is filled depend on
  the program counters.
* `HandOverInOrder`: batch, FIFO and buffer tile the stream. The invariant is
  inductive together with the type; each move of samples (push, take, drop) has
  a lemma about the layout (`LayoutAppend`, `LayoutTail`, ...).
* `WriterAccounting` and `FileOrder` build on it: what is settled is a prefix,
  and the next entry begins where it ends.
* `BuffersHold` (`NoBufferOverrun`: no copy goes past the buffer it was given):
  neither the buffer nor an entry of the FIFO or the batch is filled beyond its
  room (`Roomy`). `GivenUpWhenRefused` (`GivenUpAfterRetries`): the writer's count
  of retries is the number of failures at the end of `failed` that are of the
  head of the batch (`Retried`), and what is given up begins with the entry that
  was refused; entries that failed less often may have failed before and after.
* `EncoderRefinesStream`: the initial state maps to `StreamInit`, and every step
  to a step of `RecordedStream` or a stutter, from the three invariants.

`BooPlayerProofs`, for every set of boos and positions and any number of calls,
with the inductive invariant `PlaybackInv`:

* `PlayerTypeCorrect`, `PlayerAlwaysFits` (state, player and boo agree) and
  `SoundAndTimer` (sound and progress timer go with the playing states).
  `PlayerFitsState` is not inductive alone. `run()` forgets a pending reset, which
  would leave the old player with the new boo had anything been played before
  (`NothingBeforeRun`), and a reset towards the state NONE would drop the player
  without a change of state (`ResetHasTarget`: only play() asks for a reset).
  The decision matrix enters through one lemma, `ActionFits`.
* `ErrorNeedsPlay` and `NoticeGoesWithTimer`, an action property and the fate of
  the notification, which need only the type and the lemma on decisions.
* `PausedPlayerResumes`: a paused player has been prepared, unless an `onPrepared` was
  taken for that of another player. `onPrepared()` sets its flag before its callback
  waits for the lock; since players are numbered, a callback with the number of
  the player finds the flag set (`Ready`).

`UploadManagerProofs`, for every set of boos, sizes of files and chunks and
number of failures, with the inductive invariant `UploadInv`:

* `UploadTypeCorrect`, `SavedIsTrue` (what is saved of an upload is on the
  server), `PublishedIsWhole` and `DeletedWasPublished`. None of them is inductive:
  what is saved comes from a message, the message from a request, the request
  from what was saved, so the invariant says of each of the three that it is true
  of the server (`UploadTrue`, `RequestTrue`, `MessageTrue`), and of the server that
  no file outgrows its original (`NothingBeyond`) and every clip is complete.
* The argument: the server only grows (`Grows`), and what is true stays true as
  it does (`UploadStays`, `RequestStays`, `MessageStays`); a queue step asks for
  and saves only what is true (`SendKeeps`, `AcceptedTrue`, `QueueKeeps`); a
  served request is answered with the truth (`PerformChunk`, `PerformMetadata`).
  Like the properties, the parts about whose attachment it is hold until a result
  was used for a request it does not answer; that ids are known to the server
  holds beyond.
* `AttachmentIsKept`: no step moves an upload to another attachment or back. This
  one needs no assumption on stray results: `MatchesId` and the comparison with
  what was uploaded are enough.

`RequesterProofs`, for any number of attempts, retries, calls and failures, with
the inductive invariant `RequesterInv`:

* `RequesterTypeCorrect` and `SuccessStaysFinal` (nothing is sent for a request
  after its success, and the success is handled with its data). Neither is
  inductive: a request must be in the queue once and open (`QueueOpen`), the one
  at hand open and in the queue no more (`WorkOpen`), and a success under way must
  have its data in the request (`SuccessStored`). The thread's steps are instances
  of one lemma (`WorkKeeps`), those of the main thread of another (`HandleKeeps`).
* `CredentialsOutliveRetries` (`DroppedAfterRetries`): the errors `Globals` has
  counted together with those that wait to be counted, here or in the API's
  handler, are no more than the status requests that came to nothing
  (`Accounted`). A step of the thread sends at most one such error, as its last
  message (`SendsQuietly`, `SendsLast`); a handler counts or passes on only what
  it has taken (`TakenAway`, `HandleAccounts`).

`FLACPlayerProofs`, for every recording, header, frame size and read-ahead and
whatever the owner of the player does:

* `TypeCorrect`, from `Types`: what the thread relies on at each place of `run()`
  and `read()`. It says that the decoder is within the file, what is consumed
  before what is read, and the bounds of a search with it.
* `HeardInOrder`, from `Ordered`: the decoder is at its end or right before the
  frame that is expected next, and what the `read()` under way has stored leads from
  what was played to there, however many frames fit. While a search goes on
  nothing is said of the decoder: the search ends behind the frame of the target,
  or with an error that ends playback (`SeekProbeCases`). The place of a frame in
  the file and its first sample are related by lemmas about products and
  quotients, which the SMT solver does not find by itself.
* `LossIsReadAhead`, from `Kept`: without a seek the decoder is behind as many
  frames as were played or wait in the buffer, and has read at most one refill
  ahead; `m_finished` means that the file has been read to its end, unless a frame
  did not fit. Only then, and at the end, is a `read()` refused.

`RecorderProofs`, for every limit and any number of clicks, chunks and failures:

* The inductive invariant `IInv` is a conjunction of named parts. `Types` is the type
  with the place of the recorder's thread. `Kept`: what was recorded and has no
  duration yet is the current recording, its recorder or its END is still there,
  and amplitudes by which the duration will be set are handled or in the queue.
  `Told`: for the files as they are, and as they were when each message was sent,
  the statistics, the last amplitudes and the messages in between add up to no
  less. `Alone`: without a hasty recorder at most one recording is pending, its END
  is the last of its messages, and once heard of, its amplitudes are an object of
  their own. `Reported` and `Counted`: what durations and statistics are by then.
* `TypeCorrect`; `PositionCovers` (`NeverBehind`) from `Types`, `Kept` and `Told`, without
  an exception: what is set late, or counted for a file that is emptied, is made up
  for by what the amplitudes count twice. Whole seconds enter by one lemma
  (`DivMonotone`). `RecordingsKept` (`NeverRecordedOver`) from `Kept`: a recorder that
  is not hasty opens a file in which nothing was recorded. `DurationsAddUp`
  (`StatisticsAddUp`) from `Reported` and `Counted`.
* The total is a recursive function. What is used of it (the sum of a sequence
  that grows, or of which one member changes) rests on `Induction`, the induction
  over a set of naturals, which is derived from their well-foundedness.

`BooFileProofs`, for any number of files, ticks, steps and deaths of the process:

* `TypeCorrect`, from `TypeInv`: no object refers to a file that never was, every
  thread has the object its operation needs, and what is shared is one object.
* `NothingLost` (`LostOnlyByRace`), from `Whole`: who writes is alone with the file
  and leaves it whole, who reads has read what is there.

All of it rests on the named assumptions on the constants in the modules
(`SizesAssumption`, `BoosAssumption`, `UploadAssumption`, `RequesterAssumption`,
`DecoderAssumption`, `PlayerAssumption`, `RecorderAssumption`,
`BooFileAssumption`), which TLC evaluates in every run. No theorem has another
hypothesis.

Only model-checked are the liveness properties: `ReleaseReturns`,
`FlushReachesFile`, `PlayStarts`, `UploadsEnd`, `OnwardsTold`, `PlaybackEnds` and
`StopReturns`. Liveness under fairness needs facts about ENABLED, which the
installed provers do not handle. The violations are TLC's as well, and so are `DeletedStaysDeleted`, `FlattenedWhole` and `RecordingsStay`.

## 6. Not modelled

Layout, dialogs, formatting and parsing (`*Activity`, `widget/`,
`ResponseParser`, `NaturalDateFormat`, `TitleGenerator`), value classes, the JNI
helpers, and the vendored libraries (libFLAC, libogg, dnsjava), of which only what
the program relies on is modelled: the encoder's calls, and of the decoder the
bit reader, the frame step and the seek. They make up most of the repository's
lines.

Some parts with state are left out, since what they keep reaches no other part:

* `BooListPaginator`: a page that comes after the type of the list has changed is
  cached for the new type (line 401).
* `ImageCache`: an image that cannot be fetched is never reported (389), and what
  is on disk may be evicted while it is shown (543).
* `BooPlayerClient`, `UploadClient`: the stub may be null when a listener calls
  (`BooPlayerClient.java:299`). `Globals`: a polling of the location is not
  cancelled (`Globals.java:876`).

Hazards at the edge of the models, which no property covers:

* A second upload manager after the service was made again in the same process
  (`AudiobooService.java:120`), and the deletion of an encoder whose `init()`
  failed (`jni/FLACStreamEncoder.cpp:604`).
* With two channels the encoder passes values as samples per channel
  (`jni/FLACStreamEncoder.cpp:346`): `EncodesOnlyWritten` of `StreamEncoder` states
  it and would be violated; the recorder prefers one channel.
* `m_cur_pos` of the decoder counts the values of all channels.
* A seek to 0 is ignored by `FLACPlayer`, and one between the thread's read of
  `mSeekPos` and its reset is lost (`FLACPlayer.java:186`).
* An `AudioRecord` is not released if the encoder cannot be made, and leaving the
  activity during a countdown leaves the microphone running.
* The position counts earlier recordings twice (`BooRecorder.java:92-94`), so the
  limit is reached early; `NeverBehind` says that it is never reached late.
* Two flattenings of one boo may write the same target file, and a recording that
  is added while `flattenAudio()` walks the list ends the process: steps of
  `BooFile`, which `disturbed` marks.
* After a submission the activity's object may be saved by the player and take the
  upload's progress back: steps of `BooFile`, but no property is about it.
