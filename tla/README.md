# HelloFFmpeg: a verification project

TLA+ models of the programs in `src/`, the TLC configurations that check them on
small instances, and proofs for every value of the constants that TLAPS checks.
The repository is a collection of multimedia exercises for Windows: a program
that records sound into a WAV file through OpenAL, a copy of the Creative
OpenAL sample framework, FFmpeg's muxing example, and the small `seeker` header
library.  It has no tests; the code and its comments are the reference.

## The system

| part | source | state it keeps | operations | talks to |
|---|---|---|---|---|
| AudioCollector | `capture_audio/include/AudioCollector.h` | a capture device pointer, its format | constructor, open, start, stop, availableSamples, captureSamples, close | OpenAL capture, whose driver thread fills a ring |
| WAV writer | `capture_audio/include/wav_writer.hpp` | a stdio stream, data_length | wav_write_open, _data, _close | stdio |
| capture_to_wav2 | `capture_audio/src/capture_audio_to_wav2.cpp`, `main.cpp` | a block buffer, the count of waiting frames, the start time | one pass from set-up to close | the two above and the system clock |
| capture sample | `examples/openal/Capture.cpp` | a block buffer, a file, the start time, what it acquired | one pass from ALFWInit to ALFWShutdown | Framework, OpenAL, stdio, a wrapping clock |
| older captures | `capture_audio_to_wav.cpp`, `..._aac.cpp`, `..._aac2.cpp` | as above, written on OpenAL directly | one pass | OpenAL, stdio |
| WAV reader | `capture_audio/include/wav_reader.hpp` | a stdio stream, the header's fields, data_length | wav_read_open, _data, _close | stdio |
| AacAdtsEncoder | `capture_audio/include/AacAdtsEncoder.h` | a codec context and a file | constructor, encode | FFmpeg |
| CWaves | `alFramework/src/CWaves.cpp` | a table of 1024 wave ids, open FILEs, file positions | Load/OpenWaveFile, ReadWaveData, SetWaveDataOffset, DeleteWaveFile, queries | stdio |
| Framework | `alFramework/src/Framework.cpp` | the global CWaves, the current context | ALFWInit, ALFWShutdown, ALFWLoadWaveToBuffer, ALFWInitOpenAL, ALFWShutdownOpenAL | CWaves, ALDeviceList, OpenAL |
| ALDeviceList | `alFramework/src/aldlist.cpp` | the list, the default's index, filterIndex | constructor, three filters, ResetFilters, the walk | OpenAL |
| LoadOAL | `alFramework/src/LoadOAL.cpp` | a table of function pointers | load, unload | the library loader |
| muxing | `muxing/muxing.cpp` | two output streams, their encoders, a file | main | FFmpeg |
| SqliteDB | `include/seeker/database.h` | the process's database handle, init's flag | init, perpare, exec, lastInsertRowid | SQLite, any thread |
| Logger | `include/seeker/logger.h` | spdlog's default logger, its thread pool and its flusher | init, log calls, the destructor at exit | spdlog, every thread that logs |
| spdlog, as Logger uses it | `include/spdlog/` | a circular queue, the registry, a worker and a flusher thread, a daily file | log, flush, flush_every, drop_all, shutdown | stdio |
| String, Secure | `include/seeker/*.h` | static variables | - | Botan |

What is hard in it, part by part, is the `hazards` list of `PROJECT.json`, with
a line of code for each.  In short: the recorder is a consumer that polls a
bounded device filled by another thread and writes with unchecked calls; the
wave table hands out ids and open files and loses some of them on error paths;
the muxer must get delayed packets out of two encoders before it finishes the
file; the device list computes an index before it knows the list; and the
database handle is a lazily constructed static behind an unlocked flag.  The
reader must make sense of files whose writer died, with unsigned lengths that
wrap; and the logger passes messages through a bounded queue between threads
that wait for each other's mutexes, room and end when the process exits.

What makes each part correct:

- *recorder*: no frame repeated, reordered, invented or silently lost in the
  program; the file is whole when the program ends and honest when it dies;
  the program ends;
- *wave table*: ids stay with their owners, files and slots are accounted for,
  streamed reads stay inside the audio data;
- *device list*: no duplicates, filters compose, a walk neither skips nor
  repeats, the default's index is an index of the list;
- *muxer*: each frame is in the file once and at its time, the streams stay
  abreast, nothing is missing before the trailer, the program ends;
- *database*: nothing runs without a database, and init means its own file;
- *capture sample and reader*: what is on the disk, however the recording ended,
  is what a reader gets; every way out of the program releases what it acquired;
- *logger*: an accepted message is written once and in order and is in the file
  when the process has ended normally; warnings are flushed at once and the rest
  soon; the shutdown ends.

## Modules

| module | models | checked by | proofs |
|---|---|---|---|
| `CaptureDevice` | the OpenAL capture device (external) | with the modules that use it | with CaptureToWav |
| `AudioCollector` | the class over the device | with the modules that use it | with CaptureToWav |
| `WavWriter` | the WAV writer over stdio | with CaptureToWav | with CaptureToWav |
| `CaptureToWav` | `capture_to_wav2` over both, with its surroundings | `wav_safety`, `five_seconds` | `CaptureToWav_proofs` |
| `Recording` | the abstract recorder | as the property `ImplementsRecording` | `Implementation` |
| `CollectorFormats` | AudioCollector used with any format it accepts | `collector_stereo` | - |
| `Waves` | the CWaves table | with Framework | `Framework_proofs` |
| `Framework` | the framework's loader beside a program's own table | `wave_table` | `Framework_proofs` |
| `DeviceList` | ALDeviceList | `device_list`, `device_default` | `DeviceList_proofs` |
| `Muxing` | the muxing program | `muxing` | `Muxing_proofs` |
| `SqliteDB` | SqliteDB used by several threads | `sqlite`, `sqlite_failed_init` | `SqliteDB_proofs` |
| `OpenALSession` | ALFWInitOpenAL, ALFWShutdownOpenAL and the loader's life | with CaptureSample | `SampleRoundTrip_proofs` |
| `CaptureSample` | the capture sample over both, with its surroundings | with SampleRoundTrip | `SampleRoundTrip_proofs` |
| `WavReader` | the WAV reader over a file of chunks | with SampleRoundTrip | `SampleRoundTrip_proofs` |
| `SampleRoundTrip` | the sample, then the reader on its file; implements `Recording` | `sample_round_trip` | `SampleRoundTrip_proofs` |
| `LogQueue` | mpmc_blocking_queue over circular_q | with AsyncLogger | `AsyncLogger_proofs` |
| `AsyncLogger` | Logger, the registry, the worker and the flusher; implements `Recording` | `async_logger` | `AsyncLogger_proofs` |
| `DailyFileSink` | the daily file sink used by several threads | `daily_file` | - |

`PROJECT.json` maps each definition to the lines it stands for.  Definitions
marked as mutants are wrong variants that the properties must reject; no
specification uses them.

### AudioCollector, WavWriter, CaptureToWav

A sample frame is its number: the k-th frame the microphone delivered is k, so
"in order, once" can be stated about the file.  `ring` is the device's buffer,
with the capacity that `open()` asks for.  `captureSamples` hands over what it
was asked for if the device has it; if not, OpenAL reports an error, the class
does not look, and the caller's buffer keeps its old content - which is what
makes `HeardInOrder` worth stating.

`pc` names the program's next call.  A call that touches shared state is one
action, and reading `availableSamples` and acting on it are two, because the
driver thread runs between them.  `wav_write_close` is two actions, since the
flush by `fseek` and the final header reach the disk separately.  The file is
kept as the program sees it (`data`) and as a killed process leaves it
(`disk`); how much stdio has written out in between is left open.  An exception
ends the program (`terminated`), a NULL writer crashes it (`crashed`), anyone
may kill it.

`fresh` and `late` are history variables: the number of frames delivered since
the loop last found at most a block waiting, or took one, and whether that
number was ever more than a block.  They say what "the loop was in time" means.

`CollectorFormats` lets a caller use the class with any format that its
constructor accepts; `CaptureToWav` uses 16 bit mono only.

### Waves, Framework

`m_WaveIDs` is the table, `handles` the number of FILEs the process has open.
Positions count from the start of the audio data, in the arithmetic of
`unsigned long` with a small range.  The file kinds are those that `ParseFile`
tells apart, and sizes are given twice - what the data chunk claims and what
the file holds - since a truncated file and a file with chunks behind the data
are where the clamp of `ReadWaveData` matters.

`g_pWaveLoader` is visible only inside `Framework.cpp`, so `Framework` composes
*two* tables: `Loader`, an instance of `Waves` that only the framework's
functions reach, and the program's own.  They compete for file handles.
History variables: `owned` (ids a caller holds, and for which file), `leaky`
(a call forgot an open FILE), `refused` (loads that left their slot behind),
`misused` and `strayed` (an offset behind the data was set, or a size was asked
for with which the sum of `ReadWaveData`'s comparison wraps; a read gave out
bytes that are not audio data).  `HandlesBalanced` and `SlotsAccountedFor` hold
up to exactly the paths on which the code forgets a FILE or a slot, and
`ReadsStayInData` up to these two misuses: they count known losses and show
that there are no others.

### DeviceList

The constructor's loop is one action per enumerated device, which is skipped or
reports a name, a version and extensions.  A device that reports NULL as its
name is skipped in an empty list; behind the first entry the code passes the
NULL to `strcmp` before it looks at it, and such devices are left out.  Then
filters, resets and walks happen in any order.  `applied` and `walk` record the
filters since the last reset and the indices returned by the current walk.

### Muxing

An encoder is a set of held frames.  Given a frame it may give the packet of any
frame it holds, and must when it would otherwise hold more than its delay;
packets need not come in the order of the frames, since the program turns
B-frames on for MPEG-2.  Given NULL it gives out one held frame per call.  Time
stamps stay in the codec's time base: `av_packet_rescale_ts` changes their unit
only, and is left out.  The
set-up goes stream by stream, video first; the audio stream's second counter,
`samples_count`, is what its time stamps come from.  A failing FFmpeg call ends
the process, as in the code.  The file is, per stream, the time stamps of its
packets and their number; the muxer's interleaving is FFmpeg's own.

### SqliteDB

`CheckFlag` and `SetFlag` are separate because `inited` is an ordinary
variable.  The function-local static is modelled as the language defines it:
`guard` is the thread that runs the constructor, others wait, and a constructor
that throws leaves the instance for the next one.  The unsynchronised accesses
to `inited` are formally a data race; the model gives them the outcome that
builds produce for a plain flag, a stale read.  What `perpare` and `exec` do
with the instance is one use of it, a throw for bad SQL included.

### OpenALSession, CaptureSample, WavReader, SampleRoundTrip

The sample's `pc`, device, buffer and file are modelled as in `CaptureToWav`.
What differs is what may go wrong: three set-up steps may fail, each with its
own way out; the clock is a `DWORD` that wraps, so `TimeLimit` is taken modulo
its range; a key may end the loop at any pass; the drain comes after the stop
with a reading of its own; and the header is patched by two writes, each of
which may fail, or reaches the disk with the next call.  `held` is what the
process acquired in `ALFWInit` and `ALFWInitOpenAL` and has not released.

The reader sees a file as a sequence of chunks with the size their header
claims, the bytes that are stored and the position of these in the file, so
that what a streamed read gives out is the distance from the data to the end of
the file.  Its lengths are `uint32_t`, with 65,536 values in the run, so that
`~0` minus a few headers stays above every size.  `CaptureWav` is the sample's
file as it lies on the disk when the process has ended or was killed.  The
foreign files are those that `wav_writer.hpp` leaves (closed, killed, with a
failed write), and files with chunks around the data, cut short, with a length
that is too small, streamed, without data, and with formats, plain and
extensible, that are too short for their chunk, before the data or behind it.
A format is "plain" or "extensible" because the reader looks for the extension
of the latter only after it has taken over the format (`PlainPartRead`).

A file is one RIFF/WAVE chunk, so the reader's outer loop, which skips what is
not RIFF or not WAVE and looks for the next chunk, only finds the file's end.
`FilesAssumption` names what else is left out: RIFF lengths of 1 to 3, at which
the reader looks for another RIFF chunk at once; something behind what the RIFF
header claims, where it would look for one too, except for the data of a
recording that was not closed, if no bad chunk keeps the reader from it; chunks
of odd size, whose padding the reader does not skip; and streamed files of 4
GB, or in which the reader finds no data, because there is none or because a
format before the data is too short.  There the code's `fseek` of a `uint32_t`
depends on the width of a `long`; where that is 64 bits, the code goes on to
read at byte 0 of the file and gives out its header as data.
`RecordingAssumption` says that two seconds of sound fit a 32 bit length, which
the sample takes for granted.

### LogQueue, AsyncLogger, DailyFileSink

`LogQueue` has the steps of the queue: what is done under the mutex is one
action, the notification after it another, and the sleepers of the two
condition variables are sets, of which `notify_one` removes any member.  The
queue's variant for MinGW, which notifies before it unlocks, has fewer
interleavings and is not modelled separately.

`AsyncLogger` puts the threads around it: callers, of which `Main` constructs
and destroys the Logger, the worker of the pool, and the flusher, which runs
`flush_all` with its own mutex and that of the logger map held.  The three
modes are the asynchronous and the synchronous logger and the constructor that
could not open the file.  `registered`, the items on their way and the worker's
`hand` are the references to the logger; who drops the last closes the file.
`written` is what `fwrite` was given, `disk` how much of it stdio has certainly
written out.  `accepted` is a history of the messages in the order in which the
logger took them over, into the queue or the file: the frames that `Recording`
hears.  The file itself does not fail here; the sink's rotation, with an
open that may, is `DailyFileSink`, whose threads stamp a message before they
lock the sink.

## Runs

| run | question | bounds | states |
|---|---|---|---|
| `wav_safety` | is every frame accounted for, ordered, in the file, also when writes fail; is the header honest; does it implement `Recording`; do both loops end | device of 4 frames, blocks of 2, 8 frames, clock step 4000 ms, one set-back | 321,587 |
| `five_seconds` | *violated*: "Record for 5 seconds" | clock step 1000 ms | |
| `collector_stereo` | *violated*: are the bytes reported those placed, for 16 bit stereo | 2 frames or more | |
| `wave_table` | ids, handles, slots and reads | one file of each of six kinds, 3 slots, 3 handles, reads of 1, 3 and 63 bytes | 119,480 |
| `muxing` | frames, their times, trailer, end | 10 video and 6 audio frames, delays 2 and 1 | 3,916 |
| `device_list` | duplicates, filters, walks | 3 devices enumerated, 2 filters | 269,720 |
| `device_default` | *violated*: is the default's index one of the list | as above | |
| `sqlite` | races, failures and waiting | 3 threads, 2 files, 2 calls each | 75,232 |
| `sqlite_failed_init` | *violated*: does "inited before" mean inited | 2 threads, 1 file | |
| `sample_round_trip` | does the sample implement `Recording`, does the reader get what is on the disk, is everything released, does the recording end | device of 4 frames, blocks of 2, 5 frames, a clock of 4 values, reads of 3 and 8 bytes, 13 foreign files | 330,903 |
| `async_logger` | is the log complete, ordered and flushed, does the shutdown end | 2 threads, queue of 2, 1 log call each and the destructor's | 121,864 |
| `daily_file` | *violated*: do errors of the file throw | 2 threads, days of 3 minutes | |

Why the bounds are enough.  *Recorder*: eight frames fill the device twice over
and may leave a full block and a rest of one frame for the drain loop; two
clock steps exceed the limit, and the third is the set-back.  *Wave table*:
three slots leave room to delete in the middle and to fill up; three handles
run out before, with and after the slots; `unsigned long` has 64 values, above
any sum of sizes and offsets, and a read of 63 bytes makes every sum wrap but
that at the start of the data.  *Device list*: three devices are the least with
a device before, at and behind the default; two filters show composition.
*Muxing*: the audio frames do not divide the duration, the time bases differ,
ties occur, and the two delays differ.  *Sample*: five frames leave more than a
block behind the stop, and the clock wraps at each of its four values; a
foreign file is read instead of a recording, never beside it.  *Logger*: three
messages and a flush request overfill the queue of two, so that callers, the
destructor and the flusher all have to wait for room, and its three slots wrap.
`TwoSecondsPass` is a bound on time: the flusher asks again only when the
worker is done with its last request; a flusher that was told to end does not
wait for it.  *Database*: three threads are the least with one that constructs,
one that waits and one that comes later.

`CHECK_DEADLOCK FALSE` is set for `SqliteDB`, `DailyFileSink` and
`CollectorFormats`, whose threads stop after a bounded number of calls or
minutes and whose caller stops when it has closed the collector; the other
specifications have an explicit stuttering step at their end, or never end.

### Fairness

`CaptureToWav!FairSpec`: the program's thread is scheduled and time passes
(weak fairness of `Program` and `Tick`).  Nothing obliges the microphone to
deliver, the user to touch the clock or anyone to kill the process.
`Muxing!FairSpec`: the one thread is scheduled; no call is obliged to fail, and
an encoder that is flushed gives out its frames.  `SqliteDB!FairSpec`: a thread
inside a call is scheduled.  Strong fairness is not needed there: a thread that
waits for the constructor of the static is either overtaken by one that
succeeds, after which its own `Exists` stays enabled, or, as each thread makes
finitely many calls, waits only for finitely many failures.
`SampleRoundTrip!Spec`: the sample's thread is scheduled and its clock goes on;
a pass of the loop takes less than a unit of the clock (`polled`).  No key is
pressed and nobody kills.

`AsyncLogger!Spec`: every thread is scheduled, and the flusher's two seconds
pass.  Strong fairness is assumed for getting a mutex or room in the queue that
is free again and again: in the code it is free for two seconds at a time.  What
is *not* assumed is that a sleeper wakes up unless it is notified
(`SleeperWakesUp` has no fairness, although the worker's wait has a timeout), so
that a lost notification would show; nor that any thread logs or the process
exits.

## What the runs found

- The loop under "Record for 5 seconds" runs for eight (`five_seconds`).
- A collector for any format but 16 bit mono misreports its bytes, because
  `open()` asks the device for 16 bit mono always (`collector_stereo`).
- `GetDefaultDevice` returns a place in the enumeration, not in the list
  (`device_default`); when all devices are listed it is right
  (`DefaultWhenAllListed`).
- `SqliteDB::init` marks the database as inited before it is open
  (`sqlite_failed_init`).
- When the daily file cannot be opened at a rotation, the old one is closed
  already; a message that another thread stamped before the rotation and that
  reaches the sink after it does not rotate, and is written to a null `FILE`
  (`daily_file`), although the class comment says that errors throw.

Modelled but not stated as properties, as nothing in the repository says
otherwise: a NULL WAV writer crashes the recorder; `ParseFile` and
`OpenWaveFile` each forget an open file on one path; `ALFWLoadWaveToBuffer`
keeps a slot when the sample format is not supported; `ReadWaveData` reads on
behind the data after an offset behind it or with a size that makes its sum
wrap; `ALFWInitOpenAL` does not delete an empty device list; the log file that
is rotated at 23:59 gets the name of the day that ends and most messages of the
next; `Logger::init` never sets its flag, so that its second message about an
earlier init cannot appear.

## Proofs

Seven modules of theorems.  Every safety property that a passing run checks, and
the refinements of `Recording`, are theorems of their specifications.
The proofs start from the named assumptions on the constants only: sizes are
positive, the program's format is 16 bit mono, the empty file name is no
database file, the logger's threads are not called what its own two are, and
three on sizes and files.  `WavesAssumption`: the sizes of a wave file and an
offset add up to less than an `unsigned long`, though with the size of a read
they need not.  `FilesAssumption` is about the foreign files and
`RecordingAssumption` about the length of a recording; both are described above.

`CaptureToWav_proofs` builds its invariants on each other:

1. `TypeOK` is inductive together with what the control point says about the
   counters (`TypeCorrect`).
2. `Place` says for each `pc` what is known of the device, the writer and the
   two counts; above all that the last reading of `availableSamples` is still a
   lower bound, as only the program takes frames out.  It gives
   `RequestIsBacked`, without which no capture could be shown to overwrite the
   part of the buffer that is then written.
3. `Headroom` bounds the waiting frames by a block plus the fresh ones.  As two
   blocks fit into the device - the reason for the program's division by
   `blockAlign` - an overrun implies lateness: `LossOnlyWhenLate`.
4. `Conservation` and `HeardInOrder` follow step by step: each action moves
   frames inside `Heard`, appends one, or drops a failed write.
5. `DiskInv` relates the two views of the file: `HeaderNeverOverclaims`.
6. `Exact` (nothing lost and nothing unstored: `Heard` is exactly what was
   delivered) with all the above: `CompleteWhenDone`.
7. `Implementation`: initial states map to initial states and each step to a
   step of `Recording` or to a stutter, on both kinds of file systems: where
   writes may fail, a failed one maps to a `Save` that refuses the frames behind
   the saved ones (lemma `CutOut`); `MayRefuse` is `WriteMayFail`, so that where
   they do not fail nothing is refused.

`SqliteDB_proofs`: `TypeInv` adds to the types that `guard` is exactly the set
of threads at the constructor and has at most one member (`TypeCorrect`);
`InstanceInv` that who returned normally left an instance (`UsesCorrect`, and
with it `FinalCorrect`, an action property); `FlagInv` and `FileInv` that, as
long as nobody raced, at most one thread is between the flag and the end of its
init, and only such a thread has a file name (`InitCorrect`).

`AsyncLogger_proofs`, for every set of threads, number of log calls and size of
the queue: `TypeOK` is not inductive, since what a dequeue finds depends on
where the two indices are.  `TypeInv` says slot by slot that what lies between
them is an item (`QueueInv`; `EnqueueKeeps` needs that the blocking queue waits
for the free slot, and so gives that it never overruns), that what a thread
posts is an item and, in the synchronous mode, a message (`CallInv`), that what
the worker writes is a message (`PoolInv`), and that a logger with a file has
its `flush_on` level (`ControlInv`): `TypeCorrect`.  `WarningsCorrect` needs
`TypeInv` only: three lemmas say what a step that writes, one that flushes and
one that does neither does to a warning on its way to the disk, and each action
is one of the three.

`Implementation` of the logger needs two more invariants.  `OrderInv`: the file
holds the first accepted messages, the worker's hand the next one, and a
function counts the accepted messages up to each place of the queue, from there
to the last.  `EnqueueQueued` and `DequeueQueued` say what the two operations
on the array mean for the queue as a sequence: enqueue extends that function
and dequeue shifts it (`EnqueueOrder`, `DequeueOrder`).  `ShutdownInv` is about
the destructor: who rests has nothing to post (`RestInv`); once the logger is
dropped nobody but `Main` is in a call (`EndingInv`); the terminate message is
the last one in the queue, so that a worker that has ended left nothing behind
(`TerminateInv`); and a dropped logger is still referred to, in the queue or in
the hand, or its file has been closed (`ClosedInv`).  The last two give that
all that was accepted is on the disk when `Main` is done (`DoneSeals`);
`OrderInv` alone, that every other step is a step of the recorder or a stutter
(`StepRecords`).

`SampleRoundTrip_proofs` has two layers.  `SampleInv` is about the program:
what is acquired, open and capturing at each call (`HeldInv`, `DeviceInv`,
`FileInv`), that the last reading of the waiting frames still holds or is
overtaken (`RingInv`: a block is taken only when there is one, and behind the
drain the device is empty), that no more is stored than was asked for and no
more asked for than was delivered (`CountInv`), and what a killed process leaves
on the disk at each point between the header's two writes (`DiskInv`).  It gives
`ReleaseCorrect`, and `Implementation` with the lemmas `TakeSaves` and
`DeliverHeard` on what a request and a delivery do to `Heard`.  `ReaderInv` is
about the reader.  It is stated on the positions of the chunks: in its loop,
`length` is what the RIFF header leaves behind the current chunk's position
(`OpenInv`); a data chunk that *can* be reached is found or still ahead
(`FoundInv`, with `Reaches`), so that a streamed file is never read from its
start; and the position in the data is the smaller of what the reader has
counted down and what the file has (`PosInv`, lemma `Layout`), which is also
true behind a chunk that claims more than is stored.  `CaptureFacts` shows that
the file of each state of the program is one in which the reader reaches the
data, and so `RoundTripCorrect` joins the two.

`Framework_proofs` is about any number of slots, handles and files and any
width of `unsigned long`.  `TableInv` says that a slot is free exactly if it
holds nothing, `HandleInv` counts the open files of both tables in the
process's handles (a load or an open changes one slot, so each count by one),
`OwnerInv` that the slots taken are those of the ids handed out, `LoaderInv`
that the framework's own table never keeps an open file and keeps one slot per
refused load.  `ReadInv` is why reads stay in the data: unless an offset behind
it was set or a size asked for that makes the sum wrap, a stream is within the
data, or at the end of what the file has; clamping in unsigned arithmetic is
right only then.

`DeviceList_proofs`: `ScanInv` relates the list to the part of the enumeration
that has been looked at (and so `DefaultCorrect`), `ListInv` its indices,
`FilterInv` each device's flag to the set of filters in force, and `WalkInv`
says that the walk is increasing, that its last index is `filterIndex - 1`, and
that it has passed no device that is still selected: `WalkComplete` alone is
not inductive, as it speaks of finished walks only.

`Muxing_proofs`: `ControlInv` says which calls have been made at each `pc`;
`CountInv` that a stream's next time stamp is the time of the frames generated
and is less than a frame behind the duration's end; `PacketInv` that the
packets in the file and the frames in the encoder are the frames generated,
apart; `FlushInv` that a stream whose `encode` is cleared is empty.  The time
bases enter only as positive numbers, through lemmas on products
(`TimesMonotone`, `DivTimes`).

### What is only model-checked

`Termination`, `CallsReturn`, `EndsInTime`, `WrittenReachesDisk` and
`ShutdownEnds` are liveness under fairness, which is beyond this prover, as are
ENABLED and induction over data.  The sequence lemmas used are those of the
library and ones proved pointwise; where a count along a sequence is needed, as
in the logger's queue, an invariant carries it as a function.

## What is not modelled

The byte content of sound, headers and pictures; LoadOAL (a table of pointers);
AacAdtsEncoder, which nobody instantiates and whose constructor writes through
a pointer it never set; `capture_audio_to_aac2.cpp`, which repeats
`capture_to_wav2` line by line, and `capture_to_wav` and `capture_to_aac`,
which nobody calls and which are the sample's loop over the WAV writer, both
modelled; the string functions and the random numbers, which are pure and have
no caller in the modelled parts; of spdlog, what the Logger does not set up
(other sinks, policies, pools and loggers, backtraces) and the formatting of
messages; a file system that fails under the asynchronous logger; a failing
write of the WAV writer's final header, which leaves the length 0; the reader's
search for a second RIFF chunk; a device that reports NULL as its name; asio,
which nobody includes, and fmt.  By size the vendored headers are nearly the
whole source tree, so the share of it that the models stand for is small and
will stay so; of the repository's own programs and libraries every stateful
part is modelled.  Each part has its reason in `PROJECT.json`.

## Plan

Order of the work, the most important behaviour first; all of it is done.

1. `AudioCollector`, `WavWriter`, `CaptureToWav` with `Recording`.
2. The proofs about them.
3. `CollectorFormats`.
4. `Waves` and `Framework`.
5. `Muxing` and `DeviceList`.
6. `SqliteDB` and its proofs.
7. `OpenALSession`, `CaptureSample`, `WavReader` and the round trip.
8. `LogQueue`, `AsyncLogger` and `DailyFileSink`.
9. `Implementation` also when writes fail.
10. `AsyncLogger_proofs`.
11. The proofs about the wave table, the device list, the muxer and the sample
    with the reader.
12. The proof that the logger implements the abstract recorder.
