# TLA+ models of avidemux

This directory models the parts of avidemux in which the order of events
decides what is shown and what is saved: the editor with its segments, its ring
of decoded pictures and its undo queue, the cache of the video filters, the
queues between threads, the encoder and the muxing loop with the times they
give to pictures and sound, the threaded sound output, and the job window with
its child processes. Every definition is translated from the C++ source;
`PROJECT.json` gives, for each of them, the file and the lines it stands for,
and says of each part of the program whether it is modelled. TLC checks small
instances, TLAPS proves what matters most for every value of the constants.

    tlc -workers 2 -config MCVideoFilterQueue.cfg MCVideoFilterQueue
    tlapm VideoFilterQueueProofs.tla

## 1. Inventory

| Part | State | Operations | What makes it correct |
|---|---|---|---|
| Threaded queues (`ADM_threadQueue`, `ADM_videoFilterQueue`, `ADM_audioAccess_thread`) | run state, two vectors of buffers, a mutex, two conditions | startThread, getNextFrameAs / getPacket, run and runAction, stopThread, destructors | frames come out once, in order and whole; no call blocks for ever; no frame is used after it was freed |
| Threaded sound output (`audioDeviceThreaded`, PulseSimple) | linear buffer with two indexes, stop request, server handle | init, writeData, getBufferFullness, stop, Loop, sendData | every block played once and in order; one thread per device; stop returns once the server answers |
| Undo queue (`ADM_edUndoQueue`) | vector of records, counter | addToUndoQueue, undo, redo, clearUndoQueue | undo and redo step through the layouts one by one; no index leaves the vector |
| Segments (`ADM_segment`) | list of parts of the input files, clipboard | cut, truncate, copy, paste, append, open, reset, conversion of times | an edit removes and keeps what it was asked to; each picture of the film is found; a project read back gives the same film |
| Editor cache and decoding (`EditorCache`, `ADM_edRender*`) | ring of images with times, last decoded and last read time, current segment | getFreeImage, validate, invalidate, flush, getAfter, getBefore; seek, next, previous | the picture on screen is the one of the position, next and previous go one picture on and back |
| Filter cache (`VideoCache`, bridge, `goToTime`) | entries with frame number, lock and age; numbering of the bridge | getImageBase, unlockAll, flush, getNextFrame, goToTime | the filter gets the pictures it asked for, and keeps them until it unlocks |
| Encoder timestamps (`ADM_coreVideoEncoderFFmpeg`) | pictures in flight, queue of decode times, delay | preEncode, encodeWrapper, postEncode, getRealPtsFromInternal | every picture keeps its time, decode times go forward and never pass it |
| Muxing loop (`muxerFFmpeg::saveLoop`) | packet in hand of each track, last decode time, delay of the sound | take a picture, write the sound that is due, write the picture | decode times increase, sound and picture stay in step, the outcome says what was written |
| Jobs (`jobWindow`, `ADMJob`, sockets, `ADM_slave`) | table of jobs, list in memory, job in hand, connections, children | run one, run all, delete, force a state, clean up; connect, greet, report | each job gets the result of its own child, none stays Running, one child saves at a time |
| Playback (`gui_play`) | clock, frame and packet in hand | run, audio pump | real time |

Codecs, demuxers, the pixels of filters, the user interface, preferences,
scripting and vendored libraries (which are most of the lines of the tree) have
no protocol of their own: they transform data, or do input and output.
`PROJECT.json` lists them, and the code that no build reaches, as not modelled.

### How the parts interact

    files --> segments --> decoding and editor cache --> preview
                 ^                     |
             undo queue                +--> bridge --> cached filters (VideoCache)
                                                            |
    muxer <-- encoder <-- ADM_videoFilterQueue <------------+
      ^-- ADM_audioAccess_thread <-- audio encoder <-- audio track
    player --> audioDeviceThreaded --> sound server
    job window --(process, socket)--> child: script, A_Save, muxer

The chain is pulled from the left: the saver asks the encoder for a packet and
the audio queues for sound; each queue has a thread that pulls from what is
behind it. Queues and sound device share memory between two threads under a
mutex, with a few accesses that do not take it. Segments, editor, undo queue,
filter cache, encoder and muxing loop are called inside one thread and are hard
for their long sequences of legal calls and for the times that go through them.
The job window talks to other processes.

## 2. Hard behaviours

`PROJECT.json`, `hazards`, lists them with their lines and the properties that
would catch them. They are of these kinds:

* interleavings around the accesses made without the mutex: run state, last
  append of the audio thread, destructors that walk the vectors, stop request
  of the sound device, its read position;
* waits that end by giving up: the polls of `stopThread` and of
  `audioDeviceThreaded::stop`, the six seconds of `waitForConnect`;
* state that is stale when used: cache entries after a seek or a failure, the
  last decoded time after a seek answered from the ring, the counter of the
  undo queue, a reference into a list that is built again, start times of
  segments after an edit before them;
* order: decode times made up from display times, two pictures in one tick of
  the encoder or of the container, sound that may not run ahead;
* capacities at their boundary: buffers, undo limit, cache entries, ring of
  images smaller than the reordering;
* steps that fail half way: a picture the editor cannot give, a key picture
  that cannot be decoded, a packet that cannot be written, a child that dies.

## 3. Modules

| Module | Models | Remarks |
|---|---|---|
| `FrameFifo` | abstract: bounded first-in first-out queue with an end and a destruction | what the two threaded queues promise |
| `ThreadQueue` | `ADM_threadQueue.cpp`, `admCond`, `BVector::append` and `setCapacity` | base of the next two |
| `VideoFilterQueue` | `ADM_filterThread.cpp` | extends `ThreadQueue`, refines `FrameFifo` |
| `AudioAccessThread` | `audiofilter_thread.cpp` | extends `ThreadQueue`, refines `FrameFifo` |
| `AudioDevice` | `ADM_audioDeviceThreaded.cpp`, PulseSimple, the pump of `gui_play.cpp` | |
| `EditHistory` | abstract: past, present, future | what undo and redo promise |
| `UndoQueue` | `ADM_edUndoQueue.cpp` with its callers in `gui_main.cpp` | refines `EditHistory` |
| `Segments` | `ADM_segment.cpp`, reading back of a project | properties refer to `Film`, the pictures a list shows |
| `EditorCache` | `ADM_edCache.cpp` as operators | used by the next |
| `EditorRender` | `ADM_edRender.cpp`, `ADM_edRenderInternal.cpp`, `ADM_edSearch.cpp`, the calls of `ADM_previewNavigate.cpp` | loops as functions of the number of rounds |
| `EditorFilms` | what a film has to be for the theorems on `EditorRender` | TLC checks it of the films of `editor_render` |
| `VideoCache` | `ADM_videoFilterCache.cpp`, `ADM_videoFilterBridge.cpp`, `ADM_coreVideoFilter.cpp`, yadif as the user | |
| `MediaTime` | "no time", rounding to ticks | used by the next two |
| `EncoderFFmpeg` | `ADM_coreVideoEncoderFFmpeg.cpp`, `ADM_coreVideoEncoder.cpp`, `encode()` of `ADM_ffMpeg4.cpp` | libavcodec is external |
| `MuxerFFmpeg` | `ADM_coreMuxerFfmpeg.cpp`, `ADM_muxerUtils.cpp` | libavformat is external |
| `Saver` | `EncoderFFmpeg` and `MuxerFFmpeg` together, `ADM_videoProcess.cpp`, `ADM_videoCopy.cpp` | a stream that encodes or one that copies |
| `JobRunner` | `ADM_runOneJob.cpp`, `ADM_jobControl.cpp`, `ADM_coreJobs.cpp`, `sqlJobs.cpp`, the two sockets, `ADM_slave.cpp` | |
| `...Proofs` | theorems on `VideoFilterQueue`, `AudioAccessThread`, `AudioDevice`, `Segments`, `VideoCache`, `Saver` with `EncoderFFmpeg`, `JobRunner`; `EditorProofs` on `UndoQueue` and `EditorRender` | TLAPS |

`MC<name>` and the `.cfg` files instantiate them. Definitions whose comment
begins with "Mutant" are the plausible mistakes against which each property was
tried: with the mutant in place of the definition the property fails.

### Threads and their steps

`ppc` and `upc` say where the producer and the user thread are. A section under
the mutex is one step when at most one of its accesses meets code that does not
take the mutex; it is cut before each further one, and `owner` then says who is
inside. In the threaded queues what escapes the mutex is `threadState` (a
`std::atomic`, read by the getter and written by `run` and `stopThread`), the
walk of both vectors in the destructors of the subclasses, and the append of
the audio producer to `freeList` at its end (`audiofilter_thread.cpp:192`). An
append is a load of the vector and a store, two steps with `stale` (and
`userStale`) in between, wherever another thread can come between. The append to
`list` begins with `setCapacity`: when the vector is full but for one place, a
larger storage is made, the old one deleted, and only then `buffer` is changed
(`SetCapacity`, `NewBuffer`). `capacity` is the room of `list`, `view` says
whether the storage a destructor has just looked up is still the vector's, and
`walked` of `count` elements are behind it. What a destructor finds in a deleted
storage is either what was there or anything else (`DeleteGarbage`,
`EmptyGarbage`); after the latter (`undefined`) nothing more is claimed. The
storage of `freeList` was grown by the constructor to its full size. A condition
wait is: release and block, be signalled or wake for no reason, own the mutex
again and clear `waiting`; the flag therefore stays set for a moment in which
the thread is not blocked any more, as in `admCond`. A source that fails and one
that ends take the same way.

In `AudioDevice`, `tpc` has one place per device thread, since a stop that gave
up leaves a thread behind which the next `init` does not know of. Sizes are
counted in blocks of 10 ms and the content of a block is its number, so that a
block lost, repeated or overwritten shows in what is played.

### Editing and showing

`UndoQueue` numbers the layouts, so that "older" has a meaning and a record is a
number; `addToUndoQueue` is always followed by the edit that made it necessary,
as in the handlers.

In `Segments` an input file is a sequence of pictures in decoding order, with a
display time, perhaps a decode time, and whether it is a key picture; a segment
is a record as in the code. `Film` is what a list shows, the set of its pictures
each with its place, and `Part` a part of it: the properties compare the film
after an edit with the part of the film before it that was asked for, so that
merging, splitting and tidying of segments may do what they like as long as the
film is right. Markers may be at any two moments; `exact` remembers that all of
them were at pictures, since only then is the place of each picture determined.
Where they were not, the start of a segment is moved to the next picture and
what follows comes earlier: then the films are compared by `InOrder`, which
replaces the place of a picture by the number of those before it. The times of
the list are what the code stores, with the start of each segment moved to a
picture of its file.

In `EditorRender` a call of the user interface is one action, a chain of
operators on the record of the editor (position, segment, cache, decoder), each
named for the method it models. A loop of the code (decode until the picture is
out, decode on until the ring has a next one, play up to a time) is a function
from the number of its rounds to where it is then (`UntilRound`, `NextRound`,
`ForwardRound`, `PlayRound`): a record of the editor and of whether the loop
goes on or how it was left, which the rounds after that keep. The number of
rounds is the limit the code has (`Tries`, `Loops`), or `Enough`, which no loop
without a limit of its own can reach. The decoder is external and holds pictures
back.
The properties compare position and image on screen with `Film`, computed from
the segments without looking at the cache.

In `VideoCache` a picture is a number too; `bob` is the mode of yadif that makes
two frames of a picture.

### Saving

`EncoderFFmpeg` has one action per step of `encode`: a picture is pulled from
the filters and mapped, fed to libavcodec, a packet is received and given its
times, the end is flushed. What libavcodec does is external: it reorders up to
`max_b_frames` pictures in any way a decoder could show again, refuses a picture
that is not later than the one before in ticks, and dates the first packet back.
`MuxerFFmpeg` has the two halves of the loop, a picture and then the tracks of
sound one after the other, with the repair of times on the way to
`av_write_frame`, which refuses times that do not increase and may fail for
reasons of its own. `Saver` joins them: what the encoder gives is what the muxer
takes; in copy mode the packets have any times at all. `file` is what was
written, with the time each packet had at its source (`src`).

In `JobRunner` the window is one thread: everything between two calls of
`processEvents` or two reads of a socket is one step, and the actions of the
user are enabled where events are handled. The reference to the job in hand is
an index into `mem`, the memory of the vector: `clear()` keeps it, so that a
shorter list leaves old bytes behind its end, which is what a use of the
reference then reads and writes. The language leaves that undefined; nothing
else has been seen to come of it as long as the list does not grow, which it
cannot do here.

## 4. Runs

States are the distinct ones TLC finds.

| Run | Constants | States | Shows |
|---|---|---|---|
| `video_queue` | 6 images, a vector for 5, 8 frames, 2 polls | 34 977 | order and integrity, nothing lost at the end, no image used after delete and the storage of `list` only when it grew under the destructor, no lost wakeup, refinement of `FrameFifo`, every getter returns, every destructor ends |
| `audio_queue` | 3 buffers, a vector for 2, 5 packets, 2 polls | 25 581 | no buffer with two owners, refinement of `FrameFifo`, getters return |
| `audio_device` | 8 places, preload 3, writes of 2, 1 poll, 2 inits, 9 blocks | 814 669 | order of what is played, one thread, stop returns if the server answers it, what was written is played |
| `undo_queue` | limit of 4 records, 7 layouts | 13 416 | the counter designates the layout on screen, refinement of `EditHistory` |
| `video_cache` | 3 entries, 5 pictures, 1 skipped, 2 failures, 1 retry, 2 seeks | 15 161 | the three neighbours are the right pictures, the process dies only on a hole in the numbers |
| `editor_render` | ring of 4, delay 1, five films of 1 to 3 segments out of one file, times trusted or not | 10 038 | next, previous and seeks show the right picture, no assertion fails |
| `editor_bad_key` | ring of 3, a key picture that cannot be decoded | violation | finding 2 |
| `segments` | 2 files, 4 segments, 4 edits | 45 331 | every edit gives the film that was asked for, times are found, projects read back |
| `segments_truncate` | the same, 3 edits (it takes 2) | violation | finding 3 |
| `saver` | 5 pictures, 0 or 2 B-pictures, ticks of 3, gaps of 2 and 4, two tracks, 1 fault, 3 copied packets | 430 738 | times of pictures and sound, what is refused and when, an honest outcome, an end |
| `jobs` | 2 jobs, 2 children, 2 of them may die, 2 changes by the user | 210 949 | one child saves at a time, results filed under the right job, none left running, runs end |
| `job_result` | 3 jobs, 3 children, no user | violation | finding 1 |

Why the bounds are enough:

* Queues. The video queue has the six images of the code and a vector that
  starts with room for five, so that `list` grows when the fifth image is
  appended; with eight frames images are used a second time. The audio queue has
  three buffers (one filled, one queued, one free) and a vector that starts with
  room for two, so that `list` grows more than once, as the real one does; with
  five packets every buffer is used a second time. Two polls let `stopThread`
  succeed at the first, at the second, or give up. All of these are arbitrary in
  the theorems, but that in the video queue `list` grows once at most.
* Sound device. The constants keep the relations of the real ones (half,
  quarter, preload well below a quarter: `SizeAssumption`, which TLC evaluates).
  Nine blocks fill the buffer once and make it move to its front; two inits
  with one poll leave a thread behind. Arbitrary in the theorems.
* Undo. The limit is four, so that it is reached by the undo that pushes a
  record as well as by an edit; seven layouts let the queue be trimmed from
  every shape. Arbitrary in the theorems.
* Filter cache. Three entries is the least a filter with three neighbours can
  use and the one that leaves no room for a mistake. Arbitrary in the theorems.
* Segments. The first file has a hole and begins with a picture that is no key;
  the second begins late and has a B-picture and a missing decode time. Four edits
  reach a list of four segments, pasting what was copied over a boundary, and
  merging after a cut. The search for the first picture, which the code limits
  to 32 pictures, looks at all of them.
* Editor. One file of three groups of pictures with B-pictures, the middle one
  open, in one segment, swapped, and in pieces whose order is not that of the
  file; in two of the five films one picture cannot be decoded, in another one
  has no time. The ring of four is smaller
  than what a group needs, so that pictures are given up before they are asked
  for again. Calls are unbounded: the state of the editor is finite.
* Saver. Gaps of 2 and 4 with ticks of 3 put two pictures in one tick or leave
  one empty; five pictures with two B-pictures fill the encoder, overflow it
  and leave some for the flush. One track has its packets in order, the other
  goes back and has packets without a time. `FarFromNoTime` bounds the times
  the filters give, so that none is mistaken for "no time", and the times of
  copied packets stay below it likewise; the real limit is 2^64 microseconds.
* Jobs. Two children suffice for the confusion of one with the other and for a
  shift of the list under the job in hand; two changes let the user delete a
  row twice or delete and force. Arbitrary in the theorems.

Deadlock is checked except in `video_cache`, `segments` and
`segments_truncate`, where the bounds on pictures and edits end the story, and
where the process of `video_cache` may die of an assertion. In the other models
the end (queue destroyed, film played, file saved, window at rest) is an explicit
stuttering step.

`CONSTANTS` are given plain values, or operators of the MC module where the
value is a structure; there is no symmetry to use, buffers and pictures being
numbers.

## 5. Fairness

* Threaded queues (`FairSpec` of `VideoFilterQueue`, `AudioAccessThread`): the
  source returns (weak fairness); the user thread and the producer thread are
  each strongly fair. Strong, because a spurious wakeup lets one thread take the
  mutex, release it and take it again for ever, so that the other is enabled
  again and again but not continuously; a scheduler and a mutex that starve a
  thread that way are not what the code is written for. Nothing says that the
  user keeps pulling or ever destroys the queue.
* Sound device: `stop` and the loops of the device threads run. The sound
  server has no fairness. `StopReturns` has as a hypothesis that the server
  answers the flush and the end of the connection (`FreeDevice`), for which
  `localStop` waits (`ADM_devicePulseSimple.cpp:62-63`); the writes of the device
  thread may hang for ever all the same, which is what the limit of the polls is
  for. Against a server that answers nothing the limit does not help. `PlaysOn`
  has as a hypothesis that writes are answered.
* Saver: one thread, which goes on (weak fairness of `Next`). The user may stop
  the save, and is not required to.
* Jobs: the window runs, and a child that can go on goes on (a save ends); a
  child whose connection nobody accepts may wait for ever. No fairness on
  connecting in time, on dying, nor on the user.
* Undo queue, segments, editor and filter cache: single-threaded and driven by
  the user, safety only.

## 6. Proofs

Assumptions are those on the constants, each named in the module that declares
them and evaluated by TLC in the runs: positive numbers of images
(`NBufAssumption`), a vector with room for two (`DefaultSizeAssumption`) which
in the video queue grows once at most (`GrowthAssumption`; in the code 5 places
become 7, for 6 images), a limit of at least two records (`UndoAssumption`), at
least three entries (`CacheAssumption`), the proportions of the sound buffer
(`SizeAssumption`), positive ticks and natural bounds. The theorems on what the
editor shows have hypotheses on the film besides. None of the invariants the
runs check is inductive; what has to be added is the point of each proof.

`VideoFilterQueueProofs`, for every number of frames and polls, and every number
of images for which the list grows once at most (`GrowthAssumption`): type
correctness, order and integrity, conservation, completeness at the end, memory
safety, wakeup safety. `IInv` has seven layers, each proved with the help of those
before it:

1. `TypeOK`.
2. `Control`: where the threads are tells who owns the mutex, which `waiting`
   flags are set, whether the producer holds an image and what the run state
   can be. The essential facts are that the run state is StopOrder only once
   the destructor has given the order, and Stopped only when the producer has
   drained its list.
3. `Ownership`: an image is in one place, and a vector that is being appended to
   is still what it was when it was read. The destructor, which does not take
   the mutex, limits how long this is true (`Untouched`, `ListKept`).
4. `Frames`: the list holds the next frames in order.
5. `Storage`: the storage of `list` has its first size, or the second one, which
   is never too small; the producer replaces it in one append only, that to a
   list of `DefaultSize - 1` images, and finds the destructor at its walk only
   if all polls were in vain.
6. `Lifetime`: what has been deleted is out of the producer's reach, although
   `stopThread` may give up: the image the producer holds is in neither vector.
7. `Waiting`: nobody is blocked while there is something for him.

`QueueRefinement` draws from it that the queue implements `FrameFifo`. Frames are
numbered, so the abstract queue follows from the number of frames handed out and
the length of the list; every step is then one abstract step or a stutter: an
append to the list is `Put`, the frame handed out is `Get`, the end of the source
is `End` and the destructor's taking over is `Destroy`.

`AudioAccessProofs`, for every number of buffers, packets and polls: no buffer
is in two places, and the destructor writes into a deleted storage of `list`
only after a stop that gave up, with at least `DefaultSize - 1` packets queued
(`StorageSafety`; how often the list grew is left open, its room never shrinks).
The layers are those of the video queue, but the last append of the thread takes
no mutex, so that vectors may be read by one append and written by another: a
vector that an unfinished append has read can be written back without putting a
buffer in two places (`Appends`), whatever the other side did in between; that
none is lost holds only until the son has ended (`Complete`). `QueueRefinement`
says that it implements `FrameFifo` all the same: until the destructor is
called, what was read from the son and not handed out is in the hand of
`getPacket`, in the list and with the thread, in that order (`Packets`),
whatever becomes of the empty buffers. The packet in hand has left the list but
not the abstract queue: the abstract `Get` is the copy after the mutex was
released, and the queue holds one packet more than the list then.

`AudioDeviceProofs`, for every size of the buffer that `SizeAssumption` allows
and any number of inits: one thread feeds the device, and it gets every block
once and in order, unless a stop has left its thread behind. `Control`: the
thread of the latest init is alone. `Sending`: the buffer holds the blocks that
come after those played; the place the server plays from was taken before the
mutex was released, and although `writeData` may move the buffer meanwhile, that
place lies above a quarter when the move has happened, and everything written
after it lies at or below a quarter.

`EditorProofs`, on the undo queue, for every limit of at least two records:
types, indexes in range, "the record the counter designates is the layout on
screen", and that `UndoQueue` implements `EditHistory`. The inductive
invariant adds to the first three that the records are in ascending order and
none is newer than the last layout created (without order, "the older ones"
would not be a prefix and the refinement mapping would not be a history). The
refinement is proved action by action: `DropBranch` keeps a prefix, `MakeRoom`
keeps a suffix; a step between two equal records is a stutter of the history.

`VideoCacheProofs`, for every cache of three entries or more: the filter works
on the right three pictures, and the process dies only after a number was used
up. What is locked is exactly what the filter has in hand, and the age of the
entries plays no part: the pictures that pass from one frame to the next were
both locked for the frame before, and no victim is chosen before they are locked
again. A film is `Fresh` (just after a seek), `Flowing` (the current picture and
the one before are there under their numbers, the next is there or is what the
bridge sends next) or `Doomed` (the number the filter needs is behind the bridge
and will never come).

`SegmentsProofs`, for every set of input files, every list of segments and every
number of edits: each segment stays within its file and starts with a picture
while the markers are at pictures (`SegmentsWellFormed`); every picture is found
at its place (`SegmentsEveryPictureFound`); a project read back is the same
(`SegmentsReloadsTheSame`); what an edit leaves is what was asked for
(`SegmentsEditedAsAsked`), and so is what is copied (`SegmentsCopiedAsAsked`).
Of the truncations only those are left out that drop a segment of which a picture
comes before the marker (`LosesPictures`), which is finding 3; one that drops a
segment rightly, with the marker at its start, is among those proved.
Two invariants carry it. `SegInv`: the segments fit their files, start where the
sum of those before ends, and are settled (moving the start once more would not
move it); while `exact`, all start with a picture and one has something to show.
`Barren`: the film can only have become empty by pasting pieces that show
nothing, and those are still on the clipboard, so that no later paste can lose
a picture. The steps of the argument:

1. The loops over the list are recursive functions: that they exist and are
   unique is shown by stepping (`StepsExist`) and by least counterexample
   (`UpTo`), after which each loop is known by its steps alone.
2. The durations of the list only add up, so that a moment is in one segment
   (`PlacesAre`, `SegmentsAtIs`).
3. The film of two lists one after the other is the film of the first and that
   of the second, shifted (`FilmConcat`). A segment split in two shows the same
   (`PlacedTwo`); removing empty segments and joining continuous ones change
   nothing (`FilmRemoveEmpty`, `FilmMerge`). From these come the films of a cut,
   a truncation, a paste and a copy before the starts are moved (`FilmCut`,
   `FilmTruncated`, `FilmPasted`, `FilmCopied`).
4. Moving the starts keeps the pictures and their order (`UpdatedShows`: the
   pictures are numbered alike in two films when there is a one-to-one map
   between them that keeps the order), and keeps their places if every segment
   that shows something starts with a picture (`TidyShows`).

`SaverProofs` is in two parts. On the encoder, for every film, tick, number of
B-pictures and choice of libavcodec: each packet finds its picture, decode times
go forward and never pass the time of their picture, and libavcodec refuses a
picture only when three fall within two ticks. The invariant: what libavcodec
holds is in order of time, apart from the one picture already decided to come
before its B-pictures; every picture in flight has its own entry in the mapper,
with a tick no other has; the queue of decode times is never ahead of the
pictures it will be given to; the last tick fed is that of the last picture or
one more (the bump).

On the composition: sound and picture are shifted by the same delay; no track is
behind the picture about to be written unless that track met an error in this
round (`failed` remembers which did), and at the end what is held back is sound
of the last `audioDelay` of the film or later, no more than that being what the
code does (section 7); a save that reports success has written every picture it
got; libavformat refuses a picture for its times only if three come within less
than two ticks of the container, two in the very first, or a time is missing or
rounded up (`SaverRefusedWhenCrowded`). `RoundInv`: the tracks that had their
turn in this round without an error wait with a packet that is not due.
`CountInv`, `FlightInv`: what was pulled is in flight, handed over or written.
`ShiftInv`: the delay of the encoder is known before the first packet of sound,
and what the encoder gives is never repaired. `CrowdInv`: as long as nothing
failed and no three pictures are crowded, the last picture written took its own
tick or the next one, and the next one only because the picture before took its
own (`Placed`); the repaired times are a recursive function of the times, known
by its steps as above.

`JobRunnerProofs`, for every number of jobs, children and clicks. First: at most
one child saves at a time. A child that was greeted and has not finished is the
one the window is connected to (`Greeting`); that the window leaves a connection
only when its child is done needs `Messages`: until then the only message in the
connection is the greeting. Second: no job is left marked Running, and every
result goes to the row of its own job. `ListInv`: the vector is the ids of the
table in ascending order (that this order exists and is unique is proved by a
least counterexample, `AscendingExists`). `RunningInv`: unless a row is deleted
during a run, the reference stays with the row of its job. `QueueInv`: unless a
child is given up before it connected, only the child in hand waits in the
queue of the listening socket. Both conditions are needed: findings 1 and the
remark on deletion below.

`EditorProofs`, on the film, for every size of the ring, delay of the decoder,
limit of the loops, file and list of segments that are `Regular`, opened with
trusted times: the picture on screen is the one of the position
(`EditorOnFilm`), no assertion fails (`EditorNeverDies`), a seek to a picture
finds it (`EditorSeekFinds`), next and previous go to the neighbour in the film
and fail at its ends only (`EditorNextIsNext`, `EditorPreviousIsPrevious`),
in whatever order they are asked for (`EditorShowsEveryFilm` puts it in one for
an editor that only opens such films). The hypotheses are in `EditorFilms`:

* of the file (`Known`): every time is known, different from the others, and
  the first picture is a key picture that is shown first; the decoder holds
  back as many pictures as the file is reordered by; key pictures can be decoded
  and divide what is shown as they divide the file (open groups are allowed);
  the tries of the two loops are not used up by pictures that cannot be decoded.
  Without them pictures are guessed, lost or never reached: finding 2 is a key
  picture that cannot be decoded. Other pictures may well be undecodable;
* of the segments (`Cut`): each starts at a picture that can be decoded and the
  starts add up, which is what `Segments` leaves (`SegmentsWellFormed`);
* of the segments (`Joined`): what excludes the flaw of the ring that the
  proof found (below, "Editing"). It says something only of a segment that has
  no key picture after its first picture and is followed by another segment.

`MCEditorRender` has TLC check that the films of `editor_render` are regular,
except the one that was made without a time, and that those of `editor_bad_key`
are not (`RegularFilms`).

The inductive invariant is `Shows`. None of the properties says anything of the
ring or of the decoder, and everything depends on them: the ring holds decodable
pictures that follow one another in the order of display, with none missing in
between (`Ring`), and the decoder goes on where it ends: what the decoder holds
and what it has not been given are the pictures shown after the newest entry, no
less and no more (`Synced`). The picture on screen is in the ring, at the place
its segment gives it, and when it is the newest it is also the one read last
(`PlacedAt`), for decoding on looks for what comes after the one read last. The
steps of the argument:

1. The ring: giving up the oldest entry, filling one, invalidating one that was
   not filled keep it a run of neighbours (`Put`, `Skip`); `getAfter` and
   `getBefore` find the neighbour.
2. The decoder: one packet in, at most one picture out, the earliest of those
   held (`Answered`); so the picture that comes out is the next to be shown,
   because no more than `Delay` come in front of it in the file (`Reordered`).
   `DecodeNextPicture` then puts the next picture in the ring or nothing.
3. A loop is known by its rounds: what holds at the start and is kept by a
   round holds at the end (`Induct`, by a least counterexample), as in the proof
   of `Segments`. From the key picture on, `DecodePictureUpToIntra` drops the
   pictures of the group before and stops with the key picture as the newest;
   `seektoTime` goes on to any picture of its group.
4. `nextPicture` from the ring, by decoding, over a key picture, or in the next
   segment: in each case the picture with nothing of the film in between.
   `previousPicture` from the ring, or by playing again from the key picture up
   to the one that is on screen, in the same segment or up to the end of the
   one before: `Kept` is what lets the playing go on from the ring.
5. The order of the film: neighbours in a segment, and the last picture of one
   and the first of the next, are neighbours in `Film` (`Beside`).

Only model-checked: everything about liveness (the prover has no rules for
fairness); the editor on films that are not regular and on files whose times are
not trusted, where `NeverDies` alone claims something; and the three violations,
which are counterexamples.

## 7. Findings

1. `job_result`. A child that connects after the six seconds stays in the queue
   of the listening socket; the next job accepts it and takes its result for its
   own, and so on down the list. `VerdictsFiled` shows that this and a deletion
   during a run are the only ways a result goes astray.
2. `editor_bad_key`. Going to a key picture that cannot be decoded, in another
   segment, leaves the editor in a segment its position is not in; the next step
   back may fail an assertion (`ADM_edRender.cpp:155`, `:469`).
3. `segments_truncate`. In a file that begins late, truncating shortly after the
   start of a later segment drops the whole segment: an offset, counted from the
   start of the segment, is compared with the time of the first picture, counted
   from the start of the file (`ADM_segment.cpp:890`). Two edits show it: a second
   file is opened, whose first picture has the time 1 and starts the new segment;
   a truncation one unit after that start drops the segment, and the picture.

Met on the way, without a run of their own:

Queues and sound

* `~ADM_audioAccess_thread` says "Thread stopped, we can kill the son"
  (`audiofilter_thread.cpp:80`) and deletes it after `stopThread`, which gives
  up after ten polls of 50 ms. A thread that takes longer inside
  `son->getPacket` is then in a deleted object. (The video queue has the same
  wait but only frees images the thread does not hold, which is proved.)
* Both destructors walk `list` without the mutex after such a stop
  (`ADM_filterThread.cpp:51-56`, `audiofilter_thread.cpp:34-39`). A thread that
  comes back meanwhile appends the frame it has, and when that append makes the
  vector grow it deletes the storage the destructor is in (`BVector.h:244`,
  `buffer` being changed only after it): the video destructor may then delete as
  an image what it reads there, the audio one writes a null pointer into it.
  `UsedAfterDeleteOnlyAtGrowth` and `WrittenAfterDeleteOnlyAtGrowth` say exactly
  when: all polls were in vain, and four images were queued when the destructor
  counted them (four packets or more in the audio queue). It does happen: the
  runs of both queues reach states in which the storage in hand is a deleted one.
* `stopThread` tests the run state and then writes StopOrder
  (`ADM_threadQueue.cpp:153`): a Stopped stored in between is lost. Harmless,
  because the thread has left by then and the join follows (`DestructorEnds`).
* The polling loop of the base destructor never counts down; no subclass lets
  it be entered. The branches of the getters for StopOrder cannot be reached,
  since the caller of the getter is the one who gives that order.
* An image that the video producer holds when `stopThread` has given up is never
  freed.
* `getBufferFullness` counts blocks of 10 ms (`ADM_audioDeviceThreaded.cpp:162`);
  the header (`ADM_audiodevice.h:73`), and the player that compares it with
  `AUDIO_PRELOAD` (100), take it for milliseconds. About a second of sound is
  queued instead of a tenth.
* `SizeAssumption` fails for formats whose 10 ms are more than about 21 000
  bytes (8 channels at 192 kHz, for instance): there the player can fill the
  buffer before it is moved. `audioDeviceThreaded::readData` has no caller.
* `PacketQueue` (`ADM_packetQueue.cpp`), whose only user is commented out of
  the build, leaves its head at the end of the ring when a packet ends there, and
  asserts at the next one (`:135`, `:194`).

Editing

* Stepping back into a segment can show a wrong picture. `previousPicture` seeks
  the last key picture before the end of that segment and plays up to the end
  (`ADM_edRender.cpp:470-517`, `decodeTillPictureAtPts`). When the key picture
  is still in the ring, the seek is answered from there and the decoder stays
  where it was (`ADM_edRenderInternal.cpp:57-79`). When it is also the oldest
  entry of a full ring, decoding on gives it up; `nextPictureInternal` asks for
  what comes after a picture that is not in the ring any more and finds nothing,
  twenty times (`:158-211`), and what is then taken for the end of the segment
  is some later picture. Three calls suffice: go to a picture of a segment, next
  into a segment that overlaps it, previous. A proof that the picture read last
  stays in the ring failed there; `Joined` is what excludes it, and
  `MCFullRing` of `MCEditorRender` is a film that shows it: with `Films <-
  MCFullRing` in `MCEditorRender.cfg` TLC finds `OnFilm` violated.
* Undo: after a redo to the newest layout the next edit records that layout a
  second time, so that one later undo changes nothing on screen. A cut that the
  editor refuses stays in the queue. `clearUndoQueue` keeps the counter, which
  does no harm.
* A copy whose marker is exactly at the boundary of two segments leaves an
  empty one on the clipboard (`ADM_segment.cpp:1175`); pasting removes it,
  `appendFromClipBoard` (`:1265`) does not, and `ADM_edRender.cpp:469` may then
  fail.
* `removeEmptySegments` runs before `updateStartTime`, which shortens segments:
  a cut that is not at pictures may leave an empty one.
* `pasteFromClipBoard` (`ADM_segment.cpp:1253`) does not look whether the film
  has become empty, as `removeChunk` (`:857`) and `truncateVideo` (`:907`) do.
  When the segments left have shrunk to nothing, by markers that were not at
  pictures, and so has the piece on the clipboard, a paste removes them all, and
  the next `getSegments` (`:503`), made by the next edit, asserts. A proof of
  `segments # <<>>` failed there; `WellFormed` says it only while the markers
  are at pictures.
* `dtsFromPts` never looks at frame 0, and its test `deltaFrame<0` cannot be
  true. The decode time stored for a moved start may differ after a project is
  read back; the film is the same (`ReloadsTheSame`).
* Where the times of pictures are missing or not trusted, they are guessed from
  the last decoded one; after a seek that the ring answers, the guesses are
  wrong. The four properties on what is shown are therefore about `Dependable`
  files.
* A segment whose first picture cannot be decoded stops "next" at the end of
  the one before.

Filtering and saving

* A picture the editor fails to give uses up a frame number
  (`ADM_videoFilterBridge.cpp:91`); a cached filter that survives the failure
  asks for that number again and the cache asserts
  (`ADM_videoFilterCache.cpp:171`). `OnlyHolesKill`, proved: nothing else kills
  it. A fetch that fails leaves its victim tagged with the old number (`:169`);
  `ThreeNeighbours` holds all the same. `VideoCache::unlock` has no caller.
* A picture that libavcodec refuses ends the film as if it were over: the rest
  is not saved and the save reports success. The bump of equal ticks looks at
  the last value only, so that the third picture of a tick is refused, and two
  pictures in tick 0 are not parted.
* In the muxing loop "errors from writing audio packets are nonfatal"
  (`ADM_coreMuxerFfmpeg.cpp:586`), but one in the last round makes the save
  incomplete (the `break` precedes `ret=true`).
* The last round sends sound up to `videoDuration`, but the times it compares
  have the delay of the encoder in them (`:514`, `:551`): sound of the film later
  than `videoDuration - audioDelay` may stay unwritten. `SoundKeepsUp` claims no
  more than that.
* A picture without a decode time loses its display time in the formats that do
  not override `muxerRescaleVideoTimeDts`.
* The VA-API encoders add `encoderDelay` before the times go to libavcodec
  (`ADM_ffVAEncHEVC.cpp:250`); the base class leaves that to the conversion on
  the way back (`ADM_coreVideoEncoderFFmpeg.cpp:278`).

Jobs

* When a row is deleted while a job runs, `listOfJob` shrinks under the
  reference: the result goes to the job that moved into its place, which then
  counts as done, and the job that ran says Running for ever; or, at the end of
  the list, `jobUpdate` inserts a row with an empty script
  (`sqlJobs.cpp:198-220, 292`). `ADM_slaveConnect` goes on with a null pointer
  when the connection fails (`ADM_slave.cpp:31-39`).

## 8. What the models leave out

* Real time: a timeout may come whenever what it waits for has not come, and
  need not come. The second the job window gives the spawning thread to copy
  its arguments is taken to be enough.
* `admCond::abort` in the threaded queues (nobody calls it).
* Sound: only PulseSimple; the latency query and the volume are left out. Alsa
  calls `snd_pcm_wait` with the mutex held, which is listed as a hazard.
* Filter cache: filters with more neighbours; `unlock`.
* Segments: half frame rates (`halfFps`). Editor: pictures coded as fields,
  empty and oversized frames, N-VOP repeats, several files that share the ring,
  hardware images, copy mode (`getCompressedPicture`), searches for black
  pictures.
* Encoders that do not use the class of `ADM_coreVideoEncoderFFmpeg` (x264,
  x265, NVENC, VA-API) and two-pass statistics.
* Muxing: the time of a packet of sound is compared, and written to the model's
  file, in microseconds: its conversion to the time base of its stream
  (`muxerRescaleAudioTime`, `ADM_coreMuxerFfmpeg.cpp:562`) is left out. So is
  rounding up to a multiple of the numerator of the time base of the picture
  (`ADM_muxerUtils.cpp:72-73`), which does nothing while it is 1; with another
  numerator a tick is that many units long and times are rounded up to it.
* Muxing: opening, header and trailer, bitstream filters, the muxers that are
  not built on libavformat (AVI, raw, MP4v2).
* Jobs: progress and read-back messages, times, jobs added by another avidemux
  while the window is open (the list may then grow and the reference dangle),
  scripts that save more than once, the end of the window.
* Scripts that change the film without a record of the undo queue (a hazard
  without a property).
* Failure of memory allocation, of thread creation and of the data base.

### Not modelled

* Playback (`gui_play.cpp`): correct or not by real time alone; what it asks of
  the sound device is in `AudioDevice`.
* `ADM_quota`: writes tried again after asking the user.
* `PacketQueue`, `mplex`: no code that is built calls them.
* Codecs, demuxers, pixels of filters, user interface, preferences, scripting,
  vendored libraries: by far most lines of the tree, without a protocol. What
  has state and order on its side of the program's own code is above.

## 9. Plan

What would come next, most important first:

1. `getCompressedPicture` (copy mode) over several segments and files, as the
   source of `Saver` in place of packets with any times.
2. The ALSA device in place of PulseSimple, for its wait with the mutex held.
3. The theorems on the editor for films with pictures that have no time, whose
   guessed times are right as long as no seek was answered by the ring.
