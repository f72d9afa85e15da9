---------------------------- MODULE AudioDevice ----------------------------
(***************************************************************************)
(* audioDeviceThreaded, with the PulseSimple plugin as its device.  The    *)
(* player calls init, writes sound while the buffer holds less than        *)
(* AUDIO_PRELOAD, and calls stop; a thread started by init sends the       *)
(* buffer to the sound server, ten milliseconds at a time.  The unit of    *)
(* all sizes is such a block, and a block's content is its number.         *)
(*                                                                         *)
(* Grain.  mutex protects the two indexes for the length of one step.      *)
(* stopRequest, a plain byte, and the device handle are read and written   *)
(* without it: each access that can meet the other thread is a step.       *)
(***************************************************************************)
EXTENDS Integers, Sequences, FiniteSets

CONSTANTS
    Size,        \* ADM_THREAD_BUFFER_SIZE
    Preload,     \* AUDIO_PRELOAD
    Slice,       \* the largest write of the player
    StopPolls,   \* maxWait's first value in stop
    MaxInits,    \* bound: calls of init, hence threads
    MaxBlocks    \* bound: blocks written after the first init

\* What 8 MiB are to one second of sound: all that the player keeps in the
\* buffer fits below the place that was being played when it is moved.
ASSUME SizeAssumption ==
    /\ {Size, Preload, Slice, StopPolls, MaxInits, MaxBlocks} \subseteq Nat \ {0}
    /\ Slice <= Size \div 2
    /\ Preload + Slice <= Size \div 4 + 3

Half == Size \div 2
Quarter == Size \div 4
Threads == 1..MaxInits
Garbage == 0    \* memory that was never written, or freed

VARIABLES
    stopRequest,  \* "STOPPED", "STARTED", "STOP_REQ" or "STOP_GR"
    rdIndex,      \* next block for the device
    wrIndex,      \* next free place
    audioBuffer,  \* the blocks, by place
    instance,     \* the sound server connection is open
    maxWait,      \* polls left in stop
    mpc,          \* where the player's thread is
    playing,      \* the player has an initialised device
    inits,        \* calls of init so far
    tpc,          \* where each device thread is
    data,         \* the place a thread has handed to the server
    written,      \* blocks written since init
    played,       \* the blocks sent to the server since init
    gaveUp        \* a stop has gone on without its thread

buffer == <<rdIndex, wrIndex, audioBuffer>>
history == <<written, played>>
vars == <<stopRequest, buffer, instance, maxWait, mpc, playing, inits, tpc,
          data, history, gaveUp>>

\* Bound: blocks written after the latest init, a third as many after the second
\* one, and so on.
BlockBound == MaxBlocks \div (2 * inits - 1)

\* wrIndex - rdIndex, two uint32_t: negative values wrap to huge ones.
Avail == wrIndex - rdIndex
Huge == Avail < 0
\* getBufferFullness: "1+(uint32_t)nbBytes", in blocks of 10 ms.
getBufferFullness == IF Huge THEN Preload ELSE 1 + Avail

Init ==
    /\ stopRequest = "STOPPED"
    /\ rdIndex = 0
    /\ wrIndex = 0
    /\ audioBuffer = [i \in 0..Size-1 |-> Garbage]
    /\ instance = FALSE
    /\ maxWait = 0
    /\ mpc = "idle"
    /\ playing = FALSE
    /\ inits = 0
    /\ tpc = [t \in Threads |-> "none"]
    /\ data = [t \in Threads |-> 0]
    /\ written = 0
    /\ played = <<>>
    /\ gaveUp = FALSE

-----------------------------------------------------------------------------
(* init                                                                    *)

InitReset ==
    /\ mpc = "idle"
    /\ ~playing
    /\ inits < MaxInits
    /\ inits' = inits + 1
    /\ audioBuffer' = [i \in 0..Size-1 |-> Garbage]
    /\ rdIndex' = 0
    /\ wrIndex' = 0
    /\ written' = 0
    /\ played' = <<>>
    /\ mpc' = "open"
    /\ UNCHANGED <<stopRequest, instance, maxWait, playing, tpc, data,
                   gaveUp>>

\* localInit: the sound server may refuse.
InitOpen ==
    /\ mpc = "open"
    /\ stopRequest' = "STOPPED"
    /\ \/ instance' = TRUE /\ mpc' = "spawn"
       \/ instance' = FALSE /\ mpc' = "idle"
    /\ UNCHANGED <<buffer, maxWait, playing, inits, tpc, data, history, gaveUp>>

InitSpawn ==
    /\ mpc = "spawn"
    /\ stopRequest' = "STARTED"
    /\ tpc' = [tpc EXCEPT ![inits] = "test"]
    /\ playing' = TRUE
    /\ mpc' = "idle"
    /\ UNCHANGED <<buffer, instance, maxWait, inits, data, history, gaveUp>>

-----------------------------------------------------------------------------
(* The player: audioPump and play                                          *)

PumpLook ==
    /\ mpc = "idle"
    /\ playing
    /\ written < BlockBound
    /\ getBufferFullness < Preload
    /\ mpc' = "fill"
    /\ UNCHANGED <<stopRequest, buffer, instance, maxWait, playing, inits, tpc,
                   data, history, gaveUp>>

\* Mutant: the move is one block short.
Moved_OneShort ==
    [i \in 0..Size-1 |->
        IF i < Avail - 1 THEN audioBuffer[rdIndex + i] ELSE audioBuffer[i]]

\* The buffer as writeData leaves it when it moves its content to the front.
Moved == [i \in 0..Size-1 |->
             IF i < Avail THEN audioBuffer[rdIndex + i] ELSE audioBuffer[i]]
Stored(b, w, len) ==
    [i \in 0..Size-1 |-> IF i \in w..w+len-1 THEN written + 1 + i - w ELSE b[i]]

\* Copy what play wants stored, once the room has been made, or lose it.
StoreAt(b, r, w, len) ==
    /\ rdIndex' = r
    /\ IF w + len > Size
         THEN audioBuffer' = b /\ wrIndex' = w
         ELSE audioBuffer' = Stored(b, w, len) /\ wrIndex' = w + len
    /\ written' = written + len

\* writeData.  With rdIndex past wrIndex the move has a huge length: the
\* process dies.
writeData(len) ==
    /\ mpc = "fill"
    /\ written + len <= BlockBound
    /\ IF wrIndex > Half /\ rdIndex > Quarter
         THEN ~Huge /\ StoreAt(Moved, 0, Avail, len)
         ELSE StoreAt(audioBuffer, rdIndex, wrIndex, len)
    /\ mpc' = "idle"
    /\ UNCHANGED <<stopRequest, instance, maxWait, playing, inits, tpc, data,
                   played, gaveUp>>

-----------------------------------------------------------------------------
(* stop                                                                    *)

StopTest ==
    /\ mpc = "idle"
    /\ mpc' = IF stopRequest = "STARTED" THEN "stopAsk" ELSE "localStop"
    /\ playing' = FALSE
    /\ UNCHANGED <<stopRequest, buffer, instance, maxWait, inits, tpc, data,
                   history, gaveUp>>

StopAsk ==
    /\ mpc = "stopAsk"
    /\ stopRequest' = "STOP_REQ"
    /\ maxWait' = StopPolls
    /\ mpc' = "stopPoll"
    /\ UNCHANGED <<buffer, instance, playing, inits, tpc, data, history, gaveUp>>

\* Mutant: the loop waits for the wrong state and is left at once.
StopPoll_WrongState ==
    /\ mpc = "stopPoll"
    /\ IF stopRequest = "STARTED" /\ maxWait > 0
         THEN maxWait' = maxWait - 1 /\ UNCHANGED <<mpc, gaveUp>>
         ELSE /\ mpc' = "localStop"
              /\ gaveUp' = (gaveUp \/ maxWait = 0)
              /\ UNCHANGED maxWait
    /\ UNCHANGED <<stopRequest, buffer, instance, playing, inits, tpc, data,
                   history>>

\* Mutant: the loop does not count its turns.
StopPoll_NoLimit ==
    /\ mpc = "stopPoll"
    /\ IF stopRequest = "STOP_REQ"
         THEN UNCHANGED <<maxWait, mpc, gaveUp>>
         ELSE mpc' = "localStop" /\ UNCHANGED <<maxWait, gaveUp>>
    /\ UNCHANGED <<stopRequest, buffer, instance, playing, inits, tpc, data,
                   history>>

StopPoll ==
    /\ mpc = "stopPoll"
    /\ IF stopRequest = "STOP_REQ" /\ maxWait > 0
         THEN maxWait' = maxWait - 1 /\ UNCHANGED <<mpc, gaveUp>>
         ELSE /\ mpc' = "localStop"
              /\ gaveUp' = (gaveUp \/ stopRequest = "STOP_REQ")
              /\ UNCHANGED maxWait
    /\ UNCHANGED <<stopRequest, buffer, instance, playing, inits, tpc, data,
                   history>>

\* The connection is closed, if there is one.  Then pa_simple_flush and
\* pa_simple_free wait for the server: see FreeDevice.
localStop ==
    /\ mpc = "localStop"
    /\ instance' = FALSE
    /\ mpc' = "clean"
    /\ UNCHANGED <<stopRequest, buffer, maxWait, playing, inits, tpc, data,
                   history, gaveUp>>

\* audioBuffer.clean() and silence.clean() free the memory.
StopClean ==
    /\ mpc = "clean"
    /\ audioBuffer' = [i \in 0..Size-1 |-> Garbage]
    /\ mpc' = "stopped"
    /\ UNCHANGED <<stopRequest, rdIndex, wrIndex, instance, maxWait, playing,
                   inits, tpc, data, history, gaveUp>>

StopDone ==
    /\ mpc = "stopped"
    /\ stopRequest' = "STOPPED"
    /\ mpc' = "idle"
    /\ UNCHANGED <<buffer, instance, maxWait, playing, inits, tpc, data,
                   history, gaveUp>>

-----------------------------------------------------------------------------
(* A device thread: Loop around sendData                                   *)

LoopTest(t) ==
    /\ tpc[t] = "test"
    /\ tpc' = [tpc EXCEPT ![t] =
                  IF stopRequest = "STARTED" THEN "send" ELSE "granting"]
    /\ UNCHANGED <<stopRequest, buffer, instance, maxWait, mpc, playing, inits,
                   data, history, gaveUp>>

LoopEnd(t) ==
    /\ tpc[t] = "granting"
    /\ stopRequest' = "STOP_GR"
    /\ tpc' = [tpc EXCEPT ![t] = "exited"]
    /\ UNCHANGED <<buffer, instance, maxWait, mpc, playing, inits, data,
                   history, gaveUp>>

\* sendData without a device returns at once.
SendNoDevice(t) ==
    /\ tpc[t] = "send"
    /\ ~instance
    /\ tpc' = [tpc EXCEPT ![t] = "test"]
    /\ UNCHANGED <<stopRequest, buffer, instance, maxWait, mpc, playing, inits,
                   data, history, gaveUp>>

\* Bound: how far rdIndex is followed when it has run past wrIndex; the code
\* then sends what lies behind the buffer for as long as it is not stopped.
MaxOverrun == 1

\* Mutant: the last block is not sent, like an index compared with "<=".
SendLook_KeepsOne(t) ==
    /\ tpc[t] = "send"
    /\ instance
    /\ Avail >= -MaxOverrun
    /\ IF Avail <= 1
         THEN tpc' = [tpc EXCEPT ![t] = "silence"] /\ UNCHANGED data
         ELSE /\ tpc' = [tpc EXCEPT ![t] = "write"]
              /\ data' = [data EXCEPT ![t] = rdIndex]
    /\ UNCHANGED <<stopRequest, buffer, instance, maxWait, mpc, playing, inits,
                   history, gaveUp>>

\* Under the mutex: the place of the next block, if there is one.
SendLook(t) ==
    /\ tpc[t] = "send"
    /\ instance
    /\ Avail >= -MaxOverrun
    /\ IF Avail = 0
         THEN tpc' = [tpc EXCEPT ![t] = "silence"] /\ UNCHANGED data
         ELSE /\ tpc' = [tpc EXCEPT ![t] = "write"]
              /\ data' = [data EXCEPT ![t] = rdIndex]
    /\ UNCHANGED <<stopRequest, buffer, instance, maxWait, mpc, playing, inits,
                   history, gaveUp>>

\* pa_simple_write with silence; it returns when the server has room.
WriteSilence(t) ==
    /\ tpc[t] = "silence"
    /\ tpc' = [tpc EXCEPT ![t] = "test"]
    /\ UNCHANGED <<stopRequest, buffer, instance, maxWait, mpc, playing, inits,
                   data, history, gaveUp>>

\* pa_simple_write reads the block where it was when the mutex was released.
WriteBlock(t) ==
    /\ tpc[t] = "write"
    /\ played' = Append(played, IF data[t] < Size THEN audioBuffer[data[t]]
                                ELSE Garbage)
    /\ tpc' = [tpc EXCEPT ![t] = "advance"]
    /\ UNCHANGED <<stopRequest, buffer, instance, maxWait, mpc, playing, inits,
                   data, written, gaveUp>>

\* "rdIndex+=avail" under the mutex, whatever moved since SendLook.
Advance(t) ==
    /\ tpc[t] = "advance"
    /\ rdIndex' = rdIndex + 1
    /\ tpc' = [tpc EXCEPT ![t] = "test"]
    /\ UNCHANGED <<stopRequest, wrIndex, audioBuffer, instance, maxWait, mpc,
                   playing, inits, data, history, gaveUp>>

-----------------------------------------------------------------------------

StopStep ==
    StopAsk \/ StopPoll \/ (localStop /\ ~instance) \/ StopClean \/ StopDone
FreeDevice == localStop /\ instance
PlayerStep ==
    \/ InitReset \/ InitOpen \/ InitSpawn
    \/ PumpLook \/ (\E len \in 1..Slice : writeData(len))
    \/ StopTest \/ StopStep \/ FreeDevice
LoopStep(t) ==
    LoopTest(t) \/ LoopEnd(t) \/ SendNoDevice(t) \/ SendLook(t) \/ Advance(t)
Server(t) == WriteSilence(t) \/ WriteBlock(t)
ThreadStep(t) == LoopStep(t) \/ Server(t)

Next == PlayerStep \/ \E t \in Threads : ThreadStep(t)

Spec == Init /\ [][Next]_vars

\* The threads run; a stop that was begun goes on where it does not wait for
\* the sound server.  Nothing is promised of the server, nor of the player
\* outside stop.
FairSpec ==
    /\ Spec
    /\ WF_vars(StopStep)
    /\ \A t \in Threads : WF_vars(LoopStep(t))

-----------------------------------------------------------------------------
(* Properties                                                              *)

InLoop == {t \in Threads : tpc[t] \notin {"none", "exited"}}

\* Every variable keeps to its range.
TypeOK ==
    /\ stopRequest \in {"STOPPED", "STARTED", "STOP_REQ", "STOP_GR"}
    /\ rdIndex \in Nat
    /\ wrIndex \in 0..Size
    /\ audioBuffer \in [0..Size-1 -> Nat]
    /\ instance \in BOOLEAN
    /\ maxWait \in 0..StopPolls
    /\ mpc \in {"idle", "open", "spawn", "fill", "stopAsk", "stopPoll",
                "localStop", "clean", "stopped"}
    /\ playing \in BOOLEAN
    /\ inits \in 0..MaxInits
    /\ tpc \in [Threads -> {"none", "test", "send", "silence", "write",
                            "advance", "granting", "exited"}]
    /\ data \in [Threads -> Nat]
    /\ written \in Nat
    /\ played \in Seq(Nat)
    /\ gaveUp \in BOOLEAN

\* The server gets every block once, in order and intact, although writeData
\* moves the buffer while the device still reads the old place.
PlayedInOrder ==
    ~gaveUp => \A i \in 1..Len(played) : played[i] = i

\* Only one thread feeds the device, over any number of init and stop.
OneLoop ==
    ~gaveUp => Cardinality(InLoop) <= 1

\* stop returns if the server answers its flush and closes the connection,
\* although the device thread may hang in a write that the server never takes
\* and so never grant the stop.
StopReturns ==
    WF_vars(FreeDevice) => (mpc = "stopAsk") ~> (mpc = "idle")

\* The device catches up with a player that writes no more, unless it is
\* stopped (or a stop has left a thread behind).
PlaysOn ==
    (\A t \in Threads : WF_vars(Server(t))) =>
        (stopRequest = "STARTED" /\ Len(played) < written)
            ~> (Len(played) = written \/ stopRequest # "STARTED" \/ gaveUp)

=============================================================================
