------------------------- MODULE AudioDeviceProofs -------------------------
(***************************************************************************)
(* What reaches the sound server, for every size of the buffer that keeps  *)
(* to SizeAssumption and any number of init and stop: as long as no stop   *)
(* has left its thread behind, one thread runs at most, and the server     *)
(* gets every block once, in order and intact.                             *)
(***************************************************************************)
EXTENDS AudioDevice, SequenceTheorems, FiniteSetTheorems, TLAPS

\* The thread of the latest init is the only one that may be in its loop, and
\* only as long as stop has not seen it leave.
Control ==
    /\ \A t \in Threads : t > inits => tpc[t] = "none"
    /\ mpc \in {"open", "spawn"} => inits \in Threads
    /\ ~gaveUp => \A t \in InLoop :
        /\ t = inits
        /\ mpc \in {"idle", "fill", "stopAsk", "stopPoll"}
        /\ mpc \in {"idle", "fill"} => playing
        /\ IF mpc = "stopPoll" THEN stopRequest = "STOP_REQ"
           ELSE stopRequest = "STARTED"
        /\ tpc[t] = "granting" => stopRequest = "STOP_REQ"

\* The number of the block at rdIndex, before it is sent or after.
NextBlock(t) == IF tpc[t] = "advance" THEN Len(played) ELSE Len(played) + 1

\* The buffer of a thread in its loop: what it holds are the blocks that
\* follow those played, and a place that was handed to the server keeps its
\* block even when the rest is moved to the front.
Sending(t) ==
    /\ rdIndex <= wrIndex
    /\ \A i \in rdIndex..wrIndex-1 : audioBuffer[i] = NextBlock(t) + i - rdIndex
    /\ written + 1 = NextBlock(t) + wrIndex - rdIndex
    /\ mpc = "fill" => wrIndex - rdIndex + 1 < Preload
    /\ tpc[t] \in {"write", "advance"} => rdIndex < wrIndex
    /\ tpc[t] = "write" =>
        /\ data[t] < Size
        /\ audioBuffer[data[t]] = Len(played) + 1
        /\ data[t] = rdIndex \/ (rdIndex = 0 /\ data[t] > Quarter)

Contents ==
    /\ ~gaveUp /\ mpc \in {"open", "spawn"} =>
         rdIndex = 0 /\ wrIndex = 0 /\ written = 0 /\ played = <<>>
    /\ ~gaveUp => \A t \in InLoop : Sending(t)
    /\ PlayedInOrder

IInv == TypeOK /\ Control /\ Contents

-----------------------------------------------------------------------------
\* What SizeAssumption says without divisions.
LEMMA Sizes ==
    /\ Size \in Nat /\ Preload \in Nat /\ Slice \in Nat \ {0} /\ StopPolls \in Nat
    /\ MaxInits \in Nat
    /\ Half \in Nat /\ Quarter \in Nat
    /\ 2 * Half <= Size /\ 4 * Quarter <= Size /\ Size <= 4 * Quarter + 3
    /\ Slice <= Half /\ Preload + Slice <= Quarter + 3
<1>1. {Size, Preload, Slice, StopPolls, MaxInits, MaxBlocks} \subseteq Nat \ {0}
  BY SizeAssumption DEF SizeAssumption
<1>2. /\ Size \in Nat /\ Preload \in Nat /\ Slice \in Nat \ {0} /\ StopPolls \in Nat
      /\ MaxInits \in Nat
  BY <1>1
<1>3. /\ Half \in Nat /\ 2 * Half <= Size
  BY <1>2 DEF Half
<1>4. /\ Quarter \in Nat /\ 4 * Quarter <= Size /\ Size <= 4 * Quarter + 3
  BY <1>2 DEF Quarter
<1>5. Slice <= Half /\ Preload + Slice <= Quarter + 3
  BY SizeAssumption DEF SizeAssumption, Half, Quarter
<1> QED BY <1>2, <1>3, <1>4, <1>5

\* A write of the player: where the next block is, and what the buffer then
\* holds.
LEMMA Writing ==
    ASSUME TypeOK, NEW len \in 1..Slice, writeData(len)
    PROVE  /\ mpc' = "idle" /\ written' = written + len
           /\ \/ /\ wrIndex > Half /\ rdIndex > Quarter /\ rdIndex <= wrIndex
                 /\ StoreAt(Moved, 0, Avail, len)
              \/ /\ wrIndex <= Half \/ rdIndex <= Quarter
                 /\ StoreAt(audioBuffer, rdIndex, wrIndex, len)
<1>1. wrIndex \in Nat /\ rdIndex \in Nat /\ Half \in Nat /\ Quarter \in Nat
  BY Sizes DEF TypeOK
<1> QED BY <1>1 DEF writeData, StoreAt, Huge, Avail

LEMMA StoreTypes ==
    ASSUME TypeOK, NEW len \in 1..Slice, NEW b \in [0..Size-1 -> Nat],
           NEW r \in Nat, NEW w \in 0..Size, StoreAt(b, r, w, len)
    PROVE  /\ audioBuffer' \in [0..Size-1 -> Nat]
           /\ rdIndex' \in Nat /\ wrIndex' \in 0..Size /\ written' \in Nat
<1>1. Size \in Nat /\ len \in Nat /\ written \in Nat /\ w \in Nat
  BY Sizes DEF TypeOK
<1>2. CASE w + len > Size
  BY <1>1, <1>2 DEF StoreAt
<1>3. CASE ~(w + len > Size)
  <2>1. Stored(b, w, len) \in [0..Size-1 -> Nat]
    <3>1. ASSUME NEW i \in 0..Size-1
          PROVE  (IF i \in w..w+len-1 THEN written + 1 + i - w ELSE b[i]) \in Nat
      BY <1>1
    <3> QED BY <3>1 DEF Stored
  <2> QED BY <1>1, <1>3, <2>1 DEF StoreAt
<1> QED BY <1>2, <1>3

LEMMA MovedTypes ==
    ASSUME TypeOK, rdIndex <= wrIndex
    PROVE  Moved \in [0..Size-1 -> Nat] /\ Avail \in 0..Size
<1>1. Size \in Nat /\ rdIndex \in Nat /\ wrIndex \in 0..Size
  BY Sizes DEF TypeOK
<1>2. ASSUME NEW i \in 0..Size-1, i < Avail PROVE audioBuffer[rdIndex + i] \in Nat
  <2>1. rdIndex + i \in 0..Size-1
    BY <1>1, <1>2 DEF Avail
  <2> QED BY <2>1 DEF TypeOK
<1>3. ASSUME NEW i \in 0..Size-1 PROVE audioBuffer[i] \in Nat
  BY DEF TypeOK
<1> QED BY <1>1, <1>2, <1>3 DEF Moved, Avail

-----------------------------------------------------------------------------
\* Types.
LEMMA TypesKept == TypeOK /\ Control /\ [Next]_vars => TypeOK'
<1> SUFFICES ASSUME TypeOK, Control, [Next]_vars PROVE TypeOK'
  OBVIOUS
<1>0. Size \in Nat /\ StopPolls \in Nat /\ MaxInits \in Nat
  BY Sizes
<1>1. CASE PlayerStep
  <2>1. CASE InitReset
    BY <1>0, <2>1 DEF InitReset, TypeOK, Garbage
  <2>2. CASE InitOpen \/ PumpLook
    BY <2>2 DEF InitOpen, PumpLook, TypeOK, buffer, history
  <2>9. CASE InitSpawn
    BY <2>9 DEF InitSpawn, TypeOK, buffer, history
  <2>3. ASSUME NEW len \in 1..Slice, writeData(len) PROVE TypeOK'
    <3>1. /\ audioBuffer' \in [0..Size-1 -> Nat]
          /\ rdIndex' \in Nat /\ wrIndex' \in 0..Size /\ written' \in Nat
      <4>1. CASE rdIndex <= wrIndex /\ StoreAt(Moved, 0, Avail, len)
        BY <4>1, MovedTypes, StoreTypes
      <4>2. CASE StoreAt(audioBuffer, rdIndex, wrIndex, len)
        BY <4>2, StoreTypes DEF TypeOK
      <4> QED BY <2>3, <4>1, <4>2, Writing
    <3> QED BY <2>3, <3>1 DEF writeData, TypeOK
  <2>4. CASE StopTest
    BY <2>4 DEF StopTest, TypeOK, buffer, history
  <2>5. CASE StopAsk
    <3>1. maxWait' \in 0..StopPolls /\ stopRequest' = "STOP_REQ" /\ mpc' = "stopPoll"
      BY <1>0, <2>5 DEF StopAsk
    <3>2. UNCHANGED <<rdIndex, wrIndex, audioBuffer, instance, playing, inits, tpc,
                      data, written, played, gaveUp>>
      BY <2>5 DEF StopAsk, buffer, history
    <3> QED BY <3>1, <3>2 DEF TypeOK
  <2>6. CASE StopPoll
    <3>1. maxWait' \in 0..StopPolls
      <4>1. maxWait \in 0..StopPolls
        BY DEF TypeOK
      <4> QED BY <1>0, <2>6, <4>1 DEF StopPoll
    <3>2. gaveUp' \in BOOLEAN /\ mpc' \in {"stopPoll", "localStop"}
      BY <2>6 DEF StopPoll, TypeOK
    <3>3. UNCHANGED <<stopRequest, rdIndex, wrIndex, audioBuffer, instance, playing,
                      inits, tpc, data, written, played>>
      BY <2>6 DEF StopPoll, buffer, history
    <3> QED BY <3>1, <3>2, <3>3 DEF TypeOK
  <2>7. CASE localStop \/ StopDone
    BY <2>7 DEF localStop, StopDone, TypeOK, buffer, history
  <2>8. CASE StopClean
    BY <1>0, <2>8 DEF StopClean, TypeOK, buffer, history, Garbage
  <2> QED BY <1>1, <2>1, <2>2, <2>3, <2>4, <2>5, <2>6, <2>7, <2>8, <2>9
         DEF PlayerStep, StopStep, FreeDevice
<1>2. ASSUME NEW t \in Threads, ThreadStep(t) PROVE TypeOK'
  <2>1. CASE LoopTest(t)
    BY <2>1 DEF LoopTest, TypeOK, buffer, history
  <2>5. CASE LoopEnd(t)
    BY <2>5 DEF LoopEnd, TypeOK, buffer, history
  <2>6. CASE SendNoDevice(t) \/ WriteSilence(t)
    BY <2>6 DEF SendNoDevice, WriteSilence, TypeOK, buffer, history
  <2>2. CASE SendLook(t)
    BY <2>2 DEF SendLook, TypeOK, buffer, history
  <2>3. CASE WriteBlock(t)
    <3>1. (IF data[t] < Size THEN audioBuffer[data[t]] ELSE Garbage) \in Nat
      <4>1. data[t] < Size => data[t] \in 0..Size-1
        BY <1>0 DEF TypeOK
      <4> QED BY <4>1 DEF TypeOK, Garbage
    <3>2. played' \in Seq(Nat)
      BY <2>3, <3>1, AppendProperties DEF WriteBlock, TypeOK
    <3> QED BY <2>3, <3>2 DEF WriteBlock, TypeOK, buffer
  <2>4. CASE Advance(t)
    BY <2>4 DEF Advance, TypeOK, history
  <2> QED BY <1>2, <2>1, <2>2, <2>3, <2>4, <2>5, <2>6 DEF ThreadStep, LoopStep, Server
<1>3. CASE UNCHANGED vars
  BY <1>3 DEF vars, TypeOK, buffer, history
<1> QED BY <1>1, <1>2, <1>3 DEF Next

-----------------------------------------------------------------------------
\* One thread.
LEMMA InitIInv == Init => IInv
<1> SUFFICES ASSUME Init PROVE IInv
  OBVIOUS
<1>0. Size \in Nat /\ StopPolls \in Nat /\ MaxInits \in Nat
  BY Sizes
<1>1. TypeOK
  <2>1. /\ rdIndex \in Nat /\ wrIndex \in 0..Size
        /\ maxWait \in 0..StopPolls /\ inits \in 0..MaxInits
    BY <1>0 DEF Init
  <2>2. audioBuffer \in [0..Size-1 -> Nat] /\ data \in [Threads -> Nat]
    BY DEF Init, Garbage
  <2>3. /\ tpc \in [Threads -> {"none", "test", "send", "silence", "write",
                                "advance", "granting", "exited"}]
    BY DEF Init
  <2>4. played \in Seq(Nat) /\ written \in Nat
    BY DEF Init
  <2>5. /\ stopRequest \in {"STOPPED", "STARTED", "STOP_REQ", "STOP_GR"}
        /\ instance \in BOOLEAN /\ playing \in BOOLEAN /\ gaveUp \in BOOLEAN
        /\ mpc \in {"idle", "open", "spawn", "fill", "stopAsk", "stopPoll",
                    "localStop", "clean", "stopped"}
    BY DEF Init
  <2> QED BY <2>1, <2>2, <2>3, <2>4, <2>5 DEF TypeOK
<1>2. InLoop = {}
  BY DEF Init, InLoop
<1>3. Control
  BY <1>2 DEF Init, Control
<1>4. Contents
  BY <1>2 DEF Init, Contents, PlayedInOrder
<1> QED BY <1>1, <1>3, <1>4 DEF IInv

\* A thread whose step changes neither gaveUp nor the player's state stays, or
\* leaves; the others stay out of their loop.
LEMMA ThreadAlone ==
    ASSUME TypeOK, Control, NEW t \in Threads, ThreadStep(t), ~gaveUp'
    PROVE  /\ ~gaveUp /\ t \in InLoop /\ t = inits
           /\ InLoop' \subseteq {t}
           /\ UNCHANGED <<mpc, playing, inits>>
<1>1. tpc[t] \notin {"none", "exited"}
  BY DEF ThreadStep, LoopStep, Server, LoopTest, LoopEnd, SendNoDevice, SendLook,
         WriteSilence, WriteBlock, Advance
<1>2. UNCHANGED <<mpc, playing, inits, gaveUp>>
  BY DEF ThreadStep, LoopStep, Server, LoopTest, LoopEnd, SendNoDevice, SendLook,
         WriteSilence, WriteBlock, Advance
<1>3. \A s \in Threads \ {t} : tpc'[s] = tpc[s]
  BY DEF ThreadStep, LoopStep, Server, LoopTest, LoopEnd, SendNoDevice, SendLook,
         WriteSilence, WriteBlock, Advance, TypeOK
<1>4. ~gaveUp /\ t \in InLoop /\ t = inits
  BY <1>1, <1>2 DEF InLoop, Control
<1>5. InLoop' \subseteq {t}
  BY <1>3, <1>4 DEF InLoop, Control
<1> QED BY <1>2, <1>4, <1>5

LEMMA ControlKept == TypeOK /\ Control /\ [Next]_vars => Control'
<1> SUFFICES ASSUME TypeOK, Control, [Next]_vars PROVE Control'
  OBVIOUS
<1>0. MaxInits \in Nat /\ inits \in Nat /\ Threads \subseteq Nat
  BY Sizes DEF TypeOK, Threads
<1>1. CASE InitReset
  <2>1. ~gaveUp => InLoop = {}
    BY <1>1 DEF InitReset, Control
  <2>2. inits' \in Threads
    BY <1>0, <1>1 DEF InitReset, Threads
  <2>3. InLoop' = InLoop
    BY <1>1 DEF InitReset, InLoop
  <2>4. \A t \in Threads : t > inits' => tpc'[t] = "none"
    BY <1>0, <1>1 DEF InitReset, Control
  <2> QED BY <1>1, <2>1, <2>2, <2>3, <2>4 DEF InitReset, Control
<1>2. CASE InitOpen
  <2>1. ~gaveUp => InLoop = {}
    BY <1>2 DEF InitOpen, Control
  <2>2. InLoop' = InLoop
    BY <1>2 DEF InitOpen, InLoop
  <2> QED BY <1>2, <2>1, <2>2 DEF InitOpen, Control
<1>3. CASE InitSpawn
  <2>1. ~gaveUp => InLoop = {}
    BY <1>3 DEF InitSpawn, Control
  <2>2. inits \in Threads
    BY <1>3 DEF InitSpawn, Control
  <2>3. \A s \in Threads \ {inits} : tpc'[s] = tpc[s]
    BY <1>3 DEF InitSpawn, TypeOK
  <2>4. tpc'[inits] = "test"
    BY <1>3, <2>2 DEF InitSpawn, TypeOK
  <2>5. \A t \in Threads : t > inits' => tpc'[t] = "none"
    BY <1>0, <1>3, <2>3 DEF InitSpawn, Control
  <2>6. ~gaveUp' => InLoop' \subseteq {inits}
    BY <1>3, <2>1, <2>3 DEF InitSpawn, InLoop
  <2> QED BY <1>3, <2>4, <2>5, <2>6 DEF InitSpawn, Control
<1>4. CASE PumpLook \/ (\E len \in 1..Slice : writeData(len))
  <2>1. /\ UNCHANGED <<tpc, stopRequest, playing, inits, gaveUp>>
        /\ mpc \in {"idle", "fill"} /\ mpc' \in {"idle", "fill"}
    BY <1>4 DEF PumpLook, writeData
  <2>2. InLoop' = InLoop
    BY <2>1 DEF InLoop
  <2> QED BY <2>1, <2>2 DEF Control
<1>5. CASE StopTest
  <2>1. InLoop' = InLoop
    BY <1>5 DEF StopTest, InLoop
  <2> QED BY <1>5, <2>1 DEF StopTest, Control
<1>6. CASE StopAsk
  <2>1. InLoop' = InLoop
    BY <1>6 DEF StopAsk, InLoop
  <2> QED BY <1>6, <2>1 DEF StopAsk, Control
<1>7. CASE StopPoll
  <2>1. InLoop' = InLoop /\ UNCHANGED <<tpc, inits, stopRequest>>
    BY <1>7 DEF StopPoll, InLoop
  <2>2. CASE mpc' = "stopPoll" /\ gaveUp' = gaveUp
    BY <1>7, <2>1, <2>2 DEF StopPoll, Control
  <2>3. CASE mpc' = "localStop" /\ gaveUp' = (gaveUp \/ stopRequest = "STOP_REQ")
    BY <1>7, <2>1, <2>3 DEF StopPoll, Control
  <2> QED BY <1>7, <2>2, <2>3 DEF StopPoll
<1>8. CASE localStop \/ StopClean \/ StopDone
  <2>1. ~gaveUp => InLoop = {}
    BY <1>8 DEF localStop, StopClean, StopDone, Control
  <2>2. UNCHANGED <<tpc, inits, gaveUp>> /\ mpc' \notin {"open", "spawn"}
    BY <1>8 DEF localStop, StopClean, StopDone
  <2>3. InLoop' = InLoop
    BY <2>2 DEF InLoop
  <2> QED BY <2>1, <2>2, <2>3 DEF Control
<1>9. ASSUME NEW t \in Threads, ThreadStep(t) PROVE Control'
  <2>1. UNCHANGED <<mpc, inits, gaveUp, playing>>
    BY <1>9 DEF ThreadStep, LoopStep, Server, LoopTest, LoopEnd, SendNoDevice,
                SendLook, WriteSilence, WriteBlock, Advance
  <2>2. \A s \in Threads : s > inits => tpc'[s] = "none"
    <3>1. tpc[t] # "none"
      BY <1>9 DEF ThreadStep, LoopStep, Server, LoopTest, LoopEnd, SendNoDevice,
                  SendLook, WriteSilence, WriteBlock, Advance
    <3>2. \A s \in Threads \ {t} : tpc'[s] = tpc[s]
      BY <1>9 DEF ThreadStep, LoopStep, Server, LoopTest, LoopEnd, SendNoDevice,
                  SendLook, WriteSilence, WriteBlock, Advance, TypeOK
    <3> QED BY <3>1, <3>2 DEF Control
  <2>3. ASSUME ~gaveUp', t \in InLoop'
        PROVE  /\ stopRequest' = stopRequest
               /\ tpc'[t] = "granting" => stopRequest # "STARTED"
    <3>1. ~LoopEnd(t)
      BY <2>3 DEF LoopEnd, InLoop, TypeOK
    <3>2. CASE LoopTest(t)
      BY <3>2 DEF LoopTest, TypeOK
    <3>3. CASE SendNoDevice(t) \/ WriteSilence(t) \/ WriteBlock(t) \/ Advance(t)
      BY <3>3 DEF SendNoDevice, WriteSilence, WriteBlock, Advance, TypeOK
    <3>4. CASE SendLook(t)
      BY <3>4 DEF SendLook, TypeOK
    <3> QED BY <1>9, <3>1, <3>2, <3>3, <3>4 DEF ThreadStep, LoopStep, Server
  <2>4. ASSUME ~gaveUp' PROVE InLoop' \subseteq {t} /\ t \in InLoop /\ t = inits /\ ~gaveUp
    BY <1>9, <2>4, ThreadAlone
  <2> QED BY <2>1, <2>2, <2>3, <2>4 DEF Control
<1>10. CASE UNCHANGED vars
  <2>1. UNCHANGED <<tpc, mpc, stopRequest, playing, inits, gaveUp>>
    BY <1>10 DEF vars
  <2>2. InLoop' = InLoop
    BY <2>1 DEF InLoop
  <2> QED BY <2>1, <2>2 DEF Control
<1> QED BY <1>1, <1>2, <1>3, <1>4, <1>5, <1>6, <1>7, <1>8, <1>9, <1>10
        DEF Next, PlayerStep, StopStep, FreeDevice

-----------------------------------------------------------------------------
\* What is stored.

\* With the thread in its loop the player's store is never too long for the
\* room, and only places below the one in the server's hand, or above all that
\* is held, are written.
LEMMA Room ==
    ASSUME TypeOK, NEW t \in InLoop, Sending(t), mpc = "fill",
           NEW len \in 1..Slice, writeData(len)
    PROVE  /\ written' = written + len /\ mpc' = "idle"
           /\ rdIndex \in Nat /\ wrIndex \in Nat /\ rdIndex <= wrIndex
           /\ \/ /\ rdIndex > Quarter /\ Avail + len <= Quarter + 1
                 /\ Quarter + 1 <= Size
                 /\ rdIndex' = 0 /\ wrIndex' = Avail + len
                 /\ audioBuffer' = Stored(Moved, Avail, len)
              \/ /\ rdIndex' = rdIndex /\ wrIndex' = wrIndex + len
                 /\ wrIndex + len <= Size
                 /\ audioBuffer' = Stored(audioBuffer, wrIndex, len)
                 /\ rdIndex = 0 => wrIndex + len <= Quarter + 1
<1>1. /\ rdIndex \in Nat /\ wrIndex \in 0..Size /\ len \in Nat /\ len >= 1 /\ len <= Slice
      /\ rdIndex <= wrIndex /\ wrIndex - rdIndex + 1 < Preload
  BY Sizes DEF TypeOK, Sending
<1>2. wrIndex - rdIndex + len <= Quarter + 1
  BY <1>1, Sizes
<1>3. CASE rdIndex > Quarter /\ StoreAt(Moved, 0, Avail, len)
  <2>1. Quarter + 1 <= Size
    BY <1>1, <1>3, Sizes
  <2> QED BY <1>1, <1>2, <1>3, <2>1, Writing, Sizes DEF StoreAt, Avail
<1>4. CASE /\ wrIndex <= Half \/ rdIndex <= Quarter
           /\ StoreAt(audioBuffer, rdIndex, wrIndex, len)
  <2>1. wrIndex + len <= Size
    <3>1. CASE wrIndex <= Half
      BY <1>1, <3>1, Sizes
    <3>2. CASE rdIndex <= Quarter
      <4>1. wrIndex + len <= 2 * Quarter + 1
        BY <1>1, <1>2, <3>2, Sizes
      <4>2. CASE Quarter = 0
        BY <1>1, <4>1, <4>2, Sizes
      <4>3. CASE Quarter # 0
        BY <1>1, <4>1, <4>3, Sizes
      <4> QED BY <4>2, <4>3
    <3> QED BY <1>4, <3>1, <3>2
  <2> QED BY <1>1, <1>2, <1>4, <2>1, Writing, Sizes DEF StoreAt
<1> QED BY <1>1, <1>3, <1>4, Writing

LEMMA StoreKept ==
    ASSUME TypeOK, NEW t \in InLoop, Sending(t), mpc = "fill",
           NEW len \in 1..Slice, writeData(len)
    PROVE  Sending(t)'
<1> DEFINE n == NextBlock(t)
<1>0. /\ rdIndex \in Nat /\ wrIndex \in Nat /\ rdIndex <= wrIndex /\ wrIndex <= Size
      /\ len \in Nat /\ len >= 1 /\ written \in Nat /\ Size \in Nat /\ Quarter \in Nat
      /\ Len(played) \in Nat /\ n \in Nat /\ t \in Threads /\ data[t] \in Nat
  <2>1. t \in Threads
    BY DEF InLoop
  <2>2. Len(played) \in Nat
    BY LenProperties DEF TypeOK
  <2> QED BY <2>1, <2>2, Room, Sizes DEF TypeOK, NextBlock
<1>1. UNCHANGED <<tpc, data, played>> /\ NextBlock(t)' = n
  BY DEF writeData, NextBlock
<1>2. written + 1 = n + wrIndex - rdIndex /\ written' = written + len
  BY Room DEF Sending
<1>3. ASSUME tpc[t] = "write"
      PROVE  /\ data[t] < Size /\ audioBuffer[data[t]] = Len(played) + 1
             /\ data[t] = rdIndex \/ (rdIndex = 0 /\ data[t] > Quarter)
             /\ rdIndex < wrIndex
  BY <1>3 DEF Sending
<1>4. CASE /\ rdIndex > Quarter /\ Avail + len <= Quarter + 1 /\ Quarter + 1 <= Size
           /\ rdIndex' = 0 /\ wrIndex' = Avail + len
           /\ audioBuffer' = Stored(Moved, Avail, len)
  <2>0. Avail \in Nat /\ Avail = wrIndex - rdIndex
    BY <1>0 DEF Avail
  <2>1. ASSUME NEW i \in 0..Size-1
        PROVE  audioBuffer'[i] = IF i \in Avail..Avail+len-1 THEN written + 1 + i - Avail
                                 ELSE IF i < Avail THEN audioBuffer[rdIndex + i]
                                 ELSE audioBuffer[i]
    BY <1>4 DEF Stored, Moved
  <2>2. \A i \in 0..wrIndex'-1 : audioBuffer'[i] = n + i
    <3> SUFFICES ASSUME NEW i \in 0..wrIndex'-1 PROVE audioBuffer'[i] = n + i
      OBVIOUS
    <3>1. i \in 0..Size-1
      BY <1>0, <1>4, <2>0
    <3>2. CASE i < Avail
      <4>1. rdIndex + i \in rdIndex..wrIndex-1
        BY <1>0, <2>0, <3>1, <3>2
      <4>2. audioBuffer[rdIndex + i] = n + (rdIndex + i) - rdIndex
        BY <4>1 DEF Sending
      <4>3. i \notin Avail..Avail+len-1
        BY <2>0, <3>1, <3>2
      <4> QED BY <1>0, <2>1, <3>1, <3>2, <4>2, <4>3
    <3>3. CASE ~(i < Avail)
      <4>1. i \in Avail..Avail+len-1
        BY <1>0, <1>4, <2>0, <3>1, <3>3
      <4> QED BY <1>0, <1>2, <2>0, <2>1, <3>1, <4>1
    <3> QED BY <3>2, <3>3
  <2>3. ASSUME tpc'[t] = "write"
        PROVE  /\ data'[t] < Size /\ audioBuffer'[data'[t]] = Len(played') + 1
               /\ rdIndex' = 0 /\ data'[t] > Quarter
    <3>1. tpc[t] = "write" /\ data'[t] = data[t] /\ played' = played
      BY <1>1, <2>3
    <3>2. data[t] = rdIndex /\ data[t] \in 0..Size-1
      BY <1>0, <1>3, <1>4, <3>1
    <3>3. audioBuffer'[data[t]] = audioBuffer[data[t]]
      BY <1>0, <1>4, <2>0, <2>1, <3>2
    <3> QED BY <1>3, <1>4, <3>1, <3>2, <3>3
  <2>4. written' + 1 = n + wrIndex' - rdIndex'
    BY <1>0, <1>2, <1>4, <2>0
  <2>5. rdIndex' <= wrIndex' /\ rdIndex' < wrIndex'
    BY <1>0, <1>4, <2>0
  <2>6. \A i \in rdIndex'..wrIndex'-1 : audioBuffer'[i] = NextBlock(t)' + i - rdIndex'
    <3> SUFFICES ASSUME NEW i \in rdIndex'..wrIndex'-1
                 PROVE  audioBuffer'[i] = NextBlock(t)' + i - rdIndex'
      OBVIOUS
    <3>1. i \in 0..wrIndex'-1 /\ i \in Int
      BY <1>0, <1>4, <2>0
    <3> QED BY <1>0, <1>1, <1>4, <2>2, <3>1
  <2> QED BY <1>1, <2>3, <2>4, <2>5, <2>6, Room DEF Sending
<1>5. CASE /\ rdIndex' = rdIndex /\ wrIndex' = wrIndex + len
           /\ wrIndex + len <= Size
           /\ audioBuffer' = Stored(audioBuffer, wrIndex, len)
           /\ rdIndex = 0 => wrIndex + len <= Quarter + 1
  <2>1. ASSUME NEW i \in 0..Size-1
        PROVE  audioBuffer'[i] = IF i \in wrIndex..wrIndex+len-1
                                 THEN written + 1 + i - wrIndex ELSE audioBuffer[i]
    BY <1>5 DEF Stored
  <2>2. \A i \in rdIndex'..wrIndex'-1 : audioBuffer'[i] = NextBlock(t)' + i - rdIndex'
    <3> SUFFICES ASSUME NEW i \in rdIndex..wrIndex+len-1
                 PROVE  audioBuffer'[i] = n + i - rdIndex
      <4>1. rdIndex'..wrIndex'-1 = rdIndex..wrIndex+len-1
        BY <1>0, <1>5
      <4>2. rdIndex' = rdIndex /\ NextBlock(t)' = n
        BY <1>1, <1>5
      <4> HIDE DEF n
      <4> QED BY <4>1, <4>2
    <3>1. i \in 0..Size-1
      BY <1>0, <1>5
    <3>2. CASE i < wrIndex
      <4>1. i \in rdIndex..wrIndex-1 /\ i \notin wrIndex..wrIndex+len-1
        BY <1>0, <3>1, <3>2
      <4>2. audioBuffer[i] = n + i - rdIndex
        BY <4>1 DEF Sending
      <4> QED BY <2>1, <3>1, <4>1, <4>2
    <3>3. CASE ~(i < wrIndex)
      <4>1. i \in wrIndex..wrIndex+len-1
        BY <1>0, <3>1, <3>3
      <4> QED BY <1>0, <1>2, <2>1, <3>1, <4>1
    <3> QED BY <3>2, <3>3
  <2>3. ASSUME tpc'[t] = "write"
        PROVE  /\ data'[t] < Size /\ audioBuffer'[data'[t]] = Len(played') + 1
               /\ data'[t] = rdIndex' \/ (rdIndex' = 0 /\ data'[t] > Quarter)
    <3>1. tpc[t] = "write" /\ data'[t] = data[t] /\ played' = played
      BY <1>1, <2>3
    <3>2. data[t] \in 0..Size-1 /\ data[t] \notin wrIndex..wrIndex+len-1
      BY <1>0, <1>3, <1>5, <3>1
    <3>3. audioBuffer'[data[t]] = audioBuffer[data[t]]
      BY <2>1, <3>2
    <3> QED BY <1>3, <1>5, <3>1, <3>3
  <2>4. written' + 1 = n + wrIndex' - rdIndex'
    BY <1>0, <1>2, <1>5
  <2>5. rdIndex' <= wrIndex' /\ rdIndex' < wrIndex'
    BY <1>0, <1>5
  <2> QED BY <1>1, <2>2, <2>3, <2>4, <2>5, Room DEF Sending
<1> QED BY <1>4, <1>5, Room

-----------------------------------------------------------------------------
\* What is sent.

\* A step that leaves the buffer, the histories and the thread alone.
LEMMA SendingStays ==
    ASSUME NEW t \in InLoop, Sending(t), mpc' = "fill" => mpc = "fill",
           UNCHANGED <<rdIndex, wrIndex, audioBuffer, written, played, tpc, data>>
    PROVE  Sending(t)'
BY DEF Sending, NextBlock

LEMMA SendStep ==
    ASSUME TypeOK, NEW t \in InLoop, Sending(t), PlayedInOrder, ~gaveUp,
           ThreadStep(t), t \in InLoop'
    PROVE  Sending(t)' /\ PlayedInOrder'
<1>0. /\ t \in Threads /\ rdIndex \in Nat /\ wrIndex \in 0..Size /\ Size \in Nat
      /\ Len(played) \in Nat /\ written \in Nat /\ rdIndex <= wrIndex
      /\ wrIndex \in Nat /\ wrIndex <= Size
  <2>1. t \in Threads
    BY DEF InLoop
  <2>2. Len(played) \in Nat
    BY LenProperties DEF TypeOK
  <2> QED BY <2>1, <2>2, Sizes DEF TypeOK, Sending
<1>1. CASE LoopTest(t) \/ SendNoDevice(t) \/ WriteSilence(t)
  <2>1. /\ UNCHANGED <<rdIndex, wrIndex, audioBuffer, written, played, data, mpc, gaveUp>>
        /\ tpc[t] \in {"test", "send", "silence"}
        /\ tpc'[t] \in {"test", "send", "granting"}
    BY <1>0, <1>1 DEF LoopTest, SendNoDevice, WriteSilence, TypeOK, buffer, history
  <2>2. NextBlock(t)' = NextBlock(t)
    BY <2>1 DEF NextBlock
  <2>3. PlayedInOrder'
    BY <2>1 DEF PlayedInOrder
  <2> QED BY <2>1, <2>2, <2>3 DEF Sending
<1>2. CASE SendLook(t)
  <2>1. /\ UNCHANGED <<rdIndex, wrIndex, audioBuffer, written, played, mpc, gaveUp>>
        /\ tpc[t] = "send"
    BY <1>0, <1>2 DEF SendLook, buffer, history
  <2>2. \/ tpc'[t] = "silence"
        \/ tpc'[t] = "write" /\ data'[t] = rdIndex /\ Avail # 0
    BY <1>0, <1>2 DEF SendLook, TypeOK
  <2>3. NextBlock(t)' = NextBlock(t) /\ NextBlock(t) = Len(played) + 1
    BY <2>1, <2>2 DEF NextBlock
  <2>4. PlayedInOrder'
    BY <2>1 DEF PlayedInOrder
  <2>5. ASSUME tpc'[t] = "write"
        PROVE  /\ rdIndex < wrIndex /\ data'[t] = rdIndex /\ rdIndex < Size
               /\ audioBuffer[rdIndex] = Len(played) + 1
    <3>1. data'[t] = rdIndex /\ rdIndex < wrIndex
      BY <1>0, <2>2, <2>5 DEF Avail
    <3>2. rdIndex \in rdIndex..wrIndex-1
      BY <1>0, <3>1
    <3>3. audioBuffer[rdIndex] = NextBlock(t) + rdIndex - rdIndex
      BY <3>2 DEF Sending
    <3> QED BY <1>0, <2>3, <3>1, <3>3
  <2>6. tpc'[t] # "advance"
    BY <2>2
  <2> QED BY <2>1, <2>3, <2>4, <2>5, <2>6 DEF Sending
<1>3. CASE WriteBlock(t)
  <2>1. /\ UNCHANGED <<rdIndex, wrIndex, audioBuffer, written, data, mpc, gaveUp>>
        /\ tpc[t] = "write" /\ tpc'[t] = "advance"
    BY <1>0, <1>3 DEF WriteBlock, TypeOK, buffer
  <2>2. data[t] < Size /\ audioBuffer[data[t]] = Len(played) + 1 /\ rdIndex < wrIndex
    BY <2>1 DEF Sending
  <2>3. played' = Append(played, Len(played) + 1)
    BY <1>3, <2>2 DEF WriteBlock
  <2>4. /\ Len(played') = Len(played) + 1
        /\ \A i \in 1..Len(played) : played'[i] = played[i]
        /\ played'[Len(played) + 1] = Len(played) + 1
    <3>1. played \in Seq(Nat) /\ Len(played) + 1 \in Nat
      BY <1>0 DEF TypeOK
    <3> QED BY <2>3, <3>1, AppendProperties
  <2>5. NextBlock(t)' = NextBlock(t)
    BY <2>1, <2>4 DEF NextBlock
  <2>6. PlayedInOrder'
    <3> SUFFICES ASSUME NEW i \in 1..Len(played') PROVE played'[i] = i
      BY DEF PlayedInOrder
    <3>1. CASE i \in 1..Len(played)
      BY <2>4, <3>1 DEF PlayedInOrder
    <3>2. CASE i = Len(played) + 1
      BY <2>4, <3>2
    <3> QED BY <1>0, <2>4, <3>1, <3>2
  <2> QED BY <2>1, <2>2, <2>5, <2>6 DEF Sending
<1>4. CASE Advance(t)
  <2>1. /\ UNCHANGED <<wrIndex, audioBuffer, written, played, mpc, gaveUp>>
        /\ tpc[t] = "advance" /\ tpc'[t] = "test" /\ rdIndex' = rdIndex + 1
    BY <1>0, <1>4 DEF Advance, TypeOK, history
  <2>2. rdIndex < wrIndex
    BY <2>1 DEF Sending
  <2>3. NextBlock(t) = Len(played) /\ NextBlock(t)' = Len(played) + 1
    BY <2>1 DEF NextBlock
  <2>4. \A i \in rdIndex+1..wrIndex-1 : audioBuffer[i] = Len(played) + 1 + i - (rdIndex + 1)
    <3> SUFFICES ASSUME NEW i \in rdIndex+1..wrIndex-1
                 PROVE  audioBuffer[i] = Len(played) + 1 + i - (rdIndex + 1)
      OBVIOUS
    <3>1. i \in rdIndex..wrIndex-1
      BY <1>0
    <3>2. audioBuffer[i] = Len(played) + i - rdIndex
      BY <2>3, <3>1 DEF Sending
    <3> QED BY <1>0, <3>1, <3>2
  <2>5. written' + 1 = NextBlock(t)' + wrIndex' - rdIndex'
    <3>1. written + 1 = Len(played) + wrIndex - rdIndex
      BY <2>3 DEF Sending
    <3> QED BY <1>0, <2>1, <2>3, <3>1
  <2>6. rdIndex' <= wrIndex' /\ (mpc' = "fill" => wrIndex' - rdIndex' + 1 < Preload)
    <3>1. mpc = "fill" => wrIndex - rdIndex + 1 < Preload
      BY DEF Sending
    <3> QED BY <1>0, <2>1, <2>2, <3>1, Sizes
  <2>7. PlayedInOrder'
    BY <2>1 DEF PlayedInOrder
  <2>8. \A i \in rdIndex'..wrIndex'-1 : audioBuffer'[i] = NextBlock(t)' + i - rdIndex'
    BY <2>1, <2>3, <2>4
  <2> QED BY <2>1, <2>5, <2>6, <2>7, <2>8 DEF Sending
<1>5. ~LoopEnd(t)
  BY <1>0 DEF LoopEnd, InLoop, TypeOK
<1> QED BY <1>1, <1>2, <1>3, <1>4, <1>5 DEF ThreadStep, LoopStep, Server

LEMMA ContentsKept == IInv /\ [Next]_vars => Contents'
<1> SUFFICES ASSUME TypeOK, Control, Contents, [Next]_vars PROVE Contents'
  BY DEF IInv
<1>1. CASE InitReset
  <2>1. ~gaveUp => InLoop = {}
    BY <1>1 DEF InitReset, Control
  <2>2. InLoop' = InLoop /\ gaveUp' = gaveUp
    BY <1>1 DEF InitReset, InLoop
  <2>3. PlayedInOrder'
    BY <1>1 DEF InitReset, PlayedInOrder
  <2>4. rdIndex' = 0 /\ wrIndex' = 0 /\ written' = 0 /\ played' = <<>>
    BY <1>1 DEF InitReset
  <2> QED BY <2>1, <2>2, <2>3, <2>4 DEF Contents
<1>2. CASE InitOpen
  <2>1. UNCHANGED <<rdIndex, wrIndex, audioBuffer, written, played, tpc, data, gaveUp>>
    BY <1>2 DEF InitOpen, buffer, history
  <2>2. ~gaveUp => InLoop = {}
    BY <1>2 DEF InitOpen, Control
  <2>3. InLoop' = InLoop
    BY <2>1 DEF InLoop
  <2>4. ~gaveUp => rdIndex = 0 /\ wrIndex = 0 /\ written = 0 /\ played = <<>>
    BY <1>2 DEF InitOpen, Contents
  <2>5. PlayedInOrder'
    BY <2>1 DEF Contents, PlayedInOrder
  <2> QED BY <2>1, <2>2, <2>3, <2>4, <2>5 DEF Contents
<1>3. CASE InitSpawn
  <2>1. UNCHANGED <<rdIndex, wrIndex, audioBuffer, written, played, data, gaveUp, inits>>
    BY <1>3 DEF InitSpawn, buffer, history
  <2>2. ~gaveUp => InLoop = {}
    BY <1>3 DEF InitSpawn, Control
  <2>3. inits \in Threads /\ mpc' = "idle"
    BY <1>3 DEF InitSpawn, Control
  <2>4. tpc'[inits] = "test" /\ \A s \in Threads \ {inits} : tpc'[s] = tpc[s]
    BY <1>3, <2>3 DEF InitSpawn, TypeOK
  <2>5. ~gaveUp => rdIndex = 0 /\ wrIndex = 0 /\ written = 0 /\ played = <<>>
    BY <1>3 DEF InitSpawn, Contents
  <2>6. PlayedInOrder'
    BY <2>1 DEF Contents, PlayedInOrder
  <2>7. ASSUME NEW t \in InLoop', ~gaveUp' PROVE Sending(t)'
    <3>1. t = inits
      BY <2>1, <2>2, <2>4, <2>7 DEF InLoop
    <3>2. tpc'[t] = "test"
      BY <2>4, <3>1
    <3>3. NextBlock(t)' = 1
      BY <2>1, <2>5, <2>7, <3>2 DEF NextBlock
    <3>4. rdIndex' = 0 /\ wrIndex' = 0 /\ written' = 0
      BY <2>1, <2>5, <2>7
    <3> QED BY <2>3, <3>2, <3>3, <3>4 DEF Sending
  <2> QED BY <2>3, <2>6, <2>7 DEF Contents
<1>4. CASE PumpLook
  <2>1. /\ UNCHANGED <<rdIndex, wrIndex, audioBuffer, written, played, data, gaveUp, tpc>>
        /\ getBufferFullness < Preload /\ mpc' = "fill"
    BY <1>4 DEF PumpLook, buffer, history
  <2>2. InLoop' = InLoop
    BY <2>1 DEF InLoop
  <2>3. ASSUME NEW t \in InLoop', ~gaveUp' PROVE Sending(t)'
    <3>1. Sending(t)
      BY <2>1, <2>2, <2>3 DEF Contents
    <3>2. wrIndex - rdIndex + 1 < Preload
      <4>1. rdIndex \in Nat /\ wrIndex \in Nat /\ rdIndex <= wrIndex /\ Preload \in Nat
        BY <3>1, Sizes DEF TypeOK, Sending
      <4> QED BY <2>1, <4>1 DEF getBufferFullness, Huge, Avail
    <3>3. NextBlock(t)' = NextBlock(t)
      BY <2>1 DEF NextBlock
    <3> QED BY <2>1, <3>1, <3>2, <3>3 DEF Sending
  <2>4. PlayedInOrder'
    BY <2>1 DEF Contents, PlayedInOrder
  <2> QED BY <2>1, <2>3, <2>4 DEF Contents
<1>5. ASSUME NEW len \in 1..Slice, writeData(len) PROVE Contents'
  <2>1. UNCHANGED <<tpc, gaveUp, played>> /\ mpc = "fill" /\ mpc' = "idle"
    BY <1>5 DEF writeData
  <2>2. InLoop' = InLoop
    BY <2>1 DEF InLoop
  <2>3. ASSUME NEW t \in InLoop', ~gaveUp' PROVE Sending(t)'
    <3>1. t \in InLoop /\ Sending(t)
      BY <2>1, <2>2, <2>3 DEF Contents
    <3> QED BY <1>5, <2>1, <3>1, StoreKept
  <2>4. PlayedInOrder'
    BY <2>1 DEF Contents, PlayedInOrder
  <2> QED BY <2>1, <2>3, <2>4 DEF Contents
<1>6. CASE StopTest \/ StopAsk \/ StopPoll
  <2>1. UNCHANGED <<rdIndex, wrIndex, audioBuffer, written, played, data, tpc>>
    BY <1>6 DEF StopTest, StopAsk, StopPoll, buffer, history
  <2>2. mpc' \in {"stopAsk", "localStop", "stopPoll"} /\ (gaveUp => gaveUp')
    <3>1. CASE StopTest
      BY <3>1 DEF StopTest
    <3>2. CASE StopAsk
      BY <3>2 DEF StopAsk
    <3>3. CASE StopPoll
      BY <3>3 DEF StopPoll
    <3> QED BY <1>6, <3>1, <3>2, <3>3
  <2>3. InLoop' = InLoop
    BY <2>1 DEF InLoop
  <2>4. ASSUME NEW t \in InLoop', ~gaveUp' PROVE Sending(t)'
    <3>1. t \in InLoop /\ Sending(t)
      BY <2>2, <2>3, <2>4 DEF Contents
    <3> QED BY <2>1, <2>2, <3>1, SendingStays
  <2>5. PlayedInOrder'
    BY <2>1, <2>2 DEF Contents, PlayedInOrder
  <2> QED BY <2>2, <2>4, <2>5 DEF Contents
<1>7. CASE localStop \/ StopClean \/ StopDone
  <2>1. UNCHANGED <<written, played, tpc, gaveUp>>
    BY <1>7 DEF localStop, StopClean, StopDone, buffer, history
  <2>2. mpc' \in {"clean", "stopped", "idle"}
    BY <1>7 DEF localStop, StopClean, StopDone
  <2>3. ~gaveUp => InLoop = {}
    BY <1>7 DEF localStop, StopClean, StopDone, Control
  <2>4. InLoop' = InLoop
    BY <2>1 DEF InLoop
  <2>5. PlayedInOrder'
    BY <2>1 DEF Contents, PlayedInOrder
  <2> QED BY <2>1, <2>2, <2>3, <2>4, <2>5 DEF Contents
<1>8. ASSUME NEW t \in Threads, ThreadStep(t) PROVE Contents'
  <2>1. UNCHANGED <<mpc, gaveUp>>
    BY <1>8 DEF ThreadStep, LoopStep, Server, LoopTest, LoopEnd, SendNoDevice,
                SendLook, WriteSilence, WriteBlock, Advance, buffer, history
  <2>2. CASE gaveUp
    <3>1. PlayedInOrder'
      BY <2>1, <2>2 DEF PlayedInOrder
    <3> QED BY <2>1, <2>2, <3>1 DEF Contents
  <2>3. CASE ~gaveUp
    <3>1. t \in InLoop /\ InLoop' \subseteq {t}
      BY <1>8, <2>1, <2>3, ThreadAlone
    <3>2. Sending(t) /\ PlayedInOrder /\ mpc' \notin {"open", "spawn"}
      BY <2>1, <2>3, <3>1 DEF Contents, Control
    <3>3. CASE t \in InLoop'
      BY <1>8, <2>3, <3>1, <3>2, <3>3, SendStep DEF Contents
    <3>4. CASE t \notin InLoop'
      <4>1. InLoop' = {}
        BY <3>1, <3>4
      <4>2. LoopEnd(t)
        BY <1>8, <3>1, <3>4 DEF ThreadStep, LoopStep, Server, LoopTest, SendNoDevice,
            SendLook, WriteSilence, WriteBlock, Advance, InLoop, TypeOK
      <4>3. UNCHANGED <<played, gaveUp>>
        BY <4>2 DEF LoopEnd, history
      <4> QED BY <3>2, <4>1, <4>3 DEF Contents, PlayedInOrder
    <3> QED BY <3>3, <3>4
  <2> QED BY <2>2, <2>3
<1>9. CASE UNCHANGED vars
  <2>1. UNCHANGED <<rdIndex, wrIndex, audioBuffer, written, played, data, tpc, mpc, gaveUp>>
    BY <1>9 DEF vars, buffer, history
  <2>2. InLoop' = InLoop
    BY <2>1 DEF InLoop
  <2>3. ASSUME NEW t \in InLoop', ~gaveUp' PROVE Sending(t)'
    BY <2>1, <2>2, <2>3, SendingStays DEF Contents
  <2>4. PlayedInOrder'
    BY <2>1 DEF Contents, PlayedInOrder
  <2> QED BY <2>1, <2>3, <2>4 DEF Contents
<1> QED BY <1>1, <1>2, <1>3, <1>4, <1>5, <1>6, <1>7, <1>8, <1>9
        DEF Next, PlayerStep, StopStep, FreeDevice

-----------------------------------------------------------------------------
\* The theorems.
THEOREM Invariance == Spec => []IInv
<1>1. IInv /\ [Next]_vars => IInv'
  BY TypesKept, ControlKept, ContentsKept DEF IInv
<1> QED BY InitIInv, <1>1, PTL DEF Spec

\* Every variable keeps to its range, over any run of init, stop and threads.
THEOREM TypeCorrect == Spec => []TypeOK
<1>1. IInv => TypeOK
  BY DEF IInv
<1> QED BY Invariance, <1>1, PTL

\* Only one thread feeds the device, over any number of init and stop.
THEOREM OneThread == Spec => []OneLoop
<1>1. IInv => OneLoop
  <2> SUFFICES ASSUME IInv, ~gaveUp PROVE Cardinality(InLoop) <= 1
    BY DEF OneLoop
  <2>1. InLoop \subseteq {inits}
    BY DEF IInv, Control
  <2>2. CASE InLoop = {}
    BY <2>2, FS_EmptySet
  <2>3. CASE InLoop = {inits}
    BY <2>3, FS_Singleton
  <2> QED BY <2>1, <2>2, <2>3
<1> QED BY Invariance, <1>1, PTL

\* The server gets every block once, in order and intact, although writeData
\* moves the buffer while the device still reads the old place.
THEOREM SoundIntact == Spec => []PlayedInOrder
<1>1. IInv => PlayedInOrder
  BY DEF IInv, Contents
<1> QED BY Invariance, <1>1, PTL
=============================================================================
