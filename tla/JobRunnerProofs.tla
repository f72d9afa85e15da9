-------------------------- MODULE JobRunnerProofs --------------------------
(***************************************************************************)
(* Two children of the job window never save at the same time, however     *)
(* many jobs there are, however late a child connects and whatever the     *)
(* user does to the list.  The argument: a child saves only once the       *)
(* window has greeted it, the window greets one child and then stays with  *)
(* it, and it leaves it only when that child has no more work to do.  The  *)
(* last part needs to know what may be waiting in the connection.          *)
(*                                                                         *)
(* The second part is about the list.  As long as no row is deleted during *)
(* a run the reference to the job in hand stays with its row: the table    *)
(* keeps its ids, and the vector is always these ids in ascending order.   *)
(* As long as no child is given up before it connected, the only           *)
(* connection that waits is that of the child in hand.                     *)
(***************************************************************************)
EXTENDS JobRunner, SequenceTheorems, FiniteSetTheorems, WellFoundedInduction, TLAPS

\* The types the argument uses, and where the window has a connection.
Typing ==
    /\ started \in Nat
    /\ wpc \in {"idle", "scan", "open", "spawned", "hello", "loop", "done"}
    /\ conn \in Nat
    /\ (wpc = "hello" => conn \in Children)
    /\ backlog \in Seq(Children)
    /\ hailed \subseteq Children
    /\ cpc \in [Children -> Live \union {"none", "sent", "gone"}]
    /\ out \in [Children -> Seq(BOOLEAN)]

\* Only a child that was started does anything.
Numbers ==
    /\ \A c \in Children : cpc[c] # "none" => c <= started
    /\ \A c \in hailed : c <= started
    /\ \A i \in 1 .. Len(backlog) : backlog[i] <= started

\* A child that is greeted and has not finished is the one the window is
\* connected to; a child that saves was greeted.
Greeting ==
    /\ \A c \in Children :
          c \in hailed /\ cpc[c] \in Live => conn = c /\ wpc \in {"hello", "loop"}
    /\ \A c \in Children : cpc[c] = "working" => c \in hailed

\* Until a child has finished its only message is its greeting, which the
\* window reads before it enters its loop.
Messages ==
    /\ \A c \in Children :
          cpc[c] \in {"none", "starting", "connected"} => out[c] = <<>>
    /\ \A c \in Children :
          /\ cpc[c] \in {"greeted", "working"}
          /\ ~(conn = c /\ wpc = "loop")
          => Len(out[c]) = 1
    /\ \A c \in Children :
          conn = c /\ wpc = "loop" /\ cpc[c] \in Live
          => cpc[c] \in {"greeted", "working"} /\ out[c] = <<>>

IInv == Typing /\ Numbers /\ Greeting /\ Messages

\* The invariant speaks of these variables only.
inner == <<started, wpc, conn, backlog, hailed, cpc, out>>

-----------------------------------------------------------------------------
\* The first state.
LEMMA InitIInv == Init => IInv
  BY JobsAssumption DEF Init, IInv, Typing, Numbers, Greeting, Messages, Children, Live

\* Steps that leave the window and the children where they are.
LEMMA SameIInv == IInv /\ UNCHANGED inner => IInv'
  BY DEF IInv, inner, Typing, Numbers, Greeting, Messages

\* Steps of the window outside of a connection.
LEMMA AwayIInv ==
    ASSUME IInv,
           wpc \in {"idle", "scan", "open", "spawned", "done"},
           wpc' \in {"idle", "scan", "open", "spawned", "done"},
           conn' \in Nat,
           UNCHANGED <<started, backlog, hailed, cpc, out>>
    PROVE  IInv'
  BY DEF IInv, Typing, Numbers, Greeting, Messages

\* A child is started.
LEMMA StartIInv == IInv /\ StartJob => IInv'
  <1> SUFFICES ASSUME IInv, StartJob PROVE IInv'
    OBVIOUS
  <1> USE DEF IInv
  <1>1. /\ wpc = "open" /\ wpc' = "spawned"
        /\ started' = started + 1
        /\ cpc' = [cpc EXCEPT ![started + 1] = "starting"]
        /\ UNCHANGED <<conn, backlog, hailed, out>>
    BY DEF StartJob
  <1>2. \A c \in Children : c # started + 1 => cpc'[c] = cpc[c]
    BY <1>1 DEF Typing
  <1>3. \A c \in Children : c = started + 1 => cpc[c] = "none" /\ c \notin hailed
    BY DEF Numbers, Typing
  <1>4. \A c \in Children : c = started + 1 => cpc'[c] = "starting"
    BY <1>1 DEF Typing
  <1>5. Typing'
    <2>1. cpc' \in [Children -> Live \union {"none", "sent", "gone"}]
      BY <1>1 DEF Typing, Live
    <2>2. /\ started' \in Nat
          /\ wpc' \in {"idle", "scan", "open", "spawned", "hello", "loop", "done"}
      BY <1>1 DEF Typing
    <2> QED BY <1>1, <2>1, <2>2 DEF Typing
  <1>6. Numbers'
    <2>1. \A c \in Children : cpc'[c] # "none" => c <= started'
      BY <1>1, <1>2 DEF Numbers, Typing, Children
    <2>2. \A c \in hailed' : c <= started'
      BY <1>1 DEF Numbers, Typing, Children
    <2>3. \A i \in 1 .. Len(backlog') : backlog'[i] <= started'
      <3>1. \A i \in 1 .. Len(backlog) : backlog[i] \in Children
        BY DEF Typing
      <3> QED BY <1>1, <3>1 DEF Numbers, Typing, Children
    <2> QED BY <2>1, <2>2, <2>3 DEF Numbers
  <1>7. Greeting'
    BY <1>1, <1>2, <1>3, <1>4 DEF Greeting
  <1>8. Messages'
    BY <1>1, <1>2, <1>3, <1>4 DEF Messages
  <1> QED BY <1>5, <1>6, <1>7, <1>8

\* The window takes a connection.
LEMMA AcceptIInv == IInv /\ Accept => IInv'
  <1> SUFFICES ASSUME IInv, Accept PROVE IInv'
    OBVIOUS
  <1> USE DEF IInv
  <1>1. /\ wpc = "spawned" /\ wpc' = "hello"
        /\ backlog # <<>>
        /\ conn' = Head(backlog)
        /\ backlog' = Tail(backlog)
        /\ hailed' = hailed \union {conn'}
        /\ UNCHANGED <<started, cpc, out>>
    BY DEF Accept, children
  <1>2. /\ Len(backlog) \in Nat \ {0}
        /\ backlog[1] \in Children
        /\ conn' = backlog[1]
    BY <1>1 DEF Typing
  <1>3. /\ backlog' \in Seq(Children)
        /\ Len(backlog') = Len(backlog) - 1
        /\ \A i \in 1 .. Len(backlog') : backlog'[i] = backlog[i + 1]
    BY <1>1 DEF Typing
  <1>4. Typing'
    <2>1. backlog' \in Seq(Children)
      BY <1>3
    <2>2. conn' \in Nat /\ conn' \in Children
      BY <1>2 DEF Children
    <2> QED BY <1>1, <2>1, <2>2 DEF Typing
  <1>5. Numbers'
    BY <1>1, <1>2, <1>3 DEF Numbers, Typing
  <1>6. Greeting'
    BY <1>1 DEF Greeting
  <1>7. Messages'
    BY <1>1 DEF Messages
  <1> QED BY <1>4, <1>5, <1>6, <1>7

-----------------------------------------------------------------------------
(* Steps of the window on a connection                                     *)

\* The window leaves a connection whose child has no more work.
LEMMA LeaveIInv ==
    ASSUME IInv,
           wpc \in {"hello", "loop"},
           wpc' \in {"loop", "done"},
           conn' \in {0, conn},
           wpc' = "loop" => conn' = 0,
           \A c \in Children : conn = c => cpc[c] \notin Live,
           UNCHANGED <<started, backlog, hailed, cpc>>,
           out' \in [Children -> Seq(BOOLEAN)],
           \A c \in Children : cpc[c] \in Live \union {"none"} => out'[c] = out[c]
    PROVE  IInv'
  <1> USE DEF IInv
  <1>1. Typing' /\ Numbers'
    BY DEF Typing, Numbers
  <1>2. Greeting'
    BY DEF Greeting
  <1>3. Messages'
    BY DEF Messages, Live, Children
  <1> QED BY <1>1, <1>2, <1>3

\* The window reads the greeting, or finds the child gone.
LEMMA HandshakeIInv == IInv /\ Handshake => IInv'
  <1> SUFFICES ASSUME IInv, Handshake PROVE IInv'
    OBVIOUS
  <1> USE DEF IInv
  <1>0. /\ wpc = "hello" /\ conn \in Children
        /\ UNCHANGED <<started, conn, backlog, hailed, cpc>>
    BY DEF Handshake, children, Typing
  <1>1. CASE out[conn] # <<>> /\ out' = [out EXCEPT ![conn] = Tail(@)] /\ wpc' = "loop"
    <2>1. /\ out[conn] \in Seq(BOOLEAN) /\ out[conn] # <<>>
          /\ out'[conn] = Tail(out[conn])
          /\ \A c \in Children : c # conn => out'[c] = out[c]
      BY <1>0, <1>1 DEF Typing
    <2>2. /\ Tail(out[conn]) \in Seq(BOOLEAN)
          /\ Len(Tail(out[conn])) = Len(out[conn]) - 1
      BY <2>1, HeadTailProperties
    <2>3. cpc[conn] \in Live => cpc[conn] \in {"greeted", "working"} /\ Len(out[conn]) = 1
      BY <1>0, <2>1 DEF Messages, Live
    <2>4. cpc[conn] \in Live => out'[conn] = <<>>
      <3>1. SUFFICES ASSUME cpc[conn] \in Live PROVE out'[conn] = <<>>
        OBVIOUS
      <3>2. out'[conn] \in Seq(BOOLEAN) /\ Len(out'[conn]) = 0
        BY <2>1, <2>2, <2>3, <3>1
      <3> QED BY <3>2, EmptySeq
    <2>5. cpc[conn] \notin {"none", "starting", "connected"}
      BY <1>0, <2>1 DEF Messages
    <2>6. Typing'
      BY <1>0, <1>1, <2>2 DEF Typing
    <2>7. Numbers' /\ Greeting'
      BY <1>0, <1>1 DEF Numbers, Greeting
    <2>8. Messages'
      BY <1>0, <1>1, <2>1, <2>3, <2>4, <2>5 DEF Messages, Live
    <2> QED BY <2>6, <2>7, <2>8
  <1>2. CASE Closed /\ wpc' = "done" /\ UNCHANGED out
    BY <1>0, <1>2, LeaveIInv DEF Closed, Live, Typing
  <1> QED BY <1>1, <1>2 DEF Handshake

\* The window reads the result.
LEMMA ReadEndIInv == IInv /\ ReadEnd => IInv'
  <1> SUFFICES ASSUME IInv, ReadEnd PROVE IInv'
    OBVIOUS
  <1>1. /\ wpc = "loop" /\ wpc' = "done" /\ out[conn] # <<>>
        /\ out' = [out EXCEPT ![conn] = Tail(@)]
        /\ UNCHANGED <<started, conn, backlog, hailed, cpc>>
    BY DEF ReadEnd, children
  <1>2. \A c \in Children : conn = c => cpc[c] \notin Live \union {"none"}
    BY <1>1 DEF IInv, Messages
  <1>3. \A c \in Children : c # conn => out'[c] = out[c]
    BY <1>1 DEF IInv, Typing
  <1>4. out' \in [Children -> Seq(BOOLEAN)]
    <2>1. CASE conn \in Children
      <3>1. out[conn] \in Seq(BOOLEAN)
        BY <2>1 DEF IInv, Typing
      <3>2. Tail(out[conn]) \in Seq(BOOLEAN)
        BY <3>1, <1>1, HeadTailProperties
      <3> QED BY <1>1, <3>2 DEF IInv, Typing
    <2>2. CASE conn \notin Children
      BY <1>1, <2>2 DEF IInv, Typing
    <2> QED BY <2>1, <2>2
  <1> QED BY <1>1, <1>2, <1>3, <1>4, LeaveIInv

\* The window finds the connection closed, or closed before.
LEMMA CloseIInv == IInv /\ (ReadClosed \/ LoopEnd) => IInv'
  <1> SUFFICES ASSUME IInv, ReadClosed \/ LoopEnd PROVE IInv'
    OBVIOUS
  <1>1. CASE ReadClosed
    BY <1>1, LeaveIInv DEF ReadClosed, Closed, children, Live, IInv, Typing
  <1>2. CASE LoopEnd
    BY <1>2, LeaveIInv DEF LoopEnd, children, IInv, Typing, Children
  <1> QED BY <1>1, <1>2

-----------------------------------------------------------------------------
(* Steps of the children                                                   *)

\* A child ends, with or without a last message.
LEMMA EndIInv ==
    ASSUME NEW c \in Children, NEW from, NEW to, IInv, ChildStep(c, from, to),
           to \in {"sent", "gone"}, from \in Live,
           UNCHANGED <<backlog, hailed>>,
           out' \in [Children -> Seq(BOOLEAN)],
           \A d \in Children : d # c => out'[d] = out[d]
    PROVE  IInv'
  <1> USE DEF IInv
  <1>1. /\ UNCHANGED <<started, wpc, conn>>
        /\ cpc[c] = from /\ cpc' = [cpc EXCEPT ![c] = to]
    BY DEF ChildStep, window
  <1>2. /\ cpc'[c] \in {"sent", "gone"}
        /\ \A d \in Children : d # c => cpc'[d] = cpc[d]
    BY <1>1 DEF Typing
  <1>3. cpc[c] # "none" /\ cpc'[c] \notin Live \union {"none"}
    BY <1>1, <1>2 DEF Live
  <1>4. Typing'
    BY <1>1 DEF Typing
  <1>5. Numbers'
    BY <1>1, <1>2, <1>3 DEF Numbers
  <1>6. Greeting'
    BY <1>1, <1>2, <1>3 DEF Greeting, Live
  <1>7. Messages'
    BY <1>1, <1>2, <1>3 DEF Messages, Live
  <1> QED BY <1>4, <1>5, <1>6, <1>7

\* Every step of a child.
LEMMA ChildIInv ==
    ASSUME NEW c \in Children, IInv, ChildAction(c)
    PROVE  IInv'
  <1> USE DEF IInv
  <1>0. ASSUME NEW from, NEW to, ChildStep(c, from, to)
        PROVE  /\ UNCHANGED <<started, wpc, conn>>
               /\ cpc[c] = from
               /\ cpc' = [cpc EXCEPT ![c] = to]
               /\ cpc'[c] = to
               /\ \A d \in Children : d # c => cpc'[d] = cpc[d]
    BY <1>0 DEF ChildStep, window, Typing
  <1>1. CASE Connect(c)
    <2>1. /\ UNCHANGED <<started, wpc, conn, hailed, out>>
          /\ cpc[c] = "starting" /\ cpc'[c] = "connected"
          /\ cpc' = [cpc EXCEPT ![c] = "connected"]
          /\ \A d \in Children : d # c => cpc'[d] = cpc[d]
          /\ backlog' = Append(backlog, c)
      BY <1>0, <1>1 DEF Connect
    <2>2. /\ backlog' \in Seq(Children)
          /\ Len(backlog') = Len(backlog) + 1
          /\ \A i \in 1 .. Len(backlog') :
                backlog'[i] = IF i <= Len(backlog) THEN backlog[i] ELSE c
      BY <2>1 DEF Typing
    <2>3. c <= started
      BY <2>1 DEF Numbers
    <2>4. Typing'
      BY <2>1, <2>2 DEF Typing, Live
    <2>5. Numbers'
      <3>1. Len(backlog) \in Nat
        BY DEF Typing
      <3> QED BY <2>1, <2>2, <2>3, <3>1 DEF Numbers
    <2>6. Greeting'
      BY <2>1 DEF Greeting, Live
    <2>7. Messages'
      BY <2>1 DEF Messages, Live
    <2> QED BY <2>4, <2>5, <2>6, <2>7
  <1>2. CASE Greet(c)
    <2>1. /\ UNCHANGED <<started, wpc, conn, hailed, backlog>>
          /\ cpc[c] = "connected" /\ cpc'[c] = "greeted"
          /\ cpc' = [cpc EXCEPT ![c] = "greeted"]
          /\ \A d \in Children : d # c => cpc'[d] = cpc[d]
          /\ out' = [out EXCEPT ![c] = Append(@, TRUE)]
      BY <1>0, <1>2 DEF Greet
    <2>2. out[c] = <<>>
      BY <2>1 DEF Messages
    <2>3. /\ Len(out'[c]) = 1
          /\ \A d \in Children : d # c => out'[d] = out[d]
      <3>1. out[c] \in Seq(BOOLEAN) /\ Len(out[c]) = 0
        BY <2>2
      <3>2. Len(Append(out[c], TRUE)) = 1
        BY <3>1, AppendProperties
      <3> QED BY <2>1, <3>2 DEF Typing
    <2>4. ~(conn = c /\ wpc = "loop")
      BY <2>1 DEF Messages, Live
    <2>5. Typing'
      <3>1. out' \in [Children -> Seq(BOOLEAN)]
        <4>1. Append(out[c], TRUE) \in Seq(BOOLEAN)
          BY AppendProperties DEF Typing
        <4> QED BY <2>1, <4>1 DEF Typing
      <3> QED BY <2>1, <3>1 DEF Typing, Live
    <2>6. Numbers'
      BY <2>1 DEF Numbers
    <2>7. Greeting'
      BY <2>1 DEF Greeting, Live
    <2>8. Messages'
      BY <2>1, <2>3, <2>4 DEF Messages, Live
    <2> QED BY <2>5, <2>6, <2>7, <2>8
  <1>3. CASE Work(c)
    <2>1. /\ UNCHANGED <<started, wpc, conn, hailed, backlog, out>>
          /\ cpc[c] = "greeted" /\ cpc'[c] = "working"
          /\ cpc' = [cpc EXCEPT ![c] = "working"]
          /\ \A d \in Children : d # c => cpc'[d] = cpc[d]
          /\ c \in hailed
      BY <1>0, <1>3 DEF Work
    <2>2. Typing'
      BY <2>1 DEF Typing, Live
    <2>3. Numbers'
      BY <2>1 DEF Numbers
    <2>4. Greeting'
      BY <2>1 DEF Greeting, Live
    <2>5. Messages'
      BY <2>1 DEF Messages, Live
    <2> QED BY <2>2, <2>3, <2>4, <2>5
  <1>4. CASE SendResult(c)
    <2>1. PICK result \in BOOLEAN : out' = [out EXCEPT ![c] = Append(@, result)]
      BY <1>4 DEF SendResult
    <2>2. /\ out' \in [Children -> Seq(BOOLEAN)]
          /\ \A d \in Children : d # c => out'[d] = out[d]
      <3>1. Append(out[c], result) \in Seq(BOOLEAN)
        BY AppendProperties DEF Typing
      <3> QED BY <2>1, <3>1 DEF Typing
    <2>3. ChildStep(c, "working", "sent") /\ UNCHANGED <<backlog, hailed>>
      BY <1>4 DEF SendResult
    <2> QED BY <2>2, <2>3, EndIInv DEF Live
  <1>5. CASE Leave(c)
    <2>1. PICK from \in Live : ChildStep(c, from, "gone")
      BY <1>5 DEF Leave
    <2>2. UNCHANGED <<backlog, hailed, out>>
      BY <1>5 DEF Leave
    <2> QED BY <2>1, <2>2, EndIInv DEF Typing
  <1> QED BY <1>1, <1>2, <1>3, <1>4, <1>5 DEF ChildAction

-----------------------------------------------------------------------------
\* Every step.
LEMMA NextIInv == IInv /\ [Next]_vars => IInv'
  <1> SUFFICES ASSUME IInv, [Next]_vars PROVE IInv'
    OBVIOUS
  <1>1. CASE UserStep
    <2>1. CASE RunAllJob
      BY <2>1, AwayIInv DEF RunAllJob, children, IInv, Typing
    <2>2. ASSUME NEW k \in Indexes, RunNow(k) PROVE IInv'
      BY <2>2, AwayIInv DEF RunNow, children, IInv, Typing
    <2>3. CASE Click
      BY <2>3, SameIInv DEF Click, window, children, inner
    <2>4. Click \/ RunAllJob \/ \E k \in Indexes : RunNow(k)
      BY <1>1 DEF UserStep, Del, ForceStatus, Cleanup
    <2> QED BY <2>1, <2>2, <2>3, <2>4
  <1>2. CASE WindowStep
    <2>1. CASE ScanEnd \/ ScanSkip \/ ScanOpen
      BY <2>1, AwayIInv DEF ScanEnd, ScanSkip, ScanOpen, children, IInv, Typing
    <2>2. CASE NoConnect
      BY <2>2, AwayIInv DEF NoConnect, children, IInv, Typing
    <2>3. CASE FinishJob
      BY <2>3, AwayIInv DEF FinishJob, children
    <2> QED
      BY <1>2, <2>1, <2>2, <2>3, StartIInv, AcceptIInv, HandshakeIInv,
         ReadEndIInv, CloseIInv DEF WindowStep
  <1>3. CASE \E c \in Children : ChildAction(c)
    BY <1>3, ChildIInv
  <1>4. CASE Rest \/ UNCHANGED vars
    BY <1>4, SameIInv DEF Rest, vars, window, children, inner
  <1> QED BY <1>1, <1>2, <1>3, <1>4 DEF Next

\* The inductive invariant.
THEOREM Invariance == Spec => []IInv
  BY InitIInv, NextIInv, PTL DEF Spec

\* At most one child saves at any time: the greeting admits one.
THEOREM OneAtATime == Spec => []OneSaver
  <1>1. IInv => OneSaver
    BY DEF IInv, Greeting, OneSaver, Live
  <1> QED BY <1>1, Invariance, PTL

-----------------------------------------------------------------------------
(* The list and the job in hand                                            *)

\* The window has a job in hand, and has started a child for it.
InHand == wpc \in {"spawned", "hello", "loop", "done"}

\* The table, and the vector that shows it.  The vector is never longer than
\* it was at first: a row is only inserted for a reference behind its end.
ListInv ==
    /\ nextId \in Nat \ {0}
    /\ DOMAIN db \subseteq 1 .. nextId - 1
    /\ db \in [DOMAIN db -> Status]
    /\ mem \in [Indexes -> [id : 1 .. nextId - 1, status : Status]]
    /\ size = Cardinality(DOMAIN db) /\ size \in 0 .. NbJobs
    /\ \A k \in 1 .. size : /\ mem[k].id = InOrder(DOMAIN db)[k]
                            /\ mem[k].status = db[mem[k].id]

\* Where the window is in its list; a run of all jobs has children enough.
PlaceInv ==
    /\ ref \in Indexes /\ scan \in 0 .. NbJobs + 1 /\ last \in 0 .. NbJobs
    /\ started \in 0 .. MaxStarts /\ clicks \in 0 .. MaxClicks
    /\ wpc = "open" => started < MaxStarts
    /\ wpc = "scan" => scan # 0 /\ scan <= last + 1 /\ started + (last - scan + 1) <= MaxStarts
    /\ wpc = "open" /\ scan # 0 =>
           scan <= last /\ started + (last - scan + 1) <= MaxStarts
    /\ InHand => started # 0
    /\ InHand /\ scan # 0 => scan <= last /\ started + (last - scan) <= MaxStarts

\* The job in hand is a row of the list, the only one that may say Running.
RunningInv ==
    ~deleted =>
        /\ wpc = "scan" => last <= size
        /\ wpc \in {"open", "spawned", "hello", "loop", "done"} =>
               ref <= size /\ (scan # 0 => last <= size)
        /\ \A id \in DOMAIN db :
               db[id] = "running" => InHand /\ id = mem[ref].id
        /\ DOMAIN db \subseteq 1 .. NbJobs

\* Whose connection waits, and whom the window listens to.
QueueInv ==
    /\ ~InHand \/ wpc = "spawned" => conn = 0
    /\ r \in BOOLEAN /\ heard \in 0 .. MaxStarts /\ conn \in 0 .. MaxStarts
    /\ late \in BOOLEAN /\ deleted \in BOOLEAN
    /\ ~late =>
        /\ backlog = <<>> \/ (wpc = "spawned" /\ backlog = <<started>>)
        /\ \A c \in Children : cpc[c] = "starting" =>
               c = started /\ wpc = "spawned" /\ backlog = <<>>
        /\ InHand => conn \in {0, started} /\ heard \in {0, started}

\* The results that were filed, and the script of the child in hand.
FiledInv ==
    /\ script \in [Children -> 0 .. nextId - 1]
    /\ InHand /\ ~deleted => script[started] = mem[ref].id
    /\ \A v \in verdicts : v.own \in 1 .. started
    /\ ~deleted => \A v \in verdicts : v.row = script[v.own]
    /\ ~late => \A v \in verdicts : v.heard \in {0, v.own}

WindowInv == ListInv /\ PlaceInv /\ RunningInv /\ QueueInv /\ FiledInv

JobInv == IInv /\ WindowInv

-----------------------------------------------------------------------------
(* Sorting                                                                 *)

\* An ascending enumeration of a set of ids.
Ascending(s, S) ==
    /\ s \in SetToSeqs(S)
    /\ \A i, j \in DOMAIN s : i < j => s[i] < s[j]

\* A set of naturals that is not empty and has a bound has a greatest member.
LEMMA GreatestId ==
    ASSUME NEW n \in Nat, NEW S \in SUBSET (0..n), S # {}
    PROVE  \E i \in S : \A j \in S : j <= i
<1> DEFINE T == {n - i : i \in S}
<1>1. IsWellFoundedOn(OpToRel(<, Nat), Nat)
  BY NatLessThanWellFounded
<1>2. T \subseteq Nat /\ T # {}
  <2>1. \A i \in S : n - i \in Nat
    <3>1. \A i \in S : i \in 0..n
      OBVIOUS
    <3> QED BY <3>1
  <2> QED BY <2>1
<1>3. PICK k \in T : \A y \in T : ~(<<y, k>> \in OpToRel(<, Nat))
  BY <1>1, <1>2, WFMin
<1>4. PICK i \in S : k = n - i
  OBVIOUS
<1>5. ASSUME NEW j \in S PROVE j <= i
  <2>1. n - j \in T /\ n - j \in Nat /\ k \in Nat
    BY <1>2
  <2>2. ~(n - j < k)
    BY <2>1, <1>3 DEF OpToRel
  <2>3. i \in 0..n /\ j \in 0..n
    OBVIOUS
  <2> QED BY <2>2, <2>3, <1>4
<1> QED BY <1>5

\* An ascending enumeration goes on with an id above all of it.
LEMMA AscendingExtends ==
    ASSUME NEW n \in Nat, NEW S \in SUBSET (0..n), NEW m \in S,
           \A j \in S : j <= m,
           NEW s, Ascending(s, S \ {m})
    PROVE  \E t : Ascending(t, S)
<1> DEFINE c == Cardinality(S)
<1> DEFINE t == [i \in 1..c |-> IF i < c THEN s[i] ELSE m]
<1>1. IsFiniteSet(S) /\ c \in Nat /\ S \subseteq Nat
  <2>1. IsFiniteSet(0..n)
    BY FS_Interval
  <2>2. IsFiniteSet(S)
    BY <2>1, FS_Subset
  <2> QED BY <2>2, FS_CardinalityType
<1>2. Cardinality(S \ {m}) = c - 1 /\ c - 1 \in Nat
  <2>1. IsFiniteSet(S \ {m}) /\ Cardinality(S \ {m}) = c - 1
    BY <1>1, FS_RemoveElement
  <2> QED BY <2>1, FS_CardinalityType
<1> HIDE DEF c
<1>3. s \in [1..c-1 -> S \ {m}] /\ \A i, j \in 1..c-1 : i < j => s[i] < s[j]
  BY <1>2 DEF Ascending, SetToSeqs
<1>4. ASSUME NEW i \in 1..c-1 PROVE s[i] \in S /\ s[i] < m
  <2>1. s[i] \in S /\ s[i] # m /\ s[i] \in Nat /\ m \in Nat
    BY <1>1, <1>3
  <2>2. s[i] <= m
    BY <2>1
  <2> QED BY <2>1, <2>2
<1>5. \A i, j \in 1..c : i < j => t[i] < t[j]
  <2> TAKE i, j \in 1..c
  <2> HAVE i < j
  <2>1. t[i] = s[i] /\ i \in 1..c-1
    BY <1>1, <1>2
  <2>2. CASE j < c
    BY <2>1, <2>2, <1>1, <1>3
  <2>3. CASE j = c
    BY <2>1, <2>3, <1>1, <1>4
  <2> QED BY <2>2, <2>3, <1>1
<1>6. t \in [1..c -> S]
  BY <1>1, <1>4
<1>7. ASSUME NEW i \in 1..c PROVE t[i] \in Int
  <2> HIDE DEF t
  <2>1. t[i] \in S /\ S \subseteq Nat
    BY <1>1, <1>6
  <2>2. t[i] \in Nat
    BY <2>1
  <2> QED BY <2>2
<1>8. \A i, j \in 1..c : i # j => t[i] # t[j]
  BY <1>5, <1>7, <1>1
<1>9. Ascending(t, S)
  <2> HIDE DEF t
  <2> QED BY <1>5, <1>6, <1>8 DEF Ascending, SetToSeqs, c
<1> QED BY <1>9

\* Every set of ids with a bound has an ascending enumeration.
LEMMA AscendingExists ==
    ASSUME NEW n \in Nat, NEW S \in SUBSET (0..n)
    PROVE  \E s : Ascending(s, S)
<1> DEFINE Bad(k) == \E T \in SUBSET (0..n) : Cardinality(T) = k /\ ~\E s : Ascending(s, T)
<1> DEFINE K == {k \in Nat : Bad(k)}
<1>1. ASSUME NEW T \in SUBSET (0..n)
      PROVE  IsFiniteSet(T) /\ Cardinality(T) \in Nat
  <2>1. IsFiniteSet(0..n)
    BY FS_Interval
  <2>2. IsFiniteSet(T)
    BY <2>1, FS_Subset
  <2> QED BY <2>2, FS_CardinalityType
<1>2. K = {}
  <2>1. SUFFICES ASSUME K # {} PROVE FALSE
    OBVIOUS
  <2>2. IsWellFoundedOn(OpToRel(<, Nat), Nat)
    BY NatLessThanWellFounded
  <2>3. PICK k \in K : \A y \in K : ~(<<y, k>> \in OpToRel(<, Nat))
    BY <2>1, <2>2, WFMin
  <2>4. PICK T \in SUBSET (0..n) : Cardinality(T) = k /\ ~\E s : Ascending(s, T)
    OBVIOUS
  <2>5. CASE T = {}
    <3>1. Cardinality(T) = 0
      BY <2>5, FS_EmptySet
    <3>2. Ascending([i \in 1..0 |-> 0], T)
      BY <3>1 DEF Ascending, SetToSeqs
    <3> QED BY <3>2, <2>4
  <2>6. CASE T # {}
    <3>1. PICK m \in T : \A j \in T : j <= m
      BY <2>6, GreatestId
    <3>2. /\ Cardinality(T \ {m}) = k - 1
          /\ T \ {m} \in SUBSET (0..n)
          /\ Cardinality(T \ {m}) \in Nat
      BY <1>1, <2>4, FS_RemoveElement
    <3>3. k - 1 \notin K
      <4>1. k - 1 < k /\ k \in Nat /\ k - 1 \in Nat
        BY <3>2
      <4> QED BY <4>1, <2>3 DEF OpToRel
    <3>4. \E s : Ascending(s, T \ {m})
      BY <3>2, <3>3
    <3> QED BY <3>1, <3>4, <2>4, AscendingExtends
  <2> QED BY <2>5, <2>6
<1>3. Cardinality(S) \in Nat
  BY <1>1
<1> QED BY <1>2, <1>3

\* What InOrder gives: all of the ids, in order.
LEMMA InOrderAscends ==
    ASSUME NEW n \in Nat, NEW S \in SUBSET (1..n)
    PROVE  /\ Cardinality(S) \in Nat /\ IsFiniteSet(S)
           /\ InOrder(S) \in [1..Cardinality(S) -> S]
           /\ \A i, j \in 1..Cardinality(S) : i < j => InOrder(S)[i] < InOrder(S)[j]
           /\ \A id \in S : \E k \in 1..Cardinality(S) : InOrder(S)[k] = id
<1> DEFINE s == InOrder(S)
<1>1. S \in SUBSET (0..n)
  OBVIOUS
<1>2. Ascending(s, S)
  <2>1. PICK t : Ascending(t, S)
    BY <1>1, AscendingExists
  <2> QED BY <2>1 DEF Ascending, InOrder
<1>3. Cardinality(S) \in Nat /\ IsFiniteSet(S)
  <2>1. IsFiniteSet(1..n)
    BY FS_Interval
  <2>2. IsFiniteSet(S)
    BY <2>1, FS_Subset
  <2> QED BY <2>2, FS_CardinalityType
<1>4. /\ s \in [1..Cardinality(S) -> S]
      /\ \A i, j \in 1..Cardinality(S) : i # j => s[i] # s[j]
      /\ \A i, j \in 1..Cardinality(S) : i < j => s[i] < s[j]
  BY <1>2 DEF Ascending, SetToSeqs
<1>5. s \in Injection(1..Cardinality(S), S)
  BY <1>4 DEF Injection, IsInjective
<1>6. s \in Surjection(1..Cardinality(S), S)
  <2>1. Cardinality(1..Cardinality(S)) = Cardinality(S)
    BY <1>3, FS_Interval
  <2> QED BY <2>1, <1>3, <1>5, FS_Injection
<1> QED BY <1>3, <1>4, <1>6 DEF Surjection

\* The ids a new table has are their own places.
LEMMA InOrderFirst ==
    ASSUME NEW n \in Nat, NEW k \in 1..n
    PROVE  InOrder(1..n)[k] = k
<1> DEFINE s == InOrder(1..n)
<1> DEFINE K == {i \in 1..n : s[i] # i}
<1>0. Cardinality(1..n) = n
  BY FS_Interval
<1>1. /\ s \in [1..n -> 1..n]
      /\ \A i, j \in 1..n : i < j => s[i] < s[j]
      /\ \A id \in 1..n : \E i \in 1..n : s[i] = id
  BY <1>0, InOrderAscends, 1..n \in SUBSET (1..n)
<1> HIDE DEF s
<1>2. SUFFICES ASSUME K # {} PROVE FALSE
  BY DEF s
<1>3. PICK i \in K : \A j \in K : ~(<<j, i>> \in OpToRel(<, Nat))
  <2>1. IsWellFoundedOn(OpToRel(<, Nat), Nat)
    BY NatLessThanWellFounded
  <2>2. K \subseteq Nat
    OBVIOUS
  <2> QED BY <2>1, <2>2, <1>2, WFMin
<1>4. ASSUME NEW j \in 1..n, j < i PROVE s[j] = j
  <2>1. j \in Nat /\ i \in Nat
    OBVIOUS
  <2>2. j \notin K
    BY <2>1, <1>3, <1>4 DEF OpToRel
  <2> QED BY <2>2
<1>5. PICK j \in 1..n : s[j] = i
  BY <1>1
<1>6. i \in 1..n /\ s[i] # i /\ s[i] \in 1..n
  BY <1>1
<1>7. s[i] > i
  <2>1. CASE s[i] < i
    BY <2>1, <1>4, <1>6, <1>1
  <2> QED BY <2>1, <1>6
<1>8. CASE j > i
  BY <1>8, <1>7, <1>5, <1>6, <1>1
<1>9. CASE j < i
  BY <1>9, <1>4, <1>5
<1> QED BY <1>5, <1>6, <1>8, <1>9

-----------------------------------------------------------------------------
(* Steps that change the list                                              *)

\* What a table of ids and its list in order have to do with each other.
LEMMA ListedIds ==
    ASSUME ListInv
    PROVE  /\ size \in Nat /\ IsFiniteSet(DOMAIN db)
           /\ \A k \in 1..size : mem[k].id \in DOMAIN db
           /\ \A id \in DOMAIN db : \E k \in 1..size : mem[k].id = id
<1>1. nextId - 1 \in Nat /\ DOMAIN db \in SUBSET (1 .. nextId - 1)
  BY DEF ListInv
<1>2. /\ InOrder(DOMAIN db) \in [1..Cardinality(DOMAIN db) -> DOMAIN db]
      /\ \A id \in DOMAIN db : \E k \in 1..Cardinality(DOMAIN db) : InOrder(DOMAIN db)[k] = id
      /\ IsFiniteSet(DOMAIN db)
  BY <1>1, InOrderAscends
<1> DEFINE s == InOrder(DOMAIN db)
<1>3. /\ size = Cardinality(DOMAIN db) /\ size \in Nat
      /\ \A k \in 1..size : mem[k].id = s[k]
  BY DEF ListInv
<1> HIDE DEF s
<1>4. s \in [1..size -> DOMAIN db] /\ \A id \in DOMAIN db : \E k \in 1..size : s[k] = id
  BY <1>2, <1>3 DEF s
<1>5. \A k \in 1..size : mem[k].id \in DOMAIN db
  BY <1>3, <1>4
<1>6. \A id \in DOMAIN db : \E k \in 1..size : mem[k].id = id
  BY <1>3, <1>4
<1> QED BY <1>2, <1>3, <1>5, <1>6

\* The list is read again from a table of ids that exist.
LEMMA Refreshed ==
    ASSUME NEW bytes, RefreshList(bytes),
           bytes \in [Indexes -> [id : 1 .. nextId' - 1, status : Status]],
           nextId' \in Nat \ {0},
           DOMAIN db' \subseteq 1 .. nextId' - 1,
           db' \in [DOMAIN db' -> Status],
           Cardinality(DOMAIN db') <= NbJobs
    PROVE  ListInv'
<1>1. nextId' - 1 \in Nat /\ DOMAIN db' \in SUBSET (1 .. nextId' - 1)
  OBVIOUS
<1> DEFINE n == Cardinality(DOMAIN db')
           s == InOrder(DOMAIN db')
<1>2. n \in Nat /\ s \in [1..n -> DOMAIN db']
  BY <1>1, InOrderAscends
<1>3. Len(s) = n
  BY <1>2
<1>4. /\ size' = n
      /\ mem' = [k \in Indexes |-> IF k <= n THEN [id |-> s[k], status |-> db'[s[k]]]
                                   ELSE bytes[k]]
  BY <1>3 DEF RefreshList
<1> HIDE DEF n, s
<1>5. NbJobs \in Nat /\ n <= NbJobs /\ Indexes = 1..NbJobs
  BY JobsAssumption DEF n, JobsAssumption, Indexes
<1>6. \A k \in 1..n : s[k] \in 1 .. nextId' - 1 /\ db'[s[k]] \in Status
  BY <1>2
<1>7. mem' \in [Indexes -> [id : 1 .. nextId' - 1, status : Status]]
  <2>1. ASSUME NEW k \in Indexes, k <= n
        PROVE  mem'[k] \in [id : 1 .. nextId' - 1, status : Status]
    BY <1>2, <1>4, <1>5, <1>6, <2>1
  <2>2. ASSUME NEW k \in Indexes, ~(k <= n)
        PROVE  mem'[k] \in [id : 1 .. nextId' - 1, status : Status]
    BY <1>4, <2>2
  <2> QED BY <1>4, <2>1, <2>2
<1>8. \A k \in 1..n : mem'[k].id = s[k] /\ mem'[k].status = db'[mem'[k].id]
  BY <1>2, <1>4, <1>5
<1> QED BY <1>2, <1>4, <1>5, <1>7, <1>8 DEF ListInv, n, s

LEMMA IdsGrow ==
    ASSUME NEW a \in Nat, NEW b \in Nat, a <= b
    PROVE  1 .. a - 1 \subseteq 1 .. b - 1
OBVIOUS

\* A job of the list, or behind its end, is given a status.
LEMMA SetStatusList ==
    ASSUME ListInv, NEW k \in Indexes, NEW status \in Status, SetStatus(k, status)
    PROVE  /\ ListInv' /\ nextId <= nextId'
           /\ k <= size =>
                /\ DOMAIN db' = DOMAIN db /\ size' = size
                /\ mem[k].id \in DOMAIN db /\ db'[mem[k].id] = status
                /\ \A id \in DOMAIN db : id # mem[k].id => db'[id] = db[id]
                /\ \A j \in 1..size : mem'[j].id = mem[j].id
<1> DEFINE job == [mem[k] EXCEPT !.status = status]
           id == IF job.id \in DOMAIN db THEN job.id ELSE nextId
<1>1. job \in [id : 1 .. nextId - 1, status : Status] /\ job.id = mem[k].id /\ job.status = status
  BY DEF ListInv
<1>2. /\ db' = [i \in DOMAIN db \union {id} |-> IF i = id THEN job.status ELSE db[i]]
      /\ nextId' = IF id = nextId THEN nextId + 1 ELSE nextId
      /\ RefreshList([mem EXCEPT ![k] = job])
  BY DEF SetStatus, JobUpdate
<1>3. nextId \in Nat \ {0} /\ DOMAIN db \subseteq 1 .. nextId - 1 /\ nextId \notin DOMAIN db
  BY DEF ListInv
<1> HIDE DEF job
<1>4. nextId' \in Nat \ {0} /\ nextId <= nextId' /\ id \in 1 .. nextId' - 1
  BY <1>2, <1>3
<1>5. DOMAIN db' = DOMAIN db \union {id} /\ DOMAIN db' \subseteq 1 .. nextId' - 1
  BY <1>2, <1>3, <1>4
<1>6. db' \in [DOMAIN db' -> Status]
  BY <1>1, <1>2 DEF ListInv
<1>7. k <= size => mem[k].id \in DOMAIN db
  <2>1. size \in Nat /\ \A j \in 1..size : mem[j].id \in DOMAIN db
    BY ListedIds
  <2> QED BY <2>1, JobsAssumption DEF Indexes, JobsAssumption
<1>8. Cardinality(DOMAIN db') <= NbJobs
  <2>1. IsFiniteSet(DOMAIN db) /\ size = Cardinality(DOMAIN db) /\ size \in 0..NbJobs
    BY ListedIds DEF ListInv
  <2>2. CASE id \in DOMAIN db
    BY <1>5, <2>1, <2>2
  <2>3. CASE id \notin DOMAIN db
    <3>1. ~(k <= size)
      BY <1>1, <1>7, <2>3
    <3>2. Cardinality(DOMAIN db') = size + 1
      BY <1>5, <2>1, <2>3, FS_AddElement
    <3> QED BY <2>1, <3>1, <3>2, JobsAssumption DEF Indexes, JobsAssumption
  <2> QED BY <2>2, <2>3
<1>9. [mem EXCEPT ![k] = job] \in [Indexes -> [id : 1 .. nextId' - 1, status : Status]]
  <2>1. nextId \in Nat /\ nextId' \in Nat /\ nextId <= nextId'
    BY <1>3, <1>4
  <2>2. 1 .. nextId - 1 \subseteq 1 .. nextId' - 1
    BY <2>1, IdsGrow
  <2> QED BY <1>1, <2>2 DEF ListInv
<1>10. ListInv'
  BY <1>2, <1>4, <1>5, <1>6, <1>8, <1>9, Refreshed
<1>11. ASSUME k <= size
       PROVE  /\ DOMAIN db' = DOMAIN db /\ size' = size
              /\ mem[k].id \in DOMAIN db /\ db'[mem[k].id] = status
              /\ \A i \in DOMAIN db : i # mem[k].id => db'[i] = db[i]
              /\ \A j \in 1..size : mem'[j].id = mem[j].id
  <2>1. id = mem[k].id /\ mem[k].id \in DOMAIN db
    BY <1>1, <1>7, <1>11
  <2>2. DOMAIN db' = DOMAIN db
    BY <1>5, <2>1
  <2>3. size' = size /\ \A j \in 1..size : mem'[j].id = mem[j].id
    BY <1>10, <2>2 DEF ListInv
  <2>4. db'[mem[k].id] = status /\ \A i \in DOMAIN db : i # mem[k].id => db'[i] = db[i]
    BY <1>1, <1>2, <2>1, <2>2
  <2> QED BY <2>1, <2>2, <2>3, <2>4
<1> QED BY <1>4, <1>10, <1>11

\* Rows are deleted.
LEMMA DeleteList ==
    ASSUME ListInv, NEW ids, DeleteRows(ids)
    PROVE  /\ ListInv' /\ nextId' = nextId
           /\ DOMAIN db' \subseteq DOMAIN db
           /\ \A id \in DOMAIN db' : db'[id] = db[id]
<1>1. /\ db' = [id \in DOMAIN db \ ids |-> db[id]] /\ nextId' = nextId
      /\ RefreshList(mem)
  BY DEF DeleteRows
<1>2. IsFiniteSet(DOMAIN db) /\ size = Cardinality(DOMAIN db) /\ size \in 0..NbJobs
  BY ListedIds DEF ListInv
<1>3. DOMAIN db' \subseteq DOMAIN db /\ \A id \in DOMAIN db' : db'[id] = db[id]
  BY <1>1
<1>4. Cardinality(DOMAIN db') <= NbJobs
  <2>1. Cardinality(DOMAIN db') <= Cardinality(DOMAIN db) /\ IsFiniteSet(DOMAIN db')
    BY <1>2, <1>3, FS_Subset
  <2>2. Cardinality(DOMAIN db') \in Nat
    BY <2>1, FS_CardinalityType
  <2> QED BY <1>2, <2>1, <2>2, JobsAssumption DEF JobsAssumption
<1>5. db' \in [DOMAIN db' -> Status] /\ nextId' \in Nat \ {0}
      /\ DOMAIN db' \subseteq 1 .. nextId' - 1
      /\ mem \in [Indexes -> [id : 1 .. nextId' - 1, status : Status]]
  BY <1>1, <1>3 DEF ListInv
<1> QED BY <1>1, <1>3, <1>4, <1>5, Refreshed

\* The first state.
LEMMA InitJobInv == Init => JobInv
<1> SUFFICES ASSUME Init PROVE JobInv
  OBVIOUS
<1>1. NbJobs \in Nat \ {0} /\ MaxStarts \in Nat /\ Indexes = 1 .. NbJobs
  BY JobsAssumption DEF JobsAssumption, Indexes
<1>2. DOMAIN db = 1 .. NbJobs /\ Cardinality(1 .. NbJobs) = NbJobs
  BY <1>1, FS_Interval DEF Init
<1>3. \A k \in 1 .. NbJobs : InOrder(1 .. NbJobs)[k] = k
  BY <1>1, InOrderFirst
<1>4. ListInv
  BY <1>1, <1>2, <1>3 DEF Init, ListInv, Status
<1>5. PlaceInv
  BY <1>1, JobsAssumption DEF JobsAssumption, Init, PlaceInv, InHand
<1>6. RunningInv
  BY <1>1, <1>2 DEF Init, RunningInv, InHand
<1>7. QueueInv
  <2>1. /\ wpc = "idle" /\ conn = 0 /\ r = FALSE /\ heard = 0 /\ backlog = <<>>
        /\ late = FALSE /\ deleted = FALSE
        /\ \A c \in Children : cpc[c] = "none"
    BY DEF Init
  <2>2. ~InHand /\ conn \in 0 .. MaxStarts /\ heard \in 0 .. MaxStarts
    BY <1>1, <2>1 DEF InHand
  <2>3. r \in BOOLEAN /\ late \in BOOLEAN /\ deleted \in BOOLEAN
    BY <2>1
  <2> QED BY <2>1, <2>2, <2>3 DEF QueueInv
<1>8. FiledInv
  <2>1. script \in [Children -> 0 .. nextId - 1] /\ verdicts = {} /\ wpc = "idle"
    BY <1>1 DEF Init
  <2> QED BY <2>1 DEF FiledInv, InHand
<1> QED BY <1>4, <1>5, <1>6, <1>7, <1>8, InitIInv DEF JobInv, WindowInv

-----------------------------------------------------------------------------
(* The steps                                                               *)

\* A script stays one of a job that existed.
LEMMA ScriptKept ==
    ASSUME script \in [Children -> 0 .. nextId - 1], script' = script,
           nextId \in Nat, nextId' \in Nat, nextId <= nextId'
    PROVE  script' \in [Children -> 0 .. nextId' - 1]
<1>1. ASSUME NEW c \in Children PROVE script[c] \in 0 .. nextId' - 1
  <2>1. script[c] \in 0 .. nextId - 1
    OBVIOUS
  <2> QED BY <2>1
<1> QED BY <1>1

\* The user forces a status.
LEMMA ForceJobInv ==
    ASSUME JobInv, NEW k \in Indexes, NEW status \in {"idle", "ok"}, ForceStatus(k, status)
    PROVE  WindowInv'
<1>1. /\ ListInv /\ PlaceInv /\ RunningInv /\ QueueInv /\ FiledInv
      /\ clicks < MaxClicks /\ clicks' = clicks + 1 /\ k <= size
      /\ UNCHANGED <<wpc, ref, scan, last, conn, r, heard, started, cpc, script,
                     backlog, out, hailed, verdicts, late, deleted>>
  BY DEF JobInv, WindowInv, ForceStatus, Click, window, children
<1>2. /\ ListInv' /\ nextId <= nextId'
      /\ DOMAIN db' = DOMAIN db /\ size' = size
      /\ mem[k].id \in DOMAIN db /\ db'[mem[k].id] = status
      /\ \A id \in DOMAIN db : id # mem[k].id => db'[id] = db[id]
      /\ \A j \in 1..size : mem'[j].id = mem[j].id
  BY <1>1, SetStatusList DEF ForceStatus, Status
<1>3. PlaceInv'
  BY <1>1, JobsAssumption DEF PlaceInv, InHand, JobsAssumption
<1>4. ASSUME InHand, ~deleted PROVE mem'[ref].id = mem[ref].id
  <2>1. ref <= size
    BY <1>1, <1>4 DEF InHand, RunningInv
  <2>2. ref \in 1 .. NbJobs /\ size \in 0 .. NbJobs /\ NbJobs \in Nat
    BY <1>1, JobsAssumption DEF PlaceInv, ListInv, Indexes, JobsAssumption
  <2>3. ref \in 1..size
    BY <2>1, <2>2
  <2> QED BY <1>2, <2>3
<1>5. RunningInv'
  <2>1. SUFFICES ASSUME ~deleted PROVE RunningInv'
    BY <1>1 DEF RunningInv
  <2>2. ASSUME NEW id \in DOMAIN db', db'[id] = "running" PROVE InHand' /\ id = mem'[ref'].id
    <3>1. db[id] = "running" /\ id \in DOMAIN db
      BY <1>2, <2>2
    <3> QED BY <1>1, <1>4, <2>1, <3>1 DEF RunningInv, InHand
  <2> QED BY <1>1, <1>2, <2>1, <2>2 DEF RunningInv
<1>6. QueueInv'
  BY <1>1 DEF QueueInv, InHand
<1>7. FiledInv'
  <2>1. script' \in [Children -> 0 .. nextId' - 1]
    BY <1>1, <1>2, ScriptKept DEF FiledInv, ListInv
  <2> QED BY <1>1, <1>4, <2>1 DEF FiledInv, InHand
<1> QED BY <1>2, <1>3, <1>5, <1>6, <1>7 DEF WindowInv

\* The user deletes rows.
LEMMA DeleteJobInv ==
    ASSUME JobInv, Click, NEW ids, DeleteRows(ids)
    PROVE  WindowInv'
<1>1. /\ ListInv /\ PlaceInv /\ RunningInv /\ QueueInv /\ FiledInv
      /\ clicks < MaxClicks /\ clicks' = clicks + 1
      /\ deleted' = (deleted \/ wpc # "idle")
      /\ UNCHANGED <<wpc, ref, scan, last, conn, r, heard, started, cpc, script,
                     backlog, out, hailed, verdicts, late>>
  BY DEF JobInv, WindowInv, Click, DeleteRows, window, children
<1>2. /\ ListInv' /\ nextId' = nextId
      /\ DOMAIN db' \subseteq DOMAIN db
      /\ \A id \in DOMAIN db' : db'[id] = db[id]
  BY <1>1, DeleteList
<1>3. PlaceInv'
  BY <1>1, JobsAssumption DEF PlaceInv, InHand, JobsAssumption
<1>4. ~deleted' => ~deleted /\ wpc = "idle"
  BY <1>1
<1>5. RunningInv'
  <2>1. SUFFICES ASSUME ~deleted' PROVE RunningInv'
    BY DEF RunningInv
  <2>2. \A id \in DOMAIN db' : db'[id] # "running"
    BY <1>1, <1>2, <1>4, <2>1 DEF RunningInv, InHand
  <2> QED BY <1>1, <1>2, <1>4, <2>1, <2>2 DEF RunningInv
<1>6. QueueInv'
  <2>1. deleted' \in BOOLEAN
    BY <1>1
  <2> QED BY <1>1, <2>1 DEF QueueInv, InHand
<1>7. FiledInv'
  <2>1. script' \in [Children -> 0 .. nextId' - 1]
    BY <1>1, <1>2 DEF FiledInv
  <2> QED BY <1>1, <1>4, <2>1 DEF FiledInv, InHand
<1> QED BY <1>2, <1>3, <1>5, <1>6, <1>7 DEF WindowInv

\* A job is chosen, or the end of the list reached: nothing is in hand yet.
LEMMA ChooseJobInv ==
    ASSUME JobInv, \/ RunAllJob \/ ScanEnd \/ ScanSkip \/ ScanOpen
                   \/ \E k \in Indexes : RunNow(k)
    PROVE  WindowInv'
<1>1. /\ ListInv /\ PlaceInv /\ RunningInv /\ QueueInv /\ FiledInv
      /\ wpc \in {"idle", "scan"} /\ wpc' \in {"idle", "scan", "open"}
      /\ UNCHANGED <<db, nextId, mem, size, conn, r, heard, started, cpc, script,
                     backlog, verdicts, late, deleted, clicks>>
  BY DEF JobInv, WindowInv, RunAllJob, ScanEnd, ScanSkip, ScanOpen, RunNow,
         children, table, list, history
<1>2. size \in 0 .. NbJobs /\ NbJobs \in Nat /\ MaxStarts \in Nat /\ started \in Nat
      /\ Indexes = 1 .. NbJobs
  BY <1>1, JobsAssumption DEF ListInv, PlaceInv, JobsAssumption, Indexes
<1>3. ListInv'
  BY <1>1 DEF ListInv
<1>4. PlaceInv' /\ (~deleted => (wpc' = "scan" => last' <= size)
                             /\ (wpc' = "open" => ref' <= size /\ (scan' # 0 => last' <= size)))
  <2>1. CASE RunAllJob
    <3>1. wpc' = "scan" /\ scan' = 1 /\ last' = size /\ started + size <= MaxStarts /\ ref' = ref
      BY <2>1 DEF RunAllJob
    <3> QED BY <1>1, <1>2, <3>1 DEF PlaceInv, InHand
  <2>2. CASE ScanEnd
    BY <1>1, <2>2 DEF ScanEnd, PlaceInv, InHand
  <2>3. CASE ScanSkip
    <3>1. /\ wpc = "scan" /\ wpc' = "scan" /\ scan <= last /\ scan' = scan + 1
          /\ last' = last /\ ref' = ref
      BY <2>3 DEF ScanSkip
    <3>2. /\ scan \in Nat /\ last \in 0 .. NbJobs /\ scan # 0
          /\ started + (last - scan + 1) <= MaxStarts
      BY <1>1, <3>1 DEF PlaceInv
    <3>3. /\ scan' \in 0 .. NbJobs + 1 /\ scan' # 0 /\ scan' <= last' + 1
          /\ started' + (last' - scan' + 1) <= MaxStarts
      BY <1>1, <1>2, <3>1, <3>2
    <3>4. PlaceInv'
      BY <1>1, <3>1, <3>3 DEF PlaceInv, InHand
    <3>5. ~deleted => last' <= size
      BY <1>1, <3>1 DEF RunningInv
    <3> QED BY <3>1, <3>4, <3>5
  <2>4. CASE ScanOpen
    <3>1. /\ wpc = "scan" /\ wpc' = "open" /\ scan <= last /\ scan' = scan
          /\ last' = last /\ ref' = scan
      BY <2>4 DEF ScanOpen
    <3> QED BY <1>1, <1>2, <3>1 DEF PlaceInv, InHand, RunningInv
  <2>5. ASSUME NEW k \in Indexes, RunNow(k)
        PROVE  PlaceInv' /\ (~deleted => (wpc' = "scan" => last' <= size)
                             /\ (wpc' = "open" => ref' <= size /\ (scan' # 0 => last' <= size)))
    <3>1. /\ wpc = "idle" /\ wpc' = "open" /\ k <= size /\ started < MaxStarts /\ scan' = 0
          /\ last' = last /\ ref' = k
      BY <2>5 DEF RunNow
    <3>2. /\ ref' \in Indexes /\ scan' \in 0 .. NbJobs + 1 /\ last' \in 0 .. NbJobs
          /\ started' \in 0 .. MaxStarts /\ clicks' \in 0 .. MaxClicks
      BY <1>1, <1>2, <3>1 DEF PlaceInv
    <3>3. PlaceInv'
      BY <1>1, <3>1, <3>2 DEF PlaceInv, InHand
    <3> QED BY <3>1, <3>3
  <2> QED BY <2>1, <2>2, <2>3, <2>4, <2>5
<1>5. RunningInv'
  BY <1>1, <1>4 DEF RunningInv, InHand
<1>6. QueueInv'
  BY <1>1 DEF QueueInv, InHand
<1>7. FiledInv'
  BY <1>1 DEF FiledInv, InHand
<1> QED BY <1>3, <1>4, <1>5, <1>6, <1>7 DEF WindowInv

\* A job is started: its row says Running, its child alone is starting.
LEMMA StartJobInv == JobInv /\ StartJob => WindowInv'
<1> SUFFICES ASSUME JobInv, StartJob PROVE WindowInv'
  OBVIOUS
<1>1. /\ ListInv /\ PlaceInv /\ RunningInv /\ QueueInv /\ FiledInv /\ Typing
      /\ wpc = "open" /\ wpc' = "spawned"
      /\ SetStatus(ref, "running")
      /\ started' = started + 1
      /\ cpc' = [cpc EXCEPT ![started + 1] = "starting"]
      /\ script' = [script EXCEPT ![started + 1] = mem'[ref].id]
      /\ heard' = 0 /\ r' = FALSE
      /\ UNCHANGED <<ref, scan, last, conn, backlog, out, hailed, clicks,
                     verdicts, late, deleted>>
  BY DEF JobInv, WindowInv, IInv, StartJob, history
<1>2. /\ ref \in Indexes /\ started \in Nat /\ started < MaxStarts /\ MaxStarts \in Nat
      /\ started' \in Children /\ NbJobs \in Nat /\ Indexes = 1 .. NbJobs
  BY <1>1, JobsAssumption DEF PlaceInv, JobsAssumption, Children, Indexes
<1>3. /\ ListInv' /\ nextId <= nextId'
      /\ ref <= size =>
           /\ DOMAIN db' = DOMAIN db /\ size' = size
           /\ mem[ref].id \in DOMAIN db /\ db'[mem[ref].id] = "running"
           /\ \A id \in DOMAIN db : id # mem[ref].id => db'[id] = db[id]
           /\ \A j \in 1..size : mem'[j].id = mem[j].id
  <2>1. "running" \in Status
    BY DEF Status
  <2> QED BY <1>1, <1>2, <2>1, SetStatusList
<1>4. PlaceInv'
  <2>1. /\ ref' \in Indexes /\ scan' \in 0 .. NbJobs + 1 /\ last' \in 0 .. NbJobs
        /\ started' \in 0 .. MaxStarts /\ clicks' \in 0 .. MaxClicks /\ started' # 0
    BY <1>1, <1>2 DEF PlaceInv
  <2>2. scan' # 0 => scan' <= last' /\ started' + (last' - scan') <= MaxStarts
    BY <1>1, <1>2 DEF PlaceInv
  <2> QED BY <1>1, <2>1, <2>2 DEF PlaceInv, InHand
<1>5. RunningInv'
  <2>1. SUFFICES ASSUME ~deleted PROVE RunningInv'
    BY <1>1 DEF RunningInv
  <2>2. ref <= size /\ size \in Nat
    BY <1>1, <2>1, <1>2 DEF RunningInv, ListInv
  <2>3. mem'[ref].id = mem[ref].id
    BY <1>2, <1>3, <2>2
  <2>4. ASSUME NEW id \in DOMAIN db', db'[id] = "running" PROVE InHand' /\ id = mem'[ref'].id
    <3>1. id \in DOMAIN db /\ (id # mem[ref].id => db[id] = "running")
      BY <1>3, <2>2, <2>4
    <3>2. db[id] # "running"
      BY <1>1, <2>1, <3>1 DEF RunningInv, InHand
    <3> QED BY <1>1, <2>3, <3>1, <3>2 DEF InHand
  <2> QED BY <1>1, <1>3, <2>1, <2>2, <2>4 DEF RunningInv
<1>6. QueueInv'
  <2>1. \A c \in Children : c # started' => cpc'[c] = cpc[c]
    BY <1>1 DEF Typing
  <2>2. ~late => backlog = <<>> /\ \A c \in Children : cpc[c] # "starting"
    BY <1>1 DEF QueueInv
  <2>3. conn = 0 /\ conn' = 0 /\ heard' = 0 /\ 0 \in 0 .. MaxStarts
    BY <1>1, <1>2 DEF QueueInv, InHand
  <2>4. r' \in BOOLEAN /\ late' \in BOOLEAN /\ deleted' \in BOOLEAN
    BY <1>1 DEF QueueInv
  <2> QED BY <1>1, <2>1, <2>2, <2>3, <2>4 DEF QueueInv, InHand
<1>7. FiledInv'
  <2>1. mem'[ref].id \in 1 .. nextId' - 1 /\ nextId' \in Nat /\ nextId \in Nat
    BY <1>1, <1>2, <1>3 DEF ListInv
  <2>2. script \in [Children -> 0 .. nextId' - 1]
    <3>1. script \in [Children -> 0 .. nextId - 1]
      BY <1>1 DEF FiledInv
    <3>2. ASSUME NEW c \in Children PROVE script[c] \in 0 .. nextId' - 1
      <4>1. script[c] \in 0 .. nextId - 1
        BY <3>1
      <4> QED BY <1>3, <2>1, <4>1
    <3> QED BY <3>1, <3>2
  <2>3. mem'[ref].id \in 0 .. nextId' - 1
    BY <2>1
  <2>4. /\ script' \in [Children -> 0 .. nextId' - 1]
        /\ script'[started'] = mem'[ref].id
        /\ \A c \in Children : c # started' => script'[c] = script[c]
    BY <1>1, <1>2, <2>2, <2>3
  <2>5. ASSUME NEW v \in verdicts
        PROVE  v.own \in 1 .. started' /\ v.own \in Children /\ script'[v.own] = script[v.own]
    <3>1. v.own \in 1 .. started
      BY <1>1 DEF FiledInv
    <3>2. v.own \in 1 .. started' /\ v.own \in Children /\ v.own # started'
      BY <1>1, <1>2, <3>1 DEF Children
    <3> QED BY <2>4, <3>2
  <2> QED BY <1>1, <2>4, <2>5 DEF FiledInv
<1> QED BY <1>3, <1>4, <1>5, <1>6, <1>7 DEF WindowInv

\* The window takes a connection, waits in vain, or reads: the list, the
\* place and the children stay.
LEMMA ListenJobInv ==
    ASSUME JobInv,
           Accept \/ NoConnect \/ Handshake \/ ReadEnd \/ ReadClosed \/ LoopEnd
    PROVE  WindowInv'
<1>1. /\ ListInv /\ PlaceInv /\ RunningInv /\ QueueInv /\ FiledInv /\ Typing
      /\ wpc \in {"spawned", "hello", "loop"} /\ wpc' \in {"hello", "loop", "done"}
      /\ UNCHANGED <<db, nextId, mem, size, ref, scan, last, started, cpc, script,
                     verdicts, deleted, clicks>>
      /\ InHand /\ InHand'
  BY DEF JobInv, WindowInv, IInv, Accept, NoConnect, Handshake, ReadEnd, ReadClosed,
         LoopEnd, children, table, list, history, InHand
<1>2. started \in Nat /\ MaxStarts \in Nat /\ started \in Children
  BY <1>1, JobsAssumption DEF PlaceInv, JobsAssumption, Children
<1>3. ListInv' /\ PlaceInv' /\ RunningInv'
  BY <1>1 DEF ListInv, PlaceInv, RunningInv, InHand
<1>4. QueueInv' /\ (~late' => ~late)
  <2>1. CASE Accept
    <3>1. /\ wpc = "spawned" /\ backlog # <<>> /\ conn' = Head(backlog) /\ late' = late
          /\ backlog' = Tail(backlog) /\ heard' = heard /\ r' = r
      BY <2>1 DEF Accept, history
    <3>2. conn' \in 0 .. MaxStarts
      <4>1. conn' \in Children
        BY <1>1, <3>1 DEF Typing
      <4> QED BY <4>1, <1>2 DEF Children
    <3>3. ASSUME ~late
          PROVE  /\ backlog = <<started>> /\ \A c \in Children : cpc[c] # "starting"
                 /\ heard \in {0, started}
      BY <1>1, <3>1, <3>3 DEF QueueInv, InHand
    <3>4. ASSUME ~late PROVE conn' = started /\ backlog' = <<>>
      <4>1. backlog \in Seq(Children) /\ Len(backlog) = 1 /\ backlog[1] = started
        BY <1>1, <3>3, <3>4 DEF Typing
      <4>2. /\ Head(backlog) = backlog[1] /\ Tail(backlog) \in Seq(Children)
            /\ Len(Tail(backlog)) = 0
        BY <3>1, <4>1, HeadTailProperties
      <4> QED BY <3>1, <4>1, <4>2, EmptySeq
    <3> QED BY <1>1, <3>1, <3>2, <3>3, <3>4 DEF QueueInv, InHand
  <2>2. CASE NoConnect
    <3>1. /\ wpc = "spawned" /\ wpc' = "done" /\ backlog = <<>> /\ backlog' = <<>>
          /\ conn' = conn /\ heard' = heard /\ r' = r
          /\ late' = (late \/ cpc[started] = "starting")
      BY <2>2 DEF NoConnect
    <3>2. late' \in BOOLEAN /\ (~late' => ~late /\ cpc[started] # "starting")
      BY <3>1
    <3> QED BY <1>1, <3>1, <3>2 DEF QueueInv, InHand
  <2>3. CASE Handshake \/ ReadClosed \/ LoopEnd
    <3>1. /\ wpc \in {"hello", "loop"} /\ wpc' \in {"loop", "done"} /\ conn' \in {0, conn}
          /\ UNCHANGED <<r, heard, backlog, late>>
      BY <2>3 DEF Handshake, ReadClosed, LoopEnd, history
    <3>2. conn' \in 0 .. MaxStarts
      BY <1>1, <1>2, <3>1 DEF QueueInv
    <3> QED BY <1>1, <3>1, <3>2 DEF QueueInv, InHand
  <2>4. CASE ReadEnd
    <3>1. /\ wpc = "loop" /\ wpc' = "done" /\ conn # 0 /\ heard' = conn
          /\ r' = Head(out[conn]) /\ out[conn] # <<>> /\ UNCHANGED <<conn, backlog, late>>
      BY <2>4 DEF ReadEnd, history
    <3>2. r' \in BOOLEAN
      <4>1. conn \in Children
        BY <1>1, <1>2, <3>1 DEF QueueInv, Children
      <4>2. out[conn] \in Seq(BOOLEAN)
        BY <1>1, <4>1 DEF Typing
      <4> QED BY <3>1, <4>2, HeadTailProperties
    <3> QED BY <1>1, <3>1, <3>2 DEF QueueInv, InHand
  <2> QED BY <2>1, <2>2, <2>3, <2>4
<1>5. FiledInv'
  BY <1>1, <1>4 DEF FiledInv
<1> QED BY <1>3, <1>4, <1>5 DEF WindowInv

\* The result is filed.
LEMMA FinishJobInv == JobInv /\ FinishJob => WindowInv'
<1> SUFFICES ASSUME JobInv, FinishJob PROVE WindowInv'
  OBVIOUS
<1> DEFINE status == IF r THEN "ok" ELSE "ko"
           v0 == [row |-> mem[ref].id, heard |-> heard, own |-> started]
<1>1. /\ ListInv /\ PlaceInv /\ RunningInv /\ QueueInv /\ FiledInv
      /\ wpc = "done" /\ wpc' = IF scan = 0 THEN "idle" ELSE "scan"
      /\ scan' = IF scan = 0 THEN 0 ELSE scan + 1
      /\ SetStatus(ref, status)
      /\ verdicts' = verdicts \union {v0}
      /\ conn' = 0
      /\ UNCHANGED <<ref, last, r, heard, started, cpc, script, backlog, clicks,
                     late, deleted>>
  BY DEF JobInv, WindowInv, FinishJob, children
<1>2. /\ ref \in Indexes /\ started \in Nat /\ started # 0 /\ MaxStarts \in Nat
      /\ started \in Children /\ NbJobs \in Nat /\ Indexes = 1 .. NbJobs
  BY <1>1, JobsAssumption DEF PlaceInv, JobsAssumption, Children, Indexes, InHand
<1>3. /\ ListInv' /\ nextId <= nextId'
      /\ ref <= size =>
           /\ DOMAIN db' = DOMAIN db /\ size' = size
           /\ mem[ref].id \in DOMAIN db /\ db'[mem[ref].id] = status
           /\ \A id \in DOMAIN db : id # mem[ref].id => db'[id] = db[id]
           /\ \A j \in 1..size : mem'[j].id = mem[j].id
  <2>1. status \in Status
    BY DEF Status
  <2> HIDE DEF status
  <2> QED BY <1>1, <1>2, <2>1, SetStatusList
<1>4. status # "running"
  OBVIOUS
<1> HIDE DEF status
<1>5. PlaceInv'
  <2>1. CASE scan = 0
    BY <1>1, <2>1 DEF PlaceInv, InHand
  <2>2. CASE scan # 0
    <3>1. /\ scan \in Nat /\ last \in 0 .. NbJobs /\ scan <= last
          /\ started + (last - scan) <= MaxStarts
      BY <1>1, <2>2 DEF PlaceInv, InHand
    <3>2. /\ scan' \in 0 .. NbJobs + 1 /\ scan' # 0 /\ scan' <= last' + 1
          /\ started' + (last' - scan' + 1) <= MaxStarts
      BY <1>1, <1>2, <2>2, <3>1
    <3> QED BY <1>1, <2>2, <3>2 DEF PlaceInv, InHand
  <2> QED BY <2>1, <2>2
<1>6. ~InHand'
  BY <1>1 DEF InHand
<1>7. RunningInv'
  <2>1. SUFFICES ASSUME ~deleted PROVE RunningInv'
    BY <1>1 DEF RunningInv
  <2>2. ref <= size /\ (scan # 0 => last <= size)
    BY <1>1, <2>1 DEF RunningInv
  <2>3. \A id \in DOMAIN db' : db'[id] # "running"
    BY <1>1, <1>3, <1>4, <2>1, <2>2 DEF RunningInv
  <2> QED BY <1>1, <1>3, <2>1, <2>2, <2>3 DEF RunningInv
<1>8. QueueInv'
  <2>1. 0 \in 0 .. MaxStarts
    BY <1>2
  <2>2. ~late => backlog = <<>> /\ \A c \in Children : cpc[c] # "starting"
    BY <1>1 DEF QueueInv
  <2>3. r \in BOOLEAN /\ heard \in 0 .. MaxStarts /\ late \in BOOLEAN /\ deleted \in BOOLEAN
    BY <1>1 DEF QueueInv
  <2> QED BY <1>1, <1>6, <2>1, <2>2, <2>3 DEF QueueInv
<1>9. FiledInv'
  <2>1. script' \in [Children -> 0 .. nextId' - 1]
    BY <1>1, <1>3, ScriptKept DEF FiledInv, ListInv
  <2>2. v0.own = started /\ v0.own \in 1 .. started
    BY <1>2
  <2>3. ~deleted => v0.row = script[v0.own]
    BY <1>1 DEF FiledInv, InHand
  <2>4. ~late => v0.heard \in {0, v0.own}
    BY <1>1 DEF QueueInv, InHand
  <2> HIDE DEF v0
  <2> QED BY <1>1, <1>6, <2>1, <2>2, <2>3, <2>4 DEF FiledInv
<1> QED BY <1>3, <1>5, <1>7, <1>8, <1>9 DEF WindowInv

\* A child acts: it may join the queue of connections once.
LEMMA ChildJobInv ==
    ASSUME JobInv, NEW c \in Children, ChildAction(c)
    PROVE  WindowInv'
<1>1. /\ ListInv /\ PlaceInv /\ RunningInv /\ QueueInv /\ FiledInv /\ Typing
      /\ UNCHANGED <<db, nextId, mem, size, wpc, ref, scan, last, conn, r, heard,
                     started, script, clicks, verdicts, late, deleted>>
  BY DEF JobInv, WindowInv, IInv, ChildAction, Connect, Greet, Work, SendResult, Leave,
         ChildStep, table, list, window, history
<1>2. \/ /\ cpc[c] = "starting" /\ cpc' = [cpc EXCEPT ![c] = "connected"]
         /\ backlog' = Append(backlog, c)
      \/ /\ \E to \in {"greeted", "working", "sent", "gone"} : cpc' = [cpc EXCEPT ![c] = to]
         /\ backlog' = backlog
  BY DEF ChildAction, Connect, Greet, Work, SendResult, Leave, ChildStep
<1>3. /\ cpc'[c] # "starting"
      /\ \A d \in Children : d # c => cpc'[d] = cpc[d]
  BY <1>1, <1>2 DEF Typing
<1>4. ~late => \/ backlog' = backlog
               \/ c = started /\ wpc = "spawned" /\ backlog' = <<started>>
  <2>1. CASE cpc[c] = "starting" /\ backlog' = Append(backlog, c)
    <3>1. SUFFICES ASSUME ~late
                   PROVE  c = started /\ wpc = "spawned" /\ backlog' = <<started>>
      OBVIOUS
    <3>2. c = started /\ wpc = "spawned" /\ backlog = <<>>
      BY <1>1, <2>1, <3>1 DEF QueueInv
    <3>3. Append(<<>>, started) = <<started>>
      OBVIOUS
    <3> QED BY <2>1, <3>2, <3>3
  <2> QED BY <1>2, <2>1
<1>5. \A d \in Children : cpc'[d] = "starting" => d # c /\ cpc[d] = "starting"
  BY <1>3
<1>6. ~late => \A d \in Children : cpc'[d] = "starting" =>
                  d = started /\ wpc = "spawned" /\ backlog' = <<>>
  BY <1>1, <1>4, <1>5 DEF QueueInv
<1>7. QueueInv'
  BY <1>1, <1>4, <1>6 DEF QueueInv, InHand
<1>8. ListInv' /\ PlaceInv' /\ RunningInv' /\ FiledInv'
  BY <1>1 DEF ListInv, PlaceInv, RunningInv, FiledInv, InHand
<1> QED BY <1>7, <1>8 DEF WindowInv

\* Every step.
LEMMA NextJobInv == JobInv /\ [Next]_vars => JobInv'
<1> SUFFICES ASSUME JobInv, [Next]_vars PROVE JobInv'
  OBVIOUS
<1>1. IInv'
  BY NextIInv DEF JobInv
<1>2. ASSUME UserStep PROVE WindowInv'
  <2>1. ASSUME NEW k \in Indexes, NEW status \in {"idle", "ok"}, ForceStatus(k, status)
        PROVE  WindowInv'
    BY <2>1, ForceJobInv
  <2>2. ASSUME NEW k \in Indexes, Del(k) PROVE WindowInv'
    BY <2>2, DeleteJobInv DEF Del
  <2>3. CASE Cleanup
    BY <2>3, DeleteJobInv DEF Cleanup
  <2> QED BY <1>2, <2>1, <2>2, <2>3, ChooseJobInv DEF UserStep
<1>3. ASSUME WindowStep PROVE WindowInv'
  BY <1>3, ChooseJobInv, StartJobInv, ListenJobInv, FinishJobInv DEF WindowStep
<1>4. ASSUME \E c \in Children : ChildAction(c) PROVE WindowInv'
  BY <1>4, ChildJobInv
<1>5. ASSUME Rest \/ UNCHANGED vars PROVE WindowInv'
  <2>1. UNCHANGED <<db, nextId, mem, size, wpc, ref, scan, last, conn, r, heard, started,
                    cpc, script, backlog, clicks, verdicts, late, deleted>>
    BY <1>5 DEF Rest, vars, table, list, window, children, history
  <2>2. ListInv' /\ PlaceInv' /\ RunningInv'
    BY <2>1 DEF JobInv, WindowInv, ListInv, PlaceInv, RunningInv, InHand
  <2>3. QueueInv' /\ FiledInv'
    BY <2>1 DEF JobInv, WindowInv, QueueInv, FiledInv, InHand
  <2> QED BY <2>2, <2>3 DEF WindowInv
<1> QED BY <1>1, <1>2, <1>3, <1>4, <1>5 DEF Next, JobInv

-----------------------------------------------------------------------------
(* The results                                                             *)

\* The inductive invariant of the list, the job in hand and the connections.
THEOREM ListInvariance == Spec => []JobInv
  BY InitJobInv, NextJobInv, PTL DEF Spec

\* Every variable keeps to its range: the vector stays within the memory it
\* got first, and the reference to the job in hand within that memory.
THEOREM TypeCorrect == Spec => []TypeOK
<1>1. JobInv => TypeOK
  <2> SUFFICES ASSUME JobInv PROVE TypeOK
    OBVIOUS
  <2>1. IInv /\ ListInv /\ PlaceInv /\ QueueInv /\ FiledInv /\ Typing
    BY DEF JobInv, WindowInv, IInv
  <2>2. \A id \in DOMAIN db : db[id] \in Status
    BY <2>1 DEF ListInv
  <2>3. /\ DOMAIN db \subseteq 1 .. nextId - 1 /\ nextId \in Nat
        /\ mem \in [Indexes -> [id : 1 .. nextId - 1, status : Status]]
        /\ size \in 0 .. NbJobs
    BY <2>1 DEF ListInv
  <2>4. /\ ref \in Indexes /\ scan \in 0 .. NbJobs + 1 /\ last \in 0 .. NbJobs
        /\ started \in 0 .. MaxStarts /\ clicks \in 0 .. MaxClicks
    BY <2>1 DEF PlaceInv
  <2>5. /\ conn \in 0 .. MaxStarts /\ heard \in 0 .. MaxStarts
        /\ r \in BOOLEAN /\ late \in BOOLEAN /\ deleted \in BOOLEAN
    BY <2>1 DEF QueueInv
  <2>6. script \in [Children -> 0 .. nextId - 1]
    BY <2>1 DEF FiledInv
  <2> QED BY <2>1, <2>2, <2>3, <2>4, <2>5, <2>6 DEF TypeOK, Typing
<1> QED BY <1>1, ListInvariance, PTL

\* A job is left Running only if a row was deleted during a run.
THEOREM NoJobLeftRunning == Spec => []NoneLeftRunning
<1>1. JobInv => NoneLeftRunning
  BY DEF JobInv, WindowInv, RunningInv, NoneLeftRunning, InHand
<1> QED BY <1>1, ListInvariance, PTL

\* A result goes astray only if a child was given up before it connected or
\* a row was deleted during a run.
THEOREM ResultsFiled == Spec => []VerdictsFiled
<1>1. JobInv => VerdictsFiled
  BY DEF JobInv, WindowInv, FiledInv, RunningInv, VerdictsFiled
<1> QED BY <1>1, ListInvariance, PTL
=============================================================================
