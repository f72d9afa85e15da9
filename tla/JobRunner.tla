----------------------------- MODULE JobRunner -----------------------------
(***************************************************************************)
(* The job window (jobWindow) and the processes it starts, one per job.    *)
(* The window has one thread.  It listens on one socket for as long as it  *)
(* lives; for each job it writes the row of the job, starts a child, waits *)
(* six seconds for a connection, exchanges greetings and reads messages    *)
(* until the child gives its result or the connection is closed.  The user *)
(* acts on the list whenever the window calls processEvents.               *)
(*                                                                         *)
(* The job in hand is a reference into the vector listOfJob, which         *)
(* refreshList clears and fills again from the data base.  clear() keeps   *)
(* the memory, so that the reference is an index, and what lies behind the *)
(* end of the vector are the bytes that were there before: that is what    *)
(* this build reads, although the language does not promise it.            *)
(*                                                                         *)
(* Left out: progress messages and the read-back of the result, which      *)
(* change no state of the window but its clock; the times of a job; jobs   *)
(* that another avidemux adds while the window is open; a child whose      *)
(* script saves more than once; the end of the window.                     *)
(***************************************************************************)
EXTENDS Integers, Sequences, SequencesExt, FiniteSetsExt

CONSTANTS
    NbJobs,      \* the jobs in the data base at first
    MaxStarts,   \* bound: children started
    MaxLost,     \* bound: children that end without a result
    MaxClicks    \* bound: changes the user makes to the list

ASSUME JobsAssumption ==
    /\ NbJobs \in Nat \ {0}
    /\ MaxStarts \in Nat
    /\ MaxLost \in Nat
    /\ MaxClicks \in Nat

VARIABLES
    db,        \* the rows of the table: status of each job, by id
    nextId,    \* id of the next row inserted (autoincrement)
    mem,       \* memory of the vector listOfJob
    size,      \* size of listOfJob
    wpc,       \* where the window is
    ref,       \* index the reference to the job in hand stands for
    scan,      \* runAllJob's index, 0 in runNow
    last,      \* runAllJob's n
    conn,      \* the child runSocket is connected to, 0 for none
    backlog,   \* connections made and not accepted yet
    r,         \* runOneJob's result
    started,   \* number of children started
    cpc,       \* where each child is
    script,    \* the job whose script each child was given
    out,       \* messages a child has sent and the window has not read
    hailed,    \* children the window has sent its greeting to
    clicks,    \* changes the user has made
    heard,     \* history: the child whose result is in r, 0 for none
    verdicts,  \* history: rows given a status at the end of a run, with the
               \* child heard and the child started for it
    late,      \* history: a child was given up before it connected
    deleted    \* history: a row was deleted while a job was in hand

list == <<mem, size>>
window == <<wpc, ref, scan, last, conn, r, heard>>
children == <<started, cpc, script>>
table == <<db, nextId>>
history == <<verdicts, late, deleted>>
vars == <<table, list, window, children, backlog, out, hailed, clicks, history>>

Status == {"idle", "running", "ok", "ko"}
Children == 1 .. MaxStarts
Live == {"starting", "connected", "greeted", "working"}
Indexes == 1 .. NbJobs

-----------------------------------------------------------------------------
(* The table and the vector                                                *)

\* jobUpdate: the row of a job gets its status; a row that is not there any
\* more is inserted under a new id.
JobUpdate(job) ==
    LET id == IF job.id \in DOMAIN db THEN job.id ELSE nextId
    IN  /\ db' = [i \in DOMAIN db \union {id} |->
                     IF i = id THEN job.status ELSE db[i]]
        /\ nextId' = IF id = nextId THEN nextId + 1 ELSE nextId

\* Ids in ascending order, as the data base returns its rows.
InOrder(ids) ==
    CHOOSE s \in SetToSeqs(ids) : \A i, j \in DOMAIN s : i < j => s[i] < s[j]

\* Mutant: the jobs that are over are listed last.
RefreshList_OverLast(bytes) ==
    LET Over(id) == db'[id] \in {"ok", "ko"}
        Before(i, j) == IF Over(i) = Over(j) THEN i < j ELSE Over(j)
        ids == SetToSortSeq(DOMAIN db', Before)
    IN  /\ size' = Len(ids)
        /\ mem' = [k \in Indexes |->
                      IF k <= Len(ids)
                      THEN [id |-> ids[k], status |-> db'[ids[k]]]
                      ELSE bytes[k]]

\* refreshList: the vector is filled again with the rows in the order of
\* their ids, over the bytes it held.
RefreshList(bytes) ==
    LET ids == InOrder(DOMAIN db')
    IN  /\ size' = Len(ids)
        /\ mem' = [k \in Indexes |->
                      IF k <= Len(ids)
                      THEN [id |-> ids[k], status |-> db'[ids[k]]]
                      ELSE bytes[k]]

\* The job at an index of the vector is given a status, which is saved, and
\* the vector is built again.
SetStatus(k, status) ==
    LET job == [mem[k] EXCEPT !.status = status]
    IN  /\ JobUpdate(job)
        /\ RefreshList([mem EXCEPT ![k] = job])

-----------------------------------------------------------------------------
(* What the user does to the list                                          *)

\* The window handles events: it is idle, has just opened the progress
\* dialog, is in spawnChild, or in a turn of the loop.
HandlesEvents == wpc \in {"idle", "open", "spawned", "loop"}

Click ==
    /\ HandlesEvents
    /\ clicks < MaxClicks
    /\ clicks' = clicks + 1
    /\ UNCHANGED <<window, children, backlog, out, hailed, verdicts, late>>

\* JobAction_setReady and JobAction_setOk.
ForceStatus(k, status) ==
    /\ Click
    /\ k <= size
    /\ SetStatus(k, status)
    /\ UNCHANGED deleted

\* Rows go, those that follow move up.
DeleteRows(ids) ==
    /\ ids # {}
    /\ db' = [id \in DOMAIN db \ ids |-> db[id]]
    /\ UNCHANGED nextId
    /\ RefreshList(mem)
    /\ deleted' = (deleted \/ wpc # "idle")

\* JobAction_delete.
Del(k) ==
    /\ Click
    /\ k <= size
    /\ DeleteRows({mem[k].id})

\* The jobs that succeeded, as the vector has them.
Cleanup ==
    /\ Click
    /\ DeleteRows({mem[k].id : k \in {i \in 1 .. size : mem[i].status = "ok"}})

-----------------------------------------------------------------------------
(* Choosing a job                                                          *)

\* The button of runAllJob; n is read once.
RunAllJob ==
    /\ wpc = "idle"
    /\ size > 0
    /\ started + size <= MaxStarts
    /\ scan' = 1
    /\ last' = size
    /\ wpc' = "scan"
    /\ UNCHANGED <<table, list, ref, conn, r, heard, children, backlog, out,
                   hailed, clicks, history>>

\* The loop is over.
ScanEnd ==
    /\ wpc = "scan"
    /\ scan > last
    /\ wpc' = "idle"
    /\ UNCHANGED <<table, list, ref, scan, last, conn, r, heard, children,
                   backlog, out, hailed, clicks, history>>

\* Only a job that is ready is run.
ScanSkip ==
    /\ wpc = "scan"
    /\ scan <= last
    /\ mem[scan].status # "idle"
    /\ scan' = scan + 1
    /\ UNCHANGED <<table, list, wpc, ref, last, conn, r, heard, children,
                   backlog, out, hailed, clicks, history>>

\* The progress dialog is opened for the job.
ScanOpen ==
    /\ wpc = "scan"
    /\ scan <= last
    /\ mem[scan].status = "idle"
    /\ ref' = scan
    /\ wpc' = "open"
    /\ UNCHANGED <<table, list, scan, last, conn, r, heard, children, backlog,
                   out, hailed, clicks, history>>

\* JobAction_runNow: a job of any status.
RunNow(k) ==
    /\ wpc = "idle"
    /\ k <= size
    /\ started < MaxStarts
    /\ ref' = k
    /\ scan' = 0
    /\ wpc' = "open"
    /\ UNCHANGED <<table, list, last, conn, r, heard, children, backlog, out,
                   hailed, clicks, history>>

-----------------------------------------------------------------------------
(* runOneJob                                                               *)

\* The row says Running, the list is built again and a child is started with
\* the script of the job the reference then stands for.
StartJob ==
    /\ wpc = "open"
    /\ SetStatus(ref, "running")
    /\ started' = started + 1
    /\ cpc' = [cpc EXCEPT ![started + 1] = "starting"]
    /\ script' = [script EXCEPT ![started + 1] = mem'[ref].id]
    /\ r' = FALSE
    /\ heard' = 0
    /\ wpc' = "spawned"
    /\ UNCHANGED <<ref, scan, last, conn, backlog, out, hailed, clicks, history>>

\* waitForConnect: the first connection in the queue, whoever made it; the
\* window sends its greeting.
Accept ==
    /\ wpc = "spawned"
    /\ backlog # <<>>
    /\ conn' = Head(backlog)
    /\ backlog' = Tail(backlog)
    /\ hailed' = hailed \union {conn'}
    /\ wpc' = "hello"
    /\ UNCHANGED <<table, list, ref, scan, last, r, heard, children, out,
                   clicks, history>>

\* Mutant: runOneJob returns without going through its end.
NoConnect_Returns ==
    /\ wpc = "spawned"
    /\ backlog = <<>>
    /\ wpc' = IF scan = 0 THEN "idle" ELSE "scan"
    /\ late' = (late \/ cpc[started] = "starting")
    /\ UNCHANGED <<table, list, ref, scan, last, conn, r, heard, children,
                   backlog, out, hailed, clicks, verdicts, deleted>>

\* waitForConnect: nobody within six seconds.
NoConnect ==
    /\ wpc = "spawned"
    /\ backlog = <<>>
    /\ wpc' = "done"
    /\ late' = (late \/ cpc[started] = "starting")
    /\ UNCHANGED <<table, list, ref, scan, last, conn, r, heard, children,
                   backlog, out, hailed, clicks, verdicts, deleted>>

\* The connection of the window is closed by the child and empty.
Closed == out[conn] = <<>> /\ cpc[conn] = "gone"

\* handshake: the greeting of the child, or its end.
Handshake ==
    /\ wpc = "hello"
    /\ \/ /\ out[conn] # <<>>
          /\ out' = [out EXCEPT ![conn] = Tail(@)]
          /\ wpc' = "loop"
       \/ /\ Closed
          /\ wpc' = "done"
          /\ UNCHANGED out
    /\ UNCHANGED <<table, list, ref, scan, last, conn, r, heard, children,
                   backlog, hailed, clicks, history>>

\* pollMessage: the result of the child.
ReadEnd ==
    /\ wpc = "loop"
    /\ conn # 0
    /\ out[conn] # <<>>
    /\ r' = Head(out[conn])
    /\ heard' = conn
    /\ out' = [out EXCEPT ![conn] = Tail(@)]
    /\ wpc' = "done"
    /\ UNCHANGED <<table, list, ref, scan, last, conn, children, backlog,
                   hailed, clicks, history>>

\* Mutant: rxData reports the error and leaves the socket open.
ReadClosed_StaysOpen ==
    /\ wpc = "loop"
    /\ conn # 0
    /\ Closed
    /\ UNCHANGED vars

\* pollMessage: nothing more will come, rxData closes the socket.
ReadClosed ==
    /\ wpc = "loop"
    /\ conn # 0
    /\ Closed
    /\ conn' = 0
    /\ UNCHANGED <<table, list, wpc, ref, scan, last, r, heard, children,
                   backlog, out, hailed, clicks, history>>

\* isAlive: no socket, no more loop.
LoopEnd ==
    /\ wpc = "loop"
    /\ conn = 0
    /\ wpc' = "done"
    /\ UNCHANGED <<table, list, ref, scan, last, conn, r, heard, children,
                   backlog, out, hailed, clicks, history>>

\* The result is written, the connection deleted, the list built again.
FinishJob ==
    /\ wpc = "done"
    /\ SetStatus(ref, IF r THEN "ok" ELSE "ko")
    /\ verdicts' = verdicts \union
           {[row |-> mem[ref].id, heard |-> heard, own |-> started]}
    /\ conn' = 0
    /\ scan' = IF scan = 0 THEN 0 ELSE scan + 1
    /\ wpc' = IF scan = 0 THEN "idle" ELSE "scan"
    /\ UNCHANGED <<ref, last, r, heard, children, backlog, out, hailed, clicks,
                   late, deleted>>

-----------------------------------------------------------------------------
(* The children                                                            *)

ChildStep(c, from, to) ==
    /\ cpc[c] = from
    /\ cpc' = [cpc EXCEPT ![c] = to]
    /\ UNCHANGED <<table, list, window, started, script, clicks, history>>

\* ADM_slaveConnect: the kernel accepts for the window.
Connect(c) ==
    /\ ChildStep(c, "starting", "connected")
    /\ backlog' = Append(backlog, c)
    /\ UNCHANGED <<out, hailed>>

\* handshake: the greeting is sent; the answer is waited for without limit.
Greet(c) ==
    /\ ChildStep(c, "connected", "greeted")
    /\ out' = [out EXCEPT ![c] = Append(@, TRUE)]
    /\ UNCHANGED <<backlog, hailed>>

\* Mutant: the child does not wait for the answer.
Work_Unanswered(c) ==
    /\ ChildStep(c, "greeted", "working")
    /\ UNCHANGED <<backlog, out, hailed>>

\* The answer of the window: the child runs the script and saves.
Work(c) ==
    /\ c \in hailed
    /\ ChildStep(c, "greeted", "working")
    /\ UNCHANGED <<backlog, out, hailed>>

\* A_Save, ADM_slaveSendResult: the last message of the child.  That it then
\* waits for the read-back, and ends, changes nothing for the window.
SendResult(c) ==
    /\ ChildStep(c, "working", "sent")
    /\ \E result \in BOOLEAN : out' = [out EXCEPT ![c] = Append(@, result)]
    /\ UNCHANGED <<backlog, hailed>>

\* The child ends without a result: it crashed, or its script saved nothing.
Leave(c) ==
    /\ Quantify(Children, LAMBDA d : cpc[d] = "gone") < MaxLost
    /\ \E from \in Live : ChildStep(c, from, "gone")
    /\ UNCHANGED <<backlog, out, hailed>>

-----------------------------------------------------------------------------
\* The window waits for the user, and no bound is left for him.
Rest ==
    /\ wpc = "idle"
    /\ UNCHANGED vars

Init ==
    /\ db = [id \in 1 .. NbJobs |-> "idle"]
    /\ nextId = NbJobs + 1
    /\ mem = [k \in Indexes |-> [id |-> k, status |-> "idle"]]
    /\ size = NbJobs
    /\ wpc = "idle" /\ ref = 1 /\ scan = 0 /\ last = 0
    /\ conn = 0 /\ r = FALSE /\ heard = 0
    /\ backlog = <<>>
    /\ started = 0
    /\ cpc = [c \in Children |-> "none"]
    /\ script = [c \in Children |-> 0]
    /\ out = [c \in Children |-> <<>>]
    /\ hailed = {}
    /\ clicks = 0
    /\ verdicts = {} /\ late = FALSE /\ deleted = FALSE

UserStep ==
    \/ RunAllJob
    \/ \E k \in Indexes :
          \/ RunNow(k)
          \/ Del(k)
          \/ \E status \in {"idle", "ok"} : ForceStatus(k, status)
    \/ Cleanup

WindowStep ==
    \/ ScanEnd \/ ScanSkip \/ ScanOpen
    \/ StartJob \/ Accept \/ NoConnect \/ Handshake
    \/ ReadEnd \/ ReadClosed \/ LoopEnd \/ FinishJob

ChildAction(c) == Connect(c) \/ Greet(c) \/ Work(c) \/ SendResult(c) \/ Leave(c)

Next ==
    \/ UserStep
    \/ WindowStep
    \/ \E c \in Children : ChildAction(c)
    \/ Rest

Spec == Init /\ [][Next]_vars

\* The window's thread runs, and a child that can go on does: a save ends.
FairSpec ==
    /\ Spec
    /\ WF_vars(WindowStep)
    /\ \A c \in Children : WF_vars(ChildAction(c))

-----------------------------------------------------------------------------
(* Properties                                                              *)

\* Types; the vector never outgrows the memory it got first, which is what
\* makes an index of the reference to the job in hand (ADM_jobControl.cpp).
TypeOK ==
    /\ DOMAIN db \subseteq 1 .. nextId - 1
    /\ \A id \in DOMAIN db : db[id] \in Status
    /\ nextId \in Nat
    /\ mem \in [Indexes -> [id : 1 .. nextId - 1, status : Status]]
    /\ size \in 0 .. NbJobs
    /\ wpc \in {"idle", "scan", "open", "spawned", "hello", "loop", "done"}
    /\ ref \in Indexes
    /\ scan \in 0 .. NbJobs + 1
    /\ last \in 0 .. NbJobs
    /\ conn \in 0 .. MaxStarts
    /\ backlog \in Seq(Children)
    /\ r \in BOOLEAN
    /\ started \in 0 .. MaxStarts
    /\ cpc \in [Children -> Live \union {"none", "sent", "gone"}]
    /\ script \in [Children -> 0 .. nextId - 1]
    /\ out \in [Children -> Seq(BOOLEAN)]
    /\ hailed \subseteq Children
    /\ clicks \in 0 .. MaxClicks
    /\ heard \in 0 .. MaxStarts
    /\ late \in BOOLEAN /\ deleted \in BOOLEAN

\* Two children never save at the same time, not even when the window has
\* given one up and started the next: the one it has not accepted waits in
\* its handshake (ADM_slaveConnect, waitForConnect).
OneSaver ==
    \A c, d \in Children : cpc[c] = "working" /\ cpc[d] = "working" => c = d

\* A result is written to the row of the job that was started, and is that of
\* its own child, unless a child was given up before it connected or a row
\* was deleted during a run; and no row appears that nobody added
\* (runOneJob, refreshList).
VerdictsFiled ==
    ~late /\ ~deleted =>
        /\ \A v \in verdicts : /\ v.row = script[v.own]
                               /\ v.heard \in {0, v.own}
        /\ DOMAIN db \subseteq 1 .. NbJobs

\* No job says Running when none runs, unless a row was deleted during a run:
\* every way out of runOneJob gives the job a result.
NoneLeftRunning ==
    wpc = "idle" /\ ~deleted => \A id \in DOMAIN db : db[id] # "running"

\* A run comes to its end if the children do: the window waits for nothing
\* that a child which died would have had to send (runOneJob, rxData).
RunEnds == wpc # "idle" ~> wpc = "idle"

\* What the steps of runOneJob announce, "Spawn child", "Wait for connect",
\* "wait for complete and/or success message": the message is that of the
\* child that was spawned.  It does not hold.
OwnResult == \A v \in verdicts : v.heard \in {0, v.own}
=============================================================================
