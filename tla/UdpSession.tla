----------------------------- MODULE UdpSession -----------------------------
(****************************************************************************)
(* One UDP session (hev-socks5-session-udp.c) over hev-socks5-udp.c: the     *)
(* task that moves datagrams between an application's lwIP pcb and the SOCKS *)
(* server, either framed in the TCP connection (UDP_IN_TCP) or as datagrams  *)
(* of a UDP socket that lives as long as the TCP connection (UDP_IN_UDP).    *)
(*                                                                           *)
(* A frame of the application is written as OutUnits pieces, one the kernel  *)
(* takes or refuses as a whole; a frame of the server arrives as InUnits     *)
(* pieces: the first bytes of its head, the rest of the head, the body.      *)
(* Callbacks run only while the task is suspended.                           *)
(****************************************************************************)
EXTENDS Integers, Sequences, SequencesExt

CONSTANTS
    UDP_POOL_SIZE,
    num,                    \* misc.udp-copy-buffer-nums
    OutCap                  \* send buffer of the socket

ASSUME UdpSessionAssumption ==
    UDP_POOL_SIZE \in Nat /\ num \in Nat \ {0} /\ OutCap \in Nat \ {0}

VARIABLES
    mode,               \* "tcp" or "udp", from the configuration
    pc, susp,           \* where the task is, and whether it is suspended there
    res_f, res_b,
    frames,             \* the frames queued by udp_recv_handler
    batch, size,        \* fwd_f: frames being sent, pieces the kernel took
    got, cur,           \* fwd_b: msgv, and the frame whose body is read
    addr,               \* is self->addr set?
    terminated,         \* timeout = 0, which hev_socks5_set_timeout keeps
    sent, acc,          \* datagrams of the application, and those accepted
    edge, noSpace,      \* an event epoll has not reported; a send met EAGAIN
    room, inq, eof, sockErr,    \* the socket
    ctl,                \* UDP_IN_UDP: is the TCP connection still open?
    arr, fed,           \* kinds of the server's datagrams, pieces received so far
    wire, delivered,    \* history: pieces sent; datagrams given to lwIP
    torn, garbled,      \* history: a batch was cut short; the stream is out of step
    late                \* history: a datagram was queued inside a frame, after fwd_f

taskVars == <<res_f, res_b, batch, size, got, cur>>
appVars == <<frames, addr, sent, acc>>
sockVars == <<edge, noSpace, room, inq, eof, sockErr, ctl, arr, fed>>
histVars == <<wire, delivered, torn, garbled, late>>
vars == <<mode, pc, susp, taskVars, appVars, terminated, sockVars, histVars>>

\* Of a datagram: ok: fine; empty: skipped; name: its address has no numeric form; bad: malformed.
Kinds == {"ok", "empty", "name", "bad"}
Garbage == 0
Kind(id) == IF id = Garbage THEN "garbage" ELSE arr[id]
OutUnits == IF mode = "tcp" THEN 2 ELSE 1
InUnits == IF mode = "tcp" THEN 3 ELSE 1

\* The pieces of a sequence of datagrams, one datagram after the other.
Pieces(ids) ==
    [k \in 1..(Len(ids) * OutUnits) |->
        <<ids[((k - 1) \div OutUnits) + 1], ((k - 1) % OutUnits) + 1>>]
Upto(n) == [i \in 1..n |-> i]
Take(s, n) == SubSeq(s, 1, n)
Drop(s, n) == SubSeq(s, n + 1, Len(s))
AtMost(a, b) == IF a < b THEN a ELSE b

\* susp: it runs; it gave the processor up; it sleeps, with a timeout; it was
\* woken; the yielder failed. A sleep in the splicer is one at "f".
Running(at) == pc = at /\ susp \in {"run", "ready", "woken"}
GaveUp(at) == pc = at /\ susp = "failed"
Suspended == susp \in {"ready", "wait", "woken"}
Goto(to) == pc' = to /\ susp' = "run"

Init ==
    /\ mode \in {"tcp", "udp"}
    /\ pc = "connect" /\ susp = "ready" /\ res_f = 1 /\ res_b = 1
    /\ frames = <<>> /\ batch = 0 /\ size = 0 /\ got = <<>> /\ cur = Garbage
    /\ addr = FALSE /\ terminated = FALSE /\ sent = 0 /\ acc = 0
    /\ edge = FALSE /\ noSpace = FALSE /\ room = OutCap /\ inq = <<>>
    /\ eof = FALSE /\ sockErr = FALSE /\ ctl = TRUE /\ arr = <<>> /\ fed = 0
    /\ wire = <<>> /\ delivered = <<>> /\ torn = FALSE /\ garbled = FALSE
    /\ late = FALSE

-----------------------------------------------------------------------------
(* The yielder *)

\* UDP_IN_UDP: a recv on the TCP connection tells that the server closed it.
CtlGone == mode = "udp" /\ ~ctl

\* Mutant: a terminated session goes to sleep.
WaitTerminated ==
    IF CtlGone THEN susp' = "failed" /\ terminated' = TRUE
    ELSE susp' = "wait" /\ UNCHANGED terminated

\* task_io_yielder (HEV_TASK_WAITIO): it fails at once when there is no use.
Wait ==
    IF CtlGone \/ terminated THEN susp' = "failed" /\ terminated' = TRUE
    ELSE susp' = "wait" /\ UNCHANGED terminated

\* The sleep ends without or after a wake-up. The time starts anew each time.
Timeout ==
    /\ susp \in {"wait", "woken"}
    /\ susp' = "failed"
    /\ UNCHANGED <<mode, pc, taskVars, appVars, terminated, sockVars, histVars>>

-----------------------------------------------------------------------------
(* From the application to the server *)

\* hev_socks5_session_run up to the splicer.
Connect ==
    /\ Running("connect")
    /\ Goto("f") \/ Goto("end")
    /\ UNCHANGED <<mode, taskVars, appVars, terminated, sockVars, histVars>>

\* The splicer goes on with the other direction, unless that has failed.
ToB == Goto(IF res_b < 0 THEN "choose" ELSE IF mode = "tcp" THEN "head" ELSE "recv")

\* hev_socks5_session_udp_fwd_f up to the send.
FwdF ==
    /\ Running("f")
    /\ IF res_f < 0 \/ frames = <<>>
       THEN /\ ToB /\ res_f' = AtMost(res_f, 0)
            /\ UNCHANGED <<batch, size>>
       ELSE /\ Goto("send") /\ batch' = AtMost(Len(frames), num) /\ size' = 0
            /\ UNCHANGED res_f
    /\ late' = FALSE
    /\ UNCHANGED <<mode, res_b, got, cur, appVars, terminated, sockVars, wire, delivered,
                   torn, garbled>>

\* Mutant: the whole batch is taken for sent in both modes.
CountedAsSentAll(took) == batch

\* What sendmmsg returns when the kernel took some: sendmmsg_tcp answers num
\* whatever was written, sendmmsg_udp the number of datagrams.
CountedAsSent(took) == IF mode = "tcp" THEN batch ELSE took

\* The end of fwd_f: as many frames as were counted leave the queue.
FinishSend(took) ==
    /\ IF took = 0 THEN res_f' = -1 /\ UNCHANGED frames
       ELSE res_f' = 1 /\ frames' = Drop(frames, CountedAsSent(took))
    /\ torn' = (torn \/ (took > 0 /\ took < batch * OutUnits /\ mode = "tcp"))
    /\ batch' = 0 /\ size' = 0
    /\ ToB

\* hev_task_io_socket_sendmsg or _sendmmsg, with MSG_WAITALL.
Send ==
    /\ Running("send")
    /\ \/ \E s \in 1..AtMost(room, batch * OutUnits - size) :
             /\ ~sockErr
             /\ wire' = wire \o Take(Drop(Pieces(Take(frames, batch)), size), s)
             /\ room' = room - s
             /\ IF size + s = batch * OutUnits THEN FinishSend(size + s)
                ELSE size' = size + s /\ UNCHANGED <<pc, susp, res_f, batch, frames, torn>>
             /\ UNCHANGED <<noSpace, sockErr, terminated>>
       \/ /\ ~sockErr /\ room = 0
          /\ noSpace' = TRUE /\ Wait
          /\ UNCHANGED <<pc, res_f, batch, size, frames, room, sockErr, wire, torn>>
       \/ /\ sockErr /\ sockErr' = (mode = "tcp")
          /\ FinishSend(size)
          /\ UNCHANGED <<noSpace, terminated, room, wire>>
    /\ UNCHANGED <<mode, res_b, got, cur, addr, sent, acc, edge, inq, eof, ctl, arr, fed,
                   delivered, garbled, late>>

SendGivesUp ==
    /\ GaveUp("send")
    /\ FinishSend(size)
    /\ UNCHANGED <<mode, res_b, got, cur, addr, sent, acc, terminated, sockVars, wire,
                   delivered, garbled, late>>

-----------------------------------------------------------------------------
(* From the server to the application *)

EndB(res) == res_b' = res /\ got' = <<>> /\ cur' = Garbage /\ Goto("choose")

\* A malformed datagram: recvmmsg fails and sets no errno, so the one an earlier
\* call left behind decides. With EAGAIN the direction goes on, out of step.
Malformed ==
    \/ EndB(-1) /\ UNCHANGED garbled
    \/ EndB(0) /\ garbled' = TRUE

\* hev_socks5_session_udp_fwd_b and recvmmsg_udp: whatever is there, at most num
\* datagrams. One malformed datagram costs the others. The socket is connected
\* already: the client sets udp_associated before the splicer runs.
RecvUdp ==
    /\ Running("recv")
    /\ \/ /\ sockErr /\ sockErr' = FALSE
          /\ EndB(-1) /\ UNCHANGED <<inq, garbled>>
       \/ /\ ~sockErr /\ inq = <<>>
          /\ EndB(0) /\ UNCHANGED <<inq, sockErr, garbled>>
       \/ /\ ~sockErr /\ inq # <<>>
          /\ LET n == AtMost(Len(inq), num)
                 ids == [i \in 1..n |-> inq[i][1]]
             IN  /\ inq' = Drop(inq, n)
                 /\ IF \E i \in 1..n : arr[ids[i]] = "bad" THEN Malformed
                    ELSE got' = ids /\ Goto("deliver") /\ UNCHANGED <<res_b, cur, garbled>>
          /\ UNCHANGED sockErr
    /\ UNCHANGED <<mode, res_f, batch, size, appVars, terminated, edge, noSpace, room,
                   eof, ctl, arr, fed, wire, delivered, torn, late>>

\* The checks of the head, of which one read out of step may pass or fail any.
HeadRead(id) ==
    \/ Kind(id) # "bad" /\ cur' = id /\ Goto("body") /\ UNCHANGED <<res_b, got, garbled>>
    \/ Kind(id) \in {"bad", "garbage"} /\ Malformed

\* recvmmsg_tcp: up to 5 bytes of a head, without waiting.
ReadHead ==
    /\ Running("head")
    /\ \/ /\ Len(got) < num /\ inq # <<>>
          /\ inq' = Drop(inq, AtMost(Len(inq), 2))
          /\ LET id == IF inq[1][2] = 1 THEN inq[1][1] ELSE Garbage
             IN  IF Len(inq) = 1 THEN cur' = id /\ Goto("rest") /\ UNCHANGED <<res_b, got, garbled>>
                 ELSE HeadRead(id)
       \/ /\ Len(got) = num \/ (inq = <<>> /\ got # <<>>)
          /\ Goto("deliver") /\ UNCHANGED <<res_b, got, cur, inq, garbled>>
       \/ /\ inq = <<>> /\ got = <<>>
          /\ EndB(IF eof \/ sockErr THEN -1 ELSE 0)
          /\ UNCHANGED <<inq, garbled>>
    /\ UNCHANGED <<mode, res_f, batch, size, appVars, terminated, edge, noSpace, room, eof,
                   sockErr, ctl, arr, fed, wire, delivered, torn, late>>

\* A count of bytes is returned as the count of messages: entries of msgv that
\* nothing wrote are used. They may be skipped, sent on, refused or fatal.
UseUnwritten ==
    /\ garbled' = TRUE
    /\ \/ got' \in {got, Append(got, Garbage)} /\ Goto("deliver")
       \/ Goto("crashed") /\ UNCHANGED got
    /\ UNCHANGED <<res_b, cur>>

\* The rest of a head does not come: with messages already read the loop ends,
\* else the sum of both results is returned, which may be -1 with EAGAIN.
TornHead ==
    \/ got # <<>> /\ garbled' = TRUE /\ Goto("deliver") /\ UNCHANGED <<res_b, got, cur>>
    \/ got = <<>> /\ garbled' = TRUE /\ (EndB(-1) \/ (GaveUp("rest") /\ EndB(0)))
    \/ got = <<>> /\ UseUnwritten

\* The body does not come, or not all of it.
TornBody ==
    \/ garbled' = TRUE /\ EndB(-1)
    \/ UseUnwritten

\* The rest of the head, or the body, with MSG_WAITALL.
ReadOn ==
    /\ Running("rest") \/ Running("body")
    /\ \/ /\ inq # <<>> /\ inq' = Tail(inq)
          /\ IF pc = "rest" THEN HeadRead(cur)
             ELSE /\ got' = Append(got, cur) /\ cur' = Garbage
                  /\ Goto("head") /\ UNCHANGED <<res_b, garbled>>
          /\ UNCHANGED terminated
       \/ /\ inq = <<>> /\ (eof \/ sockErr)
          /\ IF pc = "rest" THEN TornHead ELSE TornBody
          /\ UNCHANGED <<inq, terminated>>
       \/ /\ inq = <<>> /\ ~eof /\ ~sockErr
          /\ Wait
          /\ UNCHANGED <<pc, res_b, got, cur, inq, garbled>>
    /\ UNCHANGED <<mode, res_f, batch, size, appVars, edge, noSpace, room, eof, sockErr,
                   ctl, arr, fed, wire, delivered, torn, late>>

ReadGivesUp ==
    /\ (GaveUp("rest") /\ TornHead) \/ (GaveUp("body") /\ TornBody)
    /\ UNCHANGED <<mode, res_f, batch, size, appVars, terminated, sockVars, wire, delivered,
                   torn, late>>

\* Mutant: a datagram that cannot be given to lwIP is passed over.
RefusedPassedOver == got' = Tail(got) /\ UNCHANGED <<pc, susp, res_b, cur>>

\* A datagram cannot be given to lwIP: its address has no numeric form, there is no
\* memory, or lwIP refuses it. The rest of the batch and the direction are lost.
Refused == EndB(-1)

\* One round of the loop of fwd_b over what was read, or its end. The lwIP mutex is
\* free, or never again (Blocked): no other task is suspended while it holds it.
Deliver ==
    /\ Running("deliver")
    /\ \/ got = <<>> /\ EndB(1) /\ UNCHANGED delivered
       \/ /\ got # <<>> /\ Kind(Head(got)) = "empty"
          /\ got' = Tail(got)
          /\ UNCHANGED <<pc, susp, res_b, cur, delivered>>
       \/ /\ got # <<>> /\ Kind(Head(got)) # "empty"
          /\ addr \/ Kind(Head(got)) # "name"
          /\ delivered' = Append(delivered, Head(got)) /\ got' = Tail(got)
          /\ UNCHANGED <<pc, susp, res_b, cur>>
       \/ /\ got # <<>> /\ Kind(Head(got)) # "empty"
          /\ Refused /\ UNCHANGED delivered
    /\ UNCHANGED <<mode, res_f, batch, size, appVars, terminated, sockVars, wire, torn,
                   garbled, late>>

-----------------------------------------------------------------------------
(* The splicer's loop and the end *)

\* Mutant: the task sleeps although a direction moved something.
ProgressForwardOnly == res_f > 0

Progress == res_f > 0 \/ res_b > 0

\* The end of the loop body: yield, sleep, or leave when both directions failed.
Choose ==
    /\ Running("choose")
    /\ IF Progress
       THEN IF CtlGone THEN Goto("end") /\ terminated' = TRUE
            ELSE pc' = "f" /\ susp' = "ready" /\ UNCHANGED terminated
       ELSE IF res_f = 0 \/ res_b = 0 THEN pc' = "f" /\ Wait
       ELSE Goto("end") /\ UNCHANGED terminated
    /\ UNCHANGED <<mode, taskVars, appVars, sockVars, histVars>>

SplicerGivesUp ==
    /\ GaveUp("f") /\ Goto("end")
    /\ UNCHANGED <<mode, taskVars, appVars, terminated, sockVars, histVars>>

\* hev_socks5_session_udp_destruct: the frames are freed, the pcb is removed.
Destruct ==
    /\ Running("end") /\ Goto("done")
    /\ frames' = <<>>
    /\ UNCHANGED <<mode, taskVars, addr, sent, acc, terminated, sockVars, histVars>>

\* hev_task_mutex_lock of a delivery or of the destructor, which has freed the
\* frames, never returns: the input task holds the mutex for ever (SessionTasks).
Blocked ==
    /\ \/ /\ Running("deliver") /\ got # <<>> /\ Kind(Head(got)) # "empty"
          /\ addr \/ Kind(Head(got)) # "name"
          /\ UNCHANGED frames
       \/ Running("end") /\ frames' = <<>>
    /\ Goto("locking")
    /\ UNCHANGED <<mode, taskVars, addr, sent, acc, terminated, sockVars, histVars>>

-----------------------------------------------------------------------------
(* Callbacks and other tasks *)

Wakeup == susp' = (IF susp = "wait" THEN "woken" ELSE susp) /\ UNCHANGED pc

PoolFull == Len(frames) > UDP_POOL_SIZE

\* udp_recv_handler: the datagram is queued, or dropped for lack of room or memory.
UdpRecv(named) ==
    /\ Suspended
    /\ sent' = sent + 1
    /\ \/ /\ ~PoolFull
          /\ acc' = acc + 1 /\ frames' = Append(frames, acc + 1)
          /\ addr' = (addr \/ named)
          /\ late' = (late \/ pc \in {"rest", "body"})
          /\ Wakeup
       \/ UNCHANGED <<acc, frames, addr, late, pc, susp>>
    /\ UNCHANGED <<mode, taskVars, terminated, sockVars, wire, delivered, torn, garbled>>

\* hev_socks5_session_terminate.
Terminate ==
    /\ Suspended /\ ~terminated
    /\ terminated' = TRUE
    /\ Wakeup
    /\ UNCHANGED <<mode, taskVars, appVars, sockVars, histVars>>

-----------------------------------------------------------------------------
(* External: the sockets *)

Alive == pc \notin {"done", "crashed", "locking"}

\* The sockets change when the task is suspended or about to call the kernel: at
\* its other steps it does not look at them, and the change may as well come next.
KernelTurn ==
    \/ Suspended
    \/ susp = "run" /\ pc \in {"send", "recv", "head", "rest", "body"}
    \/ susp = "run" /\ pc = "choose" /\ mode = "udp"

\* A piece of a datagram arrives, of a new datagram if the last one is complete.
SrvSend(kind) ==
    /\ KernelTurn /\ ~eof /\ ~sockErr
    /\ arr' = IF fed = Len(arr) * InUnits THEN Append(arr, kind) ELSE arr
    /\ fed' = fed + 1 /\ edge' = TRUE
    /\ inq' = Append(inq, <<Len(arr'), fed + 1 - (Len(arr') - 1) * InUnits>>)
    /\ UNCHANGED <<mode, pc, susp, taskVars, appVars, terminated, noSpace, room, eof,
                   sockErr, ctl, histVars>>

\* A FIN, the end of the TCP connection, or an error: a reset, which discards what
\* was not read, or an ICMP error, which one call on the UDP socket reports.
\* Bound: one of them at a time.
SrvClose ==
    /\ KernelTurn /\ ~eof /\ ctl /\ ~sockErr
    /\ \/ mode = "tcp" /\ eof' = TRUE /\ UNCHANGED <<ctl, sockErr, inq, fed>>
       \/ mode = "udp" /\ ctl' = FALSE /\ UNCHANGED <<eof, sockErr, inq, fed>>
       \/ /\ sockErr' = TRUE
          /\ IF mode = "tcp" THEN inq' = <<>> /\ fed' = fed - Len(inq)
             ELSE UNCHANGED <<inq, fed>>
          /\ UNCHANGED <<eof, ctl>>
    /\ edge' = TRUE
    /\ UNCHANGED <<mode, pc, susp, taskVars, appVars, terminated, noSpace, room, arr,
                   histVars>>

\* The send buffer drains; writability is reported if a send had met EAGAIN.
SrvRead ==
    /\ KernelTurn /\ room < OutCap
    /\ room' = room + 1
    /\ edge' = (edge \/ noSpace) /\ noSpace' = FALSE
    /\ UNCHANGED <<mode, pc, susp, taskVars, appVars, terminated, inq, eof, sockErr, ctl,
                   arr, fed, histVars>>

\* hev_task_system_io_poll reports the event of either socket.
IoPoll ==
    /\ edge /\ Suspended
    /\ edge' = FALSE
    /\ Wakeup
    /\ UNCHANGED <<mode, taskVars, appVars, terminated, noSpace, room, inq, eof, sockErr,
                   ctl, arr, fed, histVars>>

-----------------------------------------------------------------------------
Task ==
    \/ Connect
    \/ FwdF \/ Send \/ SendGivesUp
    \/ RecvUdp \/ ReadHead \/ ReadOn \/ ReadGivesUp \/ Deliver
    \/ Choose \/ SplicerGivesUp \/ Destruct \/ Blocked

Next ==
    \/ Task \/ Timeout
    \/ (\E named \in BOOLEAN : UdpRecv(named)) \/ Terminate
    \/ (\E kind \in Kinds : SrvSend(kind)) \/ SrvClose \/ SrvRead
    \/ IoPoll

Spec == Init /\ [][Next]_vars

\* The scheduler runs every ready task and polls; peers owe nothing.
Fairness == WF_vars(Task) /\ WF_vars(IoPoll)

FairSpec == Spec /\ Fairness

-----------------------------------------------------------------------------
(* Properties *)

Increasing(ids) == \A i, j \in DOMAIN ids : i < j => ids[i] < ids[j]
NonEmpty(ids) == {i \in ids : Kind(i) # "empty"}

(****************************************************************************)
(* Towards the server: what was written and what is still queued are         *)
(* together exactly the accepted datagrams, in order, although datagrams are *)
(* queued while a batch is being sent and a batch may be sent in part. Only  *)
(* UDP_IN_TCP may break it, when it gives up inside a batch and takes it for *)
(* sent; the order is kept even then. The queue holds one more than the pool.*)
(****************************************************************************)
SentInOrder ==
    /\ Len(frames) <= UDP_POOL_SIZE + 1
    /\ torn => mode = "tcp"
    /\ ~torn /\ pc \notin {"done", "locking"} =>
          wire \o Drop(Pieces(frames), size) = Pieces(Upto(acc))
    /\ \A i, j \in DOMAIN wire : i < j => wire[i][1] <= wire[j][1]

(****************************************************************************)
(* Towards the application: datagrams come in order, none twice, and while   *)
(* the direction lives every datagram read from the socket has been given to *)
(* lwIP or is in the batch at hand, the empty ones apart, unless the stream  *)
(* is out of step.                                                           *)
(****************************************************************************)
DeliveredInOrder ==
    ~garbled =>
        /\ Increasing(delivered)
        /\ res_b >= 0 /\ Alive =>
              /\ Increasing(delivered \o got)
              /\ ToSet(delivered) \cup NonEmpty(ToSet(got))
                    = NonEmpty(1..((fed - Len(inq)) \div InUnits))

(****************************************************************************)
(* No lost wake-up: a task that sleeps with no event under way has nothing   *)
(* it could do, in the splicer, inside a send and inside a frame. Two cases  *)
(* are left out, in which the code does lose one: a datagram queued while    *)
(* UDP_IN_TCP waits inside a frame that then fails is seen at the next event *)
(* only, since res_f is older; and so is what was received behind a failure  *)
(* that left EAGAIN, which also puts the stream out of step.                 *)
(****************************************************************************)
NoLostWakeup ==
    susp = "wait" /\ ~edge =>
        /\ ~terminated /\ ~CtlGone
        /\ pc = "f" =>    /\ res_f < 0 \/ frames = <<>> \/ late
                          /\ \/ res_b < 0 \/ garbled
                             \/ inq = <<>> /\ ~eof /\ ~sockErr
        /\ pc = "send" => room = 0 /\ ~sockErr
        /\ pc \in {"rest", "body"} => inq = <<>> /\ ~eof /\ ~sockErr

\* A piece goes to the kernel or is taken from it.
Moves == Len(wire') > Len(wire) \/ Len(inq') < Len(inq)

(****************************************************************************)
(* The session ends after terminate, and after the server closed the TCP     *)
(* connection a UDP_IN_UDP session hangs on, also from inside a blocked send *)
(* or a frame that never becomes complete. Two cases are excepted. A session *)
(* that moves datagrams in every round only yields, and never looks at its   *)
(* timeout: it goes on for as long as there are datagrams. And the lwIP      *)
(* mutex may never be released again.                                        *)
(****************************************************************************)
TerminateEnds ==
    \/ (terminated \/ CtlGone) ~> ~Alive
    \/ []<><<Moves>>_vars

=============================================================================
