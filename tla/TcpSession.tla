----------------------------- MODULE TcpSession -----------------------------
(****************************************************************************)
(* One TCP session (hev-socks5-session-tcp.c): the task that moves bytes     *)
(* between an application's lwIP connection (pcb) and the socket to the      *)
(* SOCKS server (fd), and the lwIP callbacks that other tasks run while it   *)
(* is suspended.                                                             *)
(*                                                                           *)
(* Tasks are cooperative: callbacks run only while the session task is       *)
(* suspended. The kernel and the peers act at any time. The socket is        *)
(* registered edge triggered, so an event is reported once: a task that goes *)
(* to sleep with work left and no event to come sleeps until its timeout.    *)
(*                                                                           *)
(* The buffer between the two is the one of RingBuffer, whose variables and  *)
(* operations this module extends: Spec is the ring buffer's specification,  *)
(* SessionSpec the session's.                                                *)
(****************************************************************************)
EXTENDS RingBuffer

CONSTANTS
    Window,                 \* lwIP's receive window (TCP_WND)
    OutCap                  \* send buffer of the socket to the server

ASSUME TcpSessionAssumption ==
    /\ Window \in Nat /\ OutCap \in Nat \ {0}

VARIABLES
    pc, res_f, res_b,   \* the task: control state and the splicer's locals
    queue,              \* bytes in the pbuf chain
    pcb,                \* is self->pcb non-null?
    pcb_eof,
    terminated,         \* timeout = 0, which hev_socks5_set_timeout keeps
    edge,               \* an event of the socket epoll has not reported yet
    noSpace,            \* a writev ended with EAGAIN; the kernel remembers it
    outFree, inQ,       \* free send buffer, received bytes of the socket
    srvFin, sockErr,    \* the server's FIN arrived; the connection was reset
    inLwip,             \* bytes tcp_write accepted
    shut, finSent,      \* history: shutdown (SHUT_WR), tcp_shutdown done
    gaveUp              \* history: timeout, failed connect or tcp_write

ringVars == vars
taskVars == <<pc, res_f, res_b>>
appVars == <<queue, pcb, pcb_eof, inLwip>>
sockVars == <<edge, noSpace, outFree, inQ, srvFin, sockErr>>
histVars == <<shut, finSent, gaveUp>>
sessionVars == <<ringVars, taskVars, appVars, terminated, sockVars, histVars>>

Suspended == {"connect", "yield", "wait", "woken", "drain_wait", "drain_woken"}

\* The task does nothing any more; what happens to its socket does not matter.
Over == {"done", "locking"}

SessionInit ==
    /\ Init
    /\ pc = "connect" /\ res_f = 1 /\ res_b = 1
    /\ queue = 0 /\ pcb = TRUE /\ pcb_eof = FALSE /\ inLwip = 0
    /\ terminated = FALSE
    /\ edge = FALSE /\ noSpace = FALSE
    /\ outFree = OutCap /\ inQ = 0 /\ srvFin = FALSE /\ sockErr = FALSE
    /\ shut = FALSE /\ finSent = FALSE /\ gaveUp = FALSE

Goto(to) == pc' = to

-----------------------------------------------------------------------------
(* The session task *)

\* hev_socks5_session_run up to the splicer: the handshake fails, or succeeds
\* with the application's connection still there.
Connect ==
    /\ pc = "connect"
    /\ \/ pcb /\ Goto("f") /\ UNCHANGED gaveUp
       \/ Goto("end") /\ gaveUp' = TRUE
    /\ UNCHANGED <<ringVars, res_f, res_b, appVars, terminated, sockVars, shut, finSent>>

\* pbuf_free_header: the s bytes that were written leave the queue.
PbufFreeHeader(s) == queue - s

\* writev of the queue; what was written is freed under the mutex.
WriteSocket ==
    /\ queue > 0
    /\ \/ \E s \in 1..queue :
             /\ ~sockErr /\ s <= outFree
             /\ queue' = PbufFreeHeader(s) /\ outFree' = outFree - s
             /\ res_f' = 1
             /\ UNCHANGED noSpace
       \/ /\ ~sockErr /\ outFree = 0
          /\ res_f' = 0
          /\ noSpace' = TRUE
          /\ UNCHANGED <<queue, outFree>>
       \/ /\ sockErr
          /\ res_f' = -1
          /\ UNCHANGED <<queue, outFree, noSpace>>
    /\ UNCHANGED shut

\* Mutant: the end of the application's stream is passed on although bytes
\* are still queued.
SpliceFEofFirst ==
    /\ pc = "f"
    /\ IF res_f < 0 THEN UNCHANGED <<res_f, queue, outFree, noSpace, shut>>
       ELSE IF pcb_eof THEN /\ res_f' = -1 /\ shut' = TRUE
                            /\ UNCHANGED <<queue, outFree, noSpace>>
       ELSE IF queue > 0 THEN WriteSocket
       ELSE res_f' = 0 /\ UNCHANGED <<queue, outFree, noSpace, shut>>
    /\ Goto("b_read")
    /\ UNCHANGED <<ringVars, res_b, pcb, pcb_eof, inLwip, terminated, edge, inQ,
                   srvFin, sockErr, finSent, gaveUp>>

\* tcp_splice_f, unless it has already failed.
SpliceF ==
    /\ pc = "f"
    /\ IF res_f < 0 THEN UNCHANGED <<res_f, queue, outFree, noSpace, shut>>
       ELSE \/ WriteSocket
            \/ /\ queue = 0
               /\ res_f' = IF pcb_eof THEN -1 ELSE 0
               /\ shut' = (shut \/ pcb_eof)
               /\ UNCHANGED <<queue, outFree, noSpace>>
    /\ Goto("b_read")
    /\ UNCHANGED <<ringVars, res_b, pcb, pcb_eof, inLwip, terminated, edge, inQ,
                   srvFin, sockErr, finSent, gaveUp>>

\* tcp_splice_b, first part: readv into the buffer.
SpliceBRead ==
    /\ pc = "b_read"
    /\ IF res_b < 0
       THEN Goto("choose") /\ UNCHANGED <<ringVars, res_b, inQ>>
       ELSE /\ Goto("b_write")
            /\ \/ \E s \in 1..inQ :
                     /\ s <= Size(Writing)
                     /\ Readv(s) /\ WriteFinish(s)
                     /\ UNCHANGED lent
                     /\ inQ' = inQ - s
                     /\ res_b' = 1
               \/ /\ use_size < max_size /\ inQ = 0
                  /\ res_b' = IF srvFin \/ sockErr THEN -1 ELSE 0
                  /\ UNCHANGED <<ringVars, inQ>>
               \/ /\ use_size = max_size
                  /\ res_b' = 0
                  /\ UNCHANGED <<ringVars, inQ>>
    /\ UNCHANGED <<res_f, appVars, terminated, edge, noSpace, outFree, srvFin, sockErr,
                   histVars>>

\* Mutant: only the first piece is counted.
TcpWriteFirstPiece == Reading[1].len

\* The loop over the pieces adds up what was given to tcp_write.
TcpWriteSum == Size(Reading)

\* What lwIP may have accepted when a tcp_write or tcp_output has failed: any of
\* the pieces, for a refusal does not end the loop.
SomePieces == {0, Size(Reading)} \cup {Reading[i].len : i \in DOMAIN Reading}

\* tcp_splice_b, second part, under the mutex: everything readable is given to
\* tcp_write, or the end of the stream is passed on.
SpliceBWrite ==
    /\ pc = "b_write"
    /\ Goto("choose")
    /\ \/ /\ pcb /\ rda_size > 0
          /\ TcpWrite(TcpWriteSum) /\ ReadFinish(TcpWriteSum)
          /\ UNCHANGED data
          /\ \/ res_b' = 1 /\ inLwip' = inLwip + rda_size /\ UNCHANGED gaveUp
             \/ /\ res_b' = -1 /\ gaveUp' = TRUE
                /\ inLwip' \in {inLwip + n : n \in SomePieces}
          /\ UNCHANGED finSent
       \/ /\ pcb /\ rda_size = 0
          /\ finSent' = (finSent \/ res_b < 0)
          /\ UNCHANGED <<ringVars, res_b, inLwip, gaveUp>>
       \/ /\ ~pcb
          /\ res_b' = -1
          /\ UNCHANGED <<ringVars, inLwip, finSent, gaveUp>>
    /\ UNCHANGED <<res_f, queue, pcb, pcb_eof, terminated, sockVars, shut>>

\* Mutant: the timeout of zero set by terminate is not looked at.
ChooseIgnoresTerminate ==
    /\ pc = "choose"
    /\ Goto(IF res_f > 0 \/ res_b > 0 THEN "yield"
            ELSE IF res_f = 0 \/ res_b = 0 THEN "wait" ELSE "drain")
    /\ UNCHANGED <<ringVars, res_f, res_b, appVars, terminated, sockVars, histVars>>

\* The end of the loop body: yield, or sleep (not at all once terminated), or
\* leave the loop when both directions are finished.
Choose ==
    /\ pc = "choose"
    /\ Goto(IF res_f > 0 \/ res_b > 0 THEN "yield"
            ELSE IF (res_f = 0 \/ res_b = 0) /\ ~terminated THEN "wait"
            ELSE "drain")
    /\ UNCHANGED <<ringVars, res_f, res_b, appVars, terminated, sockVars, histVars>>

\* Mutant: the splicer returns without waiting for acknowledgements.
DrainNot ==
    /\ pc = "drain"
    /\ Goto("end")
    /\ UNCHANGED <<ringVars, res_f, res_b, appVars, terminated, sockVars, histVars>>

\* The second loop: wait until the application has acknowledged everything.
Drain ==
    /\ pc = "drain"
    /\ Goto(IF pcb /\ use_size > 0 /\ ~terminated THEN "drain_wait" ELSE "end")
    /\ UNCHANGED <<ringVars, res_f, res_b, appVars, terminated, sockVars, histVars>>

Resume ==
    /\ \/ pc \in {"yield", "woken"} /\ Goto("f")
       \/ pc = "drain_woken" /\ Goto("drain")
    /\ UNCHANGED <<ringVars, res_f, res_b, appVars, terminated, sockVars, histVars>>

\* hev_task_sleep returns 0, perhaps after something else woke the task too.
Timeout ==
    /\ \/ pc \in {"wait", "woken"} /\ Goto("drain")
       \/ pc \in {"drain_wait", "drain_woken"} /\ Goto("end")
    /\ gaveUp' = TRUE
    /\ UNCHANGED <<ringVars, res_f, res_b, appVars, terminated, sockVars, shut, finSent>>

\* hev_socks5_session_tcp_destruct: the callbacks are removed, the connection
\* is aborted, the queue is freed.
Destruct ==
    /\ pc = "end" /\ Goto("done")
    /\ pcb' = FALSE /\ queue' = 0
    /\ UNCHANGED <<ringVars, res_f, res_b, pcb_eof, inLwip, terminated, sockVars,
                   histVars>>

\* hev_task_mutex_lock, of tcp_splice_f after the writev, of tcp_splice_b or of
\* the destructor, never returns: the input task holds the mutex for ever
\* (SessionTasks).
Blocked ==
    /\ \/ /\ pc = "f" /\ res_f >= 0 /\ ~sockErr
          /\ \E s \in 1..queue : s <= outFree /\ outFree' = outFree - s
       \/ pc \in {"b_write", "end"} /\ UNCHANGED outFree
    /\ Goto("locking")
    /\ UNCHANGED <<ringVars, res_f, res_b, appVars, terminated, edge, noSpace, inQ, srvFin,
                   sockErr, histVars>>

-----------------------------------------------------------------------------
(* lwIP callbacks and other tasks, while the session task is suspended *)

Wakeup ==
    pc' = CASE pc = "wait" -> "woken" [] pc = "drain_wait" -> "drain_woken" [] OTHER -> pc

\* The application may fill the window for ever.
TcpRecv(n) ==
    /\ pc \in Suspended /\ pcb /\ ~pcb_eof
    /\ queue + n <= Window
    /\ queue' = queue + n
    /\ Wakeup
    /\ UNCHANGED <<ringVars, res_f, res_b, pcb, pcb_eof, inLwip, terminated, sockVars,
                   histVars>>

\* The application's FIN: tcp_recv_handler with a null pbuf.
TcpRecvFin ==
    /\ pc \in Suspended /\ pcb /\ ~pcb_eof
    /\ pcb_eof' = TRUE
    /\ Wakeup
    /\ UNCHANGED <<ringVars, res_f, res_b, queue, pcb, inLwip, terminated, sockVars,
                   histVars>>

\* Mutant: acknowledgements do not wake the task.
TcpSentNoWakeup(n) ==
    /\ pc \in Suspended /\ pcb
    /\ n <= inLwip - acked
    /\ ReadRelease(n) /\ UNCHANGED <<data, lent>>
    /\ UNCHANGED <<taskVars, appVars, terminated, sockVars, histVars>>

TcpSent(n) ==
    /\ pc \in Suspended /\ pcb
    /\ n <= inLwip - acked
    /\ ReadRelease(n) /\ UNCHANGED <<data, lent>>
    /\ Wakeup
    /\ UNCHANGED <<res_f, res_b, appVars, terminated, sockVars, histVars>>

\* tcp_err_handler: lwIP has freed the connection (a reset, or both ends closed).
TcpErr ==
    /\ pc \in Suspended /\ pcb
    /\ pcb' = FALSE /\ terminated' = TRUE
    /\ Wakeup
    /\ UNCHANGED <<ringVars, res_f, res_b, queue, pcb_eof, inLwip, sockVars,
                   histVars>>

\* hev_socks5_session_terminate by the event task or the session limit.
Terminate ==
    /\ pc \in Suspended /\ ~terminated
    /\ terminated' = TRUE
    /\ Wakeup
    /\ UNCHANGED <<ringVars, res_f, res_b, appVars, sockVars, histVars>>

-----------------------------------------------------------------------------
(* External: the socket to the server *)

SrvSend(n) ==
    /\ ~srvFin /\ ~sockErr /\ pc \notin Over
    /\ put + inQ + n <= StreamLen
    /\ inQ' = inQ + n /\ edge' = TRUE
    /\ UNCHANGED <<ringVars, taskVars, appVars, terminated, noSpace, outFree, srvFin,
                   sockErr, histVars>>

SrvClose ==
    /\ ~srvFin /\ ~sockErr /\ pc \notin Over
    /\ srvFin' = TRUE /\ edge' = TRUE
    /\ UNCHANGED <<ringVars, taskVars, appVars, terminated, noSpace, outFree, inQ,
                   sockErr, histVars>>

\* A reset discards what was received and not read.
SrvReset ==
    /\ ~sockErr /\ pc \notin Over
    /\ sockErr' = TRUE /\ inQ' = 0 /\ edge' = TRUE
    /\ UNCHANGED <<ringVars, taskVars, appVars, terminated, noSpace, outFree, srvFin,
                   histVars>>

\* The server reads: writability is reported if a write had failed for space.
SrvRead(n) ==
    /\ ~sockErr /\ pc \notin Over /\ outFree + n <= OutCap
    /\ outFree' = outFree + n
    /\ edge' = (edge \/ noSpace) /\ noSpace' = FALSE
    /\ UNCHANGED <<ringVars, taskVars, appVars, terminated, inQ, srvFin, sockErr, histVars>>

\* hev_task_system_io_poll reports the event.
IoPoll ==
    /\ edge /\ pc \in Suspended
    /\ edge' = FALSE
    /\ Wakeup
    /\ UNCHANGED <<ringVars, res_f, res_b, appVars, terminated, noSpace, outFree, inQ,
                   srvFin, sockErr, histVars>>

-----------------------------------------------------------------------------
Task ==
    \/ Connect
    \/ SpliceF
    \/ SpliceBRead
    \/ SpliceBWrite
    \/ Choose
    \/ Drain
    \/ Resume
    \/ Destruct
    \/ Blocked

Callback ==
    \/ \E n \in 1..Window : TcpRecv(n)
    \/ TcpRecvFin
    \/ \E n \in 1..max_size : TcpSent(n)
    \/ TcpErr
    \/ Terminate

Socket ==
    \/ \E n \in 1..StreamLen : SrvSend(n)
    \/ SrvClose
    \/ SrvReset
    \/ \E n \in 1..OutCap : SrvRead(n)

SessionNext == Task \/ Timeout \/ Callback \/ Socket \/ IoPoll

SessionSpec == SessionInit /\ [][SessionNext]_sessionVars

\* The scheduler runs every ready task. Peers owe nothing; a session that is
\* asleep is woken by terminate itself.
FairSpec == SessionSpec /\ WF_sessionVars(Task)

-----------------------------------------------------------------------------
(* Properties *)

(****************************************************************************)
(* No lost wake-up: when the task sleeps in the splicer and no event is on   *)
(* its way, there is nothing it could do. In particular bytes that arrived   *)
(* while the buffer was full are picked up by the wake-up of tcp_sent, the   *)
(* only one there will be.                                                   *)
(****************************************************************************)
NoLostWakeup ==
    /\ pc = "wait" /\ ~edge =>
         /\ ~terminated /\ rda_size = 0
         /\ res_f = 0 => IF queue > 0 THEN outFree = 0 /\ ~sockErr ELSE ~pcb_eof
         /\ res_b = 0 => \/ use_size = max_size
                         \/ inQ = 0 /\ ~srvFin /\ ~sockErr
    /\ pc = "drain_wait" => pcb /\ use_size > 0 /\ ~terminated

(****************************************************************************)
(* Half close: SHUT_WR goes to the server only after everything the          *)
(* application sent, and the FIN to the application only after everything    *)
(* the server sent has been handed to lwIP.                                  *)
(****************************************************************************)
HalfClose ==
    /\ shut => pcb_eof /\ queue = 0
    /\ finSent => /\ srvFin \/ sockErr
                  /\ inQ = 0 /\ taken = put

(****************************************************************************)
(* A session that ends without a timeout, a failure, a reset or terminate    *)
(* ends because both streams ended, with every byte delivered and, towards   *)
(* the application, acknowledged: only then may the splicer's frame, in      *)
(* which the buffer lives, go away without harm.                             *)
(****************************************************************************)
OrderlyEnd ==
    pc = "end" /\ ~gaveUp /\ ~terminated /\ ~sockErr =>
        /\ shut /\ finSent
        /\ queue = 0 /\ inQ = 0
        /\ acked = put

\* A byte moves on: to the server, into the buffer, or from it to lwIP.
Progress == queue' < queue \/ put' > put \/ taken' > taken

(****************************************************************************)
(* terminate ends the session at every point: hev_socks5_set_timeout keeps   *)
(* the zero, so the next wait fails, also the one of the drain loop. Two     *)
(* cases are excepted. A splicer that moves bytes in every round only        *)
(* yields, and never looks at its timeout: it goes on for as long as there   *)
(* are bytes. And the lwIP mutex may never be released again.                *)
(****************************************************************************)
TerminateEnds ==
    \/ terminated ~> (pc \in Over)
    \/ []<><<Progress>>_sessionVars

(****************************************************************************)
(* The session uses the ring buffer as RingBuffer demands: it never fills    *)
(* beyond the free space, hands out all that is readable, and releases no    *)
(* more than it handed out, also when tcp_write refused a piece. What is     *)
(* proved of RingBuffer therefore holds of the buffer of a session.          *)
(****************************************************************************)
UsesRing == Spec

=============================================================================
