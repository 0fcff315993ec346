---------------------------- MODULE TunnelService ----------------------------
(****************************************************************************)
(* Start and stop of the native tunnel: the JNI entry points of hev-jni.c,   *)
(* the worker thread they create (hev-main.c) and the four-flag protocol on  *)
(* `tsync' by which hev_socks5_tunnel_stop reaches a worker that may be      *)
(* anywhere between its first and its last instruction                       *)
(* (hev-socks5-tunnel.c).                                                    *)
(*                                                                           *)
(* One action is one atomic operation on shared memory, or one call whose    *)
(* effects no other thread can see half done.                                *)
(****************************************************************************)
EXTENDS Integers, FiniteSets

CONSTANTS
    Callers,    \* Java threads that call TProxyStartService / TProxyStopService
    Quitters,   \* threads that call hev_socks5_tunnel_quit directly (hev-main.h)
    Workers,    \* identities that pthread_create may hand out
    None        \* no thread

ASSUME ThreadsAssumption ==
    /\ Callers \cap Quitters = {}
    /\ None \notin Callers \cup Quitters \cup Workers

Stoppers == Callers \cup Quitters

VARIABLES
    mutex,          \* holder of the pthread mutex of hev-jni.c, or None
    is_running,     \* the atomic flag of hev-jni.c
    thread_joinable,
    work_thread,
    pc,             \* control state of every caller and quitter
    wpc,            \* control state of every worker thread
    tsync,          \* the set of SYNC_* bits that are on
    held,           \* what the worker has initialised and not yet finalised
    bytes,          \* bytes written to event_fds[1] and not yet read
    why             \* history: what happened since this worker was created

vars == <<mutex, is_running, thread_joinable, work_thread, pc, wpc, tsync,
          held, bytes, why>>

Flags == {"SEND", "SENT", "WAIT", "STOP"}

(****************************************************************************)
(* The steps of hev_socks5_tunnel_main_inner and hev_socks5_tunnel_init that *)
(* acquire something, in program order, and where control goes after each.   *)
(****************************************************************************)
MainParts == {"logger", "socks5_logger", "task_system"}
TunnelParts == {"tunnel", "gateway", "event", "lwip_io", "lwip_timer",
                "mapped_dns"}
Parts == MainParts \cup TunnelParts

After(part) ==
    CASE part = "logger"        -> "socks5_logger"
      [] part = "socks5_logger" -> "task_system"
      [] part = "task_system"   -> "tunnel"
      [] part = "tunnel"        -> "gateway"
      [] part = "gateway"       -> "event"
      [] part = "event"         -> "lwip_io"
      [] part = "lwip_io"       -> "lwip_timer"
      [] part = "lwip_timer"    -> "mapped_dns"
      [] OTHER                  -> "open"

\* The goto label a failure of the part leads to.
OnError(part) ==
    CASE part = "logger"        -> "exit"
      [] part = "socks5_logger" -> "free_logger"
      [] part = "task_system"   -> "free_socks5_logger"
      [] OTHER                  -> "fini"

CallerStates == {"idle", "start", "start_join", "start_alloc", "start_create",
                 "stop", "stop_join"}
QuitStates == {"q_wait", "q_sent", "q_write", "q_stop", "q_release"}
WorkerStates == {"none", "config", "open", "run", "loop", "event_read",
                 "drain", "hung", "fini", "close", "free_task_sys",
                 "free_socks5_logger", "free_logger", "exit", "exited"} \cup Parts

TypeOK ==
    /\ mutex \in Callers \cup {None}
    /\ is_running \in BOOLEAN
    /\ thread_joinable \in BOOLEAN
    /\ work_thread \in Workers \cup {None}
    /\ pc \in [Stoppers -> CallerStates \cup QuitStates]
    /\ wpc \in [Workers -> WorkerStates]
    /\ tsync \in SUBSET Flags
    /\ held \in SUBSET Parts
    /\ bytes \in Nat
    /\ why \in SUBSET {"quit", "error", "stale"}

Init ==
    /\ mutex = None
    /\ is_running = FALSE
    /\ thread_joinable = FALSE
    /\ work_thread = None
    /\ pc = [p \in Stoppers |-> "idle"]
    /\ wpc = [w \in Workers |-> "none"]
    /\ tsync = {}
    /\ held = {}
    /\ bytes = 0
    /\ why = {}

Goto(p, to) == pc' = [pc EXCEPT ![p] = to]
WGoto(w, to) == wpc' = [wpc EXCEPT ![w] = to]
Return(c) == mutex' = None /\ Goto(c, "idle")

-----------------------------------------------------------------------------
(* native_start_service *)

StartLock(c) ==
    /\ pc[c] = "idle" /\ mutex = None
    /\ mutex' = c
    /\ Goto(c, "start")
    /\ UNCHANGED <<is_running, thread_joinable, work_thread, wpc, tsync, held,
                   bytes, why>>

\* Mutant: a finished worker is not joined before the next one is created.
StartCheckNoJoin(c) ==
    /\ pc[c] = "start"
    /\ IF is_running THEN Return(c)
       ELSE Goto(c, "start_alloc") /\ UNCHANGED mutex
    /\ UNCHANGED <<is_running, thread_joinable, work_thread, wpc, tsync, held,
                   bytes, why>>

\* Already running: return JNI_FALSE; else a finished worker is joined first.
StartCheck(c) ==
    /\ pc[c] = "start"
    /\ IF is_running
       THEN Return(c)
       ELSE /\ Goto(c, IF thread_joinable THEN "start_join" ELSE "start_alloc")
            /\ UNCHANGED mutex
    /\ UNCHANGED <<is_running, thread_joinable, work_thread, wpc, tsync, held,
                   bytes, why>>

StartJoin(c) ==
    /\ pc[c] = "start_join"
    /\ wpc[work_thread] = "exited"
    /\ WGoto(work_thread, "none")
    /\ thread_joinable' = FALSE
    /\ work_thread' = None
    /\ Goto(c, "start_alloc")
    /\ UNCHANGED <<mutex, is_running, tsync, held, bytes, why>>

\* malloc, GetStringUTFChars and strdup may each fail.
StartAlloc(c) ==
    /\ pc[c] = "start_alloc"
    /\ \/ /\ Return(c)
          /\ UNCHANGED is_running
       \/ /\ is_running' = TRUE
          /\ Goto(c, "start_create")
          /\ UNCHANGED mutex
    /\ UNCHANGED <<thread_joinable, work_thread, wpc, tsync, held, bytes, why>>

StartCreate(c, w) ==
    /\ pc[c] = "start_create"
    /\ wpc[w] = "none"
    /\ WGoto(w, "config")
    /\ work_thread' = w
    /\ thread_joinable' = TRUE
    /\ why' = IF "STOP" \in tsync THEN {"stale"} ELSE {}
    /\ Return(c)
    /\ UNCHANGED <<is_running, tsync, held, bytes>>

\* Mutant: is_running stays on after pthread_create failed.
StartCreateFailsNoReset(c) ==
    /\ pc[c] = "start_create"
    /\ Return(c)
    /\ UNCHANGED <<is_running, thread_joinable, work_thread, wpc, tsync, held,
                   bytes, why>>

StartCreateFails(c) ==
    /\ pc[c] = "start_create"
    /\ is_running' = FALSE
    /\ Return(c)
    /\ UNCHANGED <<thread_joinable, work_thread, wpc, tsync, held, bytes, why>>

-----------------------------------------------------------------------------
(* native_stop_service *)

StopLock(c) ==
    /\ pc[c] = "idle" /\ mutex = None
    /\ mutex' = c
    /\ Goto(c, "stop")
    /\ UNCHANGED <<is_running, thread_joinable, work_thread, wpc, tsync, held,
                   bytes, why>>

StopCheck(c) ==
    /\ pc[c] = "stop"
    /\ IF ~thread_joinable
       THEN Return(c)
       ELSE /\ Goto(c, IF is_running THEN "q_wait" ELSE "stop_join")
            /\ UNCHANGED mutex
    /\ UNCHANGED <<is_running, thread_joinable, work_thread, wpc, tsync, held,
                   bytes, why>>

StopJoin(c) ==
    /\ pc[c] = "stop_join"
    /\ wpc[work_thread] = "exited"
    /\ WGoto(work_thread, "none")
    /\ thread_joinable' = FALSE
    /\ work_thread' = None
    /\ is_running' = FALSE
    /\ Return(c)
    /\ UNCHANGED <<tsync, held, bytes, why>>

-----------------------------------------------------------------------------
(* hev_socks5_tunnel_stop, by p; a caller goes on to join, a quitter returns *)

Quit(q) ==
    /\ q \in Quitters
    /\ pc[q] = "idle"
    /\ Goto(q, "q_wait")
    /\ UNCHANGED <<mutex, is_running, thread_joinable, work_thread, wpc, tsync,
                   held, bytes, why>>

\* fetch_or (WAIT); the spin on a WAIT set by another stopper is stuttering.
\* Whether SEND was on is decided by this very read.
SetWait(p) ==
    /\ pc[p] = "q_wait"
    /\ "WAIT" \notin tsync
    /\ tsync' = tsync \cup {"WAIT"}
    /\ why' = why \cup {"quit"}
    /\ Goto(p, IF "SEND" \in tsync THEN "q_sent" ELSE "q_stop")
    /\ UNCHANGED <<mutex, is_running, thread_joinable, work_thread, wpc, held,
                   bytes>>

SetSent(p) ==
    /\ pc[p] = "q_sent"
    /\ tsync' = tsync \cup {"SENT"}
    /\ Goto(p, IF "SENT" \in tsync THEN "q_release" ELSE "q_write")
    /\ UNCHANGED <<mutex, is_running, thread_joinable, work_thread, wpc, held,
                   bytes, why>>

\* write (event_fds[1], &res, 1)
WriteEvent(p) ==
    /\ pc[p] = "q_write"
    /\ bytes' = bytes + 1
    /\ Goto(p, "q_release")
    /\ UNCHANGED <<mutex, is_running, thread_joinable, work_thread, wpc, tsync,
                   held, why>>

SetStop(p) ==
    /\ pc[p] = "q_stop"
    /\ tsync' = tsync \cup {"STOP"}
    /\ Goto(p, "q_release")
    /\ why' = why \cup {"quit"}
    /\ UNCHANGED <<mutex, is_running, thread_joinable, work_thread, wpc, held,
                   bytes>>

ClearWait(p) ==
    /\ pc[p] = "q_release"
    /\ tsync' = tsync \ {"WAIT"}
    /\ Goto(p, IF p \in Callers THEN "stop_join" ELSE "idle")
    /\ UNCHANGED <<mutex, is_running, thread_joinable, work_thread, wpc, held,
                   bytes, why>>

-----------------------------------------------------------------------------
(* thread_handler, hev_socks5_tunnel_main and what it calls, by worker w *)

\* hev_config_init_from_file: on error main returns -1 at once.
ReadConfig(w) ==
    /\ wpc[w] = "config"
    /\ \/ WGoto(w, "logger") /\ UNCHANGED why
       \/ WGoto(w, "exit") /\ why' = why \cup {"error"}
    /\ UNCHANGED <<mutex, is_running, thread_joinable, work_thread, pc, tsync,
                   held, bytes>>

\* One *_init step of main_inner or of hev_socks5_tunnel_init. A tunnel part
\* may fail half way (socketpair done, ioctl or hev_task_new not).
InitPart(w, part) ==
    /\ wpc[w] = part
    /\ \/ /\ held' = held \cup {part}
          /\ WGoto(w, After(part))
          /\ UNCHANGED why
       \/ /\ held' \in {held} \cup {held \cup {part} : x \in {part} \cap TunnelParts}
          /\ WGoto(w, OnError(part))
          /\ why' = why \cup {"error"}
    /\ UNCHANGED <<mutex, is_running, thread_joinable, work_thread, pc, tsync,
                   bytes>>

\* The end of hev_socks5_tunnel_init.
SetSend(w) ==
    /\ wpc[w] = "open"
    /\ tsync' = tsync \cup {"SEND"}
    /\ WGoto(w, "run")
    /\ UNCHANGED <<mutex, is_running, thread_joinable, work_thread, pc, held,
                   bytes, why>>

\* Mutant: the test of STOP is inverted.
RunInverted(w) ==
    /\ wpc[w] = "run"
    /\ tsync' = tsync \ {"STOP"}
    /\ WGoto(w, IF "STOP" \in tsync THEN "loop" ELSE "fini")
    /\ UNCHANGED <<mutex, is_running, thread_joinable, work_thread, pc, held,
                   bytes, why>>

\* hev_socks5_tunnel_run: a STOP that came early is consumed here.
Run(w) ==
    /\ wpc[w] = "run"
    /\ tsync' = tsync \ {"STOP"}
    /\ WGoto(w, IF "STOP" \in tsync THEN "fini" ELSE "loop")
    /\ UNCHANGED <<mutex, is_running, thread_joinable, work_thread, pc, held,
                   bytes, why>>

\* event_task_entry: the read returns ...
ReadEvent(w) ==
    /\ wpc[w] = "loop"
    /\ bytes > 0
    /\ bytes' = IF bytes > 4 THEN bytes - 4 ELSE 0      \* sizeof (int)
    /\ WGoto(w, "event_read")
    /\ UNCHANGED <<mutex, is_running, thread_joinable, work_thread, pc, tsync,
                   held, why>>

\* ... run = 0, SENT is cleared and every session is told to end; then both
\* lwip tasks are joined.
ClearSent(w) ==
    /\ wpc[w] = "event_read"
    /\ tsync' = tsync \ {"SENT"}
    /\ WGoto(w, "drain")
    /\ UNCHANGED <<mutex, is_running, thread_joinable, work_thread, pc, held,
                   bytes, why>>

\* The last task leaves hev_task_system_run ...
Drained(w) ==
    /\ wpc[w] = "drain"
    /\ WGoto(w, "fini")
    /\ UNCHANGED <<mutex, is_running, thread_joinable, work_thread, pc, tsync,
                   held, bytes, why>>

\* ... or hev_task_system_run never returns: the input task locked the lwIP mutex
\* twice where accepting a session failed, or a terminated session still finds
\* data to move on every pass (SessionTasks!AcceptFails, UdpSession).
TasksHang(w) ==
    /\ wpc[w] = "drain"
    /\ WGoto(w, "hung")
    /\ UNCHANGED <<mutex, is_running, thread_joinable, work_thread, pc, tsync,
                   held, bytes, why>>

\* Mutants: fini does not wait for a stopper; fini leaves SENT on.
FiniSyncNoWait(w) ==
    /\ wpc[w] = "fini"
    /\ tsync' = tsync \ {"SEND", "SENT"}
    /\ WGoto(w, "close")
    /\ UNCHANGED <<mutex, is_running, thread_joinable, work_thread, pc, held,
                   bytes, why>>
FiniSyncKeepsSent(w) ==
    /\ wpc[w] = "fini"
    /\ tsync' = tsync \ {"SEND"}
    /\ IF "WAIT" \in tsync THEN UNCHANGED wpc ELSE WGoto(w, "close")
    /\ UNCHANGED <<mutex, is_running, thread_joinable, work_thread, pc, held,
                   bytes, why>>

\* hev_socks5_tunnel_fini: SEND and SENT go off even while it must wait.
FiniSync(w) ==
    /\ wpc[w] = "fini"
    /\ tsync' = tsync \ {"SEND", "SENT"}
    /\ IF "WAIT" \in tsync THEN UNCHANGED wpc ELSE WGoto(w, "close")
    /\ UNCHANGED <<mutex, is_running, thread_joinable, work_thread, pc, held,
                   bytes, why>>

\* mapped_dns_fini ... tunnel_fini; closing the pair drops an unread byte.
Close(w) ==
    /\ wpc[w] = "close"
    /\ held' = held \ TunnelParts
    /\ bytes' = 0
    /\ WGoto(w, "free_task_sys")
    /\ UNCHANGED <<mutex, is_running, thread_joinable, work_thread, pc, tsync,
                   why>>

\* The cleanup labels of main_inner, each falling through to the next.
Free(w, label, part, next) ==
    /\ wpc[w] = label
    /\ held' = held \ {part}
    /\ WGoto(w, next)
    /\ UNCHANGED <<mutex, is_running, thread_joinable, work_thread, pc, tsync,
                   bytes, why>>

Cleanup(w) ==
    \/ Free(w, "free_task_sys", "task_system", "free_socks5_logger")
    \/ Free(w, "free_socks5_logger", "socks5_logger", "free_logger")
    \/ Free(w, "free_logger", "logger", "exit")

\* thread_handler after main returned.
ThreadExit(w) ==
    /\ wpc[w] = "exit"
    /\ is_running' = FALSE
    /\ WGoto(w, "exited")
    /\ UNCHANGED <<mutex, thread_joinable, work_thread, pc, tsync, held, bytes,
                   why>>

-----------------------------------------------------------------------------
Call(c) ==
    \/ StartLock(c)
    \/ StopLock(c)

StartStep(c) ==
    \/ StartCheck(c)
    \/ StartJoin(c)
    \/ StartAlloc(c)
    \/ \E w \in Workers : StartCreate(c, w)
    \/ StartCreateFails(c)

StopStep(c) == StopCheck(c) \/ StopJoin(c)

QuitStep(p) ==
    \/ SetWait(p)
    \/ SetSent(p)
    \/ WriteEvent(p)
    \/ SetStop(p)
    \/ ClearWait(p)

WorkerStep(w) ==
    \/ ReadConfig(w)
    \/ \E part \in Parts : InitPart(w, part)
    \/ SetSend(w)
    \/ Run(w)
    \/ ReadEvent(w)
    \/ ClearSent(w)
    \/ Drained(w)
    \/ TasksHang(w)
    \/ FiniSync(w)
    \/ Close(w)
    \/ Cleanup(w)
    \/ ThreadExit(w)

Next ==
    \/ \E c \in Callers : Call(c) \/ StartStep(c) \/ StopStep(c)
    \/ \E q \in Quitters : Quit(q)
    \/ \E p \in Stoppers : QuitStep(p)
    \/ \E w \in Workers : WorkerStep(w)

Spec == Init /\ [][Next]_vars

(****************************************************************************)
(* Every thread that can run eventually does. Nothing obliges the            *)
(* application to call start or stop, so Call and Quit have no fairness.     *)
(****************************************************************************)
Fairness ==
    /\ \A c \in Callers : WF_vars(StartStep(c)) /\ WF_vars(StopStep(c))
    /\ \A p \in Stoppers : WF_vars(QuitStep(p))
    /\ \A w \in Workers : WF_vars(WorkerStep(w))

FairSpec == Spec /\ Fairness

-----------------------------------------------------------------------------
(* Properties *)

Live(w) == wpc[w] # "none"
InStop(p) == pc[p] \in {"q_sent", "q_write", "q_stop", "q_release"}
Busy == {p \in Stoppers : InStop(p)}

(****************************************************************************)
(* The assertion after write (event_fds[1]) in hev_socks5_tunnel_stop: a     *)
(* stopper that saw SEND writes to a socket pair that is open, however far   *)
(* the worker has got with its own shutdown in the meantime.                 *)
(****************************************************************************)
WriteHitsOpenSocket ==
    \A p \in Stoppers : pc[p] \in {"q_sent", "q_write"} => "event" \in held

(****************************************************************************)
(* The statics of hev-socks5-tunnel.c belong to one worker: pthread_create   *)
(* is never reached while an earlier worker is alive, and pthread_join is    *)
(* only called on a thread that was created and not yet joined.              *)
(****************************************************************************)
OneWorker ==
    /\ \A v, w \in Workers : Live(v) /\ Live(w) => v = w
    /\ \A c \in Callers : pc[c] \in {"start_join", "stop_join"}
                             => work_thread \in Workers /\ Live(work_thread)

(****************************************************************************)
(* Whenever the JNI lock is free and no thread is joinable (so also when     *)
(* native_stop_service has returned) nothing of the tunnel is left: no       *)
(* thread, no is_running, no descriptor, no pending event, no SEND.          *)
(****************************************************************************)
StoppedMeansGone ==
    mutex = None /\ ~thread_joinable =>
        /\ \A w \in Workers : ~Live(w)
        /\ ~is_running
        /\ held = {} /\ bytes = 0
        /\ tsync \cap {"SEND", "SENT"} = {}

Stopping(c) == mutex = c /\ pc[c] \in {"stop", "stop_join"} \cup QuitStates

\* The worker has passed hev_socks5_tunnel_run's test of STOP, and STOP is on.
StopMissed == "STOP" \in tsync /\ \E w \in Workers : wpc[w] = "loop"

\* The worker was told to stop and one of its tasks never ends.
TasksStuck == \E w \in Workers : wpc[w] = "hung"

(****************************************************************************)
(* native_stop_service returns and releases the JNI lock, wherever in its    *)
(* life the worker was when the call began, except in two cases: its STOP    *)
(* arrived after the only place that looks at STOP, or the worker got the    *)
(* event and one of its tasks never ends. The exchange of WAIT is a spin     *)
(* without a queue, so other threads must not call hev_socks5_tunnel_quit    *)
(* for ever.                                                                 *)
(****************************************************************************)
StopReturnsUnlessMissed ==
    <>[](\A q \in Quitters : pc[q] = "idle") =>
        \A c \in Callers : Stopping(c) ~> (mutex # c \/ StopMissed \/ TasksStuck)

(****************************************************************************)
(* hev-main.h: hev_socks5_tunnel_quit "Stop the socks5 tunnel". A call of    *)
(* native_stop_service, which quits and then joins, therefore returns, at    *)
(* least when every task of the worker ends once it is told to.              *)
(****************************************************************************)
StopReturns == \A c \in Callers : Stopping(c) ~> (mutex # c \/ TasksStuck)

(****************************************************************************)
(* hev-main.h: hev_socks5_tunnel_main "blocks until the                      *)
(* hev_socks5_tunnel_quit is called or an error occurs". A worker on its way *)
(* out of main has seen one of the two since it was created, or a STOP that  *)
(* an earlier stop left behind was on at that moment.                        *)
(****************************************************************************)
MainBlocksUntilQuit ==
    \A w \in Workers :
        wpc[w] \in {"fini", "close", "free_task_sys", "exit"} => why # {}

=============================================================================
