---------------------------- MODULE SessionTasks ----------------------------
(****************************************************************************)
(* The tasks of a running tunnel (hev-socks5-tunnel.c): the lwIP input task, *)
(* the lwIP timer task, the event task that ends everything, and one task    *)
(* per session, on the cooperative scheduler of hev-task-system. A task is   *)
(* "stopped" (not run yet, or finished), "ready" or "waiting"; waking a      *)
(* stopped task is an abort (). Between two suspensions a task runs alone,   *)
(* so one action is everything up to the next suspension.                    *)
(****************************************************************************)
EXTENDS Integers, Sequences, FiniteSets, SequencesExt

CONSTANTS
    Sessions,           \* the sessions that may be accepted
    Limits,             \* values of misc.max-session-count; strtoul takes any
    None

ASSUME SessionTasksAssumption ==
    /\ IsFiniteSet(Sessions)
    /\ Limits \subseteq Int
    /\ None \notin Sessions \cup {"io"}

VARIABLES
    max_session_count,  \* from the configuration, 0 is unlimited
    run,            \* the flag all loops look at
    session_set,    \* the list, least recently active first
    session_count,
    fresh,          \* sessions not accepted yet
    task,           \* scheduler state of every session's task
    terminated,     \* sessions whose timeout is zero
    io, timer,      \* scheduler state of the lwIP tasks
    event,          \* control state of the event task
    locker,         \* holder of the lwIP mutex at a suspension, or None
    aborted         \* a stopped task was woken

vars == <<max_session_count, run, session_set, session_count, fresh, task, terminated, io,
          timer, event, locker, aborted>>

sessionVars == <<session_set, session_count, fresh, task, terminated>>

Alive == {s \in Sessions : s \notin fresh /\ task[s] # "stopped"}

\* hev_socks5_tunnel_run has started the three tasks.
Init ==
    /\ max_session_count \in Limits
    /\ run = TRUE
    /\ session_set = <<>> /\ session_count = 0
    /\ fresh = Sessions
    /\ task = [s \in Sessions |-> "stopped"]
    /\ terminated = {}
    /\ io = "ready" /\ timer = "ready" /\ event = "read"
    /\ locker = None
    /\ aborted = FALSE

\* The scheduler may run a task in this state; abort () has ended none of them.
Runs(state) == state = "ready" /\ ~aborted

\* hev_task_wakeup: nothing to do for a task that is ready, abort if stopped.
\* A task in hev_task_mutex_lock looks at the mutex and waits again.
Woken(state) == IF state \in {"waiting", "sleeping"} THEN "ready" ELSE state

\* hev_socks5_session_terminate of each victim.
Terminate(victims) ==
    /\ terminated' = terminated \cup victims
    /\ aborted' = (aborted \/ \E v \in victims : task[v] = "stopped")
    /\ task' = [s \in Sessions |->
                  IF s \in victims THEN Woken(task[s]) ELSE task[s]]

-----------------------------------------------------------------------------
(* Sessions *)

\* hev_list_del of the session's node.
Unlinked(s) ==
    LET k == CHOOSE i \in 1 .. Len(session_set) : session_set[i] = s
    IN  [j \in 1 .. Len(session_set) - 1 |->
            IF j < k THEN session_set[j] ELSE session_set[j + 1]]

\* hev_socks5_tunnel_update_session: an active session moves to the tail.
UpdateSession(s) ==
    IF max_session_count = 0 THEN session_set ELSE Append(Unlinked(s), s)

\* The yielder of a session that made progress.
SessionYield(s) ==
    /\ task[s] \in {"ready", "flooded"} /\ ~aborted
    /\ session_set' = UpdateSession(s)
    /\ UNCHANGED <<max_session_count, run, session_count, fresh, task, terminated, io,
                   timer, event, locker, aborted>>

\* From here on data comes without a pause: in every round the splicer moves some
\* and yields, and it never looks at its timeout again.
SessionFlooded(s) ==
    /\ Runs(task[s])
    /\ task' = [task EXCEPT ![s] = "flooded"]
    /\ UNCHANGED <<max_session_count, run, session_set, session_count, fresh, terminated,
                   io, timer, event, locker, aborted>>

\* The yielder of a session that has to wait; a timeout of zero is none.
SessionWait(s) ==
    /\ Runs(task[s]) /\ s \notin terminated
    /\ task' = [task EXCEPT ![s] = "waiting"]
    /\ UNCHANGED <<max_session_count, run, session_set, session_count, fresh,
                   terminated, io, timer, event, locker, aborted>>

\* The socket, the timeout or an lwIP callback wakes a waiting session.
SessionWake(s) ==
    /\ task[s] = "waiting" /\ ~aborted
    /\ task' = [task EXCEPT ![s] = "ready"]
    /\ UNCHANGED <<max_session_count, run, session_set, session_count, fresh,
                   terminated, io, timer, event, locker, aborted>>

\* hev_socks5_session_run returned: the session is deleted and destructed, for
\* which the mutex is taken.
SessionEnd(s) ==
    /\ Runs(task[s])
    /\ session_set' = Unlinked(s)
    /\ session_count' = session_count - 1
    /\ task' = [task EXCEPT ![s] = IF locker = None THEN "stopped" ELSE "locking"]
    /\ UNCHANGED <<max_session_count, run, fresh, terminated, io, timer, event,
                   locker, aborted>>

-----------------------------------------------------------------------------
(* lwip_io_task_entry *)

\* Mutant: the timer task is not woken.
AcceptedNoTimer(s) == UNCHANGED timer

\* hev_task_wakeup (task_lwip_timer) after the session's task was started.
Accepted(s) == timer' = Woken(timer)

\* session_count++ when a session is linked in.
Inserted == session_count + 1

\* Mutant: the session that was just added is the one that is terminated.
OverLimitNewest(list) ==
    IF max_session_count = 0 \/ Inserted < max_session_count THEN {}
    ELSE {Last(list)}

\* The session hev_socks5_tunnel_insert_session terminates, if any.
OverLimit(list) ==
    IF max_session_count = 0 \/ Inserted < max_session_count THEN {}
    ELSE {Head(list)}

\* tcp_accept_handler or udp_recv_handler, called by netif->input with the
\* mutex held: the new session is linked in, the limit is enforced (its own
\* task is still stopped then), its task is run.
Accept(s) ==
    /\ Runs(io) /\ run /\ s \in fresh
    /\ fresh' = fresh \ {s}
    /\ LET list == Append(session_set, s)
           victims == OverLimit(list)
       IN  /\ session_set' = list
           /\ session_count' = Inserted
           /\ terminated' = terminated \cup victims
           /\ aborted' = (aborted \/ timer = "stopped"
                                  \/ \E v \in victims : task[v] = "stopped")
           /\ task' = [t \in Sessions |->
                         IF t = s THEN "ready"
                         ELSE IF t \in victims THEN Woken(task[t]) ELSE task[t]]
    /\ Accepted(s)
    /\ UNCHANGED <<max_session_count, run, io, event, locker>>

\* hev_task_new fails: hev_object_unref destructs the session, and the
\* destructor locks the mutex that this very task holds.
AcceptFails(s) ==
    /\ Runs(io) /\ run /\ s \in fresh
    /\ fresh' = fresh \ {s}
    /\ io' = "locking" /\ locker' = "io"
    /\ UNCHANGED <<max_session_count, run, session_set, session_count, task,
                   terminated, timer, event, aborted>>

\* A packet resets a connection: tcp_err_handler terminates its session.
IoReset(s) ==
    /\ Runs(io) /\ run /\ s \in Alive
    /\ Terminate({s})
    /\ UNCHANGED <<max_session_count, run, session_set, session_count, fresh, io,
                   timer, event, locker>>

\* hev_tunnel_read has nothing to read and waits; a packet or join wakes it.
IoWait ==
    /\ Runs(io) /\ run
    /\ io' = "waiting"
    /\ UNCHANGED <<max_session_count, run, sessionVars, timer, event, locker,
                   aborted>>

IoPacket ==
    /\ io = "waiting" /\ ~aborted
    /\ io' = "ready"
    /\ UNCHANGED <<max_session_count, run, sessionVars, timer, event, locker,
                   aborted>>

\* The task ends and hev_task_executer wakes the joiner.
IoExit ==
    /\ Runs(io) /\ ~run
    /\ io' = "stopped"
    /\ event' = IF event = "joining_io" THEN "join_io" ELSE event
    /\ UNCHANGED <<max_session_count, run, sessionVars, timer, locker, aborted>>

-----------------------------------------------------------------------------
(* lwip_timer_task_entry *)

\* tcp_tmr may find a connection dead: tcp_err_handler terminates the session.
TimerRun ==
    /\ Runs(timer) /\ run
    /\ IF locker # None
       THEN timer' = "locking" /\ UNCHANGED <<terminated, task, aborted>>
       ELSE /\ timer' = IF session_set = <<>> THEN "waiting" ELSE "sleeping"
            /\ \E dead \in {{}} \cup {{s} : s \in Alive} : Terminate(dead)
    /\ UNCHANGED <<max_session_count, run, session_set, session_count, fresh, io,
                   event, locker>>

\* TCP_TMR_INTERVAL has passed.
TimerTick ==
    /\ timer = "sleeping" /\ ~aborted
    /\ timer' = "ready"
    /\ UNCHANGED <<max_session_count, run, sessionVars, io, event, locker, aborted>>

TimerExit ==
    /\ Runs(timer) /\ ~run
    /\ timer' = "stopped"
    /\ event' = IF event = "joining_timer" THEN "join_timer" ELSE event
    /\ UNCHANGED <<max_session_count, run, sessionVars, io, locker, aborted>>

-----------------------------------------------------------------------------
(* event_task_entry *)

\* hev_socks5_tunnel_stop wrote the byte.
Stop ==
    /\ event = "read" /\ ~aborted
    /\ event' = "got"
    /\ UNCHANGED <<max_session_count, run, sessionVars, io, timer, locker, aborted>>

\* Mutant: the sessions are left alone.
EventGotNoTerminate ==
    /\ event = "got" /\ ~aborted /\ event' = "join_io"
    /\ run' = FALSE
    /\ UNCHANGED <<max_session_count, sessionVars, io, timer, locker, aborted>>

\* run = 0, and every session of the list is terminated.
EventGot ==
    /\ event = "got" /\ ~aborted /\ event' = "join_io"
    /\ run' = FALSE
    /\ Terminate(ToSet(session_set))
    /\ UNCHANGED <<max_session_count, session_set, session_count, fresh, io, timer,
                   locker>>

\* hev_task_join: wake the task and wait until it has stopped.
JoinIo ==
    /\ event = "join_io" /\ ~aborted
    /\ event' = IF io = "stopped" THEN "join_timer" ELSE "joining_io"
    /\ io' = Woken(io)
    /\ UNCHANGED <<max_session_count, run, sessionVars, timer, locker, aborted>>

JoinTimer ==
    /\ event = "join_timer" /\ ~aborted
    /\ event' = IF timer = "stopped" THEN "stopped" ELSE "joining_timer"
    /\ timer' = Woken(timer)
    /\ UNCHANGED <<max_session_count, run, sessionVars, io, locker, aborted>>

-----------------------------------------------------------------------------
Session(s) == SessionYield(s) \/ SessionFlooded(s) \/ SessionWait(s) \/ SessionEnd(s)
Io == IoWait \/ IoExit \/ \E s \in Sessions : Accept(s) \/ AcceptFails(s) \/ IoReset(s)
Timer == TimerRun \/ TimerExit
Event == EventGot \/ JoinIo \/ JoinTimer

\* hev_task_system_run returns when no task is left.
AllStopped ==
    /\ io = "stopped" /\ timer = "stopped" /\ event = "stopped"
    /\ \A s \in Sessions : task[s] = "stopped"

Returned == AllStopped /\ UNCHANGED vars

Next ==
    \/ \E s \in Sessions : Session(s) \/ SessionWake(s)
    \/ Io
    \/ IoPacket
    \/ Timer
    \/ TimerTick
    \/ Stop
    \/ Event
    \/ Returned

Spec == Init /\ [][Next]_vars

(****************************************************************************)
(* The scheduler runs every ready task. A session that is terminated and not *)
(* flooded ends as soon as it has to wait (TcpSession, UdpSession).          *)
(****************************************************************************)
FairSpec ==
    /\ Spec
    /\ WF_vars(Io) /\ WF_vars(Timer) /\ WF_vars(TimerTick) /\ WF_vars(Event)
    /\ \A s \in Sessions : WF_vars(s \in terminated /\ SessionEnd(s))

-----------------------------------------------------------------------------
(* Properties *)

(****************************************************************************)
(* hev_task_wakeup meets a stopped task, where it aborts the process, only   *)
(* under a limit below two: insert_session then terminates the session it    *)
(* has just linked in, whose task is run afterwards. Under every other limit *)
(* it does not: not when the limit terminates a session, not when the event  *)
(* task terminates all of them, and not when accepting wakes the timer task. *)
(****************************************************************************)
NoAbort == aborted => max_session_count # 0 /\ max_session_count < 2

(****************************************************************************)
(* lwIP's timers run while there is a session: the timer task waits without  *)
(* a timeout only when the list is empty.                                    *)
(****************************************************************************)
TimersRun == timer = "waiting" => session_set = <<>>

(****************************************************************************)
(* hev_socks5_tunnel_quit stops the tunnel: once the event is there, every   *)
(* task ends and hev_task_system_run returns. Three cases are excepted: the  *)
(* process has aborted; the task of a new session could not be created, then *)
(* the input task waits for the mutex it holds, and the others behind it; or *)
(* data keeps a session from ever looking at its timeout.                    *)
(****************************************************************************)
StopDrains ==
    (event = "got") ~>
        \/ AllStopped
        \/ aborted \/ locker = "io" \/ \E s \in Sessions : task[s] = "flooded"

=============================================================================
