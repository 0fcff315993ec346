----------------------------- MODULE Scheduler -----------------------------
(****************************************************************************)
(* The cooperative tasks of hev-task-system, on which everything in the      *)
(* native library runs: one thread, a run queue ordered by sched_key, the    *)
(* reactor's edge-triggered events, the timers, join and the mutex. A task   *)
(* calls these operations in any order and gives up the processor only by    *)
(* them; events and time come at any moment. The other modules assume that   *)
(* a task that can run does run and that one that is woken is not forgotten: *)
(* this module is the reason.                                                *)
(*                                                                          *)
(* The build has CONFIG_SCHED_CLOCK = CLOCK_NONE, so a turn costs a task its *)
(* priority. Only differences between queued keys matter, so the model moves *)
(* all of them together and they stay bounded.                               *)
(****************************************************************************)
EXTENDS Integers, Sequences, FiniteSets, SequencesExt

CONSTANTS
    Tasks,
    priority,   \* what hev_task_set_priority has set before the task runs
    Sleepers, Lockers, Joiners,  \* the tasks that call sleep, lock and join
    Pollers,    \* the tasks with a descriptor in the reactor
    MaxSleep,   \* bound: the longest sleep, in ticks of the clock
    None

ASSUME PriorityAssumption == priority \in [Tasks -> 1..15]
ASSUME SleepAssumption == MaxSleep \in Nat \ {0}
ASSUME CallersAssumption == Sleepers \cup Lockers \cup Joiners \cup Pollers \subseteq Tasks
ASSUME NoneAssumption == None \notin Tasks

VARIABLES
    cpu,      \* current_task, or what the kernel context is doing
    kern,     \* queue: running_tasks in order, the current one included;
              \* key: sched_key; state: HevTaskState; aborted: abort() was called
    at,       \* the call a task is in; "run" in its own code
    joiner,
    timers,   \* sort_tree: the sleeping tasks in the order of their times
    pending,  \* tasks with an event the reactor has not reported yet
    locker,   \* the mutex: the task that set it, None for 0
    waiters   \* the mutex: its nodes, the newest first

vars == <<cpu, kern, at, joiner, timers, pending, locker, waiters>>

-----------------------------------------------------------------------------
\* The kernel context, as functions of `kern`.

\* _hev_task_system_insert_task: behind every task of the same or a lower key.
InsertTask(k, t) ==
    [k EXCEPT !.queue = InsertAt(@, Cardinality({i \in DOMAIN @ : k.key[@[i]] <= k.key[t]}) + 1, t)]

\* hev_task_system_get_min_sched_key
MinSchedKey(k) == IF k.queue = <<>> THEN 0 ELSE k.key[Head(k.queue)]

\* Mutant of Woken: the key a waiting task keeps is not raised to the queue's.
WokenFromZero(k, t) ==
    CASE k.state[t] = "RUNNING" -> k
      [] k.state[t] = "STOPPED" -> [k EXCEPT !.aborted = TRUE]
      [] k.state[t] = "WAITING" -> InsertTask([k EXCEPT !.state[t] = "RUNNING"], t)

\* hev_task_system_wakeup_task_with_context
Woken(k, t) ==
    CASE k.state[t] = "RUNNING" -> k
      [] k.state[t] = "STOPPED" -> [k EXCEPT !.aborted = TRUE]
      [] k.state[t] = "WAITING" ->
            InsertTask([k EXCEPT !.key[t] = @ + MinSchedKey(k), !.state[t] = "RUNNING"], t)

\* HEV_TASK_SCHED_SWITCH: pay for the turn and queue again.
Switched(k, t) ==
    InsertTask([k EXCEPT !.key[t] = @ + priority[t], !.queue = Remove(@, t)], t)

\* HEV_TASK_SCHED_WAITIO: the next wakeup starts from the priority alone.
Parked(k, t) ==
    [k EXCEPT !.key[t] = priority[t], !.queue = Remove(@, t), !.state[t] = "WAITING"]

\* HEV_TASK_SCHED_REMOVE
Removed(k, t) == [k EXCEPT !.queue = Remove(@, t), !.state[t] = "STOPPED"]

Live(k) == {t \in Tasks : k.state[t] # "STOPPED"}

\* Where the keys stand after some time: well above every priority. The queue is
\* moved to this place at every pick instead of growing for ever.
BaseKey == 16

Rebased(k) ==
    [k EXCEPT !.key = [t \in Tasks |->
        IF k.state[t] = "RUNNING" THEN @[t] - MinSchedKey(k) + BaseKey ELSE @[t]]]

\* Mutant of Schedule: the reactor is asked only when nothing can run.
SchedulePollIdle(k) ==
    IF Live(k) = {} THEN cpu' = "exit" /\ kern' = k
    ELSE IF k.queue = <<>> THEN cpu' = "poll" /\ kern' = k
    ELSE cpu' = Head(k.queue) /\ kern' = Rebased(k)

\* The rest of hev_task_system_schedule and pick_current_task: all tasks are
\* gone, some wait and the reactor is asked first, or the first one runs.
Schedule(k) ==
    IF Live(k) = {} THEN cpu' = "exit" /\ kern' = k
    ELSE IF Len(k.queue) < Cardinality(Live(k)) THEN cpu' = "poll" /\ kern' = k
    ELSE cpu' = Head(k.queue) /\ kern' = Rebased(k)

\* hev_task_timer_wakeup: the task of the first timer, when its time has come.
TimerWoken(k, tree) ==
    IF tree # <<>> /\ Head(tree).due = 0 THEN Woken(k, Head(tree).task) ELSE k

\* io_poll: one of the events the reactor reports, in any order.
PollEvent(t) ==
    /\ cpu = "poll" /\ t \in pending
    /\ kern' = Woken(kern, t)
    /\ pending' = pending \ {t}
    /\ UNCHANGED <<cpu, at, joiner, timers, locker, waiters>>

\* The end of io_poll and the pick. With nothing to run, the reactor waits for
\* an event or until the first timer is due.
PollTimer ==
    /\ cpu = "poll" /\ pending = {}
    /\ LET k == TimerWoken(kern, timers) IN
        /\ k.queue # <<>>
        /\ kern' = Rebased(k)
        /\ cpu' = Head(k.queue)
    /\ UNCHANGED <<at, joiner, timers, pending, locker, waiters>>

-----------------------------------------------------------------------------
\* What a task calls from its own code.

InTask(t) == cpu = t /\ at[t] = "run"

\* hev_task_run of a task that has not run yet, from a task or, before
\* hev_task_system_run, from the thread itself.
RunTask(t) ==
    /\ cpu = "boot" \/ \E u \in Tasks : InTask(u)
    /\ at[t] = "new"
    /\ LET base == IF cpu = "boot" THEN 0 ELSE MinSchedKey(kern) IN
        kern' = InsertTask([kern EXCEPT !.key[t] = priority[t] + base, !.state[t] = "RUNNING"], t)
    /\ at' = [at EXCEPT ![t] = "run"]
    /\ UNCHANGED <<cpu, joiner, timers, pending, locker, waiters>>

\* hev_task_system_run
SystemRun ==
    /\ cpu = "boot"
    /\ Schedule(kern)
    /\ UNCHANGED <<at, joiner, timers, pending, locker, waiters>>

\* hev_task_wakeup of another task. That it has not ended is the caller's duty: the
\* kernel aborts otherwise. SessionTasks has the calls of the tunnel, and the abort.
WakeTask(t, u) ==
    /\ InTask(t) /\ kern.state[u] = "WAITING"
    /\ kern' = Woken(kern, u)
    /\ UNCHANGED <<cpu, at, joiner, timers, pending, locker, waiters>>

\* hev_task_yield
YieldSwitch(t) ==
    /\ InTask(t)
    /\ Schedule(Switched(kern, t))
    /\ UNCHANGED <<at, joiner, timers, pending, locker, waiters>>

YieldWaitIO(t) ==
    /\ InTask(t)
    /\ Schedule(Parked(kern, t))
    /\ UNCHANGED <<at, joiner, timers, pending, locker, waiters>>

\* hev_task_timer_wait up to its yield. Nodes of the same time are ordered by
\* their addresses, so either may come first.
Sleep(t, ticks) ==
    /\ InTask(t) /\ t \in Sleepers
    /\ \E i \in 1..(Len(timers) + 1) :
        /\ \A j \in DOMAIN timers : IF j < i THEN timers[j].due <= ticks ELSE timers[j].due >= ticks
        /\ timers' = InsertAt(timers, i, [task |-> t, due |-> ticks, leftmost |-> i = 1])
    /\ at' = [at EXCEPT ![t] = "sleep"]
    /\ Schedule(Parked(kern, t))
    /\ UNCHANGED <<joiner, pending, locker, waiters>>

\* Mutant of SleepResume: a task woken early leaves its node in the tree.
SleepResumeKeeps(t) ==
    /\ cpu = t /\ at[t] = "sleep"
    /\ \E i \in DOMAIN timers :
        /\ timers[i].task = t
        /\ timers' = IF timers[i].due = 0 THEN RemoveAt(timers, i) ELSE timers
        /\ kern' = IF i = 1 \/ timers[i].leftmost THEN TimerWoken(kern, timers') ELSE kern
    /\ at' = [at EXCEPT ![t] = "run"]
    /\ UNCHANGED <<cpu, joiner, pending, locker, waiters>>

\* ... and after it, awake because the time has come or for any other reason.
SleepResume(t) ==
    /\ cpu = t /\ at[t] = "sleep"
    /\ \E i \in DOMAIN timers :
        /\ timers[i].task = t
        /\ timers' = RemoveAt(timers, i)
        /\ kern' = IF i = 1 \/ timers[i].leftmost THEN TimerWoken(kern, timers') ELSE kern
    /\ at' = [at EXCEPT ![t] = "run"]
    /\ UNCHANGED <<cpu, joiner, pending, locker, waiters>>

\* hev_task_join: the loop, entered or resumed. A task joins one at a time, so
\* of those it is the joiner of only the one it waits for can still be alive.
JoinLoop(t, joined) ==
    \/ /\ joined \cap Live(kern) = {}
       /\ at' = [at EXCEPT ![t] = "run"]
       /\ UNCHANGED <<cpu, kern>>
    \/ \E u \in joined \cap Live(kern) :
       /\ at' = [at EXCEPT ![t] = "join"]
       /\ Schedule(Parked(Woken(kern, u), t))

Join(t, u) ==
    /\ InTask(t) /\ t \in Joiners /\ t # u /\ at[u] # "new"
    /\ joiner[u] = None
    /\ joiner' = [joiner EXCEPT ![u] = t]
    /\ JoinLoop(t, {u})
    /\ UNCHANGED <<timers, pending, locker, waiters>>

JoinResume(t) ==
    /\ cpu = t /\ at[t] = "join"
    /\ JoinLoop(t, {u \in Tasks : joiner[u] = t})
    /\ UNCHANGED <<joiner, timers, pending, locker, waiters>>

\* hev_task_mutex_lock by a task that does not hold it; one that does waits for
\* itself (SessionTasks!AcceptFails).
Lock(t) ==
    /\ InTask(t) /\ t \in Lockers /\ locker # t
    /\ \/ /\ locker = None
          /\ locker' = t
          /\ UNCHANGED <<cpu, kern, at, waiters>>
       \/ /\ locker # None
          /\ waiters' = <<t>> \o waiters
          /\ at' = [at EXCEPT ![t] = "lock"]
          /\ Schedule(Parked(kern, t))
          /\ UNCHANGED locker
    /\ UNCHANGED <<joiner, timers, pending>>

\* The lock is free and the node the newest, or the task waits again.
LockResume(t) ==
    /\ cpu = t /\ at[t] = "lock"
    /\ \/ /\ locker = None /\ Head(waiters) = t
          /\ waiters' = Tail(waiters)
          /\ locker' = t
          /\ at' = [at EXCEPT ![t] = "run"]
          /\ UNCHANGED <<cpu, kern>>
       \/ /\ locker # None \/ Head(waiters) # t
          /\ Schedule(Parked(kern, t))
          /\ UNCHANGED <<at, locker, waiters>>
    /\ UNCHANGED <<joiner, timers, pending>>

\* Mutant of Unlock: the wakeup goes to the oldest waiter.
UnlockOldest(t) ==
    /\ InTask(t) /\ locker = t
    /\ locker' = None
    /\ kern' = IF waiters = <<>> THEN kern ELSE Woken(kern, Last(waiters))
    /\ UNCHANGED <<cpu, at, joiner, timers, pending, waiters>>

\* hev_task_mutex_unlock
Unlock(t) ==
    /\ InTask(t) /\ locker = t
    /\ locker' = None
    /\ kern' = IF waiters = <<>> THEN kern ELSE Woken(kern, Head(waiters))
    /\ UNCHANGED <<cpu, at, joiner, timers, pending, waiters>>

\* hev_task_executer, when the task's entry returns. The task has unlocked the
\* mutex and taken its descriptors out of the reactor.
Return(t) ==
    /\ InTask(t) /\ locker # t
    /\ LET k == IF joiner[t] = None THEN kern ELSE Woken(kern, joiner[t]) IN
        Schedule(Removed(k, t))
    /\ at' = [at EXCEPT ![t] = "done"]
    /\ pending' = pending \ {t}
    /\ UNCHANGED <<joiner, timers, locker, waiters>>

-----------------------------------------------------------------------------
\* The operating system.

\* The reactor takes all its events at once: one that comes while it is reporting
\* them is as good as one that comes just after the pick.
Event(t) ==
    /\ t \in Pollers \ pending /\ kern.state[t] # "STOPPED"
    /\ cpu = "poll" => kern.queue = <<>>
    /\ pending' = pending \cup {t}
    /\ UNCHANGED <<cpu, kern, at, joiner, timers, locker, waiters>>

Tick ==
    /\ \E i \in DOMAIN timers : timers[i].due > 0
    /\ timers' = [i \in DOMAIN timers |->
                    [timers[i] EXCEPT !.due = IF @ > 0 THEN @ - 1 ELSE 0]]
    /\ UNCHANGED <<cpu, kern, at, joiner, pending, locker, waiters>>

Init ==
    /\ cpu = "boot"
    /\ kern = [queue |-> <<>>, key |-> [t \in Tasks |-> 0],
               state |-> [t \in Tasks |-> "STOPPED"], aborted |-> FALSE]
    /\ at = [t \in Tasks |-> "new"]
    /\ joiner = [t \in Tasks |-> None]
    /\ timers = <<>>
    /\ pending = {}
    /\ locker = None /\ waiters = <<>>

\* A task gives up the processor.
Leave(t) ==
    \/ YieldSwitch(t) \/ YieldWaitIO(t)
    \/ \E n \in 1..MaxSleep : Sleep(t, n)
    \/ Return(t)

Resume(t) == SleepResume(t) \/ JoinResume(t) \/ LockResume(t)

Call(t) ==
    \/ Lock(t) \/ Unlock(t)
    \/ \E u \in Tasks : WakeTask(t, u) \/ Join(t, u)

Poll == PollTimer \/ \E t \in Tasks : PollEvent(t)

Next ==
    \/ SystemRun \/ Poll \/ Tick
    \/ \E t \in Tasks : RunTask(t) \/ Leave(t) \/ Resume(t) \/ Call(t) \/ Event(t)

Spec == Init /\ [][Next]_vars

\* The thread goes on: a task in its own code leaves it sooner or later (the tasks
\* are cooperative) and the kernel context never stops halfway.
Turn == SystemRun \/ Poll \/ \E t \in Tasks : Leave(t) \/ Resume(t)

\* Time passes; no event is ever certain.
FairSpec == Spec /\ WF_vars(Turn) /\ WF_vars(Tick)

-----------------------------------------------------------------------------
\* No wakeup reaches a task that has stopped, which would abort the program:
\* what the timers, the mutex and the joiners remember of a task is forgotten
\* before it ends.
NoAbort == ~kern.aborted

\* The mutex is never left free with everybody asleep: when it is free and
\* wanted, the one waiter that may take it is on its way, although unlock wakes
\* only that one, newcomers overtake it and any wakeup may come for other reasons.
MutexHandedOn ==
    (locker = None /\ waiters # <<>>) => kern.state[Head(waiters)] = "RUNNING"

\* A task that can run does run, however the others wake each other, sleep and
\* yield and whatever their priorities.
NoStarvation ==
    \A t \in Tasks : [](kern.state[t] = "RUNNING" => <>(cpu = t))

\* A wait whose reason has gone ends: a sleep when its time is over, although the
\* kernel wakes one timer at a time, and the join of a task that returned.
WaitsEnd ==
    \A t \in Tasks :
        /\ at[t] = "sleep" ~> at[t] # "sleep"
        /\ (at[t] = "join" /\ \A u \in Tasks : joiner[u] = t => at[u] = "done")
                ~> at[t] # "join"

=============================================================================
