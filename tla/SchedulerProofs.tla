-------------------------- MODULE SchedulerProofs --------------------------
(****************************************************************************)
(* For any number of tasks with any priorities: no stopped task is woken     *)
(* and the mutex is handed on. Both rest on what a task in the middle of a   *)
(* call has left behind: a node of the timers, a node of the mutex, itself   *)
(* as a joiner.                                                              *)
(****************************************************************************)
EXTENDS Scheduler, SequenceTheorems, TLAPS

States == {"STOPPED", "RUNNING", "WAITING"}
Calls == {"new", "run", "sleep", "join", "lock", "done"}
Nodes == [task : Tasks, due : Nat, leftmost : BOOLEAN]

\* A record with the fields of kern, of which two matter here.
IsKern(k) ==
    /\ DOMAIN k = {"queue", "key", "state", "aborted"}
    /\ k.state \in [Tasks -> States]

TypeInv ==
    /\ IsKern(kern)
    /\ at \in [Tasks -> Calls]
    /\ joiner \in [Tasks -> Tasks \cup {None}]
    /\ timers \in Seq(Nodes)
    /\ waiters \in Seq(Tasks)
    /\ pending \subseteq Tasks

\* A task with a call or code of its own to finish is not stopped.
Started == \A t \in Tasks : at[t] \notin {"new", "done"} => kern.state[t] # "STOPPED"

\* The nodes of the timers belong to sleeping tasks, one to each.
Asleep ==
    /\ \A i \in DOMAIN timers : at[timers[i].task] = "sleep"
    /\ \A i, j \in DOMAIN timers : timers[i].task = timers[j].task => i = j

\* The nodes of the mutex belong to the locking tasks, one to each.
Locking ==
    /\ \A i \in DOMAIN waiters : at[waiters[i]] = "lock"
    /\ \A i, j \in DOMAIN waiters : waiters[i] = waiters[j] => i = j
    /\ \A t \in Tasks : at[t] = "lock" => \E i \in DOMAIN waiters : waiters[i] = t

\* A task that has not ended is joined by a task that is still waiting for it.
Joining ==
    \A u \in Tasks :
        /\ at[u] = "new" => joiner[u] = None
        /\ joiner[u] # None /\ at[u] # "done" => at[joiner[u]] = "join"

Registered == \A t \in pending : kern.state[t] # "STOPPED"

Sound == kern.aborted = FALSE

IInv ==
    TypeInv /\ Started /\ Asleep /\ Locking /\ Joining /\ Registered /\ Sound /\ MutexHandedOn

-----------------------------------------------------------------------------
(* The functions of the kernel context, as far as state and aborted go. *)

\* Queueing a task moves nothing but the queue.
LEMMA InsertTaskFacts ==
    ASSUME NEW k, IsKern(k), NEW t \in Tasks
    PROVE  /\ IsKern(InsertTask(k, t))
           /\ InsertTask(k, t).state = k.state
           /\ InsertTask(k, t).aborted = k.aborted
<1>1. \A q : /\ IsKern([k EXCEPT !.queue = q])
             /\ [k EXCEPT !.queue = q].state = k.state
             /\ [k EXCEPT !.queue = q].aborted = k.aborted
  BY DEF IsKern
<1> QED BY <1>1 DEF InsertTask

\* A wakeup makes a waiting task run and aborts on a stopped one.
LEMMA WokenFacts ==
    ASSUME NEW k, IsKern(k), NEW t \in Tasks
    PROVE  /\ IsKern(Woken(k, t))
           /\ Woken(k, t).state =
                IF k.state[t] = "WAITING" THEN [k.state EXCEPT ![t] = "RUNNING"] ELSE k.state
           /\ k.state[t] # "STOPPED" => Woken(k, t).aborted = k.aborted
<1> DEFINE w == [k EXCEPT !.key[t] = @ + MinSchedKey(k), !.state[t] = "RUNNING"]
<1>0. k.state[t] \in States
  BY DEF IsKern
<1>1. CASE k.state[t] = "RUNNING"
  BY <1>1 DEF Woken
<1>2. CASE k.state[t] = "STOPPED"
  <2>1. Woken(k, t) = [k EXCEPT !.aborted = TRUE]
    BY <1>2 DEF Woken
  <2> QED BY <1>2, <2>1 DEF IsKern
<1>3. CASE k.state[t] = "WAITING"
  <2>1. Woken(k, t) = InsertTask(w, t)
    BY <1>3 DEF Woken
  <2>2. /\ IsKern(w)
        /\ w.state = [k.state EXCEPT ![t] = "RUNNING"]
        /\ w.aborted = k.aborted
    BY DEF IsKern, States
  <2> HIDE DEF w
  <2> QED BY <1>3, <2>1, <2>2, InsertTaskFacts
<1> QED BY <1>0, <1>1, <1>2, <1>3 DEF States

\* Yielding keeps the state of every task, parking and removing change one.
LEMMA YieldFacts ==
    ASSUME NEW k, IsKern(k), NEW t \in Tasks
    PROVE  /\ IsKern(Switched(k, t)) /\ IsKern(Parked(k, t)) /\ IsKern(Removed(k, t))
           /\ Switched(k, t).state = k.state
           /\ Parked(k, t).state = [k.state EXCEPT ![t] = "WAITING"]
           /\ Removed(k, t).state = [k.state EXCEPT ![t] = "STOPPED"]
           /\ Switched(k, t).aborted = k.aborted
           /\ Parked(k, t).aborted = k.aborted
           /\ Removed(k, t).aborted = k.aborted
<1> DEFINE s == [k EXCEPT !.key[t] = @ + priority[t], !.queue = Remove(@, t)]
<1>1. IsKern(s) /\ s.state = k.state /\ s.aborted = k.aborted
  BY DEF IsKern
<1>2. Switched(k, t) = InsertTask(s, t)
  BY DEF Switched
<1> HIDE DEF s
<1>3. /\ IsKern(Switched(k, t)) /\ Switched(k, t).state = k.state
      /\ Switched(k, t).aborted = k.aborted
  BY <1>1, <1>2, InsertTaskFacts
<1>4. /\ IsKern(Parked(k, t))
      /\ Parked(k, t).state = [k.state EXCEPT ![t] = "WAITING"]
      /\ Parked(k, t).aborted = k.aborted
  BY DEF IsKern, Parked, States
<1>5. /\ IsKern(Removed(k, t))
      /\ Removed(k, t).state = [k.state EXCEPT ![t] = "STOPPED"]
      /\ Removed(k, t).aborted = k.aborted
  BY DEF IsKern, Removed, States
<1> QED BY <1>3, <1>4, <1>5

\* Picking the next task moves keys only.
LEMMA RebasedFacts ==
    ASSUME NEW k, IsKern(k)
    PROVE  IsKern(Rebased(k)) /\ Rebased(k).state = k.state /\ Rebased(k).aborted = k.aborted
BY DEF IsKern, Rebased

\* Going from one task to the next changes no state.
LEMMA ScheduleFacts ==
    ASSUME NEW k, IsKern(k), Schedule(k)
    PROVE  IsKern(kern') /\ kern'.state = k.state /\ kern'.aborted = k.aborted
BY RebasedFacts DEF Schedule

-----------------------------------------------------------------------------
(* Sequences *)

\* InsertAt puts one element in and moves the ones behind it.
LEMMA InsertAtFacts ==
    ASSUME NEW S, NEW s \in Seq(S), NEW i \in 1..(Len(s) + 1), NEW e \in S
    PROVE  /\ InsertAt(s, i, e) \in Seq(S)
           /\ DOMAIN InsertAt(s, i, e) = 1..(Len(s) + 1)
           /\ \A j \in 1..(Len(s) + 1) :
                InsertAt(s, i, e)[j] = IF j < i THEN s[j] ELSE IF j = i THEN e ELSE s[j - 1]
<1> DEFINE front == SubSeq(s, 1, i - 1)
           rear == SubSeq(s, i, Len(s))
<1>1. /\ front \in Seq(S) /\ Len(front) = i - 1
      /\ \A j \in 1..(i - 1) : front[j] = s[j]
  <2>1. \A j \in 1..(i - 1) : s[j] \in S
    BY ElementOfSeq
  <2> QED BY <2>1, SubSeqProperties
<1>2. /\ rear \in Seq(S) /\ Len(rear) = Len(s) - i + 1
      /\ \A j \in 1..(Len(s) - i + 1) : rear[j] = s[i + j - 1]
  <2>1. \A j \in i..Len(s) : s[j] \in S
    BY ElementOfSeq
  <2> QED BY <2>1, SubSeqProperties
<1> HIDE DEF front, rear
<1> DEFINE mid == front \o <<e>>
<1>3. /\ mid \in Seq(S) /\ Len(mid) = i
      /\ \A j \in 1..i : mid[j] = IF j < i THEN s[j] ELSE e
  BY <1>1, ConcatProperties
<1> HIDE DEF mid
<1>4. InsertAt(s, i, e) = mid \o rear
  BY DEF InsertAt, front, rear, mid
<1>5. /\ mid \o rear \in Seq(S) /\ Len(mid \o rear) = Len(mid) + Len(rear)
      /\ \A j \in 1..(Len(mid) + Len(rear)) :
            (mid \o rear)[j] = IF j <= Len(mid) THEN mid[j] ELSE rear[j - Len(mid)]
  BY <1>2, <1>3, ConcatProperties
<1> DEFINE all == mid \o rear
<1> HIDE DEF all
<1>6. Len(s) \in Nat /\ Len(mid) + Len(rear) = Len(s) + 1
  BY <1>2, <1>3
<1>7. /\ all \in Seq(S) /\ DOMAIN all = 1..(Len(s) + 1)
      /\ \A j \in 1..(Len(s) + 1) : all[j] = IF j <= i THEN mid[j] ELSE rear[j - i]
  BY <1>3, <1>5, <1>6 DEF all
<1>8. ASSUME NEW j \in 1..(Len(s) + 1)
      PROVE  all[j] = IF j < i THEN s[j] ELSE IF j = i THEN e ELSE s[j - 1]
  <2>1. CASE j <= i
    BY <1>3, <1>7, <2>1
  <2>2. CASE j > i
    <3>1. j - i \in 1..(Len(s) - i + 1) /\ i + (j - i) - 1 = j - 1
      BY <2>2, <1>6
    <3> QED BY <1>2, <1>7, <2>2, <3>1
  <2> QED BY <2>1, <2>2
<1> QED BY <1>4, <1>7, <1>8 DEF all

\* RemoveAt takes one element out and moves the ones behind it.
LEMMA RemoveAtFacts ==
    ASSUME NEW S, NEW s \in Seq(S), NEW i \in DOMAIN s
    PROVE  /\ RemoveAt(s, i) \in Seq(S)
           /\ DOMAIN RemoveAt(s, i) = 1..(Len(s) - 1)
           /\ \A j \in 1..(Len(s) - 1) :
                RemoveAt(s, i)[j] = IF j < i THEN s[j] ELSE s[j + 1]
<1> DEFINE front == SubSeq(s, 1, i - 1)
           rear == SubSeq(s, i + 1, Len(s))
<1>1. /\ front \in Seq(S) /\ Len(front) = i - 1
      /\ \A j \in 1..(i - 1) : front[j] = s[j]
  <2>1. \A j \in 1..(i - 1) : s[j] \in S
    BY ElementOfSeq
  <2> QED BY <2>1, SubSeqProperties
<1>2. /\ rear \in Seq(S) /\ Len(rear) = Len(s) - i
      /\ \A j \in 1..(Len(s) - i) : rear[j] = s[i + j]
  <2>1. \A j \in (i + 1)..Len(s) : s[j] \in S
    BY ElementOfSeq
  <2> QED BY <2>1, SubSeqProperties
<1> HIDE DEF front, rear
<1> DEFINE all == front \o rear
<1>3. RemoveAt(s, i) = all
  BY DEF RemoveAt, front, rear
<1>4. /\ all \in Seq(S) /\ Len(all) = Len(front) + Len(rear)
      /\ \A j \in 1..(Len(front) + Len(rear)) :
            all[j] = IF j <= Len(front) THEN front[j] ELSE rear[j - Len(front)]
  BY <1>1, <1>2, ConcatProperties
<1> HIDE DEF all
<1>5. Len(s) \in Nat /\ i \in 1..Len(s) /\ Len(front) + Len(rear) = Len(s) - 1
  BY <1>1, <1>2
<1>6. all \in Seq(S) /\ DOMAIN all = 1..(Len(s) - 1)
  BY <1>4, <1>5
<1>7. ASSUME NEW j \in 1..(Len(s) - 1)
      PROVE  all[j] = IF j < i THEN s[j] ELSE s[j + 1]
  <2>1. CASE j < i
    <3>1. j \in 1..(i - 1) /\ j <= Len(front) /\ j \in 1..(Len(front) + Len(rear))
      <4>1. j \in 1..(i - 1)
        BY <1>5, <2>1
      <4>2. j <= Len(front)
        BY <1>1, <1>5, <2>1
      <4>3. j \in 1..(Len(front) + Len(rear))
        BY <1>5
      <4> QED BY <4>1, <4>2, <4>3
    <3>2. all[j] = front[j]
      BY <1>4, <3>1
    <3>3. front[j] = s[j]
      BY <1>1, <3>1
    <3> QED BY <2>1, <3>2, <3>3
  <2>2. CASE j >= i
    <3>1. j - (i - 1) \in 1..(Len(s) - i) /\ i + (j - (i - 1)) = j + 1
      BY <1>5, <2>2
    <3>2. all[j] = rear[j - (i - 1)]
      BY <1>1, <1>4, <1>5, <2>2
    <3>3. rear[j - (i - 1)] = s[i + (j - (i - 1))]
      BY <1>2, <3>1
    <3>4. all[j] = s[j + 1]
      BY <3>1, <3>2, <3>3
    <3>5. ~(j < i)
      BY <1>5, <2>2
    <3> QED BY <3>4, <3>5
  <2> QED BY <1>5, <2>1, <2>2
<1> QED BY <1>3, <1>6, <1>7

-----------------------------------------------------------------------------
(* Steps *)

\* Tasks may have been woken, and no other state has changed.
Wakes(k, l) ==
    /\ IsKern(l) /\ l.aborted = k.aborted
    /\ \A t \in Tasks : \/ l.state[t] = k.state[t]
                        \/ k.state[t] = "WAITING" /\ l.state[t] = "RUNNING"

\* Waking a task that is not stopped wakes tasks and does nothing else.
LEMMA WokenWakes ==
    ASSUME NEW k, IsKern(k), NEW t \in Tasks, k.state[t] # "STOPPED"
    PROVE  Wakes(k, Woken(k, t))
<1>1. IsKern(Woken(k, t)) /\ Woken(k, t).aborted = k.aborted
  BY WokenFacts
<1>2. Woken(k, t).state =
        IF k.state[t] = "WAITING" THEN [k.state EXCEPT ![t] = "RUNNING"] ELSE k.state
  BY WokenFacts
<1>3. k.state \in [Tasks -> States]
  BY DEF IsKern
<1>4. \A u \in Tasks : \/ Woken(k, t).state[u] = k.state[u]
                       \/ k.state[u] = "WAITING" /\ Woken(k, t).state[u] = "RUNNING"
  BY <1>2, <1>3
<1> QED BY <1>1, <1>4 DEF Wakes

\* The elements of the timer tree are nodes of tasks.
LEMMA NodeFacts ==
    ASSUME NEW tree \in Seq(Nodes)
    PROVE  /\ \A i \in DOMAIN tree : tree[i] \in Nodes /\ tree[i].task \in Tasks
           /\ tree # <<>> => 1 \in DOMAIN tree /\ Head(tree) = tree[1]
<1>1. \A i \in DOMAIN tree : tree[i] \in Nodes
  BY ElementOfSeq
<1>2. \A n \in Nodes : n.task \in Tasks
  BY DEF Nodes
<1> QED BY <1>1, <1>2

\* The first timer may be due; its task sleeps, so it is not stopped.
LEMMA TimerWokenFacts ==
    ASSUME NEW k, IsKern(k), NEW tree \in Seq(Nodes),
           \A i \in DOMAIN tree : k.state[tree[i].task] # "STOPPED"
    PROVE  Wakes(k, TimerWoken(k, tree))
<1>1. CASE tree # <<>> /\ Head(tree).due = 0
  <2>1. Head(tree).task \in Tasks /\ k.state[Head(tree).task] # "STOPPED"
    BY <1>1, NodeFacts
  <2> QED BY <1>1, <2>1, WokenWakes DEF TimerWoken
<1>2. CASE ~(tree # <<>> /\ Head(tree).due = 0)
  BY <1>2 DEF TimerWoken, Wakes
<1> QED BY <1>1, <1>2

\* A step that wakes tasks and leaves the rest alone, but for reported events.
LEMMA WakingStep ==
    ASSUME IInv, Wakes(kern, kern'), pending' \subseteq pending,
           UNCHANGED <<at, joiner, timers, locker, waiters>>
    PROVE  IInv'
<1>1. TypeInv'
  BY DEF IInv, TypeInv, Wakes
<1>2. \A t \in Tasks : kern.state[t] # "STOPPED" => kern'.state[t] # "STOPPED"
  BY DEF Wakes
<1>3. Started' /\ Registered'
  BY <1>2 DEF IInv, TypeInv, Started, Registered
<1>4. Asleep' /\ Locking' /\ Joining' /\ Sound'
  BY DEF IInv, Asleep, Locking, Joining, Sound, Wakes
<1>5. MutexHandedOn'
  BY DEF IInv, TypeInv, MutexHandedOn, Wakes
<1> QED BY <1>1, <1>3, <1>4, <1>5 DEF IInv

\* The initial states.
LEMMA InitInv == Init => IInv
<1> SUFFICES ASSUME Init PROVE IInv
  OBVIOUS
<1>1. TypeInv
  BY DEF Init, TypeInv, IsKern, States, Calls
<1> QED BY <1>1 DEF Init, IInv, Started, Asleep, Locking, Joining, Registered, Sound, MutexHandedOn

\* The kernel context's steps and the wakeups and switches of a task.
LEMMA KernelSteps ==
    ASSUME IInv,
           \/ SystemRun \/ Poll
           \/ \E t \in Tasks : YieldSwitch(t) \/ \E u \in Tasks : WakeTask(t, u)
    PROVE  IInv'
<1> USE DEF IInv
<1>0. IsKern(kern)
  BY DEF TypeInv
<1>1. CASE SystemRun
  <2>1. Wakes(kern, kern')
    BY <1>0, <1>1, ScheduleFacts DEF SystemRun, Wakes
  <2> QED BY <1>1, <2>1, WakingStep DEF SystemRun
<1>2. CASE PollTimer
  <2>1. \A i \in DOMAIN timers : kern.state[timers[i].task] # "STOPPED"
    BY NodeFacts DEF TypeInv, Asleep, Started
  <2>2. Wakes(kern, TimerWoken(kern, timers))
    BY <1>0, <2>1, TimerWokenFacts DEF TypeInv
  <2>3. kern' = Rebased(TimerWoken(kern, timers))
    BY <1>2 DEF PollTimer
  <2>4. Wakes(kern, kern')
    BY <2>2, <2>3, RebasedFacts DEF Wakes
  <2> QED BY <1>2, <2>4, WakingStep DEF PollTimer
<1>3. ASSUME NEW t \in Tasks, PollEvent(t) PROVE IInv'
  <2>1. t \in pending /\ kern' = Woken(kern, t)
    BY <1>3 DEF PollEvent
  <2>2. kern.state[t] # "STOPPED"
    BY <2>1 DEF Registered
  <2>3. Wakes(kern, kern')
    BY <1>0, <2>1, <2>2, WokenWakes
  <2> QED BY <1>3, <2>3, WakingStep DEF PollEvent
<1>4. ASSUME NEW t \in Tasks, YieldSwitch(t) PROVE IInv'
  <2> DEFINE k == Switched(kern, t)
  <2>1. /\ Schedule(k) /\ IsKern(k)
        /\ k.state = kern.state /\ k.aborted = kern.aborted
    BY <1>0, <1>4, YieldFacts DEF YieldSwitch
  <2> HIDE DEF k
  <2>2. IsKern(kern') /\ kern'.state = kern.state /\ kern'.aborted = kern.aborted
    BY <2>1, ScheduleFacts
  <2>3. Wakes(kern, kern')
    BY <2>2 DEF Wakes
  <2> QED BY <1>4, <2>3, WakingStep DEF YieldSwitch
<1>5. ASSUME NEW t \in Tasks, NEW u \in Tasks, WakeTask(t, u) PROVE IInv'
  <2>1. Wakes(kern, kern')
    BY <1>0, <1>5, WokenWakes DEF WakeTask
  <2> QED BY <1>5, <2>1, WakingStep DEF WakeTask
<1> QED BY <1>1, <1>2, <1>3, <1>4, <1>5 DEF Poll

\* Task t waits, others may have been woken.
Parks(t) ==
    /\ IsKern(kern') /\ kern'.aborted = kern.aborted
    /\ \A u \in Tasks : kern.state[u] # "STOPPED" => kern'.state[u] # "STOPPED"
    /\ kern'.state[t] # "STOPPED"
    /\ \A u \in Tasks : u # t /\ kern.state[u] = "RUNNING" => kern'.state[u] = "RUNNING"

\* A parked task is the only one whose state changes; it waits.
LEMMA ParkedFacts ==
    ASSUME NEW k, Wakes(kern, k), NEW t \in Tasks, Schedule(Parked(k, t))
    PROVE  Parks(t)
<1> DEFINE l == Parked(k, t)
<1>1. /\ Schedule(l) /\ IsKern(l) /\ l.aborted = k.aborted
      /\ l.state = [k.state EXCEPT ![t] = "WAITING"]
  BY YieldFacts DEF Wakes
<1> HIDE DEF l
<1>2. IsKern(kern') /\ kern'.aborted = kern.aborted /\ kern'.state = [k.state EXCEPT ![t] = "WAITING"]
  BY <1>1, ScheduleFacts DEF Wakes
<1>3. k.state \in [Tasks -> States]
  BY DEF Wakes, IsKern
<1> QED BY <1>2, <1>3 DEF Parks, Wakes

\* The elements of the mutex's list are tasks.
LEMMA WaiterFacts ==
    ASSUME TypeInv
    PROVE  /\ \A i \in DOMAIN waiters : waiters[i] \in Tasks
           /\ waiters # <<>> => 1 \in DOMAIN waiters /\ Head(waiters) = waiters[1]
BY DEF TypeInv

\* The part of the invariant that does not depend on the change of `at`.
LEMMA ParkingStep ==
    ASSUME IInv, NEW t \in Tasks, Parks(t), at[t] \notin {"new", "done"},
           NEW c \in Calls \ {"new", "done"}, at' = [at EXCEPT ![t] = c],
           UNCHANGED pending
    PROVE  Started' /\ Registered' /\ Sound' /\ IsKern(kern') /\ at' \in [Tasks -> Calls]
<1> USE DEF IInv
<1>1. IsKern(kern') /\ Sound' /\ at' \in [Tasks -> Calls]
  BY DEF Parks, Sound, TypeInv
<1>2. Started'
  BY DEF Started, TypeInv, Parks
<1>3. Registered'
  BY DEF Registered, TypeInv, Parks
<1> QED BY <1>1, <1>2, <1>3

\* hev_task_yield (HEV_TASK_WAITIO): a task in its own code waits for nothing here.
LEMMA WaitIOStep ==
    ASSUME IInv, NEW t \in Tasks, YieldWaitIO(t)
    PROVE  IInv'
<1> USE DEF IInv
<1>1. Wakes(kern, kern)
  BY DEF Wakes, TypeInv
<1>2. at[t] = "run" /\ UNCHANGED <<at, joiner, timers, pending, locker, waiters>>
  BY DEF YieldWaitIO, InTask
<1>3. Parks(t)
  BY <1>1, ParkedFacts DEF YieldWaitIO
<1>4. at' = [at EXCEPT ![t] = "run"]
  BY <1>2 DEF TypeInv
<1>5. Started' /\ Registered' /\ Sound' /\ TypeInv'
  BY <1>2, <1>3, <1>4, ParkingStep DEF Calls, TypeInv
<1>6. Asleep' /\ Locking' /\ Joining'
  BY <1>2 DEF Asleep, Locking, Joining
<1>7. MutexHandedOn'
  BY <1>2, <1>3, WaiterFacts DEF MutexHandedOn, Locking, Parks
<1> QED BY <1>5, <1>6, <1>7

\* hev_task_timer_wait, up to the yield.
LEMMA SleepStep ==
    ASSUME IInv, NEW t \in Tasks, NEW n \in 1..MaxSleep, Sleep(t, n)
    PROVE  IInv'
<1> USE DEF IInv
<1>1. Wakes(kern, kern)
  BY DEF Wakes, TypeInv
<1>2. /\ at[t] = "run" /\ at' = [at EXCEPT ![t] = "sleep"]
      /\ UNCHANGED <<joiner, pending, locker, waiters>>
  BY DEF Sleep, InTask
<1>3. Parks(t)
  BY <1>1, ParkedFacts DEF Sleep
<1>4. PICK i \in 1..(Len(timers) + 1) :
        timers' = InsertAt(timers, i, [task |-> t, due |-> n, leftmost |-> i = 1])
  BY DEF Sleep
<1> DEFINE e == [task |-> t, due |-> n, leftmost |-> i = 1]
<1>5. e \in Nodes /\ e.task = t
  BY SleepAssumption DEF Nodes
<1> HIDE DEF e
<1>6. /\ timers' \in Seq(Nodes)
      /\ DOMAIN timers' = 1..(Len(timers) + 1)
      /\ \A j \in 1..(Len(timers) + 1) :
            timers'[j] = IF j < i THEN timers[j] ELSE IF j = i THEN e ELSE timers[j - 1]
  BY <1>4, <1>5, InsertAtFacts DEF TypeInv, e
<1>7. Started' /\ Registered' /\ Sound' /\ TypeInv'
  BY <1>2, <1>3, <1>6, ParkingStep DEF Calls, TypeInv
<1>8. \A j \in DOMAIN timers : j \in 1..Len(timers) /\ timers[j].task \in Tasks /\ timers[j].task # t
  BY <1>2, NodeFacts DEF Asleep, TypeInv
<1>9. Asleep'
  <2>1. \A j \in DOMAIN timers' : at'[timers'[j].task] = "sleep"
    BY <1>2, <1>5, <1>6, <1>8, NodeFacts DEF Asleep, TypeInv
  <2>2. ASSUME NEW j \in DOMAIN timers', NEW m \in DOMAIN timers', timers'[j].task = timers'[m].task
        PROVE  j = m
    <3> DEFINE Old(x) == IF x < i THEN x ELSE x - 1
    <3>1. \A x \in DOMAIN timers' : x # i => Old(x) \in DOMAIN timers /\ timers'[x] = timers[Old(x)]
      BY <1>6, <1>8 DEF TypeInv
    <3>2. \A x, y \in DOMAIN timers : timers[x].task = timers[y].task => x = y
      BY DEF Asleep
    <3>3. CASE j = i
      BY <1>5, <1>6, <1>8, <2>2, <3>1, <3>3
    <3>4. CASE m = i
      BY <1>5, <1>6, <1>8, <2>2, <3>1, <3>4
    <3>5. CASE j # i /\ m # i
      <4>1. Old(j) = Old(m)
        BY <2>2, <3>1, <3>2, <3>5
      <4> QED BY <1>6, <3>5, <4>1
    <3> QED BY <3>3, <3>4, <3>5
  <2> QED BY <2>1, <2>2 DEF Asleep
<1>10. Locking' /\ Joining'
  BY <1>2, WaiterFacts DEF Locking, Joining, TypeInv
<1>11. MutexHandedOn'
  BY <1>2, <1>3, WaiterFacts DEF MutexHandedOn, Locking, Parks
<1> QED BY <1>7, <1>9, <1>10, <1>11

\* hev_task_timer_wait, after the yield: the node is gone, the next one may be due.
LEMMA SleepResumeStep ==
    ASSUME IInv, NEW t \in Tasks, SleepResume(t)
    PROVE  IInv'
<1> USE DEF IInv
<1>1. /\ at[t] = "sleep" /\ at' = [at EXCEPT ![t] = "run"]
      /\ UNCHANGED <<joiner, pending, locker, waiters>>
  BY DEF SleepResume
<1>2. PICK i \in DOMAIN timers :
        /\ timers[i].task = t
        /\ timers' = RemoveAt(timers, i)
        /\ kern' = IF i = 1 \/ timers[i].leftmost THEN TimerWoken(kern, timers') ELSE kern
  BY DEF SleepResume
<1>3. /\ timers' \in Seq(Nodes)
      /\ DOMAIN timers' = 1..(Len(timers) - 1)
      /\ \A j \in 1..(Len(timers) - 1) : timers'[j] = IF j < i THEN timers[j] ELSE timers[j + 1]
  BY <1>2, RemoveAtFacts DEF TypeInv
<1> DEFINE Old(x) == IF x < i THEN x ELSE x + 1
<1>4. \A x \in DOMAIN timers' : Old(x) \in DOMAIN timers /\ Old(x) # i /\ timers'[x] = timers[Old(x)]
  <2>1. Len(timers) \in Nat /\ DOMAIN timers = 1..Len(timers)
    BY DEF TypeInv
  <2>2. SUFFICES ASSUME NEW x \in 1..(Len(timers) - 1)
                 PROVE  Old(x) \in 1..Len(timers) /\ Old(x) # i /\ timers'[x] = timers[Old(x)]
    BY <1>3, <2>1
  <2>3. timers'[x] = IF x < i THEN timers[x] ELSE timers[x + 1]
    BY <1>3
  <2> QED BY <1>2, <2>1, <2>3
<1>5. \A x \in DOMAIN timers' : timers'[x].task \in Tasks /\ timers'[x].task # t
  BY <1>2, <1>4, NodeFacts DEF Asleep, TypeInv
<1>6. \A x \in DOMAIN timers' : at[timers'[x].task] = "sleep"
  BY <1>4 DEF Asleep
<1>7. Wakes(kern, kern')
  <2>1. IsKern(kern) /\ Wakes(kern, kern)
    BY DEF TypeInv, Wakes
  <2>2. \A x \in DOMAIN timers' : kern.state[timers'[x].task] # "STOPPED"
    BY <1>5, <1>6 DEF Started
  <2>3. Wakes(kern, TimerWoken(kern, timers'))
    BY <1>3, <2>1, <2>2, TimerWokenFacts
  <2> QED BY <1>2, <2>1, <2>3
<1>8. \A u \in Tasks : kern.state[u] # "STOPPED" => kern'.state[u] # "STOPPED"
  BY <1>7 DEF Wakes
<1>9. TypeInv' /\ Sound'
  BY <1>1, <1>3, <1>7 DEF TypeInv, Sound, Wakes, Calls
<1>10. Started' /\ Registered'
  BY <1>1, <1>8 DEF Started, Registered, TypeInv
<1>11. Asleep'
  <2>1. \A x \in DOMAIN timers' : at'[timers'[x].task] = "sleep"
    BY <1>1, <1>5, <1>6 DEF TypeInv
  <2>2. ASSUME NEW x \in DOMAIN timers', NEW y \in DOMAIN timers', timers'[x].task = timers'[y].task
        PROVE  x = y
    <3>1. Old(x) = Old(y)
      BY <1>4, <2>2 DEF Asleep
    <3> QED BY <1>3, <3>1
  <2> QED BY <2>1, <2>2 DEF Asleep
<1>12. Locking' /\ Joining'
  BY <1>1, WaiterFacts DEF Locking, Joining, TypeInv
<1>13. MutexHandedOn'
  BY <1>1, <1>7, WaiterFacts DEF MutexHandedOn, Wakes
<1> QED BY <1>9, <1>10, <1>11, <1>12, <1>13

\* hev_task_join: a task joined for good has ended, the other is woken.
LEMMA JoinStep ==
    ASSUME IInv, NEW t \in Tasks, NEW joined \in SUBSET Tasks,
           at[t] \in {"run", "join"}, JoinLoop(t, joined),
           \A u \in joined : at[u] # "new",
           \A u \in Tasks : joiner'[u] = t /\ at[u] # "new" => u \in joined \/ at[u] = "done",
           joiner' \in [Tasks -> Tasks \cup {None}],
           \A u \in Tasks : u \notin joined => joiner'[u] = joiner[u],
           \A u \in joined : joiner'[u] = t,
           UNCHANGED <<timers, pending, locker, waiters>>
    PROVE  IInv'
<1> USE DEF IInv
<1>0. IsKern(kern) /\ Wakes(kern, kern)
  BY DEF TypeInv, Wakes
<1>1. CASE joined \cap Live(kern) = {} /\ at' = [at EXCEPT ![t] = "run"] /\ UNCHANGED <<cpu, kern>>
  <2>1. \A u \in joined : at[u] = "done"
    BY <1>1 DEF Live, Started, TypeInv, Calls
  <2>2. TypeInv' /\ Started' /\ Registered' /\ Sound'
    BY <1>1 DEF TypeInv, Calls, Started, Registered, Sound
  <2>3. Asleep' /\ Locking'
    BY <1>1, NodeFacts, WaiterFacts DEF Asleep, Locking, TypeInv
  <2>4. Joining'
    BY <1>1, <2>1 DEF Joining, TypeInv
  <2>5. MutexHandedOn'
    BY <1>1 DEF MutexHandedOn
  <2> QED BY <2>2, <2>3, <2>4, <2>5
<1>2. ASSUME NEW u \in joined \cap Live(kern),
             at' = [at EXCEPT ![t] = "join"], Schedule(Parked(Woken(kern, u), t))
      PROVE  IInv'
  <2>1. Wakes(kern, Woken(kern, u))
    BY <1>0, WokenWakes DEF Live
  <2>2. Parks(t)
    BY <1>2, <2>1, ParkedFacts
  <2>3. Started' /\ Registered' /\ Sound' /\ TypeInv'
    BY <1>2, <2>2, ParkingStep DEF TypeInv, Calls
  <2>4. Asleep' /\ Locking'
    BY <1>2, NodeFacts, WaiterFacts DEF Asleep, Locking, TypeInv
  <2>5. Joining'
    BY <1>2 DEF Joining, TypeInv
  <2>6. MutexHandedOn'
    BY <2>2, WaiterFacts DEF MutexHandedOn, Locking, Parks
  <2> QED BY <2>3, <2>4, <2>5, <2>6
<1> QED BY <1>1, <1>2 DEF JoinLoop

\* hev_task_join when it is called and when it goes on after a yield.
LEMMA JoinSteps ==
    ASSUME IInv, NEW t \in Tasks, JoinResume(t) \/ \E u \in Tasks : Join(t, u)
    PROVE  IInv'
<1>1. CASE JoinResume(t)
  <2>0. PICK joined \in SUBSET Tasks : joined = {u \in Tasks : joiner[u] = t}
    OBVIOUS
  <2>1. \A u \in joined : at[u] # "new"
    BY <2>0, NoneAssumption DEF IInv, Joining
  <2>2. /\ at[t] = "join" /\ JoinLoop(t, joined)
        /\ joiner' = joiner
        /\ UNCHANGED <<timers, pending, locker, waiters>>
    BY <1>1, <2>0 DEF JoinResume
  <2>3. /\ \A u \in Tasks : joiner'[u] = t /\ at[u] # "new" => u \in joined \/ at[u] = "done"
        /\ \A u \in Tasks : u \notin joined => joiner'[u] = joiner[u]
        /\ \A u \in joined : joiner'[u] = t
        /\ joiner' \in [Tasks -> Tasks \cup {None}]
    BY <2>0, <2>2 DEF IInv, TypeInv
  <2>4. at[t] \in {"run", "join"}
    BY <2>2
  <2> QED BY <2>1, <2>2, <2>3, <2>4, JoinStep
<1>2. ASSUME NEW u \in Tasks, Join(t, u) PROVE IInv'
  <2>1. /\ at[t] = "run" /\ at[u] # "new" /\ JoinLoop(t, {u})
        /\ joiner' = [joiner EXCEPT ![u] = t]
        /\ UNCHANGED <<timers, pending, locker, waiters>>
    BY <1>2 DEF Join, InTask
  <2>2. \A v \in Tasks : joiner'[v] = t /\ at[v] # "new" => v \in {u} \/ at[v] = "done"
    BY <2>1, NoneAssumption DEF IInv, TypeInv, Joining
  <2>3. /\ joiner' \in [Tasks -> Tasks \cup {None}]
        /\ \A v \in Tasks : v \notin {u} => joiner'[v] = joiner[v]
        /\ \A v \in {u} : joiner'[v] = t /\ at[v] # "new"
    BY <2>1 DEF IInv, TypeInv
  <2>4. at[t] \in {"run", "join"} /\ {u} \in SUBSET Tasks
    BY <2>1
  <2> QED BY <2>1, <2>2, <2>3, <2>4, JoinStep
<1> QED BY <1>1, <1>2

\* hev_task_mutex_lock: a task that finds the mutex taken becomes the newest waiter.
LEMMA LockStep ==
    ASSUME IInv, NEW t \in Tasks, Lock(t)
    PROVE  IInv'
<1> USE DEF IInv
<1>0. at[t] = "run" /\ UNCHANGED <<joiner, timers, pending>> /\ Wakes(kern, kern)
  BY DEF Lock, InTask, Wakes, TypeInv
<1>1. CASE locker = None /\ locker' = t /\ UNCHANGED <<cpu, kern, at, waiters>>
  BY <1>0, <1>1, NoneAssumption
     DEF TypeInv, Started, Asleep, Locking, Joining, Registered, Sound, MutexHandedOn
<1>2. CASE /\ locker # None /\ UNCHANGED locker /\ waiters' = <<t>> \o waiters
           /\ at' = [at EXCEPT ![t] = "lock"] /\ Schedule(Parked(kern, t))
  <2>1. Parks(t)
    BY <1>0, <1>2, ParkedFacts
  <2>2. /\ waiters' \in Seq(Tasks) /\ DOMAIN waiters' = 1..(Len(waiters) + 1)
        /\ waiters'[1] = t
        /\ \A i \in 2..(Len(waiters) + 1) : i - 1 \in DOMAIN waiters /\ waiters'[i] = waiters[i - 1]
    BY <1>2 DEF TypeInv
  <2>3. Started' /\ Registered' /\ Sound' /\ TypeInv'
    BY <1>0, <1>2, <2>1, <2>2, ParkingStep DEF TypeInv, Calls
  <2>4. Asleep' /\ Joining'
    BY <1>0, <1>2, NodeFacts DEF Asleep, Joining, TypeInv
  <2>5. \A i \in DOMAIN waiters : waiters[i] \in Tasks /\ waiters[i] # t /\ at[waiters[i]] = "lock"
    BY <1>0, WaiterFacts DEF Locking
  <2>6. Locking'
    <3>1. \A i \in DOMAIN waiters' : i = 1 \/ i \in 2..(Len(waiters) + 1)
      BY <2>2
    <3>2. \A i \in DOMAIN waiters' : at'[waiters'[i]] = "lock"
      BY <1>2, <2>2, <2>5, <3>1 DEF TypeInv
    <3>3. \A i, j \in DOMAIN waiters' : waiters'[i] = waiters'[j] => i = j
      BY <2>2, <2>5, <3>1 DEF Locking
    <3>4. ASSUME NEW u \in Tasks, at'[u] = "lock" PROVE \E i \in DOMAIN waiters' : waiters'[i] = u
      <4>1. CASE u = t
        BY <2>2, <4>1
      <4>2. CASE u # t
        <5>1. PICK i \in DOMAIN waiters : waiters[i] = u
          BY <1>2, <3>4, <4>2 DEF Locking, TypeInv
        <5>2. i + 1 \in 2..(Len(waiters) + 1) /\ waiters'[i + 1] = waiters[(i + 1) - 1] /\ (i + 1) - 1 = i
          BY <2>2 DEF TypeInv
        <5> QED BY <2>2, <5>1, <5>2
      <4> QED BY <4>1, <4>2
    <3> QED BY <3>2, <3>3, <3>4 DEF Locking
  <2>7. MutexHandedOn'
    BY <1>2 DEF MutexHandedOn
  <2> QED BY <2>3, <2>4, <2>6, <2>7
<1> QED BY <1>1, <1>2 DEF Lock

\* ... and goes on when it is the newest and the mutex is free.
LEMMA LockResumeStep ==
    ASSUME IInv, NEW t \in Tasks, LockResume(t)
    PROVE  IInv'
<1> USE DEF IInv
<1>0. at[t] = "lock" /\ UNCHANGED <<joiner, timers, pending>> /\ Wakes(kern, kern)
  BY DEF LockResume, Wakes, TypeInv
<1>1. CASE /\ locker = None /\ Head(waiters) = t /\ waiters' = Tail(waiters) /\ locker' = t
           /\ at' = [at EXCEPT ![t] = "run"] /\ UNCHANGED <<cpu, kern>>
  <2>1. /\ waiters' \in Seq(Tasks) /\ DOMAIN waiters' = 1..(Len(waiters) - 1)
        /\ \A i \in DOMAIN waiters' : i + 1 \in DOMAIN waiters /\ waiters'[i] = waiters[i + 1]
        /\ 1 \in DOMAIN waiters /\ waiters[1] = t
        /\ \A i \in DOMAIN waiters : i = 1 \/ i - 1 \in DOMAIN waiters'
    <3>1. waiters # <<>>
      BY <1>0 DEF Locking
    <3> QED BY <1>1, <3>1 DEF TypeInv
  <2>2. TypeInv' /\ Started' /\ Registered' /\ Sound'
    BY <1>0, <1>1, <2>1 DEF TypeInv, Calls, Started, Registered, Sound
  <2>3. Asleep' /\ Joining'
    BY <1>0, <1>1, NodeFacts DEF Asleep, Joining, TypeInv
  <2>4. Locking'
    <3>1. /\ \A i \in DOMAIN waiters' : at'[waiters'[i]] = "lock"
          /\ \A i, j \in DOMAIN waiters' : waiters'[i] = waiters'[j] => i = j
      BY <1>1, <2>1, WaiterFacts DEF Locking, TypeInv
    <3>2. ASSUME NEW u \in Tasks, at'[u] = "lock" PROVE \E i \in DOMAIN waiters' : waiters'[i] = u
      <4>1. u # t /\ at[u] = "lock"
        BY <1>1, <3>2 DEF TypeInv
      <4>2. PICK i \in DOMAIN waiters : waiters[i] = u
        BY <4>1 DEF Locking
      <4>3. i - 1 \in DOMAIN waiters' /\ waiters'[i - 1] = waiters[(i - 1) + 1] /\ (i - 1) + 1 = i
        BY <2>1, <4>1, <4>2 DEF TypeInv
      <4> QED BY <4>2, <4>3
    <3> QED BY <3>1, <3>2 DEF Locking
  <2>5. MutexHandedOn'
    BY <1>1, NoneAssumption DEF MutexHandedOn
  <2> QED BY <2>2, <2>3, <2>4, <2>5
<1>2. CASE /\ locker # None \/ Head(waiters) # t
           /\ Schedule(Parked(kern, t)) /\ UNCHANGED <<at, locker, waiters>>
  <2>1. Parks(t)
    BY <1>0, <1>2, ParkedFacts
  <2>2. at' = [at EXCEPT ![t] = "lock"]
    BY <1>0, <1>2 DEF TypeInv
  <2>3. Started' /\ Registered' /\ Sound' /\ TypeInv'
    BY <1>0, <1>2, <2>1, <2>2, ParkingStep DEF TypeInv, Calls
  <2>4. Asleep' /\ Locking' /\ Joining'
    BY <1>0, <1>2 DEF Asleep, Locking, Joining
  <2>5. MutexHandedOn'
    BY <1>2, <2>1, WaiterFacts DEF MutexHandedOn, Parks
  <2> QED BY <2>3, <2>4, <2>5
<1> QED BY <1>1, <1>2 DEF LockResume

\* hev_task_mutex_unlock: the newest waiter is alive and is woken.
LEMMA UnlockStep ==
    ASSUME IInv, NEW t \in Tasks, Unlock(t)
    PROVE  IInv'
<1> USE DEF IInv
<1>0. IsKern(kern) /\ UNCHANGED <<at, joiner, timers, pending, waiters>>
  BY DEF Unlock, TypeInv
<1>1. CASE waiters = <<>>
  <2>1. kern' = kern /\ waiters' = <<>>
    BY <1>1 DEF Unlock
  <2> QED BY <1>0, <2>1
       DEF TypeInv, Started, Asleep, Locking, Joining, Registered, Sound, MutexHandedOn
<1>2. CASE waiters # <<>>
  <2> DEFINE h == Head(waiters)
  <2>1. h \in Tasks /\ at[h] = "lock"
    BY <1>2, WaiterFacts DEF Locking
  <2>2. kern.state[h] # "STOPPED" /\ kern' = Woken(kern, h)
    BY <1>2, <2>1 DEF Unlock, Started
  <2> HIDE DEF h
  <2>3. Wakes(kern, kern')
    BY <1>0, <2>1, <2>2, WokenWakes
  <2>4. kern'.state[h] = "RUNNING"
    <3>1. kern.state \in [Tasks -> States]
      BY <1>0 DEF IsKern
    <3>2. kern'.state = IF kern.state[h] = "WAITING" THEN [kern.state EXCEPT ![h] = "RUNNING"]
                        ELSE kern.state
      BY <1>0, <2>1, <2>2, WokenFacts
    <3> QED BY <2>1, <2>2, <3>1, <3>2 DEF States
  <2>5. \A u \in Tasks : kern.state[u] # "STOPPED" => kern'.state[u] # "STOPPED"
    BY <2>3 DEF Wakes
  <2>6. TypeInv' /\ Sound'
    BY <1>0, <2>3 DEF TypeInv, Sound, Wakes
  <2>7. Started' /\ Registered' /\ Asleep' /\ Locking' /\ Joining'
    BY <1>0, <2>5 DEF Started, Registered, Asleep, Locking, Joining, TypeInv
  <2>8. MutexHandedOn'
    BY <1>0, <2>4 DEF MutexHandedOn, h
  <2> QED BY <2>6, <2>7, <2>8
<1> QED BY <1>1, <1>2

\* hev_task_run of a new task, which nobody can have joined.
LEMMA RunStep ==
    ASSUME IInv, NEW t \in Tasks, RunTask(t)
    PROVE  IInv'
<1> USE DEF IInv
<1>0. /\ at[t] = "new" /\ at' = [at EXCEPT ![t] = "run"]
      /\ UNCHANGED <<joiner, timers, pending, locker, waiters>>
  BY DEF RunTask
<1>1. PICK base : kern' = InsertTask([kern EXCEPT !.key[t] = priority[t] + base, !.state[t] = "RUNNING"], t)
  BY DEF RunTask
<1> DEFINE k == [kern EXCEPT !.key[t] = priority[t] + base, !.state[t] = "RUNNING"]
<1>2. IsKern(k) /\ k.state = [kern.state EXCEPT ![t] = "RUNNING"] /\ k.aborted = kern.aborted
  BY DEF TypeInv, IsKern, States
<1> HIDE DEF k
<1>3. IsKern(kern') /\ kern'.state = [kern.state EXCEPT ![t] = "RUNNING"] /\ kern'.aborted = kern.aborted
  BY <1>1, <1>2, InsertTaskFacts DEF k
<1>4. kern.state \in [Tasks -> States]
  BY DEF TypeInv, IsKern
<1>5. TypeInv' /\ Started' /\ Registered' /\ Sound'
  BY <1>0, <1>3, <1>4 DEF TypeInv, Calls, Started, Registered, Sound
<1>6. Asleep' /\ Locking'
  BY <1>0, NodeFacts, WaiterFacts DEF Asleep, Locking, TypeInv
<1>7. Joining'
  BY <1>0 DEF Joining, TypeInv
<1>8. MutexHandedOn'
  BY <1>0, <1>3, <1>4, WaiterFacts DEF MutexHandedOn
<1> QED BY <1>5, <1>6, <1>7, <1>8

\* The executer: the joiner, if any, waits in its loop, so it is not stopped.
LEMMA ReturnStep ==
    ASSUME IInv, NEW t \in Tasks, Return(t)
    PROVE  IInv'
<1> USE DEF IInv
<1>0. /\ at[t] = "run" /\ at' = [at EXCEPT ![t] = "done"] /\ pending' = pending \ {t}
      /\ UNCHANGED <<joiner, timers, locker, waiters>>
  BY DEF Return, InTask
<1>1. PICK k : /\ k = IF joiner[t] = None THEN kern ELSE Woken(kern, joiner[t])
               /\ Schedule(Removed(k, t))
  BY DEF Return
<1>2. Wakes(kern, k)
  <2>1. CASE joiner[t] = None
    BY <1>1, <2>1 DEF Wakes, TypeInv
  <2>2. CASE joiner[t] # None
    <3>1. joiner[t] \in Tasks /\ kern.state[joiner[t]] # "STOPPED"
      BY <1>0, <2>2 DEF Joining, Started, TypeInv
    <3> QED BY <1>1, <2>2, <3>1, WokenWakes DEF TypeInv
  <2> QED BY <2>1, <2>2
<1> DEFINE l == Removed(k, t)
<1>3. /\ Schedule(l) /\ IsKern(l) /\ l.aborted = k.aborted
      /\ l.state = [k.state EXCEPT ![t] = "STOPPED"]
  BY <1>1, <1>2, YieldFacts DEF Wakes
<1> HIDE DEF l
<1>4. /\ IsKern(kern') /\ kern'.aborted = kern.aborted
      /\ kern'.state = [k.state EXCEPT ![t] = "STOPPED"]
  BY <1>2, <1>3, ScheduleFacts DEF Wakes
<1>5. k.state \in [Tasks -> States]
  BY <1>2 DEF Wakes, IsKern
<1>6. \A u \in Tasks : u # t =>
        /\ kern.state[u] # "STOPPED" => kern'.state[u] # "STOPPED"
        /\ kern.state[u] = "RUNNING" => kern'.state[u] = "RUNNING"
  BY <1>2, <1>4, <1>5 DEF Wakes
<1>7. TypeInv' /\ Started' /\ Registered' /\ Sound'
  BY <1>0, <1>4, <1>6 DEF TypeInv, Calls, Started, Registered, Sound
<1>8. Asleep' /\ Locking'
  BY <1>0, NodeFacts, WaiterFacts DEF Asleep, Locking, TypeInv
<1>9. Joining'
  BY <1>0 DEF Joining, TypeInv
<1>10. MutexHandedOn'
  BY <1>0, <1>6, WaiterFacts DEF MutexHandedOn, Locking
<1> QED BY <1>7, <1>8, <1>9, <1>10

\* An event is registered for a live task only; time moves no node.
LEMMA OutsideSteps ==
    ASSUME IInv, Tick \/ (\E t \in Tasks : Event(t)) \/ UNCHANGED vars
    PROVE  IInv'
<1> USE DEF IInv
<1>1. CASE Tick
  <2>1. /\ timers' = [i \in DOMAIN timers |->
                        [timers[i] EXCEPT !.due = IF @ > 0 THEN @ - 1 ELSE 0]]
        /\ UNCHANGED <<kern, at, joiner, pending, locker, waiters>>
    BY <1>1 DEF Tick
  <2>2. \A n \in Nodes : /\ [n EXCEPT !.due = IF @ > 0 THEN @ - 1 ELSE 0] \in Nodes
                         /\ [n EXCEPT !.due = IF @ > 0 THEN @ - 1 ELSE 0].task = n.task
    BY DEF Nodes
  <2>3. /\ DOMAIN timers' = DOMAIN timers
        /\ \A i \in DOMAIN timers : timers'[i] \in Nodes /\ timers'[i].task = timers[i].task
    BY <2>1, <2>2, NodeFacts DEF TypeInv
  <2>4. timers' \in Seq(Nodes)
    <3>1. timers' \in [1..Len(timers) -> Nodes] /\ Len(timers) \in Nat
      BY <2>1, <2>3 DEF TypeInv
    <3> QED BY <3>1
  <2>5. TypeInv' /\ Started' /\ Registered' /\ Sound' /\ Locking' /\ Joining' /\ MutexHandedOn'
    BY <2>1, <2>4 DEF TypeInv, Started, Registered, Sound, Locking, Joining, MutexHandedOn
  <2>6. Asleep'
    BY <2>1, <2>3 DEF Asleep
  <2> QED BY <2>5, <2>6
<1>2. ASSUME NEW t \in Tasks, Event(t) PROVE IInv'
  BY <1>2 DEF Event, TypeInv, Started, Registered, Sound, Asleep, Locking, Joining, MutexHandedOn
<1>3. CASE UNCHANGED vars
  BY <1>3 DEF vars, TypeInv, Started, Registered, Sound, Asleep, Locking, Joining, MutexHandedOn
<1> QED BY <1>1, <1>2, <1>3

\* Every step keeps the invariant.
LEMMA Inductive == IInv /\ [Next]_vars => IInv'
<1> SUFFICES ASSUME IInv, [Next]_vars PROVE IInv'
  OBVIOUS
<1>1. CASE SystemRun \/ Poll
  BY <1>1, KernelSteps
<1>2. CASE Tick \/ UNCHANGED vars
  BY <1>2, OutsideSteps
<1>3. ASSUME NEW t \in Tasks, RunTask(t) \/ Leave(t) \/ Resume(t) \/ Call(t) \/ Event(t)
      PROVE  IInv'
  <2>1. CASE RunTask(t)
    BY <2>1, RunStep
  <2>2. CASE Leave(t)
    BY <2>2, KernelSteps, WaitIOStep, SleepStep, ReturnStep DEF Leave
  <2>3. CASE Resume(t)
    BY <2>3, SleepResumeStep, JoinSteps, LockResumeStep DEF Resume
  <2>4. CASE Call(t)
    BY <2>4, LockStep, UnlockStep, KernelSteps, JoinSteps DEF Call
  <2>5. CASE Event(t)
    BY <2>5, OutsideSteps
  <2> QED BY <1>3, <2>1, <2>2, <2>3, <2>4, <2>5
<1> QED BY <1>1, <1>2, <1>3 DEF Next

\* No wakeup of the kernel, the timers, the mutex or the executer reaches a task
\* that has stopped, for any number of tasks and any order of their calls.
THEOREM NeverAborts == Spec => []NoAbort
<1>1. IInv => NoAbort
  BY DEF IInv, Sound, NoAbort
<1> QED BY <1>1, InitInv, Inductive, PTL DEF Spec

\* A free mutex with waiters always has its next owner on the way.
THEOREM MutexIsHandedOn == Spec => []MutexHandedOn
<1>1. IInv => MutexHandedOn
  BY DEF IInv
<1> QED BY <1>1, InitInv, Inductive, PTL DEF Spec

=============================================================================
