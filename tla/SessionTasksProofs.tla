------------------------- MODULE SessionTasksProofs -------------------------
(****************************************************************************)
(* For any number of sessions and any limit: the list of sessions holds      *)
(* exactly the tasks that run, so terminating those on the list wakes no     *)
(* stopped task, and lwIP's timers run while it is not empty. A limit below  *)
(* two is the exception: the session that is just accepted is then the       *)
(* oldest, or the only one.                                                  *)
(****************************************************************************)
EXTENDS SessionTasks, TLAPS

TaskStates == {"stopped", "ready", "waiting", "flooded", "locking"}
Listable == {"ready", "waiting", "flooded"}
Running == {s \in Sessions : task[s] \in Listable}

Elems(l) == {l[k] : k \in 1 .. Len(l)}
NoDup(l) == \A j, k \in 1 .. Len(l) : l[j] = l[k] => j = k

TypeInv ==
    /\ max_session_count \in Int
    /\ task \in [Sessions -> TaskStates]
    /\ session_set \in Seq(Sessions)
    /\ fresh \subseteq Sessions
    /\ timer \in {"ready", "waiting", "sleeping", "locking", "stopped"}

\* The list holds every session whose task runs, once, and they are counted.
Listed ==
    /\ Elems(session_set) = Running
    /\ NoDup(session_set)
    /\ session_count = Len(session_set)

\* The tasks of sessions to come have not been started; the timer task ends last.
Unstarted == \A s \in fresh : task[s] = "stopped"
TimerStays == run => timer # "stopped"

SInv == TypeInv /\ Listed /\ Unstarted /\ TimerStays /\ TimersRun

-----------------------------------------------------------------------------
(* hev-list.c *)

(* hev_list_del: the list without the node, in the same order.                *)
LEMMA UnlinkedFacts ==
    ASSUME TypeInv, Listed, NEW s \in Running
    PROVE  LET l == Unlinked(s) IN
           /\ session_set # <<>>
           /\ l \in Seq(Sessions) /\ Len(l) = Len(session_set) - 1
           /\ Elems(l) = Running \ {s} /\ NoDup(l)
  <1> DEFINE k == CHOOSE i \in 1 .. Len(session_set) : session_set[i] = s
             l == Unlinked(s)
             n == Len(session_set)
  <1>1. k \in 1 .. n /\ session_set[k] = s
    BY DEF Listed, Elems
  <1>2. n \in Nat /\ n >= 1 /\ session_set \in Seq(Sessions) /\ session_set # <<>>
    BY <1>1 DEF TypeInv
  <1>3. l = [j \in 1 .. n - 1 |-> IF j < k THEN session_set[j] ELSE session_set[j + 1]]
    BY DEF Unlinked
  <1> HIDE DEF k, l
  <1>4. l \in Seq(Sessions) /\ Len(l) = n - 1
    <2>1. \A j \in 1 .. n - 1 :
             (IF j < k THEN session_set[j] ELSE session_set[j + 1]) \in Sessions
      BY <1>1, <1>2
    <2>2. n - 1 \in Nat
      BY <1>2
    <2> QED
      BY <1>3, <2>1, <2>2
  <1>5. \A j \in 1 .. n - 1 : l[j] = IF j < k THEN session_set[j] ELSE session_set[j + 1]
    BY <1>3
  <1>6. \A i, j \in 1 .. n : session_set[i] = session_set[j] => i = j
    BY DEF Listed, NoDup
  <1>7. NoDup(l)
    <2> SUFFICES ASSUME NEW i \in 1 .. n - 1, NEW j \in 1 .. n - 1, l[i] = l[j] PROVE i = j
      BY <1>4 DEF NoDup
    <2> DEFINE ii == IF i < k THEN i ELSE i + 1
               jj == IF j < k THEN j ELSE j + 1
    <2>1. ii \in 1 .. n /\ jj \in 1 .. n /\ session_set[ii] = session_set[jj]
      BY <1>1, <1>2, <1>5
    <2>2. ii = jj
      BY <1>6, <2>1
    <2> QED
      BY <1>1, <1>2, <2>2
  <1>8. Elems(l) \subseteq Running \ {s}
    <2> SUFFICES ASSUME NEW j \in 1 .. n - 1 PROVE l[j] \in Running /\ l[j] # s
      BY <1>4 DEF Elems
    <2> DEFINE jj == IF j < k THEN j ELSE j + 1
    <2>1. jj \in 1 .. n /\ jj # k /\ l[j] = session_set[jj]
      BY <1>1, <1>2, <1>5
    <2> QED
      BY <1>1, <1>6, <2>1 DEF Listed, Elems
  <1>9. Running \ {s} \subseteq Elems(l)
    <2> SUFFICES ASSUME NEW t \in Running, t # s PROVE t \in Elems(l)
      OBVIOUS
    <2>1. PICK i \in 1 .. n : session_set[i] = t
      BY DEF Listed, Elems
    <2> DEFINE j == IF i < k THEN i ELSE i - 1
    <2>2. i # k
      BY <1>1, <2>1
    <2>3. j \in 1 .. n - 1 /\ l[j] = t
      BY <1>1, <1>2, <1>5, <2>1, <2>2
    <2> QED
      BY <1>4, <2>3 DEF Elems
  <1> QED
    BY <1>2, <1>4, <1>7, <1>8, <1>9 DEF l

(* hev_list_add_tail of a node that is in no list.                            *)
LEMMA LinkedFacts ==
    ASSUME NEW l \in Seq(Sessions), NoDup(l), NEW s \in Sessions \ Elems(l)
    PROVE  LET m == Append(l, s) IN
           /\ m \in Seq(Sessions) /\ Len(m) = Len(l) + 1 /\ m # <<>>
           /\ Elems(m) = Elems(l) \cup {s} /\ NoDup(m)
           /\ l # <<>> => Head(m) \in Elems(l)
  <1> DEFINE m == Append(l, s)
  <1>1. m \in Seq(Sessions) /\ Len(m) = Len(l) + 1 /\ Len(l) \in Nat /\ m # <<>>
    OBVIOUS
  <1>2. \A j \in 1 .. Len(l) + 1 : m[j] = IF j = Len(l) + 1 THEN s ELSE l[j]
    BY <1>1
  <1>3. l # <<>> => Head(m) = l[1] /\ 1 \in 1 .. Len(l)
    BY <1>1, <1>2
  <1> HIDE DEF m
  <1>4. NoDup(m)
    BY <1>1, <1>2 DEF NoDup, Elems
  <1>5. Elems(m) = Elems(l) \cup {s}
    BY <1>1, <1>2 DEF Elems
  <1>6. l # <<>> => Head(m) \in Elems(l)
    BY <1>3 DEF Elems
  <1> QED
    BY <1>1, <1>4, <1>5, <1>6 DEF m

-----------------------------------------------------------------------------
(* The invariant *)

(* hev_task_wakeup makes no task stop and starts none.                        *)
LEMMA TerminateFacts ==
    ASSUME TypeInv, NEW victims, Terminate(victims)
    PROVE  /\ task' \in [Sessions -> TaskStates]
           /\ Running' = Running
           /\ \A s \in Sessions : task'[s] = "stopped" <=> task[s] = "stopped"
  <1>1. task' = [s \in Sessions |-> IF s \in victims THEN Woken(task[s]) ELSE task[s]]
    BY DEF Terminate
  <1>2. \A s \in Sessions :
           /\ task[s] \in TaskStates /\ Woken(task[s]) \in TaskStates
           /\ Woken(task[s]) \in Listable <=> task[s] \in Listable
           /\ Woken(task[s]) = "stopped" <=> task[s] = "stopped"
    BY DEF TypeInv, TaskStates, Woken, Listable
  <1> QED
    BY <1>1, <1>2 DEF Running

(* A tunnel that has just been started has no session.                        *)
LEMMA InitSInv == Init => SInv
  <1> SUFFICES ASSUME Init PROVE SInv
    OBVIOUS
  <1>1. TypeInv /\ Unstarted /\ TimerStays /\ TimersRun
    BY SessionTasksAssumption DEF Init, TypeInv, TaskStates, Unstarted, TimerStays, TimersRun
  <1>2. Running = {} /\ session_set = <<>> /\ session_count = 0
    BY DEF Init, Running, Listable
  <1>3. Listed
    BY <1>2 DEF Listed, Elems, NoDup
  <1> QED
    BY <1>1, <1>3 DEF SInv

(* Every step of a session, of the lwIP tasks and of the event task keeps it. *)
LEMMA NextSInv == SInv /\ [Next]_vars => SInv'
  <1> SUFFICES ASSUME SInv, [Next]_vars PROVE SInv'
    OBVIOUS
  <1> USE DEF sessionVars, Runs
  <1>0. /\ TypeInv /\ Listed /\ Unstarted /\ TimerStays /\ TimersRun
        /\ task \in [Sessions -> TaskStates] /\ session_set \in Seq(Sessions)
    BY DEF SInv, TypeInv
  <1>1. ASSUME UNCHANGED <<max_session_count, session_set, session_count>>, fresh' \subseteq fresh,
               task' \in [Sessions -> TaskStates], Running' = Running,
               \A s \in Sessions : task[s] = "stopped" => task'[s] = "stopped",
               timer' \in {"ready", "waiting", "sleeping", "locking", "stopped"},
               run' => run /\ timer' # "stopped",
               timer' = "waiting" => session_set = <<>>
        PROVE  SInv'
    <2>1. TypeInv' /\ Unstarted' /\ TimerStays' /\ TimersRun'
      BY <1>0, <1>1 DEF TypeInv, Unstarted, TimerStays, TimersRun
    <2>2. Listed'
      BY <1>0, <1>1 DEF Listed, Elems, NoDup
    <2> QED
      BY <2>1, <2>2 DEF SInv
  <1>2. /\ timer \in {"ready", "waiting", "sleeping", "locking", "stopped"}
        /\ run => timer # "stopped"
        /\ timer = "waiting" => session_set = <<>>
    BY <1>0 DEF TypeInv, TimerStays, TimersRun
  <1>3. ASSUME NEW s \in Sessions, SessionYield(s) PROVE SInv'
    <2>1. /\ s \in Running /\ session_set' = UpdateSession(s)
          /\ UNCHANGED <<max_session_count, run, session_count, fresh, task, timer>>
      BY <1>3 DEF SessionYield, Running, Listable
    <2>2. CASE max_session_count = 0
      <3>1. session_set' = session_set
        BY <2>1, <2>2 DEF UpdateSession
      <3> QED
        BY <1>0, <1>1, <1>2, <2>1, <3>1 DEF Running
    <2>3. CASE max_session_count # 0
      <3> DEFINE l == Unlinked(s)
      <3>1. /\ session_set # <<>> /\ l \in Seq(Sessions) /\ Len(l) = Len(session_set) - 1
            /\ Elems(l) = Running \ {s} /\ NoDup(l)
        BY <1>0, <2>1, UnlinkedFacts
      <3>2. session_set' = Append(l, s) /\ s \in Sessions \ Elems(l)
        BY <2>1, <2>3, <3>1 DEF UpdateSession
      <3> HIDE DEF l
      <3>3. /\ session_set' \in Seq(Sessions) /\ Len(session_set') = Len(l) + 1
            /\ Elems(session_set') = Elems(l) \cup {s} /\ NoDup(session_set')
        BY <3>1, <3>2, LinkedFacts
      <3>4. Len(session_set) \in Nat
        BY <1>0
      <3>5. Len(session_set') = Len(session_set)
        BY <3>1, <3>3, <3>4
      <3>6. Running' = Running
        BY <2>1 DEF Running
      <3>7. Listed'
        BY <1>0, <2>1, <3>1, <3>3, <3>5, <3>6 DEF Listed
      <3>8. TypeInv' /\ Unstarted' /\ TimerStays' /\ TimersRun'
        BY <1>0, <2>1, <3>1, <3>3 DEF TypeInv, Unstarted, TimerStays, TimersRun
      <3> QED
        BY <3>7, <3>8 DEF SInv
    <2> QED
      BY <2>2, <2>3
  <1>4. ASSUME NEW s \in Sessions, SessionWait(s) \/ SessionWake(s) \/ SessionFlooded(s)
        PROVE  SInv'
    <2>1. /\ UNCHANGED <<max_session_count, session_set, session_count, fresh, timer, run>>
          /\ \E to \in Listable : task' = [task EXCEPT ![s] = to]
          /\ task[s] \in Listable
      BY <1>4 DEF SessionWait, SessionWake, SessionFlooded, Listable
    <2>2. /\ task' \in [Sessions -> TaskStates] /\ Running' = Running
          /\ \A t \in Sessions : task[t] = "stopped" => task'[t] = "stopped"
      BY <1>0, <2>1 DEF Running, TaskStates, Listable
    <2> QED
      BY <1>1, <1>2, <2>1, <2>2
  <1>5. ASSUME NEW s \in Sessions, SessionEnd(s) PROVE SInv'
    <2> DEFINE l == Unlinked(s)
    <2>1. /\ s \in Running /\ session_set' = l /\ session_count' = session_count - 1
          /\ \E to \in {"stopped", "locking"} : task' = [task EXCEPT ![s] = to]
          /\ UNCHANGED <<max_session_count, run, fresh, timer>>
      BY <1>5 DEF SessionEnd, Running, Listable
    <2>2. /\ session_set # <<>> /\ l \in Seq(Sessions) /\ Len(l) = Len(session_set) - 1
          /\ Elems(l) = Running \ {s} /\ NoDup(l)
      BY <1>0, <2>1, UnlinkedFacts
    <2> HIDE DEF l
    <2>3. /\ task' \in [Sessions -> TaskStates] /\ Running' = Running \ {s}
          /\ \A t \in Sessions : t # s => task'[t] = task[t]
      BY <1>0, <2>1 DEF Running, TaskStates, Listable
    <2>4. Listed'
      BY <1>0, <2>1, <2>2, <2>3 DEF Listed
    <2>5. s \notin fresh
      BY <1>0, <2>1 DEF Unstarted, Running, Listable
    <2>6. TypeInv' /\ Unstarted' /\ TimerStays' /\ TimersRun'
      BY <1>0, <2>1, <2>2, <2>3, <2>5 DEF TypeInv, Unstarted, TimerStays, TimersRun
    <2> QED
      BY <2>4, <2>6 DEF SInv
  <1>6. ASSUME NEW s \in Sessions, Accept(s) PROVE SInv'
    <2> DEFINE list == Append(session_set, s)
               victims == OverLimit(list)
    <2>1. /\ s \in fresh /\ run /\ run' = run /\ fresh' = fresh \ {s}
          /\ session_set' = list /\ session_count' = session_count + 1
          /\ task' = [t \in Sessions |-> IF t = s THEN "ready"
                         ELSE IF t \in victims THEN Woken(task[t]) ELSE task[t]]
          /\ timer' = Woken(timer) /\ UNCHANGED max_session_count
      BY <1>6 DEF Accept, Accepted, Inserted
    <2>2. task[s] = "stopped" /\ s \notin Running
      BY <1>0, <2>1 DEF Unstarted, Running, Listable
    <2>3. s \in Sessions \ Elems(session_set)
      BY <1>0, <2>2 DEF Listed
    <2>4. /\ list \in Seq(Sessions) /\ Len(list) = Len(session_set) + 1 /\ list # <<>>
          /\ Elems(list) = Elems(session_set) \cup {s} /\ NoDup(list)
      BY <1>0, <2>3, LinkedFacts DEF Listed
    <2> HIDE DEF list, victims
    <2>5. \A t \in Sessions :
             /\ task[t] \in TaskStates /\ Woken(task[t]) \in TaskStates
             /\ Woken(task[t]) \in Listable <=> task[t] \in Listable
             /\ Woken(task[t]) = "stopped" <=> task[t] = "stopped"
      BY <1>0 DEF TaskStates, Woken, Listable
    <2>6. /\ task' \in [Sessions -> TaskStates] /\ Running' = Running \cup {s}
          /\ \A t \in Sessions : t # s /\ task[t] = "stopped" => task'[t] = "stopped"
      <3>1. task' \in [Sessions -> TaskStates]
        BY <2>1, <2>5 DEF TaskStates
      <3>2. \A t \in Sessions : t # s /\ task[t] = "stopped" => task'[t] = "stopped"
        BY <2>1, <2>5
      <3>3. \A t \in Sessions : t \in Running' <=> t \in Running \cup {s}
        BY <2>1, <2>5 DEF Running, Listable
      <3> QED
        BY <3>1, <3>2, <3>3 DEF Running
    <2>7. Listed'
      BY <1>0, <2>1, <2>4, <2>6 DEF Listed
    <2>8. timer' \in {"ready", "locking"}
      BY <1>2, <2>1 DEF Woken
    <2>9. TypeInv' /\ Unstarted' /\ TimerStays' /\ TimersRun'
      BY <1>0, <2>1, <2>4, <2>6, <2>8 DEF TypeInv, Unstarted, TimerStays, TimersRun
    <2> QED
      BY <2>7, <2>9 DEF SInv
  <1>7. ASSUME NEW s \in Sessions, AcceptFails(s) PROVE SInv'
    BY <1>0, <1>1, <1>2, <1>7 DEF AcceptFails, Running
  <1>8. ASSUME NEW s \in Sessions, IoReset(s) PROVE SInv'
    <2>1. Terminate({s}) /\ UNCHANGED <<max_session_count, run, session_set, session_count, fresh, timer>>
      BY <1>8 DEF IoReset
    <2>2. /\ task' \in [Sessions -> TaskStates] /\ Running' = Running
          /\ \A t \in Sessions : task'[t] = "stopped" <=> task[t] = "stopped"
      BY <1>0, <2>1, TerminateFacts
    <2> QED
      BY <1>1, <1>2, <2>1, <2>2
  <1>9. CASE IoWait \/ IoExit \/ IoPacket \/ TimerTick \/ Stop \/ JoinIo
    BY <1>0, <1>1, <1>2, <1>9 DEF IoWait, IoExit, IoPacket, TimerTick, Stop, JoinIo, Running
  <1>10. CASE TimerRun
    <2>1. UNCHANGED <<max_session_count, run, session_set, session_count, fresh>> /\ run
      BY <1>10 DEF TimerRun
    <2>2. CASE locker # None
      <3>1. timer' = "locking" /\ task' = task
        BY <1>10, <2>2 DEF TimerRun
      <3> QED
        BY <1>0, <1>1, <2>1, <3>1 DEF Running
    <2>3. CASE locker = None
      <3>1. /\ timer' = (IF session_set = <<>> THEN "waiting" ELSE "sleeping")
            /\ \E dead \in {{}} \cup {{s} : s \in Alive} : Terminate(dead)
        BY <1>10, <2>3 DEF TimerRun
      <3>2. /\ task' \in [Sessions -> TaskStates] /\ Running' = Running
            /\ \A t \in Sessions : task'[t] = "stopped" <=> task[t] = "stopped"
        BY <1>0, <3>1, TerminateFacts
      <3> QED
        BY <1>1, <2>1, <3>1, <3>2
    <2> QED
      BY <2>2, <2>3
  <1>11. CASE TimerExit
    BY <1>0, <1>1, <1>2, <1>11 DEF TimerExit, Running
  <1>12. CASE EventGot
    <2>1. /\ run' = FALSE /\ UNCHANGED <<max_session_count, session_set, session_count, fresh, timer>>
          /\ Terminate(ToSet(session_set))
      BY <1>12 DEF EventGot
    <2>2. /\ task' \in [Sessions -> TaskStates] /\ Running' = Running
          /\ \A t \in Sessions : task'[t] = "stopped" <=> task[t] = "stopped"
      BY <1>0, <2>1, TerminateFacts
    <2> QED
      BY <1>1, <1>2, <2>1, <2>2
  <1>13. CASE JoinTimer
    <2>1. /\ UNCHANGED <<max_session_count, run, session_set, session_count, fresh, task>>
          /\ timer' = Woken(timer)
      BY <1>13 DEF JoinTimer
    <2>2. /\ timer' \in {"ready", "locking", "stopped"}
          /\ timer' = "stopped" => timer = "stopped"
      BY <1>2, <2>1 DEF Woken
    <2> QED
      BY <1>0, <1>1, <1>2, <2>1, <2>2 DEF Running
  <1>14. CASE UNCHANGED vars
    BY <1>0, <1>1, <1>2, <1>14 DEF vars, Running
  <1> QED
    BY <1>3, <1>4, <1>5, <1>6, <1>7, <1>8, <1>9, <1>10, <1>11, <1>12, <1>13, <1>14
       DEF Next, Session, Io, Timer, Event, Returned

(****************************************************************************)
(* TimersRun: while the list is not empty lwip_timer_task_entry does not     *)
(* wait without a timeout, whichever way sessions come and go.               *)
(****************************************************************************)
THEOREM TimersAlwaysRun == Spec => []TimersRun
  <1>1. SInv => TimersRun
    BY DEF SInv
  <1> QED
    BY <1>1, InitSInv, NextSInv, PTL DEF Spec

-----------------------------------------------------------------------------
(* No stopped task is woken *)

(* A step that wakes tasks wakes only those that have been started.           *)
LEMMA NextNoAbort == SInv /\ NoAbort /\ [Next]_vars => NoAbort'
  <1> SUFFICES ASSUME SInv, NoAbort, [Next]_vars PROVE NoAbort'
    OBVIOUS
  <1> USE DEF sessionVars
  <1>10. max_session_count' = max_session_count
    BY DEF Next, Session, SessionYield, SessionFlooded, SessionWait, SessionEnd, SessionWake, Io,
           IoWait, IoExit, Accept, AcceptFails, IoReset, IoPacket, Timer, TimerRun, TimerExit,
           TimerTick, Stop, Event, EventGot, JoinIo, JoinTimer, Returned, vars
  <1>0. TypeInv /\ Listed /\ TimerStays
    BY DEF SInv
  <1>1. ASSUME NEW victims, Terminate(victims), \A v \in victims : task[v] # "stopped"
        PROVE  NoAbort'
    BY <1>1, <1>10 DEF Terminate, NoAbort
  <1>2. ASSUME NEW s \in Sessions, Accept(s) PROVE NoAbort'
    <2> DEFINE list == Append(session_set, s)
    <2>1. /\ run /\ s \in fresh
          /\ aborted' = (aborted \/ timer = "stopped"
                             \/ \E v \in OverLimit(list) : task[v] = "stopped")
      BY <1>2 DEF Accept
    <2>2. timer # "stopped"
      BY <1>0, <2>1 DEF TimerStays
    <2>3. ASSUME NEW v \in OverLimit(list), ~(max_session_count # 0 /\ max_session_count < 2)
          PROVE  task[v] # "stopped"
      <3>1. v = Head(list) /\ max_session_count # 0 /\ ~(session_count + 1 < max_session_count)
        BY <2>3 DEF OverLimit, Inserted
      <3>2. session_set \in Seq(Sessions) /\ session_count = Len(session_set)
        BY <1>0 DEF TypeInv, Listed
      <3>3. Len(session_set) \in Nat /\ max_session_count \in Int
        BY <1>0, <3>2 DEF TypeInv
      <3>4. Len(session_set) >= 1
        BY <2>3, <3>1, <3>2, <3>3
      <3>5. v = session_set[1] /\ 1 \in 1 .. Len(session_set)
        BY <3>1, <3>2, <3>3, <3>4
      <3>6. v \in Running
        BY <1>0, <3>5 DEF Listed, Elems
      <3> QED
        BY <3>6 DEF Running, Listable
    <2> QED
      BY <1>10, <2>1, <2>2, <2>3 DEF NoAbort
  <1>3. ASSUME NEW s \in Sessions, IoReset(s) PROVE NoAbort'
    <2>1. Terminate({s}) /\ task[s] # "stopped"
      BY <1>3 DEF IoReset, Alive
    <2> QED
      BY <1>1, <2>1
  <1>4. CASE TimerRun
    <2>1. CASE locker # None
      BY <1>4, <1>10, <2>1 DEF TimerRun, NoAbort
    <2>2. CASE locker = None
      <3>1. PICK dead \in {{}} \cup {{s} : s \in Alive} : Terminate(dead)
        BY <1>4, <2>2 DEF TimerRun
      <3>2. \A v \in dead : task[v] # "stopped"
        BY <3>1 DEF Alive
      <3> QED
        BY <1>1, <3>1, <3>2
    <2> QED
      BY <2>1, <2>2
  <1>5. CASE EventGot
    <2>1. Terminate(ToSet(session_set))
      BY <1>5 DEF EventGot
    <2>2. \A v \in ToSet(session_set) : task[v] # "stopped"
      <3>1. session_set \in Seq(Sessions)
        BY <1>0 DEF TypeInv
      <3>2. ToSet(session_set) = Elems(session_set)
        BY <3>1 DEF ToSet, Elems
      <3> QED
        BY <1>0, <3>2 DEF Listed, Running, Listable
    <2> QED
      BY <1>1, <2>1, <2>2
  <1>6. ASSUME UNCHANGED aborted PROVE NoAbort'
    BY <1>6, <1>10 DEF NoAbort
  <1>7. ASSUME NEW s \in Sessions, Session(s) \/ SessionWake(s) \/ AcceptFails(s) PROVE NoAbort'
    BY <1>6, <1>7 DEF Session, SessionYield, SessionFlooded, SessionWait, SessionEnd, SessionWake, AcceptFails
  <1>8. CASE IoWait \/ IoExit \/ IoPacket \/ TimerExit \/ TimerTick \/ Stop \/ JoinIo \/ JoinTimer
    BY <1>6, <1>8 DEF IoWait, IoExit, IoPacket, TimerExit, TimerTick, Stop, JoinIo, JoinTimer
  <1>9. CASE UNCHANGED vars
    BY <1>6, <1>9 DEF vars
  <1> QED
    BY <1>2, <1>3, <1>4, <1>5, <1>7, <1>8, <1>9 DEF Next, Io, Timer, Event, Returned

(****************************************************************************)
(* NoAbort: for any number of sessions and every max-session-count,          *)
(* hev_task_wakeup meets a stopped task only under a limit below two, where  *)
(* hev_socks5_tunnel_insert_session terminates the session it has just       *)
(* linked in, whose task is run only after it returns.                       *)
(****************************************************************************)
THEOREM AbortNeedsTinyLimit == Spec => []NoAbort
  <1>1. Init => NoAbort
    BY DEF Init, NoAbort
  <1>2. SInv /\ NoAbort /\ [Next]_vars => NoAbort'
    BY NextNoAbort
  <1> QED
    BY <1>1, <1>2, InitSInv, NextSInv, PTL DEF Spec

=============================================================================
