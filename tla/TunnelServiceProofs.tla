------------------------- MODULE TunnelServiceProofs -------------------------
(****************************************************************************)
(* Safety of the start/stop protocol of TunnelService for any number of      *)
(* callers, quitters and worker identities.                                  *)
(****************************************************************************)
EXTENDS TunnelService, TLAPS

-----------------------------------------------------------------------------
(* The inductive invariant *)

\* The JNI lock is held exactly by the caller that is inside a JNI function.
LockInv ==
    /\ \A c \in Callers : mutex = c <=> pc[c] # "idle"
    /\ \A q \in Quitters : pc[q] \in QuitStates \cup {"idle"}

\* WAIT is the lock of hev_socks5_tunnel_stop's critical section.
WaitInv ==
    /\ \A p \in Stoppers : InStop(p) => "WAIT" \in tsync
    /\ \A p, q \in Stoppers : InStop(p) /\ InStop(q) => p = q

\* thread_joinable and work_thread describe the one live worker.
ThreadInv ==
    /\ \A w \in Workers : Live(w) => thread_joinable /\ work_thread = w
    /\ thread_joinable => work_thread \in Workers /\ Live(work_thread)
    /\ \A c \in Callers :
        /\ pc[c] \in {"start_join", "stop_join"} \cup QuitStates => thread_joinable
        /\ pc[c] \in {"start_alloc", "start_create"} => ~thread_joinable
        /\ pc[c] \in {"start_join", "start_alloc"} => ~is_running
    /\ is_running /\ ~thread_joinable => \E c \in Callers : pc[c] = "start_create"

\* An upper bound on what a worker in the given state may hold.
MayHold(s) ==
    CASE s \in {"none", "config", "logger", "exit", "exited"} -> {}
      [] s \in {"socks5_logger", "free_logger"} -> {"logger"}
      [] s \in {"task_system", "free_socks5_logger"} -> {"logger", "socks5_logger"}
      [] s \in {"tunnel", "free_task_sys"} -> MainParts
      [] OTHER -> Parts

HeldInv ==
    /\ \A w \in Workers : Live(w) => held \subseteq MayHold(wpc[w])
    /\ (\A w \in Workers : ~Live(w)) => held = {}
    /\ \A w \in Workers :
        wpc[w] \in {"lwip_io", "lwip_timer", "mapped_dns", "open", "run"}
            => "event" \in held

\* Between the fetch_or of SEND and the end of the fini retry loop.
OpenPhase == {"run", "loop", "event_read", "drain", "hung", "fini"}

EventInv ==
    /\ ("SEND" \in tsync \/ "SENT" \in tsync
            \/ \E p \in Stoppers : pc[p] \in {"q_sent", "q_write"})
        => "event" \in held /\ \E w \in Workers : wpc[w] \in OpenPhase
    /\ bytes # 0 => \E w \in Workers : wpc[w] \in OpenPhase \cup {"close"}

IInv == TypeOK /\ LockInv /\ WaitInv /\ ThreadInv /\ HeldInv /\ EventInv

-----------------------------------------------------------------------------
(* The initial state satisfies the invariant. *)
LEMMA InitIInv == Init => IInv
  <1> SUFFICES ASSUME Init PROVE IInv
    OBVIOUS
  <1> USE DEF Init, Live, InStop
  <1>1. TypeOK
    BY DEF TypeOK, Flags, WorkerStates, CallerStates
  <1>2. LockInv /\ WaitInv
    BY ThreadsAssumption DEF LockInv, WaitInv, Stoppers
  <1>3. ThreadInv /\ HeldInv
    BY DEF ThreadInv, HeldInv, QuitStates, Stoppers
  <1>4. EventInv
    BY DEF EventInv
  <1> QED BY <1>1, <1>2, <1>3, <1>4 DEF IInv

(****************************************************************************)
(* Every step preserves it: one step per operation of hev-jni.c,             *)
(* hev-main.c and hev-socks5-tunnel.c.                                       *)
(****************************************************************************)
LEMMA NextIInv == IInv /\ [Next]_vars => IInv'
  <1> SUFFICES ASSUME IInv, [Next]_vars PROVE IInv'
    OBVIOUS
  <1> USE ThreadsAssumption
      DEF IInv, TypeOK, LockInv, WaitInv, ThreadInv, HeldInv, EventInv, InStop, Live
  <1>1. ASSUME NEW c \in Callers, StartLock(c)
        PROVE  IInv'
    <2>1. TypeOK'
      BY <1>1 DEF StartLock, Goto, Flags, Parts, MainParts, TunnelParts, WorkerStates,
          CallerStates, QuitStates, Stoppers
    <2>2. LockInv'
      BY <1>1 DEF StartLock, Goto, QuitStates, Stoppers
    <2>3. WaitInv'
      BY <1>1 DEF StartLock, Goto, QuitStates, Stoppers
    <2>4. ThreadInv'
      BY <1>1 DEF StartLock, Goto, QuitStates, Stoppers
    <2>5. HeldInv'
      BY <1>1 DEF StartLock, Goto, MayHold, MainParts, TunnelParts, Parts
    <2>6. EventInv'
      BY <1>1 DEF StartLock, Goto, OpenPhase, Stoppers
    <2> QED BY <2>1, <2>2, <2>3, <2>4, <2>5, <2>6
  <1>2. ASSUME NEW c \in Callers, StartCheck(c)
        PROVE  IInv'
    <2>1. TypeOK'
      BY <1>2 DEF StartCheck, Goto, Return, Flags, Parts, MainParts, TunnelParts, WorkerStates,
          CallerStates, QuitStates, Stoppers
    <2>2. LockInv'
      BY <1>2 DEF StartCheck, Goto, Return, QuitStates, Stoppers
    <2>3. WaitInv'
      BY <1>2 DEF StartCheck, Goto, Return, QuitStates, Stoppers
    <2>4. ThreadInv'
      BY <1>2 DEF StartCheck, Goto, Return, QuitStates, Stoppers
    <2>5. HeldInv'
      BY <1>2 DEF StartCheck, Goto, Return, MayHold, MainParts, TunnelParts, Parts
    <2>6. EventInv'
      BY <1>2 DEF StartCheck, Goto, Return, OpenPhase, Stoppers
    <2> QED BY <2>1, <2>2, <2>3, <2>4, <2>5, <2>6
  <1>3. ASSUME NEW c \in Callers, StartJoin(c)
        PROVE  IInv'
    <2>1. TypeOK'
      BY <1>3 DEF StartJoin, Goto, WGoto, Flags, Parts, MainParts, TunnelParts, WorkerStates,
          CallerStates, QuitStates, Stoppers
    <2>2. LockInv'
      BY <1>3 DEF StartJoin, Goto, WGoto, QuitStates, Stoppers
    <2>3. WaitInv'
      BY <1>3 DEF StartJoin, Goto, WGoto, QuitStates, Stoppers
    <2>4. ThreadInv'
      BY <1>3 DEF StartJoin, Goto, WGoto, QuitStates, Stoppers
    <2>5. HeldInv'
      BY <1>3 DEF StartJoin, Goto, WGoto, MayHold, MainParts, TunnelParts, Parts
    <2>6. EventInv'
      BY <1>3 DEF StartJoin, Goto, WGoto, OpenPhase, Stoppers
    <2> QED BY <2>1, <2>2, <2>3, <2>4, <2>5, <2>6
  <1>4. ASSUME NEW c \in Callers, StartAlloc(c)
        PROVE  IInv'
    <2>1. TypeOK'
      BY <1>4 DEF StartAlloc, Goto, Return, Flags, Parts, MainParts, TunnelParts, WorkerStates,
          CallerStates, QuitStates, Stoppers
    <2>2. LockInv'
      BY <1>4 DEF StartAlloc, Goto, Return, QuitStates, Stoppers
    <2>3. WaitInv'
      BY <1>4 DEF StartAlloc, Goto, Return, QuitStates, Stoppers
    <2>4. ThreadInv'
      BY <1>4 DEF StartAlloc, Goto, Return, QuitStates, Stoppers
    <2>5. HeldInv'
      BY <1>4 DEF StartAlloc, Goto, Return, MayHold, MainParts, TunnelParts, Parts
    <2>6. EventInv'
      BY <1>4 DEF StartAlloc, Goto, Return, OpenPhase, Stoppers
    <2> QED BY <2>1, <2>2, <2>3, <2>4, <2>5, <2>6
  <1>5. ASSUME NEW c \in Callers, NEW w \in Workers, StartCreate(c, w)
        PROVE  IInv'
    <2>1. TypeOK'
      BY <1>5 DEF StartCreate, Goto, WGoto, Return, Flags, Parts, MainParts, TunnelParts, WorkerStates,
          CallerStates, QuitStates, Stoppers
    <2>2. LockInv'
      BY <1>5 DEF StartCreate, Goto, WGoto, Return, QuitStates, Stoppers
    <2>3. WaitInv'
      BY <1>5 DEF StartCreate, Goto, WGoto, Return, QuitStates, Stoppers
    <2>4. ThreadInv'
      BY <1>5 DEF StartCreate, Goto, WGoto, Return, QuitStates, Stoppers
    <2>5. HeldInv'
      BY <1>5 DEF StartCreate, Goto, WGoto, Return, MayHold, MainParts, TunnelParts, Parts
    <2>6. EventInv'
      BY <1>5 DEF StartCreate, Goto, WGoto, Return, OpenPhase, Stoppers
    <2> QED BY <2>1, <2>2, <2>3, <2>4, <2>5, <2>6
  <1>6. ASSUME NEW c \in Callers, StartCreateFails(c)
        PROVE  IInv'
    <2>1. TypeOK'
      BY <1>6 DEF StartCreateFails, Goto, Return, Flags, Parts, MainParts, TunnelParts, WorkerStates,
          CallerStates, QuitStates, Stoppers
    <2>2. LockInv'
      BY <1>6 DEF StartCreateFails, Goto, Return, QuitStates, Stoppers
    <2>3. WaitInv'
      BY <1>6 DEF StartCreateFails, Goto, Return, QuitStates, Stoppers
    <2>4. ThreadInv'
      BY <1>6 DEF StartCreateFails, Goto, Return, QuitStates, Stoppers
    <2>5. HeldInv'
      BY <1>6 DEF StartCreateFails, Goto, Return, MayHold, MainParts, TunnelParts, Parts
    <2>6. EventInv'
      BY <1>6 DEF StartCreateFails, Goto, Return, OpenPhase, Stoppers
    <2> QED BY <2>1, <2>2, <2>3, <2>4, <2>5, <2>6
  <1>7. ASSUME NEW c \in Callers, StopLock(c)
        PROVE  IInv'
    <2>1. TypeOK'
      BY <1>7 DEF StopLock, Goto, Flags, Parts, MainParts, TunnelParts, WorkerStates,
          CallerStates, QuitStates, Stoppers
    <2>2. LockInv'
      BY <1>7 DEF StopLock, Goto, QuitStates, Stoppers
    <2>3. WaitInv'
      BY <1>7 DEF StopLock, Goto, QuitStates, Stoppers
    <2>4. ThreadInv'
      BY <1>7 DEF StopLock, Goto, QuitStates, Stoppers
    <2>5. HeldInv'
      BY <1>7 DEF StopLock, Goto, MayHold, MainParts, TunnelParts, Parts
    <2>6. EventInv'
      BY <1>7 DEF StopLock, Goto, OpenPhase, Stoppers
    <2> QED BY <2>1, <2>2, <2>3, <2>4, <2>5, <2>6
  <1>8. ASSUME NEW c \in Callers, StopCheck(c)
        PROVE  IInv'
    <2>1. TypeOK'
      BY <1>8 DEF StopCheck, Goto, Return, Flags, Parts, MainParts, TunnelParts, WorkerStates,
          CallerStates, QuitStates, Stoppers
    <2>2. LockInv'
      BY <1>8 DEF StopCheck, Goto, Return, QuitStates, Stoppers
    <2>3. WaitInv'
      BY <1>8 DEF StopCheck, Goto, Return, QuitStates, Stoppers
    <2>4. ThreadInv'
      BY <1>8 DEF StopCheck, Goto, Return, QuitStates, Stoppers
    <2>5. HeldInv'
      BY <1>8 DEF StopCheck, Goto, Return, MayHold, MainParts, TunnelParts, Parts
    <2>6. EventInv'
      BY <1>8 DEF StopCheck, Goto, Return, OpenPhase, Stoppers
    <2> QED BY <2>1, <2>2, <2>3, <2>4, <2>5, <2>6
  <1>9. ASSUME NEW c \in Callers, StopJoin(c)
        PROVE  IInv'
    <2>1. TypeOK'
      BY <1>9 DEF StopJoin, Goto, WGoto, Return, Flags, Parts, MainParts, TunnelParts, WorkerStates,
          CallerStates, QuitStates, Stoppers
    <2>2. LockInv'
      BY <1>9 DEF StopJoin, Goto, WGoto, Return, QuitStates, Stoppers
    <2>3. WaitInv'
      BY <1>9 DEF StopJoin, Goto, WGoto, Return, QuitStates, Stoppers
    <2>4. ThreadInv'
      BY <1>9 DEF StopJoin, Goto, WGoto, Return, QuitStates, Stoppers
    <2>5. HeldInv'
      BY <1>9 DEF StopJoin, Goto, WGoto, Return, MayHold, MainParts, TunnelParts, Parts
    <2>6. EventInv'
      BY <1>9 DEF StopJoin, Goto, WGoto, Return, OpenPhase, Stoppers
    <2> QED BY <2>1, <2>2, <2>3, <2>4, <2>5, <2>6
  <1>10. ASSUME NEW q \in Quitters, Quit(q)
        PROVE  IInv'
    <2>1. TypeOK'
      BY <1>10 DEF Quit, Goto, Flags, Parts, MainParts, TunnelParts, WorkerStates,
          CallerStates, QuitStates, Stoppers
    <2>2. LockInv'
      BY <1>10 DEF Quit, Goto, QuitStates, Stoppers
    <2>3. WaitInv'
      BY <1>10 DEF Quit, Goto, QuitStates, Stoppers
    <2>4. ThreadInv'
      BY <1>10 DEF Quit, Goto, QuitStates, Stoppers
    <2>5. HeldInv'
      BY <1>10 DEF Quit, Goto, MayHold, MainParts, TunnelParts, Parts
    <2>6. EventInv'
      BY <1>10 DEF Quit, Goto, OpenPhase, Stoppers
    <2> QED BY <2>1, <2>2, <2>3, <2>4, <2>5, <2>6
  <1>11. ASSUME NEW p \in Stoppers, SetWait(p)
        PROVE  IInv'
    <2>1. TypeOK'
      BY <1>11 DEF SetWait, Goto, Flags, Parts, MainParts, TunnelParts, WorkerStates,
          CallerStates, QuitStates, Stoppers
    <2>2. LockInv'
      BY <1>11 DEF SetWait, Goto, QuitStates, Stoppers
    <2>3. WaitInv'
      BY <1>11 DEF SetWait, Goto, QuitStates, Stoppers
    <2>4. ThreadInv'
      BY <1>11 DEF SetWait, Goto, QuitStates, Stoppers
    <2>5. HeldInv'
      BY <1>11 DEF SetWait, Goto, MayHold, MainParts, TunnelParts, Parts
    <2>6. EventInv'
      BY <1>11 DEF SetWait, Goto, OpenPhase, Stoppers
    <2> QED BY <2>1, <2>2, <2>3, <2>4, <2>5, <2>6
  <1>12. ASSUME NEW p \in Stoppers, SetSent(p)
        PROVE  IInv'
    <2>1. TypeOK'
      BY <1>12 DEF SetSent, Goto, Flags, Parts, MainParts, TunnelParts, WorkerStates,
          CallerStates, QuitStates, Stoppers
    <2>2. LockInv'
      BY <1>12 DEF SetSent, Goto, QuitStates, Stoppers
    <2>3. WaitInv'
      BY <1>12 DEF SetSent, Goto, QuitStates, Stoppers
    <2>4. ThreadInv'
      BY <1>12 DEF SetSent, Goto, QuitStates, Stoppers
    <2>5. HeldInv'
      BY <1>12 DEF SetSent, Goto, MayHold, MainParts, TunnelParts, Parts
    <2>6. EventInv'
      BY <1>12 DEF SetSent, Goto, OpenPhase, Stoppers
    <2> QED BY <2>1, <2>2, <2>3, <2>4, <2>5, <2>6
  <1>13. ASSUME NEW p \in Stoppers, WriteEvent(p)
        PROVE  IInv'
    <2>1. TypeOK'
      BY <1>13 DEF WriteEvent, Goto, Flags, Parts, MainParts, TunnelParts, WorkerStates,
          CallerStates, QuitStates, Stoppers
    <2>2. LockInv'
      BY <1>13 DEF WriteEvent, Goto, QuitStates, Stoppers
    <2>3. WaitInv'
      BY <1>13 DEF WriteEvent, Goto, QuitStates, Stoppers
    <2>4. ThreadInv'
      BY <1>13 DEF WriteEvent, Goto, QuitStates, Stoppers
    <2>5. HeldInv'
      BY <1>13 DEF WriteEvent, Goto, MayHold, MainParts, TunnelParts, Parts
    <2>6. EventInv'
      BY <1>13 DEF WriteEvent, Goto, OpenPhase, Stoppers
    <2> QED BY <2>1, <2>2, <2>3, <2>4, <2>5, <2>6
  <1>14. ASSUME NEW p \in Stoppers, SetStop(p)
        PROVE  IInv'
    <2>1. TypeOK'
      BY <1>14 DEF SetStop, Goto, Flags, Parts, MainParts, TunnelParts, WorkerStates,
          CallerStates, QuitStates, Stoppers
    <2>2. LockInv'
      BY <1>14 DEF SetStop, Goto, QuitStates, Stoppers
    <2>3. WaitInv'
      BY <1>14 DEF SetStop, Goto, QuitStates, Stoppers
    <2>4. ThreadInv'
      BY <1>14 DEF SetStop, Goto, QuitStates, Stoppers
    <2>5. HeldInv'
      BY <1>14 DEF SetStop, Goto, MayHold, MainParts, TunnelParts, Parts
    <2>6. EventInv'
      BY <1>14 DEF SetStop, Goto, OpenPhase, Stoppers
    <2> QED BY <2>1, <2>2, <2>3, <2>4, <2>5, <2>6
  <1>15. ASSUME NEW p \in Stoppers, ClearWait(p)
        PROVE  IInv'
    <2>1. TypeOK'
      BY <1>15 DEF ClearWait, Goto, Flags, Parts, MainParts, TunnelParts, WorkerStates,
          CallerStates, QuitStates, Stoppers
    <2>2. LockInv'
      BY <1>15 DEF ClearWait, Goto, QuitStates, Stoppers
    <2>3. WaitInv'
      BY <1>15 DEF ClearWait, Goto, QuitStates, Stoppers
    <2>4. ThreadInv'
      BY <1>15 DEF ClearWait, Goto, QuitStates, Stoppers
    <2>5. HeldInv'
      BY <1>15 DEF ClearWait, Goto, MayHold, MainParts, TunnelParts, Parts
    <2>6. EventInv'
      BY <1>15 DEF ClearWait, Goto, OpenPhase, Stoppers
    <2> QED BY <2>1, <2>2, <2>3, <2>4, <2>5, <2>6
  <1>16. ASSUME NEW w \in Workers, ReadConfig(w)
        PROVE  IInv'
    <2>1. TypeOK'
      BY <1>16 DEF ReadConfig, WGoto, Flags, Parts, MainParts, TunnelParts, WorkerStates,
          CallerStates, QuitStates, Stoppers
    <2>2. LockInv'
      BY <1>16 DEF ReadConfig, WGoto, QuitStates, Stoppers
    <2>3. WaitInv'
      BY <1>16 DEF ReadConfig, WGoto, QuitStates, Stoppers
    <2>4. ThreadInv'
      BY <1>16 DEF ReadConfig, WGoto, QuitStates, Stoppers
    <2>5. HeldInv'
      BY <1>16 DEF ReadConfig, WGoto, MayHold, MainParts, TunnelParts, Parts
    <2>6. EventInv'
      BY <1>16 DEF ReadConfig, WGoto, OpenPhase, Stoppers
    <2> QED BY <2>1, <2>2, <2>3, <2>4, <2>5, <2>6
  <1>17. ASSUME NEW w \in Workers, NEW part \in Parts, InitPart(w, part)
        PROVE  IInv'
    <2> DEFINE s == wpc'[w]
    <2>1. /\ wpc[w] = part /\ wpc' = [wpc EXCEPT ![w] = s]
          /\ s \in (TunnelParts \ {"tunnel"}) \cup {"socks5_logger", "task_system",
                 "tunnel", "open", "exit", "free_logger", "free_socks5_logger", "fini"}
      BY <1>17 DEF InitPart, WGoto, After, OnError, Parts, MainParts, TunnelParts
    <2>2. TypeOK'
      BY <1>17 DEF InitPart, WGoto, After, OnError, Flags, Parts, MainParts, TunnelParts, WorkerStates,
          CallerStates, QuitStates, Stoppers
    <2>3. LockInv' /\ WaitInv'
      BY <1>17 DEF InitPart
    <2>4. ThreadInv'
      BY <1>17, <2>1 DEF InitPart, Parts, MainParts, TunnelParts
    <2>5. HeldInv'
      BY <1>17 DEF InitPart, WGoto, After, OnError, MayHold, MainParts, TunnelParts, Parts
    <2>6. \A v \in Workers : wpc[v] \notin OpenPhase \cup {"close"}
      BY <2>1 DEF OpenPhase, Parts, MainParts, TunnelParts
    <2>7. EventInv'
      BY <1>17, <2>6 DEF InitPart, Stoppers
    <2> QED BY <2>2, <2>3, <2>4, <2>5, <2>7
  <1>18. ASSUME NEW w \in Workers, SetSend(w)
        PROVE  IInv'
    <2>1. TypeOK'
      BY <1>18 DEF SetSend, WGoto, Flags, Parts, MainParts, TunnelParts, WorkerStates,
          CallerStates, QuitStates, Stoppers
    <2>2. LockInv'
      BY <1>18 DEF SetSend, WGoto, QuitStates, Stoppers
    <2>3. WaitInv'
      BY <1>18 DEF SetSend, WGoto, QuitStates, Stoppers
    <2>4. ThreadInv'
      BY <1>18 DEF SetSend, WGoto, QuitStates, Stoppers
    <2>5. HeldInv'
      BY <1>18 DEF SetSend, WGoto, MayHold, MainParts, TunnelParts, Parts
    <2>6. EventInv'
      BY <1>18 DEF SetSend, WGoto, OpenPhase, Stoppers
    <2> QED BY <2>1, <2>2, <2>3, <2>4, <2>5, <2>6
  <1>19. ASSUME NEW w \in Workers, Run(w)
        PROVE  IInv'
    <2>1. TypeOK'
      BY <1>19 DEF Run, WGoto, Flags, Parts, MainParts, TunnelParts, WorkerStates,
          CallerStates, QuitStates, Stoppers
    <2>2. LockInv'
      BY <1>19 DEF Run, WGoto, QuitStates, Stoppers
    <2>3. WaitInv'
      BY <1>19 DEF Run, WGoto, QuitStates, Stoppers
    <2>4. ThreadInv'
      BY <1>19 DEF Run, WGoto, QuitStates, Stoppers
    <2>5. HeldInv'
      BY <1>19 DEF Run, WGoto, MayHold, MainParts, TunnelParts, Parts
    <2>6. EventInv'
      BY <1>19 DEF Run, WGoto, OpenPhase, Stoppers
    <2> QED BY <2>1, <2>2, <2>3, <2>4, <2>5, <2>6
  <1>20. ASSUME NEW w \in Workers, ReadEvent(w)
        PROVE  IInv'
    <2>1. TypeOK'
      BY <1>20 DEF ReadEvent, WGoto, Flags, Parts, MainParts, TunnelParts, WorkerStates,
          CallerStates, QuitStates, Stoppers
    <2>2. LockInv'
      BY <1>20 DEF ReadEvent, WGoto, QuitStates, Stoppers
    <2>3. WaitInv'
      BY <1>20 DEF ReadEvent, WGoto, QuitStates, Stoppers
    <2>4. ThreadInv'
      BY <1>20 DEF ReadEvent, WGoto, QuitStates, Stoppers
    <2>5. HeldInv'
      BY <1>20 DEF ReadEvent, WGoto, MayHold, MainParts, TunnelParts, Parts
    <2>6. EventInv'
      BY <1>20 DEF ReadEvent, WGoto, OpenPhase, Stoppers
    <2> QED BY <2>1, <2>2, <2>3, <2>4, <2>5, <2>6
  <1>21. ASSUME NEW w \in Workers, ClearSent(w)
        PROVE  IInv'
    <2>1. TypeOK'
      BY <1>21 DEF ClearSent, WGoto, Flags, Parts, MainParts, TunnelParts, WorkerStates,
          CallerStates, QuitStates, Stoppers
    <2>2. LockInv'
      BY <1>21 DEF ClearSent, WGoto, QuitStates, Stoppers
    <2>3. WaitInv'
      BY <1>21 DEF ClearSent, WGoto, QuitStates, Stoppers
    <2>4. ThreadInv'
      BY <1>21 DEF ClearSent, WGoto, QuitStates, Stoppers
    <2>5. HeldInv'
      BY <1>21 DEF ClearSent, WGoto, MayHold, MainParts, TunnelParts, Parts
    <2>6. EventInv'
      BY <1>21 DEF ClearSent, WGoto, OpenPhase, Stoppers
    <2> QED BY <2>1, <2>2, <2>3, <2>4, <2>5, <2>6
  <1>22. ASSUME NEW w \in Workers, Drained(w) \/ TasksHang(w)
        PROVE  IInv'
    <2>1. TypeOK'
      BY <1>22 DEF Drained, TasksHang, WGoto, Flags, Parts, MainParts, TunnelParts, WorkerStates,
          CallerStates, QuitStates, Stoppers
    <2>2. LockInv'
      BY <1>22 DEF Drained, TasksHang, WGoto, QuitStates, Stoppers
    <2>3. WaitInv'
      BY <1>22 DEF Drained, TasksHang, WGoto, QuitStates, Stoppers
    <2>4. ThreadInv'
      BY <1>22 DEF Drained, TasksHang, WGoto, QuitStates, Stoppers
    <2>5. HeldInv'
      BY <1>22 DEF Drained, TasksHang, WGoto, MayHold, MainParts, TunnelParts, Parts
    <2>6. EventInv'
      BY <1>22 DEF Drained, TasksHang, WGoto, OpenPhase, Stoppers
    <2> QED BY <2>1, <2>2, <2>3, <2>4, <2>5, <2>6
  <1>23. ASSUME NEW w \in Workers, FiniSync(w)
        PROVE  IInv'
    <2>1. TypeOK'
      BY <1>23 DEF FiniSync, WGoto, Flags, Parts, MainParts, TunnelParts, WorkerStates,
          CallerStates, QuitStates, Stoppers
    <2>2. LockInv'
      BY <1>23 DEF FiniSync, WGoto, QuitStates, Stoppers
    <2>3. WaitInv'
      BY <1>23 DEF FiniSync, WGoto, QuitStates, Stoppers
    <2>4. ThreadInv'
      BY <1>23 DEF FiniSync, WGoto, QuitStates, Stoppers
    <2>5. HeldInv'
      BY <1>23 DEF FiniSync, WGoto, MayHold, MainParts, TunnelParts, Parts
    <2>6. EventInv'
      BY <1>23 DEF FiniSync, WGoto, OpenPhase, Stoppers
    <2> QED BY <2>1, <2>2, <2>3, <2>4, <2>5, <2>6
  <1>24. ASSUME NEW w \in Workers, Close(w)
        PROVE  IInv'
    <2>1. TypeOK'
      BY <1>24 DEF Close, WGoto, Flags, Parts, MainParts, TunnelParts, WorkerStates,
          CallerStates, QuitStates, Stoppers
    <2>2. LockInv'
      BY <1>24 DEF Close, WGoto, QuitStates, Stoppers
    <2>3. WaitInv'
      BY <1>24 DEF Close, WGoto, QuitStates, Stoppers
    <2>4. ThreadInv'
      BY <1>24 DEF Close, WGoto, QuitStates, Stoppers
    <2>5. HeldInv'
      BY <1>24 DEF Close, WGoto, MayHold, MainParts, TunnelParts, Parts
    <2>6. EventInv'
      BY <1>24 DEF Close, WGoto, OpenPhase, Stoppers
    <2> QED BY <2>1, <2>2, <2>3, <2>4, <2>5, <2>6
  <1>25. ASSUME NEW w \in Workers, Cleanup(w)
        PROVE  IInv'
    <2>1. TypeOK'
      BY <1>25 DEF Cleanup, Free, WGoto, Flags, Parts, MainParts, TunnelParts, WorkerStates,
          CallerStates, QuitStates, Stoppers
    <2>2. LockInv'
      BY <1>25 DEF Cleanup, Free, WGoto, QuitStates, Stoppers
    <2>3. WaitInv'
      BY <1>25 DEF Cleanup, Free, WGoto, QuitStates, Stoppers
    <2>4. ThreadInv'
      BY <1>25 DEF Cleanup, Free, WGoto, QuitStates, Stoppers
    <2>5. HeldInv'
      BY <1>25 DEF Cleanup, Free, WGoto, MayHold, MainParts, TunnelParts, Parts
    <2>6. EventInv'
      BY <1>25 DEF Cleanup, Free, WGoto, OpenPhase, Stoppers
    <2> QED BY <2>1, <2>2, <2>3, <2>4, <2>5, <2>6
  <1>26. ASSUME NEW w \in Workers, ThreadExit(w)
        PROVE  IInv'
    <2>1. TypeOK'
      BY <1>26 DEF ThreadExit, WGoto, Flags, Parts, MainParts, TunnelParts, WorkerStates,
          CallerStates, QuitStates, Stoppers
    <2>2. LockInv'
      BY <1>26 DEF ThreadExit, WGoto, QuitStates, Stoppers
    <2>3. WaitInv'
      BY <1>26 DEF ThreadExit, WGoto, QuitStates, Stoppers
    <2>4. ThreadInv'
      BY <1>26 DEF ThreadExit, WGoto, QuitStates, Stoppers
    <2>5. HeldInv'
      BY <1>26 DEF ThreadExit, WGoto, MayHold, MainParts, TunnelParts, Parts
    <2>6. EventInv'
      BY <1>26 DEF ThreadExit, WGoto, OpenPhase, Stoppers
    <2> QED BY <2>1, <2>2, <2>3, <2>4, <2>5, <2>6
  <1>27. CASE UNCHANGED vars
    BY <1>27 DEF vars, MayHold
  <1>28. CASE \E c \in Callers : Call(c) \/ StartStep(c) \/ StopStep(c)
    BY ONLY <1>28, <1>1, <1>2, <1>3, <1>4, <1>5, <1>6, <1>7, <1>8, <1>9
       DEF Call, StartStep, StopStep
  <1>29. CASE \E p \in Stoppers : QuitStep(p)
    BY ONLY <1>29, <1>11, <1>12, <1>13, <1>14, <1>15 DEF QuitStep
  <1>30. CASE \E w \in Workers : WorkerStep(w)
    BY ONLY <1>30, <1>16, <1>17, <1>18, <1>19, <1>20,
       <1>21, <1>22, <1>23, <1>24, <1>25, <1>26 DEF WorkerStep
  <1> QED
    BY ONLY [Next]_vars, <1>10, <1>27, <1>28, <1>29, <1>30 DEF Next

(* The invariant holds in every reachable state. *)
THEOREM Invariance == Spec => []IInv
  BY InitIInv, NextIInv, PTL DEF Spec

-----------------------------------------------------------------------------
(* Type correctness of the start/stop protocol. *)
THEOREM TypeCorrect == Spec => []TypeOK
  <1>1. IInv => TypeOK
    BY DEF IInv
  <1> QED BY <1>1, Invariance, PTL

(****************************************************************************)
(* The assertion in hev_socks5_tunnel_stop cannot fail because of a closed   *)
(* socket pair: a stopper that saw SEND keeps WAIT on until it has written,  *)
(* and fini does not close while WAIT is on.                                 *)
(****************************************************************************)
THEOREM WriteSafe == Spec => []WriteHitsOpenSocket
  <1>1. IInv => WriteHitsOpenSocket
    BY DEF IInv, EventInv, WriteHitsOpenSocket
  <1> QED BY <1>1, Invariance, PTL

(****************************************************************************)
(* The statics of hev-socks5-tunnel.c are never shared by two workers, and   *)
(* pthread_join is only called on a thread that exists.                      *)
(****************************************************************************)
THEOREM SingleWorker == Spec => []OneWorker
  <1>1. IInv => OneWorker
    BY DEF IInv, ThreadInv, OneWorker
  <1> QED BY <1>1, Invariance, PTL

(****************************************************************************)
(* When no JNI call is in progress and no thread is joinable, nothing of the *)
(* tunnel is left.                                                           *)
(****************************************************************************)
THEOREM StopIsComplete == Spec => []StoppedMeansGone
  <1>1. IInv => StoppedMeansGone
    BY ThreadsAssumption
    DEF IInv, TypeOK, LockInv, ThreadInv, HeldInv, EventInv, Live, OpenPhase,
        StoppedMeansGone, Stoppers
  <1> QED BY <1>1, Invariance, PTL

-----------------------------------------------------------------------------
(* Why a worker leaves *)

\* On the way out of hev_socks5_tunnel_main.
Leaving == {"event_read", "drain", "hung", "fini", "close", "free_task_sys", "free_socks5_logger",
            "free_logger", "exit"}

\* Whatever makes a worker leave, or is about to, has a reason on record.
WhyInv ==
    /\ \A w \in Workers : wpc[w] \in Leaving => why # {}
    /\ bytes # 0 => why # {}
    /\ "STOP" \in tsync /\ (\E w \in Workers : Live(w)) => why # {}
    /\ \A p \in Stoppers : pc[p] \in {"q_sent", "q_write"} => why # {}

(* Without a worker there is nothing to leave.                                *)
LEMMA InitWhy == Init => WhyInv
  BY DEF Init, WhyInv, Live, Leaving

(****************************************************************************)
(* Every step keeps it. The record starts anew when a worker is created; no  *)
(* stopper is then about to write to the event socket and no byte is left    *)
(* there, because both need an earlier worker that is still alive.           *)
(****************************************************************************)
LEMMA NextWhy == IInv /\ WhyInv /\ [Next]_vars => WhyInv'
  <1> SUFFICES ASSUME IInv, WhyInv, [Next]_vars PROVE WhyInv'
    OBVIOUS
  <1>0. /\ pc \in [Stoppers -> CallerStates \cup QuitStates]
        /\ wpc \in [Workers -> WorkerStates] /\ Callers \subseteq Stoppers
    BY DEF IInv, TypeOK, Stoppers
  <1>1. ASSUME NEW c \in Callers, Call(c) PROVE WhyInv'
    BY <1>0, <1>1 DEF Call, StartLock, StopLock, Goto, WhyInv, Live
  <1>2. ASSUME NEW c \in Callers, StartCheck(c) \/ StartAlloc(c) \/ StartCreateFails(c)
        PROVE  WhyInv'
    BY <1>0, <1>2 DEF StartCheck, StartAlloc, StartCreateFails, Goto, Return, WhyInv, Live
  <1>3. ASSUME NEW c \in Callers, StartJoin(c) PROVE WhyInv'
    BY <1>0, <1>3 DEF StartJoin, Goto, WGoto, WhyInv, Live, Leaving
  <1>4. ASSUME NEW c \in Callers, NEW w \in Workers, StartCreate(c, w) PROVE WhyInv'
    <2>1. \A v \in Workers : ~Live(v)
      BY <1>4 DEF StartCreate, IInv, ThreadInv
    <2>2. bytes = 0 /\ \A p \in Stoppers : pc[p] \notin {"q_sent", "q_write"}
      BY <2>1 DEF IInv, EventInv, OpenPhase, Live
    <2>3. /\ wpc' = [wpc EXCEPT ![w] = "config"] /\ bytes' = bytes /\ tsync' = tsync
          /\ why' = (IF "STOP" \in tsync THEN {"stale"} ELSE {}) /\ pc' = [pc EXCEPT ![c] = "idle"]
      BY <1>4 DEF StartCreate, WGoto, Goto, Return
    <2> QED
      BY <1>0, <2>1, <2>2, <2>3 DEF WhyInv, Live, Leaving
  <1>5. ASSUME NEW c \in Callers, StopCheck(c) PROVE WhyInv'
    BY <1>0, <1>5 DEF StopCheck, Goto, Return, WhyInv, Live
  <1>6. ASSUME NEW c \in Callers, StopJoin(c) PROVE WhyInv'
    BY <1>0, <1>6 DEF StopJoin, Goto, Return, WGoto, WhyInv, Live, Leaving
  <1>7. ASSUME NEW q \in Quitters, Quit(q) PROVE WhyInv'
    BY <1>0, <1>7 DEF Quit, Goto, WhyInv, Live
  <1>8. ASSUME NEW p \in Stoppers, SetWait(p) \/ SetStop(p) PROVE WhyInv'
    BY <1>0, <1>8 DEF SetWait, SetStop, WhyInv
  <1>9. ASSUME NEW p \in Stoppers, SetSent(p) \/ WriteEvent(p) \/ ClearWait(p) PROVE WhyInv'
    BY <1>0, <1>9 DEF SetSent, WriteEvent, ClearWait, Goto, WhyInv, Live
  <1>10. ASSUME NEW w \in Workers, ReadConfig(w) PROVE WhyInv'
    BY <1>0, <1>10 DEF ReadConfig, WGoto, WhyInv, Live, Leaving
  <1>11. ASSUME NEW w \in Workers, NEW part \in Parts, InitPart(w, part) PROVE WhyInv'
    <2>1. CASE why' # {}
      BY <2>1 DEF WhyInv
    <2>2. CASE why' = {}
      <3>1. /\ wpc' = [wpc EXCEPT ![w] = After(part)] /\ why' = why
            /\ UNCHANGED <<pc, tsync, bytes>> /\ Live(w)
        BY <1>11, <2>2 DEF InitPart, WGoto, Live, Parts, MainParts, TunnelParts
      <3>2. After(part) \notin Leaving
        BY DEF After, Leaving
      <3> QED
        BY <1>0, <3>1, <3>2 DEF WhyInv, Live
    <2> QED
      BY <2>1, <2>2
  <1>12. ASSUME NEW w \in Workers, SetSend(w) \/ Run(w) \/ ClearSent(w) \/ FiniSync(w)
         PROVE  WhyInv'
    BY <1>0, <1>12 DEF SetSend, Run, ClearSent, FiniSync, WGoto, WhyInv, Live, Leaving
  <1>13. ASSUME NEW w \in Workers, ReadEvent(w) PROVE WhyInv'
    <2>1. why # {} /\ why' = why
      BY <1>13 DEF ReadEvent, WhyInv
    <2> QED
      BY <2>1 DEF WhyInv
  <1>14. ASSUME NEW w \in Workers, Drained(w) \/ TasksHang(w) \/ Close(w) \/ Cleanup(w) PROVE WhyInv'
    BY <1>0, <1>14 DEF Drained, TasksHang, Close, Cleanup, Free, WGoto, WhyInv, Live, Leaving
  <1>15. ASSUME NEW w \in Workers, ThreadExit(w) PROVE WhyInv'
    BY <1>0, <1>15 DEF ThreadExit, WGoto, WhyInv, Live, Leaving
  <1>16. CASE UNCHANGED vars
    BY <1>16 DEF vars, WhyInv, Live
  <1>17. CASE \E c \in Callers : Call(c) \/ StartStep(c) \/ StopStep(c)
    BY ONLY <1>17, <1>1, <1>2, <1>3, <1>4, <1>5, <1>6 DEF StartStep, StopStep
  <1>18. CASE \E p \in Stoppers : QuitStep(p)
    BY ONLY <1>18, <1>8, <1>9 DEF QuitStep
  <1>19. CASE \E w \in Workers : WorkerStep(w)
    BY ONLY <1>19, <1>10, <1>11, <1>12, <1>13, <1>14, <1>15 DEF WorkerStep
  <1> QED
    BY ONLY [Next]_vars, <1>7, <1>16, <1>17, <1>18, <1>19 DEF Next

(****************************************************************************)
(* hev_socks5_tunnel_main returns only because of a quit or an error since   *)
(* its thread was created, or of a STOP that was already on at that moment.  *)
(****************************************************************************)
THEOREM MainBlocks == Spec => []MainBlocksUntilQuit
  <1>1. WhyInv => MainBlocksUntilQuit
    BY DEF WhyInv, MainBlocksUntilQuit, Leaving
  <1> QED
    BY <1>1, InitIInv, NextIInv, InitWhy, NextWhy, PTL DEF Spec

=============================================================================
