----------------------------- MODULE VpnService -----------------------------
(****************************************************************************)
(* X365VpnService.kt: the Android service that starts and stops the Go SOCKS *)
(* proxy, the TUN interface and the native tunnel. onStartCommand, onDestroy *)
(* and onRevoke run on the main thread; every onStartCommand spawns a        *)
(* connect thread. They share the fields of the service instance without a   *)
(* lock. The statistics thread only reads counters and is left out.          *)
(*                                                                           *)
(* A connect request c stands for the node and for what its thread creates:  *)
(* the proxy object and the TUN descriptor.                                  *)
(****************************************************************************)
EXTENDS Naturals, FiniteSets

CONSTANTS
    Conns,          \* connect requests (deliveries of onStartCommand)
    Services,       \* service instances Android may create
    None

ASSUME VpnServiceAssumption ==
    None \notin Conns \cup Services

VARIABLES
    inst,           \* the instance Android considers running, or None
    fresh,          \* instances not created yet
    stopReq,        \* instances for which stopService or stopSelf was called
    mpc,            \* control state of the main thread
    cpc, owner,     \* control state and instance of each connect thread
    running, vpnInterface, proxy,   \* the fields of each instance
    connState,      \* [at, by]: the process-wide flow
    listening,      \* proxies that listen on 127.0.0.1:10808
    openFd,         \* TUN descriptors that are open
    tunnel,         \* descriptor the native tunnel runs on, or None
    stopHung,       \* a native stop waits for ever and holds the JNI lock
    overlapped,     \* history: a command came while another was in progress
    tunnelExited    \* history: the native worker has ended by itself

fields == <<running, vpnInterface, proxy>>
native == <<tunnel, stopHung>>
outside == <<listening, openFd, native>>
history == <<overlapped, tunnelExited>>
vars == <<inst, fresh, stopReq, mpc, cpc, owner, fields, connState,
          outside, history>>

Init ==
    /\ inst = None /\ fresh = Services /\ stopReq = {}
    /\ mpc = "idle"
    /\ cpc = [c \in Conns |-> "new"]
    /\ owner = [c \in Conns |-> None]
    /\ running = [s \in Services |-> FALSE]
    /\ vpnInterface = [s \in Services |-> None]
    /\ proxy = [s \in Services |-> None]
    /\ connState = [at |-> "Disconnected", by |-> None]
    /\ listening = {} /\ openFd = {} /\ tunnel = None /\ stopHung = FALSE
    /\ overlapped = FALSE /\ tunnelExited = FALSE

Goto(c, to) == cpc' = [cpc EXCEPT ![c] = to]
Step(c, from, to) == cpc[c] = from /\ Goto(c, to)
Show(at, by) == connState' = [at |-> at, by |-> by]

\* No connect thread is at work and no stop is on its way.
Quiet ==
    /\ \A c \in Conns : cpc[c] \in {"new", "done"}
    /\ mpc = "idle"
    /\ inst \notin stopReq

\* The main thread is free for a command.
MayCommand ==
    /\ mpc = "idle"
    /\ overlapped' = (overlapped \/ ~Quiet)
    /\ UNCHANGED tunnelExited

-----------------------------------------------------------------------------
(* The native tunnel as the service sees it (TunnelService has its inside) *)

\* native_start_service refuses, or waits for the JNI lock and starts.
TProxyStart(fd, ok) ==
    /\ IF ok THEN tunnel = None /\ ~stopHung /\ tunnel' = fd ELSE UNCHANGED tunnel
    /\ UNCHANGED stopHung

\* native_stop_service returns with the worker gone ...
TProxyStop ==
    /\ ~stopHung
    /\ tunnel' = None
    /\ UNCHANGED stopHung

\* ... or waits for ever in pthread_join, with the JNI lock, for a worker that
\* did not see the stop or whose tasks never end.
TProxyStopHangs ==
    /\ ~stopHung /\ tunnel # None
    /\ stopHung' = TRUE
    /\ UNCHANGED tunnel

\* The worker ends by itself: its configuration or its initialisation failed
\* after native_start_service had returned.
TunnelExits ==
    /\ tunnel # None /\ ~stopHung
    /\ tunnel' = None
    /\ tunnelExited' = TRUE
    /\ UNCHANGED <<inst, fresh, stopReq, mpc, cpc, owner, fields, connState,
                   listening, openFd, stopHung, overlapped>>

\* External (Android): the instance a command is delivered to: the running one or a new one.
Deliver(s) ==
    /\ IF inst = None THEN s \in fresh ELSE s = inst
    /\ inst' = s
    /\ fresh' = fresh \ {s}

\* stopService by the user (MainViewModel.disconnect).
Disconnect ==
    /\ MayCommand /\ inst # None
    /\ stopReq' = stopReq \cup {inst}
    /\ UNCHANGED <<inst, fresh, mpc, cpc, owner, fields, connState, outside>>

-----------------------------------------------------------------------------
(* The main thread *)

OnStartCommand(c, s) ==
    /\ MayCommand /\ cpc[c] = "new"
    /\ Deliver(s)
    /\ owner' = [owner EXCEPT ![c] = s]
    /\ Show("Connecting", c)
    /\ Goto(c, "stop_existing")
    /\ UNCHANGED <<stopReq, mpc, fields, outside>>

\* A START_STICKY restart delivers a null intent: stopSelf, START_NOT_STICKY.
OnStartCommandNull(s) ==
    /\ MayCommand /\ inst = None
    /\ Deliver(s)
    /\ stopReq' = stopReq \cup {s}
    /\ UNCHANGED <<mpc, cpc, owner, fields, connState, outside>>

OnRevoke ==
    /\ MayCommand /\ inst # None
    /\ running' = [running EXCEPT ![inst] = FALSE]
    /\ Show("Disconnected", None)
    /\ stopReq' = stopReq \cup {inst}
    /\ UNCHANGED <<inst, fresh, mpc, cpc, owner, vpnInterface, proxy, outside>>

\* onDestroy: running = false, then the test of connState ...
OnDestroy ==
    /\ mpc = "idle" /\ inst \in stopReq
    /\ running' = [running EXCEPT ![inst] = FALSE]
    /\ mpc' = IF connState.at = "Failed" THEN "d_tproxy" ELSE "d_set"
    /\ UNCHANGED <<inst, fresh, stopReq, cpc, owner, vpnInterface, proxy,
                   connState, outside>>

\* ... and the assignment it guards.
DestroySet ==
    /\ mpc = "d_set" /\ mpc' = "d_tproxy"
    /\ Show("Disconnected", None)
    /\ UNCHANGED <<inst, fresh, stopReq, cpc, owner, fields, outside>>

DestroyTunnel ==
    /\ mpc = "d_tproxy"
    /\ \/ TProxyStop /\ mpc' = "d_close"
       \/ TProxyStopHangs /\ UNCHANGED mpc
    /\ UNCHANGED <<inst, fresh, stopReq, cpc, owner, fields, connState,
                   listening, openFd>>

DestroyInterface ==
    /\ mpc = "d_close" /\ mpc' = "d_proxy"
    /\ openFd' = openFd \ {vpnInterface[inst]}
    /\ UNCHANGED <<inst, fresh, stopReq, cpc, owner, fields, connState,
                   listening, native>>

\* Mutant: onDestroy does not stop the proxy.
DestroyProxyKept ==
    /\ mpc = "d_proxy" /\ mpc' = "idle"
    /\ inst' = None
    /\ UNCHANGED <<fresh, stopReq, cpc, owner, fields, connState, outside>>

DestroyProxy ==
    /\ mpc = "d_proxy" /\ mpc' = "idle"
    /\ listening' = listening \ {proxy[inst]}
    /\ inst' = None
    /\ UNCHANGED <<fresh, stopReq, cpc, owner, fields, connState, openFd,
                   native>>

-----------------------------------------------------------------------------
(* The connect thread of request c, on its instance s = owner[c] *)

StopExisting(c) ==
    /\ Step(c, "stop_existing", IF running[owner[c]] THEN "s_tproxy" ELSE "proxy_new")
    /\ running' = [running EXCEPT ![owner[c]] = FALSE]
    /\ UNCHANGED <<inst, fresh, stopReq, mpc, owner, vpnInterface, proxy,
                   connState, outside>>

StopTunnel(c) ==
    /\ cpc[c] = "s_tproxy"
    /\ \/ TProxyStop /\ Goto(c, "s_close")
       \/ TProxyStopHangs /\ UNCHANGED cpc
    /\ UNCHANGED <<inst, fresh, stopReq, mpc, owner, fields, connState,
                   listening, openFd>>

\* Mutant: the old TUN descriptor is dropped without being closed.
StopInterfaceKept(c) ==
    /\ Step(c, "s_close", "s_proxy")
    /\ UNCHANGED <<inst, fresh, stopReq, mpc, owner, fields, connState,
                   outside>>

StopInterface(c) ==
    /\ Step(c, "s_close", "s_proxy")
    /\ openFd' = openFd \ {vpnInterface[owner[c]]}
    /\ UNCHANGED <<inst, fresh, stopReq, mpc, owner, fields, connState,
                   listening, native>>

\* Mutant: the old proxy is forgotten without being stopped.
StopProxyKept(c) ==
    /\ Step(c, "s_proxy", "s_null")
    /\ UNCHANGED <<inst, fresh, stopReq, mpc, owner, fields, connState,
                   outside>>

StopProxy(c) ==
    /\ Step(c, "s_proxy", "s_null")
    /\ listening' = listening \ {proxy[owner[c]]}
    /\ UNCHANGED <<inst, fresh, stopReq, mpc, owner, fields, connState,
                   openFd, native>>

StopForget(c) ==
    /\ Step(c, "s_null", "proxy_new")
    /\ vpnInterface' = [vpnInterface EXCEPT ![owner[c]] = None]
    /\ proxy' = [proxy EXCEPT ![owner[c]] = None]
    /\ UNCHANGED <<inst, fresh, stopReq, mpc, owner, running, connState,
                   outside>>

NewProxy(c) ==
    /\ Step(c, "proxy_new", "proxy_start")
    /\ proxy' = [proxy EXCEPT ![owner[c]] = c]
    /\ UNCHANGED <<inst, fresh, stopReq, mpc, owner, running, vpnInterface,
                   connState, outside>>

\* Mutant: the thread dies of the exception of a failed start.
StartProxyUncaught(c) ==
    /\ cpc[c] = "proxy_start"
    /\ \/ /\ proxy[owner[c]] # None /\ listening = {}
          /\ listening' = {proxy[owner[c]]}
          /\ Goto(c, "establish")
       \/ /\ Goto(c, "done")
          /\ UNCHANGED listening
    /\ UNCHANGED <<inst, fresh, stopReq, mpc, owner, fields, connState,
                   openFd, native>>

\* proxy!!.start: a null field, a port in use or a bad node throws.
StartProxy(c) ==
    /\ cpc[c] = "proxy_start"
    /\ \/ /\ proxy[owner[c]] # None /\ listening = {}
          /\ listening' = {proxy[owner[c]]}
          /\ Goto(c, "establish")
       \/ /\ Goto(c, "failed")
          /\ UNCHANGED listening
    /\ UNCHANGED <<inst, fresh, stopReq, mpc, owner, fields, connState,
                   openFd, native>>

Establish(c) ==
    /\ cpc[c] = "establish"
    /\ \/ /\ vpnInterface' = [vpnInterface EXCEPT ![owner[c]] = c]
          /\ openFd' = openFd \cup {c}
          /\ Goto(c, "tun_start")
       \/ /\ vpnInterface' = [vpnInterface EXCEPT ![owner[c]] = None]
          /\ Goto(c, "failed")
          /\ UNCHANGED openFd
    /\ UNCHANGED <<inst, fresh, stopReq, mpc, owner, running, proxy,
                   connState, listening, native>>

\* TProxyStartService on vpnInterface!!.fd: false, or an exception, fails.
StartTunnel(c) ==
    /\ cpc[c] = "tun_start"
    /\ \/ /\ vpnInterface[owner[c]] # None
          /\ TProxyStart(vpnInterface[owner[c]], TRUE)
          /\ Goto(c, "set_running")
       \/ /\ TProxyStart(None, FALSE)
          /\ Goto(c, "failed")
    /\ UNCHANGED <<inst, fresh, stopReq, mpc, owner, fields, connState,
                   listening, openFd>>

SetRunning(c) ==
    /\ Step(c, "set_running", "set_connected")
    /\ running' = [running EXCEPT ![owner[c]] = TRUE]
    /\ UNCHANGED <<inst, fresh, stopReq, mpc, owner, vpnInterface, proxy,
                   connState, outside>>

\* Connected; the statistics thread and the notification follow.
SetConnected(c) ==
    /\ Step(c, "set_connected", "done")
    /\ Show("Connected", c)
    /\ UNCHANGED <<inst, fresh, stopReq, mpc, owner, fields, outside>>

SetFailed(c) ==
    /\ Step(c, "failed", "stop_self")
    /\ Show("Failed", c)
    /\ UNCHANGED <<inst, fresh, stopReq, mpc, owner, fields, outside>>

StopSelf(c) ==
    /\ Step(c, "stop_self", "done")
    /\ stopReq' = stopReq \cup {owner[c]}
    /\ UNCHANGED <<inst, fresh, mpc, owner, fields, connState, outside>>

-----------------------------------------------------------------------------
Command ==
    \/ \E c \in Conns, s \in Services : OnStartCommand(c, s)
    \/ \E s \in Services : OnStartCommandNull(s)
    \/ Disconnect
    \/ OnRevoke

Destroy ==
    /\ \/ OnDestroy
       \/ DestroySet
       \/ DestroyTunnel
       \/ DestroyInterface
       \/ DestroyProxy
    /\ UNCHANGED history

Connect(c) ==
    /\ \/ StopExisting(c)
       \/ StopTunnel(c)
       \/ StopInterface(c)
       \/ StopProxy(c)
       \/ StopForget(c)
       \/ NewProxy(c)
       \/ StartProxy(c)
       \/ Establish(c)
       \/ StartTunnel(c)
       \/ SetRunning(c)
       \/ SetConnected(c)
       \/ SetFailed(c)
       \/ StopSelf(c)
    /\ UNCHANGED history

Next ==
    \/ Command
    \/ TunnelExits
    \/ Destroy
    \/ \E c \in Conns : Connect(c)

Spec == Init /\ [][Next]_vars

\* Android runs the main thread and every started thread; nothing obliges the
\* user to do anything. A thread that waits for the JNI lock of a hung stop has
\* no step to take.
Fairness ==
    /\ WF_vars(Destroy)
    /\ \A c \in Conns : WF_vars(Connect(c))

FairSpec == Spec /\ Fairness

-----------------------------------------------------------------------------
(* Properties *)

(****************************************************************************)
(* stopExisting frees the port: "avoid port 10808 being occupied" when the   *)
(* node is switched. As long as no command came before the last one had      *)
(* finished, no connect thread starts its proxy on a port that one of this   *)
(* service's own proxies still holds.                                        *)
(****************************************************************************)
SwitchFreesPort ==
    ~overlapped => \A c \in Conns : cpc[c] = "proxy_start" => listening = {}

(****************************************************************************)
(* onDestroy cleans up: once no service instance runs and every connect      *)
(* thread has ended, no proxy listens, no TUN descriptor is open, no native  *)
(* tunnel runs, and the user is not told that the VPN is connected.          *)
(****************************************************************************)
DestroyCleansUp ==
    (inst = None /\ \A c \in Conns : cpc[c] \in {"new", "done"}) =>
        /\ listening = {} /\ openFd = {} /\ tunnel = None
        /\ connState.at # "Connected"

\* What holds of it: it takes a command that overlaps another to break it.
DestroyCleansUpInTurn == ~overlapped => DestroyCleansUp

(****************************************************************************)
(* With no command in progress, "Connected" names the request whose proxy    *)
(* listens and whose descriptor, still open, the native tunnel uses, unless  *)
(* that has ended by itself; and nothing else of an earlier request is left. *)
(****************************************************************************)
ConnectedMeansServing ==
    ~overlapped /\ Quiet /\ connState.at = "Connected" =>
        /\ listening = {connState.by}
        /\ openFd = {connState.by}
        /\ tunnelExited \/ tunnel = connState.by

(****************************************************************************)
(* "Connecting" is always followed by another state, whatever commands       *)
(* overlap and whatever step fails, unless a native stop has hung: then      *)
(* stopExisting, or the start of the tunnel, waits for ever.                 *)
(****************************************************************************)
ConnectResolves ==
    (connState.at = "Connecting") ~> (connState.at # "Connecting" \/ stopHung)

=============================================================================
