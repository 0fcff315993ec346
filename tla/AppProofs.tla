------------------------------ MODULE AppProofs ------------------------------
(****************************************************************************)
(* The two halves of the Android app, which share no state: the VPN service  *)
(* for every number of connect requests and of instances, and the node list  *)
(* for every set of accounts, configurations and pasted texts.               *)
(*                                                                           *)
(* VPN service. While commands come in turn, at most one thread works on the *)
(* service, and its control state determines which of the proxy, the TUN     *)
(* descriptor and the native tunnel are left of the last request and which   *)
(* are there of the new one (Reached); what is there is what the fields of   *)
(* the running instance name (Held), so that onDestroy and stopExisting find *)
(* it.                                                                       *)
(*                                                                           *)
(* Node list. Until two threads have edited the list at once, what a thread  *)
(* computed is what is shown and then what is saved (Saved); a list computed *)
(* by a sync or a logout has every node but the API's (Kept); and every node *)
(* shown, saved or about to be shown is claimed by the API or by the user    *)
(* (Claimed). The lists are built by recursive functions; what these return  *)
(* follows by induction on a set of naturals, stated without an operator as  *)
(* a parameter (Least, Induction, Iteration).                                *)
(****************************************************************************)
EXTENDS VpnService, NodeSync, SequenceTheorems, WellFoundedInduction, TLAPS

(****************************************************************************)
(* The VPN service.                                                          *)
(****************************************************************************)
Stopping == {"stop_existing", "s_tproxy", "s_close", "s_proxy", "s_null", "proxy_new"}
Starting == {"proxy_start", "establish", "tun_start", "set_running", "set_connected"}
Failing == {"failed", "stop_self"}
States == {"Disconnected", "Connecting", "Connected", "Failed"}

Types ==
    /\ inst \in Services \cup {None}
    /\ fresh \subseteq Services /\ stopReq \subseteq Services
    /\ mpc \in {"idle", "d_set", "d_tproxy", "d_close", "d_proxy"}
    /\ cpc \in [Conns -> {"new", "done"} \cup Stopping \cup Starting \cup Failing]
    /\ owner \in [Conns -> Services \cup {None}]
    /\ \A c \in Conns : cpc[c] # "new" => owner[c] \in Services
    /\ running \in [Services -> BOOLEAN]
    /\ vpnInterface \in [Services -> Conns \cup {None}]
    /\ proxy \in [Services -> Conns \cup {None}]
    /\ connState \in [at : States, by : Conns \cup {None}]
    /\ overlapped \in BOOLEAN /\ tunnelExited \in BOOLEAN

Active(c) == cpc[c] \notin {"new", "done"}

\* Nothing is left of any request.
Clear == listening = {} /\ openFd = {} /\ tunnel = None

\* What is there is what the fields of the running instance name.
Held ==
    IF inst = None THEN Clear
    ELSE /\ listening \subseteq {proxy[inst]}
         /\ openFd \subseteq {vpnInterface[inst]}
         /\ tunnel \in {None, vpnInterface[inst]}

\* Request c is served, but for the tunnel that may have ended by itself.
Served(c) ==
    /\ proxy[inst] = c /\ listening = {c}
    /\ vpnInterface[inst] = c /\ openFd = {c}
    /\ tunnelExited \/ tunnel = c

\* What the connect thread of request c, at work, has done so far.
Reached(c) ==
    /\ cpc[c] = "stop_existing" /\ ~running[inst] => Clear
    /\ cpc[c] \in {"s_close", "s_proxy", "s_null"} => tunnel = None
    /\ cpc[c] \in {"s_proxy", "s_null"} => openFd = {}
    /\ cpc[c] = "s_null" => listening = {}
    /\ cpc[c] \in {"proxy_new", "proxy_start"} => Clear
    /\ cpc[c] \in Starting => proxy[inst] = c
    /\ cpc[c] = "establish" => listening = {c} /\ openFd = {} /\ tunnel = None
    /\ cpc[c] = "tun_start" => /\ listening = {c} /\ openFd = {c} /\ tunnel = None
                               /\ vpnInterface[inst] = c
    /\ cpc[c] \in {"set_running", "set_connected"} => Served(c)
    /\ cpc[c] = "set_connected" => running[inst]

\* How far onDestroy has come.
Destroyed ==
    /\ mpc # "idle" => inst # None /\ inst \in stopReq
    /\ mpc \in {"d_close", "d_proxy"} => tunnel = None
    /\ mpc = "d_proxy" => openFd = {}
    /\ mpc \in {"d_tproxy", "d_close", "d_proxy"} \/ inst = None => connState.at # "Connected"

\* The instance is new, has been told to stop, is at work, or serves.
OneThread ==
    /\ \A c, d \in Conns : Active(c) /\ Active(d) => c = d
    /\ \A c \in Conns : Active(c) => /\ mpc = "idle" /\ inst # None /\ inst \notin stopReq
                                     /\ owner[c] = inst
                                     /\ Reached(c)
    /\ inst # None /\ inst \notin stopReq /\ (\A c \in Conns : ~Active(c)) =>
          running[inst] /\ connState.at = "Connected" /\ Served(connState.by)

Untouched ==
    /\ inst \notin fresh
    /\ \A s \in fresh : ~running[s] /\ s \notin stopReq

InTurn == Held /\ Destroyed /\ OneThread /\ Untouched

VInv == Types /\ (~overlapped => InTurn)
-----------------------------------------------------------------------------
(* The fields keep their types, also when commands overlap. *)
LEMMA InitTypes == Init => Types
<1> SUFFICES ASSUME Init PROVE Types
  OBVIOUS
<1>1. /\ inst \in Services \cup {None} /\ fresh \subseteq Services /\ stopReq \subseteq Services
      /\ mpc \in {"idle", "d_set", "d_tproxy", "d_close", "d_proxy"}
      /\ running \in [Services -> BOOLEAN]
      /\ overlapped \in BOOLEAN /\ tunnelExited \in BOOLEAN
  BY DEF Init
<1>2. /\ cpc \in [Conns -> {"new", "done"} \cup Stopping \cup Starting \cup Failing]
      /\ owner \in [Conns -> Services \cup {None}]
      /\ \A c \in Conns : cpc[c] = "new"
  BY DEF Init
<1>3. /\ vpnInterface \in [Services -> Conns \cup {None}]
      /\ proxy \in [Services -> Conns \cup {None}]
      /\ connState \in [at : States, by : Conns \cup {None}]
  BY DEF Init, States
<1> QED
  BY <1>1, <1>2, <1>3 DEF Types

LEMMA CommandTypes ==
    ASSUME Types, Command \/ TunnelExits \/ Destroy
    PROVE  Types'
<1> USE DEF Types, MayCommand, Deliver, fields, outside, native, history, Show, Goto
<1>1. ASSUME NEW c \in Conns, NEW s \in Services, OnStartCommand(c, s) PROVE Types'
  BY <1>1 DEF OnStartCommand, States, Stopping
<1>2. ASSUME NEW s \in Services, OnStartCommandNull(s) PROVE Types'
  BY <1>2 DEF OnStartCommandNull
<1>3. CASE Disconnect
  BY <1>3 DEF Disconnect
<1>4. CASE OnRevoke
  BY <1>4 DEF OnRevoke, States
<1>5. CASE TunnelExits
  BY <1>5 DEF TunnelExits
<1>6. CASE Destroy
  <2>1. CASE OnDestroy /\ UNCHANGED history
    BY <2>1 DEF OnDestroy
  <2>2. CASE DestroySet /\ UNCHANGED history
    BY <2>2 DEF DestroySet, States
  <2>3. CASE (DestroyTunnel \/ DestroyInterface \/ DestroyProxy) /\ UNCHANGED history
    BY <2>3 DEF DestroyTunnel, DestroyInterface, DestroyProxy
  <2> QED
    BY <1>6, <2>1, <2>2, <2>3 DEF Destroy
<1> QED
  BY <1>1, <1>2, <1>3, <1>4, <1>5, <1>6 DEF Command

LEMMA ConnectTypes ==
    ASSUME Types, NEW c \in Conns, Connect(c)
    PROVE  Types'
<1> USE DEF Types, fields, outside, native, history, Show, Goto, Step, Stopping, Starting, Failing
<1>1. CASE StopExisting(c) /\ UNCHANGED history
  BY <1>1 DEF StopExisting
<1>2. CASE (StopTunnel(c) \/ StopInterface(c) \/ StopProxy(c)) /\ UNCHANGED history
  BY <1>2 DEF StopTunnel, StopInterface, StopProxy
<1>3. CASE (StopForget(c) \/ NewProxy(c)) /\ UNCHANGED history
  BY <1>3 DEF StopForget, NewProxy
<1>4. CASE (StartProxy(c) \/ StartTunnel(c)) /\ UNCHANGED history
  BY <1>4 DEF StartProxy, StartTunnel
<1>5. CASE Establish(c) /\ UNCHANGED history
  BY <1>5 DEF Establish
<1>6. CASE SetRunning(c) /\ UNCHANGED history
  BY <1>6 DEF SetRunning
<1>7. CASE (SetConnected(c) \/ SetFailed(c)) /\ UNCHANGED history
  BY <1>7 DEF SetConnected, SetFailed, States
<1>8. CASE StopSelf(c) /\ UNCHANGED history
  BY <1>8 DEF StopSelf
<1> QED
  BY <1>1, <1>2, <1>3, <1>4, <1>5, <1>6, <1>7, <1>8 DEF Connect

-----------------------------------------------------------------------------
(* A step of the one thread at work, which goes on with its request. *)
LEMMA WorkGoesOn ==
    ASSUME NEW c \in Conns, NEW to, Types, InTurn, Active(c), to \notin {"new", "done"},
           cpc' = [cpc EXCEPT ![c] = to],
           UNCHANGED <<inst, fresh, stopReq, mpc, owner>>,
           \A s \in fresh : ~running[s]',
           Held', Reached(c)'
    PROVE  InTurn'
<1>1. \A d \in Conns : d # c => ~Active(d)'
  BY DEF InTurn, OneThread, Active, Types
<1>2. mpc = "idle" /\ inst # None /\ inst \notin stopReq /\ owner[c] = inst
  BY DEF InTurn, OneThread
<1>3. Active(c)'
  BY DEF Active, Types
<1>4. OneThread'
  BY <1>1, <1>2, <1>3 DEF OneThread
<1>5. Destroyed'
  BY <1>2 DEF Destroyed
<1>6. Untouched'
  BY DEF InTurn, Untouched
<1> QED
  BY <1>4, <1>5, <1>6 DEF InTurn

(* A step with which it ends, served or stopped. *)
LEMMA WorkEnds ==
    ASSUME NEW c \in Conns, Types, InTurn, Active(c),
           cpc' = [cpc EXCEPT ![c] = "done"],
           UNCHANGED <<inst, fresh, mpc, owner, running>>,
           stopReq' \subseteq stopReq \cup {inst},
           \/ inst \in stopReq'
           \/ running[inst] /\ connState'.at = "Connected" /\ Served(connState.by)',
           Held'
    PROVE  InTurn'
<1>1. \A d \in Conns : ~Active(d)'
  BY DEF InTurn, OneThread, Active, Types
<1>2. mpc = "idle" /\ inst # None
  BY DEF InTurn, OneThread
<1>3. OneThread'
  BY <1>1, <1>2 DEF OneThread
<1>4. Destroyed'
  BY <1>2 DEF Destroyed
<1>5. Untouched'
  BY DEF InTurn, Untouched
<1> QED
  BY <1>3, <1>4, <1>5 DEF InTurn

(* A native stop that hangs leaves everything as it was. *)
LEMMA NothingInTurn ==
    ASSUME InTurn,
           UNCHANGED <<inst, fresh, stopReq, mpc, cpc, owner, fields, connState, listening,
                         openFd, tunnel, history>>
    PROVE  InTurn'
  BY DEF fields, history, InTurn, Held, Destroyed, OneThread, Untouched, Active, Reached,
         Served, Clear

(* stopExisting leaves nothing of the last request. *)
LEMMA StoppingInTurn ==
    ASSUME Types, InTurn, NEW c \in Conns, UNCHANGED history,
           StopExisting(c) \/ StopTunnel(c) \/ StopInterface(c) \/ StopProxy(c) \/ StopForget(c)
    PROVE  InTurn'
<1> USE DEF Step, Goto, fields, outside, native
<1>1. Active(c)
  BY DEF StopExisting, StopTunnel, StopInterface, StopProxy, StopForget, Active
<1>2. mpc = "idle" /\ inst \in Services /\ inst # None /\ owner[c] = inst /\ Reached(c) /\ Held
  BY <1>1 DEF InTurn, OneThread, Types
<1>3. \A s \in fresh : ~running[s]
  BY DEF InTurn, Untouched
<1>4. CASE StopExisting(c)
  <2>1. \A s \in fresh : ~running[s]'
    BY <1>2, <1>3, <1>4 DEF StopExisting, Types
  <2>2. Held'
    BY <1>2, <1>4 DEF StopExisting, Held, Clear
  <2>3. Reached(c)'
    BY <1>2, <1>4 DEF StopExisting, Reached, Types, Starting, Clear
  <2> QED
    BY <1>1, <1>4, <2>1, <2>2, <2>3, WorkGoesOn DEF StopExisting
<1>5. CASE StopTunnel(c)
  <2>1. CASE TProxyStop /\ cpc' = [cpc EXCEPT ![c] = "s_close"]
    <3>1. Held'
      BY <1>2, <1>5, <2>1 DEF StopTunnel, TProxyStop, Held, Clear
    <3>2. Reached(c)'
      BY <1>2, <1>5, <2>1 DEF StopTunnel, TProxyStop, Reached, Types, Starting
    <3> QED
      BY <1>1, <1>3, <1>5, <2>1, <3>1, <3>2, WorkGoesOn DEF StopTunnel
  <2>2. CASE TProxyStopHangs /\ UNCHANGED cpc
    BY <1>5, <2>2, NothingInTurn DEF StopTunnel, TProxyStopHangs
  <2> QED
    BY <1>5, <2>1, <2>2 DEF StopTunnel
<1>6. CASE StopInterface(c)
  <2>1. Held' /\ openFd' = {}
    BY <1>2, <1>6 DEF StopInterface, Held, Clear
  <2>2. Reached(c)'
    BY <1>2, <1>6, <2>1 DEF StopInterface, Reached, Types, Starting
  <2> QED
    BY <1>1, <1>3, <1>6, <2>1, <2>2, WorkGoesOn DEF StopInterface
<1>7. CASE StopProxy(c)
  <2>1. Held' /\ listening' = {}
    BY <1>2, <1>7 DEF StopProxy, Held, Clear
  <2>2. Reached(c)'
    BY <1>2, <1>7, <2>1 DEF StopProxy, Reached, Types, Starting
  <2> QED
    BY <1>1, <1>3, <1>7, <2>1, <2>2, WorkGoesOn DEF StopProxy
<1>8. CASE StopForget(c)
  <2>1. Clear
    BY <1>2, <1>8 DEF StopForget, Reached, Clear
  <2>2. Held' /\ Clear'
    BY <1>2, <1>8, <2>1 DEF StopForget, Held, Clear
  <2>3. Reached(c)'
    BY <1>2, <1>8, <2>2 DEF StopForget, Reached, Types, Starting
  <2> QED
    BY <1>1, <1>3, <1>8, <2>2, <2>3, WorkGoesOn DEF StopForget
<1> QED
  BY <1>4, <1>5, <1>6, <1>7, <1>8

(* The proxy, the descriptor and the tunnel of the request come one by one. *)
LEMMA StartingInTurn ==
    ASSUME Types, InTurn, NEW c \in Conns, UNCHANGED history,
           NewProxy(c) \/ StartProxy(c) \/ Establish(c) \/ StartTunnel(c) \/ SetRunning(c)
    PROVE  InTurn'
<1> USE DEF Step, Goto, fields, outside, native, history, TProxyStart
<1>1. Active(c)
  BY DEF NewProxy, StartProxy, Establish, StartTunnel, SetRunning, Active
<1>2. mpc = "idle" /\ inst \in Services /\ inst # None /\ owner[c] = inst /\ Reached(c) /\ Held
  BY <1>1 DEF InTurn, OneThread, Types
<1>3. \A s \in fresh : ~running[s] /\ s # inst
  BY DEF InTurn, Untouched
<1>4. CASE NewProxy(c)
  <2>1. Clear /\ Clear' /\ Held'
    BY <1>2, <1>4 DEF NewProxy, Reached, Held, Clear
  <2>2. Reached(c)'
    BY <1>2, <1>4, <2>1 DEF NewProxy, Reached, Types, Starting
  <2> QED
    BY <1>1, <1>3, <1>4, <2>1, <2>2, WorkGoesOn DEF NewProxy
<1>5. CASE StartProxy(c)
  <2>1. Clear /\ proxy[inst] = c
    BY <1>2, <1>5 DEF StartProxy, Reached, Starting
  <2>2. CASE cpc' = [cpc EXCEPT ![c] = "establish"] /\ listening' = {proxy[owner[c]]}
    <3>1. Held'
      BY <1>2, <1>5, <2>1, <2>2 DEF StartProxy, Held, Clear
    <3>2. Reached(c)'
      BY <1>2, <1>5, <2>1, <2>2 DEF StartProxy, Reached, Types, Starting, Clear
    <3> QED
      BY <1>1, <1>3, <1>5, <2>2, <3>1, <3>2, WorkGoesOn DEF StartProxy
  <2>3. CASE cpc' = [cpc EXCEPT ![c] = "failed"] /\ UNCHANGED listening
    <3>1. Held'
      BY <1>2, <1>5, <2>3 DEF StartProxy, Held, Clear
    <3>2. Reached(c)'
      BY <1>2, <1>5, <2>3 DEF StartProxy, Reached, Types, Starting
    <3> QED
      BY <1>1, <1>3, <1>5, <2>3, <3>1, <3>2, WorkGoesOn DEF StartProxy
  <2> QED
    BY <1>5, <2>2, <2>3 DEF StartProxy
<1>6. CASE Establish(c)
  <2>1. listening = {c} /\ openFd = {} /\ tunnel = None /\ proxy[inst] = c
    BY <1>2, <1>6 DEF Establish, Reached, Starting
  <2>2. CASE cpc' = [cpc EXCEPT ![c] = "tun_start"] /\ openFd' = openFd \cup {c}
             /\ vpnInterface' = [vpnInterface EXCEPT ![owner[c]] = c]
    <3>1. Held'
      BY <1>2, <1>6, <2>1, <2>2 DEF Establish, Held, Clear, Types
    <3>2. Reached(c)'
      BY <1>2, <1>6, <2>1, <2>2 DEF Establish, Reached, Types, Starting
    <3> QED
      BY <1>1, <1>3, <1>6, <2>2, <3>1, <3>2, WorkGoesOn DEF Establish
  <2>3. CASE cpc' = [cpc EXCEPT ![c] = "failed"] /\ UNCHANGED openFd
             /\ vpnInterface' = [vpnInterface EXCEPT ![owner[c]] = None]
    <3>1. Held'
      BY <1>2, <1>6, <2>1, <2>3 DEF Establish, Held, Clear, Types
    <3>2. Reached(c)'
      BY <1>2, <1>6, <2>3 DEF Establish, Reached, Types, Starting
    <3> QED
      BY <1>1, <1>3, <1>6, <2>3, <3>1, <3>2, WorkGoesOn DEF Establish
  <2> QED
    BY <1>6, <2>2, <2>3 DEF Establish
<1>7. CASE StartTunnel(c)
  <2>1. /\ listening = {c} /\ openFd = {c} /\ tunnel = None
        /\ proxy[inst] = c /\ vpnInterface[inst] = c
    BY <1>2, <1>7 DEF StartTunnel, Reached, Starting
  <2>2. CASE cpc' = [cpc EXCEPT ![c] = "set_running"] /\ tunnel' = vpnInterface[owner[c]]
    <3>1. Held'
      BY <1>2, <1>7, <2>1, <2>2 DEF StartTunnel, Held, Clear, Types
    <3>2. Reached(c)'
      BY <1>2, <1>7, <2>1, <2>2 DEF StartTunnel, Reached, Types, Starting, Served
    <3> QED
      BY <1>1, <1>3, <1>7, <2>2, <3>1, <3>2, WorkGoesOn DEF StartTunnel
  <2>3. CASE cpc' = [cpc EXCEPT ![c] = "failed"] /\ UNCHANGED tunnel
    <3>1. Held'
      BY <1>2, <1>7, <2>3 DEF StartTunnel, Held, Clear
    <3>2. Reached(c)'
      BY <1>2, <1>7, <2>3 DEF StartTunnel, Reached, Types, Starting
    <3> QED
      BY <1>1, <1>3, <1>7, <2>3, <3>1, <3>2, WorkGoesOn DEF StartTunnel
  <2> QED
    BY <1>7, <2>2, <2>3 DEF StartTunnel
<1>8. CASE SetRunning(c)
  <2>1. Served(c) /\ proxy[inst] = c
    BY <1>2, <1>8 DEF SetRunning, Reached, Starting
  <2>2. \A s \in fresh : ~running[s]'
    BY <1>2, <1>3, <1>8 DEF SetRunning, Types
  <2>3. Held'
    BY <1>2, <1>8 DEF SetRunning, Held, Clear
  <2>4. Reached(c)'
    BY <1>2, <1>8, <2>1 DEF SetRunning, Reached, Types, Starting, Served
  <2> QED
    BY <1>1, <1>8, <2>2, <2>3, <2>4, WorkGoesOn DEF SetRunning
<1> QED
  BY <1>4, <1>5, <1>6, <1>7, <1>8

(* The thread ends connected, or reports its failure and stops the service. *)
LEMMA EndingInTurn ==
    ASSUME Types, InTurn, NEW c \in Conns, UNCHANGED history,
           SetConnected(c) \/ SetFailed(c) \/ StopSelf(c)
    PROVE  InTurn'
<1> USE DEF Step, Goto, Show, fields, outside, native, history
<1>1. Active(c)
  BY DEF SetConnected, SetFailed, StopSelf, Active
<1>2. mpc = "idle" /\ inst \in Services /\ inst # None /\ owner[c] = inst /\ Reached(c) /\ Held
  BY <1>1 DEF InTurn, OneThread, Types
<1>3. Held'
  BY <1>2 DEF SetConnected, SetFailed, StopSelf, Held, Clear
<1>4. CASE SetConnected(c)
  <2>1. running[inst] /\ Served(c)
    BY <1>2, <1>4 DEF SetConnected, Reached
  <2>2. connState'.at = "Connected" /\ connState'.by = c
    BY <1>4 DEF SetConnected
  <2>3. Served(connState.by)'
    BY <1>4, <2>1, <2>2 DEF SetConnected, Served
  <2> QED
    BY <1>1, <1>3, <1>4, <2>1, <2>2, <2>3, WorkEnds DEF SetConnected
<1>5. CASE SetFailed(c)
  <2>1. Reached(c)'
    BY <1>5 DEF SetFailed, Reached, Types, Starting
  <2>2. \A s \in fresh : ~running[s]'
    BY <1>5 DEF SetFailed, InTurn, Untouched
  <2> QED
    BY <1>1, <1>3, <1>5, <2>1, <2>2, WorkGoesOn DEF SetFailed
<1>6. CASE StopSelf(c)
  BY <1>1, <1>2, <1>3, <1>6, WorkEnds DEF StopSelf
<1> QED
  BY <1>4, <1>5, <1>6

(* A command given in turn finds no thread at work. *)
LEMMA CommandInTurn ==
    ASSUME Types, ~overlapped => InTurn, Command, ~overlapped'
    PROVE  InTurn'
<1> USE DEF fields, outside, native, history
<1>1. /\ mpc = "idle" /\ Quiet /\ InTurn /\ UNCHANGED tunnelExited
      /\ \A c \in Conns : ~Active(c)
  BY DEF Command, OnStartCommand, OnStartCommandNull, Disconnect, OnRevoke, MayCommand, Quiet,
         Active, Types
<1>2. inst # None => /\ running[inst] /\ connState.at = "Connected" /\ Served(connState.by)
                     /\ inst \notin stopReq
  BY <1>1 DEF InTurn, OneThread, Quiet
<1>3. inst = None => Clear
  BY <1>1 DEF InTurn, Held
<1>4. ASSUME NEW c \in Conns, NEW s \in Services, OnStartCommand(c, s) PROVE InTurn'
  <2> USE DEF Deliver, Goto
  <2>1. inst' = s /\ s # None /\ s \notin stopReq /\ fresh' = fresh \ {s} /\ mpc' = "idle"
    BY <1>1, <1>2, <1>4, VpnServiceAssumption DEF OnStartCommand, InTurn, Untouched
  <2>2. Held'
    BY <1>1, <1>3, <1>4, <2>1 DEF OnStartCommand, InTurn, Held, Clear
  <2>3. Destroyed'
    BY <2>1 DEF Destroyed
  <2>4. Untouched'
    BY <1>1, <1>4, <2>1 DEF OnStartCommand, InTurn, Untouched
  <2>5. Reached(c)'
    <3>1. ~running[s] => Clear
      BY <1>1, <1>2, <1>3, <1>4 DEF OnStartCommand
    <3> QED
      BY <1>4, <2>1, <3>1 DEF OnStartCommand, Reached, Clear, Types, Starting
  <2>6. owner'[c] = s /\ Active(c)' /\ \A d \in Conns : d # c => ~Active(d)'
    BY <1>1, <1>4 DEF OnStartCommand, Active, Types
  <2>7. OneThread'
    BY <1>4, <2>1, <2>5, <2>6 DEF OneThread, OnStartCommand
  <2> QED
    BY <2>2, <2>3, <2>4, <2>7 DEF InTurn
<1>5. ASSUME NEW s \in Services, inst' = s, s \in stopReq', s \notin fresh', mpc' = "idle",
             fresh' \subseteq fresh, stopReq' = stopReq \cup {s},
             \A r \in fresh' : ~running'[r], Held', UNCHANGED cpc
      PROVE  InTurn'
  <2>1. \A c \in Conns : ~Active(c)'
    BY <1>1, <1>5 DEF Active
  <2>2. OneThread'
    BY <1>5, <2>1 DEF OneThread
  <2>3. Destroyed'
    BY <1>5, VpnServiceAssumption DEF Destroyed
  <2>4. Untouched'
    BY <1>1, <1>5 DEF InTurn, Untouched
  <2> QED
    BY <1>5, <2>2, <2>3, <2>4 DEF InTurn
<1>6. ASSUME NEW s \in Services, OnStartCommandNull(s) PROVE InTurn'
  <2>1. Held'
    BY <1>3, <1>6, VpnServiceAssumption DEF OnStartCommandNull, Deliver, Held, Clear
  <2> QED
    BY <1>1, <1>5, <1>6, <2>1 DEF OnStartCommandNull, Deliver, InTurn, Untouched
<1>7. CASE Disconnect
  <2>1. Held' /\ inst \in Services
    BY <1>1, <1>7 DEF Disconnect, InTurn, Held, Clear, Types
  <2> QED
    BY <1>1, <1>5, <1>7, <2>1 DEF Disconnect, InTurn, Untouched
<1>8. CASE OnRevoke
  <2>1. Held' /\ inst \in Services
    BY <1>1, <1>8 DEF OnRevoke, InTurn, Held, Clear, Types
  <2>2. \A r \in fresh : ~running'[r]
    BY <1>1, <1>8 DEF OnRevoke, InTurn, Untouched, Types
  <2> QED
    BY <1>1, <1>5, <1>8, <2>1, <2>2 DEF OnRevoke, InTurn, Untouched
<1> QED
  BY <1>4, <1>6, <1>7, <1>8 DEF Command

(* onDestroy runs alone and takes away what the fields of its instance name. *)
LEMMA DestroyInTurn ==
    ASSUME Types, InTurn, Destroy
    PROVE  InTurn'
<1> USE DEF fields, outside, native, history
<1>1. inst \in Services /\ inst # None /\ inst \in stopReq
  BY VpnServiceAssumption
     DEF Destroy, OnDestroy, DestroySet, DestroyTunnel, DestroyInterface, DestroyProxy,
         InTurn, Destroyed, Types
<1>2. UNCHANGED <<cpc, owner, fresh, stopReq>>
  BY DEF Destroy, OnDestroy, DestroySet, DestroyTunnel, DestroyInterface, DestroyProxy
<1>3. \A c \in Conns : ~Active(c) /\ ~Active(c)'
  BY <1>1, <1>2 DEF InTurn, OneThread, Active
<1>4. OneThread'
  <2>1. inst' = None \/ inst' \in stopReq'
    BY <1>1, <1>2
       DEF Destroy, OnDestroy, DestroySet, DestroyTunnel, DestroyInterface, DestroyProxy
  <2> QED
    BY <1>3, <2>1 DEF OneThread
<1>5. Held /\ Destroyed /\ Untouched
  BY DEF InTurn
<1>6. CASE OnDestroy
  <2>1. Held'
    BY <1>1, <1>5, <1>6 DEF OnDestroy, Held, Clear
  <2>2. Destroyed'
    BY <1>1, <1>6 DEF OnDestroy, Destroyed
  <2>3. Untouched'
    BY <1>5, <1>6 DEF OnDestroy, Untouched, Types
  <2> QED
    BY <1>4, <2>1, <2>2, <2>3 DEF InTurn
<1>7. CASE DestroySet
  <2>1. Held'
    BY <1>1, <1>5, <1>7 DEF DestroySet, Held, Clear
  <2>2. Destroyed'
    BY <1>1, <1>7 DEF DestroySet, Destroyed, Show
  <2>3. Untouched'
    BY <1>5, <1>7 DEF DestroySet, Untouched
  <2> QED
    BY <1>4, <2>1, <2>2, <2>3 DEF InTurn
<1>8. CASE DestroyTunnel
  <2>1. CASE TProxyStop /\ mpc' = "d_close"
    <3>1. Held'
      BY <1>1, <1>5, <1>8, <2>1 DEF DestroyTunnel, Held, Clear, TProxyStop
    <3>2. Destroyed'
      BY <1>1, <1>5, <1>8, <2>1 DEF DestroyTunnel, Destroyed, TProxyStop
    <3>3. Untouched'
      BY <1>5, <1>8 DEF DestroyTunnel, Untouched
    <3> QED
      BY <1>4, <3>1, <3>2, <3>3 DEF InTurn
  <2>2. CASE TProxyStopHangs /\ UNCHANGED mpc
    BY <1>8, <2>2, NothingInTurn DEF DestroyTunnel, TProxyStopHangs, Destroy
  <2> QED
    BY <1>8, <2>1, <2>2 DEF DestroyTunnel
<1>9. CASE DestroyInterface
  <2>1. Held' /\ openFd' = {}
    BY <1>1, <1>5, <1>9 DEF DestroyInterface, Held, Clear
  <2>2. Destroyed'
    BY <1>1, <1>5, <1>9, <2>1 DEF DestroyInterface, Destroyed
  <2>3. Untouched'
    BY <1>5, <1>9 DEF DestroyInterface, Untouched
  <2> QED
    BY <1>4, <2>1, <2>2, <2>3 DEF InTurn
<1>10. CASE DestroyProxy
  <2>1. tunnel = None /\ openFd = {} /\ connState.at # "Connected"
    BY <1>5, <1>10 DEF DestroyProxy, Destroyed
  <2>2. Held'
    BY <1>1, <1>5, <1>10, <2>1 DEF DestroyProxy, Held, Clear
  <2>3. Destroyed'
    BY <1>10, <2>1 DEF DestroyProxy, Destroyed
  <2>4. Untouched'
    BY <1>5, <1>10, VpnServiceAssumption DEF DestroyProxy, Untouched, Types
  <2> QED
    BY <1>4, <2>2, <2>3, <2>4 DEF InTurn
<1> QED
  BY <1>6, <1>7, <1>8, <1>9, <1>10 DEF Destroy

(* The native worker may end by itself at any time. *)
LEMMA TunnelExitsInTurn ==
    ASSUME Types, InTurn, TunnelExits
    PROVE  InTurn'
<1> USE DEF TunnelExits, fields
<1>1. Held' /\ (Clear => Clear')
  BY DEF InTurn, Held, Clear
<1>2. Destroyed'
  BY DEF InTurn, Destroyed
<1>3. ASSUME NEW c \in Conns \cup {None}, Served(c) PROVE Served(c)'
  BY <1>3 DEF Served
<1>4. ASSUME NEW c \in Conns, Reached(c) PROVE Reached(c)'
  BY <1>1, <1>3, <1>4 DEF Reached
<1>5. OneThread'
  <2>1. \A c \in Conns : Active(c)' = Active(c)
    BY DEF Active
  <2>2. connState.by \in Conns \cup {None}
    BY DEF Types
  <2> QED
    BY <1>3, <1>4, <2>1, <2>2 DEF InTurn, OneThread
<1>6. Untouched'
  BY DEF InTurn, Untouched
<1> QED
  BY <1>1, <1>2, <1>5, <1>6 DEF InTurn

LEMMA InitVInv == Init => VInv
<1> SUFFICES ASSUME Init PROVE VInv
  OBVIOUS
<1>1. Held /\ Destroyed /\ OneThread /\ Untouched
  BY VpnServiceAssumption DEF Init, Held, Clear, Destroyed, OneThread, Untouched, Active
<1> QED
  BY <1>1, InitTypes DEF VInv, InTurn

LEMMA NextVInv == VInv /\ [Next]_vars => VInv'
<1> SUFFICES ASSUME VInv, [Next]_vars PROVE VInv'
  OBVIOUS
<1>1. CASE Command
  BY <1>1, CommandTypes, CommandInTurn DEF VInv
<1>2. CASE TunnelExits
  BY <1>2, CommandTypes, TunnelExitsInTurn DEF VInv, TunnelExits
<1>3. CASE Destroy
  BY <1>3, CommandTypes, DestroyInTurn DEF VInv, Destroy, history
<1>4. ASSUME NEW c \in Conns, Connect(c) PROVE VInv'
  BY <1>4, ConnectTypes, StoppingInTurn, StartingInTurn, EndingInTurn DEF VInv, Connect, history
<1>5. CASE UNCHANGED vars
  <2>1. UNCHANGED <<inst, fresh, stopReq, mpc, cpc, owner, fields, connState, listening,
                         openFd, tunnel, history>>
    BY <1>5 DEF vars, outside, native
  <2>2. Types'
    BY <2>1 DEF VInv, Types, fields, history
  <2> QED
    BY <2>1, <2>2, NothingInTurn DEF VInv, history
<1> QED
  BY <1>1, <1>2, <1>3, <1>4, <1>5 DEF Next

LEMMA Invariance == Spec => []VInv
  BY InitVInv, NextVInv, PTL DEF Spec

-----------------------------------------------------------------------------
(****************************************************************************)
(* With any number of requests and instances, as long as commands come in    *)
(* turn, stopExisting has freed the port before a new proxy is started.      *)
(****************************************************************************)
THEOREM PortIsFree == Spec => []SwitchFreesPort
<1>1. VInv => SwitchFreesPort
  <2> SUFFICES ASSUME VInv, ~overlapped, NEW c \in Conns, cpc[c] = "proxy_start"
               PROVE  listening = {}
    BY DEF SwitchFreesPort
  <2>1. Active(c)
    BY DEF Active
  <2>2. Reached(c)
    BY <2>1 DEF VInv, InTurn, OneThread
  <2> QED
    BY <2>2 DEF Reached, Clear
<1> QED
  BY <1>1, Invariance, PTL

(****************************************************************************)
(* With any number of requests and instances, as long as commands come in    *)
(* turn, nothing is left of a service whose onDestroy has returned.          *)
(****************************************************************************)
THEOREM DestroyedMeansClean == Spec => []DestroyCleansUpInTurn
<1>1. VInv => DestroyCleansUpInTurn
  BY DEF VInv, InTurn, Held, Clear, Destroyed, DestroyCleansUpInTurn, DestroyCleansUp
<1> QED
  BY <1>1, Invariance, PTL

(****************************************************************************)
(* With any number of requests and instances, as long as commands come in    *)
(* turn, "Connected" at rest names the request that is really served, and    *)
(* nothing of an earlier one is left.                                        *)
(****************************************************************************)
THEOREM ConnectedIsServed == Spec => []ConnectedMeansServing
<1>1. VInv => ConnectedMeansServing
  <2> SUFFICES ASSUME VInv, ~overlapped, Quiet, connState.at = "Connected"
               PROVE  /\ listening = {connState.by}
                      /\ openFd = {connState.by}
                      /\ tunnelExited \/ tunnel = connState.by
    BY DEF ConnectedMeansServing
  <2>1. inst # None
    BY DEF VInv, InTurn, Destroyed
  <2>2. Served(connState.by)
    BY <2>1 DEF VInv, InTurn, OneThread, Active, Quiet, Types
  <2> QED
    BY <2>2 DEF Served
<1> QED
  BY <1>1, Invariance, PTL

(****************************************************************************)
(* The node list.                                                            *)
(****************************************************************************)
EditSteps == {"idle", "publish", "publish_out", "save", "save_out", "clear"}
FetchSteps == {"idle", "start", "login", "refetch", "merge", "publish", "save", "save_api",
               "return"}

\* What the file of settings may hold.
Settings == (Accounts \cup {Nobody}) \X (Accounts \cup {Nobody}) \X SUBSET Uris

NodeTypes ==
    /\ nodes \in Seq(Uris) /\ stored \in Seq(Uris)
    /\ account \in Accounts \cup {Nobody} /\ token \in Accounts \cup {Nobody}
    /\ api_nodes \subseteq Uris
    /\ written \in [nodes : Seq(Uris), settings : Settings]
    /\ main \in [pc : EditSteps, list : Seq(Uris), own : SUBSET Uris]
    /\ fetch \in [pc : FetchSteps, who : Accounts \cup {Nobody}, list : Seq(Uris) \cup Configs,
                  uris : SUBSET Uris]
    /\ fetch.pc = "merge" => fetch.list \in Configs
    /\ fetch.pc \in {"publish", "save", "save_api"} => fetch.list \in Seq(Uris)
    /\ fetch.pc # "idle" => fetch.who \in Accounts
    /\ raced \in BOOLEAN /\ torn \in BOOLEAN

\* What was computed is shown, then saved; in between nobody else computes a list.
Saved ==
    ~raced =>
        /\ Syncing => MainFree
        /\ main.pc \in {"save", "save_out"} => nodes = main.list
        /\ fetch.pc = "save" => nodes = fetch.list
        /\ main.pc \notin {"save", "save_out"} /\ fetch.pc # "save" => stored = nodes

\* The API URIs that go with the list on the screen.
Marked == IF fetch.pc \in {"save", "save_api"} THEN fetch.uris ELSE api_nodes

LoggingOut == main.pc \in {"publish_out", "save_out", "clear"}

\* What a logout or a sync computed has every node of the list but the API's.
Kept ==
    /\ LoggingOut => fetch.pc = "idle"
    /\ ~raced =>
          /\ main.pc = "publish_out" => Shown \ api_nodes \subseteq ToSet(main.list)
          /\ fetch.pc = "publish" => Shown \ api_nodes \subseteq ToSet(fetch.list)

\* The API URIs that go with the saved list.
SavedMarks == IF fetch.pc = "save_api" THEN fetch.uris ELSE api_nodes

\* No list that is shown, is saved or may be shown next has a node that is
\* neither the user's nor marked.
Claimed ==
    ~raced /\ ~torn =>
        /\ Shown \subseteq mine \cup Marked
        /\ ToSet(stored) \subseteq mine \cup SavedMarks
        /\ main.pc = "publish" => ToSet(main.list) \subseteq mine \cup main.own \cup Marked
        /\ main.pc = "publish_out" => ToSet(main.list) \subseteq mine
        /\ main.pc \in {"save_out", "clear"} => Shown \subseteq mine
        /\ fetch.pc = "publish" => ToSet(fetch.list) \subseteq mine \cup fetch.uris

\* Without an account nothing is recorded of the API's, up to a login's end.
LoggedIn == ~torn /\ account = Nobody /\ fetch.pc # "return" => api_nodes = {}

NInv == NodeTypes /\ Saved /\ Kept /\ Claimed /\ LoggedIn

-----------------------------------------------------------------------------
(* Induction, in a form without operators as parameters *)

LEMMA Least ==
    ASSUME NEW T, T \subseteq Nat, T # {}
    PROVE  \E x \in T : \A y \in T : x <= y
<1> DEFINE R == OpToRel(<, Nat)
<1>1. IsWellFoundedOn(R, Nat)
  BY NatLessThanWellFounded
<1>2. \A x, y \in Nat : x < y => <<x, y>> \in R
  BY DEF OpToRel
<1> HIDE DEF R
<1>3. PICK x \in T : \A y \in T : ~ (<<y, x>> \in R)
  BY <1>1, WFMin
<1>4. \A y \in T : ~(y < x)
  BY <1>2, <1>3
<1>5. \A y \in T : x \in Nat /\ y \in Nat
  BY <1>3
<1>6. \A y \in T : x <= y
  BY <1>4, <1>5
<1> QED
  BY <1>3, <1>6

LEMMA Induction ==
    ASSUME NEW T, 0 \in T, \A n \in Nat : n \in T => n + 1 \in T
    PROVE  Nat \subseteq T
<1> DEFINE N == {n \in Nat : n \notin T}
<1>1. CASE N # {}
  <2>1. PICK x \in N : \A y \in N : x <= y
    BY <1>1, Least
  <2>2. x # 0 /\ x \in Nat
    BY <2>1
  <2>3. x - 1 \in Nat /\ (x - 1) + 1 = x /\ ~(x <= x - 1)
    BY <2>2
  <2>4. x - 1 \in T
    BY <2>1, <2>3
  <2>5. x \in T
    BY <2>3, <2>4
  <2> QED
    BY <2>1, <2>5
<1> QED
  BY <1>1


\* There is a run of n steps from v.
Runs(V, v, step, n) ==
    \E f \in [0..n -> V] : f[0] = v /\ \A k \in 1..n : f[k] = step[k][f[k - 1]]

LEMMA Iteration ==
    ASSUME NEW V, NEW v \in V, NEW step \in [Nat -> [V -> V]], NEW n \in Nat
    PROVE  Runs(V, v, step, n)
<1> DEFINE Good(m) == \E f \in [0..m -> V] :
                         f[0] = v /\ \A k \in 1..m : f[k] = step[k][f[k - 1]]
           T == {m \in Nat : Good(m)}
<1>1. 0 \in T
  <2> DEFINE f == [k \in 0..0 |-> v]
  <2>1. f \in [0..0 -> V] /\ f[0] = v /\ \A k \in 1..0 : f[k] = step[k][f[k - 1]]
    OBVIOUS
  <2> HIDE DEF f
  <2> QED
    BY <2>1
<1>2. ASSUME NEW m \in Nat, m \in T PROVE m + 1 \in T
  <2>1. PICK f \in [0..m -> V] : f[0] = v /\ \A k \in 1..m : f[k] = step[k][f[k - 1]]
    BY <1>2
  <2> DEFINE w == step[m + 1][f[m]]
             g == [k \in 0..(m + 1) |-> IF k = m + 1 THEN w ELSE f[k]]
  <2>2. m + 1 \in Nat /\ w \in V
    BY <2>1
  <2>3. g \in [0..(m + 1) -> V] /\ g[0] = v
    <3> HIDE DEF w
    <3> QED
      BY <2>1, <2>2
  <2>4. ASSUME NEW k \in 1..(m + 1) PROVE g[k] = step[k][g[k - 1]]
    <3>1. k - 1 \in 0..m /\ g[k - 1] = f[k - 1]
      BY <2>1
    <3>2. CASE k = m + 1
      BY <3>1, <3>2
    <3>3. CASE k # m + 1
      BY <2>1, <3>1, <3>3
    <3> QED
      BY <3>2, <3>3
  <2> HIDE DEF g
  <2> QED
    BY <2>2, <2>3, <2>4
<1>3. Nat \subseteq T
  <2> HIDE DEF T
  <2> QED
    BY <1>1, <1>2, Induction
<1> QED
  BY <1>3 DEF Runs

LEMMA AppendedSet ==
    ASSUME NEW S, NEW s \in Seq(S), NEW e \in S
    PROVE  Append(s, e) \in Seq(S) /\ ToSet(Append(s, e)) = ToSet(s) \cup {e}
<1>1. /\ Append(s, e) \in Seq(S) /\ Len(Append(s, e)) = Len(s) + 1 /\ Len(s) \in Nat
      /\ \A i \in 1..Len(s) : Append(s, e)[i] = s[i]
      /\ Append(s, e)[Len(s) + 1] = e
      /\ DOMAIN Append(s, e) = 1..(Len(s) + 1) /\ DOMAIN s = 1..Len(s)
  BY AppendProperties, LenProperties
<1>2. \A i : i \in 1..(Len(s) + 1) <=> (i \in 1..Len(s) \/ i = Len(s) + 1)
  BY <1>1
<1> QED
  BY <1>1, <1>2 DEF ToSet

LEMMA AddMissingProperties ==
    ASSUME NEW list \in Seq(Uris), NEW uris, Len(uris) \in Nat
    PROVE  /\ AddMissing(list, uris) \in Seq(Uris)
           /\ ToSet(AddMissing(list, uris)) = ToSet(list) \cup
                 {u \in Uris : \E i \in 1..Len(uris) : uris[i] = u}
<1> DEFINE n == Len(uris)
           Add(s, u) == IF u \in Uris /\ u \notin ToSet(s) THEN Append(s, u) ELSE s
           F(f) == [k \in 0..n |-> IF k = 0 THEN list ELSE Add(f[k - 1], uris[k])]
           step == [k \in Nat |-> [s \in Seq(Uris) |-> Add(s, uris[k])]]
           c == CHOOSE f : f = F(f)
<1>1. AddMissing(list, uris) = c[n]
  BY DEF AddMissing
<1>2. \A s \in Seq(Uris) : \A u : Add(s, u) \in Seq(Uris)
  BY AppendProperties
<1> HIDE DEF Add
<1>3. \E f : f = F(f)
  <2>1. step \in [Nat -> [Seq(Uris) -> Seq(Uris)]]
    BY <1>2
  <2> HIDE DEF step
  <2>2. PICK f \in [0..n -> Seq(Uris)] :
             f[0] = list /\ \A k \in 1..n : f[k] = step[k][f[k - 1]]
    <3>1. Runs(Seq(Uris), list, step, n)
      BY <2>1, Iteration
    <3> QED
      BY <3>1 DEF Runs
  <2>3. ASSUME NEW k \in 0..n PROVE f[k] = F(f)[k]
    <3>1. CASE k = 0
      BY <2>2, <3>1
    <3>2. CASE k # 0
      <4>1. k \in 1..n /\ k \in Nat /\ k - 1 \in 0..n
        BY <3>2
      <4>2. f[k - 1] \in Seq(Uris)
        BY <2>2, <4>1
      <4>3. step[k][f[k - 1]] = Add(f[k - 1], uris[k])
        BY <4>1, <4>2 DEF step
      <4> QED
        BY <2>2, <3>2, <4>1, <4>3
    <3> QED
      BY <3>1, <3>2
  <2>4. f = F(f)
    BY <2>2, <2>3
  <2> QED
    BY <2>4
<1>4. c = F(c)
  BY <1>3
<1> HIDE DEF c
<1>5. 0 \in 0..n /\ c[0] = list
  BY <1>4
<1>6. \A k \in 1..n : c[k] = Add(c[k - 1], uris[k])
  BY <1>4
<1> DEFINE Got(k) == {u \in Uris : \E i \in 1..k : uris[i] = u}
           Good(k) == c[k] \in Seq(Uris) /\ ToSet(c[k]) = ToSet(list) \cup Got(k)
           T == {k \in Nat : k <= n => Good(k)}
<1>7. 0 \in T
  <2>1. Got(0) = {}
    OBVIOUS
  <2> HIDE DEF Got
  <2> QED
    BY <1>5, <2>1
<1>8. ASSUME NEW k \in Nat, k \in T PROVE k + 1 \in T
  <2>1. SUFFICES ASSUME k + 1 <= n PROVE Good(k + 1)
    OBVIOUS
  <2>2. k <= n /\ k + 1 \in 1..n /\ (k + 1) - 1 = k
    BY <2>1
  <2>3. Good(k) /\ c[k + 1] = Add(c[k], uris[k + 1])
    BY <1>6, <1>8, <2>2
  <2>4. Got(k + 1) = Got(k) \cup (Uris \cap {uris[k + 1]})
    <3>1. \A i : i \in 1..(k + 1) <=> (i \in 1..k \/ i = k + 1)
      OBVIOUS
    <3> QED
      BY <3>1
  <2> HIDE DEF Got
  <2>5. CASE uris[k + 1] \in Uris /\ uris[k + 1] \notin ToSet(c[k])
    <3>1. c[k + 1] = Append(c[k], uris[k + 1])
      BY <2>3, <2>5 DEF Add
    <3>2. c[k + 1] \in Seq(Uris) /\ ToSet(c[k + 1]) = ToSet(c[k]) \cup {uris[k + 1]}
      BY <2>3, <2>5, <3>1, AppendedSet
    <3> QED
      BY <2>3, <2>4, <2>5, <3>2
  <2>6. CASE ~(uris[k + 1] \in Uris /\ uris[k + 1] \notin ToSet(c[k]))
    <3>1. c[k + 1] = c[k]
      BY <2>3, <2>6 DEF Add
    <3> QED
      BY <2>3, <2>4, <2>6, <3>1
  <2> QED
    BY <2>5, <2>6
<1>9. Nat \subseteq T
  <2> HIDE DEF T
  <2> QED
    BY <1>7, <1>8, Induction
<1>10. Good(n)
  <2> HIDE DEF Good
  <2> QED
    BY <1>9
<1> QED
  BY <1>1, <1>10

LEMMA FilterNotProperties ==
    ASSUME NEW S, NEW list \in Seq(S), NEW uris
    PROVE  /\ FilterNot(list, uris) \in Seq(S)
           /\ ToSet(FilterNot(list, uris)) = ToSet(list) \ uris
<1> DEFINE n == Len(list)
           Keep(s, u) == IF u \in uris THEN s ELSE Append(s, u)
           F(f) == [k \in 0..n |-> IF k = 0 THEN <<>> ELSE Keep(f[k - 1], list[k])]
           step == [k \in Nat |-> [s \in Seq(S) |-> IF k \in 1..n THEN Keep(s, list[k]) ELSE s]]
           c == CHOOSE f : f = F(f)
<1>0. n \in Nat /\ (\A k \in 1..n : list[k] \in S) /\ DOMAIN list = 1..n /\ <<>> \in Seq(S)
  BY LenProperties, ElementOfSeq, EmptySeq
<1>1. FilterNot(list, uris) = c[n]
  BY DEF FilterNot
<1>2. \A s \in Seq(S) : \A u \in S : Keep(s, u) \in Seq(S)
  BY AppendProperties
<1> HIDE DEF Keep, n
<1>3. \E f : f = F(f)
  <2>1. step \in [Nat -> [Seq(S) -> Seq(S)]]
    BY <1>0, <1>2
  <2> HIDE DEF step
  <2>2. PICK f \in [0..n -> Seq(S)] :
             f[0] = <<>> /\ \A k \in 1..n : f[k] = step[k][f[k - 1]]
    <3>1. Runs(Seq(S), <<>>, step, n)
      BY <1>0, <2>1, Iteration
    <3> QED
      BY <3>1 DEF Runs
  <2>3. ASSUME NEW k \in 0..n PROVE f[k] = F(f)[k]
    <3>1. CASE k = 0
      BY <2>2, <3>1
    <3>2. CASE k # 0
      <4>1. k \in 1..n /\ k \in Nat /\ k - 1 \in 0..n
        BY <1>0, <3>2
      <4>2. f[k - 1] \in Seq(S)
        BY <2>2, <4>1
      <4>3. step[k][f[k - 1]] = Keep(f[k - 1], list[k])
        BY <4>1, <4>2 DEF step
      <4> QED
        BY <2>2, <3>2, <4>1, <4>3
    <3> QED
      BY <3>1, <3>2
  <2>4. f = F(f)
    BY <2>2, <2>3
  <2> QED
    BY <2>4
<1>4. c = F(c)
  BY <1>3
<1> HIDE DEF c
<1>5. c[0] = <<>>
  BY <1>0, <1>4
<1>6. \A k \in 1..n : c[k] = Keep(c[k - 1], list[k])
  BY <1>0, <1>4
<1> DEFINE Got(k) == {list[i] : i \in 1..k}
           Good(k) == c[k] \in Seq(S) /\ ToSet(c[k]) = Got(k) \ uris
           T == {k \in Nat : k <= n => Good(k)}
<1>7. 0 \in T
  <2>1. Got(0) = {} /\ ToSet(<<>>) = {}
    BY DEF ToSet
  <2> HIDE DEF Got
  <2> QED
    BY <1>0, <1>5, <2>1
<1>8. ASSUME NEW k \in Nat, k \in T PROVE k + 1 \in T
  <2>1. SUFFICES ASSUME k + 1 <= n PROVE Good(k + 1)
    OBVIOUS
  <2>2. k <= n /\ k + 1 \in 1..n /\ (k + 1) - 1 = k
    BY <1>0, <2>1
  <2>3. Good(k) /\ c[k + 1] = Keep(c[k], list[k + 1]) /\ list[k + 1] \in S
    BY <1>0, <1>6, <1>8, <2>2
  <2>4. Got(k + 1) = Got(k) \cup {list[k + 1]}
    <3>1. \A i : i \in 1..(k + 1) <=> (i \in 1..k \/ i = k + 1)
      OBVIOUS
    <3> QED
      BY <3>1
  <2> HIDE DEF Got
  <2>5. CASE list[k + 1] \notin uris
    <3>1. c[k + 1] = Append(c[k], list[k + 1])
      BY <2>3, <2>5 DEF Keep
    <3>2. c[k + 1] \in Seq(S) /\ ToSet(c[k + 1]) = ToSet(c[k]) \cup {list[k + 1]}
      BY <2>3, <2>5, <3>1, AppendedSet
    <3> QED
      BY <2>3, <2>4, <2>5, <3>2
  <2>6. CASE list[k + 1] \in uris
    <3>1. c[k + 1] = c[k]
      BY <2>3, <2>6 DEF Keep
    <3> QED
      BY <2>3, <2>4, <2>6, <3>1
  <2> QED
    BY <2>5, <2>6
<1>9. Nat \subseteq T
  <2> HIDE DEF T
  <2> QED
    BY <1>7, <1>8, Induction
<1>10. Good(n)
  <2> HIDE DEF Good
  <2> QED
    BY <1>0, <1>9
<1>11. Got(n) = ToSet(list)
  BY <1>0 DEF ToSet
<1> HIDE DEF Got
<1> QED
  BY <1>1, <1>10, <1>11

-----------------------------------------------------------------------------
(* The lists that edits and syncs compute *)

\* The list after a rename.
Renamed(u, label) ==
    [i \in DOMAIN nodes |-> IF nodes[i] = u THEN relabel(u, label) ELSE nodes[i]]

LEMMA RenamedProperties ==
    ASSUME NodeTypes, NEW u \in Uris, NEW label \in NewLabels
    PROVE  /\ Renamed(u, label) \in Seq(Uris) /\ relabel(u, label) \in Uris
           /\ ToSet(Renamed(u, label)) \subseteq
                 Shown \cup (IF u \in Shown THEN {relabel(u, label)} ELSE {})
<1>1. nodes \in [1..Len(nodes) -> Uris] /\ Len(nodes) \in Nat /\ DOMAIN nodes = 1..Len(nodes)
  BY LenProperties, ElementOfSeq DEF NodeTypes
<1>2. relabel(u, label) \in Uris
  BY NodeSyncAssumption DEF relabel, Uris
<1>3. Renamed(u, label) \in [1..Len(nodes) -> Uris]
  BY <1>1, <1>2 DEF Renamed
<1>4. Renamed(u, label) \in Seq(Uris)
  BY <1>1, <1>3, SeqDef
<1>5. DOMAIN Renamed(u, label) = DOMAIN nodes
  BY DEF Renamed
<1>6. ASSUME NEW i \in DOMAIN nodes
      PROVE  Renamed(u, label)[i] \in Shown \cup (IF u \in Shown THEN {relabel(u, label)} ELSE {})
  BY DEF Renamed, Shown, ToSet
<1> QED
  BY <1>2, <1>4, <1>5, <1>6 DEF ToSet

LEMMA LabelledProperties ==
    ASSUME NEW found \in Configs
    PROVE  /\ Labelled(found) \in Seq(Uris) /\ Len(Labelled(found)) \in Nat
           /\ {u \in Uris : \E i \in 1..Len(Labelled(found)) : Labelled(found)[i] = u}
                 = ToSet(Labelled(found))
           /\ ToSet(Labelled(found)) \subseteq Uris
<1>1. found \in Seq(STRING \X Uris)
  BY NodeSyncAssumption
<1>2. Len(found) \in Nat /\ DOMAIN found = 1..Len(found)
      /\ \A i \in 1..Len(found) : found[i] \in STRING \X Uris
  BY <1>1, LenProperties, ElementOfSeq
<1>3. \A i \in 1..Len(found) : RegionLabel(found[i][1]) \in Labels
  BY <1>2, NodeSyncAssumption
<1>4. \A i \in 1..Len(found) : relabel(found[i][2], RegionLabel(found[i][1])) \in Uris
  BY <1>2, <1>3 DEF relabel, Uris
<1>5. Labelled(found) \in [1..Len(found) -> Uris]
  BY <1>2, <1>4 DEF Labelled
<1>6. Labelled(found) \in Seq(Uris)
  BY <1>2, <1>5, SeqDef
<1> DEFINE items == Labelled(found)
<1>7. items \in Seq(Uris)
  BY <1>6
<1> HIDE DEF items
<1>8. Len(items) \in Nat /\ DOMAIN items = 1..Len(items) /\ \A i \in 1..Len(items) : items[i] \in Uris
  BY <1>7, LenProperties, ElementOfSeq
<1>9. {u \in Uris : \E i \in 1..Len(items) : items[i] = u} = ToSet(items)
  BY <1>8 DEF ToSet
<1>10. ToSet(items) \subseteq Uris
  BY <1>9
<1> QED
  BY <1>6, <1>8, <1>9, <1>10 DEF items

\* The list after a sync.
Synced == AddMissing(FilterNot(nodes, api_nodes), Labelled(fetch.list))

LEMMA SyncedProperties ==
    ASSUME NodeTypes, fetch.pc = "merge"
    PROVE  /\ Synced \in Seq(Uris) /\ ToSet(Labelled(fetch.list)) \subseteq Uris
           /\ ToSet(Synced) = (Shown \ api_nodes) \cup ToSet(Labelled(fetch.list))
<1> DEFINE list == FilterNot(nodes, api_nodes)
           items == Labelled(fetch.list)
<1>1. nodes \in Seq(Uris) /\ fetch.list \in Configs
  BY DEF NodeTypes
<1>2. list \in Seq(Uris) /\ ToSet(list) = Shown \ api_nodes
  BY <1>1, FilterNotProperties DEF Shown
<1>3. /\ items \in Seq(Uris) /\ Len(items) \in Nat /\ ToSet(items) \subseteq Uris
      /\ {u \in Uris : \E i \in 1..Len(items) : items[i] = u} = ToSet(items)
  BY <1>1, LabelledProperties
<1>4. Synced = AddMissing(list, items)
  BY DEF Synced
<1> HIDE DEF list, items
<1>5. /\ AddMissing(list, items) \in Seq(Uris)
      /\ ToSet(AddMissing(list, items)) = ToSet(list) \cup
            {u \in Uris : \E i \in 1..Len(items) : items[i] = u}
  BY <1>2, <1>3, AddMissingProperties
<1> QED
  BY <1>2, <1>3, <1>4, <1>5 DEF items

\* What an edit may compute.
Edited(list, own) ==
    /\ list \in Seq(Uris) /\ own \subseteq Uris
    /\ ToSet(list) \subseteq Shown \cup own

\* An edit that has just been made, of a logout or not.
BeginEdit(list, own) == main.pc = "idle" /\ Edited(list, own) /\ Begin("publish", list, own)
BeginOut(list) ==
    /\ CanLogout /\ list \in Seq(Uris) /\ ToSet(list) = Shown \ api_nodes
    /\ Begin("publish_out", list, {})

LEMMA Edits ==
    ASSUME NodeTypes
    PROVE  /\ \A text \in Pastes : importNodes(text) => \E list, own : BeginEdit(list, own)
           /\ \A u \in Uris : deleteNode(u) => \E list, own : BeginEdit(list, own)
           /\ \A u \in Uris, label \in NewLabels :
                 renameNode(u, label) => \E list, own : BeginEdit(list, own)
           /\ logout => \E list : BeginOut(list)
<1>1. nodes \in Seq(Uris) /\ Shown = ToSet(nodes)
  BY DEF NodeTypes, Shown
<1>2. ASSUME NEW text \in Pastes, importNodes(text) PROVE \E list, own : BeginEdit(list, own)
  <2> DEFINE current == AddMissing(nodes, text)
             added == ToSet(current) \ Shown
  <2>1. Len(text) \in Nat
    BY NodeSyncAssumption
  <2>2. /\ current \in Seq(Uris)
        /\ ToSet(current) = ToSet(nodes) \cup {u \in Uris : \E i \in 1..Len(text) : text[i] = u}
    BY <1>1, <2>1, AddMissingProperties
  <2>3. main.pc = "idle" /\ Begin("publish", current, added)
    BY <1>2 DEF importNodes, MainFree
  <2>4. Edited(current, added)
    <3> HIDE DEF current
    <3> QED
      BY <1>1, <2>2 DEF Edited
  <2> QED
    BY <2>3, <2>4 DEF BeginEdit
<1>3. ASSUME NEW u \in Uris, deleteNode(u) PROVE \E list, own : BeginEdit(list, own)
  <2> DEFINE list == FilterNot(nodes, {u})
  <2>1. list \in Seq(Uris) /\ ToSet(list) = ToSet(nodes) \ {u}
    BY <1>1, FilterNotProperties
  <2>2. main.pc = "idle" /\ Begin("publish", list, {})
    BY <1>3 DEF deleteNode, MainFree
  <2> HIDE DEF list
  <2>3. Edited(list, {})
    BY <1>1, <2>1 DEF Edited
  <2> QED
    BY <2>2, <2>3 DEF BeginEdit
<1>4. ASSUME NEW u \in Uris, NEW label \in NewLabels, renameNode(u, label)
      PROVE  \E list, own : BeginEdit(list, own)
  <2> DEFINE own == IF u \in Shown THEN {relabel(u, label)} ELSE {}
  <2>1. main.pc = "idle" /\ Begin("publish", Renamed(u, label), own)
    BY <1>4 DEF renameNode, MainFree, Renamed
  <2>2. Edited(Renamed(u, label), own)
    BY RenamedProperties DEF Edited
  <2> QED
    BY <2>1, <2>2 DEF BeginEdit
<1>5. ASSUME logout PROVE \E list : BeginOut(list)
  <2> DEFINE list == FilterNot(nodes, api_nodes)
  <2>1. list \in Seq(Uris) /\ ToSet(list) = Shown \ api_nodes
    BY <1>1, FilterNotProperties
  <2>2. CanLogout /\ Begin("publish_out", list, {})
    BY <1>5 DEF logout
  <2> QED
    BY <2>1, <2>2 DEF BeginOut
<1> QED
  BY <1>2, <1>3, <1>4, <1>5

-----------------------------------------------------------------------------
(* The steps, with what an edit computes left open *)

\* The steps of login and refreshNodes, and those of the files.
Syncs ==
    \/ \E who \in Accounts : login(who)
    \/ refreshNodes
    \/ \E config \in Configs : FetchWithToken(config) \/ FetchAgain(config)
    \/ TokenFails \/ ApiLogin \/ FetchThrows
    \/ Merge \/ FetchPublish \/ FetchSave \/ saveApiNodeUris \/ Return

Writes == WriteNodes \/ WriteSettings

LEMMA NodeSteps ==
    ASSUME NodeTypes, [NodesNext]_nodesVars
    PROVE  \/ (\E list, own : BeginEdit(list, own)) \/ (\E list : BeginOut(list))
           \/ Publish \/ Save \/ clearAccount \/ Syncs \/ Writes \/ Restart
           \/ UNCHANGED nodesVars
  BY Edits DEF NodesNext, Syncs, Writes

LEMMA NodeTypesStep ==
    ASSUME NodeTypes, [NodesNext]_nodesVars
    PROVE  NodeTypes'
<1> USE DEF prefs, settings, nodesHistory
<1>0. <<>> \in Seq(Uris)
  BY EmptySeq
<1>1. ASSUME NEW list, NEW own, BeginEdit(list, own) PROVE NodeTypes'
  BY <1>1 DEF BeginEdit, Edited, Begin, NodeTypes, EditSteps
<1>2. ASSUME NEW list, BeginOut(list) PROVE NodeTypes'
  BY <1>2 DEF BeginOut, Begin, NodeTypes, EditSteps
<1>3. CASE Publish \/ Save \/ clearAccount
  <2>1. Resting \in [pc : EditSteps, list : Seq(Uris), own : SUBSET Uris]
    BY <1>0 DEF Resting, EditSteps
  <2> QED
    BY <1>3, <2>1 DEF Publish, Save, clearAccount, NodeTypes, EditSteps
<1>4. CASE Syncs
  <2> DEFINE Fetches == [pc : FetchSteps, who : Accounts \cup {Nobody},
                         list : Seq(Uris) \cup Configs, uris : SUBSET Uris]
             Started(who) == [Asleep EXCEPT !.pc = "start", !.who = who]
  <2>0. /\ Asleep \in Fetches /\ Asleep.pc = "idle"
        /\ \A who \in Accounts : /\ Started(who) \in Fetches /\ Started(who).pc = "start"
                                  /\ Started(who).who = who
    BY <1>0 DEF Asleep, FetchSteps
  <2>1. ASSUME NEW who \in Accounts, login(who) PROVE NodeTypes'
    BY <2>0, <2>1 DEF login, NodeTypes
  <2>2. CASE refreshNodes
    BY <2>0, <2>2 DEF refreshNodes, NodeTypes
  <2>3. ASSUME NEW config \in Configs, FetchWithToken(config) \/ FetchAgain(config)
        PROVE  NodeTypes'
    BY <2>3 DEF FetchWithToken, FetchAgain, NodeTypes, FetchSteps
  <2>4. CASE TokenFails \/ ApiLogin
    BY <2>4 DEF TokenFails, ApiLogin, Fetching, NodeTypes, FetchSteps
  <2>5. CASE Merge
    <3>1. /\ fetch.pc = "merge" /\ UNCHANGED <<nodes, prefs, main, torn>>
          /\ fetch' = [fetch EXCEPT !.pc = "publish", !.list = Synced,
                                    !.uris = ToSet(Labelled(fetch.list))]
          /\ raced' = (raced \/ ~MainFree)
      BY <2>5 DEF Merge, Synced
    <3>2. Synced \in Seq(Uris) /\ ToSet(Labelled(fetch.list)) \subseteq Uris
      BY <3>1, SyncedProperties
    <3> QED
      BY <3>1, <3>2 DEF NodeTypes, FetchSteps
  <2>6. CASE FetchPublish \/ FetchSave \/ saveApiNodeUris
    BY <2>6 DEF FetchPublish, FetchSave, saveApiNodeUris, Fetching, NodeTypes, FetchSteps
  <2>7. CASE FetchThrows
    BY <2>0, <2>7 DEF FetchThrows, NodeTypes
  <2>8. CASE Return
    BY <2>0, <2>8 DEF Return, NodeTypes
  <2> QED
    BY <1>4, <2>1, <2>2, <2>3, <2>4, <2>5, <2>6, <2>7, <2>8 DEF Syncs
<1>5. CASE Restart
  <2>0. /\ account' \in Accounts \cup {Nobody} /\ token' \in Accounts \cup {Nobody}
        /\ api_nodes' \subseteq Uris /\ nodes' \in Seq(Uris) /\ stored' \in Seq(Uris)
    BY <1>5 DEF Restart, Load, NodeTypes, Settings
  <2>1. Resting \in [pc : EditSteps, list : Seq(Uris), own : SUBSET Uris]
    BY <1>0 DEF Resting, EditSteps
  <2>2. torn' \in BOOLEAN
    BY <1>5 DEF Restart, NodeTypes
  <2>3. /\ fetch' \in [pc : FetchSteps, who : Accounts \cup {Nobody},
                        list : Seq(Uris) \cup Configs, uris : SUBSET Uris]
        /\ fetch'.pc = "idle" \/ (fetch'.pc = "start" /\ fetch'.who \in Accounts)
    BY <1>0, <1>5, <2>0 DEF Restart, FetchSteps, Asleep
  <2> QED
    BY <1>5, <2>0, <2>1, <2>2, <2>3 DEF Restart, NodeTypes
<1>6. CASE UNCHANGED nodesVars
  BY <1>6 DEF nodesVars, NodeTypes
<1>7. CASE Writes
  BY <1>7 DEF Writes, WriteNodes, WriteSettings, NodeTypes, Settings
<1> QED
  BY <1>1, <1>2, <1>3, <1>4, <1>5, <1>6, <1>7, NodeSteps

LEMMA SavedStep ==
    ASSUME NodeTypes, Saved, [NodesNext]_nodesVars
    PROVE  Saved'
<1> USE DEF prefs, settings, nodesHistory, Saved, Syncing, MainFree
<1>1. ASSUME NEW list, NEW own, BeginEdit(list, own) PROVE Saved'
  BY <1>1 DEF BeginEdit, Begin
<1>2. ASSUME NEW list, BeginOut(list) PROVE Saved'
  BY <1>2 DEF BeginOut, Begin, CanLogout
<1>3. CASE Publish
  BY <1>3 DEF Publish, NodeTypes
<1>4. CASE Save
  BY <1>4 DEF Save, NodeTypes, Resting
<1>5. CASE clearAccount
  BY <1>5 DEF clearAccount, Resting
<1>6. CASE Syncs
  <2>1. ASSUME NEW who \in Accounts, login(who) PROVE Saved'
    BY <2>1 DEF login, Asleep
  <2>2. CASE refreshNodes
    BY <2>2 DEF refreshNodes, Asleep
  <2>3. ASSUME NEW config \in Configs, FetchWithToken(config) \/ FetchAgain(config)
        PROVE  Saved'
    BY <2>3 DEF FetchWithToken, FetchAgain, NodeTypes
  <2>4. CASE TokenFails \/ ApiLogin \/ FetchThrows
    BY <2>4 DEF TokenFails, ApiLogin, FetchThrows, Fetching, NodeTypes, Asleep
  <2>5. CASE Merge
    BY <2>5 DEF Merge, NodeTypes
  <2>6. CASE FetchPublish \/ FetchSave \/ saveApiNodeUris \/ Return
    BY <2>6 DEF FetchPublish, FetchSave, saveApiNodeUris, Return, Fetching, NodeTypes, Asleep
  <2> QED
    BY <1>6, <2>1, <2>2, <2>3, <2>4, <2>5, <2>6 DEF Syncs
<1>7. CASE Restart
  BY <1>7 DEF Restart, Resting, Asleep
<1>8. CASE UNCHANGED nodesVars
  BY <1>8 DEF nodesVars
<1>9. CASE Writes
  BY <1>9 DEF Writes, WriteNodes, WriteSettings
<1> QED
  BY <1>1, <1>2, <1>3, <1>4, <1>5, <1>6, <1>7, <1>8, <1>9, NodeSteps

LEMMA LoggedInStep ==
    ASSUME NInv, [NodesNext]_nodesVars
    PROVE  LoggedIn'
<1> USE DEF prefs, settings, nodesHistory, NInv, NodeTypes, LoggedIn
<1>1. ASSUME NEW list, NEW own, BeginEdit(list, own) PROVE LoggedIn'
  BY <1>1 DEF BeginEdit, Begin
<1>2. ASSUME NEW list, BeginOut(list) PROVE LoggedIn'
  BY <1>2 DEF BeginOut, Begin
<1>3. CASE Publish \/ Save
  BY <1>3 DEF Publish, Save
<1>4. CASE clearAccount
  BY <1>4 DEF clearAccount, Kept, LoggingOut
<1>5. CASE Syncs
  <2>1. ASSUME NEW who \in Accounts, login(who) PROVE LoggedIn'
    BY <2>1 DEF login, Asleep
  <2>2. CASE refreshNodes
    BY <2>2 DEF refreshNodes, Asleep
  <2>3. ASSUME NEW config \in Configs, FetchWithToken(config) \/ FetchAgain(config)
        PROVE  LoggedIn'
    BY <2>3 DEF FetchWithToken, FetchAgain
  <2>4. CASE TokenFails \/ ApiLogin \/ FetchThrows
    BY <2>4 DEF TokenFails, ApiLogin, FetchThrows, Fetching, Asleep
  <2>5. CASE Merge
    BY <2>5 DEF Merge
  <2>6. CASE FetchPublish \/ FetchSave \/ saveApiNodeUris
    BY <2>6 DEF FetchPublish, FetchSave, saveApiNodeUris, Fetching
  <2>7. CASE Return
    BY <2>7, NodeSyncAssumption DEF Return, Asleep
  <2> QED
    BY <1>5, <2>1, <2>2, <2>3, <2>4, <2>5, <2>6, <2>7 DEF Syncs
<1>6. CASE Restart
  <2> SUFFICES ASSUME ~torn', account' = Nobody PROVE api_nodes' = {}
    OBVIOUS
  <2>1. ~torn /\ ~Unwritten /\ ~HalfSaved
    BY <1>6 DEF Restart
  <2>2. account' = account /\ api_nodes' = api_nodes
    BY <1>6, <2>1 DEF Restart, Load, Unwritten
  <2> QED
    BY <2>1, <2>2 DEF HalfSaved
<1>7. CASE UNCHANGED nodesVars
  BY <1>7 DEF nodesVars
<1>8. CASE Writes
  BY <1>8 DEF Writes, WriteNodes, WriteSettings
<1> QED
  BY <1>1, <1>2, <1>3, <1>4, <1>5, <1>6, <1>7, <1>8, NodeSteps

LEMMA KeptStep ==
    ASSUME NInv, [NodesNext]_nodesVars
    PROVE  Kept'
<1> USE DEF prefs, settings, nodesHistory, NInv, Kept, LoggingOut, Shown
<1>1. ASSUME NEW list, NEW own, BeginEdit(list, own) PROVE Kept'
  BY <1>1 DEF BeginEdit, Begin
<1>2. ASSUME NEW list, BeginOut(list) PROVE Kept'
  BY <1>2 DEF BeginOut, Begin, CanLogout
<1>3. CASE Publish
  BY <1>3 DEF Publish, Saved, Syncing, MainFree, NodeTypes
<1>4. CASE Save
  BY <1>4 DEF Save, Saved, Syncing, MainFree, NodeTypes, Resting
<1>5. CASE clearAccount
  BY <1>5 DEF clearAccount, Resting
<1>6. CASE Syncs
  <2>1. ASSUME NEW who \in Accounts, login(who) PROVE Kept'
    BY <2>1 DEF login, MainFree, Asleep
  <2>2. CASE refreshNodes
    BY <2>2 DEF refreshNodes, MainFree, Asleep
  <2>3. ASSUME NEW config \in Configs, FetchWithToken(config) \/ FetchAgain(config)
        PROVE  Kept'
    BY <2>3 DEF FetchWithToken, FetchAgain, NodeTypes
  <2>4. CASE TokenFails \/ ApiLogin \/ FetchThrows
    BY <2>4 DEF TokenFails, ApiLogin, FetchThrows, Fetching, NodeTypes, Asleep
  <2>5. CASE Merge
    <3>1. /\ fetch.pc = "merge" /\ UNCHANGED <<nodes, prefs, main, mine>>
          /\ fetch'.pc = "publish" /\ fetch'.list = Synced
      BY <2>5 DEF Merge, Synced, NodeTypes
    <3>2. Shown \ api_nodes \subseteq ToSet(Synced)
      BY <3>1, SyncedProperties
    <3> QED
      BY <3>1, <3>2
  <2>6. CASE FetchPublish
    BY <2>6 DEF FetchPublish, Fetching, NodeTypes, Saved, Syncing, MainFree
  <2>7. CASE FetchSave \/ saveApiNodeUris \/ Return
    BY <2>7 DEF FetchSave, saveApiNodeUris, Return, Fetching, NodeTypes, Asleep
  <2> QED
    BY <1>6, <2>1, <2>2, <2>3, <2>4, <2>5, <2>6, <2>7 DEF Syncs
<1>7. CASE Restart
  BY <1>7 DEF Restart, Resting, Asleep
<1>8. CASE UNCHANGED nodesVars
  BY <1>8 DEF nodesVars
<1>9. CASE Writes
  BY <1>9 DEF Writes, WriteNodes, WriteSettings
<1> QED
  BY <1>1, <1>2, <1>3, <1>4, <1>5, <1>6, <1>7, <1>8, <1>9, NodeSteps

LEMMA ClaimedStep ==
    ASSUME NInv, [NodesNext]_nodesVars
    PROVE  Claimed'
<1> USE DEF prefs, settings, nodesHistory, NInv, Claimed, Marked, SavedMarks, Shown
<1>1. ASSUME NEW list, NEW own, BeginEdit(list, own) PROVE Claimed'
  BY <1>1 DEF BeginEdit, Edited, Begin
<1>2. ASSUME NEW list, BeginOut(list) PROVE Claimed'
  BY <1>2 DEF BeginOut, Begin, CanLogout
<1>3. CASE Publish
  BY <1>3 DEF Publish, Saved, Syncing, MainFree, NodeTypes
<1>4. CASE Save
  BY <1>4 DEF Save, Saved, Syncing, MainFree, NodeTypes, Resting
<1>5. CASE clearAccount
  <2>1. fetch.pc = "idle" /\ (~raced => stored = nodes)
    BY <1>5 DEF clearAccount, Kept, LoggingOut, Saved
  <2> QED
    BY <1>5, <2>1 DEF clearAccount, Resting
<1>6. CASE Syncs
  <2>1. ASSUME NEW who \in Accounts, login(who) PROVE Claimed'
    BY <2>1 DEF login, MainFree, Asleep
  <2>2. CASE refreshNodes
    BY <2>2 DEF refreshNodes, MainFree, Asleep
  <2>3. ASSUME NEW config \in Configs, FetchWithToken(config) \/ FetchAgain(config)
        PROVE  Claimed'
    BY <2>3 DEF FetchWithToken, FetchAgain, NodeTypes
  <2>4. CASE TokenFails \/ ApiLogin \/ FetchThrows
    BY <2>4 DEF TokenFails, ApiLogin, FetchThrows, Fetching, NodeTypes, Asleep
  <2>5. CASE Merge
    <3>1. /\ fetch.pc = "merge" /\ UNCHANGED <<nodes, prefs, main, mine, torn>>
          /\ fetch'.pc = "publish" /\ fetch'.list = Synced
          /\ fetch'.uris = ToSet(Labelled(fetch.list)) /\ raced' = (raced \/ ~MainFree)
      BY <2>5 DEF Merge, Synced, NodeTypes
    <3>2. ToSet(Synced) = (Shown \ api_nodes) \cup ToSet(Labelled(fetch.list))
      BY <3>1, SyncedProperties
    <3> QED
      BY <3>1, <3>2
  <2>6. CASE FetchPublish
    BY <2>6 DEF FetchPublish, Fetching, NodeTypes, Saved, Syncing, MainFree, Kept
  <2>7. CASE FetchSave \/ saveApiNodeUris \/ Return
    <3>1. CASE FetchSave
      BY <2>7, <3>1 DEF FetchSave, Fetching, NodeTypes, Saved, Syncing, MainFree
    <3>2. CASE saveApiNodeUris
      BY <2>7, <3>2 DEF saveApiNodeUris, Fetching, NodeTypes, Kept, LoggingOut
    <3>3. CASE Return
      BY <2>7, <3>3 DEF Return, Asleep
    <3> QED
      BY <2>7, <3>1, <3>2, <3>3
  <2> QED
    BY <1>6, <2>1, <2>2, <2>3, <2>4, <2>5, <2>6, <2>7 DEF Syncs
<1>7. CASE Restart
  <2> SUFFICES ASSUME ~raced', ~torn' PROVE Claimed'
    OBVIOUS
  <2>1. ~raced /\ ~torn /\ ~Unwritten /\ fetch.pc # "save_api" /\ mine' = mine
    BY <1>7 DEF Restart, HalfSaved
  <2>2. nodes' = stored /\ stored' = stored /\ api_nodes' = api_nodes
    BY <1>7, <2>1 DEF Restart, Load, Unwritten
  <2>3. main'.pc = "idle" /\ fetch'.pc \in {"idle", "start"}
    BY <1>7 DEF Restart, Resting, Asleep
  <2> QED
    BY <2>1, <2>2, <2>3
<1>8. CASE UNCHANGED nodesVars
  BY <1>8 DEF nodesVars
<1>9. CASE Writes
  BY <1>9 DEF Writes, WriteNodes, WriteSettings
<1> QED
  BY <1>1, <1>2, <1>3, <1>4, <1>5, <1>6, <1>7, <1>8, <1>9, NodeSteps

-----------------------------------------------------------------------------
(* The theorems on the node list *)

LEMMA InitNInv == NodesInit => NInv
<1> SUFFICES ASSUME NodesInit PROVE NInv
  OBVIOUS
<1>1. <<>> \in Seq(Uris) /\ ToSet(<<>>) = {}
  BY EmptySeq DEF ToSet
<1>2. main.pc = "idle" /\ fetch.pc = "idle"
  BY DEF NodesInit, Resting, Asleep
<1>3. NodeTypes
  BY <1>1, <1>2 DEF NodesInit, NodeTypes, Settings, settings, Resting, Asleep, EditSteps,
                    FetchSteps
<1>4. Saved /\ Kept /\ LoggedIn
  BY <1>2 DEF NodesInit, Saved, Kept, LoggedIn, LoggingOut, Syncing, MainFree
<1>5. Claimed
  BY <1>1, <1>2 DEF NodesInit, Claimed, Shown
<1> QED
  BY <1>3, <1>4, <1>5 DEF NInv

LEMMA NextNInv == NInv /\ [NodesNext]_nodesVars => NInv'
  BY NodeTypesStep, SavedStep, KeptStep, ClaimedStep, LoggedInStep DEF NInv

LEMMA NodesInvariance == NodesSpec => []NInv
  BY InitNInv, NextNInv, PTL DEF NodesSpec

(****************************************************************************)
(* _nodes and NodeStore.save: whatever edits, syncs, logouts and kills, the  *)
(* saved list is the one on the screen whenever nothing is under way, as     *)
(* long as no sync read or wrote the list in the middle of an edit.          *)
(****************************************************************************)
THEOREM SavedListIsShown == NodesSpec => []SavedIsShown
<1>1. NInv => SavedIsShown
  BY DEF NInv, Saved, SavedIsShown, Settled
<1> QED
  BY <1>1, NodesInvariance, PTL

(****************************************************************************)
(* KEY_API_NODES and the account: every shown node is one the user made or   *)
(* is recorded as one of the API's, and without an account nothing is        *)
(* recorded, after any edits, syncs, logouts, failed logins and kills, as    *)
(* long as no sync overlapped an edit and no kill came before the files held *)
(* the change.                                                               *)
(****************************************************************************)
THEOREM NodesAreAccounted == NodesSpec => []Accounted
<1>1. NInv => Accounted
  BY DEF NInv, Claimed, Marked, LoggedIn, Accounted, Settled
<1> QED
  BY <1>1, NodesInvariance, PTL

(****************************************************************************)
(* importNodes, renameNode, fetchNodes, logout and a kill at any point: a    *)
(* node of the user's own that is in the file stays on the screen, in memory *)
(* and in the file, unless an edit of the user's takes it away, the API      *)
(* delivered the same URI, or an edit and a sync overlapped.                 *)
(****************************************************************************)
THEOREM OwnNodesAreKept == NodesSpec => OwnNodesStay
<1>1. ASSUME NInv, [NodesNext]_nodesVars, main.pc # "publish", ~raced,
             NEW u \in Safe, u \notin api_nodes
      PROVE  u \in Safe'
  <2> USE DEF prefs, settings, nodesHistory, Shown
  <2>1. u \in mine /\ u \in ToSet(nodes) /\ u \in ToSet(stored) /\ u \in ToSet(written.nodes)
    BY <1>1 DEF Safe
  <2> SUFFICES /\ u \in mine' /\ u \in ToSet(nodes') /\ u \in ToSet(stored')
               /\ u \in ToSet(written.nodes')
    BY DEF Safe
  <2>2. CASE UNCHANGED <<nodes, stored, written, mine>>
    BY <2>1, <2>2
  <2>3. CASE Publish
    BY <1>1, <2>1, <2>3 DEF Publish, NInv, Kept
  <2>4. CASE FetchPublish
    BY <1>1, <2>1, <2>4 DEF FetchPublish, NInv, Kept
  <2>5. CASE Save
    BY <1>1, <2>1, <2>5 DEF Save, NInv, Saved
  <2>6. CASE FetchSave
    BY <1>1, <2>1, <2>6 DEF FetchSave, NInv, Saved
  <2>7. CASE Writes
    BY <1>1, <2>1, <2>7 DEF Writes, WriteNodes, WriteSettings, NInv, NodeTypes
  <2>8. CASE Restart
    BY <2>1, <2>8 DEF Restart
  <2>9. ASSUME NEW list, NEW own, BeginEdit(list, own) PROVE UNCHANGED <<nodes, stored, written, mine>>
    BY <2>9 DEF BeginEdit, Begin
  <2>10. ASSUME NEW list, BeginOut(list) PROVE UNCHANGED <<nodes, stored, written, mine>>
    BY <2>10 DEF BeginOut, Begin
  <2>11. CASE clearAccount \/ UNCHANGED nodesVars
    BY <2>2, <2>11 DEF clearAccount, nodesVars
  <2>12. CASE Syncs /\ ~FetchPublish /\ ~FetchSave
    BY <2>2, <2>12 DEF Syncs, login, refreshNodes, FetchWithToken, FetchAgain, TokenFails,
                       ApiLogin, FetchThrows, Merge, saveApiNodeUris, Return
  <2>13. NodeTypes
    BY <1>1 DEF NInv
  <2> QED
    BY <1>1, <2>2, <2>3, <2>4, <2>5, <2>6, <2>7, <2>8, <2>9, <2>10, <2>11, <2>12, <2>13, NodeSteps
<1>2. NInv /\ [NodesNext]_nodesVars =>
        [\A u \in Safe : u \in Safe' \/ u \in api_nodes \/ main.pc = "publish" \/ raced]_nodesVars
  BY <1>1
<1> QED
  BY <1>2, NodesInvariance, PTL DEF NodesSpec, OwnNodesStay

=============================================================================
