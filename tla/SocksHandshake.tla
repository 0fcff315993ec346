--------------------------- MODULE SocksHandshake ---------------------------
(****************************************************************************)
(* The SOCKS5 handshake: the client of hev-socks5-client.c, as a session     *)
(* runs it, against the server of hev-socks5-server.c, over one TCP          *)
(* connection. Either end may give up wherever it waits (an error, a         *)
(* timeout, terminate); an end that is gone is seen as the end of the stream.*)
(****************************************************************************)
EXTENDS Sequences

CONSTANT None

Types == {"TCP", "UDP_IN_TCP", "UDP_IN_UDP"}

ASSUME NoneAssumption == None \notin Types

VARIABLES
    conf,               \* see Confs
    cpc, todo,          \* the client: where it is, the handshake's steps to come
    copen, cown,        \* its open descriptors, those its object refers to
    terminated,         \* timeout = 0
    cork,               \* written with MSG_MORE and kept back by the kernel
    c2s, s2c,           \* readable by the server, by the client
    spc, answer, type,  \* the server: where it is, what it will report, self->type
    sopen, sown,
    sobj, srefs,        \* self->obj, and the objects it holds a reference to
    granted, served     \* history

clientVars == <<cpc, todo, copen, cown, terminated, cork, served>>
serverVars == <<spc, answer, type, sopen, sown, sobj, srefs, granted>>
vars == <<conf, clientVars, c2s, s2c, serverVars>>

Confs == [creds : {"none", "right", "wrong"}, auth : {"yes", "no"}, type : Types,
          pipeline : {"yes", "no"}]

Msg(kind, val) == [kind |-> kind, val |-> val]

\* The first byte of a message: both sides check it.
Version(m) == IF m.kind \in {"creds", "status"} THEN 1 ELSE 5

Init ==
    /\ conf \in Confs
    /\ cpc = "start" /\ todo = <<>> /\ copen = {} /\ cown = {} /\ terminated = FALSE
    /\ cork = <<>> /\ c2s = <<>> /\ s2c = <<>>
    /\ spc = "listen" /\ answer = "" /\ type = None /\ sopen = {"tcp"} /\ sown = {"tcp"}
    /\ sobj = (IF conf.auth = "yes" THEN "auth" ELSE "null")
    /\ srefs = {sobj} \ {"null"}
    /\ granted = None /\ served = None

-----------------------------------------------------------------------------
(* The client *)

\* Mutant: the timeout of a terminated session is set again.
SetTimeoutRevives == terminated' = FALSE

\* hev_socks5_set_timeout with a timeout that is not 0.
SetTimeout == terminated' = terminated

CFinish == cpc' = "end" /\ UNCHANGED <<todo, copen, cown>>

\* hev_socks5_client_connect up to the connect: the name may not resolve, there may
\* be no socket.
CSocket ==
    /\ cpc = "start" /\ SetTimeout
    /\ \/ CFinish
       \/ cpc' = "connecting" /\ copen' = {"tcp"} /\ UNCHANGED <<todo, cown>>
    /\ UNCHANGED <<conf, cork, served, c2s, s2c, serverVars>>

\* Mutant: without credentials the status is awaited all the same.
NoCredentialsStatus ==
    IF conf.pipeline = "yes" THEN <<"r_status", "r_response">>
    ELSE <<"r_status", "w_request", "r_response">>

\* Where the two orders go on when the server asks for no credentials.
NoCredentials ==
    IF conf.pipeline = "yes" THEN <<"r_response">> ELSE <<"w_request", "r_response">>

\* Mutant: the standard order reads the status before it sends the credentials.
OrderSwapped ==
    IF conf.pipeline = "yes"
    THEN <<"w_methods", "w_creds", "w_request", "r_method", "r_status", "r_response">>
    ELSE <<"w_methods", "r_method", "r_status", "w_creds", "w_request", "r_response">>

\* hev_socks5_client_handshake_standard and _pipeline.
Order ==
    IF conf.pipeline = "yes"
    THEN <<"w_methods", "w_creds", "w_request", "r_method", "r_status", "r_response">>
    ELSE <<"w_methods", "r_method", "w_creds", "r_status", "w_request", "r_response">>

\* The connect ends; the server accepts. A failed one closes the descriptor.
CConnect ==
    /\ cpc = "connecting"
    /\ \/ /\ cpc' = "talk" /\ todo' = Order /\ cown' = {"tcp"} /\ spc' = "read_methods"
          /\ SetTimeout /\ UNCHANGED copen
       \/ /\ cpc' = "end" /\ copen' = {}
          /\ UNCHANGED <<todo, cown, spc, terminated>>
    /\ UNCHANGED <<conf, cork, served, c2s, s2c, answer, type, sopen, sown, sobj, srefs,
                   granted>>

CAt(step) == cpc = "talk" /\ todo # <<>> /\ Head(todo) = step

\* write_auth_methods: one method, kept back in the kernel by MSG_MORE.
CWriteMethods ==
    /\ CAt("w_methods") /\ todo' = Tail(todo)
    /\ cork' = Append(cork, Msg("methods", IF conf.creds = "none" THEN "NONE" ELSE "USER"))
    /\ UNCHANGED <<conf, cpc, copen, cown, terminated, served, c2s, s2c, serverVars>>

\* write_auth_creds: nothing without credentials.
CWriteCreds ==
    /\ CAt("w_creds") /\ todo' = Tail(todo)
    /\ cork' = IF conf.creds = "none" THEN cork ELSE Append(cork, Msg("creds", conf.creds))
    /\ UNCHANGED <<conf, cpc, copen, cown, terminated, served, c2s, s2c, serverVars>>

\* write_request: it takes along what was kept back. The address it frees is not
\* modelled (an address that cannot be put into the message leaks).
CWriteRequest ==
    /\ CAt("w_request") /\ todo' = Tail(todo)
    /\ c2s' = Append(c2s \o cork, Msg("request", conf.type)) /\ cork' = <<>>
    /\ UNCHANGED <<conf, cpc, copen, cown, terminated, served, s2c, serverVars>>

CReceive == s2c # <<>> /\ s2c' = Tail(s2c)

\* read_auth_method and the branch on it.
CReadMethod ==
    /\ CAt("r_method") /\ CReceive
    /\ \/ /\ Head(s2c) = Msg("method", "USER") /\ todo' = Tail(todo)
          /\ UNCHANGED <<cpc, copen, cown>>
       \/ /\ Head(s2c) = Msg("method", "NONE") /\ todo' = NoCredentials
          /\ UNCHANGED <<cpc, copen, cown>>
       \/ Head(s2c) \notin {Msg("method", "USER"), Msg("method", "NONE")} /\ CFinish
    /\ UNCHANGED <<conf, terminated, cork, served, c2s, serverVars>>

Succeeds(m, version) == Version(m) = version /\ m.val = "SUCC"

\* read_auth_creds.
CReadStatus ==
    /\ CAt("r_status") /\ CReceive
    /\ \/ /\ Succeeds(Head(s2c), 1) /\ todo' = Tail(todo)
          /\ UNCHANGED <<cpc, copen, cown>>
       \/ ~Succeeds(Head(s2c), 1) /\ CFinish
    /\ UNCHANGED <<conf, terminated, cork, served, c2s, serverVars>>

\* read_response; a UDP_IN_UDP client still needs its own socket.
CReadResponse ==
    /\ CAt("r_response") /\ CReceive
    /\ \/ /\ Succeeds(Head(s2c), 5) /\ todo' = <<>>
          /\ IF conf.type = "UDP_IN_UDP" THEN cpc' = "udp" /\ UNCHANGED <<served, terminated>>
             ELSE cpc' = "service" /\ served' = conf.type /\ SetTimeout
          /\ UNCHANGED <<copen, cown>>
       \/ ~Succeeds(Head(s2c), 5) /\ CFinish /\ UNCHANGED <<served, terminated>>
    /\ UNCHANGED <<conf, cork, c2s, serverVars>>

\* hev_socks5_client_udp_set_upstream_addr up to the connect.
CUdpSocket ==
    /\ cpc = "udp"
    /\ \/ CFinish
       \/ cpc' = "udp_connecting" /\ copen' = copen \cup {"udp"} /\ UNCHANGED <<todo, cown>>
    /\ UNCHANGED <<conf, terminated, cork, served, c2s, s2c, serverVars>>

\* Mutant: the socket stays open when its connect fails.
CUdpClosedNot == copen

\* What is open once the new socket is closed again.
CUdpClosed == copen \ {"udp"}

CUdpConnect ==
    /\ cpc = "udp_connecting"
    /\ \/ /\ cpc' = "service" /\ cown' = cown \cup {"udp"} /\ served' = conf.type
          /\ SetTimeout /\ UNCHANGED copen
       \/ /\ cpc' = "end" /\ copen' = CUdpClosed
          /\ UNCHANGED <<cown, served, terminated>>
    /\ UNCHANGED <<conf, todo, cork, c2s, s2c, serverVars>>

Awaits == [r_method |-> "method", r_status |-> "status", r_response |-> "response"]

\* The client waits for bytes that are not there.
CWaits == cpc = "talk" /\ todo # <<>> /\ Head(todo) \in DOMAIN Awaits /\ s2c = <<>>

\* An error or a timeout at any call, or the end of the service.
CFail ==
    /\ cpc \in {"talk", "service"} /\ CFinish
    /\ UNCHANGED <<conf, terminated, cork, served, c2s, s2c, serverVars>>

\* The two ways a wait is sure to end: the stream has, or the session was terminated.
CGivesUp ==
    /\ (CWaits /\ (spc = "closed" \/ terminated)) \/ (cpc = "service" /\ terminated)
    /\ CFinish
    /\ UNCHANGED <<conf, terminated, cork, served, c2s, s2c, serverVars>>

\* The destructors of the session, the UDP client and the base.
CDestruct ==
    /\ cpc = "end" /\ cpc' = "closed"
    /\ copen' = copen \ cown
    /\ UNCHANGED <<conf, todo, cown, terminated, cork, served, c2s, s2c, serverVars>>

\* hev_socks5_session_terminate.
Terminate ==
    /\ cpc # "closed" /\ ~terminated /\ terminated' = TRUE
    /\ UNCHANGED <<conf, cpc, todo, copen, cown, cork, served, c2s, s2c, serverVars>>

\* External: the kernel sends what it kept back, at the latest after its timer.
Flush ==
    /\ cork # <<>> /\ cork' = <<>> /\ c2s' = c2s \o cork
    /\ UNCHANGED <<conf, cpc, todo, copen, cown, terminated, served, s2c, serverVars>>

-----------------------------------------------------------------------------
(* The server *)

SReceive == c2s # <<>> /\ c2s' = Tail(c2s)

\* read_auth_method: the one method the server wants, if it is offered.
SReadMethods ==
    /\ spc = "read_methods" /\ spc' = "write_method" /\ SReceive
    /\ LET method == IF sobj = "auth" THEN "USER" ELSE "NONE"
       IN  answer' = IF Version(Head(c2s)) = 5 /\ Head(c2s).val = method THEN method ELSE "0xff"
    /\ UNCHANGED <<conf, clientVars, s2c, type, sopen, sown, sobj, srefs, granted>>

SWriteMethod ==
    /\ spc = "write_method"
    /\ s2c' = Append(s2c, Msg("method", answer))
    /\ spc' = CASE answer = "USER" -> "read_creds" [] answer = "NONE" -> "read_request"
                [] OTHER -> "end"
    /\ UNCHANGED <<conf, clientVars, c2s, answer, type, sopen, sown, sobj, srefs, granted>>

\* Mutant: any credentials will do.
ChecksAny(m) == TRUE

\* hev_socks5_authenticator_get and hev_socks5_user_check.
Checks(m) == Version(m) = 1 /\ m.val = "right"

\* self->auth and self->user share their place: a reference for a reference.
SwapRefs == (srefs \cup {"user"}) \ {"auth"}

SReadCreds ==
    /\ spc = "read_creds" /\ spc' = "write_status" /\ SReceive
    /\ IF Checks(Head(c2s)) THEN answer' = "SUCC" /\ sobj' = "user" /\ srefs' = SwapRefs
       ELSE answer' = "FAIL" /\ UNCHANGED <<sobj, srefs>>
    /\ UNCHANGED <<conf, clientVars, s2c, type, sopen, sown, granted>>

SWriteStatus ==
    /\ spc = "write_status"
    /\ s2c' = Append(s2c, Msg("status", answer))
    /\ spc' = IF answer = "SUCC" THEN "read_request" ELSE "end"
    /\ UNCHANGED <<conf, clientVars, c2s, answer, type, sopen, sown, sobj, srefs, granted>>

\* read_request and the switch on the command; the version, the address or the
\* command may be of no use.
SReadRequest ==
    /\ spc = "read_request" /\ SReceive
    /\ \/ /\ Version(Head(c2s)) = 5 /\ Head(c2s).val \in Types
          /\ type' = Head(c2s).val /\ answer' = "SUCC" /\ spc' = "socket"
       \/ type' = type /\ answer' = "REFUSED" /\ spc' = "write_response"
    /\ UNCHANGED <<conf, clientVars, s2c, sopen, sown, sobj, srefs, granted>>

Refusal == IF type = "TCP" THEN "HOST" ELSE "FAIL"

\* hev_socks5_server_connect or _bind: the first socket. A datagram socket is the
\* object's at once, the other one when it is connected.
SSocket ==
    /\ spc = "socket"
    /\ \/ /\ answer' = Refusal /\ spc' = "write_response"
          /\ UNCHANGED <<sopen, sown>>
       \/ /\ sopen' = sopen \cup {"fd0"}
          /\ sown' = IF type = "TCP" THEN sown ELSE sown \cup {"fd0"}
          /\ spc' = IF type = "UDP_IN_TCP" THEN "write_response" ELSE "connecting"
          /\ UNCHANGED answer
    /\ UNCHANGED <<conf, clientVars, c2s, s2c, type, sobj, srefs, granted>>

\* The connect to the target, or the second datagram socket and its bind.
SConnect ==
    /\ spc = "connecting" /\ spc' = "write_response"
    /\ LET fd == IF type = "TCP" THEN "fd0" ELSE "fd1"
       IN  \/ sopen' = sopen \cup {fd} /\ sown' = sown \cup {fd} /\ UNCHANGED answer
           \/ answer' = Refusal /\ sopen' = sopen \ {fd} /\ UNCHANGED sown
    /\ UNCHANGED <<conf, clientVars, c2s, s2c, type, sobj, srefs, granted>>

SWriteResponse ==
    /\ spc = "write_response"
    /\ s2c' = Append(s2c, Msg("response", answer))
    /\ IF answer = "SUCC" THEN spc' = "service" /\ granted' = type
       ELSE spc' = "end" /\ UNCHANGED granted
    /\ UNCHANGED <<conf, clientVars, c2s, answer, type, sopen, sown, sobj, srefs>>

SAwaits == [read_methods |-> "methods", read_creds |-> "creds", read_request |-> "request"]

\* A failed read of the methods or the credentials is answered, too; everything else
\* that fails ends the server.
SFinish ==
    /\ spc' = CASE spc = "read_methods" -> "write_method" [] spc = "read_creds" -> "write_status"
                [] OTHER -> "end"
    /\ answer' = CASE spc = "read_methods" -> "0xff" [] spc = "read_creds" -> "FAIL"
                   [] OTHER -> answer
    /\ UNCHANGED <<conf, clientVars, c2s, s2c, type, sopen, sown, sobj, srefs, granted>>

\* An error or a timeout, or the end of the service.
SFail ==
    /\ spc \in DOMAIN SAwaits \cup {"write_method", "write_status", "write_response", "service"}
    /\ SFinish

\* The server reads the end of the stream.
SGivesUp ==
    /\ spc \in DOMAIN SAwaits \cup {"service"}
    /\ cpc = "closed" /\ cork = <<>> /\ c2s = <<>>
    /\ SFinish

\* hev_socks5_server_destruct and the base's.
SDestruct ==
    /\ spc = "end" /\ spc' = "closed"
    /\ sopen' = sopen \ sown /\ srefs' = srefs \ {sobj}
    /\ UNCHANGED <<conf, clientVars, c2s, s2c, answer, type, sown, sobj, granted>>

-----------------------------------------------------------------------------
Client ==
    \/ CSocket \/ CConnect
    \/ CWriteMethods \/ CWriteCreds \/ CWriteRequest
    \/ CReadMethod \/ CReadStatus \/ CReadResponse
    \/ CUdpSocket \/ CUdpConnect
    \/ CGivesUp \/ CDestruct

Server ==
    \/ SReadMethods \/ SWriteMethod \/ SReadCreds \/ SWriteStatus \/ SReadRequest
    \/ SSocket \/ SConnect \/ SWriteResponse
    \/ SGivesUp \/ SDestruct

Next == Client \/ CFail \/ Terminate \/ Flush \/ Server \/ SFail

Spec == Init /\ [][Next]_vars

\* Tasks that can go on do, and the kernel sends what it keeps back. Nothing is
\* assumed of timeouts: a protocol in which both ends wait would be one that hangs.
FairSpec == Spec /\ WF_vars(Client) /\ WF_vars(Server) /\ WF_vars(Flush)

-----------------------------------------------------------------------------
(* Properties *)

\* The services as the abstract handshake sees them.
Abstract == INSTANCE Handshake WITH granted <- granted, served <- served

(****************************************************************************)
(* The client starts a service only after the server granted that very       *)
(* service, and the server grants only to a client with the credentials it   *)
(* asks for (or, asking for none, to one that has none), in both orders of   *)
(* the messages and whatever fails on the way.                               *)
(****************************************************************************)
Implements == Abstract!Spec

(****************************************************************************)
(* Both ends are in step: whoever reads finds the message it expects, though *)
(* a pipelining client sends before it knows what the server wants and the   *)
(* server answers failed reads.                                              *)
(****************************************************************************)
InStep ==
    /\ \A step \in DOMAIN Awaits :
          CAt(step) /\ s2c # <<>> => Head(s2c).kind = Awaits[step]
    /\ spc \in DOMAIN SAwaits /\ c2s # <<>> => Head(c2s).kind = SAwaits[spc]

(****************************************************************************)
(* Nothing leaks: wherever the handshake or the service ends, the objects'   *)
(* destructors close every descriptor and drop the one reference held, the   *)
(* authenticator's or the user's.                                            *)
(****************************************************************************)
NothingLeft ==
    /\ cpc = "closed" => copen = {}
    /\ spc = "closed" => sopen = {} /\ srefs = {}

(****************************************************************************)
(* The ends never wait for each other: without any timeout the client comes  *)
(* to its service or ends, and so does a server that was connected to, also  *)
(* where the standard order leaves the first message in the kernel's hands.  *)
(****************************************************************************)
HandshakeEnds ==
    /\ <>(cpc \in {"service", "closed"})
    /\ spc = "read_methods" ~> spc \in {"service", "closed"}

(****************************************************************************)
(* A terminated session ends: hev_socks5_set_timeout, called anew at every   *)
(* stage of the handshake, keeps the zero.                                   *)
(****************************************************************************)
TerminateEnds == terminated ~> cpc = "closed"

=============================================================================
