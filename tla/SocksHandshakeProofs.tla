------------------------ MODULE SocksHandshakeProofs ------------------------
(****************************************************************************)
(* The handshake of SocksHandshake implements the abstract Handshake: every  *)
(* step of either end is a grant, the start of a service, or no step of      *)
(* Handshake at all. The argument follows the credentials: what the client   *)
(* sends says what it was configured with, what the server is about to       *)
(* answer says what it has checked, and a success on its way to the client   *)
(* says that the service has been granted. Counting messages shows that both *)
(* ends stay in step, and ownership of descriptors that nothing leaks.       *)
(****************************************************************************)
EXTENDS SocksHandshake, Integers, TLAPS

Offer == IF conf.creds = "none" THEN "NONE" ELSE "USER"

\* What the client may have sent.
Requests == {Msg("methods", Offer), Msg("creds", conf.creds), Msg("request", conf.type)}

Methods == {"USER", "NONE", "0xff"}
Statuses == {"SUCC", "FAIL"}
Responses == {"SUCC", "REFUSED", "HOST", "FAIL"}

\* What the server may have answered.
Replies ==
    [kind : {"method"}, val : Methods] \cup [kind : {"status"}, val : Statuses]
        \cup [kind : {"response"}, val : Responses]

TypeInv ==
    /\ conf \in Confs
    /\ cork \in Seq(Requests) /\ c2s \in Seq(Requests)
    /\ s2c \in Seq(Replies)
    /\ spc = "write_method" => answer \in Methods
    /\ spc = "write_status" => answer \in Statuses
    /\ spc \in {"socket", "connecting"} => answer = "SUCC"
    /\ spc = "write_response" => answer \in Responses

\* What the server has checked by the time it gets somewhere.
Checked ==
    /\ cpc \in {"start", "connecting"} => spc = "listen"
    /\ spc \in {"listen", "read_methods"} => (sobj = "auth" <=> conf.auth = "yes")
    /\ spc = "write_method" /\ answer = "USER" => conf.auth = "yes"
    /\ spc = "write_method" /\ answer = "NONE" => Abstract!Admitted
    /\ spc = "read_creds" => conf.auth = "yes"
    /\ spc = "write_status" /\ answer = "SUCC" => Abstract!Admitted
    /\ spc \in {"read_request", "socket", "connecting", "write_response"} => Abstract!Admitted
    /\ spc \in {"socket", "connecting"} => type = conf.type
    /\ spc = "write_response" /\ answer = "SUCC" => type = conf.type

\* A grant comes once, before its answer is sent, and a service after the answer.
Ordered ==
    /\ granted \in {None, conf.type}
    /\ spc \notin {"service", "end", "closed"} => granted = None
    /\ \A i \in 1 .. Len(s2c) : Succeeds(s2c[i], 5) => granted = conf.type
    /\ cpc \in {"udp", "udp_connecting"} => granted = conf.type
    /\ cpc \notin {"service", "end", "closed"} => served = None

IInv == TypeInv /\ Checked /\ Ordered
-----------------------------------------------------------------------------
(****************************************************************************)
(* Before the client connects nothing was sent, checked or granted.          *)
(****************************************************************************)
LEMMA InitInv == Init => IInv
  <1> SUFFICES ASSUME Init PROVE IInv
    OBVIOUS
  <1>0. /\ conf \in Confs /\ cork = <<>> /\ c2s = <<>> /\ s2c = <<>> /\ spc = "listen"
        /\ cpc = "start" /\ granted = None /\ served = None
    BY DEF Init
  <1>1. TypeInv
    BY <1>0 DEF TypeInv
  <1>2. Checked
    BY DEF Init, Checked
  <1>3. Ordered
    BY <1>0 DEF Ordered
  <1> QED
    BY <1>1, <1>2, <1>3 DEF IInv

(****************************************************************************)
(* Every step of either end and of the kernel keeps the invariant.           *)
(****************************************************************************)
LEMMA Inductive == IInv /\ [Next]_vars => IInv'
  <1> SUFFICES ASSUME IInv, [Next]_vars PROVE IInv'
    OBVIOUS
  <1> USE NoneAssumption
  <1>1. CASE CSocket
    BY <1>1 DEF CSocket, SetTimeout, CFinish, serverVars, CAt, Msg, Offer, Requests, Replies, Methods, Statuses, Responses,
       IInv, TypeInv, Checked, Ordered, Succeeds, Version, Confs, Types, Abstract!Admitted
  <1>2. CASE CConnect
    BY <1>2 DEF CConnect, serverVars, CAt, Msg, Offer, Requests, Replies, Methods, Statuses, Responses,
       IInv, TypeInv, Checked, Ordered, Succeeds, Version, Confs, Types, Abstract!Admitted
  <1>3. CASE CWriteMethods
    BY <1>3 DEF CWriteMethods, serverVars, CAt, Msg, Offer, Requests, Replies, Methods, Statuses, Responses,
       IInv, TypeInv, Checked, Ordered, Succeeds, Version, Confs, Types, Abstract!Admitted
  <1>4. CASE CWriteCreds
    BY <1>4 DEF CWriteCreds, serverVars, CAt, Msg, Offer, Requests, Replies, Methods, Statuses, Responses,
       IInv, TypeInv, Checked, Ordered, Succeeds, Version, Confs, Types, Abstract!Admitted
  <1>5. CASE CWriteRequest
    BY <1>5 DEF CWriteRequest, serverVars, CAt, Msg, Offer, Requests, Replies, Methods, Statuses, Responses,
       IInv, TypeInv, Checked, Ordered, Succeeds, Version, Confs, Types, Abstract!Admitted
  <1>6. CASE CReadMethod
    BY <1>6 DEF CReadMethod, CReceive, CFinish, serverVars, CAt, Msg, Offer, Requests, Replies, Methods, Statuses, Responses,
       IInv, TypeInv, Checked, Ordered, Succeeds, Version, Confs, Types, Abstract!Admitted
  <1>7. CASE CReadStatus
    BY <1>7 DEF CReadStatus, CReceive, CFinish, serverVars, CAt, Msg, Offer, Requests, Replies, Methods, Statuses, Responses,
       IInv, TypeInv, Checked, Ordered, Succeeds, Version, Confs, Types, Abstract!Admitted
  <1>8. CASE CReadResponse
    BY <1>8 DEF CReadResponse, CReceive, CFinish, SetTimeout, serverVars, CAt, Msg, Offer, Requests, Replies, Methods, Statuses, Responses,
       IInv, TypeInv, Checked, Ordered, Succeeds, Version, Confs, Types, Abstract!Admitted
  <1>9. CASE CUdpSocket
    BY <1>9 DEF CUdpSocket, CFinish, serverVars, CAt, Msg, Offer, Requests, Replies, Methods, Statuses, Responses,
       IInv, TypeInv, Checked, Ordered, Succeeds, Version, Confs, Types, Abstract!Admitted
  <1>10. CASE CUdpConnect
    BY <1>10 DEF CUdpConnect, serverVars, CAt, Msg, Offer, Requests, Replies, Methods, Statuses, Responses,
       IInv, TypeInv, Checked, Ordered, Succeeds, Version, Confs, Types, Abstract!Admitted
  <1>11. CASE CGivesUp
    BY <1>11 DEF CGivesUp, CFinish, serverVars, CAt, Msg, Offer, Requests, Replies, Methods, Statuses, Responses,
       IInv, TypeInv, Checked, Ordered, Succeeds, Version, Confs, Types, Abstract!Admitted
  <1>12. CASE CDestruct
    BY <1>12 DEF CDestruct, serverVars, CAt, Msg, Offer, Requests, Replies, Methods, Statuses, Responses,
       IInv, TypeInv, Checked, Ordered, Succeeds, Version, Confs, Types, Abstract!Admitted
  <1>13. CASE CFail
    BY <1>13 DEF CFail, CFinish, serverVars, CAt, Msg, Offer, Requests, Replies, Methods, Statuses, Responses,
       IInv, TypeInv, Checked, Ordered, Succeeds, Version, Confs, Types, Abstract!Admitted
  <1>14. CASE Terminate
    BY <1>14 DEF Terminate, serverVars, CAt, Msg, Offer, Requests, Replies, Methods, Statuses, Responses,
       IInv, TypeInv, Checked, Ordered, Succeeds, Version, Confs, Types, Abstract!Admitted
  <1>15. CASE Flush
    BY <1>15 DEF Flush, serverVars, CAt, Msg, Offer, Requests, Replies, Methods, Statuses, Responses,
       IInv, TypeInv, Checked, Ordered, Succeeds, Version, Confs, Types, Abstract!Admitted
  <1>16. CASE SReadMethods
    BY <1>16 DEF SReadMethods, SReceive, Version, clientVars, CAt, Msg, Offer, Requests, Replies, Methods, Statuses, Responses,
       IInv, TypeInv, Checked, Ordered, Succeeds, Version, Confs, Types, Abstract!Admitted
  <1>17. CASE SWriteMethod
    BY <1>17 DEF SWriteMethod, clientVars, CAt, Msg, Offer, Requests, Replies, Methods, Statuses, Responses,
       IInv, TypeInv, Checked, Ordered, Succeeds, Version, Confs, Types, Abstract!Admitted
  <1>18. CASE SReadCreds
    BY <1>18 DEF SReadCreds, SReceive, Checks, Version, clientVars, CAt, Msg, Offer, Requests, Replies, Methods, Statuses, Responses,
       IInv, TypeInv, Checked, Ordered, Succeeds, Version, Confs, Types, Abstract!Admitted
  <1>19. CASE SWriteStatus
    BY <1>19 DEF SWriteStatus, clientVars, CAt, Msg, Offer, Requests, Replies, Methods, Statuses, Responses,
       IInv, TypeInv, Checked, Ordered, Succeeds, Version, Confs, Types, Abstract!Admitted
  <1>20. CASE SReadRequest
    BY <1>20 DEF SReadRequest, SReceive, Version, clientVars, CAt, Msg, Offer, Requests, Replies, Methods, Statuses, Responses,
       IInv, TypeInv, Checked, Ordered, Succeeds, Version, Confs, Types, Abstract!Admitted
  <1>21. CASE SSocket
    BY <1>21 DEF SSocket, Refusal, clientVars, CAt, Msg, Offer, Requests, Replies, Methods, Statuses, Responses,
       IInv, TypeInv, Checked, Ordered, Succeeds, Version, Confs, Types, Abstract!Admitted
  <1>22. CASE SConnect
    BY <1>22 DEF SConnect, Refusal, clientVars, CAt, Msg, Offer, Requests, Replies, Methods, Statuses, Responses,
       IInv, TypeInv, Checked, Ordered, Succeeds, Version, Confs, Types, Abstract!Admitted
  <1>23. CASE SWriteResponse
    BY <1>23 DEF SWriteResponse, clientVars, CAt, Msg, Offer, Requests, Replies, Methods, Statuses, Responses,
       IInv, TypeInv, Checked, Ordered, Succeeds, Version, Confs, Types, Abstract!Admitted
  <1>24. CASE SGivesUp
    BY <1>24 DEF SGivesUp, SFinish, SAwaits, clientVars, CAt, Msg, Offer, Requests, Replies, Methods, Statuses, Responses,
       IInv, TypeInv, Checked, Ordered, Succeeds, Version, Confs, Types, Abstract!Admitted
  <1>25. CASE SDestruct
    BY <1>25 DEF SDestruct, clientVars, CAt, Msg, Offer, Requests, Replies, Methods, Statuses, Responses,
       IInv, TypeInv, Checked, Ordered, Succeeds, Version, Confs, Types, Abstract!Admitted
  <1>26. CASE SFail
    BY <1>26 DEF SFail, SFinish, SAwaits, clientVars, CAt, Msg, Offer, Requests, Replies, Methods, Statuses, Responses,
       IInv, TypeInv, Checked, Ordered, Succeeds, Version, Confs, Types, Abstract!Admitted
  <1>27. CASE UNCHANGED vars
    BY <1>27 DEF vars, clientVars, serverVars, Requests, Replies, Offer, IInv, TypeInv, Checked,
       Ordered, Succeeds, Version, Abstract!Admitted
  <1> QED
    BY <1>1, <1>2, <1>3, <1>4, <1>5, <1>6, <1>7, <1>8, <1>9, <1>10, <1>11, <1>12, <1>13, <1>14, <1>15, <1>16, <1>17, <1>18, <1>19, <1>20, <1>21, <1>22, <1>23, <1>24, <1>25, <1>26, <1>27 DEF Next, Client, Server

(****************************************************************************)
(* Three steps are steps of the abstract handshake: the server's answer is a *)
(* Grant, and the client's last step, which is one of two, is a Serve. The   *)
(* others leave the configuration, the grant and the service alone.          *)
(****************************************************************************)
LEMMA StepImplements == IInv /\ [Next]_vars => [Abstract!Next]_<<conf, granted, served>>
  <1> SUFFICES ASSUME IInv, [Next]_vars
               PROVE  [Abstract!Next]_<<conf, granted, served>>
    OBVIOUS
  <1>1. CASE SWriteResponse
    <2>1. CASE answer = "SUCC"
      <3>1. granted = None /\ Abstract!Admitted /\ type = conf.type
        BY <1>1, <2>1 DEF SWriteResponse, IInv, Checked, Ordered
      <3>2. granted' = type /\ UNCHANGED <<conf, served>>
        BY <1>1, <2>1 DEF SWriteResponse, clientVars
      <3> QED
        BY <3>1, <3>2 DEF Abstract!Next, Abstract!Grant
    <2>2. CASE answer # "SUCC"
      BY <1>1, <2>2 DEF SWriteResponse, clientVars
    <2> QED
      BY <2>1, <2>2
  <1>2. CASE CReadResponse
    <2>1. CASE Succeeds(Head(s2c), 5) /\ conf.type # "UDP_IN_UDP"
      <3>1. s2c # <<>> /\ cpc = "talk" /\ s2c \in Seq(Replies)
        BY <1>2 DEF CReadResponse, CReceive, CAt, IInv, TypeInv
      <3>2. granted = conf.type /\ served = None
        BY <2>1, <3>1 DEF IInv, Ordered
      <3>3. conf.type # None
        BY NoneAssumption DEF IInv, TypeInv, Confs
      <3>4. served' = conf.type /\ UNCHANGED <<conf, granted>>
        BY <1>2, <2>1 DEF CReadResponse, serverVars
      <3> QED
        BY <3>2, <3>3, <3>4 DEF Abstract!Next, Abstract!Serve
    <2>2. CASE ~(Succeeds(Head(s2c), 5) /\ conf.type # "UDP_IN_UDP")
      BY <1>2, <2>2 DEF CReadResponse, serverVars
    <2> QED
      BY <2>1, <2>2
  <1>3. CASE CUdpConnect
    <2>1. granted = conf.type /\ served = None
      BY <1>3 DEF CUdpConnect, IInv, Ordered
    <2>2. conf.type # None
      BY NoneAssumption DEF IInv, TypeInv, Confs
    <2>3. served' \in {conf.type, served} /\ UNCHANGED <<conf, granted>>
      BY <1>3 DEF CUdpConnect, serverVars
    <2> QED
      BY <2>1, <2>2, <2>3 DEF Abstract!Next, Abstract!Serve
  <1>4. CASE UNCHANGED vars
    BY <1>4 DEF vars, clientVars, serverVars
  <1>5. CASE CSocket
    BY <1>5 DEF CSocket, serverVars
  <1>6. CASE CConnect
    BY <1>6 DEF CConnect, serverVars
  <1>7. CASE CWriteMethods
    BY <1>7 DEF CWriteMethods, serverVars
  <1>8. CASE CWriteCreds
    BY <1>8 DEF CWriteCreds, serverVars
  <1>9. CASE CWriteRequest
    BY <1>9 DEF CWriteRequest, serverVars
  <1>10. CASE CReadMethod
    BY <1>10 DEF CReadMethod, serverVars
  <1>11. CASE CReadStatus
    BY <1>11 DEF CReadStatus, serverVars
  <1>12. CASE CUdpSocket
    BY <1>12 DEF CUdpSocket, serverVars
  <1>13. CASE CGivesUp
    BY <1>13 DEF CGivesUp, serverVars
  <1>14. CASE CDestruct
    BY <1>14 DEF CDestruct, serverVars
  <1>15. CASE CFail
    BY <1>15 DEF CFail, serverVars
  <1>16. CASE Terminate
    BY <1>16 DEF Terminate, serverVars
  <1>17. CASE Flush
    BY <1>17 DEF Flush, serverVars
  <1>18. CASE SReadMethods
    BY <1>18 DEF SReadMethods, clientVars
  <1>19. CASE SWriteMethod
    BY <1>19 DEF SWriteMethod, clientVars
  <1>20. CASE SReadCreds
    BY <1>20 DEF SReadCreds, clientVars
  <1>21. CASE SWriteStatus
    BY <1>21 DEF SWriteStatus, clientVars
  <1>22. CASE SReadRequest
    BY <1>22 DEF SReadRequest, clientVars
  <1>23. CASE SSocket
    BY <1>23 DEF SSocket, clientVars
  <1>24. CASE SConnect
    BY <1>24 DEF SConnect, clientVars
  <1>25. CASE SGivesUp
    BY <1>25 DEF SGivesUp, SFinish, clientVars
  <1>26. CASE SDestruct
    BY <1>26 DEF SDestruct, clientVars
  <1>27. CASE SFail
    BY <1>27 DEF SFail, SFinish, clientVars
  <1> QED
    BY <1>1, <1>2, <1>3, <1>4, <1>5, <1>6, <1>7, <1>8, <1>9, <1>10, <1>11, <1>12, <1>13, <1>14, <1>15, <1>16, <1>17, <1>18, <1>19, <1>20, <1>21, <1>22, <1>23, <1>24, <1>25, <1>26, <1>27 DEF Next, Client, Server

(****************************************************************************)
(* Implements: the client starts a service only after the server of          *)
(* hev-socks5-server.c granted that very service, and that server grants     *)
(* nothing to a client without the credentials it asks for, in either order  *)
(* of hev-socks5-client.c and whatever fails on the way.                     *)
(****************************************************************************)
THEOREM Refinement == Spec => Implements
  <1>1. Init => Abstract!Init
    BY DEF Init, Abstract!Init
  <1> QED
    BY <1>1, InitInv, Inductive, StepImplements, PTL DEF Spec, Implements, Abstract!Spec

-----------------------------------------------------------------------------
(* Who has sent and read what *)

\* Messages with credentials in the handshake: only a client that has some is asked.
NCreds == IF conf.creds = "none" THEN 0 ELSE 1

\* The kind of the message number p of the client, of the server.
SentKind(p) == IF p = 1 THEN "methods" ELSE IF p = 2 + NCreds THEN "request" ELSE "creds"
ReplyKind(p) == IF p = 1 THEN "method" ELSE IF p = 2 + NCreds THEN "response" ELSE "status"

\* What the client has sent and read when k steps of its order are left.
Sent(k) ==
    IF conf.pipeline = "yes"
    THEN IF k = 6 THEN 0 ELSE IF k = 5 THEN 1 ELSE IF k = 4 THEN 1 + NCreds ELSE 2 + NCreds
    ELSE IF k = 6 THEN 0 ELSE IF k >= 4 THEN 1 ELSE IF k >= 2 THEN 1 + NCreds ELSE 2 + NCreds

Read(k) ==
    IF conf.pipeline = "yes"
    THEN IF k >= 3 THEN 0 ELSE IF k = 2 THEN 1 ELSE 1 + NCreds
    ELSE IF k >= 5 THEN 0 ELSE IF k >= 3 THEN 1 ELSE 1 + NCreds

\* What the server has read, as long as it reads on, and sent, until it ends.
ReadsOn ==
    \/ spc \in {"listen", "read_methods", "read_creds", "read_request"}
    \/ spc = "write_method" /\ answer # "0xff"
    \/ spc = "write_status" /\ answer = "SUCC"

SRead == IF spc \in {"listen", "read_methods"} THEN 0
         ELSE IF spc \in {"write_method", "read_creds"} THEN 1 ELSE 1 + NCreds

SSent == IF spc \in {"listen", "read_methods", "write_method"} THEN 0
         ELSE IF spc \in {"read_creds", "write_status"} THEN 1
         ELSE IF spc = "service" THEN 2 + NCreds ELSE 1 + NCreds

StepNames == {"w_methods", "w_creds", "w_request", "r_method", "r_status", "r_response"}

\* With k steps left the server has asked for credentials.
WithCreds(k) == IF conf.pipeline = "yes" THEN k = 2 ELSE k \in {3, 4}

\* The client's steps are the last ones of its order.
Steps ==
    cpc = "talk" =>
        /\ todo \in Seq(StepNames) /\ 1 <= Len(todo) /\ Len(todo) <= 6
        /\ \A i \in 1 .. Len(todo) : todo[i] = Order[6 - Len(todo) + i]
        /\ WithCreds(Len(todo)) => NCreds = 1

\* Both agree on whether credentials are exchanged.
Agreed ==
    /\ spc = "write_method" /\ answer = "USER" => NCreds = 1
    /\ spc = "write_method" /\ answer = "NONE" => NCreds = 0
    /\ spc \in {"read_creds", "write_status"} => NCreds = 1
    /\ \A i \in 1 .. Len(s2c) :
          /\ s2c[i] = Msg("method", "USER") => NCreds = 1
          /\ s2c[i] = Msg("method", "NONE") => NCreds = 0

ToServer ==
    ReadsOn =>
        /\ \A i \in 1 .. Len(c2s) : c2s[i].kind = SentKind(SRead + i)
        /\ \A i \in 1 .. Len(cork) : cork[i].kind = SentKind(SRead + Len(c2s) + i)
        /\ cpc = "talk" => SRead + Len(c2s) + Len(cork) = Sent(Len(todo))

ToClient ==
    cpc = "talk" =>
        /\ \A i \in 1 .. Len(s2c) : s2c[i].kind = ReplyKind(Read(Len(todo)) + i)
        /\ spc \notin {"end", "closed"} => Read(Len(todo)) + Len(s2c) = SSent

\* Before the connection is accepted nothing was sent.
Quiet == spc = "listen" => cpc # "talk" /\ c2s = <<>> /\ cork = <<>> /\ s2c = <<>>

StepInv == Steps /\ Agreed /\ ToServer /\ ToClient /\ Quiet

-----------------------------------------------------------------------------
(* Who closes what *)

\* An object refers to what it opened, except while a socket is connecting.
ClientOwns ==
    /\ cpc \in {"start", "talk", "udp", "service", "end"} => copen \subseteq cown
    /\ cpc = "connecting" => copen = {"tcp"}
    /\ cpc = "udp_connecting" => copen \ {"udp"} \subseteq cown
    /\ cpc = "closed" => copen = {}

ServerOwns ==
    /\ spc # "closed" =>
          sopen \ (IF spc = "connecting" /\ type = "TCP" THEN {"fd0"} ELSE {}) \subseteq sown
    /\ spc = "closed" => sopen = {} /\ srefs = {}
    /\ spc # "closed" => srefs = {sobj} \ {"null"} /\ sobj \in {"auth", "user", "null"}

LeakInv == ClientOwns /\ ServerOwns

(* Nothing is open before the first step but the accepted connection.         *)
LEMMA InitLeak == Init => LeakInv
  BY DEF Init, LeakInv, ClientOwns, ServerOwns, Confs

(* The steps of the client and the kernel keep what the client's object owns, *)
(* and leave the server's alone.                                               *)
LEMMA ClientKeepsOwned ==
    ASSUME IInv, LeakInv, Client \/ CFail \/ Terminate \/ Flush
    PROVE  LeakInv'
  <1>1. CASE CSocket
    BY <1>1 DEF CSocket, CFinish, serverVars, LeakInv, ClientOwns, ServerOwns
  <1>2. CASE CConnect
    BY <1>2 DEF CConnect, serverVars, IInv, Checked, LeakInv, ClientOwns, ServerOwns
  <1>3. CASE CWriteMethods
    BY <1>3 DEF CWriteMethods, CAt, serverVars, LeakInv, ClientOwns, ServerOwns
  <1>4. CASE CWriteCreds
    BY <1>4 DEF CWriteCreds, CAt, serverVars, LeakInv, ClientOwns, ServerOwns
  <1>5. CASE CWriteRequest
    BY <1>5 DEF CWriteRequest, CAt, serverVars, LeakInv, ClientOwns, ServerOwns
  <1>6. CASE CReadMethod
    BY <1>6 DEF CReadMethod, CAt, CFinish, serverVars, LeakInv, ClientOwns, ServerOwns
  <1>7. CASE CReadStatus
    BY <1>7 DEF CReadStatus, CAt, CFinish, serverVars, LeakInv, ClientOwns, ServerOwns
  <1>8. CASE CReadResponse
    BY <1>8 DEF CReadResponse, CAt, CFinish, serverVars, LeakInv, ClientOwns, ServerOwns
  <1>9. CASE CUdpSocket
    BY <1>9 DEF CUdpSocket, CFinish, serverVars, LeakInv, ClientOwns, ServerOwns
  <1>10. CASE CUdpConnect
    BY <1>10 DEF CUdpConnect, CUdpClosed, serverVars, LeakInv, ClientOwns, ServerOwns
  <1>11. CASE CGivesUp
    BY <1>11 DEF CGivesUp, CWaits, CFinish, serverVars, LeakInv, ClientOwns, ServerOwns
  <1>12. CASE CDestruct
    BY <1>12 DEF CDestruct, serverVars, LeakInv, ClientOwns, ServerOwns
  <1>13. CASE CFail
    BY <1>13 DEF CFail, CFinish, serverVars, LeakInv, ClientOwns, ServerOwns
  <1>14. CASE Terminate
    BY <1>14 DEF Terminate, serverVars, LeakInv, ClientOwns, ServerOwns
  <1>15. CASE Flush
    BY <1>15 DEF Flush, serverVars, LeakInv, ClientOwns, ServerOwns
  <1> QED
    BY <1>1, <1>2, <1>3, <1>4, <1>5, <1>6, <1>7, <1>8, <1>9, <1>10, <1>11, <1>12, <1>13, <1>14, <1>15 DEF Client

(* And those of the server what the server's object owns. *)
LEMMA ServerKeepsOwned ==
    ASSUME LeakInv, Server \/ SFail
    PROVE  LeakInv'
  <1>1. CASE SReadMethods
    BY <1>1 DEF SReadMethods, clientVars, LeakInv, ClientOwns, ServerOwns
  <1>2. CASE SWriteMethod
    BY <1>2 DEF SWriteMethod, clientVars, LeakInv, ClientOwns, ServerOwns
  <1>3. CASE SReadCreds
    BY <1>3 DEF SReadCreds, SwapRefs, clientVars, LeakInv, ClientOwns, ServerOwns
  <1>4. CASE SWriteStatus
    BY <1>4 DEF SWriteStatus, clientVars, LeakInv, ClientOwns, ServerOwns
  <1>5. CASE SReadRequest
    BY <1>5 DEF SReadRequest, clientVars, LeakInv, ClientOwns, ServerOwns
  <1>6. CASE SSocket
    BY <1>6 DEF SSocket, clientVars, LeakInv, ClientOwns, ServerOwns
  <1>7. CASE SConnect
    BY <1>7 DEF SConnect, clientVars, LeakInv, ClientOwns, ServerOwns
  <1>8. CASE SWriteResponse
    BY <1>8 DEF SWriteResponse, clientVars, LeakInv, ClientOwns, ServerOwns
  <1>9. CASE SGivesUp
    BY <1>9 DEF SGivesUp, SFinish, SAwaits, clientVars, LeakInv, ClientOwns, ServerOwns
  <1>10. CASE SDestruct
    BY <1>10 DEF SDestruct, clientVars, LeakInv, ClientOwns, ServerOwns
  <1>11. CASE SFail
    BY <1>11 DEF SFail, SFinish, SAwaits, clientVars, LeakInv, ClientOwns, ServerOwns
  <1> QED
    BY <1>1, <1>2, <1>3, <1>4, <1>5, <1>6, <1>7, <1>8, <1>9, <1>10, <1>11 DEF Server

(****************************************************************************)
(* NothingLeft: wherever the handshake or the service ends, the destructors  *)
(* of hev-socks5.c, the session and the server close every descriptor and    *)
(* drop the reference to the authenticator or the user.                      *)
(****************************************************************************)
THEOREM NoLeak == Spec => []NothingLeft
  <1>1. IInv /\ LeakInv /\ [Next]_vars => LeakInv'
    <2>1. LeakInv /\ UNCHANGED vars => LeakInv'
      BY DEF vars, clientVars, serverVars, LeakInv, ClientOwns, ServerOwns
    <2> QED
      BY <2>1, ClientKeepsOwned, ServerKeepsOwned DEF Next
  <1>2. LeakInv => NothingLeft
    BY DEF LeakInv, ClientOwns, ServerOwns, NothingLeft
  <1> QED
    BY <1>1, <1>2, InitInv, Inductive, InitLeak, PTL DEF Spec

-----------------------------------------------------------------------------
(* In step *)

(* A client is asked for its credentials once, if it has any. *)
LEMMA Configured ==
    ASSUME IInv
    PROVE  NCreds \in {0, 1} /\ conf.pipeline \in {"yes", "no"} /\ conf \in Confs
  BY DEF IInv, TypeInv, Confs, NCreds

(* The counts depend on the configuration only, which never changes. *)
LEMMA CountsStay ==
    ASSUME UNCHANGED conf
    PROVE  /\ NCreds' = NCreds /\ Order' = Order
           /\ \A k : Sent(k)' = Sent(k) /\ Read(k)' = Read(k) /\ WithCreds(k)' = WithCreds(k)
           /\ \A p : SentKind(p)' = SentKind(p) /\ ReplyKind(p)' = ReplyKind(p)
  BY DEF NCreds, Order, Sent, Read, WithCreds, SentKind, ReplyKind

(* Sent and Read, step by step, in the two orders.                            *)
LEMMA Tables ==
    /\ conf.pipeline = "yes" =>
          /\ Sent(6) = 0 /\ Sent(5) = 1 /\ Sent(4) = 1 + NCreds
          /\ Sent(3) = 2 + NCreds /\ Sent(2) = 2 + NCreds /\ Sent(1) = 2 + NCreds
          /\ Read(6) = 0 /\ Read(5) = 0 /\ Read(4) = 0
          /\ Read(3) = 0 /\ Read(2) = 1 /\ Read(1) = 1 + NCreds
          /\ WithCreds(2) /\ ~WithCreds(5) /\ ~WithCreds(4) /\ ~WithCreds(3) /\ ~WithCreds(1)
    /\ conf.pipeline # "yes" =>
          /\ Sent(6) = 0 /\ Sent(5) = 1 /\ Sent(4) = 1
          /\ Sent(3) = 1 + NCreds /\ Sent(2) = 1 + NCreds /\ Sent(1) = 2 + NCreds
          /\ Read(6) = 0 /\ Read(5) = 0 /\ Read(4) = 1
          /\ Read(3) = 1 /\ Read(2) = 1 + NCreds /\ Read(1) = 1 + NCreds
          /\ WithCreds(4) /\ WithCreds(3) /\ ~WithCreds(5) /\ ~WithCreds(2) /\ ~WithCreds(1)
  BY DEF Sent, Read, WithCreds

(* Where the client is says how many of its steps are left.                  *)
LEMMA StepsLeft ==
    ASSUME IInv, Steps, NEW step, CAt(step)
    PROVE  /\ step = "w_methods" => Len(todo) = 6
           /\ step = "w_creds" => IF conf.pipeline = "yes" THEN Len(todo) = 5 ELSE Len(todo) = 4
           /\ step = "w_request" => IF conf.pipeline = "yes" THEN Len(todo) = 4 ELSE Len(todo) = 2
           /\ step = "r_method" => IF conf.pipeline = "yes" THEN Len(todo) = 3 ELSE Len(todo) = 5
           /\ step = "r_status" => IF conf.pipeline = "yes" THEN Len(todo) = 2 ELSE Len(todo) = 3
           /\ step = "r_response" => Len(todo) = 1
  <1>0. cpc = "talk" /\ Head(todo) = step
    BY DEF CAt
  <1>1. todo \in Seq(StepNames) /\ 1 <= Len(todo) /\ Len(todo) <= 6
    BY <1>0 DEF Steps
  <1>2. PICK k \in Nat : k = Len(todo)
    BY <1>1
  <1>3. k \in {1, 2, 3, 4, 5, 6}
    <2>1. 1 <= k /\ k <= 6
      BY <1>1, <1>2
    <2> QED
      BY <2>1
  <1>4. todo # <<>> /\ Head(todo) = todo[1] /\ 1 \in 1 .. Len(todo)
    BY <1>1, <1>2, <1>3
  <1>5. step = Order[6 - k + 1]
    BY <1>0, <1>2, <1>4 DEF Steps
  <1>a. /\ k = 1 => step = Order[6]
        /\ k = 2 => step = Order[5]
        /\ k = 3 => step = Order[4]
        /\ k = 4 => step = Order[3]
        /\ k = 5 => step = Order[2]
        /\ k = 6 => step = Order[1]
    BY <1>5
  <1>6. CASE conf.pipeline = "yes"
    <2>1. /\ Order[1] = "w_methods" /\ Order[2] = "w_creds" /\ Order[3] = "w_request"
          /\ Order[4] = "r_method" /\ Order[5] = "r_status" /\ Order[6] = "r_response"
      BY <1>6 DEF Order
    <2> QED
      BY <1>2, <1>3, <1>a, <1>6, <2>1
  <1>7. CASE conf.pipeline # "yes"
    <2>1. /\ Order[1] = "w_methods" /\ Order[2] = "r_method" /\ Order[3] = "w_creds"
          /\ Order[4] = "r_status" /\ Order[5] = "w_request" /\ Order[6] = "r_response"
      BY <1>7 DEF Order
    <2> QED
      BY <1>2, <1>3, <1>a, <1>7, <2>1
  <1> QED
    BY <1>6, <1>7

(* One step done leaves the rest of the order.                                *)
LEMMA StepDone ==
    ASSUME IInv, Steps, cpc = "talk", Len(todo) # 1, todo' = Tail(todo),
           UNCHANGED <<conf, cpc>>,
           WithCreds(Len(todo) - 1) => NCreds = 1
    PROVE  Steps' /\ Len(todo') = Len(todo) - 1
  <1>1. /\ todo \in Seq(StepNames) /\ 2 <= Len(todo) /\ Len(todo) <= 6
        /\ \A i \in 1 .. Len(todo) : todo[i] = Order[6 - Len(todo) + i]
    <2>1. todo \in Seq(StepNames) /\ 1 <= Len(todo) /\ Len(todo) <= 6
      BY DEF Steps
    <2>2. Len(todo) \in Nat
      BY <2>1
    <2>3. 2 <= Len(todo)
      <3>1. \A k \in Nat : 1 <= k /\ k # 1 => 2 <= k
        OBVIOUS
      <3> QED
        BY <2>1, <2>2, <3>1, Zenon
    <2> QED
      BY <2>1, <2>3 DEF Steps
  <1>2. /\ todo' \in Seq(StepNames) /\ Len(todo') = Len(todo) - 1
        /\ \A i \in 1 .. Len(todo) - 1 : todo'[i] = todo[i + 1]
    <2>1. todo # <<>> /\ Len(todo) \in Nat
      BY <1>1
    <2>2. Tail(todo) \in Seq(StepNames) /\ Len(Tail(todo)) = Len(todo) - 1
      BY <1>1, <2>1
    <2>3. \A i \in 1 .. Len(todo) - 1 : Tail(todo)[i] = todo[i + 1]
      BY <1>1, <2>1
    <2> QED
      BY <2>2, <2>3
  <1>3. \A i \in 1 .. Len(todo) - 1 : todo'[i] = Order[6 - (Len(todo) - 1) + i]
    <2> TAKE i \in 1 .. Len(todo) - 1
    <2>1. i + 1 \in 1 .. Len(todo) /\ 6 - Len(todo) + (i + 1) = 6 - (Len(todo) - 1) + i
      BY <1>1
    <2> QED
      BY <1>1, <1>2, <2>1
  <1>4. NCreds' = NCreds /\ Order' = Order /\ conf' = conf /\ cpc' = cpc
    BY CountsStay
  <1>5. Len(todo) \in Nat
    BY <1>1
  <1>6. 1 <= Len(todo') /\ Len(todo') <= 6
    BY <1>1, <1>2, <1>5
  <1>7. \A i \in 1 .. Len(todo') : todo'[i] = Order'[6 - Len(todo') + i]
    BY <1>2, <1>3, <1>4
  <1>8. WithCreds(Len(todo))' => NCreds' = 1
    BY <1>2, <1>4, CountsStay
  <1> QED
    BY <1>2, <1>6, <1>7, <1>8 DEF Steps

(* A message kept back follows those sent before it.                          *)
LEMMA CorkFollows ==
    ASSUME IInv, ToServer, cpc = "talk", NEW m, m \in Requests,
           cork' = Append(cork, m), UNCHANGED <<conf, cpc, c2s, spc, answer>>,
           m.kind = SentKind(Sent(Len(todo)) + 1),
           Sent(Len(todo))' = Sent(Len(todo)) + 1
    PROVE  ToServer'
  <1> SUFFICES ASSUME ReadsOn PROVE ToServer'
    BY DEF ToServer, ReadsOn
  <1>1. cork \in Seq(Requests) /\ c2s \in Seq(Requests)
    BY DEF IInv, TypeInv
  <1>2. Len(cork) \in Nat /\ Len(c2s) \in Nat /\ SRead \in Nat
    BY <1>1, Configured DEF SRead
  <1>3. SRead' = SRead /\ Len(cork') = Len(cork) + 1
    BY <1>1 DEF SRead, NCreds
  <1>4. SRead + Len(c2s) + Len(cork) = Sent(Len(todo))
    BY DEF ToServer
  <1>5. \A i \in 1 .. Len(cork) + 1 : cork'[i] = IF i = Len(cork) + 1 THEN m ELSE cork[i]
    BY <1>1
  <1>6. \A i \in 1 .. Len(cork') : cork'[i].kind = SentKind(SRead + Len(c2s) + i)
    <2> SUFFICES ASSUME NEW i \in 1 .. Len(cork) + 1
                 PROVE  cork'[i].kind = SentKind(SRead + Len(c2s) + i)
      BY <1>3
    <2>1. CASE i = Len(cork) + 1
      <3>1. SRead + Len(c2s) + i = Sent(Len(todo)) + 1
        BY <1>2, <1>4, <2>1
      <3> QED
        BY <1>5, <2>1, <3>1
    <2>2. CASE i # Len(cork) + 1
      <3>1. i \in 1 .. Len(cork)
        BY <1>2, <2>2
      <3> QED
        BY <1>5, <2>2, <3>1 DEF ToServer
    <2> QED
      BY <2>1, <2>2
  <1>7. SRead + Len(c2s) + Len(cork') = Sent(Len(todo))'
    BY <1>2, <1>3, <1>4
  <1>8. \A i \in 1 .. Len(c2s) : c2s[i].kind = SentKind(SRead + i)
    BY DEF ToServer
  <1> QED
    BY <1>3, <1>6, <1>7, <1>8, CountsStay DEF ToServer

(* What is kept back and then sent arrives in order, with the message that    *)
(* takes it along.                                                            *)
LEMMA Concatenated ==
    ASSUME IInv, ToServer, ReadsOn
    PROVE  LET all == c2s \o cork IN
           /\ all \in Seq(Requests) /\ Len(all) = Len(c2s) + Len(cork)
           /\ \A i \in 1 .. Len(all) : all[i].kind = SentKind(SRead + i)
  <1> DEFINE all == c2s \o cork
  <1>1. cork \in Seq(Requests) /\ c2s \in Seq(Requests)
    BY DEF IInv, TypeInv
  <1>2. Len(cork) \in Nat /\ Len(c2s) \in Nat /\ SRead \in Nat
    BY <1>1, Configured DEF SRead
  <1>3. /\ all \in Seq(Requests) /\ Len(all) = Len(c2s) + Len(cork)
        /\ \A i \in 1 .. Len(c2s) + Len(cork) :
              all[i] = IF i <= Len(c2s) THEN c2s[i] ELSE cork[i - Len(c2s)]
    BY <1>1
  <1> HIDE DEF all
  <1>4. ASSUME NEW i \in 1 .. Len(c2s) + Len(cork)
        PROVE  all[i].kind = SentKind(SRead + i)
    <2>1. CASE i <= Len(c2s)
      BY <1>2, <1>3, <2>1 DEF ToServer
    <2>2. CASE ~(i <= Len(c2s))
      <3>1. i - Len(c2s) \in 1 .. Len(cork)
        BY <1>2, <2>2
      <3>2. SRead + Len(c2s) + (i - Len(c2s)) = SRead + i
        BY <1>2
      <3>3. cork[i - Len(c2s)].kind = SentKind(SRead + Len(c2s) + (i - Len(c2s)))
        BY <3>1 DEF ToServer
      <3> QED
        BY <1>3, <2>2, <3>2, <3>3
    <2> QED
      BY <2>1, <2>2
  <1> QED
    BY <1>3, <1>4 DEF all

(* A message that is read makes room for the next one, at the server          *)
LEMMA ServerReads ==
    ASSUME IInv, ToServer, ReadsOn, c2s # <<>>, c2s' = Tail(c2s), SRead' = SRead + 1,
           UNCHANGED <<conf, cpc, todo, cork>>
    PROVE  ToServer'
  <1>1. c2s \in Seq(Requests) /\ cork \in Seq(Requests)
    BY DEF IInv, TypeInv
  <1>2. /\ Len(c2s) \in Nat /\ Len(cork) \in Nat /\ SRead \in Nat
        /\ Len(c2s') = Len(c2s) - 1 /\ Len(c2s) >= 1
        /\ \A i \in 1 .. Len(c2s) - 1 : c2s'[i] = c2s[i + 1]
    BY <1>1, Configured DEF SRead
  <1>3. ASSUME NEW i \in 1 .. Len(c2s') PROVE c2s'[i].kind = SentKind(SRead' + i)
    <2>1. i + 1 \in 1 .. Len(c2s) /\ SRead' + i = SRead + (i + 1) /\ c2s'[i] = c2s[i + 1]
      BY <1>2
    <2> QED
      BY <2>1 DEF ToServer
  <1>4. ASSUME NEW i \in 1 .. Len(cork)
        PROVE  cork[i].kind = SentKind(SRead' + Len(c2s') + i)
    <2>1. SRead' + Len(c2s') + i = SRead + Len(c2s) + i
      BY <1>2
    <2> QED
      BY <2>1 DEF ToServer
  <1>5. SRead' + Len(c2s') + Len(cork) = SRead + Len(c2s) + Len(cork)
    BY <1>2
  <1>6. cpc = "talk" => SRead + Len(c2s) + Len(cork) = Sent(Len(todo))
    BY DEF ToServer
  <1> QED
    BY <1>3, <1>4, <1>5, <1>6, CountsStay DEF ToServer

(* and at the client. *)
LEMMA ClientReads ==
    ASSUME IInv, ToClient, cpc = "talk", s2c # <<>>, s2c' = Tail(s2c),
           Read(Len(todo)) \in Nat, Read(Len(todo))' = Read(Len(todo)) + 1,
           UNCHANGED <<conf, cpc, spc>>
    PROVE  ToClient'
  <1>1. s2c \in Seq(Replies)
    BY DEF IInv, TypeInv
  <1>2. /\ Len(s2c) \in Nat /\ Len(s2c') = Len(s2c) - 1 /\ Len(s2c) >= 1
        /\ \A i \in 1 .. Len(s2c) - 1 : s2c'[i] = s2c[i + 1]
    BY <1>1
  <1>3. PICK r \in Nat : r = Read(Len(todo))
    OBVIOUS
  <1>4. ASSUME NEW i \in 1 .. Len(s2c') PROVE s2c'[i].kind = ReplyKind((r + 1) + i)
    <2>1. i + 1 \in 1 .. Len(s2c) /\ (r + 1) + i = r + (i + 1) /\ s2c'[i] = s2c[i + 1]
      BY <1>2
    <2> QED
      BY <1>3, <2>1 DEF ToClient
  <1>5. (r + 1) + Len(s2c') = r + Len(s2c)
    BY <1>2
  <1>6. SSent' = SSent
    BY DEF SSent, NCreds
  <1>7. spc \notin {"end", "closed"} => r + Len(s2c) = SSent
    BY <1>3 DEF ToClient
  <1> QED
    BY <1>3, <1>4, <1>5, <1>6, <1>7, CountsStay DEF ToClient

(* Reading leaves fewer replies to agree with.                                *)
LEMMA ReadAgreed ==
    ASSUME IInv, Agreed, s2c # <<>>, s2c' = Tail(s2c), UNCHANGED <<conf, spc, answer>>
    PROVE  Agreed'
  <1>1. s2c \in Seq(Replies)
    BY DEF IInv, TypeInv
  <1>2. /\ Len(s2c) \in Nat /\ Len(s2c') = Len(s2c) - 1
        /\ \A i \in 1 .. Len(s2c) - 1 : s2c'[i] = s2c[i + 1]
    BY <1>1
  <1>3. ASSUME NEW i \in 1 .. Len(s2c')
        PROVE  /\ s2c'[i] = Msg("method", "USER") => NCreds = 1
               /\ s2c'[i] = Msg("method", "NONE") => NCreds = 0
    <2>1. i + 1 \in 1 .. Len(s2c) /\ s2c'[i] = s2c[i + 1]
      BY <1>2
    <2> QED
      BY <2>1 DEF Agreed
  <1> QED
    BY <1>3, CountsStay DEF Agreed, Msg

(* A reply follows those written before it.                                   *)
LEMMA ServerWrites ==
    ASSUME IInv, Agreed, ToClient, NEW m, m \in Replies, s2c' = Append(s2c, m),
           UNCHANGED <<conf, cpc, todo>>, spc \notin {"end", "closed"},
           m.kind = ReplyKind(SSent + 1),
           spc' \in {"end", "closed"} \/ SSent' = SSent + 1,
           spc' # "write_method" /\ (spc' \in {"read_creds", "write_status"} => NCreds = 1),
           m = Msg("method", "USER") => NCreds = 1,
           m = Msg("method", "NONE") => NCreds = 0
    PROVE  ToClient' /\ Agreed'
  <1>1. s2c \in Seq(Replies)
    BY DEF IInv, TypeInv
  <1>2. /\ Len(s2c) \in Nat /\ Len(s2c') = Len(s2c) + 1
        /\ \A i \in 1 .. Len(s2c) + 1 : s2c'[i] = IF i = Len(s2c) + 1 THEN m ELSE s2c[i]
    BY <1>1
  <1>3. Agreed'
    <2>1. ASSUME NEW i \in 1 .. Len(s2c) + 1
          PROVE  /\ s2c'[i] = Msg("method", "USER") => NCreds = 1
                 /\ s2c'[i] = Msg("method", "NONE") => NCreds = 0
      <3>1. CASE i = Len(s2c) + 1
        BY <1>2, <3>1
      <3>2. CASE i # Len(s2c) + 1
        <4>1. i \in 1 .. Len(s2c) /\ s2c'[i] = s2c[i]
          BY <1>2, <3>2
        <4> QED
          BY <4>1 DEF Agreed
      <3> QED
        BY <3>1, <3>2
    <2> QED
      BY <1>2, <2>1, CountsStay DEF Agreed, Msg
  <1>4. ToClient'
    <2> SUFFICES ASSUME cpc = "talk" PROVE ToClient'
      BY DEF ToClient
    <2>1. PICK r : r = Read(Len(todo))
      OBVIOUS
    <2>2. r + Len(s2c) = SSent /\ r \in Nat
      BY <2>1, Configured DEF ToClient, Read
    <2>3. ASSUME NEW i \in 1 .. Len(s2c) + 1 PROVE s2c'[i].kind = ReplyKind(r + i)
      <3>1. CASE i = Len(s2c) + 1
        <4>1. r + i = SSent + 1
          BY <1>2, <2>2, <3>1
        <4> QED
          BY <1>2, <3>1, <4>1
      <3>2. CASE i # Len(s2c) + 1
        <4>1. i \in 1 .. Len(s2c) /\ s2c'[i] = s2c[i]
          BY <1>2, <3>2
        <4> QED
          BY <2>1, <4>1 DEF ToClient
      <3> QED
        BY <3>1, <3>2
    <2>4. r + Len(s2c') = SSent + 1
      BY <1>2, <2>2
    <2>5. Read(Len(todo))' = r
      BY <2>1, CountsStay
    <2> QED
      BY <1>2, <2>3, <2>4, <2>5, CountsStay DEF ToClient
  <1> QED
    BY <1>3, <1>4

(* A step after which the client is not in its handshake leaves the server's  *)
(* view of the connection as it was.                                          *)
LEMMA ClientElsewhere ==
    ASSUME IInv, StepInv, cpc' # "talk", Agreed', Quiet',
           UNCHANGED <<conf, cork, c2s, spc, answer>>
    PROVE  StepInv'
  <1>1. ToServer'
    BY CountsStay DEF StepInv, ToServer, ReadsOn, SRead, NCreds
  <1> QED
    BY <1>1 DEF StepInv, Steps, ToClient

(* The client writes: its methods, its credentials, its request.              *)
LEMMA ClientWrites ==
    ASSUME IInv, StepInv, CWriteMethods \/ CWriteCreds \/ CWriteRequest
    PROVE  StepInv'
  <1> DEFINE k == Len(todo)
  <1>0. NCreds \in {0, 1} /\ conf.pipeline \in {"yes", "no"} /\ Steps
    BY Configured DEF StepInv
  <1>1. ASSUME cpc = "talk", UNCHANGED <<conf, cpc, s2c, spc, answer>>,
               Steps', Read(k)' = Read(k), ToServer'
        PROVE  StepInv'
    <2>1. ToClient'
      BY <1>1, CountsStay DEF StepInv, ToClient, SSent, NCreds
    <2>2. Agreed'
      BY <1>1, CountsStay DEF StepInv, Agreed, Msg
    <2>3. Quiet'
      BY <1>1 DEF StepInv, Quiet
    <2> QED
      BY <1>1, <2>1, <2>2, <2>3 DEF StepInv
  <1>2. CASE CWriteMethods
    <2> DEFINE m == Msg("methods", IF conf.creds = "none" THEN "NONE" ELSE "USER")
    <2>1. /\ cpc = "talk" /\ todo' = Tail(todo) /\ cork' = Append(cork, m)
          /\ UNCHANGED <<conf, cpc, c2s, s2c, spc, answer>>
      BY <1>2 DEF CWriteMethods, CAt, serverVars
    <2>2. k = 6
      BY <1>0, <1>2, StepsLeft DEF CWriteMethods
    <2>3. Steps' /\ Len(todo') = 5
      BY <1>0, <2>1, <2>2, StepDone, Tables
    <2>4. Sent(k) = 0 /\ Sent(k)' = 1 /\ Read(k)' = Read(k)
      BY <2>1, <2>2, <2>3, Tables, CountsStay
    <2>5. m \in Requests /\ m.kind = SentKind(1)
      BY DEF Requests, Offer, Msg, SentKind
    <2> HIDE DEF m
    <2>6. ToServer'
      BY <2>1, <2>4, <2>5, CorkFollows DEF StepInv
    <2> QED
      BY <1>1, <2>1, <2>3, <2>4, <2>6
  <1>3. CASE CWriteCreds
    <2> DEFINE m == Msg("creds", conf.creds)
    <2>1. /\ cpc = "talk" /\ todo' = Tail(todo)
          /\ cork' = IF conf.creds = "none" THEN cork ELSE Append(cork, m)
          /\ UNCHANGED <<conf, cpc, c2s, s2c, spc, answer>>
      BY <1>3 DEF CWriteCreds, CAt, serverVars
    <2>2. IF conf.pipeline = "yes" THEN k = 5 ELSE k = 4
      BY <1>0, <1>3, StepsLeft DEF CWriteCreds
    <2>3. conf.pipeline # "yes" => NCreds = 1
      BY <2>1, <2>2 DEF StepInv, Steps, WithCreds
    <2>4. Steps' /\ IF conf.pipeline = "yes" THEN Len(todo') = 4 ELSE Len(todo') = 3
      <3>0. IF conf.pipeline = "yes" THEN k - 1 = 4 ELSE k - 1 = 3
        BY <2>2
      <3>1. WithCreds(k - 1) => NCreds = 1
        BY <2>3, <3>0, Tables
      <3>2. k # 1
        BY <2>2
      <3>3. Steps' /\ Len(todo') = k - 1
        BY <1>0, <2>1, <3>1, <3>2, StepDone
      <3> QED
        BY <2>2, <3>3
    <2>5. Sent(k) = 1 /\ Sent(k)' = 1 + NCreds /\ Read(k)' = Read(k)
      <3>1. CASE conf.pipeline = "yes"
        BY <3>1, <2>1, <2>2, <2>4, Tables, CountsStay
      <3>2. CASE conf.pipeline # "yes"
        BY <3>2, <2>1, <2>2, <2>3, <2>4, Tables, CountsStay
      <3> QED
        BY <3>1, <3>2
    <2>6. m \in Requests /\ m.kind = "creds"
      BY DEF Requests, Msg
    <2> HIDE DEF m
    <2>7. ToServer'
      <3>1. CASE conf.creds = "none"
        BY <2>1, <2>5, <3>1, CountsStay DEF StepInv, ToServer, ReadsOn, SRead, NCreds
      <3>2. CASE conf.creds # "none"
        <4>1. SentKind(2) = "creds" /\ NCreds = 1
          BY <3>2 DEF SentKind, NCreds
        <4> QED
          BY <2>1, <2>5, <2>6, <3>2, <4>1, CorkFollows DEF StepInv
      <3> QED
        BY <3>1, <3>2
    <2> QED
      BY <1>1, <2>1, <2>4, <2>5, <2>7
  <1>4. CASE CWriteRequest
    <2> DEFINE m == Msg("request", conf.type)
               all == c2s \o cork
    <2>1. /\ cpc = "talk" /\ todo' = Tail(todo)
          /\ c2s' = Append(all, m) /\ cork' = <<>>
          /\ UNCHANGED <<conf, cpc, s2c, spc, answer>>
      BY <1>4 DEF CWriteRequest, CAt, serverVars
    <2>2. IF conf.pipeline = "yes" THEN k = 4 ELSE k = 2
      BY <1>0, <1>4, StepsLeft DEF CWriteRequest
    <2>3. Steps' /\ IF conf.pipeline = "yes" THEN Len(todo') = 3 ELSE Len(todo') = 1
      <3>0. k # 1 /\ IF conf.pipeline = "yes" THEN k - 1 = 3 ELSE k - 1 = 1
        BY <2>2
      <3>1. ~WithCreds(k - 1) /\ k # 1
        BY <3>0, Tables
      <3>2. Steps' /\ Len(todo') = k - 1
        BY <1>0, <2>1, <3>1, StepDone
      <3> QED
        BY <2>2, <3>2
    <2>4. Sent(k) = 1 + NCreds /\ Sent(k)' = 2 + NCreds /\ Read(k)' = Read(k)
      BY <2>1, <2>2, <2>3, Tables, CountsStay
    <2>5. ToServer'
      <3> SUFFICES ASSUME ReadsOn PROVE ToServer'
        BY <2>1 DEF ToServer, ReadsOn
      <3>1. /\ all \in Seq(Requests) /\ Len(all) = Len(c2s) + Len(cork)
            /\ \A i \in 1 .. Len(all) : all[i].kind = SentKind(SRead + i)
        BY Concatenated DEF StepInv
      <3>2. SRead + Len(c2s) + Len(cork) = 1 + NCreds
        BY <2>1, <2>4 DEF StepInv, ToServer
      <3>3. Len(c2s) \in Nat /\ Len(cork) \in Nat /\ SRead \in Nat
        BY <1>0 DEF IInv, TypeInv, SRead
      <3>4. m.kind = SentKind(2 + NCreds)
        BY <1>0 DEF Msg, SentKind
      <3> HIDE DEF all, m
      <3>5. SRead + Len(all) = 1 + NCreds /\ Len(all) \in Nat
        BY <3>1, <3>2, <3>3
      <3>6. /\ Len(c2s') = Len(all) + 1
            /\ \A i \in 1 .. Len(all) + 1 : c2s'[i] = IF i = Len(all) + 1 THEN m ELSE all[i]
        BY <2>1, <3>1
      <3>7. ASSUME NEW i \in 1 .. Len(all) + 1 PROVE c2s'[i].kind = SentKind(SRead + i)
        <4>1. CASE i = Len(all) + 1
          <5>1. SRead + i = 2 + NCreds
            BY <1>0, <3>3, <3>5, <4>1
          <5> QED
            BY <3>4, <3>6, <4>1, <5>1
        <4>2. CASE i # Len(all) + 1
          <5>1. i \in 1 .. Len(all)
            BY <3>5, <4>2
          <5> QED
            BY <3>1, <3>6, <4>2, <5>1
        <4> QED
          BY <4>1, <4>2
      <3>8. SRead' = SRead
        BY <2>1 DEF SRead, NCreds
      <3>9. Len(cork') = 0
        BY <2>1
      <3>10. SRead + Len(c2s') + Len(cork') = 2 + NCreds
        BY <1>0, <3>3, <3>5, <3>6, <3>9
      <3> QED
        BY <2>1, <2>4, <3>6, <3>7, <3>8, <3>9, <3>10, CountsStay DEF ToServer
    <2> QED
      BY <1>1, <2>1, <2>3, <2>4, <2>5
  <1> QED
    BY <1>2, <1>3, <1>4

(* The client reads the method, the status of its credentials, the response.  *)
LEMMA ClientReadsOn ==
    ASSUME IInv, StepInv, CReadMethod \/ CReadStatus \/ CReadResponse
    PROVE  StepInv'
  <1> DEFINE k == Len(todo)
  <1>0. NCreds \in {0, 1} /\ conf.pipeline \in {"yes", "no"} /\ Steps
    BY Configured DEF StepInv
  <1>1. /\ cpc = "talk" /\ s2c # <<>> /\ s2c' = Tail(s2c)
        /\ UNCHANGED <<conf, cork, c2s, spc, answer>>
    BY DEF CReadMethod, CReadStatus, CReadResponse, CReceive, CAt, serverVars
  <1>2. Agreed' /\ Quiet'
    <2>1. Agreed'
      BY <1>1, ReadAgreed DEF StepInv
    <2> QED
      BY <1>1, <2>1 DEF StepInv, Quiet
  <1>3. ASSUME cpc' # "talk" PROVE StepInv'
    BY <1>1, <1>2, <1>3, ClientElsewhere
  <1>4. ASSUME UNCHANGED cpc, Steps', Sent(k)' = Sent(k),
               Read(k) \in Nat, Read(k)' = Read(k) + 1
        PROVE  StepInv'
    <2>1. ToClient'
      BY <1>1, <1>4, ClientReads DEF StepInv
    <2>2. ToServer'
      BY <1>1, <1>4, CountsStay DEF StepInv, ToServer, ReadsOn, SRead, NCreds
    <2> QED
      BY <1>2, <1>4, <2>1, <2>2 DEF StepInv
  <1>5. CASE CReadMethod
    <2>1. IF conf.pipeline = "yes" THEN k = 3 ELSE k = 5
      BY <1>0, <1>5, StepsLeft DEF CReadMethod
    <2>2. Head(s2c) = s2c[1] /\ 1 \in 1 .. Len(s2c)
      BY <1>1 DEF IInv, TypeInv
    <2>3. CASE Head(s2c) = Msg("method", "USER") /\ todo' = Tail(todo) /\ UNCHANGED cpc
      <3>1. NCreds = 1
        BY <2>2, <2>3 DEF StepInv, Agreed
      <3>2. k # 1
        BY <2>1
      <3>3. Steps' /\ Len(todo') = k - 1
        BY <1>0, <1>1, <2>3, <3>1, <3>2, StepDone
      <3>4. IF conf.pipeline = "yes" THEN Len(todo') = 2 ELSE Len(todo') = 4
        BY <2>1, <3>3
      <3>5. Sent(k)' = Sent(k) /\ Read(k) = 0 /\ Read(k)' = 1
        BY <1>1, <2>1, <3>4, Tables, CountsStay
      <3> QED
        BY <1>4, <2>3, <3>3, <3>5
    <2>4. CASE Head(s2c) = Msg("method", "NONE") /\ todo' = NoCredentials /\ UNCHANGED cpc
      <3>a. NCreds = 0
        BY <2>2, <2>4 DEF StepInv, Agreed
      <3>1. 1 + NCreds = 1
        BY <3>a
      <3>2. CASE conf.pipeline = "yes"
        <4>1. todo' = <<"r_response">> /\ Order[6] = "r_response"
          BY <2>4, <3>2 DEF NoCredentials, Order
        <4>2. todo' \in Seq(StepNames) /\ Len(todo') = 1 /\ todo'[1] = "r_response"
          BY <4>1 DEF StepNames
        <4>3. \A i \in 1 .. Len(todo') : todo'[i] = Order[6 - Len(todo') + i]
          BY <4>1, <4>2
        <4>4. ~WithCreds(1)
          BY <3>2, Tables
        <4>5. Steps'
          BY <1>1, <4>2, <4>3, <4>4, CountsStay DEF Steps
        <4>6. Sent(k)' = Sent(k) /\ Read(k) = 0 /\ Read(k)' = 1
          BY <1>1, <2>1, <3>1, <3>2, <4>2, Tables, CountsStay
        <4> QED
          BY <1>4, <2>4, <4>5, <4>6
      <3>3. CASE conf.pipeline # "yes"
        <4>1. /\ todo' = <<"w_request", "r_response">>
              /\ Order[5] = "w_request" /\ Order[6] = "r_response"
          BY <2>4, <3>3 DEF NoCredentials, Order
        <4>2. /\ todo' \in Seq(StepNames) /\ Len(todo') = 2
              /\ todo'[1] = "w_request" /\ todo'[2] = "r_response"
          BY <4>1 DEF StepNames
        <4>3. \A i \in 1 .. Len(todo') : todo'[i] = Order[6 - Len(todo') + i]
          BY <4>1, <4>2
        <4>4. ~WithCreds(2)
          BY <3>3, Tables
        <4>5. Steps'
          BY <1>1, <4>2, <4>3, <4>4, CountsStay DEF Steps
        <4>6. Sent(k)' = Sent(k) /\ Read(k) = 0 /\ Read(k)' = 1
          BY <1>1, <2>1, <3>1, <3>3, <4>2, Tables, CountsStay
        <4> QED
          BY <1>4, <2>4, <4>5, <4>6
      <3> QED
        BY <3>2, <3>3
    <2>5. CASE CFinish
      BY <1>3, <2>5 DEF CFinish
    <2> QED
      BY <1>5, <2>3, <2>4, <2>5 DEF CReadMethod
  <1>6. CASE CReadStatus
    <2>1. IF conf.pipeline = "yes" THEN k = 2 ELSE k = 3
      BY <1>0, <1>6, StepsLeft DEF CReadStatus
    <2>2. NCreds = 1
      BY <1>1, <2>1, Tables DEF StepInv, Steps
    <2>3. CASE todo' = Tail(todo) /\ UNCHANGED cpc
      <3>1. k # 1
        BY <2>1
      <3>2. Steps' /\ Len(todo') = k - 1
        BY <1>0, <1>1, <2>2, <2>3, <3>1, StepDone
      <3>3. IF conf.pipeline = "yes" THEN Len(todo') = 1 ELSE Len(todo') = 2
        BY <2>1, <3>2
      <3>a. 1 + NCreds = 2
        BY <2>2
      <3>4. Sent(k)' = Sent(k) /\ Read(k) = 1 /\ Read(k)' = 2
        BY <1>1, <2>1, <3>a, <3>3, Tables, CountsStay
      <3> QED
        BY <1>4, <2>3, <3>2, <3>4
    <2>4. CASE CFinish
      BY <1>3, <2>4 DEF CFinish
    <2> QED
      BY <1>6, <2>3, <2>4 DEF CReadStatus
  <1>7. CASE CReadResponse
    BY <1>3, <1>7 DEF CReadResponse, CFinish
  <1> QED
    BY <1>5, <1>6, <1>7

(* The other steps of the client and the kernel.                              *)
LEMMA ClientKeepsStep ==
    ASSUME IInv, StepInv, Client \/ CFail \/ Terminate \/ Flush
    PROVE  StepInv'
  <1>0. NCreds \in {0, 1} /\ conf.pipeline \in {"yes", "no"}
    BY Configured
  <1>1. ASSUME cpc' # "talk", UNCHANGED <<conf, cork, c2s, s2c, spc, answer>> PROVE StepInv'
    <2>1. Agreed' /\ Quiet'
      BY <1>1, CountsStay DEF StepInv, Agreed, Quiet, Msg
    <2> QED
      BY <1>1, <2>1, ClientElsewhere
  <1>2. CASE CSocket
    BY <1>1, <1>2 DEF CSocket, CFinish, serverVars
  <1>3. CASE CConnect
    <2>1. CASE cpc' = "talk"
      <3>1. /\ spc = "listen" /\ spc' = "read_methods" /\ todo' = Order
            /\ UNCHANGED <<conf, cork, c2s, s2c, answer>>
        BY <1>3, <2>1 DEF CConnect, IInv, Checked
      <3>2. c2s = <<>> /\ cork = <<>> /\ s2c = <<>>
        BY <3>1 DEF StepInv, Quiet
      <3>3. Order \in Seq(StepNames) /\ Len(Order) = 6
        <4>1. CASE conf.pipeline = "yes"
          BY <4>1 DEF Order, StepNames
        <4>2. CASE conf.pipeline # "yes"
          BY <4>2 DEF Order, StepNames
        <4> QED
          BY <4>1, <4>2
      <3>4. Steps'
        BY <2>1, <3>1, <3>3, CountsStay DEF Steps, WithCreds
      <3>5. Sent(6) = 0 /\ Read(6) = 0
        BY Tables
      <3>6. SRead' = 0 /\ SSent' = 0
        BY <3>1 DEF SRead, SSent
      <3>7. Sent(Len(todo))' = 0 /\ Read(Len(todo))' = 0
        BY <3>1, <3>3, <3>5, CountsStay
      <3>8. ToServer' /\ ToClient'
        BY <3>1, <3>2, <3>6, <3>7 DEF ToServer, ToClient
      <3>9. Agreed' /\ Quiet'
        BY <3>1, <3>2 DEF Agreed, Quiet
      <3> QED
        BY <3>4, <3>8, <3>9 DEF StepInv
    <2>2. CASE cpc' # "talk"
      BY <1>1, <1>3, <2>2 DEF CConnect
    <2> QED
      BY <2>1, <2>2
  <1>4. CASE CWriteMethods \/ CWriteCreds \/ CWriteRequest
    BY <1>4, ClientWrites
  <1>5. CASE CReadMethod \/ CReadStatus \/ CReadResponse
    BY <1>5, ClientReadsOn
  <1>6. CASE CUdpSocket
    BY <1>1, <1>6 DEF CUdpSocket, CFinish, serverVars
  <1>7. CASE CUdpConnect
    BY <1>1, <1>7 DEF CUdpConnect, serverVars
  <1>8. CASE CGivesUp
    BY <1>1, <1>8 DEF CGivesUp, CFinish, serverVars
  <1>9. CASE CDestruct
    BY <1>1, <1>9 DEF CDestruct, serverVars
  <1>10. CASE CFail
    BY <1>1, <1>10 DEF CFail, CFinish, serverVars
  <1>11. CASE Terminate
    <2>1. UNCHANGED <<conf, cpc, todo, cork, c2s, s2c, spc, answer>>
      BY <1>11 DEF Terminate, serverVars
    <2> QED
      BY <2>1, CountsStay DEF StepInv, Steps, Agreed, ToServer, ToClient, Quiet, ReadsOn,
         SRead, SSent, NCreds, Msg
  <1>12. CASE Flush
    <2> DEFINE all == c2s \o cork
    <2>1. /\ c2s' = all /\ cork' = <<>> /\ cork # <<>>
          /\ UNCHANGED <<conf, cpc, todo, s2c, spc, answer>>
      BY <1>12 DEF Flush, serverVars
    <2>2. Steps' /\ Agreed' /\ ToClient' /\ Quiet'
      BY <2>1, CountsStay DEF StepInv, Steps, Agreed, ToClient, Quiet, SSent, NCreds, Msg
    <2>3. ToServer'
      <3> SUFFICES ASSUME ReadsOn PROVE ToServer'
        BY <2>1 DEF ToServer, ReadsOn
      <3>1. /\ Len(all) = Len(c2s) + Len(cork) /\ all \in Seq(Requests)
            /\ \A i \in 1 .. Len(all) : all[i].kind = SentKind(SRead + i)
        BY Concatenated DEF StepInv
      <3>2. Len(c2s) \in Nat /\ Len(cork) \in Nat /\ SRead \in Nat
        BY <1>0 DEF IInv, TypeInv, SRead
      <3>3. cpc = "talk" => SRead + Len(c2s) + Len(cork) = Sent(Len(todo))
        BY DEF StepInv, ToServer
      <3>4. SRead' = SRead /\ Len(cork') = 0
        BY <2>1 DEF SRead, NCreds
      <3> HIDE DEF all
      <3>5. SRead' + Len(c2s') + Len(cork') = SRead + Len(c2s) + Len(cork)
        BY <2>1, <3>1, <3>2, <3>4
      <3> QED
        BY <2>1, <3>1, <3>3, <3>4, <3>5, CountsStay DEF ToServer
    <2> QED
      BY <2>2, <2>3 DEF StepInv
  <1> QED
    BY <1>2, <1>3, <1>4, <1>5, <1>6, <1>7, <1>8, <1>9, <1>10, <1>11, <1>12 DEF Client

(* The steps of the server.                                                   *)
LEMMA ServerKeepsStep ==
    ASSUME IInv, StepInv, Server \/ SFail
    PROVE  StepInv'
  <1>0. NCreds \in {0, 1}
    BY Configured
  <1>1. UNCHANGED <<conf, cpc, todo, cork>>
    BY DEF Server, SFail, SReadMethods, SWriteMethod, SReadCreds, SWriteStatus, SReadRequest,
       SSocket, SConnect, SWriteResponse, SGivesUp, SDestruct, SFinish, clientVars
  <1>2. Steps'
    BY <1>1, CountsStay DEF StepInv, Steps
  <1>3. spc # "listen" /\ (spc' # "listen" => Quiet')
    BY DEF Server, SFail, SReadMethods, SWriteMethod, SReadCreds, SWriteStatus, SReadRequest,
       SSocket, SConnect, SWriteResponse, SGivesUp, SDestruct, SAwaits, Quiet
  <1>4. ASSUME UNCHANGED s2c, spc' \in {"end", "closed"} \/ SSent' = SSent,
               spc \notin {"end", "closed"} \/ spc' \in {"end", "closed"},
               spc' # "listen", ToServer',
               spc' = "write_method" /\ answer' = "USER" => NCreds = 1,
               spc' = "write_method" /\ answer' = "NONE" => NCreds = 0,
               spc' \in {"read_creds", "write_status"} => NCreds = 1
        PROVE  StepInv'
    <2>1. ToClient'
      BY <1>1, <1>4, CountsStay DEF StepInv, ToClient
    <2>2. Agreed'
      BY <1>1, <1>4, CountsStay DEF StepInv, Agreed, Msg
    <2> QED
      BY <1>2, <1>3, <1>4, <2>1, <2>2 DEF StepInv
  <1>5. ASSUME spc' # "listen", ToServer', ToClient', Agreed' PROVE StepInv'
    BY <1>2, <1>3, <1>5 DEF StepInv
  <1>6. CASE SReadMethods
    <2>1. /\ spc = "read_methods" /\ spc' = "write_method" /\ s2c' = s2c
          /\ c2s # <<>> /\ c2s' = Tail(c2s)
      BY <1>6 DEF SReadMethods, SReceive
    <2>2. ToServer'
      BY <1>1, <2>1, ServerReads DEF StepInv, ReadsOn, SRead
    <2>3. SSent' = SSent
      BY <2>1 DEF SSent
    <2>4. Head(c2s) \in Requests
      BY <2>1 DEF IInv, TypeInv
    <2>5. answer' \in {"USER", "NONE"} => answer' = Offer
      <3>1. answer' \in {"USER", "NONE"} =>
                Version(Head(c2s)) = 5 /\ Head(c2s).val = answer'
        BY <1>6 DEF SReadMethods
      <3>2. conf.type \notin {"USER", "NONE"}
        BY DEF IInv, TypeInv, Confs, Types
      <3> QED
        BY <2>4, <3>1, <3>2 DEF Requests, Version, Msg
    <2>6. Offer = IF NCreds = 0 THEN "NONE" ELSE "USER"
      BY DEF Offer, NCreds
    <2> QED
      BY <1>0, <1>4, <2>1, <2>2, <2>3, <2>5, <2>6
  <1>7. CASE SWriteMethod
    <2>1. /\ spc = "write_method" /\ answer' = answer /\ c2s' = c2s
          /\ s2c' = Append(s2c, Msg("method", answer)) /\ answer \in Methods
          /\ answer = "USER" => spc' = "read_creds"
          /\ answer = "NONE" => spc' = "read_request"
          /\ answer = "0xff" => spc' = "end"
      BY <1>7 DEF SWriteMethod, IInv, TypeInv, Methods
    <2>2. (answer = "USER" => NCreds = 1) /\ (answer = "NONE" => NCreds = 0)
      BY <2>1 DEF StepInv, Agreed
    <2>3. SSent = 0 /\ (spc' = "end" \/ SSent' = 1)
      BY <1>1, <2>1, <2>2 DEF SSent, NCreds, Methods
    <2>4. Msg("method", answer) \in Replies /\ Msg("method", answer).kind = ReplyKind(1)
      BY <2>1 DEF Msg, Replies, ReplyKind
    <2>5. ToClient' /\ Agreed'
      BY <1>1, <2>1, <2>2, <2>3, <2>4, ServerWrites DEF StepInv, Methods, Msg
    <2>6. ToServer'
      <3> SUFFICES ASSUME ReadsOn' PROVE ToServer'
        BY DEF ToServer
      <3>1. ReadsOn /\ SRead = 1
        BY <2>1 DEF ReadsOn, SRead
      <3>2. SRead' = 1
        <4>1. spc' = "read_request" => NCreds' = 0
          BY <1>1, <2>1, <2>2, CountsStay DEF Methods
        <4>2. spc' \in {"read_creds", "read_request"}
          BY <2>1 DEF ReadsOn, Methods
        <4> QED
          BY <4>1, <4>2 DEF SRead
      <3> QED
        BY <1>1, <2>1, <3>1, <3>2, CountsStay DEF StepInv, ToServer
    <2> QED
      BY <1>5, <2>1, <2>5, <2>6 DEF Methods
  <1>8. CASE SReadCreds
    <2>1. /\ spc = "read_creds" /\ spc' = "write_status" /\ s2c' = s2c
          /\ c2s # <<>> /\ c2s' = Tail(c2s)
      BY <1>8 DEF SReadCreds, SReceive
    <2>2. NCreds = 1
      BY <2>1 DEF StepInv, Agreed
    <2>3. SRead = 1 /\ SRead' = 2 /\ ReadsOn
      <3>1. SRead' = 1 + NCreds' /\ NCreds' = NCreds
        BY <1>1, <2>1, CountsStay DEF SRead
      <3> QED
        BY <2>1, <2>2, <3>1 DEF SRead, ReadsOn
    <2>4. ToServer'
      BY <1>1, <2>1, <2>3, ServerReads DEF StepInv
    <2>5. SSent' = SSent
      BY <2>1 DEF SSent
    <2> QED
      BY <1>4, <2>1, <2>2, <2>4, <2>5
  <1>9. CASE SWriteStatus
    <2>1. /\ spc = "write_status" /\ answer' = answer /\ c2s' = c2s
          /\ s2c' = Append(s2c, Msg("status", answer)) /\ answer \in Statuses
          /\ spc' = IF answer = "SUCC" THEN "read_request" ELSE "end"
      BY <1>9 DEF SWriteStatus, IInv, TypeInv
    <2>2. NCreds = 1 /\ NCreds' = 1
      BY <1>1, <2>1, CountsStay DEF StepInv, Agreed
    <2>3. SSent = 1 /\ (spc' = "end" \/ SSent' = 2)
      BY <2>1, <2>2 DEF SSent
    <2>4. Msg("status", answer) \in Replies /\ Msg("status", answer).kind = ReplyKind(2)
      BY <2>1, <2>2 DEF Msg, Replies, ReplyKind
    <2>5. ToClient' /\ Agreed'
      BY <1>1, <2>1, <2>3, <2>4, ServerWrites DEF StepInv, Msg
    <2>6. ToServer'
      <3> SUFFICES ASSUME ReadsOn' PROVE ToServer'
        BY DEF ToServer
      <3>1. ReadsOn /\ SRead' = SRead
        BY <2>1, <2>2 DEF ReadsOn, SRead
      <3> QED
        BY <1>1, <2>1, <3>1, CountsStay DEF StepInv, ToServer
    <2> QED
      BY <1>5, <2>1, <2>5, <2>6
  <1>10. CASE SReadRequest
    <2>1. spc = "read_request" /\ spc' \in {"socket", "write_response"} /\ s2c' = s2c
      BY <1>10 DEF SReadRequest
    <2>2. SSent' = SSent /\ ~ReadsOn'
      BY <1>1, <2>1, CountsStay DEF SSent, ReadsOn
    <2> QED
      BY <1>4, <2>1, <2>2 DEF ToServer
  <1>11. CASE SSocket \/ SConnect
    <2>1. /\ spc \in {"socket", "connecting"} /\ spc' \in {"connecting", "write_response"}
          /\ s2c' = s2c
      BY <1>11 DEF SSocket, SConnect
    <2>2. SSent' = SSent /\ ~ReadsOn'
      BY <1>1, <2>1, CountsStay DEF SSent, ReadsOn
    <2> QED
      BY <1>4, <2>1, <2>2 DEF ToServer
  <1>12. CASE SWriteResponse
    <2>1. /\ spc = "write_response" /\ spc' \in {"service", "end"}
          /\ s2c' = Append(s2c, Msg("response", answer)) /\ answer \in Responses
      BY <1>12 DEF SWriteResponse, IInv, TypeInv
    <2>2. SSent = 1 + NCreds /\ (spc' = "end" \/ SSent' = 2 + NCreds) /\ ~ReadsOn'
      BY <1>1, <2>1, CountsStay DEF SSent, ReadsOn
    <2>3. /\ Msg("response", answer) \in Replies /\ SSent + 1 = 2 + NCreds
          /\ Msg("response", answer).kind = ReplyKind(2 + NCreds)
      BY <1>0, <2>1, <2>2 DEF Msg, Replies, ReplyKind
    <2>4. ToClient' /\ Agreed'
      BY <1>1, <2>1, <2>2, <2>3, ServerWrites DEF StepInv, Msg
    <2> QED
      BY <1>5, <2>1, <2>2, <2>4 DEF ToServer
  <1>13. CASE SGivesUp \/ SFail
    <2>1. /\ spc # "closed" /\ spc # "end" /\ s2c' = s2c
          /\ spc = "read_methods" => spc' = "write_method" /\ answer' = "0xff"
          /\ spc = "read_creds" => spc' = "write_status" /\ answer' = "FAIL"
          /\ spc \notin {"read_methods", "read_creds"} => spc' = "end"
      BY <1>13 DEF SGivesUp, SFail, SFinish, SAwaits
    <2>2. ~ReadsOn' /\ (spc' = "end" \/ SSent' = SSent)
      BY <2>1 DEF ReadsOn, SSent
    <2>3. spc = "read_creds" => NCreds = 1
      BY DEF StepInv, Agreed
    <2>4. ToServer'
      BY <2>2 DEF ToServer
    <2>5. /\ spc' \in {"write_method", "write_status", "end"}
          /\ spc' = "write_method" => answer' = "0xff"
          /\ spc' = "write_status" => NCreds = 1
      BY <2>1, <2>3
    <2> QED
      BY <1>4, <2>1, <2>2, <2>4, <2>5
  <1>14. CASE SDestruct
    <2>1. spc' = "closed" /\ s2c' = s2c
      BY <1>14 DEF SDestruct
    <2> QED
      BY <1>4, <2>1 DEF ToServer, ReadsOn
  <1> QED
    BY <1>6, <1>7, <1>8, <1>9, <1>10, <1>11, <1>12, <1>13, <1>14 DEF Server

(* Before the client connects nothing was sent and nothing is to be done.     *)
LEMMA InitStep == Init => StepInv
  <1> SUFFICES ASSUME Init PROVE StepInv
    OBVIOUS
  <1>1. cpc = "start" /\ spc = "listen" /\ c2s = <<>> /\ cork = <<>> /\ s2c = <<>>
    BY DEF Init
  <1>2. Steps /\ ToClient /\ Quiet
    BY <1>1 DEF Steps, ToClient, Quiet
  <1>3. Agreed /\ ToServer
    BY <1>1 DEF Agreed, ToServer
  <1> QED
    BY <1>2, <1>3 DEF StepInv

(****************************************************************************)
(* InStep: whoever reads finds the message it expects. The counts of         *)
(* messages sent and read at either end say what is on its way, in either    *)
(* order of hev_socks5_client_handshake and whatever fails.                  *)
(****************************************************************************)
THEOREM BothInStep == Spec => []InStep
  <1>1. IInv /\ StepInv /\ [Next]_vars => StepInv'
    <2>1. IInv /\ StepInv /\ UNCHANGED vars => StepInv'
      BY CountsStay DEF vars, clientVars, serverVars, StepInv, Steps, Agreed, ToServer, ToClient,
         Quiet, ReadsOn, SRead, SSent, NCreds, Msg
    <2> QED
      BY <2>1, ClientKeepsStep, ServerKeepsStep DEF Next
  <1>2. IInv /\ StepInv => InStep
    <2> SUFFICES ASSUME IInv, StepInv PROVE InStep
      OBVIOUS
    <2>0. NCreds \in {0, 1}
      BY Configured
    <2>1. ASSUME NEW step \in DOMAIN Awaits, CAt(step), s2c # <<>>
          PROVE  Head(s2c).kind = Awaits[step]
      <3>1. cpc = "talk" /\ Head(s2c) = s2c[1] /\ 1 \in 1 .. Len(s2c) /\ Steps
        BY <2>1 DEF CAt, IInv, TypeInv, StepInv
      <3>2. Head(s2c).kind = ReplyKind(Read(Len(todo)) + 1)
        BY <3>1 DEF StepInv, ToClient
      <3>3. CASE step = "r_method"
        <4>1. Read(Len(todo)) = 0
          BY <2>1, <3>1, <3>3, StepsLeft, Tables
        <4> QED
          BY <3>2, <3>3, <4>1 DEF ReplyKind, Awaits
      <3>4. CASE step = "r_status"
        <4>1. Read(Len(todo)) = 1 /\ WithCreds(Len(todo))
          BY <2>1, <3>1, <3>4, StepsLeft, Tables
        <4>2. NCreds = 1
          BY <3>1, <4>1 DEF Steps
        <4> QED
          BY <3>2, <3>4, <4>1, <4>2 DEF ReplyKind, Awaits
      <3>5. CASE step = "r_response"
        <4>1. Read(Len(todo)) = 1 + NCreds
          BY <2>1, <3>1, <3>5, StepsLeft, Tables
        <4>2. (1 + NCreds) + 1 = 2 + NCreds /\ 2 + NCreds # 1
          BY <2>0
        <4> QED
          BY <3>2, <3>5, <4>1, <4>2 DEF ReplyKind, Awaits
      <3> QED
        BY <2>1, <3>3, <3>4, <3>5 DEF Awaits
    <2>2. ASSUME spc \in DOMAIN SAwaits, c2s # <<>>
          PROVE  Head(c2s).kind = SAwaits[spc]
      <3>1. Head(c2s) = c2s[1] /\ 1 \in 1 .. Len(c2s)
        BY <2>2 DEF IInv, TypeInv
      <3>2. spc \in {"read_methods", "read_creds", "read_request"}
        BY <2>2 DEF SAwaits
      <3>3. Head(c2s).kind = SentKind(SRead + 1)
        BY <3>1, <3>2 DEF StepInv, ToServer, ReadsOn
      <3>4. CASE spc = "read_methods"
        BY <3>3, <3>4 DEF SRead, SentKind, SAwaits
      <3>5. CASE spc = "read_creds"
        <4>1. NCreds = 1
          BY <3>5 DEF StepInv, Agreed
        <4> QED
          BY <3>3, <3>5, <4>1 DEF SRead, SentKind, SAwaits
      <3>6. CASE spc = "read_request"
        <4>1. SRead + 1 = 2 + NCreds /\ 2 + NCreds # 1
          BY <2>0, <3>6 DEF SRead
        <4> QED
          BY <3>3, <3>6, <4>1 DEF SentKind, SAwaits
      <3> QED
        BY <3>2, <3>4, <3>5, <3>6
    <2> QED
      BY <2>1, <2>2 DEF InStep
  <1> QED
    BY <1>1, <1>2, InitInv, Inductive, InitStep, PTL DEF Spec

=============================================================================
