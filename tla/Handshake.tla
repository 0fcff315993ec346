----------------------------- MODULE Handshake ------------------------------
(****************************************************************************)
(* What a SOCKS handshake promises: the server grants the service the client *)
(* was configured for, to a client it should admit only, and the client      *)
(* starts a service only after that grant.                                   *)
(****************************************************************************)
CONSTANT None

VARIABLES
    conf,           \* the configuration of both ends
    granted,        \* the service the server granted, or None
    served          \* the service the client started, or None

\* A server with an authenticator admits the right credentials. One without
\* admits clients without credentials: a client that has some offers no other
\* method.
Admitted == conf.creds = (IF conf.auth = "yes" THEN "right" ELSE "none")

Init == granted = None /\ served = None

Grant ==
    /\ granted = None /\ Admitted
    /\ granted' = conf.type
    /\ UNCHANGED <<conf, served>>

Serve ==
    /\ served = None /\ granted # None
    /\ served' = granted
    /\ UNCHANGED <<conf, granted>>

Next == Grant \/ Serve

Spec == Init /\ [][Next]_<<conf, granted, served>>
=============================================================================
