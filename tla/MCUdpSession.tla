---------------------------- MODULE MCUdpSession ----------------------------
(****************************************************************************)
(* UdpSession for TLC: what is remembered of the traffic is bounded, and a   *)
(* terminated session forgets it, so that datagrams may come for ever.       *)
(****************************************************************************)
EXTENDS UdpSession

CONSTANT
    MaxLoad             \* pieces of the datagrams of both sides that are remembered

ASSUME MaxLoadAssumption == MaxLoad \in Nat

\* A datagram counts for its pieces.
MoreToCome == (sent + Len(arr)) * OutUnits < MaxLoad

\* New datagrams of the server: one of those remembered may be other than ok.
BoundedSrvSend(kind) ==
    /\ fed = Len(arr) * InUnits => MoreToCome /\ (kind = "ok" \/ ToSet(arr) \subseteq {"ok"})
    /\ SrvSend(kind)

\* With nothing under way, a terminated session forgets the datagrams that are over
\* and numbers the next ones from one again: no step depends on these numbers.
Forget ==
    /\ pc = "f" /\ susp = "ready" /\ terminated
    /\ frames = <<>> /\ inq = <<>> /\ fed = Len(arr) * InUnits /\ sent + fed > 0
    /\ sent' = 0 /\ acc' = 0 /\ arr' = <<>> /\ fed' = 0 /\ wire' = <<>> /\ delivered' = <<>>
    /\ UNCHANGED <<mode, pc, susp, taskVars, frames, addr, terminated, edge, noSpace, room,
                   inq, eof, sockErr, ctl, torn, garbled, late>>

MCNext ==
    \/ Task \/ Timeout
    \/ (MoreToCome /\ \E named \in BOOLEAN : UdpRecv(named)) \/ Terminate
    \/ (\E kind \in Kinds : BoundedSrvSend(kind)) \/ SrvClose \/ SrvRead
    \/ IoPoll
    \/ Forget

MCSpec == Init /\ [][MCNext]_vars /\ Fairness

=============================================================================
