------------------------------- MODULE MCCodecs -------------------------------
(***************************************************************************)
(* The two decoders of the node for TLC: a connection to the database      *)
(* router, or one execution payload on its way.                            *)
(***************************************************************************)
EXTENDS Framing, PayloadCodec

Router == FInit /\ stage = "none" /\ envelope = "none" /\ built = "none" /\ json = "none"

Relay ==
    /\ PInit
    /\ phase = "off" /\ unread = 0 /\ first = FALSE /\ NoRequest

Init == Router \/ Relay

Next ==
    \/ FNext /\ UNCHANGED pvars
    \/ PNext /\ UNCHANGED fvars

Spec == Init /\ [][Next]_<<fvars, pvars>>
=============================================================================
