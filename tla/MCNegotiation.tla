---------------------------- MODULE MCNegotiation ----------------------------
(* Configuration files for checking Negotiation. *)
EXTENDS Negotiation, TLC

Nothing == [k \in {} |-> 0]

\* Of the sender: none at all; several channels and an MTU above the payload
\* limit; small packets; a packets_per_chunk that narrows to 0.
MCSenderConfigs ==
    {Nothing,
     "mtu_bytes" :> 4 @@ "packets_per_chunk" :> 1 @@ "num_channels" :> 2,
     "mtu_bytes" :> 2 @@ "packets_per_chunk" :> 2,
     "packets_per_chunk" :> 16 @@ "num_channels" :> 3}

\* Of the receiver: none at all; everything unset; an MTU above the limit, with
\* a base port of its own; an unset chunk size.
MCReceiverConfigs ==
    {Nothing,
     "mtu_bytes" :> 0 @@ "packets_per_chunk" :> 0 @@ "num_channels" :> 0,
     "mtu_bytes" :> 4 @@ "packets_per_chunk" :> 2 @@ "channel_base_port" :> 9,
     "mtu_bytes" :> 2 @@ "packets_per_chunk" :> 16 @@ "channel_base_port" :> 16}
==============================================================================
