----------------------------- MODULE MCExchange -----------------------------
(***************************************************************************)
(* An instance of Exchange for TLC.                                        *)
(***************************************************************************)
EXTENDS Exchange, TLC

CONSTANTS p1, p2

\* Recover outside of Prom, and inside of Logger
ChainOrders == {<<"Recover", "Prom">>, <<"Logger", "Recover">>}

\* each client, with two of the four targets
ClientSetups ==
  {<<"standard", p1 :> "json" @@ p2 :> "writer">>, <<"fast", p1 :> "proto" @@ p2 :> "bytes">>}

=============================================================================
