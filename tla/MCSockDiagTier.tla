--------------------------- MODULE MCSockDiagTier ---------------------------
(* A TCP connection, a UDP socket bound to an address but to no peer, and  *)
(* one bound to neither (the table shows nothing the filter could use).    *)
(* All packets go to one server.                                           *)
EXTENDS SockDiagTier

Table == [f \in Flows |-> IF f = "tcp" THEN 1 ELSE 3]
Wire  == [f \in Flows |-> <<f, "server">>]
Shown == [f \in Flows |->
            CASE f = "tcp"   -> <<f, "server">>
              [] f = "bound" -> <<f, "any:0">>
              [] f = "free"  -> <<"any:53", "any:0">>]
Scopes == {{}, {1}}
==============================================================================
