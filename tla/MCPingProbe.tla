---------------------------- MODULE MCPingProbe ----------------------------
(***************************************************************************)
(* Routing tables for the model checking of PingProbe.                     *)
(***************************************************************************)
EXTENDS PingProbe

SomeTuns == { [up |-> FALSE, route |-> <<>>],
              [up |-> TRUE,  route |-> <<"other", "usable">>],
              [up |-> TRUE,  route |-> <<"unreadable", "usable">>] }
=============================================================================
