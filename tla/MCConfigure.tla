---------------------------- MODULE MCConfigure ----------------------------
(***************************************************************************)
(* Instance of Configure for TLC: three Configure calls, two of them with  *)
(* options (one field set twice), one given an unassigned Option, and two  *)
(* users.                                                                  *)
(***************************************************************************)
EXTENDS Configure

CONSTANTS g1, g2, g3, u1, u2

MCConfigurers == {g1, g2, g3}
MCValues == MCConfigurers \cup {"default", "agentA", "agentB", "nilLogger", "client30s"}

MCOptions == [g \in MCConfigurers |->
    CASE g = g1 -> <<WithUserAgent("agentA"), WithLogger("nilLogger"), WithUserAgent("agentB")>>
      [] g = g2 -> <<WithHTTPClient("client30s")>>
      [] g = g3 -> <<WithLogger("nilLogger"), NilOption>>]

=============================================================================
