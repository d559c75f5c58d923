--------------------------- MODULE MCConnections ---------------------------
(* Small instances of Connections.                                         *)
EXTENDS Connections, TLC

CONSTANTS c1, c2

(* One client pipelines more than the window holds.                        *)
Limits == c1 :> 3 @@ c2 :> 1
=============================================================================
