---------------------------- MODULE ReplyOrder ----------------------------
(***************************************************************************)
(* What the reply queue of a connection promises its users, with no slots, *)
(* locks or workers: commands are registered in request order within a     *)
(* window, their replies are committed in any order, and they are written  *)
(* to the connection in request order, each when it is committed.          *)
(***************************************************************************)
EXTENDS Integers, Sequences

CONSTANTS Window,         \* how many commands may be registered and unsent
          ElementLength   \* words of a reply

VARIABLES registered,     \* how many commands have a place in the order
          committed,      \* the commands whose reply is known
          written         \* the replies written to the connection

vars == <<registered, committed, written>>

Reply(n) == [w \in 1 .. ElementLength |-> n]

Init == registered = 0 /\ committed = {} /\ written = <<>>

Register ==
  /\ registered < Len(written) + Window
  /\ registered' = registered + 1
  /\ UNCHANGED <<committed, written>>

Commit(n) ==
  /\ committed' = committed \cup {n}
  /\ UNCHANGED <<registered, written>>

Write ==
  /\ Len(written) \in committed
  /\ written' = Append(written, Reply(Len(written)))
  /\ UNCHANGED <<registered, committed>>

Next == \/ Register
        \/ \E n \in (0 .. registered - 1) \ committed : Commit(n)
        \/ Write

Spec == Init /\ [][Next]_vars
=============================================================================
