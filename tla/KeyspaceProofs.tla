-------------------------- MODULE KeyspaceProofs --------------------------
(***************************************************************************)
(* Proofs about the life of a value under its key, for any number of       *)
(* workers, keys and commands.                                             *)
(***************************************************************************)
EXTENDS Keyspace, TLAPS

Working == {"run", "init", "commit", "write", "read"}
Readers == {"get", "hget"}

TableTypes ==
  /\ slot \in [Keys -> Calls \cup {Null}] /\ value \in [Calls -> Calls \cup {Null}]
  /\ type \in [Calls -> {"none", "string", "hash"}]
  /\ data \in [Calls -> Calls \cup {Null, Empty}]
  /\ retired \subseteq Calls \cup {Null, Garbage}
  /\ crashed \in BOOLEAN /\ calls \in 0 .. MaxCalls

LocalTypes ==
  /\ pc \in [Threads -> {"idle", "store", "spin", "find", "load", "read", "run", "init",
                        "commit", "write", "unlink", "retire", "deleted", "reply"}]
  /\ op \in [Threads -> Ops \cup {"none"}] /\ arg \in [Threads -> Keys]
  /\ call \in [Threads -> Calls \cup {Null}]
  /\ node \in [Threads -> Calls \cup {Null}] /\ val \in [Threads -> Calls \cup {Null}]
  /\ needsInit \in [Threads -> BOOLEAN] /\ needsCommit \in [Threads -> BOOLEAN]
  /\ reply \in [Threads -> Calls \cup {Nil, OK, Error}]

HistoryTypes ==
  /\ finished \in [Keys -> SUBSET Calls] /\ outdated \in [Keys -> SUBSET Calls]
  /\ before \in [Threads -> SUBSET Calls]
  /\ present \in [Keys -> BOOLEAN] /\ sure \in [Threads -> BOOLEAN]

(* A worker that runs a command has its number, and nobody else has.       *)
Numbered ==
  /\ \A t \in Threads : /\ pc[t] = "idle" <=> op[t] = "none"
                        /\ pc[t] # "idle" => call[t] \in Calls /\ call[t] <= calls
                        /\ pc[t] = "idle" => call[t] = Null
  /\ \A t, u \in Threads : call[t] = call[u] /\ call[t] # Null => t = u

(* Where a command can be, and what it has there.                          *)
PlaceOf(t) ==
  /\ pc[t] \in {"store", "spin"} => op[t] \in Writers
  /\ pc[t] \in {"run", "commit", "write"} => op[t] \in {"set", "hset"}
  /\ pc[t] = "init" => op[t] = "set" /\ needsCommit[t]
  /\ pc[t] \in {"find", "load", "read"} => op[t] \in Readers
  /\ pc[t] \in {"unlink", "retire", "deleted"} => op[t] = "del"
  /\ pc[t] \notin Working \ {"read"} => ~needsCommit[t]
  /\ needsInit[t] => needsCommit[t] /\ pc[t] \in {"run", "init"}
  /\ pc[t] \in {"run", "init"} => needsInit[t] = needsCommit[t]
  /\ pc[t] = "commit" /\ op[t] = "set" => needsCommit[t]
  /\ pc[t] \in {"idle", "store", "find", "unlink", "deleted", "reply"} => node[t] = Null
  /\ pc[t] \in {"spin", "load", "retire"} \cup Working => node[t] \in Calls
Places == \A t \in Threads : PlaceOf(t)

(* A number of which no node has been made.                                *)
Unused(c) == type[c] = "none"

Fresh ==
  /\ \A c \in Calls : c > calls => Unused(c)
  /\ \A t \in Threads : pc[t] = "store" => Unused(call[t])
  /\ \A t \in Threads : node[t] # Null => ~Unused(node[t])
  /\ \A c \in Calls : Unused(c) => value[c] = Null /\ data[c] = Null
  /\ \A k \in Keys : slot[k] # Null => ~Unused(slot[k])

(* Keys have nodes of their own.  A node holds nothing or what its call    *)
(* has made, which has been initialized then.                              *)
Nodes ==
  /\ \A j, k \in Keys : slot[j] = slot[k] /\ slot[j] # Null => j = k
  /\ \A n \in Calls : value[n] # Null => value[n] = n /\ data[n] # Null

(* What a worker knows of the node it works on.                            *)
Holds(t) ==
  pc[t] \in Working =>
    /\ val[t] = node[t]
    /\ type[node[t]] = TypeOf(op[t])
    /\ Creating(t) => node[t] = call[t] /\ value[node[t]] = Null
    /\ ~Creating(t) => value[node[t]] # Null
    /\ pc[t] = "commit" => data[node[t]] # Null
Holding == \A t \in Threads : Holds(t)

(* The bytes of call c are not under key k.                                *)
Replaced(c, k) == slot[k] # Null => data[slot[k]] # c

(* SETs that have returned, and those among them that a later call has     *)
(* replaced: their bytes are not there any more, ...                       *)
Past(k) ==
  /\ outdated[k] \subseteq finished[k]
  /\ \A c \in finished[k] : c <= calls /\ \A t \in Threads : call[t] # c
  /\ \A c \in outdated[k] : Replaced(c, k)

(* ... no call that has begun since has a node with them, and a SET or DEL *)
(* that is done has replaced those that were there when it began.          *)
Knows(t) ==
  /\ op[t] \in Readers => before[t] \subseteq outdated[arg[t]]
  /\ before[t] \subseteq finished[arg[t]]
  /\ (op[t] \in Readers \/ Creating(t)) /\ node[t] # Null =>
       \A c \in before[t] : data[node[t]] # c
  /\ op[t] = "set" /\ node[t] # Null =>
       slot[arg[t]] = node[t] \/ \A c \in before[t] : Replaced(c, arg[t])
  /\ \/ pc[t] = "reply" /\ op[t] = "set" /\ reply[t] = OK
     \/ pc[t] \in {"retire", "deleted"}
     \/ pc[t] = "reply" /\ op[t] = "del"
     => \A c \in before[t] : Replaced(c, arg[t])

Order == (\A k \in Keys : Past(k)) /\ (\A t \in Threads : Knows(t))

Stored(n) == n \in Calls /\ value[n] # Null /\ type[n] = "string" /\ data[n] \in Calls
Deletes(u, k) == op[u] = "del" /\ arg[u] = k

(* A key that is known to be present is, and stays, until a DEL begins.    *)
Present(k) == present[k] => Stored(slot[k]) /\ \A u \in Threads : ~Deletes(u, k)

Sure(t) ==
  /\ pc[t] = "commit" /\ op[t] = "set" => data[node[t]] \in Calls
  /\ sure[t] => \A u \in Threads : ~Deletes(u, arg[t])
  /\ sure[t] /\ op[t] = "set" =>
       /\ node[t] # Null => slot[arg[t]] = node[t]
       /\ pc[t] = "reply" /\ reply[t] = OK => Stored(slot[arg[t]])
  /\ sure[t] /\ op[t] = "get" =>
       /\ pc[t] = "find" => Stored(slot[arg[t]])
       /\ pc[t] \in {"load", "read"} => Stored(node[t])

Kept == (\A k \in Keys : Present(k)) /\ (\A t \in Threads : Sure(t))

Inv ==
  /\ TableTypes /\ LocalTypes /\ HistoryTypes
  /\ Numbered /\ Places /\ Fresh /\ Nodes /\ Holding
  /\ Order /\ Kept /\ NoStaleRead /\ FoundWhenPresent

-----------------------------------------------------------------------------
(* The numbers of calls and the other things a number may stand for. *)
LEMMA Numbers ==
  /\ Calls \subseteq Nat /\ \A c \in Calls : c > 0 /\ c <= MaxCalls
  /\ Null \notin Calls /\ Empty \notin Calls /\ OK \notin Calls /\ Error \notin Calls
  /\ Garbage \notin Calls /\ Null # Empty /\ Nil = Null
  /\ \A n \in Nat : n < MaxCalls => n + 1 \in Calls
BY CallsAssumption DEF Calls, Null, Empty, OK, Error, Garbage, Nil

Step(t) == Begin(t) \/ Work(t)

(* What a step leaves of another worker. *)
Same(u) ==
  /\ pc'[u] = pc[u] /\ op'[u] = op[u] /\ arg'[u] = arg[u] /\ call'[u] = call[u]
  /\ node'[u] = node[u] /\ val'[u] = val[u] /\ needsInit'[u] = needsInit[u]
  /\ needsCommit'[u] = needsCommit[u] /\ reply'[u] = reply[u] /\ before'[u] = before[u]

(* What Reply does to its worker. *)
Replied(t, r) ==
  /\ pc'[t] = "reply" /\ reply'[t] = r /\ node'[t] = Null /\ val'[t] = Null
  /\ needsInit'[t] = FALSE /\ needsCommit'[t] = FALSE
  /\ op'[t] = op[t] /\ arg'[t] = arg[t] /\ call'[t] = call[t]

(* Reply is a step of one worker. *)
LEMMA ReplyEffect ==
  ASSUME LocalTypes, NEW t \in Threads, NEW r \in Calls \cup {Nil, OK, Error}, Reply(t, r),
         UNCHANGED before
  PROVE  LocalTypes' /\ Replied(t, r) /\ \A u \in Threads \ {t} : Same(u)
BY DEF LocalTypes, Reply, Goto, Replied, Same

(* Every step keeps the types, and is the step of one worker. *)
LEMMA LocalStep ==
  ASSUME Inv, NEW t \in Threads, Step(t)
  PROVE  LocalTypes' /\ \A u \in Threads \ {t} : Same(u)
<1> USE DEF Goto, table, locals, history
<1>0. TableTypes /\ LocalTypes /\ HistoryTypes
  BY DEF Inv
<1>a. pc[t] \in {"spin", "load", "retire"} \cup Working => node[t] \in Calls
  BY DEF Inv, Places, PlaceOf
<1>1. CASE Begin(t)
  <2>1. calls + 1 \in Calls
    BY <1>0, <1>1, Numbers DEF Begin, TableTypes
  <2>2. PICK o \in Ops, k \in Keys :
          /\ op' = [op EXCEPT ![t] = o]
          /\ arg' = [arg EXCEPT ![t] = k]
          /\ before' = [before EXCEPT ![t] = IF o \in {"get", "hget"} THEN outdated[k]
                                             ELSE finished[k]]
          /\ pc' = [pc EXCEPT ![t] = IF o \in Writers THEN "store"
                                     ELSE IF o = "del" THEN "unlink" ELSE "find"]
    BY <1>1 DEF Begin, Record
  <2>3. /\ call' = [call EXCEPT ![t] = calls + 1]
        /\ UNCHANGED <<node, val, needsInit, needsCommit, reply>>
    BY <1>1 DEF Begin
  <2>4. pc' \in [Threads -> {"idle", "store", "spin", "find", "load", "read", "run", "init",
                        "commit", "write", "unlink", "retire", "deleted", "reply"}]
    BY <1>0, <2>2 DEF LocalTypes
  <2>5. LocalTypes'
    BY <1>0, <2>1, <2>2, <2>3, <2>4 DEF LocalTypes
  <2>6. \A u \in Threads \ {t} : Same(u)
    BY <1>0, <2>2, <2>3 DEF LocalTypes, HistoryTypes, Same
  <2> QED
    BY <2>5, <2>6
<1>2. CASE Reserve(t)
  <2>1. CASE op[t] = "setargs"
    BY <1>0, <1>2, <2>1, ReplyEffect DEF Reserve
  <2>2. CASE op[t] # "setargs"
    <3>1. call[t] \in Calls
      BY <1>2 DEF Inv, Numbered, Reserve
    <3> QED
      BY ZenonT(60), <1>0, <1>2, <2>2, <3>1 DEF Reserve, LocalTypes, Same
  <2> QED
    BY <2>1, <2>2
<1>3. CASE Occupied(t)
  <2>1. slot[arg[t]] \in Calls \cup {Null}
    BY <1>0 DEF TableTypes, LocalTypes
  <2> QED
    BY <1>0, <1>3, <2>1 DEF Occupied, LocalTypes, Same
<1>4. CASE Spin(t)
  <2>1. CASE type[value[node[t]]] # TypeOf(op[t]) \/ op[t] = "setargs"
    BY <1>0, <1>4, <2>1, ReplyEffect DEF Spin
  <2>2. CASE ~(type[value[node[t]]] # TypeOf(op[t]) \/ op[t] = "setargs")
    <3>1. value[node[t]] \in Calls \cup {Null}
      BY <1>0, <1>a, <1>4 DEF TableTypes, Spin
    <3> QED
      BY <1>0, <1>4, <2>2, <3>1 DEF Spin, LocalTypes, Same
  <2> QED
    BY <2>1, <2>2
<1>5. CASE Find(t)
  <2>1. CASE slot[arg[t]] = Null
    BY <1>0, <1>5, <2>1, ReplyEffect DEF Find
  <2>2. CASE slot[arg[t]] # Null
    <3>1. slot[arg[t]] \in Calls \cup {Null}
      BY <1>0 DEF TableTypes, LocalTypes
    <3> QED
      BY <1>0, <1>5, <2>2, <3>1 DEF Find, LocalTypes, Same
  <2> QED
    BY <2>1, <2>2
<1>6. CASE Load(t)
  <2>1. CASE value[node[t]] = Null
    BY <1>0, <1>6, <2>1 DEF Load, LocalTypes, Same
  <2>2. CASE value[node[t]] # Null /\ type[value[node[t]]] # TypeOf(op[t])
    BY <1>0, <1>6, <2>2, ReplyEffect DEF Load
  <2>3. CASE value[node[t]] # Null /\ ~(type[value[node[t]]] # TypeOf(op[t]))
    <3>1. value[node[t]] \in Calls \cup {Null}
      BY <1>0, <1>a, <1>6 DEF TableTypes, Load
    <3> QED
      BY <1>0, <1>6, <2>3, <3>1 DEF Load, LocalTypes, Same
  <2> QED
    BY <2>1, <2>2, <2>3
<1>7. CASE Check(t)
  BY <1>0, <1>7 DEF Check, LocalTypes, Same
<1>8. CASE Initialize(t)
  BY <1>0, <1>8 DEF Initialize, LocalTypes, Same
<1>9. CASE TryCommit(t)
  <2> DEFINE now == value[node[t]]
             mine == needsCommit[t] /\ ~needsInit[t]
  <2>1. CASE mine /\ now = Null /\ op[t] = "set"
    BY <1>0, <1>9, <2>1, ReplyEffect DEF TryCommit
  <2>2. CASE mine /\ now = Null /\ op[t] # "set"
    BY <1>0, <1>9, <2>2 DEF TryCommit, LocalTypes, Same
  <2>3. CASE ~(mine /\ now = Null)
    <3>1. now \in Calls \cup {Null}
      BY <1>0, <1>a, <1>9 DEF Working, TableTypes, TryCommit
    <3>2. /\ val' = [val EXCEPT ![t] = IF mine /\ type[now] = type[@] THEN now ELSE @]
          /\ pc' = [pc EXCEPT ![t] = IF op[t] = "set" THEN "run" ELSE "write"]
          /\ UNCHANGED <<op, arg, call, node, needsInit, needsCommit, reply, before>>
      BY <1>9, <2>3 DEF TryCommit
    <3> HIDE DEF now, mine
    <3> QED
      BY <1>0, <3>1, <3>2 DEF LocalTypes, Same
  <2> QED
    BY <2>1, <2>2, <2>3
<1>10. CASE Write(t)
  <2>1. CASE needsInit[t]
    BY <1>0, <1>10, <2>1 DEF Write, LocalTypes, Same
  <2>2. CASE ~needsInit[t]
    BY <1>0, <1>10, <2>2, ReplyEffect DEF Write
  <2> QED
    BY <2>1, <2>2
<1>11. CASE Read(t)
  BY <1>0, <1>11, ReplyEffect DEF Read
<1>12. CASE Unlink(t)
  <2>1. slot[arg[t]] \in Calls \cup {Null}
    BY <1>0 DEF TableTypes, LocalTypes
  <2>2. UNCHANGED <<op, arg, call, val, needsInit, needsCommit, reply, before>>
    BY <1>12 DEF Unlink
  <2>3. CASE slot[arg[t]] = Null
    BY <1>0, <1>12, <2>2, <2>3 DEF Unlink, LocalTypes, Same
  <2>4. CASE slot[arg[t]] # Null
    BY <1>0, <1>12, <2>1, <2>2, <2>4 DEF Unlink, LocalTypes, Same
  <2> QED
    BY <2>3, <2>4
<1>13. CASE Retire(t)
  BY <1>0, <1>13 DEF Retire, LocalTypes, Same
<1>14. CASE DelReply(t)
  BY <1>0, <1>14, ReplyEffect DEF DelReply
<1>15. CASE Return(t)
  BY <1>0, <1>15 DEF Return, LocalTypes, HistoryTypes, Same
<1> QED
  BY <1>1, <1>2, <1>3, <1>4, <1>5, <1>6, <1>7, <1>8, <1>9, <1>10, <1>11, <1>12, <1>13, <1>14,
     <1>15 DEF Step, Work, Resolve, Run, Delete


-----------------------------------------------------------------------------
(* The steps, as far as the invariant matters: what is left of each action *)
(* once the branches are gone that no reachable state takes.               *)
Moved(t, label, n, v, i, c) ==
  /\ pc'[t] = label /\ node'[t] = n /\ val'[t] = v
  /\ needsInit'[t] = i /\ needsCommit'[t] = c /\ reply'[t] = reply[t]
  /\ op'[t] = op[t] /\ arg'[t] = arg[t] /\ call'[t] = call[t]

Waits(t) ==
  \/ pc[t] = "store" /\ slot[arg[t]] # Null /\ Moved(t, "spin", slot[arg[t]], val[t], FALSE, FALSE)
  \/ pc[t] = "find" /\ slot[arg[t]] # Null /\ Moved(t, "load", slot[arg[t]], val[t], FALSE, FALSE)
  \/ pc[t] = "load" /\ value[node[t]] = Null /\ Same(t)

Obtains(t) ==
  /\ value[node[t]] # Null /\ type[value[node[t]]] = TypeOf(op[t])
  /\ \/ pc[t] = "spin" /\ op[t] # "setargs" /\ Moved(t, "run", node[t], value[node[t]], FALSE, FALSE)
     \/ pc[t] = "load" /\ Moved(t, "read", node[t], value[node[t]], FALSE, FALSE)

GoesOn(t) ==
  \/ pc[t] = "run" /\ op[t] = "set" /\ value[node[t]] = Null
     /\ Moved(t, "init", node[t], val[t], needsInit[t], needsCommit[t])
  \/ pc[t] = "run" /\ op[t] = "set" /\ value[node[t]] # Null
     /\ Moved(t, "write", node[t], val[t], FALSE, FALSE)
  \/ pc[t] = "run" /\ op[t] = "hset" /\ ~needsInit[t]
     /\ Moved(t, "commit", node[t], val[t], FALSE, FALSE)
  \/ pc[t] = "commit" /\ op[t] = "hset" /\ ~needsCommit[t]
     /\ Moved(t, "write", node[t], val[t], FALSE, FALSE)

Answers(t) ==
  \/ pc[t] \in {"spin", "load"} /\ value[node[t]] # Null
     /\ (op[t] = "setargs" \/ type[value[node[t]]] # TypeOf(op[t])) /\ Replied(t, Error)
  \/ pc[t] = "find" /\ slot[arg[t]] = Null /\ Replied(t, Nil)
  \/ pc[t] = "read" /\ Replied(t, IF data[val[t]] \in Calls THEN data[val[t]] ELSE Nil)
  \/ pc[t] = "deleted" /\ Replied(t, OK)

Quiet(t) ==
  /\ UNCHANGED <<slot, value, type, data, retired>>
  /\ Waits(t) \/ Obtains(t) \/ GoesOn(t) \/ Answers(t)

Creates(t) ==
  /\ pc[t] = "store" /\ slot[arg[t]] = Null
  /\ slot' = [slot EXCEPT ![arg[t]] = call[t]]
  /\ type' = [type EXCEPT ![call[t]] = TypeOf(op[t])]
  /\ UNCHANGED <<value, data, retired>>
  /\ \/ op[t] = "setargs" /\ Replied(t, Error)
     \/ op[t] # "setargs" /\ Moved(t, "run", call[t], call[t], TRUE, TRUE)

Initializes(t) ==
  /\ pc[t] \in {"run", "init"} /\ needsInit[t]
  /\ data' = [data EXCEPT ![node[t]] = IF op[t] = "set" THEN call[t] ELSE Empty]
  /\ UNCHANGED <<slot, value, type, retired>>
  /\ Moved(t, "commit", node[t], val[t], FALSE, TRUE)

Commits(t) ==
  /\ pc[t] = "commit" /\ needsCommit[t] /\ value[node[t]] = Null
  /\ value' = [value EXCEPT ![node[t]] = node[t]]
  /\ UNCHANGED <<slot, type, data, retired>>
  /\ \/ op[t] = "set" /\ Replied(t, OK)
     \/ op[t] # "set" /\ Moved(t, "write", node[t], val[t], FALSE, TRUE)

Writes(t) ==
  /\ pc[t] = "write"
  /\ data' = IF op[t] = "set" \/ data[node[t]] = Empty
             THEN [data EXCEPT ![node[t]] = call[t]] ELSE data
  /\ UNCHANGED <<slot, value, type, retired>>
  /\ Replied(t, OK)

Unlinks(t) ==
  /\ pc[t] = "unlink"
  /\ UNCHANGED <<value, type, data>>
  /\ \/ /\ slot[arg[t]] = Null /\ UNCHANGED slot
        /\ retired' = retired \cup {Garbage}
        /\ Moved(t, "deleted", Null, val[t], FALSE, FALSE)
     \/ /\ slot[arg[t]] # Null /\ UNCHANGED retired
        /\ slot' = [slot EXCEPT ![arg[t]] = Null]
        /\ Moved(t, "retire", slot[arg[t]], val[t], FALSE, FALSE)

Retires(t) ==
  /\ pc[t] = "retire"
  /\ retired' = retired \cup {value[node[t]]}
  /\ UNCHANGED <<slot, value, type, data>>
  /\ Moved(t, "deleted", Null, val[t], FALSE, FALSE)

Inside(t) ==
  /\ UNCHANGED <<calls, history>>
  /\ \/ Quiet(t) \/ Creates(t) \/ Initializes(t) \/ Commits(t) \/ Writes(t)
     \/ Unlinks(t) \/ Retires(t)

(* There are no other steps. *)
LEMMA Outcomes ==
  ASSUME Inv, NEW t \in Threads, Step(t)
  PROVE  Begin(t) \/ Return(t) \/ Inside(t)
<1> USE DEF Goto, table, locals, Inside, Quiet
<1> /\ LocalTypes /\ LocalTypes' /\ TableTypes
    /\ pc[t] \notin Working \ {"read"} => needsInit[t] = FALSE /\ needsCommit[t] = FALSE
  BY LocalStep DEF Inv, Places, PlaceOf, Working, LocalTypes
<1>1. CASE Reserve(t)
  <2>1. CASE op[t] = "setargs"
    <3>1. Replied(t, Error)
      BY <1>1, <2>1, ReplyEffect DEF Reserve, history
    <3> QED
      BY <1>1, <2>1, <3>1 DEF Reserve, Creates
  <2>2. CASE op[t] # "setargs"
    BY <1>1, <2>2 DEF Reserve, Creates, Moved, LocalTypes
  <2> QED
    BY <2>1, <2>2
<1>2. CASE Occupied(t)
  BY <1>2 DEF Occupied, Waits, Moved, LocalTypes, Working
<1>3. CASE Spin(t)
  <2>1. CASE type[value[node[t]]] # TypeOf(op[t]) \/ op[t] = "setargs"
    <3>1. Replied(t, Error)
      BY <1>3, <2>1, ReplyEffect DEF Spin, history
    <3> QED
      BY <1>3, <2>1, <3>1 DEF Spin, Answers
  <2>2. CASE ~(type[value[node[t]]] # TypeOf(op[t]) \/ op[t] = "setargs")
    BY <1>3, <2>2 DEF Spin, Obtains, Moved, LocalTypes, Working
  <2> QED
    BY <2>1, <2>2
<1>4. CASE Find(t)
  <2>1. CASE slot[arg[t]] = Null
    <3>1. Replied(t, Nil)
      BY <1>4, <2>1, ReplyEffect DEF Find, history
    <3> QED
      BY <1>4, <2>1, <3>1 DEF Find, Answers
  <2>2. CASE slot[arg[t]] # Null
    BY <1>4, <2>2 DEF Find, Waits, Moved, LocalTypes, Working
  <2> QED
    BY <2>1, <2>2
<1>5. CASE Load(t)
  <2>1. CASE value[node[t]] = Null
    BY <1>5, <2>1 DEF Load, Waits, Same, history
  <2>2. CASE value[node[t]] # Null /\ type[value[node[t]]] # TypeOf(op[t])
    <3>1. Replied(t, Error)
      BY <1>5, <2>2, ReplyEffect DEF Load, history
    <3> QED
      BY <1>5, <2>2, <3>1 DEF Load, Answers
  <2>3. CASE value[node[t]] # Null /\ ~(type[value[node[t]]] # TypeOf(op[t]))
    BY <1>5, <2>3 DEF Load, Obtains, Moved, LocalTypes, Working
  <2> QED
    BY <2>1, <2>2, <2>3
<1>6. CASE Check(t)
  <2>1. value[node[t]] # Null => ~needsCommit[t]
    BY <1>6 DEF Check, Inv, Holding, Holds, Creating, Working
  <2>2. needsInit[t] = needsCommit[t]
    BY <1>6 DEF Check, Inv, Places, PlaceOf
  <2> QED
    BY <1>6, <2>1, <2>2 DEF Check, GoesOn, Moved, LocalTypes
<1>7. CASE Initialize(t)
  <2>1. needsInit[t] = needsCommit[t] /\ val[t] = node[t] /\ (pc[t] = "init" => needsInit[t])
    BY <1>7 DEF Initialize, Inv, Places, PlaceOf, Holding, Holds, Working
  <2>2. CASE needsInit[t]
    BY <1>7, <2>1, <2>2 DEF Initialize, Initializes, Moved, LocalTypes
  <2>3. CASE ~needsInit[t]
    BY <1>7, <2>1, <2>3 DEF Initialize, GoesOn, Moved, LocalTypes
  <2> QED
    BY <2>2, <2>3
<1>8. CASE TryCommit(t)
  <2>1. ~needsInit[t] /\ val[t] = node[t]
    BY <1>8 DEF TryCommit, Inv, Places, PlaceOf, Holding, Holds, Working
  <2>2. CASE needsCommit[t]
    <3>1. value[node[t]] = Null
      BY <1>8, <2>2 DEF TryCommit, Inv, Holding, Holds, Creating, Working
    <3>2. CASE op[t] = "set"
      <4>1. Replied(t, OK)
        BY <1>8, <2>1, <2>2, <3>1, <3>2, ReplyEffect DEF TryCommit, history
      <4> QED
        BY <1>8, <2>1, <2>2, <3>1, <3>2, <4>1 DEF TryCommit, Commits
    <3>3. CASE op[t] # "set"
      BY <1>8, <2>1, <2>2, <3>1, <3>3 DEF TryCommit, Commits, Moved, LocalTypes
    <3> QED
      BY <3>2, <3>3
  <2>3. CASE ~needsCommit[t]
    <3>1. op[t] = "hset"
      BY <1>8, <2>3 DEF TryCommit, Inv, Places, PlaceOf
    <3> QED
      BY <1>8, <2>1, <2>3, <3>1 DEF TryCommit, GoesOn, Moved, LocalTypes
  <2> QED
    BY <2>2, <2>3
<1>9. CASE Write(t)
  <2>1. ~needsInit[t] /\ val[t] = node[t]
    BY <1>9 DEF Write, Inv, Places, PlaceOf, Holding, Holds, Working
  <2>2. Replied(t, OK)
    BY <1>9, <2>1, ReplyEffect DEF Write, history
  <2> QED
    BY <1>9, <2>1, <2>2 DEF Write, Writes
<1>10. CASE Read(t)
  <2>1. Replied(t, IF data[val[t]] \in Calls THEN data[val[t]] ELSE Nil)
    BY <1>10, ReplyEffect DEF Read, history
  <2> QED
    BY <1>10, <2>1 DEF Read, Answers
<1>11. CASE Unlink(t)
  <2>1. node[t] = Null
    BY <1>11 DEF Unlink, Inv, Places, PlaceOf
  <2> QED
    BY <1>11, <2>1 DEF Unlink, Unlinks, Moved, LocalTypes, Working
<1>12. CASE Retire(t)
  BY <1>12 DEF Retire, Retires, Moved, LocalTypes, Working
<1>13. CASE DelReply(t)
  <2>1. Replied(t, OK)
    BY <1>13, ReplyEffect DEF DelReply, history
  <2> QED
    BY <1>13, <2>1 DEF DelReply, Answers
<1> QED
  BY <1>1, <1>2, <1>3, <1>4, <1>5, <1>6, <1>7, <1>8, <1>9, <1>10, <1>11, <1>12, <1>13
  DEF Step, Work, Resolve, Run, Delete


(* What Begin and Return do, worker by worker and key by key. *)
BeginsWith(t, o, k) ==
  /\ pc[t] = "idle" /\ calls' = calls + 1 /\ calls + 1 \in Calls
  /\ UNCHANGED <<slot, value, type, data, retired, finished, outdated>>
  /\ op'[t] = o /\ arg'[t] = k /\ call'[t] = calls + 1
  /\ node'[t] = Null /\ ~needsInit'[t] /\ ~needsCommit'[t]
  /\ pc'[t] = IF o \in Writers THEN "store" ELSE IF o = "del" THEN "unlink" ELSE "find"
  /\ before'[t] = IF o \in Readers THEN outdated[k] ELSE finished[k]
  /\ IF o = "del"
     THEN /\ ~present'[k] /\ \A j \in Keys : present'[j] => present[j]
          /\ \A u \in Threads : sure'[u] => sure[u] /\ u # t /\ arg[u] # k
     ELSE /\ UNCHANGED present
          /\ \A u \in Threads : u # t => sure'[u] = sure[u]
          /\ sure'[t] => IF o = "get" THEN present[k]
                         ELSE \A u \in Threads : ~Deletes(u, k)

(* A command begins with nothing in hand. *)
LEMMA BeginEffect ==
  ASSUME Inv, NEW t \in Threads, Begin(t)
  PROVE  \E o \in Ops, k \in Keys : BeginsWith(t, o, k)
<1> USE DEF table, Goto
<1>1. PICK o \in Ops, k \in Keys :
        /\ op' = [op EXCEPT ![t] = o] /\ arg' = [arg EXCEPT ![t] = k]
        /\ Record(t, o, k)
        /\ pc' = [pc EXCEPT ![t] = IF o \in Writers THEN "store"
                                   ELSE IF o = "del" THEN "unlink" ELSE "find"]
  BY DEF Begin
<1>2. calls + 1 \in Calls
  BY Numbers DEF Inv, TableTypes, Begin
<1>3. node[t] = Null /\ ~needsInit[t] /\ ~needsCommit[t]
  BY DEF Inv, Places, PlaceOf, Begin, Working
<1>4. /\ op'[t] = o /\ arg'[t] = k /\ call'[t] = calls + 1 /\ pc[t] = "idle"
      /\ pc'[t] = IF o \in Writers THEN "store" ELSE IF o = "del" THEN "unlink" ELSE "find"
      /\ UNCHANGED <<node, needsInit, needsCommit, slot, value, type, data, retired>>
      /\ calls' = calls + 1
  BY <1>1 DEF Inv, LocalTypes, Begin
<1>5. /\ before'[t] = IF o \in Readers THEN outdated[k] ELSE finished[k]
      /\ UNCHANGED <<finished, outdated>>
  BY <1>1 DEF Record, Inv, HistoryTypes, Readers
<1>6. CASE o = "del"
  <2>1. /\ ~present'[k] /\ \A j \in Keys : present'[j] => present[j]
        /\ \A u \in Threads : sure'[u] => sure[u] /\ u # t /\ arg[u] # k
    BY <1>1, <1>6 DEF Record, Inv, HistoryTypes
  <2> QED
    BY <1>2, <1>3, <1>4, <1>5, <1>6, <2>1 DEF BeginsWith
<1>7. CASE o # "del"
  <2>1. /\ UNCHANGED present
        /\ sure' = [sure EXCEPT ![t] = IF o = "get" THEN present[k]
                                       ELSE \A u \in Threads : op[u] = "del" => arg[u] # k]
    BY <1>1, <1>7 DEF Record
  <2>2. /\ \A u \in Threads : u # t => sure'[u] = sure[u]
        /\ sure'[t] => IF o = "get" THEN present[k] ELSE \A u \in Threads : ~Deletes(u, k)
    BY <2>1 DEF Inv, HistoryTypes, Deletes
  <2> QED
    BY <1>2, <1>3, <1>4, <1>5, <1>7, <2>1, <2>2 DEF BeginsWith
<1> QED
  BY <1>6, <1>7

Done(t) == op[t] = "set" /\ reply[t] = OK

Returns(t) ==
  /\ pc[t] = "reply" /\ pc'[t] = "idle" /\ op'[t] = "none" /\ call'[t] = Null
  /\ arg'[t] = arg[t] /\ node'[t] = Null /\ ~needsInit'[t] /\ ~needsCommit'[t]
  /\ before'[t] = {} /\ ~sure'[t] /\ \A u \in Threads : u # t => sure'[u] = sure[u]
  /\ UNCHANGED <<slot, value, type, data, retired, calls>>
  /\ \A k \in Keys :
       /\ finished'[k] = finished[k] \cup (IF k = arg[t] /\ Done(t) THEN {call[t]} ELSE {})
       /\ outdated'[k] = outdated[k] \cup
            (IF k = arg[t] /\ (Done(t) \/ op[t] = "del") THEN before[t] ELSE {})
       /\ present'[k] => present[k] \/ (k = arg[t] /\ Done(t) /\ sure[t])

(* It ends with nothing in hand. *)
LEMMA ReturnEffect ==
  ASSUME Inv, NEW t \in Threads, Return(t)
  PROVE  Returns(t)
<1> USE DEF table, Goto
<1> LocalTypes /\ HistoryTypes
  BY DEF Inv
<1>1. node[t] = Null /\ ~needsInit[t] /\ ~needsCommit[t]
  BY DEF Inv, Places, PlaceOf, Return, Working
<1>2. /\ pc[t] = "reply" /\ pc'[t] = "idle" /\ op'[t] = "none" /\ call'[t] = Null
      /\ UNCHANGED <<slot, value, type, data, retired, calls, arg, node, needsInit, needsCommit>>
      /\ before'[t] = {} /\ ~sure'[t] /\ \A u \in Threads : u # t => sure'[u] = sure[u]
  BY DEF LocalTypes, HistoryTypes, Return
<1>3. \A k \in Keys :
        finished'[k] = finished[k] \cup (IF k = arg[t] /\ Done(t) THEN {call[t]} ELSE {})
  BY DEF LocalTypes, HistoryTypes, Return, Done
<1>4. \A k \in Keys :
        outdated'[k] = outdated[k] \cup
            (IF k = arg[t] /\ (Done(t) \/ op[t] = "del") THEN before[t] ELSE {})
  BY DEF LocalTypes, HistoryTypes, Return, Done
<1>5. \A k \in Keys : present'[k] => present[k] \/ (k = arg[t] /\ Done(t) /\ sure[t])
  BY DEF LocalTypes, HistoryTypes, Return, Done
<1> QED
  BY <1>1, <1>2, <1>3, <1>4, <1>5 DEF Returns

(* The types of the table and of the history. *)
LEMMA TableStep ==
  ASSUME Inv, NEW t \in Threads, Step(t)
  PROVE  TableTypes'
<1> TableTypes /\ LocalTypes
  BY DEF Inv
<1>1. crashed' \in BOOLEAN
  BY DEF Step, Begin, Work, Resolve, Run, Delete, Reserve, Occupied, Spin, Find, Load, Check,
         Initialize, TryCommit, Write, Read, Unlink, Retire, DelReply, Return, table, TableTypes
<1>2. CASE Begin(t) \/ Return(t)
  <2>1. calls' \in 0 .. MaxCalls
    BY <1>2, CallsAssumption DEF Begin, Return, TableTypes
  <2> QED
    BY <1>1, <1>2, <2>1 DEF Begin, Return, table, TableTypes
<1>3. CASE Inside(t)
  <2> USE <1>1, <1>3 DEF Inside
  <2>1. CASE Quiet(t)
    BY <2>1 DEF Quiet, TableTypes
  <2>2. CASE Creates(t)
    <3>1. call[t] \in Calls /\ TypeOf(op[t]) \in {"string", "hash"}
      BY <2>2 DEF Creates, Inv, Numbered, TypeOf
    <3> QED
      BY <2>2, <3>1 DEF Creates, TableTypes
  <2>3. CASE Initializes(t)
    <3>1. call[t] \in Calls
      BY <2>3 DEF Initializes, Inv, Numbered
    <3> QED
      BY <2>3, <3>1 DEF Initializes, TableTypes
  <2>4. CASE Commits(t)
    <3>1. node[t] \in Calls
      BY <2>4 DEF Commits, Inv, Places, PlaceOf, Working
    <3> QED
      BY <2>4, <3>1 DEF Commits, TableTypes
  <2>5. CASE Writes(t)
    <3>1. call[t] \in Calls
      BY <2>5 DEF Writes, Inv, Numbered
    <3> QED
      BY <2>5, <3>1 DEF Writes, TableTypes
  <2>6. CASE Unlinks(t)
    BY <2>6 DEF Unlinks, TableTypes
  <2>7. CASE Retires(t)
    <3>1. value[node[t]] \in Calls \cup {Null}
      BY <2>7 DEF Retires, Inv, Places, PlaceOf, TableTypes
    <3> QED
      BY <2>7, <3>1 DEF Retires, TableTypes
  <2> QED
    BY <2>1, <2>2, <2>3, <2>4, <2>5, <2>6, <2>7
<1> QED
  BY <1>2, <1>3, Outcomes

(* The types of the history. *)
LEMMA HistoryStep ==
  ASSUME Inv, NEW t \in Threads, Step(t)
  PROVE  HistoryTypes'
<1> LocalTypes /\ HistoryTypes
  BY DEF Inv
<1>1. CASE Begin(t)
  <2>1. PICK o \in Ops, k \in Keys : Record(t, o, k)
    BY <1>1 DEF Begin
  <2>2. before' \in [Threads -> SUBSET Calls] /\ UNCHANGED <<finished, outdated>>
    BY <2>1 DEF Record, HistoryTypes
  <2>3. present' \in [Keys -> BOOLEAN]
    BY <2>1 DEF Record, HistoryTypes
  <2>4. sure' \in [Threads -> BOOLEAN]
    <3>1. CASE o = "del"
      BY <2>1, <3>1 DEF Record, HistoryTypes
    <3>2. CASE o # "del"
      <4>1. sure' = [sure EXCEPT ![t] = IF o = "get" THEN present[k]
                                 ELSE \A u \in Threads : op[u] = "del" => arg[u] # k]
        BY <2>1, <3>2 DEF Record
      <4>2. present[k] \in BOOLEAN /\ sure \in [Threads -> BOOLEAN]
        BY DEF HistoryTypes
      <4> QED
        BY <4>1, <4>2
    <3> QED
      BY <3>1, <3>2
  <2> QED
    BY <2>2, <2>3, <2>4 DEF HistoryTypes
<1>2. CASE Return(t)
  <2>1. pc[t] = "reply" /\ call[t] \in Calls
    BY <1>2 DEF Return, Inv, Numbered
  <2> QED
    BY <1>2, <2>1 DEF Return, LocalTypes, HistoryTypes
<1>3. CASE Inside(t)
  BY <1>3 DEF Inside, history, HistoryTypes
<1> QED
  BY <1>1, <1>2, <1>3, Outcomes


-----------------------------------------------------------------------------
(* Types of nodes and values in slots do not change; who changes a node's  *)
(* value or data has it; slots are emptied by DEL and filled when empty.   *)
TableGrows(t) ==
  /\ \A n \in Calls : ~Unused(n) => type'[n] = type[n]
  /\ \A n \in Calls : value'[n] # value[n] =>
       Creating(t) /\ n = node[t] /\ value[n] = Null /\ value'[n] = n
  /\ \A n \in Calls : data'[n] # data[n] =>
       /\ n = node[t] /\ pc[t] \in {"run", "init", "write"}
       /\ data'[n] = call[t] \/ (data'[n] = Empty /\ Creating(t))
  /\ \A k \in Keys : slot'[k] # slot[k] =>
       /\ k = arg[t]
       /\ \/ pc[t] = "unlink" /\ slot'[k] = Null
          \/ pc[t] = "store" /\ slot[k] = Null /\ slot'[k] = call[t]

(* Every step obeys that. *)
LEMMA TableKept ==
  ASSUME Inv, NEW t \in Threads, Step(t)
  PROVE  TableGrows(t)
<1> TableTypes /\ LocalTypes /\ Numbered /\ Places /\ Fresh /\ Holding
  BY DEF Inv
<1>1. CASE UNCHANGED <<slot, value, type, data>>
  BY <1>1 DEF TableGrows
<1>2. CASE Creates(t)
  <2>1. call[t] \in Calls /\ Unused(call[t])
    BY <1>2 DEF Creates, Numbered, Fresh
  <2> QED
    BY <1>2, <2>1 DEF Creates, TableGrows, TableTypes, Unused
<1>3. CASE Initializes(t)
  <2>1. Creating(t)
    BY <1>3 DEF Initializes, Places, PlaceOf, Creating
  <2> QED
    BY <1>3, <2>1 DEF Initializes, TableGrows, TableTypes
<1>4. CASE Commits(t)
  BY <1>4 DEF Commits, TableGrows, TableTypes, Creating
<1>5. CASE Writes(t)
  BY <1>5 DEF Writes, TableGrows, TableTypes
<1>6. CASE Unlinks(t)
  BY <1>6 DEF Unlinks, TableGrows, TableTypes
<1> QED
  BY <1>1, <1>2, <1>3, <1>4, <1>5, <1>6, Outcomes, BeginEffect, ReturnEffect
  DEF Inside, BeginsWith, Returns, Quiet, Retires

(* Numbers of calls stay apart. *)
LEMMA NumberedStep ==
  ASSUME Inv, NEW t \in Threads, Step(t)
  PROVE  Numbered'
<1> /\ Numbered /\ \A u \in Threads \ {t} : Same(u)
    /\ TableTypes /\ LocalTypes /\ calls \in Nat
  BY LocalStep, CallsAssumption DEF Inv, TableTypes
<1> USE Numbers
<1>1. CASE Begin(t)
  <2>1. PICK o \in Ops, k \in Keys : BeginsWith(t, o, k)
    BY <1>1, BeginEffect
  <2>2. /\ pc'[t] # "idle" /\ op'[t] # "none" /\ call'[t] = calls + 1 /\ calls' = calls + 1
        /\ calls + 1 \in Calls
    BY <2>1, OpsAssumption DEF BeginsWith
  <2>3. ASSUME NEW u \in Threads
        PROVE  call[u] # calls + 1 /\ (pc[u] # "idle" => call[u] <= calls')
    <3>1. CASE pc[u] = "idle"
      BY <2>2, <3>1 DEF Numbered
    <3>2. CASE pc[u] # "idle"
      <4>1. call[u] \in Nat /\ call[u] <= calls
        BY <3>2 DEF Numbered
      <4> QED
        BY <2>2, <4>1
    <3> QED
      BY <3>1, <3>2
  <2> QED
    BY <2>2, <2>3 DEF Numbered, Same
<1>2. CASE Return(t)
  BY <1>2, ReturnEffect DEF Returns, Numbered, Same
<1>3. CASE Inside(t)
  <2>1. pc[t] # "idle" /\ pc'[t] # "idle" /\ UNCHANGED <<op[t], call[t], calls>>
    BY <1>3 DEF Inside, Quiet, Waits, Obtains, GoesOn, Answers, Creates, Initializes, Commits,
                Writes, Unlinks, Retires, Moved, Replied, Same
  <2> QED
    BY <2>1 DEF Numbered, Same
<1> QED
  BY <1>1, <1>2, <1>3, Outcomes

(* Workers stay where they should be. *)
LEMMA PlacesStep ==
  ASSUME Inv, NEW t \in Threads, Step(t)
  PROVE  Places'
<1> /\ TableTypes /\ LocalTypes /\ Numbered /\ PlaceOf(t) /\ Holds(t)
  BY DEF Inv, Places, Holding
<1>1. \A u \in Threads \ {t} : PlaceOf(u)'
  BY LocalStep DEF Inv, Places, PlaceOf, Same
<1> SUFFICES PlaceOf(t)'
  BY <1>1 DEF Places
<1> USE Numbers
<1>2. CASE Begin(t)
  <2>1. PICK o \in Ops, k \in Keys : BeginsWith(t, o, k)
    BY <1>2, BeginEffect
  <2>2. o \in Writers \/ o = "del" \/ o \in Readers
    BY OpsAssumption DEF Writers, Readers
  <2>3. CASE o \in Writers
    BY <2>1, <2>3 DEF BeginsWith, PlaceOf, Working
  <2>4. CASE o = "del"
    BY <2>1, <2>4 DEF BeginsWith, PlaceOf, Working, Writers
  <2>5. CASE o \in Readers
    BY <2>1, <2>5 DEF BeginsWith, PlaceOf, Working, Writers, Readers
  <2> QED
    BY <2>2, <2>3, <2>4, <2>5
<1>3. CASE Return(t)
  BY <1>3, ReturnEffect DEF Returns, PlaceOf, Working
<1>4. CASE Inside(t)
  <2> USE <1>4 DEF Inside, PlaceOf, Moved, Working
  <2>1. CASE Waits(t)
    <3>1. slot[arg[t]] # Null => slot[arg[t]] \in Calls
      BY DEF TableTypes, LocalTypes
    <3> QED
      BY <2>1, <3>1 DEF Waits, Same
  <2>2. CASE Obtains(t)
    <3>1. CASE pc[t] = "spin"
      BY <2>2, <3>1 DEF Obtains, Writers
    <3>2. CASE pc[t] = "load"
      BY <2>2, <3>2 DEF Obtains
    <3> QED
      BY <2>2, <3>1, <3>2 DEF Obtains
  <2>3. CASE GoesOn(t)
    <3>1. CASE pc[t] = "run" /\ op[t] = "set"
      <4>1. value[node[t]] = Null => needsCommit[t]
        BY <3>1 DEF Holds, Creating
      <4> QED
        BY <2>3, <3>1, <4>1 DEF GoesOn
    <3>2. CASE ~(pc[t] = "run" /\ op[t] = "set")
      BY <2>3, <3>2 DEF GoesOn
    <3> QED
      BY <3>1, <3>2
  <2>4. CASE Answers(t)
    BY <2>4 DEF Answers, Replied
  <2>5. CASE Creates(t)
    <3>1. call[t] \in Calls
      BY <2>5 DEF Creates, Numbered
    <3>2. CASE op[t] = "setargs"
      BY <2>5, <3>2 DEF Creates, Replied
    <3>3. CASE op[t] # "setargs"
      BY <2>5, <3>1, <3>3 DEF Creates, Writers
    <3> QED
      BY <3>2, <3>3
  <2>6. CASE Initializes(t)
    BY <2>6 DEF Initializes
  <2>7. CASE Commits(t)
    BY <2>7 DEF Commits, Replied
  <2>8. CASE Writes(t)
    BY <2>8 DEF Writes, Replied
  <2>9. CASE Unlinks(t)
    <3>1. slot[arg[t]] # Null => slot[arg[t]] \in Calls
      BY DEF TableTypes, LocalTypes
    <3> QED
      BY <2>9, <3>1 DEF Unlinks
  <2>10. CASE Retires(t)
    BY <2>10 DEF Retires
  <2> QED
    BY <2>1, <2>2, <2>3, <2>4, <2>5, <2>6, <2>7, <2>8, <2>9, <2>10 DEF Quiet
<1> QED
  BY <1>2, <1>3, <1>4, Outcomes


(* A number stays unused until its call makes a node. *)
LEMMA FreshStep ==
  ASSUME Inv, NEW t \in Threads, Step(t)
  PROVE  Fresh'
<1> /\ TableTypes /\ LocalTypes /\ Numbered /\ PlaceOf(t) /\ Fresh /\ Holds(t)
    /\ \A u \in Threads \ {t} : Same(u)
    /\ TableGrows(t)
  BY LocalStep, TableKept DEF Inv, Places, Holding
<1>0. calls \in Nat
  BY CallsAssumption DEF TableTypes
<1> USE Numbers DEF Fresh, Unused
<1>1. CASE Begin(t)
  <2>1. PICK o \in Ops, k \in Keys : BeginsWith(t, o, k)
    BY <1>1, BeginEffect
  <2>2. /\ UNCHANGED <<slot, value, type, data>>
        /\ calls' = calls + 1 /\ call'[t] = calls + 1 /\ calls + 1 \in Calls
        /\ node'[t] = Null
    BY <2>1 DEF BeginsWith
  <2>3. Unused(calls + 1)
    BY <1>0, <2>2
  <2>4. \A c \in Calls : c > calls' => c > calls
    BY <1>0, <2>2
  <2>5. \A u \in Threads : pc'[u] = "store" => Unused(call[u])'
    BY <2>2, <2>3 DEF Same
  <2>6. \A u \in Threads : node'[u] # Null => ~Unused(node[u])'
    BY <2>2 DEF Same
  <2> QED
    BY <2>2, <2>4, <2>5, <2>6
<1>2. CASE Return(t)
  BY <1>2, ReturnEffect DEF Returns, Same
<1>3. CASE Inside(t)
  <2> USE <1>3 DEF Inside
  <2>1. CASE Quiet(t) \/ Retires(t)
    <3>0. UNCHANGED <<slot, value, type, data>>
      BY <2>1 DEF Quiet, Retires
    <3>1. pc'[t] # "store" /\ node'[t] \in {Null, node[t], slot[arg[t]]}
      BY <2>1 DEF Quiet, Waits, Obtains, GoesOn, Answers, Retires, Moved, Replied, Same
    <3>2. \A u \in Threads : node'[u] # Null => ~Unused(node[u])'
      BY <3>0, <3>1 DEF Same, LocalTypes
    <3>3. \A u \in Threads : pc'[u] = "store" => Unused(call[u])'
      BY <3>0, <3>1 DEF Same
    <3> QED
      BY <3>0, <3>2, <3>3
  <2>2. CASE Creates(t)
    <3>1. /\ call[t] \in Calls /\ call[t] <= calls
          /\ \A u \in Threads : u # t /\ pc[u] = "store" => call[u] # call[t]
      BY <2>2 DEF Creates, Numbered
    <3>2. type'[call[t]] # "none" /\ \A c \in Calls \ {call[t]} : type'[c] = type[c]
      BY <2>2, <3>1 DEF Creates, TableTypes, TypeOf
    <3>3. ASSUME NEW c \in Calls, c > calls, c = call[t]
          PROVE  FALSE
      <4>1. call[t] > calls /\ call[t] <= calls /\ call[t] \in Nat
        BY <3>1, <3>3
      <4> QED
        BY <1>0, <4>1
    <3>4. pc'[t] # "store" /\ node'[t] \in {Null, call[t]}
      BY <2>2 DEF Creates, Moved, Replied
    <3>5. \A k \in Keys : slot'[k] = slot[k] \/ slot'[k] = call[t]
      BY <2>2 DEF Creates, TableTypes
    <3>6. \A n \in Calls : n = call[t] \/ ~Unused(n) => type'[n] # "none"
      BY <3>2
    <3>7. UNCHANGED <<value, data>>
      BY <2>2 DEF Creates
    <3>8. \A c \in Calls : c > calls => Unused(c)'
      BY <3>2, <3>3
    <3>9. \A u \in Threads : pc'[u] = "store" => Unused(call[u])'
      <4> SUFFICES ASSUME NEW u \in Threads, pc'[u] = "store"
                   PROVE  Unused(call[u])'
        OBVIOUS
      <4>1. u # t /\ pc[u] = "store" /\ call'[u] = call[u] /\ call[u] # call[t] /\ call[u] \in Calls
        BY <3>1, <3>4 DEF Same, Numbered
      <4> QED
        BY <3>2, <4>1
    <3>10. \A u \in Threads : node'[u] # Null => ~Unused(node[u])'
      <4> SUFFICES ASSUME NEW u \in Threads, node'[u] # Null
                   PROVE  type'[node'[u]] # "none"
        OBVIOUS
      <4>1. CASE u = t
        BY <3>1, <3>4, <3>6, <4>1
      <4>2. CASE u # t
        <5>1. node'[u] = node[u] /\ node[u] \in Calls /\ ~Unused(node[u])
          BY <4>2 DEF Same, LocalTypes
        <5> QED
          BY <3>6, <5>1
      <4> QED
        BY <4>1, <4>2
    <3>11. \A c \in Calls : Unused(c)' => value'[c] = Null /\ data'[c] = Null
      BY <3>2, <3>7
    <3>12. \A k \in Keys : slot'[k] # Null => ~Unused(slot[k])'
      BY <3>1, <3>5, <3>6 DEF TableTypes
    <3> QED
      BY <3>8, <3>9, <3>10, <3>11, <3>12
  <2>3. CASE Initializes(t) \/ Commits(t) \/ Writes(t)
    <3>1. pc'[t] # "store" /\ node'[t] \in {Null, node[t]} /\ UNCHANGED <<slot, type, calls>>
      BY <2>3 DEF Initializes, Commits, Writes, Moved, Replied
    <3>2. node[t] \in Calls /\ ~Unused(node[t])
      BY <2>3 DEF Initializes, Commits, Writes, PlaceOf, Working
    <3>3. \A c \in Calls : c # node[t] => value'[c] = value[c] /\ data'[c] = data[c]
      BY DEF TableGrows
    <3>4. \A u \in Threads : node'[u] # Null => ~Unused(node[u])'
      BY <3>1 DEF Same
    <3>5. \A u \in Threads : pc'[u] = "store" => Unused(call[u])'
      BY <3>1 DEF Same
    <3> QED
      BY <3>1, <3>2, <3>3, <3>4, <3>5
  <2>4. CASE Unlinks(t)
    <3>1. \A k \in Keys : slot'[k] \in {Null, slot[k]}
      BY <2>4 DEF Unlinks, TableTypes
    <3>2. /\ pc'[t] # "store" /\ node'[t] \in {Null, slot[arg[t]]}
          /\ UNCHANGED <<type, value, data, calls>>
      BY <2>4 DEF Unlinks, Moved
    <3>3. \A u \in Threads : node'[u] # Null => ~Unused(node[u])'
      BY <3>1, <3>2 DEF Same, LocalTypes
    <3>4. \A u \in Threads : pc'[u] = "store" => Unused(call[u])'
      BY <3>2 DEF Same
    <3> QED
      BY <3>1, <3>2, <3>3, <3>4
  <2> QED
    BY <2>1, <2>2, <2>3, <2>4
<1> QED
  BY <1>1, <1>2, <1>3, Outcomes

(* Nodes are not shared and hold their own values. *)
LEMMA NodesStep ==
  ASSUME Inv, NEW t \in Threads, Step(t)
  PROVE  Nodes'
<1> /\ TableTypes /\ LocalTypes /\ Numbered /\ PlaceOf(t) /\ Fresh /\ Nodes /\ Holds(t)
    /\ TableGrows(t)
  BY TableKept DEF Inv, Places, Holding
<1> USE Numbers
<1>1. \A n \in Calls : data[n] # Null => data'[n] # Null
  BY DEF TableGrows, Numbered
<1>2. \A n \in Calls : value'[n] # Null => value'[n] = n /\ data'[n] # Null
  <2> SUFFICES ASSUME NEW n \in Calls, value'[n] # Null
               PROVE  value'[n] = n /\ data'[n] # Null
    OBVIOUS
  <2>1. CASE value'[n] = value[n]
    BY <1>1, <2>1 DEF Nodes
  <2>2. CASE value'[n] # value[n]
    <3>1. Commits(t)
      BY <2>2, Outcomes, BeginEffect, ReturnEffect
      DEF Inside, BeginsWith, Returns, Quiet, Creates, Initializes, Writes, Unlinks, Retires
    <3>2. data[n] # Null /\ value'[n] = n
      BY <2>2, <3>1 DEF Commits, TableGrows, Holds, Working
    <3> QED
      BY <1>1, <3>2
  <2> QED
    BY <2>1, <2>2
<1>3. ASSUME NEW j \in Keys, NEW k \in Keys, slot'[j] = slot'[k], slot'[j] # Null
      PROVE  j = k
  <2>1. CASE pc[t] = "store"
    <3>1. \A i \in Keys : slot[i] # call[t]
      BY <2>1 DEF Fresh, Numbered
    <3>2. \A i \in Keys : slot'[i] = slot[i] \/ (slot'[i] = call[t] /\ i = arg[t])
      BY <2>1 DEF TableGrows
    <3> QED
      BY <1>3, <3>1, <3>2 DEF Nodes
  <2>2. CASE pc[t] # "store"
    <3>1. slot'[j] = slot[j] /\ slot'[k] = slot[k]
      BY <1>3, <2>2 DEF TableGrows
    <3> QED
      BY <1>3, <3>1 DEF Nodes
  <2> QED
    BY <2>1, <2>2
<1> QED
  BY <1>2, <1>3 DEF Nodes

(* What a worker knows of its node stays true. *)
LEMMA HoldingStep ==
  ASSUME Inv, NEW t \in Threads, Step(t)
  PROVE  Holding'
<1> /\ TableTypes /\ LocalTypes /\ Numbered /\ Places /\ Fresh /\ Nodes /\ Holding
    /\ TableGrows(t)
  BY TableKept DEF Inv
<1> USE Numbers
<1>1. ASSUME NEW u \in Threads, u # t
      PROVE  Holds(u)'
  <2> SUFFICES ASSUME pc'[u] \in Working
               PROVE  Holds(u)'
    BY DEF Holds
  <2>1. Same(u) /\ pc[u] \in Working /\ Holds(u) /\ node[u] \in Calls
    BY <1>1, LocalStep DEF Same, Holding, Places, PlaceOf
  <2>2. type'[node[u]] = type[node[u]]
    BY <2>1 DEF TableGrows, Fresh
  <2>3. Creating(u) => value'[node[u]] = value[node[u]]
    <3> SUFFICES ASSUME Creating(u), value'[node[u]] # value[node[u]]
                 PROVE  FALSE
      OBVIOUS
    <3>1. node[u] = node[t] /\ Creating(t)
      BY <2>1 DEF TableGrows
    <3>2. node[u] = call[u] /\ node[t] = call[t]
      BY <2>1, <3>1 DEF Holds, Holding, Creating, Working
    <3> QED
      BY <1>1, <2>1, <3>1, <3>2 DEF Numbered
  <2>4. value[node[u]] # Null => value'[node[u]] # Null
    BY <2>1 DEF TableGrows
  <2>5. data[node[u]] # Null => data'[node[u]] # Null
    <3>1. pc[t] # "idle" => call[t] # Null
      BY DEF Numbered
    <3> QED
      BY <2>1, <3>1 DEF TableGrows
  <2>6. Creating(u)' <=> Creating(u)
    BY <2>1 DEF Same, Creating
  <2> QED
    BY <2>1, <2>2, <2>3, <2>4, <2>5, <2>6 DEF Holds, Same
<1>2. Holds(t)'
  <2> /\ PlaceOf(t) /\ Holds(t)
    BY DEF Places, Holding
  <2>1. CASE Begin(t) \/ Return(t)
    BY <2>1, BeginEffect, ReturnEffect DEF BeginsWith, Returns, Holds, Working
  <2>2. CASE Inside(t)
    <3> USE <2>2 DEF Inside, Holds, Working
    <3>1. CASE Waits(t) \/ Answers(t) \/ Unlinks(t) \/ Retires(t) \/ Writes(t)
      BY <3>1 DEF Waits, Answers, Unlinks, Retires, Writes, Moved, Replied, Same
    <3>2. CASE Quiet(t) /\ Obtains(t)
      <4>1. node[t] \in Calls /\ value[node[t]] = node[t] /\ type[node[t]] = TypeOf(op[t])
        BY <3>2 DEF Obtains, PlaceOf, Nodes
      <4>2. /\ pc'[t] \in {"run", "read"} /\ ~needsCommit'[t]
            /\ node'[t] = node[t] /\ val'[t] = node[t] /\ op'[t] = op[t]
            /\ UNCHANGED <<value, type, data>>
        BY <3>2, <4>1 DEF Quiet, Obtains, Moved
      <4> QED
        BY <3>2, <4>1, <4>2 DEF Creating, Obtains
    <3>3. CASE Quiet(t) /\ GoesOn(t)
      <4>1. pc[t] \in {"run", "commit"} /\ UNCHANGED <<value, type, data>>
        BY <3>3 DEF Quiet, GoesOn
      <4>2. /\ node'[t] = node[t] /\ val'[t] = node[t] /\ op'[t] = op[t] /\ call'[t] = call[t]
        BY <3>3, <4>1 DEF GoesOn, Moved
      <4>3. CASE pc'[t] = "init"
        BY <3>3, <4>1, <4>2, <4>3 DEF GoesOn, Moved, Creating
      <4>4. CASE pc'[t] = "write"
        <5>1. value[node[t]] # Null
          BY <3>3, <4>4 DEF GoesOn, Moved, Creating
        <5> QED
          BY <4>1, <4>2, <4>4, <5>1 DEF Creating
      <4>5. CASE pc'[t] = "commit"
        <5>1. ~needsCommit[t] /\ ~needsCommit'[t]
          BY <3>3, <4>5 DEF GoesOn, Moved, PlaceOf
        <5>2. value[node[t]] # Null /\ node[t] \in Calls
          BY <4>1, <5>1 DEF Creating, PlaceOf
        <5> QED
          BY <4>1, <4>2, <4>5, <5>1, <5>2 DEF Creating, Nodes
      <4> QED
        BY <3>3, <4>3, <4>4, <4>5 DEF GoesOn, Moved
    <3>4. CASE Creates(t)
      <4>1. call[t] \in Calls /\ Unused(call[t])
        BY <3>4 DEF Creates, Numbered, Fresh
      <4>2. CASE op[t] = "setargs"
        BY <3>4, <4>2 DEF Creates, Replied
      <4>3. CASE op[t] # "setargs"
        BY <3>4, <4>1, <4>3 DEF Creates, Moved, Creating, Fresh, TableTypes
      <4> QED
        BY <4>2, <4>3
    <3>5. CASE Initializes(t)
      <4>1. Creating(t) /\ node[t] \in Calls /\ call[t] \in Calls
        BY <3>5 DEF Initializes, PlaceOf, Creating, Numbered
      <4>2. data'[node[t]] # Null
        BY <3>5, <4>1 DEF Initializes, TableTypes
      <4> QED
        BY <3>5, <4>1, <4>2 DEF Initializes, Moved, Creating
    <3>6. CASE Commits(t)
      <4>1. node[t] \in Calls /\ value'[node[t]] # Null
        BY <3>6 DEF Commits, PlaceOf, TableTypes
      <4> QED
        BY <3>6, <4>1 DEF Commits, Moved, Replied, Creating
    <3> QED
      BY <3>1, <3>2, <3>3, <3>4, <3>5, <3>6 DEF Quiet
  <2> QED
    BY <2>1, <2>2, Outcomes
<1> QED
  BY <1>1, <1>2 DEF Holding

-----------------------------------------------------------------------------
(* The bytes of a call that is over do not come back. *)
LEMMA StaysReplaced ==
  ASSUME Inv, NEW t \in Threads, Step(t), NEW c \in Calls, call[t] # c
  PROVE  /\ \A n \in Calls : data[n] # c => data'[n] # c
         /\ \A k \in Keys : Replaced(c, k) => Replaced(c, k)'
<1> TableTypes /\ LocalTypes /\ Numbered /\ Fresh /\ TableGrows(t)
  BY TableKept DEF Inv
<1>1. \A n \in Calls : data[n] # c => data'[n] # c
  BY Numbers DEF TableGrows
<1>2. ASSUME NEW k \in Keys, Replaced(c, k), slot'[k] # Null
      PROVE  data'[slot'[k]] # c
  <2>1. CASE slot'[k] = slot[k]
    BY <1>1, <1>2, <2>1 DEF Replaced, TableTypes
  <2>2. CASE slot'[k] # slot[k]
    <3>1. pc[t] = "store" /\ slot'[k] = call[t]
      BY <1>2, <2>2 DEF TableGrows
    <3>2. call[t] \in Calls /\ data[call[t]] = Null
      BY <3>1 DEF Numbered, Fresh
    <3> QED
      BY <1>1, <3>1, <3>2, Numbers
  <2> QED
    BY <2>1, <2>2
<1> QED
  BY <1>1, <1>2 DEF Replaced

(* What has been replaced by the end of a call stays replaced. *)
LEMMA PastStep ==
  ASSUME Inv, NEW t \in Threads, Step(t), NEW k \in Keys
  PROVE  Past(k)'
<1> /\ TableTypes /\ LocalTypes /\ HistoryTypes /\ Numbered /\ Past(k) /\ Knows(t)
    /\ \A u \in Threads \ {t} : Same(u)
  BY LocalStep DEF Inv, Order
<1>0. calls \in Nat /\ \A c \in finished[k] : c \in Calls /\ c \in Nat /\ call[t] # c
  BY Numbers, CallsAssumption DEF TableTypes, HistoryTypes, Past
<1>1. \A c \in outdated[k] : Replaced(c, k)'
  BY <1>0, StaysReplaced DEF Past
<1>2. CASE Begin(t)
  <2>1. PICK o \in Ops, j \in Keys : BeginsWith(t, o, j)
    BY <1>2, BeginEffect
  <2>2. UNCHANGED <<finished, outdated>> /\ calls' = calls + 1 /\ call'[t] = calls + 1
    BY <2>1 DEF BeginsWith
  <2>3. \A c \in finished[k] : c <= calls' /\ call'[t] # c
    BY <1>0, <2>2 DEF Past
  <2> QED
    BY <1>1, <2>2, <2>3 DEF Past, Same
<1>3. CASE Return(t)
  <2>1. Returns(t)
    BY <1>3, ReturnEffect
  <2>2. call[t] \in Calls /\ call[t] <= calls /\ call'[t] = Null
    BY <2>1 DEF Returns, Numbered
  <2>3. outdated'[k] \subseteq finished'[k]
    BY <2>1 DEF Returns, Past, Knows
  <2>4. ASSUME NEW c \in finished'[k]
        PROVE  c <= calls' /\ \A u \in Threads : call'[u] # c
    <3>1. CASE c \in finished[k]
      BY <1>0, <2>1, <2>2, <3>1, Numbers DEF Past, Returns, Same
    <3>2. CASE c \notin finished[k]
      <4>1. c = call[t]
        BY <2>1, <2>4, <3>2 DEF Returns
      <4> QED
        BY <2>1, <2>2, <4>1, Numbers DEF Returns, Numbered, Same
    <3> QED
      BY <3>1, <3>2
  <2>5. ASSUME NEW c \in outdated'[k], c \notin outdated[k]
        PROVE  Replaced(c, k)'
    <3>1. c \in before[t] /\ k = arg[t] /\ (Done(t) \/ op[t] = "del") /\ pc[t] = "reply"
      BY <2>1, <2>5 DEF Returns
    <3>2. Replaced(c, k)
      BY <3>1 DEF Knows, Done
    <3> QED
      BY <2>1, <3>2 DEF Returns, Replaced
  <2> QED
    BY <1>1, <2>3, <2>4, <2>5 DEF Past
<1>4. CASE Inside(t)
  <2>1. call'[t] = call[t] /\ UNCHANGED <<finished, outdated, calls>>
    BY <1>4 DEF Inside, history, Quiet, Waits, Obtains, GoesOn, Answers, Creates, Initializes,
                Commits, Writes, Unlinks, Retires, Moved, Replied, Same
  <2> QED
    BY <1>1, <2>1 DEF Past, Same
<1> QED
  BY <1>2, <1>3, <1>4, Outcomes

(* What the others know of the past stays true. *)
LEMMA OthersKnow ==
  ASSUME Inv, NEW t \in Threads, Step(t), NEW u \in Threads, u # t
  PROVE  Knows(u)'
<1> /\ TableTypes /\ LocalTypes /\ HistoryTypes /\ Knows(u) /\ TableGrows(t) /\ Same(u)
    /\ arg[u] \in Keys /\ PlaceOf(u)
  BY LocalStep, TableKept DEF Inv, Order, LocalTypes, Places
<1>1. finished[arg[u]] \subseteq finished'[arg[u]] /\ outdated[arg[u]] \subseteq outdated'[arg[u]]
  BY Outcomes, BeginEffect, ReturnEffect DEF BeginsWith, Returns, Inside, history
<1>2. \A c \in before[u] : c \in Calls /\ call[t] # c
  BY DEF Knows, Inv, Order, Past, HistoryTypes
<1>3. \A c \in before[u] : Replaced(c, arg[u]) => Replaced(c, arg[u])'
  <2> SUFFICES ASSUME NEW c \in before[u], Replaced(c, arg[u])
               PROVE  slot'[arg[u]] # Null => data'[slot'[arg[u]]] # c
    BY DEF Replaced, Same
  <2> QED
    BY <1>2, StaysReplaced DEF Replaced
<1>4. node[u] # Null => \A c \in before[u] : data[node[u]] # c => data'[node[u]] # c
  BY <1>2, StaysReplaced DEF LocalTypes
<1>5. slot'[arg[u]] # slot[arg[u]] /\ slot[arg[u]] # Null => slot'[arg[u]] = Null
  BY DEF TableGrows
<1>6. Creating(u)' <=> Creating(u)
  BY DEF Same, Creating
<1>7. op[u] = "set" /\ node[u] # Null =>
        slot'[arg[u]] = node[u] \/ \A c \in before[u] : Replaced(c, arg[u])'
  <2> SUFFICES ASSUME op[u] = "set", node[u] # Null, slot'[arg[u]] # node[u], NEW c \in before[u]
               PROVE  Replaced(c, arg[u])'
    BY DEF Same
  <2>1. CASE slot[arg[u]] = node[u]
    BY <1>5, <2>1 DEF Replaced, Same
  <2>2. CASE slot[arg[u]] # node[u]
    BY <1>3, <2>2 DEF Knows
  <2> QED
    BY <2>1, <2>2
<1> QED
  BY <1>1, <1>3, <1>4, <1>6, <1>7 DEF Knows, Same

(* A worker learns of the past what its call needs. *)
LEMMA WorkerKnows ==
  ASSUME Inv, NEW t \in Threads, Step(t)
  PROVE  Knows(t)'
<1> /\ TableTypes /\ LocalTypes /\ HistoryTypes /\ Knows(t) /\ PlaceOf(t) /\ Holds(t) /\ Numbered
    /\ arg[t] \in Keys
  BY DEF Inv, Order, LocalTypes, Places, Holding
<1>1. CASE Begin(t)
  <2>1. PICK o \in Ops, j \in Keys : BeginsWith(t, o, j)
    BY <1>1, BeginEffect
  <2>2. outdated[j] \subseteq finished[j] /\ UNCHANGED <<finished, outdated>>
    BY <2>1 DEF Inv, Order, Past, BeginsWith
  <2> QED
    BY <2>1, <2>2 DEF BeginsWith, Knows
<1>2. CASE Return(t)
  BY <1>2, ReturnEffect DEF Returns, Knows, Readers
<1>3. CASE Inside(t)
  <2>1. /\ before' = before /\ finished' = finished /\ outdated' = outdated
        /\ op'[t] = op[t] /\ arg'[t] = arg[t] /\ call'[t] = call[t]
    BY <1>3 DEF Inside, history, Quiet, Waits, Obtains, GoesOn, Answers, Creates, Initializes,
                Commits, Writes, Unlinks, Retires, Moved, Replied, Same
  <2>2. \A c \in before[t] : c \in Calls /\ call[t] # c
    BY DEF Knows, Inv, Order, Past, HistoryTypes
  <2>3. \A c \in before[t] : Replaced(c, arg[t]) => Replaced(c, arg[t])'
    <3> SUFFICES ASSUME NEW c \in before[t], Replaced(c, arg[t])
                 PROVE  slot'[arg[t]] # Null => data'[slot'[arg[t]]] # c
      BY <2>1 DEF Replaced
    <3> QED
      BY <2>2, StaysReplaced DEF Replaced
  <2>4. \A n \in Calls : \A c \in before[t] : data[n] # c => data'[n] # c
    BY <2>2, StaysReplaced
  <2> DEFINE Gone == \A c \in before[t] : Replaced(c, arg[t])'
             Clean(n) == \A c \in before[t] : data'[n] # c
  <2>5. SUFFICES
          /\ (op[t] \in Readers \/ Creating(t)') /\ node'[t] # Null => Clean(node'[t])
          /\ op[t] = "set" /\ node'[t] # Null => slot'[arg[t]] = node'[t] \/ Gone
          /\ \/ pc'[t] = "reply" /\ op[t] = "set" /\ reply'[t] = OK
             \/ pc'[t] \in {"retire", "deleted"}
             \/ pc'[t] = "reply" /\ op[t] = "del"
             => Gone
    BY <2>1 DEF Knows
  <2> USE <1>3 DEF Inside, Moved
  <2>6. CASE Quiet(t) /\ Waits(t)
    <3>1. CASE pc[t] = "store" \/ pc[t] = "find"
      <4>1. /\ node'[t] = slot[arg[t]] /\ slot[arg[t]] # Null /\ UNCHANGED slot
            /\ pc'[t] \in {"spin", "load"} /\ slot[arg[t]] \in Calls
        BY <2>6, <3>1 DEF Quiet, Waits, TableTypes
      <4>2. op[t] \in Readers => \A c \in before[t] : Replaced(c, arg[t])
        BY DEF Knows, Inv, Order, Past
      <4>3. op[t] \in Readers => Clean(node'[t])
        BY <2>4, <4>1, <4>2 DEF Replaced
      <4> QED
        BY <4>1, <4>3 DEF Creating
    <3>2. CASE pc[t] = "load"
      <4>1. pc'[t] = "load" /\ node'[t] = node[t] /\ UNCHANGED <<slot, data>>
        BY <2>6, <3>2 DEF Quiet, Waits, Same
      <4> QED
        BY <2>3, <3>2, <4>1 DEF Knows, Creating
    <3> QED
      BY <2>6, <3>1, <3>2 DEF Waits
  <2>7. CASE Quiet(t) /\ (Obtains(t) \/ GoesOn(t))
    <3>1. /\ node'[t] = node[t] /\ pc'[t] \in Working /\ UNCHANGED <<slot, data>>
          /\ Creating(t)' => Creating(t)
      BY <2>7 DEF Quiet, Obtains, GoesOn, Creating, Working
    <3> QED
      BY <2>3, <3>1 DEF Knows, Working
  <2>8. CASE Quiet(t) /\ Answers(t)
    <3>1. /\ node'[t] = Null /\ pc'[t] = "reply"
          /\ op[t] = "set" => reply'[t] # OK
          /\ op[t] = "del" => pc[t] = "deleted"
      BY <2>8, Numbers DEF Answers, Replied, PlaceOf, Readers, Writers, OK, Error, Nil
    <3>2. op[t] = "del" => Gone
      BY <2>3, <3>1 DEF Knows
    <3> QED
      BY <3>1, <3>2
  <2>9. CASE Creates(t)
    <3>1. CASE op[t] = "setargs"
      BY <2>9, <3>1 DEF Creates, Replied
    <3>2. CASE op[t] # "setargs"
      <4>1. call[t] \in Calls /\ data[call[t]] = Null
        BY <2>9 DEF Creates, Numbered, Inv, Fresh
      <4>2. node'[t] = call[t] /\ slot'[arg[t]] = call[t] /\ pc'[t] = "run"
        BY <2>9, <3>2 DEF Creates, TableTypes
      <4>3. Clean(node'[t])
        BY <2>2, <2>4, <4>1, <4>2, Numbers
      <4> QED
        BY <4>2, <4>3
    <3> QED
      BY <3>1, <3>2
  <2>10. CASE Initializes(t)
    <3>1. /\ node'[t] = node[t] /\ node[t] \in Calls /\ pc'[t] = "commit" /\ UNCHANGED slot
          /\ op[t] \in {"set", "hset"} /\ Creating(t) /\ node[t] # Null
      BY <2>10, Numbers DEF Initializes, PlaceOf, Creating, Working
    <3>2. Clean(node'[t])
      BY <2>4, <3>1 DEF Knows
    <3>3. op[t] = "set" => slot'[arg[t]] = node'[t] \/ Gone
      BY <2>3, <3>1 DEF Knows
    <3> QED
      BY <3>1, <3>2, <3>3
  <2>11. CASE Commits(t)
    <3>1. /\ node[t] \in Calls /\ node[t] # Null /\ op[t] \in {"set", "hset"} /\ Creating(t)
          /\ UNCHANGED <<slot, data>>
      BY <2>11, Numbers DEF Commits, PlaceOf, Creating, Working
    <3>2. op[t] = "set" => Gone
      <4>1. \A c \in before[t] : data[node[t]] # c
        BY <3>1 DEF Knows
      <4>2. CASE slot[arg[t]] = node[t]
        BY <2>1, <3>1, <4>1, <4>2 DEF Replaced
      <4>3. CASE op[t] = "set" /\ slot[arg[t]] # node[t]
        BY <2>3, <3>1, <4>3 DEF Knows
      <4> QED
        BY <4>2, <4>3
    <3>3. pc'[t] \in {"reply", "write"} /\ (op[t] = "set" => node'[t] = Null)
      BY <2>11 DEF Commits, Replied
    <3> QED
      BY <3>1, <3>2, <3>3 DEF Creating, Readers
  <2>12. CASE Writes(t)
    <3>1. /\ node[t] \in Calls /\ node[t] # Null /\ op[t] \in {"set", "hset"}
          /\ UNCHANGED slot /\ pc'[t] = "reply" /\ node'[t] = Null
      BY <2>12, Numbers DEF Writes, PlaceOf, Working, Replied
    <3>2. ASSUME op[t] = "set"
          PROVE  Gone
      <4>1. data'[node[t]] = call[t]
        BY <2>12, <3>1, <3>2 DEF Writes, TableTypes
      <4>2. CASE slot[arg[t]] = node[t]
        BY <2>1, <2>2, <3>1, <4>1, <4>2 DEF Replaced
      <4>3. CASE slot[arg[t]] # node[t]
        BY <2>3, <3>1, <3>2, <4>3 DEF Knows
      <4> QED
        BY <4>2, <4>3
    <3> QED
      BY <3>1, <3>2 DEF Readers
  <2>13. CASE Unlinks(t)
    <3>1. slot'[arg[t]] = Null /\ op[t] = "del" /\ pc'[t] \in {"retire", "deleted"}
      BY <2>13 DEF Unlinks, PlaceOf, TableTypes
    <3> QED
      BY <2>1, <3>1 DEF Replaced, Readers, Creating
  <2>14. CASE Retires(t)
    <3>1. op[t] = "del" /\ pc'[t] = "deleted" /\ node'[t] = Null
      BY <2>14 DEF Retires, PlaceOf
    <3>2. Gone
      BY <2>3, <2>14 DEF Knows, Retires
    <3> QED
      BY <3>1, <3>2
  <2> QED
    BY <2>6, <2>7, <2>8, <2>9, <2>10, <2>11, <2>12, <2>13, <2>14 DEF Quiet
<1> QED
  BY <1>1, <1>2, <1>3, Outcomes

(* No GET answers with what had been replaced. *)
LEMMA OrderStep ==
  ASSUME Inv, NEW t \in Threads, Step(t)
  PROVE  Order' /\ NoStaleRead'
<1>1. Order'
  BY PastStep, OthersKnow, WorkerKnows DEF Order
<1>2. ASSUME NEW u \in Threads, pc'[u] = "reply", op'[u] = "get"
      PROVE  reply'[u] \notin before'[u]
  <2>1. CASE u # t
    BY <1>2, <2>1, LocalStep DEF Same, Inv, NoStaleRead
  <2>2. CASE u = t
    <3> /\ PlaceOf(t) /\ Holds(t) /\ Knows(t) /\ HistoryTypes /\ LocalTypes
      BY DEF Inv, Places, Holding, Order
    <3>1. Inside(t) /\ Answers(t) /\ op[t] = "get" /\ before' = before
      BY <1>2, <2>2, Outcomes, BeginEffect, ReturnEffect
      DEF Inside, BeginsWith, Returns, Quiet, Waits, Obtains, GoesOn, Answers, Creates, Initializes,
          Commits, Writes, Unlinks, Retires, Moved, Replied, PlaceOf, history, Same
    <3>2. before[t] \subseteq Calls
      BY DEF HistoryTypes
    <3>3. reply'[t] \in Calls => reply'[t] = data[node[t]] /\ node[t] \in Calls
      BY <3>1, Numbers DEF Answers, Replied, PlaceOf, Holds, Working
    <3> QED
      BY <2>2, <3>1, <3>2, <3>3, Numbers DEF Knows, Readers
  <2> QED
    BY <2>1, <2>2
<1> QED
  BY <1>1, <1>2 DEF NoStaleRead


-----------------------------------------------------------------------------
(* What is stored under a key that no DEL is at stays there. *)
LEMMA StaysStored ==
  ASSUME Inv, NEW t \in Threads, Step(t)
  PROVE  /\ \A n \in Calls : Stored(n) => Stored(n)'
         /\ \A k \in Keys : slot[k] # Null /\ (\A u \in Threads : ~Deletes(u, k)) =>
              slot'[k] = slot[k]
<1> /\ TableGrows(t) /\ Numbered /\ PlaceOf(t)
  BY TableKept DEF Inv, Places
<1>1. ASSUME NEW n \in Calls, Stored(n)
      PROVE  Stored(n)'
  <2>1. type'[n] = type[n]
    BY <1>1 DEF TableGrows, Stored, Unused
  <2>2. value'[n] # Null
    BY <1>1 DEF TableGrows, Stored
  <2>3. data'[n] \in Calls
    <3>1. CASE data'[n] = data[n]
      BY <1>1, <3>1 DEF Stored
    <3>2. CASE data'[n] # data[n]
      <4>1. n = node[t] /\ pc[t] \in {"run", "init", "write"}
            /\ (data'[n] = call[t] \/ Creating(t))
        BY <3>2 DEF TableGrows
      <4>2. ~Creating(t)
        BY <1>1, <4>1 DEF Inv, Holding, Holds, Working, Stored
      <4> QED
        BY <4>1, <4>2 DEF Numbered
    <3> QED
      BY <3>1, <3>2
  <2> QED
    BY <1>1, <2>1, <2>2, <2>3 DEF Stored
<1>2. ASSUME NEW k \in Keys, slot[k] # Null, \A u \in Threads : ~Deletes(u, k)
      PROVE  slot'[k] = slot[k]
  BY <1>2 DEF TableGrows, PlaceOf, Deletes
<1> QED
  BY <1>1, <1>2

(* A DEL is there from its Begin on. *)
LEMMA NoNewDelete ==
  ASSUME Inv, NEW t \in Threads, Step(t), ~Begin(t), NEW u \in Threads, NEW k
  PROVE  Deletes(u, k)' => Deletes(u, k)
<1>1. CASE u # t
  BY <1>1, LocalStep DEF Same, Deletes
<1>2. CASE u = t /\ Return(t)
  BY <1>2, ReturnEffect DEF Returns, Deletes
<1>3. CASE u = t /\ Inside(t)
  BY <1>3 DEF Deletes, Inside, Quiet, Waits, Obtains, GoesOn, Answers, Creates, Initializes,
              Commits, Writes, Unlinks, Retires, Moved, Replied, Same
<1> QED
  BY <1>1, <1>2, <1>3, Outcomes

(* A key known to be present is there. *)
LEMMA PresentStep ==
  ASSUME Inv, NEW t \in Threads, Step(t), NEW k \in Keys
  PROVE  Present(k)'
<1> SUFFICES ASSUME present'[k]
             PROVE  Stored(slot[k])' /\ \A u \in Threads : ~Deletes(u, k)'
  BY DEF Present
<1> TableTypes /\ LocalTypes /\ Present(k) /\ Sure(t)
  BY DEF Inv, Kept
<1>1. ASSUME present[k], ~Begin(t)
      PROVE  Stored(slot[k])' /\ \A u \in Threads : ~Deletes(u, k)'
  <2>1. slot[k] # Null /\ slot[k] \in Calls /\ Stored(slot[k]) /\ \A u \in Threads : ~Deletes(u, k)
    BY <1>1, Numbers DEF Present, Stored
  <2>2. slot'[k] = slot[k] /\ \A n \in Calls : Stored(n) => Stored(n)'
    BY <2>1, StaysStored
  <2>3. Stored(slot[k])'
    BY <2>1, <2>2 DEF Stored
  <2> QED
    BY <1>1, <2>1, <2>3, NoNewDelete
<1>2. CASE Begin(t)
  <2>1. PICK o \in Ops, j \in Keys : BeginsWith(t, o, j)
    BY <1>2, BeginEffect
  <2>2. present[k] /\ (o = "del" => j # k)
    BY <2>1 DEF BeginsWith
  <2>3. \A u \in Threads : ~Deletes(u, k)'
    BY <2>1, <2>2, LocalStep DEF BeginsWith, Same, Present, Deletes
  <2> QED
    BY <2>1, <2>2, <2>3 DEF BeginsWith, Present, Stored
<1>3. CASE Return(t) /\ ~Begin(t)
  <2>1. Returns(t)
    BY <1>3, ReturnEffect
  <2>2. CASE present[k]
    BY <1>1, <1>3, <2>2
  <2>3. CASE ~present[k]
    <3>1. k = arg[t] /\ op[t] = "set" /\ reply[t] = OK /\ sure[t] /\ pc[t] = "reply"
      BY <2>1, <2>3 DEF Returns, Done
    <3>2. Stored(slot[k]) /\ \A u \in Threads : ~Deletes(u, k)
      BY <3>1 DEF Sure
    <3> QED
      BY <1>3, <2>1, <3>2, NoNewDelete DEF Returns, Stored
  <2> QED
    BY <2>2, <2>3
<1>4. CASE Inside(t) /\ ~Begin(t)
  BY <1>1, <1>4 DEF Inside, history
<1> QED
  BY <1>2, <1>3, <1>4, Outcomes

(* What the others are sure of stays true. *)
LEMMA OthersSure ==
  ASSUME Inv, NEW t \in Threads, Step(t), NEW u \in Threads, u # t
  PROVE  Sure(u)'
<1> /\ TableTypes /\ LocalTypes /\ Numbered /\ Sure(u) /\ TableGrows(t) /\ Same(u)
    /\ arg[u] \in Keys /\ PlaceOf(u) /\ Holds(u) /\ Holds(t)
  BY LocalStep, TableKept DEF Inv, Kept, LocalTypes, Places, Holding
<1>1. sure'[u] => sure[u]
  BY Outcomes, BeginEffect, ReturnEffect DEF BeginsWith, Returns, Inside, history
<1>2. sure'[u] => \A v \in Threads : ~Deletes(v, arg[u])'
  <2> SUFFICES ASSUME sure'[u], NEW v \in Threads, op'[v] = "del", arg'[v] = arg[u]
               PROVE  FALSE
    BY DEF Deletes, Same
  <2>1. ~Deletes(v, arg[u])
    BY <1>1 DEF Sure
  <2>2. Begin(t)
    BY <2>1, NoNewDelete DEF Deletes
  <2>3. PICK o \in Ops, j \in Keys : BeginsWith(t, o, j)
    BY <2>2, BeginEffect
  <2>4. v = t
    BY <2>1, LocalStep DEF Same, Deletes
  <2> QED
    BY <2>3, <2>4 DEF BeginsWith
<1>3. pc[u] = "commit" /\ op[u] = "set" => data'[node[u]] \in Calls
  <2> SUFFICES ASSUME pc[u] = "commit", op[u] = "set", data'[node[u]] # data[node[u]]
               PROVE  data'[node[u]] \in Calls
    BY DEF Sure
  <2>1. node[u] \in Calls /\ Creating(u) /\ node[u] = call[u]
    BY DEF PlaceOf, Holds, Working, Creating
  <2>2. node[u] = node[t] /\ pc[t] \in {"run", "init", "write"}
        /\ (data'[node[u]] = call[t] \/ Creating(t))
    BY <2>1 DEF TableGrows
  <2>3. Creating(t) => node[t] = call[t]
    BY <2>2 DEF Holds, Working
  <2> QED
    BY <2>1, <2>2, <2>3, Numbers DEF Numbered
<1>4. sure[u] /\ slot[arg[u]] # Null => slot'[arg[u]] = slot[arg[u]]
  BY StaysStored DEF Sure
<1>5. sure[u] /\ Stored(slot[arg[u]]) => Stored(slot'[arg[u]])
      /\ Stored(slot[arg[u]])'
  <2> SUFFICES ASSUME sure[u], Stored(slot[arg[u]])
               PROVE  Stored(slot'[arg[u]]) /\ Stored(slot[arg[u]])'
    OBVIOUS
  <2>1. slot[arg[u]] \in Calls /\ slot'[arg[u]] = slot[arg[u]]
    BY <1>4, Numbers DEF Stored
  <2> QED
    BY <2>1, StaysStored DEF Stored, Same
<1>6. Stored(node[u]) => Stored(node[u])'
  BY StaysStored DEF Stored, Same
<1>7. sure[u] /\ op[u] = "set" /\ node[u] # Null => slot'[arg[u]] = node[u]
  BY <1>4 DEF Sure
<1> QED
  BY <1>1, <1>2, <1>3, <1>5, <1>6, <1>7 DEF Sure, Same

(* What a worker finds under a key that is there. *)
LEMMA WorkerSure ==
  ASSUME Inv, NEW t \in Threads, Step(t)
  PROVE  Sure(t)'
<1> /\ TableTypes /\ LocalTypes /\ Numbered /\ Sure(t) /\ TableGrows(t)
    /\ arg[t] \in Keys /\ PlaceOf(t) /\ Holds(t)
  BY TableKept DEF Inv, Kept, LocalTypes, Places, Holding
<1>1. CASE Begin(t)
  <2>1. PICK o \in Ops, j \in Keys : BeginsWith(t, o, j)
    BY <1>1, BeginEffect
  <2>2. sure'[t] => o # "del"
    BY <2>1 DEF BeginsWith
  <2>3. /\ op'[t] = o /\ arg'[t] = j /\ node'[t] = Null
        /\ pc'[t] \notin {"reply", "commit", "load", "read"}
        /\ UNCHANGED <<slot, value, type, data>>
    BY <2>1 DEF BeginsWith
  <2>4. sure'[t] => \A u \in Threads : ~Deletes(u, j)
    BY <2>1, <2>2 DEF BeginsWith, Inv, Kept, Present
  <2>5. sure'[t] => \A u \in Threads : ~Deletes(u, arg[t])'
    BY <2>2, <2>3, <2>4, LocalStep DEF Same, Deletes
  <2>6. sure'[t] /\ o = "get" => Stored(slot[j])
    BY <2>1 DEF BeginsWith, Inv, Kept, Present
  <2> QED
    BY <2>3, <2>5, <2>6 DEF Sure, Stored
<1>2. CASE Return(t)
  BY <1>2, ReturnEffect DEF Returns, Sure
<1>3. CASE Inside(t) /\ ~Begin(t)
  <2>1. sure' = sure /\ op'[t] = op[t] /\ arg'[t] = arg[t] /\ call'[t] = call[t]
    BY <1>3 DEF Inside, history, Quiet, Waits, Obtains, GoesOn, Answers, Creates, Initializes,
                Commits, Writes, Unlinks, Retires, Moved, Replied, Same
  <2>2. sure[t] => \A u \in Threads : ~Deletes(u, arg[t])'
    <3>1. \A u \in Threads : Deletes(u, arg[t])' => op'[u] = "del" /\ arg'[u] = arg[t]
      BY <2>1 DEF Deletes
    <3>2. \A u \in Threads : Deletes(u, arg[t])' => Deletes(u, arg[t])
      <4> SUFFICES ASSUME NEW u \in Threads, op'[u] = "del", arg'[u] = arg[t]
                   PROVE  Deletes(u, arg[t])
        BY <3>1
      <4> QED
        BY <1>3, NoNewDelete DEF Deletes
    <3> QED
      BY <3>2 DEF Sure
  <2>3. \A n \in Calls : Stored(n) => Stored(n)'
    BY StaysStored
  <2>4. sure[t] /\ slot[arg[t]] # Null => slot'[arg[t]] = slot[arg[t]]
    BY StaysStored DEF Sure
  <2>5. SUFFICES
          /\ pc'[t] = "commit" /\ op[t] = "set" => data'[node'[t]] \in Calls
          /\ sure[t] /\ op[t] = "set" /\ node'[t] # Null => slot'[arg[t]] = node'[t]
          /\ sure[t] /\ op[t] = "set" /\ pc'[t] = "reply" /\ reply'[t] = OK => Stored(slot[arg[t]])'
          /\ sure[t] /\ op[t] = "get" /\ pc'[t] = "find" => Stored(slot[arg[t]])'
          /\ sure[t] /\ op[t] = "get" /\ pc'[t] \in {"load", "read"} => Stored(node[t])'
    BY <2>1, <2>2 DEF Sure
  <2> USE <1>3 DEF Inside, Moved
  <2>6. CASE Quiet(t) /\ Waits(t)
    <3>1. UNCHANGED <<slot, value, type, data>>
      BY <2>6 DEF Quiet
    <3>2. CASE pc[t] = "store"
      BY <2>6, <3>1, <3>2 DEF Waits, PlaceOf, Writers
    <3>3. CASE pc[t] = "find"
      BY <2>6, <3>1, <3>3 DEF Waits, PlaceOf, Readers, Sure, Stored
    <3>4. CASE pc[t] = "load"
      BY <2>6, <3>1, <3>4 DEF Waits, Same, PlaceOf, Readers, Sure, Stored
    <3> QED
      BY <2>6, <3>2, <3>3, <3>4 DEF Waits
  <2>7. CASE Quiet(t) /\ (Obtains(t) \/ GoesOn(t))
    <3>1. /\ UNCHANGED <<slot, value, type, data>> /\ node'[t] = node[t]
          /\ pc'[t] \in Working
          /\ pc'[t] = "commit" => op[t] = "hset"
          /\ pc'[t] = "read" => pc[t] = "load"
          /\ pc[t] # "spin" /\ pc[t] # "load" => op[t] \in {"set", "hset"}
          /\ pc[t] = "spin" => op[t] \in Writers
      BY <2>7 DEF Quiet, Obtains, GoesOn, Working, PlaceOf
    <3> QED
      BY <3>1 DEF Sure, Stored, Working, Writers
  <2>8. CASE Quiet(t) /\ Answers(t)
    BY <2>8, Numbers DEF Answers, Replied, PlaceOf, Readers, OK, Error, Nil
  <2>9. CASE Creates(t)
    <3>1. CASE op[t] = "setargs"
      BY <2>9, <3>1 DEF Creates, Replied
    <3>2. CASE op[t] # "setargs"
      BY <2>9, <3>2 DEF Creates, TableTypes, PlaceOf, Writers
    <3> QED
      BY <3>1, <3>2
  <2>10. CASE Initializes(t)
    <3>1. /\ node'[t] = node[t] /\ node[t] \in Calls /\ pc'[t] = "commit" /\ UNCHANGED slot
          /\ op[t] \in {"set", "hset"} /\ node[t] # Null /\ call[t] \in Calls
      BY <2>10, Numbers DEF Initializes, PlaceOf, Working, Numbered
    <3>2. op[t] = "set" => data'[node[t]] \in Calls
      BY <2>10, <3>1 DEF Initializes, TableTypes
    <3> QED
      BY <3>1, <3>2 DEF Sure
  <2>11. CASE Commits(t)
    <3>1. /\ node[t] \in Calls /\ node[t] # Null /\ op[t] \in {"set", "hset"}
          /\ UNCHANGED <<slot, type, data>> /\ pc'[t] \in {"reply", "write"}
          /\ (op[t] = "set" => node'[t] = Null)
      BY <2>11, Numbers DEF Commits, PlaceOf, Working, Replied
    <3>2. ASSUME sure[t], op[t] = "set"
          PROVE  Stored(slot[arg[t]])'
      <4>1. slot[arg[t]] = node[t] /\ data[node[t]] \in Calls /\ type[node[t]] = "string"
        BY <2>11, <3>1, <3>2 DEF Commits, Sure, Holds, Working, TypeOf
      <4>2. value'[node[t]] # Null
        BY <2>11, <3>1 DEF Commits, TableTypes
      <4> QED
        BY <2>1, <3>1, <4>1, <4>2 DEF Stored
    <3> QED
      BY <3>1, <3>2
  <2>12. CASE Writes(t)
    <3>1. /\ node[t] \in Calls /\ node[t] # Null /\ op[t] \in {"set", "hset"} /\ call[t] \in Calls
          /\ UNCHANGED <<slot, type, value>> /\ pc'[t] = "reply" /\ node'[t] = Null
      BY <2>12, Numbers DEF Writes, PlaceOf, Working, Replied, Numbered
    <3>2. ASSUME sure[t], op[t] = "set"
          PROVE  Stored(slot[arg[t]])'
      <4>1. slot[arg[t]] = node[t] /\ value[node[t]] # Null /\ type[node[t]] = "string"
        BY <2>12, <3>1, <3>2 DEF Writes, Sure, Holds, Working, TypeOf, Creating
      <4>2. data'[node[t]] \in Calls
        BY <2>12, <3>1, <3>2 DEF Writes, TableTypes
      <4> QED
        BY <2>1, <3>1, <4>1, <4>2 DEF Stored
    <3> QED
      BY <3>1, <3>2
  <2>13. CASE Unlinks(t) \/ Retires(t)
    BY <2>13 DEF Unlinks, Retires, PlaceOf
  <2> QED
    BY <2>6, <2>7, <2>8, <2>9, <2>10, <2>11, <2>12, <2>13 DEF Quiet
<1> QED
  BY <1>1, <1>2, <1>3, Outcomes

(* A GET that is sure of its key finds it. *)
LEMMA KeptStep ==
  ASSUME Inv, NEW t \in Threads, Step(t)
  PROVE  Kept' /\ FoundWhenPresent'
<1>1. Kept'
  BY PresentStep, OthersSure, WorkerSure DEF Kept
<1>2. ASSUME NEW u \in Threads, pc'[u] = "reply", op'[u] = "get", sure'[u]
      PROVE  reply'[u] \in Calls
  <2>1. CASE u # t
    <3>1. sure'[u] => sure[u]
      BY <2>1, Outcomes, BeginEffect, ReturnEffect DEF BeginsWith, Returns, Inside, history
    <3> QED
      BY <1>2, <2>1, <3>1, LocalStep DEF Same, Inv, FoundWhenPresent
  <2>2. CASE u = t
    <3> /\ PlaceOf(t) /\ Holds(t) /\ Sure(t) /\ Nodes
      BY DEF Inv, Places, Holding, Kept
    <3>1. Inside(t) /\ Answers(t) /\ op[t] = "get" /\ sure[t]
      BY <1>2, <2>2, Outcomes, BeginEffect, ReturnEffect
      DEF Inside, BeginsWith, Returns, Quiet, Waits, Obtains, GoesOn, Answers, Creates, Initializes,
          Commits, Writes, Unlinks, Retires, Moved, Replied, PlaceOf, history, Same
    <3>2. CASE pc[t] = "find"
      BY <3>1, <3>2, Numbers DEF Answers, Sure, Stored
    <3>3. CASE pc[t] = "load"
      <4>1. Stored(node[t]) /\ value[node[t]] = node[t]
        BY <3>1, <3>3 DEF Sure, Stored, Nodes
      <4> QED
        BY <3>1, <3>3, <4>1 DEF Answers, Stored, TypeOf
    <3>4. CASE pc[t] = "read"
      BY <2>2, <3>1, <3>4 DEF Answers, Replied, Sure, Stored, Holds, Working
    <3> QED
      BY <3>1, <3>2, <3>3, <3>4 DEF Answers, PlaceOf, Writers
  <2> QED
    BY <2>1, <2>2
<1> QED
  BY <1>1, <1>2 DEF FoundWhenPresent

-----------------------------------------------------------------------------
(* Nothing has happened yet. *)
LEMMA InitInv == ASSUME Init PROVE Inv
<1> USE DEF Init
<1>1. (CHOOSE k \in Keys : TRUE) \in Keys
  BY KeysAssumption
<1>2. TableTypes
  <2>0. 0 \in 0 .. MaxCalls
    BY CallsAssumption
  <2>1. calls \in 0 .. MaxCalls /\ crashed \in BOOLEAN /\ retired = {}
    BY <2>0
  <2>2. /\ slot \in [Keys -> Calls \cup {Null}] /\ value \in [Calls -> Calls \cup {Null}]
        /\ data \in [Calls -> Calls \cup {Null, Empty}]
    OBVIOUS
  <2>3. type \in [Calls -> {"none", "string", "hash"}]
    OBVIOUS
  <2> QED
    BY <2>1, <2>2, <2>3 DEF TableTypes
<1>3. LocalTypes
  <2>1. arg \in [Threads -> Keys]
    BY <1>1
  <2> QED
    BY <2>1 DEF LocalTypes
<1>4. HistoryTypes
  BY DEF HistoryTypes
<1>5. Numbered /\ Places /\ Fresh /\ Nodes /\ Holding
  BY DEF Numbered, Places, PlaceOf, Fresh, Nodes, Holding, Holds, Working, Unused
<1>6. Order /\ Kept /\ NoStaleRead /\ FoundWhenPresent
  BY DEF Order, Past, Knows, Readers, Creating, Kept, Present, Sure, NoStaleRead, FoundWhenPresent
<1> QED
  BY <1>2, <1>3, <1>4, <1>5, <1>6 DEF Inv

(* Every step, a stuttering one included, keeps the invariant. *)
LEMMA NextInv == ASSUME Inv, [Next]_vars PROVE Inv'
<1>1. CASE Next
  <2>1. PICK t \in Threads : Step(t)
    BY <1>1 DEF Next, Step
  <2> QED
    BY <2>1, LocalStep, TableStep, HistoryStep, NumberedStep, PlacesStep, FreshStep, NodesStep,
       HoldingStep, OrderStep, KeptStep DEF Inv
<1>2. CASE UNCHANGED vars
  <2> USE <1>2 DEF vars, table, locals, history
  <2>1. (TableTypes /\ LocalTypes /\ HistoryTypes)'
    BY DEF Inv, TableTypes, LocalTypes, HistoryTypes
  <2>2. (Numbered /\ Places /\ Fresh /\ Nodes /\ Holding)'
    BY DEF Inv, Numbered, Places, PlaceOf, Fresh, Nodes, Holding, Holds, Creating, Unused
  <2>3. (Order /\ NoStaleRead)'
    BY DEF Inv, Order, Past, Knows, Replaced, Creating, NoStaleRead
  <2>4. (Kept /\ FoundWhenPresent)'
    BY DEF Inv, Kept, Present, Sure, Stored, Deletes, FoundWhenPresent
  <2> QED
    BY <2>1, <2>2, <2>3, <2>4 DEF Inv
<1> QED
  BY <1>1, <1>2

(* In every reachable state a node holds nothing or what its own call has  *)
(* made, each worker knows what holds of its node, and what is known of    *)
(* keys and calls that are over is true.                                   *)
THEOREM Invariance == Spec => []Inv
<1>1. Init => Inv
  BY InitInv
<1>2. Inv /\ [Next]_vars => Inv'
  BY NextInv
<1> QED
  BY <1>1, <1>2, PTL DEF Spec

(* Every field keeps its type, and an argument that is worked on has a     *)
(* node and a value.                                                       *)
THEOREM TypeCorrect == Spec => []TypeOK
<1>1. Inv => TypeOK
  <2> SUFFICES ASSUME Inv PROVE TypeOK
    OBVIOUS
  <2>1. \A t \in Threads :
          /\ pc[t] \in {"spin", "load", "retire"} => node[t] \in Calls
          /\ pc[t] \in {"run", "init", "commit", "write", "read"} =>
               node[t] \in Calls /\ val[t] \in Calls
    BY DEF Inv, Places, PlaceOf, Holding, Holds, Working
  <2> QED
    BY <2>1 DEF Inv, TypeOK, TableTypes, LocalTypes
<1> QED
  BY <1>1, Invariance, PTL

(* Whoever is about to commit a value is the only one, and finds the slot  *)
(* empty: predis_arg_try_commit never loses.                               *)
THEOREM OneCreatorOfANode == Spec => []OneCreator
<1>1. Inv => OneCreator
  <2> SUFFICES ASSUME Inv, NEW t \in Threads, Creating(t)
               PROVE  /\ value[node[t]] = Null
                      /\ \A u \in Threads \ {t} : Creating(u) => node[u] # node[t]
    BY DEF OneCreator
  <2>1. \A u \in Threads : Creating(u) =>
          node[u] = call[u] /\ value[node[u]] = Null /\ node[u] \in Calls
    BY DEF Inv, Holding, Holds, Places, PlaceOf, Creating, Working
  <2> QED
    BY <2>1, Numbers DEF Inv, Numbered
<1> QED
  BY <1>1, Invariance, PTL

(* No command touches a value of another type.                             *)
THEOREM CommandsAreTypeSafe == Spec => []TypeSafe
<1>1. Inv => TypeSafe
  BY DEF Inv, Holding, Holds, Working, TypeSafe
<1> QED
  BY <1>1, Invariance, PTL

(* A value others can see has been initialized.                            *)
THEOREM ValuesAreWhole == Spec => []NoTornValue
<1>1. Inv => NoTornValue
  BY DEF Inv, Nodes, NoTornValue
<1> QED
  BY <1>1, Invariance, PTL

(* GET never answers with bytes that a SET or DEL had replaced before it   *)
(* began.                                                                  *)
THEOREM ReadsAreNotStale == Spec => []NoStaleRead
<1>1. Inv => NoStaleRead
  BY DEF Inv
<1> QED
  BY <1>1, Invariance, PTL

(* GET finds a key that some SET has stored, if no DEL of it runs at the   *)
(* time or began after that SET did.                                       *)
THEOREM PresentKeysAreFound == Spec => []FoundWhenPresent
<1>1. Inv => FoundWhenPresent
  BY DEF Inv
<1> QED
  BY <1>1, Invariance, PTL
=============================================================================
