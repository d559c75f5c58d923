------------------------------ MODULE Keyspace ------------------------------
(***************************************************************************)
(* Keys and their values (network_parser.c: runner and command_del,        *)
(* lib/commands.c, commands/, types/): a key's node is made by one command *)
(* with an empty slot; that command initializes a value and commits it     *)
(* into the slot; others wait for it, check its type and read or write it. *)
(*                                                                         *)
(* The key table is an atomic map here (see HashTable), and nothing is     *)
(* freed (see Gc).  Calls are numbered; the node and the typed_data made   *)
(* by call c are both named c, and so are the bytes it was given: a string *)
(* is the call whose bytes it has, a hash with one field the call that     *)
(* stored it.                                                              *)
(*                                                                         *)
(* "get" stands for all commands with one R{string} key (GET, STRLEN,      *)
(* BITCOUNT, BITPOS, GETRANGE); "setargs" for a SET with more arguments    *)
(* than two: its format string is read past its end, where no access type  *)
(* is found but the size of the next heap block, so that command_set runs, *)
(* refuses the number of arguments and never commits.                      *)
(***************************************************************************)
EXTENDS Integers, FiniteSets

CONSTANTS Threads,   \* the workers
          Keys,
          Ops,       \* the commands they run
          MaxCalls   \* bound: the commands run

ASSUME KeysAssumption == Keys # {}
ASSUME OpsAssumption ==
  Ops \subseteq {"set", "setargs", "get", "hset", "hget", "del"}
ASSUME CallsAssumption == MaxCalls \in Nat

Calls == 1 .. MaxCalls
Null == 0
Empty == -1        \* the data of a hash without fields
Nil == 0           \* the reply for what is not there
OK == -1
Error == -2
Garbage == -1      \* an uninitialized pointer

VARIABLES
  slot,        \* the key table: the node of each key
  value,       \* of each node: contents.value
  type, data,  \* of each typed_data
  retired,     \* the values given to gc_free
  crashed,     \* a NULL pointer was dereferenced
  calls,       \* how many calls were made
  pc, op, arg, call,      \* each worker: where, in which call, on which key
  node, val,              \* data[0].ht_value and data[0].data
  needsInit, needsCommit, \* data[0].needs_initialization, .needs_commit
  reply,       \* what the call replies
  finished,    \* history, per key: the SETs that replied OK
  outdated,    \* history, per key: those some later SET or DEL has replaced
  before,      \* history, per call: finished (of a reader: outdated) when it began
  present,     \* history, per key: a SET has replied OK, and no DEL has
               \* begun since that SET did
  sure         \* history, per call: no DEL of the key while it runs (of a
               \* reader: and present when it began)

table   == <<slot, value, type, data, retired, crashed>>
locals  == <<op, arg, call, node, val, needsInit, needsCommit, reply>>
history == <<finished, outdated, before, present, sure>>
vars    == <<table, calls, pc, locals, history>>

TypeOf(o) == IF o \in {"hset", "hget"} THEN "hash" ELSE "string"

Writers == {"set", "setargs", "hset"}

Goto(t, label) == pc' = [pc EXCEPT ![t] = label]

(* The call replies; what it had is dead.                                  *)
Reply(t, r) ==
  /\ Goto(t, "reply")
  /\ reply' = [reply EXCEPT ![t] = r]
  /\ node' = [node EXCEPT ![t] = Null]
  /\ val' = [val EXCEPT ![t] = Null]
  /\ needsInit' = [needsInit EXCEPT ![t] = FALSE]
  /\ needsCommit' = [needsCommit EXCEPT ![t] = FALSE]
  /\ UNCHANGED <<op, arg, call>>

Init ==
  /\ slot = [k \in Keys |-> Null]
  /\ value = [c \in Calls |-> Null]
  /\ type = [c \in Calls |-> "none"]
  /\ data = [c \in Calls |-> Null]
  /\ retired = {} /\ crashed = FALSE /\ calls = 0
  /\ pc = [t \in Threads |-> "idle"]
  /\ op = [t \in Threads |-> "none"]
  /\ arg = [t \in Threads |-> CHOOSE k \in Keys : TRUE]
  /\ call = [t \in Threads |-> Null]
  /\ node = [t \in Threads |-> Null] /\ val = [t \in Threads |-> Null]
  /\ needsInit = [t \in Threads |-> FALSE]
  /\ needsCommit = [t \in Threads |-> FALSE]
  /\ reply = [t \in Threads |-> Nil]
  /\ finished = [k \in Keys |-> {}] /\ outdated = [k \in Keys |-> {}]
  /\ before = [t \in Threads |-> {}]
  /\ present = [k \in Keys |-> FALSE]
  /\ sure = [t \in Threads |-> FALSE]

(* History: a call on k begins.                                            *)
Record(t, o, k) ==
  /\ before' = [before EXCEPT ![t] = IF o \in {"get", "hget"} THEN outdated[k]
                                     ELSE finished[k]]
  /\ IF o = "del"
     THEN /\ present' = [present EXCEPT ![k] = FALSE]
          /\ sure' = [u \in Threads |-> sure[u] /\ u # t /\ arg[u] # k]
     ELSE /\ sure' = [sure EXCEPT ![t] =
                        IF o = "get" THEN present[k]
                        ELSE \A u \in Threads : op[u] = "del" => arg[u] # k]
          /\ UNCHANGED present
  /\ UNCHANGED <<finished, outdated>>

-----------------------------------------------------------------------------
(* A worker takes up a command: runner, or command_del for its first key.  *)
Begin(t) ==
  /\ pc[t] = "idle" /\ calls < MaxCalls
  /\ calls' = calls + 1
  /\ \E o \in Ops, k \in Keys :
       /\ op' = [op EXCEPT ![t] = o]
       /\ arg' = [arg EXCEPT ![t] = k]
       /\ Record(t, o, k)
       /\ Goto(t, IF o \in Writers THEN "store"
                  ELSE IF o = "del" THEN "unlink" ELSE "find")
  /\ call' = [call EXCEPT ![t] = calls + 1]
  /\ UNCHANGED <<table, node, val, needsInit, needsCommit, reply>>

-----------------------------------------------------------------------------
(* runner: FSTRING_MODIFY_CREATE                                           *)

(* Mutant: data[i].data is not set.                                        *)
ReserveOnly(t) ==
  /\ pc[t] = "store" /\ slot[arg[t]] = Null
  /\ slot' = [slot EXCEPT ![arg[t]] = call[t]]
  /\ type' = [type EXCEPT ![call[t]] = TypeOf(op[t])]
  /\ node' = [node EXCEPT ![t] = call[t]]
  /\ Goto(t, "run")
  /\ UNCHANGED <<value, data, retired, crashed, calls, op, arg, call, val,
                 needsInit, needsCommit, reply, history>>

(* Mutant: the typed_data is in the slot from the start.                   *)
ReserveVisibly(t) ==
  /\ pc[t] = "store" /\ slot[arg[t]] = Null
  /\ slot' = [slot EXCEPT ![arg[t]] = call[t]]
  /\ value' = [value EXCEPT ![call[t]] = call[t]]
  /\ type' = [type EXCEPT ![call[t]] = TypeOf(op[t])]
  /\ node' = [node EXCEPT ![t] = call[t]]
  /\ val' = [val EXCEPT ![t] = call[t]]
  /\ Goto(t, "run")
  /\ UNCHANGED <<data, retired, crashed, calls, op, arg, call, needsInit,
                 needsCommit, reply, history>>

(* HT_GOOD: a new node with an empty slot, and a typed_data for it.        *)
Reserve(t) ==
  LET c == call[t]
      k == arg[t]
  IN
  /\ pc[t] = "store" /\ slot[k] = Null
  /\ slot' = [slot EXCEPT ![k] = c]
  /\ type' = [type EXCEPT ![c] = TypeOf(op[t])]
  /\ IF op[t] = "setargs"
     THEN Reply(t, Error)
     ELSE /\ node' = [node EXCEPT ![t] = c]
          /\ val' = [val EXCEPT ![t] = c]
          /\ needsInit' = [needsInit EXCEPT ![t] = TRUE]
          /\ needsCommit' = [needsCommit EXCEPT ![t] = TRUE]
          /\ Goto(t, "run")
          /\ UNCHANGED <<op, arg, call, reply>>
  /\ UNCHANGED <<value, data, retired, crashed, calls, history>>

(* Mutant: an empty slot that is there is taken for one's own.             *)
TakeOver(t) ==
  /\ pc[t] = "store" /\ slot[arg[t]] # Null
  /\ value[slot[arg[t]]] = Null
  /\ node' = [node EXCEPT ![t] = slot[arg[t]]]
  /\ type' = [type EXCEPT ![call[t]] = TypeOf(op[t])]
  /\ val' = [val EXCEPT ![t] = call[t]]
  /\ needsInit' = [needsInit EXCEPT ![t] = TRUE]
  /\ needsCommit' = [needsCommit EXCEPT ![t] = TRUE]
  /\ Goto(t, "run")
  /\ UNCHANGED <<slot, value, data, retired, crashed, calls, op, arg, call,
                 reply, history>>

(* HT_DUPLICATE_KEY                                                        *)
Occupied(t) ==
  /\ pc[t] = "store" /\ slot[arg[t]] # Null
  /\ node' = [node EXCEPT ![t] = slot[arg[t]]]
  /\ Goto(t, "spin")
  /\ UNCHANGED <<table, calls, op, arg, call, val, needsInit, needsCommit,
                 reply, history>>

(* Mutant: no type check.                                                  *)
SpinUnchecked(t) ==
  /\ pc[t] = "spin" /\ value[node[t]] # Null
  /\ val' = [val EXCEPT ![t] = value[node[t]]]
  /\ Goto(t, "run")
  /\ UNCHANGED <<table, calls, op, arg, call, node, needsInit, needsCommit,
                 reply, history>>

(* The loop that waits until the value is committed, and the type check.   *)
Spin(t) ==
  /\ pc[t] = "spin" /\ value[node[t]] # Null
  /\ IF type[value[node[t]]] # TypeOf(op[t]) \/ op[t] = "setargs"
     THEN Reply(t, Error)
     ELSE /\ val' = [val EXCEPT ![t] = value[node[t]]]
          /\ Goto(t, "run")
          /\ UNCHANGED <<op, arg, call, node, needsInit, needsCommit, reply>>
  /\ UNCHANGED <<table, calls, history>>

-----------------------------------------------------------------------------
(* runner: FSTRING_READONLY                                                *)

Find(t) ==
  /\ pc[t] = "find"
  /\ IF slot[arg[t]] = Null
     THEN Reply(t, Nil)
     ELSE /\ node' = [node EXCEPT ![t] = slot[arg[t]]]
          /\ Goto(t, "load")
          /\ UNCHANGED <<op, arg, call, val, needsInit, needsCommit, reply>>
  /\ UNCHANGED <<table, calls, history>>

(* The value is loaded once, and its type is read through it.              *)
Load(t) ==
  LET v == value[node[t]] IN
  /\ pc[t] = "load"
  /\ IF v = Null
     THEN /\ crashed' = TRUE
          /\ UNCHANGED <<pc, locals>>
     ELSE /\ IF type[v] # TypeOf(op[t])
             THEN Reply(t, Error)
             ELSE /\ val' = [val EXCEPT ![t] = v]
                  /\ Goto(t, "read")
                  /\ UNCHANGED <<op, arg, call, node, needsInit, needsCommit,
                                 reply>>
          /\ UNCHANGED crashed
  /\ UNCHANGED <<slot, value, type, data, retired, calls, history>>

(* string_get, or hash_find: the data at this moment.                      *)
Read(t) ==
  /\ pc[t] = "read"
  /\ Reply(t, IF data[val[t]] \in Calls THEN data[val[t]] ELSE Nil)
  /\ UNCHANGED <<table, calls, history>>

-----------------------------------------------------------------------------
(* command_set and hash_hset                                               *)

(* predis_arg_requires_initialization                                      *)
Check(t) ==
  /\ pc[t] = "run" /\ op[t] = "set"
  /\ Goto(t, IF value[node[t]] = Null THEN "init" ELSE "write")
  /\ UNCHANGED <<table, calls, locals, history>>

(* Mutant: the string is initialized without its arguments.                *)
InitializeEmpty(t) ==
  /\ \/ pc[t] = "init"
     \/ pc[t] = "run" /\ op[t] = "hset"
  /\ data' = IF needsInit[t] THEN [data EXCEPT ![val[t]] = Empty] ELSE data
  /\ needsInit' = [needsInit EXCEPT ![t] = FALSE]
  /\ Goto(t, "commit")
  /\ UNCHANGED <<slot, value, type, retired, crashed, calls, op, arg, call,
                 node, val, needsCommit, reply, history>>

(* predis_arg_try_initialize: a string with a copy of the bytes, or an     *)
(* empty hash.                                                             *)
Initialize(t) ==
  /\ \/ pc[t] = "init"
     \/ pc[t] = "run" /\ op[t] = "hset"
  /\ data' = IF needsInit[t]
             THEN [data EXCEPT ![val[t]] = IF op[t] = "set" THEN call[t]
                                           ELSE Empty]
             ELSE data
  /\ needsInit' = [needsInit EXCEPT ![t] = FALSE]
  /\ Goto(t, "commit")
  /\ UNCHANGED <<slot, value, type, retired, crashed, calls, op, arg, call,
                 node, val, needsCommit, reply, history>>

(* Mutant: the value never gets into the slot.                             *)
CommitForgotten(t) ==
  /\ pc[t] = "commit"
  /\ IF op[t] = "set" THEN Reply(t, OK) ELSE Goto(t, "write") /\ UNCHANGED locals
  /\ UNCHANGED <<table, calls, history>>

(* predis_arg_try_commit: SET is done if it returns 0, and else tries      *)
(* again; HSET goes on in any case.                                        *)
TryCommit(t) ==
  LET mine == needsCommit[t] /\ ~needsInit[t]
      now  == value[node[t]]
  IN
  /\ pc[t] = "commit"
  /\ IF mine /\ now = Null
     THEN /\ value' = [value EXCEPT ![node[t]] = val[t]]
          /\ IF op[t] = "set"
             THEN Reply(t, OK)
             ELSE Goto(t, "write") /\ UNCHANGED locals
     ELSE /\ val' = [val EXCEPT ![t] =
                       IF mine /\ type[now] = type[@] THEN now ELSE @]
          /\ Goto(t, IF op[t] = "set" THEN "run" ELSE "write")
          /\ UNCHANGED <<value, op, arg, call, node, needsInit, needsCommit,
                         reply>>
  /\ UNCHANGED <<slot, type, data, retired, crashed, calls, history>>

(* Mutant: a value that is there is kept.                                  *)
WriteOnce(t) ==
  /\ pc[t] = "write"
  /\ data' = IF data[val[t]] \in Calls THEN data
             ELSE [data EXCEPT ![val[t]] = call[t]]
  /\ Reply(t, OK)
  /\ UNCHANGED <<slot, value, type, retired, crashed, calls, history>>

(* string_set of predis_arg_get, which is NULL for an argument that needs  *)
(* initialization; or hash_store, which leaves a field that is there.      *)
Write(t) ==
  /\ pc[t] = "write"
  /\ IF needsInit[t]
     THEN /\ crashed' = TRUE
          /\ UNCHANGED <<data, pc, locals>>
     ELSE /\ data' = IF op[t] = "set" \/ data[val[t]] = Empty
                     THEN [data EXCEPT ![val[t]] = call[t]] ELSE data
          /\ Reply(t, OK)
          /\ UNCHANGED crashed
  /\ UNCHANGED <<slot, value, type, retired, calls, history>>

-----------------------------------------------------------------------------
(* command_del, key by key                                                 *)

(* ht_del: HT_NOT_FOUND leaves cts as it is, uninitialized.                *)
Unlink(t) ==
  LET n == slot[arg[t]] IN
  /\ pc[t] = "unlink"
  /\ IF n = Null
     THEN /\ retired' = retired \cup {Garbage}
          /\ Goto(t, "deleted")
          /\ UNCHANGED <<slot, node>>
     ELSE /\ slot' = [slot EXCEPT ![arg[t]] = Null]
          /\ node' = [node EXCEPT ![t] = n]
          /\ Goto(t, "retire")
          /\ UNCHANGED retired
  /\ UNCHANGED <<value, type, data, crashed, calls, op, arg, call, val,
                 needsInit, needsCommit, reply, history>>

(* ht_del reads the value of the node it has unlinked; gc_free of both.    *)
Retire(t) ==
  /\ pc[t] = "retire"
  /\ retired' = retired \cup {value[node[t]]}
  /\ node' = [node EXCEPT ![t] = Null]
  /\ Goto(t, "deleted")
  /\ UNCHANGED <<slot, value, type, data, crashed, calls, op, arg, call, val,
                 needsInit, needsCommit, reply, history>>

DelReply(t) ==
  /\ pc[t] = "deleted"
  /\ Reply(t, OK)
  /\ UNCHANGED <<table, calls, history>>

-----------------------------------------------------------------------------
(* The runner has returned.                                                *)
Return(t) ==
  LET k == arg[t] IN
  /\ pc[t] = "reply"
  /\ Goto(t, "idle")
  /\ op' = [op EXCEPT ![t] = "none"]
  /\ call' = [call EXCEPT ![t] = Null]
  /\ reply' = [reply EXCEPT ![t] = Nil]
  /\ before' = [before EXCEPT ![t] = {}]
  /\ sure' = [sure EXCEPT ![t] = FALSE]
  /\ LET done == op[t] = "set" /\ reply[t] = OK
     IN /\ finished' = IF done THEN [finished EXCEPT ![k] = @ \cup {call[t]}]
                       ELSE finished
        /\ outdated' = IF done \/ op[t] = "del"
                       THEN [outdated EXCEPT ![k] = @ \cup before[t]]
                       ELSE outdated
        /\ present' = IF done /\ sure[t] THEN [present EXCEPT ![k] = TRUE]
                      ELSE present
  /\ UNCHANGED <<table, calls, arg, node, val, needsInit, needsCommit>>

-----------------------------------------------------------------------------
Resolve(t) == Reserve(t) \/ Occupied(t) \/ Spin(t) \/ Find(t) \/ Load(t)
Run(t) == Check(t) \/ Initialize(t) \/ TryCommit(t) \/ Write(t) \/ Read(t)
Delete(t) == Unlink(t) \/ Retire(t) \/ DelReply(t)

Work(t) == ~crashed /\ (Resolve(t) \/ Run(t) \/ Delete(t) \/ Return(t))

Next == \E t \in Threads : (~crashed /\ Begin(t)) \/ Work(t)

Spec == Init /\ [][Next]_vars

(* The operating system keeps scheduling every worker.                     *)
FairSpec == Spec /\ \A t \in Threads : WF_vars(Work(t))
-----------------------------------------------------------------------------
(* Properties                                                              *)

(* Every field keeps its type, and an argument that is worked on has a     *)
(* node and a value (data[i].ht_value, data[i].data in runner).            *)
TypeOK ==
  /\ slot \in [Keys -> Calls \cup {Null}]
  /\ value \in [Calls -> Calls \cup {Null}]
  /\ type \in [Calls -> {"none", "string", "hash"}]
  /\ data \in [Calls -> Calls \cup {Null, Empty}]
  /\ retired \subseteq Calls \cup {Null, Garbage}
  /\ crashed \in BOOLEAN /\ calls \in 0 .. MaxCalls
  /\ op \in [Threads -> Ops \cup {"none"}] /\ arg \in [Threads -> Keys]
  /\ call \in [Threads -> Calls \cup {Null}]
  /\ needsInit \in [Threads -> BOOLEAN] /\ needsCommit \in [Threads -> BOOLEAN]
  /\ reply \in [Threads -> Calls \cup {Nil, OK, Error}]
  /\ \A t \in Threads :
       /\ pc[t] \in {"spin", "load", "retire"} => node[t] \in Calls
       /\ pc[t] \in {"run", "init", "commit", "write", "read"} =>
            node[t] \in Calls /\ val[t] \in Calls

Creating(t) == needsCommit[t] /\ pc[t] \in {"run", "init", "commit"}

(* Whoever is about to commit a value is the only one, and the slot of its *)
(* node is still empty: the compare-and-exchange of predis_arg_try_commit  *)
(* never loses, and its results 1 and -1 (lib/commands.c:67-75) do not     *)
(* occur.                                                                  *)
OneCreator ==
  \A t \in Threads : Creating(t) =>
    /\ value[node[t]] = Null
    /\ \A u \in Threads \ {t} : Creating(u) => node[u] # node[t]

(* No command touches a value of another type: the checks of runner come   *)
(* before every use, and a value never changes its type.                   *)
TypeSafe ==
  \A t \in Threads : pc[t] \in {"run", "init", "commit", "write", "read"} =>
    type[val[t]] = TypeOf(op[t])

(* A value others can see has been initialized.                            *)
NoTornValue == \A n \in Calls : value[n] # Null => data[value[n]] # Null

(* GET never answers with bytes that a SET or DEL had replaced before it   *)
(* began.                                                                  *)
NoStaleRead ==
  \A t \in Threads : pc[t] = "reply" /\ op[t] = "get" =>
    reply[t] \notin before[t]

(* GET finds a key that some SET has stored, if no DEL of it runs at the   *)
(* time or began after that SET did.                                       *)
FoundWhenPresent ==
  \A t \in Threads : pc[t] = "reply" /\ op[t] = "get" /\ sure[t] =>
    reply[t] \in Calls

(* The worker waits for a value nobody will commit: the command that made  *)
(* the node is gone and has not initialized anything.                      *)
Abandoned(t) ==
  /\ pc[t] = "spin" /\ data[node[t]] = Null
  /\ \A u \in Threads : call[u] # node[t]

(* Every command returns, unless the server has crashed or the key was     *)
(* made by a SET that refused its arguments.                               *)
EveryCallReturns ==
  \A t \in Threads :
    pc[t] # "idle" ~> (pc[t] = "idle" \/ crashed \/ Abandoned(t))

(* GET is "fully functional" (README.md:19): a GET that has found a key    *)
(* finds a value in it.                                                    *)
GetFindsValue ==
  \A t \in Threads : pc[t] = "load" => value[node[t]] # Null
=============================================================================
