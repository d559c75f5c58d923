---------------------------- MODULE CommandTable ----------------------------
(***************************************************************************)
(* The tables of types and commands (lib/type_ht.c, lib/command_ht.c), as  *)
(* main and the modules it loads fill them, and the walk of runner() over  *)
(* the format string of a command (network_parser.c), which says for each  *)
(* argument whether it is a key to read or write or a plain string.        *)
(*                                                                         *)
(* A format string is the sequence of its marks: R r C W M for a key (all  *)
(* the keys of a command have one type), S for a string, | around the part *)
(* that is repeated, ? for optional arguments.  What a lookup of a key may *)
(* answer, and what is done with it, is in Keyspace.                       *)
(***************************************************************************)
EXTENDS Integers, Sequences, SequencesExt, FiniteSetsExt

CONSTANTS Size,     \* of both tables
          Home,     \* the hash of each name, modulo Size
          Startup,  \* what is stored before the first request, in order
          Requests, \* the names clients send; `load` itself, which is stored
                    \* under five bytes, with its NUL, is not among them
          MaxArgs   \* bound: the arguments of a request after its name

KeyMarks == {"R", "r", "C", "W", "M"}
Marks    == KeyMarks \cup {"S", "|", "?"}
Bars(format) == {i \in DOMAIN format : format[i] = "|"}

(* What main and the modules register: types, commands that look their     *)
(* arguments up themselves, and commands with a format string, which is    *)
(* not empty (of an empty one the table would keep a dead address).        *)
Registrations ==
  [kind : {"type"}, name : DOMAIN Home]
    \cup [kind : {"meta"}, name : DOMAIN Home, format : {<<>>}]
    \cup [kind : {"normal"}, name : DOMAIN Home, type : DOMAIN Home \cup {""},
          format : Seq(Marks) \ {<<>>}]

ASSUME SizeAssumption == Size \in Nat \ {0} /\ MaxArgs \in Nat
ASSUME HomeAssumption ==
  Requests \subseteq DOMAIN Home /\ \A n \in DOMAIN Home : Home[n] \in 0 .. Size - 1

ASSUME StartupAssumption == Startup \in Seq(Registrations)

(* A command that takes keys names a type; bars come in pairs, around at   *)
(* least one mark (around none, runner() would never come out).            *)
ASSUME FormatAssumption ==
  \A k \in DOMAIN Startup : Startup[k].kind = "normal" =>
    LET bars == Bars(Startup[k].format) IN
    /\ ToSet(Startup[k].format) \cap KeyMarks # {} => Startup[k].type # ""
    /\ Cardinality(bars) # 1
    /\ Cardinality(bars) = 2 => Max(bars) - Min(bars) > 1

(* Fewer names than slots hash to any end of a table, so that probing does *)
(* not pass its last slot.                                                 *)
ASSUME RoomAssumption ==
  \A h \in 0 .. Size - 1, ofType \in BOOLEAN :
    Cardinality({k \in DOMAIN Startup : /\ (Startup[k].kind = "type") = ofType
                                        /\ Home[Startup[k].name] >= h}) < Size - h

VARIABLES
  loaded,         \* how many of Startup are done
  types, commands,  \* slot -> entry, for the slots in use
  pc,             \* of the worker: "start", "idle", "fetch", "resolve", "run"; or
                  \* the end of the request; or "astray": outside of an array
  name, argc,     \* the request: its name, and how many arguments follow it
  entry,          \* what command_ht_fetch found
  node,           \* fstring_index
  access          \* how each argument so far was accessed

request == <<name, argc>>
walk    == <<entry, node, access>>
vars    == <<loaded, types, commands, pc, request, walk>>

(* An entry of a table; marks and target are the parsed format string.     *)
Entry(n, meta, marks, target) ==
  [name |-> n, meta |-> meta, marks |-> marks, target |-> target]
Nothing == Entry("", FALSE, <<>>, 0)

Init ==
  /\ loaded = 0 /\ types = <<>> /\ commands = <<>>
  /\ pc = "start"
  /\ name = "" /\ argc = 0
  /\ entry = Nothing /\ node = 0 /\ access = <<>>

-----------------------------------------------------------------------------
(* The tables.  index + 1 % size is index + 1: probing goes up from the    *)
(* home slot and does not wrap around.                                     *)

Free(table, n) == {i \in Home[n] .. Size - 1 : i \notin DOMAIN table}

(* A fetch stops at the name or at a slot that is not in use.              *)
Stops(table, n) ==
  {i \in Home[n] .. Size - 1 : i \notin DOMAIN table \/ table[i].name = n}
Found(table, n) == Stops(table, n) # {} /\ Min(Stops(table, n)) \in DOMAIN table
Fetched(table, n) == table[Min(Stops(table, n))]

Put(table, slot, e) ==
  [i \in DOMAIN table \cup {slot} |-> IF i = slot THEN e ELSE table[i]]

(* Mutant of Store: what is in the home slot is overwritten.               *)
StoreAtHome(table, e) == Put(table, Home[e.name], e)

Store(table, e) == Put(table, Min(Free(table, e.name)), e)

-----------------------------------------------------------------------------
(* parse_format_string.                                                    *)

(* It refuses optional arguments altogether (-4: the end of the number is  *)
(* compared with the wrong place), a third bar, and a type it cannot find. *)
Accepted(format, type) ==
  /\ "?" \notin ToSet(format)
  /\ Cardinality(Bars(format)) <= 2
  /\ ToSet(format) \cap KeyMarks # {} => Found(types, type)

(* The first bar becomes the target of the second, which becomes a node.   *)
(* Nodes are counted from 0.                                               *)
Parsed(n, format) ==
  IF Bars(format) = {} THEN Entry(n, FALSE, format, 0)
  ELSE LET bar == Min(Bars(format)) IN Entry(n, FALSE, RemoveAt(format, bar), bar - 1)

(* The next call of main or predis_init.  Nobody looks at the result of    *)
(* register_command: a refused command is just missing.                    *)
Load ==
  /\ pc = "start" /\ loaded < Len(Startup)
  /\ loaded' = loaded + 1
  /\ LET s == Startup[loaded + 1] IN
     \/ /\ s.kind = "type" /\ Free(types, s.name) # {}
        /\ types' = Store(types, Entry(s.name, FALSE, <<>>, 0))
        /\ UNCHANGED <<commands, pc>>
     \/ /\ s.kind = "meta" /\ Free(commands, s.name) # {}
        /\ commands' = Store(commands, Entry(s.name, TRUE, <<>>, 0))
        /\ UNCHANGED <<types, pc>>
     \/ /\ s.kind = "normal" /\ Free(commands, s.name) # {}
        /\ commands' = IF Accepted(s.format, s.type)
                       THEN Store(commands, Parsed(s.name, s.format)) ELSE commands
        /\ UNCHANGED <<types, pc>>
     \/ /\ Free(IF s.kind = "type" THEN types ELSE commands, s.name) = {}
        /\ pc' = "astray"
        /\ UNCHANGED <<types, commands>>
  /\ UNCHANGED <<request, walk>>

Serve ==
  /\ pc = "start" /\ loaded = Len(Startup)
  /\ pc' = "idle"
  /\ UNCHANGED <<loaded, types, commands, request, walk>>

-----------------------------------------------------------------------------
(* runner()                                                                *)

Request ==
  /\ pc = "idle"
  /\ name' \in Requests
  /\ argc' \in 0 .. MaxArgs
  /\ entry' = Nothing /\ node' = 0 /\ access' = <<>>
  /\ pc' = "fetch"
  /\ UNCHANGED <<loaded, types, commands>>

(* command_ht_fetch, and the check of the number of arguments, which       *)
(* counts the jump as one.                                                 *)
Fetch ==
  /\ pc = "fetch"
  /\ IF Found(commands, name)
     THEN /\ entry' = Fetched(commands, name)
          /\ pc' = IF entry'.meta THEN "run"
                   ELSE IF Len(entry'.marks) > argc THEN "refused" ELSE "resolve"
     ELSE /\ pc' = IF Stops(commands, name) = {} THEN "astray" ELSE "unknown"
          /\ UNCHANGED entry
  /\ UNCHANGED <<loaded, types, commands, request, node, access>>

Arg == Len(access)                   \* i, counted from 0
Nodes == Len(entry.marks)            \* fstring->length
Mark == entry.marks[node + 1]

(* Only arguments up to number fstring->length are looked up in the format *)
(* string; the test should be >=.                                          *)
Beyond == Arg > Nodes

(* Mutants of AfterJump: the target is not made one less before the loop   *)
(* adds one; it is made two less.                                          *)
JumpPast == IF argc - Arg > Nodes - 1 - node THEN entry.target + 1 ELSE node + 1
JumpBefore == IF argc - Arg > Nodes - 1 - node THEN entry.target - 2 ELSE node + 1

(* Back to the repeated part if more arguments are left than nodes.        *)
AfterJump == IF argc - Arg > Nodes - 1 - node THEN entry.target ELSE node + 1

(* One iteration of the loop over the arguments.  A key may be missing or  *)
(* have the wrong type; an optional one that is found is read through a    *)
(* NULL pointer; C and M are refused.                                      *)
Resolve ==
  /\ pc = "resolve" /\ Arg < argc
  /\ UNCHANGED <<loaded, types, commands, request, entry>>
  /\ \/ /\ ~Beyond /\ node >= Nodes
        /\ pc' = "astray"
        /\ UNCHANGED <<node, access>>
     \/ /\ ~Beyond /\ node < Nodes /\ Mark = "|"
        /\ node' = AfterJump
        /\ UNCHANGED <<pc, access>>
     \/ /\ Beyond \/ (node < Nodes /\ Mark \in {"S", "R", "r", "W"})
        /\ access' = Append(access, IF Beyond THEN "S" ELSE Mark)
        /\ node' = node + 1
        /\ UNCHANGED pc
     \/ /\ ~Beyond /\ node < Nodes /\ Mark \in {"R", "W", "C", "M"}
        /\ pc' = "refused"
        /\ UNCHANGED <<node, access>>
     \/ /\ ~Beyond /\ node < Nodes /\ Mark = "r"
        /\ pc' = "crashed"
        /\ UNCHANGED <<node, access>>

Resolved ==
  /\ pc = "resolve" /\ Arg >= argc
  /\ pc' = "run"
  /\ UNCHANGED <<loaded, types, commands, request, walk>>

(* The command runs, or the error is replied.                              *)
Finish ==
  /\ pc \in {"run", "refused", "unknown"}
  /\ pc' = "idle"
  /\ name' = "" /\ argc' = 0
  /\ entry' = Nothing /\ node' = 0 /\ access' = <<>>
  /\ UNCHANGED <<loaded, types, commands>>

Handle == Fetch \/ Resolve \/ Resolved \/ Finish

Next == Load \/ Serve \/ Request \/ Handle

Spec == Init /\ [][Next]_vars /\ WF_vars(Load \/ Serve) /\ WF_vars(Handle)

-----------------------------------------------------------------------------
(* Every variable keeps its type: the walk never leaves the format string  *)
(* at its front, nor goes on behind the last argument.                     *)
TypeOK ==
  /\ loaded \in 0 .. Len(Startup)
  /\ \A table \in {types, commands} :
       DOMAIN table \subseteq 0 .. Size - 1 /\ \A i \in DOMAIN table : Home[table[i].name] <= i
  /\ pc \in {"start", "idle", "fetch", "resolve", "run", "refused", "unknown",
             "astray", "crashed"}
  /\ argc \in 0 .. MaxArgs
  /\ node \in Nat /\ Len(access) <= argc
  /\ access \in Seq({"S", "R", "r", "W"})

(* A registration that parse_format_string should take: no optional        *)
(* arguments, at most two bars, and the type of its keys, if it has any,   *)
(* has been registered before.                                             *)
Legal(k) ==
  LET s == Startup[k] IN
  s.kind = "normal" =>
    /\ "?" \notin ToSet(s.format) /\ Cardinality(Bars(s.format)) <= 2
    /\ ToSet(s.format) \cap KeyMarks # {} =>
         \E i \in 1 .. k - 1 : Startup[i].kind = "type" /\ Startup[i].name = s.type

Registered(n) ==
  {k \in DOMAIN Startup :
     Startup[k].name = n /\ Startup[k].kind # "type" /\ Legal(k)}

(* The repeated part of a format string, and what is behind it.            *)
Round(format) == Max(Bars(format)) - Min(Bars(format)) - 1
Rest(format)  == Len(format) - Max(Bars(format))

(* n arguments are as many as some number of repetitions takes.            *)
Fits(format, n) ==
  Bars(format) # {} =>
    (n - (Min(Bars(format)) - 1) - Rest(format)) % Round(format) = 0

(* The mark of argument j of n, by what lib/commands.c:16 says of a        *)
(* string, "a|foobar|b foobar is looped".                                  *)
Meant(format, j, n) ==
  IF Bars(format) = {} THEN format[j]
  ELSE LET first == Min(Bars(format))
       IN  IF j < first THEN format[j]
           ELSE IF j > n - Rest(format) THEN format[Len(format) - n + j]
           ELSE format[first + 1 + ((j - first) % Round(format))]

(* A request finds the command that was registered under its name, also    *)
(* when hashes collide: the first one, if there are several.               *)
CommandFound ==
  /\ pc = "unknown" => Registered(name) = {}
  /\ pc \in {"run", "refused", "resolve", "astray", "crashed"} =>
       /\ Registered(name) # {}
       /\ entry.meta = (Startup[Min(Registered(name))].kind = "meta")

(* Each argument is accessed as the format string means it, for the        *)
(* arguments that are looked up in it; and the runner leaves the format    *)
(* string only for a request with more arguments than a format string      *)
(* without a repeated part has.                                            *)
MarksFollowed ==
  pc \in {"run", "refused", "resolve", "astray", "crashed"} =>
    LET format == Startup[Min(Registered(name))].format IN
    /\ Fits(format, argc) =>
         \A j \in 1 .. Len(access) :
           j <= Nodes + (IF Bars(format) = {} THEN 0 ELSE 1)
             => access[j] = Meant(format, j, argc)
    /\ pc = "astray" => Bars(format) = {} /\ argc > Len(format)

(* Requests find their command, and its arguments are taken as its format  *)
(* string says.                                                            *)
FormatFollowed == CommandFound /\ MarksFollowed

(* The walk over a format string ends, jumps included.                     *)
RequestsEnd == (pc = "fetch") ~> (pc \in {"idle", "astray", "crashed"})
=============================================================================
