-------------------------------- MODULE Gc --------------------------------
(***************************************************************************)
(* Deferred reclamation (lib/gc.c) with its users: runner() and            *)
(* command_del of network_parser.c, and gc_thread, which calls gc_run.     *)
(*                                                                         *)
(* An address stands for a heap block: an object of the key table (a key's *)
(* node with its value; the code frees the two one after the other, through*)
(* an entry each) or a node of the free list, which is itself a hash table *)
(* from the pointer to be freed to its gc_free_list_elem.  Both tables are *)
(* atomic maps here.                                                       *)
(*                                                                         *)
(* Three defects of the code are part of the model.                        *)
(* - gc_run looks a working set's member up in the free list and gets the  *)
(*   address of the value slot, not the element (ht_find returns           *)
(*   &n->contents.value): the mark is written past the end of the node and *)
(*   the element keeps its old "used".  See CollectMark; what the write    *)
(*   damages is not modelled.                                              *)
(* - command_del gives its cts to gc_free whether or not ht_del has set it. *)
(*   See NotFound: when the pointer is no value that this DEL has unlinked,*)
(*   wild remembers it, and nothing is claimed of the blocks from there on.*)
(* - ht_next reads n->key before it tests n != NULL, so the walk reads     *)
(*   through NULL at its end.  See WalkEnd.                                *)
(***************************************************************************)
EXTENDS Integers, Sequences

CONSTANTS Users,     \* the threads that call gc_register_user
          Addrs,     \* heap addresses: how many blocks may be allocated
          Sets,      \* identities of working sets (see CommitSet)
          NoSet,     \* a NULL working_set
          NoAddr,    \* a NULL pointer
          MaxRuns    \* bound: how many times gc_run is called

ASSUME NoSetAssumption == NoSet \notin Sets
ASSUME NoAddrAssumption == NoAddr \notin Addrs
ASSUME MaxRunsAssumption == MaxRuns \in Nat

VARIABLES
  heap,        \* the allocated addresses
  table,       \* the objects reachable from the key table
  entries,     \* the free list: [pointer -> [used, node]]
  usedCtr,     \* gc_state.used_ctr
  users,       \* gc_state.users, as the sequence of its next pointers
  pending,     \* user->pending
  workingSet,  \* user->working_set without its tag
  tagged,      \* the tag bit of user->working_set
  dangling,    \* the sets given to free() that something still points to
  pc, refs,    \* each user: where it is, the objects it has pointers to
  cts,         \* each user: command_del's cts (NoAddr: nothing known is in it)
  used,        \* each user: fl_elem->used, read but not yet stored
  gpc,         \* where the collector is
  ctr,         \* its ctr
  todo,        \* the users still to be scanned
  scanned,     \* working_set: the set it has tagged
  victim,      \* elem->ptr of the entry just removed
  cursor,      \* n: the free list node the walk stands on
  wild         \* history: gc_free has been given an uninitialised pointer

objects == <<heap, table, entries, usedCtr>>
gcUsers == <<users, pending, workingSet, tagged, dangling>>
local   == <<pc, refs, cts, used, wild>>
scan    == <<ctr, todo, scanned, victim, cursor>>
vars    == <<objects, gcUsers, local, gpc, scan>>

Goto(u, label) == pc' = [pc EXCEPT ![u] = label]

(* The objects and list nodes a user has pointers to.                      *)
Held(u) == refs[u] \cup ({cts[u]} \ {NoAddr})

(* Working sets somebody still has a pointer to.                           *)
Reachable == {workingSet[u] : u \in Users} \cup {scanned}

Init ==
  /\ heap = {} /\ table = {} /\ usedCtr = 0
  /\ entries = << >>
  /\ users = <<>>
  /\ pending = [u \in Users |-> FALSE]
  /\ workingSet = [u \in Users |-> NoSet]
  /\ tagged = [u \in Users |-> FALSE]
  /\ dangling = {}
  /\ pc = [u \in Users |-> "new"]
  /\ refs = [u \in Users |-> {}]
  /\ cts = [u \in Users |-> NoAddr]
  /\ used = [u \in Users |-> 0]
  /\ gpc = "idle" /\ ctr = 0 /\ todo = <<>> /\ scanned = NoSet
  /\ victim = NoAddr /\ cursor = NoAddr
  /\ wild = FALSE

(* ht_store: the list with an entry for a pointer that has none.           *)
With(list, ptr, elem) ==
  [a \in DOMAIN list \cup {ptr} |-> IF a \in DOMAIN list THEN list[a] ELSE elem]

(* Mutation: an entry is stamped one collection too late.                  *)
AddEntryLate(list, ptr, stamp) ==
  \E n \in Addrs \ heap :
    /\ heap' = heap \cup {n}
    /\ entries' = With(list, ptr, [used |-> stamp + 1, node |-> n])

(* ht_store of ptr into a free list: an entry that is already there stays  *)
(* as it is, a new one takes a fresh node.                                 *)
AddEntry(list, ptr, stamp) ==
  IF ptr \in DOMAIN list
  THEN UNCHANGED heap /\ entries' = list
  ELSE \E n \in Addrs \ heap :
         /\ heap' = heap \cup {n}
         /\ entries' = With(list, ptr, [used |-> stamp, node |-> n])

(* ht_del: the list without an entry.                                      *)
Without(list, ptr) == [a \in DOMAIN list \ {ptr} |-> list[a]]

-----------------------------------------------------------------------------
(* Mutations: what a plausible mistake would make of an action below.  No  *)
(* specification uses them.                                                *)

(* gc_clear frees the set it has read, tagged or not.                      *)
ClearAndFree(u) ==
  /\ pc[u] = "run"
  /\ workingSet' = [workingSet EXCEPT ![u] = NoSet]
  /\ tagged' = [tagged EXCEPT ![u] = FALSE]
  /\ dangling' = dangling \cup {workingSet[u]}
  /\ Goto(u, "reply")
  /\ UNCHANGED <<objects, users, pending, refs, cts, used, wild, gpc, scan>>

(* The object is freed by a command whose CAS on p->next has failed.       *)
UnlinkUnchecked(u) ==
  /\ pc[u] = "del"
  /\ \E o \in table : cts' = [cts EXCEPT ![u] = o]
  /\ Goto(u, "stamp")
  /\ UNCHANGED <<objects, gcUsers, refs, used, wild, gpc, scan>>

(* gc_run puts the working set back with a store.                          *)
RestoreBlindly ==
  /\ gpc = "restore"
  /\ workingSet' = [workingSet EXCEPT ![Head(todo)] = scanned]
  /\ tagged' = [tagged EXCEPT ![Head(todo)] = FALSE]
  /\ todo' = Tail(todo)
  /\ scanned' = NoSet
  /\ gpc' = "wait"
  /\ UNCHANGED <<objects, users, pending, dangling, local, ctr, victim, cursor>>

(* An entry of the collection before is taken for old enough.              *)
RemoveTooSoon ==
  /\ gpc = "walk"
  /\ \E a \in DOMAIN entries :
       /\ entries[a].used <= ctr
       /\ victim' = a
       /\ cursor' = entries[a].node
       /\ AddEntry(Without(entries, a), entries[a].node, usedCtr)
  /\ gpc' = "free"
  /\ UNCHANGED <<table, usedCtr, gcUsers, local, ctr, todo, scanned>>

(* ht_del frees the node at once.                                          *)
RemoveAndFreeNode ==
  /\ gpc = "walk"
  /\ \E a \in DOMAIN entries :
       /\ entries[a].used < ctr
       /\ victim' = a
       /\ cursor' = entries[a].node
       /\ heap' = heap \ {entries[a].node}
       /\ entries' = Without(entries, a)
  /\ gpc' = "free"
  /\ UNCHANGED <<table, usedCtr, gcUsers, local, ctr, todo, scanned>>

-----------------------------------------------------------------------------
(* gc_register_user                                                        *)

RegisterUser(u) ==
  /\ pc[u] = "new"
  /\ users' = <<u>> \o users
  /\ Goto(u, "idle")
  /\ UNCHANGED <<objects, pending, workingSet, tagged, dangling,
                 refs, cts, used, wild, gpc, scan>>

(* gc_lock, by runner() before it resolves its arguments ("fetch") and by  *)
(* command_del ("del").                                                    *)
Lock(u) ==
  /\ pc[u] = "idle"
  /\ pending' = [pending EXCEPT ![u] = TRUE]
  /\ \E next \in {"fetch", "del"} : Goto(u, next)
  /\ UNCHANGED <<objects, users, workingSet, tagged, dangling,
                 refs, cts, used, wild, gpc, scan>>

-----------------------------------------------------------------------------
(* runner(): resolve the arguments, commit the working set, run, clear.    *)

(* ht_find or ht_store returns an object that is in the table.             *)
Fetch(u) ==
  /\ pc[u] = "fetch"
  /\ \E o \in table \ refs[u] : refs' = [refs EXCEPT ![u] = @ \cup {o}]
  /\ UNCHANGED <<objects, gcUsers, pc, cts, used, wild, gpc, scan>>

(* ht_store makes a new object.                                            *)
Create(u) ==
  /\ pc[u] = "fetch"
  /\ \E o \in Addrs \ heap :
       /\ heap' = heap \cup {o}
       /\ table' = table \cup {o}
       /\ refs' = [refs EXCEPT ![u] = @ \cup {o}]
  /\ UNCHANGED <<entries, usedCtr, gcUsers, pc, cts, used, wild, gpc, scan>>

(* gc_commit, first store.  The set is a fresh block: an identity nobody   *)
(* has a pointer to (a set that has leaked is not told from a new one).    *)
CommitSet(u) ==
  /\ pc[u] = "fetch"
  /\ \E s \in Sets \ Reachable :
       /\ workingSet' = [workingSet EXCEPT ![u] = s]
       /\ dangling' = dangling \ {s}
  /\ tagged' = [tagged EXCEPT ![u] = FALSE]
  /\ Goto(u, "unpend")
  /\ UNCHANGED <<objects, users, pending, refs, cts, used, wild, gpc, scan>>

(* gc_commit, second store.                                                *)
Unpend(u) ==
  /\ pc[u] = "unpend"
  /\ pending' = [pending EXCEPT ![u] = FALSE]
  /\ Goto(u, "run")
  /\ UNCHANGED <<objects, users, workingSet, tagged, dangling,
                 refs, cts, used, wild, gpc, scan>>

(* gc_clear: the CAS to NULL, after which it frees usr->working_set, read  *)
(* again.  A tagged set is left to the collector.                          *)
Clear(u) ==
  /\ pc[u] = "run"
  /\ workingSet' = [workingSet EXCEPT ![u] = NoSet]
  /\ tagged' = [tagged EXCEPT ![u] = FALSE]
  /\ Goto(u, IF tagged[u] THEN "reply" ELSE "clear")
  /\ UNCHANGED <<objects, users, pending, dangling, refs, cts,
                 used, wild, gpc, scan>>

ClearFree(u) ==
  /\ pc[u] = "clear"
  /\ dangling' = dangling \cup ({workingSet[u]} \ {NoSet})
  /\ Goto(u, "reply")
  /\ UNCHANGED <<objects, users, pending, workingSet, tagged, refs,
                 cts, used, wild, gpc, scan>>

(* Back in onestep_thread: the reply, which points into a value the        *)
(* command has read (replyBulkString does not copy), is written out.       *)
WriteReply(u) ==
  /\ pc[u] = "reply"
  /\ refs' = [refs EXCEPT ![u] = {}]
  /\ Goto(u, "idle")
  /\ UNCHANGED <<objects, gcUsers, cts, used, wild, gpc, scan>>

-----------------------------------------------------------------------------
(* command_del, key by key: ht_del, then gc_free of cts.                   *)

(* ht_del finds the key, unlinks its object and stores it in cts.          *)
Unlink(u) ==
  /\ pc[u] = "del"
  /\ \E o \in table :
       /\ table' = table \ {o}
       /\ cts' = [cts EXCEPT ![u] = o]
  /\ Goto(u, "stamp")
  /\ UNCHANGED <<heap, entries, usedCtr, gcUsers, refs, used, wild, gpc, scan>>

(* ht_del does not find the key and leaves cts alone, which this turn of   *)
(* the loop has not initialised: it holds what the turn before left in its *)
(* place, or anything (an address that is not allocated stands for what is *)
(* no block at all, NULL included).                                        *)
NotFound(u) ==
  /\ pc[u] = "del"
  /\ \E p \in Addrs :
       /\ cts' = [cts EXCEPT ![u] = p]
       /\ wild' = (wild \/ p # cts[u])
  /\ Goto(u, "stamp")
  /\ UNCHANGED <<objects, gcUsers, refs, used, gpc, scan>>

(* gc_free: fl_elem->used = gc_state.used_ctr.                             *)
FreeStamp(u) ==
  /\ pc[u] = "stamp"
  /\ used' = [used EXCEPT ![u] = usedCtr]
  /\ Goto(u, "search")
  /\ UNCHANGED <<objects, gcUsers, refs, cts, wild, gpc, scan>>

(* gc_free: ht_store walks the free list and stands on one of its nodes.   *)
FreeSearch(u) ==
  /\ pc[u] = "search"
  /\ \E a \in DOMAIN entries :
       refs' = [refs EXCEPT ![u] = @ \cup {entries[a].node}]
  /\ Goto(u, "list")
  /\ UNCHANGED <<objects, gcUsers, cts, used, wild, gpc, scan>>

(* gc_free: ht_store adds the entry, or finds the pointer on the list and  *)
(* leaves its entry alone (the new element leaks).                         *)
FreeList(u) ==
  /\ pc[u] \in {"search", "list"}
  /\ AddEntry(entries, cts[u], used[u])
  /\ used' = [used EXCEPT ![u] = 0]
  /\ refs' = [refs EXCEPT ![u] = {}]
  /\ Goto(u, "del")
  /\ UNCHANGED <<table, usedCtr, gcUsers, cts, wild, gpc, scan>>

(* gc_commit(gc_usr, NULL), both stores: the first changes nothing.        *)
DelCommit(u) ==
  /\ pc[u] = "del"
  /\ workingSet' = [workingSet EXCEPT ![u] = NoSet]
  /\ tagged' = [tagged EXCEPT ![u] = FALSE]
  /\ pending' = [pending EXCEPT ![u] = FALSE]
  /\ cts' = [cts EXCEPT ![u] = NoAddr]
  /\ Goto(u, "idle")
  /\ UNCHANGED <<objects, users, dangling, refs, used, wild, gpc, scan>>

-----------------------------------------------------------------------------
(* gc_run                                                                  *)

(* Load gc_state.users: users that register later are not scanned.         *)
CollectStart ==
  /\ gpc = "idle" /\ usedCtr < MaxRuns
  /\ todo' = users
  /\ gpc' = "bump"
  /\ UNCHANGED <<objects, gcUsers, local, ctr, scanned, victim, cursor>>

CollectBump ==
  /\ gpc = "bump"
  /\ ctr' = usedCtr
  /\ usedCtr' = usedCtr + 1
  /\ gpc' = "wait"
  /\ UNCHANGED <<heap, table, entries, gcUsers, local,
                 todo, scanned, victim, cursor>>

(* Spin until the user is not pending.                                     *)
CollectWait ==
  /\ gpc = "wait" /\ todo # <<>> /\ ~pending[Head(todo)]
  /\ gpc' = "tag"
  /\ UNCHANGED <<objects, gcUsers, local, scan>>

(* Tag the working set, if there is one.                                   *)
CollectTag ==
  /\ gpc = "tag"
  /\ LET u == Head(todo) IN
       IF workingSet[u] = NoSet
       THEN /\ todo' = Tail(todo)
            /\ gpc' = "wait"
            /\ UNCHANGED <<tagged, scanned>>
       ELSE /\ tagged' = [tagged EXCEPT ![u] = TRUE]
            /\ scanned' = workingSet[u]
            /\ gpc' = "mark"
            /\ UNCHANGED todo
  /\ UNCHANGED <<objects, users, pending, workingSet, dangling,
                 local, ctr, victim, cursor>>

(* Look every member up in the free list; the mark of one that is there    *)
(* is lost.                                                                *)
CollectMark ==
  /\ gpc = "mark"
  /\ gpc' = "restore"
  /\ UNCHANGED <<objects, gcUsers, local, scan>>

(* Take the tag off, or free the set if its user has cleared it.           *)
CollectRestore ==
  /\ gpc = "restore"
  /\ LET u == Head(todo) IN
       IF workingSet[u] = scanned /\ tagged[u]
       THEN tagged' = [tagged EXCEPT ![u] = FALSE] /\ UNCHANGED dangling
       ELSE /\ dangling' = dangling \cup ({scanned} \cap
                                         {workingSet[v] : v \in Users})
            /\ UNCHANGED tagged
  /\ todo' = Tail(todo)
  /\ scanned' = NoSet
  /\ gpc' = "wait"
  /\ UNCHANGED <<objects, users, pending, workingSet, local,
                 ctr, victim, cursor>>

CollectWalk ==
  /\ gpc = "wait" /\ todo = <<>>
  /\ gpc' = "walk"
  /\ UNCHANGED <<objects, gcUsers, local, scan>>

(* ht_del removes the entry of an element that is old enough, and puts the *)
(* node of the free list it was in on the free list.  The order of the     *)
(* walk is that of the hashes: any.                                        *)
WalkRemove ==
  /\ gpc = "walk"
  /\ \E a \in DOMAIN entries :
       /\ entries[a].used < ctr
       /\ victim' = a
       /\ cursor' = entries[a].node
       /\ AddEntry(Without(entries, a), entries[a].node, usedCtr)
  /\ gpc' = "free"
  /\ UNCHANGED <<table, usedCtr, gcUsers, local, ctr, todo, scanned>>

(* elem->free_func(elem->ptr).  A pointer to no allocated block makes it   *)
(* undefined: the process stops there.                                     *)
WalkFree ==
  /\ gpc = "free"
  /\ heap' = heap \ {victim}
  /\ victim' = NoAddr
  /\ gpc' = IF victim \in heap THEN "walk" ELSE "fault"
  /\ UNCHANGED <<table, entries, usedCtr, gcUsers, local,
                 ctr, todo, scanned, cursor>>

(* ht_next at the end of the list.  The read of n->key through NULL is     *)
(* undefined: it traps ("fault"), or the compiler has swapped the two      *)
(* tests and gc_run returns.                                               *)
WalkEnd ==
  /\ gpc = "walk"
  /\ \A a \in DOMAIN entries : entries[a].used >= ctr
  /\ cursor' = NoAddr
  /\ \/ gpc' = "fault"
     \/ gpc' = "idle"
  /\ UNCHANGED <<objects, gcUsers, local, ctr, todo, scanned, victim>>

-----------------------------------------------------------------------------
UserStep(u) ==
  /\ gpc # "fault"
  /\ \/ RegisterUser(u) \/ Lock(u) \/ Fetch(u) \/ Create(u) \/ CommitSet(u)
     \/ Unpend(u) \/ Clear(u) \/ ClearFree(u) \/ WriteReply(u) \/ Unlink(u)
     \/ NotFound(u) \/ FreeStamp(u) \/ FreeSearch(u) \/ FreeList(u) \/ DelCommit(u)

Collect == \/ CollectStart \/ CollectBump \/ CollectWait \/ CollectTag
           \/ CollectMark \/ CollectRestore \/ CollectWalk \/ WalkRemove
           \/ WalkFree \/ WalkEnd

Next == (\E u \in Users : UserStep(u)) \/ Collect

Spec == Init /\ [][Next]_vars

-----------------------------------------------------------------------------
(* Every field keeps its type.                                             *)
TypeOK ==
  /\ heap \subseteq Addrs /\ table \subseteq Addrs
  /\ DOMAIN entries \subseteq Addrs
  /\ \A a \in DOMAIN entries :
       entries[a] \in [used : 0 .. MaxRuns, node : Addrs]
  /\ usedCtr \in 0 .. MaxRuns /\ ctr \in 0 .. MaxRuns
  /\ users \in Seq(Users) /\ todo \in Seq(Users)
  /\ pending \in [Users -> BOOLEAN] /\ tagged \in [Users -> BOOLEAN]
  /\ workingSet \in [Users -> Sets \cup {NoSet}]
  /\ dangling \subseteq Sets
  /\ pc \in [Users -> {"new", "idle", "fetch", "unpend", "run", "clear",
                       "reply", "del", "stamp", "search", "list"}]
  /\ refs \in [Users -> SUBSET Addrs]
  /\ cts \in [Users -> Addrs \cup {NoAddr}]
  /\ used \in [Users -> 0 .. MaxRuns]
  /\ gpc \in {"idle", "bump", "wait", "tag", "mark", "restore", "walk",
              "free", "fault"}
  /\ scanned \in Sets \cup {NoSet}
  /\ {victim, cursor} \subseteq Addrs \cup {NoAddr}
  /\ wild \in BOOLEAN

(* What a pending user points at (keys it is resolving, an object it is    *)
(* deleting or has just deleted, the node of the free list it stands on)   *)
(* has not been freed: gc_run frees only what was stamped two bumps of     *)
(* used_ctr ago, and it has waited for every user since, those that        *)
(* registered after it loaded the list excepted (gc_lock, gc_free, gc_run).*)
(* Once an uninitialised pointer is on the free list it frees anything.    *)
PendingProtected ==
  wild \/ \A u \in Users : pending[u] => Held(u) \subseteq heap

(* The free list holds allocated blocks that the key table does not reach  *)
(* (the first invariant of gc.h), each in a node of its own, so that none  *)
(* is freed twice: also when DEL, for a key that is missing, gives gc_free *)
(* the value of an earlier key once more.  It is so until a missing key    *)
(* makes it give gc_free anything else (wild): that breaks the invariant.  *)
FreeListSound ==
  \/ wild
  \/ /\ DOMAIN entries \subseteq heap \ table
     /\ \A a, b \in DOMAIN entries :
          /\ entries[a].node \in heap \ (table \cup DOMAIN entries)
          /\ entries[a].node = entries[b].node => a = b
     /\ gpc = "free" => victim \in heap \ (table \cup DOMAIN entries)

(* The node gc_run's walk stands on has not been freed when ht_next reads  *)
(* its next field, though ht_del has put it on the very list being walked  *)
(* (an uninitialised pointer on the free list may have freed it: wild).    *)
WalkerOnLiveNode == wild \/ (cursor # NoAddr => cursor \in heap)

(* The set gc_run looks through, between its two CASes on working_set, has *)
(* been freed by nobody: a user that clears it meanwhile leaves it alone.  *)
ScannedIsAllocated == scanned # NoSet => scanned \notin dangling

(* A user that runs no command has no working set, tagged or not: gc_run   *)
(* never puts back a set that its user has cleared.                        *)
NoStaleSet ==
  \A u \in Users :
    workingSet[u] # NoSet \/ tagged[u] => pc[u] \in {"unpend", "run"}

(* What a user that runs a command points at, which is what its working    *)
(* set holds, has not been freed (gc.h: the members of a working set that  *)
(* are on the free list "will get returned to the main free list"), no     *)
(* uninitialised pointer on the free list needed.                          *)
CommittedProtected ==
  wild \/ \A u \in Users : pc[u] = "run" => refs[u] \subseteq heap

(* What a reply not yet written points into has not been freed (gc.h: "the *)
(* only things that can still have references are" threads that run a      *)
(* command or fetch its keys), no uninitialised pointer needed either.     *)
ReplyProtected ==
  wild \/ \A u \in Users : pc[u] = "reply" => refs[u] \subseteq heap
=============================================================================
