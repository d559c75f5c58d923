----------------------------- MODULE HashTable -----------------------------
(***************************************************************************)
(* The split-ordered hash table (lib/hashtable.c): one list of nodes,      *)
(* sorted by hash, in which every bucket that is in use has a sentinel to  *)
(* start from.  Threads store, find and delete keys; each access to a      *)
(* shared field is a step (two reads of fields that only grow are one).    *)
(*                                                                         *)
(* A hash has Width bits instead of 32 and is given with the key.  A node  *)
(* is its number in allocation order; it is never allocated again, so what *)
(* this module shows does not depend on when gc.c frees a node.  The slot  *)
(* buckets[b][offset] is number offset for b = 0, 2^b + offset for others. *)
(***************************************************************************)
EXTENDS Integers, FiniteSetsExt

CONSTANTS Threads,    \* the callers
          Keys,       \* the keys they use
          Hash,       \* ht_hash of each key
          Width,      \* the bits of a hash
          Preloaded,  \* the keys stored one by one before the threads start
          Ops,        \* the calls the threads make
          NoKey,      \* the NULL key of a sentinel
          MaxBitlen,  \* bound: the table is not resized beyond this
          MaxNodes,   \* bound: the nodes that may be allocated
          MaxCalls    \* bound: the calls made

MaxHash == 2^Width - 1

(* Hashes 0 and MaxHash are left out: ht_store asserts that a hash is not  *)
(* 0, and a search for the last one runs off the end of the list.          *)
ASSUME HashAssumption == Hash \in [Keys -> 1 .. MaxHash - 1]

(* The table is resized by the store that follows the third one.           *)
ASSUME PreloadAssumption ==
  /\ Preloaded \subseteq Keys
  /\ IsFiniteSet(Preloaded) /\ Cardinality(Preloaded) <= 3
  /\ \A j, k \in Preloaded : Hash[j] = Hash[k] => j = k

ASSUME OpsAssumption == Ops \subseteq {"store", "find", "del"}
ASSUME KeyAssumption == NoKey \notin Keys
ASSUME WidthAssumption == Width \in Nat /\ Width >= 2
ASSUME BoundsAssumption ==
  /\ MaxBitlen \in 1 .. Width /\ MaxCalls \in Nat
  /\ MaxNodes \in Nat /\ 3 + Cardinality(Preloaded) <= MaxNodes

VARIABLES
  allocated,       \* how many nodes have been allocated
  next, key, hash, \* the fields of each node
  buckets,         \* the slots
  arrays,          \* the b such that buckets[b] # NULL
  bitlen, bitlenInternal, elementCount,
  collected,       \* the nodes ht_del has given to gc_free
  calls,           \* how many calls have been made
  pc, op, arg,     \* each thread: where it is, in which call, on which key
  start,           \* op, or sentinel: the node it starts from
  prev, cur,       \* p and n, or prev and next in ht_get_sentinel
  fresh,           \* new_node, or nnode in ht_get_sentinel
  word,            \* bitlen in ht_resize, the slot in ht_get_sentinel, the
                   \* value of n->next in ht_del
  stored,          \* history: the keys ht_store has linked
  sure             \* history: arg was in stored when the call started

nodes  == <<allocated, next, key, hash>>
index  == <<buckets, arrays, bitlen, bitlenInternal>>
call   == <<op, arg, sure>>
search == <<start, prev, cur, fresh, word>>
vars   == <<nodes, index, elementCount, collected, calls, stored,
            pc, call, search>>

Null  == 0
Nodes == 1 .. MaxNodes
First == 1              \* the three nodes of ht_init: the sentinels of hash
Half  == 2              \* 0 and of hash 2^(Width - 1), and the end
End   == 3

Goto(t, label) == pc' = [pc EXCEPT ![t] = label]

-----------------------------------------------------------------------------
(* ht_reverse_bits, of the lowest w bits: the first becomes the last.      *)
Reversed[w \in 0 .. Width] ==
  [h \in 0 .. MaxHash |->
     IF w = 0 THEN 0 ELSE (h % 2) * 2^(w - 1) + Reversed[w - 1][h \div 2]]

Reverse(h) == Reversed[Width][h]

(* Without its highest bit (ht_find_msb): the offset within buckets[b].    *)
Offset(idx) == IF idx = 0 THEN 0
               ELSE idx - 2^Max({b \in 0 .. Width : 2^b <= idx})

(* The slot of a hash: index 1, whose highest bit is number 0, has the     *)
(* slot of index 0.                                                        *)
SlotOf(h, bits) == LET idx == Reverse(h) % 2^bits
                   IN IF idx = 1 THEN 0 ELSE idx

(* Mutation: a bucket with offset 0 falls back on slot 1.                  *)
ParentOfOther(slot, create) ==
  IF Offset(slot) = 0 THEN 1
  ELSE Max({s \in {Offset(slot) % 2^j : j \in 1 .. Width} : buckets[s] # Null})

(* The slot ht_get_sentinel falls back on: the offset, its highest bits    *)
(* taken off one by one until a sentinel is there.  Slot 1 serves only to  *)
(* create one.                                                             *)
Parent(slot, create) ==
  LET up == Max({s \in {Offset(slot) % 2^j : j \in 1 .. Width} :
                   buckets[s] # Null})
  IN IF up = 1 /\ ~create THEN 0 ELSE up

Target(t) == Hash[arg[t]]

-----------------------------------------------------------------------------
(* ht_init, then Preloaded stored: a node for each key, and the list       *)
(* sorted by hash, sentinels before keys.                                  *)
Loaded == 4 .. 3 + Cardinality(Preloaded)
Used   == 1 .. 3 + Cardinality(Preloaded)

Owner == CHOOSE f \in [Loaded -> Preloaded] :
           \A k \in Preloaded : \E n \in Loaded : f[n] = k

FirstHash(n) == CASE n = Half -> 2^(Width - 1)
                  [] n = End  -> MaxHash
                  [] n \in Loaded -> Hash[Owner[n]]
                  [] OTHER -> 0

Weight(n) == IF n \in Loaded THEN 2 * FirstHash(n) + 1 ELSE 2 * FirstHash(n)

Follower(n) == CHOOSE m \in Used :
                 /\ Weight(n) < Weight(m)
                 /\ \A o \in Used : Weight(n) < Weight(o)
                                      => Weight(m) <= Weight(o)

Init ==
  /\ allocated = 3 + Cardinality(Preloaded)
  /\ key = [n \in Nodes |-> IF n \in Loaded THEN Owner[n] ELSE NoKey]
  /\ hash = [n \in Nodes |-> FirstHash(n)]
  /\ next = [n \in Nodes |-> IF n \in Used \ {End} THEN Follower(n) ELSE Null]
  /\ buckets = [s \in 0 .. 2^MaxBitlen - 1 |->
                  CASE s = 0 -> First [] s = 1 -> Half [] OTHER -> Null]
  /\ arrays = {0} /\ bitlen = 1 /\ bitlenInternal = 1
  /\ elementCount = Cardinality(Preloaded)
  /\ collected = {} /\ calls = 0 /\ stored = Preloaded
  /\ pc = [t \in Threads |-> "idle"]
  /\ op = [t \in Threads |-> "none"]
  /\ arg = [t \in Threads |-> NoKey]
  /\ sure = [t \in Threads |-> FALSE]
  /\ start = [t \in Threads |-> Null] /\ prev = [t \in Threads |-> Null]
  /\ cur = [t \in Threads |-> Null] /\ fresh = [t \in Threads |-> Null]
  /\ word = [t \in Threads |-> 0]

(* malloc and the first values of a node's fields.                         *)
Allocate(k, h, nxt) ==
  /\ allocated < MaxNodes
  /\ allocated' = allocated + 1
  /\ key' = [key EXCEPT ![allocated + 1] = k]
  /\ hash' = [hash EXCEPT ![allocated + 1] = h]
  /\ next' = [next EXCEPT ![allocated + 1] = nxt]

(* A call returns.                                                         *)
Return(t) ==
  /\ Goto(t, "idle")
  /\ op' = [op EXCEPT ![t] = "none"]
  /\ arg' = [arg EXCEPT ![t] = NoKey]
  /\ sure' = [sure EXCEPT ![t] = FALSE]
  /\ start' = [start EXCEPT ![t] = Null]
  /\ prev' = [prev EXCEPT ![t] = Null]
  /\ cur' = [cur EXCEPT ![t] = Null]
  /\ fresh' = [fresh EXCEPT ![t] = Null]
  /\ word' = [word EXCEPT ![t] = 0]

(* p = n and n = n->next.                                                  *)
Advance(t) ==
  /\ prev' = [prev EXCEPT ![t] = cur[t]]
  /\ cur' = [cur EXCEPT ![t] = next[cur[t]]]

-----------------------------------------------------------------------------
(* Mutations: what a plausible mistake would make of an action below.  No  *)
(* specification uses them.                                                *)

(* The array goes to buckets[bitlen].                                      *)
PublishNextArray(t) ==
  /\ pc[t] = "array"
  /\ arrays' = arrays \cup {word[t]}
  /\ Goto(t, "bits")
  /\ UNCHANGED <<nodes, buckets, bitlen, bitlenInternal, elementCount,
                 collected, calls, stored, call, search>>

(* bitlen is stored, not compared and exchanged.                           *)
PublishBitlenAtOnce(t) ==
  /\ pc[t] = "bits"
  /\ bitlen' = word[t]
  /\ word' = [word EXCEPT ![t] = 0]
  /\ Goto(t, "locate")
  /\ UNCHANGED <<nodes, buckets, arrays, bitlenInternal, elementCount,
                 collected, calls, stored, call, start, prev, cur, fresh>>

(* A sentinel goes right behind its parent.                                *)
AimAtOnce(t) ==
  /\ pc[t] = "seek"
  /\ next' = [next EXCEPT ![fresh[t]] = cur[t]]
  /\ Goto(t, "splice")
  /\ UNCHANGED <<allocated, key, hash, index, elementCount, collected, calls,
                 stored, call, search>>

(* The search ends at the first node of an equal hash.                     *)
MissAtEqualHash(t) ==
  /\ pc[t] = "scan" /\ key[cur[t]] # arg[t]
  /\ hash[cur[t]] >= Target(t)

(* A key is linked without a look at p->next.                              *)
LinkBlindly(t) ==
  /\ pc[t] = "link"
  /\ next' = [next EXCEPT ![prev[t]] = fresh[t]]
  /\ stored' = stored \cup {arg[t]}
  /\ Goto(t, "bump")
  /\ UNCHANGED <<allocated, key, hash, index, elementCount, collected, calls,
                 call, search>>

(* A lost race is tried again where it was lost, without a new search.     *)
LinkInPlace(t) ==
  /\ pc[t] = "link"
  /\ IF next[prev[t]] = cur[t]
     THEN /\ next' = [next EXCEPT ![prev[t]] = fresh[t]]
          /\ stored' = stored \cup {arg[t]}
          /\ Goto(t, "bump")
          /\ UNCHANGED cur
     ELSE /\ next' = [next EXCEPT ![fresh[t]] = next[prev[t]]]
          /\ cur' = [cur EXCEPT ![t] = next[prev[t]]]
          /\ UNCHANGED <<pc, stored>>
  /\ UNCHANGED <<allocated, key, hash, index, elementCount, collected, calls,
                 call, start, prev, fresh, word>>

-----------------------------------------------------------------------------
Begin(t) ==
  /\ pc[t] = "idle" /\ calls < MaxCalls
  /\ calls' = calls + 1
  /\ \E o \in Ops, k \in Keys :
       /\ op' = [op EXCEPT ![t] = o]
       /\ arg' = [arg EXCEPT ![t] = k]
       /\ sure' = [sure EXCEPT ![t] = k \in stored]
       /\ Goto(t, IF o = "store" THEN "count" ELSE "locate")
  /\ UNCHANGED <<nodes, index, elementCount, collected, stored, search>>

-----------------------------------------------------------------------------
(* ht_store: is the table too full, and ht_resize.                         *)

CheckCount(t) ==
  /\ pc[t] = "count"
  /\ Goto(t, IF elementCount > 2^bitlen THEN "claim" ELSE "locate")
  /\ UNCHANGED <<nodes, index, elementCount, collected, calls, stored, call,
                 search>>

(* The CAS on bitlen_internal, with the loop around it.                    *)
ClaimBitlen(t) ==
  /\ pc[t] = "claim" /\ bitlenInternal < MaxBitlen
  /\ bitlenInternal' = bitlenInternal + 1
  /\ word' = [word EXCEPT ![t] = bitlenInternal + 1]
  /\ Goto(t, "array")
  /\ UNCHANGED <<nodes, buckets, arrays, bitlen, elementCount, collected,
                 calls, stored, call, start, prev, cur, fresh>>

PublishArray(t) ==
  /\ pc[t] = "array"
  /\ arrays' = arrays \cup {word[t] - 1}
  /\ Goto(t, "bits")
  /\ UNCHANGED <<nodes, buckets, bitlen, bitlenInternal, elementCount,
                 collected, calls, stored, call, search>>

(* The CAS on bitlen, repeated until the resize before has done its own.   *)
PublishBitlen(t) ==
  /\ pc[t] = "bits" /\ bitlen = word[t] - 1
  /\ bitlen' = word[t]
  /\ word' = [word EXCEPT ![t] = 0]
  /\ Goto(t, "locate")
  /\ UNCHANGED <<nodes, buckets, arrays, bitlenInternal, elementCount,
                 collected, calls, stored, call, start, prev, cur, fresh>>

-----------------------------------------------------------------------------
(* ht_get_sentinel                                                         *)

LocateSentinel(t) ==
  /\ pc[t] = "locate"
  /\ LET slot == SlotOf(Target(t), bitlen)
         from == IF buckets[slot] # Null THEN slot ELSE Parent(slot, FALSE)
     IN /\ buckets[slot] # Null \/ op[t] # "store"
        /\ start' = [start EXCEPT ![t] = buckets[from]]
  /\ Goto(t, "walk")
  /\ UNCHANGED <<nodes, index, elementCount, collected, calls, stored, call,
                 prev, cur, fresh, word>>

(* create: a sentinel whose next is, for now, its parent.                  *)
NewSentinel(t) ==
  /\ pc[t] = "locate" /\ op[t] = "store"
  /\ LET slot == SlotOf(Target(t), bitlen)
         parent == buckets[Parent(slot, TRUE)]
     IN /\ buckets[slot] = Null
        /\ Allocate(NoKey, Reverse(slot), parent)
        /\ prev' = [prev EXCEPT ![t] = parent]
        /\ word' = [word EXCEPT ![t] = slot]
  /\ fresh' = [fresh EXCEPT ![t] = allocated + 1]
  /\ Goto(t, "publish")
  /\ UNCHANGED <<index, elementCount, collected, calls, stored, call, start,
                 cur>>

(* The CAS on the slot: from here on others start from the sentinel.       *)
PublishSentinel(t) ==
  /\ pc[t] = "publish"
  /\ IF buckets[word[t]] = Null
     THEN /\ buckets' = [buckets EXCEPT ![word[t]] = fresh[t]]
          /\ Goto(t, "first")
          /\ UNCHANGED <<start, fresh>>
     ELSE /\ start' = [start EXCEPT ![t] = buckets[word[t]]]
          /\ fresh' = [fresh EXCEPT ![t] = Null]
          /\ Goto(t, "walk")
          /\ UNCHANGED buckets
  /\ UNCHANGED <<nodes, arrays, bitlen, bitlenInternal, elementCount,
                 collected, calls, stored, call, prev, cur, word>>

SeekFirst(t) ==
  /\ pc[t] = "first"
  /\ cur' = [cur EXCEPT ![t] = next[prev[t]]]
  /\ Goto(t, "seek")
  /\ UNCHANGED <<nodes, index, elementCount, collected, calls, stored, call,
                 start, prev, fresh, word>>

SeekNext(t) ==
  /\ pc[t] = "seek" /\ hash[cur[t]] < hash[fresh[t]]
  /\ Advance(t)
  /\ UNCHANGED <<nodes, index, elementCount, collected, calls, stored, pc,
                 call, start, fresh, word>>

(* nnode->next = next: a plain store, on a node others may already have    *)
(* linked a key behind.                                                    *)
AimSentinel(t) ==
  /\ pc[t] = "seek" /\ hash[cur[t]] >= hash[fresh[t]]
  /\ next' = [next EXCEPT ![fresh[t]] = cur[t]]
  /\ Goto(t, "splice")
  /\ UNCHANGED <<allocated, key, hash, index, elementCount, collected, calls,
                 stored, call, search>>

(* The CAS on prev->next.                                                  *)
SpliceSentinel(t) ==
  /\ pc[t] = "splice"
  /\ IF next[prev[t]] = cur[t]
     THEN /\ next' = [next EXCEPT ![prev[t]] = fresh[t]]
          /\ start' = [start EXCEPT ![t] = fresh[t]]
          /\ fresh' = [fresh EXCEPT ![t] = Null]
          /\ Goto(t, "walk")
     ELSE /\ Goto(t, "first")
          /\ UNCHANGED <<next, start, fresh>>
  /\ UNCHANGED <<allocated, key, hash, index, elementCount, collected, calls,
                 stored, call, prev, cur, word>>

-----------------------------------------------------------------------------
(* The two loops ht_store, ht_find and ht_del share.                       *)

Walk(t) ==
  /\ pc[t] = "walk"
  /\ prev' = [prev EXCEPT ![t] = start[t]]
  /\ cur' = [cur EXCEPT ![t] = next[start[t]]]
  /\ Goto(t, "scan")
  /\ UNCHANGED <<nodes, index, elementCount, collected, calls, stored, call,
                 start, fresh, word>>

(* key_hash > n->key_hash, or an equal hash of another key.                *)
Pass(t) ==
  /\ pc[t] = "scan"
  /\ \/ hash[cur[t]] < Target(t)
     \/ hash[cur[t]] = Target(t) /\ key[cur[t]] # arg[t]
  /\ Advance(t)
  /\ UNCHANGED <<nodes, index, elementCount, collected, calls, stored, pc,
                 call, start, fresh, word>>

Hit(t) == pc[t] = "scan" /\ key[cur[t]] = arg[t]
Miss(t) == pc[t] = "scan" /\ hash[cur[t]] > Target(t)

(* HT_DUPLICATE_KEY of ht_store, HT_GOOD of ht_find, HT_NOT_FOUND of       *)
(* ht_find and ht_del.                                                     *)
Answer(t) ==
  /\ \/ Hit(t) /\ op[t] # "del"
     \/ Miss(t) /\ op[t] # "store"
  /\ Return(t)
  /\ UNCHANGED <<nodes, index, elementCount, collected, calls, stored>>

-----------------------------------------------------------------------------
(* ht_store: ht_store_alloc_node and new_node->next = n.                   *)
PrepareNode(t) ==
  /\ Miss(t) /\ op[t] = "store"
  /\ IF fresh[t] = Null
     THEN /\ Allocate(arg[t], Target(t), cur[t])
          /\ fresh' = [fresh EXCEPT ![t] = allocated + 1]
     ELSE /\ next' = [next EXCEPT ![fresh[t]] = cur[t]]
          /\ UNCHANGED <<allocated, key, hash, fresh>>
  /\ Goto(t, "link")
  /\ UNCHANGED <<index, elementCount, collected, calls, stored, call, start,
                 prev, cur, word>>

(* The CAS on p->next.                                                     *)
LinkNode(t) ==
  /\ pc[t] = "link"
  /\ IF next[prev[t]] = cur[t]
     THEN /\ next' = [next EXCEPT ![prev[t]] = fresh[t]]
          /\ stored' = stored \cup {arg[t]}
          /\ Goto(t, "bump")
     ELSE Goto(t, "walk") /\ UNCHANGED <<next, stored>>
  /\ UNCHANGED <<allocated, key, hash, index, elementCount, collected, calls,
                 call, search>>

CountNode(t) ==
  /\ pc[t] = "bump"
  /\ elementCount' = elementCount + 1
  /\ Return(t)
  /\ UNCHANGED <<nodes, index, collected, calls, stored>>

-----------------------------------------------------------------------------
(* ht_del: n->next is read for the CAS.                                    *)
ReadNext(t) ==
  /\ Hit(t) /\ op[t] = "del"
  /\ word' = [word EXCEPT ![t] = next[cur[t]]]
  /\ Goto(t, "cut")
  /\ UNCHANGED <<nodes, index, elementCount, collected, calls, stored, call,
                 start, prev, cur, fresh>>

(* The CAS on p->next, and gc_free of the node.                            *)
CutNode(t) ==
  /\ pc[t] = "cut"
  /\ IF next[prev[t]] = cur[t]
     THEN /\ next' = [next EXCEPT ![prev[t]] = word[t]]
          /\ collected' = collected \cup {cur[t]}
          /\ Return(t)
     ELSE /\ Goto(t, "walk")
          /\ UNCHANGED <<next, collected, call, search>>
  /\ UNCHANGED <<allocated, key, hash, index, elementCount, calls, stored>>

-----------------------------------------------------------------------------
Resize(t) == ClaimBitlen(t) \/ PublishArray(t) \/ PublishBitlen(t)
GetSentinel(t) ==
  LocateSentinel(t) \/ NewSentinel(t) \/ PublishSentinel(t) \/ SeekFirst(t)
  \/ SeekNext(t) \/ AimSentinel(t) \/ SpliceSentinel(t)
Search(t) == Walk(t) \/ Pass(t) \/ Answer(t)
Store(t) == CheckCount(t) \/ PrepareNode(t) \/ LinkNode(t) \/ CountNode(t)
Delete(t) == ReadNext(t) \/ CutNode(t)

Next == \E t \in Threads : \/ Begin(t) \/ Resize(t) \/ GetSentinel(t)
                           \/ Search(t) \/ Store(t) \/ Delete(t)

Spec == Init /\ [][Next]_vars

-----------------------------------------------------------------------------
(* The nodes a walk from the first sentinel meets.                         *)
List ==
  LET step[i \in 0 .. allocated] ==
        IF i = 0 THEN First
        ELSE IF step[i - 1] = Null THEN Null ELSE next[step[i - 1]]
  IN {step[i] : i \in 0 .. allocated} \ {Null}

Linked == {key[n] : n \in List} \ {NoKey}

(* No bucket has been split (no sentinel created), no key deleted.         *)
Plain == collected = {} /\ \A s \in DOMAIN buckets : s > 1 => buckets[s] = Null

(* Every field keeps its type.                                             *)
TypeOK ==
  /\ allocated \in 3 .. MaxNodes
  /\ next \in [Nodes -> Nodes \cup {Null}]
  /\ key \in [Nodes -> Keys \cup {NoKey}]
  /\ hash \in [Nodes -> 0 .. MaxHash]
  /\ buckets \in [0 .. 2^MaxBitlen - 1 -> Nodes \cup {Null}]
  /\ arrays \subseteq 0 .. MaxBitlen - 1
  /\ {bitlen, bitlenInternal} \subseteq 1 .. MaxBitlen
  /\ elementCount \in Nat /\ collected \subseteq Nodes /\ calls \in 0 .. MaxCalls
  /\ stored \subseteq Keys
  /\ arg \in [Threads -> Keys \cup {NoKey}]
  /\ op \in [Threads -> Ops \cup {"none"}]
  /\ pc \in [Threads -> {"idle", "count", "claim", "array", "bits", "locate",
                         "publish", "first", "seek", "splice", "walk", "scan",
                         "link", "bump", "cut"}]
  /\ \A ptr \in {start, prev, cur, fresh} :
       ptr \in [Threads -> Nodes \cup {Null}]
  /\ word \in [Threads -> Nat] /\ sure \in [Threads -> BOOLEAN]

(* The list is in split order from the first sentinel to the end, whatever *)
(* is inserted, split or deleted at once: hashes do not decrease, and a    *)
(* sentinel comes before the keys of its hash.                             *)
SplitOrder ==
  LET list == List IN
  /\ End \in list
  /\ \A n \in list \ {End} :
       /\ hash[n] <= hash[next[n]]
       /\ next[n] # End /\ key[next[n]] = NoKey => hash[n] < hash[next[n]]

(* No key is twice in the list, nodes that were given to gc_free aside     *)
(* (ht_del can bring these back): two stores of a key race on one CAS.     *)
UniqueKeys ==
  LET keyed == {n \in List \ collected : key[n] # NoKey}
  IN \A m, n \in keyed : key[m] = key[n] => m = n

(* A bucket array is there before any index can need it, and concurrent    *)
(* resizes publish theirs in order (ht_resize, ht_get_sentinel).           *)
ArraysPublished == 0 .. bitlen - 1 \subseteq arrays

(* The assertions of ht_get_sentinel and ht_store hold, and so does what   *)
(* they rest on: a search never starts behind its key.                     *)
AssertionsHold ==
  \A t \in Threads :
    /\ pc[t] = "publish" => hash[prev[t]] <= hash[fresh[t]]
    /\ pc[t] = "walk" => hash[start[t]] <= Target(t)
    /\ pc[t] = "link" => /\ hash[prev[t]] <= Target(t)
                         /\ Target(t) <= hash[cur[t]]

(* As long as nothing is deleted and no bucket split, every key that was   *)
(* stored is in the list.                                                  *)
KeysKept == Plain => stored \subseteq Linked

(* Then, too, ht_find answers NOT_FOUND only for a key that was not stored *)
(* when it was called.                                                     *)
FindIsRight ==
  [][\A t \in Threads :
       op[t] = "find" /\ sure[t] /\ Miss(t) /\ Plain => pc'[t] # "idle"]_vars

(* Every key that was stored, and not deleted, is in the list once no      *)
(* sentinel is waiting to be spliced in (tests/hashtable_serial.c:         *)
(* "expected hit").                                                        *)
StoredReachable ==
  collected = {} /\ (\A t \in Threads : pc[t] \notin {"first", "seek", "splice"})
    => stored \subseteq Linked

(* "Anything on the free list is unreachable from the hashtable" (gc.h).   *)
CollectedUnreachable == collected \cap List = {}
=============================================================================
