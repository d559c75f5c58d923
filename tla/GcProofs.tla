------------------------------ MODULE GcProofs ------------------------------
(***************************************************************************)
(* Proofs about the collector for any number of users, addresses, working  *)
(* sets and collections.                                                   *)
(***************************************************************************)
EXTENDS Gc, TLAPS

Members(s) == {s[i] : i \in 1 .. Len(s)}

Deleting == {"stamp", "search", "list"}
Scanning == {"tag", "mark", "restore"}

(* A user is pending in the brackets of a command only, after it has       *)
(* registered, and points at nothing when a command begins; its cts is     *)
(* known only during a DEL, and in gc_free it is some pointer.             *)
Brackets ==
  /\ \A u \in Users : pending[u] <=> (pc[u] \in {"fetch", "unpend", "del"} \cup Deleting)
  /\ \A u \in Users : pc[u] # "new" => u \in Members(users)
  /\ \A u \in Users : pc[u] \in {"new", "idle", "del"} => refs[u] = {}
  /\ \A u \in Users : cts[u] # NoAddr => pc[u] \in {"del"} \cup Deleting
  /\ \A u \in Users : pc[u] \in Deleting => cts[u] # NoAddr

(* Where the collector is goes with what is left to scan.                  *)
Phases ==
  /\ gpc \in Scanning => todo # <<>>
  /\ gpc \in {"walk", "free"} => todo = <<>>
  /\ gpc = "bump" => usedCtr < MaxRuns
  /\ ctr <= usedCtr

(* Working sets have one owner each, and gc_run's is its user's until that *)
(* one clears it.  So none is ever freed while something points to it.     *)
SetsOwned ==
  /\ NoStaleSet
  /\ dangling = {}
  /\ \A u, v \in Users : workingSet[u] = workingSet[v] /\ workingSet[u] # NoSet => u = v
  /\ (scanned # NoSet) <=> gpc \in {"mark", "restore"}
  /\ gpc \in {"mark", "restore"} =>
       \A u \in Users : workingSet[u] = scanned => u = Head(todo) /\ tagged[u]

(* An allocated block is reached from the key table, or is the node of an  *)
(* entry, or is on the free list, or is about to be, or is about to be     *)
(* freed: one of them only.                                                *)
Unlisted(o) ==
  /\ o \in heap \ (table \cup DOMAIN entries)
  /\ \A a \in DOMAIN entries : entries[a].node # o

(* The free list is sound, whatever wild says of it.                       *)
Sound ==
  /\ DOMAIN entries \subseteq heap \ table
  /\ \A a, b \in DOMAIN entries :
       /\ entries[a].node \in heap \ (table \cup DOMAIN entries)
       /\ entries[a].node = entries[b].node => a = b

(* What a DEL has unlinked is its own until the collector has freed it: on *)
(* the free list once gc_free has returned, there or nowhere before.       *)
Unlinked ==
  /\ \A u \in Users : pc[u] \in Deleting => cts[u] \in DOMAIN entries \/ Unlisted(cts[u])
  /\ \A u \in Users : pc[u] = "del" /\ cts[u] # NoAddr => cts[u] \in DOMAIN entries
  /\ \A u, v \in Users : cts[u] = cts[v] /\ cts[u] # NoAddr => u = v

BlocksApart ==
  /\ table \subseteq heap
  /\ Sound
  /\ Unlinked
  /\ gpc = "free" =>
       /\ Unlisted(victim)
       /\ cursor # victim
       /\ \A u \in Users : cts[u] # victim
  /\ cursor # NoAddr => cursor \in heap

(* Stamped before the collection under way: its walk may remove it.        *)
Limit == IF gpc = "bump" THEN usedCtr ELSE ctr
Old(o) ==
  \/ o \in DOMAIN entries /\ entries[o].used < Limit
  \/ \E u \in Users : pc[u] \in {"search", "list"} /\ cts[u] = o /\ used[u] < Limit

(* The users the collection has still to wait for.                         *)
Awaited == Members(IF gpc \in Scanning THEN Tail(todo) ELSE todo)

(* A block is never freed under a pending user: it waits for everybody     *)
(* that points at a block that is old.                                     *)
Protected ==
  \A u \in Users : pending[u] => \A o \in Held(u) :
    /\ o \in heap
    /\ gpc = "free" => o # victim
    /\ gpc \notin {"idle", "fault"} /\ Old(o) => u \in Awaited

(* The blocks are in order as long as no uninitialised pointer has been    *)
(* put on the free list.                                                   *)
Blocks == BlocksApart /\ Protected

Inv ==
  /\ TypeOK
  /\ Brackets
  /\ Phases
  /\ SetsOwned
  /\ wild \/ Blocks

-----------------------------------------------------------------------------
(* Members of the list of users. *)
LEMMA MembersPrepend ==
  ASSUME NEW S, NEW s \in Seq(S), NEW x \in S
  PROVE  Members(<<x>> \o s) = {x} \cup Members(s)
<1> DEFINE t == <<x>> \o s
<1>1. /\ Len(t) = Len(s) + 1 /\ Len(s) \in Nat
      /\ \A i \in 1 .. Len(t) : t[i] = IF i = 1 THEN x ELSE s[i - 1]
  OBVIOUS
<1> HIDE DEF t
<1>2. t[1] = x /\ \A i \in 1 .. Len(s) : t[i + 1] = s[i]
  BY <1>1
<1>3. Members(t) \subseteq {x} \cup Members(s)
  BY <1>1 DEF Members
<1>4. {x} \cup Members(s) \subseteq Members(t)
  BY <1>1, <1>2 DEF Members
<1> QED
  BY <1>3, <1>4 DEF t

LEMMA MembersTail ==
  ASSUME NEW S, NEW s \in Seq(S), s # <<>>
  PROVE  Members(s) = {Head(s)} \cup Members(Tail(s))
<1>1. /\ Len(s) \in Nat \ {0} /\ Head(s) = s[1] /\ Len(Tail(s)) = Len(s) - 1
      /\ \A i \in 1 .. Len(s) - 1 : Tail(s)[i] = s[i + 1]
  OBVIOUS
<1>2. \A i \in 1 .. Len(s) : i = 1 \/ (i - 1 \in 1 .. Len(s) - 1 /\ s[i] = Tail(s)[i - 1])
  BY <1>1
<1>3. Members(s) \subseteq {Head(s)} \cup Members(Tail(s))
  BY <1>1, <1>2 DEF Members
<1>4. {Head(s)} \cup Members(Tail(s)) \subseteq Members(s)
  BY <1>1 DEF Members
<1> QED
  BY <1>3, <1>4

(* Nothing has happened yet. *)
LEMMA InitInv == ASSUME Init PROVE Inv
<1> USE DEF Init
<1>1. TypeOK
  <2>1. /\ entries = << >> /\ DOMAIN entries \subseteq Addrs
        /\ \A a \in DOMAIN entries :
             entries[a] \in [used : 0 .. MaxRuns, node : Addrs]
    OBVIOUS
  <2>2. wild \in BOOLEAN
    OBVIOUS
  <2> QED
    BY <2>1, <2>2, MaxRunsAssumption DEF TypeOK
<1>2. Brackets /\ Phases /\ SetsOwned
  BY NoSetAssumption DEF Brackets, Phases, SetsOwned, NoStaleSet, Deleting, Scanning
<1>3. BlocksApart /\ Protected
  BY DEF BlocksApart, Sound, Unlinked, Protected, Deleting
<1> QED
  BY <1>1, <1>2, <1>3 DEF Inv, Blocks

-----------------------------------------------------------------------------
(* A free list with one entry more keeps its type. *)
LEMMA ListType ==
  ASSUME TypeOK,
         NEW list, DOMAIN list \subseteq Addrs,
         \A a \in DOMAIN list : list[a] \in [used : 0 .. MaxRuns, node : Addrs],
         NEW ptr \in Addrs, NEW stamp \in 0 .. MaxRuns,
         AddEntry(list, ptr, stamp)
  PROVE  /\ heap' \subseteq Addrs
         /\ DOMAIN entries' \subseteq Addrs
         /\ \A a \in DOMAIN entries' : entries'[a] \in [used : 0 .. MaxRuns, node : Addrs]
<1>1. heap \subseteq Addrs
  BY DEF TypeOK
<1>2. CASE ptr \in DOMAIN list
  BY <1>1, <1>2 DEF AddEntry
<1>3. CASE ptr \notin DOMAIN list
  <2>1. PICK n \in Addrs \ heap :
          /\ heap' = heap \cup {n}
          /\ entries' = With(list, ptr, [used |-> stamp, node |-> n])
    BY <1>3 DEF AddEntry
  <2>2. /\ DOMAIN entries' = DOMAIN list \cup {ptr}
        /\ entries'[ptr] = [used |-> stamp, node |-> n]
        /\ \A a \in DOMAIN list : entries'[a] = list[a]
    BY <1>3, <2>1 DEF With
  <2> QED
    BY <1>1, <2>1, <2>2
<1> QED
  BY <1>2, <1>3

(* What a step of the collector's walk does to the free list. *)
LEMMA EntryMoved ==
  ASSUME BlocksApart, WalkRemove
  PROVE  \E a \in DOMAIN entries, n \in Addrs \ heap :
           /\ entries[a].used < ctr
           /\ victim' = a /\ cursor' = entries[a].node
           /\ heap' = heap \cup {n}
           /\ DOMAIN entries' = (DOMAIN entries \ {a}) \cup {entries[a].node}
           /\ entries'[entries[a].node] = [used |-> usedCtr, node |-> n]
           /\ \A b \in DOMAIN entries \ {a} : entries'[b] = entries[b]
           /\ entries[a].node \notin DOMAIN entries
<1>1. PICK a \in DOMAIN entries :
        /\ entries[a].used < ctr
        /\ victim' = a /\ cursor' = entries[a].node
        /\ AddEntry(Without(entries, a), entries[a].node, usedCtr)
  BY DEF WalkRemove
<1>2. entries[a].node \notin DOMAIN entries
  BY DEF BlocksApart, Sound
<1>3. a # entries[a].node
  BY <1>2
<1> DEFINE list == Without(entries, a)
<1>4. DOMAIN list = DOMAIN entries \ {a} /\ \A b \in DOMAIN list : list[b] = entries[b]
  BY DEF Without
<1> HIDE DEF list
<1>5. PICK n \in Addrs \ heap :
        /\ heap' = heap \cup {n}
        /\ entries' = With(list, entries[a].node, [used |-> usedCtr, node |-> n])
  BY <1>1, <1>2, <1>4 DEF AddEntry, list
<1>6. /\ DOMAIN entries' = DOMAIN list \cup {entries[a].node}
      /\ entries'[entries[a].node] = [used |-> usedCtr, node |-> n]
      /\ \A b \in DOMAIN list : entries'[b] = list[b]
  BY <1>2, <1>4, <1>5 DEF With
<1> QED
  BY <1>1, <1>2, <1>4, <1>5, <1>6

(* What gc_free does to it: a pointer that is listed is not listed again. *)
LEMMA EntryListed ==
  ASSUME NEW u \in Users, FreeList(u)
  PROVE  \/ cts[u] \in DOMAIN entries /\ UNCHANGED <<heap, entries>>
         \/ \E n \in Addrs \ heap :
              /\ cts[u] \notin DOMAIN entries
              /\ heap' = heap \cup {n}
              /\ DOMAIN entries' = DOMAIN entries \cup {cts[u]}
              /\ entries'[cts[u]] = [used |-> used[u], node |-> n]
              /\ \A a \in DOMAIN entries : entries'[a] = entries[a]
<1>1. CASE cts[u] \in DOMAIN entries
  BY <1>1 DEF FreeList, AddEntry
<1>2. CASE cts[u] \notin DOMAIN entries
  <2>1. PICK n \in Addrs \ heap :
          /\ heap' = heap \cup {n}
          /\ entries' = With(entries, cts[u], [used |-> used[u], node |-> n])
    BY <1>2 DEF FreeList, AddEntry
  <2> QED
    BY <1>2, <2>1 DEF With
<1> QED
  BY <1>1, <1>2

(* The users a collection scans. *)
LEMMA TailType ==
  ASSUME TypeOK, todo # <<>>
  PROVE  Head(todo) \in Users /\ Tail(todo) \in Seq(Users)
BY DEF TypeOK

(* Every step keeps the types. *)
LEMMA TypeStep ==
  ASSUME Inv, Next
  PROVE  TypeOK'
<1> USE DEF Inv, Goto
<1>1. CASE \E u \in Users : UserStep(u)
  <2>1. PICK u \in Users : UserStep(u)
    BY <1>1
  <2> USE DEF objects, gcUsers, local, scan
  <2>2. CASE RegisterUser(u)
    <3>1. <<u>> \o users \in Seq(Users)
      BY DEF TypeOK
    <3> QED
      BY <2>2, <3>1 DEF TypeOK, RegisterUser
  <2>3. CASE Lock(u)
    BY <2>3 DEF TypeOK, Lock
  <2>4. CASE Fetch(u) \/ Create(u)
    <3>1. CASE Fetch(u)
      BY <3>1 DEF TypeOK, Fetch
    <3>2. CASE Create(u)
      BY <3>2 DEF TypeOK, Create
    <3> QED
      BY <2>4, <3>1, <3>2
  <2>5. CASE CommitSet(u)
    BY <2>5 DEF TypeOK, CommitSet
  <2>6. CASE Unpend(u)
    BY <2>6 DEF TypeOK, Unpend
  <2>7. CASE Clear(u) \/ ClearFree(u) \/ WriteReply(u)
    BY ZenonT(60), <2>7 DEF TypeOK, Clear, ClearFree, WriteReply
  <2>8. CASE Unlink(u) \/ NotFound(u)
    <3>1. CASE Unlink(u)
      BY <3>1 DEF TypeOK, Unlink
    <3>2. CASE NotFound(u)
      <4>1. PICK p \in Addrs :
              /\ cts' = [cts EXCEPT ![u] = p]
              /\ wild' = (wild \/ p # cts[u])
              /\ pc' = [pc EXCEPT ![u] = "stamp"]
        BY <3>2 DEF NotFound
      <4>2. cts' \in [Users -> Addrs \cup {NoAddr}] /\ wild' \in BOOLEAN
        BY <4>1 DEF TypeOK
      <4> QED
        BY <3>2, <4>1, <4>2 DEF TypeOK, NotFound
    <3> QED
      BY <2>8, <3>1, <3>2
  <2>9. CASE FreeStamp(u)
    BY <2>9 DEF TypeOK, FreeStamp
  <2>10. CASE FreeSearch(u)
    <3>1. \A a \in DOMAIN entries : entries[a].node \in Addrs
      BY DEF TypeOK
    <3> QED
      BY <2>10, <3>1 DEF TypeOK, FreeSearch
  <2>11. CASE FreeList(u)
    <3>1. /\ AddEntry(entries, cts[u], used[u]) /\ pc[u] \in Deleting
          /\ cts[u] \in Addrs /\ used[u] \in 0 .. MaxRuns
      BY <2>11 DEF TypeOK, Brackets, Deleting, FreeList
    <3>2. /\ heap' \subseteq Addrs
          /\ DOMAIN entries' \subseteq Addrs
          /\ \A a \in DOMAIN entries' : entries'[a] \in [used : 0 .. MaxRuns, node : Addrs]
      BY <3>1, ListType DEF TypeOK
    <3> QED
      BY <2>11, <3>2, MaxRunsAssumption DEF TypeOK, FreeList
  <2>12. CASE DelCommit(u)
    BY <2>12 DEF TypeOK, DelCommit
  <2> QED
    BY <2>1, <2>2, <2>3, <2>4, <2>5, <2>6, <2>7, <2>8, <2>9, <2>10, <2>11, <2>12 DEF UserStep
<1>2. CASE Collect
  <2> USE DEF objects, gcUsers, local, scan
  <2>1. CASE CollectStart
    BY <2>1 DEF TypeOK, CollectStart
  <2>2. CASE CollectBump
    BY <2>2, MaxRunsAssumption DEF TypeOK, CollectBump, Phases
  <2>3. CASE CollectWait \/ CollectMark \/ CollectWalk
    BY <2>3 DEF TypeOK, CollectWait, CollectMark, CollectWalk
  <2>4. CASE CollectTag
    <3>1. todo # <<>>
      BY <2>4 DEF CollectTag, Phases, Scanning
    <3> QED
      BY <2>4, <3>1, TailType DEF TypeOK, CollectTag
  <2>5. CASE CollectRestore
    <3>1. todo # <<>>
      BY <2>5 DEF CollectRestore, Phases, Scanning
    <3>2. todo' \in Seq(Users)
      BY <2>5, <3>1, TailType DEF CollectRestore
    <3>3. tagged' \in [Users -> BOOLEAN]
      BY <2>5 DEF TypeOK, CollectRestore
    <3>4. dangling' \subseteq Sets
      BY <2>5 DEF TypeOK, SetsOwned, CollectRestore
    <3> QED
      BY <2>5, <3>2, <3>3, <3>4 DEF TypeOK, CollectRestore
  <2>6. CASE WalkRemove
    <3>1. PICK a \in DOMAIN entries :
            /\ victim' = a /\ cursor' = entries[a].node
            /\ AddEntry(Without(entries, a), entries[a].node, usedCtr)
      BY <2>6 DEF WalkRemove
    <3>2. a \in Addrs /\ entries[a].node \in Addrs /\ usedCtr \in 0 .. MaxRuns
      BY DEF TypeOK
    <3> DEFINE list == Without(entries, a)
    <3>3. /\ DOMAIN list \subseteq Addrs
          /\ \A b \in DOMAIN list : list[b] \in [used : 0 .. MaxRuns, node : Addrs]
      BY DEF TypeOK, Without
    <3>4. AddEntry(list, entries[a].node, usedCtr)
      BY <3>1
    <3> HIDE DEF list
    <3>5. /\ heap' \subseteq Addrs
          /\ DOMAIN entries' \subseteq Addrs
          /\ \A b \in DOMAIN entries' : entries'[b] \in [used : 0 .. MaxRuns, node : Addrs]
      BY <3>2, <3>3, <3>4, ListType
    <3> QED
      BY <2>6, <3>1, <3>2, <3>5 DEF TypeOK, WalkRemove
  <2>7. CASE WalkFree \/ WalkEnd
    BY <2>7 DEF TypeOK, WalkFree, WalkEnd
  <2> QED
    BY <1>2, <2>1, <2>2, <2>3, <2>4, <2>5, <2>6, <2>7 DEF Collect
<1> QED
  BY <1>1, <1>2 DEF Next

(* Users stay within the brackets of gc_lock and gc_commit. *)
LEMMA BracketsStep ==
  ASSUME Inv, Next
  PROVE  Brackets'
<1> USE DEF Inv, Brackets, Goto, Deleting, objects, gcUsers, local, scan
<1>1. CASE \E u \in Users : RegisterUser(u)
  <2>1. PICK u \in Users : RegisterUser(u)
    BY <1>1
  <2>2. Members(users') = {u} \cup Members(users)
    BY <2>1, MembersPrepend DEF TypeOK, RegisterUser
  <2> QED
    BY <2>1, <2>2 DEF TypeOK, RegisterUser
<1>2. CASE \E u \in Users : Lock(u)
  BY <1>2 DEF TypeOK, Lock
<1>3. CASE \E u \in Users : CommitSet(u)
  BY <1>3 DEF TypeOK, CommitSet
<1>4. CASE \E u \in Users : Unpend(u)
  BY <1>4 DEF TypeOK, Unpend
<1>5. CASE \E u \in Users : Clear(u)
  BY <1>5 DEF TypeOK, Clear
<1>6. CASE \E u \in Users : ClearFree(u)
  BY <1>6 DEF TypeOK, ClearFree
<1>7. CASE \E u \in Users : WriteReply(u)
  BY <1>7 DEF TypeOK, WriteReply
<1>8. CASE \E u \in Users : FreeStamp(u)
  BY <1>8 DEF TypeOK, FreeStamp
<1>9. CASE \E u \in Users : DelCommit(u)
  BY <1>9 DEF TypeOK, DelCommit
<1>10. CASE \E u \in Users : Fetch(u) \/ Create(u)
  BY ZenonT(60), <1>10 DEF TypeOK, Fetch, Create
<1>11. CASE \E u \in Users : Unlink(u) \/ NotFound(u)
  <2>1. PICK u \in Users : Unlink(u) \/ NotFound(u)
    BY <1>11
  <2>2. PICK p \in Addrs : cts' = [cts EXCEPT ![u] = p]
    BY <2>1 DEF TypeOK, Unlink, NotFound
  <2>3. /\ pc[u] = "del" /\ pc' = [pc EXCEPT ![u] = "stamp"]
        /\ UNCHANGED <<pending, refs, users>>
    BY <2>1 DEF Unlink, NotFound
  <2> QED
    BY <2>2, <2>3, NoAddrAssumption DEF TypeOK
<1>12. CASE \E u \in Users : FreeSearch(u)
  BY <1>12 DEF TypeOK, FreeSearch
<1>13. CASE \E u \in Users : FreeList(u)
  BY <1>13 DEF TypeOK, FreeList
<1>14. CASE Collect
  <2>1. UNCHANGED <<pending, pc, refs, cts, users>>
    BY <1>14 DEF Collect, CollectStart, CollectBump, CollectWait, CollectTag, CollectMark,
                CollectRestore, CollectWalk, WalkRemove, WalkFree, WalkEnd
  <2> QED
    BY <2>1
<1> QED
  BY <1>1, <1>2, <1>3, <1>4, <1>5, <1>6, <1>7, <1>8, <1>9, <1>10, <1>11, <1>12, <1>13, <1>14
  DEF Next, UserStep

(* The collector goes through its phases. *)
LEMMA PhasesStep ==
  ASSUME Inv, Next
  PROVE  Phases'
<1> USE DEF Inv, Phases, Scanning, objects, gcUsers, local, scan
<1>1. CASE \E u \in Users : UserStep(u)
  <2>1. UNCHANGED <<gpc, todo, usedCtr, ctr>>
    BY <1>1 DEF UserStep, RegisterUser, Lock, Fetch, Create, CommitSet, Unpend, Clear, ClearFree,
                WriteReply, Unlink, NotFound, FreeStamp, FreeSearch, FreeList, DelCommit
  <2> QED
    BY <2>1
<1>2. CASE CollectStart \/ CollectBump \/ CollectWait \/ CollectMark \/ CollectWalk
  BY <1>2 DEF TypeOK, CollectStart, CollectBump, CollectWait, CollectMark, CollectWalk
<1>3. CASE CollectTag \/ CollectRestore
  BY <1>3 DEF CollectTag, CollectRestore
<1>4. CASE WalkRemove \/ WalkFree \/ WalkEnd
  BY <1>4 DEF WalkRemove, WalkFree, WalkEnd
<1> QED
  BY <1>1, <1>2, <1>3, <1>4 DEF Next, Collect

(* Working sets are cleared and freed by one of user and collector. *)
LEMMA SetsStep ==
  ASSUME Inv, Next
  PROVE  SetsOwned'
<1> USE DEF Inv, SetsOwned, NoStaleSet, Goto, objects, gcUsers, local, scan
<1>1. CASE \E u \in Users : CommitSet(u)
  BY <1>1, NoSetAssumption DEF TypeOK, CommitSet, Reachable
<1>2. CASE \E u \in Users : Clear(u)
  BY <1>2 DEF TypeOK, Clear
<1>3. CASE \E u \in Users : ClearFree(u)
  <2>1. PICK u \in Users : ClearFree(u)
    BY <1>3
  <2>2. workingSet[u] = NoSet
    BY <2>1 DEF ClearFree
  <2>3. dangling' = {}
    BY <2>1, <2>2 DEF ClearFree
  <2>4. /\ UNCHANGED <<workingSet, tagged, scanned, gpc, todo>>
        /\ pc[u] \notin {"unpend", "run"}
        /\ \A v \in Users : v # u => pc'[v] = pc[v]
    BY <2>1 DEF TypeOK, ClearFree
  <2> QED
    BY <2>3, <2>4
<1>4. CASE \E u \in Users : DelCommit(u)
  BY <1>4 DEF TypeOK, DelCommit
<1>5. CASE \E u \in Users : RegisterUser(u) \/ Lock(u) \/ Fetch(u) \/ Create(u) \/ Unpend(u)
                            \/ WriteReply(u)
  <2>1. PICK u \in Users : RegisterUser(u) \/ Lock(u) \/ Fetch(u) \/ Create(u) \/ Unpend(u)
                            \/ WriteReply(u)
    BY <1>5
  <2>2. /\ UNCHANGED <<workingSet, tagged, dangling, scanned, gpc, todo>>
        /\ \A v \in Users : v # u => pc'[v] = pc[v]
        /\ pc[u] \in {"unpend", "run"} => pc'[u] = "run"
    BY <2>1 DEF TypeOK, RegisterUser, Lock, Fetch, Create, Unpend, WriteReply
  <2> QED
    BY <2>2
<1>6. CASE \E u \in Users : Unlink(u) \/ NotFound(u) \/ FreeStamp(u) \/ FreeSearch(u)
                            \/ FreeList(u)
  <2>1. PICK u \in Users : Unlink(u) \/ NotFound(u) \/ FreeStamp(u) \/ FreeSearch(u)
                            \/ FreeList(u)
    BY <1>6
  <2>2. /\ UNCHANGED <<workingSet, tagged, dangling, scanned, gpc, todo>>
        /\ pc[u] \notin {"unpend", "run"}
        /\ \A v \in Users : v # u => pc'[v] = pc[v]
    BY <2>1 DEF TypeOK, Unlink, NotFound, FreeStamp, FreeSearch, FreeList
  <2> QED
    BY <2>2
<1>7. CASE CollectTag
  <2>1. todo # <<>>
    BY <1>7 DEF CollectTag, Phases, Scanning
  <2> QED
    BY <1>7, <2>1, TailType DEF TypeOK, CollectTag
<1>8. CASE CollectMark
  BY <1>8 DEF CollectMark
<1>9. CASE CollectRestore
  BY <1>9 DEF TypeOK, CollectRestore
<1>10. CASE CollectStart \/ CollectBump \/ CollectWait \/ CollectWalk \/ WalkRemove
            \/ WalkFree \/ WalkEnd
  BY <1>10 DEF CollectStart, CollectBump, CollectWait, CollectWalk, WalkRemove, WalkFree, WalkEnd
<1> QED
  BY <1>1, <1>2, <1>3, <1>4, <1>5, <1>6, <1>7, <1>8, <1>9, <1>10 DEF Next, UserStep, Collect

(* The walk removes no entry that a pending user has a pointer to. *)
LEMMA HeldIsKept ==
  ASSUME Inv, Blocks, gpc = "walk",
         NEW a \in DOMAIN entries, entries[a].used < ctr,
         NEW u \in Users, pending[u]
  PROVE  a \notin Held(u)
<1>1. Old(a)
  BY DEF Old, Limit
<1>2. todo = <<>>
  BY DEF Inv, Phases
<1>3. u \notin Awaited
  BY <1>2 DEF Awaited, Members, Scanning
<1> QED
  BY <1>1, <1>3 DEF Blocks, Protected

(* No block is reached in two ways. *)
LEMMA BlocksStep ==
  ASSUME Inv, Blocks, Next, ~wild'
  PROVE  BlocksApart'
<1> USE DEF Inv, BlocksApart, Sound, Unlinked, Unlisted, Goto, Deleting, objects, gcUsers, local,
            scan
<1> BlocksApart /\ TypeOK /\ Brackets
  BY DEF Blocks
<1> USE DEF Brackets
<1>1. CASE \E u \in Users : Create(u)
  <2>1. PICK u \in Users, o \in Addrs \ heap :
          /\ pc[u] = "fetch"
          /\ heap' = heap \cup {o} /\ table' = table \cup {o}
          /\ UNCHANGED <<entries, pc, cts, gpc, victim, cursor>>
    BY <1>1 DEF Create
  <2> QED
    BY <2>1 DEF TypeOK
<1>2. CASE \E u \in Users : Unlink(u)
  <2>1. PICK u \in Users, o \in table :
          /\ pc[u] = "del"
          /\ table' = table \ {o}
          /\ cts' = [cts EXCEPT ![u] = o]
          /\ pc' = [pc EXCEPT ![u] = "stamp"]
          /\ UNCHANGED <<heap, entries, gpc, victim, cursor>>
    BY <1>2 DEF Unlink
  <2>2. /\ cts'[u] = o /\ pc'[u] = "stamp"
        /\ \A v \in Users : v # u => cts'[v] = cts[v] /\ pc'[v] = pc[v]
    BY <2>1 DEF TypeOK
  <2>3. Unlisted(o)'
    BY <2>1
  <2>4. \A v \in Users : cts[v] # NoAddr => cts[v] # o
    BY <2>1
  <2>5. o # NoAddr
    BY NoAddrAssumption DEF TypeOK
  <2>6. \A q : q # o /\ Unlisted(q) => Unlisted(q)'
    BY <2>1
  <2>7. \A v \in Users : pc'[v] \in Deleting =>
          (cts[v] \in DOMAIN entries \/ Unlisted(cts[v]))'
    <3> SUFFICES ASSUME NEW v \in Users, pc'[v] \in Deleting
                 PROVE  (cts[v] \in DOMAIN entries \/ Unlisted(cts[v]))'
      OBVIOUS
    <3>1. CASE v = u
      BY <2>2, <2>3, <3>1
    <3>2. CASE v # u
      BY <2>1, <2>2, <2>4, <2>6, <3>2
    <3> QED
      BY <3>1, <3>2
  <2>8. \A v \in Users : pc'[v] = "del" /\ cts'[v] # NoAddr => cts'[v] \in DOMAIN entries'
    BY <2>1, <2>2
  <2>9. \A v, w \in Users : cts'[v] = cts'[w] /\ cts'[v] # NoAddr => v = w
    BY <2>2, <2>4, <2>5
  <2>10. Unlinked'
    BY <2>7, <2>8, <2>9
  <2> QED
    BY <2>1, <2>2, <2>3, <2>10
<1>3. CASE \E u \in Users : NotFound(u)
  <2>1. PICK u \in Users : NotFound(u)
    BY <1>3
  <2>2. PICK p \in Addrs :
          /\ cts' = [cts EXCEPT ![u] = p]
          /\ wild' = (wild \/ p # cts[u])
    BY <2>1 DEF NotFound
  <2>3. p = cts[u]
    BY <2>2
  <2>4. UNCHANGED cts /\ p # NoAddr
    BY <2>2, <2>3, NoAddrAssumption DEF TypeOK
  <2>5. /\ pc[u] = "del" /\ pc'[u] = "stamp"
        /\ \A v \in Users : v # u => pc'[v] = pc[v]
        /\ UNCHANGED <<objects, gpc, victim, cursor>>
    BY <2>1 DEF TypeOK, NotFound
  <2>6. cts[u] \in DOMAIN entries
    BY <2>3, <2>4, <2>5
  <2> QED
    BY <2>4, <2>5, <2>6
<1>4. CASE \E u \in Users : FreeList(u)
  <2>1. PICK u \in Users : FreeList(u)
    BY <1>4
  <2>2. /\ pc[u] \in Deleting /\ pc'[u] = "del"
        /\ \A v \in Users : v # u => pc'[v] = pc[v]
        /\ UNCHANGED <<table, cts, gpc, victim, cursor>>
    BY <2>1 DEF TypeOK, FreeList
  <2>3. CASE cts[u] \in DOMAIN entries /\ UNCHANGED <<heap, entries>>
    BY <2>2, <2>3
  <2>4. CASE \E n \in Addrs \ heap :
               /\ cts[u] \notin DOMAIN entries
               /\ heap' = heap \cup {n}
               /\ DOMAIN entries' = DOMAIN entries \cup {cts[u]}
               /\ entries'[cts[u]] = [used |-> used[u], node |-> n]
               /\ \A a \in DOMAIN entries : entries'[a] = entries[a]
    <3>1. PICK n \in Addrs \ heap :
            /\ cts[u] \notin DOMAIN entries
            /\ heap' = heap \cup {n}
            /\ DOMAIN entries' = DOMAIN entries \cup {cts[u]}
            /\ entries'[cts[u]] = [used |-> used[u], node |-> n]
            /\ \A a \in DOMAIN entries : entries'[a] = entries[a]
      BY <2>4
    <3>2. Unlisted(cts[u]) /\ cts[u] # NoAddr
      BY <2>2, <3>1
    <3>3. Sound' /\ (table \subseteq heap)'
      BY <2>2, <3>1, <3>2
    <3>4. \A o \in heap : o # cts[u] /\ Unlisted(o) => Unlisted(o)'
      BY <2>2, <3>1
    <3>5. \A v \in Users : v # u => cts[v] # cts[u]
      BY <3>2
    <3>6. Unlinked'
      BY <2>2, <3>1, <3>4, <3>5
    <3> QED
      BY <2>2, <3>1, <3>2, <3>3, <3>4, <3>6
  <2> QED
    BY <2>1, <2>3, <2>4, EntryListed
<1>5. CASE \E u \in Users : FreeStamp(u) \/ FreeSearch(u)
  <2>1. PICK u \in Users : FreeStamp(u) \/ FreeSearch(u)
    BY <1>5
  <2>2. /\ pc[u] \in Deleting /\ pc'[u] \in Deleting
        /\ \A v \in Users : v # u => pc'[v] = pc[v]
        /\ UNCHANGED <<objects, cts, gpc, victim, cursor>>
    BY <2>1 DEF TypeOK, FreeStamp, FreeSearch
  <2> QED
    BY <2>2
<1>6. CASE \E u \in Users : RegisterUser(u) \/ Lock(u) \/ Fetch(u) \/ CommitSet(u) \/ Unpend(u)
                            \/ Clear(u) \/ ClearFree(u) \/ WriteReply(u)
  <2>1. PICK u \in Users : RegisterUser(u) \/ Lock(u) \/ Fetch(u) \/ CommitSet(u) \/ Unpend(u)
                            \/ Clear(u) \/ ClearFree(u) \/ WriteReply(u)
    BY <1>6
  <2>2. /\ pc[u] \notin {"del"} \cup Deleting /\ pc'[u] \notin Deleting
        /\ \A v \in Users : v # u => pc'[v] = pc[v]
        /\ UNCHANGED <<objects, cts, gpc, victim, cursor>>
    BY <2>1 DEF TypeOK, RegisterUser, Lock, Fetch, CommitSet, Unpend, Clear, ClearFree,
                WriteReply
  <2>3. cts[u] = NoAddr
    BY <2>2
  <2> QED
    BY <2>2, <2>3
<1>7. CASE \E u \in Users : DelCommit(u)
  <2>1. PICK u \in Users : DelCommit(u)
    BY <1>7
  <2>2. /\ pc'[u] = "idle" /\ cts'[u] = NoAddr
        /\ \A v \in Users : v # u => pc'[v] = pc[v] /\ cts'[v] = cts[v]
        /\ UNCHANGED <<objects, gpc, victim, cursor>>
    BY <2>1 DEF TypeOK, DelCommit
  <2>3. gpc = "free" => victim # NoAddr
    BY NoAddrAssumption DEF TypeOK
  <2>4. Unlinked'
    BY <2>2
  <2> QED
    BY <2>2, <2>3, <2>4
<1>8. CASE WalkRemove
  <2>1. PICK a \in DOMAIN entries, n \in Addrs \ heap :
          /\ entries[a].used < ctr
          /\ victim' = a /\ cursor' = entries[a].node
          /\ heap' = heap \cup {n}
          /\ DOMAIN entries' = (DOMAIN entries \ {a}) \cup {entries[a].node}
          /\ entries'[entries[a].node] = [used |-> usedCtr, node |-> n]
          /\ \A b \in DOMAIN entries \ {a} : entries'[b] = entries[b]
    BY <1>8, EntryMoved
  <2>2. UNCHANGED <<table, pc, cts>> /\ gpc = "walk" /\ gpc' = "free"
    BY <1>8 DEF WalkRemove
  <2>3. Unlisted(a)' /\ cursor' # a /\ cursor' \in heap
    BY <2>1, <2>2
  <2>4. Sound' /\ (table \subseteq heap)'
    BY <2>1, <2>2, <2>3
  <2>5. \A o \in heap : Unlisted(o) => Unlisted(o)' /\ o # a
    BY <2>1, <2>2
  <2>6. \A u \in Users : cts[u] # a
    <3> SUFFICES ASSUME NEW u \in Users, cts[u] = a
                 PROVE  FALSE
      OBVIOUS
    <3>1. a # NoAddr
      BY NoAddrAssumption DEF TypeOK
    <3>2. pending[u]
      BY <3>1
    <3>3. a \in Held(u)
      BY <3>1 DEF Held
    <3> QED
      BY <2>1, <2>2, <3>2, <3>3, HeldIsKept
  <2>7. Unlinked'
    BY <2>1, <2>2, <2>5, <2>6
  <2> QED
    BY <2>1, <2>2, <2>3, <2>4, <2>5, <2>6, <2>7
<1>9. CASE WalkFree
  <2>1. /\ gpc = "free" /\ gpc' # "free"
        /\ heap' = heap \ {victim}
        /\ UNCHANGED <<table, entries, pc, cts, cursor>>
    BY <1>9 DEF WalkFree
  <2>2. \A o : o # victim /\ Unlisted(o) => Unlisted(o)'
    BY <2>1
  <2> QED
    BY <2>1, <2>2
<1>10. CASE CollectStart \/ CollectBump \/ CollectWait \/ CollectTag \/ CollectMark
            \/ CollectRestore \/ CollectWalk \/ WalkEnd
  <2>1. /\ gpc' # "free"
        /\ UNCHANGED <<heap, table, entries, pc, cts>>
        /\ cursor' \in {cursor, NoAddr}
    BY <1>10 DEF CollectStart, CollectBump, CollectWait, CollectTag, CollectMark, CollectRestore,
                CollectWalk, WalkEnd
  <2> QED
    BY <2>1
<1> QED
  BY <1>1, <1>2, <1>3, <1>4, <1>5, <1>6, <1>7, <1>8, <1>9, <1>10 DEF Next, UserStep, Collect

-----------------------------------------------------------------------------
(* What a user's step must respect for the collector to stay clear of it. *)
LEMMA ProtectedByUser ==
  ASSUME Protected,
         UNCHANGED <<usedCtr, gpc, ctr, todo, victim>>,
         heap \subseteq heap',
         \A o \in heap : Old(o)' => Old(o),
         \A v \in Users : pending'[v] => \A o \in Held(v)' :
           \/ pending[v] /\ o \in Held(v)
           \/ o \in heap' /\ ~Old(o)' /\ (gpc = "free" => o # victim)
  PROVE  Protected'
<1>1. Awaited' = Awaited
  BY DEF Awaited
<1> SUFFICES ASSUME NEW v \in Users, pending'[v], NEW o \in Held(v)'
             PROVE  /\ o \in heap'
                    /\ gpc' = "free" => o # victim'
                    /\ gpc' \notin {"idle", "fault"} /\ Old(o)' => v \in Awaited'
  BY DEF Protected
<1>2. CASE pending[v] /\ o \in Held(v)
  <2>1. /\ o \in heap
        /\ gpc = "free" => o # victim
        /\ gpc \notin {"idle", "fault"} /\ Old(o) => v \in Awaited
    BY <1>2 DEF Protected
  <2> QED
    BY <1>1, <2>1
<1>3. CASE o \in heap' /\ ~Old(o)' /\ (gpc = "free" => o # victim)
  BY <1>3
<1> QED
  BY <1>2, <1>3

(* What is reached from the key table, is not allocated or is a node of    *)
(* the free list is not old, and not about to be freed.                    *)
LEMMA Young ==
  ASSUME BlocksApart,
         NEW o,
         o \in table \/ o \notin heap \/ \E a \in DOMAIN entries : o = entries[a].node
  PROVE  ~Old(o) /\ (gpc = "free" => o # victim)
<1> USE DEF BlocksApart, Sound, Unlinked, Unlisted, Deleting
<1>1. o \notin DOMAIN entries
  OBVIOUS
<1>2. \A u \in Users : pc[u] \in Deleting => cts[u] # o
  OBVIOUS
<1>3. gpc = "free" => o # victim
  OBVIOUS
<1> QED
  BY <1>1, <1>2, <1>3 DEF Old

(* Users keep out of the collector's way. *)
LEMMA ProtectedUserStep ==
  ASSUME Inv, Blocks, ~wild', NEW u \in Users, UserStep(u)
  PROVE  Protected'
<1> USE DEF Goto, objects, gcUsers, local, scan
<1> TypeOK /\ Brackets /\ BlocksApart /\ Protected
  BY DEF Inv, Blocks
<1>1. UNCHANGED <<usedCtr, gpc, ctr, todo, victim>> /\ heap \subseteq heap' /\ Limit' = Limit
  BY DEF UserStep, RegisterUser, Lock, Fetch, Create, CommitSet, Unpend, Clear, ClearFree,
         WriteReply, Unlink, NotFound, FreeStamp, FreeSearch, FreeList, DelCommit, AddEntry, Limit
<1>2. CASE Lock(u)
  <2>1. /\ \A v \in Users : v # u => pending'[v] = pending[v]
        /\ UNCHANGED <<refs, cts>> /\ refs[u] = {} /\ cts[u] = NoAddr
    BY <1>2 DEF TypeOK, Brackets, Deleting, Lock
  <2>2. Held(u)' = {} /\ \A v \in Users : Held(v)' = Held(v)
    BY <2>1 DEF Held
  <2>3. \A o \in heap : Old(o)' => Old(o)
    BY <1>1, <1>2 DEF TypeOK, Old, Lock
  <2> QED
    BY <1>1, <2>1, <2>2, <2>3, ProtectedByUser
<1>3. CASE Fetch(u)
  <2>1. PICK o \in table : refs' = [refs EXCEPT ![u] = @ \cup {o}]
    BY <1>3 DEF Fetch
  <2>2. UNCHANGED <<heap, pending, cts>> /\ \A q : Old(q)' <=> Old(q)
    BY <1>1, <1>3 DEF Old, Fetch
  <2>3. o \in heap' /\ ~Old(o)' /\ (gpc = "free" => o # victim)
    BY <2>2, Young DEF BlocksApart
  <2>4. \A v \in Users : \A q \in Held(v)' : q \in Held(v) \/ q = o
    BY <2>1, <2>2 DEF TypeOK, Held
  <2> QED
    BY <1>1, <2>2, <2>3, <2>4, ProtectedByUser
<1>4. CASE Create(u)
  <2>1. PICK o \in Addrs \ heap :
          /\ heap' = heap \cup {o}
          /\ refs' = [refs EXCEPT ![u] = @ \cup {o}]
    BY <1>4 DEF Create
  <2>2. UNCHANGED <<pending, cts>> /\ \A q : Old(q)' <=> Old(q)
    BY <1>1, <1>4 DEF Old, Create
  <2>3. o \in heap' /\ ~Old(o)' /\ (gpc = "free" => o # victim)
    BY <2>1, <2>2, Young
  <2>4. \A v \in Users : \A q \in Held(v)' : q \in Held(v) \/ q = o
    BY <2>1, <2>2 DEF TypeOK, Held
  <2> QED
    BY <1>1, <2>2, <2>3, <2>4, ProtectedByUser
<1>5. CASE Unlink(u)
  <2>1. PICK o \in table :
          /\ cts' = [cts EXCEPT ![u] = o]
          /\ pc' = [pc EXCEPT ![u] = "stamp"]
    BY <1>5 DEF Unlink
  <2>2. UNCHANGED <<heap, entries, used, pending, refs>>
    BY <1>5 DEF Unlink
  <2>3. \A q : Old(q)' => Old(q)
    BY <1>1, <2>1, <2>2 DEF TypeOK, Old
  <2>4. o \in heap' /\ ~Old(o)' /\ (gpc = "free" => o # victim)
    BY <2>2, <2>3, Young DEF BlocksApart
  <2>5. \A v \in Users : \A q \in Held(v)' : q \in Held(v) \/ q = o
    BY <2>1, <2>2 DEF TypeOK, Held
  <2> QED
    BY <1>1, <2>2, <2>3, <2>4, <2>5, ProtectedByUser
<1>6. CASE NotFound(u)
  <2>1. PICK p \in Addrs :
          /\ cts' = [cts EXCEPT ![u] = p]
          /\ wild' = (wild \/ p # cts[u])
    BY <1>6 DEF NotFound
  <2>2. UNCHANGED cts
    BY <2>1 DEF TypeOK
  <2>3. pc' = [pc EXCEPT ![u] = "stamp"] /\ UNCHANGED <<heap, entries, used, pending, refs>>
    BY <1>6 DEF NotFound
  <2>4. \A q : Old(q)' => Old(q)
    BY <1>1, <2>2, <2>3 DEF TypeOK, Old
  <2>5. \A v \in Users : Held(v)' = Held(v)
    BY <2>2, <2>3 DEF Held
  <2> QED
    BY <1>1, <2>3, <2>4, <2>5, ProtectedByUser
<1>7. CASE FreeStamp(u)
  <2>1. /\ UNCHANGED <<heap, entries, cts, pending, refs>>
        /\ used' = [used EXCEPT ![u] = usedCtr] /\ pc[u] = "stamp"
        /\ pc' = [pc EXCEPT ![u] = "search"]
    BY <1>7 DEF FreeStamp
  <2>2. Limit <= usedCtr
    BY DEF Inv, TypeOK, Phases, Limit
  <2>3. ~(used'[u] < Limit)
    BY <2>1, <2>2 DEF TypeOK, Limit
  <2>4. \A v \in Users : v # u => pc'[v] = pc[v] /\ used'[v] = used[v]
    BY <2>1 DEF TypeOK
  <2>5. \A o : Old(o)' => Old(o)
    BY <1>1, <2>1, <2>3, <2>4 DEF Old
  <2>6. \A v \in Users : Held(v)' = Held(v)
    BY <2>1 DEF Held
  <2> QED
    BY <1>1, <2>1, <2>5, <2>6, ProtectedByUser
<1>8. CASE FreeSearch(u)
  <2>1. PICK o : /\ \E a \in DOMAIN entries : o = entries[a].node
                 /\ refs' = [refs EXCEPT ![u] = @ \cup {o}]
    BY <1>8 DEF FreeSearch
  <2>2. /\ UNCHANGED <<heap, entries, cts, used, pending>>
        /\ pc' = [pc EXCEPT ![u] = "list"] /\ pc[u] = "search"
    BY <1>8 DEF FreeSearch
  <2>3. \A q : Old(q)' => Old(q)
    BY <1>1, <2>2 DEF TypeOK, Old
  <2>4. o \in heap' /\ ~Old(o)' /\ (gpc = "free" => o # victim)
    BY <2>1, <2>2, <2>3, Young DEF BlocksApart, Sound
  <2>5. \A v \in Users : \A q \in Held(v)' : q \in Held(v) \/ q = o
    BY <2>1, <2>2 DEF TypeOK, Held
  <2> QED
    BY <1>1, <2>2, <2>3, <2>4, <2>5, ProtectedByUser
<1>9. CASE FreeList(u)
  <2>1. /\ pc[u] \in {"search", "list"} /\ pc'[u] = "del" /\ UNCHANGED <<pending, cts>>
        /\ \A v \in Users : v # u => pc'[v] = pc[v] /\ used'[v] = used[v]
        /\ \A v \in Users : refs'[v] \subseteq refs[v]
    BY <1>9 DEF TypeOK, FreeList
  <2>2. \/ UNCHANGED entries
        \/ /\ DOMAIN entries' = DOMAIN entries \cup {cts[u]}
           /\ entries'[cts[u]].used = used[u]
           /\ \A a \in DOMAIN entries : entries'[a] = entries[a]
    <3>1. CASE cts[u] \in DOMAIN entries /\ UNCHANGED <<heap, entries>>
      BY <3>1
    <3>2. CASE \E n \in Addrs \ heap :
                 /\ DOMAIN entries' = DOMAIN entries \cup {cts[u]}
                 /\ entries'[cts[u]] = [used |-> used[u], node |-> n]
                 /\ \A a \in DOMAIN entries : entries'[a] = entries[a]
      BY <3>2
    <3> QED
      BY <1>9, <3>1, <3>2, EntryListed
  <2>3. \A o : Old(o)' => Old(o)
    BY <1>1, <2>1, <2>2 DEF Old
  <2>4. \A v \in Users : Held(v)' \subseteq Held(v)
    BY <2>1 DEF Held
  <2> QED
    BY <1>1, <2>1, <2>3, <2>4, ProtectedByUser
<1>10. CASE \/ RegisterUser(u) \/ CommitSet(u) \/ Unpend(u) \/ Clear(u) \/ ClearFree(u)
            \/ WriteReply(u) \/ DelCommit(u)
  <2>1. /\ UNCHANGED <<heap, entries, used>>
        /\ \A v \in Users : (pending'[v] => pending[v]) /\ refs'[v] \subseteq refs[v]
        /\ \A v \in Users : v # u => pc'[v] = pc[v] /\ cts'[v] = cts[v]
        /\ pc'[u] \notin {"search", "list"}
        /\ cts'[u] \in {cts[u], NoAddr}
    BY <1>10 DEF TypeOK, RegisterUser, CommitSet, Unpend, Clear, ClearFree, WriteReply, DelCommit
  <2>2. \A o : Old(o)' => Old(o)
    BY <1>1, <2>1 DEF Old
  <2>3. \A v \in Users : Held(v)' \subseteq Held(v)
    BY <2>1 DEF Held
  <2> QED
    BY <1>1, <2>1, <2>2, <2>3, ProtectedByUser
<1> QED
  BY <1>2, <1>3, <1>4, <1>5, <1>6, <1>7, <1>8, <1>9, <1>10 DEF UserStep

(* The collector keeps out of the users' way. *)
LEMMA ProtectedCollectStep ==
  ASSUME Inv, Blocks, Collect
  PROVE  Protected'
<1> USE DEF Scanning, objects, gcUsers, local, scan
<1> TypeOK /\ Brackets /\ Phases /\ BlocksApart /\ Protected
  BY DEF Inv, Blocks
<1>1. CASE CollectStart
  <2>1. \A u \in Users : pending[u] => u \in Awaited'
    BY <1>1 DEF Brackets, Deleting, CollectStart, Awaited
  <2> QED
    BY <1>1, <2>1 DEF CollectStart, Protected, Held
<1>2. CASE CollectBump
  <2>1. /\ gpc = "bump" /\ gpc' = "wait" /\ UNCHANGED <<heap, pending, refs, cts>>
        /\ Limit' = Limit /\ Awaited' = Awaited
        /\ UNCHANGED <<entries, pc, used>>
    BY <1>2 DEF CollectBump, Limit, Awaited
  <2>2. \A o : Old(o)' <=> Old(o)
    BY <2>1 DEF Old
  <2> QED
    BY <2>1, <2>2 DEF Protected, Held
<1>3. CASE CollectWait
  <2>1. /\ gpc = "wait" /\ gpc' = "tag" /\ todo # <<>> /\ ~pending[Head(todo)]
        /\ UNCHANGED <<heap, pending, refs, cts, todo>>
        /\ Limit' = Limit
        /\ UNCHANGED <<entries, pc, used>>
    BY <1>3 DEF CollectWait, Limit
  <2>2. \A o : Old(o)' <=> Old(o)
    BY <2>1 DEF Old
  <2>3. Awaited = {Head(todo)} \cup Awaited'
    BY <2>1, MembersTail DEF TypeOK, Awaited
  <2> QED
    BY <2>1, <2>2, <2>3 DEF Protected, Held
<1>4. CASE CollectTag \/ CollectMark \/ CollectRestore \/ CollectWalk
  <2>1. /\ gpc \in Scanning \cup {"wait"} /\ gpc' \in Scanning \cup {"wait", "walk"}
        /\ UNCHANGED <<heap, pending, refs, entries, pc, cts, used>>
        /\ Limit' = Limit /\ Awaited' = Awaited
    BY <1>4 DEF CollectTag, CollectMark, CollectRestore, CollectWalk, Limit, Awaited
  <2>2. \A o : Old(o)' <=> Old(o)
    BY <2>1 DEF Old
  <2> QED
    BY <2>1, <2>2 DEF Protected, Held
<1>5. CASE WalkRemove
  <2>1. /\ gpc = "walk" /\ gpc' = "free" /\ todo = <<>>
        /\ UNCHANGED <<pending, refs, pc, cts, used, todo, ctr, usedCtr>>
        /\ Limit' = Limit /\ Limit = ctr
    BY <1>5 DEF WalkRemove, Phases, Limit
  <2>2. PICK a \in DOMAIN entries, n \in Addrs \ heap :
          /\ entries[a].used < ctr
          /\ victim' = a
          /\ heap' = heap \cup {n}
          /\ DOMAIN entries' = (DOMAIN entries \ {a}) \cup {entries[a].node}
          /\ entries'[entries[a].node] = [used |-> usedCtr, node |-> n]
          /\ \A b \in DOMAIN entries \ {a} : entries'[b] = entries[b]
    BY <1>5, EntryMoved
  <2>3. Awaited' = Awaited
    BY <2>1 DEF Awaited
  <2>4. \A u \in Users : Held(u)' = Held(u)
    BY <2>1 DEF Held
  <2>5. \A u \in Users : pending[u] => a \notin Held(u)
    BY <2>1, <2>2, HeldIsKept
  <2>6. ~(usedCtr < Limit)
    BY <2>1 DEF TypeOK, Phases
  <2>7. \A o : Old(o)' => Old(o)
    BY <2>1, <2>2, <2>6 DEF Old
  <2> QED
    BY <2>1, <2>2, <2>3, <2>4, <2>5, <2>7 DEF Protected
<1>6. CASE WalkFree
  <2>1. /\ gpc = "free" /\ gpc' \in {"walk", "fault"} /\ heap' = heap \ {victim}
        /\ UNCHANGED <<pending, refs, pc, cts, used, entries>>
        /\ Limit' = Limit /\ Awaited' = Awaited
    BY <1>6 DEF WalkFree, Limit, Awaited
  <2>2. \A o : Old(o)' <=> Old(o)
    BY <2>1 DEF Old
  <2> QED
    BY <2>1, <2>2 DEF Protected, Held
<1>7. CASE WalkEnd
  <2>1. gpc' \in {"idle", "fault"} /\ UNCHANGED <<heap, pending, refs, cts>>
    BY <1>7 DEF WalkEnd
  <2> QED
    BY <2>1 DEF Protected, Held
<1> QED
  BY <1>1, <1>2, <1>3, <1>4, <1>5, <1>6, <1>7 DEF Collect

-----------------------------------------------------------------------------
(* What an uninitialised pointer has spoilt stays so. *)
LEMMA StaysWild ==
  ASSUME Next, wild
  PROVE  wild'
<1> USE DEF objects, gcUsers, local, scan
<1>1. CASE \E u \in Users : UserStep(u)
  BY <1>1 DEF UserStep, RegisterUser, Lock, Fetch, Create, CommitSet, Unpend, Clear, ClearFree,
              WriteReply, Unlink, NotFound, FreeStamp, FreeSearch, FreeList, DelCommit
<1>2. CASE Collect
  BY <1>2 DEF Collect, CollectStart, CollectBump, CollectWait, CollectTag, CollectMark,
              CollectRestore, CollectWalk, WalkRemove, WalkFree, WalkEnd
<1> QED
  BY <1>1, <1>2 DEF Next

(* Every step, a stuttering one included, keeps the invariant. *)
LEMMA NextInv == ASSUME Inv, [Next]_vars PROVE Inv'
<1>1. CASE Next
  <2>1. TypeOK' /\ Brackets' /\ Phases' /\ SetsOwned'
    BY <1>1, TypeStep, BracketsStep, PhasesStep, SetsStep
  <2>2. CASE wild'
    BY <2>1, <2>2 DEF Inv
  <2>3. CASE ~wild'
    <3>1. ~wild
      BY <1>1, <2>3, StaysWild
    <3>2. Blocks
      BY <3>1 DEF Inv
    <3>3. Protected'
      BY <1>1, <2>3, <3>2, ProtectedUserStep, ProtectedCollectStep DEF Next
    <3>4. BlocksApart'
      BY <1>1, <2>3, <3>2, BlocksStep
    <3> QED
      BY <2>1, <3>3, <3>4 DEF Inv, Blocks
  <2> QED
    BY <2>2, <2>3
<1>2. CASE UNCHANGED vars
  <2> USE <1>2 DEF vars, objects, gcUsers, local, scan
  <2>1. TypeOK' /\ Brackets' /\ Phases' /\ SetsOwned'
    BY DEF Inv, TypeOK, Brackets, Phases, SetsOwned, NoStaleSet
  <2>2. CASE wild
    BY <2>1, <2>2 DEF Inv
  <2>3. CASE Blocks
    <3>1. BlocksApart'
      BY <2>3 DEF Blocks, BlocksApart, Sound, Unlinked, Unlisted
    <3>2. Protected'
      BY <2>3 DEF Blocks, Protected, Held, Awaited, Old, Limit
    <3> QED
      BY <2>1, <3>1, <3>2 DEF Inv, Blocks
  <2> QED
    BY <2>2, <2>3 DEF Inv
<1> QED
  BY <1>1, <1>2

(* In every reachable state each working set has one owner, and until a    *)
(* DEL of a missing key puts an uninitialised pointer on the free list,    *)
(* each block is reached in one way and nothing that is stamped before the *)
(* collection under way is in the hands of a pending user it need not wait *)
(* for.                                                                    *)
THEOREM Invariance == Spec => []Inv
<1>1. Init => Inv
  BY InitInv
<1>2. Inv /\ [Next]_vars => Inv'
  BY NextInv
<1> QED
  BY <1>1, <1>2, PTL DEF Spec

(* Every field keeps its type. *)
THEOREM TypeCorrect == Spec => []TypeOK
<1>1. Inv => TypeOK
  BY DEF Inv
<1> QED
  BY <1>1, Invariance, PTL

(* gc_run frees nothing that a user between gc_lock and gc_commit points   *)
(* at, however many users there are and whenever they register, until an   *)
(* uninitialised cts is put on the free list.                              *)
THEOREM PendingIsProtected == Spec => []PendingProtected
<1>1. Inv => PendingProtected
  BY DEF Inv, Blocks, Protected, PendingProtected
<1> QED
  BY <1>1, Invariance, PTL

(* What is on the free list is allocated, unreachable from the key table   *)
(* and in a node of its own, so that gc_run frees no block twice, also     *)
(* when command_del gives a value to gc_free again for a key it does not   *)
(* find; until it gives it a cts that nothing has set.                     *)
THEOREM FreeListIsSound == Spec => []FreeListSound
<1>1. Inv => FreeListSound
  BY DEF Inv, Blocks, BlocksApart, Sound, Unlisted, FreeListSound
<1> QED
  BY <1>1, Invariance, PTL

(* gc_run's walk stands on a node that it has not freed yet, until an      *)
(* uninitialised cts is put on the free list.                              *)
THEOREM WalkerIsOnLiveNode == Spec => []WalkerOnLiveNode
<1>1. Inv => WalkerOnLiveNode
  BY DEF Inv, Blocks, BlocksApart, WalkerOnLiveNode
<1> QED
  BY <1>1, Invariance, PTL

(* The working set gc_run looks through has not been freed. *)
THEOREM ScannedSetIsAllocated == Spec => []ScannedIsAllocated
<1>1. Inv => ScannedIsAllocated
  BY DEF Inv, SetsOwned, ScannedIsAllocated
<1> QED
  BY <1>1, Invariance, PTL

(* gc_run never puts back a working set that its user has cleared. *)
THEOREM SetsAreNotStale == Spec => []NoStaleSet
<1>1. Inv => NoStaleSet
  BY DEF Inv, SetsOwned
<1> QED
  BY <1>1, Invariance, PTL
=============================================================================
