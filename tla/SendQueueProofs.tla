-------------------------- MODULE SendQueueProofs --------------------------
(***************************************************************************)
(* Proofs about the reply queue for any set of workers, any length, any    *)
(* element length and any IntLimit: the inductive invariant and what       *)
(* follows from it.                                                        *)
(***************************************************************************)
EXTENDS SendQueue, TLAPS

Loops == {"zero", "commit", "popCopy", "nextCopy"}

(* Every copying loop starts with the first word.                          *)
WordReset == \A t \in Threads : pc[t] \notin Loops => word[t] = 1

(* The registered and unsent commands fill a window no longer than the     *)
(* queue, so that no two of them share a slot.                             *)
Window == head <= tail /\ tail <= head + Length

(* An index that is negative as an int is never committed, so head stops   *)
(* at the first one.                                                       *)
HeadBound == head <= IntLimit

(* Without a sender the queue is at rest.                                  *)
AtRest == (\A t \in Threads : pc[t] \notin HoldingLock)
          => headLock = head /\ Len(sent) = head

(* Where the sender is between its CAS and its release.                    *)
Sender(t) ==
  /\ pc[t] \in HoldingLock => head < tail /\ ready[Slot(head)]
  /\ pc[t] \in HoldingLock \ {"nextHead"} => headLock = head + 1
  /\ pc[t] \in HoldingLock \ {"send"} => Len(sent) = head + 1
  /\ pc[t] = "send" => Len(sent) = head /\ buf[t] = Reply(head)
  /\ pc[t] = "nextHead" => headLock = head + 2
  /\ pc[t] \in {"nextReady", "nextCopy", "nextLock", "nextHead"} =>
       attempt[t] = head /\ head + 1 < tail
  /\ pc[t] \in {"nextCopy", "nextLock", "nextHead"} => ready[Slot(head + 1)]
  /\ pc[t] = "nextCopy" =>
       \A w \in Words : w < word[t] => buf[t][w] = head + 1
  /\ pc[t] \in {"nextLock", "nextHead"} => buf[t] = Reply(head + 1)

(* A worker in pop_start can win head_lock only with the whole reply at    *)
(* the head: attempt is headLock only while nothing has changed there.     *)
Popper(t) ==
  /\ pc[t] \in Popping => attempt[t] <= head
  /\ pc[t] \in Popping \ {"popTail"} /\ attempt[t] = headLock => head < tail
  /\ pc[t] \in {"popCopy", "popLock"} /\ attempt[t] = headLock =>
       ready[Slot(head)]
  /\ pc[t] = "popCopy" /\ attempt[t] = headLock =>
       \A w \in Words : w < word[t] => buf[t][w] = head
  /\ pc[t] = "popLock" /\ attempt[t] = headLock => buf[t] = Reply(head)

(* A ready slot of the window holds the whole reply, and its index was     *)
(* returned to the caller.                                                 *)
ReadyIsWhole ==
  \A i \in head .. tail - 1 :
    ready[Slot(i)] => data[Slot(i)] = Reply(i) /\ i < IntLimit

(* A command in the pipe waits for the one worker that will take it.       *)
PipedPending ==
  \A i \in piped : /\ head <= i /\ i < tail /\ i < IntLimit
                   /\ ~ready[Slot(i)]

(* What a committing worker has written so far is in its slot.             *)
Committer(t) ==
  /\ pc[t] \in Uncommitted => idx[t] < IntLimit
  /\ pc[t] = "commit" =>
       \A w \in Words : w < word[t] => data[Slot(idx[t])][w] = idx[t]
  /\ pc[t] = "ready" => data[Slot(idx[t])] = Reply(idx[t])

(* EPOLLONESHOT: at most one worker receives, none while it is armed.      *)
OneReceiver ==
  /\ \A s, t \in Threads : pc[s] \in Receiving /\ pc[t] \in Receiving => s = t
  /\ armed => \A t \in Threads : pc[t] \notin Receiving

(* The slot being registered is outside the window and stays unready.      *)
Registrar(t) ==
  /\ pc[t] \in Registering => tail < head + Length
  /\ pc[t] \in {"zero", "publish"} => ~ready[Slot(tail)]

Inv ==
  /\ TypeOK
  /\ WordReset
  /\ Window
  /\ HeadBound
  /\ OneSender
  /\ AtRest
  /\ \A t \in Threads : Sender(t)
  /\ \A t \in Threads : Popper(t)
  /\ ReadyIsWhole
  /\ PipedPending
  /\ CommitOwnsSlot
  /\ \A t \in Threads : Committer(t)
  /\ OneReceiver
  /\ \A t \in Threads : Registrar(t)
  /\ RepliesInOrder

-----------------------------------------------------------------------------
(* Words are numbered from 1. *)
LEMMA WordsType ==
  1 \in Words /\ ElementLength \in Words /\ \A w \in Words : w \in Nat /\ w >= 1
BY ElementAssumption DEF Words

(* Replies and the zeroed element are elements. *)
LEMMA ReplyType == \A n \in Nat \cup {Zero} : Reply(n) \in Elements
BY DEF Reply, Elements

(* An element all of whose words are n is the reply to command n. *)
LEMMA WholeReply ==
  ASSUME NEW n \in Nat, NEW e \in Elements, \A w \in Words : e[w] = n
  PROVE  e = Reply(n)
BY DEF Reply, Elements

(* idx % length is the remainder of a division by length. *)
LEMMA QuotientRemainder ==
  ASSUME NEW i \in Nat
  PROVE  Slot(i) \in Slots /\ \E q \in Nat : i = Length * q + Slot(i)
<1>1. /\ Slot(i) \in Slots /\ i \div Length \in Nat
      /\ i = Length * (i \div Length) + Slot(i)
  BY LengthAssumption DEF Slot, Slots
<1> QED
  BY <1>1

(* A positive multiple of the length is at least the length. *)
LEMMA Multiple ==
  ASSUME NEW d \in Int, d >= 1
  PROVE  Length * d >= Length
BY LengthAssumption

(* Two indices less than a queue length apart have different slots. *)
LEMMA SlotsDiffer ==
  ASSUME NEW i \in Nat, NEW j \in Nat, i < j, j < i + Length
  PROVE  Slot(i) # Slot(j)
<1>1. SUFFICES ASSUME Slot(i) = Slot(j) PROVE FALSE
  OBVIOUS
<1>2. PICK p \in Nat, q \in Nat :
        i = Length * p + Slot(i) /\ j = Length * q + Slot(i)
  BY <1>1, QuotientRemainder
<1> DEFINE d == q - p
<1>3. d \in Int /\ Slot(i) \in Nat
  BY QuotientRemainder DEF Slots
<1>4. j - i = Length * d
  BY <1>2, <1>3, LengthAssumption
<1> HIDE DEF d
<1>5. CASE d >= 1
  <2>1. Length * d >= Length
    BY <1>3, <1>5, Multiple
  <2> QED
    BY <1>4, <2>1, LengthAssumption
<1>6. CASE d <= 0
  <2>1. Length * d <= 0
    BY <1>3, <1>6, LengthAssumption
  <2> QED
    BY <1>4, <2>1
<1> QED
  BY <1>3, <1>5, <1>6

(* No two indices of the window share a slot; while it is not full, tail   *)
(* shares none with it either.                                             *)
LEMMA WindowSlots ==
  ASSUME TypeOK, Window
  PROVE  /\ \A i \in Nat : Slot(i) \in Slots
         /\ \A i, j \in head .. tail - 1 : Slot(i) = Slot(j) => i = j
         /\ tail < head + Length =>
              \A i \in head .. tail - 1 : Slot(i) # Slot(tail)
<1>1. \A i \in Nat : Slot(i) \in Slots
  BY QuotientRemainder
<1>2. ASSUME NEW i \in head .. tail - 1, NEW j \in head .. tail - 1, i # j
      PROVE  Slot(i) # Slot(j)
  <2>1. i \in Nat /\ j \in Nat /\ i < j + Length /\ j < i + Length
    BY LengthAssumption DEF TypeOK, Window
  <2>2. CASE i < j
    BY <2>1, <2>2, SlotsDiffer
  <2>3. CASE j < i
    BY <2>1, <2>3, SlotsDiffer
  <2> QED
    BY <1>2, <2>1, <2>2, <2>3
<1>3. ASSUME tail < head + Length, NEW i \in head .. tail - 1
      PROVE  Slot(i) # Slot(tail)
  <2>1. i \in Nat /\ tail \in Nat /\ i < tail /\ tail < i + Length
    BY <1>3, LengthAssumption DEF TypeOK, Window
  <2> QED
    BY <2>1, SlotsDiffer
<1> QED
  BY <1>1, <1>2, <1>3

(* One round of a copying loop.                                            *)
LEMMA NextWordCases ==
  ASSUME TypeOK, NEW t \in Threads, NEW loop, NEW after, NextWord(t, loop, after)
  PROVE  \/ /\ word[t] < ElementLength /\ word[t] + 1 \in Words
            /\ word' = [word EXCEPT ![t] = word[t] + 1]
            /\ pc' = [pc EXCEPT ![t] = loop]
         \/ /\ word[t] = ElementLength
            /\ word' = [word EXCEPT ![t] = 1]
            /\ pc' = [pc EXCEPT ![t] = after]
BY ElementAssumption DEF TypeOK, NextWord, Goto, Words

(* The loop keeps the types of pc and word. *)
LEMMA NextWordType ==
  ASSUME TypeOK, NEW t \in Threads, NEW loop \in Labels, NEW after \in Labels,
         NextWord(t, loop, after)
  PROVE  pc' \in [Threads -> Labels] /\ word' \in [Threads -> Words]
<1>1. CASE word[t] < ElementLength
  <2>1. word[t] + 1 \in Words
    BY <1>1, ElementAssumption DEF TypeOK, Words
  <2> QED
    BY <1>1, <2>1 DEF TypeOK, NextWord, Goto
<1>2. CASE ~(word[t] < ElementLength)
  BY <1>2, WordsType DEF TypeOK, NextWord, Goto
<1> QED
  BY <1>1, <1>2

(* Dropping the locals keeps their types. *)
LEMMA LeaveType ==
  ASSUME TypeOK, NEW t \in Threads, Leave(t)
  PROVE  /\ idx' \in [Threads -> Nat] /\ attempt' \in [Threads -> Nat]
         /\ buf' \in [Threads -> Elements]
BY ReplyType DEF TypeOK, Leave

(* head_lock is at most two ahead of head, and ahead while there is a      *)
(* sender.                                                                 *)
LEMMA LockPosition ==
  ASSUME Inv
  PROVE  /\ head <= headLock /\ headLock <= head + 2
         /\ headLock = head => \A t \in Threads : pc[t] \notin HoldingLock
BY DEF Inv, TypeOK, AtRest, Sender, HoldingLock

(* Receive preserves the invariant. *)
LEMMA ReceiveInv ==
  ASSUME Inv, NEW t \in Threads, Receive(t)
  PROVE  Inv'
<1>1. TypeOK'
  BY WordsType, ReplyType DEF Inv, Receive, Goto, queue, TypeOK, Elements,
     Labels, Receiving, HoldingLock, Uncommitted, Popping
<1>2. (WordReset /\ Window /\ HeadBound /\ OneSender /\ AtRest /\ ReadyIsWhole
   /\ PipedPending /\ OneReceiver /\ RepliesInOrder)'
  BY DEF Inv, Receive, Goto, queue, TypeOK, WordReset, Loops, Window,
     HeadBound, OneSender, HoldingLock, AtRest, ReadyIsWhole, PipedPending,
     OneReceiver, Receiving, RepliesInOrder
<1>3. ((\A s \in Threads : Sender(s)) /\ (\A s \in Threads : Popper(s)) /\
   CommitOwnsSlot /\ (\A s \in Threads : Committer(s)) /\ (\A s \in Threads :
   Registrar(s)))'
  BY DEF Inv, Receive, Goto, queue, TypeOK, Sender, HoldingLock, Popper,
     Popping, CommitOwnsSlot, Uncommitted, Committer, Registrar, Registering
<1> QED
  BY <1>1, <1>2, <1>3 DEF Inv

(* ParseCommand preserves the invariant. *)
LEMMA ParseCommandInv ==
  ASSUME Inv, NEW t \in Threads, ParseCommand(t)
  PROVE  Inv'
<1>1. TypeOK'
  BY WordsType, ReplyType DEF Inv, ParseCommand, Goto, shared, queue, TypeOK,
     Elements, Labels, Receiving, HoldingLock, Uncommitted, Popping
<1>2. (WordReset /\ Window /\ HeadBound /\ OneSender /\ AtRest /\ ReadyIsWhole
   /\ PipedPending /\ OneReceiver /\ RepliesInOrder)'
  BY DEF Inv, ParseCommand, Goto, shared, queue, TypeOK, WordReset, Loops,
     Window, HeadBound, OneSender, HoldingLock, AtRest, ReadyIsWhole,
     PipedPending, OneReceiver, Receiving, RepliesInOrder
<1>3. ((\A s \in Threads : Sender(s)) /\ (\A s \in Threads : Popper(s)) /\
   CommitOwnsSlot /\ (\A s \in Threads : Committer(s)) /\ (\A s \in Threads :
   Registrar(s)))'
  BY DEF Inv, ParseCommand, Goto, shared, queue, TypeOK, Sender, HoldingLock,
     Popper, Popping, CommitOwnsSlot, Uncommitted, Committer, Registrar,
     Registering
<1> QED
  BY <1>1, <1>2, <1>3 DEF Inv

(* ParseEmpty preserves the invariant. *)
LEMMA ParseEmptyInv ==
  ASSUME Inv, NEW t \in Threads, ParseEmpty(t)
  PROVE  Inv'
<1>1. TypeOK'
  BY WordsType, ReplyType DEF Inv, ParseEmpty, Goto, queue, TypeOK, Elements,
     Labels, Receiving, HoldingLock, Uncommitted, Popping
<1>2. (WordReset /\ Window /\ HeadBound /\ OneSender /\ AtRest /\ ReadyIsWhole
   /\ PipedPending /\ OneReceiver /\ RepliesInOrder)'
  BY DEF Inv, ParseEmpty, Goto, queue, TypeOK, WordReset, Loops, Window,
     HeadBound, OneSender, HoldingLock, AtRest, ReadyIsWhole, PipedPending,
     OneReceiver, Receiving, RepliesInOrder
<1>3. ((\A s \in Threads : Sender(s)) /\ (\A s \in Threads : Popper(s)) /\
   CommitOwnsSlot /\ (\A s \in Threads : Committer(s)) /\ (\A s \in Threads :
   Registrar(s)))'
  BY DEF Inv, ParseEmpty, Goto, queue, TypeOK, Sender, HoldingLock, Popper,
     Popping, CommitOwnsSlot, Uncommitted, Committer, Registrar, Registering
<1> QED
  BY <1>1, <1>2, <1>3 DEF Inv

(* ParseStop preserves the invariant. *)
LEMMA ParseStopInv ==
  ASSUME Inv, NEW t \in Threads, ParseStop(t)
  PROVE  Inv'
<1>1. TypeOK'
  BY WordsType, ReplyType DEF Inv, ParseStop, Goto, shared, queue, TypeOK,
     Elements, Labels, Receiving, HoldingLock, Uncommitted, Popping
<1>2. (WordReset /\ Window /\ HeadBound /\ OneSender /\ AtRest /\ ReadyIsWhole
   /\ PipedPending /\ OneReceiver /\ RepliesInOrder)'
  BY DEF Inv, ParseStop, Goto, shared, queue, TypeOK, WordReset, Loops, Window,
     HeadBound, OneSender, HoldingLock, AtRest, ReadyIsWhole, PipedPending,
     OneReceiver, Receiving, RepliesInOrder
<1>3. ((\A s \in Threads : Sender(s)) /\ (\A s \in Threads : Popper(s)) /\
   CommitOwnsSlot /\ (\A s \in Threads : Committer(s)) /\ (\A s \in Threads :
   Registrar(s)))'
  BY DEF Inv, ParseStop, Goto, shared, queue, TypeOK, Sender, HoldingLock,
     Popper, Popping, CommitOwnsSlot, Uncommitted, Committer, Registrar,
     Registering
<1> QED
  BY <1>1, <1>2, <1>3 DEF Inv

(* Rearm preserves the invariant. *)
LEMMA RearmInv ==
  ASSUME Inv, NEW t \in Threads, Rearm(t)
  PROVE  Inv'
<1>1. TypeOK'
  BY WordsType, ReplyType DEF Inv, Rearm, Goto, queue, TypeOK, Elements,
     Labels, Receiving, HoldingLock, Uncommitted, Popping
<1>2. (WordReset /\ Window /\ HeadBound /\ OneSender /\ AtRest /\ ReadyIsWhole
   /\ PipedPending /\ OneReceiver /\ RepliesInOrder)'
  BY DEF Inv, Rearm, Goto, queue, TypeOK, WordReset, Loops, Window, HeadBound,
     OneSender, HoldingLock, AtRest, ReadyIsWhole, PipedPending, OneReceiver,
     Receiving, RepliesInOrder
<1>3. ((\A s \in Threads : Sender(s)) /\ (\A s \in Threads : Popper(s)) /\
   CommitOwnsSlot /\ (\A s \in Threads : Committer(s)) /\ (\A s \in Threads :
   Registrar(s)))'
  BY DEF Inv, Rearm, Goto, queue, TypeOK, Sender, HoldingLock, Popper, Popping,
     CommitOwnsSlot, Uncommitted, Committer, Registrar, Registering
<1> QED
  BY <1>1, <1>2, <1>3 DEF Inv

(* TakePiped preserves the invariant. *)
LEMMA TakePipedInv ==
  ASSUME Inv, NEW t \in Threads, TakePiped(t)
  PROVE  Inv'
<1>1. TypeOK'
  BY WordsType, ReplyType DEF Inv, TakePiped, Goto, queue, TypeOK, Elements,
     Labels, Receiving, HoldingLock, Uncommitted, Popping
<1>2. CommitOwnsSlot'
  BY DEF Inv, TakePiped, Goto, queue, TypeOK, CommitOwnsSlot, Uncommitted,
     PipedPending
<1>3. (\A s \in Threads : Committer(s))'
  <2> SUFFICES ASSUME NEW s \in Threads PROVE Committer(s)'
    OBVIOUS
  <2>1. CASE s = t
    BY <2>1 DEF Inv, TypeOK, TakePiped, Goto, queue, Committer, PipedPending,
       Uncommitted
  <2>2. CASE s # t
    BY <2>2 DEF Inv, TypeOK, TakePiped, Goto, queue, Committer, Uncommitted
  <2> QED
    BY <2>1, <2>2
<1>4. (WordReset /\ Window /\ HeadBound /\ OneSender /\ AtRest /\ ReadyIsWhole
   /\ PipedPending /\ OneReceiver /\ RepliesInOrder)'
  BY DEF Inv, TakePiped, Goto, queue, TypeOK, WordReset, Loops, Window,
     HeadBound, OneSender, HoldingLock, AtRest, ReadyIsWhole, PipedPending,
     OneReceiver, Receiving, RepliesInOrder
<1>5. ((\A s \in Threads : Sender(s)) /\ (\A s \in Threads : Popper(s)) /\ (\A
   s \in Threads : Registrar(s)))'
  BY DEF Inv, TakePiped, Goto, queue, TypeOK, Sender, HoldingLock, Popper,
     Popping, Registrar, Registering
<1> QED
  BY <1>1, <1>2, <1>3, <1>4, <1>5 DEF Inv

(* Run preserves the invariant. *)
LEMMA RunInv ==
  ASSUME Inv, NEW t \in Threads, Run(t)
  PROVE  Inv'
<1>1. TypeOK'
  BY WordsType, ReplyType DEF Inv, Run, Goto, shared, queue, TypeOK, Elements,
     Labels, Receiving, HoldingLock, Uncommitted, Popping
<1>2. (\A s \in Threads : Committer(s))'
  <2> SUFFICES ASSUME NEW s \in Threads PROVE Committer(s)'
    OBVIOUS
  <2>1. \A w \in Words : ~(w < word[t])
    BY WordsType DEF Inv, Run, WordReset, Loops
  <2>2. CASE s = t
    BY <2>2, <2>1 DEF Inv, TypeOK, Run, Goto, shared, queue, Committer,
       Uncommitted
  <2>3. CASE s # t
    BY <2>3 DEF Inv, TypeOK, Run, Goto, shared, queue, Committer, Uncommitted
  <2> QED
    BY <2>2, <2>3
<1>3. (WordReset /\ Window /\ HeadBound /\ OneSender /\ AtRest /\ ReadyIsWhole
   /\ PipedPending /\ OneReceiver /\ RepliesInOrder)'
  BY DEF Inv, Run, Goto, shared, queue, TypeOK, WordReset, Loops, Window,
     HeadBound, OneSender, HoldingLock, AtRest, ReadyIsWhole, PipedPending,
     OneReceiver, Receiving, RepliesInOrder
<1>4. ((\A s \in Threads : Sender(s)) /\ (\A s \in Threads : Popper(s)) /\
   CommitOwnsSlot /\ (\A s \in Threads : Registrar(s)))'
  BY DEF Inv, Run, Goto, shared, queue, TypeOK, Sender, HoldingLock, Popper,
     Popping, CommitOwnsSlot, Uncommitted, Registrar, Registering
<1> QED
  BY <1>1, <1>2, <1>3, <1>4 DEF Inv

(* RegisterCheck preserves the invariant. *)
LEMMA RegisterCheckInv ==
  ASSUME Inv, NEW t \in Threads, RegisterCheck(t)
  PROVE  Inv'
<1>1. TypeOK'
  BY WordsType, ReplyType DEF Inv, RegisterCheck, Goto, shared, queue, TypeOK,
     Elements, Labels, Receiving, HoldingLock, Uncommitted, Popping
<1>2. (\A s \in Threads : Registrar(s))'
  <2> SUFFICES ASSUME NEW s \in Threads PROVE Registrar(s)'
    OBVIOUS
  <2>1. CASE s = t
    BY <2>1, LengthAssumption DEF Inv, TypeOK, RegisterCheck, Goto, shared,
       queue, Registrar, Registering
  <2>2. CASE s # t
    BY <2>2 DEF Inv, TypeOK, RegisterCheck, Goto, shared, queue, Registrar,
       Registering
  <2> QED
    BY <2>1, <2>2
<1>3. (WordReset /\ Window /\ HeadBound /\ OneSender /\ AtRest /\ ReadyIsWhole
   /\ PipedPending /\ OneReceiver /\ RepliesInOrder)'
  BY DEF Inv, RegisterCheck, Goto, shared, queue, TypeOK, WordReset, Loops,
     Window, HeadBound, OneSender, HoldingLock, AtRest, ReadyIsWhole,
     PipedPending, OneReceiver, Receiving, RepliesInOrder
<1>4. ((\A s \in Threads : Sender(s)) /\ (\A s \in Threads : Popper(s)) /\
   CommitOwnsSlot /\ (\A s \in Threads : Committer(s)))'
  BY DEF Inv, RegisterCheck, Goto, shared, queue, TypeOK, Sender, HoldingLock,
     Popper, Popping, CommitOwnsSlot, Uncommitted, Committer
<1> QED
  BY <1>1, <1>2, <1>3, <1>4 DEF Inv

(* RegisterUnready preserves the invariant. *)
LEMMA RegisterUnreadyInv ==
  ASSUME Inv, NEW t \in Threads, RegisterUnready(t)
  PROVE  Inv'
<1>1. TypeOK'
  BY WordsType, ReplyType DEF Inv, RegisterUnready, Goto, TypeOK, Elements,
     Labels, Receiving, HoldingLock, Uncommitted, Popping
<1>2. (\A s \in Threads : Sender(s))'
  BY WindowSlots DEF Inv, RegisterUnready, Goto, TypeOK, Sender, HoldingLock,
     Window, Registrar, Registering
<1>3. (\A s \in Threads : Popper(s))'
  BY WindowSlots, LockPosition DEF Inv, RegisterUnready, Goto, TypeOK, Popper,
     Popping, Window, Registrar, Registering
<1>4. (\A s \in Threads : Registrar(s))'
  <2> SUFFICES ASSUME NEW s \in Threads PROVE Registrar(s)'
    OBVIOUS
  <2>1. CASE s = t
    BY <2>1, WindowSlots DEF Inv, TypeOK, RegisterUnready, Goto, Registrar,
       Registering, Window
  <2>2. CASE s # t
    BY <2>2 DEF Inv, TypeOK, RegisterUnready, Goto, Registrar, Registering,
       OneReceiver, Receiving
  <2> QED
    BY <2>1, <2>2
<1>5. (WordReset /\ Window /\ HeadBound /\ OneSender /\ AtRest /\ ReadyIsWhole
   /\ PipedPending /\ OneReceiver /\ RepliesInOrder)'
  BY DEF Inv, RegisterUnready, Goto, TypeOK, WordReset, Loops, Window,
     HeadBound, OneSender, HoldingLock, AtRest, ReadyIsWhole, PipedPending,
     OneReceiver, Receiving, RepliesInOrder
<1>6. (CommitOwnsSlot /\ (\A s \in Threads : Committer(s)))'
  BY DEF Inv, RegisterUnready, Goto, TypeOK, CommitOwnsSlot, Uncommitted,
     Committer
<1> QED
  BY <1>1, <1>2, <1>3, <1>4, <1>5, <1>6 DEF Inv

(* RegisterZero preserves the invariant. *)
LEMMA RegisterZeroInv ==
  ASSUME Inv, NEW t \in Threads, RegisterZero(t)
  PROVE  Inv'
<1>1. TypeOK'
  <2>1. data' \in [Slots -> Elements]
    BY WindowSlots DEF Inv, TypeOK, RegisterZero, Elements, Slots
  <2>2. NextWord(t, "zero", "publish") /\ {"zero", "publish"} \subseteq Labels
    BY DEF RegisterZero, Labels, Receiving
  <2>3. pc' \in [Threads -> Labels] /\ word' \in [Threads -> Words]
    BY <2>2, NextWordType DEF Inv
  <2> QED
    BY <2>1, <2>3 DEF Inv, TypeOK, RegisterZero
<1>2. ReadyIsWhole'
  BY WindowSlots DEF Inv, RegisterZero, Goto, NextWord, TypeOK, ReadyIsWhole,
     Window, Registrar, Registering
<1>3. (\A s \in Threads : Committer(s))'
  <2> SUFFICES ASSUME NEW s \in Threads PROVE Committer(s)'
    OBVIOUS
  <2>1. pc[s] \in Uncommitted => Slot(idx[s]) # Slot(tail)
    BY WindowSlots DEF Inv, TypeOK, RegisterZero, CommitOwnsSlot,
                       Registrar, Registering
  <2>2. CASE s = t
    BY <2>2 DEF Inv, TypeOK, RegisterZero, Goto, NextWord, Committer,
       Uncommitted
  <2>3. CASE s # t
    BY <2>3, <2>1, NextWordCases, WindowSlots DEF Inv, TypeOK, RegisterZero,
       Goto, NextWord, Committer, Uncommitted
  <2> QED
    BY <2>2, <2>3
<1>4. (WordReset /\ Window /\ HeadBound)'
  BY DEF Inv, RegisterZero, Goto, NextWord, TypeOK, WordReset, Loops, Window,
     HeadBound
<1>5. (OneSender /\ AtRest /\ PipedPending)'
  BY DEF Inv, RegisterZero, Goto, NextWord, TypeOK, OneSender, HoldingLock,
     AtRest, PipedPending
<1>6. (OneReceiver /\ RepliesInOrder)'
  BY DEF Inv, RegisterZero, Goto, NextWord, TypeOK, OneReceiver, Receiving,
     RepliesInOrder
<1>7. (\A s \in Threads : Sender(s))'
  BY DEF Inv, RegisterZero, Goto, NextWord, TypeOK, Sender, HoldingLock
<1>8. (\A s \in Threads : Popper(s))'
  BY DEF Inv, RegisterZero, Goto, NextWord, TypeOK, Popper, Popping
<1>9. CommitOwnsSlot'
  BY DEF Inv, RegisterZero, Goto, NextWord, TypeOK, CommitOwnsSlot, Uncommitted
<1>10. (\A s \in Threads : Registrar(s))'
  BY DEF Inv, RegisterZero, Goto, NextWord, TypeOK, Registrar, Registering
<1> QED
  BY <1>1, <1>2, <1>3, <1>4, <1>5, <1>6, <1>7, <1>8, <1>9, <1>10 DEF Inv

(* RegisterPublish preserves the invariant. *)
LEMMA RegisterPublishInv ==
  ASSUME Inv, NEW t \in Threads, RegisterPublish(t)
  PROVE  Inv'
<1>0. \E l \in {"check", "parse", "rearm"} : pc' = [pc EXCEPT ![t] = l]
  BY DEF RegisterPublish, Goto
<1>1. TypeOK'
  <2>1. PICK l \in Labels : pc' = [pc EXCEPT ![t] = l]
    BY <1>0 DEF Labels, Receiving
  <2>2. piped' \subseteq Nat
    BY DEF Inv, TypeOK, RegisterPublish
  <2>3. idx' \in [Threads -> Nat]
    BY DEF Inv, TypeOK, RegisterPublish
  <2> QED
    <3>1. pc' \in [Threads -> Labels] /\ tail' \in Nat
      BY <2>1 DEF Inv, TypeOK, RegisterPublish
    <3>2. UNCHANGED <<head, headLock, ready, data, armed, sent, attempt, word,
       buf>>
      BY DEF RegisterPublish
    <3> QED
      BY <2>2, <2>3, <3>1, <3>2 DEF Inv, TypeOK
<1>2. Window'
  BY LengthAssumption DEF Inv, RegisterPublish, Goto, TypeOK, Window,
     Registrar, Registering
<1>3. OneSender'
  BY <1>0 DEF Inv, TypeOK, OneSender, HoldingLock
<1>4. ReadyIsWhole'
  BY WindowSlots, IntAssumption DEF Inv, RegisterPublish, Goto, TypeOK,
     ReadyIsWhole, Registrar, Registering, Window
<1>5. PipedPending'
  <2> SUFFICES ASSUME NEW i \in piped'
               PROVE  /\ head <= i /\ i < tail + 1 /\ i < IntLimit
                      /\ ~ready[Slot(i)]
    BY DEF RegisterPublish, PipedPending
  <2>1. CASE i \in piped
    BY <2>1 DEF Inv, TypeOK, PipedPending
  <2>2. CASE i = tail /\ tail < IntLimit
    BY <2>2 DEF Inv, TypeOK, RegisterPublish, Registrar, Window
  <2> QED
    BY <2>1, <2>2 DEF RegisterPublish
<1>6. CommitOwnsSlot'
  BY WindowSlots, IntAssumption DEF Inv, RegisterPublish, Goto, TypeOK,
     CommitOwnsSlot, Uncommitted, Registrar, Registering, Window, PipedPending
<1>7. (\A s \in Threads : Registrar(s))'
  <2> SUFFICES ASSUME NEW s \in Threads PROVE pc'[s] \notin Registering
    BY DEF Registrar, Registering
  <2> QED
    BY <1>0 DEF Inv, TypeOK, RegisterPublish, OneReceiver, Receiving,
       Registering
<1>8. (WordReset /\ HeadBound /\ AtRest)'
  BY DEF Inv, RegisterPublish, Goto, TypeOK, WordReset, Loops, HeadBound,
     AtRest, HoldingLock
<1>9. (OneReceiver /\ RepliesInOrder)'
  BY DEF Inv, RegisterPublish, Goto, TypeOK, OneReceiver, Receiving,
     RepliesInOrder
<1>10. (\A s \in Threads : Sender(s))'
  BY DEF Inv, RegisterPublish, Goto, TypeOK, Sender, HoldingLock
<1>11. (\A s \in Threads : Popper(s))'
  BY DEF Inv, RegisterPublish, Goto, TypeOK, Popper, Popping
<1>12. (\A s \in Threads : Committer(s))'
  BY DEF Inv, RegisterPublish, Goto, TypeOK, Committer, Uncommitted
<1> QED
  BY <1>1, <1>2, <1>3, <1>4, <1>5, <1>6, <1>7, <1>8, <1>9, <1>10, <1>11, <1>12 DEF Inv

(* CommitData preserves the invariant. *)
LEMMA CommitDataInv ==
  ASSUME Inv, NEW t \in Threads, CommitData(t)
  PROVE  Inv'
<1>1. TypeOK'
  <2>1. data' \in [Slots -> Elements]
    BY WindowSlots DEF Inv, TypeOK, CommitData, Elements, Slots
  <2>2. NextWord(t, "commit", "ready") /\ {"commit", "ready"} \subseteq Labels
    BY DEF CommitData, Labels, Uncommitted
  <2>3. pc' \in [Threads -> Labels] /\ word' \in [Threads -> Words]
    BY <2>2, NextWordType DEF Inv
  <2> QED
    BY <2>1, <2>3 DEF Inv, TypeOK, CommitData
<1>2. ReadyIsWhole'
  BY WindowSlots DEF Inv, CommitData, Goto, NextWord, TypeOK, ReadyIsWhole,
     Window, CommitOwnsSlot, Uncommitted
<1>3. (\A s \in Threads : Committer(s))'
  <2> SUFFICES ASSUME NEW s \in Threads PROVE Committer(s)'
    OBVIOUS
  <2>1. CASE s # t
    <3>1. pc[s] \in Uncommitted => Slot(idx[s]) # Slot(idx[t])
      BY <2>1, WindowSlots DEF Inv, TypeOK, CommitData, CommitOwnsSlot,
                               Uncommitted
    <3> QED
      BY <2>1, <3>1, WindowSlots
      DEF Inv, TypeOK, CommitData, NextWord, Goto, Committer, Uncommitted
  <2>2. CASE s = t
    <3>1. \A w \in Words : w <= word[t] => data'[Slot(idx[t])][w] = idx[t]
      BY WindowSlots, WordsType
      DEF Inv, TypeOK, CommitData, Committer, Elements
    <3>2. data'[Slot(idx[t])] \in Elements /\ idx[t] < IntLimit /\ idx[t] \in
       Nat
      BY <1>1, WindowSlots DEF Inv, TypeOK, CommitData, Committer, Uncommitted
    <3>3. NextWord(t, "commit", "ready") /\ idx' = idx /\ word[t] \in Words
      BY DEF CommitData, Inv, TypeOK
    <3>4. CASE word[t] < ElementLength
      <4>1. word'[t] = word[t] + 1 /\ pc'[t] = "commit"
        BY <3>3, <3>4, NextWordCases, ElementAssumption DEF Inv, TypeOK
      <4> QED
        BY <2>2, <3>1, <3>2, <3>3, <4>1, WordsType DEF Committer
    <3>5. CASE word[t] = ElementLength
      <4>1. pc'[t] = "ready"
        BY <3>3, <3>5, NextWordCases, ElementAssumption DEF Inv, TypeOK
      <4>2. \A w \in Words : w <= word[t]
        BY <3>5, ElementAssumption DEF Words
      <4> QED
        BY <2>2, <3>1, <3>2, <3>3, <4>1, <4>2, WholeReply DEF Committer
    <3> QED
      BY <3>3, <3>4, <3>5, ElementAssumption DEF Words
  <2> QED
    BY <2>1, <2>2
<1>4. (WordReset /\ Window /\ HeadBound)'
  BY DEF Inv, CommitData, Goto, NextWord, TypeOK, WordReset, Loops, Window,
     HeadBound
<1>5. (OneSender /\ AtRest /\ PipedPending)'
  BY DEF Inv, CommitData, Goto, NextWord, TypeOK, OneSender, HoldingLock,
     AtRest, PipedPending
<1>6. (OneReceiver /\ RepliesInOrder)'
  BY ZenonT(60)
  DEF Inv, CommitData, Goto, NextWord, TypeOK, OneReceiver, Receiving,
     RepliesInOrder
<1>7. ((\A s \in Threads : Sender(s)) /\ (\A s \in Threads : Popper(s)) /\
   CommitOwnsSlot)'
  BY DEF Inv, CommitData, Goto, NextWord, TypeOK, Sender, HoldingLock, Popper,
     Popping, CommitOwnsSlot, Uncommitted
<1>8. (\A s \in Threads : Registrar(s))'
  BY DEF Inv, CommitData, Goto, NextWord, TypeOK, Registrar, Registering
<1> QED
  BY <1>1, <1>2, <1>3, <1>4, <1>5, <1>6, <1>7, <1>8 DEF Inv

(* CommitReady preserves the invariant. *)
LEMMA CommitReadyInv ==
  ASSUME Inv, NEW t \in Threads, CommitReady(t)
  PROVE  Inv'
<1>1. TypeOK'
  BY WordsType, ReplyType DEF Inv, CommitReady, Goto, TypeOK, Elements, Labels,
     Receiving, HoldingLock, Uncommitted, Popping
<1>2. ReadyIsWhole'
  BY WindowSlots DEF Inv, CommitReady, Goto, TypeOK, ReadyIsWhole, Window,
     CommitOwnsSlot, Uncommitted, Committer, PipedPending, Registrar,
     Registering
<1>3. PipedPending'
  BY WindowSlots DEF Inv, CommitReady, Goto, TypeOK, PipedPending, Window,
     CommitOwnsSlot, Uncommitted, Committer, Registrar, Registering
<1>4. CommitOwnsSlot'
  BY WindowSlots DEF Inv, CommitReady, Goto, TypeOK, CommitOwnsSlot,
     Uncommitted, Window, Committer, PipedPending, Registrar, Registering
<1>5. (\A s \in Threads : Registrar(s))'
  <2> SUFFICES ASSUME NEW s \in Threads PROVE Registrar(s)'
    OBVIOUS
  <2>1. CASE s = t
    BY <2>1 DEF Inv, TypeOK, CommitReady, Goto, Registrar, Registering
  <2>2. CASE s # t
    BY <2>2, WindowSlots DEF Inv, TypeOK, CommitReady, Goto, Registrar,
       Registering, CommitOwnsSlot, Uncommitted, Window
  <2> QED
    BY <2>1, <2>2
<1>6. (WordReset /\ Window /\ HeadBound /\ OneSender /\ AtRest /\ OneReceiver
   /\ RepliesInOrder)'
  BY DEF Inv, CommitReady, Goto, TypeOK, WordReset, Loops, Window, HeadBound,
     OneSender, HoldingLock, AtRest, OneReceiver, Receiving, RepliesInOrder
<1>7. ((\A s \in Threads : Sender(s)) /\ (\A s \in Threads : Popper(s)) /\ (\A
   s \in Threads : Committer(s)))'
  BY DEF Inv, CommitReady, Goto, TypeOK, Sender, HoldingLock, Popper, Popping,
     Committer, Uncommitted
<1> QED
  BY <1>1, <1>2, <1>3, <1>4, <1>5, <1>6, <1>7 DEF Inv

(* PopHead preserves the invariant. *)
LEMMA PopHeadInv ==
  ASSUME Inv, NEW t \in Threads, PopHead(t)
  PROVE  Inv'
<1>1. TypeOK'
  BY WordsType, ReplyType DEF Inv, PopHead, Goto, shared, queue, TypeOK,
     Elements, Labels, Receiving, HoldingLock, Uncommitted, Popping
<1>2. (WordReset /\ Window /\ HeadBound /\ OneSender /\ AtRest /\ ReadyIsWhole
   /\ PipedPending /\ OneReceiver /\ RepliesInOrder)'
  BY DEF Inv, PopHead, Goto, shared, queue, TypeOK, WordReset, Loops, Window,
     HeadBound, OneSender, HoldingLock, AtRest, ReadyIsWhole, PipedPending,
     OneReceiver, Receiving, RepliesInOrder
<1>3. ((\A s \in Threads : Sender(s)) /\ (\A s \in Threads : Popper(s)) /\
   CommitOwnsSlot /\ (\A s \in Threads : Committer(s)) /\ (\A s \in Threads :
   Registrar(s)))'
  BY DEF Inv, PopHead, Goto, shared, queue, TypeOK, Sender, HoldingLock,
     Popper, Popping, CommitOwnsSlot, Uncommitted, Committer, Registrar,
     Registering
<1> QED
  BY <1>1, <1>2, <1>3 DEF Inv

(* PopTail preserves the invariant. *)
LEMMA PopTailInv ==
  ASSUME Inv, NEW t \in Threads, PopTail(t)
  PROVE  Inv'
<1>0. /\ \E l \in {"idle", "popReady"} : pc' = [pc EXCEPT ![t] = l]
      /\ shared' = shared /\ word' = word
  BY DEF PopTail, Leave, Goto
<1>1. TypeOK'
  <2>1. PICK l \in Labels : pc' = [pc EXCEPT ![t] = l]
    BY <1>0 DEF Labels, Popping
  <2>2. /\ idx' \in [Threads -> Nat] /\ attempt' \in [Threads -> Nat]
        /\ buf' \in [Threads -> Elements]
    <3>1. CASE Leave(t)
      BY <3>1, LeaveType DEF Inv
    <3>2. CASE UNCHANGED <<idx, attempt, buf>>
      BY <3>2 DEF Inv, TypeOK
    <3> QED
      BY <3>1, <3>2 DEF PopTail
  <2> QED
    BY <1>0, <2>1, <2>2 DEF Inv, TypeOK, shared, queue
<1>2. OneSender'
  BY <1>0 DEF Inv, TypeOK, OneSender, HoldingLock
<1>3. (\A s \in Threads : Popper(s))'
  <2> SUFFICES ASSUME NEW s \in Threads PROVE Popper(s)'
    OBVIOUS
  <2>1. CASE s = t
    BY <2>1, LockPosition DEF Inv, TypeOK, PopTail, Goto, Leave, shared, queue,
       Popper, Popping, Window
  <2>2. CASE s # t
    BY <2>2 DEF Inv, TypeOK, PopTail, Goto, Leave, shared, queue, Popper,
       Popping
  <2> QED
    BY <2>1, <2>2
<1>4. OneReceiver'
  BY <1>0 DEF Inv, TypeOK, OneReceiver, Receiving, shared
<1>5. (WordReset /\ Window /\ HeadBound)'
  BY DEF Inv, PopTail, Goto, Leave, shared, queue, TypeOK, WordReset, Loops,
     Window, HeadBound
<1>6. (AtRest /\ ReadyIsWhole /\ PipedPending)'
  BY DEF Inv, PopTail, Goto, Leave, shared, queue, TypeOK, AtRest, HoldingLock,
     ReadyIsWhole, PipedPending
<1>7. RepliesInOrder'
  BY DEF Inv, PopTail, Goto, Leave, shared, queue, TypeOK, RepliesInOrder
<1>8. (\A s \in Threads : Sender(s))'
  BY DEF Inv, PopTail, Goto, Leave, shared, queue, TypeOK, Sender, HoldingLock
<1>9. CommitOwnsSlot'
  BY ZenonT(60)
  DEF Inv, PopTail, Goto, Leave, shared, queue, TypeOK, CommitOwnsSlot,
     Uncommitted
<1>10. (\A s \in Threads : Committer(s))'
  BY ZenonT(60) DEF Inv, PopTail, Goto, Leave, shared, queue, TypeOK, Committer,
     Uncommitted
<1>11. (\A s \in Threads : Registrar(s))'
  BY DEF Inv, PopTail, Goto, Leave, shared, queue, TypeOK, Registrar,
     Registering
<1> QED
  BY <1>1, <1>2, <1>3, <1>4, <1>5, <1>6, <1>7, <1>8, <1>9, <1>10, <1>11 DEF Inv

(* PopReady preserves the invariant. *)
LEMMA PopReadyInv ==
  ASSUME Inv, NEW t \in Threads, PopReady(t)
  PROVE  Inv'
<1>0. /\ \E l \in {"idle", "popCopy"} : pc' = [pc EXCEPT ![t] = l]
      /\ shared' = shared /\ word' = word
  BY DEF PopReady, Leave, Goto
<1>1. TypeOK'
  <2>1. PICK l \in Labels : pc' = [pc EXCEPT ![t] = l]
    BY <1>0 DEF Labels, Popping
  <2>2. /\ idx' \in [Threads -> Nat] /\ attempt' \in [Threads -> Nat]
        /\ buf' \in [Threads -> Elements]
    <3>1. CASE Leave(t)
      BY <3>1, LeaveType DEF Inv
    <3>2. CASE UNCHANGED <<idx, attempt, buf>>
      BY <3>2 DEF Inv, TypeOK
    <3> QED
      BY <3>1, <3>2 DEF PopReady
  <2> QED
    BY <1>0, <2>1, <2>2 DEF Inv, TypeOK, shared, queue
<1>2. OneSender'
  BY <1>0 DEF Inv, TypeOK, OneSender, HoldingLock
<1>3. (\A s \in Threads : Popper(s))'
  <2> SUFFICES ASSUME NEW s \in Threads PROVE Popper(s)'
    OBVIOUS
  <2>1. \A w \in Words : ~(w < word[t])
    BY WordsType DEF Inv, PopReady, WordReset, Loops
  <2>2. CASE s = t
    BY <2>2, <2>1, LockPosition DEF Inv, TypeOK, PopReady, Goto, Leave, shared,
       queue, Popper, Popping
  <2>3. CASE s # t
    BY <2>3 DEF Inv, TypeOK, PopReady, Goto, Leave, shared, queue, Popper,
       Popping
  <2> QED
    BY <2>2, <2>3
<1>4. OneReceiver'
  BY <1>0 DEF Inv, TypeOK, OneReceiver, Receiving, shared
<1>5. (WordReset /\ Window /\ HeadBound)'
  BY DEF Inv, PopReady, Goto, Leave, shared, queue, TypeOK, WordReset, Loops,
     Window, HeadBound
<1>6. (AtRest /\ ReadyIsWhole /\ PipedPending)'
  BY DEF Inv, PopReady, Goto, Leave, shared, queue, TypeOK, AtRest,
     HoldingLock, ReadyIsWhole, PipedPending
<1>7. RepliesInOrder'
  BY DEF Inv, PopReady, Goto, Leave, shared, queue, TypeOK, RepliesInOrder
<1>8. (\A s \in Threads : Sender(s))'
  BY DEF Inv, PopReady, Goto, Leave, shared, queue, TypeOK, Sender, HoldingLock
<1>9. CommitOwnsSlot'
  BY DEF Inv, PopReady, Goto, Leave, shared, queue, TypeOK, CommitOwnsSlot,
     Uncommitted
<1>10. (\A s \in Threads : Committer(s))'
  BY DEF Inv, PopReady, Goto, Leave, shared, queue, TypeOK, Committer,
     Uncommitted
<1>11. (\A s \in Threads : Registrar(s))'
  BY DEF Inv, PopReady, Goto, Leave, shared, queue, TypeOK, Registrar,
     Registering
<1> QED
  BY <1>1, <1>2, <1>3, <1>4, <1>5, <1>6, <1>7, <1>8, <1>9, <1>10, <1>11 DEF Inv

(* PopCopy preserves the invariant. *)
LEMMA PopCopyInv ==
  ASSUME Inv, NEW t \in Threads, PopCopy(t)
  PROVE  Inv'
<1>1. TypeOK'
  <2>1. buf' \in [Threads -> Elements]
    BY WindowSlots DEF Inv, TypeOK, PopCopy, Elements
  <2>2. NextWord(t, "popCopy", "popLock") /\ {"popCopy", "popLock"} \subseteq
     Labels
    BY DEF PopCopy, Labels, Popping
  <2>3. pc' \in [Threads -> Labels] /\ word' \in [Threads -> Words]
    BY <2>2, NextWordType DEF Inv
  <2> QED
    BY <2>1, <2>3 DEF Inv, TypeOK, PopCopy, shared, queue
<1>2. (\A s \in Threads : Popper(s))'
  <2> SUFFICES ASSUME NEW s \in Threads PROVE Popper(s)'
    OBVIOUS
  <2>1. CASE s # t
    BY <2>1 DEF Inv, TypeOK, PopCopy, NextWord, Goto, shared, queue, Popper,
                Popping
  <2>2. CASE s = t
    <3>1. /\ attempt' = attempt /\ headLock' = headLock /\ head' = head
          /\ ready' = ready /\ tail' = tail /\ attempt[t] \in Nat
          /\ NextWord(t, "popCopy", "popLock") /\ word[t] \in Words
      BY DEF Inv, TypeOK, PopCopy, shared, queue
    <3>2. attempt[t] <= head /\ attempt[t] = headLock =>
            /\ attempt[t] = head /\ head < tail /\ ready[Slot(head)]
            /\ data[Slot(head)] = Reply(head)
      BY LockPosition DEF Inv, TypeOK, PopCopy, Popper, Popping, ReadyIsWhole
    <3>3. attempt[t] = headLock =>
            \A w \in Words : w <= word[t] => buf'[t][w] = head
      BY <3>2, WordsType
      DEF Inv, TypeOK, PopCopy, Popper, Popping, Reply, Elements
    <3>4. buf'[t] \in Elements /\ attempt[t] <= head
      BY <1>1 DEF Inv, TypeOK, PopCopy, Popper, Popping
    <3>5. CASE word[t] < ElementLength
      <4>1. word'[t] = word[t] + 1 /\ pc'[t] = "popCopy"
        BY <3>1, <3>5, NextWordCases, ElementAssumption DEF Inv, TypeOK
      <4> QED
        BY <2>2, <3>1, <3>2, <3>3, <3>4, <4>1, WordsType DEF Popper, Popping
    <3>6. CASE word[t] = ElementLength
      <4>1. pc'[t] = "popLock"
        BY <3>1, <3>6, NextWordCases, ElementAssumption DEF Inv, TypeOK
      <4>2. \A w \in Words : w <= word[t]
        BY <3>6, ElementAssumption DEF Words
      <4> QED
        BY <2>2, <3>1, <3>2, <3>3, <3>4, <4>1, <4>2, WholeReply
        DEF Popper, Popping
    <3> QED
      BY <3>1, <3>5, <3>6, ElementAssumption DEF Words
  <2> QED
    BY <2>1, <2>2
<1>3. (WordReset /\ Window /\ HeadBound)'
  BY DEF Inv, PopCopy, Goto, NextWord, shared, queue, TypeOK, WordReset, Loops,
     Window, HeadBound
<1>4. (OneSender /\ AtRest /\ ReadyIsWhole)'
  BY ZenonT(60)
  DEF Inv, PopCopy, Goto, NextWord, shared, queue, TypeOK, OneSender,
     HoldingLock, AtRest, ReadyIsWhole
<1>5. (PipedPending /\ OneReceiver /\ RepliesInOrder)'
  BY ZenonT(60)
  DEF Inv, PopCopy, Goto, NextWord, shared, queue, TypeOK, PipedPending,
     OneReceiver, Receiving, RepliesInOrder
<1>6. ((\A s \in Threads : Sender(s)) /\ CommitOwnsSlot /\ (\A s \in Threads :
   Committer(s)))'
  BY DEF Inv, PopCopy, Goto, NextWord, shared, queue, TypeOK, Sender,
     HoldingLock, CommitOwnsSlot, Uncommitted, Committer
<1>7. (\A s \in Threads : Registrar(s))'
  BY DEF Inv, PopCopy, Goto, NextWord, shared, queue, TypeOK, Registrar,
     Registering
<1> QED
  BY <1>1, <1>2, <1>3, <1>4, <1>5, <1>6, <1>7 DEF Inv

(* PopLock preserves the invariant. *)
LEMMA PopLockInv ==
  ASSUME Inv, NEW t \in Threads, PopLock(t)
  PROVE  Inv'
<1>0. \/ /\ headLock = attempt[t] /\ headLock' = headLock + 1
         /\ pc' = [pc EXCEPT ![t] = "send"]
         /\ head = headLock /\ \A s \in Threads : pc[s] \notin HoldingLock
      \/ headLock' = headLock /\ pc' = [pc EXCEPT ![t] = "popHead"]
  BY LockPosition DEF Inv, TypeOK, PopLock, Goto, Popper, Popping
<1>1. TypeOK'
  <2>1. headLock' \in Nat
    BY <1>0 DEF Inv, TypeOK
  <2>2. PICK l \in Labels : pc' = [pc EXCEPT ![t] = l]
    BY <1>0 DEF Labels, HoldingLock
  <2> QED
    BY <2>1, <2>2 DEF Inv, TypeOK, PopLock
<1>2. OneSender'
  BY <1>0 DEF Inv, TypeOK, OneSender, HoldingLock
<1>3. (\A s \in Threads : Sender(s))'
  <2> SUFFICES ASSUME NEW s \in Threads PROVE Sender(s)'
    OBVIOUS
  <2>1. CASE s # t
    BY <1>0, <2>1 DEF Inv, TypeOK, PopLock, Sender, HoldingLock
  <2>2. CASE s = t
    BY <1>0, <2>2 DEF Inv, TypeOK, PopLock, Sender, HoldingLock, Popper,
                      Popping, AtRest
  <2> QED
    BY <2>1, <2>2
<1>4. (\A s \in Threads : Popper(s))'
  <2> SUFFICES ASSUME NEW s \in Threads PROVE Popper(s)'
    OBVIOUS
  <2>1. CASE s # t
    BY <1>0, <2>1 DEF Inv, TypeOK, PopLock, Popper, Popping
  <2>2. CASE s = t
    BY <1>0, <2>2 DEF Inv, TypeOK, PopLock, Popper, Popping
  <2> QED
    BY <2>1, <2>2
<1>5. (WordReset /\ Window /\ HeadBound /\ AtRest /\ ReadyIsWhole /\
   PipedPending /\ OneReceiver /\ RepliesInOrder)'
  BY ZenonT(60)
  DEF Inv, PopLock, Goto, TypeOK, WordReset, Loops, Window, HeadBound,
     AtRest, HoldingLock, ReadyIsWhole, PipedPending, OneReceiver, Receiving,
     RepliesInOrder
<1>6. (CommitOwnsSlot /\ (\A s \in Threads : Committer(s)) /\ (\A s \in Threads
   : Registrar(s)))'
  BY DEF Inv, PopLock, Goto, TypeOK, CommitOwnsSlot, Uncommitted, Committer,
     Registrar, Registering
<1> QED
  BY <1>1, <1>2, <1>3, <1>4, <1>5, <1>6 DEF Inv

(* Send preserves the invariant. *)
LEMMA SendInv ==
  ASSUME Inv, NEW t \in Threads, Send(t)
  PROVE  Inv'
<1>1. TypeOK'
  BY WordsType, ReplyType DEF Inv, Send, Goto, queue, TypeOK, Elements, Labels,
     Receiving, HoldingLock, Uncommitted, Popping
<1>2. (\A s \in Threads : Sender(s))'
  <2> SUFFICES ASSUME NEW s \in Threads PROVE Sender(s)'
    OBVIOUS
  <2>1. CASE s = t
    BY <2>1 DEF Inv, TypeOK, Send, Goto, queue, Sender, HoldingLock
  <2>2. CASE s # t
    BY <2>2 DEF Inv, TypeOK, Send, Goto, queue, Sender, HoldingLock, OneSender
  <2> QED
    BY <2>1, <2>2
<1>3. RepliesInOrder'
  <2>1. Len(sent) = head /\ buf[t] = Reply(head) /\ sent' = Append(sent,
     buf[t])
    BY DEF Inv, Send, Sender
  <2> QED
    BY <2>1 DEF Inv, TypeOK, RepliesInOrder
<1>4. (WordReset /\ Window /\ HeadBound /\ OneSender /\ AtRest /\ ReadyIsWhole
   /\ PipedPending /\ OneReceiver)'
  BY DEF Inv, Send, Goto, queue, TypeOK, WordReset, Loops, Window, HeadBound,
     OneSender, HoldingLock, AtRest, ReadyIsWhole, PipedPending, OneReceiver,
     Receiving
<1>5. ((\A s \in Threads : Popper(s)) /\ CommitOwnsSlot /\ (\A s \in Threads :
   Committer(s)) /\ (\A s \in Threads : Registrar(s)))'
  BY DEF Inv, Send, Goto, queue, TypeOK, Popper, Popping, CommitOwnsSlot,
     Uncommitted, Committer, Registrar, Registering
<1> QED
  BY <1>1, <1>2, <1>3, <1>4, <1>5 DEF Inv

(* NextTail preserves the invariant. *)
LEMMA NextTailInv ==
  ASSUME Inv, NEW t \in Threads, NextTail(t)
  PROVE  Inv'
<1>1. TypeOK'
  BY WordsType, ReplyType DEF Inv, NextTail, Goto, shared, queue, TypeOK,
     Elements, Labels, Receiving, HoldingLock, Uncommitted, Popping
<1>2. (WordReset /\ Window /\ HeadBound /\ OneSender /\ AtRest /\ ReadyIsWhole
   /\ PipedPending /\ OneReceiver /\ RepliesInOrder)'
  BY DEF Inv, NextTail, Goto, shared, queue, TypeOK, WordReset, Loops, Window,
     HeadBound, OneSender, HoldingLock, AtRest, ReadyIsWhole, PipedPending,
     OneReceiver, Receiving, RepliesInOrder
<1>3. ((\A s \in Threads : Sender(s)) /\ (\A s \in Threads : Popper(s)) /\
   CommitOwnsSlot /\ (\A s \in Threads : Committer(s)) /\ (\A s \in Threads :
   Registrar(s)))'
  BY DEF Inv, NextTail, Goto, shared, queue, TypeOK, Sender, HoldingLock,
     Popper, Popping, CommitOwnsSlot, Uncommitted, Committer, Registrar,
     Registering
<1> QED
  BY <1>1, <1>2, <1>3 DEF Inv

(* NextReady preserves the invariant. *)
LEMMA NextReadyInv ==
  ASSUME Inv, NEW t \in Threads, NextReady(t)
  PROVE  Inv'
<1>1. TypeOK'
  BY WordsType, ReplyType DEF Inv, NextReady, Goto, shared, queue, TypeOK,
     Elements, Labels, Receiving, HoldingLock, Uncommitted, Popping
<1>2. (\A s \in Threads : Sender(s))'
  <2> SUFFICES ASSUME NEW s \in Threads PROVE Sender(s)'
    OBVIOUS
  <2>1. \A w \in Words : ~(w < word[t])
    BY WordsType DEF Inv, NextReady, WordReset, Loops
  <2>2. CASE s = t
    BY <2>2, <2>1 DEF Inv, TypeOK, NextReady, Goto, shared, queue, Sender,
       HoldingLock
  <2>3. CASE s # t
    BY <2>3 DEF Inv, TypeOK, NextReady, Goto, shared, queue, Sender,
       HoldingLock, OneSender
  <2> QED
    BY <2>2, <2>3
<1>3. (WordReset /\ Window /\ HeadBound /\ OneSender /\ AtRest /\ ReadyIsWhole
   /\ PipedPending /\ OneReceiver /\ RepliesInOrder)'
  BY DEF Inv, NextReady, Goto, shared, queue, TypeOK, WordReset, Loops, Window,
     HeadBound, OneSender, HoldingLock, AtRest, ReadyIsWhole, PipedPending,
     OneReceiver, Receiving, RepliesInOrder
<1>4. ((\A s \in Threads : Popper(s)) /\ CommitOwnsSlot /\ (\A s \in Threads :
   Committer(s)) /\ (\A s \in Threads : Registrar(s)))'
  BY DEF Inv, NextReady, Goto, shared, queue, TypeOK, Popper, Popping,
     CommitOwnsSlot, Uncommitted, Committer, Registrar, Registering
<1> QED
  BY <1>1, <1>2, <1>3, <1>4 DEF Inv

(* NextCopy preserves the invariant. *)
LEMMA NextCopyInv ==
  ASSUME Inv, NEW t \in Threads, NextCopy(t)
  PROVE  Inv'
<1>1. TypeOK'
  <2>1. buf' \in [Threads -> Elements]
    BY WindowSlots DEF Inv, TypeOK, NextCopy, Elements
  <2>2. NextWord(t, "nextCopy", "nextLock") /\ {"nextCopy", "nextLock"}
     \subseteq Labels
    BY DEF NextCopy, Labels, HoldingLock
  <2>3. pc' \in [Threads -> Labels] /\ word' \in [Threads -> Words]
    BY <2>2, NextWordType DEF Inv
  <2> QED
    BY <2>1, <2>3 DEF Inv, TypeOK, NextCopy, shared, queue
<1>2. (\A s \in Threads : Sender(s))'
  <2> SUFFICES ASSUME NEW s \in Threads PROVE Sender(s)'
    OBVIOUS
  <2>1. CASE s # t
    BY <2>1 DEF Inv, TypeOK, NextCopy, NextWord, Goto, shared, queue, Sender,
                HoldingLock, OneSender
  <2>2. CASE s = t
    <3>1. /\ attempt' = attempt /\ UNCHANGED shared
          /\ NextWord(t, "nextCopy", "nextLock") /\ word[t] \in Words
      BY DEF Inv, TypeOK, NextCopy
    <3>2. /\ attempt[t] = head /\ head + 1 < tail /\ headLock = head + 1
          /\ ready[Slot(head)] /\ ready[Slot(head + 1)] /\ Len(sent) = head + 1
      BY DEF Inv, TypeOK, NextCopy, Sender, HoldingLock
    <3>3. \A w \in Words : w <= word[t] => buf'[t][w] = head + 1
      <4>1. head + 1 \in head .. tail - 1
        BY <3>2 DEF Inv, TypeOK
      <4>2. data[Slot(head + 1)] = Reply(head + 1)
        BY <3>2, <4>1 DEF Inv, ReadyIsWhole
      <4>3. data[Slot(attempt[t] + 1)][word[t]] = head + 1
        BY <3>1, <3>2, <4>2 DEF Reply
      <4>4. buf'[t] = [buf[t] EXCEPT ![word[t]] = head + 1]
        BY <4>3 DEF Inv, TypeOK, NextCopy
      <4>5. \A w \in Words : w < word[t] => buf[t][w] = head + 1
        BY DEF Inv, NextCopy, Sender
      <4>6. buf[t] \in [Words -> Nat \cup {Zero}]
        BY DEF Inv, TypeOK, Elements
      <4> QED
        BY <3>1, <4>4, <4>5, <4>6, WordsType
    <3>4. buf'[t] \in Elements /\ head + 1 \in Nat /\ head < tail
      BY <1>1, <3>2 DEF Inv, TypeOK
    <3>5. CASE word[t] < ElementLength
      <4>1. word'[t] = word[t] + 1 /\ pc'[t] = "nextCopy"
        BY <3>1, <3>5, NextWordCases, ElementAssumption DEF Inv, TypeOK
      <4> QED
        BY <2>2, <3>1, <3>2, <3>3, <3>4, <4>1, WordsType
        DEF Sender, HoldingLock, shared, queue
    <3>6. CASE word[t] = ElementLength
      <4>1. pc'[t] = "nextLock"
        BY <3>1, <3>6, NextWordCases, ElementAssumption DEF Inv, TypeOK
      <4>2. \A w \in Words : w <= word[t]
        BY <3>6, ElementAssumption DEF Words
      <4>3. buf'[t] = Reply(head + 1)
        BY <3>3, <3>4, <4>2, WholeReply
      <4> QED
        BY <2>2, <3>1, <3>2, <3>4, <4>1, <4>3 DEF Sender, HoldingLock, shared,
           queue
    <3> QED
      BY <3>1, <3>5, <3>6, ElementAssumption DEF Words
  <2> QED
    BY <2>1, <2>2
<1>3. (WordReset /\ Window /\ HeadBound)'
  BY DEF Inv, NextCopy, Goto, NextWord, shared, queue, TypeOK, WordReset,
     Loops, Window, HeadBound
<1>4. (OneSender /\ AtRest /\ ReadyIsWhole)'
  BY DEF Inv, NextCopy, Goto, NextWord, shared, queue, TypeOK, OneSender,
     HoldingLock, AtRest, ReadyIsWhole
<1>5. (PipedPending /\ OneReceiver /\ RepliesInOrder)'
  BY ZenonT(60)
  DEF Inv, NextCopy, Goto, NextWord, shared, queue, TypeOK, PipedPending,
     OneReceiver, Receiving, RepliesInOrder
<1>6. ((\A s \in Threads : Popper(s)) /\ CommitOwnsSlot /\ (\A s \in Threads :
   Committer(s)))'
  BY DEF Inv, NextCopy, Goto, NextWord, shared, queue, TypeOK, Popper, Popping,
     CommitOwnsSlot, Uncommitted, Committer
<1>7. (\A s \in Threads : Registrar(s))'
  BY DEF Inv, NextCopy, Goto, NextWord, shared, queue, TypeOK, Registrar,
     Registering
<1> QED
  BY <1>1, <1>2, <1>3, <1>4, <1>5, <1>6, <1>7 DEF Inv

(* NextLock preserves the invariant. *)
LEMMA NextLockInv ==
  ASSUME Inv, NEW t \in Threads, NextLock(t)
  PROVE  Inv'
<1>1. TypeOK'
  BY WordsType, ReplyType DEF Inv, NextLock, Goto, TypeOK, Elements, Labels,
     Receiving, HoldingLock, Uncommitted, Popping
<1>2. (\A s \in Threads : Sender(s))'
  <2> SUFFICES ASSUME NEW s \in Threads PROVE Sender(s)'
    OBVIOUS
  <2>1. CASE s = t
    BY <2>1 DEF Inv, TypeOK, NextLock, Goto, Sender, HoldingLock
  <2>2. CASE s # t
    BY <2>2 DEF Inv, TypeOK, NextLock, Goto, Sender, HoldingLock, OneSender
  <2> QED
    BY <2>1, <2>2
<1>3. (\A s \in Threads : Popper(s))'
  <2> SUFFICES ASSUME NEW s \in Threads PROVE Popper(s)'
    OBVIOUS
  <2>1. CASE s = t
    BY <2>1 DEF Inv, TypeOK, NextLock, Goto, Popper, Popping
  <2>2. CASE s # t
    BY <2>2 DEF Inv, TypeOK, NextLock, Goto, Popper, Popping, Sender,
       HoldingLock
  <2> QED
    BY <2>1, <2>2
<1>4. (WordReset /\ Window /\ HeadBound /\ OneSender /\ AtRest /\ ReadyIsWhole
   /\ PipedPending /\ OneReceiver /\ RepliesInOrder)'
  BY DEF Inv, NextLock, Goto, TypeOK, WordReset, Loops, Window, HeadBound,
     OneSender, HoldingLock, AtRest, ReadyIsWhole, PipedPending, OneReceiver,
     Receiving, RepliesInOrder
<1>5. (CommitOwnsSlot /\ (\A s \in Threads : Committer(s)) /\ (\A s \in Threads
   : Registrar(s)))'
  BY DEF Inv, NextLock, Goto, TypeOK, CommitOwnsSlot, Uncommitted, Committer,
     Registrar, Registering
<1> QED
  BY <1>1, <1>2, <1>3, <1>4, <1>5 DEF Inv

(* NextHead preserves the invariant. *)
LEMMA NextHeadInv ==
  ASSUME Inv, NEW t \in Threads, NextHead(t)
  PROVE  Inv'
<1>0. /\ head' = head + 1 /\ headLock = head + 2 /\ Len(sent) = head + 1
      /\ head + 1 < tail /\ ready[Slot(head)] /\ ready[Slot(head + 1)]
      /\ buf[t] = Reply(head + 1) /\ head < IntLimit
      /\ \A s \in Threads : pc[s] \in HoldingLock => s = t
  BY DEF Inv, TypeOK, NextHead, Sender, HoldingLock, OneSender, ReadyIsWhole
<1>1. TypeOK'
  BY WordsType, ReplyType DEF Inv, NextHead, Goto, TypeOK, Elements, Labels,
     Receiving, HoldingLock, Uncommitted, Popping
<1>2. Window'
  BY <1>0, LengthAssumption DEF Inv, TypeOK, Window, NextHead
<1>3. HeadBound'
  BY <1>0, IntAssumption DEF Inv, TypeOK, HeadBound
<1>4. (\A s \in Threads : Sender(s))'
  <2> SUFFICES ASSUME NEW s \in Threads PROVE Sender(s)'
    OBVIOUS
  <2>1. CASE s # t
    BY <1>0, <2>1 DEF Inv, TypeOK, NextHead, Goto, Sender, HoldingLock
  <2>2. CASE s = t
    BY <1>0, <2>2 DEF Inv, TypeOK, NextHead, Goto, Sender, HoldingLock
  <2> QED
    BY <2>1, <2>2
<1>5. (\A s \in Threads : Popper(s))'
  <2> SUFFICES ASSUME NEW s \in Threads PROVE Popper(s)'
    OBVIOUS
  <2>1. CASE s # t
    BY <1>0, <2>1, LockPosition DEF Inv, TypeOK, NextHead, Goto, Popper,
       Popping
  <2>2. CASE s = t
    BY <1>0, <2>2, LockPosition DEF Inv, TypeOK, NextHead, Goto, Popper,
       Popping
  <2> QED
    BY <2>1, <2>2
<1>6. PipedPending'
  <2>1. \A i \in piped : i # head
    BY <1>0 DEF Inv, PipedPending
  <2> QED
    BY <1>0, <2>1 DEF Inv, TypeOK, NextHead, PipedPending
<1>7. CommitOwnsSlot'
  <2>1. \A s \in Threads : pc[s] \in Uncommitted => idx[s] # head
    BY <1>0 DEF Inv, CommitOwnsSlot
  <2> QED
    BY <1>0, <2>1 DEF Inv, TypeOK, NextHead, Goto, CommitOwnsSlot, Uncommitted
<1>8. (\A s \in Threads : Registrar(s))'
  <2> SUFFICES ASSUME NEW s \in Threads PROVE Registrar(s)'
    OBVIOUS
  <2>1. CASE s # t
    BY <1>0, <2>1, LengthAssumption DEF Inv, TypeOK, NextHead, Goto, Registrar,
       Registering
  <2>2. CASE s = t
    BY <1>0, <2>2, LengthAssumption DEF Inv, TypeOK, NextHead, Goto, Registrar,
       Registering
  <2> QED
    BY <2>1, <2>2
<1>9. (WordReset /\ OneSender /\ AtRest)'
  BY DEF Inv, NextHead, Goto, TypeOK, WordReset, Loops, OneSender, HoldingLock,
     AtRest
<1>10. (ReadyIsWhole /\ OneReceiver /\ RepliesInOrder)'
  BY DEF Inv, NextHead, Goto, TypeOK, ReadyIsWhole, OneReceiver, Receiving,
     RepliesInOrder
<1>11. (\A s \in Threads : Committer(s))'
  BY DEF Inv, NextHead, Goto, TypeOK, Committer, Uncommitted
<1> QED
  BY <1>1, <1>2, <1>3, <1>4, <1>5, <1>6, <1>7, <1>8, <1>9, <1>10, <1>11 DEF Inv

(* Release preserves the invariant. *)
LEMMA ReleaseInv ==
  ASSUME Inv, NEW t \in Threads, Release(t)
  PROVE  Inv'
<1>0. /\ head' = head + 1 /\ headLock = head + 1 /\ Len(sent) = head + 1
      /\ head < tail /\ ready[Slot(head)] /\ head < IntLimit
      /\ pc' = [pc EXCEPT ![t] = "idle"]
      /\ attempt' = [attempt EXCEPT ![t] = 0]
      /\ UNCHANGED <<tail, headLock, ready, data, armed, piped, sent, word>>
      /\ \A s \in Threads : pc[s] \in HoldingLock => s = t
  BY DEF Inv, TypeOK, Release, Leave, Goto, Sender, HoldingLock, OneSender, ReadyIsWhole
<1>1. TypeOK'
  <2>1. pc' \in [Threads -> Labels] /\ head' \in Nat
    BY <1>0 DEF Inv, TypeOK, Labels
  <2>2. /\ idx' \in [Threads -> Nat] /\ attempt' \in [Threads -> Nat]
        /\ buf' \in [Threads -> Elements]
    BY LeaveType DEF Inv, Release
  <2> QED
    BY <1>0, <2>1, <2>2 DEF Inv, TypeOK
<1>2. Window'
  BY <1>0, LengthAssumption DEF Inv, TypeOK, Window, Release
<1>3. HeadBound'
  BY <1>0, IntAssumption DEF Inv, TypeOK, HeadBound
<1>4. AtRest'
  BY <1>0 DEF AtRest
<1>5. (\A s \in Threads : Sender(s))'
  <2> SUFFICES ASSUME NEW s \in Threads PROVE Sender(s)'
    OBVIOUS
  <2>1. CASE s # t
    BY <1>0, <2>1 DEF Inv, TypeOK, Release, Goto, Sender, HoldingLock
  <2>2. CASE s = t
    BY <1>0, <2>2 DEF Inv, TypeOK, Release, Goto, Sender, HoldingLock
  <2> QED
    BY <2>1, <2>2
<1>6. (\A s \in Threads : Popper(s))'
  <2> SUFFICES ASSUME NEW s \in Threads PROVE Popper(s)'
    OBVIOUS
  <2>1. CASE s # t
    BY <1>0, <2>1, LockPosition DEF Inv, TypeOK, Release, Goto, Popper, Popping
  <2>2. CASE s = t
    BY <1>0, <2>2, LockPosition DEF Inv, TypeOK, Release, Goto, Popper, Popping
  <2> QED
    BY <2>1, <2>2
<1>7. PipedPending'
  <2>1. \A i \in piped : i # head
    BY <1>0 DEF Inv, PipedPending
  <2> QED
    BY <1>0, <2>1 DEF Inv, TypeOK, Release, PipedPending
<1>8. CommitOwnsSlot'
  <2>1. \A s \in Threads : pc[s] \in Uncommitted => idx[s] # head
    BY <1>0 DEF Inv, CommitOwnsSlot
  <2> QED
    BY <1>0, <2>1 DEF Inv, TypeOK, Release, Goto, Leave, CommitOwnsSlot,
       Uncommitted
<1>9. (\A s \in Threads : Registrar(s))'
  <2> SUFFICES ASSUME NEW s \in Threads PROVE Registrar(s)'
    OBVIOUS
  <2>1. CASE s # t
    BY <1>0, <2>1, LengthAssumption DEF Inv, TypeOK, Release, Goto, Registrar,
       Registering
  <2>2. CASE s = t
    BY <1>0, <2>2, LengthAssumption DEF Inv, TypeOK, Release, Goto, Registrar,
       Registering
  <2> QED
    BY <2>1, <2>2
<1>10. (WordReset /\ OneSender /\ ReadyIsWhole /\ OneReceiver /\
   RepliesInOrder)'
  BY DEF Inv, Release, Goto, Leave, TypeOK, WordReset, Loops, OneSender,
     HoldingLock, ReadyIsWhole, OneReceiver, Receiving, RepliesInOrder
<1>11. (\A s \in Threads : Committer(s))'
  BY DEF Inv, Release, Goto, Leave, TypeOK, Committer, Uncommitted
<1> QED
  BY <1>1, <1>2, <1>3, <1>4, <1>5, <1>6, <1>7, <1>8, <1>9, <1>10, <1>11 DEF Inv


-----------------------------------------------------------------------------
(* The queue send_queue_init makes satisfies the invariant. *)
LEMMA InitInv == Init => Inv
<1> SUFFICES ASSUME Init PROVE Inv
  OBVIOUS
<1>1. TypeOK
  <2>1. Reply(Zero) \in Elements
    BY ReplyType
  <2>2. sent \in Seq(Elements)
    BY DEF Init
  <2>3. ready \in [Slots -> BOOLEAN] /\ data \in [Slots -> Elements]
    BY <2>1 DEF Init
  <2>4. /\ pc \in [Threads -> Labels] /\ idx \in [Threads -> Nat]
        /\ attempt \in [Threads -> Nat] /\ word \in [Threads -> Words]
        /\ buf \in [Threads -> Elements]
    BY <2>1, WordsType DEF Init, Labels
  <2> QED
    BY <2>2, <2>3, <2>4 DEF Init, TypeOK
<1>2. WordReset /\ Window /\ HeadBound
  BY LengthAssumption, IntAssumption DEF Init, WordReset, Window, HeadBound
<1>3. OneSender /\ AtRest /\ \A t \in Threads : Sender(t)
  BY DEF Init, OneSender, AtRest, Sender, HoldingLock
<1>4. (\A t \in Threads : Popper(t)) /\ ReadyIsWhole /\ PipedPending
  BY DEF Init, Popper, Popping, ReadyIsWhole, PipedPending
<1>5. CommitOwnsSlot /\ \A t \in Threads : Committer(t)
  BY DEF Init, CommitOwnsSlot, Committer, Uncommitted
<1>6. OneReceiver /\ (\A t \in Threads : Registrar(t)) /\ RepliesInOrder
  BY DEF Init, OneReceiver, Receiving, Registrar, Registering, RepliesInOrder
<1> QED
  BY <1>1, <1>2, <1>3, <1>4, <1>5, <1>6 DEF Inv

(* Every step of every worker preserves the invariant. *)
LEMMA NextInv == Inv /\ [Next]_vars => Inv'
<1> SUFFICES ASSUME Inv, [Next]_vars PROVE Inv'
  OBVIOUS
<1>1. CASE UNCHANGED vars
  BY <1>1 DEF Inv, vars, shared, queue, locals, TypeOK, WordReset, Window,
     HeadBound, OneSender, AtRest, Sender, Popper, ReadyIsWhole, PipedPending,
     CommitOwnsSlot, Committer, OneReceiver, Registrar, RepliesInOrder
<1>2. ASSUME NEW t \in Threads, Receive(t) \/ Parse(t) \/ Rearm(t)
                                \/ TakePiped(t) \/ Run(t)
      PROVE  Inv'
  BY <1>2, ReceiveInv, ParseCommandInv, ParseEmptyInv, ParseStopInv, RearmInv,
     TakePipedInv, RunInv DEF Parse
<1>3. ASSUME NEW t \in Threads, Register(t) \/ Commit(t)
      PROVE  Inv'
  BY <1>3, RegisterCheckInv, RegisterUnreadyInv, RegisterZeroInv,
     RegisterPublishInv, CommitDataInv, CommitReadyInv DEF Register, Commit
<1>4. ASSUME NEW t \in Threads, PopStart(t) \/ Send(t)
      PROVE  Inv'
  BY <1>4, PopHeadInv, PopTailInv, PopReadyInv, PopCopyInv, PopLockInv, SendInv
     DEF PopStart
<1>5. ASSUME NEW t \in Threads, PopContinue(t)
      PROVE  Inv'
  BY <1>5, NextTailInv, NextReadyInv, NextCopyInv, NextLockInv, NextHeadInv,
     ReleaseInv DEF PopContinue
<1> QED
  BY <1>1, <1>2, <1>3, <1>4, <1>5 DEF Next, Work

(* The inductive invariant holds in every reachable state. *)
THEOREM Invariance == Spec => []Inv
<1> QED
  BY InitInv, NextInv, PTL DEF Spec

(* Every field of the queue and every local of a worker keeps its type,    *)
(* the word index of a copy included.                                      *)
THEOREM TypeCorrect == Spec => []TypeOK
<1>1. Inv => TypeOK
  BY DEF Inv
<1> QED
  BY <1>1, Invariance, PTL

(* The replies reach the connection in request order, each whole, exactly  *)
(* once, for any number of workers and any queue length.                   *)
THEOREM RepliesAlwaysInOrder == Spec => []RepliesInOrder
<1>1. Inv => RepliesInOrder
  BY DEF Inv
<1> QED
  BY <1>1, Invariance, PTL

(* head_lock is a lock: two workers never write to the connection at once. *)
THEOREM SenderIsExclusive == Spec => []OneSender
<1>1. Inv => OneSender
  BY DEF Inv
<1> QED
  BY <1>1, Invariance, PTL

(* A worker commits only into the slot its index was registered for.       *)
THEOREM CommitsAreOwned == Spec => []CommitOwnsSlot
<1>1. Inv => CommitOwnsSlot
  BY DEF Inv
<1> QED
  BY <1>1, Invariance, PTL

(* The counters stop at 2^31 + length: they never wrap around, so that the *)
(* unbounded counters of the model stand for the unsigned ones.            *)
THEOREM CountersNeverWrap == Spec => []TailBound
<1>1. Inv => TailBound
  BY LengthAssumption, IntAssumption
  DEF Inv, TypeOK, Window, HeadBound, TailBound
<1> QED
  BY <1>1, Invariance, PTL

-----------------------------------------------------------------------------
(* The refinement mapping of ImplementsReplyOrder.                         *)
Committed == {i \in 0 .. tail - 1 : i < head \/ ready[Slot(i)]}

(* Registering leaves the committed replies alone: its slot is outside of  *)
(* the window until tail has moved, and is not ready then. *)
LEMMA RegisterOrder ==
  ASSUME Inv, NEW t \in Threads, RegisterUnready(t) \/ RegisterPublish(t)
  PROVE  [Order!Next]_(Order!vars)
<1>0. /\ tail \in Nat /\ head \in Nat /\ head <= tail /\ Slot(tail) \in Slots
      /\ tail < head + Length /\ ready \in [Slots -> BOOLEAN]
      /\ \A i \in 0 .. tail - 1 : Slot(i) \in Slots
      /\ \A i \in head .. tail - 1 : Slot(i) # Slot(tail)
  BY WindowSlots
  DEF Inv, TypeOK, Window, Registrar, Registering, RegisterUnready, RegisterPublish
<1>1. CASE RegisterUnready(t)
  <2>1. ready' = [ready EXCEPT ![Slot(tail)] = FALSE] /\ UNCHANGED <<tail, head, sent>>
    BY <1>1 DEF RegisterUnready
  <2>2. \A i \in 0 .. tail - 1 : i < head \/ ready'[Slot(i)] = ready[Slot(i)]
    <3>1. \A i \in 0 .. tail - 1 : i < head \/ Slot(i) # Slot(tail)
      BY <1>0
    <3> QED
      BY <1>0, <2>1, <3>1
  <2>3. Committed' = Committed
    BY <2>1, <2>2 DEF Committed, Slot
  <2> QED
    BY <2>1, <2>3 DEF Order!vars, Committed
<1>2. CASE RegisterPublish(t)
  <2>1. tail' = tail + 1 /\ UNCHANGED <<head, ready, sent>>
    BY <1>2 DEF RegisterPublish
  <2>2. ~ready[Slot(tail)]
    BY <1>2 DEF RegisterPublish, Inv, Registrar
  <2>3. Committed' = Committed
    BY <1>0, <2>1, <2>2 DEF Committed, Slot
  <2>4. head <= Len(sent) /\ Len(sent) \in Nat
    BY DEF Inv, TypeOK, AtRest, Sender, HoldingLock
  <2>5. Order!Register
    BY <1>0, <2>1, <2>3, <2>4, LengthAssumption DEF Order!Register, Committed
  <2> QED
    BY <2>5 DEF Order!Next
<1> QED
  BY <1>1, <1>2

(* Setting ready commits the reply of the worker's own command. *)
LEMMA CommitOrder ==
  ASSUME Inv, NEW t \in Threads, CommitReady(t)
  PROVE  [Order!Next]_(Order!vars)
<1>0. PICK n \in Nat : n = idx[t]
  BY DEF Inv, TypeOK
<1>1. /\ n \in Nat /\ head <= n /\ n < tail /\ ~ready[Slot(n)]
      /\ ready' = [ready EXCEPT ![Slot(n)] = TRUE] /\ UNCHANGED <<tail, head, sent>>
  BY <1>0 DEF CommitReady, Inv, TypeOK, CommitOwnsSlot, Uncommitted
<1>2. /\ tail \in Nat /\ head \in Nat /\ ready \in [Slots -> BOOLEAN]
      /\ \A i \in 0 .. tail - 1 : Slot(i) \in Slots
      /\ \A i \in head .. tail - 1 : i # n => Slot(i) # Slot(n)
  BY <1>1, WindowSlots DEF Inv, TypeOK
<1>3. \A i \in 0 .. tail - 1 :
        i < head \/ ready'[Slot(i)] <=> i < head \/ ready[Slot(i)] \/ i = n
  BY <1>1, <1>2
<1>4. Committed' = Committed \cup {n}
  BY <1>1, <1>2, <1>3 DEF Committed, Slot
<1>5. n \in (0 .. tail - 1) \ {i \in 0 .. tail - 1 : i < head \/ ready[Slot(i)]}
  BY <1>1, <1>2
<1>6. Order!Commit(n)
  BY <1>1, <1>4 DEF Order!Commit, Committed
<1> QED
  BY <1>5, <1>6 DEF Order!Next

(* The sender writes the reply at the head, which is committed. *)
LEMMA WriteOrder ==
  ASSUME Inv, NEW t \in Threads, Send(t)
  PROVE  [Order!Next]_(Order!vars)
<1>1. /\ pc[t] = "send" /\ sent' = Append(sent, buf[t])
      /\ UNCHANGED <<tail, head, ready>>
  BY DEF Send, queue
<1>2. /\ Len(sent) = head /\ buf[t] = Reply(head)
      /\ head < tail /\ ready[Slot(head)] /\ head \in Nat /\ tail \in Nat
  BY <1>1 DEF Inv, TypeOK, Sender, HoldingLock
<1>3. Len(sent) \in Committed
  BY <1>2 DEF Committed
<1>4. Committed' = Committed
  BY <1>1 DEF Committed, Slot
<1>5. Order!Write
  BY <1>1, <1>2, <1>3, <1>4 DEF Order!Write, Order!Reply, Reply, Words, Committed
<1> QED
  BY <1>5 DEF Order!Next

(* The head moves past a reply that was committed. *)
LEMMA HeadOrder ==
  ASSUME Inv, NEW t \in Threads, NextHead(t) \/ Release(t)
  PROVE  UNCHANGED Order!vars
<1>1. head' = head + 1 /\ UNCHANGED <<tail, ready, sent>>
  BY DEF NextHead, Release
<1>2. ready[Slot(head)] /\ head \in Nat /\ tail \in Nat
  BY DEF NextHead, Release, Inv, TypeOK, Sender, HoldingLock
<1>3. Committed' = Committed
  BY <1>1, <1>2 DEF Committed, Slot
<1> QED
  BY <1>1, <1>3 DEF Order!vars, Committed

(* Every step of a worker is a step of ReplyOrder or none. *)
LEMMA OrderStep == ASSUME Inv, [Next]_vars PROVE [Order!Next]_(Order!vars)
<1>1. CASE UNCHANGED <<tail, head, ready, sent>>
  BY <1>1 DEF Order!vars, Slot
<1>2. CASE UNCHANGED vars
  BY <1>1, <1>2 DEF vars, shared, queue
<1>3. ASSUME NEW t \in Threads, Receive(t) \/ Parse(t) \/ Rearm(t) \/ TakePiped(t) \/ Run(t)
      PROVE  UNCHANGED <<tail, head, ready, sent>>
  BY <1>3 DEF Receive, Parse, ParseCommand, ParseEmpty, ParseStop, Rearm, TakePiped, Run,
              shared, queue
<1>4. ASSUME NEW t \in Threads,
             RegisterCheck(t) \/ RegisterZero(t) \/ CommitData(t) \/ PopStart(t)
      PROVE  UNCHANGED <<tail, head, ready, sent>>
  BY <1>4 DEF RegisterCheck, RegisterZero, CommitData, PopStart, PopHead, PopTail, PopReady,
              PopCopy, PopLock, shared, queue
<1>5. ASSUME NEW t \in Threads,
             NextTail(t) \/ NextReady(t) \/ NextCopy(t) \/ NextLock(t)
      PROVE  UNCHANGED <<tail, head, ready, sent>>
  BY <1>5 DEF NextTail, NextReady, NextCopy, NextLock, shared, queue
<1>6. ASSUME NEW t \in Threads,
             \/ RegisterUnready(t) \/ RegisterPublish(t) \/ CommitReady(t)
             \/ Send(t) \/ NextHead(t) \/ Release(t)
      PROVE  [Order!Next]_(Order!vars)
  BY <1>6, RegisterOrder, CommitOrder, WriteOrder, HeadOrder
<1> QED
  BY <1>1, <1>2, <1>3, <1>4, <1>5, <1>6 DEF Next, Work, Register, Commit, PopContinue

(* The queue, with its slots that are used again, its lock and its         *)
(* workers, implements the order promised to the client.                   *)
THEOREM QueueImplementsReplyOrder == Spec => ImplementsReplyOrder
<1>1. Init => Order!Init
  BY LengthAssumption DEF Init, Order!Init
<1> QED
  BY <1>1, OrderStep, Invariance, PTL DEF Spec, ImplementsReplyOrder, Order!Spec
=============================================================================
