----------------------------- MODULE SendQueue -----------------------------
(***************************************************************************)
(* The reply queue of one connection (lib/send_queue.c), driven the way    *)
(* onestep_thread drives it (network_parser.c): the worker that owns the   *)
(* connection registers one slot per pipelined command, in request order;  *)
(* any worker may run a command and commits its reply into the slot; any   *)
(* worker that has committed tries to become the one sender, and writes    *)
(* every reply that is ready, from the head on.                            *)
(*                                                                         *)
(* The reply to command number n is the element all of whose words are n.  *)
(* An element is copied word by word (memcpy and memset are not atomic);   *)
(* every other access to a shared field is a step of its own.  All shared  *)
(* accesses are sequentially consistent atomics, volatile accesses of the  *)
(* one owner, or are separated by SEQ_CST fences.                          *)
(***************************************************************************)
EXTENDS Integers, Sequences

CONSTANTS Threads,        \* the workers running onestep_thread
          Length,         \* q->length, in slots
          ElementLength,  \* q->element_length, in words copied one at a time
          IntLimit        \* the first index that is negative as an int (2^31)

ASSUME LengthAssumption == Length \in Nat \ {0}
ASSUME ElementAssumption == ElementLength \in Nat \ {0}
ASSUME IntAssumption == IntLimit \in Nat

Slots == 0 .. Length - 1
Words == 1 .. ElementLength

Zero == -1                               \* the zeroed word memset leaves
Reply(n) == [w \in Words |-> n]          \* what command n's runner commits
Elements == [Words -> Nat \cup {Zero}]

VARIABLES
  tail, head, headLock,  \* the queue's counters
  ready, data,           \* contents[s].ready and contents[s].data
  armed,                 \* the connection is armed in epoll (EPOLLONESHOT)
  piped,                 \* the indices written to the pipe and not yet read
  sent,                  \* the elements given to send(), in order
  pc,                    \* where each worker is
  idx,                   \* ctx.send_queue_ptr: the slot the worker will commit
  attempt,               \* attempt_idx (pop_start) or head (pop_continue)
  word,                  \* the next word of the copy in progress
  buf                    \* sq_data / data_in_q: the element being popped

queue  == <<tail, head, headLock, ready, data>>
shared == <<queue, armed, piped, sent>>
locals == <<pc, idx, attempt, word, buf>>
vars   == <<shared, locals>>

Slot(i) == i % Length

Goto(t, label) == pc' = [pc EXCEPT ![t] = label]

(* Mutation: the copy goes one word too far.                               *)
CopyOverrun(t, loop, after) ==
  IF word[t] <= ElementLength
  THEN word' = [word EXCEPT ![t] = @ + 1] /\ Goto(t, loop)
  ELSE word' = [word EXCEPT ![t] = 1]     /\ Goto(t, after)

(* The loop of memcpy and memset: one word, then the next or the statement *)
(* that follows.                                                           *)
NextWord(t, loop, after) ==
  IF word[t] < ElementLength
  THEN word' = [word EXCEPT ![t] = @ + 1] /\ Goto(t, loop)
  ELSE word' = [word EXCEPT ![t] = 1]     /\ Goto(t, after)

Init ==
  /\ tail = 0 /\ head = 0 /\ headLock = 0
  /\ ready = [s \in Slots |-> FALSE]
  /\ data = [s \in Slots |-> Reply(Zero)]
  /\ armed = TRUE /\ piped = {} /\ sent = <<>>
  /\ pc = [t \in Threads |-> "idle"]
  /\ idx = [t \in Threads |-> 0]
  /\ attempt = [t \in Threads |-> 0]
  /\ word = [t \in Threads |-> 1]
  /\ buf = [t \in Threads |-> Reply(Zero)]

(* Back to epoll_wait: the locals of the command are dead.                 *)
Leave(t) ==
  /\ Goto(t, "idle")
  /\ idx' = [idx EXCEPT ![t] = 0]
  /\ attempt' = [attempt EXCEPT ![t] = 0]
  /\ buf' = [buf EXCEPT ![t] = Reply(Zero)]

-----------------------------------------------------------------------------
(* Mutations: what a plausible mistake would make of an action below.  No  *)
(* specification uses them.                                                *)

(* The slot one past the window is taken for free.                         *)
CheckOffByOne(t) ==
  /\ pc[t] = "check"
  /\ tail - head <= Length
  /\ Goto(t, "unready")
  /\ UNCHANGED <<shared, idx, attempt, word, buf>>

(* The slot is not marked unready when it is registered again.             *)
KeepReady(t) ==
  /\ pc[t] = "unready"
  /\ Goto(t, "zero")
  /\ UNCHANGED <<shared, idx, attempt, word, buf>>

(* pop_start does not look at ready.                                       *)
IgnoreReady(t) ==
  /\ pc[t] = "popReady"
  /\ Goto(t, "popCopy")
  /\ UNCHANGED <<shared, idx, attempt, word, buf>>

(* head_lock is added to, not compared and exchanged.                      *)
LockBlindly(t) ==
  /\ pc[t] = "popLock"
  /\ headLock' = headLock + 1
  /\ Goto(t, "send")
  /\ UNCHANGED <<tail, head, ready, data, armed, piped, sent,
                 idx, attempt, word, buf>>

(* The caller gives up on -3 as it does on -1 and -2.                      *)
LockOnce(t) ==
  /\ pc[t] = "popLock"
  /\ IF headLock = attempt[t]
     THEN /\ headLock' = attempt[t] + 1 /\ Goto(t, "send")
          /\ UNCHANGED <<idx, attempt, buf>>
     ELSE UNCHANGED headLock /\ Leave(t)
  /\ UNCHANGED <<tail, head, ready, data, armed, piped, sent, word>>

-----------------------------------------------------------------------------
(* onestep_thread and packet_reciever: who parses, who runs what.          *)

(* epoll_wait returns the connection: EPOLLONESHOT disarms it.             *)
Receive(t) ==
  /\ pc[t] = "idle" /\ armed
  /\ armed' = FALSE
  /\ Goto(t, "parse")
  /\ UNCHANGED <<queue, piped, sent, idx, attempt, word, buf>>

(* The parser returns a command: RESP_SM_STATUS_MORE or _DONE, see         *)
(* RegisterPublish.                                                        *)
ParseCommand(t) ==
  /\ pc[t] = "parse"
  /\ Goto(t, "check")
  /\ UNCHANGED <<shared, idx, attempt, word, buf>>

(* PR_REARM_AGAIN: no complete command yet.                                *)
ParseEmpty(t) ==
  /\ pc[t] = "parse"
  /\ armed' = TRUE
  /\ Goto(t, "idle")
  /\ UNCHANGED <<queue, piped, sent, idx, attempt, word, buf>>

(* PR_ERROR, PR_CLOSED and PR_TOO_SHORT: the connection is never armed     *)
(* again.                                                                  *)
ParseStop(t) ==
  /\ pc[t] = "parse"
  /\ Goto(t, "idle")
  /\ UNCHANGED <<shared, idx, attempt, word, buf>>

(* Re-arm the connection before running the command just registered.       *)
Rearm(t) ==
  /\ pc[t] = "rearm"
  /\ armed' = TRUE
  /\ Goto(t, "run")
  /\ UNCHANGED <<queue, piped, sent, idx, attempt, word, buf>>

(* The read of the pipe: one of the commands handed over.  The readers     *)
(* race, so the order in which they go on is arbitrary: piped is a set.    *)
TakePiped(t) ==
  /\ pc[t] = "idle"
  /\ \E i \in piped :
       /\ piped' = piped \ {i}
       /\ idx' = [idx EXCEPT ![t] = i]
  /\ Goto(t, "run")
  /\ UNCHANGED <<queue, armed, sent, attempt, word, buf>>

(* runner() up to the first reply function: from here on the reply exists. *)
Run(t) ==
  /\ pc[t] = "run"
  /\ Goto(t, "commit")
  /\ UNCHANGED <<shared, idx, attempt, word, buf>>

-----------------------------------------------------------------------------
(* send_queue_register                                                     *)

(* The caller spins while the queue is full.                               *)
RegisterCheck(t) ==
  /\ pc[t] = "check"
  /\ tail - head < Length
  /\ Goto(t, "unready")
  /\ UNCHANGED <<shared, idx, attempt, word, buf>>

RegisterUnready(t) ==
  /\ pc[t] = "unready"
  /\ ready' = [ready EXCEPT ![Slot(tail)] = FALSE]
  /\ Goto(t, "zero")
  /\ UNCHANGED <<tail, head, headLock, data, armed, piped, sent,
                 idx, attempt, word, buf>>

RegisterZero(t) ==
  /\ pc[t] = "zero"
  /\ data' = [data EXCEPT ![Slot(tail)][word[t]] = Zero]
  /\ NextWord(t, "zero", "publish")
  /\ UNCHANGED <<tail, head, headLock, ready, armed, piped, sent,
                 idx, attempt, buf>>

(* The add to tail and return (int)rv.  From IntLimit on the caller sees a *)
(* negative value, takes the queue for full and calls again.  Otherwise    *)
(* the command goes to the pipe when the parser said MORE (there is input  *)
(* behind it), and is kept by this worker when it said DONE.               *)
RegisterPublish(t) ==
  /\ pc[t] = "publish"
  /\ tail' = tail + 1
  /\ \/ /\ tail >= IntLimit
        /\ Goto(t, "check")
        /\ UNCHANGED <<idx, piped>>
     \/ /\ tail < IntLimit
        /\ piped' = piped \cup {tail}
        /\ Goto(t, "parse")
        /\ UNCHANGED idx
     \/ /\ tail < IntLimit
        /\ idx' = [idx EXCEPT ![t] = tail]
        /\ Goto(t, "rearm")
        /\ UNCHANGED piped
  /\ UNCHANGED <<head, headLock, ready, data, armed, sent,
                 attempt, word, buf>>

-----------------------------------------------------------------------------
(* send_queue_commit                                                       *)

CommitData(t) ==
  /\ pc[t] = "commit"
  /\ data' = [data EXCEPT ![Slot(idx[t])][word[t]] = idx[t]]
  /\ NextWord(t, "commit", "ready")
  /\ UNCHANGED <<tail, head, headLock, ready, armed, piped, sent,
                 idx, attempt, buf>>

CommitReady(t) ==
  /\ pc[t] = "ready"
  /\ ready' = [ready EXCEPT ![Slot(idx[t])] = TRUE]
  /\ Goto(t, "popHead")
  /\ UNCHANGED <<tail, head, headLock, data, armed, piped, sent,
                 idx, attempt, word, buf>>

-----------------------------------------------------------------------------
(* send_queue_pop_start and the caller's retry on -3                       *)

PopHead(t) ==
  /\ pc[t] = "popHead"
  /\ attempt' = [attempt EXCEPT ![t] = head]
  /\ Goto(t, "popTail")
  /\ UNCHANGED <<shared, idx, word, buf>>

PopTail(t) ==
  /\ pc[t] = "popTail"
  /\ IF attempt[t] = tail
     THEN Leave(t)
     ELSE Goto(t, "popReady") /\ UNCHANGED <<idx, attempt, buf>>
  /\ UNCHANGED <<shared, word>>

PopReady(t) ==
  /\ pc[t] = "popReady"
  /\ IF ready[Slot(attempt[t])]
     THEN Goto(t, "popCopy") /\ UNCHANGED <<idx, attempt, buf>>
     ELSE Leave(t)
  /\ UNCHANGED <<shared, word>>

PopCopy(t) ==
  /\ pc[t] = "popCopy"
  /\ buf' = [buf EXCEPT ![t][word[t]] = data[Slot(attempt[t])][word[t]]]
  /\ NextWord(t, "popCopy", "popLock")
  /\ UNCHANGED <<shared, idx, attempt>>

PopLock(t) ==
  /\ pc[t] = "popLock"
  /\ IF headLock = attempt[t]
     THEN headLock' = attempt[t] + 1 /\ Goto(t, "send")
     ELSE UNCHANGED headLock /\ Goto(t, "popHead")
  /\ UNCHANGED <<tail, head, ready, data, armed, piped, sent,
                 idx, attempt, word, buf>>

(* send_pre_data writes the popped element to the connection.              *)
Send(t) ==
  /\ pc[t] = "send"
  /\ sent' = Append(sent, buf[t])
  /\ Goto(t, "nextTail")
  /\ UNCHANGED <<queue, armed, piped, idx, attempt, word, buf>>

-----------------------------------------------------------------------------
(* send_queue_pop_continue                                                 *)

NextTail(t) ==
  /\ pc[t] = "nextTail"
  /\ attempt' = [attempt EXCEPT ![t] = head]
  /\ Goto(t, IF head + 1 # tail THEN "nextReady" ELSE "release")
  /\ UNCHANGED <<shared, idx, word, buf>>

(* head_lock is this worker's alone, and tail only grows: the two last     *)
(* loads of the condition are read with the ready flag.                    *)
NextReady(t) ==
  /\ pc[t] = "nextReady"
  /\ Goto(t, IF ready[Slot(attempt[t] + 1)] /\ headLock # tail
             THEN "nextCopy" ELSE "release")
  /\ UNCHANGED <<shared, idx, attempt, word, buf>>

NextCopy(t) ==
  /\ pc[t] = "nextCopy"
  /\ buf' = [buf EXCEPT ![t][word[t]] = data[Slot(attempt[t] + 1)][word[t]]]
  /\ NextWord(t, "nextCopy", "nextLock")
  /\ UNCHANGED <<shared, idx, attempt>>

NextLock(t) ==
  /\ pc[t] = "nextLock"
  /\ headLock' = headLock + 1
  /\ Goto(t, "nextHead")
  /\ UNCHANGED <<tail, head, ready, data, armed, piped, sent,
                 idx, attempt, word, buf>>

NextHead(t) ==
  /\ pc[t] = "nextHead"
  /\ head' = head + 1
  /\ Goto(t, "send")
  /\ UNCHANGED <<tail, headLock, ready, data, armed, piped, sent,
                 idx, attempt, word, buf>>

Release(t) ==
  /\ pc[t] = "release"
  /\ head' = head + 1
  /\ Leave(t)
  /\ UNCHANGED <<tail, headLock, ready, data, armed, piped, sent, word>>

-----------------------------------------------------------------------------
Register(t) == RegisterCheck(t) \/ RegisterUnready(t) \/ RegisterZero(t)
               \/ RegisterPublish(t)
Commit(t) == CommitData(t) \/ CommitReady(t)
PopStart(t) == PopHead(t) \/ PopTail(t) \/ PopReady(t) \/ PopCopy(t)
               \/ PopLock(t)
PopContinue(t) == NextTail(t) \/ NextReady(t) \/ NextCopy(t) \/ NextLock(t)
                  \/ NextHead(t) \/ Release(t)

(* The parser reads a non-blocking socket: it always returns.              *)
Parse(t) == ParseCommand(t) \/ ParseEmpty(t) \/ ParseStop(t)

(* What a worker goes on doing whatever the peer sends.                    *)
Work(t) == Parse(t) \/ Rearm(t) \/ TakePiped(t) \/ Run(t) \/ Register(t)
           \/ Commit(t) \/ PopStart(t) \/ Send(t) \/ PopContinue(t)

Next == \E t \in Threads : Receive(t) \/ Work(t)

Spec == Init /\ [][Next]_vars

(* The operating system keeps scheduling every worker; epoll_wait returns  *)
(* the ready descriptors in turn, so that a pipe with something in it is   *)
(* not passed over for ever in favour of connections.                      *)
FairSpec == /\ Spec
            /\ \A t \in Threads : WF_vars(Work(t))
            /\ SF_vars(\E t \in Threads : TakePiped(t))

-----------------------------------------------------------------------------
(* The workers inside packet_reciever or the registering loop.             *)
Receiving == {"parse", "check", "unready", "zero", "publish", "rearm"}
Registering == {"unready", "zero", "publish"}

(* The worker between its CAS on head_lock and the release of the queue.   *)
HoldingLock == {"send", "nextTail", "nextReady", "nextCopy", "nextLock",
                "nextHead", "release"}
Uncommitted == {"run", "commit", "ready", "rearm"}
Popping == {"popTail", "popReady", "popCopy", "popLock"}
Labels == {"idle", "popHead"} \cup Receiving \cup HoldingLock
          \cup Uncommitted \cup Popping

(* Every field keeps its type; the counters are bounded only by what       *)
(* TailBound proves.                                                       *)
TypeOK ==
  /\ tail \in Nat /\ head \in Nat /\ headLock \in Nat
  /\ ready \in [Slots -> BOOLEAN]
  /\ data \in [Slots -> Elements]
  /\ armed \in BOOLEAN /\ piped \subseteq Nat /\ sent \in Seq(Elements)
  /\ pc \in [Threads -> Labels]
  /\ idx \in [Threads -> Nat]
  /\ attempt \in [Threads -> Nat]
  /\ word \in [Threads -> Words]
  /\ buf \in [Threads -> Elements]

(* The n-th element written to the connection is the whole reply to the    *)
(* n-th command: none is skipped, repeated, reordered or torn, whoever     *)
(* ran and whoever sent it (send_queue_pop_start, send_queue_pop_continue).*)
RepliesInOrder == \A n \in 1 .. Len(sent) : sent[n] = Reply(n - 1)

(* Only one worker at a time is between winning head_lock and releasing    *)
(* the queue: two of them would interleave their writes on the socket.     *)
OneSender ==
  \A s, t \in Threads : pc[s] \in HoldingLock /\ pc[t] \in HoldingLock => s = t

(* A worker that is about to commit writes a slot that is still its own:   *)
(* its index has not been passed by head, is below tail, is not ready, is  *)
(* not in the pipe and is not held by another worker.                      *)
CommitOwnsSlot ==
  \A t \in Threads : pc[t] \in Uncommitted =>
    /\ head <= idx[t] /\ idx[t] < tail
    /\ ~ready[Slot(idx[t])]
    /\ idx[t] \notin piped
    /\ \A s \in Threads \ {t} : pc[s] \in Uncommitted => idx[s] # idx[t]

(* The counters stop before 2^31 + length: no index is ever reused and the *)
(* unsigned fields never wrap around.                                      *)
TailBound == tail <= IntLimit + Length

(* Every command that was registered is answered, if the workers keep      *)
(* running, runner() returns, and no index has gone negative.  pop_start   *)
(* may give up (-2) with a ready reply at the head, when the slot it read  *)
(* was registered again behind its back: then the worker of that later     *)
(* command sends both.                                                     *)
EveryReplySent ==
  \A i \in 0 .. IntLimit - 1 :
    tail > i ~> (Len(sent) > i \/ tail > IntLimit)

(* A command is committed once its slot is ready; it stays so when head    *)
(* has passed it and the slot is reused.                                   *)
Order == INSTANCE ReplyOrder WITH
           Window <- Length,
           registered <- tail,
           committed <- {i \in 0 .. tail - 1 : i < head \/ ready[Slot(i)]},
           written <- sent

(* The queue with its slots, lock and workers implements the order         *)
(* promised to the client: replies are written in request order and only   *)
(* once committed, and a committed reply is never lost to a reused slot.   *)
ImplementsReplyOrder == Order!Spec
=============================================================================
