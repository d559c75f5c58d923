------------------------- MODULE ConnectionsProofs -------------------------
(***************************************************************************)
(* Proofs about connections for any set of clients, descriptors and        *)
(* workers, any queue length and any size of the pipe.                     *)
(***************************************************************************)
EXTENDS Connections, FiniteSetTheorems, TLAPS

Receiving == {"parse", "more", "done", "write", "rearm"}
Holding   == {"write", "rearm", "run"}
Sending   == {"send", "continue"}

(* What a worker or the pipe points at was accepted.                       *)
Located ==
  /\ \A w \in Workers : pc[w] # "idle" => conn[w] \in Conns /\ stage[conn[w]] # "new"
  /\ \A i \in 1 .. Len(pipe) : stage[pipe[i].conn] # "new"

(* EPOLLONESHOT: a connection has one receiver, none while it is armed,    *)
(* and its receiver is the one that closes it.                             *)
Exclusive ==
  /\ \A v, w \in Workers :
       pc[v] \in Receiving /\ pc[w] \in Receiving /\ conn[v] = conn[w] => v = w
  /\ \A w \in Workers :
       pc[w] \in Receiving => ~armed[conn[w]] /\ stage[conn[w]] = "open"

(* A connection is closed after its client ended it, and an open one has   *)
(* its descriptor for itself.                                              *)
Descriptors ==
  /\ \A c \in Conns : stage[c] = "closed" => ended[c]
  /\ \A c \in Conns : stage[c] = "open" => fd[c] \in Fds
  /\ \A c, d \in Conns : stage[c] = "open" /\ stage[d] = "open" /\ fd[c] = fd[d] => c = d

(* A place of the queue whose reply is not committed.                      *)
Awaited(c, n) == head[c] <= n /\ n < tail[c] /\ n \notin ready[c]

ReadyRegistered == \A c \in Conns : \A n \in ready[c] : n < tail[c]

(* Whoever holds a command holds one that is awaited, ...                  *)
HeldAwaited ==
  /\ \A w \in Workers : pc[w] \in Holding => Awaited(conn[w], idx[w])
  /\ \A i \in 1 .. Len(pipe) : Awaited(pipe[i].conn, pipe[i].idx)

(* ... and nobody else does.                                               *)
HeldOnce ==
  /\ \A v, w \in Workers :
       /\ pc[v] \in Holding /\ pc[w] \in Holding
       /\ conn[v] = conn[w] /\ idx[v] = idx[w]
       => v = w
  /\ \A w \in Workers : \A i \in 1 .. Len(pipe) :
       pc[w] \in Holding => conn[w] # pipe[i].conn \/ idx[w] # pipe[i].idx
  /\ \A i, j \in 1 .. Len(pipe) :
       pipe[i].conn = pipe[j].conn /\ pipe[i].idx = pipe[j].idx => i = j

(* Every awaited command is held.                                          *)
AwaitedHeld ==
  \A c \in Conns : \A n \in Nat : Awaited(c, n) =>
    \/ \E w \in Workers : pc[w] \in Holding /\ conn[w] = c /\ idx[w] = n
    \/ \E i \in 1 .. Len(pipe) : pipe[i].conn = c /\ pipe[i].idx = n

(* A sender has the lock of its queue, for a reply that is ready; sent is  *)
(* one ahead of head between send() and pop_continue.                      *)
SenderLocks ==
  /\ \A v, w \in Workers :
       pc[v] \in Sending /\ pc[w] \in Sending /\ conn[v] = conn[w] => v = w
  /\ \A w \in Workers : pc[w] \in Sending =>
       locked[conn[w]] /\ head[conn[w]] \in ready[conn[w]]
  /\ \A w \in Workers : pc[w] = "continue" => Len(sent[conn[w]]) = head[conn[w]] + 1
  /\ \A c \in Conns : (\A w \in Workers : ~(pc[w] = "continue" /\ conn[w] = c))
                      => Len(sent[c]) = head[c]

SentInOrder == \A c \in Conns : \A i \in 1 .. Len(sent[c]) : sent[c][i].idx = i - 1

Inv ==
  /\ TypeOK
  /\ Located
  /\ Exclusive
  /\ Descriptors
  /\ ReadyRegistered
  /\ HeldAwaited
  /\ HeldOnce
  /\ AwaitedHeld
  /\ SenderLocks
  /\ SentInOrder
  /\ RepliesReachClient

-----------------------------------------------------------------------------
(* The descriptor of an open connection stands for it. *)
LEMMA PeerIsOwner ==
  ASSUME Descriptors, NEW c \in Conns, stage[c] = "open"
  PROVE  Peer(fd[c]) = c
BY DEF Descriptors, Peer

(* A descriptor with no open connection is free. *)
LEMMA PeerIsNobody ==
  ASSUME NEW f, Peer(f) = None
  PROVE  \A c \in Conns : ~(stage[c] = "open" /\ fd[c] = f)
BY NoneAssumption DEF Peer

(* What the pipe holds are commands. *)
LEMMA PipeType ==
  ASSUME TypeOK
  PROVE  \A i \in 1 .. Len(pipe) : pipe[i].conn \in Conns /\ pipe[i].idx \in Nat
<1>1. \A i \in 1 .. Len(pipe) : pipe[i] \in Calls
  BY DEF TypeOK
<1> QED
  BY <1>1 DEF Calls

(* The step takes no command from a worker and gives it none. *)
SameHolders ==
  \A w \in Workers :
    /\ pc'[w] \in Holding <=> pc[w] \in Holding
    /\ pc[w] \in Holding => conn'[w] = conn[w] /\ idx'[w] = idx[w]

(* A step that leaves the queues, the pipe and the holders alone leaves    *)
(* every command where it was. *)
LEMMA HoldersKept ==
  ASSUME Inv, UNCHANGED <<tail, head, ready, pipe>>, SameHolders
  PROVE  ReadyRegistered' /\ HeldAwaited' /\ HeldOnce' /\ AwaitedHeld'
<1> USE DEF Inv, SameHolders
<1>1. ReadyRegistered' /\ HeldAwaited'
  BY DEF ReadyRegistered, HeldAwaited, Awaited
<1>2. HeldOnce'
  BY DEF HeldOnce
<1>3. AwaitedHeld'
  BY DEF AwaitedHeld, Awaited
<1> QED
  BY <1>1, <1>2, <1>3

(* Nothing has happened yet. *)
LEMMA InitInv == ASSUME Init PROVE Inv
<1> USE DEF Init
<1>1. TypeOK
  BY BoundsAssumption DEF TypeOK, Labels, Calls, Replies
<1>2. Located /\ Exclusive /\ Descriptors /\ ReadyRegistered
  BY DEF Located, Exclusive, Descriptors, ReadyRegistered, Receiving
<1>3. HeldAwaited /\ HeldOnce /\ AwaitedHeld
  BY DEF HeldAwaited, HeldOnce, AwaitedHeld, Awaited, Holding
<1>4. SenderLocks /\ SentInOrder /\ RepliesReachClient
  BY DEF SenderLocks, SentInOrder, RepliesReachClient, Sending
<1> QED
  BY <1>1, <1>2, <1>3, <1>4 DEF Inv

(* A new connection gets a free descriptor. *)
LEMMA AcceptInv ==
  ASSUME Inv, NEW c \in Conns, Accept(c)
  PROVE  Inv'
<1> USE DEF Inv, Accept
<1>1. TypeOK'
  BY DEF TypeOK, queues, locals
<1>2. Located'
  BY DEF TypeOK, Located, locals
<1>3. Exclusive'
  BY DEF TypeOK, Located, Exclusive, locals, Receiving
<1>4. Descriptors'
  <2>1. PICK f \in Fds : Peer(f) = None /\ fd' = [fd EXCEPT ![c] = f]
    OBVIOUS
  <2>2. \A d \in Conns : ~(stage[d] = "open" /\ fd[d] = f)
    BY <2>1, PeerIsNobody
  <2> QED
    BY <2>1, <2>2 DEF TypeOK, Descriptors
<1>5. ReadyRegistered' /\ HeldAwaited' /\ HeldOnce' /\ AwaitedHeld'
  BY DEF ReadyRegistered, HeldAwaited, HeldOnce, AwaitedHeld, Awaited, queues, locals
<1>6. SenderLocks' /\ SentInOrder' /\ RepliesReachClient'
  BY DEF SenderLocks, SentInOrder, RepliesReachClient, queues, locals
<1> QED
  BY <1>1, <1>2, <1>3, <1>4, <1>5, <1>6

(* A client sends a command or ends its connection. *)
LEMMA ClientInv ==
  ASSUME Inv, NEW c \in Conns, Ask(c) \/ End(c)
  PROVE  Inv'
<1> USE DEF Inv
<1>0. UNCHANGED <<stage, fd, armed, queues, sent, pipe, locals>>
  BY DEF Ask, End
<1>1. TypeOK'
  <2>1. CASE Ask(c)
    BY SMTT(60), <2>1 DEF TypeOK, queues, locals, Ask
  <2>2. CASE End(c)
    BY <2>2 DEF TypeOK, queues, locals, End
  <2> QED
    BY <2>1, <2>2
<1>2. \A d \in Conns : ended'[d] = ended[d] \/ ended'[d] = TRUE
  BY DEF Ask, End, TypeOK
<1>3. Located' /\ Exclusive'
  BY <1>0 DEF Located, Exclusive, queues, locals
<1>4. Descriptors'
  BY <1>0, <1>2 DEF Descriptors
<1>5. ReadyRegistered' /\ HeldAwaited' /\ HeldOnce' /\ AwaitedHeld'
  BY <1>0 DEF ReadyRegistered, HeldAwaited, HeldOnce, AwaitedHeld, Awaited, queues, locals
<1>6. SenderLocks' /\ SentInOrder'
  BY <1>0 DEF SenderLocks, SentInOrder, queues, locals
<1>7. RepliesReachClient'
  BY <1>0, <1>2 DEF RepliesReachClient
<1> QED
  BY <1>1, <1>3, <1>4, <1>5, <1>6, <1>7

(* The receiver of a connection is the only one. *)
LEMMA ReceiveInv ==
  ASSUME Inv, NEW w \in Workers, NEW c \in Conns, Receive(w, c)
  PROVE  Inv'
<1> USE DEF Inv, Receive, Goto
<1>1. TypeOK'
  BY DEF TypeOK, Labels, clients, queues
<1>2. Located'
  BY DEF TypeOK, Located, Readable, clients
<1>3. Exclusive'
  BY DEF TypeOK, Located, Exclusive, Readable, Receiving, clients
<1>4. Descriptors' /\ RepliesReachClient'
  BY DEF Descriptors, RepliesReachClient, clients
<1>5. ReadyRegistered' /\ HeldAwaited' /\ HeldOnce' /\ AwaitedHeld'
  <2>1. UNCHANGED <<tail, head, ready, pipe>> /\ SameHolders
    BY DEF TypeOK, Holding, SameHolders, queues
  <2> QED
    BY <2>1, HoldersKept
<1>6. SenderLocks' /\ SentInOrder'
  BY DEF TypeOK, SenderLocks, SentInOrder, Sending, queues
<1> QED
  BY <1>1, <1>2, <1>3, <1>4, <1>5, <1>6

(* Parsing moves a receiver only. *)
LEMMA ParseCommandInv ==
  ASSUME Inv, NEW w \in Workers, ParseCommand(w)
  PROVE  Inv'
<1> USE DEF Inv, ParseCommand, Goto
<1>1. TypeOK'
  BY DEF TypeOK, Labels, Located, clients, queues
<1>2. Located' /\ Exclusive'
  BY DEF TypeOK, Located, Exclusive, Receiving, clients
<1>3. Descriptors' /\ RepliesReachClient'
  BY DEF Descriptors, RepliesReachClient, clients
<1>4. ReadyRegistered' /\ HeldAwaited' /\ HeldOnce' /\ AwaitedHeld'
  <2>1. UNCHANGED <<tail, head, ready, pipe>> /\ SameHolders
    BY DEF TypeOK, Holding, SameHolders, queues
  <2> QED
    BY <2>1, HoldersKept
<1>5. SenderLocks' /\ SentInOrder'
  BY DEF TypeOK, SenderLocks, SentInOrder, Sending, queues
<1> QED
  BY <1>1, <1>2, <1>3, <1>4, <1>5

(* A connection is armed again by its receiver. *)
LEMMA ParseEmptyInv ==
  ASSUME Inv, NEW w \in Workers, ParseEmpty(w)
  PROVE  Inv'
<1> USE DEF Inv, ParseEmpty, Leave, Goto
<1>1. TypeOK'
  BY DEF TypeOK, Labels, clients, queues
<1>2. Located' /\ Exclusive'
  BY DEF TypeOK, Located, Exclusive, Receiving, clients
<1>3. Descriptors' /\ RepliesReachClient'
  BY DEF Descriptors, RepliesReachClient, clients
<1>4. ReadyRegistered' /\ HeldAwaited' /\ HeldOnce' /\ AwaitedHeld'
  <2>1. UNCHANGED <<tail, head, ready, pipe>> /\ SameHolders
    BY DEF TypeOK, Holding, SameHolders, queues
  <2> QED
    BY <2>1, HoldersKept
<1>5. SenderLocks' /\ SentInOrder'
  BY DEF TypeOK, SenderLocks, SentInOrder, Sending, queues
<1> QED
  BY <1>1, <1>2, <1>3, <1>4, <1>5

(* A connection is closed by its receiver, after its client ended it. *)
LEMMA ParseEndInv ==
  ASSUME Inv, NEW w \in Workers, ParseEnd(w)
  PROVE  Inv'
<1> USE DEF Inv, ParseEnd, Leave, Goto
<1>1. TypeOK'
  BY DEF TypeOK, Labels, queues
<1>2. Located' /\ Exclusive'
  BY DEF TypeOK, Located, Exclusive, Receiving
<1>3. Descriptors' /\ RepliesReachClient'
  BY DEF TypeOK, Descriptors, RepliesReachClient
<1>4. ReadyRegistered' /\ HeldAwaited' /\ HeldOnce' /\ AwaitedHeld'
  <2>1. UNCHANGED <<tail, head, ready, pipe>> /\ SameHolders
    BY DEF TypeOK, Holding, SameHolders, queues
  <2> QED
    BY <2>1, HoldersKept
<1>5. SenderLocks' /\ SentInOrder'
  BY DEF TypeOK, SenderLocks, SentInOrder, Sending, queues
<1> QED
  BY <1>1, <1>2, <1>3, <1>4, <1>5

(* The new command is awaited and held by its receiver. *)
LEMMA RegisterInv ==
  ASSUME Inv, NEW w \in Workers, NEW from \in {"more", "done"},
         NEW to \in {"write", "rearm"}, Register(w, from, to)
  PROVE  Inv'
<1> USE DEF Inv, Register, Goto
<1> DEFINE c == conn[w]
<1>0. /\ c \in Conns /\ idx' = [idx EXCEPT ![w] = tail[c]]
      /\ tail' = [tail EXCEPT ![c] = tail[c] + 1] /\ tail[c] < head[c] + Window
  BY BoundsAssumption DEF Located, Full, TypeOK
<1>1. TypeOK'
  <2>1. UNCHANGED <<clients, unread, armed, head, ready, locked, sent, pipe, conn>>
    OBVIOUS
  <2>2. idx' \in [Workers -> Nat]
    BY <1>0 DEF TypeOK
  <2>3. tail' \in [Conns -> Nat]
    BY <1>0 DEF TypeOK
  <2>4. pc' \in [Workers -> Labels]
    BY DEF TypeOK, Labels
  <2>5. \A d \in Conns : head[d] <= tail'[d] /\ tail'[d] <= head[d] + Window
    BY SMTT(60), <1>0, BoundsAssumption DEF TypeOK
  <2> HIDE DEF Register, Goto, c
  <2> QED
    BY <2>1, <2>2, <2>3, <2>4, <2>5 DEF TypeOK, clients
<1>2. Located' /\ Exclusive'
  BY DEF TypeOK, Located, Exclusive, Receiving, clients
<1>3. Descriptors' /\ RepliesReachClient'
  BY DEF Descriptors, RepliesReachClient, clients
<1>4. ReadyRegistered'
  BY <1>0 DEF TypeOK, ReadyRegistered
<1>5. tail[c] \notin ready[c]
  BY <1>0 DEF ReadyRegistered, TypeOK
<1>6. HeldAwaited'
  <2>1. \A d \in Conns, n \in Nat : Awaited(d, n) => Awaited(d, n)'
    BY <1>0 DEF TypeOK, Awaited
  <2>2. head'[c] <= tail[c] /\ tail[c] < tail'[c] /\ tail[c] \notin ready'[c]
    BY <1>0, <1>5 DEF TypeOK
  <2>3. \A v \in Workers : pc'[v] \in Holding => Awaited(conn[v], idx[v])'
    BY <1>0, <2>1, <2>2 DEF TypeOK, HeldAwaited, Awaited, Holding, Located
  <2>4. \A i \in 1 .. Len(pipe) : pipe[i].conn \in Conns /\ pipe[i].idx \in Nat
    BY PipeType
  <2> QED
    BY <2>1, <2>3, <2>4 DEF HeldAwaited
<1>7. HeldOnce'
  BY <1>0 DEF TypeOK, HeldOnce, HeldAwaited, Awaited, Holding
<1>8. AwaitedHeld'
  <2> SUFFICES ASSUME NEW d \in Conns, NEW n \in Nat, Awaited(d, n)'
               PROVE  \/ \E v \in Workers : pc'[v] \in Holding /\ conn'[v] = d /\ idx'[v] = n
                      \/ \E i \in 1 .. Len(pipe) : pipe[i].conn = d /\ pipe[i].idx = n
    BY DEF AwaitedHeld
  <2>1. CASE d = c /\ n = tail[c]
    BY <1>0, <2>1 DEF TypeOK, Holding
  <2>2. CASE ~(d = c /\ n = tail[c])
    <3>1. Awaited(d, n)
      BY <1>0, <2>2 DEF TypeOK, Awaited
    <3>2. \A v \in Workers : pc[v] \in Holding => v # w
      BY DEF Holding
    <3>3. \/ \E v \in Workers : pc[v] \in Holding /\ conn[v] = d /\ idx[v] = n
          \/ \E i \in 1 .. Len(pipe) : pipe[i].conn = d /\ pipe[i].idx = n
      BY <3>1 DEF AwaitedHeld
    <3>4. \A v \in Workers : pc[v] \in Holding =>
            pc'[v] = pc[v] /\ conn'[v] = conn[v] /\ idx'[v] = idx[v]
      BY <1>0, <3>2 DEF TypeOK
    <3>5. pipe' = pipe
      OBVIOUS
    <3> QED
      BY <3>3, <3>4, <3>5
  <2> QED
    BY <2>1, <2>2
<1>9. SenderLocks' /\ SentInOrder'
  BY DEF TypeOK, SenderLocks, SentInOrder, Sending
<1> QED
  BY <1>1, <1>2, <1>3, <1>4, <1>6, <1>7, <1>8, <1>9

(* A connection is armed again by its receiver, which keeps its command. *)
LEMMA RearmInv ==
  ASSUME Inv, NEW w \in Workers, Rearm(w)
  PROVE  Inv'
<1> USE DEF Inv, Rearm, Goto
<1>1. TypeOK'
  BY DEF TypeOK, Labels, clients, queues
<1>2. Located' /\ Exclusive'
  BY DEF TypeOK, Located, Exclusive, Receiving, clients
<1>3. Descriptors' /\ RepliesReachClient'
  BY DEF Descriptors, RepliesReachClient, clients
<1>4. ReadyRegistered' /\ HeldAwaited' /\ HeldOnce' /\ AwaitedHeld'
  <2>1. UNCHANGED <<tail, head, ready, pipe>> /\ SameHolders
    BY DEF TypeOK, Holding, SameHolders, queues
  <2> QED
    BY <2>1, HoldersKept
<1>5. SenderLocks' /\ SentInOrder'
  BY DEF TypeOK, SenderLocks, SentInOrder, Sending, queues
<1> QED
  BY <1>1, <1>2, <1>3, <1>4, <1>5

(* The command goes from the worker into the pipe. *)
LEMMA WritePipeInv ==
  ASSUME Inv, NEW w \in Workers, WritePipe(w)
  PROVE  Inv'
<1> USE DEF Inv, WritePipe, Goto
<1> DEFINE c == conn[w]
           n == idx[w]
           call == [conn |-> c, idx |-> n]
<1>0. /\ c \in Conns /\ n \in Nat /\ pc[w] \in Holding
      /\ call \in Calls /\ call.conn = c /\ call.idx = n
  BY DEF TypeOK, Located, Calls, Holding
<1>1. TypeOK'
  <2>1. pipe' \in Seq(Calls) /\ Len(pipe') <= PipeSize
    BY <1>0, BoundsAssumption DEF TypeOK
  <2> QED
    BY <2>1 DEF TypeOK, Labels, clients, queues
<1>2. /\ Len(pipe') = Len(pipe) + 1 /\ Len(pipe) \in Nat
      /\ pipe'[Len(pipe) + 1] = call
      /\ \A i \in 1 .. Len(pipe) : pipe'[i] = pipe[i]
  BY <1>0 DEF TypeOK
<1> DEFINE last == Len(pipe) + 1
<1> HIDE DEF call
<1>3. \A i \in 1 .. Len(pipe') : i = last \/ i \in 1 .. Len(pipe)
  BY <1>2
<1>4. /\ pc' = [pc EXCEPT ![w] = "parse"] /\ conn' = conn /\ pc'[w] \notin Holding
      /\ \A v \in Workers : v # w => pc'[v] = pc[v] /\ idx'[v] = idx[v]
  BY DEF TypeOK, Holding
<1>5. \A d, k : Awaited(d, k)' <=> Awaited(d, k)
  BY DEF Awaited, queues
<1>6. Located' /\ Exclusive'
  <2>1. \A i \in 1 .. Len(pipe') : stage'[pipe'[i].conn] # "new"
    BY <1>0, <1>2, <1>3 DEF Located, clients
  <2> QED
    BY SMTT(60), <2>1 DEF TypeOK, Located, Exclusive, Receiving, clients
<1>7. Descriptors' /\ RepliesReachClient' /\ ReadyRegistered'
  BY DEF Descriptors, RepliesReachClient, ReadyRegistered, clients, queues
<1>8. HeldAwaited'
  <2>1. \A v \in Workers : pc'[v] \in Holding => Awaited(conn'[v], idx'[v])
    BY <1>4 DEF HeldAwaited
  <2>2. \A i \in 1 .. Len(pipe') : Awaited(pipe'[i].conn, pipe'[i].idx)
    BY <1>0, <1>2, <1>3 DEF HeldAwaited
  <2> QED
    BY <1>5, <2>1, <2>2 DEF HeldAwaited
<1>9. HeldOnce'
  BY <1>0, <1>2, <1>3, <1>4 DEF HeldOnce
<1>10. AwaitedHeld'
  <2> SUFFICES ASSUME NEW d \in Conns, NEW k \in Nat, Awaited(d, k)
               PROVE  \/ \E v \in Workers : pc'[v] \in Holding /\ conn'[v] = d /\ idx'[v] = k
                      \/ \E i \in 1 .. Len(pipe') : pipe'[i].conn = d /\ pipe'[i].idx = k
    BY <1>5 DEF AwaitedHeld
  <2>1. ASSUME NEW v \in Workers, pc[v] \in Holding, conn[v] = d, idx[v] = k
        PROVE  \/ \E u \in Workers : pc'[u] \in Holding /\ conn'[u] = d /\ idx'[u] = k
               \/ pipe'[last].conn = d /\ pipe'[last].idx = k
    BY <1>0, <1>2, <1>4, <2>1
  <2>2. last \in 1 .. Len(pipe') /\ 1 .. Len(pipe) \subseteq 1 .. Len(pipe')
    BY <1>2
  <2> QED
    BY <1>2, <2>1, <2>2 DEF AwaitedHeld
<1>11. SenderLocks' /\ SentInOrder'
  BY DEF TypeOK, SenderLocks, SentInOrder, Sending, queues
<1> QED
  BY <1>1, <1>6, <1>7, <1>8, <1>9, <1>10, <1>11

(* The command goes from the pipe to a worker. *)
LEMMA TakePipedInv ==
  ASSUME Inv, NEW w \in Workers, TakePiped(w)
  PROVE  Inv'
<1> USE DEF Inv, TakePiped, Goto
<1> DEFINE c == pipe[1].conn
           n == pipe[1].idx
<1>0. /\ Len(pipe) \in Nat /\ 1 \in 1 .. Len(pipe)
      /\ c \in Conns /\ n \in Nat /\ pc[w] \notin Holding
  <2>1. Len(pipe) \in Nat /\ 1 \in 1 .. Len(pipe)
    BY DEF TypeOK
  <2> QED
    BY <2>1, PipeType DEF Holding
<1>1. /\ Len(pipe') = Len(pipe) - 1
      /\ \A i \in 1 .. Len(pipe') : pipe'[i] = pipe[i + 1] /\ i + 1 \in 1 .. Len(pipe)
  BY <1>0 DEF TypeOK
<1>2. /\ conn' = [conn EXCEPT ![w] = c] /\ idx' = [idx EXCEPT ![w] = n]
      /\ conn'[w] = c /\ idx'[w] = n /\ pc'[w] \in Holding
      /\ \A v \in Workers : v # w => pc'[v] = pc[v] /\ conn'[v] = conn[v] /\ idx'[v] = idx[v]
  <2>1. Head(pipe) = pipe[1]
    BY <1>0 DEF TypeOK
  <2>2. conn' = [conn EXCEPT ![w] = c] /\ idx' = [idx EXCEPT ![w] = n]
    BY <2>1
  <2> HIDE DEF c, n
  <2> QED
    BY <2>2 DEF TypeOK, Holding
<1>3. TypeOK'
  <2>1. pipe' \in Seq(Calls) /\ Len(pipe') <= PipeSize
    BY <1>0, <1>1, BoundsAssumption DEF TypeOK
  <2> QED
    BY <1>0, <1>2, <2>1 DEF TypeOK, Labels, clients, queues
<1>5. \A d, k : Awaited(d, k)' <=> Awaited(d, k)
  BY DEF Awaited, queues
<1>6. Located'
  BY <1>0, <1>1, <1>2 DEF TypeOK, Located, clients
<1>7. Exclusive'
  BY <1>2 DEF TypeOK, Exclusive, Receiving, clients
<1>8. Descriptors' /\ RepliesReachClient' /\ ReadyRegistered'
  BY DEF Descriptors, RepliesReachClient, ReadyRegistered, clients, queues
<1>9. HeldAwaited'
  <2>1. \A v \in Workers : pc'[v] \in Holding => Awaited(conn'[v], idx'[v])
    BY <1>0, <1>2 DEF HeldAwaited
  <2>2. \A i \in 1 .. Len(pipe') : Awaited(pipe'[i].conn, pipe'[i].idx)
    BY <1>1 DEF HeldAwaited
  <2> QED
    BY <1>5, <2>1, <2>2 DEF HeldAwaited
<1>10. HeldOnce'
  <2>1. \A v \in Workers : v # w /\ pc'[v] \in Holding => conn'[v] # c \/ idx'[v] # n
    BY <1>0, <1>2 DEF HeldOnce
  <2>2. \A i \in 1 .. Len(pipe') : pipe'[i].conn # c \/ pipe'[i].idx # n
    BY <1>0, <1>1 DEF HeldOnce
  <2>3. \A u, v \in Workers : /\ pc'[u] \in Holding /\ pc'[v] \in Holding
                              /\ conn'[u] = conn'[v] /\ idx'[u] = idx'[v]
                              => u = v
    BY <1>2, <2>1 DEF HeldOnce
  <2>4. \A v \in Workers : \A i \in 1 .. Len(pipe') :
          pc'[v] \in Holding => conn'[v] # pipe'[i].conn \/ idx'[v] # pipe'[i].idx
    BY <1>1, <1>2, <2>2 DEF HeldOnce
  <2>5. \A i, j \in 1 .. Len(pipe') :
          pipe'[i].conn = pipe'[j].conn /\ pipe'[i].idx = pipe'[j].idx => i = j
    BY <1>0, <1>1 DEF HeldOnce
  <2> QED
    BY <2>3, <2>4, <2>5 DEF HeldOnce
<1>11. AwaitedHeld'
  <2> SUFFICES ASSUME NEW d \in Conns, NEW k \in Nat, Awaited(d, k)
               PROVE  \/ \E v \in Workers : pc'[v] \in Holding /\ conn'[v] = d /\ idx'[v] = k
                      \/ \E i \in 1 .. Len(pipe') : pipe'[i].conn = d /\ pipe'[i].idx = k
    BY <1>5 DEF AwaitedHeld
  <2>1. ASSUME NEW v \in Workers, pc[v] \in Holding, conn[v] = d, idx[v] = k
        PROVE  pc'[v] \in Holding /\ conn'[v] = d /\ idx'[v] = k
    BY <1>0, <1>2, <2>1
  <2>2. ASSUME NEW i \in 1 .. Len(pipe), pipe[i].conn = d, pipe[i].idx = k
        PROVE  \/ conn'[w] = d /\ idx'[w] = k
               \/ i - 1 \in 1 .. Len(pipe') /\ pipe'[i - 1] = pipe[i]
    BY <1>0, <1>1, <1>2, <2>2
  <2>3. \/ \E v \in Workers : pc[v] \in Holding /\ conn[v] = d /\ idx[v] = k
        \/ \E i \in 1 .. Len(pipe) : pipe[i].conn = d /\ pipe[i].idx = k
    BY DEF AwaitedHeld
  <2>4. CASE \E v \in Workers : pc[v] \in Holding /\ conn[v] = d /\ idx[v] = k
    BY <2>1, <2>4
  <2>5. CASE \E i \in 1 .. Len(pipe) : pipe[i].conn = d /\ pipe[i].idx = k
    <3>1. PICK i \in 1 .. Len(pipe) : pipe[i].conn = d /\ pipe[i].idx = k
      BY <2>5
    <3>2. CASE conn'[w] = d /\ idx'[w] = k
      BY <1>2, <3>2
    <3>3. CASE i - 1 \in 1 .. Len(pipe') /\ pipe'[i - 1] = pipe[i]
      BY <3>1, <3>3
    <3> QED
      BY <2>2, <3>1, <3>2, <3>3
  <2> QED
    BY <2>3, <2>4, <2>5
<1>12. SenderLocks' /\ SentInOrder'
  BY <1>2 DEF TypeOK, SenderLocks, SentInOrder, Sending, queues
<1> QED
  BY <1>3, <1>6, <1>7, <1>8, <1>9, <1>10, <1>11, <1>12

(* The reply to an awaited command is ready, and its holder lets go of it. *)
LEMMA RunInv ==
  ASSUME Inv, NEW w \in Workers, Run(w)
  PROVE  Inv'
<1> USE DEF Inv, Run, Goto
<1> DEFINE c == conn[w]
           n == idx[w]
<1>0. /\ c \in Conns /\ n \in Nat /\ pc[w] \in Holding /\ pc'[w] \notin Holding
      /\ ready' = [ready EXCEPT ![c] = ready[c] \cup {n}] /\ Awaited(c, n)
  BY DEF TypeOK, Located, Holding, HeldAwaited
<1>1. TypeOK'
  BY <1>0 DEF TypeOK, Labels, clients
<1>2. Located' /\ Exclusive'
  BY DEF TypeOK, Located, Exclusive, Receiving, clients
<1>3. Descriptors' /\ RepliesReachClient'
  BY DEF Descriptors, RepliesReachClient, clients
<1>4. ReadyRegistered'
  BY <1>0 DEF TypeOK, ReadyRegistered, Awaited
<1>5. \A d \in Conns : \A k : Awaited(d, k)' <=> Awaited(d, k) /\ ~(d = c /\ k = n)
  BY <1>0 DEF TypeOK, Awaited
<1>6. \A v \in Workers : v # w => pc'[v] = pc[v]
  BY DEF TypeOK
<1>7. HeldAwaited'
  <2>1. \A v \in Workers : pc'[v] \in Holding => Awaited(conn[v], idx[v])'
    <3> SUFFICES ASSUME NEW v \in Workers, pc'[v] \in Holding
                 PROVE  Awaited(conn[v], idx[v])'
      OBVIOUS
    <3>1. v # w /\ pc[v] \in Holding /\ conn[v] \in Conns
      BY <1>0, <1>6 DEF Located, Holding
    <3>2. Awaited(conn[v], idx[v]) /\ ~(conn[v] = c /\ idx[v] = n)
      BY <1>0, <3>1 DEF HeldAwaited, HeldOnce
    <3> QED
      BY <1>5, <3>1, <3>2
  <2>2. \A i \in 1 .. Len(pipe) : Awaited(pipe[i].conn, pipe[i].idx)'
    BY <1>0, <1>5, PipeType DEF HeldAwaited, HeldOnce
  <2> QED
    BY <2>1, <2>2 DEF HeldAwaited
<1>8. HeldOnce'
  BY <1>0, <1>6 DEF HeldOnce
<1>9. AwaitedHeld'
  BY <1>0, <1>5, <1>6 DEF AwaitedHeld
<1>10. SenderLocks' /\ SentInOrder'
  BY <1>0 DEF TypeOK, SenderLocks, SentInOrder, Sending
<1> QED
  BY <1>1, <1>2, <1>3, <1>4, <1>7, <1>8, <1>9, <1>10

(* Only an unlocked queue gets a sender. *)
LEMMA PopStartInv ==
  ASSUME Inv, NEW w \in Workers, PopStart(w)
  PROVE  Inv'
<1> USE DEF Inv, PopStart, Goto
<1>0. pc[w] = "pop" /\ conn[w] \in Conns /\ pc'[w] \in {"idle", "send"}
  BY DEF Located, TypeOK, Leave
<1>1. TypeOK'
  <2>1. CASE Leave(w) /\ UNCHANGED locked
    BY <2>1 DEF Leave, TypeOK, Labels, clients
  <2>2. CASE Goto(w, "send") /\ UNCHANGED <<conn, idx>>
    BY <2>2 DEF TypeOK, Labels, clients
  <2> QED
    BY <2>1, <2>2
<1>2. Located' /\ Exclusive'
  <2>1. CASE Leave(w)
    BY <1>0, <2>1 DEF Leave, TypeOK, Located, Exclusive, Receiving, clients
  <2>2. CASE Goto(w, "send") /\ UNCHANGED <<conn, idx>>
    BY <1>0, <2>2 DEF TypeOK, Located, Exclusive, Receiving, clients
  <2> QED
    BY <2>1, <2>2
<1>3. Descriptors' /\ RepliesReachClient'
  BY DEF Descriptors, RepliesReachClient, clients
<1>4. ReadyRegistered' /\ HeldAwaited' /\ HeldOnce' /\ AwaitedHeld'
  <2>1. UNCHANGED <<tail, head, ready, pipe>> /\ SameHolders
    BY DEF Leave, TypeOK, Holding, SameHolders
  <2> QED
    BY <2>1, HoldersKept
<1>5. SenderLocks' /\ SentInOrder'
  <2>1. CASE Leave(w) /\ UNCHANGED locked
    BY <1>0, <2>1 DEF Leave, TypeOK, SenderLocks, SentInOrder, Sending
  <2>2. CASE /\ head[conn[w]] \in ready[conn[w]] /\ ~locked[conn[w]]
             /\ locked' = [locked EXCEPT ![conn[w]] = TRUE]
             /\ Goto(w, "send") /\ UNCHANGED <<conn, idx>>
    <3>1. \A v \in Workers : pc[v] \in Sending => conn[v] # conn[w]
      BY <2>2 DEF SenderLocks
    <3>2. \A v \in Workers : pc'[v] = IF v = w THEN "send" ELSE pc[v]
      BY <2>2 DEF TypeOK
    <3>3. \A c \in Conns : locked'[c] = IF c = conn[w] THEN TRUE ELSE locked[c]
      BY <2>2 DEF TypeOK
    <3>4. \A u, v \in Workers :
            pc'[u] \in Sending /\ pc'[v] \in Sending /\ conn[u] = conn[v] => u = v
      BY <3>1, <3>2 DEF SenderLocks
    <3>5. \A v \in Workers : pc'[v] \in Sending =>
            locked'[conn[v]] /\ head[conn[v]] \in ready[conn[v]]
      BY ZenonT(60), <1>0, <2>2, <3>2, <3>3 DEF SenderLocks, Located, Sending
    <3>6. \A v \in Workers : pc'[v] = "continue" <=> pc[v] = "continue"
      BY <1>0, <3>2
    <3> QED
      BY <2>2, <3>4, <3>5, <3>6 DEF SenderLocks, SentInOrder
  <2> QED
    BY <2>1, <2>2
<1> QED
  BY <1>1, <1>2, <1>3, <1>4, <1>5

(* The reply is the next one, and the descriptor is the client's unless it *)
(* ended its connection. *)
LEMMA SendInv ==
  ASSUME Inv, NEW w \in Workers, Send(w)
  PROVE  Inv'
<1> USE DEF Inv, Send, Goto
<1> DEFINE c == conn[w]
           reply == [idx |-> head[c], to |-> Peer(fd[c])]
<1>0. c \in Conns /\ pc[w] = "send" /\ stage[c] # "new"
  BY DEF Located
<1>1. reply \in Replies /\ reply.idx = head[c] /\ reply.to = Peer(fd[c])
  <2>1. Peer(fd[c]) \in Conns \cup {None}
    BY DEF Peer
  <2> QED
    BY <1>0, <2>1 DEF TypeOK, Replies
<1> HIDE DEF reply
<1>2. /\ sent' = [sent EXCEPT ![c] = Append(sent[c], reply)]
      /\ sent[c] \in Seq(Replies) /\ Len(sent[c]) = head[c]
  <2>1. sent' = [sent EXCEPT ![c] = Append(sent[c], reply)]
    BY DEF reply
  <2>2. \A v \in Workers : ~(pc[v] = "continue" /\ conn[v] = c)
    BY <1>0 DEF SenderLocks, Sending
  <2> QED
    BY <1>0, <2>1, <2>2 DEF TypeOK, SenderLocks
<1>3. /\ Len(sent'[c]) = head[c] + 1 /\ sent'[c] \in Seq(Replies)
      /\ \A i \in 1 .. Len(sent'[c]) :
           \/ i = head[c] + 1 /\ sent'[c][i] = reply
           \/ i \in 1 .. Len(sent[c]) /\ sent'[c][i] = sent[c][i]
      /\ \A d \in Conns : d # c => sent'[d] = sent[d]
  BY <1>0, <1>1, <1>2 DEF TypeOK
<1>4. TypeOK'
  BY <1>0, <1>1, <1>2 DEF TypeOK, Labels, clients, queues
<1>5. Located' /\ Exclusive' /\ Descriptors'
  BY DEF TypeOK, Located, Exclusive, Receiving, Descriptors, clients
<1>6. ReadyRegistered' /\ HeldAwaited' /\ HeldOnce' /\ AwaitedHeld'
  <2>1. UNCHANGED <<tail, head, ready, pipe>> /\ SameHolders
    BY DEF TypeOK, Holding, SameHolders, queues
  <2> QED
    BY <2>1, HoldersKept
<1>7. SenderLocks'
  BY <1>0, <1>3 DEF TypeOK, SenderLocks, Sending, queues
<1>8. SentInOrder'
  BY SMTT(60), <1>0, <1>1, <1>3 DEF TypeOK, SentInOrder
<1>9. RepliesReachClient'
  <2> SUFFICES ASSUME NEW d \in Conns, ~ended[d], NEW i \in 1 .. Len(sent'[d])
               PROVE  sent'[d][i].to = d
    BY SMTT(60), <1>4 DEF RepliesReachClient, clients, TypeOK
  <2>1. CASE d = c /\ i = head[c] + 1
    <3>1. stage[c] = "open"
      BY <1>0, <2>1 DEF Descriptors, TypeOK
    <3>2. sent'[d][i] = reply
      BY <1>2, <1>3, <2>1 DEF TypeOK
    <3> QED
      BY <1>0, <1>1, <2>1, <3>1, <3>2, PeerIsOwner
  <2>2. CASE ~(d = c /\ i = head[c] + 1)
    BY SMTT(60), <1>3, <2>2 DEF RepliesReachClient, TypeOK
  <2> QED
    BY <2>1, <2>2
<1> QED
  BY <1>4, <1>5, <1>6, <1>7, <1>8, <1>9

(* The head moves past a reply that was ready. *)
LEMMA PopContinueInv ==
  ASSUME Inv, NEW w \in Workers, PopContinue(w)
  PROVE  Inv'
<1> USE DEF Inv, PopContinue, Goto
<1> DEFINE c == conn[w]
<1>0. /\ c \in Conns /\ pc[w] = "continue" /\ pc'[w] \in {"idle", "send"}
      /\ head' = [head EXCEPT ![c] = head[c] + 1]
      /\ head[c] \in ready[c] /\ head[c] < tail[c]
  BY DEF Located, TypeOK, Leave, SenderLocks, Sending, ReadyRegistered
<1>1. TypeOK'
  <2>1. CASE Leave(w) /\ locked' = [locked EXCEPT ![c] = FALSE]
    BY <1>0, <2>1, BoundsAssumption DEF Leave, TypeOK, Labels, clients
  <2>2. CASE Goto(w, "send") /\ UNCHANGED <<locked, conn, idx>>
    BY SMTT(60), <1>0, <2>2, BoundsAssumption DEF TypeOK, Labels, clients
  <2> QED
    BY <2>1, <2>2
<1>2. Located' /\ Exclusive'
  <2>1. CASE Leave(w)
    BY <1>0, <2>1 DEF Leave, TypeOK, Located, Exclusive, Receiving, clients
  <2>2. CASE Goto(w, "send") /\ UNCHANGED <<conn, idx>>
    BY <1>0, <2>2 DEF TypeOK, Located, Exclusive, Receiving, clients
  <2> QED
    BY <2>1, <2>2
<1>3. Descriptors' /\ RepliesReachClient' /\ ReadyRegistered'
  BY DEF Descriptors, RepliesReachClient, ReadyRegistered, clients
<1>4. \A d \in Conns, n \in Nat : Awaited(d, n)' <=> Awaited(d, n)
  BY <1>0 DEF TypeOK, Awaited
<1>5. UNCHANGED pipe /\ SameHolders
  BY <1>0 DEF Leave, TypeOK, Holding, SameHolders
<1>6. HeldAwaited'
  <2>1. \A v \in Workers : pc'[v] \in Holding => Awaited(conn[v], idx[v])'
    <3> SUFFICES ASSUME NEW v \in Workers, pc'[v] \in Holding
                 PROVE  Awaited(conn[v], idx[v])'
      OBVIOUS
    <3>1. /\ pc[v] \in Holding /\ conn'[v] = conn[v] /\ idx'[v] = idx[v]
          /\ conn[v] \in Conns /\ idx[v] \in Nat
      BY <1>5 DEF SameHolders, Located, TypeOK, Holding
    <3> QED
      BY <1>4, <3>1 DEF HeldAwaited
  <2>2. \A i \in 1 .. Len(pipe) : Awaited(pipe[i].conn, pipe[i].idx)'
    BY <1>4, <1>5, PipeType DEF HeldAwaited
  <2> QED
    BY <1>5, <2>1, <2>2 DEF HeldAwaited
<1>7. HeldOnce'
  BY <1>5 DEF HeldOnce, SameHolders
<1>8. AwaitedHeld'
  BY <1>4, <1>5 DEF AwaitedHeld, SameHolders
<1>9. SenderLocks' /\ SentInOrder'
  <2>1. CASE Leave(w) /\ locked' = [locked EXCEPT ![c] = FALSE]
    BY <1>0, <2>1 DEF Leave, TypeOK, SenderLocks, SentInOrder, Sending
  <2>2. CASE Goto(w, "send") /\ UNCHANGED <<locked, conn, idx>> /\ head[c] + 1 \in ready[c]
    BY <1>0, <2>2 DEF TypeOK, SenderLocks, SentInOrder, Sending
  <2> QED
    BY <2>1, <2>2
<1> QED
  BY <1>1, <1>2, <1>3, <1>6, <1>7, <1>8, <1>9

(* Every step keeps the invariant. *)
LEMMA StepInv == ASSUME Inv, [Next]_vars PROVE Inv'
<1>1. ASSUME NEW c \in Conns, Accept(c) \/ Ask(c) \/ End(c) PROVE Inv'
  BY <1>1, AcceptInv, ClientInv
<1>2. ASSUME NEW w \in Workers, NEW c \in Conns, Receive(w, c) PROVE Inv'
  BY <1>2, ReceiveInv
<1>3. ASSUME NEW w \in Workers, TakePiped(w) PROVE Inv'
  BY <1>3, TakePipedInv
<1>4. ASSUME NEW w \in Workers, ParseCommand(w) \/ ParseEmpty(w) \/ ParseEnd(w) PROVE Inv'
  BY <1>4, ParseCommandInv, ParseEmptyInv, ParseEndInv
<1>5. ASSUME NEW w \in Workers, RegisterPiped(w) \/ RegisterOwn(w) PROVE Inv'
  BY <1>5, RegisterInv DEF RegisterPiped, RegisterOwn
<1>6. ASSUME NEW w \in Workers, WritePipe(w) \/ Rearm(w) \/ Run(w) PROVE Inv'
  BY <1>6, WritePipeInv, RearmInv, RunInv
<1>7. ASSUME NEW w \in Workers, PopStart(w) \/ Send(w) \/ PopContinue(w) PROVE Inv'
  BY <1>7, PopStartInv, SendInv, PopContinueInv
<1>8. CASE UNCHANGED vars
  BY <1>8 DEF vars, clients, queues, locals, Inv, TypeOK, Located, Exclusive, Descriptors,
     ReadyRegistered, HeldAwaited, HeldOnce, AwaitedHeld, Awaited, SenderLocks, SentInOrder,
     RepliesReachClient
<1> QED
  BY <1>1, <1>2, <1>3, <1>4, <1>5, <1>6, <1>7, <1>8 DEF Next, Work

(* The inductive invariant holds in every state: what each worker and the  *)
(* pipe hold, who receives and who sends a connection, and in which order. *)
THEOREM Invariance == Spec => []Inv
<1> QED
  BY InitInv, StepInv, PTL DEF Spec

(* Every variable keeps its type, the queues and the pipe their bounds.    *)
THEOREM TypeCorrect == Spec => []TypeOK
<1>1. Inv => TypeOK
  BY DEF Inv
<1> QED
  BY <1>1, Invariance, PTL

(* EPOLLONESHOT and the place of the re-arming keep the receivers of a     *)
(* connection apart, however many workers there are.                       *)
THEOREM ReceiverIsExclusive == Spec => []OneReceiver
<1>1. ASSUME Inv PROVE OneReceiver
  <2> SUFFICES ASSUME NEW c \in Conns
               PROVE  Cardinality(Receivers(c)) <= (IF armed[c] THEN 0 ELSE 1)
    BY DEF OneReceiver
  <2>1. \A v, w \in Receivers(c) : v = w
    BY <1>1 DEF Receivers, Inv, Exclusive, Receiving
  <2>2. CASE Receivers(c) = {}
    BY <2>2, FS_EmptySet
  <2>3. CASE Receivers(c) # {}
    <3>1. PICK w : w \in Receivers(c)
      BY <2>3
    <3>2. Receivers(c) = {w} /\ ~armed[c]
      BY <1>1, <2>1, <3>1 DEF Receivers, Inv, Exclusive, Receiving
    <3>3. Cardinality({w}) = 1
      BY FS_Singleton
    <3> QED
      BY <3>2, <3>3
  <2> QED
    BY <2>2, <2>3
<1> QED
  BY <1>1, Invariance, PTL

(* No command is lost between its registration and its commit, and none is *)
(* run twice, through the pipe or not.                                     *)
THEOREM CommandsAreHeld == Spec => []EveryCommandHeld
<1>1. ASSUME Inv PROVE EveryCommandHeld
  <2> SUFFICES ASSUME NEW c \in Conns, NEW n \in head[c] .. tail[c] - 1
               PROVE  Cardinality(Holders(c, n)) = IF n \in ready[c] THEN 0 ELSE 1
    BY DEF EveryCommandHeld
  <2> DEFINE ByWorker == {w \in Workers : pc[w] \in Holding /\ conn[w] = c /\ idx[w] = n}
             ByPipe == {i \in 1 .. Len(pipe) : pipe[i].conn = c /\ pipe[i].idx = n}
  <2>1. n \in Nat /\ head[c] <= n /\ n < tail[c]
    BY <1>1 DEF Inv, TypeOK
  <2>2. Holders(c, n) = ByWorker \cup ByPipe
    <3>1. \A i \in 1 .. Len(pipe) :
            pipe[i] = [conn |-> c, idx |-> n] <=> pipe[i].conn = c /\ pipe[i].idx = n
      <4>1. \A i \in 1 .. Len(pipe) : pipe[i] \in Calls
        BY <1>1 DEF Inv, TypeOK
      <4> QED
        BY <4>1 DEF Calls
    <3>2. DOMAIN pipe = 1 .. Len(pipe)
      BY <1>1 DEF Inv, TypeOK
    <3> QED
      BY <3>1, <3>2 DEF Holders, Holding
  <2>3. \A x, y \in ByWorker \cup ByPipe : x = y
    BY <1>1 DEF Inv, HeldOnce
  <2>4. CASE n \in ready[c]
    <3>1. ByWorker \cup ByPipe = {}
      BY <1>1, <2>4 DEF Inv, HeldAwaited, Awaited
    <3> QED
      BY <2>2, <2>4, <3>1, FS_EmptySet
  <2>5. CASE n \notin ready[c]
    <3>1. ByWorker \cup ByPipe # {}
      BY <1>1, <2>1, <2>5 DEF Inv, AwaitedHeld, Awaited
    <3>2. PICK x : ByWorker \cup ByPipe = {x}
      BY ZenonT(60), <2>3, <3>1
    <3>3. Cardinality({x}) = 1
      BY FS_Singleton
    <3> QED
      BY <2>2, <2>5, <3>2, <3>3
  <2> QED
    BY <2>4, <2>5
<1> QED
  BY <1>1, Invariance, PTL

(* No reply to a client that keeps its connection is dropped or goes to    *)
(* another one, whatever descriptors are closed and used again meanwhile.  *)
THEOREM RepliesAlwaysReachClient == Spec => []RepliesReachClient
<1>1. Inv => RepliesReachClient
  BY DEF Inv
<1> QED
  BY <1>1, Invariance, PTL

-----------------------------------------------------------------------------
(* The queue of a connection starts as ReplyOrder does. *)
LEMMA OrderInit == ASSUME Init, NEW c \in Conns PROVE Order(c)!Init
BY DEF Init, Order!Init

(* Steps that change neither tail, ready nor sent stutter; ... *)
LEMMA OrderStutter ==
  ASSUME NEW c \in Conns, UNCHANGED <<tail[c], ready[c], sent[c]>>
  PROVE  UNCHANGED Order(c)!vars
BY DEF Order!vars

(* ... a registration is one, within the window; ... *)
LEMMA OrderRegister ==
  ASSUME Inv, NEW c \in Conns, NEW w \in Workers,
         NEW from \in {"more", "done"}, NEW to, Register(w, from, to)
  PROVE  [Order(c)!Next]_(Order(c)!vars)
<1> USE DEF Inv
<1>1. CASE c = conn[w]
  <2>1. tail'[c] = tail[c] + 1 /\ tail[c] < head[c] + Window
    BY <1>1, BoundsAssumption DEF Register, Full, TypeOK
  <2>2. Len(sent[c]) \in Nat /\ head[c] <= Len(sent[c]) /\ sent[c] \in Seq(Replies)
    BY DEF TypeOK, SenderLocks
  <2>3. Len([i \in DOMAIN sent[c] |-> <<sent[c][i].idx>>]) = Len(sent[c])
    BY <2>2
  <2>4. tail[c] < Len(sent[c]) + Window
    BY <2>1, <2>2, BoundsAssumption DEF TypeOK
  <2>5. UNCHANGED <<ready, sent>>
    BY DEF Register
  <2>6. Order(c)!Register
    BY <2>1, <2>3, <2>4, <2>5 DEF Order!Register
  <2> QED
    BY <2>6 DEF Order!Next
<1>2. CASE c # conn[w]
  BY <1>2, OrderStutter DEF Register, TypeOK
<1> QED
  BY <1>1, <1>2

(* ... the end of a command commits its reply, which nobody did before; ... *)
LEMMA OrderCommit ==
  ASSUME Inv, NEW c \in Conns, NEW w \in Workers, Run(w)
  PROVE  [Order(c)!Next]_(Order(c)!vars)
<1> USE DEF Inv
<1>1. CASE c = conn[w]
  <2>1. ready'[c] = ready[c] \cup {idx[w]}
    BY <1>1 DEF Run, TypeOK
  <2>2. idx[w] \in (0 .. tail[c] - 1) \ ready[c]
    BY <1>1 DEF Run, HeldAwaited, Awaited, Holding, TypeOK
  <2>3. UNCHANGED <<tail, sent>>
    BY DEF Run
  <2>4. Order(c)!Commit(idx[w])
    BY <2>1, <2>3 DEF Order!Commit
  <2> QED
    BY <2>2, <2>4 DEF Order!Next
<1>2. CASE c # conn[w]
  BY <1>2, OrderStutter DEF Run, TypeOK
<1> QED
  BY <1>1, <1>2

(* ... and what is sent is the next reply, which is committed. *)
LEMMA OrderWrite ==
  ASSUME Inv, NEW c \in Conns, NEW w \in Workers, Send(w)
  PROVE  [Order(c)!Next]_(Order(c)!vars)
<1> USE DEF Inv
<1>1. CASE c = conn[w]
  <2> DEFINE reply == [idx |-> head[c], to |-> Peer(fd[c])]
             written == [i \in DOMAIN sent[c] |-> <<sent[c][i].idx>>]
  <2>0. head[c] \in Nat
    BY DEF TypeOK
  <2>1. sent[c] \in Seq(Replies) /\ Len(sent[c]) = head[c] /\ head[c] \in ready[c]
    <3>1. \A v \in Workers : ~(pc[v] = "continue" /\ conn[v] = c)
      BY <1>1 DEF Send, SenderLocks, Sending
    <3> QED
      BY <1>1, <3>1 DEF Send, SenderLocks, Sending, TypeOK
  <2>2. sent'[c] = Append(sent[c], reply) /\ reply.idx = head[c]
    BY <1>1 DEF Send, TypeOK
  <2>3. written \in Seq({<<n>> : n \in Nat}) /\ Len(written) = head[c]
    <3>1. \A i \in 1 .. Len(sent[c]) : sent[c][i].idx \in Nat
      <4>1. \A i \in 1 .. Len(sent[c]) : sent[c][i] \in Replies
        BY <2>1
      <4> QED
        BY <4>1 DEF Replies
    <3> QED
      BY <2>1, <3>1
  <2>4. written' = Append(written, <<head[c]>>)
    <3> HIDE DEF reply
    <3>1. DOMAIN sent'[c] = 1 .. head[c] + 1 /\ DOMAIN sent[c] = 1 .. head[c]
      BY <2>1, <2>2
    <3>2. \A i \in 1 .. head[c] + 1 :
            sent'[c][i] = IF i = head[c] + 1 THEN reply ELSE sent[c][i]
      BY <2>1, <2>2
    <3>3. Append(written, <<head[c]>>) =
            [i \in 1 .. head[c] + 1 |->
               IF i = head[c] + 1 THEN <<head[c]>> ELSE <<sent[c][i].idx>>]
      <4>1. \A i \in 1 .. head[c] : written[i] = <<sent[c][i].idx>>
        BY <3>1
      <4> HIDE DEF written
      <4>2. Append(written, <<head[c]>>) =
              [i \in 1 .. head[c] + 1 |-> IF i = head[c] + 1 THEN <<head[c]>> ELSE written[i]]
        BY <2>3
      <4>3. \A i \in 1 .. head[c] + 1 : i # head[c] + 1 => i \in 1 .. head[c]
        BY <2>0
      <4> QED
        BY <4>1, <4>2, <4>3, Zenon
    <3> QED
      BY <2>2, <3>1, <3>2, <3>3
  <2>5. [i \in 1 .. 1 |-> Len(written)] = <<head[c]>>
    BY <2>3
  <2>6. UNCHANGED <<tail, ready>>
    BY DEF Send, queues
  <2>7. Order(c)!Write
    BY <2>1, <2>3, <2>4, <2>5, <2>6 DEF Order!Write, Order!Reply
  <2> QED
    BY <2>7 DEF Order!Next
<1>2. CASE c # conn[w]
  BY <1>2, OrderStutter DEF Send, queues, TypeOK
<1> QED
  BY <1>1, <1>2

(* Every step of the server is a step of ReplyOrder for each connection. *)
LEMMA OrderStep ==
  ASSUME Inv, [Next]_vars, NEW c \in Conns
  PROVE  [Order(c)!Next]_(Order(c)!vars)
<1>1. ASSUME NEW d \in Conns, Accept(d) \/ Ask(d) \/ End(d)
      PROVE  UNCHANGED <<tail, ready, sent>>
  BY <1>1 DEF Accept, Ask, End, queues
<1>2. ASSUME NEW w \in Workers, NEW d \in Conns, Receive(w, d)
      PROVE  UNCHANGED <<tail, ready, sent>>
  BY <1>2 DEF Receive, queues
<1>3. ASSUME NEW w \in Workers,
             \/ ParseCommand(w) \/ ParseEmpty(w) \/ ParseEnd(w) \/ WritePipe(w)
             \/ Rearm(w) \/ TakePiped(w) \/ PopStart(w) \/ PopContinue(w)
      PROVE  UNCHANGED <<tail, ready, sent>>
  BY <1>3 DEF ParseCommand, ParseEmpty, ParseEnd, WritePipe, Rearm, TakePiped, PopStart,
              PopContinue, queues
<1>4. ASSUME NEW w \in Workers, RegisterPiped(w) \/ RegisterOwn(w)
      PROVE  [Order(c)!Next]_(Order(c)!vars)
  BY <1>4, OrderRegister DEF RegisterPiped, RegisterOwn
<1>5. ASSUME NEW w \in Workers, Run(w) PROVE [Order(c)!Next]_(Order(c)!vars)
  BY <1>5, OrderCommit
<1>6. ASSUME NEW w \in Workers, Send(w) PROVE [Order(c)!Next]_(Order(c)!vars)
  BY <1>6, OrderWrite
<1>7. CASE UNCHANGED <<tail, ready, sent>>
  BY <1>7, OrderStutter
<1>8. CASE UNCHANGED vars
  BY <1>7, <1>8 DEF vars, queues
<1> QED
  BY <1>1, <1>2, <1>3, <1>4, <1>5, <1>6, <1>7, <1>8 DEF Next, Work

(* The queue of every connection implements ReplyOrder, with the commands  *)
(* spread over workers and the pipe and descriptors closed and used again. *)
THEOREM QueuesImplementReplyOrder == Spec => ImplementsReplyOrder
<1>1. Init => \A c \in Conns : Order(c)!Init
  BY OrderInit
<1>2. Inv /\ [Next]_vars => [\A c \in Conns : [Order(c)!Next]_(Order(c)!vars)]_vars
  BY OrderStep
<1> QED
  BY <1>1, <1>2, Invariance, PTL DEF Spec, ImplementsReplyOrder
=============================================================================
