---------------------------- MODULE Connections ----------------------------
(***************************************************************************)
(* Several clients, the descriptors of their connections, and the workers  *)
(* (network_parser.c: onestep_thread, packet_reciever, main's accept       *)
(* loop).  A connection is received by one worker at a time (EPOLLONESHOT);*)
(* the commands with input behind them go through one pipe, of bounded     *)
(* size, to whichever worker reads it; replies are written to a descriptor *)
(* number, which may be closed, and used again, before they are.           *)
(*                                                                         *)
(* The parser is what RespParser promises: a command, with (MORE) or       *)
(* without (DONE) input behind it, or none (EMPTY), or the end.  A reply   *)
(* queue is taken one call at a time; SendQueue has the calls in steps,    *)
(* and both are shown to implement ReplyOrder.                             *)
(***************************************************************************)
EXTENDS Integers, Sequences, FiniteSets

CONSTANTS Conns,       \* the connections clients make
          Fds,         \* the descriptors left to the process
          Workers,     \* the threads running onestep_thread
          Window,      \* the length of a reply queue (64 in main)
          PipeSize,    \* how many commands the pipe holds
          MaxCommands, \* bound: the commands the client of each connection sends
          None         \* nobody

ASSUME FdsAssumption == Fds \subseteq Nat
ASSUME NoneAssumption == None \notin Conns
ASSUME BoundsAssumption ==
  Window \in Nat \ {0} /\ PipeSize \in Nat \ {0} /\ MaxCommands \in [Conns -> Nat]

VARIABLES
  stage,      \* of a connection: "new", "open" or "closed" by the server
  fd,         \* its descriptor, in sm->fd and rw_pipe_data.fd
  asked,      \* how many commands its client has sent
  unread,     \* how many of them are not parsed yet
  ended,      \* after them its client hung up, or sent what the parser refuses
  armed,      \* armed in epoll
  tail, head, \* of its reply queue
  ready,      \* the indices committed
  locked,     \* the queue has a sender (head_lock # head)
  sent,       \* the replies given to send(), and who got each
  pipe,       \* the commands in the pipe
  pc,         \* where each worker is
  conn, idx   \* the connection and the index of the worker's command

clients == <<stage, fd, asked, ended>>
queues  == <<tail, head, ready, locked>>
locals  == <<pc, conn, idx>>
vars    == <<clients, unread, armed, queues, sent, pipe, locals>>

Init ==
  /\ stage = [c \in Conns |-> "new"]
  /\ fd = [c \in Conns |-> None]
  /\ asked = [c \in Conns |-> 0]
  /\ unread = [c \in Conns |-> 0]
  /\ ended = [c \in Conns |-> FALSE]
  /\ armed = [c \in Conns |-> FALSE]
  /\ tail = [c \in Conns |-> 0]
  /\ head = [c \in Conns |-> 0]
  /\ ready = [c \in Conns |-> {}]
  /\ locked = [c \in Conns |-> FALSE]
  /\ sent = [c \in Conns |-> <<>>]
  /\ pipe = <<>>
  /\ pc = [w \in Workers |-> "idle"]
  /\ conn = [w \in Workers |-> None]
  /\ idx = [w \in Workers |-> 0]

Goto(w, label) == pc' = [pc EXCEPT ![w] = label]

(* Back to epoll_wait.                                                     *)
Leave(w) ==
  /\ Goto(w, "idle")
  /\ conn' = [conn EXCEPT ![w] = None]
  /\ idx' = [idx EXCEPT ![w] = 0]

(* The connection a descriptor stands for now.                             *)
Peer(f) ==
  IF \E c \in Conns : stage[c] = "open" /\ fd[c] = f
  THEN CHOOSE c \in Conns : stage[c] = "open" /\ fd[c] = f
  ELSE None

-----------------------------------------------------------------------------
(* main and the clients                                                    *)

(* accept takes the lowest descriptor that is free.                        *)
Accept(c) ==
  /\ stage[c] = "new"
  /\ \E f \in Fds :
       /\ Peer(f) = None
       /\ \A g \in Fds : Peer(g) = None => f <= g
       /\ fd' = [fd EXCEPT ![c] = f]
  /\ stage' = [stage EXCEPT ![c] = "open"]
  /\ armed' = [armed EXCEPT ![c] = TRUE]
  /\ UNCHANGED <<asked, ended, unread, queues, sent, pipe, locals>>

Ask(c) ==
  /\ stage[c] = "open" /\ ~ended[c]
  /\ asked[c] < MaxCommands[c]
  /\ asked' = [asked EXCEPT ![c] = @ + 1]
  /\ unread' = [unread EXCEPT ![c] = @ + 1]
  /\ UNCHANGED <<stage, fd, ended, armed, queues, sent, pipe, locals>>

End(c) ==
  /\ stage[c] = "open" /\ ~ended[c]
  /\ ended' = [ended EXCEPT ![c] = TRUE]
  /\ UNCHANGED <<stage, fd, asked, unread, armed, queues, sent, pipe, locals>>

-----------------------------------------------------------------------------
(* A worker receives a connection.                                         *)

Readable(c) == armed[c] /\ stage[c] = "open" /\ (unread[c] > 0 \/ ended[c])

(* Mutant of Receive: EPOLLIN without EPOLLONESHOT.                        *)
ReceiveArmed(w, c) ==
  /\ pc[w] = "idle" /\ Readable(c)
  /\ conn' = [conn EXCEPT ![w] = c]
  /\ Goto(w, "parse")
  /\ UNCHANGED <<clients, unread, armed, queues, sent, pipe, idx>>

(* epoll_wait returns it, and disarms it.                                  *)
Receive(w, c) ==
  /\ pc[w] = "idle" /\ Readable(c)
  /\ armed' = [armed EXCEPT ![c] = FALSE]
  /\ conn' = [conn EXCEPT ![w] = c]
  /\ Goto(w, "parse")
  /\ UNCHANGED <<clients, unread, queues, sent, pipe, idx>>

(* RESP_SM_STATUS_MORE and _DONE.                                          *)
ParseCommand(w) ==
  /\ pc[w] = "parse" /\ unread[conn[w]] > 0
  /\ unread' = [unread EXCEPT ![conn[w]] = @ - 1]
  /\ \E how \in {"more", "done"} : Goto(w, how)
  /\ UNCHANGED <<clients, armed, queues, sent, pipe, conn, idx>>

(* Mutant of ParseEmpty: EAGAIN is taken for the end.                      *)
CloseWhenEmpty(w) ==
  /\ pc[w] = "parse" /\ unread[conn[w]] = 0 /\ ~ended[conn[w]]
  /\ stage' = [stage EXCEPT ![conn[w]] = "closed"]
  /\ Leave(w)
  /\ UNCHANGED <<fd, asked, ended, unread, armed, queues, sent, pipe>>

(* PR_REARM_AGAIN.                                                         *)
ParseEmpty(w) ==
  /\ pc[w] = "parse" /\ unread[conn[w]] = 0 /\ ~ended[conn[w]]
  /\ armed' = [armed EXCEPT ![conn[w]] = TRUE]
  /\ Leave(w)
  /\ UNCHANGED <<clients, unread, queues, sent, pipe>>

(* PR_CLOSED and PR_ERROR: the descriptor is closed, whatever replies are  *)
(* still to come.                                                          *)
ParseEnd(w) ==
  /\ pc[w] = "parse" /\ unread[conn[w]] = 0 /\ ended[conn[w]]
  /\ stage' = [stage EXCEPT ![conn[w]] = "closed"]
  /\ Leave(w)
  /\ UNCHANGED <<fd, asked, ended, unread, armed, queues, sent, pipe>>

(* Mutant of Full: one slot too many.                                      *)
FullLate(c) == tail[c] - head[c] > Window

Full(c) == tail[c] - head[c] >= Window

(* send_queue_register; the worker spins while the queue is full.          *)
Register(w, from, to) ==
  /\ pc[w] = from /\ ~Full(conn[w])
  /\ idx' = [idx EXCEPT ![w] = tail[conn[w]]]
  /\ tail' = [tail EXCEPT ![conn[w]] = @ + 1]
  /\ Goto(w, to)
  /\ UNCHANGED <<clients, unread, armed, head, ready, locked, sent, pipe, conn>>

RegisterPiped(w) == Register(w, "more", "write")
RegisterOwn(w) == Register(w, "done", "rearm")

(* Mutant of WritePipe: the write end does not block, either.              *)
WriteOrDrop(w) ==
  /\ pc[w] = "write"
  /\ pipe' = IF Len(pipe) < PipeSize
             THEN Append(pipe, [conn |-> conn[w], idx |-> idx[w]]) ELSE pipe
  /\ idx' = [idx EXCEPT ![w] = 0]
  /\ Goto(w, "parse")
  /\ UNCHANGED <<clients, unread, armed, queues, sent, conn>>

(* The write end of the pipe blocks while the pipe is full.  The worker    *)
(* goes on parsing.                                                        *)
WritePipe(w) ==
  /\ pc[w] = "write" /\ Len(pipe) < PipeSize
  /\ pipe' = Append(pipe, [conn |-> conn[w], idx |-> idx[w]])
  /\ idx' = [idx EXCEPT ![w] = 0]
  /\ Goto(w, "parse")
  /\ UNCHANGED <<clients, unread, armed, queues, sent, conn>>

(* Mutant of Rearm: the re-arming is left to PR_REARM_AGAIN.               *)
RunUnarmed(w) ==
  /\ pc[w] = "rearm"
  /\ Goto(w, "run")
  /\ UNCHANGED <<clients, unread, armed, queues, sent, pipe, conn, idx>>

Rearm(w) ==
  /\ pc[w] = "rearm"
  /\ armed' = [armed EXCEPT ![conn[w]] = TRUE]
  /\ Goto(w, "run")
  /\ UNCHANGED <<clients, unread, queues, sent, pipe, conn, idx>>

-----------------------------------------------------------------------------
(* A worker runs a command and sends replies.                              *)

TakePiped(w) ==
  /\ pc[w] = "idle" /\ pipe # <<>>
  /\ conn' = [conn EXCEPT ![w] = Head(pipe).conn]
  /\ idx' = [idx EXCEPT ![w] = Head(pipe).idx]
  /\ pipe' = Tail(pipe)
  /\ Goto(w, "run")
  /\ UNCHANGED <<clients, unread, armed, queues, sent>>

(* runner() and its send_queue_commit.                                     *)
Run(w) ==
  /\ pc[w] = "run"
  /\ ready' = [ready EXCEPT ![conn[w]] = @ \cup {idx[w]}]
  /\ Goto(w, "pop")
  /\ UNCHANGED <<clients, unread, armed, tail, head, locked, sent, pipe, conn, idx>>

(* Mutant of PopStart: head_lock is not looked at.                         *)
PopUnlocked(w) ==
  LET c == conn[w] IN
  /\ pc[w] = "pop"
  /\ UNCHANGED <<clients, unread, armed, tail, head, ready, sent, pipe>>
  /\ \/ /\ head[c] = tail[c] \/ head[c] \notin ready[c]
        /\ Leave(w)
        /\ UNCHANGED locked
     \/ /\ head[c] \in ready[c]
        /\ locked' = [locked EXCEPT ![c] = TRUE]
        /\ Goto(w, "send")
        /\ UNCHANGED <<conn, idx>>

(* send_queue_pop_start: empty (-1) and not ready (-2) end it, locked (-3) *)
(* is tried again.                                                         *)
PopStart(w) ==
  LET c == conn[w] IN
  /\ pc[w] = "pop"
  /\ UNCHANGED <<clients, unread, armed, tail, head, ready, sent, pipe>>
  /\ \/ /\ head[c] = tail[c] \/ head[c] \notin ready[c]
        /\ Leave(w)
        /\ UNCHANGED locked
     \/ /\ head[c] \in ready[c] /\ ~locked[c]
        /\ locked' = [locked EXCEPT ![c] = TRUE]
        /\ Goto(w, "send")
        /\ UNCHANGED <<conn, idx>>

(* send_pre_data to the descriptor, whoever has it now.                    *)
Send(w) ==
  /\ pc[w] = "send"
  /\ sent' = [sent EXCEPT ![conn[w]] =
                Append(@, [idx |-> head[conn[w]], to |-> Peer(fd[conn[w]])])]
  /\ Goto(w, "continue")
  /\ UNCHANGED <<clients, unread, armed, queues, pipe, conn, idx>>

(* send_queue_pop_continue.                                                *)
PopContinue(w) ==
  LET c == conn[w] IN
  /\ pc[w] = "continue"
  /\ head' = [head EXCEPT ![c] = @ + 1]
  /\ UNCHANGED <<clients, unread, armed, tail, ready, sent, pipe>>
  /\ \/ /\ head[c] + 1 \in ready[c] /\ head[c] + 1 # tail[c]
        /\ Goto(w, "send")
        /\ UNCHANGED <<locked, conn, idx>>
     \/ /\ head[c] + 1 \notin ready[c] \/ head[c] + 1 = tail[c]
        /\ locked' = [locked EXCEPT ![c] = FALSE]
        /\ Leave(w)

Work(w) ==
  \/ ParseCommand(w) \/ ParseEmpty(w) \/ ParseEnd(w)
  \/ RegisterPiped(w) \/ RegisterOwn(w) \/ WritePipe(w) \/ Rearm(w)
  \/ Run(w) \/ PopStart(w) \/ Send(w) \/ PopContinue(w)

Next ==
  \/ \E c \in Conns : Accept(c) \/ Ask(c) \/ End(c)
  \/ \E w \in Workers : Work(w) \/ TakePiped(w) \/ \E c \in Conns : Receive(w, c)

(* Threads are scheduled, and epoll_wait reports what is readable in turn: *)
(* as long as workers come back to it, none is passed over for ever.       *)
Fairness ==
  /\ \A w \in Workers : WF_vars(Work(w))
  /\ SF_vars(\E w \in Workers : TakePiped(w))
  /\ \A c \in Conns : SF_vars(\E w \in Workers : Receive(w, c))

Spec == Init /\ [][Next]_vars
FairSpec == Spec /\ Fairness

-----------------------------------------------------------------------------
Labels == {"idle", "parse", "more", "done", "write", "rearm", "run", "pop", "send",
           "continue"}
Calls == [conn : Conns, idx : Nat]
Replies == [idx : Nat, to : Conns \cup {None}]

(* Every variable keeps its type; queues and pipe keep their bounds.       *)
TypeOK ==
  /\ stage \in [Conns -> {"new", "open", "closed"}]
  /\ fd \in [Conns -> Fds \cup {None}]
  /\ asked \in [Conns -> Nat] /\ unread \in [Conns -> Nat]
  /\ ended \in [Conns -> BOOLEAN]
  /\ armed \in [Conns -> BOOLEAN] /\ locked \in [Conns -> BOOLEAN]
  /\ ready \in [Conns -> SUBSET Nat]
  /\ head \in [Conns -> Nat] /\ tail \in [Conns -> Nat]
  /\ \A c \in Conns : head[c] <= tail[c] /\ tail[c] <= head[c] + Window
  /\ sent \in [Conns -> Seq(Replies)]
  /\ pipe \in Seq(Calls) /\ Len(pipe) <= PipeSize
  /\ pc \in [Workers -> Labels]
  /\ conn \in [Workers -> Conns \cup {None}]
  /\ idx \in [Workers -> Nat]

Receivers(c) ==
  {w \in Workers : conn[w] = c /\ pc[w] \in {"parse", "more", "done", "write", "rearm"}}

(* At most one worker is between epoll_wait and the re-arming of a         *)
(* connection, and none while it is armed: resp_sm and the tail of the     *)
(* queue have no lock.                                                     *)
OneReceiver ==
  \A c \in Conns : Cardinality(Receivers(c)) <= (IF armed[c] THEN 0 ELSE 1)

(* Who is going to commit a command: its worker, or one entry of the pipe. *)
Holders(c, n) ==
  {w \in Workers : /\ conn[w] = c /\ idx[w] = n
                   /\ pc[w] \in {"write", "rearm", "run"}}
  \cup {i \in DOMAIN pipe : pipe[i] = [conn |-> c, idx |-> n]}

(* Every command with a place in the queue and no reply yet is held once,  *)
(* also when its connection was closed or the pipe was full: the replies   *)
(* behind it wait for it.                                                  *)
EveryCommandHeld ==
  \A c \in Conns : \A n \in head[c] .. tail[c] - 1 :
    Cardinality(Holders(c, n)) = IF n \in ready[c] THEN 0 ELSE 1

(* A client that goes on speaking RESP gets its replies itself: they are   *)
(* neither dropped nor written to the next user of its descriptor.         *)
RepliesReachClient ==
  \A c \in Conns : ~ended[c] => \A i \in DOMAIN sent[c] : sent[c][i].to = c

(* The queue of each connection implements ReplyOrder, across workers, the *)
(* pipe and the closing of the descriptor.                                 *)
Order(c) == INSTANCE ReplyOrder WITH
  ElementLength <- 1,
  registered <- tail[c],
  committed <- ready[c],
  written <- [i \in DOMAIN sent[c] |-> <<sent[c][i].idx>>]
ImplementsReplyOrder ==
  /\ \A c \in Conns : Order(c)!Init
  /\ [][\A c \in Conns : [Order(c)!Next]_(Order(c)!vars)]_vars

(* No worker can go on: each waits for a slot or for room in the pipe.     *)
Gridlock ==
  \A w \in Workers : \/ pc[w] \in {"more", "done"} /\ Full(conn[w])
                     \/ pc[w] = "write" /\ Len(pipe) = PipeSize

(* Every command a client has sent is answered, also when the client then  *)
(* hangs up, unless the workers block one another.                         *)
EveryCommandAnswered ==
  \A c \in Conns : \A n \in 1 .. MaxCommands[c] :
    (asked[c] >= n) ~> (Len(sent[c]) >= n \/ Gridlock)
=============================================================================
