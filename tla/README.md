# Predis in TLA+

Predis is an in-memory store that speaks the Redis protocol from many threads.
Its core is lock free: a reply queue per connection, a split-ordered hash table
and deferred reclamation. Those three, the connections and workers around the
queue, the parser before it, the tables and format strings that say what a command
does with its arguments, and the life of a value under a key are what this
directory models and checks with TLC. What each of them promises, liveness aside, is
proved with TLAPS.

## The system

| part | state | operations | how it is reached |
|---|---|---|---|
| reply queue, `lib/send_queue.c` | `tail`, `head`, `head_lock`, per slot `ready` and `data` | register, commit, pop_start, pop_continue | one per connection, shared by all workers |
| worker threads, `network_parser.c` (`onestep_thread`, `packet_reciever`) | epoll set, pipe of pipelined commands, the locals of a worker | receive, parse, register, hand over through the pipe, re-arm, run, send | `epoll_wait` on connections and the pipe |
| command runner, `network_parser.c` (`runner`, `command_del`), `lib/commands.c` | the arguments of a command, the context of its reply | resolve arguments by the format string, initialize and commit values, reply | called by a worker |
| hash table, `lib/hashtable.c` | the sorted list, the bucket arrays, `bitlen`, `bitlen_internal`, `element_count` | store, find, delete, resize, sentinel creation, iteration | the key table, hash values, and the free list of the collector |
| collector, `lib/gc.c` and `gc_thread` | users with `pending` and `working_set`, `free_list`, `used_ctr` | register, lock, commit, clear, free, run | workers call all but run, one thread calls run for ever |
| RESP parser, `lib/resp_parser.c` (`resp_cmd_process_sm`) | buffer, page, position, the command being put together | one call per readiness of the socket | called by `packet_reciever` |
| command and type tables, `lib/command_ht.c`, `lib/type_ht.c` | open-addressed arrays, parsed format strings | store, fetch | startup stores, the runner fetches |
| commands and types, `commands/`, `types/` | strings and hashes under keys | SET, GET, GETSET, BITCOUNT, ..., HSET, HGET, DEL | called by the runner |
| single-producer queue, `lib/1r1w_queue.c` | a ring and two counters | push, pop, close | allocated, no longer used by the server |
| startup and shutdown | | `main`, `load`, SIGINT | |

A worker takes one connection from epoll (one-shot: no other worker gets it),
parses, and registers one slot of the connection's reply queue per command in
request order. Every command but the last goes through the pipe to whichever
worker reads it; the last is run by the worker itself, after it has armed the
connection again. A worker that has committed the reply of its command then
tries to become the sender and writes all that is ready. The runner brackets
its look-ups with `gc_lock` and `gc_commit`, and `gc_clear`s when the command
has run; `DEL` unlinks a key and leaves it to `gc_run`.

What is hard: the reply queue has no lock but one counter; the hash table has a
CAS on one pointer for insertion, splitting and deletion alike; the collector
has to see every pointer a worker may hold, from the moment it is read to the
moment its reply has been written. What makes each part correct:

- reply queue: replies go out whole, once, in request order; one sender at a
  time; a slot is used again only when nobody needs it; every command is answered;
- hash table: split order, no key twice, nothing stored is lost, nothing deleted
  stays reachable, a bucket array exists before it is indexed;
- collector: nothing is freed while somebody may read it, nothing is freed
  twice, working sets are freed once and never put back after being cleared;
- runner and types: a value is read only after it was committed, with its type;
  one command creates it and commits it, on every path; a read is never older than
  what a finished write left; buffers outlive their readers;
- parser: the commands it yields are those of the input, wherever it is cut.

`PROJECT.json` lists the places where this could go wrong ("hazards"), with the
properties that watch them.

## Modules

| module | models | extends |
|---|---|---|
| `SendQueue` | `lib/send_queue.c` access by access, driven as `onestep_thread` drives it | `ReplyOrder` (instance) |
| `ReplyOrder` | what a reply queue promises: register, commit in any order, write in order | |
| `MCSendQueue` | small instances | `SendQueue` |
| `SendQueueProofs` | inductive invariant, theorems, refinement | `SendQueue`, TLAPS |
| `Connections` | several clients, their descriptors, the workers, the pipe, a queue each | `ReplyOrder` (instance) |
| `MCConnections` | small instances | `Connections` |
| `ConnectionsProofs` | inductive invariant, theorems, refinement | `Connections`, TLAPS |
| `RespParser` | `resp_cmd_process_sm` over a stream of bytes that arrives in any portions | |
| `MCRespParser` | inputs that put the page's end at every kind of boundary | `RespParser` |
| `RespParserProofs` | where the bytes of a stream are; inductive invariant, theorems | `RespParser`, `ArithmeticProofs` |
| `CommandTable` | the command and type tables, format strings, the argument loop of `runner` | |
| `MCCommandTable` | the server's own commands, with their hashes | `CommandTable` |
| `CommandTableProofs` | inductive invariant, theorems | `CommandTable`, `ArithmeticProofs` |
| `Gc` | `lib/gc.c` with its users and its collector | |
| `MCGc` | small instances | `Gc` |
| `GcProofs` | inductive invariant, theorems | `Gc`, TLAPS |
| `HashTable` | `lib/hashtable.c` access by access | |
| `MCHashTable` | small instances, the hashes of the keys | `HashTable` |
| `ArithmeticProofs` | lemmas: induction, powers of two, remainders, walks along pointers | TLAPS |
| `HashTableProofs` | the bits of hashes and slots; inductive invariants of `ht_resize` and of the list, theorems | `HashTable`, `ArithmeticProofs` |
| `Keyspace` | values under keys: the runner's argument resolution, `lib/commands.c`, SET, GET, HSET, HGET, DEL | |
| `MCKeyspace` | small instances | `Keyspace` |
| `KeyspaceProofs` | inductive invariant, theorems | `Keyspace`, TLAPS |

How they fit: `RespParser` yields commands; `Connections` takes it for a choice of
what the parser returns, and takes each call of the reply queue as one step;
`SendQueue` has these calls access by access. That the coarse step is enough
is what `ReplyOrder` is for: both modules implement it, which is model-checked and proved for
both. `CommandTable` finds which arguments of a command are keys; `Keyspace` has
what happens to such a key and its value, over an atomic table and without freeing;
`HashTable` looks into the table and `Gc` into the freeing.

### SendQueue

One connection, any number of workers. A worker's `pc` is the next shared access
of the C code: `RegisterCheck` is the condition of `send_queue_register`,
`RegisterUnready` the store to `ready`, `RegisterZero` one word of the `memset`,
`RegisterPublish` the add to `tail` and what the caller does with the index, and
so on through `send_queue_commit`, `send_queue_pop_start` (with the retry of its
caller on -3) and `send_queue_pop_continue`. `memcpy` and `memset` are loops over
words, so a torn element is a state the model has. The reply to command `n` is
the element whose words are all `n`; `sent` is what was given to `send()`.

Two accesses are taken together where no step of another thread in between can
change the outcome: the two loads of `tail` and `head` in `RegisterCheck` (only
this worker changes `tail`, and `head` only grows), and the loads of `ready`,
`head_lock` and `tail` in `NextReady` (this worker holds the lock; `tail` only
grows). `CommitData` writes the index where the code writes the reply.

The parser is a choice: a command with input behind it (`MORE`), the last one
(`DONE`), none yet, or the end of the connection. `IntLimit` stands for 2^31:
from there on `(int)rv` is negative and the caller registers again.

### Connections

A connection is `new`, `open` or `closed` (by the server), with the descriptor it
was accepted on; `accept` takes the lowest free one, as POSIX has it. `Receive` is
`epoll_wait` returning an armed connection, which disarms it; `ParseCommand`,
`ParseEmpty` and `ParseEnd` are what `packet_reciever` gets from the parser;
`RegisterPiped` and `WritePipe` hand a command over (the write end of the pipe
blocks, so `WritePipe` waits for room), `RegisterOwn` and `Rearm` keep the last
one; `TakePiped` is the worker that reads the pipe; `Run` is `runner` with its commit;
`PopStart`, `Send` and `PopContinue` write replies. `Ask` and `End` are the client,
who may at any time stop: hang up, or send something the parser refuses.

A reply is written to the descriptor the worker has kept, so `Send` records who
has it then (`Peer`): the client, nobody, or, after the connection was closed
with replies outstanding, another client that was accepted on the same number. That
happens in the model as in the code, and only to a client that has ended its connection
(`RepliesReachClient`, which excludes it for all others).

A worker that waits for a slot or for room in the pipe has no step. `Gridlock` is
the state in which all of them do.

### RespParser

`pc` is the label of the `switch` or `goto`; a step is what happens between two of
them, with at most one `recv`. The stream of bytes is fixed by the commands the client
sends (`Encoding`); how much of it has arrived is a counter that `Deliver` moves on by
any amount, so every way of cutting it into reads is explored. Bytes in a page are
consecutive in the stream, so a page is a place in the stream and two offsets: nothing is
copied, and an argument is where it is in the stream and how long it is. Digits, CR,
LF and the two marks are told apart; the bytes of an argument are all `Other`.

`Byte` is `Unread` where the page has not been filled: the code reads such bytes
only behind a number that ends with what was received, where `malloc` may have left
anything; it is taken for no digit.

The numbers are those of the code with 19 for `BUFSIZE` (256) and 5 for
`RESP_SM_MAX_CHARS_IN_SIZE` (32). A command has fewer than ten arguments, of fewer than 100
bytes each (`InputsAssumption`): one digit for their number, up to two for a length. So that
the code does not take these for too long, `MaxChars` is at least 4, and a page
is longer than `MaxChars + 1` (`PageAssumption`).

`spoiled` is history. It is set by the two places where the code goes wrong: a
length that is cut by the end of a page anywhere but before its last digit
(`bs_length * (10 * (ptr - start))` is right for one digit only), and a bigbuf made
when bytes of the argument were already in the page, which are forgotten.
`CommandsParsed` holds in all other cases.

### CommandTable

`Load` is the next registration of `main` and the modules it loads, `Fetch` the lookup
of a request's command and the check of its argument count, `Resolve` one
iteration of the loop of `runner` over the arguments, with `node` for
`fstring_index`. A format string is the sequence of its marks; `Parsed` takes out the first
bar and makes the second a node with a jump target. Tables are partial functions from
slots; the hash of each name is a constant, given modulo the table's size. Probing goes
up and does not wrap around (`index + 1 % size` is `index + 1`): a store or fetch
that passes the last slot would leave the array (`astray`).

What is registered is a constant, `Startup`, and three assumptions say what the code
takes for granted of it; those of the server meet them, as the run shows.
`RoomAssumption`: from no slot on are there as many names to store as slots, so that probing
ends inside the table. `FormatAssumption`: a format string with keys names their type, and its
bars come in pairs with something between them (of an empty loop `runner` does not come
out). `Registrations`: a format string is not empty.

A name may be registered twice: then the first registration that `parse_format_string` takes
is the one requests find (`Registered`, `Legal`). `Meant` is what a format string says of
an argument; with a repeated part it says something only when the arguments fill whole
repetitions (`Fits`).

What a lookup of a key may answer is a choice (`refused` for a missing key or
a wrong type); `Keyspace` has the details.

### Gc

An address is a heap block: an object of the key table or a node of the free
list. A key's node and its value, which the code frees one after the other
through an entry each, are one object here. Both tables are atomic maps, because what
matters here is when a block is freed, not how a map is searched, with one
exception: `FreeSearch` is the moment at which `gc_free`'s `ht_store` stands on a
node of the free list, and `cursor` the node on which the walk of `gc_run`
stands. A new entry takes any free address and stands anywhere in the order of
the walk: hashes decide, so the order is arbitrary.

Three defects of the code are in the model, because the rest of its behaviour
depends on them. The mark that `gc_run` makes for a member of a working set goes
to the wrong address (`CollectMark` changes nothing; what else it damages is not
modelled), and the walk ends with a read through NULL (`WalkEnd`: it traps, or the
compiler has exchanged the two tests, which it may, and `gc_run` returns). The other runs
use the second outcome to get past the first collection. The third is in `command_del`, which
does not look at what `ht_del` returns: for a missing key (`NotFound`) `gc_free` is given
a `cts` that this turn of the loop has not set. In the model it holds what the turn
before has left there, or any address at all, where one that is not allocated stands for
whatever is no block. The first is harmless, as `ht_store` finds the pointer on the free
list and leaves its entry alone (`AddEntry`). After the second nothing can be said of
any block: the history variable `wild` records it, the properties about blocks end there,
and a `free()` of what is no block stops the process (`WalkFree`). The properties about
working sets do not depend on it.

A working set is an identity. `gc_clear` frees `usr->working_set` after having
set it to NULL: `ClearFree` does just that, and a set that has leaked is not told
from a fresh one.

### HashTable

A node is its number in allocation order and is never allocated again, so what
is shown does not depend on the collector. Threads store, find and delete; a
step is one access to a shared field, or two reads of fields that only grow.
`Width` is the number of bits of a hash (32 in the code), and hashes are given
with the keys. The hashes 0 and `MaxHash` are excluded (`HashAssumption`): with
the first `ht_store` fails an assertion, with the second a search reads
through the NULL behind the end node. The nodes of
`Preloaded`, if any, are there already, at most three, for which `ht_init`'s two buckets
are enough. The three nodes and two buckets of
`ht_init`, bit reversal, the parent of a bucket, doubling with `bitlen_internal`
and `bitlen`, and the publication of a sentinel before it is linked are as in the
code. `stored` and `sure` are history: the code does not have them.

`element_count` is not decremented by `ht_del`, in the model as in the code.

`UniqueKeys` leaves out the nodes that were given to `gc_free`. The CAS of `ht_del` puts the
`next` it has read into the predecessor: if that node has been deleted meanwhile it is in
the list again, as in finding 4, and a key stored after its deletion is there as well. What
remains is what `ht_store` is there for: two stores of one key do not both win.

### Keyspace

A worker runs one command on one key. `Reserve`, `Occupied` and `Spin` are the
`FSTRING_MODIFY_CREATE` branch of `runner`, `Find` and `Load` the
`FSTRING_READONLY` branch; `Check`, `Initialize` and `TryCommit` are the three
`predis_arg_*` functions `command_set` and `hash_hset` call; `Write` and `Read` are
`string_set` or `hash_store` and `string_get` or `hash_find`; `Unlink`, `Retire` and
`DelReply` are `command_del`. Between any two of them another worker may take a
step. The table is an atomic map (`HashTable` looks inside it) and nothing is freed
(`Gc` does that): a node and a value are named by the number of the call that made
them. The bytes a command brings are the number of its call too, so a reader's reply
tells which SET it saw. A hash has one field, and HSET leaves a field that is there
as it is, as `hash_store` does.

A worker that dereferences NULL stops the server (`crashed`). `setargs` is a SET with
more than two arguments: it makes the node and then refuses its arguments. `finished`,
`outdated`, `before`, `present` and `sure` are history.

The guards of `lib/commands.c` suggest that two creators may race for the commit.
`OneCreator` says that they do not: only the worker whose `ht_store` made the node
initializes, and every other one waits in the loop. So a `TryCommit` of a value of
one's own never fails, and `Write` never takes its first branch; both are in the model
because they are in the code.

## Runs

| run | instance | checks | shows |
|---|---|---|---|
| `sendqueue` | 2 workers, 2 slots, 2 words, 2^31 at 4 | `TypeOK`, `RepliesInOrder`, `OneSender`, `CommitOwnsSlot`, `TailBound`, `EveryReplySent`, `ImplementsReplyOrder` | each slot is used twice and more, two workers race for the lock while one registers; every command is answered; the queue implements `ReplyOrder` |
| `connections` | 2 clients of 3 and 1 commands, 2 descriptors, 2 workers, queues of 2, pipe of 1 | `TypeOK`, `OneReceiver`, `EveryCommandHeld`, `RepliesReachClient`, `ImplementsReplyOrder`, `EveryCommandAnswered` | 100 thousand states: full queues, a full pipe, closing with replies outstanding, a descriptor used again, gridlock |
| `parser` | 7 inputs of 2 or 3 commands, pages of 19 bytes | `TypeOK`, `CommandsParsed`, `PromptlyParsed` | 83 thousand states: every way to cut the stream into reads |
| `command_table` | the 15 registrations of the server, every registered name and one unknown name per hash, 0 to 8 arguments | `TypeOK`, `FormatFollowed`, `RequestsEnd` | lookups survive collisions, arguments are taken as the format strings mean them |
| `gc_safety` | 2 users, 4 addresses, 3 sets, 4 collections | `TypeOK`, `PendingProtected`, `FreeListSound`, `WalkerOnLiveNode`, `ScannedIsAllocated`, `NoStaleSet` | the protection of pending users works, and so does deleting from the list being walked, as long as DEL has not listed an uninitialized pointer |
| `gc_committed`, `gc_reply` | 3 addresses, 3 collections | `CommittedProtected`, `ReplyProtected` | violated, see below; no uninitialized pointer is needed |
| `hashtable_safety` | 2 threads, 4 keys of which 2 share a hash, 3-bit hashes, up to 8 buckets, 4 calls | `TypeOK`, `SplitOrder`, `UniqueKeys`, `ArraysPublished`, `AssertionsHold`, `KeysKept`, `FindIsRight` | the table keeps its shape through concurrent stores, finds, deletions and two doublings; before the first split or deletion no key is lost or missed; the assertions of `ht_get_sentinel` and `ht_store` hold |
| `keyspace_safety` | 2 workers, 1 key, 4 commands | `TypeOK`, `OneCreator`, `TypeSafe`, `NoTornValue`, `NoStaleRead`, `FoundWhenPresent`, `EveryCallReturns` | a value is created once, seen whole and with its type, and reads are not stale; commands return |
| `keyspace_get` | 2 workers, SET and GET | `GetFindsValue` | violated, see below |
| `hashtable_lost`, `hashtable_delete` | stores only; deletions only | `StoredReachable`, `CollectedUnreachable` | violated, see below |

Why these bounds. Reply queue: a slot's life is register, commit, send, register
again; with two slots and four usable indices every slot is registered at least
twice before the negative indices are reached. More workers add nothing the proofs do
not cover: the invariants hold for any number of them. `sent` needs no bound: `tail`
stops at `IntLimit + Length`. Connections: one client pipelines more commands
than its queue holds, the pipe holds one command, and two workers are enough for
both to be stuck; two connections with two descriptors, the lowest of which
is free again when the first is closed, give the reuse. Parser: the inputs are
chosen so that the page ends after an argument, after the dollar, inside a length, after a
whole length and inside an argument, and one argument is larger than a page. Tables:
the real ones, 8 arguments are more than any format string has nodes, and enough for the
repeated part of MGET to be entered several times. Collector: an object is freed by the second
collection after its deletion and the node of its entry two collections later,
so four collections let a block be freed, allocated again and freed again; one user
deletes while the other one looks up, commits and clears; three working sets are
one per user and the one being scanned. What follows a `wild` pointer is explored only while
at most one block is allocated, and up to the `free()` of what is listed
(`MCGc!Contained`): there `TypeOK`, `ScannedIsAllocated` and `NoStaleSet`
still have something to say, and these are proved for the rest. Hash table: three stores make the
fourth double the table, and `Preloaded` puts two of them there, so that four
calls cover a store below the limit, one that doubles the table and one that
finds it doubled. The two are neighbours, so that both can be deleted at once; the new keys go
behind them and two keys share a hash, so that stores race for one place with
equal hashes and with equal keys; a sentinel of the second doubling has one of the first for a
parent. `MaxNodes` and `MaxBitlen` may stop an execution before its calls
are used up, when nodes are given up after a race or at the third doubling.
Keys: the longest pattern needs a value made, deleted or replaced, made again with
another type and read, which four commands of two workers can do; commands on
different keys share nothing in this model, so that one key is enough. Deadlock is not checked: a connection may end, and the bounds stop the
other models.

Symmetry is used in the violation runs and in runs with invariants only (and in `hashtable_safety`, whose one
action property is about single steps and treats threads alike).

Fairness (`SendQueue!FairSpec`). Each worker's own steps are weakly fair: the
operating system keeps scheduling it, and the parser and `send()` return because the
socket is non-blocking. `Receive` is not in it: a peer may stay silent. Taking
a command out of the pipe is strongly fair, over all workers together: epoll
returns ready descriptors in turn, so a pipe that stays readable is not passed
over for ever for connections. Nothing is assumed about the peer.

`Connections!FairSpec` has the same three parts: weak fairness of each worker's
work, strong fairness of taking from the pipe, and strong fairness of
receiving each connection (over all workers together). The last two are what
`epoll_wait` gives: it moves a descriptor it has returned to the end of its ready list,
so that none stays ready for ever while workers keep coming back. They need not come back,
and nothing in the fairness says so. Accepting, asking and hanging up are not fair.
`EveryCommandAnswered` leaves out gridlock, because the code has it.

`RespParser!Spec`: the parser runs when its socket is readable, nothing is assumed of the
client. `CommandTable!Spec`: startup goes on, and a worker goes on with a request it has
taken.

`Keyspace!FairSpec` only says that every worker in a command is scheduled again and
again; taking up a command is not in it. The loop in `Spin` takes no step while
the slot is empty. `EveryCallReturns` leaves two ways out, because the code has them: a
crash, and (`Abandoned`) a node whose creator has left without initializing a value,
which is what `setargs` does.

`EveryReplySent` is about commands below 2^31 and stops speaking once `tail` is
beyond it: from there on `send_queue_register` returns a negative number for a slot it
has registered, its callers take that for a full queue and call again until the queue
is full of slots nobody will commit.

## Findings

1. `gc_committed`. `ht_find` returns the address of the value slot of a node, and
   `gc_run` uses it as the element: the mark that should keep a member of a
   working set is written past the node, and the object is freed under a running
   command.
2. `gc_reply`. A bulk reply points into the value; the value can be deleted and
   freed after `gc_clear` and before the reply is written.
3. `hashtable_lost`. The creator of a sentinel publishes it in its bucket, then
   stores its `next`; a key stored behind it in between is lost.
4. `hashtable_delete`. Two neighbours deleted at once: the first one's predecessor
   is made to point at the second one, which is on the free list by then.
5. `keyspace_get`. A GET that finds the node of a key between the `ht_store` and the
   commit of the SET that makes it reads a NULL value and dereferences it; a SET
   in the same place waits.

What else the models show of the code, without a run of its own:

- `SendQueue`: a connection is never answered again once its queue has passed index
  2^31, and its worker spins (see above).
- `Gc!WalkEnd`: `ht_next` tests `n->key` before `n`; the first `gc_run` of the
  program reads through NULL unless the compiler drops the order.
- `Gc!NotFound`: DEL of a missing key gives `gc_free` an uninitialized pointer. It is put on
  the free list, against the first invariant of `src/lib/gc.h:5` if it happens to be a block
  in use, and freed two collections later.
- `Connections!Gridlock`: when all workers are in `packet_reciever`, each with a full
  queue or before a full pipe, nobody runs a command again. As many clients as there are
  workers, each with more than 64 commands under way, can bring it about; with one
  worker, one client can.
- `Connections!Send`: replies outstanding when a connection is closed go to the next client
  that gets its descriptor, though that one has not asked for them. `RepliesReachClient`
  speaks of where a client's own replies go, and does not exclude it.
- `RespParser!Body`: the part of a large argument that was received with its length is
  lost, and the connection is out of step from there on. The older `resp_cmd_process` in the same
  file copies these bytes. `RespParser!WholeLength`: a length cut by the end of a page is put
  together wrongly unless the cut is before its last digit. `RespParser!AryStart` wants a dollar
  behind the number of arguments: it refuses an empty array, for which `packet_reciever`
  has a case (`PR_TOO_SHORT`, never armed again) that is never reached.
- `CommandTable!Beyond`: the test is `>` where `>=` is meant: one argument too many reads
  the format string one past its end (`astray` for commands without a repeated part);
  from the second on they are plain strings. After a jump the same test makes
  plain strings of arguments that are meant as keys, for MGET from the sixth on.
- `CommandTable!Resolve`: an optional key that exists is read through NULL (`crashed`): MGET
  of an existing key. `CommandTable!Accepted`: optional arguments (`?`) are refused always, as
  the end of their number is compared with its start.
- `load` is stored under five bytes, its NUL included: no request finds it.
- `HashTable!Advance`: the assertion `n->key_hash >= p->key_hash` in the loops of `ht_find`
  (`src/lib/hashtable.c:416`) and `ht_del` (`:450`) does not always hold. A sentinel is in its bucket
  before it is spliced in, and its `next` is its parent until then. If the parent is not
  spliced in either, a search that starts from the new sentinel steps back to
  the parent's parent, whose hash is smaller. It takes three threads, two in
  `ht_get_sentinel` and one searching. The search goes on from there and is right; the server
  with assertions enabled stops. `AssertionsHold` leaves these two lines out.

## Proofs

`SendQueueProofs` proves, for every set of workers, every queue length, every
element length and every `IntLimit`:

- `TypeCorrect`, `RepliesAlwaysInOrder`, `SenderIsExclusive`, `CommitsAreOwned` and
  `CountersNeverWrap`: the invariants `TypeOK`, `RepliesInOrder`, `OneSender`,
  `CommitOwnsSlot` and `TailBound` of the run;
- `QueueImplementsReplyOrder`: every step, access by access, is a step of `ReplyOrder`
  or changes nothing of it;
- `Invariance`, from which they follow: the inductive invariant `Inv` holds.

The assumptions are those of `SendQueue`: `Length` and `ElementLength` are
positive naturals, `IntLimit` is a natural.

None of the five is inductive. `RepliesInOrder` says nothing of a reply that has
been copied and not yet sent, or is not yet copied. `Inv` adds, in named parts:

- `Window`: `head <= tail <= head + Length`, with `head_lock` at `head` or one
  further according to where the worker that holds it stands; `AtRest`: when nobody holds
  it, the two are equal;
- `Sender(t)`: the worker that holds the lock has `head_lock = head + 1` (or one
  more, between `NextLock` and `NextHead`), its buffer is the reply to be sent next,
  and `sent` has the length that goes with its `pc`;
- `Popper(t)`: what a worker in `pop_start` has seen and copied is worth something
  only as long as `head_lock` is still its `attempt`: then the slot was ready when
  it looked, nobody can have registered it again, and the words copied so far
  are the right ones. This is what makes the copy before the CAS safe;
- `ReadyIsWhole`: a ready slot in the window holds the whole reply to its index;
- `PipedPending`, `CommitOwnsSlot`, `Committer(t)`: the index of every command
  in flight is in the window, its slot is not ready, and it is in one place only
  (the pipe or one worker);
- `OneReceiver`, `Registrar(t)`: one worker at a time is in `packet_reciever`, which
  is what makes the unsynchronized `send_queue_register` right, and the slot it
  clears is outside the window.

There is a lemma per action (`Inv` and the action give `Inv'`), lemmas on the
arithmetic of slots within a window (two indices less than `Length` apart have
different slots), and the temporal step at the end.

The refinement (`OrderStep`) maps `registered` to `tail`, `committed` to the ready
indices of the window and those already sent, `written` to what was sent. The steps that
matter are `RegisterPublish`, `CommitReady` and `Send`; that the last one writes the
whole reply is `Sender`, that a commit is of a registered index not yet committed is
`CommitOwnsSlot`.

`ConnectionsProofs` proves, for any connections, descriptors, workers, any length of the
queues and any size of the pipe:

- `TypeCorrect`, `ReceiverIsExclusive`, `CommandsAreHeld` and `RepliesAlwaysReachClient`: the
  invariants `TypeOK`, `OneReceiver`, `EveryCommandHeld` and `RepliesReachClient` of the run;
- `QueuesImplementReplyOrder`: `ImplementsReplyOrder`, for all connections at once;
- `Invariance`.

The assumptions are those of `Connections`: descriptors are numbers, the bounds are
naturals and `None` is no connection. The inductive invariant `Inv` adds to the four:

- `Exclusive`: two receivers of one connection are one worker, and its connection is
  open and not armed. `OneReceiver` counts them; this says the same without
  counting, and that only its receiver closes a connection;
- `Located`, `Descriptors`: whatever a worker or the pipe points at was accepted; a closed
  connection was ended by its client; two open connections have different
  descriptors. So a reply of a client that has not ended its connection is written to a
  descriptor which is still its own;
- `ReadyRegistered`, `HeldAwaited`, `HeldOnce`, `AwaitedHeld`: the commands held by workers and by
  the pipe are, one to one, the places of the queues without a reply. `EveryCommandHeld`
  is the same as cardinalities;
- `SenderLocks`, `SentInOrder`: a sender has the lock of its queue and its head is
  ready; `sent` is one longer than `head` between the write and `pop_continue`.

`GcProofs` proves, for any users, addresses, working sets and number of collections:

- `TypeCorrect`, `PendingIsProtected`, `FreeListIsSound`, `WalkerIsOnLiveNode`,
  `ScannedSetIsAllocated` and `SetsAreNotStale`: the invariants `TypeOK`, `PendingProtected`,
  `FreeListSound`, `WalkerOnLiveNode`, `ScannedIsAllocated` and `NoStaleSet` of the run. `TypeOK` and the
  last two hold always; the other three, as they say, until DEL of a missing key has listed an
  uninitialized pointer (`wild`);
- `Invariance`.

The assumptions are those of `Gc`: `NoSet` is no set, `NoAddr` no address, `MaxRuns` a
natural. `PendingProtected` is the one that takes an argument; the inductive invariant
`Inv` is built for it. Its parts about blocks, `Protected` and `BlocksApart`, are claimed
until `wild`; the others always:

- `Protected`: call a block old if its entry on the free list, or the stamp that a
  `gc_free` under way has read, is from before the collection under way (`Limit`: the bump of
  `used_ctr` moves the limit to where it was). If a pending user points at an old block (`Held`),
  then the collection has still to wait for that user (`Awaited`). When the walk begins
  nobody is awaited, so what it removes is in no pending user's hands, and it stays so
  until it is freed, because a user can only come by blocks that are not old: those of the
  key table, new ones, and nodes of the free list. A user registered after the
  collection has loaded the list of users is not awaited, and has begun too late to
  point at anything old;
- `BlocksApart`: that those are not old needs it: a block is reached from the key
  table, or is the node of an entry, or is on the free list, or is about to be, or is about
  to be freed, and only one of them. `Sound` is what of this concerns the free list. `Unlinked`
  is what makes a second `gc_free` of one value harmless: what a DEL has unlinked is
  nobody else's, and from its first `gc_free` until this DEL ends it stays on the free list, since
  the collection waits for the pending user (`HeldIsKept`);
- `SetsOwned`: a working set has one owner, and the one `gc_run` has tagged is its user's
  or nobody's. `dangling` is always empty;
- `Brackets`, `Phases`: who is pending where, and that every user in a command is on the list.

`KeyspaceProofs` proves, for any workers, keys and number of commands:

- `TypeCorrect`, `OneCreatorOfANode`, `CommandsAreTypeSafe`, `ValuesAreWhole`,
  `ReadsAreNotStale` and `PresentKeysAreFound`: the six invariants of the run;
- `Invariance`.

The assumptions are those of `Keyspace`: there is a key, `Ops` are commands of the model,
`MaxCalls` is a natural. The parts of `Inv`:

- `Numbered`, `Places`, `Fresh`: calls have numbers of their own; where a call can be and
  which flags it can have there; a number no node was made of yet has left no trace;
- `Nodes`: keys do not share a node, and a node holds nothing or the value that its own
  call made, initialized. So the value of a node never changes once it is there;
- `Holding`: a creator's node is its own and still empty, everybody else's node has its value,
  of the type the command needs;
- `Order`: what makes `NoStaleRead` hold. The bytes of a call that is over are written by
  nobody again; if the call is outdated they are not under the key now (`Past`), so no
  reader that begins from then on comes by them (`Knows`). For a SET to outdate the calls
  that were over when it began, it takes that its node is under the key still or that those
  calls' bytes are not (a DEL may have come between), and that its last step writes or
  commits into that node;
- `Kept`: what makes `FoundWhenPresent` hold. While no DEL is at the key, its node stays,
  and a node with a string keeps one.

`Outcomes` replaces each action by what is left of it in reachable states: no branch of a failed
commit or of a write without a value. `TableGrows` says what a step may do to the table
at all. The other lemmas use only these two.

`HashTableProofs` proves, for any threads, keys, hashes, number of
bits, buckets, nodes and calls:

- `ArraysArePublished`, `TypeCorrect`, `ListInSplitOrder`, `KeysUnique`,
  `AssertionsAlwaysHold`, `StoredKeysKept` and `FindAnswersRightly`: the seven properties
  `ArraysPublished`, `TypeOK`, `SplitOrder`, `UniqueKeys`, `AssertionsHold`, `KeysKept` and
  `FindIsRight` of the run;
- `ResizeInvariance` and `TableInvariance`, from which they follow.

The assumptions are those of `HashTable`: hashes are neither 0 nor the largest, the keys that are
there at the start have different hashes and are at most three, there are at least two
bits, `NoKey` is no key, and the bounds are naturals in range.

Doubling (`ResizeInv`) uses none of them, since `ht_resize` does not look at the list:

- `Claimed`, `ClaimedOnce`: a thread between its two CAS loops has a number above `bitlen`
  and not above `bitlenInternal`, and no two threads have the same. So when one publishes its
  number, the others' numbers are still ahead of `bitlen`;
- `ArrayFirst`: who waits to publish a number has published its array; since `bitlen` goes up
  by one, all the arrays below are there too.

The list (`TableInv`) takes more than what is in it. A thread may link a node behind one that
another thread has cut out, or behind a sentinel that is not spliced in yet, and from there it may
come back into the list. So `IInv(L, b)` speaks of two things the program does not keep, and
`TableInv` says that they exist: `L`, the nodes that were ever linked, and `b`, for each of
them the keys of its own hash that it was linked behind. Its parts:

- `Links`: every link, of nodes in the list or not, is an `Edge`, to a node of `L` that is not
  earlier in split order, behind no fewer keys of its hash but for deleted ones; or
  it is `Lazy`, of a sentinel that still leads to its parent;
- `Ghosts`: `b` is an order on the keys of one hash, and a key is linked behind an equal one only
  if that one was deleted. With `Links`, no key is twice on a path but for deleted nodes;
- `Buckets`: a bucket has a sentinel with the bits of its number reversed; `Fields`: hashes fit keys;
- `Thread`, `Distinct`: what each thread knows of its predecessor, successor and new node
  between two accesses, which is what makes its CAS right: that the value it expects is
  still there is all the CAS adds;
- `Kept`, `Sought`: until a bucket is split or a key deleted, nothing that was linked leaves the
  list, and a search for a key stored before it began has that key ahead of it.

What is in the list is a matter of paths of any length. `Path` follows the links one by one, and
`ListLeast` (what is closed under `next` holds the list) and `EndReached` (a path in split
order gets to the end, or it would meet more nodes than there are) are proved by induction,
in the form for sets, which needs no operator as a parameter. For the initial states, where the
list is built from the hashes, the same is done with `Weight` and `Follower`.
The lemmas on bits: reversing them is one to one, a slot's parent comes
before it in split order, and the bucket of a hash is not behind it.

`CommandTableProofs` proves, for any size of the tables, any names, hashes and
registrations that meet the assumptions above, any requests and any number of arguments:

- `TablesTypeCorrect` and `RequestsFollowFormats`: the invariants `TypeOK` and
  `FormatFollowed` of the run;
- `CommandInvariance`, from which they follow.

The parts of `CommandInv`:

- `Tables`: `IsTable`, an entry has no gap between its home slot and itself, so that a fetch which
  stops at a free slot has missed nothing; `Roomy`, from every slot on there are no more entries
  than registrations so far that hash there. With `RoomAssumption` the last slot is always free
  (`LastSlotFree`: if it were not, take the first slot from which all are used; the
  entries from there on hash there, and are too many), so probing stays in the
  table. `TypeKnown`, `FirstWins`, `AllStored`: what is in the tables is what was
  registered, and the first of several entries of a name is that of its first registration;
- `Served`, `Chosen`: the entry of a request is the one its command was given;
- `Walking`: where the node is. In a format string without a repeated part it is the number of
  the argument. In one with such a part it is `Placed`: in front of the part it is the
  number of the argument; in it and behind the first bar the two are whole
  repetitions apart, and there is room for one more repetition before the arguments that belong
  behind the part; behind the jump there are as many nodes left as arguments. The
  jump (`PlacedJump`) keeps this because it goes back exactly if more arguments than
  that are left;
- `AsMeant`: the arguments so far were accessed as `Meant` says, which `LoopMark` derives
  from the place.

`RespParserProofs` proves, for any set of inputs and any sizes that meet the assumptions above:

- `ParserTypeCorrect` and `CommandsParsedRightly`: the invariants `TypeOK` and
  `CommandsParsed` of the run;
- `ParserInvariance`, from which they follow.

The first half has no parser in it. `Encoding` flattens the pieces of the commands
one after the other. `Pieces` says of any sequence of sequences that each byte of each piece
is behind the lengths of the earlier pieces, and nothing else is there; it is proved by induction
over the number of pieces, in the form for sets. Applied to commands and then to arguments it
gives `CommandPlace` and `ArgumentPlace`: which byte of the stream is a mark,
a digit, a CR, an LF or another, all counted from where a command or an argument begins (`Ends`,
`ArgAt`), and `ExpectedHolds`, that `ArgumentsOf` speaks of these places. What `strtol` makes of a
place follows from the bytes there (`HeaderRead`, for example): a number ends where its CR is,
or where the received bytes end.

The second half follows the parser. The parts of `ParserInv`:

- `Types`: the page is a part of what has arrived;
- `Control`: what a state means for the page and the counters whatever the bytes are:
  the length of the page, that a number of arguments is looked for at its beginning, that there
  are never more arguments than were announced;
- `Placed`: base and start are where the stream has what the state waits for (`Here` is where the
  next argument begins), what was taken of this command is right so far (`Taken`), and so are all
  commands before it (`Parsed`). Of a length that the end of a page has cut, it says that the first
  of two digits has been read and one is left (`AtLength`).

`Placed` is not claimed of a connection that is out of step (`spoiled`); `Types` and
`Control` are. That is why the header of a command needs a lemma of its own:
`HeaderSomewhere` says that base is where some command begins, spoiled or not.

`ArithmeticProofs` has what these share: that a set of naturals has a least and, if bounded, a
greatest member, induction over the naturals in the form for sets, powers of two, uniqueness of quotient and
remainder, and the existence of a walk along pointers.

All proof modules have a lemma per action or per part of the invariant, and the temporal
step at the end.

Not proved, only checked on small instances: `EveryReplySent`, `EveryCommandAnswered`,
`PromptlyParsed`, `RequestsEnd` and `EveryCallReturns` (liveness under fairness, which the
prover does not do).
`CommittedProtected` and `ReplyProtected` of `Gc` are false, see Findings.

## Not modelled

- The socket: `send()` writes all it is given, though it is non-blocking and its result
  is ignored.
- Weak memory. Every shared access is a sequentially consistent atomic, a
  volatile access of its only writer, or separated from others by a fence.
- The memory of a request: the buffers into which values point (`resp_cmd_free` frees
  all pages but the last; `string_set` keeps a pointer), the list of pages, which is too
  short when arguments use bigbufs, and the array of resolved arguments, whose length is
  compared with a size in bytes. A model of them would be one of `malloc`.
- GETSET (whose format the runner refuses), MGET's and CONFIG's bodies (which print), several
  fields of a hash, and commands of several keys in `Keyspace`: each key of a
  command is resolved by itself, one after the other, which `CommandTable` has.
- What freeing an uninitialized pointer damages: `Gc` has the pointer on the free list and
  its `free()`, and claims nothing of the blocks from there on; `Keyspace` has it among the
  retired values.
- `ht_free`, `command_ht_free`, `type_ht_free` and `gc_cleanup`, called at exit; SIGINT;
  `load` at run time, which no request reaches; `dlopen`; allocation failures.
- `lib/resp_parser_dw.c`, `lib/netwrap.c`, the older `resp_cmd_process`,
  `lib/1r1w_queue.c` (two are made per connection, nothing is pushed) and
  `lib/timer.c`, which the server does not use; the code taken from Redis.

## Plan

Done: every module has its invariants proved, `SendQueue` and `Connections` with
refinement. What is left, in order of what matters:

1. `Keyspace`: an abstract specification (a map from keys to values whose commands take
   effect at one point each) which it implements but for the defects named above. A GET takes effect
   at a point that only its later steps decide, so the mapping needs a prophecy.
2. The life of request buffers, together with the values that point into them.
