----------------------------- MODULE RespParser -----------------------------
(***************************************************************************)
(* The parser of a connection (lib/resp_parser.c: resp_cmd_process_sm),    *)
(* called by packet_reciever when the socket is readable.  It reads        *)
(* commands from a non-blocking socket into pages, keeps its state between *)
(* calls, and yields a command as soon as its last byte is there.          *)
(*                                                                         *)
(* A client sends `commands`, each the lengths of its arguments.  The      *)
(* stream is their encoding: a byte is a digit (0 to 9) or one of the      *)
(* values below.  Bytes in a page are consecutive in the stream, so a page *)
(* is the place in the stream of its first byte and two offsets, and an    *)
(* argument is the place of its first byte and its length.                 *)
(***************************************************************************)
EXTENDS Integers, Sequences, SequencesExt

CONSTANTS Inputs,    \* the sequences of commands a client may send
          PageSize,  \* BUFSIZE
          MaxChars   \* RESP_SM_MAX_CHARS_IN_SIZE

ASSUME InputsAssumption ==
  \A cs \in Inputs : cs \in Seq(Seq(0 .. 99)) /\ \A i \in DOMAIN cs : Len(cs[i]) < 10

(* Numbers have two digits here: with their CR LF they are not too long.   *)
ASSUME PageAssumption ==
  MaxChars \in Nat /\ MaxChars >= 4 /\ PageSize \in Nat /\ PageSize > MaxChars + 1

Star == 10
Dollar == 11
CR == 12
LF == 13
Other == 14       \* a byte of an argument
Unread == 15      \* a byte of a page that was not received

VARIABLES
  commands,       \* what the client sends
  arrived,        \* how many bytes of it the kernel has received
  gone,           \* the client has closed the connection
  pc,             \* the label of the code, "idle" between two calls
  state,          \* sm->state
  base,           \* the place in the stream of the page's first byte
  start, end,     \* sm->data.start_ptr, .end_ptr
  length,         \* sm->data.length, 0 if sm->data.buf is NULL
  bsLength,       \* sm->data.bs_length
  argc, args,     \* sm->result: argc, and argv with argv_lengths
  parsed,         \* the commands yielded so far
  spoiled         \* history: received bytes were given up, or a length was
                  \* put together from two pages

network == <<commands, arrived, gone>>
buffer  == <<base, start, end, length>>
result  == <<argc, args>>
vars    == <<network, pc, state, buffer, bsLength, result, parsed, spoiled>>

(* RESP: an array of bulk strings.                                         *)
Digits(n) == IF n < 10 THEN <<n>> ELSE <<n \div 10, n % 10>>
Header(mark, n) == <<mark>> \o Digits(n) \o <<CR, LF>>
Argument(n) == Header(Dollar, n) \o [i \in 1 .. n |-> Other] \o <<CR, LF>>
Command(c) == Header(Star, Len(c)) \o FlattenSeq([i \in DOMAIN c |-> Argument(c[i])])
Encoding(cs) == FlattenSeq([i \in DOMAIN cs |-> Command(cs[i])])

(* What each input is as a stream, where its commands end in it, and each  *)
(* argument as its first byte and length.                                  *)
StreamOf == [cs \in Inputs |-> Encoding(cs)]
EndsOf == [cs \in Inputs |-> [k \in DOMAIN cs |-> Len(Encoding(SubSeq(cs, 1, k)))]]
ArgumentsOf ==
  [cs \in Inputs |-> [k \in DOMAIN cs |->
    LET c == cs[k]
        before(i) == Len(Encoding(SubSeq(cs, 1, k - 1)) \o Header(Star, Len(c))
                         \o FlattenSeq([j \in 1 .. i - 1 |-> Argument(c[j])])
                         \o Header(Dollar, c[i]))
    IN  [i \in DOMAIN c |-> <<before(i), c[i]>>]]]

Stream == StreamOf[commands]

Min2(a, b) == IF a <= b THEN a ELSE b

(* The byte at an offset of the page.                                      *)
Byte(i) == IF i < end THEN Stream[base + i + 1] ELSE Unread

Init ==
  /\ commands \in Inputs
  /\ arrived = 0 /\ gone = FALSE
  /\ pc = "idle" /\ state = "clean"
  /\ base = 0 /\ start = 0 /\ end = 0 /\ length = 0
  /\ bsLength = 0 /\ argc = 0 /\ args = <<>>
  /\ parsed = <<>> /\ spoiled = FALSE

-----------------------------------------------------------------------------
(* strtol at an offset: white space (a CR or LF), digits, then the offset  *)
(* of the first other byte; without digits, 0 and the offset given.  It    *)
(* stops at the end of the bytes received: rp_create_buffer terminates the *)
(* page, and what malloc left in an unread byte is taken for no digit.     *)
FirstDigit(i) ==
  CHOOSE j \in i .. end : /\ \A k \in i .. j - 1 : Byte(k) \in {CR, LF}
                          /\ Byte(j) \notin {CR, LF}
AfterDigits(i) ==
  LET d == FirstDigit(i) IN
  IF Byte(d) > 9 THEN i
  ELSE CHOOSE j \in d .. end : /\ \A k \in d .. j - 1 : Byte(k) <= 9
                               /\ Byte(j) > 9
Number(i) ==
  LET value[k \in FirstDigit(i) .. end] ==
        IF k = FirstDigit(i) THEN Byte(k) ELSE 10 * value[k - 1] + Byte(k)
  IN  IF AfterDigits(i) = i THEN 0 ELSE value[AfterDigits(i) - 1]

(* memchr of the CR in all but the last n bytes received.                  *)
Terminated(n) == \E i \in start .. end - n - 1 : Byte(i) = CR

(* The line that strtol read ends in CR LF.                                *)
LineEnds(i) == Byte(AfterDigits(i)) = CR /\ Byte(AfterDigits(i) + 1) = LF

(* Mutant of Incoming: recv is given no limit.                             *)
ReceiveAll(from, room) == arrived - from

(* recv returns what the kernel has, from a place in the stream.           *)
Incoming(from, room) == Min2(arrived - from, room)

(* After a recv of n bytes the code goes on at label, or returns           *)
(* RESP_SM_STATUS_EMPTY or _CLOSED.                                        *)
Proceed(n, label) ==
  pc' = IF n > 0 THEN label ELSE IF gone THEN "closed" ELSE "idle"

(* Fill the rest of the page.                                              *)
Fill(label) ==
  LET n == Incoming(base + end, length - end) IN
  /\ end' = end + n
  /\ Proceed(n, label)
  /\ UNCHANGED <<base, start, length>>

(* A new page, filled with what follows in the stream.                     *)
NewPage(size, label) ==
  LET n == Incoming(base + end, size) IN
  /\ base' = base + end
  /\ start' = 0
  /\ end' = n
  /\ length' = size
  /\ Proceed(n, label)

(* RESP_SM_STATUS_ERROR: the caller closes the connection.                 *)
Fail == pc' = "error" /\ UNCHANGED <<state, buffer, bsLength, result, spoiled>>

-----------------------------------------------------------------------------
(* The network: bytes arrive in any portions, the client closes its side.  *)
Deliver ==
  /\ ~gone
  /\ \E n \in arrived + 1 .. Len(Stream) : arrived' = n
  /\ UNCHANGED <<commands, gone>>
  /\ UNCHANGED <<pc, state, buffer, bsLength, result, parsed, spoiled>>

HangUp ==
  /\ ~gone /\ gone' = TRUE
  /\ UNCHANGED <<commands, arrived>>
  /\ UNCHANGED <<pc, state, buffer, bsLength, result, parsed, spoiled>>

(* epoll reports the socket; the switch resumes where the parser was.      *)
Call ==
  /\ pc = "idle"
  /\ arrived > base + end \/ gone
  /\ pc' = state
  /\ UNCHANGED <<network, state, buffer, bsLength, result, parsed, spoiled>>

(* resp_cmd_init.                                                          *)
NewResult == argc' = 0 /\ args' = <<>>

(* A new result, and a page unless the last command left one.             *)
Clean ==
  /\ pc = "clean"
  /\ NewResult
  /\ UNCHANGED <<network, bsLength, parsed, spoiled>>
  /\ \/ /\ length = 0
        /\ NewPage(PageSize, "clean")
        /\ UNCHANGED state
     \/ /\ length > 0 /\ start = end
        /\ Fill("clean")
        /\ UNCHANGED state
     \/ /\ start < end
        /\ IF Byte(start) = Star
           THEN state' = "ary" /\ pc' = "ary" /\ start' = start + 1
           ELSE pc' = "error" /\ UNCHANGED <<state, start>>
        /\ UNCHANGED <<base, end, length>>

(* BS_INIT: the next bulk string.                                          *)
NextString == bsLength' = 0 /\ state' = "pre" /\ pc' = "pre"

(* The number of arguments.  The byte after its line must be there, too.   *)
AryStart ==
  LET body == AfterDigits(start) + 2 IN
  /\ pc = "ary"
  /\ UNCHANGED <<network, parsed>>
  /\ \/ /\ Terminated(2) /\ LineEnds(start) /\ Byte(body) = Dollar
        /\ argc' = Number(start)
        /\ start' = body
        /\ NextString
        /\ UNCHANGED <<base, end, length, args, spoiled>>
     \/ /\ Terminated(2) /\ ~(LineEnds(start) /\ Byte(body) = Dollar)
        /\ Fail
     \/ /\ ~Terminated(2) /\ end - start >= MaxChars
        /\ Fail
     \/ /\ ~Terminated(2) /\ end - start < MaxChars
        /\ Fill("ary")
        /\ UNCHANGED <<state, bsLength, result, spoiled>>

(* The dollar of a bulk string, on a new page if this one is used up.      *)
BsStartPre ==
  /\ pc = "pre"
  /\ UNCHANGED <<network, parsed>>
  /\ \/ /\ start < end /\ Byte(start) # Dollar
        /\ Fail
     \/ /\ start < end /\ Byte(start) = Dollar
        /\ start' = start + 1
        /\ state' = "bs" /\ pc' = "bs"
        /\ UNCHANGED <<base, end, length, bsLength, result, spoiled>>
     \/ /\ start >= end /\ end < length
        /\ Fill("pre")
        /\ UNCHANGED <<state, bsLength, result, spoiled>>
     \/ /\ start >= end /\ end >= length
        /\ NewPage(PageSize, "pre")
        /\ UNCHANGED <<state, bsLength, result, spoiled>>

(* The page ends inside a length, and not just before its last digit: the  *)
(* two parts will not be put together rightly.                             *)
BadSplit ==
  /\ start < end
  /\ ~(Stream[base + end + 1] <= 9 /\ Stream[base + end + 2] = CR)

(* Mutant of WholeLength: the digits on the page before are dropped.       *)
LastPartOnly(i) == Number(i)

(* A length whose first digits, if any, were on the page before.           *)
WholeLength(i) == bsLength * (10 * (AfterDigits(i) - i)) + Number(i)

BsStart ==
  /\ pc = "bs"
  /\ UNCHANGED <<network, parsed, state>>
  /\ \/ /\ Terminated(1) /\ LineEnds(start)
        /\ bsLength' = WholeLength(start)
        /\ start' = AfterDigits(start) + 2
        /\ pc' = "body"
        /\ UNCHANGED <<base, end, length, result, spoiled>>
     \/ /\ Terminated(1) /\ ~LineEnds(start)
        /\ Fail
     \/ /\ ~Terminated(1) /\ end - start >= MaxChars
        /\ Fail
     \/ /\ ~Terminated(1) /\ end - start < MaxChars /\ end # length
        /\ Fill("bs")
        /\ UNCHANGED <<bsLength, result, spoiled>>
     \/ /\ ~Terminated(1) /\ end - start < MaxChars /\ end = length
        /\ bsLength' = Number(start)
        /\ spoiled' = (spoiled \/ BadSplit)
        /\ NewPage(PageSize, "bs")
        /\ UNCHANGED <<argc, args>>

(* Does the string fit into the rest of the page?  If not, it gets a page  *)
(* of its own, which starts after the bytes already received.              *)
Body ==
  /\ pc = "body"
  /\ UNCHANGED <<network, parsed, bsLength, argc, args>>
  /\ \/ /\ length - start >= bsLength + 2
        /\ state' = "fit" /\ pc' = "fit"
        /\ UNCHANGED <<buffer, spoiled>>
     \/ /\ length - start < bsLength + 2
        /\ state' = "big"
        /\ spoiled' = (spoiled \/ start < end)
        /\ NewPage(bsLength + 2, "big")

(* Mutant of BodyReceived: one byte more is awaited.                       *)
BodyAndMore == end - start > bsLength + 2

(* The string and its CR LF are in the page.                               *)
BodyReceived == end - start >= bsLength + 2

Fit ==
  /\ pc = "fit"
  /\ UNCHANGED <<network, parsed, state, bsLength, argc, spoiled>>
  /\ LET last == start + bsLength IN
     \/ /\ ~BodyReceived
        /\ Fill("fit")
        /\ UNCHANGED args
     \/ /\ BodyReceived
        /\ Byte(last) = CR /\ Byte(last + 1) = LF
        /\ args' = Append(args, <<base + start, bsLength>>)
        /\ start' = last + 2
        /\ pc' = "finish"
        /\ UNCHANGED <<base, end, length>>
     \/ /\ BodyReceived
        /\ ~(Byte(last) = CR /\ Byte(last + 1) = LF)
        /\ pc' = "error"
        /\ UNCHANGED <<args, buffer>>

Big ==
  /\ pc = "big"
  /\ UNCHANGED <<network, parsed, state, bsLength, argc, spoiled>>
  /\ \/ /\ ~BodyReceived
        /\ Fill("big")
        /\ UNCHANGED args
     \/ /\ BodyReceived
        /\ args' = Append(args, <<base, bsLength>>)
        /\ base' = base + end /\ start' = 0 /\ end' = 0 /\ length' = PageSize
        /\ pc' = "finish"

(* BS_BODY_FINISH: another argument, or the command is yielded: DONE, with *)
(* no page, or MORE, with the rest of the page moved to the start of a new *)
(* one, and packet_reciever parses on at once.                             *)
Finish ==
  /\ pc = "finish"
  /\ UNCHANGED <<network, result, spoiled>>
  /\ \/ /\ Len(args) < argc
        /\ NextString
        /\ UNCHANGED <<buffer, parsed>>
     \/ /\ Len(args) >= argc
        /\ parsed' = Append(parsed, args)
        /\ state' = "clean"
        /\ base' = base + start
        /\ start' = 0
        /\ end' = end - start
        /\ IF start = end THEN length' = 0 /\ pc' = "idle"
                          ELSE length' = PageSize /\ pc' = "clean"
        /\ UNCHANGED bsLength

-----------------------------------------------------------------------------
Parse == Call \/ Clean \/ AryStart \/ BsStartPre \/ BsStart \/ Body \/ Fit \/ Big \/ Finish

Next == Deliver \/ HangUp \/ Parse

(* The parser runs when the socket is readable; nothing is assumed of the  *)
(* client.                                                                 *)
Spec == Init /\ [][Next]_vars /\ WF_vars(Parse)

-----------------------------------------------------------------------------
(* Every variable keeps its type, and what was received is never ahead of  *)
(* what arrived nor beyond the page (the asserts of rp_fill_remaining).    *)
TypeOK ==
  /\ arrived \in 0 .. Len(Stream) /\ gone \in BOOLEAN
  /\ pc \in {"idle", "clean", "ary", "pre", "bs", "body", "fit", "big", "finish",
             "error", "closed"}
  /\ state \in {"clean", "ary", "pre", "bs", "fit", "big"}
  /\ base + end <= arrived
  /\ start \in Nat /\ end \in 0 .. length /\ length \in Nat
  /\ bsLength \in Nat /\ argc \in Nat
  /\ Len(args) <= argc
  /\ spoiled \in BOOLEAN

(* However the stream is cut into reads and pages, the parser yields the   *)
(* commands the client sent, in order, with every argument where it is in  *)
(* the stream and as long as it is; it refuses none but the empty array.   *)
(* The exceptions, `spoiled`, are a length that ends with its page and a   *)
(* bigbuf allocated after some of its bytes were received.                 *)
CommandsParsed ==
  \/ spoiled
  \/ /\ IsPrefix(parsed, ArgumentsOf[commands])
     /\ pc = "error" => commands[Len(parsed) + 1] = <<>>

(* A command is yielded once its last byte has arrived: the parser never   *)
(* waits for bytes of a later command, which the client may be holding     *)
(* back until it has the reply.                                            *)
Complete(k) ==
  /\ k <= Len(commands)
  /\ <<>> \notin ToSet(SubSeq(commands, 1, k))
  /\ arrived >= EndsOf[commands][k]
Longest == Max({Len(cs) : cs \in Inputs})
PromptlyParsed == \A k \in 1 .. Longest : Complete(k) ~> (spoiled \/ Len(parsed) >= k)
=============================================================================
