# A TLA+ verification of the multi-threaded HTTP/1.1 server

The server is a C program of about 2 600 lines: a main thread accepts TCP
connections and hands them to a fixed pool of workers through a circular queue;
a worker serves all requests of one connection (parse, serve a static file,
keep the connection alive) and then takes the next.  This directory models its
concurrent and protocol core in TLA+, checks the models with TLC and proves
their main properties with TLAPS for every size of pool, queue, buffer and
every number of connections and requests.

## 1. Inventory of the system

| component | source | state | operations | interaction |
|---|---|---|---|---|
| work queue | `thread_pool.c/h` (`WorkQueue`, `queue_*`) | `items[]`, `head`, `tail`, `count` | push, pop, is_full, is_empty | only under the pool's mutex |
| thread pool | `thread_pool.c/h` | mutex, `not_empty`, `not_full`, `shutdown`, `active_workers`, threads | `thread_pool_init`, `_submit`, `_destroy`, `worker_thread` | main produces, workers consume; workers call `handle_client` |
| accept loop and shutdown | `server.c/h` | `g_running`, `server_fd`, client descriptors | `main`, `signal_handler`, `setup_signals`, `create_server_socket`, `handle_client` | calls the pool; interrupted by signals; the kernel queues connections |
| connection loop | `keep_alive.c/h` | `buf`, `total`, `req_count`, the socket's timeout | `handle_connection`, `dispatch_request`, `http_request_consumed_bytes` | called by workers; calls parser and file server; owns the descriptor |
| HTTP parser | `http_parser.c/h` | none (fills an `HttpRequest`) | `parse_http_request`, `parse_request_line`, `parse_header_line`, `http_get_header` | called on the whole buffer after every `recv` |
| static file server | `file_server.c/h` | none of its own; the file system | `serve_static`, `resolve_safe_path`, `get_mime_type`, listing | called once per request; writes through the response builder |
| response builder | `http_response.c/h` | an `HttpResponse` on the stack | init, add_header, send_headers, send_body, sendfile, error | writes to the socket |
| chunked encoder | `chunked.c/h` | `ChunkedWriter` (`bytes_sent`, `error`) | `chunked_send_body`, `chunked_writer_init`, `_send`, `_finish` | writes to the socket; called by tests only |
| configuration | `config.c/h` | `ServerConfig` | parse, print | `main` uses the port; threads, root and timeout are only printed |
| tests, fuzzer, benchmark results | `test_*.c`, `fuzz_parser.c` | - | - | - |

What is hard in it:

* **Concurrency.** One mutex, two condition variables, signal versus broadcast,
  spurious wakeups, workers that overtake the one that was woken.
* **Shutdown.** A flag set in a signal handler, `EINTR` from `accept`, a pool
  that has to drain its queue, joins in order, descriptors to be closed once.
* **Backpressure.** A full queue blocks the only thread that accepts.
* **A byte stream without boundaries.** Requests arrive in any pieces, several
  in one piece; buffer, parser and sliding window must agree on where each ends.
* **Peers that fail.** Silence at any byte, FIN, reset; writes to a dead peer.
* **Time of check to time of use** between `stat`, `open` and `sendfile`.

What makes each component correct: the queue is FIFO; the pool serves every
connection exactly once, in order, loses no wakeup and drains on shutdown; the
accept loop owns each descriptor exactly while its connection is in flight and
stops on a signal; the connection loop answers the requests of a stream one for
one and in order whatever the segmentation; the parser's verdict does not
depend on how bytes arrived and is the one the client meant; a response's body
is as long as its header says; a chunked body is read as what was handed over, and
its end is seen only when nothing is missing.
`PROJECT.json` lists the hazards line by line with the properties for each.

## 2. Plan

1. *done* - `WorkQueue`, `ThreadPool`, the abstract `PoolService`, refinement
   and proofs.
2. *done* - `Server`: the accept loop composed with the pool; proofs.
3. *done* - `KeepAlive`: the connection loop; proofs.
4. *done* - `HttpParser`: the parser on bytes; `RequestReader`: the same parser
   under the receive loop, compared with what the client meant and with the
   view of the parser that `KeepAlive` takes; proofs.
5. *done* - `FileServer` with `HttpResponse`: one call of `serve_static` among
   files that change, short and failing writes; proofs.
6. *done* - `Chunked` and the abstract `BodyStream`.
7. *dropped* - `Config`: one scan of `argv` before anything runs; only the port
   has an effect, and a model could only repeat the scan.
8. *left* - composition: an abstract "one well-framed response per request"
   that `FileServer` implements and `KeepAlive` rests on.
9. *done* - proofs about data and counting: `NoRequestAbandoned`,
   `DescriptorsBounded`, `RootRespected`, `Truthful` and the refinement of
   `BodyStream` by `Chunked`.
10. *done* - proofs about `RequestReader`: `AsMeant`, `AgreesWithKeepAlive` and
   `RoundTrip` (what the parser stored, written out again, parses to the same), from an
   invariant of the header loop over a whole message.

## 3. Modules

| module | what it is |
|---|---|
| `WorkQueue` | the ring and its helpers as operators |
| `ThreadPool` | the pool as a state machine |
| `PoolService` | abstract specification of the pool: a bounded waiting room |
| `Server`, `MCServer` | the accept loop around `ThreadPool`; its small instances |
| `KeepAlive`, `MCKeepAlive` | the connection loop; its streams for TLC |
| `HttpParser` | the parser as operators on the buffer |
| `RequestReader`, `MCRequestReader` | the parser under `recv`, against what was meant; the messages for TLC |
| `HttpResponse` | the response writer: header block, body loops |
| `FileServer`, `MCFileServer` | `serve_static` on top of it; the instance for TLC |
| `Chunked` | the chunked encoder, the socket and a decoder |
| `BodyStream` | abstract specification of a body sent in pieces |
| `WorkQueueProofs`, `ThreadPoolProofs`, `ServerProofs`, `KeepAliveProofs`, `HttpParserProofs`, `FileServerProofs`, `ChunkedProofs` | theorems and proofs |
| `CommonLemmas` | lemmas they share: least elements, induction, recursive functions, concatenation |

Definitions marked *Faulty variant* are plausible mistakes in the code they
stand before; they are used by no specification and serve to show that a
property notices them (`mutants` in `PROJECT.json`).

### ThreadPool

Threads are main (0) and the workers; `pc` is where each is, `mutex` its owner,
`not_empty` and `not_full` the threads asleep on a condition variable.  An
action runs from one acquisition or release of the mutex (or blocking call) to
the next, so the unlocked read in `thread_pool_destroy` and the three parts of
`pthread_cond_wait` (release and sleep, wake, reacquire) are separate steps.
`pthread_cond_signal` wakes one sleeper chosen nondeterministically,
`SpuriousWakeup` any sleeper at any time.  A connection is its number in the order of
`thread_pool_submit` calls; `served` and `rejected` record what became of it.

`PoolService` says what a user of the pool may rely on: `Admit` in order up to
the capacity, `Begin` by a free worker on the oldest, `Finish`, `Close`, and
`Stop` only when everyone was served.  `ThreadPool` is shown to refine it.

### Server

`EXTENDS ThreadPool`; while `pc[Main]` is `"idle"` main is in `server.c` and
`acc` says where: before the loop test, before `accept` blocks, asleep in it,
leaving, or gone.  `thread_pool_submit` and `thread_pool_destroy` are called
only from there.  `open` and `fd` are the descriptor table, `backlog` the
kernel's queue.  A signal clears `g_running` wherever main is; it interrupts
`accept` only when main sleeps in it and the signal is delivered to main.
`SignalTargets` says which threads may get it: POSIX allows any thread, Linux
picks the main thread when it does not block the signal, so safety is checked
for any thread and liveness for main.  `accept` may also fail because of a
connection that vanished, or for want of a descriptor.  In this program main
calls destroy only after its last submit has returned, so the branch of submit
that rejects a connection after shutdown (modelled with its `close`) is not taken.

### KeepAlive

A byte is its position in what the client sends, so the buffer is a sequence of
positions and lost, repeated or shifted bytes are visible.  A stream gives for
every request where its `\r\n\r\n` and its body end, whether its head is well
formed and the `keep_alive` flag its version and headers lead to, and whether the
client pipelines; this is all
the loop learns from the parser.  `parse_http_request` finds the first
`\r\n\r\n` in the buffer and judges the head it ends.  What the real parser
makes of a window that does not start at a request depends on the bytes;
the model takes the worst, `PARSE_ERROR`.  `WindowAligned` is proved, so no such
window occurs, and for windows that do start at a request
`AgreesWithKeepAlive` compares this view with the parser itself.  The client sends any
number of bytes at a time (`Send`), pipelined or
only after the previous answer, and leaves by FIN or reset at any point
(`Leave`).  `recv` returning `EINTR` changes nothing and is a stuttering step.
`armed` says whether `set_recv_timeout` succeeded; its failure is logged and ignored.
`Dispatch` chooses between a served response, with the Connection header the
request asks for, and an error page, which always says `close`.

### HttpParser and RequestReader

The parser is a pure function of the buffer, so it is modelled as operators that
follow `parse_http_request` step by step: the separator, the request line, the
header lines, the derived fields, the body.  A byte is a symbol: single characters
where the parser looks at characters (CR, LF, SP, TAB, `:`, `?`, digits, signs),
and one symbol for text that is only compared as a whole (`HTTP/1.1`, `close`,
a letter of a name); `Byte` is the set of them.  The loop over the header lines is a
function of the number of rounds (`parse_head`): a round takes the line at the cursor
(`HeaderRound`), so order, skipped lines and the first error are those of the code.  The limits of `http_parser.h` are constants; `tolower` is the
constant `lower`, and `strtoul`, of the C library, does what the standard says:
white space, sign, digits, saturation at `SIZE_MAX`, a minus modulo `SIZE_MAX + 1`.

`RequestReader` is the receive loop around it: `Recv` hands over a piece of any
length, and the whole buffer is parsed again; how the loop ends otherwise (buffer full, timeout, FIN,
errors) is in `KeepAlive`.  A message has its text and its
*meaning* side by side, both from tables in `MCRequestReader`, so what the parser
stores is compared with a reference that shares nothing with it.  That text and meaning of a
message belong together is said by a grammar (`IsRequestLine`, `IsTarget`, `IsHeaderLine`, after RFC 7230),
which speaks of the text as the parts put together and never of how to find them; of text called
malformed it says that no cut into parts exists.  `IsMessage` adds what Content-Length and
Connection mean, with the C library's `strtoul` and the comparison that ignores case.
`ReaderAssumption` requires this of every message, and TLC finds that it holds of the tables.
Requests without header lines are among the messages; the parser refuses them (see section 6), so
`AsMeant` asks for `Acceptable` messages, while `NoneRefused` does not.
Behind every message the next one follows on the connection.  `Junk` is bytes without a
meaning, where the parser has most to decide.  `KA` is `KeepAlive` on the stream of the
two messages: only its operators are used.

### FileServer and HttpResponse

One request, one action per system call of `serve_static`; between any two of
them other processes may create, remove or replace what the path and its
`index.html` name (`NameChanges`) and grow or cut the open file (`FileResized`).
`st` is what `stat` saw, `file_fd` the size of the file that was opened, which
need not be the same file, and `least` records the least size it has had.  The
writer counts bytes: `head` and `body` are what the socket took, `remaining` the
variable of the two loops.  `write` and `sendfile` take any part of what is
asked, `EINTR` in the loops is a stuttering step, and once the client is gone every
write fails.  Paths are sequences of names and names sequences of characters,
because `resolve_safe_path` compares text; `realpath` is external and yields
any path of a small set, or fails.  `RootRespected` compares the text test with
the prefix relation on names.  A name is not empty and has no `/` in it (`Chars` are the
other characters), as in every path `realpath` returns.  The document root is not `/`
(`FileAssumption`): there the character after the root's text is the first of a name, and the code answers
403 for everything but `/` itself.  A listing is its length, of those that fit the
64 KB buffer.  Opening a special file that replaced a regular one does not block in the
model, although opening a FIFO without a writer would.

### Chunked and BodyStream

A call hands over data bytes, numbered in order, and `out` is what it has
yet to write.  `Write` is a round of `write_all` in which the socket takes a byte (a
longer write is several rounds), `WriteFails` one in which `write` fails or returns
0.  It may fail once and work the next time, which is what `error` in the
`ChunkedWriter` is for, or for good once the client has gone (`ClientGoes`).  `client` decodes
what the socket took, by the grammar of RFC 7230, section 4.1.  Callers keep the
contract of `chunked.h`: `chunked_writer_finish` is called once, after
the last send.  Sizes are written in base `Base`, 16 in the code; `Digits` is what
`%zx` prints, by repeated division, while the decoder multiplies.

`BodyStream` is what the reader of a body may rely on: its bytes in order, each
once, and an end that is not seen before the sender has finished, nor with bytes
missing.  `Chunked` refines it with `got` and `ended` taken from the decoder.

## 4. What TLC checks

| run | instance | result |
|---|---|---|
| `pool_safety` | 3 workers, 2 slots, 5 submits | mutual exclusion, FIFO, exactly once, no lost wakeup, backpressure only when full, graceful drain, shutdown final, refinement of `PoolService` |
| `server_safety` | 2 workers, 1 slot, 5 connections, 5 descriptors | ownership of descriptors, at most slots + workers + 1 in use, at most one connection after the signal, clean exit |
| `server_liveness` | 2 workers, 1 slot, 3 connections, 2 descriptors, fair | arrivals are accepted, also after `EMFILE`; every submitted connection is served; submit and destroy return; signals outside the race below end the process |
| `server_signal` | violation | a signal between the loop test and `accept` is not noticed |
| `keepalive_safety` | streams of 2 and 3 requests, 12-byte buffer, limit 2, fair | bounds, alignment, order, refusals, close and limit; a client that waits is not left without its answer; connections end |
| `keepalive_pipelining` | violation | a pipelined request that is complete in the buffer is not answered |
| `keepalive_error_page` | violation | the connection stays open after `Connection: close` |
| `parser_safety` | 10 request lines, 15 header fields, none to three to a message; junk of 4 symbols | the verdict is independent of segmentation, is the one that was meant, comes with the last byte, survives a round trip, and is the one `KeepAlive` assumes |
| `parser_bare` | violation | a request without header lines is refused |
| `file_safety` | root `/w` beside `/w2` and `/x`, files of at most 2 bytes, pages and heads of 2, fair | bodies agree with Content-Length, files are closed, only paths in the root are accepted, `serve_static` returns |
| `file_head` | violation | listings and error pages are sent with a body for HEAD |
| `chunked_safety` | base 2, up to 4 pieces of at most 4 bytes, fair | return values are true, refinement of `BodyStream`, calls return |

**Bounds.** Two slots and five submits wrap the ring twice and fill it; three
workers are enough for one to be woken, one to overtake it and one to sleep.
In `server_safety` at most 4 descriptors can be in use; there is one more,
so the claim is not a consequence of the instance, and five connections
exceed what can be in flight, so numbers are reused.  In `server_liveness` there are
fewer descriptors than main, queue and workers can hold, so `EMFILE`
happens; main finds the ring full there only before a worker has come to take its item,
that it waits while every worker is busy is a case of `server_safety`.  The buffer of `KeepAlive`
holds two short requests and part of a third, or exactly one large one; the kinds
of request include one too long by a byte in its body, one in its head, a malformed
one and one asking to close.  An ending request is put first or second, and a
pipelining client sends a third behind them, which the limit of two
must leave unanswered.  Descriptors are a symmetric set in the safety
run; workers are not (they are joined in order), and no run with liveness uses
symmetry.  `MaxSubmits`, `MaxSends` and the length of streams bound otherwise endless behaviour.
In the parser's instance methods have at most 2 symbols, header names 2, paths and
values 3, and messages 2 headers: each limit is reached exactly and passed by one.
`SIZE_MAX` is 99, so that two digits fit and three do not, and -1 is the largest number.
Sizes up to 2 let a file be empty, equal, longer and shorter by one and by two than
what `stat` saw, and every write be short; `w2` is the sibling whose name starts
with the root's, and paths also lie above the root and below another directory of its name.
In base 2 the sizes up to 4 have one to three digits, some of them 0 inside a size.

**Fairness.** Every thread that can take a step outside the mutex eventually
does (weak fairness: the operating system schedules runnable threads).
Acquiring the mutex gets strong fairness, as it is enabled only now and then:
this is the assumption that the mutex starves nobody, which pthreads do not promise
in general but which holds in practice for critical sections this short.  The
`handle` step of a worker is fair, that is `handle_client` returns:
`ConnectionEnds` justifies this for the receiving side when `SO_RCVTIMEO` could be set; without
it the connection ends once the client has gone.  The
writes of a response are assumed to return
(no send timeout is set, see the hazards).  In the same way the weak fairness of
`serve_static` and of the chunked encoder's writes says that the worker runs and that
a client which stays connected
takes bytes; others may change the files all the while.  Clients, signals, `accept` errors, spurious
wakeups and the callers of the chunked encoder get no fairness.

## 5. What is proved

All theorems hold for all values of the constants that satisfy the named
assumptions: `CapacityAssumption` and `PoolAssumption` (at least one slot and
one worker), `ServerAssumption` (a positive backlog, signals go to some
thread), `KeepAliveAssumption` (requests of a stream lie one after the other
and end in a four-byte separator after at least one byte; the buffer has at
least two places), `ParserAssumption` (the delimiters and the versions are
symbols, the limits are natural numbers, and no header is not a value) and `ReaderAssumption` (the messages are ones of
the grammar, with a body as long as announced or announced longer than all that comes; junk is any
sequence of symbols), `ResponseAssumption` and `FileAssumption` (sizes are natural
numbers, a header block is not empty, names are not empty and have no `/`, the root is not `/`),
`ChunkedAssumption` (the base is at least two).

* **Ring** (`WorkQueueProofs`): push appends to, and pop removes the head of, the
  sequence the ring holds, wherever head and tail stand.
* **Pool** (`ThreadPoolProofs`): the invariants of `pool_safety` rest on `IndInv`: types,
  mutual exclusion, `Control` (what each place of main and the workers implies about
  shutdown, joins and what has been created), `Sleepers` (who sleeps where, and
  that nobody sleeps on `not_empty` once shutdown is set and broadcast), `Ring`
  (the queue holds the latest connections in order) and `Serving` (every other
  connection is with one worker or served).  The parts are needed because none of the
  properties is inductive alone: exactly-once, for example, needs the order of
  the ring to know that what a worker pops is not what another holds.
  `NoWakeupLost` counts: while someone sleeps, the workers awake are at least
  as many as the items queued.
* **Refinement of the pool** (end of `ThreadPoolProofs`): every step of the pool is a step of
  `PoolService` or leaves it unchanged.
* **Server** (`ServerProofs`): `UsesPool` shows that every behaviour of the server is one
  of the pool, so the pool's theorems carry over.  `ServerInv` adds where main may
  be while the pool is in each phase, that `late` counts only the accept after the last
  test of the flag, and ownership of descriptors.  `DescriptorsFew` counts: the connections
  in flight lie in the ring, of which the pool's `Ring` says it holds at most `capacity`, with
  a worker, one each by `Serving`, or with main, which has one at most.
* **Connection loop** (`KeepAliveProofs`): the key lemma, `ParseAligned`, says what
  the parser makes of a window that starts with request k.  `IndInv`
  has `Reading` (between requests the window starts at the next one and is full
  only if that one is incomplete) and `Answering` (it still starts with the request
  being answered, all of which is there).  From these follow bounds,
  alignment, order, justified refusals and the honouring of close and limit.
  `NoneAbandoned` needs more (`WaitInv`): a client that waits has sent no byte behind the
  request it has yet to be answered (`HeldBack`), so nothing of the next request is received
  while one is answered, and the next is incomplete while it is read (`OneAtATime`).
  Without the second half a timeout could find a complete request in the buffer, which is just
  what `keepalive_pipelining` shows for a client that does not wait.
* **Parser** (`HttpParserProofs`): for every input and all limits, a verdict other than
  "incomplete" stays the same when more bytes come (`VerdictStays`); an accepted
  request lies within the bytes received (`AcceptedFits`), so the window is never moved
  past its end; and what was read does not depend on the pieces (`Independence`).  The
  argument: the first separator stays the first one, so the head is the same, and the body
  is a prefix of what follows, of a length the head alone determines.
  `Faithful` is `AsMeant` for every set of messages of the grammar.  It goes from the grammar to the
  code line by line: a text is cut at the first delimiter in exactly one way
  (`CutIs`, `CutAt`), which makes the grammar's parts and the parser's the same
  (`StartVerdict`, `FieldVerdict`, both ways, so malformed lines are refused too).  A line feed in what is sent
  is the end of a line, and the head's separator is the first one (`FeedEndsLine`, `HeadFound`).  The
  invariant of the header loop (`Reached`) says that behind k header lines the request holds the
  first k fields and the cursor is at the next line, or there was an error, which stays
  (`NextRound`, `HeadOfMessage`); there are enough rounds because every line is longer than
  nothing (`FewerLines`).  For *any* head, `HeadVerdict` says that what is filled in keeps all limits, has a method and names that are
  not empty (a path may be) and no delimiter inside a part.  So it is a message again when written out, and
  `Faithful`'s lemmas apply to it: that is `Rewritable`, the round trip.  `ViewOfPositions` compares with
  `KeepAlive`: where a head ends and what is announced are the same numbers, so what
  `KeepAliveProofs` shows of positions rests on the parser's own verdict.
* **File server** (`FileServerProofs`): `FileInv` has `Accounting` (once a head is
  sent, `body + remaining` is the announced length), `Descriptor` (a file is open
  exactly from `open` to `close`, and `least` bounds it from below) and `Progress` (why
  each loop was left).  `Framed` is not inductive alone: that a transfer stopped at the end of
  the file says that the file was short *then*, and `least` keeps this while the
  file goes on changing.  `KeepsToRoot` is about the text test of `resolve_safe_path`: the
  text of a path is its names, each after a `/`, so if the root's text begins the
  path's and a `/` or the end follows, the two have the same first name (`SameName`: both
  run to the next `/`, and neither has one inside), the same second name, and so on through
  all names of the root.  The test on the character behind the prefix is needed for the last
  of them; without it `/w2` passes for `/w`.
* **Chunked encoder** (`ChunkedProofs`): `SpellsOut` says that a reader who multiplies by the base
  and adds digit after digit of `Digits[n]` arrives at n, for every n and base.
  `ChunkedInv` ties the decoder to the writer by `Position`: how far the bytes of a
  call have been taken determines where in the grammar the decoder is, how many bytes it
  expects and what it has got.  From it follow the truth of the return values and of
  `bytes_sent`, and that every step is a step of `BodyStream` or leaves it unchanged
  (`SendsABody`).  A write that fails leaves the decoder inside a chunk (`Midway`), and
  `error` keeps all later calls from writing behind it.

Functions defined by recursion over numbers (`Digits`, `Text`) are reasoned about without an
induction rule that takes a predicate, which the installed provers cannot instantiate:
`CommonLemmas` shows from well-founded sets that a set of numbers has a least
element, so a least counterexample, a *set*, takes the place of the predicate
(`Induction`); and that a function which calls itself on a smaller number exists and has
the values its definition says (`Recursion`).

Checked by TLC only: liveness, as fairness and `ENABLED` are beyond the prover.  Every invariant of a
passing run is proved, and so are the action properties and the refinements.  What
`strtoul` computes from digits (a fold) is checked on the table of `MCRequestReader` and not proved: the theorems use
only that its result is at most `SIZE_MAX`.  `AsMeant` as a theorem takes the meaning of a
Content-Length to be what `strtoul` returns; that this is the number written is what the table says.

## 6. Where code and documentation disagree

The violation runs and the `findings` of `PROJECT.json` quote the lines.  In
short: a shutdown signal can be missed; pipelined requests stall; the
connection survives a response that says `close`; a request without header
lines is refused; and HEAD gets a body with
listings and error pages.  Seen on the way and not given a run:

* the request limit closes after a response that said `keep-alive` (`keep_alive.c:294`; the
  comment at line 48 says that the client always knows the state);
* `thread_pool_destroy` reads `queue.count` outside the mutex for its log line
  (`thread_pool.c:241`; RULE 1 at line 9);
* `active_workers`, "count of live
  threads" in `thread_pool.h`, is never decremented (nothing reads it);
* a header line of one character is skipped like an empty one, not refused (`http_parser.c:262`);
* a Content-Length with a sign or with characters behind its digits is accepted as what `strtoul`
  makes of it, and one without digits counts as 0 (`http_parser.c:284`); nothing in the repository
  says what the server should do;
* white space behind a value is kept, although line 146 of `http_parser.c` has it on both
  sides, and white space in a name is accepted, although line 165 allows none;
* `chunked_send_body` returns the data bytes, where `chunked.h` speaks of bytes written, and
  `http_response_set_chunked`, which `chunked.h` describes, is not declared.

## 7. Not modelled

Failures of `pthread_*`, `socket`, `bind` and `listen` during start-up (the process
exits before the initial state), logging, MIME types and dates, `http_request_print`.
NUL bytes in a request, which end the strings the parser stores early.  A listing of
more than the 64 KB of its buffer, where the code's own count goes wrong
(`file_server.c:260`).  The configuration: `config_parse` is one sequential scan before
any thread runs, and all but the port is only printed.  Tests, fuzzer and
benchmarks are drivers of the code above.
