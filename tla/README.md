# TCPClientServer in TLA+

A client reads arithmetic problems from a file or from stdin and sends them, one at a
time, over TCP (with or without SSL) to a server, which answers each. This directory
models the client, the server and both together, model-checks them with TLC, and proves
their main safety properties with TLAPS. Paths below are relative to the repository;
`Framework` is `ClientServerFramework`, `Calculator` is `ClientServerCalculator`.

## Inventory

| component | state | operations | interacts with |
|---|---|---|---|
| scraper thread: `Framework/Client/Scraper.hpp`, `Calculator/TCPClient/DataScraper.*` | the `std::istream` and its sticky state bits | `start`, `get_datum`, `write_datum`, `operator bool` | pushes to the queue; its stream is read by the main thread, without a lock |
| shared queue: `SafeQueue.hpp`, `Singleton.hpp` | a deque and its mutex, static | `empty`, `front`, `pop`, `push`, a lock each | both client threads |
| client main thread: `Client.hpp`, `Connector.hpp`, `ClientConnection.hpp` | `connection_ok`, `data`, the socket | `start`, `listen`, `open`, `send` | the queue, the scraper's stream, the socket |
| framing: `Connection_base.hpp` | one inbound and one outbound header and buffer | `read`, `write`, `async_read`, `async_write` | the socket strategy and the filter |
| socket strategies: `SSL_IO.hpp`, `UnsecuredIO.hpp`, `SSL.hpp`, factories | the socket, the SSL context | `connect`, handshake, accept, read, write | boost::asio |
| server: `AsyncServer.hpp`, `Session.hpp`, `ServerConnection.hpp` | acceptor; per session `cdata_`, `response_` and its connection; the static `count` | `do_accept`, `do_initialize`, `do_receive`, `do_reply` and their handlers | `io_service`, one thread |
| filters: `CompressionFilter.hpp`, `DefaultFilter.hpp` | none | `input_filter`, `output_filter` | framing |
| strategies: `ServerAction.hpp`, `ClientActions.hpp`, data types | the static `padding` | the computation; the output and the assertion on the padding | session; client |
| programs: the two `main` | none | creation, the `catch` clauses, exit | all |
| `Calculator/DataGenerator/DataGenerator.cpp` | a random engine, how many data it has written | writes data, each flushed, NOP lines on purpose | its output, a file or a pipe that grows while the scraper reads it, is the client's input |

What is hard in this code, and what makes it correct:

* *Two threads, one queue, one stream.* `empty`, `front` and `pop` lock separately,
  `front` returns a reference that is copied after its lock is released (`Client.hpp:132`),
  the state of the stream is read with no lock, and the check at `Client.hpp:187` looks at
  the two one after the other. Correct means: never `front` or `pop` on an empty queue;
  what was scraped is answered in order, once; the client does not stop with work left
  (this one fails, see below).
* *Failures and retries.* Some error codes make the client reconnect and send the same
  item again, others end it. Correct means: an item survives a retry, the response read
  is the response to it, the server executes it again at most once per failure.
* *Input.* Blank, malformed, truncated and oversized lines, a last line without newline,
  a pipe that is still being written and whose writer may die.
  Correct means: records are scraped in order, each once, and nothing else is.
* *Interleaved sessions.* Handlers of all sessions share one thread and one queue of
  handlers; a session shares its buffers between its operations and lives only as long
  as a handler captures it. Correct means: one operation at a time, no message lost or
  crossed, one acceptor armed, no session leaked. An exception in a handler ends the server
  for everybody: correct means that nothing but the messages that make a handler throw does
  so (a header that is too large a number, a body that does not decode, an unknown
  operation), and a failed handshake.
* *Lifetime.* The scraper thread is detached and outlives what it uses.

* *Both programs.* The client counts on a server that answers in order and once what it
  has read; the server shares one thread among clients of which it knows nothing.

## Modules

| module | what it models |
|---|---|
| `Scraper` | the scraper thread, from `getline` to `push` |
| `DataGenerator` | the generator, in a pipe with `Scraper` |
| `SafeQueue` | the queue with its mutex and its memory, and the two threads that use it |
| `AtomicQueue` | the abstract specification of `SafeQueue` |
| `Wire` | TCP connections, message by message, as the two programs observe them (external) |
| `Client` | `Client::start` and `listen` with the scraper thread, the wire, and a server that answers |
| `OrderedDelivery` | the abstract specification of the client |
| `Server` | `AsyncServer`, its `Session`s and `io_service.run()`, with arbitrary clients |
| `System` | `Client` and `Server` over one `Wire`, with other clients |
| `Framing` | one direction of `Connection_base`, byte by byte |
| `MessageChannel` | the abstract specification of `Framing` |
| `ScraperProofs`, `PipeProofs`, `SafeQueueProofs`, `ClientProofs`, `ClientGuarantees`, `ServerProofs`, `FramingProofs`, `SystemProofs` | theorems |
| `MCScraper`, `MCClient`, `MCServer`, `MCSystem`, `MCFraming` | finite instances for TLC |

How they compose: `DataGenerator` EXTENDS `Scraper`; `Client` EXTENDS `Scraper` and `Wire`;
`Server` EXTENDS `Wire`; `System` EXTENDS `Client` and `Server`.

Operators whose name has an underscore (`Poll_Blindly`, `AcceptHandler_Once`, ...) are
bugs put in on purpose, each standing before the definition it would replace. No
specification uses them. They show that each checked property can be broken by a
plausible mistake in the code.

### Scraper

An item is the number of its line; a line is its *kind*, that is, what `get_datum` makes
of it, and whether it fits the buffer. `flags` is `is_.rdstate()`. One step of `GetDatum`
is one `getline` with the parsing of what it read, which is local; `AfterParsing` is the
set of outcomes, with both for a line that leaves `op` uninitialized. `EndOfInput` is the
`getline` that extracts nothing and sets eofbit and failbit. When the last line is not
terminated only eofbit is set and `start()` goes round `out_of_data` for ever; that loop
changes nothing and is a stutter of the model. `file` is the input as far as it has been
written: no action of `Scraper` changes it, `DataGenerator` appends to it.

### DataGenerator

`PrintDatum` is one `cout << datum`, which ends and flushes a line, `PrintEndl` the `endl`
of `main()`, a blank line. `operations` remembers what was drawn for each id. `ReaderStep`
is the scraper's, except that `EndOfInput` waits until nobody holds the other end of the
pipe. `GeneratorKilled` may come at any time; only whole lines are in the pipe then, because
every line is flushed as one. With `data_size = 0` there is no generator and `PipeSpec` is
`ScraperSpec` over a fixed input, so that one run covers both.

### SafeQueue

`at[t]` is where thread `t` is in a call (`away`, waiting to `lock`, `inside`, `halfway`,
about to `unlock`). The deque is `contents`, a sequence of cells; constructing an item in
a free cell takes two steps, and at the end of the second the cell is linked; an item is
destroyed in one step and its cell unlinked in the next.
`Front` stores a cell in `ref`; `CopyBegins` and `CopyEnds` read it with no lock, as
`auto data = queue.front()` does, and see garbage if it has changed in between. That it has
not is `NoDataRace`: pushing moves no item of a deque, and nobody but the copying thread
pops. `AtomicQueue` is the queue as `Scraper` and `Client` use it, one step for a method.

### Client

`pc` follows `listen()`: `poll` (`empty`), `front`, `write`, `read`, `pop`, `more`
(`keep_alive_ || !queue.empty()`), `stream` (`|| scraper_`), then `open` or `returned`;
`threw` is an exception that reaches `main`. One step is one access to the queue, the
stream or the socket, so that the scraper thread runs between any two. `lifetime` follows
`main` afterwards: the client is destroyed, then the statics, then the process. Errors are
of two classes, as in the `switch` of `listen()`: `SendBroken` (retried) and `SendThrows`;
a broken connection may give either, because which code it gives is up to the kernel, and
a server that closed gives end of stream, which is not among the codes retried and throws
(`Client.hpp:174`). With SSL a connection is of use only after `Handshake`, for which the
server must have accepted; `HandshakeFails` throws. `transmission_status == BAD` is not
modelled, since `Session` sets `OK` before every reply.

The server in `Client` is only what a client observes: it accepts (`ServerAccepts`), takes a
request in hand (`ServerReads`, which counts an execution), answers what it has in hand
(`ServerWrites`), or gives a connection up (`ServerDrops`); it may crash and be restarted.

### Server

`op[s]` is the operation that session `s` has started. An operation *completes*
(`AcceptCompletes`, `HeaderCompletes`, ...) when the connection allows it, at any moment
and in any order between sessions, and then its handler is in `ready`; `RunHandler` takes
the first one and runs it whole, as `io_service.run()` does. An exception that leaves a
handler is `Terminate`; a handler that starts nothing is `EndSession`, because nothing
captures the session any more. The number of sessions is bounded only by the number of
connections and failures. Clients connect, send messages of any kind of `RequestKinds`
(pipelined, up to `MaxUnanswered[k]`), read, close, and break at any time. The kinds are what
the server can make of a message: a `request`; a `header` that is no hexadecimal number,
which ends the session; a `size`, that is, a header that is one but that `resize()` refuses
(`-1` is read as the largest `size_t`), a `body` that does not decode and an unknown
`operation`, each of which makes the handler throw, so that the server ends; and `cut`, a
message that the client does not finish, which ends the session.

### System

`ByClient(step)` is a step of the client's two threads, `ByServer(step)` one of asio or of a
handler, `OthersStep` one of a client of which nothing is assumed. The variable `hand` of
`Client` is what the sessions hold (`BeingServed`), and `executions` counts what they take.
`seen` counts the failures that this client can see: those of its own connections, and every
end of the server, whether it was killed, another client's message made it throw, or a
handshake failed. `SessionsServeClient` is the refinement: with `seen` for `faults` and the
connections of this client for all of them, every step of the two programs is a step of
`Client` or a stutter. It discharges what `Client` assumes of its server; only a bound is
different, since the server may end more often than something fails (`OwnFaults`).

### Framing

A byte is known by where it comes from: which message, header or body, and where in it.
`write` and `async_write` put a header and a body on the wire, unless the size has too many
digits. `read` and `async_read` take one byte at a time into `inbound_header_` and
`inbound_data_`; what `asio::read` transfers at once is several such steps. `Cut` leaves any
prefix of what is on the wire. `async`, which the initial state chooses and no step changes,
is the end of the system that reads: the server hands the error of a body on, and has new
buffers for each connection; the client decodes what is in the buffer although `ec` is set
(which throws, or does not), and keeps its buffers when it reconnects, `resize()` keeping
the old bytes in them. What a mixture of bytes decodes to is `NoMessage`, which nobody
wrote. `Client` and `Server` take a message as one unit; `MessageChannel` is the
justification.

## Runs

| run | question | instance |
|---|---|---|
| `safequeue` | data races, atomicity of the methods, release of the mutex, every item seen | 4 items, 4 cells |
| `scraper_input` | order, completeness, liveness of scraping, from a file and from a pipe | every input of up to 3 lines of 4 kinds, oversized or not, terminated or not; a generator of up to 3 data, killed or not |
| `client_run` | safety, refinement and termination of the client | every input of up to 2 lines, record or malformed, from a file or stdin; SSL; 2 failures, so up to 3 connections |
| `server_plain` | liveness and survival of the server | 2 connections, 4 sessions, requests and headers that are no number, 1 failure, no SSL |
| `server_ssl` | accounting of messages, sessions and their operations | 2 connections, requests, sizes that are refused and bodies that do not decode, 2 unanswered on one connection and 1 on the other, 1 failure, SSL |
| `system` | the sessions as the client's server, termination of the client | 1 record, 1 other client, which connects, sends part of a message or nothing, and closes; 1 failure; no SSL |
| `framing` | boundaries of messages, whole messages in order, progress | headers of 2 digits, bodies of 1 and 2 bytes and one size too large, 4 messages, 3 connections |
| `scraper_truncated`, `scraper_long`, `client_race`, `client_statics`, `server_handshake` | what a comment of the sources says and the code does not do; see below | 1 or 2 lines or connections |

Why the bounds are enough. With three lines there is a line before, after and between others;
with two items one is answered or in flight while the other is not scraped yet. With two
failures a retry fails in its turn, and the second failure may be the server's, or happen
within the handshake. Four pushes into four cells use the cell of the item that is being
copied for another one, before and after. A third connection or session
of the server would be in one of the states of the first two with respect to any one of
them: the sessions only share `ready`, the acceptor and the process. One client that sends
ahead is enough for a message to wait behind another while both sessions are busy; an unknown
operation ends the server as a body that does not decode does, in the same handler. In `system` the one
failure may be a reset, a timeout, a failed attempt to connect, a failed accept or the death
of the server, and the client then goes through a second connection with a session of its
own while the first session may still hold its request. The same model was also run, outside
of this list, with SSL and with another client whose bodies do not decode. With four
messages of two sizes over three connections, a body can be cut after a longer one and after
an equal one, on the same connection and on the next, and one that is too large can come
before or after.

`CHECK_DEADLOCK FALSE` is set everywhere but in `safequeue`, where the main thread polls for
ever: a client ends, a scraper thread ends, and a
server whose clients have all gone is at rest. Nothing need happen either
once a connection of `Framing` has ended and `MaxConnections` have been opened.

### Fairness

* Queue (`SafeQueueFairness`): both threads run, and a mutex that stays free is obtained
  (weak fairness of `Lock`). Nobody need push. Strong fairness of `Lock` is not assumed,
  because `std::mutex` does not promise it, and so it is not claimed that a push ever gets
  in: the main thread polls `empty()` without a pause and may take the mutex again each
  time before the scraper thread does. What is claimed is that the mutex is released over
  and over (`MutexReleased`), and that what has been pushed is seen (`EveryItemSeen`, item by
  item: unless an earlier item is retried for ever, each one is). `Client` and `System` take
  a call of the queue as one step of a thread that runs, so that `FileClientEnds` and
  `EveryItemAnswered` hold on platforms whose mutex lets both threads in.
* Client (`ClientFairness`): each thread is scheduled by the operating system (weak
  fairness on `MainStep`, and on the scraper thread's steps); a server that is up answers
  what it reads. Reading a line is fair only from a file: nobody need type another line on
  stdin.
* System (`SystemFairness`): the client's threads, and `ServerFairness`. That the server
  answers is no longer assumed; `FileClientEnds` follows from its handlers being run.
* Scraper (`ScraperSpec`, `PipeSpec`): the thread's own steps, not the failure of a read; and
  the generator's, until it is killed.
* Framing (`FramingSpec`): a read that can go on does.
* Server (`ServerFairness`): asio completes an operation that can complete, and `run()`
  runs the handlers. Clients have no fairness at all.

Failures, `ServerRestarts` and accept errors are never fair: they may or may not happen.

### What the violated runs show

* `scraper_truncated`: a line that ends after the id or the first operand finds `op`
  uninitialized (`DataScraper.cpp:41-43`) and may be sent as a request.
* `scraper_long`: a line that does not fit 1000 characters sets failbit; scraping stops.
* `client_race`: the last item is pushed between `!queue.empty()` and `scraper_`
  (`Client.hpp:187`); the client returns normally and never sends it.
* `client_statics`: the detached thread pushes onto the destroyed `Singleton` queue.
* `server_handshake`: one failed handshake ends the server for all clients
  (`Session.hpp:113`).

## Proofs

All for every value of the constants: any set of inputs, of any length, any number of
failures, connections, sessions, pushes, cells and data. They assume what the modules assume
of their constants and nothing else: `FilesAssumption` (an unterminated last line is not
blank), `ClientAssumption` (there are enough names of connections), `GeneratorAssumption`,
`QueueAssumption` (there are enough cells), `ServerAssumption` (sessions are numbered, 0 is
the first), `FramingAssumption` (a header has a digit, a body a byte), `SystemAssumption`
(there are finitely many other clients, whose connections are not those of the client, and
the names of connections and requests suffice for the client's).

* `ScraperProofs`: the invariant `ScraperInv` adds to the type, `ScrapedInOrder` and
  `RecordsKept` that a thread which holds an item has read a line (`HeldWasRead`): without
  it the item pushed might be line 0.
* `PipeProofs`: the same invariant while lines are appended, with `LinesWritten`, which says
  what each line of the pipe is: line `2 * id - 1` is that of datum `id`, a record unless
  NOP was drawn, and the lines between are blank. From it, `OnlyValidDataScraped`.
* `SafeQueueProofs`: `Exclusion` (who is inside holds the mutex), `Distinct` (no cell is
  linked twice), `Knowledge` (between `empty()` and `pop()` the main thread is right about
  the front, though it holds no lock, and the cell that `push()` fills is not linked yet) and
  `Whole` (an item that is linked is whole, unless the main thread is destroying it). `NoDataRace` needs
  all four, and so does every step of the refinement of `AtomicQueue`.
* `ClientProofs`: `ClientInv` is inductive together with `ScraperInv`. The goal is
  `InOrderExactlyOnce`. The step `Read` keeps it only if the response is to the head of
  the queue; that needs at most one message on the connection in use and that message to
  be the item (`OneInFlight`, `MainLocals`), which after a reconnection needs the next
  connection to be untouched (`FreshConnections`); that it exists needs reconnections to be
  paid for by failures (`FailuresAccounted`, `FailuresExplained`). The scraper thread
  appends only, so it never disturbs the head. There is one lemma per action.
* `ClientGuarantees`, when the client stops and what it delivers: the flags of the stream are
  sticky, hence `ReturnsOnlyAtEnd`; `AllSeenIsAnswered` from `ClientInv`; and every step of
  `Client` is a step of `OrderedDelivery` or a stutter (`Read` is `Answer`, `WriteDatum` is
  `Ask`).
* `ClientGuarantees`, how often the server executes an item: what has been executed of it and
  what waits to be, on any connection, is at most the number of connections on which it was
  written (`AttemptsBounded`), of which there is one for each failure and one more; a
  connection has at most one request (`RequestsAlone`), and what is answered was executed
  (`Executed`). Hence `ExecutionsAccounted`, for which `ClientInv` alone is too weak: it says
  nothing of the connections given up, where a request may still be waiting.
* `ServerProofs`: the operations and the handlers posted (`Operations`), sockets that two
  sessions never share (`SocketsApart`), what a session's socket and buffer can be in each
  operation (`Socket`, `Buffer`), the two ends of a connection (`Ends`), what kinds of
  message there are (`KindsSent`), and `Accounted`, which is `RequestsAccounted` message
  by message, and says of the connections that the server has given up that what was answered
  on them was right. `RequestsAccounted` is not
  inductive: the answer that a session writes is right only if its buffer still is that of
  the message it read, which needs one operation at a time and one session per socket.
  `StaysUp` needs `Buffer` too: the message at which a handler throws is one that a client
  sent, of one of the three kinds that make it throw.
* `FramingProofs`: `Run` is the bytes read of the message being read, and those still to be
  read. `Aligned` looks at neighbours only, and is not inductive: that the body in the buffer
  is one message, whole, is a matter of all its bytes. `InBlocks` says of every byte of `Run`
  what follows at any distance within its message, and after the end of it; `InStep` ties the
  messages of `Run` to those sent and not delivered; `WithinBuffer` the buffer to the header.
  `HeaderIsWhole` and `BodyIsWhole` follow, and with them that the header that is no number,
  and a body that is none, are never met, whatever has been left in the client's buffers by
  the connections before. Hence `Aligned`, `FramingTypeOK` and `ImplementsChannel`.

* `SystemProofs`: both programs over the same connections. `SystemInv` is `ClientInv`, with
  `seen` for the failures, and `ServerInv`, with the request that `listen()` waits for as what
  is owed to the client (`Owed`), and what ties the two together: on the client's connections
  there are only its requests (`OnlyOwnRequests`), the session of such a connection works on
  one of them, and an operation of it fails only when the client has left or knows of the
  failure (`OwnSession`), and which connections the client has used and left behind
  (`ConnectionsUsed`). Neither half is inductive alone: `Accounted` of a connection of the
  client follows from `OneInFlight` of the client, and that a session answers the client's
  own request from `Accounted`. The hard part is that the client sees only boundedly many
  failures, without which `Client` runs out of connections. A failed handshake ends the
  whole server, so that one failure may be seen twice, as a broken connection and later as
  the end of the server that finds it broken, and other clients end the server with no
  failure at all. `EndsExplained` counts this: `seen`, with the connections on which a
  handshake may still fail (`Abandoned`), is at most two for each failure, one for each
  connection of another client that is over (`Over`) and one for the end of the client. The
  inequality is inductive because an end of the server leaves nothing abandoned, and because
  a connection of another client is over only once.
  `SystemNextInv` shows, action by action, that the invariant is kept and that the step is a
  step of `Client` or a stutter (`AsSession`, `MainSimulates`, `ScraperSimulates`); hence
  `SessionsServe`, which is `SessionsServeClient` for any number of other clients. What
  `Client` and `Server` were proved to do on their own then holds of the two together:
  `SystemDelivers`, `SystemExecutions`, `SystemSessions`, `SystemAccounts`. There is no
  circularity: `SystemInv` is shown by induction over the steps of both programs, and
  `ClientProofs` and `ServerProofs` are used for what one step does.

Only model-checked: all liveness (`MutexReleased`, `EveryItemSeen`, `FileClientEnds` and the
like), which is out of the prover's reach; and, of the runs that expect a violation, the
counterexamples. Every other property of the runs is a theorem.

## Not modelled

* A host that disappears without a word: neither program has a timeout. There is no code to
  check, only its absence; the liveness of both programs assumes that an operation on such
  a connection ends at some time.
* The digits of headers and the archive format of bodies: a header is the number it holds or
  none, a body decodes or does not.
* The two directions of one `Connection_base` at once, which share no state.
* SSL and zlib themselves; resolving names; the arithmetic and the output; the parsing of
  the arguments of the programs.
* `queue::back()`, which nobody calls; the template wrappers; the build.

## Plan

Done: all the modules above with their runs, and the proofs of the scraper, the pipe, the
queue, the client, the server, the framing, and both programs together. Left: larger
instances of `system` (two items, SSL, requests of the other clients), for its liveness.
