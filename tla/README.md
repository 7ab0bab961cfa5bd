# Verification of wfs-cppclient

The program is a C++ client library for the WFS file service: an object
(`WfsClientImpl`) that offers `Connect`, `Authenticate`, `UploadFile`,
`DownloadFile`, `DeleteFile`, `RenameFile`, `ListDirectory`, `Ping` and some
getters over one Thrift connection, a factory that makes it, some helpers for
paths and text, an example program, and what the Thrift compiler generated from
the service's interface: the stub the object uses, a second stub for many
threads, the server's processor, and the serialization of every struct. The
modules here describe each of these as a state machine that runs against an
arbitrary peer over an arbitrary network; TLC checks small instances, TLAPS
proves every safety property of the passing runs for all of them.

## The system

### Components, their state and their operations

| component | source | state | operations | module |
|---|---|---|---|---|
| client object | `src/wfs_client_impl.cpp` | `m_mutex`, `m_isConnected`, `m_isAuthenticated`, `m_lastError`, `m_client`, `m_socket`/`m_transport` | the methods of `IWfsClient` (`include/wfs_client/iwfs_client.hpp`) and the private methods behind them | `WfsClient` |
| factory | `CreateWfsClient`, same file | none of its own | make, connect, authenticate, hand over | `WfsClient` |
| generated stub | `gen-cpp/WfsIface.cpp`, `WfsIfaceClient` | the stream below it | `send_X`, `recv_X` of seven methods | `WfsLink` |
| transport and network | Thrift (external) | the socket, the read and write buffers, what is under way | open, close, flush, read, timeouts, loss | `WfsLink` |
| concurrent stub | `gen-cpp/WfsIface.cpp`, `WfsIfaceConcurrentClient` | read and write mutex, sequence ids, monitors, the header left for another call | `send_X`, `recv_X` of any number of calls at once | `WfsConcurrentClient` |
| processor | `gen-cpp/WfsIface.cpp`, `WfsIface.h`: `WfsIfaceProcessor`, its factory, `WfsIfaceMultiface` | the request in hand, the event handler's context | `dispatchCall`, `process_X` of seven methods, `getProcessor` | `WfsProcessor` |
| wire format | `gen-cpp/wfs_types.cpp`, args and result structs in `WfsIface.cpp` | the position in a message | `read` and `write` of every struct | `WfsTypes`, `WfsRoundTrip` |
| text and paths | `include/wfs_client/utils.hpp` | none | `safeUtf8`, `getFileName`, `getDirectory`, `combinePath` | `WfsUtf8`, `WfsPaths` |
| example, local files | `examples/wfs_client_sample.cpp`; `readFile`, `writeFile` of `utils.hpp` | the local file, the exit code | one command per run | `WfsSample` |
| DLL entry | `src/wfs_client.cpp` | console code page | once, on load | not modelled |

### How they interact

Threads call methods of one shared client object. Every public method takes
`m_mutex` for its whole duration, so network input, the retry loop's sleep of
three seconds and every timeout happen with the mutex held. A method checks the
two flags, calls the stub, and turns what the stub returns or throws into a
result; a handler for each class of exception sets `m_lastError` and, for
`NOT_OPEN` and `END_OF_FILE` only, clears the flags. The stub writes a request
and flushes, then reads one reply. It sends every request with sequence id 0
and compares none, so which call a reply belongs to is decided by its place in
the stream and by nothing else. `Connect` makes a new socket, transport and
stub; the retry inside `Authenticate` closes and opens the same transport,
whose read buffer survives. The example program drives one such object through
one operation, with a local file on one side and the server on the other.

The concurrent stub is an alternative to the plain one and to the client
object's mutex: its calls share a connection, number their requests and pass
replies to one another. The client object does not use it. At the other end of
a connection stands a processor, which reads a request, calls a handler and
writes the reply, and tells an event handler of each step. The server's own
handler is not in the repository: the skeleton's print their names.

### What is hard about it

Timeouts that leave the late reply in the stream; replies taken by the wrong
call; a request executed although its call has failed; flags that describe a
connection that is gone or fail to describe one that is there; a reopening
inside the retry loop that fails half-way; replies that survive their
connection in a buffer; a non-recursive mutex locked twice; errors of one
thread overwritten by another; replies read by a thread they are not for,
threads waiting on one another's wake-ups, a broken message under many readers;
exceptions that leave `process_X` at eleven places; structs from a peer of
another version; local files half read or half written; strings that end inside
a character. `PROJECT.json` lists the hazards line by line, with the properties
about each.

### What makes each component correct

* client object: calls take effect one at a time and return; the flags, the
  stub pointer, the socket and the server's session agree (`ConnectedUsable`,
  `AuthenticatedConnected`, `SessionAccepted`); the shared error is that of the
  newest failure (`LastErrorIsNewest`); a session was earned by an attempt that
  `Authenticate` was allowed to make (`SessionEarned`);
* stub and connection: an answer is returned once, and was given to a request
  of the same method (`AnswersOnce`); as long as no exchange on a connection
  has failed, it is the answer to the call's own request (`OwnAnswer`); a
  request is executed at most once each time it is sent (`AtMostOnce`);
* all of it together: the client implements the abstract calls of `WfsCalls`
  (`KeepsPromise`);
* concurrent stub: requests are whole on the wire, a body is read once and by
  the call it is for, nobody reads on in a broken stream, somebody is awake as
  long as others wait, and every call returns the server's first answer to its
  own number or fails: it implements `WfsMux` (`Multiplexes`);
* processor: one answer per request at most, be it a reply or an exception, in
  order, and a reply only for what every handler has executed: it implements `WfsServing` (`KeepsServing`); the
  event handler's context is freed once and last, and it is told what the client
  is told;
* wire format: a body that is accepted ends where its message ends; one that
  lacks a needed field or is nested too deep is refused, and only such a one
  (both but for a list with elements of a type that `DirList::read` does not
  expect and does not look at); what `write` makes, `read` accepts, with the same
  fields set;
* text and paths: what `safeUtf8` returns is made of whole sequences, and only
  bytes outside of one are replaced; a name joined to a directory is found again;
* example: exit code 0 means that this command's request was executed; the local
  file of a download is kept until the answer is there; the program ends.

## The modules

**`WfsLink`** is everything below the client object. `sock` is `m_socket`,
`gen` numbers the connections, `peer` is the state of the other end, `wire`
holds requests on their way to or inside a server, `inbox` the replies the stub
has not consumed, of which the first `rbuf` are already in `TBufferedTransport`'s
read buffer. `desync` says that the next byte to be read is not the beginning of
a message, `unsent` that the write buffer still holds the head of a request that
failed. `clean`, `authed` and `executed` are history: no exchange on this
connection has failed; the connections on which the server accepted an `Auth`;
the requests, identified by call and attempt, that were executed. The stub's
`send_X` and `recv_X` are operators (`SendOk`, `SendFails`, `RecvOk`,
`RecvFails`, the last a disjunction of the ways in which a read goes wrong) that
the client uses inside its steps. `Serve` and `LinkDrop` are steps of their own.

**`WfsClient`** extends it with the object. `pc` says where a thread is: `lock`
(waiting for `m_mutex`), `send`, `recv`, `sleep` (inside a method and holding
it), `stuck` (waiting for a mutex it holds itself). A method that returns
without blocking is one action; one that talks to the server is split at the
blocking read and, in the retry loop, at each attempt and at the sleep, since
the server and the network move there. `calls` records the calls in the order
in which they took the mutex, with result, answer and whether the connection
was still clean. The last part states the properties.

**`WfsCalls`** is the abstract specification: a log of calls that take effect
one at a time, requests executed at most once per attempt, answers of the same
method, no answer returned twice. `WfsClient` instantiates it with `log` mapped
to what `calls` records (`Promise`), and `KeepsPromise` is the implementation
claim.

**`WfsClaims`** extends `WfsClient`, and **`WfsSampleClaims`** `WfsSample`, with
what comments, messages and the interface say and the code does not do. Each is
the property of one run that ends in a counterexample.

**`WfsSample`** extends `WfsClient` with `main`: `command` is the command line,
`stage` where `main` is, `local` the length of the local file, `status` the exit
code. It makes the client's calls by the client's own actions, with the default
of three attempts, against the same server and network. `readFile` is split
between the measuring and the reading, since other programs may change the file
there (`OthersWrite`); `writeFile` between the opening, which empties the file,
the writing and the closing.

**`WfsConcurrentClient`** models calls of `WfsIfaceConcurrentClient` that share a
connection, one thread to a call, `pc` being its place in `send_X` or `recv_X`:
the send sentry (`write`, `flush`), the receive sentry and the loop around
`getPending`, `readMessageBegin`, `updatePending` and `waitForWork`. The
variables `reader`, `writer`, `nextseqid`, `monitors`, `pending`, `wakeup` and
`stop` are those of `TConcurrentClientSyncInfo`, which is Thrift's and modelled as
the stub uses it. `out`, `asked`, `said` and `inbox` are the wire: halves of
requests, the requests a server has, what it said first to each, the stream back.
A sentry that is destroyed without a commit, as an exception does, marks the
connection bad and wakes everybody. **`WfsMux`** is its abstract specification.

**`WfsProcessor`** models the connections of a server built on
`WfsIfaceProcessor`: `pc` is the place in `process_X`, `events` what the event
handler was told about the request in hand, `trace` which handlers executed
which request, `answers` what the client of each connection was written.
`Accept` is `getProcessor`; the handler it got is given back by the deleter of a
`shared_ptr`, when Thrift's server drops the last one, which is left out. `Escape` is every
way in which an exception leaves `process_X`: `~TProcessorContextFreer` runs and
Thrift's thread ends the connection. `Handle` is one handler of a
`WfsIfaceMultiface`, which calls several in turn. **`WfsServing`** is the abstract
specification: a request is taken up, executed by one handler after the other,
and answered once before the next is taken up. `Taken`, which maps the places of
`process_X` at which a request is in hand and not answered, ties the two: an
answer of either kind has to end it, and only `DispatchCall` begins one.

**`WfsTypes`** describes each struct by its fields (number, kind, whether it is
needed) and reads an arbitrary message body written by a peer that may add,
leave out and retype fields at any depth, as the generated `read` functions do:
known fields of the right type are read, all others skipped, needed fields
tested at the end. `sent` holds the structs the peer has open, `stack` the reader's
calls. Every frame has a `depth`: `TInputRecursionTracker` counts the calls of
`read` and `skip` that run at a time and throws beyond `DepthLimit` (Thrift's
default is 64; the service's own structs need 3), so an unknown field can have a
message refused. `ValuesField` is a list whose elements are no structs. Where it
is to be skipped this is harmless; but `DirList::read` reads the element type
(`_etype17`) and ignores it, so under id 2 the bytes of the values are parsed as
`DirItem`s. From there (`astray`) the model lets the reader accept or throw
anything (`Stray`). **`WfsRoundTrip`** gives it the bodies that the generated
`write` functions produce for any object, with any of the optional members set.

**`WfsUtf8`** is the loop of `safeUtf8`, one turn a step, with the masks of the
code; the properties use the table of UTF-8 instead. **`WfsPaths`** has
`getFileName`, `getDirectory` and `combinePath` as operators.

**`MCClient`**, **`MCTypes`**, **`MCConcurrent`**, **`MCProcessor`**,
**`MCSample`** and **`MCUtils`** are the modules TLC is started on; the last two
define the command lines and the bytes of their instances. Eight modules hold the proofs: **`WfsClientProofs`** (the connection
and the calls), **`WfsFlagProofs`** and **`WfsAnswerProofs`**, each of which
extends the one before, **`WfsSampleProofs`** on top of them, and
**`WfsConcurrentProofs`**, **`WfsProcessorProofs`**, **`WfsTypesProofs`** and
**`WfsUtilsProofs`**. The operators called "Mutant of X" stand
directly before X: the same definition with a mistake in it, for checking that a
property can fail.

### Abstractions

* Names, file contents and credentials are left out; a reply's body is one of
  the outcomes that some method tells apart.
* A reply enters the read buffer as a whole. A partial read appears as a timeout
  or failure that leaves the rest of the message in the stream (`desync`).
* Only `Append` is long enough to be written past the 8192 bytes of the write
  buffer (`wfs_client_impl.cpp:484`) before `flush`, so only it leaves a residue.
* `m_params` and `m_authInfo` do not change in a run. `maxRetries` is
  `MaxRetries`; a negative value behaves as 0, which no run sets; the theorems cover it.
* Locking a `std::mutex` that the thread already holds is undefined.
  `RelockOutcomes` lists the outcomes allowed: the thread blocks for ever, or
  `std::system_error` is thrown. The passing runs allow the second; with the
  first, a blocked thread ends every liveness property, which is what the run
  `claim_reconnect` is about.
* When the peer is gone and a write fails, whether `TSocket` has also closed
  its own descriptor depends on the error: both are allowed.
* The seven methods of the concurrent stub, and those of the processor, are the
  same code but for the names in it. One definition stands for all seven, and
  `map` in `PROJECT.json` spreads the definitions over the seven copies.
* The concurrent stub's sequence ids are distinct: fewer calls are made over a
  connection than there are 32-bit numbers. Thrift's begin close to the end of
  their range and wrap around, the model's do not, which makes a difference only
  to which of the waiting calls `wakeupAnyone_` takes for the last. A call whose send threw has not put a whole request on the
  wire, and its monitor stays (nothing in the stub removes it).
* What a server's handlers do is unknown: they return, throw a `std::exception`
  or throw something else. The same goes for the event handler.
* The processor's tests of `eventHandler_` for null are one Boolean (`watched`)
  for the whole run.
* A field's type is a scalar, a struct or a list; "list" stands for sets and maps
  as well. What a list holds is structs or scalars; a list of lists is nested like
  structs and adds nothing but depth. What a reader that has been led astray by a
  list of scalars does is any outcome that `read` has, and where it then stands in
  the stream is not said.
* A request written behind a torn one reaches nobody. Its bytes might complete the
  torn request at the server; no property counts on either.
* `HandleUnknownException` (`catch (...)`) has no error of its own: nothing modelled
  throws what it is for.
* The content of a local file is its length and whether it is what was asked for.

## The runs

| run | instance | states it is about | checks |
|---|---|---|---|
| `retry` | 4 calls, 2 attempts, 1 thread, `UploadFile`, `Authenticate`, `Reconnect` | failed reopenings, buffered replies carried over, late replies | `TypeOK`, `AtMostOnce`, `OwnAnswer`, `AnswersOnce`, `ConnectedUsable`, `AuthenticatedConnected`, `SessionEarned` |
| `operations` | 4 calls, 1 attempt, 2 threads, all methods, fairness | every method against every outcome, with a second thread waiting | `LastErrorIsNewest`, `SessionAccepted`, `EveryCallReturns`, `KeepsPromise` |
| `concurrent` | 3 calls at once, whole and broken replies in any order, 1 repeated, 1 spurious wake-up, fairness | headers left for others, hand-over of the reading, a connection that goes bad | `TypeOK`, `RequestsWhole`, `BodyHasOneReader`, `BrokenNotRead`, `SomebodyAwake`, `Multiplexes`, `EveryCallReturns` |
| `processor` | 2 connections, 2 handlers, 7 methods and an unknown one, 2 requests, fairness | every way out of `process_X`, two requests on one connection or one on each | `TypeOK`, `ContextFreedLast`, `EventsMatchAnswer`, `KeepsServing`, `EveryRequestEnds` |
| `types` | every args and result struct and `WfsReq`, bodies of up to 15 fields by `write` and 9 by others, lists of 2, 5 levels | peers of other versions, lists of other elements, nesting beyond the limit; the program's own `write` | `TypeOK`, `InStep`, `RefusedIfLacking`, `RefusedLeavesRest`, `ReadAsWritten` |
| `utils` | all strings of up to 5 bytes, of 8 bytes that stand for the classes the masks and the separators distinguish | broken and truncated sequences, every cut into directory and name | `TypeOK`, `OutputWellFormed`, `OnlyBrokenReplaced`, `NameFound`, `DirectoryFound`, `SameSeparator` |
| `sample` | every command line, 3 attempts, files of up to 2 bytes, fairness | the program over the client, server and network, with its local file | `SampleTypeOK`, `SuccessIsExecuted`, `FileKeptUntilAnswer`, `ProgramEnds` |
| `claim_reconnect` | relocking blocks | `Reconnect` on a connected client | `ConnectReturns` fails |
| `claim_report` | 3 attempts | the example program's reports | `ReportIsTrue` fails |
| `claim_session` | 3 attempts | `Reconnect` after a late reopening | `FileRequestsAuthenticated` fails |
| `claim_disconnect` | | `Disconnect` after an error | `DisconnectCloses` fails |
| `claim_upload` | | an upload after a timeout | `UploadSuccessIsUpload` fails |

**Why the bounds are enough to be of use.** The first two calls of every
behaviour of the client are the factory's `Connect` and `Authenticate`.
`MaxCalls` = 4 leaves two calls, enough for one call to time out and the next to
meet its late reply, or for a reconnection and a call on it. Two attempts are the
least for which the retry loop reopens, three the least for which it reopens
twice. `MaxCalls` is a bound on the instance (named in `Call`), not on the
system: the theorems hold for any value. Two threads give every order in which
calls reach the mutex; since a method holds it throughout, more threads add
orders and no new interleavings inside a method. The files a call names play no
part in the control flow.

Three calls of the concurrent stub are the least in which a thread that reads can
meet a header for one of two others, and in which the one it wakes can be the
wrong one. The kinds of messages left out of `Kinds` in the run leave the loop
and the locks as `reply` and `broken` do; the theorems cover all of them, and any
number of calls, repetitions and spurious wake-ups.

Two requests over two connections give a second request on a connection, where a
first answer could be repeated, and an interleaving of two; two handlers give one
that has executed and one that throws. The theorems cover any numbers.

In `types`, 15 fields are as many as the longest body that `write` produces for
the instance. `MaxForeign` keeps the bodies of strangers to 9 fields, which is
more than `DepthLimit` = 5 levels take: two levels beyond those of the deepest
reply (`List_result`, `DirList`, `DirItem`), so that fields nobody knows reach the
limit within structs that are known, and within each other.

Two of the client's properties depend on `maxRetries`, whose default is 3:
`AuthenticatedConnected` holds up to two attempts and `SessionAccepted` with one
(a reply left in the buffer by the first attempt can be accepted on the second
connection). The runs use the largest value for which they hold; what happens
above it is what `claim_report` and `claim_session` show. `SuccessIsExecuted` is
checked with three and proved for any number: the operation is the first request
of its method that the program's client sends, so the answer it takes is its own.
`SessionEarned` says what is left of the session for every value: a stale reply
may be taken for the answer to a login, but only one that accepts a login that
the client did attempt.

**Fairness.** Nothing is assumed of a server, a peer or the network, with one
exception named below.

* Client: weak fairness of each thread's steps inside a call and of the
  factory's two steps. The code justifies it by its timeouts:
  `ConnectInternal` sets connect, send and receive timeouts on the socket, so
  that every blocking operation ends, and the sleep ends by itself. A thread that
  waits for the mutex is assumed to get it when it stays free; `std::mutex` is
  not fair, but with finitely many calls no thread can be overtaken for ever.
  That a waiting thread is not starved by endlessly many other calls is neither
  assumed nor claimed.
* Concurrent stub: the threads inside a call run, and a read ends, with a message
  or with a timeout of the transport it was given. A thread that waits on its
  monitor moves only when it is notified.
* Processor: the thread of a connection runs. The exception is that it takes
  handlers, the event handler and the reads and writes of Thrift's server to
  return or to throw.
* Example: the program runs, with the client's timeouts as above.

Deadlock is checked in every run but `claim_reconnect`, which is about one.

## What the checks found

Five disagreements between what the repository says and what the code does, each
with a counterexample (`findings` in `PROJECT.json`):

1. `Connect` and `Reconnect` on a connected client call `Disconnect` with
   `m_mutex` held and lock it again.
2. A reopening that fails inside the retry loop clears `m_isConnected`; a later
   one that succeeds does not set it, so `Authenticate` returns success on a
   client that `IsConnected` denies and whose operations are all refused. The
   example program meets this with its default of three attempts.
3. `Reconnect` in that state opens a new connection with `m_isAuthenticated`
   still set: file operations go out on a connection that never saw an `Auth`.
4. `Disconnect` after an error that cleared `m_isConnected` does not close the
   socket.
5. A call that timed out leaves its reply in the stream for the next call of the
   same method, which reports success for work that was not, or not yet, done.

`ReportIsTrue` is a conjunction of five reports of the example program, each of
them named. `claim_report` stops at the first that fails, `ClientIsConnected`.
Each of the others also fails when it is checked alone with `ClaimReport.cfg`:

* `DownloadIsSaved`: `writeFile` tests the stream before it is flushed
  (`utils.hpp:106`);
* `UploadIsTheFile`: `readFile` does not look at how much it has read
  (`utils.hpp:92`);
* `PingFailedIsNoAnswer`: a server that answers -1 is taken for a failure
  (`wfs_client_impl.cpp:423`);
* `ListingHasNoError`: a `DirList` with an error and no code is a success
  (`wfs_client_impl.cpp:364`).

Smaller things that were met on the way and have no run: `getDirectory("/x")` is
`""`, so the root is lost (`DirectoryFound` asks for the directory without the
separator at its end, and that of `/` is empty); `std::ctime` returns null for a
time it cannot show, of which the example makes a `std::string`; `safeUtf8` lets
overlong forms such as `C0 80` pass; the server skeleton speaks
`TBinaryProtocol` and the client `TCompactProtocol`; a sender of the concurrent
stub that fails sets `stop_` without the read mutex, so a thread that has tested
it and not yet waited misses the wake-up (`SomebodyAwake` is proved all the same:
another call is awake then, and wakes it when it leaves). The comment in the
generated code that the concurrent stub copes with replies out of order is
confirmed by `Multiplexes`.

## What is proved

The theorems hold for every value of the constants, under the assumptions named
in the modules: for the client any finite set of threads with the factory's among
them (`ThreadsAssumption`), any finite number of calls, any `MaxRetries` and any
outcome of a relocked mutex (`MaxCallsAssumption`, `MaxRetriesAssumption`,
`RelockAssumption`, `UserOpsAssumption`); for the concurrent stub any number of
calls, any of the six kinds of message, any number of repeated replies and
spurious wake-ups (`IdsAssumption`, `KindsAssumption`, `FaultBoundsAssumption`);
for the processor any set of connections, any number of handlers but none, any
number of requests (`HandlersAssumption`, `RequestsAssumption`); for `safeUtf8`
and the paths any set of bytes, any length and any two different separators
(`BytesAssumption`, `LengthAssumption`, `SeparatorsAssumption`); for the structs
messages with any number of fields and elements and any nesting limit of three or
more (`BoundsAssumption`, `DepthAssumption`, `MaxForeignAssumption`,
`RootsAssumption`); for the example
program any command lines and files and any number of attempts
(`LinesAssumption`, `MaxBytesAssumption`), with the one thread it has and room
for its three calls (`OneThread`).

### The client

* `TypeCorrect`, `TypesHold` (`WfsClientProofs`): the type invariant. It is not
  inductive: that the call which a method closes exists, that its number is in
  range and that the retry counter stays in range need `CallInv`, which says
  that the mutex is held by exactly the thread inside a blocking method
  (`HolderInside`), that the last call in the list is that thread's and the only
  one running (`LastRuns`), where the retry counter is in use (`Places`,
  `RetryInUse`), and that calls made and calls waiting stay below the bound
  (`Bounded`). Every action changes these variables in one of five ways, each
  with its lemma, so the step for an action only says which.
* `ConnectedIsUsable` (`WfsFlagProofs`): `ConnectedUsable` for every
  `MaxRetries`. It is inductive relative to `TypeInv`: a failing call either
  breaks the connection and clears both flags, or its exception comes from an
  open socket.
* `AuthenticatedIsConnected`: `AuthenticatedConnected` if `MaxRetries <= 2`. The
  strengthening `InsideConnected` follows the retry loop: it is connected, unless
  the last attempt is about to go out on a socket that did not reopen, which
  cannot succeed. The hypothesis is used once, to show that the attempt after a
  reopening is the last one.
* `SessionIsAccepted`: `SessionAccepted` if `MaxRetries <= 1`. `SessionInv` adds
  that every reply in the stream is of the current connection and that an
  accepted `Auth` among them was accepted on it; a new connection needs
  `AuthenticatedConnected`, so that its flag is clear.
* `LastErrorIsThatOfNewest`: `LastErrorIsNewest`. `ErrorInv` says the same without
  choosing; a call that is appended or closed becomes the newest failure exactly
  if its outcome is an error (`ErrorOfLast`), and then the same step records it.
  That only the last call can be closed, and that it was not an error before, is
  `LastRuns`.
* `ExecutedAtMostOnce` (`WfsAnswerProofs`): `AtMostOnce` for every `MaxRetries`.
  `WireInv` says that every key on the wire or executed was issued (`Issued`: by
  a call that exists and was not refused, with an attempt number only inside
  `Authenticate`), and that the keys of the running call are those of its
  attempts so far (`Past`); an attempt about to be sent therefore has a key that
  is nowhere yet.
* `AnswersReturnedOnce`: `AnswersOnce`. `StreamInv` says that every reply in the
  stream has the key of an executed request of its method that no other reply
  has and no call was given (`Fresh`). Reading, dropping and reopening leave a
  contiguous part of the stream (`Window`); the server appends a reply whose key
  was not executed before, by `WireInv`.
* `AnswersAreOwn`: `OwnAnswer` for every `MaxRetries`. `recv_X` compares no
  sequence number, so this is about what can be in the stream at all. `OwnInv`
  says that a clean connection carries at most one message, the request or the
  reply of the running call (`Alone`), and none while nobody waits for an answer
  (`Quiet`). Requests of earlier connections may still reach a server
  (`NoneLater`); their replies are lost, since a connection's number is never
  used again. A failed exchange ends `clean` in the same step that leaves
  something behind; a new connection starts with an empty stream, and a reopened
  transport is clean only if its buffer was empty.
* `SessionsAreEarned`: `SessionEarned` for every `MaxRetries`. The flag is set from a
  reply that may be stale, but by `StreamInv` it has the key of an executed
  request of its method, and `EarnedInv` follows requests from the moment they are
  sent: an `Auth` on the wire or executed is one of the attempts allowed, a file
  operation was let through by a flag that was earned by an earlier call, and a
  reply that accepts comes from a server that has accepted. Every step of a thread
  is shown to be `Earning` (what it may write and when it may set the flag), and
  one lemma shows that this is enough. `NoSessionWithoutAttempts` is the boundary:
  with `maxRetries` 0 there is no attempt, so the flag is never set and no file
  operation is ever executed.
* `ClientKeepsPromise`: `Spec => KeepsPromise`, the
  refinement of `WfsCalls`. `CallStep` sorts the client's steps into six kinds by
  what they do to `calls` and `executed`; each kind is mapped to an action of
  `WfsCalls`, with `WireInv` for `Execute`, `StreamInv` for `Answer` and
  `OpenUnanswered` (a running call has no answer yet) for `Fail`.

### The concurrent stub (`WfsConcurrentProofs`)

All safety properties of the run follow from `ConcurrentInv`
(`ConcurrentInvHolds`). Its parts:

* `Holders`: the two mutexes are held by exactly the calls at the places where
  the code holds them. With `LastIsHead`, that what a sender has written so far
  is the last thing on the wire, this makes `RequestsWhole` inductive.
* `FirstInHand`: the header that a thread has read, or that was left in `pending`,
  is that of the first message of the stream, and one place has it. This gives
  `BodyHasOneReader` and `BrokenNotRead`, and that a body is read by the call
  whose id is in its header.
* `Said` and `Given`: what is in the stream was said by the server to a request it
  had, the first message for a call that is not over is the first it was given,
  and what a call returned is that. With `FirstInHand` this is the refinement
  `StubMultiplexes`: `Return` of `WfsMux` is the step that commits, `Give` the
  server's first message for a number.
* `Handover` and `Awakened`: while the read mutex is free or its holder is about
  to wait, either `wakeup` says that somebody has to look, or a header was left
  for a call that is still receiving and not asleep. A call falls asleep only on
  somebody else's header, whose owner is therefore awake; a call that leaves
  notifies one that waits, or all if the connection is bad. This is why
  `SomebodyAwake` holds although a notify may find nobody waiting and a wake-up
  may be lost to the race in `markBad`.

### The processor (`WfsProcessorProofs`)

`ProcInvHolds` is about each connection by itself (`ConnInv`): its requests are
among those sent (`Counted`, which keeps their numbers in range), one is in hand
only while it is open (`Attended`), which handlers have executed the request in hand at
each place of `process_X` and that nobody has executed a later one (`Executed`),
and what the event handler was told by then (`Observed`). A step of one connection
leaves the others alone (`OthersKept`), so each action needs one lemma about its
own connection; four ways of moving (`MoveKeeps`, `AnswerKeeps`, `ClosedKeeps`,
`EscapeKeeps`) cover most. `ContextIsFreedLast`, `EventsAgree` and
`ProcessorTypes` are read off the invariant. `ProcessorServes` is the refinement of
`WfsServing`: `DispatchCall` is `Take`, `Executed` gives the guards of `Execute` and of
`Answer` with a reply, an answer moves from a place with a request in hand to one
without (`TakenEnds`), and every other step opens, closes or stays among the places
of its kind (`TakenKept`).

### The structs (`WfsTypesProofs`)

Messages nest, and what a recursive function returns for every message cannot be
proved here. The model needs no such function: peer and reader keep the structs
they have open on two stacks, and the induction is over their steps. `Together`
says, of a reader that has not been led astray, that while it reads its stack is
the peer's and nothing lacked or was too deep so far; that when it is done both are
empty; and that when it has refused something was lacking or too deep. So the
reader knows where it is at any depth and in messages of any length. `LostInList`
says where it can be led astray: `DirList` is known to no struct but `List_result`
(`ListsInDirList`), so no request and no other reply is concerned. `ReadToTheEnd`
(`InStep`) and `RefusedIfAndOnlyIfLacking` follow. Both leave out the messages with a
misread list, of which they would be false: such a message may be accepted before
or beyond its end, and be refused with nothing lacking. The lemmas about
the structs (`HeldIsStruct`, `NeededIsWritten`, `MessagesNeedNothing`) are read off
their fields.

* `RefusalLeavesRest` (`RefusedLeavesRest`) has a hypothesis, that the messages need
  no field of their own. `MessagesNeedNothing` shows it of every args and result
  struct; it is false of structs such as `WfsAck`, which the service never sends as
  messages of their own.
* `WrittenIsRead` (`ReadAsWritten`) adds to the invariant that a message of `write`
  is never refused: what a struct needs is among what its `write` writes without
  asking (`NeededIsWritten`), its lists are lists of structs, and its structs are
  nested to a depth of 3 at most (`Height`, `OwnIsShallow`), which every
  `DepthLimit` allowed by `DepthAssumption` permits. `WithinLimits` carries this along
  the peer's open structs.

### The example program (`WfsSampleProofs`)

`SampleIsClient` shows `SampleSpec => Spec`: the program's steps that call a
method are steps of a client's user, the others leave the client alone. So the
invariants of the client hold in it. `SampleInv` adds what `main` knows: the calls
are `Connect`, `Authenticate` and the operation, in this order (`InOrder`), which
of them have been made at each stage (`Creating`, `Ready`, `Calling`), and that it
goes on to print, save or exit with success only when the third has returned an
answer (`Finishing`). `FileIsKept` is read off that. For `SuccessIsTrue` the
answer has the key of an executed request of the operation's method
(`AnswersOnce`); that
the request is the third call's, and not one of a login's, is because only the
third call has this method. `OkAnswered` adds that no call returns success without
an answer.

### safeUtf8 and paths (`WfsUtilsProofs`)

`Utf8InvHolds`: besides the two properties, `NothingOpen` says that no whole
sequence of the input reaches from before `i` to after it, so that a byte that is
replaced is in none. `WidthIsTable` shows that the masks are the table of leading
bytes; the ranges of leads and continuation bytes do not overlap, so a sequence
cannot begin inside another. `OutputIsWellFormed`, `BrokenReplacedOnly` and
`Utf8Types` follow.

The path functions have no state: `NameIsFound`, `DirectoryIsFound` and
`SeparatorIsSame` hold in every state because they hold of every string
(`PathsAgree`, `SeparatorKept`). What has to be shown is where the last separator
of a joined path is: that of the directory if it ends with one, the one that was
put in otherwise, since the name has none (`LastOfJoined`); and that `FindLast`
finds it (`LastIsFound`).

### Only model-checked

Liveness: `EveryCallReturns` of the client and of the concurrent stub,
`EveryRequestEnds` and `ProgramEnds` are checked under the fairness named above;
proofs about fairness and `ENABLED` are beyond the prover. The claims are
counterexamples, which TLC finds.

## Not modelled

* The server's own handler: not in the repository. `WfsLink` lets a server answer
  anything its interface allows, at any time; `WfsProcessor` lets handlers return
  or throw.
* The generated `operator==`, `swap`, copying and `printTo` of the structs, and
  the values of their members: no control depends on them.
* Printing, the code page set when the library is loaded, the build files: no
  behaviour that a property is about.
* Thrift itself, but for what the code sees of it: `TSocket`,
  `TBufferedTransport`, the protocols, `TConcurrentClientSyncInfo`, the server
  loops. Definitions that stand for it are marked external in `map`.

## Plan

Done: every component that has behaviour of its own is modelled, with the
refinements `WfsCalls`, `WfsMux` and `WfsServing`; every invariant, every action
property and every refinement that a passing run checks is a theorem.

What is worth adding next:

1. The positive halves of the claims: what has to be changed in the code for
   `AuthenticatedConnected` to hold with three attempts (setting `m_isConnected`
   after the reopening), as a variant of `AuthRetry` with its own theorem.
2. What a login means with more than one attempt: `SessionEarned` does not say
   that the current connection has a session, which is false (`claim_session`); a
   condition on the read buffer under which it is true would narrow that down.
