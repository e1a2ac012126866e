# SimpleRFCOMM in TLA+

TLA+ models of the SimpleRFCOMM library (`src/src/`, `src/include/`) and of the
programs in `src/examples/`, the TLC runs that check them on small instances, and
TLAPS proofs of what matters most for every instance. `PROJECT.json` maps every
definition to the source lines it stands for, lists the runs, the hazards they
are aimed at, a mutation for each property, and the findings.

## 1. The system

The library wraps Bluetooth RFCOMM sockets for Linux (BlueZ) and Windows
(Winsock) behind one C++ interface. It has no threads, no callbacks and no
background work of its own: every operation runs in the thread that calls it and
blocks in a system call. What is hard comes from around it: the peer and the
radio link, the kernel that may cut the stream anywhere, other processes that
bind channels, the SDP daemon, and applications that use one `Socket` from two
threads.

| Component | State | Operations | Talks to |
|---|---|---|---|
| `Socket` (`socket.cpp`) | `handle`; the kernel's timeouts, blocking mode and queues behind it | `send`, `send_all`, `recv`, `recv_some`, `recv_all`, `set_timeouts`, `set_blocking`, `close` | kernel, peer |
| `SerialPort` (`serial_port.cpp`) | the `Socket`, the receive cache `rx_buf`/`rx_head`, timeouts, line settings | `open`, `open_by_uuid`, `attach`, `close`, `read`, `read_exact`, `read_byte`, `read_line`, `write*`, `get_rx_queue_status`, `purge`, `set_timeouts` | `Client`, `Socket` |
| `Server` (`server.cpp`) | `listen_fd`, `channel`, `sdp_reg` | `listen`, `listen_with_sdp`, `accept`, `close` | kernel, `Registration` |
| `sdp::Registration` (`sdp_linux.cpp`, `sdp_win.cpp`) | SDP session, `sdp_record_t` | `create`, `unregister`, destructor | SDP daemon |
| `sdp::resolve_channel` | none | one lookup | SDP daemon |
| `Client` (`client.cpp`) | none | `connect`, `connect_by_sdp` | kernel, `resolve_channel` |
| `Address`, `Uuid` (`types.hpp`), `platform.hpp` | values | parse, format, convert | - |
| examples | two threads of `chat_echo`; the loops of `client_bench`, `server_bench`, `serial_port_demo` | - | the library |

What makes them correct, and what a test hardly reaches:

* **SerialPort, receiving.** Some calls read through the cache (`read_byte`,
  `read_line`), others pass it (`read` receives straight into the caller's
  buffer, `purge` drains the kernel). Any mix of them, with any cutting of the
  data by the kernel, must give the application the peer's bytes in order, each
  once, and none of an earlier connection. Lines must be framed correctly
  wherever the chunks end. Reads must report truthfully what they took when a
  timeout hits half-way.
* **SerialPort, configuration.** Timeouts reach the socket whatever the order of
  `set_timeouts` and `open`, and are not interchanged on the way (the two
  classes take them in opposite orders). `purge` does not leave the socket
  non-blocking, and nothing else changes the mode the application chose.
* **Server and SDP.** A record is published only while somebody listens on its
  channel; no failure path leaves a socket or a channel behind, nor, where the
  daemon does what it is asked, a record; the
  scan for a channel ends and does not miss a free one while other processes
  bind and release channels. A thread in `accept` learns that the server was
  closed.
* **Client.** What `connect_by_sdp` connects to is the service it looked up, and
  the lookup finds the first channel of an answer, whatever else the answer holds.
* **Values.** Exactly the texts that the loops describe parse, to the bytes they
  show, and the three native byte orders stand for the same value.
* **Programs.** Two threads on one socket stop when asked to, report truthfully,
  and do not outlive each other; a benchmark's chunks come back whole, and its
  two ends do not block each other for ever; each AT command of the demo gets its
  own answer, and both of its programs end.

## 2. The modules

| Module | Models | Role |
|---|---|---|
| `RfcommLink` | `Socket`'s primitives; kernel queue, peer and link (external) | action fragments, extended by `SerialPort` |
| `SerialPort` | receive path, life cycle and timeouts of the port | component |
| `ByteStream` | an ordered stream of bytes | what `SerialPort` promises |
| `SerialPortProofs` | - | theorems about `SerialPort`: stream, configuration, life cycle; `SerialPort` implements `ByteStream` |
| `SerialPortResults` | - | theorems about what the calls of `SerialPort` return |
| `ServiceDiscovery` | `Server`, `Registration`, `Client`; kernel sockets and daemon (external) | composition of three components |
| `ServiceDiscoveryProofs` | - | theorems about `ServiceDiscovery` |
| `SdpLookup` | the walk of `resolve_channel` on Linux | component; what `ServiceDiscovery` takes as one step |
| `SdpLookupProofs` | - | theorems about `SdpLookup` |
| `BtTypes` | parsers and conversions of `types.hpp` and `platform.hpp` | algorithms |
| `BtTypesProofs` | - | theorems about the parsers and conversions of `BtTypes` |
| `ChatEcho` | the two threads of `chat_echo` on one `Socket` | program |
| `ChatEchoProofs` | - | theorems about `ChatEcho` |
| `EchoBench` | `client_bench` against `server_bench`, with `send_all` and `recv_all` | program |
| `EchoBenchProofs` | - | theorems about `EchoBench` |
| `SerialDemo` | client and server of `serial_port_demo`, with `write_line` and `read_line` | program |
| `SerialDemoProofs` | - | theorems about `SerialDemo` |
| `MC*` | - | what TLC runs |

Definitions named `Bug...` are faulty versions of the definition that follows
them; nothing uses them. Each one is a plausible mistake in that piece of code,
and is used to see that a property notices it.

### RfcommLink and SerialPort

`handle`, `blocking`, `rcvtimeo`, `sndtimeo` are the socket's handle and options;
`krx` is the kernel's receive queue, `link` says whether the peer and the radio
link are there. `sock`, `rx_buf`, `rx_head`, `read_timeout`, `write_timeout` are
`SerialPort::Impl`'s members. `op`, `want`, `got`, `part`, `timed` are the locals
of the call in progress. `sent`, `consumed`, `from`, `res` and `nonblock` are
history: what the peer has sent on this connection, what left the stream towards
the application, what the last call returned, and whether the application has
made the socket non-blocking (`underlying_socket()->set_blocking(false)`) and no
`purge` has undone that.

One application thread owns the port. A call runs without interruption up to the
`::recv` it blocks in: that is the action with the call's name (`Read`,
`ReadLine`, `Purge`...). The return of that `::recv` and the rest of the call up
to the next `::recv` is `<Call>Recv(k)`, with any number `k` of bytes up to what
is queued and what the buffer holds, or `<Call>RecvFails` for 0 and -1. Between
the two, the peer sends, disconnects or the link dies. The bodies follow the
code: `read` drains the cache and then receives into the rest of the buffer;
`read_exact` repeats `read` until it returns 0, and a `read` that had cached
bytes when its `recv` failed returns their number, so that the loop goes round
once more (`part`); `refill_rx_cache` compacts the cache and appends;
`read_line` consumes up to the delimiter, strips a final `'\r'` only when it
found the delimiter, and looks at its own timeout only between refills.

A timeout is `"forever"` (0 ms) or `"finite"`: the program never looks at the
number, and a finite one may fire whenever nothing is queued. Whether a
connection can be made is a free choice (`Open`, `OpenFails`); the text forms
return before `close()` when the text does not parse (`OpenUnparsable`). An
`attach` of a socket that is already non-blocking is `Open` followed by
`RawSetBlocking(FALSE)`.

### ServiceDiscovery

Each server process has one `Server` object. `listen_fd`, `channel`, `sdp_reg`
are its members; `pc[s]` is the next system call of the call in progress, so a
call is cut at every system call and other processes run in between. `socks` is
the kernel's view, `db` the daemon's. The `holder` of a record says who stands for
it: a `Registration` (the record is `Live`), only its process since a Windows
deletion failed, or nobody since the process died; only the last kind does the
daemon drop by itself. The two platforms differ in how a channel is
found (a scan of `bind`s on Linux; the kernel's choice and `getsockname` on
Windows), in `create` (the SDP session exists on Linux only), in what a failed
unregistration leaves, and in what closing a socket does to a thread that waits
on it; the variable `platform` selects the branch and never changes.

`listen` is asked for any channel, for one of them, or for a number that no
channel has (`MaxChannel + 1` stands for these), on which `bind` fails.

The servers in `Accepting` have a second thread that calls `accept`: `acc[s]` is
the channel on whose socket it waits. Between `is_listening()` and `::accept` it
is `Entering`: the other thread may close the server there, or listen on another
channel. `CloseFd` by the other thread then sets it
to `Woken` on Windows, where `::accept` fails; on Linux the thread keeps the
kernel's socket alive, bound and listening, until its `::accept` returns.

`ResolveChannel` and `Connect` are two steps of `connect_by_sdp`; whatever the
servers, the kernel and the daemon do may come between them. `ResolveChannel`
finds some record with the UUID, or none; how the channel is found in an answer
is `SdpLookup`.

Assumptions about what is external: `bind` on Linux fails only if the channel is
taken; the daemon drops the records of a session when the session is closed, and
those of a dead process some time later; the kernel releases the sockets of a
dead process at once, and those a process closes as soon as no system call uses
them.

### SdpLookup

The answer of the other device's daemon is a list of records, each a list of
protocol stacks, each a list of descriptors, each a list of data elements. The
model has it as one sequence with marks where a list opens, chosen item by item
as the walk gets there, so that every nesting up to the bound occurs. `last` is
the last entry of the `proto` array, `over` says that the innermost loop was left
by its `break`. A UUID is what the code reads of it, the `uuid16` member: 16- and
32-bit forms of RFCOMM are recognised, the 128-bit form is not.

### BtTypes

An address has the pattern `XX:XX:...`, where each separator may be a colon or a
dash, whatever the others are; a UUID has dashes anywhere. That is what the loops
accept, and more than the comments of `types.hpp` describe (see the
observations in section 3). A state is the state of one of the three parsing loops after a prefix of the
text, `parsed`, `current_val` and `digits` being the loop's locals; a character is
a digit's value, a colon, a dash or something else. The conversions are
functions, evaluated on every value that was parsed. Sizes are parameters: the
base (16), the lengths of an address (6) and a UUID (16), and where a GUID's
fields begin (4, 6 and 8). Loops over bytes and characters are recursive functions
on their counter: `BytesOf` shifts the number as `from_uint64` does, `BigEndian`
and `ToString` go through the bytes.

### ChatEcho

`running`, `handle` and `fd` are shared; `main` and `reader` say which access to
shared state a thread makes next. `Socket::close` is two steps (the descriptor,
then the `handle` member), `Socket::recv` is two reads of `handle` and a blocking
call, none of them protected. `close()` on Linux does not wake a thread that is
blocked in `recv` on the same descriptor; `closesocket()` on Windows does. The
socket of a client keeps the timeouts that `Client::connect` set on it; the
history variable `timedout` records that a receive has ended by one. The
program's `mode` and `platform` are chosen in the initial state.

### EchoBench

Neither program looks at the data, so a direction of the connection is a number
of bytes, at most `Cap`. One turn of `send_all`, `recv_all` or of the server's
loop is a step, for every number of bytes the kernel may take or give. The
client's system calls time out (the timeouts that `connect` left), the server's
do not. After a session the server accepts the next client, whose flags are
chosen anew.

### SerialDemo

The two programs exchange lines with `write_line` and `read_line`. A line is a
sequence of the pieces that the programs tell apart (`"AT"`, `"+INFO"`, `"\r"`,
`"\n"`...), so that a line can be cut inside a command, inside an answer and
inside its end. `queue[p]` is everything that `p` has yet to read, wherever it
is; that the port hands it out in order is `StreamIntegrity` of `SerialPort`. As
some of it may still be on the air, a receive may time out although `queue[p]`
is not empty; the number of these early timeouts, and of sends that time out with
the peer there, is bounded. `cut` records that a `read_line` or `write_line` was
cut short, or the link lost.

## 3. The runs

| Run | Shows |
|---|---|
| `serial_port` | `StreamIntegrity`: handed out, cached and queued bytes are, in this order, what the peer sent. `StreamSpec`: the port implements `ByteStream`. `ReadsReturnStreamBytes`, `ReadLineFraming`: what each call returns of what it took, for complete, partial and failed calls. `PurgeIsComplete`: nothing that arrived before a purge survives it. `QueueStatusHonest`: counted bytes can be read without waiting. `TimeoutsApplied`, `BlockingRestored`, `NoOrphanHandle`: configuration and life cycle. `RecvOnlyWhenDrained`: why it all works. `CallsReturn`: no call stays blocked on a socket that has a receive timeout or is non-blocking, the loops of `read_exact` and `purge` included. |
| `service_discovery` | `RecordHasListener`, `FreshRecordReachesOwner`: published records are good. `NothingLeftBehind`: between calls a server has the socket it says it has, and the daemon no record of it but its `Registration`'s; the exceptions, stated in the formula, are records of an earlier run of the process that died and, on Windows, records whose deletion failed. All on both platforms; `ScanMissesNoFreeChannel` for the Linux scan. |
| `service_discovery_live` | With a second thread in `accept`: `ServerCallsReturn`: every `listen`, `listen_with_sdp` and `close` ends against a process that binds and releases channels all the time. `NothingLeftBehind` again, for the sockets that this thread keeps alive. |
| `sdp_lookup` | `LookupExact`: the walk returns the first channel of the answer. |
| `chat` | `ReportIsTrue` (the peer is gone and its messages are printed, or a receive has timed out), `ExitIsClean` and, where `closesocket`, a timeout or the peer's leaving wakes the reader, `QuitExitsIfWoken` hold in every interleaving of the two threads, the user and the peer. |
| `echo_bench` | `EchoAccounting`, `RoundTripAcknowledged`: chunks come back whole and are counted before they are timed; `NoMutualBlock`: when the two ends can block each other; `SessionEnds`: that it still ends. |
| `serial_demo` | `InStep`: as long as nothing is cut, each command gets its own answer and `AT+PURGE` discards no command. `ClientFinishes`: the client ends whatever is cut or lost. `SessionEnds`: a session without cuts ends on both sides. |
| `codec` | `AddressParseExact`, `UuidParseExact`: the loops accept exactly the described texts, reject as early as they say and give the right bytes; `TypeOK`: they stay inside their arrays. `ConversionsAgree`: text, `uint64_t`, `bdaddr_t` and GUID forms are the same value. |
| `read_available`, `wrong_service`, `accept_shutdown`, `demo_spins` | the findings, below |

### Bounds

* `serial_port`: three bytes out of {an ordinary byte, `'\r'`, the delimiter},
  `Chunk` = 2 and buffers of up to 3 bytes. Three bytes over chunks of two give
  every split that matters: a `'\r'` and its delimiter in one chunk or in two,
  two lines in one chunk, a cache that is partly consumed when the next call
  comes, bytes in the kernel behind a non-empty cache, and a `read_exact` that
  goes round more than twice. Any number of calls and connections. The proofs
  remove the bounds for all safety properties.
* `service_discovery*`: two processes, one client, two channels, one orphaned
  record. Two processes are enough to take a channel away from a scan and to
  give it back behind it; two channels make a scan that moves on and that ends.
  The wrong service needs two UUIDs, which the run of that finding has.
  Servers and UUIDs are interchangeable (symmetry); the liveness runs use none.
  In `service_discovery_live` one of the servers has an `accept` thread, and there
  is no client: whether one connects is the free choice `AcceptReturns`. It has no
  orphaned records (`MaxOrphans` = 0: a process with a record does not die, and
  no deletion fails on Windows); those are for `service_discovery`.
* `sdp_lookup`: ten items and the values 0, 1 and 2: the record that `create`
  builds has seven items, so there is room for a record without channel, or the
  start of another stack, before it, and for several values and protocols in one
  descriptor.
* `codec`: binary digits, addresses of 3 bytes and UUIDs of 5 (the shortest that
  have a byte after the short form's), texts of up to 12 characters: room for an
  address (8) and a UUID (10 digits) with a group or two digits too many. The
  loops do not depend on the base; the lengths only bound them.
* `serial_demo`: the program's own four commands; two early timeouts, so that the
  client can be ahead of the server by two answers, or be cut off twice.
* `chat`: two messages in the kernel, so that a message can be left when the
  peer goes.
* `echo_bench`: `Cap` = 2 and `Chunk` = 5 = 2 * `Cap` + 1 is the largest chunk
  that the two directions and one byte in the server's hands can hold, where
  blocking is closest; `SBuf` = 3 lets the server receive less than is there and
  more than it can echo at once; `Total` = 12 gives two chunks and a shorter last one.

### Fairness

* `SerialPort`: weak fairness of `RecvNext`. The kernel wakes a thread whose
  `::recv` can return, and the thread runs. The application need not make calls
  and the peer need not send.
* `ServiceDiscovery`: weak fairness of `ServerStep(s)` for each process: a
  process in the middle of a call runs; and of `AcceptEnters(s)` and
  `AcceptWoken(s)`: a thread that is about to call `::accept`, or whose `::accept`
  has failed, runs. Clients, crashes and the daemon are not fair; that a
  client ever connects is not assumed.
* `ChatEcho`: weak fairness of each thread, except that a `send` need not return
  on a server's socket, which has no timeouts, while the peer is there: it may wait
  for ever for a peer that does not read. The user and the peer may stop.
* `EchoBench`: weak fairness of each program. The link need not die, no client
  need come.
* `SerialDemo`: weak fairness of each program's steps: both set finite timeouts,
  so every receive and send ends.

`SerialPort`, `ServiceDiscovery` and `EchoBench` are checked for deadlock.
`ChatEcho` and `SerialDemo` stop when their programs have exited, `SdpLookup` and
`BtTypes` at the end of their input, so their configurations switch the check off.

### Findings

* **`read` may wait with data in hand** (`serial_port.cpp:187`). `API_GUIDE.md:221`
  says that `read` "Reads available data". With bytes in the cache and a larger
  buffer it goes on to a blocking `recv`; with `set_timeouts(0, ...)` it may keep
  the bytes for ever.
* **`connect_by_sdp` may reach another service** (`client.cpp:79`). Nothing ties
  the channel that was looked up to the connection; in between, or with the
  record of a dead process, the channel can have passed to another service.
* **`accept` does not notice that the server was closed** (`server.cpp:160`).
  `server.hpp:49` and `API_GUIDE.md:156` promise `nullptr` then; on Linux the
  thread stays in `::accept`, and the channel stays bound, until a client connects.
* **The demo's server may loop for ever** (`serial_port.cpp:134`). `is_open` is
  documented as "open and connected" (`serial_port.hpp:100`) and does not change
  when the peer goes; `read_line` then returns an empty line at once, and the
  loop of `serial_port_demo.cpp:49` goes round without end.

Observations made while modelling, without a run of their own:

* On Windows `close` may leave the service registered (`sdp_win.cpp:24`), against
  `server.hpp:54` and `API_GUIDE.md:158`: the result of the deletion is not looked
  at, and a record whose deletion failed stays published, with nobody listening,
  while nothing is left that would try again. `NothingLeftBehind` names the case.
* The chat client reports a silent peer as gone (`client.cpp:57`): the timeout that
  `client.hpp:25` documents as "Optional connect timeout" stays on the connected
  socket as its receive timeout, so that after ten seconds without a message the
  reader prints `[Peer disconnected]` and stops (`chat_echo.cpp:68`).
  `ReportIsTrue` names the case: `timedout`.
* Addresses with mixed separators are accepted (`types.hpp:51`). `types.hpp:33` and
  `API_GUIDE.md:48` name two formats, with colons or with dashes;
  `AA:BB-CC:DD-EE:FF` is accepted, too. `AddressPattern` is what the code accepts.
* `quit` may hang in the Linux chat server (`chat_echo.cpp:96`): as with `accept`,
  `close` does not wake the reader, and `join` waits for it until the peer sends
  or goes. `QuitExitsIfWoken` states when it does end.
* When `create` fails after `sdp_record_alloc` (`sdp_linux.cpp:97`), nobody frees
  the record, against the comment at `sdp_linux.cpp:27`. `resolve_channel` does
  not free the records behind the one it stops at (`sdp_linux.cpp:159`).
* `purge` leaves a socket blocking that the application had made non-blocking
  (`serial_port.cpp:322`). `BlockingRestored` states what is left.
* `Uuid::try_parse` accepts dashes anywhere, at the ends and in a row too.
* `resolve_channel` tests for 128-bit protocol UUIDs and then reads their 16-bit
  member (`sdp_linux.cpp:144`), which never is RFCOMM's.
* Once a line of the demo is cut, the client can stay out of step: an `OK` whose
  line end comes after the timeout completes its command, and the late `"\r\n"`
  is an empty answer to the next one.

## 4. The proofs

A run checks one small instance; the theorems hold for every value of the
constants that satisfies the module's assumption. Each one is `Spec => []P` (or
`Spec => [][A]_vars`) from an inductive invariant, which TLC had checked on the
run's instance before it was proved: a lemma for the initial state, a lemma per
action or group of actions, and a temporal step that joins them.

| Property | Theorem | Inductive invariant |
|---|---|---|
| `SerialPort`: `TypeOK`, `StreamIntegrity`, `RecvOnlyWhenDrained` | `TypeCorrect`, `Integrity`, `DrainedFirst` | `Inv` of `SerialPortProofs` |
| `TimeoutsApplied`, `BlockingRestored`, `NoOrphanHandle` | `TimeoutsCorrect`, `BlockingCorrect`, `NoOrphan` | `ConfigInv`, their conjunction, with `Inv` |
| `StreamSpec` | `Refinement` | `Inv` |
| `ReadsReturnStreamBytes`, `ReadLineFraming`, `QueueStatusHonest`, `PurgeIsComplete` | `ReadsCorrect`, `LinesFramed`, `CountsHonest`, `PurgeEmpties` | `ResultInv`, with `Inv` |
| `ServiceDiscovery`: `TypeOK`, `RecordHasListener` | `DiscoveryTypeCorrect`, `RecordsHaveListeners` | `Inv` of `ServiceDiscoveryProofs` |
| `NothingLeftBehind` | `CallsCleanUp` | `HolderInv`, with `Inv` |
| `ScanMissesNoFreeChannel` | `ScanIsExhaustive` | `ScanInv`, with `Inv` |
| `FreshRecordReachesOwner` | `FreshRecordsReachOwners` | `TargetInv`, with `Inv` |
| `SdpLookup`: `TypeOK`, `LookupExact` | `LookupTypeCorrect`, `LookupIsExact` | `Inv` of `SdpLookupProofs` |
| `ChatEcho`: `TypeOK`, `ReportIsTrue`, `ExitIsClean` | `ChatTypeCorrect`, `ReportsAreTrue`, `ExitsClean` | `Inv` of `ChatEchoProofs` |
| `EchoBench`: `TypeOK`, `EchoAccounting`, `RoundTripAcknowledged`, `NoMutualBlock` | `BenchTypeCorrect`, `Accounting`, `RoundTrip`, `NeverBlocked` | `Inv` of `EchoBenchProofs` |
| `SerialDemo`: `TypeOK`, `InStep` | `DemoTypeCorrect`, `StaysInStep` | `Inv` of `SerialDemoProofs` |
| `BtTypes`: `TypeOK`, `AddressParseExact` | `ParserTypeCorrect`, `AddressParsing` | `Inv` of `BtTypesProofs` |
| `UuidParseExact`, `ConversionsAgree` | `UuidParsing`, `Conversions` | `UuidInv`, with `Inv` |

### SerialPort

For every alphabet, chunk and buffer size and number of bytes, under
`MaxSentAssumption` (`MaxSent` is a natural number) and `SerialPortAssumption`
(`Chunk` is positive, `MaxWant` a natural number, the timeouts are timeouts).

`Inv == TypeOK /\ StreamIntegrity /\ RecvOnlyWhenDrained`. `StreamIntegrity`
alone is not inductive. `ReadRecv` and `PurgeRecv` append bytes from the kernel to
what the application has; that is the next part of the stream only if nothing is
cached, which the state at the time of `::recv` does not show.
`RecvOnlyWhenDrained` carries it from the start of the call, and needs `TypeOK`'s
`rx_head <= Len(rx_buf)` to be preserved. The proof has one lemma per call and
one per return from `::recv`, over a handful of lemmas on `SubSeq` and
concatenation (a sequence is what is taken from it followed by what is left).

`Refinement` maps the port to `ByteStream` by `is_open`, `sent` and `consumed`:
every step of the port writes a byte, takes the next bytes of the stream, reopens
or shuts it, or leaves it alone. That what a call takes is the next part of what
was sent is `StreamIntegrity` before and after the step.

`ResultInv` adds `CallTaken`, what a call blocked in `::recv` has done so far:
what `read`, `read_exact` and `read_line` have in hand is exactly what left the
stream since the call began, the buffer of a `read` is not full, the line of a
`read_line` has no delimiter yet, and `purge` remembers how much had arrived. This
is what makes the result right however many `::recv` calls a line or a buffer was
gathered from. The framing of a line rests on `LineEnds`: with no delimiter in
what was gathered and the first one of the cache at `i`, the delimiter is the
last byte taken and the only one, and stripping the line and stripping what was
taken come to the same. `PurgeIsComplete` is where `StreamIntegrity` is used: at
the last, failing `::recv` of a purge, cache and queue are empty, so everything
that was sent has been consumed.

### ServiceDiscovery

For all sets of servers, clients and UUIDs, every number of channels, both
platforms and every set of servers with an `accept` thread
(`DiscoveryAssumption`). A server's part of the invariant accounts for every
kernel socket it owns: its own, the one that a blocked `accept` keeps alive, or
that of the `listen` in progress (`SocketsOwned`); it says what the next system
call takes for granted (`CallInStep`), and that a live record stands for a
`Registration` and a listener (`RecordsOwned`); `OneSocketPerChannel` is the
kernel's part. `RecordHasListener` needs all of it: when `register` publishes,
only `CallInStep` knows that the socket of the earlier `listen` is still there,
and when `close` releases a socket, only that no `Registration` is left.
`NothingLeftBehind` is about all records, so it also needs that a record without
`Registration` whose process lives exists on Windows only (`HolderInv`).

`ScanInv` ties the history variable `free` (the channels that were free since
the scan began) to the scan: they are free now, and the scan has not passed them,
so a scan that is over has none. `FreshRecordReachesOwner` follows from
`RecordHasListener` and `OneSocketPerChannel`: the owner listens on the record's
channel, and nobody else can.

### SdpLookup

For every bound on values and on the length of the answer. `OverExact` and
`LastExact` say what the loop's two pieces of memory mean for the answer walked so
far: `over` that the open descriptor has had its value after RFCOMM, `last` that
the item before was RFCOMM's UUID. Then the next item is returned exactly if it
makes the answer's first channel.

### ChatEcho

For every bound on queued messages. `ClosesInOrder` (flag, then descriptor, then
handle, then join) and `ReportsInOrder` (a receive that failed because of the main
thread's close finds the flag cleared) are inductive together; that `Excused` stays
true once it is, because a peer that is gone sends nothing more and `timedout` is
never reset, closes the gap
between the failed receive and the report.

### EchoBench

For every chunk size, total, server buffer and kernel capacity (all positive,
`BenchAssumption`). `Busy` says that `send_all` and `recv_all` are in progress only
while bytes are missing and that the server has bytes in hand exactly while it
sends; `Counted` relates the server's total to the client's.
`RoundTripAcknowledged` follows from `EchoAccounting` (nothing is outstanding, so
both directions are empty) and `Counted`; `NoMutualBlock` from `EchoAccounting` and
`Busy` (two full directions and a byte in the server's hands are fewer bytes than
the chunk).

### SerialDemo

However often receives and sends time out early (`DemoAssumption`: the bound is a
natural number). The commands and answers are the program's own. `InStep` is far
from inductive: it says nothing of where a command is. `Session` does, as long as
no line has been cut: a command is being written (`Writing`), is on its way and
partly read (`Sent`), is answered (`Answered`, with `AT+INFO`'s line before the
final one in each of the places it can be in), or both programs are through
(`Over`); in each phase it says what is queued, gathered and still to be written
on either side. Every step moves a token along, moves to the next phase, or cuts
the session. That a reader has a complete line exactly at its line end, and what
is left is what follows it, rests on lemmas about a line of which `k` tokens are
taken. `AT+PURGE` discards nothing because in `Sent` nothing follows the command.

### BtTypes

For every base of the digits (16 in the code, 2 in the run), every length of
addresses and UUIDs, every division of a GUID into four parts, and texts of every
length (`TypesAssumption`; a text can at least have the 4 characters of a short
UUID, and the parts of a GUID are in their order). `Understood` says what the
loop of `Address::try_parse` has made of the text: its length is three characters
per byte and the digits in hand, each byte is its two digits, and the number in
hand is the digits after the last separator. So the next character has the
position modulo 3 that `digits` tells, and is accepted exactly if the pattern has
it there. `Loop` bounds the digits in hand, from which `TypeOK` gets that no loop
leaves its array. `UuidInv` adds the same for `Uuid::try_parse`: `Digested`, in
terms of the digits of the text instead of its positions, since dashes may be
anywhere, and for a text of length 4 that the number in hand is its digits'.

What the recursive functions compute needs induction over their counter. The
prover cannot use an induction theorem that has a predicate as a parameter, so
`SetInduction` states induction for a set of numbers, and is proved by counting:
a subset of `0..m` that has 0 and is closed under the successor, but does not
have `m`, would be mapped one-to-one into itself without 0. From it follow that a
recursion on a counter has a solution (`Recursion`) and only one (`SameSteps`),
and with them what each loop does: `DigitsMore` (a character more adds its digit,
if it is one), `BytesOfNumber` (shifting a number down gives back the bytes it was
made of), `Endianness` (the bytes in reverse order, each with its weight, add up
to the same number), `AddressText` and `UuidText` (which characters `to_string`
writes where). `Conversions` puts them together on what was parsed.

### Only model-checked

* All liveness properties (`CallsReturn`, `ServerCallsReturn`,
  `QuitExitsIfWoken`, `ClientFinishes` and the two `SessionEnds`): fairness and
  `ENABLED` are out of the prover's reach.
* The findings: what a run shows to be violated.

Every invariant and every action property of the passing runs is proved, and so is
the refinement.

## 5. What is not modelled

* `SerialPort::write` and `write_byte`: one `Socket::send` each, whose partial
  results `EchoBench` covers; `flush` is empty. `Socket::recv_some` is `recv` into a
  buffer of its own. Moved-from objects.
* A descriptor of an SDP answer with more than ten UUIDs: `resolve_channel` then
  leaves its array, and what follows is undefined. The Windows lookup beyond "one
  result or none".
* Line settings (baud rate, parity, DTR, RTS...): stored and returned, with no
  effect on anything.
* `WinsockInit`, buffer-size options, argument handling and the reports of the
  examples: I/O without state.
* Time: timeouts fire nondeterministically; how long a call takes is not
  expressed. `FIONREAD` is taken to be exact.
* Heap memory: what is allocated and freed.
* Failures of `setsockopt`, `fcntl` and `ioctlsocket` on an open socket
  (`socket.cpp:142` and `socket.cpp:160`): they are taken to succeed, as every caller
  does.
* `server_bench`'s way out of its loop when `accept` fails (`server_bench.cpp:57`):
  the model's server waits for the next client; the failures of `accept` are in
  `ServiceDiscovery`.
* A cut inside the words `AT` and `OK` of the demo, which are one piece each. It
  would matter in sessions that were cut only, of which just `ClientFinishes` says
  something; the client ends whatever the piece is.
* Reuse of a descriptor number after `close` while another thread still uses it:
  `chat_echo` opens nothing else at that point.

## 6. Plan

The model covers what the repository does, and all safety properties that the
runs check are proved. Worth adding when the code grows:

1. The Windows lookup in the detail of `SdpLookup`, once it looks at more than
   one result.
2. Deallocation: who frees an `sdp_record_t` on each path of `create` and
   `resolve_channel` (see the observations in section 3).
