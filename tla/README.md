# EnMan in TLA+

EnMan is an energy manager in Go. It polls the meters of a grid connection and
of photovoltaic inverters over Modbus and shows what it read over HTTP. Most of
its code, and nearly all of its control, is the Modbus library under
`src/internal/modbus`: a TCP server with a pool of sessions, a client, and the
transports below the client. This directory holds TLA+ modules of that library
and of the poller above it, the configurations under which TLC checks them, and
theorems about them with proofs for TLAPS.

Paths below are relative to `src/`; `server.go`, `client.go` and the other bare
names are in `internal/modbus/`.

## 1. The system

| Component | Code | State | Operations | Model |
|---|---|---|---|---|
| Server: life cycle and pool | `server.go` 143-376 | `started`, `tcpListener`, `tcpClients`, guarded (not everywhere) by `lock`; one acceptor goroutine per `Start`, one session goroutine per connection | `Start`, `Stop`, accept, admit or refuse, TLS handshake, remove, close | `ModbusServer`, `ServerService` |
| Server: sessions | `server.go` 378-810, `tcp_transport.go` 62-91, `modbus.go` | the request in hand, `lastTxnId`, one deadline per turn | read a request, validate, call the handler, answer, refuse, hang up | `ServerSession`, `ModbusPdu` |
| Client: operations | `client.go` 62-1204 | `unitId`, `endianness`, `wordOrder`, `transport`, guarded (not everywhere) by `lock` | the reads and writes of coils and registers, `SetUnitId`, `SetEncoding`, `Open`, `Close` | `ModbusClient`, `ClientCallers` |
| Client: TCP and UDP transport | `tcp_transport.go`, `udp.go` | `lastTxnId`, the socket's deadline, the bytes under way, the rest of a datagram | `ExecuteRequest`, `readResponse`, `readMBAPFrame`, `udpSockWrapper.Read` | `TcpTransport` |
| Client: RTU transport | `rtu_transport.go`, `serial.go`, `crc.go` | `lastActivity`, the line's buffer, the deadline | send with inter-frame delay, read by expected length, flush to resynchronise | `RtuTransport`, `ExchangeService`, `Crc` |
| Encodings | `encoding.go` | none | values to bytes and back, in two byte and two word orders; packing of coils | `ValueEncoding` |
| Serial port drivers | `internal/serial/` | a file descriptor | system calls | not modelled: the operating system's behaviour |
| TLS and logging | `tls_utils.go`, `logger.go` | none | load certificates, write lines | not modelled: pure I/O |
| Poller | `internal/energysource/` | a ticker, the client, one configuration per meter | set up each meter; every 250 ms: set the unit, read each meter's registers, store the values | `Poller` |
| Energy values | `pkg/energysource/` | power, current and voltage per phase, without a lock | setters, totals, maps for display | the setters, in `Poller` |
| Programs | `cmd/` | the system, the HTTP server | wiring, printing, HTTP handlers | not modelled: wiring and formatting |

How they interact:

* `Start` leaves an acceptor goroutine behind; the acceptor starts one session
  goroutine per admitted connection; `Stop` closes the listener and the sockets
  and leaves it to the goroutines to notice. Acceptor, sessions and the user
  share the pool under `lock`; the acceptor reads `tcpListener` without it.
* A session calls back the user's `RequestHandler` from its own goroutine.
* The client's operations hold `mc.lock` from the sending of a request to the
  judgement of its answer, and call the transport's `ExecuteRequest`. Values are
  encoded and decoded outside the lock, by the fields that `SetEncoding` sets.
* `tcpTransport` serves both ends: a session reads requests and writes responses
  through it, the client executes requests through it. `udpSockWrapper` makes
  datagrams look like a stream to it.
* The poller is the client's only caller in `cmd/EnMan.go`; HTTP handlers and a
  printing goroutine read the values it writes.

What is hard in it, and what each component has to get right:

* **Server life cycle.** `Stop` and `Start` may come at any point of an accept,
  an admission or a session's end. The pool has to be exactly the sessions that
  run (what `Stop` closes, and what the limit counts), within `MaxClients`, over
  any number of restarts; a stopped server must end its goroutines, leave no
  socket open and read no more requests.
* **Sessions.** Lengths, byte counts and quantities arrive separately and are
  kept in different widths. Whatever a client sends, the handler has to be called
  in range or not at all, and every response has to fit its frame, answer its own
  request, and come once at most; a silent client must not hold its session.
* **Client operations.** The client has limits of its own, computed in 16 bits.
  What it sends the server must accept, what the server answers it must
  understand, and no answer but the proper one may pass for success. With several
  callers, nothing may change under a request that waits for its answer, and no
  early return may keep the lock.
* **Transports.** Answers may be late, reordered, duplicated or missing, and a
  deadline may pass anywhere in a frame. Over TCP and UDP no exchange may return
  the answer to another, and every exchange has to end. Over RTU, whose frames
  have no id, that cannot be had; but an exchange that finds the line quiet must
  not be misled, no answer may serve twice, and requests have to keep their
  distance from what is on the line.
* **Poller.** All meters share one client, reads fail one by one, and an answer
  may come during the next read. No value may be taken for another's, none may
  outlive its poll, and every meter is to be polled again.

`PROJECT.json` lists the hazards one by one, each at its line, with the
properties that cover it or the reason why none does.

## 2. The modules

### ModbusServer and ServerService

`ModbusServer` is the life cycle: the user, the acceptor goroutines, the session
goroutines, the clients that dial in, and the kernel's backlog. One action stands
for one critical section or one blocking call:

| Action | Code |
|---|---|
| `StartListening`, `StartFails` | `Start` with a successful and a failed `net.Listen` |
| `StopBegin`, `StopCloseOne`, `StopReturns` | `Stop`: the lock, the listener, then one pooled socket per step |
| `LoadListener`, `DereferenceNil`, `AcceptConn`, `AcceptFails`, `AcceptClosed` | one turn of `acceptTCPClients`: the load of `ms.tcpListener`, then what `Accept` on it returns |
| `Admit`, `Refuse`, `Discard` | the section under `lock`, and the close of a refused socket after it |
| `HandshakeDone`, `HandshakeFails`, `ReadRequest`, `ReadFails`, `CallHandler`, `AnswerException`, `HandlerReturns`, `ProtocolError`, `Remove`, `CloseSocket` | `handleTCPClient` and `handleTransport` |

`Start` and the two short sections are one step each because they read and write
nothing that an unlocked goroutine touches before they end. `Stop` is several,
since sessions work on while it closes their sockets. The unlocked load of
`tcpListener` is a step of its own: that an interface is loaded in two words can
give the old value, the new one or nil, which all are outcomes here already.

`ServerService` is what a user is promised, in three variables: whether the
server runs, which sessions count, which are still connected. Sessions are
admitted only while it runs and within the limit, and it is shut only when no
session is connected. `ModbusServer` implements it: `inside` is the set of pooled
sockets, `live` the open ones among them, `running` lasts until `Stop` lets go of
the lock.

### ModbusPdu and ServerSession

`ModbusPdu` has the data: a frame as a record of its header and PDU fields, the
server's validation as one operator (`Verdict`: the error that the checks of a
function code's case come to, in their order), the positive and the negative
response, the assembled frame. Counts keep their widths: `% 256` for byte counts,
`% 65536` for MBAP lengths. Register and coil values are not kept, only how many
there are.

`ServerSession` is one session on its connection: `handleTransport` over
`ReadRequest` and `WriteResponse`. A client works through a script of frames
without waiting for responses, may break the connection at any time, and the
deadline that `ReadRequest` sets may pass while the session reads or the handler
works. The handler may return any number of values and any error.

### ModbusClient

One operation after another: its checks (`Refused`), the frame it sends
(`Request`), an answer, the judgement (`Outcome`) and how many values were
returned or written (`Values`), with the 16-bit arithmetic of the code. The
answer comes from the package's own server (`ModbusPdu`'s `Verdict`, `Positive`,
`Negative`) or from a device that answers properly but for at most one field.
The operation's type stands for all of the public methods: its function code, a
quantity or length, and the width of a value (1 for bytes, 2, 4 or 8 for 16-,
32- and 64-bit registers).

### ClientCallers

Several goroutines on one client, which `ModbusClient` leaves out: `Open`,
`Close`, the setters, and what the operations on registers do under `mc.lock` and
beside it. A section under the lock that waits for nothing, and stores nothing that
is loaded beside the lock, is one step; `Open` (which dials) and an exchange are
two, with `holder` between them. So is `SetEncoding`: its stores of `mc.endianness`
and `mc.wordOrder` are a step each (`SetEncoding`, `StoreWordOrder`), since the
operations load these fields without the lock, and each of their loads is a step:
a read makes them once, after its exchange (`decode`), a write of a slice once per
value before it (`encode`), `WriteRegister` makes them under the lock. A field is a
word and loaded and stored whole, so that what the unsynchronised accesses can
come to is a mixture of old and new fields, which these steps give in every
combination. What an operation asks for is not modelled here, only what it is asked
and judged under: the unit, the transport, the encodings it used. `since` is
history: what each field has been while the call might use it. `Close` leaves a closed transport behind, a
second `Open` forgets the first socket, and either `Close` or an operation on a
client never opened dereferences nil (`DereferenceNil`).

### ValueEncoding

The encodings as functions of byte sequences, most significant byte first: the
four byte and word orders of 32- and 64-bit values (`wideToBytes`, `bytesToWide`;
the bits of a float are such a value), 16-bit registers, packed coils. The switch
of the code, in which each byte order has a word order that needs no swap, is
`Swaps`. `Registers` is the reference: which byte of the value lies where if the
constants mean what they say, register by register. `ClientCallers` extends this
module, so that what a call wrote can be compared with the registers it was to
be in.

### TcpTransport

The client's exchange over a socket or over `udpSockWrapper` (a `Link`). A frame
is read in two steps, header and PDU, under one deadline for the whole exchange
(`left` counts down to it). The peer answers the requests it got in any order, as
late as it likes, over UDP more than once; it sends frames of an unknown protocol
or an illegal length; it closes the link.

What is left of a frame when a part of it is read is its `Rest`, and where it is
kept makes the difference between the links. A socket keeps it at the head of the
stream. `udpSockWrapper.Read` takes a datagram whole and keeps the rest itself
(`leftover`, its `leftoverCount > 0`), hands it out before it asks the socket for
another, and without looking at the deadline (`Takes`, `Reads`). A deadline may
pass between header and PDU, or amid either, in a read of the socket
(`PduTimesOut`, `HeaderTimesOut`): a TCP stream is then amid a frame when the next
header is read (`AmidFrame`), and what the transport takes for frames is any cut of
the bytes that follow (`ReadOutOfFrame`). Nothing in the actions keeps datagrams
from that but where their rest is; a frame of an illegal length, whose payload
`readMBAPFrame` leaves unread, puts both links out of frame.

### RtuTransport and ExchangeService

The same exchange with RTU frames, over a serial port or over a `net.Conn` that
carries them (`rtuovertcp`, `rtuoverudp`). The line is a sequence of bytes, each
known by its frame and its place; only the three bytes of a header have values,
as far as the code looks at them, and a byte that is not where a code or a length
should be may hold any of `Codes` and `ThirdBytes`.

| Action | Code |
|---|---|
| `ExecuteRequest`, `SendFails` | the wait for 3.5 character times since `lastActivity`, the deadline, the write, the second wait |
| `ReadHeader`, `HeaderTimesOut`, `HeaderCut` | three bytes, the expected length, and what goes wrong there |
| `ReadBody`, `BodyTimesOut`, `BodyCut`, `ReadFails` | the rest and the CRC |
| `Discard` | the sleep and `discard` after `ErrBadCRC`, `ErrProtocolError`, `ErrShortFrame` |
| `Silence` | 3.5 character times pass |
| `DeviceAnswers`, `Unanswered`, `ByteChanges`, `ByteLost`, `NoiseArrives` | the devices and the line |

`silence` relates the two clocks of the transport, the real one and
`lastActivity`: after bytes were read less than 3.5 characters ago, the code
either knows (`noted`, and then waits) or does not (`missed`). A timeout of a
`net.Conn` is another error than `ErrRequestTimedOut`, the one that
`serialPortWrapper` returns, and therefore counts as activity.

The CRC is ideal: a sequence of bytes passes if it is one frame. `Crc` has the
real one, `crc.go`'s table and register byte by byte, with what `assembleRTUFrame`
appends (`WithCrc`) and `readRTUFrame` compares (`Passes`); section 4 says how far
the idealisation is sound.

`ExchangeService` is what is left of the promise of `TcpTransport` without
transaction ids, in three variables: an exchange fails, or returns an answer to a
request that was asked, each answer once at most. `RtuTransport` implements it:
an answer is owed while a device may still give it or any of its bytes is under
way. It may be the answer to an earlier request: nothing flushes the line before a
request is sent, so that one late answer can leave every exchange one behind,
until a request goes unanswered.

### Poller

`NewModbusSystem` and the goroutine it leaves behind. `Systems` are the lists of
meters it can be called with, and the devices it then meets; `PvConfigs` is the
list that both constructors make of unit ids, which begins with as many nil
entries and therefore ends in `DereferenceNil`.

| Action | Code |
|---|---|
| `Construct`, `DereferenceNil`, `ReadType`, `ReadApplication`, `ReadSelector`, `WriteApplication`, `SetupFails`, `Run` | `NewModbusSystem` and `carloGavazziMeter.initialize`, one exchange per step |
| `Tick`, `SkipMeter`, `SetUnitId`, `ReadAnswered`, `ReadFails`, `EndPoll` | `readSystemValues`, `updateGridValues` and `updatePvValues` |

What a read asks for, and at which place of the answer each value is, is data of
the model (`VictronGrid`, `VictronPv`, `ThreePhase`, `OnePhase`). Of a value only
its origin is kept: the unit and the register it was read from, and whether the
present poll asked for it. An exchange is a step, as the two transports allow it.
Over RTU it may return the answer to a read that failed before (`outstanding`),
provided that the checks of `ModbusClient` let it pass, that is, the unit and the
size agree. Over TCP it returns the own answer or fails; but a read that fails may
leave the stream amid a frame (`Scraps`, in `outstanding`), and a later one may
then take any bytes for its answer, whose values are nobody's (unit `Nil`). The
goroutine
is the client's only user, so that `SetUnitId` and the read after it need no lock
between them. Values are written and read without a lock, but by this goroutine
only written; a read and the stores of its values are one step. The front
selector of an EM24 is not turned during the setup.

## 3. What TLC checks

Properties are commented in the modules, each with the code it is about.

| Run | Instance | Distinct states |
|---|---|---|
| `server_safety` | 3 connections, 2 places, 2 listeners, TLS, symmetric connections | 459,137 |
| `server_liveness` | 2 connections, 1 place, 2 listeners | 46,013 |
| `session` | one request at each limit (3,096 frames), or any three of five requests | 98,131 |
| `client_requests` | 618 operations at the limits, and sizes beyond 16 bits | 37,796 |
| `callers` | 2 callers, slices of 2 values, 2 units, 2 connections, three samples of wide values | 318,504 |
| `transport` | 5 requests, 3 ids, deadline of 2 ticks, 3 frames under way, over TCP and over UDP | 403,287 |
| `rtu` | 3 requests, answers of 5 and 6 bytes, 12 bytes under way, one fault, lengths that overflow the buffer and that just fit | 557,408 |
| `poller` | 40 systems: two makers, up to two polled meters, of one unit or two, every kind of device and state of an EM24, over TCP and RTU | 91,277 |

The type invariant of each module is the first conjunct of its inductive invariant
(`IInv`, `SInv`, `CInv`, `CallersInv`, `TInv`, `RInv`, `PollerInv`), which its
run checks.

* `server_safety` checks that the pool is exact and within the limit
  (`PoolExact`, `SessionLimit`), that a `Stop` that has returned left no session
  with an open socket (`StopClosesSessions`), that no socket leaks
  (`NoOrphanSocket`), that a stopped server reads nothing and calls the handler at
  most once more per session (`StoppedReadsNothing`, `AtMostOneLateCall`), that
  every step is one of `ServerService` (`ServesAsPromised`), that a stopped server
  only winds down (`StopWindsDown`: each step leaves one goroutine fewer steps to
  take and no other more), and the inductive invariant `IInv`. Two listeners are the
  least with which one acceptor may outlive its server; three connections and two
  places are the least with which a connection is refused while two sessions leave
  the pool from both ends. Symmetry is used for safety only.
* `server_liveness` checks that after `Stop` all goroutines end and all sockets
  close (`StopDrains`), and that no queued connection waits for ever
  (`ConnectionSettles`).
* `session` checks the range of what the handler is called with, the size of
  every response, that responses echo their request and come once at most, and
  that the session ends when its client is silent. The frames take every limit
  (2000, 1968, 125, 123; addresses up to 65535; lengths and byte counts) from both
  sides; three pipelined requests are enough to confuse a response with that of
  the request before or behind it.
* `client_requests` checks that what the client sends passes the server's checks
  (`SentIsAccepted`), that it understands the server's answers
  (`ServerIsUnderstood`), that success means that the unit addressed gave an answer
  of the function and size asked for, which repeats what a write has to have
  repeated, the value of a coil switched on included (`SuccessIsConfirmed`), and
  that all values were dealt with (`SuccessIsComplete`).
* `callers` checks that from a request to the judgement of its answer nothing
  changes that it rests on, and no `SetEncoding` is half done
  (`ExchangeUndisturbed`), that every half of an encoding a call uses was in force
  while the call needed it, since its beginning for a slice that is written, since
  the request was sent for values that are read (`UsesWhatWasInForce`), that every
  call ends (`CallEnds`), and the inductive invariant `CallersInv`.
  `UsesWhatWasInForce` is about all calls, those too that a `SetEncoding` meets
  between its two stores: they may mix fields, but only such as were in force, and a
  call amid which no field changes uses one encoding. Two callers are enough for one to come between any two
  steps of the other; two values for an encoding to change amid a slice; two
  connections for a socket to be replaced.
  `QuietValuesSurvive` adds what this means for values: what such a quiet call
  wrote reads back under the encoding its request was sent under, and lies in the
  registers as that encoding has it. The run's module also evaluates, once, that
  `widesToBytes` lays the values of a list one behind the other, that such lists
  come back, and that lists of up to ten coils do.
* `transport` checks that no exchange returns another's answer (`OwnAnswer`),
  that all of them end (`ExchangeEnds`), and that whatever deadlines pass
  `udpSockWrapper` holds nothing when a header is read, and no bytes amid a frame
  are returned for a response (`DatagramsStayInFrame`), which is not so for TCP. There are more
  requests than ids, so that ids recur and the property's own limit (65536
  requests late, in the code) is met.
* `rtu` checks that an exchange that found the line settled returns its own answer
  or none (`OwnWhenSettled`), that what was heard is noted (`HeardIsNoted`), and
  that every step is one of `ExchangeService` (`ServesExchange`). Three requests
  let an answer be two exchanges late; 12 bytes hold two answers; one fault is
  enough to put the reader amid a frame, from where bytes of data pass for
  lengths (251 just fits the buffer of 256, 252 does not). The run's module also
  evaluates the assumptions of `Crc`: the table is that of the polynomial
  (`TableIsOfPolynomial`), its high bytes are all different (`HighBytesDiffer`),
  its first entry is 0 (`NoEntryForNothing`), adding a byte twice adds nothing
  (`XorCancels`), and the frames of the repository's tests have the CRCs the tests
  say (`KnownFrames`).
* `poller` checks that every value stored is 0 or was read from the register and
  the unit it belongs to, but for the scraps of a TCP stream (`OwnValues`), that over TCP values are of the last poll
  (`OnePoll`), that a running system has set up its EM24s (`EM24Configured`), and
  that each meter is polled again and again (`PolledAgain`). `OwnValues` rests on
  the sizes of the reads: no meter is asked for two places in one size, so that a
  late answer that passes for another is one for the same registers. Two polled
  meters let a value pass from one to the other; two of one unit let the second
  find what the setup of the first has done.

Deadlock is not checked, since users and clients may stop, sessions end, and the
bounds (`MaxStarts`, `MaxRequests`, the scripts) run out; the shared client and
the poller stop for good when their process dies or the setup fails.

### Fairness

* `ModbusServer!Fairness`: weak fairness of each goroutine's steps, because the Go
  scheduler runs every goroutine that is ready, deadlines end a session's reads
  and its handshake, and the handler is assumed to return. Strong fairness of
  `Accept`, because errors of `Accept` that pass do not recur for ever. Users and
  clients owe nothing: nobody has to call `Stop`, `Start` or `Connect`.
* `ServerSession!FairSpec`: weak fairness of the goroutine, and of the deadline
  while a read waits. Clients owe nothing.
* `ClientCallers!Fairness`: weak fairness of each goroutine's own steps, since
  dialling and exchanges end by their deadlines (what `ExchangeEnds` shows of the
  TCP transport); strong fairness of taking the lock, since Go's `sync.Mutex` hands
  it to a goroutine that has waited for more than a millisecond. Nobody has to make
  a call.
* `TcpTransport!Fairness`: weak fairness of the clock, of the timeouts and of
  reading a PDU whose header has come. The peer owes nothing, and no frame has to
  be read before the deadline.
* `Poller!FairSpec`: weak fairness of the polling goroutine as a whole: exchanges
  end by their deadlines, and the ticker ticks. No read has to succeed. The setup
  is under no fairness.

### Where the code does not do what it says

Four runs each end in a counterexample against a comment or a message of the code:

| Run | What it shows |
|---|---|
| `server_nil_listener` | A `Start` whose `net.Listen` fails stores a nil listener (`server.go` 240); the acceptor of the server stopped before, on its way to `Accept`, dereferences it. |
| `session_slow_handler` | The deadline of the read is the deadline of the response too: if the handler takes longer than the idle timeout, its result is dropped and the session goes on (`server.go` 798, `tcp_transport.go` 67). |
| `client_complete` | Registers are counted in 16 bits: reading 16385 64-bit values returns one, without an error (`client.go` 491). |
| `callers_encoding` | `SetEncoding` is to be about subsequent requests (`client.go` 341), but a result is decoded after the lock is released: with a `SetEncoding` in between, under the new encoding, or under one field of each (`client.go` 441). |

`SentIsAccepted` and `SuccessIsComplete` leave out the operations of
`client_complete`, `QuietValuesSurvive` the calls of `callers_encoding`, of which
`UsesWhatWasInForce` says what holds all the same.

Other behaviours are modelled without such a run:

* `readRegisters` says that a quantity is 0 or above 123 and sends the request all
  the same (`client.go` 1035-1043), where the other operations return;
  `SentIsAccepted` leaves these requests out.
* `acceptTCPClients` loads `ms.tcpListener` again on each turn. After `Stop` and
  `Start` the old acceptor accepts from the new listener, beside the new acceptor,
  and does not return before the next `Stop` (`server.go` 291-294). The safety
  properties hold nevertheless, since admission is under `lock`.
* Switching a coil off succeeds although the device echoes that it is on: the first
  byte of the echo is compared only when the coil is switched on (`client.go` 597,
  against the comment at 595-596). `SuccessIsConfirmed` leaves out this byte of this
  echo, and nothing else.
* After a timeout amid a TCP frame the client keeps the link, and what follows may
  be taken for responses (`tcp_transport.go` 167); the poller may then store
  values that no meter gave.
* A handler that returns `ErrProtocolError` gets its link closed and no negative
  response (`server.go` 782), although line 102 says that any error is sent back.
* `Close` of a client that was never opened panics (`client.go` 326).
* After a timeout amid a body on a serial line, the bytes that did come are not
  noted as activity (`rtu_transport.go` 105, whose comment says "if we heard
  anything back"); `HeardIsNoted` leaves just this case out.
* Both makers' lists of pvs begin with nil entries, so that a system with pvs
  panics as it is made (`CarloGavazzi.go` 63, `Victron.go` 53).
* When a meter cannot be set up, the client stays open (`ModbusSystem.go` 66, 75).

## 4. What is proved

The theorems hold for every value of the constants that satisfies the named
assumptions: any number of connections, places and listeners
(`ConfAssumption`), any scripts of well-typed frames (`ScriptsAssumption`), any
operations and units (`OpsAssumption`), any callers and number of values in a slice
and any wide values (`CallersAssumption`), any number of transaction ids, any
deadline and any bounds (`TransportAssumption`), any shapes of answers and any
bounds (`RtuAssumption`), any systems (`PollerAssumption`). The assumptions say no
more than that a limit is a positive number, a quantity a `uint16`, a unit of a
meter a `uint8` other than 0.

| Module | Theorems |
|---|---|
| `ModbusServerProofs` | `Invariance`, `TypeCorrect`, `PoolIsExact`, `SessionsWithinLimit`, `StopIsComplete`, `NoSocketLeaks`, `LateCallsBounded`, `StoppedServerReadsNothing`, `ServiceKept`, `StoppedServerWindsDown`, `NothingLeftIsDrained` |
| `ModbusPduProofs` | lemmas on responses and frames: which fit, and how they are typed |
| `ServerSessionProofs` | `SessionInvariance`, `SessionTypeCorrect`, `HandlerIsCalledInRange`, `ResponsesFit`, `AnsweredOnce`, `ResponsesEcho`, `SessionGoesOn` |
| `ModbusClientProofs` | `ClientInvariance`, `ClientTypeCorrect`, `SentRequestsAreAccepted`, `ServerAnswersAreUnderstood`, `SuccessMeansConfirmed`, `SuccessMeansComplete` |
| `ClientCallersProofs` | `CallersInvariance`, `CallersTypeCorrect`, `ExchangesUndisturbed`, `CallsUseWhatWasInForce`, `WidesComeBack`, `WidesAreRegisters`, `ListsComeBack`, `CoilsComeBack`, `QuietValuesSurviving`, `CallsGoOn` |
| `TcpTransportProofs` | `TransportInvariance`, `TransportTypeCorrect`, `NoForeignAnswer`, `NoTimeoutCutsADatagram`, `OneDeadline` |
| `RtuTransportProofs` | `RtuInvariance`, `SettledAnswers`, `ActivityIsNoted`, `ServiceImplemented`, `OwnCrcPasses`, `ChangesAreTold` |
| `PollerProofs` | `PollerInvariance`, `ValuesAreOwn`, `ValuesAreOfOnePoll`, `EM24sAreConfigured`, `PollsGoOn` |

**Server.** None of the properties is inductive. `IInv` adds to the types and to
the exact, bounded pool:

* `AcceptorsHold`: an acceptor between `Accept` and its next turn holds a socket
  no other acceptor holds, in the stage its goroutine is in. Without it, an
  admission could put a socket into the pool a second time.
* `StopInv`: while `Stop` walks over the pool, what is behind it is closed, and
  nothing is admitted; so all of it is closed at the end.
* `OpenInv`: an open socket belongs to a connection somebody works on.
* `LateInv`: a session whose socket is closed has at most the one request that it
  had read before.
* `ListenInv`: a started server listens where `ms.tcpListener` says, a stopped one
  nowhere. Without it, an acceptor of a stopped server might still get a connection
  and go round its loop.

Swapping the last pooled socket into the gap is the step that needs an argument:
a lemma shows that it removes exactly one entry of an injective sequence and
keeps it injective. The refinement maps each action to one of `ServerService` or
to a stutter, from `IInv` and one lemma per kind of step.

`StoppedServerWindsDown` counts the steps that each acceptor and each session may
yet take while the server is stopped (`AcceptorLeft`, `SessionLeft`) and shows that
every step of one of them lowers its own count and raises no other; and
`NothingLeftIsDrained`, that the counts are all 0 only when the pool is empty, every
socket closed and every acceptor at its end. What fairness has to add for
`StopDrains` is only that `Stop` goes on and that somebody whose count is not 0 takes
a step.

**Session.** `SInv` says that what is pending was validated and what is about to
be written fits. The rest is arithmetic on the limits: `Validated` (what a request
that passes satisfies), `PositiveFits`, `NegativeFits` and `AssembledFits`.
`EchoInv` says that from the reading of a request to the writing of its response
`lastTxnId` is the id of the request at hand and the response repeats its unit and
function code; `ResponsesEcho` follows from it step by step. `SessionGoesOn` gives
a session four steps for each frame its client may still send and one to end: it
never goes round its loop without a frame.

**Client.** `CInv` says that the request under way is the one its operation's
checks let pass, and that a success rests on an answer that `Outcome` accepts. The
theorems then compare the client's limits with the server's for every size, and
follow values to registers to bytes and back.

**Callers.** `CallersInv` says that exactly the goroutine that dials, exchanges or
is between the two stores of `SetEncoding` holds the lock (`LockInv`), so that no
setter runs during an exchange (`ExchangeInv`); and that what a call has loaded and
used, and what is in force while it may yet load, is of what it has noted of the two
fields (`UsesInv`). A store adds to what the calls it meets have noted; a call begins
to note afresh where nothing it loaded before is used, which is what the mutant that
loads before the lock is taken breaks. `TodoInv` keeps the
count of values positive where the code loops, so that the steps a call has yet to
take are a number that each step of its own lowers and no other goroutine's raises
(`CallsGoOn`). The encodings are proved for every value, by the two involutions they
are made of (`LittleEndianTwice`, `SwapTwice`) and, against `Registers`, byte by byte
in each of the four cases. A list comes back value by value (`ListsComeBack`): with 4
or 8 bytes each, value `n` lies in the bytes that `NthOf` cuts out.

**Transport.** `TInv` says that a request's id is its number modulo the number of
ids, for what the peer owes, what is under way and what has been returned. Two
numbers less than `TxnIds` apart with the same remainder are equal, which lemmas
on division establish; so an answer with the id of the current request is the
answer to it. `NoTimeoutCutsADatagram` rests on where the rest of a frame is
(`WrapperInv`: only the wrapper holds a rest of a datagram, and it does after each
header): the PDU, which is all of the rest, is taken from the wrapper whatever the
time is, so that none is there when the next header is read. `OneDeadline` shows that within an exchange the time left never grows,
and that once it is over no further frame is taken up.

**RTU.** `RInv` says that the bytes of a frame come in order and only when no
device has to answer it any more (`InOrder`), which is what makes an answer that
has been returned gone for good: after the last byte of a frame none of it is
left. `BodyFits` bounds the body by the buffer. `SettledInv` says that what is
under way during an exchange that found nothing under way is of its own request.
`ServiceImplemented` maps every step of the transport, the devices and the line
to one of `ExchangeService`.

**CRC.** The register after `n` bytes is a recursive function, about which the
library's induction cannot be used, since it takes an operator; the induction is
done instead over the set of places for which a claim fails, which has no least
element (`LeastOf`, `ReachesAll`). With it, the loop has one value at each place
(`LoopExists`, `AddLoops`). `OwnCrcPasses` follows from the register being 0 after
its own two bytes. For `ChangesAreTold`, two frames agree up to the change, have
different registers behind two changed bytes (`TwoStepsTell`: the second step's
entry is told by its high byte, and then the first's by its low one), and keep them
different from there on (`StayApart`), while both would have to end at 0. What is
used of the table are the four assumptions that the run evaluates.

**Poller.** `PollerInv` adds to `OwnValues`, `OnePoll` and `EM24Configured` what
makes them inductive: what is outstanding over RTU is of the maker's own reads, and
over TCP nothing but scraps (`ReadInv`), where lemmas compare the sizes of these
reads one by one; that amid a meter's reads those done have new values and the
others old ones (`AmidInv`); that the meters behind the setup are configured, with
the unit set to the meter at hand (`SetupInv`). `PollsGoOn` counts the reads and meters left: every step of a poll
lowers the count, and a poll ends behind the last meter only.

**Only checked by TLC.** The liveness properties (`StopDrains`,
`ConnectionSettles`, `IdleSessionEnds`, `ExchangeEnds`, `CallEnds`, `PolledAgain`),
since fairness is defined by `ENABLED`, which the prover does not treat; for all of
them but `ConnectionSettles` the half that needs no fairness is proved
(`StoppedServerWindsDown`, `SessionGoesOn`, `OneDeadline`, `CallsGoOn`, `PollsGoOn`).
Computations on given data: that the CRC's table is that of the polynomial and that
the tests' frames have their CRCs. The counterexamples.

## 5. Not modelled

* Texts of errors and logging. Register and coil values where only their number
  matters (`ModbusPdu`, `ModbusClient`).
* The certificate and role checks of the TLS handshake: it succeeds or fails.
* A write of a transport is sent or fails whole. Datagrams that do not hold
  exactly one frame, but for frames of illegal length. (These, and broken frames
  over TCP, leave the transport out of frame for later exchanges; nothing in the
  code promises that it recovers.) RTU frames duplicated by UDP, and how UDP cuts
  them.
* Changes of a frame that keep its CRC: `RtuTransport` has none, and of the real
  CRC only changes of one byte or of two neighbouring ones are shown to be told,
  in frames of any length; bytes lost or added are not.
* Real time but for deadlines that may pass and silences that may be over: how
  long a frame takes on the line, the 10 ms of a serial read.
* The kinds of transport that `Open` chooses between: opening succeeds or fails.
  Operations on coils by several callers: they differ from those on registers in
  that nothing of them runs beside the lock.
* How a meter's 16-bit values are scaled and signed (`ModbusSystem.go` 147-156:
  a current above 32.767 A wraps), and the table of meter names.
* The readers of the values: the totals, `Phases`, `ToMap` and the HTTP handlers
  on top of them compute from what `Poller` stores, in whatever mixture of two
  polls they meet, and promise nothing else. `NewGrid` compares two numbers with
  their limits.
* The finalizer that is to end the poller (`ModbusSystem.go` 88): the poller's
  goroutine holds the system, so that it never runs, and the loop has no end.
* The drivers of serial ports (`internal/serial/`): system calls whose behaviour
  is the operating system's; certificates from files (`tls_utils.go`); the
  programs under `cmd/`, which are wiring.
