# Verification of iot-control

TLA+ specifications of iot-control (C++ server and clients, Python GUI process),
TLC configurations that check them on small instances, and TLAPS proofs.

## 1. The system

| Part | Source | State it keeps | Operations |
|---|---|---|---|
| Accept loop (main thread) | `server/native/manager.cpp` `start_listen` | `serv_sock`, `ipc_`, the session in its hands | accept `ipc_`, accept a session, read its first message, register it, start its thread |
| Session (one receive thread each) | `server/native/session.cpp` | `clnt_sock`, `client_id_`, `registered`, buffers, `send_mutex_` | `receive`, `send`, `disconnect`, the destructor |
| Session list | `manager.cpp` | `session_list_` | `regist_session`, `unregist_session`, `get_session_by_id` |
| IPC session | `server/native/ipc.cpp` | as a session; client ID 0 | list all devices, forward an operation |
| Device repository | `server/native/database/` | a tree of places with devices | insert, search, list |
| Client connection | `client/native/session.cpp`, `main.cpp` | `serv_sock`, `session_connected` | connect, register, receive, send, connect again |
| Client controller | `client/native/controller.cpp` | `deviceList` | register devices, send sensor data, operate an actuator |
| Python IPC, scenarios | `server/web/ipc/ipc.py` | `deviceList`, `scenarioList`, `csock` | receive, operate a device, check scenarios |
| Framing | the `send`/`receive` of all three | - | header, address, device ID, payload |
| Tools, devices, constants, start scripts | `tools/`, `devices/`, `constants/`, `run*.py` | log.txt; a device's key, owner, type | conversions, logging, building |

`web_main`, which `run.py` imports, is not in the repository; `server/log.txt` and
`client/native/demo/` are recorded data.

**How they interact.** A client connects, sends REGISTER_CLIENT with its ID, waits
for one answer, then registers its devices and sends sensor data. A session
thread enters a device in the repository, answers, and writes the device to
Python through `ipc_`. Python asks for all devices, or for an operation of a
device, named by the client ID of its owner; the IPC thread finds the session of
that ID and writes to it. All threads of a process share its descriptor numbers,
which the code keeps and uses after it closed them, and which the logger borrows
for `log.txt` for a moment at every message.

**What is hard.** Threads share the session list, the device tree and descriptor
numbers without locks; sockets are closed twice; a raw `Session*` is used beside
its destructor; sessions are listed before they are answered; the accept loop
blocks on one connection at a time; a process at either end may go at any moment
(end of stream, reset, SIGPIPE); clients retry for ever. Messages are written and
read field by field, with one check at the start and one at the end; a client
runs each request in a thread of its own that reads the shared receive buffer; the
server and Python write to each other from the threads that read; the SIGINT
handler takes mutexes. `PROJECT.json` lists each hazard with its line and the
properties aimed at it.

**What makes each part correct.**

- Session list: exactly the registered sessions that have not left, no ID twice,
  and nobody but its holder gives an ID back, although a refused duplicate runs the
  same destructor.
- Descriptors: one thread's close never hits the connection of `ipc_`; answers
  reach the client that asked, and nobody takes another's for its own.
- Accept loop: whoever registers is answered; an ID becomes free after its client.
- Repository: a key has one device, the one registered last; one registration
  never loses another's device, as long as two inserts do not cross; a search finds
  what is there, even then.
- Client: its threads never close each other's connection; it gets back to a server
  that comes back; a request that was read is executed, and not with what was asked
  before it.
- Framing: a receiver stays in step with its sender, and handles no torn message.
- Automation: Python and the server agree on devices when all is quiet; operations name
  an owner of the device; a scenario is executed only when its conditions hold; readings
  stay in order; nothing is stuck but for the cases section 3 lists.
- Shutdown: SIGINT stops the server.

## 2. Modules

| Module | Models |
|---|---|
| `ClientDirectory` | abstract: who holds which client ID |
| `SessionServer` | the server's threads, sessions, list and descriptors, with their peers |
| `DeviceMap` | abstract: the device registered last under each key |
| `DevTree` | `DevRepository`: insertion step by step by any number of threads, beside a search |
| `ClientLink` | the client's main and receive threads, with the server as its peer |
| `Framing` | one connection as a stream of bytes: `send` and `receive` of all processes |
| `ActuatorHandlers` | the client's handler threads and the buffer they share |
| `Automation` | sensor to actuator: clients, session threads, IPC thread, Python's two threads |
| `Shutdown` | the SIGINT handler and the server's two mutexes |
| `SessionServerProofs`, `DevTreeProofs`, `ClientLinkProofs`, `FramingProofs`, `ActuatorHandlersProofs`, `AutomationProofs`, `ShutdownProofs` | theorems about the module of each name |
| `MCSessionServer`, `MCDevTree`, `MCClientLink`, `MCFraming`, `MCActuatorHandlers`, `MCAutomation`, `MCShutdown` | the instances TLC checks |

The modules look at the system at different grains, and each says in its header
what it takes from the others: `SessionServer` and `Automation` read a message as a
whole (`Framing` shows when that is so, and `Automation` has the messages for which it
is not), `Automation` has one session for an ID (`SessionServer`: `UniqueIds`) and one
device for a key until two inserts cross, and anything `DevTree` can do after that;
`ActuatorHandlers` gets its messages in step and lets the process end as in
`ClientLink`. Which client an operation reaches is `SessionServer`'s matter alone: for
the others a connection is that of one session.

### SessionServer

An element of `Conn` is a connection *and* the Session (or IPC) object that accepted
it. `stage` says where the thread that has the object stands: the main thread up to
the answer of the registration (`init`, `greeting`, `refusing`, `rejected`), its
receive thread afterwards (`serving`, ...), and the destructor in two steps
(`Destroy`: the second close; `unlisting`: `unregist_session`). `clnt_sock` is the
member variable, a number that is never cleared; `owner` says which connection each
number refers to *now*; `reading` is the connection a blocked `read()` holds, which a
close and re-use of its number does not change. `inbox` and `wire` hold what peers
and the server wrote. `up` turns FALSE when SIGPIPE or the use of a freed object ends
the server.

| Code | Actions |
|---|---|
| `Manager::start_listen`, `accept_client` | `AcceptIpc`, `Accept`, `DropRejected` |
| `Session::receive_init_info` | `InitLost`, `InitOther`, `InitRegister`, `SendDone`, `SendFailed` |
| `Session::receive`, `IPC::receive` | `Read`, `Got` (in each handler), `HangUp`, `DropReturned` |
| `~Session` | `Destroy` (within `DropRejected`, `DropReturned`), `Unregist` |
| `Manager::handle_message` | `HandleDevice`, `AnswerDevice`, `InformPython`, `HandleNothing` |
| `IPC::handle_message` | `LookUp`, `Operate`, `ListDevices`, `ListOne`, `ListDone`, `HandleNothing` |
| clients and Python | `Connect`, `Hello`, `AddDevice`, `PythonSends`, `Leave` |

Abstractions: a message is read as a whole and `send` is one write; socket buffers
never fill; operations of `std::vector` are atomic; `session_list` is a set, and
look-up and removal, which stop at the first entry of an ID, take any of them (there
is only one: `UniqueIds`). A message says what it is `about`: the header of an answer
to a registration is empty, that of an answer to a device (`AnswerDevice`) has the
device's address. Both are REGISTER_DONE, and a client that awaits its registration
looks at the type only, so `OwnRegistration` counts either. Of the repository only the owners of
devices are kept; that a device may not be found is a choice of `Operate`. A write to
a peer that has gone is lost or kills the server. A freed Session is used as it was, or
the server dies. `accept` takes the lowest free number, or leaves out up to
`LogFiles` lower ones that log.txt may hold. A session whose descriptor was closed and
given to another connection during `receive_init_info` reads from that one.
SENSOR_DATA and PONG, which write to `ipc_` like `InformPython`, are in `Automation`.

### DevTree

`tree` is the sequence of nodes in the order of creation, so that the children of a
node follow one another as in its vector. `writer[t]` is the place of one call of
`insert`, one step for each operation on a vector: `Search`, `Create` and `Back`
(`insertNode`), `Scan`, `Erase` and `AppendDevice` (`insert`). `reader` copies the
devices node by node, parents and older siblings first. `held`, the devices of the key when the search
began, is kept for the properties only. An erase whose iterator points past the end
takes the last device, as the vector does; on an empty vector, where the outcome is
undefined, it does nothing. Reallocation under an iterator is not modelled.

`crossed` is kept for the properties: one thread has changed a vector another has looked
at and acts on next, in a way that matters to it (`Crosses`). Four orders do: both
create the child both missed; one creates behind the other's `back()`; one erases under
the slot the other found; both append a device of one key. Nothing in the code prevents
any of them.

### ClientLink

`file` says what each descriptor refers to; `serv_sock` keeps its number after the
close. A client that connects again while an earlier connection is open is refused, since
its session is still in the list (`StillListed`). `Returns` is `main()`'s decision on the result of `connect_server`. Two choices
stand for undefined values: `ReadNothing` (an uninitialized `mtype`) and, in
`ReadAnswer`, the byte of an operation's header that is taken for the REASON_CODE.
The receive thread's end is a step for each of `close`, the log's open and close, and
the flag. The sleeps are left out: they only make steps later.

### Framing

| Code | Definitions |
|---|---|
| `Session::send` of server and client, `set_actuator_operation`, `get_all_device_info` | `Pieces`, `Begin`, `Continue`; the lock in `MayBegin` |
| what each process sends, and in which order | `NextMessages` and the sets it uses |
| `receive_init_info`, `register_init_info`, `receive`, `IPC::receive`, `IPC.recv` | `InitReads`, `RegisterReads`, `ReceiveReads`; `Read`, `End`, `PythonEnd` |
| the end of the sending process | `Die` |

The link, one of four, is chosen at the start. A byte is its message and its place in
it; what it says matters only as lengths, which the message record has. A `read()`
returns what is there, up to what it asks for, so a field that comes in two pieces is
read short. When a read does not get its own field, the receiver's state is
`"lost"` and the model stops: what a C++ program makes of foreign bytes is not modelled.
The 300 ms sleep of `receive_init_info` is taken to be long enough for
REGISTER_CLIENT (`Awake`), which is what it is there for. The server lists a session
before it answers, so another thread's operation may be the first message of a client
(`ToClient`), which then takes a part of the address for the device ID (`Early`). At the
end of the stream Python reads missing fields as 0 and missing payload as nothing
(`PythonEnd`): it handles a PONG of which only the type has come.

Two bounds restrict the steps: `Bound`, the number of messages, and `Newest`: on the
link without a lock, a message begun within another is written to its end first. The
receiver is lost there in any case.

### ActuatorHandlers

| Code | Actions |
|---|---|
| `Session::receive` (client) | `ReadHeader`, `Fill` (one step a byte), `Spawn`, `Notice` |
| `main`, `register_init_info` | `Reconnect`, `ReadTrash` |
| `Controller::handle_message` | `Fetch` (one step a byte), `Operate` |
| the server, and the loss of the connection | `Send`, `Lose`, `End` |

The buffer has two cells after DEVICE_TYPE, enough to mix two requests in one text; a
cell holds the number of the message, or registration, that wrote it. A number device
takes one cell of the two it is sent (`Uses`): `controller.cpp:114` reads one byte of
four. The last cell of a text is `Stale`: Python announces a byte it does not send
(`ipc.py:307`), and the server sends the announced length with what an earlier request,
of any client, left in its buffer (`Written`). When the connection is lost between a header
and its payload (`Lose`, `"cut"`), the receive thread closes and starts no handler. The data race on a byte is an order of steps; torn bytes do not exist.

### Automation

| Code | Actions |
|---|---|
| `register_device`, `sensor_data_routine` | `Announce`, `Report` |
| `Manager::handle_message` | `Insert`, `Enter`, `Inform`, `PassOn`, and `HangUp` for the session's end |
| `IPC::receive`, `IPC::handle_message` | `ListDevices`, `ListOne`, `Operate`, `Stray`, `Misread` |
| `IPC.recv`, `set_actuator_operation` | `RecvInfo`, `RecvData`, `RecvPong`, `AskPending` |
| `check_scenario`, `check_scenario_list` | `CheckScenario`, `Raises`, `Concerned`, `Triggered` |
| the web thread | `WebAsks`, `AddScenario` |

A client tells its devices in the order of its list, first as REGISTER_DEVICE, then as
readings or PONGs, for ever. The two buffers between server and Python hold
`Capacity` messages, and a sender waits for space; those between client and server are
unbounded, since nothing a client waits for depends on them. What the server writes to
clients is left out: `Operate` takes a request off, and `SessionServer` says which client
it reaches.

A session inserts its device in two steps, `Insert` and `Enter`. If another session is
inserting meanwhile, `crossed` holds from then on, and any insert may put the device in
its place, lose one of any key, keep the one it should have replaced, or kill the server
(`Misplaced`): that is coarser than `DevTree`, where only inserts at one node get in
each other's way. Look-ups that run beside an insert see the repository before or after
it. `Inform` uses the device after the repository owns it: if another session has
replaced it, the server dies or Python gets `Junk`.

An operation has a kind. `"whole"` has the bytes it announces. `"uneven"` has fewer: a
text, or one for what is no actuator. `"raising"` raises an exception in `int()` or
`to_bytes()` after the header was sent, which ends the receive thread if that one asked
(what it does to the web thread is up to the GUI, which is not here). Of the last two the server reads what is
there (`Stray`), and either is back at the beginning of a message or is `astray`:
then it may take anything for a request or wait (`Misread`, without fairness).

`pending` is what is left of the loop over triggered scenarios, as a set: the
order of its operations is open, and a scenario that lists a sensor twice is operated
once. The loops over `deviceList` beside the other thread's reads are one step each
(the interpreter lock makes each list operation atomic). `is_alive` and times are left
out. When the server has died the model stops.

### Shutdown

A thread is the list of operations it has still to do, and on top of it, after a
signal, the handler's; a mutex is held by a thread *and* its layer. `SignalHandler` is
`signal_handler` with everything it calls. Locks inside the C++ library, which the
handler may find taken as well, are left out.

## 3. Runs

Every run sets `CHECK_DEADLOCK FALSE`: the numbers of connections, messages,
insertions and losses are bounded, and a process whose peers have all gone waits.

| Run | Bounds | Shows |
|---|---|---|
| `requests` | Python, 2 clients, 2 IDs, 3 descriptors, 2 requests, 1 log file | `TypeOK`, `ListExact`, `UniqueIds`; the list implements `ClientDirectory` |
| `descriptors` | Python, 3 clients, 2 IDs, 2 descriptors, 1 request | `IpcKeepsItsSocket`, `RegistrationAnswered`, `OwnRegistration` |
| `progress` | Python first, and staying, then 3 clients in order with IDs i1, i2, i1, 4 descriptors, backlog 1 | `Answered`, `GoneForgotten` |
| `writers` | 2 writers, 2 addresses (one of them two levels deep), 2 IDs, 3 insertions, 1 search | `TypeOK`, `Placed`, `KeysUnique`, `RepositorySpec`, `FoundIfKept` |
| `reconnect` | 4 descriptors, 4 losses | `TypeOK`, `SocketKept`, `ConnectedIsWatched`, `Reconnects` |
| `bytes` | the 4 links, 2 threads, addresses of 2 tokens, payloads of 0 or 2 bytes, 3 messages (2 without a lock) | `TypeOK`, `InStep`, `NothingTorn`, `Delivered` |
| `handlers` | 3 messages, 1 loss | `TypeOK`, `NeverOlder`, `Executed` |
| `drains` | 2 clients, 3 devices in two distributions, 3 scenarios, buffers of 1 message, 2 readings, 1 lost connection or act of the web thread | `TypeOK`, `KnownBeforeData`, `NamesOwner`, `QuietAgree`, `ScenarioSound`, `OnlyClogs`, `DataInOrder`, `Drains` |
| `sigint` | 3 threads, 3 signals | `TypeOK`, `OnlySelfLocks`, `Stops`, `Returns` |

Why the bounds are enough: a conflict over an ID takes two sessions, and a third
client is needed to take a number between its first and its second close while
another one is refused; two requests are a device and an operation of it, or a
listing. In `descriptors` the one request is a device whose answer goes astray, and two
descriptors, one of them Python's, make every client take the number of the last. Three
insertions are a registration, one again, and another beside them in the same place, or
new places beside and below one another: `writers` reaches all four ways to cross, and
looks for a device that is replaced or joined by another, before and after inserts have
crossed. Four losses let a client lose its server during registration, while serving,
and again after it came back.

In `bytes`, three messages are the first of a connection, which is read otherwise than
the rest, and two that two threads may try to send at once; two messages are enough for
one to be begun within another. In `handlers` a third request overwrites the second
while the first is still executed, and one loss lets a registration overwrite them. In
`drains` a buffer of one message is the smallest that can fill; the devices are apart in
one distribution and shared in the other, so that a device changes its owner; one
scenario needs two sensors of which one may be missing, and one can be added whose value
is no number and whose operation raises. Scenarios need two readings. A lost connection
lets a client come back and register again; a behaviour has this or an act of the web
thread (`MaxExtras`). With two of these and one reading (2.2 million states) the safety
properties hold as well. In
`sigint` the three signals can hit all three threads, and each of the threads may be the
one that holds a mutex.

`descriptors`, `requests` and `writers` use symmetry, sound for safety: clients, IDs and
inserting threads are only compared, and `ClientDirectory` and `DeviceMap` treat
them alike. `progress` uses none; it names the connections in the order they
arrive instead (`OrderedSpec`). Both properties except a thread
that reads a connection that is not its own (`Astray`): without the exception they
fail. The second close of one session may give the number of another away; that
session's thread then reads the next client's connection, its own ID stays taken when
its client goes, and it may take the REGISTER_CLIENT message the accept loop waits
for, so that neither this client nor any after it is answered.

### Where the code differs from what it says

One run each, with the counterexample TLC finds (details in `PROJECT.json`):

| Run | Property | The code |
|---|---|---|
| `to_client` | `ToItsClient` | an operation reaches another client |
| `duplicate` | `DuplicateRemoved` | two threads: another device is removed |
| `client_wait` | `WaitsForServer` | a waiting client uses up its descriptors on failed connects, and takes the error of `socket()` for success |

The models also reach, without a run of their own (what is excepted in a property is
named there):

- `SessionServer`: an operation written to a client before its REGISTER_DONE, for a
  device an earlier session of the ID registered (between `InitRegister` and
  `SendDone`); a client that takes the answer to another's device for its registration,
  written under a number that three sessions have had (`SharedNumber`); the destructor closing another client's connection (`Destroy`); a client
  refused as the duplicate of one that has gone (until `Unregist`); an IoT client
  that becomes `ipc_` because it connects before Python (`AcceptIpc`); device
  information written to the client that got `ipc_`'s number after Python left
  (`InformPython`).
- `DevTree`: a place created twice by two threads (`Search`, `Create`); a search that
  misses a device while it is registered again (between `Erase` and `AppendDevice`).
- `ClientLink`: a client that misreads an operation as a refusal, connects again beside its
  own session and is refused for it (`StillListed`); one that ends because its server went during registration
  (`ReadNothing`); one killed by SIGPIPE (`Send`); a message written into log.txt while
  the receive thread logs under the number of the closed socket (`OpenLog`).
- `Framing`: the client out of step because an operation came before the answer to its
  registration (`Early`), or because it read 3 bytes of which 1 was written (`Hasty`); the server out of step because Python's threads wrote into each other's
  messages, announced a byte too many, or left out PAYLOAD_LENGTH (`Muddled`); Python
  handling a PONG cut short, and reading nothing for ever after the end of the stream.
- `ActuatorHandlers`: a request executed with the bytes of a later one, or of two; a text
  that ends with a byte nobody sent (`Stale`).
- `Automation`: a scenario that passes because a sensor of it is unknown
  (`CheckScenario`); Python asking the first owner of a device for ever
  (`RecvInfo`); a stale owner operating a device it has; the use of a freed device
  (`Inform`); devices Python knows and the repository has lost (`Misplaced`); both buffers
  full and nobody reading (`Clogged`); the receive thread ended by a scenario's value, that
  of a sensor or of an actuator (`raised`); the IPC thread in mid-message (`astray`).
- `Shutdown`: the handler waiting for a mutex held by the code it interrupted
  (`SelfLocked`).

### Fairness

- `SessionServer`: weak fairness of each thread (the operating system runs what can
  run; a blocked `read` or `accept` is not enabled), and of a client's next step
  after `connect`: it sends REGISTER_CLIENT at once (client `session.cpp:58`) unless
  its process ends. Nothing makes Python or a client ask for anything.
- `ClientLink`: weak fairness of both threads, of the server's start, and of its
  answer, which is what `Answered` shows of the server. Losses are bounded and never
  forced.
- `Framing`: weak fairness of a thread within `send` and of the receiver. Nothing
  makes anybody begin a message or end.
- `ActuatorHandlers`: weak fairness of the receive thread (with `main` between
  connections) and of each handler.
- `Automation`: weak fairness of each session thread, the IPC thread and Python's
  receive thread; a full buffer disables a send. Clients and the web thread are free.
- `Shutdown`: weak fairness of what a thread does on its own and strong fairness of
  taking a mutex: between two lines of the log each thread waits for the network, so
  none can take the mutex again and again while another waits for it.

## 4. Proofs

Every safety invariant, action property and refinement of the passing runs is a
theorem: the runs show it on small instances, the theorem for every value of the
constants. No set is assumed finite, and the bounds (`MaxInserts`, `MaxSignals`, ...)
are any natural numbers.

| Module | Theorem | States |
|---|---|---|
| `SessionServerProofs` | `TypeCorrect`, `ListCorrect`, `IdsUnique` | `TypeOK`, `ListExact`, `UniqueIds` |
| | `IpcSocketSafe`, `AnswersRight`, `RegistrationsOwn` | `IpcKeepsItsSocket`, `RegistrationAnswered`, `OwnRegistration` |
| | `ServerImplementsDirectory` | `DirectorySpec`: the list implements `ClientDirectory` |
| `DevTreeProofs` | `TypeCorrect`, `NothingOverlooked` | `TypeOK`, `FoundIfKept` |
| | `DevicesPlaced`, `NoTwoOfAKey`, `ImplementsMap` | `Placed`, `KeysUnique`, `RepositorySpec` |
| `ClientLinkProofs` | `TypeCorrect`, `ConnectionKept`, `FlagIsWatched` | `TypeOK`, `SocketKept`, `ConnectedIsWatched` |
| `FramingProofs` | `TypeCorrect`, `NoneTorn`, `ReadersInStep` | `TypeOK`, `NothingTorn`, `InStep` |
| `ActuatorHandlersProofs` | `TypeCorrect`, `OperatesWithNothingOlder` | `TypeOK`, `NeverOlder` |
| `AutomationProofs` | `TypeCorrect`, `AsksOwners`, `ScenariosHold` | `TypeOK`, `NamesOwner`, `ScenarioSound` |
| | `ListsAgree`, `DevicesFirst`, `LatestKept` | `QuietAgree`, `KnownBeforeData`, `DataInOrder` |
| | `NoOtherStandstill` | `OnlyClogs` |
| `ShutdownProofs` | `MutexesOwned`, `NoOtherDeadlock` | `TypeOK`, `OnlySelfLocks` |

The only assumptions are those the modules make on their constants:

- `SessionServer`: `PythonAssumption` (Python is a connection), `FdAssumption`
  (descriptors are numbers), `NoneAssumption`;
- `DevTree`: `AddressAssumption` (an address is a sequence of numbers and not empty:
  the devices' constructors are given constants), `BoundAssumption`;
- `ClientLink`: `FdAssumption`, `LossesAssumption`;
- `Framing`: `SenderAssumption` (`MainThread` sends), `LengthAssumption` (an address
  has tokens, a payload bytes; what has none is 0 in the message);
- `ActuatorHandlers`: `BoundAssumption`;
- `Automation`: `KeyAssumption`, `ConfigAssumption`, `ScenarioAssumption` (scenarios
  are made of keys), `CapacityAssumption` (a buffer takes a message), `BoundAssumption`;
- `Shutdown`: `MainAssumption`, `SignalAssumption`.

No theorem restricts the number of threads, clients or sessions. What their races spoil is
part of the properties: those of the repository hold until two inserts cross, and the run
`duplicate` shows that the exception is needed.

### SessionServer

`TypeOK` is not inductive, since nothing in it says that an operation
under way belongs to `ipc_`. `IInv` adds `BacklogOK` (a connection waits in the
backlog once, and has no object while it does) and `StageOK` (which stages `ipc_` and
the sessions can be in, and that a session is `registered` exactly in the stages
after `regist_session` accepted it). There is one lemma for each operation. Given
`IInv`, only `InitRegister` and `Unregist` touch the list or make a registered
session dead (`MainFrame`, `ThreadFrame`, `PeerFrame`). `ListExact` and `UniqueIds`
need each other: the entry with a session's ID that `unregist_session` erases is its
own (`OwnEntry`) only because IDs are unique. The destructor's test of `registered`
is what makes the proof of `ListExact` go through for a refused client.
`IpcKeepsItsSocket` needs that no other object ever *had* the number of `ipc_` while
it was open (`SocketOK`): `ipc_` accepts before any session does, and `accept` gives
nobody a number in use. The refinement follows from the same two lemmas about
`InitRegister` and `Unregist`. `RegistrationAnswered` needs `AInv`: a
REGISTER_CLIENT says the ID its client has (`HelloOK`); the main thread has one session in
its hands, whose number is that session's own or nobody's (`InHand`), because only the
main thread opens connections; and a session is answered once, for the ID it read, and
not before it is listed or refused (`AnswersOK`).

`OwnRegistration` needs to know how a number can have come to another connection:
`OwnerOK` (a number refers to the connection `accept` returned it for, whose object has
not closed it) and `LostOK` (a session that still writes, and whose number is no longer its own,
has had it closed by another object with the same number, which is past its own close).
A REGISTER_DONE that session writes then meets both of them at the client it reaches.

### DevTree

`TInv` (`TreeOK`: every node but the root has an older parent; `WritersOK`: where each
thread stands; `CountsOK`; `ReaderOK`) is inductive for any number of writers, since
nodes are never removed. `FoundIfKept` needs `HeldOK`: a device that was there when the
search began, and still is, is at a node the search has to visit, and is found once that
node has been visited; no append can put such a device elsewhere, because every
`insert` brings an object of its own (`Fresh`).

As long as no two inserts have crossed, `OInv` says, for any number of writers, that no two
nodes are at one place (`PlacesDiffer`), that each device is at the place of its address
(`InPlace`), that no node has a key twice (`NodesOK`), and what each thread has found where it
stands (`FoundOK`: `create` only when no child has the number, `append` only when no device
has the key). `crossed` is exactly what keeps one thread's step from spoiling `FoundOK` of
another (`StillFound`). `place` is a recursive function: that its equation has a
solution (`PlacesExist`) is carried along in the invariant, where a new node extends it,
and uniqueness is shown by a least counterexample. In the refinement a registration takes
effect when the scan for a duplicate ends (`ScanRegisters`); every other step is a stutter
(`WalkRegistersNothing`, `EraseRegistersNothing`, `AppendRegistersNothing`). The stamps of
devices (`Fresh`) say which of two is the newer, and the append of one leaves the key to
the newest that is still on its way (`AppendAlone`).

### ClientLink

`FlagOK` is the protocol of the flag: it is set before a receive thread starts and
cleared last in it, and `main()` connects only while it is not set. So no two
receive threads live at once, and the number one of them closes is the number of its own connection
(`SocketKept`). The three invariants are inductive together.

### Framing

`IInv` holds on all four links, muddled or not: a thread is at a piece of a message it
alone writes (`SendingOK`), the receiver is at one of the reads of its message
(`ReaderOK`), and each byte in the stream was written, once, and lies beyond what was
read (`Written`, `Once`, `Unread`, `Ahead`). The lemmas about fields say where the
pieces of a message (`PieceBounds`) and the receiver's reads (`ReadBounds`) begin and
end, and that no piece begins within a read of the same message (`NoneWithin`).
`NothingTorn` follows since a message is handled only after reads that each got their
field, but for Python's at the end of the stream.

`InStep` needs more: `Straight`, which holds while no message was begun within another
and Python's lengths are right. The stream is then the messages themselves, from where the
receiver is to where the sender is (`NewestOnly`, `Contiguous`, `FromReader`,
`ToWriter`, `NoneLeft`), which a least counterexample turns into the position of every
byte (`StreamIsMessage`). A read that starts at a field therefore gets that field. Only a
read of two fields at once can come short: the client's of the answer to its registration,
or the server's of a first message whose sender died within it (`Hasty`). The fourth read
of a message a client did not expect (`Early`) is the only other way to lose step there;
the reads before it are the same for every message (`OutOfPlace`).

### ActuatorHandlers

`IInv` relates the order of messages to the buffer they share: handlers, then the
message being read, then those on their way have increasing numbers (`InOrder`);
the first cell, the one `NeverOlder` is about, holds nothing later than what was read, and
for a request that has a handler nothing earlier (`BufferOK`); and nothing is on its way while a registration
overwrites the buffer (`Quiet`).

### Automation

The invariants are proved in layers: types (`TypeInv`); that whoever is said to own a device,
in the repository, in a message either way, in a listing or by Python, has it (`OwnerInv`, from
which `NamesOwner`); that what the repository has is what Python has heard of, but for what
a session has still to tell, and the converse until inserts have crossed (`Agreeing`, from
which `QuietAgree`); that a reading on its way
has its device's announcement before it (`Announced`, from which `KnownBeforeData`); and
that no reading of a client overtakes another in either buffer or in what Python keeps
(`Ordered`, from which the action property `DataInOrder`). `ScenarioSound` is
inductive, given the owners: readings and the list change only while no operation is left to be
asked for, and those left after a reading are of scenarios checked with it (`SoundStep`).
`OnlyClogs` needs no more than the types and that connected clients are listed: who waits
for room waits for the reader of a full buffer, which waits for room in the other.

### Shutdown

`IInv` is `TypeOK`, which says who owns each mutex, with `ProgramsOK`: all that a thread
has still to do is *balanced* (whoever locks a mutex unlocks it before it locks it again).
Every program of the code is, and so is every tail of one (`BalancedTail`); an operation moves a
thread into or out of a mutex exactly as the holder changes (`AfterOperation`).

`NoOtherDeadlock` adds `OInv`. Programs are *orderly*: whoever takes the log mutex, or the
singleton mutex, has its unlock as its next operation; the one exception is `main()`, which logs
while it creates the instance, before the handler is installed and before any
other thread runs (`AloneOK`). A handler gets no further than to a mutex its own
program holds (`StuckOK`). So the owner of a mutex can go on, unless it was interrupted
there (`OwnerGoesOn`). If it was, its handler waits for that very mutex, or, when it
holds the log, may first wait for the singleton mutex, whose owner can go on or has
locked itself up (`SingletonSettled`, `LogSettled`).

### Only model-checked

- The liveness properties (`Answered`, `GoneForgotten`, `Reconnects`, `Delivered`,
  `Executed`, `Drains`, `Stops`, `Returns`): temporal properties under fairness are
  outside the prover. `OnlySelfLocks` and `OnlyClogs` are the parts of `Stops` and
  `Drains` that need no fairness, and they are proved.
- The three runs that end in a counterexample: there is nothing to prove.

## 5. Not modelled, and what is left to prove

Not modelled:

- the steps inside one operation of `session_list_` or of a node's vector, with
  their races (reallocation beside a reader): the outcome is undefined, and a model
  would have to take anything for it;
- the aliases of places, `db_test` and `DeviceList.clear`, which have no caller;
- the GUI (`web_main` is missing), `is_alive`, and the dictionaries made for the GUI;
- the values of sensors (random in the code), the conversion of addresses (applied to
  constants of the code only), the text of logs;
- the start scripts: the models let processes start in any order, but for `progress`;
- recorded logs and binaries.

Left, beside the liveness properties, which are out of the prover's reach: their safety
parts, each to be checked by TLC before it is proved, as `OnlySelfLocks` is that of `Stops`.

1. `SessionServer`: an ID is in the list only while a thread is left that will take it
   out, or one that is `Astray`.
2. `ClientLink`: a client that is cut off has a thread that can go on, until it ends or
   runs out of descriptors.
