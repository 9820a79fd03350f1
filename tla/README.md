# TLA+ verification of Node_Management

Node_Management ("NoM") watches network nodes over UDP. A client sends
REGISTER; the program creates a node object with its own thread, pings the
client, expects a PONG to each ping, tells the other clients when one falls
silent (NOTIFY), and removes it when it stays silent. The program is C++ with
seven kinds of threads, four global queues and, in one place, shared data
without a lock. This directory holds TLA+ models of it, TLC runs and TLAPS
proofs. Paths below are relative to `src/source/`.

## 1. Inventory

| Part | State | Operations | Talks to |
|---|---|---|---|
| `ThreadSafeQueue` (Utils.h) | deque, mutex, condition variable, atomic `m_running` | push, pop, tryPop, waitAndPop, peek, getSize, resetQueue, stop, start | every thread |
| `NodeBase` and its states (node_service/) | current state, pong flag, `m_running`, thread, client address | start, stop, setPongState, handleState of Init/Alive/Timeout/Dead | pushes to `g_messageNodeQueue`; pong flag set by the manager |
| `NodeManagament` | `m_vecNodeBase`, `m_running`, two threads | start, stop, handleReceivedData, handleSendData | pops `g_receivedIOQueue` and `g_messageNodeQueue`, pushes `g_sendIOQueue` |
| `IOHandler` | `m_running`, two threads, socket handle | start, stop, handleRxThread, handleTxThread | pops `g_bufferUDPRecv` and `g_sendIOQueue`, pushes `g_receivedIOQueue` |
| `UDPReceived`, socket functions (udp_connected_lib/) | thread, socket handle | start, stop (never called), handleRxThread, recvDataUDP, sendDataUDP | pushes `g_bufferUDPRecv` |
| `AppCtrl` | state INIT/EXECUTE/FINALLY/SHUTDOWN | initialize, execute (menu), finalize | start and stop of both managers |
| `Packet`, `Utils.cpp` | packet fields | encode, decode, set_bits, get_bits | IOHandler |
| `Log_Handler` | one file stream | logging macros | every thread |
| `DataPlaneNode`, `ControlPlaneNode`, `OAMNode` | `m_type` | constructors | NodeManagament |

The way of a message:

    socket -> UDPReceived -> g_bufferUDPRecv -> IOHandler RX -> g_receivedIOQueue
           -> NodeManagament RX -> m_vecNodeBase / setPongState
    node thread -> g_messageNodeQueue -> NodeManagament TX -> g_sendIOQueue
           -> IOHandler TX -> socket

What is hard about it, and what makes each part correct:

* **Queue.** Seven kinds of threads meet in it. The tests of `m_running`
  in push and pop precede the lock. Correct: no lost wake-up, capacity never
  exceeded, order per producer, stop() releases every waiter.
* **Node.** A pong can arrive at any moment of a ping window, late or twice;
  the queue to the manager may be full or stopped. Correct: given up after
  exactly 1 + RETRY_NUM silent windows in a row, never before; its death is
  announced last.
* **Manager.** RX (handleReceivedData) and TX (handleSendData) share the vector
  without a lock; erasing a node joins its thread. Correct: one node per client,
  no invalid access, TX joins only threads that are ending, dead nodes go away,
  stop() returns.
* **IOHandler and AppCtrl.** Packets are allocated by one thread and deleted by
  another; the user stops and starts either half of the program at any point; the
  socket may be missing, and is closed while UDPReceived's thread runs. Correct:
  order kept, nothing twice, nothing used after its deletion, silence after stop(),
  the socket closed after those who send on it have ended, every call of the main
  thread returns.
* **Codec.** Lengths come from the other side, widths count bits and sizes bytes,
  and a port crosses a byte-order border. Correct: each side gets what the other
  meant, and no buffer is left.
* **Time.** A node sleeps with its lock held, and the one thread that delivers
  pongs waits for it. Correct: the delay is bounded by what is queued before, and a
  client that answers in time is taken for silent only when that much is queued
  (which nothing in the code prevents: a finding).

`PROJECT.json` lists the hazards one by one with their lines.

## 2. Modules

| Module | Content |
|---|---|
| `LossyFifo` | abstract: what the users of a queue may rely on |
| `ThreadSafeQueue` | the queue for any number of threads; implements `LossyFifo` |
| `NodeLifecycle` | abstract: what a node promises, one ping window at a time |
| `NodeBase` | the node's thread; its environment; implements `NodeLifecycle` |
| `NodeTiming` | the windows and sleeps of the nodes with a clock, on top of `NodeLifecycle` |
| `Monitor` | abstract: which clients are monitored, and which nodes may be removed |
| `NodeManagament` | RX, TX and the main thread composed with the nodes (EXTENDS `NodeBase`, whose environment it replaces); implements `Monitor` |
| `MCNodeManagament` | constraints and symmetry for TLC |
| `IOHandler` | UDPReceived, IOHandler RX and TX, start and stop; the manager and the network as environment |
| `AppCtrl` | the main thread from initialize to finalize, over `IOHandler` |
| `Codec`, `MCCodec` | encode, decode, the clients' builder and parser, on bytes; values for TLC |
| `ThreadSafeQueueProofs`, `NodeBaseProofs` | theorems about the modules they are named after |
| `NodeManagamentProofs` | what holds of the manager with no assumption about overlaps |
| `RaceFreeProofs` | what the manager guarantees until RX and TX overlap on the vector; that it is an environment as `NodeBase` assumes |
| `MonitorProofs` | refinement of `Monitor` |
| `AppCtrlProofs` | theorems about `IOHandler` and `AppCtrl` |
| `NodeTimingProofs` | theorems about `NodeTiming` |
| `CodecProofs` | theorems about `Codec`, and the lemmas about bits and bytes they need |

### Conventions

* One action per piece of code that touches shared state. What runs under a
  mutex that is not held across a wait is one step. A test outside the lock is a
  step of its own (`PushCheck`/`PushLocked`, `PingCheck`/`PushPing`,
  `UdpCheck`/`UdpPush`).
* `...At`, `pc` and `m_thread` are program counters; names such as `wait`, `join`,
  `erase` say what the thread is about to do. Other variables carry the names of
  the source.
* `waitAndPop` followed by the caller's test of `m_running` is one step: a
  thread's read of its own manager's flag just after it left the queue. Nothing
  that another thread does in between changes the outcome but `stop()` clearing
  the flag, and the model has the same outcome with the flag cleared first.
* The stores of start() and stop() are steps of their own, in the order of the
  code, wherever another thread reads them: in the manager m_running first, then the
  two queues, then the threads.
* Definitions whose names start with `Mut` are mutants: plausible bugs, used to
  see that a property can fail. They are not part of the specification.

### ThreadSafeQueue

An element is (producer, number of its call). `delivered` remembers the last
element of each producer that was handed out. `waitAndPop` on a non-empty but
stopped queue returns without an element, as the code does. Spurious wake-ups
are included. peek and getSize are left out: they change nothing.

### NodeBase

`m_thread[n]` is the location of node n's thread. A ping window is
`BeginPing` (clear the flag), `PingCheck`/`PushPing` (sendPing), then
`PongReceived` or `PongTimeout`. wait_for returns false only if the flag is
still false under the mutex; the wait itself has no clock, so a pong and the
timeout race freely. A node sleeps its 500 ms with `m_mtx` held: `SetPong` is
disabled meanwhile, as `setPongState` blocks. `lost` remembers the nodes whose
DEAD notification was thrown away by a stopped or full queue.

`NodeBase::m_running` has no variable: it is true from start() until DeadState
calls stop(), which is the location. The branches of the wait that test it are
dead code.

The environment of `NodeSpec` registers, deletes, answers and takes messages at any
time. That the manager does no more than this is `NodesAsAssumed` of
`NodeManagament`.

### NodeManagament

`m_vecNodeBase` is a buffer of slots with `size` and `capacity`; iterators are
positions. A traversal takes one element per step. `erase` is performed as
libstdc++ does: element after element is moved down; assigning to a slot
deletes what it held, which joins the node's thread (`TxJoin`); the last slot is
destroyed at the end. `push_back` on a full buffer reallocates and leaves TX's
iterator `Dangling`. The C++ standard calls what follows undefined; the model
takes: reading a live element works, anything else is `Crash`.

`raced` becomes true when RX pushes while TX is inside the vector, or TX erases
while RX is inside it. Most properties are promised only before that.
`manager` stops there (`CONSTRAINT UntilOverlap`); `manager_liveness`,
`finding_duplicate` and `finding_zombie` have no constraint and explore what follows.

`Monitor` is what remains when threads, vector and messages are forgotten: known
nodes, their ports, and which were given up. A slot that erase has moved from is
not a node; a node is removed in the step in which its slot is overwritten or
destroyed. `ImplementsMonitor` lets any step be taken once RX and TX overlap.

A `waitAndPop` that returns without a message while `m_running` is set would make TX
serve whatever its local `messageNode` was left with (`TxStopped`; the model does not
keep the old message and lets it be any). The state with the flag set and the queue
closed exists, inside start(); `NoStaleDispatch` says that TX never meets it.

Packets arrive in any order and number. Every ping goes straight on to
`g_sendIOQueue`, which this module does not keep. Creation order gives the node
numbers, as in the code (`m_nodeID`).

Nodes are identified by port alone, on purpose or not: two hosts' clients with one
port are one node to this program, and so they are here.

### IOHandler and AppCtrl

A datagram or packet is a number; `live` is the set of allocated packets.
`recvDataUDP` returns 0 with a datagram, and also for an empty one and for
WSAECONNRESET: then the buffer is zeroed and reads as a REGISTER (of type BASE,
which the manager ignores). Other errors change nothing.

The manager is reduced to what IOHandler sees: `managerAt` is "absent" while its
threads do not run, and the location of TX otherwise: a message once taken is served
to its end, with any number of packets, also when stop() has begun; `receivedOpen` is
the flag of `g_receivedIOQueue`, and stands for the manager's `m_running` too,
which changes in the same calls. `NodeManagament` has the two apart.

`AppCtrl` adds the main thread. `sock` is INVALID_SOCKET if `initUDPSock` failed,
which `initialize` does not notice: everything is started on it. The menu starts
and stops both halves in any order; `finalize` stops what runs, waits for it, and
closes the socket. UDPReceived's thread is never stopped and outlives this; a
closed or missing socket gives it nothing. `SendersEndBeforeClose` is therefore about
TX and the manager only: that thread uses the handle when closesocket is called.

### Codec

A state holds one message and says how far it is. `set_bits` and `get_bits` work
on bytes as the code does, bit by bit at an offset (`ShiftRight` is >>, `Number`
the loop that shifts bits in; both are recursive functions, so that the module can
be reasoned about); `encode`, `decode`,
`recvDataUDP` and the client's `parse_incoming_packet` and `build_..._packet` are
built on them. The client of `udp_client_gui.py` has a format of its own: the
length byte counts the whole packet, and a port is unpacked with the other byte
order than the manager's header has; since the manager writes `sin_port`, which
is in network order already, as a number, the two orders cancel on the
little-endian machines the program runs on. `ClientUnderstands` depends on that.
The decoding of bytes to characters in the clients is left out.

### NodeTiming

`NodeBase` lets pong and timeout race at any moment. This module adds when: a window
is 2000 ms, a sleep 500 ms, and a tick the unit of a run. Threads take no time, so the
clock stands while one has something to do; what delays a pong is only the receive
thread waiting for a sleeping node. A punctual client answers within `RoundTrip`, which
is shorter than a window; that is all that is assumed. Any client, the punctual ones
too, may also send pongs late, twice or unasked. `MaxPongs` bounds how many are queued
when another such pong comes; the code has no bound short of MAX_SAFE_QUEUE, and no
property or proof rests on this one. What is left out is that limit, 100000 pongs, at
which a push drops the oldest, and stop().

A pong carries how many were queued before it and how long it has waited.
`DeliveryBounded` is the price of a pong: one sleep. A node that wakes up clears its
flag with the next ping, so the pong at the head is delivered before it can sleep
again. `PunctualLostOnlyToBacklog` says when that price makes a punctual client look
silent, and `finding_backlog` shows that it does.

## 3. Runs

| Run | Bounds | Shows |
|---|---|---|
| `queue` | 3 threads, capacity 2, 2 pushes each | wake-ups, capacity, order, release on stop; refinement of `LossyFifo` |
| `node` | 2 nodes, RETRY_NUM 2, queue of 2 | refinement of the life cycle; the DEAD notification is last and means the thread is ending; a silent node ends |
| `timing` | 3 nodes, 1 punctual client, 2 pongs queued when a late one comes, windows of 3 ticks, sleeps and round trips of 1 | delivery is bounded by the pongs queued before; a punctual client loses a window only to such a backlog, which happens |
| `manager` | 3 nodes on 2 ports, or 2 nodes with one stop and restart, RETRY_NUM 1, up to the first overlap | one node per port; nothing invalid is used; who is joined, which dead nodes stay, no notice of a deleted node; refinement of `Monitor` |
| `manager_liveness` | 2 nodes, 1 port, one stop and restart, fair, overlaps and crashes included | nothing stale is served around stop() and start(); dead nodes are removed; stop() returns; the nodes are treated as `NodeBase` assumes |
| `io` | 3 datagrams, 3 packets, queues of 2, 2 starts of IOHandler, any of the manager | order, nothing twice, ownership, the send side ended before the socket is closed |
| `io_liveness` | 2 datagrams, 1 packet, 2 starts, fair | silence after stop(), every call of the main thread returns, left-over datagrams are served |
| `codec` | payload lengths of the program, 13 texts, 5 types, 6 ports, 14 foreign datagrams | both sides understand each other; buffers are kept |

The bounds are small, and chosen so that each case happens. Two nodes on one
port need a death and a re-registration. Three nodes on two ports add two
reallocations (capacity 1, 2, 4) and a successor beside a live neighbour. A
queue of two overflows, and can hold a TIMEOUT and a DEAD notification of one
node at once. RETRY_NUM 2 in `node` has a first, a middle and a last retry; in
the manager runs the number of retries only lengthens the path to DEAD, and 1 is
used; so is it in `timing`. Three datagrams, and three packets, are one more than a queue of two holds. One restart has
left-overs of the first life meet the second. The texts of `codec` have the
lengths at which encode and decode change what they do, and set every bit; its
ports differ in both bytes, are equal in them, or have an empty one. IOHandler treats REGISTER and PONG alike, so `io` has
clients send one of the two and one ignored type; `io_liveness` has all three. Ports are symmetric: they are
compared for equality only. Liveness is never checked with symmetry or a
constraint. `ImplementsMonitor` in `manager` is, and may be: it is of the form
[][A]_v, judges single steps, and is symmetric in the ports; it is a theorem as well.
`UntilOverlap` also keeps the stop apart from the third registration: once there are
three nodes, or two and a stop, RX serves nothing more. What a pong does to two nodes
around a stop is left to `manager_liveness`. In `timing` the window is 3 ticks,
so that two pongs queued before an answer are enough to lose it (1 + 2 >= 3).

### Findings

Four runs check what a comment says, and TLC finds a behaviour of the code that
contradicts it.

* `finding_duplicate` (NodeManagament.cpp:176, "adds a new node if not already
  present"): RX finds the node of a client in the last position; TX erases an
  earlier one; `it == end()` is now true, and the client gets a second node.
* `finding_zombie` (NodeBase.cpp:328, "Notify for NoM that this node is dead"):
  the notification is discarded while the manager is stopped. After a restart
  the dead node stays, and blocks its client's registration.
* `finding_leak` (IOHandler.cpp:171, "responsible for eventually deleting"): a
  packet refused by a stopped queue, or dropped from a full one, is never deleted.

* `finding_backlog` (NodeManagament.cpp:152, "Updates the corresponding node's
  PongState when a PONG is received", and NodeBase.cpp:237, "Pong received - stay
  alive, wait before next ping"): the wait holds `m_mtx`, and the thread that delivers
  everybody's pongs blocks on it. In ticks of 250 ms, with the constants of Utils.h
  (windows of 8, sleeps of 2): four pongs of one client are queued, and a client that
  answers every ping within one tick, whose answer stands behind them, is suspected.
  With three it is not.

## 4. Fairness

* Queue: a thread that was woken gets the mutex (weak fairness on the woken part
  of waitAndPop). No section under the mutex blocks. Callers may never call.
* Node: a started thread keeps running: its calls return, its waits are timed.
  Nothing is assumed of clients and manager, so `SilentNodeGivenUp` says: a node that
  has sent a ping and has no pong, in whatever state it was, ends unless one comes.
* Manager: RX, TX, every node thread, and the main thread once it is inside
  stop() or start(). Neither need ever be called. Weak
  fairness is enough. TX joins a thread that is ending. RX may find a node asleep
  with its mutex held, again and again; but while RX waits no pong is delivered,
  so the node stops sleeping, and the mutex becomes free for good.
* IOHandler and AppCtrl: RX, TX, the manager's TX once it serves a message, and
  the main thread whenever it is not at the menu. Users, network, and what the
  manager sends are free: `Served` says "unless IOHandler is stopped".

## 5. Proofs

All theorems hold for any value of the constants within the named assumptions.

`ThreadSafeQueueProofs` (any set of threads, capacity at least 1, any number of
calls): `TypeCorrect`, `FifoCorrect`, `CapacityCorrect`, `WakeupCorrect`,
`FifoImplemented`.
The order is not inductive by itself: a thread between the test and the lock of
push carries a number not yet in the queue. `FifoInv` adds that all elements of a
thread, queued or delivered, are below `Limit`, the least number its next element
may carry. Steps are first sorted by what they do to the queue (kept, dropped,
emptied, taken, pushed: `StepForms`), then each form is shown to keep the order.
Capacity and wake-up are inductive on top of the types. The same forms are the
operations of `LossyFifo`; that a push under way is its `Put`, whose element is
newer than all before, is `FifoInv` again (`PushedIsPut`).

`NodeBaseProofs` (any number of nodes and clients, RETRY_NUM in 1..255, capacity
at least 1): `NodeTypeCorrect`, `DeadNoticeCorrect`, `LastNoticeCorrect`,
`LifecycleImplemented`. `NodeInv` has two parts. `NodesOK` ties the location of a
thread to its state (a retry only in TIMEOUT, a notification only from TIMEOUT or
DEAD, the counter below RETRY_NUM during a retry): without it the counter's type
is not inductive. `MessagesOK` holds of the queue: a DEAD message belongs to a
leaving thread and is the last of its node. `LeavingStays` carries the second
over steps of threads, `QueueOKTail` and `QueueOKAppend` over queue operations.
The refinement maps a location to a phase and a count of silent windows; with
`NodeInv` each step of a node is one step of the abstract node, or none, and leaves
the other nodes alone (`LiftStep`).

`NodeManagamentProofs` (any number of nodes, ports, hosts and stops):
`ManagerTypeCorrect`, `NoStaleDispatchCorrect`, `DeadNoticeInManager`,
`LastNoticeInManager`. `ManagerInv` holds with or without
overlaps, also after a crash: the vector may be corrupted, but slots hold nodes or
nulls. It extends `NodeInv` by a part for each thread. `MainOK` ties the flags, and
whether TX exists, to the main thread's place in stop() and start(). `NoStaleDispatch`
follows: where `m_running` is set and the queue closed, which is the case between two
stores of start(), TX has ended or has not been created.
`RxOK` and `TxOK` say what is in hand at which place, for instance that RX is in a
registration only while a node can still be created; without this `m_nodeID`
could pass its bound. `Fresh` says that nodes are created in the order of their
numbers. The proofs of the node's thread are used as they are: the manager
replaces only the environment of `NodeBase`. Since `NodeInv` is part of `ManagerInv`,
what `NodeBase` promises about DEAD notifications holds in the manager too, even
after an overlap.

`RaceFreeProofs` (same constants): `UniquePortsCorrect`, `JoinTargetCorrect`,
`NoCrashCorrect`, `ZombieOnlyByLossCorrect`, `NoNoticeOfDeletedCorrect`. None of
the five properties is inductive, and none can be proved without the others. That TX finds
the right node by a port needs unique ports; that ports are unique needs the
vector to lose no node; that needs TX to erase the right one. `RaceFree` is their
common strengthening, promised while `raced` is false (`RaceFreeInv`):
`VecShape` (the vector holds exactly the nodes not deleted, one per port, with at
most one empty slot, at the iterator of erase), `RxShape` (what RX has passed has
another port; only the node it has just pushed is not started), `TxShape` (the
node being scanned for, erased or joined is the one whose death is served; it has
not been passed), `NoticesOK` (queued notifications are of nodes that exist, and
not of the one being removed), `DeathKnown` (a dead node's notification is queued,
served or lost). The steps of RX and TX are taken one at a time, each under the
assumption that it causes no overlap; the steps of erase are the long ones.

Two more theorems of this module put the parts together. `NodesAsAssumedCorrect`:
until an overlap every step of the manager is, seen from the nodes and their queue,
a step of `NodeSpec` or none. RX registers, starts and answers; TX takes messages, and
deletes a node only when its thread has ended, which is the step that needs
`JoinTargetIsDying`; the main thread stops and starts the queue. The attempt showed
that `NodeBase` had too narrow an environment: a message taken during stop() is
dropped, and `Consume` had it served; it now allows both. `LifecycleInManager` follows:
the nodes of the composed program, not only those of `NodeBase` alone, go through
`NodeLifecycle`.

`MonitorProofs`: `MonitorImplemented`. A step of the manager is matched with an
abstract step by what it does to three things, the monitored nodes, their ports
and the ones given up (`AdmitLift`, `GiveUpLift`, `RemoveLift`, `StutterLift`).
`RaceFree` supplies the abstract guards: a node is admitted only if no monitored one
has its port, and a slot is destroyed or overwritten only if its node was given up.

`AppCtrlProofs` (any number of datagrams, packets and starts, capacity at least 1):
`AppTypeCorrect`, `ReceivedInOrderCorrect`, `SentInOrderCorrect`,
`NoDanglingPacketCorrect`, `SendersEndBeforeCloseCorrect`, `SilentWhenStoppedCorrect`.
`IOInv` has three ingredients. `MainControl` is a table of the main thread's places
against flags and threads: it says that `m_running` implies two started queues,
which is why RX, when it finds `m_running` set, has a new datagram and not the one it
had before; and that both threads have ended when the user is back at the menu, which
is `SilentWhenStopped`. `ReceiveOrder` and `SendOrder` state the order pairwise
between what is in each hand and each queue, and include the next number to be
given out, without which the order is not inductive. `ReceiveOwned` and
`SendOwned` add that a packet in a hand or a queue is allocated; that a delete
takes no other packet away follows from the order, which makes numbers in different
places different. The order of the properties is then one row of numbers, put
together with `ConcatIncreasing`. Lemmas about a push that may drop the oldest
(`PushedShift`, `PushedIncreasing`) and about Tail (`TailShift`) serve both sides.

`NodeTimingProofs` (any number of nodes, punctual clients and queued pongs, any lengths
of windows and sleeps, round trips shorter than a window): `TimingTypeCorrect`,
`DeliveryBoundedCorrect`, `BacklogCorrect`. The bound on a pong's age is proved as a
budget: `BudgetOK` says that the ticks a pong has waited, and one sleep for each pong up
to it that is still queued, are no more than one sleep for each that was queued when it
came, one for itself, and the part already slept of the sleep that RX waits for now
(`Spent`). A tick adds one to both sides; a delivery takes one sleep off the left, which
pays for the one on the right. It rests on a fact about the code: a node that has woken
up does not fall asleep again before the pong at the head is delivered, because its next
ping clears the flag. `PunctualOf` follows a window of a punctual client: the ping is
being answered, or an answer that came in this window is queued, or one has been
delivered. A window that expires is the second case, and the budget gives how many pongs
were before the answer. The budget alone gives one too few when the answer is at the
head, since it reserves a sleep for the answer's own node; `HeadOK` closes the gap: that
node is in the window the answer belongs to, so its own sleep is over.

`CodecProofs` (any payload lengths that fit the length byte and the headers, any
texts, types, 16-bit ports and datagrams): `CodecTypeCorrect`,
`ClientUnderstandsCorrect`, `ManagerUnderstandsCorrect`, `InBoundsCorrect`,
`NoNodeFromNothingCorrect`. The work is below the invariant, in the functions.
`ShiftRight` and `Number` recurse over bits. The induction theorems of the library
cannot be used, but the theorem that < is well-founded can: a set of naturals has a
least element (`Least`), so a property with a counterexample has a least one
(`IntervalInduction`). It gives the equations of the two functions (`BoundedRecursion`,
`ShiftFacts`, `NumberFacts`), and that the eight bits of a byte make up the byte again
(`ByteBits`). From there on two predicates carry the proof. `Spells(bits, t)`: the bits
are those of the bytes t, high bit first, which `ValueBits` does for a byte and for a port,
and `StringBits` for a text. `Holds(c, n, s)`: a buffer of n bytes starts with s, is zero
behind it, and its cursor stands after s. `SetBytes` says that set_bits takes
`Holds(c, n, s)` to `Holds(.., n, s \o t)` for bits that spell t; so `encode` holds header and
text (`EncodeHolds`), with room for a null because of `Fitting`. The other direction is that get_bits
at a multiple of eight is a byte of the buffer. `PortSwapped` is the arithmetic of the two
byte orders. What each side decodes follows for each kind of message (`ClientDecodes`,
`ManagerDecodes`), and for a datagram of anybody that decode is safe
(`AnyDatagram`). The inductive invariant `CodecInv` only says that the datagram is what was
encoded or built from the packet, or foreign, and that what was read is what its
receiver makes of it.

The assumptions used are the named ones of the modules (`QueueAssumption`,
`NodeAssumption`, `ManagerAssumption`, `IOAssumption`, `TimingAssumption`,
`CodecAssumption`): bounds are natural numbers, capacities are positive, RETRY_NUM fits
its uint8_t; in `NodeTiming` only, a punctual answer comes before its window is over,
which is what punctual means; in `Codec` only, payload lengths fit a byte and leave room for the header,
and texts and datagrams consist of bytes.

All invariants and refinements that the passing runs check are theorems. Checked by
TLC only: all liveness (`StopReleasesWaiters`, `SilentNodeGivenUp`, `DeadNodeRemoved`,
`StopReturns`, `MainReturns`, `Served`), since fairness and ENABLED are beyond the
prover. What happens after an overlap of RX and TX
(the findings, and the crashes that `manager_liveness` reaches) is not promised to be right,
and only the theorems of `NodeManagamentProofs` speak about it.

## 6. Not modelled

* Logging; the wording and time stamps of messages; the type of a node, on which
  only texts depend.
* Errors of sendto, which the code ignores; the single calls of `initUDPSock`,
  which succeed or fail as a whole.
* Process exit: destructors of global objects while UDPReceived's thread runs.
* Memory orders: flags are atomics with acquire/release, or read under a mutex,
  and are taken as sequentially consistent. For the vector, which has a real data
  race, the interleaving of elementary moves stands for the races.
* The exception handler of `handleThread`: nothing in handleState throws but
  allocation failure.
* The windows and buttons of the Python clients, and `udp_client_stress_test.py`,
  which sends more of the same.

## 7. Plan

Everything planned is modelled and, liveness aside, proved. What could be added:

1. The exit of the process: `UDPReceived`'s thread against the destructors of the
   global queues.
2. Addresses beside ports, should the program ever compare them.
