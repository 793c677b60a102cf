# Verification of the plain framework core

Plain framework is a C++ server framework: a kernel that runs a main loop, a connection manager over
epoll or select, ring-buffered socket streams, packets that come from a factory, a pool of records
in shared memory with a cache on it, events, threads, scripts and a database layer (`src/pf/core`),
and sample servers built on it (`src/applications`). The core has no unit tests. This directory
holds TLA+ models of it, written from the code, the TLC configurations that check them on small
instances, and theorems that TLAPS proves for every value of the constants.

Paths below are relative to `src/pf/core/src` (`src/pf/core/include/pf` for headers). `PROJECT.json`
names, for every definition of a model, the lines of the code it stands for.

## The system

| component | state it keeps | operations | who calls it |
|---|---|---|---|
| connection pool `net/connection/pool.cc` | slots (connections), `position_`, `count_` | create, remove | connection manager |
| connection manager `net/connection/manager/base.cc`, `net/manager.cc` | `connection_idset_`, `count_`, each connection's `managerid_` | tick, accept, connect, add, remove, destroy | kernel's main loop |
| epoll / select `net/connection/manager/{epoll,select}.cc` | table of watched sockets, events of this tick | select, processinput, processoutput, processcommand | tick |
| packet queue `net/connection/manager/base.cc` (`cache_`) | ring of packet pointers that grows | sendpacket, recvpacket, cacheresize, process_cachecommand | any thread sends, the tick takes out |
| socket streams `net/socket/{stream,inputstream,outputstream}.cc` | a ring of bytes per direction | fill, read, peek, skip, write, flush, resize, cleanup | processinput, packet code, processoutput |
| framing and dispatch `net/connection/base.cc` | packet index, status of the connection | processcommand, sendpacket, process_compressinput | tick, handlers |
| packet factories `net/packet/factorymanager.cc` | table of factories, allocated packets | createpacket, removepacket | dispatch, packet queue |
| shared memory pool `sys/memory/share.{tpp,cc}` | header (lock flag, `poolposition`), records with their `poolid` | lock, unlock, new_obj, delete_obj, Node::init, flush, save | several processes |
| map in shared memory `sys/memory/sharemap.cc` | hash chains over a pool | get, set, remove | cache |
| cache `cache/*.cc` | map from keys to indices in a pool | put, get, forget, flush, tick | applications |
| event system `event/system.cc` | a queue for the frame and a delayed one | pushevent, processall, registerhandle | applications |
| threads, kernel `sys/thread.cc`, `engine/kernel.cc` | `thread_count`, `app_status`, parts that are initialised | start, exit, init, run, stop | main() |
| server manager (sample) `applications/common/src/net/manager/server.cc` | table from server id to connection id | add, remove, broadcast, cleanup | sample servers |

A tick of the connection manager is select, input, output, command, in this order, each a loop over
connections, and each inside a try block: `Assert` throws (`sys/assert.cc`; the CMake build defines
no NDEBUG), `__LEAVE_FUNCTION` passes the exception on, and `tick()` swallows it at the end of the
phase. Input moves bytes from the socket to the input stream; command takes packets off that stream
and executes them, and a handler writes answers to an output stream, which the next output flushes.
Other threads reach the manager only through the packet queue, under its lock. Processes share
nothing but the shared memory pools.

### What is hard here, and what makes each part right

* **Manager and pool.** A connection is named by three tables at once: the pool's slots, the dense
  idset with the connection's back pointer into it, and epoll's table of (socket, id). Removal swaps
  the last entry into the gap while a loop is going over the idset; any step may fail half way; a
  slot is recycled within the tick in which its events were fetched. Right means: dense idset, exact
  back pointers, one owner for each slot, no event for a former owner, one removal removes one
  connection, and nobody is starved by the swaps.
* **Packet queue.** Sends from any thread fall between the receives of a tick; the ring wraps and
  grows meanwhile. Right means: in order, each packet has one holder, nothing lost.
* **Streams.** Wrap-around, growth in the middle of a fill in several receives, partial flushes, a
  grown array inherited by the next connection in the slot, edge-triggered events that are not
  repeated. Right means: the bytes read are those sent, in order, and no byte stays behind without
  an event.
* **Shared pool.** A spin lock that increments first and takes the increment back, a process that
  stops and goes past it, a death with the lock held or with a record half moved, a restart that
  attaches the memory as it was. Right means: mutual exclusion, an exact flag, no object in two
  records.
* **Framing, dispatch, factory.** A packet arrives in parts, its size is the peer's word, its
  handler may keep it, close the connection or ask for the next; other threads make and drop packets
  meanwhile. Right means: the tick never loses its place in the stream, each packet is executed once
  and in order, has one holder from createpacket to removepacket, and the stream cannot get stuck.
* **Cache and map.** Keys name indices of records that a deletion moves; puts of several processes
  meet in one chain; the service removes records meanwhile. Right means: a key's index is its own
  record, chains are whole, no record is lost. The code breaks this for keys whose record was
  deleted or moved (run `cache_forget`).
* **Threads and kernel.** A signal handler stops the system on top of whatever its thread was doing,
  a second signal lands on another thread, thread creation fails. Right means: no thread's object is
  deleted under it, and a stop ends the process.
* **Events, server manager.** Both are empty in every state of this program (see "What is not
  modelled").

Some hazards are visible in the models and are not the subject of a run:

* `remove()` compares an index with the size of a pointer (`manager/base.cc:166`): from index 8 on
  it throws, after the socket has left epoll. `net_client` keeps below it (`GuardLimit`),
  `net_server` goes beyond.
* A write that wraps skips the last cell of the output ring and counts it (`outputstream.cc:30`),
  and one that grows a ring whose head has moved goes on at the old place (`outputstream.cc:29`):
  `intact` ends there.
* Input receives once per edge-triggered event (`connection/base.cc:82`): a hang-up that arrives
  with data, or while the ring is full, spends its edge unnoticed, and the connection stays until a
  reset or a failing output ends it (`missed` in `NetManager`).
* `close()` leaves a socket with a pending error open (`socket/base.cc:44`); in the cleanup of a
  recycled slot, which does not take it out of epoll before, it stays watched under an id that is
  then another socket's (`lost` in `NetManager`).
* Where a word that is not zero lies behind the array of the packet queue, a ring that is not full
  grows and stalls at the gap (`manager/base.cc:552`, `659`; `overrun` in `PacketQueue`).
* `fdsize_` counts what is added to epoll and only `removesocket()` counts down
  (`manager/epoll.cc:96`); the model leaves the count out and lets an add be refused at any time.
* Packets are forgotten where an exception passes the line that gives them back: that of a reader
  (`connection/base.cc:363`) and that of the assertion for an unknown connection
  (`manager/base.cc:644`); `leaked` in `PacketDispatch`.
* `delete_obj` leaves the moved record its old `poolid` for a moment, and the next deletion by a
  record that was overwritten with a copy asserts (`share.tpp:214`) with the header locked (`locked`
  in `CacheStore`).
* An early return in the log (`base/log.tpp:130`) keeps `g_log_lock`.

## The modules

| module | models | checked by | proved in |
|---|---|---|---|
| `NetManager` | pool, manager, epoll table, tick, accept, connect, destroy; implements `ConnectionTable` where it only connects | `MCNetManager`, four runs | `NetManagerProofs` |
| `ConnectionTable` | what a connecting manager promises: each connection's remote end | with `NetManager` | `NetManagerProofs` |
| `PacketChannel` | what the packet queue promises | with `PacketQueue` | `PacketQueueProofs` |
| `PacketQueue` | the ring behind sendpacket and recvpacket; implements `PacketChannel` | `MCPacketQueue` | `PacketQueueProofs` |
| `ByteStream` | what socket, ring and packet code promise together, in either direction | with both streams | with both |
| `InputStream` | fill, read, peek, skip; implements `ByteStream` | `MCInputStream` | `InputStreamProofs` |
| `OutputStream` | write, flush; implements `ByteStream` while intact | `MCOutputStream` | `OutputStreamProofs` |
| `PacketFactory` | createpacket, removepacket, the factory manager's tables | with `PacketDispatch` | with it |
| `PacketDispatch` | input, processcommand, process_cachecommand, posting threads, over `PacketFactory`; implements `PacketService` | `MCPacketDispatch` | `PacketDispatchProofs` |
| `PacketService` | what the dispatch promises: which packets are answered, in whose hands packets are | with `PacketDispatch` | `PacketDispatchProofs` |
| `SharePool` | header lock, new_obj, delete_obj, Node start, stop, death and restart; implements `RecordPool` | `MCSharePool` | `SharePoolProofs` |
| `RecordPool` | what the pool promises: a sequence of objects | with `SharePool` | `SharePoolProofs` |
| `ShareMap` | the hash map in shared memory: get, set | with `CacheStore` | `CacheStoreProofs` |
| `CacheStore` | get, put, forget of the cache and the service that removes expired records, over `ShareMap`; implements `KeyIndex` for keys in order | `MCCacheStore`, two runs | `CacheStoreProofs` |
| `KeyIndex` | what the cache promises: one record for each key | with `CacheStore` | `CacheStoreProofs` |
| `LifeCycle` | run, threads, signals, stop, deletion of the kernel | `MCLifeCycle` | `LifeCycleProofs` |

### NetManager

One action per loop iteration of the tick (`phase`, `i`, `n`, `evs` are where it is), so peers may
connect, send and hang up between any two of them. `empty`, `disconnect`, `sock`, `managerid` are
the fields of a connection; `position`, `free` the pool's; `idset`, `count` the manager's; `reg`,
`edge` epoll's table and the edges it has not reported. `ServerMode` chooses between a listening
manager (the `Accept*` actions) and one that only connects (the `Connect*` actions). Every failure
path of accept, connect and remove is an action, with what it leaves behind. Bytes are abstracted to
whether a socket holds unread data and whether a connection's ring is full. A peer may hang up
(`hup`) or be reset (`reset`, a pending error). As `fill()` does, input receives once for an event:
it notices a hang-up only when there was nothing else to receive and the ring had room, and
otherwise the edge is spent (`missed`). A pending error is found by any of the loops. `close()`
passes over a socket with such an error, which then stays open with nobody knowing its descriptor
(`lost`). The sizes of packets and streams are the business of the other modules.

In a connecting manager all properties hold. In a listening one three do: the others fail because
`accept()` calls `cleanup()` on the connection it has just taken from the pool (run
`net_slot_reuse`), and the run `net_server` shows what remains true in spite of that.

For `ConnectionTable` a connection is its remote end, or none while it is not managed: connect,
hang-up and removal each change one connection, and a remote end is free again as soon as its
connection goes, unless its socket was left open. A removal that fails half way, or a slot taken
twice, would be no step of it.

### PacketQueue and PacketChannel

`sendpacket` and `recvpacket` run under `lock_` and are one step each; the execution of a packet is
outside the lock. Packets are numbered in the order in which they are sent, so a queue that is right
holds an increasing sequence. `head` and `tail` run over `size + 1` cells of an array of `size`:
what lies behind the array is the allocator's. `queue_struct` has a destructor, so `new[]` puts a
count in front of the cells, and in a small array the packet pointer of the cell behind is the size
word of the next chunk of the heap, never zero; an array that is mapped by itself has zero padding
there. The model chooses one of the two (`Behind`) for every array it allocates. Zero padding costs
one packet at the next growth, which is why `PacketChannel` allows one loss per growth. A foreign
word is not NULL: `sendpacket` that comes to it grows a ring that is not full, the ring keeps free
cells between its packets, and `recvpacket` does not cross them, in no tick, until a send comes
round to them; a tick that drains the ring up to the foreign word executes it, and the process ends
(`crashed`). `overrun` says that an index has met a foreign word. Until then the queue is a
`PacketChannel`; afterwards (`broken`) the channel only promises that no packet is taken twice, and
`Drained` promises nothing: this is a defect of the code, which no comment or test speaks against,
and which the properties name as their exception.

### InputStream, ByteStream, OutputStream

A byte is its number in the stream, so order, loss and duplication are visible. `fill()` is up to
three receives, each a step, between which the peer may send. The ring's length is the concrete
`bufferlength`; `resize` unrolls the content into a longer array (at least half as long again);
`Cleanup` keeps it, as the code does. `stalled` records the one way in which `fill()` returns with
bytes left in the socket and no event to come: the ring is full with `head` at its front. In
`OutputStream`, `intact` says that no packet has been written behind a partial flush into a ring
that had to grow or to wrap: `write()` computes with the head and tail of the ring before it has
grown, and does not use the last cell when it wraps. While `intact` holds, the socket gets what was
written; without it, cells that were never written. So the output side is a `ByteStream` too: what
the program writes is sent, what the socket takes is read, and the stream starts anew where an
intact ring is lost.

### PacketFactory and PacketDispatch

Packets are numbers; those the peer sends are 1, 2, ... in this order, each a header and a body of
units. A unit knows its packet and its place, so a tick that loses its place in the stream sees it
in the model: it would read a header from the middle of a body. The header states a size and a kind.
The code finds a packet complete by that size, but what leaves the stream is what the packet's own
`read()` takes, and nothing compares the two: the packet is `sound` when they agree, `unsound` when
its reader takes any other part of what is there, `unknown` when no factory has its id. Once the
place is lost (`~Sound`), `peek` gives any header, for one of the packets of `Garbled`. `Input`
takes any part of what is on its way; `pc` follows the tick through processinput, each iteration of
processcommand (look at the header, refuse, wait for the rest, make, read, execute, give back, act
on the status) and process_cachecommand. What a handler does is a choice: it may close the
connection, ask to go on, to break or to fail, and pass the packet on to the queue, whose order is
that of a `PacketChannel` that does not grow. A reader may fail (the packet is given back) or throw:
`readpacket` swallows the exception unless the application's type is 0, the default, and then it is
caught where the packet is not given back. Both are choices of the model (`ReadFails`,
`ReadThrows`), as is a posted packet for a connection that is not there (`ServeStray`). What is lost
this way is in `leaked`. Other threads make packets and post or discard them. `createpacket` makes
and counts under the lock, but enters the packet into the destructor's table after it has given the
lock up; `removepacket` takes it out under the lock. So two threads can be in that table at once,
which is undefined for a `std::map`: the model may then lose the change, and remembers it in `torn`.
`live` are the packets in existence, `hand` and `queue` who has them.

`PacketService` knows neither stream nor lock: packets that were sent and answered, hands, a queue,
and the packets given back but not yet deleted (`Returned`, those in removepacket). A packet is made
only when nobody has it, it is not being given back and it was not lost; the peer's next packet is
answered in its turn, until the stream has strayed, and, unless the connection closes with that,
never given back or lost unanswered.

### ShareMap and CacheStore

The map's steps are the writes another process can see: `set` takes a node (under the pool's lock),
writes key and value, writes the node's `next` and then the bucket's head, under locks of nodes
only. A bucket that two processes add to at once is `crossed`: one of the nodes may be lost. A value
is text, is cleared before it is written again, and reads as 0 meanwhile. `CacheStore` adds the
record pool (each operation on it one step, since `SharePool` shows its lock excludes): put writes
the whole record over an existing one, takes a record and then enters its key otherwise; forget and
the service delete records, which moves the last one. Each record's `owner`, the key it was taken
for, is what the properties compare with; `stale`, `raced`, `unnamed` and `crossed` name the keys
whose entry the code does not keep right. Everything else has to be right, whatever happens around
it.

`KeyIndex` is the promise about the keys in order (`Ordered`, its `kept`): a key takes one record
that no other has (`InUse`), which becomes its name in the map (`Given`) once the put that holds the
index (`Pending`) has entered it, and stays so. A key may leave `kept` at any time and only then
loses its record.

### LifeCycle

`main` is where main() is: the check and the start of `Kernel::run`, the loop, the deletion. A
signal puts a handler on top of an actor (`stopping`), which then takes no step of its own until the
handler is through its four parts and the wait. Each step of the handler waits for the log lock, so
one that interrupted the lock's holder is stuck. `gaveUp` and `early` record the two cases in which
deletion under a running thread is possible.

### SharePool

Each write to shared memory that another process can see is a step; the process that dies does so
between any two of them. `Service` is the process whose `Node` clears the pool at its start;
`Stopping` are those whose `app_status` may become `kAppStatusStop`, which makes `lock()` and
`unlock()` return at once, also out of the waiting loop. `lost` counts the increments of the flag
that nobody will take back, `unsafe` that a process has been stopped while others use the pool. The
lock of each record, the recover mode (which locks nothing) and saving to the database are left out.

For `RecordPool` the pool is the sequence of objects in its records. `new_obj` comes down to one
step, where the header counts the record. `delete_obj` has two: the header gives the last record up,
which still counts (`InUse`, `Doomed`) until it has been moved into the gap. A process that dies in
between leaves the pool without its last record instead of the deleted one.

## The runs

| run | question | outcome |
|---|---|---|
| `net_client` | do the three tables agree under any churn of peers; is each reset noticed, and each hang-up but those that are missed; is each connection served? | holds: five invariants, `ConnectionTable`, two liveness properties |
| `net_server` | what is true of a listening manager, with slots handed out twice and half accepted connections? | idset dense, back pointers exact, epoll watches live sockets under their owner, and reset ones that were left open |
| `net_slot_reuse` | is a slot that `create()` hands out free, as its comments say? | no: accepted connections are marked empty |
| `net_input_spin` | does `processinput` return? | no: accept and event loop share their index |
| `packet_queue` | is the ring a queue with at most one loss per growth, and is everything taken in the end, until a foreign word is met; is a packet held once even then? | holds, but for the exception the properties name |
| `input_stream` | do ring, fill and readers implement a byte stream; can bytes be left in the socket? | holds; only with a full ring |
| `output_stream` | does `write()` stay inside its array; is it a byte stream while `intact`? | holds |
| `packet_dispatch` | one holder per packet, exact tables; while readers keep to the sizes, the tick in step with the stream, `PacketService`, every packet answered? | holds |
| `share_pool` | mutual exclusion, exact flag, and `RecordPool` until a process stops, with deaths and restarts | holds |
| `cache_store` | is a key's index its record, are chains whole, and `KeyIndex`, for keys in order? | holds |
| `cache_forget` | is it so for every key while nobody is in a call, as `dbstore.h` says? | no: forget and moves leave keys behind |
| `life_cycle` | is no thread's object deleted under it, and does a stop end the process? | holds, but for the exceptions the properties name |

The runs with a violation each quote the comment, drawing or line they refute; see `findings` in
`PROJECT.json`. All other runs pass, and for each of their properties a mutant of the model (the
definitions marked "Mutant", a plausible slip in the code each) breaks it.

### Bounds, and why they are enough

* `NetManager`: two slots, with two peers where a manager listens and three where it only connects.
  Two slots are the least with a swap between different entries, a wrap of `position_` and a removal
  in front of a loop's index; the third peer is refused or takes a recycled slot. What a third entry
  would add (a swap with entries on both sides) is left to the theorems, which hold for any number.
  In `net_client` at most two of unread data, full rings and resets are there at a time
  (`TwoTroubles`); liveness is checked among the behaviours within this bound. `GuardLimit`,
  `sizeof` of a pointer in the code, is out of reach in `net_client`, and 1 where its effect is the
  question. `FreeBound` stops the drift of the pool's `count_`, which nothing reads.
* `PacketQueue`: an initial size and increment of 2 and 6 packets give two growths, from wrapped and
  from unwrapped rings, with and without a foreign word behind either, and a wrap of the grown ring.
* `InputStream`: 4 cells that may grow to 6 and beyond the limit of 8, 9 bytes per connection: two
  growths, every position of head, and a next connection on the grown array. `OutputStream`: the
  same with 7 bytes; 8 cells for the wrap, which needs no growth.
* `PacketDispatch`: two packets of the stream, one more that is made of what is no header, and one
  that another thread posts; sizes 0 and 2 with a limit of 4 and a maximum of 1 give empty bodies,
  packets that arrive in parts, ones too large, an overflow, a header behind a body, and readers
  that take less or more than the header states; `ExecuteCount` 1 leaves a packet for the next tick;
  a table of two (`AllocMax`) fills up. The second packet is dynamic, so the counter skips it.
* `CacheStore`: three keys in one bucket, so every insertion meets every other; three nodes and
  three records, so that both fill up; four calls are a put of each key and a forget, or two puts, a
  forget and a lookup (five in `cache_forget`, which looks for one counterexample only). The
  constraint stops where no key is in order any more. Deadlock is not checked: a failed assertion
  leaves the header locked, and calls are bounded.
* `LifeCycle`: two threads, since the handler of the second signal runs on one while the other goes
  on; two signals, as `waitexit` sends. Deadlock is not checked: the process ends, and a handler
  that interrupted the holder of the log lock is stuck.
* `SharePool`: two records are the least that a deletion moves; three processes give two waiters
  beside the holder; one may stop; one death and its restart. `MaxObjects` and `MaxDeaths` only stop
  the counters.

No symmetry reduction is used: the state spaces are small enough without, and several runs check
liveness.

### Fairness

`NetManager` assumes that the thread that runs `tick()` keeps running it (`WF(Tick)`; `Kernel::run`
loops while the application is active) and nothing of the peers. `PacketQueue` assumes the same of
`process_cachecommand`. `InputStream` assumes that the tick polls and fills, and that the packet
that is waited for is read once it is complete. `OutputStream` claims no liveness: when the socket
takes what is in the ring is the peer's affair. `SharePool` claims no liveness: contenders of the
spin lock can make each other back off for ever, as the code has it. `PacketDispatch` assumes that
the tick keeps running, that what the peer has sent arrives (`SF` of an input that takes something:
the tick comes to its input again and again, but not always with something to take), and that a
thread inside the factory goes on. `LifeCycle` assumes that main, threads and handlers run on and
get the log lock in the end (`SF`: others take it in between, and its holders sleep between lines);
a holder writes its line (`WF`). `CacheStore` claims no liveness.

## What is proved

All from the named assumptions on the constants (`NAssumption`, `StreamAssumption`, ...), which only
say that sizes are naturals, that there is at least one slot, and that sets of peers and processes
are finite.

* `NetManagerProofs`, for every pool size and finite set of peers. `TypeInvariant`; `IdsetDense`,
  `NoStaleIndex` and `EpollWatchesOwners` from `MInv`, for listening managers too: the dense idset,
  the back pointers and epoll's ownership need each other, because removal finds the entry to move
  by the count and the entry's owner by the back pointer. For a manager that only connects,
  `ClientInv` adds that the idset holds each connection once and exactly the managed slots are taken
  (`Slots`), that the accept phase is never entered, and that an event still to be handled names,
  unless that connection has been closed since, the connection whose socket raised it
  (`EventsOwned`); this last part keeps an event from a slot recycled in the same tick. From it
  `ClientOwnsEntries`, `ClientOwnsSlots`, `ClientInBounds` and `ClientEventOwner`. The refinement
  `ClientImplementsTable` also needs `Sockets`: a live socket's peer is connected, no two
  connections share one, and a managed connection has one. `EpollWatchesOwners` excepts the reset
  sockets that `close()` has left open. `ClientWatched` (every managed connection is in epoll's
  table, and a hang-up of its peer is still to be reported unless it was missed) and
  `ClientHangupReaches` (a hung-up peer still has a connection, which epoll will name unless the
  hang-up was missed) are the safety half of `HangupClosed`; they need `N <= GuardLimit`, the
  condition the code does not meet beyond a pointer's size.
* `SharePoolProofs`. `PoolTypeInvariant` needs that a process between the two halves of an operation
  works at an index inside the pool (`AtSlot`), also when another process goes past the lock.
  `LockCounts` and `LockExcludes`: flag + 1 is the number of processes that will decrement it plus
  the lost increments, and whoever is inside has seen it go from -1 to 0, when the count was nought.
  `LostLockStays`: once an increment is lost no running process enters the pool again. `PoolSafety`
  and the refinement `PoolImplementsRecords` from `RecordInv`: while no process has stopped, at most
  one is half way through an operation, and what it has half done (the record behind the end, the
  shortened pool) is what the next step or a death leaves consistent.
* `OutputStreamProofs`. `StreamTypeInvariant` and `WriteStaysInside` for every length of ring and
  packet. `InOrderWhileIntact` from `StretchInv`: an intact ring is one stretch of cells from head
  to tail with consecutive bytes, because a packet that leaves it intact finds room behind the
  content (`WriteBehind`), before or after growth. On the same invariant rests the refinement
  `OutputImplementsByteStream`: a write puts its bytes behind those in the ring (`WritePuts`), a
  partial flush takes from the front (`FlushTakes`).
* `PacketDispatchProofs`. `DispatchTypeInvariant`, `DispatchOneHolder`, `DispatchInSync`,
  `DispatchTablesExact` for any threads, packets, sizes, limits and handlers, all from
  `DispatchInv`. Its part `Core` says that holders are apart (`Apart`), that what they hold is live
  but for a packet still to be made (`HeldLive`), and that what is live has a holder (`LiveHeld`);
  six lemmas, one for each way in which a packet changes hands (created, removed, queued, taken, a
  step of the factory, none), serve all actions. `Place` ties the tick's position to its hand;
  without it a posting thread might make the packet the tick holds. For the stream, `InSync` alone
  is not inductive: that each unit is followed by the right one does not say that the units of the
  front packet are all there to be dropped. `Whole` says it: each unit stands in the middle of all
  units of its packet. Both are claimed while `Sound` holds, that is until a reader has taken
  something else than its header states; the rest of `DispatchInv` holds behind that too.
  `PacketMore` and `PacketLess` are the two ways such a sequence changes, `MovesOver` shows that
  `fill()` changes nothing, and `Progress` relates what was taken to what was executed. The
  refinement `DispatchImplementsService` adds `Settled`: nothing in the queue, and nothing the tick
  serves from it, is a packet of the peer still to be answered. Without it the tick could give such
  a packet back. `Returned` is followed call by call (`ReturnedTakes`, `ReturnedStays`,
  `ReturnedDrops`), and `NobodyHas` turns "not live" into "in nobody's care".
* `LifeCycleProofs`. `LifeTypeInvariant` needs that the count is never below the number of threads
  that run (`Counted`), whatever fails to be created; `LifeSafeQuit` adds where main() is relative
  to the kernel's activity (`InOrder`, `DeletedLast`): objects are deleted only after the loop has
  ended, and that only after a handler has found no thread counted, or gave up, or came early.
  `LifeStopReaches`: a stop is not lost even where `run()` writes over `app_status`, because what
  ends the loop is `isactive_`, which is never set again, and a handler that waits has told every
  part (`Told`), started or not.
* `PacketQueueProofs`. `QueueTypeInvariant`, `QueueOneHolder` and the refinement
  `QueueImplementsChannel`, for every initial size of at least one cell, every increment and any
  number of packets, whatever lies behind each array. `RingInv` says that, until an index has met a
  foreign word, the cells in use are those from head to tail (all of them when the two meet on a
  packet), that packets are in order by their distance from head, and that what is in hand or
  removed is older than what is in the ring; that no packet is held twice (`HeldInv`) is kept apart,
  because it also holds afterwards. `WaitingIs` reads the sequence of waiting packets off the cells;
  `SendAppends`, `ReceiveTakes` and `GrowingLoses` are the steps of the refinement, the last one
  because unrolling the full ring leaves out exactly the packet in the cell behind the array.

* `InputStreamProofs`. `InputTypeInvariant`, `InputInOrder`, `InputLeftOnlyWhenFull` and the
  refinement `InputImplementsByteStream`, for every length, limit and number of bytes. `StreamInv`
  adds to `InOrder` what the second receive of a fill may count on (`SecondInv`), because between
  two receives the peer sends and the free cells are those of before. Every receive, whichever of
  the three, writes to free cells from tail (`ReceiveKeeps`, with `CellsApart`: they are not cells
  in use); `GrowKeeps` is the unrolling into a longer array, `CopiedIs` says that what read and peek
  hand out is what `ByteStream` hands out.
* `CacheStoreProofs`. `CacheTypeInvariant`, `CacheChainsWhole`, `CacheRightRecord` and
  `CacheNamedOnce`, for any processes, keys, hash, sizes and calls, on the assumption that no key is
  the mark of an empty node (`NoKey`). A chain is defined as the smallest closed set, so that a
  closed set takes the place of an induction along it (`ReachWithin`, `ReachSame`, `ReachNext`).
  `MapInv`: nodes that are being added belong to one process (`NodeInv`), chains stay among the
  finished nodes of their bucket and reach all of them, and the node that is next put in front is
  followed by the chain as it is, unless two processes have met (`ChainInv`). `StoreInv` then
  relates keys to records: a process that has missed a key in order is alone with it
  (`MissedAlone`), a key has one node (`OneNode`), held indices and values are right (`HeldRight`,
  `NodesRight`), and a value is cleared only for a key that two processes have put (`ValuesRight`):
  none of them is inductive without the others. `StoreKeeps` is the case of a step that adds no node
  to a chain, `FirstKeeps` of the one that does, `DeleteEffects` shows that a deletion changes only
  records whose keys it makes stale. The refinement `CacheImplementsIndex` has a lemma for each way
  in which the index changes: `DropStep` (keys leave `kept`), `TakeStep` (a record is taken) and
  `FirstStep` (a node reached in a chain for the first time names its record); every other step
  leaves it alone (`PlainStep`), in particular one that fills a node nobody can reach.

Every invariant of a passing run and all seven refinements (`NetManager`, `PacketQueue`,
`InputStream`, `OutputStream`, `PacketDispatch`, `SharePool`, `CacheStore`) are proved. Proved and
not checked by a run of their own, since a refinement or a stronger invariant of the run has taken
their place: `NoneTwice`, `LostLocksOut`, `NamedOnce`, `IntactInOrder`, `IdsetInBounds`,
`HangupReaches`, `StopReaches` and the types of `PacketDispatch`.

Only model-checked: liveness (`HangupClosed`, `CommandServed`, `Drained`, `Delivered`, `Answered`,
`Quits`), which is out of the prover's reach.

## What is not modelled

* The compressed mode of the streams (`process_compressinput`, `rawflush`) and the encryption of
  their bytes in place.
* The heartbeat (always true in `Base`), `connectgroup` (as `connect`), `set_poll_maxcount`; select
  and iocp managers. The models are of the Linux build with edge-triggered epoll.
* The event system: `init()` takes the size of a pointer for the size of its table and registers
  nothing, nothing else fills the maps that pushed events are looked up in, and nothing in the
  repository calls it. The server manager of the samples: nothing calls what fills its table
  (`add_serverconnection`, `set_serverdata`). Both stay empty in every state of the program, and a
  model with other states would not be of this code.
* `Map::remove`, which nothing calls; the records' contents and their saving to a database (`save`,
  `flush` of `DBStore`), dump files and `UnitManager`; in `SharePool` the flag in each record.
* `Kernel::init` (one thread, before any other actor), the thread pool, collector and indent table,
  which nothing uses.
* Database, scripts, files, allocators, settings and packet formats of the sample servers: input and
  output or pure functions; the plug-in and the dependencies are third-party code. Of the
  repository's lines nearly all are of that kind (iconv's tables, zlib, three versions of Lua,
  minilzo): the framework's own state lies in some few thousand lines, of which the models cover the
  larger part.

## Plan

What is left, in the order of what it adds:

1. `PacketQueue` over the slots of `NetManager`: a queued packet names an index, whose slot may
   belong to another connection when it is executed (`manager/base.cc:611`).
2. The bookkeeping of descriptors in the select manager, as another implementation of what
   `NetManager` asks of epoll.
3. The lock in each record with `Node::flush` and `save`, over `SharePool`.
