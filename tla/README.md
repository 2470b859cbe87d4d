# A verification project for sib-tcp

sib-tcp is the TCP gateway of a Smart-M3 semantic information broker (SIB). Clients speak
SSAP, an XML protocol, over TCP; the gateway parses each request, passes it to the SIB over
D-Bus, waits for the SIB's confirmation and answers on the client's socket. With
`--enable-hipdex` it is linked with a small implementation of the HIP Diet EXchange
(`src/hip-dex`), which gives the connections session keys.

This directory holds TLA+ models of the parts of it whose correctness depends on the order of
steps of several threads, TLC runs that check them on small instances, and TLAPS proofs of
what matters most for every size. `PROJECT.json` maps every definition to the lines it models,
and lists the runs, the mutants that show that each property can fail, the hazards and the
theorems.

## 1. Inventory

### Gateway (`src/src/main.c`, C, GLib threads)

| component | state | operations | who runs them |
|---|---|---|---|
| waiter | `lock`, `cond`, `req_ready`, `rsp`, `fd` | `waiter_new`, `waiter_wait_for_finished`, `waiter_completed`, `waiter_destroy` | its owner waits, the main loop (and the wake thread) completes |
| request table | `Listener.requests` (`nodeid_msgid` -> waiter) under `reqlock` | `listener_add_request`, `listener_get_request`, `listener_remove_request` | client threads, main loop |
| request handlers | the locals of `listener_handle_{join,leave,insert,remove,update,query}` | receive, register, send, wait, answer, remove | one pool thread per connection |
| confirmation callbacks | a pointer to a waiter between two locks | `handle_*_cnf` | main loop, one at a time |
| subscription table | `Listener.subscriptions` (id -> second waiter) under `sublock` | add, get, remove | client threads, main loop, wake thread |
| subscribe / unsubscribe | `waiter`, `subwaiter`, `subid` | `listener_handle_subscribe`, `listener_handle_unsubscribe`, `handle_subscription_ind` | client threads, main loop |
| wake thread | - | `sub_wake_thread`: every `-sub-wake-fr` seconds empties and signals every subwaiter | itself |
| client table | `Listener.clients` (descriptor -> client) under `client_lock`, the queue of the pool | accept, insert and push, turn away, leave | listener thread, client threads |
| framing | the receive buffer, the parser, `not_handled` | `client_receive_message`, `client_send_message` | client threads |
| start-up | the global `listener`, the SIB object | `main`, `create_*_idle`, `listener_new`, `main_signal_handler` | main thread, main loop |

Threads interact in three ways: through the tables (each under its own lock), through waiters
(each with its own lock), and through descriptors (which the kernel reuses). A callback finds a
waiter under `reqlock`, releases it, and only then takes the waiter's lock; a handler may have
destroyed the waiter by then. `listener_remove_request` destroys whatever is registered under
the key, without asking whose it is. The handlers also read `waiter->rsp` and
`subwaiter->rsp` without the waiter's lock.

### HIP-DEX (`src/hip-dex`, C++, pthreads)

| component | state | operations |
|---|---|---|
| thread pool | `iQueue`, `iClosed`, workers | `Assign`, `Close`, `CWorkerThread::Run` |
| daemon | `iRunning`, sockets, pool | `Start`, `Stop`, `HIPDEX_Start`, `HIPDEX_Stop` |
| connection handler | a pool task | receive a packet, assign a connection task |
| connection / handshake | `iState`, puzzle, nonces, keys | `Handle` with `I1/R1/I2/R2Handler`; `HIPDEX_Initiate` with its retries |
| connection factory, shared pointers | `iConnections`, one mutex and one connection per HIT, each with a reference count | `Create`, copy and destructor of `CSafePtr` |
| SA database | `Csadb` | `StoreSA`, `FindSA`, `RemoveSA`, encrypt, decrypt |
| puzzle | - | `SolveR`, `VerifyPuzzle`, `hdx_ltrunc` |
| codecs, ciphers | - | packets, parameters, checksum, AES-CTR, CMAC, key derivation |

### What is hard

* Freed waiters: a refused request is answered through a waiter that has been destroyed, and
  its address may have become another thread's waiter.
* A second removal of the same key may take out a request another connection has registered in
  between.
* One slot per waiter: indications overwrite each other and the confirmation of an
  unsubscribe; the reader dereferences the slot several times without the lock; the wake
  thread empties it.
* Descriptors are closed on three paths and given out again at once.
* Waits without a timeout; a wakeup that gets lost blocks a connection, or the shutdown, for
  ever.
* Errors half-way: a response that cannot be built, an acknowledgement that cannot be sent.
* A closed pool with tasks in its queue, and with one worker that is busy until the daemon
  stops.
* Handshake packets lost, duplicated, reordered, and a retry that races with the late answer.
* A byte stream without marks: requests arrive cut anywhere, several at a time, and in the
  HIP-DEX build under a cipher counter that all connections of a host share.
* Clients that come while `listener_new` has not returned, signals at any moment, a second
  registration.
* An entry of the SA database is found under a mutex and read, and used, without it; references
  to connections are counted by several threads without one.
* Parameters whose lengths are computed back from padded bytes, and a MAC over bytes that are
  rebuilt from what was parsed.

`PROJECT.json` lists each of them under `hazards` at its line, with the properties that cover
it; those without a property say why.

## 2. Modules

| module | models | lines of the source |
|---|---|---|
| `Waiters` | the waiter as a mailbox at a reusable heap address | main.c 2144-2238 |
| `Requests` | request table, handlers of six kinds, confirmation callbacks | main.c 729-1307, 1827-1985, 2240-2317 |
| `Subscriptions` | subscribe, unsubscribe, indications, wake thread (extends `Requests`) | main.c 435-465, 1308-1750, 1987-2081, 2320-2362 |
| `RequestKey` | the key of a request, as a function of node id and message number | main.c 2265-2286 |
| `ClientTable` | listener thread, client threads, descriptors | main.c 469-619 |
| `Startup` | main, signals, registration, `listener_new`, the port (extends `ClientTable`) | main.c 193-350, 469-582, 1810-1825, 2108-2142, 2441-2518 |
| `RequestChannel` | what receiving promises: whole requests, once, in order (abstract) | |
| `Framing` | receive buffer, parser, answers in parts; implements `RequestChannel` | main.c 551-574, 621-727, 2364-2439 |
| `SecureStream` | the same in either build, with the SA and its cipher counters (extends `Framing`) | main.c 630-720, 2379-2439, DexDaemon.cpp, AesCtr.cpp |
| `TaskPool` | what the thread pool promises (abstract) | |
| `ThreadPool` | pool, workers, daemon start and stop; implements `TaskPool` | ThreadPool.cpp, ConnectionHandler.h, DexDaemon.cpp |
| `HipDex` | the four-packet handshake between daemons, `HIPDEX_Initiate`, the entries of the SA database | I1/R1/I2/R2Handler.cpp, Connection.cpp, DexDaemon.cpp, HipPuzzleUtil.cpp, HipKeyDeriv.cpp |
| `Packets` | the four packets as bytes: parameters, padding, checksum, MAC, and the parser | HipPacket*.cpp, HipParameter.cpp, HipParamFactory.cpp, the parameter classes |
| `SaDb` | the SA database: entries in a vector, and callers that look one up and use it | DexDaemon.h 44-111, DexDaemon.cpp 63-114, 273-308 |
| `ConnectionFactory` | connections and the counted references to them | ConnectionFactory.cpp, SafePtr.h, RCPtr.h, ClientHandler.h |
| `MCRequests`, `MCSharedRequests`, `MCSubscriptions`, `MCSecureStream`, `MCHipDex`, `MCDaemon` | small instances for TLC | |
| `RequestKey_proofs`, `Requests_proofs`, `Subscriptions_proofs`, `Startup_proofs` (with `ClientTable`), `SecureStream_proofs` (with `Framing`), `ThreadPool_proofs`, `HipDex_proofs`, `Daemon_proofs` (`SaDb`, `ConnectionFactory` and `Packets`) | proofs | |

### How state and actions correspond to the code

**Waiters.** A waiter is an address in `Waiter`; `live` holds the allocated ones.
`waiter_new` may return any address that is not live. The lock of a waiter is only held for
straight-line code, so each section under it is one step. What a thread reads from a freed
waiter is a choice: `FdRead` yields any descriptor, `RspRead` yields nothing unless the address
is live again, because `waiter_destroy` clears the slot before it frees (2233). So freed memory
holds what `waiter_destroy` has left in it, or another waiter; that it is handed out for something
else is not followed. A write to a freed waiter that is not live again changes nothing in the model.

**Requests.** `pc[c]` is where the thread of connection `c` is in its handler:
`receive`, `send` (registered), `wait`, `build` (woken), `reply`, `remove`. `op`, `key`,
`waiter` and `bd` are its locals. `AddRequest` is `waiter_new` with `listener_add_request`;
`DropRequest` the case in which the key is taken or no memory is left; `RefuseRequest` the
branches that answer without the SIB, which destroy the waiter before they send. A callback is
two steps, `ConfirmationArrives` (under `reqlock`) and `CompleteWaiter` (under the waiter's
lock); `cb` is its local pointer, and the main loop runs one callback at a time. `sib` is the
set of requests the SIB holds: it confirms them in any order. A message is the request it
answers, the kind of its type, its status and whether the handler made it up. The status of a
failed insert, remove or update is any (the variable is uninitialised).

**Subscriptions** adds the labels of `listener_handle_subscribe`: the acknowledgement, the
loop (`subwait`, `subread`, `subfill`, `subsend`, `subfree`, the end of a subscription, the
probe, the auto-unsubscribe) and the refusal. Each read of the slot that the code makes without
a lock and that another thread can come in between is a step of its own. A message read as
NULL where the code dereferences it leads to `crashed`, a NULL subwaiter to `nullsub`, a send
that raises SIGPIPE to `killed`; the process is dead then and nothing else happens
(`Dead`). `handle_unsubscribe_cnf` takes four steps, as it takes four locks.
`WakeRound` is one round of the wake thread, which holds `sublock` all the time. The loop takes its
entry out under the id it reads from the message in its slot (`EndedId`; only the unlisting after a
failed acknowledgement and the auto-unsubscribe use the thread's own copy `subid`), so a slot with a
message that carries no id, or none, is a NULL the code dereferences (`SlotIsNeeded`, `Named`).
Every send goes to the descriptor of the waiter or subwaiter it is made through, which may be freed
or another's (`SendThrough`, `SocketError`). The keys of the gateway's own unsubscribes (`AutoKeys`)
are those the code can make: of the copied node id and the number 1 after a failed probe (1617), of
what is in the slot after a failed indication (1504), which is the indication or a confirmation that
has overwritten it. `strayed` is history: it is set when a callback fills a subwaiter that was freed
after the callback looked it up and whose address is another waiter's by then, or when the
confirmation of an unsubscribe the gateway has sent itself finds a request under its key.

**ClientTable.** `peer[f]` is the connection behind an open descriptor. The listener accepts
in one step and takes `client_lock` in the next. `InsertClient` only queues the client:
`g_thread_pool_push` may fail to start a thread, which is logged and leaves the entry in the table
(main.c:530-535), or the pool may have its `MAX_THREADS` threads already; so `StartThread` is a step
of the pool that comes at any later time, or never. A thread leaves the table and closes in one
(the hash table's destructor closes while the lock is held). `HandleBadSubscribe` is the close
at the end of a refused subscribe. `selfclosed` remembers that it has happened.

**RequestKey.** `Digits` is the loop that writes a number from its last digit, with the
remainder of C, which has the sign of the number: the digits of a negative number are the
characters before "0", and zero has none.

**Startup.** `mpc` is the line the main thread comes to next. `SetUp` goes from one call of
`main` to the next, each of which may fail in its own way (`LoadKeyFails`, `ParseArgsExits`,
`ThreadPoolFails`, `DaemonFails`); from `RunLoop` on the main thread runs callbacks one at a
time, and `LoopReturns` may come between any two. `CreateListener` to `AssignListener` are one
callback, `create_listener_idle`: its calls are steps of their own because the listener thread
it starts runs at once, and the global `listener` is assigned last. `ListenerStep` opens the
port, `AcceptStep` is the accept loop of `ClientTable`; `PoolStep` is a pool thread, which reads
the global `listener` without a lock when it enters its loop and when it leaves the table.
`faults` counts the failing calls, so that a property can say what nothing but a failure does.

**Framing.** A byte is its position in the stream, a request a range of positions. `len`,
`remaining_len` and `bytes_handled` are the variables of the code; `base`, `fedFrom` and `fedTo`
say which bytes the buffer and the parser really hold, so that an error in a counter shows up as
a parser that is given the wrong bytes. The parser is modelled by its answers: in progress, a
whole request with its length, or an error. `Call` is a new call with a new parser. `SendChunk`
is one `send`, of any number of bytes.

**SecureStream** adds what `--enable-hipdex` does to each step.
What a handler does between two reads is one state, `pc[c] = "send"`, in which the answer goes out
in parts; a handler that waits for the SIB, or never returns, is a thread that stays there. A keystream byte is a pair of the
SA and a position; `HIPDEX_Decrypt` steps `decr` by the bytes of the chunk, `HIPDEX_Encrypt` steps
`encr` by the whole answer, and a chunk is `garbled` if one of its bytes was not encrypted with
the keystream byte it is decrypted with. `sa` is the entry a call has looked up; `StoreSA`
replaces the entry and starts the counters again at both ends. `hipdex` chooses the build, so
one run checks both.

**ThreadPool.** A section under the pool's mutex is a step; `Wait` releases the mutex and
enters the wait set at once. Spurious wakeups happen. The connection handler is a task that
keeps its worker until it reads `iRunning` as false. `Join` is one `pthread_join` of Close.

**HipDex.** `conn[h][p]` is the connection host `h`'s factory has for `p`, with the fields of
`TState` that are read again: the state, whether the DH group list is set (`dh`), the puzzle,
the keys, X. `HandleI1`, `HandleR1`, `HandleI2` and `HandleR2` are `CConnection::Handle` with
that handler, `RejectI2` and `RejectR2` its early returns, after which the state moves on all
the same. Each is one step because `CSafePtr` keeps the connection's mutex while `Handle` runs
(ClientHandler.h:64), and what a handler touches besides, the database, has a mutex of its
own. Each packet comes with a copy of the socket, so an answer goes to its sender.
`HIPDEX_Initiate` is `Call`, `FirstTry`, `Timeout` (a second has passed: start again), `GiveUp`,
`Succeed` and `InitiateFails`. `net` only grows: a packet in it may be handled any number of
times, at any time, or never, and `Damage` adds a damaged copy of one. Secrets, keys and
ciphertexts are symbols; `DeriveKeys` keeps what decides whether two ends agree: the material
(both HITs in order of size, the puzzle, the secret input) and which half of it is whose.

**SaDb.** `db` is the vector, of addresses; `live` holds the allocated entries, `rIP` what each is
for. `StoreNew`, `StoreAgain` and `RemoveSA` are a section under the mutex each; a new entry may get
the address of the one just deleted. `FindSA` is the loop; `ReadBase` and `ReadElement` are
`return db[i]`, which comes after the unlock and loads first where the storage is and then the
element. `size` is what the storage has room for and tells one storage from the next. Beyond the
end, or in storage that has been given up, there may be any address. `disturbed` is history.
`Search` ends when the caller drops the pointer, which in `client_receive_message` is after it has
waited for the client for any time.

**ConnectionFactory.** A counter belongs to a HIT and to the mutex or the connection. `++*iCount`
is `CopyRead` and `CopyWrite`, `--*iCount` is `DropRead` and `DropWrite`, and `DropTest` compares
with zero what was written or what is there by then, as the build likes. `factory` is the mutex
that the proxy in `(*iConnFactory)->Create(...)` holds until the copy is made; the destructor runs
under none. `overtaken` and `mixed` are history.

**Packets.** One packet goes from a constructor through `AddMac`, `Send`, perhaps `DamageByte`,
to `ReadHeader`, `ReadParam` (one parameter each) and `Verify`. Bytes are numbers, packets
sequences of them, offsets those of the code. `HitLen` is 16 in the code; any multiple of 4 has
the same alignment. AES-CMAC is a constant function. What is joined from pieces and the sum of the
checksum are recursive functions, so that they can be reasoned about. The sum has 32 bits in the
code, which a datagram of less than 65536 bytes does not use up. `MaxData` (512) bounds the tags,
nonces, ids and keys: below it neither the 16 bits in which `HipParameter.cpp:37-41` computes
lengths nor the 4096 bytes of the receive buffer matter. The code never builds longer ones.

## 3. Runs

| run | properties | bounds |
|---|---|---|
| `requests_own` | `TableHoldsLiveWaiters`, `OnlyRefusalsStray`, `AnsweredAtMostOnce`, `NoEntryLeftBehind` | 2 connections of one node with numbers of their own, 12 and -12, 2 requests each, insert and query, failed sends, 2 addresses (2.3 M states) |
| `requests_shared` | `WaiterStaysRegistered`, `EveryWaitEnds` | 3 connections, one key, 2 requests each, 2 addresses, faults alloc, build, break (0.5 M states); `KeysAssumption`: the keys of 5 node ids and 247 numbers all differ |
| `subscriptions_indications` | `IndicationsInOrder`, `NoNullMessage`, `SubscriberStaysListed`, `UnsubscribeEndsLoop` | 2 connections, subscribe or unsubscribe, 1 request each, 1 id, 4 addresses, 2 indications, broken clients, no wake thread (0.7 M states) |
| `subscriptions_three` | `UnservedOnlyWhenBroken` | 3 connections, 2 ids, 3 addresses, 1 request each, broken clients, wake thread, no indication; the three kinds of values are symmetric (0.2 M states) |
| `subscriptions_wake` | `DeadSubscriberIsDropped` | 2 connections, 1 id, 3 addresses, 1 indication, broken clients, wake thread (0.2 M states) |
| `subscriptions_faulty` | `TablesHoldLiveWaiters` | query, subscribe, unsubscribe of 2 connections under one key, failing sends, responses and allocations, wake thread (0.3 M states) |
| `subscriptions_sigpipe` | `NoSigPipe` (violated) | HIP-DEX build |
| `startup` | `QuitHasCause`, `OnlyEarlyClientsSuffer`, `TableIsClientsOfPool`, `ReadsItsOwnConnection`, `SignalsEnd`, `RegisteredIsServed` | 2 registrations, 2 signals, 1 failing call, 3 connections on 2 descriptors, a pool of 2 threads (1.0 M states) |
| `secure_stream` | `FramingTypeOK`, `AnswersWhole`, `AnswersReadable`, `ImplementsSecureChannel`, `EveryRequestHanded` | both builds, 2 connections of one host, one with 3 requests (1, 2 and 1 bytes, the last malformed), a buffer of 2 bytes, 2 handshakes (0.3 M states) |
| `thread_pool` | `NoLostWakeup`, `ImplementsTaskPool`, `AcceptedIsHandled`, `StopReturns` | 3 workers, 3 packets |
| `handshake` | `InitiatorHasPeer`, `OneDirection`, `KeysAgreeIfOnce`, `NoneRefused`, `InitiateReturns` | 2 hosts that may both initiate, 2 calls, one retry each, 2 secrets each, 1 damaged packet |
| `daemon` | `OneEntryPerPeer`, `UsesOwnEntry`, `DeletedOnlyWhenOvertaken`, `ExactUnlessMixed`, `ReceivedAsSent`, `DamageRefused` | database: 3 peers, 3 addresses, 1 caller (callers change nothing that others read); references: 2 peers, 3 threads, 4 calls; packets: every one of 2 HITs of 4 bytes, 2 nonces, 3 host ids and keys (padded and not), every byte damaged in two ways (1.2 M states) |

Why the bounds are enough to be interesting. A hazard of the request table needs one thread
that is late with a pointer and one that has reused key or address: two connections with two
requests each, and as many addresses as connections, give reuse of both. Three connections
under one key give a registration between a refusal and its second removal. A slot conflict
needs two indications, or an indication and the confirmation of an unsubscribe from another
connection. A lost wakeup needs a sleeper, a worker on its way, and two tasks. A cut stream
needs a buffer that holds the end of one request and the start of the next, and a request
longer than what is left: a buffer of 2 with requests of 1, 2 and 1 bytes. Shared cipher
counters need a second connection and a second handshake. At start-up one failing call is
enough to reach every error path, since each of them ends the program or a thread. In the
handshake, two calls, each with a retry, give two exchanges at once in one direction or in
both, and a second secret makes the answers of two tries differ. An entry needs a neighbour before
and one behind it, so three peers. A lost update needs two threads at the counter, and a deletion
one more that drops the reference that was not counted. More of the same kind only
repeats these.

What the runs show beyond "it holds":

* `OnlyRefusalsStray` is as strong as the code allows. A refusal is sent through freed memory
  and can reach another client; what the SIB confirmed cannot, as long as connections use
  different keys.
* `WaiterStaysRegistered` and `EveryWaitEnds` hold with shared keys only while nothing is
  refused: a refused request is removed twice, and the second removal takes out the entry of
  whoever has registered in between. That is why `requests_shared` has no `send` fault and no
  kind that is refused.
* `NoEntryLeftBehind` holds without the `build` fault: a response that cannot be built ends the
  handler with its entry in the table.
* `UnservedOnlyWhenBroken` speaks of the time before a message has `strayed`. With three connections,
  the confirmation of an unsubscribe can be written into a subwaiter that has been freed meanwhile and
  whose address is already another subscriber's (main.c:2061-2064): without that condition TLC finds a
  state of `subscriptions_three`, 33 steps deep, in which that subscriber's loop has ended and an entry
  is left that nobody serves, although its connection is sound. Nothing in the code prevents it. So the
  run says that this is the only way: as long as no message has gone to a thread it is not for, an
  entry without a thread means that a client has gone. Messages stray with two
  connections too: an indication finds the waiter of a new request at the address of the subwaiter it
  was for. The properties of `subscriptions_indications` and `subscriptions_wake` hold with that, for
  two connections; section 4 has the safety properties of the former for any number of connections,
  until a message has strayed.
* `TableIsClientsOfPool` does not say that an entry has a thread. It may have none, for ever, when the
  push fails or the pool is full: the client is accepted and never answered. It says that the table and
  the pool agree: an entry is a client that is queued or served, under its own descriptor, and a client
  that is queued or served has its entry.
* `NoNullMessage` and `UnsubscribeEndsLoop` are checked without the wake thread. With it, the
  slot can be emptied between two reads (the process dies) or before the confirmation of an
  unsubscribe has been read (it is lost, and the loop goes on). An indication has the same effect:
  the loop frees the slot after it has passed an indication on, and the confirmation with it if it
  has come meanwhile. So `UnsubscribeEndsLoop` speaks of subscriptions without indications; broken
  clients make no difference.
* `daemon` checks three modules in one run. They have no variable in common and no step of one looks
  at another, so `MCDaemon` lets one move while the others are as they were at the start.
* The type invariants of `Requests`, `Subscriptions` and `HipDex` are not repeated in the runs:
  section 4 has them for every value of the constants.
* `subscriptions_sigpipe`: the comment at main.c:39-41 says that sends carry `MSG_NOSIGNAL` so
  that no SIGPIPE is raised; the probe of the HIP-DEX build (1595) is sent without flags.
* `KeysAgreeIfOnce` needs its condition. A retry makes a new X, and an R2 does not say which
  X it answers (its keys are those of the pair of hosts, its echo is the constant puzzle), so
  after a retry or a repeated packet the ends of an SA may hold keys of different secrets.
  `InitiatorHasPeer` is what is left in every case: both ends know the same Y.
* `OneDirection`: a host that has initiated is never again in a state in which it answers an
  I1 of that peer, unless it has answered one before. So exchanges do not mix; but two hosts
  that initiate at the same time may ignore each other's I1 for good.
* `NoneRefused` is why the state that moves on after a refusal (Connection.cpp:49) does no
  harm to late, repeated and reordered packets: none is refused. A damaged one is, and the
  exchange is then only mended by the next try.
* The key of a request (`RequestKey`) is injective although the digits of a negative number are
  computed with C's remainder: they lie before "0". `requests_own` uses two such numbers for its
  keys (without the sign, TLC finds an answer of the SIB at the wrong client), TLC evaluates `KeysDiffer` over many more before `requests_shared`, and
  `RequestKey_proofs` proves it of all.
* `OnlyEarlyClientsSuffer` says how narrow the window at start-up is: a client that is accepted
  between the start of the listener thread and the assignment of `listener` is dropped or
  crashes the process, any other is served. It also names the failures of start-up that end in a
  crash instead of an exit: a daemon that could not start, the SIB object, the wake thread.
* `SignalsEnd`: a signal before the loop runs is lost (`g_main_loop_run` sets what
  `g_main_loop_quit` has cleared), the second one kills.
* `ImplementsSecureChannel`: in the plain build and with one connection per host, no well-formed
  request is refused however the stream is cut. With the SA shared by two connections that are
  used at once, or a connection that is cut off half-way, the counters of the two ends part
  (`disturbed`), and a request may be refused then, until the next handshake.
  `AnswersReadable` is the same for the other direction.
* `UsesOwnEntry` says exactly when the unprotected read in `FindSA`, and the unprotected pointer
  after it, do no harm. Outside that, TLC finds a caller that holds an entry that has been deleted,
  and one that holds the entry of another peer, each six steps deep. Which of the
  interferences can happen depends on who stores and removes: a new handshake of the same peer while
  one of its connections waits in `recv` is an ordinary event.
* `DeletedOnlyWhenOvertaken` separates the overlaps: destructors that overlap each other, or the
  read of a copy, leave a counter too high, which has no effect because the factory keeps its
  connections anyway. A copy that counts itself between the read and the write of a destructor is
  lost, and then the last of the threads deletes the connection under the factory; TLC reaches
  that with two threads, in fourteen steps.
* `ReceivedAsSent` covers what a byte format hides: the two halves of a SOLUTION are found from
  the length of the parameter, not of the padded one; the domain id's type is read from the wrong
  byte (HipHostId.cpp) and comes out as it should because the packets of the code have none.

### Fairness

* `WF` of each client thread's step and of the callbacks: threads are scheduled; a thread that
  can go on does.
* The SIB confirms every request it was sent (`Requests`: each of them, by weak fairness per
  request; `Subscriptions`: it goes on answering while it has something to answer, and the
  number of requests is bounded). The code relies on that, its waits have no timeout. Nothing
  obliges the SIB to send an indication.
* The wake thread's sleep ends (`WF` of `WakeRound`).
* Pool: every worker that can run runs; the receive of the connection handler has a timeout,
  so its loop goes round; the packet handlers end; nothing obliges anyone to start or to stop
  the daemon, but a thread that has begun to stop it goes on.
* `Startup`: the main thread and the listener threads take their next step. Nobody has to
  register, to connect, to signal or to fail.
* `SecureStream`: a connection's thread that has something to read or to parse takes its next step;
  clients owe nothing. A handler is given no fairness: its `send` blocks on a client that does not
  read (2415, 2417), it waits for the SIB without a timeout (818), and that of a subscription stays
  in its loop (1476). `EveryRequestHanded` is therefore about connections whose handlers return, which
  is its premise (`HandlersReturn`): it says that the framing loses or strands nothing, not that the
  service answers.
* `HIPDEX_Initiate`: `WF` of its step. It loops without blocking, and the processor time it
  measures with `clock()` passes because it is busy. Nothing is assumed about packets.

## 4. Proofs

The proofs hold for every number of connections, keys, addresses, requests, faults, descriptors,
workers, packets, requests on a stream, and every size of buffer. They rest on the assumptions named
in the modules: `WaitersAssumption` and `RequestsAssumption` (NULL is no address, no key and no
connection; a client's keys are keys), `NullIsNoMessage`, `ClientTableAssumption`,
`StartupAssumption` (bounds are numbers), `FramingAssumption` (requests end in order, a buffer has
room for a byte), `SecureAssumption` (bounds are numbers, and nobody asks for more than there is),
`HipDexAssumption` (HITs are compared as numbers, nobody calls himself), and `ThreadPoolAssumption`
(at least two workers, as one is taken by the connection handler), `FactoryAssumption` (NULL is no
thread, there are finitely many), `PacketsAssumption` (values are sequences of bytes; host identity
tags have one length, a multiple of 4; nonces have one length; all fit `MaxData`; damage changes a
byte) and `CmacAssumption` (a MAC is a sequence of bytes, `MaxData` at most).

| theorem | says | argument |
|---|---|---|
| `RequestKey_proofs!KeyIdentifies`, `KeysOfRequestsDiffer` | a key determines its node id and its number, any number and any node id; so `KeysDiffer` for all finite sets of them | whatever the sign, the digits are characters from "'" to "9" (39 to 57), which the underscore (95) is not; so the last underscore of a key is the separator (`DigitsNoLonger`), what comes before it is the node id, and the digits determine the number (`DigitsDiffer`, by induction over its size) |
| `Requests_proofs!TypeCorrect` | `[]TypeOK` | inductive as it stands, because it includes that a thread inside a handler has a key, a waiter and a serial number |
| `Requests_proofs!TableSound` | `[]TableHoldsLiveWaiters` | the table changes in three ways only (`TableSteps`); a new address is not live, so it is not in the table; a removal destroys one waiter, and entries are distinct, so no other entry points to it |
| `Requests_proofs!OwnEntries` | `[]WaiterStaysRegistered` if connections use different keys | `OwnInv`: besides the table, a thread only uses keys of its client; so a step of another connection removes or enters another key, and, entries being distinct, another waiter |
| `Requests_proofs!NodesKeepTheirEntries` | the same if clients that share a node id do not share a number | by `KeyIdentifies` |
| `Requests_proofs!ConfirmedNeverStrays`, `OneAnswer` | `[]OnlyRefusalsStray`, `[]AnsweredAtMostOnce` if connections use different keys | `AnswerInv`: a token at the SIB, or the callback that has taken it, belongs to a thread that is still in its wait for that request, with its flag not set; so a slot only holds the answer to the own request, and a request with an answer is not in hand again. One frame lemma (`StepLeavesOthers`) says what a step of one connection leaves to the others |
| `Requests_proofs!NothingLeftBehind` | `[]NoEntryLeftBehind` if besides responses can be built | `EntryInv`: a thread that has been woken finds a message, so the only return that skips the removal is not taken |
| `Subscriptions_proofs!SubTypeCorrect` | `[]SubTypeOK` | inductive because it says what a handler has at each label (`HandlerTypeOK`) and that a slot holds a message or nothing |
| `Subscriptions_proofs!TablesSound` | `[]TablesHoldLiveWaiters` | `MemoryEffect` lists the seven things a thread's step does to memory and tables; each keeps the two tables disjoint and live |
| `Subscriptions_proofs!RequestsStayRegistered` | `[]WaiterStaysRegistered` if connections use different keys | `RegisteredInv`, as for `OwnEntries`; its part `RequestsHold` also covers a subscribe until its acknowledgement has gone out, through the first waiter's descriptor |
| `Subscriptions_proofs!NodesSeparateKeys` | `KeysApart` (1) if the node ids differ; and if the number of the gateway's unsubscribe after a failed probe is none the client uses, its key is no request's | by `KeyIdentifies` |
| `Subscriptions_proofs!SubscribersStayListed` | `[]SubscriberStaysListed` (1) | `OwnershipInv`: what the SIB has been sent, and what a callback carries, is for a thread that waits for it, at most once; a granted id is one thread's; so the entry under it is entered and taken out by that thread only |
| `Subscriptions_proofs!NoNullWithoutWakes` | `[]NoNullMessage` (1), without the wake thread | `FullInv`: while the loop reads, the slot holds a message |
| `Subscriptions_proofs!UnservedAreBroken` | `[]UnservedOnlyWhenBroken` if keys are apart (1) and responses can be built | `ServedInv`: an entry has the thread that entered it, until that thread has found its client gone |
| `Subscriptions_proofs!IndicationsComeInOrder` | `[]IndicationsInOrder` (1) | `OrderInv`: what the client has, what the loop holds, what the slot holds, what the callback carries and what the SIB sends next are in order; one lemma per place |
| `Startup_proofs!Invariance` and its corollaries | `OneClientPerDescriptor`, `TableIsClientsOfPool`, `ReadsItsOwnConnection`, `NobodyTurnedAway` | the invariant says which connection each open descriptor belongs to, the accepted one that is not entered yet and those queued in the pool included |
| `Startup_proofs!GatewayHasTable`, `GatewayTable`, `GatewayConnections` | `Startup` implements `ClientTable`; so `TableIsClientsOfPool` and `ReadsItsOwnConnection` of the whole gateway | every step of start-up leaves the table alone or is one of its steps |
| `Startup_proofs!StartupTypeCorrect`, `NoQuitWithoutCause`, `LateClientsAreSafe` | `TypeInv`, `QuitHasCause`, `OnlyEarlyClientsSuffer` | `StartupInv`: without a failed call there is one listener and one listener thread; a connection that is not early was accepted when `listener` had been set, for good |
| `SecureStream_proofs!FramingTypeCorrect` | `[]FramingTypeOK` | needs that the buffer's bytes were received and that what the parser was given lies in one request: `IndInv` |
| `SecureStream_proofs!AnswersGoOut` | `[]AnswersWhole` | `IndInv` relates `wire`, `total` and the request last handed over |
| `SecureStream_proofs!ChannelRefined` | `Spec => ImplementsChannel` | one lemma per action: `ParseOK` hands over the request after the last, because the bytes not handled start where it starts |
| `SecureStream_proofs!SecureFramingTypeCorrect`, `SecureAnswersGoOut` | `[]FramingTypeOK`, `[]AnswersWhole` in either build | `IndInv` again: it counts bytes and does not look at what they say, so a request that is refused because it came out wrong, and a call that fails before it reads, leave it alone |
| `SecureStream_proofs!AnswersAreReadable` | `[]AnswersReadable` | `InStep`: while the order is not disturbed, one connection at a time has anything on its way; the request bytes on their way make up the difference between the host's and the gateway's counter (`RequestsInStep`), the answers on their way the difference in the other direction (`AnswersInStep`). A handshake takes the disturbance back only when every connection is idle, which is when both differences are nothing |
| `SecureStream_proofs!SecureChannelRefined` | `SecureSpec => ImplementsSecureChannel` | `Lifts`: each step is one of the channel with noise, and one of the channel without while nothing is disturbed, because a request that comes out wrong then is impossible by `InStep` |
| `ThreadPool_proofs!ClosedIsAwake`, `Drained` | `NoSleepAfterClose`, `StoppedIsDrained` | `PoolInv`: a worker only leaves a closed pool with an empty queue, and a closed pool accepts nothing |
| `ThreadPool_proofs!WakeupsSuffice` | `[]NoLostWakeup` | each task in the queue is paid for by an awake worker; the cardinality of the awake workers changes by one as the length of the queue does |
| `ThreadPool_proofs!Refinement` | `Spec => ImplementsTaskPool` | `TasksInv`: a task is in one place only, and the packet about to be assigned in none |
| `HipDex_proofs!PeerHasStored`, `OnlyOneDirection`, `KeysAgree`, `PacketsAccepted` | `InitiatorHasPeer`, `OneDirection`, `KeysAgreeIfOnce`, `NoneRefused` | `IInv` says what a packet tells about its sender (an R2: that an SA has been stored), what a host that waits for an R2 has kept, who has sent an R1 to whom (never both of a pair), and from which secrets each SA is; one lemma per handler |
| `Daemon_proofs!DatabaseSound`, `OwnEntryUsed` | `[]OneEntryPerPeer`, `[]UsesOwnEntry` | `DbInv`: while a caller is not disturbed, its index is that of its peer's entry, its storage is the one in use, its pointer is its peer's entry. What an erasure does to a sound vector is one lemma (`ErasedIsSound`), what it leaves to callers another (`ErasureKeepsSearches`) |
| `Daemon_proofs!KeptConnections`, `ExactCounters` | `[]DeletedOnlyWhenOvertaken`, `[]ExactUnlessMixed` | `FactoryInv`: unless overtaken, a counter, and every number a thread has read from it and will write back, is at least the number of references (`Enough`). A decrement lowers both sides; an increment raises both, and may do so because nobody is about to write back an older number: copies are made one at a time, and no destructor is between its read and its write |
| `Daemon_proofs!DamageIsRefused` | `[]DamageRefused`: one damaged byte, any byte and any change | `ToBytesShape`: what is sent is the unsigned packet with its checksum (`IsSigned`). A changed byte shifts the sum, by 255 * 256 at most, which is less than 65535; adding the carries in keeps a sum modulo 65535 (`FoldedKeepsTheRemainder`), so the two sums stay different (`FoldedDiffer`); a change in the checksum itself differs from the one calculated (`DamageFound`) |
| `Daemon_proofs!ReceivedIsSent` | `[]ReceivedAsSent`: tags, nonces, ids and keys of every length that fits | `PacketInv`: after k parameters the parser has the first k and stands at the length of what they were written to (`HasRead`, `Offset`). `ParamInTheMiddle`: a parameter among any other bytes is found with its type, length and fields, and ends where the parser expects; `ReadBack`: it is read back as it was, the lengths of its parts included; `MacOfItself`: what the MAC is taken of does not change when the MAC is added |

(1) If `KeysApart`, no two connections use one key (with one key a connection can end another's
requests), and until a message has strayed: the theorems are of the form `SubSpec => [](~strayed => P)`,
and `UnservedOnlyWhenBroken` has the condition in itself. Nothing in the code prevents a stray (the
remark on three connections in section 3 is its consequence), and no run or theorem excludes it:
behaviours that stray are in the model, and what is said of them is everything up to that step. So
the theorems name the only way, given different keys, in which these four properties can fail. Nothing
is assumed about a fill of a freed waiter whose address is still free. `UnservedAreBroken` needs the
absence of the `build` fault because a response that cannot be built leaves both entries behind;
`NoNullWithoutWakes` needs `-sub-wake-fr 0`, because the wake thread empties slots under the reader.

The four rest on one another: `RegisteredInv`, then `OwnershipInv`, then `FullInv`, `ServedInv` and
`OrderInv`, each inductive relative to those before it; those after the first as `strayed \/ Inv`,
because a stray is for good. TLC checks their conjunction over all states of
`subscriptions_indications` and `subscriptions_wake`; over six million states of
`subscriptions_three`, a part of those there are without the symmetry, have not violated it either.

`SecureInv`, the invariant behind the theorems of `SecureStream`, was checked with TLC
before it was proved, over all states of the run `secure_stream` and on a part of those of three
connections and three handshakes.

`OwnEntries` and the run `requests_shared` complement each other: the theorem has the refusals
and needs different keys, the run has the same key and needs that nothing is refused. That keys
differ is what `RequestKey` is about: they do if the clients' node ids differ, or their numbers,
and only then.

`OneClientPerDescriptor` and `NobodyTurnedAway` of `ClientTable`, `NoSleepAfterClose` and
`StoppedIsDrained` of `ThreadPool` are proved for every size, so no run repeats them.

The theorems about `Packets` are about functions that are defined by recursion: the joined bytes, the
sum, the carries. The induction theorems of the library take an operator as a parameter, which the
provers cannot instantiate; so `Recursion` proves, for any function `step` and a measure that gets
smaller, that some function satisfies the equation, with `SetInduction` of `RequestKey_proofs`, and
what is then needed of each function is proved by induction over a set of numbers (`ChangedSum`,
`JoinedUpTo`, `FoldedKeepsTheRemainder`).

`DamageIsRefused` is about one byte: two that make up for each other pass the checksum, in the code
as in the model, and are then up to the MAC, which R1 has not got.

Only model-checked:

* liveness (`EveryWaitEnds`, `UnsubscribeEndsLoop`, `DeadSubscriberIsDropped`, `SignalsEnd`,
  `RegisteredIsServed`, `EveryRequestHanded`, `AcceptedIsHandled`, `StopReturns`,
  `InitiateReturns`): liveness under fairness is out of the prover's reach;
* of `Subscriptions`, what holds after a message has strayed, beyond `TablesHoldLiveWaiters` and
  `WaiterStaysRegistered`, which are proved of that too: the runs with two connections have it.

## 5. Not modelled

* Wording and content of SSAP messages, logging, encodings.
* What undefined behaviour does beyond reading a freed waiter and an uninitialised status: a
  write through a freed pointer that corrupts the heap ends the model's interest, and so does the
  memory of a waiter that is handed out for something other than a waiter.
* `getsockopt` in the refusal branch is called with an uninitialised length: modelled as a
  choice.
* External code: the SIB, the D-Bus object, the SSAP parser, GLib, OpenSSL. They appear as
  they are used.
* In `HipDex`: the creation of connections and their references (they are in
  `ConnectionFactory`), restarts of a host, malformed packets (a parameter that is
  missing is dereferenced), damaged HITs, a send that fails in a handler (the exception ends
  the daemon). `Closing` and `Closed` are never entered.
* A `recvfrom` error other than a timeout throws out of a pool thread and ends the daemon; the
  receives in `ThreadPool` succeed, time out or are interrupted.
* `waiter_timed_wait_for_finished` and `CThread::Stop` have no caller.
* In `Packets`: parameters of more than 512 bytes, so the wrap of the 16-bit lengths and the end of the
  4096-byte receive buffer; the parameters R1_COUNTER, ENCRYPTED and ECHO, which no handler adds or reads;
  damage to more than one byte; the cryptography of the MAC. `hdx_ltrunc` and the search for a
  solution appear in `HipDex` as a puzzle that is solved or not.
* In `SecureStream`: the steps of a handler between parsing a request and sending its answer, which
  are in `Requests` and `Subscriptions`; the two ends of a handshake store at different moments
  (I2Handler.cpp:152, R2Handler.cpp:94), after a retry perhaps different keys (`HipDex`), while
  `StoreSA` restarts both at once with one keystream; `HIPDEX_GetSA` and the use of the entry it found are apart, and only a new
  handshake comes between them; removal and the read without the mutex are in `SaDb`. Every
  connection has an SA when it starts.
* In `SaDb` and `ConnectionFactory`: what the use of a deleted entry or connection does; an
  allocation that fails. A counter that has been deleted may read as any number.
* In `Startup`: the values of the port, the name and the other options.
* Demo programs, build files and packaging.

## 6. State of the work

Done: the request table and its handlers, subscriptions, the client table, start-up and
shutdown, framing in both builds, the thread pool, the handshake, the packet codecs, the SA
database, the references to connections.

What could come next: of `Subscriptions`, what holds after a message has strayed; errors of
sockets that end the process.
