# A TLA+ verification of the OS course programs

The repository is a collection of small systems programs: processes that share
memory under System V semaphores, socket servers in three concurrency styles,
Sun RPC servers, a daemon, programs that share a file, a pipe or a directory, and
Linux kernel modules. Each of them is short, and nearly all of what can go wrong
in them is concurrency or hidden shared state: who holds which semaphore when a
signal arrives, what a thread reads that another one writes, what is freed while
it is still scheduled, which file or directory is left behind. That is what this
project models. It consists of twenty models, which TLC checks in twelve runs (three
of the models, the buffer servers, implement one abstract specification), and of
TLAPS proofs, for all sizes, of nearly every safety property the runs check and of the
three refinements.

## Inventory

| Part | State | Operations | How the pieces meet | Hard behaviour |
|---|---|---|---|---|
| `sem_05/lab_03/producer-consumer` | 3 semaphores, a shared page with two pointers and a letter | produce, consume, fork, wait, alarm handler | processes over shared memory, `semop` arrays | alarm anywhere, pointers that never wrap, failing forks, lost wake-up |
| `sem_05/lab_03/reader-writer` | 4 semaphores, one shared letter | read, write, SIGTERM to the group | as above, `semop` arrays of five operations | signal against fork and against sleep, a transient letter |
| `sem_05/lab_03/reader-writer_win` | 2 auto-reset events, a mutex, 3 counters | start/stop read/write | threads over shared variables | unlocked counter updates, lost hand-over |
| `lab_sockets/lab_03/lab_03` `server_1.c`, `client.c` | ring, 3 semaphores, sockets | a thread per connection | requests over TCP, blocking `semop` | everyone waiting on everyone, removal of the set under waiting threads, a second SIGINT that reaches a worker |
| `lab_sockets/lab_03/lab_03` `server_2.c` | ring, 2 semaphores | one connection at a time | `epoll` on the listening socket only | SIGINT before, in and after `epoll_wait`, resets, a blocked server |
| `lab_sockets/lab_03/multiplex` | ring, 2 semaphores | an event loop, refusals, retries | requests over TCP, `IPC_NOWAIT` | retries, a server that stops between request and reply |
| `lab_sockets/lab_03/mt` | array of letters, 5 semaphores | list letters, reserve a letter | a thread per connection with a shared `connfd` | shared descriptor variable, stale lists |
| `sem_05/rpc/compile/0` | two ticket counters | `GET_NUMBER` in threads, `BAKERY_PROC` in `svc_run` | RPC over TCP, `send_mutex` | read and increment, killed clients, destroyed transports |
| `sem_05/rpc/new_bakery` | `numbers[]`, `results[]` | register, poll, result | RPC over UDP | lost and repeated calls, busy wait in the only server thread |
| `lab_tasklet` | tasklet / two work items, last key | interrupt handlers, bottom halves, load, unload | one shared interrupt line | bottom half scheduled while unloading, error paths |
| `sem_05/rpc/calculator_multithread` | connections, argument cells | one call per connection, a thread per call | RPC over TCP | threads that outlive their transport, an uninitialised result code |
| `sem_05/lab_05_deamon` | lock file, signal mask, configuration | start, signal thread, `reread` | signals, `/var/run` | racing starts, signals during start-up, signals that do not queue |
| `lab_sockets/lab_01`, `sem_05/lab_02_unix` `pipe.c`, `signal.c` | a socket pair or a pipe | fork, write, read, wait | bytes without message boundaries | two messages in one read, SIGINT |
| `lab_sockets/lab_02` | a socket file | datagrams, answers | UNIX datagram sockets | interrupted calls, killed clients, names left behind |
| `lab_buf_io` | descriptors, `FILE` buffers | read or write through two streams | one open file, or two of one file | read-ahead in two threads, the second close overwrites |
| `lab_fs/main.c` | working directory, one path buffer | three walks of a tree | the walks share both | `chdir("..")` that does not lead back |
| `lab_module/task_03` | a page of cookies, two indices | open, read, write, release, load, unload | `/proc`, no lock | the end of the page, overlapping calls, failing loads |
| `lab_vfs/my_vfs.c` | a slab cache, a file system type | load, mount, unload | the kernel's reference counts | failing loads, order of the unload |
| `lab_proc`, `lab_netstat`, `lab_module/task_01`, `task_02`, the older variants, listings and reports | | | | not modelled, see below |

What makes each part correct:

* the buffers (producer-consumer, three servers): mutual exclusion over the
  pointers or indices, conservation of slots, first in first out, honest
  refusals, an answer to every request, an end of the program;
* the readers and writers (POSIX, Windows, letter server): a writer is alone,
  what a reader sees does not change under it, no wake-up is lost, a letter is
  reserved once;
* the ticket servers: first come, first served, no ticket lost, waiting ends; the
  calculator: a client prints the result of its own call;
* the modules: the last key is shown, cookies come back whole and in order, nothing is
  used after it was freed, nothing is left behind;
* the daemon: one instance between two boots, no signal ends it, every SIGHUP is followed
  by a reading of the newest configuration;
* the small programs: they end, no letter is lost or printed twice, the socket's name is
  free again, a walk reports every entry of the tree once;
* all of them: the IPC objects live exactly as long as somebody needs them.

The hazards the properties are aimed at are listed, each with its line, in
`PROJECT.json`.

## Modules

| Module | Models | Notes |
|---|---|---|
| `SysVSem` | `semop(2)`, external | `sem ## <<n, op>>` applies one `struct sembuf`; a chain is an array; `Blocked` means that the call sleeps or returns EAGAIN |
| `BoundedFifo` | what a buffer server promises | abstract specification of the three buffer servers: letters enter at the end of `queue` and the one handed out (`taken`) is always its head; each server keeps `taken` as a history variable |
| `ProducerConsumer` | `producer-consumer/main.c` | one action per statement between two `semop`s; `alarm` and `flag` per process; the page is `mem` of `ROOM` bytes |
| `ReaderWriter` | `reader-writer/main.c` | signals are `pending` until delivered, to a process asleep in `semop` with EINTR |
| `ReadersWriters` | both reader-writer programs | extends `ReaderWriter` and instantiates `ReaderWriterWin`; `platform` says which of them runs |
| `ReaderWriterWin` | `reader-writer_win/main.c` | `++` and `--` on `active_readers` are a load and a store, every test is a step |
| `PcServerThreads` | `server_1.c`, `client.c` | the thread of a request is named by its client; SIGINT interrupts `main` between any two of its statements from the installation of the handler on, and the `semop` a worker waits in while `main` is in the handler |
| `PcServerEpoll` | `multiplex/server.c`, `client.c` | one event is one step, because the server has one thread and `IPC_NOWAIT` |
| `PcServerIterative` | `server_2.c`, `client.c` | `cur` is the connection `serve()` stays with; the test of `flag` and `epoll_wait` are separate steps |
| `LetterServer` | `mt/server.c`, `client.c` | `connfd` is one variable that threads read late |
| `TicketRpc` | `rpc/compile/0` | calls over a connection per session; `served` and `issued` record the order |
| `BakeryRpc` | `rpc/new_bakery` | a set of datagrams in flight; requests that outlive their call are the stale ones; the scan of `RESULT` reads one slot per step |
| `KeyTasklet`, `KeyWorkqueue` | `tasklet.c`, `my_workqueue.c` | components that share the variable `irq` |
| `KeyLine` | the shared interrupt line | composes both: one key calls both handlers |
| `Fortune` | `task_03/fortune.c` | every statement on the shared indices and the page is a step; a byte is text or 0, and what a call writes may be either; a copy that fails leaves a part of it |
| `MyVfs` | `my_vfs.c` | each allocation may fail; `todo` is what a loop has still to handle |
| `LabModules` | the kernel modules | `KeyLine`, `Fortune` and `MyVfs`, loaded one at a time (the two keyboard modules together) |
| `Daemon` | `daemon.c` | several starts; what a signal does depends on how far the process is |
| `Streams` | `lab_01/main.c`, `socketpair.c`, `pipe.c`, `signal.c` | a stream is the sequence of its bytes, each named by its message |
| `Datagrams` | `lab_02/prog_1`, `prog_2` | two servers, one after the other on the same name; uninitialised fields of the addresses are choices |
| `FileIo` | six programs of `lab_buf_io` | open files with offsets, `FILE` buffers; `3.txt` starts with any of `OldFiles` |
| `Calculator` | `rpc/calculator_multithread` | arguments and results are named by the connection; a destroyed transport is undefined |
| `TreeWalk` | `lab_fs/main.c` | the recursion is a stack of the open directories, each with the entries to come; a path is a sequence of names, resolved against `cwd`; `Above` gives the ancestors of every node |
| `LabPrograms` | the programs of the last six modules | `program` says which of the fifteen runs |
| `MC*` | | instances for TLC; each `.cfg` fixes the constants |
| `SemRingProofs` | | lemmas: what one `sembuf` of each kind does, and what a store, a put and a get do to the part of a ring that is in use |
| `ProducerConsumerProofs` | | producer-consumer |
| `ReadersWritersProofs` | | both reader-writer programs |
| `ThreadServersProofs` | | the threaded buffer server; the letter server (instantiated as `LS`) |
| `NowaitServersProofs` | | the epoll server; the one-connection-at-a-time server (instantiated as `I`) |
| `RpcServersProofs` | | the ticket server; the bakery server (instantiated as `B`) |
| `LabModulesProofs` | | the kernel modules |
| `LabProgramsProofs` | | the daemon, the datagram servers, the calculator, the directory walk, the parents with their children, the readers and writers of letters |

Every module states the types of its variables as `TypeOK`; for `ProducerConsumer` and
`ReaderWriter` it is a theorem, elsewhere the inductive invariants contain the types they
need. The runs spend their time on the properties below.

`ReadersWriters`, `LabModules` and `LabPrograms` put programs beside each other that do not
interact: the initial state says which of them is started and the others stay in their
initial states, so that one run explores each of them completely and never their
product. Within `KeyLine` the two modules do interact.

Names follow the source (`start_produce`, `BUFFER_EMPTY`, `active_readers`,
`client_number_service`). Definitions called `Faulty...` and the like (`DeafAlarm`,
`NoAhead`, `OneCell`, ...) are not part of any specification: each is a
plausible wrong version of the definition after it, kept to show that the
properties notice it (`mutants` in `PROJECT.json`).

Letters are numbers `0 .. L-1`, `L` standing for a byte nobody wrote; in
`ReaderWriter` 0 is `'a' - 1`. Addresses are offsets. Printing, logging and time
measurements are left out. A value the code reads without having written it (the
client's `status`) is any value.

## Runs

| Run | Instance | What it shows |
|---|---|---|
| `producer_consumer` | 2 producers, 2 consumers, 2 slots, a page of 3 bytes, 3 items | mutual exclusion, exact counters, letters in order, the objects outlive the children; the program ends **or** a child was stranded: its only alarm came between the test of `flag` and `semop` |
| `reader_writer` | both programs with 2 writers and 2 readers; 1 letter on UNIX, 2 letters and 2 rounds on Windows | UNIX: a writer is alone and a reader's letter does not change under it; the counters match who is inside, and the queue counters are never visible to anybody (they are raised and lowered in one atomic `semop`). Windows: there is one token, so even readers work one at a time, which is why the unlocked `active_readers--` loses no update. Both end (`ProgramsEnd`): on UNIX also the processes asleep or forked after the signal, on Windows no hand-over is lost |
| `pc_server_threads` | 2 clients, 1 letter each in advance, 3 slots | the server implements `BoundedFifo`; as long as the letters the clients leave behind fit in the ring with one slot to spare there is no gridlock and every request is answered; the set is removed at the end unless the server ends while a thread waits in `semop` |
| `pc_server_epoll` | 3 clients, 2 slots | the same without a mutex, and it refuses only when the buffer is full or empty; retries take effect once; clients end or all that are left are of one kind |
| `pc_server_epoll_stop` | 2 clients | **violation**: a client reports OK for a request nobody carried out |
| `pc_server_iterative` | 3 clients, 2 slots, killed clients | the same promise for the third server; SIGINT ends it wherever it strikes, between the test of `flag` and `epoll_wait` only because the wait has a timeout |
| `letter_server` | 2 clients, 2 letters, 4 connections | a letter is reserved once and replies are true, although threads may share a connection; a request is answered unless its connection was orphaned |
| `letter_server_full` | 1 client, 2 letters | **violation**: the server does not shut down when all letters are reserved |
| `ticket_rpc` | 2 clients, 5 sessions | first come, first served; no ticket lost; one killed client stops everybody after it |
| `bakery_rpc` | 2 clients, 2 tickets, 1 stale request | who asks for its turn with a ticket is served before every later ticket, over a lossy network; in the end every client has ended, or the server spins for good, or the client polls for a ticket that is gone for good |
| `lab_modules` | 3 scancodes, 2 keys; a page of 3 bytes, 2 processes, 4 calls; 3 objects, 2 mounts | the last key is shown once the bottom halves rest; cookies come back in order and no store and no printed string leaves the page but by the off-by-one of line 53 and by a write of nothing to an empty or a full page; unloading or a failing load frees nothing in use but in the windows the properties name |
| `lab_programs` | 2 starts, 3 signals, 1 edit, 1 reboot; messages of 1 to 11 bytes; 2 datagram clients, 2 servers; 6 letters, blocks of 4, three old contents of `3.txt`; 2 users, 2 connections; 7 nodes, 7 arguments | the daemon starts once per boot, survives signals once its thread runs and rereads after SIGHUP; parents read every byte and end unless a read glued two messages; a client is answered or its server ended; the name is freed but for the named ways; letters are neither lost nor doubled, and what `3.txt` held behind them stays; results belong to their calls; the walks report the tree |

### Why the bounds are enough

Symmetric processes appear twice, in each role: the properties compare two
holders, a holder and a waiter, or two successive letters, and two of each kind
with a third party (the parent, the main thread, the server) meet in all orders.
Rings and pages are so small that they fill, empty and wrap (or, for the
page, are overrun) within the run; two letters tell a lost, repeated or reordered
one from the right one. `MaxItems` in `ProducerConsumer` keeps a producer from
starting another item, as if it were not scheduled until its alarm; it is one
more than the slots, and two producers past the test reach beyond the page.
`PcServerThreads` runs with two clients that each produce one letter in advance
(`WARMUP` 1) and then produce and consume twice, over three slots: the smallest ring with
the slot to spare that `NoGridlock` and `RequestAnswered` ask for, so that their guard
is met and the ring is full but for that slot. With the code's own constants (5 letters
in advance, 26 slots) the guard holds up to five clients; six can all wait for ever.
`PcServerIterative` has a warm-up and a ring that is full after two of its three clients.
`MaxConn`, `MaxTickets`, `MaxStale`, `MaxKeys`, `NCalls`, `NConns`, `NStarts`, `NSignals`,
`NEdits`, `NBoots`, `NRuns` and `NSigints` bound histories the programs do not
bound; they are guards, so that the remaining steps still run to the end.

A pot of three bytes is filled, overrun and wrapped around within four calls, by whole,
refused and failing writes. Two starts of the daemon race for the lock file, three signals
can arrive before, during and after a `reread`, and a reboot separates the two. In `Streams`
the sizes keep the order of the real ones (a child's read smaller than an answer, a parent's
read larger than two messages). Blocks of four over six letters make the two `FILE`s of
`FileIo` read ahead unevenly, as 20 of 26 do, and `3.txt` is at first empty, shorter or longer than
the three letters that stay in it. The tree has a directory two levels below the
argument, which may be unreadable or not searchable, and the arguments are a directory,
a file, a missing name, `.`, `..`, a path of two names and an absolute path.

`CHECK_DEADLOCK FALSE` appears where a bound on connections, keys or calls, or the end of
a program, lets the model rest (`LetterServer`, `LabModules`, `LabPrograms`); the other
specifications have an explicit `Terminating` step for the states where the programs really
stop, so that TLC reports every other stop.

### Fairness

`FairSpec` (`BothSpec`, and `Spec` of `LabPrograms`) assumes weak fairness of each process, thread and parent: the
scheduler runs what can run. A signal that is pending is delivered, and an armed
alarm or the timeout of `epoll_wait` goes off. Nobody has to press Ctrl-C, start, signal or kill a
program, edit a file, reboot or lose a datagram, and no call has to fail, so
these actions have no fairness. In `Calculator` only the clients need it: their calls
time out. Strong fairness is used in three places: the
backlog of a listening socket is a queue (`PcServerIterative`), `svc_run` looks at
every ready socket in each round and a mutex is eventually granted (`TicketRpc`),
and a datagram that is sent again and again gets through (`BakeryRpc`).
For `semop` weak fairness of the child's step is enough in the liveness
properties checked; freedom from starvation of a particular writer is neither
claimed nor true of the code.

## Proofs

TLC checks small instances; the theorems hold for every value of the constants that the
named assumption of the component allows. These assumptions only say that sets are finite,
that sizes are (positive) naturals, that the old contents of `3.txt` are sequences of bytes, that
`ITER` is even, and that the names used for "nobody" are
no clients (`Free \notin Clients` in `TicketRpc`). Those of `LabPrograms` say in addition what the
programs fix: messages are not empty, `main.c` of `lab_01` writes an answer that is long enough for
all its children (1024 bytes, of which each reads 3), the alphabet has an even number of
letters; and `TreeAssumption` that the directories form a finite tree, in which each node but the
root is once in its parent and `Above` is the chain of its ancestors. A proof module can extend only one of two
components that use the same names; the other one is instantiated, and since an
instance does not carry its assumption along, its theorem states it (`BakerySizes`,
`LetterSizes`).

Each theorem below follows from an inductive invariant; each of these was first checked by TLC
on the instance of the component's run. Except for `NameFreedAtEnd` none of the properties is inductive
by itself.

**Semaphores and rings** (`SemRingProofs`). `Down`, `Add` and `Zero` say what one operation of a
`semop` array does, `BlockedStays` that an array blocks as a whole. `Part(N, h, k, r)` is the
sequence of the `k` slots of ring `r` from `h` on, modulo `N`; `PartAppend`, `PartTail`, `PartStore`
and `PartPut` relate a store and a moved index to that sequence. The proofs below cite
these and never unfold `%` again.

**Producer-consumer.** `Invariance`: `IInv` holds always. Mutual exclusion is not inductive: one
must know that `BIN_SEM` is 0 exactly while somebody is between `start_...` and `stop_...`
(`NobodyIn`, `SomeoneIn`), that no child exists before the semaphores are set (`Born`), and, for
the counters, how far `BUFFER_FULL` lags behind the pointers at each point: a producer owes it
a letter after it moved `pr_ptr`, a consumer has been granted one until it moves `con_ptr`
(`Owed`). A child killed by a page fault stays a holder for ever; it does so before it moves
its pointer, which is why `Owed` does not change for it. `TypeCorrect`, `MutualExclusionHolds`,
`WithinWindowHolds`, `SlotsConservedHolds` and `AlarmIsCleanHolds` follow. `AlphabetInOrderHolds`
needs `LInv` on top: what the page holds up to `pr_ptr` is the alphabet (`Stored`), the letter in
`*letter` or in the hands of the one producer inside is the next one (`Upcoming`), and what was
printed is what the page holds (`Printed`). `IpcOutlivesChildrenHolds` rests on `IpcInv`: which objects
exist at which line of `main`, and that every reaped child is dead. `AlarmIsClean` and `WithinWindow`
are proved and not checked by a run.

**Reader-writer.** `WritersWorkAlone`, `ReadersAreUndisturbed`: `RWInv` adds to `Exclusion`, whose
counters equal the number of those who work, that a letter past `'z'` exists only between two
statements of a writer and that a writer of two rounds is on its way out. `OneTokenAlways`
(Windows): `WInv` adds that `active_readers` is 1 exactly while a reader is counted and what the
registers of the two unlocked updates hold, which is why no update is lost.
`BothKeepExclusion` states the properties for the composed specification of the run.

**Threaded buffer server.** `ThreadsImplementFifo`: every step is a put, a get or a stutter of
`BoundedFifo`. `FInv` says where `tail` is relative to `head` and `SEM_FULL` at each step of the one
thread inside, and what it has already stored or read. `SetIsRemoved` (unless a thread waits in `semop` when the
process ends, the set is gone) rests on `SetInv`, which says in which states of `main` the set exists, and
that only a `semop` that waits can be ended by a signal: the second one of a request never sleeps.
`ThreadsDoNotGridlock`: `GInv` says that `SEM_FULL` is what all clients together owe. The sum over the
clients is written as the cardinality of a set of pairs (`Owed`), so that a step adds or removes one
element and no induction is needed; if all wait to produce, the set is a subset of
`Clients \X (1 .. WARMUP)`, too small to fill the ring, and a client that waits to consume is in it.

**Letter server.** `LetterRepliesTruthful`: `LInv` ties everything on a connection to the one request
its client has made: a message not yet received, one thread at work (`LUnique`, although two
threads may wait on a connection), or the reply; a client never owns a letter of the list it
was sent; while a thread is between its test and its mark no other one is (`LCounts`), so that the
letter is still free when it is marked. Conditions on a client that is gone with the server are
weaker (`Gone`).

**Servers with `IPC_NOWAIT`.** `EpollImplementsFifo`, `RetriesServedOnce`, `IterativeImplementsFifo`: one
event is one step, so the invariants (`EInv`, `IInv`) are the state of the ring between events and,
for the retries, that a request was carried out once per reported iteration, plus the one whose
OK is on the way.

**RPC servers.** `ServedInOrder`, `TicketsAreKept`: `RInv` says that a client waits for one thing only
and that what it holds or is about to be told was drawn for it. `BakeryServedInOrder`, a
property of the step that serves: `BInv` says what the scan without the mutex knows (`BScan`): who is in a
slot already passed has a later ticket than the one read at the start, even if it registered after the scan
went by.

**Kernel modules.** `VfsUnloadsCleanly` (`VInv`: what exists at which line of `myfs_init` and `myfs_exit`, and
that the loop of `myfs_exit` has still to free every allocated object), `NoReleaseLost` and
`MemoryFreedWhenUnused` (`TInv`, `WInv`: what the line still has to do, and what the bottom half
works on), `ReadsStartAtCookies` and `StoresStayInside` (`CInv`: a 0 is in front of both indices also
after a copy that failed half way, and what each call knows of them). The last two speak, like their properties, of calls that do not
overlap and come after `md_init`.

**Small programs.** `DaemonOncePerBoot` and `DaemonOutlivesSignals` (`DInv`: who created the lock
file; a thread exists only where all signals are blocked), `NameIsFreed`, and `OwnResultsAlways`, the
safety half of `OwnResultsAndStop` (`KInv`).

**Directory walk.** `TreeIsReported`: the three walks report the tree, whatever its shape, its
unreadable directories, the order of `readdir` and the argument. `TInv` has four parts: the types,
the state before the first call (`TStart`), what the walks that are over reported (`TPast`), and what
holds during a walk (`TWalking`). The last says that the stack is a path down from the top, that
the working directory (`chdir`) or the buffer (without it) is the one of the innermost open
directory, that what is still to come at different levels is apart, and that a node has been
reported exactly if it should be and is not at or below a node still to come. The places where this is an
induction over the tree or over a path are written without an induction theorem: a set of counterexamples
has, being a finite set of nodes, one with the fewest ancestors, and its parent is none; and
where a path leads to is a recursive function of the number of its names, of which a step only
needs the value at the end.

**Parents and children.** `ParentsReadEverything` is the safety half of `StreamsEnd`: a parent that is
done has read each message by itself and left nothing (`DoneIsDrained`), and the first answer of
`main.c` is enough for all its children (`FirstAnswerServesAll`). `SInv` says of the lockstep program
which child may have written (`SLock`) and that what is left of the first answer is enough for
those who have not read (`SFirst`); of `socketpair.c` that the reads so far, one more if two messages were
read as one, and the children with bytes in the stream are together not more than the children that wrote,
so that a parent that has counted to the end has read all of them singly (`SRace`); of the pipes that not more bytes are left than the reads to
come ask for (`SPipe`). That sum over the children is the cardinality of a set of pairs
(`SLeft`), as for the threaded server.

**Readers and writers of letters.** `LettersAreKept` is the safety half of `LettersKept`
(`EveryLetterPrinted`, `SecondCloseWins`). `FInv` has a part for each program. Where two streams share a
descriptor every letter below the offset is in one place exactly: printed, in one of the buffers,
or in a variable (`FShared`). For `app2.c` two readers take turns and are never more than one letter apart
(`FTurns`); with the mutex the output is what the first thread printed, then what the second did (`FLocked`). Of
the writers: which letters each has in its buffer (`FBuffered`) or has written (`FDirect`), and that the
file behind what was written is as it was before (`FBehind`), so that at the end the letters of the one
that closed last stand in front of the old tail.

Only model-checked: the liveness properties (`EndsOrStranded`, `ProgramsEnd`, `RequestAnswered`,
`HupRereads`, `AnsweredOrAbandoned`, the `<>` halves of `StreamsEnd`, `LettersKept` and `OwnResultsAndStop`, ...),
since the provers do not do fairness or `ENABLED`. Every invariant and every action property that a passing
run checks is proved:
`RepliesTruthful` of `LetterServer` as `LetterRepliesTruthful` and `FirstComeFirstServed` of `BakeryRpc` as
`BakeryServedInOrder`, the others by the theorems listed with their property in `PROJECT.json`.

## Findings

* `multiplex/client.c:38`: the result of `recv()` is not checked. When the server stops before
  it replies the client leaves its retry loop and prints OK (`pc_server_epoll_stop`).
* `mt/server.c:140`: the signal that is to shut the server down goes to the server's parent
  (`letter_server_full`).

Behaviour the passing properties describe, and that a reader of the code should know:
a child of producer-consumer may be stranded (`EndsOrStranded`); SIGINT makes
`server_2.c` leave its semaphore set behind, and a second one, which a worker takes while `main` is in
the handler, `server_1.c` (`SetRemovedAtExit`); with six clients all threads of `server_1.c` may wait
for ever (`NoGridlock`); a connection of `mt/server.c` may be served by
nobody (`AnsweredOrOrphan`); the busy wait of `new_bakery` can hang the server, and a lost reply
costs a ticket (`EndsOrStuck`); a client of it that asks for its turn without a ticket is served at once, and so
is a ticket drawn while that request is scanned (`FirstComeFirstServed`); a killed client stops the ticket server for all
(`ServedUnlessAbandoned`); unloading `tasklet.c` while a key is released, and both failing
loads, may free what is still scheduled (`FreedWhenUnused`); calls of the fortune module that overlap break its
indices, one byte may be stored behind the page, and a write of nothing to a full page prints what lies
behind it (`CookiesInOrder`, `StoresInside`); the
daemon's lock file survives it, so that it cannot be started again before a reboot
(`OncePerBoot`), and a SIGHUP in a short window of its start ends it
(`ServiceOutlivesSignals`); `socketpair.c` may wait for a message it has already read as part
of another (`StreamsEnd`); the datagram servers may leave their socket file behind
(`NameFreedAtEnd`); a thread of the calculator may use a destroyed transport
(`OwnResultsAndStop`); `app1_threads.c` joins an uninitialised `pthread_t` when its thread
could not be created, and the writers of `3.txt` leave the tail of a longer file (`LettersKept`); the times `ftw` compares are those of other trees when its argument
is `.`, `..` or a path of several names (`TreeReported`).

Most of these appear in a property as a named exception (`glued`, `late`, `abandoned`, `mixed`, `early`,
`Spare`, ...). Such a property shows that nothing but the exception goes wrong; it does not guard
against the exception itself, and the hazard entry of `PROJECT.json` says so where that matters.

## Not modelled

* `lab_proc/main.c` and `lab_proc_2` read files of `/proc` and format them; `task_01` prints the
  kernel's task list once: input and output without state of their own.
* `task_02` is three modules that call each other's exported functions; that a module is
  loaded before its users is the kernel's doing.
* `lab_vfs/main.c` and `myfs.c` are older variants of `my_vfs.c` which the Makefile does not
  build; `lab_fs/tree.c` is a shorter walk without checks, undefined after a failing call.
* `rpc/bakery_2` does not compile, `rpc/for-review/bakery_3` replies through a pointer that is no
  transport, and the server of `rpc/bakery (2)` never makes a client wait for its turn: there is
  no protocol to check.
* The stubs and XDR routines are generated by `rpcgen`; `fork.c`, `wait.c` and `exec.c` of
  `lab_02_unix` are single calls; `lab_netstat`, `sem_05/lab_01` and `sem_05/timer` hold no code.
* In the modelled programs: clients that send malformed requests, failures of `malloc` in
  user space, `listen`/`bind` failures beyond "startup fails", paths longer than `PATH_MAX`,
  reuse of freed memory by others (a use after free is the end of the model), IPC identifiers
  of other programs.

## Plan

1. Done: the semaphore programs, the socket servers, the RPC servers, the kernel modules,
   the daemon and the small programs; the proofs above.
2. Left: liveness beyond the instances of the runs, for which a prover with fairness is needed;
   and the programs under "Not modelled", of which `lab_vfs/myfs.c` would be the first.
