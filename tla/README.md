# A TLA+ model of metalpy

metalpy compiles a statically typed Python dialect to C. Two bodies of logic in
the repository are hard to get right and hard to test. The library under `lib/`
holds a concurrent runtime written in metalpy itself: threads, a blocking queue,
a thread pool, fibers, an asynchronous reactor, a TCP accept loop, HTTP over it,
asynchronous file operations, streams with a writer thread, containers that lock
themselves. There interleavings, timeouts, shutdown and lost wakeups decide
whether programs work. And the compiler decides at compile time where every
reference is retained and released (`cfg.py`): a sequential algorithm, but one
whose input is every program, and whose mistakes are leaks and uses after a
release on paths no test takes. The modules here model both.

## Inventory

| Part | Source | State | Operations | What makes it correct |
|---|---|---|---|---|
| Blocking queue | `lib/queue.py`, `Semaphore` in `lib/threading.py` | item list under a lock, semaphore count | `put`, `drain` | FIFO exactly once, limit, no sleep on a pending item |
| Reactor worker | `lib/reactor.py` `Worker`, `lib/fiber.py`, `lib/poller.py` | pending tasks, ready and waiting fibers, fiber pool, poller registrations, wake pair, shutdown flag | `schedule`, `request_shutdown`, `wake_external`, `wait_for_signal`, `sleep`, `park`, `run_until_idle`, `drain_fully` | each fiber in one place, registrations match waiters, true wait results, never blocked on work, all work done on exit |
| Reactor | `lib/reactor.py` `Reactor` | workers, `__next_worker`, `live_tasks` | `spawn`, `run` | no worker leaves while a task can reach it; `run` returns |
| Thread pool | `lib/threading.py` `ThreadPool` | ticket counter, a queue per worker | `submit`, `shutdown` | FIFO per worker, accepted jobs run before the join |
| Accept loop | `lib/tcpserver.py` | two flags, wake pair, poller | `run`, `shutdown`, `dispatch` | a shutdown is not lost, nothing accepted after it, connections settled |
| Asynchronous files | `lib/asyncfile.py`, `CompletionHandle` | a queue per pool thread, handles | `do_read`, `do_write` | a fiber gets its own call's result and data |
| Threaded streams | `lib/sys.py` `_ThreadedStream` | queue, done flag, shut-down flag | `write`, `__del__` | order kept, flushed before a join, exit bounded in time |
| Timeouts | `lib/reactor.py` `timeout`, `sleep` | the ambient deadline of a fiber | `__enter__`, `__exit__`, `sleep` | the soonest open deadline is in force, none is left on a pooled fiber |
| HTTP connections | `lib/http/server.py`, `lib/http/client.py`, `lib/tcp.py`, `lib/io.py` | a receive buffer at each end, the socket | `handle_connection`, `request`, `getresponse`, `read`, `write`, `close` | requests handled whole and in order, no truncated response, no call that waits for ever |
| dict | `lib/builtins/__init__.py`, `__RawDict.py`, `__list.py`, `lib/bisect.py` | entry log, hash index, slot arrays, reference counts, a lock | `[]`, `[]=`, `del`, `in`, `len`, `value_at`, iteration, `with_lock`, `__del__` | an atomic map in insertion order, every reference released once |
| Ownership | `cfg.py`, `lowering_stmt.py`, `lowering_loop.py`, `lowering_epilogue.py` | bindings, epilogue stack, captured labels, cancel flags, live names | one handler per statement, merges, loop retry, the epilogue | emitted code neither leaks nor touches a released object, exits run once |

The parts interact through three mechanisms. Queues: `ThreadPool`,
`_ThreadedStream` and asyncfile's pool each run one thread per `Queue`. The wake
pair, a socket pair whose read end is in a poller: `schedule`,
`request_shutdown`, `wake_external` and `TcpServer.shutdown` write a byte to get
a thread out of a blocking poll. Atomic flags and counters: `live_tasks`,
`__shutting_down`, `__stopped`, `__done`, and the ticket. The hard behaviour is
all in the gaps between those: a flag read before a poll, a byte consumed before
the flag is read, a list looked at before a wait, a result stored before a wake.

PROJECT.json lists the hazards with their lines, and every part of the repository
with what is modelled of it.

## Modules

`BatchQueue` is the abstract specification of `queue.Queue`: `put` appends in
one step or is refused, `drain` hands the whole buffer to one caller, and an item
does not stay buffered while somebody is in `drain`. `Queue` is the code, with the
lock, the post after the lock, and the wait after the lock as separate steps.
`Semaphore.post` saturates (the code ignores the result of `sem_post` and
`ReleaseSemaphore`) and `wait` may return without a token (EINTR is ignored
too). `ThreadPool`, `AsyncFile` and `ThreadedStream` use a queue at the level of
`BatchQueue`.

`Worker` is one worker with the thread that drives it. `pc` says where
`drain_fully`/`run_until_idle` is, `tick` with which timeout (0,
`_QUIESCENCE_RECHECK_MS` or -1), `left` is the snapshot of a queue's length the
loop still has to process. The code pops from the END of its lists, and so does
the model. A fiber runs on the driving thread from `Unpark` or `Start` until it
finishes, parks or waits; what the task does meanwhile is a choice of `TaskStep`.
The lists, fiber states and registrations belong to the driving thread; other
threads touch only the pending list, the wake pair, the shutdown flag, the
counter and `__done`, and the model takes a separate step for each access to
those. The wake pair is a Boolean: one undrained byte already ends the poll and
`__drain_wake` empties it. A deadline is "none", "armed" or "passed"; the poll's
timeout is clamped to whole milliseconds, so `PollTimeout` may come before the
deadline. The poller is the POSIX one, one event per call. `live` is counted
whether or not the worker has a reactor, since only `LoadsZero` looks at it.

`Reactor` is a group of workers at the level that decides when `run` may return.
A worker's queues are the sets of tasks at each stage; `spawn` is four steps, so
the unsynchronised reads and writes of `__next_worker` interleave.

`ThreadPool` is `submit` (the ticket, and later the put), `run_forever`,
`request_shutdown` with its retry, and `shutdown`. `TcpServer` is the accept loop
and `shutdown`; its `dispatcher` is one of three kinds, and one poll reports one
descriptor (epoll) or all that are ready (WSAPoll). `AsyncFile` is an operation on
a reactor's fiber, the pool thread and the handle's fields, each store a step of
its own; the worker's side of the wait is one step here. `ThreadedStream` is the
writer thread and the bounded shutdown.

`Timeout` has no variables: the two methods of `timeout` as operators on a
fiber's ambient deadline, with the times each open scope asked for kept beside
it so that a property can speak of them. `Http` uses it: one fiber of the server
that serves a connection, the client, and the network between them. A byte stream
is a sequence of tokens: one for CRLF, one for a start line with its headers, one
for a chunk size. Reads and writes move any number of tokens up to `Window`, so
the stream is cut everywhere it can matter, inside CRLF CRLF included. A read or
write that would block waits as `lib/tcp.py` does, and the wait ends by readiness,
by the deadline or by the reactor's shutdown. The handler may sleep in scopes of
its own. Closing with unread input may reset the connection, which may lose what
was sent. The peers are the library's `Connection`, a peer that pipelines, sends
junk and leaves when it likes, and a foreign server that answers in each of the
three framings `getresponse` reads and may close early.

`OrderedMap` is what `dict` promises, every operation atomic. `Dict` is the code:
`FastLock`, `UnsafeDict`'s reference counts, `RawDict`'s two arrays with the
binary search, the scan over equal hashes and the repair of the index after a
removal, and `RawList`'s growth and shifts. Taking the lock and the work under it
are separate steps; the iterator's two questions are two lock sections.

`Ownership` is the compiler's own algorithm and the meaning of its output. A
behaviour chooses a function body statement by statement; the handler of each
statement does to `CFGState` (variable `c`) and to the instruction list what the
code does; the end of the body emits the epilogue; then the emitted code runs,
with every condition a free choice, on counted objects. `frames` are the open
compound statements with their snapshots. A loop whose states disagree is lowered
again from its recorded statements, with the borrowed names promoted. One class
of counted objects, locals and one parameter; calls and conditions have no effect
on ownership and are left out. Two abstractions: a merge visits the names in one
fixed order, and a guarded release is one instruction, not a test and a skip.
A `with` keeps the deferred `__exit__`; the hidden local that owns the context
object is an ordinary owned local and is left out.

The compiler's analysis has shapes of source it gets wrong (below), so its
properties hold of bodies that keep a discipline, stated in `Admitted`: a name is
given up (deleted, moved, released by hand) in the block that introduced it and
not after a return has jumped over its entry; a moved name is not used again; a
name owned on some paths only is left alone; no break or continue in a loop that
promotes a name; no defer and no with in a block of a function that returns an
object. `Shapes` lifts the rules one by one.

`MC*` modules fix what the small instances are for; the `.cfg` files give the
constants their values. Eight `*Proofs` modules hold the theorems: one each for
`Worker`, `Reactor`, `ThreadPool`, `TcpServer`, `AsyncFile`, `Dict` and `Http`, and
`QueueProofs` for `Queue` and a user of it, `ThreadedStream`.
Operators named `X_Something`, next to `X`, are faulty variants of `X`, kept to
show that each property notices a mistake in the code it is about.

## Runs

Passing runs, with deadlock checking off where callers may simply stop calling.

| Run | Instance | Shows |
|---|---|---|
| `queue` | 2 producers of 3 items, 2 consumers, limit 2, semaphore maximum 1 | no lost wakeup, FIFO exactly once, refinement of `BatchQueue` with its fairness |
| `worker_safety` | 2 tasks (one yields and sleeps), 1 socket, 1 pool job, 1 wait per task, shutdown | the worker's invariants and what holds when it leaves |
| `worker_liveness` | the same without yields and shutdown | bounded waits end, watched readiness is served |
| `reactor` | 2 workers, 3 tasks, one yield each | exact `live_tasks`, no stranded task, nothing moves after the first worker has left, `run` returns |
| `pool` | 2 workers, 3 jobs, limit 2, tickets modulo 2, one waiting shutdown | FIFO per worker, the join means done, progress |
| `server` | 2 clients, 3 shutdown calls, all dispatchers, wake pair of 2 bytes read by ones | shutdown, called before, during or after `run`, is never lost, the loop stops, connections settle |
| `file` | 2 fibers of 2 operations, 2 threads, one fiber abandons waits | own answer, own data, every operation returns |
| `stream` | 2 threads of 2 writes, 2 `__del__`, 2 polls | order, flush before a join, bounded exit |
| `ownership` | bodies of at most 4 statements (closing ones not counted), a local and a parameter (borrowed or copied), 2 iterations | no fault, no leak, no double release, exits run once, on every path of every admitted body |
| `dict` | 2 threads (symmetric), 3 keys of which 2 collide, 2 values, arrays that start with 1 slot, 4 insertions | refinement of `OrderedMap`, exact reference counts |
| `http` | 1 connection, 2 requests with and without a body that looks like the end of a head, 3 tokens in flight, scopes of 1 and 2 ticks, 1 tick, shutdown | requests and responses whole, deadlines nest, a client's call returns unless the server's reactor was shut down under it |

The bounds are small but contain each interesting case: two waiters on one
socket of which one expires, a fiber used twice, a token lost at the semaphore's
maximum, a full queue when the sentinel comes, a job accepted behind a sentinel,
a wake pair that is full or left non-empty, a counter that wraps, a task spawned
onto a worker that is just reading `live_tasks`.

Four statements are enough for a body in which two branches disagree, a branch
jumps out of a loop over an entry, a loop body is lowered twice, or a with ends
after a return inside it. One hash shared by two keys and a third beside them gives collisions
in front of, at and behind the search's start; four insertions make both arrays
grow twice and entries be replaced after a removal. One connection with two
requests has a leftover, a pipelined and a kept-alive case. Three tokens in flight
are fewer than a response, so both sides block, and more than the end of one, so
that a read can bring the end of one message with the beginning of the next.

One run must fail, on what a docstring says:

| Run | The source says | The code does |
|---|---|---|
| `ownership_with` | "`__exit__` always runs unconditionally on every exit path" (`lowering_stmt.py:1919`) | in `with Ctx(): f = Foo(); if c: return`, the return jumps to the label of `f`'s entry, and the end of the with cancels the `__exit__` entry below it, because only that entry's own label is asked for (`cfg.py:2782`): the return never calls `__exit__` |

### Known deviations

Disagreements met while modelling and not kept as runs. In the runtime:

- `request_shutdown` "naturally converges ... and returns"
  (`lib/reactor.py:1112`). If the flag and the byte come between the look at the
  flag (`lib/reactor.py:1088`) and the poll of a tick with timeout 0, the poll
  eats the byte; the next tick has timeout -1, makes the waiters ready and then
  blocks with them.
- `spawn` is "safe to call before or after run() starts the worker threads"
  (`lib/reactor.py:1184`). A thread outside that spawns once the workers have
  seen `live_tasks` = 0 leaves its task on a thread that has ended.
- `shutdown( wait = True )` before `run` should "just return immediately"
  (`lib/tcpserver.py:213`). It waits for a flag only `run` stores (`:226`), for ever
  if nobody calls `run`. The model has the case; `ShutdownReturns` promises a return
  of waiting calls only where `run` has been called.
- A job whose wait was abandoned completes "harmlessly" (`lib/reactor.py:841`).
  Its system call still fills the buffer the fiber has got back
  (`lib/asyncfile.py:174`).
- `sleep` in a shorter enclosing timeout returns `Ok` early, at the enclosing
  deadline (`lib/reactor.py:462`): the two deadlines are not told apart.
- A server that gives up an idle connection, on its deadline or in a shutdown,
  sends a 400 that nobody asked for. If its beginning arrives in one read with the
  end of the previous response, it goes with that call's buffer: the next
  `getresponse` begins with an empty one (`lib/http/client.py:739`), reads the rest
  of the 400 and reports a malformed response, perhaps before the server has closed.
  `ResultsJustified` therefore lets a call fail while the server is closing.
- `decode_chunked` does not read the CRLF after the last chunk
  (`lib/http/client.py:288`). `getresponse` starts each response with an empty
  buffer, so on a kept connection those bytes can come before the next status
  line. Foreign servers in `Http` close after a chunked answer.
- `dict`'s key iterator checks and reads in two lock sections
  (`lib/builtins/__init__.py:3065`): a removal by another thread in between makes
  its `unwrap` panic.
- `run_until_idle` promises not to redrive a fiber that parks again in the same
  call (`lib/reactor.py:1038`). Since the loop pops the last entry of the list
  the fiber is appended to, with two ready fibers the first is driven twice and
  the other not at all; if it parks for ever, the other one starves, and
  `BoundedWaitsEnd` fails. `worker_liveness` therefore has no yielding task.
- A task started in the tick with timeout -1 that calls `park` is in the ready
  list when the poll blocks, and nothing wakes it (`lib/reactor.py:1156`).
- A second waiter on a registered socket for the other kind of readiness is not
  registered (`lib/reactor.py:744`); `ReadinessServed` speaks only of readiness
  that is watched, so no run notices it.
- A second `ThreadPool.shutdown` can find the queue of a worker that has left
  full and retry for ever (`lib/threading.py:530`). The `pool` run has one.
- A worker unwraps the result of its poll (`lib/reactor.py:987`), so an EINTR of
  `epoll_wait` panics.
- `ThreadPool.shutdown( wait = True )` from a job, and `TcpServer.shutdown( wait =
  True )` from an inline handler, wait for the thread they run on
  (`lib/threading.py:640`, `lib/tcpserver.py:57`). A destructor that uses the dict
  it is removed from waits for a lock it holds (`lib/builtins/__init__.py:3106`).
- Any error of `accept` ends the HTTP accept task silently
  (`lib/http/server.py:496`).
- Any failing poll, EINTR included, ends `TcpServer.run` (`lib/tcpserver.py:200`),
  although its docstring names only `shutdown` and accept errors.

In the compiler, each found by lifting one rule of `Admitted`:

- `f = Foo(); if c: eat( move( f )); f = Foo()` releases twice on the branch
  (`outer`).
- A name that was moved can be read again in the same block (`moved`).
- In a function that returns a value, a defer or with inside a block has a flag
  the shared epilogue may test uninitialised (`defer`).
- A borrowed parameter assigned in one branch and then returned, deleted or
  assigned again is released once too often (`partial`).
- `a = Foo(); b = Foo(); if c: return; del a` leaks `a` on the early return, and a
  captured name that is moved and assigned again leaks (`early`, `moved`); the
  failing run above is the same cause with a with in place of the `del`.
- `while c: if c: continue; p = Foo()` with a borrowed `p` releases twice, and so
  does a `del` or move of an outer name before a break (`promoted`, `outer`).

## Fairness

Weak fairness only, and only of threads that the operating system runs: a thread
in the middle of a call goes on, a pool thread and a driving thread keep going,
tasks, jobs, handlers and system calls end, and time reaches deadlines. Nobody
has to call `put`, `spawn`, `submit`, `run` or `shutdown`; no client has to
connect; no socket has to become ready (in `Reactor` every signal does fire, as a
wait with a deadline would); no call has to fail or be interrupted. In
`ThreadedStream` only the exiting thread is fair: the writer may be stuck.
In `Http` the client's thread and the clock go on, and a foreign server answers or
closes; no client has to send, and a pipelining peer does not even have to read.
The serving fiber goes on until its reactor is asked to shut down. From then on
nothing is assumed of it: its worker may have swallowed the byte of the shutdown in
a tick with timeout 0 and then block with the fiber ready (`lib/reactor.py:1088`,
`:1156`). `ClientReturns` therefore allows a call to wait for a library server that
is shutting down, and for nothing else.
Weak fairness is enough for `put` of a sentinel on a bounded queue because only
finitely many jobs can fill it again.

## Proofs

For any number of threads, any limit and any maximum of the semaphore,
`QueueProofs` shows `TypeOK`, `NoLostWakeup`, `FifoExactlyOnce`,
`DepthRespected` and the refinement of `BatchQueue`'s safety part. `TypeOK` is
inductive; `NoLostWakeup` is inductive relative to it: the only steps that take
away a token or a looking consumer put a looking consumer there or find the list
empty, and a post that is lost at the maximum leaves the maximum, which is above
zero (`SemMax # 0`). `FifoExactlyOnce` needs that concatenation is associative.

For any finite set of tasks and any number of workers, `ReactorProofs` shows
`TypeOK`, that `live_tasks` is exactly the cardinality of the set of live tasks,
and, if threads outside spawn only before `run`, that no task is left with a
worker that has gone and that no task is spawned, runs or moves once the first
worker has gone (`QuietAfterExit`). `NoTaskStranded` is not inductive: a worker
that leaves must know that nobody is about to hand it a task that is not counted
yet. `Quiescence` adds that: a thread inside `spawn` is the caller of `run` with
no worker started, or a worker whose own running task is counted; so `live_tasks`
= 0 means that no task is anywhere, and none can appear later, which is
`QuietAfterExit`. Without the assumption `~SpawnAnytime` it is false (see the
deviations).

For any clients, callers, dispatchers and any capacity of the wake pair,
`TcpServerProofs` shows `TypeOK`, `NoLostShutdown` and the action property
`NoAcceptAfterShutdown`. `NoLostShutdown` is inductive relative to `TypeOK`: `run`
enters the poll having seen the flag down, drains the pair only outside the poll,
and a byte that does not fit leaves a full pair. `NoAcceptAfterShutdown` needs
that `__stopped` means `run` has returned, which in turn needs that the end of an
inline handler (`HandlerOnRunThread`) cannot put a `run` that has returned back
into its loop.

For any size of the pool, any limit and any number of submitting and closing
threads, `ThreadPoolProofs` shows the types, `FifoPerWorker` and `JoinMeansDone`.
The last is an argument about positions in the log of a queue. `PoolInv` says that
a job accepted before the first `shutdown` stands in front of every sentinel of its
queue (`AheadOfSentinels`), that a worker which has left has taken a sentinel, so
everything in front of it too, and that a job taken and not running has ended
(`TakenDone`).

For any fibers, threads and operations, `AsyncFileProofs` shows `OwnAnswer` and
`DataIsThere`. Neither is inductive. `Stages` is: an operation is on one queue or
with one thread, once, and its handle is as far as that thread says. From it an
answer can only be stored by the operation's own call. `DataIsThere` also needs
that a fiber whose waits are never cut short has seen every earlier call answered
(`InTurn`), so none of them can still fill its buffer.

For any threads, writes and polls, `QueueProofs` shows `OutputInOrder`:
`StreamInv` adds where the part of the log that is not yet written is.

For any finite set of tasks and any sockets and pool jobs, `WorkerProofs` shows
`FiberInOnePlace`, `RegisteredIffWaited`, `ResultJustified`, `NoStrandedWork` and
the action property `ExitsDrained`. They come from one inductive invariant,
`WorkerInv`, because each needs the others: a fiber popped from a list is there
because the snapshots are not longer than the lists; the list it comes from tells
its state; a fiber can be created for a task because every fiber in use carries a
task of its own. For `NoStrandedWork`, which speaks of the blocking poll, the
invariant follows the tick back to the sweep that chose the infinite timeout
(`Swept`): a job that completes later has its byte, or is about to write it.
`SignalAssumption` says that the kinds of a signal are told apart, as the variants
of the code's `Signal` type are.

For any keys, values, hash function and first capacity, and any finite set of
threads, `DictProofs` shows `RefsExact` and `ImplementsOrderedMap`, the whole
refinement. Both rest on `Structured`: the index is sorted by hash and points at
every entry exactly once, with that entry's hash, and no key is stored twice. The
binary search returns the first place that is not below the hash in every sorted
array; hence the scan from there finds a key if and only if an entry holds it, an
insertion never stores a key a second time, and shifting the index after a removal
keeps it pointing at the same entries. `RefsExact` compares counts with
cardinalities of sets of places, so each operation needs how those sets change.
The threads are finitely many so that the references callers hold can be counted.

For any number of connections and requests, any window of the network, any
deadlines and any clock, `HttpProofs` shows `HandledAsSent`, `ResultsJustified` and
`DeadlinesNest`. None is inductive; `HttpInv` is, with these parts:

- `Scopes`: every open scope saved the soonest deadline of the scopes around it, and
  the stage of the serving fiber tells how many are open. `DeadlinesNest` follows.
- `Numbered`, `Served`, `Refused`: how many requests are taken and answered at each
  stage, that a 400 is the last answer, and why there may be one.
- `Up`: the server's buffer, what is in flight and what the client has still to send
  are together the requests not yet taken, cut where one ends and the next begins
  (`Framing`). `_read_one_request` on any beginning of such a stream either asks for
  more or finds the first request and leaves the stream of the others
  (`ReadsStream`), also when the body holds what looks like the end of a head.
- `Down`: the same towards `Connection`. The stream is the response the call waits
  for, perhaps with an unasked 400 behind it (`InSync`), and `getresponse` returns
  that response or asks for more (`GetsReply`, one argument for each framing); or the
  beginning of that 400 is gone with an earlier buffer and what can still come is at
  most two empty lines, from a server that is closing (`Lost`), which no parser takes
  for a response.

Attempting this proof showed that two tokens in flight hid the case `Lost`; the
run has three since. In the model a body is empty or two empty lines, so the chunked
framing has two bodies and the proof of `decode_chunked` follows them token by token.

The binary search, the sweep of `__waiting` and the release of a dict's entries are
loops, in the model recursive functions. What they compute for every input is
proved by taking the least window or position at which a claim fails, with the
library's theorem that a well-founded relation has minimal elements.

Only model-checked:

- all liveness, and the fairness part of the refinement of `BatchQueue`: temporal
  logic under fairness is out of the prover's reach;
- `Ownership` (`CleanRun`, `Balanced`, `ExitsOnce`): what it says of a body of any
  length needs an induction over the body's nested statements and over the runs of
  the code emitted for it, and `Admitted` restricts the body as a whole.

## Not modelled

- Compiler: the front end (`discovery.py`, `type_resolver.py`, overload
  resolution, monomorphization) and the C emitter are syntax-directed
  translations. They keep no state that steps of different actors could reach in
  an unforeseen order; what they must preserve is the meaning of a whole
  language, and a model of that is as large as the compiler. They are most of the
  repository's lines, so the share of lines the models cover stays small.
- Ownership: unions and narrowing, unchecked results, inline splices,
  construction of `self`, temporaries, generators, try and match. Each adds
  state to every snapshot; they are left for a model of their own.
- Library: connecting, TLS and the socket bindings; HTTP sessions, redirects,
  cookies and URLs; MySQL (one request, one answer, on one stream: the framing
  hazards are HTTP's); signals and subprocesses; list, set and RWLock; the pure
  algorithms (compression, codecs, dates, cryptography), which are sequential and
  tested against known values; bindings and GUIs.
- Of modelled parts: the stacks and the switch in `lib/fiber.py`; opening, seeking
  and the direct call of `lib/asyncfile.py` where there is no worker. A block under
  a lock is one step. Panics end a program and have no successor state. Destructors
  are user code: counts are kept, nothing is run at zero.

## Plan

1. Done: queue, worker, reactor, pool, server, files, streams; the first proofs.
2. Done: timeouts, HTTP over TCP, dict with its abstract map, ownership analysis.
3. Done: the safety properties of `ThreadPool`, `AsyncFile`, `ThreadedStream`,
   `Worker` and `Dict` as theorems, and `Dict`'s refinement of `OrderedMap`.
4. Done: `Http`'s safety properties as theorems; with them every invariant of the
   runs is proved except `Ownership`'s.
5. Later: `Ownership` by an induction over bodies; the reference-counting helpers the
   emitter puts into every program, the MySQL packet sequence, RWLock.
