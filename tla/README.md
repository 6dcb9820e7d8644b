# 3d_server in TLA+

A verification project for `3d_server`, the program the Makefile of this
repository builds: a master thread that accepts TCP connections, a pool of
libevent worker threads that serve them, and four commands on a MySQL table of
users. The specifications are translated from the code; where the code and its
own comments disagree, the disagreement is stated as a property and shown by a
counterexample.

## 1. The system

| part | state it keeps | operations | interacts with |
|---|---|---|---|
| start-up (`master_thread.cc`, `worker_threads.cc`) | `vec_libevent_thread_`, `init_count_`, `init_lock_`, `init_cond_` | `InitMasterThread`, `InitThreads`, `CreateWorker`, `RegisterThreadInitialized`, `WaitForThreadRegistration` | main thread and workers meet on one mutex and one condition variable |
| hand-over (`AccepCb`, `DispatchSfdToWorker`, `ReadPipeCb`) | `last_thread_`; per worker a queue (`CThreadSafeList`) and a pipe | accept, round robin, push, notify, read, pop | master writes, one worker reads; the queue and the pipe are two separate channels |
| connections (`InitNewConn`, `start_routine`, `ClientTcpErrorCb`, `CloseConn`) | `CONN` objects, `vec_freeconn_`, `freecurr_`, `freetotal_`, `mutex_` | allocate or recycle, register, read, reply, time out, close | the free list is shared by all workers; `mutex_` guards it and every database command |
| account commands (`start_routine`, `PrinterToMySQL`) | tables `user_info`, `device_info`; one `MYSQL` handle | INSERT, SELECT (login), UPDATE, DELETE | workers share the handle under `mutex_`; the MySQL server is external |
| configuration and signals (`RRMode.cpp`, `CInitConfig`, `ConfigFile`) | key map, `CGlobalSettings`, working directory | load, `SIGUSR1` reload, `SIGTERM` | the settings are read by the pool while it runs |
| line protocol (`start_routine`, `utils.h`) | none between reads | xor, split at CRLF, strip five characters, split at three spaces | produces the commands |
| `ssl.cpp` | `ssl_client`: two memory BIOs, `write_buf`, `encrypt_buf` | handshake, read, encrypt, write | linked in; the server's calls of it are commented out |
| `server.cpp`, `main.cpp`, `server/server.cpp`, clients | programs of their own | - | - |

What is hard here: threads that meet through a condition variable without a
predicate; a hand-over in two steps; objects and descriptor numbers recycled
across threads; one mutex over both the database and the free list, held during
a write that retries for ever; a two-statement INSERT over a server that fails
and delays; a signal handler that rewrites settings the pool was built from; a
parser that reads one line ahead; lines that TCP cuts anywhere while nothing of a
read is kept for the next; ciphertext that waits in one of three places.

What makes each part correct: start-up ends, and only when all workers are
there; a byte never finds an empty queue and no connection is left without a
byte; a CONN and a descriptor have one owner; a connection is served in order by
one worker; names are unique and commands atomic; the settings are the numbers the
files give, and a reload leaves the round robin inside the pool; a line that arrives
whole is handled as sent; no ciphertext is left in a BIO, lost or reordered. Not all of
this is so in the code: sections 3 and 4 say where it is, and section 5 where it is not.

## 2. Modules

| module | models | proofs |
|---|---|---|
| `WorkerStartup` | start-up | `WorkerStartup_proofs` |
| `Handoff` | abstract: what the server promises about connections | `Handoff_proofs` |
| `ConnLifecycle` (TLC: `MCConnLifecycle`) | hand-over, connections, free list; implements `Handoff` | `ConnLifecycle_proofs` |
| `AccountTable` | abstract: atomic operations on one account per name | |
| `Accounts` | the four commands; implements `AccountTable` | `Accounts_proofs` |
| `ConfigFile` | the parser and `read`, as operators, with a reference definition | `Reload_proofs` |
| `Reload` (TLC: `MCReload`) | configuration, signals, and the pool's use of `thread_num_`; extends `ConfigFile` | `Reload_proofs` |
| `LineProtocol` (TLC: `MCLineProtocol`) | how `start_routine` cuts reads into commands | `LineProtocol_proofs` |
| `SslClient` | `ssl.cpp` | `SslClient_proofs` |
| `Induction` | no code: induction over numbers, for the proofs about the parser and the line protocol | itself |

Definitions that a comment calls a *variant* are not part of a specification: each
is a small operator (a test, a bound, the value a step leaves behind) with a
plausible slip, and shows that the property it is meant for would notice.

### WorkerStartup

`main` is the main thread's place in `InitMasterThread`; `worker[w]` that of
worker `w` in `WorkerLibevent`. Taking `init_lock_`, counting with the
conditional signal, and releasing it are separate steps, as are parking in
`pthread_cond_wait`, waking up and taking the mutex back. A signal to nobody is
lost. `exit()` from the main thread stops every worker. `pthread_cond_wait` may
return by itself, which POSIX allows, and a running master may leave its event loop
(`RunEnds`); neither has fairness. The history variable `wakeup` remembers
what ended the wait.

### ConnLifecycle

The master is between `accept` and the dispatch (`accepted`) or between the push
and the byte (`notify`); a worker is in its loop or at one of the points of a
callback where another thread can see a difference: after reading the byte,
before each use of `mutex_`, between the fields of the CONN and the free list.
What runs on one thread between two such points is one step.

* A pipe is a number of bytes, at most `PipeCap`; the master's `write` blocks on
  a full one. A queue is a sequence of descriptors. Descriptor 0 (which
  `ReadPipeCb` would ignore) belongs to `/dev/null` since `daemon(0,0)`.
* `new CONN` returns an address that is not in use, with any value in
  `isVerify`. `NewConnFails` is a failing allocation, `RegisterFails` and
  `UndoRegister` a failing `bufferevent_socket_new`; both end in the NULL
  dereference after `close(sfd)`. `UndoRegister` is one step for the unlock of the free
  list, the close and the dereference: no other thread can use what happens between
  them before the process dies. A dead process (`crashed`) takes no step.
* A read (`ReadChunk`) has at least `TOKEN_LENGTH` bytes, may carry the right
  token or not, and holds up to `MaxLines` complete lines, each of which is a
  command or not. A shorter read does nothing: it cannot hold the three spaces
  and the CRLF the code asks for.
* Commands take `mutex_`, and INSERT, SELECT and UPDATE keep it during
  `WriteSfd`. A client is `ok`, `stalled` (neither sends nor reads) or `reset`.
  A reply to a stalled client may find the send buffer full and then spins until
  the client reads again; a reply to a reset one may kill the process (SIGPIPE).
* Close, end of file, error and heartbeat share one handler, as in the code.

### Accounts

`user_info` is the sequence of rows in insertion order. A command is a record of
its fields; `device` is `""` for the three-field form. Statements are separate
steps under `mutex_`; the reply is a step of its own before the lock is released,
and DELETE has none. Its statement selects by a `device_id` that is always empty
and not among the columns of the table (`printertomysql.h:112`), so it removes
nothing: this rests on the schema, which is outside the repository, and the abstract
`AccountTable` has no DELETE either. `QueryFailures` lets any statement fail, with the empty result
`SelectData` then returns, and lets `ConnMySQL` fail at start-up, which `main` only
logs: without `connected` every statement fails; `DelayedInserts` queues
acknowledged rows in the server. The history variable `suspect` collects the names
one of whose statements failed or was delayed. `NamesUnique` and the refinement
exempt these and no others: for them the code really does insert twice (a failed
SELECT looks like a free name, a delayed row is not seen by the next SELECT) and
answers a login with "no such user".

### ConfigFile and Reload

A line of the file is its key, if it has a `=`, the text after comments are cut,
and whether it is blank; a file is its lines and whether the last ends in a newline.
`Parse` is `operator>>` as a fold over the lines: a key begins a value, a blank line
ends it, other lines continue it, and a last line without newline is appended twice,
because `getline` at the end of the stream leaves its string alone. `string_as_T`
gives a set: an empty value leaves the integer uninitialized. `Written` says without
a loop what the comments in `operator>>` promise.

In `Reload` the file may be any member of `Files` each time it is read. A load
overwrites the keys present and keeps the others; the history variable `written`
collects what the files said. `at_root` is whether the working directory is `/`,
where `daemon` goes; the file is found when it is looked for in the directory the
server was started in. The loops of start-up and the round robin read `thread_num_`
at every step, so that `SIGUSR1` may come between any two of them and may change
`worker.thread.num`. `thread_num_` is unsigned (`UintRange` stands for 2^32), so that a
negative number becomes a huge one. The history variable `spoiled` is set by the two
kinds of load after which the code has no promise to keep: one that asks for no workers,
and one that raises the number when the vector of workers is already full length.

### LineProtocol

One connection of a client that knows the token. `text` is all it will send; each
step lets some characters arrive and runs `start_routine`, which takes at most
`BufSize` of what is there, checks the token if it has not done so, and handles the
pieces before each CRLF. A piece loses its first `TOKEN_LENGTH` characters and is
split at the separators; six or three fields are a command. Nothing is kept for the
next read, except what `BUFSIZE` left in the bufferevent. The xor is its own inverse
and is left out on both sides. The properties speak of a line that a read brings whole
(`Inside`), and two things about the read around it matter. If it begins with the LF of
a CRLF that was cut in two, the first five characters of the first piece are the LF and
four characters of the token, and the last character of the token stays in the line's
first field (`CrlfCut`, `Shifted`). And if it contains no separator at all, nothing in
it is answered: `FindSPACE` is asked about the read, not about the line.

### SslClient

`pc` is where the one thread is; at `idle` the caller has control and may call any
operation in any order. A record has two bytes, so that reads and writes can split
it. The handshake is `Flights` flights of the peer, each answered by one of
OpenSSL's; more of them later are a renegotiation, which OpenSSL runs inside
`SSL_read`. `made`, `plain` and `typed` record what OpenSSL produced, what it was
given and what was read from stdin; `shown` what `io_on_read` was given. `bufout` is
the buffer that a read hands down to `io_on_read`, empty at first: each call copies to
its start and overwrites `lenout`, so that after a read that brought several records
only the last of them is there. A call that fails, a record that is rejected
(with an alert left in `wbio`) and `ssl_init` that exits end the connection.

## 3. Runs

| run | shows |
|---|---|
| `startup` | a signal ends the wait of `InitThreads` only when all four workers are registered; a main thread that waits in time is released; every worker of a running server reaches its loop, after a spurious wakeup too |
| `startup_lost` (violation) | the last worker's signal comes before the wait: the server hangs |
| `conn` | with everything that may fail failing, and clients that send commands, stop, resume or reset: queues, free list, CONNs, descriptors and the mutex stay consistent; `ConnLifecycle` implements `Handoff` |
| `conn_live` | while the other worker runs commands under `mutex_` and the master waits on full pipes, every connection handed over is served and none is stranded |
| `conn_token` (violation) | a new connection may start with `isVerify` true |
| `conn_heartbeat` (violation) | a client that stops reading is never timed out |
| `accounts` | with failures and delays: one user of the handle, an ok means that the server took the row; names that are not in doubt stay unique, and their commands are atomic operations of `AccountTable` |
| `reload` | the settings are the numbers of the files loaded so far, by the reference definition; reloads that do not spoil the pool, changes of `worker.thread.num` included, leave the round robin inside it |
| `reload_threads` (violation) | a reload that raises `worker.thread.num` of a serving server makes `at()` throw in the round robin |
| `reload_exit` (violation) | `SIGUSR1` exits: the file is not under `/` |
| `line` | a line that a read brings whole is handled in its place and as sent, but for the two cases above, and what becomes of it in these; one answer for each CRLF of a read with a separator, none for a fragment; a client that knows the token is refused only after a first read shorter than the token |
| `ssl` | nothing stays behind in `wbio` or `rbio` when the caller has control; ciphertext and typed plaintext keep their order; every data record of the peer reaches `io_on_read` once and in order, and `bufout` holds the last of the read |

**Bounds.** Four workers in start-up are those of `conf/config.ini`. `conn`, `conn_live`
and `conn_token` have two workers and two descriptors: enough for a CONN or a
descriptor number closed by one worker to turn up at the other while a third
party (the master) is mid-dispatch, for one worker to want `mutex_` while the other has
it, and for the master to find a full pipe. `conn_heartbeat` has one descriptor: its
counterexample needs no second client, and so does not show what the stuck worker does
to others. `FreeTotal = 2` lets the free list fill and grow in `conn`
(200 in the code); `PipeCap = 1` blocks the master on a full pipe (65536 in
Linux). Three CONN addresses never run out, because at most one CONN per open
descriptor and one per recycling worker are in use and `GetConnFromFreelist` comes before
`new`. `MaxLines = 1`: a command must take, keep and give back the mutex. In `conn_live`
nothing fails and no client stalls or resets: these end the process or hold the worker,
and are in `conn` and `conn_heartbeat`. Two names, two passwords and
`MaxRows = 2` are enough for two workers to collide on a name. The `reload` run has every
file of up to three lines of four kinds (a thread number, a key without a value, a
continuation with a number, a blank line) and one-line files with another number, an
empty value, a word or a comment, with and without a
last newline, any of which may follow any other: the number of workers is 2, 3, the
default 4, or what an uninitialized int holds (`Garbage`), 7 being more than the pool
will ever have. Three lines are needed for a value to be
begun, continued and ended. `reload_threads` has the files that say 2 or 3. In `line`
three lines of four kinds, with a token of two
characters and fields of one, are cut in every way; `BufSize` 26 holds any
one line and not two long ones, so that a burst leaves a rest. In `ssl`
a handshake of two flights is followed by a renegotiation of two; a read of at most
four bytes, two records, may end inside a record or bring two of the three data records.
Descriptors and CONN addresses are
symmetric; symmetry is used in `conn`, which has no liveness, only.

**Deadlock** is checked in `conn_live`, `accounts` and the violations of connections;
it shows little in the connection runs, where a client can always connect. That no
threads wait for each other there is what `HolderWaitsForNoLock` and, under fairness,
`AcceptedIsServed` say. In the other runs deadlock is not checked, because the process
may exit or die, or a client has said all it will say.

**Fairness.** `startup`, `startup_lost`: every runnable thread is scheduled; each
takes the mutex at most twice, so weak fairness suffices. A spurious wakeup may
happen and need not.
`conn_live`, `conn_heartbeat`: the master and a running callback go on (weak
fairness); a thread waiting for a mutex that is released again and again gets it,
and libevent, which handles all active events before it polls again, does not
pass over a readable pipe or an expired timer for ever (strong fairness). Nothing
is assumed of clients or failures. Even so `SilentClientIsReaped` fails: the
worker spins inside the callback, and its loop is never reached.
`ssl` assumes no fairness and says nothing of liveness: no caller in the repository
serves the client's buffers.

## 4. Theorems

Proved with TLAPS for every value of the constants allowed by the modules' named
assumptions:

* `WorkerStartup_proofs`: `TypeCorrect`; `RunningMeansRegistered`, from
  `StartupInv`: who holds `init_lock_`, that `init_count_` is the number of
  registered workers, and that only a complete count signals the main thread.
  After a spurious wakeup the statement says nothing: the wait has no condition to
  test again.
* `ConnLifecycle_proofs`: `TypeCorrect` and `FreelistBounded`, from `PoolInv`. The
  types are not inductive alone: a slot of the free list is handed out as a
  pointer, so the slots below `freecurr_` must hold CONNs and `freecurr_` must not
  pass `freetotal_`. `BytesFindConns` adds `EveryByteFindsItsConn`, which counts
  the byte being read and the byte being written and is inductive over `PoolInv`.
  `OneOwner` is `ConnHasOneOwner` from `OwnerInv`: every step of a worker moves a
  CONN between the free list, that worker's hands and the registered connections,
  and the address `new` returns was nobody's. `NoConnIsLost` (`NoConnLeaked`) is the
  other half, inductive over `OwnerInv`. `HolderIsPastLocks`
  (`HolderWaitsForNoLock`) says that who holds `mutex_` is past every lock: a callback
  takes it at places it has left when it holds it. `NobodyStranded` (`NoConnStranded`) counts
  bytes against queue entries from the other side, for the servers whose pipe writes do
  not fail (`NotifyMayFail` false), and needs `EveryByteFindsItsConn`.
* `Handoff_proofs`: `OneHolderPerSfd` (`SfdHasOneHolder`) and `HandoffRefinement`, the
  refinement of `Handoff`, both from `HolderInv`. It says where each descriptor is:
  nowhere when it is closed, else with the master, in one place of one queue, in one
  worker's hands or in one registered CONN, with all the other places free of it; and
  that the locals of a thread hold a descriptor only while the thread uses them. Each
  step leaves a descriptor where it is or moves it along this path. The abstract inbox of
  a worker is the descriptor it has popped, if any, followed by its queue: the push is
  the abstract hand-over, the pop a stutter, the registration serves the connection, a
  failing set-up refuses it, and the close in the handler is the abstract close.
* `Accounts_proofs`, all for a server that may fail and delay: `TypeCorrect` and
  `HandleExclusive`; `NamesStayUnique`, `RegistrationsKept` and
  `CommandsAreAtomic`, from the fact that the name a worker is about to insert is
  in doubt or still free, because that worker holds `mutex_`. `CommandsAreAtomic` is
  the refinement of `AccountTable`: the linearization point of each command is the
  step that fixes its reply, and a failure gives up the promise about its own name
  only.
* `Reload_proofs`, for any set of files and reloads at any moment, without a hypothesis
  on what the files say. `PoolCoversRoundRobin` (`DispatchHasThread`) and
  `PoolArithmeticIsSafe` (`AbortsOnlyIfSpoiled`) concern the number of workers that a
  reload changes under the pool: the invariant follows it through both loops of
  `InitThreads`, whose bounds it may move, and says that unless the pool is spoiled the
  vector is at least as long as `thread_num_` asks from then on, and that every worker
  below it is started when the loops end. `ReloadTypes` (`TypeOK`) holds spoiled or not.
  `ParseAgreesWithWritten`: for a file of any length, the loop of
  `operator>>` and the reference definition agree on every key. By induction on the
  lines: after each, the value under construction is what the open block of lines says
  (`OpenBlock`) and the map what the closed ones say (`ClosedBlocks`). They agree on
  whether the key is there and on the number its value begins with, which is all `read`
  uses and which a last line read twice does not change.
  `SettingsAreTheNumbers` (`SettingsComeFromFile`) follows from it: the map and the
  history `written` agree after any loads, and each setting whose value is a number is
  that number. The reference has no `read` in it, and an empty value, for which the code
  has no number, is left out by name (`Settled`).
* `LineProtocol_proofs`: `HonestClientNotRefused`, for any texts that begin with the
  token (`TextsBeginWithToken`, which `MCLineProtocol` checks): until the token has
  been compared, either nothing was read or the first read was too short.
  `LineTypes` (`TypeOK`), `NoExtraAnswers` (`OneAnswerPerLine`) and `WholeLines`
  (`WholeLinesHandled`) hold for any number of messages, any segments and any `BufSize`,
  when the messages are plain (`PlainMessages`, also checked by `MCLineProtocol`): no CR
  inside a line, in a field neither the separator nor the beginning of the one
  behind it, and a token that does not end with what a separator begins with. A client
  that breaks this means something else than the server reads, so
  the assumption cannot be dropped. The argument: `SplitData` returns one piece for each
  delimiter, counted from the end of the list (`SplitOnePieceEach`, for delimiters that
  do not overlap); the separators of a plain message are where the client put them, so
  that its fields are read back (`FieldsRead`, and `ShiftedFields` behind a cut CRLF);
  the CRLFs of a read are the line ends that lie in it (`ChunkCrlf`, `CrlfCount`); and
  so a whole line is the piece that many places from the end (`PieceFrom`).
  `LineInv` adds the state: `handled` is what the last read came to, and the answers so
  far are no more than the lines whose end was read.
* `SslClient_proofs`: `TypeCorrect`, `NoOutputStranded`, `NoInputStranded`,
  `CiphertextKept` and `PlaintextKept`, from `SslInv`: `wbio` is drained and `rbio`
  holds no complete record whenever the caller has control or `SSL_write` is about to
  run (`CallInv`, which is what a call in progress must restore), and each step appends to the end of one buffer what it takes
  from the front of another.

`Parse`, `Split` and `Concat` are recursive functions, and what they compute is proved
by induction. The library's induction theorems take an operator as parameter, which the
provers cannot instantiate; `Induction` states them for a set instead, from the
library's well-founded order on the natural numbers (`LeastNumber`, `UpTo`,
`DownFrom`). That such a function exists (TLA+ defines it by `CHOOSE`) is proved in the
same way, by extending a partial one step by step (`PiecesExist`, `JoinedExists`).

Both refinements and every invariant that the passing runs check are proved, but for
`RecordsInOrder`, which is about a `SelectSeq` over two buffers. Model-checked only, with
it: the liveness properties (`ParkedMainIsReleased`, `RunningLeadsToServing`,
`AcceptedIsServed`), because fairness and `ENABLED` are outside the
prover's reach, and the five violations, which are counterexamples.

## 5. Where the code and its comments disagree

Five disagreements are shown by a counterexample each: the runs marked *violation*.
The others were met while modelling; the properties state the code's behaviour
around them, and no run is spent on them.

* `config_file.h:217` promises the value of a key or the default; a key with an empty
  value yields an `int` nobody initialized (`config_file.h:168-171`).
* `echo.py:15-18` sends a line without the separator and waits for an answer, which
  comes only if another line of the same read has one (`worker_threads.cc:105`).
* A CRLF cut in two by TCP spoils the next line (`worker_threads.cc:109`); a line cut in
  two is dropped, but the tail of a six-field line may pass for a three-field command.
* A first read shorter than the token goes unchecked, and a later read is compared with
  the token instead (`worker_threads.cc:81`): the client is refused though it knows it.
* A failed SELECT looks like a free name, and so does a delayed row: the next INSERT
  stores the name twice.
* A `worker.thread.num` lowered while the main thread waits for the workers may never be
  equalled by `init_count_`; one lowered and raised between the loops of `InitThreads`
  can lead the round robin to a worker that was set up and never started.
* `print_unencrypted_data` overwrites what an earlier record of the same read has left in
  the caller's buffer (`ssl.cpp:27-31`).

## 6. What is not modelled

* *server.cpp*, an older server the Makefile does not build: its listening socket and
  accept loop are under `#if 0`, `main` connects to MySQL and stops, and its
  `start_routine` has no caller.
* *main.cpp, server/server.cpp, bufferevent_ssl.h*: echo samples that are not built,
  with one thread and all their state inside libevent's OpenSSL bufferevents; the header
  is libevent's own.
* *Signals inside library calls*: two `SIGUSR1` handlers at once on the key map, or
  `SIGTERM` while a command uses `printerToMySQL`, are undefined behaviour, and in
  the second case the process is about to exit.
* *Unused code*: `ClientTcpReadCb`, which nothing registers; `earse`, `clear`, `size` and
  `empty` of `CThreadSafeList`; `add`, `remove`, `readInto`, `operator<<` and the
  sentry of `ConfigFile`.
* Logging; the text of replies and of SQL; memory safety of the fixed buffers;
  `remote.listen.port`, which only `bind` reads; the test clients; libevent, MySQL and
  OpenSSL themselves.
