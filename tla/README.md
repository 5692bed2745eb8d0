# Taproot in TLA+

A TLA+ model of Taproot, a key-value store in C++20 that keeps its table in
memory and persists it through an append-only file (AOF) and a binary snapshot.
Paths below are relative to the repository (`src/db.cpp`, `include/taproot/log.h`, ...).

## 1. The system

| Component | State | Operations | Interacts with |
|---|---|---|---|
| `Log` (`src/log.cpp`) | `logBuffer`, the flusher's local buffer, `logfile` / `fileDescriptor`, `stopFlushThread`, the flush thread | `appendCommand`, the flush loop, `closeLog`, `compactLog`, `writeBinarySnapshot`, `compress` | owned by a `DB`; one background thread; the files `logs/<name>.aof`, `.db`, `_temp.aof` |
| `DB` (`src/db.cpp`) | the hash table `store`, `replaying`, `dirty` | load at construction, `put del get mput mdel mget clearData`, `parseCommand`, `shutdown`, `~DB` | calls its `Log`; called by `Server` without a lock |
| `Server` (`src/server.cpp`) | `db`, `running`, the acceptor, one detached thread per client | `run`, `stop` (from a signal), `handleClient`, `dispatcher` (`use`, `clear`, `quit`, commands), `~Server` | many clients share one `DB` |
| `Client`, CLI (`src/client.cpp`, `src/cli.cpp`) | a socket, the prompt | connect with 5 retries, `send` | one request, one reply that ends in `END\n` |
| `Config`, `main`, `run.sh` | host, port, keyspace | parse and validate once | start-up only |
| `tokenize` and helpers (`src/utils.cpp`) | none | split a line into tokens | used on client input and, again, on every replayed AOF line |

What is hard about it:

- **Threads.** The flusher, any number of client threads and the thread that runs
  destructors meet in `Log` and `DB`; the only lock is `logMutex`, around `logBuffer`.
- **Order.** `put` and `del` change the table and then log; `mput` and `mdel` log all
  their lines and then change the table; compaction rewrites the log from the table.
- **Shutdown runs more than once.** `quit` shuts the DB down and leaves it in use;
  `~Server` shuts it down and then destroys it, which shuts it down again.
- **Crashes** may come between any two steps, with lines in two buffers.
- **Round trip.** What is logged is parsed again by the code that parses client input.
- **Two owners.** During `use` two `DB` objects exist, possibly of one keyspace, and other
  clients' threads may be inside either.
- **The disk.** Lines are synced once a second; the compacted file and the snapshot are not,
  and no result of a write is looked at.

What makes each part correct: for `Log`, that lines reach the file in the order they
were accepted, none lost or duplicated, and that closing terminates and leaves nothing
behind; for `DB`, that log and table agree between commands, that a restart gives
back a recent value of each key, that the `dirty` counter never lets a change be lost,
and that AOF and snapshot agree after a shutdown; for `Server`, that clients which
interleave keep that agreement, that a keyspace which has been left is kept, and that no
file has two writers; for the protocol, that each reply belongs to its request; for
`tokenize`, that tokens are the groups of words it promises and that logged keys read
back; for the configuration, that a server takes what the file says; for the disk, that a
power failure costs the last second and a clean shutdown nothing; for the snapshot, that
it reads back as the table.

## 2. Modules

### CommandLog
The abstract promise of an append-only log: lines are accepted (`pending`), reach the
file in order and in batches (`written`), and may be thrown away only after the log has
been closed. Its fairness says that an open log keeps writing.

### Log
The class `Log` with its threads. One action per step that other threads can see:

| Action | Code |
|---|---|
| `AppendCheck`, `AppendPush` | `appendCommand`: the unlocked test of `is_open()`, then the push under `logMutex` |
| `FlusherCheck` ... `FlusherSync` | the loop in `startAppendFlusher`: loop test, entering `wait_for`, leaving it, swap, write, `fsync` |
| `CloseStop`, `CloseNotify`, `CloseJoin`, `CloseJoined`, `CloseFlush`, `CloseSync`, `CloseFile` | `closeLog` |

`logMutex` is held during I/O only in `closeLog`'s last flush (`pc = "syncing"`).
`conditionVariableMutex` is locked by the flusher alone, so it is not a variable; what
follows from that, a notification that nobody hears, is. A second caller of `join`
gets the exception that `std::thread::join` throws (`"thrown"`). `accepted` and
`dropped` are history variables. Command lines are opaque: `MaxAppends` bounds how many
are accepted.

### Aof
Lines (`put` / `del`) and, without recursion, what a replay of a log leaves for a key:
`Recovers(log, k, v)` holds for the value of the last line about `k` that can be read
back. A line with the empty token (`""` on the command line) has too few tokens
for `parseCommand` and is ignored on replay.

### Keyspace
One `DB`, its `Log` and its files, from load to crash or shutdown and again.
Commands come from one client at a time; the flusher and crashes interleave with every
step of them.

| Action | Code |
|---|---|
| `Open`, `ReplayLine`, `EndLoad` | constructors and `loadFromLog`; `replaying` starts with an arbitrary value because no constructor sets it |
| `Put`, `Del`, `MPut`, `MDel`, `AppendCommand`, `ApplyItem` | the branches of `parseCommand`, with `put`, `del`, `mput`, `mdel` of `DB` |
| `ClearData` | `clearData` |
| `FlusherSwap`, `FlusherWrite` | the flusher, its internal steps left to `Log` |
| `BeginShutdown`, `CloseLog`, `CompactLog`, `CompactThrows`, `WriteBinarySnapshot`, `SnapshotFails` | `shutdown` called by `quit`, `~Server` (twice) or `~DB` |
| `Crash` | the process is killed; a prefix of the lines being written survives |

`dirty` is the Boolean "the counter is positive", all that `compactLog` asks of it.
Reads (`get`, `mget`, `show`, `stats`, ...) change nothing and are not actions.
Three history variables carry the properties: `unlogged` (keys whose last change
is known not to be in the pipeline: the log was closed, `replaying` was left
true, a token was empty, or the key was cleared while a line about it was in a buffer),
`recent` (the values a key was given since AOF and table last agreed about it) and
`fresh` (the snapshot was written by the last shutdown). `ClearData` is one step, since the
one client waits for it and nothing between its parts tells two cases apart; with several
clients something does, and `Server` has it in two.

### DurableMap
The abstract promise that both `Keyspace` and `Disk` keep (`IsDurableMap`): a map that clients
change while it is up, and that comes back after any stop with one of its `candidates`
for every key. A change adds a candidate; only saving (`Settle`) gives candidates up, and
never the value that the map has; `Clear` empties the map at once, though what was on its
way may come back. `Keyspace` maps `recent` to the candidates, the end of a load to
`Start`, `put`, `del` and each item of an `mput` to `Change`, the logging of an `mput` to
`Accept`, the flusher's write, `closeLog` and `compactLog` to `Settle`; in `Disk` the fsync
settles. A value with an empty token is `Fragile`: compaction may drop it. All other
steps are invisible.

### Session
The server process and its clients, from the accept loop to the command-line loop,
without what commands do to the DB.

| Action | Code |
|---|---|
| `StartServer`, `Accept`, `Signal`, `Exit` | `main`, `Server::run`, `stop` and `~Server` |
| `HandleRead`, `HandleEof`, `DispatchCommand`, `DispatchQuit`, `QuitThrows`, `DispatchBlank` | one client thread: `handleClient` and `dispatcher` |
| `Connect`, `Send`, `ReadReply`, `SendFails`, `Interrupt` | `Client` and the loop of `cli()` |

The streams between a client and its thread may be cut anywhere between items: a request
is one item, and in a reply the bytes `END\n` are one, for `read_until` and `find`
recognise them however the stream is cut. What `handleClient` has read behind the first
line is thrown away with its `streambuf`; here that is whole lines. Items carry the number of
their request, and `answers` and `result` are history variables. A signal is taken to
be delivered to the main thread. `DispatchBlank` ends the process: the first element
of an empty `std::vector` is read through a null pointer.

### Server
Several clients on the DBs behind one dispatcher: an object per DB with its Log, the
server's pointer `db`, and for every thread the call it is in. Lines come from `Aof`.

| Action | Code |
|---|---|
| `Start`, `Exit` | `main`, the constructors, `~Server` |
| `Single`, `Multi`, `Step` | `parseCommand`: the call keeps the pointer it read; applying and appending are separate steps, one per item |
| `Clear`, `ClearFiles` | `clearData`: the table, then the files; other clients and the flusher go on in between |
| `Flush` | one round of the flusher |
| `Use`, `Construct`, `UseFails`, `Swap` | `dispatcher`'s `use`: shutdown, `make_unique`, the assignment, which moves the pointer and then destroys the old DB |
| `Quit` | `quit`, `exit` |
| `CloseLog`, `CompactLog`, `ShutdownThrows`, `WriteSnapshot` | `shutdown()`, by `use`, `quit`, `~Server` or `~DB`; `rename` and `compress` may throw out of it |
| `Crash` | the process is killed, or ended by undefined behaviour |

A DB object knows the path that its open file still has: `rename` over a path takes it away
from whoever had the file open (`Relinked`). `borrowed` marks a Log whose
`keyspaceName` refers to a token of a finished `use`; its temporary file may then have any
name (`TempNames`). `Temp` says which keyspace has the path of which temporary file: none
in the runs; `MCServer_temp.cfg` has an `x_temp`. The `.db` files, which no code reads, are
left to `Keyspace` (when they are written) and `Snapshot` (what is in them). `left` (for a
keyspace whose last DB was destroyed to the end, the table that this DB held) and `unsure`
are history variables. `unsure` holds the keys about which table and files may
part: those changed by calls that overlapped, or around a replacement, a clear or an
uninitialised `replaying`, until one call alone puts a key back in a DB that has its log; and
those that an AOF still recovers when `compactLog` returns early because the table is empty. A thread whose DB has been freed has no
step but the crash.

### Commands
Lines as sequences of quotes, spaces and letters; `Tokenize` (with `Words` for `iss >>`),
`IsAllSpace`, the tests of `parseCommand`'s branches (`Is`), the changes they make
(`Changes`) and the lines they log (`Logged`, `Text`). The reader of words (`Read`, `Finish`) and the loop of `tokenize`
(`Take`, `Emit`) are steps on a small state, folded over the line and over its words. The only
variable is the line that is being typed: every line up to `MaxLen` is a state of the
specification `Editing`.

### Startup
`config.cfg` as a sequence of lines, the server's and the client's `Config`, the
arguments of `run.sh --cli`, a user who adds lines and removes the file, and the bare `use`
of the command line, whose answer may be empty. Texts are classified by what `make_address`,
`isAllSpace` and `stoi` make of them. `ServerTakesLastLines` is stated without the parser: the
value of the last line for a key that has one (`LastLine`), if it is usable (`Hosts`, `Ports`),
else, and only then, the default.

### Disk
One DB again, with its AOF as pieces in the page cache, of which the first `synced` are on the
disk, and the files that the name may still have on the disk (`older`). `Start` leaves `replaying`
as it happens to be when the AOF is empty, as in `Keyspace`; `Command` is a `put` or `del`
and neither counts nor logs (`Record`) while it is true. `mput`, `mdel` and `clear` stay with `Keyspace`. `Write` and
`Sync` are the flusher's (and `closeLog`'s) write and `fsync`; `Shutdown` is the end of
`closeLog` with `compactLog`; `WriteBack`, `Kill` and `PowerFails` are the environment's. A
piece may be the beginning of a line, and two pieces on one line are read as one
(`LinesOf`). The constant `Faults` names what else the environment does: `tear` (a power
failure cuts a line), `append` and `dump` (the disk is full), `delayed` (a new name reaches
the disk before the data). That the `fsync` settles the name of the file too (`Sync`) is an
assumption about the file system: the directory is never synced.

### Snapshot
The fields of a `.db` file with their widths, the threshold, the conversion of the size to
`int`, any outcome of the compressor, the exception, a kill half way, and a reference reader
(`Decode`). The fields have the widths of the code (3 bytes of magic, 1 of flag, `SizeWidth` for
a `size_t`, which is 8 in the run); only the limits are scaled: `Wrap` stands for 2^32,
`MaxInput` for `LZ4_MAX_INPUT_SIZE`, `Threshold` for `COMPRESSION_THRESHOLD`. It extends `Queries`, whose table changes until the shutdown begins.

### Queries
The table as a sequence of pairs in the order of iteration, which a new key may change, and
what `get`, `mget`, `getItems`, `display`, `displayKeys`, `displayValues` and
`displayStats` answer. Its specification is that of `Snapshot`, which writes the table out in
the same order.

### LogProofs, AofProofs, KeyspaceProofs, DiskProofs, SessionProofs, StartupProofs, ServerProofs, DataProofs
The theorems of section 5. `DataProofs` is about the modules that compute: `Snapshot`, `Queries`
and `Commands`. `AofProofs` has the lemmas about replaying lines that the three
modules about a DB share.

## 3. Runs

| Run | Instance | Result |
|---|---|---|
| `log_threads` | 2 client threads, 2 lines, 3 appends, fairness | `TypeOK`, `LinesInOrder`, `CloseReturns`, `KeepsPromise` (refinement of `CommandLog` with its liveness) hold |
| `log_oneclient` | 1 thread, 4 appends | `ClosedMeansDurable` holds: after `closeLog` everything accepted is in the file and synced |
| `keyspace_crash` | 2 keys, one value and the empty token, 3 lines, batches of 2 | `TypeOK`, `LogMirrorsStore`, `RestartRestoresRecent`, `SnapshotAgreesWithAof`, `DirtyTellsTruth` hold |
| `keyspace_order` | 1 key and the empty key, 2 values | `LogMirrorsStore`, `IsDurableMap` (refinement of `DurableMap`, which has `RestartRestoresRecent` in it) hold when the order of overwrites counts |
| `session_replies` | 2 clients, 2 lines each, empty and one-item replies, 2 connection attempts, fairness | `TypeOK`, `ReplyAnswersRequest`, `SendReturns`, `QuitThenConnectEnds` hold |
| `session_blank` | 1 client | `OnlyToldToEnd` is violated: a blank line ends the server |
| `server_use` | 1 client, 2 keyspaces, 2 objects, 1 key and value, 2 lines | `TypeOK`, `OnlyOverlapsDisagree`, `LeftMeansKept`, `OneWriterPerAof` hold |
| `server_threads` | 2 clients, 2 keys, 1 keyspace, 2 objects, 1 line | `OnlyOverlapsDisagree`, `LeftMeansKept` hold |
| `commands_lines` | all lines of up to 9 characters | `BlanksAreRefused`, `TokensAreGroups`, `KeysReadBack`, `ReplayLogsNothing` hold |
| `startup_config` | files of up to 4 lines out of 6, 5 argument lists | `TypeOK`, `SpawnedMeansDefaults`, `ServerTakesLastLines` hold |
| `disk_power` | 2 keys, 2 values, 3 pieces, no faults but kills and power failures | `TypeOK`, `LosesOnlyLastSecond`, `CleanShutdownLosesNothing`, `IsDurableMap` hold |
| `snapshot_encoding` | 2 keys, 4 values, sizes around every limit, requests of up to 4 keys | `TypeOK`, `ReadsBackBelowWrap`, `CompressionIsWorthIt`, `NeverMistaken`, `ReadsAgree`, `ListsAlign` hold |

**Bounds.** Three appends put one line in the file, one with the flusher and one in the
buffer, and two threads are enough for every race in `closeLog` (closing while appending,
closing twice at once, closing again later). In `Keyspace`, three lines allow a
put, its overwrite and a delete, or an `mput` of two behind a buffered line, across any
number of restarts, since compaction, crash and `clear` shorten the log again. The bounds
are `MaxAppends`, `MaxLines` and `MaxBatch`. In `Session`, two lines per client are enough
for a reply that arrives late to meet the next request, and two clients for a quit by
one and a connection by the other; `MaxRequests` is a bound, and `MaxRetries` (5 in the
code) a parameter. In `Server`, two objects are what `use` needs (the old and the new DB); one value
suffices where presence is what counts. `server_threads` needs its second key: two calls that overlap put
their keys into `unsure`, and what `OnlyOverlapsDisagree` claims is about the other keys. Its one line
bounds what is in an AOF and its buffer when a command begins, not the commands that are under
way, so that both clients may be inside one; an `mput` needs two lines, and
`MCServer_multi.cfg`, too long for a run beside the others, has them beside a second client's
commands (with one object; both properties hold). Nine characters hold an operation, a key and
a value with quotation marks around each of two words. In `Startup`, four lines are the three
spawned ones and a change. In `Disk`, three pieces are a torn line, what is appended to
it, and a line behind. In `Snapshot` the sizes of the tables fall on and next to
`Threshold`, `MaxInput`, `Wrap / 2` and `Wrap`. Keys (and the non-empty values) are
only compared, which makes the symmetry sound; the runs with symmetry check no liveness.

**Fairness** (in `log_threads` and `session_replies`). In `Log`, weak fairness of the
flusher and of every client thread inside a call: the operating system schedules runnable
threads, and `wait_for` returns after its second. No client is obliged to call anything.
In `Session`, weak fairness of accepting, of a client thread that has something to read
or to dispatch, of a client that waits for a reply, and of the exit of a main thread that
has left its loop. Nobody has to start the server, connect, enter a line or send a signal.
The other modules check safety only and state no fairness.

**Deadlock** checking is on for `Log` and `Keyspace`: `Log` always has a flusher or a
caller that can move, because a finished log can still be closed again, and a keyspace can
always be opened again. It is off for `Session`, where everybody may have gone home.

Every property of a passing run has a mutant, an operator placed before the action it
mutates and marked as such, which a plausible slip in the code would amount to (`detach`
for `join`, `trunc` for `app`, a missing final flush, lines logged backwards, a change
not counted, ...) and which violates the property.

## 4. Where code and documentation disagree

`session_blank` above is one such place. The other places met while modelling have
configurations that are not among the runs: `tlc -config <cfg> <module>` finds the
named property, a statement of the documentation or of a comment, violated. (The
`_docs.cfg` have several; with `-continue` TLC reports each of them.) The passing
runs show what holds in spite of it: `LogMirrorsStore` and `DirtyTellsTruth` leave out just
the keys that an unset `replaying`, a late clear or an empty token concern,
`SnapshotAgreesWithAof` too, and `CleanShutdownLosesNothing` excepts the DB that takes itself to be
replaying; `OnlyOverlapsDisagree` and `LeftMeansKept` leave out the keys of overlapping calls, `ReadsBackBelowWrap`
and `NeverMistaken` the tables that are too large, `LosesOnlyLastSecond` the faulty disks.

- `MCLog_lateappend.cfg`, `ClosedMeansDurable` (src/log.cpp:211): closeLog looks at the
  buffer once and then closes the file; an appendCommand of another client thread that
  tested is_open() before (log.cpp:76) may push its line after that, and the line stays in
  the buffer for ever. The comment at src/log.cpp:211 says "Check if a changelog append was
  added to buffer one final time".
- `MCLog_wakeup.cfg`, `NotifyWakesFlusher` (src/log.cpp:203): The flusher calls wait_for
  without a predicate and closeLog notifies without conditionVariableMutex, so a
  notification that comes after the test of stopFlushThread and before the wait is lost and
  closeLog joins a flusher that sleeps its whole second. The comment at src/log.cpp:203 says
  "If thread in between 1s interval, wake to close immediately", and docs.md:109 speaks of
  "a consistent 3ms".
- `MCKeyspace_docs.cfg`, `CommandsAreLogged` (src/db.cpp:14): No constructor initialises
  replaying, and loadFromLog assigns it only when the AOF has a line, so on a new keyspace
  put and del may take the DB to be replaying and neither log the command nor count it: even
a clean shutdown then leaves an empty AOF.
  docs.md:52 says AOFs "append the mutable query commands (like `PUT` and `DEL`) that were
  entered during runtime".
- `MCKeyspace_docs.cfg`, `ClearIsDurable` (src/db.cpp:93): clearData truncates the AOF but
  leaves the lines in logBuffer (and those the flusher has swapped out), which are written
  to the truncated file within a second; the cleared keys come back at the next load. The
  comment at src/db.cpp:90 says "Deletes ALL data from the store, both in-memory and in
  files."
- `MCKeyspace_docs.cfg`, `SkipMeansUnchanged` (src/log.cpp:179): compactLog returns early
  when the table is empty even though dirty is positive, and keeps an AOF that still
  recovers keys the table no longer has. The comment at src/log.cpp:180 says "Skip writes if
  no changes have been made".
- `MCSession_marker.cfg`, `ReplyAnswersRequest` (src/client.cpp:50): send() ends a response
  at the first "END\n", and dispatcher puts values into responses unescaped, each followed
  by a newline: after put word SEND, the response to get word is cut to S, and when the rest
  arrives later it is taken for the response to the next command. The comment at
  src/client.cpp:37 says "Send input data to server for dispatching. Input should be a
  command. Return a map response."
- `MCServer_order.cfg`, `FlushedIsDurable` (src/server.cpp:119): Client threads call
  parseCommand without a lock, and put changes the table before it logs: two puts of one key
  may be logged in the other order than they were applied, so that after a flush and a crash
  the overwritten value is loaded. docs.md:99 says "may potentially lose data in the worst
  case scenario (up to last second) if the buffer is not flushed"; here the buffer had been
  flushed.
- `MCServer_again.cfg`, `FlushedIsDurable` (src/server.cpp:98): use of the keyspace in use
  constructs a second DB on the same files before the first is destroyed; the destructor
  shuts the first down again, and its dirty counter makes it rename a compacted file over
  the AOF that the new DB has open. Everything the new DB flushes goes to a file without a
  name. docs.md:99 says "may potentially lose data in the worst case scenario (up to last
  second) if the buffer is not flushed".
- `MCServer_refused.cfg`, `ServingMeansLogging` (src/server.cpp:97): use shuts the current
  DB down before it constructs the new one; when that throws (a name with a slash, say), the
  server answers ERR and goes on with the old DB, whose log is closed: appendCommand prints
  an error and returns. docs.md:52 says AOFs "append the mutable query commands (like `PUT`
  and `DEL`) that were entered during runtime".
- `MCServer_freed.cfg`, `CallsHaveADB` (src/server.cpp:98): The assignment to db destroys
  the old DB while threads of other clients may be inside one of its functions. The comment
  at src/server.cpp:84 says "Dispatch incoming commands from client to DB, and then return a
  response."
- `MCServer_temp.cfg`, `LeftMeansKept` (src/log.cpp:183): The temporary file of keyspace x
  is logs/x_temp.aof, which is also the AOF of a keyspace named x_temp: compacting x
  overwrites it and renames it away, and a DB of x_temp goes on appending to what is now the
  AOF of x. docs.md:56 says "each keyspace is tied to a hash table in memory, and will have
  its own separate files allocated according to the user-given name of the keyspace".
- `MCCommands_docs.cfg`, `ReplayRepeatsTheChange` (src/log.cpp:85): appendCommand writes
  tokens as they are; a token that is empty, or begins with a stray quotation mark, makes a
  line that tokenize reads back as other tokens, or too few. The comment at src/db.cpp:104
  says "Replay the commands from the AOF to fill the store with data."
- `MCCommands_docs.cfg`, `OnlyQuotesRemoved` (src/utils.cpp:40): A last word that opens a
  quotation and does not close it is cut by its first and its last character, though the
  last is no quotation mark: "abc is stored as ab. The comment at src/utils.cpp:39 says "it
  only contains one word in actuality. So, remove quotes from beginning and end."
- `MCStartup_args.cfg`, `ClientFindsServer` (src/main.cpp:8): run.sh gives its arguments to
  the server and to the client, and only the client's main takes any: with a host or a port
  on the command line it looks for the server where the server does not listen. README.md:35
  says "you can also overwrite the settings at runtime by passing in arguments from the
  command-line".
- `MCStartup_use.cfg`, `UseSwitches` (src/cli.cpp:50): The bare command use asks for a
  keyspace and stores the answer in the client's configuration, which nothing reads; nothing
  is sent to the server. The help at src/cli.cpp:28 says "use     → switch keyspace".
- `MCDisk_torn.cfg`, `LosesOnlyLastSecond` (src/log.cpp:30): A load leaves a torn last line
  of the AOF as it is, and the log is opened for appending: the next line is joined to the
  torn one and cannot be read back, even when it was synced. docs.md:99 says "may
  potentially lose data in the worst case scenario (up to last second) if the buffer is not
  flushed".
- `MCDisk_short.cfg`, `LosesOnlyLastSecond` (src/log.cpp:67): Nobody looks at the state of
  logfile: when the disk is full a line ends anywhere, for example inside its value, and
  later lines are dropped; the next load takes the shorter value for one that was stored.
  docs.md:99 says "may potentially lose data in the worst case scenario (up to last second)
  if the buffer is not flushed".
- `MCDisk_full.cfg`, `LosesOnlyLastSecond` (src/log.cpp:197): compactLog renames its
  temporary file whether or not it could be written: on a full disk a short or empty file
  replaces an AOF with commands synced long ago. docs.md:99 says "may potentially lose data
  in the worst case scenario (up to last second) if the buffer is not flushed".
- `MCDisk_renamed.cfg`, `LosesOnlyLastSecond` (src/log.cpp:195): The temporary file is
  closed and renamed without fsync; on a file system that writes the new name before the
  data, a power failure leaves an empty AOF in the place of one with synced commands.
  docs.md:99 says "may potentially lose data in the worst case scenario (up to last second)
  if the buffer is not flushed".
- `MCSnapshot_docs.cfg`, `SnapshotHoldsAll` (src/log.cpp:170): The snapshot is opened, and
  so emptied, before compress is called; for a stream above LZ4_MAX_INPUT_SIZE
  LZ4_compressBound gives 0 and compress throws (above 4 GiB the size wraps and only a part
  is compressed). docs.md:56 calls snapshots versions of the keyspace "where all the
  key-value pairs are stored".
- `MCSnapshot_docs.cfg`, `DocumentedLayout` (src/log.cpp:135): The flag is written in
  front of the magic, as a whole byte, and only for streams above COMPRESSION_THRESHOLD;
  smaller files have none. The comment at src/log.cpp:101 says "Binary format:
  [MAGIC][isCompressed bit][Keyspace size]..."
- `MCSnapshot_docs.cfg`, `MGetNamesKeys` (src/db.cpp:275): mget answers with the values
  it finds, without their keys and without a mark for a key that has none: mget a b answers
  v when either of them holds v. README.md:58 shows "alonzo: church" as the reply to mget
  alonzo alan.

## 5. Proofs

Every theorem is for all values of the constants: any number of threads, clients, keyspaces,
objects, keys and values, any number of appends, lines and restarts. Where a theorem needs
more than the `ASSUME`s of the modules, the condition is in its statement, and is named
below together with what happens without it.

| Module | Theorem | Says | Provided that |
|---|---|---|---|
| `LogProofs` | `TypeCorrect` | `[]TypeOK` | |
| | `LinesStayInOrder` | `[]LinesInOrder` | |
| | `Refinement` | `Promise!Spec` (without its fairness) | |
| | `ClosedIsDurable` | `[]ClosedMeansDurable` | one client thread |
| `KeyspaceProofs` | `TypeCorrect` | `[]TypeOK` | |
| | `MirrorHolds` | `[]LogMirrorsStore` | |
| | `RestartFindsRecent` | `[]RestartRestoresRecent` | |
| | `FilesAgree` | `[]SnapshotAgreesWithAof` | |
| | `DirtyIsTrusted` | `[]DirtyTellsTruth` | |
| | `KeyspaceIsDurableMap` | `IsDurableMap` | |
| `DiskProofs` | `TypeCorrect` | `[]TypeOK` | |
| | `ShutdownIsSafe` | `[]CleanShutdownLosesNothing` | no torn line, no full disk |
| | `PowerFailureIsBounded` | `[]LosesOnlyLastSecond` | and names do not overtake data |
| | `DiskIsDurableMap` | `IsDurableMap` | the same |
| `SessionProofs` | `TypeCorrect` | `[]TypeOK` | |
| | `RepliesAnswer` | `[]ReplyAnswersRequest` | no body holds the marker |
| `StartupProofs` | `TypeCorrect` | `[]TypeOK` | |
| | `SpawnedIsDefault` | `[]SpawnedMeansDefaults` | |
| | `ServerTakes` | `ServerTakesLastLines`, an action property | |
| `ServerProofs` | `TypeCorrect` | `[]TypeOK` | |
| | `OneWriter` | `[]OneWriterPerAof` | one client thread |
| | `OverlapsOnly` | `[]OnlyOverlapsDisagree` | paths apart, no empty token |
| | `LeavingKeeps` | `[]LeftMeansKept` | paths apart, no empty token |
| `DataProofs` | `TypeCorrect` | `[]TypeOK` | |
| | `BelowWrapReadsBack` | `[]ReadsBackBelowWrap` | |
| | `NothingIsMistaken` | `[]NeverMistaken` | |
| | `CompressionCostsASize` | `[]CompressionIsWorthIt` | |
| | `ListsBelongTogether` | `[]ListsAlign` | |
| | `ReadsTellTheSame` | `[]ReadsAgree` | |
| | `TokensAreTheGroups` | `[]TokensAreGroups` | |
| | `BlankLinesHaveNoTokens` | `[]BlanksAreRefused` | |
| | `DurableKeysAreReadBack` | `[]KeysReadBack` | |
| | `ReplayAddsNothing` | `[]ReplayLogsNothing` | |

**The conditions.** With two client threads `ClosedMeansDurable` fails
(`MCLog_lateappend.cfg`), and so does `OneWriterPerAof`: two `use` of one keyspace at the same
time construct two DBs on its files. `MCDisk_torn.cfg`, `MCDisk_short.cfg`, `MCDisk_full.cfg`
and `MCDisk_renamed.cfg` take the conditions of `DiskProofs` away one at a time, `MCSession_marker.cfg`
that of `RepliesAnswer`. "Paths apart" means that no keyspace is named like another's
temporary file (`Temp[x] = NoName`); `MCServer_temp.cfg` shows that `LeftMeansKept`
needs it. "No empty token" means that no client enters `""`; with it a logged line may be
unreadable, and TLC finds both properties violated when `Empty` is made a key.

**Assumptions on constants.** `KeyAssumption` (keys are finitely many, so that a
compacted file is a sequence), `NoValueAssumption`, the bounds are numbers, the markers of
absence (`NoName`, `NoObj`, `Main`) are apart from what they stand beside, every key and
value has a size, a `size_t` has one byte at least, and the limits of a snapshot are in their order (`SizeAssumption`), and
`TextAssumption` of `Startup`: among others, the host of `Defaults` is an address
(`config.h`), and ports are the numbers that an `unsigned short` holds. `CharAssumption` of
`Commands`: quotation marks and white space are no letters and no names of operations, and
there is a letter (one that a test value can be made of).

### Log

- `LinesStayInOrder`. `LinesInOrder` is not inductive alone: a flusher that swapped while it
  held lines, or wrote after `closeLog` had, would break it. `IInv` adds `FlusherInv`: the
  flusher holds lines only before its write; once the thread has been joined it is done; a
  `closeLog` past its join has joined; a closed log has been joined; lines are dropped
  only when closed.
- `Refinement`, from `IInv`. A swap is a stuttering step, a write by the flusher or by
  `closeLog` is `Write(n)`, a flush into a closed file is `Discard`.
- `ClosedIsDurable`. `AloneInv` adds that nothing is ever dropped, that after the final flush
  nothing more comes, that what was written before the last sync is synced, and that
  a closed log has an empty buffer.

### Keyspace

- `TypeCorrect`, with `ControlInv` (what the position in a call says of `todo`, `batch`, the
  buffers and `isOpen`): without it `Head(todo)` need not be a line.
- `MirrorHolds`. The property speaks of the moments between two commands only. `MirrorInv`
  adds what holds in between: for a running `mput` or `mdel`, the value that the rest of the
  batch will leave in the store is the value that the pipeline recovers (`UpMirror`);
  during a load, the lines replayed so far recover the store (`LoadMirror`); and the
  lines of the running command that cannot be read back, or that a closed log refuses, are
  about `unlogged` keys (`LinesInv`).
- `RestartFindsRecent`. A crash may stop the lines anywhere on their way, so `CrashInv` speaks of
  each place on it: what the AOF recovers is recent, and so is whatever any line in
  either buffer or in the running command says of its key.
- `FilesAgree`. `FreshInv`: from the moment the snapshot is fresh, the log is closed, all
  buffers are empty and the snapshot is the store, until something opens or changes it.
- `DirtyIsTrusted`. `QuietInv`: while `dirty` and `replaying` are false, the buffers say nothing
  of any key and the running command has changed nothing.
- `KeyspaceIsDurableMap`. `DurableInv` adds to the invariant of `RestartFindsRecent` that the
  table, and what a running `mput` or `mdel` has still to do to it, are `recent`; without the
  second part `ApplyItem` could give a key a value that no restart may find.
  `DurableSimulation` then maps each step to one of `DurableMap` or to a stutter.

`AofProofs` says how replay composes: `LeavesConcat` (one log after another), `LeavesSuffix` (a
later line about a key hides the earlier ones), `LeavesFront` (lines about other keys
can be taken away), `LeavesOneValue` and `LeavesSome` (a log leaves exactly one value),
`LeavesOldOrNew` (a prefix of new lines leaves the old value or one that they say).

### Disk

- `ShutdownIsSafe`. `CleanInv`: all pieces of all files are whole lines, every stored value can
  be read back, and the AOF and the buffer recover the store, unless the DB takes itself to be
replaying: then AOF and buffer are empty and it is not dirty, so that no shutdown writes
anything. A power failure may then only
  shorten a file between two lines.
- `PowerFailureIsBounded`. `RecentInv` adds that *every* prefix of the AOF from `synced` on, and
  of each older file that the name may still have, recovers values that are `recent`
  (`LeavesOnly`); while a sync is on its way, that the whole file leaves only values of
  `since`, which is what `recent` will be when it returns.
- `DiskIsDurableMap`. `DurableInv` adds that `since` is part of `recent`, so that a sync only gives
  candidates up.

### Session

`RepliesAnswer`. `Sound(c)`: for each client, the line of its last request is in one place (in
the stream, read, being dispatched, answered or lost with the connection), its reply is
split between the stream and the client's buffer with at most one marker in it, and
nothing else is under way; between two requests both are empty.

### Startup

`MapOfLast` says that the `map` that `parseConfig` fills has, for each key, the value of the last
line that counts, and `SaysWhatMapHas` that the property's `Says`, which knows nothing of that map,
is the map's value where it is usable. `ParseConfigTakes` goes through the validators for host,
port and keyspace.

### Server

- `TypeCorrect`, with `ObjectInv`: while there is no DB there is no process and no call; the DB
  that a `use` is about to swap in is live, not the server's, and its caller's alone.
- `OneWriter`. A DB that is not the server's belongs to the `use` that constructed or
  replaced it (`Owned`, for any number of threads); and with one client, whoever is past
  closing leaves no other DB open (`OneLog`).
- `OverlapsOnly`. `AgreeInv`: a DB's file has its name or none, and a closed log an empty
  buffer (`Files`); two calls never change one known key of an open DB, that is one outside
  `unsure` (`Alone`); when the DB is being left or replaced, no buffered line and no call is
  about a known key (`Clean`); while a DB is being cleared, its known keys are gone from the
  table, and no call is about to change them (`Emptied`); and, but for a DB whose files are
  still to be cleared (`Cleared`), the log recovers for each known key the value that
  the table has, or will have when the one call that is still to change it is over (`Agrees`).
  One lemma per action shows that it keeps what the others rely on.
- `LeavingKeeps`. `KeptInv` adds what a shutdown passes on from step to step: whoever is past
  `closeLog` finds the DB closed (`Shut`); a DB that lost its log (to a quit, a failed
  `use`, a rename), is not dirty and is not being cleared is as its AOF says (`Unlogged`); when a shutdown has
  compacted, the AOFs recover the tables of *all* live DBs (`Passed`); a keyspace that
  has been left has no DB, and its AOF recovers what its last one held (`Departed`). The proof of `Passed` uses that a DB which is
  being left has no call on a known key any more (`Doubts`).

The attempt to prove `LeavingKeeps` found that an earlier form of `LeftMeansKept` was false.
It was checked with one key only, and it excused a keyspace whose whole snapshot was empty.
With two keys an AOF may keep a line about one of them when the table becomes empty and
`compactLog` returns early, and a later put of the other makes the snapshot nonempty again; and a
key changed by one call alone after its DB had lost its log was taken to be settled, though
no log had it. `unsure` now keeps both kinds of keys, by what the code did, and the property
has no excuse any more.

### Snapshot and Queries

The invariant is `RowsOK` with `FileFits`: what the stream and the file may be in each
phase of a shutdown, where a file that is complete is one of `Whole` and one that a kill
has cut is the beginning of one. The steps are short; the work is in what the operators
compute, for tables of any length:

- `RowsDistinct`, `ChangeKeeps`: no key has two rows, whatever order a new key puts the others
  in.
- `Layout`, `EntryIsRow`, `StreamReadsBack`, `PartIsUnreadable`: the i-th entry of the stream is
  the i-th row, so the reader finds the table; a beginning does not have the length that it
  announces. `FoursJoined` says what `FlattenSeq` makes of sequences of four.
- `BytesAreSums`, `SizesAreSums`, `StatsAreSums`: each fold is *the* sum of its terms
  (`Sums`, of which there is exactly one), which is how bytes of different sequences
  can be compared.
- `CompressionCostsASize`: compressed data are a byte shorter at least and carry a flag and a size;
  data that did not become shorter are written as they are behind a flag.
- `IntsAreExact`: below `Wrap` a length either is its own `int` or becomes negative, which
  `LZ4_compressBound` refuses. `BelowWrapReadsBack` rests on it; `NothingIsMistaken` does not, as
  the reader compares the two lengths in the file.

- `ReadsTellTheSame`. The four reads are folds that pick rows, so the lemmas are about one such
  fold: `PickFoldPicks` describes its run (each element is appended or not), `PicksWanted` says
  which rows it has picked, `PicksDiffer` that none is there twice, and `PicksValues` that two
  runs over the same elements, one for the rows and one for their values, stay in step.

### Commands

The theorems are about the specification `Editing`, whose invariant is only that the line
consists of characters; what has to be shown is what the two loops compute for a line of
any length. Both are folds, and `WordsRun` and `GroupsRun` give the run of each: the sequence
of the states after every character, or after every word. All else is induction along
such a run.

- Words: `WordsOfJoin` (the words of two strings with a space between are the words of
  the one and then of the other) is what makes the round trip through the AOF tractable;
  `WordsOfBlank` says when there are none.
- Tokens: `tokenize` is between two tokens (`Between`) or within a quotation (`Within`);
  `TakeCases` and `EndCases` are its whole transition table, and `StatesAre` says that
  there are no other states.
- `TokensAreTheGroups`. `Heads` is defined without the loop, as a set that satisfies an equation.
  `HeadsAre` shows that the words which find no quotation open are such a set, and that
  there is no second one; `GroupRun` follows the loop through one group and finds its words
  joined; `TokensCount` says that a token is the n-th exactly when its head is, and
  `TokenStays` that later words leave it there.
- `DurableKeysAreReadBack`. A token is a string without a space, a closed quotation of several
  words, or one that the end of the line has left open (`TokenKinds`). The quotations are
  characterised by what their words do when they are read again, whatever tokens came
  before (`Closed`, `LeftOpen`), which is what has to hold when the key stands in a logged line;
  `NextWord` shows that every word keeps it so. `ReadBack` then goes through the kinds.
- `ReplayAddsNothing` rests on `FirstToken`: the name of a logged operation stays the
  first token whatever follows, also when the rest of the line is torn into other tokens.

### Only model-checked

- Liveness: `CloseReturns`, the liveness half of `KeepsPromise`, `SendReturns`,
  `QuitThenConnectEnds`. Fairness and `ENABLED` are out of the prover's reach.

Every invariant and every action property that a passing run checks is stated by a theorem.
The library's induction theorems take an operator as their parameter and cannot be instantiated
here; induction is used in the form of least elements of well-founded sets of numbers
(`SmallestNumber`, `SmallestIndex`, `LargestIndex`, `SmallestOf`, `Counting`). Recursive functions
on finite sets, which is what the folds of the community modules are, are built up one
element at a time in `FoldExists`.

## 6. Not modelled

- The C++ data races on the table between client threads, and on the `ofstream` between two
  threads that close the log, are undefined behaviour; here each access is an atomic step, and
  `Server` looks at what the interleaving of such steps does by itself.
- Reads that run beside changes (`show` while another client puts) are such races and have no
  model of their own; `Queries` reads a table that stands still.
- The exception of `convertStr` and `appendCommand` for unknown names: the branches of
  `parseCommand` that call them pass names they know.
- A failing `fsync` or `close`, whose result the code does not look at, and what a
  `filebuf` does with its own buffer after a failed write.
- That compaction does not ask for the size of the AOF: `COMPACTION_THRESHOLD` in
  `include/taproot/log.h` is never read, although `docs.md` describes it. The models compact
  whenever the code does, at every shutdown with changes.
- `printVector`, `toLower`, `getTimestamp`, terminal output; characters other than
  quotation marks, white space and letters, which `tokenize` treats alike.
- The second `DB` constructor, `display(key)` and `getItems()`, which nothing under `src/`
  calls; building and `--test` in `run.sh`; the vendored Asio and LZ4 (of the latter, `Snapshot`
  has the lengths that it refuses).

## 7. Plan

What was planned is done. Two things would be worth adding if the code changes: reads that run
beside changes, once the table has a lock that makes them well defined, and a `Disk` that
repairs a torn last line, once `loadFromLog` does.
