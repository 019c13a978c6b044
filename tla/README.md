# A verification project for libpcl

libpcl is a portable C library: containers, strings, files, sockets, processes,
threads and errors behind one API on Unix and Windows. This directory holds
TLA+ models of the parts of it that keep state or are hard to test, the TLC
configurations that check them on small instances, and TLAPS proofs of their
main invariants for every value of the constants. The models follow the Unix
build. File names are relative to the repository's `src/` directory unless they
begin with `include/`.

Contents: 1 the system, 2 modules and how they correspond to the code, 3 what
each run checks, 4 fairness, 5 proofs, 6 what the work found, 7 what is not
modelled, 8 what is left.

## 1. The system

libpcl is not a server: everything happens in calls of the application. State
lives in objects the application holds (a table, a buffer, a file, a socket), in
one process-wide event context, and in one error object per thread. The library
creates threads and processes, and calls back into the application: cleanup
handlers of containers, event handlers, the memory handler.

| component | state | operations | what makes it hard | what makes it correct |
|---|---|---|---|---|
| hash table (`htable`) | `entries[]` in insertion order, `entry_lookup[]`, chains by index, counts, load factors | put, lookup, remove, clear, free, iterate, keys | removal leaves holes; rehash compacts and relinks; replacement hands over ownership; iteration while the table changes | a map in insertion order; each live entry on exactly one chain; a key released once |
| run time (`init`, `event`, `thread`, `atomic`, `error/err_ctx.c`) | `pcl_initialized`, the event context (recursive mutex and handler array), a TLS key, a context per thread | `pcl_init`, register, unregister, dispatch, `pcl_thread`, thread exit | threads; handlers run under the mutex and call back | nobody deadlocks; every running thread has one error context; handlers are reached |
| array, vector, queue, stack | a table of pointers, a block of elements, linked lists | insert, remove, set, get, sort, clear, compact, free | index arithmetic of moves and growth; empty and full; ownership of elements | an owning sequence; FIFO; LIFO |
| error object (`error`) | code, OS code, stack trace, frozen flag | set, trace, clear, freeze, print, to and from JSON | regions that freeze it nest through calls | a frozen error survives; nobody is left frozen |
| process execution (`process`) | pipes, descriptors of parent and children, a status pipe | `pcl_proc_exec` | fork copies other threads' descriptors; failure at each step | no descriptor leaks; the result is true of the child; every call returns |
| buffers (`buf`) | block, position, length, mode | put, put formatted, get, grow, reset, clear, copy | position against length; each put asks for different room; the JSON parser writes behind its back | terminated, within the block, what was put stays |
| JSON (`json`) | reference-counted values that share each other; a recursive-descent parser; compiled paths | build, get, match, remove, compile, encode, decode, free | ownership on failure, a parse that fails in the middle | freed when, and only when, unreferenced; what is encoded is decoded again |
| sockets, TLS (`socket`, `ssl`) | a descriptor and flags per block; a session per TLS object | socket, connect, accept, send, receive, shut down, close; handshake | non-blocking retries, partial sends, interrupted calls, a failure after each resource is taken | nothing leaks, no byte is lost or sent twice, a call to be repeated can be |
| files (`file`) | descriptor, open flags, the lock flag | open, lock, unlock, close | a lock belongs to the process, the flag to the object | the flag tells who has the lock |
| directories (`dir`) | a path buffer, a chain of open directories | make all components, remove recursively | other processes change the tree between two system calls; symbolic links | nothing outside is removed; makers meet |
| command line (`init/getopt.c`, `process/proc_parsecmd.c`) | the word and the letter reached; the word being read | `pcl_getopt`, `pcl_proc_parsecmd` | joined, separate and optional values; quotes and backslashes | what was written is what is read |
| text functions (`string`, `io`, `strint`) | none between calls | split, replace, trim, copy, print, convert | positions at the ends, room for a NUL, widths of integers | what the arguments were written to mean |
| sleep (`time`) | what is left to sleep | `pcl_sleep` | interruptions; a condition that is polled | the result is true |
| logging (`log`) | the settings of a log | open, write | writes inside a region that freezes the error; may end the process | as for the error object |
| the rest | none between calls | time, users, crypto, hashing, shared libraries, streams | single system calls or pure functions | values |

How they interact: `pcl_init` runs `ipcl_event_init`, registers the built-in
handlers of `error` and `time` and dispatches INIT; every thread of `pcl_thread`
dispatches THREADINIT, and the handler of `error` then gives the thread its
error object, which nearly every other function sets. The event context is a
`pcl_array` under a `pcl_mutex`. JSON objects are hash tables and JSON arrays are
`pcl_array`s; the JSON parser builds strings in a `pcl_buf`. File, socket and
hash-table functions freeze the error object around their cleanup.
`pcl_proc_exec` makes file objects of pipe ends. A `pcl_ssl_t` has a `pcl_socket_t`.

The hazards this code is exposed to are listed in `PROJECT.json`, each at the
line where it bites, with the properties below that would show it. Smaller ones
that no property covers are under "Met while reading" in section 6.

## 2. Modules

### Hash table: `OrderedMap`, `HTable`, `HTableIter`, `HTableProofs`

`OrderedMap` is what `include/pcl/htable.h` promises: a map from key texts to
entries, in insertion order, where a replacement keeps the place of the old
entry. `HTable` is the code. Its variables are the fields of `pcl_htable_t`
(`capacity`, `count`, `count_used`, `entries`, `entry_lookup`, `max_loadfac`),
the locals of a call in progress (`cur` and `prev` of the chain walk, `rehash`
with the index and arrays of `ipcl_htable_rehash`) and `held`, the keys whose
ownership the table has. A call is a sequence of steps:

    Begin -> WalkOn* -> PutReplace | PutExists | PutGrow/PutFull/PutFits -> PutInsert
                     -> GetHit | GetMiss
                     -> RemoveHit | RemoveMiss
    (RehashSkip | RehashCopy)* -> RehashDone      after PutGrow, or RemoveHit that shrinks

so the loops' invariants are invariants of the model. `Clear`, `Free` and `New`
are one step each. A key pointer stands for the key and value handed over
together; `text` says which pointers point at equal bytes and `hash` is any
function of the text. An unused entry (`next = 0`) and a removed one
(`next = -1`) are both `Blank`: the code reads neither. `Overrun` is the store
past `entries[]`; what follows it is undefined and the model stops there.

`ImplementsMap` is the refinement: `Keys`, the live entries in array order, is
the abstract sequence, and a removal takes effect when its entry is unlinked,
before the shrinking that may follow.

`HTableIter` composes the table with the loop
`while((ent = pcl_htable_iter(ht, &index)))`, whose body may call anything
between two steps.

### Run time: `Runtime`, `RuntimeProofs`

Threads with a program location each (`pc`), the recursive mutex (`lock`), the
handler array, a stack of dispatches per thread (`frames`) and the thread's error
context (`tls`, `contexts`). `pcl_atomic_compare_exchange` reads and then
exchanges, which are two steps (`InitRead`, `InitExchange`), as on Unix the two
are two statements. Registering and unregistering are one step: they run under
the mutex and touch only the array. A dispatch holds the mutex while handlers
run, so it is a frame with a step per handler (`CallBuiltin`, `CallUser`,
`HandlerReturns`, `EndDispatch`). A handler of the application may ask for any
call; the call is pending in `call` until the mutex can be taken. Foreign threads
(not made by `pcl_thread`) dispatch THREADINIT themselves, as `include/pcl/event.h:48` asks.

### Containers: `OwnedSeq`, `PclArray`, `PclVector`, `Links`, `PclQueue`, `PclStack`, `Containers`, `ContainerProofs`

`OwnedSeq` is the abstract specification of all four: a sequence that owns its
elements; each element leaves once, to the cleanup handler (`cleaned`) or to the
caller (`got`). A NULL is an element like any other: a call that empties a container
hands it to the handler, one that removes or replaces a single element may not. The four modules model each operation on the structure the code
has: slots `0 .. capacity - 1` with the memmoves of insertion and removal, a
block pointer that may be uninitialised or NULL, linked nodes in a heap
(`Links` follows them). `Containers` is one container of one `class`, so that one
refinement and one proof are about all four; its `total` and `reserved` are the
fields `count` and `capacity` of the table of a class that has them.

### Buffers: `PclBuf`, `ObjectProofs`

`cells` is the block, character by character, with `JUNK` where malloc and
realloc left something; `pos`, `len` and `mode` are the fields. A put grows the
block by the code's rule (`GrownSize`), with the length that put asks for, writes
at the position and moves it (`Write`, `MovesTo`). `overrun` records a write past
the block. `Rewind` is the caller setting `pos`, as `tests/buf.c` does.
`PutEscape` is the JSON parser's own write (`utf16_to_utf8`), allowed only in the
run that is about it.

### JSON: `JsonValues`, `JsonText`, `JsonProofs`, `JsonPath`, `JsonPathProofs`, `JsonString`

`JsonValues` is the heap of `pcl_json_t` blocks with `type`, `nrefs` and
elements, the references the program holds (`own`), the array of a match
(`results`), and the number of string blocks. `pcl_json_free` is recursive:
`todo` is what its active calls have still to release, and `FreeStep` is one of
those steps. The recursion of `json_match.c` over a compiled path is done the same
way: `Calls` is what one call of `walk_path` calls, in order, and `WalkStep` is one
call, or one turn of the loop over a slice. A visit with nothing left of the path
is the `pcl_array_append` of a result.
`JsonText` adds the parser and the encoder over tokens: `dec.stack` is the chain
of unfinished `ipcl_json_parse_object` and `ipcl_json_parse_array` calls, and
`Unwind` one of them returning NULL. `EncodeFreeDecode` encodes a value, frees it
and decodes the text, whose result must have the same form.

`JsonPath` is `pcl_json_compile` and `pcl_json_freepath`: a step of the path per
action, with the blocks and the vector allocated on the way. Its texts are written
from the steps they mean, in every form the steps have (`Forms`), so that a run knows
what a text should compile to. `JsonString` is
`ipcl_json_parse_string` and `ipcl_json_encode_string` on bytes, with the
surrogates and lengths of `pcl_utf8_encode` and the table of `pcl_utf8_check`. The
four characters behind `\u` are read as `strtol` reads them (`DigitsAfter`): digits of
either case, after blanks, a sign or `0x` if they fit.

### Error object: `ErrorState`, `ObjectProofs`

The fields of `pcl_err_t`, `errno`, and the stack of regions that freeze the
object: `"pair"` (`pcl_err_freeze(true)` ... `(false)`), `"macro"` (FREEZE_ERR,
which restores `errno` too) and `"print"` (the functions that save the flag and
put it back). Regions nest as calls do. One thread is enough: `Runtime` shows
that every thread has an object of its own.

### Process execution: `ProcExec`, `RuntimeProofs`

Several threads each call `pcl_proc_exec`. `fds` and `cloexec` give each process
its open descriptors; a descriptor is what it refers to (the call, the stream
and the end of the pipe), not a number. The thread's actions are the steps of
the function up to each system call and each CLOSE macro; the child's are those
of the code after fork; `ProgramEnds` and `CloseFile` are the program that was
executed and the application. `Fails` at each place is the error path there.

### Sockets and TLS: `SocketKernel`, `Socket`, `Tls`, `SocketProofs`

`SocketKernel` is what the library meets and is marked external: descriptors,
connections with a stream of bytes each way that holds `QueueSize`, end of
stream, resets, and system calls as actions that name their result. `Socket` is
`pcl_socket_t`: `sock` is the blocks, `ptr` the application's pointers to them and
`op` a send or receive in progress. A call that loops over system calls
(`sendall.c`, `recvall.c`) or repeats an interrupted one is a step per system
call (`SendStep`, `RecvStep`), so the peer, resets and signals come in between.
`Tls` puts `pcl_ssl_t` over it: `ssl` is the objects, `call` where an
unfinished `pcl_ssl_connect` or `pcl_ssl_handshake` is, with `*want_io`. OpenSSL
is the `Script` of records each end writes and reads before a session is up.
`AppSpec` is an application that uses both at once; the theorems are about it.

### Files and directories: `FileLock`, `ObjectProofs`, `DirTree`

`FileLock` is several objects of several processes on one file: `held` is the
kernel's lock of each process, `flag` the object's PCL_FF_FLOCK, and `mine`
what the object's last `fcntl` left. Opening with a lock is open, then lock; it
waits when it must, and a process that ends closes everything. `DirTree` is
`pcl_mkdirs` of several processes and `pcl_rmdir_r`, whose recursion is `frames`
and whose path buffer is `path`, one step per system call on a `tree` that other
programs change (`Touch`): they put an entry of any kind, a link too, in place of what
is at a path. `pcl_readdir` names an entry's type of when the directory was opened, of
now, or none (`EntryTypes`). Three history variables say what came in between:
`alone` (nothing), `disturbed` (these entries), `swapped` (a link where it matters).

### Command line, words, text: `CommandLine`, `ShellWords`, `RuntimeProofs`, `Texts`

`CommandLine` is `pcl_getopt` call by call, `ShellWords` the loop of
`pcl_proc_parsecmd` character by character. `Texts` has the functions on text,
each a function of its arguments: a loop is a recursive function of the position
it has reached. `JsonPath` and `JsonString` belong here as well: all five check a
function that reads text against texts *written from what they mean*. An initial
state picks a meaning (a list of options, words, steps, code points, parts), a
writing of it in any of the forms the code reads, and perhaps a bad end; the code's
result must be the meaning, or the error. Two classes of blanks matter to
`ShellWords`: a space or tab ends a word (`Space`), while every `isspace` character
is skipped before one (`Blank`, with `Newline` for the others).

### Sleep: `Sleep`

`pcl_sleep`, its naps, interruptions and condition; time is what was slept.

### Compositions for TLC

`MC_*.tla` extend or instantiate these and define the constants that a `.cfg`
cannot write. Objects of one caller that do not interact share a run: the
initial state chooses a kind, and the variables of the others keep their values.

- `MC_Objects`: array, vector, queue, stack, a hash table that is iterated, a
  buffer, the error object, and the kinds of `MC_Json` (values, path, string).
- `MC_Threads`: `Runtime` or `ProcExec`.
- `MC_IO`: plain sockets, TLS, a directory tree, locked files, and the kinds of
  `MC_Args` (options, words, and the calls of `MC_Texts`).

Definitions named after a mistake (`ForgetsToMove`, `WalkForgetsPrev`,
`KeepsStatus`, ...) stand before the definition they are a faulty variant of.
They are not part of the specifications: each shows, when put in its place, that
a property notices it.

## 3. Runs

| run | module, cfg | what it shows | bounds, and why they are enough |
|---|---|---|---|
| `htable` | `MC_HTable.cfg` | `ChainsOK`, `OwnedOnce`, `RehashOK`, all of `MapInv`; `ImplementsMap`; `CallsReturn` | five keys: two pointers to one text, two texts of one hash code, three texts in one bucket. Sizes 2, 4, 8 (the code's 8 and up are reached by the same steps), loads 3/4 and 3/8, shrinking below 2/5, so that growing, shrinking and ERANGE occur with chains of one, two and three |
| `objects` | `MC_Objects.cfg` | containers: `ContainersOK` (types, bounds and links), `ImplementsOwnedSeq`, `ServedInOrder`; buffer: `BufTerminated`, `BufNoOverrun`, `BufAppends`; error object: `ThawedOutside`, `RegionKeepsError`; iteration: `LoopMissesNothing`, `LoopNeverRepeats`; JSON: `RefsExact`, `StringsExact`, `RoundTrip`, `PathsExact`, `StringsParsed` | three elements and NULL, capacity 0, 1 or 3 growing to at most 4, four nodes: empty, full, first, last and middle all occur. Blocks of 1 or 3 characters growing to at most 10, with and without NULs in the data: exactly full, grown once and twice. Two codes, one `errno`, traces of two, regions two deep: each kind inside each other kind. Tables of 2 to 4: growth, compaction and ERANGE happen during a loop. Three JSON blocks, two elements each, paths with every kind of step, texts that end early, repeat a key or hold a bad string. Paths of up to two steps, strings of up to two code points at the ends of every length of UTF-8, with escapes in digits of either case and after a blank, a sign or `0X`, each broken in most ways |
| `threads` | `MC_Threads.cfg` | events: `LockOK`, `ContextOK`, `DispatchReaches`, `EventsReturn`; processes: `NoDescriptorLeaks`, `ExecReported`, `CallsReturn`, `OutputEnds` | three threads (initialising, created, foreign), two handlers, `MaxOps` = 4 requests: a handler can dispatch inside a dispatch while another thread waits, and unregister itself or the other. Two threads that start programs with input and output, one signal; programs that end by themselves |
| `io` | `MC_IO.cfg` | sockets: `DescriptorsOwned`, `ConnectedTrue`, `CallsExact`; TLS: `DescriptorsOwned`, `SessionUsable`, `HandshakeOnce`, `ConnectEnds`; `FlagTellsLock`; `RemovesBeneath`, `MkdirsMeet`; `ArgumentsExact` (words), `AnswersExact` (options and texts) | three descriptors and blocks, one connection that holds one byte a way: every send and record can block, every call can be interrupted, reset, refused or run out of descriptors. An unsigned int of 0 to 2, so that messages and counts of 3 are past its end. A tree three deep with a link out of it, two makers, one change by others, of any kind, at a listed directory, its file, or behind the link. Two objects of each of two processes, four calls. Options of each policy, two at a time; two words with blanks of both classes, quotes and backslashes, and gaps of one or two blanks. Texts: see below |
| `htable_room` | `MC_HTable_room.cfg` | violation of `PutHasRoom` | the code's own 8 entries, 3/4 and 1/5; two keys |
| `runtime_init` | `MC_Runtime_init.cfg` | violation of `EventInitOnce` | two callers of `pcl_init` |
| `objects_pad` | `MC_Objects_pad.cfg` | violation of `PadsWithNull` | as `objects`, with sets on slots a removal vacated |
| `objects_escape` | `MC_Objects_escape.cfg` | violation of `BufTerminated` | as `objects`, with the escapes of the JSON parser |
| `objects_utf8` | `MC_Objects_utf8.cfg` | violation of `TableAccepted` | as `objects`, with code points of every plane |
| `error_freeze` | `MC_ErrorState_freeze.cfg` | violation of `FreezePreserves` | two codes, one `errno`, traces of two, regions three deep |
| `procexec_eof` | `MC_ProcExec_eof.cfg` | violation of `CallsReturn` | as the processes of `threads`, with programs that read their input to its end |
| `sleep_cond` | `Sleep_cond.cfg` | violation of `SleepReturnsTrue` | sleeps of up to three intervals |

The texts of `AnswersExact` run with an `int` of 4 bits and a `long` of 6, so that every value
and both ends are met (numbers from -70 to 70), lists of up to
three parts, formats of up to two pieces, and buffers of up to nine characters,
one more than the longest result. Its inputs leave out what the functions do not
handle: empty parts and empty DNS texts, slices of length 0, `"%%"`, a width with
the digit 3, and the letters `Ps` directly after `%/` (section 6 says what happens).

What the properties say, and why they are the ones:

- `ChainsOK` is stronger than "a lookup finds its key": the chain of a bucket is
  its live entries, head first, the rest by falling index. It also excludes a
  cycle and an entry on two chains. `OwnedOnce` is about memory the application
  hands over: a key or value released twice or never.
- `LoopMissesNothing` says what a changing table does to a loop: as long as no
  rehash squeezed holes out, nothing is skipped. After one the index may be past
  entries that moved down. `LoopNeverRepeats` holds even then.
- `DispatchReaches` is exact about the loop of `pcl_event_dispatch`: a handler
  that unregisters moves the array under the loop, and each removal may cost one
  other handler its call.
- `LockOK` ties the mutex's depth to the dispatches a thread is in.
  `EventsReturn` would fail with a mutex that is not recursive. It assumes
  that handlers return. An application must not take in a handler a lock it
  also holds around the event API: no property of the library can cover that.
- `RegionKeepsError` is what the flag does give: a region that nobody thawed
  keeps its error, and with `ThawedOutside` no path leaves the thread frozen.
- `BufTerminated` and `BufNoOverrun` pull in opposite directions: the character
  that growth keeps free is the one the terminator needs. `BufAppends` is limited
  to puts at the end, since a put after a rewind ends the text where it ends.
- `RefsExact` says that `nrefs` is the number of references, where the
  references of frees still to be done and of unfinished parses count too. So it
  holds in the middle of a recursive free and of a failing parse, and excludes
  leaks and dangling pointers at once. `StringsExact` says the same of keys and
  strings, of which nothing counts the references.
- `ExecReported` names the two exceptions the code has: a child that is refused
  its user or group says nothing, and a `read` that fails is taken for success.
  `OutputEnds` says that a reader of the program's output sees its end, although
  a child of another thread inherited the pipe meanwhile.
- `DescriptorsOwned` is about every path on which a call fails half-way: what was
  opened, allocated or accepted by then is with the caller or gone, and never with
  two owners. `ConnectedTrue` is what `pcl_send` relies on when it tests a flag
  that `pcl_connect`, `pcl_accept` and `pcl_shutdown` set.
- `SessionUsable` relates `PCL_EAGAIN` and `*want_io` to what the object has: a
  retry that makes a second session, or a final failure that leaves one behind,
  violates it. `HandshakeOnce` counts the records on the wire. `CallsExact` does so
  for the bytes of `pcl_sendall` and `pcl_recvall`, interrupted or not. That all of it
  moved is said of counts an unsigned int holds; the model and the code both end
  a larger one early (section 6).
- `FlagTellsLock` is as strong as `fcntl` allows: closing any object of the process
  gives the lock up, and no other object of it can know. It says nothing of that
  stale flag, which no property of the library's own could exclude.
- `RemovesBeneath` holds whatever others do to the tree meanwhile, but for one thing: a
  symbolic link they put on the way to the directory, or beneath it while it is being
  removed. Such a link is followed when it takes the place of a directory between
  its `readdir` and the `opendir` of it, and what it leads to is emptied (section 6).
  The model has these steps; the property leaves the runs with one aside
  (`swapped`). That the removal succeeds is said for runs where nobody comes in between and
  `readdir` knows every type.
- `MkdirsMeet` is about two processes that find each other's components there
  (EEXIST), and says what the code does when something that is no directory is there:
  above the last component it fails, at the last it does not (section 6).
- `ArgumentsExact` and `StringsParsed` take a text to mean what the code makes of its
  forms: no bare word begins with a line end, and an escape is what `strtol` reads.

`CHECK_DEADLOCK FALSE` is set where the system may stop: a freed container, a
process whose threads and calls are all done, a table after `Overrun`, a text that
is read. `error_freeze` never stops and is checked for deadlock.

## 4. Fairness

- `HTable`: `WF(Run)`. A call that was entered goes on; a table has one thread.
  Nothing makes the caller enter one.
- `MC_Threads`, events: weak fairness per thread of `PclInit`, `EventStep` and
  `ThreadStarts`, that is, threads are scheduled and application handlers return.
  The application need not ask for anything, and a routine need not return. Weak
  fairness is enough for the mutex: requests are bounded by `MaxOps`, so the
  other threads leave it alone in the end.
- `MC_Threads`, processes: weak fairness per thread of the thread, the child, the
  program's end (when it can end) and the application closing its files (when it
  can). For output files that is after their end; a program that waits for its
  input to be closed is the subject of `procexec_eof`.
- `MC_IO`, TLS (`TlsFairness`): the network answers a connection request; a call
  that was entered goes on; the client repeats `pcl_ssl_connect` and the server
  `pcl_ssl_handshake` when what `*want_io` names has become possible, as
  `include/pcl/ssl.h` asks of them; the server accepts, receives, and frees what is
  closed. Nothing makes a client begin. `ConnectEnds` then says that it is not left
  repeating for ever.
- Everything else is safety only.

## 5. Proofs

TLAPS proves these for all values of the constants that the named assumptions
admit (`KeyAssumption`, `SizeAssumption`, `LoadAssumption`, `BufAssumption`,
`ErrorAssumption`, `ProcExecAssumption`, `RuntimeAssumption`, `FileAssumption`,
`KernelAssumption`, `SocketAssumption`, `TlsAssumption`, `WordAssumption`, `ParametersOK` of the
containers, `ValuesOK` of JSON, which says what a compiled path is; TLC evaluates each on the instances).

**`Induction`**: `NatInductionOn` is induction over numbers in a form the provers
can use: a set of numbers that has 0, and with each number the next, has all of
them. What a recursive function of the models computes (the chain a lookup
follows, the keys of a table in their order, the nodes a list visits, the rank
of a sorted element) is proved with it: the function that is meant is written
down, shown to satisfy the equation, and shown by induction to be the only one
that does.

**`HTableProofs`**: `HTableInvariant`, `HTableTypes`, `HTableChains`,
`HTableOwnership`, `HTableRehash`. Any keys, any hash function, any sizes and
any load factors with the minimum at most 1/2. None of the four safety
properties is inductive. `ChainsOK` needs types and the bounds on counts. A
removal keeps the chain only if `prev` is the entry before `cur` (`WalkOK`). An
insertion keeps "no two live entries have one text" (`KeysOK`) only if the walk
that ended missed nothing (`WalkOK`) and nothing came between (`AddingOK`). A
replacement keeps `OwnedOnce` only because the key being put is not yet held
(`PutOwnership`). A rehash needs all of `RehashOK`, whose counts come from
`CountOK` and the load factors: at most half the slots are live when a table
shrinks, so they fit. `IInv` is the conjunction. The lemmas follow the code:
`LinkKeepsChains` and `UnlinkKeepsChains` are about the store behind a head and
the removal from a chain, and are used by put and rehash alike. There is a lemma
per action; `HTableInvariant` puts them together.

`HTableMapInvariant` and `HTableImplementsMap` are the refinement of
`OrderedMap`. `MapInv` adds to `IInv` that a call works on the chain of its own
key (`CallOK`) and that a rehash keeps the live entries in their order
(`RehashOrder`). Each step is then one of the map's or a stutter: `Keys` is
computed slot by slot, and the lemmas say what a store at the end, a store in
place, a removal and a move down do to it.

`IterMissesNothing`, `IterNeverRepeats`, for any body of
the loop. `IterInv` adds to `IInv` that only texts of live entries count as returned
(`ReturnedLive`; a removed one may be put, and returned, again), and what a
rehash in progress has done so far (`MovedDown`): it has moved each entry down or left it, and has left all of them
if it met no hole. So an entry can only move towards what was already returned.

**`ContainerProofs`**: `LinkedInvariant`, `ContainersInvariant`, `ContainersOwn`,
`ContainersServe`. Any elements, capacities and nodes. The theorems about arrays
assume `~SetsBeyond`: no `pcl_array_set` on a slot that a removal vacated, which
is what `objects_pad` shows to break the array. For a table the invariant is that
its slots hold `Contents` and beyond them nothing that is owned; that no element
is stored twice is needed for the sort, which picks for each index the element
with so many below it (`RankedChoice`). For links it is that some sequence `p`
lists the blocks in the order of their links, all of them and each once
(`ChainInv`); the walk from the head passes through `p` (`ChainVisits`), and
adding, pushing and removing change `p` at one end.

**`RuntimeProofs`**: `RuntimeLock`, `RuntimeTypes`, `RuntimeContext`. Any threads
and handlers, with one caller of `pcl_init` (two are the subject of
`runtime_init`, where a second initialisation may replace a mutex in use).
`RunInv` adds `Quiet`, which says that until the mutex exists nothing runs but its
creator, and `ContextHeld`, without which the count of contexts might fall below
zero. `Alone` is the heart: a thread that may take the mutex is the only one that
can be inside a dispatch, so counting it once more keeps depth and dispatches
equal. `RuntimeContext` needs that the built-in handler of `error` stays the first
of the array, whatever is unregistered, and that a thread's first dispatch has
passed it before any code of the application runs (`ContextInv`).
`RuntimeReaches` is about the loop of `pcl_event_dispatch`, with an array that
handlers change under it. `ReachInv` says of every active dispatch: the handlers
that were there when it began and still are, less those it has called and those
still ahead of its index, are at most as many as the removals since. A removal
moves at most one handler to an index already passed; that is what each one costs.

**`RuntimeProofs`**, processes: `ExecInvariant`, `ExecTypes`, `ExecNoLeaks`,
`ExecReports`. Any number of threads and any sequence of streams. `ExecInv` adds
to the properties: what the parent holds while it waits (`ParentHolds`), that
it has forked by then (`ChildForked`), that the child has the write end of the
status pipe until it executes or exits (`ChildHolds`), that the code is in the
pipe exactly after a failure (`ToldOK`), and that a call that has not returned has
no result (`Pending`). The argument for `ExecReports`: if the read saw the end of
the pipe, no process had the write end, so the child had executed its program or
exited without a word.

**`RuntimeProofs`**, words: `ArgumentsExactHold`. Any letters, any words that can be
written at all, any lists of them, each word quoted or bare (a bare one does not begin
with a line end), any gaps of blanks of both classes (behind a bare word the first is a
space), and any bad end. `WordAssumption` says what those are: a letter is not a
blank, quote or backslash, an `OpenEnd` opens a quote and never closes it, a `StrayEnd`
has a quote behind a bare word. That the escapes of a word are the same however
it is read is proved first (they depend on the word alone), then that from `k`
characters into a word, the next step takes a character, or a backslash and the one
behind it, and stays within the word. `WordsInv` says that some `i` words are cut and are the
first `i` meant, and that the rest of the text is the rest of word `i + 1`, what closes
it, and a text of the words after it (`TextsFrom`, a recursive function from the last word
on); within a bad end, that the quote in it still is to come, or never does.

**`SocketProofs`**: `SocketsOwned`, `SocketsConnected`, `SessionsUsable`,
`HandshakesOnce`, `SocketCallsExact`. Any
number of descriptors, blocks and connections, plain sockets and TLS objects
together (`AppSpec`). The kernel comes first (`KernelInv`): an open descriptor is
the only one at its end of its connection and has not left it, and a connection
that was not accepted has no server. So closing one descriptor takes no
connection from another (`LinksStay`). Blocks follow: making or closing one moves
exactly one place of the owners (`BlockMade`, `BlockClosed`), and since places
have different blocks (`OwnSock`), a step of one object leaves the others alone
(`ObjectStep`). `RoleOK` says for each place in a TLS call what the object has then.

The last two are about what goes through the streams, for any messages, counts,
queue sizes and width of an unsigned int (`UIntLimit`). `Enough` is the loops'
comparison of what an unsigned int keeps; for a count below the limit it is that of the
lengths, which is where `SocketCallsExact` says that everything moved. `StreamInv` is the shape of a stream, and that nothing came from a
server that has not accepted. What a step does to the others is `KeepsBut`: at
every other descriptor, what the end sent and read stays, and what it may read
only grows at its end. `OpOK` ties a running call to its stream: what it has moved
is the beginning of its data and the end of what was sent, or the bytes read
since it began; `SendTaken` and `RecvTaken` carry that over one system call.
`StreamOK` is `HandshakeOnce` for one object, also between its steps (`Records`):
as many records written and read as its place in the script has before it, each
where the script puts it. A session that is made finds a connection nothing
was sent on or read from at its end; closing another object, a retry, or a plain
socket's call leaves its end of the streams as it was.

**`JsonProofs`**: `JsonInvariant`, `JsonRefsExact`, `JsonStringsExact`. Any number
of values, shared in any way, any keys, texts and paths. `RefsExact` counts
places: of elements, of results, of frees to be done, of the parser's calls. `Hits`
is the number of such places in a sequence and `Total` that of a family of sets;
the first two parts of the module say what appending, removing and concatenating
do to the one, and changing one member to the other. `JsonInv` adds what makes the
counts step: a value whose count is zero has no elements left and is freed once
(`Counted`), what is still to be done is either frees or a match, and a match meets
allocated values only (`TodoInv`), an unfinished object below another waits for
the value of a key, and only an object has one (`KeysInv`, `StackInv`); without the
last, `StringsExact` could not tell the parser's key from the object's. Each
operation then adds, moves or removes as many places as it changes the count by
(`RefAdds`, `KidAdded`, `KidDropped`, `OneLess`, `Emptied`, `Removed`).

**`JsonPathProofs`**: `PathsExactHold`. Any number tokens and pieces of names, any
lists of steps, written in any way, with or without a bad end. `PathAssumption`
keeps number tokens and punctuation apart, as the characters of the two are.
`EndsMeanNothing(Seq(Step))` says what a bad end is: no path of any steps is written as
the text with it; TLC evaluates both for `MC_Json`, the second over the lists of
the run. A text has two readings, and `PathInv` has a part for each. `TracksAt`: without
a bad end the path is a beginning of the steps meant and the text still to
read is a text of the others, so nothing is refused. `ReadsAt`: the text at the start is a
text of the steps compiled and what is still to read, so one that is read to
its end is a text of its path. For the first, each form of a step is read as
that step and no further (`ReadsForm`, `ReadsList`); for the second, what is read
and not refused is a form of the step compiled (`ParsesWritten`), and a form
appended to a text makes a text of one step more (`TextsAppend`). A list of indexes is
read a token at a time, so both parts say where in it the parser is. The blocks are those of
the path and of an unfinished list (`Held`).

**`ObjectProofs`**, buffers: `BufEndsWithNul`, `BufStaysWithin`, `BufKeepsContent`. Any
characters, sizes and texts, without the JSON parser's escapes, which break the
first (`objects_escape`). The invariant adds that the room a put makes is what it
asked for and one more, and that no character that counts is uninitialised.

**`ObjectProofs`**, the error object: `ErrorThawedOutside`, `ErrorRegionKeeps`. The object is
frozen only inside a region, and a region remembers what it found.

**`ObjectProofs`**, file objects: `FileFlagTellsLock`. Any processes and objects. The
invariant ties what the last `fcntl` of an object left to what the process holds,
until another object of the process makes that unknown.

**`ObjectProofs`**, directories: `DirRemovesBeneath` and `DirMkdirsMeet`. Any tree,
names, links, lengths of paths, processes, and any number of changes by others. Two
assumptions on the parameters: the directory to be removed is named by its own path
at first (`RootAssumption`), since through a link its entries have other names, and no
path through a link is too long to be one (`LinkAssumption`, which only `DirMkdirsMeet`
needs). `Resolved` is a recursive
function; by induction over the path, it leads a path without links on the
way to itself (`ResolvedPlain`), and it changes with the links only (`ResolvedSame`).
For the first theorem `RemovalInv` says that each call of `rmdir_r` was made for an
entry of the one before, that the buffer holds its path, and that no
component of that is a link. It is kept by every step but one that puts a link
there, which sets `swapped`; so `TreeInv` has it under `~swapped`, and what is removed
is beneath. That it succeeds when nobody interferes rests on `AloneInv`: while alone, an
entry is gone once it is reported, unless it is the one that the next call is in, and is
as listed before. An entry of unknown type, which may be a directory that `unlink`
refuses, ends `alone`.
For the second, `MadeSoFar` says that while nothing is removed the components a call
has passed lead to directories, but for the last one passed, which is only there; and a
step of any other maker, or an entry put where nothing was, adds to the tree and takes
nothing from that (`AddsKeepsMade`).

Only model-checked: the liveness properties (`CallsReturn`, `EventsReturn`,
`OutputEnds`, `ConnectEnds`), which are out of the prover's reach;
`RoundTrip` and `StringsParsed` of JSON, and `AnswersExact` (the options and the
functions on text), whose reference definitions are nested recursive functions over data. `NatInductionOn` would reach those in principle, at
a length that says less than the exhaustive runs do.

## 6. Findings

Eight runs show the code doing something that its documentation excludes.

- **`htable_room`** (`htable/htable_put.c:81`). A put stores at
  `entries[count_used]` and decides on a rehash by `count`. Removals never give
  their slots back before a rehash, so eight put/remove pairs of one key use up a
  table of eight, and the ninth put stores past the array.
  `include/pcl/htable.h:277` says there is always room.
- **`runtime_init`** (`atomic/atomic_compare_exchange.c:44`). The value returned
  is read before the exchange, so two threads that call `pcl_init` together both
  see 0 and both initialise. `event/_event.h:47`: "only called once from pcl_init".
- **`objects_pad`** (`array/array_remove.c:51`). The slot a removal vacates
  keeps its pointer; a later `pcl_array_set` beyond it makes that pointer an
  element again. `include/pcl/array.h:134` says those elements will be NULL.
- **`objects_escape`** (`json/json_parse_string.c:106`). The decoder of `\uXXXX`
  moves `pos` and `len` without writing the NUL, and the block becomes the
  string. One that ends with such an escape is terminated only by luck.
  `include/pcl/json.h:201` says such a string is always NUL-terminated, and
  `include/pcl/buf.h:38` that every put adds a NUL.
- **`objects_utf8`** (`string/utf8_check.c:126`). For a first byte above F0 the
  second byte is checked by testing the first one again, so every code point from
  U+40000 on is refused. The table at line 46 of the same file accepts them.
- **`error_freeze`** (`error/err_freeze.c:37`). The flag does not count: the end
  of an inner region thaws the object for the outer one, whose error is then
  replaced. `include/pcl/_errdefs.h:39` says FREEZE_ERR preserves it.
- **`procexec_eof`** (`process/unix_proc_exec.c:211`). The status pipe is not
  FD_CLOEXEC in the parent. A child forked by another thread meanwhile keeps its
  write end across `execvp`, so two calls may wait for each other's programs for
  ever. The comment at line 248 expects an end of file.
- **`sleep_cond`** (`time/sleep.c:79`). The polled sleep takes the true of its own
  nap for a failure and returns false after the first one.
  `include/pcl/time.h:134`: "true for success and false otherwise".

### Shown by the models, without a run of their own

These are disagreements that the steps of a passing run contain. The property of
the run says what the code does and leaves the documented behaviour aside where the
two differ, so it passes; each is stated here instead.

- **A plain file at the end of a path** (`dir/mkdirs.c:76`). `pcl_mkdirs` takes the
  EEXIST of the last component for success. `include/pcl/dir.h:190` says "Same as unix
  mkdir -p", which fails. `MkdirsMeet` says that the last component "is there", no more.
- **A link in place of a listed directory** (`dir/rmdir_r.c:42`). A directory that
  becomes a symbolic link between its `readdir` (line 50) and its `opendir`
  (`dir/opendir.c:48` and `:86`) is followed, and what it leads to is unlinked.
  `RemovesBeneath` excepts it by `swapped`. An entry of unknown type is unlinked
  (`dir/readdir.c:185`, `dir/rmdir_r.c:65`), which fails for a directory.
- **Counts of 4 GiB and more** (`socket/sendall.c:55`, `socket/recvall.c:68`). The loops
  compare `(unsigned) tot < (unsigned) cnt`, so such a call may succeed with a part.
  `CallsExact` speaks of smaller counts.
- **NULL and the cleanup handler** (`array/array_free.c:42`). `pcl_array_free` calls
  the handler for NULL elements too; `include/pcl/array.h:170` says that it is called
  for all elements that are not NULL. `PclArray` and `OwnedSeq` have what the code does.
- **Line ends between words** (`include/pcl/string.h:498`,
  `process/proc_parsecmd.c:65`). `pcl_proc_parsecmd` skips every `isspace` character
  before a word and ends a word at a space or tab only: `a \nb` gives `a` and
  `b`, `a\nb` one word, and the newline of `ls \n` is dropped. `ArgumentsExact` leaves
  out bare words that begin with one.
- **What `\u` accepts** (`json/json_parse_string.c:36`). `hex2num` reads the four
  characters by `strtol`, so `\u+041` and `\u0x41` are an `A`. RFC 8259 wants four
  digits; `StringsParsed` has what the code reads.
- **A lock that another object gave up** (`file/file_close.c:45`). See `FlagTellsLock`.

### Met while reading, and not covered by a run

Threads, errors, events. `event/event_dispatch.c:43` calls handlers under the
mutex: a handler that takes a lock of the application can wait for a thread that
holds it and calls the event API. A second caller of `pcl_init` returns at once,
before the first is done (`init/init.c:64`). A second THREADINIT of one thread
leaks its first context (`error/err_ctx.c:70`). `error/err_setjson.c:59` freezes
the object before it rebuilds the trace. SETERR returns 0 while the object is
frozen (`include/pcl/error.h:48` says -1).

Containers. `vector/vector_compact.c:39` takes `realloc(p, 0)` of an empty vector
for a failed allocation. `pcl_buf_init` of size 0 leaves `data` uninitialised, and
an empty text put by `buf/buf_vputf.c:70` into a cleared buffer writes its NUL out
of the block.

JSON. A number that ends with the text is refused (`json/json_parse_number.c:83`),
so a bare number cannot be decoded; a real number without a fraction comes back as
an integer; `json/json_parse_string.c:180` and `:193` return without freeing the
scratch buffer; `\u0000` ends the string; a slice with step 0 (`json/json_match.c:204`) never
ends; the compiled forms of `[:]` and `$..[` are refused and a member `['']` accepted.

Processes. `process/proc_pipe.c:134` sets the flags of the read end twice: the file
for the program's input has no write flag, `pcl_file_write` refuses it with
ENOTSUP, and `pcl_fdopen`, which derives its mode from the flags, picks one that
does not fit the descriptor, so that `pcl_popen` fails. `pcl_pclose` does not free
the process object. With descriptor 0, 1 or 2 closed in the parent, a pipe end may
get that number and be closed in the child (`process/unix_proc_exec.c:280`).

Sockets and TLS. `pcl_ssl_connect` leaves `*want_io` 0 when its `pcl_connect`
returns EAGAIN; the peer's certificate is not released
(`ssl/ssl_connect.c:119`); an end of file during the handshake gives -1 with
EOKAY; `pcl_ssl_accept` of a closed listener uses its NULL socket.
`socket_setnonblocking.c:53` passes `&flags` to F_GETFL. `pcl_select` may compute a
negative `tv_usec` for the time that remains (`socket/select.c:58`).
`pcl_recvall` of nothing gives ECONNRESET. A second EINTR is EINTR from
`pcl_recv` and EAGAIN from `pcl_send`. `pcl_shutdown` clears the connected flag only
for SHUT_RDWR, after which `pcl_connect` succeeds (EISCONN).

Files and directories. PCL_O_NONBLOCK with a lock still waits while it opens (`include/pcl/file.h:66`).
`pcl_rmdir_r` of a symbolic link empties the directory it leads to and then fails.
`pcl_tmpfile` counts half the length of its random part, so the suffix is cut off
(`io/tmpfile.c:100`), and leaves the file when `fdopen` fails.

Command line. `-Ov=w` gives the value `w`; `--name=v` of an option without a value
drops `v`; `:` is accepted as an option; long names of one letter are refused; a
call after `--` of length two or after an error reads past the word. Empty quoted
words are dropped by `pcl_proc_parsecmd`, and a text that ends in a lone backslash
is read past its end.

Text. `"%%"` becomes a single `%` for the C library's printf, which takes the next
character for a conversion (`string/fmtconv.c:97`); the digit 3 is missing from the
characters of a width; a literal `Ps` directly after `%/` loses its `P`. An empty
part between two delimiters makes `pcl_strsplit` copy the whole rest
(`string/strsplit.c:57`; `include/pcl/string.h:404` says a part never contains the
delimiter); an empty delimiter, or an empty text to replace, loops for ever.
`pcl_strtrunc` leaves no NUL when it truncates. `pcl_strupper` walks narrow strings
by `int` (`string/strupper.c:52`). `pcl_strmode` tests the wrong bit for the sticky
flag (line 82). `pcl_strfbytes` has the wrong letter for a tebibyte.

Other. `openssl_error.c:69` and the digest functions lose a block on their error
paths; `pcl_cipher_reset` compares with the last IV only; `pcl_localtime` leaves
`tm_gmtoff` 0.

## 7. Not modelled

The map covers about an eighth of the repository's lines. Most of the rest is
not code these models could be about: Windows branches, vendored headers
(`libs/windows-*`, pthread) and farmhash, tables that map error codes and names,
header files that are documentation, examples and tests.

- Memory exhaustion. Allocation failures call the memory handler, which by
  default ends the process.
- Bytes, where no property is about them: hash codes, comparators, the layout of
  printed JSON, JSON numbers as values.
- Reading, writing, seeking, names and status of files; streams (`fopen`,
  `fdopen`, `popen`, `tmpfile`); time, system and user queries; environment and
  privileges; shared libraries: single calls of the system whose result is passed on.
- `pcl_select`, the socket timeouts, keepalive, names and addresses, certificates
  and ciphers; cryptography and hashing (OpenSSL and farmhash do the work).
- Logging: it formats a line and writes it inside a region that freezes the error
  object, which `ErrorState` has, and may end the process by its exit levels.
- `pcl_mutex_trylock`, `pcl_mutex_destroy`, `pcl_thread_id`, `pcl_tls_free` and
  joining: direct calls of pthreads that nothing else in the library uses.
- Indices outside the documented contract (`pcl_array_insert` above `count`).
- Descriptor numbers of processes, so the case of a parent whose descriptors 0, 1
  or 2 are closed; credentials beyond "refused".
- More than one call of `pcl_proc_exec` per thread: a second begins where the
  first left the process, with some of its descriptors, all of which other
  threads' calls bring into the model as well.
- Buffers of wide characters (the same with another `chrsize`); wide strings.

## 8. What is left

In order of worth:

1. `pcl_select` with its remaining time, and the timeouts of a socket.
2. Reading and writing of files with partial results, with the flags of the two
   ends of `proc_pipe.c` and the streams made of them.
