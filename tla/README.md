# cpp-essence: a TLA+ development

This directory specifies the concurrent core of cpp-essence in TLA+, checks it
with TLC on small instances and proves its central theorems with TLAPS. Every
definition is translated from the source; `PROJECT.json` ("map") names, for each
definition, the file, the lines and the symbol it stands for.

## 1. The system and its parts

cpp-essence is a C++20 utility library. Most of it is stateless (conversions,
compile-time reflection, wrappers over OpenSSL, zlib and the file system). Its
own logic with state and concurrency is in the following parts.

| Part | State | Operations | Hard behaviour | What makes it correct |
| --- | --- | --- | --- | --- |
| `parallel_for` (src/thread.cpp) | atomic counter, mutex, exception pointer, futures | one call; workers; handler | workers race on the counter; several handlers throw; wrap-around | an index is handled once; the exception reaches the caller; no worker outlives the call; the call ends |
| `interruptable_timer` (src/interruptable_timer.cpp) | four flags, a pointer, two condition variables | `start`, `stop`, destructor, worker loop | lock-free stores between a waiter's test and its block; stale copy of the callback | nothing fires after `stop()`; `stop()` returns; a started timer fires |
| `delegate` (include/essence/delegate.hpp) | list of listeners, published array, tokens | `+=`, `add_listener`, token drop, `try_invoke` | the list changes while other threads walk the array | everyone subscribed is called, nobody removed is, in order |
| translator (src/globalization/translator.cpp) | pointer to an immutable translator | setters, getters, `get_text` | read-modify-store of a shared pointer; a constructor that throws | a setting is what its last setter gave it |
| `atomic_readable_buffer` (include/essence/memory) | pointer and length | `update`, `get` | two members read and written one by one | a reader stays inside the array (it does not: section 3) |
| SSE client (src/net/sse_client.cpp) | stage, two tasks, cancellation source | `connect`, `close`, callbacks | the tasks run before `connect` has stored the stage; `close` waits for both | a timeout is reported only for a connection that is not there; `close` returns |
| SSE server (src/net/sse_server.cpp) | listener, stop source, connections | `open`, `close`, `send_message`, `tick` | senders interleave on one stream; `close` swaps the stop source | what is sent is received, in order |
| cipher stream and chunk processors (src/crypto) | buffers, current processor | `init`, write, `sync`, `close` | a processor throws in the middle; init on an open stream | no byte is lost or processed twice; final only once |
| command line parser (src/cli) | options, cached values, positions | `add_option`, `parse` | bundled flags; values cached from an earlier parse | every argument is consumed once; a failed parse says so |
| stdio watcher (src/io/stdio_watcher.cpp) | descriptors, pipe, thread | `start`, `stop`, dispatch | redirection half done; `stop` from the callback | the descriptors are restored; no output is lost |
| JNI runtime (src/jni) | current JVM, per-thread environment, references, reflection cache | attach, `local_ref`, `global_ref`, `reflector` | threads attach and outlive the JVM; references leak | every reference is deleted once, on a thread that is attached |
| HTTP client (src/net/http_client.cpp) | the content size that the calls of one client share | the `commit_*` functions, `download_file` | responses, bodies and progress come on three threads; timeouts, and configurations without one (`get_default_no_timeout()`) | only whole bodies are returned; a call ends when its transfer does, or at its timeout |
| type judger and image probers (src/io/bitstream_type_judger.cpp, src/imaging) | a thread-local buffer, a stream's position | `identify`, `extract_header` | short streams, failed streams, leftovers of the last call | the format named is the content's; the header read is the image's |
| generator, span buffer | a coroutine handle; positions | iterate; seek | moved-from handles; boundary positions | values in order; positions as in the standard |
| everything else | none between calls | pure functions, bindings | — | see `PROJECT.json`, components with status `not_modelled` |

How they interact: the SSE client and server, the HTTP client, the stdio watcher
and the argument parser all report through `delegate`; the chunk processors use
`swapping_buffer`, and the cipher stream drives a chain of them; the Java
bindings hold native objects through the JNI references. `parallel_for`, the
timer and the atomic buffer have no callers inside the library.

## 2. The modules

| Module | Models | Notes |
| --- | --- | --- |
| `IndexDispenser` | what a caller of `parallel_for` is promised | abstract: no threads, counter or lock |
| `ParallelFor` | `parallel_for` | one action per atomic operation or lock section |
| `ParallelForProofs` | | theorems about `ParallelFor`, the refinement among them |
| `PeriodicTimer` | what the owner of a timer is promised | abstract: at most one armed session, one call at a time |
| `InterruptableTimer` | `interruptable_timer` | one action per load, store, notification, test and block |
| `InterruptableTimerProofs` | | theorems about `InterruptableTimer`, the refinement among them |
| `SseClient` | `sse_client` | the owner, the request task and the deadline task, statement by statement |
| `ChunkChain` | `chain_processor` over `swapping_buffer` | operators on a record; no variables |
| `CipherStream` | `crypto::ostream` and its `cipher_streambuf` | one action per call of the owner |
| `Delegate` | `delegate<R(Args...)>` | void and non-void in one module (`returns_value`) |
| `Translator` | `default_translator` | |
| `ArgParser` | `arg_parser` and the caches of its options | argument by argument, option by option |
| `DelegateParserProofs` | | theorems about `Delegate` and `ArgParser` |
| `SseServer` | `sse_server`, one `sse_connection`, and the line parser of `sse_client` | piece by piece, down to the lines the client reads |
| `SseServerProofs` | | theorems about `SseServer` |
| `StdioWatcher` | `stdio_watcher`, several over one table of descriptors | one action per call of the operating system |
| `StdioWatcherProofs` | | theorems about `StdioWatcher` |
| `JniRuntime` | `jvm`, `global_ref`, `reflector` | one action per operation of the library |
| `JniRuntimeProofs` | | theorems about `JniRuntime` |
| `HttpClient` | `http_client`, its commits and downloads | the caller, the continuations, the transfer, the progress handler |
| `ClientProofs` | | theorems about `SseClient` and `HttpClient` |
| `ImageProber` | `image_prober`, `bitstream_type_judger`, the header extractors | one action per call, one per round of an extractor's loop |
| `StreamProofs` | | theorems about `CipherStream` and `ImageProber` |
| `MCStreams` | | `CipherStream` and `ImageProber` side by side, for one run |
| other `MC*` | | the constants TLC uses |

In each module the variables after the comment "history" are not in the program:
they record what has happened, for the properties to refer to. Definitions
headed "Fault:" are not part of the specification either. Each one is an
operation with a bug somebody could plausibly write, kept to show that the
properties would notice it. What follows the properties at the end of a module is the
inductive invariant that its proofs use (section 4). `HttpClient`, `ImageProber`
and `ArgParser` name what every module has (`HttpInit`, `ProbeNext`, `ParserSpec`, ...) so
that one module of proofs can extend them and another component. Where a run's property is a conjunction of named parts
(`Answer == ParserTypeOK /\ Accepts /\ FailureReported`), each part has such a fault, and
"mutants" in `PROJECT.json` names one of them.

### ParallelFor

`caller`, `spawned`, `joined` and `thread_count` are the calling thread's
position; `current`, `mutex` and `last_exception` are the shared locals it
declares; `pc`, `id` and `exit` are each worker's. The caller rejects an empty
handler, resolves a count of zero, and either runs the loop itself
(`SequentialStep`) or spawns one future per thread. `std::async` is called with
the default policy, so a worker may be deferred and then run inside `get()`
(`RunDeferred`). A worker fetches an index (`Fetch`, which wraps as
`fetch_add` does), leaves, skips or calls the handler. A handler that throws
leads into the catch block, of which taking the lock with the store of the
exception, and the store of `end` with the unlock, are the two steps. The
handler is the environment: it returns, sets `exit`, or throws.

The comment at thread.cpp:96-101 says that the store of `end` stops the other workers
even at the largest `size_t`, because `fetch_add` returns the value before the
increment. `CancelStops` says what it claims, and `parallel_for_wrap` refutes it: that
argument covers the first worker to fetch after the store, and the second gets 0.
`CancelStopsWithRoom` says what the store does guarantee.

### InterruptableTimer

The owner's program counter walks `change_state` store by store. `stop()` and
the condition variables are modelled at the level at which notifications can be
missed: a waiter tests its predicate under the mutex, then blocks; since
`change_state` notifies without holding that mutex, its notification may fall in
between. `missed` remembers that it did. A `wait_for` may end at any time
(`Timeout`); time itself is not modelled. `EarlyWorker` says whether the worker
thread may run before the constructor has stored the flags, which the order of
the members allows.

### SseClient

Three actors share `stage_`, the source of the cancellation tokens and a
condition variable: the owner, whose `connect`, `close` and destructor all begin
with `close()`; the request task (`client_.request`, then `parse_stream`, then
`raise_error`); and the deadline task (`deadline_control`), which exists only
with a timeout. A source of tokens is named by the connection it was made for,
so that what cancels what can be seen. The network answers, refuses, delivers
lines, ends the stream (the task then polls every half second) or fails, and
does so when it likes; a canceled request may end with or without an error. The
handlers return or throw.

What the model shows beyond its properties:

- `connect()` stores `connecting` after it has started the request (line 114). An
  answer that came first is overwritten, and a live connection is then timed out.
  `TimeoutIsReal` excepts exactly that case, which `overtaken` records.
- A handler that throws faults its task. The next `close()` then throws before it
  has renewed the source and reset the task (`JoinThrows`), so every later call
  does the same, and the destructor ends the program.
- The reset in line 132 is of the wrong task. It does no harm: the deadline task
  was waited for, and `deadline_task_` is replaced or waited for again.
- The notification in line 123 may be missed, since it is sent without the mutex.
  `close()` then lasts until the deadline.

### ChunkChain and CipherStream

A stream is used by one thread; a call is one step, and what is hard is the state
a call leaves behind when a part of it throws. `CipherStream` keeps the put area,
the processor (a chain record of `ChunkChain`), the sink and the state bits.
`ProcessBuffer`, `FlushSink`, `Sync` and `FinalizeStream` take such a state and one
fault and return the state afterwards, with `ok` false if they throw, in the order
of the code: processor, sink, put area. A sink that fails throws or does not,
as its exception mask says; in the second case nobody notices (`takes` becomes
false). `put` and `flush` of the `std::ostream` turn an exception into a bad state;
an iterator that writes to the buffer, as the tests do, passes it on.

`ChunkChain` follows the two passes of the chain through the swapping buffer with
the contents of each buffer, so that a swap too few is a wrong result. OpenSSL is
external: a processor keeps what does not fill a block, whatever the cipher does to
the bytes, and adds padding when it is finalised. The two passes over the
chain are recursive functions of the number of processors done (`Updates`, `Finishes`). The base64 encoder is `strict`:
`EVP_EncodeUpdate` returns 0, which the library takes for an error, when it is given
no bytes. `MCCipherStream` names the processors after the library's.

`CloseFaithful` is not an invariant. The tests build an encryptor followed by an
encoder (`TestChain` in `MCCipherStream`); given less than a block of data, the
cipher returns nothing, the encoder refuses the empty chunk
(chunk_processor.cpp:102), and the exception leaves the bytes in the put area
although the cipher has them. Without a `flush` the destructor meets that
exception, which ends the program; with one, `close` may find that the bytes,
taken twice, fill a block, and succeeds.

### Delegate

The owner's `Add` and `DropToken` change `listeners`, and `Publish` (a separate
step, because invocations fall in between) replaces `readable`. An invocation
copies the pointer (`Load`) and walks the array. `due`, `over` and `called`
record what the invocation owed and what it did. `AllowEmpty` admits an empty
`std::function` among the subscribers; with it TLC finds `EveryoneCalled`
violated, because the array that is walked ends at the first empty function. The
run assumes that nobody subscribes one.

### Translator

A translator is a record of its three settings. A setter reads the two it does
not change, one load each, in either order (the order of evaluation of function
arguments is the compiler's), constructs, and stores.

### ArgParser

A parse is `Parse`, then one action per argument (`SkipPlain`, `RejectAssignment`,
`MatchArgument`, `EndArgument`) and per option that an argument mentions (`Apply`,
`RejectCluster`), then `Finish` or `Exit`. `current` holds the locals of
`parse_argument()`; `cached` is what each option keeps, in an object the caller
shares, from one parse to the next, and `success` the `thread_local` flag inside
`option<T>::parse_value_and_cache`, of which there is one for every thread and type of
ranges (`Ranges`); the flags of other types are assigned before they are read. What is
valid is a set of parts for a range and of whole values for any other option, so a string
may be empty or contain commas. The properties compare the outcome with what
the list means position by position (`Sound`, `Given`, `Strays`), which does not
go through the parser's steps.

What the model shows beyond its properties:

- The flag is set to false by a bad range and never set back (option.hpp:166), so no
  range of that type is accepted on that thread any more, while those of other types
  are. `Accepts` states it as it is.
- An option that is absent has in the model what an earlier parse cached
  (option.hpp:198); `ModelFaithful` is about the options that are present.
- An error is known only by a position past the end, which the loop would reach by
  itself at the end: `Fail` returns one more, and the test of line 285 relies on it.
- `--switch true` sets the switch and leaves `true` among the unmatched arguments.

### SseServer

The actors are the owner of the server (`close`, `open`), the request handler, any
threads that hold the connection (`SendMessage`, `Tick`, then `Put` for each piece
that they insert into the response), the thread that closes the connection, the
network and the client. `wire` is what is in the response and not yet read, in
tokens: a prefix, a character of text, a line feed. `disturbed` remembers the
calls that were mixed with others or cut off; `whole` the messages of the others, in
the order in which their calls ended, `ends` where in `wire` those end that the
client has still to read, and `received` what it dispatched at the ends of those it
has read. A message is followed by its place, not by its value, so that the remains
of a mixed-up one cannot stand for it.

What the model shows beyond its properties:

- Two threads that send mix their lines, and the client dispatches a message nobody
  sent. What holds is that no later message suffers (`CleanBoundary`, `Delivered`).
- A tick ends with a blank line, so the client dispatches an empty message for each
  (`sse_client.cpp` dispatches at any blank line).
- What is inserted after the buffer was closed is dropped without an error.
- `close()` swaps the stop source while a handler may be about to take a token. It
  does no harm only because the listener of the library waits for that handler
  (`ServerCloseCancels` fails without, as `CloseListenerEarly` shows).

### StdioWatcher

`fd` is the table of descriptors of the process, which all watchers change; a
handle member holds the number of a descriptor. `start()` and `stop()` take one
action per call of the operating system, so another watcher, a writer or a worker
may come between. `MayCall` is the discipline of the callers: watchers of one
descriptor are stopped in the reverse order of their starts, and a failed start is
stopped before the descriptor is used again. `stack` records, for each descriptor,
which watchers are on. `Write` is the program's own output; it blocks while the
pipe is full.

Outside the model, and a hazard to callers: a `dup()` that fails (-1) or yields
descriptor 0 makes `origin_` an empty handle, so the descriptor is never restored
and `stop()` waits for ever; a thread that cannot be created; a handler that calls
`stop()`, or that writes to the descriptor it watches while the pipe is full;
watchers of one descriptor stopped out of order; child processes, which inherit
the write end and so keep the pipe open.

### JniRuntime

A slot is a C++ object of class `global_ref`. `live` is what the VM holds, `given`
what `detach()` has released to the caller. Every operation begins with
`get_env()`, which `GetEnv` models: asked once per thread, attaching if needed, and
remembered. `ThreadExit` is the handler that frees the environment.
`local_ref` has the same text as `global_ref` and is covered by it.

What the model shows beyond its properties:

- Assigning to a filled reference leaks what it held, and adding a class under the
  same key again, too; destroying a reference on a thread without an environment
  leaks it. `NoLeak` holds as long as none of these happens (`clean`).
- `get_env()` remembers a failure to attach for the rest of the thread's life.
- A class, a field and a method share one space of keys, and coincide at 0.
  `src/port/jni/entry.cpp` gives a field the key 0, which replaces the class of key 0;
  `get_class` of it throws from then on. `ClassKept` excepts that class.

Not in the model: static references of the Java port (entry.hpp:32) that are
destroyed after the singleton of `jvm`; the entry that `get_jclass` keeps a reference
to after `clear_entries()`; a foreign detach, which leaves a stale environment; two
threads inside the reflector's map at once.

### HttpClient

`Send` is the call up to `request()`, `HandleHeaders` and `HandleBody` the two
continuations of `extract_body`, `Progress` the handler set by
`set_progress_handlers`. `size` is the content size: one cell for all the commits of
a client, one of its own for a download. Its value is the call whose response
declared it, which is what the properties need. A transfer may be cut off in two ways:
the connection is lost (`Lose`), or the timeout of the configuration expires (`Expire`),
which only the calls in `Timed` have. `http_client_config::no_timeout`
(http_client_config.hpp:38, used by `get_default_no_timeout()`) is a timeout of 2^32 - 1
seconds, which the model takes to be none.

What the model shows beyond its properties:

- The commits of a client share the content size, and a response without a length
  leaves the last one: a report of progress can be measured by another response
  (`SizeReported` says which). The size of an upload is never stored.
- Without a timeout a silent server leaves `commit_*` and `download_file` waiting.
  `CallEnds` therefore promises a call outside `Timed` its end only when the transfer has
  ended or the response was refused.
- After a status that is refused, `download_file` returns, with an exception, while
  its progress handler, which refers to its locals, may still be called
  (`LateOnlyRefused`: in no other case).

### ImageProber

A call is `ProbeMemory`, one step, or `ProbeStream`, which judges a stream; each round
of the extractor's search in the stream is an action of its own (`Extract`, or `Spin`
when the stream has failed). `kept` is the
`thread_local` buffer of `identify`, which a shorter stream fills only in part. A
format is described by the bytes it begins and ends with, its signature and where
its header lies; `MCImageProber` gives four in small, one of them with an
extractor the caller has registered.

What the model shows beyond its properties:

- A stream that is in a failed state when its format has been recognised, because
  it was never opened or is too short for the skip, makes the extractor search for
  ever. `ExtractionEnds` is about streams that can be read to their end.
- Extractors registered by the caller are judged but never used.
- Formats with equally many magic bytes are confused: the judger looks the bytes it cut
  out at the sizes of one up among the keys of all, and finds another's. `Identified`
  says so (`SameSize`, `Spells`); `png` and `extra` of `MCImageProber` are two such formats.
  One without magic bytes is never named: the search begins at the first key above zero.
- Of a stream shorter than the longest leading signature the end of the leading part is
  what an earlier stream left there. The format named then begins with the stream's own
  bytes, as far as they go, and need not have anything else in common with it
  (`NamedByShort`): a stream of one byte may be named after the one before.
- Of a stream the extractor starts where the judger stopped, after the leading bytes
  it looked at, so the fixed offset of a BMP header counts from there and the header
  of a stream is missed. In memory it is found.
- Strides of the size of the signature do not overlap: a signature at another
  offset is not seen. The check of the memory's size leaves the signature out.
- A stream shorter than both longest signatures together is judged as if zeros followed
  it (`Content`), so a short JFIF is not named.

## 3. The runs

| Run | Expected | What it shows |
| --- | --- | --- |
| `parallel_for` | pass | up to three workers; empty, reversed, one-, two- and three-index ranges |
| `parallel_for_wrap` | violation of `CancelStops` | a range that ends at the largest `size_t`: after an exception its indices are handed out again |
| `interruptable_timer` | pass | two `start()` calls, any number of `stop()` calls, and the destructor |
| `sse_client` | pass | up to four calls, with and without a deadline, handlers that throw, a network that may fall silent |
| `sse_server` | pass | two sending threads, ticks, loss, `close` of the connection and of the server at any moment |
| `stdio_watcher` | pass | two watchers, on one descriptor or two, with `start()` failing half-way |
| `arg_parser` | pass | two parses of every short list of arguments, on two threads, with options added in between: scalars, a string and ranges of two types |
| `jni_runtime` | pass | a Java thread and a native one over references, entries and the reflection cache |
| `http_client` | pass | two commits of one client and a download at once, with refused responses and cut-off bodies; the commits have a timeout, the download has none |
| `streams` | pass | `CipherStream`: each kind of processor, chains of two and three, any order of calls, faults and retries. `ImageProber`: every content of up to six bytes, in memory, a file or another stream, one call after another |
| `delegate` | pass | two invoking threads, three subscriptions |
| `translator_lost_update` | violation of `SettersKept` | two threads, two settings: one is undone |

Bounds, and why they are enough:

- `ParallelFor`: `SizeMax = 6`, bounds in {0, 1, 3}, `MaxThreads = 3`. Three
  workers are the least for a cancellation to race with one worker that holds an
  index and one that is about to fetch. Three workers can push the counter three
  past `end`, so 6 keeps it from wrapping. `HardwareConcurrency = {2}`: the
  platform reports at least two cores (zero would start no worker at all).
  `parallel_for_wrap` has `SizeMax = 3` and bounds in {0, 3}, so that a range ends at
  the largest `size_t`; three workers are the least for two to fetch after the third
  has stored `end`.
- `InterruptableTimer`: `MaxStarts = 2`, the least for a stale callback of one
  session to meet the next. `stop()` is not bounded.
- `SseClient`: `MaxCalls = 4`, which is two connections, a `close()` and the
  destructor: enough for the tasks of one connection to meet the next, and for
  calls after one that threw (a call that throws does not count).
- `SseServer`: two threads are the least to mix their pieces; each has its
  messages to send once, one thread also ticks (`MaxTicks = 1`), and `MaxCloses = 2` lets
  the stop source be renewed, taken, and renewed again.
- `StdioWatcher`: two watchers and `MaxStarts = 2`, so that one is nested in the other, or
  restarted; pipes of two bytes and three bytes written, so that a pipe is full;
  reads of one byte, so that a reader is in the middle; nine descriptors, which two
  watchers of three each and the standard ones just fill.
- `ArgParser`: `MaxParses = 2`, the least for what a parse leaves behind to meet the
  next; all lists of up to two arguments and some of three: a value that an argument
  takes from the next one, and one that comes after it. Two types of ranges, whose
  options share a letter, so that the flag of one is off and that of the other on. The
  threads are interchangeable.
- `JniRuntime`: one Java and one native thread (each can end and be replaced), two
  slots, keys 0 and 1, `MaxRef = 4`, so that the VM runs out of references, `MaxEntry = 1`.
- `HttpClient`: two commits are the least to share a size, one download, bodies of
  two pieces, so that a transfer is cut off in the middle. `Timed` is the commits, so that
  `CallEnds` is asked with a timeout and without.
- `ImageProber`: `MaxLength = 6` over three byte values: room for a signature and a
  header behind the longest leading bytes, and as short as nothing. Four formats: `png`
  and `extra` have equally many magic bytes, cut differently, so that they are confused;
  `bmp` begins as `png` does, and `extra` as `jfif`.
- `Delegate`: `MaxListeners = 3` and two invokers: a listener before and after
  the one that is removed, an addition while both threads walk different arrays.
  The invokers are interchangeable (symmetry).
- `CipherStream`: blocks of 2 and 3, a put area of 3 and 8 bytes: no two of the
  sizes agree, so chunks fill blocks partly, exactly and more than once, and an
  encryptor can return nothing. A chain of three is the least with a processor in
  the middle. `MaxFailures = 2` allows a retry after a failure.
- `streams`: the two components share nothing, so it is enough that one of them moves
  while the other is in its initial state (`MCStreams`).
- `Translator`: two threads and two values. It has no passing run: what it promises
  is what the run refutes.

`CHECK_DEADLOCK FALSE` stands in the runs whose system really stops: a finished
call, a destroyed timer, a delegate out of listeners, a closed connection, a body
that was delivered, an exhausted bound. `arg_parser` and `jni_runtime` check for
deadlock.

### What the code does otherwise

`translator_lost_update` and `parallel_for_wrap` refute what a comment in the code says. In
other places the code does not do what a reader expects; the definition that says so
is in its module, and this is how TLC refutes it. The passing runs keep away from these
cases.

| Where | What happens | How to see it |
| --- | --- | --- |
| interruptable_timer.cpp:85-116 | the deferral is skipped when the worker wakes between two stores of `start()` | `DeferralHonoured` |
| interruptable_timer.cpp:55, 134-137 | a worker that runs before the flags are initialised meets their initialisation; a callback runs after `stop()` | `StopMeansStopped` with `EarlyWorker = TRUE` |
| delegate.hpp:126, 149 | without a subscriber the documented exception is not the one that is thrown | `NoSubscriberReported` |
| chunk_processor.cpp:102 | after less than a block of data and a flush, bytes are delivered twice | `CloseFaithful` with `Chains <- TestChain`, `ProcessorsFail` and `SinkFails` false |
| atomic_readable_buffer.hpp:41, 87/89, 97/99 | `update` stores, and `get` loads, the length and the array one after the other: a reader can get an array with the length of another | no module |

### Fairness

`ParallelFor` assumes that every thread is scheduled and that a handler call
ends (weak fairness per thread). The mutex of the catch block needs no more: it
is held for one step only.

`InterruptableTimer` assumes weak fairness of the two threads, that a callback
returns, and that spurious wakeups come to an end. `SF_vars(StopReturns)` is
stronger: a worker that found nothing to do goes round its loop and raises
`idle_running_` for a part of each round only (lines 103 and 127 overwrite the
`idle_pending_` that would park it), so a waiting `stop()` that happened to test
in the wrong part each time would wait for ever. A scheduler with any jitter does
not do that; without the assumption TLC shows the livelock. `PeriodsElapse` (a
`wait_for` ends by itself) is a premise of `StopComesBack` and `StartFires`, not
of `StopInterrupts`. The owner never has to call anything.

`SseClient` assumes that the tasks and the owner are scheduled, that handlers
return or throw, that a `wait_for` ends by itself, that spurious wakeups come to
an end, and that a canceled request ends (`RequestStep` is fair where the task
waits for the network only once its token is canceled). Nothing makes the network
answer.

`SseServer` assumes that calls that have begun go on, and that the network
delivers or fails. Nobody has to send, close or lose anything.

`StdioWatcher` assumes weak fairness of each watcher's owner within a call and of
its worker, that is, that handlers return. `NobodyStuck` needs both.

`HttpClient` assumes that the library runs the continuations on its pool of threads, and
that a timeout which was set expires while the transfer is not over. Nobody has to
send, the server need not answer, and a connection need not be lost: a call without a
timeout may wait for ever. `ImageProber` assumes that the thread in an extractor's loop is
scheduled.

## 4. What is proved

`tlapm` checks every proof for all values of the constants that meet the `ASSUME`s
of the modules; what a theorem assumes beyond them is in its statement and here. The
invariants named below are at the end of each module.

`ParallelForProofs`, for any range, number of threads and word size:

- `TypeCorrect`, then `SafeInvariant`: the conjunction `SafeInv` is inductive. It
  says which workers exist at each position of the caller (`ControlInv`), that the
  mutex is held by exactly the worker in the catch block (`MutexInv`), that a
  thrown exception is on its way to `last_exception` or in it (`ExceptionInv`),
  and how far the counter can be beyond the bounds (`CounterInv`, by counting the
  workers whose last fetch went past the range). From it follow
  `ExceptionsReachTheCaller` and `NoWorkerOutlivesTheCall`, with no assumption on
  wrapping.
- `CancellationStopsWithRoom` needs none either: it is about every range, those that end at
  the largest `size_t` included, and every call for whose workers the word has room to take
  one value each past the range (`ResetRoom`), which two workers always have. `ResetInv`,
  a part of `SafeInv`, says that after the store of `end` the counter is past it by
  at most one for each worker that took a value there, or that all workers are done. Without the
  room the statement is false: `parallel_for_wrap`.
- `IndicesDispensedOnce` assumes `NoWrap`: every bound plus
  the number of threads fits in the word. `CounterInv` then shows that no
  `fetch_add` wraps (`NeverWraps`), and `IInv` adds that what the counter has not
  reached was not handed out, and that workers hold different indices.
- `ParallelForImplementsIndexDispenser` assumes `NoWrap` and `CoresKnown`, that
  `hardware_concurrency()` is not zero: a call that asks for as many threads as there
  are cores would otherwise start no worker and handle nothing. `DispenserInv` adds to
  `IInv` that a handler that runs has an index of its own and has not asked to exit
  (`BusyInv`), that a worker leaves by itself only when the counter is past the range
  and that there is a worker (`ExhaustedInv`: so a call that returns has accounted for
  every index), and what the caller knows before it raises (`CallInv`). Each step is
  then one of the dispenser's or a stutter; most are stutters.

`InterruptableTimerProofs`, for any number of `start()` calls:

- `TypeCorrect`, also for a worker that starts too early.
- `StoppedIsStopped` and `TimerImplementsPeriodicTimer` assume `~EarlyWorker`
  (section 3 says why). `StopMeansStopped` alone is not inductive:
  `BusyInv` adds that the worker clears `idle_running_` before it reads the
  pointer and until it has let go of it, and `PointerInv` that the pointer leads
  to the armed session and to none while one is being ended.

`ClientProofs`, about `SseClient`, for any number of calls:

- `TypeCorrect`, `ConnectionsAreSeparate`, `ClosedIsSilent`. `Separate` and
  `SilentAfterClose` are not inductive: `JoinedInv` adds where in `close()` each
  task is known to be over, and `SourceInv` that the token of a running task is
  the source that will be canceled, that no later source is canceled already,
  and that the source is renewed before a request takes its token.
- `TimeoutsAreReal`, from `StageInv`: a stage that stays `connecting` belongs to a
  request that was not answered, or was overtaken.

`ClientProofs`, about `HttpClient`, for any number of commits and downloads and bodies of any length:

- `ReportedSizes` and `CallsEndWell`. `ProgressInv` relates where a call is to where
  its transfer is; without it a body could be returned before it is whole. `CellInv` says
  that what a content-size cell holds was declared by a call whose cell it is, and
  whose response was accepted. `CellAssumption` (downloads have a cell of their own)
  is how `download_file` declares its local.

`JniRuntimeProofs`, for any number of threads, references, entries and keys:

- `HeldIsValid`, `NothingLeaks`, `AttachmentBalanced`. `SoleOwner` counts the owners of
  a reference, which is awkward to reason about; `SlotsApart`, `CacheApart`,
  `EntriesApart` and `KindsApart` say the same by kinds of owners, and `AllOwned` is
  `NoLeak` by kinds. `EnvInv` adds that no environment is asked for before there is a
  JVM and that only native threads are attached by the library.

`DelegateParserProofs`, about `Delegate`, for any number of invokers and subscriptions:

- `CallsOnlySubscribers`; `NobodyMissed` assumes `~AllowEmpty`, since the array that is
  walked ends at an empty function. `ListInv` says that ids are given in order and
  never again, `ArrayInv` how far the published array may lag behind the list, and
  `WalkInv` that an invocation has called the array it loaded up to where it is. The
  owner's removal sits between the list and the publication, which is why neither
  property is inductive.

`DelegateParserProofs`, about `ArgParser`, for any options of any types (scalars, strings,
any number of types of ranges), any lists of arguments and any number of threads and parses:

- `AnswersAreRight` (`Answer`) and `ValuesAreRight` (`Values`), the two invariants of the
  run. They compare a parse that is over with what the list means position by
  position; the inductive invariant `ParserIInv` says what they amount to half-way.
  `Known` is what is known of an option when arguments 1 to `index` have been seen, and
  then some of the options of the next one (`Applied`): it is present if one of them
  mentions it, its value is the one the latest of them gives, and its cache agrees.
  `LocalsInv` says that each option of a cluster that is still to come will get the
  value that its place gives it, although the locals change with every option that is
  applied. `FailedInv` says that a position past the end stands for an error and that
  there was one: an unsound argument, or a range on a thread whose flag for its type is off.
  That options with one bound name are the same option (`ShapeInv`) is why
  no option overwrites the value of another.
- `Matches` and `Strays` pick elements of a list, which is defined by recursion, and the
  prefix of a range that is read is the longest without a bad part. The induction they need
  is built from `WFMin` as in `StreamProofs` (see there).
- `ListsAssumption` says what an argument is, and `PartAssumption` that an absent
  value is no value.

`SseServerProofs`, for any number of sending threads and any texts:

- `ClosingServerCancels`: `ServerInv` follows the source from its stop to its
  renewal, and ties the token of a handler to the listener's being open.
- `MixingEnds` (`CleanBoundary`, a part of `Delivery`): however the pieces of several
  senders are mixed, the response ends with a blank line whenever no call is
  running, so that the next message begins a new one. `CallsInv` says that
  what is left of a call ends with a blank line, and `LineEnded` covers the senders that
  have one piece left. `OutboxAssumption` is that the messages are texts.
- `ClosedIsQuiet` (`ClosedQuiet`, a part of `Closing`), from `ConnectionInv`.
- `MessagesArrive` (`Delivery`). What `Delivered` compares at the end is followed all
  the way by positions: `InPlace` says that the first pieces of a message were put into the
  response, where each of them ends, and that either the client has read some of them
  and has put together just that part of the message (`HasRead`), or that a blank line
  comes before them, so that the client will be at the beginning of a message when it
  gets there. `AloneInv` says so of the one call that is undisturbed, as far as it has
  put, and `ArrivalInv` of every message that was sent and is still to be read.
  `BeginsInPlace` needs `CleanBoundary`, which is how a mixed-up message is kept from
  spoiling a later one. `OneMoreInPlace` is the step of the sender; `ReadInPlace`, from
  `NextLine`, that of the client: the first line feed of the response ends the
  next line of the message and nothing else, which is where `LineAssumption` is used
  (the elements of the data and the identifier contain no line feed; the code puts them
  as they are).

`StdioWatcherProofs`, for any number of watchers and starts:

- `DescriptorsRestored`. `Restored` speaks of states of rest only and says nothing of
  the way there. `StageInv` says which handles a watcher has at each step of its
  owner; `TableInv` that a descriptor beyond the standard ones is somebody's handle,
  that nobody keeps the same one, and that a standard one refers to the watcher on
  top of its stack, or to the device; `ChainInv` that what a watcher that is on has
  kept is the watcher below it, or the device, and what one that is not on has kept is
  what the descriptor refers to. `DisciplineInv` is what the callers' discipline
  amounts to: of the watchers of one descriptor, at most one is in a call or half
  started. Without the discipline the property is false: a watcher that is stopped
  before one above it puts the device back under the other.
- `NoByteLost`. `Conserved` is the heart of `NothingLost`: what a watcher handled, has
  in hand and has in its pipe is what was addressed to it, in order. It is not
  inductive: that bytes go where they are addressed is `TableInv` of the proof above,
  and that none is left behind is `WorkerInv`. A watcher that is on has a write end and
  a worker, or gets one in the next step; one without a worker, or whose worker ended,
  has an empty pipe; and once a worker ended no handle writes to its pipe any more.

`StreamProofs`, about `CipherStream`, for chains of any length, processors of any block
sizes (strict ones and failing ones among them), any put area and any calls:

- `NothingLostOnTheWay` (`InOrder`) and `CloseDelivers` (`Complete`). The steps of this
  model are loops over bytes and over processors, so the proofs are inductions over
  data. `Minimum` takes them from the well-foundedness of the natural numbers
  (`WFMin`): a set of numbers without a least one is empty. `Induction`, `Recursion` (a
  function defined by recursion exists) and `Iteration` (what each step keeps holds at
  the end) follow, once for all loops. Then, from the inside out: what one processor
  keeps and gives away is what it was given (with its padding, when finalised); the loop
  invariants of the chain, `Carried` for an update and `Drained` for the end, say that
  what the processors passed so far have kept or given to the next, through the buffer
  that the swaps have made its input, is what they had and were given, in order, and
  that the processors to come are as they were; and each function of the stream, whatever part of it fails,
  leaves sink, processors and put area with what was there before. The inductive
  invariant is `IInv`: `StreamInv` adds to the properties that every processor keeps
  less than a block, and that an open stream has a processor.

`StreamProofs`, about `ImageProber`, for any formats, any bytes and any number of calls:

- `AnswersAreInContent` (`Answers`, the invariant of the run). `Largest` (a finite set
  of numbers has a maximum) makes the lengths of the magic bytes bounds on what is
  read. `FittingIs` says when a format is found: when what its sizes cut of a key with
  equally many bytes is at the ends of what is judged. For a stream that is the thread's
  buffer: `KeptIs` says that it has the ends of the content, padded with zeros, if the stream
  is as long as the longest leading signature, so that nothing of an earlier call is left;
  and otherwise the stream's own bytes in front and zeros at the end. `NamedIs` and
  `NamedShort` draw the two conclusions. `HeaderInStream` needs `ExtractInv`:
  an extractor runs with a format, and starts behind the leading bytes.

Only model-checked:

- the liveness properties (`Terminates`, `StopComesBack`, `StopInterrupts`,
  `StartFires`, `CloseReturns`, `UnansweredReported`, `LossNoticed`, `NobodyStuck`,
  `CallEnds`, `ExtractionEnds`), which are beyond the prover;
- the actions of `Translator`, whose property does not hold.

## 5. What is not modelled

- Memory orders: every atomic access is taken to be sequentially consistent. The
  code uses acquire and release; the timer's flags are the place where the
  difference could matter.
- `interruptable_timer`: `mutex_timer_` (the worker is its only user), several
  owners, `stop()` from inside the callback (it waits for itself), a callback that
  throws (it ends the program), a moved-from timer.
- `parallel_for`: a `std::async` that throws; `start` and `end` are not related.
- `delegate`: the values of arguments and results; tokens dropped on another
  thread than the owner's, which `listeners_` does not allow.
- `sse_client`: the fields of a message, handlers that call back into the client
  (`close()` would wait for the task it runs on), two threads that call it.
- `crypto::ostream`: the sizes of the output buffers, a fault in two parts of one
  call, and the double use of a processor by `symmetric_cipher_provider`, whose calls
  start with `init()`.
- `translator`: the text of a language file.
- `arg_parser`: the texts of help and errors, and the conversion of values, which is the
  set of the valid ones.
- `sse_server`: several connections (they share the stop source only), the OPTIONS request.
- `reflector` with two threads in one call, the array iterators and the conversions of
  values of the JNI wrappers; the release of a Java object's native handle while
  another thread calls through it.
- `http_client`: headers, bodies, the typed API over it.
- `image_prober`: the numbers of a header.
- `atomic_readable_buffer`: nothing in the repository uses it, and what it promises does
  not hold.
- The vendored `json.hpp`, about half of the repository's lines, and compile-time
  reflection, which leaves no state at run time.
- The other components `PROJECT.json` lists as `not_modelled`, each with its reason.

## 6. Plan

The most important first:

1. Pure algorithms as operators against reference definitions: the seek of `spanbuf`,
   `rational`, `rect`, `numeric_conversion`, the offsets of `nonuniform_grid_buffer`.
2. `generator` over its coroutine handle; two threads on one
   `symmetric_cipher_provider`; the native handles of the Java bindings.
