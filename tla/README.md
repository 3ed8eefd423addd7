# A TLA+ model of graftcp

graftcp redirects the TCP connections of a program to a proxy without the
program's help. The tracer, `graftcp` (C), runs the program under `ptrace(2)`
and rewrites the address of every `connect(2)` it cares about to the address of
`graftcp-local` (Go), after writing the original destination to a FIFO.
`graftcp-local` accepts the connection, works out which FIFO record belongs to
it, dials the destination through a SOCKS5 or HTTP proxy, and relays.

The two programs share nothing but the FIFO and `/proc`. The tracer is
single-threaded, but it deals with processes and threads that run, fork and die
whenever they like, and it has to guess from a wait status what it is looking
at. `graftcp-local` is a crowd of goroutines that must pair records and
connections that arrive separately. That is where the difficulty lies, and what
the modules are about.

## Inventory

| Component | State it keeps | Operations | What makes it correct |
|---|---|---|---|
| `SOCKET_INFO_TAB` (util.c, uthash.h) | the TCP sockets seen so far, filed under `(fd << 31) + pid` | `add_`, `del_`, `find_socket_info`, in-place update of `conn_ti` | a descriptor of a thread finds its own entry, and only TCP sockets have one |
| uthash (uthash.h, third-party) | buckets with chains, a list of all items | `HASH_ADD_INT`, `HASH_FIND_INT`, `HASH_DEL`, expansion | an item that was added is found until it is deleted; chains stay short |
| `PROC_INFO_TAB` (util.c) | per thread: `FLAG_STARTUP`, `FLAG_INSYSCALL`, the current system call | `alloc_proc_info`, `find_proc_info` | the flag agrees with the kernel |
| tracer loop and handlers (main.c) | the two tables, the last `wait(2)` result | `do_trace`, `trace_syscall_entering/exiting`, `socket_`, `connect_`, `close_`, `clone_pre_handle`, `socket_exiting_handle` | every TCP connect is redirected and announced, nothing else is; no tracee escapes, none is left stopped; the tracer ends last |
| command line and address filter (main.c, string-set.c) | blacklist and whitelist, two chained hash tables | the option loop, `load_ip_file`, `is_ignore`, the localhost rule of `main` | nothing is left alone but what the usage text says, and all that the files list, whatever the order of the options |
| FIFO (main.c:138, local.go:233) | unread records | blocking `write(2)`, `ReadLine` | no record is lost, the tracer does not block for ever |
| rendezvous (local.go, util.go, proc_sync_map.go) | `pidAddrMap`, one lookup per connection | `UpdateProcessAddrInfo`, `StorePidAddr`, `getPidByAddr`, `RangePidAddr`, `DeletePidAddr`, `getInodeByAddrs`, `hasIncludeInode` | a connection gets the record of its own `connect(2)`; none is lost; no record stays behind |
| proxy selection (local.go) | `selectMode` and three dialers | `NewLocal`, `SetSelectMode`, `proxySelector`, fallback in `HandleConn` | the mode is respected |
| relay (local.go:215-231) | two goroutines per connection | `pipe` | all bytes get through, both ends are closed, no goroutine stays behind |
| HTTP dialer (http_proxy.go) | none between calls | `Dial` | a connection is handed out or closed |
| configuration (config.go, main.go) | `Cfg`, `App` | `setCfg`, `parseLine`, `ParseConfigFile`, `overrideConfig` | flags win over the file |
| service, logging, vendored packages | - | - | third-party, not modelled |

How they interact: the tracer writes a FIFO record in `connect_pre_handle`,
*before* the kernel runs the redirected `connect(2)`. The record and the
connection travel separately. `close_pre_handle` keeps a connection open for
`MIN_CLOSE_MSEC` so that `graftcp-local` can still find the socket's inode in
`/proc`. `graftcp-local` finds the record by asking, for each pid it has a
record of, whether that pid has the inode open.

Hard behaviours: kills between `wait(2)` and the handler; stops that look like
system call stops and are not; pids and table keys that mean something else by
the time they are used; a full FIFO or a dead reader; records stored in any
order; a lookup that times out while the record is on its way; two connections
of one process looked up at once. `PROJECT.json` lists them with their lines
under "hazards".

## Modules

| Module | Models | Of |
|---|---|---|
| `SocketTable` | keys and operations of `SOCKET_INFO_TAB` | util.c, main.c |
| `Uthash` | the hash table behind it, with bucket expansion | uthash.h |
| `Multimap` | abstract: what util.c takes uthash for | |
| `Filter` | which destinations are left alone, as sets | main.c |
| `StrSet`, `IpFilter` | the hash sets, the option loop and the address files | string-set.c, main.c |
| `Ptrace` | tracees and kernel: the environment (external) | `ptrace(2)`, `wait(2)` as main.c uses them |
| `Tracer` | the tracer, composed with `Ptrace`, `SocketTable`, `Filter` | main.c, util.c |
| `Local` | how `graftcp-local` pairs records and connections | local.go, util.go, proc_sync_map.go |
| `Rendezvous` | abstract: where a connection must be sent | |
| `Session` | `HandleConn` after the lookup: proxy selection, dialing, relay | local.go, http_proxy.go |
| `Graft` | `Tracer` and `Local` over one FIFO and one set of processes | |
| `MCTracer`, `MCLocal`, `MCSession`, `MCUthash`, `MCIpFilter`, `MCGraft` | constants for TLC | |
| `SequenceLemmas` | facts about sequences that several proofs need | |
| `TracerProofs`, `SocketProofs` | theorems about `Tracer` | |
| `LocalProofs` | theorems about `Local` | |
| `SessionProofs` | theorems about `Session` | |
| `GraftProofs` | theorems about `Graft`, from those about `Tracer` | |
| `FilterProofs` | theorems about `StrSet` and `IpFilter` | |
| `UthashProofs` | theorems about `Uthash` | |

Three refinements tie the levels together. `Uthash` implements `Multimap`
(`IsMultimap`: the mapping forgets buckets and chains), `Local` implements
`Rendezvous` (`IsRendezvous`: it forgets the FIFO, the map and the lookup), and so
does `Graft` (`EndToEnd`), with the destination taken from the application's own
`connect(2)` instead of the record. `IpFilter` shows that the sets `Filter` gives
the tracer are what start-up really builds (`FilterAsSets`).

Operators have the names of the functions they model where there is one.
Operators whose name has a suffix such as `_NoSleep` are mutants: plausible
mistakes, each placed before the definition it would replace. Every property of
a passing run is violated when its mutant takes the place of the original
(`PROJECT.json`, "mutants").

### SocketTable

A key is `(fd << 31) + pid`, 64 bits wide, but `HASH_FIND_INT` and
`HASH_ADD_INT` hash and compare `sizeof(int)` bytes of it. `Key` is the sum
modulo 2^32; the constant `HighBit` stands for 2^31 (4 in the runs, so that the
table has 8 keys; pids stay below it). uthash prepends to a bucket and finds the
first match, and util.c only deletes what it has just found, so the table is
one stack per key. `Uthash` says how far this goes: until the first expansion,
which reverses the chains. `TableGrows` says whether `add_socket_info` may come to
one (`Expansions`). It is `TRUE` in `MCTracerNoisy`; `CloseDelayed` needs it to be
`FALSE`, and `Steady` says so in the theorems.

### Uthash

A table is a function from bucket numbers to chains with their `count` and
`expand_mult`, as in the code, with `ideal_chain_maxlen`, `ineff_expands` and
`noexpand`. A chain is a sequence of handles, so the links of its two directions
cannot disagree; the hash values are given (`Hash`), the mask is modelled.
`Rehashed` is the inner loop of `HASH_EXPAND_BUCKETS` as one new bucket sees it: all
its items come from one old bucket, in that bucket's order, and each is prepended.
`NonIdeal` is what the loop has counted at its end. The run has two initial buckets and a threshold of three instead of 32 and ten, keys
that collide for ever (0 and 4 up to four buckets) and keys that an expansion
separates, and five items: tables expand twice, give up (`noexpand`) and go when
empty. `Fsck` is uthash's own debugging check. `NewestFirst` is what
`SocketTable` relies on; it stops at the first expansion, which takes the items
of a chain from the front and prepends them to the new chain. With the build's
threshold that needs ten entries in one bucket. `MaxBuckets` is a bound the code
does not have: filling and emptying two chains in turn doubles the table every
time, because an expansion counts as effective when the other chain is short.

### Filter, StrSet, IpFilter

`IpFilter` goes through `main()` up to `init()`: one step per option, per line of a
file, for the local addresses and for opening the FIFO. A line is its text and
whether a newline follows; its length and its text without the last character
are given. `FilterRight` compares `is_ignore` on the resulting tables with the usage
text, for command lines that repeat and reorder options and for addresses that
share a bucket: only what a `-b` file lists, what no `-w` file lists and local
addresses are left alone; of these, all that the files say. Of the local addresses
it asks for the two that `main` knows, `LOCAL_ADDR` as it is written and `0.0.0.0`.
The documented rule, "Connecting to local is not changed by default" (main.c:368),
is `LocalIgnored`, for the addresses `LocalIps` of the host; it fails. `FilterAsSets`
compares the tables with the sets of `Filter`. `FilterRight` and `FilterAsSets` hold
for files whose lines end in a newline and have at least six characters and the
newline; see the table of changes below. `StrSet` includes `str_set_remove` and `str_set_length`,
which the program never calls.

### Ptrace

`ts[p]` is where a tracee is: in its own code (`user`), in a system call
(`kernel`, `finish` after a `PTRACE_EVENT` stop), in one of the reported stops,
dead, or running untraced (`escaped`). `held` and `heldentry` are stops that have
been reported and that nobody has ended. A thread leaves by `exit(2)`, a group by
`exit_group(2)`; the leader of a group is reported dead after its threads
(`Waitable`). When the tracer has ended, the kernel lets every stopped tracee go
(`Detach`). `regs`, `rax` and `buf` are the arguments, the result
register and the one `sockaddr` that `connect(2)` points to; descriptors belong
to the thread group. `want`, `noted` and `outcome` are history variables: what
the application asked for, what was announced meanwhile, and what the kernel saw.

What the application does is a parameter: the kinds of socket, the signals
(`stop` leads into group-stop, `trap` is a `SIGTRAP` of the application's own),
the clone flags, kills, reused pids, retries from the same buffer. A property is
checked in the environment in which it is meant to hold, and the violation runs
change one parameter. `MaxCalls` bounds the system calls and signals of all
tracees together, exits apart.

Left out: `clone3(2)` (the tracer does not know it), `dup(2)`, passing
descriptors over a socket, `execve(2)` by a thread that is not the leader, the
return of `execve(2)` with an error, tracing options that do not reach a child
before its first stop.

### Tracer

One pass of `do_trace`'s loop is two steps: `Wait` (the report and the
`proc_info`) and one of the `Handle` actions (the rest of the body). Between
them the tracee can be killed, which is what `Dead` says; then every `ptrace`
call of the handler fails, and the handler does what the code does: `-1` for the
system call number (asserts are compiled out by `-DNDEBUG`), `exit(0)` after
`get_retval`, nothing in `PTRACE_SYSCALL`. A kill between two `ptrace` calls of
one handler is not distinguished from a kill before or after it.

`connect_pre_handle` is disabled while the FIFO is full and `close_pre_handle`
while the entry it found is fresh: both block the whole tracer. `Elapse` is
`MIN_CLOSE_MSEC` passing for everything redirected so far. `BrokenPipe` is
SIGPIPE (or a failed `write(2)` if SIGPIPE is ignored) when `graftcp-local` is
gone; the sockaddr has been overwritten by then (main.c:130), and
`HandleBrokenPipe` leaves it so. `ClockSet` is a clock that is set, which makes every connection look old:
`delta_ms` is unsigned, so this is so in both directions.

The tracees outlive the tracer: after `pc = "exited"` they are detached and go on by
themselves, connect and close. `PhaseInSync` and `NoEscape` are about the time
before. `Intercepted`, `CloseDelayed` and `RedirectAnnounced` are about all of it;
the last one has one exception, `Abandoned`: the connect in whose handler SIGPIPE
ended the tracer is redirected and was never announced.

### Local

Each connection goes through the steps of `getPidByAddr`, each record from the
FIFO to a goroutine (`storing`) and into `pidAddrMap`. `MayOverlap` says which threads may connect
while a lookup of another is under way, `InTime` whether a record is stored
before the lookup gives up (the 3 x 20 ms of `getPidByAddr`) and `HeldOpen` whether
the application keeps its descriptor for as long. `Group` says who shares
descriptors: threads of a process, or processes that inherited them. A scan of
the map is one step. The code reads an entry before it looks at `/proc`, but
descriptors only go away meanwhile, so the pair could have been seen together; a
scan that misses an entry stored behind its back fails once more in the code than
in the model, and counts as a late record (`InTime = FALSE`).

### Session

One `HandleConn` once the destination is known. `conf` is any mode and any pair of
proxy addresses that `NewLocal` accepts; an unknown mode is `auto`, an empty
address resolves and makes a dialer that never gets through, both as in the code.
`held` is the set of connections open in `graftcp-local`, which every error path
has to empty. The HTTP dialer takes three steps (connect, request, response),
each of which can fail; the SOCKS5 dialer is vendored and one step, which may never
come. `Stall` makes an end stop reading or the proxy being dialled stop answering,
at any moment and for good: `DialBlocks` and `WriteBlocks` are the two places where
the code then waits without a timeout. A stream is a
number of chunks: `sent` by an end, read (`pos`), and written to the other (`got`).
`got` says what has been handed to the kernel; that a `Close` with unread data
resets the connection, and may take unread data of the application with it, is
beyond the model. The two `pipe` goroutines copy, set both deadlines and send on
their channels, and `HandleConn` receives in its fixed order.

### Graft

The state of `Tracer` and the state of `Local`, sharing `fifo`; `link` remembers
the socket behind each connection and what the application asked for. The
components meet in four places: the tracer's write announces a connection
(`TracerAnnounces`), the kernel completes a redirected `connect(2)`
(`Redirected`; a tracee killed inside it never arrives), `close(2)` or an exit takes a descriptor away (`TraceeRuns`), and
`graftcp-local` reads a line (`LocalReads`). `GraftElapse` lets `MIN_CLOSE_MSEC`
pass only when no lookup is under way: that is the bet `close_pre_handle` makes,
500 ms against 3 x 20 ms. Whether a process waits for its lookup before the next
`connect(2)` and whether it calls `connect(2)` for a connected socket are
parameters (`AppWaits`, `AppReconnects`). Processes have one thread each here, and
`graftcp-local` does not die: what its death does to the tracer is in `Tracer`.

## Runs

Bounds: two or three threads, one or two descriptors (one of each parity where keys
matter; the placeholder `MAGIC_FD` is odd), a FIFO of one record, three to five
system calls and signals in all, two or three connections, two chunks per stream,
five table entries. They are small, but every
action is reached, and the shortest counterexamples below need at most five
system calls, two threads and two connections. Symmetry is used for connections
in `MCLocalSerial` and `MCGraft` and for items in `MCUthash`.

Passing runs:

| Run | Properties | Shows |
|---|---|---|
| `MCTracerProcs` | `PhaseInSync`, `NoEscape` | with forks, threads, execs, harmless signals and kills at any moment, the tracer, while it runs, always knows whether a tracee enters or leaves a call |
| `MCTracerSockets` | `Intercepted`, `CloseDelayed`, `TracedToTheEnd` | single-threaded processes with TCP sockets only, and at most one descriptor of each parity, are intercepted completely; the key that the placeholder of `socket(2)` shares does no harm |
| `MCTracerNoisy` | `TypeOK`, `RedirectAnnounced` | under everything the environment has (except retries), expansions of the table and tracees left behind included, a redirected connection was announced, but for the one over which the tracer died |
| `MCTracerLive` | `StopsEnd` | no tracee stays stopped |
| `MCLocalSerial` | `IsRendezvous`, `NoneLost`, `NoLeftover` | one pending connection per process: pairing is exact whatever the order of goroutines |
| `MCLocalNoisy` | `TypeOK`, `RoutedWithinGroup`, `Served` | with overlap and delay a destination can be wrong but never another process's, and every lookup ends |
| `MCSession` | `ModeRespected`, `NoLeak`, `OneStreamComplete`, `SessionEnds` | all modes and addresses, every failing step of a dial, proxies that stop answering, ends that stop reading, shut down and close in any order: the mode is respected, nothing stays open, one stream is complete, `HandleConn` returns unless it waits for a proxy or for room to write |
| `MCUthash` | `Fsck`, `NewestFirst`, `ChainBounded`, `IsMultimap` | the table is consistent and finds what it holds through expansions |
| `MCIpFilter` | `FilterRight`, `SetAlgebra` | whatever the options and their order, only what the usage text says is left alone, and all that the files say |
| `MCGraft` | `EndToEnd`, `LostOnlyByExit` | two processes, their tracer and `graftcp-local`: connections go where they were meant to go, and only an exit loses one |

Violation runs: each is a statement of the repository's documentation
that the code does not live up to (quoted in `PROJECT.json`, "findings").

| Run | Property | What happens |
|---|---|---|
| `MCTracerEscape` | `NoEscape` | a group-stop inverts `FLAG_INSYSCALL`; `CLONE_UNTRACED` is not cleared |
| `MCTracerParity` | `Intercepted` | closing descriptor 5 deletes the entry of socket 3 |

What the passing runs leave out of the environment is left out because the
property fails with it. Besides the runs above, these changes of a constant have
each been found to give a short counterexample:

| Run | Change | Property | What happens |
|---|---|---|---|
| `MCTracerSockets` | `CloneOpts <- Clones` | `Intercepted` | a socket opened by one thread and connected by another is not found (main.c:100) |
| `MCTracerSockets` | `CloneOpts` with `{"inherit"}` | `Intercepted` | a socket inherited over `fork(2)` is not found either |
| `MCTracerSockets` | `SockKinds = {"tcp", "udp"}` | `Intercepted`, `CloseDelayed` | `close(2)` of a UDP socket deletes or hides the entry of the TCP socket with its key |
| `MCTracerSockets` | `Signals = {"stop"}` or `{"trap"}` | `Intercepted`, `CloseDelayed` | entry and exit are confused and the handlers do not run |
| `MCTracerSockets` | `PidReuse`, `Killable = TRUE`, `MaxCalls = 6` | `Intercepted`, `CloseDelayed` | a new process starts with `FLAG_INSYSCALL` of one that was killed with its pid |
| `MCTracerSockets` | `AppRetries = TRUE`, or `SigPipeIgnored` and `LocalMayDie = TRUE` | `Intercepted` | as for `RedirectAnnounced` below |
| `MCTracerSockets` | `SockErrs <- Errs`, `CloneOpts <- Clones` or `Fds = {3, 5}` | `CloseDelayed` | the entry found under the key is not that of the connection |
| `MCTracerSockets` | `CloneOpts <- Clones` or `LocalMayDie = TRUE` | `TracedToTheEnd` | `execve(2)` takes another thread out of the stop that the tracer handles, and `exit(0)` follows (main.c:262); the tracer dies of SIGPIPE |
| `MCTracerSockets` | `Killable = TRUE` | `TracedToTheEnd` | `exit(0)` on one dead tracee abandons the rest (main.c:262), which then connect and close as they like |
| `MCTracerSockets` | `ClockMaySet = TRUE` | `CloseDelayed` | the clock is set and `close(2)` is not delayed (main.c:155) |
| `MCTracerSockets` | `TableGrows = TRUE` | `CloseDelayed` | after an expansion the oldest entry of the key is found, which is not that of the connection (uthash.h:700); `Intercepted` and `TracedToTheEnd` hold |
| `MCTracerParity` | `SockKinds = {"tcp", "udp"}` | `OnlyTcpRedirected` | a UDP socket is taken for the TCP socket whose key it shares, although main.c:86 says "If not TCP socket, ignore" |
| `MCTracerNoisy` | `AppRetries = TRUE` | `RedirectAnnounced` | the rewritten sockaddr is used again (main.c:130) |
| `MCTracerNoisy` | `SigPipeIgnored = TRUE` | `RedirectAnnounced` | the write fails after the sockaddr has been rewritten (main.c:138) |
| `MCTracerNoisy` | `RedirectAnnounced` without `Abandoned` | `RedirectAnnounced` | the write kills the tracer after the sockaddr has been rewritten, and the tracee's `connect(2)` goes on (main.c:130, 138) |
| `MCTracerLive` | `PidReuse = TRUE` | `StopsEnd` | the `proc_info` of a dead process ("TODO free pinfp", main.c:315) makes the tracer drop a stop of the next one with its pid |
| `MCLocalSerial` | `MayOverlap <- Pipelined` | `IsRendezvous` | one map entry per pid, two pending connections (proc_sync_map.go:12) |
| `MCLocalSerial` | `MayOverlap <- Anything` | `RoutedRight` | the inode matches any thread of the process (util.go:161) |
| `MCLocalSerial` | `InTime = FALSE` or `HeldOpen = FALSE` | `NoneLost` | the lookup gives up, or finds no inode |
| `MCSession` | `AutoOrder` as an invariant | `AutoOrder` | SOCKS5 does not answer, the HTTP proxy is not tried (local.go:206), although local.go:21 says "select socks5 if socks5 is reachable, else HTTP proxy" |
| `MCSession` | `BothStreamsComplete` as an invariant | `BothStreamsComplete` | an end shuts down its sending side and the answer to it is cut (local.go:228) |
| `MCSession` | `EarlyData = TRUE` | `OneStreamComplete` | what the destination says first is read ahead with the proxy's answer and dropped (http_proxy.go:47) |
| `MCSession` | `SessionEnds` without `DialBlocks` or `WriteBlocks` | `SessionEnds` | a dialer waits for ever for a proxy (http_proxy.go:48, vendored socks5.go), or `io.Copy` for an end that does not read (local.go:226) |
| `MCIpFilter` | `Files <- ShortFiles` | `FilterRight` | `::1` is shorter than "the shortest ip" of main.c:47 and is skipped |
| `MCIpFilter` | `Files <- OpenFiles` | `FilterRight` | a last line without newline loses its last character (main.c:50) |
| `MCIpFilter` | `LocalIgnored` as an invariant | `LocalIgnored` | `::1` is redirected without `-n`, and so is `127.0.0.1` after `-a localhost` (main.c:421), although main.c:368 says "Connecting to local is not changed by default" and README.md:170 the same |
| `MCGraft` | `AppWaits = FALSE` | `EndToEnd` | the second record of a pid replaces the first |
| `MCGraft` | `AppReconnects = TRUE` | `EndToEnd` | the record of a `connect(2)` that fails with EISCONN is found by the next lookup |

In the other direction, `MCGraft` with `Killable = TRUE` and `MaxCalls = 4` still passes
for `EndToEnd`: a tracer that is gone loses connections, but sends none astray.

Fairness. `Tracer`: weak fairness of the tracer's steps, of system calls in
progress, of time, and of `graftcp-local` reading the FIFO (its reader loop does
nothing else). Nothing is assumed of the application. The system calls of the
model all end; that a `read(2)` may block for ever is no concern of `StopsEnd`,
which is about stops. `Local`: weak fairness of each goroutine and of a
`connect(2)` that was let go (it is a local connection to a listening socket).
`Session`: weak fairness of the goroutines, except where they wait for someone else
without a timeout. A `connect(2)` ends because the kernel times it out. A read of
a proxy's answer and a write to an end are assumed to return only as long as that
proxy or end has not stalled (`Fairness` excludes `DialBlocks` and `WriteBlocks`), and
anyone may stall. `SessionEnds` starts when one end has finished and allows
`HandleConn` to stay in these two places; it says that there is no third. In
particular the goroutine that reads from a silent end, or writes to one that has
stopped reading, ends when the other goroutine has.
Deadlock is checked in all runs.

## Proofs

The theorems hold for all values of the constants that satisfy the assumptions of
the modules (sets of processes, descriptors and connections of any size, any
capacity of the FIFO, any number of system calls). Those assumptions are about
types, except that `NULL` is none of the values it stands in for (a record or a
destination in `Local` and `Graft`, a table or a set of addresses in `IpFilter`, a handle in
`Uthash`) and that counts the code divides by are not zero (`SetSize`, the initial
number of buckets, the threshold). What a theorem needs beyond them is an `ASSUME` in its statement, by the names below;
"Runs" gives a counterexample for each one that is dropped, and the constants of the
run that checks the property satisfy them all.

Most invariants are not inductive, and the strengthened ones were run through TLC
as invariants of the runs named here, with wider environments where the theorem
allows them, before they were proved.

### The tracer knows where its tracees are (`TracerProofs`)

- `KeyCollision`: two keys are equal exactly when the pids are equal and the
  descriptors have the same parity. From this follow both what `Intercepted`
  survives in `MCTracerSockets` and what it does not in `MCTracerParity`.
- `TypeCorrect`: `Spec => []TypeOK`. `TypeOK` is inductive by itself.
- `PhaseCorrect` and `EscapeImpossible`: `PhaseInSync` and `NoEscape` are
  invariants if `Quiet` holds (no stopping signal, no SIGTRAP from the
  application, no reuse of pids); both speak of the time the tracer runs. Neither is inductive. The invariant is
  `PhaseInv`, which adds that no odd stop exists (`NoOddStops`), that the tracee
  the tracer is handling is still where `wait(2)` saw it unless it has died
  (`CurStops`), that a pid that was never handed out has a `proc_info` without
  flags (`FreshPids`), and that a `clone(2)` past its entry stop no longer has
  `CLONE_UNTRACED` (`CloneTraced`), which is where `NoEscape` needs
  `PhaseInSync`: an entry that is handled as one. `MCTracerEscape` and the change
  `PidReuse = TRUE` above show that `Quiet` cannot be dropped.

### Nothing is redirected unannounced (`TracerProofs`)

- `AnnouncedFirst`: `RedirectAnnounced` is an invariant if the application does
  not retry from the same buffer and SIGPIPE is not ignored (`OneShot`), with any signals,
  kills, reused pids, expansions of the table and deaths of `graftcp-local`, and for
  tracees that the tracer has left behind. The property has the exception
  `Abandoned`. `AnnouncedAlways` is the statement without it, if `graftcp-local`
  does not die (`~LocalMayDie`). The invariant `RedirectInv`
  says what may be in a sockaddr at the entry stop, and what may be in it once
  the call is in the kernel. It does not need `PhaseInSync`: a confused tracer
  redirects too little, never unannounced.

### Everything is redirected (`SocketProofs`)

The table of sockets can be relied on under `Trusted`, four conditions of which
each answers a defect of its keys or of the tracer's view:

| Condition | Says | Because |
|---|---|---|
| `Quiet` | as above | an entry taken for an exit runs the wrong handler |
| `OwnTables` | no `clone(2)` shares or hands down descriptors | keys have the caller's id, so a thread or a child has no entries |
| `AllTcp` | only TCP sockets are opened | other sockets have no entry, and `close(2)` of one deletes that of the socket with its key |
| `Separate` | at most one even and one odd descriptor | by `KeyCollision`, `close(2)` of a third deletes the entry of another |

- `ConnectsWhileTraced`: under `Trusted` and `OneShot`, `Intercepted` holds as long as the
  tracer runs. Tracees may be killed at any moment, `socket(2)` may fail,
  `graftcp-local` may die, the table may expand and the clock may be set.
  `EveryConnect`: it holds for ever if the tracer is `Undisturbed` too (see
  `StaysToTheEnd`); otherwise a tracee that it leaves behind connects as it likes. The heart of the invariant `FiledInv` is `Filed`:
  every descriptor that the application can use (`Held`) has an entry under its
  key, and one more while a `socket(2)` is under way and the key is also the
  placeholder's (`Behind`), since `socket_exiting_handle` then takes one entry
  away. `Held` leaves out the two moments at which table and kernel disagree: a
  `close(2)` between its handler and the kernel, and a `socket(2)` between the
  kernel and its handler. `AtKernel` carries the result from the entry stop of
  `connect(2)` to the kernel's part of it. `OwnInv` says that descriptors are not
  shared and that the call the tracer remembers (`csn`) is the one the tracee is in.
- `ClosesWhileTraced`: under `Trusted` and `Steady`, `CloseDelayed` holds as long as the
  tracer runs, and for ever under `Undisturbed` (`CloseWaits`).
  "At least one entry" does not suffice here, because `close_pre_handle` looks at
  the newest one: `Slots` says exactly how many entries there are under a key, and
  that the entry of a young connection is fresh. So nothing may be left behind under a
  wrong key, which is what a `socket(2)` that fails does (`Steady`: it does not
  fail, the clock is not set, and the table does not expand, so that the newest entry
  is the one that is found). `Room` says that a `socket(2)` finds a free
  descriptor, so that its success is not an assumption but follows.
- `StaysToTheEnd`: `TracedToTheEnd` is an invariant under `Undisturbed` (processes
  have one thread, nobody is killed, a write to the FIFO does not kill the
  tracer), with any signals. The invariant `EndInv` adds that a stopped tracee
  stays stopped until the tracer lets it go, so that `wait(2)` reports an exit only
  for a tracee that ended itself.

### Records and connections meet (`LocalProofs`)

- `TypeCorrect` and `WithinGroup`: `TypeOK` and `RoutedWithinGroup`, whatever
  overlaps. The invariant `AnnouncedInv` says that every record in the FIFO, in a
  goroutine, in `pidAddrMap` or in a lookup was announced for some connection.
- `NeverLost`, `NothingLeft`, `ImplementsRendezvous`: `NoneLost`, `NoLeftover` and
  `IsRendezvous` under `OneAtATime` (only different processes overlap, descriptors
  stay open until looked up, records are stored in time). `SerialInv` says that
  there is at most one record of a thread group in the FIFO, the goroutines and the
  map together (`OneRecord`), at most one connection waiting for one
  (`OnePending`), that the record belongs to that connection (`Owned`) and the
  connection still has it (`Provided`), and that the lookup cannot miss it
  (`Findable`). The refinement is then step by step: the announcement of a
  connection is `Ask`, the scan of the map that finds its record is `Send`, and every other
  step leaves the abstract state alone.

### A session does what it was configured for (`SessionProofs`)

- `ModeHonoured` and `NothingLeaks`: `ModeRespected` and `NoLeak`, unconditionally.
  `HeldInv` says which connections are open at each place of `HandleConn`,
  `PipeInv` where the two goroutines can be; `NoLeak` needs both.
- `StreamComplete`: `OneStreamComplete` or `Swallowed`, the one case of
  `EarlyData` in which the bytes went into the HTTP dialer's `bufio.Reader`. Data
  are counted, without a bound: `DataInv` says that what was read has been written
  unless an end was closed under the writer, so a goroutine that ends by itself has
  passed on a stream to its end.

### The two programs together (`GraftProofs`)

- `TracerInCompany`: `PhaseInSync`, `NoEscape`, `Intercepted`, `RedirectAnnounced` and
  `CloseDelayed` hold in `GraftSpec` too while the tracer runs, under `Trusted`,
  `Steady` and `OneShot`. A step of the whole is a step of `Tracer` or stutters there (`TracerView`),
  except that `graftcp-local` also reads the FIFO after the tracer has ended; that
  step touches nothing the invariants mention but the FIFO. So the invariants of
  `TracerProofs` and `SocketProofs` carry over as they are.
- `LosesNoneWhileTraced`, `OnlyExitLoses` and `ImplementsEndToEnd`: under `Orderly`,
  `LostOnlyByExit` holds while the tracer runs, for ever if it is `Undisturbed`, and
  `EndToEnd` holds in any case. `Orderly` is `Trusted`, `Steady` and `OneShot` and an application that waits for
  one lookup before its next `connect(2)` (`AppWaits`) and calls it once per socket
  (`~AppReconnects`). Kills are allowed. The invariant is `GraftInv` beside the
  tracer's; a step that ends the tracer is its last use, and `Afterwards` takes over
  (together `WholeInv`): nothing is announced any more, and a record that is left
  belongs to a process that has ended or to the one connection its process still
  waits for. A process that goes on by itself can lose its connections, but no lookup
  finds the record of another one. `Kept` says that a connection being looked up has all that the lookup
  needs as long as its process lives: its descriptor is open and the connection young,
  its inode is known once it was read, and its record is in the FIFO, with a goroutine
  or in the map. A descriptor goes away in `close(2)`, and `close(2)` of a young
  connection does not reach the kernel: this is `CloseDelayed`, and the reason why the
  theorem about the pair needs the one about the tracer. `Calling` says that no
  `connect(2)` is under way that would announce a second connection, so that the
  records of a process are never two (`OneRecord`, `OnePending`) and each belongs to
  its connection (`Owned`) unless the process has ended and left it behind.
- The refinement maps an announcement to `Ask`, a lookup that finds its record to
  `Send`, one that fails for good to `Close`, and every other step to none. The destination comes from the application's
  `connect(2)` and not from the record: that they agree is part of the proof
  (`AnnounceEffects`, with `RedirectInv`).
- TLC checked `GraftInv` together with `EndToEnd` first, for two processes and four calls
  (1.2 million states), and for one process with three connections and seven calls (2
  million). The assumption `Orderly` is true of the constants of `MCGraft`.

### The filter is what was asked for (`FilterProofs`)

- `TablesAreSets`: `SetAlgebra`, without a condition on files or command lines.
  `TableOK` says that a string is in the chain of its bucket and nowhere else, once,
  and that `length` is the number of elements; `str_set_put` and `str_set_remove` keep it.
- `StartupBuilds` and `StartupFilters`: `FilterAsSets` and `FilterRight` if the files are
  `WellFormed` (every line ends in a
  newline and has the six characters `load_ip_file` asks for). The documented rule about
  local addresses, `LocalIgnored`, does not hold. `FilterInv` says at every
  point of `main()` which strings the two tables have: those of the files of the options
  seen so far, and of the part of the current file that was read. That
  options may come in any order, and more than once, is in `OptionInv`: the last `-a`
  counts, and `-n` wherever it stands. `WellFormed` is what `ShortFiles` and `OpenFiles`
  of the table of changes above do not satisfy. `StartInv` and `FilterInv` were
  invariants of a run of `MCIpFilter`.

### uthash is a multimap (`UthashProofs`)

- `CountsAgree`, `StackPerKey`, `ChainsStayShort`, `ImplementsMultimap`: `Fsck`,
  `NewestFirst`, `ChainBounded` and `IsMultimap`, for any items, keys, hash values,
  initial size and threshold. `UthashInv` says that the chain of a bucket has exactly
  the items of the application order that hash there (`TableOK`), each once, that its
  counters are right, that no chain is above its limit (`Bounded`), and that before the
  first expansion chains are in reverse order of addition (`Stacked`).
- The hard step is the expansion. `OldBucket` is the arithmetic behind it: an
  item of bucket b of the doubled table was in bucket b % n before. `RehashedRight` says
  that the loop over an old chain leaves each of its items in one of two new chains. It
  is an induction over the chain, done with a set of numbers (`UpTo`, from
  the well-foundedness of `<` on the naturals) instead of a theorem with an operator as its
  parameter.
- `UthashInv` was an invariant of a run of `MCUthash`.

### Only model-checked

The liveness properties `StopsEnd`, `Served` and `SessionEnds`: fairness and `ENABLED` are
out of the prover's reach. Every invariant, action property and refinement of a
passing run is the subject of a theorem. Where a theorem has a condition, "Runs" shows
what happens without it; the conditions that `GraftProofs` takes over from the tracer
have their counterexamples in the tracer's runs.

## Plan

All of it is done: the models and their runs, the refinements, and the theorems about
`Tracer`, `Local`, `Session`, `Graft`, `IpFilter` and `Uthash`. What remains would be new
models: the configuration of `graftcp-local`, and the text of `/proc`.

## Not modelled

- The text of `/proc/net/tcp` and the hexadecimal addresses in it (util.go 14-58,
  98-123): formatting; what the search finds or misses is in `getInodeByAddrs`.
- config.go and the flags of graftcp-local: a chain of assignments that ends
  before anything runs concurrently; `Session` starts from every result it can have.
- proc_mutex_map.go: the same map under a lock, for Go before 1.9; it allows fewer
  interleavings than the one modelled.
- `os.Exit(1)` when /proc/net/tcp cannot be read (util.go:133-136): it ends
  `graftcp-local`, which to the tracer is `LocalUpDown`.
- The SOCKS5 client, dlog and service: vendored. Parts of uthash.h that util.c does
  not use: sorting, iteration, Bloom filters, other hash functions. `str_set_free`,
  `del_proc_info` and `set_retval`: never called.
- Crash and restart of graftcp-local beyond its end of the FIFO (`LocalUpDown`): it
  persists nothing, and its map starts empty.
