# A verification project for the CS:APP lab programs

The repository holds one person's solutions of the seven CS:APP labs, with the
tools that drive and grade them. Modelled here are the programs with state,
concurrency or both (the job-control shell, the concurrent caching proxy and
the library it stands on, the Tiny web server, the storage allocator and its
driver, the cache simulator, the timing packages) and the pure functions whose
correctness is easy to get wrong (bit puzzles, blocked transposes, the parsing
of command lines and URLs), these together with the tools that judge them.
Every definition is translated from the C source; PROJECT.json gives the lines
each one stands for.

## The system

| part | source | state | operations | hard behaviour | what makes it correct |
|---|---|---|---|---|---|
| shell: loop and handlers | lab05_shell/tsh.c 129-499, 671-710 | job table, signal mask, pending signals, where the loop and each stacked handler are | a command, `fg`, `bg`, `waitfg`; SIGCHLD, SIGINT, SIGTSTP, SIGQUIT handlers | handlers preempt the loop and each other; SIGCHLD is not queued; the inner mask `prev_all` is uninitialized | every child reaped and reported, no job lost or left over, table and child agree, one foreground job, `waitfg` returns |
| shell: job table | tsh.c 501-619 | `jobs`, `nextjid` | add, delete, look up by pid or job ID, foreground pid | job IDs wrap | one job per pid and per job ID, free slots are clear |
| shell: command lines | tsh.c main, parseline | the line | fgets, parseline | quotes, `&`, a line or argv that is full | the words meant are the words run |
| proxy: connection pool | lab07_proxylab/sbuf.c, proxy.c 39-75, 226-235 | ring, two counters, three semaphores | insert by the acceptor, remove by 4 workers | threads meet at the semaphores only | a bounded FIFO channel; each connection served once and closed |
| proxy: cache | cache.c, proxy.c 77-140, 237-290 | 50 entries with ages, bodies, total size, `readcnt`, `mutex`, `w` | look up, copy and age (reader); refuse, evict, store (writer) | readers and writers, ages updated under a second lock, misses of one page in parallel | whole bodies, exact and bounded total, near-LRU eviction, no lock lost |
| proxy: text handling | proxy.c 77-110, 142-224 | URL parts, header | parse a URL, rewrite headers | URLs without a port, request and header lines cut at MAXLINE, a header around MAXBUF | what was asked for is asked of the server it was asked of |
| robust I/O | csapp.c 770-950 | the rio buffer | readn, writen, readnb, readlineb | short counts, interrupted calls, errors | no byte lost, doubled or cut from its line |
| csapp wrappers | csapp.c | - | a wrapper for each call, sio_putl, open_clientfd, open_listenfd | calls that report failure in four ways | failures end the process, successes do not, no descriptor leaks |
| Tiny | tiny/tiny.c, tiny/cgi-bin/adder.c | one connection | static and dynamic pages, error pages | clients that leave, files that change between stat and open | one answer that agrees with the file, nothing kept, every connection ends |
| allocator | lab06_malloc/mm.c, memlib.c | heap words: tags, links, data; the break | malloc, free, realloc | any order of calls; a block's tags lie in its neighbour's reach | tags tile the heap, list = free blocks, payloads disjoint and kept |
| allocator driver | mdriver.c | live payloads, fill bytes, results | replay traces for validity, utilization, speed | whatever an allocator may answer | a right allocator passes, a wrong one is caught where it can be |
| timing packages | clock.c, fcyc.c, ftimer.c, fsecs.c | cycle counter, K best samples | measure a function | a counter in two words, timer interrupts at any point | the least times are kept, compensation with a price never makes a call look slower |
| cache simulator | lab04_cache/csim.c | lines with counters, three counts | load, store, modify | victims by counter | it is an LRU cache |
| transposes | lab04_cache/trans.c, tracegen.c, test-trans.c | two matrices in memory | three blocked copies | index arithmetic, order of loads and stores | the transpose, with few misses |
| bit puzzles | lab01_bit/bits.c, tests.c, btest.c | none; a score | thirteen 32-bit functions, graded on sampled values | overflow, floats | the score means that the function is right |
| bomb, attack | lab02_bomb, lab03_attack | - | - | - | binaries and answers; nothing to model |

They are separate programs. Inside the shell the loop and the handlers share
the job table and talk through signals and masks; the kernel sits between it
and its children. Inside the proxy the acceptor hands descriptors to the
workers through the pool, and the workers share the cache through two
semaphores; each worker parses its request through the robust I/O package. The
driver calls the allocator and the timing packages; the graders call the
puzzles and the transposes.

## The modules

| module | what it is |
|---|---|
| JobTable | the helpers of tsh.c 501-619 as operators on a table |
| JobList | the table as its callers use it: adds and deletes in any order |
| Tsh | the whole shell, its handlers, its children, the terminal |
| ParseLine | fgets and parseline on what a user types |
| Channel | abstract: a bounded FIFO channel with receivers |
| Sbuf | the pool, a step per semaphore operation; implements Channel |
| ProxyCache | the workers, readers and writers, and cache.c |
| ProxyText | the request line, parse_url, build_header |
| Rio | the robust I/O package, a step per read() or write() |
| Csapp | every wrapper of csapp.c, and its open functions |
| Tiny | the iterative web server, a step per call another process can notice |
| Allocator | abstract: disjoint aligned payloads |
| Malloc | the allocator on a heap of words, and its client; implements Allocator |
| Driver | mdriver.c against any allocator |
| Timing | clock.c, fcyc.c, ftimer.c, fsecs.c with timer interrupts |
| LRU | abstract: a set-associative LRU cache |
| CSim | the simulator; implements LRU |
| Trans | the transposes as sequences of moves, traced and validated |
| Words, Bits | 32-bit words; the puzzles and their references |
| BTest | the grader of the puzzles, its alarm and its jump |
| JobTableProofs, JobListProofs, TshProofs, ProxyCacheProofs, MallocProofs | theorems about the module of that name |
| ProxyLabProofs | theorems about Sbuf, Rio, Tiny and Csapp |
| LabsProofs | theorems about CSim, Timing and Driver |
| BitsProofs | theorems about Words, Bits and BTest |
| MCTsh, MCJobList, MCProxyCache | constants for TLC (MCJobList for the violation only) |
| MCProxyLab | Sbuf, Rio, Tiny, ProxyText and Csapp, one part per behaviour |
| MCLabs | JobList, Malloc, CSim, BTest, Trans, Timing, Driver and ParseLine, one of them per behaviour |

MCProxyLab and MCLabs put parts that share no state into one run: a variable
chooses the part, whose actions then run while the other parts stay as they
begin. The reachable states are the union of those of the parts.

### Tsh

`jobs` and `nextjid` are the C globals. `main.at` says where the read/eval loop
is, `main.slot` is the pointer `do_bgfg` keeps, `main.prev` is eval's saved
mask. `frame[1..depth]` are the handlers on the stack, each with its place, its
pid and the mask the kernel restores when it returns. `proc[p]` is what a child
does, `unreported` the children whose stop `waitpid` has not returned,
`pending` the signals the kernel keeps (a set: they do not queue).

A step is a stretch of code that no signal can split with a visible effect:
one table access, one system call, or a stretch with everything blocked.
Delivery is eager: a pending unblocked signal is delivered before the next step
of the shell, as POSIX requires on return to user mode; since the children and
the terminal act at any moment, a signal can still arrive between any two
steps. eval is `Eval`, `EvalAddJob`, `EvalBgJid`; do_bgfg is `DoBgFg` (the
lookup), `DoBgFgSetState`, `DoBgFgCont`, three steps because it runs unblocked
and keeps a pointer; waitfg is `WaitFg` (the test) and `WaitFgSuspend`; the
handlers are `Chld*`, `FgHandlerPid`, `IntGetJob`, `IntKill`, `TstpKill`,
`Return`. Line 408 declares `prev_all` and line 418 restores it although the
sigprocmask that should fill it never did; `PrevAll` is the set of masks it may
hold.

### Sbuf

`pc[t]` names the next operation of a thread. `++rear` and the store are two
steps, as are `++front` and the load, so only `mutex` makes them one. `open` is
the set of accepted and unclosed descriptors; accept reuses closed ones.
`Serve` is the return of doit and may never come: doit waits for its client and
its server without a timeout. `Exit` is a csapp wrapper that ends the process, in
main at accept, in a worker at any time in doit; after it no thread moves.
The refinement counts an item as sent when its slot is written and as received
when it is read. `SbufIInv` is the inductive invariant of its proofs.

### ProxyCache

`pc[t]` follows doit, reader and writer: `rLock` to `xUnlock` are the reader's
steps, `wLock` to `wUnlock` the writer's. A URL is a site (the host and path
cache_isin compares) and a port; a body is where it came from and how long it
is, so a copy taken while a writer is half done is recognised. `Exit` is a
csapp wrapper that fails: it ends the process at any read, write or connect.
parse_url's result is ignored by doit, so what a worker looks up may be left
over from an earlier request; any URL stands for that. `usedBefore` is a history
variable: the pairs of entries in the order of their last uses, to which
EvictsLeastRecent compares the ages.

### Malloc

`mem` maps word addresses to numbers; tags are size plus allocated bit, links
are addresses, client data are distinct for each address. The operators carry
the C names. The client is eval_mm_valid of mdriver.c: it fills what it gets
(`Stamp`), and after realloc compares and fills again (`Received`). Three things
realloc does leave a heap of which nothing can be promised; `damage` names them:
`"stale node"` (case 3 calls `remove`, the C library's function, for
`remove_node`, line 418), `"overlapping copy"` (memcpy of overlapping regions,
line 387), `"null copy"` (the data copied to a null pointer when memory is out,
line 428). With `FollowDamage = FALSE` a behaviour ends there and everything
before is checked; with TRUE it goes on. `Walk` follows the free list from its
head, and `find_fit` looks at the blocks it meets; `Chain` follows the headers
from the first block, and `Blocks` are those it meets. Both are functions of the
number of steps, long enough for any heap of MaxHeap bytes.

### CSim

One action per trace line; `find` is the C function, called twice by `Modify`.
Addresses are numbers and the masks are division and remainder; why that is what
`1 << i` gives for `s + b` below 31 is said at the assumption. LRU, which CSim
implements, has no counters: a set knows which blocks it holds (`resident`) and
which of them was used after which (`after`); CSim's refinement reads both off
the lines.

### Rio

One descriptor, read through the buffer, read directly, or written. Bytes are
named by their place in the stream, so that a lost, doubled or reordered one is
seen. read() and write() may take any shorter count, be interrupted (the loop
goes on) or fail (the wrapper exits). `Refill` and `Copy` are the two halves of
rio_read; `Finish` is the end of the loops of rio_readnb and rio_readlineb.

### Tiny

`step` is the place in doit, `todo` the writes that remain before it goes on. A
URI is a sequence of the tokens parse_uri and get_filetype look for. The file may
change before each call that takes it by name, stat, open and the fork of a CGI
program (`file` against `sbuf`, what stat found); the client may
send slowly, leave or reset the connection. A write to a client that left ends
the process (SIGPIPE or the wrapper), as does any failing wrapper. `log` is the
stdio buffer the forked child inherits: if execve fails the child exits through
the wrapper and flushes it into the connection.

### ProxyText

The request line is the method, the URL (`http://h`, a port or none, a path) and
the version; the characters parse_url looks for keep their places, and each
character or word counts as one byte. Rio_readlineb cuts it at MAXLINE - 1 bytes
like any line: a URL may lose its end, and what is left is the first line
build_header reads. Header lines have a name and a length, and a long one comes
in pieces, which build_header takes for lines of their own. A request line with
fewer than its three words, whose missing words are uninitialized, is not sent. A search from a null pointer plus one ends the process (phase
crashed); a header longer than MAXBUF ends the behaviour, since what it
overwrites is undefined.

### Csapp

A wrapped call returns any result its interface allows; the wrapper's test
decides whether the process ends. The Unix, POSIX-thread and socket families
differ in how they report failure, and the model keeps each test. open_clientfd
and open_listenfd walk the addresses of getaddrinfo, opening and closing; sio_ltoa
computes digits at a width of `LongBits`. CsappKeepsItsWord is about the wrappers and
the open functions, PrintsTheNumber about the digits. That Signal's own sigaction
may fail, and the three Sio wrappers, are not modelled.

### Driver

The package is any allocator: `answers` are chosen freely at each call, and the
history variables `granted` and `honest` say whether they were right. The range list
(`ranges`, with `since` for the order in which they were put in),
the fill bytes and the passes are those of the code; a byte has `FillBase` values,
half of them negative as a signed char. mm_init may fail. `TraceAssumption` says
what a trace is: it allocates an identifier that is free, and reallocates or frees
one that is not. The driver does not look; the trace files of the repository are
all like that.

### Timing

A timer interrupt may fall in a call, or between the reading of the ticks and of
the counter (`stray`), and takes `tick_cost` cycles, which the machine chooses
among `TickCosts`. The counter has two digits of base `W` so that its borrow
happens. `callibrate` is followed from one gap it looks at to the next: a gap is
the ticks in it at their cost and some cycles of the loop itself (`Slack`), is
passed over below `THRESHOLD`, is divided by the ticks counted, and sets the price
if it is the least so far and above `RECORDTHRESH`; `NEVENT` gaps with ticks end
it. An interrupt between its two readings is counted with another gap than the
one it lengthens (`carried`), which `missed` remembers. The price may stay 0; then
start_comp_counter calibrates again the next time. Compensation, the K-best loop
with its convergence test, and the averages are followed step by step. A price is
a whole number of cycles here, a double in the code.

### Trans, Words, Bits, BTest

A transpose is the sequence of its loads and stores, computed from the C loops;
an element past the last column is the first of the next row, as in memory.
test-trans validates the result and counts misses on the cache with the
addresses of the repository's binary. A word is the set of its one bits, which
makes the bitwise operators those of sets and addition a carry that can be
computed without recursion. isTmax overflows a signed int; `wraps` chooses what the compiler made of
it. BTest generates the values btest would generate (random ones from
`RandomVals`), and its alarm may fire at any moment until btest
ends: it is never cancelled. `stopper` remembers whose alarm stopped a puzzle.

### ParseLine

A user means words; a line writes each plain or in quotes, after any number of
spaces; an opened quote may stay open. parseline gets what fgets leaves of it.

## The runs

| run | instance | states | what it shows |
|---|---|---|---|
| tsh_safety | 2 pids, 2 slots, 2 stacked handlers, prev_all full or empty, ctrl-c, ctrl-z, outsiders | 1.5 M | NoMissedChild, NoGhostJob, NoLostJob, StoppedJobIsST, MainMask, AbortsExplained |
| tsh_children | the same without outsiders, fair | 0.3 M | ChildReported: every waitable child is waited for |
| tsh_two_foreground | violation | | tsh.c:37 "At most 1 job can be in the FG state" fails |
| tsh_waitfg | violation | | tsh.c:379 fails: a lost wakeup in waitfg |
| job_ids | violation, 4 slots, 4 pids | | two listed jobs with one ID after the wrap |
| proxy_lab | pool: ring of 2, 2 workers, 3 descriptors, 5 connections; streams of 4 bytes through a buffer of 3; 5 kinds of file, 4 URIs; 10 paths and 7 header lines, shorter and longer than MAXLINE; numbers of 8 bits, 2 addresses | 0.2 M | the pool is a channel and brings each connection to its own worker's doit, whatever the other workers wait for (IsChannel, ServesOwnFd, EveryConnServed); RioKeepsTheStream; TinyAnswers, ConnectionsEnd; ForwardsAsMeant; CsappKeepsItsWord, PrintsTheNumber |
| page_cache | 2 workers, 3 pages, 3 entries, lengths 1-3 against limits 2 and 4, 5 requests | 0.6 M | LocksAccounted, HitIsWhole, TotalIsSum, EvictionFinds, CopiesBounded, EvictsLeastRecent; no deadlock |
| page_ports | violation | | a page of another port is answered from the cache |
| allocator_overlap | violation | | a block handed out twice after realloc's third case |
| labs | jobs: 3 slots, 3 pids; malloc: heap of 4 least blocks that grows once, 3 sizes; csim: 2 sets of 3 lines, 5 blocks, 5 operations; 13 puzzles on ~1000 words; 26 shapes; counter of 2 digits of base 4 that starts at 14, 2 lengths of a call, 3 samples, ticks of 3 and 5 cycles with RECORDTHRESH 3; 5 trace files on a heap of 6; lines of 11 characters, 7 words | 0.18 M | TableSound; HeapTiled, FreeListExact, NoAdjacentFree, PayloadsIntact, IsAllocator; IsLRU, LinesDistinct; IntegersScoredRight, FloatsScoredRight; TransposesWhatFits, FullMarks; KBestKept, TicksCompensated; AcceptedRangesSound, HonestAllocatorPasses; ParsesAsMeant |
| float2int | violation | | bits.c:330 fails: floatFloat2Int passes and is not the cast |
| payload_ranges | violation | | mdriver.c:407 fails: a payload around another is accepted |

**What some properties say that the code's authors might not expect.**
FloatsScoredRight names the exception the grader has: floatFloat2Int passes but
is wrong for most large and negative arguments, because btest samples none of
them; that it contradicts bits.c:330 is the finding of the run float2int. IntegersScoredRight names isTmax, which a compiler may make wrong.
HonestAllocatorPasses names mdriver's: a correct allocator fails the
trace of a block whose number has a low byte of 128 or more, since the byte is
read back as a negative char. AcceptedRangesSound: add_range accepts a block that strictly
contains one already taken (payload_ranges is the finding). TicksCompensated:
where ticks cost no more than RECORDTHRESH, or callibrate counts one with the
wrong gap, there may be no price and a call looks slower by its ticks. TransposesWhatFits: with 32 or 64 columns and a number of
rows that is no multiple of 8 the transposes leave the matrix. ParsesAsMeant:
argv has no bound in parseline, and a long line loses a character. Both scores excuse a puzzle that an alarm has
stopped: btest never cancels one (btest.c:357), so it may be the alarm of the
puzzle before.
ForwardsAsMeant: a URL without a port ends the proxy, or is split at a later
colon; a long request line loses the end of its path, and its rest goes to the
server as a header line. EveryConnServed: a doit in every worker that does not
return stops the pool, as does any wrapper that ends the process. EvictsLeastRecent: ages tie, so the evicted entry is one of the two
oldest. In each the property holds because it says exactly where the promise
stops, and stays as it is if the rest of the promise breaks.

**Bounds, and why they are enough.** Shell: two jobs give every pair of a
running, stopped, dead or half-added child with the foreground; two stacked
handlers give every handler interrupted by every other, SIGCHLD by itself
included; a third repeats what the second does to the same table. The masks
full and empty are the two extremes of `prev_all`; any other blocks less than
the first and more than the second. Job table: three slots and pids wrap
nextjid and leave gaps below and above it (job_ids uses four of each); BoundedJids keeps
nextjid within MaxJobs + 3, as deletejob may put it above MAXJOBS. Pool: five connections through a ring of two wrap both counters
twice, and block the acceptor. Rio: four bytes do not fit the buffer of three,
so that calls end within, at and beyond a refill. Tiny: a file that is missing,
forbidden, refused by open, empty or whole, before and after a change.
ProxyText: MAXBUF holds a header with some of the lines but not with all, and one line
leaves only its end for a second piece; the longer paths leave the end of the
version, just `\r\n`, or the end of the path for a second line. Csapp: every kind of result of a
call, two addresses of which either may fail at either call; numbers with a
sign, with one to three digits, and the least of their width.
Cache: three fills, a hit and a store that
evicts need five requests; the lengths are two that fit and one too long (an
empty answer adds no case), and three pages of length 2 pass the total. Two
workers are the least with a reader and a writer at once, two readers, or two
misses of one page. Allocator: merging on each side and both, all cases of
realloc, growth and exhaustion occur within four least blocks and one extension
of the heap. Simulator: four blocks compete for three lines, and the fifth access
can evict after a hit has changed the order. Puzzles: the words within 160 of
zero on both sides, with one bit set or clear, and floats of 16 exponents, eight fractions
and both signs, as the property quantifies over words the grader never drew.
Timing: the two-digit counter starts just below its end and wraps within a call, and the third
sample can be less or more than the two kept; a tick costs as much as RECORDTHRESH,
which is not recorded unless the loop adds to it, or more, and a gap can be too short to be
looked at. Driver: identifiers reused, a
realloc to less and to more, a failing allocation, a payload around
another, and trace files whose header says more than they hold.

MaxRequests, MaxConns, MaxOps, MaxStream, MaxWant, MaxLines, MaxHeaders,
MaxWords, MaxTicks, Runs and NumTraces bound what could go on for ever; behaviours end
there, which is why proxy_lab and labs do not check deadlock (page_cache does: its `Done`
step marks the one legitimate end). The shell may wait for a command for ever,
and the allocator's client (in labs) may hold a damaged heap, so those runs do not either.

**Fairness.** tsh_children assumes weak fairness of the shell's own steps (it is
one runnable process) and that the terminal stops sending keys at some point
(`KeysRest`), without which handlers could occupy the shell for ever. Children
and users need do nothing. The pool (`PoolFairness`) assumes weak fairness of
the acceptor inside sbuf_insert and of each worker on its way from one doit to the
next, and nothing of `Accept` or `Serve`: clients need not connect, and doit need
not return, since it has no timeout for a client that sends nothing or a server
that never answers (driver.sh's nop-server is one). With a bounded number of
connections no thread can be overtaken without end, so the strong fairness an
unbounded run would ask of glibc's semaphores is not needed. Tiny (`TinyFairness`)
assumes that the server and the program it runs go on when they can; clients
need not send, and ConnectionsEnd is about those that do.

**The violations.** They are disagreements between a comment or a test of the
repository and the code, each with the line it quotes in PROJECT.json.

## What is proved

Every theorem holds for every value of the constants that the assumptions
named in the modules allow (MaxJobs at least 1, NoPid no pid, finitely many pids
and workers, masks made of the three signals, a cache and a ring of at least one
entry, a rio buffer of at least one byte, a heap and a growth step that are
multiples of 8 and hold one block, ...).

* **`TshProofs`**: TypeCorrect, ChildrenNotMissed, NoGhosts, MaskRestored, from
  `Tsh!IInv`. NoMissedChild alone is not inductive: a handler that returns
  restores a mask, so one must know what every stacked frame saved
  (`BottomMask`), that no SIGCHLD handler can exist between fork and addjob
  (`NoChldWhileAdding`), that the child being added cannot be listed or reaped
  (`AddedChild`), and what the handlers' locals hold (`FrameLocals`).
  NoJobLost, StoppedJobsAreST and AbortsAreExplained come from a second
  invariant, `Tsh!JInv`, which adds to the first what each step remembers of a
  child between two accesses to the table: who holds a stop that was reported
  (`StopsRemembered`), whose pid a handler or eval carries (`PidsHeld`), that
  each reaped child has one handler on its way to delete it (`JobsFound`), and
  that the SIGCHLD handler is not re-entered if `prev_all` always blocks SIGCHLD
  (`NoReentry`), which is why AbortsExplained can exclude an abort there. TLC
  checked JInv on the bounds of tsh_safety, with a table of one slot, and with
  three stacked handlers. The proofs go action by action, using the effects of
  the table helpers proved in `JobTableProofs`.
* **`JobListProofs`**: job IDs are unique until nextjid wraps, and free slots
  are those without an ID, for every table size.
* **`ProxyLabProofs`, the pool**: WorkersServeTheirOwn and PoolIsChannel, for any number of
  workers, slots and connections. `SbufIInv` says that mutex admits one thread
  (`Exclusion`); that what items and slots count, with the threads between a
  semaphore and its counter, is exactly the ring's content and its room
  (`ItemsCounted`, `SlotsCounted`), from which 0 <= rear - front <= N and no
  slot is overwritten before it is read; and that the descriptors in the ring,
  with the workers and with main are open and pairwise different
  (`RingDistinct`, `ThreadsDistinct`), which needs that p % N differs for
  different p of one window of N (`SlotsDiffer`). PoolIsChannel is the
  refinement: the initial ring is the empty queue, `InsertStore` is Send,
  `RemoveLoad` is Receive, the close in `Serve` is the release, every other
  step is a stutter.
* **`ProxyCacheProofs`**: CacheInvariant (`ProxyCache!CacheIInv`), and from it
  every property page_cache checks: LocksAreAccounted, HitsAreWhole,
  TotalIsKept, CopiesAreBounded, EvictionsFind, EvictionsAreLeastRecent, for any
  number of workers, entries and sites. The lock comes first (`MutexHeld`,
  `ReadersCounted`, `CacheHeld`): a reader waits for the writer only as the
  first of the counted ones. It gives that the entry a reader found stays as it
  was found (`ReadersHold`), that a writer alone is between entry and body
  (`WritersHold`, `EntriesWhole`) and in the middle of counting (`TotalHeld`).
  Ages and uses are related by `UsesOrdered`: a reader ages all entries and then
  resets the one it used, a writer stores at age 0 and then ages all, so ages
  never fall out of the order of uses and tie for two entries at most.
  EvictionsFind is proved for a cache of more than one entry: with one entry,
  whose age a hit has just reset, there is nothing of age above 0 to evict. (The
  program has fifty.)
* **`MallocProofs`**: HeapInvariance (`HeapIInv`), and from it FreeListIsExact,
  NoNeighboursFree, PayloadsAreIntact, HeapIsTiled and MallocIsAllocator, for
  every heap size, growth step, set of sizes and sequence of calls. The
  invariant says that there is a set B of addresses that tiles the heap between
  prologue and epilogue (`Tiled`: each block ends where the next one begins, its
  footer equal to its header), that some function G enumerates the free ones of
  B in the order of the list (`LinkedBy`), that no two of them are neighbours,
  and that the others hold the client's payloads (`Holds`). No single write
  keeps it: free tags a block before listing it, coalesce retags what it has
  unlinked, realloc tags what is listed still. So every operation is taken apart
  into writes of three kinds, to tags, to links and to the body of one block,
  which `BodiesApart` and `TagsNoLinks` show to be at different addresses; a
  lemma for each kind says what it leaves of B, of G and of the bodies
  (`MergeTags`, `SplitTags`, `GrowTags`, `InsertLinks`, `RemoveLinks`, `TakeOff`,
  `PutOn`, `BodyWrite`), and each operation is their composition (`CoalesceWorks`,
  `PlaceWorks`, `ExtendWorks`, `FreeWorks`, `MallocWorks`, `TakePrevWorks`,
  `TakeNextWorks`, and a step lemma for each action). The walks that the
  properties and find_fit use are recursive functions; `WalkIs` and `BlocksAre`
  show that they meet exactly G and B, in the steps they are given.
  HeapIsTiled and MallocIsAllocator are about behaviours that end with the
  damage (`~FollowDamage`): after it a word of the heap may be anything, so that
  nothing, not even a type, can be promised, and allocator_overlap shows that
  payloads then do overlap. The step that does the damage is included.
* **`ProxyLabProofs`, robust I/O**: KeepsTheStream. `RioIInv` adds to the promise that the
  buffer holds the bytes that follow those given out (`BufferFollows`), that a
  descriptor is used in one way (`OneMode`) and that a call never takes more
  than it was asked for (`NotTooMuch`).
* **`LabsProofs`, the simulator**: TypeCorrect, LinesAreDistinct and CountsAreLRU for every
  geometry and trace. The invariant adds a bound of the counters by the number
  of accesses, from which a line of the greatest counter exists. CountsAreLRU is
  the refinement of LRU: a tag is resident if a line in use has it, and was used
  after another if its counter is less. An access gives its line counter 0 and
  adds one to all the others in use, which keeps their order and puts the new
  one at its end (`AfterPairs`); the greatest counter is therefore the oldest
  block, and a set with no free line holds E blocks (`FullMeansNoFree`).
  `PowersAssumption` states that 2^s and 2^b are positive naturals, because the
  provers do not know exponentiation; TLC evaluates it.

* **`LabsProofs`, the timing packages**: KBestIsKept and TicksAreCompensated, for
  every base of the counter's digits, cost of a tick, threshold and slack of callibrate, k and number of
  samples.
  `TimingIInv` keeps, of every call, what it took and which ticks fell into it
  or between the readings (`CallsInOrder`, `Measured`), what callibrate's gaps say of the
  price (`Calibrated`: above RECORDTHRESH, and between the cost of a tick and that
  plus the slack of a gap where no tick was counted wrongly), and that the array is sorted and holds the
  least of the samples (`Kept`). That the borrow of get_counter gives back the
  difference whichever digit wraps is a lemma on two digits of base W. "The k
  least" is stated by counting (`Ranked`): the n-th value kept is a time taken,
  fewer than n of the times are below it and at least n are not above; the
  insertion of add_sample changes those counts by one (`Added`).
* **`LabsProofs`, the allocator driver**: AcceptedAreSound and HonestPasses, for
  every set of traces, heap, alignment and package. `RangesSound` and the
  order of the list (`InOrder`) carry the first: every range comes through add_range, in
  whose test the new one has neither end in an older one. For the second `DriverIInv`
  says that the driver's arrays hold the address and size of each identifier the
  trace has in use (`Tracked`, over `Holders`); that while the package has been
  right the range list is what it has out, all of it in the heap at every request
  (`RightSoFar`); that the payload counted for utilization is that many bytes of
  the heap (`Counted`); and that a failure of such a package is excused (`Blamed`).
  `TraceAssumption` enters there: on a trace that allocates an identifier twice
  the arrays would forget a block that is still in the list.
* **`ProxyLabProofs`, Tiny**: TinyServes, for every set of files, URIs and
  clients. `TinyIInv` says at each place of doit what the process holds
  (`Holding`), that what was sent followed by what is still to be written is
  the text of one answer (`Scripted`), and that a death has one of its causes.
  What the client got is compared with the request once, at the end (`Full`).
* **`ProxyLabProofs`, csapp**: WrappersKeepTheirWord, for any result and any number
  of addresses; the invariant adds where the process is. A lemma for each
  class of wrappers compares its test with the way its calls report failure.
* **`BitsProofs`**: IntegerPuzzlesRight, for every 32-bit word, where the runs try
  a thousand: all ten puzzles on ints are their references, except isTmax at TMax
  in a build that takes its overflowing sum for exact. Addition is followed
  place by place: `CarryUp` is the carry into the next place, and a property that
  holds at place 0 and passes from each place to the next holds at all
  (`EveryPlace`). From it follow ~x + 1 = -x (`NotPlusOne`), the borrow of -x + y
  and of y + ~x + 1 (`MinusPlus`, `PlusNotPlusOne`), that a difference that
  borrows nothing into the sign means x <= y (`OrderIsNoBorrow`), that
  x + (x + 1) is x moved up a place (`TwicePlusOne`), and that each halving of
  howManyBits keeps the length of the word (`HalfRight`). IntegerScoresAreRight
  concludes for the grader, for every TEST_RANGE and all random values: it tries
  TMax, so it fails isTmax when isTmax is wrong, and fails nothing else but by the
  alarm.

Where a proof needs induction over numbers it uses a least counterexample: a
non-empty set of naturals has a least element (`LeastNatural`, from the library's
well-founded minimum), and a finite set of consecutive numbers cannot be mapped
one to one into fewer.

**Only model-checked**: liveness (tsh_children, EveryConnServed,
ConnectionsEnd), which is beyond the prover. PrintsTheNumber, ParsesAsMeant and
ForwardsAsMeant, which are about what recursive functions or SelectSeq compute
from sequences of any length, hence induction over data. TransposesWhatFits
and FullMarks, which are about given sizes and the addresses of one binary, and
use recursive operators. FloatsScoredRight: exponents are sums over sets, of
which the prover knows only the case of a single bit (`NumBit`), and the property
depends on the size of TEST_RANGE, since a grader that tried 2^23 values from 1.0
on would find floatFloat2Int out.

## What is not modelled, and why

Shell: the text of listjobs, jobs of several processes, reuse of a pid, the
time anything takes. Proxy: requests without a URL, what a header longer than MAXBUF overwrites (undefined),
the ages of the cache near 2^31 and the counters of the ring beyond it. csapp:
the texts and arguments of the wrapped calls, the failure of Signal, the Sio wrappers; the copies in tiny/ and .proxy/
are the same file. Allocator: the NEXTFIT and BESTFIT switches (not compiled),
sizes near 2^32. mdriver: its options, its verbose output, the arithmetic of
the performance index. Timing: mhz (which sleeps), clear (a walk through memory), the
alpha counter. Simulator: options and trace parsing, geometries with s + b above
30. btest: the options -1, -2, -3, -r, -g and its printers; test-trans: files and
reports. The bomb and the attack lab have no source of their own in the
repository; the test programs of the shell are its children in Tsh.

## Plan

Done, in this order: JobTable, JobList, Tsh and their proofs; Sbuf with Channel;
ProxyCache; Malloc with Allocator; CSim with LRU and its proofs; Rio, Tiny,
ProxyText, Csapp; Driver, Timing; Words, Bits, BTest, Trans; ParseLine; the proofs of Rio, Sbuf and
ProxyCache; the second invariant of TshProofs; the refinement in
the simulator; MallocProofs; the proofs of Timing and Driver, of Tiny and Csapp,
and of the integer puzzles.

What could follow:

1. FloatsScoredRight, from lemmas on sums of powers of two, for TEST_RANGE below
   2^23.
2. ForwardsAsMeant, with parse_url split from the header lines.
3. Malloc: the overlapping copy followed with both orders of copying; sizes
   modulo 2^32.
