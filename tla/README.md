# A verification development for the Software Systems course code

The repository holds the C and Python programs of a Software Systems course.
Most of it is short sequential exercises; what is hard to get right in it is
concurrent: a semaphore built from a mutex and a condition variable
(`src/lecture23`), programs whose threads share memory with and without it
(`src/lecture19`, `src/lecture21`, `src/lecture23`), and **Sync**
(`src/sync/Sync.py`), a simulator that runs thread programs row by row, with
the synchronization puzzles written for it (`src/sync/*.py`). Beside them it
carries the source of **GNU Wget 1.15** (`src/hw02/wget-1.15`), the program the
second homework reads, and by far the largest in the repository: a sequential
program whose difficulty is the other side of its sockets. The development is
about these, in this order. The paths below are under `src/`; for Wget, file names
stand for those in `hw02/wget-1.15/src/`.

## 1. The system

### Components, their state, and how they interact

| component | state | operations | used by / interacts through |
|---|---|---|---|
| semaphore, `lecture23/semaphore.c` | `value`, `wakeups`, a pthread mutex, a condition variable | `make_semaphore`, `sem_wait`, `sem_signal` | called by the children of `counter.c`; blocks them in `pthread_cond_wait` |
| shared counter, `lecture23/counter.c` | `counter`, `end`, `array` in memory shared by all threads; `index` per thread | `main`, `child_code`, `check_array` | calls the semaphore around `counter++` |
| thread simulator, `sync/Sync.py` | per thread: column, row, `queued`, `flag_map`, `while_stack`; per semaphore: `n`, `queue`; variables of the program | `Thread.step_loop` and all it calls; `Semaphore.wait/signal`, `Lightswitch.lock/unlock`, `balk`, conditionals; creating threads | executes the example programs; a `signal` in one thread's row changes row and flag of another thread |
| example programs, `sync/*.py` | semaphores, counters | rows | run by the simulator |
| first counters, `lecture19/array.c`, `lecture21/counter.c`, `counter_mutex.c` | as above; a `sem_t` in the last | the threads' loops, `check_array` | the threads meet in unprotected memory, or in the semaphore |
| my_wave, `hw04/my_wave` | mode, `new_mode` flag shared by main loop and interrupts | button interrupt, loop | planned |
| signal game, `lecture24/signal_example.c` | score, alarm | question loop, two signal handlers | planned |
| knock-knock server, `lecture25/ikkp-server.c` | listening socket, one connection, a stream buffer per read | `read_in`, `say`, main loop, interrupt | planned |
| processes, `lecture22/fork.c` | children and their exit status | `fork`, `wait` | planned |
| lists, maps, vectors, `lecture15/16/22`, `hw04/hash` | heap nodes | insertion, removal, lookup | planned |
| arithmetic and strings, `hw03/rand.c`, `lecture08/12/13/19` | none | pure functions | planned, last |
| Wget over HTTP, `http.c`, `retr.c`, `connect.c`, `exits.c` | the local file; `struct http_stat` and the locals of `http_loop` and `gethttp`; the persistent connection `pconn`; `final_exit_status` | `retrieve_url`, `http_loop`, `gethttp`, `register_persistent`, `skip_short_body`, `fd_read_body`, `inform_exit_status` | called by `main` and by `retrieve_tree`; talks to a server over sockets that live longer than one request |
| Wget's recursion, `recur.c`, `convert.c`, `res.c` | queue and blacklist of `retrieve_tree`; the maps between URLs and files; the set of HTML files; robots.txt specs | `retrieve_tree`, `download_child_p`, `register_download` and its kin, `convert_all_links` | calls `retrieve_url`; the maps outlive a tree and are read by the conversion at the end |
| Wget's hash tables, `hash.c` | cells | `hash_table_get/put/remove/for_each` | the maps of `convert.c`, the blacklist |
| Wget over FTP, `ftp.c`, `ftp-basic.c` | `ccon`: the control connection and its flags; locals of `ftp_loop_internal` and `getftp`; the stack of directories | `ftp_loop`, `ftp_retrieve_glob/_list/_dirs`, `getftp` | a server with a state of its own: directory, restart offset, unread answers |
| the rest of Wget, gnulib, thinkstats, GLib example | | | not modelled, see section 7 |
| first exercises, exams, plotting | | input and output | not modelled |

### What is hard here

* **Blocking without atomicity (semaphore.c).** The thread that is signalled
  is not the thread that goes on: it has to take the mutex again, another may
  have taken the wakeup, and `pthread_cond_wait` may return on its own.
  `value` and `wakeups` together say how many threads are blocked.
* **Work outside the critical section (counter.c).** `array[index]++` runs
  after the semaphore is released.
* **Two representations of "blocked" (Sync.py).** The value of a semaphore,
  its queue, the flag of the thread and the row it stands on are changed in
  different methods, partly by another thread. `wait` does not suspend the
  Python statement that calls it.
* **Structure from indents (Sync.py).** Conditionals are executed one line at
  a time; `skip_body`, `check_end_while`, `flag_map` and `balk` each keep a
  part of the control state.
* **Data that survives a failure (Wget).** A retrieval is made of tries, a try
  of requests; files, lengths, flags and connections outlive the try, the request or
  the call of wget that made them. A retry continues from what the last one left, a
  connection carries what the last answer left unread, `DONE_CWD` and
  `LIST_AFTER_LIST_A_CHECK_DONE` describe a session that may have been replaced.
* **A server that does what it likes (Wget).** It ignores ranges, refuses commands,
  redirects, closes or falls silent anywhere; answers come in several framings.
* **Tables that must tell the truth (Wget).** Files are overwritten, removed,
  redirected to and found again, and in the end links are rewritten by the maps.
* **The puzzles.** Who may be in a room with whom, whether permits are lost,
  whether all can come to wait for each other, whether a barrier can be lapped.

`PROJECT.json` lists every hazard at its line, with the property that watches
it or the reason there is none yet.

### What makes each component correct

* semaphore: it is a counting semaphore; no wakeup is lost; mutual exclusion
  on its fields.
* shared counter: every element incremented exactly once; the program ends
  and reports no error. Of the unprotected ones: how far they overrun, and that
  they end.
* simulator: value, queue, flag and row agree; conditionals follow the nesting
  of the program.
* HTTP: a file is the beginning of its document, each byte once; a retrieval
  reported complete is; connections are neither lost nor reused with data on
  them; failures reach the exit status; everything ends.
* recursion: every page within the depth is retrieved; maps agree with the files
  and converted links lead to the page meant.
* FTP: data is read for the file and from the directory it was asked for; as above
  for what is saved.
* programs: exclusion, conservation of permits, accurate headcounts, no
  standstill, service to everyone, and barriers that are barriers.

## 2. The modules

| module | what it models |
|---|---|
| `AbstractSemaphore` | what a counting semaphore promises: a wait returns on a permit, a signal adds one, a permit beside a waiting thread is eventually granted |
| `CondSemaphore` | `semaphore.c`, one action per pthread call or access to the fields between two of them |
| `MCCondSemaphore` | constants for TLC |
| `CondSemaphoreProofs` | theorems about `CondSemaphore` |
| `SharedCounter` | `counter.c` composed with `CondSemaphore` through `INSTANCE`: a child's call to the semaphore is run step by step |
| `SharedCounterProofs` | theorems about `SharedCounter` |
| `RacyCounter` | the counters of lectures 19 and 21, unprotected and protected, over `AbstractSemaphore` as POSIX `sem_t` |
| `RacyCounterProofs` | theorems about `RacyCounter` |
| `SyncRows` | the row language of the simulator |
| `Sync` | the simulator: creation of threads, one action for each kind of row |
| `SyncPrograms` | the example programs as data |
| `SyncRooms` | what the programs are to achieve: rooms, ledgers of permits, headcounts, service; and the row-by-row conditions under which a ledger or a headcount adds up and a room is used as claimed |
| `MCSyncRooms` | which programs, with which claims |
| `CyclicBarrier` | what a barrier promises |
| `Barriers`, `MCBarriers` | the barrier programs composed with the simulator, and their refinement mapping |
| `SyncProofs` | theorems about `Sync`, and about the ledgers, headcounts and rooms of `SyncRooms` |
| `BarriersProofs` | a theorem: the five barriers that work implement `CyclicBarrier` |
| `Download` | what Wget promises of one retrieval: data only grows, is not thrown away when it is to be continued (unless an older version is being renewed), and "complete" means whole |
| `Http` | Wget over HTTP: URLs of the command line, redirections, tries, requests, answers, the persistent connection, exit status; refines `Download` |
| `HttpProofs` | theorems about the connections of `Http`, its exit status, what is on its wires and in its files, and that it implements `Download` |
| `HashTable` | `hash.c` as operators on tables |
| `Crawl` | `wget -r -k` over `HashTable`: trees, maps, conversion |
| `CrawlProofs` | a theorem about the trees of `Crawl` |
| `Ftp` | `wget ftp://`: walk, tries, dialogue |
| `FtpProofs` | theorems about what `Ftp` reads, from which directory, and what it saves |
| `MCHttp`, `MCCrawl`, `MCFtp` | the calls of wget, the servers and pages TLC tries |

### How they correspond to the code

**CondSemaphore.** `value` and `wakeups` are the fields of `Semaphore`;
`mutex` is the thread that holds the pthread mutex, or `Free`; the condition
variable is the set of threads at `pc = "asleep"`. The other values of `pc` are
the places between two accesses to shared state in `sem_wait`
(wait, decrement, block, asleep, woken, retest, waited) and `sem_signal`
(raise, add, notify, signalled). `cond_signal` wakes *at least* one thread when
there is one, as POSIX allows, and a thread may wake up without a signal.
The argument of `make_semaphore` is taken to be non-negative: the code passes 1
only. A failing pthread call ends the process in the wrappers and is left out.

**SharedCounter.** `counter++` and `array[index]++` are a load and a store
each. `at` is the place in `child_code`; `pc` is the place inside the semaphore.
Printing is left out.

**RacyCounter.** The three programs share their actions; where they differ
(`program`) the next place does. The Makefiles build without optimization, so
an access in the source is one load or store; a race is their interleaving. The
cells from `End` on stand for the memory behind the array.

**Sync.** One step is one `Thread.step_loop`: `check_end_while` (`LoopEnds`,
`Here`, `Outer`), the evaluation of the row, then `next_loop` or `skip_body`.
`random.choice` in `unblock` is the choice of a set in `Picks`. A queue is
therefore a set. The mutex of a `Lightswitch` is taken and released within a
row and no other row runs in between: it never blocks and is left out. A row
that does not compile raises each time it runs and the thread stays: it has no
step. Random run, round-robin run and clicks choose the next thread in
different ways; the model leaves the choice open.

**SyncPrograms.** Each program is a record of its semaphores, lightswitches,
integer variables and columns of rows. Comment lines are rows, blank lines are
not, as in `Column.add_rows`. The variables `counter` and `x` of mutex.py
and mutex2.py only grow and are read nowhere: their increments are rows that do
nothing.

**Http.** One action for each call that can fail or block. `stage` is the place in
the code: idle (`main`), attempt (head of THE loop of `http_loop`), connect, send,
head, reply, body (in `gethttp`), outcome (back in `http_loop`), done (back in
`retrieve_url`). `job`, `loop`, `hs` and `req` are the locals of `retrieve_url`,
of `http_loop`, `struct http_stat` and the locals of `gethttp`. `wire` is what was
sent on each open socket and not read: heads, bytes, chunk ends, the end of the
connection, or `silence` (what follows is a timeout). `TestSocketOpen`
leaves open whether data in flight is seen, as `select` with no timeout does.
A call of wget and its surroundings is one of `Worlds`: options, URLs, hosts,
redirections. `Kill` is the user: sockets and memory are gone, files are not.
A redirection is judged by where its chain ends (`Final`), however long it is.
`ASSUMED` is the RETROK of `http_loop` for a document whose length is not known.
HOSTERR stands for CONIMPOSSIBLE too. `Judge` has no step where the code calls
`abort()`: reaching it would be a deadlock. `gethttp` begins by clearing `struct
http_stat` (`Afresh`), so a try that fails before it has read a head leaves the length
0: without `-c`, and with `-c` while an older version is being renewed, the next try
begins the document again, whatever the tries before it saved.

A server `Announces` what it sends if each answer to GET is framed by its length or by
chunks, or is a document that ends with the connection, and the answer to HEAD is
a head. A `loose` one may also send more than the length says, a body after HEAD, and an
error page that only the end of the connection ends (`Unannounced`). Assumed of all
servers: data cut off does not arrive later; a document does not change during a run;
and with `-c` and `-N` together, where documents are dated, HEAD is not answered with
500, nor is a document left undated (`HeadReplies`, `LeftBehind`): wget then goes on to
GET without comparing dates, and appends to an older version what it takes for the rest of it.

**HashTable, Crawl.** Linear probing, growth and the rehash after a removal are as in
`hash.c`; sizes are small primes so that chains wrap around and tables grow.
Retrieving one URL is one step with three outcomes (saved, failed before or after
writing a part, write error), since `Http` has its details. `Index` and `FileOf` give
the pairs of URLs that are one page (`u`, `u/`, `u/index.html`) or one file (names
that differ in case). Pages are sequences of links: where they go, whether they are
inline, whether they are expected to be HTML. A directory created over a file
(`mkalldirs`) is `Dir`.

**Ftp.** `plan` is the rest of the commands `getftp` sends (`Commands` puts them together
from the `cmd` flags). `session` is the server: directory, restart offset, open data port,
data and the answers wget has not read. Wget takes the oldest answer for that
of its last command, which matters after a lost data connection. `stack` holds
the recursion of `ftp_retrieve_list` and `ftp_retrieve_dirs`; the walk takes one entry of
a listing at a time and passes over those that are of the other kind. With
`GLOB_GETONE` an entry counts as found by its name, whatever its kind, as in
`ftp_retrieve_glob`.
Each file and each directory is in one directory only (`NamesAssumption`): names stand for
paths, since wget makes the name of the local file from the whole path. No file has the
empty name, which is the file of the URL of a directory: when nothing is listed
at the top, it is asked for all the same (`NotListed`, `UrlFile`).
Assumed: the server answers each command once, and answers 226 only when it sent
everything; the timeouts that bound waiting are set.

## 3. The runs

| run | module | question |
|---|---|---|
| `CondSemaphore` | `MCCondSemaphore` | is `semaphore.c` a counting semaphore, and live? |
| `SharedCounter` | `SharedCounter` | does `counter.c` increment every element once, and end? |
| `RacyCounter` | `RacyCounter` | how far do the races of the earlier counters reach, and does the semaphore stop them? |
| `SyncRooms` | `MCSyncRooms` | is the simulator consistent, do eleven programs protect what they are to protect, and do six of them serve everybody who blocks? |
| `Barriers` | `MCBarriers` | are the five working barriers barriers? |
| `Http` | `MCHttp` | does wget save the right bytes, keep its promises, reuse only clean connections, report failures, and end? |
| `Crawl` | `MCCrawl` | are the maps true, is no page missed, do converted links lead right, are the tables sound? |
| `Ftp` | `MCFtp` | is what is read what was asked for, is what is reported whole, does the walk end? |
| `HttpStray` | `MCHttp` | (violated) is a connection reused clean whatever a server sends? |
| `HttpBackups` | `MCHttp` | (violated) does a retry continue the file when `--backups` is given? |
| `Lightswitch` | `MCSyncRooms` | (violated) do readers and writers of readwrite2.py exclude each other? |
| `Morris` | `MCSyncRooms` | (violated) is morris.py a mutual exclusion? |

### Bounds, and why they are enough

* `CondSemaphore`: 3 threads, initial values `MCInitial`, signals start only
  while the permits given stay within `MaxValue = 2`. With three threads two
  can compete for one wakeup while the third signals, which is the least for
  a stolen wakeup. The theorems hold for any number.
* `SharedCounter`: 3 children, 2 elements: every child must find the end
  reached at least once, and two children may hold an index at once.
* `RacyCounter`: 2 threads (the programs make two), 3 elements: a thread can fall
  behind by more than one, and the last element is reached with and without a
  race. `OverrunBounded` is tight: the unprotected program of lecture 21 does write
  one element past its array. With a third thread the bound would be another one
  (section 4), which is why the theorem names two.
* `SyncRooms`: `MaxThreads = 4` threads, created at any moment in any
  column; `MaxPermits = 5` stops a signal that would lift a semaphore above
  it (rendez.py, barrier2.py-like programs could otherwise count up for ever).
  Sizes are scaled so that four threads reach the limits: one chair for four,
  two spaces for three, a multiplex of two for three, a dance floor for one
  dancer instead of four. Two customers then compete for a chair with a barber at
  work, and a fourth thread may be of any column.
* `Barriers`: 3 threads, all created before the first runs,
  because `num_threads()` counts the threads there are. Two threads can be
  in the same column and one in the other, or all in one.
* One-shot barriers (barrier.py, barrier2.py) are followed for one round, the
  reusable ones without bound: rounds are counted from the slowest thread, and
  the abstract barrier renormalises in the same way.

* `Http`: two URLs, documents of two bytes (one can be missing, one or both on
  disk), one redirection, one kill; three tries in the calls with one URL, two in
  those with two (`world.tries`). Two URLs are what it takes for a
  connection to be reused by, or replaced for, another host; the second try is the
  one that continues, and the third the one that follows a part and an early failure,
  where nothing is left to continue from; two redirections in a row exceed the limit.
  Nine calls of wget: two URLs on one or two hosts, one redirected to the other; one URL with
  no option, redirected in a circle, with `-c`, `-N` with and without dates, `-c -N`;
  the last six are stopped and started again once. The server is one that `Announces`
  what it sends. `HttpStray` is the first of these calls, without a kill, with a loose one.
* `Crawl`: eight URLs, among them three for one page and two for one file; tables
  of 2, 5, 11 and 23 cells in which most keys want the same cell. Five webs written
  for the hazards (shared files, a page overwritten by an image, a directory over a
  file, a page first seen at the depth limit, rejected files with robots.txt and
  another host) and a family of 80 with every choice of three links.
* `Ftp`: three directories, one of them empty, one hidden file, files of two bytes,
  three tries; eleven calls: `-r`, `-c`, `-N`, passive and active mode, servers
  that know PASV or `LIST -a` or do not (and then list nothing, when SYST made wget
  rely on it), a single file with and without its listing.

`CHECK_DEADLOCK FALSE` is used for `SharedCounter` and `RacyCounter`, which end, and
`Barriers`, where the bound of one round stops the one-shot programs.
In `SyncRooms` deadlock is checked and `NoStandstill` names the reason.

### Fairness

* `CondSemaphore`, `SharedCounter`: weak fairness of every runnable step inside a
  call (threads that can run are run). Strong fairness of taking the mutex: a
  thread waiting for it is not passed over for ever; POSIX does not promise
  this for any one thread, so it is an assumption on the scheduler. `RacyCounter`
  assumes the same of `sem_t`. Nothing
  makes a client call, nothing makes a spurious wakeup happen.
* `SyncRooms`, `Barriers`: weak fairness of each thread's step, since each
  scheduler of the simulator steps every thread again and again, and strong
  fairness of being released, because `random.choice` picks every member of
  a queue with the same chance each time. Nothing makes the user create a thread.
  `NobodyLeftWaiting` is about the programs in `MCServing`: those that promise no
  service to somebody (writers in readwrite.py) are left out of it.

* `Http`, `Crawl`, `Ftp`: weak fairness of the program's steps. Wget is one thread, and
  each wait of it ends, with data or with a timeout (`opt.read_timeout` is 900
  seconds by default; connecting ends by the kernel's own timeout). The one
  exception is `accept` in active FTP without `--connect-timeout`
  (connect.c:547), which can wait for ever: `Ftp` assumes it is set. The user
  kills at most `MaxKills` times and need not.

### Mutants

Each property of a passing run has one mutation of a mapped definition that
makes TLC find it violated; the mutated forms are in the modules, before the
definitions, with the line they are about. Two of the "mutants" are programs of
the repository: rebar2.py for rebar3.py, barrier3.py for barrier.py.

## 4. What is proved

`CondSemaphoreProofs`, for any finite set of threads, any set of non-negative
initial values and any bound:

* `TypeCorrect`, `Exclusion`, `Deficit`, `NoWakeupIsLost`: the four invariants of
  the run `CondSemaphore`;
* `Refinement`: every step is a step of `AbstractSemaphore` or a stutter under
  the mapping of the module (permits are `value` if positive, plus `wakeups`).

The argument. `DeficitAccounted` counts the threads inside the do-while loop
(`wakeups` plus the deficit of `value`); it says nothing about where in the loop
they are. `NoLostWakeup` compares `wakeups` with the threads that are awake
or are about to be woken. Neither is inductive alone: that a signaller
which finds nobody asleep has done no harm needs the deficit and the mutex, since
between `Decrement` and `CondWait` a thread is counted and not yet asleep, and
only the mutex keeps the signaller out of that gap. The inductive invariant
`IInv` is the type invariant, `MutualExclusion`, `DeficitAccounted` and
`NoLostWakeup` together. Its proof has one step for each action; counting
is done by a few lemmas on cardinalities of sets that gain or lose a thread.

Assumptions: the set of threads is finite, initial values and the bound are
natural numbers, `Free` is not a thread.

`SyncProofs`, for any set of well-formed programs, any number of threads and
any bound on permits, and for both ways to begin (threads created at any time,
or all of them first):

* `SessionTypeCorrect`: types, and every thread stands on a row of its own column
  and stacks loops of its own column only;
* `ValuesCountQueues`: a negative value is the length of the queue, and a
  positive one means an empty queue;
* `BlockedInOneQueue`: a blocked thread is in exactly one queue, that of the
  semaphore its row waits for; a running thread is in none;
* `ProgramsFollowed`: `ControlFollowed`, for bodies nested to any depth. A thread is
  inside an `if` only after its condition held, inside an `else` only after it did not,
  and in exactly the loops of its `while_stack`.

The argument. The first three are inductive only together. `signal` moves another
thread past a row: that it stays on its column needs that the thread is alive and
stands where it waits (`QueuedOnce`). That the queue grows by one when the value
falls by one needs that the caller is in no queue yet; that a released thread is
in no queue afterwards needs that it was in one only. The inductive invariant is
split into the part semaphores change (`Queues`) and the part conditionals and
assignments change (`Nesting`); there is one lemma for each way an operation can
affect the first (move, wait, signal), and `StepKeeps` has one step per operation.
That a jump out of a body lands on a row (`RowsStayInside`) needs the smallest
element of a set of row numbers, which `SmallestNumber` derives from the library's
well-foundedness of strict subsets.

`ProgramsFollowed` needs more than what it says, because a thread that has run past the
last row of a loop still has its header on the stack until `check_end_while` takes it
off, and may be released from a queue in between. `InOrder` says where such a thread is:
either it stands outside the body of its innermost loop, and the flags tell the truth
about the header it is going back to, or it is in its place; and each loop on the stack
is in the body of those below it (`Nested`). `Following` adds that a thread that waits
is in its place. What the jumps do is said of a column alone: each of `next_loop`
(`LeadsBelow`), `skip_body` (`LeadsPast`) and the return to the top (`LeadsToTop`) goes
to a row that is in no body its origin is not in, and out of those only that it is as
far left as (`Leads`); such a jump leaves a thread `InOrder` (`Landed`), and so does the way
into a body (`Entered`, `Looped`). An `if` writes the flag of its own indent only, and
the headers around it are further left (`MarkKeepsPlace`). The proof covers `balk` inside a
`while`, which no example program does: the thread goes to the top and from there back
to the header of the loop, since the top is as far left as that header or further.

Assumptions (`BoundsAssumption`, `ProgramsAssumption`, which TLC evaluates for all
the programs it runs): a program declares the semaphores, lightswitches and
variables its rows name, initial values of semaphores are not negative, no column
is empty, and there are at least as many threads as columns. `ProgramsFollowed`
alone also uses `LayoutAssumption`, as much of Python's layout as the jumps rely on: a
column begins at the margin, and the row below a header is not further left than it.
Sync.py does not check this. In a column that begins further in, a loop whose header
is at the margin would stay on the stack at the top without the thread being in it.

`HttpProofs`, for any URLs, documents, number of tries, redirections and
interruptions, with and without backups, and for any order of what the server
sends and when it stops:

* `NoConnectionLost`: `SocketsAccounted`. Between two requests every open socket
  is the registered persistent connection;
* `ExitStatusTells`: `ExitTells`. The exit status is 0 exactly when no URL has
  failed.

The arguments. A connection outlives the request only on paths that end in
`CLOSE_FINISH` with `keep_alive` set, and `keep_alive` is decided when the head
is read, before the body: what has to hold in between is that such a request has
registered its own socket (`Registers`). With that and the count of open sockets
during a request (`Sockets`) every exit of `gethttp` leaves at most the registered
connection open (`Released`, one lemma for each kind of exit). The exit status
is never set back to 0, so the claim needs two things over the whole retrieval of
a URL (`Reported`): that `http_loop` ends only with codes of a fixed list, which
`StatusFor` maps to 0 exactly for the successes (`NEWLOCATION` becomes
`WRONGCODE` if it is what is left at the end), and that no step before the end of
the URL has reported anything of it.

`SharedCounterProofs`, for any finite set of children (at least one) and any
number of elements:

* `PermitKept`: `OnePermit`. The permits of the semaphore and the children inside
  are one together;
* `ElementsClaimedOnce`, `NoErrorsFound`: `ClaimedOnce` and `NoErrors`. No two
  children hold an index, and what `check_array` finds is all ones;
* `CounterBounded`: `TypeOK`. Each child lifts `counter` past `end` at most once.

The argument. The children run the semaphore step by step; for what is said here only
its permits and the phase of each call matter, and `SemaphoreMoves` shows that a step
inside it grants a permit, returns one, or lets a call return. `Entry` (types, which
places are inside a call, `OnePermit`) is inductive by itself. It makes line 62 a step
nobody else can come between, which is what `Claims` needs: that the copies and
indices children hold are known in terms of `counter` (`Known`), that an element is 1
when its index was handed out and stored (`ClaimedOnce`). The bound on the counter
counts children that have seen the end (`Overrun`). Assumptions: `EndAssumption`,
`ChildAssumption`.

`RacyCounterProofs`, for any number of elements:

* `EveryElementCounted`: `ElementsCounted`. The protected program counts each element
  once, with any number of threads;
* `OverrunIsBounded`: `OverrunBounded`. `array.c` and the protected program stay
  inside the array with any number of threads; of two threads of `counter.c` one may
  write the element after it;
* `TwoStayNearTheEnd`: `TypeOK`, for two threads as in the source. The counter gets at
  most three past the end, a bound that `array.c` does reach.

The argument for `OverrunIsBounded`: of two threads past the test at most one finds the counter
at the end, because while both are there the counter is below it (`Race`); an old value
put back is then below the end too. For `TypeOK` of `array.c` each thread has a number
of times it may still raise a counter that is past the end (`Raises`): two while it
works with an older index, one with an index that is itself past the end, none once it
returns. The counter and these numbers, and a copy not yet stored and these numbers,
add up to no more than `End + 3` (`Reach`); a stale copy that takes the counter back
below the end lets its thread begin again, which is why the sum is over copies too.
Three threads get farther. Assumption: `RacyAssumption` (the threads are
finite and there is one).

`CrawlProofs`, for any webs, calls, hash tables and contents of the disk:

* `NoLinkOverlooked`: `NothingMissed`. When a tree is done and nothing stopped it, each
  accepted link of each page that was read, if it is within the limit of depth and
  robots.txt does not forbid it, has been visited one level below that page or nearer.

The argument is that of a breadth-first search. `download_child_p` drops a link
that is in the blacklist without looking at its depth; that is right because the queue
is in order of depth and spans one level at most (`Ordered`), so whatever is blacklisted
is at most one level below the page at work (`Blacklisted`), and a link of that page
that is dropped was or will be taken up early enough for its own links (`Followed`).
Assumptions: `WorldsAssumption`, `IndexAssumption`. Of the tables nothing is assumed.

The second part of `SyncProofs`, for any set of programs that pass a check of each row on its own,
any number of threads created at any time, and any order of release:

* `PermitsAddUp`: `PermitsConserved`. No permit of a semaphore is created or lost;
* `HoldersLimited`: its consequence (`CapacityKept`) for a semaphore whose permits are
  taken and given back: there are never more holders than permits, which for a mutex is
  exclusion;
* `HeadcountsAgree`: `HeadcountAccurate`. What a program counts in a variable, or a
  Lightswitch in its counter, is the number of threads between the two rows;
* `RoomsExclude`: `RoomExclusion`, for programs that warrant their claims. Where one
  thread may be alone, nobody else is: a group that shares the room and a thread
  that wants it for itself are never inside together.

The check (`ClaimsAssumption`, which TLC evaluates for the ledgers of all the programs
it runs) is `Paced`: a thread begins with nothing, and along each way from row to row
gains what the row says, +1 for a `wait`, -1 for a `signal`, so that the rows where it
holds a permit are the credit cells of the ledger. The theorems say that what is true of
each row on its own is true of all threads together, although a `signal` moves other
threads, of other columns. A step moves one thread by one row and those it
releases by one more (`StepMoves`); how the two sets of threads in a ledger change with
that is `Recount`. The inductive invariant adds to that of the first part that no
thread of a program without loops has one on its stack. Programs with a `while`
do not pass the check and have no ledger.

A room has a semaphore of one permit, which a thread takes for itself and a group takes
through its first member and gives back through its last, with a Lightswitch or by a
counter, an `if` and a mutex written out. The condition on the rows (`RoomFits`,
part of `ClaimsAssumption`) says which rows belong to which. The invariant (`RoomKept`) is
that the permit is in exactly one place: in the semaphore, with a thread that is
alone, or with the group, which has it if somebody is inside or about to switch. One
thread at most is about to switch; for a count kept by hand that rests on the
ledger of the mutex and the headcount, for a Lightswitch on its `lock` and `unlock`
being single steps. A Lightswitch whose first member finds the semaphore taken
counts itself in all the same, and the next member goes on (finding Lightswitch): then the
group is inside without the permit. So what such a program warrants (`Warranted`) is
that those who are alone exclude each other, not that they exclude the group, and
readwrite2.py does not meet the theorem's hypothesis for its whole claim. TLC evaluates
`Warranted` of all the programs of the run `SyncRooms` (`WarrantsAssumption`).

`BarriersProofs`, for any number of threads, all created before the first runs, any
schedule and any choice of whom a signal releases:

* `BarriersHold`: `ImplementsBarrier`. barrier.py, barrier2.py, rebar3.py, rebar4.py and
  rebar5.py (`WorkingBarrier`: the program, the row of its critical point, and whether it
  is for more than one round) implement `CyclicBarrier`: every step is a step of
  the abstract barrier or none.

The argument for the reusable ones has two phases. In one the threads arrive, while those
that have passed the critical point of the round before are still on their way through
the second turnstile, and the first is closed; in the other all have arrived, and leave,
and the second is closed. What makes a turnstile let through exactly those it should is
the account of its permits: in rebar5.py as many as there are threads still to pass
(`Arriving5`, `Leaving5`); in rebar4.py one more, which the last one of the next phase takes
back before it opens the other turnstile (`Opens4`, `Closes4`); in rebar3.py a single one,
which is in the semaphore, or with the one thread that has taken it and is about to hand
it on, or with the last one (`Arriving3`, `Leaving3`). In rebar3.py two rows wait for
the same turnstile, and a `signal` meant for those at one would release a thread at
the other: nobody is ever blocked in the row of the last one (`Passable`), since
it finds the turnstile open. That it *is* the last one it concludes from
`count == num_threads()` or `count == 0`: `count` is the number of threads between the
two rows that change it, and nobody else is between the two calls of the mutex (`Common`),
which is what the ledgers and the headcounts of `SyncProofs` give for a program of a
single column (`LockedFits`, `TalliedFits`). Where the number of threads is first put into
`n`, a thread that compares with it has put it there (`Informed`). For the two barriers
that serve once it is enough that all have been counted, or the barrier is closed and nobody
is behind it (`Inv1`); barrier2.py compares after it has released the mutex, and is right
because `count` only grows.

From these invariants a step maps to one of `CyclicBarrier` by `ArriveMarch` and `LeaveMarch`,
which say when the threads that a step moves may do so freely, and by `StagesAdvance`,
which follows the counting of rounds from the slowest thread. `Going` keeps the
barriers for one use to one round, as in the run.

The second part of `HttpProofs`, for any URLs, documents of any length, and any number of
tries, redirections and interruptions, wherever
the network cuts an answer, whenever the user kills wget and starts it again, and
for any server that `Announces` what it sends, which is a hypothesis of each
theorem (run `HttpStray` shows what happens without it):

* `HttpTyped`: `TypeOK`;
* `ReusedQuietly`: `ReuseIsQuiet`. A connection used for a second request has
  nothing of an earlier answer on it;
* `SavedInOrder`: without `--backups`, `SavedIsPrefix`. Every file is the beginning of
  the document its name stands for, or an error page, or an older version that nothing
  was added to. (With `--backups` it is false: run `HttpBackups`.)
* `DownloadImplemented`: without `--backups`, `DownloadKept`. `Http` implements
  `Download`: every step of it is a step of `Download` or none. What is on disk only
  grows by the next byte of the document, or is begun anew; with `-c` that only happens
  where nothing of the document was on disk, or while this call renews an older
  version, whose first tries may be begun anew by a later one; a retrieval that
  is reported as complete left the whole document.

The argument. `Wires` says what may stand on each socket at each place of `gethttp`:
on one that nobody reads from, at most the end of the connection or silence; on the
request's own, what the network left of a head, a body and the end the framing gives
it (`Remains`), of which `Read` bytes have been read. That reading with a length, to the
end of the connection, or by chunks then leaves the socket as it was, or leads to a
`CLOSE`, is shown for each way a read can end (`NextRead`, `BodySkipped`,
`ChunksSkipped`, `EndHushes`), and that what a server sends is framed as its head says
by one lemma for each kind of answer (`RepliesFramed`). `Files` ties what wget believes to what is on disk: `hs.len` and
`hs.restval` are the length of a file that is the beginning of its document
(`Progress`, `Continued`, `Written`), so what is appended at `hs.restval` fits. That
a file is continued which is no such beginning could only happen to an older version of
it, which is there only with `-N`, and then the answer to HEAD, asked before anything
is continued, makes wget start over (`Older`, `HeadsAnswered`). A new name is one that is
not in use, so another URL's file is not written to (`Numbered`; `Overwriting` for the
options that reuse names).

The refinement needs more than the bytes: that wget knows enough not to start over, and
not to say "complete" too soon. `Faithful` adds it. `Resumed`: with `-c` a try asks for
exactly what is not on disk, so that opening the file anew means there was nothing to
keep. `Renewing`: the length on disk is passed over only after HEAD told of an older
version, at the end of the redirections, and `Download` is told of it there
(`Renew`, `VerdictImplements`), when nothing of the document is on disk yet. `Unspoilt`: where
the disk may hold an error page, wget does not look at what is there. `Told`: a length
told by the server is right. `Completed`: at the two places where `RETROK` is decided
without counting bytes (416 or a range that was ignored, and `-N`) the whole document is
on disk. A redirection leads to the same file as before it (`FollowUnseen`), because
nothing was written under that name yet.

Assumptions: `HttpAssumption` and `WorldsAssumption` of `Http`, which TLC evaluates;
that no URL is called "outdated", "error" or "stray" only keeps the bytes that are of
no document apart from those of the documents.
`NoConnectionLost` and `ExitStatusTells` above use none.

`FtpProofs`, for any tree of directories, files of any length, any number of tries,
passive and active mode, and any kind of server, whatever it answers and wherever a
dialogue is given up:

* `InStep`: the commands to be sent, the answers not read yet, the directory of the
  session and `DONE_CWD` stay in step, and the variables keep to their types. (With
  it, that a PASV which worked is one the server knows, `PasvKnown`: a PASV refused
  after one that worked is not followed by PORT, and cannot happen with such a server);
* `ReadsTheRightPlace`: `RightPlace`. What is read from a data connection is the file
  or the listing that was asked for, from the directory it is in;
* `SavesWhole`: `SavedWhole`. A file holds the beginning of the one it is named for,
  each byte once and in order, or what an earlier wget left; what is reported as
  retrieved is all there, and stays so.

The argument for the first two. Wget takes the oldest answer it has not read for that of
its last command, and some errors leave answers unread on a connection that stays
open. `Left(c)` says which answers may be waiting when command `c` is about to be sent.
In passive mode nothing is left, but for the refusal of PASV itself (502). In active mode
what is left makes the next try fail (`Dead`: it begins with 1xx, 4xx or 5xx where 2xx is
needed), or is one 2xx, which shifts all answers by one, or comes in a pair, which only
happens while the two LIST commands are compared (`Odd`, `Twice`). Each 2xx that is taken
for another's lets a command through whose own answer decides a later one, so that
a transfer is begun only if the CWD before it was answered with success (`Right`)
or nothing will come of it (`Lost`). The invariant ties these to the plan (`PlanOK`: which
command follows which), to the places between two calls of `getftp` (`BetweenOK`, where
`DONE_CWD` is believed) and to the walk (`JobOK`, `StackOK`: a directory's files are asked
for before any of its directories is entered, so `DONE_CWD` need not be true later).

The argument for the third. `FileOK` says at each place what is known of the length on
disk: `restval` before the transfer, `qtyread` after it, and that they count bytes of the
file that is asked for. `RestOK` and `Received` say where the server begins: at `restval`
after REST was accepted, at the first byte otherwise, and then the bytes to be skipped are
`restval` too, so what is appended fits (`Appended`). That needs the first part: an
offset of an earlier try, or an answer that belonged to another command, would break it.
A file that is reported as complete would be spoilt if it were asked for again, since
it would be begun anew and might then be broken off. That this does not happen is a property
of the walk (`WalkOK`): with `V` the directories listed so far, no name is twice in a
listing (`Lists`), what is left in the lists of the stack is not among what was retrieved
or listed (`Never`), and the directories on the stack are different ones. `V` is not a
variable of the model; the invariant says that there is such a set.

Assumptions: `WorldsAssumption`, `TreeAssumption`, and for `SavesWhole` `NamesAssumption`;
TLC evaluates all of them for the tree of the run.

### What the proofs showed about the models

* `OverrunBounded` was first stated for any number of threads. It is false for three:
  one of them can put back an old value of the counter after two others have gone on,
  which lets them in again, and the overrun grows with the length of the array. The
  course's program makes two threads; the property now says two.
* The place `Http` took a chain of redirections to end was right for one redirection
  only. `Final` now follows the chain to its end.
* What a `signal` does to another thread's row made `Sync` hard to reason about:
  the row below (`Below`) and the end of a body (`BodyEnd`) are now operators of
  their own, and that a ledger fits its program is stated (`LedgerFits`) and
  evaluated where it had been true by the author's care.
* `Ftp` let a file that is not in its listing, but shares the name of a directory, be tried
  as a file; in the code the directory counts as the match (`GLOB_GETONE`) and is passed
  over. And its server could send an empty file for one that does not exist; now it refuses.
* `Http` kept the length an earlier try had received through a try that failed early.
  The code clears it. With the code's way `DownloadKept` was false of the `Download` there
  was: with `-c -N` on an older version, a part of the new one, an early failure and
  a third try, the part is thrown away, `-c` or not. `Download` now has a state for a
  retrieval that renews an older version, and promises less of it.
* "A connection is reused only when it is quiet" had been proved of a server that
  frames each answer. That is now the hypothesis `Announces`; a run shows the rest.
* `SavedWhole` is false if a file is in two directories under one name of the model: the
  second would be begun anew over the first. In wget they are two paths.
  `NamesAssumption` says so.

### What is only model-checked, and why

* Liveness, everywhere: the fairness part of `ImplementsSemaphore`, `Termination` and
  its kin, `NobodyLeftWaiting`, `EveryoneGetsThrough`. Fairness and ENABLED are out of
  the prover's reach.
* `MapsTrue`, `Browsable` and `TypeOK` of `Crawl`: the hash tables are folds over their
  cells, and what a fold computes for every table is an induction over data.
* `NoStandstill` of `Sync`, which says of a program that it always has a thread to go
  on with: what keeps one going is different in each program.
* `RoomExclusion` of a program with a loop around its rows' permits, which does not pass
  the check of its ledger.

## 5. Findings

* **Lightswitch** (`sync/Sync.py:86`): `lock` goes on after a `wait` that
  blocks, because `wait` only puts the thread into the queue. A second reader
  of readwrite2.py does not wait and reads beside a writer. readwrite.py,
  which spells the pattern out, is right.
* **morris.py** (`:22`, `:25`): the two `signal` rows are indented with a tab,
  which counts as four spaces, the indent of their `if`; they run whether or not
  the condition holds, and two threads enter.
* **rebar3.py** (`:1`) calls itself a non-solution; the run `Barriers` shows it
  to be a reusable barrier.

* **wget --backups** (`http.c:2859`): `rotate_backups` is called before the
  file is opened to append, so a retry appends to a new file: the first part is in
  `<file>.1`, the rest alone in `<file>`, and success is reported. `ftp.c:1179` has
  the same order.
* **wget's reused connections** (`connect.c:759`): a comment (`http.c:1372`) says that
  a connection with data that a broken server sent beyond what it announced is not
  used again, since `test_socket_open` takes it for closed. That waits a microsecond,
  and sees only what has arrived. An error page without a length or chunks is not even
  looked for: `skip_short_body` "successfully" skips nothing, and "Connection: close"
  counts only beside a length (`http.c:2273`). The next request goes out, and the rest of the
  old answer is taken for its answer: a document without a head (HTTP/0.9).

Met while modelling, outside what the runs judge (each is a hazard with a note):
a chunked document cut inside a chunk is reported as complete (`retr.c:368`); a try
that follows one that failed early begins the document again (`http.c:1734`), where
`http.c:3113` and `doc/wget.texi:658-661` say that it continues; with `-c -N` an older
version is appended to when the server answers HEAD with 500 or 501 and GET with a part
(`http.c:3233`); `mkalldirs` removes a file that is in the maps (`url.c:1233`);
`register_redirection` can meet its assertion (`convert.c:850`); a failed `accept`
leaves the control connection open although `ftp.c:240` says that errors close it;
the errors of files in a directory are lost to `ftp_retrieve_dirs` (`ftp.c:2117`); a
LIST that breaks off after a `LIST -a` that worked settles on the wrong command
(`ftp.c:1504`).

## 6. Plan

Done: the semaphore, the counters over and without it, the simulator core, its
programs; Wget over HTTP and FTP, its recursion, maps and hash tables.
Next, in this order:

1. `Sync`, continued: `FifoSemaphore`, the order of a round-robin sweep and what a
   row that raises does to it, execution of the initialization block; barber2.py
   to barber4.py with thread-local semaphores and lists.
2. `MyWave`: main loop and interrupts; `SignalGame`: question loop, alarm and
   interrupt handlers.
3. `IkkpServer` with a client: lines, stream buffers, dropped connections.
4. `Processes`: `fork`, `exit`, `wait`.
5. `LinkedList` and `HashMap`: heap of nodes refining a sequence, and a map.
6. Wget: cookies, authentication and POST in `Http`; symbolic links and globbing in
   `Ftp`; `Crawl` over `Http` instead of its one-step retrieval; several hosts.
7. Pure functions (`rand.c`, `rational.c`, `strjoin`, `matrix`) against reference
   definitions over bounded inputs.

Theorems planned: `MapsTrue` of `Crawl` over an abstract map, which the folds of
`HashTable` would have to be shown to be.

Hazards of programs not modelled yet: the button interrupt between the reads of
`new_mode` and `mode` (my_wave.ino:173); the alarm while an answer is scored
(signal_example.c:54); what a stream opened per line has buffered, and the trim of
an empty line (ikkp-server.c:91, :109); a negative hash (hash_soln.c:288); the usher
who takes back his own signal (barber4.py:59), `sem` shared by two barbers
(barber2.py:28); `run_init` on a semaphore that blocks and `balk` out of a loop
(Sync.py:356, :881).

## 7. Not modelled, and why

Display, views, files and editing of rows in Sync.py; Gui.py; printing and
layout everywhere; programs that only read input and print; exams and plots.

Of Wget, what is not state but text or cryptography: options and .wgetrc, HTML, CSS
and cookie parsers, URLs character by character, listings, IRI, digests, NTLM, SSL,
WARC, logs and progress bars. Their results are inputs of the models. Of the modelled
parts: proxies, POST, content-disposition, `-nc`, `-O`, spider, quota, 1xx
answers; in `Ftp` symbolic links, globbing patterns and exit status. gnulib (`lib/`),
most of the lines of the repository, is a copy of a portability library (regular
expressions, printf, charset tables), and `css.c` and `css_.c` are generated scanners:
they are third-party or generated code, which is why the map covers a small share of
the repository's lines.

The remaining simulator programs are either
illustrations without a claim (title.py, signal.py, balk.py, fox.py, mydance.py,
deadlock.py), declared non-solutions (barrier1.py, rebar1.py), or not programs of
the simulator (pair.py, test.py).
