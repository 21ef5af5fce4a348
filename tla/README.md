# A TLA+ verification of Citadel libc

Citadel libc is a C library for x86_64 Linux. This directory holds TLA+ models of
the parts of it where several threads, processes, callbacks or system calls meet;
TLC configurations that check them on small instances; and proofs, checked by
TLAPS, of the two locks everything else stands on. Paths such as `pthread.c` are
relative to `src/src/`.

## 1. The system

The parts that carry state over several steps, and how they lean on each other:

| part | source | state | operations | what makes it hard |
|---|---|---|---|---|
| internal lock | `runtime.c` | one word, 0/1/2 | `__lock`, `__unlock` | the word passes through 1 on its way from 2 to 0 |
| mutex | `pthread_sync.c` | word, owner, count | lock, trylock, timedlock, unlock | plain owner and count fields, time-outs that use up wake-ups |
| condition variable | `pthread_sync.c` | sequence number | wait, timedwait, signal, broadcast | the window between unlock and sleep, recursive mutexes, cancellation |
| read-write lock | `pthread_sync.c` | count or -1, writer, sequence, waiters | rdlock, wrlock, try forms, unlock | readers and writers sleep on one word |
| barrier | `pthread_sync.c` | count, cycle, mutex, condition | init, wait | fast threads return for the next cycle |
| once | `pthread.c` | one word, 0..3 | `pthread_once` | waiters mark the word while the routine ends |
| semaphore | `semaphore.c` | value, waiters | wait, trywait, timedwait, post | waiter count against token count |
| named semaphore | `semaphore.c` | file names, per-process mappings | `sem_open`, `sem_close`, `sem_unlink` | processes race, and die between two calls |
| threads | `pthread.c` | list, count, state word, masks, credentials | create, exit, join, detach, cancel, set\*id | who unmaps the stack; a broadcast over a changing list |
| exit handlers | `runtime.c` | blocks of entries | `atexit`, `__cxa_atexit`, scan of `dlclose`, `exit` | the lock is dropped while a handler runs |
| fork | `process.c`, `omalloc/glue.c` | handler table, four kinds of locks | `pthread_atfork`, `fork` | the child is a copy of one moment |
| timers | `timer.c` | helper thread, kernel timer, flag | create, settime, delete | deletion against a pending expiration |
| asynchronous I/O | `aio.c` | request list, groups | submit, suspend, cancel, lio_listio | groups that end in several threads |
| dynamic linker | `ldso/dynlink.c` | object list, counts, destructor list | `dlopen`, `dlclose`, `__dl_pin`, exit | cycles, foreign bindings, calls from constructors |
| stream | `stdio.c`, `stdio_io.c` | one buffer, two modes, position | putc, fwrite, getc, fread, ungetc, fflush, fseek, ftell | short writes, switches of mode |
| stream locks | `stdio.c` | list of files, a lock each | flockfile, fopen, fclose, fflush(NULL), exit | list lock and stream locks together |

How they interact:

- Every part takes the internal lock; condition variable, barrier and `aio.c` use the
  mutex; the barrier uses the condition variable.
- A thread that exits as the last one calls `exit`, which runs the exit handlers, the
  linker's destructors and the flush of all streams, in this order.
- `dlclose` runs the exit handlers of the object it unmaps, and `__cxa_thread_atexit_impl`
  pins the object that registers.
- `fork` takes `atfork_lock`, the linker's lock, the allocator's pools and the list of
  threads, and repairs the last in the child.
- Timers and `aio.c` create detached threads; those are on the list set\*id signals.
- Cancellation (signal 32) ends sleeps in join, semaphore and condition waits.

The other parts (allocator, formatted I/O, regular expressions, resolver, character
sets, time, databases, wrappers, mathematics) are listed in `PROJECT.json` under
`components`, each with the reason why it is not modelled or is planned.

## 2. Modules

`Lock` is the abstract lock: who wants it and who holds it. `FutexLock` and
`PthreadMutex` implement it, one atomic instruction or system call per action; the
modules above use an abstract lock (an owner variable) for every `__lock` and mutex.

| module | of | an action is |
|---|---|---|
| `FutexLock`, `PthreadMutex` | the locks | one atomic operation or futex call |
| `SyncBase` | the constants shared by the next five | |
| `CondVar`, `RWLock`, `Semaphore`, `Barrier`, `Once` | the primitives | one atomic operation, futex call, or critical section of the mutex |
| `NamedSem` | named semaphores | one system call, or the section under `named_lock` |
| `Threads` | life of a thread | one locked section, atomic operation or signal delivery |
| `ExitFns` | exit handlers | the stretch between two points at which `exit_lock` is free |
| `Fork` | fork | one lock taken or released, one handler called |
| `Timer` | SIGEV_THREAD timers | one system call or access to the shared state |
| `Aio` | asynchronous I/O | one critical section, or the I/O of a worker |
| `DynLink` | dynamic linker | a call up to its next constructor or destructor |
| `Stdio` | one stream | one call, its system calls with every outcome |
| `StdioLocks` | locks of the streams | one lock taken, one stream flushed |

A definition that starts with the comment "Mutant" is a wrong version of the one after
it. No specification uses it; putting it in the place of the right one shows that the
property it is listed with in `PROJECT.json` can fail.

How state and actions correspond to the code, where names alone do not say it:

- `pc[t]` is the place in the function; the head of each module lists its values.
  A value names the step that comes next.
- A futex wait is two actions: one compares the word and puts the thread to sleep,
  and the sleep ends by a wake, a signal (`Interrupted`, `Spurious`) or a time limit.
  Waking chooses any sleeper.
- `CondVar`: `saved` is the recursive count that `cond_wait` puts aside, `canceled` the request
  and `sigcancel` the signal that is on its way. `Attentive` threads will look at the items again.
- `NamedSem`: `name`, `tmp` and `fd` are the file system as the calls see it, `refs` the
  counts in `named_list`; `Crash` ends a process with all its threads between any two calls.
- `Threads`: `next` and `prev` are the links of the list itself. `ExitStep` follows
  `pthread_exit` from `list_lock` through the decrement of the count and the state word to the
  unmapping; `SetxidStep` follows `__setxid` with the signals of the others.
- `ExitFns`: `n`, `fns`, `older` are the blocks; a popped entry stays in `fns`, as in the code.
- `Fork`: `held[t]` is the order in which a thread took its locks, `child` the copy made by
  the clone.
- `Timer`: `mem` follows the shared record from allocation to release by the helper.
- `Aio`: a worker is named by the sequence number of its request; `group` and `left` are the
  record that `lio_listio` allocates.
- `DynLink`: a frame of `stack` is a call in progress, since constructors and
  destructors run under the recursive lock and may call the linker again.
- `Stdio`: `want`, `lpos` and `back` say what the program was promised; every `read` and
  `write` moves any number of bytes the kernel may move, or fails.

What the programs in the models are assumed to do:

- `CondVar`: the condition is a counter under the mutex, tested in a loop.
- `Stdio`: one thread; a call between writing and reading where the standard asks for it.
- `StdioLocks`: a thread that holds a stream by `flockfile` does not open or close
  another stream (then `fflush(NULL)` and it may wait for each other).
- `ExitFns`: a library's handler registers no handler of that library while `dlclose`
  runs it (`NestedInLibrary`), nobody calls `dlclose` during `exit` (`CloseDuringExit`).
- `DynLink`: `Nested` says which calls constructors and destructors make. A handle is
  used once `dlopen` has returned it.
- `Fork`: handlers do not call `pthread_atfork`.
- `Aio`: a control block is not reused while its request is in progress.

## 3. Runs

Components that share no state are checked in one run, side by side: the MC module
declares the variables of all of them, `sys` says which one a behaviour uses, and the
others stay in their initial state. The states of such a run are the sum, not the
product, of its parts.

| run | states | shows |
|---|---|---|
| `futex_lock` | 527 | the inductive invariant, and that the lock implements `Lock`, liveness included |
| `pthread_mutex` | 30,978 | the same for the three types of mutex, nested twice |
| `sync` | 771,070 | no lost wake-up in four primitives, exclusion of writers, once, the mutex after a wait, barrier cycles, named semaphores with crashes |
| `progress` | 44,289 | waits end and calls return in `RWLock`, `Semaphore`, `Once`, `Timer`, `StdioLocks` |
| `threads` | 373,690 | lifetime of mappings, the list, the thread count, credentials |
| `threads_live` | 16,264 | set\*id and join return |
| `process` | 307,779 | mapped objects are those needed, handler order, the child of fork, timer calls |
| `stdio` | 54,427 | no byte lost, reads and positions true, no freed stream used, exit flushes all |
| `aio` | 105,470 | groups, order of fsync, status, completion |
| `cond_lost_cancel`, `setxid_timer`, `dynlink_dtor` | | each fails: see section 6 |

Bounds, and why they reach the interesting cases:

- Three threads let one hold, one wait and one arrive; with two, a wake-up cannot go to
  the wrong one. `threads_live` has two, as strong fairness over three takes too long.
  Only `threads_live` forks; `TypeOK` with its exact thread count is an invariant of `threads`,
  and also holds when added to `MCThreadsLive.cfg`, with fork.
- `SeqMod` (2^32 in the code) is 3, and 2 in `progress`. The guard `NoWrap` excludes
  a thread that is stopped for a whole round of the counter between two instructions.
- `Targets` 1, 2, 3 with three threads and seven arrivals: a barrier no one waits at, one
  with more users than places, and one with two sleepers to wake, over several cycles.
- `Cap` 2 stands for the 62 entries of a block: four handlers fill two blocks.
- Objects of the linker: b needs a; a and c need each other; a needs the startup library
  s; c imports from b and d without depending on them. At most two handles are open at
  once. With three the run passes as well, with 804,461 states.
- The buffer of a stream has two bytes and a file four, so that a write fills it exactly,
  overfills it and is cut short. Both buffering and both append modes are run.
- Two clients, two control blocks on one descriptor and one list for `aio`.
- Symmetry is used in `sync` (the two threads that differ in nothing, and the inodes)
  and in `stdio` (threads and files), both without liveness.

Most runs do not look for deadlock, as a program may stop calling; the locks' runs do.

## 4. Fairness

Weak fairness of a thread inside the library says that the kernel schedules it. Strong
fairness is used where a thread competes for a lock (`CondVar`, `Threads`, `StdioLocks`):
the futex lock is not fair, so a lock that is free again and again is assumed to be got
in the end. The code does not guarantee that; what it guarantees is the weaker promise
of `Lock`, that some waiter gets a free lock, which the locks' runs check under weak
fairness. Callbacks
(`pthread_once`'s routine, a timer's function) are assumed to return. The program is
never assumed to make a call, except to unlock a stream it has locked. In `progress`
each fairness condition is required of the component in use.

## 5. Proofs

`FutexLockProofs` and `PthreadMutexProofs` prove, for any set of threads:

- `LockInvariant`, `MutexInvariant`: `Spec => []IInv`. Exclusion alone is not inductive:
  a step that takes the lock sees only the word, so `WordTellsHolder` ties the word to the
  holders. For the mutex, `OwnerMatchesHolder` is needed since an unlock is let
  through on what the owner field says. `NoLostWakeup` names the threads that will
  mark the word or wake a sleeper.
- `LockExclusion`, `MutexExclusion`, `LockNoLostWakeup`, `MutexOwner`: the parts a user cares for.
- `LockRefinement`, `MutexRefinement`: each step is a step of `Lock` or changes nothing in it.

The argument in both: `StepEffect` sums up what the steps do to word and
holders, and a lemma for each conjunct follows from it. Assumed of the constants is only that
`NoOwner` is not a thread and that the nesting limit is positive.

Only model-checked: liveness, and all the other modules. Liveness under fairness and
induction over data are outside what the provers do.

## 6. Disagreements between the code and what it says

Three have a run that shows them:

- `cond_lost_cancel`: a cancellation request that comes between the test and the futex
  wait of `cond_wait` does not end the wait (`pthread_sync.c:135`). `sem_clockwait` and
  `pthread_join` have the same window.
- `setxid_timer`: the helper of a SIGEV_THREAD timer has signal 33 blocked, so a later
  `setuid` does not return (`timer.c:91`).
- `dynlink_dtor`: `dlclose` called from a destructor unmaps the object whose destructor is
  running (`ldso/dynlink.c:1357`).

The others are reached by changing a constant of a configuration or checking the definition named:

| change | what fails | source |
|---|---|---|
| `AsyncThreads <- OnlyA` in `MCThreadsLive.cfg` | `SetxidReturns`: an asynchronous cancellation waits for `list_lock` with signal 33 blocked | `pthread.c:504` |
| check `ExitHasNewCredentials` of `Threads` | a thread that has left the list may run `exit` with old credentials | `pthread.c:368` |
| `NestedInLibrary = TRUE` in `MCProcess.cfg` | `UnmappedLibraryHasNoHandlers`: the scan misses a handler registered meanwhile | `runtime.c:199` |
| `CloseDuringExit = TRUE` in `MCProcess.cfg` | `HandlersRunOnce`: a popped entry is not marked | `runtime.c:231` |
| check `NoReadAfterFree` of `Timer` | `timer_delete` reads the tid after the helper may have freed it | `timer.c:125` |
| `"ctor_open_waiting"` in `Nested` of `MCProcess.cfg` | `DependenciesUp`: an object is constructed before one it needs | `ldso/dynlink.c:933` |
| drop `held` from `Completes` of `Aio` | a thread cancelled in `aio_suspend` dies with the lock | `aio.c:345` |

Windows that are read off the code and are not modelled: `LOCK` skips the lock until
`__libc.threaded` is set (`internal.h:168`); `pthread_barrier_destroy` while released
waiters are still inside (`pthread_sync.c:261`); the state of `pthread_once` after a cancelled
routine (`pthread.c:561`); `pthread_detach` of an ended thread is a cancellation point
(`pthread.c:418`); `quick_exit` reads its table without the lock (`runtime.c:298`); a read
on `stdin` takes the lock of `stdout` (`stdio.c:229`).

## 7. Not modelled

- Out of reach of TLC: floating point (`math/`, the digits of `printf` and `strtod`), register
  save and restore in assembly, the Unicode tables.
- Nothing to interleave and no control to speak of: wrappers of one system call
  (sockets, message queues, terminals, files), strings, hashes and random numbers, C11 threads, locales.
- Run once before there is a second thread: program start, relocation of the linker.
- Within modelled parts: `quick_exit`, thread_local destructors, cancellation of a
  `pthread_once` routine, `pthread_barrier_destroy`, ELF decoding and symbol lookup, `freopen`, `setvbuf`,
  `getdelim`, and streams that are not files. The kernel is modelled only through the calls made.

## 8. Plan

The synchronisation, thread and process modules came first, as everything else relies on
them. Next, in this order, with the pure algorithms of item 4 in one module each and one
common run:

1. Thread-specific data and its destructors; thread_local destructors; cancellation in
   `Once`; lifetime of semaphores and barriers.
2. The allocator: region table, chunk pages, delayed frees, cache; composed with `Fork`.
3. `posix_spawn` and `popen`; environment; the enumerations of the user databases.
4. Algorithms against reference definitions: `fnmatch`, `glob`, `qsort`, search trees, UTF-8
   decoding and `iconv`, `strtol`, calendar arithmetic, `getopt`, the matcher of `regex`.
5. The resolver's retries, `wordexp`'s quoting, the field machine of `printf` and `scanf`.
6. Proofs: writers alone and waiters counted (`RWLock`, `Semaphore`); `MappingLifetime`,
   the exact thread count and `ListComplete` (`Threads`); `RefcntTrue` and
   `NothingDangles` (`DynLink`); `NothingLost` (`Stdio`); groups (`Aio`).
