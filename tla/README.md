# A TLA+ project for CS-110-Stanford

The repository holds six assignments of a systems course, each a program of its
own: a reader of the Unix v6 file system (`1`), a disk search with a cache of
sectors (`2`), a shell (`3`), a news aggregator with threads and semaphores
(`4`), the same aggregator on a thread pool (`5`), and a caching HTTP proxy on
that pool (`6`). `2/assign1` holds the files of `1`; `6/thread-pool.*` is the
file of `5`; `4` and `5` share the RSS and HTML code.

## The system's parts

| part | state | operations | hard behaviour | what makes it correct |
|---|---|---|---|---|
| **ThreadPool** `5/thread-pool.cc` | two queues, worker slots, two exit flags, one mutex per queue and per worker, three kinds of condition variable | `schedule`, `dispatcher`, `trabalhar`, `wait`, destructor | every lock, signal and unprotected access interleaves; shutdown races with work | each function runs once; no lost wakeup; `wait` returns after the work and leaves no thread |
| **Aggregator on pools** `5/news-aggregator.cc` | two static pools (6 and 12 threads), the RSS index, three mutexes | `processAllFeeds`, `processarFeed`, `processarArtigo` | feeds schedule articles from inside a pool; two `wait` calls in order; downloads fail | the index holds each parsed article once, and all of them when queries begin |
| **Aggregator on semaphores** `4/news-aggregator.cc` | semaphores for feeds, articles and each server; a map from server to semaphore | the same three functions, one thread each | the map is shared without a lock; articles and feeds of one server use one semaphore | no thread waits for ever; limits are kept |
| **tsh** `3/tsh.c`, `3/tsh-jobs.c` | the job table, `nextJobID`, the signal mask, children and pending signals | `eval`, `waitfg`, `do_bg`, `do_fg`, three signal handlers, the main loop | handlers interrupt the main program anywhere; signals coalesce; children stop, continue and exit | the table is the set of children; no zombie stays; one foreground job |
| **v6 file system** `1/*.c` | the disk image | `inode_iget`, `inode_indexlookup`, `file_getblock`, `directory_findname`, `pathname_lookup`, checksums | indirect blocks, names without a terminator, errors half way | each returns what the image says |
| **Disk image dump** `1/diskimageaccess.c` | the recursion over the tree | `DumpInodeChecksum`, `DumpPathAndChildren` | deleted entries, unreadable sectors, an assertion | what is printed is the tree |
| **Sector cache** `2/CacheSetor.c`, `2/diskimg.c` | free list, LRU list, hash table, sectors | `obterSetor`, `adicionarSetor`, `diskimg_readsector` | full cache, eviction, reads past the end | a read returns the disk's sector, of those it has; lists and hash agree |
| **Disk search** `2/disksearch.c`, `fileops.c`, `pathstore.c`, `index.c`, `scan.c` | open file table, path store, word index | scan of the tree, open, getchar, close, store, queries | full table, duplicates, words that are cut | the index is the words of the files; every file opened is closed |
| **HTTP proxy** `6/request-handler.cc`, `cache.cc`, `proxy.cc`, `scheduler.cc` | a pool of 64, 997 cache mutexes, 997 socket mutexes, the cache directory, file descriptors | accept and schedule, `serviceRequest`, cache operations | requests for one entry, mutexes chosen by hash, headers that change, descriptors that run out | every lock is released; a reply from the cache is a whole one to the same request; connections are not mixed up |

How they interact: the aggregator of `5` and the proxy call `schedule` of a pool,
and only the aggregator calls `wait`; a feed's function schedules articles on a
second pool. `diskimg_readsector` of `2` puts the cache under the file system of
`1`, on which the disk search stands. The handlers of tsh and its main loop share
the job table. The calls of `serviceRequest` meet in the cache directory, in the
two arrays of mutexes and in the file descriptors of the process.

## The models and the code

Where threads or handlers interleave, a module takes one atomic step per lock
operation, system call or access to shared state between two of them; the values
of a `pc` variable name the points between. What a thread does alone between two
such steps is part of one step. Definitions have the names of the functions and
variables they model, in Portuguese or English as the code has them.

**`ThreadPool`** (refines **`TaskPool`**). `dpc`, `wpc[w]`, `opc` and `call[f]`
are the program points of `dispatcher()`, of each `trabalhar()`, of the thread
that calls `wait()` and the destructor, and of the call `schedule(f)`. `locked`
is the set of locked mutexes; the other variables have the names of the class's
fields and locals. A condition variable is a point `sleep...`: a signal moves
the sleeper to the point where it locks the mutex again, and `SpuriousWakeup`
moves it without one. Accesses that the code makes under no mutex are steps of
their own: `SetExit` (`flagExitTrabalhar`, line 36), `Begin` and `Clear` (the
worker's slot, lines 131-134). `agenda`, `prior` and `finished` are history
variables for the properties. Each function is scheduled once: two submissions
of one C function with different parameters are two members of `Tasks`.
`Uninitialised` is `wait()` on entries of `threadsT` that
`novaThreadTrabalhar` never filled: the calls on them may fail and return, or
the program crashes or blocks.

`TaskPool` is the promise of `thread-pool.h`: a function submitted runs once, at
most `numThreads` at a time, and `wait()` returns after all that was submitted
before it. Functions are *handed out* in order but may *begin* out of order: a
worker that has its function may be slow. `Begin(k)` says how far, and no
stronger order is true of the code. A function that is scheduled after `wait()`
has closed the pool may run or be dropped; nothing is promised for it.

**`NewsAggregatorPools`** composes two instances of `TaskPool` (6 and 12 threads
in the code) and adds `processAllFeeds` (`pc`), `processarFeed` (`fpc`) and
`processarArtigo` (`apc`). The parsers are inputs: each download or parse may
fail. `index.add` is a read and a write under `mutexIndex`. `heap` holds the
`Article` structs that are allocated. It refines **`NewsAggregator`**, which says
what both aggregators promise.

**`NewsAggregatorSems`** is assignment 4: `sem_feedsDown`, `sem_artigosDown` and
one semaphore per feed are counters, `servidorConexoes` maps a server to the
feed whose semaphore it has. The server of each article (`server`) is chosen in
`Init`, so that every way to share servers is explored. The `std::map` is used
by several threads without a lock: as soon as two accesses of which one writes
can meet, `DataRace` may set `undefined`, and so does `WildPointer` when
`end()` is dereferenced or a deleted semaphore posted. After that nothing is
claimed; every property is about executions before it.

**`Tsh`** is the shell as the kernel runs it. `pc` is the main program, from the
loop over the table before each prompt (`report`, `update`) through `eval`,
`waitfg`, `do_bg` and `do_fg`; `jobs` and `nextJobID` are the table; `handler`,
`pending` and `blocked` are SIGCHLD, one bit as in the kernel; `proc` and `tty`
are the children and the terminal. `Reap` is one iteration of the handler's
loop. A pending signal that is not blocked is delivered before the main
program's next step, except that `waitpid` may find a child before its signal.
Commands are inputs, after the parser. The ends of children are of two kinds
because the code tells them apart: exit with 0, and all others.

**`V6FileSystem`** has the layers of assignment 1 as operators on an image, from
`readsector` to `pathname_lookup` and the checksums. An image is a function from
sector numbers to sectors; a sector is a sequence of inodes, of pointers or of
*units*, a unit being a directory entry or a character. The arithmetic of
`inode_indexlookup` (which address, which pointer sector, which slot) and of
`file_getblock` (how many bytes of the last block) is the code's, on small
sectors. Failure of a read is the value `Erro`, or, where the code does not look
at it, whatever its buffer held before (`Lixo`). A name that fills `d_name` has no terminator, so what it
compares equal to depends on the bytes that follow it (`Nome`). A checksum is
the contents it is computed from, and two are compared as contents.
`pathname_lookup` keeps the code's disregard of `directory_findname`'s result,
and `lixo` is the uninitialised variable it may return.

**`V6Image`** is the other side: the layout of a disk as the headers describe it
(`Formatar` writes a set of files to an image) and the tree that the files are
(`Destino`, `Caminhos`), defined without the reader's arithmetic.
**`V6Disk`** is what the two programs that read an image have in common: the
image (`OpenImage`, one of `Imagens` or something that is no file system), the
variable on the stack that is read uninitialised, and the stack of the walk.
**`DiskImageAccess`** runs `main` of `diskimageaccess` over an image, one step
per inode and per directory entry, with the recursion of `DumpPathAndChildren`
as a stack (`pilha`). Its instances are all the images of
`MCDiskImageAccess`.

**`SectorCache`** (refines **`Disk`**). `lista` is the `next` and `prev` links of
`utilidades/list.h` over the descriptors and two heads, changed by `list_add` and
`list_del_init` exactly as in the code; `hashTable` is the set of entries that
`lh_insert` and `lh_delete` change, an entry being filed under the sector number
it had when it was inserted; `memoria` and `numeroSetor` are the descriptors'
contents. One call of `diskimg_readsector` is a `Hit`, a `Fail`, a `Fill` while
a descriptor is free, or an `Evict`. `recentes` is a history of the sectors in
the order of last use. The library's hash table (OpenSSL's `LHASH`) is external.
`Disk` is what `diskimg_readsector` promises without a cache, as `disksim.c` does
it: a sector past the end of the image gives 0 bytes and leaves the buffer alone.
The cache stores that buffer nevertheless, and a later hit returns it as a whole
sector. `HitPastEnd` is this step, which `Disk` does not have; `ReadsTheDisk` says
that there is no other difference.

**`DiskSearch`** is `main` of `disksearch`: `Scan_TreeAndIndex` as a stack of
directories that are open while they are read (`pilha`), `openFileTable` with its
cursors, `store` (the pathstore, with its duplicates by checksum), `index`, then
the questions: one word at a time, a file of words, or the server mode, in which
the code does not answer. It reads by way of `V6FileSystem`. `Scan_File` is one
step that yields all words of a file, `Palavras`, counting letters
as the code fills its buffer; the reference `Ocorrencias` says which occurrences those
are without a buffer.

**`ProxyService`** has one call of `serviceRequest` per connection on a
`TaskPool`, which is never closed. `pc[r]` names the points of the call;
`mutexes` and `mutexesSockets` are the two arrays, the first by `Hash` of the
request's serialisation *as it is at that moment* (`Mutex(r)`), because headers
are added and removed between. `livres` are the file descriptors left; `fd` and
`socketDestino` are the call's. A file of the cache is an entry with a key, the
request it was stored for and its response; `vencidas` are those that have
expired, which happens at any time. Every early return and `goto` of the code
is a branch. `Start` reads the configuration, and `Die` is the end of the
program when `accept` fails, or when `readdir` is given the NULL of an
`opendir` that had no descriptor, or whose directory `mkdir` could not make.
`pedido` is what the requests are, one of the assignments in `Pedidos`: the server
and path of the URL, the `Host` header *as the client sent it* and the
x-forwarded headers it arrives with, be they another proxy's or the client's own.
The key has the path and the headers, not the server.

## The runs

| run | instance | shows |
|---|---|---|
| `pool` | 3 functions, 2 workers; 480,768 states | `HandoffSafe`, `NoLostWakeup`, `NothingLost`, every step is one of `TaskPool`, a function pushed before the pool closes is executed, `wait()` returns |
| `tsh` | 3 children, 2 jobs; 1,343,381 | `ChildrenTabled` (the table is the set of children and the handler finds its jobs), `JobIDsFresh`, `ForegroundIsWaitedFor`, `PromptHasTerminal`, and `ForegroundEnds`: the shell comes back to its prompt |
| `tsh_crash` | 1 child | *violated:* the handler deletes the job and `waitfg` writes through NULL |
| `pools` | 3 feeds, 2 articles, pools of 2; 34,848 | `ArticlesAlive`, `ArticlesScheduledInTime`, the implementation of `NewsAggregator`, main reaches its queries |
| `sems` | 2 feeds, 3 articles, 1 or 2 servers; 32,904 | permits and connections are given back, the map holds no deleted semaphore, the implementation of `NewsAggregator`, nobody waits for ever when servers are not shared |
| `sems_deadlock` | the same | *violated:* two feeds on one server wait for ever |
| `diskimage` | every image of `MCDiskImageAccess`; 28,112 | `BlocksRight`, `LookupAgrees`, `InodesDumped`, `PathsTrue`, `TreeDumped`: what is read and printed is what the image says |
| `v6_lookup` | the same | *violated:* `pathname_lookup` yields a directory for a path that does not exist |
| `cache` | 4 sectors, 3 descriptors; 262,656 | `TableRight`, `LeastRecentEvicted`, and every read is one of the plain disk, or a hit on a sector past its end (`ReadsTheDisk`) |
| `search` | every image of `MCDiskSearch`, 3 open files; 41,958 | `FilesHeld`, `IndexTrue`, `StoredOnce`, `IndexComplete`, `QueryRight`, with `-u` and without; the scan ends |
| `proxy` | 3 requests, 2 threads, 3 descriptors; 346,101 | `EntryLocked`, `OneEntryPerKey`, `CachedReplyRight`, `DescriptorsOwned`, `LeaksOnlyOnFailure`; every connection is answered or the program ends |
| `proxy_lock` | a request comes with x-forwarded headers | *violated:* a terminal proxy uses the cache under a mutex it does not hold (`EntryAlwaysLocked`) |

Why the bounds are enough:

- *ThreadPool.* With 3 functions on 2 workers one function must wait for a
  worker, a worker takes a second function, and `wait()` can close the pool
  before, between and after the pushes. The run uses no symmetry, as it has
  liveness properties.
- *Pools.* Two feeds list the same article (so threads compete for one index
  entry), one lists none; there are more feeds and articles than threads.
- *Sems.* The first feed has more articles than its semaphore has permits
  (`Conexoes = 1`; 6 in the code), so it must wait for them to be posted.
- *Tsh.* `MaxForks` bounds the children ever forked. Three children over two
  slots fill the table, overflow it and reuse a slot. Numbers do not reach
  `kMaxJobID` with so few jobs: the wrap at 65,536 is not checked (after it,
  numbers in use may be given again).
- *DiskImage.* Sectors of two units, two inodes or two addresses, with two singly
  indirect addresses and the doubly indirect one: a file of eight blocks uses
  every kind of address, and every size up to the last is among the images, so
  each boundary of `inode_indexlookup` is met from both sides. `Low` is where
  the low half of the size ends, so sizes pass it. Directories grow over two
  blocks. Each sector of inodes and of the file is bad in turn.
- *Search.* Three open files: files in the root can be compared, files in the next
  directory can be read, and below that nothing can be opened. Words have up to
  `MAX_WORD_SIZE = 2` letters before they are cut, blocks have two. `Perguntas`
  has a word that some file contains and that is longer than a keyword: `-f` finds
  it in pieces, `-w` looks it up whole. One directory has a deleted entry under
  the name of a live one (`Repetidos`), so that the scan goes down a path twice.
  In one image the file that is stored first lies too deep to be opened (`Perdidos`),
  which is the case that `QueryRight` excepts.
- *Cache.* Four sectors on three descriptors fill and evict; any sector may be past
  the end of the disk, and contents are two values. The number of descriptors
  is computed as the code does from its kilobytes.
- *Proxy.* In one assignment of `Pedidos` two requests have one key and two threads
  may meet in it; the third is for another server, and comes with x-forwarded
  headers, among them this proxy's, for `Forward` to find when it uses another. In
  the second one request has no `Host`, and the third has the `Host` of the others'
  server, so that it shares their key. In either there are requests with another
  key but the same mutex. Three descriptors are what three clients take,
  so that `socket()`, `opendir` and `accept` all run out. The descriptors that the
  server holds for ever (its listening socket, standard streams) are not counted.
  Keys are hashed by `Hash`; that the *directory* of a key is found by a hash of
  its own, which may collide, is left out.

`CHECK_DEADLOCK FALSE` stands only in the runs of `NewsAggregatorSems`, whose
threads really may wait for ever; `Queries` and `QueriesSharedServer` say when
they do not. Everywhere else the states where the program may stop are an action
(`Terminated`, `Idle`, `Exited`), and any other deadlock is an error.

## Fairness

- *ThreadPool.* Weak fairness of each thread, by the kernel's scheduler: of a call
  of `schedule` once begun, of the dispatcher, of the workers (so functions
  return) and of `wait` once called. Nobody is obliged to call anything. Weak
  fairness is enough for the mutexes here because a thread that waits for one
  competes with finitely many sections. Spurious wakeups happen finitely often.
- *NewsAggregatorPools.* The pools' `Begin` and `Return` are fair because
  `ThreadPool` has `PushedIsExecuted` and `WaitReturns`. Downloads and parsers
  end, with a page or an error (assumed of libxml and the network). Locking
  `mutexIndex` is strongly fair: a mutex released again and again is obtained
  some time. Only `Queries` depends on it.
- *NewsAggregatorSems.* Weak fairness of each thread, as above.
- *Tsh.* The kernel runs the shell and delivers its signals. The user need not
  type, children need not end, and they stop and continue only finitely often.
- *DiskSearch.* One sequential program: weak fairness of its next step.
- *ProxyService.* Weak fairness of each call of `serviceRequest` (threads run,
  clients send and read, servers answer or fail) and of `Die` (a thread that has
  to crash does). Clients need not connect and files need not expire. There are
  finitely many requests, so that nobody is starved of a mutex. `Answered` has the
  condition `Direto` below: a mutex left locked would stop others.

## What is proved

For all values of the constants, under the assumptions that the modules state
(`ThreadPoolAssumption`, `PoolsAssumption`, `SemsAssumption` and so on: sizes are
positive, special values are no members of the sets they stand beside).

**`ThreadPoolProofs`**: `TypeOK`, `LockDiscipline`, `HandoffSafe`,
`NoLostWakeup`, `SpawnsAll` and `DestroySafe` are invariants of `Spec`. None is
inductive alone: even `TypeOK` needs what the locals hold at each program point
(`LocalsOK`; with it, `TypeInv`). The inductive invariant `IInv` adds:

- `HandoffInv`: `filaThreads` has no worker twice, and every worker in it, and
  the one the dispatcher has taken, has an empty slot and is at a point that
  only reads its slot under its mutex. This is why the unprotected accesses of
  lines 131-134 are safe. `Exclusion` (from `LockDiscipline`) adds that the
  worker is not between its test and its sleep when the slot is written.
- `CloseInv`: once `wait()` joins workers the dispatcher has ended, and all
  workers before `i` have. With `i = quantThreadsMax` this is `DestroySafe`.
- `SpawnInv`: no worker has been offered until all are spawned, so the
  dispatcher never waits with fewer than `quantThreadsMax`.
- `NoLostWakeup` itself, whose delicate part is `flagExitTrabalhar`, set under
  no mutex and without a signal: a worker may test it too early and fall
  asleep, but then `wait()` has still to signal it.

Two results of this module are about its history variables. `NothingLost`:
`QueueInv` says that the queue is the rest of the agenda, in which no function is
twice; that what the dispatcher holds is the last one taken; and that when it
stops, everything pushed before the pool was closed has been taken. `PlaceInv`
says that what was not taken is nowhere, that no two workers have the same
function, and that a slot holds a finished function only between its return and
the reset of the slot. A fetch needs the first (what it takes is in no worker's
slot), a store needs `HandoffInv` (the slot it overwrites is empty).
`PoolImplemented`: every step is one of `TaskPool` or a stutter. The abstract
queue is what is left of the agenda when the functions that have begun are
filtered out, so a step removes an element from the middle of a `SelectSeq`.
What that does to the rest (`CutAppend`, and that the filter of a longer
sequence is an append or nothing) is shown along the prefixes of the agenda.

Induction over data is done by hand: the library's theorems for it take an
operator as a parameter and cannot be used. `LeastExists` is the least number
principle from the well-foundedness of `<`, `UpTo` is induction up to a bound,
over the elements of a *set* of numbers, and `Recursion` is that an equation which
defines `r[k]` from `r[k - 1]` has a solution. The modules that need them prove
them at their beginning.

**`TshProofs`**: `TypeOK`, `ChildrenTabled`, `ForegroundIsWaitedFor` and
`PromptHasTerminal`, and `JobIDsFresh` if fewer children are forked than there
are job numbers, for any size of the table and any number of children.
`TableInv` says what the main program may rely on when a handler may have run
before each of its steps: each living child is in one slot (`OneEach`,
`Tabled`), a status that says ended is that of a child that was waited for
(`News`), and at the points of `waitfg`, `bg` and `fg` the job in `temp` is the
one that was looked up, or has been deleted (`Working`), with what was tested of
its status still true or overtaken only by a child that ended (`Tested`).
`TtyGiven` is who may have the terminal at each point; `Numbered` bounds the
numbers in the table, also between `maxjid` and its assignment. That `Min` and
`Max` are what their names say follows from the well-foundedness of `<`.

**`NewsAggregatorPoolsProofs`**: `ArticlesAlive`, `ArticlesScheduledInTime` and
that the module implements `NewsAggregator`, for any lists of articles and pools
of any size. `Turns` says that a feed or an article is in the queue, running or
finished in its pool exactly according to its program point and the counters
`next` and `fnext` (for the queues, that appending and removing change the range
by one element of an injective sequence). `Waited` is what main has waited for:
when `feedsPool.wait()` has returned all feeds are done, because all were
submitted before it; since nothing schedules an article then, all articles
that ever will be are submitted before `articlesPool.wait()`. `Adding` is that
one article at a time is between the reading and the writing of the counters,
with what it read still true.

**`NewsAggregatorSemsProofs`**: `TypeOK`, `MapHoldsLive`, `PermitsConserved`,
`ConnectionsConserved` and the implementation of `NewsAggregator`. `Turns` ties
each loop counter to its list and to the threads created; `MapInv` says that an
entry's semaphore belongs to a feed *of that server* that has not deleted it, so
that the erase which comes before every delete removes the feed's own entry if it
is still there, and no other entry holds that semaphore; `PermitsInv` adds that
the sets of threads counted are finite, so that each wait and each post changes a
cardinality by one; `Joined` says that a feed past its join has no article
running. For the connections, an article finds the semaphore through the map: with
no server shared the one it finds is that of its own feed, so that it is posted
where it was waited for.

**`SectorCacheProofs`**: `TypeOK`, `ListsLinked`, `TableRight`, `Coherent`,
`LeastRecentEvicted` and that the cache implements `Disk` but for `HitPastEnd`. The
links of both
lists are each other's inverse, so that a deletion followed by an insertion moves
one descriptor and no other; hence the table and the list of used descriptors
keep the same ones, each under its own sector; hence what is found under a sector
was read from it. For the order of eviction the history `recentes` is tied to the
list: walking from the head, the sectors come in the order of their last use.

**`DiskImageProofs`**: `BlocksRight`, `LookupAgrees`, `InodesDumped`, `PathsTrue`
and `TreeDumped`, for sectors, tables, files and trees of every size.

- *The arithmetic.* `InodeRead`, `IndexLookup` and `GetBlock` undo the layout of
  `V6Image`: the inode of a number is where `inode_iget` looks, and the address of
  a block is the layout's whether it is direct, singly or doubly indirect.
  `Flatten` puts a file together again from its pieces (`FileBytes`, and
  `WholeBlocks` for directories, whose last block is searched to the end of the
  file only).
- *Paths.* `Destino`, `pathname_lookup` and `Caminhos` are defined by recursion;
  each is first given a solution of its equation (`WayExists`, `LevelsExist`),
  then worked with through its steps (`DestinationAppend`, `TreeFacts`).
  `TreeInduction` is induction along the paths of the tree. That the levels end,
  so that `Caminhos` needs no more of them than there are inodes, is the
  assumption that directories are a tree.
- *The walk.* `LinhasInv` is where the loop of `-i` is and what it has printed;
  `CaminhadaInv` that each frame of the stack and each line printed is where its
  path leads, and that only a deleted entry aborts; `CoberturaInv` that for a path
  that is printed every live entry of it is printed too, or still comes, because
  the path is on the stack and the entry not yet read.

What it assumes of an image (`Valida`, `LayoutAssumption`, `ImagensAssumption`) is
what the v6 kernel makes: a file has no more blocks than its addresses reach, an
entry that is not deleted has an allocated inode and comes first under its name,
directories are a tree. Sectors may be unreadable, but not the blocks of
directories: what their garbage would mean as entries is left out.

**`DiskSearchProofs`**: `FilesHeld`, `IndexTrue`, `StoredOnce`, `IndexComplete` and
`QueryRight`, for images, tables of open files and word buffers of every size. It
extends `DiskImageProofs`, whose arithmetic and paths it takes over.

- *Characters and words.* `DiscoInv` is the disk, which does not change. With it
  each character that `Fileops_getchar` yields is the file's (`CharIs`), or the
  end. The words that the code collects in its buffer (`Palavras`) are the
  occurrences of the reference (`Ocorrencias`), each at its offset (`WordsFound`,
  `EntriesMade`): a run of letters is cut after every `MAX_WORD_SIZE` of them.
- *The table.* `TabelaInv` ties the open files to the stack: one slot for each
  call that has not returned, whose path has as many components as there are calls
  above it, and `Visita` says that the walk is where its path leads. This gives
  `FilesHeld`, and that a path is too deep to be opened (`Funda`) exactly when its
  components are as many as the slots.
- *The records.* `RegistroInv`: what is in the store is a regular file with its own
  checksum, what is in the index is a word of a file that can be opened. It has
  `StoredOnce` as a part; `IndexTrue` follows.
- *The walk.* `Falta(p, o)` says that the open directory `o` has still to give the
  entry that leads to `p`, and `Pendente` that some directory has, or that `p` lies
  below the path the walk is at. `UnicoInv`: a path in the index is not pending, and
  no open directory has still to come to another open one or to where the walk is,
  so that nothing is indexed twice (unless a deleted entry keeps the name of a live
  one). `CompletaInv`: a regular file is pending or served, that is indexed, too
  deep, or equal to one that is either; each file of the store is indexed or too
  deep. At the end nothing is pending (`NothingPending`), which is `IndexComplete`.
- *The queries.* `QueryRight` has both modes: with `-u` an answer is every place of
  its word, by default those of one file of each content. `ConsultaInv`: the pieces in which `fgets` reads a line begin at
  whole multiples of `MAX_WORD_SIZE`, and an answer is the list of its word in the
  index. A word that starts a line is cut there just as it was cut in the file
  (`PieceOccurs`); with the above this is `QueryRight`.

It assumes of the images what `DiskImageProofs` does, and (`SearchAssumption`)
that device files are empty and that a line has its newline at the end.
Properties with `~Cortados` leave names of full length out, which the code does
not find; those with `img.ruins = {}` are about disks without unreadable sectors.

**`ProxyServiceProofs`**: `TypeOK`, `DescriptorsOwned`, `LeaksOnlyOnFailure`,
`CachedReplyRight`, `EntryLocked`, `MutexesReturned` and `OneEntryPerKey`, for any
requests. The last three, and in `CachedReplyRight` that the file found stays until
it is read, have the condition `Direto`: no request with x-forwarded headers comes
to a terminal proxy, be it from a proxy or from a client that sends them itself.
The run `proxy_lock` shows that the condition is needed. `Terminal` says why it is
enough: then a terminal proxy's requests have no header to remove, so the key
stays the same from lock to unlock; that `Direto` does not begin to hold after the
proxy has started is `DirectBefore`. `Answers` is that each file, and what a call
has found, is what its own call received (`Original`), under the path and the `Host`
of both; the server is the same only if each `Host` names its own. `Locks` is that the locked mutexes
are those of the calls in the section, one each; `Once` that among the calls
that fetch an entry none has a file, unless `Perdida`; `Held` that every
descriptor that is not free is held by a call, and a destination is held after a
call only if nothing was received for its client.

The invariants about types, locks, lists and coherence that are proved here are
not repeated in the runs where others imply that they hold.

**Only model-checked** is liveness, as fairness and ENABLED are out of the prover's
reach: `PushedIsExecuted`, `WaitReturns`, `ForegroundEnds`, both `Queries`,
`Indexed` and `Answered`. Every invariant of a passing run, and every
implementation of an abstract module, is a theorem.

## Where code and comments disagree

Four violation runs, listed above, show what comments or headers say and the
code does not do; `PROJECT.json` quotes the lines. Seen while modelling, without
a run:

- `1/pathname.c` through `directory_findname`: a name of 14 characters is compared
  with what follows it in the entry, and is not found. In the disk search the walk
  then goes down the same directory again until the table of open files is full.
- `1/diskimageaccess.c:96`: the comment of line 90 promises all inodes, the loop
  ends before the last.
- `1/diskimageaccess.c:134`: deleted entries, whose inumber is 0, are not skipped:
  the end of the superblock is read as their inode, and unless it looks like an
  allocated one the assertion ends the dump.
- `1/file.c`, `1/chksumfile.c`: a checksum is computed although a sector of the
  data could not be read.
- `2/index.h:13`: the offset that is stored is that after the word's first letter.
- `2/disksearch.c`: the words of the file of words are looked up twice, and the
  second time, which is only timed, with their newline. In server mode the reply
  is the text NOT IMPLEMENTED.
- `2/diskimg.c:56`: what the buffer held is cached when a sector past the end was
  read as 0 bytes, and returned later as a whole sector, where line 35 promises the
  number of bytes read (`HitPastEnd`). No file of an image has such a sector.
- `2/diskimg.c`: `diskimg_writesector` would leave the old contents in the cache;
  nothing calls it.
- `3/tsh.c:247`: the handler returns after the first child that exited with 0; one
  that ended with it under the same SIGCHLD stays a zombie until another signal,
  although line 234 says that all are reaped.
- `3/tsh.c:108`: when the handler takes the report that the foreground job stopped,
  `waitpid` waits for a second one, which need never come.
- `3/tsh-jobs.c:158`: the status of a stopped job is tested and then reset; if a
  handler stores in between that it ended, the job stays in the table.
- `3/tsh.c:349` (also 358, 364 and a failed `fork`): `eval` returns with SIGCHLD
  blocked; zombies remain until the next command unblocks it. The model has it.
- `3/tsh.c:115`: when the handler has waited for the foreground job, `waitpid`
  fails and `waitfg` returns without taking the terminal back. The shell is then
  stopped or gets an error when it reads (`Suspended`).
  `PromptHasTerminal` is what remains true: no *living* child has the terminal.
- `4/news-aggregator.cc:300-305`: the comment says that the test protects against
  a server without an entry, but `find` then returns `end()`, which the test
  dereferences (`WildPointer`).
- `5/news-aggregator.cc:277`: an article that cannot be parsed is not freed.
- `5/thread-pool.cc:177`: `wait()` on a pool that never got a function locks and
  joins uninitialised memory. A function scheduled after `wait()` has closed the
  pool runs or is dropped, without an error.
- `6/cache.cc:146`: the key has `Host` as the client sent it, the reply is that of the
  URL's server (`request-handler.cc:303`), and nothing compares them: two requests
  with one `Host` for the same path of two servers share an entry, and the second
  gets the first's reply. `CachedReplyRight` says so by its condition `Nomeia`.
- `6/request-handler.cc:344`: a terminal proxy also removes the x-forwarded headers
  that the client itself has sent (the run `proxy_lock` has them from a proxy).
- `6/proxy.cc:51`: the directory of the cache is set on a copy of the request
  handler, as `getHTTPRequestHandler` returns one by value; where the handler's own
  is not there, the first reply that is stored ends the program (`StoresNoDirectory`).
- `6/cache.cc:222`: files of a directory are removed by their bare names, relative
  to another directory, so it is not emptied. A crash while a response is stored
  leaves a part of it there, which is served until it expires.

## What is not modelled

- *The inode cache* of `2` is initialised and never asked for an inode.
- *Pure parsing and I/O* have no state that interacts: the RSS and HTML wrappers of
  libxml, the tokenizers, tsh's command parser, the proxy's payload and the
  parsing of requests and responses (their results are inputs of the models),
  options, statistics, what is printed and the mutexes around it, the shell's
  redirections, `queryIndex`, and `sequencial` of assignment 4, which nothing
  calls.
- *Sector reads of the disk search* are those of `V6FileSystem`; that the cache
  below does not change what is read of the sectors that the image has, and no file
  uses others, is what `SectorCache` shows.
- *The wrap of `nextJobID`* and collisions of the cache's directory names, as said
  under the bounds.
- *Tests, samples and build files* are no part of the programs.

## What could follow

Several `ProxyService`s in a chain, for the cycles that `Forward` looks for.
