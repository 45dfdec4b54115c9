# TLA+ models of NetWorking_MiniNet

The repository holds three C programs written for a Mininet laboratory: a
learning switch (`switch_stack`), a network address translator (`nat_stack`) and
a distributed letter count (`socket-exp/socket-example`). This directory models
all three in TLA+, checks the models with TLC and proves theorems about each of them
with TLAPS: the safety invariants and refinements that TLC checks, of the switch,
its linked list, the receive loop, the switch program, both versions of the translator, its
checksums and the letter count, for any values of the constants. Liveness, and the
list of the translator at pointer level, are model-checked only.
`PROJECT.json` maps every definition to the lines it models.

## The system

### Switch (`switch_stack`)

* **Forwarding database** (`mac.c`, `mac.h`). State: `mac_port_map`, 256 buckets
  of which only bucket 0 is ever filled, each entry with address, interface and
  the second of its insertion (`visited`). Operations: `lookup_port`,
  `insert_mac_port`, `sweep_aged_mac_port_entry`; a thread calls the last after
  every `sleep(1)`. A sweep removes at most *one* entry. A mutex is declared and
  initialised, and taken by no operation that runs.
* **Packet thread** (`main.c`, `packet.c`). `handle_packet` looks up the
  destination, forwards or broadcasts, looks up the source and inserts it if it
  was missed: three separate accesses to the table, with sweeps in between.
* **Linked list** (`list.h`). Intrusive ring with a head; insertion is four
  writes, removal two, iteration saves the successor before the body.
* **Receive loop** (`ustack_run`, shared in form with `nat_stack`). `poll`, then
  a scan which receives one frame from each readable interface.

What makes it correct: addresses are in the table once; entries are swept within
a bounded time although a sweep removes one only; frames reach hosts that have
moved once the table had the time to forget; walks stay in allocated memory; no
interface starves; no frame is handled twice although raw sockets return the
frames the program itself sends.

### Translator (`nat_stack`)

* **Mappings and port pool** (`nat.c`, `nat.h`). State: the list of mappings
  (internal address and port, external port, `update_time`), the byte array
  `assigned_ports`. Stored ports are in network byte order, the pool is indexed
  in host byte order.
* **Packet thread.** `handle_packet` → `handle_ip_packet` (echo replies) →
  `nat_translate_packet` → `do_translation`: search, then rewrite or insert.
* **Timeout thread.** `nat_timeout` walks the list once, at start-up.
* **Second version** (`nat_new_2.c`, an alternative to `nat.c` that the Makefile
  does not build). Every mapping is stored twice, in the hash bucket of its
  internal and in that of its external endpoint, and a search looks into one
  bucket only. A packet from outside that finds nothing ends the program.
* **Checksums** (`checksum.h`, `ip.h`, `tcp.h`). Both are calculated anew, from
  the whole header and segment, after every translation.

What makes it correct: pool and table agree, a reply finds the mapping its
request left by, a translation does not change while connections use it, private
addresses do not leave, the timeout thread does not disturb the packet thread,
the receiver accepts the checksums.

### Letter count (`socket-exp/socket-example`)

* **Server.** Accepts as many clients as `workers.conf` has lines, gives each a
  part of the file and a handler thread. A handler sends file name, start and
  end, receives a table and adds it to `ans` under a lock. `main` joins the
  thread created last and prints `ans`.
* **Client.** Receives the task, counts, sends its table.

What makes it correct: no addition is lost, each letter is counted once, the
result is printed, and printed only when it is complete.

### What is hard to test

Interleavings of two unlocked threads, table ageing over many seconds with
several hosts, frames that wait in a socket while the table changes, exhaustion of
the port pool, byte order, a one-shot timeout, two copies of one mapping, carries
lost for some pairs of addresses only, files shorter than expected, TCP messages that
arrive glued together, a file name without its end, workers that die, handlers that
finish out of order. `PROJECT.json` lists these under `hazards`, each at its line and with
the properties that would catch it.

## Modules

| Module | Models | Extends / composes |
|---|---|---|
| `MacPortMap` | the table and its three operations, each atomic; the abstract specification of the database | – |
| `Switch` | packet thread, sweeping thread, clock and moving hosts around the table | `MacPortMap` |
| `SwitchProofs` | theorems about the table and the switch | `Switch` |
| `MacPortList` | the table as the pointers of `list.h`, one memory access a step | refines `MacPortMap` |
| `MacPortListProofs` | theorems about it, the refinement included, for operations that do not overlap | `MacPortList` |
| `EventLoop` | `poll` and the scan of both stacks | – |
| `SwitchStack` | the whole switch program | composes `EventLoop` and `Switch`, refines `Switch` |
| `EventLoopProofs` | theorems about the loop and about the switch program, the refinement included | `EventLoop`, instantiates `SwitchStack` |
| `NatBindings` | the promise of a translator, and a weaker form of it: the abstract specifications of the two versions | – |
| `NatPackets` | packets, ports and bounds of both versions | – |
| `NatPacketsProofs` | lemmas on byte order, searches and packets that the next proofs share | `NatPackets` |
| `NatTranslator` | `nat.c` with both threads | `NatPackets`, refines `NatBindings` |
| `NatTranslatorProofs` | theorems about it, the refinement included | `NatTranslator`, `NatPacketsProofs` |
| `NatHash` | `nat_new_2.c` with both threads | `NatPackets`, refines `NatBindings` |
| `NatHashProofs` | theorems about it, the refinement included | `NatHash`, `NatPacketsProofs` |
| `NatList` | one list of either version of the translator as the pointers of `list.h`, with and without the lock | – |
| `Checksum` | the checksums of a packet that is translated | – |
| `NatProofs` | theorems about the promise and about the checksums | `Checksum`, instantiates `NatBindings` |
| `WordCount` | holds | no lost update, no double count, also in a file with fewer bytes than workers, a result is printed, although workers die |
| `WordCountLetters` | violated | letters are missing in the printed result: those of workers that are slower than the last one, and the last one of every part but the last |
| `WordCountProofs` | theorems about it | `WordCount` |
| `MC…` | sets of model values for TLC | the module named |

Operators that TLC never uses except as a changed form of another one are
introduced by a comment starting with *Variant*; the `mutants` of `PROJECT.json`
put each in the place of the definition it varies, to show that the property it
is meant for depends on that definition.

### State and actions against the code

**MacPortMap.** `mac_port_map` is a sequence in list order. The code uses
`visited` only in `now - visited`; the model stores that difference (`age`) and
`Tick` increments it. Ages saturate at `AgeCap`, one above the bound that is
proved, so the saturation cannot hide a violation. `idle` counts the seconds
since the last sweep and `Tick` may not let it exceed `SweepPeriod`: the
assumption that a thread which sleeps one second is scheduled at least every
`SweepPeriod` seconds. `Insert`, `Sweep` and `Tick` are its steps.

**Switch.** `pc` follows `handle_packet`: `lookup_dst` (`Forward`), `lookup_src`
(`KnownSource`, `NewSource`), `insert` (`Learn`). `tx` is the set of interfaces
the frame was sent out of. `attach` is where hosts are plugged in; `Move` is the
environment. A frame keeps the interface it came from while it is handled, and a
frame of a host that may move can come from any interface: it may have waited in a
socket since before the move. So an old place can be learned long after it was
left. `quiet` is a history variable: the seconds since a host moved or was last
learned at a place it had left. `SwitchVisits` adds another, `unvisited`: the seconds
since a lookup of `handle_packet` last found the entry of a host, or `insert_mac_port` made it.

**MacPortList.** `next`, `prev`, `data` and `live` are the heap. `p` and `s` are
the two threads with the variables `pos` and `q` of their walks; every link
written by `list_insert` and `list_delete_entry` is a step. With `Overlap = FALSE`
no operation starts while the other thread is inside one, and the list then
implements `MacPortMap`. With `Overlap = TRUE`, which is the program, it does
not (`ListOverlap`). The atomic steps of `MacPortMap` and `Switch` thus stand for
the program with the lock that `mac.h` declares; what they show about threads
holds for interleavings of whole operations. During an operation the model's
clock stands still: the sweep reads the time once, before it reads the list.

**NatBindings.** `bind` gives an endpoint its port, `owner` a port its endpoint.
A packet arrives (`Arrive`) and is sent according to them (`Inbound`, `Outbound`) or
makes a binding (`Bind`); nothing is ever taken back. `Spare` is the one port that
several endpoints may be bound to, the one `assign_external_port` returns from an
exhausted pool. `Spec` is the promise of the repository's documents: every packet is
rewritten, also the one that makes a binding. `KeepSpec` is weaker: that one packet may
be sent as it came.

**NatTranslator.** Mappings are numbered by insertion; `maps` keeps all that were
ever inserted, `linked` says which are in the list and `freed` which were given
back. A port is a two-digit number in base `ByteBase` and `htons` swaps the digits.
`Recv`, `Lookup` and one of `TranslateIn`, `InsertMapping`, `TranslateOut` make
up `do_translation`; `StartTimeout`, `Keep`, `FreePort`, `Remove`, `EndTimeout`
are the timeout thread. Bindings are what the two searches find. `stall` is how many
seconds that thread may be held up after reading the clock. If it is less than the
timeout (`Prompt`) the test of the walk is never true, since it subtracts the wrong
way round, and nothing is removed; all properties are stated for this case. Without
`Prompt`, a step that reads a freed mapping still finds its old contents, and nothing is
claimed of what it sends. Insertion and removal are single steps: they stand for a program
that takes the lock `nat.h` declares, as `NatList` shows.

**NatHash.** `copies` numbers the copies as `maps` does, each with its bucket; a
walk of a bucket meets them in that order. `nat_insert_mapping` is two steps,
`InsertInternal` and `InsertExternal`, since the timeout thread may run in between; the
time of the first copy is set in the second. `Translate` stamps the copy that the
search found. `Crash` is the dereference of NULL. `hash` is a constant: any function
from endpoints to buckets. A mapping counts as a binding when the packet that
inserted it is sent. The clock runs during the walk of the timeout thread only,
because nothing else compares times. The dispatch of `main.c` and its echo replies
are in `NatTranslator`. Each of the two insertions is a single step, as in `NatTranslator`.

**NatList.** The heap is that of `MacPortList`: `next`, `prev`, `data`, `live`. `p` is the packet
thread, which searches for a key, uses what it finds or appends a block by the four
writes of `list_insert`; `t` is the one walk of `nat_timeout`, with the two writes of
`list_delete_entry` and `free`. `version` says whose list it is: `nat_new_2.c` also
appends the second copy of a mapping without a search, initialises the links of a new
block, and stamps what it has used. Of a time the model keeps whether it is 60 seconds or
more after the one that `nat_timeout` read, which is what its test asks; `Stall` lets
that time pass while the thread is in its walk. With `Locked = FALSE`, which is the
program, the walk follows NULL (`NatListUnlocked`). With `Locked = TRUE` the packet thread
holds the lock from the search to the last use, and the timeout thread while it tests and
removes one entry and goes on to the next; then a block in use is never freed, however late the
thread is, and what a walk sees changes only by whole insertions and removals
(`AtomicUpdates`): the steps of `NatTranslator` and `NatHash`.

**Checksum.** A byte has `ByteBase` values, a `u16` its square and a `u32` the fourth
power, and every addition wraps where the type of the code does. `TranslateIn`
or `TranslateOut`, `IpChecksum` and `TcpChecksum` are the steps of `do_translation`, from any
packet, with any checksums in it. `rest` stands for the words that no translation
changes. `Total` is the sum of the loop of `checksum`, word by word; the length of a segment
is assumed to fit its `u16`.

**EventLoop.** `queue` is the socket buffer of each interface, `revents` what
`poll` returned, `i` the position of the scan. `Receive` calls `handle_packet`,
`Transmit(ifs)` sends the frame out of any set of interfaces, whose sockets capture it
marked `PACKET_OUTGOING`, and `Return` goes on with the scan; frames arrive in between.
`stack` selects what only one of the programs does: `NoMemory`, and exiting when
an interface cannot be opened. A link that goes down is not modelled.

**SwitchStack.** The steps of the loop that call, or are part of, `handle_packet` are
taken together with those of `Switch`: `Receive` with `Enter`, `Transmit` of the
interfaces that `Forward` chose, `Return` with `KnownSource` or `Learn`. `header` holds
the addresses of each frame, `out` the interfaces it was put on.

**WordCount.** A table is the set of positions it counts, `ans` a count per
position; every byte stands for a letter. `Load` and `Store` split `ans[i] +=`.
`fileLen` is any of `FileLens`. `Coalesce` lets the first `recv` return more than one
message, `MayDie` lets workers die. The server sends the file name without a NUL and the client clears only
four bytes of its buffer (`client.c:46`), so `NameRead` is the file's name or a longer one,
depending on what the stack holds (`CleanStack`: zero) or, if the start came
along with the name, on the lowest byte of the start. `open` of a longer name, or of none,
fails unnoticed, and the table is empty. Numbers that stem from uninitialised memory or from running past a
buffer are not letters of the file: `garbage` records whose table has some.

## Runs

| Run | Verdict | Shows |
|---|---|---|
| `Switch` | holds | 2 hosts, 3 interfaces, one host moves, sweeps up to a second late: no duplicates, age bound, use of the table as specified, delivery to settled hosts, hosts that have fallen silent are forgotten |
| `Stack` | holds | the whole program implements `Switch` although its sockets capture what it sends, and every frame is put where it has to go |
| `ListSerial` | holds | operations that do not overlap keep the ring intact and implement the table |
| `ListOverlap` | violated | unlocked walks follow NULL or freed links |
| `Nat` | holds | `nat.c` keeps to its bindings (`KeepSpec`); pool and table agree; replies return, no mapping is freed in use, with an exhausted pool too |
| `NatFirstPacket` | violated | the packet that makes a binding is sent with its private source |
| `NatExpire` | violated | nothing expires |
| `NatHash` | holds | `nat_new_2.c` implements the bindings; only packets to ports never given out crash it |
| `Checksum` | holds | IP checksums are always good, TCP checksums exactly if no carry is lost |
| `Loop` | holds | `recvfrom` never blocks, frames are handled once, overtaking is bounded, every frame is received |
| `WordCount` | holds | no lost update, no double count, also in a file with fewer bytes than workers, a result is printed, although workers die |
| `WordCountLetters` | violated | letters are missing in the printed result: those of workers that are slower than the last one, and the last one of every part but the last |

The violated ones state what a comment or a document of the repository says;
`findings` in `PROJECT.json` quotes it. Other differences between the code and
its comments were met while modelling. They are in the models, but no run is
spent on them:

* the number the sweeping thread logs as entries removed (`mac.c:123`) is the
  index of an interface (`mac.c:104`);
* a host that has moved is not re-learned before its entry is swept
  (`SettledDelivery` says what this comes to);
* `update_time` is "when receiving the latest packet" (`nat.h:44`) but is only
  set at insertion;
* `free_port` is handed a port in network byte order (`nat.c:309`) for a pool
  that is indexed in host byte order;
* a packet from outside that finds no mapping is to get one, say the notes on the
  experiment (`NAT地址转换实验.txt:18-20`); `nat_new_2.c:272` dereferences NULL instead.
  `CrashOnlyUnknown` shows that the replies of flows never meet that line;
* the same notes say that packets are dropped if the checksums are not
  calculated anew (`:21-22`). They are, but a carry is lost when the sum of a TCP
  pseudo header and segment passes 2^32 (`tcp.h:56`: on a little-endian machine the two
  addresses alone do when their last octets add up to more than 255) and when the odd
  last byte overflows the folded sum (`checksum.h:17`). `TcpChecksumVerifies` says that
  these are exactly the packets with a bad checksum;
* mappings share port 65535 once the pool is exhausted (`nat.c:96`);
  `PoolMatchesTable` shows that this is the only port they ever share, and in
  `nat_new_2.c` the port is 0;
* a packet from outside to an unknown port inserts a mapping with a public
  `internal_ip` (`nat.c:234`, `nat.h:39`);
* `calculate` is to work through `[start,end]` (`client.c:73`) and reads
  `end - start` bytes; this is one of the two ways in which `WordCountLetters` loses letters;
* the file name is not terminated (`server.c:62-63`, `client.c:46`): unless the stack
  happens to hold a zero behind it, the worker opens no file and its table is empty. With
  `CleanStack = FALSE`, `EveryLetterCounted` fails for this reason alone, with one worker
  (`IPnum = 1`) who has no slower colleague and no inner end of a part.

### Further configurations

Four configurations are kept beside the runs, for questions whose code a run already
exercises. `tlc -config C.cfg M` checks them.

| Configuration, module | Verdict | Shows |
|---|---|---|
| `SwitchVisits`, `SwitchVisits` | `VisitedStay` violated | an entry that was just visited is swept, though `mac.h:18` says "when this entry is visited last time" and `mac.c:91-92` that what has "not been visited in the last 30 seconds" is removed |
| `NatListLocked`, `NatList` | holds | under the lock the pointer operations of the translator are atomic, and nothing freed is followed or used |
| `NatListUnlocked`, `NatList` | `SafeWalk` violated | without it the walk of `nat_timeout` follows a NULL link; `nat.h:56` says "each nat operation should apply the lock first", `list.h:24` that the walk is safe while nodes are added or removed |
| `WordCountCoalesce`, `WordCount` | `EventuallyPrints` violated | messages that arrive glued together make client and server wait for ever; `socket-exp/README.md:9` says that the client returns its result |

### Bounds

* `Switch`: timeout 2 and period 2 let entries age, queue behind each other, miss
  a sweep and be swept while a frame is handled; three interfaces make forwarding
  differ from broadcasting and from returning a frame. `SwitchProofs` covers any number
  of hosts. `SwitchVisits` needs no more.
* `Stack`: two interfaces, two hosts and two frames, with timeout and period 1, so that
  one frame waits or is handled while the entry made by the other ages. Failing
  receptions are left to `Loop`; either interface may fail to open.
* `ListSerial`: two hosts give lists of length 0, 1 and 2, hence removal at the
  head, at the tail and of the only entry; a third block lets a freed one be
  reused or not. `ListOverlap` needs no more.
* `Nat`: ports 6 and 7 of base 4 (the loop never reaches `NAT_PORT_MAX`), three
  mappings: the pool is exhausted by the third. No pool port is its own swap.
  `Stalls` = {1, 2} around the timeout of 2 has both the timeout thread that is
  prompt and the one that is not, which is the one that removes mappings.
* `NatHash`: ports 6 and 7 (here the loop reaches `NAT_PORT_MAX`), three mappings, six
  copies, two buckets. The hash function of the run lets copies of every kind meet:
  two of one mapping, two external ones, an internal and an external one. Packets from
  outside go to port 13, the swap of 7, which is given out second: it is addressed
  before and after. The run may end, with the crash of the program or at the bound on
  mappings, so deadlock is not checked.
* `NatListLocked`: three blocks and two keys, for lists of up to three entries, removal at
  the head, in the middle and at the tail, entries with the same key as in a shared
  bucket, and a freed block that is reused while the walk goes on. A search for
  a third key would end as one for a key that is not there.
* `Checksum`: bytes of two bits, up to five words and an odd byte; addresses of which
  some pairs wrap a `u32` and others do not. With 16 values per word each of the
  sums at which a carry appears or vanishes is met.
* `EventLoop`: three interfaces are needed for overtaking by two others; queues
  of two so that a frame can wait behind one that is captured.
* `WordCount`: three workers, so that there are two handlers besides the one that is
  joined; a file of 8 bytes, with parts of different lengths, and one of 2, whose parts but
  the last go from 0 to -1. Stacks are clean, as a worker without a file only adds an empty
  table; `WordCountProofs` covers those that are not. `WordCountLetters`: two workers
  and 7 bytes, clean stacks.
* `MaxMappings`, `MaxTime`, `MaxFrames`, `MaxErrors` bound counters only.
  Deadlock is not checked in `EventLoop` (no frame need ever arrive) and in
  `WordCount` (the programs end).

### Fairness

`Switch`: both threads loop for ever and are scheduled, and time passes; nothing
is assumed of hosts. `SwitchStack`: the main thread is scheduled. `NatTranslator`:
both threads are scheduled, time passes.
`EventLoop`: the thread of the loop is scheduled; frames need not arrive, and
`RecvError` is bounded. `WordCount`: every thread and process is scheduled and all
configured clients connect, which `accept` waits for; nothing is assumed of
`Die`, `SigPipe` and `AcceptFailed`. All are weak: no step needs to be
repeatedly enabled and disabled to get its turn, except `Lock`, which is the
next step of a handler whose rivals release the lock a bounded number of times.

## Proofs

Those about the switch hold for every set of hosts (finite) and interfaces, every timeout and every
sweeping period, from the assumptions named in `MacPortMap` and `Switch`.

* `TableInvariance`, `TableUniqueMacs`, `TableAgeBound` (`SwitchProofs`).
  `AgeBound` alone is not inductive: a table of many entries at the bound has no
  way to be swept in time. `TableInv` adds that addresses are unique, so that
  the list is no longer than the number of hosts; that the list is ordered by
  age, so that the first aged entry a sweep meets is the head (`SweepRemovesHead`);
  and `Backlog`: an aged entry at position *k* is at least *k* periods
  away from the bound, less the time since the last sweep. A sweep shifts
  positions by one and pays for the period that has passed; a tick adds a second
  to both sides.
* `SwitchTypeCorrect`, `SwitchImplementsTable`, `SwitchUniqueMacs`,
  `SwitchAgeBound`, `SwitchDelivers` (`SwitchProofs`). The switch implements the
  table (`TableSpec`) because an address that was missed is still missing when it
  is inserted (`MissStillMisses`): sweeps only remove, and there is one packet
  thread. Delivery follows from the age bound and `StaleAge`: an entry that names
  an interface its host has left is at least as old as `quiet`, so once a host
  has been quiet for longer than `MaxAge` no such entry is left, and the frame is
  either sent to the right interface, or broadcast, or came from there.

The theorems about `Switch` allow frames that waited in a socket during a move. This is what
the refinement `StackImplementsSwitch` below rests on: with it they hold of the program with
its receive loop.

**The linked list** (`MacPortListProofs`), for any number of blocks, hosts and interfaces.
The theorems are about the program, which takes no lock, and have the form
`Spec /\ []Serial => …`: they speak of every execution in which no two operations happen to
overlap. Put the other way round, a walk that leaves the list is always the doing of two
operations that overlap; `ListOverlap` is such an execution. `ListLockSerialises` shows that
`[]Serial` holds if every operation waits for the other thread to be outside its own
(`~ Overlap`). `TypeOK`, `SafeWalk` and `WellLinked` say nothing of the links in the middle
of an operation, and are not inductive.

* `ListInvariance`. `ListInv` says that at every memory access there is a sequence of
  distinct blocks `c` and a place `j` with `Ring(c, j)`: the links of the head and of `c` are
  those of a ring, except for the ones that the operation under way has written ahead or
  still has to write (`NextLinks`, `PrevLinks`); the blocks in use are those of `c` and the one
  that is about to be linked or was just unlinked (`Distinct`, `Extra`); a walk is at place
  `j`, and has met neither the address it looks for (`PacketAt`) nor an aged entry
  (`SweeperAt`) before it. One lemma for each action; `StepRing` puts them together:
  the third write of `list_insert` appends to `c`, the second one of `list_delete_entry` takes
  place `j` out of it, and no other step changes `c`.
* `ListSafeWalk` and `ListTypeCorrect` follow directly. For `ListWellLinked`, `ChainIsRing`
  shows that `Chain`, which follows the pointers by recursion, finds exactly `c`: the
  prefixes of `c` satisfy its equation, and a function that satisfies it differs from them
  at no least place.
* `ListImplementsTable`. `Link3` is `Insert`: the address has not been met on the whole
  walk. `Unlink2` is `Sweep` of the first aged entry; the step of a sweep that arrives
  at the head is `Sweep` with nothing to remove; `Tick` is `Tick`; all others leave the
  table alone. With `TableAgeBound` and `TableUniqueMacs` the database theorems hold of the
  pointers too.

**The receive loop** (`EventLoopProofs`), for any number of interfaces, frames and
places in a socket, and for either program.

* `LoopNeverBlocks` and `LoopHandlesOnce`. That a frame is handled once is not inductive:
  one that waits twice, or waits although it was handled, breaks it. `Unhandled` excludes
  both: what waits to be received has arrived and was not handled, and waits in one
  place; the copies that sockets capture are marked and do not count.
* `LoopBoundsBypass`. The bound on `bypassed` holds at the end of the turn of an
  interface; `Overtaken` says for every place of the scan how much of it can be used up
  (`BypassLimit`), which depends on whether `poll` reported the interface and on whether
  the scan is past it.

**The switch program** (`EventLoopProofs`), for any number of hosts, interfaces and frames.

* `StackImplementsSwitch`. `Receive` has to be a `Recv` of `Switch`, which admits only frames
  of a host that is plugged in where they came from or that may move. This needs
  `StackInv`: what waits in the socket of interface *k*, and is not a captured copy, has
  addresses and was sent by a host at *k*, which is still there unless it may move
  (`Addressed`); captured copies are passed over; and the socket that the loop reads from
  holds a frame (`NeverBlocks` and `InHand`), so there is one to speak of. `Forward`,
  `NewSource`, `Return`, the sweeping thread and the environment take the step of `Switch` of
  that name; arrivals and the rest of the loop leave its variables alone (`LoopStepCases`).

**The translator.** `NatPacketsProofs` shows that swapping the bytes of a port twice gives
the port back, in any base, hence that different ports of the pool are different in network
byte order; and that a search returns the first match. The theorems hold for any
addresses, ports, base, pool, timeout, delays and bounds that satisfy the assumptions of
`NatPackets`: private, public and own addresses differ, and neither the first nor the last
port is in the pool (both stand for an exhausted pool).

* `RepliesAlwaysReturn` (`NatProofs`). `RepliesReturn` is inductive as it stands: a binding
  is only added, and with a port that leads nowhere yet (`BindReturns`). It is proved of
  `KeepSpec`, for any packets, hosts and ports, without an assumption, and so holds of both
  versions: `nat.c` is proved to implement `KeepSpec`, `nat_new_2.c` to implement
  `Spec`, which implies it (`PromiseKeepsBindings`).
* `NatPoolMatchesTable`, `NatMappingInUse`, `NatReplyReachesSender`, `NatTypeCorrect`
  (`NatTranslatorProofs`), from `NatInv`. `Walking`: the mapping the timeout
  thread goes on to lies behind the one it is at, so removing that one leaves it in the
  list. This part needs no `Prompt`. `Timely`: no mapping is of the future, and
  a walk has not lasted longer than `stall`; so with `Prompt` no mapping is seen as
  expired (`PromptNeverExpires`). `Untouched`: with `Prompt` nothing is removed, so what a packet's
  search has found is still what it would find.
* `NatKeepsBindings`: `InsertMapping` is the binding step of `KeepSpec`, `TranslateIn` and `TranslateOut` are
  `Inbound` and `Outbound`, `Recv` is `Arrive`, `EchoReply` is `Answer`, and everything else
  leaves the bindings alone. A mapping goes to the end of the list and hides none from a
  search; its port leads nowhere yet, as the pool marks the ports of all others.
* `HashCrashOnlyUnknown`, `HashReplyReachesSender`, `HashTypeCorrect`
  (`NatHashProofs`), from `HashInv`, for any hash function and number of buckets. What is
  new is that a search looks into one bucket, so that a mapping may be there and not be
  found. `SourceCopied` and `PortCopied` say that each mapping has a copy in either of the
  buckets that are searched for it, except the one that is being inserted, whose external
  copy comes a step later. `OneToOne` ties the two together: copies with one source
  have one port, and with one port of the pool, one source. `Found` is what the packet
  thread may rely on between its steps.
* `HashImplementsBindings`: the mapping that is being inserted does not count, so the two
  insertions change no binding, and `Translate` is `Bind` for the first packet of a
  mapping, and `Inbound` or `Outbound` for the others.

**The checksums** (`NatProofs`), for bytes with three values or more, any addresses and words, and
segments whose length fits a `u16`. (With bytes of two values three lost carries could
cancel out.)

* `TotalIsSum`: the sum of some words is the last of the partial sums that the loop goes
  through. That there are such sums, that *n* words of at most *b* add up to at most *n b*
  (`TotalBound`) and that adding *c* to one word adds *c* to the sum (`TotalOfMore`) are shown by
  least counterexamples, as the prover has no induction.
* `FoldedFacts`: two foldings take all carries of a `u32` and keep the remainder modulo
  2^16 - 1. `ChecksumValue`: the checksum is the complement of the folded sum and the odd byte,
  without the carry of that last addition. `SumVerifies`: so the receiver's total is, modulo
  2^16 - 1, the number of carries lost, as 2^32 and 2^16 are both 1 modulo 2^16 - 1.
* `IpChecksumsVerify`: the header words do not reach 2^32 and there is no odd byte, so no
  carry is lost. `IpGood`, the invariant, says so from the step that writes the checksum on.
* `TcpChecksumsVerify`: the addresses and the words of a segment stay below 3 · 2^32
  (`PseudoBound`, `SegmentSum`), so at most three carries are lost, too few to cancel out: the
  total is good exactly if none is. The step that writes the checksum changes nothing
  that was summed up (`TcpChecksumStep`). `ChecksumTypeCorrect` is used by both.

**The letter count** (`WordCountProofs`), for any number of workers, any lengths of the file,
whether or not messages are glued together, workers die and file names are terminated.

* `CountLosesNoUpdate` follows from `Locked`: the handlers between lock and unlock are at
  most one, and what it has loaded is still what `ans` holds when it stores the sum.
* `CountedAtMostOnce` needs to know what is in the tables that were added. `InOrder` says
  which messages of its task are on their way to a client, `Received` what a client
  has got when it has come to a line, and `Tables` that a table that is added holds
  nothing but the part of its worker. The rest is arithmetic: the parts of two workers
  do not overlap.

Only model-checked: liveness (`Forgotten`, `Delivered`, `Received`, `EventuallyPrints`: the
prover does not reason about fairness or `ENABLED`), and `NatList`, whose ring argument
would be that of `MacPortListProofs` over again. The properties of the violated runs are
false, and nothing is proved of them.

## Not modelled

`libipstack` (a binary outside the repository), functions without a caller
(`destory_mac_port_table`, `dump_mac_port_table`, `nat_table_destroy`,
`nat_update_tcp_connection`, `icmp_checksum`, and `nat_hash` and `is_flow_finished` of
`nat.c`), the values of `hash8` (any hash function does), logging, memory leaks,
start-up failures other than interfaces that cannot be opened, the reading of
`workers.conf`, the exits of the server when its socket cannot be made or bound, a `recv` of
a table that returns fewer than its 104 bytes (they are sent at once and fit in one segment),
examples, topologies, scripts and the reference binaries.

## Plan

Done: the switch (table, threads, list, receive loop and their composition), both
versions of the translator against one abstract specification, the checksums, and the
letter count; the list of the translator at pointer level, with the lock that `nat.h` asks
for and without it; proofs of the safety properties and refinements of all but the last. What
could follow are proofs about `NatList`.
