# Verification of the SPbAU OS-course kernel

TLA+ models of the kernel in `src/`, model-checked with TLC, and theorems about
them checked with TLAPS. The kernel is a small 64-bit one for one x86
processor: it boots through multiboot, builds its allocators, runs kernel
threads preempted by the interval timer, and keeps a file system in memory.

## The system

| Part | Files | State | Operations | Used by |
|---|---|---|---|---|
| Locks | `lock.c` | `users`, `ticket` of each lock; `lock_nesting_depth`, the flag IF | `lock`, `unlock`, `lock_with_interrupts`, `unlock_with_interrupts` | everything below |
| Lists | `list.c` | `next`, `prev` of nodes embedded in objects | `list_init`, `list_add`, `list_add_tail`, `list_del`, `list_splice`, ... | allocators, threads, file system |
| Threads | `threads.c`, `threads_wrapper.S` | ring of `struct thread`, `current_thread`, `elapsed_time`, one stack each | `thread_create`, `thread_exit`, `thread_join`, `thread_yield` | tests |
| Timer | `pit.c`, `wrapper.S`, `interrupt.c` | the pending tick, IF | `pit_handler` → `thread_schedule` → `thread_yield` | the processor |
| Page allocator | `buddy_allocator.c` | a descriptor per page, a free list per level | `init_buddy`, `allocate_page`, `free_page` | slabs, stacks, file contents |
| Slab allocator | `slab_allocator.c` | slabs of an allocator, descriptors of free objects | `create_slab_allocator`, `slab_allocator_allocate`, `slab_allocator_free` | threads, file system |
| File system | `file_system.c` | tree of `struct file`, block of each file, descriptors | `open`, `close`, `read`, `write`, `mkdir`, `readdir`, `print_file_system` | initramfs, tests |
| Memory map and boot | `memory_map.c`, `bootstrap_allocator.c`, `main.c` | regions of memory and their types | `get_memory_map`, `mark_as_reserved`, `memory_map_allocate` | `main` |
| Page tables | `paging.c`, `bootstrap.S` | tables of four levels | `setup_identity_mapping`, `init_paging` | `main` |
| Interrupts | `interrupt.c`, `wrapper.S`, `pit.c` | the IDT, the masks and vectors of two controllers | `init_interrupt_controller`, `init_idt`, `init_pit`, the handlers | `main`, the processor |
| Initial RAM file system | `initramfs.c` | the module's place | `init_initramfs`, `load_initramfs_module` | `main` |
| Formatted output | `print.c` | the buffer, the length counted | `printf`, `snprintf` | everything |
| Machine access | `uart.c`, `videomem.S`, the rest of `bootstrap.S` | ports | set-up and I/O | `main` |

How they interact. All of it shares one address space and one processor, so the
only concurrency is the timer interrupt: wherever IF is set, a tick may run
`thread_schedule`, which may switch to any other thread. `threads_lock` is
taken with interrupts disabled and handed over: the thread switched from locks
it, the thread switched to unlocks it. The allocators and the file system use
plain `lock()`, with interrupts as they are; `thread_create` and `thread_yield`
call the allocators while interrupts are off.

What is hard: the hand-over of a lock and of IF across `switch_threads`; a
handler that may come between any two accesses; finished threads that still run
on the stack another thread will free; descriptors and list nodes that keep
what they said before; sizes and levels at their boundaries; page requests that
fail half-way; look-up and insertion under two holds of a lock. `PROJECT.json`
lists the hazards one by one with the properties that cover them.

## The modules

| Module | Models | Promise it implements |
|---|---|---|
| `SpinLock` | `lock`, `unlock` (`lock.c`) | `FifoLock` |
| `Threads` | `threads.c`, `threads_wrapper.S`, the interrupt-disabling lock, the timer | `ThreadService` |
| `ThreadsInvariant` | — the inductive invariant of `Threads` | |
| `LinkedList` | `list.c` | `ListSequence` |
| `Buddy` | `buddy_allocator.c` | `PageAllocator` |
| `ThreadStacks` | the stacks of `threads.c` on `Buddy` | |
| `Slab` | `slab_allocator.c` | `ObjectPool` |
| `Files` | contents of files in `file_system.c` | `FileContents` |
| `Directories` | `open`, `mkdir` and `readdir` on the tree | |
| `Initramfs` | `load_initramfs_module`, filling `Directories` | |
| `Listing` | `print_file_system` on the links between files, beside `Initramfs` | |
| `Boot` | `memory_map.c`, and `main` up to `init_paging` | |
| `Paging` | the page tables of `bootstrap.S` and `paging.c`, after `Boot` | |
| `Interrupts` | `interrupt.c`, `wrapper.S`, `pit.c`, after `Paging` | |
| `FormattedOutput` | `print.c` | |
| `SpinLockProofs`, `ThreadsProofs`, `AllocatorProofs`, `DirectoriesProofs`, `ListProofs`, `FilesProofs`, `BootProofs` | — theorems | |
| `Induction` | — least elements, induction on sets of numbers and iterated functions, for the proofs | |

`MCX` instantiates `X` for TLC. Definitions that begin with the comment
"Mutation:" are not part of the model: each is a variant of the definition below
it with a plausible mistake, used to show that a property notices it.

### State and actions

*SpinLock.* One lock; a step is one access to its counters. `Take` is the atomic
fetch-and-add, `Acquire` the read that ends the loop, `Unlock` the increment.
The counters wrap at `TicketMod`, which is 2^16 in the code. `Queue` lists those
who wait by the distance of their tickets from the one being served; it is the
queue of `FifoLock`.

*Threads.* `cpu` is the thread whose stack the processor is on, `pc[t]` the place
where `t` is or will continue, `stack[t]` the places to return to. Where
interrupts are on, a step is one access to shared state; where they are off and
nothing else can run, `CreateBody`, `YieldReap` and `ExitBody` take what lies
between two decisions as a step. `switch_threads` is `YieldSwitch`: it saves IF and
`pc` in one stack and takes both from another. `Timer` is an interrupt gate: it
pushes the place to return to and clears IF; `TickIret` undoes that.
`lock_with_interrupts` spins for ever if the lock is taken, for IF is off, and is
modelled as doing so. The ring is a sequence (`LinkedList` justifies that) and an
allocator's lock is the queue of those that drew tickets (`SpinLock` justifies
that). A thread's own code is any sequence of calls: `UserStep`. Only a thread
in `Spawners` creates and joins, each thread it created once; a thread in
`HeapUsers` calls the allocators itself, as the file system does, and a call of the slab allocator
may take the lock of the page allocator inside its own, for as many slabs as it makes (`NewSlab`). Freeing a thread
object resets its fields in the model, which nothing can observe and which
keeps states few.

*LinkedList.* Pointers as functions, stale ones included. Operations are steps,
because their callers hold a lock; in `list_insert` and `list_splice` the order of
assignments is kept where nodes may coincide.

*Buddy.* `is_free` and `level` of a descriptor are never cleared when its block is
merged into another; the model keeps that. `call` is the call that holds
`buddy_allocator_lock`, with its local variables: an iteration of the loop of
`allocate_page` that cuts a block in two, or of the loop of `free_page` that merges
a block with its buddy, is a step, and so is each page `init_buddy` adds, in any order, for the
regions of a memory map need not be sorted. The levels of the descriptors start with `Garbage`, of each its own:
their memory is not cleared. The
lists are sets: which block of a level a request gets is left open.

*ThreadStacks.* `Buddy` with the levels `threads.c` uses: a stack is allocated at
`THREAD_STACK_SIZE_LOG / SMALL_PAGE_BITS` = 1 and freed at `THREAD_STACK_SIZE_LOG` = 12.

*Slab.* Addresses are numbers and slabs are laid out byte by byte. The lists of
descriptors are sequences, in the order `list_add` makes; big slabs take and give
back objects of the allocator `Descriptors` inside the same call. The call is a
step, under `slab_allocator_lock`.

*Files.* A file is a block of 2^level pages, a size and the bytes. A write tries
the levels from the one it needs down; for each, `memory[k]` says whether the page
allocator has a block. The reads and writes hold the file's lock. At level 0 the
code shifts by -1: the kernel is built without optimisation, the processor
takes the shift count modulo 64, and the result is 0 (`HalfCapacity`).

`open` with `O_TRUNC` empties a file while others have it open, between their calls:
their offsets then lie beyond its end.

*Directories.* A step is one hold of a directory's lock. `Matches` is what
`strncmp` with the length of the wanted name does: it also accepts names that
only start with it. `readdir` is an open of the first child of its
directory.

*Listing.* `print_file_system` takes no lock, so each of its reads of a pointer is a step, and the steps of the
other threads come between them; `stack` holds its recursive calls of `print_directory`. `next` and `prev`
of the files are there for it, with `list_insert`'s assignments. They are one step with `add_to_directory`, for of those
only `prev->next = new` can be seen by someone without the lock: before it nothing leads to the
new node, and `prev` is read inside the lock only. A first child is a list of its own from `list_init` on, and becomes
visible with `directory->children`.

*Initramfs.* The archive is a sequence of entries; the walk is over addresses, as in
the code: `align` of sizes, sizes parsed from their hexadecimal digits, the
trailer. What a header holds at an address is the format `cpio` writes (external).
An address where no header starts leads to the state "undefined", which
`NeverUndefined` excludes; the addresses of the headers are a recursive function of
the archive (`Headers`). The boot thread's calls of `mkdir` and `open` are
those of `Directories`; threads start when it is done. `NeverUndefined` also
excludes that `open` returned NULL for an entry, which the code does not test
before `write`. It says so of a `Proper` archive: one that lists a directory before what is in
it and lies at a multiple of 4 (`mod_start`), which the code relies on and nothing checks; the model has the others as
well. The walk ends at the trailer, or at an entry whose name starts like the trailer's (`Ends`):
`ArchiveLoaded` is about the files before that.

*Boot.* Memory is a set of bytes, regions are intervals of it, a step is a
function that `main` calls. The firmware's map, the kernel and up to two modules,
each of which is an archive if it begins with the magic number, are chosen in the
initial state. Without a map from the firmware `get_memory_map` returns before it cuts out the kernel.

*Paging.* A table is a function of its index and the memory it takes up; an entry
names the memory or the table it maps. A new table is not cleared: its entries are `Uncleared` until they are
written. It is written at its `va()`: if that is not mapped yet (`Reached`), the model stops in the phase "fault",
as the kernel would. The three windows of `bootstrap.S` share their lower tables;
`init_paging` replaces them by new ones, an `init_entry` a table or big page. The
addresses of the image's own tables, which are no memory of `Boot`'s map, are
negative numbers.

*Interrupts.* The controllers and the IDT are set up first; then come the steps of
`Boot` and `Paging`, the timer, `sti`, and handlers at work. A handler that takes an
error code off the stack where there is none, or leaves one, goes astray; `timer` sends it before
`thread_schedule`, so that another thread may take ticks while the first is
suspended in the handler. The controllers (priority, in-service bits, the spurious
interrupt) and what the processor pushes are external.

*FormattedOutput.* Conversions produce sequences of digits; a step is a call of `print_symb`.

## What the runs check

| Run | Configuration | Bounds | Shows |
|---|---|---|---|
| `spinlock` | `MCSpinLock` | 4 threads, 4 tickets: the counters wrap, and as many wait as tickets can tell apart | mutual exclusion, no starvation, first come first served (`FifoLock`, with its fairness) |
| `threads` | `MCThreads` | 3 threads of which 2 create, join and use the allocators, 2 values, quantum 2, one handler per stack | `threads_lock` is held exactly in critical sections, suspended threads continue with an unlock and IF off, stacks are alive, the ring has exactly the threads not joined, and the calls do what `ThreadService` says |
| `threads_live` | `MCThreadsLive` | 3 threads, one creates and joins, quantum 1 | joins return, every thread gets its turn, every stack is given back |
| `threads_hang` | `MCThreadsHang` | 2 threads, one uses the allocators | violated: see below |
| `linked_list` | `MCLinkedList` | 2 lists, 3 nodes | well-formed lists, sizes, sequences |
| `buddy` | `MCBuddy` | 8 pages all available, or 6 with a hole and an odd end; requests up to level 2; an iteration of a loop a step | no page lost or given twice, merging complete, stale descriptors harmless, requests fail only when they must |
| `thread_stacks` | `MCThreadStacks` | 8 pages, level 2 for level 12 | violated: see below |
| `slab` | `MCSlab` | pages of 8 bytes, up to 5 of them, one allocator of each kind | objects, nodes, descriptors and slab structures never overlap, no block is lost, only an object larger than a slab is refused |
| `files` | `MCFiles` | 1 file, 2 descriptors, blocks of 1, 2 and 4 pages of 2 bytes, any page request fails, truncation while others have the file open | a block fits its file whatever fails; reads and writes do what `FileContents` says |
| `directories` | `MCDirectories` | no archive, one of two with files whose sizes need padding, a link and a name that starts like the trailer's, or one that lacks a directory, at any alignment; then 2 threads, 2 calls each, a name that is a prefix of the other | the walk of the archive ends and makes what it lists; the tree stays a tree, what a path leads to never changes, what a call returned stays where it was found, and `print_file_system` prints each file once, whatever is added meanwhile |
| `boot` | `MCBoot` | 3 regions with bounds inside pages of 3 bytes, 4 or 5 big pages of 24, 2 regions with the tables across or behind the end of what `bootstrap.S` maps, or no map; tables of 8 entries, kernel and up to two modules at the edges of regions; then every fault and the lines of both controllers, 2 threads, 3 handlers nested | the map is exact to the byte and stays below its 32 entries, the page allocator gets exactly the whole free pages, start-up memory is handed out once; each window maps what it should at every moment, no table overlaps another's or given memory; a tick comes through whatever else interrupts |
| `print_buffer` | `MCFormattedOutput` | 8-bit numbers, buffers of 1 to 10 symbols | violated: see below |

Why the bounds are enough. Three threads are the least with which a thread that
is neither running nor next is in the ring, is removed or is passed over, and
with which two threads compete for a third one's object. With one handler per
stack every place is interrupted, and a handler's own `thread_yield` is followed
by other threads' handlers; a second handler on the same stack can only come
after `yield_unlock` of the first one, and does what the first did. Two
values tell a thread's own value from another's. In `buddy`, eight pages merge into one
block of the highest level, and the other memory has a block whose buddy is
outside and one whose buddy has a hole. In
`slab`, the sizes make slabs of several objects, of an object with a gap, and of
none. In `files`, two descriptors are enough for an offset to be passed by a
truncation. In `directories`, both threads can be inside the call that adds the
same name; objects of files are interchangeable, and the run uses that symmetry. Files are printed
there while both threads make files and directories, and no archive was loaded (`MCPrinting`): an archive would
use up the objects of files, and the other calls change nothing.
In `boot`, memory ends at the end of what `bootstrap.S` maps or one or two big pages
behind it, and tables of 8 entries need several for it; interrupts are looked
at after one way of starting (`MCOneStart`), which they do not depend on;
of the 32 faults three are left out: 15 is reserved, and 21 and 29 belong to
features the kernel does not enable. `CHECK_DEADLOCK FALSE` is said where the system stops: by design at a
bound (`slab`, `directories`), at the end of `main` (`boot`) and of a format
(`print_buffer`), and in `threads`, where a kernel that spins with interrupts off
stops, which is the subject of `threads_hang`.

Fairness (`Threads`). The timer keeps ticking, and a tick is held back while IF
is off: strong fairness of `Timer`. A tick takes microseconds and ticks are
milliseconds apart, so what a tick interrupts, at each level of nesting, gets on
whenever its thread has the processor again and again: strong fairness of each
thread's kernel steps at each nesting. No thread is obliged to make a call, to
finish or to join. `SpinLock` assumes of its callers what `Turn` shows: a thread
that can leave the loop gets the processor, and a holder unlocks.

## What does not hold

* `threads_hang`. A thread interrupted between `lock` and `unlock` of the page
  allocator is switched out; the next `thread_yield` that finds a finished thread
  calls `free_page` with IF off and spins on that lock for ever (`threads.c:111`,
  likewise `thread_create` at `threads.c:33`). `test_all` meets it when
  `test_threads()`, commented out at this commit, runs before `test_file_system()`.
* `thread_stacks`. Stacks are freed at level 12 (`threads.c:111`) although they
  were allocated at level 1 (`threads.c:34`): pages that others own are handed out.
* `print_buffer`. `print_symb` drops the symbol at the bound and writes those
  after it (`print.c:11`); `test.c:19-20` overruns its buffer.

More was met while modelling, and has no run:

* two threads that create the same path at once get two files, of which the path
  leads to the first (`file_system.c:136-143`);
* above 4 GB, page tables may lie in pages that the page allocator already has, because
  `init_paging` comes after `init_buddy` (`paging.c:41`): `TablesApart` says so
  up to what `bootstrap.S` maps, and is false without that bound;
* a page table is not cleared (`paging.c:12`), and with memory set aside for tables above 4 GB it is written
  before its address is mapped (`paging.c:21-24`): the phase "fault" of `Paging`;
* `make_initramfs.sh` called for a directory `a/b` makes an archive without an entry for `a`: `open` then returns NULL to
  `write` (`initramfs.c:46-47`). The Makefile's own call, for `test_dir`, is fine;
* nothing asks the boot loader for aligned modules (`bootstrap.S:5`), which the walk over an archive relies on;
  and it ends at a file whose name starts with `TRAILER!!!` (`initramfs.c:34`);
* `make_paging` maps for ever if the size of memory is no multiple of 2 MB (`paging.c:17`);
* the comments at `bootstrap.S:94` and `bootstrap.S:220` speak of the lower 1 GB where
  4 GB are mapped;
* `test_thread_yield` takes one order of two threads for granted (`test.c:94`,
  `test.c:110`), and `test.c:161` reads through a descriptor it has closed.

## What is proved

`SpinLockProofs`, for every finite set of threads and every counter width, from
`FewThreads`: no more threads use a lock than there are tickets (2^16 in the
code; with one more, two callers draw the same ticket).

* `TypeCorrect`: `TypeOK`.
* `Exclusion`: `MutualExclusion`. It is not inductive. The invariant adds that the
  tickets of the threads inside are different, that each lies between `ticket` and
  `users` counted around the wrap, and that the holder's is the one being
  served. The number of threads inside bounds that distance, so a new ticket is none of theirs.
* `ServedFifo`: the initial states and the steps of the lock are those of `FifoLock`,
  with `Queue` as its queue. It adds to the invariant that those who wait have drawn
  the tickets 1 to n behind the one served, without gaps (`PlacesTaken`); `Lists`, `ListAppend` and
  `ListTail` say what a new ticket and an unlock then do to `Queue`.

`ThreadsProofs`, for every set of threads, values, spawners and users of the
allocators, every quantum and every nesting of timer handlers; the assumptions
are the types of those constants. `Inductive` proves `Spec => []IInv`, and
from it follow `TypeCorrect`, `LocksRight`, `SuspendedRight`, `StacksRight` and `RingRight`
(`TypeOK`, `LockDiscipline`, `Suspended`, `StackAlive`, `RingMembers`).

Why `IInv` has so many parts: whether `threads_lock` is free after a switch depends on
where the thread switched to continues (`Suspended`); that this is an unlock inside
`thread_yield` and not a return from `thread_exit` needs the shape of the stacks
(`StackShape`, `Finished`); that the thread is alive needs the scan to meet Main
before it comes round (`ScanBounded`, `RingOrder`, `MainStays`); that the scan stays on
the list needs each `list_del` to take off a released thread, which is there,
and no one else's (`Ownership`, `Joining`, `Unlisted`); and that `Tail` of a queue of
tickets is defined needs `HeapHeld`: a thread inside a lock, also inside both, is the one served. The proof goes:

1. `Push`, `Pop`, `Move`: what a call, a return and a step do to the shape of a stack.
2. `Quiet`: a step that changes only the place of the thread on the processor
   preserves all but types and locks, if that place is no boundary the invariant
   speaks of. `GotoStep`, `CallStep` and `ReturnStep` apply it to the 25 such actions.
3. `Sequences`, `NextNode`, `WithoutNode`: the list, the node after one, and `list_del`.
4. One lemma for each action that changes threads, the list or the processor,
   one step per part of `IInv`; `NextStep` puts them together.

`KeepsService` proves `Spec => ImplementsService`, the
safety of `ThreadService`. `IInv` says who may be joined and when an object is
released; what the refinement adds is that the value stored is the one passed to
`thread_exit` (`Values`) and that nobody outside `thread_join` has a thread to join
(`Targets`). `Silent` describes the steps no caller sees: all but `CreateBody`, `ExitBody`,
`JoinCall`, `JoinRead` and `JoinFree`, each of which is one step of `ThreadService` by a
lemma of its own, and `YieldReap` and `ExitCall`, which change the threads and stutter there.

`AllocatorProofs`, for every set of memories, every number of levels and every `MaxRequest`,
from assumptions on the constants (`PagesOf[l]` is twice `PagesOf[l - 1]`). `TypeCorrect`,
`PagesConserved`, `BuddyAlwaysKnown` and `FreeMemoryCoalesced` prove the invariants of the run, and
`Implements` that every iteration of a loop is a step of `PageAllocator` or none. The
inductive invariant is about the state inside the loops: free blocks, owned blocks and
the one in hand divide the pages added so far (`Partition`), no block is in two of those places
(`Apart`), a free block's first descriptor is marked and has its level, an owned block's is not,
and none outside blocks is (`Marks`); no list has two buddies (`Unmergeable`). That a block's buddy is
either one block or divided into smaller ones is by induction on levels: `Induction`
gives the least level with a property (`Least`), for the library's theorems of induction
cannot be used.

Its second half is about `Slab`, for every page size, any sizes of objects, descriptors, nodes and slab structures,
every alignment that divides a page and any number of allocators. The assumptions are those of
`Slab.tla`: the two allocators of the file itself are different, their structures are small and one of
them fits into a slab. `SlabInv` says, of the heap and the objects callers have (`Whole`): each page
is a slab of one allocator, and the addresses on its list are those of its objects that are not taken, each
once (`Consistent`, `Describes`); what is taken is what callers have and the descriptors of free big objects
(`TakenIn`), none of which describes two (`Once`). `Whole` is a relation on any heap and set of
objects, because a call goes through heaps between its steps: `big_slab_free` allocates a
descriptor, `big_slab_allocate` frees one, and `create_big_slab` is proved as a
page all of whose blocks are taken, which are then freed one by one (`CreateBigHalf`, an
induction along the function the loop computes; `Recursion` shows that there is one). `BlocksAre` and
`ObjectsLie` are the arithmetic of a slab: blocks start at the page, lie a step of at
least their size apart and end before `struct slab`. `SlabsLaidOut`, `SlabBlocksAccounted` and
`SlabsImplementPool` follow from `SlabInv`, the second by counting.

`DirectoriesProofs`, for every number of threads, files and names, every relation `Prefix`,
any paths of at least one name (`PathAssumption`), any calls, and, in the theorems about `LoadSpec` and
`ListingSpec`, any archive with sizes below 2 GB (`ArchiveAssumption`), at any address. `IInv` is about the tree: a thread on its way is in a directory (`Walking`),
a file it has made is its own until it is added (`Holding`, `Apart`), and a file
is in one place of one directory (`Once`, `Placed`).

* `TreeAlways`, `TreeLoaded`: `Tree` follows from `IInv`. `NamesStable`, `NamesLoaded`: `StableNames`, since names
  are added at the end and the first match is taken (`FoundStays`, by the least index).
* `FoundAlways`, `FoundLoaded`: `StaysFound`. `VisibleInv` says that a thread is where the part of
  its path it has left behind leads to (`OnWay`), what the file it has made is (`Made`) and what each
  answer was (`Answered`). A way through directories is a recursive function of a path; that it is the same
  after any step is an induction along it, on the names that still lead where they did.
* `LoadingDefined`, `LoadingDone`: `NeverUndefined`, and `ArchiveLoaded` of a `Proper` archive. Of any archive `AnyInv` says
  that the tree is one and answers stay right, of a proper one `LoadInv` also how far the walk is. `HexBack`: `convert_from_hex`
  reads back every number of eight digits that `cpio` writes. The headers' addresses grow (`HeadersGrow`),
  so the walk, which is behind one entry, finds the next one there and no other (`Loading`), and ends at the
  trailer or before, at an entry that `Ends`. Every directory a path needs is of an earlier entry, whose call has returned (`Settled`), so `open`
  finds its way. `Latest` says which entry a file holds: a later one with the same `Target` replaces
  it and no other file's data, because what paths lead to no longer changes.
* `TreePrinted`: `PrintsTree`, from `ListingInv`. Its first part, `Growing`, says that the tree has a
  root: a file is further from it than its directory (`Ranked`), so a call that is still going on is not met again further
  down. The second, `LinksInv`, says that `next` and `prev` of the children of a directory are its sequence, closed to a
  circle (`Chain`), through every `list_add_tail`. The third, `PrintInv`, is about the listing: each call of
  `print_directory` that is going on has printed the children of its directory up to the one it is at and none
  behind (`Going`, `UpTo`); children can be added only there, at the end. A call that has returned has printed
  all that were there when the listing began (`Covered`), so in the end, by least rank, nothing of that is left out (`AllPrinted`).
* `ListingLoads`: a step of `Listing` is a step of `Initramfs` or leaves it alone, so all of the above holds beside a listing too.

`ListProofs`, for every set of heads and every finite set of nodes that are not heads. `IInv` says that
the heap represents `Contents` (`Represents`): place 0 of a list is its head, so is the place after
its last node, `next` leads from each place to the following one and `prev` back (`Circles`), and no
node has two places (`Once`). `Insertion`, `Removal` and `Splicing` say what two or four assignments
to a heap that represents sequences make it represent, whatever the pointers of other nodes
are. `Contents` is defined by the walk that `list_size` makes, a recursive function: that it exists is
`Iteration` of `Induction`, that it meets the places in order and ends at the head follows by induction, so a heap
represents one family of sequences only, and each step of the lists is the step of
`ListSequence` (`ListsAreSequences`). `SizesAddUp` adds an induction on the set of heads.

`FilesProofs`, for every number of files, descriptors and bytes, every page size and size bound and any buffers
no longer than that; `PagesOf` doubles from level to level. `IInv` says of each file that it is in the smallest
block that holds it and that no byte of it is garbage (`Block`). The argument is
one of sizes. `HalvedHolds`: halving a number of pages k times, rounding up,
leaves at most m exactly when m blocks of level k hold it; so `get_size_level` is the least level with the capacity
(`SizeLevel`), and the test that resizes in place is true for that level only (`LevelOf`).
`AtOwnLevel`: a file that does not shrink is tried at its own level, which
needs no memory. So the loop of `write` ends with a size that has been given, no smaller than
the file when that will do, or the file was longer than what is written (`SettledOutcome`); `Appended`
and `Overwritten` then compute the bytes, and the rest is one lemma for each call.

`BootProofs`, for every firmware map whose regions are apart, every place of the kernel, any modules
and any sizes of pages, headers and descriptors; every `TableEntries` from 6 and every `PdEntries` up to it; any
threads, faults and spurious lines. `MemoryAssumption` puts the end of memory below (`TableEntries` - 2) *
`PdSpan`, 510 GB in the code: the entries of the PDPT behind it are the kernel's
window. `TablesAssumption` lets the kernel have the two directories of that window; `FaultAssumption` leaves out
the exceptions 21 and 29, as the run does.

* `BootInv`: `MapExact`, `MapBounded`, `PagesExact`, `BootstrapApart`. What a
  range is cut out of is flattened region by region (`Flattened`): each leaves at most what lies below and above
  (`Pieces`), and only one can leave both, so a cut adds one region at most (`MarkAsReserved`). An
  allocation shortens the first region that fits and adds what it took (`Allocated`). The loop over the modules
  is an induction on their number (`ArchivesInOrder`).
* `PagingInv`: `WindowsMapped`, `TablesApart`. What `init_paging` writes to the tables of
  `bootstrap.S` is what they hold already (`TablesInv`), so the kernel's window, which shares two of their directories,
  is as before; behind them, the big pages mapped so far lead to their addresses (`MappedTo`, `Written`). `Taking` bounds the tables
  by the big pages, which is what has been set aside (`Enough`). An address has one place in the tables because
  of what division makes of it (`Digits`, `Places`). That memory ends where the
  assumption says holds for every map that is cut out of the firmware's (`EndsInv`). A table below the end of what
  `bootstrap.S` maps is at its `va()` when it is written, because the mapping there is kept (`MappedIsReached`).
* `TicksInv`: `TicksComeThrough`. The words to the controllers are computed in their order
  (`ControllersReady`); whatever is on a stack, the handler in place takes off exactly what its vector put
  there (`Returns`, `Pops`); only `pit_handler_w` of the thread that runs can have the timer in service, and
  it gives that up before it switches threads.

## Only model-checked

* Liveness (`StarvationFree`, `ServiceProgress`, `Turn`, `Reclaimed`, and the fairness in
  `ServedInOrder`), which rests on fairness and ENABLED.
* `FormattedOutput` altogether: its run looks for the violation.

## Not modelled

* Ports, the serial port, the screen, the mode switch of `bootstrap.S`, the bits of
  descriptors: machine set-up and I/O without state of interest.
* Contents of registers (`wrapper.S` saves all caller-saved ones but `rdx`) and of
  pages other than files' data. A fault's handler returns to the instruction
  that faulted, which then faults again.
* A page request that fails inside `thread_create`, `init_regular` or the slab
  allocator: the code goes on at address 0, which is no state of a model.
* `open` with `O_TRUNC` inside another thread's `read` or `write` of the same file: the
  block is freed under it, and what follows depends on who gets it.
* `int` overflow of page addresses above 2 GB (`buddy_allocator.c:92`), and memory sizes
  that are no multiple of 2 MB.
* Archives that other programs than `cpio` write: lower-case
  digits, truncated or malformed headers; and what is read as a header where none is.
* The tests: they drive the components, and what they expect is quoted in the findings.

## Plan

1. *Done.* The core: locks, threads and timer; lists and allocators; the file
   system, its archive, boot, page tables, interrupts and output. Abstract
   specifications for each component that promises something to callers.
2. *Done, proofs.* The locks, `Threads`, `Buddy`, `LinkedList` and `Files` with the
   refinements of their promises, and the tree of `Directories`.
3. *Done, proofs.* `Boot`, `Paging` and `Interrupts`.
4. *Done, proofs.* `Slab`, and its refinement of `ObjectPool`.
5. *Done, proofs.* The paths of `Directories`, `Initramfs` and `Listing`.
6. *Left.* What needs more of the models first: page requests that fail inside `thread_create` and the
   slab allocator, and `O_TRUNC` inside another thread's call.
