# quark-os in TLA+

Specifications of quark-os, a small i386 kernel that boots from a floppy disk,
with the TLC configurations that check them and proofs that TLAPS checks.
Paths below are relative to `src/`.

The kernel is one thread of control. Every device interrupt is masked (`irq.c`,
`init_8259A`), the timer is never set up (`#if 0`, `irq.c:67-71`), and
`task_init` is commented out of `kernel_start` (`init.c:51`). What can still
interrupt it are exceptions and the strays of the interrupt controllers; one
module is about those. Elsewhere what is hard is not interleaving: it is
pointers into memory nobody has cleared, counters that wrap, blocks and slabs
that have to stay consistent over long sequences of legal calls, boundaries of
zones, segments, tables and buffers, and loops that have to end. The models
follow that: most of them run the code step by step through its loops, with
`pc` naming the loop.

## The system

| Component | Source | State | Operations |
|---|---|---|---|
| image tool | `tools/mkimage.c` | `boot.img`, `file_size`, `remain_size` | `main`, on the host |
| boot loader | `boot/loader.S` | ES:BX, CH, DH, the word at 0x8000 | the track loop, `get_key`, `check_mem` |
| paging set-up | `kernel/boot.c`, `kernel/startup.S` | directory and tables, CR0.PG | `move_kernel_code`, `default_page_map` |
| page allocator | `kernel/mm.c`, `include/page.h`, `include/mm.h` | `mem_map`, two zones with a `free_area` per order | `mm_init`, `alloc_pages`, `__free_pages`, `mm_test` |
| slab allocator | `kernel/slab.c`, `include/slab.h` | three lists of slabs, index lists, array cache | `kmem_cache_alloc` and all it calls |
| slab layout | `kernel/slab.c` | order, objects per slab | `cache_estimate`, `kmem_cache_init` |
| linked lists | `include/list.h` | `next` and `prev` of each `list_head` | all of `list_*` |
| console and printf | `kernel/printf.c` | video memory, `stdout_pt`, the format and the buffer | `putchar`, `scroll`, `number`, `vsnprintf`, `printf`, `puts` |
| interrupts and traps | `kernel/irq.c`, `irq_entry.S`, `traps.c`, `startup.S` | IDT, 8259A masks | `irq_init`, `traps_init`, the handlers |
| time | `kernel/time.c`, `jiffies.c`, `init.c` | `jiffies` | `msleep`, the idle loop |
| tasks, scheduler | `kernel/sched.c`, `task.c`, `i386.c`, `switch.S` | `cur_task`, GDT | `schedule`, `task_init` |
| strings, keyboard, debris | see `PROJECT.json` | none that matters | |

How they interact. `mkimage` writes the loader, the kernel and zeros to the image
of a floppy disk. The loader reads the tracks to 0x10000, waits for a key and leaves the size
of the memory at 0x8000. `startup.S` calls `boot_main`, which moves the kernel
to 1 MB (`_text`), builds the page tables behind the kernel's image and
switches paging on. `startup.S` then calls `kernel_start`; `mm_init` computes
from the memory size where `mem_map` goes, behind the page tables, and
initialises the zones; `mm_test` allocates and frees a page; `kmem_cache_init`
lays out the first cache. The slab allocator takes its pages from `alloc_pages`
and keeps its slabs on lists of `list.h`, and the page allocator keeps its free
blocks on such lists. There are no callbacks and no messages; components share
memory and call each other. `kernel_start` calls `irq_init` and `traps_init`
before `mm_init` and executes `sti` after it; exceptions go through the gates to
`irq_entry.S`, which calls the C handlers of `traps.c`, and those end in `die`;
everything else goes to `ignore_int`, which returns.

What makes each component correct:

* **Lists.** Each operation does to the list what its comment says. The two
  pointers stay inverse; nothing is on two lists.
* **Pages.** No page is handed out twice or lost. The kernel's pages are never
  handed out. `NULL` is returned only if no block is left. Every loop ends.
* **Slabs.** No object is handed out twice or lost. The array cache is never
  overrun. A slab is on the list that fits its use. A cache grows only when it
  is exhausted.
* **Layout.** The objects fit, and none is wasted.
* **Boot.** An image that `mkimage` says it has made is one, as far as a disk goes, and it
  does come to an end. The kernel arrives whole; it sees all the memory it uses, and uses
  no memory that is not there, if the BIOS tells it how much there is.
* **Interrupts.** No interrupt arrives at the vector of an exception; what is
  interrupted goes on with its registers; a handler gets the frame and the error
  code of its exception; a machine that died stays dead.
* **Output.** The format is not overrun, nor is a buffer whose text does not
  reach the top of the address space; numbers read back; text on the screen stays in order.

## Modules

| Module | What it is |
|---|---|
| `KList` | `list.h` as operators on a memory `[next, prev]`, store by store |
| `Lists` | clients that use `KList` on several heads, keeping the documented preconditions |
| `ListSpec` | what `list.h` promises: operations on sequences of entries |
| `ListsProofs` | `Lists` implements `ListSpec`; `list_add` and `list_del` on any set of rings |
| `Mm` | the page allocator, on the list pointers of `KList` |
| `PageAlloc` | what the page allocator promises: disjoint aligned blocks |
| `MmProofs` | type correctness, safety of the kernel's pages, on which machines the boot succeeds; no page twice and none lost, no count wrong, and all properties of `KernelMem` |
| `Slab` | one cache: `kmem_cache_alloc`, `cache_alloc_refill`, `cache_grow` |
| `SlabProofs` | all safety properties of `Slab`: no object is handed out twice or lost, lists fit use, a cache grows only when it is exhausted |
| `SlabLayout`, `SlabLayoutProofs` | `cache_estimate` and the search for the order; the objects fit and none is wasted |
| `MkImage` | `mkimage`; the host's `read` and `write` are external |
| `Loader` | the loader's loop, `get_key` and `check_mem`; the BIOS is external |
| `PageMap` | `default_page_map`, and the address translation of the processor (external) |
| `KernelMem` | composes `Mm` and `Slab` with the pages the boot has mapped |
| `Pic` | the two 8259A interrupt controllers (external) |
| `Gates` | how the kernel puts a gate together, and how the processor takes it apart (external) |
| `TrapEntry` | `irq_entry.S` and `ignore_int` on symbolic registers and a stack |
| `Interrupts` | composes `Pic`, `Gates` and `TrapEntry` with the boot up to the idle loop |
| `Boot` | composes `MkImage`, `Loader` and `PageMap` with the move of the kernel and the first half of `mm_init` |
| `Console` | `putchar` and `scroll` on the video memory |
| `Number` | `number()` |
| `NumberSpec` | what the text of a number has to be, independent of how it is made |
| `Printf` | `vsnprintf` directive by directive, on pointers that wrap, `printf`, and what `puts` is given |
| `BootProofs` | all safety properties of `Boot`: the image is whole, the kernel loaded up to the border, the memory measured and seen, and what the kernel reserves mapped and there |
| `InterruptsProofs` | all properties of `Interrupts` |
| `ConsoleProofs` | all properties of `Console`, for a screen of any size |
| `PrintfProofs` | all safety properties of `Printf`: bounds of the buffer and truncation below the top of the address space, field widths, what numbers read as and how they are padded |
| `MC*` | constants for TLC that a `.cfg` cannot express |

Operators whose comment starts with "Mutant" are variants of the definition
below them with a bug this code could have had. They are not part of any
specification; for each checked property one of them is known to violate it.

### How the state corresponds to the code

**KList, Lists.** A cell is a `list_head`. An operator takes a memory and
returns the one after all stores of the function. The order of the stores
shows when cells coincide. `NULL` and the poison pointers are cells, so a store
through one is visible. In `Lists`, `ready` is the set of heads a client may
use: after `list_splice` the emptied head is not (`list.h:277-281`).

**Mm.** `<<"page", p>>` is `mem_map[p].lru` and `<<zone, order>>` the
`free_list` of an area. `page[p]` has the count, `PG_RVSD` and the zone in the
top bits of `flags`; `scan` and `call` are the locals of the running function.
The boot is `MmReservedInit`, `ZoneInit`, `PageInit`, then for each zone and
order `AreaBegin`, `AreaScan` (one turn of the loop) and `AreaEnd`, then
`MmTest` and `MmTestFree`. `alloc_pages` is `AllocPages` (through the
`list_del` in `rmqueue`), `Split` for each turn, `AllocReturns`; or
`AllocFails`. `__free_pages` is `StartFree`, `Merge` for each turn,
`FreeReturns`. Counters are modulo `ULong`. `pc = "BUG"` is `BUG()`, and
`pc = "wild"` is an access outside `mem_map`, after which nothing is known.
`held` records what the callers hold and is not in the code.

**Slab.** A slab is named by its page. `lists` holds sequences, because
`Lists` shows that `list.h` implements them. `pc = "find"` is the outer loop
of the refill, `"take"` the inner one, `"must_grow"` the label. `batchcount`
goes to -1 when its decrement is what ends the inner loop, as in the code. The
code has no `kmem_cache_free`, so there is none here. `handed` counts how often
an object was returned and is not in the code.

**KernelMem.** One thread in two modules: `pc` is Mm's, `slab_pc` Slab's.
`kmem_getpages` starts a call of `alloc_pages` and sets `asked`; the steps of
the call are Mm's own; `cache_grow` goes on with the page it returned, or stops
in `"fault"` if the page is not mapped. No other caller exists before
`kmem_cache_init` has its first object, as in `mm_init`.

**Interrupts.** `stage` is the function the kernel is in, `step` counts the port
writes it has done. A chip is its requests, its mask, its first vector and which
initialisation word comes next. A gate is its four halves, put together once
with the bit-fields of `struct idt_desc` and once with the two words of
`_set_gate`. `cpu` holds registers and the stack since the interrupted code; a
register holds what the interrupted code had in it, a constant or the address
of a slot, so the offsets in the assembly select slots. `trap` remembers what
was interrupted and is not in the code. `stage = "astray"` is a processor that
fell through a gate that is none, or ran past the `hlt` of `die`. Interrupts in
service are left out of `Pic`: nobody sends an end of interrupt, so they could only
keep further requests away.

**Boot.** Until `stage` leaves `"host"` only `mkimage` runs; `PowerOn` puts as much of an
image as a disk holds, but no less, into a machine, whose memory holds anything. `boot.img` is
opened without `O_TRUNC`, so a run begins with what an earlier one has left, which may be more
than a disk: a run for a kernel that does not fit writes until the host has no room. `MkImage`
has no failing `read` apart from the one that matters: of the kernel, where `read_size < 0`
cannot be true and the next `write` fails instead. A kernel file that becomes shorter after
the `fstat` leaves the loop reading nothing for ever (`mkimage = "endless"`). A `write` takes
what the old image and the free space have room for. Sizes are in units of 256 bytes, and the
units of `boot_img` say where they come from. Because `ImageWhole` says what is on the disk, the
loader can speak of sectors by number. `ram[s]` is the sector of the disk that the loader put
at the s-th 512 bytes from 0x10000; `bx` counts sectors, so that wrapping of the real BX
is `% 128`. `get_key` waits until somebody does `KeyPressed`. `MoveKernel` looks at what was
moved: of a kernel whose end is missing it is not known what it does, and the model stops
at `"torn"`. The tables hold page numbers; entries that were never written are
`StaleEntries`. `MmInit` places `mem_map` and writes over whatever lies there; `total_pages` is
what the kernel believes in and `machine_pages` what there is.

**Console.** Letters are numbered in the order they are printed, modulo more
than the screen holds, so that the screen can be compared with the output.

**Printf.** One action for each part of a directive. `out` is everything generated, and
`memory` holds by their addresses the characters that were stored. `str`, `end` and `size` are
32-bit numbers: `str` is `buf` plus what was generated, modulo `IntWord`, and `end` is `-1` if the
buffer reaches past the top of the address space, as in the code. For C such pointers are
undefined; the model does what the instructions do, and gcc -O2 for i386 leaves the test
of `printf.c:197` in, as an unsigned comparison. `InReach` is a call whose output ends before the top of
the address space; `StaysInBounds` and one part of `TruncatesOutput` hold for these. The other part,
`NothingCutAtTop`, says what happens in a buffer that reaches the top, whatever its output
is, and in one at NULL. Arguments are chosen from sets that
hold the interesting values of each type. `conversion` records the latest call
of `number()`.

## Runs

| Run | Config | What it shows | Bounds |
|---|---|---|---|
| `lists` | `MCLists.cfg` | `Lists` implements `ListSpec`; rings well formed, and the tests of `list.h` agree with them | 2 heads, 3 entries: every list is empty, single, or has first, middle and last entries; symmetric |
| `kernel_mem` | `MCKernelMem.cfg` | the two allocators together: `EveryPageOnce`; slabs apart from other callers; which machines come up; implements `PageAlloc` and `Slab` | orders 0-2, a page standing for 2 MB: 8 pages of ZONE_DMA, 14 mapped (28 MB), memories of 24, 32 and 40 MB, two kernel sizes; clients free largest blocks only |
| `mm_free` | `MCMm_free.cfg` | sums, safety and termination when single pages are freed; exactly which machines boot | five memory sizes: smaller than, equal to and beyond ZONE_DMA, with whole and ragged ZONE_NORMAL; each of four parts of `mem_map` holds one of three stale contents |
| `mm_poison`, `mm_ragged`, `mm_merge` | `MCMm_*.cfg` | the findings below | |
| `slab` | `MCSlab.cfg` | all properties of a cache until pages run out | 3 slabs of 4 objects, array of 2, first refill of 1: refills end at the batch, at the end of a slab, and at both |
| `slab_layout` | `MCSlabLayout.cfg` | `cache_estimate` is exact; smallest order | real sizes; objects of 1-200 bytes and around 1 KB, 4 KB and 8 KB; four alignments. Orders stop at 2, which is beyond the largest object |
| `boot` | `MCBoot.cfg` | which images are whole; the kernel arrives whole, learns its memory and sees it, and what it reserves is mapped and there; an end is reached | real addresses, but table entries are four times as wide, so that a table maps 1 MB. Loaders of no, half, one and more than one sector; kernels that end before and behind the last track the loader gets, in the middle of a sector, on the last unit of the disk and beyond it; no, part of a disk, a whole and a larger old image; a host disk that is full at once, just or never. The disk is smaller than 1.44 MB, but holds more than the loader can read. Memory from 2 to 294 MB; an upper half of the word at 0x8000 that is zero, and one that makes a machine believe in 192 MB more |
| `interrupts` | `MCInterrupts.cfg` | which vectors arrive, what resumes, what a handler sees, `die` | all 256 gates; requests on lines 0, 1, 8 and 14, both chips; every exception that has a gate of its own and two that have not; addresses on both sides of 0xC0108000 |
| `console` | `MCConsole.cfg` | order of text and scrolling | 5 lines of 3 with the proportions of the real constants |
| `printf` | `MCPrintf.cfg` | all of `vsnprintf` and `number` | every format of up to 3 of 12 characters, `%` with every 3 more, and 240 integer directives with every set of flags; an address space of 2048; an int that is 0, 3 or -2, a long long that is the most negative one or another; buffers of 0, 1, 4 and 9 bytes and one that is refused, at NULL, at 100 and 8 below the top, where the larger ones reach past it and so does some output |

The bounds keep the relations the code depends on: ZONE_DMA is a whole number of largest
blocks, ULong exceeds every count of pages, a screen's scroll drops and keeps lines in
the same arrangement, the kernel's bss straddles the last track. `HoldLimit` bounds
what clients of `Mm` hold. `CountLimit` stops clients once wrong merges have
taken a counter below zero (that is, near `ULong`), because from then on the
lists cannot be trusted; calls already begun go on. `GateCount` is 256 as in the code. `Letters` is only a
numbering. `IntWord`, in `Printf`, is far smaller than 2^32 but larger than twice any output;
`MaxWidth` keeps widths and precisions from overflowing an int, which no format in the
kernel makes them do; `Char` is what the formats, strings and generated texts are made of.

`kernel_mem` restricts clients to freeing blocks of `MAX_ORDER` because freeing
anything smaller can merge wrongly (`mm_merge`), and then no strong property
survives. What does survive is in `mm_free`: the sum of counted, held and moving
pages (`PagesConserved`), and that nobody is ever given a page of ZONE_DMA.

### Deadlock

No configuration turns deadlock checking off. States where the machine really
stops (`BUG()`, a boot that is over, a call that was the only one) have an
explicit stuttering action (`Halted`, `Done`, `Up`, `Stopped`).

### Fairness

Liveness is checked under weak fairness of the actions that continue a call
that has begun: `Kernel` in `Mm`, `Refill \/ GrowFails` in `Slab`, `Work` in
`Printf`, `Boot` and `KernelMem`. In `Boot`, `PowerOn` and `KeyPressed` are not among them: nobody
need switch a machine on or press a key, so `BootEnds` takes a machine to `get_key`, and from the
key on to the page allocator if the kernel arrived whole. Weak fairness only says that the processor goes on executing: there is one
thread, and an interrupt returns (`ResumesMasked`) or stops the machine. No fairness is assumed of clients.
`Lists`, `SlabLayout`, `Console` and `Interrupts` have no liveness property and no fairness.

## Findings

* **`mm_poison`** - `__free_pages` calls `list_del(&page->lru)` on the page it
  frees (`mm.c:309`), not on the buddy. An allocated page is on no list and its
  links are the poison values, so its two stores go to 0x00100104 and 0x00200200.
  `list.h:94-97` says the values are there so that this faults; but the
  kernel maps low memory one to one, so it does not, and the first address lies
  in the kernel's own image, which starts at 1 MB. It happens at every boot, in
  `mm_test`.
* **`mm_ragged`** - if ZONE_NORMAL is no multiple of 8 MB, the last block is
  counted whole, `pagenum` wraps and the assertion at `mm.c:67-68` stops the
  boot. `BootsExactlyOn` is the positive form: the allocator boots exactly on
  machines whose ZONE_NORMAL is a positive multiple of the largest block.
* **`mm_merge`** - `page_is_buddy` ignores the order of its argument
  (`mm.c:285-291`), so a freed page can be joined with a block of which a caller
  holds a part. `mm.c:260-262` says they form a matching pair.

More behaviour that a reader may not expect is stated exactly by properties that
hold. `free_area_init` puts the blocks of a zone at the front of a list from the
bottom up, so the first page `alloc_pages` hands out is that of the highest block;
28 MB are mapped, so the first slab faults unless that block starts below
28 MB (`UpExactlyOn`: with `mm_ragged`, machines of 24 and 32 MB come up). The
first stray interrupt through `ignore_int` leaves interrupts disabled for good
(`ResumesMasked`). `loader.S:46` wants to read 8 tracks; the eighth read would cross
the end of a 64 KB segment, fails, and the failure is not looked at, so a kernel is
whole exactly if it ends within the first 7 (`WholeUpToSegment`). `boot.c:54`
speaks of 32 MB; the inner loop fills one page table less, so 28 MB are mapped
(`MemorySeen`). `remain_size` of `mkimage` wraps if the kernel does not fit on the
disk, and only the host's disk filling up ends the loop; a last `write` that the
host cuts short is not noticed, so an image can be up to a buffer too short; and
behind a disk's worth of image the end of a larger old one remains
(`ImageWhole`). With the older memory service `check_mem` stores 16 bits at 0x8000 (`loader.S:108`) and
`startup.S:70` reads 32: a machine with 2 MB and 3 in the upper half has 193 MB for the
kernel, although that service "can only detect 64M or less mem" (`loader.S:104`), and
`mem_map` may be placed, and written, beyond the memory there is
(`MemoryMeasured` and `KernelDataMapped` have the condition). For a buffer at NULL, and one that
reaches the top of the address space, `end` of `vsnprintf` is the last address there is: nothing
is cut off (`NothingCutAtTop`). So `vsnprintf(NULL, 0, ...)` writes its text and a NUL to
address 0, although `printf.c:398` speaks of no null byte if the size is zero, and an output
that wraps around is not truncated when the value returned is larger than `size`, as
`printf.c:161-163` says. No caller in the kernel passes such a buffer.

## Proofs

Eight modules hold proofs. They have no assumptions but the named ones about
constants, which TLC evaluates in the runs: that orders double and zones are
whole (`MmAssumption`), that addresses differ (`AddressesDiffer`,
`CellsDiffer`, `PoisonsDiffer`) and a client's entries are finitely many, that a slab and an array cache hold something
(`SlabAssumption`), that sizes are positive (`LayoutAssumption`), that a screen has
two columns and is a scroll and a rest (`ConsoleAssumption`), that the table has a gate
for every vector that is used (`InterruptsAssumption`, `AddressAssumption`), that a sector and a buffer are no
larger than a disk, and that no file gets as large as a size_t (`MkImageAssumption`), the measures of the memory
(`LoaderAssumption`, `PageMapAssumption`, `BootAssumption`), the widths of
integers (`WordAssumption`, `PrintfAssumption`), that no width overflows an int and no string
is half an address space long (`WidthAssumption`) and that a NUL is no character with a meaning
in a format (`CharAssumption`).

The induction theorems of the library cannot be instantiated by the provers.
Where a proof needs induction over numbers - the free list of a slab, the sums of
pages, `Digits`, `Power` and `skip_atoi` of `printf.c` - it uses instead that a set of naturals has
a least member (`Least`): of the places where a claim fails the least one is
looked at. That a recursive function is defined at all is shown in the same way.

**`ListsProofs`.** First, about memories in which nothing is known but some
rings: a set of cells is a set of *rings* if `next` and `prev` are
inverse on it. `AddKeepsRings`, `DelKeepsRings`, `DelUndoesAdd` hold for every
number of cells and for lists of any length, the empty one included.
`DelOfDeletedKeepsRings` says what makes `mm_poison` survivable: a second
`list_del` touches only the poison cells. Then, about clients:
`OperationsImplementSequences` is the refinement of `ListSpec`, step by step, and
`RingsStayWellFormed` and `NoStrayStores` come with it. The invariant is
`Sound(mem, ready, Content)`: the pointers of each head that may be used thread the
sequence it shows, there and back, no entry is in two places, and `NULL` and the poison cells
are untouched. `Content` is found by walking, so the first thing to
show is that a walk along a sound memory finds what is threaded (`SoundWalk`);
after that each operation is looked at on sequences. `Inserted(t, u, q, s)` - t is
u with s put behind its q-th member - covers adding, unlinking, replacing, cutting and
splicing: the ring of t is the ring of u with a detour through s (`RingDetour`).

**`MmProofs`.** `TypeCorrect` and `KernelIsSafe`, for all memory sizes,
kernels, orders, clients and RAM contents. Neither is inductive: an
`alloc_pages` returns whatever page the list head leads to, and the lists are
corrupt after `mm_test`. The invariant `Inv` adds `NormalClosed`: the pages of
ZONE_NORMAL, its list heads, the poison cells and `NULL` are closed under `next`
and `prev`. Any `list_add` or `list_del` of cells of a closed set leaves it
closed, even one of a cell on no list, and `rmqueue` starts at a head in that
set. The other conjuncts say what the boot establishes on the way: the list a
scan of ZONE_DMA fills does not lead into the set (`DmaApart`), a zone's span
ends at the memory's (`SpannedFits`, `ScanFits`), no page of
ZONE_NORMAL is marked as ZONE_DMA (`ZonesSet`), the running call and all
held blocks are in ZONE_NORMAL. There is one lemma for each action.
`BootsOnWholeZones` adds `BootInv`, which counts what the scans take. Its hypothesis
`KernelInDma` is that the kernel, its page tables and `mem_map` take a page and end inside
ZONE_DMA: with 24 bytes for each page of memory they do on every machine with less
than the 1 GB that fits above `__PAGE_OFFSET`. Page 0 is then the kernel's, so a scan of
ZONE_DMA never counts more than it has looked at (`LowScan`), whatever the RAM held;
the scan of ZONE_NORMAL takes every block (`HighScan`), so what it has counted is a
multiple of the largest block, and `pagenum` becomes 0 or wraps.

The other theorems of `MmProofs` are about the machines `PlainMachines` describes, which
are those of the run `kernel_mem` for every size: `KernelInDma`, a memory that has all
of ZONE_DMA, a `mem_map` in RAM that is zero, and clients that free largest blocks only. With
stale RAM `page_isfree` takes pages for used that are not, so they are lost, and a free
of anything smaller can merge with a block that is in use (`mm_merge`). The memory may
be ragged: then the boot ends in `BUG()`. `mm_test`, which frees one page, is a part
of every behaviour, and most of the proof is about it.

`PagesShareOut` (`EveryPageOnce`) rests on `ExactInv`. The free lists are
stacks `L`, one for each zone and order and as high as `nr_free` says: the pointers lead from the
head down the stack (`Threaded`), the entry on top points back to the head
(`TopsKnow`), no page is in two places (`Distinct`) and an entry is aligned for its
order and for no larger one (`InZone`). What comes behind the last entry is not
known, because the `list_del` of a page that is on no list, in the free of `mm_test`, leaves
stale entries; but lists of different orders stay in different cells (`ListsApart`), so
a later `list_del` does not disturb another list. The *claims* - the blocks on the stacks,
those callers hold and the one in the running call - tile the pages above the
kernel (`Tiling`): a scan adds a block (`TilingAdd`), a split and a merge trade a block for its
halves and back (`TilingSplit`, `TilingJoin`), and otherwise a block changes owner
(`TilingRelabel`). `FirstCall` is why `mm_test` does no harm: it splits the
highest block down to a page, so each list below `MAX_ORDER` has one entry, the
buddy the merge wants; taking off the wrong entry and counting the list down to zero comes to
the same as taking off the right one. `EachPageOnce` counts: `Listed` walks the stack from its top
(`Walk`), and of a tiling exactly one block covers a page (`OneClaimEach`).

`PromiseIsKept` is the refinement of `PageAlloc` (`KeepsPromise`), for clients that may ask for a
single page (`AsksForAPage`), as `mm_test` does. The hard part is that NULL means none is left
(`NullWhenNoneIsLeft`): a page of a block that could be given lies in a free
block, by the tiling; all of these are smaller than what was asked for and exactly
aligned, so one of them is not where it would have to be.

For `KernelMem` each step is one of `Mm` or the call `kmem_getpages` makes
(`KernelMemMoves`), so `Inv`, `BootInv` and `ExactInv` carry over. `SlabsKeepApart`
(`ObjectsApart`) adds `CacheInv`: the page under a slab is held as a block of order 0, which
no client frees as long as blocks have more than one order, and a page the cache waits for is in
the call, or held and no slab yet. `UpExactlyWhenMapped` (`UpExactlyOn`) adds `LowerGone`
and `FirstUp`: the free of `mm_test` empties the lists it goes through, so up to the
first slab the highest block is first (`Fresh`). `RunsAsOneCache` is the
refinement of `Slab` (`ImplementsSlab`).

`CallsConservePages` (`PagesConserved`) is again for all machines and clients, with `Inv`
alone: nothing is known of the lists, but what a step adds to one count it takes from
another. The sum over all blocks is the hard part. The library folds over a set with
a recursive function on its subsets; `SumsUpTo` and `SumsExist` show that there is a
function `sum` on the subsets of a finite set with `sum[{}] = 0` that adds the weight of any
member taken out, so that the fold is it (`FreeInIsSum`, `HeldInIsSum`), and
`SumChanges` is what a change of one weight does to it. The rest is arithmetic modulo
`ULong` (`ModShift`) and one lemma for each step of a call.

**`SlabProofs`.** All safety properties of `Slab`, for all sizes. `TypeCorrect`
includes that a refill never writes past the array cache. It and `HandsOutOnce`
need that the free list of a slab is the run of indices from `inuse` upwards
(`FreeListIsTail`), so an object not yet reached is in nobody's hands
(`HandedBelowInuse`, `CachedBelowInuse`), and that what is left of the batch
fits into the array (`LoopState`). `Inv2` adds three parts. `Placed`: each slab
is on one list, which is the one for its use except for `slabp`, which is in between;
this gives `ListsFitUse`. `Accounted`: the objects below `inuse` are those with a caller or
in the array cache; with `FreeListIsTail` this gives `FreeListsExact`, no object
lost. `Progress`: where the refill has given up, no slab has an object left;
this gives `GrowsOnlyWhenExhausted`.

**`SlabLayoutProofs`.** `LayoutFits`: after the one correction
`cache_estimate` makes, the objects fit, for all sizes with
`buffer_size >= align`. One object fewer frees at least `align` bytes, and
rounding costs less than that. `LayoutTight`: what the division leaves over is
less than an object and its index, so another would not have fitted.

**`BootProofs`.** Five theorems with an invariant each. `ImageIsWhole`
(`ImageInv`): the file is, up to where it has been written, the
right image and behind that, at the same places, the old one, a write that is cut short leaves the file at the size the host has room for, and the
host's room never grows, so what follows fails too (`FitsOrNever`). `SizeLearnt`
(`SizeInv`) and `MemoryStaysSeen` (`MapInv`): the entries of a table that has
been filled are the same in both views, and `mem_map` begins behind the last
entry (`MapBehindEntries`). Sizes are related by products and quotients of constants,
which `Division`, `Times` and `Parts` turn into sums.

`WholeIfBeforeBorder` (`LoadInv`) is for disks that satisfy `EndsAtBorder`: the loop ends
with the last whole track of 64 KB or with the one behind it, as it does with tracks of 18
sectors, of which 7 fit and 8 are read. It has to be assumed: `bx` does not become 0
at the border, so a ninth read would go over what the first ones have loaded. `ReservedIsMapped`
(`RoomInv`) reduces `KernelDataMapped` to three numbers, the sectors of the
kernel and the bounds of the memory (`Machines`): that it has no less than a smallest size, and
neither has nor is believed to have more than a largest. Rounding costs less than four pages (`MapEnds`),
the rest is linear in the pages, so it is enough that the reserved part fits into the
memory of the smallest machine and into what is mapped of the largest (`Roomy`). That it fits
in the memory there is needs that the kernel believes in no more (`BelievesNoMore`), which it may
if the upper half of the word at 0x8000 was left as it was: the condition of the property. With
24 bytes for each page the first needs little more than 1.1 MB, and the second holds up
to 4 GB. The constants of the run satisfy both hypotheses.

**`InterruptsProofs`.** `OnlyStraysTaken`, `InterruptedResumes`,
`HandlersSeeFrames` and `DeadStayDead`, for any addresses of the entries.
`Inv` has four parts. `Controllers`: after each port write, which word a chip expects
next, its mask and its first vector, so at every stage which lines are open; a stray that gets
through is at 0x27 or 0x2F. `Table`: what the gates of the IDT hold
at each stage. `Processor`: whether interrupts are enabled, and what the stack
and the registers hold, in terms of what was interrupted. `HandlerSeesFrame`
itself. Most lemmas follow the assembly: what each run of pushes, pops and exchanges
makes of the stack, slot by slot (`PushRegsFacts`, `XchgFacts`, `FrameWithCode`,
`LeaveFacts`), so that a handler's frame is the frame for an entry with an
error code and for one without.

**`ConsoleProofs`.** `CursorOnScreen`, `TextInOrder` and `ScrollsOnlyTheTop`.
Type correctness and order are inductive together: a scroll copies what lies in front
of the cursor only if nothing lies behind it.

**`PrintfProofs`.** `InBounds`, `CutsOff` and `FieldsFilled`, the first two for outputs
that end before the top of the address space (`InReach`), in buffers that need not. For these
`Reaching` says what the wrapping `str`, `end` and `str - buf` come to. The second part of `CutsOff` is about
buffers whose `end` is the last address (`Clamped`): each character has a place of its own
(`PlacesDiffer`), and all are stored (`HoldsAll`, `NotCut`). `Inv` says that
the memory holds exactly what has been generated, as far as there is room (`Holds`),
that a NUL is behind it once the terminator has been stored, and that what `printf` and
`puts` show is that text (`Filled`, `Terminated`, `ShownIs`). That the format is not
read past its end depends on the NUL being no flag, digit or
conversion (`NotNul`).

`NumbersReadBack` and `NumbersPadOneSide` are about `number()`, for every argument below
`Word`, set of flags, width and precision, in all bases. `Value` is a fold;
`ValueReads` replaces it by the sequence of its partial values, so a figure more is a
multiplication and an addition (`ValueAppend`) and zeros in front count for nothing
(`ZerosInFront`). Then `DigitsSpell`: what the divisions of `Digits` leave is worth the number
and has as many figures as it needs, by the powers of the base on both sides of it;
two counts cannot both fit (`CountsFigures`, `PowersGrow`). `NumberShape` puts the text
together from what the three padding loops leave of `size`; the space that stands for a sign goes to
the margin. So a text is spaces, a core without a space, and spaces (`NumberParts`), from which
`TrimmedCore` and `UnsignedRest` give what a reader finds, and `MarginPlaces` and `PiecesAddUp`
where the spaces are and how many. The invariant `LatestWritten` says it of the
latest call of `number()`.

Left to TLC is liveness (`CallsEnd`, `BootEnds`, `AllocEnds`, `FormatEnds`), which
needs fairness and ENABLED.

## Not modelled

* **Time.** `jiffies` is only advanced by `timer_interrupt`, which no gate leads
  to; nothing calls `msleep`, `sleep` or `ktime`, and `time_init` is empty. The
  idle loop compares two numbers that do not change.
* **Tasks, scheduler.** `task_init` is commented out of `kernel_start`,
  `sched_init` is called by nobody, `schedule` returns at once without it, and
  `task1` is never filled in. No run of this kernel reaches the code, so a model
  would be of a program that does not exist.
* **Keyboard.** It registers with a `request_irq` that is compiled out.
* What the exception handlers print; the writes that switch off the NMI and
  switch on A20 (`boot.c:12-23`): the models start with both done.
* **Strings, debris.** Byte loops without state; back-ups and empty files.
* `hlist_*` in `list.h`, which no source file uses; `copy_from_disk`, which
  nobody calls; `kmem_cache_create` (`slab.c:276-286`), which is one
  `kmem_cache_alloc`, its other steps being comments.
* A width or precision that overflows an int, in `skip_atoi` or where a negative
  `*` is negated: `WidthAssumption` excludes it. What a kernel does of which the
  loader got only a part: `Boot` stops at `"torn"`.
* `entry[]` of `initarray_cache` has no storage (`slab.c:108`); `Slab` gives
  the array its `limit` of entries, so an overrun into the next variable is
  outside the model.

## Plan

The code that runs is modelled, and every safety property that a run finds to hold is
proved. What could still be said is what remains of `EveryPageOnce` and `KeepsPromise` outside
`PlainMachines`, where they do not hold as they stand: which pages stale RAM loses, and
which blocks a merge with the wrong one makes overlap.
