-------------------------------- MODULE Boot --------------------------------
(***************************************************************************)
(* The way of the kernel from the host to mm_init: mkimage, which writes   *)
(* the image of a floppy disk; the loader; startup.S and boot_main, which  *)
(* move the kernel to KernelBase and switch paging on; and the first half  *)
(* of mm_init, which places mem_map behind the page tables.  One thread,   *)
(* with interrupts disabled throughout, and somebody who may switch the    *)
(* machine on and press a key.                                             *)
(*                                                                         *)
(* Addresses are physical, in bytes from KernelBase, where _text lies.     *)
(***************************************************************************)
EXTENDS MkImage, Loader, PageMap

CONSTANTS
    SectorSize, PageSize, EntrySize,
    PageStruct,     \* sizeof(struct page)
    KernelBase,     \* the physical address of _text
    BssSizes        \* sectors of bss, which the image on the disk leaves out

ASSUME BootAssumption ==
    /\ {SectorSize, PageSize, EntrySize, PageStruct} \subseteq Nat \ {0}
    /\ PageSize = Entries * EntrySize
    /\ KernelBase \in Nat /\ KernelBase % PageSize = 0
    /\ BssSizes \subseteq Nat

VARIABLES
    stage,
    bss,             \* sectors of bss
    image,           \* the sector of the disk that each 512 bytes from _text hold
    mem_size_kbytes,
    total_pages, mem_map, free_mem_start

mm_vars == <<mem_size_kbytes, total_pages, mem_map, free_mem_start>>
vars == <<mkimage_vars, stage, bss, image, loader_vars, page_map_vars, mm_vars>>

Init ==
    /\ MkImageInit /\ LoaderOff /\ PageMapOff
    /\ stage = "host"
    /\ bss \in BssSizes
    /\ image = << >>
    /\ mem_size_kbytes = 0 /\ total_pages = 0 /\ mem_map = 0 /\ free_mem_start = 0

MakeImage ==
    /\ stage = "host"
    /\ MkImage
    /\ UNCHANGED <<stage, bss, image, loader_vars, page_map_vars, mm_vars>>

\* As much of the image as a disk holds is in the drive of a machine that is
\* switched on; what is left on the host does not matter any more.
PowerOn ==
    /\ stage = "host" /\ mkimage = "ok" /\ Len(boot_img) >= DISK_SIZE
    /\ LoaderInit(KernelFileSectors) /\ PageMapInit
    /\ stage' = "loader"
    /\ mkimage' = "gone" /\ boot_img' = << >> /\ loader_file' = 0 /\ kernel_file' = 0
    /\ room' = 0 /\ written' = 0 /\ UNCHANGED <<file_size, remain_size>>
    /\ UNCHANGED <<bss, image, mm_vars>>

Load ==
    /\ stage = "loader"
    /\ loader
    /\ UNCHANGED <<mkimage_vars, stage, bss, image, page_map_vars, mm_vars>>

KeyPressed ==
    /\ stage = "loader"
    /\ get_key
    /\ UNCHANGED <<mkimage_vars, stage, bss, image, page_map_vars, mm_vars>>

\* _end - _text; the page directory `pg' starts on the next page, and the
\* tables behind it.
KernelSectors == kernel + bss

PageAlign(a) == ((a + PageSize - 1) \div PageSize) * PageSize

pg == PageAlign(KernelSectors * SectorSize)

pte_address(k) == pg + PageSize + EntrySize * k

Whole(img) == \A s \in DOMAIN img : img[s] = s + 1

\* startup is the second sector of what the loader read.  What a kernel does
\* whose end is missing is not known.
MoveKernel ==
    /\ stage = "loader" /\ pc = "pm"
    /\ image' = [s \in 0 .. KernelSectors - 1 |-> IF s + 1 \in Ram THEN ram[s + 1] ELSE Nothing]
    /\ stage' = IF Whole(image') THEN "boot_main" ELSE "torn"
    /\ UNCHANGED <<mkimage_vars, bss, loader_vars, page_map_vars, mm_vars>>

MapPages ==
    /\ stage = "boot_main"
    /\ default_page_map
    /\ UNCHANGED <<mkimage_vars, stage, bss, image, loader_vars, mm_vars>>

EnterKernel ==
    /\ stage = "boot_main" /\ paging
    /\ mem_size_kbytes' = high * Word16 + low
    /\ stage' = "kernel_start"
    /\ UNCHANGED <<mkimage_vars, bss, image, loader_vars, page_map_vars, total_pages, mem_map,
                   free_mem_start>>

\* Mutants: the size in KB is taken for pages; the directory is forgotten.
kbytes_of_memory(kbytes) == kbytes + 1024

pages_of_memory(kbytes) == (kbytes + 1024) \div 4

\* What the machine has.
machine_pages == (extended + 1024) \div 4

without_directory(pages) == pg + EntrySize * pages

pgtbl_end(pages) == pg + PageSize + EntrySize * pages

\* mem_map is written as soon as it is placed (mm_reserved_init, page_init):
\* entries of page tables that lie there are gone.
MmInit ==
    /\ stage = "kernel_start"
    /\ LET pages == pages_of_memory(mem_size_kbytes)
           map   == PageAlign(pgtbl_end(pages))
           stop  == map + PageStruct * pages
       IN  /\ total_pages' = pages
           /\ mem_map' = map
           /\ free_mem_start' = PageAlign(stop)
           /\ \E junk \in StaleEntries :
                 pte' = [k \in TableEntries |->
                            IF pte_address(k) >= map /\ pte_address(k) < stop THEN junk
                            ELSE pte[k]]
    /\ stage' = "free_area_init"
    /\ UNCHANGED <<mkimage_vars, bss, image, loader_vars, paging, pde, i, j, mem_size_kbytes>>

Up ==
    /\ \/ stage \in {"free_area_init", "torn"}
       \/ mkimage \in {"failed", "endless"} \/ (mkimage = "ok" /\ Len(boot_img) < DISK_SIZE)
    /\ UNCHANGED vars

Work == MakeImage \/ Load \/ MoveKernel \/ MapPages \/ EnterKernel \/ MmInit

Next == Work \/ PowerOn \/ KeyPressed \/ Up

\* Both processors go on; nobody need switch the machine on or press a key.
Spec == Init /\ [][Next]_vars /\ WF_vars(Work)
-----------------------------------------------------------------------------
(* The kernel that is started is whole, its text in place and its bss zero *)
(* by the zeros that follow it on the disk, exactly if it ends before the  *)
(* last whole track of the first 64 KB: the loader never gets further,     *)
(* although it asks for all tracks.                                        *)
WholeUpToSegment ==
    stage \notin {"host", "loader"} =>
        (Whole(image)
            <=> KernelSectors + 1 <= (SegmentSectors \div TrackSectors) * TrackSectors)

(* The kernel learns the size of the memory to the last whole 64 KB, if    *)
(* either E801 answers or the upper half of the word at 0x8000, which the  *)
(* older service leaves alone, happens to be zero and 16 bits are enough;  *)
(* otherwise that service, of which loader.S:104 says that it detects 64   *)
(* MB or less, may make the kernel believe in any multiple of 64 MB more.  *)
MemoryMeasured ==
    stage = "kernel_start" /\ (bios = "88" => high = 0 /\ extended < Word16) =>
        mem_size_kbytes <= extended /\ extended - mem_size_kbytes < 64

(* From the moment paging is on, both views of the memory show every page  *)
(* at its place but those of the last table linked (28 of the 32 MB that   *)
(* boot.c:54 speaks of), whatever the memory of the tables held; mem_map,  *)
(* which may come to lie over page tables, only covers those of memory the *)
(* machine does not have.                                                  *)
MemorySeen ==
    paging =>
        \A v \in 0 .. (Tables - 1) * Entries - 1 :
            (stage = "free_area_init" => v < total_pages) => Seen(v)

(* What mm_init reserves, the kernel's image, tables and mem_map, fits in  *)
(* the part of the memory that is mapped, however much memory the kernel   *)
(* believes in, and in the memory the machine has, unless the older        *)
(* service left the upper half of the word at 0x8000 as it was: then       *)
(* mem_map may go to where there is no memory.                             *)
KernelDataMapped ==
    stage = "free_area_init" =>
        /\ KernelBase + free_mem_start <= PageSize * (Tables - 1) * Entries
        /\ (bios = "88" => high = 0) => KernelBase + free_mem_start <= PageSize * machine_pages

(* mkimage comes to an end, also when remain_size has wrapped around, if   *)
(* the kernel's file stays as it is; a machine that is switched on comes   *)
(* to wait for a key; once one is pressed it leaves the loader, and a      *)
(* kernel that has arrived whole then reaches the page allocator.          *)
BootEnds ==
    /\ <>(mkimage \in {"ok", "failed", "gone", "endless"})
    /\ pc = "read" ~> pc = "get_key"
    /\ pc = "check_mem" ~> stage \in {"boot_main", "torn"}
    /\ stage = "boot_main" ~> stage = "free_area_init"
=============================================================================
