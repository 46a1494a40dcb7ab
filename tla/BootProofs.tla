----------------------------- MODULE BootProofs -----------------------------
(***************************************************************************)
(* The stages of boot, for sizes of any value: the image mkimage leaves is *)
(* whole (ImageInv), as much of it is loaded as fits into whole tracks of  *)
(* a segment (LoadInv), the kernel learns the size of the memory (SizeInv) *)
(* and sees all of it once paging is on (MapInv), with what it needs for   *)
(* itself in the part that is mapped (RoomInv).  The sizes are tied to     *)
(* each other by products and quotients only, which Division, Times and    *)
(* Parts turn into sums.                                                   *)
(***************************************************************************)
EXTENDS Boot, SequenceTheorems, TLAPS

(* Dividing m*q + r by m. *)
LEMMA Division ==
    ASSUME NEW m \in Nat \ {0}, NEW q \in Nat, NEW r \in 0 .. m - 1
    PROVE  (m * q + r) \div m = q /\ (m * q + r) % m = r
<1> DEFINE a == m * q + r
           k == a \div m
           s == a % m
<1>1. m * q \in Nat /\ a \in Nat /\ k \in Int /\ s \in 0 .. m - 1
  OBVIOUS
<1>2. a = m * k + s
  OBVIOUS
<1>3. m * (q - k) = s - r
  BY <1>1, <1>2
<1>4. q - k = 0
  <2>1. ASSUME q - k >= 1 PROVE FALSE
    <3>1. m * (q - k) = m + m * (q - k - 1) /\ q - k - 1 \in Nat
      BY <1>1, <2>1
    <3>2. m * (q - k - 1) >= 0
      BY <3>1
    <3> QED
      BY <1>1, <1>3, <3>1, <3>2
  <2>2. ASSUME q - k <= -1 PROVE FALSE
    <3>1. m * (q - k) = -m - m * (k - q - 1) /\ k - q - 1 \in Nat
      BY <1>1, <2>2
    <3>2. m * (k - q - 1) >= 0
      BY <3>1
    <3> QED
      BY <1>1, <1>3, <3>1, <3>2
  <2> QED
    BY <1>1, <2>1, <2>2
<1>5. k = q /\ s = r
  BY <1>1, <1>3, <1>4
<1> QED
  BY <1>5

(* Multiples are in the order of their factors. *)
LEMMA Times ==
    ASSUME NEW m \in Nat, NEW a \in Nat, NEW b \in Nat
    PROVE  /\ m * a \in Nat
           /\ a <= b => m * a <= m * b
           /\ a < b => m * a + m <= m * b
<1>1. \A n \in Nat : m * n \in Nat
  OBVIOUS
<1>2. ASSUME a <= b PROVE m * a <= m * b
  <2>1. m * b = m * a + m * (b - a) /\ b - a \in Nat
    BY <1>2
  <2> QED
    BY <1>1, <2>1
<1>3. ASSUME a < b PROVE m * a + m <= m * b
  <2>1. m * b = m * a + m + m * (b - a - 1) /\ b - a - 1 \in Nat
    BY <1>3
  <2> QED
    BY <1>1, <2>1
<1> QED
  BY <1>1, <1>2, <1>3

(* A number from its quotient and its remainder. *)
LEMMA Parts ==
    ASSUME NEW m \in Nat \ {0}, NEW a \in Int
    PROVE  \E q \in Int, r \in 0 .. m - 1 :
              /\ q = a \div m /\ r = a % m
              /\ a = m * q + r
              /\ a >= 0 => q >= 0
<1>1. a \div m \in Int /\ a % m \in 0 .. m - 1 /\ a = m * (a \div m) + (a % m)
  OBVIOUS
<1>2. ASSUME a >= 0, a \div m < 0 PROVE FALSE
  <2>1. m * (a \div m) = -m - m * (-(a \div m) - 1) /\ -(a \div m) - 1 \in Nat
    BY <1>1, <1>2
  <2>2. m * (-(a \div m) - 1) >= 0
    BY <2>1
  <2> QED
    BY <1>1, <1>2, <2>1, <2>2
<1> QED
  BY <1>1, <1>2
-----------------------------------------------------------------------------
(* What check_mem stores, and how far the stages of boot rely on it.       *)
Measured ==
    /\ low \in Nat /\ high \in Nat
    /\ IF bios = "88" THEN low = Answer88
       ELSE high * Word16 + low = e801_kbytes

SizeInv ==
    /\ stage = "host" => pc = "off"
    /\ stage \in {"host", "loader", "torn", "boot_main", "kernel_start", "free_area_init"}
    /\ pc \in {"off", "read", "get_key", "check_mem", "pm"}
    /\ low \in Nat /\ high \in Nat /\ extended \in Nat
    /\ stage \in {"torn", "boot_main", "kernel_start", "free_area_init"} => pc = "pm"
    /\ pc = "pm" => Measured
    /\ stage = "kernel_start" => mem_size_kbytes = high * Word16 + low

(* What E801 counts: blocks of 64 KB behind the first MB (start.S).         *)
LEMMA Kbytes ==
    ASSUME extended \in Nat
    PROVE  /\ e801_kbytes \in Nat
           /\ e801_kbytes <= extended /\ extended - e801_kbytes < 64
<1>1. FirstMB \in Nat /\ FirstMB <= extended
  BY DEF FirstMB
<1> DEFINE k == extended - FirstMB
<1>2. k \in Nat
  BY <1>1
<1> HIDE DEF k
<1>3. /\ k \div 64 \in Int /\ k % 64 \in 0 .. 63 /\ k = 64 * (k \div 64) + (k % 64)
      /\ k \div 64 >= 0
  BY <1>2
<1>4. e801_kbytes = 64 * (k \div 64) + FirstMB
  BY DEF e801_kbytes, Blocks64, k
<1> QED
  BY <1>1, <1>3, <1>4 DEF k

(* Nothing is measured before the machine is switched on.                   *)
LEMMA SizeInit == Init => SizeInv
  BY DEF Init, SizeInv, LoaderOff

(* Only check_mem stores the size, and only boot_main reads it.             *)
LEMMA SizeStep == SizeInv /\ [Next]_vars => SizeInv'
<1> SUFFICES ASSUME SizeInv, [Next]_vars PROVE SizeInv'
  OBVIOUS
<1> USE DEF SizeInv
<1>1. CASE MakeImage
  BY <1>1 DEF MakeImage, loader_vars, mm_vars, Measured, Answer88, e801_kbytes, Blocks64, FirstMB
<1>2. CASE PowerOn
  BY <1>2, LoaderAssumption DEF PowerOn, LoaderInit
<1>3. CASE Load
  <2>1. stage = "loader" /\ stage' = stage /\ loader
    BY <1>3 DEF Load
  <2>2. CASE ReadTrack
    BY <2>1, <2>2 DEF ReadTrack
  <2>3. CASE CheckMem
    <3>1. /\ IF bios = "88" THEN low' = Answer88 /\ high' = high
             ELSE low' = e801_kbytes % Word16 /\ high' = e801_kbytes \div Word16
          /\ pc' = "pm" /\ extended' = extended /\ bios' = bios
      BY <2>3 DEF CheckMem
    <3>2. low' \in Nat /\ high' \in Nat /\ Measured'
      <4>1. CASE bios = "88"
        <5>1. Answer88 \in Nat
          BY DEF Answer88, Word16
        <5> QED
          BY <3>1, <4>1, <5>1 DEF Measured, Answer88
      <4>2. CASE bios # "88"
        <5>1. PICK n \in Nat : n = e801_kbytes
          BY Kbytes
        <5>2. /\ n \div 65536 \in Nat /\ n % 65536 \in Nat
              /\ n = (n \div 65536) * 65536 + (n % 65536)
          OBVIOUS
        <5>3. low' = n % 65536 /\ high' = n \div 65536
          BY <3>1, <4>2, <5>1 DEF Word16
        <5>4. high' * Word16 + low' = e801_kbytes
          BY <5>1, <5>2, <5>3 DEF Word16
        <5>5. e801_kbytes' = e801_kbytes
          BY <3>1 DEF e801_kbytes, Blocks64, FirstMB
        <5> QED
          BY <3>1, <4>2, <5>2, <5>3, <5>4, <5>5 DEF Measured
      <4> QED
        BY <4>1, <4>2
    <3> QED
      BY <2>1, <3>1, <3>2
  <2> QED
    BY <2>1, <2>2, <2>3 DEF loader
<1>4. CASE MoveKernel
  BY <1>4 DEF MoveKernel, loader_vars, Measured, Answer88, e801_kbytes, Blocks64, FirstMB
<1>5. CASE MapPages
  BY <1>5 DEF MapPages, loader_vars, mm_vars, Measured, Answer88, e801_kbytes, Blocks64, FirstMB
<1>6. CASE EnterKernel
  BY <1>6 DEF EnterKernel, loader_vars, Measured, Answer88, e801_kbytes, Blocks64, FirstMB
<1>7. CASE MmInit
  BY <1>7 DEF MmInit, loader_vars, Measured, Answer88, e801_kbytes, Blocks64, FirstMB
<1>8. CASE KeyPressed
  BY <1>8 DEF KeyPressed, get_key
<1>9. CASE UNCHANGED vars
  BY <1>9 DEF vars, loader_vars, mm_vars, Measured, Answer88, e801_kbytes, Blocks64, FirstMB
<1> QED
  BY <1>1, <1>2, <1>3, <1>4, <1>5, <1>6, <1>7, <1>8, <1>9 DEF Next, Work, Up

(* The kernel learns the size of the memory to the last whole 64 KB.       *)
THEOREM SizeLearnt == Spec => []MemoryMeasured
<1>1. SizeInv => MemoryMeasured
  <2> SUFFICES ASSUME SizeInv, stage = "kernel_start",
                      bios = "88" => high = 0 /\ extended < Word16
               PROVE  mem_size_kbytes <= extended /\ extended - mem_size_kbytes < 64
    BY DEF MemoryMeasured
  <2>1. Measured /\ mem_size_kbytes = high * Word16 + low /\ extended \in Nat
    BY DEF SizeInv
  <2>2. CASE bios = "88"
    <3>1. high = 0 /\ low = extended
      BY <2>1, <2>2 DEF Measured, Answer88, Word16
    <3> QED
      BY <2>1, <3>1 DEF Word16
  <2>3. CASE bios # "88"
    BY <2>1, <2>3, Kbytes DEF Measured
  <2> QED
    BY <2>2, <2>3
<1>2. Spec => []SizeInv
  BY SizeInit, SizeStep, PTL DEF Spec
<1> QED
  BY <1>1, <1>2, PTL
-----------------------------------------------------------------------------
(* The tables that default_page_map has filled before its i-th turn.       *)
Filled == IF i = 0 THEN 0 ELSE (i - 1) * Entries

(* Each turn of the outer loop links a table twice and fills the one before *)
(* it, so that the last one linked is never filled; mm_init keeps the       *)
(* entries of the pages there are.                                          *)
MapInv ==
    /\ stage \in {"host", "loader", "torn", "boot_main", "kernel_start", "free_area_init"}
    /\ paging \in BOOLEAN
    /\ i \in 0 .. Tables /\ j = Filled
    /\ stage \in {"host", "loader", "torn"} => i = 0 /\ ~paging
    /\ stage # "host" =>
          /\ DOMAIN pde = Directory /\ DOMAIN pte = TableEntries
          /\ \A t \in 0 .. i - 1 : pde[t] = t /\ pde[KernelEntry + t] = t
    /\ stage \notin {"host", "free_area_init"} => \A k \in 0 .. j - 1 : pte[k] = k
    /\ paging => i = Tables
    /\ stage \in {"kernel_start", "free_area_init"} => paging
    /\ bss \in Nat /\ kernel \in Nat /\ kernel_file \in Nat
    /\ stage = "kernel_start" => mem_size_kbytes \in Nat
    /\ stage = "free_area_init" =>
          \A k \in 0 .. j - 1 : k < total_pages => pte[k] = k

(* Rounding up to a multiple, of a page for one. *)
LEMMA RoundedUp ==
    ASSUME NEW m \in Nat \ {0}, NEW a \in Nat
    PROVE  ((a + m - 1) \div m) * m \in Nat /\ ((a + m - 1) \div m) * m >= a
<1> DEFINE n == a + m - 1
<1>1. n \in Nat /\ n + 1 = a + m
  OBVIOUS
<1> HIDE DEF n
<1>2. \E q \in Int, r \in 0 .. m - 1 :
         q = n \div m /\ r = n % m /\ n = m * q + r /\ (n >= 0 => q >= 0)
  BY <1>1, Parts
<1>3. PICK q \in Nat, r \in 0 .. m - 1 : q = n \div m /\ n = m * q + r
  BY <1>1, <1>2
<1>4. q * m = m * q /\ m * q \in Nat
  OBVIOUS
<1>5. q * m >= a
  BY <1>1, <1>3, <1>4
<1> QED
  BY <1>3, <1>4, <1>5 DEF n

LEMMA Aligned ==
    ASSUME NEW a \in Nat PROVE PageAlign(a) \in Nat /\ PageAlign(a) >= a
<1>1. PageSize \in Nat \ {0}
  BY BootAssumption
<1> QED
  BY <1>1, RoundedUp DEF PageAlign

(* mem_map lies behind the entries of the pages it describes. *)
LEMMA MapBehindEntries ==
    ASSUME NEW pages \in Nat, NEW k \in Nat, k < pages, bss \in Nat, kernel \in Nat
    PROVE  pte_address(k) < PageAlign(pgtbl_end(pages))
<1>1. PageSize \in Nat \ {0} /\ EntrySize \in Nat \ {0} /\ SectorSize \in Nat \ {0}
  BY BootAssumption
<1>2. pg \in Nat
  <2>1. KernelSectors * SectorSize \in Nat
    BY <1>1 DEF KernelSectors
  <2> QED
    BY <2>1, Aligned DEF pg
<1>3. EntrySize * k + EntrySize <= EntrySize * pages /\ EntrySize * k \in Nat
      /\ EntrySize * pages \in Nat
  BY <1>1, Times
<1> DEFINE e == pgtbl_end(pages)
<1>4. e \in Nat /\ pte_address(k) < e
  BY <1>1, <1>2, <1>3 DEF pte_address, pgtbl_end
<1> HIDE DEF e
<1>5. PageAlign(e) \in Nat /\ PageAlign(e) >= e
  BY <1>4, Aligned
<1>6. pte_address(k) \in Nat
  BY <1>1, <1>2, <1>3 DEF pte_address
<1> QED
  BY <1>4, <1>5, <1>6 DEF e

(* A turn of the outer loop of default_page_map. *)
LEMMA TurnFills ==
    ASSUME MapInv, MapTable, stage = "boot_main"
    PROVE  /\ i' = i + 1 /\ i' \in 0 .. Tables /\ paging' = FALSE /\ j' = Filled'
           /\ DOMAIN pde' = Directory /\ DOMAIN pte' = TableEntries
           /\ \A t \in 0 .. i : pde'[t] = t /\ pde'[KernelEntry + t] = t
           /\ \A k \in 0 .. j' - 1 : pte'[k] = k
<1>1. /\ Entries \in Nat \ {0} /\ Tables \in Nat \ {0} /\ KernelEntry \in Nat
      /\ Tables <= KernelEntry /\ KernelEntry + Tables <= Entries
  BY PageMapAssumption
<1>2. /\ i \in Nat /\ i < Tables /\ i' = i + 1 /\ ~paging /\ paging' = paging /\ paging \in BOOLEAN
      /\ pde' = [pde EXCEPT ![i] = i, ![KernelEntry + i] = i]
      /\ pte' = [k \in TableEntries |-> IF k >= j /\ k < i * Entries THEN k ELSE pte[k]]
      /\ j' = IF j < i * Entries THEN i * Entries ELSE j
      /\ DOMAIN pde = Directory /\ j = Filled
      /\ \A t \in 0 .. i - 1 : pde[t] = t /\ pde[KernelEntry + t] = t
      /\ \A k \in 0 .. j - 1 : pte[k] = k
  BY DEF MapInv, MapTable
<1>3. i * Entries \in Nat /\ i * Entries <= Tables * Entries /\ Tables * Entries \in Nat
  <2>1. Entries * i \in Nat /\ Entries * i <= Entries * Tables /\ Entries * Tables \in Nat
    BY <1>1, <1>2, Times
  <2> QED
    BY <1>1, <1>2, <2>1
<1>4. j \in Nat /\ j <= i * Entries
  <2>1. CASE i = 0
    BY <1>1, <1>2, <1>3, <2>1 DEF Filled
  <2>2. CASE i # 0
    <3>1. i - 1 \in Nat /\ (i - 1) * Entries = Entries * (i - 1)
      BY <1>1, <1>2, <2>2
    <3>2. Entries * (i - 1) \in Nat /\ Entries * (i - 1) <= Entries * i
      BY <1>1, <1>2, <3>1, Times
    <3> QED
      BY <1>1, <1>2, <2>2, <3>1, <3>2 DEF Filled
  <2> QED
    BY <2>1, <2>2
<1>5. j' = i * Entries
  BY <1>2, <1>3, <1>4
<1>6. j' = Filled'
  BY <1>2, <1>5 DEF Filled
<1>7. ASSUME NEW k \in 0 .. j' - 1 PROVE pte'[k] = k
  <2>1. k \in TableEntries /\ k < i * Entries
    BY <1>3, <1>5, <1>7 DEF TableEntries
  <2>2. CASE k >= j
    BY <1>2, <2>1, <2>2
  <2>3. CASE ~(k >= j)
    <3>1. k \in 0 .. j - 1
      BY <1>4, <2>3
    <3> QED
      BY <1>2, <2>1, <2>3, <3>1
  <2> QED
    BY <2>2, <2>3
<1>8. ASSUME NEW t \in 0 .. i PROVE pde'[t] = t /\ pde'[KernelEntry + t] = t
  <2>1. /\ t \in Directory /\ KernelEntry + t \in Directory
        /\ i \in Directory /\ KernelEntry + i \in Directory
        /\ t # KernelEntry + i /\ KernelEntry + t # i
    BY <1>1, <1>2 DEF Directory
  <2>2. CASE t = i
    BY <1>1, <1>2, <2>1, <2>2
  <2>3. CASE t # i
    <3>1. t \in 0 .. i - 1 /\ KernelEntry + t # KernelEntry + i
      BY <1>1, <1>2, <2>3
    <3> QED
      BY <1>2, <2>1, <2>3, <3>1
  <2> QED
    BY <2>2, <2>3
<1>9. DOMAIN pde' = Directory /\ DOMAIN pte' = TableEntries
  BY <1>2
<1>10. i' \in 0 .. Tables /\ paging' = FALSE
  BY <1>1, <1>2
<1> QED
  BY <1>2, <1>6, <1>7, <1>8, <1>9, <1>10

(* The memory of the tables may hold anything when the machine starts.      *)
LEMMA MapInit == Init => MapInv
<1> SUFFICES ASSUME Init PROVE MapInv
  OBVIOUS
<1>1. Tables \in Nat /\ BssSizes \subseteq Nat /\ KernelFiles \subseteq Nat
  BY PageMapAssumption, BootAssumption, MkImageAssumption
<1>2. /\ stage = "host" /\ bss \in Nat /\ paging = FALSE /\ i = 0 /\ j = 0
      /\ kernel = 0 /\ kernel_file \in Nat
  BY <1>1 DEF Init, PageMapOff, LoaderOff, MkImageInit
<1>3. i \in 0 .. Tables /\ j = Filled
  BY <1>1, <1>2 DEF Filled
<1> QED
  BY <1>2, <1>3 DEF MapInv

(* The tables are built by default_page_map and partly covered by mem_map.  *)
LEMMA MapStep == SizeInv /\ MapInv /\ [Next]_vars => MapInv'
<1> SUFFICES ASSUME SizeInv, MapInv, [Next]_vars PROVE MapInv'
  OBVIOUS
<1>1. /\ Entries \in Nat \ {0} /\ Tables \in Nat \ {0} /\ KernelEntry \in Nat
      /\ Sector \in Nat \ {0}
  BY PageMapAssumption, MkImageAssumption
<1>2. CASE MakeImage
  <2>1. kernel_file' = kernel_file
    BY <1>2 DEF MakeImage, MkImage, WriteBootSector, CopyKernel, BeginFill, Fill
  <2> QED
    BY <1>2, <2>1 DEF MakeImage, MapInv, Filled, loader_vars, page_map_vars, mm_vars
<1>3. CASE PowerOn
  <2>1. /\ stage = "host" /\ stage' = "loader" /\ kernel_file' = 0 /\ bss' = bss
        /\ kernel' = KernelFileSectors /\ paging' = paging /\ i' = i /\ j' = j
        /\ DOMAIN pde' = Directory /\ DOMAIN pte' = TableEntries
    BY <1>3 DEF PowerOn, LoaderInit, PageMapInit
  <2>2. kernel' \in Nat
    <3>1. kernel_file + Sector - 1 \in Nat
      BY <1>1 DEF MapInv
    <3> QED
      BY <1>1, <2>1, <3>1, Parts DEF KernelFileSectors
  <2> QED
    BY <1>1, <2>1, <2>2 DEF MapInv, Filled
<1>4. CASE Load
  <2>1. kernel' = kernel
    BY <1>4 DEF Load, loader, ReadTrack, CheckMem
  <2> QED
    BY <1>4, <2>1 DEF Load, MapInv, Filled, mkimage_vars, page_map_vars, mm_vars
<1>5. CASE MoveKernel
  BY <1>5 DEF MoveKernel, MapInv, Filled, mkimage_vars, loader_vars, page_map_vars, mm_vars
<1>6. CASE MapPages
  <2>1. stage = "boot_main" /\ stage' = stage /\ bss' = bss /\ kernel' = kernel
        /\ kernel_file' = kernel_file
    BY <1>6 DEF MapPages, mkimage_vars, loader_vars
  <2>2. CASE MapTable
    <3>1. /\ i' = i + 1 /\ i' \in 0 .. Tables /\ paging' = FALSE /\ j' = Filled'
          /\ DOMAIN pde' = Directory /\ DOMAIN pte' = TableEntries
          /\ \A t \in 0 .. i : pde'[t] = t /\ pde'[KernelEntry + t] = t
          /\ \A k \in 0 .. j' - 1 : pte'[k] = k
      BY <2>1, <2>2, TurnFills
    <3>2. i \in Int /\ bss \in Nat /\ kernel \in Nat /\ kernel_file \in Nat
      BY <1>1 DEF MapInv
    <3>3. \A t \in 0 .. i' - 1 : pde'[t] = t /\ pde'[KernelEntry + t] = t
      BY <3>1, <3>2
    <3> QED
      BY <2>1, <3>1, <3>2, <3>3 DEF MapInv
  <2>3. CASE Enable
    BY <2>1, <2>3 DEF Enable, MapInv, Filled
  <2> QED
    BY <1>6, <2>2, <2>3 DEF MapPages, default_page_map
<1>7. CASE EnterKernel
  <2>1. mem_size_kbytes' \in Nat
    BY <1>7 DEF EnterKernel, SizeInv, Word16
  <2> QED
    BY <1>7, <2>1 DEF EnterKernel, MapInv, Filled, mkimage_vars, loader_vars, page_map_vars
<1>8. CASE MmInit
  <2> DEFINE pages == pages_of_memory(mem_size_kbytes)
             map   == PageAlign(pgtbl_end(pages))
             stop  == map + PageStruct * pages
  <2>1. /\ stage = "kernel_start" /\ stage' = "free_area_init"
        /\ total_pages' = pages
        /\ \E junk \in StaleEntries :
              pte' = [k \in TableEntries |->
                         IF pte_address(k) >= map /\ pte_address(k) < stop THEN junk
                         ELSE pte[k]]
        /\ bss' = bss /\ kernel' = kernel /\ kernel_file' = kernel_file
        /\ paging' = paging /\ pde' = pde /\ i' = i /\ j' = j
    BY <1>8 DEF MmInit, mkimage_vars, loader_vars
  <2>2. mem_size_kbytes \in Nat /\ paging /\ i = Tables /\ j = Filled
        /\ \A k \in 0 .. j - 1 : pte[k] = k
    BY <2>1 DEF MapInv
  <2>3. pages \in Nat
    BY <2>2 DEF pages_of_memory
  <2> HIDE DEF pages
  <2>4. ASSUME NEW k \in 0 .. j - 1, k < pages PROVE pte'[k] = k
    <3>1. k \in Nat /\ k \in TableEntries
      <4>1. i - 1 \in Nat /\ (i - 1) * Entries = Entries * (i - 1)
            /\ Tables * Entries = Entries * Tables /\ i - 1 <= Tables
        BY <1>1, <2>2
      <4>2. Entries * (i - 1) <= Entries * Tables /\ Entries * (i - 1) \in Nat
            /\ Entries * Tables \in Nat
        BY <1>1, <4>1, Times
      <4>3. j = Entries * (i - 1)
        BY <1>1, <2>2, <4>1 DEF Filled
      <4> QED
        BY <4>1, <4>2, <4>3 DEF TableEntries
    <3>2. pte_address(k) < map
      BY <2>3, <2>4, <3>1, MapBehindEntries DEF MapInv
    <3>3. pte_address(k) \in Int /\ map \in Int
      <4>1. PageSize \in Nat \ {0} /\ EntrySize \in Nat \ {0} /\ SectorSize \in Nat \ {0}
        BY BootAssumption
      <4>2. KernelSectors * SectorSize \in Nat
        BY <4>1 DEF KernelSectors, MapInv
      <4>3. pg \in Nat
        BY <4>2, Aligned DEF pg
      <4>4. EntrySize * k \in Nat /\ EntrySize * pages \in Nat
        BY <2>3, <3>1, <4>1, Times
      <4>5. pgtbl_end(pages) \in Nat /\ pte_address(k) \in Nat
        BY <4>1, <4>3, <4>4 DEF pgtbl_end, pte_address
      <4> QED
        BY <4>5, Aligned
    <3> HIDE DEF map, stop
    <3>4. ~(pte_address(k) >= map)
      BY <3>2, <3>3
    <3> QED
      BY <2>1, <2>2, <3>1, <3>4
  <2>5. DOMAIN pte' = TableEntries
    BY <2>1
  <2> QED
    BY <2>1, <2>2, <2>4, <2>5 DEF MapInv, Filled
<1>9. CASE KeyPressed
  BY <1>9 DEF KeyPressed, get_key, MapInv, Filled, mkimage_vars, page_map_vars, mm_vars
<1>10. CASE UNCHANGED vars
  BY <1>10 DEF vars, MapInv, Filled, mkimage_vars, loader_vars, page_map_vars, mm_vars
<1> QED
  BY <1>2, <1>3, <1>4, <1>5, <1>6, <1>7, <1>8, <1>9, <1>10 DEF Next, Work, Up

(* With paging on, both views show the memory at its place. *)
THEOREM MemoryStaysSeen == Spec => []MemorySeen
<1>1. MapInv => MemorySeen
  <2> SUFFICES ASSUME MapInv, paging,
                      NEW v \in 0 .. (Tables - 1) * Entries - 1,
                      stage = "free_area_init" => v < total_pages
               PROVE  Seen(v)
    BY DEF MemorySeen
  <2>1. /\ Entries \in Nat \ {0} /\ Tables \in Nat \ {0} /\ KernelEntry \in Nat
    BY PageMapAssumption
  <2>2. (Tables - 1) * Entries = Entries * (Tables - 1)
    BY <2>1
  <2>3. v \in Nat /\ v < Entries * (Tables - 1)
    <3>1. Entries * (Tables - 1) \in Nat
      BY <2>1
    <3> QED
      BY <2>2, <3>1
  <2>4. PICK q \in Nat, r \in 0 .. Entries - 1 :
           v = Entries * q + r /\ v \div Entries = q /\ v % Entries = r
    <3>1. \E q \in Int, r \in 0 .. Entries - 1 :
             /\ q = v \div Entries /\ r = v % Entries
             /\ v = Entries * q + r /\ (v >= 0 => q >= 0)
      BY <2>1, <2>3, Parts
    <3> QED
      BY <2>3, <3>1
  <2>5. q < Tables - 1
    <3>1. SUFFICES ASSUME Tables - 1 <= q PROVE FALSE
      BY <2>1, <2>4
    <3>2. Entries * (Tables - 1) <= Entries * q /\ Entries * q \in Nat
          /\ Entries * (Tables - 1) \in Nat
      BY <2>1, <2>4, <3>1, Times
    <3> QED
      BY <2>3, <2>4, <3>2
  <2>6. pde[q] = q /\ pde[KernelEntry + q] = q
    BY <2>1, <2>4, <2>5 DEF MapInv
  <2>7. pte[v] = v
    <3>1. j = (Tables - 1) * Entries
      BY <2>1 DEF MapInv, Filled
    <3>2. v \in 0 .. j - 1
      BY <3>1
    <3>3. stage \in {"kernel_start", "free_area_init", "boot_main"} /\ stage # "torn"
      BY DEF MapInv
    <3> QED
      BY <3>2, <3>3 DEF MapInv
  <2>8. Translate(v) = v
    <3>1. q * Entries + r = v /\ q \in 0 .. Tables - 1
      BY <2>1, <2>4, <2>5
    <3> QED
      BY <2>4, <2>6, <2>7, <3>1 DEF Translate
  <2>9. Translate(KernelEntry * Entries + v) = v
    <3> DEFINE w == KernelEntry * Entries + v
    <3>1. w = Entries * (KernelEntry + q) + r /\ KernelEntry + q \in Nat
      BY <2>1, <2>4
    <3>2. w \div Entries = KernelEntry + q /\ w % Entries = r
      BY <2>1, <2>4, <3>1, Division
    <3> HIDE DEF w
    <3>3. q * Entries + r = v /\ q \in 0 .. Tables - 1
      BY <2>1, <2>4, <2>5
    <3>4. Translate(w) = v
      BY <2>6, <2>7, <3>2, <3>3 DEF Translate
    <3> QED
      BY <3>4 DEF w
  <2> QED
    BY <2>8, <2>9 DEF Seen
<1>2. Spec => [](SizeInv /\ MapInv)
  BY SizeInit, SizeStep, MapInit, MapStep, PTL DEF Spec
<1> QED
  BY <1>1, <1>2, PTL
-----------------------------------------------------------------------------
(* What mkimage has to write at each place, and how far it should have got. *)
Unit == {"old", "loader", "kernel", "zero"} \X Int

Expected(k) ==
    IF k <= loader_file THEN <<"loader", k>>
    ELSE IF k > Sector /\ k <= Sector + kernel_file THEN <<"kernel", k - Sector>>
    ELSE <<"zero", 0>>

(* Where the loops take the image to be.                                    *)
Due ==
    IF mkimage = "copy" THEN Sector + kernel_file - file_size
    ELSE Sector + kernel_file + (left_to_fill % SizeT) - remain_size

(* No write takes anything any more.                                        *)
Full == written = Len(boot_img) /\ room = 0

(* The position lies in the image, and behind it is what was there before.  *)
Sized ==
    /\ room \in Nat /\ boot_img \in Seq(Unit) /\ Len(boot_img) + room < SizeT
    /\ written \in 0 .. Len(boot_img)
    /\ \A k \in written + 1 .. Len(boot_img) : boot_img[k] = <<"old", k>>

(* What has been written is as expected.  A write that the disk cut short   *)
(* leaves it full, so that the next one, if there is one, fails.            *)
ImageInv ==
    /\ mkimage \in {"open", "copy", "fill", "ok", "failed", "gone", "endless"}
    /\ mkimage \in {"open", "copy", "fill", "ok"} => Sized /\ kernel_file \in Nat \ {0}
    /\ mkimage = "open" => written = 0 /\ loader_file \in Nat /\ remain_size \in Nat
    /\ mkimage \in {"copy", "fill", "ok"} =>
          /\ loader_file \in 1 .. Sector
          /\ \A k \in 1 .. written : boot_img[k] = Expected(k)
          /\ file_size \in 0 .. kernel_file /\ remain_size \in Nat
          /\ \/ written = Due
             \/ /\ Full /\ written < Due
                /\ Due - written < Buffer \/ (mkimage = "copy" /\ file_size = kernel_file)
    /\ mkimage \in {"fill", "ok"} => remain_size <= left_to_fill % SizeT
    /\ mkimage = "ok" => remain_size = 0

(* One write: how much is taken, and what it leaves of the image.           *)
Wrote(data, n) ==
    /\ written' = written + n /\ boot_img' \in Seq(Unit)
    /\ Len(boot_img') = IF written + n > Len(boot_img) THEN written + n ELSE Len(boot_img)
    /\ \A k \in 1 .. written : boot_img'[k] = boot_img[k]
    /\ \A k \in 1 .. n : boot_img'[written + k] = data[k]
    /\ \A k \in written + n + 1 .. Len(boot_img) : boot_img'[k] = boot_img[k]
    /\ room' \in Nat /\ Len(boot_img') + room' = Len(boot_img) + room
    /\ n < Len(data) => Full'

(* n units of d over what s holds from w on, or behind it.                   *)
LEMMA Spliced ==
    ASSUME NEW s \in Seq(Unit), NEW d \in Seq(Unit), NEW w \in 0 .. Len(s),
           NEW n \in 0 .. Len(d)
    PROVE  LET r == SubSeq(s, 1, w) \o SubSeq(d, 1, n) \o SubSeq(s, w + n + 1, Len(s))
           IN  /\ r \in Seq(Unit)
               /\ Len(r) = IF w + n > Len(s) THEN w + n ELSE Len(s)
               /\ \A k \in 1 .. w : r[k] = s[k]
               /\ \A k \in 1 .. n : r[w + k] = d[k]
               /\ \A k \in w + n + 1 .. Len(s) : r[k] = s[k]
<1> DEFINE a == SubSeq(s, 1, w)
           b == SubSeq(d, 1, n)
           c == SubSeq(s, w + n + 1, Len(s))
<1>1. a \in Seq(Unit) /\ Len(a) = w /\ \A k \in 1 .. w : a[k] = s[k]
  <2>1. \A k \in 1 .. w : s[k] \in Unit
    OBVIOUS
  <2>2. /\ a \in Seq(Unit) /\ Len(a) = IF 1 <= w THEN w - 1 + 1 ELSE 0
        /\ \A k \in 1 .. w - 1 + 1 : a[k] = s[1 + k - 1]
    BY <2>1, SubSeqProperties
  <2> QED
    BY <2>2
<1>2. b \in Seq(Unit) /\ Len(b) = n /\ \A k \in 1 .. n : b[k] = d[k]
  <2>1. \A k \in 1 .. n : d[k] \in Unit
    OBVIOUS
  <2>2. /\ b \in Seq(Unit) /\ Len(b) = IF 1 <= n THEN n - 1 + 1 ELSE 0
        /\ \A k \in 1 .. n - 1 + 1 : b[k] = d[1 + k - 1]
    BY <2>1, SubSeqProperties
  <2> QED
    BY <2>2
<1>3. /\ c \in Seq(Unit) /\ Len(c) = IF w + n > Len(s) THEN 0 ELSE Len(s) - (w + n)
      /\ \A k \in 1 .. Len(s) - (w + n) : c[k] = s[w + n + k]
  <2>1. PICK x \in Nat : x = w + n + 1 /\ x >= 1
    OBVIOUS
  <2>2. Len(s) \in Nat /\ \A k \in x .. Len(s) : s[k] \in Unit
    BY <2>1
  <2>3. c = SubSeq(s, x, Len(s))
    BY <2>1
  <2> HIDE DEF c
  <2>4. /\ c \in Seq(Unit)
        /\ Len(c) = IF x <= Len(s) THEN Len(s) - x + 1 ELSE 0
        /\ \A k \in 1 .. Len(s) - x + 1 : c[k] = s[x + k - 1]
    BY <2>1, <2>2, <2>3, SubSeqProperties
  <2>5. Len(s) - x + 1 = Len(s) - (w + n)
    BY <2>1, <2>2
  <2>6. Len(c) = IF w + n > Len(s) THEN 0 ELSE Len(s) - (w + n)
    BY <2>1, <2>2, <2>4
  <2>7. ASSUME NEW k \in 1 .. Len(s) - (w + n) PROVE c[k] = s[w + n + k]
    <3>1. c[k] = s[x + k - 1]
      BY <2>4, <2>5
    <3>2. x + k - 1 = w + n + k
      BY <2>1, <2>2
    <3> QED
      BY <3>1, <3>2
  <2> QED
    BY <2>4, <2>6, <2>7
<1> HIDE DEF a, b, c
<1>4. /\ a \o b \in Seq(Unit) /\ Len(a \o b) = w + n
      /\ \A k \in 1 .. w + n : (a \o b)[k] = IF k <= w THEN a[k] ELSE b[k - w]
  BY ZenonT(40), <1>1, <1>2, ConcatProperties
<1> DEFINE e == a \o b
           r == e \o c
<1> HIDE DEF e
<1>5. /\ r \in Seq(Unit) /\ Len(r) = Len(e) + Len(c)
      /\ \A k \in 1 .. Len(e) + Len(c) : r[k] = IF k <= Len(e) THEN e[k] ELSE c[k - Len(e)]
  BY ZenonT(40), <1>3, <1>4, ConcatProperties DEF e
<1> HIDE DEF r
<1>6. /\ Len(e) = w + n /\ Len(c) \in Nat
      /\ \A k \in 1 .. w + n : e[k] = IF k <= w THEN a[k] ELSE b[k - w]
  <2>1. e = a \o b
    BY DEF e
  <2>2. Len(c) \in Nat
    BY <1>3
  <2> QED
    BY <1>4, <2>1, <2>2, ZenonT(30)
<1>7. ASSUME NEW k \in 1 .. w PROVE r[k] = s[k]
  <2>1. k \in 1 .. w + n /\ k \in 1 .. Len(e) + Len(c) /\ k <= Len(e)
    BY <1>6
  <2> QED
    BY <1>1, <1>5, <1>6, <2>1
<1>8. ASSUME NEW k \in 1 .. n PROVE r[w + k] = d[k]
  <2>1. w + k \in 1 .. w + n /\ w + k \in 1 .. Len(e) + Len(c) /\ w + k <= Len(e)
        /\ ~(w + k <= w) /\ (w + k) - w = k
    BY <1>6
  <2>2. r[w + k] = e[w + k]
    BY <1>5, <2>1
  <2>3. e[w + k] = b[k]
    BY <1>6, <2>1
  <2> QED
    BY <1>2, <2>2, <2>3
<1>9. Len(r) = IF w + n > Len(s) THEN w + n ELSE Len(s)
  <2>1. Len(s) \in Nat /\ w + n \in Nat /\ Len(r) = (w + n) + Len(c)
    BY <1>5, <1>6
  <2>2. CASE w + n > Len(s)
    BY <1>3, <2>1, <2>2
  <2>3. CASE ~(w + n > Len(s))
    <3>1. Len(c) = Len(s) - (w + n)
      BY <1>3, <2>3
    <3>2. (w + n) + (Len(s) - (w + n)) = Len(s)
      BY <2>1
    <3> QED
      BY <2>1, <2>3, <3>1, <3>2
  <2> QED
    BY <2>2, <2>3
<1>10. ASSUME NEW k \in w + n + 1 .. Len(s) PROVE r[k] = s[k]
  <2>1. PICK t \in Nat : t = k - (w + n) /\ t \in 1 .. Len(s) - (w + n) /\ w + n + t = k
    OBVIOUS
  <2>2. Len(c) = Len(s) - (w + n)
    BY <1>3
  <2>3. k \in 1 .. Len(e) + Len(c) /\ ~(k <= Len(e)) /\ k - Len(e) = t
    BY <1>6, <2>1, <2>2
  <2>4. r[k] = c[t]
    BY <1>5, <2>3
  <2> QED
    BY <1>3, <2>1, <2>4
<1> QED
  BY <1>5, <1>7, <1>8, <1>9, <1>10 DEF r, e, a, b, c

(* write(2) takes a part of its data only if the disk is full after it.      *)
LEMMA WriteFacts ==
    ASSUME Sized, NEW data \in Seq(Unit), NEW next, write(data, next)
    PROVE  \E n \in 0 .. Len(data) :
              /\ Wrote(data, n)
              /\ Full => n = 0
              /\ mkimage' = IF n = 0 /\ data # << >> THEN "failed" ELSE next
<1>1. /\ room \in Nat /\ boot_img \in Seq(Unit) /\ Len(boot_img) \in Nat
      /\ written \in 0 .. Len(boot_img) /\ Len(data) \in Nat
  BY DEF Sized
<1> DEFINE n == Taken(Len(data))
<1>2. /\ n \in 0 .. Len(data) /\ (Full => n = 0)
      /\ n < Len(data) => n = Len(boot_img) - written + room
      /\ n <= Len(boot_img) - written + room
  BY <1>1 DEF Taken, Less, Full
<1> DEFINE img == SubSeq(boot_img, 1, written) \o SubSeq(data, 1, n)
                      \o SubSeq(boot_img, written + n + 1, Len(boot_img))
<1>3. /\ boot_img' = img
      /\ room' = room - (Len(img) - Len(boot_img))
      /\ written' = written + n
      /\ mkimage' = IF n = 0 /\ data # << >> THEN "failed" ELSE next
  BY DEF write
<1> HIDE DEF n
<1>4. /\ img \in Seq(Unit)
      /\ Len(img) = IF written + n > Len(boot_img) THEN written + n ELSE Len(boot_img)
      /\ \A k \in 1 .. written : img[k] = boot_img[k]
      /\ \A k \in 1 .. n : img[written + k] = data[k]
      /\ \A k \in written + n + 1 .. Len(boot_img) : img[k] = boot_img[k]
  BY <1>1, <1>2, Spliced
<1> HIDE DEF img
<1>5. room' \in Nat /\ Len(boot_img') + room' = Len(boot_img) + room
  BY <1>1, <1>2, <1>3, <1>4
<1>6. n < Len(data) => Full'
  BY SMTT(30), <1>1, <1>2, <1>3, <1>4 DEF Full
<1>7. Wrote(data, n)
  BY <1>3, <1>4, <1>5, <1>6 DEF Wrote
<1> QED
  BY <1>2, <1>3, <1>7

(* A write of what is expected next, with everything before it in place or  *)
(* the disk full.                                                           *)
LEMMA Advances ==
    ASSUME Sized, NEW data \in Seq(Unit), NEW len \in Nat \ {0}, Len(data) = len,
           NEW next, write(data, next), NEW due \in Nat, written = due \/ (Full /\ written < due),
           loader_file' = loader_file, kernel_file' = kernel_file,
           \A k \in 1 .. written : boot_img[k] = Expected(k),
           \A k \in 1 .. len : data[k] = Expected(due + k)
    PROVE  /\ Sized'
           /\ \/ mkimage' = "failed"
              \/ /\ mkimage' = next
                 /\ \A k \in 1 .. written' : boot_img'[k] = Expected(k)'
                 /\ \/ written' = due + len
                    \/ Full' /\ written' < due + len /\ due < written'
<1>1. /\ room \in Nat /\ boot_img \in Seq(Unit) /\ Len(boot_img) \in Nat
      /\ Len(boot_img) + room < SizeT
      /\ written \in 0 .. Len(boot_img) /\ Len(data) \in Nat
      /\ \A k \in written + 1 .. Len(boot_img) : boot_img[k] = <<"old", k>>
  BY DEF Sized
<1>2. PICK n \in 0 .. Len(data) :
         /\ Wrote(data, n)
         /\ Full => n = 0
         /\ mkimage' = IF n = 0 /\ data # << >> THEN "failed" ELSE next
  BY WriteFacts
<1>3. /\ written' = written + n /\ boot_img' \in Seq(Unit)
      /\ Len(boot_img') = IF written + n > Len(boot_img) THEN written + n ELSE Len(boot_img)
      /\ \A k \in 1 .. written : boot_img'[k] = boot_img[k]
      /\ \A k \in 1 .. n : boot_img'[written + k] = data[k]
      /\ \A k \in written + n + 1 .. Len(boot_img) : boot_img'[k] = boot_img[k]
      /\ room' \in Nat /\ Len(boot_img') + room' = Len(boot_img) + room
      /\ n < Len(data) => Full'
  BY <1>2 DEF Wrote
<1>4. Sized'
  <2>1. written' \in 0 .. Len(boot_img') /\ Len(boot_img') + room' < SizeT
    BY <1>1, <1>3
  <2>2. ASSUME NEW k \in written' + 1 .. Len(boot_img') PROVE boot_img'[k] = <<"old", k>>
    <3>1. k \in written + n + 1 .. Len(boot_img) /\ k \in written + 1 .. Len(boot_img)
      BY <1>1, <1>3
    <3> QED
      BY <1>1, <1>3, <3>1
  <2> QED
    BY <1>3, <2>1, <2>2 DEF Sized
<1>5. CASE n = 0
  <2>1. data # << >>
    OBVIOUS
  <2> QED
    BY <1>2, <1>4, <1>5, <2>1
<1>6. CASE n # 0
  <2>1. written = due /\ mkimage' = next
    BY <1>2, <1>6
  <2>2. \A k : Expected(k)' = Expected(k)
    BY DEF Expected
  <2>3. ASSUME NEW k \in 1 .. written' PROVE boot_img'[k] = Expected(k)
    <3>1. CASE k <= written
      <4>1. k \in 1 .. written
        BY <1>1, <1>3, <3>1
      <4> QED
        BY <1>3, <4>1
    <3>2. CASE k > written
      <4>1. k - written \in 1 .. n /\ k - written \in 1 .. Len(data)
            /\ written + (k - written) = k
        BY <1>1, <1>3, <3>2
      <4>2. boot_img'[written + (k - written)] = data[k - written]
        BY <1>3, <4>1
      <4>3. data[k - written] = Expected(due + (k - written))
        BY <4>1
      <4> QED
        BY <2>1, <4>1, <4>2, <4>3
    <3> QED
      BY <1>1, <1>3, <3>1, <3>2
  <2>4. \/ written' = due + len
        \/ Full' /\ written' < due + len /\ due < written'
    <3>1. CASE n = Len(data)
      BY <1>3, <2>1, <3>1
    <3>2. CASE n < Len(data)
      <4>1. Full' /\ written' = due + n /\ n > 0
        BY <1>3, <1>6, <2>1, <3>2
      <4> QED
        BY <1>1, <3>2, <4>1
    <3> QED
      BY <1>1, <3>1, <3>2
  <2> QED
    BY <1>4, <2>1, <2>2, <2>3, <2>4
<1> QED
  BY <1>5, <1>6

(* The data of the writes: zeros from the static buffer, ...                 *)
LEMMA ZerosFacts ==
    ASSUME NEW n \in Nat
    PROVE  /\ Zeros(n) \in Seq(Unit) /\ Len(Zeros(n)) = n
           /\ \A k \in 1 .. n : Zeros(n)[k] = <<"zero", 0>>
<1>1. <<"zero", 0>> \in Unit
  BY DEF Unit
<1> QED
  BY <1>1 DEF Zeros

(* ... and what was read of a file.                                          *)
LEMMA UnitsFacts ==
    ASSUME NEW file \in {"loader", "kernel"}, NEW first \in Int, NEW n \in Nat
    PROVE  /\ Units(file, first, n) \in Seq(Unit) /\ Len(Units(file, first, n)) = n
           /\ \A k \in 1 .. n : Units(file, first, n)[k] = <<file, first + k - 1>>
<1> DEFINE u == [k \in 1 .. n |-> <<file, first + k - 1>>]
<1>1. \A k \in 1 .. n : <<file, first + k - 1>> \in Unit
  BY DEF Unit
<1>2. u \in [1 .. n -> Unit] /\ \A k \in 1 .. n : u[k] = <<file, first + k - 1>>
  BY <1>1
<1>3. Units(file, first, n) = u
  BY DEF Units
<1> HIDE DEF u
<1>4. u \in Seq(Unit) /\ Len(u) = n
  BY <1>2
<1> QED
  BY <1>2, <1>3, <1>4

(* The boot sector: loader.bin, and zeros up to its size.                    *)
LEMMA BootSectorFacts ==
    ASSUME loader_file \in 1 .. Sector
    PROVE  LET d == Units("loader", 1, loader_file) \o Zeros(Sector - loader_file)
           IN  /\ d \in Seq(Unit) /\ Len(d) = Sector
               /\ \A k \in 1 .. Sector : d[k] = Expected(k)
<1> DEFINE a == Units("loader", 1, loader_file)
           b == Zeros(Sector - loader_file)
           d == a \o b
<1>1. Sector \in Nat \ {0} /\ loader_file \in Nat /\ Sector - loader_file \in Nat
  BY MkImageAssumption
<1>2. /\ a \in Seq(Unit) /\ Len(a) = loader_file
      /\ \A k \in 1 .. loader_file : a[k] = <<"loader", 1 + k - 1>>
  <2>1. PICK one \in Int : one = 1
    OBVIOUS
  <2> DEFINE u == Units("loader", one, loader_file)
  <2>2. /\ u \in Seq(Unit) /\ Len(u) = loader_file
        /\ \A k \in 1 .. loader_file : u[k] = <<"loader", one + k - 1>>
    BY <1>1, UnitsFacts
  <2>3. a = u
    BY <2>1
  <2> HIDE DEF a, u
  <2> QED
    BY <2>1, <2>2, <2>3
<1>3. /\ b \in Seq(Unit) /\ Len(b) = Sector - loader_file
      /\ \A k \in 1 .. Sector - loader_file : b[k] = <<"zero", 0>>
  BY <1>1, ZerosFacts
<1> HIDE DEF a, b
<1>4. /\ d \in Seq(Unit) /\ Len(d) = Len(a) + Len(b)
      /\ \A k \in 1 .. Len(a) + Len(b) : d[k] = IF k <= Len(a) THEN a[k] ELSE b[k - Len(a)]
  BY <1>2, <1>3, ConcatProperties
<1> HIDE DEF d
<1>5. Len(d) = Sector /\ Len(a) + Len(b) = Sector
  BY <1>1, <1>2, <1>3, <1>4
<1>6. ASSUME NEW k \in 1 .. Sector PROVE d[k] = Expected(k)
  <2>1. CASE k <= loader_file
    <3>1. k \in 1 .. loader_file /\ 1 + k - 1 = k
      BY <1>1, <2>1
    <3>2. d[k] = <<"loader", k>>
      BY <1>2, <1>4, <1>5, <3>1
    <3> QED
      BY <2>1, <3>2 DEF Expected
  <2>2. CASE k > loader_file
    <3>1. k - loader_file \in 1 .. Sector - loader_file /\ ~(k <= loader_file) /\ ~(k > Sector)
      BY <1>1, <2>2
    <3>2. d[k] = <<"zero", 0>>
      BY <1>2, <1>3, <1>4, <1>5, <3>1
    <3> QED
      BY <3>1, <3>2 DEF Expected
  <2> QED
    BY <1>1, <2>1, <2>2
<1> QED
  BY <1>4, <1>5, <1>6 DEF d, a, b

(* At first all of the image is what an earlier run has left.                *)
LEMMA ImageInit == Init => ImageInv
<1> SUFFICES ASSUME Init PROVE ImageInv
  OBVIOUS
<1>1. /\ mkimage = "open" /\ written = 0 /\ remain_size = 0
      /\ loader_file \in Nat /\ kernel_file \in Nat \ {0} /\ room \in Rooms
  BY MkImageAssumption DEF Init, MkImageInit
<1>2. PICK n \in OldImages : boot_img = [k \in 1 .. n |-> <<"old", k>>]
  BY DEF Init, MkImageInit
<1>3. n \in Nat /\ room \in Nat /\ n + room < SizeT
  BY <1>1, MkImageAssumption
<1>4. boot_img \in Seq(Unit) /\ Len(boot_img) = n
  <2>1. \A k \in 1 .. n : <<"old", k>> \in Unit
    BY DEF Unit
  <2> QED
    BY <1>2, <1>3, <2>1
<1>5. Sized
  BY <1>1, <1>2, <1>3, <1>4 DEF Sized
<1> QED
  BY <1>1, <1>5 DEF ImageInv

(* The first write, of a whole sector, over the start of the old image.      *)
LEMMA BootSectorStep == ImageInv /\ WriteBootSector => ImageInv'
<1> SUFFICES ASSUME ImageInv, WriteBootSector PROVE ImageInv'
  OBVIOUS
<1>1. /\ mkimage = "open" /\ written = 0 /\ Sized /\ kernel_file \in Nat \ {0}
      /\ remain_size \in Nat /\ loader_file' = loader_file /\ kernel_file' = kernel_file
      /\ remain_size' = remain_size /\ file_size' = kernel_file
      /\ Sector \in Nat \ {0}
  BY MkImageAssumption DEF ImageInv, WriteBootSector
<1>2. CASE fails
  BY <1>2 DEF fails, ImageInv
<1>3. CASE ~fails
  <2> DEFINE d == Units("loader", 1, loader_file) \o Zeros(Sector - loader_file)
  <2>1. PICK opened \in {"copy", "failed"} : loader_file \in 1 .. Sector /\ write(d, opened)
    BY <1>3 DEF WriteBootSector
  <2>2. d \in Seq(Unit) /\ Len(d) = Sector /\ \A k \in 1 .. Sector : d[k] = Expected(k)
    BY <2>1, BootSectorFacts
  <2> HIDE DEF d
  <2>3. PICK due \in Nat : due = 0
    OBVIOUS
  <2>4. \A k \in 1 .. Sector : d[k] = Expected(due + k)
    BY <2>2, <2>3
  <2>5. written = due /\ \A k \in 1 .. written : boot_img[k] = Expected(k)
    BY <1>1, <2>2, <2>3
  <2>6. /\ Sized'
        /\ \/ mkimage' = "failed"
           \/ /\ mkimage' = opened
              /\ \A k \in 1 .. written' : boot_img'[k] = Expected(k)'
              /\ \/ written' = due + Sector
                 \/ Full' /\ written' < due + Sector /\ due < written'
    BY <1>1, <2>1, <2>2, <2>4, <2>5, Advances
  <2>7. CASE mkimage' = "failed"
    BY <2>7 DEF ImageInv
  <2>8. CASE mkimage' = "copy"
    <3>1. Due' = Sector /\ due + Sector = Sector
      BY <1>1, <2>2, <2>3, <2>8 DEF Due
    <3> QED
      BY <1>1, <2>1, <2>6, <2>8, <3>1 DEF ImageInv
  <2> QED
    BY <2>1, <2>6, <2>7, <2>8
<1> QED
  BY <1>2, <1>3

(* A buffer of the kernel, read and written; or a read that failed, which    *)
(* leads to a write that fails.                                             *)
LEMMA CopyStep == ImageInv /\ CopyKernel => ImageInv'
<1> SUFFICES ASSUME ImageInv, CopyKernel PROVE ImageInv'
  OBVIOUS
<1>1. /\ mkimage = "copy" /\ file_size > 0 /\ Sized /\ kernel_file \in Nat \ {0}
      /\ loader_file \in 1 .. Sector /\ file_size \in 0 .. kernel_file /\ remain_size \in Nat
      /\ \A k \in 1 .. written : boot_img[k] = Expected(k)
      /\ written = Due \/ (Full /\ written < Due)
      /\ loader_file' = loader_file /\ kernel_file' = kernel_file /\ remain_size' = remain_size
      /\ Sector \in Nat \ {0} /\ Buffer \in Nat \ {0}
  BY MkImageAssumption DEF ImageInv, CopyKernel
<1>2. CASE fails \/ mkimage' = "endless"
  BY <1>2 DEF fails, ImageInv
<1>3. CASE ~(fails \/ mkimage' = "endless")
  <2>2. PICK n \in Nat \ {0} : n = Less(file_size, Buffer) /\ n <= file_size /\ n <= Buffer
    BY <1>1 DEF Less
  <2> DEFINE d == Units("kernel", kernel_file - file_size + 1, n)
  <2>1. write(d, "copy") /\ file_size' = file_size - n
    BY <1>3, <2>2 DEF CopyKernel
  <2>3. kernel_file - file_size + 1 \in Int
    BY <1>1
  <2>4. /\ d \in Seq(Unit) /\ Len(d) = n
        /\ \A k \in 1 .. n : d[k] = <<"kernel", kernel_file - file_size + 1 + k - 1>>
    BY <2>2, <2>3, UnitsFacts
  <2> HIDE DEF d
  <2>5. PICK due \in Nat : due = Due /\ due = Sector + kernel_file - file_size
    BY <1>1 DEF Due
  <2>6. ASSUME NEW k \in 1 .. n PROVE d[k] = Expected(due + k)
    <3>1. k \in 1 .. n /\ kernel_file - file_size + 1 + k - 1 = (due + k) - Sector
          /\ ~(due + k <= loader_file) /\ due + k > Sector /\ due + k <= Sector + kernel_file
      BY <1>1, <2>2, <2>4, <2>5
    <3>2. d[k] = <<"kernel", (due + k) - Sector>>
      BY <2>4, <3>1
    <3>3. Expected(due + k) = <<"kernel", (due + k) - Sector>>
      BY <3>1 DEF Expected
    <3> QED
      BY <3>2, <3>3
  <2>7. written = due \/ (Full /\ written < due)
    BY <1>1, <2>2, <2>5
  <2>8. /\ Sized'
        /\ \/ mkimage' = "failed"
           \/ /\ mkimage' = "copy"
              /\ \A k \in 1 .. written' : boot_img'[k] = Expected(k)'
              /\ \/ written' = due + n
                 \/ Full' /\ written' < due + n /\ due < written'
    BY <1>1, <2>1, <2>4, <2>6, <2>7, Advances
  <2>9. CASE mkimage' = "failed"
    BY <2>9 DEF ImageInv
  <2>10. CASE mkimage' = "copy"
    <3>1. Due' = due + n /\ file_size' \in 0 .. kernel_file /\ written' \in Int
      <4>1. written' \in Int
        BY <2>8 DEF Sized
      <4>2. file_size' \in 0 .. kernel_file /\ Due' = Sector + kernel_file - (file_size - n)
        BY <1>1, <2>1, <2>2, <2>10 DEF Due
      <4>3. \A f, s, k, m \in Int : s + k - (f - m) = (s + k - f) + m
        OBVIOUS
      <4>4. file_size \in Int /\ Sector \in Int /\ kernel_file \in Int /\ n \in Int
        BY <1>1, <2>2
      <4>5. Sector + kernel_file - (file_size - n) = (Sector + kernel_file - file_size) + n
        BY <4>3, <4>4
      <4>6. Due' = due + n
        BY <2>5, <4>2, <4>5
      <4> QED
        BY <4>1, <4>2, <4>6, Zenon
    <3>2. \/ written' = Due'
          \/ Full' /\ written' < Due' /\ Due' - written' < Buffer
      <4>1. n <= Buffer /\ Buffer \in Int /\ written' \in Int /\ Due' = due + n
        BY <1>1, <2>2, <3>1
      <4>2. CASE written' = due + n
        BY <4>1, <4>2
      <4>3. CASE Full' /\ written' < due + n /\ due < written'
        <5>1. written' < due + n /\ due < written'
          BY <4>3, Zenon
        <5>2. PICK e \in Int : e = Due' /\ e = due + n
          BY <2>2, <2>5, <4>1
        <5>3. PICK w \in Int : w = written' /\ w < due + n /\ due < w
          BY <4>1, <5>1
        <5>4. w < e /\ e - w < Buffer
          BY <2>2, <2>5, <4>1, <5>2, <5>3
        <5>5. written' < Due' /\ Due' - written' < Buffer
          BY <5>2, <5>3, <5>4
        <5> QED
          BY <4>3, <5>5
      <4> QED
        BY <2>8, <2>10, <4>2, <4>3
    <3> QED
      BY <1>1, <2>8, <2>10, <3>1, <3>2 DEF ImageInv
  <2> QED
    BY <2>8, <2>9, <2>10
<1> QED
  BY <1>2, <1>3

(* How much is left to fill, as mkimage counts it: modulo SizeT.            *)
LEMMA FillSize ==
    ASSUME kernel_file \in Nat
    PROVE  \E fill \in Nat : fill = left_to_fill % SizeT /\ fill < SizeT
<1>1. left_to_fill \in Int /\ SizeT \in Nat \ {0}
  BY MkImageAssumption DEF left_to_fill
<1>2. PICK q \in Int, r \in 0 .. SizeT - 1 : r = left_to_fill % SizeT
  BY <1>1, Parts
<1> QED
  BY <1>1, <1>2

(* remain_size is computed once, from the sizes of the files.                *)
LEMMA BeginFillStep == ImageInv /\ BeginFill => ImageInv'
<1> SUFFICES ASSUME ImageInv, BeginFill PROVE ImageInv'
  OBVIOUS
<1>1. /\ mkimage = "copy" /\ file_size = 0 /\ Sized /\ kernel_file \in Nat \ {0}
      /\ loader_file \in 1 .. Sector /\ mkimage' = "fill" /\ Sector \in Nat
      /\ \A k \in 1 .. written : boot_img[k] = Expected(k)
      /\ remain_size' = left_to_fill % SizeT
      /\ UNCHANGED <<loader_file, kernel_file, room, boot_img, written, file_size>>
  BY MkImageAssumption DEF ImageInv, BeginFill
<1>2. written = Due \/ (Full /\ written < Due /\ Due - written < Buffer)
  BY <1>1 DEF ImageInv
<1>3. PICK fill \in Nat : fill = left_to_fill % SizeT
  BY <1>1, FillSize
<1>4. left_to_fill' = left_to_fill
  BY <1>1 DEF left_to_fill
<1>5. remain_size' = fill /\ left_to_fill' % SizeT = fill
  BY <1>1, <1>3, <1>4
<1>6. PICK due \in Nat : due = Sector + kernel_file
  BY <1>1
<1>7. Due = due
  BY <1>1, <1>6 DEF Due
<1>8. Due' = due
  <2>1. Due' = Sector + kernel_file + fill - fill
    BY <1>1, <1>5 DEF Due
  <2> QED
    BY <1>1, <1>6, <2>1
<1>9. Sized' /\ (Full => Full') /\ \A k : Expected(k)' = Expected(k)
  BY <1>1 DEF Sized, Full, Expected
<1>10. written' = Due' \/ (Full' /\ written' < Due' /\ Due' - written' < Buffer)
  BY <1>1, <1>2, <1>7, <1>8, <1>9
<1>11. /\ remain_size' \in Nat /\ remain_size' <= left_to_fill' % SizeT
       /\ file_size' \in 0 .. kernel_file'
  BY <1>1, <1>5
<1>12. \A k \in 1 .. written' : boot_img'[k] = Expected(k)'
  BY <1>1, <1>9
<1> QED
  BY <1>1, <1>9, <1>10, <1>11, <1>12 DEF ImageInv

(* A buffer of zeros, or what is left of it, and the return from main.       *)
LEMMA FillStep == ImageInv /\ Fill => ImageInv'
<1> SUFFICES ASSUME ImageInv, Fill PROVE ImageInv'
  OBVIOUS
<1>1. /\ mkimage = "fill" /\ Sized /\ kernel_file \in Nat \ {0}
      /\ loader_file \in 1 .. Sector /\ file_size \in 0 .. kernel_file /\ remain_size \in Nat
      /\ \A k \in 1 .. written : boot_img[k] = Expected(k)
      /\ remain_size <= left_to_fill % SizeT
      /\ UNCHANGED <<loader_file, kernel_file, file_size>>
      /\ Sector \in Nat \ {0} /\ Buffer \in Nat \ {0}
  BY MkImageAssumption DEF ImageInv, Fill
<1>2. written = Due \/ (Full /\ written < Due /\ Due - written < Buffer)
  BY <1>1 DEF ImageInv
<1>3. PICK fill \in Nat : fill = left_to_fill % SizeT
  BY <1>1, FillSize
<1>4. left_to_fill' = left_to_fill
  BY <1>1 DEF left_to_fill
<1>5. remain_size <= fill /\ left_to_fill' % SizeT = fill
  BY <1>1, <1>3, <1>4
<1>6. Due = Sector + kernel_file + fill - remain_size
  BY <1>1, <1>3 DEF Due
<1>7. CASE remain_size = 0
  <2>1. /\ mkimage' = "ok"
        /\ UNCHANGED <<room, boot_img, written, remain_size>>
    BY <1>7 DEF Fill
  <2>2. Due' = Due
    BY <1>1, <1>4, <2>1 DEF Due
  <2>3. Sized' /\ (Full => Full') /\ \A k : Expected(k)' = Expected(k)
    BY <1>1, <2>1 DEF Sized, Full, Expected
  <2>4. written' = Due' \/ (Full' /\ written' < Due' /\ Due' - written' < Buffer)
    BY <1>2, <2>1, <2>2, <2>3
  <2>5. \A k \in 1 .. written' : boot_img'[k] = Expected(k)'
    BY <1>1, <2>1, <2>3
  <2> QED
    BY <1>1, <1>5, <1>7, <2>1, <2>3, <2>4, <2>5 DEF ImageInv
<1>8. CASE remain_size # 0
  <2>1. PICK n \in Nat \ {0} : n = chunk(remain_size) /\ n <= remain_size /\ n <= Buffer
    BY <1>1, <1>8 DEF chunk, Less
  <2> DEFINE d == Zeros(n)
  <2>2. write(d, "fill") /\ remain_size' = remain_size - n
    BY <1>8, <2>1 DEF Fill
  <2>3. /\ d \in Seq(Unit) /\ Len(d) = n
        /\ \A k \in 1 .. n : d[k] = <<"zero", 0>>
    BY <2>1, ZerosFacts
  <2> HIDE DEF d
  <2>4. PICK due \in Nat : due = Due /\ due = Sector + kernel_file + fill - remain_size
    BY <1>1, <1>5, <1>6
  <2>5. ASSUME NEW k \in 1 .. n PROVE d[k] = Expected(due + k)
    <3>1. ~(due + k <= loader_file) /\ ~(due + k <= Sector + kernel_file)
      BY <1>1, <1>5, <2>1, <2>4
    <3> QED
      BY <2>3, <3>1 DEF Expected
  <2>6. written = due \/ (Full /\ written < due)
    BY <1>2, <2>4
  <2>7. /\ Sized'
        /\ \/ mkimage' = "failed"
           \/ /\ mkimage' = "fill"
              /\ \A k \in 1 .. written' : boot_img'[k] = Expected(k)'
              /\ \/ written' = due + n
                 \/ Full' /\ written' < due + n /\ due < written'
    BY ZenonT(40), <1>1, <2>1, <2>2, <2>3, <2>5, <2>6, Advances
  <2>8. CASE mkimage' = "failed"
    BY <2>8 DEF ImageInv
  <2>9. CASE mkimage' = "fill"
    <3>1. written' \in Int
      BY <2>7 DEF Sized
    <3>2. /\ remain_size' \in Nat /\ remain_size' <= left_to_fill' % SizeT
          /\ file_size' \in 0 .. kernel_file' /\ kernel_file' \in Nat \ {0}
          /\ loader_file' \in 1 .. Sector
      BY <1>1, <1>5, <2>1, <2>2
    <3>3. Due' = Sector + kernel_file + fill - (remain_size - n)
      BY <1>1, <1>5, <2>2, <2>9 DEF Due
    <3>4. PICK e \in Int : e = Due' /\ e = due + n
      BY <1>1, <2>1, <2>4, <3>3
    <3>5. \/ written' = Due'
          \/ Full' /\ written' < Due' /\ Due' - written' < Buffer
      <4>1. CASE written' = due + n
        BY <3>4, <4>1
      <4>2. CASE Full' /\ written' < due + n /\ due < written'
        <5>1. written' < due + n /\ due < written'
          BY <4>2, Zenon
        <5>2. PICK w \in Int : w = written' /\ w < due + n /\ due < w
          BY <3>1, <5>1
        <5>3. w < e /\ e - w < Buffer
          BY <1>1, <2>1, <3>4, <5>2
        <5>4. written' < Due' /\ Due' - written' < Buffer
          BY <3>4, <5>2, <5>3
        <5> QED
          BY <4>2, <5>4
      <4> QED
        BY <2>7, <2>9, <4>1, <4>2
    <3> QED
      BY <2>7, <2>9, <3>2, <3>5 DEF ImageInv
  <2> QED
    BY <2>7, <2>8, <2>9
<1> QED
  BY <1>7, <1>8

(* The machine that boots from the image leaves it alone.                    *)
LEMMA ImageStep == ImageInv /\ [Next]_vars => ImageInv'
<1> SUFFICES ASSUME ImageInv, [Next]_vars PROVE ImageInv'
  OBVIOUS
<1>1. CASE UNCHANGED mkimage_vars
  <2>1. Sized' = Sized /\ Full' = Full /\ Due' = Due /\ \A k : Expected(k)' = Expected(k)
    BY <1>1 DEF mkimage_vars, Sized, Full, Due, Expected, left_to_fill
  <2> QED
    BY <1>1, <2>1 DEF mkimage_vars, ImageInv, left_to_fill
<1>2. CASE MakeImage
  BY <1>2, BootSectorStep, CopyStep, BeginFillStep, FillStep DEF MakeImage, MkImage
<1>3. CASE PowerOn
  BY <1>3 DEF PowerOn, ImageInv
<1>4. CASE Load \/ KeyPressed \/ MoveKernel \/ MapPages \/ EnterKernel \/ MmInit
  BY <1>1, <1>4 DEF Load, KeyPressed, MoveKernel, MapPages, EnterKernel, MmInit
<1>5. CASE Up \/ UNCHANGED vars
  BY <1>1, <1>5 DEF Up, vars
<1> QED
  BY <1>2, <1>3, <1>4, <1>5 DEF Next, Work

(* The disk the loader expects, place by place.                             *)
LEMMA FloppyFacts ==
    ASSUME loader_file \in 1 .. Sector, kernel_file \in Nat, left_to_fill \in Nat
    PROVE  /\ Floppy \in Seq(Unit) /\ Len(Floppy) = DISK_SIZE
           /\ \A k \in 1 .. DISK_SIZE : Floppy[k] = Expected(k)
<1> DEFINE a == Units("loader", 1, loader_file) \o Zeros(Sector - loader_file)
           b == Units("kernel", 1, kernel_file)
           c == Zeros(left_to_fill)
           d == a \o b
           e == d \o c
<1>1. Sector \in Nat \ {0} /\ DISK_SIZE = Sector + kernel_file + left_to_fill
  BY MkImageAssumption DEF left_to_fill
<1>2. a \in Seq(Unit) /\ Len(a) = Sector /\ \A k \in 1 .. Sector : a[k] = Expected(k)
  BY BootSectorFacts
<1>3. /\ b \in Seq(Unit) /\ Len(b) = kernel_file
      /\ \A k \in 1 .. kernel_file : b[k] = <<"kernel", 1 + k - 1>>
  <2>1. PICK one \in Int : one = 1
    OBVIOUS
  <2> DEFINE u == Units("kernel", one, kernel_file)
  <2>2. /\ u \in Seq(Unit) /\ Len(u) = kernel_file
        /\ \A k \in 1 .. kernel_file : u[k] = <<"kernel", one + k - 1>>
    BY UnitsFacts
  <2>3. b = u
    BY <2>1
  <2> HIDE DEF b, u
  <2> QED
    BY <2>1, <2>2, <2>3
<1>4. /\ c \in Seq(Unit) /\ Len(c) = left_to_fill
      /\ \A k \in 1 .. left_to_fill : c[k] = <<"zero", 0>>
  BY ZerosFacts
<1> HIDE DEF a, b, c
<1>5. /\ d \in Seq(Unit) /\ Len(d) = Len(a) + Len(b)
      /\ \A k \in 1 .. Len(a) + Len(b) : d[k] = IF k <= Len(a) THEN a[k] ELSE b[k - Len(a)]
  BY <1>2, <1>3, ConcatProperties
<1>6. Len(d) = Sector + kernel_file
  BY <1>2, <1>3, <1>5
<1>7. ASSUME NEW k \in 1 .. Sector + kernel_file PROVE d[k] = Expected(k)
  <2>1. d[k] = IF k <= Sector THEN a[k] ELSE b[k - Sector]
    BY <1>2, <1>3, <1>5
  <2>2. CASE k <= Sector
    <3>1. k \in 1 .. Sector
      BY <1>1, <2>2
    <3> QED
      BY <1>2, <2>1, <2>2, <3>1
  <2>3. CASE ~(k <= Sector)
    <3>1. /\ k - Sector \in 1 .. kernel_file /\ 1 + (k - Sector) - 1 = k - Sector
          /\ k > Sector /\ k <= Sector + kernel_file /\ ~(k <= loader_file)
      BY <1>1, <2>3
    <3>2. d[k] = <<"kernel", k - Sector>>
      BY <1>3, <2>1, <2>3, <3>1
    <3> QED
      BY <3>1, <3>2 DEF Expected
  <2> QED
    BY <2>2, <2>3, Zenon
<1> HIDE DEF d
<1>8. /\ e \in Seq(Unit) /\ Len(e) = Len(d) + Len(c)
      /\ \A k \in 1 .. Len(d) + Len(c) : e[k] = IF k <= Len(d) THEN d[k] ELSE c[k - Len(d)]
  BY ZenonT(40), <1>4, <1>5, ConcatProperties
<1>9. Len(e) = DISK_SIZE
  BY <1>1, <1>4, <1>6, <1>8
<1>10. ASSUME NEW k \in 1 .. DISK_SIZE PROVE e[k] = Expected(k)
  <2>1. e[k] = IF k <= Sector + kernel_file THEN d[k] ELSE c[k - (Sector + kernel_file)]
    BY <1>1, <1>4, <1>6, <1>8
  <2>2. CASE k <= Sector + kernel_file
    <3>1. k \in 1 .. Sector + kernel_file
      BY <1>1, <2>2
    <3> QED
      BY <1>7, <2>1, <2>2, <3>1
  <2>3. CASE ~(k <= Sector + kernel_file)
    <3>1. /\ k - (Sector + kernel_file) \in 1 .. left_to_fill
          /\ ~(k <= Sector + kernel_file) /\ ~(k <= loader_file)
      BY <1>1, <2>3
    <3>2. e[k] = <<"zero", 0>>
      BY <1>4, <2>1, <3>1
    <3> QED
      BY <3>1, <3>2 DEF Expected
  <2> QED
    BY <2>2, <2>3, Zenon
<1> HIDE DEF e
<1>11. Floppy = e
  BY DEF e, d, c, b, a, Floppy, left_to_fill
<1> QED
  BY <1>8, <1>9, <1>10, <1>11

(* A sequence that agrees with a longer one is a prefix of it.              *)
LEMMA Agreeing ==
    ASSUME NEW s \in Seq(Unit), NEW t \in Seq(Unit), Len(s) <= Len(t),
           \A k \in 1 .. Len(s) : s[k] = t[k]
    PROVE  IsPrefix(s, t)
<1> DEFINE len == Len(s)
           u == SubSeq(s, 1, len)
           v == SubSeq(t, 1, len)
<1>1. len \in Nat /\ Len(t) \in Nat /\ len <= Len(t)
  OBVIOUS
<1>2. \A k \in 1 .. len : s[k] \in Unit /\ t[k] \in Unit
  BY <1>1
<1>3. u \in Seq(Unit) /\ Len(u) = len /\ \A k \in 1 .. len : u[k] = s[k]
  <2>1. /\ u \in Seq(Unit) /\ Len(u) = IF 1 <= len THEN len - 1 + 1 ELSE 0
        /\ \A k \in 1 .. len - 1 + 1 : u[k] = s[1 + k - 1]
    BY <1>1, <1>2, SubSeqProperties
  <2> QED
    BY <1>1, <2>1
<1>4. v \in Seq(Unit) /\ Len(v) = len /\ \A k \in 1 .. len : v[k] = t[k]
  <2>1. /\ v \in Seq(Unit) /\ Len(v) = IF 1 <= len THEN len - 1 + 1 ELSE 0
        /\ \A k \in 1 .. len - 1 + 1 : v[k] = t[1 + k - 1]
    BY <1>1, <1>2, SubSeqProperties
  <2> QED
    BY <1>1, <2>1
<1> HIDE DEF u, v
<1>5. Len(u) = Len(v) /\ \A k \in 1 .. Len(u) : u[k] = v[k]
  BY <1>3, <1>4
<1>6. u = v
  BY <1>3, <1>4, <1>5, SeqEqual
<1> QED
  BY <1>1, <1>6 DEF u, v, IsPrefix

(* A file that is too large makes mkimage fill a whole size_t, which no     *)
(* image takes; one that is not leaves as much to fill as it should.        *)
LEMMA FitsOrNever ==
    ASSUME NEW left \in Int, NEW fill \in Int, left < SizeT, fill = left % SizeT
    PROVE  IF left >= 0 THEN fill = left ELSE fill >= left + SizeT
<1>1. SizeT \in Nat \ {0}
  BY MkImageAssumption
<1>2. PICK q \in Int, r \in 0 .. SizeT - 1 :
        r = left % SizeT /\ left = SizeT * q + r /\ (left >= 0 => q >= 0)
  BY <1>1, Parts
<1>3. CASE left >= 0
  <2>1. ASSUME q >= 1 PROVE FALSE
    <3>1. SizeT * q = SizeT + SizeT * (q - 1) /\ q - 1 \in Nat
      BY <1>1, <2>1
    <3>2. SizeT * (q - 1) \in Nat
      BY <1>1, <3>1, Times
    <3> QED
      BY <1>1, <1>2, <3>1, <3>2
  <2>2. q = 0
    BY <1>2, <1>3, <2>1
  <2> QED
    BY <1>1, <1>2, <1>3, <2>2
<1>4. CASE left < 0
  <2>1. ASSUME q >= 0 PROVE FALSE
    <3>1. SizeT * q \in Nat
      BY <1>1, <2>1, Times
    <3> QED
      BY <1>2, <1>4, <3>1
  <2>2. -q - 1 \in Nat /\ SizeT * q = -SizeT - SizeT * (-q - 1)
    BY <1>1, <1>2, <2>1
  <2>3. SizeT * (-q - 1) \in Nat
    BY <1>1, <2>2, Times
  <2> QED
    BY <1>1, <1>2, <1>4, <2>2, <2>3
<1> QED
  BY <1>3, <1>4

(* An image mkimage returns 0 for holds, as far as a disk goes, the boot    *)
(* sector, the kernel and zeros, whatever sizes the files have and whatever *)
(* an earlier run has left, of which only what lies behind a disk remains;  *)
(* a full disk can have cut short only the last write.                      *)
THEOREM ImageIsWhole == Spec => []ImageWhole
<1>1. ImageInv => ImageWhole
  <2> DEFINE used == Less(Len(boot_img), DISK_SIZE)
             start == SubSeq(boot_img, 1, used)
  <2> SUFFICES ASSUME ImageInv, mkimage = "ok"
               PROVE  /\ IsPrefix(start, Floppy) /\ DISK_SIZE - used < Buffer
                      /\ \A k \in DISK_SIZE + 1 .. Len(boot_img) : boot_img[k] = <<"old", k>>
    BY DEF ImageWhole
  <2>1. /\ Sized /\ kernel_file \in Nat \ {0} /\ loader_file \in 1 .. Sector
        /\ \A k \in 1 .. written : boot_img[k] = Expected(k)
        /\ remain_size = 0
        /\ written = Due \/ (Full /\ written < Due /\ Due - written < Buffer)
    BY DEF ImageInv
  <2>2. /\ {Sector, Buffer, DISK_SIZE, SizeT} \subseteq Nat \ {0}
        /\ Buffer <= DISK_SIZE /\ DISK_SIZE < SizeT
    BY MkImageAssumption
  <2>3. /\ boot_img \in Seq(Unit) /\ Len(boot_img) \in Nat /\ Len(boot_img) < SizeT
        /\ written \in Nat /\ written <= Len(boot_img)
        /\ \A k \in written + 1 .. Len(boot_img) : boot_img[k] = <<"old", k>>
    BY <2>1, <2>2 DEF Sized
  <2>4. PICK fill \in Nat : fill = left_to_fill % SizeT
    BY <2>1, FillSize
  <2>5. PICK left \in Int : left = left_to_fill /\ left = DISK_SIZE - Sector - kernel_file
    BY <2>1, <2>2 DEF left_to_fill
  <2>6. IF left >= 0 THEN fill = left ELSE fill >= left + SizeT
    BY <2>1, <2>2, <2>4, <2>5, FitsOrNever
  <2>7. PICK due \in Int : due = Due /\ due = Sector + kernel_file + fill
    <3>1. Due = Sector + kernel_file + fill - 0
      BY <2>1, <2>4 DEF Due
    <3> QED
      BY <2>1, <2>2, <3>1
  <2>8. written = due \/ (written = Len(boot_img) /\ written < due /\ due - written < Buffer)
    BY <2>1, <2>7 DEF Full
  <2>9. left >= 0
    BY SMTT(30), <2>1, <2>2, <2>3, <2>5, <2>6, <2>7, <2>8
  <2>10. due = DISK_SIZE
    BY <2>1, <2>2, <2>5, <2>6, <2>7, <2>9
  <2>11. PICK n \in Nat : n = used /\ n = written /\ n <= DISK_SIZE /\ DISK_SIZE - n < Buffer
    BY <2>2, <2>3, <2>8, <2>10 DEF Less
  <2>12. /\ Floppy \in Seq(Unit) /\ Len(Floppy) = DISK_SIZE
         /\ \A k \in 1 .. DISK_SIZE : Floppy[k] = Expected(k)
    BY <2>1, <2>5, <2>9, FloppyFacts
  <2>13. start = SubSeq(boot_img, 1, n)
    BY <2>11
  <2> HIDE DEF used, start
  <2>14. start \in Seq(Unit) /\ Len(start) = n /\ \A k \in 1 .. n : start[k] = boot_img[k]
    <3>1. \A k \in 1 .. n : boot_img[k] \in Unit
      BY <2>3, <2>11
    <3>2. /\ start \in Seq(Unit) /\ Len(start) = IF 1 <= n THEN n - 1 + 1 ELSE 0
          /\ \A k \in 1 .. n - 1 + 1 : start[k] = boot_img[1 + k - 1]
      BY <2>3, <2>13, <3>1, SubSeqProperties
    <3> QED
      BY <3>2
  <2>15. \A k \in 1 .. n : start[k] = Floppy[k]
    BY <2>1, <2>2, <2>11, <2>12, <2>14
  <2>16. IsPrefix(start, Floppy)
    BY <2>2, <2>11, <2>12, <2>14, <2>15, Agreeing
  <2>17. ASSUME NEW k \in DISK_SIZE + 1 .. Len(boot_img) PROVE boot_img[k] = <<"old", k>>
    <3>1. k \in written + 1 .. Len(boot_img)
      BY <2>2, <2>3, <2>11
    <3> QED
      BY <2>3, <3>1
  <2> QED
    BY <2>11, <2>16, <2>17
<1>2. Spec => []ImageInv
  BY ImageInit, ImageStep, PTL DEF Spec
<1> QED
  BY <1>1, <1>2, PTL
-----------------------------------------------------------------------------
(* The tracks the loop asks for, and those that fit into a segment.         *)
Tracks == 2 * (LastTrack + 1)

Fitting == SegmentSectors \div TrackSectors

(* The loop ends with the last whole track of the first segment, or with    *)
(* the one that crosses the border, which is the floppy disk's case (7 and  *)
(* 8): a read behind that one would go over what has been loaded.           *)
EndsAtBorder ==
    /\ LastTrack < 255
    /\ \/ Tracks = Fitting
       \/ Tracks = Fitting + 1 /\ SegmentSectors % TrackSectors # 0

(* The memory of the loader with the first n sectors of the disk in it.     *)
Loaded(n) == [s \in Ram |-> IF s < n THEN s ELSE Nothing]

(* The reads of the loop so far.                                            *)
Turns == 2 * ch + dh

(* Each turn of the loop adds a track, up to the border.                    *)
LoadInv ==
    /\ stage = "host" => es = 0 /\ bx = 0 /\ ch = 0 /\ dh = 0
    /\ stage # "host" => pc # "off"
    /\ pc = "read" =>
          /\ es = 0 /\ dh \in {0, 1} /\ ch \in 0 .. LastTrack
          /\ Turns <= Fitting /\ bx = TrackSectors * Turns
          /\ ram = Loaded(TrackSectors * Turns)
    /\ pc \in {"get_key", "check_mem", "pm"} => ram = Loaded(TrackSectors * Fitting)
    /\ stage \notin {"host", "loader"} =>
          image = [s \in 0 .. KernelSectors - 1 |->
                      IF s + 1 \in Ram THEN Loaded(TrackSectors * Fitting)[s + 1] ELSE Nothing]

(* What fits into a segment, in whole tracks and a rest.                    *)
LEMMA Border ==
    ASSUME EndsAtBorder
    PROVE  /\ LastTrack \in 0 .. 254 /\ TrackSectors \in Nat \ {0} /\ SegmentSectors \in Nat \ {0}
           /\ Fitting \in Nat \ {0} /\ Tracks \in Nat /\ Tracks = 2 * LastTrack + 2
           /\ \E r \in 0 .. TrackSectors - 1 :
                 /\ SegmentSectors = TrackSectors * Fitting + r
                 /\ Tracks = Fitting \/ (Tracks = Fitting + 1 /\ r # 0)
           /\ DiskSectors = TrackSectors * Tracks
<1>1. LastTrack \in 0 .. 254 /\ TrackSectors \in Nat \ {0} /\ SegmentSectors \in Nat \ {0}
  BY LoaderAssumption DEF EndsAtBorder
<1>2. PICK q \in Int, r \in 0 .. TrackSectors - 1 :
         /\ q = SegmentSectors \div TrackSectors /\ r = SegmentSectors % TrackSectors
         /\ SegmentSectors = TrackSectors * q + r
         /\ SegmentSectors >= 0 => q >= 0
  BY <1>1, Parts
<1>3. Fitting = q /\ Tracks = 2 * LastTrack + 2
  BY <1>1, <1>2 DEF Fitting, Tracks
<1>4. Tracks = Fitting \/ (Tracks = Fitting + 1 /\ r # 0)
  BY <1>2 DEF EndsAtBorder
<1>5. Fitting \in Nat \ {0}
  BY <1>1, <1>2, <1>3, <1>4
<1>6. DiskSectors = TrackSectors * Tracks
  <2>1. \A m \in Nat : 2 * TrackSectors * m = TrackSectors * (2 * m)
    BY <1>1
  <2> QED
    BY <1>1, <2>1 DEF DiskSectors, Tracks
<1> QED
  BY <1>1, <1>2, <1>3, <1>4, <1>5, <1>6

(* A turn of the loop.                                                      *)
LEMMA TurnLoads ==
    ASSUME EndsAtBorder, LoadInv, ReadTrack
    PROVE  /\ pc' \in {"read", "get_key"}
           /\ pc' = "read" =>
                 /\ es' = 0 /\ dh' \in {0, 1} /\ ch' \in 0 .. LastTrack
                 /\ Turns' <= Fitting /\ bx' = TrackSectors * Turns'
                 /\ ram' = Loaded(TrackSectors * Turns')
           /\ pc' = "get_key" => ram' = Loaded(TrackSectors * Fitting)
<1>1. PICK T \in Nat \ {0}, q \in Nat \ {0}, r \in Nat, last \in 0 .. 254 :
         /\ r < T /\ T = TrackSectors /\ q = Fitting /\ last = LastTrack
         /\ SegmentSectors = T * q + r
         /\ Tracks = 2 * last + 2 /\ (Tracks = q \/ (Tracks = q + 1 /\ r # 0))
  <2>1. PICK r \in 0 .. TrackSectors - 1 :
           /\ SegmentSectors = TrackSectors * Fitting + r
           /\ Tracks = Fitting \/ (Tracks = Fitting + 1 /\ r # 0)
    BY Border
  <2>2. /\ LastTrack \in 0 .. 254 /\ TrackSectors \in Nat \ {0} /\ Fitting \in Nat \ {0}
        /\ Tracks = 2 * LastTrack + 2
    BY Border
  <2>3. r \in Nat /\ r < TrackSectors
    BY <2>2
  <2> QED
    BY <2>1, <2>2, <2>3
<1>2. /\ pc = "read" /\ es = 0 /\ dh \in {0, 1} /\ ch \in 0 .. last
      /\ Turns <= q /\ bx = T * Turns /\ ram = Loaded(T * Turns)
  BY <1>1 DEF LoadInv, ReadTrack
<1>3. PICK t \in Nat : t = Turns /\ t = 2 * ch + dh
  BY <1>2 DEF Turns
<1>4. /\ T * t \in Nat /\ T * q \in Nat /\ T * (t + 1) = T * t + T
      /\ (t < q => T * (t + 1) <= T * q) /\ (t + 1 < q => T * (t + 1) + T <= T * q)
  <2>1. t + 1 \in Nat /\ T * (t + 1) = T * t + T
    OBVIOUS
  <2>2. t < q => t + 1 <= q
    OBVIOUS
  <2> QED
    BY <2>1, <2>2, Times
<1>5. /\ ReadDisk /\ bx' = (bx + T) % SegmentSectors
      /\ es' = IF bx' = 0 THEN (es + 1) % 16 ELSE es
      /\ dh' = 1 - dh
      /\ dh = 1 => ch' = (ch + 1) % 256 /\ pc' = IF ch' <= last THEN "read" ELSE "get_key"
      /\ dh = 0 => ch' = ch /\ pc' = pc
  BY <1>1, <1>2 DEF ReadTrack, next_head, more_tracks
<1>6. dh = 1 => ch' = ch + 1
  BY <1>2, <1>5
<1>7. /\ ch' \in Nat /\ dh' \in {0, 1} /\ Turns' = t + 1
      /\ pc' = "read" => ch' \in 0 .. last /\ t + 1 < Tracks
      /\ pc' \in {"read", "get_key"}
      /\ pc' = "get_key" => t + 1 = Tracks
  <2>1. CASE dh = 0
    <3>1. ch' = ch /\ dh' = 1 /\ pc' = "read" /\ t = 2 * ch
      BY <1>2, <1>3, <1>5, <2>1
    <3> QED
      BY <1>1, <1>2, <3>1 DEF Turns
  <2>2. CASE dh = 1
    <3>1. ch' = ch + 1 /\ dh' = 0 /\ t = 2 * ch + 1
          /\ pc' = IF ch + 1 <= last THEN "read" ELSE "get_key"
      BY <1>2, <1>3, <1>5, <1>6, <2>2
    <3> QED
      BY <1>1, <1>2, <3>1 DEF Turns
  <2> QED
    BY <1>2, <2>1, <2>2
<1>8. CASE t < q
  <2>1. bx + T <= SegmentSectors /\ bx = T * t
    BY <1>1, <1>2, <1>3, <1>4, <1>8
  <2>2. SectorAsked = bx
    <3>1. t * T = T * t
      OBVIOUS
    <3> QED
      BY <1>1, <1>3, <2>1, <3>1 DEF SectorAsked
  <2>3. ram' = Loaded(T * (t + 1))
    <3>1. ram' = [s \in Ram |->
                    LET n == s - (es * SegmentSectors + bx)
                    IN  IF n \in 0 .. TrackSectors - 1 THEN SectorAsked + n ELSE ram[s]]
      <4>1. ~(bx + TrackSectors > SegmentSectors)
        BY <1>1, <1>4, <2>1
      <4> QED
        BY <1>5, <4>1 DEF ReadDisk
    <3>2. es * SegmentSectors + bx = T * t
      <4>1. 0 * SegmentSectors = 0
        BY Border
      <4> QED
        BY <1>2, <1>4, <2>1, <4>1
    <3>3. PICK b \in Nat : b = T * t
      BY <1>4
    <3>4. \A s \in Ram : s \in Int
      BY Border DEF Ram
    <3>5. ASSUME NEW s \in Ram
          PROVE  (IF s - b \in 0 .. T - 1 THEN b + (s - b) ELSE ram[s])
                    = IF s < b + T THEN s ELSE Nothing
      <4>1. ram[s] = IF s < b THEN s ELSE Nothing
        BY <1>2, <1>3, <3>3 DEF Loaded
      <4>2. s \in Int
        BY <3>4
      <4>3. CASE s < b
        BY <4>1, <4>2, <4>3
      <4>4. CASE s >= b /\ s < b + T
        BY <4>2, <4>4
      <4>5. CASE s >= b + T
        <5>1. ~(s < b) /\ ~(s < b + T) /\ s - b \notin 0 .. T - 1
          BY <4>2, <4>5
        <5> QED
          BY <4>1, <5>1
      <4> QED
        BY <4>2, <4>3, <4>4, <4>5
    <3>6. ram' = [s \in Ram |-> IF s - b \in 0 .. T - 1 THEN b + (s - b) ELSE ram[s]]
      BY <1>1, <2>1, <2>2, <3>1, <3>2, <3>3
    <3>7. Loaded(T * (t + 1)) = [s \in Ram |-> IF s < b + T THEN s ELSE Nothing]
      BY <1>4, <3>3 DEF Loaded
    <3> QED
      BY <3>5, <3>6, <3>7
  <2>4. ASSUME pc' = "read"
        PROVE  es' = 0 /\ bx' = T * (t + 1)
    <3>1. t + 1 < Tracks
      BY <1>7, <2>4
    <3>2. T * (t + 1) < SegmentSectors
      <4>1. CASE t + 1 < q
        BY <1>1, <1>4, <4>1
      <4>2. CASE t + 1 = q
        <5>1. r # 0
          BY <1>1, <3>1, <4>2
        <5> QED
          BY <1>1, <1>4, <4>2, <5>1
      <4> QED
        BY <1>8, <4>1, <4>2
    <3>3. PICK n \in Nat \ {0} : n = T * (t + 1) /\ n = bx + T
      BY <1>4, <2>1
    <3>4. PICK m \in Nat \ {0} : m = SegmentSectors
      BY Border
    <3>5. n % m = n
      BY <3>2, <3>3, <3>4
    <3>6. bx' = n
      BY <1>5, <3>3, <3>4, <3>5
    <3> QED
      BY <1>2, <1>5, <3>3, <3>6
  <2>5. pc' = "get_key" => t + 1 = q
    BY <1>1, <1>7, <1>8
  <2> QED
    BY <1>1, <1>7, <1>8, <2>3, <2>4, <2>5
<1>9. CASE t = q
  <2>1. Tracks = t + 1 /\ r # 0
    <3>1. t + 1 <= Tracks
      <4>1. Tracks \in Nat
        BY <1>1
      <4> QED
        BY <1>7, <4>1
    <3> QED
      BY <1>1, <1>9, <3>1
  <2>2. pc' = "get_key"
    BY <1>7, <2>1
  <2>3. bx + TrackSectors > SegmentSectors
    BY <1>1, <1>2, <1>3, <1>4, <1>9
  <2>4. ram' = ram
    BY <1>5, <2>3 DEF ReadDisk
  <2> QED
    BY <1>1, <1>2, <1>3, <1>9, <2>2, <2>4
<1> QED
  BY <1>2, <1>3, <1>8, <1>9

(* Nothing is loaded before the machine is switched on.                     *)
LEMMA LoadInit == Init => LoadInv
  BY DEF Init, LoadInv, LoaderOff

(* Only the loop loads, and only startup moves what it has loaded.          *)
LEMMA LoadStep == EndsAtBorder /\ SizeInv /\ LoadInv /\ [Next]_vars => LoadInv'
<1> SUFFICES ASSUME EndsAtBorder, SizeInv, LoadInv, [Next]_vars PROVE LoadInv'
  OBVIOUS
<1> DEFINE AtEnd == Loaded(TrackSectors * Fitting)
<1>0. stage = "host" => pc = "off"
  BY DEF SizeInv
<1>1. CASE UNCHANGED <<loader_vars, image, bss>> /\ UNCHANGED stage
  BY <1>1 DEF LoadInv, loader_vars, disk, Turns, KernelSectors
<1>2. CASE PowerOn
  <2>1. /\ stage = "host" /\ stage' = "loader" /\ pc' = "read"
        /\ ram' = [s \in Ram |-> Nothing]
        /\ UNCHANGED <<es, bx, ch, dh>>
    BY <1>2 DEF PowerOn, LoaderInit
  <2>2. es' = 0 /\ bx' = 0 /\ ch' = 0 /\ dh' = 0 /\ Turns' = 0
    BY <2>1 DEF LoadInv, Turns
  <2>3. /\ LastTrack \in 0 .. 254 /\ TrackSectors \in Nat \ {0} /\ Fitting \in Nat \ {0}
        /\ DiskSectors = TrackSectors * Tracks
    BY Border
  <2>4. TrackSectors * 0 = 0
    BY <2>3
  <2>5. Loaded(0) = [s \in Ram |-> Nothing]
    BY DEF Loaded, Ram
  <2> QED
    BY <2>1, <2>2, <2>3, <2>4, <2>5 DEF LoadInv
<1>3. CASE Load
  <2>1. stage = "loader" /\ stage' = "loader"
    BY <1>3 DEF Load
  <2>2. CASE ReadTrack
    <3>1. /\ pc' \in {"read", "get_key"}
          /\ pc' = "read" =>
                /\ es' = 0 /\ dh' \in {0, 1} /\ ch' \in 0 .. LastTrack
                /\ Turns' <= Fitting /\ bx' = TrackSectors * Turns'
                /\ ram' = Loaded(TrackSectors * Turns')
          /\ pc' = "get_key" => ram' = Loaded(TrackSectors * Fitting)
      BY <2>2, TurnLoads
    <3> QED
      BY <2>1, <3>1 DEF LoadInv
  <2>3. CASE CheckMem
    <3>1. pc = "check_mem" /\ pc' = "pm" /\ ram' = ram
      BY <2>3 DEF CheckMem, disk
    <3> QED
      BY <2>1, <3>1 DEF LoadInv
  <2> QED
    BY <1>3, <2>2, <2>3 DEF Load, loader
<1>4. CASE MoveKernel
  <2>1. /\ pc = "pm" /\ stage' \in {"boot_main", "torn"} /\ UNCHANGED <<pc, ram, kernel, bss>>
        /\ image' = [s \in 0 .. KernelSectors - 1 |->
                        IF s + 1 \in Ram THEN ram[s + 1] ELSE Nothing]
    BY <1>4 DEF MoveKernel, loader_vars, disk
  <2>2. ram = AtEnd
    BY <2>1 DEF LoadInv
  <2>3. KernelSectors' = KernelSectors
    BY <2>1 DEF KernelSectors
  <2> QED
    BY <2>1, <2>2, <2>3 DEF LoadInv
<1>5. CASE KeyPressed
  <2>1. stage = "loader" /\ stage' = "loader" /\ pc = "get_key" /\ pc' = "check_mem" /\ ram' = ram
    BY <1>5 DEF KeyPressed, get_key, disk
  <2> QED
    BY <2>1 DEF LoadInv
<1>6. CASE MapPages \/ EnterKernel \/ MmInit
  <2>1. /\ stage \in {"boot_main", "kernel_start"}
        /\ stage' \in {"boot_main", "kernel_start", "free_area_init"}
        /\ UNCHANGED <<loader_vars, image, bss>>
    BY <1>6 DEF MapPages, EnterKernel, MmInit
  <2> QED
    BY <2>1 DEF LoadInv, loader_vars, disk, Turns, KernelSectors
<1> QED
  BY <1>1, <1>2, <1>3, <1>4, <1>5, <1>6 DEF Next, Work, Up, vars, MakeImage

(* The kernel that is started is whole exactly if it ends before the last   *)
(* whole track of the first 64 KB.                                          *)
THEOREM WholeIfBeforeBorder == ASSUME EndsAtBorder PROVE Spec => []WholeUpToSegment
<1>1. SizeInv /\ MapInv /\ LoadInv => WholeUpToSegment
  <2> SUFFICES ASSUME MapInv, LoadInv, stage \notin {"host", "loader"}
               PROVE  (\A s \in DOMAIN image : image[s] = s + 1)
                         <=> KernelSectors + 1 <= Fitting * TrackSectors
    BY DEF WholeUpToSegment, Whole, Fitting
  <2>1. PICK w \in Nat \ {0} : w = TrackSectors * Fitting /\ w = Fitting * TrackSectors
                               /\ w <= DiskSectors
    <3>1. PICK T \in Nat \ {0}, q \in Nat \ {0}, n \in Nat :
             T = TrackSectors /\ q = Fitting /\ n = Tracks /\ q <= n /\ DiskSectors = T * n
      BY Border
    <3>2. T * q \in Nat /\ T * q <= T * n /\ T * q = q * T
      BY <3>1, Times
    <3>3. T * 0 + T <= T * q
      BY <3>1, Times
    <3>4. T * q # 0
      BY <3>1, <3>2, <3>3
    <3> QED
      BY <3>1, <3>2, <3>4
  <2>2. PICK k \in Nat : k = KernelSectors
    BY DEF MapInv, KernelSectors
  <2>3. DiskSectors \in Nat /\ Ram = 0 .. DiskSectors - 1
    BY Border DEF Ram
  <2>4. image = [s \in 0 .. k - 1 |->
                    IF s + 1 \in Ram THEN Loaded(w)[s + 1] ELSE Nothing]
    BY <2>1, <2>2 DEF LoadInv
  <2>5. ASSUME NEW s \in 0 .. k - 1
        PROVE  image[s] = IF s + 1 < w THEN s + 1 ELSE Nothing
    <3>1. s + 1 < w => s + 1 \in Ram
      BY <2>1, <2>3
    <3> QED
      BY <2>4, <3>1 DEF Loaded
  <2>6. ASSUME k + 1 <= w, NEW s \in 0 .. k - 1 PROVE image[s] = s + 1
    BY <2>5, <2>6
  <2>7. ASSUME k + 1 > w PROVE \E s \in 0 .. k - 1 : image[s] # s + 1
    <3>1. w - 1 \in 0 .. k - 1 /\ ~((w - 1) + 1 < w)
      BY <2>7
    <3>2. image[w - 1] = Nothing
      BY <2>5, <3>1
    <3>3. Nothing # (w - 1) + 1
      BY DEF Nothing
    <3> QED
      BY <3>1, <3>2, <3>3
  <2>8. DOMAIN image = 0 .. k - 1
    BY <2>4
  <2> QED
    BY <2>1, <2>2, <2>6, <2>7, <2>8
<1>2. SizeInv /\ LoadInv /\ [Next]_vars => LoadInv'
  BY LoadStep
<1> QED
  BY <1>1, <1>2, SizeInit, SizeStep, MapInit, MapStep, LoadInit, PTL DEF Spec
-----------------------------------------------------------------------------
(* Machines and kernels with no more than so many sectors of kernel and bss *)
(* and no less and no more KB above the first MB than from and upto, as     *)
(* check_mem counts them: E801 to 64 KB, the older service with 16 bits     *)
(* below whatever the upper half of the word at 0x8000 held.                *)
Machines(sectors, from, upto) ==
    /\ \A f \in KernelFiles, b \in BssSizes : ((f + Sector - 1) \div Sector) + b <= sectors
    /\ \A x \in ExtendedKB : from + 63 <= x /\ x <= upto
    /\ from < Word16 /\ \A h \in StaleWords : h * Word16 + Word16 - 1 <= upto

(* What the kernel, its page tables and mem_map take: the directory and     *)
(* three roundings cost less than four pages.                               *)
Reserved(sectors, pages) ==
    KernelBase + SectorSize * sectors + 4 * PageSize + (EntrySize + PageStruct) * pages

(* In the least memory check_mem finds there is room for that, and for the  *)
(* most memory the kernel comes to believe in there is room in what is      *)
(* mapped.                                                                  *)
Roomy(sectors, from, upto) ==
    /\ EntrySize + PageStruct <= PageSize
    /\ Reserved(sectors, pages_of_memory(from)) <= PageSize * pages_of_memory(from)
    /\ Reserved(sectors, pages_of_memory(upto)) <= PageSize * (Tables - 1) * Entries

(* The sizes of the kernel and of the memory on their way to mm_init.       *)
RoomInv(sectors, from, upto) ==
    /\ bss \in BssSizes
    /\ stage = "host" => kernel_file \in KernelFiles
    /\ stage # "host" =>
          /\ pc # "off" /\ kernel \in Nat /\ kernel + bss <= sectors
          /\ extended \in ExtendedKB /\ bios \in {"E801", "88"}
          /\ pc \in {"read", "get_key", "check_mem"} => high \in StaleWords
    /\ pc = "pm" => from <= high * Word16 + low /\ high * Word16 + low <= upto
    /\ stage = "kernel_start" => from <= mem_size_kbytes /\ mem_size_kbytes <= upto
    /\ KernelDataMapped

(* Rounding up adds less than a page.                                       *)
LEMMA AlignedClosely ==
    ASSUME NEW a \in Nat
    PROVE  PageAlign(a) \in Nat /\ PageAlign(a) <= a + PageSize - 1
<1>1. PageSize \in Nat \ {0}
  BY BootAssumption
<1> DEFINE n == a + PageSize - 1
<1>2. n \in Nat
  BY <1>1
<1> HIDE DEF n
<1>3. PICK q \in Int, r \in 0 .. PageSize - 1 :
         q = n \div PageSize /\ r = n % PageSize /\ n = PageSize * q + r /\ (n >= 0 => q >= 0)
  BY <1>1, <1>2, Parts
<1>4. PageAlign(a) = q * PageSize
  BY <1>3 DEF PageAlign, n
<1>5. PICK w \in Int : w = PageSize * q /\ w = q * PageSize
  BY <1>1
<1>6. w <= n
  BY <1>1, <1>2, <1>3, <1>5
<1>7. PageAlign(a) \in Nat
  BY Aligned
<1> QED
  BY <1>4, <1>5, <1>6, <1>7 DEF n

(* More memory has more pages.                                              *)
LEMMA PagesGrow ==
    ASSUME NEW m \in Nat, NEW n \in Nat, m <= n
    PROVE  /\ pages_of_memory(m) \in Nat /\ pages_of_memory(n) \in Nat
           /\ pages_of_memory(m) <= pages_of_memory(n)
  BY DEF pages_of_memory

(* What a number of pages takes is bounded by what the fewest and the most   *)
(* take.                                                                     *)
LEMMA TakesNoMore ==
    ASSUME NEW u \in Nat, NEW x \in Nat, u <= x, NEW fixed \in Nat, NEW top \in Int,
           NEW fewest \in Nat, NEW pages \in Nat, NEW most \in Nat,
           fewest <= pages, pages <= most,
           fixed + u * fewest <= x * fewest, fixed + u * most <= top
    PROVE  fixed + u * pages <= x * pages /\ fixed + u * pages <= top
<1>1. PICK d \in Nat : d = pages - fewest /\ pages = fewest + d
  OBVIOUS
<1>2. u * pages = u * fewest + u * d /\ x * pages = x * fewest + x * d
  BY <1>1
<1>3. u * d <= x * d
  <2>1. d * u <= d * x
    BY Times
  <2> QED
    BY <2>1
<1>4. /\ u * pages \in Nat /\ u * fewest \in Nat /\ u * d \in Nat /\ u * most \in Nat
      /\ x * pages \in Nat /\ x * fewest \in Nat /\ x * d \in Nat
      /\ u * pages <= u * most
  BY Times
<1>5. fixed + u * pages <= x * pages
  BY <1>2, <1>3, <1>4
<1>6. fixed + u * pages <= top
  BY <1>4
<1> QED
  BY <1>5, <1>6

(* Where mem_map ends.                                                      *)
LEMMA MapEnds ==
    ASSUME NEW sectors \in Nat, kernel \in Nat, bss \in Nat, kernel + bss <= sectors,
           NEW pages \in Nat
    PROVE  LET stop == PageAlign(PageAlign(pgtbl_end(pages)) + PageStruct * pages)
           IN  stop \in Nat /\ KernelBase + stop <= Reserved(sectors, pages)
<1>1. /\ PageSize \in Nat \ {0} /\ EntrySize \in Nat \ {0} /\ SectorSize \in Nat \ {0}
      /\ PageStruct \in Nat \ {0} /\ KernelBase \in Nat
  BY BootAssumption
<1>2. PICK image_end \in Nat, bound \in Nat :
         /\ image_end = KernelSectors * SectorSize /\ bound = SectorSize * sectors
         /\ image_end <= bound
  <2>1. kernel + bss \in Nat
    OBVIOUS
  <2>2. SectorSize * (kernel + bss) <= SectorSize * sectors /\ SectorSize * sectors \in Nat
        /\ SectorSize * (kernel + bss) \in Nat
    BY <1>1, <2>1, Times
  <2>3. KernelSectors * SectorSize = SectorSize * (kernel + bss)
    BY <1>1, <2>1 DEF KernelSectors
  <2> QED
    BY <2>2, <2>3
<1>3. PICK dir \in Nat : dir = pg /\ dir <= image_end + PageSize - 1
  BY <1>2, AlignedClosely DEF pg
<1>4. PICK e \in Nat, m \in Nat :
         /\ e = EntrySize * pages /\ m = PageStruct * pages
         /\ (EntrySize + PageStruct) * pages = e + m
  BY <1>1
<1>5. PICK tables_end \in Nat : tables_end = pgtbl_end(pages) /\ tables_end = dir + PageSize + e
  BY <1>1, <1>3, <1>4 DEF pgtbl_end
<1>6. PICK map \in Nat : map = PageAlign(tables_end) /\ map <= tables_end + PageSize - 1
  BY <1>5, AlignedClosely
<1>7. map + m \in Nat
  OBVIOUS
<1>8. PICK stop \in Nat : stop = PageAlign(map + m) /\ stop <= map + m + PageSize - 1
  BY <1>7, AlignedClosely
<1>9. Reserved(sectors, pages) = KernelBase + bound + 4 * PageSize + (e + m)
  BY <1>2, <1>4 DEF Reserved
<1>10. KernelBase + stop <= KernelBase + bound + 4 * PageSize + (e + m)
  BY <1>1, <1>2, <1>3, <1>5, <1>6, <1>8
<1> QED
  BY <1>4, <1>5, <1>6, <1>8, <1>9, <1>10

(* The kernel does not believe in more memory than there is, unless the     *)
(* upper half of the word at 0x8000 was left as it was.                     *)
LEMMA BelievesNoMore ==
    ASSUME SizeInv, stage = "kernel_start", bios = "88" => high = 0
    PROVE  mem_size_kbytes \in Nat /\ extended \in Nat /\ mem_size_kbytes <= extended
<1>1. Measured /\ mem_size_kbytes = high * Word16 + low /\ extended \in Nat
  BY DEF SizeInv
<1>2. CASE bios = "88"
  <2>1. Answer88 \in Nat /\ Answer88 <= extended
    BY <1>1 DEF Answer88, Word16
  <2>2. high = 0 /\ low = Answer88
    BY <1>1, <1>2 DEF Measured
  <2>3. mem_size_kbytes = Answer88
    BY <1>1, <2>1, <2>2 DEF Word16
  <2> QED
    BY <1>1, <2>1, <2>3
<1>3. CASE bios # "88"
  BY <1>1, <1>3, Kbytes DEF Measured
<1> QED
  BY <1>2, <1>3

(* What mm_init reserves is mapped, and in memory.                          *)
LEMMA MmInitMaps ==
    ASSUME NEW sectors \in Nat, NEW from \in Nat, NEW upto \in Nat, SizeInv,
           Roomy(sectors, from, upto), kernel \in Nat, bss \in Nat, kernel + bss <= sectors,
           mem_size_kbytes \in Nat, from <= mem_size_kbytes, mem_size_kbytes <= upto, MmInit
    PROVE  KernelDataMapped'
<1>1. /\ PageSize \in Nat \ {0} /\ EntrySize \in Nat \ {0} /\ SectorSize \in Nat \ {0}
      /\ PageStruct \in Nat \ {0} /\ KernelBase \in Nat
  BY BootAssumption
<1>2. PICK fewest \in Nat, pages \in Nat, most \in Nat :
         /\ fewest = pages_of_memory(from) /\ pages = pages_of_memory(mem_size_kbytes)
         /\ most = pages_of_memory(upto) /\ fewest <= pages /\ pages <= most
  BY PagesGrow
<1>3. PICK u \in Nat : u = EntrySize + PageStruct /\ u <= PageSize
  BY <1>1 DEF Roomy
<1>4. PICK fixed \in Nat : fixed = KernelBase + SectorSize * sectors + 4 * PageSize
  <2>1. SectorSize * sectors \in Nat
    BY <1>1
  <2> QED
    BY <1>1, <2>1
<1>5. \A n \in Nat : Reserved(sectors, n) = fixed + u * n
  BY <1>3, <1>4 DEF Reserved
<1>6. PICK top \in Int : top = PageSize * (Tables - 1) * Entries
  BY <1>1, PageMapAssumption
<1>7. fixed + u * fewest <= PageSize * fewest /\ fixed + u * most <= top
  BY <1>2, <1>5, <1>6 DEF Roomy
<1>8. fixed + u * pages <= PageSize * pages /\ fixed + u * pages <= top
  BY <1>1, <1>2, <1>3, <1>7, TakesNoMore
<1>9. /\ stage = "kernel_start"
      /\ free_mem_start' = PageAlign(PageAlign(pgtbl_end(pages)) + PageStruct * pages)
      /\ UNCHANGED <<bios, high, extended>>
  BY <1>2 DEF MmInit, loader_vars
<1>10. PICK stop \in Nat : free_mem_start' = stop /\ KernelBase + stop <= Reserved(sectors, pages)
  BY <1>9, MapEnds
<1>11. PICK z \in Int, y \in Int : z = PageSize * pages /\ y = fixed + u * pages
                                   /\ Reserved(sectors, pages) = y /\ y <= z /\ y <= top
  <2>1. PageSize * pages \in Int /\ fixed + u * pages \in Int
    BY <1>1
  <2> QED
    BY <1>5, <1>8, <2>1
<1>12. KernelBase + stop <= z /\ KernelBase + stop <= top
  BY <1>1, <1>10, <1>11
<1>13. ASSUME bios = "88" => high = 0 PROVE KernelBase + stop <= PageSize * machine_pages
  <2>1. mem_size_kbytes \in Nat /\ extended \in Nat /\ mem_size_kbytes <= extended
    BY <1>9, <1>13, BelievesNoMore
  <2>2. machine_pages = pages_of_memory(extended)
    BY DEF machine_pages, pages_of_memory
  <2>3. PICK mine \in Nat : mine = machine_pages /\ pages <= mine
    BY <1>2, <2>1, <2>2, PagesGrow
  <2>4. PageSize * pages <= PageSize * mine /\ PageSize * mine \in Nat
    BY <1>1, <2>3, Times
  <2> QED
    BY <1>1, <1>10, <1>11, <1>12, <2>3, <2>4
<1>14. machine_pages' = machine_pages
  BY <1>9 DEF machine_pages
<1>15. KernelBase + free_mem_start' <= PageSize * (Tables - 1) * Entries
  BY <1>6, <1>10, <1>12
<1>16. (bios' = "88" => high' = 0) => KernelBase + free_mem_start' <= PageSize * machine_pages'
  BY <1>9, <1>10, <1>13, <1>14
<1> QED
  BY <1>15, <1>16 DEF KernelDataMapped

(* The sizes that are given when the machine is switched on.                *)
LEMMA RoomInit ==
    ASSUME NEW sectors \in Nat, NEW from \in Nat, NEW upto \in Nat
    PROVE  Init => RoomInv(sectors, from, upto)
  BY DEF Init, RoomInv, MkImageInit, LoaderOff, KernelDataMapped

(* What check_mem stores is between the bounds.                             *)
LEMMA LearnsBetween ==
    ASSUME NEW sectors \in Nat, NEW from \in Nat, NEW upto \in Nat,
           Machines(sectors, from, upto), extended \in ExtendedKB,
           high \in StaleWords, CheckMem, bios \in {"E801", "88"}
    PROVE  from <= high' * Word16 + low' /\ high' * Word16 + low' <= upto
<1>1. /\ extended \in Nat /\ from + 63 <= extended /\ extended <= upto
      /\ from < 65536 /\ high \in Nat /\ high * 65536 + 65536 - 1 <= upto
  BY LoaderAssumption DEF Machines, Word16
<1>2. CASE bios = "88"
  <2>1. high' = high /\ low' = IF extended >= 65536 THEN 65535 ELSE extended
    BY <1>2 DEF CheckMem, Answer88, Word16
  <2>2. extended \in Nat /\ from <= extended /\ from <= 65535
    BY <1>1
  <2>3. low' \in Nat /\ low' <= 65535 /\ from <= low'
    <3>1. CASE extended >= 65536
      BY <2>1, <2>2, <3>1
    <3>2. CASE ~(extended >= 65536)
      BY <2>1, <2>2, <3>2
    <3> QED
      BY <3>1, <3>2
  <2>4. PICK h \in Nat, m \in Nat : h = high * 65536 /\ m = low'
    BY <1>1, <2>3
  <2>5. from <= m /\ m <= 65535
    BY <2>3, <2>4
  <2>6. h + 65535 <= upto
    <3>1. h + 65536 - 1 <= upto
      BY <1>1, <2>4
    <3> QED
      BY <3>1
  <2>7. from <= h + m /\ h + m <= upto
    BY <2>5, <2>6
  <2> QED
    BY <2>1, <2>4, <2>7 DEF Word16
<1>3. CASE bios # "88"
  <2>1. PICK n \in Nat : n = e801_kbytes /\ n <= extended /\ extended - n < 64
    BY <1>1, Kbytes
  <2>2. low' = n % 65536 /\ high' = n \div 65536
    BY <1>3, <2>1 DEF CheckMem, Word16
  <2>3. (n \div 65536) * 65536 + (n % 65536) = n
    OBVIOUS
  <2>4. high' * Word16 + low' = n
    BY <2>2, <2>3 DEF Word16
  <2> QED
    BY <1>1, <2>1, <2>4
<1> QED
  BY <1>2, <1>3

(* They stay what they are until mm_init uses them.                         *)
LEMMA RoomStep ==
    ASSUME NEW sectors \in Nat, NEW from \in Nat, NEW upto \in Nat,
           Machines(sectors, from, upto), Roomy(sectors, from, upto)
    PROVE  SizeInv /\ MapInv /\ RoomInv(sectors, from, upto) /\ [Next]_vars
              => RoomInv(sectors, from, upto)'
<1> SUFFICES ASSUME SizeInv, MapInv, RoomInv(sectors, from, upto), [Next]_vars
             PROVE  RoomInv(sectors, from, upto)'
  OBVIOUS
<1>0. stage = "host" => pc = "off"
  BY DEF SizeInv
<1>1. CASE MakeImage
  <2>1. /\ stage = "host" /\ stage' = "host" /\ pc' = pc /\ pc = "off" /\ bss' = bss
        /\ kernel_file' = kernel_file
    BY <1>0, <1>1 DEF MakeImage, MkImage, WriteBootSector, CopyKernel, BeginFill, Fill,
       loader_vars
  <2> QED
    BY <2>1 DEF RoomInv, KernelDataMapped
<1>2. CASE PowerOn
  <2>1. /\ stage = "host" /\ stage' = "loader" /\ pc' = "read" /\ bss' = bss
        /\ kernel' = KernelFileSectors /\ extended' \in ExtendedKB
        /\ bios' \in {"E801", "88"} /\ high' \in StaleWords
    BY <1>2 DEF PowerOn, LoaderInit
  <2>2. kernel_file \in KernelFiles /\ bss \in BssSizes
    BY <2>1 DEF RoomInv
  <2>3. kernel' + bss' <= sectors
    BY <2>1, <2>2 DEF Machines, KernelFileSectors
  <2>4. kernel' \in Nat
    <3>1. Sector \in Nat \ {0} /\ kernel_file \in Nat
      BY <2>2, MkImageAssumption
    <3>2. kernel_file + Sector - 1 \in Nat
      BY <3>1
    <3> QED
      BY <2>1, <3>1, <3>2, Parts DEF KernelFileSectors
  <2> QED
    BY <2>1, <2>2, <2>3, <2>4 DEF RoomInv, KernelDataMapped
<1>3. CASE Load
  <2>1. stage = "loader" /\ stage' = "loader" /\ bss' = bss
    BY <1>3 DEF Load
  <2>2. kernel' = kernel /\ extended' = extended /\ bios' = bios
    BY <1>3 DEF Load, loader, ReadTrack, CheckMem
  <2>3. CASE ReadTrack
    <3>1. pc' \in {"read", "get_key"} /\ pc = "read" /\ high' = high
      BY <2>3 DEF ReadTrack
    <3> QED
      BY <2>1, <2>2, <3>1 DEF RoomInv, KernelDataMapped
  <2>4. CASE CheckMem
    <3>1. pc = "check_mem" /\ pc' = "pm"
      BY <2>4 DEF CheckMem
    <3>2. extended \in ExtendedKB /\ high \in StaleWords /\ bios \in {"E801", "88"}
      BY <2>1, <3>1 DEF RoomInv
    <3>3. from <= high' * Word16 + low' /\ high' * Word16 + low' <= upto
      BY <2>4, <3>2, LearnsBetween
    <3> QED
      BY <2>1, <2>2, <3>1, <3>3 DEF RoomInv, KernelDataMapped
  <2> QED
    BY <1>3, <2>3, <2>4 DEF Load, loader
<1>4. CASE MoveKernel \/ MapPages
  <2>1. /\ stage \in {"loader", "boot_main"} /\ stage' \in {"boot_main", "torn"}
        /\ UNCHANGED <<bss, loader_vars>>
    BY <1>4 DEF MoveKernel, MapPages
  <2> QED
    BY <2>1 DEF RoomInv, KernelDataMapped, loader_vars
<1>5. CASE EnterKernel
  <2>1. /\ stage = "boot_main" /\ stage' = "kernel_start" /\ UNCHANGED <<bss, loader_vars>>
        /\ mem_size_kbytes' = high * Word16 + low
    BY <1>5 DEF EnterKernel
  <2>2. pc = "pm"
    BY <2>1 DEF SizeInv
  <2> QED
    BY <2>1, <2>2 DEF RoomInv, KernelDataMapped, loader_vars
<1>6. CASE MmInit
  <2>1. stage = "kernel_start" /\ stage' = "free_area_init" /\ UNCHANGED <<bss, loader_vars>>
    BY <1>6 DEF MmInit
  <2>2. /\ kernel \in Nat /\ bss \in Nat /\ kernel + bss <= sectors /\ mem_size_kbytes \in Nat
        /\ from <= mem_size_kbytes /\ mem_size_kbytes <= upto
    BY <2>1 DEF RoomInv, MapInv
  <2>3. KernelDataMapped'
    BY <1>6, <2>2, MmInitMaps, Zenon
  <2> QED
    BY <2>1, <2>3 DEF RoomInv, loader_vars
<1>7. CASE KeyPressed
  <2>1. stage = "loader" /\ stage' = "loader" /\ pc = "get_key" /\ pc' = "check_mem"
        /\ UNCHANGED <<bss, kernel, extended, bios, high>>
    BY <1>7 DEF KeyPressed, get_key
  <2> QED
    BY <2>1 DEF RoomInv, KernelDataMapped
<1>8. CASE UNCHANGED vars
  <2>1. /\ UNCHANGED <<stage, bss, kernel_file, mem_size_kbytes, free_mem_start>>
        /\ UNCHANGED <<pc, kernel, extended, bios, low, high>>
    BY <1>8 DEF vars, loader_vars, mkimage_vars, mm_vars
  <2>2. KernelDataMapped' = KernelDataMapped
    BY <2>1 DEF KernelDataMapped, machine_pages
  <2> QED
    BY <2>1, <2>2 DEF RoomInv
<1> QED
  BY <1>1, <1>2, <1>3, <1>4, <1>5, <1>6, <1>7, <1>8 DEF Next, Work, Up

(* What mm_init reserves lies in what is mapped, and in the memory there is *)
(* unless the upper half of the word at 0x8000 was left as it was, on all   *)
(* machines between one that is just large enough and the largest, real or  *)
(* believed in, whose mem_map is still mapped.                              *)
THEOREM ReservedIsMapped ==
    ASSUME NEW sectors \in Nat, NEW from \in Nat, NEW upto \in Nat,
           Machines(sectors, from, upto), Roomy(sectors, from, upto)
    PROVE  Spec => []KernelDataMapped
<1> DEFINE All == SizeInv /\ MapInv /\ RoomInv(sectors, from, upto)
<1>1. Init => All
  BY SizeInit, MapInit, RoomInit
<1>2. All /\ [Next]_vars => All'
  BY SizeStep, MapStep, RoomStep
<1>3. All => KernelDataMapped
  BY DEF RoomInv
<1> QED
  BY <1>1, <1>2, <1>3, PTL DEF Spec
=============================================================================
