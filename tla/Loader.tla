------------------------------- MODULE Loader -------------------------------
(***************************************************************************)
(* boot/loader.S: the loop that reads the first tracks of the floppy disk, *)
(* get_key, which waits for somebody to press a key, and check_mem, which  *)
(* asks the BIOS how much memory there is.  Addresses are counted in       *)
(* sectors of 512 bytes, so that bx, which is only ever moved by whole     *)
(* sectors, takes 128 values.                                              *)
(*                                                                         *)
(* The BIOS is external.  Its disk service refuses to move data across a   *)
(* 64 KB border; check_mem uses two of its memory services, and `bios' is  *)
(* the newer one that the machine at hand has.                             *)
(***************************************************************************)
EXTENDS Integers

CONSTANTS
    TrackSectors,    \* sectors of one track on one side
    SegmentSectors,  \* sectors of 64 KB
    LastTrack,       \* the track the loop stops after
    ExtendedKB,      \* KB of memory above the first MB of the machines considered
    StaleWords       \* what the upper half of the word at 0x8000 may hold

ASSUME LoaderAssumption ==
    /\ TrackSectors \in Nat \ {0} /\ SegmentSectors \in Nat \ {0}
    /\ LastTrack \in Nat
    /\ ExtendedKB \subseteq Nat /\ StaleWords \subseteq Nat

DiskSectors == 2 * TrackSectors * (LastTrack + 1)

Word16 == 65536

Nothing == -1

VARIABLES
    pc,
    es,          \* in segments of 64 KB, from START_SEG
    bx, ch, dh,
    ram,         \* the sector of the disk that each 512 bytes from START_SEG hold
    kernel,      \* sectors of the kernel image on the disk
    extended,    \* KB above the first MB that the machine has
    bios,        \* how the BIOS tells
    low, high    \* the two halves of the word at 0x8000

disk == <<es, bx, ch, dh, ram>>
loader_vars == <<pc, disk, kernel, extended, bios, low, high>>

Ram == 0 .. DiskSectors - 1

\* A machine that is switched off.
LoaderOff ==
    /\ pc = "off"
    /\ es = 0 /\ bx = 0 /\ ch = 0 /\ dh = 0 /\ ram = << >> /\ kernel = 0
    /\ extended = 0 /\ bios = "none" /\ low = 0 /\ high = 0

\* The BIOS has loaded the boot sector of a disk with n sectors of kernel.
LoaderInit(n) ==
    /\ pc' = "read"
    /\ ram' = [s \in Ram |-> Nothing]
    /\ kernel' = n
    /\ extended' \in ExtendedKB
    /\ bios' \in {"E801", "88"}
    /\ high' \in StaleWords
    /\ UNCHANGED <<es, bx, ch, dh, low>>

\* The first sector of the disk that int 0x13 is asked for.
SectorAsked == (2 * ch + dh) * TrackSectors

\* int 0x13: all sectors of the track, or none of them.
ReadDisk ==
    ram' = IF bx + TrackSectors > SegmentSectors THEN ram
           ELSE [s \in Ram |->
                    LET n == s - (es * SegmentSectors + bx)
                    IN  IF n \in 0 .. TrackSectors - 1 THEN SectorAsked + n ELSE ram[s]]

next_head(h) == 1 - h

\* Mutant: jb instead of jbe.
before_last(t) == t < LastTrack

more_tracks(t) == t <= LastTrack

\* The carry that reports a failed read is not looked at.
ReadTrack ==
    /\ pc = "read"
    /\ ReadDisk
    /\ bx' = (bx + TrackSectors) % SegmentSectors
    /\ es' = IF bx' = 0 THEN (es + 1) % 16 ELSE es
    /\ dh' = next_head(dh)
    /\ IF dh = 1
       THEN /\ ch' = (ch + 1) % 256
            /\ pc' = IF more_tracks(ch') THEN "read" ELSE "get_key"
       ELSE UNCHANGED <<ch, pc>>
    /\ UNCHANGED <<kernel, extended, bios, low, high>>

\* Somebody presses a key.
get_key ==
    /\ pc = "get_key"
    /\ pc' = "check_mem"
    /\ UNCHANGED <<disk, kernel, extended, bios, low, high>>

\* KB between 1 MB and 16 MB, and blocks of 64 KB above that.
FirstMB == IF extended < 15360 THEN extended ELSE 15360

Blocks64 == (extended - FirstMB) \div 64

\* Mutant: the lower part of the memory is not added.
upper_memory_only == 64 * Blocks64

e801_kbytes == 64 * Blocks64 + FirstMB

\* Service 0x88 answers in 16 bits.
Answer88 == IF extended >= Word16 THEN Word16 - 1 ELSE extended

\* E801 answers in cx and dx or, with these zero, in ax and bx, which are
\* then copied; a whole word is stored.  m88 stores 16 bits.
CheckMem ==
    /\ pc = "check_mem"
    /\ IF bios = "88"
       THEN low' = Answer88 /\ UNCHANGED high
       ELSE low' = e801_kbytes % Word16 /\ high' = e801_kbytes \div Word16
    /\ pc' = "pm"
    /\ UNCHANGED <<disk, kernel, extended, bios>>

\* What the loader does by itself.
loader == ReadTrack \/ CheckMem
=============================================================================
