------------------------------ MODULE MkImage -------------------------------
(***************************************************************************)
(* tools/mkimage.c, which runs on the host: it writes the boot sector, the *)
(* kernel and zeros up to the size of a floppy disk to boot.img, over what *)
(* an earlier run has left there.  The host's disk may fill up, and a read *)
(* may fail.  Sizes are counted in units that divide a sector.             *)
(***************************************************************************)
EXTENDS Integers, SequencesExt

CONSTANTS
    Sector,         \* 512 bytes
    Buffer,         \* sizeof(buffer)
    DISK_SIZE,
    SizeT,          \* one more than the largest size_t of the host
    LoaderFiles,    \* sizes of loader.bin
    KernelFiles,    \* sizes of kernel.bin
    OldImages,      \* sizes of a boot.img that is there already, some of them
                    \* larger than a disk: a run for a kernel that does not fit
                    \* writes until the host has no room, and leaves what it wrote
    Rooms           \* what is free on the host's disk

ASSUME MkImageAssumption ==
    /\ {Sector, Buffer, DISK_SIZE, SizeT} \subseteq Nat \ {0}
    /\ Sector <= DISK_SIZE /\ Buffer <= DISK_SIZE /\ DISK_SIZE < SizeT
    /\ LoaderFiles \subseteq Nat /\ KernelFiles \subseteq Nat \ {0}
    /\ OldImages \subseteq Nat /\ Rooms \subseteq Nat
    /\ \A n \in OldImages, r \in Rooms : n + r < SizeT

VARIABLES
    mkimage,                    \* the loop that runs, or how main ended
    loader_file, kernel_file, room,
    boot_img, written,          \* the image, and the position in it
    file_size, remain_size

mkimage_vars == <<mkimage, loader_file, kernel_file, room, boot_img, written,
                  file_size, remain_size>>

Zeros(n) == [k \in 1 .. n |-> <<"zero", 0>>]

\* n units of a file, from the k-th on.
Units(file, k, n) == [j \in 1 .. n |-> <<file, k + j - 1>>]

Less(m, n) == IF m < n THEN m ELSE n

MkImageInit ==
    /\ mkimage = "open"
    /\ loader_file \in LoaderFiles /\ kernel_file \in KernelFiles /\ room \in Rooms
    /\ \E n \in OldImages : boot_img = [k \in 1 .. n |-> <<"old", k>>]
    /\ written = 0 /\ file_size = 0 /\ remain_size = 0

\* What write takes of n units: over the old image, and into what is free.
Taken(n) == Less(n, Len(boot_img) - written + room)

\* A write that takes a part of its data is not an error, and nobody asks.
write(data, next) ==
    LET n   == Taken(Len(data))
        img == SubSeq(boot_img, 1, written) \o SubSeq(data, 1, n)
                   \o SubSeq(boot_img, written + n + 1, Len(boot_img))
    IN  /\ boot_img' = img
        /\ room' = room - (Len(img) - Len(boot_img))
        /\ written' = written + n
        /\ mkimage' = IF n = 0 /\ data # << >> THEN "failed" ELSE next

fails ==
    /\ mkimage' = "failed"
    /\ UNCHANGED <<room, boot_img, written>>

\* Up to the fstat of the kernel, which may not be there; buffer is static and
\* so filled with zeros.
WriteBootSector ==
    /\ mkimage = "open"
    /\ \/ /\ loader_file \in 1 .. Sector
          /\ \E opened \in {"copy", "failed"} :
                write(Units("loader", 1, loader_file) \o Zeros(Sector - loader_file), opened)
       \/ fails
    /\ file_size' = kernel_file
    /\ UNCHANGED <<loader_file, kernel_file, remain_size>>

\* A read that fails is not noticed, for read_size is unsigned; but no write
\* takes as much as (size_t) -1.  Of a file that has become shorter since the
\* fstat there is in the end nothing to read, again and again.
CopyKernel ==
    /\ mkimage = "copy" /\ file_size > 0
    /\ \/ LET read_size == Less(file_size, Buffer)
          IN  /\ write(Units("kernel", kernel_file - file_size + 1, read_size), "copy")
              /\ file_size' = file_size - read_size
       \/ fails /\ file_size' = file_size + 1
       \/ mkimage' = "endless" /\ UNCHANGED <<room, boot_img, written, file_size>>
    /\ UNCHANGED <<loader_file, kernel_file, remain_size>>

\* Mutant: the boot sector is not counted.
behind_kernel == DISK_SIZE - kernel_file

left_to_fill == DISK_SIZE - Sector - kernel_file

BeginFill ==
    /\ mkimage = "copy" /\ file_size = 0
    /\ remain_size' = left_to_fill % SizeT
    /\ mkimage' = "fill"
    /\ UNCHANGED <<loader_file, kernel_file, room, boot_img, written, file_size>>

\* Mutant: what is less than a buffer is never written.
whole_buffer(n) == IF n < Buffer THEN 0 ELSE Buffer

chunk(n) == Less(n, Buffer)

Fill ==
    /\ mkimage = "fill"
    /\ IF remain_size = 0
       THEN /\ mkimage' = "ok"
            /\ UNCHANGED <<room, boot_img, written, remain_size>>
       ELSE LET size == chunk(remain_size)
            IN  write(Zeros(size), "fill") /\ remain_size' = remain_size - size
    /\ UNCHANGED <<loader_file, kernel_file, file_size>>

MkImage == WriteBootSector \/ CopyKernel \/ BeginFill \/ Fill

\* The sectors that the kernel takes, the last one in part.
KernelFileSectors == (kernel_file + Sector - 1) \div Sector
-----------------------------------------------------------------------------
\* What the loader expects to find on the disk.
Floppy ==
    Units("loader", 1, loader_file) \o Zeros(Sector - loader_file)
        \o Units("kernel", 1, kernel_file) \o Zeros(DISK_SIZE - Sector - kernel_file)

(* An image mkimage returns 0 for holds, as far as a disk goes, the boot    *)
(* sector, the kernel and zeros and nothing of an older image, whatever     *)
(* sizes the files have (one that is too large makes remain_size wrap       *)
(* around); a full host can have cut short only its last write.  boot.img   *)
(* is not truncated, so behind the disk there is what an older image that   *)
(* was larger had there, and nothing else.                                  *)
ImageWhole ==
    mkimage = "ok" =>
        LET used == Less(Len(boot_img), DISK_SIZE)
        IN  /\ IsPrefix(SubSeq(boot_img, 1, used), Floppy)
            /\ DISK_SIZE - used < Buffer
            /\ \A k \in DISK_SIZE + 1 .. Len(boot_img) : boot_img[k] = <<"old", k>>
=============================================================================
