------------------------ MODULE MCStorageTransaction ------------------------
(* Small disks with one MiB = Align = 2 sectors and one GiB = 2 sectors:   *)
(* an EFI partition, an NTFS or ext4 partition with free space behind it,  *)
(* a partition too small for the alignment, a disk without GPT, and an     *)
(* EFI partition with the file system of another.                          *)
EXTENDS StorageTransaction

P(num, start, len, type, fs) ==
    [num |-> num, start |-> start, len |-> len, type |-> type, fs |-> fs,
     uuid |-> num]

DiskOf(ident, total, pttype, parts) ==
    [ident |-> ident, total |-> total, pttype |-> pttype, flags |-> {},
     parts |-> parts]

Esp == P(1, 2, 2, "esp", "vfat")

\* Windows with free space behind it.
DualBoot == DiskOf("A", 26, "gpt", {Esp, P(2, 4, 14, "data", "ntfs")})

\* An ext4 partition off the alignment, free space on both sides.
Linux == DiskOf("A", 26, "gpt", {Esp, P(2, 5, 6, "data", "ext4"),
                                 P(3, 22, 1, "data", "none")})

\* A sliver of a partition between the end of NTFS and the next aligned sector.
Sliver == DiskOf("A", 22, "gpt", {P(1, 2, 5, "data", "ntfs"),
                                  P(2, 7, 1, "data", "ext4")})

\* An MBR disk.
Mbr == DiskOf("B", 20, "dos", {P(1, 2, 12, "data", "ntfs")})

\* An EFI partition that holds NTFS, for which Shrink is offered.
OddEsp == DiskOf("B", 20, "gpt", {P(1, 2, 12, "esp", "ntfs")})

MCDisks == {DualBoot, Linux, Sliver, Mbr, OddEsp}
=============================================================================
