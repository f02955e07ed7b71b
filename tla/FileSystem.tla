----------------------------- MODULE FileSystem -----------------------------
(***************************************************************************)
(* The on-disk root directory of dvida_os (fs_driver.c): formatting the    *)
(* disk, the chunk allocation table, and the creation of directories and   *)
(* files.                                                                  *)
(*                                                                         *)
(* The code runs on one thread and touches the disk one sector at a time.  *)
(* A step of this module is the code up to and including its next          *)
(* write_sector, so that Crash (the machine is switched off and boots      *)
(* again) can fall between any two writes.  Reads only fill data_buffer,   *)
(* and belong to the step of the write that follows them.                  *)
(*                                                                         *)
(* Layout, as fs_driver.c:23-77 and its constants have it: LBA 0 holds the *)
(* magic word, LBA 1..TableSectors the allocation table, and the next      *)
(* DirSectors sectors the root directory.  The code's values are 31, 8,    *)
(* 4096 flags and 16 entries per sector, and 5 reserved chunks.            *)
(***************************************************************************)
EXTENDS Integers, FiniteSets

CONSTANTS
  Names,            \* names a caller may pass, as the 28 bytes stored of them
  Zeros,            \* 28 bytes 0x00
  Ones,             \* 28 bytes 0xFF
  TableSectors,     \* sectors of the allocation table
  FlagsPerSector,   \* flags (bits) in one of them
  DirSectors,       \* sectors of a directory, which are those of one chunk
  EntriesPerSector, \* 32-byte entries in a sector
  Reserved,         \* chunks that init_root marks as its own
  BlankImage,       \* TRUE: the disk image is all zeros when it is first used
  RootReadMayFail,  \* TRUE: all the retries of get_root's read may fail
  MaxCrashes        \* bound on the number of crashes in a behaviour

ASSUME GeometryAssumption ==
  /\ TableSectors \in Nat /\ TableSectors >= 3
  /\ FlagsPerSector \in Nat \ {0}
  /\ DirSectors \in Nat \ {0}
  /\ EntriesPerSector \in Nat \ {0}
  /\ Reserved \in Nat \ {0}
  /\ 1 + TableSectors + DirSectors = Reserved * DirSectors
  /\ Reserved <= TableSectors * FlagsPerSector

ASSUME NamesAssumption == Ones \notin Names /\ Ones # Zeros

ASSUME EnvironmentAssumption ==
  /\ BlankImage \in BOOLEAN
  /\ RootReadMayFail \in BOOLEAN
  /\ MaxCrashes \in Nat
-----------------------------------------------------------------------------
TableLba == 1..TableSectors
Flag     == 0..(FlagsPerSector - 1)
Sector   == 0..(DirSectors - 1)
Slot     == 0..(EntriesPerSector - 1)
Chunk    == 0..(TableSectors * FlagsPerSector - 1)

(* allocate_chunk returns -1 when every flag is set; shifted left by 12 it
   becomes the address 0xFFFFF000, which is stored like any other. *)
NoChunk == -1

FILE   == 0
FOLDER == 1

(* A 32-byte entry: the present and folder bits of its last byte, its name,
   and the chunk its address bytes point to. *)
Entry == [present : {0, 1}, type : {FILE, FOLDER},
          name : Names \cup {Zeros, Ones}, ptr : Chunk \cup {NoChunk}]

ZeroEntry == [present |-> 0, type |-> FILE, name |-> Zeros, ptr |-> 0]
OnesEntry == [present |-> 1, type |-> FOLDER, name |-> Ones, ptr |-> NoChunk]

(* A sector of zeros, and one whose every bit is set, read as a directory. *)
ZeroSector == [j \in Slot |-> ZeroEntry]
OnesSector == [j \in Slot |-> OnesEntry]

(* Where the flag of chunk a lives.  The source's 32 is one more than the
   number of sectors of the table. *)
atla_to_sbf(a) == [sector |-> ((a \div FlagsPerSector) % (TableSectors + 1)) + 1,
                   flag   |-> a % FlagsPerSector]

(* Mutant: sectors counted from zero. *)
sbf_to_atla_FromZero(s, f) == s * FlagsPerSector + f

sbf_to_atla(s, f) == (s - 1) * FlagsPerSector + f
-----------------------------------------------------------------------------
VARIABLES
  pc,          \* where the kernel is: see Phases
  n,           \* the loop counter of init_root's current loop
  magic,       \* LBA 0 starts with the magic word
  table,       \* table[i]: the flags set in LBA i
  dir,         \* dir[i][j]: the j-th entry of the i-th directory sector
  data_buffer, \* the driver's sector buffer, while it holds a directory sector
  call,        \* the creation in progress
  chunk,       \* what allocate_chunk returned to it
  crashes,     \* crashes so far
  torn         \* history: one of them left a magic word and half a table

disk == <<magic, table, dir>>
vars == <<pc, n, magic, table, dir, data_buffer, call, chunk, crashes, torn>>

(* "boot": get_root is next.  The next four are the loops of init_root, in
   their order.  "idle": no call is in progress.  "allocate", "enter": a
   creation has found its slot, or has its chunk. *)
Formatting == {"clear_head", "write_magic", "clear_table", "set_flags"}
Creating   == {"allocate", "enter"}
Phases     == {"boot", "idle"} \cup Formatting \cup Creating

NoCall == [type |-> FILE, name |-> Zeros, sector |-> 0, slot |-> 0]

Call == [type : {FILE, FOLDER}, name : Names \cup {Zeros},
         sector : Sector, slot : Slot]

Present(i, j) == dir[i][j].present = 1

UsedFlags == {c \in Chunk : \E i \in TableLba : \E f \in table[i] : c = sbf_to_atla(i, f)}

TypeOK ==
  /\ pc \in Phases
  /\ n \in Nat
  /\ magic \in BOOLEAN
  /\ table \in [TableLba -> SUBSET Flag]
  /\ dir \in [Sector -> [Slot -> Entry]]
  /\ data_buffer \in [Slot -> Entry]
  /\ call \in Call
  /\ chunk \in Chunk \cup {NoChunk}
  /\ crashes \in 0..MaxCrashes
  /\ torn \in BOOLEAN

(* A blank image is all zeros.  Another one has no magic word either, but its
   bytes may read as flags and entries.  Those that are not zeros are all ones
   here, in a table's sector and in an entry. *)
Init ==
  /\ pc = "boot"
  /\ n = 0
  /\ magic = FALSE
  /\ \E staleTable \in SUBSET TableLba, stale \in SUBSET (Sector \X Slot) :
       /\ BlankImage => staleTable = {} /\ stale = {}
       /\ table = [i \in TableLba |-> IF i \in staleTable THEN Flag ELSE {}]
       /\ dir = [i \in Sector |-> [j \in Slot |->
                   IF <<i, j>> \in stale THEN OnesEntry ELSE ZeroEntry]]
  /\ data_buffer = ZeroSector
  /\ call = NoCall
  /\ chunk = NoChunk
  /\ crashes = 0
  /\ torn = FALSE
-----------------------------------------------------------------------------
(***************************************************************************)
(* Boot: get_root and, without a magic word, init_root.                    *)
(***************************************************************************)

(* Mutant: the magic word is not looked at. *)
get_root_AlwaysInit ==
  /\ pc = "boot"
  /\ pc' = "clear_head" /\ n' = 1
  /\ UNCHANGED <<magic, table, dir, data_buffer, call, chunk, crashes, torn>>

(* The magic word tells a formatted disk.  When every retry of the read
   fails, data_buffer still holds the zeros it has had since the boot. *)
get_root ==
  /\ pc = "boot"
  /\ \/ magic /\ pc' = "idle" /\ n' = 0
     \/ (~magic \/ RootReadMayFail) /\ pc' = "clear_head" /\ n' = 1
  /\ UNCHANGED <<magic, table, dir, data_buffer, call, chunk, crashes, torn>>

(* write_sector(lba) with a data_buffer of zeros. *)
WriteZeros(lba) ==
  \/ /\ lba \in TableLba
     /\ table' = [table EXCEPT ![lba] = {}]
     /\ UNCHANGED dir
  \/ /\ lba > TableSectors
     /\ dir' = [dir EXCEPT ![lba - TableSectors - 1] = ZeroSector]
     /\ UNCHANGED table

clear_head ==
  /\ pc = "clear_head"
  /\ WriteZeros(n)
  /\ \/ n < 3 /\ n' = n + 1 /\ UNCHANGED pc
     \/ n = 3 /\ n' = 0 /\ pc' = "write_magic"
  /\ UNCHANGED <<magic, data_buffer, call, chunk, crashes, torn>>

write_magic ==
  /\ pc = "write_magic"
  /\ magic' = TRUE
  /\ pc' = "clear_table"
  /\ n' = 1
  /\ UNCHANGED <<table, dir, data_buffer, call, chunk, crashes, torn>>

(* Mutant: the loop ends with the table. *)
clear_table_OneShort ==
  /\ pc = "clear_table"
  /\ WriteZeros(n)
  /\ \/ n < TableSectors /\ n' = n + 1 /\ UNCHANGED pc
     \/ n = TableSectors /\ n' = 0 /\ pc' = "set_flags"
  /\ UNCHANGED <<magic, data_buffer, call, chunk, crashes, torn>>

(* The last sector cleared is the first of the root directory. *)
clear_table ==
  /\ pc = "clear_table"
  /\ WriteZeros(n)
  /\ \/ n < TableSectors + 1 /\ n' = n + 1 /\ UNCHANGED pc
     \/ n = TableSectors + 1 /\ n' = 0 /\ pc' = "set_flags"
  /\ UNCHANGED <<magic, data_buffer, call, chunk, crashes, torn>>

set_allocation_table_flag(a) ==
  table' = [table EXCEPT ![atla_to_sbf(a).sector] = @ \cup {atla_to_sbf(a).flag}]

(* Mutant: one reserved chunk too few. *)
set_flags_OneShort ==
  /\ pc = "set_flags"
  /\ set_allocation_table_flag(n)
  /\ \/ n < Reserved - 2 /\ n' = n + 1 /\ UNCHANGED pc
     \/ n = Reserved - 2 /\ n' = 0 /\ pc' = "idle"
  /\ UNCHANGED <<magic, dir, data_buffer, call, chunk, crashes, torn>>

(* Mutant: what was formatted is read again to be sure of it. *)
set_flags_Reread ==
  /\ pc = "set_flags"
  /\ set_allocation_table_flag(n)
  /\ \/ n < Reserved - 1 /\ n' = n + 1 /\ UNCHANGED pc
     \/ n = Reserved - 1 /\ n' = 0 /\ pc' = "boot"
  /\ UNCHANGED <<magic, dir, data_buffer, call, chunk, crashes, torn>>

set_flags ==
  /\ pc = "set_flags"
  /\ set_allocation_table_flag(n)
  /\ \/ n < Reserved - 1 /\ n' = n + 1 /\ UNCHANGED pc
     \/ n = Reserved - 1 /\ n' = 0 /\ pc' = "idle"
  /\ UNCHANGED <<magic, dir, data_buffer, call, chunk, crashes, torn>>

init_root == clear_head \/ write_magic \/ clear_table \/ set_flags
-----------------------------------------------------------------------------
(***************************************************************************)
(* Creating an entry: create_directory and create_file differ in the type  *)
(* they check and store.                                                   *)
(***************************************************************************)

(* Mutant: the last sector of the directory is not fetched. *)
CheckedSlots_SectorShort == (0..(DirSectors - 2)) \X Slot

(* The slots the duplicate check looks at: all but the last one. *)
CheckedSlots ==
  {s \in Sector \X Slot :
     s[1] * EntriesPerSector + s[2] < DirSectors * EntriesPerSector - 1}

check_repeat_file_or_directory_name(type, name) ==
  \A s \in CheckedSlots :
    ~ /\ dir[s[1]][s[2]].present = 1
      /\ dir[s[1]][s[2]].type = type
      /\ dir[s[1]][s[2]].name = name

(* Mutant: the present bit of the first sector's entries is not tested. *)
FirstFree_Occupied(i, j) == i = 0 /\ j = 0

(* The first slot, in the order the loops visit them, that is not present. *)
FirstFree(i, j) ==
  /\ ~Present(i, j)
  /\ \A l \in Slot : l < j => Present(i, l)
  /\ \A k \in Sector, l \in Slot : k < i => Present(k, l)

(* A name that is there already, or a full directory, ends the call without
   a write, after the last sector was read; otherwise data_buffer holds the
   sector with the free slot. *)
Create(type, name) ==
  /\ pc = "idle"
  /\ \/ /\ \/ ~check_repeat_file_or_directory_name(type, name)
           \/ \A i \in Sector, j \in Slot : Present(i, j)
        /\ data_buffer' = dir[DirSectors - 1]
        /\ UNCHANGED <<pc, call>>
     \/ /\ check_repeat_file_or_directory_name(type, name)
        /\ \E i \in Sector, j \in Slot :
             /\ FirstFree(i, j)
             /\ data_buffer' = dir[i]
             /\ call' = [type |-> type, name |-> name, sector |-> i, slot |-> j]
        /\ pc' = "allocate"
  /\ UNCHANGED <<n, magic, table, dir, chunk, crashes, torn>>

create_directory(name) == Create(FOLDER, name)
create_file(name)      == Create(FILE, name)

(* The first flag, in the order the loops visit them, that is not set. *)
FirstClear(i, f) ==
  /\ f \notin table[i]
  /\ \A g \in Flag : g < f => g \in table[i]
  /\ \A k \in TableLba : k < i => table[k] = Flag

(* Mutant: the table sector is not written back. *)
allocate_chunk_NoWrite ==
  /\ pc = "allocate"
  /\ \/ \E i \in TableLba, f \in Flag :
          FirstClear(i, f) /\ chunk' = sbf_to_atla(i, f)
     \/ (\A i \in TableLba : table[i] = Flag) /\ chunk' = NoChunk
  /\ pc' = "enter"
  /\ UNCHANGED <<n, magic, table, dir, data_buffer, call, crashes, torn>>

(* Mutant: data_buffer is not restored; the table sector's first flags are
   set, and read as an entry. *)
allocate_chunk_NoRestore ==
  /\ pc = "allocate"
  /\ \E i \in TableLba, f \in Flag :
       /\ FirstClear(i, f)
       /\ table' = [table EXCEPT ![i] = @ \cup {f}]
       /\ chunk' = sbf_to_atla(i, f)
  /\ data_buffer' = [ZeroSector EXCEPT ![0] = OnesEntry]
  /\ pc' = "enter"
  /\ UNCHANGED <<n, magic, dir, call, crashes, torn>>

(* data_buffer is saved on entry and restored on the way out, except when
   there is no clear flag: then it still holds the last table sector, all
   of whose flags are set. *)
allocate_chunk ==
  /\ pc = "allocate"
  /\ \/ \E i \in TableLba, f \in Flag :
          /\ FirstClear(i, f)
          /\ table' = [table EXCEPT ![i] = @ \cup {f}]
          /\ chunk' = sbf_to_atla(i, f)
          /\ UNCHANGED data_buffer
     \/ /\ \A i \in TableLba : table[i] = Flag
        /\ chunk' = NoChunk
        /\ data_buffer' = OnesSector
        /\ UNCHANGED table
  /\ pc' = "enter"
  /\ UNCHANGED <<n, magic, dir, call, crashes, torn>>

NewEntry == [present |-> 1, type |-> call.type, name |-> call.name, ptr |-> chunk]

(* Mutant: the sector is not written. *)
EnterEntry_NoWrite ==
  /\ pc = "enter"
  /\ data_buffer' = [data_buffer EXCEPT ![call.slot] = NewEntry]
  /\ pc' = "idle"
  /\ call' = NoCall
  /\ chunk' = NoChunk
  /\ UNCHANGED <<n, magic, table, dir, crashes, torn>>

(* The entry goes into data_buffer, and data_buffer over the sector. *)
EnterEntry ==
  /\ pc = "enter"
  /\ dir' = [dir EXCEPT ![call.sector] = [data_buffer EXCEPT ![call.slot] = NewEntry]]
  /\ data_buffer' = [data_buffer EXCEPT ![call.slot] = NewEntry]
  /\ pc' = "idle"
  /\ call' = NoCall
  /\ chunk' = NoChunk
  /\ UNCHANGED <<n, magic, table, crashes, torn>>
-----------------------------------------------------------------------------
(* The machine stops and boots again: memory is lost, the disk is kept. *)
Crash ==
  /\ pc # "boot"
  /\ crashes < MaxCrashes
  /\ crashes' = crashes + 1
  /\ torn' = (torn \/ (magic /\ pc \in Formatting))
  /\ pc' = "boot"
  /\ n' = 0
  /\ data_buffer' = ZeroSector
  /\ call' = NoCall
  /\ chunk' = NoChunk
  /\ UNCHANGED disk

Kernel ==
  \/ get_root
  \/ init_root
  \/ \E name \in Names : create_directory(name) \/ create_file(name)
  \/ allocate_chunk
  \/ EnterEntry

Next == Kernel \/ Crash

Spec == Init /\ [][Next]_vars

(* The kernel runs whenever it can.  Calls of create_* are the caller's
   choice, so only the steps that finish something are fair. *)
FairSpec == Spec /\ WF_vars(get_root \/ init_root \/ allocate_chunk \/ EnterEntry)
-----------------------------------------------------------------------------
(***************************************************************************)
(* Safety.                                                                 *)
(***************************************************************************)

(* No two entries have the same type and the same name, although the check
   that create_* makes leaves the last slot of the directory out. *)
NamesUnique ==
  \A i, k \in Sector, j, l \in Slot :
     /\ Present(i, j) /\ Present(k, l)
     /\ dir[i][j].name = dir[k][l].name /\ dir[i][j].name # Ones
     /\ dir[i][j].type = dir[k][l].type
     => i = k /\ j = l

(* The chunk of every entry is marked in the allocation table, whatever
   crashed between the write of the mark and the write of the entry. *)
ChunksMarked ==
  \A i \in Sector, j \in Slot : Present(i, j) => dir[i][j].ptr \in UsedFlags

(* No two entries share a chunk, although the two are written at different
   times and the table alone says what is free. *)
ChunksUnshared ==
  \A i, k \in Sector, j, l \in Slot :
     /\ Present(i, j) /\ Present(k, l)
     /\ dir[i][j].ptr = dir[k][l].ptr /\ dir[i][j].ptr # NoChunk
     => i = k /\ j = l

(* The sector number of a chunk: a chunk has as many sectors as a directory. *)
pointer_to_lba(c) == c * DirSectors

(* No entry points into the sectors the file system itself lives in: the
   root configuration, the allocation table and the root directory
   (fs_driver.c:267-268 and 309). *)
EntriesOutsideMetadata ==
  \A i \in Sector, j \in Slot :
     Present(i, j) => pointer_to_lba(dir[i][j].ptr) > TableSectors + DirSectors

(* Unless the machine stopped between the magic word and the last flag. *)
MetadataSafe == ~torn => EntriesOutsideMetadata

(* allocate_chunk gives data_buffer back as it found it. *)
BufferRestored == pc = "enter" => data_buffer = dir[call.sector]

(* What is in the directory stays there: no later creation, no crash and no
   boot removes or changes an entry. *)
EntriesKept ==
  [][\A i \in Sector, j \in Slot : Present(i, j) => dir'[i][j] = dir[i][j]]_vars

(* Formatting ends with the same table and the same first directory sector
   (init_root, fs_driver.c:235-275), whatever the image held, whatever an
   earlier formatting that was cut short left, and whatever was created on a
   disk that is formatted again because its first sector was unreadable. *)
FormattingStartsAfresh ==
  [][pc' = "idle" /\ pc \in Formatting =>
       magic' /\ UsedFlags' = 0..(Reserved - 1) /\ dir'[0] = ZeroSector]_vars

(* The directory of module Directory, read off the disk. *)
Abstract == INSTANCE Directory WITH
  Keys    <- {FILE, FOLDER} \X Names,
  Chunks  <- Chunk,
  catalog <- {[key   |-> <<dir[s[1]][s[2]].type, dir[s[1]][s[2]].name>>,
               chunk |-> dir[s[1]][s[2]].ptr] :
                s \in {s \in Sector \X Slot : Present(s[1], s[2])}},
  taken   <- UsedFlags

(* Every step on the disk is a step of Directory, or invisible to it. *)
ImplementsDirectory == Abstract!Spec
-----------------------------------------------------------------------------
(***************************************************************************)
(* Liveness, under FairSpec: crashes are bounded, so from some point on    *)
(* there are no more of them.                                              *)
(***************************************************************************)

(* The kernel gets through get_root, and stays there. *)
EventuallyBooted == <>[](pc \notin {"boot"} \cup Formatting)

(* A creation that has found its slot ends with its entry in the directory,
   unless the machine stops first. *)
CreationCompletes ==
  \A type \in {FILE, FOLDER}, name \in Names :
    (pc = "allocate" /\ call.type = type /\ call.name = name /\ crashes = MaxCrashes)
      ~> (\E i \in Sector, j \in Slot :
            Present(i, j) /\ dir[i][j].type = type /\ dir[i][j].name = name)
=============================================================================
