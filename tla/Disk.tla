-------------------------------- MODULE Disk --------------------------------
(***************************************************************************)
(* The driver of the ATA disk, port by port (fs_driver.c:110-207), under   *)
(* the calls of fs_driver.c that use it.                                   *)
(*                                                                         *)
(* The driver waits with sleep(1) where it should look at the status, and  *)
(* wait_for_disk waits for the busy bit to be set.  So the disk may answer *)
(* too early or too late at every step; what it does then is what QEMU's   *)
(* disk does: while it is busy or has data to pass it takes no command and *)
(* no register, and its data port moves data in the direction of the       *)
(* command only, and gives zeros otherwise.                                *)
(*                                                                         *)
(* A sector is the set of its bits that are set; its words are its bits.   *)
(* Module FileSystem has what the bits mean.                               *)
(***************************************************************************)
EXTENDS Integers

CONSTANTS
  TableSectors,  \* sectors of the allocation table, from LBA 1
  DirSectors,    \* sectors of the root directory, which follow
  BitsPerSector,
  Reserved,      \* flags that init_root sets
  Word,          \* the magic word
  Retries,       \* times that a read is tried: 100
  MaxReboots     \* bound on the number of reboots in a behaviour

Sectors == 0..(TableSectors + DirSectors)
Bit     == 0..(BitsPerSector - 1)

ASSUME DiskAssumption ==
  /\ TableSectors \in Nat \ {0, 1} /\ DirSectors \in Nat \ {0}
  /\ BitsPerSector \in Nat \ {0}
  /\ Reserved \in 1..(TableSectors * BitsPerSector)
  /\ Word \subseteq Bit /\ Word # {}
  /\ Retries \in Nat \ {0} /\ MaxReboots \in Nat

VARIABLES
  disk,        \* disk[s]: the bits of sector s
  status,      \* what the disk is doing
  reg_lba,     \* its registers; a command counts them on
  reg_count,   \* 1, or 0, which the disk takes for 256
  many,        \* the command is for 256 sectors
  latch,       \* the sector that it is writing
  at,          \* where the driver is in read_sector or write_sector
  kind, lba,   \* which of the two, and its argument
  tries,       \* reads that failed
  data_buffer,
  pc, n,       \* where the kernel is, and its loop's counter
  saved,       \* temp_buffer: what allocate_chunk gives back
  home, slot,  \* the directory's sector and slot for the new entry
  late,        \* history: in this boot a command outlasted the next sleep
  fresh,       \* history: init_root runs, and had reason to
  reboots

device  == <<disk, status, reg_lba, reg_count, many, latch>>
driver  == <<at, kind, lba, tries>>
kernel  == <<pc, n, saved, home, slot>>
history == <<late, fresh, reboots>>
vars    == <<device, driver, data_buffer, kernel, history>>

Busy == status \in {"busy_read", "busy_write"}

Phases == {"root", "magic", "clear_head", "write_magic", "clear_table",
           "read_flags", "set_flag", "idle", "check", "search", "allocate", "enter"}

TypeOK ==
  /\ disk \in [Sectors -> SUBSET Bit]
  /\ status \in {"ready", "busy_read", "data_in", "data_out", "busy_write"}
  /\ reg_lba \in 0..(TableSectors + DirSectors + 1)
  /\ reg_count \in {0, 1}
  /\ many \in BOOLEAN
  /\ latch \in SUBSET Bit
  /\ at \in {"idle", "count", "lba", "command", "wait", "data"}
  /\ kind \in {"read", "write"} /\ lba \in Sectors
  /\ tries \in 0..(Retries - 1)
  /\ data_buffer \in SUBSET Bit
  /\ pc \in Phases /\ n \in 0..(TableSectors + DirSectors + Reserved)
  /\ saved \in SUBSET Bit
  /\ home \in 0..(DirSectors - 1) /\ slot \in Bit
  /\ late \in BOOLEAN /\ fresh \in BOOLEAN /\ reboots \in 0..MaxReboots

Init ==
  /\ disk = [s \in Sectors |-> {}]
  /\ status = "ready" /\ reg_lba = 1 /\ reg_count = 1 /\ many = FALSE /\ latch = {}
  /\ at = "idle" /\ kind = "read" /\ lba = 0 /\ tries = 0
  /\ data_buffer = {}
  /\ pc = "root" /\ n = 0 /\ saved = {} /\ home = 0 /\ slot = 0
  /\ late = FALSE /\ fresh = FALSE /\ reboots = 0
-----------------------------------------------------------------------------
(***************************************************************************)
(* The disk.                                                               *)
(***************************************************************************)

(* A sector has passed: the registers count on. *)
Counted ==
  /\ reg_lba' = IF reg_lba \in Sectors THEN reg_lba + 1 ELSE reg_lba
  /\ reg_count' = 0

(* The sector to be read is there, or the one to be written is written. *)
Finish ==
  /\ \/ /\ status = "busy_read"
        /\ status' = "data_in"
        /\ UNCHANGED <<disk, reg_lba, reg_count>>
     \/ /\ status = "busy_write"
        /\ disk' = [s \in Sectors |-> IF s = reg_lba THEN latch ELSE disk[s]]
        /\ Counted
        /\ status' = IF many THEN "data_out" ELSE "ready"
  /\ UNCHANGED <<many, latch, driver, data_buffer, kernel, history>>

(* A port that selects the sector is written. *)
Port(here, next) ==
  /\ at = here
  /\ at' = next
  /\ UNCHANGED <<disk, status, many, latch, kind, lba, tries, data_buffer, kernel,
                 fresh, reboots>>

outb_count ==
  /\ Port("count", "lba")
  /\ reg_count' = IF status = "ready" THEN 1 ELSE reg_count
  /\ late' = (late \/ Busy)
  /\ UNCHANGED reg_lba

outb_lba ==
  /\ Port("lba", "command")
  /\ reg_lba' = IF status = "ready" THEN lba ELSE reg_lba
  /\ UNCHANGED <<reg_count, late>>

outb_command ==
  /\ at = "command"
  /\ IF status = "ready"
       THEN /\ status' = IF kind = "read" THEN "busy_read" ELSE "data_out"
            /\ many' = (reg_count = 0)
       ELSE UNCHANGED <<status, many>>
  /\ at' = IF kind = "read" THEN "wait" ELSE "data"
  /\ UNCHANGED <<disk, reg_lba, reg_count, latch, kind, lba, tries, data_buffer,
                 kernel, history>>
-----------------------------------------------------------------------------
(***************************************************************************)
(* The rest of read_sector and write_sector.                               *)
(***************************************************************************)

(* Mutant: the data is taken from the disk before giving up. *)
wait_for_disk_Drain ==
  /\ at = "wait"
  /\ IF Busy THEN at' = "data" /\ UNCHANGED <<tries, status>>
             ELSE /\ status' = "ready"
                  /\ IF tries + 1 < Retries
                       THEN tries' = tries + 1 /\ at' = "count"
                       ELSE tries' = 0 /\ at' = "idle"
  /\ UNCHANGED <<disk, reg_lba, reg_count, many, latch, kind, lba, data_buffer,
                 kernel, history>>

(* Mutant: the retries are not counted. *)
wait_for_disk_Forever ==
  /\ at = "wait"
  /\ at' = IF Busy THEN "data" ELSE "count"
  /\ UNCHANGED <<device, kind, lba, tries, data_buffer, kernel, history>>

(* A disk that is no longer busy is one that timed out.  The last retry
   ends like a read that went well, with data_buffer as it was. *)
wait_for_disk ==
  /\ at = "wait"
  /\ \/ Busy /\ at' = "data" /\ UNCHANGED tries
     \/ ~Busy /\ tries + 1 < Retries /\ tries' = tries + 1 /\ at' = "count"
     \/ ~Busy /\ tries + 1 = Retries /\ tries' = 0 /\ at' = "idle"
  /\ UNCHANGED <<device, kind, lba, data_buffer, kernel, history>>

(* What the driver gets when the data comes after k of its reads. *)
Shifted(bits, k) == {b \in Bit : b - k \in bits}

(* The port gives zeros until the sector is there; what is left of it stays
   with the disk. *)
read_data ==
  /\ at = "data" /\ kind = "read"
  /\ at' = "idle" /\ tries' = 0
  /\ \/ /\ status = "data_in"
        /\ data_buffer' = IF reg_lba \in Sectors THEN disk[reg_lba] ELSE {}
        /\ Counted
        /\ status' = IF many THEN "busy_read" ELSE "ready"
     \/ /\ status = "busy_read"
        /\ \E k \in 1..BitsPerSector :
             data_buffer' = Shifted(IF reg_lba \in Sectors THEN disk[reg_lba] ELSE {}, k)
        /\ status' = "data_in"
        /\ UNCHANGED <<reg_lba, reg_count>>
     \/ /\ status # "data_in"
        /\ data_buffer' = {}
        /\ UNCHANGED <<status, reg_lba, reg_count>>
  /\ UNCHANGED <<disk, many, latch, kind, lba, kernel, history>>

(* The words are lost on a disk that does not expect any. *)
write_data ==
  /\ at = "data" /\ kind = "write"
  /\ at' = "idle"
  /\ IF status = "data_out" THEN status' = "busy_write" /\ latch' = data_buffer
                            ELSE UNCHANGED <<status, latch>>
  /\ UNCHANGED <<disk, reg_lba, reg_count, many, kind, lba, tries, data_buffer,
                 kernel, history>>

Driver == outb_count \/ outb_lba \/ outb_command \/ wait_for_disk \/ read_data \/ write_data
-----------------------------------------------------------------------------
(***************************************************************************)
(* The callers: get_root, init_root and the creation of an entry.          *)
(***************************************************************************)

(* read_sector_with_retry(s, 100), or write_sector(s). *)
Transfer(k, s) ==
  /\ at' = "count" /\ kind' = k /\ lba' = s
  /\ UNCHANGED tries

NoTransfer == UNCHANGED driver

(* The kernel goes on when its last transfer has returned. *)
At(phase) == pc = phase /\ at = "idle" /\ UNCHANGED <<device, late, reboots>>

get_root ==
  \/ /\ At("root")
     /\ Transfer("read", 0)
     /\ pc' = "magic"
     /\ UNCHANGED <<n, saved, home, slot, data_buffer, fresh>>
  \/ /\ At("magic")
     /\ IF data_buffer = Word
          THEN pc' = "idle" /\ UNCHANGED <<n, data_buffer, fresh>>
          ELSE /\ pc' = "clear_head" /\ n' = 1
               /\ data_buffer' = {}
               /\ fresh' = (disk[0] # Word)
     /\ NoTransfer
     /\ UNCHANGED <<saved, home, slot>>

clear_head ==
  /\ At("clear_head")
  /\ Transfer("write", n)
  /\ IF n < 3 THEN n' = n + 1 /\ UNCHANGED pc ELSE n' = 0 /\ pc' = "write_magic"
  /\ UNCHANGED <<saved, home, slot, data_buffer, fresh>>

(* Mutant: the clearing starts with the sector of the magic word. *)
write_magic_ThenAll ==
  /\ At("write_magic")
  /\ data_buffer' = Word
  /\ Transfer("write", 0)
  /\ n' = 0 /\ pc' = "clear_table"
  /\ UNCHANGED <<saved, home, slot, fresh>>

write_magic ==
  /\ At("write_magic")
  /\ data_buffer' = Word
  /\ Transfer("write", 0)
  /\ n' = 1 /\ pc' = "clear_table"
  /\ UNCHANGED <<saved, home, slot, fresh>>

(* Mutant: the loop goes one sector further. *)
clear_table_TooFar ==
  /\ At("clear_table")
  /\ data_buffer' = {}
  /\ Transfer("write", n)
  /\ IF n < TableSectors + 2 THEN n' = n + 1 /\ UNCHANGED pc
                             ELSE n' = 0 /\ pc' = "read_flags"
  /\ UNCHANGED <<saved, home, slot, fresh>>

clear_table ==
  /\ At("clear_table")
  /\ data_buffer' = {}
  /\ Transfer("write", n)
  /\ IF n < TableSectors + 1 THEN n' = n + 1 /\ UNCHANGED pc
                             ELSE n' = 0 /\ pc' = "read_flags"
  /\ UNCHANGED <<saved, home, slot, fresh>>

(* atla_to_sbf *)
SectorOf(flag) == ((flag \div BitsPerSector) % (TableSectors + 1)) + 1
BitOf(flag)    == flag % BitsPerSector

set_allocation_table_flag ==
  \/ /\ At("read_flags")
     /\ Transfer("read", SectorOf(n))
     /\ pc' = "set_flag"
     /\ UNCHANGED <<n, saved, home, slot, data_buffer, fresh>>
  \/ /\ At("set_flag")
     /\ data_buffer' = data_buffer \cup {BitOf(n)}
     /\ Transfer("write", SectorOf(n))
     /\ IF n < Reserved - 1 THEN n' = n + 1 /\ pc' = "read_flags"
                            ELSE n' = 0 /\ pc' = "idle"
     /\ UNCHANGED <<saved, home, slot, fresh>>

Dir(i) == TableSectors + 1 + i

FirstClear(bits) == CHOOSE b \in Bit \ bits : \A c \in Bit \ bits : b <= c

(* create_directory or create_file: the sectors of the directory are read
   for the check of the name, which may end the call, and again for a slot. *)
Create ==
  \/ /\ At("idle")
     /\ Transfer("read", Dir(0))
     /\ n' = 0 /\ pc' = "check"
     /\ fresh' = FALSE
     /\ UNCHANGED <<saved, home, slot, data_buffer>>
  \/ /\ At("check")
     /\ \/ n < DirSectors - 1 /\ Transfer("read", Dir(n + 1)) /\ n' = n + 1 /\ UNCHANGED pc
        \/ n = DirSectors - 1 /\ Transfer("read", Dir(0)) /\ n' = 0 /\ pc' = "search"
        \/ n = DirSectors - 1 /\ NoTransfer /\ n' = 0 /\ pc' = "idle"
     /\ UNCHANGED <<saved, home, slot, data_buffer, fresh>>
  \/ /\ At("search")
     /\ \/ /\ data_buffer # Bit
           /\ saved' = data_buffer /\ home' = n /\ slot' = FirstClear(data_buffer)
           /\ Transfer("read", 1) /\ n' = 1 /\ pc' = "allocate"
        \/ /\ data_buffer = Bit
           /\ IF n < DirSectors - 1
                THEN Transfer("read", Dir(n + 1)) /\ n' = n + 1 /\ UNCHANGED pc
                ELSE NoTransfer /\ n' = 0 /\ pc' = "idle"
           /\ UNCHANGED <<saved, home, slot>>
     /\ UNCHANGED <<data_buffer, fresh>>

(* A full table leaves its last sector in data_buffer. *)
allocate_chunk ==
  /\ At("allocate")
  /\ \/ /\ data_buffer # Bit
        /\ data_buffer' = data_buffer \cup {FirstClear(data_buffer)}
        /\ Transfer("write", n)
        /\ n' = 0 /\ pc' = "enter"
        /\ UNCHANGED saved
     \/ /\ data_buffer = Bit /\ n < TableSectors
        /\ Transfer("read", n + 1)
        /\ n' = n + 1
        /\ UNCHANGED <<pc, saved, data_buffer>>
     \/ /\ data_buffer = Bit /\ n = TableSectors
        /\ NoTransfer
        /\ saved' = data_buffer
        /\ n' = 0 /\ pc' = "enter"
        /\ UNCHANGED data_buffer
  /\ UNCHANGED <<home, slot, fresh>>

EnterEntry ==
  /\ At("enter")
  /\ data_buffer' = saved \cup {slot}
  /\ Transfer("write", Dir(home))
  /\ pc' = "idle"
  /\ UNCHANGED <<n, saved, home, slot, fresh>>

init_root == clear_head \/ write_magic \/ clear_table \/ set_allocation_table_flag

Kernel == get_root \/ init_root \/ Create \/ allocate_chunk \/ EnterEntry

(* The machine is reset, and the disk with it: a write that is under way is
   lost.  Bound: no reboot is followed after a late command. *)
Reboot ==
  /\ reboots < MaxReboots /\ ~late
  /\ reboots' = reboots + 1
  /\ status' = "ready" /\ reg_lba' = 1 /\ reg_count' = 1 /\ many' = FALSE /\ latch' = {}
  /\ at' = "idle" /\ kind' = "read" /\ lba' = 0 /\ tries' = 0
  /\ data_buffer' = {}
  /\ pc' = "root" /\ n' = 0 /\ saved' = {} /\ home' = 0 /\ slot' = 0
  /\ late' = FALSE /\ fresh' = FALSE
  /\ UNCHANGED disk

Next == Finish \/ Driver \/ Kernel \/ Reboot

Spec == Init /\ [][Next]_vars

(* The disk answers, and the kernel runs: sleep(1) ends (module Sleep). *)
FairSpec == Spec /\ WF_vars(Finish) /\ WF_vars(Driver \/ Kernel)
-----------------------------------------------------------------------------
(* A disk that was formatted stays so: whenever the disk answers, and
   whatever is written to another sector by mistake, the magic word is not
   overwritten. *)
MagicKept == [][disk[0] = Word => disk'[0] = Word]_vars

(* Nothing on a formatted disk is lost unless a command outlasts the sleep
   that begins the next one.  read_sector_with_retry gives up silently
   (fs_driver.c:162-172), and a late sector is read as zeros, so get_root may
   format a disk that is formatted, and flags and entries may be written back
   from the wrong sector; but the sector that was not fetched also keeps the
   disk from taking any write. *)
DiskKept ==
  [][disk[0] = Word /\ ~fresh /\ ~late =>
       \A s \in Sectors : disk[s] \subseteq disk'[s]]_vars

(* Whatever the disk does, get_root and every creation return. *)
CallsReturn == pc # "idle" ~> pc = "idle"
=============================================================================
