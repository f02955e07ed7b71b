----------------------------- MODULE DiskProofs -----------------------------
(***************************************************************************)
(* What survives a disk of any speed, for every geometry, every magic word *)
(* and every number of retries and reboots: the magic word always, and the *)
(* rest of a formatted disk as long as no command outlasts the next sleep. *)
(***************************************************************************)
EXTENDS Disk, Induction

(* The part of the type that the proof needs. *)
RegisterType ==
  /\ {reg_lba, lba, n, home} \subseteq Nat
  /\ kind \in {"read", "write"}

(* Where the kernel writes the sector of its counter, that is not the first. *)
CounterPastMagic == pc \in {"clear_head", "clear_table", "allocate"} => n # 0

(* The driver writes nothing but the magic word to the first sector. *)
MagicOnly == at # "idle" /\ kind = "write" /\ lba = 0 => data_buffer = Word

(* The disk's register is at the first sector only from its selection to the
   end of the command: it counts on, and a disk that has something to do
   ignores who selects another.  A write to it is one of the magic word. *)
Aimed ==
  reg_lba = 0 =>
    /\ status = "ready" => at = "command" /\ lba = 0
    /\ status = "data_out" => at = "data" /\ kind = "write" /\ data_buffer = Word
    /\ status = "busy_write" => latch = Word

MagicInv == RegisterType /\ CounterPastMagic /\ MagicOnly /\ Aimed
-----------------------------------------------------------------------------
LEMMA SizeTypes ==
  /\ TableSectors \in Nat /\ TableSectors > 1
  /\ DirSectors \in Nat /\ DirSectors > 0
  /\ BitsPerSector \in Nat /\ BitsPerSector > 0
  BY DiskAssumption

LEMMA ModRange ==
  ASSUME NEW x \in Nat, NEW m \in Nat \ {0}
  PROVE  x % m \in 0..(m - 1)
  BY Z3

LEMMA DivNat ==
  ASSUME NEW x \in Nat, NEW m \in Nat \ {0}
  PROVE  x \div m \in Nat
  BY Z3

(* Flags and entries are not in the first sector. *)
LEMMA FlagInTable ==
  ASSUME NEW flag \in Nat
  PROVE  SectorOf(flag) \in 1..(TableSectors + 1)
<1>1. flag \div BitsPerSector \in Nat
  BY SizeTypes, DivNat
<1>2. (flag \div BitsPerSector) % (TableSectors + 1) \in 0..TableSectors
  BY <1>1, SizeTypes, ModRange
<1> QED BY <1>2, SizeTypes DEF SectorOf

LEMMA EntryPastMagic ==
  ASSUME NEW i \in Nat
  PROVE  Dir(i) \in Nat \ {0}
  BY SizeTypes DEF Dir

LEMMA InitMagic == Init => MagicInv
  BY SizeTypes DEF Init, MagicInv, RegisterType, CounterPastMagic, MagicOnly, Aimed, Sectors
-----------------------------------------------------------------------------
(* A disk that is done moves on from the sector it was at. *)
LEMMA FinishMagic ==
  ASSUME MagicInv, Finish
  PROVE  MagicInv' /\ (disk[0] = Word => disk'[0] = Word)
<1> USE DEF MagicInv, RegisterType, CounterPastMagic, MagicOnly, Aimed, Sectors
<1>1. CASE status = "busy_read"
  BY <1>1 DEF Finish, driver, kernel, history
<1>2. CASE status = "busy_write"
  BY <1>2, SizeTypes DEF Finish, Counted, driver, kernel, history
<1> QED BY <1>1, <1>2 DEF Finish

(* The ports, and the data. *)
LEMMA DriverMagic ==
  ASSUME MagicInv, Driver
  PROVE  MagicInv' /\ disk' = disk
<1> USE DEF MagicInv, RegisterType, CounterPastMagic, MagicOnly, Aimed, Sectors,
            kernel, history, device
<1>1. CASE outb_count
  BY <1>1 DEF outb_count, Port
<1>2. CASE outb_lba
  BY <1>2 DEF outb_lba, Port
<1>3. CASE outb_command
  BY <1>3 DEF outb_command
<1>4. CASE wait_for_disk
  BY <1>4 DEF wait_for_disk
<1>5. CASE read_data
  BY <1>5, SizeTypes DEF read_data, Counted
<1>6. CASE write_data
  BY <1>6 DEF write_data
<1> QED BY <1>1, <1>2, <1>3, <1>4, <1>5, <1>6 DEF Driver

(* The calls of the kernel: each chooses a sector and what to write there. *)
LEMMA KernelMagic ==
  ASSUME MagicInv, Kernel
  PROVE  MagicInv' /\ disk' = disk
<1> USE DEF MagicInv, RegisterType, CounterPastMagic, MagicOnly, Aimed, Sectors,
            kernel, history, device, driver, At, Transfer, NoTransfer
<1>1. CASE get_root
  BY <1>1 DEF get_root
<1>2. CASE clear_head
  BY <1>2 DEF clear_head
<1>3. CASE write_magic
  BY <1>3 DEF write_magic
<1>4. CASE clear_table
  BY <1>4 DEF clear_table
<1>5. CASE set_allocation_table_flag
  BY <1>5, FlagInTable DEF set_allocation_table_flag
<1>6. CASE Create
  BY <1>6, EntryPastMagic DEF Create
<1>7. CASE allocate_chunk
  BY <1>7 DEF allocate_chunk
<1>8. CASE EnterEntry
  BY <1>8, EntryPastMagic DEF EnterEntry
<1> QED BY <1>1, <1>2, <1>3, <1>4, <1>5, <1>6, <1>7, <1>8 DEF Kernel, init_root

LEMMA RebootMagic ==
  ASSUME MagicInv, Reboot
  PROVE  MagicInv' /\ disk' = disk
  BY SizeTypes
  DEF MagicInv, RegisterType, CounterPastMagic, MagicOnly, Aimed, Sectors, Reboot

LEMMA NextMagic ==
  MagicInv /\ [Next]_vars => MagicInv' /\ (disk[0] = Word => disk'[0] = Word)
<1> SUFFICES ASSUME MagicInv, [Next]_vars
             PROVE  MagicInv' /\ (disk[0] = Word => disk'[0] = Word)
  OBVIOUS
<1>1. CASE Next
  BY <1>1, FinishMagic, DriverMagic, KernelMagic, RebootMagic DEF Next
<1>2. CASE UNCHANGED vars
  BY <1>2 DEF vars, device, driver, kernel, history, MagicInv, RegisterType,
              CounterPastMagic, MagicOnly, Aimed, Sectors
<1> QED BY <1>1, <1>2

(* A disk that was formatted stays so, whenever it answers: no sector is
   written over the magic word (fs_driver.c:185-207), although the driver does
   not look whether the disk took the sector's number and its command. *)
THEOREM MagicWordKept == Spec => MagicKept
<1>1. MagicInv /\ [Next]_vars => [disk[0] = Word => disk'[0] = Word]_vars
  BY NextMagic
<1>2. MagicInv /\ [Next]_vars => MagicInv'
  BY NextMagic
<1> QED BY <1>1, <1>2, InitMagic, PTL DEF Spec, MagicKept
-----------------------------------------------------------------------------
(* The phases of init_root. *)
Formatting == {"clear_head", "write_magic", "clear_table", "read_flags", "set_flag"}

(* The kernel looks at what it has just read. *)
Looking == {"magic", "set_flag", "check", "search", "allocate"}

(* The part of the type that the second proof needs, and the loops' ranges. *)
KernelType ==
  /\ status \in {"ready", "busy_read", "data_in", "data_out", "busy_write"}
  /\ at \in {"idle", "count", "lba", "command", "wait", "data"}
  /\ late \in BOOLEAN /\ fresh \in BOOLEAN
  /\ disk \in [Sectors -> SUBSET Bit]
  /\ data_buffer \subseteq Bit /\ latch \subseteq Bit
  /\ saved \subseteq Bit /\ slot \in Bit
  /\ kind \in {"read", "write"} /\ lba \in Sectors
  /\ n \in Nat /\ home \in 0..(DirSectors - 1)
  /\ pc = "clear_head" => n \in 1..3
  /\ pc = "clear_table" => n \in 1..(TableSectors + 1)
  /\ pc \in {"check", "search"} => n \in 0..(DirSectors - 1)
  /\ pc = "allocate" => n \in 1..TableSectors

(* What the kernel has asked for last. *)
Asked ==
  /\ pc \in Looking => kind = "read"
  /\ pc = "magic" => lba = 0
  /\ pc = "set_flag" => lba = SectorOf(n)
  /\ pc = "search" => lba = Dir(n)
  /\ pc = "allocate" => lba = n
  /\ pc = "enter" => lba \in 1..TableSectors

(* The disk has a sector that nobody will fetch, and takes no command. *)
Lost ==
  \/ status = "data_in" /\ (at = "data" => kind = "write")
  \/ status = "busy_read" /\ at \in {"idle", "count"}

(* Otherwise driver and disk are at the same command, for one sector. *)
InStep ==
  /\ status = "ready" => /\ at \in {"idle", "count", "lba", "command"}
                         /\ at \in {"lba", "command"} => reg_count = 1
                         /\ at = "command" => reg_lba = lba
  /\ status \in {"busy_read", "data_in"} =>
       Lost \/ (kind = "read" /\ at \in {"wait", "data"} /\ reg_lba = lba /\ ~many)
  /\ status = "data_out" => at = "data" /\ kind = "write" /\ reg_lba = lba /\ ~many
  /\ status = "busy_write" => /\ at \in {"idle", "count"} /\ ~many
                              /\ reg_lba \in Sectors

(* What was read is what the disk has. *)
ReadRight ==
  pc \in Looking /\ at = "idle" => Lost \/ (status = "ready" /\ data_buffer = disk[lba])

(* Formatting had a reason, or does not reach the disk. *)
FormatRight == pc \in Formatting => fresh \/ Lost

(* The copy of the directory's sector is one, whatever is added to the table
   meanwhile. *)
SavedRight ==
  /\ pc \in {"allocate", "enter"} => Lost \/ disk[Dir(home)] \subseteq saved
  /\ pc = "allocate" => status # "busy_write"
  /\ pc = "enter" /\ status = "busy_write" => reg_lba = lba

(* What is written only adds to what the disk has, unless it is formatted. *)
WriteRight ==
  pc \notin Formatting =>
    /\ kind = "write" /\ at # "idle" => Lost \/ disk[lba] \subseteq data_buffer
    /\ status = "busy_write" => disk[reg_lba] \subseteq latch
    /\ status = "busy_write" /\ kind = "write" /\ at = "count" => reg_lba # lba

(* What holds as long as no command came late. *)
OnTime == InStep /\ ReadRight /\ FormatRight /\ SavedRight /\ WriteRight

KeptInv == KernelType /\ Asked /\ (~late => OnTime)

(* A step of the disk that loses nothing. *)
Added == \A s \in Sectors : disk[s] \subseteq disk'[s]
-----------------------------------------------------------------------------
LEMMA EntryInDir ==
  ASSUME NEW i \in 0..(DirSectors - 1)
  PROVE  Dir(i) \in (TableSectors + 1)..(TableSectors + DirSectors)
  BY SizeTypes DEF Dir

LEMMA InitKept == Init => KeptInv
<1> SUFFICES ASSUME Init PROVE KeptInv
  OBVIOUS
<1>1. KernelType
  <2>1. disk \in [Sectors -> SUBSET Bit]
    BY DEF Init
  <2>2. 0 \in Sectors /\ 0 \in 0..(DirSectors - 1) /\ 0 \in Bit
    BY SizeTypes DEF Sectors, Bit
  <2> QED BY <2>1, <2>2 DEF Init, KernelType
<1>2. Asked
  BY DEF Init, Asked, Looking
<1>3. OnTime
  BY DEF Init, OnTime, InStep, ReadRight, FormatRight, SavedRight, WriteRight, Lost,
         Looking, Formatting
<1> QED BY <1>1, <1>2, <1>3 DEF KeptInv

(* The reboot forgets everything but the disk. *)
LEMMA RebootKept ==
  ASSUME KeptInv, Reboot
  PROVE  KeptInv' /\ disk' = disk
<1>1. KernelType'
  <2>1. disk' \in [Sectors -> SUBSET Bit]
    BY DEF Reboot, KeptInv, KernelType
  <2>2. 0 \in Sectors /\ 0 \in 0..(DirSectors - 1) /\ 0 \in Bit
    BY SizeTypes DEF Sectors, Bit
  <2> QED BY <2>1, <2>2 DEF Reboot, KernelType
<1>2. Asked'
  BY DEF Reboot, Asked, Looking
<1>3. OnTime'
  BY DEF Reboot, OnTime, InStep, ReadRight, FormatRight, SavedRight, WriteRight, Lost,
         Looking, Formatting
<1> QED BY <1>1, <1>2, <1>3 DEF KeptInv, Reboot

(* The disk is done: a sector that nobody waits for is lost, and a write that
   formats nothing adds to its sector, which is none that the kernel has read. *)
LEMMA FinishKept ==
  ASSUME KeptInv, Finish
  PROVE  KeptInv' /\ (~late /\ pc \notin Formatting => Added)
<1> USE SizeTypes DEF KeptInv, OnTime
<1>1. /\ pc' = pc /\ n' = n /\ saved' = saved /\ home' = home /\ slot' = slot
      /\ late' = late
      /\ fresh' = fresh /\ data_buffer' = data_buffer /\ latch' = latch
      /\ many' = many /\ at' = at /\ kind' = kind /\ lba' = lba
  BY DEF Finish, driver, kernel, history
<1>2. Asked'
  BY <1>1 DEF Asked, SectorOf, Dir
<1>3. CASE status = "busy_read"
  <2>1. status' = "data_in" /\ disk' = disk /\ reg_lba' = reg_lba /\ reg_count' = reg_count
    BY <1>3 DEF Finish
  <2>2. KernelType'
    BY <1>1, <2>1 DEF KernelType, Sectors
  <2>3. ~late => InStep' /\ (Lost => Lost')
    BY <1>1, <1>3, <2>1 DEF InStep, Lost, KernelType
  <2>4. ~late => ReadRight' /\ FormatRight' /\ SavedRight' /\ WriteRight'
    BY <1>1, <1>3, <2>1, <2>3
    DEF ReadRight, FormatRight, SavedRight, WriteRight, Dir
  <2> QED BY <1>1, <1>2, <2>1, <2>2, <2>3, <2>4 DEF Added
<1>4. CASE status = "busy_write"
  <2>1. /\ disk' = [s \in Sectors |-> IF s = reg_lba THEN latch ELSE disk[s]]
        /\ status' = IF many THEN "data_out" ELSE "ready"
        /\ reg_lba' = IF reg_lba \in Sectors THEN reg_lba + 1 ELSE reg_lba
        /\ reg_count' = 0
    BY <1>4 DEF Finish, Counted
  <2>2. KernelType'
    BY <1>1, <2>1 DEF KernelType, Sectors
  <2>3. ~late => ~Lost /\ status' = "ready" /\ at \in {"idle", "count"} /\ reg_lba \in Sectors
    BY <1>4, <2>1 DEF InStep, Lost
  <2>4. ~late => InStep'
    BY <1>1, <2>3 DEF InStep
  <2>5. ~late => ReadRight' /\ FormatRight'
    BY <1>1, <1>4, <2>3 DEF ReadRight, FormatRight
  <2>6. ~late => SavedRight'
    <3>1. Dir(home) \in (TableSectors + 1)..(TableSectors + DirSectors)
      BY EntryInDir DEF KernelType
    <3>2. pc = "allocate" /\ ~late => FALSE
      BY <1>4 DEF SavedRight
    <3> QED BY <1>1, <1>4, <2>1, <2>3, <3>1, <3>2 DEF SavedRight, Asked, Sectors, Dir
  <2>7. ~late => WriteRight'
    BY <1>1, <1>4, <2>1, <2>3 DEF WriteRight, KernelType
  <2>8. ~late /\ pc \notin Formatting => Added
    BY <1>4, <2>1, <2>3 DEF WriteRight, Added, KernelType
  <2> QED BY <1>1, <1>2, <2>2, <2>4, <2>5, <2>6, <2>7, <2>8
<1> QED BY <1>3, <1>4 DEF Finish

-----------------------------------------------------------------------------
(* The driver's steps: none changes the disk, and what they leave behind is as
   it should be, or the sector that was asked for is lost. *)
LEMMA DriverFrame ==
  ASSUME KeptInv, Driver
  PROVE  /\ disk' = disk /\ pc' = pc /\ n' = n /\ saved' = saved /\ home' = home
         /\ slot' = slot /\ fresh' = fresh /\ kind' = kind /\ lba' = lba
         /\ Asked' /\ (~late' => ~late) /\ late' \in BOOLEAN
<1>1. /\ disk' = disk /\ pc' = pc /\ n' = n /\ saved' = saved /\ home' = home
      /\ slot' = slot /\ fresh' = fresh /\ kind' = kind /\ lba' = lba
  BY DEF Driver, outb_count, outb_lba, outb_command, wait_for_disk, read_data, write_data,
         Port, Counted, device, kernel, history
<1>2. (~late' => ~late) /\ late' \in BOOLEAN
  BY DEF Driver, outb_count, outb_lba, outb_command, wait_for_disk, read_data, write_data,
         Port, Counted, device, kernel, history, KeptInv, KernelType, Busy
<1>3. Asked'
  BY <1>1 DEF KeptInv, Asked, SectorOf, Dir
<1> QED BY <1>1, <1>2, <1>3

LEMMA PortsKept ==
  ASSUME KeptInv, outb_count \/ outb_lba \/ outb_command
  PROVE  KeptInv'
<1>1. /\ disk' = disk /\ pc' = pc /\ n' = n /\ saved' = saved /\ home' = home
      /\ slot' = slot /\ fresh' = fresh /\ kind' = kind /\ lba' = lba
      /\ Asked' /\ (~late' => ~late) /\ late' \in BOOLEAN
  BY DriverFrame DEF Driver
<1>2. data_buffer' = data_buffer /\ latch' = latch
  BY DEF outb_count, outb_lba, outb_command, Port, device, history
<1>3. KernelType'
  BY <1>1, <1>2 DEF KeptInv, KernelType, outb_count, outb_lba, outb_command, Port
<1>4. ASSUME ~late' PROVE InStep' /\ (Lost => Lost') /\ at' # "idle" /\ status' # "busy_write"
  <2>1. InStep /\ KernelType
    BY <1>1, <1>4 DEF KeptInv, OnTime
  <2>2. CASE outb_count
    BY <1>4, <2>1, <2>2 DEF outb_count, Port, InStep, Lost, KernelType, Busy
  <2>3. CASE outb_lba
    BY <2>1, <2>3 DEF outb_lba, Port, InStep, Lost, KernelType
  <2>4. CASE outb_command
    <3>1. /\ at = "command" /\ kind \in {"read", "write"}
          /\ kind' = kind /\ lba' = lba /\ reg_lba' = reg_lba /\ reg_count' = reg_count
          /\ at' = IF kind = "read" THEN "wait" ELSE "data"
      BY <2>1, <2>4 DEF outb_command, KernelType
    <3>2. CASE status = "ready"
      <4>1. reg_lba = lba /\ reg_count = 1
        BY <2>1, <3>1, <3>2 DEF InStep
      <4>2. status' = IF kind = "read" THEN "busy_read" ELSE "data_out"
        BY <2>4, <3>2 DEF outb_command
      <4>3. reg_count # 0 /\ many' = (reg_count = 0)
        BY <2>4, <3>2, <4>1 DEF outb_command
      <4>4. ~many'
        BY <4>3, Zenon
      <4> QED BY <3>1, <3>2, <4>1, <4>2, <4>4 DEF InStep, Lost
    <3>3. CASE status # "ready"
      <4>1. status = "data_in"
        BY <2>1, <3>1, <3>3 DEF InStep, Lost, KernelType
      <4>2. status' = "data_in"
        BY <2>4, <4>1 DEF outb_command
      <4> QED BY <3>1, <4>1, <4>2 DEF InStep, Lost
    <3> QED BY <3>2, <3>3
  <2> QED BY <2>2, <2>3, <2>4
<1>5. ASSUME ~late' PROVE at # "idle" /\ OnTime
  BY <1>1, <1>5 DEF KeptInv, outb_count, outb_lba, outb_command, Port
<1>6. ASSUME ~late' PROVE ReadRight' /\ FormatRight' /\ SavedRight' /\ WriteRight'
  BY <1>1, <1>2, <1>4, <1>5, <1>6
  DEF OnTime, ReadRight, FormatRight, SavedRight, WriteRight, Dir
<1> QED BY <1>1, <1>3, <1>4, <1>6 DEF KeptInv, OnTime

(* Giving up leaves the sector with the disk. *)
LEMMA WaitKept ==
  ASSUME KeptInv, wait_for_disk
  PROVE  KeptInv'
<1>1. /\ disk' = disk /\ pc' = pc /\ n' = n /\ saved' = saved /\ home' = home
      /\ slot' = slot /\ fresh' = fresh /\ kind' = kind /\ lba' = lba
      /\ Asked' /\ (~late' => ~late) /\ late' \in BOOLEAN
  BY DriverFrame DEF Driver
<1>2. /\ data_buffer' = data_buffer /\ latch' = latch /\ status' = status
      /\ reg_lba' = reg_lba /\ reg_count' = reg_count /\ many' = many
      /\ at = "wait" /\ at' \in {"idle", "count", "data"}
      /\ at' = "data" <=> Busy
  BY DEF wait_for_disk, device
<1>3. KernelType'
  BY <1>1, <1>2 DEF KeptInv, KernelType
<1>4. ASSUME ~late'
      PROVE  InStep' /\ (Lost => Lost') /\ (at' # "data" => Lost') /\ status # "busy_write"
  BY <1>1, <1>2, <1>4 DEF KeptInv, OnTime, InStep, Lost, KernelType, Busy
<1>5. ASSUME ~late' PROVE ReadRight' /\ FormatRight' /\ SavedRight' /\ WriteRight'
  BY <1>1, <1>2, <1>4, <1>5
  DEF KeptInv, OnTime, ReadRight, FormatRight, SavedRight, WriteRight, Dir
<1> QED BY <1>1, <1>3, <1>4, <1>5 DEF KeptInv, OnTime

(* A sector that is not complete yet is lost. *)
LEMMA ReadKept ==
  ASSUME KeptInv, read_data
  PROVE  KeptInv'
<1>1. /\ disk' = disk /\ pc' = pc /\ n' = n /\ saved' = saved /\ home' = home
      /\ slot' = slot /\ fresh' = fresh /\ kind' = kind /\ lba' = lba
      /\ Asked' /\ (~late' => ~late) /\ late' \in BOOLEAN
  BY DriverFrame DEF Driver
<1>2. /\ latch' = latch /\ at = "data" /\ at' = "idle" /\ kind = "read"
  BY DEF read_data
<1>3. KernelType'
  <2>1. data_buffer' \in SUBSET Bit
    BY DEF read_data, KeptInv, KernelType, Shifted
  <2>2. status' \in {"ready", "busy_read", "data_in", "data_out", "busy_write"}
    BY DEF read_data, KeptInv, KernelType
  <2> QED BY <1>1, <1>2, <2>1, <2>2 DEF KeptInv, KernelType
<1>4. ASSUME ~late'
      PROVE  /\ InStep' /\ (Lost => Lost') /\ status' # "busy_write"
             /\ Lost' \/ (status' = "ready" /\ data_buffer' = disk[lba])
  <2>1. InStep /\ KernelType
    BY <1>1, <1>4 DEF KeptInv, OnTime
  <2>2. CASE status = "data_in"
    <3>1. reg_lba = lba /\ ~many /\ lba \in Sectors
      BY <1>2, <2>1, <2>2 DEF InStep, Lost, KernelType
    <3> QED BY <1>2, <2>2, <3>1 DEF read_data, InStep, Lost
  <2>3. CASE status = "busy_read"
    BY <1>2, <2>3 DEF read_data, InStep, Lost
  <2>4. CASE status \notin {"data_in", "busy_read"}
    BY <1>2, <2>1, <2>4 DEF InStep, KernelType
  <2> QED BY <2>2, <2>3, <2>4
<1>5. ASSUME ~late' PROVE ReadRight' /\ FormatRight' /\ SavedRight' /\ WriteRight'
  BY <1>1, <1>2, <1>4, <1>5
  DEF KeptInv, OnTime, ReadRight, FormatRight, SavedRight, WriteRight, Dir
<1> QED BY <1>1, <1>3, <1>4, <1>5 DEF KeptInv, OnTime

LEMMA WriteKept ==
  ASSUME KeptInv, write_data
  PROVE  KeptInv'
<1>1. /\ disk' = disk /\ pc' = pc /\ n' = n /\ saved' = saved /\ home' = home
      /\ slot' = slot /\ fresh' = fresh /\ kind' = kind /\ lba' = lba
      /\ Asked' /\ (~late' => ~late) /\ late' \in BOOLEAN
  BY DriverFrame DEF Driver
<1>2. /\ at = "data" /\ at' = "idle" /\ kind = "write" /\ data_buffer' = data_buffer
      /\ reg_lba' = reg_lba /\ reg_count' = reg_count /\ many' = many
      /\ \/ status = "data_out" /\ status' = "busy_write" /\ latch' = data_buffer
         \/ status # "data_out" /\ status' = status /\ latch' = latch
  BY DEF write_data
<1>3. KernelType'
  BY <1>1, <1>2 DEF KeptInv, KernelType
<1>4. ASSUME ~late'
      PROVE  /\ InStep' /\ (Lost => Lost')
             /\ Lost' \/ (status = "data_out" /\ reg_lba = lba /\ ~Lost)
  BY <1>1, <1>2, <1>4 DEF KeptInv, OnTime, InStep, Lost, KernelType
<1>5. pc \notin Looking
  BY <1>2 DEF KeptInv, Asked
<1>6. ASSUME ~late' PROVE ReadRight' /\ FormatRight' /\ SavedRight'
  BY <1>1, <1>2, <1>4, <1>5, <1>6
  DEF KeptInv, OnTime, ReadRight, FormatRight, SavedRight, Lost, Looking, Dir
<1>7. ASSUME ~late' PROVE WriteRight'
  BY <1>1, <1>2, <1>4, <1>7 DEF KeptInv, OnTime, WriteRight, Lost
<1> QED BY <1>1, <1>3, <1>4, <1>6, <1>7 DEF KeptInv, OnTime

-----------------------------------------------------------------------------
LEMMA FirstClearIsBit ==
  ASSUME NEW bits, bits \subseteq Bit, bits # Bit
  PROVE  FirstClear(bits) \in Bit
<1>1. BitsPerSector - 1 \in Nat /\ Bit \ bits \subseteq 0..(BitsPerSector - 1) /\ Bit \ bits # {}
  <2>1. BitsPerSector - 1 \in Nat
    BY SizeTypes
  <2>2. Bit \ bits # {}
    OBVIOUS
  <2>3. Bit \ bits \subseteq 0..(BitsPerSector - 1)
    BY DEF Bit
  <2> QED BY <2>1, <2>2, <2>3
<1>2. \E b \in Bit \ bits : \A c \in Bit \ bits : b <= c
  BY <1>1, LeastOf
<1> QED BY <1>2 DEF FirstClear

(* A step of the kernel leaves the disk alone: what is lost stays lost, and
   what it does next finds the disk ready or writing, or lost. *)
LEMMA KernelFrame ==
  ASSUME KeptInv, Kernel
  PROVE  /\ at = "idle" /\ UNCHANGED device /\ late' = late
         /\ ~late => /\ InStep' /\ (Lost => Lost')
                     /\ pc \in Looking => Lost \/ (status = "ready" /\ data_buffer = disk[lba])
<1>1. at = "idle" /\ UNCHANGED device /\ late' = late /\ at' \in {"idle", "count"}
  BY DEF Kernel, get_root, init_root, clear_head, write_magic, clear_table,
         set_allocation_table_flag, Create, allocate_chunk, EnterEntry, At, Transfer,
         NoTransfer, driver
<1>2. ~late => InStep' /\ (Lost => Lost')
  BY <1>1 DEF KeptInv, KernelType, OnTime, InStep, Lost, device
<1>3. ~late /\ pc \in Looking => Lost \/ (status = "ready" /\ data_buffer = disk[lba])
  BY <1>1 DEF KeptInv, OnTime, ReadRight
<1> QED BY <1>1, <1>2, <1>3

(* Formatting begins because the magic word is not there, or was not read. *)
LEMMA GetRootKept ==
  ASSUME KeptInv, get_root
  PROVE  KeptInv'
<1>1. /\ at = "idle" /\ UNCHANGED device /\ late' = late
      /\ ~late => /\ InStep' /\ (Lost => Lost')
                  /\ pc \in Looking => Lost \/ (status = "ready" /\ data_buffer = disk[lba])
  BY KernelFrame DEF Kernel
<1>2. CASE pc = "root"
  <2>1. /\ pc' = "magic" /\ at' = "count" /\ kind' = "read" /\ lba' = 0
        /\ UNCHANGED <<n, saved, home, slot, data_buffer, fresh>>
    BY <1>2 DEF get_root, At, Transfer
  <2>2. KernelType' /\ Asked'
    BY <1>1, <2>1, SizeTypes DEF KeptInv, KernelType, Asked, Looking, Sectors, device
  <2>3. ~late' => OnTime'
    BY <1>1, <1>2, <2>1
    DEF KeptInv, OnTime, ReadRight, FormatRight, SavedRight, WriteRight, Formatting, device
  <2> QED BY <2>2, <2>3 DEF KeptInv
<1>3. CASE pc = "magic" /\ data_buffer = Word
  <2>1. /\ pc' = "idle" /\ UNCHANGED driver
        /\ UNCHANGED <<n, saved, home, slot, data_buffer, fresh>>
    BY <1>3 DEF get_root, At, NoTransfer
  <2>2. KernelType' /\ Asked'
    BY <1>1, <2>1 DEF KeptInv, KernelType, Asked, Looking, device, driver
  <2>3. ~late' => OnTime'
    BY <1>1, <1>3, <2>1
    DEF KeptInv, OnTime, ReadRight, FormatRight, SavedRight, WriteRight, Formatting, Looking,
        device, driver
  <2> QED BY <2>2, <2>3 DEF KeptInv
<1>4. CASE pc = "magic" /\ data_buffer # Word
  <2>1. /\ pc' = "clear_head" /\ n' = 1 /\ data_buffer' = {} /\ UNCHANGED driver
        /\ fresh' = (disk[0] # Word) /\ UNCHANGED <<saved, home, slot>>
    BY <1>4 DEF get_root, At, NoTransfer
  <2>2. KernelType' /\ Asked'
    BY <1>1, <2>1 DEF KeptInv, KernelType, Asked, Looking, device, driver
  <2>3. ~late' => FormatRight'
    <3>1. lba = 0
      BY <1>4 DEF KeptInv, Asked
    <3>2. disk[0] # Word => fresh'
      BY <2>1, Zenon
    <3> QED BY <1>1, <1>4, <3>1, <3>2 DEF FormatRight, Looking
  <2>4. ~late' => ReadRight' /\ SavedRight' /\ WriteRight'
    BY <1>1, <2>1
    DEF ReadRight, SavedRight, WriteRight, Formatting, Looking
  <2> QED BY <1>1, <2>2, <2>3, <2>4 DEF KeptInv, OnTime
<1> QED BY <1>2, <1>3, <1>4 DEF get_root, At

(* Formatting writes what it likes. *)
LEMMA ClearKept ==
  ASSUME KeptInv, clear_head \/ write_magic \/ clear_table
  PROVE  KeptInv'
<1>1. /\ at = "idle" /\ UNCHANGED device /\ late' = late
      /\ ~late => InStep' /\ (Lost => Lost')
  BY KernelFrame DEF Kernel, init_root
<1>2. /\ pc \in Formatting /\ pc' \in Formatting \ Looking /\ fresh' = fresh
      /\ at' = "count" /\ kind' = "write" /\ UNCHANGED <<saved, home, slot>>
  BY DEF clear_head, write_magic, clear_table, At, Transfer, Formatting, Looking
<1>3. KernelType'
  <2>1. CASE clear_head
    BY <1>1, <2>1, SizeTypes
    DEF KeptInv, KernelType, clear_head, At, Transfer, Sectors, device
  <2>2. CASE write_magic
    BY <1>1, <2>2, SizeTypes, DiskAssumption
    DEF KeptInv, KernelType, write_magic, At, Transfer, Sectors, device
  <2>3. CASE clear_table
    BY <1>1, <2>3, SizeTypes
    DEF KeptInv, KernelType, clear_table, At, Transfer, Sectors, device
  <2> QED BY <2>1, <2>2, <2>3
<1>4. Asked'
  BY <1>2 DEF Asked, Formatting, Looking
<1>5. ~late' => OnTime'
  BY <1>1, <1>2
  DEF KeptInv, OnTime, ReadRight, FormatRight, SavedRight, WriteRight, Formatting, Looking
<1> QED BY <1>3, <1>4, <1>5 DEF KeptInv

(* A flag is added to the sector that was read. *)
LEMMA FlagKept ==
  ASSUME KeptInv, set_allocation_table_flag
  PROVE  KeptInv'
<1>1. /\ at = "idle" /\ UNCHANGED device /\ late' = late
      /\ ~late => /\ InStep' /\ (Lost => Lost')
                  /\ pc \in Looking => Lost \/ (status = "ready" /\ data_buffer = disk[lba])
  BY KernelFrame DEF Kernel, init_root
<1>2. SectorOf(n) \in Sectors /\ BitOf(n) \in Bit
  <2>1. n \in Nat
    BY DEF KeptInv, KernelType
  <2>2. SectorOf(n) \in 1..(TableSectors + 1)
    BY <2>1, FlagInTable
  <2>3. n % BitsPerSector \in 0..(BitsPerSector - 1)
    BY <2>1, ModRange, SizeTypes
  <2> QED BY <2>2, <2>3, SizeTypes DEF Sectors, BitOf, Bit
<1>3. CASE pc = "read_flags"
  <2>1. /\ pc' = "set_flag" /\ at' = "count" /\ kind' = "read" /\ lba' = SectorOf(n)
        /\ UNCHANGED <<n, saved, home, slot, data_buffer, fresh>>
    BY <1>3 DEF set_allocation_table_flag, At, Transfer
  <2>2. KernelType' /\ Asked'
    BY <1>1, <1>2, <2>1 DEF KeptInv, KernelType, Asked, Looking, SectorOf, device
  <2>3. ~late' => OnTime'
    BY <1>1, <1>3, <2>1
    DEF KeptInv, OnTime, ReadRight, FormatRight, SavedRight, WriteRight, Formatting
  <2> QED BY <2>2, <2>3 DEF KeptInv
<1>4. CASE pc = "set_flag"
  <2>1. /\ pc' \in {"read_flags", "idle"} /\ n' \in Nat
        /\ at' = "count" /\ kind' = "write" /\ lba' = SectorOf(n)
        /\ data_buffer' = data_buffer \cup {BitOf(n)}
        /\ UNCHANGED <<saved, home, slot, fresh>>
    BY <1>4 DEF set_allocation_table_flag, At, Transfer, KeptInv, KernelType
  <2>2. KernelType' /\ Asked'
    BY <1>1, <1>2, <2>1 DEF KeptInv, KernelType, Asked, Looking, device
  <2>3. lba = SectorOf(n)
    BY <1>4 DEF KeptInv, Asked
  <2>4. ~late' => ReadRight' /\ FormatRight' /\ SavedRight'
    BY <1>1, <1>4, <2>1
    DEF KeptInv, OnTime, ReadRight, FormatRight, SavedRight, Formatting, Looking
  <2>5. ~late' => WriteRight'
    BY <1>1, <1>4, <2>1, <2>3 DEF WriteRight, Looking, Lost, device
  <2> QED BY <1>1, <2>2, <2>4, <2>5 DEF KeptInv, OnTime
<1> QED BY <1>3, <1>4 DEF set_allocation_table_flag, At

(* What a creation reads is what it decides on, and what it saves. *)
LEMMA CreateKept ==
  ASSUME KeptInv, Create
  PROVE  KeptInv'
<1>1. /\ at = "idle" /\ UNCHANGED device /\ late' = late
      /\ ~late => /\ InStep' /\ (Lost => Lost')
                  /\ pc \in Looking => Lost \/ (status = "ready" /\ data_buffer = disk[lba])
  BY KernelFrame DEF Kernel
<1>2. \A i \in 0..(DirSectors - 1) : Dir(i) \in Sectors
  BY EntryInDir, SizeTypes DEF Sectors
<1>3. data_buffer' = data_buffer /\ pc \in {"idle", "check", "search"}
  BY DEF Create, At
<1>4. CASE pc = "idle"
  <2>1. /\ pc' = "check" /\ n' = 0 /\ at' = "count" /\ kind' = "read" /\ lba' = Dir(0)
        /\ UNCHANGED <<saved, home, slot>> /\ fresh' = FALSE
    BY <1>4 DEF Create, At, Transfer
  <2>2. 0 \in 0..(DirSectors - 1) /\ lba' \in Sectors
    BY <1>2, <2>1, SizeTypes
  <2>3. KernelType' /\ Asked'
    BY <1>1, <1>3, <2>1, <2>2 DEF KeptInv, KernelType, Asked, Looking, device
  <2>4. ~late' => OnTime'
    BY <1>1, <1>4, <2>1
    DEF KeptInv, OnTime, ReadRight, FormatRight, SavedRight, WriteRight, Formatting, device
  <2> QED BY <2>3, <2>4 DEF KeptInv
<1>5. CASE pc = "check"
  <2>1. /\ n \in 0..(DirSectors - 1)
        /\ UNCHANGED <<saved, home, slot, fresh>>
        /\ \/ /\ pc' = "check" /\ n' = n + 1 /\ n' \in 0..(DirSectors - 1)
              /\ at' = "count" /\ kind' = "read" /\ lba' = Dir(n')
           \/ pc' = "search" /\ n' = 0 /\ at' = "count" /\ kind' = "read" /\ lba' = Dir(0)
           \/ pc' = "idle" /\ n' = 0 /\ at' = at /\ kind' = kind /\ lba' = lba
    BY <1>5, SizeTypes DEF Create, At, Transfer, NoTransfer, driver, KeptInv, KernelType
  <2>2. n' \in Nat /\ n' \in 0..(DirSectors - 1) /\ lba' \in Sectors
    BY <1>2, <2>1, SizeTypes DEF KeptInv, KernelType
  <2>3. KernelType' /\ Asked'
    BY <1>1, <1>3, <1>5, <2>1, <2>2, SizeTypes
    DEF KeptInv, KernelType, Asked, Looking, Dir, device
  <2>4. ~late' => OnTime'
    BY <1>1, <1>5, <2>1
    DEF KeptInv, OnTime, ReadRight, FormatRight, SavedRight, WriteRight, Formatting, Looking,
        device
  <2> QED BY <2>3, <2>4 DEF KeptInv
<1>6. CASE pc = "search" /\ data_buffer # Bit
  <2>1. /\ saved' = data_buffer /\ home' = n /\ slot' = FirstClear(data_buffer)
        /\ at' = "count" /\ kind' = "read" /\ lba' = 1 /\ n' = 1 /\ pc' = "allocate"
        /\ fresh' = fresh
    BY <1>6 DEF Create, At, Transfer
  <2>2. n \in 0..(DirSectors - 1) /\ lba = Dir(n) /\ slot' \in Bit /\ 1 \in Sectors
    BY <1>6, <2>1, FirstClearIsBit, SizeTypes DEF KeptInv, KernelType, Asked, Sectors
  <2>3. KernelType' /\ Asked'
    BY <1>1, <1>3, <2>1, <2>2, SizeTypes DEF KeptInv, KernelType, Asked, Looking, device
  <2>4. ~late' => SavedRight'
    BY <1>1, <1>6, <2>1, <2>2 DEF SavedRight, Looking, Dir, Lost, device
  <2>5. ~late' => ReadRight' /\ FormatRight' /\ WriteRight'
    BY <1>1, <1>6, <2>1
    DEF KeptInv, OnTime, ReadRight, FormatRight, WriteRight, Formatting, device
  <2> QED BY <1>1, <2>3, <2>4, <2>5 DEF KeptInv, OnTime
<1>7. CASE pc = "search" /\ data_buffer = Bit
  <2>1. /\ n \in 0..(DirSectors - 1)
        /\ UNCHANGED <<saved, home, slot, fresh>>
        /\ \/ /\ pc' = "search" /\ n' = n + 1 /\ n' \in 0..(DirSectors - 1)
              /\ at' = "count" /\ kind' = "read" /\ lba' = Dir(n')
           \/ pc' = "idle" /\ n' = 0 /\ at' = at /\ kind' = kind /\ lba' = lba
    BY <1>7, SizeTypes DEF Create, At, Transfer, NoTransfer, driver, KeptInv, KernelType
  <2>2. n' \in Nat /\ n' \in 0..(DirSectors - 1) /\ lba' \in Sectors
    BY <1>2, <2>1, SizeTypes DEF KeptInv, KernelType
  <2>3. KernelType' /\ Asked'
    BY <1>1, <1>3, <1>7, <2>1, <2>2, SizeTypes
    DEF KeptInv, KernelType, Asked, Looking, Dir, device
  <2>4. ~late' => OnTime'
    BY <1>1, <1>7, <2>1
    DEF KeptInv, OnTime, ReadRight, FormatRight, SavedRight, WriteRight, Formatting, Looking,
        device
  <2> QED BY <2>3, <2>4 DEF KeptInv
<1> QED BY <1>3, <1>4, <1>5, <1>6, <1>7

(* The table's sector gets a flag more; a full table gives back ones. *)
LEMMA AllocateKept ==
  ASSUME KeptInv, allocate_chunk
  PROVE  KeptInv'
<1>1. /\ at = "idle" /\ UNCHANGED device /\ late' = late
      /\ ~late => /\ InStep' /\ (Lost => Lost')
                  /\ pc \in Looking => Lost \/ (status = "ready" /\ data_buffer = disk[lba])
  BY KernelFrame DEF Kernel
<1>2. /\ pc = "allocate" /\ n \in 1..TableSectors /\ n \in Sectors /\ lba = n
      /\ UNCHANGED <<home, slot, fresh>>
  BY SizeTypes DEF allocate_chunk, At, KeptInv, KernelType, Asked, Sectors
<1>3. Dir(home) \in Sectors
  BY EntryInDir, SizeTypes DEF KeptInv, KernelType, Sectors
<1>4. CASE data_buffer # Bit
  <2>1. /\ data_buffer' = data_buffer \cup {FirstClear(data_buffer)}
        /\ at' = "count" /\ kind' = "write" /\ lba' = n
        /\ n' = 0 /\ pc' = "enter" /\ saved' = saved
    BY <1>4 DEF allocate_chunk, Transfer
  <2>2. data_buffer' \subseteq Bit
    BY <1>4, <2>1, FirstClearIsBit DEF KeptInv, KernelType
  <2>3. KernelType' /\ Asked'
    BY <1>1, <1>2, <2>1, <2>2 DEF KeptInv, KernelType, Asked, Looking, device
  <2>4. ~late' => ReadRight' /\ FormatRight' /\ SavedRight' /\ WriteRight'
    BY <1>1, <1>2, <2>1
    DEF KeptInv, OnTime, ReadRight, FormatRight, SavedRight, WriteRight, Formatting, Looking,
        Lost, Dir, device
  <2> QED BY <1>1, <2>3, <2>4 DEF KeptInv, OnTime
<1>5. CASE data_buffer = Bit /\ n < TableSectors
  <2>1. /\ data_buffer' = data_buffer /\ n' = n + 1 /\ pc' = "allocate" /\ saved' = saved
        /\ at' = "count" /\ kind' = "read" /\ lba' = n + 1
    BY <1>2, <1>5 DEF allocate_chunk, Transfer
  <2>2. n' \in 1..TableSectors /\ lba' \in Sectors
    BY <1>2, <1>5, <2>1, SizeTypes DEF Sectors
  <2>3. KernelType' /\ Asked'
    BY <1>1, <1>2, <2>1, <2>2, SizeTypes DEF KeptInv, KernelType, Asked, Looking, device
  <2>4. ~late' => ReadRight' /\ FormatRight' /\ SavedRight' /\ WriteRight'
    BY <1>1, <1>2, <2>1
    DEF KeptInv, OnTime, ReadRight, FormatRight, SavedRight, WriteRight, Formatting, Looking,
        Dir, device
  <2> QED BY <1>1, <2>3, <2>4 DEF KeptInv, OnTime
<1>6. CASE data_buffer = Bit /\ n = TableSectors
  <2>1. /\ data_buffer' = data_buffer /\ n' = 0 /\ pc' = "enter" /\ saved' = Bit
        /\ UNCHANGED driver
    BY <1>2, <1>6 DEF allocate_chunk, NoTransfer
  <2>2. KernelType' /\ Asked'
    BY <1>1, <1>2, <2>1 DEF KeptInv, KernelType, Asked, Looking, device, driver
  <2>3. disk[Dir(home)] \subseteq Bit
    BY <1>3 DEF KeptInv, KernelType
  <2>4. ~late' => ReadRight' /\ FormatRight' /\ SavedRight' /\ WriteRight'
    BY <1>1, <1>2, <2>1, <2>3
    DEF KeptInv, OnTime, ReadRight, FormatRight, SavedRight, WriteRight, Formatting, Looking,
        Dir, device, driver
  <2> QED BY <1>1, <2>2, <2>4 DEF KeptInv, OnTime
<1> QED BY <1>2, <1>4, <1>5, <1>6 DEF allocate_chunk

(* The entry is added to the sector that was read, or to ones. *)
LEMMA EnterKept ==
  ASSUME KeptInv, EnterEntry
  PROVE  KeptInv'
<1>1. /\ at = "idle" /\ UNCHANGED device /\ late' = late
      /\ ~late => InStep' /\ (Lost => Lost')
  BY KernelFrame DEF Kernel
<1>2. /\ pc = "enter" /\ pc' = "idle" /\ data_buffer' = saved \cup {slot}
      /\ at' = "count" /\ kind' = "write" /\ lba' = Dir(home)
      /\ UNCHANGED <<n, saved, home, slot, fresh>>
  BY DEF EnterEntry, At, Transfer
<1>3. Dir(home) \in Sectors /\ Dir(home) > TableSectors
  BY EntryInDir, SizeTypes DEF KeptInv, KernelType, Sectors
<1>4. KernelType' /\ Asked'
  BY <1>1, <1>2, <1>3 DEF KeptInv, KernelType, Asked, Looking, device
<1>5. ~late' => ReadRight' /\ FormatRight' /\ SavedRight'
  BY <1>1, <1>2 DEF ReadRight, FormatRight, SavedRight, Formatting, Looking
<1>6. ~late' => WriteRight'
  <2>1. lba \in 1..TableSectors /\ ~(lba = Dir(home))
    BY <1>2, <1>3, SizeTypes DEF KeptInv, Asked
  <2> QED BY <1>1, <1>2, <2>1
      DEF KeptInv, OnTime, SavedRight, WriteRight, Formatting, Lost, device
<1> QED BY <1>1, <1>4, <1>5, <1>6 DEF KeptInv, OnTime
-----------------------------------------------------------------------------
LEMMA NextKept ==
  ASSUME KeptInv, [Next]_vars
  PROVE  /\ KeptInv'
         /\ ~late /\ pc \notin Formatting => Added
<1>1. CASE Finish
  BY <1>1, FinishKept
<1>2. ASSUME KeptInv', disk' = disk
      PROVE  KeptInv' /\ Added
  BY <1>2 DEF Added
<1>3. CASE Driver
  <2>1. disk' = disk
    BY <1>3, DriverFrame
  <2> QED BY <1>2, <1>3, <2>1, PortsKept, WaitKept, ReadKept, WriteKept DEF Driver
<1>4. CASE Kernel
  <2>1. disk' = disk
    BY <1>4, KernelFrame DEF device
  <2> QED BY <1>2, <1>4, <2>1, GetRootKept, ClearKept, FlagKept, CreateKept, AllocateKept,
             EnterKept DEF Kernel, init_root
<1>5. CASE Reboot
  BY <1>2, <1>5, RebootKept
<1>6. CASE UNCHANGED vars
  <2>1. KernelType' /\ Asked'
    BY <1>6 DEF vars, device, driver, kernel, history, KeptInv, KernelType, Asked, SectorOf, Dir
  <2>2. ~late' => InStep' /\ ReadRight' /\ FormatRight' /\ SavedRight' /\ WriteRight'
    BY <1>6
    DEF vars, device, driver, kernel, history, KeptInv, OnTime, InStep, ReadRight,
        FormatRight, SavedRight, WriteRight, Lost, Dir
  <2>3. disk' = disk
    BY <1>6 DEF vars, device
  <2> QED BY <1>2, <2>1, <2>2, <2>3, <1>6 DEF KeptInv, OnTime
<1> QED BY <1>1, <1>3, <1>4, <1>5, <1>6 DEF Next

(* Nothing on a formatted disk is lost unless a command outlasts the sleep that
   begins the next one: a read that failed, and of which the callers are not
   told (fs_driver.c:162-172), leaves the disk with a sector to fetch, and such
   a disk takes no write, the formatting's included. *)
THEOREM DiskIsKept == Spec => DiskKept
<1>1. ASSUME KeptInv, [Next]_vars
      PROVE  [disk[0] = Word /\ ~fresh /\ ~late =>
                \A s \in Sectors : disk[s] \subseteq disk'[s]]_vars
  <2>1. CASE ~late /\ ~fresh /\ pc \in Formatting
    <3>1. Lost
      BY <1>1, <2>1 DEF KeptInv, OnTime, FormatRight
    <3>2. status # "busy_write"
      BY <3>1 DEF Lost
    <3>3. disk' = disk
      <4>1. CASE Finish
        BY <3>2, <4>1 DEF Finish
      <4>2. CASE Driver
        BY <1>1, <4>2, DriverFrame
      <4>3. CASE Kernel
        BY <1>1, <4>3, KernelFrame DEF device
      <4>4. CASE Reboot
        BY <1>1, <4>4, RebootKept
      <4>5. CASE UNCHANGED vars
        BY <4>5 DEF vars, device
      <4> QED BY <1>1, <4>1, <4>2, <4>3, <4>4, <4>5 DEF Next
    <3> QED BY <3>3
  <2>2. CASE ~late /\ pc \notin Formatting
    BY <1>1, <2>2, NextKept DEF Added
  <2> QED BY <2>1, <2>2
<1>2. KeptInv /\ [Next]_vars => KeptInv'
  BY NextKept
<1> QED BY <1>1, <1>2, InitKept, PTL DEF Spec, DiskKept
-----------------------------------------------------------------------------
(***************************************************************************)
(* The types of what the invariant says nothing of.                        *)
(***************************************************************************)
RestType ==
  /\ reg_lba \in 0..(TableSectors + DirSectors + 1)
  /\ reg_count \in {0, 1}
  /\ many \in BOOLEAN
  /\ tries \in 0..(Retries - 1)
  /\ pc \in Phases
  /\ n <= TableSectors + DirSectors + Reserved
  /\ pc \in {"read_flags", "set_flag"} => n <= Reserved - 1
  /\ reboots \in 0..MaxReboots

LEMMA BoundTypes ==
  /\ Retries \in Nat /\ Retries > 0 /\ MaxReboots \in Nat
  /\ Reserved \in Nat /\ Reserved > 0
  BY DiskAssumption, SizeTypes

LEMMA InitRest == Init => RestType
<1> SUFFICES ASSUME Init PROVE RestType
  OBVIOUS
<1>1. reg_lba = 1 /\ reg_count = 1 /\ many = FALSE /\ tries = 0 /\ pc = "root" /\ n = 0
      /\ reboots = 0
  BY DEF Init
<1>2. many \in BOOLEAN
  BY <1>1
<1> QED BY <1>1, <1>2, SizeTypes, BoundTypes DEF RestType, Phases

LEMMA DriverRest ==
  ASSUME KernelType, RestType, Driver
  PROVE  RestType'
<1> USE SizeTypes, BoundTypes DEF KernelType, RestType, Sectors, kernel, history, device
<1>1. CASE outb_count
  BY <1>1 DEF outb_count, Port
<1>2. CASE outb_lba
  BY <1>2 DEF outb_lba, Port
<1>3. CASE outb_command
  <2>1. UNCHANGED <<reg_lba, reg_count, tries, pc, n, reboots>>
    BY <1>3 DEF outb_command
  <2>2. many' \in BOOLEAN
    BY <1>3 DEF outb_command
  <2> QED BY <2>1, <2>2
<1>4. CASE wait_for_disk
  BY <1>4 DEF wait_for_disk
<1>5. CASE read_data
  BY <1>5 DEF read_data, Counted
<1>6. CASE write_data
  BY <1>6 DEF write_data
<1> QED BY <1>1, <1>2, <1>3, <1>4, <1>5, <1>6 DEF Driver

LEMMA KernelRest ==
  ASSUME KernelType, RestType, Kernel
  PROVE  RestType'
<1> USE SizeTypes, BoundTypes
    DEF KernelType, RestType, Phases, At, Transfer, NoTransfer, driver, device
<1>1. CASE get_root
  BY <1>1 DEF get_root
<1>2. CASE clear_head
  BY <1>2 DEF clear_head
<1>3. CASE write_magic
  BY <1>3 DEF write_magic
<1>4. CASE clear_table
  BY <1>4 DEF clear_table
<1>5. CASE set_allocation_table_flag
  BY <1>5 DEF set_allocation_table_flag
<1>6. CASE Create
  BY <1>6 DEF Create
<1>7. CASE allocate_chunk
  BY <1>7 DEF allocate_chunk
<1>8. CASE EnterEntry
  BY <1>8 DEF EnterEntry
<1> QED BY <1>1, <1>2, <1>3, <1>4, <1>5, <1>6, <1>7, <1>8 DEF Kernel, init_root

LEMMA NextRest == KernelType /\ RestType /\ [Next]_vars => RestType'
<1> SUFFICES ASSUME KernelType, RestType, [Next]_vars PROVE RestType'
  OBVIOUS
<1>1. CASE Finish
  BY <1>1, SizeTypes
  DEF Finish, Counted, RestType, driver, kernel, history, Sectors
<1>2. CASE Driver
  BY <1>2, DriverRest
<1>3. CASE Kernel
  BY <1>3, KernelRest
<1>4. CASE Reboot
  <2>1. reg_lba' = 1 /\ reg_count' = 1 /\ many' = FALSE /\ tries' = 0 /\ pc' = "root" /\ n' = 0
        /\ reboots < MaxReboots /\ reboots' = reboots + 1
    BY <1>4 DEF Reboot
  <2>2. many' \in BOOLEAN
    BY <2>1
  <2> QED BY <2>1, <2>2, SizeTypes, BoundTypes DEF RestType, Phases
<1>5. CASE UNCHANGED vars
  BY <1>5 DEF vars, device, driver, kernel, history, RestType
<1> QED BY <1>1, <1>2, <1>3, <1>4, <1>5 DEF Next

(* Every variable keeps its type: no transfer is asked for outside the disk,
   and no loop leaves its range, whenever the disk answers and whatever was
   read from the wrong sector (fs_driver.c:110-207, 227-339). *)
THEOREM TypeCorrect == Spec => []TypeOK
<1>1. KeptInv /\ RestType => TypeOK
  <2> SUFFICES ASSUME KeptInv, RestType PROVE TypeOK
    OBVIOUS
  <2>1. n \in 0..(TableSectors + DirSectors + Reserved)
    BY SizeTypes, BoundTypes DEF KeptInv, KernelType, RestType
  <2>2. latch \in SUBSET Bit /\ data_buffer \in SUBSET Bit /\ saved \in SUBSET Bit
    BY DEF KeptInv, KernelType
  <2> QED BY <2>1, <2>2 DEF TypeOK, KeptInv, KernelType, RestType
<1>2. KeptInv /\ [Next]_vars => KeptInv'
  BY NextKept
<1>3. KeptInv => KernelType
  BY DEF KeptInv
<1> QED BY InitKept, InitRest, NextRest, <1>1, <1>2, <1>3, PTL DEF Spec
=============================================================================
