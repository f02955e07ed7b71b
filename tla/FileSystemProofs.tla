-------------------------- MODULE FileSystemProofs --------------------------
(***************************************************************************)
(* Theorems about module FileSystem, for every geometry, every set of      *)
(* names and every number of crashes.                                      *)
(***************************************************************************)
EXTENDS FileSystem, TLAPS

(* The flag of a chunk is a flag of a sector. *)
LEMMA FlagInRange ==
  ASSUME NEW a \in Nat
  PROVE  atla_to_sbf(a).flag \in Flag
<1>1. FlagsPerSector \in Nat /\ FlagsPerSector > 0
  BY GeometryAssumption
<1>2. \A m \in Nat : m > 0 => a % m \in 0..(m - 1)
  BY SMT
<1> QED BY <1>1, <1>2 DEF atla_to_sbf, Flag

(* The address of a flag is that of a chunk: the sector's flags come after
   those of the sectors before it. *)
LEMMA ChunkInRange ==
  ASSUME NEW s \in TableLba, NEW f \in Flag
  PROVE  sbf_to_atla(s, f) \in Chunk
<1>1. FlagsPerSector \in Nat /\ TableSectors \in Nat
  BY GeometryAssumption
<1>2. s \in Nat /\ s - 1 >= 0 /\ TableSectors - s >= 0 /\ f \in Nat /\ f <= FlagsPerSector - 1
  BY <1>1 DEF TableLba, Flag
<1>3. (s - 1) * FlagsPerSector >= 0
  BY <1>1, <1>2
<1>4. (TableSectors - s) * FlagsPerSector >= 0
  BY <1>1, <1>2
<1>5. (TableSectors - s) * FlagsPerSector
        = TableSectors * FlagsPerSector - (s - 1) * FlagsPerSector - FlagsPerSector
  BY <1>1, <1>2
<1> DEFINE P == (s - 1) * FlagsPerSector
           Q == TableSectors * FlagsPerSector
           R == (TableSectors - s) * FlagsPerSector
<1>6. P \in Int /\ Q \in Int /\ R \in Int
  BY <1>1, <1>2
<1>7. P >= 0 /\ R >= 0 /\ R = Q - P - FlagsPerSector
  BY <1>3, <1>4, <1>5
<1>8. P + f \in 0..(Q - 1)
  <2> HIDE DEF P, Q, R
  <2> QED BY <1>1, <1>2, <1>6, <1>7
<1> QED BY <1>8 DEF sbf_to_atla, Chunk

(* Distinct flags have distinct addresses. *)
LEMMA ChunkInjective ==
  ASSUME NEW s \in TableLba, NEW f \in Flag,
         NEW t \in TableLba, NEW g \in Flag,
         sbf_to_atla(s, f) = sbf_to_atla(t, g)
  PROVE  s = t /\ f = g
<1>1. FlagsPerSector \in Nat /\ FlagsPerSector > 0 /\ TableSectors \in Nat
  BY GeometryAssumption
<1>2. s \in Nat /\ t \in Nat /\ f \in Nat /\ g \in Nat
      /\ f <= FlagsPerSector - 1 /\ g <= FlagsPerSector - 1
  BY <1>1 DEF TableLba, Flag
<1>3. (s - 1) * FlagsPerSector + f = (t - 1) * FlagsPerSector + g
  BY DEF sbf_to_atla
<1>4. (s - t) * FlagsPerSector = g - f
  BY <1>1, <1>2, <1>3
<1>5. ~(s - t >= 1)
  <2> SUFFICES ASSUME s - t >= 1 PROVE FALSE
    OBVIOUS
  <2>1. (s - t) * FlagsPerSector >= FlagsPerSector
    BY <1>1, <1>2
  <2> QED BY <1>1, <1>2, <1>4, <2>1
<1>6. ~(t - s >= 1)
  <2> SUFFICES ASSUME t - s >= 1 PROVE FALSE
    OBVIOUS
  <2>1. (t - s) * FlagsPerSector >= FlagsPerSector
    BY <1>1, <1>2
  <2>2. (t - s) * FlagsPerSector = f - g
    BY <1>1, <1>2, <1>4
  <2> QED BY <1>1, <1>2, <2>1, <2>2
<1>7. s = t
  BY <1>2, <1>5, <1>6
<1> QED BY <1>1, <1>2, <1>3, <1>7

(* The only slot the duplicate check leaves out is the last one. *)
LEMMA UncheckedIsLast ==
  ASSUME NEW i \in Sector, NEW j \in Slot, <<i, j>> \notin CheckedSlots
  PROVE  i = DirSectors - 1 /\ j = EntriesPerSector - 1
<1>1. DirSectors \in Nat /\ EntriesPerSector \in Nat /\ EntriesPerSector > 0
  BY GeometryAssumption
<1>2. i \in Nat /\ j \in Nat /\ i <= DirSectors - 1 /\ j <= EntriesPerSector - 1
  BY <1>1 DEF Sector, Slot
<1>3. i * EntriesPerSector + j >= DirSectors * EntriesPerSector - 1
  BY <1>1, <1>2 DEF CheckedSlots
<1>4. (DirSectors - i) * EntriesPerSector = DirSectors * EntriesPerSector - i * EntriesPerSector
  BY <1>1, <1>2
<1>5. (DirSectors - i) * EntriesPerSector <= j + 1
  BY <1>1, <1>2, <1>3, <1>4
<1>6. ~(DirSectors - i >= 2)
  <2> SUFFICES ASSUME DirSectors - i >= 2 PROVE FALSE
    OBVIOUS
  <2>1. (DirSectors - i) * EntriesPerSector >= 2 * EntriesPerSector
    BY <1>1, <1>2
  <2> QED BY <1>1, <1>2, <1>5, <2>1
<1>7. DirSectors - i = 1
  BY <1>1, <1>2, <1>6
<1>8. EntriesPerSector <= j + 1
  BY <1>1, <1>5, <1>7
<1> QED BY <1>1, <1>2, <1>7, <1>8
-----------------------------------------------------------------------------
(***************************************************************************)
(* Type correctness.                                                       *)
(***************************************************************************)

(* What the driver writes when it clears a sector, or finds its table full,
   are entries. *)
LEMMA SectorTypes ==
  /\ ZeroEntry \in Entry
  /\ OnesEntry \in Entry
  /\ ZeroSector \in [Slot -> Entry]
  /\ OnesSector \in [Slot -> Entry]
  /\ NoCall \in Call
<1>1. 0 \in Chunk
  <2> DEFINE Q == TableSectors * FlagsPerSector
  <2>1. Q \in Int /\ Q >= 1
    BY GeometryAssumption
  <2> QED BY <2>1 DEF Chunk
<1>2. 0 \in Sector /\ 0 \in Slot
  BY GeometryAssumption DEF Sector, Slot
<1>3. ZeroEntry \in Entry /\ OnesEntry \in Entry
  BY <1>1 DEF ZeroEntry, OnesEntry, Entry, FILE, FOLDER
<1> QED BY <1>2, <1>3 DEF ZeroSector, OnesSector, NoCall, Call, FILE, FOLDER

LEMMA InitType == Init => TypeOK
<1> SUFFICES ASSUME Init PROVE TypeOK
  OBVIOUS
<1>1. dir \in [Sector -> [Slot -> Entry]]
  <2>1. PICK stale \in SUBSET (Sector \X Slot) :
          dir = [i \in Sector |-> [j \in Slot |->
                   IF <<i, j>> \in stale THEN OnesEntry ELSE ZeroEntry]]
    BY DEF Init
  <2> QED BY <2>1, SectorTypes
<1>2. table \in [TableLba -> SUBSET Flag]
  BY DEF Init
<1>3. crashes \in 0..MaxCrashes
  BY EnvironmentAssumption DEF Init
<1>4. pc \in Phases /\ n \in Nat /\ magic \in BOOLEAN /\ chunk \in Chunk \cup {NoChunk}
      /\ torn \in BOOLEAN
  BY DEF Init, Phases
<1>5. data_buffer \in [Slot -> Entry] /\ call \in Call
  BY SectorTypes DEF Init
<1> QED BY <1>1, <1>2, <1>3, <1>4, <1>5 DEF TypeOK

LEMMA NextType == TypeOK /\ [Next]_vars => TypeOK'
<1> SUFFICES ASSUME TypeOK, [Next]_vars PROVE TypeOK'
  OBVIOUS
<1> USE DEF Phases, Formatting, Creating
<1>1. CASE get_root
  BY <1>1 DEF TypeOK, get_root
<1>w. ASSUME NEW lba \in Nat, WriteZeros(lba)
      PROVE  /\ table' \in [TableLba -> SUBSET Flag]
             /\ dir' \in [Sector -> [Slot -> Entry]]
  BY <1>w, SectorTypes DEF TypeOK, WriteZeros
<1>2. CASE clear_head
  BY <1>2, <1>w DEF TypeOK, clear_head
<1>3. CASE write_magic
  BY <1>3 DEF TypeOK, write_magic
<1>4. CASE clear_table
  BY <1>4, <1>w DEF TypeOK, clear_table
<1>5. CASE set_flags
  <2>1. table' \in [TableLba -> SUBSET Flag]
    BY <1>5, FlagInRange DEF TypeOK, set_flags, set_allocation_table_flag
  <2> QED BY <1>5, <2>1 DEF TypeOK, set_flags
<1>6. ASSUME NEW type \in {FILE, FOLDER}, NEW name \in Names, Create(type, name)
      PROVE  TypeOK'
  <2>1. DirSectors - 1 \in Sector
    BY GeometryAssumption DEF Sector
  <2>2. data_buffer' \in [Slot -> Entry]
    BY <1>6, <2>1 DEF TypeOK, Create
  <2>3. call' \in Call
    BY <1>6 DEF TypeOK, Create, Call
  <2> QED BY <1>6, <2>2, <2>3 DEF TypeOK, Create
<1>7. CASE allocate_chunk
  <2>1. chunk' \in Chunk \cup {NoChunk}
    BY <1>7, ChunkInRange DEF allocate_chunk
  <2>2. table' \in [TableLba -> SUBSET Flag]
    BY <1>7 DEF TypeOK, allocate_chunk
  <2> QED BY <1>7, <2>1, <2>2, SectorTypes DEF TypeOK, allocate_chunk
<1>8. CASE EnterEntry
  <2>1. NewEntry \in Entry
    BY DEF TypeOK, NewEntry, Entry, Call
  <2>2. [data_buffer EXCEPT ![call.slot] = NewEntry] \in [Slot -> Entry]
    BY <2>1 DEF TypeOK
  <2>3. dir' \in [Sector -> [Slot -> Entry]]
    BY <1>8, <2>2 DEF TypeOK, EnterEntry
  <2> QED BY <1>8, <2>2, <2>3, SectorTypes DEF TypeOK, EnterEntry
<1>9. CASE Crash
  BY <1>9, SectorTypes, EnvironmentAssumption DEF TypeOK, Crash, disk
<1>10. CASE UNCHANGED vars
  BY <1>10 DEF TypeOK, vars
<1> QED BY <1>1, <1>2, <1>3, <1>4, <1>5, <1>6, <1>7, <1>8, <1>9, <1>10
        DEF Next, Kernel, init_root, create_directory, create_file

(* Every variable keeps its type: whatever is allocated is a chunk of the
   table (fs_driver.c:221-225), and whatever is written is an entry. *)
THEOREM TypeCorrect == Spec => []TypeOK
<1> QED BY InitType, NextType, PTL DEF Spec
-----------------------------------------------------------------------------
(***************************************************************************)
(* Names are unique.                                                       *)
(*                                                                         *)
(* The duplicate check leaves the last slot out.  What saves it is that    *)
(* the slots fill in order: the last one is in use only when no slot is    *)
(* free.  This needs a directory that was empty when the disk was          *)
(* formatted, and a disk that is formatted once.                           *)
(***************************************************************************)
Before(k, l, i, j) == k < i \/ (k = i /\ l < j)

SlotsInOrder ==
  \A i, k \in Sector, j, l \in Slot :
    Present(i, j) /\ Before(k, l, i, j) => Present(k, l)

EmptyUntilFormatted ==
  ~magic \/ pc \in Formatting => \A i \in Sector, j \in Slot : ~Present(i, j)

FormattedBeforeUse ==
  pc \in {"clear_table", "set_flags", "idle"} \cup Creating => magic

(* The slot and the key of a creation are still free when it is written. *)
CallStillFree ==
  pc \in Creating =>
    /\ FirstFree(call.sector, call.slot)
    /\ check_repeat_file_or_directory_name(call.type, call.name)

BufferIsSector ==
  /\ pc = "allocate" => data_buffer = dir[call.sector]
  /\ pc = "enter" => data_buffer = dir[call.sector] \/ data_buffer = OnesSector

NamesInv ==
  /\ TypeOK
  /\ SlotsInOrder
  /\ EmptyUntilFormatted
  /\ FormattedBeforeUse
  /\ CallStillFree
  /\ BufferIsSector
  /\ NamesUnique

LEMMA InitNames ==
  ASSUME BlankImage
  PROVE  Init => NamesInv
<1> SUFFICES ASSUME Init PROVE NamesInv
  OBVIOUS
<1>1. TypeOK
  BY InitType
<1>2. \A i \in Sector, j \in Slot : ~Present(i, j)
  <2>1. dir = [i \in Sector |-> [j \in Slot |-> ZeroEntry]]
    BY DEF Init
  <2> QED BY <2>1 DEF Present, ZeroEntry
<1>3. pc = "boot"
  BY DEF Init
<1> QED BY <1>1, <1>2, <1>3
        DEF NamesInv, SlotsInOrder, EmptyUntilFormatted, FormattedBeforeUse,
            CallStillFree, BufferIsSector, NamesUnique, Creating

(* No slot holds the key of the creation in progress, the last included. *)
LEMMA KeyIsFree ==
  ASSUME NamesInv, pc \in Creating, NEW k \in Sector, NEW l \in Slot,
         Present(k, l), dir[k][l].type = call.type, dir[k][l].name = call.name
  PROVE  FALSE
<1>1. call.sector \in Sector /\ call.slot \in Slot
  BY DEF NamesInv, TypeOK, Call
<1>2. <<k, l>> \notin CheckedSlots
  BY DEF NamesInv, CallStillFree, check_repeat_file_or_directory_name, Present
<1>3. k = DirSectors - 1 /\ l = EntriesPerSector - 1
  BY <1>2, UncheckedIsLast
<1>4. ~Present(call.sector, call.slot)
  BY DEF NamesInv, CallStillFree, FirstFree
<1>5. Before(call.sector, call.slot, k, l)
  <2>1. <<call.sector, call.slot>> # <<k, l>>
    BY <1>4
  <2>2. /\ DirSectors \in Nat /\ EntriesPerSector \in Nat
        /\ call.sector \in Nat /\ call.sector <= DirSectors - 1
        /\ call.slot \in Nat /\ call.slot <= EntriesPerSector - 1
    BY <1>1, GeometryAssumption DEF Sector, Slot
  <2> QED BY <1>3, <2>1, <2>2 DEF Before
<1> QED BY <1>1, <1>4, <1>5 DEF NamesInv, SlotsInOrder

(* What the write of an entry does to each slot. *)
LEMMA EnteredSlots ==
  ASSUME NamesInv, EnterEntry
  PROVE  /\ call.sector \in Sector /\ call.slot \in Slot
         /\ dir'[call.sector][call.slot] = NewEntry
         /\ \A i \in Sector, j \in Slot :
              <<i, j>> # <<call.sector, call.slot>> =>
                \/ dir'[i][j] = dir[i][j]
                \/ /\ i = call.sector
                   /\ data_buffer = OnesSector
                   /\ dir'[i][j] = OnesEntry
<1>1. call.sector \in Sector /\ call.slot \in Slot
  BY DEF NamesInv, TypeOK, Call
<1>2. data_buffer = dir[call.sector] \/ data_buffer = OnesSector
  BY DEF NamesInv, BufferIsSector, EnterEntry
<1>3. \A i \in Sector : i # call.sector => dir'[i] = dir[i]
  BY <1>1 DEF EnterEntry, NamesInv, TypeOK
<1>4. dir'[call.sector] = [data_buffer EXCEPT ![call.slot] = NewEntry]
  BY <1>1 DEF EnterEntry, NamesInv, TypeOK
<1>5. data_buffer \in [Slot -> Entry]
  BY DEF NamesInv, TypeOK
<1>6. dir'[call.sector][call.slot] = NewEntry
  BY <1>1, <1>4, <1>5
<1>7. \A j \in Slot : j # call.slot => dir'[call.sector][j] = data_buffer[j]
  BY <1>1, <1>4, <1>5
<1>8. \A j \in Slot : OnesSector[j] = OnesEntry
  BY DEF OnesSector
<1> QED BY <1>1, <1>2, <1>3, <1>6, <1>7, <1>8

LEMMA EnterKeepsNames ==
  ASSUME NamesInv, EnterEntry
  PROVE  SlotsInOrder' /\ NamesUnique'
<1> DEFINE cs == call.sector
           cl == call.slot
<1>1. cs \in Sector /\ cl \in Slot
  BY EnteredSlots
<1>2. FirstFree(cs, cl)
  BY DEF NamesInv, CallStillFree, EnterEntry, Creating
<1>3. NewEntry.present = 1 /\ OnesEntry.present = 1 /\ OnesEntry.name = Ones
  BY DEF NewEntry, OnesEntry
<1>4. NewEntry.type = call.type /\ NewEntry.name = call.name
  BY DEF NewEntry
<1>5. \A i \in Sector, j \in Slot : Present(i, j) => Present(i, j)'
  BY <1>3, EnteredSlots DEF Present
<1>6. SlotsInOrder'
  <2> SUFFICES ASSUME NEW i \in Sector, NEW k \in Sector, NEW j \in Slot, NEW l \in Slot,
                      Present(i, j)', Before(k, l, i, j)
               PROVE  Present(k, l)'
    BY DEF SlotsInOrder, Before
  <2>1. CASE <<i, j>> = <<cs, cl>>
    <3>1. Present(k, l)
      BY <1>2, <2>1 DEF FirstFree, Before
    <3> QED BY <1>5, <3>1
  <2>2. CASE <<i, j>> # <<cs, cl>> /\ dir'[i][j] = dir[i][j]
    <3>1. Present(k, l)
      BY <2>2 DEF Present, NamesInv, SlotsInOrder
    <3> QED BY <1>5, <3>1
  <2>3. CASE <<i, j>> # <<cs, cl>> /\ i = cs /\ data_buffer = OnesSector
    <3>1. CASE k < i
      BY <1>2, <1>5, <2>3, <3>1 DEF FirstFree
    <3>2. CASE k = i /\ l = cl
      BY <1>3, <2>3, <3>2, EnteredSlots DEF Present
    <3>3. CASE k = i /\ l # cl
      <4>1. dir'[cs][l] = data_buffer[l]
        <5>1. dir'[cs] = [data_buffer EXCEPT ![cl] = NewEntry]
          BY <1>1 DEF EnterEntry, NamesInv, TypeOK
        <5> QED BY <3>3, <5>1 DEF NamesInv, TypeOK
      <4> QED BY <1>3, <2>3, <3>3, <4>1 DEF Present, OnesSector
    <3> QED BY <3>1, <3>2, <3>3 DEF Before
  <2> QED BY <2>1, <2>2, <2>3, EnteredSlots
<1>7. NamesUnique'
  <2> SUFFICES ASSUME NEW i \in Sector, NEW k \in Sector, NEW j \in Slot, NEW l \in Slot,
                      Present(i, j)', Present(k, l)',
                      dir'[i][j].name = dir'[k][l].name, dir'[i][j].name # Ones,
                      dir'[i][j].type = dir'[k][l].type
               PROVE  i = k /\ j = l
    BY DEF NamesUnique
  <2>1. <<i, j>> = <<cs, cl>> \/ dir'[i][j] = dir[i][j]
    BY <1>3, EnteredSlots
  <2>2. <<k, l>> = <<cs, cl>> \/ dir'[k][l] = dir[k][l]
    BY <1>3, EnteredSlots
  <2>3. pc \in Creating
    BY DEF EnterEntry, Creating
  <2>4. CASE <<i, j>> = <<cs, cl>> /\ <<k, l>> # <<cs, cl>>
    <3>1. Present(k, l) /\ dir[k][l].type = call.type /\ dir[k][l].name = call.name
      BY <1>4, <2>2, <2>4, EnteredSlots DEF Present
    <3> QED BY <2>3, <3>1, KeyIsFree
  <2>5. CASE <<i, j>> # <<cs, cl>> /\ <<k, l>> = <<cs, cl>>
    <3>1. Present(i, j) /\ dir[i][j].type = call.type /\ dir[i][j].name = call.name
      BY <1>4, <2>1, <2>5, EnteredSlots DEF Present
    <3> QED BY <2>3, <3>1, KeyIsFree
  <2>6. CASE <<i, j>> # <<cs, cl>> /\ <<k, l>> # <<cs, cl>>
    <3>1. dir'[i][j] = dir[i][j] /\ dir'[k][l] = dir[k][l]
      BY <2>1, <2>2, <2>6
    <3> QED BY <3>1 DEF NamesInv, NamesUnique, Present
  <2> QED BY <2>4, <2>5, <2>6
<1> QED BY <1>6, <1>7

(* A step of init_root happens on an empty directory and leaves it empty. *)
LEMMA FormatKeepsEmpty ==
  ASSUME NamesInv, init_root
  PROVE  \A i \in Sector, j \in Slot : ~Present(i, j)'
<1>1. \A i \in Sector, j \in Slot : ~Present(i, j)
  BY DEF NamesInv, EmptyUntilFormatted, init_root, clear_head, write_magic,
         clear_table, set_flags, Formatting
<1>2. \A i \in Sector : dir'[i] = dir[i] \/ dir'[i] = ZeroSector
  BY DEF NamesInv, TypeOK, init_root, clear_head, write_magic, clear_table,
         set_flags, WriteZeros
<1>3. \A j \in Slot : ZeroSector[j].present = 0
  BY DEF ZeroSector, ZeroEntry
<1> QED BY <1>1, <1>2, <1>3 DEF Present

LEMMA NextNames ==
  ASSUME ~RootReadMayFail
  PROVE  NamesInv /\ [Next]_vars => NamesInv'
<1> SUFFICES ASSUME NamesInv, [Next]_vars PROVE NamesInv'
  OBVIOUS
<1>0. TypeOK'
  BY NextType DEF NamesInv
<1> USE DEF Formatting, Creating
<1>s. ASSUME dir' = dir PROVE SlotsInOrder' /\ NamesUnique'
  BY <1>s DEF NamesInv, SlotsInOrder, NamesUnique, Present
<1>1. CASE get_root
  <2>1. EmptyUntilFormatted'
    BY <1>1 DEF NamesInv, EmptyUntilFormatted, get_root, Present
  <2> QED BY <1>0, <1>1, <1>s, <2>1
          DEF NamesInv, get_root, FormattedBeforeUse, CallStillFree, BufferIsSector
<1>2. CASE init_root
  <2>1. \A i \in Sector, j \in Slot : ~Present(i, j)'
    BY <1>2, FormatKeepsEmpty
  <2>2. SlotsInOrder' /\ NamesUnique' /\ EmptyUntilFormatted'
    BY <2>1 DEF SlotsInOrder, NamesUnique, EmptyUntilFormatted
  <2>3. pc' \notin {"allocate", "enter"}
    BY <1>2 DEF init_root, clear_head, write_magic, clear_table, set_flags
  <2>4. FormattedBeforeUse'
    BY <1>2 DEF NamesInv, FormattedBeforeUse, init_root, clear_head, write_magic,
                clear_table, set_flags
  <2> QED BY <1>0, <2>2, <2>3, <2>4 DEF NamesInv, CallStillFree, BufferIsSector
<1>3. ASSUME NEW type \in {FILE, FOLDER}, NEW name \in Names, Create(type, name)
      PROVE  NamesInv'
  <2>1. dir' = dir /\ magic' = magic /\ pc = "idle" /\ pc' \in {"idle", "allocate"}
    BY <1>3 DEF Create
  <2>2. EmptyUntilFormatted' /\ FormattedBeforeUse'
    BY <2>1 DEF NamesInv, EmptyUntilFormatted, FormattedBeforeUse, Present
  <2>3. CASE pc' = "idle"
    BY <1>0, <1>s, <2>1, <2>2, <2>3 DEF NamesInv, CallStillFree, BufferIsSector
  <2>4. CASE pc' = "allocate"
    <3>1. PICK i \in Sector, j \in Slot :
            /\ FirstFree(i, j)
            /\ data_buffer' = dir[i]
            /\ call' = [type |-> type, name |-> name, sector |-> i, slot |-> j]
      BY <1>3, <2>1, <2>4 DEF Create
    <3>2. check_repeat_file_or_directory_name(type, name)
      BY <1>3, <2>1, <2>4 DEF Create
    <3>3. CallStillFree'
      BY <2>1, <3>1, <3>2 DEF CallStillFree, FirstFree, Present,
                              check_repeat_file_or_directory_name
    <3>4. BufferIsSector'
      BY <2>1, <2>4, <3>1 DEF BufferIsSector
    <3> QED BY <1>0, <1>s, <2>1, <2>2, <3>3, <3>4 DEF NamesInv
  <2> QED BY <2>1, <2>3, <2>4
<1>4. CASE allocate_chunk
  <2>1. /\ dir' = dir /\ magic' = magic /\ call' = call
        /\ pc = "allocate" /\ pc' = "enter"
        /\ data_buffer' = data_buffer \/ data_buffer' = OnesSector
    BY <1>4 DEF allocate_chunk
  <2>2. EmptyUntilFormatted' /\ FormattedBeforeUse'
    BY <2>1 DEF NamesInv, EmptyUntilFormatted, FormattedBeforeUse, Present
  <2>3. CallStillFree'
    BY <2>1 DEF NamesInv, CallStillFree, FirstFree, Present,
                check_repeat_file_or_directory_name
  <2>4. BufferIsSector'
    BY <2>1 DEF NamesInv, BufferIsSector
  <2> QED BY <1>0, <1>s, <2>1, <2>2, <2>3, <2>4 DEF NamesInv
<1>5. CASE EnterEntry
  <2>1. pc = "enter" /\ pc' = "idle" /\ magic' = magic
    BY <1>5 DEF EnterEntry
  <2>2. SlotsInOrder' /\ NamesUnique'
    BY <1>5, EnterKeepsNames
  <2>3. magic'
    BY <2>1 DEF NamesInv, FormattedBeforeUse
  <2> QED BY <1>0, <2>1, <2>2, <2>3
          DEF NamesInv, EmptyUntilFormatted, FormattedBeforeUse, CallStillFree,
              BufferIsSector
<1>6. CASE Crash
  <2>1. dir' = dir /\ magic' = magic /\ pc' = "boot"
    BY <1>6 DEF Crash, disk
  <2>2. EmptyUntilFormatted'
    BY <2>1 DEF NamesInv, EmptyUntilFormatted, Present
  <2> QED BY <1>0, <1>s, <2>1, <2>2
          DEF NamesInv, FormattedBeforeUse, CallStillFree, BufferIsSector
<1>7. CASE UNCHANGED vars
  BY <1>0, <1>7 DEF NamesInv, vars, SlotsInOrder, EmptyUntilFormatted,
       FormattedBeforeUse, CallStillFree, BufferIsSector, NamesUnique, Present,
       FirstFree, check_repeat_file_or_directory_name
<1> QED BY <1>1, <1>2, <1>3, <1>4, <1>5, <1>6, <1>7
        DEF Next, Kernel, create_directory, create_file

(* No two entries of the root directory have the same type and name, for
   every geometry and every pattern of crashes, with the table full or not,
   although check_repeat_file_or_directory_name stops one slot short
   (fs_driver.c:379): on an image that was blank, and whose first sector
   can always be read. *)
THEOREM NamesStayUnique ==
  ASSUME BlankImage, ~RootReadMayFail
  PROVE  Spec => []NamesUnique
<1>1. NamesInv => NamesUnique
  BY DEF NamesInv
<1> QED BY <1>1, InitNames, NextNames, PTL DEF Spec
-----------------------------------------------------------------------------
(***************************************************************************)
(* Chunks are not shared.                                                  *)
(*                                                                         *)
(* An entry is written one step after its chunk was marked, so uniqueness  *)
(* rests on the table: a chunk that an entry points to stays marked, and   *)
(* allocate_chunk returns one that was not.                                *)
(***************************************************************************)
PointersMarked ==
  \A i \in Sector, j \in Slot :
    Present(i, j) => dir[i][j].ptr \in UsedFlags \cup {NoChunk}

ChunkIsNew ==
  pc = "enter" /\ chunk # NoChunk =>
    /\ chunk \in UsedFlags
    /\ \A i \in Sector, j \in Slot : Present(i, j) => dir[i][j].ptr # chunk

ChunksInv ==
  /\ NamesInv
  /\ PointersMarked
  /\ ChunkIsNew
  /\ ChunksUnshared

(* Setting flags only adds to the used chunks. *)
LEMMA UsedFlagsGrow ==
  ASSUME \A i \in TableLba : table[i] \subseteq table'[i]
  PROVE  UsedFlags \subseteq UsedFlags'
BY DEF UsedFlags, sbf_to_atla

(* A flag that is clear is that of a chunk nobody uses. *)
LEMMA ClearIsUnused ==
  ASSUME TypeOK, NEW i \in TableLba, NEW f \in Flag, f \notin table[i]
  PROVE  sbf_to_atla(i, f) \notin UsedFlags
<1> SUFFICES ASSUME sbf_to_atla(i, f) \in UsedFlags PROVE FALSE
  OBVIOUS
<1>1. PICK k \in TableLba : \E g \in table[k] : sbf_to_atla(i, f) = sbf_to_atla(k, g)
  BY DEF UsedFlags
<1>2. PICK g \in table[k] : sbf_to_atla(i, f) = sbf_to_atla(k, g)
  BY <1>1
<1>3. g \in Flag
  BY DEF TypeOK
<1> QED BY <1>2, <1>3, ChunkInjective

LEMMA InitChunks ==
  ASSUME BlankImage
  PROVE  Init => ChunksInv
<1> SUFFICES ASSUME Init PROVE ChunksInv
  OBVIOUS
<1>1. NamesInv /\ pc = "boot" /\ ~magic
  BY InitNames DEF Init
<1>2. \A i \in Sector, j \in Slot : ~Present(i, j)
  BY <1>1 DEF NamesInv, EmptyUntilFormatted
<1> QED BY <1>1, <1>2 DEF ChunksInv, PointersMarked, ChunkIsNew, ChunksUnshared

LEMMA EnterKeepsChunks ==
  ASSUME ChunksInv, EnterEntry
  PROVE  PointersMarked' /\ ChunksUnshared'
<1> DEFINE cs == call.sector
           cl == call.slot
<1>1. NamesInv /\ pc = "enter"
  BY DEF ChunksInv, EnterEntry
<1>2. UsedFlags' = UsedFlags
  BY DEF EnterEntry, UsedFlags, sbf_to_atla
<1>3. OnesEntry.ptr = NoChunk /\ NewEntry.ptr = chunk
  BY DEF OnesEntry, NewEntry
<1>4. chunk = NoChunk \/ chunk \in UsedFlags
  BY <1>1 DEF ChunksInv, ChunkIsNew
<1>5. PointersMarked'
  <2> SUFFICES ASSUME NEW i \in Sector, NEW j \in Slot, Present(i, j)'
               PROVE  dir'[i][j].ptr \in UsedFlags \cup {NoChunk}
    BY <1>2 DEF PointersMarked
  <2>1. CASE <<i, j>> = <<cs, cl>>
    BY <1>1, <1>3, <1>4, <2>1, EnteredSlots
  <2>2. CASE dir'[i][j] = dir[i][j]
    BY <2>2 DEF ChunksInv, PointersMarked, Present
  <2>3. CASE dir'[i][j] = OnesEntry
    BY <1>3, <2>3
  <2> QED BY <1>1, <2>1, <2>2, <2>3, EnteredSlots
<1>6. ChunksUnshared'
  <2> SUFFICES ASSUME NEW i \in Sector, NEW k \in Sector, NEW j \in Slot, NEW l \in Slot,
                      Present(i, j)', Present(k, l)',
                      dir'[i][j].ptr = dir'[k][l].ptr, dir'[i][j].ptr # NoChunk
               PROVE  i = k /\ j = l
    BY DEF ChunksUnshared
  <2>1. <<i, j>> = <<cs, cl>> \/ dir'[i][j] = dir[i][j]
    BY <1>1, <1>3, EnteredSlots
  <2>2. <<k, l>> = <<cs, cl>> \/ dir'[k][l] = dir[k][l]
    BY <1>1, <1>3, EnteredSlots
  <2>3. ASSUME NEW p \in Sector, NEW q \in Slot, Present(p, q), dir[p][q].ptr = chunk,
               chunk # NoChunk
        PROVE  FALSE
    BY <1>1, <2>3 DEF ChunksInv, ChunkIsNew
  <2>4. CASE <<i, j>> = <<cs, cl>> /\ <<k, l>> # <<cs, cl>>
    <3>1. Present(k, l) /\ dir[k][l].ptr = chunk /\ chunk # NoChunk
      BY <1>1, <1>3, <2>2, <2>4, EnteredSlots DEF Present
    <3> QED BY <2>3, <3>1
  <2>5. CASE <<i, j>> # <<cs, cl>> /\ <<k, l>> = <<cs, cl>>
    <3>1. Present(i, j) /\ dir[i][j].ptr = chunk /\ chunk # NoChunk
      BY <1>1, <1>3, <2>1, <2>5, EnteredSlots DEF Present
    <3> QED BY <2>3, <3>1
  <2>6. CASE <<i, j>> # <<cs, cl>> /\ <<k, l>> # <<cs, cl>>
    <3>1. dir'[i][j] = dir[i][j] /\ dir'[k][l] = dir[k][l]
      BY <2>1, <2>2, <2>6
    <3> QED BY <3>1 DEF ChunksInv, ChunksUnshared, Present
  <2> QED BY <2>4, <2>5, <2>6
<1> QED BY <1>5, <1>6

LEMMA NextChunks ==
  ASSUME ~RootReadMayFail
  PROVE  ChunksInv /\ [Next]_vars => ChunksInv'
<1> SUFFICES ASSUME ChunksInv, [Next]_vars PROVE ChunksInv'
  OBVIOUS
<1>0. NamesInv /\ NamesInv' /\ TypeOK
  BY NextNames DEF ChunksInv, NamesInv
<1>s. ASSUME dir' = dir, UsedFlags \subseteq UsedFlags'
      PROVE  PointersMarked' /\ ChunksUnshared'
  BY <1>s DEF ChunksInv, PointersMarked, ChunksUnshared, Present
<1>t. ASSUME table' = table PROVE UsedFlags' = UsedFlags
  BY <1>t DEF UsedFlags, sbf_to_atla
<1>1. CASE get_root
  <2>1. dir' = dir /\ table' = table /\ pc' # "enter"
    BY <1>1 DEF get_root
  <2> QED BY <1>0, <1>s, <1>t, <2>1 DEF ChunksInv, ChunkIsNew
<1>2. CASE init_root
  <2>1. \A i \in Sector, j \in Slot : ~Present(i, j)'
    BY <1>0, <1>2, FormatKeepsEmpty
  <2>2. pc' # "enter"
    BY <1>2 DEF init_root, clear_head, write_magic, clear_table, set_flags
  <2> QED BY <1>0, <2>1, <2>2 DEF ChunksInv, PointersMarked, ChunkIsNew, ChunksUnshared
<1>3. ASSUME NEW type \in {FILE, FOLDER}, NEW name \in Names, Create(type, name)
      PROVE  ChunksInv'
  <2>1. dir' = dir /\ table' = table /\ pc' # "enter"
    BY <1>3 DEF Create
  <2> QED BY <1>0, <1>s, <1>t, <2>1 DEF ChunksInv, ChunkIsNew
<1>4. CASE allocate_chunk
  <2>1. dir' = dir
    BY <1>4 DEF allocate_chunk
  <2>2. CASE chunk' = NoChunk /\ table' = table
    BY <1>0, <1>s, <1>t, <2>1, <2>2 DEF ChunksInv, ChunkIsNew
  <2>3. ASSUME NEW i \in TableLba, NEW f \in Flag, FirstClear(i, f),
               table' = [table EXCEPT ![i] = @ \cup {f}],
               chunk' = sbf_to_atla(i, f)
        PROVE  ChunksInv'
    <3>1. table \in [TableLba -> SUBSET Flag]
      BY <1>0 DEF TypeOK
    <3>2. UsedFlags \subseteq UsedFlags'
      BY <2>3, <3>1, UsedFlagsGrow
    <3>3. chunk' \in UsedFlags'
      <4>1. sbf_to_atla(i, f) \in Chunk /\ f \in table'[i]
        BY <2>3, <3>1, ChunkInRange
      <4> QED BY <2>3, <4>1 DEF UsedFlags, sbf_to_atla
    <3>4. chunk' \notin UsedFlags
      BY <1>0, <2>3, ClearIsUnused DEF FirstClear
    <3>5. chunk' # NoChunk => \A p \in Sector, q \in Slot :
                                 Present(p, q) => dir[p][q].ptr # chunk'
      BY <3>4 DEF ChunksInv, PointersMarked
    <3>6. ChunkIsNew'
      BY <2>1, <3>3, <3>5 DEF ChunkIsNew, Present
    <3> QED BY <1>0, <1>s, <2>1, <3>2, <3>6 DEF ChunksInv
  <2> QED BY <1>4, <2>2, <2>3 DEF allocate_chunk
<1>5. CASE EnterEntry
  <2>1. pc' # "enter"
    BY <1>5 DEF EnterEntry
  <2> QED BY <1>0, <1>5, <2>1, EnterKeepsChunks DEF ChunksInv, ChunkIsNew
<1>6. CASE Crash
  <2>1. dir' = dir /\ table' = table /\ pc' # "enter"
    BY <1>6 DEF Crash, disk
  <2> QED BY <1>0, <1>s, <1>t, <2>1 DEF ChunksInv, ChunkIsNew
<1>7. CASE UNCHANGED vars
  <2>1. UsedFlags' = UsedFlags
    BY <1>7, <1>t DEF vars
  <2> QED BY <1>0, <1>7, <1>s, <2>1 DEF vars, ChunksInv, ChunkIsNew, Present
<1> QED BY <1>1, <1>2, <1>3, <1>4, <1>5, <1>6, <1>7
        DEF Next, Kernel, create_directory, create_file

(* No two entries of the root directory share a chunk, for every geometry
   and every pattern of crashes, those between the mark and the entry
   (fs_driver.c:341, 476, 586) and those in init_root included. *)
THEOREM ChunksStayUnshared ==
  ASSUME BlankImage, ~RootReadMayFail
  PROVE  Spec => []ChunksUnshared
<1>1. ChunksInv => ChunksUnshared
  BY DEF ChunksInv
<1> QED BY <1>1, InitChunks, NextChunks, PTL DEF Spec
=============================================================================
