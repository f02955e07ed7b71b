-------------------------- MODULE DirectoryProofs --------------------------
(***************************************************************************)
(* The file system keeps what Directory promises, as long as its table has *)
(* room for the chunks that init_root reserves, for one chunk per entry of *)
(* the root directory, and for one that is lost at every crash.  On the    *)
(* real disk that leaves room for more than a hundred thousand crashes.    *)
(***************************************************************************)
EXTENDS FileSystemProofs, FiniteSetTheorems

EnoughRoom ==
  Reserved + DirSectors * EntriesPerSector + MaxCrashes <= TableSectors * FlagsPerSector

(* The slots that hold an entry. *)
Entered == {s \in Sector \X Slot : Present(s[1], s[2])}

NoFlags == \A i \in TableLba : table[i] = {}

(* The table is empty until init_root marks its own chunks, one by one; from
   then on they are marked, unless a crash cut this short. *)
TableInv ==
  /\ pc \in {"clear_head", "write_magic"} => ~magic
  /\ ~magic \/ pc = "clear_table" => NoFlags
  /\ pc = "set_flags" => n \in 0..(Reserved - 1) /\ UsedFlags = 0..(n - 1)
  /\ magic /\ ~torn /\ pc \notin Formatting => 0..(Reserved - 1) \subseteq UsedFlags

(* Every marked chunk is reserved, an entry's, about to be, or was lost. *)
RoomInv ==
  Cardinality(UsedFlags)
    <= Reserved + Cardinality(Entered) + crashes + (IF pc = "enter" THEN 1 ELSE 0)

(* A creation that has its chunk can enter it. *)
ReadyToEnter ==
  /\ pc \in Creating => call.name \in Names
  /\ pc = "enter" => /\ data_buffer = dir[call.sector]
                     /\ chunk # NoChunk
                     /\ ~torn => chunk >= Reserved

PromiseInv ==
  /\ ChunksInv
  /\ TableInv
  /\ RoomInv
  /\ ReadyToEnter
  /\ ChunksMarked
  /\ MetadataSafe
-----------------------------------------------------------------------------
(* Every chunk has a flag in the table: atla_to_sbf, although it divides by
   one sector more than there are, undoes sbf_to_atla. *)
LEMMA FlagOfChunk ==
  ASSUME NEW a \in Chunk
  PROVE  /\ atla_to_sbf(a).sector \in TableLba
         /\ atla_to_sbf(a).flag \in Flag
         /\ sbf_to_atla(atla_to_sbf(a).sector, atla_to_sbf(a).flag) = a
<1> DEFINE F == FlagsPerSector
           T == TableSectors
           q == a \div F
           r == a % F
<1>1. F \in Nat \ {0} /\ T \in Nat /\ T >= 3
  BY GeometryAssumption
<1>2. a \in Nat /\ a < T * F
  <2>1. T * F \in Nat
    BY <1>1
  <2> QED BY <2>1 DEF Chunk
<1>3. q \in Nat /\ r \in 0..(F - 1) /\ a = (q * F) + r
  BY <1>1, <1>2, Z3
<1> HIDE DEF q, r
<1>4. q < T
  <2> SUFFICES ASSUME q >= T PROVE FALSE
    BY <1>1, <1>3
  <2>1. q * F >= T * F
    BY <1>1, <1>3, Z3
  <2>2. q * F \in Int /\ T * F \in Int
    BY <1>1, <1>3
  <2> QED BY <1>2, <1>3, <2>1, <2>2
<1>5. q % (T + 1) = q
  BY <1>1, <1>3, <1>4
<1>6. atla_to_sbf(a).sector = q + 1 /\ atla_to_sbf(a).flag = r
  BY <1>5 DEF atla_to_sbf, q, r
<1>7. sbf_to_atla(q + 1, r) = (q * F) + r
  BY <1>1, <1>3 DEF sbf_to_atla
<1>8. q + 1 \in TableLba /\ r \in Flag
  BY <1>1, <1>3, <1>4 DEF TableLba, Flag
<1> QED BY <1>3, <1>6, <1>7, <1>8

(* The chunks that are reserved are chunks of the table. *)
LEMMA ReservedChunks == 0..(Reserved - 1) \subseteq Chunk
<1> DEFINE Q == TableSectors * FlagsPerSector
<1>1. Q \in Nat /\ Reserved \in Nat /\ Reserved <= Q
  BY GeometryAssumption
<1> HIDE DEF Q
<1>2. 0..(Reserved - 1) \subseteq 0..(Q - 1)
  BY <1>1
<1> QED BY <1>2 DEF Q, Chunk

(* Setting a flag marks one chunk. *)
LEMMA OneMore ==
  ASSUME TypeOK, NEW i \in TableLba, NEW f \in Flag,
         table' = [table EXCEPT ![i] = @ \cup {f}]
  PROVE  UsedFlags' = UsedFlags \cup {sbf_to_atla(i, f)}
<1>1. sbf_to_atla(i, f) \in Chunk
  BY ChunkInRange
<1>2. /\ table'[i] = table[i] \cup {f}
      /\ \A k \in TableLba : k # i => table'[k] = table[k]
  BY DEF TypeOK
<1> QED BY <1>1, <1>2, Zenon DEF UsedFlags, sbf_to_atla

LEMMA UsedIsFinite ==
  /\ IsFiniteSet(Chunk) /\ Cardinality(Chunk) = TableSectors * FlagsPerSector
  /\ IsFiniteSet(UsedFlags) /\ Cardinality(UsedFlags) \in Nat
<1> DEFINE Q == TableSectors * FlagsPerSector
<1>1. Q \in Nat
  BY GeometryAssumption
<1> HIDE DEF Q
<1>2. IsFiniteSet(0..(Q - 1)) /\ Cardinality(0..(Q - 1)) = Q
  BY <1>1, FS_Interval
<1>3. IsFiniteSet(Chunk) /\ Cardinality(Chunk) = Q
  BY <1>2 DEF Chunk, Q
<1>4. UsedFlags \in SUBSET Chunk
  BY DEF UsedFlags
<1> QED BY <1>3, <1>4, FS_Subset, FS_CardinalityType DEF Q

LEMMA EnteredIsFinite ==
  /\ IsFiniteSet(Sector \X Slot)
  /\ Cardinality(Sector \X Slot) = DirSectors * EntriesPerSector
  /\ IsFiniteSet(Entered) /\ Cardinality(Entered) \in Nat
<1>1. DirSectors \in Nat /\ EntriesPerSector \in Nat
  BY GeometryAssumption
<1>2. IsFiniteSet(Sector) /\ Cardinality(Sector) = DirSectors
  BY <1>1, FS_Interval DEF Sector
<1>3. IsFiniteSet(Slot) /\ Cardinality(Slot) = EntriesPerSector
  BY <1>1, FS_Interval DEF Slot
<1>4. IsFiniteSet(Sector \X Slot) /\ Cardinality(Sector \X Slot) = DirSectors * EntriesPerSector
  BY <1>2, <1>3, FS_Product
<1>5. Entered \in SUBSET (Sector \X Slot)
  BY DEF Entered
<1> QED BY <1>4, <1>5, FS_Subset, FS_CardinalityType

(* A creation that looks for a chunk finds one. *)
LEMMA TableHasRoom ==
  ASSUME EnoughRoom, PromiseInv, pc = "allocate"
  PROVE  \E i \in TableLba : table[i] # Flag
<1> SUFFICES ASSUME \A i \in TableLba : table[i] = Flag PROVE FALSE
  OBVIOUS
<1> DEFINE Q == TableSectors * FlagsPerSector
           S == DirSectors * EntriesPerSector
           slot == <<call.sector, call.slot>>
<1>1. UsedFlags = Chunk
  BY FlagOfChunk DEF UsedFlags
<1>2. slot \in Sector \X Slot /\ slot \notin Entered
  BY DEF PromiseInv, ChunksInv, NamesInv, TypeOK, Call, CallStillFree, FirstFree, Creating, Entered
<1> DEFINE A == Sector \X Slot
<1>3. Entered \in SUBSET (A \ {slot})
  BY <1>2 DEF Entered
<1>4. IsFiniteSet(A \ {slot}) /\ Cardinality(A \ {slot}) = Cardinality(A) - 1
  <2>1. IsFiniteSet(A) /\ slot \in A
    BY <1>2, EnteredIsFinite
  <2> HIDE DEF A, slot
  <2> QED BY <2>1, FS_RemoveElement
<1>5. Cardinality(Entered) <= S - 1
  <2>1. Cardinality(A) = S
    BY EnteredIsFinite
  <2> HIDE DEF A, slot, S
  <2> QED BY <1>3, <1>4, <2>1, FS_Subset
<1>6. crashes \in Nat /\ crashes <= MaxCrashes
  BY EnvironmentAssumption DEF PromiseInv, ChunksInv, NamesInv, TypeOK
<1>7. Q \in Nat /\ S \in Nat /\ Reserved \in Nat /\ MaxCrashes \in Nat
  BY GeometryAssumption, EnvironmentAssumption
<1>8. Q <= Reserved + Cardinality(Entered) + crashes
  <2>1. Cardinality(UsedFlags) = Q
    BY <1>1, UsedIsFinite
  <2> HIDE DEF Q
  <2> QED BY <1>6, <1>7, <2>1, EnteredIsFinite DEF PromiseInv, RoomInv
<1>9. Reserved + S + MaxCrashes <= Q
  BY DEF EnoughRoom
<1> HIDE DEF Q, S
<1> QED BY <1>5, <1>6, <1>7, <1>8, <1>9, EnteredIsFinite
-----------------------------------------------------------------------------
LEMMA InitPromise ==
  ASSUME BlankImage
  PROVE  Init => PromiseInv
<1> SUFFICES ASSUME Init PROVE PromiseInv
  OBVIOUS
<1>1. ChunksInv /\ pc = "boot" /\ ~magic /\ crashes = 0
  BY InitChunks DEF Init
<1>2. NoFlags
  BY DEF Init, NoFlags
<1>3. UsedFlags = {} /\ Cardinality(UsedFlags) = 0
  BY <1>2, FS_EmptySet DEF NoFlags, UsedFlags
<1>4. \A i \in Sector, j \in Slot : ~Present(i, j)
  BY <1>1 DEF ChunksInv, NamesInv, EmptyUntilFormatted
<1>5. RoomInv
  BY <1>1, <1>3, EnteredIsFinite, GeometryAssumption DEF RoomInv
<1> QED BY <1>1, <1>2, <1>4, <1>5
        DEF PromiseInv, TableInv, ReadyToEnter, ChunksMarked, MetadataSafe,
            EntriesOutsideMetadata, Formatting, Creating

(* Formatting is done on an empty directory: only the table changes, from
   nothing to the reserved chunks. *)
LEMMA FormatPromise ==
  ASSUME PromiseInv, init_root
  PROVE  TableInv' /\ RoomInv'
<1>1. TypeOK /\ TypeOK'
  BY NextType DEF PromiseInv, ChunksInv, NamesInv, Next, Kernel
<1>2. Reserved \in Nat /\ Reserved >= 1
  BY GeometryAssumption
<1>3. crashes' \in Nat /\ Cardinality(Entered') \in Nat /\ pc' # "enter"
  <2>1. Cardinality(Entered') \in Nat
    <3>1. Entered' \in SUBSET (Sector \X Slot)
      BY DEF Entered
    <3> QED BY <3>1, EnteredIsFinite, FS_Subset, FS_CardinalityType
  <2> QED BY <1>1, <2>1, EnvironmentAssumption
          DEF TypeOK, init_root, clear_head, write_magic, clear_table, set_flags
<1>r. ASSUME NEW m \in 0..Reserved, UsedFlags' = 0..(m - 1) PROVE RoomInv'
  <2>1. 0 \in Int /\ m - 1 \in Int /\ m \in Nat /\ m <= Reserved
    BY <1>2
  <2>2. Cardinality(0..(m - 1)) = IF 0 > m - 1 THEN 0 ELSE (m - 1) - 0 + 1
    BY <2>1, FS_Interval
  <2>3. Cardinality(UsedFlags') = m
    BY <1>r, <2>1, <2>2
  <2> QED BY <1>2, <1>3, <2>1, <2>3 DEF RoomInv
<1>n. ASSUME NoFlags' PROVE UsedFlags' = {} /\ UsedFlags' = 0..(0 - 1) /\ RoomInv'
  <2>1. UsedFlags' = {}
    BY <1>n DEF NoFlags, UsedFlags
  <2>2. 0..(0 - 1) = {} /\ 0 \in 0..Reserved
    BY <1>2
  <2> QED BY <1>r, <2>1, <2>2
<1>4. CASE clear_head \/ write_magic \/ clear_table
  <2>1. NoFlags'
    <3>1. NoFlags
      BY <1>4 DEF PromiseInv, TableInv, clear_head, write_magic, clear_table
    <3>2. table' = table \/ \E lba \in TableLba : table' = [table EXCEPT ![lba] = {}]
      BY <1>4 DEF clear_head, write_magic, clear_table, WriteZeros
    <3> QED BY <1>1, <3>1, <3>2 DEF NoFlags, TypeOK
  <2>2. UsedFlags' = 0..(0 - 1) /\ RoomInv'
    BY <1>n, <2>1
  <2>3. TableInv'
    BY <1>2, <1>4, <2>1, <2>2
    DEF PromiseInv, TableInv, clear_head, write_magic, clear_table, Formatting
  <2> QED BY <2>2, <2>3
<1>5. CASE set_flags
  <2>1. n \in 0..(Reserved - 1) /\ UsedFlags = 0..(n - 1) /\ pc = "set_flags" /\ magic
    BY <1>5 DEF PromiseInv, TableInv, set_flags, ChunksInv, NamesInv, FormattedBeforeUse
  <2>2. n \in Chunk
    BY <2>1, ReservedChunks
  <2>3. UsedFlags' = UsedFlags \cup {n}
    BY <1>1, <1>5, <2>2, FlagOfChunk, OneMore DEF set_flags, set_allocation_table_flag
  <2>4. UsedFlags' = 0..((n + 1) - 1) /\ n + 1 \in 0..Reserved
    BY <1>2, <2>1, <2>3
  <2>5. RoomInv'
    BY <1>r, <2>4
  <2>6. TableInv'
    BY <1>2, <1>5, <2>1, <2>4 DEF TableInv, set_flags, Formatting
  <2> QED BY <2>5, <2>6
<1> QED BY <1>4, <1>5 DEF init_root

(* The write of an entry, once its sector is in the buffer. *)
LEMMA EnterPromise ==
  ASSUME PromiseInv, EnterEntry
  PROVE  /\ dir' = [dir EXCEPT ![call.sector][call.slot] = NewEntry]
         /\ RoomInv' /\ ChunksMarked' /\ MetadataSafe'
<1> DEFINE cs == call.sector
           cl == call.slot
<1>1. /\ NamesInv /\ pc = "enter" /\ pc' = "idle" /\ crashes' = crashes /\ torn' = torn
      /\ data_buffer = dir[cs] /\ chunk # NoChunk
  BY DEF PromiseInv, ChunksInv, EnterEntry, ReadyToEnter
<1>2. cs \in Sector /\ cl \in Slot /\ ~Present(cs, cl)
  BY <1>1, EnteredSlots DEF NamesInv, CallStillFree, FirstFree, Creating
<1>3. dir' = [dir EXCEPT ![cs][cl] = NewEntry]
  BY <1>1, <1>2 DEF EnterEntry, NamesInv, TypeOK
<1>4. UsedFlags' = UsedFlags
  BY DEF EnterEntry, UsedFlags, sbf_to_atla
<1>5. \A i \in Sector, j \in Slot :
        IF <<i, j>> = <<cs, cl>> THEN dir'[i][j] = NewEntry ELSE dir'[i][j] = dir[i][j]
  BY <1>1, <1>2, <1>3 DEF NamesInv, TypeOK
<1>6. NewEntry.present = 1 /\ NewEntry.ptr = chunk
  BY DEF NewEntry
<1>7. RoomInv'
  <2>1. Entered' = Entered \cup {<<cs, cl>>} /\ <<cs, cl>> \notin Entered
    BY <1>2, <1>5, <1>6 DEF Entered, Present
  <2>2. Cardinality(Entered') = Cardinality(Entered) + 1
    BY <2>1, EnteredIsFinite, FS_AddElement
  <2>3. crashes \in Nat /\ Reserved \in Nat
    BY <1>1, EnvironmentAssumption, GeometryAssumption DEF NamesInv, TypeOK
  <2> QED BY <1>1, <1>4, <2>2, <2>3, EnteredIsFinite, UsedIsFinite DEF PromiseInv, RoomInv
<1>8. chunk \in UsedFlags
  BY <1>1 DEF PromiseInv, ChunksInv, ChunkIsNew
<1>9. ChunksMarked'
  BY <1>4, <1>5, <1>6, <1>8 DEF PromiseInv, ChunksMarked, Present
<1>10. MetadataSafe'
  <2> SUFFICES ASSUME ~torn PROVE pointer_to_lba(chunk) > TableSectors + DirSectors
    BY <1>1, <1>5, <1>6 DEF PromiseInv, MetadataSafe, EntriesOutsideMetadata, Present, pointer_to_lba
  <2>1. chunk >= Reserved /\ chunk \in Nat
    BY <1>1, <1>8 DEF PromiseInv, ReadyToEnter, UsedFlags, Chunk
  <2>2. DirSectors \in Nat /\ TableSectors \in Nat /\ Reserved \in Nat
    BY GeometryAssumption
  <2>3. chunk * DirSectors >= Reserved * DirSectors
    BY <2>1, <2>2, Z3
  <2>4. chunk * DirSectors \in Nat /\ Reserved * DirSectors = 1 + TableSectors + DirSectors
    BY <2>1, <2>2, GeometryAssumption
  <2> QED BY <2>2, <2>3, <2>4 DEF pointer_to_lba
<1> QED BY <1>3, <1>7, <1>9, <1>10

LEMMA NextPromise ==
  ASSUME EnoughRoom, ~RootReadMayFail
  PROVE  PromiseInv /\ [Next]_vars => PromiseInv'
<1> SUFFICES ASSUME PromiseInv, [Next]_vars PROVE PromiseInv'
  OBVIOUS
<1>0. ChunksInv /\ ChunksInv' /\ NamesInv /\ NamesInv' /\ TypeOK
  BY NextChunks DEF PromiseInv, ChunksInv, NamesInv
<1> USE DEF Formatting, Creating
<1>d. ASSUME dir' = dir, torn => torn', UsedFlags \subseteq UsedFlags'
      PROVE  ChunksMarked' /\ MetadataSafe' /\ Entered' = Entered
  BY <1>d DEF PromiseInv, ChunksMarked, MetadataSafe, EntriesOutsideMetadata, Entered,
              Present, pointer_to_lba
<1>t. ASSUME table' = table PROVE UsedFlags' = UsedFlags /\ (NoFlags => NoFlags')
  BY <1>t DEF UsedFlags, sbf_to_atla, NoFlags
<1>c. crashes \in Nat /\ Reserved \in Nat
  BY <1>0, EnvironmentAssumption, GeometryAssumption DEF TypeOK
<1>r. ASSUME Entered' = Entered, UsedFlags' = UsedFlags, crashes' = crashes, pc # "enter"
      PROVE  RoomInv'
  BY <1>r, <1>c, EnteredIsFinite, UsedIsFinite DEF PromiseInv, RoomInv
<1>1. CASE get_root
  <2>1. dir' = dir /\ table' = table /\ torn' = torn /\ crashes' = crashes /\ magic' = magic
        /\ pc = "boot" /\ pc' = IF magic THEN "idle" ELSE "clear_head"
    BY <1>0, <1>1 DEF get_root, TypeOK
  <2>2. TableInv'
    BY <1>t, <2>1 DEF PromiseInv, TableInv
  <2> QED BY <1>0, <1>d, <1>r, <1>t, <2>1, <2>2 DEF PromiseInv, ReadyToEnter
<1>2. CASE init_root
  <2>1. \A i \in Sector, j \in Slot : ~Present(i, j)'
    BY <1>0, <1>2, FormatKeepsEmpty
  <2>2. pc' \notin {"allocate", "enter"}
    BY <1>2 DEF init_root, clear_head, write_magic, clear_table, set_flags
  <2> QED BY <1>0, <1>2, <2>1, <2>2, FormatPromise
          DEF PromiseInv, ReadyToEnter, ChunksMarked, MetadataSafe, EntriesOutsideMetadata
<1>3. ASSUME NEW type \in {FILE, FOLDER}, NEW name \in Names, Create(type, name)
      PROVE  PromiseInv'
  <2>1. dir' = dir /\ table' = table /\ torn' = torn /\ crashes' = crashes /\ magic' = magic
        /\ pc = "idle" /\ pc' \in {"idle", "allocate"}
    BY <1>3 DEF Create
  <2>2. TableInv'
    BY <1>t, <2>1 DEF PromiseInv, TableInv
  <2>3. ReadyToEnter'
    BY <1>3, <2>1 DEF Create, ReadyToEnter
  <2> QED BY <1>0, <1>d, <1>r, <1>t, <2>1, <2>2, <2>3 DEF PromiseInv
<1>4. CASE allocate_chunk
  <2>1. /\ dir' = dir /\ magic' = magic /\ call' = call /\ torn' = torn /\ crashes' = crashes
        /\ pc = "allocate" /\ pc' = "enter"
    BY <1>4 DEF allocate_chunk
  <2>2. PICK i \in TableLba, f \in Flag :
          /\ FirstClear(i, f)
          /\ table' = [table EXCEPT ![i] = @ \cup {f}]
          /\ chunk' = sbf_to_atla(i, f)
          /\ data_buffer' = data_buffer
    BY <1>4, <2>1, TableHasRoom DEF allocate_chunk
  <2>3. UsedFlags' = UsedFlags \cup {chunk'} /\ chunk' \in Chunk /\ chunk' \notin UsedFlags
    BY <1>0, <2>2, OneMore, ChunkInRange, ClearIsUnused DEF FirstClear
  <2>4. magic
    BY <1>0, <2>1 DEF NamesInv, FormattedBeforeUse
  <2>5. TableInv'
    BY <2>1, <2>3, <2>4 DEF PromiseInv, TableInv
  <2>6. RoomInv'
    <3>1. Cardinality(UsedFlags') = Cardinality(UsedFlags) + 1
      BY <2>3, UsedIsFinite, FS_AddElement
    <3> QED BY <1>c, <1>d, <2>1, <2>3, <3>1, EnteredIsFinite, UsedIsFinite DEF PromiseInv, RoomInv
  <2>7. chunk' # NoChunk /\ chunk' \in Nat
    BY <2>3 DEF Chunk, NoChunk
  <2>8. ~torn' => chunk' >= Reserved
    BY <1>c, <2>1, <2>3, <2>4, <2>7 DEF PromiseInv, TableInv
  <2>9. ReadyToEnter'
    BY <1>0, <2>1, <2>2, <2>7, <2>8 DEF PromiseInv, ReadyToEnter, NamesInv, BufferIsSector
  <2> QED BY <1>0, <1>d, <2>1, <2>3, <2>5, <2>6, <2>9 DEF PromiseInv
<1>5. CASE EnterEntry
  <2>1. pc' = "idle" /\ pc = "enter" /\ table' = table /\ torn' = torn /\ magic' = magic
    BY <1>5 DEF EnterEntry
  <2>2. TableInv'
    BY <1>t, <2>1 DEF PromiseInv, TableInv
  <2> QED BY <1>0, <1>5, <2>1, <2>2, EnterPromise DEF PromiseInv, ReadyToEnter
<1>6. CASE Crash
  <2>1. dir' = dir /\ table' = table /\ magic' = magic /\ pc' = "boot"
        /\ crashes' = crashes + 1 /\ torn' = (torn \/ (magic /\ pc \in Formatting))
    BY <1>6 DEF Crash, disk
  <2>2. TableInv'
    BY <1>0, <1>t, <2>1 DEF PromiseInv, TableInv, TypeOK
  <2>3. RoomInv'
    <3>1. Entered' = Entered /\ UsedFlags' = UsedFlags
      BY <1>0, <1>d, <1>t, <2>1 DEF TypeOK
    <3> QED BY <1>c, <2>1, <3>1, EnteredIsFinite, UsedIsFinite DEF PromiseInv, RoomInv
  <2> QED BY <1>0, <1>d, <1>t, <2>1, <2>2, <2>3 DEF PromiseInv, ReadyToEnter
<1>7. CASE UNCHANGED vars
  <2>1. Entered' = Entered /\ UsedFlags' = UsedFlags /\ (NoFlags => NoFlags')
        /\ ChunksMarked' /\ MetadataSafe'
    BY <1>7, <1>d, <1>t DEF vars
  <2> QED BY <1>0, <1>7, <2>1 DEF vars, PromiseInv, TableInv, RoomInv, ReadyToEnter
<1> QED BY <1>1, <1>2, <1>3, <1>4, <1>5, <1>6, <1>7
        DEF Next, Kernel, create_directory, create_file
-----------------------------------------------------------------------------
(***************************************************************************)
(* The steps that Directory allows.                                        *)
(***************************************************************************)
Catalog ==
  {[key |-> <<dir[s[1]][s[2]].type, dir[s[1]][s[2]].name>>, chunk |-> dir[s[1]][s[2]].ptr] :
     s \in {s \in Sector \X Slot : Present(s[1], s[2])}}

EntriesKeptByStep ==
  \A i \in Sector, j \in Slot : Present(i, j) => dir'[i][j] = dir[i][j]

(* An entry appears in a slot that was free, and nothing else changes. *)
LEMMA EntersOne ==
  ASSUME PromiseInv, EnterEntry
  PROVE  /\ EntriesKeptByStep
         /\ Abstract!Name(<<call.type, call.name>>, chunk)
<1> DEFINE cs == call.sector
           cl == call.slot
           new == [key |-> <<call.type, call.name>>, chunk |-> chunk]
<1>1. NamesInv /\ pc = "enter" /\ chunk # NoChunk
  BY DEF PromiseInv, ChunksInv, EnterEntry, ReadyToEnter
<1>2. cs \in Sector /\ cl \in Slot /\ ~Present(cs, cl)
  BY <1>1, EnteredSlots DEF NamesInv, CallStillFree, FirstFree, Creating
<1>3. \A i \in Sector, j \in Slot :
        IF <<i, j>> = <<cs, cl>> THEN dir'[i][j] = NewEntry ELSE dir'[i][j] = dir[i][j]
  BY <1>1, <1>2, EnterPromise DEF NamesInv, TypeOK
<1>4. EntriesKeptByStep
  BY <1>2, <1>3 DEF EntriesKeptByStep
<1>5. /\ NewEntry.present = 1 /\ NewEntry.ptr = chunk
      /\ NewEntry.type = call.type /\ NewEntry.name = call.name
  BY DEF NewEntry
<1>6. Catalog' = Catalog \cup {new}
  <2>1. ASSUME NEW e \in Catalog' PROVE e \in Catalog \cup {new}
    <3>1. PICK s \in Sector \X Slot :
            /\ Present(s[1], s[2])'
            /\ e = [key |-> <<dir'[s[1]][s[2]].type, dir'[s[1]][s[2]].name>>,
                    chunk |-> dir'[s[1]][s[2]].ptr]
      BY <2>1 DEF Catalog
    <3>2. CASE s = <<cs, cl>>
      BY <1>3, <1>5, <3>1, <3>2
    <3>3. CASE s # <<cs, cl>>
      <4>1. dir'[s[1]][s[2]] = dir[s[1]][s[2]]
        BY <1>3, <3>3
      <4> QED BY <3>1, <4>1 DEF Catalog, Present
    <3> QED BY <3>2, <3>3
  <2>2. Catalog \subseteq Catalog'
    BY <1>4 DEF Catalog, EntriesKeptByStep, Present
  <2>3. new \in Catalog'
    <3>1. PICK t \in Sector \X Slot : t = <<cs, cl>>
      BY <1>2
    <3>2. t[1] = cs /\ t[2] = cl
      BY <3>1
    <3>3. dir'[t[1]][t[2]] = NewEntry
      BY <1>2, <1>3, <3>2
    <3>4. Present(t[1], t[2])'
      BY <1>5, <3>3 DEF Present
    <3>5. new = [key |-> <<dir'[t[1]][t[2]].type, dir'[t[1]][t[2]].name>>,
                 chunk |-> dir'[t[1]][t[2]].ptr]
      BY <1>5, <3>3
    <3> QED BY <3>4, <3>5, Zenon DEF Catalog
  <2> QED BY <2>1, <2>2, <2>3
<1>7. \A e \in Catalog : e.key # <<call.type, call.name>> /\ e.chunk # chunk
  <2> SUFFICES ASSUME NEW s \in Sector \X Slot, Present(s[1], s[2])
               PROVE  /\ <<dir[s[1]][s[2]].type, dir[s[1]][s[2]].name>> # <<call.type, call.name>>
                      /\ dir[s[1]][s[2]].ptr # chunk
    BY DEF Catalog
  <2>1. dir[s[1]][s[2]].ptr # chunk
    BY <1>1 DEF PromiseInv, ChunksInv, ChunkIsNew
  <2>2. ~(dir[s[1]][s[2]].type = call.type /\ dir[s[1]][s[2]].name = call.name)
    BY <1>1, KeyIsFree DEF Creating
  <2> QED BY <2>1, <2>2
<1>8. chunk \in UsedFlags
  BY <1>1 DEF PromiseInv, ChunksInv, ChunkIsNew
<1>9. UsedFlags' = UsedFlags
  BY DEF EnterEntry, UsedFlags, sbf_to_atla
<1>10. Abstract!Name(<<call.type, call.name>>, chunk)
  BY <1>6, <1>7, <1>8, <1>9 DEF Abstract!Name, Catalog
<1> QED BY <1>4, <1>10

(* Every step of the driver is invisible, takes a chunk or names one. *)
LEMMA NextImplements ==
  ASSUME EnoughRoom, PromiseInv, [Next]_vars
  PROVE  EntriesKeptByStep /\ [Abstract!Next]_(Abstract!vars)
<1>0. ChunksInv /\ NamesInv /\ TypeOK
  BY DEF PromiseInv, ChunksInv, NamesInv
<1>s. ASSUME dir' = dir PROVE EntriesKeptByStep /\ Catalog' = Catalog
  BY <1>s DEF EntriesKeptByStep, Catalog, Present
<1>t. ASSUME table' = table PROVE UsedFlags' = UsedFlags
  BY <1>t DEF UsedFlags, sbf_to_atla
<1>u. ASSUME Catalog' = Catalog, UsedFlags' = UsedFlags PROVE UNCHANGED Abstract!vars
  BY <1>u DEF Catalog, Abstract!vars
<1>k. ASSUME Catalog' = Catalog, NEW c \in Chunk, c \notin UsedFlags, UsedFlags' = UsedFlags \cup {c}
      PROVE  Abstract!Next
  BY <1>k DEF Catalog, Abstract!Next, Abstract!Take
<1>1. CASE UNCHANGED <<dir, table>>
  BY <1>1, <1>s, <1>t, <1>u
<1>2. CASE init_root
  <2>1. \A i \in Sector, j \in Slot : ~Present(i, j) /\ ~Present(i, j)'
    BY <1>0, <1>2, FormatKeepsEmpty
    DEF NamesInv, EmptyUntilFormatted, init_root, clear_head, write_magic, clear_table,
        set_flags, Formatting
  <2>2. EntriesKeptByStep /\ Catalog = {} /\ Catalog' = {}
    BY <2>1 DEF EntriesKeptByStep, Catalog
  <2>3. CASE clear_head \/ write_magic \/ clear_table
    <3>1. NoFlags
      BY <2>3 DEF PromiseInv, TableInv, clear_head, write_magic, clear_table
    <3>2. table' = table \/ \E lba \in TableLba : table' = [table EXCEPT ![lba] = {}]
      BY <2>3 DEF clear_head, write_magic, clear_table, WriteZeros
    <3>3. NoFlags'
      BY <1>0, <3>1, <3>2 DEF NoFlags, TypeOK
    <3>4. UsedFlags = {} /\ UsedFlags' = {}
      BY <3>1, <3>3 DEF NoFlags, UsedFlags
    <3> QED BY <1>u, <2>2, <3>4
  <2>4. CASE set_flags
    <3>1. n \in 0..(Reserved - 1) /\ n \notin UsedFlags
      BY <2>4, GeometryAssumption DEF PromiseInv, TableInv, set_flags
    <3>2. n \in Chunk
      BY <3>1, ReservedChunks
    <3>3. UsedFlags' = UsedFlags \cup {n}
      BY <1>0, <2>4, <3>2, FlagOfChunk, OneMore DEF set_flags, set_allocation_table_flag
    <3> QED BY <1>k, <2>2, <3>1, <3>2, <3>3
  <2> QED BY <1>2, <2>3, <2>4 DEF init_root
<1>3. CASE allocate_chunk
  <2>1. PICK i \in TableLba, f \in Flag :
          /\ FirstClear(i, f)
          /\ table' = [table EXCEPT ![i] = @ \cup {f}]
    BY <1>3, TableHasRoom DEF allocate_chunk
  <2>2. sbf_to_atla(i, f) \in Chunk /\ sbf_to_atla(i, f) \notin UsedFlags
    BY <1>0, <2>1, ChunkInRange, ClearIsUnused DEF FirstClear
  <2>3. UsedFlags' = UsedFlags \cup {sbf_to_atla(i, f)} /\ dir' = dir
    BY <1>0, <1>3, <2>1, OneMore DEF allocate_chunk
  <2> QED BY <1>k, <1>s, <2>2, <2>3
<1>4. CASE EnterEntry
  <2>1. <<call.type, call.name>> \in {FILE, FOLDER} \X Names /\ chunk \in Chunk
    BY <1>0, <1>4
    DEF TypeOK, Call, EnterEntry, PromiseInv, ReadyToEnter, Creating
  <2>2. EntriesKeptByStep /\ Abstract!Name(<<call.type, call.name>>, chunk)
    BY <1>4, EntersOne
  <2>3. Abstract!Next
    BY <2>1, <2>2 DEF Abstract!Next, Abstract!Name
  <2> QED BY <2>2, <2>3
<1> QED
  BY <1>1, <1>2, <1>3, <1>4
  DEF Next, Kernel, get_root, create_directory, create_file, Create, Crash, disk, vars

(* On an image that was blank, whose first sector can always be read, and
   whose table has room: allocate_chunk gives the buffer back
   (fs_driver.c:343-347), whatever crashes. *)
THEOREM BufferIsRestored ==
  ASSUME BlankImage, ~RootReadMayFail, EnoughRoom
  PROVE  Spec => []BufferRestored
<1>1. PromiseInv => BufferRestored
  BY DEF PromiseInv, ReadyToEnter, BufferRestored
<1> QED BY <1>1, InitPromise, NextPromise, PTL DEF Spec

(* No entry points to a chunk that is not marked, although the mark and the
   entry are two writes (fs_driver.c:318-355). *)
THEOREM PointersStayMarked ==
  ASSUME BlankImage, ~RootReadMayFail, EnoughRoom
  PROVE  Spec => []ChunksMarked
<1>1. PromiseInv => ChunksMarked
  BY DEF PromiseInv
<1> QED BY <1>1, InitPromise, NextPromise, PTL DEF Spec

(* No entry points into the file system's own sectors (fs_driver.c:267-268 and
   309), unless a crash cut the formatting short. *)
THEOREM MetadataStaysSafe ==
  ASSUME BlankImage, ~RootReadMayFail, EnoughRoom
  PROVE  Spec => []MetadataSafe
<1>1. PromiseInv => MetadataSafe
  BY DEF PromiseInv
<1> QED BY <1>1, InitPromise, NextPromise, PTL DEF Spec

(* No creation, crash or boot removes or changes an entry. *)
THEOREM EntriesStay ==
  ASSUME BlankImage, ~RootReadMayFail, EnoughRoom
  PROVE  Spec => EntriesKept
<1>1. PromiseInv /\ [Next]_vars => [EntriesKeptByStep]_vars
  BY NextImplements
<1>2. PromiseInv /\ [Next]_vars => PromiseInv'
  BY NextPromise
<1>3. [][EntriesKeptByStep]_vars => EntriesKept
  BY PTL DEF EntriesKept, EntriesKeptByStep
<1> QED BY InitPromise, <1>1, <1>2, <1>3, PTL DEF Spec

(* What Directory promises is kept by every step of the driver, for every
   geometry and every pattern of crashes: an entry appears at once, with a
   key and a marked chunk that no other entry has. *)
THEOREM DirectoryIsImplemented ==
  ASSUME BlankImage, ~RootReadMayFail, EnoughRoom
  PROVE  Spec => ImplementsDirectory
<1>1. Init => Abstract!Init
  <2> SUFFICES ASSUME Init PROVE Abstract!Init
    OBVIOUS
  <2>1. NoFlags /\ \A i \in Sector, j \in Slot : ~Present(i, j)
    BY InitChunks DEF Init, NoFlags, ChunksInv, NamesInv, EmptyUntilFormatted
  <2> QED BY <2>1 DEF Abstract!Init, NoFlags, UsedFlags
<1>2. PromiseInv /\ [Next]_vars => [Abstract!Next]_(Abstract!vars)
  BY NextImplements
<1>3. PromiseInv /\ [Next]_vars => PromiseInv'
  BY NextPromise
<1> QED BY InitPromise, <1>1, <1>2, <1>3, PTL DEF Spec, ImplementsDirectory, Abstract!Spec
-----------------------------------------------------------------------------
(***************************************************************************)
(* Formatting, whatever was on the disk.                                   *)
(***************************************************************************)

(* What the loops of init_root have done so far: the table is clear below the
   counter, and then the first directory sector is too and the flags below the
   counter are set. *)
FreshInv ==
  /\ TypeOK
  /\ pc = "clear_table" => /\ magic /\ n \in 1..(TableSectors + 1)
                           /\ \A i \in TableLba : i < n => table[i] = {}
  /\ pc = "set_flags" => /\ magic /\ n \in 0..(Reserved - 1)
                         /\ UsedFlags = 0..(n - 1)
                         /\ dir[0] = ZeroSector

(* What a step that ends a formatting leaves. *)
Afresh == magic' /\ UsedFlags' = 0..(Reserved - 1) /\ dir'[0] = ZeroSector

LEMMA ClearTableFresh ==
  ASSUME FreshInv, clear_table, TypeOK'
  PROVE  FreshInv' /\ pc' # "idle"
<1>1. /\ pc = "clear_table" /\ n \in 1..(TableSectors + 1) /\ magic /\ magic' = magic
      /\ \A i \in TableLba : i < n => table[i] = {}
      /\ TableSectors \in Nat /\ Reserved \in Nat /\ Reserved >= 1
      /\ table \in [TableLba -> SUBSET Flag]
  BY GeometryAssumption DEF FreshInv, clear_table, TypeOK
<1>2. CASE n \in TableLba
  <2>1. /\ table' = [table EXCEPT ![n] = {}]
        /\ n < TableSectors + 1 /\ n' = n + 1 /\ pc' = "clear_table"
    BY <1>1, <1>2 DEF clear_table, WriteZeros, TableLba
  <2>2. n' \in 1..(TableSectors + 1)
    BY <1>1, <2>1
  <2>3. ASSUME NEW i \in TableLba, i < n' PROVE table'[i] = {}
    <3>1. CASE i = n
      BY <1>1, <1>2, <2>1, <3>1
    <3>2. CASE i # n
      <4>1. i < n
        BY <1>1, <2>1, <2>3, <3>2 DEF TableLba
      <4> QED BY <1>1, <2>1, <3>2, <4>1
    <3> QED BY <3>1, <3>2
  <2> QED BY <1>1, <2>1, <2>2, <2>3 DEF FreshInv
<1>3. CASE n \notin TableLba
  <2>1. n = TableSectors + 1
    BY <1>1, <1>3 DEF TableLba
  <2>2. /\ table' = table /\ dir' = [dir EXCEPT ![n - TableSectors - 1] = ZeroSector]
        /\ n' = 0 /\ pc' = "set_flags"
    BY <1>1, <1>3, <2>1 DEF clear_table, WriteZeros
  <2>3. \A i \in TableLba : table'[i] = {}
    <3>1. \A i \in TableLba : i < n
      BY <1>1, <2>1 DEF TableLba
    <3> QED BY <1>1, <2>2, <3>1
  <2>4. UsedFlags' = 0..(n' - 1)
    <3>1. UsedFlags' = {}
      BY <2>3 DEF UsedFlags
    <3>2. 0..(0 - 1) = {}
      OBVIOUS
    <3> QED BY <2>2, <3>1, <3>2
  <2>5. dir'[0] = ZeroSector
    <3>1. n - TableSectors - 1 = 0 /\ 0 \in Sector
      BY <1>1, <2>1, SectorTypes, GeometryAssumption DEF Sector
    <3>2. 0 \in DOMAIN dir
      BY <3>1 DEF FreshInv, TypeOK
    <3> QED BY <2>2, <3>1, <3>2
  <2>6. n' \in 0..(Reserved - 1)
    BY <1>1, <2>2
  <2> QED BY <1>1, <2>2, <2>4, <2>5, <2>6 DEF FreshInv
<1> QED BY <1>2, <1>3

LEMMA SetFlagsFresh ==
  ASSUME FreshInv, set_flags, TypeOK'
  PROVE  FreshInv' /\ (pc' = "idle" => Afresh)
<1>1. /\ pc = "set_flags" /\ magic /\ magic' = magic /\ n \in 0..(Reserved - 1)
      /\ UsedFlags = 0..(n - 1) /\ dir' = dir /\ dir[0] = ZeroSector
      /\ Reserved \in Nat
  BY GeometryAssumption DEF FreshInv, set_flags
<1>2. UsedFlags' = UsedFlags \cup {n}
  <2>1. n \in Chunk /\ TypeOK
    BY <1>1, ReservedChunks DEF FreshInv
  <2> QED BY <2>1, FlagOfChunk, OneMore DEF set_flags, set_allocation_table_flag
<1>3. UsedFlags' = 0..n
  BY <1>1, <1>2
<1>4. \/ n < Reserved - 1 /\ n' = n + 1 /\ pc' = pc
      \/ n = Reserved - 1 /\ pc' = "idle"
  BY DEF set_flags
<1>5. CASE n < Reserved - 1 /\ n' = n + 1 /\ pc' = pc
  <2>1. n' \in 0..(Reserved - 1) /\ n' - 1 = n
    BY <1>1, <1>5
  <2> QED BY <1>1, <1>3, <1>5, <2>1 DEF FreshInv
<1>6. CASE n = Reserved - 1 /\ pc' = "idle"
  BY <1>1, <1>3, <1>6 DEF FreshInv, Afresh
<1> QED BY <1>4, <1>5, <1>6

LEMMA NextFresh ==
  FreshInv /\ [Next]_vars => FreshInv' /\ [pc' = "idle" /\ pc \in Formatting => Afresh]_vars
<1> SUFFICES ASSUME FreshInv, [Next]_vars
             PROVE  FreshInv' /\ [pc' = "idle" /\ pc \in Formatting => Afresh]_vars
  OBVIOUS
<1>1. TypeOK'
  BY NextType DEF FreshInv
<1>2. CASE clear_table
  BY <1>1, <1>2, ClearTableFresh
<1>3. CASE set_flags
  BY <1>1, <1>3, SetFlagsFresh
<1>4. CASE write_magic
  BY <1>1, <1>4, GeometryAssumption DEF write_magic, FreshInv, TableLba
<1>5. CASE clear_head
  BY <1>1, <1>5 DEF clear_head, FreshInv
<1>6. CASE UNCHANGED vars
  <2>1. UsedFlags' = UsedFlags
    BY <1>6 DEF vars, UsedFlags, sbf_to_atla
  <2> QED BY <1>1, <1>6, <2>1 DEF vars, FreshInv
<1>7. CASE pc \notin Formatting /\ pc' \notin {"clear_table", "set_flags"}
  BY <1>1, <1>7 DEF FreshInv
<1>8. CASE get_root \/ (\E name \in Names : create_directory(name) \/ create_file(name))
           \/ allocate_chunk \/ EnterEntry
  BY <1>7, <1>8
  DEF get_root, create_directory, create_file, Create, allocate_chunk, EnterEntry, Formatting
<1>9. CASE Crash
  BY <1>1, <1>9 DEF Crash, FreshInv
<1> QED BY <1>2, <1>3, <1>4, <1>5, <1>6, <1>8, <1>9 DEF Next, Kernel, init_root

(* Whatever the image held, whatever an earlier formatting that was cut short
   left, and whatever a disk that is formatted again had on it, formatting ends
   with the reserved flags and no others, and with a first directory sector
   without entries (init_root, fs_driver.c:235-275): for every geometry. *)
THEOREM FormatsAfresh == Spec => FormattingStartsAfresh
<1>1. Init => FreshInv
  BY InitType DEF Init, FreshInv
<1>2. FreshInv /\ [Next]_vars => FreshInv'
  BY NextFresh
<1>3. FreshInv /\ [Next]_vars => [pc' = "idle" /\ pc \in Formatting => Afresh]_vars
  BY NextFresh
<1>4. [][pc' = "idle" /\ pc \in Formatting => Afresh]_vars => FormattingStartsAfresh
  BY PTL DEF FormattingStartsAfresh, Afresh
<1> QED BY <1>1, <1>2, <1>3, <1>4, PTL DEF Spec
=============================================================================
