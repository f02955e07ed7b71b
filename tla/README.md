# dvida_os: models, checks and proofs

dvida_os is a small 32-bit x86 kernel: it boots through multiboot, sets up
segments, interrupts and paging, shows a VGA text terminal, reads a PS/2
keyboard into a one-line command shell, and keeps a root directory on an ATA
disk. This directory holds TLA+ models of its parts, the TLC configurations
that check them on small instances, and proofs that TLAPS checks for every
value of the constants.

Everything runs on one CPU. The main thread (`kernel_main`, then an idle loop)
is interrupted by IRQ handlers that run to completion with interrupts disabled
(all gates are interrupt gates, `boot/interrupt/idt.asm`). There are no locks, no
scheduler and no tests.

## 1. Inventory

Paths are relative to `src/src/`.

| component | source | state | operations |
|---|---|---|---|
| file system driver | `kernel/mod/file_system/fs_driver.c` | the disk (magic word, allocation table, root directory), `data_buffer`, `directory_content_buffer`, `current_directory_lba_address` | `get_root`, `init_root`, `create_directory`, `create_file`, `allocate_chunk`, sector reads and writes |
| timer and sleep | `kernel/mod/time/time.c` | `global_timer` | `on_update` (IRQ 0), `sleep` |
| terminal | `kernel/mod/terminal/terminal.c` | the VGA buffer, `terminal_row`, `terminal_column`, the hardware's cursor | initialize, putchar, advance, newline, back, cursor_back, moveup, `printf`, `erasef` |
| keyboard driver | `kernel/mod/keyboard/keyboard_driver.c` | `keyboard[]`, `capslock`, the state of the input `current_io_state` | `process_key` (IRQ 1): printable and editing keys, shift, caps lock, end of command |
| shell | `kernel/mod/crashell/interpreter.c`, `kernel/mod/utils/str_utils.c` | `command_buffer`, `command_buffer_index` | `execute_command`, `echo`, `clear`, `help`, `strcmp` |
| kernel main | `kernel/kernel.c` | where it is; it sets `current_io_state` | the order of root, prompt, shell and creations |
| interrupt dispatch | `kernel/mod/interrupt/handlers.c`, `boot/interrupt/isr_wrapper.asm`, `idt.asm` | the stack frame | `isr_handler`, `irq_handler` |
| interrupt controller | `boot/interrupt/pic.c` | masks, request and in-service registers of two 8259 | remapping, masks, end of interrupt |
| boot | `boot/boot.asm`, `boot/gdt.asm`, `boot/paging.asm` | control registers, descriptor and page tables | the order in which the parts are brought up |
| ports and CPU | `kernel/mod/utils/asm_utils.asm` | none | `in`, `out`, `halt_cpu` |
| memory manager | `kernel/mod/memory/memory_manager.c` | heap pointer, block headers | `malloc`, `realloc`, `free` (not in the build) |

How they interact:

- `kernel_main` calls `get_root`, then `create_directory` and `create_file`.
  Every sector read or write sleeps, so it needs IRQ 0 to get anywhere; it prints,
  so it shares the terminal with the keyboard handler.
- IRQ 1 runs the keyboard driver, which echoes to the terminal, and on Enter runs
  `execute_command` to its end inside the handler.
- IRQ 0 runs `on_update`. An IRQ that arrives while a handler runs waits in the
  controller, which remembers one of each kind: more than one tick during a long
  command is one tick.
- `current_io_state` is how the main thread tells the keyboard handler what a key
  means; both write it.

What is hard here: power loss between two disk writes; reads that fail without
being reported; one buffer shared by every sector operation; ticks between the
test and the `hlt` of a sleeping thread; state that survives from one command to
the next; cursors, tables and buffers at their limits; what a key does before the
shell is ready for it; and the terminal written by two contexts without
exclusion.

What makes each part correct:

| component | properties |
|---|---|
| file system | names are unique; every entry owns a chunk of its own, that is marked and not one of the file system's; a stop at any moment loses at most the entry in progress; the boot gets through formatting |
| sleep | never early; not late by more than the processor is slow; it ends |
| terminal | the screen shows the end of the text, the cursor its last place, whatever wraps, scrolls or is erased |
| keyboard and shell | what is recorded was shown and is not erased; what was typed is what runs |
| disk access | a disk that answers early or late costs no formatted disk its magic word, its flags or its entries; every call returns |
| interrupts, boot | every request is acknowledged once, on the controllers it came through; no code of the keyboard is left behind; a shift that is held is the driver's; what the kernel sleeps on is what the controllers give it |
| memory manager | blocks do not overlap and stay in the heap (not modelled: not built) |

## 2. Modules

| module | role |
|---|---|
| `Directory` | abstract: what the file system promises |
| `FileSystem` | the driver, one disk write per step, with stops between them; implements `Directory` |
| `FileSystemProofs` | theorems on `FileSystem` |
| `DirectoryProofs` | theorems on `FileSystem` that rest on counting chunks, and that it implements `Directory` |
| `MCFileSystem` | its instance for TLC |
| `Disk` | the ports of the disk under the driver's calls, with a disk of any speed |
| `DiskProofs` | theorems on `Disk` |
| `Sleep` | timer, `sleep` and the interrupts that run between its instructions |
| `SleepProofs` | theorems on `Sleep` |
| `Interrupts` | the two controllers, the boot, the dispatch and the keyboard's codes; implements `Sleep` |
| `InterruptsProofs` | theorems on `Interrupts`, and that it implements `Sleep` |
| `Terminal` | the terminal's operations |
| `TerminalText` | `Terminal` and `printf`'s numbers against the text that was printed |
| `TerminalProofs` | theorems on `TerminalText` |
| `Shell` | the interpreter, as functions of the command buffer |
| `Keyboard` | the driver, the input's states and `kernel_main`'s part in them; uses `Shell` |
| `KeyboardProofs` | theorems on `Keyboard` |
| `MCKeyboard` | its keys and words for TLC |
| `Induction` | least elements, induction and recursion over intervals, for the proofs |

An operator whose name has an underscore and a capitalized word after it
(`Call_NoWrap`) is a faulty variant of the operator it is named after. The
specifications do not use it: it is what a property is tried on, to see that the
property notices the fault.

Modules meet in three ways. `FileSystem` implements `Directory` and `Interrupts`
implements `Sleep`, both by a refinement that is checked and proved. `Keyboard`
uses `Shell`'s functions and `TerminalText` `Terminal`'s operators. `Disk` stands
beside `FileSystem`: it has the same calls on sectors of bits, with a disk that
fails, and says which of `FileSystem`'s assumptions on the disk hold (section 4).

## 3. The file system

`Directory` states what the driver promises: a catalog that only grows, whose
entries have distinct keys, each naming a chunk that was taken before and that no
other entry names.

A step of `FileSystem` is the code up to and including its next `write_sector`,
so `Crash` can fall between any two writes; reads belong to the step of the
write that follows. `pc` and `n` say where the code is in `init_root`'s loops or
in a creation. The disk is `magic`, `table` and `dir`; sectors are sets of flags
or functions from slots to entries, and a sector of ones that is written over the
directory is read as entries with every bit set. `torn` is a history variable: a
stop left the magic word without a complete table.

| action | code |
|---|---|
| `get_root` | read LBA 0, compare the magic word, skip or enter `init_root` (278-311) |
| `clear_head`, `write_magic`, `clear_table`, `set_flags` | the four stages of `init_root` (235-275), one write each |
| `create_directory`, `create_file` | the duplicate check and the search for a slot (371-435, 484-592) |
| `allocate_chunk` | first clear flag, table sector written, buffer restored or not (318-355) |
| `EnterEntry` | the entry put into `data_buffer`, sector written (440-478) |
| `Crash` | power off between two writes, memory lost |

| run | checks | shows |
|---|---|---|
| `fs_safety` | `TypeOK`, `NamesUnique`, `ChunksMarked`, `ChunksUnshared`, `MetadataSafe`, `BufferRestored`, `EntriesKept`, `ImplementsDirectory` | a blank image, two stops anywhere, also while formatting |
| `fs_live` | `EventuallyBooted`, `CreationCompletes`, `FormattingStartsAfresh` | an image that held something before, a first sector that may be unreadable, three stops, and a table that runs out |
| `fs_crash_in_format` | `EntriesOutsideMetadata`, violated | see below |
| `fs_table_full` | `BufferRestored`, violated | see below |

Bounds. The instance has 3 table sectors of 3 flags, a directory of 2 sectors of
2 entries, and 3 reserved chunks. That is the smallest geometry with the shape of
the real one (31, 4096, 8, 16 and 5): metadata that fills its chunks exactly,
`init_root`'s loops that run over the table into the first of several directory
sectors, an unchecked last slot, and more chunks than one table sector has flags.
Two or three names and two types are enough for duplicates and for a full
directory. With two stops the table cannot run out; with three it can, and the
run that needs it has three. Names are interchangeable, so `fs_safety` uses their
symmetry; `fs_live`, which checks liveness, does not. `FormattingStartsAfresh` is
checked there because of its images: any of the table's sectors and of the
directory's entries may be all ones (other bytes are not tried), and a
formatting leaves the same table and the same first directory sector. The
directory's other sectors stay as they were, of which it says nothing.

Fairness. The driver is a straight line of code on a single thread: what is in
progress is weakly fair. Calls are not: nobody has to create anything. Stops are
bounded by `MaxCrashes`, so the liveness properties speak of the time after the
last one. That the sleeps inside a sector operation end is `Sleep`'s
`SleepEnds`; that a read or a write of a sector ends needs no more than that,
because both count their polls.

What the runs found:

- *A stop while formatting* (`fs_crash_in_format`). The magic word is written
  before the table is initialized (`fs_driver.c:252`). After a stop between the
  two the disk counts as formatted, and chunks 0, 1, ... are handed out, which are
  the table's own sectors. `MetadataSafe` says that nothing else leads there.
- *A full table* (`fs_table_full`). `allocate_chunk` returns -1 without restoring
  `data_buffer` (`fs_driver.c:354`), and the caller writes a sector of the table
  over one of the directory.

Three more behaviours of the model have no run of their own. They can be seen by
changing a constant of `fs_safety.cfg`:

- `BlankImage = FALSE`: `init_root` clears LBA 1 to 32, and the root directory is
  LBA 32 to 39. What an image that was used before holds in LBA 33 to 39 is read
  as entries that nobody created (`ImplementsDirectory`). Stale bytes are modelled
  as entries of ones only, and a stale table's sectors as ones (`init_root` clears
  them all before anything reads them).
- `RootReadMayFail = TRUE`: `read_sector_with_retry` does not report that it gave
  up, `get_root` then looks at zeros, and formats a formatted disk. Entries are
  lost (`EntriesKept`). `FileSystem` takes the formatting that follows as carried
  out; section 4 shows that the disk does not take it.
- After that second formatting only the first directory sector is empty, so the
  last slot can be in use while others are free, and the duplicate check, which
  looks at 127 of 128 entries (`fs_driver.c:379`), misses it (`NamesUnique`).

Comments and code disagree on details that change nothing: the magic word is
`DVFS`, and called `DFRS` (247) and `DFRT` (284); 31 sectors of table are
addressed modulo 32.

## 4. The disk under the driver

The driver waits with `sleep(1)` where it should look at the status register, and
`wait_for_disk` waits for the busy bit to be *set* (`fs_driver.c:114`). Whether
a disk is slow or fast therefore decides what happens. `Disk` has the driver port by
port over a disk that may answer at any time, and above it the calls of
`get_root`, `init_root` and a creation, sector by sector. A sector is a set of
bits; what is decided by what the bits mean (is the name there, is a slot free) is
a choice, where `FileSystem` has the meaning.

| action | code |
|---|---|
| `outb_count`, `outb_lba`, `outb_command` | the registers of a command (134-143 and the same in `write_sector`) |
| `wait_for_disk` | busy seen, or time out and a retry, or given up in silence (110-123, 162-172) |
| `read_data`, `write_data` | the 256 words (149-160, 193-207) |
| `get_root`, `clear_head`, `write_magic`, `clear_table`, `set_allocation_table_flag`, `Create`, `allocate_chunk`, `EnterEntry` | the callers, cut at each sector |
| `Finish` | the disk is done |
| `Reboot` | a reset, of the disk too |

The disk itself is external, and behaves like that of QEMU, on which the
repository's `run.sh` runs the kernel: while it is busy or has data to pass, it
ignores registers and commands; its data port moves data in the direction of the
command only, and gives zeros otherwise; after a command the sector register has
counted on and the count register is 0, which stands for 256.

`disk_timing` checks:

- `MagicKept`: a formatted disk keeps its magic word under any timing.
- `DiskKept`: in a boot in which no command outlasts the sleep that begins the
  next one, a formatted disk loses no bit. It is not the driver that sees to this.
  A disk that was too fast is read as a time out, its sector stays unfetched, and
  a disk with an unfetched sector takes no command: neither the retries nor any write
  get through until the next reset. A disk that is a little late is read as zeros,
  in whole or at the front, `get_root` takes a formatted disk for a new one, and
  formats it; but then, too, the sector is still waiting, and the disk takes
  none of the formatting's writes. So `FileSystem` with `RootReadMayFail = TRUE` says
  more than can happen: its second formatting reaches the disk.
- `CallsReturn`: the polls are counted, so every call returns.

What a command that does outlast the next sleep (`late`) may do is excepted:
registers that were written while the disk was busy are ignored, and a
sector is then read for another; a command may start with the stale count 0, and
a write then runs on through the sectors that follow. The counterexamples that TLC
gives when `~late` is dropped from `DiskKept` are of these two kinds. Neither ever
reaches sector 0 (`MagicKept`).

Bounds. 2 table sectors, 1 directory sector, 2 bits, 3 reserved flags (more than
one sector of them), 2 tries, 1 reboot, which is not followed after a late
command. The same properties were checked by hand with 3 bits and 4 reserved flags
(2.3 million states). A disk that becomes ready in the middle of the 256 words
of a write, and takes only the last of them, is not followed.

Fairness. The disk finishes what it began (`WF(Finish)`), and the kernel goes on
(`WF(Driver \/ Kernel)`), which is what `SleepEnds` says of its sleeps.

## 5. Sleep

`sleep` loops over a test of `global_timer` and a `hlt`. `Sleep` cuts it where an
interrupt can come in: between the test and the `hlt`, and while halted. (gcc
reloads `global_timer` in every round, so the test is one instruction that reads
memory.) The controller holds one request per line and serves the timer first;
the keyboard's handler takes time, since it runs whole commands, and ticks may
come while it does. So does the disk's: its line is unmasked, and `irq_handler`
prints a message for it.

| action | code |
|---|---|
| `Call` | the deadline is computed, modulo 2^32 (24) |
| `Test`, `Halt` | the loop's test and its `hlt` (25-28) |
| `on_update` | `irq_0` and `on_update` (11-14) |
| `HandlerBegins`, `HandlerEnds` | `irq_1`, or the message for IRQ 14, begins and ends |
| `Tick`, `Raise` | the hardware raises a request |

`quick`, chosen at the start, is the assumption under which `sleep` is exact: a
handler is done before the next request, a key is one request, a woken thread
is halted again before the next tick, and the first tick after the call finds it
halted too. Ticks are 55 ms apart, so a woken thread has time; but `sleep` may be
called at any moment between two of them, and a tick between the first test and
the `hlt` is possible on every processor, if only for an instruction. What `quick`
leaves out, `sleep_missed` has: `QuickNotOvershot` and `SleepEnds` say that keys,
handlers and the wrap of the timer make no sleep miss its end, and nothing of a
tick in that place.

- `sleep_ticks`: `NeverEarly` in every case, `QuickNotOvershot` and
  `SleepEnds` when quick.
- `sleep_missed`: without the assumption `NotOvershot` is violated. A second tick
  that is counted between the test and the next test takes the timer past the
  deadline, which is compared for equality, and `sleep` waits for 2^32 ticks.

Bounds. The modulus is 5, the durations 1 and 2 (the code's only argument is 1):
the timer wraps within a sleep, and a missed deadline comes round again. `counted`
stops at twice the modulus.

Fairness. Handlers are weakly fair: interrupts are served as soon as they are
enabled. The thread's test and `hlt` are strongly fair, because a request disables
them for the time of its handler: a typist does not press keys so fast that the
thread never runs. The timer ticks again and again while the processor is halted.

## 6. Interrupts

`Sleep` takes it for granted that a request is served and that a handler's end lets
the next one in. `Interrupts` has what this rests on: the request and in-service
registers of the two controllers, their vectors, the order of the boot, the
dispatch, and the codes in the keyboard. `ImplementsSleep` is the refinement: with
a request being a line that is raised and can still be served, every
step of it is one of `Sleep`'s or invisible to it.

| action or operator | code |
|---|---|
| `Sti`, `paging_init`, `pic_config` | `boot.asm`, and `pic_init` word by word; `stage` is the next of them |
| `Take`, `isr_handler`, `irq_0`, `irq_1`, `process_key` | a line is taken, on both controllers if it is the second one's, and dispatched by its vector (`handlers.c`); `irq_1` reads one code |
| `Return`, `pic_send_end_of_interrupt` | the end of a handler; only vectors from 32 on have an end of interrupt |
| `Call`, `Test`, `Halt` | the main thread, as in `Sleep` |
| `Tick`, `OtherKey`, `OtherModifier`, `LeftShift`, `PrintScreen`, `DiskDone` | the devices, and `Take` the processor: external |

- `AllAcknowledged`: outside a handler nothing is in service but what was `caught`,
  that is, taken at a vector of an exception after the controller was reset.
  `irq_handler` calls `pic_send_end_of_interrupt` without its argument
  (`handlers.c:47`). What is found in its place decides whether the second
  controller is told; it is if that is at least 8. gcc at the build's -O2 makes the
  call a jump, so the place holds what `irq_handler` itself was given, which is
  such a number: `Leftover` is {TRUE}. With FALSE in it TLC finds the
  property violated at the disk's first interrupt: IRQ 14 stays in service.
- `CodesAnnounced`: while a code waits, the keyboard's interrupt is due, although
  a handler reads one code per interrupt and keys send up to four.
- `ShiftFollowsKey`: the driver reads the codes after `0xE0` as if they stood
  alone, so it takes the fake shift of print screen for the real one
  (`keyboard_driver.c:792-798`). With everything read, a left shift that is held
  is the driver's. The other way round it is not always so: a keyboard
  leaves the fake shift out while a shift, Ctrl or Alt is held, so with print
  screen pressed alone and let go with one of them, the driver keeps a shift
  that nobody holds. `mixed` remembers that, until the left shift is let go or
  print screen is pressed and let go alone; without it and with print screen up,
  the driver's shift is the one that is held.
- `RequestsServed`: a request is served, the timer's always, the others' if those
  before them leave them time.

Two things go wrong in the boot that the properties except, by `Remapped`
and `caught`. `sti` comes before the controllers are remapped
(`boot.asm:66`): a tick or key is then taken at vector 8 or 9, an exception's,
whose handler prints and sends no end of interrupt. The reset of `pic_init` makes
up for this. But between the first word of `pic_init`, which resets the
controller, and the second, which gives it its vectors, a tick is
taken at vector 0: it stays in service, and as it is the first line, no
interrupt ever comes again, and the first `sleep` never ends. A key there blocks
all lines but the timer. The window is a few instructions wide.

Bounds. The timer's modulus is 3 and sleeps are one tick, as in the code; the
keyboard holds 2 codes, so that those of two keys, or the key and its fake shift,
wait together. (The theorems are for any number.) Codes that
the driver makes nothing of are one. The keyboard is QEMU's, which sends fake
shifts for print screen only; others send them for the arrows and the keys
beside them too. Masks are left out: `pic_init` leaves all
lines unmasked, and the functions that change or read masks and registers have
no caller.

Fairness. Handlers return (`WF(Return)`), and the processor takes an interrupt
that is pending again and again (`SF(Take)`), because a handler that runs
disables it for a while. That higher lines leave room for lower ones is not
fairness of the kernel's; it is the premise (`Leave`) of those parts of `RequestsServed`.

## 7. The terminal

A step of `TerminalText` is one character printed, one erased, the screen cleared,
or one round of a loop of `printf`'s conversion of a number. `Terminal` has the code's own operators, with the tests in their order;
`TerminalText` adds the text that should be seen, lays it out from nothing
(`LinesOf`), and compares. What a number should look like is not computed either:
`Decimal` is the sequence of digits that has its value.

| operator | code |
|---|---|
| `terminal_initialize` | 103-124 |
| `MovedUp` | the loops of `terminal_moveup` (143-161) |
| `terminal_advance`, `terminal_putchar`, `terminal_newline` | 188-254 |
| `PrintChar` | `printf` of a character (322-397) |
| `Number`, `Divide`, `PutDigit` | `printf` of `%u`: zero at once, the digits taken, the digits printed from the last (367-388) |
| `terminal_back`, `EndOfText`, `erasef` | 261-300, 405-418 |

- `term_text`: `OnScreen`, `ScreenShowsText`, `CursorShowsEnd`, for all texts of up to
  8 characters on a screen of 2 lines of 3, long enough to wrap and scroll twice
  and to erase back over both. Letters are interchangeable: one is enough beside
  the space, which the code tells from `'\0'`.
  The same run has numbers: `text` gets the whole number when its conversion begins,
  so `ScreenShowsText` says that its digits come out right and in order, across
  lines and scrolls, and `DigitsFit` that the buffer, whose index no test guards
  (`terminal.c:369`), is large enough. It is so because 2^32 <= 10^10, which is
  `NumberAssumption`; the instance has the same edge with base 2, 2 digits and
  numbers up to 3.
- `term_below`: a newline right after the last cell of the screen.
  `terminal_row` is then already the height, the increment takes it past it, and
  every later test is for equality (`terminal.c:240`): nothing is seen any more.

`NewlineAfterWrap` and `EraseAfterScroll` say which inputs are considered.
`term_text` has both FALSE: it shows that the terminal is right apart from the
newline above and from erasing a newline once the screen has scrolled. The
latter is wrong because `terminal_moveup` fills the new line with `' '`
where `erasef` looks for `'\0'`: the cursor stops at the right margin. With
`EraseAfterScroll = TRUE` TLC finds `ScreenShowsText` violated.

## 8. Keyboard and shell

A step of `Keyboard` is a scan code handled to its end, a command it may run
included, one step of `kernel_main`, or another interrupt, whose handler prints.
`line` is what was printed since the last prompt or clearing of the screen and
not erased again, by whomever; `ran` is what the step executed. Two history
variables: `prompted`, `kernel_main` had printed all it prints when the last
prompt came, and `disturbed`, since then a handler has printed into the line or
`erasef` has left a character. What of `line` is seen, and where, is the
terminal's part (section 7).

| action or operator | code |
|---|---|
| `process_stdin_command`: `DeleteOne`, `RecordOne`, `end_of_command` | `keyboard_driver.c:223-296`, 150-154 |
| `process_stdin_common`, `Recorded` | what is printed (166-204) and, decided again, what is recorded (259-294) |
| `process_stdin_data` | keys while the kernel boots (311-320) |
| `Shift`, `CapsLock` | 792-798, 827-834 |
| `erasef`, `Blanks` | what `erasef(1)` may leave of a line (`terminal.c:405-418`, 155-158) |
| `EnterMain`, `ShowPrompt`, `StartShell`, `EndMain` | `kernel.c:12-13`, 24-25, 26, 28-36 |
| `MainPrints` | what the check for repeated names prints, also while the shell takes keys (`fs_driver.c:379-402`) |
| `irq_handler` | the line it prints for the disk's interrupts (`handlers.c:44`) |
| `execute_command`, `echo`, `strcmp` | `interpreter.c`, `str_utils.c` |
| `Printed`, `Put` | the loop of `echo` (11-19): what it has printed by each character |

`erasef` does not always take back the last character: in the first cell of the
screen there is none to take, and from the start of a line it stops in the last
column of the line above if a scroll has filled that with `' '`. So `erasef` in the
model has a set of results, all those that `Terminal` can come to.

- `keyboard_lines`: `LineShowsBuffer`, `TypedWordRuns` and
  `CompleteEchoPrintsText`. The first says that nothing is recorded that was not
  printed and is not erased, in that order, and, unless the line was disturbed,
  that nothing else was printed. The screen may keep a character
  that the buffer has lost, by an `erasef` that stops early (Shift+Enter and two
  backspaces on the last line), or by a message in the line, which a backspace
  erases in place of the user's text. The other two say that what is left in the
  buffer by earlier commands and by backspaces cannot change which command
  runs, nor what a complete `echo` prints.
- `keyboard_stale`: `RunsWhatWasTyped` is violated. A backspace clears the place
  after the character it deletes (`keyboard_driver.c:233`), the end of a command
  clears nothing, and the interpreter looks at the whole buffer: a word that was
  deleted, or that an earlier command completes, runs.

A key that finds the buffer full is dropped and runs the command; a backspace on a
full buffer clears the byte after it, which the model's buffer includes.

`LineShowsBuffer` says nothing of lines that began before `kernel_main` was done,
because they do differ, in three ways. `current_io_state` is 0 before
`kernel_main` sets it, and 0 is
`stdin_command`: a key that comes after `pic_init` and before is recorded,
cleared from the screen and read as the start of the first command. A key
between the prompt and the change of state is shown and not recorded. And with the
shell open `kernel_main` creates four entries (`kernel.c:28-31`) and prints into the line;
a backspace then erases a character of the kernel's on the screen and one of the
user's in the buffer. The two prints may even interrupt each other within a
character: then one overwrites the other, which `line` does not have (section 10).
After that only handlers print, and those do not interrupt one another.

`echo` without a closing quote reads `command_buffer[50]` before it tests its
index (`interpreter.c:12-17`). That is undefined, and gcc at the build's -O2 drops
the test: what follows the buffer in memory is printed, up to a quote. The model
has both outcomes (`bounded`), with `Beyond` for what is printed then.
`echo` also prints each character as a format string, so `%` and `'\0'` print
nothing.

Bounds. A buffer of 4 characters and words of 2; one letter, which gives two
characters, one key with `%` and the quote, Enter, Backspace, shift and caps lock:
an `echo` with a character of text and its quote just fits, a line can be filled, and
stale text can complete a word. `MaxLine`: a line has at most 4
characters, so a message of a handler fits beside two that were typed; a line of
the screen has 2 (`Width`), so `erasef` leaves up to one blank. `MaxEarly`: one
character is typed before there is a shell, and `kernel_main` prints at the start
of a line. The theorems are for all of these.

## 9. Proofs

Everything here holds for all values of the constants, under the assumptions that
the modules name; TLC evaluates those on every run.

| theorem | states | under |
|---|---|---|
| `FileSystemProofs!TypeCorrect` | every variable keeps its type | |
| `FileSystemProofs!NamesStayUnique` | `[]NamesUnique` | a blank image, a readable first sector |
| `FileSystemProofs!ChunksStayUnshared` | `[]ChunksUnshared` | the same |
| `DirectoryProofs!BufferIsRestored` | `[]BufferRestored` | the same, and `EnoughRoom` |
| `DirectoryProofs!PointersStayMarked` | `[]ChunksMarked` | the same |
| `DirectoryProofs!MetadataStaysSafe` | `[]MetadataSafe` | the same |
| `DirectoryProofs!EntriesStay` | `EntriesKept` | the same |
| `DirectoryProofs!DirectoryIsImplemented` | `ImplementsDirectory` | the same |
| `DirectoryProofs!FormatsAfresh` | `FormattingStartsAfresh` | |
| `DiskProofs!TypeCorrect` | `[]TypeOK` | |
| `DiskProofs!MagicWordKept` | `MagicKept` | |
| `DiskProofs!DiskIsKept` | `DiskKept` | |
| `SleepProofs!TypeCorrect`, `SleepIsNeverEarly` | `[]TypeOK`, `NeverEarly` | |
| `SleepProofs!QuickIsExact` | `[]QuickNotOvershot` | |
| `InterruptsProofs!TypeCorrect` | `[]TypeOK` | `Leftover = {TRUE}` |
| `InterruptsProofs!EveryLineAcknowledged` | `[]AllAcknowledged` | the same |
| `InterruptsProofs!NoCodeLeftBehind` | `[]CodesAnnounced` | the same |
| `InterruptsProofs!ShiftIsFollowed` | `[]ShiftFollowsKey` | the same |
| `InterruptsProofs!SleepIsImplemented` | `ImplementsSleep` | the same |
| `TerminalProofs!StaysOnScreen` | `[]OnScreen` | no newline after the last cell |
| `TerminalProofs!CursorIsAtEnd` | `[]CursorShowsEnd` | the same |
| `TerminalProofs!TextIsShown` | `[]ScreenShowsText` | the same, and no erasing over the start of a line after a scroll |
| `TerminalProofs!TypeCorrect` | `[]TypeOK` | both |
| `TerminalProofs!DigitsAlwaysFit` | `[]DigitsFit` | |
| `KeyboardProofs!TypeCorrect` | `[]TypeOK` | |
| `KeyboardProofs!LineIsRecorded` | `[]LineShowsBuffer` | |
| `KeyboardProofs!TypedWordsRun` | `TypedWordRuns` | no word of the interpreter begins another |
| `KeyboardProofs!CompleteEchoIsPrinted` | `CompleteEchoPrintsText` | the same |

- *Names.* The duplicate check does not see the last slot, so `NamesUnique` is not
  inductive. `NamesInv` adds that slots fill in order (`SlotsInOrder`): a free
  slot means a free last slot, so what the check misses is empty. For that the
  directory must be empty when it is formatted (`EmptyUntilFormatted`), nothing is
  created before (`FormattedBeforeUse`), and the slot and name found by
  `create_*` are still free when the entry is written (`CallStillFree`). A buffer
  that was not restored (`BufferIsSector`) fills a sector with entries of ones,
  which keeps the order. A readable first sector is needed: without it TLC
  violates both properties. The blank image is what makes `SlotsInOrder` true;
  on an image with stale entries, all of ones, TLC finds neither violated.
- *Chunks.* `ChunksInv` adds to it that what an entry points to is marked
  (`PointersMarked`), and that a chunk that is about to be named is marked and
  belongs to no entry (`ChunkIsNew`). It rests on `sbf_to_atla` being injective
  on the table (`ChunkInjective`) and on flags never being cleared while entries
  exist. A table left half initialized by a stop does not matter to it, nor does a
  full one.
- *Room.* `EnoughRoom` says that the table has a flag for each reserved chunk,
  for each slot of the directory, and for each stop. (On the real geometry that
  is more than 126,000 stops; `fs_safety`'s instance is exactly at the limit.)
  `RoomInv` accounts for every marked chunk: it is reserved, an entry's, about to
  be one's, or was lost by a stop, at most one for each. Counting (`TableHasRoom`)
  gives `allocate_chunk` a clear flag whenever a slot is free, so it always gives
  `data_buffer` back, and `allocate_chunk` never returns -1. While formatting, `TableInv`
  says which flags are set by now; `FlagOfChunk` that `atla_to_sbf` inverts
  `sbf_to_atla`. From this `MetadataSafe` and `ChunksMarked` follow.
- *Formatting.* `FormattingStartsAfresh` needs none of this, and holds on every image of
  the model with any failed reads: `FreshInv` says, for each stage of `init_root`, what
  its loop has already cleared or marked, and a stage that is cut short begins
  again from its first sector.
- *Refinement of the directory.* `ReadyToEnter` collects what holds when an entry
  is about to be written: the slot is free, the buffer is the directory's sector,
  the chunk is marked, and the name is new. Then `EnterEntry` is `Directory`'s
  step (`Entered`), and every other step leaves the catalog as it is.
- *Disk.* For the magic word, `Aimed`: the disk's register is at sector 0 only from
  its selection to the end of the command, since it counts on and a disk that has
  something to do ignores the next selection; so a write there is one of the magic
  word. For the rest, `KeptInv`: either the disk has a sector that nobody will fetch
  (`Lost`), and stays so until the reset; or driver and disk are at the same
  command (`InStep`), and then what was read is what the disk has (`ReadRight`),
  formatting had a reason (`FormatRight`), the copy that `allocate_chunk` gives
  back is the directory's sector or all ones (`SavedRight`), and every write but
  the formatting's adds to its sector (`WriteRight`).
- *Sleep.* `Distance`: as long as ticks are missing, the deadline is that many
  ticks ahead of the timer, modulo the modulus. `OneTick` is the arithmetic of a
  tick that may wrap the timer, `NotDue` that such a deadline differs from
  the timer. A sleep that has missed its tick is free: it has counted enough.
  `QuickInv` adds that on a quick processor a tick finds the thread outside `sleep` or
  halted and is counted before anything else happens, and that who is halted has
  ticks to wait for: a sleep that has counted its ticks is due (`DueWhenCounted`).
- *Interrupts.* Outside a handler a controller has in service what was caught, and
  inside one that and the line it was taken for; a line is only taken
  if nothing before it is in service, so the end of interrupt, which is for the
  first line in service, is for that one. The second controller is the same with
  the first one's cascade line. For the refinement, a step that serves a line
  that is a request is `Sleep`'s handler; one at a vector of an exception happens
  only while nobody sleeps, and stutters.
  `ShiftFollowsKey` is not inductive: it says nothing while codes wait. `ShiftInv`
  says it of the future: `DownAfter` is the driver's shift once it has
  read the codes that wait. A left shift that is held comes out of them, and with
  print screen up, and not let go with another modifier, no other does.
- *Terminal.* `PlaceInv` adds to `OnScreen` that the column is one of the line's.
  `EndOfTextInLine` shows that `erasef`'s loop has a place to stop. The digits
  (`FitInv`): the number that is left is below `Power[BufferSize - Len(buffer)]`,
  since each digit divides it by the base.
  For the text, `TextInv`: the text is one that the screen shows (`Shows`), then the
  digits that the conversion has yet to take, then those in the buffer, in
  reverse. Under it are three groups of lemmas. *Lines*: a character more
  changes the layout only at its end (`LinesOfAppend`). *Screen*: `Drawn` relates the
  screen to the lines from the first one that is visible, and says what is in the
  cells after a line's end: nothing but `'\0'` before the first scroll, `' '` or `'\0'`
  after it. Moving up, writing a cell and a new line keep it, and `erasef` finds
  the end of the line above (`EraseShows`) as long as there is only `'\0'` to
  skip, which is where the second hypothesis is needed. *Numbers*: every
  number below a power of the base is written with that many digits
  (`NumeralExists`), and its last digit and the rest are what `%` and the division
  give (`NumeralSplits`). `TypeOK` rests on this too: the screen scrolls no more
  often than the text has lines.
- *Keyboard.* `LineInv` adds the buffer's type and that the line `LineShowsBuffer`
  speaks of is typed with `kernel_main` done and keys recorded (`DataPhase`). One
  lemma for each of the three things a recorded key can do, and one for a message.
  What was typed stays embedded in what was printed
  when both get the same character (`EmbeddedAppend`), when more is printed
  (`EmbeddedInMore`), and when the typed text loses its last character and the
  line loses one or none (`EmbeddedLess`) or gets blanks for it (`ErasedShape`). A
  backspace clears the buffer's place *at* the index, which what was typed does not
  have. `TypedWordsRun` adds that what
  was typed is a prefix of the buffer, and that no buffer begins with two of the
  interpreter's words (`ShellAssumption`: none of them begins another). For
  `CompleteEchoIsPrinted`, `echo` stops at the first quote (`TextEnd`), which is the
  typed one, and what it has printed by then is, character for
  character, the text before it, since `'\0'` is no character that a key gives.
- *Induction.* Four of the models' helpers are recursive functions over an interval
  (`Printed`, `Layout`, `Values`, `Power`). The library's theorems on
  induction and on recursive definitions take an operator as a parameter, which
  the installed provers cannot instantiate. `Induction` proves what is needed with
  sets and functions instead, from the well-foundedness of the subsets of a
  finite set: a set of naturals that has 0 and with each its successor has them
  all (`Inductive`, `InductiveBelow`), and a recursion over an interval has a solution
  (`RecursionExists`), so that the functions are what their definitions say.

Model-checked only: liveness (`EventuallyBooted`, `CreationCompletes`, `SleepEnds`,
`RequestsServed`, `CallsReturn`), because the prover does not reason about `ENABLED`,
and so not about fairness. Every invariant and action property that a passing
run checks is also a theorem. The properties of the runs that expect a violation
are false, or false under the constants of that run, and those runs say why.

## 10. Not modelled

- *The terminal shared by two contexts.* `kernel_main` prints while the keyboard
  handler may interrupt it at any instruction; a `clear` in the handler inside
  `terminal_moveup` takes `terminal_row` below zero (`terminal.c:160`). A tick or
  key before `terminal_initialize` prints through a null `terminal_buffer`
  (`terminal.c:10`). Both need the terminal's operations cut into memory accesses.
- *Frames.* Exceptions with an error code return through the common wrapper,
  which removes 8 bytes for every vector (`isr_wrapper.asm:57`). The kernel does not
  run into one on its own.
- *The tables of scan codes.* Which key a code stands for is a switch of constants;
  `Keyboard` has the keys, `Interrupts` the codes that matter to the shift. Codes
  after `0xE0` other than print screen's fake shift are read as keys of their own: some
  multimedia keys type letters, the keypad's Enter and slash work by luck, and
  the right shift and the keypad's digits do nothing.
- *Formats and colours of `printf`*, which change no state but a cell's colour. Of the
  conversions only `%u` has a computation.
- *The masks and registers of the controllers*: their functions have no caller.
- *Page and descriptor tables*: constants written by straight-line assembly.
- *Partial writes*: a disk that gets ready within the 256 words of a write.
- *Memory manager*: it is not part of the build, and nothing calls it.

## 11. Plan

Done, in the order of how much depends on it: `Directory`, `FileSystem`, `Sleep`,
`Terminal`, `TerminalText`, `Shell`, `Keyboard`, `Interrupts`, `Disk`; their type
correctness, every safety property of the passing runs, and both refinements, are
proved.

Next:

1. `Console`: the main thread's `printf` cut into its memory accesses, with the
   keyboard's handler between them, over `Terminal`'s state. Property: the cursor
   stays on the screen and no character is lost but by the known races.
2. Proofs under fewer hypotheses: the file system's on an image that was used
   before (`SlotsInOrder` needs another form there), the interrupts' for what
   holds when the second controller gets no end of interrupt.
3. `ScanCodes` (one- and two-byte codes to keys) and `Heap`, if it is ever built.
