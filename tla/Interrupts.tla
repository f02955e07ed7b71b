----------------------------- MODULE Interrupts -----------------------------
(***************************************************************************)
(* The two interrupt controllers (pic.c), the order in which the boot sets *)
(* them up (boot.asm), the handlers they lead to (handlers.c), and the     *)
(* codes that the keyboard's handler reads.  Sleep knows only of requests; *)
(* here they are the controllers' registers, and module Sleep is what the  *)
(* kernel sees of them.                                                    *)
(*                                                                         *)
(* The devices behave as those of the machine the kernel is run on         *)
(* (run.sh: QEMU): the interrupt controllers raise interrupts while they   *)
(* are initialized too, and the keyboard's line falls and rises again when *)
(* one of several codes is read.                                           *)
(***************************************************************************)
EXTENDS Integers, FiniteSetsExt, Sequences

CONSTANTS
  Modulus, Durations,  \* see Sleep
  MaxCodes,            \* bound: codes that wait in the keyboard
  Leftover             \* what can lie where pic_send_end_of_interrupt expects
                       \* its argument: TRUE is a number that is at least 8

ASSUME InterruptsAssumption ==
  /\ Modulus \in Nat \ {0}
  /\ Durations \subseteq 1..(Modulus - 1)
  /\ MaxCodes \in Nat \ {0}
  /\ Leftover # {} /\ Leftover \subseteq BOOLEAN

VARIABLES
  stage,     \* the next instruction of the boot: see Stages
  irr, isr,  \* requested and in-service lines, for each controller
  base,      \* each controller's first vector
  running,   \* the vector whose handler runs, or NoVector
  caught,    \* history: lines that were taken at an exception's vector since
             \* the first controller was reset
  codes,     \* what the keyboard has sent and nobody has read
  sensed,    \* the first controller has seen the keyboard's line high
  held,      \* the left shift is held
  others,    \* another modifier is held: the right shift, Ctrl or Alt
  printing,  \* the print screen key is held
  mixed,     \* history: print screen was let go with another modifier held,
             \* and neither it alone nor the left shift since
  shift,     \* keyboard[keycode_left_shift]
  pc, temp, time, global_timer, quick, counted  \* see Sleep

sleepVars == <<pc, temp, time, global_timer, quick, counted>>
keys == <<codes, held, others, printing, mixed, shift>>
chips == <<irr, isr, base, sensed>>
vars == <<stage, chips, running, caught, keys, sleepVars>>

Stages == {"sti", "paging_init", "ICW1_pic1", "ICW1_pic2", "ICW2_pic1",
           "ICW2_pic2", "ICW3", "kernel_main"}

(* The lines of the first controller, and the disk's on the second. *)
Timer == 0
Keyboard == 1
Cascade == 2
Disk == 6

NoVector == -1

(* "2A" and "AA": the left shift's codes, which also come after E0 (the fake
   shift).  "other": any that the driver does nothing with, E0 among them. *)
Codes == {"2A", "AA", "other"}

(* The second controller asks through a line of the first.  A line in service
   holds back itself and those after it. *)
Pending2 == {l \in irr["pic2"] : \A s \in isr["pic2"] : l < s}

Pending == {l \in irr["pic1"] \cup {k \in {Cascade} : Pending2 # {}} :
              \A s \in isr["pic1"] : l < s}

(* From here on a tick is at vector 32, and a key at 33. *)
Remapped == stage \in {"ICW2_pic2", "ICW3", "kernel_main"}

IrqVectors == 32..47

(* What Sleep calls a request: one that can still be served. *)
Request ==
  IF ~Remapped THEN {}
  ELSE {line \in {"timer", "keyboard", "disk"} :
          /\ line = "timer" => Timer \in irr["pic1"]
          /\ line = "keyboard" => Keyboard \in irr["pic1"]
          /\ line = "disk" => Disk \in irr["pic2"]
          /\ caught # {} => line = "timer" /\ Timer \notin caught}

Kernel == INSTANCE Sleep WITH request <- Request,
                              handling <- running \in IrqVectors \ {32}

TypeOK ==
  /\ stage \in Stages
  /\ irr \in [pic1 : SUBSET {Timer, Keyboard}, pic2 : SUBSET {Disk}]
  /\ isr \in [pic1 : SUBSET {Timer, Keyboard, Cascade}, pic2 : SUBSET {Disk}]
  /\ base \in [pic1 : {0, 8, 32}, pic2 : {0, 112, 40}]
  /\ running \in {NoVector, 0, 1, 8, 9} \cup IrqVectors
  /\ caught \subseteq {Timer, Keyboard}
  /\ codes \in Seq(Codes) /\ Len(codes) <= MaxCodes
  /\ {sensed, held, others, printing, mixed, shift} \subseteq BOOLEAN
  /\ Kernel!TypeOK

(* The BIOS has its own vectors; interrupts were off since the boot loader,
   so a tick or a key may wait.  Nothing is held down. *)
Init ==
  /\ stage = "sti"
  /\ irr \in [pic1 : SUBSET {Timer, Keyboard}, pic2 : {{}}]
  /\ isr = [pic1 |-> {}, pic2 |-> {}]
  /\ base = [pic1 |-> 8, pic2 |-> 112]
  /\ running = NoVector
  /\ caught = {}
  /\ codes \in {<<>>, <<"other">>}
  /\ sensed = (codes # <<>>) /\ sensed = (Keyboard \in irr["pic1"])
  /\ held = FALSE /\ others = FALSE /\ printing = FALSE
  /\ mixed = FALSE /\ shift = FALSE
  /\ Kernel!Init
-----------------------------------------------------------------------------
(* The boot, and then the main thread: nothing asks and nothing runs. *)
MainRuns == running = NoVector /\ Pending = {}

(* Interrupts are enabled before paging and the controllers are set up. *)
Sti ==
  /\ stage = "sti"
  /\ stage' = "paging_init"
  /\ UNCHANGED <<chips, running, caught, keys, sleepVars>>

paging_init ==
  /\ stage = "paging_init" /\ MainRuns
  /\ stage' = "ICW1_pic1"
  /\ UNCHANGED <<chips, running, caught, keys, sleepVars>>

(* The first initialization word resets a controller, which forgets the level
   of its lines too. *)
Reset(pic) ==
  /\ sensed' = (sensed /\ pic # "pic1")
  /\ irr' = [irr EXCEPT ![pic] = {}]
  /\ isr' = [isr EXCEPT ![pic] = {}]
  /\ base' = [base EXCEPT ![pic] = 0]

(* Mutant: every controller is given the second one's offset. *)
Remap_SecondForBoth(pic, vector) ==
  /\ base' = [base EXCEPT ![pic] = 40]
  /\ UNCHANGED <<irr, isr, sensed>>

(* The second one sets its first vector. *)
Remap(pic, vector) ==
  /\ base' = [base EXCEPT ![pic] = vector]
  /\ UNCHANGED <<irr, isr, sensed>>

(* pic_init calls pic_config(0x20, 0x28).  Every outb is a step; the words
   after the second, and the masks, change nothing that is modelled. *)
pic_config ==
  /\ MainRuns
  /\ \/ /\ stage = "ICW1_pic1" /\ stage' = "ICW1_pic2"
        /\ Reset("pic1")
        /\ caught' = {}
     \/ /\ stage = "ICW1_pic2" /\ stage' = "ICW2_pic1"
        /\ Reset("pic2")
        /\ UNCHANGED caught
     \/ /\ stage = "ICW2_pic1" /\ stage' = "ICW2_pic2"
        /\ Remap("pic1", 32)
        /\ UNCHANGED caught
     \/ /\ stage = "ICW2_pic2" /\ stage' = "ICW3"
        /\ Remap("pic2", 40)
        /\ UNCHANGED caught
     \/ /\ stage = "ICW3" /\ stage' = "kernel_main"
        /\ UNCHANGED <<chips, caught>>
  /\ UNCHANGED <<running, keys, sleepVars>>

(* The main thread sleeps: Sleep has the code's account of it. *)
Call(t) ==
  /\ stage = "kernel_main" /\ pc = "awake" /\ MainRuns
  /\ pc' = "test"
  /\ time' = t
  /\ temp' = (global_timer + t) % Modulus
  /\ counted' = 0
  /\ UNCHANGED <<stage, chips, running, caught, keys, global_timer, quick>>

Test ==
  /\ pc = "test" /\ MainRuns
  /\ pc' = IF global_timer = temp THEN "awake" ELSE "hlt"
  /\ UNCHANGED <<stage, chips, running, caught, keys, temp, time, global_timer, quick, counted>>

Halt ==
  /\ pc = "hlt" /\ MainRuns
  /\ pc' = "halted"
  /\ UNCHANGED <<stage, chips, running, caught, keys, temp, time, global_timer, quick, counted>>
-----------------------------------------------------------------------------
(* Mutant: irq_handler takes the vector's number for the line's. *)
irq_0_NoOffset(vector) ==
  IF vector = Timer
  THEN /\ global_timer' = (global_timer + 1) % Modulus
       /\ counted' = IF pc = "awake" THEN counted ELSE Min({counted + 1, Kernel!MaxCounted})
  ELSE UNCHANGED <<global_timer, counted>>

(* The timer's vector counts a tick. *)
irq_0(vector) ==
  IF vector = 32
  THEN /\ global_timer' = (global_timer + 1) % Modulus
       /\ counted' = IF pc = "awake" THEN counted ELSE Min({counted + 1, Kernel!MaxCounted})
  ELSE UNCHANGED <<global_timer, counted>>

(* Mutant: the release of a shift is taken for that of any key. *)
process_key_NoRelease(code) ==
  shift' = (shift \/ code = "2A")

(* What process_key makes of a code, as far as the shift goes: E0 is a code
   that it knows nothing of, and what follows is a code of its own. *)
process_key(code) ==
  shift' = CASE code = "2A" -> TRUE
             [] code = "AA" -> FALSE
             [] OTHER -> shift

(* Mutant: the code stays in the keyboard's port. *)
irq_1_NoRead(vector) ==
  IF vector = 33
  THEN process_key(Head(codes)) /\ UNCHANGED <<codes, sensed>>
  ELSE UNCHANGED <<codes, shift, sensed>>

(* The keyboard's vector reads one code and handles it. *)
irq_1(vector) ==
  IF vector = 33
  THEN /\ process_key(Head(codes))
       /\ codes' = Tail(codes)
       /\ sensed' = (Tail(codes) # <<>>)
  ELSE UNCHANGED <<codes, shift, sensed>>

(* isr_handler and irq_handler up to the end of interrupt: the other vectors
   print that nobody handles them. *)
isr_handler(vector) == irq_0(vector) /\ irq_1(vector)

(* The processor takes an interrupt: the first line that is pending goes into
   service, of both controllers if it is the second one's.  A keyboard with
   another code asks again as soon as the first is read. *)
Take(line) ==
  /\ stage # "sti" /\ running = NoVector
  /\ line \in Pending /\ \A l \in Pending : line <= l
  /\ LET line2 == IF line = Cascade THEN {Min(Pending2)} ELSE {}
         vector == IF line = Cascade THEN base["pic2"] + Min(Pending2)
                   ELSE base["pic1"] + line
         again == {k \in {Keyboard} : codes' # codes /\ sensed'}
     IN /\ isr_handler(vector)
        /\ irr' = [pic1 |-> (irr["pic1"] \ {line}) \cup again, pic2 |-> irr["pic2"] \ line2]
        /\ isr' = [pic1 |-> isr["pic1"] \cup {line}, pic2 |-> isr["pic2"] \cup line2]
        /\ running' = vector
        /\ caught' = IF vector \in IrqVectors THEN caught ELSE caught \cup {line}
  /\ pc' = IF pc = "halted" THEN "test" ELSE pc
  /\ UNCHANGED <<stage, base, held, others, printing, mixed, temp, time, quick>>

(* A non-specific end of interrupt is for the first line in service. *)
Ended(lines) == {l \in lines : \E s \in lines : s < l}

(* Mutant: only the controller the line belongs to is told. *)
pic_send_end_of_interrupt_One(large) ==
  isr' = IF running >= 40 THEN [isr EXCEPT !["pic2"] = Ended(@)]
                          ELSE [isr EXCEPT !["pic1"] = Ended(@)]

(* Mutant: the second controller is told by its number, which is not there. *)
pic_send_end_of_interrupt_First(large) ==
  isr' = [isr EXCEPT !["pic1"] = Ended(@)]

(* irq_handler passes no argument; large tells what is there instead. *)
pic_send_end_of_interrupt(large) ==
  isr' = [pic1 |-> Ended(isr["pic1"]),
          pic2 |-> IF large THEN Ended(isr["pic2"]) ELSE isr["pic2"]]

(* The handler ends: irq_handler with an end of interrupt, isr_handler without. *)
Return ==
  /\ running # NoVector
  /\ IF running \in IrqVectors
     THEN \E large \in Leftover : pic_send_end_of_interrupt(large)
     ELSE UNCHANGED isr
  /\ running' = NoVector
  /\ UNCHANGED <<stage, irr, base, sensed, caught, keys, sleepVars>>
-----------------------------------------------------------------------------
(* The devices, as in Sleep. *)
Tick ==
  /\ quick => pc \in {"awake", "halted"} /\ MainRuns
  /\ irr' = [irr EXCEPT !["pic1"] = @ \cup {Timer}]
  /\ UNCHANGED <<stage, isr, base, sensed, running, caught, keys, sleepVars>>

(* The keyboard sends codes; its line is high while it has any, and the
   controller sees it rise. *)
Send(new) ==
  /\ quick => MainRuns /\ codes \o new \in {<<"other">>, <<"2A">>, <<"AA">>}
  /\ Len(codes) + Len(new) <= MaxCodes
  /\ codes' = codes \o new
  /\ sensed' = TRUE
  /\ irr' = IF sensed THEN irr ELSE [irr EXCEPT !["pic1"] = @ \cup {Keyboard}]
  /\ UNCHANGED <<stage, isr, base, running, caught, shift, sleepVars>>

(* A key without a part in this, pressed or released. *)
OtherKey == Send(<<"other">>) /\ UNCHANGED <<held, others, printing, mixed>>

(* The right shift, Ctrl or Alt: nothing that the driver knows. *)
OtherModifier ==
  /\ Send(<<"other">>)
  /\ others' = ~others
  /\ UNCHANGED <<held, printing, mixed>>

(* A key that is held is sent as pressed again and again. *)
LeftShift ==
  /\ \/ Send(<<"2A">>) /\ held' = TRUE /\ UNCHANGED mixed
     \/ held /\ Send(<<"AA">>) /\ held' = FALSE /\ mixed' = FALSE
  /\ UNCHANGED <<others, printing>>

(* Print screen: E0 2A E0 37 and E0 B7 E0 AA.  While a modifier is held the
   shift's codes are left out (with Alt the others differ as well).  Codes
   without an effect are one "other". *)
PrintScreen ==
  LET plain == ~held /\ ~others
      Key(fake) == Send(IF plain THEN <<"other", fake>> ELSE <<"other">>)
  IN  /\ \/ Key("2A") /\ printing' = TRUE /\ UNCHANGED mixed
         \/ /\ printing /\ Key("AA") /\ printing' = FALSE
            /\ mixed' = IF held THEN mixed ELSE others
      /\ UNCHANGED <<held, others>>

(* The disk is idle until the kernel uses it. *)
DiskDone ==
  /\ stage = "kernel_main"
  /\ quick => MainRuns
  /\ irr' = [irr EXCEPT !["pic2"] = @ \cup {Disk}]
  /\ UNCHANGED <<stage, isr, base, sensed, running, caught, keys, sleepVars>>

Boot == Sti \/ paging_init \/ pic_config

Main == (\E t \in Durations : Call(t)) \/ Test \/ Halt

Next ==
  \/ Boot
  \/ Main
  \/ \E line \in {Timer, Keyboard, Cascade} : Take(line)
  \/ Return
  \/ Tick
  \/ OtherKey \/ OtherModifier \/ LeftShift \/ PrintScreen
  \/ DiskDone

Spec == Init /\ [][Next]_vars

(* Handlers return, and the processor takes what it can again and again. *)
FairSpec ==
  /\ Spec
  /\ WF_vars(Return)
  /\ \A line \in {Timer, Keyboard, Cascade} : SF_vars(Take(line))
-----------------------------------------------------------------------------
(* Outside a handler nothing is in service but what came while a controller
   had no vectors of its own: irq_handler's end of interrupt (handlers.c:47)
   closes exactly the line it was called for, on both controllers. *)
AllAcknowledged ==
  running = NoVector /\ Remapped => isr = [pic1 |-> caught, pic2 |-> {}]

(* No code is left behind: while one waits, the keyboard's interrupt is due
   (handlers.c:24-29 reads one code per interrupt).  What was not read before
   the reset waits until the next key. *)
CodesAnnounced ==
  Remapped /\ codes # <<>> /\ sensed /\ Keyboard \notin caught
    => Keyboard \in irr["pic1"]

(* With everything read, a left shift that is held is the driver's, although
   it takes the fake shift's codes for it (keyboard_driver.c:792-798).  And it
   has no other, except while print screen is held, and after it was let go
   with another modifier held: its second fake code is then left out, and the
   driver keeps a shift that nobody holds, until the left one is let go or
   print screen is pressed and let go alone. *)
ShiftFollowsKey ==
  codes = <<>> =>
    /\ held => shift
    /\ shift => held \/ printing \/ mixed

(* A request that nothing of that kind holds back is served (handlers.c:29):
   the timer's, the keyboard's if ticks leave it time, and the disk's, for
   which nobody asked, if keys do too. *)
RequestsServed ==
  LET Served(line, vector) == line \in Request ~> running = vector
      Leave(lines) == []<>(running = NoVector /\ irr["pic1"] \cap lines = {})
  IN /\ Served("timer", 32)
     /\ Leave({Timer}) => Served("keyboard", 33)
     /\ Leave({Timer, Keyboard}) => Served("disk", 46)

(* Once the controllers are remapped the kernel has the timer and the
   requests that Sleep describes; before, there is nothing to sleep on. *)
ImplementsSleep == Kernel!Spec
=============================================================================
