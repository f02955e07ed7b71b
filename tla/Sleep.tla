------------------------------- MODULE Sleep -------------------------------
(***************************************************************************)
(* The timer and sleep (time.c) on the interrupts they run on.             *)
(*                                                                         *)
(* sleep is a loop of the main thread that tests global_timer and halts.   *)
(* The test and the hlt are two instructions, and interrupts are enabled   *)
(* between them.  An interrupt request waits in the interrupt controller   *)
(* while a handler runs; the controller remembers one request of each      *)
(* line, and serves the timer first, the disk last.  The keyboard's        *)
(* handler runs whole commands, and the disk's prints a message, so a tick *)
(* may fall while one of them runs.                                        *)
(***************************************************************************)
EXTENDS Integers

CONSTANTS
  Modulus,    \* values of global_timer: 2^32
  Durations   \* arguments of sleep

ASSUME SleepAssumption ==
  /\ Modulus \in Nat \ {0}
  /\ Durations \subseteq 1..(Modulus - 1)

VARIABLES
  pc,           \* the main thread: see MainStates
  temp,         \* sleep's local: the value it waits for
  time,         \* its argument
  global_timer,
  request,      \* requests in the interrupt controller
  handling,     \* the keyboard's or the disk's handler is running
  quick,        \* the processor is quick: a handler is done before the next
                \* request, a key is one request, and a sleeper is halted again
                \* before the next tick
  counted       \* history: ticks counted since sleep was called

vars == <<pc, temp, time, global_timer, request, handling, quick, counted>>

(* counted stops here: enough to tell a sleep that missed its tick, and
   waited for global_timer to come round, from one that did not. *)
MaxCounted == 2 * Modulus

(* "awake": outside sleep.  In sleep: "test" and "hlt" are the instruction
   that comes next, and "halted" is a processor waiting for an interrupt. *)
MainStates == {"awake", "test", "hlt", "halted"}

(* What the kernel's devices raise: the disk does after every command. *)
Lines == {"timer", "keyboard", "disk"}

TypeOK ==
  /\ pc \in MainStates
  /\ temp \in 0..(Modulus - 1)
  /\ time \in Durations \cup {0}
  /\ global_timer \in 0..(Modulus - 1)
  /\ request \subseteq Lines
  /\ handling \in BOOLEAN
  /\ quick \in BOOLEAN
  /\ counted \in 0..MaxCounted

Init ==
  /\ pc = "awake"
  /\ temp = 0
  /\ time = 0
  /\ global_timer = 0
  /\ request = {}
  /\ handling = FALSE
  /\ quick \in BOOLEAN
  /\ counted = 0
-----------------------------------------------------------------------------
(* The main thread runs when there is nothing to serve. *)
MainRuns == request = {} /\ ~handling

(* Mutant: the deadline is one tick early. *)
Call_OneShort(t) ==
  /\ pc = "awake" /\ MainRuns
  /\ pc' = "test"
  /\ time' = t
  /\ temp' = (global_timer + t - 1) % Modulus
  /\ counted' = 0
  /\ UNCHANGED <<global_timer, request, handling, quick>>

(* Mutant: the deadline does not wrap. *)
Call_NoWrap(t) ==
  /\ pc = "awake" /\ MainRuns
  /\ pc' = "test"
  /\ time' = t
  /\ temp' = global_timer + t
  /\ counted' = 0
  /\ UNCHANGED <<global_timer, request, handling, quick>>

(* sleep(t) is called. *)
Call(t) ==
  /\ pc = "awake" /\ MainRuns
  /\ pc' = "test"
  /\ time' = t
  /\ temp' = (global_timer + t) % Modulus
  /\ counted' = 0
  /\ UNCHANGED <<global_timer, request, handling, quick>>

Test ==
  /\ pc = "test" /\ MainRuns
  /\ pc' = IF global_timer = temp THEN "awake" ELSE "hlt"
  /\ UNCHANGED <<temp, time, global_timer, request, handling, quick, counted>>

Halt ==
  /\ pc = "hlt" /\ MainRuns
  /\ pc' = "halted"
  /\ UNCHANGED <<temp, time, global_timer, request, handling, quick, counted>>

(* An interrupt ends a hlt. *)
Wake == pc' = IF pc = "halted" THEN "test" ELSE pc

(* Mutant: the timer counts in steps of two. *)
on_update_Twice ==
  /\ "timer" \in request /\ ~handling
  /\ global_timer' = (global_timer + 2) % Modulus
  /\ counted' = IF pc = "awake" \/ counted = MaxCounted THEN counted
                ELSE counted + 1
  /\ request' = request \ {"timer"}
  /\ Wake
  /\ UNCHANGED <<temp, time, handling, quick>>

(* IRQ 0: irq_0 and on_update. *)
on_update ==
  /\ "timer" \in request /\ ~handling
  /\ global_timer' = (global_timer + 1) % Modulus
  /\ counted' = IF pc = "awake" \/ counted = MaxCounted THEN counted
                ELSE counted + 1
  /\ request' = request \ {"timer"}
  /\ Wake
  /\ UNCHANGED <<temp, time, handling, quick>>

(* IRQ 1, or IRQ 14, for which irq_handler only prints: a handler begins,
   and ends at a later step.  A keyboard that has another code asks again. *)
HandlerBegins(line) ==
  /\ line \in request \ {"timer"} /\ ~handling
  /\ "timer" \notin request
  /\ "keyboard" \in request => line = "keyboard"
  /\ handling' = TRUE
  /\ \/ request' = request \ {line}
     \/ line = "keyboard" /\ ~quick /\ UNCHANGED request
  /\ Wake
  /\ UNCHANGED <<temp, time, global_timer, quick, counted>>

HandlerEnds ==
  /\ handling
  /\ handling' = FALSE
  /\ UNCHANGED <<pc, temp, time, global_timer, request, quick, counted>>

(* The timer fires.  A request that is there already is not counted twice. *)
Tick ==
  /\ quick => pc \in {"awake", "halted"} /\ MainRuns
  /\ request' = request \cup {"timer"}
  /\ UNCHANGED <<pc, temp, time, global_timer, handling, quick, counted>>

(* A key is pressed, or the disk is done with a command. *)
Raise(line) ==
  /\ quick => MainRuns
  /\ request' = request \cup {line}
  /\ UNCHANGED <<pc, temp, time, global_timer, handling, quick, counted>>

Main == (\E t \in Durations : Call(t)) \/ Test \/ Halt

Handlers == on_update \/ (\E line \in Lines : HandlerBegins(line)) \/ HandlerEnds

Devices == Tick \/ (\E line \in Lines \ {"timer"} : Raise(line))

Next == Main \/ Handlers \/ Devices

Spec == Init /\ [][Next]_vars

(* The processor goes on, a typist leaves it time to run the main thread and
   to be halted, and the timer never stops. *)
FairSpec ==
  /\ Spec
  /\ WF_vars(Handlers)
  /\ SF_vars(Test)
  /\ SF_vars(Halt)
  /\ SF_vars(Tick /\ pc = "halted")
-----------------------------------------------------------------------------
(* sleep returns only when as many ticks have been counted as it was asked
   to wait for, whatever interrupts woke it. *)
NeverEarly == [][pc # "awake" /\ pc' = "awake" => counted >= time]_vars

(* sleep sleeps for the given time (time.c:20): it counts no tick more. *)
NotOvershot == pc # "awake" => counted <= time

(* It does when the processor is quick: no key, and no handler that a key
   runs, makes it miss its tick. *)
QuickNotOvershot == quick => NotOvershot

(* With a quick processor every sleep ends. *)
SleepEnds == (quick /\ pc = "test") ~> pc = "awake"
=============================================================================
