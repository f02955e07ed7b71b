---------------------------- MODULE SleepProofs ----------------------------
(***************************************************************************)
(* sleep does not return early, for every modulus, duration and            *)
(* interleaving with ticks, keys and the disk.                             *)
(***************************************************************************)
EXTENDS Sleep, TLAPS

LEMMA ModSmall ==
  ASSUME NEW m \in Nat \ {0}, NEW x \in 0..(m - 1)
  PROVE  x % m = x
  BY SMT

LEMMA ModOnce ==
  ASSUME NEW m \in Nat \ {0}, NEW x \in m..(2 * m - 1)
  PROVE  x % m = x - m
<1>1. x = m + (x - m) /\ x - m \in 0..(m - 1)
  OBVIOUS
<1>2. x \div m = 1
  BY <1>1, SMT
<1> QED BY <1>1, <1>2, SMT

LEMMA ModRange ==
  ASSUME NEW m \in Nat \ {0}, NEW x \in Int
  PROVE  x % m \in 0..(m - 1)
  BY SMT

(* The distance to the deadline shrinks with the timer's next value. *)
LEMMA OneTick ==
  ASSUME NEW m \in Nat \ {0}, NEW g \in 0..(m - 1), NEW d \in 1..(m - 1)
  PROVE  (((g + 1) % m) + (d - 1)) % m = (g + d) % m
<1>1. CASE g + 1 < m
  BY <1>1, ModSmall
<1>2. CASE g + 1 = m
  <2>1. (g + 1) % m = 0
    BY <1>2, ModOnce
  <2>2. (0 + (d - 1)) % m = d - 1
    BY ModSmall
  <2>3. (g + d) % m = d - 1
    BY <1>2, ModOnce
  <2> QED BY <2>1, <2>2, <2>3
<1> QED BY <1>1, <1>2

(* A deadline that is not due is another value of the timer. *)
LEMMA NotDue ==
  ASSUME NEW m \in Nat \ {0}, NEW g \in 0..(m - 1), NEW d \in 1..(m - 1)
  PROVE  (g + d) % m # g
<1>1. CASE g + d < m
  BY <1>1, ModSmall
<1>2. CASE g + d >= m
  BY <1>2, ModOnce
<1> QED BY <1>1, <1>2
-----------------------------------------------------------------------------
LEMMA InitType == Init => TypeOK
<1>1. Modulus \in Nat \ {0} /\ 0 \in 0..(Modulus - 1) /\ 0 \in 0..(2 * Modulus)
  BY SleepAssumption
<1>2. {} \subseteq Lines
  OBVIOUS
<1> QED BY <1>1, <1>2 DEF Init, TypeOK, MainStates, MaxCounted

LEMMA NextType == TypeOK /\ [Next]_vars => TypeOK'
<1> SUFFICES ASSUME TypeOK, [Next]_vars PROVE TypeOK'
  OBVIOUS
<1> USE SleepAssumption
<1>1. ASSUME NEW t \in Durations, Call(t) PROVE TypeOK'
  <2>1. (global_timer + t) % Modulus \in 0..(Modulus - 1)
    BY ModRange DEF TypeOK
  <2> QED BY <1>1, <2>1 DEF TypeOK, Call, MainStates, MaxCounted
<1>2. CASE Test
  BY <1>2 DEF TypeOK, Test, MainStates
<1>3. CASE Halt
  BY <1>3 DEF TypeOK, Halt, MainStates
<1>4. CASE on_update
  <2>1. global_timer' \in 0..(Modulus - 1)
    BY <1>4, ModRange DEF TypeOK, on_update
  <2>2. counted' \in 0..MaxCounted
    BY <1>4 DEF TypeOK, on_update, MaxCounted
  <2> QED BY <1>4, <2>1, <2>2 DEF TypeOK, on_update, Wake, MainStates
<1>5. ASSUME NEW line \in Lines, HandlerBegins(line) PROVE TypeOK'
  BY <1>5 DEF TypeOK, HandlerBegins, Wake, MainStates
<1>6. CASE HandlerEnds
  BY <1>6 DEF TypeOK, HandlerEnds
<1>7. CASE Tick
  BY <1>7 DEF TypeOK, Tick, Lines
<1>8. ASSUME NEW line \in Lines, Raise(line) PROVE TypeOK'
  BY <1>8 DEF TypeOK, Raise
<1>9. CASE UNCHANGED vars
  BY <1>9 DEF TypeOK, vars
<1> QED
  BY <1>1, <1>2, <1>3, <1>4, <1>5, <1>6, <1>7, <1>8, <1>9
  DEF Next, Main, Handlers, Devices

(* Every variable keeps its type: the timer and the deadline stay below the
   modulus (time.c:13 and 24). *)
THEOREM TypeCorrect == Spec => []TypeOK
<1> QED BY InitType, NextType, PTL DEF Spec
-----------------------------------------------------------------------------
(* As long as ticks are missing, the timer is that far from the deadline.
   Nothing is said of a sleep that has missed its tick. *)
Distance ==
  pc # "awake" /\ counted <= time =>
    temp = (global_timer + (time - counted)) % Modulus

(* A sleep has an argument. *)
HasArgument == pc # "awake" => time \in Durations

SleepInv == TypeOK /\ HasArgument /\ Distance

LEMMA InitSleep == Init => SleepInv
  BY InitType DEF Init, SleepInv, HasArgument, Distance

LEMMA NextSleep == SleepInv /\ [Next]_vars => SleepInv'
<1> SUFFICES ASSUME SleepInv, [Next]_vars PROVE SleepInv'
  OBVIOUS
<1>0. TypeOK /\ TypeOK'
  BY NextType DEF SleepInv
<1> USE SleepAssumption
<1>1. ASSUME NEW t \in Durations, Call(t) PROVE HasArgument' /\ Distance'
  <2>1. t - 0 = t /\ t \in Durations
    OBVIOUS
  <2> QED BY <1>0, <1>1, <2>1 DEF TypeOK, HasArgument, Distance, Call
<1>2. ASSUME on_update PROVE HasArgument' /\ Distance'
  <2>1. (pc' = "awake") = (pc = "awake") /\ temp' = temp /\ time' = time
    BY <1>2 DEF on_update, Wake
  <2>2. HasArgument'
    BY <2>1 DEF SleepInv, HasArgument
  <2>3. ASSUME pc' # "awake", counted' <= time' PROVE temp' = (global_timer' + (time' - counted')) % Modulus
    <3>1. time \in 1..(Modulus - 1)
      BY <2>1, <2>3 DEF SleepInv, HasArgument
    <3>2. counted # MaxCounted
      BY <1>0, <1>2, <2>1, <2>3, <3>1 DEF TypeOK, on_update, MaxCounted
    <3>3. counted' = counted + 1
      BY <1>2, <2>1, <2>3, <3>2 DEF on_update
    <3>4. counted \in Nat /\ global_timer \in 0..(Modulus - 1)
      BY <1>0 DEF TypeOK, MaxCounted
    <3>5. temp = (global_timer + (time - counted)) % Modulus
      BY <2>1, <2>3, <3>1, <3>3, <3>4 DEF SleepInv, Distance
    <3>6. time - counted \in 1..(Modulus - 1)
      BY <2>1, <2>3, <3>1, <3>3, <3>4
    <3>7. (((global_timer + 1) % Modulus) + ((time - counted) - 1)) % Modulus
            = (global_timer + (time - counted)) % Modulus
      BY <3>4, <3>6, OneTick
    <3>8. time - (counted + 1) = (time - counted) - 1
      BY <3>1, <3>4
    <3> QED BY <1>2, <2>1, <3>3, <3>5, <3>7, <3>8 DEF on_update
  <2>4. Distance'
    BY <2>3 DEF Distance
  <2> QED BY <2>2, <2>4
<1>3. ASSUME Test PROVE HasArgument' /\ Distance'
  BY <1>3 DEF SleepInv, HasArgument, Distance, Test
<1>4. ASSUME Halt PROVE HasArgument' /\ Distance'
  BY <1>4 DEF SleepInv, HasArgument, Distance, Halt
<1>5. ASSUME NEW line \in Lines, HandlerBegins(line) PROVE HasArgument' /\ Distance'
  BY <1>5 DEF SleepInv, HasArgument, Distance, HandlerBegins, Wake
<1>6. ASSUME HandlerEnds PROVE HasArgument' /\ Distance'
  BY <1>6 DEF SleepInv, HasArgument, Distance, HandlerEnds
<1>7. ASSUME Tick PROVE HasArgument' /\ Distance'
  BY <1>7 DEF SleepInv, HasArgument, Distance, Tick
<1>8. ASSUME NEW line \in Lines, Raise(line) PROVE HasArgument' /\ Distance'
  BY <1>8 DEF SleepInv, HasArgument, Distance, Raise
<1>9. ASSUME UNCHANGED vars PROVE HasArgument' /\ Distance'
  BY <1>9 DEF SleepInv, HasArgument, Distance, vars
<1> QED
  BY <1>0, <1>1, <1>2, <1>3, <1>4, <1>5, <1>6, <1>7, <1>8, <1>9
  DEF SleepInv, Next, Main, Handlers, Devices

(* Only a test of a timer that has reached the deadline ends a sleep. *)
LEMMA ReturnIsDue ==
  ASSUME SleepInv, Next, pc # "awake", pc' = "awake"
  PROVE  counted >= time
<1>1. Test /\ global_timer = temp
  BY DEF Next, Main, Handlers, Devices, Call, Test, Halt, on_update,
         HandlerBegins, HandlerEnds, Tick, Raise, Wake
<1>2. /\ time \in 1..(Modulus - 1)
      /\ counted \in Nat
      /\ global_timer \in 0..(Modulus - 1)
  BY SleepAssumption DEF SleepInv, HasArgument, TypeOK, MaxCounted
<1>3. ASSUME counted < time PROVE FALSE
  <2>1. time - counted \in 1..(Modulus - 1)
    BY <1>2, <1>3, SleepAssumption
  <2>2. temp = (global_timer + (time - counted)) % Modulus
    BY <1>2, <1>3 DEF SleepInv, Distance
  <2> QED BY <1>1, <1>2, <2>1, <2>2, NotDue, SleepAssumption
<1> QED BY <1>2, <1>3

(* sleep never returns before as many ticks were counted as it was asked to
   wait for (time.c:22-29), wherever the timer stands when it is called. *)
THEOREM SleepIsNeverEarly == Spec => NeverEarly
<1>1. SleepInv /\ [Next]_vars => [pc # "awake" /\ pc' = "awake" => counted >= time]_vars
  BY ReturnIsDue DEF vars
<1> QED BY InitSleep, NextSleep, <1>1, PTL DEF Spec, NeverEarly
-----------------------------------------------------------------------------
(* On a quick processor a tick finds the main thread outside sleep or halted,
   and is counted before anything else happens; who is halted has ticks to
   wait for. *)
QuickInv ==
  quick =>
    /\ "timer" \in request => /\ pc \in {"awake", "halted"}
                               /\ request = {"timer"} /\ ~handling
    /\ pc \in {"hlt", "halted"} => counted < time
    /\ NotOvershot

(* A sleep that has counted its ticks is due. *)
LEMMA DueWhenCounted ==
  ASSUME SleepInv, pc # "awake", counted <= time, global_timer # temp
  PROVE  counted < time
<1>1. /\ time \in 1..(Modulus - 1) /\ counted \in Nat
      /\ global_timer \in 0..(Modulus - 1) /\ Modulus \in Nat \ {0}
  BY SleepAssumption DEF SleepInv, HasArgument, TypeOK, MaxCounted
<1>2. SUFFICES ASSUME counted = time PROVE FALSE
  BY <1>1
<1>3. temp = (global_timer + 0) % Modulus
  BY <1>1, <1>2 DEF SleepInv, Distance
<1> QED BY <1>1, <1>3, ModSmall

LEMMA NextQuick == SleepInv /\ QuickInv /\ [Next]_vars => QuickInv'
<1> SUFFICES ASSUME SleepInv, QuickInv, [Next]_vars, quick PROVE QuickInv'
  BY DEF QuickInv, Next, Main, Handlers, Devices, Call, Test, Halt, on_update,
         HandlerBegins, HandlerEnds, Tick, Raise, vars
<1>0. TypeOK /\ counted \in Nat /\ (pc # "awake" => time \in Nat \ {0})
  BY SleepAssumption DEF SleepInv, TypeOK, MaxCounted, HasArgument
<1> USE DEF QuickInv, NotOvershot
<1>1. ASSUME NEW t \in Durations, Call(t) PROVE QuickInv'
  <2>1. t \in Nat
    BY SleepAssumption
  <2> QED BY <1>1, <2>1 DEF Call, MainRuns
<1>2. CASE Test
  <2>1. ASSUME global_timer # temp PROVE counted < time
    BY <1>2, <2>1, DueWhenCounted DEF Test
  <2> QED BY <1>2, <2>1 DEF Test, MainRuns
<1>3. CASE Halt
  BY <1>3 DEF Halt, MainRuns
<1>4. CASE on_update
  BY <1>0, <1>4 DEF on_update, Wake
<1>5. ASSUME NEW line \in Lines, HandlerBegins(line) PROVE QuickInv'
  BY <1>0, <1>5 DEF HandlerBegins, Wake
<1>6. CASE HandlerEnds
  BY <1>6 DEF HandlerEnds
<1>7. CASE Tick
  BY <1>7 DEF Tick, MainRuns
<1>8. ASSUME NEW line \in Lines \ {"timer"}, Raise(line) PROVE QuickInv'
  BY <1>8 DEF Raise, MainRuns
<1>9. CASE UNCHANGED vars
  BY <1>9 DEF vars
<1> QED
  BY <1>1, <1>2, <1>3, <1>4, <1>5, <1>6, <1>7, <1>8, <1>9
  DEF Next, Main, Handlers, Devices

(* On a quick processor sleep counts no tick more than it was asked to wait
   for (time.c:20), for every modulus and duration: with SleepIsNeverEarly,
   exactly as many. *)
THEOREM QuickIsExact == Spec => []QuickNotOvershot
<1>1. Init => QuickInv
  BY DEF Init, QuickInv, NotOvershot
<1>2. QuickInv => QuickNotOvershot
  BY DEF QuickInv, QuickNotOvershot
<1> QED BY InitSleep, NextSleep, NextQuick, <1>1, <1>2, PTL DEF Spec
=============================================================================
