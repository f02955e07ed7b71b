-------------------------- MODULE InterruptsProofs --------------------------
(***************************************************************************)
(* Every end of interrupt is for the line it should be for, whatever comes *)
(* during the boot, and however many codes and ticks there are.            *)
(***************************************************************************)
EXTENDS Interrupts, SequenceTheorems, TLAPS

(* The first controller has been reset. *)
WasReset == stage \notin {"sti", "paging_init", "ICW1_pic1"}

(* The line of the first controller whose handler will send an end of
   interrupt. *)
ServedLine ==
  CASE running = 32 -> {Timer}
    [] running = 33 -> {Keyboard}
    [] running = 46 -> {Cascade}
    [] OTHER -> {}

ChipsType ==
  /\ stage \in Stages
  /\ irr \in [pic1 : SUBSET {Timer, Keyboard}, pic2 : SUBSET {Disk}]
  /\ isr \in [pic1 : SUBSET {Timer, Keyboard, Cascade}, pic2 : SUBSET {Disk}]
  /\ running \in {NoVector, 0, 1, 8, 9, 32, 33, 46}
  /\ caught \subseteq {Timer, Keyboard}

(* Where the boot is tells the controllers' vectors. *)
BaseInv ==
  /\ DOMAIN base = {"pic1", "pic2"}
  /\ base["pic1"] = IF ~WasReset THEN 8 ELSE IF Remapped THEN 32 ELSE 0
  /\ stage \in {"ICW3", "kernel_main"} => base["pic2"] = 40
  /\ stage # "kernel_main" => irr["pic2"] = {}

(* What is in service is what was caught and what is being handled; the
   latter comes first, so that it is what an end of interrupt ends. *)
ServiceInv ==
  /\ WasReset => isr["pic1"] = caught \cup ServedLine
  /\ \A l \in ServedLine, s \in caught : l < s
  /\ isr["pic2"] = IF running = 46 THEN {Disk} ELSE {}

Inv == ChipsType /\ BaseInv /\ ServiceInv

LEMMA InitInv == Init => Inv
  BY DEF Init, Inv, ChipsType, BaseInv, ServiceInv, ServedLine, WasReset, Remapped,
         Stages, NoVector, Timer, Keyboard, Cascade, Disk

(* The controllers do not change, but for requests of the first. *)
LEMMA AskInv ==
  ASSUME Inv, UNCHANGED <<stage, isr, base, running, caught>>,
         irr' \in [pic1 : SUBSET {Timer, Keyboard}, pic2 : SUBSET {Disk}],
         irr'["pic2"] = irr["pic2"] \/ stage = "kernel_main"
  PROVE  Inv'
  BY DEF Inv, ChipsType, BaseInv, ServiceInv, ServedLine, WasReset, Remapped

LEMMA ConfigInv ==
  ASSUME Inv, pic_config
  PROVE  Inv'
<1> USE DEF Inv, ChipsType, BaseInv, ServiceInv, ServedLine, WasReset, Remapped,
            Stages, NoVector, Timer, Keyboard, Cascade, Disk, MainRuns
<1>1. running = NoVector /\ UNCHANGED running
  BY DEF pic_config
<1>2. CASE stage = "ICW1_pic1"
  BY <1>1, <1>2 DEF pic_config, Reset
<1>3. CASE stage = "ICW1_pic2"
  BY <1>1, <1>3 DEF pic_config, Reset
<1>4. CASE stage = "ICW2_pic1"
  BY <1>1, <1>4 DEF pic_config, Remap
<1>5. CASE stage = "ICW2_pic2"
  BY <1>1, <1>5 DEF pic_config, Remap
<1>6. CASE stage = "ICW3"
  BY <1>1, <1>6 DEF pic_config, chips
<1> QED BY <1>2, <1>3, <1>4, <1>5, <1>6 DEF pic_config
(* The second controller asks for its only line. *)
LEMMA CascadePending ==
  ASSUME Inv, Pending2 # {}
  PROVE  Pending2 = {Disk} /\ Min(Pending2) = Disk /\ stage = "kernel_main" /\ running # 46
<1>1. Pending2 = {Disk} /\ stage = "kernel_main" /\ Disk \notin isr["pic2"]
  BY DEF Inv, ChipsType, BaseInv, Pending2, Disk
<1>2. Min(Pending2) = Disk
  BY <1>1 DEF Min, Disk
<1> QED BY <1>1, <1>2 DEF Inv, ServiceInv

LEMMA TakeInv ==
  ASSUME Inv, NEW line \in {Timer, Keyboard, Cascade}, Take(line)
  PROVE  Inv'
<1> DEFINE line2  == IF line = Cascade THEN {Min(Pending2)} ELSE {}
           vector == IF line = Cascade THEN base["pic2"] + Min(Pending2)
                     ELSE base["pic1"] + line
           again  == {k \in {Keyboard} : codes' # codes /\ sensed'}
<1>1. /\ running = NoVector /\ stage # "sti"
      /\ line \in Pending
      /\ irr' = [pic1 |-> (irr["pic1"] \ {line}) \cup again, pic2 |-> irr["pic2"] \ line2]
      /\ isr' = [pic1 |-> isr["pic1"] \cup {line}, pic2 |-> isr["pic2"] \cup line2]
      /\ running' = vector
      /\ caught' = IF vector \in IrqVectors THEN caught ELSE caught \cup {line}
      /\ UNCHANGED <<stage, base>>
  BY DEF Take
<1>2. again \subseteq {Keyboard}
  OBVIOUS
<1>3. \A s \in isr["pic1"] : line < s
  BY <1>1 DEF Pending
<1>4. line = Cascade => /\ line2 = {Disk} /\ vector = 46 /\ stage = "kernel_main"
  <2> SUFFICES ASSUME line = Cascade PROVE line2 = {Disk} /\ vector = 46 /\ stage = "kernel_main"
    OBVIOUS
  <2>1. Pending2 # {}
    BY <1>1 DEF Pending, Inv, ChipsType, Timer, Keyboard, Cascade
  <2> QED BY <2>1, CascadePending DEF Inv, BaseInv, Disk
<1>5. line # Cascade => /\ line2 = {}
                        /\ vector = (IF ~WasReset THEN 8 ELSE IF Remapped THEN 32 ELSE 0) + line
  BY DEF Inv, BaseInv
<1> HIDE DEF line2, vector, again
<1> USE DEF Inv, ChipsType, BaseInv, ServiceInv, ServedLine, WasReset, Remapped,
            Stages, NoVector, Timer, Keyboard, Cascade, Disk, IrqVectors
<1>6. CASE line = Cascade
  BY <1>1, <1>2, <1>3, <1>4, <1>6
<1>7. CASE line = Timer
  BY <1>1, <1>2, <1>3, <1>5, <1>7
<1>8. CASE line = Keyboard
  BY <1>1, <1>2, <1>3, <1>5, <1>8
<1> QED BY <1>6, <1>7, <1>8

LEMMA ReturnInv ==
  ASSUME Leftover = {TRUE}, Inv, Return
  PROVE  Inv'
<1> USE DEF Inv, ChipsType, BaseInv, ServiceInv, ServedLine, WasReset, Remapped,
            Stages, NoVector, Timer, Keyboard, Cascade, Disk, IrqVectors
<1>1. CASE running \notin IrqVectors
  BY <1>1 DEF Return
<1>2. CASE running \in IrqVectors
  <2>1. /\ isr' = [pic1 |-> Ended(isr["pic1"]), pic2 |-> Ended(isr["pic2"])]
        /\ running' = NoVector
        /\ UNCHANGED <<stage, irr, base, caught>>
    BY <1>2 DEF Return, pic_send_end_of_interrupt
  <2>2. Ended(isr["pic2"]) = {}
    BY DEF Ended
  <2>3. WasReset => Ended(isr["pic1"]) = caught
    BY <1>2 DEF Ended
  <2>4. Ended(isr["pic1"]) \subseteq isr["pic1"]
    BY DEF Ended
  <2> QED BY <2>1, <2>2, <2>3, <2>4
<1> QED BY <1>1, <1>2

LEMMA NextInv ==
  ASSUME Leftover = {TRUE}
  PROVE  Inv /\ [Next]_vars => Inv'
<1> SUFFICES ASSUME Inv, [Next]_vars PROVE Inv'
  OBVIOUS
<1>1. CASE UNCHANGED <<stage, chips, running, caught>>
  BY <1>1, AskInv DEF chips, Inv, ChipsType
<1>2. CASE Sti \/ paging_init
  BY <1>2 DEF Sti, paging_init, chips, Inv, ChipsType, BaseInv, ServiceInv, ServedLine,
              WasReset, Remapped, Stages
<1>3. CASE pic_config
  BY <1>3, ConfigInv
<1>4. CASE Main
  BY <1>1, <1>4 DEF Main, Call, Test, Halt
<1>5. ASSUME NEW line \in {Timer, Keyboard, Cascade}, Take(line) PROVE Inv'
  BY <1>5, TakeInv
<1>6. CASE Return
  BY <1>6, ReturnInv
<1>7. CASE Tick
  BY <1>7, AskInv DEF Tick, Inv, ChipsType
<1>8. ASSUME NEW new, Send(new), UNCHANGED base PROVE Inv'
  BY <1>8, AskInv DEF Send, Inv, ChipsType
<1>9. CASE OtherKey \/ OtherModifier \/ LeftShift \/ PrintScreen
  BY <1>8, <1>9 DEF OtherKey, OtherModifier, LeftShift, PrintScreen, Send
<1>10. CASE DiskDone
  BY <1>10, AskInv DEF DiskDone, Inv, ChipsType
<1>11. CASE UNCHANGED vars
  BY <1>1, <1>11 DEF vars
<1> QED
  BY <1>2, <1>3, <1>4, <1>5, <1>6, <1>7, <1>9, <1>10, <1>11 DEF Next, Boot

(* irq_handler's end of interrupt (handlers.c:47) closes exactly the line it
   was called for, on both controllers: outside a handler nothing is in
   service but what came while a controller had no vectors of its own.  The
   argument that nobody passes must be at least 8. *)
THEOREM EveryLineAcknowledged ==
  ASSUME Leftover = {TRUE}
  PROVE  Spec => []AllAcknowledged
<1>1. Inv => AllAcknowledged
  BY DEF Inv, ChipsType, ServiceInv, ServedLine, AllAcknowledged, WasReset, Remapped, NoVector
<1>2. Inv /\ [Next]_vars => Inv'
  BY NextInv
<1> QED BY InitInv, <1>1, <1>2, PTL DEF Spec
-----------------------------------------------------------------------------
(***************************************************************************)
(* No code of the keyboard is left behind.                                 *)
(***************************************************************************)
KeyInv ==
  /\ codes \in Seq(Codes)
  /\ WasReset =>
       /\ Keyboard \in irr["pic1"] => codes # <<>>
       /\ sensed => codes # <<>>
       /\ sensed /\ Keyboard \notin caught => Keyboard \in irr["pic1"]

LEMMA InitKey == Init => KeyInv
<1> SUFFICES ASSUME Init PROVE KeyInv
  OBVIOUS
<1>1. <<>> \in Seq(Codes) /\ <<"other">> \in Seq(Codes)
  BY DEF Codes
<1> QED BY <1>1 DEF Init, KeyInv, WasReset

LEMMA TailShrinks ==
  ASSUME NEW S, NEW s \in Seq(S), s # <<>>
  PROVE  Tail(s) \in Seq(S) /\ Len(Tail(s)) = Len(s) - 1 /\ Tail(s) # s
<1>1. Tail(s) \in Seq(S) /\ Len(Tail(s)) = Len(s) - 1
  BY HeadTailProperties
<1>2. Len(s) \in Nat
  BY LenProperties
<1>3. Len(s) # Len(s) - 1
  BY <1>2
<1>4. Tail(s) = s => Len(Tail(s)) = Len(s)
  OBVIOUS
<1> QED BY <1>1, <1>3, <1>4, Zenon

LEMMA ShortTail ==
  ASSUME NEW S, NEW s \in Seq(S), s # <<>>, Len(s) <= 1
  PROVE  Tail(s) = <<>>
<1> DEFINE m == Len(Tail(s))
           k == Len(s)
<1>1. Tail(s) \in Seq(S) /\ m = k - 1
  BY TailShrinks
<1>2. m \in Nat /\ k \in Nat /\ k <= 1
  BY <1>1, LenProperties
<1>3. m = 0
  <2> HIDE DEF m, k
  <2> QED BY <1>1, <1>2
<1> QED BY <1>1, <1>3, EmptySeq

LEMMA TakeKey ==
  ASSUME Inv, KeyInv, NEW line \in {Timer, Keyboard, Cascade}, Take(line)
  PROVE  KeyInv'
<1> DEFINE vector == IF line = Cascade THEN base["pic2"] + Min(Pending2)
                     ELSE base["pic1"] + line
           again  == {k \in {Keyboard} : codes' # codes /\ sensed'}
<1>1. /\ line \in Pending
      /\ irq_1(vector)
      /\ irr'["pic1"] = (irr["pic1"] \ {line}) \cup again
      /\ caught' = IF vector \in IrqVectors THEN caught ELSE caught \cup {line}
      /\ UNCHANGED stage
  BY DEF Take, isr_handler
<1>2. line = Cascade => vector = 46
  <2> SUFFICES ASSUME line = Cascade PROVE vector = 46
    OBVIOUS
  <2>1. Pending2 # {}
    BY <1>1 DEF Pending, Inv, ChipsType, Timer, Keyboard, Cascade
  <2> QED BY <2>1, CascadePending DEF Inv, BaseInv, Disk
<1>3. line # Cascade => vector = (IF ~WasReset THEN 8 ELSE IF Remapped THEN 32 ELSE 0) + line
  BY DEF Inv, BaseInv
<1>4. line # Cascade => line \in irr["pic1"]
  BY <1>1 DEF Pending
<1> HIDE DEF vector
<1>5. CASE vector = 33
  <2>1. line = Keyboard /\ WasReset
    BY <1>2, <1>3, <1>5 DEF Timer, Keyboard, Cascade
  <2>2. codes # <<>>
    BY <1>4, <2>1 DEF KeyInv, Keyboard, Cascade
  <2>3. codes' = Tail(codes) /\ sensed' = (Tail(codes) # <<>>)
    BY <1>1, <1>5 DEF irq_1
  <2>4. codes' \in Seq(Codes) /\ codes' # codes
    BY <2>2, <2>3, TailShrinks DEF KeyInv
  <2>5. sensed' <=> codes' # <<>>
    BY <2>3
  <2>6. again = IF sensed' THEN {Keyboard} ELSE {}
    BY <2>4
  <2>7. Keyboard \in irr'["pic1"] <=> sensed'
    BY <1>1, <2>1, <2>6
  <2> QED BY <2>4, <2>5, <2>7 DEF KeyInv
<1>6. CASE vector # 33
  <2>1. codes' = codes /\ sensed' = sensed /\ again = {}
    BY <1>1, <1>6 DEF irq_1
  <2>2. WasReset /\ line = Keyboard => caught' = caught \cup {Keyboard}
    BY <1>1, <1>3, <1>6 DEF Timer, Keyboard, Cascade, IrqVectors
  <2> QED BY <1>1, <2>1, <2>2 DEF KeyInv, WasReset
<1> QED BY <1>5, <1>6

LEMMA SendKey ==
  ASSUME KeyInv, NEW new \in Seq(Codes), new # <<>>, Send(new), UNCHANGED base, Inv
  PROVE  KeyInv'
<1>1. codes' \in Seq(Codes) /\ codes' # <<>>
  <2>1. codes \o new \in Seq(Codes) /\ Len(codes \o new) = Len(codes) + Len(new)
    BY ConcatProperties DEF KeyInv
  <2>2. Len(codes) \in Nat /\ Len(new) \in Nat \ {0}
    BY LenProperties, EmptySeq DEF KeyInv
  <2> QED BY <2>1, <2>2, EmptySeq DEF Send
<1> QED BY <1>1 DEF Send, KeyInv, WasReset, Inv, ChipsType

(* What the keyboard sends at a time. *)
LEMMA Sent ==
  /\ <<>> \in Seq(Codes)
  /\ \A code \in Codes : <<code>> \in Seq(Codes) /\ Len(<<code>>) = 1 /\ <<code>> # <<>>
  OBVIOUS

(* What a key does is to send codes. *)
LEMMA KeysSend ==
  ASSUME OtherKey \/ OtherModifier \/ LeftShift \/ PrintScreen
  PROVE  \E new \in Seq(Codes) : new # <<>> /\ Send(new) /\ UNCHANGED base
<1>1. CASE OtherKey \/ OtherModifier
  <2>1. <<"other">> \in Seq(Codes) /\ <<"other">> # <<>>
    BY Sent DEF Codes
  <2>2. Send(<<"other">>) /\ UNCHANGED base
    BY <1>1 DEF OtherKey, OtherModifier, Send
  <2> QED BY <2>1, <2>2
<1>2. CASE LeftShift
  <2>1. PICK code \in {"2A", "AA"} : Send(<<code>>)
    BY <1>2 DEF LeftShift
  <2>2. code \in Codes /\ UNCHANGED base
    BY <2>1 DEF Codes, Send
  <2>3. <<code>> \in Seq(Codes) /\ <<code>> # <<>>
    BY <2>2, Sent
  <2> QED BY <2>1, <2>2, <2>3
<1>3. CASE PrintScreen
  <2>1. /\ <<"other">> \in Seq(Codes) /\ <<"other">> # <<>>
        /\ \A fake \in {"2A", "AA"} : <<"other", fake>> \in Seq(Codes) /\ <<"other", fake>> # <<>>
    BY DEF Codes
  <2>2. PICK fake \in {"2A", "AA"} :
          Send(IF ~held /\ ~others THEN <<"other", fake>> ELSE <<"other">>)
    BY <1>3 DEF PrintScreen
  <2>3. UNCHANGED base
    BY <2>2 DEF Send
  <2>4. CASE ~held /\ ~others
    BY <2>1, <2>2, <2>3, <2>4
  <2>5. CASE held \/ others
    BY <2>1, <2>2, <2>3, <2>5
  <2> QED BY <2>4, <2>5
<1> QED BY <1>1, <1>2, <1>3

LEMMA NextKey == Inv /\ KeyInv /\ [Next]_vars => KeyInv'
<1> SUFFICES ASSUME Inv, KeyInv, [Next]_vars PROVE KeyInv'
  OBVIOUS
<1>1. CASE UNCHANGED <<stage, irr, sensed, codes, caught>>
  BY <1>1 DEF KeyInv, WasReset
<1>2. CASE Sti \/ paging_init
  BY <1>2 DEF Sti, paging_init, keys, KeyInv, WasReset, chips
<1>3. CASE pic_config
  <2>1. CASE stage = "ICW1_pic1"
    BY <1>3, <2>1 DEF pic_config, Reset, keys, KeyInv, WasReset, Inv, ChipsType
  <2>2. CASE stage # "ICW1_pic1"
    <3>1. codes' = codes /\ caught' = caught
      BY <1>3, <2>2 DEF pic_config, chips, keys
    <3>2. sensed' => sensed
      <4>1. CASE stage = "ICW1_pic2"
        <5>1. Reset("pic2")
          BY <1>3, <4>1 DEF pic_config
        <5> QED BY <5>1, Zenon DEF Reset
      <4>2. CASE stage # "ICW1_pic2"
        BY <1>3, <2>2, <4>2 DEF pic_config, Remap, chips
      <4> QED BY <4>1, <4>2
    <3>3. irr'["pic1"] = irr["pic1"] /\ WasReset
      BY <1>3, <2>2 DEF pic_config, Reset, Remap, chips, WasReset, Inv, ChipsType
    <3> QED BY <3>1, <3>2, <3>3 DEF KeyInv
  <2> QED BY <2>1, <2>2
<1>4. CASE Main \/ Return
  BY <1>1, <1>4 DEF Main, Call, Test, Halt, Return, chips, keys
<1>5. ASSUME NEW line \in {Timer, Keyboard, Cascade}, Take(line) PROVE KeyInv'
  BY <1>5, TakeKey
<1>6. CASE Tick \/ DiskDone
  BY <1>6 DEF Tick, DiskDone, keys, KeyInv, WasReset, Inv, ChipsType, Timer, Keyboard
<1>7. CASE OtherKey \/ OtherModifier \/ LeftShift \/ PrintScreen
  <2>1. PICK new \in Seq(Codes) : new # <<>> /\ Send(new) /\ UNCHANGED base
    BY <1>7, KeysSend
  <2> QED BY <2>1, SendKey
<1>8. CASE UNCHANGED vars
  BY <1>1, <1>8 DEF vars, chips, keys
<1> QED
  BY <1>2, <1>3, <1>4, <1>5, <1>6, <1>7, <1>8 DEF Next, Boot

(* While a code waits, the keyboard's interrupt is due, although irq_1 reads
   one code and a key may send several (handlers.c:24-29): for every number of
   codes. *)
THEOREM NoCodeLeftBehind ==
  ASSUME Leftover = {TRUE}
  PROVE  Spec => []CodesAnnounced
<1>1. KeyInv => CodesAnnounced
  BY DEF KeyInv, CodesAnnounced, WasReset, Remapped
<1>2. Inv /\ [Next]_vars => Inv'
  BY NextInv
<1> QED BY InitInv, InitKey, NextKey, <1>1, <1>2, PTL DEF Spec
-----------------------------------------------------------------------------
(***************************************************************************)
(* The driver's shift, through the codes that still wait.                  *)
(***************************************************************************)

(* What process_key makes of a shift that is down, or not, once it has read
   every code of s: the last of the shift's codes decides. *)
DownAfter(s, down) ==
  \/ down /\ \A i \in 1..Len(s) : s[i] = "other"
  \/ \E i \in 1..Len(s) : s[i] = "2A" /\ \A k \in (i + 1)..Len(s) : s[k] = "other"

LEMMA DownAfterNone ==
  ASSUME NEW down \in BOOLEAN
  PROVE  DownAfter(<<>>, down) <=> down
<1>1. Len(<<>>) = 0 /\ 1..0 = {}
  OBVIOUS
<1> QED BY <1>1, Zenon DEF DownAfter

LEMMA DownAfterAppend ==
  ASSUME NEW s \in Seq(Codes), NEW down \in BOOLEAN, NEW code \in Codes
  PROVE  /\ code = "other" => (DownAfter(Append(s, code), down) <=> DownAfter(s, down))
         /\ code = "2A" => DownAfter(Append(s, code), down)
         /\ code = "AA" => ~DownAfter(Append(s, code), down)
<1> DEFINE t == Append(s, code)
<1>1. /\ Len(t) = Len(s) + 1 /\ Len(s) \in Nat
      /\ \A i \in 1..Len(s) : t[i] = s[i]
      /\ t[Len(s) + 1] = code
  BY AppendProperties, LenProperties
<1> HIDE DEF t
<1>2. CASE code = "other"
  <2>1. (\A i \in 1..Len(t) : t[i] = "other") <=> (\A i \in 1..Len(s) : s[i] = "other")
    BY <1>1, <1>2
  <2>2. ASSUME NEW i \in 1..Len(t), t[i] = "2A", \A k \in (i + 1)..Len(t) : t[k] = "other"
        PROVE  /\ i \in 1..Len(s) /\ s[i] = "2A"
               /\ \A k \in (i + 1)..Len(s) : s[k] = "other"
    BY <1>1, <1>2, <2>2
  <2>3. ASSUME NEW i \in 1..Len(s), s[i] = "2A", \A k \in (i + 1)..Len(s) : s[k] = "other"
        PROVE  /\ i \in 1..Len(t) /\ t[i] = "2A"
               /\ \A k \in (i + 1)..Len(t) : t[k] = "other"
    BY <1>1, <1>2, <2>3
  <2>4. DownAfter(t, down) <=> DownAfter(s, down)
    BY <2>1, <2>2, <2>3, Zenon DEF DownAfter
  <2> QED BY <1>2, <2>4 DEF t
<1>3. CASE code = "2A"
  <2>1. /\ Len(t) \in 1..Len(t) /\ t[Len(t)] = "2A"
        /\ \A k \in (Len(t) + 1)..Len(t) : t[k] = "other"
    BY <1>1, <1>3
  <2>2. DownAfter(t, down)
    BY <2>1, Zenon DEF DownAfter
  <2> QED BY <1>3, <2>2 DEF t
<1>4. CASE code = "AA"
  <2>1. Len(t) \in 1..Len(t) /\ t[Len(t)] = "AA"
    BY <1>1, <1>4
  <2>2. ASSUME NEW i \in 1..Len(t), t[i] = "2A", \A k \in (i + 1)..Len(t) : t[k] = "other"
        PROVE  FALSE
    <3>1. i = Len(t)
      BY <1>1, <2>1, <2>2
    <3> QED BY <2>1, <2>2, <3>1
  <2>3. ~DownAfter(t, down)
    <3>1. "AA" # "other"
      OBVIOUS
    <3> QED BY <2>1, <2>2, <3>1, Zenon DEF DownAfter
  <2> QED BY <1>4, <2>3 DEF t
<1> QED BY <1>2, <1>3, <1>4 DEF Codes

(* Reading a code does not change what the shift is going to be. *)
LEMMA DownAfterRead ==
  ASSUME NEW s \in Seq(Codes), s # <<>>, NEW down \in BOOLEAN, NEW next \in BOOLEAN,
         Head(s) = "2A" => next, Head(s) = "AA" => ~next,
         Head(s) = "other" => (next <=> down)
  PROVE  DownAfter(Tail(s), next) <=> DownAfter(s, down)
<1> DEFINE t == Tail(s)
<1>1. /\ Len(t) = Len(s) - 1 /\ Len(s) \in Nat \ {0}
      /\ \A i \in 1..Len(t) : t[i] = s[i + 1]
      /\ s[1] \in Codes
  BY HeadTailProperties, LenProperties, EmptySeq
<1>2. /\ s[1] = "2A" => next
      /\ s[1] = "AA" => ~next
      /\ s[1] = "other" => (next <=> down)
  <2>1. Head(s) = s[1]
    OBVIOUS
  <2> QED BY <2>1, Zenon
<1> HIDE DEF t
<1>3. (\A i \in 1..Len(s) : s[i] = "other")
        <=> s[1] = "other" /\ \A i \in 1..Len(t) : t[i] = "other"
  <2>1. ASSUME s[1] = "other", \A i \in 1..Len(t) : t[i] = "other", NEW i \in 1..Len(s)
        PROVE  s[i] = "other"
    <3>1. CASE i = 1
      BY <2>1, <3>1
    <3>2. CASE i # 1
      <4>1. i - 1 \in 1..Len(t) /\ (i - 1) + 1 = i
        BY <1>1, <3>2
      <4>2. t[i - 1] = s[i]
        BY <1>1, <4>1
      <4> QED BY <2>1, <4>1, <4>2
    <3> QED BY <3>1, <3>2
  <2>2. ASSUME \A i \in 1..Len(s) : s[i] = "other", NEW i \in 1..Len(t)
        PROVE  t[i] = "other"
    BY <1>1, <2>2
  <2>3. 1 \in 1..Len(s)
    BY <1>1
  <2> QED BY <2>1, <2>2, <2>3
<1>4. ASSUME NEW i \in 1..Len(t), t[i] = "2A", \A k \in (i + 1)..Len(t) : t[k] = "other"
      PROVE  \E j \in 1..Len(s) : s[j] = "2A" /\ \A k \in (j + 1)..Len(s) : s[k] = "other"
  <2>1. i + 1 \in 1..Len(s) /\ s[i + 1] = "2A"
    BY <1>1, <1>4
  <2>2. ASSUME NEW k \in ((i + 1) + 1)..Len(s) PROVE s[k] = "other"
    <3>1. k - 1 \in (i + 1)..Len(t) /\ k - 1 \in 1..Len(t) /\ (k - 1) + 1 = k
      BY <1>1
    <3> QED BY <1>1, <1>4, <3>1
  <2> QED BY <2>1, <2>2
<1>5. ASSUME NEW j \in 1..Len(s), s[j] = "2A", \A k \in (j + 1)..Len(s) : s[k] = "other", j # 1
      PROVE  \E i \in 1..Len(t) : t[i] = "2A" /\ \A k \in (i + 1)..Len(t) : t[k] = "other"
  <2>1. j - 1 \in 1..Len(t) /\ t[j - 1] = "2A"
    BY <1>1, <1>5
  <2>2. ASSUME NEW k \in ((j - 1) + 1)..Len(t) PROVE t[k] = "other"
    BY <1>1, <1>5
  <2> QED BY <2>1, <2>2
<1>6. s[1] = "2A" /\ (\A i \in 1..Len(t) : t[i] = "other")
        <=> s[1] = "2A" /\ \A k \in (1 + 1)..Len(s) : s[k] = "other"
  <2>1. ASSUME \A i \in 1..Len(t) : t[i] = "other", NEW k \in (1 + 1)..Len(s)
        PROVE  s[k] = "other"
    <3>1. k - 1 \in 1..Len(t) /\ (k - 1) + 1 = k
      BY <1>1
    <3> QED BY <1>1, <2>1, <3>1
  <2>2. ASSUME \A k \in (1 + 1)..Len(s) : s[k] = "other", NEW i \in 1..Len(t)
        PROVE  t[i] = "other"
    BY <1>1, <2>2
  <2> QED BY <2>1, <2>2
<1>7. 1 \in 1..Len(s)
  BY <1>1
<1>8. DownAfter(t, next) => DownAfter(s, down)
  <2> SUFFICES ASSUME DownAfter(t, next) PROVE DownAfter(s, down)
    OBVIOUS
  <2>1. CASE next /\ \A i \in 1..Len(t) : t[i] = "other"
    <3>1. CASE s[1] = "2A"
      BY <1>6, <1>7, <2>1, <3>1, Zenon DEF DownAfter
    <3>2. CASE s[1] = "other"
      <4>1. next <=> down
        BY <1>2, <3>2, Zenon
      <4>2. \A i \in 1..Len(s) : s[i] = "other"
        BY <1>3, <2>1, <3>2, Zenon
      <4> QED BY <2>1, <4>1, <4>2, Zenon DEF DownAfter
    <3> QED BY <1>1, <1>2, <2>1, <3>1, <3>2 DEF Codes
  <2>2. CASE \E i \in 1..Len(t) : t[i] = "2A" /\ \A k \in (i + 1)..Len(t) : t[k] = "other"
    BY <1>4, <2>2, Zenon DEF DownAfter
  <2> QED BY <2>1, <2>2, Zenon DEF DownAfter
<1>9. DownAfter(s, down) => DownAfter(t, next)
  <2> SUFFICES ASSUME DownAfter(s, down) PROVE DownAfter(t, next)
    OBVIOUS
  <2>1. CASE down /\ \A i \in 1..Len(s) : s[i] = "other"
    <3>1. next /\ \A i \in 1..Len(t) : t[i] = "other"
      <4>1. s[1] = "other" /\ \A i \in 1..Len(t) : t[i] = "other"
        BY <1>3, <2>1, Zenon
      <4>2. next <=> down
        BY <1>2, <4>1, Zenon
      <4> QED BY <2>1, <4>1, <4>2, Zenon
    <3> QED BY <3>1, Zenon DEF DownAfter
  <2>2. ASSUME NEW j \in 1..Len(s), s[j] = "2A", \A k \in (j + 1)..Len(s) : s[k] = "other"
        PROVE  DownAfter(t, next)
    <3>1. CASE j = 1
      <4>1. next /\ \A i \in 1..Len(t) : t[i] = "other"
        BY <1>2, <1>6, <2>2, <3>1
      <4> QED BY <4>1, Zenon DEF DownAfter
    <3>2. CASE j # 1
      BY <1>5, <2>2, <3>2, Zenon DEF DownAfter
    <3> QED BY <3>1, <3>2
  <2> QED BY <2>1, <2>2, Zenon DEF DownAfter
<1> QED BY <1>8, <1>9, Zenon DEF t

(* A left shift that is held comes out of the codes that wait; with print
   screen up, and not let go with another modifier, no other does. *)
ShiftInv ==
  /\ held \in BOOLEAN /\ others \in BOOLEAN /\ printing \in BOOLEAN
  /\ mixed \in BOOLEAN /\ shift \in BOOLEAN
  /\ held => DownAfter(codes, shift)
  /\ ~printing /\ ~mixed => (DownAfter(codes, shift) => held)

LEMMA InitShift == Init => ShiftInv
<1> SUFFICES ASSUME Init PROVE ShiftInv
  OBVIOUS
<1>1. /\ held = FALSE /\ others = FALSE /\ printing = FALSE
      /\ mixed = FALSE /\ shift = FALSE
  BY DEF Init
<1>2. ~DownAfter(codes, FALSE)
  <2>1. codes = <<>> \/ codes = <<"other">>
    BY DEF Init
  <2>2. CASE codes = <<>>
    BY <2>2, DownAfterNone
  <2>3. CASE codes = <<"other">>
    <3>1. Len(<<"other">>) = 1 /\ \A i \in 1..1 : <<"other">>[i] # "2A"
      OBVIOUS
    <3> QED BY <2>3, <3>1, Zenon DEF DownAfter
  <2> QED BY <2>1, <2>2, <2>3
<1> QED BY <1>1, <1>2, Zenon DEF ShiftInv

(* Sending a code decides what the shift is going to be, if it is one of the
   shift's. *)
LEMMA SentDecides ==
  ASSUME KeyInv, ShiftInv, NEW code \in Codes,
         codes' = Append(codes, code) \/ codes' = Append(Append(codes, "other"), code),
         shift' = shift
  PROVE  /\ code = "other" => (DownAfter(codes', shift') <=> DownAfter(codes, shift))
         /\ code = "2A" => DownAfter(codes', shift')
         /\ code = "AA" => ~DownAfter(codes', shift')
<1>1. codes \in Seq(Codes) /\ shift \in BOOLEAN /\ "other" \in Codes
  BY DEF KeyInv, ShiftInv, Codes
<1>2. CASE codes' = Append(codes, code)
  BY <1>1, <1>2, DownAfterAppend
<1>3. CASE codes' = Append(Append(codes, "other"), code)
  <2> DEFINE s == Append(codes, "other")
  <2>1. s \in Seq(Codes) /\ (DownAfter(s, shift) <=> DownAfter(codes, shift))
    BY <1>1, AppendProperties, DownAfterAppend
  <2>2. codes' = Append(s, code)
    BY <1>3
  <2> HIDE DEF s
  <2>3. /\ code = "other" => (DownAfter(Append(s, code), shift) <=> DownAfter(s, shift))
        /\ code = "2A" => DownAfter(Append(s, code), shift)
        /\ code = "AA" => ~DownAfter(Append(s, code), shift)
    BY <1>1, <2>1, DownAfterAppend
  <2> QED BY <2>1, <2>2, <2>3, Zenon
<1> QED BY <1>2, <1>3

LEMMA KeysShift ==
  ASSUME KeyInv, ShiftInv, OtherKey \/ OtherModifier \/ LeftShift \/ PrintScreen
  PROVE  ShiftInv'
<1>0. codes \in Seq(Codes)
  BY DEF KeyInv
<1>1. {"2A", "AA", "other"} = Codes
  BY DEF Codes
<1>2. \A code \in Codes : codes \o <<code>> = Append(codes, code)
  BY <1>0, AppendIsConcat
<1>3. \A code \in Codes : codes \o <<"other", code>> = Append(Append(codes, "other"), code)
  <2> SUFFICES ASSUME NEW code \in Codes
               PROVE  codes \o <<"other", code>> = Append(Append(codes, "other"), code)
    OBVIOUS
  <2>1. <<"other">> \in Seq(Codes) /\ <<code>> \in Seq(Codes) /\ "other" \in Codes
    BY <1>1, Sent
  <2>2. codes \o (<<"other">> \o <<code>>) = (codes \o <<"other">>) \o <<code>>
    BY <1>0, <2>1, ConcatAssociative
  <2>3. codes \o <<"other">> = Append(codes, "other") /\ Append(codes, "other") \in Seq(Codes)
    BY <1>0, <2>1, AppendIsConcat, AppendProperties
  <2>4. Append(codes, "other") \o <<code>> = Append(Append(codes, "other"), code)
    BY <2>3, AppendIsConcat
  <2>5. <<"other">> \o <<code>> = <<"other", code>>
    <3>1. /\ Len(<<"other">> \o <<code>>) = 2
          /\ (<<"other">> \o <<code>>)[1] = "other" /\ (<<"other">> \o <<code>>)[2] = code
      BY <2>1, ConcatProperties
    <3>2. <<"other">> \o <<code>> \in Seq(Codes) /\ <<"other", code>> \in Seq(Codes)
      BY <2>1, ConcatProperties
    <3>3. /\ Len(<<"other", code>>) = 2
          /\ <<"other", code>>[1] = "other" /\ <<"other", code>>[2] = code
      OBVIOUS
    <3>4. \A i \in 1..2 : (<<"other">> \o <<code>>)[i] = <<"other", code>>[i]
      BY <3>1, <3>3
    <3> QED BY <3>1, <3>2, <3>3, <3>4, SeqEqual
  <2> QED BY <2>2, <2>3, <2>4, <2>5
<1>4. shift' = shift
  BY DEF OtherKey, OtherModifier, LeftShift, PrintScreen, Send
<1>5. CASE OtherKey \/ OtherModifier
  <2>1. codes' = Append(codes, "other") /\ UNCHANGED <<held, printing, mixed>>
    BY <1>1, <1>2, <1>5 DEF OtherKey, OtherModifier, Send
  <2>2. others' \in BOOLEAN
    BY <1>5 DEF OtherKey, OtherModifier, ShiftInv
  <2>3. DownAfter(codes', shift') <=> DownAfter(codes, shift)
    BY <1>1, <1>4, <2>1, SentDecides
  <2> QED BY <1>4, <2>1, <2>2, <2>3, Zenon DEF ShiftInv
<1>6. CASE LeftShift
  <2>1. UNCHANGED <<others, printing>>
    BY <1>6 DEF LeftShift
  <2>2. CASE Send(<<"AA">>) /\ held' = FALSE /\ mixed' = FALSE
    <3>1. codes' = Append(codes, "AA")
      BY <1>1, <1>2, <2>2 DEF Send
    <3>2. ~DownAfter(codes', shift')
      BY <1>1, <1>4, <3>1, SentDecides
    <3> QED BY <1>4, <2>1, <2>2, <3>2, Zenon DEF ShiftInv
  <2>3. CASE Send(<<"2A">>) /\ held' = TRUE /\ mixed' = mixed
    <3>1. codes' = Append(codes, "2A")
      BY <1>1, <1>2, <2>3 DEF Send
    <3>2. DownAfter(codes', shift')
      BY <1>1, <1>4, <3>1, SentDecides
    <3> QED BY <1>4, <2>1, <2>3, <3>2, Zenon DEF ShiftInv
  <2> QED BY <1>6, <2>2, <2>3 DEF LeftShift
<1>7. CASE PrintScreen
  <2> DEFINE Key(fake) == Send(IF ~held /\ ~others THEN <<"other", fake>> ELSE <<"other">>)
  <2>1. UNCHANGED <<held, others>>
    BY <1>7 DEF PrintScreen
  <2>2. \/ Key("2A") /\ printing' = TRUE /\ mixed' = mixed
        \/ Key("AA") /\ printing' = FALSE /\ mixed' = (IF held THEN mixed ELSE others)
    BY <1>7 DEF PrintScreen
  <2>3. mixed' \in BOOLEAN /\ printing' \in BOOLEAN
    BY <2>2 DEF ShiftInv
  (* With a modifier held the shift comes out of the codes as before. *)
  <2>4. CASE held \/ others
    <3>1. codes' = Append(codes, "other")
      BY <1>1, <1>2, <2>2, <2>4 DEF Send
    <3>2. DownAfter(codes', shift') <=> DownAfter(codes, shift)
      BY <1>1, <1>4, <3>1, SentDecides
    <3>3. ~printing' /\ ~mixed' => held
      BY <2>2, <2>4 DEF ShiftInv
    <3> QED BY <1>4, <2>1, <2>3, <3>2, <3>3, Zenon DEF ShiftInv
  (* The fake shift is pressed with the key, and released with it. *)
  <2>5. CASE ~held /\ ~others /\ printing'
    BY <1>4, <2>1, <2>3, <2>5, Zenon DEF ShiftInv
  <2>6. CASE ~held /\ ~others /\ ~printing'
    <3>1. codes' = Append(Append(codes, "other"), "AA")
      BY <1>1, <1>3, <2>2, <2>6 DEF Send
    <3>2. ~DownAfter(codes', shift')
      BY <1>1, <1>4, <3>1, SentDecides
    <3> QED BY <1>4, <2>1, <2>3, <2>6, <3>2, Zenon DEF ShiftInv
  <2> QED BY <2>3, <2>4, <2>5, <2>6
<1> QED BY <1>5, <1>6, <1>7

LEMMA TakeShift ==
  ASSUME Inv, KeyInv, ShiftInv, NEW line \in {Timer, Keyboard, Cascade}, Take(line)
  PROVE  ShiftInv'
<1> DEFINE vector == IF line = Cascade THEN base["pic2"] + Min(Pending2)
                     ELSE base["pic1"] + line
<1>1. line \in Pending /\ irq_1(vector) /\ UNCHANGED <<held, others, printing, mixed>>
  BY DEF Take, isr_handler
<1>2. line = Cascade => vector = 46
  <2> SUFFICES ASSUME line = Cascade PROVE vector = 46
    OBVIOUS
  <2>1. Pending2 # {}
    BY <1>1 DEF Pending, Inv, ChipsType, Timer, Keyboard, Cascade
  <2> QED BY <2>1, CascadePending DEF Inv, BaseInv, Disk
<1>3. line # Cascade => vector = (IF ~WasReset THEN 8 ELSE IF Remapped THEN 32 ELSE 0) + line
  BY DEF Inv, BaseInv
<1>4. line # Cascade => line \in irr["pic1"]
  BY <1>1 DEF Pending
<1> HIDE DEF vector
<1>5. CASE vector = 33
  <2>1. line = Keyboard /\ WasReset
    BY <1>2, <1>3, <1>5 DEF Timer, Keyboard, Cascade
  <2>2. codes # <<>> /\ codes \in Seq(Codes)
    BY <1>4, <2>1 DEF KeyInv, Keyboard, Cascade
  <2>3. codes' = Tail(codes) /\ process_key(Head(codes))
    BY <1>1, <1>5 DEF irq_1
  <2>4. /\ Head(codes) = "2A" => shift' = TRUE
        /\ Head(codes) = "AA" => shift' = FALSE
        /\ Head(codes) = "other" => shift' = shift
        /\ Head(codes) \in {"2A", "AA", "other"}
    <3>1. Head(codes) \in Codes
      BY <2>2, HeadTailProperties
    <3> QED BY <2>3, <3>1 DEF process_key, Codes
  <2>5. shift \in BOOLEAN /\ shift' \in BOOLEAN
    <3>1. shift \in BOOLEAN
      BY DEF ShiftInv
    <3>2. shift' = TRUE \/ shift' = FALSE \/ shift' = shift
      BY <2>4
    <3> QED BY <3>1, <3>2
  <2>6. DownAfter(codes', shift') <=> DownAfter(codes, shift)
    <3>1. /\ Head(codes) = "2A" => shift'
          /\ Head(codes) = "AA" => ~shift'
          /\ Head(codes) = "other" => (shift' <=> shift)
      <4>1. Head(codes) = "2A" => shift'
        BY <2>4
      <4>2. Head(codes) = "AA" => ~shift'
        BY <2>4
      <4>3. Head(codes) = "other" => (shift' <=> shift)
        <5> HAVE Head(codes) = "other"
        <5>1. shift' = shift
          BY <2>4
        <5> QED BY <5>1
      <4> QED BY <4>1, <4>2, <4>3, Zenon
    <3>2. DownAfter(Tail(codes), shift') <=> DownAfter(codes, shift)
      BY <2>2, <2>5, <3>1, DownAfterRead, Zenon
    <3> QED BY <2>3, <3>2, Zenon
  <2> QED BY <1>1, <2>5, <2>6, Zenon DEF ShiftInv
<1>6. CASE vector # 33
  <2>1. codes' = codes /\ shift' = shift
    BY <1>1, <1>6 DEF irq_1
  <2> QED BY <1>1, <2>1, Zenon DEF ShiftInv
<1> QED BY <1>5, <1>6

LEMMA NextShift == Inv /\ KeyInv /\ ShiftInv /\ [Next]_vars => ShiftInv'
<1> SUFFICES ASSUME Inv, KeyInv, ShiftInv, [Next]_vars PROVE ShiftInv'
  OBVIOUS
<1>1. ASSUME UNCHANGED keys PROVE ShiftInv'
  BY <1>1, Zenon DEF keys, ShiftInv
<1>2. CASE Boot
  BY <1>1, <1>2 DEF Boot, Sti, paging_init, pic_config
<1>3. CASE Main
  BY <1>1, <1>3 DEF Main, Call, Test, Halt
<1>4. ASSUME NEW line \in {Timer, Keyboard, Cascade}, Take(line) PROVE ShiftInv'
  BY <1>4, TakeShift
<1>5. CASE Return \/ Tick \/ DiskDone
  BY <1>1, <1>5 DEF Return, Tick, DiskDone
<1>6. CASE OtherKey \/ OtherModifier \/ LeftShift \/ PrintScreen
  BY <1>6, KeysShift
<1>7. CASE UNCHANGED vars
  BY <1>1, <1>7 DEF vars
<1> QED BY <1>2, <1>3, <1>4, <1>5, <1>6, <1>7 DEF Next

(* With everything read, a left shift that is held is the driver's, and the
   driver has no other but one that print screen's fake codes explain
   (keyboard_driver.c:792-798): for every number of codes and in every order
   of keys, modifiers and interrupts. *)
THEOREM ShiftIsFollowed ==
  ASSUME Leftover = {TRUE}
  PROVE  Spec => []ShiftFollowsKey
<1>1. ShiftInv => ShiftFollowsKey
  <2> SUFFICES ASSUME ShiftInv, codes = <<>>
               PROVE  (held => shift) /\ (shift => held \/ printing \/ mixed)
    BY DEF ShiftFollowsKey
  <2>1. DownAfter(codes, shift) <=> shift
    BY DownAfterNone DEF ShiftInv
  <2> QED BY <2>1, Zenon DEF ShiftInv
<1>2. Inv /\ [Next]_vars => Inv'
  BY NextInv
<1> QED BY InitInv, InitKey, NextKey, InitShift, NextShift, <1>1, <1>2, PTL DEF Spec
-----------------------------------------------------------------------------
(***************************************************************************)
(* The controllers and the boot are, for the kernel, what Sleep says.      *)
(***************************************************************************)
KernelInv ==
  /\ stage # "kernel_main" => pc = "awake"
  /\ quick => Len(codes) <= 1
  /\ counted \in 0..Kernel!MaxCounted

(* A handler runs that Sleep tells from the main thread. *)
Handling == running \in IrqVectors \ {32}

(* What Request is, or will be, once the first controller has its vectors. *)
Servable ==
  {line \in {"timer", "keyboard", "disk"} :
     /\ line = "timer" => Timer \in irr["pic1"]
     /\ line = "keyboard" => Keyboard \in irr["pic1"]
     /\ line = "disk" => Disk \in irr["pic2"]
     /\ caught # {} => line = "timer" /\ Timer \notin caught}

(* With nothing pending nothing can be served: what blocks a line for the
   controllers was caught. *)
LEMMA NothingServable ==
  ASSUME Inv, MainRuns, WasReset
  PROVE  Servable = {}
<1>1. isr["pic1"] = caught /\ isr["pic2"] = {} /\ Pending = {}
  <2>1. running = NoVector /\ Pending = {}
    BY DEF MainRuns
  <2>2. ServedLine = {} /\ running # 46
    BY <2>1 DEF ServedLine, NoVector
  <2> QED BY <2>1, <2>2 DEF Inv, ServiceInv
<1>2. caught \subseteq {Timer, Keyboard} /\ irr["pic2"] \subseteq {Disk}
  BY DEF Inv, ChipsType
<1>3. ~(Timer \in irr["pic1"] /\ Timer \notin caught)
  BY <1>1, <1>2 DEF Pending, Timer, Keyboard
<1>4. caught = {} => Keyboard \notin irr["pic1"]
  BY <1>1 DEF Pending
<1>5. caught = {} => Disk \notin irr["pic2"]
  <2> SUFFICES ASSUME caught = {}, Disk \in irr["pic2"] PROVE FALSE
    OBVIOUS
  <2>1. Pending2 # {}
    BY <1>1 DEF Pending2
  <2> QED BY <1>1, <2>1 DEF Pending
<1> QED BY <1>3, <1>4, <1>5 DEF Servable

LEMMA RequestIsServable == Request = IF Remapped THEN Servable ELSE {}
  BY DEF Request, Servable

LEMMA MainRunsThere ==
  ASSUME Inv, MainRuns
  PROVE  Request = {} /\ ~Handling /\ Kernel!MainRuns
<1>1. Request = {}
  BY NothingServable, RequestIsServable DEF WasReset, Remapped
<1>2. ~Handling
  BY DEF MainRuns, Handling, NoVector, IrqVectors
<1> QED BY <1>1, <1>2 DEF Kernel!MainRuns, Handling

(* Steps that the kernel does not see. *)
LEMMA Unseen ==
  ASSUME UNCHANGED sleepVars, Request' = Request, Handling' = Handling
  PROVE  UNCHANGED Kernel!vars
  BY DEF sleepVars, Handling, Kernel!vars

LEMMA BootUnseen ==
  ASSUME Inv, Boot
  PROVE  UNCHANGED Kernel!vars
<1>1. UNCHANGED sleepVars /\ Handling' = Handling
  BY DEF Boot, Sti, paging_init, pic_config, Handling
<1>2. Request' = Request
  <2>1. CASE ~Remapped'
    <3>1. ~Remapped
      BY <2>1 DEF Boot, Sti, paging_init, pic_config, Remapped
    <3> QED BY <2>1, <3>1, RequestIsServable DEF Request
  <2>2. CASE Remapped'
    <3>1. pic_config /\ MainRuns /\ WasReset
          /\ stage \in {"ICW2_pic1", "ICW2_pic2", "ICW3"}
      BY <2>2 DEF Boot, Sti, paging_init, pic_config, Remapped, WasReset
    <3>2. irr' = irr /\ caught' = caught
      BY <3>1 DEF pic_config, Remap, chips
    <3>3. Servable = {} /\ Request = {}
      BY <3>1, NothingServable, MainRunsThere
    <3>4. Request' = Servable
      BY <2>2, <3>2 DEF Request, Servable
    <3> QED BY <3>3, <3>4
  <2> QED BY <2>1, <2>2
<1> QED BY <1>1, <1>2, Unseen

LEMMA MainThere ==
  ASSUME Inv, Main
  PROVE  Kernel!Next
<1>1. Kernel!MainRuns /\ Request' = Request /\ Handling' = Handling
  <2>1. UNCHANGED <<stage, irr, caught, running>> /\ MainRuns
    BY DEF Main, Call, Test, Halt, chips
  <2>2. Request' = Request
    BY <2>1 DEF Request, Remapped
  <2> QED BY <2>1, <2>2, MainRunsThere DEF Handling
<1>2. ASSUME NEW t \in Durations, Call(t) PROVE Kernel!Call(t)
  BY <1>1, <1>2 DEF Call, Kernel!Call, Handling
<1>3. Test => Kernel!Test
  BY <1>1 DEF Test, Kernel!Test, Handling
<1>4. Halt => Kernel!Halt
  BY <1>1 DEF Halt, Kernel!Halt, Handling
<1> QED BY <1>2, <1>3, <1>4 DEF Main, Kernel!Next, Kernel!Main

(* Before the controllers have their vectors an interrupt is none of those
   that Sleep knows of. *)
LEMMA TakeUnseen ==
  ASSUME Inv, KernelInv, NEW line \in {Timer, Keyboard, Cascade}, Take(line), ~Remapped
  PROVE  UNCHANGED Kernel!vars
<1>1. line # Cascade
  <2> SUFFICES ASSUME line = Cascade PROVE FALSE
    OBVIOUS
  <2>1. Pending2 # {}
    BY DEF Take, Pending, Inv, ChipsType, Timer, Keyboard, Cascade
  <2> QED BY <2>1, CascadePending DEF Remapped
<1>2. base["pic1"] + line \in {0, 1, 8, 9}
  BY <1>1 DEF Inv, BaseInv, Timer, Keyboard, Cascade
<1>3. running' \in {0, 1, 8, 9} /\ running = NoVector
  BY <1>1, <1>2 DEF Take
<1>4. Handling' = Handling
  BY <1>3 DEF Handling, IrqVectors, NoVector
<1>5. isr_handler(base["pic1"] + line) /\ stage' = stage
  BY <1>1 DEF Take
<1>6. global_timer' = global_timer /\ counted' = counted
  BY <1>2, <1>5 DEF isr_handler, irq_0
<1>7. pc' = pc /\ UNCHANGED <<temp, time, quick>>
  BY DEF Take, KernelInv, Remapped
<1>8. Request' = Request
  BY <1>5 DEF Request, Remapped
<1> QED BY <1>4, <1>6, <1>7, <1>8, Unseen DEF sleepVars

(* The line that is taken is the first that Sleep has a request of. *)
LEMMA TakeThere ==
  ASSUME Inv, KeyInv, KernelInv, NEW line \in {Timer, Keyboard, Cascade}, Take(line), Remapped
  PROVE  Kernel!Next
<1> DEFINE vector == IF line = Cascade THEN base["pic2"] + Min(Pending2)
                     ELSE base["pic1"] + line
           line2  == IF line = Cascade THEN {Min(Pending2)} ELSE {}
           again  == {k \in {Keyboard} : codes' # codes /\ sensed'}
<1>1. /\ running = NoVector /\ line \in Pending /\ \A l \in Pending : line <= l
      /\ isr_handler(vector) /\ running' = vector
      /\ irr' = [pic1 |-> (irr["pic1"] \ {line}) \cup again, pic2 |-> irr["pic2"] \ line2]
      /\ caught' = IF vector \in IrqVectors THEN caught ELSE caught \cup {line}
      /\ pc' = IF pc = "halted" THEN "test" ELSE pc
      /\ UNCHANGED <<stage, temp, time, quick>>
  BY DEF Take
<1>2. isr["pic1"] = caught /\ isr["pic2"] = {} /\ caught \subseteq {Timer, Keyboard}
  BY <1>1 DEF Inv, ChipsType, ServiceInv, ServedLine, NoVector, WasReset, Remapped
<1>3. \A l \in caught : line < l
  BY <1>1, <1>2 DEF Pending
<1>4. vector = IF line = Cascade THEN 46 ELSE 32 + line
  <2>1. CASE line = Cascade
    <3>1. Pending2 # {}
      BY <1>1, <2>1 DEF Pending, Inv, ChipsType, Timer, Keyboard, Cascade
    <3> QED BY <2>1, <3>1, CascadePending DEF Inv, BaseInv, Disk
  <2>2. CASE line # Cascade
    BY <2>2 DEF Inv, BaseInv, WasReset, Remapped
  <2> QED BY <2>1, <2>2
<1>5. caught' = caught /\ Request = Servable /\ Request' = Servable'
  BY <1>1, <1>4, RequestIsServable DEF IrqVectors, Timer, Keyboard, Cascade, Request, Servable, Remapped
<1>6. ~Handling
  BY <1>1 DEF Handling, IrqVectors, NoVector
<1> HIDE DEF vector, again
<1>7. CASE line = Timer
  <2>1. "timer" \in Request /\ Request' = Request \ {"timer"}
    <3>1. Timer \in irr["pic1"] /\ Timer \notin caught
      BY <1>1, <1>3, <1>7 DEF Pending, Timer, Cascade
    <3>2. again = {} /\ irr' = [pic1 |-> irr["pic1"] \ {Timer}, pic2 |-> irr["pic2"]]
      <4>1. codes' = codes
        BY <1>1, <1>4, <1>7 DEF isr_handler, irq_1, Timer, Cascade
      <4> QED BY <1>1, <1>7, <4>1 DEF again, Timer, Cascade
    <3> QED BY <1>5, <3>1, <3>2 DEF Servable, Timer, Keyboard
  <2>2. /\ global_timer' = (global_timer + 1) % Modulus
        /\ counted' = IF pc = "awake" THEN counted ELSE Min({counted + 1, Kernel!MaxCounted})
    BY <1>1, <1>4, <1>7 DEF isr_handler, irq_0, Timer, Cascade
  <2>3. Min({counted + 1, Kernel!MaxCounted})
          = IF counted = Kernel!MaxCounted THEN counted ELSE counted + 1
    <3>1. Kernel!MaxCounted \in Nat
      BY InterruptsAssumption DEF Kernel!MaxCounted
    <3> QED BY <3>1 DEF KernelInv, Min
  <2>4. ~Handling'
    BY <1>1, <1>4, <1>7 DEF Handling, IrqVectors, Timer, Cascade
  <2>5. Kernel!on_update
    BY <1>1, <1>6, <2>1, <2>2, <2>3, <2>4 DEF Kernel!on_update, Kernel!Wake, Handling
  <2> QED BY <2>5 DEF Kernel!Next, Kernel!Handlers
<1>8. CASE line = Keyboard
  <2>1. Keyboard \in irr["pic1"] /\ Timer \notin irr["pic1"] /\ caught = {}
    <3>1. Keyboard \in irr["pic1"] /\ caught = {}
      BY <1>1, <1>2, <1>3, <1>8 DEF Pending, Timer, Keyboard, Cascade
    <3>2. Timer \in irr["pic1"] => Timer \in Pending
      BY <1>2, <3>1 DEF Pending
    <3> QED BY <1>1, <1>8, <3>1, <3>2 DEF Timer, Keyboard
  <2>2. "keyboard" \in Request /\ "timer" \notin Request
    BY <1>5, <2>1 DEF Servable
  <2>3. codes # <<>> /\ codes' = Tail(codes) /\ sensed' = (Tail(codes) # <<>>)
    BY <1>1, <1>4, <1>8, <2>1 DEF isr_handler, irq_1, KeyInv, WasReset, Remapped, Keyboard, Cascade
  <2>4. quick => again = {}
    <3>1. ASSUME quick PROVE Tail(codes) = <<>>
      <4>1. Len(codes) <= 1 /\ codes \in Seq(Codes)
        BY <3>1 DEF KernelInv, KeyInv
      <4> QED BY <2>3, <4>1, ShortTail, Zenon
    <3> QED BY <2>3, <3>1 DEF again
  <2>5. Request' = Request \ {"keyboard"} \/ (again # {} /\ Request' = Request)
    <3>1. irr' = [pic1 |-> (irr["pic1"] \ {Keyboard}) \cup again, pic2 |-> irr["pic2"]]
      BY <1>1, <1>8 DEF Keyboard, Cascade
    <3>2. again = {} \/ again = {Keyboard}
      BY DEF again
    <3> QED BY <1>5, <2>1, <3>1, <3>2 DEF Servable, Timer, Keyboard
  <2>6. global_timer' = global_timer /\ counted' = counted
    BY <1>1, <1>4, <1>8 DEF isr_handler, irq_0, Keyboard, Cascade
  <2>7. Handling'
    BY <1>1, <1>4, <1>8 DEF Handling, IrqVectors, Keyboard, Cascade
  <2>8. Kernel!HandlerBegins("keyboard")
    BY <1>1, <1>6, <2>2, <2>4, <2>5, <2>6, <2>7 DEF Kernel!HandlerBegins, Kernel!Wake, Handling
  <2> QED BY <2>8 DEF Kernel!Next, Kernel!Handlers, Kernel!Lines
<1>9. CASE line = Cascade
  <2>1. Disk \in irr["pic2"] /\ line2 = {Disk}
    <3>1. Pending2 # {}
      BY <1>1, <1>9 DEF Pending, Inv, ChipsType, Timer, Keyboard, Cascade
    <3> QED BY <1>9, <3>1, CascadePending DEF Pending2
  <2>2. Timer \notin irr["pic1"] /\ Keyboard \notin irr["pic1"] /\ caught = {}
    <3>1. caught = {}
      BY <1>2, <1>3, <1>9 DEF Timer, Keyboard, Cascade
    <3>2. irr["pic1"] \subseteq Pending
      BY <1>2, <3>1 DEF Pending
    <3> QED BY <1>1, <1>9, <3>1, <3>2 DEF Timer, Keyboard, Cascade
  <2>3. Request = {"disk"}
    BY <1>5, <2>1, <2>2 DEF Servable
  <2>4. codes' = codes /\ global_timer' = global_timer /\ counted' = counted
    BY <1>1, <1>4, <1>9 DEF isr_handler, irq_0, irq_1
  <2>5. irr' = [pic1 |-> irr["pic1"] \ {Cascade}, pic2 |-> irr["pic2"] \ {Disk}]
    BY <1>1, <1>9, <2>1, <2>4 DEF again
  <2>6. Request' = {}
    BY <1>5, <2>2, <2>5 DEF Servable
  <2>7. Handling'
    BY <1>1, <1>4, <1>9 DEF Handling, IrqVectors
  <2>8. Kernel!HandlerBegins("disk")
    BY <1>1, <1>6, <2>3, <2>4, <2>6, <2>7 DEF Kernel!HandlerBegins, Kernel!Wake, Handling
  <2> QED BY <2>8 DEF Kernel!Next, Kernel!Handlers, Kernel!Lines
<1> QED BY <1>7, <1>8, <1>9

LEMMA ReturnThere ==
  ASSUME Inv, Return
  PROVE  Kernel!Next \/ UNCHANGED Kernel!vars
<1>1. UNCHANGED sleepVars /\ Request' = Request /\ running' = NoVector
  BY DEF Return, Request, Remapped
<1>2. ~Handling'
  BY <1>1 DEF Handling, IrqVectors, NoVector
<1>3. CASE Handling
  <2>1. Kernel!HandlerEnds
    BY <1>1, <1>2, <1>3 DEF Kernel!HandlerEnds, Handling, sleepVars
  <2> QED BY <2>1 DEF Kernel!Next, Kernel!Handlers
<1>4. CASE ~Handling
  <2>1. Handling' = Handling
    BY <1>2, <1>4 DEF Handling
  <2> QED BY <1>1, <2>1, Unseen
<1> QED BY <1>3, <1>4

(* A device that asks: either Sleep's does too, or Sleep sees nothing. *)
LEMMA AskThere ==
  ASSUME UNCHANGED <<stage, caught, running, sleepVars>>,
         NEW device \in {"timer", "keyboard", "disk"},
         irr' = irr \/ irr' = IF device = "disk" THEN [irr EXCEPT !["pic2"] = @ \cup {Disk}]
                              ELSE [irr EXCEPT !["pic1"] = @ \cup {IF device = "timer" THEN Timer ELSE Keyboard}],
         Inv
  PROVE  /\ UNCHANGED sleepVars /\ Handling' = Handling
         /\ Request' = Request \/ Request' = Request \cup {device}
<1>1. Handling' = Handling /\ UNCHANGED sleepVars
  BY DEF Handling
<1>2. CASE irr' = irr
  <2>1. Request' = Request
    BY <1>2 DEF Request, Remapped
  <2> QED BY <1>1, <2>1
<1>3. CASE irr' # irr
  <2>1. CASE device = "timer"
    BY <1>1, <1>3, <2>1 DEF Request, Remapped, Inv, ChipsType, Timer, Keyboard
  <2>2. CASE device = "keyboard"
    BY <1>1, <1>3, <2>2 DEF Request, Remapped, Inv, ChipsType, Timer, Keyboard
  <2>3. CASE device = "disk"
    BY <1>1, <1>3, <2>3 DEF Request, Remapped, Inv, ChipsType, Timer, Keyboard
  <2> QED BY <2>1, <2>2, <2>3
<1> QED BY <1>2, <1>3

LEMMA DevicesThere ==
  ASSUME Inv, Tick \/ DiskDone \/ (\E new \in Seq(Codes) : Send(new))
  PROVE  Kernel!Next \/ UNCHANGED Kernel!vars
<1>1. CASE Tick
  <2>1. /\ UNCHANGED sleepVars /\ Handling' = Handling
        /\ Request' = Request \/ Request' = Request \cup {"timer"}
    BY <1>1, AskThere DEF Tick
  <2>2. quick => pc \in {"awake", "halted"} /\ Kernel!MainRuns
    BY <1>1, MainRunsThere DEF Tick
  <2>3. Request' = Request \cup {"timer"} => Kernel!Tick
    BY <2>1, <2>2 DEF Kernel!Tick, Handling, sleepVars
  <2> QED BY <2>1, <2>3, Unseen DEF Kernel!Next, Kernel!Devices
<1>2. CASE DiskDone
  <2>1. /\ UNCHANGED sleepVars /\ Handling' = Handling
        /\ Request' = Request \/ Request' = Request \cup {"disk"}
    BY <1>2, AskThere DEF DiskDone
  <2>2. quick => Kernel!MainRuns
    BY <1>2, MainRunsThere DEF DiskDone
  <2>3. Request' = Request \cup {"disk"} => Kernel!Raise("disk")
    BY <2>1, <2>2 DEF Kernel!Raise, Handling, sleepVars
  <2> QED BY <2>1, <2>3, Unseen DEF Kernel!Next, Kernel!Devices, Kernel!Lines
<1>3. ASSUME NEW new \in Seq(Codes), Send(new) PROVE Kernel!Next \/ UNCHANGED Kernel!vars
  <2>1. /\ UNCHANGED sleepVars /\ Handling' = Handling
        /\ Request' = Request \/ Request' = Request \cup {"keyboard"}
    BY <1>3, AskThere DEF Send
  <2>2. quick => Kernel!MainRuns
    BY <1>3, MainRunsThere DEF Send
  <2>3. Request' = Request \cup {"keyboard"} => Kernel!Raise("keyboard")
    BY <2>1, <2>2 DEF Kernel!Raise, Handling, sleepVars
  <2> QED BY <2>1, <2>3, Unseen DEF Kernel!Next, Kernel!Devices, Kernel!Lines
<1> QED BY <1>1, <1>2, <1>3

LEMMA NextThere ==
  ASSUME Inv, KeyInv, KernelInv, [Next]_vars
  PROVE  [Kernel!Next]_(Kernel!vars)
<1>1. CASE Boot
  BY <1>1, BootUnseen
<1>2. CASE Main
  BY <1>2, MainThere
<1>3. ASSUME NEW line \in {Timer, Keyboard, Cascade}, Take(line)
      PROVE  Kernel!Next \/ UNCHANGED Kernel!vars
  BY <1>3, TakeThere, TakeUnseen
<1>4. CASE Return
  BY <1>4, ReturnThere
<1>5. CASE Tick \/ DiskDone
  BY <1>5, DevicesThere
<1>6. CASE OtherKey \/ OtherModifier \/ LeftShift \/ PrintScreen
  BY <1>6, KeysSend, DevicesThere
<1>7. CASE UNCHANGED vars
  <2>1. UNCHANGED sleepVars /\ Request' = Request /\ Handling' = Handling
    BY <1>7 DEF vars, chips, Request, Remapped, Handling
  <2> QED BY <2>1, Unseen
<1> QED BY <1>1, <1>2, <1>3, <1>4, <1>5, <1>6, <1>7 DEF Next

LEMMA NextKernel ==
  ASSUME Inv, KeyInv, KernelInv, [Next]_vars
  PROVE  KernelInv'
<1>0. Kernel!MaxCounted \in Nat /\ counted \in 0..Kernel!MaxCounted
  BY InterruptsAssumption DEF Kernel!MaxCounted, KernelInv
<1>1. CASE Boot
  BY <1>1 DEF Boot, Sti, paging_init, pic_config, keys, sleepVars, KernelInv, Kernel!MaxCounted
<1>2. CASE Main
  BY <1>0, <1>2 DEF Main, Call, Test, Halt, keys, KernelInv, Kernel!MaxCounted
<1>3. ASSUME NEW line \in {Timer, Keyboard, Cascade}, Take(line) PROVE KernelInv'
  <2>1. PICK vector : isr_handler(vector)
    BY <1>3 DEF Take
  <2>2. counted' \in 0..Kernel!MaxCounted
    <3>1. Min({counted + 1, Kernel!MaxCounted})
            = IF counted = Kernel!MaxCounted THEN counted ELSE counted + 1
      BY <1>0 DEF Min
    <3> QED BY <1>0, <2>1, <3>1 DEF isr_handler, irq_0
  <2>3. pc = "awake" => pc' = "awake"
    BY <1>3 DEF Take
  <2>4. quick' = quick /\ stage' = stage
    BY <1>3 DEF Take
  <2>5. ASSUME quick PROVE Len(codes') <= 1
    <3>1. CASE codes' = codes
      BY <2>5, <3>1 DEF KernelInv
    <3>2. CASE codes' # codes /\ codes # <<>>
      <4>1. codes' = Tail(codes)
        BY <2>1, <3>2 DEF isr_handler, irq_1
      <4>2. codes \in Seq(Codes) /\ Len(codes) <= 1 /\ Len(codes) \in Nat
        BY <2>5, LenProperties DEF KeyInv, KernelInv
      <4>3. Len(Tail(codes)) = Len(codes) - 1
        BY <3>2, <4>2, TailShrinks, Zenon
      <4> QED BY <4>1, <4>2, <4>3
    <3>3. CASE codes' # codes /\ codes = <<>>
      <4>1. codes' = Tail(<<>>)
        BY <2>1, <3>3 DEF isr_handler, irq_1
      <4> QED BY <4>1
    <3> QED BY <3>1, <3>2, <3>3
  <2> QED BY <2>2, <2>3, <2>4, <2>5 DEF KernelInv, Kernel!MaxCounted
<1>4. CASE Return
  BY <1>4 DEF Return, keys, sleepVars, KernelInv, Kernel!MaxCounted
<1>5. CASE Tick \/ DiskDone
  BY <1>5 DEF Tick, DiskDone, keys, sleepVars, KernelInv, Kernel!MaxCounted
<1>6. CASE OtherKey \/ OtherModifier \/ LeftShift \/ PrintScreen
  <2>1. PICK new \in Seq(Codes) : Send(new)
    BY <1>6, KeysSend
  <2>2. ASSUME quick PROVE Len(codes') = 1
    <3>1. codes' \in {<<"other">>, <<"2A">>, <<"AA">>}
      BY <2>1, <2>2 DEF Send
    <3> QED BY <3>1
  <2> QED BY <2>1, <2>2 DEF Send, sleepVars, KernelInv, Kernel!MaxCounted
<1>7. CASE UNCHANGED vars
  BY <1>7 DEF vars, keys, sleepVars, KernelInv, Kernel!MaxCounted
<1> QED BY <1>1, <1>2, <1>3, <1>4, <1>5, <1>6, <1>7 DEF Next

LEMMA InitKernel == Init => KernelInv
<1> SUFFICES ASSUME Init PROVE KernelInv
  OBVIOUS
<1>1. 0 \in 0..Kernel!MaxCounted
  BY InterruptsAssumption DEF Kernel!MaxCounted
<1>2. stage = "sti" /\ pc = "awake" /\ counted = 0
  BY DEF Init, Kernel!Init
<1>3. Len(codes) <= 1
  <2>1. Len(<<>>) = 0 /\ Len(<<"other">>) = 1
    OBVIOUS
  <2>2. codes = <<>> \/ codes = <<"other">>
    BY DEF Init
  <2>3. CASE codes = <<>>
    BY <2>1, <2>3
  <2>4. CASE codes = <<"other">>
    BY <2>1, <2>4
  <2> QED BY <2>2, <2>3, <2>4
<1> QED BY <1>1, <1>2, <1>3 DEF KernelInv

(* The interrupt controllers, the boot that sets them up with interrupts
   enabled (boot.asm:66), and the handlers' ends of interrupt are what Sleep
   says of requests and handlers: for every duration, number of codes and
   order of interrupts. *)
THEOREM SleepIsImplemented ==
  ASSUME Leftover = {TRUE}
  PROVE  Spec => ImplementsSleep
<1>1. Init => Kernel!Init
  <2> SUFFICES ASSUME Init PROVE Kernel!Init
    OBVIOUS
  <2>1. Request = {} /\ ~Handling
    BY DEF Init, Request, Remapped, Handling, NoVector, IrqVectors
  <2> QED BY <2>1 DEF Init
<1>2. Inv /\ [Next]_vars => Inv'
  BY NextInv
<1> QED
  BY InitInv, InitKey, NextKey, InitKernel, NextKernel, NextThere, <1>1, <1>2, PTL
  DEF Spec, ImplementsSleep, Kernel!Spec
-----------------------------------------------------------------------------
(***************************************************************************)
(* The types of what the invariants above say nothing of.                  *)
(***************************************************************************)
RestType ==
  /\ base \in [pic1 : {0, 8, 32}, pic2 : {0, 112, 40}]
  /\ Len(codes) <= MaxCodes
  /\ sensed \in BOOLEAN
  /\ pc \in Kernel!MainStates
  /\ temp \in 0..(Modulus - 1)
  /\ time \in Durations \cup {0}
  /\ global_timer \in 0..(Modulus - 1)
  /\ quick \in BOOLEAN

LEMMA Residue ==
  /\ 0 \in 0..(Modulus - 1)
  /\ \A n \in Int : n % Modulus \in 0..(Modulus - 1)
  BY InterruptsAssumption

LEMMA InitRest == Init => RestType
<1> SUFFICES ASSUME Init PROVE RestType
  OBVIOUS
<1>1. Len(codes) <= MaxCodes
  <2>1. Len(<<>>) = 0 /\ Len(<<"other">>) = 1 /\ MaxCodes \in Nat /\ MaxCodes # 0
    BY InterruptsAssumption
  <2>2. codes = <<>> \/ codes = <<"other">>
    BY DEF Init
  <2>3. Len(codes) = 0 \/ Len(codes) = 1
    BY <2>1, <2>2, Zenon
  <2> QED BY <2>1, <2>3
<1>2. sensed \in BOOLEAN
  BY DEF Init
<1>3. base \in [pic1 : {0, 8, 32}, pic2 : {0, 112, 40}]
  BY DEF Init
<1>4. /\ pc = "awake" /\ temp = 0 /\ time = 0 /\ global_timer = 0
      /\ quick \in BOOLEAN
  BY DEF Init, Kernel!Init
<1> QED BY <1>1, <1>2, <1>3, <1>4, Residue DEF RestType, Kernel!MainStates

LEMMA TakeRest ==
  ASSUME Inv, KeyInv, RestType, NEW line \in {Timer, Keyboard, Cascade}, Take(line)
  PROVE  RestType'
<1>1. PICK vector : isr_handler(vector)
  BY DEF Take
<1>2. UNCHANGED <<base, temp, time, quick>> /\ (pc' = pc \/ pc' = "test")
  BY DEF Take
<1>3. global_timer' \in 0..(Modulus - 1)
  <2>1. global_timer \in 0..(Modulus - 1) /\ global_timer + 1 \in Int
    BY InterruptsAssumption DEF RestType
  <2>2. global_timer' = global_timer \/ global_timer' = (global_timer + 1) % Modulus
    BY <1>1 DEF isr_handler, irq_0
  <2>3. (global_timer + 1) % Modulus \in 0..(Modulus - 1)
    BY <2>1, Residue
  <2> QED BY <2>1, <2>2, <2>3
<1>4. sensed' \in BOOLEAN
  BY <1>1 DEF isr_handler, irq_1, RestType
<1>5. Len(codes') <= MaxCodes
  <2>1. CASE codes' = codes
    BY <2>1 DEF RestType
  <2>2. CASE codes' = Tail(codes) /\ codes # <<>>
    <3>1. Len(codes) \in Nat /\ Len(codes') = Len(codes) - 1
      BY <2>2, TailShrinks, LenProperties DEF KeyInv
    <3> QED BY <3>1, InterruptsAssumption DEF RestType
  <2>3. CASE codes' = Tail(codes) /\ codes = <<>>
    <3>1. Tail(<<>>) = <<>> /\ Len(<<>>) = 0
      OBVIOUS
    <3> QED BY <2>3, <3>1, InterruptsAssumption
  <2> QED BY <1>1, <2>1, <2>2, <2>3 DEF isr_handler, irq_1
<1> QED BY <1>2, <1>3, <1>4, <1>5 DEF RestType, Kernel!MainStates

LEMMA NextRest == Inv /\ KeyInv /\ RestType /\ [Next]_vars => RestType'
<1> SUFFICES ASSUME Inv, KeyInv, RestType, [Next]_vars PROVE RestType'
  OBVIOUS
<1>1. CASE Sti \/ paging_init
  BY <1>1 DEF Sti, paging_init, chips, keys, sleepVars, RestType
<1>2. CASE pic_config
  <2>1. UNCHANGED <<codes, pc, temp, time, global_timer, quick>>
    BY <1>2 DEF pic_config, keys, sleepVars
  <2>2. base' \in [pic1 : {0, 8, 32}, pic2 : {0, 112, 40}]
    <3>1. \/ \E pic \in {"pic1", "pic2"} : Reset(pic)
          \/ Remap("pic1", 32) \/ Remap("pic2", 40) \/ UNCHANGED chips
      BY <1>2 DEF pic_config
    <3> QED BY <3>1 DEF Reset, Remap, chips, RestType
  <2>3. sensed' \in BOOLEAN
    BY <1>2 DEF pic_config, Reset, Remap, chips, RestType
  <2> QED BY <2>1, <2>2, <2>3 DEF RestType
<1>3. CASE Main
  <2>1. UNCHANGED <<base, codes, sensed, global_timer, quick>> /\ pc' \in Kernel!MainStates
    BY <1>3 DEF Main, Call, Test, Halt, chips, keys, Kernel!MainStates
  <2>2. (\E t \in Durations : Call(t)) \/ UNCHANGED <<temp, time>>
    BY <1>3 DEF Main, Test, Halt
  <2>3. ASSUME NEW t \in Durations, Call(t)
        PROVE  temp' \in 0..(Modulus - 1) /\ time' \in Durations \cup {0}
    <3>1. global_timer + t \in Int
      BY InterruptsAssumption DEF RestType
    <3>2. temp' = (global_timer + t) % Modulus /\ time' = t
      BY <2>3 DEF Call
    <3> HIDE DEF Call
    <3> QED BY <3>1, <3>2, Residue
  <2> QED BY <2>1, <2>2, <2>3 DEF RestType
<1>4. ASSUME NEW line \in {Timer, Keyboard, Cascade}, Take(line) PROVE RestType'
  BY <1>4, TakeRest
<1>5. CASE Return \/ Tick \/ DiskDone
  BY <1>5 DEF Return, Tick, DiskDone, keys, sleepVars, RestType
<1>6. CASE OtherKey \/ OtherModifier \/ LeftShift \/ PrintScreen
  <2>1. PICK new \in Seq(Codes) : Send(new)
    BY <1>6, KeysSend
  <2>2. Len(codes') <= MaxCodes
    <3>1. Len(codes \o new) = Len(codes) + Len(new)
      BY ConcatProperties DEF KeyInv
    <3> QED BY <2>1, <3>1 DEF Send
  <2>3. sensed' = TRUE /\ UNCHANGED <<base, sleepVars>>
    BY <2>1 DEF Send
  <2> QED BY <2>2, <2>3 DEF RestType, sleepVars
<1>7. CASE UNCHANGED vars
  BY <1>7 DEF vars, chips, keys, sleepVars, RestType
<1> QED BY <1>1, <1>2, <1>3, <1>4, <1>5, <1>6, <1>7 DEF Next, Boot

(* Every variable keeps its type: among others, only seven vectors' handlers
   ever run, whatever is requested while the boot moves the controllers' (pic.c
   and boot.asm:66), and what the kernel sees has Sleep's types. *)
THEOREM TypeCorrect ==
  ASSUME Leftover = {TRUE}
  PROVE  Spec => []TypeOK
<1>1. Inv /\ KeyInv /\ KernelInv /\ ShiftInv /\ RestType => TypeOK
  <2> SUFFICES ASSUME Inv, KeyInv, KernelInv, ShiftInv, RestType PROVE TypeOK
    OBVIOUS
  <2>1. Request \subseteq Kernel!Lines
    BY DEF Request, Kernel!Lines
  <2>2. Kernel!TypeOK
    BY <2>1 DEF Kernel!TypeOK, RestType, KernelInv
  <2>3. {sensed, held, others, printing, mixed, shift} \subseteq BOOLEAN
    <3>1. /\ sensed \in BOOLEAN /\ held \in BOOLEAN /\ others \in BOOLEAN
          /\ printing \in BOOLEAN /\ mixed \in BOOLEAN /\ shift \in BOOLEAN
      BY DEF RestType, ShiftInv
    <3> QED BY <3>1
  <2>4. running \in {NoVector, 0, 1, 8, 9} \cup IrqVectors
    BY DEF Inv, ChipsType, IrqVectors
  <2> QED BY <2>2, <2>3, <2>4 DEF TypeOK, Inv, ChipsType, KeyInv, RestType
<1>2. Inv /\ [Next]_vars => Inv'
  BY NextInv
<1> QED
  BY InitInv, InitKey, NextKey, InitKernel, NextKernel, InitShift, NextShift, InitRest,
     NextRest, <1>1, <1>2, PTL DEF Spec
=============================================================================
