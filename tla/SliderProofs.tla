----------------------------- MODULE SliderProofs -----------------------------
(***************************************************************************)
(* Theorems about Slider, for any number of game threads, all of which may *)
(* start and stop the scan, any number of polling threads and any length   *)
(* of the buffers; and about Frames, the line that the slider's bytes come *)
(* on and those of the other boards, for any payloads, noise and cuts.     *)
(***************************************************************************)
EXTENDS Slider, Frames, SequenceTheorems, FiniteSetTheorems, TLAPS

Halves == [kind : {"scan", "RESET", "STOP"}, part : Parts]

(* slider_lock: who decodes a command or stores a frame has it. *)
LockHeld ==
    /\ \A g \in Games : gpc[g] \in {"loop", "head", "tail"} => lock = g
    /\ \A p \in Pollers : ppc[p] \in {"head", "tail"} => lock = p

(* Who is between the halves of a frame finds its first half last. *)
HalfStored ==
    /\ \A g \in Games :
          gpc[g] = "tail" =>
             readable # <<>> /\ readable[Len(readable)] = Half(reply[g], "head")
    /\ \A p \in Pollers :
          ppc[p] = "tail" =>
             readable # <<>> /\ readable[Len(readable)] = Half("scan", "head")

StreamInv == TypeOK /\ LockHeld /\ HalfStored /\ FramesContiguous /\ NothingLeftBehind

(* A patient game has written no START that a STOP is before. *)
NoStartYet ==
    /\ Unanswered => \A i \in 1 .. Len(written) : written[i] # "START"
    /\ \A i, j \in 1 .. Len(written) :
          i < j /\ written[i] = "STOP" => written[j] # "START"

(* The DLL knows the only polling thread there is. *)
OnePoller == \A p \in Pollers : ppc[p] # "none" => handle = p

(* Who waits, waits for that thread; who is past the wait left none. *)
Joined ==
    \A g \in Games :
       /\ gpc[g] = "wait" => joining[g] = handle \/ handle = 0
       /\ gpc[g] = "close" => \A p \in Pollers : ppc[p] = "none"
       /\ gpc[g] = "clear" \/ Answering(g) => handle = 0

(* A thread ends, and the flag that tells it to is up, while a stop goes on. *)
FlagInv ==
    /\ stopFlag => \E g \in Games : gpc[g] \in {"join", "wait", "close", "clear"}
    /\ handle # 0 /\ ppc[handle] = "none" => Stopping
    /\ scanning => ~Stopping /\ handle # 0

ScanInv == NoStartYet /\ OnePoller /\ Joined /\ FlagInv

-----------------------------------------------------------------------------
(* What is written and stored is of its type. *)
LEMMA WriteTyped ==
    ASSUME NEW g \in Games, NEW n \in 1 .. 2, NEW cs \in TupleOf(CommandsOf(g), n),
           written \in Seq(Commands)
    PROVE  written \o cs \in Seq(Commands)
<1>1. CommandsOf(g) \subseteq Commands
  BY DEF CommandsOf, Commands
<1>2. cs \in [1 .. n -> Commands]
  BY <1>1 DEF TupleOf
<1>3. cs \in Seq(Commands)
  BY <1>2
<1> QED
  BY <1>3, ConcatProperties

LEMMA StoreTyped ==
    ASSUME TypeOK, NEW kind \in {"scan", "RESET", "STOP"}, NEW part \in Parts, Store(kind, part)
    PROVE  readable' \in Seq(Halves) /\ Len(readable') <= Capacity
<1> USE DEF TypeOK, Halves
<1>1. Half(kind, part) \in Halves
  BY DEF Half
<1>2. CASE Room
  <2>1. readable' = Append(readable, Half(kind, part))
    BY <1>2 DEF Store
  <2>2. readable' \in Seq(Halves) /\ Len(readable') = Len(readable) + 1
    BY <1>1, <2>1, AppendProperties
  <2> QED
    BY <1>2, <2>2, BoundsAssumption DEF Room
<1>3. CASE ~Room
  BY <1>3 DEF Store
<1> QED
  BY <1>2, <1>3

LEMMA DecodedTyped ==
    ASSUME TypeOK, NEW g \in Games, NEW c, Decoded(g, c)
    PROVE  written' \in Seq(Commands) /\ Len(written') <= MaxWritten
<1>1. written \in Seq(Commands) /\ written # <<>> /\ written' = Tail(written)
  BY DEF TypeOK, Decoded
<1>2. Tail(written) \in Seq(Commands) /\ Len(Tail(written)) = Len(written) - 1
  BY <1>1, HeadTailProperties
<1> QED
  BY <1>1, <1>2, BoundsAssumption DEF TypeOK

LEMMA InitTyped == Init => TypeOK
<1> SUFFICES ASSUME Init PROVE TypeOK
  OBVIOUS
<1>1. /\ lock = Nobody /\ written = <<>> /\ readable = <<>>
      /\ gpc = [g \in Games |-> "idle"]
      /\ reply = [g \in Games |-> "RESET"]
      /\ joining = [g \in Games |-> 0]
      /\ ppc = [p \in Pollers |-> "none"]
      /\ handle = 0 /\ stopFlag = FALSE /\ scanning = FALSE /\ tripped = FALSE
  BY DEF Init
<1>2. written \in Seq(Commands) /\ Len(written) = 0
  BY <1>1
<1>3. readable \in Seq([kind : {"scan", "RESET", "STOP"}, part : Parts]) /\ Len(readable) = 0
  BY <1>1
<1>4. lock \in Threads \cup {Nobody} /\ ppc \in [Pollers -> PollPc]
  BY <1>1 DEF PollPc
<1>5. gpc \in [Games -> GamePc] /\ reply \in [Games -> {"RESET", "STOP"}]
  BY <1>1 DEF GamePc
<1>6. joining \in [Games -> 0 .. MaxPollers] /\ handle \in 0 .. MaxPollers
  BY <1>1, BoundsAssumption
<1>7. stopFlag \in BOOLEAN /\ scanning \in BOOLEAN /\ tripped \in BOOLEAN
  BY <1>1
<1> QED
  BY <1>2, <1>3, <1>4, <1>5, <1>6, <1>7, BoundsAssumption DEF TypeOK

(* The game's threads keep the types. *)
LEMMA IrpTyped ==
    ASSUME TypeOK, NEW g \in Games, Write(g) \/ Read(g) \/ Relock(g)
    PROVE  TypeOK'
<1> USE DEF TypeOK, GamePc, dllVars, gameVars
<1>1. CASE Write(g)
  <2>1. PICK n \in 1 .. 2 : \E cs \in TupleOf(CommandsOf(g), n) :
           Len(written \o cs) <= MaxWritten /\ written' = written \o cs
    BY <1>1 DEF Write
  <2>2. written' \in Seq(Commands) /\ Len(written') <= MaxWritten
    BY <2>1, WriteTyped
  <2> QED
    BY <1>1, <2>2 DEF Write, Threads
<1>2. CASE Read(g)
  <2>1. PICK n \in 1 .. Len(readable) : readable' = SubSeq(readable, n + 1, Len(readable))
    BY <1>2 DEF Read
  <2>2. readable \in Seq(Halves)
    BY DEF Halves
  <2>3. readable' \in Seq(Halves) /\ Len(readable') <= Len(readable)
    BY <2>1, <2>2, SubSeqProperties, LenProperties
  <2> QED
    BY <1>2, <2>3, BoundsAssumption DEF Read, Halves
<1>3. CASE Relock(g)
  BY <1>3 DEF Relock, Goto, Threads
<1> QED
  BY <1>1, <1>2, <1>3

LEMMA DecodeTyped ==
    ASSUME TypeOK, NEW g \in Games,
           \/ ReturnDone(g) \/ ReturnError(g) \/ ReqSetLed(g) \/ ReqReset(g)
           \/ ReqAutoScanStart(g) \/ ReqAutoScanStop(g)
    PROVE  TypeOK'
<1> USE DEF GamePc, dllVars, gameVars, InStop
<1>1. CASE ReturnDone(g)
  BY <1>1 DEF ReturnDone, Return, TypeOK
<1>2. CASE ReturnError(g)
  <2>1. written' \in Seq(Commands) /\ Len(written') <= MaxWritten
    BY <1>2, DecodedTyped DEF ReturnError
  <2> QED
    BY <1>2, <2>1 DEF ReturnError, Return, TypeOK
<1>3. CASE ReqSetLed(g)
  <2>1. written' \in Seq(Commands) /\ Len(written') <= MaxWritten
    BY <1>3, DecodedTyped DEF ReqSetLed
  <2> QED
    BY <1>3, <2>1 DEF ReqSetLed, TypeOK
<1>4. CASE ReqReset(g)
  <2>1. written' \in Seq(Commands) /\ Len(written') <= MaxWritten
    BY <1>4, DecodedTyped DEF ReqReset
  <2> QED
    BY <1>4, <2>1 DEF ReqReset, TypeOK
<1>5. CASE ReqAutoScanStart(g)
  <2>1. written' \in Seq(Commands) /\ Len(written') <= MaxWritten
    BY <1>5, DecodedTyped DEF ReqAutoScanStart
  <2>2. ppc' \in [Pollers -> PollPc] /\ handle' \in 0 .. MaxPollers
    BY <1>5, BoundsAssumption DEF ReqAutoScanStart, TypeOK, PollPc, Pollers
  <2>3. scanning' \in BOOLEAN
    BY <1>5 DEF ReqAutoScanStart, TypeOK
  <2> QED
    BY <1>5, <2>1, <2>2, <2>3 DEF ReqAutoScanStart, TypeOK
<1>6. CASE ReqAutoScanStop(g)
  <2>1. written' \in Seq(Commands) /\ Len(written') <= MaxWritten
    BY <1>6, DecodedTyped DEF ReqAutoScanStop
  <2> QED
    BY <1>6, <2>1 DEF ReqAutoScanStop, TypeOK
<1> QED
  BY <1>1, <1>2, <1>3, <1>4, <1>5, <1>6

LEMMA StopTyped ==
    ASSUME TypeOK, NEW g \in Games,
           \/ StopCheck(g) \/ StopFlag(g) \/ StopJoin(g) \/ StopWait(g)
           \/ StopClose(g) \/ StopClear(g)
    PROVE  TypeOK'
<1> USE BoundsAssumption DEF TypeOK, GamePc, InStop, Goto, hookVars, dllVars
<1>1. CASE StopCheck(g)
  BY <1>1 DEF StopCheck
<1>2. CASE StopFlag(g)
  BY <1>2 DEF StopFlag
<1>3. CASE StopJoin(g)
  BY <1>3 DEF StopJoin
<1>4. CASE StopWait(g)
  BY <1>4 DEF StopWait
<1>5. CASE StopClose(g)
  BY <1>5 DEF StopClose
<1>6. CASE StopClear(g)
  BY <1>6 DEF StopClear
<1> QED
  BY <1>1, <1>2, <1>3, <1>4, <1>5, <1>6

LEMMA ReplyTyped ==
    ASSUME TypeOK, NEW g \in Games, ReplyHead(g) \/ ReplyTail(g)
    PROVE  TypeOK'
<1> USE DEF GamePc, Goto, dllVars, Parts
<1>1. reply[g] \in {"scan", "RESET", "STOP"}
  BY DEF TypeOK
<1>2. readable' \in Seq(Halves) /\ Len(readable') <= Capacity
  BY <1>1, StoreTyped DEF ReplyHead, ReplyTail
<1>3. gpc' \in [Games -> GamePc] /\ reply' \in [Games -> {"RESET", "STOP"}]
  BY DEF ReplyHead, ReplyTail, TypeOK
<1> QED
  BY <1>2, <1>3 DEF ReplyHead, ReplyTail, TypeOK, Halves

LEMMA PollTyped ==
    ASSUME TypeOK, NEW p \in Pollers, PollStep(p) \/ CallbackLock(p)
    PROVE  TypeOK'
<1> USE DEF PollPc, PollGoto, hookVars, gameVars
<1>1. CASE PollTop(p)
  BY <1>1 DEF PollTop, TypeOK
<1>2. CASE CallbackLock(p)
  BY <1>2 DEF CallbackLock, TypeOK, Threads
<1>3. CASE CallbackHead(p)
  <2>1. readable' \in Seq(Halves) /\ Len(readable') <= Capacity
    BY <1>3, StoreTyped DEF CallbackHead, Parts
  <2> QED
    BY <1>3, <2>1 DEF CallbackHead, TypeOK, Halves
<1>4. CASE CallbackTail(p)
  <2>1. readable' \in Seq(Halves) /\ Len(readable') <= Capacity
    BY <1>4, StoreTyped DEF CallbackTail, Parts
  <2> QED
    BY <1>4, <2>1 DEF CallbackTail, TypeOK, Halves
<1> QED
  BY <1>1, <1>2, <1>3, <1>4 DEF PollStep

LEMMA NextTyped == TypeOK /\ [Next]_vars => TypeOK'
<1> SUFFICES ASSUME TypeOK, [Next]_vars PROVE TypeOK'
  OBVIOUS
<1>1. CASE UNCHANGED vars
  BY <1>1 DEF vars, hookVars, gameVars, dllVars, TypeOK
<1>2. CASE Next
  BY <1>2, IrpTyped, DecodeTyped, StopTyped, ReplyTyped, PollTyped DEF Next, HandleStep
<1> QED
  BY <1>1, <1>2

-----------------------------------------------------------------------------
(* The lock, the halves and what is left behind *)

LEMMA InitStream == Init => StreamInv
<1> SUFFICES ASSUME Init PROVE StreamInv
  OBVIOUS
<1>1. TypeOK
  BY InitTyped
<1>2. LockHeld /\ HalfStored /\ NothingLeftBehind
  BY DEF Init, LockHeld, HalfStored, NothingLeftBehind
<1>3. FramesContiguous
  BY DEF Init, FramesContiguous
<1> QED
  BY <1>1, <1>2, <1>3 DEF StreamInv

(* Two threads do not have the lock both. *)
LEMMA Named ==
  /\ \A g \in Games : g # Nobody /\ g \notin Pollers
  /\ \A p \in Pollers : p # Nobody /\ p \in 0 .. MaxPollers
<1>1. Nobody \in 0 .. MaxPollers /\ Pollers \subseteq 0 .. MaxPollers
  BY BoundsAssumption DEF Nobody, Pollers
<1>2. \A p \in Pollers : p # Nobody
  BY BoundsAssumption DEF Nobody, Pollers
<1> QED
  BY <1>1, <1>2, NamesAssumption

(* A half that is stored goes behind what is there. *)
LEMMA Stored ==
    ASSUME TypeOK, NEW kind \in {"scan", "RESET", "STOP"}, NEW part \in Parts,
           Store(kind, part), FramesContiguous,
           part = "tail" => readable # <<>> /\ readable[Len(readable)] = Half(kind, "head")
    PROVE  /\ FramesContiguous'
           /\ Room => readable' # <<>> /\ readable'[Len(readable')] = Half(kind, part)
<1>1. CASE Room
  <2> DEFINE n == Len(readable)
  <2>1. readable' = Append(readable, Half(kind, part)) /\ readable \in Seq(Halves) /\ n \in Nat
    BY <1>1 DEF Store, TypeOK, Halves
  <2>2. /\ Len(readable') = n + 1
        /\ \A i \in 1 .. n : readable'[i] = readable[i]
        /\ readable'[n + 1] = Half(kind, part)
    BY <2>1
  <2>3. readable' # <<>>
    BY <2>1, <2>2
  <2>4. ASSUME NEW i \in 2 .. Len(readable'), readable'[i].part = "tail"
        PROVE  readable'[i - 1] = [readable'[i] EXCEPT !.part = "head"]
    <3>1. CASE i \in 2 .. n
      <4>1. i - 1 \in 1 .. n /\ readable'[i] = readable[i] /\ readable'[i - 1] = readable[i - 1]
        BY <2>1, <2>2, <3>1
      <4> QED
        BY <2>4, <3>1, <4>1 DEF FramesContiguous
    <3>2. CASE i = n + 1
      <4>1. part = "tail"
        BY <2>2, <2>4, <3>2 DEF Half
      <4>2. n \in 1 .. n /\ i - 1 = n
        BY <2>1, <3>2, <2>4
      <4>3. readable'[i - 1] = Half(kind, "head") /\ readable'[i] = Half(kind, "tail")
        BY <2>2, <3>2, <4>1, <4>2
      <4> QED
        BY <4>3 DEF Half
    <3> QED
      BY <2>1, <2>2, <3>1, <3>2
  <2> QED
    BY <2>2, <2>3, <2>4 DEF FramesContiguous
<1>2. CASE ~Room
  BY <1>2 DEF Store, FramesContiguous
<1> QED
  BY <1>1, <1>2

(* A step that leaves uart.readable to who has the lock. *)
LEMMA GameKeeps ==
    ASSUME StreamInv, NEW g \in Games,
           \/ Write(g) \/ Relock(g)
           \/ ReturnDone(g) \/ ReturnError(g) \/ ReqSetLed(g) \/ ReqReset(g)
           \/ ReqAutoScanStart(g) \/ ReqAutoScanStop(g)
           \/ StopCheck(g) \/ StopFlag(g) \/ StopJoin(g) \/ StopWait(g)
           \/ StopClose(g) \/ StopClear(g)
    PROVE  LockHeld' /\ HalfStored' /\ FramesContiguous' /\ NothingLeftBehind'
<1> USE DEF hookVars, gameVars, dllVars, Goto, InStop
<1>1. /\ UNCHANGED readable
      /\ \A h \in Games : h # g => gpc'[h] = gpc[h] /\ reply'[h] = reply[h]
      /\ \A p \in Pollers : ppc'[p] \in {"head", "tail"} => ppc'[p] = ppc[p]
      /\ gpc'[g] # "tail"
  BY DEF StreamInv, TypeOK, Write, Relock, ReturnDone, ReturnError, Return, ReqSetLed,
         ReqReset, ReqAutoScanStart, ReqAutoScanStop, StopCheck, StopFlag, StopJoin, StopWait,
         StopClose, StopClear, Decoded
<1>2. /\ lock' # lock => lock = Nobody \/ lock = g
      /\ gpc'[g] \in {"loop", "head"} => lock' = g
  BY DEF StreamInv, TypeOK, LockHeld, Write, Relock, ReturnDone, ReturnError, Return,
         ReqSetLed, ReqReset, ReqAutoScanStart, ReqAutoScanStop, StopCheck, StopFlag, StopJoin,
         StopWait, StopClose, StopClear, Decoded
<1>3. LockHeld'
  BY <1>1, <1>2, Named DEF StreamInv, LockHeld
<1>4. HalfStored'
  BY <1>1 DEF StreamInv, HalfStored
<1>5. FramesContiguous'
  BY <1>1 DEF StreamInv, FramesContiguous
<1>6. gpc'[g] = "idle" => written' = <<>> \/ tripped'
  BY DEF StreamInv, TypeOK, Write, Relock, ReturnDone, ReturnError, Return, ReqSetLed,
         ReqReset, ReqAutoScanStart, ReqAutoScanStop, StopCheck, StopFlag, StopJoin, StopWait,
         StopClose, StopClear, Decoded
<1>7. NothingLeftBehind'
  BY <1>6 DEF NothingLeftBehind
<1> QED
  BY <1>3, <1>4, <1>5, <1>7

LEMMA ReadKeeps ==
    ASSUME StreamInv, NEW g \in Games, Read(g)
    PROVE  LockHeld' /\ HalfStored' /\ FramesContiguous' /\ NothingLeftBehind'
<1> DEFINE len == Len(readable)
<1>1. PICK n \in 1 .. len : readable' = SubSeq(readable, n + 1, len)
  BY DEF Read
<1>2. readable \in Seq(Halves) /\ len \in Nat /\ n \in Nat /\ n <= len
  BY <1>1 DEF StreamInv, TypeOK, Halves
<1>3. /\ Len(readable') = len - n
      /\ \A i \in 1 .. len - n : readable'[i] = readable[n + i]
  BY <1>1, <1>2
<1>4. FramesContiguous'
  <2> SUFFICES ASSUME NEW i \in 2 .. len - n, readable'[i].part = "tail"
               PROVE  readable'[i - 1] = [readable'[i] EXCEPT !.part = "head"]
    BY <1>3 DEF FramesContiguous
  <2>0. i \in Int /\ i - 1 \in 1 .. len - n /\ i \in 1 .. len - n /\ n + i \in 2 .. len
    BY <1>2
  <2>1. readable'[i] = readable[n + i] /\ readable'[i - 1] = readable[n + (i - 1)]
    BY <1>3, <2>0
  <2>2. n + (i - 1) = n + i - 1
    BY <1>2, <2>0
  <2>3. readable[n + i].part = "tail" => readable[n + i - 1] = [readable[n + i] EXCEPT !.part = "head"]
    BY <2>0 DEF StreamInv, FramesContiguous
  <2> QED
    BY <2>1, <2>2, <2>3
<1>5. UNCHANGED <<lock, gpc, ppc, written, tripped>> /\ lock = Nobody
  BY DEF Read, gameVars, dllVars
<1>6. HalfStored'
  BY <1>5, Named DEF StreamInv, LockHeld, HalfStored
<1> QED
  BY <1>4, <1>5, <1>6 DEF StreamInv, LockHeld, NothingLeftBehind

LEMMA ReplyKeeps ==
    ASSUME StreamInv, NEW g \in Games, ReplyHead(g) \/ ReplyTail(g)
    PROVE  LockHeld' /\ HalfStored' /\ FramesContiguous' /\ NothingLeftBehind'
<1> USE DEF Goto, dllVars
<1>1. reply[g] \in {"scan", "RESET", "STOP"} /\ TypeOK /\ FramesContiguous
  BY DEF StreamInv, TypeOK
<1>2. gpc[g] \in {"head", "tail"} /\ lock = g /\ lock' = lock /\ UNCHANGED ppc
  BY DEF StreamInv, LockHeld, ReplyHead, ReplyTail
<1>3. /\ \A h \in Games : h # g => gpc[h] \notin {"loop", "head", "tail"}
      /\ \A p \in Pollers : ppc[p] \notin {"head", "tail"}
      /\ \A h \in Games : h # g => gpc'[h] = gpc[h]
  BY <1>2, Named DEF StreamInv, TypeOK, LockHeld, ReplyHead, ReplyTail
<1>4. CASE ReplyHead(g)
  <2>1. /\ FramesContiguous'
        /\ Room => readable' # <<>> /\ readable'[Len(readable')] = Half(reply[g], "head")
    BY <1>1, <1>4, Stored DEF ReplyHead, Parts
  <2>2. /\ gpc'[g] \in {"tail", "loop"}
        /\ gpc'[g] = "tail" => Room /\ reply'[g] = reply[g]
    BY <1>1, <1>4 DEF ReplyHead, TypeOK
  <2> QED
    BY <1>2, <1>3, <2>1, <2>2 DEF LockHeld, HalfStored, NothingLeftBehind
<1>5. CASE ReplyTail(g)
  <2>1. readable # <<>> /\ readable[Len(readable)] = Half(reply[g], "head")
    BY <1>5 DEF ReplyTail, StreamInv, HalfStored
  <2>2. FramesContiguous'
    BY <1>1, <1>5, <2>1, Stored DEF ReplyTail, Parts
  <2>3. gpc'[g] = "loop"
    BY <1>1, <1>5 DEF ReplyTail, TypeOK
  <2> QED
    BY <1>2, <1>3, <2>2, <2>3 DEF LockHeld, HalfStored, NothingLeftBehind
<1> QED
  BY <1>4, <1>5

LEMMA PollKeeps ==
    ASSUME StreamInv, NEW p \in Pollers, PollStep(p) \/ CallbackLock(p)
    PROVE  LockHeld' /\ HalfStored' /\ FramesContiguous' /\ NothingLeftBehind'
<1> USE DEF PollGoto, hookVars, gameVars
<1>1. UNCHANGED <<gpc, reply, written, tripped>> /\ \A q \in Pollers : q # p => ppc'[q] = ppc[q]
  BY DEF PollStep, PollTop, CallbackLock, CallbackHead, CallbackTail, StreamInv, TypeOK
<1>2. NothingLeftBehind'
  BY <1>1 DEF StreamInv, NothingLeftBehind
<1>3. CASE PollTop(p)
  <2>1. ppc'[p] \notin {"head", "tail"} /\ UNCHANGED <<lock, readable>>
    BY <1>3 DEF PollTop, StreamInv, TypeOK
  <2> QED
    BY <1>1, <1>2, <2>1 DEF StreamInv, LockHeld, HalfStored, FramesContiguous
<1>4. CASE CallbackLock(p)
  <2>1. lock = Nobody /\ lock' = p /\ ppc'[p] = "head" /\ UNCHANGED readable
    BY <1>4 DEF CallbackLock, StreamInv, TypeOK
  <2> QED
    BY <1>1, <1>2, <2>1, Named DEF StreamInv, LockHeld, HalfStored, FramesContiguous
<1>5. CASE CallbackHead(p) \/ CallbackTail(p)
  <2>1. lock = p
    BY <1>5 DEF CallbackHead, CallbackTail, StreamInv, LockHeld
  <2>2. /\ \A h \in Games : gpc[h] \notin {"loop", "head", "tail"}
        /\ \A q \in Pollers : q # p => ppc[q] \notin {"head", "tail"}
    BY <2>1, Named DEF StreamInv, LockHeld
  <2>3. CASE CallbackHead(p)
    <3>1. /\ FramesContiguous'
          /\ Room => readable' # <<>> /\ readable'[Len(readable')] = Half("scan", "head")
      BY <2>3, Stored DEF CallbackHead, Parts, StreamInv
    <3>2. /\ ppc'[p] \in {"tail", "top"}
          /\ ppc'[p] = "tail" => Room /\ lock' = p
      BY <2>1, <2>3 DEF CallbackHead, StreamInv, TypeOK
    <3> QED
      BY <1>1, <1>2, <2>2, <3>1, <3>2 DEF LockHeld, HalfStored
  <2>4. CASE CallbackTail(p)
    <3>1. readable # <<>> /\ readable[Len(readable)] = Half("scan", "head")
      BY <2>4 DEF CallbackTail, StreamInv, HalfStored
    <3>2. FramesContiguous'
      BY <2>4, <3>1, Stored DEF CallbackTail, Parts, StreamInv
    <3>3. ppc'[p] = "top"
      BY <2>4 DEF CallbackTail, StreamInv, TypeOK
    <3> QED
      BY <1>1, <1>2, <2>2, <3>2, <3>3 DEF LockHeld, HalfStored
  <2> QED
    BY <1>5, <2>3, <2>4
<1> QED
  BY <1>3, <1>4, <1>5 DEF PollStep

LEMMA NextStream == StreamInv /\ [Next]_vars => StreamInv'
<1> SUFFICES ASSUME StreamInv, [Next]_vars PROVE StreamInv'
  OBVIOUS
<1>1. TypeOK'
  BY NextTyped DEF StreamInv
<1>2. CASE UNCHANGED vars
  BY <1>1, <1>2 DEF vars, hookVars, gameVars, dllVars, StreamInv, LockHeld, HalfStored,
                    FramesContiguous, NothingLeftBehind
<1>3. CASE Next
  <2>1. LockHeld' /\ HalfStored' /\ FramesContiguous' /\ NothingLeftBehind'
    BY <1>3, GameKeeps, ReadKeeps, ReplyKeeps, PollKeeps DEF Next, HandleStep
  <2> QED
    BY <1>1, <2>1 DEF StreamInv
<1> QED
  BY <1>2, <1>3

(* The inductive invariant of the stream: uart.readable is the lock owner's,
   and between the halves of a frame that owner's half is the last one.    *)
THEOREM StreamInvariance == Spec => []StreamInv
<1>1. Init => StreamInv
  BY InitStream
<1> QED
  BY <1>1, NextStream, PTL DEF Spec

(* The buffers keep to their bounds, frames of different threads do not mix,
   and no command is left behind but for a frame that does not decode
   (slider_frame_encode and slider_handle_irp_locked, under slider_lock).  *)
THEOREM StreamStaysWhole == Spec => []StreamWhole
<1>1. StreamInv => StreamWhole
  BY DEF StreamInv, StreamWhole
<1> QED
  BY <1>1, StreamInvariance, PTL

-----------------------------------------------------------------------------
(* The scan of a patient game *)

LEMMA InitScan == Init => ScanInv
<1> SUFFICES ASSUME Init PROVE ScanInv
  OBVIOUS
<1>1. /\ \A g \in Games : gpc[g] = "idle"
      /\ \A p \in Pollers : ppc[p] = "none"
      /\ written = <<>> /\ handle = 0 /\ ~stopFlag /\ ~scanning
  BY DEF Init
<1>2. ~Stopping /\ \A g \in Games : ~Answering(g)
  BY <1>1 DEF Stopping, Answering, InStop
<1>3. NoStartYet
  BY <1>1 DEF NoStartYet
<1> QED
  BY <1>1, <1>2, <1>3 DEF ScanInv, OnePoller, Joined, FlagInv

(* What is decoded leaves the others as they were. *)
LEMMA DecodedKeeps ==
    ASSUME TypeOK, NoStartYet, NEW g \in Games, NEW c, Decoded(g, c)
    PROVE  /\ Len(written) >= 1 /\ written[1] = c
           /\ \A i \in 1 .. Len(written') :
                 i + 1 \in 1 .. Len(written) /\ written'[i] = written[i + 1]
<1>1. written \in Seq(Commands) /\ written # <<>> /\ written' = Tail(written) /\ Head(written) = c
  BY DEF TypeOK, Decoded
<1> QED
  BY <1>1

(* A START is decoded while no stop goes on. *)
LEMMA StartAlone ==
    ASSUME TypeOK, NoStartYet, NEW g \in Games, Decoded(g, "START")
    PROVE  ~Unanswered
BY DecodedKeeps DEF NoStartYet

(* Commands that are taken out, and none put in, keep a START away. *)
LEMMA NoStartKept ==
    ASSUME TypeOK, NoStartYet, Unanswered' => Unanswered,
           UNCHANGED written \/ \E g \in Games, c \in Commands : Decoded(g, c)
    PROVE  NoStartYet'
<1>1. CASE UNCHANGED written
  BY <1>1 DEF NoStartYet
<1>2. ASSUME NEW g \in Games, NEW c \in Commands, Decoded(g, c)
      PROVE  NoStartYet'
  <2>1. \A i \in 1 .. Len(written') :
           i + 1 \in 1 .. Len(written) /\ written'[i] = written[i + 1]
    BY <1>2, DecodedKeeps
  <2>2. ASSUME Unanswered', NEW i \in 1 .. Len(written')
        PROVE  written'[i] # "START"
    BY <2>1, <2>2 DEF NoStartYet
  <2>3. ASSUME NEW i \in 1 .. Len(written'), NEW j \in 1 .. Len(written'),
               i < j, written'[i] = "STOP"
        PROVE  written'[j] # "START"
    <3>1. i + 1 \in 1 .. Len(written) /\ written[i + 1] = "STOP"
      BY <2>1, <2>3
    <3>2. j + 1 \in 1 .. Len(written) /\ written'[j] = written[j + 1]
      BY <2>1
    <3>3. i + 1 < j + 1
      BY <2>3
    <3> QED
      BY <3>1, <3>2, <3>3 DEF NoStartYet
  <2> QED
    BY <2>2, <2>3 DEF NoStartYet
<1> QED
  BY <1>1, <1>2

(* A step that has nothing to do with a stop: no thread begins to be stopped
   or to answer, and the DLL is as it was.                                 *)
LEMMA QuietKeeps ==
    ASSUME ScanInv, NEW g \in Games,
           UNCHANGED <<dllVars, joining, scanning>>,
           \A h \in Games : h # g => gpc'[h] = gpc[h] /\ reply'[h] = reply[h],
           gpc[g] \notin InStop, gpc'[g] \notin InStop,
           Answering(g)' => Answering(g)
    PROVE  OnePoller' /\ Joined' /\ FlagInv' /\ (Unanswered' => Unanswered)
<1>1. \A h \in Games : /\ gpc'[h] \in InStop <=> gpc[h] \in InStop
                       /\ gpc'[h] \in InStop => gpc'[h] = gpc[h]
                       /\ gpc[h] \in InStop => gpc'[h] = gpc[h]
                       /\ Answering(h)' => Answering(h)
  BY DEF Answering
<1>2. (Stopping' <=> Stopping) /\ (Unanswered' => Unanswered)
  BY <1>1 DEF Stopping, Unanswered
<1>3. UNCHANGED <<ppc, handle, stopFlag, joining, scanning>>
  BY DEF dllVars
<1>4. OnePoller'
  BY <1>3 DEF ScanInv, OnePoller
<1>5. Joined'
  BY <1>1, <1>3 DEF ScanInv, Joined, InStop
<1>6. FlagInv'
  BY <1>1, <1>2, <1>3 DEF ScanInv, FlagInv, InStop
<1> QED
  BY <1>2, <1>4, <1>5, <1>6

LEMMA QuietStep ==
    ASSUME TypeOK, ScanInv, NEW g \in Games,
           \/ Read(g) \/ Relock(g) \/ ReturnDone(g) \/ ReturnError(g) \/ ReqSetLed(g)
           \/ ReqReset(g) \/ ReplyHead(g) \/ ReplyTail(g)
    PROVE  ScanInv'
<1> USE DEF Goto, gameVars
<1>1. /\ UNCHANGED <<dllVars, joining, scanning>>
      /\ \A h \in Games : h # g => gpc'[h] = gpc[h] /\ reply'[h] = reply[h]
      /\ gpc[g] \notin InStop /\ gpc'[g] \notin InStop
      /\ Answering(g)' => Answering(g)
  BY DEF TypeOK, Read, Relock, ReturnDone, ReturnError, Return, ReqSetLed, ReqReset,
         ReplyHead, ReplyTail, Decoded, InStop, Answering
<1>2. OnePoller' /\ Joined' /\ FlagInv' /\ (Unanswered' => Unanswered)
  BY <1>1, QuietKeeps
<1>3. UNCHANGED written \/ \E c \in Commands : Decoded(g, c)
  BY DEF Read, Relock, ReturnDone, ReturnError, ReqSetLed, ReqReset, ReplyHead, ReplyTail,
         Commands
<1>4. NoStartYet'
  BY <1>2, <1>3, NoStartKept DEF ScanInv
<1> QED
  BY <1>2, <1>4 DEF ScanInv

LEMMA WriteStep ==
    ASSUME TypeOK, Patient, ScanInv, NEW g \in Games, Write(g)
    PROVE  ScanInv'
<1>1. /\ UNCHANGED <<dllVars, joining, scanning>>
      /\ \A h \in Games : h # g => gpc'[h] = gpc[h] /\ reply'[h] = reply[h]
      /\ gpc[g] \notin InStop /\ gpc'[g] \notin InStop
      /\ Answering(g)' => Answering(g)
  BY DEF TypeOK, Write, InStop, Answering
<1>2. OnePoller' /\ Joined' /\ FlagInv' /\ (Unanswered' => Unanswered)
  BY <1>1, QuietKeeps
<1>3. PICK n \in 1 .. 2 :
         \E cs \in TupleOf(CommandsOf(g), n) : MaySend(cs) /\ written' = written \o cs
  BY DEF Write
<1>4. \A i \in 1 .. Len(written') :
         written'[i] = "START" => /\ ~Unanswered
                                  /\ \A j \in 1 .. i - 1 : written'[j] # "STOP"
  BY <1>3 DEF MaySend
<1>5. written' \in Seq(Commands)
  BY <1>3, WriteTyped DEF TypeOK
<1>6. NoStartYet'
  BY <1>2, <1>4, <1>5 DEF NoStartYet
<1> QED
  BY <1>2, <1>6 DEF ScanInv

LEMMA StartStep ==
    ASSUME TypeOK, ScanInv, NEW g \in Games, ReqAutoScanStart(g)
    PROVE  ScanInv'
<1> USE DEF gameVars
<1>1. Decoded(g, "START") /\ UNCHANGED <<gpc, reply, joining, stopFlag>>
  BY DEF ReqAutoScanStart
<1>2. ~Unanswered /\ ~Unanswered'
  BY <1>1, StartAlone DEF ScanInv, Unanswered, Stopping, Answering
<1>3. ~Stopping /\ ~Stopping' /\ \A h \in Games : gpc[h] \notin InStop /\ ~Answering(h)'
  BY <1>2 DEF Unanswered, Stopping
<1>4. NoStartYet'
  BY <1>1, <1>2, NoStartKept DEF ScanInv, Commands
<1>5. Joined'
  BY <1>1, <1>3 DEF Joined, InStop
<1>6. ~stopFlag'
  BY <1>1, <1>3 DEF ScanInv, FlagInv, InStop
<1>7. CASE UNCHANGED <<handle, ppc>> /\ (handle # 0 \/ UNCHANGED scanning)
  BY <1>3, <1>4, <1>5, <1>6, <1>7 DEF ScanInv, OnePoller, FlagInv
<1>8. CASE handle = 0 /\ \E p \in Pollers : handle' = p /\ ppc' = [ppc EXCEPT ![p] = "top"]
  <2>1. PICK p \in Pollers : handle' = p /\ ppc' = [ppc EXCEPT ![p] = "top"]
    BY <1>8
  <2>2. \A q \in Pollers : ppc[q] = "none"
    BY <1>8, Named DEF ScanInv, OnePoller, Nobody
  <2>3. handle' # 0 /\ ppc'[handle'] = "top"
    BY <2>1, Named DEF TypeOK, Nobody
  <2>4. OnePoller'
    BY <2>1, <2>2 DEF OnePoller, TypeOK
  <2> QED
    BY <1>3, <1>4, <1>5, <1>6, <2>3, <2>4 DEF ScanInv, FlagInv
<1> QED
  BY <1>7, <1>8 DEF ReqAutoScanStart

LEMMA StopStep ==
    ASSUME TypeOK, ScanInv, NEW g \in Games, ReqAutoScanStop(g)
    PROVE  ScanInv'
<1>1. /\ Decoded(g, "STOP") /\ UNCHANGED <<reply, joining, ppc, handle, stopFlag>>
      /\ gpc' = [gpc EXCEPT ![g] = "check"] /\ ~scanning'
  BY DEF ReqAutoScanStop, dllVars
<1>2. /\ gpc[g] = "loop" /\ gpc'[g] = "check"
      /\ \A h \in Games : h # g => gpc'[h] = gpc[h]
  BY <1>1 DEF Decoded, TypeOK
<1>3. Stopping'
  BY <1>2 DEF Stopping, InStop
<1>4. /\ Len(written) >= 1 /\ written[1] = "STOP"
      /\ \A i \in 1 .. Len(written') :
            i + 1 \in 1 .. Len(written) /\ written'[i] = written[i + 1]
  BY <1>1, DecodedKeeps DEF ScanInv
<1>5. \A i \in 1 .. Len(written') : written'[i] # "START"
  BY <1>4 DEF ScanInv, NoStartYet, TypeOK
<1>6. NoStartYet'
  BY <1>5 DEF NoStartYet
<1>7. OnePoller'
  BY <1>1 DEF ScanInv, OnePoller
<1>8. Joined'
  BY <1>1, <1>2 DEF ScanInv, Joined, Answering
<1>9. FlagInv'
  BY <1>1, <1>2, <1>3 DEF ScanInv, FlagInv
<1> QED
  BY <1>6, <1>7, <1>8, <1>9 DEF ScanInv

(* chuni_io_slider_stop, from the look at the handle on *)
LEMMA StopOnly ==
    ASSUME TypeOK, NoStartYet, NEW g \in Games,
           \/ StopCheck(g) \/ StopFlag(g) \/ StopJoin(g) \/ StopWait(g)
           \/ StopClose(g) \/ StopClear(g)
    PROVE  /\ UNCHANGED <<written, reply, ppc, scanning>>
           /\ gpc[g] \in InStop /\ gpc'[g] \in InStop \cup {"relock"}
           /\ \A h \in Games : h # g => gpc'[h] = gpc[h] /\ joining'[h] = joining[h]
           /\ Unanswered /\ NoStartYet'
<1>1. /\ UNCHANGED <<written, reply, ppc, scanning>>
      /\ gpc[g] \in InStop /\ gpc'[g] \in InStop \cup {"relock"}
      /\ \A h \in Games : h # g => gpc'[h] = gpc[h] /\ joining'[h] = joining[h]
  BY DEF TypeOK, StopCheck, StopFlag, StopJoin, StopWait, StopClose, StopClear, Goto, InStop,
         hookVars, dllVars
<1>2. Unanswered
  BY <1>1 DEF Unanswered, Stopping
<1> QED
  BY <1>1, <1>2, NoStartKept

LEMMA CheckStep ==
    ASSUME TypeOK, ScanInv, NEW g \in Games, StopCheck(g)
    PROVE  ScanInv'
<1>1. /\ UNCHANGED <<reply, joining, ppc, handle, stopFlag, scanning>>
      /\ \A h \in Games : h # g => gpc'[h] = gpc[h]
      /\ Stopping /\ NoStartYet'
  BY StopOnly DEF StopCheck, ScanInv, dllVars, Stopping
<1>2. gpc[g] = "check" /\ gpc'[g] = IF handle = 0 THEN "relock" ELSE "flag"
  BY DEF StopCheck, Goto, TypeOK
<1>3. OnePoller'
  BY <1>1 DEF ScanInv, OnePoller
<1>4. Joined'
  BY <1>1, <1>2 DEF ScanInv, Joined, Answering
<1>5. handle # 0 => Stopping'
  BY <1>2 DEF Stopping, InStop
<1>6. FlagInv'
  BY <1>1, <1>2, <1>5 DEF ScanInv, FlagInv
<1> QED
  BY <1>1, <1>3, <1>4, <1>6 DEF ScanInv

LEMMA FlagStep ==
    ASSUME TypeOK, ScanInv, NEW g \in Games, StopFlag(g)
    PROVE  ScanInv'
<1>1. /\ UNCHANGED <<reply, joining, ppc, handle, scanning>>
      /\ \A h \in Games : h # g => gpc'[h] = gpc[h]
      /\ Stopping /\ NoStartYet'
  BY StopOnly DEF StopFlag, ScanInv, Stopping
<1>2. gpc[g] = "flag" /\ gpc'[g] = "join"
  BY DEF StopFlag, Goto, TypeOK
<1>3. OnePoller' /\ Joined'
  BY <1>1, <1>2 DEF ScanInv, OnePoller, Joined, Answering
<1>4. FlagInv'
  BY <1>1, <1>2 DEF ScanInv, FlagInv, Stopping, InStop
<1> QED
  BY <1>1, <1>3, <1>4 DEF ScanInv

LEMMA JoinStep ==
    ASSUME TypeOK, ScanInv, NEW g \in Games, StopJoin(g)
    PROVE  ScanInv'
<1>1. /\ UNCHANGED <<reply, ppc, handle, stopFlag, scanning>>
      /\ \A h \in Games : h # g => gpc'[h] = gpc[h] /\ joining'[h] = joining[h]
      /\ Stopping /\ NoStartYet'
  BY StopOnly DEF StopJoin, ScanInv, dllVars, Stopping
<1>2. gpc[g] = "join" /\ gpc'[g] = "wait" /\ joining'[g] = handle
  BY DEF StopJoin, Goto, TypeOK
<1>3. OnePoller' /\ Joined'
  BY <1>1, <1>2 DEF ScanInv, OnePoller, Joined, Answering
<1>4. FlagInv'
  BY <1>1, <1>2 DEF ScanInv, FlagInv, Stopping, InStop
<1> QED
  BY <1>1, <1>3, <1>4 DEF ScanInv

(* The thread that is waited for is the only one. *)
LEMMA WaitStep ==
    ASSUME TypeOK, ScanInv, NEW g \in Games, StopWait(g)
    PROVE  ScanInv'
<1>1. /\ UNCHANGED <<reply, ppc, handle, stopFlag, scanning>>
      /\ \A h \in Games : h # g => gpc'[h] = gpc[h] /\ joining'[h] = joining[h]
      /\ Stopping /\ NoStartYet'
  BY StopOnly DEF StopWait, ScanInv, dllVars, Stopping
<1>2. /\ gpc[g] = "wait" /\ gpc'[g] = "close"
      /\ joining[g] # 0 => ppc[joining[g]] = "none"
  BY DEF StopWait, Goto, TypeOK
<1>3. \A p \in Pollers : ppc[p] = "none"
  BY <1>2, Named DEF ScanInv, OnePoller, Joined, Nobody
<1>4. OnePoller' /\ Joined'
  BY <1>1, <1>2, <1>3 DEF ScanInv, OnePoller, Joined, Answering
<1>5. FlagInv'
  BY <1>1, <1>2 DEF ScanInv, FlagInv, Stopping, InStop
<1> QED
  BY <1>1, <1>4, <1>5 DEF ScanInv

LEMMA CloseStep ==
    ASSUME TypeOK, ScanInv, NEW g \in Games, StopClose(g)
    PROVE  ScanInv'
<1>1. /\ UNCHANGED <<reply, joining, ppc, stopFlag, scanning>>
      /\ \A h \in Games : h # g => gpc'[h] = gpc[h]
      /\ Stopping /\ NoStartYet'
  BY StopOnly DEF StopClose, ScanInv, Stopping
<1>2. gpc[g] = "close" /\ gpc'[g] = "clear" /\ handle' = 0
  BY DEF StopClose, Goto, TypeOK
<1>3. \A p \in Pollers : ppc[p] = "none"
  BY <1>2 DEF ScanInv, Joined
<1>4. OnePoller' /\ Joined'
  BY <1>1, <1>2, <1>3 DEF ScanInv, OnePoller, Joined, Answering
<1>5. FlagInv'
  BY <1>1, <1>2 DEF ScanInv, FlagInv, Stopping, InStop
<1> QED
  BY <1>1, <1>4, <1>5 DEF ScanInv

LEMMA ClearStep ==
    ASSUME TypeOK, ScanInv, NEW g \in Games, StopClear(g)
    PROVE  ScanInv'
<1>1. /\ UNCHANGED <<reply, joining, ppc, handle, scanning>>
      /\ \A h \in Games : h # g => gpc'[h] = gpc[h]
      /\ Stopping /\ NoStartYet'
  BY StopOnly DEF StopClear, ScanInv, Stopping
<1>2. gpc[g] = "clear" /\ gpc'[g] = "relock" /\ ~stopFlag'
  BY DEF StopClear, Goto, TypeOK
<1>3. handle = 0
  BY <1>2 DEF ScanInv, Joined
<1>4. OnePoller' /\ Joined'
  BY <1>1, <1>2, <1>3 DEF ScanInv, OnePoller, Joined, Answering
<1>5. FlagInv'
  BY <1>1, <1>2, <1>3 DEF ScanInv, FlagInv
<1> QED
  BY <1>1, <1>4, <1>5 DEF ScanInv

(* A polling thread ends only if it is told to. *)
LEMMA PollerStep ==
    ASSUME TypeOK, ScanInv, NEW p \in Pollers, PollStep(p) \/ CallbackLock(p)
    PROVE  ScanInv'
<1> USE DEF PollGoto, gameVars, hookVars
<1>1. UNCHANGED <<gpc, reply, joining, written, handle, stopFlag, scanning>>
  BY DEF PollStep, PollTop, CallbackLock, CallbackHead, CallbackTail
<1>2. /\ ppc[p] # "none" /\ \A q \in Pollers : q # p => ppc'[q] = ppc[q]
      /\ ppc'[p] = "none" => stopFlag
  BY DEF PollStep, PollTop, CallbackLock, CallbackHead, CallbackTail, TypeOK
<1>3. handle = p
  BY <1>2 DEF ScanInv, OnePoller
<1>4. /\ Stopping' <=> Stopping
      /\ \A g \in Games : Answering(g)' <=> Answering(g)
  BY <1>1 DEF Stopping, Answering
<1>5. NoStartYet'
  BY <1>1, <1>4 DEF ScanInv, NoStartYet, Unanswered
<1>6. OnePoller'
  BY <1>1, <1>2, <1>3 DEF ScanInv, OnePoller
<1>7. \A g \in Games : gpc[g] # "close" /\ gpc[g] # "clear" /\ ~Answering(g)
  BY <1>2, <1>3, Named DEF ScanInv, Joined, Nobody
<1>8. Joined'
  BY <1>1, <1>4, <1>7 DEF ScanInv, Joined
<1>9. stopFlag => Stopping
  BY DEF ScanInv, FlagInv, Stopping, InStop
<1>10. FlagInv'
  BY <1>1, <1>2, <1>3, <1>4, <1>9 DEF ScanInv, FlagInv
<1> QED
  BY <1>5, <1>6, <1>8, <1>10 DEF ScanInv

LEMMA NextScan == Patient /\ TypeOK /\ ScanInv /\ [Next]_vars => ScanInv'
<1> SUFFICES ASSUME Patient, TypeOK, ScanInv, [Next]_vars PROVE ScanInv'
  OBVIOUS
<1>1. CASE UNCHANGED vars
  <2>1. UNCHANGED <<written, gpc, reply, joining, ppc, handle, stopFlag, scanning>>
    BY <1>1 DEF vars, hookVars, gameVars, dllVars
  <2>2. /\ Stopping' <=> Stopping
        /\ \A g \in Games : Answering(g)' <=> Answering(g)
    BY <2>1 DEF Stopping, Answering
  <2> QED
    BY <2>1, <2>2 DEF ScanInv, NoStartYet, Unanswered, OnePoller, Joined, FlagInv
<1>2. CASE Next
  BY <1>2, QuietStep, WriteStep, StartStep, StopStep, CheckStep, FlagStep, JoinStep, WaitStep,
     CloseStep, ClearStep, PollerStep
     DEF Next, HandleStep
<1> QED
  BY <1>1, <1>2

(* The inductive invariant of the scan: there is at most the one polling
   thread that the DLL has the handle of, and while a stop goes on no START is
   under way.                                                              *)
THEOREM ScanInvariance ==
  ASSUME Patient
  PROVE  Spec => [](TypeOK /\ ScanInv)
<1>1. Init => TypeOK /\ ScanInv
  BY InitTyped, InitScan
<1>2. TypeOK /\ ScanInv /\ [Next]_vars => (TypeOK /\ ScanInv)'
  BY Patient, NextTyped, NextScan
<1> QED
  BY <1>1, <1>2, PTL DEF Spec

(* A game that awaits the answer to a STOP gets no report after it, whichever
   of its threads stop the scan, at once or not (chuni_io_slider_stop).     *)
THEOREM NoReportAfterStop ==
  ASSUME Patient
  PROVE  Spec => []StopCeasesCallbacks
<1>1. TypeOK /\ ScanInv => StopCeasesCallbacks
  BY Named DEF ScanInv, OnePoller, Joined, StopCeasesCallbacks, Nobody
<1> QED
  BY <1>1, ScanInvariance, PTL

(* Such a game has a polling thread from slider_start to slider_stop, one that
   nothing has told to end (chuni_io_slider_start).                        *)
THEOREM StartLeavesPoller ==
  ASSUME Patient
  PROVE  Spec => []ScanningMeansPolling
<1>1. TypeOK /\ ScanInv => ScanningMeansPolling
  BY DEF ScanInv, FlagInv, ScanningMeansPolling, Stopping, InStop
<1> QED
  BY <1>1, ScanInvariance, PTL

-----------------------------------------------------------------------------
(* Frames: each one that is sent is handled once, unchanged and in order. *)

(* Induction, from the sets 1 .. n, which strict inclusion orders: the library's
   own theorem takes a predicate.                                          *)
LEMMA FrameInduction ==
  ASSUME NEW S \in SUBSET Nat, 0 \in S, \A n \in S : n + 1 \in S
  PROVE  S = Nat
<1> SUFFICES ASSUME Nat \ S # {} PROVE FALSE
  OBVIOUS
<1> DEFINE T == {1 .. n : n \in Nat \ S}
<1>1. IsWellFoundedOn(StrictSubsetOrdering(Nat), FiniteSubsetsOf(Nat))
  BY FS_StrictSubsetOrderingWellFounded
<1>2. T \subseteq FiniteSubsetsOf(Nat) /\ T # {}
  <2>1. \A n \in Nat : IsFiniteSet(1 .. n) /\ 1 .. n \subseteq Nat
    BY FS_Interval
  <2>2. QED
    BY <2>1 DEF FiniteSubsetsOf
<1>3. PICK x \in T : \A y \in T : ~ (<<y, x>> \in StrictSubsetOrdering(Nat))
  <2> HIDE DEF T
  <2>1. QED
    BY <1>1, <1>2, WFMin
<1>4. PICK n \in Nat \ S : x = 1 .. n
  OBVIOUS
<1>5. n # 0 /\ n - 1 \in Nat /\ n - 1 \notin S
  <2>1. n # 0 /\ n - 1 \in Nat /\ n - 1 + 1 = n
    OBVIOUS
  <2>2. QED
    BY <2>1
<1>6. <<1 .. n - 1, 1 .. n>> \in StrictSubsetOrdering(Nat)
  BY <1>5 DEF StrictSubsetOrdering
<1>7. QED
  BY <1>3, <1>4, <1>5, <1>6

(* The same, up to a bound *)
LEMMA FrameInductionUpTo ==
  ASSUME NEW n \in Nat, NEW S, 0 \in S, \A i \in 0 .. n - 1 : i \in S => i + 1 \in S
  PROVE  \A i \in 0 .. n : i \in S
<1> DEFINE T == {i \in Nat : i <= n => i \in S}
<1>1. 0 \in T
  OBVIOUS
<1>2. ASSUME NEW i \in T PROVE i + 1 \in T
  <2>1. i + 1 <= n => i \in 0 .. n - 1 /\ i <= n /\ i \in Nat
    OBVIOUS
  <2>2. QED
    BY <2>1
<1>3. T = Nat
  <2>1. T \in SUBSET Nat
    OBVIOUS
  <2> HIDE DEF T
  <2>2. QED
    BY <1>1, <1>2, <2>1, FrameInduction
<1>4. QED
  BY <1>3

(* What a step makes of a start and of n bytes, in turn *)
FrameRuns(X, step, start, n, bytes) ==
    \E g \in [0 .. n -> X] :
       g[0] = start /\ \A i \in 1 .. n : g[i] = step[g[i - 1]][bytes[i]]

(* There is a run of any step, ... *)
LEMMA FrameRunExists ==
  ASSUME NEW X, NEW step, NEW start, NEW n, NEW bytes,
         start \in X, n \in Nat, \A i \in 1 .. n : bytes[i] \in FrameByte,
         \A x \in X, b \in FrameByte : step[x][b] \in X
  PROVE  FrameRuns(X, step, start, n, bytes)
<1> DEFINE Runs(m) ==
      \E g \in [0 .. m -> X] : g[0] = start /\ \A i \in 1 .. m : g[i] = step[g[i - 1]][bytes[i]]
    S == {m \in 0 .. n : Runs(m)}
<1>1. Runs(0)
  <2> DEFINE h == [i \in 0 .. 0 |-> start]
  <2>1. h \in [0 .. 0 -> X] /\ h[0] = start /\ \A i \in 1 .. 0 : h[i] = step[h[i - 1]][bytes[i]]
    OBVIOUS
  <2> HIDE DEF h
  <2>2. QED
    BY <2>1
<1>2. ASSUME NEW m \in 0 .. n - 1, Runs(m) PROVE Runs(m + 1)
  <2>1. PICK g \in [0 .. m -> X] :
           g[0] = start /\ \A i \in 1 .. m : g[i] = step[g[i - 1]][bytes[i]]
    BY <1>2
  <2>2. m \in Nat /\ m + 1 \in 1 .. n /\ bytes[m + 1] \in FrameByte /\ g[m] \in X
    OBVIOUS
  <2> DEFINE last == step[g[m]][bytes[m + 1]]
             h == [i \in 0 .. m + 1 |-> IF i = m + 1 THEN last ELSE g[i]]
  <2>3. last \in X
    BY <2>2
  <2>4. last = step[g[m]][bytes[m + 1]]
    OBVIOUS
  <2> HIDE DEF last
  <2>5. h \in [0 .. m + 1 -> X]
    BY <2>2, <2>3
  <2>6. h[m + 1] = last /\ \A i \in 0 .. m : h[i] = g[i]
    BY <2>2
  <2> HIDE DEF h
  <2>7. ASSUME NEW i \in 1 .. m + 1 PROVE h[i] = step[h[i - 1]][bytes[i]]
    <3>1. CASE i = m + 1
      <4>1. i - 1 = m /\ m \in 0 .. m
        BY <2>2, <3>1
      <4>2. h[i - 1] = g[m]
        BY <2>6, <4>1
      <4>3. QED
        BY <2>4, <2>6, <3>1, <4>2
    <3>2. CASE i \in 1 .. m
      <4>1. i \in 0 .. m /\ i - 1 \in 0 .. m
        BY <2>2, <3>2
      <4>2. h[i] = g[i] /\ h[i - 1] = g[i - 1]
        BY <2>6, <4>1
      <4>3. QED
        BY <2>1, <3>2, <4>2
    <3>3. QED
      BY <2>2, <3>1, <3>2
  <2>8. h[0] = start
    BY <2>1, <2>2, <2>6
  <2>9. QED
    BY <2>5, <2>7, <2>8
<1> HIDE DEF Runs
<1>3. \A m \in 0 .. n : m \in S
  <2>1. 0 \in S
    BY <1>1
  <2>2. \A i \in 0 .. n - 1 : i \in S => i + 1 \in S
    BY <1>2
  <2> HIDE DEF S
  <2>3. QED
    BY <2>1, <2>2, FrameInductionUpTo
<1>4. Runs(n)
  BY <1>3
<1>5. QED
  BY <1>4 DEF Runs, FrameRuns

(* Two runs agree as far as n. *)
FrameSame(n, g, h) == \A i \in 0 .. n : g[i] = h[i]

(* ... and one alone. *)
LEMMA FrameRunsAgree ==
  ASSUME NEW n \in Nat, NEW g, NEW h, g[0] = h[0],
         \A i \in 1 .. n : g[i - 1] = h[i - 1] => g[i] = h[i]
  PROVE  FrameSame(n, g, h)
<1> DEFINE S == {i \in 0 .. n : g[i] = h[i]}
<1>1. 0 \in S
  OBVIOUS
<1>2. ASSUME NEW i \in 0 .. n - 1, i \in S PROVE i + 1 \in S
  <2>1. i + 1 \in 1 .. n /\ (i + 1) - 1 = i /\ i + 1 \in 0 .. n
    OBVIOUS
  <2>2. g[i + 1] = h[i + 1]
    BY <1>2, <2>1
  <2>3. QED
    BY <2>1, <2>2
<1> HIDE DEF S
<1>3. \A i \in 0 .. n : i \in S
  BY <1>1, <1>2, FrameInductionUpTo
<1>4. QED
  BY <1>3 DEF S, FrameSame

(* What FrameSum computes *)
LEMMA FrameSumRuns ==
  ASSUME NEW bytes \in Seq(FrameByte), NEW g, g[0] = 0,
         \A i \in 1 .. Len(bytes) : g[i] = FrameMod(g[i - 1] + bytes[i])
  PROVE  FrameSum(bytes) = g[Len(bytes)]
<1> DEFINE n == Len(bytes)
           P(f) == f = [i \in 0 .. n |-> IF i = 0 THEN 0 ELSE FrameMod(f[i - 1] + bytes[i])]
           run == CHOOSE f : P(f)
           h == [i \in 0 .. n |-> g[i]]
<1>1. n \in Nat
  OBVIOUS
<1>2. P(h)
  <2>1. \A i \in 0 .. n : i = 0 \/ (i \in 1 .. n /\ i - 1 \in 0 .. n /\ h[i - 1] = g[i - 1])
    OBVIOUS
  <2>2. QED
    BY <2>1
<1>3. FrameSum(bytes) = run[n]
  BY Zenon DEF FrameSum, FrameRun
<1>4. P(run)
  <2> HIDE DEF P
  <2>1. QED
    BY <1>2, Zenon
<1> HIDE DEF run
<1>5. run[0] = 0 /\ \A i \in 1 .. n : run[i] = FrameMod(run[i - 1] + bytes[i])
  <2>1. \A i \in 0 .. n : run[i] = IF i = 0 THEN 0 ELSE FrameMod(run[i - 1] + bytes[i])
    BY <1>4, Zenon
  <2>2. \A i \in 1 .. n : i \in 0 .. n /\ i # 0
    OBVIOUS
  <2>3. QED
    BY <1>1, <2>1, <2>2
<1> HIDE DEF P, n
<1>6. \A i \in 0 .. n : run[i] = g[i]
  <2>1. \A i \in 1 .. n : run[i - 1] = g[i - 1] => run[i] = g[i]
    BY <1>5 DEF n
  <2>2. run[0] = g[0]
    BY <1>5
  <2> HIDE DEF n
  <2>3. FrameSame(n, run, g)
    BY <1>1, <2>1, <2>2, FrameRunsAgree
  <2>4. QED
    BY <2>3 DEF FrameSame
<1>7. n \in 0 .. n
  BY <1>1
<1>8. QED
  BY <1>3, <1>6, <1>7 DEF n

(* FrameSum adds up in some run, which takes each byte once. *)
LEMMA FrameSumRunExists ==
  ASSUME NEW bytes \in Seq(FrameByte)
  PROVE  \E g \in [0 .. Len(bytes) -> FrameByte] :
            g[0] = 0 /\ \A i \in 1 .. Len(bytes) : g[i] = FrameMod(g[i - 1] + bytes[i])
<1> DEFINE step == [a \in FrameByte |-> [b \in FrameByte |-> FrameMod(a + b)]]
<1>1. \A a, b \in FrameByte : FrameMod(a + b) \in FrameByte
  BY DEF FrameByte, FrameMod
<1>2. \A a \in FrameByte, b \in FrameByte : step[a][b] \in FrameByte
  BY <1>1
<1>3. \A a, b \in FrameByte : step[a][b] = FrameMod(a + b)
  OBVIOUS
<1> HIDE DEF step
<1>4. Len(bytes) \in Nat /\ \A i \in 1 .. Len(bytes) : bytes[i] \in FrameByte
  OBVIOUS
<1>9. 0 \in FrameByte
  BY DEF FrameByte
<1>5. PICK g \in [0 .. Len(bytes) -> FrameByte] :
         g[0] = 0 /\ \A i \in 1 .. Len(bytes) : g[i] = step[g[i - 1]][bytes[i]]
  <2> DEFINE n == Len(bytes)
  <2>1. n \in Nat /\ \A i \in 1 .. n : bytes[i] \in FrameByte
    BY <1>4
  <2> HIDE DEF n
  <2>2. FrameRuns(FrameByte, step, 0, n, bytes)
    BY <1>2, <2>1, <1>9, FrameRunExists
  <2>3. QED
    BY <2>2 DEF n, FrameRuns
<1>6. \A i \in 1 .. Len(bytes) : g[i] = FrameMod(g[i - 1] + bytes[i])
  <2>1. \A i \in 1 .. Len(bytes) : i - 1 \in 0 .. Len(bytes)
    BY <1>4
  <2>2. QED
    BY <1>3, <1>4, <1>5, <2>1
<1>7. QED
  BY <1>5, <1>6

(* A checksum is a byte, and one byte more is added to it. *)
LEMMA FrameSumOf ==
  ASSUME NEW bytes \in Seq(FrameByte)
  PROVE  /\ FrameSum(bytes) \in FrameByte
         /\ \A byte \in FrameByte :
               FrameSum(Append(bytes, byte)) = FrameMod(FrameSum(bytes) + byte)
<1> DEFINE n == Len(bytes)
<1>1. PICK g \in [0 .. n -> FrameByte] :
         g[0] = 0 /\ \A i \in 1 .. n : g[i] = FrameMod(g[i - 1] + bytes[i])
  BY FrameSumRunExists
<1>2. FrameSum(bytes) = g[n] /\ n \in Nat
  BY <1>1, FrameSumRuns
<1>3. ASSUME NEW byte \in FrameByte
      PROVE  FrameSum(Append(bytes, byte)) = FrameMod(FrameSum(bytes) + byte)
  <2> DEFINE more == Append(bytes, byte)
             h == [i \in 0 .. n + 1 |-> IF i = n + 1 THEN FrameMod(g[n] + byte) ELSE g[i]]
  <2>1. /\ more \in Seq(FrameByte) /\ Len(more) = n + 1 /\ more[n + 1] = byte
        /\ \A i \in 1 .. n : more[i] = bytes[i]
    OBVIOUS
  <2>2. h[n + 1] = FrameMod(g[n] + byte) /\ \A i \in 0 .. n : h[i] = g[i]
    BY <1>2
  <2> HIDE DEF h, more, n
  <2>3. \A i \in 1 .. n + 1 : /\ i = n + 1 \/ i \in 1 .. n
                              /\ i - 1 \in 0 .. n /\ (n + 1) - 1 = n
                              /\ i \in 1 .. n => i \in 0 .. n
    BY <1>2
  <2>4. \A i \in 1 .. n + 1 : h[i] = FrameMod(h[i - 1] + more[i])
    BY <1>1, <1>2, <2>1, <2>2, <2>3
  <2>5. h[0] = 0
    BY <1>1, <1>2, <2>2
  <2>6. FrameSum(more) = h[n + 1]
    BY <2>1, <2>4, <2>5, FrameSumRuns
  <2>7. QED
    BY <1>2, <2>2, <2>6 DEF more
<1>4. QED
  BY <1>1, <1>2, <1>3

(* The steps of an encoder *)
FrameStuffs(sync, escape, out, all) ==
    /\ out[0] = <<sync>>
    /\ \A i \in 1 .. Len(all) : out[i] = out[i - 1] \o FrameStuffed(sync, escape, all[i])

(* A byte on the line is itself, or an escape and the byte less one. *)
LEMMA FrameStuffedIs ==
  ASSUME NEW sync \in 1 .. 255, NEW escape \in 1 .. 255, NEW byte \in FrameByte
  PROVE  /\ FrameStuffed(sync, escape, byte) \in Seq(FrameByte)
         /\ IF byte \in {sync, escape}
            THEN FrameStuffed(sync, escape, byte) = <<escape, byte - 1>>
            ELSE FrameStuffed(sync, escape, byte) = <<byte>>
<1>1. byte \in {sync, escape} => byte - 1 \in FrameByte /\ escape \in FrameByte
  BY DEF FrameByte
<1>2. QED
  BY <1>1 DEF FrameStuffed

(* An encoder's line is the end of such steps. *)
LEMMA FrameEncodedRuns ==
  ASSUME NEW sync \in 1 .. 255, NEW escape \in 1 .. 255,
         NEW bytes \in Seq(FrameByte), NEW checksum \in FrameByte
  PROVE  \E out \in [0 .. Len(bytes) + 1 -> Seq(FrameByte)] :
            /\ FrameStuffs(sync, escape, out, Append(bytes, checksum))
            /\ FrameEncoded(sync, escape, bytes, checksum) = out[Len(bytes) + 1]
<1> DEFINE all == Append(bytes, checksum)
           n == Len(bytes) + 1
           X == Seq(FrameByte)
           step == [o \in X |-> [b \in FrameByte |-> o \o FrameStuffed(sync, escape, b)]]
<1>1. all \in Seq(FrameByte) /\ Len(all) = n /\ n \in Nat /\ \A i \in 1 .. n : all[i] \in FrameByte
  OBVIOUS
<1>2. sync \in FrameByte /\ <<sync>> \in X
  BY DEF FrameByte
<1>3. \A o \in X, b \in FrameByte : o \o FrameStuffed(sync, escape, b) \in X
  BY FrameStuffedIs, ConcatProperties
<1>4. \A o \in X, b \in FrameByte : step[o][b] = o \o FrameStuffed(sync, escape, b)
  OBVIOUS
<1> HIDE DEF step, X
<1>5. FrameRuns(X, step, <<sync>>, n, all)
  <2> HIDE DEF all, n
  <2>1. \A o \in X, b \in FrameByte : step[o][b] \in X
    BY <1>3, <1>4
  <2>2. QED
    BY <1>1, <1>2, <2>1, FrameRunExists
<1>6. PICK out \in [0 .. n -> X] :
         out[0] = <<sync>> /\ \A i \in 1 .. n : out[i] = step[out[i - 1]][all[i]]
  BY <1>5 DEF FrameRuns
<1>7. FrameStuffs(sync, escape, out, all)
  <2> HIDE DEF all, n
  <2>1. \A i \in 1 .. n : i - 1 \in 0 .. n
    BY <1>1
  <2>2. \A i \in 1 .. n : out[i - 1] \in X
    BY <2>1
  <2>3. QED
    BY <1>1, <1>4, <1>6, <2>2 DEF FrameStuffs
<1> DEFINE P(f) == f = [i \in 0 .. Len(all) |->
                          IF i = 0 THEN <<sync>>
                          ELSE f[i - 1] \o FrameStuffed(sync, escape, all[i])]
           run == CHOOSE f : P(f)
<1>8. FrameEncoded(sync, escape, bytes, checksum) = run[Len(all)]
  BY Zenon DEF FrameEncoded, FrameRun
<1> HIDE DEF all, n
<1>9. P(out)
  <2>1. out = [i \in 0 .. n |-> out[i]]
    OBVIOUS
  <2>2. \A i \in 0 .. n : i = 0 \/ i \in 1 .. n
    BY <1>1
  <2>3. \A i \in 0 .. n : out[i] = IF i = 0 THEN <<sync>>
                          ELSE out[i - 1] \o FrameStuffed(sync, escape, all[i])
    BY <1>1, <1>7, <2>2 DEF FrameStuffs
  <2>4. QED
    BY <1>1, <2>1, <2>3
<1>10. P(run)
  <2> HIDE DEF P
  <2>1. QED
    BY <1>9, Zenon
<1> HIDE DEF run
<1>11. /\ run[0] = <<sync>>
       /\ \A i \in 1 .. n : run[i] = run[i - 1] \o FrameStuffed(sync, escape, all[i])
  <2>1. \A i \in 0 .. n : run[i] = IF i = 0 THEN <<sync>>
                          ELSE run[i - 1] \o FrameStuffed(sync, escape, all[i])
    BY <1>1, <1>10, Zenon
  <2>2. 0 \in 0 .. n /\ \A i \in 1 .. n : i \in 0 .. n /\ i # 0
    BY <1>1
  <2>3. QED
    BY <2>1, <2>2
<1> HIDE DEF P
<1>12. \A i \in 0 .. n : run[i] = out[i]
  <2>1. \A i \in 1 .. n : run[i - 1] = out[i - 1] => run[i] = out[i]
    BY <1>1, <1>7, <1>11 DEF FrameStuffs
  <2>2. run[0] = out[0]
    BY <1>6, <1>11
  <2>3. n \in Nat
    BY <1>1
  <2>4. FrameSame(n, run, out)
    BY <2>1, <2>2, <2>3, FrameRunsAgree
  <2>5. QED
    BY <2>4 DEF FrameSame
<1>13. FrameEncoded(sync, escape, bytes, checksum) = out[n]
  BY <1>1, <1>8, <1>12
<1>14. QED
  BY <1>7, <1>13 DEF all, n, X

(* A sync byte and an escape that stuffing tells apart *)
FrameSyncs(sync, escape) ==
    /\ sync \in 1 .. 255 /\ escape \in 1 .. 255
    /\ sync # escape /\ sync - 1 # escape /\ escape - 1 # sync

(* What there is on the line of the i-th byte of a frame with its checksum *)
FrameOnLine(sync, escape, byte, before, behind, line) ==
    IF byte \in {sync, escape}
    THEN behind = before + 2 /\ line[before + 1] = escape /\ line[behind] = byte - 1
    ELSE behind = before + 1 /\ line[behind] = byte

(* How an encoder's bytes are made from those of a frame and its checksum: the
   i-th one ends at[i] bytes into the line.                                *)
FrameStuffing(sync, escape, all, at, line) ==
    /\ at \in [0 .. Len(all) -> Nat] /\ at[0] = 1
    /\ line \in Seq(FrameByte) /\ Len(line) = at[Len(all)] /\ line[1] = sync
    /\ \A j \in 2 .. Len(line) : line[j] # sync
    /\ \A i \in 0 .. Len(all) : 1 <= at[i] /\ at[i] <= Len(line)
    /\ \A i \in 1 .. Len(all) : FrameOnLine(sync, escape, all[i], at[i - 1], at[i], line)

(* One byte appended to a line *)
FrameLonger(sync, escape, byte, out, longer) ==
    /\ Len(out) < Len(longer)
    /\ \A j \in 1 .. Len(out) : longer[j] = out[j]
    /\ \A j \in Len(out) + 1 .. Len(longer) : longer[j] # sync
    /\ FrameOnLine(sync, escape, byte, Len(out), Len(longer), longer)

(* Stuffing appends a byte's one or two, none of them a sync byte. *)
LEMMA FrameStuffedOnLine ==
  ASSUME NEW sync, NEW escape, FrameSyncs(sync, escape), NEW byte \in FrameByte,
         NEW out \in Seq(FrameByte)
  PROVE  FrameLonger(sync, escape, byte, out, out \o FrameStuffed(sync, escape, byte))
<1> DEFINE t == FrameStuffed(sync, escape, byte)
           longer == out \o t
<1>1. /\ t \in Seq(FrameByte)
      /\ IF byte \in {sync, escape} THEN t = <<escape, byte - 1>> ELSE t = <<byte>>
  BY FrameStuffedIs DEF FrameSyncs
<1> HIDE DEF t
<1>2. /\ longer \in Seq(FrameByte) /\ Len(longer) = Len(out) + Len(t)
      /\ Len(out) \in Nat /\ Len(t) \in Nat
      /\ \A j \in 1 .. Len(out) : longer[j] = out[j]
      /\ \A j \in 1 .. Len(t) : longer[Len(out) + j] = t[j]
  <2>1. longer = out \o t
    OBVIOUS
  <2>2. QED
    BY <1>1, <2>1, ConcatProperties
<1> HIDE DEF longer
<1>3. ASSUME byte \in {sync, escape} PROVE FrameLonger(sync, escape, byte, out, longer)
  <2>1. Len(t) = 2 /\ t[1] = escape /\ t[2] = byte - 1
    BY <1>1, <1>3
  <2>2. escape # sync /\ byte - 1 # sync
    BY <1>3 DEF FrameSyncs
  <2>3. longer[Len(out) + 1] = escape /\ longer[Len(out) + 2] = byte - 1
    BY <1>2, <2>1
  <2>4. Len(longer) = Len(out) + 2
    BY <1>2, <2>1
  <2>5. \A j \in Len(out) + 1 .. Len(longer) : j = Len(out) + 1 \/ j = Len(out) + 2
    BY <1>2, <2>4
  <2>6. QED
    BY <1>2, <1>3, <2>2, <2>3, <2>4, <2>5 DEF FrameOnLine, FrameLonger
<1>4. ASSUME byte \notin {sync, escape} PROVE FrameLonger(sync, escape, byte, out, longer)
  <2>1. Len(t) = 1 /\ t[1] = byte
    BY <1>1, <1>4
  <2>2. byte # sync
    BY <1>4
  <2>3. longer[Len(out) + 1] = byte
    BY <1>2, <2>1
  <2>4. Len(longer) = Len(out) + 1
    BY <1>2, <2>1
  <2>5. \A j \in Len(out) + 1 .. Len(longer) : j = Len(out) + 1
    BY <1>2, <2>4
  <2>6. QED
    BY <1>2, <1>4, <2>2, <2>3, <2>4, <2>5 DEF FrameOnLine, FrameLonger
<1>5. FrameLonger(sync, escape, byte, out, longer)
  BY <1>3, <1>4
<1>6. QED
  BY <1>5 DEF t, longer

(* A line so far: what came before is its beginning, and only its first byte is
   the sync byte.                                                          *)
FrameGrown(sync, out, m) ==
    /\ \A i \in 0 .. m : /\ Len(out[i]) <= Len(out[m])
                         /\ \A j \in 1 .. Len(out[i]) : out[m][j] = out[i][j]
    /\ 1 <= Len(out[m]) /\ out[m][1] = sync
    /\ \A j \in 2 .. Len(out[m]) : out[m][j] # sync

(* *_frame_encode puts every byte of a frame on the line in its place. *)
LEMMA FrameEncodedStuffs ==
  ASSUME NEW sync, NEW escape, FrameSyncs(sync, escape),
         NEW bytes \in Seq(FrameByte), NEW checksum \in FrameByte
  PROVE  \E at : FrameStuffing(sync, escape, Append(bytes, checksum), at,
                               FrameEncoded(sync, escape, bytes, checksum))
<1> DEFINE all == Append(bytes, checksum)
           n == Len(bytes) + 1
           line == FrameEncoded(sync, escape, bytes, checksum)
<1>1. all \in Seq(FrameByte) /\ Len(all) = n /\ n \in Nat /\ \A i \in 1 .. n : all[i] \in FrameByte
  OBVIOUS
<1>2. PICK out \in [0 .. n -> Seq(FrameByte)] : FrameStuffs(sync, escape, out, all) /\ line = out[n]
  BY FrameEncodedRuns DEF FrameSyncs
<1> HIDE DEF all, n, line
<1>3. \A i \in 1 .. n : i - 1 \in 0 .. n /\ i \in 0 .. n
  BY <1>1
<1>4. \A i \in 0 .. n : out[i] \in Seq(FrameByte) /\ Len(out[i]) \in Nat
  OBVIOUS
<1>5. ASSUME NEW i \in 1 .. n
      PROVE  /\ Len(out[i - 1]) < Len(out[i])
             /\ \A j \in 1 .. Len(out[i - 1]) : out[i][j] = out[i - 1][j]
             /\ \A j \in Len(out[i - 1]) + 1 .. Len(out[i]) : out[i][j] # sync
             /\ FrameOnLine(sync, escape, all[i], Len(out[i - 1]), Len(out[i]), out[i])
  <2>1. out[i] = out[i - 1] \o FrameStuffed(sync, escape, all[i])
    BY <1>1, <1>2 DEF FrameStuffs
  <2>2. out[i - 1] \in Seq(FrameByte) /\ all[i] \in FrameByte
    BY <1>1, <1>3
  <2>3. FrameLonger(sync, escape, all[i], out[i - 1], out[i])
    BY <2>1, <2>2, FrameStuffedOnLine
  <2>4. QED
    BY <2>3 DEF FrameLonger
<1> DEFINE S == {m \in 0 .. n : FrameGrown(sync, out, m)}
<1>6. 0 \in S
  <2>1. out[0] = <<sync>>
    BY <1>2 DEF FrameStuffs
  <2>2. Len(out[0]) = 1 /\ out[0][1] = sync
    BY <2>1
  <2>5. (\A i \in 0 .. 0 : i = 0) /\ 2 .. 1 = {}
    OBVIOUS
  <2>6. /\ \A i \in 0 .. 0 : out[i] = out[0]
        /\ Len(out[0]) <= Len(out[0]) /\ 1 <= Len(out[0])
        /\ \A j \in 2 .. Len(out[0]) : out[0][j] # sync
    BY <2>2, <2>5
  <2>3. FrameGrown(sync, out, 0)
    BY <2>2, <2>6, Zenon DEF FrameGrown
  <2>4. QED
    BY <1>1, <2>3
<1>7. ASSUME NEW m \in 0 .. n - 1, FrameGrown(sync, out, m)
      PROVE  FrameGrown(sync, out, m + 1)
  <2>1. m + 1 \in 1 .. n /\ (m + 1) - 1 = m /\ m \in 0 .. n /\ m + 1 \in 0 .. n
    BY <1>1
  <2>2. /\ Len(out[m]) < Len(out[m + 1])
        /\ \A j \in 1 .. Len(out[m]) : out[m + 1][j] = out[m][j]
        /\ \A j \in Len(out[m]) + 1 .. Len(out[m + 1]) : out[m + 1][j] # sync
    BY <1>5, <2>1
  <2>3. Len(out[m]) \in Nat /\ Len(out[m + 1]) \in Nat
    BY <1>4, <2>1
  <2>4. ASSUME NEW i \in 0 .. m + 1
        PROVE  /\ Len(out[i]) <= Len(out[m + 1])
               /\ \A j \in 1 .. Len(out[i]) : out[m + 1][j] = out[i][j]
    <3>1. CASE i = m + 1
      BY <2>3, <3>1
    <3>2. CASE i \in 0 .. m
      <4>1. Len(out[i]) <= Len(out[m]) /\ \A j \in 1 .. Len(out[i]) : out[m][j] = out[i][j]
        BY <1>7, <3>2 DEF FrameGrown
      <4>2. Len(out[i]) \in Nat
        BY <1>4, <2>1, <3>2
      <4>3. \A j \in 1 .. Len(out[i]) : j \in 1 .. Len(out[m])
        BY <2>3, <4>1, <4>2
      <4>4. QED
        BY <2>2, <2>3, <4>1, <4>2, <4>3
    <3>3. QED
      BY <2>1, <3>1, <3>2
  <2>5. 1 <= Len(out[m]) /\ out[m][1] = sync /\ \A j \in 2 .. Len(out[m]) : out[m][j] # sync
    BY <1>7 DEF FrameGrown
  <2>6. 1 <= Len(out[m + 1]) /\ out[m + 1][1] = sync
    BY <2>2, <2>3, <2>5
  <2>7. ASSUME NEW j \in 2 .. Len(out[m + 1]) PROVE out[m + 1][j] # sync
    <3>1. j \in 2 .. Len(out[m]) \/ j \in Len(out[m]) + 1 .. Len(out[m + 1])
      BY <2>3
    <3>2. j \in 2 .. Len(out[m]) => j \in 1 .. Len(out[m])
      BY <2>3
    <3>3. QED
      BY <2>2, <2>5, <3>1, <3>2
  <2>8. QED
    BY <2>4, <2>6, <2>7 DEF FrameGrown
<1>8. \A m \in 0 .. n : FrameGrown(sync, out, m)
  <2>1. \A m \in 0 .. n - 1 : m \in S => m + 1 \in S
    <3>1. \A m \in 0 .. n - 1 : m \in 0 .. n /\ m + 1 \in 0 .. n
      BY <1>1
    <3>2. QED
      BY <1>7, <3>1
  <2> HIDE DEF S
  <2>2. \A m \in 0 .. n : m \in S
    BY <1>1, <1>6, <2>1, FrameInductionUpTo
  <2>3. QED
    BY <2>2 DEF S
<1>9. FrameGrown(sync, out, n) /\ n \in 0 .. n
  BY <1>1, <1>8
<1> DEFINE at == [i \in 0 .. n |-> Len(out[i])]
<1>10. at \in [0 .. n -> Nat] /\ \A i \in 0 .. n : at[i] = Len(out[i])
  BY <1>4
<1> HIDE DEF at
<1>11. at[0] = 1
  <2>1. out[0] = <<sync>> /\ 0 \in 0 .. n
    BY <1>1, <1>2 DEF FrameStuffs
  <2>2. QED
    BY <1>10, <2>1
<1>12. /\ line \in Seq(FrameByte) /\ Len(line) = at[n] /\ line[1] = sync
       /\ \A j \in 2 .. Len(line) : line[j] # sync
       /\ \A i \in 0 .. n : at[i] <= Len(line) /\ \A j \in 1 .. at[i] : line[j] = out[i][j]
  BY <1>2, <1>4, <1>9, <1>10 DEF FrameGrown
<1>13. \A i \in 0 .. n : 1 <= at[i]
  BY <1>8, <1>10 DEF FrameGrown
<1>14. ASSUME NEW i \in 1 .. n
       PROVE  FrameOnLine(sync, escape, all[i], at[i - 1], at[i], line)
  <2>1. at[i] = Len(out[i]) /\ at[i - 1] = Len(out[i - 1]) /\ at[i] \in Nat /\ at[i - 1] \in Nat
    BY <1>3, <1>10
  <2>2. at[i - 1] < at[i] /\ FrameOnLine(sync, escape, all[i], at[i - 1], at[i], out[i])
    BY <1>5, <2>1
  <2>3. line[at[i]] = out[i][at[i]] /\ line[at[i - 1] + 1] = out[i][at[i - 1] + 1]
    <3>1. at[i] \in 1 .. at[i] /\ at[i - 1] + 1 \in 1 .. at[i] /\ i \in 0 .. n
      BY <1>3, <2>1, <2>2
    <3>2. QED
      BY <1>12, <3>1
  <2>4. QED
    BY <2>2, <2>3 DEF FrameOnLine
<1>15. FrameStuffing(sync, escape, all, at, line)
  BY <1>1, <1>10, <1>11, <1>12, <1>13, <1>14 DEF FrameStuffing
<1>16. QED
  BY <1>15 DEF all, line

(* The states of a decoder *)
FrameDecoders ==
    [dest : Seq(FrameByte), escape : BOOLEAN, used : Nat,
     hr : {"more", "ok", "crc", "fail", "no room"}]

(* The steps of a decoder of a stream, ... *)
FrameDecodes(format, bytes, run) ==
    /\ run[0] = FrameFresh
    /\ \A i \in 1 .. Len(bytes) : run[i] = FrameStep(format, run[i - 1], bytes[i])

(* ... and of one of whole frames *)
FrameWholeStep(format, decoder, byte) ==
    IF format = "sg" THEN SgFrameStep(decoder, byte) ELSE JvsFrameStep(decoder, byte)

(* Its steps *)
FrameWholeDecodes(format, bytes, run) ==
    /\ run[0] = FrameFresh
    /\ \A i \in 1 .. Len(bytes) : run[i] = FrameWholeStep(format, run[i - 1], bytes[i])

(* A fresh decoder is one. *)
LEMMA FrameFreshType == FrameFresh \in FrameDecoders
BY DEF FrameFresh, FrameDecoders

(* A byte more in dest leaves a decoder one, ... *)
LEMMA FramePutType ==
  ASSUME NEW decoder \in FrameDecoders, NEW byte \in FrameByte
  PROVE  /\ FramePut(decoder, byte) \in FrameDecoders
         /\ FrameUnescaped(decoder, byte) \in FrameDecoders
<1>1. \A b \in FrameByte : FramePut(decoder, b) \in FrameDecoders
  <2>1. decoder.dest \in Seq(FrameByte)
    BY DEF FrameDecoders
  <2>2. \A b \in FrameByte : Append(decoder.dest, b) \in Seq(FrameByte)
    BY <2>1
  <2>3. QED
    BY <2>2 DEF FrameDecoders, FramePut
<1>2. FrameMod(byte + 1) \in FrameByte
  BY DEF FrameByte, FrameMod
<1>3. QED
  BY <1>1, <1>2 DEF FrameUnescaped, FrameDecoders

(* ... and so does a step of a stream's decoder, ... *)
LEMMA FrameStepType ==
  ASSUME NEW format \in FrameStreams, NEW decoder \in FrameDecoders, NEW byte \in FrameByte
  PROVE  FrameStep(format, decoder, byte) \in FrameDecoders
<1>1. FrameUnstuff(format, decoder, byte) \in FrameDecoders
  <2>1. /\ \A hr \in {"more", "fail", "no room"} : [decoder EXCEPT !.hr = hr] \in FrameDecoders
        /\ \A hr \in {"more", "fail"} :
              [decoder EXCEPT !.hr = hr, !.escape = TRUE] \in FrameDecoders
    BY DEF FrameDecoders
  <2>2. QED
    BY <2>1, FramePutType DEF FrameUnstuff
<1>2. \A dest : FrameAccept(format, dest) \in {"more", "ok", "crc"}
  BY DEF FrameAccept, SliderFrameAccept, Led1509306FrameAccept, RfidFrameAccept, FrameSummed,
         FrameStreams
<1>3. decoder.used + 1 \in Nat
  <2>1. decoder.used \in Nat
    BY DEF FrameDecoders
  <2>2. QED
    BY <2>1
<1> DEFINE next == FrameUnstuff(format, decoder, byte)
           hr == IF next.hr = "more" THEN FrameAccept(format, next.dest) ELSE next.hr
<1>4. hr \in {"more", "ok", "crc", "fail", "no room"}
  BY <1>1, <1>2 DEF FrameDecoders
<1>5. FrameStep(format, decoder, byte) =
         IF decoder.hr # "more" THEN decoder
         ELSE [next EXCEPT !.used = decoder.used + 1, !.hr = hr]
  BY Zenon DEF FrameStep
<1> HIDE DEF next, hr
<1>6. next \in FrameDecoders
  BY <1>1 DEF next
<1>7. QED
  BY <1>3, <1>4, <1>5, <1>6 DEF FrameDecoders

(* ... or of one of whole frames. *)
LEMMA FrameWholeStepType ==
  ASSUME NEW format, NEW decoder \in FrameDecoders, NEW byte \in FrameByte
  PROVE  FrameWholeStep(format, decoder, byte) \in FrameDecoders
<1>1. /\ \A hr \in {"fail", "no room"} : [decoder EXCEPT !.hr = hr] \in FrameDecoders
      /\ [decoder EXCEPT !.escape = TRUE] \in FrameDecoders
  BY DEF FrameDecoders
<1>2. QED
  BY <1>1, FramePutType DEF FrameWholeStep, SgFrameStep, JvsFrameStep

(* What *_frame_decode makes of a stream's bytes is the end of a run of
   its steps. *)
LEMMA FrameDecodedRuns ==
  ASSUME NEW bytes \in Seq(FrameByte), NEW format \in FrameStreams
  PROVE  \E run \in [0 .. Len(bytes) -> FrameDecoders] :
            FrameDecodes(format, bytes, run) /\ FrameDecoded(format, bytes) = run[Len(bytes)]
<1> DEFINE n == Len(bytes)
           X == FrameDecoders
           Step(d, b) == FrameStep(format, d, b)
           step == [d \in X |-> [b \in FrameByte |-> Step(d, b)]]
<1>1. n \in Nat /\ \A i \in 1 .. n : bytes[i] \in FrameByte
  OBVIOUS
<1>2. FrameFresh \in X
  BY FrameFreshType
<1>3. \A d \in X, b \in FrameByte : Step(d, b) \in X
  BY FrameStepType
<1> HIDE DEF Step
<1>4. \A d \in X, b \in FrameByte : step[d][b] = Step(d, b)
  OBVIOUS
<1> HIDE DEF step, X, n
<1>5. FrameRuns(X, step, FrameFresh, n, bytes)
  <2>1. \A d \in X, b \in FrameByte : step[d][b] \in X
    BY <1>3, <1>4
  <2>2. QED
    BY <1>1, <1>2, <2>1, FrameRunExists
<1>6. PICK out \in [0 .. n -> X] :
         out[0] = FrameFresh /\ \A i \in 1 .. n : out[i] = step[out[i - 1]][bytes[i]]
  BY <1>5 DEF FrameRuns
<1>7. \A i \in 1 .. n : out[i] = Step(out[i - 1], bytes[i])
  <2>1. \A i \in 1 .. n : i - 1 \in 0 .. n
    BY <1>1
  <2>2. \A i \in 1 .. n : out[i - 1] \in X
    BY <2>1
  <2>3. QED
    BY <1>1, <1>4, <1>6, <2>2
<1> DEFINE P(f) == f = [i \in 0 .. n |-> IF i = 0 THEN FrameFresh ELSE Step(f[i - 1], bytes[i])]
           chosen == CHOOSE f : P(f)
<1>8. FrameDecoded(format, bytes) = chosen[n]
  BY Zenon DEF n, Step, FrameRun, FrameDecoded
<1>9. P(out)
  <2>1. out = [i \in 0 .. n |-> out[i]]
    OBVIOUS
  <2>2. \A i \in 0 .. n : i = 0 \/ i \in 1 .. n
    BY <1>1
  <2>3. \A i \in 0 .. n : out[i] = IF i = 0 THEN FrameFresh ELSE Step(out[i - 1], bytes[i])
    BY <1>6, <1>7, <2>2
  <2>4. QED
    BY <2>1, <2>3
<1>10. P(chosen)
  <2> HIDE DEF P
  <2>1. QED
    BY <1>9, Zenon
<1> HIDE DEF chosen
<1>11. chosen[0] = FrameFresh /\ \A i \in 1 .. n : chosen[i] = Step(chosen[i - 1], bytes[i])
  <2>1. \A i \in 0 .. n : chosen[i] = IF i = 0 THEN FrameFresh ELSE Step(chosen[i - 1], bytes[i])
    BY <1>10, Zenon
  <2>2. 0 \in 0 .. n /\ \A i \in 1 .. n : i \in 0 .. n /\ i # 0
    BY <1>1
  <2>3. QED
    BY <2>1, <2>2
<1> HIDE DEF P
<1>12. \A i \in 0 .. n : chosen[i] = out[i]
  <2>1. \A i \in 1 .. n : chosen[i - 1] = out[i - 1] => chosen[i] = out[i]
    BY <1>7, <1>11
  <2>2. chosen[0] = out[0]
    BY <1>6, <1>11
  <2>3. FrameSame(n, chosen, out)
    BY <1>1, <2>1, <2>2, FrameRunsAgree
  <2>4. QED
    BY <2>3 DEF FrameSame
<1>13. FrameDecoded(format, bytes) = out[n]
  BY <1>1, <1>8, <1>12
<1>14. FrameDecodes(format, bytes, out)
  BY <1>6, <1>7 DEF FrameDecodes, Step, n
<1>15. QED
  BY <1>13, <1>14 DEF n, X

(* The same of sg_frame_decode ... *)
LEMMA SgFrameRuns ==
  ASSUME NEW bytes \in Seq(FrameByte)
  PROVE  \E run \in [0 .. Len(bytes) -> FrameDecoders] :
            FrameWholeDecodes("sg", bytes, run) /\ FrameRun(SgFrameStep, FrameFresh, bytes) = run[Len(bytes)]
<1> DEFINE n == Len(bytes)
           X == FrameDecoders
           Step(d, b) == SgFrameStep(d, b)
           step == [d \in X |-> [b \in FrameByte |-> Step(d, b)]]
<1>1. n \in Nat /\ \A i \in 1 .. n : bytes[i] \in FrameByte
  OBVIOUS
<1>2. FrameFresh \in X
  BY FrameFreshType
<1>3. \A d \in X, b \in FrameByte : Step(d, b) \in X
  <2>1. \A d, b : FrameWholeStep("sg", d, b) = Step(d, b)
    BY DEF FrameWholeStep
  <2> HIDE DEF Step
  <2>2. QED
    BY <2>1, FrameWholeStepType
<1> HIDE DEF Step
<1>4. \A d \in X, b \in FrameByte : step[d][b] = Step(d, b)
  OBVIOUS
<1> HIDE DEF step, X, n
<1>5. FrameRuns(X, step, FrameFresh, n, bytes)
  <2>1. \A d \in X, b \in FrameByte : step[d][b] \in X
    BY <1>3, <1>4
  <2>2. QED
    BY <1>1, <1>2, <2>1, FrameRunExists
<1>6. PICK out \in [0 .. n -> X] :
         out[0] = FrameFresh /\ \A i \in 1 .. n : out[i] = step[out[i - 1]][bytes[i]]
  BY <1>5 DEF FrameRuns
<1>7. \A i \in 1 .. n : out[i] = Step(out[i - 1], bytes[i])
  <2>1. \A i \in 1 .. n : i - 1 \in 0 .. n
    BY <1>1
  <2>2. \A i \in 1 .. n : out[i - 1] \in X
    BY <2>1
  <2>3. QED
    BY <1>1, <1>4, <1>6, <2>2
<1> DEFINE P(f) == f = [i \in 0 .. n |-> IF i = 0 THEN FrameFresh ELSE Step(f[i - 1], bytes[i])]
           chosen == CHOOSE f : P(f)
<1>8. FrameRun(SgFrameStep, FrameFresh, bytes) = chosen[n]
  BY Zenon DEF n, Step, FrameRun
<1>9. P(out)
  <2>1. out = [i \in 0 .. n |-> out[i]]
    OBVIOUS
  <2>2. \A i \in 0 .. n : i = 0 \/ i \in 1 .. n
    BY <1>1
  <2>3. \A i \in 0 .. n : out[i] = IF i = 0 THEN FrameFresh ELSE Step(out[i - 1], bytes[i])
    BY <1>6, <1>7, <2>2
  <2>4. QED
    BY <2>1, <2>3
<1>10. P(chosen)
  <2> HIDE DEF P
  <2>1. QED
    BY <1>9, Zenon
<1> HIDE DEF chosen
<1>11. chosen[0] = FrameFresh /\ \A i \in 1 .. n : chosen[i] = Step(chosen[i - 1], bytes[i])
  <2>1. \A i \in 0 .. n : chosen[i] = IF i = 0 THEN FrameFresh ELSE Step(chosen[i - 1], bytes[i])
    BY <1>10, Zenon
  <2>2. 0 \in 0 .. n /\ \A i \in 1 .. n : i \in 0 .. n /\ i # 0
    BY <1>1
  <2>3. QED
    BY <2>1, <2>2
<1> HIDE DEF P
<1>12. \A i \in 0 .. n : chosen[i] = out[i]
  <2>1. \A i \in 1 .. n : chosen[i - 1] = out[i - 1] => chosen[i] = out[i]
    BY <1>7, <1>11
  <2>2. chosen[0] = out[0]
    BY <1>6, <1>11
  <2>3. FrameSame(n, chosen, out)
    BY <1>1, <2>1, <2>2, FrameRunsAgree
  <2>4. QED
    BY <2>3 DEF FrameSame
<1>13. FrameRun(SgFrameStep, FrameFresh, bytes) = out[n]
  BY <1>1, <1>8, <1>12
<1>14. FrameWholeDecodes("sg", bytes, out)
  BY <1>6, <1>7 DEF FrameWholeDecodes, FrameWholeStep, Step, n
<1>15. QED
  BY <1>13, <1>14 DEF n, X

(* ... and of jvs_frame_decode *)
LEMMA JvsFrameRuns ==
  ASSUME NEW bytes \in Seq(FrameByte)
  PROVE  \E run \in [0 .. Len(bytes) -> FrameDecoders] :
            FrameWholeDecodes("jvs", bytes, run) /\ FrameRun(JvsFrameStep, FrameFresh, bytes) = run[Len(bytes)]
<1> DEFINE n == Len(bytes)
           X == FrameDecoders
           Step(d, b) == JvsFrameStep(d, b)
           step == [d \in X |-> [b \in FrameByte |-> Step(d, b)]]
<1>1. n \in Nat /\ \A i \in 1 .. n : bytes[i] \in FrameByte
  OBVIOUS
<1>2. FrameFresh \in X
  BY FrameFreshType
<1>3. \A d \in X, b \in FrameByte : Step(d, b) \in X
  <2>1. \A d, b : FrameWholeStep("jvs", d, b) = Step(d, b)
    BY DEF FrameWholeStep
  <2> HIDE DEF Step
  <2>2. QED
    BY <2>1, FrameWholeStepType
<1> HIDE DEF Step
<1>4. \A d \in X, b \in FrameByte : step[d][b] = Step(d, b)
  OBVIOUS
<1> HIDE DEF step, X, n
<1>5. FrameRuns(X, step, FrameFresh, n, bytes)
  <2>1. \A d \in X, b \in FrameByte : step[d][b] \in X
    BY <1>3, <1>4
  <2>2. QED
    BY <1>1, <1>2, <2>1, FrameRunExists
<1>6. PICK out \in [0 .. n -> X] :
         out[0] = FrameFresh /\ \A i \in 1 .. n : out[i] = step[out[i - 1]][bytes[i]]
  BY <1>5 DEF FrameRuns
<1>7. \A i \in 1 .. n : out[i] = Step(out[i - 1], bytes[i])
  <2>1. \A i \in 1 .. n : i - 1 \in 0 .. n
    BY <1>1
  <2>2. \A i \in 1 .. n : out[i - 1] \in X
    BY <2>1
  <2>3. QED
    BY <1>1, <1>4, <1>6, <2>2
<1> DEFINE P(f) == f = [i \in 0 .. n |-> IF i = 0 THEN FrameFresh ELSE Step(f[i - 1], bytes[i])]
           chosen == CHOOSE f : P(f)
<1>8. FrameRun(JvsFrameStep, FrameFresh, bytes) = chosen[n]
  BY Zenon DEF n, Step, FrameRun
<1>9. P(out)
  <2>1. out = [i \in 0 .. n |-> out[i]]
    OBVIOUS
  <2>2. \A i \in 0 .. n : i = 0 \/ i \in 1 .. n
    BY <1>1
  <2>3. \A i \in 0 .. n : out[i] = IF i = 0 THEN FrameFresh ELSE Step(out[i - 1], bytes[i])
    BY <1>6, <1>7, <2>2
  <2>4. QED
    BY <2>1, <2>3
<1>10. P(chosen)
  <2> HIDE DEF P
  <2>1. QED
    BY <1>9, Zenon
<1> HIDE DEF chosen
<1>11. chosen[0] = FrameFresh /\ \A i \in 1 .. n : chosen[i] = Step(chosen[i - 1], bytes[i])
  <2>1. \A i \in 0 .. n : chosen[i] = IF i = 0 THEN FrameFresh ELSE Step(chosen[i - 1], bytes[i])
    BY <1>10, Zenon
  <2>2. 0 \in 0 .. n /\ \A i \in 1 .. n : i \in 0 .. n /\ i # 0
    BY <1>1
  <2>3. QED
    BY <2>1, <2>2
<1> HIDE DEF P
<1>12. \A i \in 0 .. n : chosen[i] = out[i]
  <2>1. \A i \in 1 .. n : chosen[i - 1] = out[i - 1] => chosen[i] = out[i]
    BY <1>7, <1>11
  <2>2. chosen[0] = out[0]
    BY <1>6, <1>11
  <2>3. FrameSame(n, chosen, out)
    BY <1>1, <2>1, <2>2, FrameRunsAgree
  <2>4. QED
    BY <2>3 DEF FrameSame
<1>13. FrameRun(JvsFrameStep, FrameFresh, bytes) = out[n]
  BY <1>1, <1>8, <1>12
<1>14. FrameWholeDecodes("jvs", bytes, out)
  BY <1>6, <1>7 DEF FrameWholeDecodes, FrameWholeStep, Step, n
<1>15. QED
  BY <1>13, <1>14 DEF n, X

(* A decoder's state, field by field *)
FrameState(dest, escape, used, hr) ==
    [dest |-> dest, escape |-> escape, used |-> used, hr |-> hr]

(* A byte put into dest changes nothing else. *)
LEMMA FrameStatePut ==
  ASSUME NEW dest, NEW escape, NEW used, NEW hr, NEW byte
  PROVE  FramePut(FrameState(dest, escape, used, hr), byte)
            = FrameState(Append(dest, byte), escape, used, hr)
<1> DEFINE longer == Append(dest, byte)
<1>1. FrameState(dest, escape, used, hr).dest = dest
  BY DEF FrameState
<1>2. [FrameState(dest, escape, used, hr) EXCEPT !.dest = longer]
         = FrameState(longer, escape, used, hr)
  <2> HIDE DEF longer
  <2>1. QED
    BY DEF FrameState
<1>3. FramePut(FrameState(dest, escape, used, hr), byte)
        = [FrameState(dest, escape, used, hr) EXCEPT !.dest = longer]
  BY <1>1, Zenon DEF FramePut
<1>4. QED
  BY <1>2, <1>3

(* A step that unstuffs a byte without fault ends as what it then has is
   accepted. *)
LEMMA FrameStepFrom ==
  ASSUME NEW format, NEW dest, NEW escape, NEW used \in Nat, NEW byte,
         NEW more, NEW escaped,
         FrameUnstuff(format, FrameState(dest, escape, used, "more"), byte)
            = FrameState(more, escaped, used, "more")
  PROVE  FrameStep(format, FrameState(dest, escape, used, "more"), byte)
            = FrameState(more, escaped, used + 1, FrameAccept(format, more))
<1> DEFINE d == FrameState(dest, escape, used, "more")
           next == FrameState(more, escaped, used, "more")
<1>1. d.hr = "more" /\ d.used = used /\ next.hr = "more" /\ next.dest = more
  BY DEF FrameState
<1>2. FrameStep(format, d, byte) =
         [next EXCEPT !.used = used + 1, !.hr = FrameAccept(format, more)]
  <2>1. FrameUnstuff(format, d, byte) = next
    OBVIOUS
  <2> HIDE DEF d, next
  <2>2. QED
    BY <1>1, <2>1, Zenon DEF FrameStep
<1>3. [next EXCEPT !.used = used + 1, !.hr = FrameAccept(format, more)]
         = FrameState(more, escaped, used + 1, FrameAccept(format, more))
  <2> DEFINE n == used + 1
             hr == FrameAccept(format, more)
  <2>1. [FrameState(more, escaped, used, "more") EXCEPT !.used = n, !.hr = hr]
           = FrameState(more, escaped, n, hr)
    <3> DEFINE old == FrameState(more, escaped, used, "more")
    <3> HIDE DEF n, hr
    <3>1. [old EXCEPT !.used = n] = FrameState(more, escaped, n, "more")
      BY DEF FrameState
    <3>2. [FrameState(more, escaped, n, "more") EXCEPT !.hr = hr] = FrameState(more, escaped, n, hr)
      BY DEF FrameState
    <3>3. [old EXCEPT !.used = n, !.hr = hr] = [[old EXCEPT !.used = n] EXCEPT !.hr = hr]
      <4> HIDE DEF old
      <4>1. QED
        OBVIOUS
    <3>4. QED
      BY <3>1, <3>2, <3>3, Zenon
  <2>2. QED
    BY <2>1
<1>4. QED
  BY <1>2, <1>3

(* What a decoder of a stream makes of its first byte, of one that stands for
   itself, of an escape and of the byte behind it                          *)
LEMMA FrameSteps ==
  ASSUME NEW format \in FrameStreams, NEW dest \in Seq(FrameByte), NEW used \in Nat,
         NEW byte \in FrameByte, Len(dest) < FrameRoom
  PROVE  /\ used = 0 =>
               FrameStep(format, FrameState(dest, FALSE, 0, "more"), byte)
                  = FrameState(Append(dest, byte), FALSE, 1, FrameAccept(format, Append(dest, byte)))
         /\ used # 0 /\ byte = FrameEscapeOf(format) =>
               FrameStep(format, FrameState(dest, FALSE, used, "more"), byte)
                  = FrameState(dest, TRUE, used + 1, FrameAccept(format, dest))
         /\ used # 0 /\ byte \notin {FrameSyncOf(format), FrameEscapeOf(format)} =>
               /\ FrameStep(format, FrameState(dest, FALSE, used, "more"), byte)
                     = FrameState(Append(dest, byte), FALSE, used + 1,
                                  FrameAccept(format, Append(dest, byte)))
               /\ FrameStep(format, FrameState(dest, TRUE, used, "more"), byte)
                     = FrameState(Append(dest, FrameMod(byte + 1)), FALSE, used + 1,
                                  FrameAccept(format, Append(dest, FrameMod(byte + 1))))
<1>1. ~ (Len(dest) >= FrameRoom) /\ FrameSyncOf(format) # FrameEscapeOf(format)
  <2>1. Len(dest) \in Nat /\ FrameRoom \in Nat
    BY FrameBoundsAssumption
  <2>2. QED
    BY <2>1 DEF FrameSyncOf, FrameEscapeOf
<1> DEFINE d(e, u) == FrameState(dest, e, u, "more")
           yes == TRUE
           no == FALSE
           next == Append(dest, byte)
           last == Append(dest, FrameMod(byte + 1))
<1>8. yes = TRUE /\ no = FALSE
  OBVIOUS
<1> HIDE DEF yes, no
<1>2. \A e, u : d(e, u).dest = dest /\ d(e, u).escape = e /\ d(e, u).used = u
  BY DEF FrameState
<1>3. ASSUME used = 0
      PROVE  FrameStep(format, d(no, 0), byte)
                = FrameState(next, no, 1, FrameAccept(format, next))
  <2>1. FrameUnstuff(format, d(no, 0), byte) = FramePut(d(no, 0), byte)
    <3>1. d(no, 0).dest = dest /\ d(no, 0).used = 0
      BY <1>2, Zenon
    <3> HIDE DEF d
    <3>2. QED
      BY <1>1, <3>1 DEF FrameUnstuff
  <2>2. FrameUnstuff(format, d(no, 0), byte) = FrameState(next, no, 0, "more")
    BY <2>1, FrameStatePut
  <2>3. 0 \in Nat /\ 0 + 1 = 1
    OBVIOUS
  <2> HIDE DEF next
  <2>4. QED
    BY <2>2, <2>3, FrameStepFrom
<1>4. ASSUME used # 0, byte = FrameEscapeOf(format)
      PROVE  FrameStep(format, d(no, used), byte)
                = FrameState(dest, yes, used + 1, FrameAccept(format, dest))
  <2>1. FrameUnstuff(format, d(no, used), byte)
           = [d(no, used) EXCEPT !.hr = "more", !.escape = yes]
    <3>1. d(no, used).dest = dest /\ d(no, used).used = used /\ d(no, used).escape = no
      BY <1>2, Zenon
    <3> HIDE DEF d
    <3>2. QED
      BY <1>1, <1>4, <1>8, <3>1 DEF FrameUnstuff
  <2>2. [d(no, used) EXCEPT !.hr = "more", !.escape = yes] = d(yes, used)
    <3>1. [d(no, used) EXCEPT !.hr = "more"] = d(no, used)
      BY DEF FrameState
    <3>2. [d(no, used) EXCEPT !.escape = yes] = d(yes, used)
      BY DEF FrameState
    <3>3. [d(no, used) EXCEPT !.hr = "more", !.escape = yes]
             = [[d(no, used) EXCEPT !.hr = "more"] EXCEPT !.escape = yes]
      <4> HIDE DEF d
      <4>1. QED
        OBVIOUS
    <3> HIDE DEF d
    <3>4. QED
      BY <3>1, <3>2, <3>3
  <2>3. FrameUnstuff(format, d(no, used), byte) = d(yes, used)
    BY <2>1, <2>2
  <2>4. QED
    BY <2>3, FrameStepFrom
<1>5. ASSUME used # 0, byte # FrameSyncOf(format), byte # FrameEscapeOf(format)
      PROVE  FrameStep(format, d(no, used), byte)
                = FrameState(next, no, used + 1,
                             FrameAccept(format, next))
  <2>1. FrameUnstuff(format, d(no, used), byte) = FramePut(d(no, used), byte)
    <3>1. d(no, used).dest = dest /\ d(no, used).used = used /\ d(no, used).escape = no
      BY <1>2, Zenon
    <3> HIDE DEF d
    <3>2. QED
      BY <1>1, <1>5, <1>8, <3>1 DEF FrameUnstuff
  <2>2. FrameUnstuff(format, d(no, used), byte)
           = FrameState(next, no, used, "more")
    BY <2>1, FrameStatePut
  <2> HIDE DEF next, last
  <2>3. QED
    BY <2>2, FrameStepFrom
<1>6. ASSUME used # 0, byte # FrameSyncOf(format), byte # FrameEscapeOf(format)
      PROVE  FrameStep(format, d(yes, used), byte)
                = FrameState(last, no, used + 1,
                             FrameAccept(format, last))
  <2>1. FrameUnstuff(format, d(yes, used), byte) = FrameUnescaped(d(yes, used), byte)
    <3>1. d(yes, used).dest = dest /\ d(yes, used).used = used /\ d(yes, used).escape = yes
      BY <1>2
    <3> HIDE DEF d
    <3>2. QED
      BY <1>1, <1>6, <1>8, <3>1 DEF FrameUnstuff
  <2>2. FrameUnstuff(format, d(yes, used), byte)
           = FrameState(last, no, used, "more")
    <3> DEFINE m == FrameMod(byte + 1)
    <3>1. FramePut(d(yes, used), m) = FrameState(last, yes, used, "more")
      <4>1. last = Append(dest, m)
        OBVIOUS
      <4> HIDE DEF m, last
      <4>2. QED
        BY <4>1, FrameStatePut
    <3>2. FrameUnescaped(d(yes, used), byte) = [FramePut(d(yes, used), m) EXCEPT !.escape = no]
      <4> HIDE DEF d
      <4>1. QED
        BY <1>8 DEF FrameUnescaped
    <3> HIDE DEF last
    <3>3. [FrameState(last, yes, used, "more") EXCEPT !.escape = no]
             = FrameState(last, no, used, "more")
      BY DEF FrameState
    <3> HIDE DEF d, m
    <3>4. QED
      BY <2>1, <3>1, <3>2, <3>3
  <2> HIDE DEF next, last
  <2>3. QED
    BY <2>2, FrameStepFrom
<1>7. QED
  BY <1>3, <1>4, <1>5, <1>6, <1>8 DEF next, last

(* A decoder that has an outcome stays with it. *)
LEMMA FrameStays ==
  ASSUME NEW format \in FrameStreams, NEW bytes \in Seq(FrameByte), NEW run,
         FrameDecodes(format, bytes, run)
  PROVE  \A k \in 0 .. Len(bytes) : \A j \in 0 .. k : run[j].hr # "more" => run[k] = run[j]
<1> DEFINE n == Len(bytes)
           S == {k \in 0 .. n : \A j \in 0 .. k : run[j].hr # "more" => run[k] = run[j]}
<1>1. n \in Nat
  OBVIOUS
<1>2. 0 \in S
  BY <1>1
<1>3. ASSUME NEW k \in 0 .. n - 1, k \in S PROVE k + 1 \in S
  <2>1. k + 1 \in 1 .. n /\ (k + 1) - 1 = k /\ k + 1 \in 0 .. n /\ k \in Nat
    BY <1>1
  <2>2. run[k + 1] = FrameStep(format, run[k], bytes[k + 1])
    BY <2>1 DEF FrameDecodes
  <2>3. run[k].hr # "more" => run[k + 1] = run[k]
    BY <2>2 DEF FrameStep
  <2>4. \A j \in 0 .. k + 1 : j = k + 1 \/ j \in 0 .. k
    BY <2>1
  <2>5. QED
    BY <1>3, <2>1, <2>3, <2>4
<1> HIDE DEF S, n
<1>4. \A k \in 0 .. n : k \in S
  BY <1>1, <1>2, <1>3, FrameInductionUpTo
<1>5. QED
  BY <1>4 DEF S, n

(* Only the whole frame is accepted. *)
FrameVerdict(whole, i) == IF i = Len(whole) THEN "ok" ELSE "more"

(* A frame with its checksum that a board accepts when it has all of it, and not
   before                                                                  *)
FrameSpelled(format, whole) ==
    /\ whole \in Seq(FrameByte) /\ 2 <= Len(whole) /\ Len(whole) <= FrameRoom
    /\ whole[1] = FrameSyncOf(format)
    /\ \A i \in 1 .. Len(whole) :
          FrameAccept(format, SubSeq(whole, 1, i)) = FrameVerdict(whole, i)

(* After the i-th byte behind the sync byte, a decoder has the frame so
   far. *)
FrameDecodedTo(whole, at, run, i) ==
    /\ run[at[i]] = FrameState(SubSeq(whole, 1, i + 1), FALSE, at[i], FrameVerdict(whole, i + 1))
    /\ run[at[i] - 1].hr = "more"

(* The sync bytes and escapes of the formats are such. *)
LEMMA FrameSyncsOf ==
  ASSUME NEW format
  PROVE  FrameSyncs(FrameSyncOf(format), FrameEscapeOf(format))
BY DEF FrameSyncs, FrameSyncOf, FrameEscapeOf

(* A longer beginning has one byte more. *)
LEMMA FrameLongerPart ==
  ASSUME NEW whole \in Seq(FrameByte), NEW i \in 1 .. Len(whole) - 1
  PROVE  /\ SubSeq(whole, 1, i) \in Seq(FrameByte) /\ Len(SubSeq(whole, 1, i)) = i
         /\ SubSeq(whole, 1, i + 1) = Append(SubSeq(whole, 1, i), whole[i + 1])
<1>1. SubSeq(whole, 1, i) \in Seq(FrameByte) /\ Len(SubSeq(whole, 1, i)) = i
  BY SubSeqProperties
<1>2. QED
  BY <1>1

(* The sync byte is the frame's first. *)
LEMMA FrameDecodedFirst ==
  ASSUME NEW format \in FrameStreams, NEW whole, FrameSpelled(format, whole), NEW at, NEW line,
         FrameStuffing(FrameSyncOf(format), FrameEscapeOf(format), Tail(whole), at, line),
         NEW run, FrameDecodes(format, line, run)
  PROVE  FrameDecodedTo(whole, at, run, 0)
<1> DEFINE sync == FrameSyncOf(format)
<1>1. /\ at[0] = 1 /\ line[1] = sync /\ Len(line) \in Nat /\ 1 <= Len(line) /\ sync \in FrameByte
  <2>1. 0 \in 0 .. Len(Tail(whole))
    BY DEF FrameSpelled
  <2>2. QED
    BY <2>1 DEF FrameStuffing, FrameByte, FrameSyncOf
<1>2. run[0] = FrameState(<<>>, FALSE, 0, "more") /\ run[0].hr = "more"
  BY DEF FrameDecodes, FrameState, FrameFresh
<1>3. run[1] = FrameStep(format, run[0], sync)
  <2>1. 1 \in 1 .. Len(line) /\ 1 - 1 = 0
    BY <1>1
  <2>2. QED
    BY <1>1, <2>1 DEF FrameDecodes
<1>4. SubSeq(whole, 1, 1) = <<sync>> /\ Append(<<>>, sync) = <<sync>>
  <2>1. whole \in Seq(FrameByte) /\ 2 <= Len(whole) /\ whole[1] = sync
    BY DEF FrameSpelled
  <2> HIDE DEF sync
  <2> DEFINE first == SubSeq(whole, 1, 1)
  <2>2. first \in Seq(FrameByte) /\ Len(first) = 1 /\ first[1] = sync
    BY <2>1
  <2> HIDE DEF first
  <2>3. first = <<sync>>
    BY <2>2
  <2>4. QED
    BY <2>3 DEF first
<1>5. FrameAccept(format, <<sync>>) = FrameVerdict(whole, 1)
  <2>1. 1 \in 1 .. Len(whole)
    BY DEF FrameSpelled
  <2>2. QED
    BY <1>4, <2>1 DEF FrameSpelled
<1>6. run[1] = FrameState(<<sync>>, FALSE, 1, FrameVerdict(whole, 1))
  <2>1. <<>> \in Seq(FrameByte) /\ Len(<<>>) < FrameRoom /\ 0 \in Nat
    <3>1. whole \in Seq(FrameByte) /\ 2 <= Len(whole) /\ Len(whole) <= FrameRoom
      BY DEF FrameSpelled
    <3>2. QED
      BY <3>1, FrameBoundsAssumption
  <2> HIDE DEF sync
  <2>2. FrameStep(format, FrameState(<<>>, FALSE, 0, "more"), sync)
           = FrameState(Append(<<>>, sync), FALSE, 1, FrameAccept(format, Append(<<>>, sync)))
    BY <1>1, <2>1, FrameSteps
  <2>3. QED
    BY <1>2, <1>3, <1>4, <1>5, <2>2
<1>7. 0 + 1 = 1 /\ 1 - 1 = 0
  OBVIOUS
<1> HIDE DEF sync
<1>8. QED
  BY <1>1, <1>2, <1>4, <1>6, <1>7, Zenon DEF FrameDecodedTo

(* Each byte of the frame, one or two on the line, is decoded behind
   those before it. *)
LEMMA FrameDecodedNext ==
  ASSUME NEW format \in FrameStreams, NEW whole, FrameSpelled(format, whole), NEW at, NEW line,
         FrameStuffing(FrameSyncOf(format), FrameEscapeOf(format), Tail(whole), at, line),
         NEW run, FrameDecodes(format, line, run),
         NEW i \in 0 .. Len(whole) - 2, FrameDecodedTo(whole, at, run, i)
  PROVE  FrameDecodedTo(whole, at, run, i + 1)
<1> DEFINE sync == FrameSyncOf(format)
           escape == FrameEscapeOf(format)
           byte == whole[i + 2]
           dest == SubSeq(whole, 1, i + 1)
           u == at[i]
           v == at[i + 1]
<1>1. /\ whole \in Seq(FrameByte) /\ Len(whole) \in Nat /\ 2 <= Len(whole) /\ Len(whole) <= FrameRoom
      /\ i \in Nat /\ i + 1 \in 1 .. Len(whole) - 1 /\ i + 2 \in 1 .. Len(whole)
      /\ i + 1 \in 1 .. Len(whole)
  BY DEF FrameSpelled
<1>2. Len(Tail(whole)) = Len(whole) - 1 /\ \A k \in 1 .. Len(whole) - 1 : Tail(whole)[k] = whole[k + 1]
  BY <1>1
<1>3. /\ u \in Nat /\ v \in Nat /\ 1 <= u /\ v <= Len(line) /\ Len(line) \in Nat
      /\ FrameOnLine(sync, escape, byte, u, v, line)
  <2>1. i \in 0 .. Len(Tail(whole)) /\ i + 1 \in 0 .. Len(Tail(whole)) /\ i + 1 \in 1 .. Len(Tail(whole))
        /\ i + 1 - 1 = i /\ i + 1 + 1 = i + 2
    BY <1>1, <1>2
  <2>2. Tail(whole)[i + 1] = byte
    BY <1>1, <1>2, <2>1
  <2>3. u \in Nat /\ v \in Nat /\ 1 <= u /\ v <= Len(line) /\ Len(line) \in Nat
    <3>1. /\ at \in [0 .. Len(Tail(whole)) -> Nat] /\ line \in Seq(FrameByte)
          /\ \A k \in 0 .. Len(Tail(whole)) : 1 <= at[k] /\ at[k] <= Len(line)
      BY DEF FrameStuffing
    <3>2. QED
      BY <2>1, <3>1
  <2>4. FrameOnLine(sync, escape, Tail(whole)[i + 1], at[i + 1 - 1], v, line)
    BY <2>1 DEF FrameStuffing
  <2>5. QED
    BY <2>1, <2>2, <2>3, <2>4
<1>4. /\ byte \in FrameByte /\ dest \in Seq(FrameByte) /\ Len(dest) = i + 1
      /\ SubSeq(whole, 1, i + 2) = Append(dest, byte)
  <2>1. byte \in FrameByte
    BY <1>1
  <2>2. i + 1 + 1 = i + 2
    BY <1>1
  <2>3. QED
    BY <1>1, <2>1, <2>2, FrameLongerPart
<1>5. Len(dest) < FrameRoom /\ FrameRoom \in Nat
  BY <1>1, <1>4, FrameBoundsAssumption
<1>6. FrameAccept(format, dest) = "more" /\ FrameAccept(format, Append(dest, byte)) = FrameVerdict(whole, i + 2)
  <2>1. FrameVerdict(whole, i + 1) = "more"
    BY <1>1 DEF FrameVerdict
  <2>2. QED
    BY <1>1, <1>4, <2>1 DEF FrameSpelled
<1>7. run[u] = FrameState(dest, FALSE, u, "more")
  <2>1. FrameVerdict(whole, i + 1) = "more"
    BY <1>1 DEF FrameVerdict
  <2>2. QED
    BY <2>1, Zenon DEF FrameDecodedTo
<1>8. \A k \in 1 .. Len(line) : run[k] = FrameStep(format, run[k - 1], line[k])
  BY DEF FrameDecodes
<1>9. i + 1 + 1 = i + 2
  BY <1>1
<1> DEFINE goal == FrameState(Append(dest, byte), FALSE, v, FrameVerdict(whole, i + 2))
<1>10. run[u].hr = "more"
  BY <1>7 DEF FrameState
<1>11. FrameSyncs(sync, escape)
  BY FrameSyncsOf
<1> SUFFICES run[v] = goal /\ run[v - 1].hr = "more"
  BY <1>4, <1>9 DEF FrameDecodedTo
<1> HIDE DEF sync, escape, byte, dest, u, v, goal
<1>12. CASE byte \notin {sync, escape}
  <2>1. v = u + 1 /\ line[v] = byte /\ v \in 1 .. Len(line) /\ v - 1 = u
    BY <1>3, <1>12 DEF FrameOnLine
  <2>2. run[v] = FrameStep(format, FrameState(dest, FALSE, u, "more"), byte)
    BY <1>7, <1>8, <2>1
  <2>3. FrameStep(format, FrameState(dest, FALSE, u, "more"), byte)
           = FrameState(Append(dest, byte), FALSE, u + 1, FrameAccept(format, Append(dest, byte)))
    <3>1. u # 0
      BY <1>3
    <3>2. QED
      BY <1>3, <1>4, <1>5, <1>12, <3>1, FrameSteps DEF sync, escape
  <2>4. QED
    <3>1. run[v] = goal
      BY <1>6, <2>1, <2>2, <2>3 DEF goal
    <3>2. QED
      BY <1>10, <2>1, <3>1
<1>13. CASE byte \in {sync, escape}
  <2>1. /\ v = u + 2 /\ line[u + 1] = escape /\ line[v] = byte - 1
        /\ v \in 1 .. Len(line) /\ u + 1 \in 1 .. Len(line) /\ v - 1 = u + 1 /\ u + 1 - 1 = u
    BY <1>3, <1>13 DEF FrameOnLine
  <2>2. escape \in FrameByte /\ byte - 1 \in FrameByte /\ byte - 1 \notin {sync, escape}
    BY <1>11, <1>13 DEF FrameSyncs, FrameByte
  <2>3. u # 0 /\ u + 1 # 0 /\ u + 1 \in Nat /\ u + 1 + 1 = v
    BY <1>3, <2>1
  <2>4. run[u + 1] = FrameState(dest, TRUE, u + 1, "more")
    <3>1. run[u + 1] = FrameStep(format, FrameState(dest, FALSE, u, "more"), escape)
      <4> DEFINE w == u + 1
      <4>0. w \in 1 .. Len(line) /\ line[w] = escape
        BY <2>1, Zenon
      <4>1. w \in 1 .. Len(line) /\ w - 1 = u /\ line[w] = escape
        <5>1. w - 1 = u
          BY <1>3
        <5>2. QED
          BY <4>0, <5>1
      <4> HIDE DEF w
      <4>2. run[w] = FrameStep(format, run[w - 1], line[w])
        BY <1>8, <4>1
      <4>3. run[w] = FrameStep(format, FrameState(dest, FALSE, u, "more"), escape)
        BY <1>7, <4>1, <4>2, Zenon
      <4>4. QED
        BY <4>3 DEF w
    <3>2. FrameStep(format, FrameState(dest, FALSE, u, "more"), escape)
             = FrameState(dest, TRUE, u + 1, FrameAccept(format, dest))
      BY <1>3, <1>4, <1>5, <2>2, <2>3, FrameSteps DEF escape
    <3>3. QED
      BY <1>6, <3>1, <3>2
  <2>5. run[v] = FrameStep(format, FrameState(dest, TRUE, u + 1, "more"), byte - 1)
    BY <1>8, <2>1, <2>4
  <2>6. FrameMod(byte - 1 + 1) = byte
    <3>1. byte \in 0 .. 255
      BY <1>4 DEF FrameByte
    <3>2. QED
      BY <3>1 DEF FrameMod
  <2> DEFINE below == byte - 1
             w == u + 1
  <2>7. FrameStep(format, FrameState(dest, TRUE, w, "more"), below)
           = FrameState(Append(dest, FrameMod(below + 1)), FALSE, w + 1,
                        FrameAccept(format, Append(dest, FrameMod(below + 1))))
    <3>1. below \in FrameByte /\ below # sync /\ below # escape /\ w \in Nat /\ w # 0
      BY <2>2, <2>3
    <3> HIDE DEF below, w
    <3>2. QED
      BY <1>4, <1>5, <3>1, FrameSteps DEF sync, escape
  <2>8. run[v] = goal
    BY <1>6, <2>3, <2>5, <2>6, <2>7 DEF goal
  <2>9. QED
    <3>1. run[u + 1].hr = "more"
      BY <2>4 DEF FrameState
    <3>2. QED
      BY <2>1, <2>8, <3>1
<1>14. QED
  BY <1>12, <1>13

(* A run ends with the frame, and has no outcome before. *)
FrameRead(whole, line, run) ==
    /\ run[Len(line)] = FrameState(whole, FALSE, Len(line), "ok")
    /\ \A j \in 0 .. Len(line) - 1 : run[j].hr = "more"

(* The line of a frame is decoded to that frame, with its last byte. *)
LEMMA FrameDecodesLine ==
  ASSUME NEW format \in FrameStreams, NEW whole, FrameSpelled(format, whole), NEW at, NEW line,
         FrameStuffing(FrameSyncOf(format), FrameEscapeOf(format), Tail(whole), at, line),
         NEW run, FrameDecodes(format, line, run)
  PROVE  FrameRead(whole, line, run)
<1> DEFINE n == Len(whole) - 1
           S == {i \in 0 .. n : FrameDecodedTo(whole, at, run, i)}
<1>1. n \in Nat /\ 1 <= n /\ whole \in Seq(FrameByte)
  BY DEF FrameSpelled
<1>2. 0 \in S
  BY <1>1, FrameDecodedFirst
<1>3. \A i \in 0 .. n - 1 : i \in S => i + 1 \in S
  <2>1. \A i \in 0 .. n - 1 : i \in 0 .. n /\ i + 1 \in 0 .. n /\ i \in 0 .. Len(whole) - 2
    BY <1>1
  <2>2. QED
    BY <2>1, FrameDecodedNext
<1>4. n \in S
  <2> HIDE DEF S, n
  <2>1. \A i \in 0 .. n : i \in S
    BY <1>1, <1>2, <1>3, FrameInductionUpTo
  <2>2. QED
    BY <1>1, <2>1
<1>5. FrameDecodedTo(whole, at, run, n) /\ n + 1 = Len(whole)
  BY <1>1, <1>4
<1>6. at[n] = Len(line) /\ Len(line) \in Nat /\ 1 <= Len(line) /\ line \in Seq(FrameByte)
  <2>1. Len(Tail(whole)) = n
    BY <1>1
  <2>2. QED
    BY <1>1, <2>1 DEF FrameStuffing
<1>7. SubSeq(whole, 1, Len(whole)) = whole /\ FrameVerdict(whole, Len(whole)) = "ok"
  BY <1>1 DEF FrameVerdict
<1> HIDE DEF n, S
<1>8. run[Len(line)] = FrameState(whole, FALSE, Len(line), "ok") /\ run[Len(line) - 1].hr = "more"
  BY <1>5, <1>6, <1>7 DEF FrameDecodedTo
<1>9. ASSUME NEW j \in 0 .. Len(line) - 1 PROVE run[j].hr = "more"
  <2>1. Len(line) - 1 \in 0 .. Len(line) /\ j \in 0 .. Len(line) - 1
    BY <1>6
  <2>2. run[j].hr # "more" => run[Len(line) - 1] = run[j]
    BY <1>6, <2>1, FrameStays
  <2>3. QED
    BY <1>8, <2>2
<1>10. QED
  BY <1>8, <1>9 DEF FrameRead

(* A decoder's outcome is one of its states, and no bytes have none. *)
LEMMA FrameDecodedType ==
  ASSUME NEW format \in FrameStreams, NEW bytes \in Seq(FrameByte)
  PROVE  /\ FrameDecoded(format, bytes) \in FrameDecoders
         /\ Len(bytes) = 0 => FrameDecoded(format, bytes).hr = "more"
<1>1. PICK run \in [0 .. Len(bytes) -> FrameDecoders] :
         FrameDecodes(format, bytes, run) /\ FrameDecoded(format, bytes) = run[Len(bytes)]
  BY FrameDecodedRuns
<1>2. Len(bytes) \in 0 .. Len(bytes)
  OBVIOUS
<1>3. run[0].hr = "more"
  BY <1>1 DEF FrameDecodes, FrameFresh
<1>4. QED
  BY <1>1, <1>2, <1>3

(* What a decoder of a stream makes of some bytes that begin as a line does *)
FrameDecodedAs(format, bytes, whole, line) ==
    IF Len(bytes) < Len(line) THEN FrameDecoded(format, bytes).hr = "more"
    ELSE FrameDecoded(format, bytes) = FrameState(whole, FALSE, Len(line), "ok")

(* Bytes that begin as a frame's line does are decoded as far as they go. *)
LEMMA FrameDecodedLine ==
  ASSUME NEW format \in FrameStreams, NEW whole, FrameSpelled(format, whole), NEW at, NEW line,
         FrameStuffing(FrameSyncOf(format), FrameEscapeOf(format), Tail(whole), at, line),
         NEW bytes \in Seq(FrameByte),
         \A j \in 1 .. Len(bytes) : j <= Len(line) => bytes[j] = line[j]
  PROVE  FrameDecodedAs(format, bytes, whole, line)
<1> DEFINE n == Len(line)
           k == Len(bytes)
<1>1. line \in Seq(FrameByte) /\ n \in Nat /\ k \in Nat
  BY DEF FrameStuffing
<1>2. PICK run \in [0 .. Len(line) -> FrameDecoders] : FrameDecodes(format, line, run)
  BY <1>1, FrameDecodedRuns
<1>3. PICK dec \in [0 .. Len(bytes) -> FrameDecoders] :
         FrameDecodes(format, bytes, dec) /\ FrameDecoded(format, bytes) = dec[Len(bytes)]
  BY FrameDecodedRuns
<1>4. run[n] = FrameState(whole, FALSE, n, "ok") /\ \A j \in 0 .. n - 1 : run[j].hr = "more"
  <2>1. FrameRead(whole, line, run)
    BY <1>2, FrameDecodesLine
  <2>2. QED
    BY <2>1 DEF FrameRead
<1>5. /\ run[0] = FrameFresh /\ \A i \in 1 .. n : run[i] = FrameStep(format, run[i - 1], line[i])
      /\ dec[0] = FrameFresh /\ \A i \in 1 .. k : dec[i] = FrameStep(format, dec[i - 1], bytes[i])
  BY <1>2, <1>3 DEF FrameDecodes
<1>6. \A i \in 1 .. k : i <= n => bytes[i] = line[i]
  OBVIOUS
<1>7. \A j \in 0 .. k : dec[j].hr # "more" => dec[k] = dec[j]
  <2>1. \A m \in 0 .. Len(bytes) : \A j \in 0 .. m : dec[j].hr # "more" => dec[m] = dec[j]
    BY <1>3, FrameStays
  <2>2. Len(bytes) \in 0 .. Len(bytes)
    BY <1>1
  <2>3. QED
    BY <2>1, <2>2
<1> HIDE DEF n, k
<1>8. ASSUME NEW m \in Nat, m <= n, m <= k PROVE dec[m] = run[m]
  <2>1. \A i \in 1 .. m : i \in 1 .. n /\ i \in 1 .. k /\ i <= n
    BY <1>1, <1>8
  <2>2. \A i \in 1 .. m : dec[i - 1] = run[i - 1] => dec[i] = run[i]
    BY <1>5, <1>6, <2>1
  <2>3. dec[0] = run[0]
    BY <1>5
  <2>4. FrameSame(m, dec, run)
    BY <2>2, <2>3, FrameRunsAgree
  <2>5. QED
    BY <2>4 DEF FrameSame
<1>9. CASE k < n
  <2>1. dec[k] = run[k] /\ k \in 0 .. n - 1
    BY <1>1, <1>8, <1>9
  <2>2. QED
    BY <1>3, <1>4, <1>9, <2>1 DEF k, n, FrameDecodedAs
<1>10. CASE ~(k < n)
  <2>1. dec[n] = run[n] /\ n \in 0 .. k
    BY <1>1, <1>8, <1>10
  <2>2. run[n].hr # "more"
    <3>1. FrameState(whole, FALSE, n, "ok").hr = "ok"
      BY DEF FrameState
    <3>2. QED
      BY <1>4, <3>1
  <2>3. dec[k] = FrameState(whole, FALSE, n, "ok")
    BY <1>4, <1>7, <2>1, <2>2
  <2>4. QED
    BY <1>3, <1>10, <2>3 DEF k, n, FrameDecodedAs
<1>11. QED
  BY <1>9, <1>10

(* A frame with its checksum, put together from a header and a payload *)
FrameMade(head, payload, checksum, frame, whole) ==
    /\ frame \in Seq(FrameByte) /\ Len(frame) = Len(head) + Len(payload)
    /\ whole \in Seq(FrameByte) /\ Len(whole) = Len(frame) + 1
    /\ Tail(frame) \in Seq(FrameByte) /\ Tail(whole) = Append(Tail(frame), checksum)
    /\ \A i \in 1 .. Len(head) : whole[i] = head[i]
    /\ whole[Len(whole)] = checksum
    /\ FrameFront(whole) = frame
    /\ SubSeq(whole, 2, Len(whole) - 1) = Tail(frame)
    /\ SubSeq(whole, 1, Len(whole)) = whole

(* A header, a payload and a checksum make a frame. *)
LEMMA FramePutTogether ==
  ASSUME NEW head \in Seq(FrameByte), 1 <= Len(head), NEW payload \in Seq(FrameByte),
         NEW checksum \in FrameByte
  PROVE  FrameMade(head, payload, checksum, head \o payload, Append(head \o payload, checksum))
<1> DEFINE frame == head \o payload
           whole == Append(frame, checksum)
           n == Len(frame)
<1>1. /\ frame \in Seq(FrameByte) /\ Len(frame) = Len(head) + Len(payload)
      /\ \A i \in 1 .. Len(head) : frame[i] = head[i]
      /\ Len(head) \in Nat /\ Len(payload) \in Nat /\ n \in Nat /\ 1 <= n /\ Len(head) <= n
  BY ConcatProperties
<1> HIDE DEF frame
<1>2. whole \in Seq(FrameByte) /\ Len(whole) = n + 1 /\ whole[n + 1] = checksum
      /\ \A i \in 1 .. n : whole[i] = frame[i]
  BY <1>1
<1>3. Tail(frame) \in Seq(FrameByte) /\ Len(Tail(frame)) = n - 1
      /\ \A i \in 1 .. n - 1 : Tail(frame)[i] = frame[i + 1]
  BY <1>1
<1>4. Tail(whole) \in Seq(FrameByte) /\ Len(Tail(whole)) = n
      /\ \A i \in 1 .. n : Tail(whole)[i] = whole[i + 1]
  BY <1>1, <1>2
<1> DEFINE more == Append(Tail(frame), checksum)
<1>5. more \in Seq(FrameByte) /\ Len(more) = n /\ more[n] = checksum
      /\ \A i \in 1 .. n - 1 : more[i] = frame[i + 1]
  BY <1>1, <1>3
<1> HIDE DEF whole, more
<1>6. Tail(whole) = more
  <2>1. ASSUME NEW i \in 1 .. n PROVE Tail(whole)[i] = more[i]
    <3>1. CASE i = n
      BY <1>1, <1>2, <1>4, <1>5, <3>1
    <3>2. CASE i \in 1 .. n - 1
      <4>1. i + 1 \in 1 .. n
        BY <1>1, <3>2
      <4>2. QED
        BY <1>2, <1>4, <1>5, <3>2, <4>1
    <3>3. i = n \/ i \in 1 .. n - 1
      BY <1>1
    <3>4. QED
      BY <3>1, <3>2, <3>3
  <2> HIDE DEF n
  <2>2. QED
    BY <1>4, <1>5, <2>1
<1>7. FrameFront(whole) = frame
  <2> DEFINE front == SubSeq(whole, 1, n)
  <2>1. front \in Seq(FrameByte) /\ Len(front) = n /\ \A i \in 1 .. n : front[i] = whole[i]
    BY <1>1, <1>2
  <2>2. Len(whole) - 1 = n
    BY <1>1, <1>2
  <2> HIDE DEF front, n
  <2>3. Len(frame) = n
    BY DEF n
  <2>4. front = frame
    <3>1. /\ front \in Seq(FrameByte) /\ frame \in Seq(FrameByte) /\ Len(front) = Len(frame)
          /\ \A i \in 1 .. Len(front) : front[i] = frame[i]
      BY <1>1, <1>2, <2>1, <2>3
    <3>2. QED
      BY ONLY <3>1, SeqEqual
  <2>5. QED
    BY <2>2, <2>4 DEF FrameFront, front
<1>8. SubSeq(whole, 2, Len(whole) - 1) = Tail(frame)
  <2> DEFINE middle == SubSeq(whole, 2, n)
  <2>1. Len(whole) - 1 = n
    BY <1>1, <1>2
  <2>2. middle \in Seq(FrameByte) /\ Len(middle) = n - 1
        /\ \A i \in 1 .. n - 1 : middle[i] = whole[i + 1]
    BY <1>1, <1>2
  <2>3. \A i \in 1 .. n - 1 : i + 1 \in 1 .. n
    BY <1>1
  <2>4. \A i \in 1 .. n - 1 : middle[i] = Tail(frame)[i]
    BY <1>2, <1>3, <2>2, <2>3
  <2> HIDE DEF middle, n
  <2>5. middle = Tail(frame)
    BY <1>3, <2>2, <2>4
  <2>6. QED
    BY <2>1, <2>5 DEF middle
<1>9. SubSeq(whole, 1, Len(whole)) = whole
  BY <1>2
<1>10. \A i \in 1 .. Len(head) : whole[i] = head[i]
  BY <1>1, <1>2
<1>11. FrameMade(head, payload, checksum, frame, whole)
  BY <1>1, <1>2, <1>3, <1>6, <1>7, <1>8, <1>9, <1>10 DEF FrameMade, more
<1>12. QED
  BY <1>11 DEF frame, whole

(* The length field tells the whole frame from its beginnings. *)
LEMMA FrameLengthField ==
  ASSUME NEW whole \in Seq(FrameByte), NEW field \in 1 .. Len(whole), NEW rest \in Nat,
         whole[field] + rest = Len(whole), NEW i \in 1 .. Len(whole)
  PROVE  FrameComplete(SubSeq(whole, 1, i), field, rest) <=> i = Len(whole)
<1> DEFINE d == SubSeq(whole, 1, i)
<1>1. Len(d) = i /\ \A j \in 1 .. i : d[j] = whole[j]
  OBVIOUS
<1>2. field <= i => d[field] = whole[field]
  BY <1>1
<1> HIDE DEF d
<1>3. FrameComplete(d, field, rest) <=> i = Len(whole)
  BY <1>1, <1>2 DEF FrameComplete
<1>4. QED
  BY <1>3 DEF d

(* slider_frame_encode's checksum makes the sum of the frame zero. *)
LEMMA FrameSumZero ==
  ASSUME NEW frame \in Seq(FrameByte)
  PROVE  /\ FrameMod(256 - FrameSum(frame)) \in FrameByte
         /\ FrameSum(Append(frame, FrameMod(256 - FrameSum(frame)))) = 0
<1> DEFINE s == FrameSum(frame)
           c == FrameMod(256 - s)
<1>1. s \in 0 .. 255
  BY FrameSumOf DEF FrameByte
<1>2. \A byte \in FrameByte : FrameSum(Append(frame, byte)) = FrameMod(s + byte)
  BY FrameSumOf
<1> HIDE DEF s
<1>3. c \in FrameByte /\ FrameMod(s + c) = 0
  BY <1>1 DEF FrameMod, FrameByte
<1> HIDE DEF c
<1>4. FrameSum(Append(frame, c)) = 0
  BY <1>2, <1>3
<1>5. QED
  BY <1>3, <1>4 DEF c, s

(* The frames of the three streams *)
LEMMA FrameSpelledOf ==
  ASSUME NEW format \in FrameStreams, NEW head \in Seq(FrameByte), NEW payload \in Seq(FrameByte),
         NEW checksum \in FrameByte, NEW frame, NEW whole,
         FrameMade(head, payload, checksum, frame, whole),
         Len(head) = IF format = "led" THEN 4 ELSE 3, head[1] = FrameSyncOf(format),
         head[Len(head)] = Len(payload), Len(payload) + 5 <= FrameRoom,
         IF format = "slider" THEN FrameSum(whole) = 0 ELSE checksum = FrameSum(Tail(frame))
  PROVE  FrameSpelled(format, whole)
<1> DEFINE field == Len(head)
<1>1. /\ whole \in Seq(FrameByte) /\ Len(whole) = Len(head) + Len(payload) + 1
      /\ whole[1] = FrameSyncOf(format) /\ whole[field] = Len(payload)
      /\ Len(head) \in 3 .. 4 /\ Len(payload) \in Nat /\ field \in 1 .. Len(whole)
  <2>1. Len(head) \in 3 .. 4 /\ Len(payload) \in Nat
    OBVIOUS
  <2>2. 1 \in 1 .. Len(head) /\ Len(head) \in 1 .. Len(head)
    BY <2>1
  <2>3. whole[1] = head[1] /\ whole[Len(head)] = head[Len(head)]
    BY <2>2 DEF FrameMade
  <2>4. whole \in Seq(FrameByte) /\ Len(whole) = Len(head) + Len(payload) + 1
    BY DEF FrameMade
  <2>5. QED
    BY <2>1, <2>3, <2>4
<1>2. 2 <= Len(whole) /\ Len(whole) <= FrameRoom
  BY <1>1, FrameBoundsAssumption
<1>3. ASSUME NEW i \in 1 .. Len(whole)
      PROVE  FrameAccept(format, SubSeq(whole, 1, i)) = FrameVerdict(whole, i)
  <2> DEFINE d == SubSeq(whole, 1, i)
  <2>1. field + 1 \in Nat /\ whole[field] + (field + 1) = Len(whole)
    BY <1>1
  <2>2. FrameComplete(d, field, field + 1) <=> i = Len(whole)
    <3> DEFINE rest == field + 1
    <3>1. rest \in Nat /\ whole[field] + rest = Len(whole) /\ field \in 1 .. Len(whole)
      BY <1>1, <2>1
    <3> HIDE DEF rest, field
    <3>2. FrameComplete(SubSeq(whole, 1, i), field, rest) <=> i = Len(whole)
      BY <1>1, <3>1, FrameLengthField
    <3>3. QED
      BY <3>2 DEF rest
  <2>3. i = Len(whole) => d = whole
    BY DEF FrameMade
  <2> SUFFICES FrameAccept(format, d) = FrameVerdict(whole, i)
    OBVIOUS
  <2>4. CASE format = "slider"
    <3>1. field = 3 /\ field + 1 = 4 /\ FrameSum(whole) = 0
      BY <2>4
    <3>2. FrameAccept(format, d) = SliderFrameAccept(d)
      BY <2>4 DEF FrameAccept
    <3> HIDE DEF d, field
    <3>3. FrameComplete(d, 3, 4) <=> i = Len(whole)
      BY <2>2, <3>1, Zenon
    <3>4. QED
      BY <2>3, <3>1, <3>2, <3>3 DEF SliderFrameAccept, FrameVerdict
  <2>5. CASE format # "slider"
    <3>1. FrameSum(SubSeq(whole, 2, Len(whole) - 1)) = whole[Len(whole)]
      BY <2>5 DEF FrameMade
    <3>2. FrameSummed(whole, 2) = "ok"
      BY <3>1 DEF FrameSummed
    <3>3. \/ format = "led" /\ field = 4 /\ field + 1 = 5
          \/ format = "rfid" /\ field = 3 /\ field + 1 = 4
      BY <2>5 DEF FrameStreams
    <3>4. FrameAccept(format, d) = IF format = "led" THEN Led1509306FrameAccept(d)
                                   ELSE RfidFrameAccept(d)
      BY <3>3 DEF FrameAccept
    <3> HIDE DEF d, field
    <3>5. CASE format = "led"
      <4>1. field = 4 /\ field + 1 = 5
        BY <3>3, <3>5
      <4>2. FrameComplete(d, 4, 5) <=> i = Len(whole)
        BY <2>2, <4>1, Zenon
      <4>3. QED
        BY <2>3, <3>2, <3>4, <3>5, <4>2 DEF Led1509306FrameAccept, FrameVerdict
    <3>6. CASE format = "rfid"
      <4>1. field = 3 /\ field + 1 = 4
        BY <3>3, <3>6
      <4>2. FrameComplete(d, 3, 4) <=> i = Len(whole)
        BY <2>2, <4>1, Zenon
      <4>3. QED
        BY <2>3, <3>2, <3>4, <3>6, <4>2 DEF RfidFrameAccept, FrameVerdict
    <3>7. QED
      BY <3>3, <3>5, <3>6
  <2>6. QED
    BY <2>4, <2>5
<1>4. QED
  BY <1>1, <1>2, <1>3 DEF FrameSpelled

(* The same of a decoder of whole frames *)
LEMMA FrameWholeSteps ==
  ASSUME NEW format \in {"sg", "jvs"}, NEW dest \in Seq(FrameByte),
         NEW byte \in FrameByte, Len(dest) < FrameRoom
  PROVE  /\ byte = 208 =>
               FrameWholeStep(format, FrameState(dest, FALSE, 0, "more"), byte)
                  = FrameState(dest, TRUE, 0, "more")
         /\ byte \notin {224, 208} =>
               /\ FrameWholeStep(format, FrameState(dest, FALSE, 0, "more"), byte)
                     = FrameState(Append(dest, byte), FALSE, 0, "more")
               /\ FrameWholeStep(format, FrameState(dest, TRUE, 0, "more"), byte)
                     = FrameState(Append(dest, FrameMod(byte + 1)), FALSE, 0, "more")
<1>1. ~ (Len(dest) >= FrameRoom)
  <2>1. Len(dest) \in Nat /\ FrameRoom \in Nat
    BY FrameBoundsAssumption
  <2>2. QED
    BY <2>1
<1> DEFINE d(e) == FrameState(dest, e, 0, "more")
           yes == TRUE
           no == FALSE
           next == Append(dest, byte)
           last == Append(dest, FrameMod(byte + 1))
<1>2. yes = TRUE /\ no = FALSE
  OBVIOUS
<1> HIDE DEF yes, no
<1>3. \A e : d(e).dest = dest /\ d(e).escape = e /\ d(e).hr = "more"
  BY DEF FrameState
<1>4. d(no).escape = no /\ d(yes).escape = yes
  BY <1>3, Zenon
<1>5. ASSUME byte = 208 PROVE FrameWholeStep(format, d(no), byte) = d(yes)
  <2>1. FrameWholeStep(format, d(no), byte) = [d(no) EXCEPT !.escape = yes]
    <3>1. d(no).dest = dest /\ d(no).hr = "more"
      BY <1>3, Zenon
    <3> HIDE DEF d
    <3>2. QED
      BY <1>1, <1>2, <1>4, <1>5, <3>1 DEF FrameWholeStep, SgFrameStep, JvsFrameStep
  <2>2. [d(no) EXCEPT !.escape = yes] = d(yes)
    BY DEF FrameState
  <2> HIDE DEF d
  <2>3. QED
    BY <2>1, <2>2
<1>6. ASSUME byte \notin {224, 208}
      PROVE  FrameWholeStep(format, d(no), byte) = FrameState(next, no, 0, "more")
  <2>1. FrameWholeStep(format, d(no), byte) = FramePut(d(no), byte)
    <3>1. d(no).dest = dest /\ d(no).hr = "more"
      BY <1>3, Zenon
    <3> HIDE DEF d
    <3>2. QED
      BY <1>1, <1>2, <1>4, <1>6, <3>1 DEF FrameWholeStep, SgFrameStep, JvsFrameStep
  <2>2. QED
    BY <2>1, FrameStatePut
<1>7. ASSUME byte \notin {224, 208}
      PROVE  FrameWholeStep(format, d(yes), byte) = FrameState(last, no, 0, "more")
  <2>1. FrameWholeStep(format, d(yes), byte) = FrameUnescaped(d(yes), byte)
    <3>1. d(yes).dest = dest /\ d(yes).hr = "more"
      BY <1>3, Zenon
    <3> HIDE DEF d
    <3>2. QED
      BY <1>1, <1>2, <1>4, <1>7, <3>1 DEF FrameWholeStep, SgFrameStep, JvsFrameStep
  <2> DEFINE m == FrameMod(byte + 1)
  <2>2. FramePut(d(yes), m) = FrameState(last, yes, 0, "more")
    <3>1. last = Append(dest, m)
      OBVIOUS
    <3> HIDE DEF m, last
    <3>2. QED
      BY <3>1, FrameStatePut
  <2>3. FrameUnescaped(d(yes), byte) = [FramePut(d(yes), m) EXCEPT !.escape = no]
    <3> HIDE DEF d
    <3>1. QED
      BY <1>2 DEF FrameUnescaped
  <2> HIDE DEF last
  <2>4. [FrameState(last, yes, 0, "more") EXCEPT !.escape = no] = FrameState(last, no, 0, "more")
    BY DEF FrameState
  <2> HIDE DEF d, m
  <2>5. QED
    BY <2>1, <2>2, <2>3, <2>4
<1>8. QED
  BY <1>2, <1>5, <1>6, <1>7 DEF next, last

(* Before the i-th byte on the line, a decoder of whole frames has those
   before it. *)
FrameWholeDecodedTo(all, at, run, i) ==
    run[at[i] - 1] = FrameState(SubSeq(all, 1, i), FALSE, 0, "more")

(* Each byte of a whole frame is decoded behind those before it. *)
LEMMA FrameWholeDecodedNext ==
  ASSUME NEW format \in {"sg", "jvs"}, NEW all \in Seq(FrameByte), Len(all) <= FrameRoom,
         NEW at, NEW line, FrameStuffing(224, 208, all, at, line),
         NEW run, FrameWholeDecodes(format, Tail(line), run),
         NEW i \in 0 .. Len(all) - 1, FrameWholeDecodedTo(all, at, run, i)
  PROVE  FrameWholeDecodedTo(all, at, run, i + 1)
<1> DEFINE byte == all[i + 1]
           dest == SubSeq(all, 1, i)
           u == at[i]
           v == at[i + 1]
           x == Tail(line)
<1>1. /\ Len(all) \in Nat /\ i \in Nat /\ i + 1 \in 1 .. Len(all) /\ i + 1 \in 0 .. Len(all)
      /\ i \in 0 .. Len(all) /\ i + 1 - 1 = i
  OBVIOUS
<1>2. /\ u \in Nat /\ v \in Nat /\ 1 <= u /\ u <= Len(line) /\ v <= Len(line) /\ Len(line) \in Nat
      /\ line \in Seq(FrameByte)
  <2>1. /\ at \in [0 .. Len(all) -> Nat] /\ line \in Seq(FrameByte)
        /\ \A k \in 0 .. Len(all) : 1 <= at[k] /\ at[k] <= Len(line)
    BY DEF FrameStuffing
  <2>2. QED
    BY <1>1, <2>1
<1>3. FrameOnLine(224, 208, byte, u, v, line)
  <2>1. FrameOnLine(224, 208, byte, at[i + 1 - 1], v, line)
    BY <1>1 DEF FrameStuffing
  <2>2. QED
    BY <1>1, <2>1
<1>4. /\ byte \in FrameByte /\ dest \in Seq(FrameByte) /\ Len(dest) = i
      /\ SubSeq(all, 1, i + 1) = Append(dest, byte)
  BY <1>1
<1>5. Len(dest) < FrameRoom /\ FrameRoom \in Nat
  BY <1>1, <1>4, FrameBoundsAssumption
<1>6. run[u - 1] = FrameState(dest, FALSE, 0, "more")
  BY DEF FrameWholeDecodedTo
<1>7. \A k \in 1 .. Len(line) - 1 : run[k] = FrameWholeStep(format, run[k - 1], line[k + 1])
  <2>1. Len(x) = Len(line) - 1 /\ \A k \in 1 .. Len(line) - 1 : x[k] = line[k + 1]
    BY <1>2
  <2> HIDE DEF x
  <2>2. FrameWholeDecodes(format, x, run)
    BY DEF x
  <2>3. QED
    BY <2>1, <2>2 DEF FrameWholeDecodes
<1> SUFFICES run[v - 1] = FrameState(Append(dest, byte), FALSE, 0, "more")
  BY <1>4 DEF FrameWholeDecodedTo
<1> HIDE DEF byte, dest, u, v
<1>8. CASE byte \notin {224, 208}
  <2>1. v = u + 1 /\ line[v] = byte
    BY <1>3, <1>8 DEF FrameOnLine
  <2>2. u \in 1 .. Len(line) - 1 /\ v - 1 = u
    BY <1>2, <2>1
  <2>3. run[u] = FrameWholeStep(format, FrameState(dest, FALSE, 0, "more"), byte)
    <3>1. run[u] = FrameWholeStep(format, run[u - 1], line[u + 1])
      BY <1>7, <2>2
    <3>2. QED
      BY <1>6, <2>1, <3>1, Zenon
  <2>4. FrameWholeStep(format, FrameState(dest, FALSE, 0, "more"), byte)
           = FrameState(Append(dest, byte), FALSE, 0, "more")
    BY <1>4, <1>5, <1>8, FrameWholeSteps
  <2>5. QED
    BY <2>2, <2>3, <2>4
<1>9. CASE byte \in {224, 208}
  <2>1. v = u + 2 /\ line[u + 1] = 208 /\ line[v] = byte - 1
    BY <1>3, <1>9 DEF FrameOnLine
  <2>2. 208 \in FrameByte /\ byte - 1 \in FrameByte /\ byte - 1 \notin {224, 208}
    BY <1>9 DEF FrameByte
  <2> DEFINE w == u + 1
  <2>3. u \in 1 .. Len(line) - 1 /\ w \in 1 .. Len(line) - 1 /\ w - 1 = u /\ w + 1 = v /\ v - 1 = w
    BY <1>2, <2>1
  <2>4. run[u] = FrameState(dest, TRUE, 0, "more")
    <3>1. run[u] = FrameWholeStep(format, run[u - 1], line[u + 1])
      BY <1>7, <2>3
    <3>2. run[u] = FrameWholeStep(format, FrameState(dest, FALSE, 0, "more"), 208)
      BY <1>6, <2>1, <3>1, Zenon
    <3>3. FrameWholeStep(format, FrameState(dest, FALSE, 0, "more"), 208)
             = FrameState(dest, TRUE, 0, "more")
      BY <1>4, <1>5, <2>2, FrameWholeSteps
    <3>4. QED
      BY <3>2, <3>3
  <2> DEFINE below == byte - 1
  <2>5. FrameMod(below + 1) = byte
    <3>1. byte \in 0 .. 255
      BY <1>4 DEF FrameByte
    <3>2. QED
      BY <3>1 DEF FrameMod
  <2>6. below \in FrameByte /\ below \notin {224, 208} /\ line[v] = below
    BY <2>1, <2>2
  <2> HIDE DEF w, below
  <2>7. run[w] = FrameWholeStep(format, FrameState(dest, TRUE, 0, "more"), below)
    <3>1. run[w] = FrameWholeStep(format, run[w - 1], line[w + 1])
      BY <1>7, <2>3
    <3>2. QED
      BY <2>3, <2>4, <2>6, <3>1, Zenon
  <2>8. FrameWholeStep(format, FrameState(dest, TRUE, 0, "more"), below)
           = FrameState(Append(dest, FrameMod(below + 1)), FALSE, 0, "more")
    BY <1>4, <1>5, <2>6, FrameWholeSteps
  <2>9. QED
    BY <2>3, <2>5, <2>7, <2>8
<1>10. QED
  BY <1>8, <1>9

(* The line of a whole frame is unstuffed to it. *)
LEMMA FrameWholeDecodesLine ==
  ASSUME NEW format \in {"sg", "jvs"}, NEW all \in Seq(FrameByte), Len(all) <= FrameRoom,
         NEW at, NEW line, FrameStuffing(224, 208, all, at, line),
         NEW run, FrameWholeDecodes(format, Tail(line), run)
  PROVE  run[Len(Tail(line))] = FrameState(all, FALSE, 0, "more")
<1> DEFINE n == Len(all)
           S == {i \in 0 .. n : FrameWholeDecodedTo(all, at, run, i)}
<1>1. n \in Nat
  OBVIOUS
<1>2. 0 \in S
  <2>1. at[0] = 1 /\ 1 - 1 = 0 /\ run[0] = FrameState(<<>>, FALSE, 0, "more")
    BY DEF FrameStuffing, FrameWholeDecodes, FrameState, FrameFresh
  <2>2. SubSeq(all, 1, 0) = <<>>
    OBVIOUS
  <2>3. FrameWholeDecodedTo(all, at, run, 0)
    BY <2>1, <2>2, Zenon DEF FrameWholeDecodedTo
  <2>4. QED
    BY <1>1, <2>3
<1>3. \A i \in 0 .. n - 1 : i \in S => i + 1 \in S
  <2>1. \A i \in 0 .. n - 1 : i \in 0 .. n /\ i + 1 \in 0 .. n /\ i \in 0 .. Len(all) - 1
    BY <1>1
  <2>2. QED
    BY <2>1, FrameWholeDecodedNext
<1>4. n \in S
  <2> HIDE DEF S, n
  <2>1. \A i \in 0 .. n : i \in S
    BY <1>1, <1>2, <1>3, FrameInductionUpTo
  <2>2. QED
    BY <1>1, <2>1
<1>5. SubSeq(all, 1, n) = all
  OBVIOUS
<1>6. Len(Tail(line)) = at[n] - 1
  <2>1. line \in Seq(FrameByte) /\ Len(line) = at[n] /\ 1 <= at[n]
    BY <1>1 DEF FrameStuffing
  <2>2. QED
    BY <2>1
<1>7. QED
  BY <1>4, <1>5, <1>6 DEF FrameWholeDecodedTo

(* What a board gets of the line of a whole frame *)
FrameWholeGot(head, frame, whole, line) ==
    /\ head[1] + 1 = Len(whole) =>
          SgFrameDecode(line).hr = "ok" /\ FrameFront(SgFrameDecode(line).dest) = frame
    /\ JvsFrameDecode(line).hr = "ok" /\ FrameFront(JvsFrameDecode(line).dest) = frame

(* sg_frame_decode and jvs_frame_decode accept the line of a frame. *)
LEMMA FrameWholeCarries ==
  ASSUME NEW head \in Seq(FrameByte), 1 <= Len(head), NEW payload \in Seq(FrameByte),
         NEW frame, NEW whole, NEW line, FrameMade(head, payload, FrameSum(frame), frame, whole),
         Len(whole) <= FrameRoom, NEW at, FrameStuffing(224, 208, whole, at, line)
  PROVE  FrameWholeGot(head, frame, whole, line)
<1>1. /\ whole \in Seq(FrameByte) /\ Len(whole) \in Nat /\ 1 <= Len(whole)
      /\ FrameFront(whole) = frame /\ whole[Len(whole)] = FrameSum(frame) /\ whole[1] = head[1]
  BY DEF FrameMade
<1>2. FrameSummed(whole, 1) = "ok"
  <2>1. SubSeq(whole, 1, Len(whole) - 1) = frame
    BY <1>1 DEF FrameFront
  <2>2. QED
    BY <1>1, <2>1 DEF FrameSummed
<1>3. line \in Seq(FrameByte) /\ 1 <= Len(line) /\ Head(line) = 224 /\ Tail(line) \in Seq(FrameByte)
  <2>1. line \in Seq(FrameByte) /\ 1 <= Len(line) /\ line[1] = 224
    BY <1>1 DEF FrameStuffing
  <2>2. QED
    BY <2>1
<1> DEFINE end == FrameState(whole, FALSE, 0, "more")
<1>4. FrameRun(SgFrameStep, FrameFresh, Tail(line)) = end
  <2>1. PICK run \in [0 .. Len(Tail(line)) -> FrameDecoders] :
           /\ FrameWholeDecodes("sg", Tail(line), run)
           /\ FrameRun(SgFrameStep, FrameFresh, Tail(line)) = run[Len(Tail(line))]
    BY <1>3, SgFrameRuns
  <2>2. run[Len(Tail(line))] = end
    BY <1>1, <2>1, FrameWholeDecodesLine
  <2>3. QED
    BY <2>1, <2>2
<1>5. FrameRun(JvsFrameStep, FrameFresh, Tail(line)) = end
  <2>1. PICK run \in [0 .. Len(Tail(line)) -> FrameDecoders] :
           /\ FrameWholeDecodes("jvs", Tail(line), run)
           /\ FrameRun(JvsFrameStep, FrameFresh, Tail(line)) = run[Len(Tail(line))]
    BY <1>3, JvsFrameRuns
  <2>2. run[Len(Tail(line))] = end
    BY <1>1, <2>1, FrameWholeDecodesLine
  <2>3. QED
    BY <2>1, <2>2
<1>6. end.hr = "more" /\ ~end.escape /\ end.dest = whole
  BY DEF FrameState
<1>7. [end EXCEPT !.hr = "ok"] = FrameState(whole, FALSE, 0, "ok")
  <2> DEFINE no == FALSE
  <2>1. end = FrameState(whole, no, 0, "more")
    OBVIOUS
  <2> HIDE DEF no
  <2>2. [FrameState(whole, no, 0, "more") EXCEPT !.hr = "ok"] = FrameState(whole, no, 0, "ok")
    BY DEF FrameState
  <2> HIDE DEF end
  <2>3. [end EXCEPT !.hr = "ok"] = FrameState(whole, no, 0, "ok")
    BY <2>1, <2>2
  <2>4. QED
    BY <2>3 DEF no
<1>8. FrameState(whole, FALSE, 0, "ok").hr = "ok" /\ FrameState(whole, FALSE, 0, "ok").dest = whole
  BY DEF FrameState
<1> HIDE DEF end
<1>9. JvsFrameDecode(line) = FrameState(whole, FALSE, 0, "ok")
  <2>1. whole # <<>>
    BY <1>1
  <2>2. QED
    BY <1>2, <1>3, <1>5, <1>6, <1>7, <2>1 DEF JvsFrameDecode
<1>10. ASSUME head[1] + 1 = Len(whole) PROVE SgFrameDecode(line) = FrameState(whole, FALSE, 0, "ok")
  <2>1. FrameComplete(whole, 1, 1)
    BY <1>1, <1>10 DEF FrameComplete
  <2>2. QED
    BY <1>2, <1>3, <1>4, <1>6, <1>7, <2>1 DEF SgFrameDecode
<1>11. QED
  BY <1>1, <1>8, <1>9, <1>10 DEF FrameWholeGot

(* What a frame's line does for the board of a stream: whatever begins as it
   does is decoded to the frame, once all of it is there.                  *)
FrameCarried(format, frame, line) ==
    /\ line \in Seq(FrameByte) /\ 1 <= Len(line) /\ line[1] = FrameSyncOf(format)
    /\ \E whole :
          /\ FrameFront(whole) = frame
          /\ \A bytes \in Seq(FrameByte) :
                (\A j \in 1 .. Len(bytes) : j <= Len(line) => bytes[j] = line[j])
                   => FrameDecodedAs(format, bytes, whole, line)

(* A frame of a stream that the board's buffer has room for *)
FrameFits(format, head, payload, checksum, frame) ==
    /\ format \in FrameStreams /\ head \in Seq(FrameByte) /\ payload \in Seq(FrameByte)
    /\ checksum \in FrameByte /\ frame = head \o payload
    /\ Len(head) = (IF format = "led" THEN 4 ELSE 3) /\ head[1] = FrameSyncOf(format)
    /\ head[Len(head)] = Len(payload) /\ Len(payload) + 5 <= FrameRoom
    /\ IF format = "slider" THEN FrameSum(Append(frame, checksum)) = 0
       ELSE checksum = FrameSum(Tail(frame))

(* A frame with room for it is carried by the line that its encoder
   makes. *)
LEMMA FrameCarries ==
  ASSUME NEW format, NEW head, NEW payload, NEW checksum, NEW frame,
         FrameFits(format, head, payload, checksum, frame)
  PROVE  FrameCarried(format, frame,
            FrameEncoded(FrameSyncOf(format), FrameEscapeOf(format), Tail(frame), checksum))
<1> DEFINE whole == Append(frame, checksum)
           line == FrameEncoded(FrameSyncOf(format), FrameEscapeOf(format), Tail(frame), checksum)
<1>1. 1 <= Len(head) /\ Len(head) \in Nat
  BY DEF FrameFits
<1>2. FrameMade(head, payload, checksum, frame, whole)
  BY <1>1, FramePutTogether DEF FrameFits
<1>10. format \in FrameStreams /\ checksum \in FrameByte
  BY DEF FrameFits
<1>3. FrameSpelled(format, whole)
  <2> HIDE DEF whole
  <2>1. IF format = "slider" THEN FrameSum(whole) = 0 ELSE checksum = FrameSum(Tail(frame))
    BY DEF whole, FrameFits
  <2>2. QED
    BY <1>2, <2>1, FrameSpelledOf DEF FrameFits
<1>4. /\ Tail(frame) \in Seq(FrameByte) /\ Tail(whole) = Append(Tail(frame), checksum)
      /\ FrameFront(whole) = frame
  BY <1>2 DEF FrameMade
<1>5. PICK at : FrameStuffing(FrameSyncOf(format), FrameEscapeOf(format), Tail(whole), at, line)
  BY <1>4, <1>10, FrameSyncsOf, FrameEncodedStuffs
<1> HIDE DEF whole, line
<1>6. line \in Seq(FrameByte) /\ 1 <= Len(line) /\ line[1] = FrameSyncOf(format)
  <2>1. Len(Tail(whole)) \in 0 .. Len(Tail(whole))
    BY <1>3 DEF FrameSpelled
  <2>2. QED
    BY <1>5, <2>1 DEF FrameStuffing
<1>7. ASSUME NEW bytes \in Seq(FrameByte),
             \A j \in 1 .. Len(bytes) : j <= Len(line) => bytes[j] = line[j]
      PROVE  FrameDecodedAs(format, bytes, whole, line)
  BY <1>3, <1>5, <1>7, <1>10, FrameDecodedLine
<1>8. FrameCarried(format, frame, line)
  BY <1>4, <1>6, <1>7 DEF FrameCarried
<1>9. QED
  BY <1>8 DEF line

(* Every frame that the game may send is carried, ... *)
LEMMA FrameStreamCarries ==
  ASSUME frameFormat \in FrameFormats, frameFormat \in FrameStreams,
         NEW payload \in FramePayloads[frameFormat]
  PROVE  FrameCarried(frameFormat, FrameOf(payload), FrameEncode(FrameOf(payload)))
<1> DEFINE n == Len(payload)
<1>1. /\ payload \in Seq(FrameByte) /\ n \in Nat /\ n + 5 <= FrameRoom /\ n \in FrameByte
      /\ 1 \in FrameByte /\ 224 \in FrameByte /\ 255 \in FrameByte
  <2>1. payload \in Seq(FrameByte) /\ n <= 252 /\ n + 5 <= FrameRoom
    BY FramePayloadsAssumption
  <2>2. n \in Nat
    BY <2>1
  <2> HIDE DEF n
  <2>3. n \in FrameByte /\ 1 \in FrameByte /\ 224 \in FrameByte /\ 255 \in FrameByte
    BY <2>1, <2>2 DEF FrameByte
  <2>4. QED
    BY <2>1, <2>2, <2>3
<1> HIDE DEF n
<1>2. CASE frameFormat = "slider"
  <2> DEFINE head == <<255, 1, n>>
             frame == head \o payload
             checksum == FrameMod(256 - FrameSum(frame))
  <2>1. /\ head \in Seq(FrameByte) /\ Len(head) = 3 /\ head[1] = 255 /\ head[3] = n
    BY <1>1
  <2>2. FrameOf(payload) = frame
    BY <1>2 DEF FrameOf, n
  <2> HIDE DEF head
  <2>3. frame \in Seq(FrameByte)
    BY <1>1, <2>1, ConcatProperties
  <2> HIDE DEF frame
  <2>4. checksum \in FrameByte /\ FrameSum(Append(frame, checksum)) = 0
    BY <2>3, FrameSumZero
  <2>5. FrameEncode(frame) = FrameEncoded(255, 253, Tail(frame), checksum)
    BY <1>2 DEF FrameEncode, SliderFrameEncode
  <2> HIDE DEF checksum
  <2>6. FrameSyncOf("slider") = 255 /\ FrameEscapeOf("slider") = 253
    BY DEF FrameSyncOf, FrameEscapeOf
  <2>7. FrameCarried("slider", frame,
            FrameEncoded(FrameSyncOf("slider"), FrameEscapeOf("slider"), Tail(frame), checksum))
    <3>1. "slider" \in FrameStreams /\ Len(head) = (IF "slider" = "led" THEN 4 ELSE 3)
      BY <2>1 DEF FrameStreams
    <3>2. head[Len(head)] = Len(payload) /\ Len(payload) + 5 <= FrameRoom
      BY <1>1, <2>1 DEF n
    <3>3. frame = head \o payload
      BY DEF frame
    <3>4. FrameFits("slider", head, payload, checksum, frame)
      BY <1>1, <2>1, <2>4, <2>6, <3>1, <3>2, <3>3 DEF FrameFits
    <3>5. QED
      BY <3>4, FrameCarries
  <2>8. QED
    BY <1>2, <2>2, <2>5, <2>6, <2>7
<1>3. CASE frameFormat = "led"
  <2> DEFINE head == <<224, 1, 1, n>>
             frame == head \o payload
             checksum == FrameSum(Tail(frame))
  <2>1. /\ head \in Seq(FrameByte) /\ Len(head) = 4 /\ head[1] = 224 /\ head[4] = n
    BY <1>1
  <2>2. FrameOf(payload) = frame
    BY <1>3 DEF FrameOf, n
  <2> HIDE DEF head
  <2>3. frame \in Seq(FrameByte) /\ Len(frame) >= 1
    <3>1. Len(payload) \in Nat
      BY <1>1
    <3>2. head \o payload \in Seq(FrameByte) /\ Len(head \o payload) = Len(head) + Len(payload)
      <4>1. head \in Seq(FrameByte) /\ payload \in Seq(FrameByte)
        BY <1>1, <2>1
      <4>2. QED
        BY <4>1, ConcatProperties
    <3>3. QED
      BY <2>1, <3>1, <3>2
  <2> HIDE DEF frame
  <2>4. checksum \in FrameByte
    <3>1. Tail(frame) \in Seq(FrameByte)
      BY <2>3
    <3>2. QED
      BY <3>1, FrameSumOf
  <2>5. FrameEncode(frame) = FrameEncoded(224, 208, Tail(frame), checksum)
    BY <1>3 DEF FrameEncode, Led1509306FrameEncode
  <2>6. FrameSyncOf("led") = 224 /\ FrameEscapeOf("led") = 208
    BY DEF FrameSyncOf, FrameEscapeOf
  <2>9. IF "led" = "slider" THEN FrameSum(Append(frame, checksum)) = 0
         ELSE checksum = FrameSum(Tail(frame))
    OBVIOUS
  <2> HIDE DEF checksum
  <2>7. FrameCarried("led", frame,
            FrameEncoded(FrameSyncOf("led"), FrameEscapeOf("led"), Tail(frame), checksum))
    <3>1. "led" \in FrameStreams /\ Len(head) = (IF "led" = "led" THEN 4 ELSE 3)
      BY <2>1 DEF FrameStreams
    <3>2. head[Len(head)] = Len(payload) /\ Len(payload) + 5 <= FrameRoom
      BY <1>1, <2>1 DEF n
    <3>3. frame = head \o payload
      BY DEF frame
    <3>4. FrameFits("led", head, payload, checksum, frame)
      BY <1>1, <2>1, <2>4, <2>6, <2>9, <3>1, <3>2, <3>3 DEF FrameFits
    <3>5. QED
      BY <3>4, FrameCarries
  <2>8. QED
    BY <1>3, <2>2, <2>5, <2>6, <2>7
<1>4. CASE frameFormat = "rfid"
  <2> DEFINE head == <<224, 1, n>>
             frame == head \o payload
             checksum == FrameSum(Tail(frame))
  <2>1. /\ head \in Seq(FrameByte) /\ Len(head) = 3 /\ head[1] = 224 /\ head[3] = n
    BY <1>1
  <2>2. FrameOf(payload) = frame
    BY <1>4 DEF FrameOf, n
  <2> HIDE DEF head
  <2>3. frame \in Seq(FrameByte) /\ Len(frame) >= 1
    <3>1. Len(payload) \in Nat
      BY <1>1
    <3>2. head \o payload \in Seq(FrameByte) /\ Len(head \o payload) = Len(head) + Len(payload)
      <4>1. head \in Seq(FrameByte) /\ payload \in Seq(FrameByte)
        BY <1>1, <2>1
      <4>2. QED
        BY <4>1, ConcatProperties
    <3>3. QED
      BY <2>1, <3>1, <3>2
  <2> HIDE DEF frame
  <2>4. checksum \in FrameByte
    <3>1. Tail(frame) \in Seq(FrameByte)
      BY <2>3
    <3>2. QED
      BY <3>1, FrameSumOf
  <2>5. FrameEncode(frame) = FrameEncoded(224, 208, Tail(frame), checksum)
    BY <1>4 DEF FrameEncode, RfidFrameEncode
  <2>6. FrameSyncOf("rfid") = 224 /\ FrameEscapeOf("rfid") = 208
    BY DEF FrameSyncOf, FrameEscapeOf
  <2>9. IF "rfid" = "slider" THEN FrameSum(Append(frame, checksum)) = 0
         ELSE checksum = FrameSum(Tail(frame))
    OBVIOUS
  <2> HIDE DEF checksum
  <2>7. FrameCarried("rfid", frame,
            FrameEncoded(FrameSyncOf("rfid"), FrameEscapeOf("rfid"), Tail(frame), checksum))
    <3>1. "rfid" \in FrameStreams /\ Len(head) = (IF "rfid" = "led" THEN 4 ELSE 3)
      BY <2>1 DEF FrameStreams
    <3>2. head[Len(head)] = Len(payload) /\ Len(payload) + 5 <= FrameRoom
      BY <1>1, <2>1 DEF n
    <3>3. frame = head \o payload
      BY DEF frame
    <3>4. FrameFits("rfid", head, payload, checksum, frame)
      BY <1>1, <2>1, <2>4, <2>6, <2>9, <3>1, <3>2, <3>3 DEF FrameFits
    <3>5. QED
      BY <3>4, FrameCarries
  <2>8. QED
    BY <1>4, <2>2, <2>5, <2>6, <2>7
<1>5. QED
  BY <1>2, <1>3, <1>4 DEF FrameStreams

(* ... and so is that of a board that gets whole frames. *)
FrameWholeOf(format, line) ==
    IF format = "sg" THEN SgFrameDecode(line) ELSE JvsFrameDecode(line)

(* What the line of a whole frame does for its board *)
FrameWholeCarried(format, frame, line) ==
    /\ line \in Seq(FrameByte) /\ 1 <= Len(line)
    /\ FrameWholeOf(format, line).hr = "ok" /\ FrameFront(FrameWholeOf(format, line).dest) = frame

(* A whole frame with room for it is carried by its line. *)
LEMMA FrameWholesCarry ==
  ASSUME frameFormat \in {"sg", "jvs"}, NEW head \in Seq(FrameByte), NEW payload \in Seq(FrameByte),
         NEW frame, frame = head \o payload, 1 <= Len(head),
         Len(head) + Len(payload) + 1 <= FrameRoom,
         frameFormat = "sg" => head[1] = Len(head) + Len(payload)
  PROVE  FrameWholeCarried(frameFormat, frame, FrameEncoded(224, 208, frame, FrameSum(frame)))
<1> DEFINE checksum == FrameSum(frame)
           whole == Append(frame, checksum)
           line == FrameEncoded(224, 208, frame, checksum)
<1>1. frame \in Seq(FrameByte)
  BY ConcatProperties
<1>2. checksum \in FrameByte
  BY <1>1, FrameSumOf
<1>3. FrameMade(head, payload, checksum, frame, whole)
  BY <1>2, FramePutTogether
<1>4. FrameSyncs(224, 208)
  BY DEF FrameSyncs
<1>5. PICK at : FrameStuffing(224, 208, whole, at, line)
  BY <1>1, <1>2, <1>4, FrameEncodedStuffs
<1>6. Len(whole) = Len(head) + Len(payload) + 1 /\ Len(whole) <= FrameRoom
  BY <1>3 DEF FrameMade
<1> HIDE DEF whole, line
<1>7. line \in Seq(FrameByte) /\ 1 <= Len(line)
  <2>1. Len(whole) \in 0 .. Len(whole)
    BY <1>6
  <2>2. QED
    BY <1>5, <2>1 DEF FrameStuffing
<1>8. /\ head[1] + 1 = Len(whole) =>
            SgFrameDecode(line).hr = "ok" /\ FrameFront(SgFrameDecode(line).dest) = frame
      /\ JvsFrameDecode(line).hr = "ok" /\ FrameFront(JvsFrameDecode(line).dest) = frame
  <2>1. FrameWholeGot(head, frame, whole, line)
    BY <1>3, <1>5, <1>6, FrameWholeCarries
  <2>2. QED
    BY <2>1 DEF FrameWholeGot
<1>9. frameFormat = "sg" => head[1] + 1 = Len(whole)
  BY <1>6
<1>10. FrameWholeCarried(frameFormat, frame, line)
  BY <1>7, <1>8, <1>9 DEF FrameWholeCarried, FrameWholeOf
<1>11. QED
  BY <1>10 DEF line

(* Every whole frame that the game may send is carried. *)
LEMMA FrameWholeStreamCarries ==
  ASSUME frameFormat \in FrameFormats, frameFormat \notin FrameStreams,
         NEW payload \in FramePayloads[frameFormat]
  PROVE  FrameWholeCarried(frameFormat, FrameOf(payload), FrameEncode(FrameOf(payload)))
<1> DEFINE n == Len(payload)
<1>1. frameFormat \in {"sg", "jvs"}
  BY FrameFormatsAssumption
<1>2. /\ payload \in Seq(FrameByte) /\ n \in Nat /\ n + 5 <= FrameRoom
      /\ n + 3 \in FrameByte /\ n + 1 \in FrameByte /\ 1 \in FrameByte
  <2>1. payload \in Seq(FrameByte) /\ n <= 252 /\ n + 5 <= FrameRoom
    BY FramePayloadsAssumption
  <2>2. n \in Nat
    BY <2>1
  <2> HIDE DEF n
  <2>3. QED
    BY <2>1, <2>2 DEF FrameByte
<1> HIDE DEF n
<1> DEFINE head == IF frameFormat = "sg" THEN <<n + 3, 1, 1>> ELSE <<1, n + 1>>
           frame == head \o payload
<1>3. /\ head \in Seq(FrameByte) /\ 1 <= Len(head) /\ Len(head) <= 3 /\ Len(head) \in Nat
      /\ frameFormat = "sg" => head[1] = Len(head) + n
  BY <1>2
<1>4. FrameOf(payload) = frame
  BY <1>1 DEF FrameOf, n
<1> HIDE DEF head
<1> HIDE DEF frame
<1>6. FrameEncode(frame) = FrameEncoded(224, 208, frame, FrameSum(frame))
  BY <1>1 DEF FrameEncode, SgFrameEncode, JvsFrameEncode
<1>7. Len(head) + Len(payload) + 1 <= FrameRoom
  BY <1>2, <1>3, FrameBoundsAssumption DEF n
<1>8. FrameWholeCarried(frameFormat, frame, FrameEncoded(224, 208, frame, FrameSum(frame)))
  <2>1. frame = head \o payload
    BY DEF frame
  <2>2. frameFormat = "sg" => head[1] = Len(head) + Len(payload)
    BY <1>3 DEF n
  <2>3. QED
    BY <1>1, <1>2, <1>3, <1>7, <2>1, <2>2, FrameWholesCarry
<1>9. QED
  BY <1>4, <1>6, <1>8

(* A line that adds nothing *)
FrameQuiet == FrameNoises \subseteq {<<>>}

(* One frame on the line: what the line has added to it, then its bytes *)
FrameSegment(format, frame, bytes, before, from, to) ==
    /\ before \in Nat /\ from \in Nat /\ to \in Nat /\ before <= from /\ from < to
    /\ FrameQuiet => before = from
    /\ \A j \in before + 1 .. from : bytes[j] # FrameSyncOf(format)
    /\ \E line : /\ FrameCarried(format, frame, line) /\ to = from + Len(line)
                 /\ \A j \in 1 .. Len(line) : bytes[from + j] = line[j]

(* What is on the line and in the board's buffer is cut into the frames that the
   board has not had yet, all of those.                                    *)
FrameCut(format, sent, k, bytes, from, to) ==
    /\ to[k] = 0 /\ to[Len(sent)] = Len(bytes)
    /\ \A i \in k .. Len(sent) : to[i] \in Nat
    /\ \A i, j \in k .. Len(sent) : i <= j => to[i] <= to[j]
    /\ \A i \in k + 1 .. Len(sent) :
          FrameSegment(format, sent[i], bytes, to[i - 1], from[i], to[i])

(* A frame stays one on a line that has lost some of what came before it. *)
LEMMA FrameSegmentMoved ==
  ASSUME NEW format, NEW frame, NEW bytes, NEW before, NEW from, NEW to,
         FrameSegment(format, frame, bytes, before, from, to),
         NEW d \in Nat, NEW rest \in Nat, before <= rest + d, rest + d <= from, NEW moved,
         \A j \in rest + 1 .. to - d : moved[j] = bytes[j + d]
  PROVE  FrameSegment(format, frame, moved, rest, from - d, to - d)
<1>1. PICK line : /\ FrameCarried(format, frame, line) /\ to = from + Len(line)
                  /\ \A j \in 1 .. Len(line) : bytes[from + j] = line[j]
  BY DEF FrameSegment
<1>2. /\ before \in Nat /\ from \in Nat /\ to \in Nat /\ from < to
      /\ FrameQuiet => before = from
      /\ \A j \in before + 1 .. from : bytes[j] # FrameSyncOf(format)
  BY DEF FrameSegment
<1>3. Len(line) \in Nat
  BY <1>1 DEF FrameCarried
<1>4. /\ from - d \in Nat /\ to - d \in Nat /\ rest <= from - d /\ from - d < to - d
      /\ to - d = from - d + Len(line)
      /\ FrameQuiet => rest = from - d
  BY <1>1, <1>2, <1>3
<1>5. ASSUME NEW j \in rest + 1 .. from - d PROVE moved[j] # FrameSyncOf(format)
  <2>1. j \in rest + 1 .. to - d /\ j + d \in before + 1 .. from
    BY <1>2, <1>4
  <2>2. moved[j] = bytes[j + d]
    BY <2>1
  <2>3. QED
    BY <1>2, <2>1, <2>2
<1>6. ASSUME NEW j \in 1 .. Len(line) PROVE moved[from - d + j] = line[j]
  <2> DEFINE p == from - d + j
  <2>1. p \in rest + 1 .. to - d /\ p + d = from + j
    BY <1>1, <1>2, <1>3, <1>4
  <2> HIDE DEF p
  <2>2. moved[p] = bytes[p + d]
    BY <2>1
  <2>3. moved[p] = line[j]
    BY <1>1, <2>1, <2>2
  <2>4. QED
    BY <2>3 DEF p
<1>7. QED
  BY <1>1, <1>4, <1>5, <1>6 DEF FrameSegment

(* What a board takes off the line, noise or a frame *)
FrameCutBy(format, sent, m, moved, to, d) ==
    \E first, last : /\ FrameCut(format, sent, m, moved, first, last)
                     /\ \A i \in m + 1 .. Len(sent) : last[i] = to[i] - d

(* The cuts move with it. *)
LEMMA FrameCutMoved ==
  ASSUME NEW format, NEW sent, Len(sent) \in Nat, NEW k \in Nat, NEW bytes, NEW from, NEW to,
         FrameCut(format, sent, k, bytes, from, to), Len(bytes) \in Nat,
         NEW m \in k .. Len(sent), NEW d \in Nat, to[m] <= d,
         m < Len(sent) => d <= from[m + 1], m = Len(sent) => d = Len(bytes),
         NEW moved, Len(moved) = Len(bytes) - d,
         \A j \in 1 .. Len(moved) : moved[j] = bytes[j + d]
  PROVE  FrameCutBy(format, sent, m, moved, to, d)
<1> DEFINE n == Len(sent)
           first == [i \in m + 1 .. n |-> from[i] - d]
           last == [i \in m .. n |-> IF i = m THEN 0 ELSE to[i] - d]
<1>1. n \in Nat /\ m \in Nat /\ m <= n
  OBVIOUS
<1>2. /\ to[n] = Len(bytes)
      /\ \A i \in k .. n : to[i] \in Nat
      /\ \A i, j \in k .. n : i <= j => to[i] <= to[j]
      /\ \A i \in k + 1 .. n : FrameSegment(format, sent[i], bytes, to[i - 1], from[i], to[i])
  BY DEF FrameCut
<1>3. \A i \in m + 1 .. n : /\ i \in k .. n /\ i \in k + 1 .. n /\ i - 1 \in k .. n /\ m + 1 \in k .. n
                            /\ m + 1 \in k + 1 .. n /\ m + 1 <= i /\ m < n
  BY <1>1
<1> HIDE DEF n
<1>4. /\ \A i \in m + 1 .. n : first[i] = from[i] - d /\ last[i] = to[i] - d
      /\ last[m] = 0
  BY <1>1
<1> HIDE DEF first, last
<1>5. ASSUME NEW i \in m + 1 .. n PROVE to[i] - d \in Nat
  <2>1. d <= from[m + 1] /\ to[m + 1] <= to[i] /\ to[i] \in Nat
    BY <1>2, <1>3 DEF n
  <2>2. from[m + 1] < to[m + 1] /\ from[m + 1] \in Nat /\ to[m + 1] \in Nat
    BY <1>2, <1>3 DEF FrameSegment
  <2>3. QED
    BY <2>1, <2>2
<1>6. last[n] = Len(moved)
  <2>1. CASE m = n
    BY <1>4, <2>1 DEF n
  <2>2. CASE m # n
    <3>1. n \in m + 1 .. n
      BY <1>1, <2>2
    <3>2. QED
      BY <1>2, <1>4, <3>1
  <2>3. QED
    BY <2>1, <2>2
<1>7. \A i \in m .. n : last[i] \in Nat
  <2>1. \A i \in m .. n : i = m \/ i \in m + 1 .. n
    BY <1>1
  <2>2. QED
    BY <1>4, <1>5, <2>1
<1>8. ASSUME NEW i \in m .. n, NEW j \in m .. n, i <= j PROVE last[i] <= last[j]
  <2>1. CASE i = m
    BY <1>4, <1>7, <2>1
  <2>2. CASE i # m
    <3>1. i \in m + 1 .. n /\ j \in m + 1 .. n
      BY <1>1, <1>8, <2>2
    <3>2. to[i] <= to[j] /\ to[i] \in Nat /\ to[j] \in Nat
      BY <1>2, <1>3, <1>8, <3>1
    <3>3. QED
      BY <1>4, <3>1, <3>2
  <2>3. QED
    BY <2>1, <2>2
<1>9. ASSUME NEW i \in m + 1 .. n
      PROVE  FrameSegment(format, sent[i], moved, last[i - 1], first[i], last[i])
  <2> DEFINE rest == last[i - 1]
             b == to[i - 1]
             f == from[i]
             t == to[i]
  <2>1. FrameSegment(format, sent[i], bytes, b, f, t)
    BY <1>2, <1>3
  <2>2. b \in Nat /\ f \in Nat /\ t \in Nat /\ b <= f /\ f < t
    BY <2>1 DEF FrameSegment
  <2>3. rest \in Nat /\ b <= rest + d /\ rest + d <= f
    <3>1. CASE i = m + 1
      <4>1. i - 1 = m /\ m < n
        BY <1>1, <3>1
      <4>2. rest = 0 /\ b <= d /\ d <= f
        BY <1>4, <3>1, <4>1 DEF n
      <4>3. QED
        BY <2>2, <4>2
    <3>2. CASE i # m + 1
      <4>1. i - 1 \in m + 1 .. n
        BY <1>1, <3>2
      <4>2. rest = b - d /\ b - d \in Nat
        BY <1>4, <1>5, <4>1
      <4>3. QED
        BY <2>2, <4>2
    <3>3. QED
      BY <3>1, <3>2
  <2>4. t <= Len(bytes)
    <3>1. n \in k .. n /\ i <= n
      BY <1>1
    <3>2. QED
      BY <1>2, <1>3, <3>1
  <2>6. first[i] = f - d /\ last[i] = t - d
    BY <1>4
  <2> HIDE DEF rest, b, f, t
  <2>5. \A j \in rest + 1 .. t - d : j \in 1 .. Len(moved)
    BY <2>2, <2>3, <2>4
  <2>7. \A j \in rest + 1 .. t - d : moved[j] = bytes[j + d]
    BY <2>5
  <2>8. FrameSegment(format, sent[i], moved, rest, f - d, t - d)
    BY <2>1, <2>3, <2>7, FrameSegmentMoved
  <2>9. QED
    BY <2>6, <2>8 DEF rest
<1>10. FrameCut(format, sent, m, moved, first, last)
  BY <1>4, <1>6, <1>7, <1>8, <1>9 DEF FrameCut, n
<1>11. QED
  BY <1>4, <1>10 DEF n, FrameCutBy

(* What the game puts on the line *)
FrameCutTo(format, more, k, longer, n, to) ==
    \E first, last : /\ FrameCut(format, more, k, longer, first, last)
                     /\ \A i \in k .. n : last[i] = to[i]

(* A frame behind those on the line is one cut more. *)
LEMMA FrameCutLonger ==
  ASSUME NEW format, NEW sent, Len(sent) \in Nat, NEW k \in Nat, k <= Len(sent), NEW bytes,
         NEW from, NEW to, FrameCut(format, sent, k, bytes, from, to), Len(bytes) \in Nat,
         NEW more, Len(more) = Len(sent) + 1, \A i \in 1 .. Len(sent) : more[i] = sent[i],
         NEW longer, NEW p, Len(longer) \in Nat,
         \A j \in 1 .. Len(bytes) : longer[j] = bytes[j],
         FrameSegment(format, more[Len(more)], longer, Len(bytes), p, Len(longer))
  PROVE  FrameCutTo(format, more, k, longer, Len(sent), to)
<1> DEFINE n == Len(sent)
           first == [i \in k + 1 .. n + 1 |-> IF i = n + 1 THEN p ELSE from[i]]
           last == [i \in k .. n + 1 |-> IF i = n + 1 THEN Len(longer) ELSE to[i]]
<1>1. n \in Nat /\ k <= n /\ Len(more) = n + 1
  OBVIOUS
<1>2. /\ to[k] = 0 /\ to[n] = Len(bytes)
      /\ \A i \in k .. n : to[i] \in Nat
      /\ \A i, j \in k .. n : i <= j => to[i] <= to[j]
      /\ \A i \in k + 1 .. n : FrameSegment(format, sent[i], bytes, to[i - 1], from[i], to[i])
  BY DEF FrameCut
<1>3. Len(bytes) <= p /\ p < Len(longer) /\ p \in Nat
  BY DEF FrameSegment
<1> HIDE DEF n
<1>4. /\ \A i \in k .. n : last[i] = to[i]
      /\ \A i \in k + 1 .. n : first[i] = from[i]
      /\ last[n + 1] = Len(longer) /\ first[n + 1] = p
  BY <1>1
<1> HIDE DEF first, last
<1>5. \A i \in k .. n + 1 : i \in k .. n \/ i = n + 1
  BY <1>1
<1>6. \A i \in k .. n : to[i] <= Len(bytes)
  <2>1. n \in k .. n /\ \A i \in k .. n : i <= n
    BY <1>1
  <2>2. QED
    BY <1>2, <2>1
<1>7. \A i \in k .. n + 1 : last[i] \in Nat
  BY <1>2, <1>4, <1>5
<1>8. ASSUME NEW i \in k .. n + 1, NEW j \in k .. n + 1, i <= j PROVE last[i] <= last[j]
  <2>1. CASE j = n + 1
    <3>1. i \in k .. n => last[i] <= Len(bytes)
      BY <1>4, <1>6
    <3>2. QED
      BY <1>3, <1>4, <1>5, <1>7, <2>1, <3>1
  <2>2. CASE j # n + 1
    <3>1. i \in k .. n /\ j \in k .. n
      BY <1>1, <1>8, <2>2
    <3>2. QED
      BY <1>2, <1>4, <1>8, <3>1
  <2>3. QED
    BY <2>1, <2>2
<1>9. ASSUME NEW i \in k + 1 .. n + 1
      PROVE  FrameSegment(format, more[i], longer, last[i - 1], first[i], last[i])
  <2>1. CASE i = n + 1
    <3>1. i - 1 = n /\ n \in k .. n /\ i = Len(more)
      BY <1>1, <2>1
    <3>2. last[i - 1] = Len(bytes)
      BY <1>2, <1>4, <3>1
    <3>3. QED
      BY <1>4, <2>1, <3>1, <3>2
  <2>2. CASE i # n + 1
    <3> DEFINE b == to[i - 1]
               f == from[i]
               t == to[i]
    <3>1. i \in k + 1 .. n /\ i - 1 \in k .. n /\ i \in k .. n /\ i \in 1 .. n
      BY <1>1, <2>2
    <3>2. FrameSegment(format, sent[i], bytes, b, f, t)
      BY <1>2, <3>1
    <3>3. b \in Nat /\ f \in Nat /\ t \in Nat /\ b <= f /\ f < t /\ t <= Len(bytes)
      BY <1>6, <3>1, <3>2 DEF FrameSegment
    <3>4. last[i - 1] = b /\ first[i] = f /\ last[i] = t /\ more[i] = sent[i]
      BY <1>4, <3>1 DEF n
    <3> HIDE DEF b, f, t
    <3>5. \A j \in b + 1 .. t - 0 : longer[j] = bytes[j + 0]
      <4>1. \A j \in b + 1 .. t - 0 : j \in 1 .. Len(bytes) /\ j + 0 = j
        BY <3>3
      <4>2. QED
        BY <4>1
    <3>6. FrameSegment(format, sent[i], longer, b, f - 0, t - 0)
      <4>1. 0 \in Nat /\ b <= b + 0 /\ b + 0 <= f
        BY <3>3
      <4>2. QED
        BY <3>2, <3>3, <3>5, <4>1, FrameSegmentMoved
    <3>7. f - 0 = f /\ t - 0 = t
      BY <3>3
    <3>8. QED
      BY <3>4, <3>6, <3>7
  <2>3. QED
    BY <2>1, <2>2
<1>10. FrameCut(format, more, k, longer, first, last)
  <2>1. k \in k .. n
    BY <1>1
  <2>2. QED
    BY <1>1, <1>2, <1>4, <1>7, <1>8, <1>9, <2>1 DEF FrameCut
<1>11. QED
  BY <1>4, <1>10 DEF n, FrameCutTo

(* There is a first sync byte, or none. *)
LEMMA FrameSkippedIs ==
  ASSUME NEW bytes \in Seq(FrameByte), NEW sync
  PROVE  /\ FrameSkipped(bytes, sync) \in 0 .. Len(bytes)
         /\ \A j \in 1 .. FrameSkipped(bytes, sync) : bytes[j] # sync
         /\ FrameSkipped(bytes, sync) < Len(bytes) => bytes[FrameSkipped(bytes, sync) + 1] = sync
<1> DEFINE n == Len(bytes)
           Is(i) == (\A j \in 1 .. i : bytes[j] # sync) /\ (i < n => bytes[i + 1] = sync)
           S == {i \in 0 .. n : \A j \in 1 .. i : bytes[j] # sync}
<1>1. n \in Nat
  OBVIOUS
<1>2. \E i \in 0 .. n : Is(i)
  <2> SUFFICES ASSUME \A i \in 0 .. n : ~Is(i) PROVE FALSE
    OBVIOUS
  <2>1. 0 \in S
    BY <1>1
  <2>2. ASSUME NEW i \in 0 .. n - 1, i \in S PROVE i + 1 \in S
    <3>1. i \in 0 .. n /\ i < n /\ i + 1 \in 0 .. n
      BY <1>1
    <3>2. bytes[i + 1] # sync /\ \A j \in 1 .. i : bytes[j] # sync
      BY <2>2, <3>1
    <3>3. \A j \in 1 .. i + 1 : j \in 1 .. i \/ j = i + 1
      BY <3>1
    <3> HIDE DEF n
    <3>4. QED
      BY <3>1, <3>2, <3>3
  <2>3. n \in S
    <3> HIDE DEF S, n
    <3>1. \A i \in 0 .. n : i \in S
      BY <1>1, <2>1, <2>2, FrameInductionUpTo
    <3>2. QED
      BY <1>1, <3>1
  <2>4. Is(n) /\ n \in 0 .. n
    BY <1>1, <2>3
  <2>5. QED
    BY <2>4
<1>3. FrameSkipped(bytes, sync) = CHOOSE i \in 0 .. n : Is(i)
  BY Zenon DEF FrameSkipped
<1> HIDE DEF Is
<1>4. FrameSkipped(bytes, sync) \in 0 .. n /\ Is(FrameSkipped(bytes, sync))
  BY <1>2, <1>3, Zenon
<1>5. QED
  BY <1>4 DEF Is

(* What a sync leaves when it has moved enough, and in any case bytes *)
LEMMA FrameSyncedIs ==
  ASSUME NEW bytes \in Seq(FrameByte), NEW skipped \in 0 .. Len(bytes)
  PROVE  /\ FrameSynced(bytes, skipped) \in Seq(FrameByte)
         /\ Len(FrameSynced(bytes, skipped)) = Len(bytes) - skipped
         /\ ~(0 < skipped /\ skipped < Len(bytes) - skipped) =>
               \A j \in 1 .. Len(bytes) - skipped :
                  FrameSynced(bytes, skipped)[j] = bytes[j + skipped]
<1> DEFINE n == Len(bytes) - skipped
           x == FrameSynced(bytes, skipped)
<1>1. n \in Nat /\ Len(bytes) \in Nat /\ skipped \in Nat
  OBVIOUS
<1>2. x = [j \in 1 .. n |-> IF j <= skipped THEN bytes[j + skipped] ELSE bytes[j]]
  BY DEF FrameSynced
<1>3. \A j \in 1 .. n : j \in 1 .. Len(bytes) /\ j + skipped \in 1 .. Len(bytes)
  BY <1>1
<1>4. \A j \in 1 .. n : bytes[j] \in FrameByte /\ bytes[j + skipped] \in FrameByte
  BY <1>3
<1> HIDE DEF x, n
<1>5. x \in [1 .. n -> FrameByte]
  BY <1>2, <1>4
<1>6. x \in Seq(FrameByte) /\ Len(x) = n
  BY <1>1, <1>5
<1>7. ASSUME ~(0 < skipped /\ skipped < n), NEW j \in 1 .. n PROVE x[j] = bytes[j + skipped]
  <2>1. skipped = 0 => j + skipped = j
    BY <1>1
  <2>2. skipped # 0 => j <= skipped
    BY <1>1, <1>7
  <2>3. QED
    BY <1>2, <2>1, <2>2
<1>8. QED
  BY <1>6, <1>7 DEF x, n

(* What lies behind the first n bytes, if there are so many *)
LEMMA FrameAfterIs ==
  ASSUME NEW bytes \in Seq(FrameByte), NEW n \in Nat
  PROVE  /\ FrameAfter(bytes, n) \in Seq(FrameByte)
         /\ n <= Len(bytes) => /\ Len(FrameAfter(bytes, n)) = Len(bytes) - n
                               /\ \A j \in 1 .. Len(bytes) - n : FrameAfter(bytes, n)[j] = bytes[j + n]
<1>1. Len(bytes) \in Nat
  OBVIOUS
<1>2. CASE n <= Len(bytes)
  BY <1>1, <1>2 DEF FrameAfter
<1>3. CASE ~(n <= Len(bytes))
  <2>1. FrameAfter(bytes, n) = <<>>
    BY <1>1, <1>3 DEF FrameAfter
  <2>2. QED
    BY <1>3, <2>1
<1>4. QED
  BY <1>2, <1>3

(* The line of a stream, and where its next frame is: not in the buffer,
   if no call runs *)
FrameCutUp ==
    \E from, to :
       /\ FrameCut(frameFormat, frameSent, Len(frameGot), frameWritten \o frameLine, from, to)
       /\ frameAt = "idle" /\ Len(frameGot) < Len(frameSent) =>
             Len(frameWritten) < to[Len(frameGot) + 1]

(* At most one frame is in the call, and one on the line. *)
FrameOnePerCall ==
    LET k == Len(frameGot)
        n == Len(frameSent)
    IN  \/ /\ frameAt = "idle" /\ frameWritten = <<>> /\ frameLine = <<>> /\ n = k
        \/ /\ frameAt = "idle" /\ frameWritten = <<>> /\ n = k + 1
           /\ FrameWholeCarried(frameFormat, frameSent[k + 1], frameLine)
        \/ /\ frameAt = "loop" /\ frameLine = <<>> /\ n = k + 1
           /\ FrameWholeCarried(frameFormat, frameSent[k + 1], frameWritten)
        \/ /\ frameAt = "loop" /\ n = k + 2
           /\ FrameWholeCarried(frameFormat, frameSent[k + 1], frameWritten)
           /\ FrameWholeCarried(frameFormat, frameSent[k + 2], frameLine)

(* The frames that were dispatched are the first of those sent. *)
FrameOrder ==
    /\ Len(frameGot) \in 0 .. Len(frameSent)
    /\ frameGot = SubSeq(frameSent, 1, Len(frameGot))

(* The inductive invariant, of as long as no sync has slipped *)
FrameInv ==
    /\ FrameTypeOK /\ frameSent \in Seq(Seq(FrameByte))
    /\ ~frameSlipped =>
          /\ FrameOrder
          /\ frameFormat \in FrameStreams => FrameCutUp
          /\ frameFormat \notin FrameStreams => FrameOnePerCall

(* A frame is bytes. *)
LEMMA FrameOfType ==
  ASSUME frameFormat \in FrameFormats, NEW payload \in FramePayloads[frameFormat]
  PROVE  FrameOf(payload) \in Seq(FrameByte)
<1> DEFINE n == Len(payload)
<1>1. /\ payload \in Seq(FrameByte) /\ n \in Nat /\ n <= 252
  <2>1. payload \in Seq(FrameByte) /\ n <= 252
    BY FramePayloadsAssumption
  <2>2. QED
    BY <2>1
<1> HIDE DEF n
<1>2. /\ n \in FrameByte /\ n + 1 \in FrameByte /\ n + 3 \in FrameByte
      /\ 1 \in FrameByte /\ 224 \in FrameByte /\ 255 \in FrameByte
  BY <1>1 DEF FrameByte
<1>3. frameFormat \in FrameStreams \cup {"sg", "jvs"}
  BY FrameFormatsAssumption
<1>4. \A head \in Seq(FrameByte) : head \o payload \in Seq(FrameByte)
  BY <1>1, ConcatProperties
<1>5. /\ <<255, 1, n>> \in Seq(FrameByte) /\ <<224, 1, 1, n>> \in Seq(FrameByte)
      /\ <<224, 1, n>> \in Seq(FrameByte) /\ <<n + 3, 1, 1>> \in Seq(FrameByte)
      /\ <<1, n + 1>> \in Seq(FrameByte)
  BY <1>2
<1>6. \E head \in Seq(FrameByte) : FrameOf(payload) = head \o payload
  <2>1. CASE frameFormat = "slider"
    BY <1>5, <2>1 DEF FrameOf, n
  <2>2. CASE frameFormat = "led"
    BY <1>5, <2>2 DEF FrameOf, n
  <2>3. CASE frameFormat = "rfid"
    BY <1>5, <2>3 DEF FrameOf, n
  <2>4. CASE frameFormat = "sg"
    BY <1>5, <2>4 DEF FrameOf, n
  <2>5. CASE frameFormat = "jvs"
    BY <1>5, <2>5 DEF FrameOf, n
  <2>6. QED
    BY <1>3, <2>1, <2>2, <2>3, <2>4, <2>5 DEF FrameStreams
<1>7. QED
  BY <1>4, <1>6

(* FrameInit has an empty line. *)
LEMMA FrameInvInit == FrameInit => FrameInv
<1> SUFFICES ASSUME FrameInit PROVE FrameInv
  OBVIOUS
<1>1. /\ frameFormat \in FrameFormats /\ frameLine = <<>> /\ frameWritten = <<>>
      /\ frameAt = "idle" /\ frameSent = <<>> /\ frameGot = <<>> /\ frameSlipped = FALSE
  BY DEF FrameInit
<1>2. FrameTypeOK /\ frameSent \in Seq(Seq(FrameByte))
  <2>1. <<>> \in Seq(FrameByte) /\ <<>> \in Seq(Seq(FrameByte))
    BY Zenon, EmptySeq
  <2>2. Len(frameSent) = 0 /\ 0 <= FrameMax
    BY <1>1, FrameBoundsAssumption
  <2>3. QED
    BY <1>1, <2>1, <2>2 DEF FrameTypeOK
<1>3. FrameOrder
  BY <1>1 DEF FrameOrder
<1>4. FrameCutUp
  <2> DEFINE to == [i \in 0 .. 0 |-> 0]
  <2>1. to[0] = 0 /\ \A i \in 0 .. 0 : to[i] \in Nat
    OBVIOUS
  <2>2. Len(frameGot) = 0 /\ Len(frameSent) = 0 /\ Len(frameWritten \o frameLine) = 0
    BY <1>1
  <2>3. (\A i \in 0 .. 0 : i = 0) /\ (\A i \in 0 + 1 .. 0 : FALSE)
    OBVIOUS
  <2> HIDE DEF to
  <2>4. \A i, j \in 0 .. 0 : to[i] <= to[j]
    BY <2>1, <2>3
  <2>5. FrameCut(frameFormat, frameSent, 0, frameWritten \o frameLine, to, to)
    BY <2>1, <2>2, <2>3, <2>4 DEF FrameCut
  <2>6. QED
    BY <2>2, <2>5 DEF FrameCutUp
<1>5. FrameOnePerCall
  BY <1>1 DEF FrameOnePerCall
<1>6. QED
  BY <1>2, <1>3, <1>4, <1>5 DEF FrameInv

(* The pieces of the line that a step puts together or takes apart *)
LEMMA FrameJoin ==
  ASSUME NEW a \in Seq(FrameByte), NEW b \in Seq(FrameByte)
  PROVE  /\ a \o b \in Seq(FrameByte) /\ Len(a \o b) = Len(a) + Len(b)
         /\ Len(a) \in Nat /\ Len(b) \in Nat
         /\ \A j \in 1 .. Len(a) : (a \o b)[j] = a[j]
         /\ \A j \in 1 .. Len(b) : (a \o b)[Len(a) + j] = b[j]
<1>1. Len(a) \in Nat /\ Len(b) \in Nat
  OBVIOUS
<1>2. \A j \in 1 .. Len(b) : Len(a) + j \in 1 .. Len(a) + Len(b) /\ ~(Len(a) + j <= Len(a))
                             /\ Len(a) + j - Len(a) = j
  BY <1>1
<1>3. \A j \in 1 .. Len(a) : j \in 1 .. Len(a) + Len(b) /\ j <= Len(a)
  BY <1>1
<1>4. QED
  BY <1>1, <1>2, <1>3, ConcatProperties

(* A write moves bytes from the line to the buffer; together they stay
   what they were. *)
LEMMA FrameCutInTwo ==
  ASSUME NEW a \in Seq(FrameByte), NEW b \in Seq(FrameByte), NEW n \in 1 .. Len(b)
  PROVE  /\ a \o SubSeq(b, 1, n) \in Seq(FrameByte) /\ FrameAfter(b, n) \in Seq(FrameByte)
         /\ (a \o SubSeq(b, 1, n)) \o FrameAfter(b, n) = a \o b
<1> DEFINE c == SubSeq(b, 1, n)
           d == FrameAfter(b, n)
<1>1. /\ c \in Seq(FrameByte) /\ Len(c) = n /\ \A j \in 1 .. n : c[j] = b[j]
  BY SubSeqProperties
<1>2. /\ d \in Seq(FrameByte) /\ Len(d) = Len(b) - n
      /\ \A j \in 1 .. Len(b) - n : d[j] = b[j + n]
  <2>1. n \in Nat /\ n <= Len(b)
    OBVIOUS
  <2>2. QED
    BY <2>1, FrameAfterIs
<1> HIDE DEF c, d
<1>3. c \o d = b
  <2>0. c \in Seq(FrameByte) /\ d \in Seq(FrameByte)
    BY <1>1, <1>2
  <2>9. /\ c \o d \in Seq(FrameByte) /\ Len(c \o d) = Len(c) + Len(d)
        /\ \A j \in 1 .. Len(c) : (c \o d)[j] = c[j]
        /\ \A j \in 1 .. Len(d) : (c \o d)[Len(c) + j] = d[j]
    BY ONLY <2>0, FrameJoin
  <2>1. /\ c \o d \in Seq(FrameByte) /\ Len(c \o d) = Len(b)
        /\ \A j \in 1 .. Len(c) : (c \o d)[j] = c[j]
        /\ \A j \in 1 .. Len(d) : (c \o d)[Len(c) + j] = d[j]
    BY <1>1, <1>2, <2>9
  <2>2. ASSUME NEW j \in 1 .. Len(b) PROVE (c \o d)[j] = b[j]
    <3>1. CASE j <= n
      BY <1>1, <2>1, <3>1
    <3>2. CASE ~(j <= n)
      <4> DEFINE i == j - n
      <4>1. i \in 1 .. Len(b) - n /\ n + i = j /\ i + n = j
        BY <3>2
      <4> HIDE DEF i
      <4>2. QED
        BY <1>1, <1>2, <2>1, <4>1
    <3>3. QED
      BY <3>1, <3>2
  <2> DEFINE e == c \o d
  <2> HIDE DEF e
  <2>3. e \in Seq(FrameByte) /\ Len(e) = Len(b) /\ \A j \in 1 .. Len(b) : e[j] = b[j]
    BY <2>1, <2>2 DEF e
  <2>4. e = b
    BY <2>3
  <2>5. QED
    BY <2>4 DEF e
<1>4. a \o c \in Seq(FrameByte) /\ (a \o c) \o d = a \o (c \o d)
  <2>1. a \in Seq(FrameByte) /\ c \in Seq(FrameByte) /\ d \in Seq(FrameByte)
    BY <1>1, <1>2
  <2>2. a \o c \in Seq(FrameByte)
    BY <2>1, ConcatProperties
  <2>3. (a \o c) \o d = a \o (c \o d)
    BY ONLY <2>1, ConcatAssociative
  <2>4. QED
    BY <2>2, <2>3
<1>5. (a \o c) \o d = a \o b
  BY <1>3, <1>4
<1>6. QED
  BY <1>2, <1>4, <1>5 DEF c, d

(* A frame behind those sent, and the next of them *)
FrameBehind(sent, frame, k) ==
    LET more == Append(sent, frame)
    IN  /\ more \in Seq(Seq(FrameByte)) /\ Len(more) = Len(sent) + 1
        /\ \A i \in 1 .. Len(sent) : more[i] = sent[i]
        /\ more[Len(sent) + 1] = frame /\ SubSeq(more, 1, k) = SubSeq(sent, 1, k)

(* A frame sent behind others leaves those as they were. *)
LEMMA FrameBehindThose ==
  ASSUME NEW sent \in Seq(Seq(FrameByte)), NEW frame \in Seq(FrameByte), NEW k \in 0 .. Len(sent)
  PROVE  FrameBehind(sent, frame, k)
<1> DEFINE more == Append(sent, frame)
           F == Seq(FrameByte)
<1> HIDE DEF F
<1>1. sent \in Seq(F) /\ frame \in F
  BY DEF F
<1>2. /\ more \in Seq(F) /\ Len(more) = Len(sent) + 1 /\ Len(sent) \in Nat
      /\ \A i \in 1 .. Len(sent) : more[i] = sent[i]
      /\ more[Len(sent) + 1] = frame
  BY <1>1
<1> HIDE DEF more
<1>3. SubSeq(more, 1, k) = [i \in 1 .. k |-> more[i]] /\ SubSeq(sent, 1, k) = [i \in 1 .. k |-> sent[i]]
  <2>1. k \in Nat /\ k <= Len(sent) /\ k <= Len(more)
    BY <1>2
  <2>2. QED
    BY <1>1, <1>2, <2>1
<1>4. \A i \in 1 .. k : more[i] = sent[i]
  BY <1>2
<1>5. SubSeq(more, 1, k) = SubSeq(sent, 1, k)
  BY <1>3, <1>4
<1>6. QED
  BY <1>2, <1>5 DEF FrameBehind, more, F

(* One frame more dispatched is the next of those sent. *)
LEMMA FrameOneMore ==
  ASSUME NEW sent \in Seq(Seq(FrameByte)), NEW k \in Nat, k < Len(sent)
  PROVE  /\ Append(SubSeq(sent, 1, k), sent[k + 1]) = SubSeq(sent, 1, k + 1)
         /\ Len(SubSeq(sent, 1, k + 1)) = k + 1
<1> DEFINE F == Seq(FrameByte)
           got == SubSeq(sent, 1, k)
           more == Append(got, sent[k + 1])
           u == k + 1
           part == SubSeq(sent, 1, u)
<1> HIDE DEF F
<1>1. sent \in Seq(F) /\ u \in Nat /\ u <= Len(sent) /\ Len(sent) \in Nat /\ u \in 1 .. Len(sent)
  BY DEF F
<1>2. got \in Seq(F) /\ Len(got) = k /\ \A i \in 1 .. k : got[i] = sent[i]
  BY <1>1
<1>3. part \in Seq(F) /\ Len(part) = u /\ \A i \in 1 .. u : part[i] = sent[i]
  <2> HIDE DEF u
  <2>1. QED
    BY <1>1
<1>4. more \in Seq(F) /\ Len(more) = u /\ \A i \in 1 .. u : more[i] = sent[i]
  <2>1. sent[u] \in F
    BY <1>1
  <2> HIDE DEF got
  <2>2. /\ more \in Seq(F) /\ Len(more) = k + 1 /\ \A i \in 1 .. k : more[i] = got[i]
        /\ more[k + 1] = sent[k + 1]
    BY <1>2, <2>1
  <2> HIDE DEF more
  <2>3. \A i \in 1 .. k + 1 : i \in 1 .. k \/ i = k + 1
    OBVIOUS
  <2>4. QED
    BY <1>2, <2>2, <2>3
<1> HIDE DEF more, part
<1>5. more = part
  <2>1. /\ more \in Seq(F) /\ part \in Seq(F) /\ Len(more) = Len(part)
        /\ \A i \in 1 .. Len(more) : more[i] = part[i]
    BY <1>3, <1>4
  <2>2. QED
    BY ONLY <2>1
<1>6. QED
  BY <1>3, <1>5 DEF more, part

(* However three pieces of a line are put together *)
FrameThree(a, b, c) == (a \o b) \o c = a \o (b \o c)

(* Either way. *)
LEMMA FrameThreeAgree ==
  ASSUME NEW a \in Seq(FrameByte), NEW b \in Seq(FrameByte), NEW c \in Seq(FrameByte)
  PROVE  FrameThree(a, b, c)
BY ConcatAssociative DEF FrameThree

(* What a frame adds to the line *)
FrameJoined(w, line, noise, enc) ==
    LET bytes == w \o line
        longer == w \o (line \o noise \o enc)
    IN  /\ bytes \in Seq(FrameByte) /\ longer \in Seq(FrameByte)
        /\ line \o noise \o enc \in Seq(FrameByte)
        /\ Len(line \o noise \o enc) = Len(line) + Len(noise) + Len(enc)
        /\ Len(longer) = Len(bytes) + Len(noise) + Len(enc)
        /\ \A j \in 1 .. Len(bytes) : longer[j] = bytes[j]
        /\ \A j \in 1 .. Len(noise) : longer[Len(bytes) + j] = noise[j]
        /\ \A j \in 1 .. Len(enc) : longer[Len(bytes) + Len(noise) + j] = enc[j]

(* Noise and a frame's line go behind what is there. *)
LEMMA FrameJoins ==
  ASSUME NEW w \in Seq(FrameByte), NEW line \in Seq(FrameByte), NEW noise \in Seq(FrameByte),
         NEW enc \in Seq(FrameByte)
  PROVE  FrameJoined(w, line, noise, enc)
<1> DEFINE bytes == w \o line
           front == line \o noise
           all == front \o enc
           with == bytes \o noise
           longer == w \o all
           end == with \o enc
<1>1. front \in Seq(FrameByte) /\ Len(front) = Len(line) + Len(noise)
  BY FrameJoin
<1>2. bytes \in Seq(FrameByte) /\ w \o front = with
  <2>1. bytes \in Seq(FrameByte)
    BY FrameJoin
  <2>2. w \o front = with
    <3>1. FrameThree(w, line, noise)
      BY FrameThreeAgree
    <3>2. QED
      BY <3>1 DEF FrameThree
  <2>3. QED
    BY <2>1, <2>2
<1> HIDE DEF bytes, front
<1>3. /\ with \in Seq(FrameByte) /\ Len(with) = Len(bytes) + Len(noise)
      /\ \A j \in 1 .. Len(bytes) : with[j] = bytes[j]
      /\ \A j \in 1 .. Len(noise) : with[Len(bytes) + j] = noise[j]
  BY <1>2, FrameJoin
<1>4. all \in Seq(FrameByte) /\ Len(all) = Len(front) + Len(enc)
  BY <1>1, FrameJoin
<1>5. longer = (w \o front) \o enc
  <2>1. FrameThree(w, front, enc)
    BY <1>1, FrameThreeAgree
  <2>2. QED
    BY <2>1 DEF FrameThree
<1> HIDE DEF with
<1>6. /\ end \in Seq(FrameByte) /\ Len(end) = Len(with) + Len(enc)
      /\ \A j \in 1 .. Len(with) : end[j] = with[j]
      /\ \A j \in 1 .. Len(enc) : end[Len(with) + j] = enc[j]
  BY <1>3, FrameJoin
<1>7. longer = end
  BY <1>2, <1>5
<1> HIDE DEF end, longer, all
<1>8. Len(bytes) \in Nat /\ Len(noise) \in Nat
  BY <1>2
<1>9. /\ \A j \in 1 .. Len(bytes) : j \in 1 .. Len(with)
      /\ \A j \in 1 .. Len(noise) : Len(bytes) + j \in 1 .. Len(with)
  BY <1>3, <1>8
<1>10. /\ \A j \in 1 .. Len(bytes) : end[j] = bytes[j]
       /\ \A j \in 1 .. Len(noise) : end[Len(bytes) + j] = noise[j]
       /\ \A j \in 1 .. Len(enc) : end[Len(bytes) + Len(noise) + j] = enc[j]
  BY <1>3, <1>6, <1>9
<1>11. QED
  BY <1>1, <1>2, <1>3, <1>4, <1>6, <1>7, <1>10 DEF FrameJoined, bytes, longer, all, front

(* The cuts of a line with one frame more *)
LEMMA FrameCutSent ==
  ASSUME NEW format, NEW sent, NEW n \in Nat, n = Len(sent), NEW k \in 0 .. n, NEW bytes,
         NEW from, NEW to, FrameCut(format, sent, k, bytes, from, to), Len(bytes) \in Nat,
         NEW frame, NEW more, more = Append(sent, frame), FrameBehind(sent, frame, k),
         NEW longer, NEW p, Len(longer) \in Nat,
         \A j \in 1 .. Len(bytes) : longer[j] = bytes[j],
         FrameSegment(format, frame, longer, Len(bytes), p, Len(longer))
  PROVE  FrameCutTo(format, more, k, longer, n, to)
<1>1. /\ Len(more) = Len(sent) + 1 /\ \A i \in 1 .. Len(sent) : more[i] = sent[i]
      /\ more[Len(more)] = frame
  BY DEF FrameBehind
<1>2. k \in Nat /\ k <= Len(sent) /\ Len(sent) \in Nat
  OBVIOUS
<1>3. FrameSegment(format, more[Len(more)], longer, Len(bytes), p, Len(longer))
  BY <1>1
<1>4. FrameCutTo(format, more, k, longer, Len(sent), to)
  BY <1>1, <1>2, <1>3, FrameCutLonger
<1>5. QED
  BY <1>4

(* A segment for a frame that the game has put on the line *)
LEMMA FrameSegmentBehind ==
  ASSUME NEW format, NEW frame, NEW enc, FrameCarried(format, frame, enc), NEW w, NEW line,
         NEW noise \in FrameNoises, noise \in Seq(FrameByte),
         \A i \in 1 .. Len(noise) : noise[i] # FrameSyncOf(format),
         FrameJoined(w, line, noise, enc), NEW longer, longer = w \o (line \o noise \o enc),
         NEW bytes, bytes = w \o line
  PROVE  FrameSegment(format, frame, longer, Len(bytes), Len(bytes) + Len(noise), Len(longer))
<1> DEFINE b == Len(bytes)
           p == b + Len(noise)
           t == Len(longer)
<1>1. /\ b \in Nat /\ Len(noise) \in Nat /\ Len(enc) \in Nat /\ 1 <= Len(enc)
      /\ t = p + Len(enc)
      /\ \A j \in 1 .. Len(noise) : longer[b + j] = noise[j]
      /\ \A j \in 1 .. Len(enc) : longer[p + j] = enc[j]
  BY DEF FrameJoined, FrameCarried
<1> HIDE DEF b, p, t
<1>2. p = b + Len(noise) /\ p \in Nat /\ t \in Nat /\ b <= p /\ p < t
  BY <1>1 DEF p
<1>3. ASSUME NEW j \in b + 1 .. p PROVE longer[j] # FrameSyncOf(format)
  <2> DEFINE i == j - b
  <2>1. i \in 1 .. Len(noise) /\ b + i = j
    BY <1>1, <1>2
  <2> HIDE DEF i
  <2>2. longer[b + i] = noise[i]
    BY <1>1, <2>1
  <2>3. QED
    BY <2>1, <2>2
<1>4. FrameQuiet => b = p
  <2>1. FrameQuiet => Len(noise) = 0
    BY DEF FrameQuiet
  <2>2. QED
    BY <1>1, <1>2, <2>1
<1>6. FrameSegment(format, frame, longer, b, p, t)
  BY <1>1, <1>2, <1>3, <1>4 DEF FrameSegment
<1>5. QED
  BY <1>6 DEF b, p, t

(* A frame sent on a stream is one cut more. *)
LEMMA FrameCutUpSent ==
  ASSUME FrameInv, ~frameSlipped, frameFormat \in FrameStreams,
         NEW payload \in FramePayloads[frameFormat], NEW noise \in FrameNoises,
         FrameSend(payload, noise)
  PROVE  FrameCutUp'
<1> DEFINE frame == FrameOf(payload)
           enc == FrameEncode(frame)
           bytes == frameWritten \o frameLine
           longer == frameWritten \o (frameLine \o noise \o enc)
           k == Len(frameGot)
           n == Len(frameSent)
           more == Append(frameSent, frame)
<1>1. /\ frameFormat \in FrameFormats /\ frameLine \in Seq(FrameByte)
      /\ frameWritten \in Seq(FrameByte) /\ frameSent \in Seq(Seq(FrameByte))
      /\ k \in 0 .. n /\ n \in Nat /\ FrameCutUp
  BY DEF FrameInv, FrameTypeOK, FrameOrder
<1>2. frame \in Seq(FrameByte) /\ FrameCarried(frameFormat, frame, enc)
  BY <1>1, FrameOfType, FrameStreamCarries
<1>3. noise \in Seq(FrameByte) /\ \A i \in 1 .. Len(noise) : noise[i] # FrameSyncOf(frameFormat)
  BY <1>1, FrameNoisesAssumption
<1>4. /\ frameLine' = frameLine \o noise \o enc /\ frameSent' = more /\ frameFormat' = frameFormat
      /\ frameWritten' = frameWritten /\ frameAt' = frameAt /\ frameGot' = frameGot
  BY DEF FrameSend
<1>5. PICK from, to :
         /\ FrameCut(frameFormat, frameSent, k, bytes, from, to)
         /\ frameAt = "idle" /\ k < n => Len(frameWritten) < to[k + 1]
  BY <1>1 DEF FrameCutUp
<1> HIDE DEF frame, enc
<1>6. FrameJoined(frameWritten, frameLine, noise, enc)
  <2>1. enc \in Seq(FrameByte)
    BY <1>2 DEF FrameCarried
  <2>2. QED
    BY <1>1, <1>3, <2>1, FrameJoins
<1>7. FrameBehind(frameSent, frame, k)
  BY <1>1, <1>2, FrameBehindThose
<1> DEFINE p == Len(bytes) + Len(noise)
<1>8. FrameSegment(frameFormat, frame, longer, Len(bytes), p, Len(longer))
  BY <1>2, <1>3, <1>6, FrameSegmentBehind
<1>9. /\ Len(bytes) \in Nat /\ Len(longer) \in Nat /\ Len(longer) = p + Len(enc)
      /\ \A j \in 1 .. Len(bytes) : longer[j] = bytes[j] 
  BY <1>6 DEF FrameJoined
<1>10. Len(more) = n + 1 /\ (\A i \in 1 .. n : more[i] = frameSent[i]) /\ more[n + 1] = frame
  BY <1>7 DEF FrameBehind
<1> HIDE DEF bytes, longer, more, p
<1>11. PICK first, last : /\ FrameCut(frameFormat, more, k, longer, first, last)
                          /\ \A i \in k .. n : last[i] = to[i]
  <2>1. more = Append(frameSent, frame)
    BY DEF more
  <2>2. FrameCutTo(frameFormat, more, k, longer, n, to)
    BY <1>1, <1>5, <1>7, <1>8, <1>9, <2>1, FrameCutSent
  <2>3. QED
    BY <2>2 DEF FrameCutTo
<1>12. ASSUME frameAt = "idle" PROVE Len(frameWritten) < last[k + 1]
  <2>1. CASE k < n
    <3>1. k + 1 \in k .. n
      BY <1>1, <2>1
    <3>2. QED
      BY <1>5, <1>11, <1>12, <2>1, <3>1
  <2>2. CASE ~(k < n)
    <3>1. k = n
      BY <1>1, <2>2
    <3>2. Len(bytes) = 0
      BY <1>5, <3>1 DEF FrameCut
    <3>3. Len(frameWritten) = 0
      <4>1. Len(bytes) = Len(frameWritten) + Len(frameLine)
        BY <1>1, FrameJoin DEF bytes
      <4>2. Len(frameWritten) \in Nat /\ Len(frameLine) \in Nat
        BY <1>1
      <4>3. QED
        BY <3>2, <4>1, <4>2
    <3>4. last[k + 1] = Len(longer)
      BY <1>10, <1>11, <3>1 DEF FrameCut
    <3>5. 0 < Len(longer)
      BY <1>8 DEF FrameSegment
    <3>6. QED
      BY <3>3, <3>4, <3>5
  <2>3. QED
    BY <2>1, <2>2
<1>13. Len(frameGot') = k /\ frameWritten' \o frameLine' = longer
  BY <1>4 DEF longer
<1>14. QED
  BY <1>4, <1>11, <1>12, <1>13 DEF FrameCutUp

(* A whole frame is sent only when the line is empty. *)
LEMMA FrameOneSent ==
  ASSUME FrameInv, ~frameSlipped, frameFormat \notin FrameStreams,
         NEW payload \in FramePayloads[frameFormat], NEW noise, FrameSend(payload, noise)
  PROVE  FrameOnePerCall'
<1> DEFINE frame == FrameOf(payload)
           enc == FrameEncode(frame)
           k == Len(frameGot)
           n == Len(frameSent)
           more == Append(frameSent, frame)
<1>1. /\ frameFormat \in FrameFormats /\ frameSent \in Seq(Seq(FrameByte))
      /\ k \in 0 .. n /\ n \in Nat /\ FrameOnePerCall
  BY DEF FrameInv, FrameTypeOK, FrameOrder
<1>2. frame \in Seq(FrameByte) /\ FrameWholeCarried(frameFormat, frame, enc)
  BY <1>1, FrameOfType, FrameWholeStreamCarries
<1>3. /\ frameLine = <<>> /\ noise = <<>>
      /\ frameLine' = frameLine \o noise \o enc /\ frameSent' = more /\ frameFormat' = frameFormat
      /\ frameWritten' = frameWritten /\ frameAt' = frameAt /\ frameGot' = frameGot
  BY DEF FrameSend
<1> HIDE DEF frame, enc
<1>4. frameLine' = enc
  <2>1. enc \in Seq(FrameByte)
    BY <1>2 DEF FrameWholeCarried
  <2>2. QED
    BY <1>3, <2>1
<1>5. FrameBehind(frameSent, frame, k)
  BY <1>1, <1>2, FrameBehindThose
<1>6. Len(more) = n + 1 /\ (\A i \in 1 .. n : more[i] = frameSent[i]) /\ more[n + 1] = frame
  BY <1>5 DEF FrameBehind
<1> HIDE DEF more
<1>7. ~FrameWholeCarried(frameFormat, frameSent[k + 1], frameLine)
      /\ ~FrameWholeCarried(frameFormat, frameSent[k + 2], frameLine)
  BY <1>3 DEF FrameWholeCarried
<1>8. CASE frameAt = "idle" /\ frameWritten = <<>> /\ n = k
  <2>1. Len(frameSent') = k + 1 /\ frameSent'[k + 1] = frame
    BY <1>3, <1>6, <1>8
  <2>2. QED
    BY <1>2, <1>3, <1>4, <1>8, <2>1 DEF FrameOnePerCall
<1>9. CASE /\ frameAt = "loop" /\ n = k + 1
           /\ FrameWholeCarried(frameFormat, frameSent[k + 1], frameWritten)
  <2>1. /\ Len(frameSent') = k + 2 /\ frameSent'[k + 2] = frame /\ Len(frameGot') = k
        /\ frameSent'[k + 1] = frameSent[k + 1]
    BY <1>1, <1>3, <1>6, <1>9
  <2>2. QED
    BY <1>2, <1>3, <1>4, <1>9, <2>1 DEF FrameOnePerCall
<1>10. QED
  BY <1>1, <1>7, <1>8, <1>9 DEF FrameOnePerCall

(* The game's next frame *)
LEMMA FrameSendInv ==
  ASSUME FrameInv, NEW payload \in FramePayloads[frameFormat], NEW noise \in FrameNoises,
         FrameSend(payload, noise)
  PROVE  FrameInv'
<1> DEFINE frame == FrameOf(payload)
           enc == FrameEncode(frame)
           k == Len(frameGot)
           n == Len(frameSent)
<1>1. /\ frameFormat \in FrameFormats /\ frameLine \in Seq(FrameByte)
      /\ frameWritten \in Seq(FrameByte) /\ frameAt \in {"idle", "loop"}
      /\ frameSlipped \in BOOLEAN /\ frameSent \in Seq(Seq(FrameByte)) /\ n \in Nat
      /\ n <= FrameMax
  BY DEF FrameInv, FrameTypeOK
<1>2. frame \in Seq(FrameByte) /\ enc \in Seq(FrameByte)
  <2>1. frame \in Seq(FrameByte)
    BY <1>1, FrameOfType
  <2>2. CASE frameFormat \in FrameStreams
    <3>1. FrameCarried(frameFormat, frame, enc)
      BY <1>1, <2>2, FrameStreamCarries
    <3>2. QED
      BY <2>1, <3>1 DEF FrameCarried
  <2>3. CASE frameFormat \notin FrameStreams
    <3>1. FrameWholeCarried(frameFormat, frame, enc)
      BY <1>1, <2>3, FrameWholeStreamCarries
    <3>2. QED
      BY <2>1, <3>1 DEF FrameWholeCarried
  <2>4. QED
    BY <2>1, <2>2, <2>3
<1>3. noise \in Seq(FrameByte)
  <2>1. CASE frameFormat \in FrameStreams
    BY <1>1, <2>1, FrameNoisesAssumption
  <2>2. CASE frameFormat \notin FrameStreams
    BY <2>2 DEF FrameSend
  <2>3. QED
    BY <2>1, <2>2
<1>4. /\ frameLine' = frameLine \o noise \o enc /\ frameSent' = Append(frameSent, frame)
      /\ frameFormat' = frameFormat /\ frameWritten' = frameWritten /\ frameAt' = frameAt
      /\ frameGot' = frameGot /\ frameSlipped' = frameSlipped /\ n < FrameMax
  BY DEF FrameSend
<1>5. frameLine' \in Seq(FrameByte)
  <2>1. FrameJoined(frameWritten, frameLine, noise, enc)
    BY <1>1, <1>2, <1>3, FrameJoins
  <2>2. QED
    BY <1>4, <2>1 DEF FrameJoined
<1>6. FrameTypeOK' /\ frameSent' \in Seq(Seq(FrameByte))
  <2> HIDE DEF frame
  <2>1. 0 \in 0 .. n
    BY <1>1
  <2>2. FrameBehind(frameSent, frame, 0)
    BY <1>1, <1>2, <2>1, FrameBehindThose
  <2>3. frameSent' \in Seq(Seq(FrameByte)) /\ Len(frameSent') = n + 1
    BY <1>4, <2>2 DEF FrameBehind
  <2>4. n + 1 <= FrameMax
    BY <1>1, <1>4, FrameBoundsAssumption
  <2>5. QED
    BY <1>1, <1>4, <1>5, <2>3, <2>4 DEF FrameTypeOK
<1>7. ASSUME ~frameSlipped PROVE FrameOrder'
  <2> HIDE DEF frame
  <2>1. k \in 0 .. n /\ frameGot = SubSeq(frameSent, 1, k)
    BY <1>7 DEF FrameInv, FrameOrder
  <2>2. FrameBehind(frameSent, frame, k)
    BY <1>1, <1>2, <2>1, FrameBehindThose
  <2>3. Len(frameSent') = n + 1 /\ SubSeq(frameSent', 1, k) = SubSeq(frameSent, 1, k)
    BY <1>4, <2>2 DEF FrameBehind
  <2>4. k \in 0 .. n + 1
    BY <1>1, <2>1
  <2>5. QED
    BY <1>4, <2>1, <2>3, <2>4 DEF FrameOrder
<1>8. ASSUME ~frameSlipped, frameFormat \in FrameStreams PROVE FrameCutUp'
  BY <1>8, FrameCutUpSent
<1>9. ASSUME ~frameSlipped, frameFormat \notin FrameStreams PROVE FrameOnePerCall'
  BY <1>9, FrameOneSent
<1>10. QED
  BY <1>4, <1>6, <1>7, <1>8, <1>9 DEF FrameInv

(* uart_handle_irp of a write *)
LEMMA FrameWriteInv ==
  ASSUME FrameInv, NEW n \in 1 .. Len(frameLine), FrameWrite(n)
  PROVE  FrameInv'
<1> DEFINE w == frameWritten \o SubSeq(frameLine, 1, n)
           line == FrameAfter(frameLine, n)
           k == Len(frameGot)
<1>1. /\ frameFormat \in FrameFormats /\ frameLine \in Seq(FrameByte)
      /\ frameWritten \in Seq(FrameByte) /\ frameSlipped \in BOOLEAN
      /\ frameSent \in Seq(Seq(FrameByte)) /\ Len(frameSent) <= FrameMax
  BY DEF FrameInv, FrameTypeOK
<1>2. /\ frameAt = "idle" /\ frameWritten' = w /\ frameLine' = line /\ frameAt' = "loop"
      /\ frameFormat' = frameFormat /\ frameSent' = frameSent /\ frameGot' = frameGot
      /\ frameSlipped' = frameSlipped
  BY DEF FrameWrite
<1>3. w \in Seq(FrameByte) /\ line \in Seq(FrameByte) /\ w \o line = frameWritten \o frameLine
  BY <1>1, FrameCutInTwo
<1> HIDE DEF w, line
<1>4. FrameTypeOK' /\ frameSent' \in Seq(Seq(FrameByte))
  BY <1>1, <1>2, <1>3 DEF FrameTypeOK
<1>5. ASSUME ~frameSlipped PROVE FrameOrder'
  <2>1. FrameOrder
    BY <1>5 DEF FrameInv
  <2>2. QED
    BY <1>2, <2>1 DEF FrameOrder
<1>6. ASSUME ~frameSlipped, frameFormat \in FrameStreams PROVE FrameCutUp'
  <2>1. PICK from, to : FrameCut(frameFormat, frameSent, k, frameWritten \o frameLine, from, to)
    BY <1>6 DEF FrameInv, FrameCutUp
  <2>2. frameWritten' \o frameLine' = frameWritten \o frameLine
    BY <1>2, <1>3
  <2>3. FrameCut(frameFormat', frameSent', Len(frameGot'), frameWritten' \o frameLine', from, to)
    BY <1>2, <2>1, <2>2
  <2>4. QED
    BY <1>2, <2>3 DEF FrameCutUp
<1>7. ASSUME ~frameSlipped, frameFormat \notin FrameStreams PROVE FrameOnePerCall'
  <2>1. n = Len(frameLine) /\ Len(frameLine) \in Nat /\ Len(frameLine) # 0
    BY <1>1, <1>7 DEF FrameWrite
  <2>2. /\ frameWritten = <<>> /\ Len(frameSent) = k + 1
        /\ FrameWholeCarried(frameFormat, frameSent[k + 1], frameLine)
    <3>1. frameLine # <<>>
      BY <2>1
    <3>2. FrameOnePerCall
      BY <1>7 DEF FrameInv
    <3>3. QED
      BY <1>2, <3>1, <3>2 DEF FrameOnePerCall
  <2>3. SubSeq(frameLine, 1, n) = frameLine
    BY <1>1, <2>1
  <2>4. w = frameLine
    BY <1>1, <2>2, <2>3 DEF w
  <2>5. line = <<>>
    BY <1>1, <2>1 DEF line, FrameAfter
  <2>6. QED
    BY <1>2, <2>2, <2>4, <2>5 DEF FrameOnePerCall
<1>8. QED
  BY <1>2, <1>4, <1>5, <1>6, <1>7 DEF FrameInv

(* sg_req_transact, jvs_crack_request *)
LEMMA FrameDecodeWholeInv ==
  ASSUME FrameInv, FrameDecodeWhole
  PROVE  FrameInv'
<1> DEFINE k == Len(frameGot)
           decoder == FrameWholeOf(frameFormat, frameWritten)
<1>1. /\ frameFormat \in FrameFormats /\ frameLine \in Seq(FrameByte)
      /\ frameSlipped \in BOOLEAN
      /\ frameSent \in Seq(Seq(FrameByte)) /\ Len(frameSent) <= FrameMax
  BY DEF FrameInv, FrameTypeOK
<1>2. /\ frameAt = "loop" /\ frameFormat \notin FrameStreams /\ frameWritten' = <<>>
      /\ frameAt' = "idle" /\ frameLine' = frameLine
      /\ frameFormat' = frameFormat /\ frameSent' = frameSent /\ frameSlipped' = frameSlipped
      /\ frameGot' = IF decoder.hr = "ok" THEN Append(frameGot, FrameFront(decoder.dest))
                     ELSE frameGot
  BY DEF FrameDecodeWhole, FrameTaken, FrameWholeOf
<1> HIDE DEF decoder
<1>3. FrameTypeOK' /\ frameSent' \in Seq(Seq(FrameByte))
  <2>1. <<>> \in Seq(FrameByte)
    BY EmptySeq
  <2>2. QED
    BY <1>1, <1>2, <2>1 DEF FrameTypeOK
<1>4. ASSUME ~frameSlipped PROVE FrameOrder' /\ FrameOnePerCall'
  <2>1. FrameOrder /\ FrameOnePerCall
    BY <1>2, <1>4 DEF FrameInv
  <2>2. /\ FrameWholeCarried(frameFormat, frameSent[k + 1], frameWritten)
        /\ \/ Len(frameSent) = k + 1 /\ frameLine = <<>>
           \/ /\ Len(frameSent) = k + 2
              /\ FrameWholeCarried(frameFormat, frameSent[k + 2], frameLine)
    BY <1>2, <2>1 DEF FrameOnePerCall
  <2>3. frameGot' = Append(frameGot, frameSent[k + 1])
    BY <1>2, <2>2 DEF FrameWholeCarried, decoder
  <2>4. k \in Nat /\ k < Len(frameSent) /\ frameGot = SubSeq(frameSent, 1, k)
    BY <2>1, <2>2 DEF FrameOrder
  <2>5. frameGot' = SubSeq(frameSent, 1, k + 1) /\ Len(frameGot') = k + 1
    BY <1>1, <2>3, <2>4, FrameOneMore
  <2>6. k + 1 \in 0 .. Len(frameSent)
    BY <1>1, <2>4
  <2>7. FrameOrder'
    BY <1>2, <2>5, <2>6 DEF FrameOrder
  <2>8. k + 1 + 1 = k + 2
    BY <2>4
  <2>9. QED
    BY <1>2, <2>2, <2>5, <2>7, <2>8 DEF FrameOnePerCall
<1>5. QED
  BY <1>2, <1>3, <1>4 DEF FrameInv

(* What remains of some bytes when the first of them are gone *)
FrameShift(moved, bytes, d) ==
    /\ Len(bytes) \in Nat /\ Len(moved) = Len(bytes) - d
    /\ \A j \in 1 .. Len(moved) : moved[j] = bytes[j + d]

(* What is on the line behind a buffer moves with it. *)
LEMMA FrameShiftJoin ==
  ASSUME NEW w \in Seq(FrameByte), NEW line \in Seq(FrameByte), NEW x \in Seq(FrameByte),
         NEW d \in Nat, d <= Len(w), FrameShift(x, w, d)
  PROVE  FrameShift(x \o line, w \o line, d)
<1> DEFINE bytes == w \o line
           moved == x \o line
<1>1. /\ bytes \in Seq(FrameByte) /\ Len(bytes) = Len(w) + Len(line)
      /\ \A j \in 1 .. Len(w) : bytes[j] = w[j]
      /\ \A j \in 1 .. Len(line) : bytes[Len(w) + j] = line[j]
  BY FrameJoin
<1>2. /\ moved \in Seq(FrameByte) /\ Len(moved) = Len(x) + Len(line)
      /\ \A j \in 1 .. Len(x) : moved[j] = x[j]
      /\ \A j \in 1 .. Len(line) : moved[Len(x) + j] = line[j]
  BY FrameJoin
<1>3. /\ Len(x) = Len(w) - d /\ Len(w) \in Nat /\ Len(line) \in Nat /\ Len(x) \in Nat
      /\ \A j \in 1 .. Len(x) : x[j] = w[j + d]
  BY DEF FrameShift
<1> HIDE DEF bytes, moved
<1>4. ASSUME NEW j \in 1 .. Len(moved) PROVE moved[j] = bytes[j + d]
  <2>1. CASE j <= Len(x)
    <3>1. j \in 1 .. Len(x) /\ j + d \in 1 .. Len(w)
      BY <1>3, <2>1
    <3>2. QED
      BY <1>1, <1>2, <1>3, <3>1
  <2>2. CASE ~(j <= Len(x))
    <3> DEFINE i == j - Len(x)
    <3>1. i \in 1 .. Len(line) /\ Len(x) + i = j /\ Len(w) + i = j + d
      BY <1>2, <1>3, <2>2
    <3> HIDE DEF i
    <3>2. moved[Len(x) + i] = line[i] /\ bytes[Len(w) + i] = line[i]
      BY <1>1, <1>2, <3>1
    <3>3. QED
      BY <3>1, <3>2
  <2>3. QED
    BY <2>1, <2>2
<1>5. FrameShift(moved, bytes, d)
  BY <1>1, <1>2, <1>3, <1>4 DEF FrameShift
<1>6. QED
  BY <1>5 DEF moved, bytes

(* Twice moved is moved by both. *)
LEMMA FrameShiftMore ==
  ASSUME NEW w \in Seq(FrameByte), NEW x \in Seq(FrameByte), NEW y \in Seq(FrameByte),
         NEW d \in Nat, NEW e \in Nat, FrameShift(x, w, d), FrameShift(y, x, e)
  PROVE  FrameShift(y, w, d + e)
<1>1. /\ Len(w) \in Nat /\ Len(x) = Len(w) - d /\ Len(y) = Len(x) - e /\ Len(x) \in Nat
      /\ \A j \in 1 .. Len(x) : x[j] = w[j + d]
      /\ \A j \in 1 .. Len(y) : y[j] = x[j + e]
      /\ Len(y) \in Nat
  <2>1. /\ Len(w) \in Nat /\ Len(x) = Len(w) - d
        /\ \A j \in 1 .. Len(x) : x[j] = w[j + d]
    BY DEF FrameShift
  <2>2. Len(y) = Len(x) - e /\ \A j \in 1 .. Len(y) : y[j] = x[j + e]
    BY DEF FrameShift
  <2>3. Len(x) \in Nat /\ Len(y) \in Nat
    OBVIOUS
  <2>4. QED
    BY <2>1, <2>2, <2>3
<1>2. ASSUME NEW j \in 1 .. Len(y) PROVE y[j] = w[j + (d + e)]
  <2> DEFINE i == j + e
  <2>1. i \in 1 .. Len(x) /\ i + d = j + (d + e)
    BY <1>1
  <2>2. y[j] = x[i]
    BY <1>1
  <2> HIDE DEF i
  <2>3. x[i] = w[i + d]
    BY <1>1, <2>1
  <2>4. QED
    BY <2>1, <2>2, <2>3
<1>3. Len(y) = Len(w) - (d + e)
  BY <1>1
<1>4. QED
  BY <1>1, <1>2, <1>3 DEF FrameShift

(* What a sync and a decoder do to the buffer of a stream *)
FrameTurn(format, w, x, s, decoder, rest) ==
    /\ s \in 0 .. Len(w)
    /\ \A j \in 1 .. s : w[j] # FrameSyncOf(format)
    /\ s < Len(w) => w[s + 1] = FrameSyncOf(format)
    /\ x \in Seq(FrameByte) /\ Len(x) = Len(w) - s
    /\ decoder \in FrameDecoders /\ decoder = FrameDecoded(format, x)
    /\ Len(x) = 0 => decoder.hr = "more"
    /\ rest \in Seq(FrameByte) /\ rest = FrameLeft(x, decoder)

(* FrameDecodeStream is such a turn. *)
LEMMA FrameTurnIs ==
  ASSUME FrameInv, FrameDecodeStream
  PROVE  \E x, s, decoder :
            /\ FrameTurn(frameFormat, frameWritten, x, s, decoder, frameWritten')
            /\ FrameTaken(decoder)
            /\ frameAt' = IF decoder.hr = "ok" THEN "loop" ELSE "idle"
            /\ frameSlipped' \in BOOLEAN
            /\ ~frameSlipped' => ~frameSlipped /\ FrameShift(x, frameWritten, s)
            /\ frameSlipped' => frameSlipped \/ 0 < s
<1> DEFINE w == frameWritten
           s == FrameSkipped(w, FrameSyncOf(frameFormat))
           x == FrameSynced(w, s)
           decoder == FrameDecoded(frameFormat, x)
<1>1. w \in Seq(FrameByte) /\ frameFormat \in FrameStreams /\ frameSlipped \in BOOLEAN
  BY DEF FrameInv, FrameTypeOK, FrameDecodeStream
<1>2. /\ s \in 0 .. Len(w) /\ \A j \in 1 .. s : w[j] # FrameSyncOf(frameFormat)
      /\ s < Len(w) => w[s + 1] = FrameSyncOf(frameFormat)
  BY <1>1, FrameSkippedIs
<1>3. /\ frameWritten' = FrameLeft(x, decoder) /\ FrameTaken(decoder)
      /\ frameAt' = IF decoder.hr = "ok" THEN "loop" ELSE "idle"
      /\ frameSlipped' = (frameSlipped \/ (0 < s /\ s < Len(x)))
  <2>1. decoder = CASE frameFormat = "slider" -> SliderFrameDecode(x)
                    [] frameFormat = "led"    -> Led1509306FrameDecode(x)
                    [] frameFormat = "rfid"   -> RfidFrameDecode(x)
    BY <1>1 DEF FrameStreams, SliderFrameDecode, Led1509306FrameDecode, RfidFrameDecode
  <2>2. QED
    BY <2>1 DEF FrameDecodeStream
<1> HIDE DEF s
<1>4. /\ x \in Seq(FrameByte) /\ Len(x) = Len(w) - s
      /\ ~(0 < s /\ s < Len(w) - s) => \A j \in 1 .. Len(w) - s : x[j] = w[j + s]
  BY <1>1, <1>2, FrameSyncedIs
<1> HIDE DEF x
<1>5. decoder \in FrameDecoders /\ (Len(x) = 0 => decoder.hr = "more")
  BY <1>1, <1>4, FrameDecodedType
<1>6. decoder = FrameDecoded(frameFormat, x)
  OBVIOUS
<1> HIDE DEF decoder
<1>7. FrameLeft(x, decoder) \in Seq(FrameByte)
  <2>1. decoder.used \in Nat
    BY <1>5 DEF FrameDecoders
  <2>2. FrameAfter(x, decoder.used) \in Seq(FrameByte)
    BY <1>4, <2>1, FrameAfterIs
  <2>3. QED
    BY <1>4, <2>2 DEF FrameLeft
<1>8. FrameTurn(frameFormat, w, x, s, decoder, frameWritten')
  BY <1>2, <1>3, <1>4, <1>5, <1>6, <1>7 DEF FrameTurn
<1>9. frameSlipped' \in BOOLEAN
  BY <1>1, <1>3
<1>10. ~frameSlipped' => ~frameSlipped /\ FrameShift(x, w, s)
  <2>1. Len(w) \in Nat
    BY <1>1
  <2>2. QED
    BY <1>3, <1>4, <2>1 DEF FrameShift
<1>11. frameSlipped' => frameSlipped \/ 0 < s
  BY <1>3
<1>12. QED
  BY <1>3, <1>8, <1>9, <1>10, <1>11

(* What a turn takes off the line while frames are on it: what comes before the
   first of them, and then that frame, if all of it is there               *)
FrameTookNone(x, s, decoder, from, to) ==
    /\ decoder.hr = "more" /\ s <= from /\ s + Len(x) < to

(* One frame, unchanged *)
FrameTookOne(x, s, decoder, frame, from, to) ==
    /\ decoder.hr = "ok" /\ FrameFront(decoder.dest) = frame
    /\ s = from /\ decoder.used \in Nat /\ s + decoder.used = to /\ decoder.used <= Len(x)

(* A sync does not skip the next frame's sync byte. *)
LEMMA FrameTurnSkips ==
  ASSUME NEW format, NEW w \in Seq(FrameByte), NEW line \in Seq(FrameByte), NEW x, NEW s,
         NEW decoder, NEW rest, FrameTurn(format, w, x, s, decoder, rest),
         NEW frame, NEW from, NEW to, FrameSegment(format, frame, w \o line, 0, from, to)
  PROVE  s <= from
<1> DEFINE bytes == w \o line
<1>1. /\ bytes \in Seq(FrameByte) /\ Len(bytes) = Len(w) + Len(line)
      /\ \A j \in 1 .. Len(w) : bytes[j] = w[j]
  BY FrameJoin
<1> HIDE DEF bytes
<1>2. PICK sent : /\ FrameCarried(format, frame, sent) /\ to = from + Len(sent)
                  /\ \A j \in 1 .. Len(sent) : bytes[from + j] = sent[j]
  BY DEF FrameSegment, bytes
<1>3. from \in Nat
  BY DEF FrameSegment, bytes
<1>4. /\ s \in 0 .. Len(w) /\ (\A j \in 1 .. s : w[j] # FrameSyncOf(format)) /\ Len(w) \in Nat
  BY DEF FrameTurn
<1>5. sent \in Seq(FrameByte) /\ 1 <= Len(sent) /\ Len(sent) \in Nat /\ sent[1] = FrameSyncOf(format)
  BY <1>2 DEF FrameCarried
<1> SUFFICES ASSUME from < s PROVE FALSE
  BY <1>3, <1>4
<1>6. from + 1 \in 1 .. s /\ from + 1 \in 1 .. Len(w) /\ 1 \in 1 .. Len(sent)
  BY <1>3, <1>4, <1>5
<1>7. bytes[from + 1] = sent[1]
  BY <1>2, <1>6
<1>8. QED
  BY <1>1, <1>4, <1>5, <1>6, <1>7

(* The first sync byte is that of the next frame: a turn takes no more
   and no less. *)
LEMMA FrameTurnTakes ==
  ASSUME NEW format, NEW w \in Seq(FrameByte), NEW line \in Seq(FrameByte), NEW x, NEW s,
         NEW decoder, NEW rest, FrameTurn(format, w, x, s, decoder, rest), FrameShift(x, w, s),
         NEW frame, NEW from, NEW to, FrameSegment(format, frame, w \o line, 0, from, to)
  PROVE  \/ FrameTookNone(x, s, decoder, from, to)
         \/ FrameTookOne(x, s, decoder, frame, from, to)
<1> DEFINE bytes == w \o line
<1>1. /\ bytes \in Seq(FrameByte) /\ Len(bytes) = Len(w) + Len(line)
      /\ \A j \in 1 .. Len(w) : bytes[j] = w[j]
  BY FrameJoin
<1> HIDE DEF bytes
<1>2. PICK sent : /\ FrameCarried(format, frame, sent) /\ to = from + Len(sent)
                  /\ \A j \in 1 .. Len(sent) : bytes[from + j] = sent[j]
  BY DEF FrameSegment, bytes
<1>3. /\ from \in Nat /\ to \in Nat /\ from < to
      /\ \A j \in 1 .. from : bytes[j] # FrameSyncOf(format)
  <2>1. /\ from \in Nat /\ to \in Nat /\ from < to
        /\ \A j \in 0 + 1 .. from : bytes[j] # FrameSyncOf(format)
    BY DEF FrameSegment, bytes
  <2>2. 0 + 1 = 1
    OBVIOUS
  <2>3. QED
    BY <2>1, <2>2
<1>4. /\ s \in 0 .. Len(w) /\ \A j \in 1 .. s : w[j] # FrameSyncOf(format)
      /\ s < Len(w) => w[s + 1] = FrameSyncOf(format)
      /\ x \in Seq(FrameByte) /\ Len(x) = Len(w) - s /\ Len(w) \in Nat
      /\ decoder = FrameDecoded(format, x)
      /\ Len(x) = 0 => decoder.hr = "more"
  BY DEF FrameTurn
<1>5. sent \in Seq(FrameByte) /\ 1 <= Len(sent) /\ Len(sent) \in Nat /\ sent[1] = FrameSyncOf(format)
  BY <1>2 DEF FrameCarried
<1>6. s <= from
  BY FrameTurnSkips
<1>7. s < Len(w) => s = from
  <2> SUFFICES ASSUME s < Len(w), s < from PROVE FALSE
    BY <1>3, <1>4, <1>6
  <2>1. s + 1 \in 1 .. from /\ s + 1 \in 1 .. Len(w)
    BY <1>3, <1>4
  <2>2. QED
    BY <1>1, <1>3, <1>4, <2>1
<1>8. CASE s = Len(w)
  <2>1. Len(x) = 0
    BY <1>4, <1>8
  <2>2. QED
    BY <1>3, <1>4, <1>6, <2>1 DEF FrameTookNone
<1>9. CASE s # Len(w)
  <2>1. s = from /\ s < Len(w)
    BY <1>4, <1>7, <1>9
  <2>2. ASSUME NEW j \in 1 .. Len(x), j <= Len(sent) PROVE x[j] = sent[j]
    <3>1. j + s \in 1 .. Len(w) /\ j \in 1 .. Len(sent) /\ from + j = j + s
      BY <1>3, <1>4, <1>5, <2>1, <2>2
    <3>2. x[j] = w[j + s]
      BY DEF FrameShift
    <3>3. bytes[from + j] = sent[j]
      BY <1>2, <3>1
    <3>4. QED
      BY <1>1, <3>1, <3>2, <3>3
  <2>3. PICK whole : FrameFront(whole) = frame /\ FrameDecodedAs(format, x, whole, sent)
    BY <1>2, <1>4, <2>2 DEF FrameCarried
  <2>4. CASE Len(x) < Len(sent)
    <3>1. decoder.hr = "more"
      BY <1>4, <2>3, <2>4 DEF FrameDecodedAs
    <3>2. s + Len(x) < to
      BY <1>2, <1>3, <1>4, <1>5, <2>1, <2>4
    <3>3. QED
      BY <1>6, <3>1, <3>2 DEF FrameTookNone
  <2>5. CASE ~(Len(x) < Len(sent))
    <3>1. decoder = FrameState(whole, FALSE, Len(sent), "ok")
      BY <1>4, <2>3, <2>5 DEF FrameDecodedAs
    <3>2. decoder.hr = "ok" /\ decoder.dest = whole /\ decoder.used = Len(sent)
      BY <3>1 DEF FrameState
    <3>3. Len(sent) <= Len(x)
      BY <1>4, <1>5, <2>5
    <3>4. QED
      BY <1>2, <1>5, <2>1, <2>3, <3>2, <3>3 DEF FrameTookOne
  <2>6. QED
    BY <2>4, <2>5
<1>10. QED
  BY <1>4, <1>8, <1>9

(* After a turn, the line is cut into the frames that remain: m counts those
   that the board has had.                                                 *)
FrameCutsOn(format, sent, m, bytes, w, at) ==
    \E from, to :
       /\ FrameCut(format, sent, m, bytes, from, to)
       /\ at = "idle" /\ m < Len(sent) => Len(w) < to[m + 1]

(* What a turn leaves is cut into the frames that remain. *)
LEMMA FrameTurnCuts ==
  ASSUME NEW format, NEW sent, Len(sent) \in Nat, NEW k \in 0 .. Len(sent),
         NEW w \in Seq(FrameByte), NEW line \in Seq(FrameByte), NEW from, NEW to,
         FrameCut(format, sent, k, w \o line, from, to),
         NEW x, NEW s, NEW decoder, NEW rest, FrameTurn(format, w, x, s, decoder, rest),
         FrameShift(x, w, s), NEW at, at = (IF decoder.hr = "ok" THEN "loop" ELSE "idle")
  PROVE  \/ /\ decoder.hr = "more"
            /\ FrameCutsOn(format, sent, k, rest \o line, rest, at)
         \/ /\ decoder.hr = "ok" /\ k < Len(sent) /\ FrameFront(decoder.dest) = sent[k + 1]
            /\ FrameCutsOn(format, sent, k + 1, rest \o line, rest, at)
<1> DEFINE n == Len(sent)
           bytes == w \o line
           u == k + 1
<1>1. /\ s \in Nat /\ s <= Len(w) /\ x \in Seq(FrameByte) /\ Len(x) = Len(w) - s
      /\ Len(w) \in Nat /\ decoder \in FrameDecoders /\ (Len(x) = 0 => decoder.hr = "more")
      /\ rest \in Seq(FrameByte) /\ rest = FrameLeft(x, decoder)
  BY DEF FrameTurn
<1>2. bytes \in Seq(FrameByte) /\ Len(bytes) \in Nat /\ Len(bytes) = Len(w) + Len(line)
  BY FrameJoin
<1>3. /\ to[k] = 0 /\ to[n] = Len(bytes)
      /\ \A i \in k + 1 .. n : FrameSegment(format, sent[i], bytes, to[i - 1], from[i], to[i])
  BY DEF FrameCut
<1> HIDE DEF bytes, n
<1>4. u = k + 1 /\ k \in Nat /\ n \in Nat /\ k <= n
  BY DEF n
<1>5. CASE k = n
  <2>1. Len(w) = 0 /\ s = 0 /\ Len(x) = 0 /\ decoder.hr = "more"
    BY <1>1, <1>2, <1>3, <1>5
  <2>2. rest = x
    BY <1>1, <2>1 DEF FrameLeft
  <2> DEFINE moved == rest \o line
  <2>3. FrameShift(moved, bytes, s)
    BY <1>1, <2>2, FrameShiftJoin DEF bytes
  <2> HIDE DEF moved
  <2>4. Len(moved) = Len(bytes) - s /\ \A j \in 1 .. Len(moved) : moved[j] = bytes[j + s]
    BY <2>3 DEF FrameShift
  <2>5. FrameCutBy(format, sent, k, moved, to, s)
    <3>1. /\ to[k] <= s /\ (k < Len(sent) => s <= from[k + 1])
          /\ (k = Len(sent) => s = Len(bytes)) /\ k \in k .. Len(sent)
      BY <1>3, <1>4, <1>5, <2>1 DEF n
    <3>2. FrameCut(format, sent, k, bytes, from, to)
      BY DEF bytes
    <3>3. QED
      BY <1>1, <1>2, <1>4, <2>4, <3>1, <3>2, FrameCutMoved
  <2>6. FrameCutsOn(format, sent, k, moved, rest, at)
    BY <1>4, <1>5, <2>5 DEF FrameCutBy, FrameCutsOn, n
  <2>7. QED
    BY <2>1, <2>6 DEF moved
<1>6. CASE k # n
  <2>1. /\ k < n /\ u \in k + 1 .. n /\ u - 1 = k /\ u \in Nat /\ u \in k .. n
    BY <1>4, <1>6
  <2>2. FrameSegment(format, sent[u], bytes, 0, from[u], to[u])
    BY <1>3, <2>1
  <2>3. /\ from[u] \in Nat /\ to[u] \in Nat /\ from[u] < to[u]
    BY <2>2 DEF FrameSegment
  <2>4. \/ FrameTookNone(x, s, decoder, from[u], to[u])
        \/ FrameTookOne(x, s, decoder, sent[u], from[u], to[u])
    BY <2>2, FrameTurnTakes DEF bytes
  <2>5. FrameCut(format, sent, k, bytes, from, to)
    BY DEF bytes
  <2> DEFINE moved == rest \o line
  <2>6. CASE FrameTookNone(x, s, decoder, from[u], to[u])
    <3>1. decoder.hr = "more" /\ s <= from[u] /\ s + Len(x) < to[u]
      BY <2>6 DEF FrameTookNone
    <3>2. rest = x
      BY <1>1, <3>1 DEF FrameLeft
    <3>3. FrameShift(moved, bytes, s)
      BY <1>1, <3>2, FrameShiftJoin DEF bytes
    <3> HIDE DEF moved
    <3>4. Len(moved) = Len(bytes) - s /\ \A j \in 1 .. Len(moved) : moved[j] = bytes[j + s]
      BY <3>3 DEF FrameShift
    <3>5. FrameCutBy(format, sent, k, moved, to, s)
      <4>1. /\ to[k] <= s /\ (k < Len(sent) => s <= from[k + 1])
            /\ (k = Len(sent) => s = Len(bytes)) /\ k \in k .. Len(sent)
        BY <1>1, <1>3, <1>4, <1>6, <3>1 DEF n
      <4>2. QED
        BY <1>1, <1>2, <1>4, <2>5, <3>4, <4>1, FrameCutMoved
    <3>6. PICK first, last : /\ FrameCut(format, sent, k, moved, first, last)
                             /\ \A i \in k + 1 .. n : last[i] = to[i] - s
      BY <3>5 DEF FrameCutBy, n
    <3>7. Len(rest) < last[k + 1]
      <4>1. last[u] = to[u] - s
        BY <2>1, <3>6
      <4>2. Len(x) \in Nat
        BY <1>1
      <4>3. QED
        BY <1>1, <2>3, <3>1, <3>2, <4>1, <4>2
    <3>8. FrameCutsOn(format, sent, k, moved, rest, at)
      BY <3>6, <3>7 DEF FrameCutsOn
    <3>9. QED
      BY <3>1, <3>8 DEF moved
  <2>7. CASE FrameTookOne(x, s, decoder, sent[u], from[u], to[u])
    <3> DEFINE used == decoder.used
               t == to[u]
    <3>1. /\ decoder.hr = "ok" /\ FrameFront(decoder.dest) = sent[u] /\ s = from[u]
          /\ used \in Nat /\ s + used = t /\ used <= Len(x)
      BY <2>7 DEF FrameTookOne
    <3>2. rest = FrameAfter(x, used)
      BY <1>1, <3>1 DEF FrameLeft
    <3>3. FrameShift(rest, x, used)
      <4> HIDE DEF used
      <4>1. Len(x) \in Nat
        BY <1>1
      <4>2. /\ Len(rest) = Len(x) - used
            /\ \A j \in 1 .. Len(x) - used : rest[j] = x[j + used]
        <5>1. x \in Seq(FrameByte) /\ used \in Nat /\ used <= Len(x)
          BY <1>1, <3>1
        <5>2. /\ Len(FrameAfter(x, used)) = Len(x) - used
              /\ \A j \in 1 .. Len(x) - used : FrameAfter(x, used)[j] = x[j + used]
          BY ONLY <5>1, FrameAfterIs
        <5>3. QED
          BY <3>2, <5>2
      <4>3. QED
        BY <4>1, <4>2 DEF FrameShift
    <3> HIDE DEF used
    <3>4. FrameShift(rest, w, t)
      <4>1. FrameShift(rest, w, s + used)
        BY <1>1, <3>1, <3>3, FrameShiftMore
      <4>2. QED
        BY <3>1, <4>1
    <3> HIDE DEF t
    <3>5. t \in Nat /\ t <= Len(w)
      BY <1>1, <3>1
    <3>6. FrameShift(moved, bytes, t)
      BY <1>1, <3>4, <3>5, FrameShiftJoin DEF bytes
    <3> HIDE DEF moved
    <3>7. Len(moved) = Len(bytes) - t /\ \A j \in 1 .. Len(moved) : moved[j] = bytes[j + t]
      BY <3>6 DEF FrameShift
    <3>8. u < n => t <= from[u + 1]
      <4>1. u < n => u + 1 \in k + 1 .. n /\ u + 1 - 1 = u
        BY <1>4, <2>1
      <4>2. ASSUME u < n PROVE FrameSegment(format, sent[u + 1], bytes, to[u], from[u + 1], to[u + 1])
        BY <1>3, <4>1, <4>2
      <4>3. QED
        BY <4>2 DEF FrameSegment, t
    <3>9. u = n => t = Len(bytes)
      BY <1>3 DEF t
    <3> HIDE DEF u
    <3>10. FrameCutBy(format, sent, u, moved, to, t)
      <4>1. /\ to[u] <= t /\ (u < Len(sent) => t <= from[u + 1])
            /\ (u = Len(sent) => t = Len(bytes)) /\ u \in k .. Len(sent)
        BY <2>1, <3>5, <3>8, <3>9 DEF n, t
      <4>2. QED
        BY <1>2, <1>4, <2>5, <3>5, <3>7, <4>1, FrameCutMoved
    <3>11. at # "idle"
      BY <3>1
    <3>12. FrameCutsOn(format, sent, u, moved, rest, at)
      BY <3>10, <3>11 DEF FrameCutBy, FrameCutsOn
    <3>13. QED
      BY <2>1, <3>1, <3>12 DEF moved, n, u
  <2>8. QED
    BY <2>4, <2>6, <2>7
<1>7. QED
  BY <1>5, <1>6

(* A turn of a stream's handler *)
LEMMA FrameDecodeStreamInv ==
  ASSUME FrameInv, FrameDecodeStream
  PROVE  FrameInv'
<1> DEFINE k == Len(frameGot)
           w == frameWritten
<1>1. /\ frameFormat \in FrameFormats /\ frameLine \in Seq(FrameByte) /\ w \in Seq(FrameByte)
      /\ frameSent \in Seq(Seq(FrameByte)) /\ Len(frameSent) <= FrameMax
      /\ Len(frameSent) \in Nat
  BY DEF FrameInv, FrameTypeOK
<1>2. /\ frameFormat \in FrameStreams /\ frameLine' = frameLine
      /\ frameFormat' = frameFormat /\ frameSent' = frameSent
  BY DEF FrameDecodeStream
<1>3. PICK x, s, decoder :
         /\ FrameTurn(frameFormat, w, x, s, decoder, frameWritten')
         /\ FrameTaken(decoder)
         /\ frameAt' = IF decoder.hr = "ok" THEN "loop" ELSE "idle"
         /\ frameSlipped' \in BOOLEAN
         /\ ~frameSlipped' => ~frameSlipped /\ FrameShift(x, w, s)
  BY FrameTurnIs
<1>4. FrameTypeOK' /\ frameSent' \in Seq(Seq(FrameByte))
  <2>1. frameWritten' \in Seq(FrameByte)
    BY <1>3 DEF FrameTurn
  <2>2. frameAt' \in {"idle", "loop"}
    BY <1>3
  <2>3. QED
    BY <1>1, <1>2, <1>3, <2>1, <2>2 DEF FrameTypeOK
<1>5. ASSUME ~frameSlipped' PROVE FrameOrder' /\ FrameCutUp'
  <2>1. ~frameSlipped /\ FrameShift(x, w, s)
    BY <1>3, <1>5
  <2>2. FrameOrder /\ FrameCutUp
    BY <1>2, <2>1 DEF FrameInv
  <2>3. k \in 0 .. Len(frameSent) /\ frameGot = SubSeq(frameSent, 1, k) /\ k \in Nat
    BY <2>2 DEF FrameOrder
  <2>4. PICK from, to : FrameCut(frameFormat, frameSent, k, w \o frameLine, from, to)
    BY <2>2 DEF FrameCutUp
  <2> DEFINE rest == frameWritten'
             at == frameAt'
             bytes == rest \o frameLine
  <2>5. \/ /\ decoder.hr = "more"
           /\ FrameCutsOn(frameFormat, frameSent, k, bytes, rest, at)
        \/ /\ decoder.hr = "ok" /\ k < Len(frameSent)
           /\ FrameFront(decoder.dest) = frameSent[k + 1]
           /\ FrameCutsOn(frameFormat, frameSent, k + 1, bytes, rest, at)
    BY <1>1, <1>3, <2>1, <2>3, <2>4, FrameTurnCuts
  <2>6. CASE /\ decoder.hr = "more"
             /\ FrameCutsOn(frameFormat, frameSent, k, bytes, rest, at)
    <3>1. frameGot' = frameGot
      BY <1>3, <2>6 DEF FrameTaken
    <3>2. FrameOrder'
      BY <1>2, <2>2, <3>1 DEF FrameOrder
    <3>3. FrameCutUp'
      BY <1>2, <2>6, <3>1 DEF FrameCutUp, FrameCutsOn
    <3>4. QED
      BY <3>2, <3>3
  <2>7. CASE /\ decoder.hr = "ok" /\ k < Len(frameSent)
             /\ FrameFront(decoder.dest) = frameSent[k + 1]
             /\ FrameCutsOn(frameFormat, frameSent, k + 1, bytes, rest, at)
    <3>1. frameGot' = Append(frameGot, frameSent[k + 1])
      BY <1>3, <2>7 DEF FrameTaken
    <3>2. frameGot' = SubSeq(frameSent, 1, k + 1) /\ Len(frameGot') = k + 1
      BY <1>1, <2>3, <2>7, <3>1, FrameOneMore
    <3>3. k + 1 \in 0 .. Len(frameSent)
      BY <1>1, <2>3, <2>7
    <3>4. FrameOrder'
      BY <1>2, <3>2, <3>3 DEF FrameOrder
    <3>5. FrameCutUp'
      BY <1>2, <2>7, <3>2 DEF FrameCutUp, FrameCutsOn
    <3>6. QED
      BY <3>4, <3>5
  <2>8. QED
    BY <2>5, <2>6, <2>7
<1>6. QED
  BY <1>2, <1>4, <1>5 DEF FrameInv

(* Every step *)
LEMMA FrameInvNext == FrameInv /\ [FrameNext]_frameVars => FrameInv'
<1> SUFFICES ASSUME FrameInv, [FrameNext]_frameVars PROVE FrameInv'
  OBVIOUS
<1>1. ASSUME NEW payload \in FramePayloads[frameFormat], NEW noise \in FrameNoises,
             FrameSend(payload, noise)
      PROVE  FrameInv'
  BY <1>1, FrameSendInv
<1>2. ASSUME NEW n \in 1 .. Len(frameLine), FrameWrite(n)
      PROVE  FrameInv'
  BY <1>2, FrameWriteInv
<1>3. CASE FrameDecodeStream
  BY <1>3, FrameDecodeStreamInv
<1>4. CASE FrameDecodeWhole
  BY <1>4, FrameDecodeWholeInv
<1>5. CASE UNCHANGED frameVars
  BY <1>5 DEF frameVars, FrameInv, FrameTypeOK, FrameOrder, FrameCutUp, FrameOnePerCall
<1>6. QED
  BY <1>1, <1>2, <1>3, <1>4, <1>5 DEF FrameNext

(* When nothing is on the line and no call runs, no cut remains. *)
LEMMA FrameInvArrive == FrameInv => FramesArrive
<1> SUFFICES ASSUME FrameInv PROVE FramesArrive
  OBVIOUS
<1> DEFINE k == Len(frameGot)
           n == Len(frameSent)
<1>1. /\ FrameTypeOK /\ frameSent \in Seq(Seq(FrameByte)) /\ n \in Nat
      /\ frameWritten \in Seq(FrameByte)
  BY DEF FrameInv, FrameTypeOK
<1>2. ASSUME ~frameSlipped PROVE k \in 0 .. n /\ frameGot = SubSeq(frameSent, 1, k)
  BY <1>2 DEF FrameInv, FrameOrder
<1>3. ASSUME ~frameSlipped, frameLine = <<>>, frameAt = "idle" PROVE k = n
  <2>1. CASE frameFormat \in FrameStreams
    <3>1. PICK from, to :
             /\ FrameCut(frameFormat, frameSent, k, frameWritten \o frameLine, from, to)
             /\ k < n => Len(frameWritten) < to[k + 1]
      BY <1>3, <2>1 DEF FrameInv, FrameCutUp
    <3>2. frameWritten \o frameLine = frameWritten /\ Len(frameWritten) \in Nat
      BY <1>1, <1>3
    <3>3. ASSUME k < n PROVE to[k + 1] <= to[n] /\ to[n] = Len(frameWritten)
      <4>1. k + 1 \in k .. n /\ n \in k .. n /\ k + 1 <= n
        BY <1>1, <1>2, <1>3, <3>3
      <4>2. QED
        BY <3>1, <3>2, <4>1 DEF FrameCut
    <3>4. ASSUME k < n PROVE to[k + 1] \in Nat
      <4>1. k + 1 \in k .. n
        BY <1>1, <1>2, <1>3, <3>4
      <4>2. QED
        BY <3>1, <4>1 DEF FrameCut
    <3>5. ~(k < n)
      BY <3>1, <3>2, <3>3, <3>4
    <3>6. QED
      BY <1>1, <1>2, <1>3, <3>5
  <2>2. CASE frameFormat \notin FrameStreams
    <3>1. FrameOnePerCall
      BY <1>3, <2>2 DEF FrameInv
    <3>2. ~FrameWholeCarried(frameFormat, frameSent[k + 1], frameLine)
      BY <1>3 DEF FrameWholeCarried
    <3>3. QED
      BY <1>3, <3>1, <3>2 DEF FrameOnePerCall
  <2>3. QED
    BY <2>1, <2>2
<1>4. ASSUME ~frameSlipped, frameLine = <<>>, frameAt = "idle" PROVE frameGot = frameSent
  <2>1. k = n /\ frameGot = SubSeq(frameSent, 1, k)
    BY <1>2, <1>3, <1>4
  <2>2. SubSeq(frameSent, 1, n) = frameSent
    BY <1>1
  <2>3. QED
    BY <2>1, <2>2
<1>5. QED
  BY <1>1, <1>2, <1>4 DEF FramesArrive

(* However a stream is cut into writes and whatever comes between its
   frames, and with one whole frame a call, every frame sent is
   dispatched once, unchanged and in order, and none is left when the
   line is empty (the *_frame_sync and *_frame_decode loops), unless a
   sync has slipped. *)
THEOREM FramesAllArrive == FrameSpec => []FramesArrive
<1>1. FrameInit => FrameInv
  BY FrameInvInit
<1>2. FrameInv /\ [FrameNext]_frameVars => FrameInv'
  BY FrameInvNext
<1>3. FrameInv => FramesArrive
  BY FrameInvArrive
<1>4. QED
  BY <1>1, <1>2, <1>3, PTL DEF FrameSpec

(* Each format's decoder makes of its encoder's line the frame again, and a
   decoder of a stream has no outcome before the last byte of the line.    *)
THEOREM FrameRoundTrip ==
  ASSUME frameFormat \in FrameFormats, NEW payload \in FramePayloads[frameFormat]
  PROVE  LET frame == FrameOf(payload)
             line == FrameEncode(frame)
             decoder == IF frameFormat \in FrameStreams THEN FrameDecoded(frameFormat, line)
                        ELSE FrameWholeOf(frameFormat, line)
         IN  /\ decoder.hr = "ok" /\ FrameFront(decoder.dest) = frame
             /\ frameFormat \in FrameStreams =>
                   \A i \in 0 .. Len(line) - 1 :
                      FrameDecoded(frameFormat, SubSeq(line, 1, i)).hr = "more"
<1> DEFINE frame == FrameOf(payload)
           line == FrameEncode(frame)
<1> HIDE DEF frame, line
<1>1. CASE frameFormat \in FrameStreams
  <2>1. FrameCarried(frameFormat, frame, line)
    BY <1>1, FrameStreamCarries DEF frame, line
  <2>2. PICK whole :
           /\ line \in Seq(FrameByte) /\ FrameFront(whole) = frame
           /\ \A bytes \in Seq(FrameByte) :
                 (\A j \in 1 .. Len(bytes) : j <= Len(line) => bytes[j] = line[j])
                    => FrameDecodedAs(frameFormat, bytes, whole, line)
    BY <2>1 DEF FrameCarried
  <2>3. /\ FrameDecoded(frameFormat, line).hr = "ok"
        /\ FrameFront(FrameDecoded(frameFormat, line).dest) = frame
    <3>1. FrameDecodedAs(frameFormat, line, whole, line) /\ Len(line) \in Nat
      BY <2>2
    <3>2. FrameDecoded(frameFormat, line) = FrameState(whole, FALSE, Len(line), "ok")
      <4>1. ~(Len(line) < Len(line))
        BY <3>1
      <4>2. QED
        BY <3>1, <4>1 DEF FrameDecodedAs
    <3>3. QED
      BY <2>2, <3>2 DEF FrameState
  <2>4. ASSUME NEW i \in 0 .. Len(line) - 1
        PROVE  FrameDecoded(frameFormat, SubSeq(line, 1, i)).hr = "more"
    <3> DEFINE part == SubSeq(line, 1, i)
    <3>1. part \in Seq(FrameByte) /\ Len(part) = i /\ \A j \in 1 .. i : part[j] = line[j]
      BY <2>2
    <3>2. i < Len(line)
      BY <2>2
    <3> HIDE DEF part
    <3>3. FrameDecodedAs(frameFormat, part, whole, line)
      BY <2>2, <3>1
    <3>4. FrameDecoded(frameFormat, part).hr = "more"
      BY <3>1, <3>2, <3>3 DEF FrameDecodedAs
    <3>5. QED
      BY <3>4 DEF part
  <2>5. QED
    BY <1>1, <2>3, <2>4 DEF frame, line
<1>2. CASE frameFormat \notin FrameStreams
  <2>1. FrameWholeCarried(frameFormat, frame, line)
    BY <1>2, FrameWholeStreamCarries DEF frame, line
  <2>2. QED
    BY <1>2, <2>1 DEF FrameWholeCarried, frame, line
<1>3. QED
  BY <1>1, <1>2

(* The next sync byte is the first byte of the line, unless the line has added
   something in front.                                                     *)
FrameNoSlip == FrameQuiet \/ frameFormat \notin FrameStreams => ~frameSlipped

(* A sync skips only what the line has added. *)
LEMMA FrameQuietNext ==
  ASSUME FrameInv, FrameNoSlip, [FrameNext]_frameVars
  PROVE  FrameNoSlip'
<1>1. ASSUME frameSlipped' = frameSlipped, frameFormat' = frameFormat PROVE FrameNoSlip'
  BY <1>1 DEF FrameNoSlip
<1>2. CASE FrameDecodeStream
  <2> SUFFICES ASSUME FrameQuiet, ~frameSlipped PROVE ~frameSlipped'
    BY <1>2 DEF FrameNoSlip, FrameDecodeStream
  <2> DEFINE k == Len(frameGot)
             n == Len(frameSent)
             w == frameWritten
             bytes == w \o frameLine
  <2>1. PICK x, s, decoder :
           /\ FrameTurn(frameFormat, w, x, s, decoder, frameWritten')
           /\ frameSlipped' => frameSlipped \/ 0 < s
    BY <1>2, FrameTurnIs
  <2>2. w \in Seq(FrameByte) /\ frameLine \in Seq(FrameByte) /\ k \in 0 .. n /\ n \in Nat
    BY DEF FrameInv, FrameTypeOK, FrameOrder
  <2>3. PICK from, to : FrameCut(frameFormat, frameSent, k, bytes, from, to)
    BY <1>2 DEF FrameInv, FrameCutUp, FrameDecodeStream
  <2>4. s \in 0 .. Len(w) /\ Len(w) \in Nat
    BY <2>1, <2>2 DEF FrameTurn
  <2>5. CASE k = n
    <3>1. Len(bytes) = 0
      BY <2>3, <2>5 DEF FrameCut
    <3>2. Len(bytes) = Len(w) + Len(frameLine) /\ Len(frameLine) \in Nat
      BY <2>2, FrameJoin
    <3>3. Len(w) = 0
      BY <2>4, <3>1, <3>2
    <3>4. QED
      BY <2>1, <2>4, <3>3
  <2>6. CASE k # n
    <3> DEFINE u == k + 1
    <3>1. u \in k + 1 .. n /\ u - 1 = k
      BY <2>2, <2>6
    <3> HIDE DEF bytes, u
    <3>2. FrameSegment(frameFormat, frameSent[u], bytes, 0, from[u], to[u])
      BY <2>3, <3>1 DEF FrameCut
    <3>3. from[u] = 0
      BY <3>2 DEF FrameSegment
    <3>4. s <= from[u]
      BY <2>1, <2>2, <3>2, FrameTurnSkips DEF bytes
    <3>5. QED
      BY <2>1, <2>4, <3>3, <3>4
  <2>7. QED
    BY <2>5, <2>6
<1>3. QED
  BY <1>1, <1>2 DEF FrameNext, FrameSend, FrameWrite, FrameDecodeWhole, frameVars

(* On a line that adds nothing, and for whole frames, no sync slips, however
   the bytes are cut into writes: there, with FramesAllArrive, every frame
   that is sent arrives, without a condition.                              *)
THEOREM FramesNeverSlip ==
  FrameSpec => [](FrameQuiet \/ frameFormat \notin FrameStreams => ~frameSlipped)
<1>1. FrameInit => FrameInv /\ FrameNoSlip
  BY FrameInvInit DEF FrameInit, FrameNoSlip
<1>2. FrameInv /\ FrameNoSlip /\ [FrameNext]_frameVars => FrameInv' /\ FrameNoSlip'
  BY FrameInvNext, FrameQuietNext
<1>3. FrameNoSlip => (FrameQuiet \/ frameFormat \notin FrameStreams => ~frameSlipped)
  BY DEF FrameNoSlip
<1>4. QED
  BY <1>1, <1>2, <1>3, PTL DEF FrameSpec
=============================================================================
