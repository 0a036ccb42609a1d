----------------------------- MODULE AsyncProofs -----------------------------
(***************************************************************************)
(* Theorems about Async, for any set of game threads.                      *)
(***************************************************************************)
EXTENDS Async, SequenceTheorems, TLAPS

(***************************************************************************)
(* The inductive invariant.  Its parts say what each place of the protocol *)
(* implies: for a client, for the request in the slot, for the request the *)
(* worker runs, for one whose status is stored but not yet signalled, and  *)
(* for the two condition variables.                                        *)
(***************************************************************************)

(* What Internal can be in each place of a client, as long as its event was not
   signalled for a request that it had taken back.                         *)
ClientInv ==
    \A c \in Clients \ late :
        /\ pc[c] = "idle" => internal[c] = "free"
        /\ pc[c] \in {"submit", "asleep", "woken"} =>
              internal[c] = "unset" /\ runs[c] = 0
        /\ pc[c] = "inflight" => internal[c] \in {"pending"} \cup Final
        /\ internal[c] \in Final => high[c] /\ runs[c] = 1

SlotInv ==
    task \notin {NoClient} \cup late => Pending(task) /\ runs[task] = 0

RunInv ==
    wpc \in Running =>
        /\ wreq \in Clients
        /\ wreq \notin late =>
              /\ Pending(wreq)
              /\ wreq # task
              /\ runs[wreq] = IF wpc = "run" THEN 0 ELSE 1
              /\ wpc = "loaded" => high[wreq] /\ wevent = hEvent[wreq]

(* A request with an event that is still to be signalled is finished, and was
   taken back at most by a game that looks at Internal first.              *)
StoredInv ==
    wpc = "stored" /\ wevent =>
        /\ wreq \in Clients
        /\ ~PeekWithEvent => internal[wreq] \in Final
        /\ wreq \notin late /\ internal[wreq] \in Final =>
              pc[wreq] = "inflight" /\ hEvent[wreq] /\ wreq \notin signalled

(* A signalled event stands for a finished request of its owner. *)
SignalInv ==
    /\ \A c \in signalled \ late :
           \/ pc[c] = "idle" /\ PeekWithEvent
           \/ pc[c] = "inflight" /\ hEvent[c] /\ internal[c] \in Final
    /\ ~PeekWithEvent => late = {}

NobodyForgotten ==
    \A c \in Clients : Pending(c) => InSlot(c) \/ BeingRun(c)

IInv == /\ TypeOK /\ ClientInv /\ SlotInv /\ RunInv /\ StoredInv
        /\ SignalInv /\ NobodyForgotten /\ NoLostWakeup

-----------------------------------------------------------------------------
(* Every initial state satisfies the invariant. *)
LEMMA InitIInv == Init => IInv
<1> SUFFICES ASSUME Init PROVE IInv
  OBVIOUS
<1> USE NoClientAssumption DEF Init
<1>1. TypeOK
  <2>1. runs \in [Clients -> Nat] /\ \A c \in Clients : runs[c] = 0
    OBVIOUS
  <2>2. ASSUME NEW c \in Clients \ late PROVE runs[c] <= 1
    <3>1. c \in Clients /\ runs[c] = 0
      BY <2>1
    <3> QED
      BY ONLY <3>1, SMT
  <2> QED
    BY <2>1, <2>2 DEF TypeOK, Results, WorkerPc, ClientPc, Running
<1>2. ClientInv /\ SlotInv /\ RunInv /\ StoredInv /\ SignalInv
  BY DEF ClientInv, SlotInv, RunInv, StoredInv, SignalInv, Running, Final
<1>3. NobodyForgotten /\ NoLostWakeup
  BY DEF NobodyForgotten, NoLostWakeup, Pending
<1> QED
  BY <1>1, <1>2, <1>3 DEF IInv

(* A submitter that holds the lock preserves the invariant: it finds the slot
   full and sleeps, or empty and fills it.                                 *)
LEMMA TestSlotStep ==
  ASSUME IInv, NEW c \in Clients, pc[c] \in {"submit", "woken"}, TestSlot(c)
  PROVE  IInv'
<1> USE NoClientAssumption DEF IInv
<1>1. CASE SleepOnAvail(c)
  <2>1. ClientInv'
    BY <1>1 DEF TestSlot, SleepOnAvail, ClientInv
  <2>2. NoLostWakeup'
    BY <1>1 DEF TestSlot, SleepOnAvail, ClientInv, NoLostWakeup
  <2>3. TypeOK' /\ SlotInv' /\ RunInv' /\ StoredInv' /\ SignalInv' /\ NobodyForgotten'
    BY <1>1 DEF TestSlot, SleepOnAvail, ClientPc, Pending, TypeOK, SlotInv,
       RunInv, StoredInv, SignalInv, NobodyForgotten, InSlot, BeingRun,
       NoLostWakeup
  <2>4. QED
    BY <2>1, <2>2, <2>3
<1>2. CASE FillSlot(c)
  <2>1. TypeOK'
    BY <1>2 DEF TestSlot, FillSlot, WakeWorker, WorkerPc, ClientPc, TypeOK
  <2>2. ClientInv'
    BY <1>2 DEF TestSlot, FillSlot, WakeWorker, Final, WorkerPc, ClientPc,
       TypeOK, ClientInv
  <2>3. SlotInv'
    BY <1>2 DEF TestSlot, FillSlot, Final, Pending, TypeOK, ClientInv,
       SlotInv
  <2>4. RunInv'
    BY <1>2 DEF TestSlot, FillSlot, WakeWorker, Running, Pending, RunInv
  <2>5. StoredInv'
    <3>1. c \notin late => internal[c] = "unset"
      BY <1>2 DEF ClientInv
    <3>2. internal'[c] = "pending" /\ \A d \in Clients \ {c} : internal'[d] = internal[d]
      BY <1>2 DEF FillSlot, TypeOK
    <3>3. \A d \in Clients : d # c => pc'[d] = pc[d]
      BY <1>2 DEF FillSlot, TypeOK
    <3>4. wpc' = "stored" => wpc = "stored"
      BY <1>2 DEF FillSlot, WakeWorker
    <3> QED
      BY <1>2, <3>1, <3>2, <3>3, <3>4 DEF TestSlot, FillSlot, Final, StoredInv, SignalInv
  <2>6. NobodyForgotten'
    BY <1>2 DEF TestSlot, FillSlot, WakeWorker, Running, Pending, StoredInv,
       NobodyForgotten, InSlot, BeingRun
  <2>7. NoLostWakeup'
    BY <1>2 DEF TestSlot, FillSlot, WakeWorker, Running, Pending,
       NobodyForgotten, InSlot, BeingRun, NoLostWakeup
  <2>8. SignalInv'
    BY <1>2 DEF TestSlot, FillSlot, WakeWorker, SignalInv, NoLostWakeup
  <2>9. QED
    BY <2>1, <2>2, <2>3, <2>4, <2>5, <2>6, <2>7, <2>8
<1>3. QED
  BY <1>1, <1>2 DEF TestSlot

(* Every step preserves the invariant. *)
LEMMA Step ==
  ASSUME IInv, [Next]_vars
  PROVE  IInv'
<1> USE NoClientAssumption DEF IInv
<1>1. ASSUME NEW c \in Clients, Call(c) PROVE IInv'
  <2>1. TypeOK'
    BY <1>1 DEF Call, slotVars, workerVars, ClientPc, TypeOK
  <2>2. ClientInv'
    BY <1>1 DEF Call, slotVars, workerVars, Final, ClientPc, TypeOK,
       ClientInv
  <2>3. SlotInv' /\ RunInv' /\ StoredInv' /\ SignalInv' /\ NobodyForgotten' /\ NoLostWakeup'
    BY <1>1 DEF Call, slotVars, workerVars, Final, Pending, TypeOK,
       ClientInv, SlotInv, RunInv, StoredInv, SignalInv, NobodyForgotten,
       InSlot, BeingRun, NoLostWakeup
  <2>4. QED
    BY <2>1, <2>2, <2>3
<1>2. ASSUME NEW c \in Clients, Submit(c) PROVE IInv'
  BY <1>2, TestSlotStep DEF Submit
<1>3. ASSUME NEW c \in Clients, CreateFails(c) PROVE IInv'
  <2>1. TypeOK'
    BY <1>3 DEF CreateFails, workerVars, ClientPc, TypeOK
  <2>2. ClientInv'
    BY <1>3 DEF CreateFails, workerVars, Final, ClientPc, TypeOK, ClientInv
  <2>3. SlotInv' /\ RunInv' /\ StoredInv' /\ SignalInv' /\ NobodyForgotten' /\ NoLostWakeup'
    BY <1>3 DEF CreateFails, workerVars, Final, Pending, TypeOK, ClientInv,
       SlotInv, RunInv, StoredInv, SignalInv, NobodyForgotten, InSlot,
       BeingRun, NoLostWakeup
  <2>4. QED
    BY <2>1, <2>2, <2>3
<1>4. ASSUME NEW c \in Clients, Resume(c) PROVE IInv'
  BY <1>4, TestSlotStep DEF Resume
<1>5. ASSUME NEW c \in Clients, SpuriousWake(c) PROVE IInv'
  <2>1. ClientInv'
    BY <1>5 DEF SpuriousWake, ovlVars, ClientInv
  <2>2. NoLostWakeup'
    BY <1>5 DEF SpuriousWake, slotVars, workerVars, ovlVars, ClientInv,
       NoLostWakeup
  <2>3. TypeOK' /\ SlotInv' /\ RunInv' /\ StoredInv' /\ SignalInv' /\ NobodyForgotten'
    BY <1>5 DEF SpuriousWake, slotVars, workerVars, ovlVars, ClientPc,
       Pending, TypeOK, SlotInv, RunInv, StoredInv, SignalInv,
       NobodyForgotten, InSlot, BeingRun, NoLostWakeup
  <2>4. QED
    BY <2>1, <2>2, <2>3
<1>6. ASSUME NEW c \in Clients, ReturnAtOnce(c) PROVE IInv'
  <2>1. ClientInv'
    BY <1>6 DEF ReturnAtOnce, TakeBack, TypeOK, ClientInv
  <2>2. StoredInv'
    BY <1>6 DEF ReturnAtOnce, TakeBack, workerVars, Final, TypeOK, StoredInv, SignalInv
  <2>3. SignalInv'
    BY <1>6 DEF ReturnAtOnce, TakeBack, TypeOK, SignalInv
  <2>4. TypeOK' /\ SlotInv' /\ RunInv' /\ NobodyForgotten' /\ NoLostWakeup'
    BY <1>6 DEF ReturnAtOnce, TakeBack, slotVars, workerVars, ClientPc,
       Pending, TypeOK, SlotInv, RunInv, SignalInv, NobodyForgotten, InSlot,
       BeingRun, NoLostWakeup
  <2>5. QED
    BY <2>1, <2>2, <2>3, <2>4
<1>7. ASSUME NEW c \in Clients, ReturnFromWait(c) PROVE IInv'
  <2>1. ClientInv'
    BY <1>7 DEF ReturnFromWait, TakeBack, Final, TypeOK, ClientInv
  <2>2. StoredInv'
    BY <1>7 DEF ReturnFromWait, TakeBack, workerVars, Final, TypeOK, StoredInv, SignalInv
  <2>3. SignalInv'
    BY <1>7 DEF ReturnFromWait, TakeBack, workerVars, StoredInv, SignalInv
  <2>4. TypeOK' /\ SlotInv' /\ RunInv' /\ NobodyForgotten' /\ NoLostWakeup'
    BY <1>7 DEF ReturnFromWait, TakeBack, slotVars, workerVars, Final,
       ClientPc, Pending, TypeOK, SlotInv, RunInv, SignalInv,
       NobodyForgotten, InSlot, BeingRun, NoLostWakeup
  <2>5. QED
    BY <2>1, <2>2, <2>3, <2>4
<1>8. CASE WorkerExit
  <2>1. TypeOK' /\ ClientInv' /\ SlotInv' /\ RunInv' /\ StoredInv' /\ SignalInv' /\ NobodyForgotten' /\ NoLostWakeup'
    BY <1>8 DEF WorkerExit, slotVars, ovlVars, Running, WorkerPc, Pending,
       TypeOK, ClientInv, SlotInv, RunInv, StoredInv, SignalInv,
       NobodyForgotten, InSlot, BeingRun, NoLostWakeup
  <2>2. QED
    BY <2>1
<1>9. CASE WorkerSleep
  <2>1. NoLostWakeup'
    BY <1>9 DEF WorkerSleep, slotVars, NoLostWakeup
  <2>2. TypeOK' /\ ClientInv' /\ SlotInv' /\ RunInv' /\ StoredInv' /\ SignalInv' /\ NobodyForgotten'
    BY <1>9 DEF WorkerSleep, slotVars, ovlVars, Running, WorkerPc, Pending,
       TypeOK, ClientInv, SlotInv, RunInv, StoredInv, SignalInv,
       NobodyForgotten, InSlot, BeingRun, NoLostWakeup
  <2>3. QED
    BY <2>1, <2>2
<1>10. CASE WorkerResume
  <2>1. TypeOK' /\ ClientInv' /\ SlotInv' /\ RunInv' /\ StoredInv' /\ SignalInv' /\ NobodyForgotten' /\ NoLostWakeup'
    BY <1>10 DEF WorkerResume, slotVars, ovlVars, Running, WorkerPc, Pending,
       TypeOK, ClientInv, SlotInv, RunInv, StoredInv, SignalInv,
       NobodyForgotten, InSlot, BeingRun, NoLostWakeup
  <2>2. QED
    BY <2>1
<1>11. CASE WorkerSpuriousWake
  <2>1. TypeOK' /\ ClientInv' /\ SlotInv' /\ RunInv' /\ StoredInv' /\ SignalInv' /\ NobodyForgotten' /\ NoLostWakeup'
    BY <1>11 DEF WorkerSpuriousWake, slotVars, ovlVars, Running, WorkerPc,
       Pending, TypeOK, ClientInv, SlotInv, RunInv, StoredInv, SignalInv,
       NobodyForgotten, InSlot, BeingRun, NoLostWakeup
  <2>2. QED
    BY <2>1
<1>12. CASE WorkerTake
  <2>1. ClientInv'
    BY <1>12 DEF WorkerTake, WakeSubmitter, ovlVars, TypeOK, ClientInv
  <2>2. RunInv'
    BY <1>12 DEF WorkerTake, WakeSubmitter, ovlVars, Pending, TypeOK,
       SlotInv, RunInv
  <2>3. NobodyForgotten'
    BY <1>12 DEF WorkerTake, WakeSubmitter, ovlVars, Running, Pending,
       TypeOK, SlotInv, RunInv, NobodyForgotten, InSlot, BeingRun
  <2>4. NoLostWakeup'
    BY <1>12 DEF WorkerTake, WakeSubmitter, ovlVars, Running, Pending,
       TypeOK, NobodyForgotten, InSlot, BeingRun, NoLostWakeup
  <2>5. TypeOK' /\ SlotInv' /\ StoredInv' /\ SignalInv'
    BY <1>12 DEF WorkerTake, WakeSubmitter, ovlVars, WorkerPc, ClientPc,
       TypeOK, SlotInv, StoredInv, SignalInv, NoLostWakeup
  <2>6. QED
    BY <2>1, <2>2, <2>3, <2>4, <2>5
<1>13. CASE RunTask
  <2>1. TypeOK'
    BY <1>13 DEF RunTask, slotVars, ovlVars, Running, WorkerPc, TypeOK,
       RunInv
  <2>2. RunInv'
    BY <1>13 DEF RunTask, slotVars, ovlVars, Running, WorkerPc, Pending,
       TypeOK, RunInv
  <2>3. ClientInv' /\ SlotInv' /\ StoredInv' /\ SignalInv' /\ NobodyForgotten' /\ NoLostWakeup'
    BY <1>13 DEF RunTask, slotVars, ovlVars, Running, Pending, TypeOK,
       ClientInv, SlotInv, RunInv, StoredInv, SignalInv, NobodyForgotten,
       InSlot, BeingRun, NoLostWakeup
  <2>4. QED
    BY <2>1, <2>2, <2>3
<1>14. CASE LoadEvent
  <2>1. RunInv'
    BY <1>14 DEF LoadEvent, slotVars, Running, Pending, TypeOK, RunInv
  <2>2. TypeOK' /\ ClientInv' /\ SlotInv' /\ StoredInv' /\ SignalInv' /\ NobodyForgotten' /\ NoLostWakeup'
    BY <1>14 DEF LoadEvent, slotVars, Running, WorkerPc, Pending, TypeOK,
       ClientInv, SlotInv, RunInv, StoredInv, SignalInv, NobodyForgotten,
       InSlot, BeingRun, NoLostWakeup
  <2>3. QED
    BY <2>1, <2>2
<1>15. CASE StoreStatus
  <2>1. ClientInv'
    BY <1>15 DEF StoreStatus, StatusOf, Running, Final, Results, Pending,
       TypeOK, ClientInv, RunInv
  <2>2. StoredInv'
    BY <1>15 DEF StoreStatus, StatusOf, Running, Final, Results, Pending,
       TypeOK, RunInv, StoredInv, SignalInv
  <2>3. NobodyForgotten'
    BY <1>15 DEF StoreStatus, StatusOf, slotVars, Running, Final, Results,
       Pending, TypeOK, RunInv, StoredInv, SignalInv, NobodyForgotten,
       InSlot, BeingRun
  <2>4. TypeOK' /\ SlotInv' /\ RunInv' /\ SignalInv' /\ NoLostWakeup'
    BY <1>15 DEF StoreStatus, StatusOf, slotVars, Running, Final, Results,
       WorkerPc, Pending, TypeOK, SlotInv, RunInv, SignalInv,
       NobodyForgotten, InSlot, BeingRun, NoLostWakeup
  <2>5. QED
    BY <2>1, <2>2, <2>3, <2>4
<1>16. CASE Signal
  <2>1. SignalInv'
    BY <1>16 DEF Signal, StoredInv, SignalInv
  <2>2. TypeOK' /\ ClientInv' /\ SlotInv' /\ RunInv' /\ StoredInv' /\ NobodyForgotten' /\ NoLostWakeup'
    BY <1>16 DEF Signal, slotVars, Running, WorkerPc, Pending, TypeOK,
       ClientInv, SlotInv, RunInv, StoredInv, SignalInv, NobodyForgotten,
       InSlot, BeingRun, NoLostWakeup
  <2>3. QED
    BY <2>1, <2>2
<1>17. CASE Fini
  <2>1. NoLostWakeup'
    BY <1>17 DEF Fini, NoLostWakeup
  <2>2. TypeOK' /\ ClientInv' /\ SlotInv' /\ RunInv' /\ StoredInv' /\ SignalInv' /\ NobodyForgotten'
    BY <1>17 DEF Fini, ovlVars, Running, WorkerPc, Pending, TypeOK,
       ClientInv, SlotInv, RunInv, StoredInv, SignalInv, NobodyForgotten,
       InSlot, BeingRun, NoLostWakeup
  <2>3. QED
    BY <2>1, <2>2
<1>18. CASE UNCHANGED vars
  BY <1>18 DEF vars, slotVars, workerVars, ovlVars, TypeOK, ClientInv,
     SlotInv, RunInv, StoredInv, SignalInv, NobodyForgotten, NoLostWakeup,
     Pending, InSlot, BeingRun
<1>19. QED
  BY <1>1, <1>2, <1>3, <1>4, <1>5, <1>6, <1>7, <1>8, <1>9, <1>10, <1>11,
     <1>12, <1>13, <1>14, <1>15, <1>16, <1>17, <1>18 DEF Next, ClientStep,
     WorkerStep

-----------------------------------------------------------------------------
(* The invariant holds in every reachable state. *)
THEOREM Invariance == Spec => []IInv
  BY InitIInv, Step, PTL DEF Spec

(* Every variable of util/async.c and of the OVERLAPPEDs keeps its type. *)
THEOREM TypeCorrect == Spec => []TypeOK
<1>1. IInv => TypeOK
  BY DEF IInv
<1>2. QED
  BY <1>1, Invariance, PTL

(* A pending request is in the slot or in the worker's hands, in one of them
   and nothing else is: async_submit overwrites none, the worker loses none. *)
THEOREM PendingPlaced == ASSUME ~PeekWithEvent PROVE Spec => []PendingInOnePlace
<1>1. IInv => PendingInOnePlace
  BY NoClientAssumption DEF IInv, PendingInOnePlace, TypeOK, SlotInv, RunInv,
     SignalInv, NobodyForgotten, InSlot, BeingRun, Pending
<1>2. QED
  BY <1>1, Invariance, PTL

(* The condition variables of util/async.c lose no wake. *)
THEOREM WakeupsKept == Spec => []NoLostWakeup
<1>1. IInv => NoLostWakeup
  BY DEF IInv
<1>2. QED
  BY <1>1, Invariance, PTL

(* The worker never uses an OVERLAPPED that the game has taken back, unless the
   game's event was signalled for a request that was taken back before; and to
   a game that waits on its event this does not happen.                    *)
THEOREM NoneUsedAfterReturn == Spec => []NoUseAfterReturn
<1>1. IInv => NoUseAfterReturn
  BY DEF IInv, RunInv, SignalInv, Pending, NoUseAfterReturn
<1>2. QED
  BY <1>1, Invariance, PTL

(* The game takes back only requests that are complete, after their task ran
   exactly once.                                                           *)
THEOREM CompleteReturned == ASSUME ~PeekWithEvent PROVE Spec => OnlyCompleteReturned
<1> DEFINE Returned == \A c \in Clients :
                          pc[c] = "inflight" /\ pc'[c] = "idle" =>
                             internal[c] \in Final /\ high[c] /\ runs[c] = 1
<1>1. ASSUME IInv, [Next]_vars PROVE [Returned]_vars
  <2> SUFFICES ASSUME NEW c \in Clients, pc[c] = "inflight", pc'[c] = "idle",
                      vars' # vars
               PROVE  internal[c] \in Final /\ high[c] /\ runs[c] = 1
    OBVIOUS
  <2>1. internal[c] \in Final => high[c] /\ runs[c] = 1
    BY <1>1 DEF IInv, ClientInv, SignalInv
  <2>2. internal[c] \in {"pending"} \cup Final
    BY <1>1 DEF IInv, ClientInv, SignalInv
  <2>3. c \in signalled => internal[c] \in Final
    BY <1>1 DEF IInv, SignalInv
  <2>4. ReturnAtOnce(c) \/ ReturnFromWait(c)
    <3>1. PICK d \in Clients : ClientStep(d) \/ WorkerStep \/ WorkerSpuriousWake \/ Fini
      BY <1>1 DEF Next, ClientStep
    <3>2. CASE ClientStep(d)
      BY <1>1, <3>2 DEF IInv, TypeOK, ClientStep, Call, Submit, CreateFails, Resume,
         SpuriousWake, ReturnAtOnce, ReturnFromWait, TakeBack, TestSlot,
         SleepOnAvail, FillSlot
    <3>3. CASE WorkerStep \/ WorkerSpuriousWake \/ Fini
      BY <1>1, <3>3 DEF IInv, TypeOK, WorkerStep, WorkerExit, WorkerSleep,
         WorkerResume, WorkerSpuriousWake, WorkerTake, WakeSubmitter, RunTask,
         LoadEvent, StoreStatus, Signal, Fini
    <3>4. QED
      BY <3>1, <3>2, <3>3
  <2>5. QED
    BY <2>1, <2>2, <2>3, <2>4 DEF ReturnAtOnce, ReturnFromWait
<1>2. QED
  BY <1>1, Invariance, PTL DEF Spec, OnlyCompleteReturned

-----------------------------------------------------------------------------
(* The mapping to Overlapped. *)
Io    == [c \in Clients |-> IF pc[c] = "inflight" THEN internal[c] ELSE "idle"]
Held  == IF wpc \in Running THEN <<wreq>> ELSE <<>>
Slot  == IF task # NoClient THEN <<task>> ELSE <<>>
Queue == Held \o Slot

(* Concatenation of sequences of at most one element. *)
LEMMA ShortQueues ==
  ASSUME NEW x, NEW y
  PROVE  /\ <<>> \o <<>> = <<>>
         /\ <<>> \o <<x>> = <<x>> /\ <<x>> \o <<>> = <<x>>
         /\ Append(<<>>, y) = <<y>> /\ Append(<<x>>, y) = <<x>> \o <<y>>
         /\ <<x>> # <<>> /\ <<x>> \o <<y>> # <<>>
         /\ Head(<<x>>) = x /\ Tail(<<x>>) = <<>>
         /\ Head(<<x>> \o <<y>>) = x /\ Tail(<<x>> \o <<y>>) = <<y>>
<1> DEFINE S == {x, y}
<1>1. <<x>> \o <<y>> = <<x, y>>
  <2>1. <<x>> \o <<y>> \in Seq(S) /\ <<x, y>> \in Seq(S)
    OBVIOUS
  <2>2. Len(<<x>> \o <<y>>) = 2 /\ Len(<<x, y>>) = 2
    OBVIOUS
  <2>3. \A i \in 1 .. 2 : (<<x>> \o <<y>>)[i] = <<x, y>>[i]
    OBVIOUS
  <2>4. QED
    BY <2>1, <2>2, <2>3, SeqEqual
<1>2. <<>> \o <<>> = <<>> /\ <<>> \o <<x>> = <<x>> /\ <<x>> \o <<>> = <<x>>
  OBVIOUS
<1>3. Append(<<>>, y) = <<y>>
  OBVIOUS
<1>4. Append(<<x>>, y) = <<x>> \o <<y>>
  <2>1. <<x>> \in Seq(S) /\ y \in S
    OBVIOUS
  <2>2. QED
    BY <2>1, AppendIsConcat
<1>5. <<x>> # <<>> /\ Head(<<x>>) = x /\ Tail(<<x>>) = <<>>
  OBVIOUS
<1>6. <<x, y>> # <<>> /\ Head(<<x, y>>) = x
  OBVIOUS
<1>7. Tail(<<x, y>>) = <<y>>
  OBVIOUS
<1>8. QED
  BY <1>1, <1>2, <1>3, <1>4, <1>5, <1>6, <1>7

(* The client enters the queue when it fills the slot. *)
LEMMA FillAccepts ==
  ASSUME IInv, NEW c \in Clients, pc[c] \in {"submit", "woken"}, TestSlot(c)
  PROVE  OverlappedIo!Next \/ UNCHANGED <<Io, Queue>>
<1>1. CASE SleepOnAvail(c)
  <2>1. UNCHANGED Io
    BY <1>1 DEF IInv, TypeOK, SleepOnAvail, Io
  <2>2. UNCHANGED Queue
    BY <1>1 DEF TestSlot, SleepOnAvail, Queue, Held, Slot
  <2>3. QED
    BY <2>1, <2>2
<1>2. CASE FillSlot(c)
  <2>1. Io[c] = "idle" /\ Io' = [Io EXCEPT ![c] = "pending"]
    BY <1>2 DEF IInv, TypeOK, FillSlot, Io
  <2>2. Held' = Held
    BY <1>2 DEF TestSlot, FillSlot, WakeWorker, Held, Running
  <2>3. Slot = <<>> /\ Slot' = <<c>>
    BY <1>2, NoClientAssumption DEF FillSlot, Slot
  <2>4. Queue' = Append(Queue, c)
    BY <2>2, <2>3, ShortQueues DEF Queue, Held
  <2>5. OverlappedIo!Accept(c)
    BY <2>1, <2>4 DEF OverlappedIo!Accept, Io, Queue, Held, Slot
  <2>6. QED
    BY <2>5 DEF OverlappedIo!Next
<1>3. QED
  BY <1>1, <1>2 DEF TestSlot

(* Every step of the worker and its clients maps to a step of Overlapped or
   to none.                                                                *)
LEMMA StepMaps ==
  ASSUME IInv, [Next]_vars, ~PeekWithEvent
  PROVE  OverlappedIo!Next \/ UNCHANGED <<Io, Queue>>
<1>1. ASSUME NEW c \in Clients, Call(c) PROVE UNCHANGED <<Io, Queue>>
  BY <1>1 DEF IInv, TypeOK, Call, slotVars, workerVars, Io, Queue, Held, Slot
<1>2. ASSUME NEW c \in Clients, Submit(c) \/ Resume(c)
      PROVE  OverlappedIo!Next \/ UNCHANGED <<Io, Queue>>
  BY <1>2, FillAccepts DEF Submit, Resume
<1>3. ASSUME NEW c \in Clients, CreateFails(c) \/ SpuriousWake(c)
      PROVE  UNCHANGED <<Io, Queue>>
  BY <1>3 DEF IInv, TypeOK, CreateFails, SpuriousWake, slotVars, workerVars,
     ovlVars, Io, Queue, Held, Slot
<1>4. ASSUME NEW c \in Clients, ReturnAtOnce(c) \/ ReturnFromWait(c)
      PROVE  OverlappedIo!Next
  <2>1. Io[c] \in Final
    BY <1>4 DEF IInv, ClientInv, SignalInv, ReturnAtOnce, ReturnFromWait, Io
  <2>2. Io' = [Io EXCEPT ![c] = "idle"]
    BY <1>4 DEF IInv, TypeOK, ReturnAtOnce, ReturnFromWait, TakeBack, Io
  <2>3. UNCHANGED Queue
    BY <1>4 DEF ReturnAtOnce, ReturnFromWait, TakeBack, slotVars, workerVars,
       Queue, Held, Slot
  <2>4. OverlappedIo!Retire(c)
    BY <2>1, <2>2, <2>3 DEF OverlappedIo!Retire, Io, Queue, Held, Slot
  <2>5. QED
    BY <2>4 DEF OverlappedIo!Next
<1>5. CASE WorkerExit \/ WorkerSleep \/ WorkerResume \/ WorkerSpuriousWake
  BY <1>5 DEF WorkerExit, WorkerSleep, WorkerResume, WorkerSpuriousWake,
     slotVars, ovlVars, Running, Io, Queue, Held, Slot
<1>6. CASE WorkerTake
  <2>1. UNCHANGED Io
    BY <1>6 DEF IInv, TypeOK, WorkerTake, WakeSubmitter, ovlVars, Io
  <2>2. /\ Held = <<>> /\ Slot = <<task>>
        /\ Held' = <<task>> /\ Slot' = <<>>
    BY <1>6 DEF WorkerTake, Running, Held, Slot
  <2>3. UNCHANGED Queue
    BY <2>2, ShortQueues DEF Queue
  <2>4. QED
    BY <2>1, <2>3
<1>7. CASE RunTask \/ LoadEvent
  BY <1>7 DEF RunTask, LoadEvent, slotVars, ovlVars, Running, Io, Queue, Held, Slot
<1>8. CASE StoreStatus
  <2>1. PICK s \in Final : internal' = [internal EXCEPT ![wreq] = s]
    BY <1>8 DEF IInv, TypeOK, StoreStatus, StatusOf, Results, Final
  <2>2. wreq \in Clients /\ Io' = [Io EXCEPT ![wreq] = s]
    BY <1>8, <2>1 DEF IInv, TypeOK, RunInv, SignalInv, Running, Pending, StoreStatus, Io
  <2>3. Held = <<wreq>> /\ Held' = <<>> /\ Slot' = Slot
    BY <1>8 DEF StoreStatus, slotVars, Running, Held, Slot
  <2>4. /\ Queue # <<>> /\ wreq = Head(Queue)
        /\ Queue' = Tail(Queue)
    BY <2>3, ShortQueues DEF Queue, Slot
  <2>5. OverlappedIo!Complete(wreq, s)
    BY <2>2, <2>4 DEF OverlappedIo!Complete, Io, Queue, Held, Slot
  <2>6. QED
    BY <2>1, <2>2, <2>5 DEF OverlappedIo!Next
<1>9. CASE Signal \/ Fini \/ UNCHANGED vars
  BY <1>9 DEF Signal, Fini, vars, slotVars, workerVars, ovlVars, Running, Io,
     Queue, Held, Slot
<1>10. QED
  BY <1>1, <1>2, <1>3, <1>4, <1>5, <1>6, <1>7, <1>8, <1>9 DEF Next,
     ClientStep, WorkerStep

(* The worker and its mailbox implement the promise of overlapped I/O: each
   request gets one final status, in the order of acceptance, and is taken
   back only with one.                                                     *)
THEOREM Refinement == ASSUME ~PeekWithEvent PROVE Spec => ImplementsOverlapped
<1>1. Init => OverlappedIo!Init
  BY ShortQueues DEF Init, OverlappedIo!Init, Running
<1>2. IInv /\ [Next]_vars => [OverlappedIo!Next]_(OverlappedIo!vars)
  BY StepMaps DEF OverlappedIo!vars, Io, Queue, Held, Slot
<1>3. QED
  BY <1>1, <1>2, Invariance, PTL DEF Spec, ImplementsOverlapped, OverlappedIo!Spec
=============================================================================
