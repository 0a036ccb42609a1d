-------------------------------- MODULE Async --------------------------------
(***************************************************************************)
(* util/async.c: a worker thread behind a one-slot mailbox that completes  *)
(* overlapped I/O requests.  Game threads (Clients) call async_submit; the *)
(* worker runs the task and publishes the result in the OVERLAPPED; the    *)
(* game's GetOverlappedResult, an external function of Windows, waits for  *)
(* the event and reads the OVERLAPPED back.                                *)
(*                                                                         *)
(* A region between EnterCriticalSection and LeaveCriticalSection (or      *)
(* SleepConditionVariableCS) touches nothing that another thread reads     *)
(* without the lock, so it is one action; the worker's unlocked stores to  *)
(* the OVERLAPPED are actions of their own.                                *)
(***************************************************************************)
EXTENDS Naturals, Sequences

CONSTANTS
    Clients,        \* game threads
    NoClient,       \* "no request" and "nobody"
    PeekWithEvent   \* does a game thread look at Internal before it waits on
                    \* its event, as GetOverlappedResult alone does?

ASSUME NoClientAssumption == NoClient \notin Clients
ASSUME PeekAssumption == PeekWithEvent \in BOOLEAN

Results == {"ok", "nt_error", "error"}                \* what a task returns
Final   == {"SUCCESS", "NT_STATUS", "UNSUCCESSFUL"}   \* what Internal ends as

(* The mapping of a HRESULT to the NTSTATUS stored in Internal. *)
StatusOf(hr) == CASE hr = "ok"       -> "SUCCESS"
                  [] hr = "nt_error" -> "NT_STATUS"
                  [] hr = "error"    -> "UNSUCCESSFUL"

VARIABLES
    task,      \* async->task with async->irp: whose request is in the slot
    stop,      \* async->stop
    leaked,    \* the client that returned without LeaveCriticalSection
    wpc,       \* where the worker is; "none" while async->thread is NULL
    wreq,      \* the worker's copy of the irp: whose request it works on
    whr,       \* the task's result
    wevent,    \* the worker's copy of ovl->hEvent is not NULL
    pc,        \* where each client is
    hEvent,    \* ovl->hEvent is not NULL, per client
    internal,  \* ovl->Internal, "free" while the OVERLAPPED is not in use
    high,      \* ovl->InternalHigh holds the transfer count
    signalled, \* the clients whose event object is signalled
    runs,      \* how often the task ran for the request (not in the code)
    late       \* the clients whose event was signalled for a request that they
               \* had taken back (not in the code)

slotVars   == <<task, stop, leaked>>
workerVars == <<wpc, wreq, whr, wevent>>
ovlVars    == <<hEvent, internal, high, signalled>>
vars == <<slotVars, workerVars, pc, ovlVars, runs, late>>

WorkerPc == {"none", "top", "asleep", "woken", "run", "ran", "loaded",
             "stored", "exited"}
ClientPc == {"idle", "submit", "asleep", "woken", "inflight"}
Running  == {"run", "ran", "loaded"}   \* the worker uses wreq's OVERLAPPED

TypeOK ==
    /\ task \in Clients \cup {NoClient}
    /\ stop \in BOOLEAN
    /\ leaked \in Clients \cup {NoClient}
    /\ wpc \in WorkerPc
    /\ wreq \in Clients \cup {NoClient}
    /\ whr \in Results
    /\ wevent \in BOOLEAN
    /\ pc \in [Clients -> ClientPc]
    /\ hEvent \in [Clients -> BOOLEAN]
    /\ internal \in [Clients -> {"free", "unset", "pending"} \cup Final]
    /\ high \in [Clients -> BOOLEAN]
    /\ signalled \subseteq Clients
    /\ runs \in [Clients -> Nat] /\ \A c \in Clients \ late : runs[c] <= 1
    /\ late \subseteq Clients

Init ==
    /\ task = NoClient /\ stop = FALSE /\ leaked = NoClient
    /\ wpc = "none" /\ wreq = NoClient /\ whr = "ok" /\ wevent = FALSE
    /\ pc = [c \in Clients |-> "idle"]
    /\ hEvent = [c \in Clients |-> FALSE]
    /\ internal = [c \in Clients |-> "free"]
    /\ high = [c \in Clients |-> FALSE]
    /\ signalled = {}
    /\ runs = [c \in Clients |-> 0] /\ late = {}

(* A critical section can be entered by anyone while nobody was left holding
   it, and always by the thread that holds it.                             *)
CanEnter(t) == leaked \in {NoClient, t}

-----------------------------------------------------------------------------
(* Seeded faults: steps as a plausible bug would make them.  No step of the
   specification uses them; each is swapped in for the step it is named for
   to see that a property notices.                                         *)

(* The worker leaves the request in the slot. *)
WorkerTake_KeepsTask ==
    /\ wpc = "top" /\ leaked = NoClient
    /\ ~stop /\ task # NoClient
    /\ wreq' = task
    /\ wpc' = "run"
    /\ UNCHANGED <<slotVars, whr, wevent, pc, ovlVars, runs, late>>

(* "if" for "while": a woken submitter does not look at the slot again. *)
FillSlot_NoTest(c) ==
    /\ task = NoClient \/ pc[c] = "woken"
    /\ task' = c
    /\ pc' = [pc EXCEPT ![c] = "inflight"]
    /\ internal' = [internal EXCEPT ![c] = "pending"]
    /\ wpc' = IF wpc \in {"none", "asleep"} THEN "top" ELSE wpc

(* The submitter does not wake the worker it finds asleep. *)
WakeWorker_OnlyNew == wpc' = IF wpc = "none" THEN "top" ELSE wpc

(* The worker does not wake the submitters waiting for the slot. *)
WakeSubmitter_Nobody == UNCHANGED pc

(* The status is published before hEvent is read. *)
LoadEvent_AfterStatus ==
    /\ wpc = "ran"
    /\ high' = [high EXCEPT ![wreq] = TRUE]
    /\ internal' = [internal EXCEPT ![wreq] = StatusOf(whr)]
    /\ wpc' = "loaded"
    /\ UNCHANGED <<slotVars, wreq, whr, wevent, pc, hEvent, signalled, runs, late>>

(* The event is signalled before the status is published. *)
LoadEvent_Signals ==
    /\ wpc = "ran"
    /\ high' = [high EXCEPT ![wreq] = TRUE]
    /\ signalled' = IF hEvent[wreq] THEN signalled \cup {wreq} ELSE signalled
    /\ wevent' = FALSE
    /\ wpc' = "loaded"
    /\ UNCHANGED <<slotVars, wreq, whr, pc, hEvent, internal, runs, late>>

(* The status goes to the request now in async->irp, not to the local copy. *)
StoreStatus_SharedIrp ==
    /\ wpc = "loaded"
    /\ LET c == IF task = NoClient THEN wreq ELSE task
       IN internal' = [internal EXCEPT ![c] = StatusOf(whr)]
    /\ wpc' = "stored"
    /\ UNCHANGED <<slotVars, wreq, whr, wevent, pc, hEvent, high, signalled, runs, late>>

-----------------------------------------------------------------------------
(* async_submit, on the calling thread *)

(* The game prepares an OVERLAPPED, resets its event and calls ReadFile. *)
Call(c) ==
    /\ pc[c] = "idle" /\ ~stop
    /\ \E e \in BOOLEAN : hEvent' = [hEvent EXCEPT ![c] = e]
    /\ pc' = [pc EXCEPT ![c] = "submit"]
    /\ internal' = [internal EXCEPT ![c] = "unset"]
    /\ high' = [high EXCEPT ![c] = FALSE]
    /\ signalled' = signalled \ {c}
    /\ runs' = [runs EXCEPT ![c] = 0]
    /\ UNCHANGED <<slotVars, workerVars, late>>

(* The slot is full: release the lock and sleep on async->avail. *)
SleepOnAvail(c) ==
    /\ task # NoClient
    /\ pc' = [pc EXCEPT ![c] = "asleep"]
    /\ UNCHANGED <<task, wpc, internal>>

(* What the submitter does to the worker: the thread it just created begins
   at the top of its loop, a sleeping one is woken.                        *)
WakeWorker ==
    wpc' = CASE wpc = "none"   -> "top"
             [] wpc = "asleep" -> "woken"
             [] OTHER          -> wpc

(* The slot is free: fill it, mark the request pending, wake the worker. *)
FillSlot(c) ==
    /\ task = NoClient
    /\ task' = c
    /\ pc' = [pc EXCEPT ![c] = "inflight"]
    /\ internal' = [internal EXCEPT ![c] = "pending"]
    /\ WakeWorker

(* One turn of the loop that waits for the slot, with the lock held. *)
TestSlot(c) ==
    /\ SleepOnAvail(c) \/ FillSlot(c)
    /\ UNCHANGED <<stop, leaked, wreq, whr, wevent, hEvent, high, signalled, runs, late>>

(* Enter, create the worker if there is none yet, test the slot. *)
Submit(c) == /\ pc[c] = "submit" /\ CanEnter(c)
             /\ TestSlot(c)

(* _beginthreadex fails: the early return leaves the lock held. *)
CreateFails(c) ==
    /\ pc[c] = "submit" /\ CanEnter(c)
    /\ wpc = "none"
    /\ leaked' = c
    /\ pc' = [pc EXCEPT ![c] = "idle"]
    /\ internal' = [internal EXCEPT ![c] = "free"]
    /\ UNCHANGED <<task, stop, workerVars, hEvent, high, signalled, runs, late>>

(* A woken submitter has the lock again and tests the slot again. *)
Resume(c) == /\ pc[c] = "woken" /\ CanEnter(c)
             /\ TestSlot(c)

(* SleepConditionVariableCS may return without a wake. *)
SpuriousWake(c) ==
    /\ pc[c] = "asleep"
    /\ pc' = [pc EXCEPT ![c] = "woken"]
    /\ UNCHANGED <<slotVars, workerVars, ovlVars, runs, late>>

-----------------------------------------------------------------------------
(* GetOverlappedResult, on the game's thread *)

TakeBack(c) ==
    /\ pc' = [pc EXCEPT ![c] = "idle"]
    /\ internal' = [internal EXCEPT ![c] = "free"]
    /\ UNCHANGED <<slotVars, workerVars, hEvent, high, runs, late>>

(* It finds that Internal is not STATUS_PENDING and does not wait. *)
ReturnAtOnce(c) ==
    /\ pc[c] = "inflight"
    /\ hEvent[c] => PeekWithEvent
    /\ internal[c] # "pending"
    /\ UNCHANGED signalled
    /\ TakeBack(c)

(* It is woken by the event and returns, whatever Internal says by then. *)
ReturnFromWait(c) ==
    /\ pc[c] = "inflight"
    /\ hEvent[c] /\ c \in signalled
    /\ signalled' = signalled \ {c}
    /\ TakeBack(c)

-----------------------------------------------------------------------------
(* async_thread_proc *)

WorkerExit ==
    /\ wpc = "top" /\ leaked = NoClient
    /\ stop
    /\ wpc' = "exited"
    /\ UNCHANGED <<slotVars, wreq, whr, wevent, pc, ovlVars, runs, late>>

WorkerSleep ==
    /\ wpc = "top" /\ leaked = NoClient
    /\ ~stop /\ task = NoClient
    /\ wpc' = "asleep"
    /\ UNCHANGED <<slotVars, wreq, whr, wevent, pc, ovlVars, runs, late>>

(* It has the lock again, and leaves it to go back to the top of the loop. *)
WorkerResume ==
    /\ wpc = "woken" /\ leaked = NoClient
    /\ wpc' = "top"
    /\ UNCHANGED <<slotVars, wreq, whr, wevent, pc, ovlVars, runs, late>>

WorkerSpuriousWake ==
    /\ wpc = "asleep"
    /\ wpc' = "woken"
    /\ UNCHANGED <<slotVars, wreq, whr, wevent, pc, ovlVars, runs, late>>

(* WakeConditionVariable(&async->avail): one sleeper, if there is one. *)
WakeSubmitter ==
    \/ /\ \A c \in Clients : pc[c] # "asleep"
       /\ UNCHANGED pc
    \/ \E c \in Clients : /\ pc[c] = "asleep"
                          /\ pc' = [pc EXCEPT ![c] = "woken"]

(* Take the request out of the slot. *)
WorkerTake ==
    /\ wpc = "top" /\ leaked = NoClient
    /\ ~stop /\ task # NoClient
    /\ wreq' = task
    /\ task' = NoClient
    /\ wpc' = "run"
    /\ WakeSubmitter
    /\ UNCHANGED <<stop, leaked, whr, wevent, ovlVars, runs, late>>

(* hr = task(async->ctx, &irp) *)
RunTask ==
    /\ wpc = "run"
    /\ \E hr \in Results : whr' = hr
    /\ wpc' = "ran"
    /\ runs' = [runs EXCEPT ![wreq] = @ + 1]
    /\ UNCHANGED <<slotVars, wreq, wevent, pc, ovlVars, late>>

(* ovl->InternalHigh = ...; event = ovl->hEvent; MemoryBarrier() *)
LoadEvent ==
    /\ wpc = "ran"
    /\ high' = [high EXCEPT ![wreq] = TRUE]
    /\ wevent' = hEvent[wreq]
    /\ wpc' = "loaded"
    /\ UNCHANGED <<slotVars, wreq, whr, pc, hEvent, internal, signalled, runs, late>>

(* ovl->Internal = ...: the worker may not touch *ovl after this. *)
StoreStatus ==
    /\ wpc = "loaded"
    /\ internal' = [internal EXCEPT ![wreq] = StatusOf(whr)]
    /\ wpc' = "stored"
    /\ UNCHANGED <<slotVars, wreq, whr, wevent, pc, hEvent, high, signalled, runs, late>>

(* if (event != NULL) SetEvent(event) *)
Signal ==
    /\ wpc = "stored"
    /\ signalled' = IF wevent THEN signalled \cup {wreq} ELSE signalled
    /\ late' = IF wevent /\ internal[wreq] \notin Final THEN late \cup {wreq}
               ELSE late
    /\ wpc' = "top"
    /\ UNCHANGED <<slotVars, wreq, whr, wevent, pc, hEvent, internal, high, runs>>

-----------------------------------------------------------------------------
(* async_fini, up to its wait for the thread.  Its caller must see to it that
   no thread is inside async_submit, and that none enters it any more.     *)
Fini ==
    /\ ~stop /\ leaked = NoClient
    /\ \A c \in Clients : pc[c] \in {"idle", "inflight"}
    /\ stop' = TRUE
    /\ wpc' = IF wpc = "asleep" THEN "woken" ELSE wpc
    /\ UNCHANGED <<task, leaked, wreq, whr, wevent, pc, ovlVars, runs, late>>

-----------------------------------------------------------------------------
ClientStep(c) == \/ Call(c) \/ Submit(c) \/ CreateFails(c)
                 \/ Resume(c) \/ SpuriousWake(c)
                 \/ ReturnAtOnce(c) \/ ReturnFromWait(c)

WorkerStep == \/ WorkerExit \/ WorkerSleep \/ WorkerResume \/ WorkerTake
              \/ RunTask \/ LoadEvent \/ StoreStatus \/ Signal

Next == \/ \E c \in Clients : ClientStep(c)
        \/ WorkerStep
        \/ WorkerSpuriousWake
        \/ Fini

(* The worker thread is scheduled, and its task returns. *)
Fairness == WF_vars(WorkerStep)

Spec == Init /\ [][Next]_vars /\ Fairness

-----------------------------------------------------------------------------
(* Properties *)

(* The request in c's OVERLAPPED has been accepted and is not finished. *)
Pending(c) == pc[c] = "inflight" /\ internal[c] = "pending"

InSlot(c)     == task = c
BeingRun(c)   == wpc \in Running /\ wreq = c

(* A pending request is in the slot or in the worker's hands, never in both
   and never in neither, and nothing else is: no request is overwritten by
   the next one, forgotten, or run for an OVERLAPPED that is not waiting for
   it (the wait loop of async_submit, the copy and clear of async->task).  *)
PendingInOnePlace ==
    /\ \A c \in Clients : Pending(c) <=> (InSlot(c) \/ BeingRun(c))
    /\ \A c \in Clients : ~(InSlot(c) /\ BeingRun(c))

(* Neither condition variable loses a wake: a sleeping worker has nothing to
   do, and submitters sleep only while the slot is full or one of them is
   already on its way to it.                                               *)
NoLostWakeup ==
    /\ wpc = "asleep" => task = NoClient /\ ~stop
    /\ (task = NoClient /\ \E c \in Clients : pc[c] = "asleep")
          => \E c \in Clients : pc[c] = "woken"

(* "The memory pointed to by ovl ceases to be safely accessible": whenever
   the worker is yet to use *ovl, the game has not taken it back, unless its
   event was once signalled for a request that it had taken back before.  That
   never happens to a game that waits on its event before it looks at Internal. *)
NoUseAfterReturn ==
    /\ wpc \in Running => internal[wreq] # "free" \/ wreq \in late
    /\ ~PeekWithEvent => late = {}

(* The game gets a request back only with its final status and transfer
   count, after its task ran once.                                         *)
OnlyCompleteReturned ==
    [][\A c \in Clients :
         pc[c] = "inflight" /\ pc'[c] = "idle" =>
            internal[c] \in Final /\ high[c] /\ runs[c] = 1]_vars

(* Every accepted request is finished, unless async_fini finds it still in
   the slot or a failed _beginthreadex left the lock held.                 *)
AcceptedCompletes ==
    \A c \in Clients :
        Pending(c) ~> (~Pending(c) \/ (stop /\ InSlot(c)) \/ leaked # NoClient)

(* The worker and its mailbox keep the promise of overlapped I/O, and finish
   the requests in the order in which they were accepted.                  *)
OverlappedIo == INSTANCE Overlapped WITH
    io    <- [c \in Clients |-> IF pc[c] = "inflight" THEN internal[c] ELSE "idle"],
    queue <- (IF wpc \in Running THEN <<wreq>> ELSE <<>>)
             \o (IF task # NoClient THEN <<task>> ELSE <<>>)

ImplementsOverlapped == OverlappedIo!Spec
=============================================================================
