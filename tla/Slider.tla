-------------------------------- MODULE Slider --------------------------------
(***************************************************************************)
(* The Chunithm touch slider: the emulated serial device of                *)
(* chunihook/slider.c (chusanhook/slider.c is the same code), the frame    *)
(* encoder it writes replies with (board/slider-frame.c), and the built-in *)
(* IO DLL of chuniio/chuniio.c whose polling thread calls back into it.    *)
(*                                                                         *)
(* Game threads (Games) send commands with WriteFile and collect frames    *)
(* with ReadFile.  AUTO_SCAN_START makes the IO DLL create a polling       *)
(* thread; AUTO_SCAN_STOP has to join that thread, which takes slider_lock *)
(* in its callback, so the hook gives the lock up around slider_stop.      *)
(*                                                                         *)
(* uart_handle_irp and the iobuf functions belong to an external library:  *)
(* a write appends to uart.written, a read takes from uart.readable.       *)
(***************************************************************************)
EXTENDS Naturals, SequencesExt

CONSTANTS
    Games,       \* game threads
    Starters,    \* those that start and stop the scan
    Patient,     \* does the game await the answer to a STOP before a START?
    MaxPollers,  \* bound: polling threads at a time
    MaxWritten,  \* bound: commands in uart.written
    Capacity     \* uart.readable, in halves of a frame

ASSUME StartersAssumption == Starters \subseteq Games
ASSUME PatientAssumption == Patient \in BOOLEAN
ASSUME BoundsAssumption == MaxPollers \in Nat /\ MaxWritten \in Nat /\ Capacity \in Nat
ASSUME NamesAssumption == Games \cap (0 .. MaxPollers) = {}

Pollers == 1 .. MaxPollers
Nobody  == 0                \* no thread; as a handle, NULL
Threads == Games \cup Pollers

(* AUTO_SCAN_START, AUTO_SCAN_STOP, RESET (and GET_BOARD_INFO, which is
   answered in the same way), SET_LED (and unknown commands, which are not
   answered either), and a frame that slider_frame_decode rejects.         *)
Commands == {"START", "STOP", "RESET", "SET_LED", "BAD"}
CommandsOf(g) == IF g \in Starters THEN Commands \ {"RESET"} ELSE {"RESET"}

(* A frame is stored byte by byte; two parts are enough to be interrupted. *)
Parts == {"head", "tail"}
Half(kind, part) == [kind |-> kind, part |-> part]

VARIABLES
    lock,      \* the owner of slider_lock
    written,   \* uart.written: the commands not decoded yet
    readable,  \* uart.readable: halves of frames the game has not read yet
    gpc,       \* where each game thread is
    reply,     \* the kind of frame it is encoding
    joining,   \* the handle it is waiting for in slider_stop
    ppc,       \* where each polling thread is, "none" when it does not run
    handle,    \* chuni_io_slider_thread
    stopFlag,  \* chuni_io_slider_stop_flag
    scanning,  \* since the last call of slider_stop there was a slider_start
               \* that found or created a thread (not in the code)
    tripped    \* the last write IRP to return failed to decode (not in the code)

hookVars == <<lock, written, readable>>
gameVars == <<gpc, reply, joining>>
dllVars  == <<ppc, handle, stopFlag>>
vars == <<hookVars, gameVars, dllVars, scanning, tripped>>

InStop == {"check", "flag", "join", "wait", "close", "clear"}
GamePc == {"idle", "loop", "head", "tail", "relock"} \cup InStop
PollPc == {"none", "top", "callback", "head", "tail"}

TypeOK ==
    /\ lock \in Threads \cup {Nobody}
    /\ written \in Seq(Commands) /\ Len(written) <= MaxWritten
    /\ readable \in Seq([kind : {"scan", "RESET", "STOP"}, part : Parts])
    /\ Len(readable) <= Capacity
    /\ gpc \in [Games -> GamePc]
    /\ reply \in [Games -> {"RESET", "STOP"}]
    /\ joining \in [Games -> 0 .. MaxPollers]
    /\ ppc \in [Pollers -> PollPc]
    /\ handle \in 0 .. MaxPollers
    /\ stopFlag \in BOOLEAN /\ scanning \in BOOLEAN /\ tripped \in BOOLEAN

Init ==
    /\ lock = Nobody /\ written = <<>> /\ readable = <<>>
    /\ gpc = [g \in Games |-> "idle"]
    /\ reply = [g \in Games |-> "RESET"]
    /\ joining = [g \in Games |-> 0]
    /\ ppc = [p \in Pollers |-> "none"]
    /\ handle = 0 /\ stopFlag = FALSE
    /\ scanning = FALSE /\ tripped = FALSE

Stopping == \E g \in Games : gpc[g] \in InStop

(* A stop is being carried out or still to be acknowledged. *)
Answering(g) == gpc[g] = "relock" \/ (gpc[g] \in {"head", "tail"} /\ reply[g] = "STOP")
Unanswered   == Stopping \/ \E g \in Games : Answering(g)

(* The game writes the commands cs: a patient one sends no START while a STOP
   before it is not answered.                                              *)
MaySend(cs) ==
    Patient =>
        LET sent == written \o cs
        IN \A i \in 1 .. Len(sent) :
              sent[i] = "START" =>
                 /\ ~Unanswered
                 /\ \A j \in 1 .. i - 1 : sent[j] # "STOP"

-----------------------------------------------------------------------------
(* slider_frame_encode: byte by byte, with the lock held, giving up when the
   buffer is full; what was stored by then stays there.                    *)

Room == Len(readable) < Capacity

Store_Unchecked(kind, part) == readable' = Append(readable, Half(kind, part))

Store(kind, part) ==
    readable' = IF Room THEN Append(readable, Half(kind, part)) ELSE readable

(* The next frame in uart.written, in the loop of slider_handle_irp_locked. *)
Decoded(g, c) == /\ gpc[g] = "loop" /\ written # <<>> /\ Head(written) = c
                 /\ written' = Tail(written)

Goto(g, from, to) == gpc[g] = from /\ gpc' = [gpc EXCEPT ![g] = to]

PollGoto(p, from, to) == ppc[p] = from /\ ppc' = [ppc EXCEPT ![p] = to]

-----------------------------------------------------------------------------
(* Seeded faults: what a definition below might have been by mistake; each one
   breaks a property, and none is part of the specification.               *)

(* The stop is requested without leaving slider_lock. *)
ReqAutoScanStop_KeepsLock(g) ==
    /\ Decoded(g, "STOP")
    /\ Goto(g, "loop", "check")
    /\ scanning' = FALSE
    /\ UNCHANGED <<lock, readable, reply, joining, dllVars, tripped>>

(* The polling thread is told to end but not waited for. *)
StopWait_NoWait(g) ==
    /\ Goto(g, "wait", "close")
    /\ joining' = [joining EXCEPT ![g] = 0]
    /\ UNCHANGED <<hookVars, reply, dllVars, scanning, tripped>>

(* The stop flag is never reset. *)
StopClear_KeepsFlag(g) ==
    /\ Goto(g, "clear", "relock")
    /\ UNCHANGED <<hookVars, reply, joining, dllVars, scanning, tripped>>

(* Only one frame of a write is handled. *)
ReplyTail_OneFrame(g) ==
    /\ Goto(g, "tail", "idle")
    /\ Store(reply[g], "tail")
    /\ reply' = [reply EXCEPT ![g] = "RESET"]
    /\ lock' = Nobody
    /\ UNCHANGED <<written, joining, dllVars, scanning, tripped>>

(* The callback encodes without taking slider_lock. *)
CallbackLock_NoLock(p) ==
    /\ PollGoto(p, "callback", "head")
    /\ UNCHANGED <<hookVars, gameVars, handle, stopFlag, scanning, tripped>>

(* The polling thread ends when a report does not fit. *)
CallbackHead_GivesUp(p) ==
    /\ PollGoto(p, "head", IF Room THEN "tail" ELSE "none")
    /\ Store("scan", "head")
    /\ lock' = IF Room THEN lock ELSE Nobody
    /\ UNCHANGED <<written, gameVars, handle, stopFlag, scanning, tripped>>

-----------------------------------------------------------------------------
(* slider_handle_irp, on a game thread *)

(* WriteFile: take the lock; the command, or two commands in one buffer, go
   to uart.written.                                                        *)
Write(g) ==
    /\ gpc[g] = "idle" /\ lock = Nobody
    /\ \E n \in 1 .. 2 : \E cs \in TupleOf(CommandsOf(g), n) :
          /\ n = 2 => g \in Starters
          /\ Len(written \o cs) <= MaxWritten
          /\ MaySend(cs)
          /\ written' = written \o cs
    /\ lock' = g
    /\ gpc' = [gpc EXCEPT ![g] = "loop"]
    /\ UNCHANGED <<readable, reply, joining, dllVars, scanning, tripped>>

(* ReadFile: the frames up to a whole number of halves leave the buffer. *)
Read(g) ==
    /\ gpc[g] = "idle" /\ lock = Nobody
    /\ readable # <<>>
    /\ \E n \in 1 .. Len(readable) :
          readable' = SubSeq(readable, n + 1, Len(readable))
    /\ UNCHANGED <<lock, written, gameVars, dllVars, scanning, tripped>>

Return(g, error) ==
    /\ lock' = Nobody
    /\ gpc' = [gpc EXCEPT ![g] = "idle"]
    /\ tripped' = error
    /\ UNCHANGED <<readable, reply, joining, dllVars, scanning>>

(* No whole frame is left. *)
ReturnDone(g) == /\ gpc[g] = "loop" /\ written = <<>>
                 /\ Return(g, FALSE)
                 /\ UNCHANGED written

(* A frame that does not decode ends the IRP; later frames stay. *)
ReturnError(g) == Decoded(g, "BAD") /\ Return(g, TRUE)

(* SET_LED and unknown commands: nothing the game can read. *)
ReqSetLed(g) ==
    /\ Decoded(g, "SET_LED")
    /\ UNCHANGED <<lock, readable, gameVars, dllVars, scanning, tripped>>

ReqReset(g) ==
    /\ Decoded(g, "RESET")
    /\ gpc' = [gpc EXCEPT ![g] = "head"]
    /\ reply' = [reply EXCEPT ![g] = "RESET"]
    /\ UNCHANGED <<lock, readable, joining, dllVars, scanning, tripped>>

(* A thread that ended and that nobody waits for can lend its name to a new one. *)
Unused(p) == ppc[p] = "none" /\ \A g \in Games : joining[g] # p

(* chuni_io_slider_start: nothing if there is a handle, else create a thread.
   _beginthreadex may fail; the handle is then still NULL, and nobody is told. *)
ReqAutoScanStart(g) ==
    /\ Decoded(g, "START")
    /\ \/ /\ handle # 0
          /\ UNCHANGED <<handle, ppc>> /\ scanning' = TRUE
       \/ /\ handle = 0
          /\ \E p \in Pollers :
                /\ Unused(p) /\ \A q \in 1 .. p - 1 : ~Unused(q)
                /\ handle' = p
                /\ ppc' = [ppc EXCEPT ![p] = "top"]
          /\ scanning' = TRUE
       \/ /\ handle = 0
          /\ UNCHANGED <<handle, ppc, scanning>>
    /\ UNCHANGED <<lock, readable, gameVars, stopFlag, tripped>>

(* Leave the lock and call chuni_io_slider_stop. *)
ReqAutoScanStop(g) ==
    /\ Decoded(g, "STOP")
    /\ lock' = Nobody
    /\ gpc' = [gpc EXCEPT ![g] = "check"]
    /\ scanning' = FALSE
    /\ UNCHANGED <<readable, reply, joining, dllVars, tripped>>

StopCheck(g) ==
    /\ Goto(g, "check", IF handle = 0 THEN "relock" ELSE "flag")
    /\ UNCHANGED <<hookVars, reply, joining, dllVars, scanning, tripped>>

StopFlag(g) ==
    /\ Goto(g, "flag", "join")
    /\ stopFlag' = TRUE
    /\ UNCHANGED <<hookVars, reply, joining, ppc, handle, scanning, tripped>>

StopJoin(g) ==
    /\ Goto(g, "join", "wait")
    /\ joining' = [joining EXCEPT ![g] = handle]
    /\ UNCHANGED <<hookVars, reply, dllVars, scanning, tripped>>

(* WaitForSingleObject: until that thread ends, or not at all on NULL. *)
StopWait(g) ==
    /\ Goto(g, "wait", "close")
    /\ joining[g] # 0 => ppc[joining[g]] = "none"
    /\ joining' = [joining EXCEPT ![g] = 0]
    /\ UNCHANGED <<hookVars, reply, dllVars, scanning, tripped>>

StopClose(g) ==
    /\ Goto(g, "close", "clear")
    /\ handle' = 0
    /\ UNCHANGED <<hookVars, reply, joining, ppc, stopFlag, scanning, tripped>>

StopClear(g) ==
    /\ Goto(g, "clear", "relock")
    /\ stopFlag' = FALSE
    /\ UNCHANGED <<hookVars, reply, joining, ppc, handle, scanning, tripped>>

(* Take the lock again (a critical section is recursive); acknowledge. *)
Relock(g) ==
    /\ lock \in {Nobody, g}
    /\ lock' = g
    /\ Goto(g, "relock", "head")
    /\ reply' = [reply EXCEPT ![g] = "STOP"]
    /\ UNCHANGED <<written, readable, joining, dllVars, scanning, tripped>>

(* An encoding error is only logged: the loop goes on. *)
ReplyHead(g) ==
    /\ Goto(g, "head", IF Room THEN "tail" ELSE "loop")
    /\ Store(reply[g], "head")
    /\ reply' = [reply EXCEPT ![g] = IF Room THEN @ ELSE "RESET"]
    /\ UNCHANGED <<lock, written, joining, dllVars, scanning, tripped>>

ReplyTail(g) ==
    /\ Goto(g, "tail", "loop")
    /\ Store(reply[g], "tail")
    /\ reply' = [reply EXCEPT ![g] = "RESET"]
    /\ UNCHANGED <<lock, written, joining, dllVars, scanning, tripped>>

-----------------------------------------------------------------------------
(* chuni_io_slider_thread_proc and slider_res_auto_scan, on a polling thread *)

PollTop(p) ==
    /\ PollGoto(p, "top", IF stopFlag THEN "none" ELSE "callback")
    /\ UNCHANGED <<hookVars, gameVars, handle, stopFlag, scanning, tripped>>

CallbackLock(p) ==
    /\ lock = Nobody
    /\ lock' = p
    /\ PollGoto(p, "callback", "head")
    /\ UNCHANGED <<written, readable, gameVars, handle, stopFlag, scanning, tripped>>

CallbackHead(p) ==
    /\ PollGoto(p, "head", IF Room THEN "tail" ELSE "top")
    /\ Store("scan", "head")
    /\ lock' = IF Room THEN lock ELSE Nobody
    /\ UNCHANGED <<written, gameVars, handle, stopFlag, scanning, tripped>>

CallbackTail(p) ==
    /\ PollGoto(p, "tail", "top")
    /\ Store("scan", "tail")
    /\ lock' = Nobody
    /\ UNCHANGED <<written, gameVars, handle, stopFlag, scanning, tripped>>

-----------------------------------------------------------------------------
(* Handling of an IRP once it has been written. *)
HandleStep(g) ==
    \/ ReturnDone(g) \/ ReturnError(g) \/ ReqSetLed(g) \/ ReqReset(g)
    \/ ReqAutoScanStart(g) \/ ReqAutoScanStop(g)
    \/ StopCheck(g) \/ StopFlag(g) \/ StopJoin(g) \/ StopWait(g)
    \/ StopClose(g) \/ StopClear(g)
    \/ ReplyHead(g) \/ ReplyTail(g)

PollStep(p) == PollTop(p) \/ CallbackHead(p) \/ CallbackTail(p)

Next == \/ \E g \in Games : Write(g) \/ Read(g)
                            \/ HandleStep(g) \/ Relock(g)
        \/ \E p \in Pollers : PollStep(p) \/ CallbackLock(p)

(* Threads are scheduled, and nobody waits for ever for a lock that keeps
   becoming free: every holder is done with it within one frame, and a
   polling thread sleeps a millisecond between two callbacks.              *)
Fairness ==
    /\ \A g \in Games : WF_vars(HandleStep(g)) /\ SF_vars(Relock(g))
    /\ \A p \in Pollers : WF_vars(PollStep(p)) /\ SF_vars(CallbackLock(p))

Spec == Init /\ [][Next]_vars /\ Fairness

-----------------------------------------------------------------------------
(* Properties *)

(* Frames of different threads never mix in uart.readable: the second half
   of a frame directly follows its first half (all writers hold the lock). *)
FramesContiguous ==
    \A i \in 2 .. Len(readable) :
        readable[i].part = "tail" =>
            readable[i - 1] = [readable[i] EXCEPT !.part = "head"]

(* "You must cease to invoke the input callback before returning from this
   function": once slider_stop has returned no polling thread is left, so no
   scan report can follow the acknowledgement of the stop.                 *)
StopCeasesCallbacks ==
    \A g \in Games :
        Answering(g) => \A p \in Pollers : ppc[p] = "none"

(* "Your DLL must start a polling thread": after a slider_start that did not
   fail there is one, and nothing has told it to end, until slider_stop is
   called; also when the slider_start before it failed.                    *)
ScanningMeansPolling ==
    scanning => /\ handle # 0 /\ ~stopFlag
                /\ ppc[handle] # "none"

(* The same, once no slider_stop is under way: what is left of a scan that was
   started while one was.                                                  *)
StartOutlivesStop ==
    scanning /\ ~Stopping => \E p \in Pollers : ppc[p] # "none"

(* A command that was written is not left in the buffer, except behind a
   frame that did not decode.                                              *)
NothingLeftBehind ==
    (\A g \in Games : gpc[g] = "idle") /\ written # <<>> => tripped

(* slider_stop and the re-acquisition of the lock end: the thread being
   joined can always finish the callback it is in.                         *)
StopReturns ==
    \A g \in Games : gpc[g] = "check" ~> gpc[g] = "loop"

(* While the scan is on the game keeps receiving reports, or its buffer is
   full.                                                                   *)
ReportsKeepComing ==
    scanning ~> (~scanning \/ ~Room \/ \E p \in Pollers : ppc[p] = "tail")

(* The buffers are in order: they hold no more than they have room for, frames
   of different threads do not interleave, and every command of a write is
   handled, but for those behind a frame that does not decode.  A reply for
   which there is no room is cut or dropped, as the code only logs that.
   (the encoder and slider_handle_irp_locked)                               *)
StreamWhole == TypeOK /\ FramesContiguous /\ NothingLeftBehind
=============================================================================
