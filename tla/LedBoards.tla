------------------------------- MODULE LedBoards -------------------------------
(***************************************************************************)
(* The LED boards 15093-06 (board/led1509306.c, and the copies of it that  *)
(* two hooks have, chunihook/led1509306.c and chusanhook/led1509306.c).    *)
(* Each board has a serial port of its own with a buffer each way; a write *)
(* is decoded and answered within the call, command after command, and a   *)
(* read takes what the buffer holds.                                       *)
(*                                                                         *)
(* A thread that comes with an IRP enters a critical section that it has   *)
(* copied to its own stack, so that it never finds another thread in it:   *)
(* the steps of two threads at one board may come in any order.  Commands  *)
(* and replies are whole frames.                                           *)
(***************************************************************************)
EXTENDS Naturals, Sequences

CONSTANTS
    LedThreads,    \* threads of the game
    LedBoards,
    LedSource,     \* whose code each board runs: "board", "chuni", "chusan"
    LedRoom        \* bound: replies that the game leaves unread

ASSUME LedRoomAssumption == LedRoom \in Nat \ {0}
ASSUME LedSourceAssumption == LedSource \in [LedBoards -> {"board", "chuni", "chusan"}]

VARIABLES
    ledLock,     \* the thread in each board's own critical section
    ledEnable,   \* enable_response
    ledWritten,  \* written_bytes: the commands that are not decoded yet
    ledReadable, \* readable_bytes: the replies that are not read yet
    ledThread,   \* each thread's call
    ledQuiet,    \* the game has switched a board's replies off (the game's)
    ledDue,      \* the replies that it waits for (the game's)
    ledMixed     \* the boards whose handler two threads have been in at once
                 \* (not in the code)

ledPort == <<ledLock, ledEnable, ledWritten, ledReadable>>
ledVars == <<ledPort, ledThread, ledQuiet, ledDue, ledMixed>>

LedFree == "free"
LedIdle == [at |-> "idle", board |-> "none", send |-> <<>>]
LedCommands == {"reset", "board_info", "set_led", "disable", "enable", "bootloader"}

LedTypeOK ==
    /\ ledLock \in [LedBoards -> LedThreads \cup {LedFree}]
    /\ ledEnable \in [LedBoards -> BOOLEAN]
    /\ ledWritten \in [LedBoards -> Seq(LedCommands)]
    /\ ledReadable \in [LedBoards -> Seq(LedCommands)]
    /\ \A t \in LedThreads : ledThread[t].at \in {"idle", "called", "inside", "loop"}
    /\ ledMixed \subseteq LedBoards

(* led1509306_hook_init: each board answers everything to begin with. *)
LedInit ==
    /\ ledLock = [b \in LedBoards |-> LedFree]
    /\ ledEnable = [b \in LedBoards |-> TRUE]
    /\ ledWritten = [b \in LedBoards |-> <<>>]
    /\ ledReadable = [b \in LedBoards |-> <<>>]
    /\ ledThread = [t \in LedThreads |-> LedIdle]
    /\ ledQuiet = [b \in LedBoards |-> FALSE]
    /\ ledDue = [b \in LedBoards |-> <<>>]
    /\ ledMixed = {}

-----------------------------------------------------------------------------
(* Seeded faults: what a definition below might have been by mistake; each one
   breaks a property, and none is part of the specification.               *)

(* A reset leaves the replies switched off. *)
LedEnabled_KeptByReset(b, command) ==
    IF command = "disable" THEN FALSE
    ELSE IF command = "enable" THEN TRUE ELSE ledEnable[b]

-----------------------------------------------------------------------------
(* The game, which knows the board's protocol *)

LedCall(t, b, send) ==
    /\ ledThread[t].at = "idle"
    /\ ledThread' = [ledThread EXCEPT ![t] = [at |-> "called", board |-> b, send |-> send]]
    /\ UNCHANGED <<ledPort, ledQuiet, ledDue, ledMixed>>

LedWrite(t, b, command) ==
    /\ Len(ledDue[b]) < LedRoom
    /\ LedCall(t, b, <<command>>)

LedRead(t, b) ==
    /\ ledDue[b] # <<>>
    /\ LedCall(t, b, <<>>)

(* What it expects of a board that takes a command up *)
LedQuietAfter(b, command) ==
    IF command = "disable" THEN TRUE
    ELSE IF command \in {"enable", "reset"} THEN FALSE ELSE ledQuiet[b]

LedExpects(b, command) ==
    CASE command = "set_led"    -> ~ledQuiet[b]
      [] command = "bootloader" -> LedSource[b] = "board"
      [] OTHER                  -> TRUE

LedExpected(b, send) ==
    IF send = <<>> THEN UNCHANGED <<ledQuiet, ledDue>>
    ELSE /\ ledQuiet' = [ledQuiet EXCEPT ![b] = LedQuietAfter(b, send[1])]
         /\ ledDue' = IF LedExpects(b, send[1])
                      THEN [ledDue EXCEPT ![b] = Append(@, send[1])] ELSE ledDue

-----------------------------------------------------------------------------
(* The handler *)

(* The thread is between LedEnter and the end of its call. *)
LedIn(t, b) == ledThread[t].at \in {"inside", "loop"} /\ ledThread[t].board = b

(* led1509306_handle_irp: `CRITICAL_SECTION lock = v->lock' copies a critical
   section that nobody has entered, and enters the copy.                   *)
LedEnter(t) ==
    LET b == ledThread[t].board  copy == ledLock[b] IN
    /\ ledThread[t].at = "called"
    /\ copy = LedFree
    /\ ledThread' = [ledThread EXCEPT ![t].at = "inside"]
    /\ ledMixed' = IF \E u \in LedThreads : LedIn(u, b) THEN ledMixed \cup {b} ELSE ledMixed
    /\ LedExpected(b, ledThread[t].send)
    /\ UNCHANGED ledPort

(* uart_handle_irp: a write goes into the one buffer, a read comes out of the
   other, and only a write goes on to the loop.                            *)
LedUart(t) ==
    LET b == ledThread[t].board  send == ledThread[t].send IN
    /\ ledThread[t].at = "inside"
    /\ IF send # <<>>
       THEN /\ ledWritten' = [ledWritten EXCEPT ![b] = @ \o send]
            /\ ledThread' = [ledThread EXCEPT ![t].at = "loop"]
            /\ UNCHANGED <<ledReadable, ledDue>>
       ELSE /\ ledReadable' = [ledReadable EXCEPT ![b] = <<>>]
            /\ ledDue' = [ledDue EXCEPT ![b] =
                             SubSeq(@, Len(ledReadable[b]) + 1, Len(@))]
            /\ ledThread' = [ledThread EXCEPT ![t] = LedIdle]
            /\ UNCHANGED ledWritten
    /\ UNCHANGED <<ledLock, ledEnable, ledQuiet, ledMixed>>

(* enable_response after led1509306_req_reset and
   led1509306_req_set_disable_response                                     *)
LedEnabled(b, command) ==
    IF command = "disable" THEN FALSE
    ELSE IF command \in {"enable", "reset"} THEN TRUE ELSE ledEnable[b]

(* led1509306_req_set_led *)
LedSetLed(b) == IF ledEnable[b] THEN <<"set_led">> ELSE <<>>

(* led1509306_req_enter_bootloader, which only board/led1509306.c has *)
LedBootloader(b) == IF LedSource[b] = "board" THEN <<"bootloader">> ELSE <<>>

(* led1509306_req_dispatch *)
LedReply(b, command) ==
    CASE command = "set_led"    -> LedSetLed(b)
      [] command = "bootloader" -> LedBootloader(b)
      [] OTHER                  -> <<command>>

LedDispatch(t) ==
    LET b == ledThread[t].board  command == Head(ledWritten[b]) IN
    /\ ledThread[t].at = "loop" /\ ledWritten[b] # <<>>
    /\ ledWritten' = [ledWritten EXCEPT ![b] = Tail(@)]
    /\ ledReadable' = [ledReadable EXCEPT ![b] = @ \o LedReply(b, command)]
    /\ ledEnable' = [ledEnable EXCEPT ![b] = LedEnabled(b, command)]
    /\ UNCHANGED <<ledLock, ledThread, ledQuiet, ledDue, ledMixed>>

(* No more commands: the thread leaves the section that it has copied. *)
LedLeave(t) ==
    /\ ledThread[t].at = "loop" /\ ledWritten[ledThread[t].board] = <<>>
    /\ ledThread' = [ledThread EXCEPT ![t] = LedIdle]
    /\ UNCHANGED <<ledPort, ledQuiet, ledDue, ledMixed>>

LedNext ==
    \E t \in LedThreads :
       \/ \E b \in LedBoards :
             \/ \E command \in LedCommands : LedWrite(t, b, command)
             \/ LedRead(t, b)
       \/ LedEnter(t) \/ LedUart(t) \/ LedDispatch(t) \/ LedLeave(t)

LedSpec == LedInit /\ [][LedNext]_ledVars

-----------------------------------------------------------------------------
(* Properties *)

(* At a board whose handler no thread is in, the replies that lie ready are
   those that the game waits for, in the order in which the board took its
   commands up: the game never waits for a reply that does not come, nor finds
   one that it has not asked for, whatever has switched the replies off and
   on.  The threads of the game may share a board, as long as its handler has
   had one of them at a time: the lock, a copy, does not see to that.      *)
LedRepliesDue ==
    \A b \in LedBoards \ ledMixed :
       (\A t \in LedThreads : ~LedIn(t, b)) => ledReadable[b] = ledDue[b]
=============================================================================
