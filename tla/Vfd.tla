---------------------------------- MODULE Vfd ----------------------------------
(***************************************************************************)
(* The customer display (board/vfd.c, board/vfd-frame.c): one serial port, *)
(* driven by one thread, which hands over one or more commands a write.    *)
(* They are handled within the call, and texts go on to the network API.   *)
(*                                                                         *)
(* Commands are whole.  One thing of their bytes is kept: the text behind  *)
(* a cursor's position has no length and reaches to the next command, and  *)
(* the loop that looks for it stops one byte short of the buffer's end.    *)
(***************************************************************************)
EXTENDS Naturals, Sequences

CONSTANTS
    VfdEncodings,    \* those that the display has: 0 to VFD_ENC_MAX
    VfdDefault,      \* VFD_ENC_SHIFT_JIS
    VfdRoom,         \* version replies that vfd_readable holds
    VfdMaxCommands   \* bound: commands that the game sends

ASSUME VfdEncodingsAssumption == VfdDefault \in VfdEncodings /\ "blank" \notin VfdEncodings
ASSUME VfdBoundsAssumption == VfdRoom \in Nat /\ VfdMaxCommands \in Nat

VARIABLES
    vfdConfig,     \* api_enabled, with the API's socket at work; utf_enabled
    vfdEncoding,   \* encoding
    vfdWritten,    \* vfd_written
    vfdAt,         \* whether a call is in the handler's loop
    vfdPos,        \* reader.pos, counted in commands
    vfdReadable,   \* version replies in vfd_readable
    vfdShown,      \* what the API was sent, and what became of it
    vfdSent,       \* how many commands the game has written (the game's)
    vfdDisplay,    \* what a display would have of them that handled each once,
                   \* in order (the game's)
    vfdOdd         \* a command has failed, or a text has ended a write (the game's)

vfdVars == <<vfdConfig, vfdEncoding, vfdWritten, vfdAt, vfdPos, vfdReadable, vfdShown,
             vfdSent, vfdDisplay, vfdOdd>>

VfdClearing == {"reset", "clear"}
VfdTexts == {"text", "cursor_text"}
VfdBlank == "blank"   \* the text that clears the display: L"" and ""
\* "other" stands for the commands that are only logged.
VfdCommands == VfdEncodings \cup VfdClearing \cup VfdTexts
               \cup {"bad_encoding", "version", "other"}

VfdTypeOK ==
    /\ vfdConfig \in [api : BOOLEAN, utf : BOOLEAN]
    /\ vfdEncoding \in VfdEncodings
    /\ vfdWritten \in Seq(VfdCommands) /\ vfdSent \in 0 .. VfdMaxCommands
    /\ vfdAt \in {"idle", "loop"} /\ vfdPos \in 0 .. Len(vfdWritten)
    /\ vfdReadable \in 0 .. VfdRoom

(* vfd_hook_init; `encoding' has its value from the start. *)
VfdInit ==
    /\ vfdConfig \in [api : BOOLEAN, utf : BOOLEAN]
    /\ vfdEncoding = VfdDefault
    /\ vfdWritten = <<>> /\ vfdAt = "idle" /\ vfdPos = 0 /\ vfdReadable = 0
    /\ vfdShown = <<>> /\ vfdSent = 0 /\ vfdOdd = FALSE
    /\ vfdDisplay = [encoding |-> VfdDefault, shown |-> <<>>]

-----------------------------------------------------------------------------
(* Seeded faults: what a definition below might have been by mistake; each one
   breaks a property, and none is part of the specification.               *)

(* A version reply is written whether there is room for it or not. *)
VfdFails_NoRoomTest(command) == command = "bad_encoding"

(* The commands stay in the buffer when all of them are handled. *)
VfdLeft_Kept(command) == vfdWritten

-----------------------------------------------------------------------------
(* What the code does with a command *)

(* vfd_handle_reset and vfd_handle_set_encoding *)
VfdEncodingAfter(command, encoding) ==
    IF command \in VfdEncodings THEN command
    ELSE IF command = "reset" THEN VfdDefault ELSE encoding

(* print_vfd_text: converted from the encoding, or the bytes as they are *)
VfdText(encoding) == IF vfdConfig.utf THEN encoding ELSE "raw"

(* The texts that are on their way to api_send_vfd and api_send_vfd_sj *)
VfdSends(command, encoding) ==
    IF ~vfdConfig.api THEN <<>>
    ELSE IF command \in VfdClearing THEN <<VfdBlank>>
    ELSE IF command \in VfdTexts THEN <<VfdText(encoding)>> ELSE <<>>

(* What becomes of one.  MultiByteToWideChar fails on an empty text, and where
   Windows lacks the code page; and as the bytes of a text, and what wcstombs
   leaves of one that it cannot convert, do not end in a NUL, strlen takes in
   what the memory holds behind them, which api_send may find too long.    *)
VfdFates(command) ==
    IF command \in VfdTexts THEN {"whole", "lengthened", "lost"} ELSE {"whole"}

VfdOf(shown) == [i \in DOMAIN shown |-> shown[i].of]

VfdShows(command, encoding, fate) ==
    LET sent == VfdSends(command, encoding)
    IN  vfdShown \o [i \in DOMAIN sent |-> [of |-> sent[i], fate |-> fate]]

(* vfd_handle_set_encoding refuses an encoding; vfd_frame_encode finds no room. *)
VfdFails(command) ==
    command = "bad_encoding" \/ (command = "version" /\ vfdReadable = VfdRoom)

(* vfd_handle_set_cursor has taken all but one byte of the text that ends the
   buffer.                                                                 *)
VfdRest == vfdPos = Len(vfdWritten) /\ vfdWritten # <<>>
           /\ vfdWritten[Len(vfdWritten)] = "cursor_text"

-----------------------------------------------------------------------------
(* The game *)

(* A display that handles a command, and the one or two of a write *)
VfdDisplayAfter(display, command) ==
    [encoding |-> VfdEncodingAfter(command, display.encoding),
     shown    |-> display.shown \o VfdSends(command, display.encoding)]

VfdDisplayed(commands) ==
    LET one == VfdDisplayAfter(vfdDisplay, commands[1])
    IN  IF Len(commands) = 1 THEN one ELSE VfdDisplayAfter(one, commands[2])

VfdWrite(commands) ==
    /\ vfdAt = "idle" /\ vfdSent + Len(commands) <= VfdMaxCommands
    /\ vfdWritten' = vfdWritten \o commands
    /\ vfdAt' = "loop" /\ vfdPos' = 0
    /\ vfdSent' = vfdSent + Len(commands) /\ vfdDisplay' = VfdDisplayed(commands)
    /\ vfdOdd' = (vfdOdd \/ commands[Len(commands)] = "cursor_text")
    /\ UNCHANGED <<vfdConfig, vfdEncoding, vfdReadable, vfdShown>>

VfdRead ==
    /\ vfdAt = "idle" /\ vfdReadable > 0
    /\ vfdReadable' = 0
    /\ UNCHANGED <<vfdConfig, vfdEncoding, vfdWritten, vfdAt, vfdPos, vfdShown,
                   vfdSent, vfdDisplay, vfdOdd>>

-----------------------------------------------------------------------------
(* The loop of vfd_handle_irp *)

(* A handler that fails ends the call, and the buffer keeps every command. *)
VfdGiveUp(command) ==
    /\ VfdFails(command)
    /\ vfdAt' = "idle" /\ vfdPos' = 0 /\ vfdOdd' = TRUE
    /\ UNCHANGED <<vfdWritten, vfdEncoding, vfdReadable, vfdShown>>

(* `vfd_uart.written.pos = 0' is reached behind the last command only. *)
VfdLeft(command) == <<>>

VfdEnd(command) ==
    /\ vfdWritten' = VfdLeft(command) /\ vfdAt' = "idle" /\ vfdPos' = 0

VfdDispatch(command, last) ==
    \/ VfdGiveUp(command)
    \/ /\ ~VfdFails(command)
       /\ vfdEncoding' = VfdEncodingAfter(command, vfdEncoding)
       /\ \E fate \in VfdFates(command) : vfdShown' = VfdShows(command, vfdEncoding, fate)
       /\ vfdReadable' = vfdReadable + (IF command = "version" THEN 1 ELSE 0)
       /\ IF last THEN VfdEnd(command)
          ELSE vfdPos' = vfdPos + 1 /\ UNCHANGED <<vfdWritten, vfdAt>>
       /\ UNCHANGED vfdOdd

VfdHandle ==
    /\ vfdAt = "loop" /\ vfdPos < Len(vfdWritten)
    /\ LET command == vfdWritten[vfdPos + 1] IN
       VfdDispatch(command, vfdPos + 1 = Len(vfdWritten) /\ command # "cursor_text")
    /\ UNCHANGED <<vfdConfig, vfdSent, vfdDisplay>>

(* vfd_frame_sync skips the byte that is left, iobuf_read_8 fails, and `cmd'
   and what the handler reads are whatever the stack holds.                *)
VfdUndefined ==
    /\ vfdAt = "loop" /\ VfdRest
    /\ \E command \in VfdCommands : VfdDispatch(command, TRUE)
    /\ UNCHANGED <<vfdConfig, vfdSent, vfdDisplay>>

VfdNext ==
    \/ \E c \in VfdCommands : VfdWrite(<<c>>)
    \/ \E c, d \in VfdCommands : VfdWrite(<<c, d>>)
    \/ VfdRead \/ VfdHandle \/ VfdUndefined

VfdSpec == VfdInit /\ [][VfdNext]_vfdVars

-----------------------------------------------------------------------------
(* Properties *)

(* Between calls each text that the game has written has gone to the API once,
   in order and under the encoding that the game had chosen when it wrote it,
   where it may be lost or lengthened but the clearing of the display is
   neither.  Two cases are left out: after a command that has failed, all that
   came before it goes there again at every write; and what follows a write
   that ended in a cursor's text is not defined.                           *)
VfdShowsTexts ==
    vfdAt = "idle" /\ ~vfdOdd =>
       /\ VfdOf(vfdShown) = vfdDisplay.shown /\ vfdEncoding = vfdDisplay.encoding
       /\ \A i \in DOMAIN vfdShown : vfdShown[i].of = VfdBlank => vfdShown[i].fate = "whole"
=============================================================================
