------------------------------ MODULE SgReader ------------------------------
(***************************************************************************)
(* The SG card reader: the emulated serial port of board/sg-reader.c, its  *)
(* command loop (board/sg-cmd.c), the reader and the LED board behind it   *)
(* (board/sg-nfc.c, board/sg-led.c), the card emulators of iccard/, and    *)
(* the built-in card DLL of aimeio/aimeio.c, which takes the cards from    *)
(* two text files that the player edits while the game runs.               *)
(*                                                                         *)
(* Each IRP runs under sg_reader_lock, so it is one action, but for a POLL: *)
(* that one looks at the scan key and at the files, and writes them, while *)
(* the player is at work.  A card is a name; a file holds a card, digits   *)
(* that are not decimal (NotBcd), or fewer than there have to be (Short).  *)
(***************************************************************************)
EXTENDS Naturals, Sequences

CONSTANTS
    Luids,      \* AiMe card numbers
    IDms,       \* FeliCa card numbers
    MaxUnread,  \* bound: replies that wait for the game; uart.readable holds more
    NoFile, NotBcd, Short,   \* what a card file can be, apart from a card
    Partial,    \* the first digits of a number that is not decimal
    Blank       \* no card number

ASSUME MaxUnreadAssumption == MaxUnread \in Nat
ASSUME NamesAssumption ==
    {NoFile, NotBcd, Short, Partial, Blank} \cap (Luids \cup IDms) = {}

(* Frames, by the address that they bear and their command.  INFO stands for
   the commands that the reader, and LED_INFO for those that the LED board,
   answers with data of its own (the e-money blocks among them); UNKNOWN for
   those that neither knows; "other" for any other address, and for a frame
   that does not decode.                                                   *)
Commands == {"POLL", "READ_BLOCK", "FELICA_POLL", "FELICA", "INFO", "LED_INFO",
             "SET_COLOR", "UNKNOWN"}
Frames   == [addr : {"nfc", "led", "other"}, cmd : Commands]
Poll     == [addr |-> "nfc", cmd |-> "POLL"]

(* The frames for which the game waits for a reply. *)
Due(f)   == f.addr = "nfc" \/ (f.addr = "led" /\ f.cmd # "SET_COLOR")
Answered == {f \in Frames : Due(f)}

VARIABLES
    started,   \* sg_reader_started
    startHr,   \* sg_reader_start_hr
    open,      \* the port is open
    pc,        \* where the poll is, with the lock held; "idle" otherwise
    gen,       \* aime_io_cfg: what the DLL generates
    key,       \* the scan key is held down
    file,      \* the file at aime_path and the file at felica_path
    id,        \* aime_io_aime_id and aime_io_felica_id, Blank while
               \* aime_io_..._id_present is not set
    mifare,    \* nfc->mifare: the number in its block 2
    felica,    \* nfc->felica.IDm
    readable,  \* uart.readable: the replies the game has not read yet
    asked,     \* the frames that are due a reply (not in the code)
    inits,     \* calls of aime_io_init (not in the code)
    last,      \* the last poll's answer, while the player has done nothing
               \* since before that poll (not in the code)
    touched    \* the player did something since the poll began (not in the code)

portVars == <<started, startHr, open>>
dllVars  == <<gen, id>>
nfcVars  == <<mifare, felica>>
outVars  == <<readable, asked>>
ghosts   == <<inits, last, touched>>
vars == <<portVars, pc, key, file, dllVars, nfcVars, outVars, ghosts>>

Kinds    == {"aime", "felica"}
Nothing  == [kind |-> "nothing", card |-> Blank]
Replies  == [kind : {"aime"} , card : Luids] \cup [kind : {"felica"}, card : IDms]
            \cup [kind : {"none", "error", "ok"}, card : {Blank}]
            \cup [kind : {"block"}, card : Luids \cup {Partial, Blank}]
            \cup [kind : {"encap"}, card : IDms \cup {Blank}]

TypeOK ==
    /\ started \in BOOLEAN /\ open \in BOOLEAN
    /\ startHr \in {"S_OK", "failed"}
    /\ pc \in {"idle", "sense", "aime", "aime_gen", "felica", "felica_gen",
               "answer", "failed"}
    /\ gen \in SUBSET Kinds
    /\ key \in BOOLEAN /\ touched \in BOOLEAN
    /\ DOMAIN file = Kinds /\ DOMAIN id = Kinds
    /\ file.aime \in Luids \cup {NoFile, NotBcd, Short}
    /\ file.felica \in IDms \cup {NoFile, Short}
    /\ id.aime \in Luids \cup {NotBcd, Blank}
    /\ id.felica \in IDms \cup {Blank}
    /\ mifare \in Luids \cup {Partial, Blank}
    /\ felica \in IDms \cup {Blank}
    /\ readable \in Seq(Replies) /\ Len(readable) <= MaxUnread
    /\ asked \in Seq(Answered)
    /\ inits \in Nat
    /\ last \in Replies \cup {Nothing}

Init ==
    /\ started = FALSE /\ startHr = "S_OK" /\ open = FALSE
    /\ pc = "idle"
    /\ gen \in SUBSET Kinds
    /\ key = FALSE
    /\ file \in [aime : Luids \cup {NoFile}, felica : {NoFile}]
    /\ id = [k \in Kinds |-> Blank]
    /\ mifare = Blank /\ felica = Blank
    /\ readable = <<>> /\ asked = <<>>
    /\ inits = 0 /\ last = Nothing /\ touched = FALSE

-----------------------------------------------------------------------------
(* Seeded faults: what a definition below might have been by mistake; each one
   breaks a property, and none is part of the specification.               *)

(* Digits are not checked. *)
Populate_Unchecked(luid) == luid

(* A failed start is tried again at the next open. *)
Open_Retries ==
    /\ ~open /\ pc = "idle"
    /\ \/ startHr = "S_OK" /\ started /\ UNCHANGED <<started, startHr, inits>>
       \/ /\ startHr = "failed" \/ ~started
          /\ started' = TRUE
          /\ \E hr \in {"S_OK", "failed"} : startHr' = hr
          /\ inits' = IF inits < 2 THEN inits + 1 ELSE inits
    /\ open' = (startHr' = "S_OK")
    /\ UNCHANGED <<pc, key, file, dllVars, nfcVars, outVars, last, touched>>

(* The LED board does not look at the address. *)
LedReplies_AnyAddress(f) ==
    CASE f.cmd = "SET_COLOR" -> <<>>
      [] f.cmd = "LED_INFO"  -> <<[kind |-> "ok", card |-> Blank]>>
      [] OTHER -> IF f.addr = "led" THEN <<[kind |-> "error", card |-> Blank]>>
                  ELSE <<>>

(* The emulated card is set up once. *)
Populate_Once(luid) == IF mifare = Blank THEN luid ELSE mifare

(* The generated number is not saved. *)
Generate_NotSaved(k, n, from) ==
    /\ pc = from /\ pc' = "answer"
    /\ id' = [id EXCEPT ![k] = n]
    /\ UNCHANGED <<portVars, key, file, gen, nfcVars, outVars, ghosts>>

-----------------------------------------------------------------------------
(* IRP_OP_OPEN: the DLL is started by the first one, and its result kept. *)
Open ==
    /\ ~open /\ pc = "idle"
    /\ \/ started /\ UNCHANGED <<started, startHr, inits>>
       \/ /\ ~started /\ started' = TRUE
          /\ \E hr \in {"S_OK", "failed"} : startHr' = hr
          /\ inits' = inits + 1
    /\ open' = (startHr' = "S_OK")
    /\ UNCHANGED <<pc, key, file, dllVars, nfcVars, outVars, last, touched>>

(* "Unfortunately the card reader UART gets opened and closed repeatedly", by
   games that have read their replies.                                     *)
Close ==
    /\ open /\ pc = "idle" /\ readable = <<>>
    /\ open' = FALSE
    /\ UNCHANGED <<started, startHr, pc, key, file, dllVars, nfcVars, outVars,
                   ghosts>>

(* ReadFile: the oldest reply. *)
Read ==
    /\ open /\ pc = "idle" /\ readable # <<>>
    /\ readable' = Tail(readable)
    /\ asked' = Tail(asked)
    /\ UNCHANGED <<portVars, pc, key, file, dllVars, nfcVars, ghosts>>

-----------------------------------------------------------------------------
(* sg_req_transact, for the reader and then for the LED board: each decodes
   the frame and looks at the address that it bears.                       *)

Reply(kind, card) == [kind |-> kind, card |-> card]

(* sg_res_error *)
Error == Reply("error", Blank)

(* felica_transact compares the number that a command is for. *)
FelicaTransact(idm) == IF idm # felica THEN Error ELSE Reply("encap", felica)

(* sg_nfc_dispatch, for all but POLL: a block that is out of range and a length
   that is wrong are errors.                                               *)
NfcAnswers(cmd) ==
    CASE cmd = "INFO"        -> {Reply("ok", Blank)}
      [] cmd = "READ_BLOCK"  -> {Reply("block", mifare), Error}
      [] cmd = "FELICA_POLL" -> {Reply("encap", felica), Error}
      [] cmd = "FELICA"      -> {FelicaTransact(idm) : idm \in IDms} \cup {Error}
      [] OTHER               -> {Error}

NfcReplies(f) == IF f.addr = "nfc" THEN {<<r>> : r \in NfcAnswers(f.cmd)} ELSE {<<>>}

(* sg_led_dispatch *)
LedReplies(f) ==
    CASE f.addr # "led" \/ f.cmd = "SET_COLOR" -> <<>>
      [] f.addr = "led" /\ f.cmd = "LED_INFO"   -> <<Reply("ok", Blank)>>
      [] OTHER                                  -> <<Error>>

(* What the reader replies, and behind it what the LED board does. *)
Transact(f, nfcReply) ==
    /\ readable' = readable \o nfcReply \o LedReplies(f)
    /\ asked' = IF Due(f) THEN Append(asked, f) ELSE asked

(* WriteFile, one frame; more than one is a frame that does not decode. *)
Write ==
    /\ open /\ pc = "idle" /\ Len(readable) < MaxUnread
    /\ \E f \in Frames \ {Poll} : \E r \in NfcReplies(f) : Transact(f, r)
    /\ UNCHANGED <<portVars, pc, key, file, dllVars, nfcVars, ghosts>>

-----------------------------------------------------------------------------
(* sg_nfc_cmd_poll, and aime_io_nfc_poll which it begins with *)

WritePoll ==
    /\ open /\ pc = "idle" /\ Len(readable) < MaxUnread
    /\ pc' = "sense"
    /\ touched' = FALSE
    /\ UNCHANGED <<portVars, key, file, dllVars, nfcVars, outVars, inits, last>>

PollSense ==
    /\ pc = "sense"
    /\ id' = [k \in Kinds |-> Blank]
    /\ pc' = IF key THEN "aime" ELSE "answer"
    /\ UNCHANGED <<portVars, key, file, gen, nfcVars, outVars, ghosts>>

(* aime_io_read_id_file: a file that holds a number, or the next step. *)
ReadIdFile(k, otherwise) ==
    /\ pc = k
    /\ \/ /\ file[k] \in {NoFile, Short}
          /\ pc' = otherwise
          /\ UNCHANGED id
       \/ /\ file[k] \notin {NoFile, Short}
          /\ pc' = "answer"
          /\ id' = [id EXCEPT ![k] = file[k]]
    /\ UNCHANGED <<portVars, key, file, gen, nfcVars, outVars, ghosts>>

(* A random number is written to the file, whatever is there, unless the file
   cannot be opened.                                                       *)
Generate(k, n, from) ==
    /\ pc = from
    /\ \/ /\ pc' = "answer"
          /\ file' = [file EXCEPT ![k] = n]
          /\ id' = [id EXCEPT ![k] = n]
       \/ pc' = "failed" /\ UNCHANGED <<file, id>>
    /\ UNCHANGED <<portVars, key, gen, nfcVars, outVars, ghosts>>

NfcPoll ==
    \/ PollSense
    \/ ReadIdFile("aime", IF "aime" \in gen THEN "aime_gen" ELSE "felica")
    \/ \E n \in Luids : Generate("aime", n, "aime_gen")
    \/ ReadIdFile("felica", IF "felica" \in gen THEN "felica_gen" ELSE "answer")
    \/ \E n \in IDms : Generate("felica", n, "felica_gen")

(* aime_card_populate: the digits up to one that is not decimal, and nothing
   of the card before.                                                     *)
Populate(luid) == IF luid = NotBcd THEN Partial ELSE luid

(* What the poll is answered with: a FeliCa before an AiMe. *)
Announced ==
    CASE id.felica # Blank                         -> Reply("felica", id.felica)
      [] id.felica = Blank /\ id.aime \in Luids -> Reply("aime", id.aime)
      [] OTHER                                     -> Reply("none", Blank)

Answer ==
    /\ pc = "answer" /\ pc' = "idle"
    /\ IF id.felica # Blank
       THEN felica' = id.felica /\ UNCHANGED mifare
       ELSE /\ mifare' = IF id.aime # Blank THEN Populate(id.aime) ELSE mifare
            /\ UNCHANGED felica
    /\ Transact(Poll, <<Announced>>)
    /\ last' = IF touched THEN Nothing ELSE Announced
    /\ UNCHANGED <<portVars, key, file, dllVars, inits, touched>>

(* The DLL's error is the poll's. *)
PollFails ==
    /\ pc = "failed" /\ pc' = "idle"
    /\ Transact(Poll, <<Error>>)
    /\ last' = Nothing
    /\ UNCHANGED <<portVars, key, file, dllVars, nfcVars, inits, touched>>

-----------------------------------------------------------------------------
(* The player: a file is saved or deleted, the key goes down or up. *)
Player ==
    /\ \/ /\ \E c \in Luids \cup {NoFile, NotBcd, Short} :
                c # file.aime /\ file' = [file EXCEPT !.aime = c]
          /\ UNCHANGED key
       \/ /\ \E c \in IDms \cup {NoFile, Short} :
                c # file.felica /\ file' = [file EXCEPT !.felica = c]
          /\ UNCHANGED key
       \/ key' = ~key /\ UNCHANGED file
    /\ touched' = (pc # "idle") /\ last' = Nothing
    /\ UNCHANGED <<portVars, pc, dllVars, nfcVars, outVars, inits>>

-----------------------------------------------------------------------------
Next == \/ Open \/ Close \/ Read \/ Write \/ WritePoll
        \/ NfcPoll \/ Answer \/ PollFails
        \/ Player

Spec == Init /\ [][Next]_vars

-----------------------------------------------------------------------------
(* Properties *)

(* "Only called once, before any other functions exported from this DLL are
   called": however often the port is opened and closed, and also when the
   DLL failed to start.                                                    *)
InitBeforeUse == /\ inits <= 1
                 /\ open \/ pc # "idle" => inits = 1 /\ startHr = "S_OK"

(* Each frame for the reader or the LED board gets one reply, errors included,
   from the board that it is addressed to and in the order of the frames, and
   SET_COLOR gets none, although both boards hear every frame.             *)
Fitting(f) ==
    CASE f.addr = "nfc" /\ f.cmd = "POLL"        -> {"aime", "felica", "none", "error"}
      [] f.addr = "nfc" /\ f.cmd = "READ_BLOCK"  -> {"block", "error"}
      [] f.addr = "nfc" /\ f.cmd = "FELICA_POLL" -> {"encap", "error"}
      [] f.addr = "nfc" /\ f.cmd = "FELICA"      -> {"encap", "error"}
      [] f.addr = "nfc" /\ f.cmd = "INFO"        -> {"ok"}
      [] f.addr = "led" /\ f.cmd = "LED_INFO"    -> {"ok"}
      [] OTHER                                   -> {"error"}

RepliesMatch ==
    /\ Len(readable) = Len(asked)
    /\ \A i \in 1 .. Len(asked) : readable[i].kind \in Fitting(asked[i])

(* What the game reads of a card after a poll has announced one is that card,
   until it polls again, although the player swaps files meanwhile.        *)
ReadsFromPolledCard ==
    \A i, j \in 1 .. Len(asked) :
        i < j /\ (\A k \in i + 1 .. j : asked[k] # Poll) =>
           \/ readable[i].kind \notin Kinds
           \/ readable[j].kind # (IF readable[i].kind = "aime" THEN "block" ELSE "encap")
           \/ readable[j].card = readable[i].card

(* A card held over the reader stays the same card from poll to poll while
   the player does nothing, also when its number had to be generated.      *)
SameCardNextPoll ==
    [][last # Nothing /\ last' # Nothing => last' = last]_vars

(* "Whether to generate a random FeliCa ID if the file at felicaPath does not
   exist": a file that exists is not replaced.                             *)
GeneratesOnlyMissing ==
    [][pc = "felica_gen" /\ file'.felica # file.felica /\ pc' = "answer" =>
          file.felica = NoFile]_vars

(* The port is served: requests reach a DLL that has been started, and each
   gets the one reply that fits it (sg_reader_handle_irp_locked).          *)
PortServed == TypeOK /\ InitBeforeUse /\ RepliesMatch
=============================================================================
