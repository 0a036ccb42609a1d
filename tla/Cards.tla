-------------------------------- MODULE Cards --------------------------------
(***************************************************************************)
(* The card printer and its cards: the printer's DLL (printer/printer.c),  *)
(* the RFID reader and writer boards (board/rfid-rw.c) and the card being  *)
(* written that they share (board/rfid-file.c), with the files they leave: *)
(* one per card, the pictures, and the printer's counters.                 *)
(*                                                                         *)
(* One game thread prints cards, another reads the cards on the table; the *)
(* program may be ended at any moment, also between two writes to a file.  *)
(* The printing game follows the order of a print (stage), but may give a  *)
(* card up at any point, by ejecting it or by opening the printer again.   *)
(***************************************************************************)
EXTENDS Integers, Sequences, FiniteSets

CONSTANTS
    Ids,         \* card IDs
    NoId,        \* no card ID
    OptionSets,  \* configurations: sets of Options
    Size,        \* blocks of a card
    Full, Low, Refill,  \* ribbon and holo sheets: 50, 3 and 25 in the code
    Word,        \* 2^32 in the code
    MaxPages,    \* bound: pages printed
    MaxFaults    \* bound: ends of the program, and saves that fail

(* "serial": the writer is a board of its own, not the one in the printer;
   "image", "bin": write_rfid_to_image, write_rfid_bin; "refill": auto_refill;
   "indirect": rfid_boot_ver is 0, and chcusb_open initialises the DLL.    *)
Options == {"serial", "image", "bin", "refill", "indirect"}

ASSUME NoIdAssumption == NoId \notin Ids
ASSUME OptionsAssumption == OptionSets \subseteq SUBSET Options
ASSUME SizeAssumption == Size \in Nat \ {0}
ASSUME SuppliesAssumption ==
    /\ Full \in Nat /\ Low \in Nat \ {0, 1} /\ Refill \in Nat \ {0} /\ Word \in Nat
    /\ Low - 2 + Refill <= Full /\ Low - 1 <= Full /\ Full < Word
ASSUME BoundsAssumption == MaxPages \in Nat /\ MaxFaults \in Nat

VARIABLES
    options,    \* the configuration
    stage,      \* how far the game is with a card
    pc,         \* where the printer's call is between two writes to files
    status,     \* STATUS
    started,    \* rfid_write_has_started
    tid,        \* printer.c's currentRfidId
    held,       \* rfid-file.c: rfid_write_buffer is not NULL, its contents,
                \* and currentRfidId
    blockState, \* block_written_state
    told,       \* the ID that the game was told for this card
    sent,       \* the blocks it has sent for it
    cards,      \* the files in the card directory, by ID
    target,     \* the card file that is open for writing
    images,     \* the RFID data in the pictures, and the card of each
    ram, disk,  \* printer_save_data, and its file
    find,       \* hFind: the scan that is going on
    got,        \* the frames of the last scan (not in the code)
    pages,      \* pages printed (not in the code)
    lost,       \* those of them that were printed when an end of the program
                \* last met the counters' file empty (not in the code)
    faults,     \* ends of the program and failed saves (not in the code)
    torn        \* cards whose file was not finished (not in the code)

config == <<options>>
game   == <<stage, told, sent>>
print  == <<status, started, tid>>
save   == <<ram, disk, pages, lost>>
scan   == <<find, got>>
files  == <<cards, target, torn>>
vars == <<config, game, pc, print, held, blockState, files, images, save, scan,
          faults>>

Block(c, k) == <<c, k>>
Data(c)     == [k \in 1 .. Size |-> Block(c, k)]
Whole(c)    == <<c>> \o Data(c)

NoBuffer == [open |-> FALSE, data |-> <<>>, id |-> NoId]
NoFind   == [on |-> FALSE, next |-> NoId, seen |-> {}, must |-> {}, due |-> {}]
NoSave   == [prints |-> -1, ribbon |-> 0, holo |-> 0]    \* an empty file
Fresh    == [prints |-> 0, ribbon |-> Full, holo |-> Full]

TypeOK ==
    /\ options \in OptionSets
    /\ stage \in {"dead", "off", "ready", "standby", "asked", "writing",
                  "written", "ended"}
    /\ pc \in {"idle", "id", "data", "count", "save", "exitsave", "exit"}
    /\ status \in 0 .. 5 /\ started \in BOOLEAN
    /\ tid \in Ids \cup {NoId} /\ told \in Ids \cup {NoId} /\ sent \in 0 .. Size
    /\ held.open \in BOOLEAN /\ held.id \in Ids \cup {NoId}
    /\ Len(held.data) <= Size
    /\ blockState \in 0 .. 2
    /\ DOMAIN cards \subseteq Ids /\ target \in Ids \cup {NoId}
    /\ torn \subseteq DOMAIN cards
    /\ \A c \in DOMAIN cards : Len(cards[c]) <= Size + 1
    /\ \A s \in {ram, disk} :
          s \in [prints : Int, ribbon : 0 .. Word - 1, holo : 0 .. Word - 1]
    /\ pages \in 0 .. MaxPages /\ lost \in 0 .. pages /\ faults \in 0 .. MaxFaults
    /\ find.next \in DOMAIN cards \cup {NoId}
    /\ find.on <=> find.next # NoId

Init ==
    /\ options \in OptionSets
    /\ stage = "dead" /\ told = NoId /\ sent = 0 /\ pc = "idle"
    /\ status = 0 /\ started = FALSE /\ tid = NoId
    /\ held = NoBuffer /\ blockState = 0
    /\ cards = <<>> /\ target = NoId /\ torn = {}
    /\ images = {}
    /\ ram = NoSave /\ disk = NoSave /\ pages = 0 /\ lost = 0
    /\ find = NoFind /\ got = <<>>
    /\ faults = 0

-----------------------------------------------------------------------------
(* Seeded faults: what a definition below might have been by mistake; each one
   breaks a property, and none is part of the specification.               *)

(* A new card does not clear what was written to the one before. *)
Standby_KeepsBuffer ==
    /\ pc = "idle" /\ stage \in {"ready", "standby"} /\ stage' = "standby"
    /\ IF status = 0 THEN started' = FALSE /\ status' = 1
                     ELSE UNCHANGED <<started, status>>
    /\ UNCHANGED <<config, told, sent, pc, tid, held, blockState, files, images,
                   save, scan, faults>>

(* Opening the printer does not end the card that is in it. *)
Open_KeepsStatus ==
    /\ pc = "idle" /\ stage # "dead"
    /\ stage' = "ready" /\ told' = NoId /\ sent' = 0
    /\ IF "indirect" \in options
       THEN tid' \in Ids \ DOMAIN cards
            /\ ram' = IF disk = NoSave THEN ram ELSE disk
       ELSE UNCHANGED <<tid, ram>>
    /\ UNCHANGED <<config, pc, status, started, held, blockState, files, images,
                   disk, pages, lost, scan, faults>>

(* A save that fails takes the page back. *)
PageCount_Undone ==
    /\ pc = "count"
    /\ \/ /\ ram' = [ram EXCEPT !.prints = @ + 1]
          /\ disk' = NoSave /\ pc' = "save" /\ UNCHANGED faults
       \/ /\ faults < MaxFaults /\ pc' = "idle"
          /\ UNCHANGED <<ram, disk, faults>>
    /\ UNCHANGED <<config, game, print, held, blockState, files, images, pages,
                   lost, scan>>

(* Sheets are added only when there are none. *)
Used_RefillsAtZero(n) == IF n < 1 /\ "refill" \in options
                         THEN n - 1 + Refill
                         ELSE IF n = 0 THEN Word - 1 ELSE n - 1

(* The file that is being written is open to readers. *)
Visit_Shared(c) == IF cards[c] = <<>> THEN <<>>
                   ELSE <<[card |-> c, data |-> cards[c]]>>

(* Nothing is checked before a standby is answered. *)
PollStandby_Counts ==
    /\ pc = "idle" /\ stage # "dead" /\ status >= 2
    /\ status' = status + 1
    /\ UNCHANGED <<config, game, pc, started, tid, held, blockState, files,
                   images, save, scan, faults>>

-----------------------------------------------------------------------------
(* The program and its counters *)

(* An end of the program, or a save that fails. *)
Fault == faults < MaxFaults /\ faults' = faults + 1

(* generate_new_rfid_id: no card has it yet. *)
NewIds == Ids \ DOMAIN cards

(* printer_hook_init: the counters are loaded, or they start again. *)
Start ==
    /\ stage = "dead" /\ stage' = "off"
    /\ status' = 0 /\ started' = FALSE /\ held' = NoBuffer /\ blockState' = 0
    /\ tid' \in NewIds
    /\ \/ /\ disk # NoSave
          /\ ram' = disk
          /\ UNCHANGED pc
       \/ /\ disk = NoSave
          /\ ram' = Fresh /\ pc' = "save"
    /\ UNCHANGED <<config, told, sent, files, images, disk, pages, lost, scan,
                   faults>>

Crash ==
    /\ stage # "dead" /\ Fault
    /\ stage' = "dead" /\ told' = NoId /\ sent' = 0 /\ pc' = "idle"
    /\ target' = NoId
    /\ torn' = torn \cup {c \in DOMAIN cards : c = target}
    /\ find' = NoFind /\ got' = <<>>
    /\ lost' = IF disk = NoSave THEN pages ELSE lost
    /\ UNCHANGED <<config, print, held, blockState, cards, images, ram, disk,
                   pages>>

(* printer_write_data: CREATE_ALWAYS empties the file, WriteFile fills it. *)
BeginSave(during, after) ==
    \/ disk' = NoSave /\ pc' = during /\ UNCHANGED faults
    \/ UNCHANGED disk /\ pc' = after /\ Fault

SaveWrite ==
    /\ pc \in {"save", "exitsave"}
    /\ pc' = IF pc = "save" THEN "idle" ELSE "exit"
    /\ \/ disk' = ram /\ UNCHANGED faults
       \/ UNCHANGED disk /\ Fault
    /\ UNCHANGED <<config, game, print, held, blockState, files, images, ram,
                   pages, lost, scan>>

(* One sheet is used; auto_refill adds some when few were left.  The counters
   are unsigned.                                                           *)
Used(n) == IF n < Low /\ "refill" \in options
           THEN n - 1 + Refill
           ELSE IF n = 0 THEN Word - 1 ELSE n - 1

-----------------------------------------------------------------------------
(* The order of a print *)

Calls(stages) == pc = "idle" /\ stage \in stages

AnyStage == {"off", "ready", "standby", "asked", "writing", "written", "ended"}

(* chcusb_open; a DLL that was "initialized indirectly" starts again. *)
Open ==
    /\ Calls(AnyStage)
    /\ stage' = "ready" /\ told' = NoId /\ sent' = 0
    /\ status' = 0
    /\ IF "indirect" \in options
       THEN tid' \in NewIds /\ ram' = IF disk = NoSave THEN ram ELSE disk
       ELSE UNCHANGED <<tid, ram>>
    /\ UNCHANGED <<config, pc, started, held, blockState, files, images, disk,
                   pages, lost, scan, faults>>

(* chcusb_setPrintStandby: a new card, if the printer is not at one. *)
Standby ==
    /\ Calls({"ready", "standby"}) /\ stage' = "standby"
    /\ IF status = 0
       THEN started' = FALSE /\ held' = NoBuffer /\ status' = 1
       ELSE UNCHANGED <<started, held, status>>
    /\ UNCHANGED <<config, told, sent, pc, tid, blockState, files, images, save,
                   scan, faults>>

(* chcusb_getCardRfidTID, or rfid_req_write_reset of a writer of its own. *)
AskId ==
    /\ Calls({"standby"}) /\ stage' = "asked"
    /\ IF "serial" \in options
       THEN told' \in NewIds /\ blockState' = 0
       ELSE told' = tid /\ UNCHANGED blockState
    /\ UNCHANGED <<config, sent, pc, print, held, files, images, save, scan,
                   faults>>

(* chcusb_write: the picture, with the RFID data behind it, then the counters. *)
Page ==
    /\ Calls({"standby", "written"}) /\ pages < MaxPages
    /\ pages' = pages + 1 /\ pc' = "count"
    /\ images' = IF "image" \in options /\ held.open
                 THEN images \cup {[card |-> told,
                                    rfid |-> <<held.id>> \o held.data]}
                 ELSE images
    /\ UNCHANGED <<config, game, print, held, blockState, files, ram, disk, lost,
                   scan, faults>>

PageCount ==
    /\ pc = "count"
    /\ ram' = [ram EXCEPT !.prints = @ + 1, !.ribbon = Used(@)]
    /\ BeginSave("save", "idle")
    /\ UNCHANGED <<config, game, print, held, blockState, files, images, pages,
                   lost, scan>>

(* chcusb_writeHolo *)
Holo ==
    /\ Calls({"standby", "written"})
    /\ ram' = [ram EXCEPT !.holo = Used(@)]
    /\ BeginSave("save", "idle")
    /\ UNCHANGED <<config, game, print, held, blockState, files, images, pages,
                   lost, scan>>

EndPage ==
    /\ Calls({"standby", "written"}) /\ stage' = "ended"
    /\ status' = 2
    /\ UNCHANGED <<config, told, sent, pc, started, tid, held, blockState, files,
                   images, save, scan, faults>>

(* chcusb_getPrinterInfo, PRINTSTANDBY: the third answer is "printed". *)
PollStandby ==
    /\ Calls(AnyStage) /\ status \in 2 .. 4
    /\ status' = status + 1
    /\ UNCHANGED <<config, game, pc, started, tid, held, blockState, files,
                   images, save, scan, faults>>

(* chcusb_exitCard, up to and after the save *)
ExitCard ==
    /\ Calls(AnyStage \ {"off"})
    /\ BeginSave("exitsave", "exit")
    /\ UNCHANGED <<config, game, print, held, blockState, files, images, ram,
                   pages, lost, scan>>

Eject ==
    /\ pc = "exit" /\ pc' = "idle"
    /\ held' = NoBuffer /\ tid' \in NewIds /\ status' = 0
    /\ stage' = "ready" /\ told' = NoId /\ sent' = 0
    /\ UNCHANGED <<config, started, blockState, files, images, save, scan, faults>>

-----------------------------------------------------------------------------
(* Writing a card *)

(* rfid_file_open, which does nothing while there is a buffer, and
   rfid_file_set_id.                                                       *)
FileOpen(id) == IF held.open THEN [held EXCEPT !.id = id]
                             ELSE [open |-> TRUE, data |-> <<>>, id |-> id]

(* rfid_file_commit with CREATE_NEW, up to the first WriteFile; the caller
   does not look at its result.                                            *)
Commit(name) ==
    \/ /\ name \notin DOMAIN cards
       /\ cards' = [c \in DOMAIN cards \cup {name} |->
                       IF c = name THEN <<>> ELSE cards[c]]
       /\ target' = name /\ pc' = "id"
       /\ UNCHANGED torn
    \/ UNCHANGED <<files, pc>>

(* chcusb_commCardRfidReader, 4098: a start and an end in turn. *)
PrinterStartStop ==
    /\ "serial" \notin options
    /\ started' = TRUE
    /\ IF ~started THEN held' = FileOpen(tid) /\ UNCHANGED <<files, pc>>
       ELSE /\ UNCHANGED held
            /\ IF "bin" \in options THEN Commit(told) ELSE UNCHANGED <<files, pc>>
    /\ UNCHANGED blockState

(* rfid_req_write_start: what it is depends on the last block written; a
   writer that cannot open its file does not answer.                       *)
SerialStartStop ==
    /\ "serial" \in options
    /\ IF held.open /\ blockState = 2
       THEN Commit(held.id) /\ UNCHANGED <<held, blockState>>
       ELSE /\ UNCHANGED <<files, pc>>
            /\ IF blockState = 0 /\ ~held.open
               THEN held' = FileOpen(told) /\ blockState' = 1
               ELSE UNCHANGED <<held, blockState>>
    /\ UNCHANGED started

StartStop(from, to) ==
    /\ Calls({from}) /\ stage' = to
    /\ PrinterStartStop \/ SerialStartStop
    /\ UNCHANGED <<config, told, sent, status, tid, images, save, scan, faults>>

WriteStart == StartStop("asked", "writing")
WriteEnd   == sent = Size /\ StartStop("writing", "written")

WriteBlock ==
    /\ Calls({"writing"}) /\ sent < Size
    /\ sent' = sent + 1
    /\ held' = [held EXCEPT !.data = Append(@, Block(told, sent'))]
    /\ blockState' = IF "serial" \in options THEN 2 ELSE blockState
    /\ UNCHANGED <<config, stage, told, pc, print, files, images, save, scan,
                   faults>>

(* The two calls of WriteFile; a card whose file cannot be written "is now
   history".                                                               *)
WriteFile(here, next, bytes) ==
    /\ pc = here
    /\ \/ /\ cards' = [cards EXCEPT ![target] = @ \o bytes]
          /\ pc' = next
          /\ target' = IF next = "idle" THEN NoId ELSE target
          /\ UNCHANGED torn
       \/ /\ UNCHANGED cards
          /\ pc' = "idle" /\ target' = NoId
          /\ torn' = torn \cup {target}
    /\ UNCHANGED <<config, game, print, held, blockState, images, save, scan,
                   faults>>

WriteCardId   == WriteFile("id", "data", <<held.id>>)
WriteCardData == WriteFile("data", "idle", held.data)

-----------------------------------------------------------------------------
(* rfid_req_scan: one file for each read *)

(* A file that is open for writing, or empty, is left out. *)
Visit(c) == IF c = target \/ cards[c] = <<>> THEN <<>>
            ELSE <<[card |-> c, data |-> cards[c]]>>

(* FindNextFileW: files that were there when the scan began come some time;
   newer ones may.                                                         *)
FindNext(seen, must, due, frames, end) ==
    \/ /\ must \subseteq seen
       /\ find' = [NoFind EXCEPT !.due = due]
       /\ got' = frames \o end
    \/ \E c \in DOMAIN cards \ seen :
          /\ find' = [on |-> TRUE, next |-> c, seen |-> seen, must |-> must,
                     due |-> due]
          /\ got' = frames

ScanUnchanged == UNCHANGED <<config, game, pc, print, held, blockState, files,
                             images, save, faults>>

ScanStart ==
    /\ stage # "dead" /\ ~find.on
    /\ \/ /\ DOMAIN cards = {}
          /\ got' = <<"START", "END">> /\ find' = NoFind
       \/ \E c \in DOMAIN cards :
             FindNext({c}, DOMAIN cards, DOMAIN cards \ (torn \cup {target}),
                      <<"START">> \o Visit(c), <<"END">>)
    /\ ScanUnchanged

ScanRead ==
    /\ find.on
    /\ FindNext(find.seen \cup {find.next}, find.must, find.due,
                got \o Visit(find.next), <<"END">>)
    /\ ScanUnchanged

(* A read from the writer's port goes on with the reader's scan, and the card
   it finds, or the end, goes to the writer.                               *)
WriterRead ==
    /\ "serial" \in options /\ find.on /\ Calls({"asked", "writing", "written"})
    /\ FindNext(find.seen \cup {find.next}, find.must, find.due, got, <<>>)
    /\ ScanUnchanged

-----------------------------------------------------------------------------
Next == \/ Start \/ Crash \/ SaveWrite
        \/ Open \/ Standby \/ AskId
        \/ Page \/ PageCount \/ Holo \/ EndPage \/ PollStandby
        \/ ExitCard \/ Eject
        \/ WriteStart \/ WriteBlock \/ WriteEnd \/ WriteCardId \/ WriteCardData
        \/ ScanStart \/ ScanRead \/ WriterRead

Spec == Init /\ [][Next]_vars

-----------------------------------------------------------------------------
(* Properties *)

(* While the game writes blocks there is a buffer to take them, and the file of
   a card holds its ID and the blocks that were written to that card, all of
   them and in order, and nothing of a card that was given up before it.  Only
   a file that could not be finished is different.                         *)
CardFilesWhole ==
    /\ stage = "writing" => held.open
    /\ \A c \in DOMAIN cards \ torn : c = target \/ cards[c] = Whole(c)

(* A picture bears the data of the card it is printed on, or none. *)
ImagesMatch == \A i \in images : i.rfid = Whole(i.card)

(* An end of the program that meets the counters' file emptied and not written
   again loses the count of all pages before it.  Of the pages since then the
   counter is never ahead, and every end of the program and every failed save
   makes it miss one of them at most.                                      *)
Counted(s) ==
    LET printed == IF pc = "count" THEN pages - 1 ELSE pages
    IN s.prints <= printed - lost /\ printed - lost <= s.prints + faults

PagesCounted == stage # "dead" => Counted(ram)

(* With auto_refill the printer never reports that it is out of sheets, nor
   more than a full load of them, also after a restart.                    *)
Stocked(s) == s.ribbon \in 1 .. Full /\ s.holo \in 1 .. Full

SuppliesLast == "refill" \in options /\ stage # "dead" => Stocked(ram)

(* A scan that has ended delivered every card that was whole when it began, no
   card twice, and of a finished card never a part; as long as no writer
   reads from the same scan.                                               *)
ScanDelivers ==
    ~find.on /\ got # <<>> /\ "serial" \notin options =>
        LET mid == SubSeq(got, 2, Len(got) - 1)
            At(c) == {i \in DOMAIN mid : mid[i].card = c}
        IN /\ \A c \in find.due : At(c) # {}
           /\ \A c \in DOMAIN cards : Cardinality(At(c)) <= 1
           /\ \A c \in DOMAIN cards \ torn, i \in DOMAIN mid :
                 mid[i].card = c => mid[i].data = Whole(c)

(* The card files are whole: what the printer and the writer leave on the disk
   are cards, each with its own blocks (rfid_req_write_reset and its kin). *)
CardsWhole == TypeOK /\ CardFilesWhole
=============================================================================
