----------------------------- MODULE CardsProofs -----------------------------
(***************************************************************************)
(* Theorems about Cards, for any sizes and any number of cards, of pages,  *)
(* of ends of the program and of failed saves: the printer's counters, the *)
(* files of the cards, and the scans that read them.                       *)
(***************************************************************************)
EXTENDS Cards, FiniteSetTheorems, TLAPS

Saves == [prints : Int, ribbon : 0 .. Word - 1, holo : 0 .. Word - 1]

(* The counters, the file they are saved in, and the places where they can be
   told apart.  A page that is not counted yet is not lost either.         *)
CountersOK ==
    /\ ram \in Saves /\ disk \in Saves
    /\ pages \in Nat /\ lost \in 0 .. pages /\ faults \in Nat
    /\ pc = "count" => lost < pages
    /\ stage = "dead" => pc = "idle"

(* The program starts again from the file: what holds of the counters has to
   hold of the file as well, unless it is empty.                           *)
FileInv ==
    /\ disk # NoSave =>
          /\ Counted(disk)
          /\ "refill" \in options => Stocked(disk)
    /\ disk = NoSave /\ stage = "dead" => lost = pages

IInv == CountersOK /\ FileInv /\ PagesCounted /\ SuppliesLast

-----------------------------------------------------------------------------
(* A sheet taken from a counter leaves a counter; with auto_refill one that is
   neither empty nor above a full load.                                    *)
LEMMA UsedCounts ==
    ASSUME NEW n \in 0 .. Word - 1
    PROVE  /\ Used(n) \in 0 .. Word - 1
           /\ "refill" \in options /\ n \in 1 .. Full => Used(n) \in 1 .. Full
BY SuppliesAssumption DEF Used

(* A new printer has a full load and has printed nothing. *)
LEMMA FreshCounts ==
    /\ Fresh \in Saves /\ NoSave \in Saves
    /\ Fresh.prints = 0 /\ Stocked(Fresh)
BY SuppliesAssumption DEF Fresh, NoSave, Saves, Stocked

(* Most steps leave the counters and their file alone. *)
LEMMA Keeps ==
    ASSUME IInv, UNCHANGED <<options, ram, disk, pages, lost, faults>>,
           stage' = "dead" => stage = "dead" /\ pc' = "idle",
           stage = "dead" => stage' = "dead",
           pc = "count" <=> pc' = "count"
    PROVE  IInv'
BY DEF IInv, CountersOK, FileInv, PagesCounted, SuppliesLast, Counted, Stocked

LEMMA InitIInv == Init => IInv
BY FreshCounts DEF Init, IInv, CountersOK, FileInv, PagesCounted, SuppliesLast

-----------------------------------------------------------------------------
(* The steps that do not leave them alone *)

LEMMA StartStep == IInv /\ Start => IInv'
<1> SUFFICES ASSUME IInv, Start PROVE IInv'
  OBVIOUS
<1> USE DEF IInv, CountersOK, FileInv, PagesCounted, SuppliesLast, Counted, Stocked
<1>1. /\ stage' = "off" /\ pc = "idle" /\ options' = options
      /\ disk' = disk /\ UNCHANGED <<pages, lost, faults>>
  BY DEF Start, config, scan, files
<1>2. CASE disk # NoSave /\ ram' = disk /\ UNCHANGED pc
  BY <1>1, <1>2
<1>3. CASE disk = NoSave /\ ram' = Fresh /\ pc' = "save"
  <2>1. stage = "dead" => lost = pages
    BY <1>3
  <2>2. stage = "dead"
    BY DEF Start
  <2> QED
    BY <1>1, <1>3, <2>1, <2>2, FreshCounts
<1> QED
  BY <1>2, <1>3 DEF Start

(* An end of the program loses the page that was not counted yet. *)
LEMMA CrashStep == IInv /\ Crash => IInv'
<1> SUFFICES ASSUME IInv, Crash PROVE IInv'
  OBVIOUS
<1> USE DEF IInv, CountersOK, FileInv, PagesCounted, SuppliesLast, Counted, Stocked
<1>1. /\ stage' = "dead" /\ pc' = "idle" /\ faults' = faults + 1
      /\ UNCHANGED <<options, ram, disk, pages>>
      /\ lost' = IF disk = NoSave THEN pages ELSE lost
  BY DEF Crash, Fault, config
<1>2. disk \in Saves /\ disk.prints \in Int
  BY DEF Saves
<1> QED
  BY <1>1, <1>2

LEMMA SaveWriteStep == IInv /\ SaveWrite => IInv'
<1> SUFFICES ASSUME IInv, SaveWrite PROVE IInv'
  OBVIOUS
<1> USE DEF IInv, CountersOK, FileInv, PagesCounted, SuppliesLast, Counted, Stocked
<1>1. /\ stage # "dead" /\ stage' = stage
      /\ pc # "count" /\ pc' # "count"
      /\ UNCHANGED <<options, ram, pages, lost>>
  BY DEF SaveWrite, config, game
<1>2. ram.prints \in Int /\ disk.prints \in Int
  BY DEF Saves
<1>3. CASE disk' = ram /\ UNCHANGED faults
  BY <1>1, <1>3
<1>4. CASE disk' = disk /\ faults' = faults + 1
  BY <1>1, <1>2, <1>4
<1> QED
  BY <1>3, <1>4 DEF SaveWrite, Fault

(* An emptied file says nothing; a file that could not be emptied is one fault
   older than the counters.                                                *)
LEMMA BeginSaveStep ==
    ASSUME IInv, stage # "dead", UNCHANGED <<options, stage, pages, lost>>,
           NEW during \in {"save", "exitsave"}, NEW after \in {"idle", "exit"},
           BeginSave(during, after), ram' \in Saves,
           "refill" \in options => Stocked(ram'),
           ram'.prints = ram.prints + (IF pc = "count" THEN 1 ELSE 0)
    PROVE  IInv'
<1> USE DEF IInv, CountersOK, FileInv, PagesCounted, SuppliesLast, Counted, Stocked
<1>1. pc' # "count" /\ ram.prints \in Int /\ disk.prints \in Int
  BY DEF BeginSave, Saves
<1>2. CASE disk' = NoSave /\ UNCHANGED faults
  BY <1>1, <1>2, FreshCounts
<1>3. CASE UNCHANGED disk /\ faults' = faults + 1
  BY <1>1, <1>3
<1> QED
  BY <1>2, <1>3 DEF BeginSave, Fault

LEMMA PageStep == IInv /\ Page => IInv'
<1> SUFFICES ASSUME IInv, Page PROVE IInv'
  OBVIOUS
<1>1. /\ stage # "dead" /\ stage' = stage
      /\ pc = "idle" /\ pc' = "count" /\ pages' = pages + 1
      /\ UNCHANGED <<options, ram, disk, lost, faults>>
  BY DEF Page, Calls, config, game
<1> QED
  BY <1>1 DEF IInv, CountersOK, FileInv, PagesCounted, SuppliesLast, Counted,
              Stocked

LEMMA PageCountStep == IInv /\ PageCount => IInv'
<1> SUFFICES ASSUME IInv, PageCount PROVE IInv'
  OBVIOUS
<1>1. /\ pc = "count" /\ stage # "dead" /\ ram \in Saves
      /\ UNCHANGED <<options, stage, pages, lost>>
  BY DEF PageCount, IInv, CountersOK, config, game
<1>2. ram' = [ram EXCEPT !.prints = @ + 1, !.ribbon = Used(@)]
  BY DEF PageCount
<1>3. /\ ram'.prints = ram.prints + 1 /\ ram'.holo = ram.holo
      /\ ram'.ribbon = Used(ram.ribbon)
  BY <1>1, <1>2 DEF Saves
<1>4. ram' \in Saves
  <2>1. ram.prints + 1 \in Int /\ ram.ribbon \in 0 .. Word - 1
    BY <1>1 DEF Saves
  <2>2. Used(ram.ribbon) \in 0 .. Word - 1
    BY <2>1, UsedCounts
  <2> QED
    BY <1>1, <1>2, <2>1, <2>2 DEF Saves
<1>5. "refill" \in options => Stocked(ram')
  BY <1>1, <1>3, UsedCounts DEF IInv, SuppliesLast, Stocked, Saves
<1>6. BeginSave("save", "idle")
  BY DEF PageCount
<1> QED
  BY <1>1, <1>3, <1>4, <1>5, <1>6, BeginSaveStep

LEMMA HoloStep == IInv /\ Holo => IInv'
<1> SUFFICES ASSUME IInv, Holo PROVE IInv'
  OBVIOUS
<1>1. /\ pc = "idle" /\ stage # "dead" /\ ram \in Saves
      /\ UNCHANGED <<options, stage, pages, lost>>
  BY DEF Holo, Calls, IInv, CountersOK, config, game
<1>2. ram' = [ram EXCEPT !.holo = Used(@)]
  BY DEF Holo
<1>3. /\ ram'.prints = ram.prints /\ ram'.ribbon = ram.ribbon
      /\ ram'.holo = Used(ram.holo)
  BY <1>1, <1>2 DEF Saves
<1>4. ram' \in Saves /\ ram.prints \in Int
  BY <1>1, <1>2, UsedCounts DEF Saves
<1>5. "refill" \in options => Stocked(ram')
  BY <1>1, <1>3, UsedCounts DEF IInv, SuppliesLast, Stocked, Saves
<1>6. BeginSave("save", "idle")
  BY DEF Holo
<1> QED
  BY <1>1, <1>3, <1>4, <1>5, <1>6, BeginSaveStep

LEMMA ExitCardStep == IInv /\ ExitCard => IInv'
<1> SUFFICES ASSUME IInv, ExitCard PROVE IInv'
  OBVIOUS
<1>1. /\ pc = "idle" /\ stage # "dead" /\ ram \in Saves
      /\ UNCHANGED <<options, stage, pages, lost, ram>>
  BY DEF ExitCard, Calls, AnyStage, IInv, CountersOK, config, game
<1>2. /\ ram.prints \in Int
      /\ "refill" \in options => Stocked(ram')
  BY <1>1 DEF IInv, SuppliesLast, Saves, Stocked
<1>3. BeginSave("exitsave", "exit")
  BY DEF ExitCard
<1>4. ram'.prints = ram.prints + 0
  BY <1>1, <1>2 DEF Saves
<1> QED
  BY <1>1, <1>2, <1>3, <1>4, BeginSaveStep

(* A printer that is initialised again takes up the file. *)
LEMMA OpenStep == IInv /\ Open => IInv'
<1> SUFFICES ASSUME IInv, Open PROVE IInv'
  OBVIOUS
<1> USE DEF IInv, CountersOK, FileInv, PagesCounted, SuppliesLast, Counted, Stocked
<1>1. /\ stage # "dead" /\ stage' = "ready" /\ pc = "idle" /\ pc' = "idle"
      /\ UNCHANGED <<options, disk, pages, lost, faults>>
  BY DEF Open, Calls, AnyStage, config
<1>2. ram' = ram \/ (ram' = disk /\ disk # NoSave)
  BY DEF Open
<1>3. CASE ram' = ram
  BY <1>1, <1>3
<1>4. CASE ram' = disk /\ disk # NoSave
  BY <1>1, <1>4
<1> QED
  BY <1>2, <1>3, <1>4

-----------------------------------------------------------------------------
(* The others *)

LEMMA PrintSteps ==
    IInv /\ (Standby \/ AskId \/ EndPage \/ PollStandby \/ Eject) => IInv'
<1> SUFFICES ASSUME IInv, Standby \/ AskId \/ EndPage \/ PollStandby \/ Eject
             PROVE  IInv'
  OBVIOUS
<1>1. /\ stage # "dead" /\ stage' # "dead" /\ pc # "count" /\ pc' # "count"
      /\ UNCHANGED <<options, ram, disk, pages, lost, faults>>
  BY DEF Standby, AskId, EndPage, PollStandby, Eject, Calls, AnyStage, config,
         game, save, IInv, CountersOK
<1> QED
  BY <1>1, Keeps

LEMMA WriteSteps ==
    IInv /\ (WriteStart \/ WriteBlock \/ WriteEnd \/ WriteCardId \/ WriteCardData)
      => IInv'
<1> SUFFICES ASSUME IInv, WriteStart \/ WriteBlock \/ WriteEnd \/ WriteCardId
                             \/ WriteCardData
             PROVE  IInv'
  OBVIOUS
<1>1. pc # "count" /\ UNCHANGED <<options, ram, disk, pages, lost, faults>>
  BY DEF WriteStart, WriteEnd, StartStop, WriteBlock, WriteCardId, WriteCardData,
         WriteFile, Calls, config, save
<1>2. pc' # "count"
  <2>1. CASE WriteStart \/ WriteEnd
    BY <1>1, <2>1 DEF WriteStart, WriteEnd, StartStop, PrinterStartStop,
                      SerialStartStop, Commit
  <2>2. CASE WriteBlock
    BY <1>1, <2>2 DEF WriteBlock
  <2>3. CASE WriteCardId \/ WriteCardData
    BY <2>3 DEF WriteCardId, WriteCardData, WriteFile
  <2> QED
    BY <2>1, <2>2, <2>3
<1>3. stage # "dead" /\ stage' # "dead"
  BY DEF WriteStart, WriteEnd, StartStop, WriteBlock, WriteCardId, WriteCardData,
         WriteFile, Calls, game, IInv, CountersOK
<1> QED
  BY <1>1, <1>2, <1>3, Keeps

LEMMA ScanSteps == IInv /\ (ScanStart \/ ScanRead \/ WriterRead) => IInv'
<1> SUFFICES ASSUME IInv, ScanStart \/ ScanRead \/ WriterRead PROVE IInv'
  OBVIOUS
<1>1. UNCHANGED <<options, stage, pc, ram, disk, pages, lost, faults>>
  BY DEF ScanStart, ScanRead, WriterRead, ScanUnchanged, config, game, save
<1> QED
  BY <1>1, Keeps DEF IInv, CountersOK

(* Every step of the program keeps the invariant. *)
LEMMA NextIInv == IInv /\ [Next]_vars => IInv'
<1> SUFFICES ASSUME IInv, [Next]_vars PROVE IInv'
  OBVIOUS
<1>1. CASE UNCHANGED vars
  <2>1. UNCHANGED <<options, stage, pc, ram, disk, pages, lost, faults>>
    BY <1>1 DEF vars, config, game, save
  <2> QED
    BY <2>1, Keeps DEF IInv, CountersOK
<1>2. CASE Next
  BY <1>2, StartStep, CrashStep, SaveWriteStep, OpenStep, PageStep, PageCountStep,
     HoloStep, ExitCardStep, PrintSteps, WriteSteps, ScanSteps DEF Next
<1> QED
  BY <1>1, <1>2

-----------------------------------------------------------------------------
(* After an end of the program that meets the counters' file emptied, the pages
   before it are lost.  Of those since then the page counter is never ahead,
   and it misses at most one for every end of the program and every save that
   failed.                                                                 *)
THEOREM CountsPages == Spec => []PagesCounted
<1>1. IInv => PagesCounted
  BY DEF IInv
<1> QED
  BY InitIInv, NextIInv, <1>1, PTL DEF Spec

(* With auto_refill the supplies neither run out nor exceed a full load, also
   when the program is ended between the two writes of a save.             *)
THEOREM SuppliesNeverOut == Spec => []SuppliesLast
<1>1. IInv => SuppliesLast
  BY DEF IInv
<1> QED
  BY InitIInv, NextIInv, <1>1, PTL DEF Spec
-----------------------------------------------------------------------------
(* The card that is being written, by the stage of its print *)
Sent(c, n) == [k \in 1 .. n |-> Block(c, k)]

(* The buffer is empty when the game has asked for an ID; then it has the ID
   that the game was told, and the blocks that the game has sent.          *)
Blank == held = NoBuffer /\ ~started /\ sent = 0

Filled ==
    /\ told \in Ids /\ sent \in 0 .. Size
    /\ held = [open |-> TRUE, data |-> Sent(told, sent), id |-> told]
    /\ "serial" \notin options => started
    /\ "serial" \in options /\ sent > 0 => blockState = 2

StageInv ==
    /\ stage # "dead" => tid \in Ids
    /\ stage = "ready" => status = 0 /\ sent = 0
    /\ stage = "standby" => status # 0 /\ Blank
    /\ stage = "asked" =>
          /\ Blank /\ told \in Ids
          /\ IF "serial" \in options THEN blockState = 0 ELSE told = tid
    /\ stage = "writing" => Filled
    /\ stage = "written" => Filled /\ sent = Size

(* What can be in a card's file, and what is in the one that is open *)
Contents(c) == {<<>>, <<c>>, Whole(c)}

FilesInv ==
    /\ cards \in [DOMAIN cards -> {cards[c] : c \in DOMAIN cards}]
    /\ DOMAIN cards \subseteq Ids /\ torn \subseteq DOMAIN cards
    /\ \A c \in DOMAIN cards : cards[c] \in Contents(c)
    /\ \A c \in DOMAIN cards \ torn : c = target \/ cards[c] = Whole(c)
    /\ IF pc \in {"id", "data"}
       THEN /\ stage = "written" /\ target = told
            /\ target \in DOMAIN cards \ torn
            /\ cards[target] = IF pc = "id" THEN <<>> ELSE <<told>>
       ELSE target = NoId

ImagesInv == \A i \in images : i.rfid = Whole(i.card)

(* The frames up to n are those of the cards that a scan has seen: it delivers
   each once and those that are due, and unless they are torn they are whole. *)
Delivered(g, n, seen, due) ==
    /\ Len(g) \in Nat /\ g = [i \in 1 .. Len(g) |-> g[i]]
    /\ n \in 1 .. Len(g)
    /\ \A i \in 2 .. n :
          /\ g[i].card \in seen \cap (DOMAIN cards \ {target})
          /\ g[i].card \in torn \/ g[i].data = Whole(g[i].card)
    /\ \A i, j \in 2 .. n : g[i].card = g[j].card => i = j
    /\ \A c \in due \cap seen : \E i \in 2 .. n : g[i].card = c

FindInv ==
    /\ find \in [on : BOOLEAN, next : Ids \cup {NoId}, seen : SUBSET Ids,
                 must : SUBSET Ids, due : SUBSET Ids]
    /\ find.on <=> find.next # NoId
    /\ find.on => find.next \in DOMAIN cards \ find.seen
    /\ find.due \subseteq DOMAIN cards \ (torn \cup {target})
    /\ find.on => find.due \subseteq find.must

FramesInv ==
    "serial" \notin options =>
        IF find.on THEN Delivered(got, Len(got), find.seen, find.due)
        ELSE got = <<>> \/ Delivered(got, Len(got) - 1, Ids, find.due)

CallType ==
    /\ options \in OptionSets
    /\ stage \in {"dead", "off", "ready", "standby", "asked", "writing",
                  "written", "ended"}
    /\ pc \in {"idle", "id", "data", "count", "save", "exitsave", "exit"}
    /\ pages \in 0 .. MaxPages /\ faults \in 0 .. MaxFaults

PrintType ==
    /\ status \in 0 .. 5 /\ started \in BOOLEAN
    /\ tid \in Ids \cup {NoId} /\ told \in Ids \cup {NoId} /\ sent \in 0 .. Size
    /\ blockState \in 0 .. 2

HeldType == held.open \in BOOLEAN /\ held.id \in Ids \cup {NoId} /\ Len(held.data) <= Size

CardInv ==
    /\ CallType /\ PrintType /\ HeldType
    /\ StageInv /\ FilesInv /\ ImagesInv /\ FindInv /\ FramesInv

-----------------------------------------------------------------------------
(* The data of a card *)
LEMMA Sends ==
    ASSUME NEW c, NEW n \in Nat
    PROVE  /\ Len(Sent(c, n)) = n
           /\ Append(Sent(c, n), Block(c, n + 1)) = Sent(c, n + 1)
<1> DEFINE S == {Block(c, k) : k \in 1 .. n + 1}
<1>1. Sent(c, n) \in Seq(S) /\ Len(Sent(c, n)) = n
  BY DEF Sent
<1>2. Block(c, n + 1) \in S
  OBVIOUS
<1> HIDE DEF S
<1>3. /\ Append(Sent(c, n), Block(c, n + 1)) \in Seq(S)
      /\ Len(Append(Sent(c, n), Block(c, n + 1))) = n + 1
      /\ \A k \in 1 .. n : Append(Sent(c, n), Block(c, n + 1))[k] = Block(c, k)
      /\ Append(Sent(c, n), Block(c, n + 1))[n + 1] = Block(c, n + 1)
  BY <1>1, <1>2 DEF Sent
<1>4. /\ Len(Sent(c, n + 1)) = n + 1 /\ DOMAIN Sent(c, n + 1) = 1 .. n + 1
      /\ \A k \in 1 .. n + 1 : Sent(c, n + 1)[k] = Block(c, k)
  BY DEF Sent
<1>5. \A k \in 1 .. n + 1 : k \in 1 .. n \/ k = n + 1
  OBVIOUS
<1>6. DOMAIN Append(Sent(c, n), Block(c, n + 1)) = 1 .. n + 1
  BY <1>3
<1>7. \A k \in 1 .. n + 1 :
         Append(Sent(c, n), Block(c, n + 1))[k] = Sent(c, n + 1)[k]
  BY <1>3, <1>4, <1>5
<1>8. Append(Sent(c, n), Block(c, n + 1))
         = [k \in 1 .. n + 1 |-> Append(Sent(c, n), Block(c, n + 1))[k]]
  BY <1>3, <1>6
<1>9. Sent(c, n + 1) = [k \in 1 .. n + 1 |-> Sent(c, n + 1)[k]]
  BY <1>4 DEF Sent
<1> QED
  BY <1>1, <1>7, <1>8, <1>9

LEMMA WholeCard ==
    ASSUME NEW c
    PROVE  /\ <<c>> \o Sent(c, Size) = Whole(c) /\ Len(Whole(c)) = Size + 1
           /\ <<>> \o <<c>> = <<c>> /\ Whole(c) # <<>>
<1> DEFINE S == {c} \cup {Block(c, k) : k \in 1 .. Size}
<1>1. Sent(c, Size) = Data(c)
  BY DEF Sent, Data
<1>2. Data(c) \in Seq(S) /\ Len(Data(c)) = Size /\ <<c>> \in Seq(S) /\ Len(<<c>>) = 1
  BY SizeAssumption DEF Data
<1> HIDE DEF S
<1>3. Len(Whole(c)) = 1 + Size
  BY <1>2 DEF Whole
<1>4. <<>> \o <<c>> = <<c>>
  OBVIOUS
<1> QED
  BY <1>1, <1>3, <1>4, SizeAssumption DEF Whole

LEMMA InitCards == Init => CardInv
<1> SUFFICES ASSUME Init PROVE CardInv
  OBVIOUS
<1> USE DEF Init
<1>1. CallType
  <2>1. pages \in 0 .. MaxPages /\ faults \in 0 .. MaxFaults
    BY BoundsAssumption
  <2> QED
    BY <2>1 DEF CallType
<1>2. PrintType
  <2>1. sent \in 0 .. Size /\ status \in 0 .. 5 /\ blockState \in 0 .. 2
    BY SizeAssumption
  <2>2. started \in BOOLEAN /\ tid \in Ids \cup {NoId} /\ told \in Ids \cup {NoId}
    OBVIOUS
  <2> QED
    BY <2>1, <2>2 DEF PrintType
<1>3. HeldType
  BY SizeAssumption DEF HeldType, NoBuffer
<1>4. StageInv /\ ImagesInv
  BY DEF StageInv, ImagesInv
<1>5. FilesInv
  <2>1. DOMAIN cards = {}
    OBVIOUS
  <2>2. cards \in [DOMAIN cards -> {cards[c] : c \in DOMAIN cards}]
    BY <2>1
  <2> QED
    BY <2>1, <2>2 DEF FilesInv
<1>6. FindInv /\ FramesInv
  BY DEF FindInv, FramesInv, NoFind
<1> QED
  BY <1>1, <1>2, <1>3, <1>4, <1>5, <1>6 DEF CardInv

(* Steps that leave some of it alone *)
LEMMA StageKept ==
    ASSUME StageInv, UNCHANGED <<options, stage, told, sent, status, started, tid, held, blockState>>
    PROVE  StageInv'
BY DEF StageInv, Blank, Filled

LEMMA FilesKept ==
    ASSUME FilesInv, UNCHANGED files,
           \/ pc \notin {"id", "data"} /\ pc' \notin {"id", "data"}
           \/ UNCHANGED <<pc, stage, told>>
    PROVE  FilesInv'
BY DEF FilesInv, files, Contents

(* A scan goes on while files are written: what it has read stays as it was. *)
LEMMA FramesKept ==
    ASSUME FilesInv, FindInv, FramesInv, UNCHANGED <<options, find, got>>,
           DOMAIN cards \subseteq DOMAIN cards', torn \subseteq torn',
           torn' \subseteq torn \cup {target},
           target' = target \/ target' \notin DOMAIN cards
    PROVE  FindInv' /\ FramesInv'
<1>2. FindInv'
  BY DEF FindInv
<1>1. \A c \in DOMAIN cards \ {target} : c \in DOMAIN cards' \ {target'}
  OBVIOUS
<1>4. ASSUME NEW n, NEW seen, NEW due, Delivered(got, n, seen, due)
      PROVE  Delivered(got, n, seen, due)'
  BY <1>1, <1>4 DEF Delivered
<1>5. FramesInv'
  BY <1>4 DEF FramesInv
<1> QED
  BY <1>2, <1>5

LEMMA NotAtFile ==
    ASSUME FilesInv
    PROVE  /\ target = NoId \/ pc \in {"id", "data"}
           /\ NoId \notin DOMAIN cards
BY NoIdAssumption DEF FilesInv

-----------------------------------------------------------------------------
(* The steps, by what they change.  These save the counters or go on with the
   printer's calls, and leave the card alone.                              *)
LEMMA CounterSteps ==
    ASSUME CardInv, SaveWrite \/ PageCount \/ Holo \/ ExitCard
    PROVE  CardInv'
<1> USE DEF CardInv
<1>1. /\ UNCHANGED <<options, game, print, held, blockState, files, images, scan, pages, lost>>
      /\ pc \notin {"id", "data"}
      /\ pc' \in {"idle", "save", "exit", "exitsave"}
      /\ faults' = faults \/ Fault
  BY DEF SaveWrite, PageCount, Holo, ExitCard, BeginSave, Calls, config, save
<1>2. CallType' 
  <2>1. faults' \in 0 .. MaxFaults
    BY <1>1, BoundsAssumption DEF CallType, Fault
  <2> QED
    BY <1>1, <2>1 DEF CallType, game
<1>3. PrintType' /\ HeldType' /\ ImagesInv'
  BY <1>1 DEF PrintType, HeldType, ImagesInv, game, print
<1>4. StageInv'
  BY <1>1, StageKept DEF game, print
<1>5. FilesInv'
  BY <1>1, FilesKept
<1>6. FindInv' /\ FramesInv'
  BY <1>1, FramesKept DEF files, scan
<1> QED
  BY <1>2, <1>3, <1>4, <1>5, <1>6

(* The program starts and ends; what it had of a card is gone. *)
LEMMA StartSteps ==
    ASSUME IInv, CardInv, Start
    PROVE  CardInv'
<1> USE DEF CardInv
<1>1. /\ stage = "dead" /\ stage' = "off" /\ pc = "idle" /\ pc' \in {"idle", "save"}
      /\ status' = 0 /\ started' = FALSE /\ held' = NoBuffer /\ blockState' = 0
      /\ tid' \in Ids
      /\ UNCHANGED <<options, told, sent, files, images, scan, pages, lost, faults>>
  BY DEF Start, IInv, CountersOK, NewIds, config
<1>2. CallType'
  BY <1>1 DEF CallType
<1>3. PrintType'
  <2>1. status' \in 0 .. 5 /\ blockState' \in 0 .. 2
    BY <1>1
  <2> QED
    BY <1>1, <2>1 DEF PrintType
<1>4. HeldType' /\ ImagesInv' /\ StageInv'
  BY <1>1, SizeAssumption DEF HeldType, NoBuffer, ImagesInv, StageInv
<1>5. FilesInv'
  BY <1>1, FilesKept
<1>6. FindInv' /\ FramesInv'
  BY <1>1, FramesKept DEF files, scan
<1> QED
  BY <1>2, <1>3, <1>4, <1>5, <1>6

LEMMA CrashSteps ==
    ASSUME CardInv, Crash
    PROVE  CardInv'
<1> USE DEF CardInv
<1>1. /\ stage' = "dead" /\ told' = NoId /\ sent' = 0 /\ pc' = "idle" /\ target' = NoId
      /\ torn' = torn \cup {c \in DOMAIN cards : c = target}
      /\ find' = NoFind /\ got' = <<>> /\ Fault
      /\ UNCHANGED <<options, print, held, blockState, cards, images, pages>>
  BY DEF Crash, config
<1>2. CallType'
  <2>1. faults' \in 0 .. MaxFaults
    BY <1>1, BoundsAssumption DEF CallType, Fault
  <2> QED
    BY <1>1, <2>1 DEF CallType
<1>3. PrintType'
  <2>1. sent' \in 0 .. Size
    BY <1>1, SizeAssumption
  <2> QED
    BY <1>1, <2>1 DEF PrintType, print
<1>4. HeldType' /\ ImagesInv' /\ StageInv'
  BY <1>1 DEF HeldType, ImagesInv, StageInv
<1>5. FilesInv'
  BY <1>1 DEF FilesInv, Contents
<1>6. FindInv' /\ FramesInv'
  BY <1>1 DEF FindInv, FramesInv, NoFind
<1> QED
  BY <1>2, <1>3, <1>4, <1>5, <1>6

(* The calls of a print that move its stage on or start it again *)
LEMMA StageSteps ==
    ASSUME CardInv, Open \/ Standby \/ AskId \/ EndPage \/ PollStandby \/ Eject
    PROVE  CardInv'
<1> USE DEF CardInv
<1>1. /\ UNCHANGED <<options, files, images, scan, pages, lost, faults>>
      /\ pc \in {"idle", "exit"} /\ pc' = "idle"
  BY DEF Open, Standby, AskId, EndPage, PollStandby, Eject, Calls, config, save, AnyStage
<1>2. CallType'
  <2>1. stage' \in {"ready", "standby", "asked", "ended", stage}
    BY DEF Open, Standby, AskId, EndPage, PollStandby, Eject, game
  <2> QED
    BY <1>1, <2>1 DEF CallType
<1>3. FilesInv'
  BY <1>1, FilesKept
<1>4. FindInv' /\ FramesInv' /\ ImagesInv'
  BY <1>1, FramesKept DEF files, scan, ImagesInv
<1>5. held' \in {held, NoBuffer} /\ HeldType'
  <2>1. held' \in {held, NoBuffer}
    BY DEF Open, Standby, AskId, EndPage, PollStandby, Eject, print
  <2>2. Len(<<>>) <= Size
    BY SizeAssumption
  <2>3. CASE held' = held
    BY <2>3 DEF HeldType
  <2>4. CASE held' = NoBuffer
    BY <2>2, <2>4 DEF HeldType, NoBuffer
  <2> QED
    BY <2>1, <2>3, <2>4
<1>6. NewIds \subseteq Ids /\ 0 \in 0 .. Size
  BY SizeAssumption DEF NewIds
<1>7. CASE Open \/ Eject
  <2>1. /\ stage' = "ready" /\ told' = NoId /\ sent' = 0 /\ status' = 0
        /\ tid' = tid \/ tid' \in NewIds
        /\ UNCHANGED <<started, blockState>>
    BY <1>7 DEF Open, Eject
  <2>2. PrintType'
    <3>1. status' \in 0 .. 5 /\ sent' \in 0 .. Size
      BY <1>6, <2>1
    <3> QED
      BY <1>6, <2>1, <3>1 DEF PrintType
  <2>3. tid' \in Ids
    BY <1>6, <1>7, <2>1 DEF StageInv, Open, Eject, Calls, AnyStage
  <2>4. StageInv'
    BY <2>1, <2>3 DEF StageInv
  <2> QED
    BY <1>2, <1>3, <1>4, <1>5, <2>2, <2>4
<1>8. CASE Standby
  <2>1. /\ stage \in {"ready", "standby"} /\ stage' = "standby"
        /\ UNCHANGED <<told, sent, tid, blockState>>
        /\ \/ status = 0 /\ started' = FALSE /\ held' = NoBuffer /\ status' = 1
           \/ status # 0 /\ UNCHANGED <<started, held, status>>
    BY <1>8 DEF Standby, Calls
  <2>2. PrintType'
    <3>1. status' \in 0 .. 5
      BY <2>1 DEF PrintType
    <3>2. started' \in BOOLEAN
      BY <2>1 DEF PrintType
    <3> QED
      BY <2>1, <3>1, <3>2 DEF PrintType
  <2>3. StageInv'
    BY <2>1 DEF StageInv, Blank
  <2> QED
    BY <1>2, <1>3, <1>4, <1>5, <2>2, <2>3
<1>9. CASE AskId
  <2>1. /\ stage = "standby" /\ stage' = "asked" /\ UNCHANGED <<sent, print, held>>
        /\ IF "serial" \in options THEN told' \in Ids /\ blockState' = 0
                                   ELSE told' = tid /\ UNCHANGED blockState
    BY <1>6, <1>9 DEF AskId, Calls
  <2>2. PrintType'
    BY <2>1 DEF PrintType, print
  <2>3. StageInv'
    BY <1>1, <2>1 DEF StageInv, Blank, print
  <2> QED
    BY <1>2, <1>3, <1>4, <1>5, <2>2, <2>3
<1>10. CASE EndPage
  <2>1. /\ stage \in {"standby", "written"} /\ stage' = "ended" /\ status' = 2
        /\ UNCHANGED <<told, sent, started, tid, blockState>>
    BY <1>10 DEF EndPage, Calls
  <2>2. PrintType'
    BY <2>1 DEF PrintType
  <2>3. StageInv'
    BY <2>1 DEF StageInv
  <2> QED
    BY <1>2, <1>3, <1>4, <1>5, <2>2, <2>3
<1>11. CASE PollStandby
  <2>1. /\ UNCHANGED <<game, started, tid, held, blockState>>
        /\ status \in 2 .. 4 /\ status' = status + 1
    BY <1>11 DEF PollStandby
  <2>2. status # 0 /\ status' # 0 /\ status' \in 0 .. 5
    BY <2>1
  <2>3. PrintType'
    BY <2>1, <2>2 DEF PrintType, game
  <2>4. StageInv'
    BY <1>1, <2>1, <2>2 DEF StageInv, Blank, Filled, game
  <2> QED
    BY <1>2, <1>3, <1>4, <1>5, <2>3, <2>4
<1> QED
  BY <1>7, <1>8, <1>9, <1>10, <1>11

(* A picture takes the data behind it from the buffer, which is empty or has the
   whole card.                                                             *)
LEMMA PageSteps ==
    ASSUME CardInv, Page
    PROVE  CardInv'
<1> USE DEF CardInv
<1>1. /\ stage \in {"standby", "written"} /\ pc = "idle" /\ pc' = "count"
      /\ pages < MaxPages /\ pages' = pages + 1
      /\ UNCHANGED <<options, game, print, held, blockState, files, scan, faults>>
      /\ \/ UNCHANGED images
         \/ /\ held.open
            /\ images' = images \cup {[card |-> told, rfid |-> <<held.id>> \o held.data]}
  BY DEF Page, Calls, config
<1>2. CallType'
  <2>1. pages' \in 0 .. MaxPages
    BY <1>1, BoundsAssumption DEF CallType
  <2> QED
    BY <1>1, <2>1 DEF CallType, game
<1>3. PrintType' /\ HeldType'
  BY <1>1 DEF PrintType, HeldType, game, print
<1>4. StageInv'
  BY <1>1, StageKept DEF game, print
<1>5. FilesInv'
  BY <1>1, FilesKept
<1>6. FindInv' /\ FramesInv'
  BY <1>1, FramesKept DEF files, scan
<1>7. ImagesInv'
  <2>1. held.open => <<held.id>> \o held.data = Whole(told)
    <3>1. held.open => stage = "written"
      BY <1>1 DEF StageInv, Blank, NoBuffer
    <3> QED
      BY <3>1, WholeCard DEF StageInv, Filled
  <2>2. ASSUME NEW i \in images' PROVE i.rfid = Whole(i.card)
    <3>1. CASE i \in images
      BY <3>1 DEF ImagesInv
    <3>2. CASE held.open /\ i = [card |-> told, rfid |-> <<held.id>> \o held.data]
      BY <2>1, <3>2
    <3> QED
      BY <1>1, <2>2, <3>1, <3>2
  <2> QED
    BY <2>2 DEF ImagesInv
<1> QED
  BY <1>2, <1>3, <1>4, <1>5, <1>6, <1>7

-----------------------------------------------------------------------------
(* Writing a card.  The first start opens the buffer, under the ID that the game
   was told.                                                               *)
LEMMA WriteStartSteps ==
    ASSUME CardInv, WriteStart
    PROVE  CardInv'
<1> USE DEF CardInv
<1>1. /\ stage = "asked" /\ stage' = "writing" /\ pc = "idle"
      /\ UNCHANGED <<options, told, sent, status, tid, images, scan, pages, lost, faults>>
      /\ PrinterStartStop \/ SerialStartStop
  BY DEF WriteStart, StartStop, Calls, config, save
<1>2. Blank /\ told \in Ids /\ IF "serial" \in options THEN blockState = 0 ELSE told = tid
  BY <1>1 DEF StageInv
<1>3. ~held.open /\ FileOpen(told) = [open |-> TRUE, data |-> <<>>, id |-> told]
  BY <1>2 DEF Blank, NoBuffer, FileOpen
<1>4. /\ held' = [open |-> TRUE, data |-> <<>>, id |-> told]
      /\ UNCHANGED <<files, pc>>
      /\ blockState' \in {1, blockState}
      /\ IF "serial" \in options THEN UNCHANGED started ELSE started' = TRUE
  BY <1>1, <1>2, <1>3 DEF PrinterStartStop, SerialStartStop, Blank
<1>5. Sent(told, 0) = <<>> /\ 0 \in 0 .. Size
  BY SizeAssumption DEF Sent
<1>6. CallType' /\ PrintType'
  <2>1. blockState' \in 0 .. 2
    BY <1>4 DEF PrintType
  <2> QED
    BY <1>1, <1>4, <2>1 DEF CallType, PrintType
<1>7. HeldType'
  <2>1. Len(<<>>) <= Size
    BY SizeAssumption
  <2> QED
    BY <1>2, <1>4, <2>1 DEF HeldType
<1>8. StageInv'
  <2>1. Filled'
    <3>1. sent' = 0 /\ told' = told /\ told \in Ids /\ UNCHANGED options
      BY <1>1, <1>2 DEF Blank
    <3>2. Sent(told', sent') = <<>> /\ sent' \in 0 .. Size
      BY <1>5, <3>1
    <3>3. ~(sent' > 0)
      BY <3>1
    <3> QED
      BY <1>4, <3>1, <3>2, <3>3 DEF Filled
  <2> QED
    BY <1>1, <2>1 DEF StageInv
<1>9. FilesInv'
  BY <1>1, <1>4, FilesKept
<1>10. FindInv' /\ FramesInv' /\ ImagesInv'
  BY <1>1, <1>4, FramesKept DEF files, scan, ImagesInv
<1> QED
  BY <1>6, <1>7, <1>8, <1>9, <1>10

LEMMA WriteBlockSteps ==
    ASSUME CardInv, WriteBlock
    PROVE  CardInv'
<1> USE DEF CardInv
<1>1. /\ stage = "writing" /\ pc = "idle" /\ sent < Size /\ sent' = sent + 1
      /\ held' = [held EXCEPT !.data = Append(@, Block(told, sent + 1))]
      /\ blockState' = IF "serial" \in options THEN 2 ELSE blockState
      /\ UNCHANGED <<options, stage, told, pc, print, files, images, scan, pages, lost, faults>>
  BY DEF WriteBlock, Calls, config, save
<1>2. /\ told \in Ids /\ sent \in 0 .. Size
      /\ held = [open |-> TRUE, data |-> Sent(told, sent), id |-> told]
      /\ "serial" \notin options => started
  BY <1>1 DEF StageInv, Filled
<1>3. sent \in Nat /\ sent + 1 \in 0 .. Size
  BY <1>1, <1>2, SizeAssumption
<1>4. held' = [open |-> TRUE, data |-> Sent(told, sent + 1), id |-> told]
  BY <1>1, <1>2, <1>3, Sends
<1>5. Len(Sent(told, sent + 1)) <= Size
  BY <1>3, Sends
<1>6. CallType'
  BY <1>1 DEF CallType
<1>7. PrintType'
  <2>1. blockState' \in 0 .. 2 /\ sent' \in 0 .. Size
    BY <1>1, <1>3 DEF PrintType
  <2> QED
    BY <1>1, <2>1 DEF PrintType, print
<1>8. HeldType'
  BY <1>2, <1>4, <1>5 DEF HeldType
<1>9. StageInv'
  <2>1. Filled'
    BY <1>1, <1>2, <1>3, <1>4 DEF Filled, print
  <2> QED
    BY <1>1, <2>1 DEF StageInv, print
<1>10. FilesInv'
  BY <1>1, FilesKept
<1>11. FindInv' /\ FramesInv' /\ ImagesInv'
  BY <1>1, FramesKept DEF files, scan, ImagesInv
<1> QED
  BY <1>6, <1>7, <1>8, <1>9, <1>10, <1>11

(* The end creates the card's file, unless there is one, or it cannot. *)
LEMMA Commits ==
    ASSUME CardInv, pc = "idle", Commit(told), stage' = "written", told' = told, told \in Ids,
           UNCHANGED <<options, scan>>
    PROVE  FilesInv' /\ FindInv' /\ FramesInv' /\ pc' \in {"idle", "id"}
<1> USE DEF CardInv
<1>1. target = NoId /\ NoId \notin DOMAIN cards
  BY NotAtFile
<1>2. CASE UNCHANGED <<files, pc>>
  BY <1>1, <1>2, FilesKept, FramesKept DEF files, scan
<1>3. CASE /\ told \notin DOMAIN cards
           /\ cards' = [c \in DOMAIN cards \cup {told} |->
                           IF c = told THEN <<>> ELSE cards[c]]
           /\ target' = told /\ pc' = "id"
           /\ UNCHANGED torn
  <2>1. /\ DOMAIN cards' = DOMAIN cards \cup {told} /\ cards'[told] = <<>>
        /\ \A c \in DOMAIN cards : cards'[c] = cards[c]
        /\ cards' \in [DOMAIN cards' -> {cards'[c] : c \in DOMAIN cards'}]
    BY <1>3
  <2>2. FilesInv'
    BY <1>1, <1>3, <2>1 DEF FilesInv, Contents
  <2>3. FindInv' /\ FramesInv'
    BY <1>1, <1>3, <2>1, FramesKept DEF scan
  <2> QED
    BY <1>3, <2>2, <2>3
<1> QED
  BY <1>2, <1>3 DEF Commit

LEMMA WriteEndSteps ==
    ASSUME CardInv, WriteEnd
    PROVE  CardInv'
<1> USE DEF CardInv
<1>1. /\ sent = Size /\ stage = "writing" /\ stage' = "written" /\ pc = "idle"
      /\ UNCHANGED <<options, told, sent, status, tid, images, scan, pages, lost, faults>>
      /\ PrinterStartStop \/ SerialStartStop
  BY DEF WriteEnd, StartStop, Calls, config, save
<1>2. Filled
  BY <1>1 DEF StageInv
<1>3. /\ told \in Ids /\ held.open /\ held.id = told
      /\ "serial" \notin options => started
      /\ "serial" \in options => blockState = 2
  BY <1>1, <1>2, SizeAssumption DEF Filled
<1>4. UNCHANGED <<held, blockState>> /\ ("serial" \notin options => started')
  BY <1>1, <1>3 DEF PrinterStartStop, SerialStartStop
<1>5. started' \in BOOLEAN
  BY <1>1 DEF PrinterStartStop, SerialStartStop, PrintType
<1>6. Commit(told) \/ UNCHANGED <<files, pc>>
  BY <1>1, <1>3 DEF PrinterStartStop, SerialStartStop
<1>7. FilesInv' /\ FindInv' /\ FramesInv' /\ pc' \in {"idle", "id"}
  <2>1. CASE Commit(told)
    BY <1>1, <1>3, <2>1, Commits
  <2>2. CASE UNCHANGED <<files, pc>>
    <3>1. FilesInv'
      BY <1>1, <2>2, FilesKept
    <3>2. FindInv' /\ FramesInv'
      BY <1>1, <2>2, FramesKept DEF files, scan
    <3> QED
      BY <1>1, <2>2, <3>1, <3>2
  <2> QED
    BY <1>6, <2>1, <2>2
<1>8. CallType' /\ PrintType' /\ HeldType' /\ ImagesInv'
  BY <1>1, <1>4, <1>5, <1>7 DEF CallType, PrintType, HeldType, ImagesInv
<1>9. StageInv'
  BY <1>1, <1>2, <1>4 DEF StageInv, Filled
<1> QED
  BY <1>7, <1>8, <1>9

(* The two writes to the file *)
LEMMA WriteFileSteps ==
    ASSUME CardInv, WriteCardId \/ WriteCardData
    PROVE  CardInv'
<1> USE DEF CardInv
<1>1. /\ pc \in {"id", "data"}
      /\ pc' = (IF pc = "id" THEN "data" ELSE "idle") \/ pc' = "idle"
      /\ UNCHANGED <<options, game, print, held, blockState, images, scan, pages, lost, faults>>
  BY DEF WriteCardId, WriteCardData, WriteFile, config, save
<1>2. CallType' /\ PrintType' /\ HeldType' /\ ImagesInv'
  BY <1>1 DEF CallType, PrintType, HeldType, ImagesInv, game, print
<1>3. StageInv'
  BY <1>1, StageKept DEF game, print
<1>4. /\ stage = "written" /\ target = told /\ target \in DOMAIN cards \ torn
      /\ cards[target] = IF pc = "id" THEN <<>> ELSE <<told>>
      /\ told \in Ids /\ held.id = told /\ held.data = Sent(told, Size)
  BY <1>1 DEF FilesInv, StageInv, Filled
<1>5. /\ cards[target] \o (IF pc = "id" THEN <<held.id>> ELSE held.data)
            = IF pc = "id" THEN <<told>> ELSE Whole(told)
  BY <1>4, WholeCard
<1>6. CASE /\ cards' = [cards EXCEPT ![target] =
                           @ \o (IF pc = "id" THEN <<held.id>> ELSE held.data)]
           /\ pc' = IF pc = "id" THEN "data" ELSE "idle"
           /\ target' = IF pc = "id" THEN target ELSE NoId
           /\ UNCHANGED torn
  <2>1. /\ DOMAIN cards' = DOMAIN cards
        /\ cards'[target] = IF pc = "id" THEN <<told>> ELSE Whole(told)
        /\ \A c \in DOMAIN cards \ {target} : cards'[c] = cards[c]
        /\ cards' \in [DOMAIN cards' -> {cards'[c] : c \in DOMAIN cards'}]
    BY <1>4, <1>5, <1>6 DEF FilesInv
  <2>2. FilesInv'
    BY <1>1, <1>4, <1>6, <2>1 DEF FilesInv, Contents, game
  <2>3. FindInv' /\ FramesInv'
    BY <1>1, <1>6, <2>1, FramesKept, NotAtFile DEF scan
  <2> QED
    BY <1>2, <1>3, <2>2, <2>3
<1>7. CASE UNCHANGED cards /\ pc' = "idle" /\ target' = NoId /\ torn' = torn \cup {target}
  <2>1. FilesInv'
    BY <1>1, <1>4, <1>7 DEF FilesInv, Contents
  <2>2. FindInv' /\ FramesInv'
    BY <1>1, <1>7, FramesKept, NotAtFile DEF scan
  <2> QED
    BY <1>2, <1>3, <2>1, <2>2
<1> QED
  BY <1>6, <1>7 DEF WriteCardId, WriteCardData, WriteFile

-----------------------------------------------------------------------------
(* A frame at the end of others *)
LEMMA OneMore ==
    ASSUME NEW g, Len(g) \in Nat, g = [i \in 1 .. Len(g) |-> g[i]], NEW x
    PROVE  /\ Len(g \o <<x>>) = Len(g) + 1
           /\ g \o <<x>> = [i \in 1 .. Len(g) + 1 |-> (g \o <<x>>)[i]]
           /\ \A i \in 1 .. Len(g) : (g \o <<x>>)[i] = g[i]
           /\ (g \o <<x>>)[Len(g) + 1] = x
           /\ g \o <<>> = g
<1> DEFINE S == {g[i] : i \in 1 .. Len(g)} \cup {x}
<1>1. g \in Seq(S) /\ x \in S
  OBVIOUS
<1> HIDE DEF S
<1>2. <<x>> \in Seq(S) /\ Len(<<x>>) = 1 /\ <<x>>[1] = x
  BY <1>1
<1>3. /\ g \o <<x>> \in Seq(S) /\ Len(g \o <<x>>) = Len(g) + 1
      /\ \A i \in 1 .. Len(g) : (g \o <<x>>)[i] = g[i]
      /\ (g \o <<x>>)[Len(g) + 1] = x
  BY <1>1, <1>2
<1>4. g \o <<x>> = [i \in 1 .. Len(g) + 1 |-> (g \o <<x>>)[i]]
  BY <1>3
<1>5. g \o <<>> = g
  BY <1>1
<1> QED
  BY <1>3, <1>4, <1>5

(* A card that the scan comes to adds its frame, if it is not being written. *)
LEMMA VisitDelivers ==
    ASSUME FilesInv, NEW g, NEW seen, NEW due, NEW c \in DOMAIN cards \ seen,
           Delivered(g, Len(g), seen, due),
           due \subseteq DOMAIN cards \ (torn \cup {target})
    PROVE  Delivered(g \o Visit(c), Len(g \o Visit(c)), seen \cup {c}, due)
<1> DEFINE x == [card |-> c, data |-> cards[c]]
           n == Len(g)
           h == g \o <<x>>
<1>1. /\ n \in Nat /\ n >= 1 /\ g = [i \in 1 .. n |-> g[i]]
      /\ \A i \in 2 .. n : /\ g[i].card \in seen \cap (DOMAIN cards \ {target})
                           /\ g[i].card \in torn \/ g[i].data = Whole(g[i].card)
      /\ \A i, j \in 2 .. n : g[i].card = g[j].card => i = j
      /\ \A d \in due \cap seen : \E i \in 2 .. n : g[i].card = d
  BY DEF Delivered
<1>2. CASE c = target \/ cards[c] = <<>>
  <2>1. Visit(c) = <<>> /\ g \o Visit(c) = g
    BY <1>1, <1>2, OneMore DEF Visit
  <2>2. c \notin due
    BY <1>2, WholeCard DEF FilesInv
  <2> QED
    BY <1>1, <2>1, <2>2 DEF Delivered
<1>3. CASE c # target /\ cards[c] # <<>>
  <2>1. Visit(c) = <<x>>
    BY <1>3 DEF Visit
  <2>2. /\ Len(h) = n + 1 /\ h = [i \in 1 .. n + 1 |-> h[i]]
        /\ \A i \in 2 .. n : h[i] = g[i]
        /\ h[n + 1] = x
    BY <1>1, OneMore
  <2>3. x.card = c /\ x.data = cards[c]
    OBVIOUS
  <2>4. c \in torn \/ cards[c] = Whole(c)
    BY <1>3 DEF FilesInv
  <2> HIDE DEF x, h, n
  <2>5. \A i \in 2 .. n + 1 : i \in 2 .. n \/ i = n + 1
    BY <1>1
  <2>6. \A i \in 2 .. n + 1 :
           /\ h[i].card \in (seen \cup {c}) \cap (DOMAIN cards \ {target})
           /\ h[i].card \in torn \/ h[i].data = Whole(h[i].card)
    <3> SUFFICES ASSUME NEW i \in 2 .. n + 1
                 PROVE  /\ h[i].card \in (seen \cup {c}) \cap (DOMAIN cards \ {target})
                        /\ h[i].card \in torn \/ h[i].data = Whole(h[i].card)
      OBVIOUS
    <3>1. CASE i \in 2 .. n
      <4>1. h[i] = g[i]
        BY <2>2, <3>1
      <4> QED
        BY <1>1, <3>1, <4>1
    <3>2. CASE i = n + 1
      BY <1>3, <2>2, <2>3, <2>4, <3>2
    <3> QED
      BY <2>5, <3>1, <3>2
  <2>7. ASSUME NEW i \in 2 .. n PROVE h[i].card = g[i].card /\ h[i].card # c
    <3>1. h[i] = g[i] /\ g[i].card \in seen
      BY <1>1, <2>2
    <3> QED
      BY <3>1
  <2>8. ASSUME NEW i \in 2 .. n + 1, NEW j \in 2 .. n + 1, h[i].card = h[j].card
        PROVE  i = j
    <3>1. CASE i \in 2 .. n /\ j \in 2 .. n
      <4>1. g[i].card = g[j].card
        BY <2>7, <2>8, <3>1
      <4> QED
        BY <1>1, <3>1, <4>1
    <3>2. CASE i \in 2 .. n /\ j = n + 1
      BY <2>2, <2>3, <2>7, <2>8, <3>2
    <3>3. CASE i = n + 1 /\ j \in 2 .. n
      BY <2>2, <2>3, <2>7, <2>8, <3>3
    <3> QED
      BY <2>5, <3>1, <3>2, <3>3
  <2>9. ASSUME NEW d \in due \cap (seen \cup {c}) PROVE \E i \in 2 .. n + 1 : h[i].card = d
    <3>1. CASE d = c
      BY <1>1, <2>2, <2>3, <3>1
    <3>2. CASE d \in seen
      <4>1. PICK i \in 2 .. n : g[i].card = d
        BY <1>1, <2>9, <3>2
      <4>2. i \in 2 .. n + 1
        BY <1>1
      <4> QED
        BY <2>2, <4>1, <4>2
    <3> QED
      BY <2>9, <3>1, <3>2
  <2>10. Len(h) \in Nat /\ Len(h) \in 1 .. Len(h)
    BY <1>1, <2>2
  <2>11. Delivered(h, Len(h), seen \cup {c}, due)
    BY <2>2, <2>6, <2>8, <2>9, <2>10 DEF Delivered
  <2> QED
    BY <2>1, <2>11 DEF h
<1> QED
  BY <1>2, <1>3

(* The end comes when all that were there have been seen. *)
LEMMA EndDelivers ==
    ASSUME FilesInv, NEW g, NEW seen, NEW due, Delivered(g, Len(g), seen, due), due \subseteq seen
    PROVE  Delivered(g \o <<"END">>, Len(g \o <<"END">>) - 1, Ids, due)
<1> DEFINE n == Len(g)
           h == g \o <<"END">>
<1>1. /\ n \in Nat /\ n >= 1 /\ g = [i \in 1 .. n |-> g[i]]
      /\ \A i \in 2 .. n : /\ g[i].card \in seen \cap (DOMAIN cards \ {target})
                           /\ g[i].card \in torn \/ g[i].data = Whole(g[i].card)
      /\ \A i, j \in 2 .. n : g[i].card = g[j].card => i = j
      /\ \A d \in due \cap seen : \E i \in 2 .. n : g[i].card = d
  BY DEF Delivered
<1>2. /\ Len(h) = n + 1 /\ h = [i \in 1 .. n + 1 |-> h[i]]
      /\ \A i \in 2 .. n : h[i] = g[i]
  BY <1>1, OneMore
<1> HIDE DEF h, n
<1>3. DOMAIN cards \subseteq Ids
  BY DEF FilesInv
<1>4. Len(h) \in Nat /\ n \in 1 .. Len(h) /\ Len(h) - 1 = n
  BY <1>1, <1>2
<1>5. \A d \in due \cap Ids : \E i \in 2 .. n : h[i].card = d
  BY <1>1, <1>2
<1>6. Delivered(h, n, Ids, due)
  BY <1>1, <1>2, <1>3, <1>4, <1>5 DEF Delivered
<1> QED
  BY <1>4, <1>6 DEF h

LEMMA NextFile ==
    ASSUME FilesInv, UNCHANGED <<options, files>>,
           NEW seen \in SUBSET Ids, NEW must \in SUBSET Ids, NEW due, NEW frames, NEW end,
           due \subseteq must, due \subseteq DOMAIN cards \ (torn \cup {target}),
           "serial" \notin options =>
              Delivered(frames, Len(frames), seen, due) /\ end = <<"END">>,
           FindNext(seen, must, due, frames, end)
    PROVE  FindInv' /\ FramesInv'
<1>1. /\ DOMAIN cards \subseteq Ids /\ NoId \notin Ids
      /\ UNCHANGED <<cards, torn, target>>
  BY NoIdAssumption DEF FilesInv, files
<1>2. ASSUME NEW g, NEW n, NEW s, Delivered(g, n, s, due) PROVE Delivered(g, n, s, due)'
  BY <1>1, <1>2 DEF Delivered
<1>3. CASE /\ must \subseteq seen
           /\ find' = [NoFind EXCEPT !.due = due]
           /\ got' = frames \o end
  <2>1. find' = [on |-> FALSE, next |-> NoId, seen |-> {}, must |-> {}, due |-> due]
    BY <1>3 DEF NoFind
  <2>2. FindInv'
    BY <1>1, <2>1 DEF FindInv
  <2>3. ASSUME "serial" \notin options
        PROVE  Delivered(got', Len(got') - 1, Ids, due)
    BY <1>3, <2>3, EndDelivers
  <2>4. FramesInv'
    BY <1>1, <2>1, <2>3 DEF FramesInv, Delivered
  <2> QED
    BY <2>2, <2>4
<1>4. CASE \E c \in DOMAIN cards \ seen :
              /\ find' = [on |-> TRUE, next |-> c, seen |-> seen, must |-> must,
                          due |-> due]
              /\ got' = frames
  <2>1. PICK c \in DOMAIN cards \ seen :
              /\ find' = [on |-> TRUE, next |-> c, seen |-> seen, must |-> must,
                          due |-> due]
              /\ got' = frames
    BY <1>4
  <2>2. FindInv'
    BY <1>1, <2>1 DEF FindInv
  <2>3. FramesInv'
    BY <1>1, <2>1 DEF FramesInv, Delivered
  <2> QED
    BY <2>2, <2>3
<1> QED
  BY <1>3, <1>4 DEF FindNext

LEMMA FrameSteps ==
    ASSUME CardInv, ScanStart \/ ScanRead \/ WriterRead
    PROVE  CardInv'
<1> USE DEF CardInv
<1>1. UNCHANGED <<options, game, pc, print, held, blockState, files, images, save, faults>>
  BY DEF ScanStart, ScanRead, WriterRead, ScanUnchanged, config
<1>2. /\ CallType' /\ PrintType' /\ HeldType' /\ ImagesInv'
      /\ StageInv' /\ FilesInv'
  <2>1. CallType' /\ PrintType' /\ HeldType' /\ ImagesInv'
    BY <1>1 DEF CallType, PrintType, HeldType, ImagesInv, game, print, save
  <2>2. StageInv'
    BY <1>1, StageKept DEF game, print
  <2>3. FilesInv'
    BY <1>1, FilesKept DEF game
  <2> QED
    BY <2>1, <2>2, <2>3
<1>3. DOMAIN cards \in SUBSET Ids /\ UNCHANGED <<cards, torn, target>>
  BY <1>1 DEF FilesInv, files
<1>4. CASE ScanStart
  <2> DEFINE due == DOMAIN cards \ (torn \cup {target})
  <2>1. CASE got' = <<"START", "END">> /\ find' = NoFind
    <3>1. Delivered(got, Len(got) - 1, Ids, {})'
      <4>1. Len(got') = 2 /\ got' = [i \in 1 .. 2 |-> got'[i]] /\ Len(got') - 1 = 1
        BY <2>1
      <4>2. 1 \in 1 .. 2 /\ 2 .. 1 = {} /\ 2 \in Nat
        OBVIOUS
      <4> QED
        BY <4>1, <4>2 DEF Delivered
    <3>2. /\ find'.on = FALSE /\ find'.next = NoId /\ find'.due = {}
          /\ find' \in [on : BOOLEAN, next : Ids \cup {NoId}, seen : SUBSET Ids,
                        must : SUBSET Ids, due : SUBSET Ids]
      BY <2>1 DEF NoFind
    <3>3. FindInv' /\ FramesInv'
      BY <3>1, <3>2 DEF FindInv, FramesInv
    <3> QED
      BY <1>2, <3>3
  <2>2. CASE \E c \in DOMAIN cards :
                FindNext({c}, DOMAIN cards, due, <<"START">> \o Visit(c), <<"END">>)
    <3>1. PICK c \in DOMAIN cards :
                FindNext({c}, DOMAIN cards, due, <<"START">> \o Visit(c), <<"END">>)
      BY <2>2
    <3>2. Delivered(<<"START">>, Len(<<"START">>), {}, due)
      <4>1. Len(<<"START">>) = 1 /\ <<"START">> = [i \in 1 .. 1 |-> <<"START">>[i]]
        OBVIOUS
      <4> QED
        BY <4>1 DEF Delivered
    <3>3. LET g == <<"START">> \o Visit(c) IN Delivered(g, Len(g), {c}, due)
      <4>1. c \in DOMAIN cards \ {} /\ {} \cup {c} = {c}
        OBVIOUS
      <4> HIDE DEF due
      <4>2. due \subseteq DOMAIN cards \ (torn \cup {target})
        BY DEF due
      <4>3. LET g == <<"START">> \o Visit(c) IN Delivered(g, Len(g), {} \cup {c}, due)
        BY <3>2, <4>1, <4>2, VisitDelivers
      <4> QED
        BY <4>1, <4>3
    <3>4. {c} \in SUBSET Ids /\ due \subseteq DOMAIN cards
      BY <1>3
    <3>5. FindInv' /\ FramesInv'
      BY <1>1, <1>3, <3>1, <3>3, <3>4, NextFile
    <3> QED
      BY <1>2, <3>5
  <2> QED
    BY <1>4, <2>1, <2>2 DEF ScanStart
<1>5. CASE ScanRead \/ WriterRead
  <2> DEFINE seen == find.seen \cup {find.next}
  <2>1. /\ find.on /\ find.next \in DOMAIN cards \ find.seen /\ seen \in SUBSET Ids
        /\ find.must \in SUBSET Ids /\ find.due \subseteq find.must
        /\ find.due \subseteq DOMAIN cards \ (torn \cup {target})
    BY <1>3, <1>5 DEF ScanRead, WriterRead, FindInv
  <2>2. CASE ScanRead
    <3>1. FindNext(seen, find.must, find.due, got \o Visit(find.next), <<"END">>)
      BY <2>2 DEF ScanRead
    <3>2. "serial" \notin options =>
             LET g == got \o Visit(find.next) IN Delivered(g, Len(g), seen, find.due)
      BY <2>1, VisitDelivers DEF FramesInv
    <3> HIDE DEF seen
    <3>3. FindInv' /\ FramesInv'
      BY <1>1, <2>1, <3>1, <3>2, NextFile
    <3> QED
      BY <1>2, <3>3
  <2>3. CASE WriterRead
    <3>1. "serial" \in options /\ FindNext(seen, find.must, find.due, got, <<>>)
      BY <2>3 DEF WriterRead
    <3> HIDE DEF seen
    <3>2. FindInv' /\ FramesInv'
      BY <1>1, <2>1, <3>1, NextFile
    <3> QED
      BY <1>2, <3>2
  <2> QED
    BY <1>5, <2>2, <2>3
<1> QED
  BY <1>4, <1>5

LEMMA NextCards == IInv /\ CardInv /\ [Next]_vars => CardInv'
<1> SUFFICES ASSUME IInv, CardInv, [Next]_vars PROVE CardInv'
  OBVIOUS
<1>1. CASE UNCHANGED vars
  <2>1. UNCHANGED <<options, stage, told, sent, status, started, tid, held, blockState, pc,
                    pages, lost, faults, files, find, got, images>>
    BY <1>1 DEF vars, config, game, print, save, scan
  <2>2. CallType' /\ PrintType' /\ HeldType' /\ ImagesInv'
    BY <2>1 DEF CardInv, CallType, PrintType, HeldType, ImagesInv
  <2>3. StageInv' /\ FilesInv'
    BY <2>1, StageKept, FilesKept DEF CardInv
  <2>4. FindInv' /\ FramesInv'
    BY <2>1, FramesKept DEF CardInv, files
  <2> QED
    BY <2>2, <2>3, <2>4 DEF CardInv
<1>2. CASE Next
  BY <1>2, CounterSteps, StartSteps, CrashSteps, StageSteps, PageSteps, WriteStartSteps,
     WriteBlockSteps, WriteEndSteps, WriteFileSteps, FrameSteps DEF Next
<1> QED
  BY <1>1, <1>2

(* The inductive invariant: a buffer is empty or has what the game has sent for
   the card whose ID it was told, by the stage of its print; and the file that
   is open is that card's.                                                 *)
THEOREM CardInvariance == Spec => [](IInv /\ CardInv)
BY InitIInv, NextIInv, InitCards, NextCards, PTL DEF Spec

(* The file of a card has its ID and its own blocks, unless it could not be
   finished, however often cards are given up (rfid_file_open, which does
   nothing while there is a buffer, and rfid_file_commit).                 *)
THEOREM CardFilesStayWhole == Spec => []CardsWhole
<1>1. IInv /\ CardInv => CardsWhole
  <2> SUFFICES ASSUME IInv, CardInv PROVE CardsWhole
    OBVIOUS
  <2>1. \A c \in DOMAIN cards : Len(cards[c]) <= Size + 1
    <3> SUFFICES ASSUME NEW c \in DOMAIN cards PROVE Len(cards[c]) <= Size + 1
      OBVIOUS
    <3>1. cards[c] \in {<<>>, <<c>>, Whole(c)}
      BY DEF CardInv, FilesInv, Contents
    <3>2. Len(<<>>) <= Size + 1 /\ Len(<<c>>) <= Size + 1 /\ Len(Whole(c)) <= Size + 1
      <4>1. Len(<<>>) = 0 /\ Len(<<c>>) = 1 /\ Len(Whole(c)) = Size + 1 /\ Size \in Nat
        BY WholeCard, SizeAssumption
      <4> QED
        BY <4>1
    <3> QED
      BY <3>1, <3>2
  <2>2. /\ \A s \in {ram, disk} :
             s \in [prints : Int, ribbon : 0 .. Word - 1, holo : 0 .. Word - 1]
        /\ lost \in 0 .. pages
    BY DEF IInv, CountersOK, Saves
  <2>3. /\ DOMAIN cards \subseteq Ids /\ torn \subseteq DOMAIN cards
        /\ target \in Ids \cup {NoId}
    BY DEF CardInv, FilesInv
  <2>4. find.next \in DOMAIN cards \cup {NoId} /\ (find.on <=> find.next # NoId)
    BY DEF CardInv, FindInv
  <2>5. TypeOK
    BY <2>1, <2>2, <2>3, <2>4 DEF TypeOK, CardInv, CallType, PrintType, HeldType
  <2>6. CardFilesWhole
    BY DEF CardFilesWhole, CardInv, FilesInv, StageInv, Filled
  <2> QED
    BY <2>5, <2>6 DEF CardsWhole
<1> QED
  BY <1>1, CardInvariance, PTL

(* A picture never bears the data of another card than the one it is printed
   on (chcusb_write, which takes them from the shared buffer).             *)
THEOREM PicturesMatch == Spec => []ImagesMatch
<1>1. CardInv => ImagesMatch
  BY DEF CardInv, ImagesInv, ImagesMatch
<1> QED
  BY <1>1, CardInvariance, PTL

(* A scan delivers each card that was whole when it began, each once, and of a
   finished card all of it, while cards are being written (rfid_req_scan). *)
THEOREM ScansDeliver == Spec => []ScanDelivers
<1>1. CardInv => ScanDelivers
  <2> SUFFICES ASSUME CardInv, ~find.on, got # <<>>, "serial" \notin options
               PROVE  ScanDelivers
    BY DEF ScanDelivers
  <2> DEFINE mid   == SubSeq(got, 2, Len(got) - 1)
             At(c) == {i \in DOMAIN mid : mid[i].card = c}
             n     == Len(got) - 1
  <2>1. /\ Delivered(got, n, Ids, find.due)
        /\ find.due \subseteq Ids
    BY DEF CardInv, FramesInv, FindInv
  <2>2. /\ Len(got) \in Nat /\ n \in 1 .. Len(got)
        /\ got = [i \in 1 .. Len(got) |-> got[i]]
        /\ \A i \in 2 .. n : got[i].card \in torn \/ got[i].data = Whole(got[i].card)
        /\ \A i, j \in 2 .. n : got[i].card = got[j].card => i = j
        /\ \A c \in find.due : \E i \in 2 .. n : got[i].card = c
    BY <2>1 DEF Delivered
  <2>3. DOMAIN mid = 1 .. n - 1 /\ \A i \in 1 .. n - 1 : mid[i] = got[i + 1]
    <3> DEFINE S == {got[i] : i \in 1 .. Len(got)}
    <3>1. got \in Seq(S)
      BY <2>2
    <3> HIDE DEF S
    <3>2. n \in Nat /\ n >= 1 /\ n <= Len(got)
      BY <2>2
    <3> QED
      BY <3>1, <3>2
  <2> HIDE DEF mid
  <2>4. \A i \in 1 .. n - 1 : i + 1 \in 2 .. n
    BY <2>2
  <2>5. ASSUME NEW c \in find.due PROVE At(c) # {}
    <3>1. PICK i \in 2 .. n : got[i].card = c
      BY <2>2
    <3>2. i - 1 \in 1 .. n - 1 /\ (i - 1) + 1 = i
      BY <2>2
    <3>3. i - 1 \in At(c)
      BY <2>3, <3>1, <3>2
    <3> QED
      BY <3>3
  <2>6. ASSUME NEW c \in DOMAIN cards PROVE Cardinality(At(c)) <= 1
    <3>1. CASE At(c) = {}
      <4> HIDE DEF At
      <4>1. Cardinality(At(c)) = 0
        BY <3>1, FS_EmptySet
      <4> QED
        BY <4>1
    <3>2. CASE At(c) # {}
      <4>1. PICK i \in At(c) : TRUE
        BY <3>2
      <4>2. ASSUME NEW j \in At(c) PROVE j = i
        <5>1. /\ i \in 1 .. n - 1 /\ j \in 1 .. n - 1
              /\ got[i + 1].card = c /\ got[j + 1].card = c
          BY <2>3, <4>1
        <5>2. i + 1 = j + 1
          BY <2>2, <2>4, <5>1
        <5> QED
          BY <5>1, <5>2
      <4>3. At(c) = {i}
        BY <4>1, <4>2
      <4>4. Cardinality({i}) = 1
        BY FS_Singleton
      <4> HIDE DEF At
      <4> QED
        BY <4>3, <4>4
    <3> QED
      BY <3>1, <3>2
  <2>7. ASSUME NEW c \in DOMAIN cards \ torn, NEW i \in DOMAIN mid, mid[i].card = c
        PROVE  mid[i].data = Whole(c)
    <3>1. mid[i] = got[i + 1] /\ i + 1 \in 2 .. n
      BY <2>3, <2>4
    <3> QED
      BY <2>2, <2>7, <3>1
  <2>8. \A c \in find.due : At(c) # {}
    BY <2>5
  <2>9. \A c \in DOMAIN cards : Cardinality(At(c)) <= 1
    BY <2>6
  <2> QED
    BY <2>7, <2>8, <2>9 DEF ScanDelivers, mid
<1> QED
  BY <1>1, CardInvariance, PTL
=============================================================================
