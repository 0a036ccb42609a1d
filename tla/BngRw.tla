-------------------------------- MODULE BngRw --------------------------------
(***************************************************************************)
(* The Banapass reader (namco/bngrw.c) with the cards that come over the   *)
(* network (the card packets of api/api.c).                                *)
(*                                                                         *)
(* A request starts a thread that looks for a card, from the network or,   *)
(* with the scan key, from a file, until it has one or its time is over.   *)
(* Nothing is locked: the game's thread, the scan's and the network's share *)
(* globals.  The game asks BngRwIsCmdExec before a request and before      *)
(* BngRwFin; card packets come at any time, under a scan that copies too.  *)
(***************************************************************************)
EXTENDS Integers, FiniteSets

CONSTANTS
    Scans,       \* bound: the requests
    MaxPackets,  \* bound: card packets
    MaxCancels,  \* bound: calls of BngRwReqCancel
    Timeouts,    \* what the game asks for; -1 is for ever
    Grace        \* 5 in the code: what a cancelled scan has left

ASSUME ScansAssumption == 0 \notin Scans
ASSUME BoundsAssumption == MaxPackets \in Nat /\ MaxCancels \in Nat
ASSUME TimeAssumption == Timeouts \subseteq Nat \cup {-1} /\ Grace \in Nat

Kinds   == {"felica", "aime"}
Halves  == {1, 2}
Packets == 1 .. MaxPackets
None    == 0            \* no packet, no scan
FromFile == -1          \* a card number that was read from the file
Numbers == Packets \cup {None, FromFile}

VARIABLES
    open,       \* BngRwInit was called: bngrw_card_id is allocated
    busy,       \* is_scanning
    last,       \* cr_operation, the latest request
    calling,    \* the game is in BngRwReqWaitTouch, after CreateThread
    cancels,    \* calls of BngRwReqCancel (not in the code)
    pc,         \* where each scan's thread is
    timeout,    \* arg->timeout of each
    old,        \* the timeout that it has loaded
    kind,       \* the kind of card that it takes
    answer,     \* the access code given to the callback, in halves
    early,      \* scans that ended before their request did (not in the code)
    cardId,     \* bngrw_card_id, in halves
    sent,       \* api_felica_sent, api_aime_sent
    id,         \* api_felica_id, api_aime_id, in halves
    packet,     \* the packet that the network's thread is at
    packets,    \* packets so far (not in the code)
    overlapped  \* scans under whose copying a packet of their kind came (not
                \* in the code)

game  == <<open, last, calling, cancels>>
scans == <<pc, timeout, old, kind, answer, early, cardId>>
api   == <<sent, id, packet, packets, overlapped>>
vars  == <<game, busy, scans, api>>

Running == {"start", "test", "count", "look", "which", "copy", "copyRest",
            "clearAime", "clearFelica", "readFile", "found", "timedOut", "unset"}

NoPacket == [kind |-> "felica", at |-> "none"]

TypeOK ==
    /\ open \in BOOLEAN /\ busy \in BOOLEAN
    /\ last \in Scans \cup {None} /\ calling \in Scans \cup {None}
    /\ cancels \in 0 .. MaxCancels
    /\ pc \in [Scans -> Running \cup {"none", "done"}]
    /\ timeout \in [Scans -> Int]
    /\ \A s \in Scans : timeout[s] >= -1
    /\ old \in [Scans -> Nat]
    /\ kind \in [Scans -> Kinds]
    /\ answer \in [Scans -> [Halves -> Numbers]]
    /\ early \subseteq Scans
    /\ cardId \in [Halves -> Numbers]
    /\ sent \in [Kinds -> BOOLEAN] /\ id \in [Kinds -> [Halves -> Numbers]]
    /\ packet \in [kind : Kinds, at : {"none", "rest", "flag"}]
    /\ packets \in 0 .. MaxPackets /\ overlapped \subseteq Scans

NoNumber == [h \in Halves |-> None]

Init ==
    /\ open = FALSE /\ busy = FALSE /\ last = None /\ calling = None
    /\ cancels = 0
    /\ pc = [s \in Scans |-> "none"]
    /\ timeout = [s \in Scans |-> 0] /\ old = [s \in Scans |-> 0]
    /\ kind = [s \in Scans |-> "felica"]
    /\ answer = [s \in Scans |-> NoNumber]
    /\ early = {} /\ cardId = NoNumber
    /\ sent = [k \in Kinds |-> FALSE] /\ id = [k \in Kinds |-> NoNumber]
    /\ packet = NoPacket /\ packets = 0 /\ overlapped = {}

-----------------------------------------------------------------------------
(* Seeded faults: what a definition below might have been by mistake; each one
   breaks a property, and none is part of the specification.               *)

(* The time is counted twice. *)
Count_Past(s) ==
    /\ pc[s] = "count"
    /\ timeout' = [timeout EXCEPT ![s] = old[s] - 2]
    /\ pc' = [pc EXCEPT ![s] = IF old[s] > 0 THEN "look" ELSE "timedOut"]
    /\ UNCHANGED <<game, busy, old, kind, answer, early, cardId, api>>

(* A card stays in the reader. *)
ClearFelica_Keeps(s) ==
    /\ pc[s] = "clearFelica"
    /\ pc' = [pc EXCEPT ![s] = "found"]
    /\ UNCHANGED <<game, busy, timeout, old, kind, answer, early, cardId, api>>

(* The reader is free again before the game has the card. *)
Found_Frees(s) ==
    /\ pc[s] = "found"
    /\ \/ busy /\ busy' = FALSE /\ UNCHANGED <<pc, answer>>
       \/ /\ ~busy /\ answer' = [answer EXCEPT ![s] = cardId]
          /\ pc' = [pc EXCEPT ![s] = "unset"] /\ UNCHANGED busy
    /\ UNCHANGED <<game, timeout, old, kind, early, cardId, api>>

(* A scan that times out leaves the reader busy. *)
TimedOut_StaysBusy(s) ==
    /\ pc[s] = "timedOut"
    /\ pc' = [pc EXCEPT ![s] = "done"]
    /\ UNCHANGED <<game, busy, timeout, old, kind, answer, early, cardId, api>>

-----------------------------------------------------------------------------
(* The game's calls.  It asks BngRwIsCmdExec first where it has to. *)

IsCmdExec == busy

BngRwInit ==
    /\ calling = None /\ ~open
    /\ open' = TRUE
    /\ UNCHANGED <<last, calling, cancels, busy, scans, api>>

BngRwFin ==
    /\ calling = None /\ open /\ ~IsCmdExec
    /\ open' = FALSE
    /\ cardId' = NoNumber
    /\ UNCHANGED <<last, calling, cancels, busy, pc, timeout, old, kind, answer,
                   early, api>>

(* BngRwReqWaitTouch, up to CreateThread, which may fail *)
BngRwReqWaitTouch(s) ==
    /\ calling = None /\ open /\ ~IsCmdExec /\ pc[s] = "none"
    /\ last' = s
    /\ \E t \in Timeouts : timeout' = [timeout EXCEPT ![s] = t]
    /\ \/ pc' = [pc EXCEPT ![s] = "start"] /\ calling' = s
       \/ pc' = [pc EXCEPT ![s] = "done"] /\ UNCHANGED calling
    /\ UNCHANGED <<open, cancels, busy, old, kind, answer, early, cardId, api>>

(* Its last step; a scan that has ended already does not undo it. *)
SetScanning ==
    /\ calling # None
    /\ busy' = TRUE
    /\ calling' = None
    /\ early' = IF pc[calling] = "done" THEN early \cup {calling} ELSE early
    /\ UNCHANGED <<open, last, cancels, pc, timeout, old, kind, answer, cardId,
                   api>>

BngRwReqCancel ==
    /\ cancels < MaxCancels /\ calling = None
    /\ cancels' = cancels + 1
    /\ timeout' = IF last = None THEN timeout
                  ELSE [timeout EXCEPT ![last] = Grace]
    /\ UNCHANGED <<open, last, calling, busy, pc, old, kind, answer, early,
                   cardId, api>>

-----------------------------------------------------------------------------
(* BngRwReqWaitTouchThread *)

Goto(s, from, to) == pc[s] = from /\ pc' = [pc EXCEPT ![s] = to]

(* A request without a callback is over. *)
Begin(s) ==
    /\ Goto(s, "start", "test") \/ Goto(s, "start", "unset")
    /\ UNCHANGED <<game, busy, timeout, old, kind, answer, early, cardId, api>>

(* timeout == -1 || timeout-- > 0: a load, and a store of what was loaded. *)
Test(s) ==
    /\ \/ timeout[s] = -1 /\ Goto(s, "test", "look") /\ UNCHANGED old
       \/ /\ timeout[s] # -1 /\ Goto(s, "test", "count")
          /\ old' = [old EXCEPT ![s] = timeout[s]]
    /\ UNCHANGED <<game, busy, timeout, kind, answer, early, cardId, api>>

Count(s) ==
    /\ Goto(s, "count", IF old[s] > 0 THEN "look" ELSE "timedOut")
    /\ timeout' = [timeout EXCEPT ![s] = old[s] - 1]
    /\ UNCHANGED <<game, busy, old, kind, answer, early, cardId, api>>

(* The player may hold the scan key. *)
Look(s) ==
    /\ \/ Goto(s, "look", "which")
       \/ Goto(s, "look", "test") /\ \A k \in Kinds : ~sent[k]
    /\ UNCHANGED <<game, busy, timeout, old, kind, answer, early, cardId, api>>

(* A packet of this kind is being received: its number is being written. *)
Coming(k) == packet.at # "none" /\ packet.kind = k

Take(s, k) ==
    /\ Goto(s, "which", "copy")
    /\ kind' = [kind EXCEPT ![s] = k]
    /\ overlapped' = IF Coming(k) THEN overlapped \cup {s} ELSE overlapped

(* FeliCa first, then AiMe, then the file *)
Which(s) ==
    /\ \/ sent["felica"] /\ Take(s, "felica")
       \/ ~sent["felica"] /\ sent["aime"] /\ Take(s, "aime")
       \/ (\A k \in Kinds : ~sent[k]) /\ Goto(s, "which", "readFile")
          /\ UNCHANGED <<kind, overlapped>>
    /\ UNCHANGED <<game, busy, timeout, old, answer, early, cardId, sent, id,
                   packet, packets>>

(* tohex, half by half of what it takes of the number *)
Copy(s) ==
    /\ \/ /\ Goto(s, "copy", "copyRest")
          /\ cardId' = [cardId EXCEPT ![1] = id[kind[s]][1]]
       \/ /\ Goto(s, "copyRest", "clearAime")
          /\ cardId' = [cardId EXCEPT ![2] = id[kind[s]][2]]
    /\ UNCHANGED <<game, busy, timeout, old, kind, answer, early, api>>

(* api_clear_cards *)
ClearAime(s) ==
    /\ Goto(s, "clearAime", "clearFelica")
    /\ sent' = [sent EXCEPT !["aime"] = FALSE]
    /\ UNCHANGED <<game, busy, timeout, old, kind, answer, early, cardId, id,
                   packet, packets, overlapped>>

ClearFelica(s) ==
    /\ Goto(s, "clearFelica", "found")
    /\ sent' = [sent EXCEPT !["felica"] = FALSE]
    /\ UNCHANGED <<game, busy, timeout, old, kind, answer, early, cardId, id,
                   packet, packets, overlapped>>

(* A file that cannot be read is tried again. *)
ReadFile(s) ==
    /\ \/ Goto(s, "readFile", "found") /\ cardId' = [h \in Halves |-> FromFile]
       \/ Goto(s, "readFile", "test") /\ UNCHANGED cardId
    /\ UNCHANGED <<game, busy, timeout, old, kind, answer, early, api>>

(* The callback, and after it is_scanning *)
Found(s) ==
    /\ Goto(s, "found", "unset")
    /\ answer' = [answer EXCEPT ![s] = cardId]
    /\ UNCHANGED <<game, busy, timeout, old, kind, early, cardId, api>>

TimedOut(s) ==
    /\ Goto(s, "timedOut", "unset")
    /\ UNCHANGED <<game, busy, timeout, old, kind, answer, early, cardId, api>>

Unset(s) ==
    /\ Goto(s, "unset", "done")
    /\ busy' = FALSE
    /\ UNCHANGED <<game, timeout, old, kind, answer, early, cardId, api>>

ThreadStep(s) ==
    \/ Begin(s) \/ Test(s) \/ Count(s) \/ Look(s) \/ Which(s) \/ Copy(s)
    \/ ClearAime(s) \/ ClearFelica(s) \/ ReadFile(s)
    \/ Found(s) \/ TimedOut(s) \/ Unset(s)

-----------------------------------------------------------------------------
(* api_parse, for the two card packets: half of the number, the other half,
   and the flag                                                            *)

Packet(k) ==
    /\ packet.at = "none" /\ packets < MaxPackets
    /\ packets' = packets + 1
    /\ id' = [id EXCEPT ![k][1] = packets']
    /\ packet' = [kind |-> k, at |-> "rest"]
    /\ overlapped' = overlapped
          \cup {s \in Scans : kind[s] = k /\ pc[s] \in {"copy", "copyRest"}}
    /\ UNCHANGED <<game, busy, scans, sent>>

PacketRest ==
    /\ packet.at = "rest"
    /\ id' = [id EXCEPT ![packet.kind][2] = packets]
    /\ packet' = [packet EXCEPT !.at = "flag"]
    /\ UNCHANGED <<game, busy, scans, sent, packets, overlapped>>

PacketFlag ==
    /\ packet.at = "flag"
    /\ sent' = [sent EXCEPT ![packet.kind] = TRUE]
    /\ packet' = NoPacket
    /\ UNCHANGED <<game, busy, scans, id, packets, overlapped>>

Next ==
    \/ BngRwInit \/ BngRwFin \/ SetScanning \/ BngRwReqCancel
    \/ \E s \in Scans : BngRwReqWaitTouch(s) \/ ThreadStep(s)
    \/ \E k \in Kinds : Packet(k)
    \/ PacketRest \/ PacketFlag

Spec == Init /\ [][Next]_vars /\ \A s \in Scans : WF_vars(ThreadStep(s))

-----------------------------------------------------------------------------
(* Properties *)

Alive(s) == pc[s] \in Running

(* The code does not keep a packet from writing a number that a scan copies.
   That is the only way to a wrong card: what any other scan gives to the game
   is one card, no half of it from another, and no other such scan gives it,
   though packets come before the card is cleared, and between the flags.  *)
CardsOnce ==
    \A s \in Scans \ overlapped :
        LET n == answer[s][1]
        IN /\ answer[s][2] = n
           /\ n \in Packets =>
                 \A r \in Scans \ (overlapped \cup {s}) : answer[r][1] # n

(* BngRwFin frees the number's buffer, and no scan writes it afterwards. *)
BufferAlive ==
    \A s \in Scans :
        pc[s] \in {"copy", "copyRest", "readFile", "found"} => open

(* Between calls BngRwIsCmdExec tells whether a scan is going on, but for one
   that ended before its request did: it leaves the reader busy for good.
   There is never more than one.                                           *)
BusyTellsScan ==
    /\ Cardinality({s \in Scans : Alive(s)}) <= 1
    /\ calling = None => (busy <=> early # {} \/ \E s \in Scans : Alive(s))

(* A scan with a time limit, the game's or that of a cancel, ends. *)
ScanEnds ==
    \A s \in Scans : Alive(s) /\ timeout[s] # -1 ~> pc[s] = "done"

(* Cards are handed over by scans that are there, each card once where no
   packet came under its copying (BngRwReqWaitTouchThread, api_clear_cards). *)
CardsHandedOver == TypeOK /\ CardsOnce
=============================================================================
