----------------------------- MODULE BngRwProofs -----------------------------
(***************************************************************************)
(* Theorems about BngRw, for any number of requests, packets and cancels.  *)
(***************************************************************************)
EXTENDS BngRw, FiniteSetTheorems, TLAPS

PcType == pc \in [Scans -> Running \cup {"none", "done"}]

(* A scan that goes on is that of the latest request; the reader has its
   buffer, and is busy but for the time until the request returns.         *)
AliveInv ==
    \A s \in Scans : Alive(s) => last = s /\ open /\ (busy \/ calling # None)

(* Until a request returns it is the latest, and its thread was started. *)
CallInv ==
    calling # None =>
        /\ calling \in Scans /\ calling = last /\ ~busy
        /\ Alive(calling) \/ pc[calling] = "done"

(* Who keeps the reader busy *)
BusyInv == busy => early # {} \/ \E s \in Scans : Alive(s)

(* Once a scan was early the reader is busy, and nothing follows. *)
EarlyInv == early # {} => busy /\ calling = None /\ \A s \in Scans : ~Alive(s)

IInv == PcType /\ AliveInv /\ CallInv /\ BusyInv /\ EarlyInv

-----------------------------------------------------------------------------
LEMMA InitIInv == Init => IInv
<1> SUFFICES ASSUME Init PROVE IInv
  OBVIOUS
<1>1. /\ \A s \in Scans : pc[s] = "none" /\ ~Alive(s)
      /\ PcType
  BY DEF Init, Alive, Running, PcType
<1> QED
  BY <1>1 DEF Init, IInv, AliveInv, CallInv, BusyInv, EarlyInv

(* What each step of a scan's thread is to the others. *)
LEMMA ThreadEffect ==
    ASSUME NEW s \in Scans, PcType, ThreadStep(s)
    PROVE  /\ Alive(s) /\ UNCHANGED <<open, last, calling, early>>
           /\ \/ /\ \E to \in Running : pc' = [pc EXCEPT ![s] = to]
                 /\ UNCHANGED busy
              \/ pc' = [pc EXCEPT ![s] = "done"] /\ busy' = FALSE
<1> USE DEF Alive, Running, Goto, game
<1>1. CASE Begin(s)
  BY <1>1 DEF Begin
<1>2. CASE Test(s)
  BY <1>2 DEF Test
<1>3. CASE Count(s)
  BY <1>3 DEF Count
<1>4. CASE Look(s)
  BY <1>4 DEF Look
<1>5. CASE Which(s)
  BY <1>5 DEF Which, Take
<1>6. CASE Copy(s)
  BY <1>6 DEF Copy
<1>7. CASE ClearAime(s) \/ ClearFelica(s)
  BY <1>7 DEF ClearAime, ClearFelica
<1>8. CASE ReadFile(s)
  BY <1>8 DEF ReadFile
<1>9. CASE Found(s) \/ TimedOut(s)
  BY <1>9 DEF Found, TimedOut
<1>10. CASE Unset(s)
  BY <1>10 DEF Unset
<1> QED
  BY <1>1, <1>2, <1>3, <1>4, <1>5, <1>6, <1>7, <1>8, <1>9, <1>10 DEF ThreadStep

(* A scan that ends is the only one, so the reader is free. *)
LEMMA ThreadKeeps ==
    ASSUME NEW s \in Scans, IInv, ThreadStep(s)
    PROVE  IInv'
<1> USE DEF IInv, PcType, AliveInv, CallInv, BusyInv, EarlyInv
<1>1. Alive(s) /\ UNCHANGED <<open, last, calling, early>>
  BY ThreadEffect
<1>2. early = {} /\ last = s /\ open
  BY <1>1
<1>3. CASE /\ \E to \in Running : pc' = [pc EXCEPT ![s] = to]
           /\ UNCHANGED busy
  <2>1. PcType' /\ \A r \in Scans : Alive(r)' <=> Alive(r)
    BY <1>1, <1>3 DEF Alive
  <2> QED
    BY <1>1, <1>2, <1>3, <2>1
<1>4. CASE pc' = [pc EXCEPT ![s] = "done"] /\ busy' = FALSE
  <2>1. PcType' /\ \A r \in Scans : ~Alive(r)'
    BY <1>1, <1>2, <1>4 DEF Alive, Running
  <2>2. calling # None => calling = s /\ pc'[s] = "done"
    BY <1>2, <1>4
  <2> QED
    BY <1>1, <1>2, <1>4, <2>1, <2>2
<1> QED
  BY <1>3, <1>4, ThreadEffect

(* A request comes when no scan goes on; a thread may fail to start. *)
LEMMA RequestKeeps ==
    ASSUME NEW s \in Scans, IInv, BngRwReqWaitTouch(s)
    PROVE  IInv'
<1> USE DEF IInv, PcType, AliveInv, CallInv, BusyInv, EarlyInv
<1>1. /\ calling = None /\ open /\ ~busy /\ last' = s
      /\ UNCHANGED <<open, busy, early>>
  BY DEF BngRwReqWaitTouch, IsCmdExec
<1>2. early = {} /\ \A r \in Scans : ~Alive(r)
  BY <1>1
<1>3. CASE pc' = [pc EXCEPT ![s] = "start"] /\ calling' = s
  <2>1. PcType' /\ Alive(s)' /\ \A r \in Scans \ {s} : ~Alive(r)'
    BY <1>2, <1>3 DEF Alive, Running
  <2>2. calling' # None
    BY <1>3, ScansAssumption DEF None
  <2> QED
    BY <1>1, <1>2, <1>3, <2>1, <2>2
<1>4. CASE pc' = [pc EXCEPT ![s] = "done"] /\ UNCHANGED calling
  <2>1. PcType' /\ \A r \in Scans : ~Alive(r)'
    BY <1>2, <1>4 DEF Alive, Running
  <2> QED
    BY <1>1, <1>2, <1>4, <2>1
<1> QED
  BY <1>3, <1>4 DEF BngRwReqWaitTouch

LEMMA SetScanningKeeps == IInv /\ SetScanning => IInv'
<1> SUFFICES ASSUME IInv, SetScanning PROVE IInv'
  OBVIOUS
<1> USE DEF IInv, PcType, AliveInv, CallInv, BusyInv, EarlyInv, Alive
<1>1. /\ calling # None /\ busy' = TRUE /\ calling' = None
      /\ UNCHANGED <<open, last, pc>>
      /\ early = {}
  BY DEF SetScanning
<1>2. CASE pc[calling] = "done"
  <2>1. \A r \in Scans : ~Alive(r)
    BY <1>1, <1>2 DEF Running
  <2> QED
    BY <1>1, <1>2, <2>1 DEF SetScanning
<1>3. CASE pc[calling] # "done"
  <2>1. early' = early /\ calling \in Scans /\ Alive(calling)
    BY <1>1, <1>3 DEF SetScanning
  <2> QED
    BY <1>1, <2>1
<1> QED
  BY <1>2, <1>3

(* Every step keeps the invariant. *)
LEMMA NextIInv == IInv /\ [Next]_vars => IInv'
<1> SUFFICES ASSUME IInv, [Next]_vars PROVE IInv'
  OBVIOUS
<1> USE DEF IInv, PcType, AliveInv, CallInv, BusyInv, EarlyInv, Alive
<1>1. CASE BngRwInit \/ BngRwReqCancel
  <2>1. UNCHANGED <<last, calling, busy, pc, early>> /\ (open => open')
    BY <1>1 DEF BngRwInit, BngRwReqCancel, scans
  <2> QED
    BY <2>1
<1>2. CASE BngRwFin
  <2>1. calling = None /\ ~busy /\ UNCHANGED <<last, calling, busy, pc, early>>
    BY <1>2 DEF BngRwFin, IsCmdExec
  <2>2. \A s \in Scans : ~Alive(s)
    BY <2>1
  <2> QED
    BY <2>1, <2>2
<1>3. CASE UNCHANGED vars \/ PacketRest \/ PacketFlag \/ \E k \in Kinds : Packet(k)
  <2>1. UNCHANGED <<open, last, calling, busy, pc, early>>
    BY <1>3 DEF vars, PacketRest, PacketFlag, Packet, game, scans
  <2> QED
    BY <2>1
<1> QED
  BY <1>1, <1>2, <1>3, SetScanningKeeps, ThreadKeeps, RequestKeeps DEF Next

-----------------------------------------------------------------------------
(* BngRwFin never frees the buffer of a scan that goes on: the reader stays
   busy until the scan has written it for the last time.                   *)
THEOREM BufferStaysAlive == Spec => []BufferAlive
<1>1. IInv => BufferAlive
  BY DEF IInv, AliveInv, BufferAlive, Alive, Running
<1> QED
  BY InitIInv, NextIInv, <1>1, PTL DEF Spec

(* There is one scan at most, and between calls BngRwIsCmdExec tells whether it
   goes on; only a scan that ended before its request did leaves the reader
   busy.                                                                   *)
THEOREM BusyIsTrue == Spec => []BusyTellsScan
<1>1. IInv => BusyTellsScan
  <2> SUFFICES ASSUME IInv PROVE BusyTellsScan
    OBVIOUS
  <2> DEFINE Live == {s \in Scans : Alive(s)}
  <2>1. Cardinality(Live) <= 1
    <3>1. Live \subseteq {last}
      BY DEF IInv, AliveInv
    <3>2. IsFiniteSet({last}) /\ Cardinality({last}) = 1
      BY FS_Singleton
    <3>3. Cardinality(Live) <= Cardinality({last})
      BY <3>1, <3>2, FS_Subset
    <3> QED
      BY <3>2, <3>3
  <2>2. calling = None => (busy <=> early # {} \/ \E s \in Scans : Alive(s))
    BY DEF IInv, AliveInv, BusyInv, EarlyInv
  <2> QED
    BY <2>1, <2>2 DEF BusyTellsScan
<1> QED
  BY InitIInv, NextIInv, <1>1, PTL DEF Spec
-----------------------------------------------------------------------------
(* The cards.  A number is current while its packet is at it, and from then on
   until it is cleared.  Nothing is said of scans that a packet of their kind
   overlapped while they copied.                                           *)
Current(k) == sent[k] \/ Coming(k)
Alone      == Scans \ overlapped

(* Numbers are given once; a current number has not been given, and is whole
   when its packet has written it.                                         *)
GivenInv ==
    /\ \A s \in Alone : answer[s][2] = answer[s][1] /\ answer[s][1] <= packets
    /\ \A r, s \in Alone :
          r # s /\ answer[s][1] \in Packets => answer[r][1] # answer[s][1]

IdInv ==
    /\ \A k \in Kinds : id[k][1] <= packets
    /\ id["felica"][1] = id["aime"][1] => id["felica"][1] = None
    /\ \A k \in Kinds :
          Current(k) /\ ~(Coming(k) /\ packet.at = "rest") => id[k][2] = id[k][1]
    /\ \A k \in Kinds : Coming(k) => id[k][1] = packets
    /\ \A k \in Kinds :
          Current(k) => id[k][1] > 0 /\ \A s \in Alone : answer[s][1] # id[k][1]

(* A scan has taken a number that nobody was given. *)
Taken ==
    /\ cardId[2] = cardId[1] /\ cardId[1] <= packets
    /\ cardId[1] \in Packets => \A s \in Alone : answer[s][1] # cardId[1]

(* A scan copies a number that is current, and it is not any more when the
   scan gives it away: a packet that comes meanwhile brings another.       *)
CopyInv(s) ==
    /\ pc[s] \in {"copy", "copyRest"} => sent[kind[s]] /\ ~Coming(kind[s])
    /\ pc[s] = "copyRest" => cardId[1] = id[kind[s]][1]
    /\ pc[s] = "clearAime" => Taken /\ \A k \in Kinds : Coming(k) => id[k][1] # cardId[1]
    /\ pc[s] \in {"clearFelica", "found"} =>
          /\ Taken
          /\ Coming("felica") => id["felica"][1] # cardId[1]
          /\ Current("aime") => id["aime"][1] # cardId[1]
    /\ pc[s] = "found" /\ sent["felica"] => id["felica"][1] # cardId[1]

OnceInv == TypeOK /\ GivenInv /\ IdInv /\ \A s \in Alone : CopyInv(s)

-----------------------------------------------------------------------------
(* TypeOK in parts *)
GameType ==
    /\ open \in BOOLEAN /\ busy \in BOOLEAN
    /\ last \in Scans \cup {None} /\ calling \in Scans \cup {None}
    /\ cancels \in 0 .. MaxCancels /\ early \subseteq Scans

TimeType ==
    /\ timeout \in [Scans -> Int] /\ \A s \in Scans : timeout[s] >= -1
    /\ old \in [Scans -> Nat]

CardType ==
    /\ kind \in [Scans -> Kinds]
    /\ answer \in [Scans -> [Halves -> Numbers]]
    /\ cardId \in [Halves -> Numbers]

ApiType ==
    /\ sent \in [Kinds -> BOOLEAN] /\ id \in [Kinds -> [Halves -> Numbers]]
    /\ packet \in [kind : Kinds, at : {"none", "rest", "flag"}]
    /\ packets \in 0 .. MaxPackets /\ overlapped \subseteq Scans

LEMMA Typed ==
    /\ TypeOK <=> GameType /\ TimeType /\ PcType /\ CardType /\ ApiType
    /\ TypeOK' <=> GameType' /\ TimeType' /\ PcType' /\ CardType' /\ ApiType'
BY DEF TypeOK, GameType, TimeType, PcType, CardType, ApiType

LEMMA InitTypes == Init => TypeOK
<1> SUFFICES ASSUME Init PROVE TypeOK
  OBVIOUS
<1> USE DEF Init
<1>1. GameType
  <2>1. cancels \in 0 .. MaxCancels
    BY BoundsAssumption
  <2> QED
    BY <2>1 DEF GameType
<1>2. TimeType /\ PcType
  BY DEF TimeType, PcType
<1>3. NoNumber \in [Halves -> Numbers] /\ NoPacket.kind = "felica" /\ NoPacket.at = "none"
  BY DEF NoNumber, Numbers, NoPacket
<1>4. CardType
  BY <1>3 DEF CardType, Kinds
<1>5. ApiType
  BY <1>3, BoundsAssumption DEF ApiType, Kinds, NoPacket
<1> QED
  BY <1>1, <1>2, <1>4, <1>5, Typed

(* A scan's thread keeps to what is its own, and to the flags. *)
LEMMA ThreadTypes ==
    ASSUME NEW s \in Scans, TypeOK, ThreadStep(s)
    PROVE  TypeOK'
<1>1. /\ GameType /\ TimeType /\ PcType /\ CardType /\ ApiType
  BY Typed
<1>2. GameType' /\ PcType'
  <2>1. UNCHANGED cancels
    BY DEF ThreadStep, Begin, Test, Count, Look, Which, Copy, ClearAime,
           ClearFelica, ReadFile, Found, TimedOut, Unset, game
  <2>2. /\ UNCHANGED <<open, last, calling, early>>
        /\ busy' = busy \/ busy' = FALSE
        /\ \E to \in Running \cup {"done"} : pc' = [pc EXCEPT ![s] = to]
    BY <1>1, ThreadEffect
  <2> QED
    BY <1>1, <2>1, <2>2 DEF GameType, PcType
<1>3. TimeType'
  <2>1. CASE Test(s)
    <3>1. timeout[s] # -1 => timeout[s] \in Nat
      BY <1>1 DEF TimeType
    <3> QED
      BY <1>1, <2>1, <3>1 DEF TimeType, Test
  <2>2. CASE Count(s)
    <3>1. old[s] - 1 \in Int /\ old[s] - 1 >= -1
      BY <1>1 DEF TimeType
    <3> QED
      BY <1>1, <2>2, <3>1 DEF TimeType, Count
  <2>3. CASE UNCHANGED <<timeout, old>>
    BY <1>1, <2>3 DEF TimeType
  <2> QED
    BY <2>1, <2>2, <2>3 DEF ThreadStep, Begin, Look, Which, Copy, ClearAime,
       ClearFelica, ReadFile, Found, TimedOut, Unset
<1>4. CardType'
  <2>1. CASE Which(s)
    BY <1>1, <2>1 DEF CardType, Which, Take, Kinds
  <2>2. CASE Copy(s)
    <3>1. id[kind[s]][1] \in Numbers /\ id[kind[s]][2] \in Numbers
      BY <1>1 DEF CardType, ApiType, Halves
    <3> QED
      BY <1>1, <2>2, <3>1 DEF CardType, Copy
  <2>3. CASE ReadFile(s)
    BY <1>1, <2>3 DEF CardType, ReadFile, Numbers
  <2>4. CASE Found(s)
    BY <1>1, <2>4 DEF CardType, Found
  <2>5. CASE UNCHANGED <<kind, answer, cardId>>
    BY <1>1, <2>5 DEF CardType
  <2> QED
    BY <2>1, <2>2, <2>3, <2>4, <2>5 DEF ThreadStep, Begin, Test, Count, Look,
       ClearAime, ClearFelica, TimedOut, Unset
<1>5. ApiType'
  <2>1. CASE ClearAime(s) \/ ClearFelica(s)
    BY <1>1, <2>1 DEF ApiType, ClearAime, ClearFelica
  <2>2. CASE UNCHANGED api
    BY <1>1, <2>2 DEF ApiType, api
  <2>3. CASE Which(s)
    BY <1>1, <2>3 DEF ApiType, Which, Take
  <2> QED
    BY <2>1, <2>2, <2>3 DEF ThreadStep, Begin, Test, Count, Look, Copy, ReadFile,
       Found, TimedOut, Unset
<1> QED
  BY <1>2, <1>3, <1>4, <1>5, Typed

LEMMA GameTypes ==
    ASSUME TypeOK,
           \/ BngRwInit \/ BngRwFin \/ SetScanning \/ BngRwReqCancel
           \/ \E s \in Scans : BngRwReqWaitTouch(s)
    PROVE  TypeOK'
<1>1. /\ GameType /\ TimeType /\ PcType /\ CardType /\ ApiType
  BY Typed
<1> USE DEF scans, api
<1>2. CASE BngRwInit
  BY <1>1, <1>2, Typed DEF BngRwInit, GameType, TimeType, PcType, CardType, ApiType
<1>3. CASE BngRwFin
  <2>1. NoNumber \in [Halves -> Numbers]
    BY DEF NoNumber, Numbers
  <2>2. GameType' /\ TimeType' /\ PcType' /\ CardType' /\ ApiType'
    BY <1>1, <1>3, <2>1 DEF BngRwFin, GameType, TimeType, PcType, CardType, ApiType
  <2> QED
    BY <2>2, Typed
<1>4. CASE SetScanning
  BY <1>1, <1>4, Typed
     DEF SetScanning, GameType, TimeType, PcType, CardType, ApiType
<1>5. CASE BngRwReqCancel
  <2>1. GameType'
    BY <1>1, <1>5, BoundsAssumption DEF BngRwReqCancel, GameType
  <2>2. TimeType'
    <3>1. Grace \in Int /\ Grace >= -1
      BY TimeAssumption
    <3>2. UNCHANGED <<old>>
      BY <1>5 DEF BngRwReqCancel
    <3>3. timeout' = timeout \/ timeout' = [timeout EXCEPT ![last] = Grace]
      BY <1>5 DEF BngRwReqCancel
    <3> QED
      BY <1>1, <3>1, <3>2, <3>3 DEF TimeType
  <2>3. PcType' /\ CardType' /\ ApiType'
    BY <1>1, <1>5 DEF BngRwReqCancel, PcType, CardType, ApiType
  <2> QED
    BY <2>1, <2>2, <2>3, Typed
<1>6. ASSUME NEW s \in Scans, BngRwReqWaitTouch(s) PROVE TypeOK'
  <2>1. GameType'
    BY <1>1, <1>6 DEF BngRwReqWaitTouch, GameType
  <2>2. TimeType'
    <3>1. PICK t \in Timeouts : timeout' = [timeout EXCEPT ![s] = t]
      BY <1>6 DEF BngRwReqWaitTouch
    <3>2. t \in Int /\ t >= -1
      BY TimeAssumption
    <3> QED
      BY <1>1, <1>6, <3>1, <3>2 DEF TimeType, BngRwReqWaitTouch
  <2>3. PcType'
    BY <1>1, <1>6 DEF BngRwReqWaitTouch, PcType, Running
  <2>4. CardType' /\ ApiType'
    BY <1>1, <1>6 DEF BngRwReqWaitTouch, CardType, ApiType
  <2> QED
    BY <2>1, <2>2, <2>3, <2>4, Typed
<1> QED
  BY <1>2, <1>3, <1>4, <1>5, <1>6

LEMMA PacketTypes ==
    ASSUME TypeOK, PacketRest \/ PacketFlag \/ \E k \in Kinds : Packet(k)
    PROVE  TypeOK'
<1>1. /\ GameType /\ TimeType /\ PcType /\ CardType /\ ApiType
  BY Typed
<1>2. GameType' /\ TimeType' /\ PcType' /\ CardType'
  <2>1. UNCHANGED <<game, busy, scans>>
    BY DEF PacketRest, PacketFlag, Packet
  <2> QED
    BY <1>1, <2>1 DEF game, scans, GameType, TimeType, PcType, CardType
<1>3. CASE PacketRest
  <2>1. packets \in Numbers
    BY <1>1 DEF ApiType, Numbers, Packets, None
  <2>2. packet.kind \in Kinds /\ [packet EXCEPT !.at = "flag"].kind = packet.kind
    BY <1>1 DEF ApiType
  <2> QED
    BY <1>1, <1>2, <1>3, <2>1, <2>2, Typed DEF PacketRest, ApiType
<1>4. CASE PacketFlag
  BY <1>1, <1>2, <1>4, Typed DEF PacketFlag, ApiType, NoPacket, Kinds
<1>5. ASSUME NEW k \in Kinds, Packet(k) PROVE TypeOK'
  <2>1. packets + 1 \in Numbers /\ packets + 1 \in 0 .. MaxPackets
    BY <1>1, <1>5, BoundsAssumption DEF ApiType, Numbers, Packets, Packet
  <2>2. [kind |-> k, at |-> "rest"] \in [kind : Kinds, at : {"none", "rest", "flag"}]
    OBVIOUS
  <2> QED
    BY <1>1, <1>2, <1>5, <2>1, <2>2, Typed DEF Packet, ApiType
<1> QED
  BY <1>3, <1>4, <1>5

LEMMA NextTypes == TypeOK /\ [Next]_vars => TypeOK'
<1>1. TypeOK /\ UNCHANGED vars => TypeOK'
  BY DEF TypeOK, vars, game, scans, api
<1> QED
  BY <1>1, ThreadTypes, GameTypes, PacketTypes DEF Next

-----------------------------------------------------------------------------
(* The numbers that a state has *)
LEMMA NumberTypes ==
    ASSUME TypeOK
    PROVE  /\ packets \in Nat /\ cardId[1] \in Int /\ cardId[2] \in Int
           /\ \A k \in Kinds : id[k][1] \in Int /\ id[k][2] \in Int
           /\ \A s \in Scans : answer[s][1] \in Int /\ answer[s][2] \in Int
           /\ \A n \in Numbers : n \in Packets <=> n > 0
           /\ cardId[1] \in Numbers
           /\ \A k \in Kinds : id[k][1] \in Numbers
           /\ \A s \in Scans : answer[s][1] \in Numbers /\ kind[s] \in Kinds
<1>1. /\ 1 \in Halves /\ 2 \in Halves
  BY DEF Halves
<1>2. Numbers \subseteq Int /\ \A n \in Numbers : n \in Packets <=> n > 0
  BY BoundsAssumption DEF Numbers, Packets, None, FromFile
<1>3. /\ cardId \in [Halves -> Numbers] /\ id \in [Kinds -> [Halves -> Numbers]]
      /\ answer \in [Scans -> [Halves -> Numbers]] /\ kind \in [Scans -> Kinds]
      /\ packets \in 0 .. MaxPackets
  BY DEF TypeOK
<1>4. packets \in Nat
  BY <1>3, BoundsAssumption
<1> QED
  BY <1>1, <1>2, <1>3, <1>4

LEMMA InitOnce == Init => OnceInv
<1> SUFFICES ASSUME Init PROVE OnceInv
  OBVIOUS
<1>1. /\ \A s \in Scans : pc[s] = "none" /\ answer[s][1] = 0 /\ answer[s][2] = 0
      /\ \A k \in Kinds : ~sent[k] /\ id[k][1] = 0
      /\ packet.at = "none" /\ packets = 0 /\ 0 \notin Packets
      /\ Alone \subseteq Scans
  BY BoundsAssumption DEF Init, NoNumber, NoPacket, None, Halves, Packets, Alone
<1>2. \A k \in Kinds : ~Coming(k) /\ ~Current(k)
  BY <1>1 DEF Coming, Current
<1>3. GivenInv
  BY <1>1 DEF GivenInv
<1>4. IdInv
  BY <1>1, <1>2 DEF IdInv, Kinds, None
<1>5. \A s \in Alone : CopyInv(s)
  BY <1>1 DEF CopyInv
<1> QED
  BY <1>3, <1>4, <1>5, InitTypes DEF OnceInv

(* Where no scan goes on, a step that leaves the numbers alone is no matter. *)
LEMMA GameOnce ==
    ASSUME IInv, OnceInv,
           \/ BngRwInit \/ BngRwFin \/ SetScanning \/ BngRwReqCancel
           \/ \E s \in Scans : BngRwReqWaitTouch(s)
    PROVE  OnceInv'
<1>1. /\ TypeOK /\ TypeOK' /\ PcType
      /\ \A s \in Alone : CopyInv(s)
  BY GameTypes DEF OnceInv, IInv
<1>2. /\ UNCHANGED <<kind, answer, sent, id, packet, packets, overlapped>>
      /\ Alone \subseteq Scans /\ UNCHANGED Alone
  BY DEF BngRwInit, BngRwFin, SetScanning, BngRwReqCancel, BngRwReqWaitTouch, scans, api,
         Alone
<1>3. GivenInv' /\ IdInv'
  BY <1>2 DEF OnceInv, GivenInv, IdInv, Current, Coming
<1>4. \A s \in Alone : CopyInv(s)'
  <2>1. CASE BngRwFin
    <3>1. UNCHANGED pc /\ \A s \in Scans : ~Alive(s)
      BY <2>1 DEF BngRwFin, IsCmdExec, IInv, AliveInv
    <3> QED
      BY <1>2, <3>1 DEF CopyInv, Alive, Running
  <2>2. CASE ~BngRwFin
    <3>1. UNCHANGED cardId
      BY <2>2 DEF BngRwInit, SetScanning, BngRwReqCancel, BngRwReqWaitTouch, scans
    <3>2. \A s \in Scans : pc'[s] = pc[s] \/ pc'[s] \in {"start", "done"}
      BY <1>1, <2>2 DEF BngRwInit, SetScanning, BngRwReqCancel, BngRwReqWaitTouch,
                        scans, PcType
    <3>3. Taken => Taken'
      BY <1>2, <3>1 DEF Taken
    <3> QED
      BY <1>1, <1>2, <3>1, <3>2, <3>3 DEF CopyInv, Current, Coming
  <2> QED
    BY <2>1, <2>2
<1> QED
  BY <1>1, <1>2, <1>3, <1>4 DEF OnceInv

(* A new packet has a number greater than all that there are.  A scan that is at
   the number of its kind is overlapped from now on.                       *)
LEMMA PacketOnce ==
    ASSUME IInv, OnceInv, NEW k \in Kinds, Packet(k)
    PROVE  OnceInv'
<1>1. /\ TypeOK /\ TypeOK' /\ GivenInv /\ IdInv /\ \A s \in Alone : CopyInv(s)
  BY PacketTypes DEF OnceInv
<1>2. /\ UNCHANGED <<pc, kind, answer, cardId, sent>>
      /\ packet.at = "none" /\ packets' = packets + 1
      /\ id' = [id EXCEPT ![k][1] = packets']
      /\ packet'.kind = k /\ packet'.at = "rest"
  BY DEF Packet, scans
<1>3. /\ packets \in Nat /\ packets' \in Nat /\ packets < packets'
      /\ \A j \in Kinds : id[j][1] \in Int
      /\ \A s \in Scans : answer[s][1] \in Int /\ kind[s] \in Kinds
      /\ cardId[1] \in Int
  BY <1>1, <1>2, NumberTypes
<1>4. /\ id'[k][1] = packets' /\ \A j \in Kinds \ {k} : id'[j] = id[j]
      /\ \A j \in Kinds : id[j][1] <= packets
  BY <1>1, <1>2 DEF TypeOK, Halves, IdInv
<1>5. \A j \in Kinds : /\ Coming(j)' <=> j = k
                       /\ ~Coming(j)
                       /\ Current(j)' <=> j = k \/ sent[j]
  BY <1>2 DEF Coming, Current
<1>6. /\ Alone' \subseteq Alone /\ Alone \subseteq Scans
      /\ \A s \in Alone' : pc[s] \in {"copy", "copyRest"} => kind[s] # k
  BY DEF Packet, Alone
<1>7. GivenInv'
  BY <1>1, <1>2, <1>3, <1>6 DEF GivenInv
<1>8. IdInv'
  <2>1. \A j \in Kinds : id'[j][1] <= packets'
    BY <1>3, <1>4
  <2>2. id'["felica"][1] # id'["aime"][1]
    BY <1>3, <1>4 DEF Kinds
  <2>3. \A j \in Kinds : Current(j)' /\ ~(Coming(j)' /\ packet'.at = "rest")
                            => id'[j][2] = id'[j][1]
    BY <1>1, <1>2, <1>4, <1>5 DEF IdInv, Current
  <2>4. \A j \in Kinds : Coming(j)' => id'[j][1] = packets'
    BY <1>2, <1>4, <1>5
  <2>5. \A j \in Kinds : Current(j)' => /\ id'[j][1] > 0
                                        /\ \A s \in Alone' : answer'[s][1] # id'[j][1]
    <3>1. packets' > 0 /\ \A s \in Alone : answer[s][1] # packets'
      BY <1>1, <1>3, <1>6 DEF GivenInv
    <3>2. \A j \in Kinds \ {k} : sent[j] => /\ id[j][1] > 0
                                 /\ \A s \in Alone : answer[s][1] # id[j][1]
      BY <1>1 DEF IdInv, Current
    <3> QED
      BY <1>2, <1>4, <1>5, <1>6, <3>1, <3>2
  <2> QED
    BY <2>1, <2>2, <2>3, <2>4, <2>5 DEF IdInv
<1>9. ASSUME NEW s \in Alone' PROVE CopyInv(s)'
  <2>1. CopyInv(s) /\ kind[s] \in Kinds
    BY <1>1, <1>3, <1>6
  <2>2. Taken => Taken' /\ cardId[1] # packets'
    BY <1>2, <1>3, <1>6 DEF Taken
  <2>3. pc[s] \in {"copy", "copyRest"} =>
           ~Coming(kind[s])' /\ id'[kind[s]] = id[kind[s]]
    BY <1>2, <1>4, <1>6, <2>1 DEF Coming
  <2>4. Taken => \A j \in Kinds : Coming(j)' => id'[j][1] # cardId[1]
    BY <1>2, <1>4, <1>5, <2>2
  <2>5. Taken /\ Current("aime")' /\ (Current("aime") => id["aime"][1] # cardId[1])
           => id'["aime"][1] # cardId[1]
    BY <1>4, <1>5, <2>4 DEF Kinds, Current
  <2>6. Taken /\ (sent["felica"] => id["felica"][1] # cardId[1])
           => (sent["felica"] => id'["felica"][1] # cardId[1])
    BY <1>4, <1>5, <2>4 DEF Kinds
  <2> QED
    BY <1>2, <2>1, <2>2, <2>3, <2>4, <2>5, <2>6 DEF CopyInv, Kinds
<1> QED
  BY <1>1, <1>7, <1>8, <1>9 DEF OnceInv

(* The rest of the packet makes the number whole before its flag is set. *)
LEMMA PacketRestOnce ==
    ASSUME IInv, OnceInv, PacketRest
    PROVE  OnceInv'
<1> DEFINE k == packet.kind
<1>1. /\ TypeOK /\ TypeOK' /\ GivenInv /\ IdInv /\ \A s \in Alone : CopyInv(s)
  BY PacketTypes DEF OnceInv
<1>2. /\ UNCHANGED <<pc, kind, answer, cardId, sent, packets>>
      /\ packet.at = "rest" /\ id' = [id EXCEPT ![k][2] = packets]
      /\ packet' = [packet EXCEPT !.at = "flag"] /\ k \in Kinds
      /\ packet'.kind = packet.kind /\ UNCHANGED Alone /\ Alone \subseteq Scans
  BY <1>1 DEF PacketRest, scans, TypeOK, Alone
<1>3. \A j \in Kinds : (Coming(j)' <=> Coming(j)) /\ (Current(j)' <=> Current(j))
  BY <1>1, <1>2 DEF Coming, Current, TypeOK
<1>4. /\ \A j \in Kinds : id'[j][1] = id[j][1]
      /\ id'[k][2] = packets /\ \A j \in Kinds \ {k} : id'[j] = id[j]
  BY <1>1, <1>2 DEF TypeOK, Halves
<1>5. Coming(k) /\ \A j \in Kinds : Coming(j) => j = k
  BY <1>2 DEF Coming
<1>6. id[k][1] = packets
  BY <1>1, <1>2, <1>5 DEF IdInv
<1>7. GivenInv'
  BY <1>1, <1>2 DEF GivenInv
<1>8. IdInv'
  <2>1. \A j \in Kinds : id'[j][1] <= packets'
    BY <1>1, <1>2, <1>4 DEF IdInv
  <2>2. id'["felica"][1] = id'["aime"][1] => id'["felica"][1] = None
    BY <1>1, <1>4 DEF IdInv, Kinds
  <2>3. \A j \in Kinds : Current(j)' => id'[j][2] = id'[j][1]
    BY <1>1, <1>2, <1>3, <1>4, <1>5, <1>6 DEF IdInv
  <2>4. \A j \in Kinds : Coming(j)' => id'[j][1] = packets'
    BY <1>2, <1>3, <1>4, <1>5, <1>6
  <2>5. \A j \in Kinds : Current(j)' => /\ id'[j][1] > 0
                                        /\ \A s \in Alone' : answer'[s][1] # id'[j][1]
    BY <1>1, <1>2, <1>3, <1>4 DEF IdInv
  <2> QED
    BY <2>1, <2>2, <2>3, <2>4, <2>5 DEF IdInv
<1>9. ASSUME NEW s \in Alone' PROVE CopyInv(s)'
  <2>1. CopyInv(s) /\ kind[s] \in Kinds /\ "felica" \in Kinds /\ "aime" \in Kinds
    BY <1>1, <1>2 DEF TypeOK, Kinds
  <2>2. Taken => Taken'
    BY <1>2 DEF Taken
  <2> QED
    BY <1>2, <1>3, <1>4, <2>1, <2>2 DEF CopyInv
<1> QED
  BY <1>1, <1>7, <1>8, <1>9 DEF OnceInv

LEMMA PacketFlagOnce ==
    ASSUME IInv, OnceInv, PacketFlag
    PROVE  OnceInv'
<1> DEFINE k == packet.kind
<1>1. /\ TypeOK /\ TypeOK' /\ GivenInv /\ IdInv /\ \A s \in Alone : CopyInv(s)
  BY PacketTypes DEF OnceInv
<1>2. /\ UNCHANGED <<pc, kind, answer, cardId, id, packets>>
      /\ packet.at = "flag" /\ sent' = [sent EXCEPT ![k] = TRUE]
      /\ packet'.at = "none" /\ k \in Kinds /\ UNCHANGED Alone /\ Alone \subseteq Scans
  BY <1>1 DEF PacketFlag, scans, TypeOK, NoPacket, Alone
<1>3. /\ Coming(k) /\ \A j \in Kinds : ~Coming(j)' /\ (Coming(j) => j = k)
      /\ \A j \in Kinds : sent'[j] = (sent[j] \/ j = k)
      /\ \A j \in Kinds : Current(j)' <=> Current(j)
  BY <1>1, <1>2 DEF Coming, Current, TypeOK
<1>4. GivenInv'
  BY <1>1, <1>2 DEF GivenInv
<1>5. IdInv'
  BY <1>1, <1>2, <1>3 DEF IdInv
<1>6. ASSUME NEW s \in Alone' PROVE CopyInv(s)'
  <2>1. CopyInv(s) /\ kind[s] \in Kinds /\ "felica" \in Kinds /\ "aime" \in Kinds
    BY <1>1, <1>2 DEF TypeOK, Kinds
  <2>2. Taken => Taken'
    BY <1>2 DEF Taken
  <2> QED
    BY <1>2, <1>3, <2>1, <2>2 DEF CopyInv
<1> QED
  BY <1>1, <1>4, <1>5, <1>6 DEF OnceInv

(* A scan's thread: no other goes on, so that no other is at a number. *)
LEMMA ThreadOnce ==
    ASSUME IInv, OnceInv, NEW s \in Scans, ThreadStep(s)
    PROVE  OnceInv'
<1>1. /\ TypeOK /\ TypeOK' /\ GivenInv /\ IdInv
      /\ s \in Alone => CopyInv(s)
      /\ pc \in [Scans -> Running \cup {"none", "done"}]
      /\ "felica" \in Kinds /\ "aime" \in Kinds /\ kind[s] \in Kinds
      /\ Kinds = {"felica", "aime"} /\ Alone \subseteq Scans
  BY ThreadTypes DEF OnceInv, TypeOK, Kinds, Alone
<1>2. /\ UNCHANGED <<packet, packets>> /\ \A k \in Kinds : Coming(k)' <=> Coming(k)
      /\ Alone' \subseteq Alone
  BY DEF ThreadStep, Begin, Test, Count, Look, Which, Take, Copy, ClearAime,
         ClearFelica, ReadFile, Found, TimedOut, Unset, api, Coming, Alone
<1>3. \A r \in Alone' \ {s} : CopyInv(r)'
  <2>1. Alive(s) /\ \E to \in Running \cup {"done"} : pc' = [pc EXCEPT ![s] = to]
    BY ThreadEffect DEF IInv
  <2>2. \A r \in Scans \ {s} : ~Alive(r)
    BY <2>1 DEF IInv, AliveInv
  <2>3. \A r \in Scans \ {s} : pc'[r] = pc[r]
    BY <1>1, <2>1
  <2> QED
    BY <1>1, <1>2, <2>2, <2>3 DEF CopyInv, Alive, Running
<1>4. UNCHANGED answer => GivenInv'
  BY <1>1, <1>2 DEF GivenInv
<1>5. UNCHANGED <<answer, id>> /\ (\A k \in Kinds : sent'[k] => sent[k]) => IdInv'
  BY <1>1, <1>2 DEF IdInv, Current
<1>6. SUFFICES GivenInv' /\ IdInv' /\ (s \in Alone' => CopyInv(s)')
  BY <1>1, <1>3 DEF OnceInv
<1>7. CASE Begin(s) \/ Test(s) \/ Count(s) \/ Look(s) \/ TimedOut(s) \/ Unset(s)
  <2>1. UNCHANGED <<answer, id, sent>>
    BY <1>7 DEF Begin, Test, Count, Look, TimedOut, Unset, api
  <2>2. pc'[s] \notin {"copy", "copyRest", "clearAime", "clearFelica", "found"}
    BY <1>1, <1>7 DEF Begin, Test, Count, Look, TimedOut, Unset, Goto
  <2> QED
    BY <1>4, <1>5, <2>1, <2>2 DEF CopyInv
<1>8. CASE Which(s)
  <2>1. UNCHANGED <<answer, id, sent>>
    BY <1>8 DEF Which
  <2>2. pc'[s] \in {"copy", "readFile"}
    BY <1>1, <1>8 DEF Which, Take, Goto
  <2>3. pc'[s] = "copy" /\ s \in Alone' => sent[kind'[s]] /\ ~Coming(kind'[s])
    BY <1>1, <1>8 DEF Which, Take, Goto, TypeOK, Alone
  <2>4. pc'[s] = "copy" => kind'[s] \in Kinds
    BY <1>1, <2>1 DEF TypeOK
  <2> QED
    BY <1>2, <1>4, <1>5, <2>1, <2>2, <2>3, <2>4 DEF CopyInv
<1>9. CASE Copy(s)
  <2>1. UNCHANGED <<answer, id, sent, kind>>
    BY <1>9 DEF Copy, api
  <2>2. \/ /\ pc[s] = "copy" /\ pc'[s] = "copyRest"
           /\ cardId'[1] = id[kind[s]][1]
        \/ /\ pc[s] = "copyRest" /\ pc'[s] = "clearAime"
           /\ cardId'[1] = cardId[1] /\ cardId'[2] = id[kind[s]][2]
    BY <1>1, <1>9 DEF Copy, Goto, TypeOK, Halves
  <2>3. ASSUME s \in Alone'
        PROVE  CopyInv(s)'
    <3>1. CopyInv(s) /\ sent[kind[s]] /\ ~Coming(kind[s])
      BY <1>1, <1>2, <2>2, <2>3 DEF CopyInv
    <3>2. /\ id[kind[s]][2] = id[kind[s]][1] /\ id[kind[s]][1] <= packets
          /\ id[kind[s]][1] > 0 /\ \A r \in Alone : answer[r][1] # id[kind[s]][1]
      BY <1>1, <3>1 DEF IdInv, Current
    <3>3. CASE pc[s] = "copy"
      BY <1>1, <1>2, <2>1, <2>2, <3>1, <3>3 DEF CopyInv
    <3>4. CASE pc[s] = "copyRest"
      <4>1. /\ cardId'[1] = id[kind[s]][1] /\ cardId'[2] = id[kind[s]][1]
            /\ pc'[s] = "clearAime"
        BY <2>2, <3>1, <3>2, <3>4 DEF CopyInv
      <4>2. Taken'
        BY <1>2, <2>1, <3>2, <4>1 DEF Taken
      <4>3. id["felica"][1] # id["aime"][1]
        BY <1>1, <3>2 DEF IdInv, None
      <4>4. \A k \in Kinds : Coming(k)' => id'[k][1] # cardId'[1]
        BY <1>1, <1>2, <2>1, <3>1, <4>1, <4>3
      <4> QED
        BY <4>1, <4>2, <4>4 DEF CopyInv
    <3> QED
      BY <2>2, <3>3, <3>4
  <2> QED
    BY <1>4, <1>5, <2>1, <2>3
<1>10. CASE ClearAime(s)
  <2>1. /\ UNCHANGED <<answer, id, cardId, kind>>
        /\ pc[s] = "clearAime" /\ pc'[s] = "clearFelica"
        /\ ~sent'["aime"] /\ sent'["felica"] = sent["felica"]
    BY <1>1, <1>10 DEF ClearAime, Goto, TypeOK
  <2>2. \A k \in Kinds : sent'[k] => sent[k]
    BY <1>1, <2>1
  <2>3. s \in Alone' => CopyInv(s)'
    <3>1. Taken => Taken'
      BY <1>2, <2>1 DEF Taken
    <3> QED
      BY <1>1, <1>2, <2>1, <3>1 DEF CopyInv, Current
  <2> QED
    BY <1>4, <1>5, <2>1, <2>2, <2>3
<1>11. CASE ClearFelica(s)
  <2>1. /\ UNCHANGED <<answer, id, cardId, kind>>
        /\ pc[s] = "clearFelica" /\ pc'[s] = "found"
        /\ ~sent'["felica"] /\ sent'["aime"] = sent["aime"]
    BY <1>1, <1>11 DEF ClearFelica, Goto, TypeOK
  <2>2. \A k \in Kinds : sent'[k] => sent[k]
    BY <1>1, <2>1
  <2>3. s \in Alone' => CopyInv(s)'
    <3>1. Taken => Taken'
      BY <1>2, <2>1 DEF Taken
    <3> QED
      BY <1>1, <1>2, <2>1, <3>1 DEF CopyInv, Current
  <2> QED
    BY <1>4, <1>5, <2>1, <2>2, <2>3
<1>12. CASE ReadFile(s)
  <2>1. UNCHANGED <<answer, id, sent>>
    BY <1>12 DEF ReadFile, api
  <2>2. \/ pc'[s] = "test"
        \/ pc'[s] = "found" /\ cardId' = [h \in Halves |-> FromFile]
    BY <1>1, <1>12 DEF ReadFile, Goto
  <2>3. CASE pc'[s] = "test"
    BY <1>4, <1>5, <2>1, <2>3 DEF CopyInv
  <2>4. CASE pc'[s] = "found" /\ cardId' = [h \in Halves |-> FromFile]
    <3>1. cardId'[1] = -1 /\ cardId'[2] = -1 /\ -1 \notin Packets /\ packets \in Nat
      BY <1>1, <2>4, NumberTypes DEF Halves, FromFile, Packets
    <3>2. Taken'
      BY <1>2, <3>1 DEF Taken
    <3>3. \A k \in Kinds : Current(k) => id[k][1] # -1
      BY <1>1 DEF IdInv
    <3>4. CopyInv(s)'
      BY <1>1, <1>2, <2>1, <2>4, <3>1, <3>2, <3>3 DEF CopyInv, Current
    <3> QED
      BY <1>4, <1>5, <2>1, <3>4
  <2> QED
    BY <2>2, <2>3, <2>4
<1>13. CASE Found(s)
  <2>1. /\ UNCHANGED <<id, sent, cardId, kind, Alone>>
        /\ pc[s] = "found" /\ pc'[s] = "unset"
        /\ answer'[s] = cardId /\ \A r \in Scans \ {s} : answer'[r] = answer[r]
    BY <1>1, <1>13 DEF Found, Goto, TypeOK, api, Alone
  <2>2. s \in Alone => Taken /\ \A k \in Kinds : Current(k) => id[k][1] # cardId[1]
    BY <1>1, <2>1 DEF CopyInv, Current
  <2>3. GivenInv'
    <3>1. \A r \in Alone : answer'[r][2] = answer'[r][1] /\ answer'[r][1] <= packets
      BY <1>1, <2>1, <2>2 DEF GivenInv, Taken
    <3>2. ASSUME NEW r \in Alone, NEW q \in Alone, r # q, answer'[q][1] \in Packets
          PROVE  answer'[r][1] # answer'[q][1]
      BY <1>1, <2>1, <2>2, <3>2 DEF GivenInv, Taken
    <3> QED
      BY <1>2, <2>1, <3>1, <3>2 DEF GivenInv
  <2>4. IdInv'
    <3>1. \A k \in Kinds : Current(k)' <=> Current(k)
      BY <1>2, <2>1 DEF Current
    <3>2. \A k \in Kinds : Current(k) =>
             id[k][1] > 0 /\ \A r \in Alone : answer'[r][1] # id[k][1]
      BY <1>1, <2>1, <2>2 DEF IdInv
    <3> QED
      BY <1>1, <1>2, <2>1, <3>1, <3>2 DEF IdInv
  <2>5. CopyInv(s)'
    BY <2>1 DEF CopyInv
  <2> QED
    BY <2>3, <2>4, <2>5
<1> QED
  BY <1>7, <1>8, <1>9, <1>10, <1>11, <1>12, <1>13 DEF ThreadStep

LEMMA NextOnce == IInv /\ OnceInv /\ [Next]_vars => OnceInv'
<1>1. OnceInv /\ UNCHANGED vars => OnceInv'
  BY DEF OnceInv, TypeOK, GivenInv, IdInv, CopyInv, Taken, Coming, Current, Alone, vars,
         game, scans, api
<1> QED
  BY <1>1, GameOnce, PacketOnce, PacketRestOnce, PacketFlagOnce, ThreadOnce DEF Next

(* Packets come at any time.  A card that a scan gives to the game is whole and
   is given by that scan alone, unless a packet of its kind came under the
   scan's copying (api_clear_cards between the copy and the callback).     *)
THEOREM CardsGivenOnce == Spec => []CardsHandedOver
<1>1. OnceInv => CardsHandedOver
  BY DEF OnceInv, GivenInv, CardsHandedOver, CardsOnce, Alone
<1> QED
  BY InitIInv, NextIInv, InitOnce, NextOnce, <1>1, PTL DEF Spec
=============================================================================
