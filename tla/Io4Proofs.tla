------------------------------- MODULE Io4Proofs -------------------------------
(***************************************************************************)
(* Theorems about Io4, for any number of readers and of coins: TLC tries   *)
(* two of each.                                                            *)
(***************************************************************************)
EXTENDS Io4, FiniteSetTheorems, SequenceTheorems, TLAPS

(* TypeOK without the length of the queue *)
Types ==
    /\ io \in [Clients -> {"idle", "pending"} \cup Final]
    /\ pc \in {"idle", "report"} \cup Buttons
    /\ clearing \in BOOLEAN
    /\ shown \in 0 .. MaxCredits
    /\ api \subseteq Buttons
    /\ key \in BOOLEAN /\ tapped \in BOOLEAN /\ coin \in BOOLEAN
    /\ coins \in 0 .. MaxCredits /\ credits \in 0 .. MaxCredits
    /\ hand \in 0 .. Beams
    /\ status \in Statuses
    /\ report \in [Clients -> Reports \cup {NoReport}]
    /\ told \in 0 .. MaxCredits
    /\ since \in [Clients -> SUBSET Statuses]

(* A read waits in one place of the queue. *)
Queued ==
    /\ queue \in Seq(Clients)
    /\ \A i \in 1 .. Len(queue) : io[queue[i]] = "pending"
    /\ \A i, j \in 1 .. Len(queue) : queue[i] = queue[j] => i = j

(* A coin that the next look will count has gone in: the key is down, or was,
   or the network's flag is set, and the last look saw none of these.      *)
Uncounted == ~coin /\ (key \/ tapped \/ "credit" \in api)

Justified == coins + (IF Uncounted THEN 1 ELSE 0) <= credits

(* A poll reports the counter that it has read, and none has been told more. *)
Counted == told <= coins /\ (pc = "report" => shown = coins)

(* The status has not changed since a read began but by writes it knows of. *)
StatusKnown == \A c \in Clients : io[c] = "pending" => status \in since[c]

IInv == Types /\ Queued /\ Justified /\ Counted /\ StatusKnown

-----------------------------------------------------------------------------
(* The chute counter is a byte of the report. *)
LEMMA Byte == \A n \in Nat : n % 256 \in 0 .. n /\ (n < 256 => n % 256 = n)
BY Z3

LEMMA InitIInv == Init => IInv
<1> SUFFICES ASSUME Init PROVE IInv
  OBVIOUS
<1>1. /\ io = [c \in Clients |-> "idle"] /\ queue = <<>>
      /\ pc = "idle" /\ clearing = FALSE /\ shown = 0
      /\ api = {} /\ key = FALSE /\ tapped = FALSE /\ credits = 0
      /\ coin = FALSE /\ coins = 0 /\ hand = 0 /\ status = 2
      /\ report = [c \in Clients |-> NoReport] /\ told = 0
      /\ since = [c \in Clients |-> {}]
  BY DEF Init, Ovl!Init
<1>2. Types
  <2>1. /\ io \in [Clients -> {"idle", "pending"} \cup Final]
        /\ report \in [Clients -> Reports \cup {NoReport}]
        /\ since \in [Clients -> SUBSET Statuses]
    BY <1>1
  <2>2. /\ shown \in 0 .. MaxCredits /\ coins \in 0 .. MaxCredits
        /\ credits \in 0 .. MaxCredits /\ told \in 0 .. MaxCredits
        /\ hand \in 0 .. Beams
    BY <1>1, BoundsAssumption
  <2>3. /\ clearing \in BOOLEAN /\ key \in BOOLEAN /\ tapped \in BOOLEAN
        /\ coin \in BOOLEAN /\ api \subseteq Buttons
        /\ pc \in {"idle", "report"} \cup Buttons /\ status \in Statuses
    BY <1>1 DEF Statuses
  <2> QED
    BY <2>1, <2>2, <2>3 DEF Types
<1>3. Queued
  BY <1>1 DEF Queued
<1>4. Justified /\ Counted /\ StatusKnown
  BY <1>1 DEF Justified, Uncounted, Counted, StatusKnown
<1> QED
  BY <1>2, <1>3, <1>4 DEF IInv

(* Requests: a read goes to the end of the queue, and leaves it first. *)
LEMMA Accepted ==
    ASSUME IInv, NEW c \in Clients, Ovl!Accept(c)
    PROVE  Queued' /\ io' \in [Clients -> {"idle", "pending"} \cup Final]
<1> DEFINE n == Len(queue)
<1>1. /\ io[c] = "idle" /\ io' = [io EXCEPT ![c] = "pending"]
      /\ queue' = Append(queue, c) /\ queue \in Seq(Clients) /\ n \in Nat
  BY DEF IInv, Queued, Ovl!Accept
<1>2. io' \in [Clients -> {"idle", "pending"} \cup Final]
  BY <1>1 DEF IInv, Types
<1>3. /\ queue' \in Seq(Clients) /\ Len(queue') = n + 1
      /\ \A i \in 1 .. n : queue'[i] = queue[i] /\ queue[i] \in Clients
      /\ queue'[n + 1] = c
  BY <1>1
<1>4. \A i \in 1 .. n : queue[i] # c
  BY <1>1 DEF IInv, Queued
<1>5. \A i \in 1 .. n + 1 : i \in 1 .. n \/ i = n + 1
  BY <1>1
<1>6. io'[c] = "pending" /\ \A i \in 1 .. n : io'[queue[i]] = "pending"
  BY <1>1, <1>3, <1>4 DEF IInv, Types, Queued
<1>7. \A i \in 1 .. n + 1 : io'[queue'[i]] = "pending"
  BY <1>3, <1>5, <1>6
<1>8. \A i, j \in 1 .. n + 1 : queue'[i] = queue'[j] => i = j
  BY <1>3, <1>4, <1>5 DEF IInv, Queued
<1> QED
  BY <1>2, <1>3, <1>7, <1>8 DEF Queued

LEMMA Completed ==
    ASSUME IInv, NEW s \in {"SUCCESS", "UNSUCCESSFUL"}, Ovl!Complete(Head(queue), s)
    PROVE  /\ Queued' /\ io' \in [Clients -> {"idle", "pending"} \cup Final]
           /\ Head(queue) \in Clients /\ io[Head(queue)] = "pending"
           /\ \A c \in Clients : io'[c] = "pending" => io[c] = "pending"
<1> DEFINE n == Len(queue)
<1>1. /\ queue \in Seq(Clients) /\ queue # <<>> /\ n \in Nat /\ n >= 1
      /\ Head(queue) = queue[1] /\ 1 \in 1 .. n /\ queue[1] \in Clients
      /\ io' = [io EXCEPT ![Head(queue)] = s] /\ queue' = Tail(queue)
  BY DEF IInv, Queued, Ovl!Complete
<1>2. s \in Final /\ s # "pending"
  BY FinalAssumption
<1>3. io[Head(queue)] = "pending"
  BY <1>1 DEF IInv, Queued
<1>4. io' \in [Clients -> {"idle", "pending"} \cup Final]
  BY <1>1, <1>2 DEF IInv, Types
<1>5. \A c \in Clients : io'[c] = "pending" => io[c] = "pending"
  BY <1>1, <1>2 DEF IInv, Types
<1>6. /\ queue' \in Seq(Clients) /\ Len(queue') = n - 1
      /\ \A i \in 1 .. n - 1 : /\ queue'[i] = queue[i + 1] /\ i + 1 \in 1 .. n
                               /\ queue[i + 1] \in Clients
  BY <1>1
<1>7. \A i \in 1 .. n - 1 : queue[i + 1] # Head(queue)
  BY <1>1, <1>6 DEF IInv, Queued
<1>8. \A i \in 1 .. n - 1 : io'[queue'[i]] = "pending"
  BY <1>1, <1>6, <1>7 DEF IInv, Types, Queued
<1>9. \A i, j \in 1 .. n - 1 : queue'[i] = queue'[j] => i = j
  <2> SUFFICES ASSUME NEW i \in 1 .. n - 1, NEW j \in 1 .. n - 1, queue'[i] = queue'[j]
               PROVE  i = j
    OBVIOUS
  <2>1. i + 1 \in 1 .. n /\ j + 1 \in 1 .. n /\ queue[i + 1] = queue[j + 1]
    BY <1>6
  <2>2. \A k, l \in 1 .. n : queue[k] = queue[l] => k = l
    BY DEF IInv, Queued
  <2>3. i + 1 = j + 1
    BY <2>1, <2>2
  <2> QED
    BY <2>3
<1> QED
  BY <1>1, <1>3, <1>4, <1>5, <1>6, <1>8, <1>9 DEF Queued

LEMMA Retired ==
    ASSUME IInv, NEW c \in Clients, Ovl!Retire(c)
    PROVE  /\ Queued' /\ io' \in [Clients -> {"idle", "pending"} \cup Final]
           /\ \A d \in Clients : io'[d] = "pending" => io[d] = "pending"
<1>1. io[c] \in Final /\ io' = [io EXCEPT ![c] = "idle"] /\ queue' = queue
  BY DEF Ovl!Retire
<1>2. /\ queue \in Seq(Clients)
      /\ \A i \in 1 .. Len(queue) : queue[i] \in Clients /\ queue[i] # c
  BY <1>1, FinalAssumption DEF IInv, Queued
<1>3. io' \in [Clients -> {"idle", "pending"} \cup Final]
  BY <1>1 DEF IInv, Types
<1>4. \A d \in Clients : io'[d] = "pending" => io[d] = "pending"
  BY <1>1 DEF IInv, Types
<1>5. Queued'
  BY <1>1, <1>2 DEF IInv, Types, Queued
<1> QED
  BY <1>3, <1>4, <1>5

LEMMA ReadStep ==
    ASSUME IInv, NEW c \in Clients, Read(c)
    PROVE  IInv'
<1> USE DEF pollVars, inputVars, coinVars
<1>1. Queued' /\ io' \in [Clients -> {"idle", "pending"} \cup Final]
  BY Accepted DEF Read
<1>2. Types'
  BY <1>1 DEF Read, IInv, Types
<1>3. StatusKnown'
  BY DEF Read, Ovl!Accept, IInv, Types, StatusKnown
<1>4. Justified' /\ Counted'
  BY DEF Read, IInv, Justified, Uncounted, Counted
<1> QED
  BY <1>1, <1>2, <1>3, <1>4 DEF IInv

LEMMA TakeStep ==
    ASSUME IInv, NEW c \in Clients, TakeReport(c)
    PROVE  IInv'
<1> USE DEF pollVars, inputVars, coinVars, ghosts
<1>1. /\ Queued' /\ io' \in [Clients -> {"idle", "pending"} \cup Final]
      /\ \A d \in Clients : io'[d] = "pending" => io[d] = "pending"
  BY Retired DEF TakeReport
<1>2. Types'
  BY <1>1 DEF TakeReport, IInv, Types
<1>3. StatusKnown'
  BY <1>1 DEF TakeReport, IInv, StatusKnown
<1>4. Justified' /\ Counted'
  BY DEF TakeReport, IInv, Justified, Uncounted, Counted
<1> QED
  BY <1>1, <1>2, <1>3, <1>4 DEF IInv

LEMMA WriteStep ==
    ASSUME IInv, Write
    PROVE  IInv'
<1> USE DEF pollVars, inputVars, coinVars, ovlVars
<1>1. status' \in Statuses /\ since' \in [Clients -> SUBSET Statuses]
  BY DEF Write, IInv, Types, Statuses
<1>2. Types'
  BY <1>1 DEF Write, IInv, Types
<1>3. StatusKnown'
  BY DEF Write, IInv, Types, StatusKnown
<1>4. Queued' /\ Justified' /\ Counted'
  BY DEF Write, IInv, Queued, Justified, Uncounted, Counted
<1> QED
  BY <1>2, <1>3, <1>4 DEF IInv

(* The inputs: whoever presses or sends a coin counts it as gone in. *)
LEMMA InputStep ==
    ASSUME IInv, PressCoin \/ ReleaseCoin \/ \E b \in Buttons : Packet(b)
    PROVE  IInv'
<1> USE DEF pollVars, coinVars, ovlVars, ghosts
<1>1. UNCHANGED <<io, queue, pc, clearing, shown, coin, coins, hand, status, report, told, since>>
  BY DEF PressCoin, ReleaseCoin, Packet
<1>2. Queued' /\ Counted' /\ StatusKnown'
  BY <1>1 DEF IInv, Queued, Counted, StatusKnown
<1>3. /\ api' \subseteq Buttons /\ key' \in BOOLEAN /\ tapped' \in BOOLEAN
      /\ credits' \in 0 .. MaxCredits
  <2>1. /\ api \subseteq Buttons /\ key \in BOOLEAN /\ tapped \in BOOLEAN
        /\ credits \in 0 .. MaxCredits
        /\ credits < MaxCredits => credits + 1 \in 0 .. MaxCredits
    BY BoundsAssumption DEF IInv, Types
  <2>2. CASE PressCoin
    BY <2>1, <2>2 DEF PressCoin
  <2>3. CASE ReleaseCoin
    BY <2>1, <2>3 DEF ReleaseCoin
  <2>4. ASSUME NEW b \in Buttons, Packet(b)
        PROVE  /\ api' \subseteq Buttons /\ UNCHANGED <<key, tapped>>
               /\ credits' \in 0 .. MaxCredits
    BY <2>1, <2>4 DEF Packet
  <2> QED
    BY <2>1, <2>2, <2>3, <2>4
<1>4. Types'
  BY <1>1, <1>3 DEF IInv, Types
<1>5. Justified'
  <2>1. CASE PressCoin
    BY <1>1, <2>1 DEF PressCoin, IInv, Types, Justified, Uncounted
  <2>2. CASE ReleaseCoin
    BY <1>1, <2>2 DEF ReleaseCoin, IInv, Types, Justified, Uncounted
  <2>3. ASSUME NEW b \in Buttons, Packet(b) PROVE Justified'
    BY <1>1, <2>3 DEF Packet, IInv, Types, Justified, Uncounted
  <2> QED
    BY <2>1, <2>2, <2>3
<1> QED
  BY <1>2, <1>4, <1>5 DEF IInv

LEMMA ButtonStep ==
    ASSUME IInv,
           Start \/ LookAtButton("test") \/ LookAtButton("service") \/ ClearButtons
    PROVE  IInv'
<1> USE DEF inputVars, coinVars, ovlVars, ghosts, Buttons
<1>1. UNCHANGED <<io, queue, shown, key, tapped, credits, coin, coins, status, report, told, since>>
  BY DEF Start, LookAtButton, ClearButtons
<1>2. /\ api' \subseteq api /\ clearing' \in BOOLEAN
      /\ pc' = pc \/ pc' \in {"test", "service", "credit"}
  BY DEF Start, LookAtButton, ClearButtons, IInv, Types
<1>3. hand' \in 0 .. Beams
  BY DEF Start, LookAtButton, ClearButtons, IInv, Types
<1>4. Types'
  BY <1>1, <1>2, <1>3 DEF IInv, Types
<1>5. Queued' /\ Counted' /\ StatusKnown'
  BY <1>1, <1>2 DEF IInv, Queued, Counted, StatusKnown
<1>6. Justified'
  BY <1>1, <1>2 DEF IInv, Types, Justified, Uncounted
<1> QED
  BY <1>4, <1>5, <1>6 DEF IInv

(* A coin is counted when the last look saw none, and then not again. *)
LEMMA CoinStep ==
    ASSUME IInv, LookAtCoin
    PROVE  IInv'
<1> USE DEF ovlVars, ghosts, Buttons
<1>1. /\ UNCHANGED <<io, queue, api, key, credits, hand, status, report, told, since>>
      /\ tapped' = FALSE /\ shown' = coins' /\ pc' = "report"
  BY DEF LookAtCoin
<1>2. Queued' /\ StatusKnown'
  BY <1>1 DEF IInv, Queued, StatusKnown
<1>3. /\ coin' \in BOOLEAN /\ clearing' \in BOOLEAN
      /\ coins' = coins \/ (coins' = coins + 1 /\ Uncounted)
      /\ coin' \/ (~key /\ "credit" \notin api)
  BY DEF LookAtCoin, CoinDown, CoinUp, IInv, Types, Uncounted
<1>4. coins' <= credits /\ coins' \in Nat
  BY <1>3 DEF IInv, Types, Justified
<1>5. Justified'
  <2>1. ~Uncounted' /\ credits' = credits
    BY <1>1, <1>3 DEF Uncounted
  <2>2. \A n \in Nat : n + 0 = n
    OBVIOUS
  <2> QED
    BY <1>4, <2>1, <2>2 DEF Justified
<1>6. Counted'
  BY <1>1, <1>3 DEF IInv, Types, Counted
<1>7. Types'
  <2>1. coins' \in 0 .. MaxCredits /\ shown' \in 0 .. MaxCredits
    BY <1>1, <1>4, BoundsAssumption DEF IInv, Types
  <2> QED
    BY <1>1, <1>3, <2>1 DEF IInv, Types
<1> QED
  BY <1>2, <1>5, <1>6, <1>7 DEF IInv

LEMMA Reported ==
    ASSUME IInv, pc = "report"
    PROVE  ReportOf \in Reports /\ ReportOf.coins <= coins /\ ReportOf.status = status
<1>1. shown = coins /\ shown \in 0 .. MaxCredits /\ status \in Statuses /\ shown \in Nat
  BY DEF IInv, Types, Counted
<1>2. shown % 256 \in 0 .. shown
  BY <1>1, Byte
<1>3. shown % 256 \in 0 .. MaxCredits /\ shown % 256 <= coins
  BY <1>1, <1>2, BoundsAssumption
<1> QED
  BY <1>1, <1>3 DEF ReportOf, Reports

LEMMA FinishStep ==
    ASSUME IInv, Finish
    PROVE  IInv'
<1> USE DEF inputVars, coinVars
<1> DEFINE c == Head(queue)
<1>1. /\ pc = "report" /\ pc' = "idle" /\ shown' = 0 /\ since' = [since EXCEPT ![c] = {}]
      /\ UNCHANGED <<clearing, api, key, tapped, credits, coin, coins, hand, status>>
      /\ \/ /\ Ovl!Complete(c, "SUCCESS")
            /\ report' = [report EXCEPT ![c] = ReportOf] /\ told' = ReportOf.coins
         \/ Ovl!Complete(c, "UNSUCCESSFUL") /\ UNCHANGED <<report, told>>
  BY DEF Finish
<1>2. /\ Queued' /\ io' \in [Clients -> {"idle", "pending"} \cup Final]
      /\ c \in Clients
      /\ \A d \in Clients : io'[d] = "pending" => io[d] = "pending" /\ d # c
  <2>1. \E s \in {"SUCCESS", "UNSUCCESSFUL"} : Ovl!Complete(c, s)
    BY <1>1
  <2>2. PICK s \in {"SUCCESS", "UNSUCCESSFUL"} : Ovl!Complete(c, s)
    BY <2>1
  <2>3. /\ Queued' /\ io' \in [Clients -> {"idle", "pending"} \cup Final]
        /\ c \in Clients
        /\ \A d \in Clients : io'[d] = "pending" => io[d] = "pending"
    BY <2>2, Completed
  <2>4. io'[c] # "pending"
    BY <2>2, <2>3 DEF Ovl!Complete, IInv, Types
  <2> QED
    BY <2>3, <2>4
<1> HIDE DEF c
<1>3. ReportOf \in Reports /\ ReportOf.coins <= coins
  BY <1>1, Reported
<1>4. report' \in [Clients -> Reports \cup {NoReport}]
  BY <1>1, <1>2, <1>3 DEF IInv, Types
<1>5. told' \in 0 .. MaxCredits /\ told' <= coins
  BY <1>1, <1>3 DEF IInv, Types, Reports, Counted
<1>6. since' \in [Clients -> SUBSET Statuses]
  BY <1>1, <1>2 DEF IInv, Types
<1>7. Types'
  BY <1>1, <1>2, <1>4, <1>5, <1>6, BoundsAssumption DEF IInv, Types
<1>8. StatusKnown'
  BY <1>1, <1>2 DEF IInv, Types, StatusKnown
<1>9. Justified' /\ Counted'
  BY <1>1, <1>5 DEF IInv, Justified, Uncounted, Counted
<1> QED
  BY <1>2, <1>7, <1>8, <1>9 DEF IInv

LEMMA NextIInv == IInv /\ [Next]_vars => IInv'
<1> SUFFICES ASSUME IInv, [Next]_vars PROVE IInv'
  OBVIOUS
<1>1. CASE UNCHANGED vars
  BY <1>1 DEF vars, ovlVars, pollVars, inputVars, coinVars, ghosts, IInv, Types, Queued,
              Justified, Uncounted, Counted, StatusKnown
<1>2. CASE Next
  BY <1>2, ReadStep, TakeStep, WriteStep, InputStep, ButtonStep, CoinStep, FinishStep
     DEF Next, Poll
<1> QED
  BY <1>1, <1>2

(* The inductive invariant: a coin that is there to be counted has gone in, so
   that counting it takes the counter no further than the credits.         *)
THEOREM Invariance == Spec => []IInv
BY InitIInv, NextIInv, PTL DEF Spec

(* Reads that wait once each are no more than there are readers. *)
LEMMA QueueFits ==
    ASSUME Queued
    PROVE  Len(queue) <= Cardinality(Clients)
<1> DEFINE n == Len(queue)
<1>1. n \in Nat /\ queue \in [1 .. n -> Clients]
  BY DEF Queued
<1>2. queue \in Injection(1 .. n, Clients)
  BY <1>1 DEF Queued, Injection, IsInjective
<1>3. Cardinality(1 .. n) <= Cardinality(Clients)
  BY <1>2, FS_Injection, ClientsAssumption
<1>4. Cardinality(1 .. n) = n
  BY <1>1, FS_Interval
<1> QED
  BY <1>3, <1>4

(* The counter is in its type and never more than the coins that went in, be
   it by the keyboard or the network (chuni_io_jvs_read_coin_counter).     *)
THEOREM CoinsAreCounted == Spec => []CoinsCounted
<1>1. IInv => CoinsCounted
  <2> SUFFICES ASSUME IInv PROVE CoinsCounted
    OBVIOUS
  <2>1. Len(queue) <= Cardinality(Clients) /\ queue \in Seq(Clients)
    BY QueueFits DEF IInv, Queued
  <2>2. TypeOK
    BY <2>1 DEF IInv, Types, TypeOK
  <2>3. coins <= credits
    BY DEF IInv, Types, Justified
  <2> QED
    BY <2>2, <2>3 DEF CoinsCounted, CoinsNeverInvented
<1> QED
  BY <1>1, Invariance, PTL

(* The only step that reports is the end of a poll. *)
LEMMA NewReport ==
    ASSUME IInv, [Next]_vars, NEW c \in Clients, report'[c] \notin {report[c], NoReport}
    PROVE  /\ report'[c] = ReportOf /\ pc = "report"
           /\ io[c] = "pending"
<1> USE DEF ovlVars, pollVars, inputVars, coinVars, ghosts
<1>1. Finish
  BY DEF Next, Poll, vars, Read, TakeReport, Write, Start, LookAtButton, ClearButtons,
         LookAtCoin, PressCoin, ReleaseCoin, Packet, IInv, Types
<1>2. PICK s \in {"SUCCESS", "UNSUCCESSFUL"} : Ovl!Complete(Head(queue), s)
  BY <1>1 DEF Finish
<1>3. io[Head(queue)] = "pending" /\ Head(queue) \in Clients
  BY <1>2, Completed
<1>4. /\ c = Head(queue) /\ report'[c] = ReportOf /\ pc = "report"
  BY <1>1, <1>3 DEF Finish, IInv, Types
<1> QED
  BY <1>3, <1>4

(* As long as the counter fits the byte that a report has for it, no report
   shows fewer coins than one before it; and each has a status that the board
   had since its read (io4_async_poll).                                    *)
THEOREM ReportsAreTrue ==
  ASSUME MaxCredits < 256
  PROVE  Spec => ReportsTrue
<1>1. IInv /\ [Next]_vars
         => [\A c \in Clients :
               report'[c] \notin {report[c], NoReport} => report'[c].coins >= told]_vars
  <2> SUFFICES ASSUME IInv, [Next]_vars,
                      NEW c \in Clients, report'[c] \notin {report[c], NoReport}
               PROVE  report'[c].coins >= told
    OBVIOUS
  <2>1. report'[c] = ReportOf /\ pc = "report"
    BY NewReport
  <2>2. shown = coins /\ shown \in Nat /\ shown < 256
    BY <2>1, BoundsAssumption DEF IInv, Types, Counted
  <2>3. ReportOf.coins = coins
    BY <2>2, Byte DEF ReportOf
  <2> QED
    BY <2>1, <2>3 DEF IInv, Types, Counted
<1>2. IInv /\ [Next]_vars
         => [\A c \in Clients :
               report'[c] \notin {report[c], NoReport} => report'[c].status \in since[c]]_vars
  BY NewReport, Reported DEF IInv, StatusKnown
<1> QED
  BY <1>1, <1>2, Invariance, PTL DEF Spec, ReportsTrue, CounterForward, StatusFresh
=============================================================================
