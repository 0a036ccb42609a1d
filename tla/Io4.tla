--------------------------------- MODULE Io4 ---------------------------------
(***************************************************************************)
(* board/io4.c, the USB I/O board of the ALLS and Nu games, with the input *)
(* it polls: chusanhook/io4.c, the default backend chuniio/chuniio.c, and  *)
(* the buttons the network API of api/api.c presses.                       *)
(*                                                                         *)
(* Reads go through the worker of util/async.c.  Async implements          *)
(* Overlapped, so this module takes the requests from Overlapped's queue   *)
(* and adds what the task does.  The worker polls while game threads write *)
(* commands to the board and the API's thread presses buttons; none of     *)
(* these take a lock.                                                      *)
(***************************************************************************)
EXTENDS Integers, FiniteSets, Sequences

CONSTANTS Clients,     \* game threads that read reports
          Final,       \* the final NTSTATUS values of a read
          NoReport,    \* a read has no report
          Beams,       \* how far the simulated hand rises
          MaxCredits   \* bound on the presses of the coin key and API credits

ASSUME ClientsAssumption == IsFiniteSet(Clients)
ASSUME BoundsAssumption == Beams \in Nat /\ MaxCredits \in Nat
ASSUME FinalAssumption == /\ {"SUCCESS", "UNSUCCESSFUL"} \subseteq Final
                          /\ {"idle", "pending"} \cap Final = {}

Buttons  == {"test", "service", "credit"}
Statuses == {2, 0, 48}            \* io4_system_status: 0x02, 0x00, 0x30

VARIABLES
    io, queue,   \* the overlapped reads, see Overlapped
    pc,          \* where the worker's poll is
    clearing,    \* it is about to call api_clear_buttons
    shown,       \* the coin counter it read
    api,         \* the buttons whose api_..._button is set
    key,         \* the coin key is held down
    tapped,      \* the coin key was pressed since it was last looked at
    coin,        \* chuni_io_coin: the coin was pressed at the last look
    coins,       \* chuni_io_coins
    hand,        \* chuni_io_hand_pos
    status,      \* io4_system_status
    report,      \* what each finished read was given
    credits,     \* presses of the key and API credits (not in the code)
    told,        \* the coins in the latest report (not in the code)
    since        \* statuses the board had since a read began (not in the code)

ovlVars   == <<io, queue>>
pollVars  == <<pc, clearing, shown>>
inputVars == <<api, key, tapped, credits>>
coinVars  == <<coin, coins>>
ghosts    == <<told, since>>
vars == <<ovlVars, pollVars, inputVars, coinVars, hand, status, report, ghosts>>

Ovl == INSTANCE Overlapped

Reports == [status : Statuses, coins : 0 .. MaxCredits]

TypeOK ==
    /\ io \in [Clients -> {"idle", "pending"} \cup Final]
    /\ queue \in Seq(Clients) /\ Len(queue) <= Cardinality(Clients)
    /\ pc \in {"idle", "report"} \cup Buttons
    /\ clearing \in BOOLEAN
    /\ shown \in 0 .. MaxCredits
    /\ api \subseteq Buttons
    /\ key \in BOOLEAN /\ tapped \in BOOLEAN /\ coin \in BOOLEAN
    /\ coins \in 0 .. MaxCredits /\ credits \in 0 .. MaxCredits
    /\ hand \in 0 .. Beams
    /\ status \in Statuses
    /\ report \in [Clients -> Reports \cup {NoReport}]
    /\ told \in 0 .. MaxCredits
    /\ since \in [Clients -> SUBSET Statuses]

Init ==
    /\ Ovl!Init
    /\ pc = "idle" /\ clearing = FALSE /\ shown = 0
    /\ api = {} /\ key = FALSE /\ tapped = FALSE /\ credits = 0
    /\ coin = FALSE /\ coins = 0 /\ hand = 0
    /\ status = 2
    /\ report = [c \in Clients |-> NoReport]
    /\ told = 0
    /\ since = [c \in Clients |-> {}]

-----------------------------------------------------------------------------
(* Seeded faults: steps as a plausible bug would make them.  No step of the
   specification uses them.                                                *)

(* The counter is not debounced: a coin held down counts at every look. *)
CoinDown_NoDebounce ==
    coin' = TRUE /\ coins' = coins + 1 /\ clearing' = TRUE

(* The counter is incremented once more than it should be. *)
CoinDown_TwoPerCoin == IF coin
    THEN UNCHANGED <<coin, coins, clearing>>
    ELSE coin' = TRUE /\ coins' = coins + 2 /\ clearing' = TRUE

(* The counter starts again when the coin is released. *)
CoinUp_Resets == coin' = FALSE /\ coins' = 0 /\ UNCHANGED clearing

(* The report is given the status it had when the board was set up. *)
ReportOf_Cached == [status |-> 2, coins |-> shown]

(* A poll that fails leaves its request in the queue, if it is not alone. *)
Finish_Forgets ==
    /\ pc = "report" /\ ~clearing /\ pc' = "idle"
    /\ IF Len(queue) > 1 THEN UNCHANGED ovlVars
                         ELSE Ovl!Complete(Head(queue), "UNSUCCESSFUL")
    /\ shown' = 0
    /\ UNCHANGED <<clearing, inputVars, coinVars, hand, status, report, ghosts>>

-----------------------------------------------------------------------------
(* The game's threads *)

(* io4_handle_read, or IOCTL_HID_GET_INPUT_REPORT: async_submit *)
Read(c) ==
    /\ Ovl!Accept(c)
    /\ since' = [since EXCEPT ![c] = {status}]
    /\ UNCHANGED <<pollVars, inputVars, coinVars, hand, status, report, told>>

(* GetOverlappedResult *)
TakeReport(c) ==
    /\ Ovl!Retire(c)
    /\ report' = [report EXCEPT ![c] = NoReport]
    /\ UNCHANGED <<pollVars, inputVars, coinVars, hand, status, ghosts>>

(* io4_handle_write, or IOCTL_HID_SET_OUTPUT_REPORT: the commands that set
   the status.  The others change nothing, whatever they return.           *)
Write ==
    /\ \E s \in {0, 48} : status' = s
    /\ since' = [c \in Clients |-> IF io[c] = "pending"
                                   THEN since[c] \cup {status'} ELSE since[c]]
    /\ UNCHANGED <<ovlVars, pollVars, inputVars, coinVars, hand, report, told>>

-----------------------------------------------------------------------------
(* io4_async_poll, on the worker's thread *)

(* A task: the request is the oldest in the queue. *)
Start ==
    /\ pc = "idle" /\ queue # <<>>
    /\ pc' = "test"
    /\ UNCHANGED <<ovlVars, clearing, shown, inputVars, coinVars, hand,
                   status, report, ghosts>>

(* chuni_io_jvs_poll looks at the test, then at the service button, each of
   which the keyboard or the API can press, and then moves the hand.       *)
LookAtButton(b) ==
    /\ pc = b /\ ~clearing
    /\ \E down \in BOOLEAN : clearing' = (down \/ b \in api)
    /\ pc' = IF b = "test" THEN "service" ELSE "credit"
    /\ \/ b = "test" /\ UNCHANGED hand
       \/ /\ b = "service"
          /\ hand' \in 0 .. Beams \cap {hand - 1, hand, hand + 1}
    /\ UNCHANGED <<ovlVars, shown, inputVars, coinVars, status, report, ghosts>>

(* api_clear_buttons: all three of them, whichever was seen *)
ClearButtons ==
    /\ clearing /\ clearing' = FALSE
    /\ api' = {}
    /\ UNCHANGED <<ovlVars, pc, shown, key, tapped, credits,
                   coinVars, hand, status, report, ghosts>>

(* A coin seen now counts unless it was there at the last look too. *)
CoinDown ==
    IF coin THEN UNCHANGED <<coin, coins, clearing>>
            ELSE coin' = TRUE /\ coins' = coins + 1 /\ clearing' = TRUE

CoinUp == coin' = FALSE /\ UNCHANGED <<coins, clearing>>

(* chuni_io_jvs_read_coin_counter.  GetAsyncKeyState is not zero when the
   key is down, or went down since the last call.                          *)
LookAtCoin ==
    /\ pc = "credit" /\ ~clearing
    /\ IF key \/ tapped \/ "credit" \in api THEN CoinDown ELSE CoinUp
    /\ tapped' = FALSE
    /\ shown' = coins'
    /\ pc' = "report"
    /\ UNCHANGED <<ovlVars, api, key, credits, hand, status, report,
                   ghosts>>

(* The IN report: the status is read as the report is put together. *)
ReportOf == [status |-> status, coins |-> shown % 256]

(* iobuf_write fails on a buffer that is too small, and so does the read. *)
Finish ==
    /\ pc = "report" /\ ~clearing
    /\ LET c == Head(queue)
       IN /\ \/ /\ Ovl!Complete(c, "SUCCESS")
                /\ report' = [report EXCEPT ![c] = ReportOf]
                /\ told' = ReportOf.coins
             \/ /\ Ovl!Complete(c, "UNSUCCESSFUL")
                /\ UNCHANGED <<report, told>>
          /\ since' = [since EXCEPT ![c] = {}]
    /\ pc' = "idle" /\ shown' = 0
    /\ UNCHANGED <<clearing, inputVars, coinVars, hand, status>>

Poll == \/ Start \/ LookAtButton("test") \/ LookAtButton("service")
        \/ ClearButtons \/ LookAtCoin \/ Finish

-----------------------------------------------------------------------------
(* The player and the network *)

PressCoin ==
    /\ ~key /\ credits < MaxCredits
    /\ key' = TRUE /\ tapped' = TRUE
    /\ credits' = credits + 1
    /\ UNCHANGED <<ovlVars, pollVars, api, coinVars, hand, status, report, ghosts>>

ReleaseCoin ==
    /\ key /\ key' = FALSE
    /\ UNCHANGED <<ovlVars, pollVars, api, tapped, credits, coinVars, hand,
                   status, report, ghosts>>

(* api_parse on the API's thread, for the packets that press a button *)
Packet(b) ==
    /\ b = "credit" => credits < MaxCredits
    /\ api' = api \cup {b}
    /\ credits' = IF b = "credit" THEN credits + 1 ELSE credits
    /\ UNCHANGED <<ovlVars, pollVars, key, tapped, coinVars, hand, status,
                   report, ghosts>>

-----------------------------------------------------------------------------
Next == \/ \E c \in Clients : Read(c) \/ TakeReport(c)
        \/ Write
        \/ Poll
        \/ PressCoin \/ ReleaseCoin
        \/ \E b \in Buttons : Packet(b)

(* The worker is scheduled, as Async shows; the games poll without end. *)
Fairness == /\ WF_vars(Poll)
            /\ \A c \in Clients : WF_vars(Read(c)) /\ WF_vars(TakeReport(c))

Spec == Init /\ [][Next]_vars /\ Fairness

-----------------------------------------------------------------------------
(* Properties *)

(* The counter never exceeds the coins that went in, from the keyboard and
   from the network together: a held key, a flag the API has not yet cleared
   and a poll that straddles a release do not count a coin twice.          *)
CoinsNeverInvented == coins <= credits

(* No report shows fewer coins than the one before it, whichever reader each
   went to: the game credits the difference of two counts.                 *)
CounterForward ==
    [][\A c \in Clients :
         report'[c] \notin {report[c], NoReport} => report'[c].coins >= told]_vars

(* A report carries a status the board had at some time between the read and
   its completion, although writes do not wait for the poll.               *)
StatusFresh ==
    [][\A c \in Clients :
         report'[c] \notin {report[c], NoReport} =>
            report'[c].status \in since[c]]_vars

(* Every read that was accepted completes. *)
ReadsComplete == \A c \in Clients : io[c] = "pending" ~> io[c] # "pending"

(* "This value should be incremented for every coin detected by the coin
   acceptor mechanism": a credit sent over the network does not wait in the
   flag for ever while the game polls, since it would be counted, and the
   flag cleared, by the next look.                                         *)
CreditsSettle == "credit" \in api ~> "credit" \notin api

(* Coins are counted in their type and no oftener than they go in
   (chuni_io_jvs_read_coin_counter).                                       *)
CoinsCounted == TypeOK /\ CoinsNeverInvented

(* Reports say what is: the counter in them does not go back, and the status
   is one of the time of their read (io4_async_poll).                      *)
ReportsTrue == CounterForward /\ StatusFresh
=============================================================================
