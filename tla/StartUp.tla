-------------------------------- MODULE StartUp --------------------------------
(***************************************************************************)
(* What a hook does before its game starts: the games' pre_startup         *)
(* functions (dllmain.c of each hook), the parts that they set up one      *)
(* after the other, and the IO DLLs that they bind.                        *)
(*                                                                         *)
(* A part is a sequence of operations.  An operation that fails ends its   *)
(* part, save one whose result the code does not look at (a `?' here); a   *)
(* part that is disabled does nothing; and what the failure of a part does *)
(* to the start is written in each game's function.                        *)
(***************************************************************************)
EXTENDS Naturals, Sequences

VARIABLES
    startGame,   \* the game
    startAt,     \* the part that is next or in progress
    startOp,     \* its operations that are done
    startLib,    \* each IO DLL: whose code its functions are
    startBound,  \* the functions of IO DLLs that are bound
    startUses,   \* the functions that the devices set up so far call
    startFailed, \* a part failed whose failure ends the start (not in the code)
    startEnd     \* "starting", "running", or how the start ended

startVars == <<startGame, startAt, startOp, startLib, startBound, startUses,
               startFailed, startEnd>>

StartTimes(n, op) == [i \in 1 .. n |-> op]
StartPart(ops)    == [ops |-> ops, uses |-> {}]

-----------------------------------------------------------------------------
(* The parts of the platform *)

StartAmVideo == StartPart(<<"reg", "reg", "dll">>)
StartClock   == StartPart(<<"table", "table", "table">>)
StartDns     == StartPart(StartTimes(25, "dns"))
StartHwMon   == StartPart(<<"fd", "push">>)
StartHwReset == StartPart(<<"fd", "push">>)
StartMisc    == StartPart(<<"reg", "reg", "reg", "table">>)
StartNetEnv  == StartPart(<<"table", "table", "table">>)
StartNuSec   == StartPart(<<"fd", "push", "reg">>)
StartPcbId   == StartPart(<<"table">>)
StartVfs     == StartPart(<<"mkdir", "mkdir", "mkdir", "path", "path", "path", "path",
                            "reg">>)

(* The parts of the AMEX board *)
StartDs      == StartPart(<<"push", "dev", "fd">>)
StartEeprom  == StartPart(<<"push", "dev">>)
StartGpio    == StartPart(<<"fd", "push", "dev">>)
StartJvs     == StartPart(<<"push", "dev">>)
StartSram    == StartPart(<<"push", "dev">>)

(* Boards and others that call no IO DLL *)
StartIo4     == StartPart(<<"fd", "push?", "dev">>)
StartSerial  == StartPart(<<"push">>)
StartVfd     == StartPart(<<"push">>)
StartLed     == StartPart(<<"push">>)
StartRfid    == StartPart(<<"push">>)
StartApi     == StartPart(<<"api">>)
StartCommIo  == StartPart(<<"table", "dll?">>)
StartKeychip == StartPart(<<"fd", "table", "push", "dev">>)
StartNamcoJvs == StartPart(<<"dev", "push">>)
StartStrPcb  == StartPart(<<"table", "push">>)
StartBngRw   == StartPart(<<"table">>)
StartPrinter == StartPart(StartTimes(10, "table") \o StartTimes(8, "dll?"))
StartPrinterStd == StartPart(StartTimes(3, "table") \o StartTimes(3, "dll?"))
StartTouch   == StartPart(<<"table">>)

-----------------------------------------------------------------------------
(* The IO DLLs: the functions that each must have *)

StartAimeDll   == {"aime.init", "aime.nfc_poll", "aime.nfc_get_aime_id",
                   "aime.nfc_get_felica_id", "aime.led_set_color"}
StartCarolDll  == {"carol.jvs_init", "carol.jvs_poll", "carol.jvs_read_coin_counter",
                   "carol.touch_init", "carol.controlbd_init"}
StartChuniDll  == {"chuni.jvs_init", "chuni.jvs_poll", "chuni.jvs_read_coin_counter",
                   "chuni.slider_init", "chuni.slider_start", "chuni.slider_stop",
                   "chuni.slider_set_leds"}
StartChusanDll == {"chusan.jvs_init", "chusan.jvs_poll", "chusan.jvs_read_coin_counter",
                   "chusan.slider_init", "chusan.slider_start", "chusan.slider_stop",
                   "chusan.slider_set_leds"}
StartDivaDll   == {"diva.jvs_init", "diva.jvs_poll", "diva.jvs_read_coin_counter",
                   "diva.slider_init", "diva.slider_start", "diva.slider_stop",
                   "diva.slider_set_leds"}
StartFgoDll    == {"fgo.init", "fgo.poll", "fgo.get_opbtns", "fgo.get_gamebtns",
                   "fgo.get_stick", "fgo.get_coin"}
StartIdzDll    == {"idz.jvs_init", "idz.jvs_read_analogs", "idz.jvs_read_buttons",
                   "idz.jvs_read_shifter", "idz.jvs_read_coin_counter"}
StartMu3Dll    == {"mu3.init", "mu3.poll", "mu3.get_opbtns", "mu3.get_gamebtns",
                   "mu3.get_lever"}

StartFunctions ==
    [aime_dll |-> StartAimeDll, carol_dll |-> StartCarolDll, chuni_dll |-> StartChuniDll,
     chusan_dll |-> StartChusanDll, diva_dll |-> StartDivaDll, fgo_dll |-> StartFgoDll,
     idz_dll |-> StartIdzDll, mu3_dll |-> StartMu3Dll]
StartLibraries == DOMAIN StartFunctions

StartBindDll == StartPart(<<"load", "version", "bind">>)

(* The devices that call them, with the functions that they call *)

StartSgReader == [ops |-> <<"generation", "push">>,
                  uses |-> {"aime.init", "aime.nfc_poll", "aime.nfc_get_aime_id",
                            "aime.nfc_get_felica_id", "aime.led_set_color"}]
StartCarolJvs == [ops |-> StartJvs.ops,
                  uses |-> {"carol.jvs_init", "carol.jvs_poll",
                            "carol.jvs_read_coin_counter"}]
StartCarolTouch == [ops |-> <<"push">>, uses |-> {"carol.touch_init"}]
StartControlBd  == [ops |-> <<"push">>, uses |-> {"carol.controlbd_init"}]
StartChuniJvs == [ops |-> StartJvs.ops,
                  uses |-> {"chuni.jvs_init", "chuni.jvs_poll",
                            "chuni.jvs_read_coin_counter"}]
StartChuniSlider == [ops |-> <<"push">>,
                     uses |-> {"chuni.slider_init", "chuni.slider_start",
                               "chuni.slider_stop", "chuni.slider_set_leds"}]
StartChusanIo4 == [ops |-> <<"call">>,
                   uses |-> {"chusan.jvs_init", "chusan.jvs_poll",
                             "chusan.jvs_read_coin_counter"}]
StartChusanSlider == [ops |-> <<"push">>,
                      uses |-> {"chusan.slider_init", "chusan.slider_start",
                                "chusan.slider_stop", "chusan.slider_set_leds"}]
StartDivaJvs == [ops |-> StartJvs.ops,
                 uses |-> {"diva.jvs_init", "diva.jvs_poll", "diva.jvs_read_coin_counter"}]
StartDivaSlider == [ops |-> <<"push">>,
                    uses |-> {"diva.slider_init", "diva.slider_start",
                              "diva.slider_stop", "diva.slider_set_leds"}]
StartFgoIo4 == [ops |-> StartIo4.ops \o <<"call">>,
                uses |-> {"fgo.init", "fgo.poll", "fgo.get_opbtns", "fgo.get_gamebtns",
                          "fgo.get_stick", "fgo.get_coin"}]
StartIdzJvs == [ops |-> StartJvs.ops,
                uses |-> {"idz.jvs_init", "idz.jvs_read_analogs", "idz.jvs_read_buttons",
                          "idz.jvs_read_shifter", "idz.jvs_read_coin_counter"}]
StartMu3Io4 == [ops |-> StartIo4.ops \o <<"call">>,
                uses |-> {"mu3.init", "mu3.poll", "mu3.get_opbtns", "mu3.get_gamebtns",
                          "mu3.get_lever"}]

StartParts ==
    [amvideo |-> StartAmVideo, clock |-> StartClock, dns |-> StartDns,
     hwmon |-> StartHwMon, hwreset |-> StartHwReset, misc |-> StartMisc,
     netenv |-> StartNetEnv, nusec |-> StartNuSec, pcbid |-> StartPcbId,
     vfs |-> StartVfs, ds |-> StartDs, eeprom |-> StartEeprom, gpio |-> StartGpio,
     jvs |-> StartJvs, sram |-> StartSram, io4 |-> StartIo4, vfd |-> StartVfd,
     led |-> StartLed, rfid |-> StartRfid, api |-> StartApi, commio |-> StartCommIo,
     keychip |-> StartKeychip, namco_jvs |-> StartNamcoJvs, strpcb |-> StartStrPcb,
     bngrw |-> StartBngRw,
     printer |-> StartPrinter, printer_std |-> StartPrinterStd, touch |-> StartTouch,
     sg_reader |-> StartSgReader, carol_jvs |-> StartCarolJvs,
     carol_touch |-> StartCarolTouch, controlbd |-> StartControlBd,
     chuni_jvs |-> StartChuniJvs, chuni_slider |-> StartChuniSlider,
     chusan_io4 |-> StartChusanIo4, chusan_slider |-> StartChusanSlider,
     diva_jvs |-> StartDivaJvs, diva_slider |-> StartDivaSlider,
     fgo_io4 |-> StartFgoIo4, idz_jvs |-> StartIdzJvs, mu3_io4 |-> StartMu3Io4,
     aime_dll |-> StartBindDll, carol_dll |-> StartBindDll, chuni_dll |-> StartBindDll,
     chusan_dll |-> StartBindDll, diva_dll |-> StartBindDll, fgo_dll |-> StartBindDll,
     idz_dll |-> StartBindDll, mu3_dll |-> StartBindDll]

(* Parts without an `enable' of their own.  The reader's DLL is bound as a
   part of the reader: here it comes just before it.                       *)
StartAlways == StartLibraries \cup {"clock", "chusan_io4", "namco_jvs", "strpcb"}

-----------------------------------------------------------------------------
(* The games: each part with what its failure leads to: the process ends
   ("exit"), pre_startup returns an error ("return"), or nothing ("go").   *)

StartAll(parts, failure) == [i \in 1 .. Len(parts) |-> <<parts[i], failure>>]

(* platform_hook_init and amex_hook_init *)
StartPlatform == <<"amvideo", "clock", "dns", "hwmon", "hwreset", "misc", "netenv",
                   "nusec", "pcbid", "vfs">>
StartAmex(jvs) == <<"ds", "eeprom", "gpio", jvs, "sram">>

StartCarol == StartAll(StartPlatform \o <<"carol_dll">> \o StartAmex("carol_jvs")
                       \o <<"aime_dll", "sg_reader", "carol_touch", "controlbd">>, "exit")
StartChuni == StartAll(StartPlatform \o <<"chuni_dll">> \o StartAmex("chuni_jvs")
                       \o <<"chuni_slider", "led", "aime_dll", "sg_reader">>, "exit")
              \o StartAll(<<"api">>, "return")
StartChusan == StartAll(StartPlatform \o <<"chusan_dll", "chusan_io4">>, "exit")
               \o StartAll(<<"io4">>, "go")
               \o StartAll(<<"chusan_slider", "aime_dll", "sg_reader", "vfd", "led">>,
                           "exit")
StartCxb == StartAll(StartPlatform \o StartAmex("jvs")
                     \o <<"aime_dll", "sg_reader", "commio", "api">>, "return")
StartDiva == StartAll(StartPlatform \o <<"diva_dll">> \o StartAmex("diva_jvs")
                      \o <<"aime_dll", "sg_reader", "diva_slider">>, "exit")
StartFgo == StartAll(<<"touch", "printer">>, "go")
            \o StartAll(StartPlatform \o <<"aime_dll", "sg_reader", "vfd", "fgo_dll",
                                           "fgo_io4", "rfid", "led">>, "exit")
StartIdz == StartAll(StartPlatform \o <<"idz_dll">> \o StartAmex("idz_jvs")
                     \o <<"aime_dll", "sg_reader">>, "exit")
StartKemono == StartAll(<<"printer_std">>, "go")
StartMini == StartAll(<<"touch", "vfd">>, "go")
             \o StartAll(StartAmex("jvs") \o <<"clock">> \o StartPlatform
                         \o <<"aime_dll", "sg_reader", "ds", "led", "io4">>, "exit")
StartMk == StartAll(<<"dns", "netenv", "keychip", "clock", "namco_jvs", "strpcb",
                      "bngrw">>, "return")
StartMu3 == StartAll(StartPlatform, "exit") \o StartAll(<<"gpio">>, "return")
            \o StartAll(<<"aime_dll", "sg_reader", "vfd", "mu3_dll", "mu3_io4">>, "exit")
            \o StartAll(<<"api">>, "return")
StartSync == StartAll(StartPlatform, "return") \o StartAll(<<"keychip", "api">>, "go")

StartGames ==
    [carol |-> StartCarol, chuni |-> StartChuni, chusan |-> StartChusan,
     cxb |-> StartCxb, diva |-> StartDiva, fgo |-> StartFgo, idz |-> StartIdz,
     kemono |-> StartKemono, mini |-> StartMini, mk |-> StartMk, mu3 |-> StartMu3,
     sync |-> StartSync]

StartTypeOK ==
    /\ startGame \in DOMAIN StartGames
    /\ startAt \in 1 .. Len(StartGames[startGame]) + 1 /\ startOp \in Nat
    /\ startLib \in [StartLibraries -> {"none", "own", "loaded", "freed"}]
    /\ startUses \cup startBound \subseteq UNION {StartFunctions[l] : l \in StartLibraries}
    /\ startFailed \in BOOLEAN
    /\ startEnd \in {"starting", "running", "exit", "return"}

StartInit ==
    /\ startGame \in DOMAIN StartGames
    /\ startAt = 1 /\ startOp = 0
    /\ startLib = [l \in StartLibraries |-> "none"]
    /\ startBound = {} /\ startUses = {}
    /\ startFailed = FALSE /\ startEnd = "starting"

-----------------------------------------------------------------------------
(* Seeded faults: what a definition below might have been by mistake; each one
   breaks a property, and none is part of the specification.               *)

(* A custom DLL is freed at the end, whether it was bound or not. *)
StartReleased_Always(lib) == "freed"

(* A failure deep in the platform is not passed on. *)
StartReaction_Swallowed ==
    IF StartGames[startGame][startAt][1] \in {"nusec", "aime_dll"} THEN "go"
    ELSE StartGames[startGame][startAt][2]

-----------------------------------------------------------------------------
(* Steps *)

StartName     == StartGames[startGame][startAt][1]
StartReaction == StartGames[startGame][startAt][2]
StartOps      == StartParts[StartName].ops
StartNextOp   == StartOps[startOp + 1]
StartGoing    == startEnd = "starting" /\ startAt <= Len(StartGames[startGame])
StartInPart   == StartGoing /\ startOp < Len(StartOps)

(* S_FALSE: the part is disabled; with the reader, its DLL is left out too,
   which makes no difference to what the other parts find.                 *)
StartSkip ==
    /\ StartGoing /\ startOp = 0 /\ StartName \notin StartAlways
    /\ startAt' = startAt + 1
    /\ UNCHANGED <<startGame, startOp, startLib, startBound, startUses, startFailed,
                   startEnd>>

(* A hook is put in place; nothing is tried twice. *)
StartHook ==
    /\ StartInPart /\ StartNextOp \notin {"load", "version", "bind"}
    /\ startOp' = startOp + 1
    /\ UNCHANGED <<startGame, startAt, startLib, startBound, startUses, startFailed,
                   startEnd>>

(* ..._dll_init: without a path the functions are the hook's own, otherwise
   those of a library that is loaded for them.                             *)
StartLoad ==
    /\ StartInPart /\ StartNextOp = "load"
    /\ \E whose \in {"own", "loaded"} :
          startLib' = [startLib EXCEPT ![StartName] = whose]
    /\ startOp' = startOp + 1
    /\ UNCHANGED <<startGame, startAt, startBound, startUses, startFailed, startEnd>>

StartVersion ==
    /\ StartInPart /\ StartNextOp = "version"
    /\ startOp' = startOp + 1
    /\ UNCHANGED <<startGame, startAt, startLib, startBound, startUses, startFailed,
                   startEnd>>

(* What becomes of the library: owned = NULL keeps it. *)
StartReleased(lib) == startLib[lib]

StartBind ==
    /\ StartInPart /\ StartNextOp = "bind"
    /\ startBound' = startBound \cup StartFunctions[StartName]
    /\ startLib' = [startLib EXCEPT ![StartName] = StartReleased(StartName)]
    /\ startOp' = startOp + 1
    /\ UNCHANGED <<startGame, startAt, startUses, startFailed, startEnd>>

(* A part is complete: its device may call what it calls from now on. *)
StartDone ==
    /\ StartGoing /\ startOp = Len(StartOps)
    /\ startUses' = startUses \cup StartParts[StartName].uses
    /\ startAt' = startAt + 1 /\ startOp' = 0
    /\ UNCHANGED <<startGame, startLib, startBound, startFailed, startEnd>>

(* An operation fails.  A library that was loaded is freed, and functions that
   were found before the one that is missing stay bound.                   *)
StartFails ==
    /\ StartInPart /\ StartNextOp \notin {"table", "dll?", "push?"}
    /\ startFailed' = (startFailed \/ StartGames[startGame][startAt][2] # "go")
    /\ IF StartReaction = "go"
       THEN startAt' = startAt + 1 /\ startOp' = 0 /\ UNCHANGED startEnd
       ELSE startEnd' = StartReaction /\ UNCHANGED <<startAt, startOp>>
    /\ startLib' = IF StartName \in StartLibraries /\ startLib[StartName] = "loaded"
                   THEN [startLib EXCEPT ![StartName] = "freed"] ELSE startLib
    /\ UNCHANGED <<startGame, startBound, startUses>>

(* The jump to the game's own entry point *)
StartRun ==
    /\ startEnd = "starting" /\ startAt > Len(StartGames[startGame])
    /\ startEnd' = "running"
    /\ UNCHANGED <<startGame, startAt, startOp, startLib, startBound, startUses,
                   startFailed>>

StartNext == \/ StartSkip \/ StartHook \/ StartLoad \/ StartVersion \/ StartBind
             \/ StartDone \/ StartFails \/ StartRun

StartSpec == StartInit /\ [][StartNext]_startVars

-----------------------------------------------------------------------------
(* Properties *)

(* A game runs only if nothing failed whose failure is to end the start, and
   then every function of an IO DLL that its devices may call is bound. *)
StartRunsWhole ==
    startEnd = "running" => ~startFailed /\ startUses \subseteq startBound

(* A device that is set up, or calls its DLL while it is set up, finds the
   functions bound, to code that is still loaded.                          *)
StartCallsLive ==
    LET calls == IF StartInPart /\ StartNextOp = "call"
                 THEN StartParts[StartName].uses ELSE {}
    IN  /\ startUses \cup calls \subseteq startBound
        /\ \A l \in StartLibraries :
              startLib[l] = "freed" => StartFunctions[l] \cap (startUses \cup calls) = {}
=============================================================================
