--------------------------------- MODULE Amex ---------------------------------
(***************************************************************************)
(* The devices of the AMEX board (amex/): two that answer from memory, the *)
(* key chip and the switches (ds.c, gpio.c), whose handle is opened once,  *)
(* at start-up, and two that stand for a file, the EEPROM and the battery- *)
(* backed memory (eeprom.c, sram.c over nvram.c), whose file is opened and *)
(* closed with the device.  Nothing here takes a lock: any thread of the   *)
(* game may be between any two steps of an open or a close.                *)
(***************************************************************************)
EXTENDS Naturals, FiniteSets

CONSTANTS
    AmexThreads,   \* threads of the game
    AmexStores,    \* the devices with a file: "eeprom", "sram"
    AmexMemories,  \* the devices without one: "ds", "gpio"
    AmexHandles,   \* handles that Windows gives out
    AmexNone,      \* NULL
    AmexPresses    \* bound: presses of a button that come by the network

ASSUME AmexNoneAssumption == AmexNone \notin AmexHandles
ASSUME AmexDevicesAssumption ==
    /\ AmexStores \cap AmexMemories = {}
    /\ {"free", "other"} \cap (AmexStores \cup AmexMemories) = {}

VARIABLES
    amexFile,    \* eeprom_file, sram_file, ds_fd, gpio_fd
    amexKernel,  \* what each handle is open to, for Windows
    amexSize,    \* the length of each store's file
    amexThread,  \* what each thread is doing
    amexGame,    \* the handles that the game has
    amexButtons, \* api_test_button, api_service_button
    amexPressed, \* presses that came by the network (not in the code)
    amexSeen     \* presses that each thread was told of (not in the code)

amexVars == <<amexFile, amexKernel, amexSize, amexThread, amexGame, amexButtons,
              amexPressed, amexSeen>>

AmexDevices == AmexStores \cup AmexMemories
AmexSwitches == {"test", "service"}
AmexIdle == [at |-> "idle", device |-> AmexNone, fd |-> AmexNone]

AmexTypeOK ==
    /\ amexFile \in [AmexDevices -> AmexHandles \cup {AmexNone}]
    /\ amexKernel \in [AmexHandles -> AmexDevices \cup {"free", "other"}]
    /\ amexSize \in [AmexStores -> {"absent", "wrong", "right"}]
    /\ amexThread \in [AmexThreads ->
                          [at : {"idle", "checked", "cleared", "created", "sized",
                                 "published", "closing", "test1", "test2",
                                 "service", "service1", "service2"},
                           device : AmexDevices \cup {AmexNone},
                           fd : AmexHandles \cup {AmexNone}]]
    /\ amexGame \subseteq AmexHandles
    /\ amexButtons \subseteq AmexSwitches

(* ds_hook_init and gpio_hook_init have opened their handles with
   iohook_open_nul_fd.                                                     *)
AmexInit ==
    /\ \E nul \in [AmexMemories -> AmexHandles] :
          /\ \A d, e \in AmexMemories : nul[d] = nul[e] => d = e
          /\ amexFile = [d \in AmexDevices |->
                            IF d \in AmexMemories THEN nul[d] ELSE AmexNone]
          /\ amexKernel = [h \in AmexHandles |->
                              IF \E d \in AmexMemories : nul[d] = h
                              THEN CHOOSE d \in AmexMemories : nul[d] = h ELSE "free"]
    /\ amexSize \in [AmexStores -> {"absent", "wrong", "right"}]
    /\ amexThread = [t \in AmexThreads |-> AmexIdle]
    /\ amexGame = {} /\ amexButtons = {}
    /\ amexPressed = [s \in AmexSwitches |-> 0]
    /\ amexSeen = [t \in AmexThreads |-> [s \in AmexSwitches |-> 0]]

amexPanel == <<amexButtons, amexPressed, amexSeen>>

AmexGoes(t, at, fd) ==
    amexThread' = [amexThread EXCEPT ![t].at = at, ![t].fd = fd]

-----------------------------------------------------------------------------
(* Seeded faults: what a definition below might have been by mistake; each one
   breaks a property, and none is part of the specification.               *)

(* The close does not reset the device's handle. *)
AmexForgotten_NotReset(device) == amexFile

(* Reading the switches leaves the network's buttons pressed. *)
AmexUnpressed_Kept(s) == amexButtons

(* A file that is there is taken to have the right length. *)
AmexResized_NewOnly(size) == IF size = "absent" THEN "right" ELSE size

-----------------------------------------------------------------------------
(* Opening *)

(* ds_handle_open, gpio_handle_open: every open gets the one handle. *)
AmexOpenMemory(t, d) ==
    /\ amexThread[t].at = "idle" /\ d \in AmexMemories
    /\ amexGame' = amexGame \cup {amexFile[d]}
    /\ UNCHANGED <<amexFile, amexKernel, amexSize, amexThread, amexPanel>>

(* eeprom_handle_open, sram_handle_open: a device that is open already is
   refused with ERROR_SHARING_VIOLATION, and nothing changes.              *)
AmexOpenStore(t, d) ==
    /\ amexThread[t].at = "idle" /\ d \in AmexStores
    /\ amexFile[d] = AmexNone
    /\ amexThread' = [amexThread EXCEPT ![t] =
                         [at |-> "checked", device |-> d, fd |-> AmexNone]]
    /\ UNCHANGED <<amexFile, amexKernel, amexSize, amexGame, amexPanel>>

(* nvram_open_file begins with *out = NULL ... *)
AmexClear(t) ==
    /\ amexThread[t].at = "checked"
    /\ amexFile' = [amexFile EXCEPT ![amexThread[t].device] = AmexNone]
    /\ AmexGoes(t, "cleared", AmexNone)
    /\ UNCHANGED <<amexKernel, amexSize, amexGame, amexPanel>>

(* ... creates or opens the file, which others may read but not write ... *)
AmexCreate(t) ==
    LET d == amexThread[t].device IN
    /\ amexThread[t].at = "cleared"
    /\ IF \E h \in AmexHandles : amexKernel[h] = d
       THEN /\ amexThread' = [amexThread EXCEPT ![t] = AmexIdle]
            /\ UNCHANGED amexKernel
       ELSE \E h \in AmexHandles :
               /\ amexKernel[h] = "free"
               /\ amexKernel' = [amexKernel EXCEPT ![h] = d]
               /\ AmexGoes(t, "created", h)
    /\ UNCHANGED <<amexFile, amexSize, amexGame, amexPanel>>

(* ... gives it the length of the device ... *)
AmexResized(size) == "right"

AmexResize(t) ==
    LET d == amexThread[t].device IN
    /\ amexThread[t].at = "created"
    /\ amexSize' = [amexSize EXCEPT ![d] = AmexResized(amexSize[d])]
    /\ AmexGoes(t, "sized", amexThread[t].fd)
    /\ UNCHANGED <<amexFile, amexKernel, amexGame, amexPanel>>

(* ... or closes it again when that fails, ... *)
AmexResizeFails(t) ==
    /\ amexThread[t].at = "created"
    /\ amexSize[amexThread[t].device] # "right"
    /\ amexKernel' = [amexKernel EXCEPT ![amexThread[t].fd] = "free"]
    /\ amexSize' = [amexSize EXCEPT ![amexThread[t].device] = "wrong"]
    /\ amexThread' = [amexThread EXCEPT ![t] = AmexIdle]
    /\ UNCHANGED <<amexFile, amexGame, amexPanel>>

(* ... and ends with *out = file. *)
AmexPublish(t) ==
    /\ amexThread[t].at = "sized"
    /\ amexFile' = [amexFile EXCEPT ![amexThread[t].device] = amexThread[t].fd]
    /\ AmexGoes(t, "published", amexThread[t].fd)
    /\ UNCHANGED <<amexKernel, amexSize, amexGame, amexPanel>>

(* The handler answers with what the device's variable holds by now: NULL,
   when another open has got as far as AmexClear.                          *)
AmexAnswer(t) ==
    LET fd == amexFile[amexThread[t].device] IN
    /\ amexThread[t].at = "published"
    /\ amexGame' = amexGame \cup ({fd} \ {AmexNone})
    /\ amexThread' = [amexThread EXCEPT ![t] = AmexIdle]
    /\ UNCHANGED <<amexFile, amexKernel, amexSize, amexPanel>>

(* A file of the game's own. *)
AmexOpenOther(t) ==
    /\ amexThread[t].at = "idle"
    /\ \E h \in AmexHandles :
          /\ amexKernel[h] = "free"
          /\ amexKernel' = [amexKernel EXCEPT ![h] = "other"]
          /\ amexGame' = amexGame \cup {h}
    /\ UNCHANGED <<amexFile, amexSize, amexThread, amexPanel>>

-----------------------------------------------------------------------------
(* The handlers that take an IRP other than an open by its handle *)

AmexOwners(fd) == {d \in AmexDevices : amexFile[d] = fd}

AmexForgotten(device) == [amexFile EXCEPT ![device] = AmexNone]

(* eeprom_handle_close, sram_handle_close: the variable is reset before
   Windows closes the handle; a close that no handler takes goes there at
   once, and one of a device without a file goes no further.               *)
AmexClose(t, fd) ==
    /\ amexThread[t].at = "idle" /\ fd \in amexGame
    /\ amexGame' = amexGame \ {fd}
    /\ IF AmexOwners(fd) \cap AmexMemories # {}
       THEN UNCHANGED <<amexFile, amexThread>>
       ELSE /\ amexThread' = [amexThread EXCEPT ![t] =
                                 [at |-> "closing", device |-> AmexNone, fd |-> fd]]
            /\ IF AmexOwners(fd) = {} THEN UNCHANGED amexFile
               ELSE amexFile' = AmexForgotten(CHOOSE d \in AmexOwners(fd) : TRUE)
    /\ UNCHANGED <<amexKernel, amexSize, amexPanel>>

AmexCloseHandle(t) ==
    /\ amexThread[t].at = "closing"
    /\ amexKernel' = [amexKernel EXCEPT ![amexThread[t].fd] = "free"]
    /\ amexThread' = [amexThread EXCEPT ![t] = AmexIdle]
    /\ UNCHANGED <<amexFile, amexSize, amexGame, amexPanel>>

-----------------------------------------------------------------------------
(* The switches *)

(* gpio_ioctl_get_psw looks for a switch: its key, and only while that is up
   the network's button.                                                   *)
AmexLook(t, s, from, down, up) ==
    /\ amexThread[t].at = from
    /\ \/ /\ s \in amexButtons
          /\ amexSeen' = [amexSeen EXCEPT ![t][s] = @ + 1]
          /\ AmexGoes(t, down, amexThread[t].fd)
       \/ s \notin amexButtons /\ AmexGoes(t, up, amexThread[t].fd) /\ UNCHANGED amexSeen
       \/ AmexGoes(t, down, amexThread[t].fd) /\ UNCHANGED amexSeen   \* the key
    /\ UNCHANGED <<amexFile, amexKernel, amexSize, amexGame, amexButtons, amexPressed>>

(* api_clear_buttons, one store after the other: both switches' buttons,
   whichever was down.                                                     *)
AmexUnpressed(s) == amexButtons \ {s}

AmexUnpress(t, s, from, to) ==
    /\ amexThread[t].at = from
    /\ amexButtons' = AmexUnpressed(s)
    /\ AmexGoes(t, to, amexThread[t].fd)
    /\ UNCHANGED <<amexFile, amexKernel, amexSize, amexGame, amexPressed, amexSeen>>

AmexGetSwitches(t) ==
    \/ /\ \E d \in AmexMemories : amexFile[d] \in amexGame
       /\ AmexLook(t, "test", "idle", "test1", "service")
    \/ AmexUnpress(t, "test", "test1", "test2")
    \/ AmexUnpress(t, "service", "test2", "service")
    \/ AmexLook(t, "service", "service", "service1", "idle")
    \/ AmexUnpress(t, "test", "service1", "service2")
    \/ AmexUnpress(t, "service", "service2", "idle")

(* api_parse, on the API's thread *)
AmexPress(s) ==
    /\ amexPressed[s] < AmexPresses
    /\ amexButtons' = amexButtons \cup {s}
    /\ amexPressed' = [amexPressed EXCEPT ![s] = @ + 1]
    /\ UNCHANGED <<amexFile, amexKernel, amexSize, amexThread, amexGame, amexSeen>>

AmexNext ==
    \/ \E t \in AmexThreads :
          \/ \E d \in AmexDevices : AmexOpenMemory(t, d) \/ AmexOpenStore(t, d)
          \/ AmexClear(t) \/ AmexCreate(t) \/ AmexResize(t) \/ AmexResizeFails(t)
          \/ AmexPublish(t) \/ AmexAnswer(t) \/ AmexOpenOther(t)
          \/ \E fd \in amexGame : AmexClose(t, fd)
          \/ AmexCloseHandle(t) \/ AmexGetSwitches(t)
    \/ \E s \in AmexSwitches : AmexPress(s)

AmexSpec == AmexInit /\ [][AmexNext]_amexVars

-----------------------------------------------------------------------------
(* Properties *)

(* A device's handle is open to that device, or there is none: no handler
   takes the requests of a handle that Windows has given to another file
   since, whichever threads open and close at the same time.               *)
AmexOwnHandles ==
    \A d \in AmexDevices : amexFile[d] # AmexNone => amexKernel[amexFile[d]] = d

(* A store that the game can reach has the length of the device. *)
AmexStoresSized ==
    \A d \in AmexStores : amexFile[d] # AmexNone => amexSize[d] = "right"

(* No thread is told of a press by the network twice, although what others have
   seen is cleared later, and clears what it has not seen yet.  Two threads may
   both be told of one, and a press may be cleared unseen.                 *)
AmexPressesOnce ==
    \A t \in AmexThreads, s \in AmexSwitches : amexSeen[t][s] <= amexPressed[s]
=============================================================================
