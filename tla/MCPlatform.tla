------------------------------ MODULE MCPlatform ------------------------------
(***************************************************************************)
(* The parts that stand in for Windows and for the small boards, for TLC.  *)
(* They share no state and call each other only at start-up (StartUp), so  *)
(* that each is looked at with the others at rest: `focus' names the one   *)
(* that moves.  The names of Jvs, which has none of its own kind in front, *)
(* are those of the JVS port.                                              *)
(***************************************************************************)
EXTENDS Jvs, Platform, TLC

CONSTANTS
    t1, t2,   \* threads
    b1, b2    \* LED boards

VARIABLE focus

MCDirs == [amfs |-> <<"mnt", "amfs">>, appdata |-> <<"mnt", "app">>, nthome |-> <<"home">>]

MCHosts == [router |-> "localhost", startup |-> "server", billing |-> "server",
            aimedb |-> "server", eagate |-> "eagate"]

(* netenv: on a network with a keychip's subnet, forced without one, as a soft
   hook.                                                                   *)
MCNetConfigs ==
    {[enable |-> 1, keychip |-> TRUE, force |-> FALSE, full |-> FALSE, tracert |-> FALSE],
     [enable |-> 1, keychip |-> FALSE, force |-> TRUE, full |-> TRUE, tracert |-> TRUE],
     [enable |-> 2, keychip |-> TRUE, force |-> FALSE, full |-> FALSE, tracert |-> FALSE]}

(* New York, where the date differs from the one in Japan for most of a day *)
MCZone == -5

MCClockConfigs ==
    {[timezone |-> TRUE, timewarp |-> TRUE, writeable |-> FALSE],
     [timezone |-> FALSE, timewarp |-> TRUE, writeable |-> FALSE],
     [timezone |-> TRUE, timewarp |-> FALSE, writeable |-> TRUE]}

MCNusecConfigs == [skip : BOOLEAN, ca : BOOLEAN, limit : {5}]

MCLedSource == (b1 :> "board") @@ (b2 :> "chuni")

(* An empty one, sync and escape bytes and the byte below, and checksums that
   are a sync byte or an escape                                            *)
MCFramePayloads ==
    ("slider" :> {<<>>, <<255, 253>>, <<252>>, <<0>>, <<2>>}) @@
    ("led"    :> {<<>>, <<224, 208>>, <<223>>, <<221>>, <<205>>}) @@
    ("rfid"   :> {<<>>, <<224, 208>>, <<223>>, <<222>>, <<206>>}) @@
    ("sg"     :> {<<>>, <<224, 208>>, <<223>>, <<218>>, <<202>>}) @@
    ("jvs"    :> {<<>>, <<224, 208>>, <<223>>, <<221>>, <<205>>})

MCFrameNoises == {<<>>, <<208>>, <<1, 3, 1, 3, 1, 3>>}

Parts == {"jvs", "registry", "paths", "libraries", "devices", "names", "network", "clock",
          "nusec", "amex", "led", "start", "vfd", "gfx", "frames"}

At(part, choice) == focus # part => choice

(* A part at rest begins in one of its initial states. *)
PlatformInit ==
    /\ focus \in Parts
    /\ Init /\ RegInit /\ HookInit /\ DnsInit /\ LedInit
    /\ AmexInit /\ At("amex", amexSize["eeprom"] = "right"
                              /\ amexFile["gpio"] = CHOOSE h \in AmexHandles : TRUE)
    /\ PathInit /\ At("paths", vfsOption)
    /\ NetInit /\ At("network", netConfig.enable = 2)
    /\ ClockInit /\ At("clock", ~clockConfig.timewarp /\ clockCall = "GetLocalTime")
    /\ NusecInit /\ At("nusec", nusecConfig = [skip |-> FALSE, ca |-> FALSE, limit |-> 5])
    /\ StartInit /\ At("start", startGame = "mu3")
    /\ VfdInit /\ At("vfd", vfdConfig = [api |-> FALSE, utf |-> FALSE])
    /\ GfxInit /\ At("gfx", gfxHook = "d3d9" /\ gfxShared /\ gfxOffers = {} /\ gfxExports = {}
                            /\ gfxConfig = [enable |-> FALSE, windowed |-> FALSE])
    /\ FrameInit /\ At("frames", frameFormat = "jvs")

StillRegistry == UNCHANGED regVars
StillPaths == UNCHANGED pathVars
StillHooks == UNCHANGED hookVars
StillNet == UNCHANGED <<dnsVars, netVars>>
StillTime == UNCHANGED <<clockVars, nusecVars>>
StillBoards == UNCHANGED <<amexVars, ledVars, vfdVars, frameVars>>
StillGame == UNCHANGED <<startVars, gfxVars, vars>>
StillSystem == StillRegistry /\ StillPaths /\ StillHooks
StillDevices == StillNet /\ StillTime /\ StillBoards

PlatformNext ==
    /\ UNCHANGED focus
    /\ \/ /\ focus = "jvs" /\ Next /\ UNCHANGED <<startVars, gfxVars>>
          /\ StillSystem /\ StillDevices
       \/ /\ focus = "registry" /\ RegNext
          /\ StillPaths /\ StillHooks /\ StillDevices /\ StillGame
       \/ /\ focus = "paths" /\ PathNext
          /\ StillRegistry /\ StillHooks /\ StillDevices /\ StillGame
       \/ /\ focus = "libraries" /\ LibNext
          /\ StillRegistry /\ StillPaths /\ StillDevices /\ StillGame
       \/ /\ focus = "devices" /\ DevNext
          /\ StillRegistry /\ StillPaths /\ StillDevices /\ StillGame
       \/ /\ focus = "names" /\ DnsNext /\ UNCHANGED netVars
          /\ StillSystem /\ StillTime /\ StillBoards /\ StillGame
       \/ /\ focus = "network" /\ NetNext /\ UNCHANGED dnsVars
          /\ StillSystem /\ StillTime /\ StillBoards /\ StillGame
       \/ /\ focus = "clock" /\ ClockNext /\ UNCHANGED nusecVars
          /\ StillSystem /\ StillNet /\ StillBoards /\ StillGame
       \/ /\ focus = "nusec" /\ NusecNext /\ UNCHANGED clockVars
          /\ StillSystem /\ StillNet /\ StillBoards /\ StillGame
       \/ /\ focus = "amex" /\ AmexNext /\ UNCHANGED <<ledVars, vfdVars, frameVars>>
          /\ StillSystem /\ StillNet /\ StillTime /\ StillGame
       \/ /\ focus = "led" /\ ledMixed = {}   \* behind a mix nothing is claimed
          /\ LedNext /\ UNCHANGED <<amexVars, vfdVars, frameVars>>
          /\ StillSystem /\ StillNet /\ StillTime /\ StillGame
       \/ /\ focus = "vfd" /\ VfdNext /\ UNCHANGED <<amexVars, ledVars, frameVars>>
          /\ StillSystem /\ StillNet /\ StillTime /\ StillGame
       \/ /\ focus = "frames" /\ ~frameSlipped   \* behind a slip nothing is claimed
          /\ FrameNext /\ UNCHANGED <<amexVars, ledVars, vfdVars>>
          /\ StillSystem /\ StillNet /\ StillTime /\ StillGame
       \/ /\ focus = "start" /\ StartNext /\ UNCHANGED <<gfxVars, vars>>
          /\ StillSystem /\ StillDevices
       \/ /\ focus = "gfx" /\ GfxNext /\ UNCHANGED <<startVars, vars>>
          /\ StillSystem /\ StillDevices

platformVars == <<focus, vars, regVars, pathVars, hookVars, dnsVars, netVars,
                  clockVars, nusecVars, amexVars, ledVars, startVars, vfdVars, gfxVars, frameVars>>

PlatformSpec == PlatformInit /\ [][PlatformNext]_platformVars
=============================================================================
