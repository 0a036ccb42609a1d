-------------------------------- MODULE Network --------------------------------
(***************************************************************************)
(* The network that the game sees: an Ethernet adapter, a route and pings  *)
(* that are made up (platform/netenv.c).                                   *)
(*                                                                         *)
(* The game's threads ask in any order.  What they are told is kept as a   *)
(* set of facts [field, value, by].                                        *)
(***************************************************************************)
EXTENDS Naturals

CONSTANTS
    NetThreads,
    NetConfigs    \* [enable, keychip, force, full, tracert]: netenv's settings

ASSUME NetConfigsAssumption ==
    NetConfigs \subseteq [enable : 0 .. 2, keychip : BOOLEAN, force : BOOLEAN,
                          full : BOOLEAN, tracert : BOOLEAN]

VARIABLES
    netConfig,   \* the configuration
    netHooks,    \* which tables are applied
    netIface, netRouter, netBcast, \* netenv_ip_iface, _router, _bcast
    netFacts,    \* what the game has been told
    netRoom,     \* the size of each answer, as far as the game knows it
    netPing,     \* a thread's IcmpSendEcho2
    netEvent,    \* its event
    netReply     \* its reply buffer

netVars == <<netConfig, netHooks, netIface, netRouter, netBcast, netFacts, netRoom,
             netPing, netEvent, netReply>>

NetCalls == {"GetAdaptersAddresses", "GetAdaptersInfo", "GetIfTable",
             "GetBestRoute", "WSAIoctl"}

NetTypeOK ==
    /\ netConfig \in NetConfigs
    /\ netHooks \subseteq {"full", "soft", "ws2"}
    /\ netRoom \in [NetCalls -> {"unknown", "told"}]
    /\ netPing \in [NetThreads -> {"idle", "filled", "pending"}]

NetInit ==
    /\ netConfig \in NetConfigs
    /\ netHooks = {} /\ netIface = "unset" /\ netRouter = "unset" /\ netBcast = "unset"
    /\ netFacts = {}
    /\ netRoom = [c \in NetCalls |-> "unknown"]
    /\ netPing = [t \in NetThreads |-> "idle"]
    /\ netEvent = [t \in NetThreads |-> FALSE]
    /\ netReply = [t \in NetThreads |-> FALSE]

-----------------------------------------------------------------------------
(* Seeded faults: what a definition below might have been by mistake; each one
   breaks a property, and none is part of the specification.               *)

(* The route is the one of the subnet, whatever the router is. *)
NetRoute_Subnet(by) == {[field |-> "router", value |-> "subnet router", by |-> by],
                        [field |-> "index", value |-> "1", by |-> by]}

(* The event is set before the reply is there. *)
NetFill_EventFirst(t) ==
    /\ netPing[t] = "idle" /\ netPing' = [netPing EXCEPT ![t] = "filled"]
    /\ netEvent' = [netEvent EXCEPT ![t] = TRUE]
    /\ UNCHANGED <<netConfig, netHooks, netIface, netRouter, netBcast, netFacts,
                   netRoom, netReply>>

-----------------------------------------------------------------------------
(* Start-up *)

(* netenv_hook_init: with the keychip, or when forced; 2 is the soft table. *)
NetHookInit ==
    /\ netHooks = {} /\ netConfig.enable # 0
    /\ netConfig.keychip \/ netConfig.force
    /\ netHooks' = {IF netConfig.enable = 2 THEN "soft" ELSE "full", "ws2"}
    /\ netIface' = IF netConfig.full THEN "virtual_ipaddr" ELSE "subnet interface"
    /\ netRouter' = IF netConfig.full THEN "virtual_router" ELSE "subnet router"
    /\ netBcast' = IF netConfig.full THEN "virtual_bcast" ELSE "unset"
    /\ UNCHANGED <<netConfig, netFacts, netRoom, netPing, netEvent, netReply>>

-----------------------------------------------------------------------------
(* The adapter *)

NetUnchanged == UNCHANGED <<netConfig, netHooks, netIface, netRouter, netBcast,
                            netPing, netEvent, netReply>>

NetFact(field, value, by) == [field |-> field, value |-> value, by |-> by]

(* hook_GetAdaptersAddresses *)
NetAdaptersAddresses(by) ==
    {NetFact("address", netIface, by), NetFact("router", netRouter, by),
     NetFact("mac", "config mac", by), NetFact("index", "1", by),
     NetFact("mask", "24 bits", by)}

(* hook_GetAdaptersInfo *)
NetAdaptersInfo(by) ==
    {NetFact("address", netIface, by), NetFact("router", netRouter, by),
     NetFact("mac", "config mac", by), NetFact("index", "1", by),
     NetFact("mask", "24 bits", by)}

(* hook_GetIfTable *)
NetIfTable(by) == {NetFact("mac", "config mac", by), NetFact("index", "1", by)}

(* hook_GetBestRoute *)
NetRoute(by) == {NetFact("router", netRouter, by), NetFact("index", "1", by)}

(* hook_WSAIoctl gives the broadcast address as the mask. *)
NetWSAIoctl(by) == {NetFact("address", netIface, by), NetFact("mask", netBcast, by)}

NetAnswer(call) ==
    CASE call = "GetAdaptersAddresses" -> NetAdaptersAddresses(call)
      [] call = "GetAdaptersInfo"      -> NetAdaptersInfo(call)
      [] call = "GetIfTable"           -> NetIfTable(call)
      [] call = "GetBestRoute"         -> NetRoute(call)
      [] call = "WSAIoctl"             -> NetWSAIoctl(call)

NetHooked(call) == IF call = "WSAIoctl" THEN "ws2" \in netHooks ELSE "full" \in netHooks

(* What Windows tells of the real network *)
NetReal(by) == {NetFact("address", "real", by), NetFact("router", "real", by),
                NetFact("mac", "real", by), NetFact("index", "real", by)}

(* The game's first call is too small for the answer and tells it the size;
   GetBestRoute and WSAIoctl need no such call.                            *)
NetCall(call) ==
    /\ netHooks # {}
    /\ \/ /\ netRoom[call] = "unknown" /\ call \notin {"GetBestRoute", "WSAIoctl"}
          /\ netRoom' = [netRoom EXCEPT ![call] = "told"]
          /\ UNCHANGED netFacts
       \/ /\ netRoom[call] = "told" \/ call \in {"GetBestRoute", "WSAIoctl"}
          /\ netFacts' = netFacts \cup (IF NetHooked(call) THEN NetAnswer(call)
                                                         ELSE NetReal(call))
          /\ UNCHANGED netRoom
    /\ NetUnchanged

(* hook_IcmpSendEcho2 with an event: the reply is written, ... *)
NetFill(t) ==
    /\ netHooks # {} /\ netPing[t] = "idle"
    /\ netPing' = [netPing EXCEPT ![t] = "filled"]
    /\ netReply' = [netReply EXCEPT ![t] = TRUE]
    /\ UNCHANGED <<netConfig, netHooks, netIface, netRouter, netBcast, netFacts,
                   netRoom, netEvent>>

(* ... then the event is set, and the call is said to be pending. *)
NetSetEvent(t) ==
    /\ netPing[t] = "filled" /\ netPing' = [netPing EXCEPT ![t] = "pending"]
    /\ netEvent' = [netEvent EXCEPT ![t] = TRUE]
    /\ UNCHANGED <<netConfig, netHooks, netIface, netRouter, netBcast, netFacts,
                   netRoom, netReply>>

(* hook_IcmpSendEcho answers on the spot; so does IcmpSendEcho2 without event. *)
NetEcho(t) ==
    /\ netHooks # {} /\ netPing[t] = "idle"
    /\ netFacts' = netFacts \cup {NetFact("ping", "1 ms", "IcmpSendEcho")}
    /\ UNCHANGED netRoom /\ NetUnchanged

(* hook_GetRTTAndHopCount *)
NetTrace ==
    /\ netHooks # {}
    /\ netFacts' = netFacts \cup
          {NetFact("hops", IF netConfig.tracert THEN "1" ELSE "real", "GetRTTAndHopCount")}
    /\ UNCHANGED netRoom /\ NetUnchanged

(* The game sees its event. *)
NetPingSeen(t) ==
    /\ netEvent[t] /\ netPing[t] = "pending"
    /\ netPing' = [netPing EXCEPT ![t] = "idle"]
    /\ netEvent' = [netEvent EXCEPT ![t] = FALSE]
    /\ netReply' = [netReply EXCEPT ![t] = FALSE]
    /\ UNCHANGED <<netConfig, netHooks, netIface, netRouter, netBcast, netFacts,
                   netRoom>>

NetNext ==
    \/ NetHookInit
    \/ \E c \in NetCalls : NetCall(c)
    \/ NetTrace
    \/ \E t \in NetThreads :
          \/ NetFill(t) \/ NetSetEvent(t) \/ NetPingSeen(t) \/ NetEcho(t)

NetSpec == NetInit /\ [][NetNext]_netVars

-----------------------------------------------------------------------------
(* Properties *)

(* Whichever calls the game makes to learn of its network, two of them never
   tell it different addresses, routers, hardware addresses or interface
   numbers.  (The masks differ, and with the soft table so does the rest: see
   the README.)                                                            *)
NetOneStory ==
    "full" \in netHooks =>
    \A f, g \in netFacts : f.field = g.field /\ f.field # "mask" => f.value = g.value

(* A thread that sees its event finds the reply in its buffer. *)
NetReplyWhole == \A t \in NetThreads : netEvent[t] => netReply[t]
=============================================================================
