--------------------------------- MODULE Names ---------------------------------
(***************************************************************************)
(* Host names that lead elsewhere: the resolver's hooks (hooklib/dns.c) and *)
(* the names that the platform pushes (platform/dns.c).  The game's threads *)
(* ask for names in any order, each with a request of its own.             *)
(***************************************************************************)
EXTENDS Naturals

CONSTANTS
    DnsThreads,
    DnsHosts      \* [router, startup, billing, aimedb, eagate]: where names lead

ASSUME DnsHostsAssumption ==
    DOMAIN DnsHosts = {"router", "startup", "billing", "aimedb", "eagate"}

VARIABLES
    dnsTable,    \* dns_hook_entries
    dnsRequest,  \* QueryName of a thread's DNS_QUERY_REQUEST
    dnsCall,     \* the name that a thread asks for
    dnsAsked     \* names that the real resolver was asked for

dnsVars == <<dnsTable, dnsRequest, dnsCall, dnsAsked>>

(* The host names of platform/dns.c, one for each host, and the two that must
   not resolve; any other name is left alone.                              *)
DnsRouters == {"bbrouter.loc"}
DnsDead    == {"mobirouter.loc", "dslrouter.loc"}
DnsNames   == DnsRouters \cup DnsDead \cup {"naominet.jp", "ib.naominet.jp",
                 "aime.naominet.jp", "p.eagate.573.jp", "other"}

DnsTypeOK ==
    /\ DOMAIN dnsTable \subseteq DnsNames
    /\ dnsCall \in [DnsThreads -> DnsNames \cup {"none"}]

DnsInit ==
    /\ dnsTable = <<>>
    /\ dnsRequest = [t \in DnsThreads |-> "other"]
    /\ dnsCall = [t \in DnsThreads |-> "none"]
    /\ dnsAsked = {}

-----------------------------------------------------------------------------
(* Seeded faults: what a definition below might have been by mistake; each one
   breaks a property, and none is part of the specification.               *)

(* A name without a host is asked for as it is. *)
DnsResolve_DeadPass(name) ==
    IF name \in DOMAIN dnsTable /\ dnsTable[name] # "none" THEN dnsTable[name] ELSE name

-----------------------------------------------------------------------------

(* dns_platform_hook_init: dns_hook_push for one name after the other *)
DnsPlatform ==
    [n \in DnsNames \ {"other"} |->
        CASE n \in DnsRouters           -> DnsHosts.router
          [] n = "naominet.jp"          -> DnsHosts.startup
          [] n = "ib.naominet.jp"       -> DnsHosts.billing
          [] n = "aime.naominet.jp"     -> DnsHosts.aimedb
          [] n = "p.eagate.573.jp"      -> DnsHosts.eagate
          [] n \in DnsDead              -> "none"]

DnsHookPush ==
    /\ DOMAIN dnsTable = {}
    /\ dnsTable' = DnsPlatform
    /\ UNCHANGED <<dnsRequest, dnsCall, dnsAsked>>

(* The name to ask for instead, or "none" for a name that must not resolve *)
DnsResolve(name) == IF name \in DOMAIN dnsTable THEN dnsTable[name] ELSE name

DnsAsk(name) == dnsAsked' = IF DnsResolve(name) = "none" THEN dnsAsked
                            ELSE dnsAsked \cup {DnsResolve(name)}

(* hook_DnsQuery_A, hook_DnsQuery_W *)
DnsQuery(t, name) ==
    /\ DOMAIN dnsTable # {} /\ dnsCall[t] = "none"
    /\ DnsAsk(name)
    /\ UNCHANGED <<dnsTable, dnsRequest, dnsCall>>

(* hook_getaddrinfo *)
DnsGetAddrInfo(t, name) ==
    /\ DOMAIN dnsTable # {} /\ dnsCall[t] = "none"
    /\ DnsAsk(name)
    /\ UNCHANGED <<dnsTable, dnsRequest, dnsCall>>

(* hook_DnsQueryEx changes the request for the time of the call. *)
DnsQueryEx(t, name) ==
    /\ DOMAIN dnsTable # {} /\ dnsCall[t] = "none"
    /\ DnsResolve(name) # "none"
    /\ dnsCall' = [dnsCall EXCEPT ![t] = name]
    /\ dnsRequest' = [dnsRequest EXCEPT ![t] = DnsResolve(name)]
    /\ UNCHANGED <<dnsTable, dnsAsked>>

DnsQueryExDone(t) ==
    /\ dnsCall[t] # "none"
    /\ dnsAsked' = dnsAsked \cup {dnsRequest[t]}
    /\ dnsRequest' = [dnsRequest EXCEPT ![t] = dnsCall[t]]
    /\ dnsCall' = [dnsCall EXCEPT ![t] = "none"]
    /\ UNCHANGED dnsTable

DnsNext ==
    \/ DnsHookPush
    \/ \E t \in DnsThreads :
          \/ \E n \in DnsNames : DnsQuery(t, n) \/ DnsGetAddrInfo(t, n) \/ DnsQueryEx(t, n)
          \/ DnsQueryExDone(t)

DnsSpec == DnsInit /\ [][DnsNext]_dnsVars

-----------------------------------------------------------------------------
(* Properties *)

(* No vendor's host name, and neither of the two that must not resolve, ever
   reaches the real resolver.                                              *)
DnsNeverLeaves ==
    \A n \in dnsAsked : n = "other" \/ \E h \in DOMAIN DnsHosts : n = DnsHosts[h]
=============================================================================
