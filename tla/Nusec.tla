--------------------------------- MODULE Nusec ---------------------------------
(***************************************************************************)
(* The security device (platform/nusec.c): play counts and limits, files   *)
(* with certificates, and a log of records that the billing library puts,  *)
(* reads and erases.                                                       *)
(*                                                                         *)
(* Records are put by the game's thread, and read and erased by the one    *)
(* that sends them: it asks for the state of the log, reads records, and   *)
(* erases as many as it has read.  A call is one step; the device has no   *)
(* lock, but the log's two ends belong to one thread each.                 *)
(***************************************************************************)
EXTENDS Integers

CONSTANTS
    NusecSize,     \* _countof(nusec_log): 7154 in the code
    NusecConfigs,  \* [skip, ca, limit]: skip_trace_erase, whether the
                   \* certificate's file exists, initial_playlimit
    NusecWord,     \* 2^32 in the code
    NusecDeltas,   \* plays that the game adds at a time
    NusecMax       \* bound: records ever put

ASSUME NusecSizeAssumption == NusecSize \in Nat \ {0}
ASSUME NusecBoundsAssumption ==
    /\ NusecMax \in Nat /\ NusecWord \in Nat /\ NusecMax < NusecWord
    /\ NusecDeltas \subseteq Nat

VARIABLES
    nusecConfig,
    nusecHead, nusecTail,   \* nusec_log_head, nusec_log_tail
    nusecLog,               \* nusec_log: which record is in each place
    nusecPlays, nusecLimit, \* nusec_play_count, nusec_play_limit
    nusecState,             \* the log as the sender was told (the library's)
    nusecRead,              \* the records it has read since (the library's)
    nusecCert,              \* the certificate as the library has it
    nusecOpen               \* files that an ioctl has opened

nusecVars == <<nusecConfig, nusecHead, nusecTail, nusecLog, nusecPlays, nusecLimit,
               nusecState, nusecRead, nusecCert, nusecOpen>>

NusecNoState == [tail |-> 0, count |-> 0, asked |-> FALSE]

NusecTypeOK ==
    /\ nusecConfig \in NusecConfigs
    /\ nusecHead \in 0 .. NusecMax /\ nusecTail \in 0 .. NusecMax
    /\ nusecLog \in [0 .. NusecSize - 1 -> -1 .. NusecMax]
    /\ nusecPlays \in 0 .. NusecWord - 1
    /\ nusecState \in [tail : Nat, count : Nat, asked : BOOLEAN]

(* Records are numbered as they are put; -1 is none. *)
NusecInit ==
    /\ nusecConfig \in NusecConfigs
    /\ nusecHead = 0 /\ nusecTail = 0
    /\ nusecLog = [i \in 0 .. NusecSize - 1 |-> -1]
    /\ nusecPlays = 0 /\ nusecLimit = nusecConfig.limit
    /\ nusecState = NusecNoState /\ nusecRead = {}
    /\ nusecCert = "none" /\ nusecOpen = 0

-----------------------------------------------------------------------------
(* Seeded faults: what a definition below might have been by mistake; each one
   breaks a property, and none is part of the specification.               *)

(* The log is full one record too late. *)
NusecFull_OneMore == nusecHead - nusecTail > NusecSize

(* Records are read up to the end of the log, whatever their number. *)
NusecRecords_All(pos, count) ==
    {nusecLog[p % NusecSize] : p \in pos .. nusecHead - 1}

-----------------------------------------------------------------------------
(* The log *)

NusecFull == nusecHead - nusecTail >= NusecSize

(* nusec_ioctl_put_trace_log_data; a full log refuses the record. *)
NusecPut ==
    /\ ~NusecFull /\ nusecHead < NusecMax
    /\ nusecLog' = [nusecLog EXCEPT ![nusecHead % NusecSize] = nusecHead]
    /\ nusecHead' = nusecHead + 1
    /\ UNCHANGED <<nusecConfig, nusecTail, nusecPlays, nusecLimit, nusecState,
                   nusecRead, nusecCert, nusecOpen>>

(* nusec_ioctl_get_trace_log_state *)
NusecGetState ==
    /\ nusecState' = [tail |-> nusecTail, count |-> nusecHead - nusecTail,
                      asked |-> TRUE]
    /\ nusecRead' = {}
    /\ UNCHANGED <<nusecConfig, nusecHead, nusecTail, nusecLog, nusecPlays,
                   nusecLimit, nusecCert, nusecOpen>>

(* nusec_ioctl_get_trace_log_data: count records from pos on, or up to the
   end of the log; the library asks for some of those it was told of.      *)
NusecRecords(pos, count) ==
    {nusecLog[p % NusecSize] :
        p \in {q \in pos .. pos + count - 1 : q < nusecHead}}

NusecGetData(count) ==
    /\ nusecState.asked /\ count \in 1 .. nusecState.count
    /\ nusecRead' = nusecRead \cup NusecRecords(nusecState.tail, count)
    /\ UNCHANGED <<nusecConfig, nusecHead, nusecTail, nusecLog, nusecPlays,
                   nusecLimit, nusecState, nusecCert, nusecOpen>>

(* Where the log begins after nusec_ioctl_erase_trace_log: the count is raised
   to all there is, never lowered.                                         *)
NusecErased(count) ==
    nusecTail + (IF count < nusecHead - nusecTail THEN nusecHead - nusecTail ELSE count)

NusecErase ==
    /\ nusecState.asked
    /\ nusecTail' = IF nusecConfig.skip THEN nusecTail
                    ELSE NusecErased(nusecState.count)
    /\ nusecState' = NusecNoState /\ nusecRead' = {}
    /\ UNCHANGED <<nusecConfig, nusecHead, nusecLog, nusecPlays, nusecLimit,
                   nusecCert, nusecOpen>>

-----------------------------------------------------------------------------
(* Counts *)

(* nusec_ioctl_add_play_count *)
NusecAddPlays(delta) ==
    /\ nusecPlays' = (nusecPlays + delta) % NusecWord
    /\ UNCHANGED <<nusecConfig, nusecHead, nusecTail, nusecLog, nusecLimit,
                   nusecState, nusecRead, nusecCert, nusecOpen>>

(* nusec_ioctl_put_play_limit; nusec_ioctl_put_nearfull is the same. *)
NusecPutLimit(limit) ==
    /\ nusecLimit' = limit
    /\ UNCHANGED <<nusecConfig, nusecHead, nusecTail, nusecLog, nusecPlays,
                   nusecState, nusecRead, nusecCert, nusecOpen>>

(* nusec_ioctl_get_nvram_available *)
NusecAvailable == NusecSize - (nusecHead - nusecTail)

-----------------------------------------------------------------------------
(* nusec_ioctl_get_billing_ca_cert, nusec_ioctl_get_billing_pubkey: the ioctl
   opens the file, becomes a read of it, and closes it, whatever comes.    *)

NusecCertOpen ==
    /\ nusecOpen = 0
    /\ IF nusecConfig.ca THEN nusecOpen' = 1 /\ UNCHANGED nusecCert
                         ELSE nusecCert' = "error" /\ UNCHANGED nusecOpen
    /\ UNCHANGED <<nusecConfig, nusecHead, nusecTail, nusecLog, nusecPlays,
                   nusecLimit, nusecState, nusecRead>>

NusecCertRead ==
    /\ nusecOpen = 1
    /\ nusecCert' \in {"read", "error"}
    /\ nusecOpen' = 0
    /\ UNCHANGED <<nusecConfig, nusecHead, nusecTail, nusecLog, nusecPlays,
                   nusecLimit, nusecState, nusecRead>>

NusecNext ==
    \/ NusecPut \/ NusecGetState \/ NusecErase
    \/ \E count \in 1 .. NusecSize : NusecGetData(count)
    \/ \E delta \in NusecDeltas : NusecAddPlays(delta) \/ NusecPutLimit(delta)
    \/ NusecCertOpen \/ NusecCertRead

NusecSpec == NusecInit /\ [][NusecNext]_nusecVars

-----------------------------------------------------------------------------
(* Properties *)

(* The log holds every record between its ends in its place, and no more than
   it has places for: none is overwritten before it is erased, however often
   the two counters have gone around.                                      *)
NusecLogWhole ==
    /\ nusecTail <= nusecHead /\ nusecHead - nusecTail <= NusecSize
    /\ \A p \in nusecTail .. nusecHead - 1 : nusecLog[p % NusecSize] = p

(* What the sender reads are the records that it was told of. *)
NusecReadsTold ==
    nusecRead \subseteq nusecState.tail .. nusecState.tail + nusecState.count - 1
=============================================================================
