------------------------------- MODULE Registry -------------------------------
(***************************************************************************)
(* The registry hook (hooklib/reg.c): keys that hook modules push, whose   *)
(* values are answered by their handlers, in front of the real registry.   *)
(*                                                                         *)
(* An open virtual key is known by the real handle that stands for it, and *)
(* the kernel gives a handle out again once it is closed.  Several threads *)
(* open, query, write and close keys; each call looks at the table under   *)
(* reg_hook_lock and leaves the lock before it goes on to the next hook.   *)
(***************************************************************************)
EXTENDS Naturals

CONSTANTS
    RegThreads,
    RegKeys,      \* the keys that hook modules push
    RegReal,      \* keys of the real registry; may share names with RegKeys
    RegHandles,   \* handles the kernel gives out
    RegNone,      \* NULL
    RegLength     \* characters of a string value

ASSUME RegNoneAssumption ==
    RegNone \notin RegHandles \cup RegKeys \cup RegReal \cup {"SOFTWARE"}
ASSUME RegLengthAssumption == RegLength \in Nat

(* "opaque" has no read handler, "absent" is not among the key's values. *)
RegValues == {"dword", "string", "opaque", "absent"}
RegForms  == {"A", "W"}

VARIABLES
    regPushed,  \* reg_hook_keys: the keys pushed so far
    regHandle,  \* key->handle
    regKernel,  \* what the kernel has open under each handle
    regAt,      \* the call of a thread that is past the lock
    regMine,    \* the key a thread has opened (the program's)
    regTold,    \* the value and the size of its last query (the program's)
    regAnswer   \* who answered a thread's last call, and how

regVars == <<regPushed, regHandle, regKernel, regAt, regMine, regTold, regAnswer>>

RegNothing == [handle |-> RegNone, name |-> RegNone, virtual |-> FALSE]
RegSilence == [by |-> RegNone, virtual |-> FALSE, err |-> "SUCCESS"]
RegUntold  == [value |-> "absent", form |-> "W", size |-> 0]

RegTypeOK ==
    /\ regPushed \subseteq RegKeys
    /\ regHandle \in [RegKeys -> RegHandles \cup {RegNone}]
    /\ regKernel \in [RegHandles -> RegReal \cup RegKeys \cup {"SOFTWARE", RegNone}]
    /\ regAt \in [RegThreads -> {"idle", "open", "close", "query", "set"}]
    /\ \A t \in RegThreads : regMine[t].handle \in RegHandles \cup {RegNone}

RegInit ==
    /\ regPushed = {}
    /\ regHandle = [k \in RegKeys |-> RegNone]
    /\ regKernel = [h \in RegHandles |-> RegNone]
    /\ regAt = [t \in RegThreads |-> "idle"]
    /\ regMine = [t \in RegThreads |-> RegNothing]
    /\ regTold = [t \in RegThreads |-> RegUntold]
    /\ regAnswer = [t \in RegThreads |-> RegSilence]

RegFree == {h \in RegHandles : regKernel[h] = RegNone}

RegAnswered(t, by, virtual, err) ==
    regAnswer' = [regAnswer EXCEPT ![t] = [by |-> by, virtual |-> virtual, err |-> err]]

-----------------------------------------------------------------------------
(* Seeded faults: what a definition below might have been by mistake; each one
   breaks a property, and none is part of the specification.               *)

(* The handle is closed before the table forgets it. *)
RegCloseKey_KernelFirst(t) ==
    /\ regAt[t] = "idle" /\ regMine[t].handle # RegNone
    /\ regAt' = [regAt EXCEPT ![t] = "close"]
    /\ regKernel' = [regKernel EXCEPT ![regMine[t].handle] = RegNone]
    /\ UNCHANGED <<regPushed, regHandle, regMine, regTold, regAnswer>>

(* The size of a string leaves its terminator out. *)
RegSize_NoTerminator(v, form) ==
    CASE v = "dword"                  -> 4
      [] v = "string" /\ form = "A"   -> RegLength
      [] v = "string" /\ form = "W"   -> 2 * (RegLength + 1)

-----------------------------------------------------------------------------

(* reg_hook_push_key, by the start-up of a hook module *)
RegPushKey(k) ==
    /\ k \notin regPushed
    /\ regPushed' = regPushed \cup {k}
    /\ UNCHANGED <<regHandle, regKernel, regAt, regMine, regTold, regAnswer>>

(* reg_hook_open_locked for a key of the table: a handle to HKLM\SOFTWARE
   stands for it, one at a time.                                           *)
RegOpenVirtual(t, k) ==
    \/ /\ regHandle[k] # RegNone
       /\ RegAnswered(t, RegNone, TRUE, "SHARING_VIOLATION")
       /\ UNCHANGED <<regHandle, regKernel, regMine>>
    \/ /\ regHandle[k] = RegNone
       /\ \E h \in RegFree :
             /\ regKernel' = [regKernel EXCEPT ![h] = "SOFTWARE"]
             /\ regHandle' = [regHandle EXCEPT ![k] = h]
             /\ regMine' = [regMine EXCEPT ![t] =
                               [handle |-> h, name |-> k, virtual |-> TRUE]]
       /\ RegAnswered(t, RegNone, TRUE, "SUCCESS")

(* RegOpenKeyExW, RegCreateKeyExW *)
RegOpenKey(t, name) ==
    /\ regAt[t] = "idle" /\ regMine[t] = RegNothing
    /\ \/ name \in regPushed /\ RegOpenVirtual(t, name) /\ UNCHANGED regAt
       \/ /\ name \in RegReal \ regPushed
          /\ regAt' = [regAt EXCEPT ![t] = "open"]
          /\ regMine' = [regMine EXCEPT ![t].name = name]
          /\ UNCHANGED <<regHandle, regKernel, regAnswer>>
    /\ UNCHANGED <<regPushed, regTold>>

RegOpenNext(t) ==
    /\ regAt[t] = "open"
    /\ \E h \in RegFree :
          /\ regKernel' = [regKernel EXCEPT ![h] = regMine[t].name]
          /\ regMine' = [regMine EXCEPT ![t].handle = h]
    /\ regAt' = [regAt EXCEPT ![t] = "idle"]
    /\ RegAnswered(t, RegNone, FALSE, "SUCCESS")
    /\ UNCHANGED <<regPushed, regHandle, regTold>>

(* RegCloseKey: the table forgets the handle, then the kernel does. *)
RegCloseKey(t) ==
    /\ regAt[t] = "idle" /\ regMine[t].handle # RegNone
    /\ regAt' = [regAt EXCEPT ![t] = "close"]
    /\ regHandle' = [k \in RegKeys |-> IF regHandle[k] = regMine[t].handle
                                       THEN RegNone ELSE regHandle[k]]
    /\ UNCHANGED <<regPushed, regKernel, regMine, regTold, regAnswer>>

RegCloseNext(t) ==
    /\ regAt[t] = "close"
    /\ regAt' = [regAt EXCEPT ![t] = "idle"]
    /\ regKernel' = [regKernel EXCEPT ![regMine[t].handle] = RegNone]
    /\ regMine' = [regMine EXCEPT ![t] = RegNothing]
    /\ regTold' = [regTold EXCEPT ![t] = RegUntold]
    /\ regAnswer' = [regAnswer EXCEPT ![t] = RegSilence]
    /\ UNCHANGED <<regPushed, regHandle>>

(* reg_hook_match_key_locked *)
RegMatch(h) == {k \in regPushed : regHandle[k] = h}

(* The size that reg_hook_read_u32, _bin and _wstr report; the A call counts
   the characters of the narrow string.                                    *)
RegSize(v, form) ==
    CASE v = "dword"                  -> 4
      [] v = "string" /\ form = "A"   -> RegLength + 1
      [] v = "string" /\ form = "W"   -> 2 * (RegLength + 1)

(* What a buffer has to hold *)
RegNeeded(v, form) ==
    IF v = "dword" THEN 4 ELSE IF form = "A" THEN RegLength + 1 ELSE 2 * (RegLength + 1)

(* reg_hook_query_val_locked, with room for the value or without a buffer *)
RegResult(v, form, room) ==
    CASE v = "absent" -> "FILE_NOT_FOUND"
      [] v = "opaque" -> "ACCESS_DENIED"
      [] OTHER -> IF room # RegNone /\ room < RegNeeded(v, form)
                  THEN "MORE_DATA" ELSE "SUCCESS"

(* RegQueryValueExW and RegQueryValueExA: first for the size, then with a
   buffer of that size.                                                    *)
RegQuery(t, v, form, room) ==
    /\ regAt[t] = "idle" /\ regMine[t].handle # RegNone
    /\ LET keys == RegMatch(regMine[t].handle)
           err  == RegResult(v, form, room)
       IN  \/ /\ keys # {}
              /\ \E k \in keys : RegAnswered(t, k, TRUE, err)
              /\ regTold' = [regTold EXCEPT ![t] =
                    IF err = "SUCCESS"
                    THEN [value |-> v, form |-> form, size |-> RegSize(v, form)]
                    ELSE RegUntold]
              /\ UNCHANGED regAt
           \/ /\ keys = {}
              /\ regAt' = [regAt EXCEPT ![t] = "query"]
              /\ regTold' = [regTold EXCEPT ![t] = RegUntold]
              /\ UNCHANGED regAnswer
    /\ UNCHANGED <<regPushed, regHandle, regKernel, regMine>>

RegQuerySize(t, v, form) == RegQuery(t, v, form, RegNone)

RegQueryValue(t) ==
    /\ regTold[t] # RegUntold
    /\ RegQuery(t, regTold[t].value, regTold[t].form, regTold[t].size)

(* The next hook asks the kernel. *)
RegQueryNext(t) ==
    /\ regAt[t] = "query"
    /\ regAt' = [regAt EXCEPT ![t] = "idle"]
    /\ RegAnswered(t, regKernel[regMine[t].handle], FALSE, "SUCCESS")
    /\ UNCHANGED <<regPushed, regHandle, regKernel, regMine, regTold>>

(* RegSetValueExW: a virtual key swallows what is written to it, unless the
   value is not one of its own.  No hook module pushes a value with a write
   handler, so that the branch which would call one is never taken.        *)
RegSetValue(t, v) ==
    /\ regAt[t] = "idle" /\ regMine[t].handle # RegNone
    /\ LET keys == RegMatch(regMine[t].handle)
       IN  \/ /\ keys # {}
              /\ \E k \in keys :
                    RegAnswered(t, k, TRUE, IF v = "absent" THEN "FILE_NOT_FOUND"
                                                            ELSE "SUCCESS")
              /\ UNCHANGED regAt
           \/ /\ keys = {}
              /\ regAt' = [regAt EXCEPT ![t] = "set"]
              /\ UNCHANGED regAnswer
    /\ regTold' = [regTold EXCEPT ![t] = RegUntold]
    /\ UNCHANGED <<regPushed, regHandle, regKernel, regMine>>

RegSetNext(t) ==
    /\ regAt[t] = "set"
    /\ regAt' = [regAt EXCEPT ![t] = "idle"]
    /\ RegAnswered(t, regKernel[regMine[t].handle], FALSE, "SUCCESS")
    /\ UNCHANGED <<regPushed, regHandle, regKernel, regMine, regTold>>

RegNext ==
    \/ \E k \in RegKeys : RegPushKey(k)
    \/ \E t \in RegThreads :
          \/ \E n \in RegKeys \cup RegReal : RegOpenKey(t, n)
          \/ RegOpenNext(t) \/ RegCloseKey(t) \/ RegCloseNext(t)
          \/ \E v \in RegValues, f \in RegForms : RegQuerySize(t, v, f)
          \/ RegQueryValue(t) \/ RegQueryNext(t)
          \/ \E v \in {"dword", "absent"} : RegSetValue(t, v)
          \/ RegSetNext(t)

RegSpec == RegInit /\ [][RegNext]_regVars

-----------------------------------------------------------------------------
(* Properties *)

(* A call on an open key is answered for that key: by the hook for a key that
   was opened as a virtual one, by the kernel for a real one, however handles
   are closed and given out again; in particular, nothing that the program
   writes to a virtual key reaches HKLM\SOFTWARE.                          *)
RegAnsweredByKey ==
    \A t \in RegThreads :
       regAnswer[t].by # RegNone => /\ regAnswer[t].by = regMine[t].name
                                    /\ regAnswer[t].virtual = regMine[t].virtual

(* A buffer of the size that a query reported holds the value: the query with
   it does not say MORE_DATA.                                              *)
RegSizeSuffices == \A t \in RegThreads : regAnswer[t].err # "MORE_DATA"
=============================================================================
